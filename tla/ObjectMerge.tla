---------------------------- MODULE ObjectMerge ----------------------------
(***************************************************************************)
(* What drcachesim's scripts make of a run: the lines of the pool          *)
(* allocator become one file of allocations and one of frees for each      *)
(* process, the two are joined to objects, each cache miss is put down to  *)
(* an object of its process, and the longest time without a miss is        *)
(* computed for each object.  A process finds its files by its digits.     *)
(* Time is the place in `events'.                                          *)
(*                                                                         *)
(* A definition marked Fault is the one after it with a mistake the code   *)
(* does not make; nothing uses it.                                         *)
(***************************************************************************)
EXTENDS Integers, SequencesExt, FiniteSetsExt

CONSTANTS
  ObjPids,        \* processes
  FirstPid,       \* the one that is started
  InName,         \* <<p, q>>: the digits of p occur in those of q
  ObjSizes,       \* sizes the program asks for
  HeaderBytes,           \* size of a block's header
  MmapThreshold,  \* MMAP_THRESHOLD
  ChunkSize,      \* chunk_size, in misses
  MaxEvents,      \* bound: lines, misses and processes
  MaxObjProcs     \* bound: processes

ASSUME ObjectMergeAssumption ==
  /\ FirstPid \in ObjPids /\ InName \subseteq ObjPids \X ObjPids
  /\ \A p \in ObjPids : <<p, p>> \in InName
  /\ ObjSizes \subseteq Nat \ {0} /\ {HeaderBytes, ChunkSize} \subseteq Nat \ {0}
  /\ {MmapThreshold, MaxEvents, MaxObjProcs} \subseteq Nat

VARIABLES
  events,  \* lines of fifo_preload and cachemisses.csv, as they are written
  pools,   \* of each process: where the next block goes, what it holds, and
           \* the block that calloc or realloc is writing to before its line
  lives    \* the blocks of the processes that made them (history)

objvars == <<events, pools, lives>>

\* died is 0 while the block lives; plain: no realloc made or ended it.
Life == [pid : ObjPids, addr : Nat, size : ObjSizes, born : Nat, died : Nat,
         plain : BOOLEAN]

ObjectMergeTypeOK ==
  /\ lives \subseteq Life /\ DOMAIN pools \subseteq ObjPids
  /\ \A p \in DOMAIN pools :
       pools[p].next \in Nat /\ Cardinality(pools[p].filling) <= 1
  /\ \A i \in DOMAIN events : events[i].kind \in {"mya", "myf", "miss"}

-----------------------------------------------------------------------------
(* The run: drcachesim's allocator and the simulator, seen from the lines. *)

Now == Len(events) + 1

\* The bound: lines, also the one or two of a call that has begun, misses and
\* processes.
Open(k) == {p \in DOMAIN pools : \E f \in pools[p].filling : Cardinality(f.old) >= k}
Room(n) == Len(events) + Cardinality(Open(0)) + Cardinality(Open(1))
             + Cardinality(DOMAIN pools) + n <= MaxEvents

\* type: "r" of realloc, or another.
AllocLineOf(p, type, b) == [kind |-> "mya", type |-> type, pid |-> p,
                            size |-> b.size, addr |-> b.addr]
FreeLineOf(p, type, a)  == [kind |-> "myf", type |-> type, pid |-> p, addr |-> a]

\* malloc_mutex: the calls that take it wait for a calloc or realloc.
MutexFree(p) == pools[p].filling = {}

\* pool_alloc: the block, and where the one after it goes.
Fresh(p, n)   == [addr |-> pools[p].next + HeaderBytes, size |-> n]
NextAfter(b)  == b.addr + b.size

NewLife(p, b, plain) == [pid |-> p, addr |-> b.addr, size |-> b.size,
                         born |-> Now, died |-> 0, plain |-> plain]

\* A process frees a block of its own or one from before it was forked.
Ended(p, b, at, plain) ==
  {IF l.pid = p /\ l.addr = b.addr
   THEN [l EXCEPT !.died = at, !.plain = @ /\ plain] ELSE l : l \in lives}

\* malloc, and realloc of no block.
ObjMalloc(p, n) ==
  /\ MutexFree(p) /\ Room(1)
  /\ LET b == Fresh(p, n)
     IN /\ events' = Append(events, AllocLineOf(p, "m", b))
        /\ pools' = [pools EXCEPT ![p].next = NextAfter(b), ![p].held = @ \cup {b}]
        /\ lives' = lives \cup {NewLife(p, b, TRUE)}

\* free, and realloc to size 0.
ObjFree(p, b) ==
  /\ MutexFree(p) /\ Room(1)
  /\ events' = Append(events, FreeLineOf(p, "f", b.addr))
  /\ pools' = [pools EXCEPT ![p].held = @ \ {b}]
  /\ lives' = Ended(p, b, Now, TRUE)

\* calloc clears the block, and realloc copies the old one to it, as long as
\* that is, before anything is printed.
Fill(p, b, bytes, old) ==
  /\ MutexFree(p)
  /\ pools' = [pools EXCEPT ![p].next = NextAfter(b),
                 ![p].filling = {[block |-> b, bytes |-> bytes, old |-> old]}]
  /\ UNCHANGED <<events, lives>>

ObjCalloc(p, n)     == Room(1) /\ Fill(p, Fresh(p, n), n, {})
ObjRealloc(p, b, n) == Room(2) /\ Fill(p, Fresh(p, n), b.size, {b})

ObjCallocEnd(p) ==
  \E f \in pools[p].filling :
    /\ f.old = {}
    /\ events' = Append(events, AllocLineOf(p, "m", f.block))
    /\ pools' = [pools EXCEPT ![p].held = @ \cup {f.block}, ![p].filling = {}]
    /\ lives' = lives \cup {NewLife(p, f.block, TRUE)}

\* The new block's line comes before the old one's.
ObjReallocEnd(p) ==
  \E f \in pools[p].filling : \E b \in f.old :
    /\ events' = events \o <<AllocLineOf(p, "r", f.block),
                              FreeLineOf(p, "r", b.addr)>>
    /\ pools' = [pools EXCEPT ![p].held = (@ \ {b}) \cup {f.block},
                              ![p].filling = {}]
    /\ lives' = Ended(p, b, Now + 1, FALSE) \cup {NewLife(p, f.block, FALSE)}

ObjFork(p, q) ==
  /\ q \notin DOMAIN pools /\ MutexFree(p) /\ Room(1)
  /\ Cardinality(DOMAIN pools) < MaxObjProcs
  /\ pools' = (q :> pools[p]) @@ pools
  /\ UNCHANGED <<events, lives>>

\* What is touched, and may be missed: of a block the header or the last byte,
\* of what the allocator fills the first or the last, as realloc's copy may go
\* on behind the new block.
Touched(p) ==
  UNION {{b.addr - 1, b.addr + b.size - 1} : b \in pools[p].held} \cup
  UNION {{f.block.addr, f.block.addr + f.bytes - 1} : f \in pools[p].filling}

\* The simulator reports that a byte was not in the cache (external).
ObjMiss(p, a) ==
  /\ Room(1)
  /\ events' = Append(events, [kind |-> "miss", pid |-> p, addr |-> a])
  /\ UNCHANGED <<pools, lives>>

ObjectMergeInit ==
  /\ events = <<>> /\ lives = {}
  /\ pools = FirstPid :> [next |-> 1, held |-> {}, filling |-> {}]

ObjectMergeNext ==
  \E p \in DOMAIN pools :
    \/ \E n \in ObjSizes : \/ ObjMalloc(p, n) \/ ObjCalloc(p, n)
                           \/ \E b \in pools[p].held : ObjRealloc(p, b, n)
    \/ \E b \in pools[p].held : ObjFree(p, b)
    \/ ObjCallocEnd(p) \/ ObjReallocEnd(p)
    \/ \E a \in Touched(p) : ObjMiss(p, a)
    \/ \E q \in ObjPids : ObjFork(p, q)

ObjectMergeSpec == ObjectMergeInit /\ [][ObjectMergeNext]_objvars

-----------------------------------------------------------------------------
(* data_record.py: the rows of one file, and the processes that have one.  *)

File(kind, p) == {i \in DOMAIN events : events[i].kind = kind /\ events[i].pid = p}
Filed(kind)   == {p \in ObjPids : File(kind, p) # {}}

-----------------------------------------------------------------------------
(* data_merge.py.                                                          *)

\* Each file of a process puts it on the list.
Listed(p) == Cardinality({kind \in {"mya", "myf"} : p \in Filed(kind)})
OnList    == Filed("mya") \cup Filed("myf")

\* Which file is read as that of p: the last of those that have its digits.
Sources(kind, p) == {q \in Filed(kind) : <<p, q>> \in InName}
Readings ==
  {c \in [of : [OnList -> Filed("mya")], freed : [OnList -> Filed("myf")]] :
     \A p \in OnList : c.of[p] \in Sources("mya", p) /\ c.freed[p] \in Sources("myf", p)}

\* merge_alloc_free_info_to_obj_info; no realloc, nothing large.
Objects(c, p) ==
  {[addr |-> events[x[1]].addr, size |-> events[x[1]].size, alloc |-> x[1], free |-> x[2]] :
     x \in {y \in File("mya", c.of[p]) \X File("myf", c.freed[p]) :
              /\ events[y[1]].addr = events[y[2]].addr
              /\ events[y[1]].type # "r" /\ events[y[2]].type # "r"
              /\ events[y[1]].size < MmapThreshold}}

\* The script stops with an exception if a process has no file of a kind, or
\* no object: zip(*[]) has nothing to unpack.
Merges(c) == \A p \in OnList : Objects(c, p) # {}

\* miss_addr_to_data_addr: the last object at or before the address.
DataAddrFault(c, p, a) ==
  IF p \notin OnList THEN 0
  ELSE LET before == {o \in Objects(c, p) : o.addr <= a}
       IN IF before = {} THEN 0 ELSE Max({o.addr : o \in before})

DataAddr(c, p, a) ==
  IF p \notin OnList THEN 0
  ELSE LET before == {o \in Objects(c, p) : o.addr <= a}
           last   == CHOOSE o \in before : \A x \in before : x.addr <= o.addr
       IN IF before # {} /\ last.addr + last.size > a THEN last.addr ELSE 0

\* The misses, in the order of cachemisses.csv.
MissTimes == SetToSortSeq({i \in DOMAIN events : events[i].kind = "miss"}, <)

\* Rows of miss_<pid>.csv: of each chunk the rows of p, as often as p is on
\* the list.
MissRows(c, p) ==
  LET row(i)   == [addr |-> DataAddr(c, p, events[i].addr), time |-> i]
      mine(s)  == SelectSeq(s, LAMBDA i : /\ events[i].pid = p
                                          /\ DataAddr(c, p, events[i].addr) # 0)
      chunks   == (Len(MissTimes) + ChunkSize - 1) \div ChunkSize
      chunk(k) == mine(SubSeq(MissTimes, (k - 1) * ChunkSize + 1,
                              Min({k * ChunkSize, Len(MissTimes)})))
      dumped(k) == FlattenSeq([n \in 1..Listed(p) |->
                     [j \in DOMAIN chunk(k) |-> row(chunk(k)[j])]])
  IN FlattenSeq([k \in 1..chunks |-> dumped(k)])

-----------------------------------------------------------------------------
(* data_show.py: max_non_access_time of an object.                         *)

MaxNonAccess(rows, o) ==
  LET misses == SelectSeq(rows, LAMBDA r : r.addr = o.addr)
      times  == SortSeq([i \in DOMAIN misses |-> misses[i].time]
                          \o <<o.alloc, o.free>>, <)
  IN IF misses = <<>> THEN -1
     ELSE Max({times[i + 1] - times[i] : i \in 1..(Len(times) - 1)})

-----------------------------------------------------------------------------
(* Property.                                                               *)

\* The block whose byte was missed: header and gaps are of none.
HitBy(l) == {i \in DOMAIN events : /\ events[i].kind = "miss"
                                   /\ events[i].pid = l.pid
                                   /\ l.addr <= events[i].addr
                                   /\ events[i].addr < l.addr + l.size}

\* Blocks the scripts take into account.
Counted(p) == {l \in lives : /\ l.pid = p /\ l.plain /\ l.died # 0
                             /\ l.size < MmapThreshold}

\* The reading in which each process gets its own files.
Own == [of |-> [p \in OnList |-> p], freed |-> [p \in OnList |-> p]]

\* As long as no process has its digits in those of another there is no other
\* reading.  With it the scripts come to an end exactly if each process that
\* wrote a line has a block that counts; then the objects are these blocks,
\* with their times of life; every miss in one is in the file, twice, because
\* the process is on the list for both of its files, and no other miss is; and
\* the time of an object that was missed is the longest in which nothing
\* missed it, in its life or, since calloc clears a block before it prints the
\* line that dates it, and realloc may copy past the end of the block before,
\* between the first of its misses and the begin of its life (data_merge.py,
\* add_max_non_access_time_colunm).
ObjectsHonest ==
  LET counted == [p \in OnList |-> Counted(p)]
      merges  == Own \in Readings /\ Merges(Own)
  IN /\ (\A p, q \in OnList : <<p, q>> \in InName => p = q) => Readings \subseteq {Own}
     /\ merges <=> \A p \in OnList : counted[p] # {}
     /\ merges => \A p \in OnList :
          LET rows    == MissRows(Own, p)
              objects == Objects(Own, p)
              hits    == [l \in counted[p] |-> HitBy(l)]
          IN /\ objects = {[addr |-> l.addr, size |-> l.size, alloc |-> l.born,
                            free |-> l.died] : l \in counted[p]}
             /\ \A i \in DOMAIN events :
                  LET copies == {k \in DOMAIN rows : rows[k].time = i}
                      hit    == {l \in counted[p] : i \in hits[l]}
                  IN /\ Cardinality(copies) = 2 * Cardinality(hit)
                     /\ \A k \in copies, l \in hit : rows[k].addr = l.addr
             /\ \A l \in counted[p], o \in objects : l.addr = o.addr =>
                  LET span  == Min(hits[l] \cup {l.born})..l.died
                      quiet == {w \in span \X span :
                                  /\ w[1] < w[2]
                                  /\ (hits[l] \cup {l.born})
                                       \cap ((w[1] + 1)..(w[2] - 1)) = {}}
                  IN MaxNonAccess(rows, o) =
                       IF hits[l] = {} THEN -1 ELSE Max({v[2] - v[1] : v \in quiet})
=============================================================================
