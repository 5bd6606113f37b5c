----------------------------- MODULE PoolTable -----------------------------
(***************************************************************************)
(* The allocator that the perf, DynamoRIO and Pin profiles preload: a pool *)
(* for each return address that calls it, found through a table, cut from  *)
(* the front and never used again; a request too large for a pool gets a   *)
(* mapping of its own and is not logged.  What it does goes as lines to a  *)
(* fifo, and the processes that fork write to the same one.  Calls are     *)
(* under malloc_mutex; realloc lets go of it while it logs the free.       *)
(*                                                                         *)
(* A definition marked Fault is the one after it with a mistake the code   *)
(* does not make; nothing uses it.                                         *)
(***************************************************************************)
EXTENDS Integers, SequencesExt

CONSTANTS
  Pids,          \* process ids; a fork takes one that is not in use
  Root,          \* the process that is started
  ReturnAddrs,   \* the callers
  Requests,      \* sizes asked for; for calloc the product
  HeadSize,      \* sizeof(Head)
  Alignment,     \* _Alignof(max_align_t)
  PoolSize,      \* MEMPOOL_SIZE
  MaxPoolCalls,  \* bound: calls of the allocator
  NoCall

ASSUME PoolTableAssumption ==
  /\ Pids \subseteq Nat /\ Root \in Pids /\ ReturnAddrs \subseteq Nat
  /\ Requests \subseteq Nat \ {0} /\ MaxPoolCalls \in Nat
  /\ HeadSize \in Nat \ {0} /\ Alignment \in Nat \ {0}
  /\ PoolSize \in Nat /\ PoolSize > HeadSize + Alignment /\ NoCall \notin Nat

VARIABLES
  procs,      \* the memory of each process that was started, see Process
  lines,      \* the lines of the fifo, in the order data_record reads them
  poolcalls

poolvars == <<procs, lines, poolcalls>>

Started == DOMAIN procs
Blocks  == [by : Pids, at : Nat, size : Nat, caller : ReturnAddrs, big : BOOLEAN]

\* pool_table; where the system maps next; the blocks it was given, those it
\* has not given back, and the realloc that waits for the mutex; whether a
\* copy ran over the memory behind it.
Process == [table : Seq([free : Nat, end : Nat, caller : ReturnAddrs]),
            next : Nat, given : SUBSET Blocks, held : SUBSET Blocks,
            waiting : {NoCall} \cup
                      [caller : ReturnAddrs, size : Nat \ {0}, from : Blocks],
            overrun : BOOLEAN]
Line    == [kind : {"mya"}, pid : Pids, size : Nat, addr : Nat, caller : ReturnAddrs]
           \cup [kind : {"myf"}, pid : Pids, addr : Nat]
           \cup [kind : {"myi"}, pid : Pids, begin : Nat, end : Nat,
                 caller : ReturnAddrs]

PoolTableTypeOK ==
  /\ Started \subseteq Pids /\ \A p \in Started : procs[p] \in Process
  /\ lines \in Seq(Line) /\ poolcalls \in Nat

-----------------------------------------------------------------------------
(* The table of pools.                                                     *)

Aligned(n) == ((n + Alignment - 1) \div Alignment) * Alignment

\* pool_search
Search(table, c) == SelectLastInSeq(table, LAMBDA pool : pool.caller = c)

\* pool_insert moves the pools up from the end and puts the new one in the
\* place of the first it meets whose caller is smaller.
InsertFault(table, pool) ==
  LET smaller == {i \in DOMAIN table : pool.caller > table[i].caller}
  IN IF smaller = {} THEN InsertAt(table, 1, pool)
     ELSE ReplaceAt(Append(table, Last(table)), Max(smaller), pool)

Insert(table, pool) ==
  LET smaller == {i \in DOMAIN table : pool.caller > table[i].caller}
  IN InsertAt(table, IF smaller = {} THEN 1 ELSE Max(smaller), pool)

\* pool_init, and the part of pool_expand that is the same
NewRegion(next, c) == [free |-> next, end |-> next + PoolSize, caller |-> c]

PoolLine(p, pool) == [kind |-> "myi", pid |-> p, begin |-> pool.free,
                      end |-> pool.end, caller |-> pool.caller]

IsBig(n) == n + HeadSize + Alignment > PoolSize

\* A request that is too large is mapped; the flag keeps it out of the log.
\* limit is the end of what was mapped.
BigAlloc(s, n) ==
  [proc |-> [s EXCEPT !.next = @ + n + HeadSize + Alignment],
   addr |-> s.next + HeadSize, big |-> TRUE, lines |-> <<>>,
   limit |-> s.next + n + HeadSize + Alignment]

\* pool_expand leaves the rest of the old region alone.
Full(pool, n) == pool.free + n + HeadSize + Alignment >= pool.end

\* pool_alloc
SmallAlloc(p, s, c, n) ==
  LET found == Search(s.table, c)
      fresh == NewRegion(s.next, c)
      table == IF found = 0 THEN Insert(s.table, fresh) ELSE s.table
      at    == Search(table, c)
      more  == NewRegion(IF found = 0 THEN fresh.end + Alignment ELSE s.next, c)
      grow  == Full(table[at], n)
      pool  == IF grow THEN more ELSE table[at]
      made  == (IF found = 0 THEN <<fresh>> ELSE <<>>) \o
               (IF grow THEN <<more>> ELSE <<>>)
  IN [proc |-> [s EXCEPT !.next = @ + Len(made) * (PoolSize + Alignment),
                         !.table = [table EXCEPT ![at] = [pool EXCEPT
                                      !.free = @ + n + HeadSize]]],
      addr |-> pool.free + HeadSize, big |-> FALSE,
      lines |-> [i \in DOMAIN made |-> PoolLine(p, made[i])],
      limit |-> pool.end + Alignment]

PoolAlloc(p, c, n) ==
  IF IsBig(n) THEN BigAlloc(procs[p], n) ELSE SmallAlloc(p, procs[p], c, n)

\* print_info_alloc
AllocLine(p, n, got, c) ==
  IF got.big THEN <<>>
  ELSE <<[kind |-> "mya", pid |-> p, size |-> n, addr |-> got.addr, caller |-> c]>>

\* A call that asks pool_alloc for n bytes and copies `copied' to them.
Allocate(p, c, n, copied) ==
  LET got == PoolAlloc(p, c, Aligned(n))
      new == [by |-> p, at |-> got.addr, size |-> n, caller |-> c, big |-> got.big]
  IN /\ procs' = [procs EXCEPT ![p] = [got.proc EXCEPT
                    !.given = @ \cup {new}, !.held = @ \cup {new},
                    !.waiting = NoCall, !.overrun = got.addr + copied > got.limit]]
     /\ lines' = lines \o got.lines \o AllocLine(p, n, got, c)

-----------------------------------------------------------------------------
(* The functions the program calls.                                        *)

PoolCall(p) ==
  /\ ~procs[p].overrun
  /\ poolcalls < MaxPoolCalls /\ poolcalls' = poolcalls + 1

\* malloc, calloc, and realloc of no block, whose free logs nothing.
PoolMallocCall(p, c, n) == PoolCall(p) /\ Allocate(p, c, n, 0)

FreeLine(p, b) == [kind |-> "myf", pid |-> p, addr |-> b.at]

\* The memory is never used again; free only logs.  realloc to size 0 does
\* the same.
PoolFree(p, b) ==
  /\ PoolCall(p)
  /\ procs' = [procs EXCEPT ![p].held = @ \ {b}]
  /\ lines' = Append(lines, FreeLine(p, b))

\* realloc of a block logs the free without the mutex, then takes it again.
ReallocBegin(p, c, b, n) ==
  /\ PoolCall(p) /\ procs[p].waiting = NoCall
  /\ lines' = Append(lines, FreeLine(p, b))
  /\ procs' = [procs EXCEPT ![p].held = @ \ {b},
                 ![p].waiting = [caller |-> c, size |-> n, from |-> b]]

\* pool_realloc copies as much as the old block had, however small the new
\* one is: past the end of its mapping it may hit anything, and what the
\* process does then is not modelled.
Copied(b) == Aligned(b.size)

ReallocEnd(p) ==
  /\ procs[p].waiting # NoCall /\ ~procs[p].overrun
  /\ LET w == procs[p].waiting
     IN Allocate(p, w.caller, w.size, Copied(w.from))
  /\ UNCHANGED poolcalls

\* The child has a copy of the memory, and the fifo (environment).
Fork(p, q) ==
  /\ q \notin Started /\ procs[p].waiting = NoCall /\ ~procs[p].overrun
  /\ procs' = [r \in Started \cup {q} |-> procs[IF r = q THEN p ELSE r]]
  /\ UNCHANGED <<lines, poolcalls>>

PoolTableInit ==
  /\ procs = [p \in {Root} |-> [table |-> <<>>, next |-> Alignment, given |-> {},
                                held |-> {}, waiting |-> NoCall, overrun |-> FALSE]]
  /\ lines = <<>> /\ poolcalls = 0

PoolTableNext ==
  \E p \in Started :
    \/ \E c \in ReturnAddrs, n \in Requests :
         \/ PoolMallocCall(p, c, n)
         \/ \E b \in procs[p].held : ReallocBegin(p, c, b, n)
    \/ \E b \in procs[p].held : PoolFree(p, b)
    \/ ReallocEnd(p)
    \/ \E q \in Pids : Fork(p, q)

PoolTableSpec == PoolTableInit /\ [][PoolTableNext]_poolvars

-----------------------------------------------------------------------------
(* Property.                                                               *)

\* Whatever order the callers come in and whichever process they are in, no
\* pool is lost from the table or is there twice; a block that is logged
\* lies, with its header, in a region that only its caller has; and no two
\* blocks of a process share a byte with each other or with a header
\* (pool_insert, pool_alloc, pool_expand).
OnePoolPerCaller ==
  \A p \in Started :
    /\ \A i, j \in DOMAIN procs[p].table :
         i # j => procs[p].table[i].caller # procs[p].table[j].caller
    /\ \A b \in procs[p].given : ~b.big =>
         /\ Search(procs[p].table, b.caller) # 0
         /\ \E i \in DOMAIN lines :
              /\ lines[i].kind = "myi" /\ lines[i].caller = b.caller
              /\ lines[i].begin <= b.at - HeadSize
              /\ b.at + b.size <= lines[i].end
    /\ \A x, y \in procs[p].given :
         x # y => \/ x.at + x.size <= y.at - HeadSize
                  \/ y.at + y.size <= x.at - HeadSize
=============================================================================
