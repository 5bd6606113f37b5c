----------------------------- MODULE TwoMallocs -----------------------------
(***************************************************************************)
(* The preloaded library that stands between a program and two copies of   *)
(* ptmalloc2: `_my_' serves the callers that are cold, `_my2_' the others, *)
(* and a block that comes back is offered to `_my_', then to `_my2_', then *)
(* to the C library.  A copy knows its blocks by the version key in the    *)
(* size of their heap; blocks with a mapping of their own carry no key,    *)
(* and `_my_' takes all of them.  The two copies are seen from outside:    *)
(* which heap and which place they choose is open.  A call is one step: a  *)
(* block belongs to one caller, and what the calls share is behind the     *)
(* locks of the arenas, the counters of the mappings apart: here one       *)
(* thread calls.                                                           *)
(*                                                                         *)
(* A definition marked Fault is the one after it with a mistake the code   *)
(* does not make; nothing uses it.                                         *)
(***************************************************************************)
EXTENDS Integers, SequencesExt

CONSTANTS
  Callers,    \* return addresses in the program
  OffsetPage, \* PAGE_SIZE of the table of page offsets
  OffsetTable,\* TABLE_SIZE
  RowTables,  \* the tables of callers the experiment is run with
  Areas,      \* numbers of the areas of the address space
  AreaSize,   \* HEAP_MAX_SIZE: an area is as large as a heap, and aligned
  Places,     \* offsets in an area at which blocks begin, the first for mappings
  PageBytes,
  Sizes,      \* chunk sizes the program asks for
  Threshold,  \* mmap_threshold
  MaxMaps,    \* n_mmaps_max
  MaxCalls,   \* bound: calls of the allocator
  MaxMisses,  \* bound: cache misses
  NaN         \* an empty field of a table

Row == [temperature : {"cold", "hot"}, profiled : Nat, two_malloc : Nat \cup {NaN}]

ASSUME TwoMallocsAssumption ==
  /\ Callers \subseteq Nat /\ Areas \subseteq Nat /\ Sizes \subseteq Nat \ {0}
  /\ {OffsetPage, OffsetTable, PageBytes} \subseteq Nat \ {0}
  /\ AreaSize \in Nat /\ Places \subseteq 1..(AreaSize - 1)
  /\ \E o \in Places : \A x \in Places : o <= x
  /\ {Threshold, MaxMaps, MaxCalls, MaxMisses} \subseteq Nat
  /\ NaN \notin Nat /\ RowTables \subseteq Seq(Row)

Versions   == {"cold", "other"}              \* `_my_' and `_my2_'
Allocators == Versions \cup {"glibc"}
Tenants    == Allocators \cup {"mapping"}
Key == [cold |-> "21", other |-> "10"]       \* _MY_VERSION_KEY

VARIABLES
  rows,     \* the table of callers the flags are made from
  mem,      \* the memory and what the allocators know of it, see Memory
  log,      \* mynewheap.csv
  owned,    \* blocks the program holds (history)
  foreign,  \* mappings the C library made, and their bytes (history)
  misses,   \* cachemisses.csv, and whose block was missed (history)
  calls,
  died      \* realloc failed and read the header in front of address 0,
            \* or wrote past the end of a block

program == <<owned, foreign, misses, calls, died>>
vars    == <<rows, mem, log, program>>

Addresses  == {a * AreaSize + o : a \in Areas, o \in Places}
AreaOf(b)  == b \div AreaSize
First(a)   == a * AreaSize + Min(Places)

\* A memory m: what each area holds and has ever held, what each allocator
\* has given out in its heaps, the size in the header of those blocks, the
\* bytes of each mapped block, and each copy's n_mmaps and mmapped_mem.
IsMemory(m) ==
  /\ m.area \in [Areas -> Tenants \cup {"free"}]
  /\ m.tenants \in [Areas -> SUBSET Tenants]
  /\ m.held \in [Allocators -> SUBSET Addresses]
  /\ DOMAIN m.size \subseteq Addresses /\ Range(m.size) \subseteq Nat
  /\ DOMAIN m.mapped \subseteq Addresses /\ Range(m.mapped) \subseteq Nat
  /\ m.maps \in [Versions -> Int] /\ m.bytes \in [Versions -> Int]

TwoMallocsTypeOK ==
  /\ rows \in Seq(Row) /\ IsMemory(mem)
  /\ owned \subseteq Addresses
  /\ foreign \in Nat \X Nat
  /\ calls \in Nat /\ died \in BOOLEAN

-----------------------------------------------------------------------------
(* produce_cold_addrs.py: two tables of flags, by the low bits of the      *)
(* return address.  A caller whose address under two allocators is not     *)
(* known yet is flagged by its offset in the page.                         *)

NoFlags == [page |-> {}, table |-> {}]

MarkFault(flags, row) ==
  IF row.temperature # "cold" THEN flags
  ELSE IF row.two_malloc = NaN
  THEN [flags EXCEPT !.page = @ \cup {row.profiled % OffsetPage}]
  ELSE [page  |-> flags.page \ {row.profiled % OffsetPage},
        table |-> flags.table \ {row.two_malloc % OffsetTable}]

Mark(flags, row) ==
  IF row.temperature # "cold" THEN flags
  ELSE IF row.two_malloc = NaN
  THEN [flags EXCEPT !.page = @ \cup {row.profiled % OffsetPage}]
  ELSE [page  |-> flags.page \ {row.profiled % OffsetPage},
        table |-> flags.table \cup {row.two_malloc % OffsetTable}]

ColdAddrs == FoldLeft(Mark, NoFlags, rows)

\* is_cold
IsCold(p) == \/ p % OffsetPage \in ColdAddrs.page
             \/ p % OffsetTable \in ColdAddrs.table

Version(p) == IF IsCold(p) THEN "cold" ELSE "other"

-----------------------------------------------------------------------------
(* One copy of ptmalloc2, from outside: each operator gives the set of its *)
(* outcomes, a memory and the address of the block served.                 *)

\* Areas that are free are alike, and so are the places in a heap: the
\* lowest one stands for all.
Lowest(S)    == {x \in S : \A y \in S : x <= y}
FreeAreas(m) == Lowest({a \in Areas : m.area[a] = "free"})
Taken(m)     == UNION {m.held[x] : x \in Allocators}
Vacant(m, a) == Lowest({b \in Addresses : AreaOf(b) = a} \ Taken(m))
With(f, b, n) == [x \in DOMAIN f \cup {b} |-> IF x = b THEN n ELSE f[x]]
Without(f, b) == [x \in DOMAIN f \ {b} |-> f[x]]
Occupied(m, a, who) == [m EXCEPT !.area[a] = who, !.tenants[a] = @ \cup {who}]

\* A mapping is longer than its chunk, and whole pages.
MappingSize(n) == ((n + PageBytes) \div PageBytes) * PageBytes

\* The system maps the block on its own; the chunk's flag says so.
MapBlock(m, v, n) ==
  {[mem |-> [Occupied(m, a, "mapping") EXCEPT
               !.mapped = With(@, First(a), MappingSize(n)),
               !.maps[v] = @ + 1, !.bytes[v] = @ + MappingSize(n)],
    addr |-> First(a)] :
     a \in IF n >= Threshold /\ m.maps[v] < MaxMaps THEN FreeAreas(m) ELSE {}}

\* The block is cut from a heap the copy has, or from a new one.
HeapBlock(m, v, n) ==
  {[mem |-> [Occupied(m, AreaOf(b), v) EXCEPT
               !.held[v] = @ \cup {b}, !.size = With(@, b, n)],
    addr |-> b] :
     b \in UNION {Vacant(m, a) : a \in FreeAreas(m) \cup {x \in Areas : m.area[x] = v}}}

Serve(m, v, n) == MapBlock(m, v, n) \cup HeapBlock(m, v, n)

\* The test of `_my_free' and `_my_realloc' on a block that is not mapped.
IsMyHeapFault(m, v, b) == m.area[AreaOf(b)] \in Versions

IsMyHeap(m, v, b) == m.area[AreaOf(b)] = v

\* munmap_chunk: the copy that is asked releases the block, whoever mapped it.
UnmapFault(m, v, b) ==
  [m EXCEPT !.area[AreaOf(b)] = "free", !.mapped = Without(@, b),
            !.maps[v] = @ - 1, !.bytes[v] = @ - (m.mapped[b] - PageBytes)]

Unmap(m, v, b) ==
  [m EXCEPT !.area[AreaOf(b)] = "free", !.mapped = Without(@, b),
            !.maps[v] = @ - 1, !.bytes[v] = @ - m.mapped[b]]

\* The chunk is free again, and a heap that is empty may be given back; the
\* first heap of an arena never is.
Released(m, v, b) ==
  LET freed == [m EXCEPT !.held[v] = @ \ {b}, !.size = Without(@, b)]
      last  == /\ \E a \in Areas \ {AreaOf(b)} : m.area[a] = v
               /\ \A x \in freed.held[v] : AreaOf(x) # AreaOf(b)
  IN {freed} \cup IF last THEN {[freed EXCEPT !.area[AreaOf(b)] = "free"]} ELSE {}

\* mremap_chunk: the mapping grows, shrinks or moves, and stays a mapping.
Remapped(m, v, b, n) ==
  {[mem |-> [Occupied([m EXCEPT !.area[AreaOf(b)] = "free"], a, "mapping") EXCEPT
               !.mapped = With(Without(@, b), First(a), MappingSize(n)),
               !.bytes[v] = @ + MappingSize(n) - m.mapped[b]],
    addr |-> First(a)] : a \in FreeAreas(m) \cup {AreaOf(b)}}

\* realloc of a mapped block when mremap fails: it may be long enough, or a
\* block of the copy that was asked takes its place.
Remade(m, v, b, n) ==
  IF m.mapped[b] > n THEN {[mem |-> m, addr |-> b]}
  ELSE {[mem |-> Unmap(o.mem, v, b), addr |-> o.addr] : o \in Serve(m, v, n)}

\* _int_realloc: in place, or by a new block of the same copy.
Resized(m, v, b, n) ==
  {[mem |-> [m EXCEPT !.size[b] = n], addr |-> b]}
  \cup UNION {{[mem |-> r, addr |-> o.addr] : r \in Released(o.mem, v, b)} :
                o \in Serve(m, v, n)}

-----------------------------------------------------------------------------
(* The functions the library puts in front of the program.                 *)

\* Lines of mynewheap.csv: one for each area that became a heap.
Logged(m) ==
  LET new == {a \in Areas : /\ m.area[a] \in Versions
                            /\ m.area[a] # mem.area[a]}
      line(a) == [pid |-> 1, addr |-> a * AreaSize, size |-> AreaSize,
                  key |-> Key[m.area[a]]]
  IN log \o [i \in 1..Cardinality(new) |-> line(SetToSeq(new)[i])]

Call == ~died /\ calls < MaxCalls /\ calls' = calls + 1
Become(m) == mem' = m /\ log' = Logged(m)
Keep == UNCHANGED <<rows, misses>>

\* malloc, calloc, and realloc of no block.  The flag for a mapped block is
\* taken off the address before the program gets it.  A call that fails
\* changes nothing.
Malloc(p, n) ==
  /\ Call /\ Keep /\ UNCHANGED <<died, foreign>>
  /\ \E o \in Serve(mem, Version(p), n) :
       Become(o.mem) /\ owned' = owned \cup {o.addr}

\* memalign is not put in front of: the C library serves it.
Memalign(n) ==
  /\ Call /\ Keep /\ UNCHANGED died
  /\ \/ /\ n >= Threshold
        /\ \E a \in FreeAreas(mem) :
             /\ Become([Occupied(mem, a, "mapping") EXCEPT
                          !.mapped = With(@, First(a), MappingSize(n))])
             /\ owned' = owned \cup {First(a)}
        /\ foreign' = <<foreign[1] + 1, foreign[2] + MappingSize(n)>>
     \/ /\ \E o \in HeapBlock(mem, "glibc", n) :
             Become(o.mem) /\ owned' = owned \cup {o.addr}
        /\ UNCHANGED foreign

\* What free(b) does: `_my_free', then `_my2_free', then the C library's
\* free; the first two say with a flag whether the block was theirs.
FreedMemory(m, b) ==
  IF b \in DOMAIN m.mapped THEN {Unmap(m, "cold", b)}
  ELSE IF IsMyHeap(m, "cold", b) THEN Released(m, "cold", b)
  ELSE IF IsMyHeap(m, "other", b) THEN Released(m, "other", b)
  ELSE {[m EXCEPT !.held["glibc"] = @ \ {b}, !.size = Without(@, b)]}

\* free and cfree.
Free(b) ==
  /\ Call /\ Keep /\ UNCHANGED <<died, foreign>>
  /\ b \in owned /\ owned' = owned \ {b}
  /\ \E m \in FreedMemory(mem, b) : Become(m)

\* What realloc(b, n) does for n > 0.  A block of neither copy moves to
\* `_my2_', and the C library never gets it back.
ReallocOutcomes(m, b, n) ==
  IF b \in DOMAIN m.mapped THEN Remapped(m, "cold", b, n) \cup Remade(m, "cold", b, n)
  ELSE IF IsMyHeap(m, "cold", b) THEN Resized(m, "cold", b, n)
  ELSE IF IsMyHeap(m, "other", b) THEN Resized(m, "other", b, n)
  ELSE Serve(m, "other", n)

\* The copy of a block of the C library is as long as its chunk: a header
\* longer than what a new chunk of that size holds.
Overruns(b, n, o) ==
  /\ b \notin DOMAIN mem.mapped /\ mem.area[AreaOf(b)] = "glibc"
  /\ mem.size[b] >= IF o.addr \in DOMAIN o.mem.mapped THEN o.mem.mapped[o.addr] ELSE n

Realloc(b, n) ==
  /\ Call /\ Keep /\ UNCHANGED foreign
  /\ b \in owned
  /\ \E o \in ReallocOutcomes(mem, b, n) :
       /\ Become(o.mem) /\ owned' = (owned \ {b}) \cup {o.addr}
       /\ died' = Overruns(b, n, o)

\* No memory: realloc of a mapped block returns 0 and keeps the block, any
\* other dies, reading the header of address 0 or copying to it.
ReallocFails(b) ==
  /\ Call /\ Keep /\ UNCHANGED <<mem, log, owned, foreign>>
  /\ b \in owned /\ b \notin DOMAIN mem.mapped /\ died' = TRUE

\* realloc(b, 0) frees a block of the copies; one of the C library is copied
\* to the smallest chunk there is.
ReallocZero(b) ==
  /\ Call /\ Keep /\ UNCHANGED foreign
  /\ b \in owned
  /\ IF b \in mem.held["glibc"]
     THEN \E o \in Serve(mem, "other", 1) :
            /\ Become(o.mem) /\ owned' = (owned \ {b}) \cup {o.addr}
            /\ died' = Overruns(b, 1, o)
     ELSE /\ \E m \in FreedMemory(mem, b) : Become(m)
          /\ owned' = owned \ {b} /\ UNCHANGED died

-----------------------------------------------------------------------------
(* The program under the cache simulator.                                  *)

Tenant(b) == IF b \in DOMAIN mem.mapped THEN "mapping" ELSE mem.area[AreaOf(b)]

\* A line of the simulator, for a block the program touches (external).
Miss(b) ==
  /\ ~died /\ Len(misses) < MaxMisses
  /\ misses' = Append(misses, [pid |-> 1, addr |-> b, whose |-> Tenant(b)])
  /\ UNCHANGED <<rows, mem, log, owned, foreign, calls, died>>

TwoMallocsInit ==
  /\ rows \in RowTables
  /\ mem = [area |-> [a \in Areas |-> "free"], tenants |-> [a \in Areas |-> {}],
            held |-> [x \in Allocators |-> {}], size |-> <<>>, mapped |-> <<>>,
            maps |-> [v \in Versions |-> 0], bytes |-> [v \in Versions |-> 0]]
  /\ log = <<>> /\ owned = {} /\ foreign = <<0, 0>>
  /\ misses = <<>> /\ calls = 0 /\ died = FALSE

TwoMallocsNext ==
  \/ \E n \in Sizes : (\E p \in Callers : Malloc(p, n)) \/ Memalign(n)
  \/ \E b \in owned : \/ Free(b) \/ ReallocZero(b) \/ ReallocFails(b)
                      \/ \E n \in Sizes : Realloc(b, n)
                      \/ Miss(b)

TwoMallocsSpec == TwoMallocsInit /\ [][TwoMallocsNext]_vars

-----------------------------------------------------------------------------
(* Properties.                                                             *)

\* Whatever the program holds is known to exactly one allocator: a block
\* that is not mapped to the one whose heap it is in, which never takes back
\* what another one gave out.  The C library alone keeps blocks nobody holds:
\* those that realloc copied.
HeldByOwner ==
  /\ \A x, y \in Allocators : x # y => mem.held[x] \cap mem.held[y] = {}
  /\ \A x \in Allocators : \A b \in mem.held[x] : mem.area[AreaOf(b)] = x
  /\ owned \subseteq Taken(mem) \cup DOMAIN mem.mapped
  /\ (mem.held["cold"] \cup mem.held["other"] \cup DOMAIN mem.mapped) \subseteq owned
  /\ Taken(mem) \cap DOMAIN mem.mapped = {} /\ DOMAIN mem.size = Taken(mem)

\* `_my_' releases mappings it did not make, and so either counter alone is
\* wrong; but together the counters are what is mapped, less what the C
\* library mapped.
CountersAddUp ==
  /\ mem.maps["cold"] + mem.maps["other"] =
       Cardinality(DOMAIN mem.mapped) - foreign[1]
  /\ mem.bytes["cold"] + mem.bytes["other"] =
       FoldFunction(+, 0, mem.mapped) - foreign[2]

\* A cold caller whose address under two allocators is in the table is
\* served by `_my_', whatever the rows after it clear; and who is served by
\* `_my_' has the offset of some cold caller.
ColdCallersRouted ==
  LET cold == {i \in DOMAIN rows : rows[i].temperature = "cold"}
      known == {i \in cold : rows[i].two_malloc # NaN}
  IN /\ \A i \in known : IsCold(rows[i].two_malloc)
     /\ \A p \in Callers : IsCold(p) =>
          \/ \E i \in known : (p - rows[i].two_malloc) % OffsetTable = 0
          \/ \E i \in cold \ known : (p - rows[i].profiled) % OffsetPage = 0
=============================================================================
