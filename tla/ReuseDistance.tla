--------------------------- MODULE ReuseDistance ---------------------------
(***************************************************************************)
(* What the two scripts make of a run with two allocators: every cache     *)
(* miss is put down to the cold heaps, to the other heaps or to neither,   *)
(* and the distance to the last miss in the same page of the same process  *)
(* is measured, in pages seen since (space) and in misses since (time).    *)
(* A miss is [pid, addr]; a line of mynewheap.csv is                       *)
(* [pid, addr, size, key].                                                 *)
(*                                                                         *)
(* A definition marked Fault is the one after it with a mistake the code   *)
(* does not make; nothing uses it.                                         *)
(***************************************************************************)
EXTENDS Integers, SequencesExt

CONSTANTS
  PageSize,  \* PAGE_SIZE
  PidStep,   \* 10000000000000000 in pid_page
  KeyWord,   \* values of an int64 in pid_page
  MissPids, MissPages,  \* processes and pages of the misses
  MaxRows    \* bound: misses measured

ASSUME ReuseAssumption ==
  /\ PageSize \in Nat \ {0} /\ PidStep \in Nat \ {0} /\ KeyWord \in Nat \ {0}
  /\ MissPids \subseteq Nat \ {0} /\ MissPages \subseteq Nat /\ MaxRows \in Nat

VARIABLE missed   \* the rows read so far: [pid, page, temperature]

Temperatures == {"COLD", "OTHER", "NOT_CONSIDER"}
ColdHeap  == "21"   \* COLD_HEAP, the version key of `_my_'
OtherHeap == "10"   \* OTHER_HEAP, the version key of `_my2_'

\* Is the miss in a heap that was logged with this key?
InHeapFault(miss, log, key) ==
  \E i \in DOMAIN log : /\ log[i].key = key /\ log[i].pid = miss.pid
                        /\ miss.addr >= log[i].addr

InHeap(miss, log, key) ==
  \E i \in DOMAIN log : /\ log[i].key = key /\ log[i].pid = miss.pid
                        /\ miss.addr >= log[i].addr
                        /\ miss.addr < log[i].addr + log[i].size

\* add_temperature_col: the cold heaps are marked last and win.
Temperature(miss, log) ==
  IF InHeap(miss, log, ColdHeap) THEN "COLD"
  ELSE IF InHeap(miss, log, OtherHeap) THEN "OTHER" ELSE "NOT_CONSIDER"

Classified(misses, log) ==
  [i \in DOMAIN misses |-> [pid |-> misses[i].pid,
                            page |-> misses[i].addr \div PageSize,
                            temperature |-> Temperature(misses[i], log)]]

-----------------------------------------------------------------------------
(* Distances in space: an LRU stack of the pages seen.                     *)

NoPage == [pid |-> 0, page |-> -1]   \* last_seen = 0

PageOf(row) == [pid |-> row.pid, page |-> row.page]

Begun == [stack |-> <<>>, seen |-> {}, last |-> NoPage,
          dist |-> [t \in Temperatures |-> <<>>]]

\* The search starts below the top: the top is the page seen last.
StackIndex(stack, page) ==
  SelectLastInSubSeq(stack, 1, Len(stack) - 1, LAMBDA x : x = page)

VisitFault(s, row) ==
  LET page == PageOf(row)
      at   == StackIndex(s.stack, page)
  IN IF s.last = page
     THEN [s EXCEPT !.dist[row.temperature] = Append(@, 0)]
     ELSE IF page \in s.seen
     THEN [s EXCEPT !.last = page,
             !.dist[row.temperature] = Append(@, Len(s.stack) - at)]
     ELSE [s EXCEPT !.last = page, !.stack = Append(@, page),
                    !.seen = @ \cup {page}]

Visit(s, row) ==
  LET page == PageOf(row)
      at   == StackIndex(s.stack, page)
  IN IF s.last = page
     THEN [s EXCEPT !.dist[row.temperature] = Append(@, 0)]
     ELSE IF page \in s.seen
     THEN [s EXCEPT !.last = page,
             !.dist[row.temperature] = Append(@, Len(s.stack) - at),
             !.stack = Append(RemoveAt(@, at), page)]
     ELSE [s EXCEPT !.last = page, !.stack = Append(@, page),
                    !.seen = @ \cup {page}]

SpaceDistances(rows) == FoldLeft(Visit, Begun, rows).dist

-----------------------------------------------------------------------------
(* Distances in time: the rows are numbered and split into one file per    *)
(* process and page; the distance is the difference to the number before.  *)

\* pid_page: computed in 64 bits, which a large pid makes wrap.
PidPage(row) == (row.pid * PidStep + row.page) % KeyWord

KeyGroup(rows, key) == {i \in DOMAIN rows : PidPage(rows[i]) = key}

\* The lines of a key's file have a distance, except the first.
TimeDistances(rows) ==
  LET before(i) == {j \in KeyGroup(rows, PidPage(rows[i])) : j < i}
  IN [i \in {k \in DOMAIN rows : before(k) # {}} |-> i - Max(before(i))]

-----------------------------------------------------------------------------
(* The definitions of the two distances, to check the computations by.     *)

Earlier(rows, i) == {j \in 1..(i - 1) : PageOf(rows[j]) = PageOf(rows[i])}
Again(rows)      == {i \in DOMAIN rows : Earlier(rows, i) # {}}

DistinctSince(rows, i) ==
  Cardinality({PageOf(rows[j]) : j \in (Max(Earlier(rows, i)) + 1)..(i - 1)})

ReuseInit == missed = <<>>

\* A row is read; one chunk of the file after the other, in order.
ReadMiss ==
  /\ Len(missed) < MaxRows
  /\ \E p \in MissPids, page \in MissPages, t \in Temperatures \ {"NOT_CONSIDER"} :
       missed' = Append(missed, [pid |-> p, page |-> page, temperature |-> t])

\* What the scripts report is, for each temperature and in the order of the
\* misses, the number of different pages since the last miss in the page;
\* and the distance in time of the same miss, which is computed from files
\* in another order, is greater, and greater by one exactly when no page
\* was missed twice in between (calculate_reuse_distances of both scripts).
DistancesAgree ==
  LET again  == SetToSortSeq(Again(missed), <)
      of(t)  == SelectSeq(again, LAMBDA i : missed[i].temperature = t)
      time   == TimeDistances(missed)
      space  == SpaceDistances(missed)
      twice(i) == \E j, k \in (Max(Earlier(missed, i)) + 1)..(i - 1) :
                    j # k /\ PageOf(missed[j]) = PageOf(missed[k])
  IN /\ \A t \in Temperatures :
          space[t] = [n \in DOMAIN of(t) |-> DistinctSince(missed, of(t)[n])]
     /\ DOMAIN time = Again(missed)
     /\ \A i \in Again(missed) :
          /\ time[i] > DistinctSince(missed, i)
          /\ time[i] = DistinctSince(missed, i) + 1 <=> ~twice(i)
=============================================================================
