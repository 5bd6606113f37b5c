------------------------------ MODULE Studies ------------------------------
(***************************************************************************)
(* The studies the repository makes of a program, side by side: two        *)
(* allocators for cold and other callers, with the temperatures and the    *)
(* reuse distances of its cache misses; the pools that tell a profile what *)
(* was hit; the one pool of drcachesim and its objects; and the trace that *)
(* feeds the cache simulator.  They share no state; an execution is of one *)
(* of them.                                                                *)
(***************************************************************************)
EXTENDS TwoMallocs, ReuseDistance, ProfileMerge, CacheSim, ObjectMerge

VARIABLE study

studies == <<vars, missed, poolvars, hits, tracevars, objvars, study>>

StudiesInit ==
  /\ study \in {"allocators", "distances", "profile", "objects", "trace"}
  /\ TwoMallocsInit /\ (study # "allocators" => rows = <<>>)
  /\ ReuseInit /\ MergeInit /\ MemTraceInit /\ ObjectMergeInit

StudiesNext ==
  /\ UNCHANGED study
  /\ \/ /\ study = "allocators" /\ TwoMallocsNext
        /\ UNCHANGED <<missed, poolvars, hits, tracevars, objvars>>
     \/ /\ study = "distances" /\ ReadMiss
        /\ UNCHANGED <<vars, poolvars, hits, tracevars, objvars>>
     \/ /\ study = "profile" /\ MergeNext
        /\ UNCHANGED <<vars, missed, tracevars, objvars>>
     \/ /\ study = "objects" /\ ObjectMergeNext
        /\ UNCHANGED <<vars, missed, poolvars, hits, tracevars>>
     \/ /\ study = "trace" /\ MemTraceNext
        /\ UNCHANGED <<vars, missed, poolvars, hits, objvars>>

StudiesSpec == StudiesInit /\ [][StudiesNext]_studies

-----------------------------------------------------------------------------

\* A miss in an area that only ever was of one allocator gets the
\* temperature of that allocator from its address alone; blocks with a
\* mapping of their own and those of the C library are not considered
\* (add_temperature_col with the lines mynewheap.csv has at the end).
TemperatureIsAllocator ==
  LET named == [cold |-> "COLD", other |-> "OTHER", mapping |-> "NOT_CONSIDER",
                glibc |-> "NOT_CONSIDER"]
  IN \A i \in DOMAIN misses :
       mem.tenants[AreaOf(misses[i].addr)] = {misses[i].whose} =>
         Temperature(misses[i], log) = named[misses[i].whose]
=============================================================================
