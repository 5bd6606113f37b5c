------------------------------ MODULE CacheSim ------------------------------
(***************************************************************************)
(* The simulator that reads the fifo: a cache of sets of lines, the oldest *)
(* line of a full set replaced.  A record of the client is two of its      *)
(* reads; the second holds no text, and sscanf leaves the access as it was *)
(* so that the same one is simulated again.                                *)
(*                                                                         *)
(* A definition marked Fault is the one after it with a mistake the code   *)
(* does not make; nothing uses it.                                         *)
(***************************************************************************)
EXTENDS MemTrace

CONSTANTS
  LineSize,  \* 64
  Sets,      \* 16384
  Ways,      \* 8
  NoLine

ASSUME CacheAssumption ==
  /\ LineSize \in Nat \ {0} /\ Sets \in Nat \ {0} /\ Ways \in Nat \ {0}
  /\ NoLine \notin Nat

\* Cache_set, and the simulator: the sets, the access it read last, the lines
\* of ldst_data.raw, and the cache lines it filled (history).
EmptySet == [cache_addr |-> [w \in 1..Ways |-> NoLine], run |-> 0,
             dirty |-> [w \in 1..Ways |-> FALSE]]
NewSim   == [llc_cache |-> [s \in 0..(Sets - 1) |-> EmptySet],
             output |-> <<>>, filled |-> <<>>]

CacheAddr(addr) == addr \div LineSize

\* The entry of the set that takes a new line, from 1: the first that is not
\* valid, else the one whose turn it is.
Victim(set) ==
  LET invalid == {w \in 1..Ways : set.cache_addr[w] = NoLine}
  IN IF invalid # {} THEN Min(invalid) ELSE set.run + 1

\* A line in the set; whether it was there.
IsHitFault(sim, line, write) ==
  LET s == line % Sets  set == sim.llc_cache[s]
      hit == {w \in 1..Ways : set.cache_addr[w] = line}
      full == NoLine \notin Range(set.cache_addr)
      w == IF hit # {} THEN Min(hit) ELSE Victim(set)
  IN [hit |-> hit # {}, sim |-> [sim EXCEPT
        !.llc_cache[s] = [set EXCEPT !.cache_addr[w] = line, !.dirty[w] = write,
                            !.run = IF full THEN (@ + 1) % Ways ELSE @],
        !.filled = IF hit # {} THEN @ ELSE Append(@, line)]]

\* is_hit
IsHit(sim, line, write) ==
  LET s == line % Sets  set == sim.llc_cache[s]
      hit == {w \in 1..Ways : set.cache_addr[w] = line}
      full == NoLine \notin Range(set.cache_addr)
      w == Victim(set)
  IN IF hit # {}
     THEN [hit |-> TRUE, sim |-> [sim EXCEPT
             !.llc_cache[s].dirty[Min(hit)] = @ \/ write]]
     ELSE [hit |-> FALSE, sim |-> [sim EXCEPT
             !.llc_cache[s] = [set EXCEPT !.cache_addr[w] = line, !.dirty[w] = write,
                                 !.run = IF full THEN (@ + 1) % Ways ELSE @],
             !.filled = Append(@, line)]]

\* cachesim looks at the line of the first byte and at the line of the last
\* one, if it is another; output prints the access for each that missed.
CacheSim(sim, record) ==
  LET line  == CacheAddr(record.addr)
      last  == CacheAddr(record.addr + record.size - 1)
      one   == IsHit(sim, line, record.rw = "w")
      two   == IsHit(one.sim, last, record.rw = "w")
      times == (IF one.hit THEN 0 ELSE 1) + (IF last = line \/ two.hit THEN 0 ELSE 1)
      after == IF last = line THEN one.sim ELSE two.sim
  IN [after EXCEPT !.output = @ \o [i \in 1..times |-> record]]

\* main: the reads of 128 bytes from the records of 256.
ReadRecord(sim, record) == CacheSim(CacheSim(sim, record), record)

Simulated(records) == FoldLeft(ReadRecord, NewSim, records)

-----------------------------------------------------------------------------
(* Property.                                                               *)

\* The reference: a line is in its set exactly if it is one of the last Ways
\* that were filled there, and a record is printed for each of its lines
\* that is not there when it comes.  Reading a record twice prints nothing
\* more, for a line just used is there.
Newest(filled, s) ==
  LET of == SelectSeq(filled, LAMBDA line : line % Sets = s)
      from == IF Len(of) > Ways THEN Len(of) - Ways + 1 ELSE 1
  IN ToSet(SubSeq(of, from, Len(of)))

Misses(records) ==
  LET lines(r) == IF CacheAddr(r.addr) = CacheAddr(r.addr + r.size - 1)
                  THEN <<CacheAddr(r.addr)>>
                  ELSE <<CacheAddr(r.addr), CacheAddr(r.addr + r.size - 1)>>
      asked == FlattenSeq([i \in DOMAIN records |->
                 [k \in DOMAIN lines(records[i]) |->
                    [record |-> records[i], line |-> lines(records[i])[k]]]])
  IN FoldLeft(LAMBDA past, a :
        IF a.line \in Newest(past.filled, a.line % Sets) THEN past
        ELSE [filled |-> Append(past.filled, a.line),
              output |-> Append(past.output, a.record)],
        [filled |-> <<>>, output |-> <<>>], asked)

\* What the simulator prints of the trace is what the reference misses, and
\* its sets hold what the reference holds (is_hit, cachesim, output, main).
MissesHonest ==
  LET sim == Simulated(fifo)
  IN /\ sim.output = Misses(fifo).output
     /\ \A s \in 0..(Sets - 1) :
          Range(sim.llc_cache[s].cache_addr) \ {NoLine} = Newest(sim.filled, s)
=============================================================================
