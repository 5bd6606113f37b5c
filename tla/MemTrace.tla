------------------------------ MODULE MemTrace ------------------------------
(***************************************************************************)
(* The DynamoRIO client: code in front of every memory reference notes it  *)
(* in a buffer of the thread; a full buffer, and the end of the thread,    *)
(* print the notes to the thread's stream, and a full stream is written to *)
(* the fifo at once.  A thread that forks leaves the child a copy of both. *)
(*                                                                         *)
(* A definition marked Fault is the one after it with a mistake the code   *)
(* does not make; nothing uses it.                                         *)
(***************************************************************************)
EXTENDS Integers, SequencesExt

CONSTANTS
  Threads,        \* of all processes; one that starts takes a free one
  FirstThread,    \* the thread that is started
  Instructions,   \* [reads, writes]: sequences of references [addr, size]
  MaxRefs,        \* MAX_NUM_MEM_REFS
  StreamRecords,  \* records that fit the buffer of a FILE
  MaxMade         \* bound: references made

ASSUME MemTraceAssumption ==
  /\ \A i \in Instructions : i.reads \in Seq(ToSet(i.reads))
                             /\ i.writes \in Seq(ToSet(i.writes))
  /\ FirstThread \in Threads /\ MaxRefs \in Nat \ {0}
  /\ StreamRecords \in Nat \ {0} /\ MaxMade \in Nat

VARIABLES
  data,   \* per_thread_t of the threads that were started, see PerThread
  fifo,   \* the records in ./fifo_memtrace: [pid, addr, size, rw]
  made    \* the references a thread made, and those it has from a fork (history)

tracevars == <<data, fifo, made>>

\* A process is named after its first thread.
Pid(t) == data[t].pid
References == UNION {ToSet(i.reads) \cup ToSet(i.writes) : i \in Instructions}
Ref        == [addr : {r.addr : r \in References}, size : {r.size : r \in References},
               rw : {"r", "w"}]
Record     == [pid : Threads, addr : {r.addr : r \in References},
               size : {r.size : r \in References}, rw : {"r", "w"}]
PerThread  == [pid : Threads, buf : Seq(Ref), stream : Seq(Record), num_refs : Nat,
               out : Seq(Record),   \* what it wrote to the fifo (history)
               state : {"runs", "exited", "killed"}]

MemTraceTypeOK ==
  /\ DOMAIN data \subseteq Threads /\ \A t \in DOMAIN data : data[t] \in PerThread
  /\ fifo \in Seq(Record)

-----------------------------------------------------------------------------

\* event_bb_insert: the reads of an instruction, then its writes.
Instrumented(i) ==
  [k \in DOMAIN i.reads |-> [addr |-> i.reads[k].addr, size |-> i.reads[k].size,
                             rw |-> "r"]] \o
  [k \in DOMAIN i.writes |-> [addr |-> i.writes[k].addr, size |-> i.writes[k].size,
                              rw |-> "w"]]

\* fwrite of the C library: of n records in a stream those are written that
\* fill its buffer and have one after them.
Flushed(n) == IF n = 0 THEN 0 ELSE ((n - 1) \div StreamRecords) * StreamRecords

\* memtrace: the process id is the one at the time of the dump.
DumpFault(d) ==
  LET records == d.stream \o [k \in DOMAIN d.buf |->
        [pid |-> d.pid, addr |-> d.buf[k].addr, size |-> d.buf[k].size,
         rw |-> d.buf[k].rw]]
      whole == Flushed(Len(records))
  IN [d EXCEPT !.out = @ \o SubSeq(records, 1, whole),
               !.stream = SubSeq(records, whole + 1, Len(records)),
               !.num_refs = @ + Len(d.buf)]

Dump(d) ==
  LET records == d.stream \o [k \in DOMAIN d.buf |->
        [pid |-> d.pid, addr |-> d.buf[k].addr, size |-> d.buf[k].size,
         rw |-> d.buf[k].rw]]
      whole == Flushed(Len(records))
  IN [d EXCEPT !.out = @ \o SubSeq(records, 1, whole),
               !.stream = SubSeq(records, whole + 1, Len(records)),
               !.num_refs = @ + Len(d.buf), !.buf = <<>>]

\* instrument_mem: the code in front of a reference; clean_call when the
\* buffer is full.
Note(d, ref) ==
  LET noted == [d EXCEPT !.buf = Append(@, ref)]
  IN IF Len(noted.buf) >= MaxRefs THEN Dump(noted) ELSE noted

Set(t, d) ==
  /\ data' = [data EXCEPT ![t] = d]
  /\ fifo' = fifo \o SubSeq(d.out, Len(data[t].out) + 1, Len(d.out))

\* event_thread_init
NewThread(pid) == [pid |-> pid, buf |-> <<>>, stream |-> <<>>, num_refs |-> 0,
                   out |-> <<>>, state |-> "runs"]

Runs(t) == t \in DOMAIN data /\ data[t].state = "runs"

\* A thread executes an instruction (environment).
Execute(t, i) ==
  /\ Runs(t)
  /\ FoldFunction(LAMBDA m, n : Len(m.refs) + n, 0, made) < MaxMade
  /\ Set(t, FoldLeft(Note, data[t], Instrumented(i)))
  /\ made' = [made EXCEPT ![t].refs = @ \o Instrumented(i)]

\* event_thread_exit: the rest is dumped and the stream closed.
ThreadExit(t) ==
  /\ Runs(t)
  /\ LET d == Dump(data[t])
     IN Set(t, [d EXCEPT !.out = @ \o d.stream, !.stream = <<>>, !.state = "exited"])
  /\ UNCHANGED made

NoHistory == [refs |-> <<>>, notes |-> <<>>, records |-> <<>>]

\* A thread u with data d and history m comes up.
ThreadEnters(u, d, m) ==
  /\ data' = [v \in DOMAIN data \cup {u} |-> IF v = u THEN d ELSE data[v]]
  /\ made' = [v \in DOMAIN data \cup {u} |-> IF v = u THEN m ELSE made[v]]

\* The application starts a thread.
ThreadStart(t, u) ==
  /\ Runs(t) /\ u \notin DOMAIN data
  /\ ThreadEnters(u, NewThread(data[t].pid), NoHistory)
  /\ UNCHANGED fifo

\* The application forks.  No event of the client runs: the child has the
\* parent's buffer and stream.
ForkProcess(t, u) ==
  /\ Runs(t) /\ u \notin DOMAIN data
  /\ ThreadEnters(u, [data[t] EXCEPT !.pid = u, !.out = <<>>],
             [refs |-> <<>>, notes |-> data[t].buf, records |-> data[t].stream])
  /\ UNCHANGED fifo

\* A process is killed, or replaced by another program.
Killed(pid) ==
  /\ \E t \in DOMAIN data : Runs(t) /\ data[t].pid = pid
  /\ data' = [t \in DOMAIN data |->
       IF Runs(t) /\ data[t].pid = pid THEN [data[t] EXCEPT !.state = "killed"]
       ELSE data[t]]
  /\ UNCHANGED <<fifo, made>>

MemTraceInit ==
  /\ data = [t \in {FirstThread} |-> NewThread(t)] /\ fifo = <<>>
  /\ made = [t \in {FirstThread} |-> NoHistory]

MemTraceNext ==
  \/ \E t \in DOMAIN data :
       \/ \E i \in Instructions : Execute(t, i)
       \/ ThreadExit(t)
       \/ \E u \in Threads : ThreadStart(t, u) \/ ForkProcess(t, u)
  \/ \E pid \in Threads : Killed(pid)

MemTraceSpec == MemTraceInit /\ [][MemTraceNext]_tracevars

-----------------------------------------------------------------------------
(* Property.                                                               *)

\* What must come out of a thread: the records its child of a fork was left
\* with, the notes it was left with, now with its own process id, and then
\* its references, each once and in their order.
Due(t) ==
  LET own == made[t].notes \o made[t].refs
  IN made[t].records \o [k \in DOMAIN own |->
       [pid |-> data[t].pid, addr |-> own[k].addr, size |-> own[k].size,
        rw |-> own[k].rw]]

\* A thread has written all that is due from it, if it exited, and else all
\* but what it still holds, less than a buffer and at most a stream: nothing
\* is skipped, printed twice or printed for another process, whichever threads
\* and children run in between and wherever the fork hits (memtrace,
\* event_thread_exit).
ReferencesTraced ==
  \A t \in DOMAIN data :
    LET d == data[t]
        due == Due(t)
    IN /\ IsPrefix(d.out, due)
       /\ Len(d.out) + Len(d.stream) + Len(d.buf) = Len(due)
       /\ Len(d.buf) < MaxRefs /\ Len(d.stream) <= StreamRecords
       /\ d.state = "exited" => d.out = due
=============================================================================
