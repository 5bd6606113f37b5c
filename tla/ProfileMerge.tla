---------------------------- MODULE ProfileMerge ----------------------------
(***************************************************************************)
(* What the perf and DynamoRIO profiles make of the fifo's lines: each     *)
(* process's lines become tables, the allocations are joined with the      *)
(* frees, and each sampled address is looked up, first among the pools of  *)
(* its process and then among the blocks in that pool.  A row is written   *)
(* for each sample that hit a block, and a list of the callers that have   *)
(* none.  perf splits the samples into files of at most ChunkRows rows and *)
(* takes one at a time.  Times are places in `lines'.                      *)
(*                                                                         *)
(* A definition marked Fault is the one after it with a mistake the code   *)
(* does not make; nothing uses it.                                         *)
(***************************************************************************)
EXTENDS PoolTable, FiniteSetsExt

CONSTANTS
  ChunkRows,   \* 15000000 in capture_script
  MaxTouched,  \* bound: blocks that are sampled
  NoKey        \* -1

ASSUME MergeAssumption ==
  ChunkRows \in Nat \ {0} /\ MaxTouched \in Nat /\ NoKey \notin Nat

VARIABLE hits   \* the samples, [pid, addr]; <<>> until the run is over

-----------------------------------------------------------------------------
(* The lines of a process: the files mya_, myf_ and myi_.                  *)

\* capture_data of perf: the rows of one file, with the time they were read.
Recorded(kind, p) ==
  LET rows == {i \in DOMAIN lines : lines[i].kind = kind /\ lines[i].pid = p}
  IN {[time |-> i, line |-> lines[i]] : i \in rows}

\* capture_ldst of DynamoRIO: the rows of script_<pid>.csv.
Samples(p) == SelectSeq(hits, LAMBDA h : h.pid = p /\ h.addr # 0)

\* capture_script of perf: a file that is full is followed by one whose first
\* row is not counted.
Chunks(p) ==
  LET rows == Samples(p)
      first(k) == IF k = 0 THEN 1 ELSE ChunkRows + 1 + (k - 1) * (ChunkRows + 1)
      last(k)  == IF first(k + 1) - 1 < Len(rows) THEN first(k + 1) - 1 ELSE Len(rows)
  IN {SubSeq(rows, first(k), last(k)) : k \in {j \in 0..Len(rows) : first(j) <= Len(rows)}}

-----------------------------------------------------------------------------
(* Joining allocations and frees.                                          *)

EndTime == Len(lines) + 1

\* A process that allocates and never frees has no myaf_ file, and no result.
HasBlocks(p) == Recorded("mya", p) # {} /\ Recorded("myf", p) # {}

\* The left join on data_addr, and the count and the sum for each caller.
Joined(p) ==
  LET mya == Recorded("mya", p)
      of(c) == {a \in mya : a.line.caller = c}
      frees(a) == {f.time : f \in {x \in Recorded("myf", p) :
                                     x.line.addr = a.line.addr}}
  IN UNION {{[data |-> a.line.addr, size |-> a.line.size, caller |-> a.line.caller,
              alloc |-> a.time, free |-> t, objects |-> Cardinality(of(a.line.caller)),
              total |-> MapThenSumSet(LAMBDA x : x.line.size, of(a.line.caller))] :
             t \in IF frees(a) = {} THEN {EndTime} ELSE frees(a)} : a \in mya}

-----------------------------------------------------------------------------
(* Looking an address up.                                                  *)

\* bisect_right in the sorted begins and in the sorted ends: the pair of the
\* last begin at or before the address and the first end after it must be
\* one of the pairs.  The answer is the begin.
BisectFault(pairs, a) ==
  LET begins == {x[1] : x \in pairs}
  IN IF a < Min(begins) THEN NoKey ELSE Max({b \in begins : b <= a})

Bisect(pairs, a) ==
  LET begins == {x[1] : x \in pairs}  ends == {x[2] : x \in pairs}
      begin  == Max({b \in begins : b <= a})
      end    == Min({e \in ends : e > a})
  IN IF a < Min(begins) \/ a >= Max(ends) \/ <<begin, end>> \notin pairs
     THEN NoKey ELSE begin

\* apply_join_key
PoolKey(p, a) ==
  Bisect({<<r.line.begin, r.line.end>> : r \in Recorded("myi", p)}, a)

\* The samples of the process that hit a pool it logged, if it has the files.
WithPoolKey(p, rows) ==
  IF ~HasBlocks(p) \/ Recorded("myi", p) = {} THEN <<>>
  ELSE SelectSeq(rows, LAMBDA h : PoolKey(p, h.addr) # NoKey)

\* The block of the sample's pool that it hit.
DataKey(p, a) ==
  LET blocks == {o \in Joined(p) : PoolKey(p, o.data) = PoolKey(p, a)}
  IN IF blocks = {} THEN NoKey
     ELSE Bisect({<<o.data, o.data + o.size>> : o \in blocks}, a)

\* The rows of a sequence of samples: the join on the block's address.
Rows(p, rows) ==
  LET keyed == WithPoolKey(p, rows)
      key   == [i \in DOMAIN keyed |-> DataKey(p, keyed[i].addr)]
      hit   == {i \in DOMAIN keyed : key[i] # NoKey}
  IN {[sample |-> keyed[x[1]], object |-> x[2]] :
        x \in {y \in hit \X Joined(p) : y[2].data = key[y[1]]}}

\* perf: one chunk after the other; one without a hit leaves no file.
ChunkedResult(p) == UNION {Rows(p, chunk) : chunk \in Chunks(p)}

\* DynamoRIO: all samples at once.
Merged(p)  == Rows(p, Samples(p))
HitObjects == UNION {{r.object : r \in Merged(p)} : p \in Started}

\* Its clocks are set by the hits of the blocks that lived less than 0.001:
\* brief.  Without one the mean divides by 0, and the script ends before the
\* first process has a result.  perf's script leaves the clocks alone.
Result(p, brief) == IF brief = {} THEN {} ELSE Merged(p)

\* result_not_be_sampled: the callers of blocks that no row of the result
\* names, if there is a myaf_ file (DynamoRIO: and the script came this far).
NotSampled(p, result) ==
  IF ~HasBlocks(p) THEN {}
  ELSE {o.caller : o \in Joined(p)} \ {r.object.caller : r \in result}

-----------------------------------------------------------------------------
(* The run ends and is sampled.                                            *)

\* What is sampled of a block: the header in front of it, its first and its
\* last byte, and the byte after it.
Near(b) == <<b.at - 1, b.at, b.at + b.size - 1, b.at + b.size>>

\* The profiler has seen some blocks of some processes, a child also those
\* it has from its parent (environment).
Profiled ==
  /\ hits = <<>> /\ lines # <<>>
  /\ \E touched \in SUBSET UNION {{<<p, b>> : b \in procs[p].given} : p \in Started} :
       /\ touched # {} /\ Cardinality(touched) <= MaxTouched
       /\ LET seq == SetToSeq(touched)
          IN hits' = FlattenSeq([i \in DOMAIN seq |->
                       [k \in 1..4 |-> [pid |-> seq[i][1], addr |-> Near(seq[i][2])[k]]]])
  /\ UNCHANGED poolvars

MergeInit == PoolTableInit /\ hits = <<>>
MergeNext == (hits = <<>> /\ PoolTableNext /\ UNCHANGED hits) \/ Profiled

-----------------------------------------------------------------------------
(* Property.                                                               *)

\* The blocks the allocator gave a process that logged them itself.
OwnBlocks(p) == {b \in procs[p].given : b.by = p /\ ~b.big}

\* A row of perf's names the block that has the byte, with its caller, size
\* and how many blocks of how many bytes that caller has, and a time of life
\* that ends after it begins; a sample has at most one row, and has one when
\* it hit a block that its own process made in a pool that it made, if the
\* process freed anything, however the samples are split into chunks; and the
\* list is of the other callers.  DynamoRIO's script gives the same rows, if
\* only one of the blocks that were hit, in whatever process, was brief, and
\* else none to anybody (deal_with_files of the two data_merge.py).
ResultsHonest ==
  \A p \in Started :
    LET result == ChunkedResult(p)
        own    == OwnBlocks(p)
        inOwnPool(b) == \E i \in DOMAIN lines :
          /\ lines[i].kind = "myi" /\ lines[i].pid = p
          /\ lines[i].begin <= b.at /\ b.at < lines[i].end
    IN /\ \A r \in result :
            \E b \in own :
              LET same == {x \in own : x.caller = b.caller}
              IN /\ b.at <= r.sample.addr /\ r.sample.addr < b.at + b.size
                 /\ r.object.data = b.at /\ r.object.size = b.size
                 /\ r.object.caller = b.caller /\ r.sample.pid = p
                 /\ r.object.objects = Cardinality(same)
                 /\ r.object.total = MapThenSumSet(LAMBDA x : x.size, same)
                 /\ r.object.alloc < r.object.free
                 /\ r.object.free = EndTime <=> b \in procs[p].held
       /\ \A x, y \in result : x.sample = y.sample => x = y
       /\ HasBlocks(p) =>
            /\ \A h \in ToSet(Samples(p)), b \in own :
                 b.at <= h.addr /\ h.addr < b.at + b.size /\ inOwnPool(b)
                 => \E r \in result : r.sample = h
            /\ NotSampled(p, result) =
                 {b.caller : b \in own} \ {r.object.caller : r \in result}
       /\ \A brief \in SUBSET HitObjects :
            Result(p, brief) = IF brief = {} THEN {} ELSE result
=============================================================================
