--------------------------- MODULE ThreadDispatch ---------------------------
(***************************************************************************)
(* One call of dispatch.execute on a block the THREAD backend runs: the    *)
(* calling thread walks _execute (gates, probe, profitability), submits    *)
(* the chunks to the shared pool, waits, tears down on an error, a timeout *)
(* or an interrupt, joins, commits slabs or falls back to the sequential   *)
(* twin.  The pool's workers run chunks concurrently with it.              *)
(*                                                                         *)
(* kind says where a chunk's writes go:                                    *)
(*   "list"       list slabs, committed by index after the join            *)
(*   "dict"       dict slabs, audited for overlap, then committed          *)
(*   "reduction"  per-site contributions, folded in chunk order            *)
(*   "inplace"    no slab: the body mutates the caller's objects           *)
(*   "direct"     buffer_fast_path: chunks run the twin on the caller's    *)
(*                containers (_run_buffer_direct)                          *)
(***************************************************************************)
EXTENDS ThreadPool

CONSTANTS Workers,    (* budget of the block: _sizing's workers            *)
          Blocks,     (* the blocks considered, records of BlockType       *)
          RaiseSets,  (* which iterations raise, sets of positions         *)
          Keys,       (* dict keys                                         *)
          KeyMaps,    (* which key each iteration writes                   *)
          Faults      (* what the environment may do, subset of AllFaults  *)

Kinds == {"list", "dict", "reduction", "inplace", "direct"}
Gates == {"open", "sequential", "refused", "unprofitable"}
AllFaults == {"no_thread", "interrupt", "interrupt_submit"}

(***************************************************************************)
(* gate       open: the parallel path is tried; sequential: nested region, *)
(*            low recursion headroom or a sequential backend; refused: by  *)
(*            preflight; unprofitable: statically predicted to lose        *)
(* hard       errors mode HARD: raise_or_fallback raises                   *)
(* calibrate  the mode is auto or always;  strict: unprofitable is raised  *)
(* collect    on_error= is given;  deadline: timeout= is given             *)
(* perTask    timeout=(.., per_task=true);  audit: the dict audit runs     *)
(* hardConflict  on_fallback asks for a hard failure on a conflict         *)
(***************************************************************************)
BlockType ==
  {b \in [kind : Kinds, gate : Gates, hard : BOOLEAN, calibrate : BOOLEAN,
          strict : BOOLEAN, collect : BOOLEAN, deadline : BOOLEAN,
          perTask : BOOLEAN, audit : BOOLEAN, hardConflict : BOOLEAN] :
     /\ b.perTask => b.deadline
     /\ b.kind = "direct" => ~b.collect /\ ~b.deadline}

ASSUME DispatchAssumption == /\ Workers \in Nat \ {0}
                             /\ Blocks \subseteq BlockType
                             /\ RaiseSets \subseteq SUBSET Pos
                             /\ Keys # {}
                             /\ KeyMaps \subseteq [Pos -> Keys]
                             /\ Faults \subseteq AllFaults

VARIABLES block, raises, key,  \* the block and its data: fixed by Init
          pc,         \* where the calling thread is in _execute
          probed,     \* how chunk 0 was probed: "no", "twin", "chunk"
          futures,    \* the chunks whose futures the caller holds
          why,        \* what made the caller tear the chunk set down
          todo,       \* futures left to cancel, or records left to commit
          cur,        \* where a sequential twin starts, then where it is
          expired,    \* the block's deadline has passed
          inside,     \* chunks running under the budget semaphore
          at,         \* the iteration each chunk is at
          stop,       \* what stopped each chunk: record.error
          log,        \* what the caller's containers show
          collected,  \* the iterations whose errors _collected holds
          outcome,    \* how the call ended, once decided
          errorAt     \* the iteration whose error it raises

data == <<block, raises, key>>
records == <<inside, at, stop>>
result == <<log, collected, outcome, errorAt>>
vars == <<data, pc, probed, futures, why, todo, cur, expired, records, result,
          poolVars>>

-----------------------------------------------------------------------------
Slabbed == block.kind \in {"list", "dict", "reduction"}
FailFast == ~block.collect

\* _twin_probe_ok: no reduction and no dict slab.
TwinProbeOk == block.kind \notin {"dict", "reduction"}

\* Mutants of First: bounds[1:] forgotten, and bounds[1:] without a probe.
FirstAlwaysZero == 0
FirstAlwaysOne == 1

First == IF probed = "no" THEN 0 ELSE 1
ProbeRecord == IF probed = "chunk" THEN {0} ELSE {}

\* Iteration p ends the code that runs it: nothing around it catches.
Raises(p) == p \in raises /\ FailFast

\* The records _record_of can read, and those without an error.
Records == Finished(futures)
Clean == {c \in Chunks : stop[c] = "none"}

\* The iterations whose writes a record's slab holds.
Written(c) == (Lo(c) .. at[c] - 1) \ raises

\* record.errors of the records R under on_error.
ErrorsOf(R) == {p \in raises : \E c \in R : Lo(c) <= p /\ p < at[c]}

\* audit_disjoint_dict_slabs over the records R finds a key written twice.
Overlap(R) == \E c, d \in R : /\ c # d
                              /\ \E p \in Written(c), q \in Written(d) : key[p] = key[q]

\* Which key an iteration writes matters to dict slabs alone.
AnyKey == [p \in Pos |-> CHOOSE k \in Keys : TRUE]

Init ==
  /\ block \in Blocks
  /\ raises \in RaiseSets
  /\ key \in IF block.kind = "dict" THEN KeyMaps ELSE {AnyKey}
  /\ pc = "enter"
  /\ probed = "no"
  /\ futures = {}
  /\ why = "none"
  /\ todo = {}
  /\ cur = 0
  /\ expired = FALSE
  /\ inside = {}
  /\ at = [c \in Chunks |-> Lo(c)]
  /\ stop = [c \in Chunks |-> "none"]
  /\ log = <<>>
  /\ collected = {}
  /\ outcome = "none"
  /\ errorAt = 0
  /\ PoolInit

\* The call ends: it returns, or raises and leaves what log shows.
End(o) == pc' = "end" /\ outcome' = o

-----------------------------------------------------------------------------
(***************************************************************************)
(* _execute up to the chunk set.                                           *)
(***************************************************************************)
Enter ==
  /\ pc = "enter"
  /\ \/ /\ block.gate = "refused" /\ block.hard
        /\ End("refused")
     \/ /\ block.gate = "unprofitable" /\ block.calibrate /\ block.strict
        /\ End("unprofitable")
     \/ /\ \/ block.gate = "sequential"
           \/ block.gate = "refused" /\ ~block.hard
           \/ block.gate = "unprofitable" /\ block.calibrate /\ ~block.strict
        /\ pc' = "twin"
        /\ UNCHANGED outcome
     \/ /\ \/ block.gate = "open"
           \/ block.gate = "unprofitable" /\ ~block.calibrate
        /\ pc' \in IF block.calibrate THEN {"probe", "profit"} ELSE {"submit"}
        /\ UNCHANGED outcome
  /\ UNCHANGED <<data, probed, futures, why, todo, cur, expired, records, log,
                 collected, errorAt, poolVars>>

\* Running chunk 0 alone gets to p: its end, or the first iteration to raise.
ProbeReaches(p) == /\ p \in 0 .. Hi(0)
                   /\ \A q \in 0 .. p - 1 : ~Raises(q)
                   /\ p < Hi(0) => Raises(p)

\* The twin has no on_error guard: it stops at any iteration that raises.
TwinReaches(p) == /\ p \in 0 .. Hi(0)
                  /\ \A q \in 0 .. p - 1 : q \notin raises
                  /\ p < Hi(0) => p \in raises

\* _probe_twin: chunk 0 on the twin, straight into the caller's containers.
ProbeTwin ==
  /\ pc = "probe" /\ TwinProbeOk
  /\ \E p \in 0 .. Hi(0) :
       /\ TwinReaches(p)
       /\ log' = Extend(log, 0, p)
       /\ IF p < Hi(0)
          THEN /\ End("error")
               /\ errorAt' = p
               /\ UNCHANGED <<probed, cur>>
          ELSE /\ pc' = "profit"
               /\ probed' = "twin"
               /\ cur' = Hi(0)
               /\ UNCHANGED <<outcome, errorAt>>
  /\ UNCHANGED <<data, futures, why, todo, expired, records, collected, poolVars>>

\* _probe: chunk 0 on the chunk function, into a record of its own.  An error
\* commits that record and is raised.
ProbeChunk ==
  /\ pc = "probe" /\ ~TwinProbeOk
  /\ \E p \in 0 .. Hi(0) :
       /\ ProbeReaches(p)
       /\ at' = [at EXCEPT ![0] = p]
       /\ IF p < Hi(0)
          THEN /\ stop' = [stop EXCEPT ![0] = "error"]
               /\ outcome' = "error"
               /\ errorAt' = p
               /\ todo' = {0}
               /\ pc' = "commit"
          ELSE /\ pc' = "profit"
               /\ UNCHANGED <<stop, outcome, errorAt, todo>>
  /\ probed' = "chunk"
  /\ cur' = Hi(0)
  /\ UNCHANGED <<data, futures, why, expired, inside, log, collected, poolVars>>

\* _profitable on a measured or remembered cost, which the model leaves open.
Profitable ==
  /\ pc = "profit"
  /\ cur < N
  /\ pc' = "submit"
  /\ UNCHANGED <<data, probed, futures, why, todo, cur, expired, records,
                 result, poolVars>>

\* Mutant of Unprofitable: the probe's record is forgotten.
UnprofitableDropsProbe ==
  /\ pc = "profit"
  /\ IF block.strict
     THEN End("unprofitable") /\ UNCHANGED todo
     ELSE pc' = "commit" /\ todo' = {} /\ UNCHANGED outcome
  /\ UNCHANGED <<data, probed, futures, why, cur, expired, records, log,
                 collected, errorAt, poolVars>>

\* _handle_unprofitable raises before the probe's record is committed, or
\* reports: the record is committed and the twin runs from the probe's end.
Unprofitable ==
  /\ pc = "profit"
  /\ IF block.strict
     THEN End("unprofitable") /\ UNCHANGED todo
     ELSE pc' = "commit" /\ todo' = ProbeRecord /\ UNCHANGED outcome
  /\ UNCHANGED <<data, probed, futures, why, cur, expired, records, log,
                 collected, errorAt, poolVars>>

-----------------------------------------------------------------------------
(***************************************************************************)
(* _submit_all.                                                            *)
(***************************************************************************)
NextToSubmit(c) == /\ c >= First
                   /\ fut[c] = "none"
                   /\ \A d \in First .. c - 1 : fut[d] # "none"

Submit(c) ==
  /\ pc = "submit"
  /\ NextToSubmit(c)
  /\ PoolSubmit(c)
  /\ futures' = futures \cup {c}
  /\ pc' = IF c = NBounds - 1 THEN "wait" ELSE "submit"
  /\ UNCHANGED <<data, probed, why, todo, cur, expired, records, result>>

\* A worker thread cannot start: the futures held so far are drained.
SubmitFails(c) ==
  /\ "no_thread" \in Faults
  /\ pc = "submit"
  /\ NextToSubmit(c)
  /\ PoolSubmitFails(c)
  /\ why' = "refused"
  /\ todo' = futures
  /\ pc' = "cancel"
  /\ UNCHANGED <<data, probed, futures, cur, expired, records, result>>

\* KeyboardInterrupt while submitting: nothing catches it, nothing is drained.
InterruptSubmit ==
  /\ "interrupt_submit" \in Faults
  /\ pc = "submit"
  /\ End("interrupt")
  /\ UNCHANGED <<data, probed, futures, why, todo, cur, expired, records, log,
                 collected, errorAt, poolVars>>

-----------------------------------------------------------------------------
(***************************************************************************)
(* The wait of _run_chunk_set, and that of _run_buffer_direct.             *)
(***************************************************************************)
Failed == {c \in futures : fut[c] = "failed"}

TearDown(reason, cancels) == /\ why' = reason
                             /\ todo' = cancels
                             /\ pc' = "cancel"

\* wait(futures, FIRST_EXCEPTION, timeout): everything finished, a future
\* raised, or the time is up with nothing raised among the finished.
WaitReturns ==
  /\ pc = "wait" /\ block.kind # "direct"
  /\ \/ /\ Finished(futures) = futures /\ Failed = {}
        /\ TearDown("all", {})
     \/ /\ Failed # {}
        /\ TearDown("failure", futures \ Finished(futures))
     \/ /\ expired /\ Failed = {} /\ Finished(futures) # futures
        /\ TearDown("timeout", futures \ Finished(futures))
  /\ UNCHANGED <<data, probed, futures, cur, expired, records, result, poolVars>>

\* Mutant of DirectReturns: the error is raised without a drain.
DirectReturnsUndrained ==
  /\ pc = "wait" /\ block.kind = "direct"
  /\ \/ /\ Finished(futures) = futures /\ Failed = {}
        /\ End("returned")
        /\ UNCHANGED errorAt
     \/ \E c \in Failed :
          /\ \A d \in futures : d < c => fut[d] = "done"
          /\ End("error")
          /\ errorAt' = at[c]
  /\ UNCHANGED <<data, probed, futures, why, todo, cur, expired, records, log,
                 collected, poolVars>>

\* fut.exception() on each future in turn: the first to have raised, all
\* before it having finished cleanly, is raised after a drain.
DirectReturns ==
  /\ pc = "wait" /\ block.kind = "direct"
  /\ \/ /\ Finished(futures) = futures /\ Failed = {}
        /\ End("returned")
        /\ UNCHANGED <<why, todo, errorAt>>
     \/ \E c \in Failed :
          /\ \A d \in futures : d < c => fut[d] = "done"
          /\ TearDown("failure", futures)
          /\ outcome' = "error"
          /\ errorAt' = at[c]
  /\ UNCHANGED <<data, probed, futures, cur, expired, records, log, collected,
                 poolVars>>

\* KeyboardInterrupt in the waiting thread: _abandon, or the direct drain.
Interrupt ==
  /\ "interrupt" \in Faults
  /\ pc = "wait"
  /\ TearDown("interrupt", futures)
  /\ outcome' = "interrupt"
  /\ UNCHANGED <<data, probed, futures, cur, expired, records, log, collected,
                 errorAt, poolVars>>

-----------------------------------------------------------------------------
(***************************************************************************)
(* Tear-down: cancel one future after another, then wait for the rest.     *)
(***************************************************************************)
\* Mutant of CancelOne: it is repeated until the cancel succeeds.
CancelInsists(c) ==
  /\ pc = "cancel"
  /\ c \in todo
  /\ PoolCancel(c)
  /\ todo' = IF fut[c] = "queued" THEN todo \ {c} ELSE todo
  /\ UNCHANGED <<data, pc, probed, futures, why, cur, expired, records, result>>

CancelOne(c) ==
  /\ pc = "cancel"
  /\ c \in todo
  /\ PoolCancel(c)
  /\ todo' = todo \ {c}
  /\ UNCHANGED <<data, pc, probed, futures, why, cur, expired, records, result>>

\* Mutant of Quiet: the second wait is left out.
QuietAtOnce == pc = "cancel" /\ todo = {}

Quiet == /\ pc = "cancel" /\ todo = {}
         /\ Finished(futures) = Uncancelled(futures)

Commit(R) == pc' = "commit" /\ todo' = R

\* The direct path has no record to commit: it raises, or runs the twin.
SettleDirect ==
  /\ Quiet /\ block.kind = "direct"
  /\ IF why # "refused" THEN End(outcome)
     ELSE IF block.hard THEN End("refused")
     ELSE pc' = "twin" /\ UNCHANGED outcome
  /\ UNCHANGED <<data, probed, futures, why, todo, cur, expired, records, log,
                 collected, errorAt, poolVars>>

\* PreflightCheckError out of _submit_all: commit the probe, then the twin.
SettleRefused ==
  /\ Quiet /\ block.kind # "direct" /\ why = "refused"
  /\ IF block.hard
     THEN End("refused") /\ UNCHANGED todo
     ELSE Commit(ProbeRecord) /\ UNCHANGED outcome
  /\ UNCHANGED <<data, probed, futures, why, cur, expired, records, log,
                 collected, errorAt, poolVars>>

\* _abandon: the records of the futures that did not raise.
SettleInterrupt ==
  /\ Quiet /\ block.kind # "direct" /\ why = "interrupt"
  /\ Commit(ContiguousPrefix(Records \ Failed, Clean))
  /\ UNCHANGED <<data, probed, futures, why, cur, expired, records, result,
                 poolVars>>

\* The timeout branch: the records of every future that ran.
SettleTimeout ==
  /\ Quiet /\ block.kind # "direct" /\ why = "timeout"
  /\ Commit(ContiguousPrefix(Records, Clean))
  /\ outcome' = "timeout"
  /\ UNCHANGED <<data, probed, futures, why, cur, expired, records, log,
                 collected, errorAt, poolVars>>

(***************************************************************************)
(* _join.                                                                  *)
(***************************************************************************)
Joinable == /\ Quiet /\ block.kind # "direct"
            /\ why \in {"all", "failure"}

Joined == Records \cup ProbeRecord

\* Mutant of JoinError: the first record found with an error, not the lowest.
JoinAnyError(c) ==
  /\ Joinable
  /\ c \in Records \ Clean
  /\ Commit({d \in Joined : d <= c})
  /\ outcome' = IF stop[c] = "deadline" THEN "timeout" ELSE "error"
  /\ errorAt' = at[c]
  /\ UNCHANGED <<data, probed, futures, why, cur, expired, records, log,
                 collected, poolVars>>

\* Mutant of JoinError: the erring record's own writes are not committed.
JoinErrorBelow(c) ==
  /\ Joinable
  /\ c \in Records \ Clean
  /\ \A d \in Records \ Clean : c <= d
  /\ Commit({d \in Joined : d < c})
  /\ outcome' = IF stop[c] = "deadline" THEN "timeout" ELSE "error"
  /\ errorAt' = at[c]
  /\ UNCHANGED <<data, probed, futures, why, cur, expired, records, log,
                 collected, poolVars>>

\* The lowest record with an error: it and those below it are committed.
JoinError(c) ==
  /\ Joinable
  /\ c \in Records \ Clean
  /\ \A d \in Records \ Clean : c <= d
  /\ Commit({d \in Joined : d <= c})
  /\ outcome' = IF stop[c] = "deadline" THEN "timeout" ELSE "error"
  /\ errorAt' = at[c]
  /\ UNCHANGED <<data, probed, futures, why, cur, expired, records, log,
                 collected, poolVars>>

Conflict == block.kind = "dict" /\ block.audit /\ Overlap(Joined)

\* Two chunks wrote one key: raise, or throw everything away and rerun.
JoinConflict ==
  /\ Joinable /\ Records \subseteq Clean
  /\ Conflict
  /\ IF block.hard \/ block.hardConflict
     THEN End("conflict") /\ UNCHANGED cur
     ELSE pc' = "twin" /\ cur' = 0 /\ UNCHANGED outcome
  /\ UNCHANGED <<data, probed, futures, why, todo, expired, records, log,
                 collected, errorAt, poolVars>>

JoinAll ==
  /\ Joinable /\ Records \subseteq Clean
  /\ ~Conflict
  /\ Commit(Joined)
  /\ outcome' = "returned"
  /\ collected' = IF block.collect THEN ErrorsOf(Joined) ELSE {}
  /\ UNCHANGED <<data, probed, futures, why, cur, expired, records, log,
                 errorAt, poolVars>>

\* Mutant of CommitOne: records in the order their chunks finished.
CommitAnyOne(c) ==
  /\ pc = "commit"
  /\ c \in todo
  /\ log' = IF Slabbed THEN Extend(log, Lo(c), at[c]) ELSE log
  /\ todo' = todo \ {c}
  /\ UNCHANGED <<data, pc, probed, futures, why, cur, expired, records,
                 collected, outcome, errorAt, poolVars>>

\* _commit_records, one record at a time in chunk order.  A block with no
\* slab and no reduction has nothing to commit.
CommitOne(c) ==
  /\ pc = "commit"
  /\ c \in todo
  /\ \A d \in todo : c <= d
  /\ log' = IF Slabbed THEN Extend(log, Lo(c), at[c]) ELSE log
  /\ todo' = todo \ {c}
  /\ UNCHANGED <<data, pc, probed, futures, why, cur, expired, records,
                 collected, outcome, errorAt, poolVars>>

Committed ==
  /\ pc = "commit" /\ todo = {}
  /\ pc' = IF outcome = "none" THEN "twin" ELSE "end"
  /\ UNCHANGED <<data, probed, futures, why, todo, cur, expired, records,
                 result, poolVars>>

\* _run_twin from cur: one iteration, or the end of the loop.
Twin ==
  /\ pc = "twin"
  /\ IF cur = N
     THEN End("returned") /\ UNCHANGED <<log, cur, errorAt>>
     ELSE IF cur \in raises
     THEN End("error") /\ errorAt' = cur /\ UNCHANGED <<log, cur>>
     ELSE /\ log' = Append(log, cur)
          /\ cur' = cur + 1
          /\ UNCHANGED <<pc, outcome, errorAt>>
  /\ UNCHANGED <<data, probed, futures, why, todo, expired, records, collected,
                 poolVars>>

-----------------------------------------------------------------------------
(***************************************************************************)
(* The pool's workers.                                                     *)
(***************************************************************************)
caller == <<data, pc, probed, futures, why, todo, cur, expired, collected,
            outcome, errorAt>>

Take == PoolTake /\ UNCHANGED <<caller, records, log>>

Start(c) == PoolStart(c) /\ UNCHANGED <<caller, records, log>>

Discard(c) == PoolDiscard(c) /\ UNCHANGED <<caller, records, log>>

\* with budget: at most Workers chunks of the block run at once.
Acquire(c) ==
  /\ fut[c] = "running"
  /\ c \notin inside
  /\ Cardinality(inside) < Workers
  /\ inside' = inside \cup {c}
  /\ UNCHANGED <<caller, at, stop, log, poolVars>>

\* One iteration of the chunk function, or of the twin on the direct path.
Iterate(c) ==
  /\ c \in inside
  /\ stop[c] = "none"
  /\ at[c] < Hi(c)
  /\ IF block.perTask /\ expired
     THEN /\ stop' = [stop EXCEPT ![c] = "deadline"]
          /\ UNCHANGED <<at, log>>
     ELSE IF Raises(at[c])
     THEN /\ stop' = [stop EXCEPT ![c] = "error"]
          /\ UNCHANGED <<at, log>>
     ELSE /\ at' = [at EXCEPT ![c] = @ + 1]
          /\ log' = IF Slabbed THEN log ELSE Append(log, at[c])
          /\ UNCHANGED stop
  /\ UNCHANGED <<caller, inside, poolVars>>

\* The budget is released; job raises _ChunkFailure only when failing fast.
Leave(c) ==
  /\ c \in inside
  /\ stop[c] # "none" \/ at[c] = Hi(c)
  /\ inside' = inside \ {c}
  /\ PoolFinish(c, IF stop[c] # "none" /\ FailFast THEN "failed" ELSE "done")
  /\ UNCHANGED <<caller, at, stop, log>>

\* Time passes the deadline of a block that has one.
Expire ==
  /\ block.deadline /\ ~expired
  /\ expired' = TRUE
  /\ UNCHANGED <<data, pc, probed, futures, why, todo, cur, records, result,
                 poolVars>>

-----------------------------------------------------------------------------
Probing == ProbeTwin \/ ProbeChunk \/ Profitable \/ Unprofitable
Waiting == WaitReturns \/ DirectReturns
Settling == SettleDirect \/ SettleRefused \/ SettleInterrupt \/ SettleTimeout
Joining == JoinConflict \/ JoinAll \/ \E c \in Chunks : JoinError(c)

CallerStep == \/ Enter \/ Probing \/ Waiting \/ Settling \/ Joining
              \/ Committed \/ Twin
              \/ \E c \in Chunks : Submit(c) \/ CancelOne(c) \/ CommitOne(c)

WorkerStep(c) == Start(c) \/ Discard(c) \/ Acquire(c) \/ Iterate(c) \/ Leave(c)

FaultStep == Interrupt \/ InterruptSubmit \/ \E c \in Chunks : SubmitFails(c)

\* The call is over; its workers may still be running.
Over == pc = "end" /\ UNCHANGED vars

Next == \/ CallerStep
        \/ Take
        \/ \E c \in Chunks : WorkerStep(c)
        \/ FaultStep
        \/ Expire
        \/ Over

Spec == Init /\ [][Next]_vars

(***************************************************************************)
(* The operating system runs the caller and every started worker; nobody   *)
(* promises that a thread fails to start, that a key is pressed or that a  *)
(* deadline passes before the chunks are done.                             *)
(***************************************************************************)
Fairness == /\ WF_vars(CallerStep)
            /\ WF_vars(Take)
            /\ \A c \in Chunks : WF_vars(WorkerStep(c))

FairSpec == Spec /\ Fairness

-----------------------------------------------------------------------------
(***************************************************************************)
(* Properties.                                                             *)
(***************************************************************************)
Outcomes == {"none", "returned", "error", "timeout", "interrupt", "refused",
             "unprofitable", "conflict"}

TypeOK ==
  /\ block \in Blocks
  /\ raises \in SUBSET Pos
  /\ key \in [Pos -> Keys]
  /\ pc \in {"enter", "probe", "profit", "submit", "wait", "cancel", "commit",
             "twin", "end"}
  /\ probed \in {"no", "twin", "chunk"}
  /\ futures \subseteq Chunks
  /\ why \in {"none", "all", "failure", "timeout", "interrupt", "refused"}
  /\ todo \subseteq Chunks
  /\ cur \in 0 .. N
  /\ expired \in BOOLEAN
  /\ inside \subseteq Chunks
  /\ at \in [Chunks -> 0 .. N]
  /\ \A c \in Chunks : at[c] \in Lo(c) .. Hi(c)
  /\ stop \in [Chunks -> {"none", "error", "deadline"}]
  /\ log \in Seq(Pos)
  /\ collected \subseteq Pos
  /\ outcome \in Outcomes
  /\ errorAt \in 0 .. N
  /\ PoolTypeOK

OnceEach(s) == \A i, j \in 1 .. Len(s) : i # j => s[i] # s[j]

Ended(o) == pc = "end" /\ outcome = o

\* A transactional block that returns has done exactly what the loop does,
\* each iteration once and in order, whichever path got it there: all chunks
\* parallel, probe then twin, a refused submission, or a conflict and a rerun.
ReturnsWholeLoop == Slabbed /\ Ended("returned") => log = Iota(N)

\* No path applies an iteration twice: what the probe, a worker or a commit
\* has done is not done again by the twin.  The direct path is left out, which
\* rewrites index-aligned slots with the same values, and so is the rerun of an
\* in-place block the pool could not start a thread for.
NoneTwice ==
  Slabbed \/ (block.kind = "inplace" /\ why # "refused") => OnceEach(log)

\* A block that writes in place and returns has run every iteration, those of
\* the probed chunk and those a fallback resumed at included.
NoneMissing ==
  ~Slabbed /\ Ended("returned") => \A p \in Pos : \E i \in 1 .. Len(log) : log[i] = p

\* Records are committed in chunk order, so contributions fold and keys are
\* inserted in the loop's order even where a chunk is missing.
CommitsInOrder == Slabbed => \A i, j \in 1 .. Len(log) : i < j => log[i] < log[j]

\* Nothing is committed before the join: while a record is being committed no
\* future the caller holds is still to run or running.
CommitsAfterJoin ==
  pc = "commit" => \A c \in futures : fut[c] \notin {"queued", "running"}

\* Once the call is over no worker writes to the caller's containers, except
\* after a submission that failed or was interrupted.
NoWriterAfterEnd ==
  ~Slabbed /\ pc = "end" /\ why # "refused" /\ (outcome = "interrupt" => why = "interrupt")
  => \A c \in Chunks : fut[c] \notin {"queued", "running"}

\* The error raised is that of the lowest iteration to raise, unless the chunk
\* of a lower one was cancelled before it ran, or was the probe whose record had
\* gathered it when the twin took over.  Nothing from that iteration on is in
\* the containers.
RaisesLowestError ==
  Slabbed /\ Ended("error") =>
    /\ errorAt \in raises
    /\ \A i \in 1 .. Len(log) : log[i] < errorAt
    /\ \A c \in Chunks : \A p \in raises :
         Lo(c) <= p /\ p < Hi(c) /\ p < errorAt =>
           fut[c] = "cancelled" \/ (c = 0 /\ probed = "chunk" /\ block.collect)

\* An abandoned call (timeout or interrupt) leaves a prefix of the loop when
\* chunk 0 was not probed into a record and the first chunk submitted ran.
AbandonedLeavesPrefix ==
  /\ Slabbed /\ pc = "end" /\ why \in {"timeout", "interrupt"}
  /\ probed # "chunk" /\ First \in Records \cap Clean
  => IsPrefixOfLoop(log)

\* A parallel run under on_error= hands over the error of every iteration that
\* raised, those of the probed chunk included.
CollectsEveryError ==
  block.collect /\ Ended("returned") /\ cur < N => collected = raises

\* Every call ends: no cancelled, orphaned or budget-starved chunk is waited
\* for for ever.
Terminates == <>(pc = "end")

Loop == INSTANCE SequentialLoop
          WITH outcome <- IF pc = "end" THEN outcome ELSE "none"

\* With transactional blocks and no way to cancel a lower chunk, the call is
\* the sequential loop.
ImplementsLoop == Loop!FairSpec

-----------------------------------------------------------------------------
(***************************************************************************)
(* What the documentation says and the code does not do: see the README.   *)
(***************************************************************************)
\* An iteration's error leaves exactly the iterations before it.
ErrorLeavesPrefix == Slabbed /\ Ended("error") => log = Iota(errorAt)

\* A timeout or an interrupt leaves a prefix, never a scattered subset.
AbandonLeavesPrefix ==
  Slabbed /\ pc = "end" /\ outcome \in {"timeout", "interrupt"} => IsPrefixOfLoop(log)

\* on_error= gathers the errors of iterations instead of raising them.
GathersInsteadOfRaising == block.collect => ~Ended("error")

\* A refused submission is discarded, and the rerun is all the caller sees.
InPlaceOnce == block.kind = "inplace" => OnceEach(log)
=============================================================================
