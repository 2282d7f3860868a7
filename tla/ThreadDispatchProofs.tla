------------------------ MODULE ThreadDispatchProofs ------------------------
(***************************************************************************)
(* Proofs about ThreadDispatch, for every domain, number of chunks, budget,*)
(* pool size, block, set of raising iterations, key map and set of faults. *)
(***************************************************************************)
EXTENDS ThreadDispatch, ChunkingProofs

-----------------------------------------------------------------------------
(***************************************************************************)
(* The inductive invariant, in parts.                                      *)
(***************************************************************************)
\* Chunks run only in a started future, a finished one ran to its end or has
\* an error, and only an error makes a future fail.
FuturesInv ==
  /\ \A c \in inside : fut[c] = "running"
  /\ \A c \in Chunks : fut[c] \in {"done", "failed"} /\ stop[c] = "none" => at[c] = Hi(c)
  /\ \A c \in Chunks : fut[c] = "failed" => stop[c] # "none"

\* Nothing is submitted before _submit_all, which holds the future of every
\* chunk it has submitted; after it, of every chunk not probed.
SubmitInv ==
  /\ pc \in {"enter", "probe", "profit"} =>
       futures = {} /\ \A c \in Chunks : fut[c] = "none"
  /\ pc = "submit" => futures = {c \in Chunks : c >= First /\ fut[c] # "none"}
  /\ pc = "wait" \/ (pc = "cancel" /\ why \in {"all", "failure"}) =>
       futures = First .. NBounds - 1

\* What the wait saw is still so when the join reads the records.
WaitInv ==
  pc = "cancel" => /\ why = "all" => Finished(futures) = futures
                   /\ why = "failure" => Failed # {}

\* While records are committed every future is finished or cancelled.
JoinInv ==
  pc = "commit" => \A c \in futures : fut[c] \notin {"queued", "running"}

\* Chunk 0 is not submitted once probed, and its probe got to its end unless
\* its error is being raised.
ProbeInv ==
  /\ pc \in {"enter", "probe"} => probed = "no"
  /\ probed = "twin" => TwinProbeOk
  /\ probed = "chunk" =>
       /\ fut[0] = "none"
       /\ pc \notin {"commit", "end"} \/ outcome # "error" => at[0] = Hi(0)

\* How the call ends is decided no earlier than this.
OutcomeInv ==
  /\ pc \in {"enter", "probe", "profit", "submit", "wait", "twin"} => outcome = "none"
  /\ pc = "cancel" /\ why = "interrupt" => outcome = "interrupt"
  /\ pc = "cancel" /\ why # "interrupt" /\ (block.kind = "direct" => why = "refused") =>
       outcome = "none"

\* What a transactional block's containers show, wherever the caller is.
LogInv ==
  Slabbed =>
    /\ pc \in {"enter", "probe"} => log = <<>> /\ cur = 0
    /\ pc \in {"profit", "submit", "wait", "cancel"} =>
         /\ log = Iota(IF probed = "twin" THEN Hi(0) ELSE 0)
         /\ cur = IF probed = "no" THEN 0 ELSE Hi(0)
    /\ pc = "commit" /\ outcome = "none" =>
         \/ todo = {} /\ log = Iota(cur)
         \/ todo = {0} /\ probed = "chunk" /\ log = <<>> /\ cur = Hi(0)
    /\ pc = "commit" /\ outcome = "returned" =>
         \E m \in 0 .. NBounds : /\ todo = m .. NBounds - 1
                                 /\ log = Iota(Bound(m))
                                 /\ \A c \in todo : at[c] = Hi(c)
    /\ pc = "twin" => log = Iota(cur)
    /\ pc = "end" /\ outcome = "returned" => log = Iota(N)

IInv == /\ TypeOK /\ FuturesInv /\ SubmitInv /\ WaitInv /\ JoinInv
        /\ ProbeInv /\ OutcomeInv /\ LogInv

-----------------------------------------------------------------------------
(***************************************************************************)
(* Type correctness.                                                       *)
(***************************************************************************)
\* Every operation of the pool keeps its type.
LEMMA PoolTypeStep ==
  ASSUME PoolTypeOK,
         \/ UNCHANGED poolVars
         \/ PoolTake
         \/ \E j \in Chunks :
              \/ PoolSubmit(j) \/ PoolSubmitFails(j) \/ PoolStart(j)
              \/ PoolDiscard(j) \/ PoolCancel(j)
              \/ \E state \in FutureState : PoolFinish(j, state)
  PROVE  PoolTypeOK'
  <1> USE PoolAssumption DEF PoolTypeOK, poolVars
  <1>1. CASE UNCHANGED poolVars
    BY <1>1
  <1>2. CASE PoolTake
    BY <1>2 DEF PoolTake
  <1>3. ASSUME NEW j \in Chunks, PoolSubmit(j)
        PROVE  PoolTypeOK'
    BY <1>3 DEF PoolSubmit, Enqueue, FutureState
  <1>4. ASSUME NEW j \in Chunks, PoolSubmitFails(j)
        PROVE  PoolTypeOK'
    BY <1>4 DEF PoolSubmitFails, Enqueue, FutureState
  <1>5. ASSUME NEW j \in Chunks, PoolStart(j)
        PROVE  PoolTypeOK'
    BY <1>5 DEF PoolStart, FutureState
  <1>6. ASSUME NEW j \in Chunks, PoolDiscard(j)
        PROVE  PoolTypeOK'
    BY <1>6 DEF PoolDiscard
  <1>7. ASSUME NEW j \in Chunks, PoolCancel(j)
        PROVE  PoolTypeOK'
    BY <1>7 DEF PoolCancel, FutureState
  <1>8. ASSUME NEW j \in Chunks, NEW state \in FutureState, PoolFinish(j, state)
        PROVE  PoolTypeOK'
    BY <1>8 DEF PoolFinish
  <1> QED
    BY <1>1, <1>2, <1>3, <1>4, <1>5, <1>6, <1>7, <1>8

LEMMA TypeStep == TypeOK /\ [Next]_vars => TypeOK'
  <1> SUFFICES ASSUME TypeOK
               PROVE  [Next]_vars => TypeOK'
    OBVIOUS
  <1>a. [Next]_vars => PoolTypeOK'
    BY PoolTypeStep DEF TypeOK, Next, CallerStep, WorkerStep, FaultStep, Probing, Waiting,
         Settling, Joining, Enter, ProbeTwin, ProbeChunk, Profitable, Unprofitable, Submit,
         SubmitFails, InterruptSubmit, WaitReturns, DirectReturns, Interrupt, CancelOne,
         SettleDirect, SettleRefused, SettleInterrupt, SettleTimeout, JoinError, JoinConflict,
         JoinAll, CommitOne, Committed, Twin, Take, Start, Discard, Acquire, Iterate, Leave,
         Expire, Over, vars, FutureState
  <1> SUFFICES ASSUME PoolTypeOK'
               PROVE  [Next]_vars => TypeOK'
    BY <1>a
  <1>b. ASSUME UNCHANGED <<caller, at, stop, log>>, inside' \subseteq Chunks
        PROVE  TypeOK'
    BY <1>b, SMTT(30) DEF TypeOK, caller, data, Outcomes
  <1>d. ASSUME UNCHANGED <<caller, inside>>, log' \in Seq(Pos),
               at' \in [Chunks -> 0 .. N], \A d \in Chunks : at'[d] \in Lo(d) .. Hi(d),
               stop' \in [Chunks -> {"none", "error", "deadline"}]
        PROVE  TypeOK'
    BY <1>d, SMTT(30) DEF TypeOK, caller, data, Outcomes
  <1>c. inside \subseteq Chunks
    BY DEF TypeOK
  <1>18. Take => TypeOK'
    BY <1>b, <1>c DEF Take, records
  <1>26. ASSUME NEW c \in Chunks, Start(c)
        PROVE  TypeOK'
    BY <1>26, <1>b, <1>c DEF Start, records
  <1>27. ASSUME NEW c \in Chunks, Discard(c)
        PROVE  TypeOK'
    BY <1>27, <1>b, <1>c DEF Discard, records
  <1>28. ASSUME NEW c \in Chunks, Acquire(c)
        PROVE  TypeOK'
    BY <1>28, <1>b, <1>c DEF Acquire
  <1>30. ASSUME NEW c \in Chunks, Leave(c)
        PROVE  TypeOK'
    BY <1>30, <1>b, <1>c DEF Leave
  <1> USE ChunkBounds, IterationsAssumption
      DEF TypeOK, vars, data, records, result, caller, Outcomes
  <1>1. Enter => TypeOK'
    BY DEF Enter, End
  <1>2. ASSUME ProbeTwin
        PROVE  TypeOK'
    <2>1. PICK p \in 0 .. Hi(0) : log' = Extend(log, 0, p) /\ (p < Hi(0) => errorAt' = p)
      BY <1>2 DEF ProbeTwin
    <2>2. 0 \in 0 .. N /\ p \in 0 .. N
      BY <2>1
    <2>3. log' \in Seq(Pos)
      BY <2>1, <2>2, ExtendType
    <2>4. cur' \in 0 .. N /\ errorAt' \in 0 .. N
      BY <1>2, <2>1, <2>2 DEF ProbeTwin
    <2> QED
      BY <1>2, <2>3, <2>4 DEF ProbeTwin, End
  <1>3. ProbeChunk => TypeOK'
    BY DEF ProbeChunk, ProbeReaches
  <1>4. Profitable => TypeOK'
    BY DEF Profitable
  <1>5. Unprofitable => TypeOK'
    BY DEF Unprofitable, End, ProbeRecord
  <1>6. WaitReturns => TypeOK'
    BY DEF WaitReturns, TearDown
  <1>7. ASSUME DirectReturns
        PROVE  TypeOK'
    <2>1. errorAt' \in 0 .. N
      BY <1>7 DEF DirectReturns, Failed
    <2> QED
      BY <1>7, <2>1 DEF DirectReturns, TearDown, End
  <1>8. Interrupt => TypeOK'
    BY DEF Interrupt, TearDown
  <1>9. InterruptSubmit => TypeOK'
    BY DEF InterruptSubmit, End
  <1>10. SettleDirect => TypeOK'
    BY DEF SettleDirect, End
  <1>11. SettleRefused => TypeOK'
    BY DEF SettleRefused, End, Commit, ProbeRecord
  <1>12. SettleInterrupt => TypeOK'
    BY DEF SettleInterrupt, Commit, ContiguousPrefix, Records, Finished
  <1>13. SettleTimeout => TypeOK'
    BY DEF SettleTimeout, Commit, ContiguousPrefix, Records, Finished
  <1>14. JoinConflict => TypeOK'
    BY SMTT(30) DEF JoinConflict, End
  <1>15. JoinAll => TypeOK'
    BY DEF JoinAll, Commit, Joined, Records, Finished, ProbeRecord, ErrorsOf
  <1>16. Committed => TypeOK'
    BY DEF Committed
  <1>17. ASSUME Twin
        PROVE  TypeOK'
    <2>1. cur # N => cur \in Pos /\ cur + 1 \in 0 .. N
      BY DEF Pos
    <2>2. cur # N => Append(log, cur) \in Seq(Pos)
      BY <2>1
    <2>3. log' \in Seq(Pos) /\ cur' \in 0 .. N /\ errorAt' \in 0 .. N
      BY <1>17, <2>1, <2>2 DEF Twin
    <2> QED
      BY <1>17, <2>3 DEF Twin, End
  <1>19. Expire => TypeOK'
    BY DEF Expire
  <1>20. Over => TypeOK'
    BY DEF Over
  <1>21. ASSUME NEW c \in Chunks, Submit(c)
        PROVE  TypeOK'
    BY <1>21 DEF Submit
  <1>22. ASSUME NEW c \in Chunks, SubmitFails(c)
        PROVE  TypeOK'
    BY <1>22 DEF SubmitFails
  <1>23. ASSUME NEW c \in Chunks, CancelOne(c)
        PROVE  TypeOK'
    BY <1>23 DEF CancelOne
  <1>24. ASSUME NEW c \in Chunks, JoinError(c)
        PROVE  TypeOK'
    BY <1>24 DEF JoinError, Commit, Joined, Records, Finished, ProbeRecord
  <1>25. ASSUME NEW c \in Chunks, CommitOne(c)
        PROVE  TypeOK'
    <2>1. Lo(c) \in 0 .. N /\ at[c] \in Lo(c) .. N
      OBVIOUS
    <2>2. log' \in Seq(Pos)
      BY <1>25, <2>1, ExtendType DEF CommitOne
    <2> QED
      BY <1>25, <2>2 DEF CommitOne
  <1>29. ASSUME NEW c \in Chunks, Iterate(c)
        PROVE  TypeOK'
    <2>1. at[c] \in Pos /\ at[c] + 1 \in Lo(c) .. Hi(c) /\ at[c] + 1 \in 0 .. N
      BY <1>29 DEF Iterate, Pos
    <2>2. stop' \in [Chunks -> {"none", "error", "deadline"}]
      BY <1>29 DEF Iterate
    <2>3. at' \in [Chunks -> 0 .. N] /\ \A d \in Chunks : at'[d] \in Lo(d) .. Hi(d)
      BY <1>29, <2>1 DEF Iterate
    <2>4. Append(log, at[c]) \in Seq(Pos)
      BY <2>1
    <2>5. log' \in Seq(Pos)
      BY <1>29, <2>4 DEF Iterate
    <2>6. UNCHANGED <<caller, inside>>
      BY <1>29 DEF Iterate
    <2> HIDE DEF TypeOK
    <2> QED
      BY ONLY <1>d, <2>2, <2>3, <2>5, <2>6
  <1>31. UNCHANGED vars => TypeOK'
    OBVIOUS
  <1> QED
    BY <1>1, <1>2, <1>3, <1>4, <1>5, <1>6, <1>7, <1>8, <1>9, <1>10, <1>11, <1>12, <1>13, <1>14, <1>15, <1>16, <1>17, <1>18, <1>19, <1>20, <1>21, <1>22, <1>23, <1>24, <1>25, <1>26, <1>27, <1>28, <1>29, <1>30, <1>31 DEF Next, CallerStep, WorkerStep, FaultStep, Probing, Waiting, Settling, Joining

LEMMA TypeInit == Init => TypeOK
  <1> SUFFICES ASSUME Init
               PROVE  TypeOK
    OBVIOUS
  <1>1. AnyKey \in [Pos -> Keys]
    BY DispatchAssumption DEF AnyKey
  <1>2. key \in [Pos -> Keys]
    BY <1>1, DispatchAssumption DEF Init
  <1>3. block \in Blocks /\ raises \in SUBSET Pos
    BY DispatchAssumption DEF Init
  <1>4. PoolTypeOK
    BY PoolAssumption DEF Init, PoolInit, PoolTypeOK, FutureState
  <1>5. at \in [Chunks -> 0 .. N] /\ \A c \in Chunks : at[c] \in Lo(c) .. Hi(c)
    BY ChunkBounds, IterationsAssumption DEF Init
  <1>6. cur \in 0 .. N /\ errorAt \in 0 .. N /\ log \in Seq(Pos)
    BY IterationsAssumption DEF Init
  <1> QED
    BY <1>2, <1>3, <1>4, <1>5, <1>6 DEF Init, TypeOK, Outcomes

\* Every variable keeps its type, chunks stay within their bounds included.
THEOREM TypeCorrect == Spec => []TypeOK
  BY TypeInit, TypeStep, PTL DEF Spec

-----------------------------------------------------------------------------
(***************************************************************************)
(* The parts of the inductive invariant, one lemma each.                   *)
(***************************************************************************)
\* The steps that touch neither the pool nor a chunk's record, and the others.
LEMMA NextSplit ==
  ASSUME [Next]_vars
  PROVE  \/ UNCHANGED <<records, poolVars>>
         \/ ProbeChunk
         \/ Take
         \/ \E c \in Chunks : Submit(c) \/ SubmitFails(c) \/ CancelOne(c) \/ WorkerStep(c)
  BY DEF Next, CallerStep, FaultStep, Probing, Waiting, Settling, Joining, Enter,
         ProbeTwin, Profitable, Unprofitable, InterruptSubmit, WaitReturns,
         DirectReturns, Interrupt, SettleDirect, SettleRefused, SettleInterrupt,
         SettleTimeout, JoinError, JoinConflict, JoinAll, CommitOne, Committed, Twin,
         Expire, Over, vars, result

LEMMA FuturesStep ==
  ASSUME TypeOK, FuturesInv, SubmitInv, [Next]_vars
  PROVE  FuturesInv'
  <1> SUFFICES ASSUME TypeOK, FuturesInv, SubmitInv
               PROVE  \/ UNCHANGED <<records, poolVars>>
                      \/ ProbeChunk
                      \/ Take
                      \/ \E c \in Chunks : Submit(c) \/ SubmitFails(c) \/ CancelOne(c) \/ WorkerStep(c)
                      => FuturesInv'
    BY NextSplit
  <1> USE ChunkBounds DEF FuturesInv, TypeOK, PoolTypeOK, records, poolVars
  <1>1. UNCHANGED <<records, poolVars>> => FuturesInv'
    OBVIOUS
  <1>2. ProbeChunk => FuturesInv'
    BY DEF ProbeChunk, SubmitInv
  <1>3. Take => FuturesInv'
    BY DEF Take, PoolTake
  <1>4. ASSUME NEW c \in Chunks, Submit(c)
        PROVE  FuturesInv'
    BY <1>4 DEF Submit, PoolSubmit, Enqueue, NextToSubmit
  <1>5. ASSUME NEW c \in Chunks, SubmitFails(c)
        PROVE  FuturesInv'
    BY <1>5 DEF SubmitFails, PoolSubmitFails, Enqueue, NextToSubmit
  <1>6. ASSUME NEW c \in Chunks, CancelOne(c)
        PROVE  FuturesInv'
    BY <1>6 DEF CancelOne, PoolCancel
  <1>7. ASSUME NEW c \in Chunks, Start(c)
        PROVE  FuturesInv'
    BY <1>7 DEF Start, PoolStart
  <1>8. ASSUME NEW c \in Chunks, Discard(c)
        PROVE  FuturesInv'
    BY <1>8 DEF Discard, PoolDiscard
  <1>9. ASSUME NEW c \in Chunks, Acquire(c)
        PROVE  FuturesInv'
    BY <1>9 DEF Acquire
  <1>10. ASSUME NEW c \in Chunks, Iterate(c)
        PROVE  FuturesInv'
    BY <1>10 DEF Iterate
  <1>11. ASSUME NEW c \in Chunks, Leave(c)
        PROVE  FuturesInv'
    BY <1>11 DEF Leave, PoolFinish
  <1> QED
    BY <1>1, <1>2, <1>3, <1>4, <1>5, <1>6, <1>7, <1>8, <1>9, <1>10, <1>11 DEF WorkerStep

\* _submit_all holds the future of whatever it has put on the queue.
LEMMA SubmitStep ==
  ASSUME TypeOK, SubmitInv
  PROVE  [Next]_vars => SubmitInv'
  <1> USE ChunkBounds DEF SubmitInv, First, TypeOK, PoolTypeOK, Chunks, vars, data,
          records, result, caller, poolVars
  <1>1. Enter => SubmitInv'
    BY DEF Enter, End
  <1>2. ProbeTwin => SubmitInv'
    BY DEF ProbeTwin, End, TwinReaches
  <1>3. ProbeChunk => SubmitInv'
    BY DEF ProbeChunk
  <1>4. Profitable => SubmitInv'
    BY DEF Profitable
  <1>5. Unprofitable => SubmitInv'
    BY DEF Unprofitable, End, ProbeRecord
  <1>6. WaitReturns => SubmitInv'
    BY DEF WaitReturns, TearDown, Failed
  <1>7. DirectReturns => SubmitInv'
    BY DEF DirectReturns, TearDown, End, Failed
  <1>8. ASSUME NEW c \in Chunks, Submit(c)
        PROVE  SubmitInv'
    <2>1. fut' = [fut EXCEPT ![c] = "queued"]
      BY <1>8 DEF Submit, PoolSubmit, Enqueue
    <2>2. /\ pc = "submit" /\ futures' = futures \cup {c}
          /\ pc' = IF c = NBounds - 1 THEN "wait" ELSE "submit"
          /\ UNCHANGED <<probed, why>>
      BY <1>8 DEF Submit
    <2>3. c >= First /\ \A d \in First .. c - 1 : fut[d] # "none"
      BY <1>8 DEF Submit, NextToSubmit
    <2>4. futures' = {d \in Chunks : d >= First /\ fut'[d] # "none"}
      BY <2>1, <2>2, <2>3
    <2>5. c = NBounds - 1 => futures' = First .. NBounds - 1
      BY <2>1, <2>2, <2>3, SMTT(30)
    <2> QED
      BY <2>2, <2>4, <2>5
  <1>9. ASSUME NEW c \in Chunks, CancelOne(c)
        PROVE  SubmitInv'
    BY <1>9 DEF CancelOne, PoolCancel
  <1>10. ASSUME NEW c \in Chunks, Start(c)
        PROVE  SubmitInv'
    BY <1>10 DEF Start, PoolStart
  <1>11. ASSUME NEW c \in Chunks, Leave(c)
        PROVE  SubmitInv'
    BY <1>11 DEF Leave, PoolFinish
  <1>12. (InterruptSubmit \/ Interrupt \/ SettleDirect \/ SettleRefused \/
       SettleInterrupt \/ SettleTimeout \/ JoinConflict \/ JoinAll \/ Committed \/ Twin
       \/ Take \/ Expire) => SubmitInv'
    BY DEF InterruptSubmit, End, Interrupt, TearDown, SettleDirect, Quiet,
           SettleRefused, Commit, ProbeRecord, SettleInterrupt, SettleTimeout,
           JoinConflict, Joinable, JoinAll, Committed, Twin, Take, PoolTake, Expire
  <1>13. ASSUME NEW c \in Chunks, CommitOne(c) \/ Discard(c) \/ Acquire(c) \/ Iterate(c)
         PROVE  SubmitInv'
    <2>1. UNCHANGED <<pc, probed, futures, why, fut>>
      BY <1>13 DEF CommitOne, Discard, PoolDiscard, Acquire, Iterate
    <2> QED
      BY <2>1
  <1>15. ASSUME NEW c \in Chunks, SubmitFails(c)
         PROVE  SubmitInv'
    BY <1>15 DEF SubmitFails
  <1>16. ASSUME NEW c \in Chunks, JoinError(c)
         PROVE  SubmitInv'
    BY <1>16 DEF JoinError, Commit, Joinable, Quiet
  <1>14. UNCHANGED vars => SubmitInv'
    OBVIOUS
  <1> QED
    BY <1>1, <1>2, <1>3, <1>4, <1>5, <1>6, <1>7, <1>8, <1>9, <1>10, <1>11,
       <1>12, <1>13, <1>14, <1>15, <1>16 DEF Next, CallerStep, WorkerStep,
       FaultStep, Probing, Waiting, Settling, Joining, Over

\* A finished future stays finished, a failed one failed.
LEMMA WaitStep ==
  ASSUME TypeOK, SubmitInv, WaitInv
  PROVE  [Next]_vars => WaitInv'
  <1> USE ChunkBounds DEF WaitInv, Finished, Failed, TypeOK, PoolTypeOK, vars, data,
          records, result, caller, poolVars
  <1>1. WaitReturns => WaitInv'
    BY DEF WaitReturns, TearDown, Failed
  <1>2. DirectReturns => WaitInv'
    BY DEF DirectReturns, TearDown, End, Failed
  <1>3. ASSUME NEW c \in Chunks, CancelOne(c)
        PROVE  WaitInv'
    BY <1>3 DEF CancelOne, PoolCancel
  <1>4. ASSUME NEW c \in Chunks, Start(c)
        PROVE  WaitInv'
    BY <1>4 DEF Start, PoolStart
  <1>5. ASSUME NEW c \in Chunks, Leave(c)
        PROVE  WaitInv'
    BY <1>5 DEF Leave, PoolFinish
  <1>6. (Enter \/ ProbeTwin \/ ProbeChunk \/ Profitable \/ Unprofitable \/
       InterruptSubmit \/ Interrupt \/ SettleDirect \/ SettleRefused \/ SettleInterrupt
       \/ SettleTimeout \/ JoinConflict \/ JoinAll \/ Committed \/ Twin \/ Take \/
       Expire) => WaitInv'
    BY DEF Enter, End, ProbeTwin, TwinReaches, ProbeChunk, Profitable, Unprofitable,
           ProbeRecord, InterruptSubmit, Interrupt, TearDown, SettleDirect, Quiet,
           SettleRefused, Commit, SettleInterrupt, SettleTimeout, JoinConflict,
           Joinable, JoinAll, Committed, Twin, Take, PoolTake, Expire
  <1>7. ASSUME NEW c \in Chunks, Submit(c) \/ SubmitFails(c) \/ JoinError(c) \/
                CommitOne(c) \/ Discard(c) \/ Acquire(c) \/ Iterate(c)
        PROVE  WaitInv'
    BY <1>7 DEF Submit, PoolSubmit, Enqueue, NextToSubmit, SubmitFails, PoolSubmitFails,
           JoinError, Commit, Joinable, Quiet, CommitOne, Discard, PoolDiscard, Acquire,
           Iterate
  <1>8. UNCHANGED vars => WaitInv'
    OBVIOUS
  <1> QED
    BY <1>1, <1>2, <1>3, <1>4, <1>5, <1>6, <1>7, <1>8 DEF Next, CallerStep, WorkerStep,
       FaultStep, Probing, Waiting, Settling, Joining, Over

\* Every way into the commit goes through Quiet, or through no submission.
LEMMA JoinStep ==
  ASSUME TypeOK, SubmitInv, JoinInv
  PROVE  [Next]_vars => JoinInv'
  <1> USE ChunkBounds DEF JoinInv, SubmitInv, Finished, Uncancelled, TypeOK, PoolTypeOK,
          vars, data, records, result, caller, poolVars
  <1>1. ProbeChunk => JoinInv'
    BY DEF ProbeChunk
  <1>2. Unprofitable => JoinInv'
    BY DEF Unprofitable, End, ProbeRecord
  <1>3. SettleRefused => JoinInv'
    BY DEF SettleRefused, End, Quiet, Commit, ProbeRecord
  <1>4. SettleInterrupt => JoinInv'
    BY DEF SettleInterrupt, Commit, Quiet
  <1>5. SettleTimeout => JoinInv'
    BY DEF SettleTimeout, Commit, Quiet
  <1>6. JoinAll => JoinInv'
    BY DEF JoinAll, Commit, Joinable, Quiet
  <1>7. ASSUME NEW c \in Chunks, JoinError(c)
        PROVE  JoinInv'
    BY <1>7 DEF JoinError, Commit, Joinable, Quiet
  <1>8. ASSUME NEW c \in Chunks, Start(c)
        PROVE  JoinInv'
    BY <1>8 DEF Start, PoolStart
  <1>9. ASSUME NEW c \in Chunks, Leave(c)
        PROVE  JoinInv'
    BY <1>9 DEF Leave, PoolFinish
  <1>10. (Enter \/ ProbeTwin \/ Profitable \/ InterruptSubmit \/ WaitReturns \/
       DirectReturns \/ Interrupt \/ SettleDirect \/ JoinConflict \/ Committed \/ Twin
       \/ Take \/ Expire) => JoinInv'
    BY DEF Enter, End, ProbeTwin, TwinReaches, Profitable, InterruptSubmit, WaitReturns,
           TearDown, Failed, DirectReturns, Interrupt, SettleDirect, Quiet,
           JoinConflict, Joinable, Committed, Twin, Take, PoolTake, Expire
  <1>11. ASSUME NEW c \in Chunks, Submit(c) \/ SubmitFails(c) \/ CancelOne(c) \/
                CommitOne(c) \/ Discard(c) \/ Acquire(c) \/ Iterate(c)
        PROVE  JoinInv'
    BY <1>11 DEF Submit, PoolSubmit, Enqueue, NextToSubmit, SubmitFails,
           PoolSubmitFails, CancelOne, PoolCancel, CommitOne, Discard, PoolDiscard,
           Acquire, Iterate
  <1>12. UNCHANGED vars => JoinInv'
    OBVIOUS
  <1> QED
    BY <1>1, <1>2, <1>3, <1>4, <1>5, <1>6, <1>7, <1>8, <1>9, <1>10, <1>11,
       <1>12 DEF Next, CallerStep, WorkerStep,
       FaultStep, Probing, Waiting, Settling, Joining, Over

\* No worker ever gets the probed chunk.
LEMMA ProbeStep ==
  ASSUME TypeOK, FuturesInv, SubmitInv, ProbeInv
  PROVE  [Next]_vars => ProbeInv'
  <1> USE ChunkBounds DEF ProbeInv, First, TwinProbeOk, FuturesInv, SubmitInv, TypeOK,
          PoolTypeOK, vars, data, records, result, caller, poolVars
  <1>1. Enter => ProbeInv'
    BY DEF Enter, End
  <1>2. ProbeTwin => ProbeInv'
    BY DEF ProbeTwin, End, TwinReaches
  <1>3. ProbeChunk => ProbeInv'
    BY DEF ProbeChunk, ProbeReaches
  <1>4. JoinAll => ProbeInv'
    BY DEF JoinAll, Commit, Joinable, Quiet
  <1>5. Committed => ProbeInv'
    BY DEF Committed
  <1>6. ASSUME NEW c \in Chunks, Submit(c)
        PROVE  ProbeInv'
    BY <1>6 DEF Submit, PoolSubmit, Enqueue, NextToSubmit
  <1>7. ASSUME NEW c \in Chunks, CancelOne(c)
        PROVE  ProbeInv'
    BY <1>7 DEF CancelOne, PoolCancel
  <1>8. ASSUME NEW c \in Chunks, Start(c)
        PROVE  ProbeInv'
    BY <1>8 DEF Start, PoolStart
  <1>9. ASSUME NEW c \in Chunks, Iterate(c)
        PROVE  ProbeInv'
    BY <1>9 DEF Iterate
  <1>10. ASSUME NEW c \in Chunks, Leave(c)
        PROVE  ProbeInv'
    BY <1>10 DEF Leave, PoolFinish
  <1>11. (Profitable \/ Unprofitable \/ InterruptSubmit \/ WaitReturns \/ DirectReturns
       \/ Interrupt \/ SettleDirect \/ SettleRefused \/ SettleInterrupt \/ SettleTimeout
       \/ JoinConflict \/ Twin \/ Take \/ Expire) => ProbeInv'
    BY DEF Profitable, Unprofitable, End, ProbeRecord, InterruptSubmit, WaitReturns,
           TearDown, Failed, DirectReturns, Interrupt, SettleDirect, Quiet,
           SettleRefused, Commit, SettleInterrupt, SettleTimeout, JoinConflict,
           Joinable, Twin, Take, PoolTake, Expire
  <1>12. ASSUME NEW c \in Chunks, CommitOne(c) \/ Discard(c) \/ Acquire(c)
         PROVE  ProbeInv'
    <2>1. UNCHANGED <<block, pc, probed, at, fut, outcome>>
      BY <1>12 DEF CommitOne, Discard, PoolDiscard, Acquire
    <2> QED
      BY <2>1
  <1>14. ASSUME NEW c \in Chunks, SubmitFails(c)
         PROVE  ProbeInv'
    BY <1>14 DEF SubmitFails, PoolSubmitFails, Enqueue, NextToSubmit
  <1>15. ASSUME NEW c \in Chunks, JoinError(c)
         PROVE  ProbeInv'
    BY <1>15 DEF JoinError, Commit, Joinable, Quiet
  <1>13. UNCHANGED vars => ProbeInv'
    OBVIOUS
  <1> QED
    BY <1>1, <1>2, <1>3, <1>4, <1>5, <1>6, <1>7, <1>8, <1>9, <1>10, <1>11,
       <1>12, <1>13, <1>14, <1>15 DEF Next, CallerStep, WorkerStep,
       FaultStep, Probing, Waiting, Settling, Joining, Over

\* Only a tear-down decides the outcome before the end of the call.
LEMMA OutcomeStep ==
  ASSUME TypeOK, OutcomeInv
  PROVE  [Next]_vars => OutcomeInv'
  <1> USE ChunkBounds DEF OutcomeInv, TypeOK, vars, data, records, result, caller,
          poolVars
  <1>1. Enter => OutcomeInv'
    BY DEF Enter, End
  <1>2. Unprofitable => OutcomeInv'
    BY DEF Unprofitable, End, ProbeRecord
  <1>3. WaitReturns => OutcomeInv'
    BY DEF WaitReturns, TearDown, Failed
  <1>4. DirectReturns => OutcomeInv'
    BY DEF DirectReturns, TearDown, End, Failed
  <1>5. Interrupt => OutcomeInv'
    BY DEF Interrupt, TearDown
  <1>6. SettleDirect => OutcomeInv'
    BY DEF SettleDirect, End, Quiet
  <1>7. SettleRefused => OutcomeInv'
    BY DEF SettleRefused, End, Quiet, Commit, ProbeRecord
  <1>8. JoinConflict => OutcomeInv'
    BY DEF JoinConflict, End, Joinable, Quiet, Conflict
  <1>9. Committed => OutcomeInv'
    BY DEF Committed
  <1>10. ASSUME NEW c \in Chunks, SubmitFails(c)
        PROVE  OutcomeInv'
    BY <1>10 DEF SubmitFails, PoolSubmitFails, Enqueue, NextToSubmit
  <1>11. (ProbeTwin \/ ProbeChunk \/ Profitable \/ InterruptSubmit \/ SettleInterrupt \/
       SettleTimeout \/ JoinAll \/ Twin \/ Take \/ Expire) => OutcomeInv'
    BY DEF ProbeTwin, End, TwinReaches, ProbeChunk, Profitable, InterruptSubmit,
           SettleInterrupt, Commit, Quiet, SettleTimeout, JoinAll, Joinable, Twin, Take,
           PoolTake, Expire
  <1>12. ASSUME NEW c \in Chunks, Submit(c) \/ CancelOne(c) \/ JoinError(c) \/
                CommitOne(c) \/ Start(c) \/ Discard(c) \/ Acquire(c) \/ Iterate(c) \/
                Leave(c)
        PROVE  OutcomeInv'
    BY <1>12 DEF Submit, PoolSubmit, Enqueue, NextToSubmit, CancelOne, PoolCancel,
           JoinError, Commit, Joinable, Quiet, CommitOne, Start, PoolStart, Discard,
           PoolDiscard, Acquire, Iterate, Leave, PoolFinish
  <1>13. UNCHANGED vars => OutcomeInv'
    OBVIOUS
  <1> QED
    BY <1>1, <1>2, <1>3, <1>4, <1>5, <1>6, <1>7, <1>8, <1>9, <1>10, <1>11,
       <1>12, <1>13 DEF Next, CallerStep, WorkerStep,
       FaultStep, Probing, Waiting, Settling, Joining, Over

-----------------------------------------------------------------------------
(***************************************************************************)
(* What the containers show.                                               *)
(***************************************************************************)
\* The block, what raises and the keys are given once and for all.
LEMMA DataFixed == [Next]_vars => UNCHANGED data
  BY DEF Next, CallerStep, WorkerStep, FaultStep, Probing, Waiting, Settling, Joining,
         Enter, ProbeTwin, ProbeChunk, Profitable, Unprofitable, Submit, SubmitFails,
         InterruptSubmit, WaitReturns, DirectReturns, Interrupt, CancelOne, SettleDirect,
         SettleRefused, SettleInterrupt, SettleTimeout, JoinError, JoinConflict, JoinAll,
         CommitOne, Committed, Twin, Take, Start, Discard, Acquire, Iterate, Leave, Expire,
         Over, caller, vars

\* The containers, action by action.
LEMMA LogStep ==
  ASSUME TypeOK, FuturesInv, SubmitInv, WaitInv, ProbeInv, OutcomeInv, LogInv
  PROVE  [Next]_vars => LogInv'
  <1>0. [Next]_vars => (Slabbed' <=> Slabbed)
    BY DataFixed DEF Slabbed, data
  <1> USE ChunkBounds, IotaZero DEF LogInv, Slabbed, ProbeInv, OutcomeInv, TypeOK,
          PoolTypeOK, vars, data, records, result, caller, poolVars
  <1>1. Enter => LogInv'
    BY DEF Enter, End
  <1>2. ASSUME ProbeTwin
        PROVE  LogInv'
    <2>1. CASE Slabbed
      <3>1. log = Iota(0) /\ probed = "no"
        BY <1>2, <2>1 DEF ProbeTwin
      <3>2. PICK p \in 0 .. Hi(0) : log' = Extend(log, 0, p) /\ TwinReaches(p)
        BY <1>2 DEF ProbeTwin
      <3> QED
        BY <1>2, <3>1, <3>2, ExtendIota DEF ProbeTwin, End
    <2> QED
      BY <1>2, <2>1 DEF ProbeTwin
  <1>3. ProbeChunk => LogInv'
    BY DEF ProbeChunk
  <1>4. Unprofitable => LogInv'
    BY DEF Unprofitable, End, ProbeRecord
  <1>5. SettleRefused => LogInv'
    BY DEF SettleRefused, End, Quiet, Commit, ProbeRecord
  <1>6. SettleInterrupt => LogInv'
    BY DEF SettleInterrupt, Commit, Quiet
  <1>7. SettleTimeout => LogInv'
    BY DEF SettleTimeout, Commit, Quiet
  <1>8. JoinConflict => LogInv'
    BY DEF JoinConflict, End, Joinable, Quiet, Conflict, TwinProbeOk
  <1>9. ASSUME JoinAll, Slabbed
        PROVE  LogInv'
    <2>1. why = "all" /\ pc = "cancel" /\ Finished(futures) = futures
      BY <1>9 DEF JoinAll, Joinable, Quiet, Records, Clean, Finished, Failed, FuturesInv, WaitInv
    <2>2. futures = First .. NBounds - 1
      BY <2>1 DEF SubmitInv
    <2>3. \A c \in futures : at[c] = Hi(c)
      BY <1>9, <2>1 DEF JoinAll, Records, Clean, Finished, FuturesInv
    <2>4. todo' = futures \cup ProbeRecord /\ pc' = "commit" /\ outcome' = "returned"
      BY <1>9, <2>1 DEF JoinAll, Commit, Joined, Records
    <2>5. UNCHANGED <<block, log, at>>
      BY <1>9 DEF JoinAll
    <2>6. \E m \in 0 .. NBounds : /\ todo' = m .. NBounds - 1
                                  /\ log = Iota(Bound(m))
                                  /\ \A c \in todo' : at[c] = Hi(c)
      <3>1. CASE probed = "no"
        BY <1>9, <2>1, <2>2, <2>3, <2>4, <3>1, BoundValues, NBoundsCover DEF First, ProbeRecord
      <3>2. CASE probed = "twin"
        BY <1>9, <2>1, <2>2, <2>3, <2>4, <3>2, BoundValues, NBoundsCover DEF First, ProbeRecord
      <3>3. CASE probed = "chunk"
        BY <1>9, <2>1, <2>2, <2>3, <2>4, <3>3, BoundValues, NBoundsCover DEF First, ProbeRecord
      <3> QED
        BY <3>1, <3>2, <3>3
    <2> QED
      BY <2>4, <2>5, <2>6
  <1>10. ASSUME Committed, Slabbed
        PROVE  LogInv'
    <2>1. outcome = "returned" => log = Iota(N)
      <3> SUFFICES ASSUME outcome = "returned"
                   PROVE  log = Iota(N)
        OBVIOUS
      <3>1. PICK m \in 0 .. NBounds : todo = m .. NBounds - 1 /\ log = Iota(Bound(m))
        BY <1>10 DEF Committed
      <3>2. m \notin m .. NBounds - 1
        BY <1>10, <3>1 DEF Committed
      <3>3. m = NBounds
        BY <3>2, NBoundsCover
      <3> QED
        BY <3>1, <3>3, BoundValues
    <2> QED
      BY <1>10, <2>1 DEF Committed
  <1>11. ASSUME Twin, Slabbed
        PROVE  LogInv'
    <2>1. cur \in Nat /\ log = Iota(cur)
      BY <1>11, IterationsAssumption DEF Twin
    <2>2. Append(log, cur) = Iota(cur + 1)
      BY <2>1, AppendIota
    <2> QED
      BY <1>11, <2>1, <2>2 DEF Twin, End
  <1>12. ASSUME NEW c \in Chunks, JoinError(c)
        PROVE  LogInv'
    BY <1>12 DEF JoinError, Commit, Joinable, Quiet
  <1>13. ASSUME NEW c \in Chunks, CommitOne(c), Slabbed
        PROVE  LogInv'
    <2>1. log' = Extend(log, Lo(c), at[c]) /\ todo' = todo \ {c} /\ c \in todo /\ pc = "commit"
          /\ UNCHANGED <<block, pc, probed, cur, at, outcome>>
      BY <1>13 DEF CommitOne
    <2>2. CASE outcome = "none"
      <3>1. todo = {0} /\ c = 0 /\ log = Iota(0) /\ probed = "chunk" /\ cur = Hi(0)
        BY <1>13, <2>1, <2>2
      <3>2. at[0] = Hi(0) /\ Lo(0) = 0
        BY <2>1, <2>2, <3>1, Tiling
      <3>3. log' = Iota(Hi(0)) /\ todo' = {}
        BY <2>1, <3>1, <3>2, ExtendIota
      <3> QED
        BY <2>1, <2>2, <3>1, <3>3
    <2>3. CASE outcome = "returned"
      <3>1. PICK m \in 0 .. NBounds : /\ todo = m .. NBounds - 1
                                      /\ log = Iota(Bound(m))
                                      /\ \A d \in todo : at[d] = Hi(d)
        BY <1>13, <2>1, <2>3
      <3>2. c = m /\ m + 1 \in 0 .. NBounds /\ todo' = m + 1 .. NBounds - 1
        <4>1. c \in m .. NBounds - 1 /\ m \in m .. NBounds - 1
          BY <2>1, <3>1, NBoundsCover
        <4>2. c <= m
          BY <1>13, <3>1, <4>1 DEF CommitOne
        <4>3. c = m /\ m + 1 \in 0 .. NBounds
          BY <4>1, <4>2, NBoundsCover
        <4>4. (m .. NBounds - 1) \ {m} = m + 1 .. NBounds - 1
          BY <4>3, NBoundsCover, SMTT(30)
        <4> QED
          BY <2>1, <3>1, <4>3, <4>4
      <3>3. log' = Extend(Iota(Bound(m)), Bound(m), Bound(m + 1))
        BY <2>1, <3>1, <3>2, BoundValues
      <3>4. Bound(m) \in Nat /\ Bound(m + 1) \in Nat /\ Bound(m) <= Bound(m + 1)
        BY <3>2, BoundValues
      <3>5. log' = Iota(Bound(m + 1)) /\ \A d \in todo' : at[d] = Hi(d)
        BY <2>1, <3>1, <3>3, <3>4, ExtendIota
      <3> QED
        BY <2>1, <2>3, <3>2, <3>5
    <2>4. CASE outcome \notin {"none", "returned"}
      BY <2>1, <2>4
    <2> QED
      BY <2>2, <2>3, <2>4
  <1>14. ASSUME NEW c \in Chunks, Iterate(c), Slabbed
         PROVE  LogInv'
    <2>1. UNCHANGED <<block, pc, probed, todo, cur, log, outcome>>
      BY <1>14 DEF Iterate
    <2>2. at[c] < Hi(c) /\ \A d \in Chunks : d # c => at'[d] = at[d]
      BY <1>14 DEF Iterate
    <2>3. \A d \in Chunks : at[d] = Hi(d) => at'[d] = Hi(d)
      BY <2>2
    <2> QED
      BY <2>1, <2>3
  <1>15. (Profitable \/ InterruptSubmit \/ WaitReturns \/ DirectReturns \/ Interrupt \/
       SettleDirect \/ Take \/ Expire) => LogInv'
    BY DEF Profitable, InterruptSubmit, End, WaitReturns, TearDown, Failed,
           DirectReturns, Interrupt, SettleDirect, Quiet, Take, PoolTake, Expire
  <1>16. ASSUME NEW c \in Chunks, Start(c) \/ Discard(c) \/ Acquire(c) \/ Leave(c)
         PROVE  LogInv'
    <2>1. UNCHANGED <<block, pc, probed, todo, cur, at, log, outcome>>
      BY <1>16 DEF Start, Discard, Acquire, Leave
    <2> QED
      BY <2>1
  <1>18. ASSUME NEW c \in Chunks, Submit(c)
         PROVE  LogInv'
    BY <1>18 DEF Submit
  <1>19. ASSUME NEW c \in Chunks, SubmitFails(c)
         PROVE  LogInv'
    BY <1>19 DEF SubmitFails
  <1>20. ASSUME NEW c \in Chunks, CancelOne(c)
         PROVE  LogInv'
    BY <1>20 DEF CancelOne
  <1>17. UNCHANGED vars => LogInv'
    OBVIOUS
  <1> QED
    BY <1>0, <1>1, <1>2, <1>3, <1>4, <1>5, <1>6, <1>7, <1>8, <1>9, <1>10, <1>11,
       <1>12, <1>13, <1>14, <1>15, <1>16, <1>17, <1>18, <1>19, <1>20 DEF Next, CallerStep, WorkerStep,
       FaultStep, Probing, Waiting, Settling, Joining, Over

-----------------------------------------------------------------------------
(***************************************************************************)
(* The invariant and what follows from it.                                 *)
(***************************************************************************)
LEMMA InvInit == Init => IInv
  <1> SUFFICES ASSUME Init
               PROVE  IInv
    OBVIOUS
  <1>1. TypeOK
    BY TypeInit
  <1>2. FuturesInv /\ SubmitInv /\ WaitInv /\ JoinInv /\ ProbeInv /\ OutcomeInv
    BY DEF Init, PoolInit, FuturesInv, SubmitInv, WaitInv, JoinInv, ProbeInv, OutcomeInv
  <1>3. LogInv
    BY IotaZero DEF Init, LogInv
  <1> QED
    BY <1>1, <1>2, <1>3 DEF IInv

LEMMA InvStep == IInv /\ [Next]_vars => IInv'
  BY TypeStep, FuturesStep, SubmitStep, WaitStep, JoinStep, ProbeStep, OutcomeStep, LogStep
     DEF IInv

LEMMA Invariance == Spec => []IInv
  BY InvInit, InvStep, PTL DEF Spec

\* A transactional block that returns shows the whole loop, each iteration once
\* and in order, whatever the interleaving, the faults and the path taken.
THEOREM WholeLoop == Spec => []ReturnsWholeLoop
  <1>1. IInv => ReturnsWholeLoop
    BY DEF IInv, LogInv, ReturnsWholeLoop, Ended
  <1> QED
    BY <1>1, Invariance, PTL

\* No record is committed while a future the caller holds may still run.
THEOREM JoinedFirst == Spec => []CommitsAfterJoin
  <1>1. IInv => CommitsAfterJoin
    BY DEF IInv, JoinInv, CommitsAfterJoin
  <1> QED
    BY <1>1, Invariance, PTL

-----------------------------------------------------------------------------
(***************************************************************************)
(* How a call on the THREAD backend ends, for every value of the           *)
(* constants: no iteration twice, none missing, commits in order, the      *)
(* right error raised, every error gathered, no writer left behind.  The   *)
(* invariant above says where the caller can be; the parts here relate     *)
(* that to the futures and to what the containers show.                    *)
(***************************************************************************)

\* The futures the caller holds are those of the chunks past the probe; all of
\* them, unless a submission was refused.  A reason to tear down comes from the
\* wait or from a refusal, and a future that fails fast does not hide an error.
HeldInv ==
  /\ \A c \in futures : c >= First
  /\ why # "refused" => \A c \in Chunks : fut[c] # "none" => c \in futures
  /\ pc \in {"enter", "probe", "profit", "submit", "wait"} => why = "none"
  /\ FailFast => \A c \in Chunks : fut[c] = "done" => stop[c] = "none"

\* Only records of chunks the caller ran are committed.  Where the twin or the
\* end of the call finds the chunks: over, unless a submission was refused or
\* interrupted.
QuietInv ==
  /\ pc = "commit" => todo \subseteq futures \cup ProbeRecord
  /\ pc = "twin" /\ why # "refused" =>
       \A c \in Chunks : fut[c] \notin {"queued", "running"}
  /\ pc = "end" /\ why # "refused" /\ (outcome = "interrupt" => why = "interrupt") =>
       \A c \in Chunks : fut[c] \notin {"queued", "running"}

-----------------------------------------------------------------------------
LEMMA HeldStep ==
  ASSUME IInv, HeldInv
  PROVE  [Next]_vars => HeldInv'
  <1> SUFFICES ASSUME [Next]_vars
               PROVE  HeldInv'
    OBVIOUS
  <1>0. FailFast' <=> FailFast
    BY DataFixed DEF FailFast, data
  <1> USE ChunkBounds DEF IInv, HeldInv, First, SubmitInv, FuturesInv, TypeOK, PoolTypeOK,
          vars, data, records, result, caller, poolVars
  <1>1. Enter => HeldInv'
    BY <1>0 DEF Enter, End
  <1>2. (ProbeTwin \/ ProbeChunk) => HeldInv'
    BY <1>0 DEF ProbeTwin, End, TwinReaches, ProbeChunk
  <1>3. (Profitable \/ Unprofitable \/ InterruptSubmit \/ WaitReturns \/ DirectReturns \/ Interrupt)
         => HeldInv'
    BY <1>0 DEF Profitable, Unprofitable, End, InterruptSubmit, WaitReturns, TearDown, Failed,
           DirectReturns, Interrupt
  <1>4. (SettleDirect \/ SettleRefused \/ SettleInterrupt \/ SettleTimeout) => HeldInv'
    BY <1>0 DEF SettleDirect, End, Quiet, SettleRefused, Commit, SettleInterrupt, SettleTimeout
  <1>5. (JoinConflict \/ JoinAll \/ Committed \/ Twin \/ Take \/ Expire) => HeldInv'
    BY <1>0 DEF JoinConflict, End, Joinable, Quiet, JoinAll, Commit, Committed, Twin, Take,
           PoolTake, Expire
  <1>6. ASSUME NEW c \in Chunks, Submit(c)
        PROVE  HeldInv'
    BY <1>0, <1>6 DEF Submit, PoolSubmit, Enqueue, NextToSubmit
  <1>7. ASSUME NEW c \in Chunks, SubmitFails(c)
        PROVE  HeldInv'
    BY <1>0, <1>7 DEF SubmitFails, PoolSubmitFails, Enqueue, NextToSubmit
  <1>8. ASSUME NEW c \in Chunks, CancelOne(c)
        PROVE  HeldInv'
    BY <1>0, <1>8 DEF CancelOne, PoolCancel
  <1>9. ASSUME NEW c \in Chunks, Start(c)
        PROVE  HeldInv'
    BY <1>0, <1>9 DEF Start, PoolStart
  <1>10. ASSUME NEW c \in Chunks, Leave(c)
        PROVE  HeldInv'
    BY <1>0, <1>10 DEF Leave, PoolFinish
  <1>11. ASSUME NEW c \in Chunks, Iterate(c)
        PROVE  HeldInv'
    BY <1>0, <1>11 DEF Iterate
  <1>12. ASSUME NEW c \in Chunks, JoinError(c) \/ CommitOne(c) \/ Discard(c) \/ Acquire(c)
         PROVE  HeldInv'
    BY <1>0, <1>12 DEF JoinError, Joinable, Quiet, Commit, CommitOne, Discard, PoolDiscard, Acquire
  <1>13. UNCHANGED vars => HeldInv'
    BY <1>0
  <1> QED
    BY <1>1, <1>2, <1>3, <1>4, <1>5, <1>6, <1>7, <1>8, <1>9, <1>10, <1>11,
       <1>12, <1>13 DEF Next, CallerStep, WorkerStep,
       FaultStep, Probing, Waiting, Settling, Joining, Over

\* A chunk starts only when its future is queued, and is over once it is not.
LEMMA QuietStep ==
  ASSUME IInv, HeldInv, QuietInv
  PROVE  [Next]_vars => QuietInv'
  <1> USE ChunkBounds DEF ProbeRecord, IInv, HeldInv, QuietInv, SubmitInv, JoinInv, FuturesInv, TypeOK, PoolTypeOK,
          vars, data, records, result, caller, poolVars
  <1>1. Enter => QuietInv'
    BY DEF Enter, End
  <1>2. (ProbeTwin \/ ProbeChunk) => QuietInv'
    BY DEF ProbeTwin, End, TwinReaches, ProbeChunk
  <1>3. (Profitable \/ Unprofitable \/ InterruptSubmit \/ WaitReturns \/ DirectReturns \/ Interrupt)
         => QuietInv'
    BY DEF Profitable, Unprofitable, End, InterruptSubmit, WaitReturns, TearDown, Failed, Finished,
           DirectReturns, Interrupt
  <1>4. (SettleDirect \/ SettleRefused \/ SettleInterrupt \/ SettleTimeout) => QuietInv'
    BY DEF SettleDirect, End, Quiet, SettleRefused, Commit, SettleInterrupt, SettleTimeout,
           Finished, Uncancelled, Records, ContiguousPrefix
  <1>5. (JoinConflict \/ JoinAll \/ Committed \/ Twin \/ Take \/ Expire) => QuietInv'
    BY DEF JoinConflict, End, Joinable, Quiet, JoinAll, Commit, Committed, Twin, Take,
           PoolTake, Expire, Finished, Uncancelled, Records, Joined
  <1>6. ASSUME NEW c \in Chunks, Submit(c) \/ SubmitFails(c)
        PROVE  QuietInv'
    BY <1>6 DEF Submit, SubmitFails
  <1>8. ASSUME NEW c \in Chunks, CancelOne(c)
        PROVE  QuietInv'
    BY <1>8 DEF CancelOne, PoolCancel
  <1>9. ASSUME NEW c \in Chunks, Start(c)
        PROVE  QuietInv'
    BY <1>9 DEF Start, PoolStart
  <1>10. ASSUME NEW c \in Chunks, Leave(c)
        PROVE  QuietInv'
    BY <1>10 DEF Leave, PoolFinish
  <1>12. ASSUME NEW c \in Chunks, JoinError(c) \/ CommitOne(c) \/ Discard(c) \/ Acquire(c) \/ Iterate(c)
         PROVE  QuietInv'
    BY <1>12 DEF Records, Finished, Joined, JoinError, Joinable, Quiet, Commit, CommitOne, Discard, PoolDiscard, Acquire, Iterate
  <1>13. UNCHANGED vars => QuietInv'
    OBVIOUS
  <1> QED
    BY <1>1, <1>2, <1>3, <1>4, <1>5, <1>6, <1>8, <1>9, <1>10,
       <1>12, <1>13 DEF Next, CallerStep, WorkerStep,
       FaultStep, Probing, Waiting, Settling, Joining, Over

LEMMA OutcomeInit == Init => HeldInv /\ QuietInv
  BY ChunkBounds DEF Init, PoolInit, HeldInv, QuietInv

\* Once the call is over no worker writes to the caller's containers, except
\* after a submission that failed or was interrupted.
THEOREM NoWriter == Spec => []NoWriterAfterEnd
  <1>1. IInv /\ HeldInv /\ QuietInv /\ [Next]_vars => (IInv /\ HeldInv /\ QuietInv)'
    BY InvStep, HeldStep, QuietStep
  <1>2. QuietInv => NoWriterAfterEnd
    BY DEF QuietInv, NoWriterAfterEnd
  <1> QED
    BY InvInit, OutcomeInit, <1>1, <1>2, PTL DEF Spec

-----------------------------------------------------------------------------
(***************************************************************************)
(* The order of the commits.                                               *)
(***************************************************************************)
Increasing(s) == \A i, j \in 1 .. Len(s) : i < j => s[i] < s[j]

\* Everything a transactional block shows is below p.
Below(p) == \A i \in 1 .. Len(log) : log[i] < p

OrderInv ==
  Slabbed => /\ Increasing(log)
             /\ pc = "commit" => \A c \in todo : Below(Lo(c))

LEMMA ExtendIncreasing ==
  ASSUME NEW s \in Seq(Pos), NEW a \in Nat, NEW b \in Nat, a <= b,
         Increasing(s), \A i \in 1 .. Len(s) : s[i] < a
  PROVE  /\ Increasing(Extend(s, a, b))
         /\ \A i \in 1 .. Len(Extend(s, a, b)) : Extend(s, a, b)[i] < b
  <1> DEFINE e == Extend(s, a, b)
  <1>1. /\ Len(e) = Len(s) + (b - a)
        /\ \A i \in 1 .. Len(s) : e[i] = s[i]
        /\ \A i \in Len(s) + 1 .. Len(e) : e[i] = a + (i - Len(s)) - 1
    BY ExtendElements
  <1>2. Len(s) \in Nat /\ \A i \in 1 .. Len(s) : s[i] \in Int
    BY IterationsAssumption DEF Pos
  <1> HIDE DEF e
  <1>3. ASSUME NEW i \in 1 .. Len(e)
        PROVE  e[i] < b
    <2>1. CASE i \in 1 .. Len(s)
      BY <1>1, <1>2, <2>1
    <2>2. CASE i \in Len(s) + 1 .. Len(e)
      BY <1>1, <1>2, <2>2
    <2> QED
      BY <1>1, <1>2, <2>1, <2>2
  <1>4. ASSUME NEW i \in 1 .. Len(e), NEW j \in 1 .. Len(e), i < j
        PROVE  e[i] < e[j]
    <2>1. CASE j \in 1 .. Len(s)
      BY <1>1, <1>2, <1>4, <2>1 DEF Increasing
    <2>2. CASE i \in 1 .. Len(s) /\ j \in Len(s) + 1 .. Len(e)
      <3>1. e[i] < a /\ e[i] \in Int
        BY <1>1, <1>2, <2>2
      <3>2. e[j] = a + (j - Len(s)) - 1
        BY <1>1, <2>2
      <3> QED
        BY <1>2, <2>2, <3>1, <3>2
    <2>3. CASE i \in Len(s) + 1 .. Len(e)
      <3>1. j \in Len(s) + 1 .. Len(e)
        BY <1>1, <1>2, <1>4, <2>3
      <3>2. e[i] = a + (i - Len(s)) - 1 /\ e[j] = a + (j - Len(s)) - 1
        BY <1>1, <2>3, <3>1
      <3> QED
        BY <1>2, <1>4, <2>3, <3>1, <3>2
    <2> QED
      BY <1>1, <1>2, <2>1, <2>2, <2>3
  <1> QED
    BY <1>3, <1>4 DEF e, Increasing

LEMMA ExtendBelow ==
  ASSUME NEW s \in Seq(Pos), NEW a \in Nat, NEW b \in Nat, a <= b, NEW p \in Nat, b <= p,
         \A i \in 1 .. Len(s) : s[i] < p
  PROVE  \A i \in 1 .. Len(Extend(s, a, b)) : Extend(s, a, b)[i] < p
  <1> DEFINE e == Extend(s, a, b)
  <1>1. /\ Len(e) = Len(s) + (b - a)
        /\ \A i \in 1 .. Len(s) : e[i] = s[i]
        /\ \A i \in Len(s) + 1 .. Len(e) : e[i] = a + (i - Len(s)) - 1
    BY ExtendElements
  <1>2. Len(s) \in Nat
    OBVIOUS
  <1> HIDE DEF e
  <1>3. ASSUME NEW i \in 1 .. Len(e)
        PROVE  e[i] < p
    <2>1. CASE i \in 1 .. Len(s)
      BY <1>1, <2>1
    <2>2. CASE i \in Len(s) + 1 .. Len(e)
      BY <1>1, <1>2, <2>2
    <2> QED
      BY <1>1, <1>2, <2>1, <2>2
  <1> QED
    BY <1>3 DEF e

LEMMA IotaIncreasing ==
  ASSUME NEW a \in Nat
  PROVE  Increasing(Iota(a)) /\ \A i \in 1 .. Len(Iota(a)) : Iota(a)[i] < a
  BY DEF Iota, Increasing

\* Before the commit the containers show the probed chunk or nothing.
LEMMA ShownBefore ==
  ASSUME IInv, HeldInv, Slabbed, pc \in {"profit", "cancel"},
         NEW c \in futures \cup ProbeRecord
  PROVE  Below(Lo(c))
  <1>1. c \in Chunks
    BY ChunkBounds DEF IInv, TypeOK, ProbeRecord
  <1>2. log = Iota(IF probed = "twin" THEN Hi(0) ELSE 0)
    BY DEF IInv, LogInv
  <1>3. CASE probed = "twin"
    <2>1. c > 0
      BY <1>1, <1>3, ChunkBounds DEF HeldInv, First, ProbeRecord
    <2>2. Hi(0) <= Lo(c) /\ Lo(c) \in Nat /\ Hi(0) \in Nat
      BY <1>1, <2>1, ChunkBounds, ChunkOrder
    <2>3. \A i \in 1 .. Len(log) : log[i] < Hi(0) /\ log[i] \in Int
      BY <1>2, <1>3, <2>2, IotaIncreasing DEF Iota
    <2> QED
      BY <2>2, <2>3 DEF Below
  <1>4. CASE probed # "twin"
    BY <1>2, <1>4, IotaZero DEF Below
  <1> QED
    BY <1>3, <1>4

LEMMA OrderStep ==
  ASSUME IInv, HeldInv, QuietInv, OrderInv
  PROVE  [Next]_vars => OrderInv'
  <1> SUFFICES ASSUME [Next]_vars
               PROVE  OrderInv'
    OBVIOUS
  <1>0. Slabbed' <=> Slabbed
    BY DataFixed DEF Slabbed, data
  <1>s. SUFFICES ASSUME Slabbed
                 PROVE  OrderInv'
    BY <1>0 DEF OrderInv
  <1>o. Increasing(log) /\ (pc = "commit" => \A c \in todo : Below(Lo(c)))
    BY <1>s DEF OrderInv
  <1>t. log \in Seq(Pos) /\ cur \in Nat
    BY IterationsAssumption DEF IInv, TypeOK
  <1>a. ASSUME log' = log, pc' = "commit" => \A c \in todo' : c \in todo /\ pc = "commit"
        PROVE  OrderInv'
    BY <1>a, <1>o DEF OrderInv, Below
  <1>b. ASSUME log' = log, pc \in {"profit", "cancel"}, todo' \subseteq futures \cup ProbeRecord
        PROVE  OrderInv'
    <2>1. \A c \in todo' : Below(Lo(c))
      BY <1>b, <1>s, ShownBefore
    <2> QED
      BY <1>b, <1>o, <2>1 DEF OrderInv, Below
  <1>1. ASSUME ProbeTwin
        PROVE  OrderInv'
    <2>1. log = <<>> /\ pc' # "commit"
      BY <1>1, <1>s DEF ProbeTwin, IInv, LogInv, End
    <2>2. PICK p \in 0 .. Hi(0) : log' = Extend(log, 0, p)
      BY <1>1 DEF ProbeTwin
    <2>3. p \in Nat
      BY <2>2, ChunkBounds
    <2>4. \A i \in 1 .. Len(log) : log[i] < 0
      BY <2>1
    <2>5. Increasing(Extend(log, 0, p))
      BY <1>o, <1>t, <2>3, <2>4, ExtendIncreasing
    <2> QED
      BY <2>1, <2>2, <2>5 DEF OrderInv
  <1>2. ASSUME ProbeChunk
        PROVE  OrderInv'
    <2>1. log' = <<>>
      BY <1>2, <1>s DEF ProbeChunk, IInv, LogInv
    <2> QED
      BY <2>1 DEF OrderInv, Increasing, Below
  <1>3. Unprofitable => OrderInv'
    BY <1>a, <1>b DEF Unprofitable, End
  <1>4. SettleRefused => OrderInv'
    BY <1>a, <1>b DEF SettleRefused, End, Quiet, Commit
  <1>5. SettleInterrupt => OrderInv'
    BY <1>b DEF SettleInterrupt, Quiet, Commit, ContiguousPrefix, Records, Finished, result
  <1>6. SettleTimeout => OrderInv'
    BY <1>b DEF SettleTimeout, Quiet, Commit, ContiguousPrefix, Records, Finished
  <1>7. JoinAll => OrderInv'
    BY <1>b DEF JoinAll, Joinable, Quiet, Commit, Joined, Records, Finished
  <1>8. ASSUME NEW c \in Chunks, JoinError(c)
        PROVE  OrderInv'
    BY <1>b, <1>8 DEF JoinError, Joinable, Quiet, Commit, Joined, Records, Finished
  <1>9. ASSUME NEW c \in Chunks, CommitOne(c)
        PROVE  OrderInv'
    <2>1. /\ pc = "commit" /\ pc' = "commit" /\ c \in todo /\ todo' = todo \ {c}
          /\ \A d \in todo : c <= d
          /\ log' = Extend(log, Lo(c), at[c])
      BY <1>9, <1>s DEF CommitOne
    <2>2. Lo(c) \in Nat /\ at[c] \in Nat /\ Lo(c) <= at[c] /\ at[c] <= Hi(c) /\ Hi(c) \in Nat
      BY ChunkBounds DEF IInv, TypeOK
    <2>3. \A i \in 1 .. Len(log) : log[i] < Lo(c)
      BY <1>o, <2>1 DEF Below
    <2>4. Increasing(log') /\ \A i \in 1 .. Len(log') : log'[i] < at[c]
      BY <1>o, <1>t, <2>1, <2>2, <2>3, ExtendIncreasing
    <2>5. log' \in Seq(Pos)
      BY <1>9, <1>9, TypeStep DEF IInv, TypeOK
    <2>6. ASSUME NEW d \in todo'
          PROVE  Below(Lo(d))'
      <3>1. d \in Chunks /\ c < d
        BY <2>1, <2>6, ChunkBounds DEF IInv, TypeOK
      <3>2. Hi(c) <= Lo(d) /\ Lo(d) \in Nat
        BY <3>1, ChunkOrder, ChunkBounds
      <3>3. \A i \in 1 .. Len(log') : log'[i] \in Int
        BY <2>5, IterationsAssumption DEF Pos
      <3> QED
        BY <2>2, <2>4, <3>2, <3>3 DEF Below
    <2> QED
      BY <2>1, <2>4, <2>6 DEF OrderInv
  <1>10. ASSUME Twin
         PROVE  OrderInv'
    <2>1. log = Iota(cur) /\ pc' # "commit"
      BY <1>10, <1>s DEF Twin, IInv, LogInv, End
    <2>2. log' = log \/ log' = Iota(cur + 1)
      BY <1>10, <1>t, <2>1, AppendIota DEF Twin
    <2> QED
      BY <1>o, <1>t, <2>1, <2>2, IotaIncreasing DEF OrderInv
  <1>11. (Enter \/ Profitable \/ InterruptSubmit \/ WaitReturns \/ DirectReturns \/ Interrupt
            \/ SettleDirect \/ JoinConflict \/ Committed \/ Take \/ Expire \/ UNCHANGED vars)
         => OrderInv'
    BY <1>a DEF Enter, End, Profitable, InterruptSubmit, WaitReturns, TearDown, DirectReturns,
           Interrupt, SettleDirect, JoinConflict, Committed, Take, Expire, Quiet, Joinable,
           caller, result, vars
  <1>12. ASSUME NEW c \in Chunks,
                Submit(c) \/ SubmitFails(c) \/ CancelOne(c) \/ Start(c) \/ Discard(c)
                  \/ Acquire(c) \/ Iterate(c) \/ Leave(c)
         PROVE  OrderInv'
    BY <1>a, <1>s, <1>12 DEF Submit, SubmitFails, CancelOne, Start, Discard, Acquire,
           Iterate, Leave, caller, result
  <1> QED
    BY <1>1, <1>2, <1>3, <1>4, <1>5, <1>6, <1>7, <1>8, <1>9, <1>10, <1>11,
       <1>12 DEF Next, CallerStep, WorkerStep,
       FaultStep, Probing, Waiting, Settling, Joining, Over

\* Records are committed in chunk order, whichever of them there are.
THEOREM InOrder == Spec => []CommitsInOrder
  <1>1. Init => OrderInv
    BY DEF Init, OrderInv, Increasing
  <1>2. IInv /\ HeldInv /\ QuietInv /\ OrderInv /\ [Next]_vars
        => (IInv /\ HeldInv /\ QuietInv /\ OrderInv)'
    BY InvStep, HeldStep, QuietStep, OrderStep
  <1>3. OrderInv => CommitsInOrder
    BY DEF OrderInv, CommitsInOrder, Increasing
  <1> QED
    BY InvInit, OutcomeInit, <1>1, <1>2, <1>3, PTL DEF Spec

-----------------------------------------------------------------------------
(***************************************************************************)
(* Which iterations raised, and whose error the caller gets.               *)
(***************************************************************************)
\* A chunk stops with an error only at an iteration that raises, and runs past
\* none unless their errors are gathered; the twin ran past none in its probe.
CleanInv ==
  /\ pc \in {"enter", "probe"} => \A c \in Chunks : stop[c] = "none"
  /\ \A c \in Chunks : stop[c] = "error" => at[c] \in raises /\ FailFast
  /\ FailFast => \A c \in Chunks : \A p \in raises : Lo(c) <= p => at[c] <= p
  /\ probed = "twin" => \A p \in raises : Hi(0) <= p

\* Under on_error= a parallel result holds the errors of the whole loop.
GatheredInv ==
  block.collect /\ outcome = "returned" /\ pc \in {"commit", "end"} /\ cur # N
  => collected = raises

LEMMA CleanStep ==
  ASSUME IInv, CleanInv
  PROVE  [Next]_vars => CleanInv'
  <1> SUFFICES ASSUME [Next]_vars
               PROVE  CleanInv'
    OBVIOUS
  <1>0. (FailFast' <=> FailFast) /\ raises' = raises
    BY DataFixed DEF FailFast, data
  <1>1. raises \subseteq Int /\ at \in [Chunks -> 0 .. N] /\ stop \in [Chunks -> {"none", "error", "deadline"}]
    BY IterationsAssumption DEF IInv, TypeOK, Pos
  <1>a. ASSUME UNCHANGED <<at, stop, probed>>,
               pc' \in {"enter", "probe"} => pc \in {"enter", "probe"}
        PROVE  CleanInv'
    BY <1>0, <1>a DEF CleanInv
  <1>2. ASSUME ProbeTwin
        PROVE  CleanInv'
    <2>1. UNCHANGED <<at, stop>> /\ pc' \notin {"enter", "probe"}
      BY <1>2 DEF ProbeTwin, records, End
    <2>2. PICK p \in 0 .. Hi(0) : TwinReaches(p) /\ (p < Hi(0) => probed' = probed)
      BY <1>2 DEF ProbeTwin
    <2>3. CASE p < Hi(0)
      BY <1>a, <2>1, <2>2, <2>3
    <2>4. CASE p = Hi(0)
      <3>1. \A q \in raises : Hi(0) <= q
        BY <1>1, <2>2, <2>4, ChunkBounds DEF TwinReaches, IInv, TypeOK, Pos
      <3> QED
        BY <1>0, <2>1, <3>1 DEF CleanInv
    <2> QED
      BY <2>2, <2>3, <2>4, ChunkBounds
  <1>3. ASSUME ProbeChunk
        PROVE  CleanInv'
    <2>1. PICK p \in 0 .. Hi(0) : /\ ProbeReaches(p)
                                  /\ at' = [at EXCEPT ![0] = p]
                                  /\ p < Hi(0) => stop' = [stop EXCEPT ![0] = "error"]
                                  /\ ~(p < Hi(0)) => stop' = stop
      BY <1>3 DEF ProbeChunk
    <2>2. p < Hi(0) => p \in raises /\ FailFast
      BY <2>1 DEF ProbeReaches, Raises
    <2>3. FailFast => \A q \in raises : p <= q
      BY <1>1, <2>1 DEF ProbeReaches, Raises, IInv, TypeOK, Pos
    <2>4. probed' = "chunk"
      BY <1>3 DEF ProbeChunk
    <2>5. \A c \in Chunks : stop[c] = "none" /\ pc' # "probe" /\ pc' # "enter"
      BY <1>3 DEF ProbeChunk, CleanInv
    <2> QED
      BY <1>0, <1>1, <2>1, <2>2, <2>3, <2>4, <2>5, ChunkBounds DEF CleanInv
  <1>4. ASSUME NEW c \in Chunks, Iterate(c)
        PROVE  CleanInv'
    <2>1. UNCHANGED probed
      BY <1>4 DEF Iterate, caller
    <2>2. at[c] \in Int /\ pc \notin {"enter", "probe"} /\ pc' = pc
      BY <1>1, <1>4 DEF Iterate, caller, IInv, FuturesInv, SubmitInv
    <2>3. Raises(at[c]) <=> at[c] \in raises /\ FailFast
      BY DEF Raises
    <2>4. CASE stop' # stop
      <3>1. at' = at /\ stop'[c] \in {"error", "deadline"} /\ \A d \in Chunks : d # c => stop'[d] = stop[d]
        BY <1>1, <1>4, <2>4 DEF Iterate
      <3>2. stop'[c] = "error" => Raises(at[c])
        BY <1>1, <1>4, <2>4 DEF Iterate
      <3> QED
        BY <1>0, <2>1, <2>2, <2>3, <3>1, <3>2 DEF CleanInv
    <2>5. CASE stop' = stop
      <3>1. stop[c] = "none" /\ ~Raises(at[c]) /\ at' = [at EXCEPT ![c] = at[c] + 1]
        BY <1>1, <1>4, <2>5 DEF Iterate
      <3>2. ASSUME FailFast, NEW q \in raises, NEW d \in Chunks, Lo(d) <= q
            PROVE  at'[d] <= q
        <4>1. at[d] <= q /\ q \in Int
          BY <1>1, <3>2 DEF CleanInv
        <4>2. d = c => q # at[c]
          BY <2>3, <3>1, <3>2
        <4> QED
          BY <1>1, <2>2, <3>1, <4>1, <4>2
      <3>3. \A d \in Chunks : stop[d] = "error" => at'[d] = at[d]
        BY <1>1, <3>1
      <3> QED
        BY <1>0, <2>1, <2>2, <2>5, <3>2, <3>3 DEF CleanInv
    <2> QED
      BY <2>4, <2>5
  <1>5. (Enter \/ Profitable \/ Unprofitable \/ WaitReturns \/ DirectReturns \/ Interrupt
           \/ InterruptSubmit) => CleanInv'
    BY <1>a DEF Enter, End, Profitable, Unprofitable, WaitReturns, DirectReturns, TearDown,
           Interrupt, InterruptSubmit, records
  <1>7. (SettleDirect \/ SettleRefused \/ SettleInterrupt \/ SettleTimeout) => CleanInv'
    BY <1>a DEF SettleDirect, SettleRefused, SettleInterrupt, SettleTimeout, Quiet, Commit, End, records
  <1>8. (JoinConflict \/ JoinAll \/ Committed \/ Twin \/ Take \/ Expire \/ UNCHANGED vars)
         => CleanInv'
    BY <1>a DEF JoinConflict, JoinAll, Commit, End, Committed, Twin, Take, Expire, records,
           caller, vars
  <1>6. ASSUME NEW c \in Chunks,
               Submit(c) \/ SubmitFails(c) \/ JoinError(c) \/ CancelOne(c) \/ CommitOne(c)
                 \/ Start(c) \/ Discard(c) \/ Acquire(c) \/ Leave(c)
        PROVE  CleanInv'
    BY <1>a, <1>6 DEF SubmitFails, JoinError, Commit, Submit, CancelOne, CommitOne, Start, Discard, Acquire, Leave, records, caller
  <1> QED
    BY <1>2, <1>3, <1>4, <1>5, <1>6, <1>7, <1>8 DEF Next, CallerStep, WorkerStep, FaultStep,
       Probing, Waiting, Settling, Joining, Over

\* The join of every record finds each chunk past the probe run to its end.
LEMMA JoinAllRecords ==
  ASSUME IInv, JoinAll
  PROVE  /\ Records = futures /\ futures = First .. NBounds - 1
         /\ \A c \in futures : at[c] = Hi(c)
  <1>1. pc = "cancel" /\ why = "all" /\ Finished(futures) = futures
    BY DEF JoinAll, Joinable, Quiet, Records, Clean, Finished, Failed, FuturesInv, WaitInv, IInv, TypeOK
  <1>2. futures = First .. NBounds - 1
    BY <1>1 DEF SubmitInv, IInv
  <1>3. \A c \in futures : at[c] = Hi(c)
    BY <1>1 DEF JoinAll, Records, Clean, Finished, FuturesInv, IInv, TypeOK
  <1> QED
    BY <1>1, <1>2, <1>3 DEF Records

LEMMA GatheredStep ==
  ASSUME IInv, CleanInv, GatheredInv
  PROVE  [Next]_vars => GatheredInv'
  <1> SUFFICES ASSUME [Next]_vars
               PROVE  GatheredInv'
    OBVIOUS
  <1>0. block' = block /\ raises' = raises
    BY DataFixed DEF data
  <1>a. ASSUME UNCHANGED <<cur, collected, outcome>>, pc' \in {"commit", "end"} => pc = "commit" \/ pc' = pc
        PROVE  GatheredInv'
    BY <1>0, <1>a DEF GatheredInv
  <1>b. ASSUME pc' \notin {"commit", "end"} \/ outcome' # "returned" \/ cur' = N \/ ~block.collect
        PROVE  GatheredInv'
    BY <1>0, <1>b DEF GatheredInv
  <1>o. pc \in {"enter", "probe", "profit", "submit", "wait", "twin"} => outcome = "none"
    BY DEF IInv, OutcomeInv
  <1>d. block.kind = "direct" => ~block.collect
    BY DispatchAssumption DEF IInv, TypeOK, BlockType
  <1>1. JoinAll => GatheredInv'
    <2> SUFFICES ASSUME JoinAll, block.collect
                 PROVE  GatheredInv'
      BY <1>b
    <2>1. collected' = ErrorsOf(Joined)
      BY DEF JoinAll
    <2>2. ASSUME NEW p \in raises
          PROVE  \E c \in Joined : Lo(c) <= p /\ p < at[c]
      <3>1. p \in Pos /\ p \in Int
        BY IterationsAssumption DEF IInv, TypeOK, Pos
      <3>2. PICK c \in Chunks : Lo(c) <= p /\ p < Hi(c)
        BY <3>1, SomeChunk
      <3>3. CASE c >= First
        BY <3>2, <3>3, JoinAllRecords, ChunkBounds DEF Joined, Chunks
      <3>4. CASE c < First
        <4>1. c = 0 /\ probed # "no"
          BY <3>4, ChunkBounds DEF First, Chunks
        <4>2. probed # "twin"
          BY <3>1, <3>2, <4>1, ChunkBounds DEF CleanInv
        <4>3. probed = "chunk" /\ at[0] = Hi(0)
          BY <4>1, <4>2 DEF IInv, TypeOK, ProbeInv, JoinAll, Joinable, Quiet
        <4> QED
          BY <3>2, <4>1, <4>3 DEF Joined, ProbeRecord
      <3> QED
        BY <3>3, <3>4, ChunkBounds DEF First
    <2>3. ErrorsOf(Joined) = raises
      BY <2>2 DEF ErrorsOf
    <2> QED
      BY <1>0, <2>1, <2>3 DEF GatheredInv
  <1>2. DirectReturns => GatheredInv'
    BY <1>b, <1>d DEF DirectReturns
  <1>3. (Enter \/ Probing \/ WaitReturns \/ FaultStep) => GatheredInv'
    BY <1>b, <1>o DEF Enter, End, Probing, ProbeTwin, ProbeChunk, Profitable, Unprofitable,
           WaitReturns, TearDown, FaultStep, Interrupt, InterruptSubmit, SubmitFails
  <1>p. pc = "cancel" /\ block.collect => outcome # "returned"
    BY <1>d DEF IInv, OutcomeInv
  <1>4. (SettleDirect \/ SettleRefused \/ SettleInterrupt \/ SettleTimeout) => GatheredInv'
    BY <1>b, <1>p DEF SettleDirect, SettleRefused, SettleInterrupt, SettleTimeout, Quiet,
           Commit, End, result
  <1>5. (JoinConflict \/ Committed \/ Twin \/ Take \/ Expire \/ UNCHANGED vars) => GatheredInv'
    BY <1>a, <1>b, <1>o DEF JoinConflict, End, Committed, Twin, Take, Expire, caller, result, vars
  <1>6. ASSUME NEW c \in Chunks, JoinError(c)
        PROVE  GatheredInv'
    BY <1>b, <1>6 DEF JoinError
  <1>7. ASSUME NEW c \in Chunks,
               Submit(c) \/ CancelOne(c) \/ CommitOne(c) \/ Start(c) \/ Discard(c) \/ Acquire(c)
                 \/ Iterate(c) \/ Leave(c)
        PROVE  GatheredInv'
    BY <1>a, <1>7 DEF Submit, CancelOne, CommitOne, Start, Discard, Acquire, Iterate, Leave,
           caller, result
  <1> QED
    BY <1>1, <1>2, <1>3, <1>4, <1>5, <1>6, <1>7 DEF Next, CallerStep, WorkerStep, Waiting,
       Settling, Joining, Over

\* Every error of a parallel run under on_error= reaches the caller.
THEOREM Gathers == Spec => []CollectsEveryError
  <1>1. Init => CleanInv /\ GatheredInv
    <2> SUFFICES ASSUME Init
                 PROVE  CleanInv /\ GatheredInv
      OBVIOUS
    <2>1. raises \subseteq Int
      BY TypeInit, IterationsAssumption DEF TypeOK, Pos
    <2> QED
      BY <2>1, ChunkBounds DEF Init, CleanInv, GatheredInv
  <1>2. IInv /\ CleanInv /\ GatheredInv /\ [Next]_vars => (IInv /\ CleanInv /\ GatheredInv)'
    BY InvStep, CleanStep, GatheredStep
  <1>3. IInv /\ GatheredInv => CollectsEveryError
    BY IterationsAssumption DEF IInv, TypeOK, GatheredInv, CollectsEveryError, Ended
  <1> QED
    BY InvInit, <1>1, <1>2, <1>3, PTL DEF Spec

\* Nothing shown is at or past the error the call raises, and what raised below
\* it was cancelled, or was gathered by the probe and dropped.
Lowest ==
  /\ errorAt \in raises
  /\ Below(errorAt)
  /\ \A c \in Chunks : \A p \in raises :
       Lo(c) <= p /\ p < Hi(c) /\ p < errorAt =>
         fut[c] = "cancelled" \/ (c = 0 /\ probed = "chunk" /\ block.collect)

\* The twin passes no iteration that raises, the probe's record does only when
\* it gathers.
RaiseInv ==
  Slabbed =>
    /\ pc = "twin" \/ (pc = "commit" /\ outcome = "none") =>
         \A p \in raises : p < cur => p < Hi(0) /\ probed = "chunk" /\ block.collect
    /\ outcome = "error" /\ pc \in {"commit", "end"} => Lowest
    /\ outcome = "error" /\ pc = "commit" => \A c \in todo : at[c] <= errorAt

\* What raises past a probe is past its chunk, or was gathered.
LEMMA RaisesPastProbe ==
  ASSUME IInv, CleanInv, Slabbed, pc \in {"profit", "cancel"}, outcome = "none",
         NEW p \in raises, p < cur
  PROVE  p < Hi(0) /\ probed = "chunk" /\ block.collect
  <1>1. p \in Int /\ 0 <= p /\ probed \in {"no", "twin", "chunk"}
    BY IterationsAssumption DEF IInv, TypeOK, Pos
  <1>2. cur = IF probed = "no" THEN 0 ELSE Hi(0)
    BY DEF IInv, LogInv
  <1>3. probed # "twin"
    BY <1>1, <1>2, ChunkBounds DEF CleanInv
  <1>4. probed = "chunk" => at[0] = Hi(0)
    BY DEF IInv, ProbeInv
  <1>5. Lo(0) = 0 /\ 0 \in Chunks
    BY Tiling
  <1> QED
    BY <1>1, <1>2, <1>3, <1>4, <1>5, ChunkBounds DEF CleanInv, FailFast

\* A position in chunk 0 is in no other.
LEMMA InFirstChunk ==
  ASSUME NEW c \in Chunks, NEW p \in Int, Lo(c) <= p, p < Hi(0)
  PROVE  c = 0
  <1>1. c > 0 => Hi(0) <= Lo(c)
    BY ChunkOrder, ChunkBounds
  <1> QED
    BY <1>1, ChunkBounds

\* The join of a record with an error, of which it takes the lowest.
LEMMA JoinLowest ==
  ASSUME IInv, HeldInv, CleanInv, Slabbed, NEW c \in Chunks, JoinError(c),
         stop[c] = "error"
  PROVE  /\ at[c] \in raises /\ Below(at[c])
         /\ \A d \in Joined : d <= c => at[d] <= at[c]
         /\ \A d \in Chunks : \A p \in raises :
              Lo(d) <= p /\ p < Hi(d) /\ p < at[c] => fut[d] = "cancelled"
  <1>1. /\ pc = "cancel" /\ why \in {"all", "failure"} /\ c \in Records \ Clean
        /\ \A d \in Records \ Clean : c <= d
        /\ Finished(futures) = Uncancelled(futures)
        /\ FailFast /\ at[c] \in raises
    BY DEF JoinError, Joinable, Quiet, CleanInv
  <1>2. /\ raises \subseteq Pos /\ raises \subseteq Int
        /\ \A d \in Chunks : d \in Int /\ at[d] \in Int /\ Lo(d) <= at[d] /\ at[d] <= Hi(d)
        /\ \A d \in Chunks : Lo(d) \in Int /\ Hi(d) \in Int
        /\ probed \in {"no", "twin", "chunk"}
    BY ChunkBounds, IterationsAssumption DEF IInv, TypeOK, Pos
  <1>3. futures = First .. NBounds - 1 /\ c \in futures
    BY <1>1 DEF IInv, SubmitInv, Records, Finished
  <1>4. Below(Lo(c))
    BY <1>1, <1>3, ShownBefore
  <1>5. Below(at[c])
    <2>1. \A i \in 1 .. Len(log) : log[i] \in Int
      BY IterationsAssumption DEF IInv, TypeOK, Pos
    <2> QED
      BY <1>2, <1>4, <2>1 DEF Below
  <1>6. ASSUME NEW d \in Joined, d <= c
        PROVE  at[d] <= at[c]
    <2>1. d \in Chunks
      BY <1>3, ChunkBounds DEF Joined, Records, Finished, ProbeRecord, IInv, TypeOK
    <2>2. CASE d < c
      <3>1. Hi(d) <= Lo(c)
        BY <2>1, <2>2, ChunkOrder
      <3> QED
        BY <1>2, <2>1, <3>1
    <2>3. CASE d = c
      BY <1>2, <2>3
    <2> QED
      BY <1>2, <1>6, <2>1, <2>2, <2>3
  <1>7. ASSUME NEW d \in Chunks, NEW p \in raises, Lo(d) <= p, p < Hi(d), p < at[c],
               fut[d] # "cancelled"
        PROVE  FALSE
    <2>1. at[d] <= p /\ p \in Int
      BY <1>1, <1>2, <1>7 DEF CleanInv
    <2>2. d < c
      <3>1. c < d => at[c] <= p
        BY <1>2, <1>7, ChunkOrder
      <3>2. c # d
        BY <1>2, <1>7, <2>1
      <3> QED
        BY <1>2, <1>7, <3>1, <3>2
    <2>3. CASE d >= First
      <3>1. d \in Records
        BY <1>1, <1>3, <1>7, <2>3, ChunkBounds DEF Records, Finished, Uncancelled, Chunks
      <3>2. d \in Clean
        BY <1>1, <1>2, <2>2, <3>1
      <3>3. at[d] = Hi(d)
        BY <3>1, <3>2 DEF Records, Clean, Finished, IInv, FuturesInv
      <3> QED
        BY <1>2, <1>7, <2>1, <3>3
    <2>4. CASE d < First
      <3>1. d = 0 /\ probed # "no"
        BY <1>2, <2>4, ChunkBounds DEF First, Chunks
      <3>2. probed # "twin"
        BY <1>2, <1>7, <2>1, <3>1 DEF CleanInv
      <3>3. at[0] = Hi(0)
        BY <1>1, <1>2, <3>1, <3>2 DEF IInv, ProbeInv
      <3> QED
        BY <1>2, <1>7, <2>1, <3>1, <3>3
    <2> QED
      BY <1>2, <2>3, <2>4 DEF First
  <1> QED
    BY <1>1, <1>5, <1>6, <1>7

LEMMA RaiseStep ==
  ASSUME IInv, HeldInv, QuietInv, CleanInv, RaiseInv
  PROVE  [Next]_vars => RaiseInv'
  <1> SUFFICES ASSUME [Next]_vars, Slabbed
               PROVE  RaiseInv'
    BY DataFixed DEF RaiseInv, Slabbed, data
  <1>0. block' = block /\ raises' = raises
    BY DataFixed DEF data
  <1>t. /\ raises \subseteq Int /\ log \in Seq(Pos) /\ cur \in Nat /\ errorAt \in Nat
        /\ \A p \in raises : p \in Pos /\ 0 <= p
        /\ \A i \in 1 .. Len(log) : log[i] \in Int
    BY IterationsAssumption DEF IInv, TypeOK, Pos
  <1>r. /\ pc = "twin" \/ (pc = "commit" /\ outcome = "none") =>
             \A p \in raises : p < cur => p < Hi(0) /\ probed = "chunk" /\ block.collect
        /\ outcome = "error" /\ pc \in {"commit", "end"} => Lowest
        /\ outcome = "error" /\ pc = "commit" => \A c \in todo : at[c] <= errorAt
    BY DEF RaiseInv
  <1>o. pc \in {"enter", "probe", "profit", "submit", "wait", "twin"} => outcome = "none"
    BY DEF IInv, OutcomeInv
  <1>p. pc = "cancel" => outcome \in {"none", "interrupt"}
    BY DEF IInv, OutcomeInv, Slabbed
  <1>a. ASSUME pc' \notin {"commit", "end", "twin"} \/ (pc' # "twin" /\ outcome' \notin {"none", "error"})
        PROVE  RaiseInv'
    BY <1>a DEF RaiseInv
  <1>b. ASSUME pc' = "commit", outcome' = "none", cur' = cur, probed' = probed,
               pc \in {"profit", "cancel"}, outcome = "none"
        PROVE  RaiseInv'
    BY <1>0, <1>b, RaisesPastProbe DEF RaiseInv
  <1>c. ASSUME UNCHANGED <<pc, probed, cur, log, outcome, errorAt, todo>>,
               \A c \in Chunks : fut[c] = "cancelled" => fut'[c] = "cancelled",
               pc = "commit" => \A c \in todo : at'[c] = at[c]
        PROVE  RaiseInv'
    BY <1>0, <1>c, <1>r DEF RaiseInv, Lowest, Below
  <1>1. ASSUME Enter
        PROVE  RaiseInv'
    <2>1. cur' = 0 /\ pc' # "commit" /\ outcome' # "error"
      BY <1>1, <1>o DEF Enter, End, IInv, LogInv
    <2> QED
      BY <1>0, <1>t, <2>1 DEF RaiseInv
  <1>2. ASSUME ProbeTwin
        PROVE  RaiseInv'
    <2>1. log = <<>>
      BY <1>2 DEF ProbeTwin, IInv, LogInv
    <2>2. PICK p \in 0 .. Hi(0) : /\ TwinReaches(p) /\ log' = Extend(log, 0, p)
                                  /\ p < Hi(0) => errorAt' = p /\ pc' = "end" /\ outcome' = "error"
                                  /\ ~(p < Hi(0)) => pc' = "profit"
      BY <1>2 DEF ProbeTwin, End
    <2>3. CASE p < Hi(0)
      <3>1. p \in Nat /\ p \in raises /\ \A q \in raises : p <= q
        BY <1>t, <2>2, <2>3, ChunkBounds DEF TwinReaches
      <3>2. \A i \in 1 .. Len(log') : log'[i] < p
        <4>1. \A i \in 1 .. Len(log) : log[i] < p
          BY <2>1
        <4> QED
          BY <1>t, <2>2, <3>1, <4>1, ExtendBelow
      <3>3. Lowest'
        BY <1>0, <1>t, <2>2, <2>3, <3>1, <3>2 DEF Lowest, Below
      <3> QED
        BY <2>2, <2>3, <3>3 DEF RaiseInv
    <2>4. CASE ~(p < Hi(0))
      BY <1>a, <2>2, <2>4
    <2> QED
      BY <2>3, <2>4
  <1>3. ASSUME ProbeChunk
        PROVE  RaiseInv'
    <2>1. log' = <<>>
      BY <1>3 DEF ProbeChunk, IInv, LogInv
    <2>2. PICK p \in 0 .. Hi(0) :
            /\ ProbeReaches(p) /\ at' = [at EXCEPT ![0] = p]
            /\ p < Hi(0) => errorAt' = p /\ pc' = "commit" /\ outcome' = "error" /\ todo' = {0}
            /\ ~(p < Hi(0)) => pc' = "profit"
      BY <1>3 DEF ProbeChunk
    <2>3. CASE p < Hi(0)
      <3>1. p \in Nat /\ p \in raises /\ \A q \in raises : p <= q
        BY <1>t, <2>2, <2>3, ChunkBounds DEF ProbeReaches, Raises
      <3>2. at'[0] = p
        BY <2>2, ChunkBounds DEF IInv, TypeOK
      <3>3. Lowest'
        BY <1>0, <1>t, <2>1, <2>2, <2>3, <3>1 DEF Lowest, Below
      <3> QED
        BY <2>2, <2>3, <3>1, <3>2, <3>3 DEF RaiseInv
    <2>4. CASE ~(p < Hi(0))
      BY <1>a, <2>2, <2>4
    <2> QED
      BY <2>3, <2>4
  <1>4. Unprofitable => RaiseInv'
    BY <1>a, <1>b, <1>o DEF Unprofitable, End
  <1>5. SettleRefused => RaiseInv'
    BY <1>a, <1>b, <1>p DEF SettleRefused, End, Quiet, Commit, IInv, OutcomeInv
  <1>6. (SettleInterrupt \/ SettleTimeout \/ JoinAll) => RaiseInv'
    BY <1>a DEF SettleInterrupt, SettleTimeout, JoinAll, Quiet, Commit, IInv, OutcomeInv, result
  <1>7. ASSUME JoinConflict
        PROVE  RaiseInv'
    <2>1. \/ pc' = "end" /\ outcome' = "conflict"
          \/ pc' = "twin" /\ cur' = 0 /\ outcome' \in {"none", "interrupt"}
      BY <1>7, <1>p DEF JoinConflict, Joinable, Quiet, End
    <2> QED
      BY <1>0, <1>t, <2>1 DEF RaiseInv
  <1>8. ASSUME NEW c \in Chunks, JoinError(c)
        PROVE  RaiseInv'
    <2>1. /\ pc' = "commit" /\ todo' = {d \in Joined : d <= c} /\ errorAt' = at[c]
          /\ outcome' \in {"timeout", "error"}
          /\ outcome' = "error" => stop[c] # "deadline"
          /\ UNCHANGED <<probed, fut, at, log>>
      BY <1>8 DEF JoinError, Commit, poolVars, records
    <2>2. CASE outcome' = "error"
      <3>1. stop[c] = "error"
        BY <1>8, <2>1, <2>2 DEF JoinError, Clean, IInv, TypeOK
      <3>2. Lowest'
        BY <1>0, <1>8, <2>1, <3>1, JoinLowest DEF Lowest, Below
      <3>3. \A d \in todo' : at'[d] <= errorAt'
        BY <1>8, <2>1, <3>1, JoinLowest
      <3> QED
        BY <2>1, <2>2, <3>2, <3>3 DEF RaiseInv
    <2>3. CASE outcome' = "timeout"
      BY <1>a, <2>1, <2>3
    <2> QED
      BY <2>1, <2>2, <2>3
  <1>9. ASSUME NEW c \in Chunks, CommitOne(c)
        PROVE  RaiseInv'
    <2>1. /\ pc = "commit" /\ c \in todo /\ todo' \subseteq todo
          /\ log' = Extend(log, Lo(c), at[c])
          /\ UNCHANGED <<pc, probed, cur, outcome, errorAt, fut, at>>
      BY <1>9 DEF CommitOne, poolVars, records
    <2>2. ASSUME outcome = "error"
          PROVE  Lowest' /\ \A d \in todo' : at'[d] <= errorAt'
      <3>1. at[c] <= errorAt /\ Lo(c) \in Nat /\ at[c] \in Nat /\ Lo(c) <= at[c]
        BY <1>r, <2>1, <2>2, ChunkBounds DEF IInv, TypeOK
      <3>2. \A i \in 1 .. Len(log') : log'[i] < errorAt
        BY <1>r, <1>t, <2>1, <2>2, <3>1, ExtendBelow DEF Lowest, Below
      <3> QED
        BY <1>0, <1>r, <2>1, <2>2, <3>2 DEF Lowest, Below
    <2> QED
      BY <1>0, <1>r, <2>1, <2>2 DEF RaiseInv
  <1>10. ASSUME Committed
         PROVE  RaiseInv'
    <2>1. /\ pc = "commit" /\ pc' = (IF outcome = "none" THEN "twin" ELSE "end")
          /\ UNCHANGED <<probed, cur, outcome, errorAt, fut, log>>
      BY <1>10 DEF Committed, result, poolVars
    <2> QED
      BY <1>0, <1>r, <2>1 DEF RaiseInv, Lowest, Below
  <1>11. ASSUME Twin
         PROVE  RaiseInv'
    <2>0. pc = "twin" /\ log = Iota(cur) /\ probed' = probed /\ fut' = fut
      BY <1>11 DEF Twin, IInv, LogInv, poolVars
    <2>1. CASE cur = N
      BY <1>11, <1>a, <2>1 DEF Twin, End
    <2>2. CASE cur # N /\ cur \in raises
      <3>1. pc' = "end" /\ errorAt' = cur /\ log' = log
        BY <1>11, <2>2 DEF Twin, End
      <3>2. \A i \in 1 .. Len(log) : log[i] < cur
        BY <1>t, <2>0, IotaIncreasing
      <3>3. ASSUME NEW c \in Chunks, NEW p \in raises, Lo(c) <= p, p < cur
            PROVE  c = 0 /\ probed = "chunk" /\ block.collect
        BY <1>r, <1>t, <2>0, <3>3, InFirstChunk
      <3>4. Lowest'
        BY <1>0, <2>0, <2>2, <3>1, <3>2, <3>3 DEF Lowest, Below
      <3> QED
        BY <3>1, <3>4 DEF RaiseInv
    <2>3. CASE cur # N /\ cur \notin raises
      <3>1. pc' = "twin" /\ cur' = cur + 1 /\ outcome' = "none"
        BY <1>11, <1>o, <2>0, <2>3 DEF Twin
      <3>2. \A p \in raises : p < cur + 1 => p < cur
        BY <1>t, <2>3
      <3> QED
        BY <1>0, <1>r, <2>0, <3>1, <3>2 DEF RaiseInv
    <2> QED
      BY <2>1, <2>2, <2>3
  <1>12. (Profitable \/ InterruptSubmit \/ WaitReturns \/ DirectReturns \/ Interrupt) => RaiseInv'
    BY <1>a DEF Profitable, InterruptSubmit, End, WaitReturns, TearDown, DirectReturns, Interrupt,
           Slabbed
  <1>13. SettleDirect => RaiseInv'
    BY DEF SettleDirect, Slabbed
  <1>14. (Take \/ Expire \/ UNCHANGED vars) => RaiseInv'
    BY <1>c DEF Take, PoolTake, Expire, caller, records, result, poolVars, vars
  <1>15. ASSUME NEW c \in Chunks, Submit(c) \/ SubmitFails(c) \/ CancelOne(c)
         PROVE  RaiseInv'
    BY <1>15, <1>a DEF Submit, SubmitFails, CancelOne
  <1>16. ASSUME NEW c \in Chunks, Start(c) \/ Discard(c) \/ Acquire(c) \/ Leave(c)
         PROVE  RaiseInv'
    <2>1. UNCHANGED <<pc, probed, cur, log, outcome, errorAt, todo, at>>
      BY <1>16 DEF Start, Discard, Acquire, Leave, caller, records
    <2>2. \A d \in Chunks : fut[d] = "cancelled" => fut'[d] = "cancelled"
      BY <1>16 DEF Start, PoolStart, Discard, PoolDiscard, Acquire, Leave, PoolFinish, poolVars,
             IInv, TypeOK, PoolTypeOK
    <2> QED
      BY <1>c, <2>1, <2>2
  <1>17. ASSUME NEW c \in Chunks, Iterate(c)
         PROVE  RaiseInv'
    <2>1. /\ UNCHANGED <<pc, probed, cur, log, outcome, errorAt, todo, fut>>
          /\ \A d \in Chunks : d # c => at'[d] = at[d]
          /\ fut[c] = "running"
      BY <1>17 DEF Iterate, caller, poolVars, IInv, TypeOK, FuturesInv
    <2>2. pc = "commit" => c \notin todo
      BY <2>1 DEF QuietInv, ProbeRecord, IInv, JoinInv, ProbeInv
    <2>3. pc = "commit" => todo \subseteq Chunks
      BY DEF IInv, TypeOK
    <2> QED
      BY <1>c, <2>1, <2>2, <2>3
  <1> QED
    BY <1>1, <1>2, <1>3, <1>4, <1>5, <1>6, <1>7, <1>8, <1>9, <1>10, <1>11, <1>12, <1>13, <1>14,
       <1>15, <1>16, <1>17 DEF Next, CallerStep, WorkerStep, FaultStep, Probing, Waiting,
       Settling, Joining, Over

\* The caller gets the error of the lowest iteration to raise, unless the chunk
\* of a lower one was cancelled or its error gathered by the probe.
THEOREM LowestError == Spec => []RaisesLowestError
  <1>1. Init => CleanInv /\ RaiseInv
    <2> SUFFICES ASSUME Init
                 PROVE  CleanInv /\ RaiseInv
      OBVIOUS
    <2>1. raises \subseteq Int
      BY TypeInit, IterationsAssumption DEF TypeOK, Pos
    <2> QED
      BY <2>1, ChunkBounds DEF Init, CleanInv, RaiseInv
  <1>2. IInv /\ HeldInv /\ QuietInv /\ CleanInv /\ RaiseInv /\ [Next]_vars
        => (IInv /\ HeldInv /\ QuietInv /\ CleanInv /\ RaiseInv)'
    BY InvStep, HeldStep, QuietStep, CleanStep, RaiseStep
  <1>3. RaiseInv => RaisesLowestError
    BY DEF RaiseInv, Lowest, Below, RaisesLowestError, Ended
  <1> QED
    BY InvInit, OutcomeInit, <1>1, <1>2, <1>3, PTL DEF Spec

-----------------------------------------------------------------------------
(***************************************************************************)
(* ThreadDispatch implements the steps of SequentialLoop, for transactional*)
(* blocks without a timeout and on_error=, when nobody presses a key during*)
(* the wait and only the first chunk has iterations that raise: there is no*)
(* lower chunk whose future the tear-down could cancel.                    *)
(***************************************************************************)
LoopConditions ==
  /\ \A b \in Blocks : b.kind \in {"list", "dict", "reduction"} /\ ~b.deadline /\ ~b.collect
  /\ \A R \in RaiseSets : \A p \in R : p < Hi(0)
  /\ "interrupt" \notin Faults

\* The call is such a block's, and nothing stops it but an error.
PlainInv ==
  /\ Slabbed /\ ~block.deadline /\ FailFast
  /\ \A p \in raises : p < Hi(0)
  /\ ~expired /\ why \notin {"timeout", "interrupt"}
  /\ \A c \in Chunks : stop[c] # "deadline"
  /\ pc = "commit" => outcome \in {"none", "returned", "error"}

\* The error committed is the first chunk's.
FirstErrorInv ==
  pc = "commit" /\ outcome = "error" =>
    /\ errorAt \in raises
    /\ \/ todo = {0} /\ log = <<>> /\ at[0] = errorAt /\ stop[0] = "error"
       \/ todo = {} /\ log = Iota(errorAt)

\* Nothing but an error stops the call, step by step.
LEMMA PlainStep == LoopConditions /\ IInv /\ PlainInv /\ [Next]_vars => PlainInv'
  <1> SUFFICES ASSUME LoopConditions, IInv, PlainInv, [Next]_vars
               PROVE  PlainInv'
    OBVIOUS
  <1>0. UNCHANGED <<block, raises>>
    BY DataFixed DEF data
  <1>t. /\ stop \in [Chunks -> {"none", "error", "deadline"}] /\ OutcomeInv
        /\ ~block.deadline /\ ~block.perTask
    BY DispatchAssumption DEF IInv, TypeOK, PlainInv, BlockType
  <1>a. ASSUME UNCHANGED <<expired, stop>>, why' = why \/ why' \in {"all", "failure", "refused"},
               pc' = "commit" => outcome' \in {"none", "returned", "error"}
        PROVE  PlainInv'
    BY <1>0, <1>a DEF PlainInv, Slabbed, FailFast
  <1>n. pc \in {"enter", "probe", "profit", "submit", "wait", "twin"} => outcome = "none"
    BY <1>t DEF OutcomeInv
  <1>c. pc = "cancel" /\ block.kind # "direct" /\ why # "interrupt" => outcome = "none"
    BY <1>t DEF OutcomeInv
  <1>k. pc = "commit" => outcome \in {"none", "returned", "error"}
    BY DEF PlainInv
  <1>1. ASSUME ProbeChunk
        PROVE  PlainInv'
    <2>1. \A c \in Chunks : stop'[c] # "deadline"
      BY <1>1, <1>t DEF ProbeChunk, PlainInv
    <2>2. UNCHANGED <<expired, why>> /\ outcome' \in {"none", "error"}
      BY <1>1, <1>n DEF ProbeChunk
    <2> QED
      BY <1>0, <2>1, <2>2 DEF PlainInv, Slabbed, FailFast
  <1>2. ASSUME NEW c \in Chunks, Iterate(c)
        PROVE  PlainInv'
    <2>1. \A d \in Chunks : stop'[d] # "deadline"
      BY <1>2, <1>t DEF Iterate, PlainInv
    <2>2. UNCHANGED <<expired, why, pc, outcome>>
      BY <1>2 DEF Iterate, caller
    <2> QED
      BY <1>0, <2>1, <2>2 DEF PlainInv, Slabbed, FailFast
  <1>3. (Enter \/ ProbeTwin \/ Profitable \/ Unprofitable \/ InterruptSubmit) => PlainInv'
    BY <1>a, <1>n DEF Enter, ProbeTwin, Profitable, Unprofitable, InterruptSubmit, End, records, result
  <1>4. (WaitReturns \/ DirectReturns) => PlainInv'
    BY <1>a, <1>n DEF WaitReturns, DirectReturns, TearDown, End, PlainInv, records, result
  <1>5. (SettleDirect \/ SettleRefused \/ SettleInterrupt \/ SettleTimeout) => PlainInv'
    BY <1>a, <1>c DEF SettleDirect, SettleRefused, SettleInterrupt, SettleTimeout, Quiet,
       PlainInv, Commit, End, records, result
  <1>6. (JoinConflict \/ JoinAll \/ Committed \/ Twin) => PlainInv'
    BY <1>a, <1>k DEF JoinConflict, JoinAll, Joinable, Quiet, Committed, Twin, Commit, End,
       records, result
  <1>7. ASSUME NEW c \in Chunks, JoinError(c)
        PROVE  PlainInv'
    BY <1>7, <1>a DEF JoinError, PlainInv, Commit, records
  <1>8. ASSUME NEW c \in Chunks,
               Submit(c) \/ SubmitFails(c) \/ CancelOne(c) \/ CommitOne(c)
                 \/ Start(c) \/ Discard(c) \/ Acquire(c) \/ Leave(c)
        PROVE  PlainInv'
    BY <1>8, <1>a, <1>k DEF Submit, SubmitFails, CancelOne, CommitOne, Start, Discard,
       Acquire, Leave, records, result, caller
  <1>9. (Take \/ UNCHANGED vars) => PlainInv'
    BY <1>a, <1>k DEF Take, records, result, caller, vars
  <1>10. ~Interrupt /\ ~Expire
    BY <1>t DEF Interrupt, Expire, LoopConditions
  <1> QED
    BY <1>1, <1>2, <1>3, <1>4, <1>5, <1>6, <1>7, <1>8, <1>9, <1>10 DEF Next, CallerStep,
       WorkerStep, FaultStep, Probing, Waiting, Settling, Joining, Over

\* The error of a join is the first chunk's, and nothing is committed yet.
LEMMA JoinFirstError ==
  ASSUME IInv, CleanInv, PlainInv, NEW c \in Chunks, JoinError(c)
  PROVE  /\ c = 0 /\ stop[0] = "error" /\ at[0] \in raises
         /\ outcome' = "error" /\ errorAt' = at[0] /\ todo' = {0} /\ log' = <<>>
  <1>1. /\ pc = "cancel" /\ c \in Records /\ stop[c] = "error"
        /\ why \in {"all", "failure"} /\ futures = First .. NBounds - 1
    BY DEF JoinError, Joinable, Quiet, Clean, PlainInv, IInv, TypeOK, SubmitInv
  <1>2. at[c] \in raises /\ at[c] \in Int /\ Lo(c) <= at[c] /\ at[c] < Hi(0)
    BY <1>1, ChunkBounds, IterationsAssumption DEF CleanInv, PlainInv, IInv, TypeOK
  <1>3. c = 0
    BY <1>2, InFirstChunk
  <1>4. c \in futures
    BY <1>1 DEF Records, Finished
  <1>5. probed = "no"
    BY <1>1, <1>3, <1>4 DEF First, IInv, TypeOK
  <1>6. log = <<>> /\ log' = log
    BY <1>1, <1>5, IotaZero DEF IInv, LogInv, PlainInv, JoinError
  <1>7. Joined = Records /\ Records \subseteq Chunks /\ Chunks \subseteq Nat
    BY <1>5, ChunkBounds DEF Joined, ProbeRecord, Records, Finished, IInv, TypeOK
  <1>8. 0 \in Joined /\ \A d \in Joined : d \in Nat
    BY <1>1, <1>3, <1>7
  <1>9. {d \in Joined : d <= 0} = {0}
    BY <1>8
  <1> QED
    BY <1>1, <1>2, <1>3, <1>6, <1>9 DEF JoinError, Commit

\* The error committed is the first chunk's, step by step.
LEMMA FirstErrorStep ==
  IInv /\ CleanInv /\ PlainInv /\ FirstErrorInv /\ [Next]_vars => FirstErrorInv'
  <1> SUFFICES ASSUME IInv, CleanInv, PlainInv, FirstErrorInv, [Next]_vars
               PROVE  FirstErrorInv'
    OBVIOUS
  <1>0. UNCHANGED raises
    BY DataFixed DEF data
  <1>t. /\ at \in [Chunks -> 0 .. N] /\ 0 \in Chunks /\ OutcomeInv
        /\ stop \in [Chunks -> {"none", "error", "deadline"}]
    BY ChunkBounds DEF IInv, TypeOK
  <1>n. pc \in {"enter", "probe", "profit", "submit", "wait", "twin"} => outcome = "none"
    BY <1>t DEF OutcomeInv
  <1>c. pc = "cancel" /\ block.kind # "direct" => outcome = "none"
    BY <1>t DEF OutcomeInv, PlainInv
  <1>a. ASSUME pc' # "commit" \/ outcome' # "error"
        PROVE  FirstErrorInv'
    BY <1>a DEF FirstErrorInv
  <1>b. ASSUME UNCHANGED <<pc, outcome, errorAt, todo, log, at, stop>>
        PROVE  FirstErrorInv'
    BY <1>0, <1>b DEF FirstErrorInv
  <1>1. ASSUME ProbeChunk
        PROVE  FirstErrorInv'
    <2>1. PICK p \in 0 .. Hi(0) :
            /\ ProbeReaches(p)
            /\ at' = [at EXCEPT ![0] = p]
            /\ IF p < Hi(0)
               THEN /\ stop' = [stop EXCEPT ![0] = "error"]
                    /\ outcome' = "error" /\ errorAt' = p /\ todo' = {0}
               ELSE pc' = "profit"
      BY <1>1 DEF ProbeChunk
    <2>2. CASE p < Hi(0)
      <3>1. p \in raises /\ log' = <<>>
        BY <1>1, <2>1, <2>2, IotaZero DEF ProbeChunk, ProbeReaches, Raises, IInv, LogInv, PlainInv
      <3> QED
        BY <1>0, <1>t, <2>1, <2>2, <3>1 DEF FirstErrorInv
    <2>3. CASE ~(p < Hi(0))
      BY <1>a, <2>1, <2>3
    <2> QED
      BY <2>2, <2>3
  <1>2. ASSUME NEW c \in Chunks, JoinError(c)
        PROVE  FirstErrorInv'
    <2>1. UNCHANGED <<at, stop>>
      BY <1>2 DEF JoinError, records
    <2> QED
      BY <1>0, <1>2, <2>1, JoinFirstError DEF FirstErrorInv
  <1>3. ASSUME NEW c \in Chunks, CommitOne(c)
        PROVE  FirstErrorInv'
    <2>1. CASE outcome = "error"
      <3>1. /\ todo = {0} /\ c = 0 /\ log = Iota(0) /\ at[0] = errorAt /\ errorAt \in raises
            /\ Lo(0) = 0
        BY <1>3, <2>1, IotaZero, Tiling DEF CommitOne, FirstErrorInv
      <3>2. log' = Extend(Iota(0), 0, errorAt) /\ todo' = {} /\ errorAt' = errorAt
        BY <1>3, <3>1 DEF CommitOne, PlainInv
      <3>3. errorAt \in Nat
        BY <1>t, <3>1, IterationsAssumption
      <3>4. log' = Iota(errorAt)
        BY <3>2, <3>3, ExtendIota
      <3> QED
        BY <1>0, <3>1, <3>2, <3>4 DEF FirstErrorInv
    <2>2. CASE outcome # "error"
      BY <1>3, <1>a, <2>2 DEF CommitOne
    <2> QED
      BY <2>1, <2>2
  <1>4. ASSUME NEW c \in Chunks, Iterate(c)
        PROVE  FirstErrorInv'
    <2>1. UNCHANGED <<pc, outcome, errorAt, todo, log>>
      BY <1>4 DEF Iterate, caller, PlainInv
    <2>2. stop[0] = "error" => UNCHANGED <<at[0], stop[0]>>
      BY <1>4, <1>t DEF Iterate
    <2> QED
      BY <1>0, <2>1, <2>2 DEF FirstErrorInv
  <1>5. ASSUME NEW c \in Chunks, Start(c) \/ Discard(c) \/ Acquire(c) \/ Leave(c) \/ Take
                                   \/ Expire \/ UNCHANGED vars
        PROVE  FirstErrorInv'
    BY <1>5, <1>b DEF Start, Discard, Acquire, Leave, Take, Expire, caller, records, result, vars
  <1>6. (Enter \/ ProbeTwin \/ Profitable \/ Unprofitable \/ InterruptSubmit \/ WaitReturns
          \/ DirectReturns \/ Interrupt \/ Twin \/ Committed) => FirstErrorInv'
    BY <1>a, <1>n DEF Enter, ProbeTwin, Profitable, Unprofitable, InterruptSubmit, WaitReturns,
       DirectReturns, Interrupt, TearDown, Twin, Committed, End, result
  <1>7. (SettleDirect \/ SettleRefused \/ SettleInterrupt \/ SettleTimeout) => FirstErrorInv'
    BY <1>a, <1>c DEF SettleDirect, SettleRefused, SettleInterrupt, SettleTimeout, Quiet,
       Commit, End, PlainInv, result
  <1>8. (JoinConflict \/ JoinAll) => FirstErrorInv'
    BY <1>a DEF JoinConflict, JoinAll, Commit, End
  <1>9. ASSUME NEW c \in Chunks, Submit(c) \/ SubmitFails(c) \/ CancelOne(c)
        PROVE  FirstErrorInv'
    BY <1>9, <1>a DEF Submit, SubmitFails, CancelOne
  <1> QED
    BY <1>1, <1>2, <1>3, <1>4, <1>5, <1>6, <1>7, <1>8, <1>9, <1>t DEF Next, CallerStep,
       WorkerStep, FaultStep, Probing, Waiting, Settling, Joining, Over

\* Containers that go from one prefix of the loop to another past no error.
LEMMA LoopAdvances ==
  ASSUME NEW m \in 0 .. N, NEW n \in m .. N, pc # "end", pc' # "end", UNCHANGED raises,
         log = Iota(m), log' = Iota(n), \A q \in m .. n - 1 : q \notin raises
  PROVE  [Loop!Next]_(Loop!loopVars)
  <1>1. Len(log) = m /\ N \in Nat
    BY IterationsAssumption DEF Iota
  <1>2. CASE n = m
    BY <1>2 DEF Loop!loopVars
  <1>3. CASE n # m
    <2>1. n \in Len(log) + 1 .. N
      BY <1>1, <1>3
    <2>2. Loop!Reaches(n)
      BY <1>1 DEF Loop!Reaches
    <2> QED
      BY <2>1, <2>2 DEF Loop!Next, Loop!Advance, Loop!Iota, Iota
  <1> QED
    BY <1>2, <1>3

\* A call that ends with the containers at a prefix of the loop.
LEMMA LoopEnds ==
  ASSUME NEW m \in 0 .. N, NEW n \in m .. N, pc # "end", pc' = "end", UNCHANGED raises,
         log = Iota(m), log' = Iota(n), \A q \in m .. n - 1 : q \notin raises,
         \/ outcome' \in {"refused", "unprofitable", "conflict", "interrupt"}
         \/ outcome' = "returned" /\ m = N
         \/ outcome' = "error" /\ n \in raises /\ n # N
  PROVE  Loop!Next
  <1>1. Len(log) = m /\ N \in Nat /\ m \in Nat /\ n \in Nat
    BY IterationsAssumption DEF Iota
  <1>2. Loop!Reaches(n)
    BY <1>1 DEF Loop!Reaches
  <1>3. n \in Len(log) .. N
    BY <1>1
  <1>4. CASE outcome' \in {"refused", "unprofitable", "conflict", "interrupt"}
    BY <1>2, <1>3, <1>4 DEF Loop!Next, Loop!GiveUp, Loop!Outcomes, Loop!Iota, Iota
  <1>5. CASE outcome' = "returned" /\ m = N
    <2>1. n = m
      BY <1>1, <1>5
    <2> QED
      BY <1>1, <1>5, <2>1 DEF Loop!Next, Loop!Return
  <1>6. CASE outcome' = "error" /\ n \in raises /\ n # N
    <2>1. n \in Len(log) .. N - 1
      BY <1>1, <1>6
    <2> QED
      BY <1>2, <1>6, <2>1 DEF Loop!Next, Loop!Raise, Loop!Iota, Iota
  <1> QED
    BY <1>4, <1>5, <1>6

\* Every step is one of the loop's, or none.
LEMMA LoopStep ==
  ASSUME IInv, CleanInv, PlainInv, FirstErrorInv, [Next]_vars
  PROVE  [Loop!Next]_(Loop!loopVars)
  <1>0. UNCHANGED <<block, raises>>
    BY DataFixed DEF data
  <1>t. /\ TypeOK /\ LogInv /\ OutcomeInv /\ Slabbed /\ FailFast
        /\ block.kind # "direct" /\ N \in Nat /\ 0 \in 0 .. N /\ N \in 0 .. N
        /\ Hi(0) \in 0 .. N /\ cur \in 0 .. N /\ raises \subseteq Pos
    BY ChunkBounds, IterationsAssumption DEF IInv, PlainInv, Slabbed, TypeOK
  <1>a. ASSUME log' = log, pc' # "end", pc # "end"
        PROVE  [Loop!Next]_(Loop!loopVars)
    BY <1>0, <1>a DEF Loop!loopVars
  <1>e. ASSUME NEW m \in 0 .. N, pc # "end", pc' = "end", log = Iota(m), log' = log,
               \/ outcome' \in {"refused", "unprofitable", "conflict", "interrupt"}
               \/ outcome' = "returned" /\ m = N
               \/ outcome' = "error" /\ m \in raises
        PROVE  [Loop!Next]_(Loop!loopVars)
    <2>1. m \in m .. N /\ m .. m - 1 = {}
      BY <1>t
    <2>2. m \in raises => m # N
      BY <1>t DEF Pos
    <2> QED
      BY <1>0, <1>e, <2>1, <2>2, LoopEnds
  <1>1. pc \in {"enter", "probe"} => log = Iota(0)
    BY <1>t, IotaZero DEF LogInv
  <1>2. pc \in {"profit", "submit", "wait", "cancel"} => \E m \in 0 .. N : log = Iota(m)
    BY <1>t DEF LogInv
  <1>3. CASE Enter
    BY <1>1, <1>3, <1>a, <1>e, <1>t DEF Enter, End
  <1>4. CASE ProbeTwin
    <2>1. PICK p \in 0 .. Hi(0) :
            /\ TwinReaches(p) /\ log' = Extend(log, 0, p)
            /\ IF p < Hi(0) THEN End("error") ELSE pc' = "profit"
      BY <1>4 DEF ProbeTwin
    <2>2. log = Iota(0) /\ p \in 0 .. N /\ pc # "end"
      BY <1>1, <1>4, <1>t, <2>1 DEF ProbeTwin
    <2>3. log' = Iota(p)
      BY <2>1, <2>2, ExtendIota
    <2>4. \A q \in 0 .. p - 1 : q \notin raises
      BY <2>1 DEF TwinReaches
    <2>5. CASE p < Hi(0)
      <3>1. pc' = "end" /\ outcome' = "error" /\ p \in raises /\ p # N
        BY <1>t, <2>1, <2>5 DEF TwinReaches, End
      <3> QED
        BY <1>0, <1>t, <2>2, <2>3, <2>4, <3>1, LoopEnds
    <2>6. CASE ~(p < Hi(0))
      <3>1. pc' # "end"
        BY <2>1, <2>6
      <3> QED
        BY <1>0, <1>t, <2>2, <2>3, <2>4, <3>1, LoopAdvances
    <2> QED
      BY <2>5, <2>6
  <1>5. CASE ProbeChunk \/ Profitable
    BY <1>5, <1>a DEF ProbeChunk, Profitable, result
  <1>6. CASE Unprofitable \/ InterruptSubmit
    <2>1. /\ log' = log /\ pc \in {"profit", "submit"}
          /\ \/ pc' = "commit"
             \/ pc' = "end" /\ outcome' \in {"unprofitable", "interrupt"}
      BY <1>6 DEF Unprofitable, InterruptSubmit, End
    <2> QED
      BY <1>2, <1>a, <1>e, <2>1
  <1>7. CASE WaitReturns \/ DirectReturns \/ Interrupt
    BY <1>7, <1>a, <1>t DEF WaitReturns, DirectReturns, Interrupt, TearDown, result
  <1>8. CASE Settling \/ Joining
    <2>1. /\ log' = log /\ pc = "cancel"
          /\ \/ pc' \in {"twin", "commit"}
             \/ pc' = "end" /\ outcome' \in {"refused", "conflict"}
      BY <1>8, <1>t DEF Settling, SettleDirect, SettleRefused, SettleInterrupt, SettleTimeout,
         Joining, JoinConflict, JoinAll, JoinError, Joinable, Quiet, Commit, End, result
    <2> QED
      BY <1>2, <1>a, <1>e, <2>1
  <1>9. ASSUME NEW c \in Chunks, CommitOne(c)
        PROVE  [Loop!Next]_(Loop!loopVars)
    <2>1. /\ pc = "commit" /\ pc' = "commit" /\ c \in todo /\ \A d \in todo : c <= d
          /\ log' = Extend(log, Lo(c), at[c])
      BY <1>9, <1>t DEF CommitOne
    <2>2. /\ Lo(c) \in 0 .. N /\ at[c] \in Lo(c) .. N /\ Lo(c) = Bound(c)
          /\ Lo(c) \in Nat /\ at[c] \in Nat /\ Lo(c) <= at[c] /\ c \in Nat /\ Bound(0) = 0
      BY <1>t, ChunkBounds, BoundValues DEF TypeOK
    <2>3. log = Iota(Lo(c))
      <3>1. CASE outcome = "none"
        BY <1>t, <2>1, <2>2, <3>1, IotaZero DEF LogInv
      <3>2. CASE outcome = "returned"
        <4>1. PICK m \in 0 .. NBounds : todo = m .. NBounds - 1 /\ log = Iota(Bound(m))
          BY <1>t, <2>1, <3>2 DEF LogInv
        <4>2. c \in m .. NBounds - 1
          BY <2>1, <4>1
        <4>3. m \in m .. NBounds - 1 /\ m <= c
          BY <2>2, <4>2, NBoundsCover
        <4>4. c <= m
          BY <2>1, <4>1, <4>3
        <4>5. c = m
          BY <2>2, <4>3, <4>4
        <4> QED
          BY <2>2, <4>1, <4>5
      <3>3. CASE outcome = "error"
        BY <2>1, <2>2, <3>3, IotaZero DEF FirstErrorInv
      <3> QED
        BY <2>1, <3>1, <3>2, <3>3 DEF PlainInv
    <2>4. log' = Iota(at[c])
      BY <2>1, <2>2, <2>3, ExtendIota
    <2>5. \A q \in Lo(c) .. at[c] - 1 : q \notin raises
      <3> SUFFICES ASSUME NEW q \in Lo(c) .. at[c] - 1, q \in raises
                   PROVE  FALSE
        OBVIOUS
      <3>1. Lo(c) <= q /\ q < at[c]
        BY <2>2
      <3>2. at[c] <= q
        BY <1>t, <3>1 DEF CleanInv
      <3> QED
        BY <2>2, <3>1, <3>2
    <2> QED
      BY <1>0, <2>1, <2>2, <2>3, <2>4, <2>5, LoopAdvances
  <1>10. CASE Committed
    <2>1. /\ pc = "commit" /\ todo = {} /\ pc' = (IF outcome = "none" THEN "twin" ELSE "end")
          /\ log' = log /\ outcome' = outcome
      BY <1>10 DEF Committed, result
    <2>2. CASE outcome = "none"
      BY <1>a, <2>1, <2>2
    <2>3. CASE outcome = "returned"
      <3>1. PICK m \in 0 .. NBounds : todo = m .. NBounds - 1 /\ log = Iota(Bound(m))
        BY <1>t, <2>1, <2>3 DEF LogInv
      <3>2. NBounds \in Nat
        BY NBoundsCover
      <3>3. m # NBounds => m \in m .. NBounds - 1
        BY <3>2
      <3>4. m = NBounds
        BY <2>1, <3>1, <3>3
      <3>5. log = Iota(N)
        BY <3>1, <3>4, BoundValues
      <3> QED
        BY <1>e, <1>t, <2>1, <2>3, <3>5
    <2>4. CASE outcome = "error"
      <3>1. errorAt \in raises /\ log = Iota(errorAt)
        BY <2>1, <2>4 DEF FirstErrorInv
      <3>2. errorAt \in 0 .. N
        BY <1>t DEF TypeOK
      <3> QED
        BY <1>e, <2>1, <2>4, <3>1, <3>2
    <2> QED
      BY <2>1, <2>2, <2>3, <2>4 DEF PlainInv
  <1>11. CASE Twin
    <2>1. pc = "twin" /\ log = Iota(cur)
      BY <1>11, <1>t DEF Twin, LogInv
    <2>2. CASE cur = N \/ cur \in raises
      <3>1. /\ pc' = "end" /\ log' = log
            /\ \/ outcome' = "returned" /\ cur = N
               \/ outcome' = "error" /\ cur \in raises
        BY <1>11, <2>2 DEF Twin, End
      <3> QED
        BY <1>e, <1>t, <2>1, <3>1
    <2>3. CASE cur # N /\ cur \notin raises
      <3>1. log' = Append(log, cur) /\ pc' = pc /\ cur \in Nat
        BY <1>11, <1>t, <2>3 DEF Twin
      <3>2. log' = Iota(cur + 1)
        BY <2>1, <3>1, AppendIota
      <3>3. cur + 1 \in cur .. N /\ \A q \in cur .. (cur + 1) - 1 : q = cur
        BY <1>t, <2>3, <3>1
      <3> QED
        BY <1>0, <1>t, <2>1, <2>3, <3>1, <3>2, <3>3, LoopAdvances
    <2> QED
      BY <2>2, <2>3
  <1>12. ASSUME NEW c \in Chunks, Submit(c) \/ SubmitFails(c) \/ CancelOne(c)
         PROVE  [Loop!Next]_(Loop!loopVars)
    BY <1>12, <1>a DEF Submit, SubmitFails, CancelOne, result
  <1>13. ASSUME NEW c \in Chunks, WorkerStep(c) \/ Take \/ Expire \/ UNCHANGED vars
         PROVE  [Loop!Next]_(Loop!loopVars)
    <2>1. UNCHANGED <<log, pc, outcome>>
      BY <1>13, <1>t DEF WorkerStep, Start, Discard, Acquire, Iterate, Leave, Take, Expire,
         caller, result, vars
    <2> QED
      BY <1>0, <2>1 DEF Loop!loopVars
  <1> QED
    BY <1>3, <1>4, <1>5, <1>6, <1>7, <1>8, <1>9, <1>10, <1>11, <1>12, <1>13, ChunkBounds
    DEF Next, CallerStep, FaultStep, Probing, Waiting, Over

\* The call is the sequential loop to its caller, if it ends, whatever the
\* probe, the profitability test, the budget, the pool and a thread that cannot
\* start made of it.
THEOREM Implements == LoopConditions => (Spec => Loop!Spec)
  <1> SUFFICES ASSUME LoopConditions
               PROVE  Spec => Loop!Spec
    OBVIOUS
  <1> DEFINE LoopInv == IInv /\ CleanInv /\ PlainInv /\ FirstErrorInv
  <1>1. Init => LoopInv
    <2> SUFFICES ASSUME Init
                 PROVE  LoopInv
      OBVIOUS
    <2>1. IInv /\ raises \subseteq Int
      BY InvInit, TypeInit, IterationsAssumption DEF TypeOK, Pos
    <2>2. CleanInv
      BY <2>1, ChunkBounds DEF Init, CleanInv
    <2>3. PlainInv
      BY DEF Init, PlainInv, LoopConditions, Slabbed, FailFast
    <2> QED
      BY <2>1, <2>2, <2>3 DEF Init, FirstErrorInv
  <1>2. Init => Loop!Init
    BY TypeInit DEF Init, TypeOK, Loop!Init, Loop!Pos, Pos
  <1>3. LoopInv /\ [Next]_vars => LoopInv'
    BY InvStep, CleanStep, PlainStep, FirstErrorStep
  <1>4. LoopInv /\ [Next]_vars => [Loop!Next]_(Loop!loopVars)
    BY LoopStep
  <1> QED
    BY <1>1, <1>2, <1>3, <1>4, PTL DEF Spec, Loop!Spec

-----------------------------------------------------------------------------
(***************************************************************************)
(* What a call leaves in the containers its chunks write directly, and     *)
(* what an abandoned one leaves of a transactional block: nothing missing, *)
(* nothing twice, a prefix.                                                *)
(***************************************************************************)
Shown(p) == \E i \in 1 .. Len(log) : log[i] = p

\* Until the twin runs, it would start after the probed chunk or at the start;
\* only a block the twin cannot probe is probed into a record.
CurInv ==
  /\ pc \notin {"twin", "end"} => cur = IF probed = "no" THEN 0 ELSE Hi(0)
  /\ probed = "chunk" => ~TwinProbeOk
  /\ pc = "cancel" => outcome # "returned"

\* Without a slab, whatever the twin or a chunk has passed is shown.
ShownInv ==
  ~Slabbed =>
    /\ \A p \in Pos : p < cur => Shown(p)
    /\ \A c \in Chunks : \A p \in Pos : Lo(c) <= p /\ p < at[c] => Shown(p)
    /\ outcome = "returned" /\ pc \in {"commit", "end"} =>
         \/ cur = N
         \/ /\ probed # "no" => cur = Hi(0)
            /\ \A c \in Chunks : c >= First => at[c] = Hi(c)

-----------------------------------------------------------------------------
LEMMA CurStep ==
  ASSUME IInv, CurInv
  PROVE  [Next]_vars => CurInv'
  <1> SUFFICES ASSUME [Next]_vars
               PROVE  CurInv'
    OBVIOUS
  <1>0. TwinProbeOk' <=> TwinProbeOk
    BY DataFixed DEF TwinProbeOk, data
  <1>o. pc \in {"enter", "probe", "profit", "submit", "wait", "twin"} => outcome = "none"
    BY DEF IInv, OutcomeInv
  <1>a. ASSUME UNCHANGED <<cur, probed>>, pc' \notin {"twin", "end"} => pc \notin {"twin", "end"},
               pc' = "cancel" => outcome' # "returned"
        PROVE  CurInv'
    BY <1>0, <1>a DEF CurInv
  <1>1. ProbeTwin => CurInv'
    BY <1>0 DEF ProbeTwin, End, CurInv, IInv, ProbeInv, TypeOK
  <1>2. ProbeChunk => CurInv'
    BY <1>0 DEF ProbeChunk, CurInv
  <1>3. JoinConflict => CurInv'
    BY <1>0 DEF JoinConflict, End, CurInv, Joinable, Quiet
  <1>4. Twin => CurInv'
    BY <1>0 DEF Twin, End, CurInv
  <1>5. (Enter \/ Profitable \/ Unprofitable \/ WaitReturns \/ DirectReturns \/ Interrupt
           \/ InterruptSubmit) => CurInv'
    BY <1>a, <1>o DEF Enter, End, Profitable, Unprofitable, WaitReturns, DirectReturns, TearDown,
           Interrupt, InterruptSubmit, result
  <1>6. (SettleDirect \/ SettleRefused \/ SettleInterrupt \/ SettleTimeout \/ JoinAll \/ Committed)
         => CurInv'
    BY <1>a DEF SettleDirect, SettleRefused, SettleInterrupt, SettleTimeout, JoinAll, Joinable,
           Quiet, Commit, End, Committed
  <1>7. (Take \/ Expire \/ UNCHANGED vars) => CurInv'
    BY <1>a DEF Take, Expire, caller, result, vars, CurInv
  <1>8. ASSUME NEW c \in Chunks, Submit(c) \/ SubmitFails(c) \/ CancelOne(c)
        PROVE  CurInv'
    BY <1>a, <1>o, <1>8 DEF Submit, SubmitFails, CancelOne, result, CurInv
  <1>9. ASSUME NEW c \in Chunks,
               JoinError(c) \/ CommitOne(c) \/ Start(c) \/ Discard(c) \/ Acquire(c) \/ Iterate(c)
                 \/ Leave(c)
        PROVE  CurInv'
    BY <1>a, <1>9 DEF JoinError, Joinable, Quiet, Commit, CommitOne, Start, Discard, Acquire,
           Iterate, Leave, caller, CurInv
  <1> QED
    BY <1>1, <1>2, <1>3, <1>4, <1>5, <1>6, <1>7, <1>8, <1>9 DEF Next, CallerStep, WorkerStep,
       FaultStep, Probing, Waiting, Settling, Joining, Over

-----------------------------------------------------------------------------
(***************************************************************************)
(* Nothing missing.                                                        *)
(***************************************************************************)
LEMMA ShownAppend ==
  ASSUME log \in Seq(Pos), NEW p \in Pos, log' = Append(log, p)
  PROVE  /\ \A q \in Pos : Shown(q) => Shown(q)'
         /\ Shown(p)'
  <1>1. /\ Len(log') = Len(log) + 1 /\ Len(log) \in Nat
        /\ \A i \in 1 .. Len(log) : log'[i] = log[i]
        /\ log'[Len(log) + 1] = p
    OBVIOUS
  <1> QED
    BY <1>1 DEF Shown

LEMMA ShownExtend ==
  ASSUME log \in Seq(Pos), NEW b \in Nat, log' = Extend(log, 0, b)
  PROVE  /\ \A q \in Pos : Shown(q) => Shown(q)'
         /\ \A q \in Pos : q < b => Shown(q)'
  <1>1. /\ Len(log') = Len(log) + b /\ Len(log) \in Nat
        /\ \A i \in 1 .. Len(log) : log'[i] = log[i]
        /\ \A i \in Len(log) + 1 .. Len(log') : log'[i] = i - Len(log) - 1
    BY ExtendElements
  <1>2. ASSUME NEW q \in Pos, q < b
        PROVE  Shown(q)'
    <2>1. q \in Nat
      BY IterationsAssumption DEF Pos
    <2>2. Len(log) + q + 1 \in Len(log) + 1 .. Len(log')
      BY <1>1, <1>2, <2>1
    <2>3. log'[Len(log) + q + 1] = q
      BY <1>1, <2>1, <2>2
    <2>4. Len(log) + q + 1 \in 1 .. Len(log')
      BY <1>1, <2>1, <2>2
    <2> QED
      BY <2>3, <2>4 DEF Shown
  <1>3. \A i \in 1 .. Len(log) : i \in 1 .. Len(log')
    BY <1>1
  <1> QED
    BY <1>1, <1>2, <1>3 DEF Shown

LEMMA ShownStep ==
  ASSUME IInv, HeldInv, CurInv, ShownInv
  PROVE  [Next]_vars => ShownInv'
  <1> SUFFICES ASSUME [Next]_vars, ~Slabbed
               PROVE  ShownInv'
    BY DataFixed DEF ShownInv, Slabbed, data
  <1>t. /\ log \in Seq(Pos) /\ cur \in 0 .. N /\ \A p \in Pos : p \in Nat
        /\ at \in [Chunks -> 0 .. N] /\ \A c \in Chunks : at[c] \in Nat /\ Lo(c) <= at[c] /\ at[c] <= Hi(c)
    BY IterationsAssumption, ChunkBounds DEF IInv, TypeOK, Pos
  <1>s. /\ \A p \in Pos : p < cur => Shown(p)
        /\ \A c \in Chunks : \A p \in Pos : Lo(c) <= p /\ p < at[c] => Shown(p)
        /\ outcome = "returned" /\ pc \in {"commit", "end"} =>
             \/ cur = N
             \/ /\ probed # "no" => cur = Hi(0)
                /\ \A c \in Chunks : c >= First => at[c] = Hi(c)
    BY DEF ShownInv
  <1>o. pc \in {"enter", "probe", "profit", "submit", "wait", "twin"} => outcome = "none"
    BY DEF IInv, OutcomeInv
  <1>a. ASSUME UNCHANGED <<log, at, cur>>,
               \/ outcome' # "returned" \/ pc' \notin {"commit", "end"}
               \/ outcome = "returned" /\ pc \in {"commit", "end"} /\ UNCHANGED probed
        PROVE  ShownInv'
    BY <1>a, <1>s DEF ShownInv, Shown, First
  <1>b. ASSUME UNCHANGED <<log, at, cur, probed>>, pc \in {"wait", "cancel"},
               \A c \in Chunks : c >= First => at[c] = Hi(c)
        PROVE  ShownInv'
    <2>1. probed # "no" => cur = Hi(0)
      BY <1>b DEF CurInv
    <2> QED
      BY <1>b, <1>s, <2>1 DEF ShownInv, Shown, First
  <1>1. ASSUME ProbeTwin
        PROVE  ShownInv'
    <2>1. PICK p \in 0 .. Hi(0) : /\ log' = Extend(log, 0, p)
                                  /\ p < Hi(0) => cur' = cur /\ outcome' = "error"
                                  /\ ~(p < Hi(0)) => cur' = Hi(0) /\ pc' = "profit"
      BY <1>1 DEF ProbeTwin, End
    <2>2. p \in Nat /\ at' = at
      BY <1>1, <2>1, ChunkBounds DEF ProbeTwin, records
    <2>3. /\ \A q \in Pos : Shown(q) => Shown(q)'
          /\ \A q \in Pos : q < p => Shown(q)'
      BY <1>t, <2>1, <2>2, ShownExtend
    <2>4. \A q \in Pos : q < cur' => Shown(q)'
      BY <1>s, <1>t, <2>1, <2>2, <2>3, ChunkBounds
    <2> QED
      BY <1>s, <2>1, <2>2, <2>3, <2>4 DEF ShownInv
  <1>2. ProbeChunk => ShownInv'
    BY DEF ProbeChunk, TwinProbeOk, Slabbed
  <1>3. ASSUME DirectReturns
        PROVE  ShownInv'
    <2>1. CASE Finished(futures) = futures /\ Failed = {}
      <3>1. FailFast
        BY <1>3, DispatchAssumption DEF DirectReturns, FailFast, IInv, TypeOK, BlockType
      <3>2. pc = "wait" /\ futures = First .. NBounds - 1 /\ UNCHANGED <<log, at, cur, probed>>
        BY <1>3 DEF DirectReturns, IInv, SubmitInv, records
      <3>3. \A c \in futures : fut[c] = "done"
        BY <2>1 DEF Finished, Failed
      <3>4. futures \subseteq Chunks
        BY DEF IInv, TypeOK
      <3>5. \A c \in futures : at[c] = Hi(c)
        BY <3>1, <3>3, <3>4 DEF HeldInv, IInv, FuturesInv
      <3>6. \A c \in Chunks : c >= First => c \in futures
        BY <3>2, ChunkBounds DEF Chunks, First
      <3> QED
        BY <1>b, <3>2, <3>5, <3>6
    <2>2. CASE ~(Finished(futures) = futures /\ Failed = {})
      BY <1>3, <1>a, <2>2 DEF DirectReturns, TearDown, records
    <2> QED
      BY <2>1, <2>2
  <1>4. ASSUME JoinAll
        PROVE  ShownInv'
    <2>1. \A c \in Chunks : c >= First => at[c] = Hi(c)
      BY <1>4, JoinAllRecords, ChunkBounds DEF Chunks, First
    <2> QED
      BY <1>4, <1>b, <2>1 DEF JoinAll, Joinable, Quiet, records
  <1>5. JoinConflict => ShownInv'
    BY DEF JoinConflict, Conflict, Slabbed
  <1>6. ASSUME Twin
        PROVE  ShownInv'
    <2>1. CASE cur = N
      <3>1. UNCHANGED <<log, at, cur>>
        BY <1>6, <2>1 DEF Twin, records
      <3> QED
        BY <1>s, <2>1, <3>1 DEF ShownInv, Shown
    <2>2. CASE cur # N /\ cur \in raises
      BY <1>6, <1>a, <2>2 DEF Twin, records, End
    <2>3. CASE cur # N /\ cur \notin raises
      <3>1. log' = Append(log, cur) /\ cur' = cur + 1 /\ outcome' = "none" /\ at' = at
        BY <1>6, <1>o, <2>3 DEF Twin, records
      <3>2. cur \in Pos
        BY <1>t, <2>3, IterationsAssumption DEF Pos
      <3>3. (\A q \in Pos : Shown(q) => Shown(q)') /\ \E i \in 1 .. Len(log') : log'[i] = cur
        BY <1>t, <3>1, <3>2, ShownAppend DEF Shown
      <3>4. \A q \in Pos : q < cur' => q < cur \/ q = cur
        BY <1>t, <3>1
      <3>5. \A q \in Pos : q < cur' => Shown(q)'
        BY <1>s, <3>3, <3>4 DEF Shown
      <3> QED
        BY <1>s, <3>1, <3>3, <3>5 DEF ShownInv
    <2> QED
      BY <2>1, <2>2, <2>3
  <1>7. ASSUME NEW c \in Chunks, Iterate(c)
        PROVE  ShownInv'
    <2>1. UNCHANGED <<cur, outcome, pc, probed>> /\ at[c] < Hi(c)
      BY <1>7 DEF Iterate, caller
    <2>2. CASE at' = at /\ log' = log
      BY <1>s, <2>1, <2>2 DEF ShownInv, Shown, First
    <2>3. CASE ~(at' = at /\ log' = log)
      <3>1. log' = Append(log, at[c]) /\ at' = [at EXCEPT ![c] = at[c] + 1]
        BY <1>7, <2>3 DEF Iterate
      <3>2. at[c] \in Pos
        BY <1>t, <2>1, ChunkBounds, IterationsAssumption DEF Pos
      <3> DEFINE a == at[c]
      <3>3. a \in Pos /\ log' = Append(log, a)
        BY <3>1, <3>2
      <3> HIDE DEF a
      <3>4. (\A q \in Pos : Shown(q) => Shown(q)') /\ \E i \in 1 .. Len(log') : log'[i] = a
        BY <1>t, <3>3, ShownAppend DEF Shown
      <3>5. ASSUME NEW d \in Chunks, NEW q \in Pos, Lo(d) <= q, q < at'[d]
            PROVE  \E i \in 1 .. Len(log') : log'[i] = q
        <4>1. q < at[d] \/ q = a
          BY <1>t, <3>1, <3>5 DEF a
        <4> QED
          BY <1>s, <3>4, <3>5, <4>1 DEF Shown
      <3>6. \A d \in Chunks : at[d] = Hi(d) => at'[d] = Hi(d)
        BY <1>t, <2>1, <3>1
      <3> QED
        BY <1>s, <2>1, <3>4, <3>5, <3>6 DEF ShownInv, Shown, First
    <2> QED
      BY <2>2, <2>3
  <1>8. (Enter \/ Profitable \/ Unprofitable \/ WaitReturns \/ Interrupt \/ InterruptSubmit)
         => ShownInv'
    BY <1>a, <1>o DEF Enter, End, Profitable, Unprofitable, WaitReturns, TearDown, Interrupt,
           InterruptSubmit, records, result
  <1>9. (SettleDirect \/ SettleRefused \/ SettleInterrupt \/ SettleTimeout) => ShownInv'
    BY <1>a DEF SettleDirect, SettleRefused, SettleInterrupt, SettleTimeout, Quiet, Commit, End,
           records, result, CurInv
  <1>10. (Committed \/ Take \/ Expire \/ UNCHANGED vars) => ShownInv'
    BY <1>a DEF Committed, Take, Expire, caller, records, result, vars
  <1>11. ASSUME NEW c \in Chunks, Submit(c) \/ SubmitFails(c) \/ CancelOne(c) \/ JoinError(c)
         PROVE  ShownInv'
    BY <1>a, <1>11 DEF Submit, SubmitFails, CancelOne, JoinError, Commit, records, result
  <1>12. ASSUME NEW c \in Chunks, CommitOne(c) \/ Start(c) \/ Discard(c) \/ Acquire(c) \/ Leave(c)
         PROVE  ShownInv'
    BY <1>a, <1>12 DEF CommitOne, Start, Discard, Acquire, Leave, caller, records
  <1> QED
    BY <1>1, <1>2, <1>3, <1>4, <1>5, <1>6, <1>7, <1>8, <1>9, <1>10, <1>11, <1>12
       DEF Next, CallerStep, WorkerStep, FaultStep, Probing, Waiting, Settling, Joining, Over

\* A block that writes in place and returns has run every iteration.
THEOREM AllRun == Spec => []NoneMissing
  <1>1. Init => CurInv /\ ShownInv
    <2> SUFFICES ASSUME Init
                 PROVE  CurInv /\ ShownInv
      OBVIOUS
    <2>1. \A p \in Pos : p \in Nat
      BY IterationsAssumption DEF Pos
    <2>2. \A c \in Chunks : at[c] = Lo(c) /\ Lo(c) \in Nat
      BY ChunkBounds DEF Init
    <2> QED
      BY <2>1, <2>2 DEF Init, CurInv, ShownInv
  <1>2. IInv /\ HeldInv /\ CurInv /\ ShownInv /\ [Next]_vars
        => (IInv /\ HeldInv /\ CurInv /\ ShownInv)'
    BY InvStep, HeldStep, CurStep, ShownStep
  <1>3. IInv /\ ShownInv => NoneMissing
    <2> SUFFICES ASSUME IInv, ShownInv, ~Slabbed, Ended("returned"), NEW p \in Pos
                 PROVE  Shown(p)
      BY DEF NoneMissing, Shown
    <2>1. p \in Nat /\ p < N /\ \A c \in Chunks : at[c] \in Nat
      BY IterationsAssumption DEF Pos, IInv, TypeOK
    <2>2. CASE cur = N
      BY <2>1, <2>2 DEF ShownInv
    <2>3. CASE cur # N
      <3>1. /\ probed # "no" => cur = Hi(0)
            /\ \A c \in Chunks : c >= First => at[c] = Hi(c)
        BY <2>3 DEF ShownInv, Ended
      <3>2. PICK c \in Chunks : Lo(c) <= p /\ p < Hi(c)
        BY SomeChunk
      <3>3. CASE c >= First
        BY <3>1, <3>2, <3>3 DEF ShownInv
      <3>4. CASE c < First
        <4>1. c = 0 /\ probed # "no"
          BY <3>4, ChunkBounds DEF First, Chunks
        <4> QED
          BY <3>1, <3>2, <4>1 DEF ShownInv
      <3> QED
        BY <3>3, <3>4, ChunkBounds DEF First
    <2> QED
      BY <2>2, <2>3
  <1> QED
    BY InvInit, OutcomeInit, <1>1, <1>2, <1>3, PTL DEF Spec

-----------------------------------------------------------------------------
(***************************************************************************)
(* Nothing twice.                                                          *)
(***************************************************************************)
\* What is shown of an in-place block is what the twin has passed, or what a
\* submitted chunk has; those chunks are past the twin's start, and the twin
\* runs only when there is none.  A twin that raises is the end of it.
OnceInv ==
  block.kind = "inplace" /\ why # "refused" =>
    /\ OnceEach(log)
    /\ \/ pc = "end" /\ \A c \in Chunks : fut[c] = "none"
       \/ \A i \in 1 .. Len(log) :
            log[i] < cur \/ \E c \in Chunks : fut[c] # "none" /\ Lo(c) <= log[i] /\ log[i] < at[c]
    /\ pc = "twin" \/ (pc = "commit" /\ outcome = "none") => \A c \in Chunks : fut[c] = "none"
    /\ \A c \in Chunks : fut[c] # "none" => cur <= Lo(c)

LEMMA OnceAppend ==
  ASSUME NEW s \in Seq(Pos), NEW p \in Pos, OnceEach(s), \A i \in 1 .. Len(s) : s[i] # p
  PROVE  OnceEach(Append(s, p))
  <1>1. /\ Len(Append(s, p)) = Len(s) + 1 /\ Len(s) \in Nat
        /\ \A i \in 1 .. Len(s) : Append(s, p)[i] = s[i]
        /\ Append(s, p)[Len(s) + 1] = p
    OBVIOUS
  <1> QED
    BY <1>1 DEF OnceEach

LEMMA IncreasingOnce ==
  ASSUME NEW s \in Seq(Pos), Increasing(s)
  PROVE  OnceEach(s)
  <1>1. \A i \in 1 .. Len(s) : s[i] \in Int
    BY IterationsAssumption DEF Pos
  <1>2. ASSUME NEW i \in 1 .. Len(s), NEW j \in 1 .. Len(s), i # j
        PROVE  s[i] # s[j]
    <2>1. i < j \/ j < i
      BY <1>2
    <2> QED
      BY <1>1, <2>1 DEF Increasing
  <1> QED
    BY <1>2 DEF OnceEach

\* What a refusal leaves is told apart by why, which only a tear-down sets.
LEMMA RefusedStays ==
  ASSUME HeldInv, [Next]_vars
  PROVE  why' # "refused" => why # "refused"
  <1>a. ASSUME why' = why
        PROVE  why' # "refused" => why # "refused"
    BY <1>a
  <1>1. (WaitReturns \/ DirectReturns \/ Interrupt) => why = "none"
    BY DEF WaitReturns, DirectReturns, Interrupt, HeldInv
  <1>2. (Enter \/ ProbeTwin \/ ProbeChunk \/ Profitable \/ Unprofitable \/ InterruptSubmit
           \/ SettleDirect \/ SettleRefused \/ SettleInterrupt \/ SettleTimeout \/ JoinConflict
           \/ JoinAll \/ Committed \/ Twin \/ Take \/ Expire \/ UNCHANGED vars) => why' = why
    BY DEF Enter, ProbeTwin, ProbeChunk, Profitable, Unprofitable, InterruptSubmit, SettleDirect,
           SettleRefused, SettleInterrupt, SettleTimeout, JoinConflict, JoinAll, Committed, Twin,
           Take, Expire, caller, vars
  <1>3. ASSUME NEW c \in Chunks,
               Submit(c) \/ CancelOne(c) \/ JoinError(c) \/ CommitOne(c) \/ Start(c) \/ Discard(c)
                 \/ Acquire(c) \/ Iterate(c) \/ Leave(c)
        PROVE  why' = why
    BY <1>3 DEF Submit, CancelOne, JoinError, CommitOne, Start, Discard, Acquire, Iterate, Leave,
           caller
  <1>4. ASSUME NEW c \in Chunks, SubmitFails(c)
        PROVE  why' = "refused"
    BY <1>4 DEF SubmitFails
  <1> QED
    BY <1>1, <1>2, <1>3, <1>4 DEF Next, CallerStep, WorkerStep, FaultStep, Probing, Waiting,
       Settling, Joining, Over

LEMMA OnceStep ==
  ASSUME IInv, HeldInv, CurInv, OnceInv
  PROVE  [Next]_vars => OnceInv'
  <1> SUFFICES ASSUME [Next]_vars, block.kind = "inplace", why # "refused", why' # "refused"
               PROVE  OnceInv'
    BY DataFixed, RefusedStays DEF OnceInv, data
  <1>t. /\ log \in Seq(Pos) /\ cur \in 0 .. N /\ \A p \in Pos : p \in Nat
        /\ at \in [Chunks -> 0 .. N] /\ \A c \in Chunks : at[c] \in Nat /\ Lo(c) <= at[c] /\ at[c] <= Hi(c)
        /\ fut \in [Chunks -> FutureState] /\ \A i \in 1 .. Len(log) : log[i] \in Nat
    BY IterationsAssumption, ChunkBounds DEF IInv, TypeOK, PoolTypeOK, Pos
  <1>s. /\ OnceEach(log)
        /\ \/ pc = "end" /\ \A c \in Chunks : fut[c] = "none"
           \/ \A i \in 1 .. Len(log) :
                log[i] < cur \/ \E c \in Chunks : fut[c] # "none" /\ Lo(c) <= log[i] /\ log[i] < at[c]
        /\ pc = "twin" \/ (pc = "commit" /\ outcome = "none") => \A c \in Chunks : fut[c] = "none"
        /\ \A c \in Chunks : fut[c] # "none" => cur <= Lo(c)
    BY DEF OnceInv
  <1>k. ~Slabbed /\ TwinProbeOk /\ block.kind # "direct"
    BY DEF Slabbed, TwinProbeOk
  <1>o. pc \in {"enter", "probe", "profit", "submit", "wait", "twin"} => outcome = "none"
    BY DEF IInv, OutcomeInv
  <1>f. pc \in {"enter", "probe", "profit"} => \A c \in Chunks : fut[c] = "none"
    BY DEF IInv, SubmitInv
  <1>a. ASSUME UNCHANGED <<log, cur, at>>, pc = "end" => pc' = "end",
               \A c \in Chunks : fut[c] = "none" <=> fut'[c] = "none",
               \/ pc' \notin {"twin", "commit"}
               \/ pc' = "commit" /\ outcome' # "none"
               \/ \A c \in Chunks : fut[c] = "none"
        PROVE  OnceInv'
    BY <1>a, <1>s DEF OnceInv, OnceEach
  <1>1. ASSUME ProbeTwin
        PROVE  OnceInv'
    <2>1. cur = 0 /\ \A c \in Chunks : fut[c] = "none" /\ fut'[c] = "none"
      BY <1>1, <1>f DEF ProbeTwin, CurInv, IInv, ProbeInv, poolVars
    <2>2. \A i \in 1 .. Len(log) : FALSE
      BY <1>1, <1>s, <1>t, <2>1 DEF ProbeTwin
    <2>3. PICK p \in 0 .. Hi(0) : /\ log' = Extend(log, 0, p)
                                  /\ p < Hi(0) => pc' = "end"
                                  /\ ~(p < Hi(0)) => cur' = Hi(0) /\ pc' = "profit"
      BY <1>1 DEF ProbeTwin, End
    <2>4. p \in Nat
      BY <2>3, ChunkBounds
    <2>5. Increasing(log)
      BY <2>2 DEF Increasing
    <2>6. Increasing(log') /\ \A i \in 1 .. Len(log') : log'[i] < p
      BY <1>t, <2>2, <2>3, <2>4, <2>5, ExtendIncreasing
    <2>7. log' \in Seq(Pos)
      BY <1>1, TypeStep DEF IInv, TypeOK
    <2>8. OnceEach(log')
      BY <2>6, <2>7, IncreasingOnce
    <2>9. p < Hi(0) \/ p = Hi(0)
      BY <2>3, ChunkBounds
    <2> QED
      BY <2>1, <2>3, <2>6, <2>8, <2>9 DEF OnceInv, OnceEach
  <1>2. ProbeChunk => OnceInv'
    BY <1>k DEF ProbeChunk
  <1>3. ASSUME NEW c \in Chunks, Submit(c)
        PROVE  OnceInv'
    <2>1. /\ pc = "submit" /\ pc' \in {"submit", "wait"} /\ UNCHANGED <<log, cur, at>> /\ c >= First
          /\ fut' = [fut EXCEPT ![c] = "queued"]
      BY <1>3 DEF Submit, NextToSubmit, PoolSubmit, Enqueue, records, result
    <2>2. cur <= Lo(c)
      <3>1. CASE probed = "no"
        BY <2>1, <3>1, ChunkBounds DEF CurInv
      <3>2. CASE probed # "no"
        <4>1. cur = Hi(0) /\ c > 0
          BY <2>1, <3>2, ChunkBounds DEF CurInv, First
        <4> QED
          BY <4>1, ChunkOrder, ChunkBounds
      <3> QED
        BY <3>1, <3>2
    <2>3. \A d \in Chunks : /\ fut[d] # "none" => fut'[d] # "none"
                            /\ fut'[d] # "none" => fut[d] # "none" \/ d = c
      BY <1>t, <2>1
    <2> QED
      BY <1>s, <2>1, <2>2, <2>3 DEF OnceInv, OnceEach
  <1>4. ASSUME NEW c \in Chunks, SubmitFails(c)
        PROVE  OnceInv'
    BY <1>4 DEF SubmitFails
  <1>5. ASSUME Twin
        PROVE  OnceInv'
    <2>0. pc = "twin" /\ (\A c \in Chunks : fut[c] = "none") /\ UNCHANGED <<fut, at>>
      BY <1>5, <1>s DEF Twin, poolVars, records
    <2>1. CASE cur = N \/ cur \in raises
      BY <1>5, <1>a, <2>0, <2>1 DEF Twin, End
    <2>2. CASE cur # N /\ cur \notin raises
      <3>1. log' = Append(log, cur) /\ cur' = cur + 1 /\ pc' = pc
        BY <1>5, <2>2 DEF Twin
      <3>2. cur \in Pos /\ cur \in Nat
        BY <1>t, <2>2, IterationsAssumption DEF Pos
      <3>3. \A i \in 1 .. Len(log) : log[i] < cur
        BY <1>s, <2>0
      <3>4. OnceEach(log')
        BY <1>s, <1>t, <3>1, <3>2, <3>3, OnceAppend
      <3>5. \A i \in 1 .. Len(log') : log'[i] < cur'
        BY <1>t, <3>1, <3>2, <3>3
      <3> QED
        BY <2>0, <3>4, <3>5 DEF OnceInv, OnceEach
    <2> QED
      BY <2>1, <2>2
  <1>6. ASSUME NEW c \in Chunks, Iterate(c)
        PROVE  OnceInv'
    <2>1. UNCHANGED <<cur, outcome, pc, fut>> /\ at[c] < Hi(c) /\ fut[c] # "none"
      BY <1>6 DEF Iterate, caller, poolVars, IInv, FuturesInv
    <2>2. CASE at' = at /\ log' = log
      BY <1>s, <2>1, <2>2 DEF OnceInv, OnceEach
    <2>3. CASE ~(at' = at /\ log' = log)
      <3> DEFINE a == at[c]
      <3>1. log' = Append(log, a) /\ at' = [at EXCEPT ![c] = a + 1]
        BY <1>6, <1>k, <2>3 DEF Iterate
      <3>2. a \in Pos /\ a \in Nat /\ Lo(c) <= a /\ a < Hi(c)
        BY <1>t, <2>1, ChunkBounds, IterationsAssumption DEF Pos
      <3>3. \A i \in 1 .. Len(log) :
              log[i] < cur \/ \E d \in Chunks : fut[d] # "none" /\ Lo(d) <= log[i] /\ log[i] < at[d]
        BY <1>s, <2>1
      <3>4. ASSUME NEW i \in 1 .. Len(log), log[i] = a
            PROVE  FALSE
        <4>1. cur <= Lo(c) /\ Lo(c) \in Nat
          BY <1>s, <2>1, ChunkBounds
        <4>2. PICK d \in Chunks : Lo(d) <= a /\ a < at[d]
          BY <1>t, <3>2, <3>3, <3>4, <4>1
        <4>3. a < Hi(d)
          BY <1>t, <3>2, <4>2, ChunkBounds
        <4>4. d = c
          BY <3>2, <4>2, <4>3, OneChunk
        <4> QED
          BY <3>2, <4>2, <4>4
      <3>5. OnceEach(log')
        BY <1>s, <1>t, <3>1, <3>2, <3>4, OnceAppend
      <3>6. \A d \in Chunks : at[d] <= at'[d]
        BY <1>t, <3>1
      <3>7. at'[c] = a + 1
        BY <1>t, <3>1
      <3>8. ASSUME NEW i \in 1 .. Len(log')
            PROVE  log'[i] < cur \/ \E d \in Chunks : fut[d] # "none" /\ Lo(d) <= log'[i] /\ log'[i] < at'[d]
        <4>1. (i \in 1 .. Len(log) /\ log'[i] = log[i]) \/ log'[i] = a
          BY <1>t, <3>1, <3>2
        <4>2. CASE i \in 1 .. Len(log) /\ log'[i] = log[i]
          <5>1. log[i] \in Nat /\ \A d \in Chunks : at[d] \in Nat /\ at'[d] \in Nat
            BY <1>t, <3>1, <3>2, <4>2
          <5> QED
            BY <3>3, <3>6, <4>2, <5>1
        <4>3. CASE log'[i] = a
          BY <2>1, <3>2, <3>7, <4>3
        <4> QED
          BY <4>1, <4>2, <4>3
      <3> QED
        BY <1>s, <2>1, <3>5, <3>8 DEF OnceInv, OnceEach
    <2> QED
      BY <2>2, <2>3
  <1>7. (Enter \/ Profitable \/ Unprofitable \/ WaitReturns \/ DirectReturns \/ Interrupt
           \/ InterruptSubmit) => OnceInv'
    BY <1>a, <1>f, <1>k DEF Enter, End, Profitable, Unprofitable, WaitReturns, DirectReturns, TearDown,
           Interrupt, InterruptSubmit, records, result, poolVars
  <1>8. (SettleDirect \/ SettleRefused \/ SettleInterrupt \/ SettleTimeout) => OnceInv'
    BY <1>a, <1>k DEF SettleDirect, SettleRefused, SettleInterrupt, SettleTimeout, Quiet, Commit, End,
           records, result, poolVars, IInv, OutcomeInv
  <1>9. (JoinConflict \/ JoinAll \/ Committed) => OnceInv'
    BY <1>a, <1>k, <1>s DEF JoinConflict, Conflict, JoinAll, Joinable, Quiet, Commit, Committed,
           records, result, poolVars
  <1>10. (Take \/ Expire \/ UNCHANGED vars) => OnceInv'
    BY <1>a, <1>s DEF Take, PoolTake, Expire, caller, records, result, poolVars, vars
  <1>11. ASSUME NEW c \in Chunks, JoinError(c)
         PROVE  OnceInv'
    BY <1>11, <1>a DEF JoinError, Joinable, Quiet, Commit, records, poolVars
  <1>12. ASSUME NEW c \in Chunks, CommitOne(c) \/ Discard(c) \/ Acquire(c)
         PROVE  OnceInv'
    BY <1>12, <1>a, <1>k, <1>s DEF CommitOne, Discard, PoolDiscard, Acquire, records, poolVars, caller
  <1>13. ASSUME NEW c \in Chunks, CancelOne(c) \/ Start(c) \/ Leave(c)
         PROVE  OnceInv'
    <2>1. UNCHANGED <<log, cur, at, pc, outcome>>
      BY <1>13 DEF CancelOne, Start, Leave, caller, records, result
    <2>2. \A d \in Chunks : fut[d] = "none" <=> fut'[d] = "none"
      BY <1>t, <1>13 DEF CancelOne, PoolCancel, Start, PoolStart, Leave, PoolFinish
    <2> QED
      BY <1>a, <1>s, <2>1, <2>2
  <1> QED
    BY <1>1, <1>2, <1>3, <1>4, <1>5, <1>6, <1>7, <1>8, <1>9, <1>10, <1>11, <1>12, <1>13
       DEF Next, CallerStep, WorkerStep, FaultStep, Probing, Waiting, Settling, Joining, Over

\* No path applies an iteration twice.
THEOREM Once == Spec => []NoneTwice
  <1>1. Init => CurInv /\ OrderInv /\ OnceInv
    BY DEF Init, PoolInit, CurInv, OrderInv, Increasing, OnceInv, OnceEach
  <1>2. IInv /\ HeldInv /\ QuietInv /\ OrderInv /\ CurInv /\ OnceInv /\ [Next]_vars
        => (IInv /\ HeldInv /\ QuietInv /\ OrderInv /\ CurInv /\ OnceInv)'
    BY InvStep, HeldStep, QuietStep, OrderStep, CurStep, OnceStep
  <1>3. IInv /\ OrderInv /\ OnceInv => NoneTwice
    BY IncreasingOnce DEF IInv, TypeOK, OrderInv, OnceInv, NoneTwice
  <1> QED
    BY InvInit, OutcomeInit, <1>1, <1>2, <1>3, PTL DEF Spec

-----------------------------------------------------------------------------
(***************************************************************************)
(* What an abandoned call leaves.                                          *)
(***************************************************************************)
\* The first chunk submitted ran to its end, and so did the probe if any, with
\* the twin: what may be committed starts where the containers end.
Unbroken == /\ Slabbed /\ why \in {"timeout", "interrupt"} /\ probed # "chunk"
            /\ First \in Records \cap Clean

\* The records still to commit follow on one another from chunk m, where the
\* containers end.
Follows(m) == /\ log = Iota(Bound(m))
              /\ \A c \in todo : /\ c >= m /\ at[c] = Hi(c)
                                 /\ \A d \in m .. c : d \in todo

PrefixInv ==
  /\ why \in {"timeout", "interrupt"} => pc # "twin" /\ (pc = "commit" => outcome # "none")
  /\ Slabbed /\ why = "timeout" /\ pc \in {"commit", "end"} => outcome = "timeout"
  /\ Unbroken /\ pc = "commit" => \E m \in 0 .. NBounds : Follows(m)
  /\ Unbroken /\ pc = "end" => \E m \in 0 .. NBounds : log = Iota(Bound(m))

\* A chunk that ran without an error is at its end.
LEMMA CleanAtEnd ==
  ASSUME IInv, NEW c \in Records \cap Clean
  PROVE  at[c] = Hi(c)
  BY DEF IInv, TypeOK, FuturesInv, Records, Clean, Finished

\* What _contiguous_prefix keeps follows on the containers.
LEMMA PrefixFollows ==
  ASSUME IInv, HeldInv, Slabbed, pc = "cancel", probed # "chunk", First \in Records \cap Clean,
         NEW R, R \subseteq Records, First \in R,
         todo' = ContiguousPrefix(R, Clean), UNCHANGED <<log, at>>
  PROVE  \E m \in 0 .. NBounds : Follows(m)'
  <1>1. R \subseteq Chunks /\ \A c \in R : c >= First
    BY DEF Records, Finished, HeldInv, IInv, TypeOK
  <1>2. First \in 0 .. NBounds /\ First \in {0, 1}
    BY <1>1, ChunkBounds, NBoundsCover DEF First, Chunks
  <1>3. log = Iota(Bound(First))
    <2>1. probed = "twin" => log = Iota(Hi(0)) /\ First = 1
      BY DEF IInv, LogInv, First
    <2>2. probed # "twin" => log = Iota(0) /\ First = 0
      BY DEF IInv, LogInv, First, TypeOK
    <2>3. Hi(0) = Bound(0 + 1) /\ Bound(0) = 0
      BY BoundValues, ChunkBounds
    <2> QED
      BY <2>1, <2>2, <2>3
  <1>4. ASSUME NEW c \in todo'
        PROVE  c >= First /\ at'[c] = Hi(c) /\ \A d \in First .. c : d \in todo'
    <2>1. c \in R /\ \A d \in 0 .. c : (\E f \in R : f <= d) => d \in R \cap Clean
      BY <1>4 DEF ContiguousPrefix
    <2>2. c \in Nat /\ c >= First
      BY <1>1, <2>1, ChunkBounds
    <2>3. \A d \in First .. c : d \in R \cap Clean
      BY <1>2, <2>1, <2>2
    <2>4. c \in Records \cap Clean
      BY <1>2, <2>2, <2>3
    <2>5. at[c] = Hi(c)
      BY <2>4, CleanAtEnd
    <2>6. ASSUME NEW d \in First .. c
          PROVE  d \in ContiguousPrefix(R, Clean)
      <3>1. \A e \in 0 .. d : e \in 0 .. c
        BY <2>2, <1>2
      <3> QED
        BY <2>1, <2>3, <3>1 DEF ContiguousPrefix
    <2> QED
      BY <2>2, <2>5, <2>6
  <1>5. PICK m \in 0 .. NBounds : m = First
    BY <1>2
  <1>6. /\ log' = Iota(Bound(m))
        /\ \A c \in todo' : c >= m /\ at'[c] = Hi(c) /\ \A d \in m .. c : d \in todo'
    BY <1>3, <1>4, <1>5
  <1>7. Follows(m)'
    BY <1>6 DEF Follows
  <1> QED
    BY <1>7

LEMMA PrefixStep ==
  ASSUME IInv, HeldInv, QuietInv, PrefixInv
  PROVE  [Next]_vars => PrefixInv'
  <1> SUFFICES ASSUME [Next]_vars
               PROVE  PrefixInv'
    OBVIOUS
  <1>d. Slabbed' <=> Slabbed
    BY DataFixed DEF Slabbed, data
  <1>w. pc \in {"enter", "probe", "profit", "submit", "wait"} => why = "none"
    BY DEF HeldInv
  <1>a. ASSUME why' \notin {"timeout", "interrupt"} \/ pc' \notin {"twin", "commit", "end"}
        PROVE  PrefixInv'
    BY <1>a DEF PrefixInv, Unbroken
  <1>b. ASSUME UNCHANGED <<why, pc, outcome, log, todo>>,
               Unbroken' => Unbroken,
               Unbroken' /\ pc = "commit" => \A c \in todo : at'[c] = at[c]
        PROVE  PrefixInv'
    BY <1>d, <1>b DEF PrefixInv, Follows
  <1>c. ASSUME UNCHANGED <<why, probed, futures, fut, stop>>
        PROVE  Unbroken' => Unbroken
    BY <1>d, <1>c DEF Unbroken, First, Records, Finished, Clean
  <1>p. futures \subseteq Chunks /\ todo \subseteq Chunks
    BY DEF IInv, TypeOK
  <1>1. SettleInterrupt => PrefixInv'
    <2> SUFFICES ASSUME SettleInterrupt
                 PROVE  PrefixInv'
      OBVIOUS
    <2>1. /\ pc = "cancel" /\ pc' = "commit" /\ why = "interrupt" /\ outcome' = "interrupt"
          /\ todo' = ContiguousPrefix(Records \ Failed, Clean)
          /\ UNCHANGED <<why, probed, futures, fut, stop, at, log>>
      BY DEF SettleInterrupt, Quiet, Commit, IInv, OutcomeInv, records, result, poolVars
    <2>2. ASSUME Unbroken
          PROVE  \E m \in 0 .. NBounds : Follows(m)'
      <3>1. First \notin Failed
        BY <2>2 DEF Unbroken, Failed, Clean, IInv, FuturesInv, TypeOK
      <3>2. First \in Records \ Failed /\ Records \ Failed \subseteq Records
        BY <2>2, <3>1 DEF Unbroken
      <3> QED
        BY <2>1, <2>2, <3>2, PrefixFollows DEF Unbroken
    <2>3. Unbroken' => Unbroken
      BY <1>c, <2>1
    <2> QED
      BY <2>1, <2>2, <2>3 DEF PrefixInv
  <1>2. SettleTimeout => PrefixInv'
    <2> SUFFICES ASSUME SettleTimeout
                 PROVE  PrefixInv'
      OBVIOUS
    <2>1. /\ pc = "cancel" /\ pc' = "commit" /\ why = "timeout" /\ outcome' = "timeout"
          /\ todo' = ContiguousPrefix(Records, Clean)
          /\ UNCHANGED <<why, probed, futures, fut, stop, at, log>>
      BY DEF SettleTimeout, Quiet, Commit, records, poolVars
    <2>2. ASSUME Unbroken
          PROVE  \E m \in 0 .. NBounds : Follows(m)'
      BY <2>1, <2>2, PrefixFollows DEF Unbroken
    <2>3. Unbroken' => Unbroken
      BY <1>c, <2>1
    <2> QED
      BY <2>1, <2>2, <2>3 DEF PrefixInv
  <1>3. ASSUME NEW c \in Chunks, CommitOne(c)
        PROVE  PrefixInv'
    <2>1. /\ pc = "commit" /\ pc' = "commit" /\ c \in todo /\ todo' = todo \ {c}
          /\ \A d \in todo : c <= d
          /\ Slabbed => log' = Extend(log, Lo(c), at[c])
          /\ UNCHANGED <<why, probed, futures, fut, stop, at, outcome>>
      BY <1>3 DEF CommitOne, records, poolVars
    <2>2. ASSUME Unbroken
          PROVE  \E m \in 0 .. NBounds : Follows(m)'
      <3>1. PICK m \in 0 .. NBounds : Follows(m)
        BY <2>1, <2>2 DEF PrefixInv
      <3>2. c \in Nat /\ c >= m /\ at[c] = Hi(c) /\ m \in todo
        BY <1>3, <2>1, <3>1, ChunkBounds DEF Follows
      <3>3. c = m /\ m + 1 \in 0 .. NBounds
        BY <1>3, <2>1, <3>2, NBoundsCover DEF Chunks
      <3>4. log' = Extend(Iota(Bound(m)), Bound(m), Bound(m + 1))
        BY <1>3, <2>1, <2>2, <3>1, <3>2, <3>3, BoundValues DEF Follows, Unbroken
      <3>5. Bound(m) \in Nat /\ Bound(m + 1) \in Nat /\ Bound(m) <= Bound(m + 1)
        <4>1. Lo(m) = Bound(m) /\ Hi(m) = Bound(m + 1) /\ Lo(m) < Hi(m)
          BY <1>3, <3>3, BoundValues, ChunkBounds
        <4> QED
          BY <3>3, <4>1, BoundValues
      <3>6. log' = Iota(Bound(m + 1))
        BY <3>4, <3>5, ExtendIota
      <3>7. ASSUME NEW d \in todo'
            PROVE  d >= m + 1 /\ at'[d] = Hi(d) /\ \A e \in m + 1 .. d : e \in todo'
        <4>1. d \in todo /\ d # m /\ d \in Nat
          BY <1>p, <2>1, <3>3, <3>7, ChunkBounds
        <4>2. d >= m /\ at[d] = Hi(d) /\ \A e \in m .. d : e \in todo
          BY <3>1, <4>1 DEF Follows
        <4> QED
          BY <2>1, <3>3, <4>1, <4>2
      <3>8. Follows(m + 1)'
        BY <3>6, <3>7 DEF Follows
      <3> QED
        BY <3>3, <3>8
    <2>3. Unbroken' => Unbroken
      BY <1>c, <2>1
    <2> QED
      BY <1>d, <2>1, <2>2, <2>3 DEF PrefixInv
  <1>4. ASSUME Committed
        PROVE  PrefixInv'
    <2>1. /\ pc = "commit" /\ pc' = IF outcome = "none" THEN "twin" ELSE "end"
          /\ UNCHANGED <<why, probed, futures, fut, stop, log, outcome>>
      BY <1>4 DEF Committed, records, result, poolVars
    <2>2. Unbroken' => Unbroken
      BY <1>c, <2>1
    <2> QED
      BY <1>d, <2>1, <2>2 DEF PrefixInv, Follows
  <1>5. (Enter \/ ProbeTwin \/ ProbeChunk \/ Profitable \/ Unprofitable \/ InterruptSubmit)
         => PrefixInv'
    BY <1>a, <1>w DEF Enter, ProbeTwin, ProbeChunk, Profitable, Unprofitable, InterruptSubmit
  <1>6. (WaitReturns \/ Interrupt) => PrefixInv'
    BY <1>a DEF WaitReturns, TearDown, Interrupt
  <1>7. DirectReturns => PrefixInv'
    BY <1>a, <1>w DEF DirectReturns, TearDown
  <1>15. SettleDirect => PrefixInv'
    <2>1. SettleDirect => ~Slabbed /\ why' = why /\ (why # "refused" => pc' = "end")
      BY DEF SettleDirect, Slabbed, End
    <2> QED
      BY <1>d, <2>1 DEF PrefixInv, Unbroken
  <1>8. (SettleRefused \/ JoinConflict \/ JoinAll) => PrefixInv'
    BY <1>a DEF SettleRefused, JoinConflict, JoinAll, Joinable
  <1>9. ASSUME NEW c \in Chunks, JoinError(c)
        PROVE  PrefixInv'
    BY <1>a, <1>9 DEF JoinError, Joinable
  <1>10. ASSUME NEW c \in Chunks, Submit(c) \/ SubmitFails(c) \/ CancelOne(c)
         PROVE  PrefixInv'
    BY <1>a, <1>10 DEF Submit, SubmitFails, CancelOne
  <1>11. Twin => PrefixInv'
    BY <1>a DEF Twin, PrefixInv
  <1>12. (Take \/ Expire \/ UNCHANGED vars) => PrefixInv'
    BY <1>b, <1>c DEF Take, PoolTake, Expire, caller, records, result, poolVars, vars
  <1>13. ASSUME NEW c \in Chunks, Discard(c) \/ Acquire(c)
         PROVE  PrefixInv'
    BY <1>b, <1>c, <1>13 DEF Discard, PoolDiscard, Acquire, caller, records, poolVars
  <1>14. ASSUME NEW c \in Chunks, Start(c) \/ Leave(c) \/ Iterate(c)
         PROVE  PrefixInv'
    <2>1. /\ UNCHANGED <<why, pc, probed, futures, outcome, todo>>
          /\ fut[c] \in {"queued", "running"}
          /\ \A d \in Chunks : d # c => fut'[d] = fut[d] /\ stop'[d] = stop[d] /\ at'[d] = at[d]
          /\ Slabbed => log' = log
      BY <1>14 DEF Start, PoolStart, Leave, PoolFinish, Iterate, caller, records, poolVars, IInv,
             FuturesInv, TypeOK, PoolTypeOK
    <2>2. CASE pc \notin {"commit", "end", "twin"}
      BY <1>a, <2>1, <2>2
    <2>3. CASE pc = "twin"
      BY <1>a, <2>1, <2>3 DEF PrefixInv
    <2>4. CASE pc = "commit"
      <3>1. c \notin futures /\ c \notin todo
        BY <2>1, <2>4 DEF IInv, JoinInv, ProbeInv, QuietInv, ProbeRecord
      <3>2. Unbroken' => Unbroken
        BY <1>d, <1>p, <2>1, <3>1 DEF Unbroken, Records, Finished, Clean, First
      <3>3. \A d \in todo : at'[d] = at[d]
        BY <1>p, <2>1, <3>1
      <3>4. Unbroken' => log' = log
        BY <1>d, <2>1 DEF Unbroken
      <3> QED
        BY <1>d, <2>1, <2>4, <3>2, <3>3, <3>4 DEF PrefixInv, Follows
    <2>5. CASE pc = "end"
      <3>1. ~Slabbed \/ why \notin {"timeout", "interrupt"}
        BY <2>1, <2>5 DEF QuietInv, PrefixInv
      <3>2. ~Slabbed' \/ why' \notin {"timeout", "interrupt"}
        BY <1>d, <2>1, <3>1
      <3> QED
        BY <2>1, <2>5, <3>2 DEF PrefixInv, Unbroken
    <2> QED
      BY <2>2, <2>3, <2>4, <2>5
  <1> QED
    BY <1>1, <1>2, <1>3, <1>4, <1>5, <1>6, <1>7, <1>8, <1>9, <1>10, <1>11, <1>12, <1>13, <1>14,
       <1>15
       DEF Next, CallerStep, WorkerStep, FaultStep, Probing, Waiting, Settling, Joining, Over

\* An abandoned call leaves a prefix of the loop when chunk 0 was not probed into
\* a record and the first chunk submitted ran.
THEOREM LeavesPrefix == Spec => []AbandonedLeavesPrefix
  <1>1. Init => PrefixInv
    BY DEF Init, PrefixInv, Unbroken
  <1>2. IInv /\ HeldInv /\ QuietInv /\ PrefixInv /\ [Next]_vars
        => (IInv /\ HeldInv /\ QuietInv /\ PrefixInv)'
    BY InvStep, HeldStep, QuietStep, PrefixStep
  <1>3. PrefixInv => AbandonedLeavesPrefix
    <2>1. \A m \in 0 .. NBounds : IsPrefixOfLoop(Iota(Bound(m)))
      BY BoundValues DEF IsPrefixOfLoop, Iota
    <2> QED
      BY <2>1 DEF PrefixInv, Unbroken, AbandonedLeavesPrefix
  <1> QED
    BY InvInit, OutcomeInit, <1>1, <1>2, <1>3, PTL DEF Spec
=============================================================================
