------------------------ MODULE ProcessDispatchProofs ------------------------
(***************************************************************************)
(* Proofs about ProcessDispatch, for every number of callers, worker       *)
(* processes and chunks, whatever the blocks are and whatever becomes of   *)
(* the pools.  First the module's pool: it is not leaked and not taken     *)
(* shut.  Then how a block ends: a return has done the whole loop, an      *)
(* error leaves the iterations before it, a timeout a prefix, and a dead   *)
(* pool is not left to the next block.                                     *)
(***************************************************************************)
EXTENDS ProcessDispatch, ChunkingProofs, SequenceTheorems

-----------------------------------------------------------------------------
(* The module's pool *)

States == {"none", "open", "closing", "closed", "broken"}

\* What holds of the pools between any two steps: at most one is open, it is
\* the module's, and the module's was not shut down.
PoolInv == /\ pool \in Gens \cup {0}
           /\ state \in [Gens -> States]
           /\ gen \in [Callers -> Gens \cup {0}]
           /\ OneOpenPool
           /\ pool # 0 => state[pool] \in {"open", "broken"}

\* A generation is a positive number, so 0 (no pool) is none of them.
LEMMA GensAssumption == Gens \subseteq Nat \ {0}
  BY DEF Gens

\* All a step can do to the pools: nothing, be the taking of one, a recycle,
\* or the manager thread's noticing a shutdown or a death.
LEMMA PoolSplit ==
  ASSUME [Next]_vars
  PROVE  \/ UNCHANGED <<pool, state, gen>>
         \/ \E k \in Callers : TakePool(k)
         \/ Recycle /\ UNCHANGED gen
         \/ \E g \in Gens : (PoolFlush(g) \/ PoolBreak(g)) /\ UNCHANGED <<pool, gen>>
  <1>1. CASE UNCHANGED vars
    BY <1>1 DEF vars, poolVars
  <1>2. ASSUME NEW k \in Callers, Submitting(k) \/ Drained(k) \/ Waiting(k) \/ Interrupt(k)
               \/ Expire(k) \/ Committing(k) \/ Twin(k)
        PROVE  \/ UNCHANGED <<pool, state, gen>>
               \/ Recycle /\ UNCHANGED gen
    BY <1>2 DEF Submitting, Submit, SubmitRaises, PickleFails, Drained, Waiting, WaitReturns,
         TimesOut, WaitsForRest, RestReturns, Interrupt, Expire, Committing, CommitOne,
         Committed, Twin, PoolSubmit, poolVars
  <1>3. ASSUME NEW k \in Callers, Joining(k)
        PROVE  \/ UNCHANGED <<pool, state, gen>>
               \/ Recycle /\ UNCHANGED gen
    BY <1>3 DEF Joining, CommitPrefix, JoinAll, GatherFails, JoinError, poolVars
  <1>4. ASSUME NEW g \in Gens, PoolStep(g) \/ Break(g)
        PROVE  \/ UNCHANGED <<pool, state, gen>>
               \/ (PoolFlush(g) \/ PoolBreak(g)) /\ UNCHANGED <<pool, gen>>
    BY <1>4 DEF PoolStep, HandOver, Flush, Break, RunChunk, PoolHandOver, PoolFinish, callers
  <1>5. CASE Over
    BY <1>5 DEF Over, vars, poolVars
  <1> QED
    BY <1>1, <1>2, <1>3, <1>4, <1>5 DEF Next, CallerStep

\* _ensure_pool hands out the module's pool, which is open or broke.
LEMMA TakePoolStep ==
  ASSUME PoolInv, NEW k \in Callers, TakePool(k)
  PROVE  /\ PoolInv'
         /\ \A l \in Callers : gen'[l] # gen[l] => state'[gen'[l]] \in {"open", "broken"}
  <1> USE GensAssumption DEF PoolInv, OneOpenPool, States
  <1>1. CASE block[k].unguarded
    <2>1. UNCHANGED <<pool, gen, state>>
      BY <1>1 DEF TakePool
    <2> QED
      BY <2>1
  <1>2. CASE ~block[k].unguarded /\ pool # 0
    <2>1. UNCHANGED <<pool, state>> /\ gen' = [gen EXCEPT ![k] = pool]
      BY <1>2 DEF TakePool
    <2> QED
      BY <1>2, <2>1
  <1>3. CASE ~block[k].unguarded /\ pool = 0
    <2>1. PICK g \in Gens : pool' = g /\ state' = [state EXCEPT ![g] = "open"]
      BY <1>3 DEF TakePool
    <2>2. gen' = [gen EXCEPT ![k] = g]
      BY <1>3, <2>1 DEF TakePool
    <2>3. \A h \in Gens : state[h] # "open"
      BY <1>3
    <2> QED
      BY <2>1, <2>2, <2>3
  <1> QED
    BY <1>1, <1>2, <1>3

\* The module starts with no pool.
LEMMA PoolInvInit == Init => PoolInv
  BY DEF Init, PoolInit, PoolInv, OneOpenPool, States

\* Every step of a caller, a worker or the manager thread keeps PoolInv:
\* a new pool is opened only when the module has none (_ensure_pool), and
\* recycle_pool forgets the pool it shuts down.
LEMMA PoolInvStep == PoolInv /\ [Next]_vars => PoolInv'
  <1> SUFFICES ASSUME PoolInv, [Next]_vars
               PROVE  PoolInv'
    OBVIOUS
  <1> USE GensAssumption DEF PoolInv, OneOpenPool, States
  <1>1. CASE UNCHANGED <<pool, state, gen>>
    BY <1>1
  <1>2. ASSUME NEW k \in Callers, TakePool(k)
        PROVE  PoolInv'
    BY ONLY PoolInv, <1>2, TakePoolStep
  <1>3. CASE Recycle /\ UNCHANGED gen
    BY <1>3 DEF Recycle
  <1>4. ASSUME NEW g \in Gens, PoolFlush(g) \/ PoolBreak(g), UNCHANGED <<pool, gen>>
        PROVE  PoolInv'
    <2>1. CASE PoolFlush(g)
      BY <1>4, <2>1 DEF PoolFlush
    <2>2. CASE PoolBreak(g)
      BY <1>4, <2>2 DEF PoolBreak
    <2> QED
      BY <1>4, <2>1, <2>2
  <1> QED
    BY <1>1, <1>2, <1>3, <1>4, PoolSplit

\* PoolInv holds in every reachable state.
LEMMA PoolInvariance == Spec => []PoolInv
  BY PoolInvInit, PoolInvStep, PTL DEF Spec

\* No recycle leaks a pool: an open one is the module's.
THEOREM NoLeak == Spec => []OneOpenPool
  <1>1. PoolInv => OneOpenPool
    BY DEF PoolInv
  <1> QED
    BY <1>1, PoolInvariance, PTL

\* A block never takes a pool that was shut down.
THEOREM TakesLivePool == Spec => NeverTakesShutPool
  <1>1. PoolInv /\ [Next]_vars =>
          [\A k \in Callers : gen'[k] # gen[k] => state'[gen'[k]] \in {"open", "broken"}]_vars
    <2> SUFFICES ASSUME PoolInv, [Next]_vars, NEW k \in Callers, gen'[k] # gen[k]
                 PROVE  state'[gen'[k]] \in {"open", "broken"}
      OBVIOUS
    <2>1. PICK l \in Callers : TakePool(l)
      BY PoolSplit DEF Recycle
    <2> QED
      BY <2>1, TakePoolStep
  <1> QED
    BY <1>1, PoolInvariance, PTL DEF Spec, NeverTakesShutPool

-----------------------------------------------------------------------------
(***************************************************************************)
(* The invariant, in parts.                                                *)
(***************************************************************************)
\* A job is pending or handed over at most once and in one pool; once handed
\* over it cannot be cancelled, before it can only be that.
JobInv ==
  /\ \A g \in Gens : \A i \in 1 .. Len(pending[g]) : fut[pending[g][i]] \in {"queued", "cancelled"}
  /\ \A g \in Gens : \A i \in 1 .. Len(handed[g]) : fut[handed[g][i]] = "running"
  /\ \A g, h \in Gens : \A i \in 1 .. Len(pending[g]), j \in 1 .. Len(pending[h]) :
       pending[g][i] = pending[h][j] => g = h /\ i = j
  /\ \A g, h \in Gens : \A i \in 1 .. Len(handed[g]), j \in 1 .. Len(handed[h]) :
       handed[g][i] = handed[h][j] => g = h /\ i = j

\* A probed chunk is not submitted.  A chunk without a result is where it
\* started, one with chunk results ran to its end unless something stopped it.
RecordInv ==
  \A k \in Callers, c \in Chunks :
    /\ c < First(k) => fut[<<k, c>>] = "none"
    /\ at[k][c] \in Lo(c) .. Hi(c)
    /\ c \in ProbeRecord(k) => at[k][c] = Hi(0)
    /\ fut[<<k, c>>] = "done" /\ stop[k][c] = "none" => at[k][c] = Hi(c)
    /\ stop[k][c] = "error" => at[k][c] \in block[k].raises

\* What the waits reported has a result, and is all there is to join.
WaitInv(k) ==
  /\ pc[k] \in {"open", "submit", "drain", "wait"} => done[k] = {}
  /\ done[k] \subseteq Settled(k)
  /\ pc[k] = "gather" => done[k] = Rest(k)
  /\ pc[k] = "killed" => done[k] # Rest(k)
  /\ pc[k] \notin {"commit", "end"} => outcome[k] = "none"
  /\ pc[k] = "commit" => \A c \in todo[k] : c \in ProbeRecord(k) \/ fut[<<k, c>>] = "done"

\* What the caller's containers show before anything is committed.
Base(k) == IF block[k].probed = "twin" THEN Hi(0) ELSE 0

\* The records still to commit go from chunk m, where the containers end, to e.
Follow(k, m, e) == /\ todo[k] = m .. e
                   /\ log[k] = Iota(Bound(m))
                   /\ \A c \in m .. e - 1 : at[k][c] = Hi(c)

\* A call is ended by its timeout, and the first chunk it submitted had ended.
Killed(k) == /\ outcome[k] = "timeout" /\ done[k] # Rest(k)
             /\ block[k].probed # "chunk" /\ First(k) \in done[k]

ShowsInv(k) ==
  /\ pc[k] \notin {"commit", "twin", "end"} => log[k] = Iota(Base(k))
  /\ pc[k] = "commit" /\ outcome[k] = "none" =>
       \/ todo[k] = {} /\ log[k] = Iota(Resume(k))
       \/ todo[k] = {0} /\ block[k].probed = "chunk" /\ log[k] = <<>>
  /\ pc[k] = "twin" => todo[k] = {} /\ log[k] = Iota(Resume(k))
  /\ pc[k] = "commit" /\ outcome[k] = "returned" =>
       \E m \in 0 .. NBounds : Follow(k, m, NBounds - 1)
                               /\ \A c \in todo[k] : at[k][c] = Hi(c)
  /\ pc[k] = "commit" /\ outcome[k] = "error" =>
       /\ errorAt[k] \in block[k].raises
       /\ \/ todo[k] = {} /\ log[k] = Iota(errorAt[k])
          \/ \E e \in Chunks : \E m \in 0 .. e : Follow(k, m, e) /\ at[k][e] = errorAt[k]
  /\ pc[k] = "commit" /\ Killed(k) =>
       \E m \in 0 .. NBounds : /\ log[k] = Iota(Bound(m))
                               /\ \A c \in todo[k] : /\ c >= m /\ at[k][c] = Hi(c)
                                                     /\ \A d \in m .. c : d \in todo[k]
  /\ Ended(k, "returned") => log[k] = Iota(N)
  /\ Ended(k, "error") => errorAt[k] \in block[k].raises /\ log[k] = Iota(errorAt[k])
  /\ pc[k] = "end" /\ Killed(k) => \E m \in 0 .. NBounds : log[k] = Iota(Bound(m))

\* A caller has a pool until it waits no more.  Once it falls back on what it
\* gathered, its pool is not the module's, and will not be again.
DeadPoolInv ==
  \A k \in Callers :
    /\ gen[k] # 0 => state[gen[k]] # "none"
    /\ pc[k] \in {"submit", "drain", "wait", "woken", "rest", "killed", "gather"} => gen[k] # 0
    /\ done[k] # {} => gen[k] # 0
    /\ done[k] # {} /\ outcome[k] = "none" /\ pc[k] \in {"commit", "twin"} => pool # gen[k]

CallsInv == \A k \in Callers : WaitInv(k) /\ ShowsInv(k)

IInv == TypeOK /\ JobInv /\ RecordInv /\ CallsInv /\ PoolInv /\ DeadPoolInv

-----------------------------------------------------------------------------
(***************************************************************************)
(* Sequences of jobs.                                                      *)
(***************************************************************************)
\* What is left of s without its element i, as PoolFinish leaves handed.
Without(s, i) == SubSeq(s, 1, i - 1) \o SubSeq(s, i + 1, Len(s))

LEMMA WithoutElements ==
  ASSUME NEW S, NEW s \in Seq(S), NEW i \in 1 .. Len(s)
  PROVE  /\ Without(s, i) \in Seq(S)
         /\ Len(Without(s, i)) = Len(s) - 1
         /\ \A m \in 1 .. Len(s) - 1 : Without(s, i)[m] = IF m < i THEN s[m] ELSE s[m + 1]
  <1> DEFINE a == SubSeq(s, 1, i - 1)
             b == SubSeq(s, i + 1, Len(s))
  <1>3. Len(s) \in Nat /\ i \in Nat /\ 1 <= i /\ i <= Len(s)
    BY LenProperties
  <1>1. a \in Seq(S) /\ Len(a) = i - 1 /\ \A m \in 1 .. i - 1 : a[m] = s[m]
    <2>1. \A m \in 1 .. i - 1 : s[m] \in S
      BY <1>3, ElementOfSeq
    <2> QED
      BY <1>3, <2>1, SubSeqProperties
  <1>2. b \in Seq(S) /\ Len(b) = Len(s) - i /\ \A m \in 1 .. Len(s) - i : b[m] = s[m + i]
    <2>1. \A m \in i + 1 .. Len(s) : s[m] \in S
      BY <1>3, ElementOfSeq
    <2> QED
      BY <1>3, <2>1, SubSeqProperties
  <1> HIDE DEF a, b
  <1>4. a \o b \in Seq(S) /\ Len(a \o b) = Len(s) - 1
    <2>1. a \o b \in Seq(S) /\ Len(a \o b) = Len(a) + Len(b)
      BY <1>1, <1>2, ConcatProperties, Zenon
    <2> QED
      BY <1>1, <1>2, <1>3, <2>1
  <1>5. ASSUME NEW m \in 1 .. Len(s) - 1
        PROVE  (a \o b)[m] = IF m < i THEN s[m] ELSE s[m + 1]
    <2>1. m <= Len(a) <=> m < i
      BY <1>1, <1>3
    <2>2. (a \o b)[m] = IF m < i THEN a[m] ELSE b[m - (i - 1)]
      BY <1>1, <1>2, <1>3, <2>1, ConcatProperties
    <2>3. CASE m < i
      BY <1>1, <1>3, <2>2, <2>3
    <2>4. CASE ~(m < i)
      <3>1. m - (i - 1) \in 1 .. Len(s) - i /\ m - (i - 1) + i = m + 1
        BY <1>3, <2>4
      <3> QED
        BY <1>2, <2>2, <2>4, <3>1
    <2> QED
      BY <2>3, <2>4
  <1> QED
    BY <1>4, <1>5 DEF Without, a, b

-----------------------------------------------------------------------------
(***************************************************************************)
(* Type correctness.                                                       *)
(***************************************************************************)
\* All a step can do to the jobs of the pools.
LEMMA JobSplit ==
  ASSUME [Next]_vars
  PROVE  \/ UNCHANGED <<pending, handed, fut>>
         \/ \E k \in Callers, c \in Chunks : Submit(k, c)
         \/ \E J \in SUBSET Jobs : fut' = WithCancelled(J) /\ UNCHANGED <<pending, handed>>
         \/ \E g \in Gens : \/ PoolHandOver(g) \/ PoolFlush(g) \/ PoolBreak(g)
                            \/ \E i \in 1 .. Procs : RunChunk(g, i)
  <1>1. CASE UNCHANGED vars
    BY <1>1 DEF vars, poolVars
  <1>2. ASSUME NEW k \in Callers,
               \/ TakePool(k) \/ Drained(k) \/ WaitReturns(k) \/ WaitsForRest(k)
               \/ RestReturns(k) \/ Joining(k) \/ Committing(k) \/ Twin(k)
               \/ Expire(k) \/ Interrupt(k)
        PROVE  UNCHANGED <<pending, handed, fut>>
    BY <1>2 DEF TakePool, Drained, WaitReturns, WaitsForRest, RestReturns, Joining,
         CommitPrefix, JoinAll, GatherFails, JoinError, Committing, CommitOne, Committed,
         Twin, Expire, Interrupt, poolVars
  <1>3. ASSUME NEW k \in Callers, NEW c \in Chunks, SubmitRaises(k, c)
        PROVE  UNCHANGED <<pending, handed, fut>>
    BY <1>3 DEF SubmitRaises, poolVars
  <1>4. ASSUME NEW k \in Callers, NEW c \in Chunks, PickleFails(k, c)
        PROVE  fut' = WithCancelled({k} \X Chunks) /\ UNCHANGED <<pending, handed>>
    BY <1>4 DEF PickleFails
  <1>5. ASSUME NEW k \in Callers, TimesOut(k)
        PROVE  /\ fut' = WithCancelled({k} \X (Rest(k) \ done[k]))
               /\ UNCHANGED <<pending, handed>>
    BY <1>5 DEF TimesOut
  <1>6. ASSUME NEW k \in Callers
        PROVE  {k} \X Chunks \in SUBSET Jobs /\ {k} \X (Rest(k) \ done[k]) \in SUBSET Jobs
    BY DEF Jobs, Rest
  <1>7. ASSUME NEW g \in Gens, PoolStep(g) \/ Break(g)
        PROVE  \/ PoolHandOver(g) \/ PoolFlush(g) \/ PoolBreak(g)
               \/ \E i \in 1 .. Procs : RunChunk(g, i)
    BY <1>7 DEF PoolStep, HandOver, Flush, Break
  <1>8. CASE Over
    BY <1>8 DEF Over, vars, poolVars
  <1>9. ASSUME NEW k \in Callers, Submitting(k) \/ Waiting(k)
        PROVE  \/ UNCHANGED <<pending, handed, fut>>
               \/ \E c \in Chunks : Submit(k, c)
               \/ \E J \in SUBSET Jobs : fut' = WithCancelled(J) /\ UNCHANGED <<pending, handed>>
    <2>1. CASE Submitting(k)
      BY <1>3, <1>4, <1>6, <2>1 DEF Submitting
    <2>2. CASE Waiting(k)
      BY <1>2, <1>5, <1>6, <2>2 DEF Waiting
    <2> QED
      BY <1>9, <2>1, <2>2
  <1> QED
    BY <1>1, <1>2, <1>7, <1>8, <1>9 DEF Next, CallerStep

\* The fate of a job a process ran.
LEMMA RunChunkFinishes ==
  ASSUME TypeOK, NEW g \in Gens, NEW i \in 1 .. Procs, RunChunk(g, i)
  PROVE  /\ i \in 1 .. Len(handed[g])
         /\ handed[g][i] \in Jobs
         /\ \E r \in Results : PoolFinish(g, i, r)
  <1>1. i \in 1 .. Len(handed[g]) /\ handed[g] \in Seq(Jobs)
    BY DEF RunChunk, TypeOK, PoolTypeOK
  <1>2. handed[g][i] \in Jobs
    BY <1>1, ElementOfSeq
  <1>3. \E r \in Results : PoolFinish(g, i, r)
    BY DEF RunChunk, Results
  <1> QED
    BY <1>1, <1>2, <1>3

\* The pools keep their types.
LEMMA PoolTypeStep == TypeOK /\ [Next]_vars => PoolTypeOK'
  <1> SUFFICES ASSUME TypeOK, [Next]_vars
               PROVE  PoolTypeOK'
    OBVIOUS
  <1> USE DEF PoolTypeOK, FutureState
  <1>t. PoolTypeOK /\ gen \in [Callers -> Gens \cup {0}]
    BY DEF TypeOK
  <1>s. state' \in [Gens -> {"none", "open", "closing", "closed", "broken"}]
    <2>1. CASE UNCHANGED <<pool, state, gen>>
      BY <1>t, <2>1
    <2>2. ASSUME NEW k \in Callers, TakePool(k)
          PROVE  state' \in [Gens -> {"none", "open", "closing", "closed", "broken"}]
      BY <1>t, <2>2 DEF TakePool
    <2>3. CASE Recycle
      BY <1>t, <2>3 DEF Recycle
    <2>4. ASSUME NEW g \in Gens, PoolFlush(g) \/ PoolBreak(g)
          PROVE  state' \in [Gens -> {"none", "open", "closing", "closed", "broken"}]
      BY <1>t, <2>4 DEF PoolFlush, PoolBreak
    <2> QED
      BY <2>1, <2>2, <2>3, <2>4, PoolSplit
  <1> DEFINE JobsTyped == /\ pending \in [Gens -> Seq(Jobs)]
                          /\ handed \in [Gens -> Seq(Jobs)]
                          /\ fut \in [Jobs -> FutureState]
  <1>j. JobsTyped'
    <2>1. CASE UNCHANGED <<pending, handed, fut>>
      BY <1>t, <2>1
    <2>2. ASSUME NEW k \in Callers, NEW c \in Chunks, Submit(k, c)
          PROVE  JobsTyped'
      <3>1. <<k, c>> \in Jobs
        BY DEF Jobs
      <3>2. pending' = [pending EXCEPT ![gen[k]] = Append(@, <<k, c>>)]
        BY <2>2 DEF Submit, PoolSubmit
      <3>3. gen[k] \in Gens => Append(pending[gen[k]], <<k, c>>) \in Seq(Jobs)
        <4> SUFFICES ASSUME gen[k] \in Gens
                     PROVE  Append(pending[gen[k]], <<k, c>>) \in Seq(Jobs)
          OBVIOUS
        <4>1. pending[gen[k]] \in Seq(Jobs)
          BY <1>t
        <4> QED
          BY <3>1, <4>1, AppendProperties
      <3>4. pending' \in [Gens -> Seq(Jobs)]
        BY <1>t, <3>2, <3>3
      <3> QED
        BY <1>t, <2>2, <3>4 DEF Submit, PoolSubmit
    <2>3. ASSUME NEW J \in SUBSET Jobs, fut' = WithCancelled(J), UNCHANGED <<pending, handed>>
          PROVE  JobsTyped'
      BY <1>t, <2>3 DEF WithCancelled
    <2>4. ASSUME NEW g \in Gens, PoolHandOver(g)
          PROVE  JobsTyped'
      <3>1. pending[g] \in Seq(Jobs) /\ pending[g] # <<>>
        BY <1>t, <2>4 DEF PoolHandOver
      <3>2. Head(pending[g]) \in Jobs /\ Tail(pending[g]) \in Seq(Jobs)
        BY <3>1, HeadTailProperties
      <3>3. CASE fut[Head(pending[g])] = "cancelled"
        BY <1>t, <2>4, <3>2, <3>3 DEF PoolHandOver
      <3>4. CASE fut[Head(pending[g])] # "cancelled"
        <4>1. handed' = [handed EXCEPT ![g] = Append(@, Head(pending[g]))]
          BY <2>4, <3>4 DEF PoolHandOver
        <4>2. handed[g] \in Seq(Jobs)
          BY <1>t
        <4>3. Append(handed[g], Head(pending[g])) \in Seq(Jobs)
          BY <3>2, <4>2, AppendProperties
        <4>4. handed' \in [Gens -> Seq(Jobs)]
          BY <1>t, <4>1, <4>3
        <4> QED
          BY <1>t, <2>4, <3>2, <3>4, <4>4 DEF PoolHandOver
      <3> QED
        BY <3>3, <3>4
    <2>5. ASSUME NEW g \in Gens, NEW i \in 1 .. Procs, RunChunk(g, i)
          PROVE  JobsTyped'
      <3>1. PICK r \in Results : PoolFinish(g, i, r)
        BY <2>5, RunChunkFinishes
      <3>2. handed[g] \in Seq(Jobs) /\ i \in 1 .. Len(handed[g]) /\ handed[g][i] \in Jobs
        BY <1>t, <2>5, RunChunkFinishes
      <3>3. Without(handed[g], i) \in Seq(Jobs)
        BY <3>2, WithoutElements
      <3>4. handed' = [handed EXCEPT ![g] = Without(handed[g], i)]
        BY <3>1 DEF PoolFinish, Without
      <3>5. handed' \in [Gens -> Seq(Jobs)]
        BY <1>t, <3>3, <3>4
      <3> QED
        BY <1>t, <3>1, <3>2, <3>5 DEF PoolFinish, Results
    <2>6. ASSUME NEW g \in Gens, PoolFlush(g) \/ PoolBreak(g)
          PROVE  JobsTyped'
      <3>1. <<>> \in Seq(Jobs)
        BY EmptySeq
      <3> QED
        BY <1>t, <2>6, <3>1 DEF PoolFlush, PoolBreak
    <2> QED
      BY <2>1, <2>2, <2>3, <2>4, <2>5, <2>6, JobSplit
  <1> QED
    BY <1>s, <1>j

\* TypeOK, given where the chunks' results can be.
LEMMA TypeStep == TypeOK /\ RecordInv /\ [Next]_vars => TypeOK'
  <1> SUFFICES ASSUME TypeOK, RecordInv, [Next]_vars
               PROVE  TypeOK'
    OBVIOUS
  <1> DEFINE Labels == {"open", "submit", "drain", "wait", "woken", "rest", "killed",
                        "gather", "commit", "twin", "end"}
             Decided == /\ pc \in [Callers -> Labels]
                        /\ todo \in [Callers -> SUBSET Chunks]
                        /\ outcome \in [Callers -> Outcomes]
             Shown == log \in [Callers -> Seq(Pos)] /\ errorAt \in [Callers -> 0 .. N]
             Seen == done \in [Callers -> SUBSET Chunks] /\ expired \in [Callers -> BOOLEAN]
             Ends == /\ at \in [Callers -> [Chunks -> 0 .. N]]
                         /\ stop \in [Callers -> [Chunks -> {"none", "error", "deadline"}]]
             Pools == pool \in Gens \cup {0} /\ gen \in [Callers -> Gens \cup {0}]
  <1>p. PoolTypeOK'
    BY PoolTypeStep
  <1>u. Decided /\ Shown /\ Seen /\ Ends /\ Pools /\ block \in Programs
    BY DEF TypeOK
  <1>g. UNCHANGED block /\ Decided' /\ Shown' /\ Seen' /\ Ends' /\ Pools' => TypeOK'
    BY <1>p, <1>u DEF TypeOK
  <1>c. 0 \in Chunks
    BY ChunkBounds
  <1> DEFINE Ending(k) == End(k, "refused") \/ End(k, "crashed") \/ End(k, "interrupt")
  <1>e. ASSUME NEW k \in Callers, Ending(k)
        PROVE  Decided'
    BY <1>e, <1>u DEF End, Goto, Decide, Outcomes
  <1>f. ASSUME NEW k \in Callers, Fallback(k)
        PROVE  Decided'
    <2>1. CASE block[k].hard
      BY <1>e, <1>f, <2>1 DEF Fallback
    <2>2. CASE ~block[k].hard
      <3>1. ProbeRecord(k) \in SUBSET Chunks
        BY <1>c DEF ProbeRecord
      <3> QED
        BY <1>f, <1>u, <2>2, <3>1 DEF Fallback, Commit, Goto
    <2> QED
      BY <2>1, <2>2
  <1>d. ASSUME NEW k \in Callers, NEW R \in SUBSET Chunks, NEW o \in Outcomes,
               Commit(k, R), Decide(k, o)
        PROVE  Decided'
    BY <1>d, <1>u DEF Commit, Goto, Decide
  <1>o. ASSUME NEW k \in Callers, NEW l \in Labels, Goto(k, l), UNCHANGED <<todo, outcome>>
        PROVE  Decided'
    BY <1>o, <1>u DEF Goto
  <1>1. CASE UNCHANGED vars \/ Over
    BY <1>1, <1>u, <1>g DEF vars, records, result, Over
  <1>2. ASSUME NEW k \in Callers, TakePool(k)
        PROVE  TypeOK'
    <2>1. Decided'
      BY <1>2, <1>f, <1>o DEF TakePool
    <2>2. Pools'
      <3>1. CASE block[k].unguarded
        BY <1>2, <1>u, <3>1 DEF TakePool
      <3>2. CASE ~block[k].unguarded
        <4>1. pool' \in Gens \cup {0} /\ gen' = [gen EXCEPT ![k] = pool']
          BY <1>2, <1>u, <3>2 DEF TakePool
        <4> QED
          BY <1>u, <4>1
      <3> QED
        BY <3>1, <3>2
    <2> QED
      BY <1>2, <1>u, <1>g, <2>1, <2>2 DEF TakePool, records
  <1>3. ASSUME NEW k \in Callers, Submitting(k)
        PROVE  TypeOK'
    <2>1. PICK c \in Chunks : Submit(k, c) \/ SubmitRaises(k, c) \/ PickleFails(k, c)
      BY <1>3 DEF Submitting
    <2>2. Decided'
      BY <1>e, <1>o, <2>1 DEF Submit, SubmitRaises, PickleFails, result
    <2> QED
      BY <1>u, <1>g, <2>1, <2>2 DEF Submit, SubmitRaises, PickleFails, records, result
  <1>4. ASSUME NEW k \in Callers, Drained(k)
        PROVE  TypeOK'
    BY <1>4, <1>f, <1>u, <1>g DEF Drained, records
  <1>5. ASSUME NEW k \in Callers, WaitReturns(k) \/ WaitsForRest(k) \/ RestReturns(k)
        PROVE  TypeOK'
    <2>1. Decided'
      BY <1>5, <1>o DEF WaitReturns, WaitsForRest, RestReturns, result
    <2>2. Settled(k) \in SUBSET Chunks /\ Rest(k) \in SUBSET Chunks
      BY DEF Settled, Rest
    <2>3. done' \in [Callers -> SUBSET Chunks]
      BY <1>5, <1>u, <2>2 DEF WaitReturns, WaitsForRest, RestReturns
    <2> QED
      BY <1>5, <1>u, <1>g, <2>1, <2>3 DEF WaitReturns, WaitsForRest, RestReturns, records, result
  <1>6. ASSUME NEW k \in Callers, TimesOut(k)
        PROVE  TypeOK'
    <2>1. Decided'
      BY <1>6, <1>o DEF TimesOut, result
    <2> QED
      BY <1>6, <1>u, <1>g, <2>1 DEF TimesOut, Recycle, records, result
  <1>7. ASSUME NEW k \in Callers, NEW c \in Chunks, GatherFails(k, c)
        PROVE  TypeOK'
    <2>1. Decided'
      BY <1>7, <1>e, <1>f DEF GatherFails
    <2>2. Pools'
      BY <1>7, <1>u DEF GatherFails, Recycle
    <2> QED
      BY <1>7, <1>u, <1>g, <2>1, <2>2 DEF GatherFails, records
  <1>8. ASSUME NEW k \in Callers, CommitPrefix(k)
        PROVE  TypeOK'
    <2>1. ContiguousPrefix(done[k], Clean(k)) \in SUBSET Chunks
      BY <1>u DEF ContiguousPrefix
    <2>2. Decided'
      BY <1>8, <1>d, <2>1 DEF CommitPrefix, Outcomes
    <2> QED
      BY <1>8, <1>u, <1>g, <2>2 DEF CommitPrefix, records
  <1>j. ASSUME NEW k \in Callers
        PROVE  Joined(k) \in SUBSET Chunks
    BY <1>u, <1>c DEF Joined, ProbeRecord
  <1>9. ASSUME NEW k \in Callers, JoinAll(k)
        PROVE  TypeOK'
    <2>2. Decided'
      BY <1>9, <1>d, <1>j DEF JoinAll, Outcomes
    <2> QED
      BY <1>9, <1>u, <1>g, <2>2 DEF JoinAll, records
  <1>10. ASSUME NEW k \in Callers, NEW c \in Chunks, JoinError(k, c)
         PROVE  TypeOK'
    <2>1. {d \in Joined(k) : d <= c} \in SUBSET Chunks
      BY <1>j
    <2>2. Decided'
      BY <1>10, <1>d, <2>1 DEF JoinError, Outcomes
    <2>3. Shown'
      BY <1>10, <1>u DEF JoinError
    <2> QED
      BY <1>10, <1>u, <1>g, <2>2, <2>3 DEF JoinError, records
  <1>11. ASSUME NEW k \in Callers, NEW c \in Chunks, CommitOne(k, c)
         PROVE  TypeOK'
    <2>1. Lo(c) \in 0 .. N /\ at[k][c] \in Lo(c) .. N
      <3>1. at[k][c] \in Lo(c) .. Hi(c)
        BY DEF RecordInv
      <3> QED
        BY <3>1, ChunkBounds, IterationsAssumption
    <2>2. Extend(log[k], Lo(c), at[k][c]) \in Seq(Pos)
      BY <1>u, <2>1, ExtendType
    <2>3. Shown'
      BY <1>11, <1>u, <2>2 DEF CommitOne
    <2>4. Decided'
      BY <1>11, <1>u DEF CommitOne
    <2> QED
      BY <1>11, <1>u, <1>g, <2>3, <2>4 DEF CommitOne, records
  <1>12. ASSUME NEW k \in Callers, Committed(k)
         PROVE  TypeOK'
    <2>1. Decided'
      BY <1>12, <1>o DEF Committed, result
    <2> QED
      BY <1>12, <1>u, <1>g, <2>1 DEF Committed, records, result
  <1>13. ASSUME NEW k \in Callers, Twin(k)
         PROVE  TypeOK'
    <2>1. PICK m \in Resume(k) .. N :
            /\ log' = [log EXCEPT ![k] = Extend(@, Resume(k), m)]
            /\ Decide(k, IF m = N THEN "returned" ELSE "error")
            /\ errorAt' = [errorAt EXCEPT ![k] = IF m = N THEN @ ELSE m]
      BY <1>13 DEF Twin
    <2>2. Resume(k) \in 0 .. N
      BY ChunkBounds, IterationsAssumption DEF Resume
    <2>3. Extend(log[k], Resume(k), m) \in Seq(Pos) /\ m \in 0 .. N
      BY <1>u, <2>2, ExtendType
    <2>4. Shown'
      BY <1>u, <2>1, <2>3
    <2>5. Decided'
      BY <1>13, <1>u, <2>1 DEF Twin, Goto, Decide, Outcomes
    <2> QED
      BY <1>13, <1>u, <1>g, <2>4, <2>5 DEF Twin, records
  <1>14. ASSUME NEW k \in Callers, Expire(k)
         PROVE  TypeOK'
    BY <1>14, <1>u, <1>g DEF Expire, records, result
  <1>15. ASSUME NEW k \in Callers, Interrupt(k)
         PROVE  TypeOK'
    BY <1>15, <1>e, <1>u, <1>g DEF Interrupt, records
  <1>16. ASSUME NEW g \in Gens, HandOver(g) \/ Flush(g) \/ Break(g)
         PROVE  TypeOK'
    BY <1>16, <1>u, <1>g DEF HandOver, Flush, Break, callers, records, result
  <1>17. ASSUME NEW g \in Gens, NEW i \in 1 .. Procs, RunChunk(g, i)
         PROVE  TypeOK'
    <2>1. PICK k \in Callers, c \in Chunks : handed[g][i] = <<k, c>>
      BY <1>17, RunChunkFinishes DEF Jobs
    <2>2. \/ UNCHANGED records
          \/ \E p \in Lo(c) .. Hi(c), s \in {"none", "error", "deadline"} :
               at' = [at EXCEPT ![k][c] = p] /\ stop' = [stop EXCEPT ![k][c] = s]
      BY <1>17, <2>1 DEF RunChunk
    <2>3. Lo(c) .. Hi(c) \subseteq 0 .. N
      BY ChunkBounds, IterationsAssumption
    <2>4. Ends'
      <3>1. CASE UNCHANGED records
        BY <1>u, <3>1 DEF records
      <3>2. ASSUME NEW p \in Lo(c) .. Hi(c), NEW s \in {"none", "error", "deadline"},
                   at' = [at EXCEPT ![k][c] = p], stop' = [stop EXCEPT ![k][c] = s]
            PROVE  Ends'
        <4>1. p \in 0 .. N
          BY <2>3
        <4> QED
          BY <1>u, <3>2, <4>1
      <3> QED
        BY <2>2, <3>1, <3>2
    <2> QED
      BY <1>17, <1>u, <1>g, <2>4 DEF RunChunk, callers, result
  <1> QED
    BY <1>1, <1>2, <1>3, <1>4, <1>5, <1>6, <1>7, <1>8, <1>9, <1>10, <1>11, <1>12, <1>13,
       <1>14, <1>15, <1>16, <1>17
    DEF Next, CallerStep, Waiting, Joining, Committing, PoolStep

-----------------------------------------------------------------------------
(***************************************************************************)
(* The jobs in the pools, and their futures.                               *)
(***************************************************************************)
\* The elements of the pools are jobs.
LEMMA JobTypes ==
  ASSUME PoolTypeOK, NEW g \in Gens
  PROVE  /\ pending[g] \in Seq(Jobs) /\ handed[g] \in Seq(Jobs)
         /\ Len(pending[g]) \in Nat /\ Len(handed[g]) \in Nat
         /\ \A i \in 1 .. Len(pending[g]) : pending[g][i] \in Jobs
         /\ \A i \in 1 .. Len(handed[g]) : handed[g][i] \in Jobs
  <1>1. pending[g] \in Seq(Jobs) /\ handed[g] \in Seq(Jobs)
    BY DEF PoolTypeOK
  <1> QED
    BY <1>1, LenProperties, ElementOfSeq

\* A submission adds a job that is nowhere yet.
LEMMA JobInvSubmit ==
  ASSUME TypeOK, JobInv, NEW k \in Callers, NEW c \in Chunks, Submit(k, c)
  PROVE  JobInv'
  <1> DEFINE j == <<k, c>>
             h == gen[k]
  <1>1. fut[j] = "none" /\ j \in Jobs /\ UNCHANGED handed
        /\ fut' = [fut EXCEPT ![j] = "queued"] /\ pending' = [pending EXCEPT ![h] = Append(@, j)]
    BY DEF Submit, NextToSubmit, PoolSubmit, Jobs
  <1>t. /\ PoolTypeOK /\ fut \in [Jobs -> FutureState] /\ h \in Gens \cup {0}
        /\ pending \in [Gens -> Seq(Jobs)]
    BY DEF TypeOK, PoolTypeOK
  <1> HIDE DEF j, h
  <1>2. ASSUME NEW g \in Gens, NEW i \in 1 .. Len(pending[g])
        PROVE  pending[g][i] # j
    BY <1>1, <1>2 DEF JobInv
  <1>3. ASSUME NEW g \in Gens, NEW i \in 1 .. Len(handed[g])
        PROVE  handed[g][i] # j
    BY <1>1, <1>3 DEF JobInv
  <1>4. ASSUME NEW g \in Gens, NEW i \in 1 .. Len(pending'[g])
        PROVE  /\ i \in Nat
               /\ \/ i \in 1 .. Len(pending[g]) /\ pending'[g][i] = pending[g][i]
                  \/ g = h /\ i = Len(pending[g]) + 1 /\ pending'[g][i] = j
    <2>1. CASE g # h
      BY <1>1, <1>t, <1>4, <2>1, JobTypes
    <2>2. CASE g = h
      <3>1. pending'[g] = Append(pending[g], j)
        BY <1>1, <1>t, <2>2
      <3>2. pending[g] \in Seq(Jobs) /\ Len(pending[g]) \in Nat
        BY <1>t, JobTypes
      <3>3. /\ Len(pending'[g]) = Len(pending[g]) + 1
            /\ \A m \in 1 .. Len(pending[g]) : pending'[g][m] = pending[g][m]
            /\ pending'[g][Len(pending[g]) + 1] = j
        BY <1>1, <3>1, <3>2, AppendProperties
      <3> QED
        BY <1>4, <2>2, <3>2, <3>3
    <2> QED
      BY <2>1, <2>2
  <1>5. \A g \in Gens : \A i \in 1 .. Len(pending'[g]) : fut'[pending'[g][i]] \in {"queued", "cancelled"}
    <2> TAKE g \in Gens
    <2> TAKE i \in 1 .. Len(pending'[g])
    <2>1. CASE pending'[g][i] = j
      BY <1>1, <1>t, <2>1
    <2>2. CASE i \in 1 .. Len(pending[g]) /\ pending'[g][i] = pending[g][i]
      BY <1>1, <1>2, <1>t, <2>2, JobTypes DEF JobInv
    <2> QED
      BY <1>4, <2>1, <2>2
  <1>6. \A g \in Gens : \A i \in 1 .. Len(handed'[g]) : fut'[handed'[g][i]] = "running"
    BY <1>1, <1>3, <1>t, JobTypes DEF JobInv
  <1>7. \A g, f \in Gens : \A i \in 1 .. Len(pending'[g]), m \in 1 .. Len(pending'[f]) :
          pending'[g][i] = pending'[f][m] => g = f /\ i = m
    <2> TAKE g \in Gens, f \in Gens
    <2> TAKE i \in 1 .. Len(pending'[g]), m \in 1 .. Len(pending'[f])
    <2> HAVE pending'[g][i] = pending'[f][m]
    <2>1. CASE i \in 1 .. Len(pending[g]) /\ m \in 1 .. Len(pending[f])
               /\ pending'[g][i] = pending[g][i] /\ pending'[f][m] = pending[f][m]
      <3>1. pending[g][i] = pending[f][m]
        BY <2>1
      <3>2. \A x, y \in Gens : \A a \in 1 .. Len(pending[x]), b \in 1 .. Len(pending[y]) :
              pending[x][a] = pending[y][b] => x = y /\ a = b
        BY DEF JobInv
      <3> QED
        BY <2>1, <3>1, <3>2
    <2>2. CASE g = h /\ i = Len(pending[g]) + 1 /\ f = h /\ m = Len(pending[f]) + 1
      BY <2>2
    <2>3. CASE i \in 1 .. Len(pending[g]) /\ pending'[g][i] = pending[g][i] /\ pending'[f][m] = j
      BY <1>2, <2>3
    <2>4. CASE m \in 1 .. Len(pending[f]) /\ pending'[f][m] = pending[f][m] /\ pending'[g][i] = j
      BY <1>2, <2>4
    <2>5. \/ i \in 1 .. Len(pending[g]) /\ pending'[g][i] = pending[g][i]
          \/ g = h /\ i = Len(pending[g]) + 1 /\ pending'[g][i] = j
      BY <1>4
    <2>6. \/ m \in 1 .. Len(pending[f]) /\ pending'[f][m] = pending[f][m]
          \/ f = h /\ m = Len(pending[f]) + 1 /\ pending'[f][m] = j
      BY <1>4
    <2> QED
      BY <2>1, <2>2, <2>3, <2>4, <2>5, <2>6
  <1>8. \A g, f \in Gens : \A i \in 1 .. Len(handed'[g]), m \in 1 .. Len(handed'[f]) :
          handed'[g][i] = handed'[f][m] => g = f /\ i = m
    BY <1>1 DEF JobInv
  <1> QED
    BY <1>5, <1>6, <1>7, <1>8 DEF JobInv

\* The manager thread drops a job or hands it over.
LEMMA JobInvHandOver ==
  ASSUME TypeOK, JobInv, NEW h \in Gens, PoolHandOver(h)
  PROVE  JobInv'
  <1> DEFINE j == pending[h][1]
  <1>t. /\ PoolTypeOK /\ fut \in [Jobs -> FutureState]
        /\ pending \in [Gens -> Seq(Jobs)] /\ handed \in [Gens -> Seq(Jobs)]
    BY DEF TypeOK, PoolTypeOK
  <1>1. pending[h] # <<>> /\ pending' = [pending EXCEPT ![h] = Tail(@)]
    BY DEF PoolHandOver
  <1>2. Head(pending[h]) = j
    OBVIOUS
  <1>3. 1 \in 1 .. Len(pending[h]) /\ j \in Jobs /\ fut[j] \in {"queued", "cancelled"}
    <2>1. Len(pending[h]) \in Nat \ {0}
      BY <1>1, <1>t, EmptySeq, JobTypes
    <2>2. 1 \in 1 .. Len(pending[h])
      BY <2>1
    <2>3. j \in Jobs
      BY <1>t, <2>2, JobTypes
    <2>4. fut[j] \in {"queued", "cancelled"}
      BY <2>2 DEF JobInv
    <2> QED
      BY <2>2, <2>3, <2>4
  <1>4. \/ fut[j] = "cancelled" /\ fut' = [fut EXCEPT ![j] = "notified"] /\ UNCHANGED handed
        \/ fut' = [fut EXCEPT ![j] = "running"] /\ handed' = [handed EXCEPT ![h] = Append(@, j)]
    BY <1>2 DEF PoolHandOver
  <1>5. \A g \in Gens : \A i \in 1 .. Len(handed[g]) : handed[g][i] # j
    BY <1>3 DEF JobInv
  <1> HIDE DEF j
  <1>6. ASSUME NEW g \in Gens, NEW i \in 1 .. Len(pending'[g])
        PROVE  LET i2 == IF g = h THEN i + 1 ELSE i
               IN i2 \in 1 .. Len(pending[g]) /\ pending'[g][i] = pending[g][i2] /\ (g = h => i2 # 1)
    <2>1. CASE g # h
      BY <1>1, <1>t, <2>1, <1>6, JobTypes
    <2>2. CASE g = h
      <3>1. pending'[h] = Tail(pending[h])
        BY <1>1, <1>t
      <3>2. Len(pending'[h]) = Len(pending[h]) - 1 /\ \A m \in 1 .. Len(pending'[h]) : pending'[h][m] = pending[h][m + 1]
        BY <1>1, <1>t, <3>1, JobTypes, HeadTailProperties
      <3>3. Len(pending[h]) \in Nat
        BY <1>t, JobTypes
      <3> QED
        BY <1>6, <2>2, <3>2, <3>3
    <2> QED
      BY <2>1, <2>2
  <1>7. ASSUME NEW g \in Gens, NEW i \in 1 .. Len(pending'[g])
        PROVE  pending'[g][i] # j /\ pending'[g][i] \in Jobs
    <2> DEFINE i2 == IF g = h THEN i + 1 ELSE i
    <2>1. i2 \in 1 .. Len(pending[g]) /\ pending'[g][i] = pending[g][i2] /\ (g = h => i2 # 1)
      BY <1>6, <1>7
    <2> HIDE DEF i2
    <2>2. pending[g][i2] \in Jobs
      BY <1>t, <2>1, JobTypes
    <2>3. pending[g][i2] = pending[h][1] => g = h /\ i2 = 1
      BY <1>3, <2>1 DEF JobInv
    <2> QED
      BY <2>1, <2>2, <2>3 DEF j
  <1>8. \A g \in Gens : \A i \in 1 .. Len(pending'[g]) : fut'[pending'[g][i]] \in {"queued", "cancelled"}
    <2> TAKE g \in Gens
    <2> TAKE i \in 1 .. Len(pending'[g])
    <2>1. fut[pending'[g][i]] \in {"queued", "cancelled"}
      BY <1>6 DEF JobInv
    <2> QED
      BY <1>4, <1>7, <1>t, <2>1
  <1>9. \A g, f \in Gens : \A i \in 1 .. Len(pending'[g]), m \in 1 .. Len(pending'[f]) :
          pending'[g][i] = pending'[f][m] => g = f /\ i = m
    <2> TAKE g \in Gens, f \in Gens
    <2> TAKE i \in 1 .. Len(pending'[g]), m \in 1 .. Len(pending'[f])
    <2> HAVE pending'[g][i] = pending'[f][m]
    <2> DEFINE i2 == IF g = h THEN i + 1 ELSE i
               m2 == IF f = h THEN m + 1 ELSE m
    <2>1. i2 \in 1 .. Len(pending[g]) /\ m2 \in 1 .. Len(pending[f]) /\ pending[g][i2] = pending[f][m2]
      BY <1>6
    <2>2. g = f /\ i2 = m2
      BY <2>1 DEF JobInv
    <2> QED
      BY <2>2
  <1>10. CASE UNCHANGED handed
    <2>1. \A g \in Gens : \A i \in 1 .. Len(handed'[g]) : fut'[handed'[g][i]] = "running"
      BY <1>4, <1>5, <1>10, <1>t, JobTypes DEF JobInv
    <2> QED
      BY <1>8, <1>9, <1>10, <2>1 DEF JobInv
  <1>11. CASE fut' = [fut EXCEPT ![j] = "running"] /\ handed' = [handed EXCEPT ![h] = Append(@, j)]
    <2>1. ASSUME NEW g \in Gens, NEW i \in 1 .. Len(handed'[g])
          PROVE  /\ i \in Nat
                 /\ \/ i \in 1 .. Len(handed[g]) /\ handed'[g][i] = handed[g][i]
                    \/ g = h /\ i = Len(handed[g]) + 1 /\ handed'[g][i] = j
      <3>1. CASE g # h
        BY <1>11, <1>t, <2>1, <3>1, JobTypes
      <3>2. CASE g = h
        <4>1. handed'[g] = Append(handed[g], j)
          BY <1>11, <1>t, <3>2
        <4>2. handed[g] \in Seq(Jobs) /\ Len(handed[g]) \in Nat
          BY <1>t, JobTypes
        <4>3. /\ Len(handed'[g]) = Len(handed[g]) + 1
              /\ \A m \in 1 .. Len(handed[g]) : handed'[g][m] = handed[g][m]
              /\ handed'[g][Len(handed[g]) + 1] = j
          BY <1>3, <4>1, <4>2, AppendProperties
        <4> QED
          BY <2>1, <3>2, <4>2, <4>3
      <3> QED
        BY <3>1, <3>2
    <2>2. \A g \in Gens : \A i \in 1 .. Len(handed'[g]) : fut'[handed'[g][i]] = "running"
      <3> TAKE g \in Gens
      <3> TAKE i \in 1 .. Len(handed'[g])
      <3>1. CASE handed'[g][i] = j
        BY <1>3, <1>11, <1>t, <3>1
      <3>2. CASE i \in 1 .. Len(handed[g]) /\ handed'[g][i] = handed[g][i]
        BY <1>5, <1>11, <1>t, <3>2, JobTypes DEF JobInv
      <3> QED
        BY <2>1, <3>1, <3>2
    <2>3. \A g, f \in Gens : \A i \in 1 .. Len(handed'[g]), m \in 1 .. Len(handed'[f]) :
            handed'[g][i] = handed'[f][m] => g = f /\ i = m
      <3> TAKE g \in Gens, f \in Gens
      <3> TAKE i \in 1 .. Len(handed'[g]), m \in 1 .. Len(handed'[f])
      <3> HAVE handed'[g][i] = handed'[f][m]
      <3>1. CASE i \in 1 .. Len(handed[g]) /\ m \in 1 .. Len(handed[f])
                 /\ handed'[g][i] = handed[g][i] /\ handed'[f][m] = handed[f][m]
        <4>1. handed[g][i] = handed[f][m]
          BY <3>1
        <4>2. \A x, y \in Gens : \A a \in 1 .. Len(handed[x]), b \in 1 .. Len(handed[y]) :
                handed[x][a] = handed[y][b] => x = y /\ a = b
          BY DEF JobInv
        <4> QED
          BY <3>1, <4>1, <4>2
      <3>2. CASE g = h /\ i = Len(handed[g]) + 1 /\ f = h /\ m = Len(handed[f]) + 1
        BY <3>2
      <3>3. CASE i \in 1 .. Len(handed[g]) /\ handed'[g][i] = handed[g][i] /\ handed'[f][m] = j
        BY <1>5, <3>3
      <3>4. CASE m \in 1 .. Len(handed[f]) /\ handed'[f][m] = handed[f][m] /\ handed'[g][i] = j
        BY <1>5, <3>4
      <3>5. \/ i \in 1 .. Len(handed[g]) /\ handed'[g][i] = handed[g][i]
            \/ g = h /\ i = Len(handed[g]) + 1 /\ handed'[g][i] = j
        BY <2>1
      <3>6. \/ m \in 1 .. Len(handed[f]) /\ handed'[f][m] = handed[f][m]
            \/ f = h /\ m = Len(handed[f]) + 1 /\ handed'[f][m] = j
        BY <2>1
      <3> QED
        BY <3>1, <3>2, <3>3, <3>4, <3>5, <3>6
    <2> QED
      BY <1>8, <1>9, <2>2, <2>3 DEF JobInv
  <1> QED
    BY <1>4, <1>10, <1>11

\* A job that ends leaves the pool.
LEMMA JobInvFinish ==
  ASSUME TypeOK, JobInv, NEW h \in Gens, NEW n \in 1 .. Len(handed[h]), NEW r,
         PoolFinish(h, n, r)
  PROVE  JobInv'
  <1> DEFINE j == handed[h][n]
  <1>t. /\ PoolTypeOK /\ fut \in [Jobs -> FutureState] /\ handed \in [Gens -> Seq(Jobs)]
    BY DEF TypeOK, PoolTypeOK
  <1>1. /\ handed' = [handed EXCEPT ![h] = Without(handed[h], n)]
        /\ fut' = [fut EXCEPT ![j] = r] /\ UNCHANGED pending
    BY DEF PoolFinish, Without
  <1>2. j \in Jobs /\ fut[j] = "running"
    BY <1>t, JobTypes DEF JobInv
  <1>3. n \in Nat /\ handed[h] \in Seq(Jobs) /\ Len(handed[h]) \in Nat
    BY <1>t, JobTypes
  <1>4. ASSUME NEW g \in Gens, NEW i \in 1 .. Len(handed'[g])
        PROVE  LET i2 == IF g = h /\ i >= n THEN i + 1 ELSE i
               IN i2 \in 1 .. Len(handed[g]) /\ handed'[g][i] = handed[g][i2] /\ (g = h => i2 # n)
    <2>1. CASE g # h
      BY <1>1, <1>t, <1>4, <2>1, JobTypes
    <2>2. CASE g = h
      <3>1. handed'[h] = Without(handed[h], n)
        BY <1>1, <1>t
      <3>2. /\ Len(handed'[h]) = Len(handed[h]) - 1
            /\ \A m \in 1 .. Len(handed[h]) - 1 :
                 handed'[h][m] = IF m < n THEN handed[h][m] ELSE handed[h][m + 1]
        BY <1>3, <3>1, WithoutElements
      <3> QED
        BY <1>3, <1>4, <2>2, <3>2
    <2> QED
      BY <2>1, <2>2
  <1> HIDE DEF j
  <1>5. \A g \in Gens : \A i \in 1 .. Len(handed'[g]) : fut'[handed'[g][i]] = "running"
    <2> TAKE g \in Gens
    <2> TAKE i \in 1 .. Len(handed'[g])
    <2> DEFINE i2 == IF g = h /\ i >= n THEN i + 1 ELSE i
    <2>1. i2 \in 1 .. Len(handed[g]) /\ handed'[g][i] = handed[g][i2] /\ (g = h => i2 # n)
      BY <1>4
    <2> HIDE DEF i2
    <2>2. fut[handed[g][i2]] = "running" /\ handed[g][i2] \in Jobs
      BY <1>t, <2>1, JobTypes DEF JobInv
    <2>3. handed[g][i2] = handed[h][n] => g = h /\ i2 = n
      BY <2>1 DEF JobInv
    <2> QED
      BY <1>1, <1>t, <2>1, <2>2, <2>3 DEF j
  <1>6. \A g, f \in Gens : \A i \in 1 .. Len(handed'[g]), m \in 1 .. Len(handed'[f]) :
          handed'[g][i] = handed'[f][m] => g = f /\ i = m
    <2> TAKE g \in Gens, f \in Gens
    <2> TAKE i \in 1 .. Len(handed'[g]), m \in 1 .. Len(handed'[f])
    <2> HAVE handed'[g][i] = handed'[f][m]
    <2> DEFINE i2 == IF g = h /\ i >= n THEN i + 1 ELSE i
               m2 == IF f = h /\ m >= n THEN m + 1 ELSE m
    <2>1. i2 \in 1 .. Len(handed[g]) /\ m2 \in 1 .. Len(handed[f]) /\ handed[g][i2] = handed[f][m2]
      BY <1>4
    <2>2. g = f /\ i2 = m2
      BY <2>1 DEF JobInv
    <2>3. i \in Int /\ m \in Int
      OBVIOUS
    <2> QED
      BY <1>3, <2>2, <2>3
  <1>7. \A g \in Gens : \A i \in 1 .. Len(pending[g]) : fut'[pending[g][i]] \in {"queued", "cancelled"}
    BY <1>1, <1>2, <1>t, JobTypes DEF JobInv
  <1> QED
    BY <1>1, <1>5, <1>6, <1>7 DEF JobInv

\* A shut down pool forgets what it has not handed over, a broken one all.
LEMMA JobInvFlush ==
  ASSUME TypeOK, JobInv, NEW h \in Gens, PoolFlush(h) \/ PoolBreak(h)
  PROVE  JobInv'
  <1>t. /\ PoolTypeOK /\ fut \in [Jobs -> FutureState]
        /\ pending \in [Gens -> Seq(Jobs)] /\ handed \in [Gens -> Seq(Jobs)]
    BY DEF TypeOK, PoolTypeOK
  <1>1. \A g \in Gens : pending'[g] = IF g = h THEN <<>> ELSE pending[g]
    BY <1>t DEF PoolFlush, PoolBreak
  <1>2. Len(<<>>) = 0
    OBVIOUS
  <1>3. \A g \in Gens : \A i \in 1 .. Len(pending'[g]) : g # h /\ pending'[g] = pending[g]
    BY <1>1, <1>2
  <1>4. ASSUME NEW g \in Gens, NEW i \in 1 .. Len(pending[g]), g # h
        PROVE  pending[g][i] \notin JobsOf(h)
    <2>1. \A m \in 1 .. Len(pending[h]) : pending[h][m] # pending[g][i]
      BY <1>4 DEF JobInv
    <2>2. \A m \in 1 .. Len(handed[h]) : handed[h][m] # pending[g][i]
      BY DEF JobInv
    <2> QED
      BY <2>1, <2>2 DEF JobsOf
  <1>5. \A g \in Gens : \A i \in 1 .. Len(pending'[g]) : fut'[pending'[g][i]] \in {"queued", "cancelled"}
    <2> TAKE g \in Gens
    <2> TAKE i \in 1 .. Len(pending'[g])
    <2>1. g # h /\ pending'[g] = pending[g] /\ i \in 1 .. Len(pending[g])
      BY <1>3
    <2>2. pending[g][i] \in Jobs /\ pending[g][i] \notin JobsOf(h)
      BY <1>t, <1>4, <2>1, JobTypes
    <2>3. fut'[pending[g][i]] = fut[pending[g][i]]
      BY <2>2 DEF PoolFlush, PoolBreak
    <2>4. fut[pending[g][i]] \in {"queued", "cancelled"}
      BY <2>1 DEF JobInv
    <2> QED
      BY <2>1, <2>3, <2>4
  <1>6. \A g, f \in Gens : \A i \in 1 .. Len(pending'[g]), m \in 1 .. Len(pending'[f]) :
          pending'[g][i] = pending'[f][m] => g = f /\ i = m
    BY <1>3 DEF JobInv
  <1>7. CASE PoolFlush(h)
    <2>1. UNCHANGED handed /\ \A j \in Jobs : fut[j] = "running" => fut'[j] = "running"
      BY <1>7 DEF PoolFlush
    <2>2. \A g \in Gens : \A i \in 1 .. Len(handed[g]) : fut'[handed[g][i]] = "running"
      BY <1>t, <2>1, JobTypes DEF JobInv
    <2> QED
      BY <1>5, <1>6, <2>1, <2>2 DEF JobInv
  <1>8. CASE PoolBreak(h)
    <2>1. \A g \in Gens : handed'[g] = IF g = h THEN <<>> ELSE handed[g]
      BY <1>8, <1>t DEF PoolBreak
    <2>2. \A g \in Gens : \A i \in 1 .. Len(handed'[g]) : g # h /\ handed'[g] = handed[g]
      BY <1>2, <2>1
    <2>3. ASSUME NEW g \in Gens, NEW i \in 1 .. Len(handed[g]), g # h
          PROVE  handed[g][i] \notin JobsOf(h)
      <3>1. \A m \in 1 .. Len(pending[h]) : pending[h][m] # handed[g][i]
        BY DEF JobInv
      <3>2. \A m \in 1 .. Len(handed[h]) : handed[h][m] # handed[g][i]
        BY <2>3 DEF JobInv
      <3> QED
        BY <3>1, <3>2 DEF JobsOf
    <2>4. \A g \in Gens : \A i \in 1 .. Len(handed'[g]) : fut'[handed'[g][i]] = "running"
      <3> TAKE g \in Gens
      <3> TAKE i \in 1 .. Len(handed'[g])
      <3>1. g # h /\ handed'[g] = handed[g] /\ i \in 1 .. Len(handed[g])
        BY <2>2
      <3>2. handed[g][i] \in Jobs /\ handed[g][i] \notin JobsOf(h)
        BY <1>t, <2>3, <3>1, JobTypes
      <3>3. fut'[handed[g][i]] = fut[handed[g][i]]
        BY <1>8, <3>2 DEF PoolBreak
      <3>4. fut[handed[g][i]] = "running"
        BY <3>1 DEF JobInv
      <3> QED
        BY <3>1, <3>3, <3>4
    <2>5. \A g, f \in Gens : \A i \in 1 .. Len(handed'[g]), m \in 1 .. Len(handed'[f]) :
            handed'[g][i] = handed'[f][m] => g = f /\ i = m
      BY <2>2 DEF JobInv
    <2> QED
      BY <1>5, <1>6, <2>4, <2>5 DEF JobInv
  <1> QED
    BY <1>7, <1>8

LEMMA JobInvStep == TypeOK /\ JobInv /\ [Next]_vars => JobInv'
  <1> SUFFICES ASSUME TypeOK, JobInv, [Next]_vars
               PROVE  JobInv'
    OBVIOUS
  <1>1. CASE UNCHANGED <<pending, handed, fut>>
    BY <1>1 DEF JobInv
  <1>2. ASSUME NEW J \in SUBSET Jobs, fut' = WithCancelled(J), UNCHANGED <<pending, handed>>
        PROVE  JobInv'
    <2>1. \A j \in Jobs : /\ fut[j] \in {"queued", "cancelled"} => fut'[j] \in {"queued", "cancelled"}
                          /\ fut[j] = "running" => fut'[j] = "running"
      BY <1>2 DEF WithCancelled
    <2>2. \A g \in Gens : \A i \in 1 .. Len(pending[g]) : fut'[pending[g][i]] \in {"queued", "cancelled"}
      BY <2>1, JobTypes DEF JobInv, TypeOK
    <2>3. \A g \in Gens : \A i \in 1 .. Len(handed[g]) : fut'[handed[g][i]] = "running"
      BY <2>1, JobTypes DEF JobInv, TypeOK
    <2> QED
      BY <1>2, <2>2, <2>3 DEF JobInv
  <1>3. ASSUME NEW g \in Gens, NEW i \in 1 .. Procs, RunChunk(g, i)
        PROVE  JobInv'
    BY <1>3, RunChunkFinishes, JobInvFinish
  <1> QED
    BY <1>1, <1>2, <1>3, JobSplit, JobInvSubmit, JobInvHandOver, JobInvFlush

\* What a step can do to the future of a job.  A result stays.
LEMMA FutStep ==
  ASSUME TypeOK, JobInv, [Next]_vars, NEW j \in Jobs
  PROVE  /\ fut[j] \in Results \cup {"broken"} => fut'[j] = fut[j]
         /\ fut[j] = "none" => fut'[j] = "none" \/ \E k \in Callers, c \in Chunks : j = <<k, c>> /\ Submit(k, c)
         /\ fut'[j] = "done" /\ fut[j] # "done" =>
              \E g \in Gens : \E i \in 1 .. Procs : RunChunk(g, i) /\ handed[g][i] = j
  <1>t. PoolTypeOK /\ fut \in [Jobs -> FutureState]
    BY DEF TypeOK, PoolTypeOK
  <1> USE DEF Results
  <1>1. CASE UNCHANGED <<pending, handed, fut>>
    BY <1>1
  <1>2. ASSUME NEW k \in Callers, NEW c \in Chunks, Submit(k, c)
        PROVE  /\ fut[j] # "none" => fut'[j] = fut[j]
               /\ fut'[j] # fut[j] => j = <<k, c>>
               /\ fut'[j] = "done" => fut[j] = "done"
    <2>1. fut[<<k, c>>] = "none" /\ fut' = [fut EXCEPT ![<<k, c>>] = "queued"]
      BY <1>2 DEF Submit, NextToSubmit, PoolSubmit
    <2> QED
      BY <1>t, <2>1
  <1>3. ASSUME NEW J \in SUBSET Jobs, fut' = WithCancelled(J)
        PROVE  fut'[j] = fut[j] \/ (fut[j] = "queued" /\ fut'[j] = "cancelled")
    BY <1>3 DEF WithCancelled
  <1>4. ASSUME NEW g \in Gens, PoolHandOver(g)
        PROVE  fut'[j] = fut[j] \/ (fut[j] \in {"queued", "cancelled"} /\ fut'[j] \in {"notified", "running"})
    <2>1. pending[g] # <<>> /\ pending[g] \in Seq(Jobs)
      BY <1>4, <1>t, JobTypes DEF PoolHandOver
    <2>2. 1 \in 1 .. Len(pending[g])
      BY <2>1, EmptySeq
    <2>3. fut[Head(pending[g])] \in {"queued", "cancelled"}
      BY <2>2 DEF JobInv
    <2>4. \/ fut' = [fut EXCEPT ![Head(pending[g])] = "notified"]
          \/ fut' = [fut EXCEPT ![Head(pending[g])] = "running"]
      BY <1>4 DEF PoolHandOver
    <2> QED
      BY <1>t, <2>3, <2>4
  <1>5. ASSUME NEW g \in Gens, NEW i \in 1 .. Procs, RunChunk(g, i)
        PROVE  fut'[j] = fut[j] \/ (fut[j] = "running" /\ fut'[j] \in Results /\ handed[g][i] = j)
    <2>1. PICK r \in Results : PoolFinish(g, i, r)
      BY <1>5, RunChunkFinishes
    <2>2. fut' = [fut EXCEPT ![handed[g][i]] = r]
      BY <2>1 DEF PoolFinish
    <2>3. fut[handed[g][i]] = "running"
      BY <1>5, RunChunkFinishes DEF JobInv
    <2> QED
      BY <1>t, <2>2, <2>3
  <1>6. ASSUME NEW g \in Gens, PoolFlush(g) \/ PoolBreak(g)
        PROVE  fut'[j] = fut[j] \/ (fut[j] \in {"queued", "running"} /\ fut'[j] \in {"cancelled", "broken"})
    BY <1>6 DEF PoolFlush, PoolBreak
  <1> QED
    BY <1>1, <1>2, <1>3, <1>4, <1>5, <1>6, JobSplit

\* Only a process that runs a chunk changes records.
LEMMA RecordsFixed ==
  ASSUME [Next]_vars
  PROVE  /\ UNCHANGED block
         /\ UNCHANGED records \/ \E g \in Gens : \E i \in 1 .. Procs : RunChunk(g, i)
  <1>1. CASE UNCHANGED vars \/ Over
    BY <1>1 DEF vars, Over
  <1>2. ASSUME NEW k \in Callers, CallerStep(k) \/ Expire(k) \/ Interrupt(k)
        PROVE  UNCHANGED block /\ UNCHANGED records
    BY <1>2 DEF CallerStep, Submitting, Waiting, Joining, Committing, TakePool, Submit,
         SubmitRaises, PickleFails, Drained, WaitReturns, TimesOut, WaitsForRest, RestReturns,
         CommitPrefix, JoinAll, GatherFails, JoinError, CommitOne, Committed, Twin, Expire,
         Interrupt
  <1>3. ASSUME NEW g \in Gens, PoolStep(g) \/ Break(g)
        PROVE  /\ UNCHANGED block
               /\ UNCHANGED records \/ \E i \in 1 .. Procs : RunChunk(g, i)
    BY <1>3 DEF PoolStep, HandOver, Flush, Break, RunChunk, callers
  <1> QED
    BY <1>1, <1>2, <1>3 DEF Next

\* The record of a chunk is written once, by the process that ran it.
LEMMA RecordSplit ==
  ASSUME TypeOK, JobInv, [Next]_vars, NEW k \in Callers, NEW c \in Chunks
  PROVE  \/ /\ at'[k][c] = at[k][c] /\ stop'[k][c] = stop[k][c]
            /\ fut'[<<k, c>>] = "done" => fut[<<k, c>>] = "done"
         \/ /\ fut[<<k, c>>] = "running"
            /\ \E p \in Lo(c) .. Hi(c), s \in {"none", "error", "deadline"} :
                 ChunkEnds(k, c, p, s) /\ at'[k][c] = p /\ stop'[k][c] = s
  <1>t. at \in [Callers -> [Chunks -> 0 .. N]]
        /\ stop \in [Callers -> [Chunks -> {"none", "error", "deadline"}]]
    BY DEF TypeOK
  <1>j. <<k, c>> \in Jobs
    BY DEF Jobs
  <1>1. CASE ~ \E g \in Gens : \E i \in 1 .. Procs : RunChunk(g, i)
    BY <1>1, <1>j, RecordsFixed, FutStep DEF records
  <1>2. ASSUME NEW g \in Gens, NEW i \in 1 .. Procs, RunChunk(g, i)
        PROVE  \/ /\ at'[k][c] = at[k][c] /\ stop'[k][c] = stop[k][c]
                  /\ fut'[<<k, c>>] = "done" => fut[<<k, c>>] = "done"
               \/ /\ fut[<<k, c>>] = "running"
                  /\ \E p \in Lo(c) .. Hi(c), s \in {"none", "error", "deadline"} :
                       ChunkEnds(k, c, p, s) /\ at'[k][c] = p /\ stop'[k][c] = s
    <2>1. PICK l \in Callers, d \in Chunks : handed[g][i] = <<l, d>>
      BY <1>2, RunChunkFinishes DEF Jobs
    <2>2. fut[<<l, d>>] = "running"
      BY <1>2, <2>1, RunChunkFinishes DEF JobInv
    <2>3. \/ UNCHANGED records /\ \E r \in {"unreadable", "unsendable"} : PoolFinish(g, i, r)
          \/ /\ PoolFinish(g, i, "done")
             /\ \E p \in Lo(d) .. Hi(d), s \in {"none", "error", "deadline"} :
                  /\ ChunkEnds(l, d, p, s)
                  /\ at' = [at EXCEPT ![l][d] = p]
                  /\ stop' = [stop EXCEPT ![l][d] = s]
      BY <1>2, <2>1 DEF RunChunk
    <2>t. fut \in [Jobs -> FutureState]
      BY DEF TypeOK, PoolTypeOK
    <2>4. ASSUME NEW r, PoolFinish(g, i, r)
          PROVE  fut' = [fut EXCEPT ![<<l, d>>] = r]
      BY <2>1, <2>4 DEF PoolFinish
    <2>5. CASE UNCHANGED records /\ \E r \in {"unreadable", "unsendable"} : PoolFinish(g, i, r)
      BY <1>j, <2>4, <2>5, <2>t DEF records
    <2>6. ASSUME NEW p \in Lo(d) .. Hi(d), NEW s \in {"none", "error", "deadline"},
                 PoolFinish(g, i, "done"), ChunkEnds(l, d, p, s),
                 at' = [at EXCEPT ![l][d] = p], stop' = [stop EXCEPT ![l][d] = s]
          PROVE  \/ /\ at'[k][c] = at[k][c] /\ stop'[k][c] = stop[k][c]
                    /\ fut'[<<k, c>>] = "done" => fut[<<k, c>>] = "done"
                 \/ /\ fut[<<k, c>>] = "running"
                    /\ \E q \in Lo(c) .. Hi(c), r \in {"none", "error", "deadline"} :
                         ChunkEnds(k, c, q, r) /\ at'[k][c] = q /\ stop'[k][c] = r
      <3>1. CASE k = l /\ c = d
        <4>1. at'[k][c] = p /\ stop'[k][c] = s
          BY <1>t, <2>6, <3>1
        <4> QED
          BY <2>2, <2>6, <3>1, <4>1
      <3>2. CASE ~(k = l /\ c = d)
        <4>1. at'[k][c] = at[k][c] /\ stop'[k][c] = stop[k][c]
          BY <1>t, <2>6, <3>2
        <4>2. <<k, c>> # <<l, d>>
          BY <3>2
        <4>3. fut'[<<k, c>>] = fut[<<k, c>>]
          BY <1>j, <2>4, <2>6, <2>t, <4>2
        <4> QED
          BY <4>1, <4>3
      <3> QED
        BY <3>1, <3>2
    <2> QED
      BY <2>3, <2>5, <2>6
  <1> QED
    BY <1>1, <1>2

\* Records, step by step.
LEMMA RecordStep == TypeOK /\ JobInv /\ RecordInv /\ [Next]_vars => RecordInv'
  <1> SUFFICES ASSUME TypeOK, JobInv, RecordInv, [Next]_vars, NEW k \in Callers, NEW c \in Chunks
               PROVE  /\ c < First(k)' => fut'[<<k, c>>] = "none"
                      /\ at'[k][c] \in Lo(c) .. Hi(c)
                      /\ c \in ProbeRecord(k)' => at'[k][c] = Hi(0)
                      /\ fut'[<<k, c>>] = "done" /\ stop'[k][c] = "none" => at'[k][c] = Hi(c)
                      /\ stop'[k][c] = "error" => at'[k][c] \in block'[k].raises
    BY DEF RecordInv
  <1>b. UNCHANGED block /\ First(k)' = First(k) /\ ProbeRecord(k)' = ProbeRecord(k)
    BY RecordsFixed DEF First, ProbeRecord
  <1>r. /\ c < First(k) => fut[<<k, c>>] = "none"
        /\ at[k][c] \in Lo(c) .. Hi(c)
        /\ c \in ProbeRecord(k) => at[k][c] = Hi(0)
        /\ fut[<<k, c>>] = "done" /\ stop[k][c] = "none" => at[k][c] = Hi(c)
        /\ stop[k][c] = "error" => at[k][c] \in block[k].raises
    BY DEF RecordInv
  <1>1. c < First(k) => fut'[<<k, c>>] = "none"
    <2> SUFFICES ASSUME c < First(k), fut'[<<k, c>>] # "none"
                 PROVE  FALSE
      OBVIOUS
    <2>1. <<k, c>> \in Jobs
      BY DEF Jobs
    <2>2. PICK l \in Callers, d \in Chunks : <<k, c>> = <<l, d>> /\ Submit(l, d)
      BY <1>r, <2>1, FutStep
    <2>3. d >= First(l) /\ k = l /\ c = d
      BY <2>2 DEF Submit, NextToSubmit, Rest
    <2>4. c \in Nat /\ First(k) \in Nat
      BY ChunkBounds DEF First
    <2> QED
      BY <2>3, <2>4
  <1>2. c \in ProbeRecord(k) => c < First(k)
    BY DEF ProbeRecord, First
  <1>3. CASE /\ at'[k][c] = at[k][c] /\ stop'[k][c] = stop[k][c]
             /\ fut'[<<k, c>>] = "done" => fut[<<k, c>>] = "done"
    BY <1>b, <1>r, <1>1, <1>3
  <1>4. ASSUME fut[<<k, c>>] = "running", NEW p \in Lo(c) .. Hi(c),
               NEW s \in {"none", "error", "deadline"}, ChunkEnds(k, c, p, s),
               at'[k][c] = p, stop'[k][c] = s
        PROVE  /\ at'[k][c] \in Lo(c) .. Hi(c)
               /\ c \notin ProbeRecord(k)
               /\ fut'[<<k, c>>] = "done" /\ stop'[k][c] = "none" => at'[k][c] = Hi(c)
               /\ stop'[k][c] = "error" => at'[k][c] \in block[k].raises
    BY <1>r, <1>2, <1>4 DEF ChunkEnds
  <1> QED
    BY <1>b, <1>1, <1>3, <1>4, RecordSplit

-----------------------------------------------------------------------------
(***************************************************************************)
(* A caller, step by step.                                                 *)
(***************************************************************************)
Local(k) == <<pc[k], gen[k], done[k], todo[k], log[k], outcome[k], errorAt[k]>>

\* A caller's own steps are the only ones that change where it is.
LEMMA LocalSplit ==
  ASSUME TypeOK, [Next]_vars, NEW k \in Callers
  PROVE  UNCHANGED Local(k) \/ CallerStep(k) \/ Interrupt(k)
  <1> USE DEF Local
  <1>t. /\ pc = [l \in Callers |-> pc[l]] /\ gen = [l \in Callers |-> gen[l]]
        /\ done = [l \in Callers |-> done[l]] /\ todo = [l \in Callers |-> todo[l]]
        /\ log = [l \in Callers |-> log[l]] /\ outcome = [l \in Callers |-> outcome[l]]
        /\ errorAt = [l \in Callers |-> errorAt[l]]
    BY DEF TypeOK
  <1>1. CASE UNCHANGED vars \/ Over
    BY <1>1 DEF vars, Over, result
  <1>2. ASSUME NEW l \in Callers, l # k
        PROVE  CallerStep(l) => UNCHANGED Local(k)
    <2>e. ASSUME NEW label, Goto(l, label) PROVE pc'[k] = pc[k]
      BY <1>2, <1>t, <2>e DEF Goto
    <2>o. ASSUME NEW o, Decide(l, o) PROVE outcome'[k] = outcome[k]
      BY <1>2, <1>t, <2>o DEF Decide
    <2>c. ASSUME NEW R, Commit(l, R) PROVE pc'[k] = pc[k] /\ todo'[k] = todo[k]
      BY <1>2, <1>t, <2>c, <2>e DEF Commit
    <2>f. ASSUME Fallback(l) PROVE pc'[k] = pc[k] /\ todo'[k] = todo[k] /\ outcome'[k] = outcome[k]
      BY <2>e, <2>o, <2>c, <2>f DEF Fallback, End
    <2>1. TakePool(l) => UNCHANGED Local(k)
      BY <1>2, <1>t, <2>e, <2>f DEF TakePool
    <2>2. Submitting(l) => UNCHANGED Local(k)
      BY <2>e, <2>o DEF Submitting, Submit, SubmitRaises, PickleFails, End, result
    <2>3. Drained(l) => UNCHANGED Local(k)
      BY <2>f DEF Drained
    <2>4. Waiting(l) => UNCHANGED Local(k)
      BY <1>2, <1>t, <2>e DEF Waiting, WaitReturns, TimesOut, WaitsForRest, RestReturns, result
    <2>5. CommitPrefix(l) \/ JoinAll(l) => UNCHANGED Local(k)
      BY <2>c, <2>o DEF CommitPrefix, JoinAll
    <2>6. ASSUME NEW c \in Chunks PROVE GatherFails(l, c) => UNCHANGED Local(k)
      BY <2>e, <2>o, <2>f DEF GatherFails, End
    <2>7. ASSUME NEW c \in Chunks PROVE JoinError(l, c) => UNCHANGED Local(k)
      BY <1>2, <1>t, <2>c, <2>o DEF JoinError
    <2>8. Committing(l) => UNCHANGED Local(k)
      BY <1>2, <1>t, <2>e DEF Committing, CommitOne, Committed, result
    <2>9. Twin(l) => UNCHANGED Local(k)
      BY <1>2, <1>t, <2>e, <2>o DEF Twin
    <2> QED
      BY <2>1, <2>2, <2>3, <2>4, <2>5, <2>6, <2>7, <2>8, <2>9 DEF CallerStep, Joining
  <1>3. ASSUME NEW l \in Callers, l # k, Interrupt(l)
        PROVE  UNCHANGED Local(k)
    BY <1>3, <1>t DEF Interrupt, End, Goto, Decide
  <1>4. ASSUME NEW l \in Callers, Expire(l)
        PROVE  UNCHANGED Local(k)
    BY <1>4 DEF Expire, result
  <1>5. ASSUME NEW g \in Gens, PoolStep(g) \/ Break(g)
        PROVE  UNCHANGED Local(k)
    BY <1>5 DEF PoolStep, HandOver, Flush, Break, RunChunk, callers, result
  <1> QED
    BY <1>1, <1>2, <1>3, <1>4, <1>5 DEF Next

\* What a block is does not change, nor what follows from it; results stay.
LEMMA Stays ==
  ASSUME IInv, [Next]_vars, NEW k \in Callers
  PROVE  /\ UNCHANGED block
         /\ First(k)' = First(k) /\ Rest(k)' = Rest(k) /\ ProbeRecord(k)' = ProbeRecord(k)
         /\ Resume(k)' = Resume(k) /\ Base(k)' = Base(k)
         /\ Settled(k) \subseteq Settled(k)'
         /\ \A c \in Chunks : fut[<<k, c>>] = "done" =>
              fut'[<<k, c>>] = "done" /\ at'[k][c] = at[k][c]
         /\ pc[k] = "commit" => \A c \in todo[k] : at'[k][c] = at[k][c]
  <1>1. UNCHANGED block
    BY RecordsFixed
  <1>2. /\ First(k)' = First(k) /\ Rest(k)' = Rest(k) /\ ProbeRecord(k)' = ProbeRecord(k)
        /\ Resume(k)' = Resume(k) /\ Base(k)' = Base(k)
    BY <1>1 DEF First, Rest, ProbeRecord, Resume, Base
  <1>j. \A c \in Chunks : <<k, c>> \in Jobs
    BY DEF Jobs
  <1>3. Settled(k) \subseteq Settled(k)'
    BY <1>j, FutStep DEF IInv, Settled
  <1>4. \A c \in Chunks : fut[<<k, c>>] = "done" => fut'[<<k, c>>] = "done"
    BY <1>j, FutStep DEF IInv, Results
  <1>5. \A c \in Chunks : fut[<<k, c>>] # "running" => at'[k][c] = at[k][c]
    BY RecordSplit DEF IInv
  <1>6. ASSUME pc[k] = "commit", NEW c \in todo[k]
        PROVE  at'[k][c] = at[k][c]
    <2>1. c \in Chunks
      BY DEF IInv, TypeOK
    <2>2. CASE fut[<<k, c>>] = "done"
      BY <1>5, <2>1, <2>2
    <2>3. CASE c \in ProbeRecord(k)
      <3>1. c < First(k)
        BY <2>3 DEF ProbeRecord, First
      <3>2. fut[<<k, c>>] = "none"
        BY <2>1, <3>1 DEF IInv, RecordInv
      <3> QED
        BY <1>5, <2>1, <3>2
    <2> QED
      BY <1>6, <2>2, <2>3 DEF IInv, CallsInv, WaitInv
  <1> QED
    BY <1>1, <1>2, <1>3, <1>4, <1>5, <1>6

\* A caller's place when it falls back, or ends at once.
LEMMA FallbackSplit ==
  ASSUME TypeOK, NEW k \in Callers, Fallback(k)
  PROVE  \/ /\ pc'[k] = "end" /\ outcome'[k] = "refused" /\ todo'[k] = todo[k]
         \/ /\ pc'[k] = "commit" /\ outcome'[k] = outcome[k] /\ todo'[k] = ProbeRecord(k)
  BY DEF TypeOK, Fallback, End, Commit, Goto, Decide

\* What the waits reported.
LEMMA WaitStep ==
  ASSUME IInv, [Next]_vars, NEW k \in Callers
  PROVE  WaitInv(k)'
  <1>t. /\ TypeOK /\ WaitInv(k)
        /\ pc = [l \in Callers |-> pc[l]] /\ done = [l \in Callers |-> done[l]]
        /\ todo = [l \in Callers |-> todo[l]] /\ outcome = [l \in Callers |-> outcome[l]]
    BY DEF IInv, CallsInv, TypeOK
  <1>s. /\ Rest(k)' = Rest(k) /\ ProbeRecord(k)' = ProbeRecord(k)
        /\ Settled(k) \subseteq Settled(k)'
        /\ \A c \in Chunks : fut[<<k, c>>] = "done" => fut'[<<k, c>>] = "done"
        /\ done[k] \subseteq Settled(k)' /\ done[k] \subseteq Chunks /\ todo[k] \subseteq Chunks
    BY <1>t, Stays DEF WaitInv, TypeOK
  <1> USE DEF WaitInv
  <1>1. CASE UNCHANGED Local(k)
    BY <1>1, <1>s, <1>t DEF Local
  <1>2. CASE TakePool(k)
    <2>1. done'[k] = done[k] /\ done[k] = {} /\ outcome[k] = "none"
      BY <1>2, <1>t DEF TakePool
    <2>2. CASE Fallback(k)
      BY <1>s, <1>t, <2>1, <2>2, FallbackSplit
    <2>3. CASE Goto(k, "submit") /\ UNCHANGED <<todo, outcome>>
      BY <1>s, <1>t, <2>1, <2>3 DEF Goto
    <2> QED
      BY <1>2, <2>2, <2>3 DEF TakePool
  <1>3. ASSUME NEW c \in Chunks, Submit(k, c) \/ PickleFails(k, c)
        PROVE  WaitInv(k)'
    BY <1>3, <1>s, <1>t DEF Submit, PickleFails, NextToSubmit, Goto, result
  <1>4. ASSUME NEW c \in Chunks, SubmitRaises(k, c)
        PROVE  WaitInv(k)'
    BY <1>4, <1>s, <1>t DEF SubmitRaises, NextToSubmit, End, Goto, Decide
  <1>5. CASE Drained(k)
    <2>1. done'[k] = done[k] /\ outcome[k] = "none" /\ Fallback(k)
      BY <1>5, <1>t DEF Drained
    <2> QED
      BY <1>s, <1>t, <2>1, FallbackSplit
  <1>6. CASE WaitReturns(k)
    BY <1>6, <1>s, <1>t DEF WaitReturns, Goto, result
  <1>7. CASE TimesOut(k)
    BY <1>7, <1>s, <1>t DEF TimesOut, Goto, result
  <1>8. CASE WaitsForRest(k)
    BY <1>8, <1>s, <1>t DEF WaitsForRest, Goto, result
  <1>9. CASE RestReturns(k)
    BY <1>9, <1>s, <1>t DEF RestReturns, Goto, result
  <1>10. ASSUME NEW c \in Chunks, GatherFails(k, c)
         PROVE  WaitInv(k)'
    <2>1. done'[k] = done[k] /\ outcome[k] = "none"
      BY <1>10, <1>t DEF GatherFails, Gathering
    <2>2. CASE End(k, "crashed")
      BY <1>s, <1>t, <2>1, <2>2 DEF End, Goto, Decide
    <2>3. CASE Fallback(k)
      BY <1>s, <1>t, <2>1, <2>3, FallbackSplit
    <2> QED
      BY <1>10, <2>2, <2>3 DEF GatherFails
  <1>g. Gathered(k) => \A c \in done[k] : fut[<<k, c>>] = "done" /\ fut'[<<k, c>>] = "done"
    BY <1>s, <1>t DEF Gathered, Bad
  <1>11. CASE CommitPrefix(k)
    BY <1>11, <1>s, <1>t, <1>g DEF CommitPrefix, ContiguousPrefix, Commit, Goto, Decide
  <1>12. CASE JoinAll(k)
    BY <1>12, <1>s, <1>t, <1>g DEF JoinAll, Joinable, Joined, Commit, Goto, Decide
  <1>13. ASSUME NEW c \in Chunks, JoinError(k, c)
         PROVE  WaitInv(k)'
    BY <1>13, <1>s, <1>t, <1>g DEF JoinError, Joinable, Joined, Commit, Goto, Decide
  <1>14. ASSUME NEW c \in Chunks, CommitOne(k, c)
         PROVE  WaitInv(k)'
    BY <1>14, <1>s, <1>t DEF CommitOne
  <1>15. CASE Committed(k)
    BY <1>15, <1>s, <1>t DEF Committed, Goto, result
  <1>16. CASE Twin(k)
    <2>1. pc'[k] = "commit" /\ UNCHANGED <<todo, done>>
      BY <1>16, <1>t DEF Twin, Goto
    <2>2. todo[k] = {}
      BY <1>16 DEF Twin, IInv, CallsInv, ShowsInv
    <2> QED
      BY <1>s, <1>t, <2>1, <2>2
  <1>17. CASE Interrupt(k)
    BY <1>17, <1>s, <1>t DEF Interrupt, End, Goto, Decide
  <1> QED
    BY <1>1, <1>2, <1>3, <1>4, <1>5, <1>6, <1>7, <1>8, <1>9, <1>10, <1>11, <1>12, <1>13,
       <1>14, <1>15, <1>16, <1>17, <1>t, LocalSplit
    DEF CallerStep, Submitting, Waiting, Joining, Committing

-----------------------------------------------------------------------------
(***************************************************************************)
(* What the containers of a caller show, step by step.                     *)
(***************************************************************************)
\* The first chunk whose record is joined, or the last one left out.
Start(k) == IF block[k].probed = "twin" THEN 1 ELSE 0

\* The chunks that are joined follow on what the probe left.
LEMMA StartBase ==
  ASSUME TypeOK, NEW k \in Callers
  PROVE  /\ Start(k) \in 0 .. NBounds
         /\ Base(k) = Bound(Start(k))
         /\ Rest(k) \cup ProbeRecord(k) = Start(k) .. NBounds - 1
         /\ block[k].probed # "chunk" => First(k) = Start(k)
         /\ block[k].probed \in {"no", "twin", "chunk"}
  <1>1. block[k].probed \in {"no", "twin", "chunk"}
    BY ProcessAssumption DEF TypeOK, BlockType
  <1>2. Bound(0) = 0 /\ Bound(1) = Hi(0)
    BY BoundValues, ChunkBounds
  <1>3. NBounds \in Nat \ {0}
    BY NBoundsCover
  <1> QED
    BY <1>1, <1>2, <1>3 DEF Start, Base, Rest, ProbeRecord, First, Chunks

\* Committing chunk m, run to its end, after the chunks below it.
LEMMA CommitChunk ==
  ASSUME NEW m \in Chunks
  PROVE  /\ Extend(Iota(Bound(m)), Lo(m), Hi(m)) = Iota(Bound(m + 1))
         /\ m + 1 \in 0 .. NBounds
  <1>1. Lo(m) = Bound(m) /\ Hi(m) = Bound(m + 1) /\ Lo(m) \in Nat /\ Hi(m) \in Nat /\ Lo(m) < Hi(m)
    BY BoundValues, ChunkBounds
  <1>2. m + 1 \in 0 .. NBounds
    BY NBoundsCover DEF Chunks
  <1> QED
    BY <1>1, <1>2, ExtendIota

\* Falling back: the probe's record, or nothing, is left to commit.
LEMMA FallbackShows ==
  ASSUME IInv, [Next]_vars, NEW k \in Callers, pc[k] \notin {"commit", "twin", "end"},
         Fallback(k), log'[k] = log[k]
  PROVE  ShowsInv(k)'
  <1>1. TypeOK /\ outcome[k] = "none" /\ log[k] = Iota(Base(k))
    BY DEF IInv, CallsInv, WaitInv, ShowsInv
  <1>2. UNCHANGED block /\ Resume(k)' = Resume(k)
    BY Stays
  <1>3. CASE pc'[k] = "end" /\ outcome'[k] = "refused"
    BY <1>3 DEF ShowsInv, Ended, Killed
  <1>4. CASE pc'[k] = "commit" /\ outcome'[k] = "none" /\ todo'[k] = ProbeRecord(k)
    <2>1. \/ todo'[k] = {} /\ log'[k] = Iota(Resume(k))
          \/ todo'[k] = {0} /\ block'[k].probed = "chunk" /\ log'[k] = <<>>
      BY <1>1, <1>2, <1>4, StartBase, IotaZero DEF ProbeRecord, Base, Resume
    <2> QED
      BY <1>2, <1>4, <2>1 DEF ShowsInv, Ended, Killed
  <1> QED
    BY <1>1, <1>3, <1>4, FallbackSplit

\* Joining: the records of the chunks the loop would have run, in order.
LEMMA JoinShows ==
  ASSUME IInv, [Next]_vars, NEW k \in Callers, Joinable(k), NEW e \in Chunks,
         Start(k) <= e, \A d \in done[k] : d < e => d \in Clean(k),
         todo'[k] = {d \in Joined(k) : d <= e}, log'[k] = log[k]
  PROVE  Follow(k, Start(k), e)' /\ Start(k)' = Start(k)
  <1>1. TypeOK /\ done[k] = Rest(k) /\ log[k] = Iota(Base(k)) /\ done[k] \subseteq Settled(k)
    BY DEF IInv, CallsInv, WaitInv, ShowsInv, Joinable
  <1>2. Start(k)' = Start(k)
    BY Stays DEF Start
  <1>3. Start(k) \in Nat /\ NBounds \in Nat /\ e \in Nat /\ e <= NBounds - 1
    BY <1>1, StartBase, NBoundsCover, ChunkBounds DEF Chunks
  <1>4. todo'[k] = Start(k) .. e
    BY <1>1, <1>3, StartBase DEF Joined
  <1>5. ASSUME NEW c \in Start(k) .. e - 1
        PROVE  at'[k][c] = Hi(c)
    <2>1. c \in Chunks /\ c < e /\ c \in Rest(k) \cup ProbeRecord(k)
      BY <1>1, <1>3, StartBase DEF Chunks
    <2>2. CASE c \in Rest(k)
      <3>1. fut[<<k, c>>] = "done" /\ stop[k][c] = "none"
        BY <1>1, <2>1, <2>2 DEF Joinable, Gathered, Bad, Clean
      <3>2. at[k][c] = Hi(c)
        BY <2>1, <3>1 DEF IInv, RecordInv
      <3> QED
        BY <2>1, <3>1, <3>2, Stays
    <2>3. CASE c \in ProbeRecord(k)
      <3>1. c = 0 /\ at[k][c] = Hi(0) /\ fut[<<k, c>>] # "running"
        BY <2>1, <2>3 DEF IInv, RecordInv, ProbeRecord, First
      <3>2. at'[k][c] = at[k][c]
        BY <2>1, <3>1, RecordSplit DEF IInv
      <3> QED
        BY <3>1, <3>2
    <2> QED
      BY <2>1, <2>2, <2>3
  <1> QED
    BY <1>1, <1>2, <1>4, <1>5, StartBase DEF Follow

\* The timeout's commit: what the wait reported follows on the probe.
LEMMA PrefixShows ==
  ASSUME IInv, [Next]_vars, NEW k \in Callers, CommitPrefix(k)
  PROVE  ShowsInv(k)'
  <1>1. /\ TypeOK /\ log[k] = Iota(Base(k)) /\ done[k] \subseteq Settled(k)
        /\ pc'[k] = "commit" /\ outcome'[k] = "timeout" /\ log'[k] = log[k]
        /\ todo'[k] = ContiguousPrefix(done[k], Clean(k)) /\ done'[k] = done[k]
    BY DEF IInv, CallsInv, WaitInv, ShowsInv, CommitPrefix, Commit, Goto, Decide, TypeOK
  <1>2. UNCHANGED block /\ First(k)' = First(k)
    BY Stays
  <1>3. ASSUME block[k].probed # "chunk", First(k) \in done[k]
        PROVE  \E m \in 0 .. NBounds :
                 /\ log'[k] = Iota(Bound(m))
                 /\ \A c \in todo'[k] : /\ c >= m /\ at'[k][c] = Hi(c)
                                        /\ \A d \in m .. c : d \in todo'[k]
    <2>1. First(k) = Start(k) /\ Start(k) \in 0 .. NBounds /\ log'[k] = Iota(Bound(Start(k)))
      BY <1>1, <1>3, StartBase
    <2>2. ASSUME NEW c \in todo'[k]
          PROVE  /\ c >= First(k) /\ at'[k][c] = Hi(c)
                 /\ \A d \in First(k) .. c : d \in todo'[k]
      <3>1. c \in done[k] /\ c \in Chunks /\ c \in Nat /\ First(k) \in Nat
        BY <1>1, <2>1, <2>2, ChunkBounds DEF ContiguousPrefix, TypeOK, First
      <3>2. \A d \in 0 .. c : (\E f \in done[k] : f <= d) => d \in done[k] \cap Clean(k)
        BY <1>1, <2>2 DEF ContiguousPrefix
      <3>3. fut[<<k, c>>] = "done"
        BY <1>1, <3>1 DEF CommitPrefix, Gathered, Bad
      <3>4. c \in Clean(k)
        BY <3>1, <3>2
      <3>5. c >= First(k)
        BY <3>1, <3>3 DEF IInv, RecordInv
      <3>6. at[k][c] = Hi(c)
        BY <3>1, <3>3, <3>4 DEF IInv, RecordInv, Clean
      <3>7. ASSUME NEW d \in First(k) .. c
            PROVE  d \in todo'[k]
        <4>1. d \in 0 .. c /\ First(k) <= d
          BY <3>1
        <4>2. d \in done[k]
          BY <1>3, <3>2, <4>1
        <4>3. \A x \in 0 .. d : x \in 0 .. c
          BY <3>1, <4>1
        <4> QED
          BY <1>1, <3>2, <4>2, <4>3 DEF ContiguousPrefix
      <3> QED
        BY <3>1, <3>3, <3>5, <3>6, <3>7, Stays
    <2> QED
      BY <2>1, <2>2
  <1> QED
    BY <1>1, <1>2, <1>3 DEF ShowsInv, Ended, Killed

\* Committing the lowest record left.
LEMMA CommitOneShows ==
  ASSUME IInv, [Next]_vars, NEW k \in Callers, NEW c \in Chunks, CommitOne(k, c)
  PROVE  ShowsInv(k)'
  <1>1. /\ pc[k] = "commit" /\ pc'[k] = "commit" /\ outcome'[k] = outcome[k]
        /\ errorAt'[k] = errorAt[k] /\ done'[k] = done[k]
        /\ c \in todo[k] /\ todo'[k] = todo[k] \ {c} /\ \A d \in todo[k] : c <= d
        /\ log'[k] = Extend(log[k], Lo(c), at[k][c])
        /\ TypeOK /\ ShowsInv(k) /\ todo[k] \subseteq Chunks
    BY DEF CommitOne, IInv, CallsInv, TypeOK
  <1>2. /\ UNCHANGED block /\ First(k)' = First(k) /\ Rest(k)' = Rest(k) /\ Resume(k)' = Resume(k)
        /\ \A d \in todo[k] : at'[k][d] = at[k][d]
    BY <1>1, Stays
  <1>3. Chunks \subseteq Nat /\ NBounds \in Nat /\ Chunks = 0 .. NBounds - 1
    BY ChunkBounds, NBoundsCover DEF Chunks
  <1>c. ASSUME log[k] = Iota(Bound(c)), at[k][c] = Hi(c)
        PROVE  log'[k] = Iota(Bound(c + 1)) /\ c + 1 \in 0 .. NBounds
    BY <1>1, <1>c, CommitChunk
  <1>4. CASE outcome[k] = "none"
    <2>1. todo[k] = {0} /\ block[k].probed = "chunk" /\ log[k] = <<>> /\ c = 0
      BY <1>1, <1>4 DEF ShowsInv
    <2>2. at[k][c] = Hi(0) /\ Lo(c) = Bound(0) /\ Bound(0) = 0
      BY <2>1, BoundValues DEF IInv, RecordInv, ProbeRecord
    <2>3. log'[k] = Iota(Bound(1)) /\ Bound(1) = Hi(0)
      BY <1>c, <2>1, <2>2, IotaZero, BoundValues
    <2>4. todo'[k] = {} /\ log'[k] = Iota(Resume(k))
      BY <1>1, <2>1, <2>3 DEF Resume
    <2> QED
      BY <1>1, <1>2, <1>4, <2>4 DEF ShowsInv, Ended, Killed
  <1>5. CASE outcome[k] = "returned"
    <2>1. PICK m \in 0 .. NBounds : Follow(k, m, NBounds - 1) /\ \A d \in todo[k] : at[k][d] = Hi(d)
      BY <1>1, <1>5 DEF ShowsInv
    <2>2. c = m
      BY <1>1, <1>3, <2>1 DEF Follow
    <2>3. log'[k] = Iota(Bound(m + 1)) /\ m + 1 \in 0 .. NBounds
      BY <1>1, <1>c, <2>1, <2>2 DEF Follow
    <2>4. todo'[k] = m + 1 .. NBounds - 1
      BY <1>1, <1>3, <2>1, <2>2 DEF Follow
    <2>5. \A d \in todo'[k] : at'[k][d] = Hi(d)
      BY <1>1, <1>2, <2>1
    <2>6. \A d \in m + 1 .. (NBounds - 1) - 1 : at'[k][d] = Hi(d)
      BY <1>3, <2>4, <2>5
    <2>7. Follow(k, m + 1, NBounds - 1)'
      BY <2>3, <2>4, <2>6 DEF Follow
    <2> QED
      BY <1>1, <1>2, <1>5, <2>3, <2>5, <2>7 DEF ShowsInv, Ended, Killed
  <1>6. CASE outcome[k] = "error"
    <2>1. errorAt[k] \in block[k].raises /\ todo[k] # {}
      BY <1>1, <1>6 DEF ShowsInv
    <2>2. PICK e \in Chunks : \E m \in 0 .. e : Follow(k, m, e) /\ at[k][e] = errorAt[k]
      BY <1>1, <1>6, <2>1 DEF ShowsInv
    <2>3. PICK m \in 0 .. e : Follow(k, m, e) /\ at[k][e] = errorAt[k]
      BY <2>2
    <2>4. c = m /\ m \in Nat /\ e \in Nat /\ e \in todo[k]
      BY <1>1, <1>3, <2>3 DEF Follow
    <2>5. todo'[k] = m + 1 .. e
      BY <1>1, <2>3, <2>4 DEF Follow
    <2>6. CASE m = e
      <3>1. log'[k] = Extend(Iota(Bound(e)), Lo(e), errorAt[k])
        BY <1>1, <2>3, <2>4, <2>6 DEF Follow
      <3>2. Lo(e) = Bound(e) /\ Lo(e) \in Nat /\ errorAt[k] \in Nat /\ Lo(e) <= errorAt[k]
        <4>1. at[k][e] \in Lo(e) .. Hi(e) /\ Lo(e) \in Nat /\ Hi(e) \in Nat
          BY ChunkBounds DEF IInv, RecordInv
        <4> QED
          BY <2>3, <4>1, BoundValues
      <3>3. log'[k] = Iota(errorAt[k])
        BY <3>1, <3>2, ExtendIota
      <3>4. todo'[k] = {}
        BY <2>4, <2>5, <2>6
      <3> QED
        BY <1>1, <1>2, <1>6, <2>1, <3>3, <3>4 DEF ShowsInv, Ended, Killed
    <2>7. CASE m # e
      <3>1. at[k][c] = Hi(c) /\ log[k] = Iota(Bound(c))
        BY <2>3, <2>4, <2>7 DEF Follow
      <3>2. log'[k] = Iota(Bound(m + 1)) /\ m + 1 \in 0 .. e
        BY <1>c, <2>4, <2>7, <3>1
      <3>3. \A d \in m + 1 .. e - 1 : at'[k][d] = Hi(d)
        BY <1>2, <2>3, <2>4 DEF Follow
      <3>4. Follow(k, m + 1, e)' /\ at'[k][e] = errorAt'[k]
        BY <1>1, <1>2, <2>3, <2>4, <2>5, <3>2, <3>3 DEF Follow
      <3> QED
        BY <1>1, <1>2, <1>6, <2>1, <3>2, <3>4 DEF ShowsInv, Ended, Killed
    <2> QED
      BY <2>6, <2>7
  <1>7. CASE outcome[k] \notin {"none", "returned", "error"}
    <2>1. Killed(k)' <=> Killed(k)
      BY <1>1, <1>2 DEF Killed
    <2>2. ASSUME Killed(k)
          PROVE  \E m \in 0 .. NBounds :
                   /\ log'[k] = Iota(Bound(m))
                   /\ \A d \in todo'[k] : /\ d >= m /\ at'[k][d] = Hi(d)
                                          /\ \A x \in m .. d : x \in todo'[k]
      <3>1. PICK m \in 0 .. NBounds :
              /\ log[k] = Iota(Bound(m))
              /\ \A d \in todo[k] : /\ d >= m /\ at[k][d] = Hi(d)
                                    /\ \A x \in m .. d : x \in todo[k]
        BY <1>1, <2>2 DEF ShowsInv
      <3>2. c = m /\ c \in Nat
        <4>1. c >= m /\ c \in Nat /\ m \in Nat
          BY <1>1, <1>3, <3>1
        <4>2. m \in todo[k]
          BY <1>1, <3>1, <4>1
        <4> QED
          BY <1>1, <4>1, <4>2
      <3>3. log'[k] = Iota(Bound(c + 1)) /\ c + 1 \in 0 .. NBounds
        BY <1>1, <1>c, <3>1, <3>2
      <3>4. ASSUME NEW d \in todo'[k]
            PROVE  /\ d >= c + 1 /\ at'[k][d] = Hi(d)
                   /\ \A x \in c + 1 .. d : x \in todo'[k]
        <4>1. d \in todo[k] /\ d # c /\ d \in Nat /\ c <= d
          BY <1>1, <1>3
        <4>2. at'[k][d] = Hi(d)
          BY <1>2, <3>1, <4>1
        <4>3. ASSUME NEW x \in c + 1 .. d
              PROVE  x \in todo'[k]
          <5>1. x \in m .. d /\ x # c
            BY <3>2, <4>1
          <5> QED
            BY <1>1, <3>1, <4>1, <5>1
        <4> QED
          BY <3>2, <4>1, <4>2, <4>3
      <3> QED
        BY <3>3, <3>4
    <2> QED
      BY <1>1, <1>7, <2>1, <2>2 DEF ShowsInv, Ended
  <1> QED
    BY <1>4, <1>5, <1>6, <1>7

\* The end of the commits.
LEMMA CommittedShows ==
  ASSUME IInv, [Next]_vars, NEW k \in Callers, Committed(k)
  PROVE  ShowsInv(k)'
  <1>1. /\ pc[k] = "commit" /\ todo[k] = {} /\ pc'[k] = (IF outcome[k] = "none" THEN "twin" ELSE "end")
        /\ UNCHANGED <<done, todo, log, outcome, errorAt>> /\ ShowsInv(k)
    BY DEF Committed, Goto, result, IInv, CallsInv, TypeOK
  <1>2. UNCHANGED block /\ First(k)' = First(k) /\ Rest(k)' = Rest(k) /\ Resume(k)' = Resume(k)
    BY Stays
  <1>3. NBounds \in Nat /\ Bound(NBounds) = N /\ Chunks \subseteq Nat
    BY NBoundsCover, BoundValues, ChunkBounds
  <1>4. CASE outcome[k] = "none"
    <2>1. log[k] = Iota(Resume(k))
      BY <1>1, <1>4 DEF ShowsInv
    <2> QED
      BY <1>1, <1>2, <1>4, <2>1 DEF ShowsInv, Ended, Killed
  <1>5. CASE outcome[k] = "returned"
    <2>1. PICK m \in 0 .. NBounds : Follow(k, m, NBounds - 1)
      BY <1>1, <1>5 DEF ShowsInv
    <2>2. m = NBounds
      <3>1. m # NBounds => m \in m .. NBounds - 1
        BY <1>3
      <3>2. m .. NBounds - 1 = {}
        BY <1>1, <2>1 DEF Follow
      <3> QED
        BY <3>1, <3>2
    <2>3. log[k] = Iota(N)
      BY <1>3, <2>1, <2>2 DEF Follow
    <2> QED
      BY <1>1, <1>2, <1>5, <2>3 DEF ShowsInv, Ended, Killed
  <1>6. CASE outcome[k] = "error"
    <2>1. ASSUME NEW e \in Chunks, NEW m \in 0 .. e
          PROVE  ~ Follow(k, m, e)
      <3>1. e \in m .. e
        BY <1>3
      <3> QED
        BY <1>1, <3>1 DEF Follow
    <2>2. errorAt[k] \in block[k].raises /\ log[k] = Iota(errorAt[k])
      BY <1>1, <1>6, <2>1 DEF ShowsInv
    <2> QED
      BY <1>1, <1>2, <1>6, <2>2 DEF ShowsInv, Ended, Killed
  <1>7. CASE outcome[k] \notin {"none", "returned", "error"}
    <2>1. Killed(k)' <=> Killed(k)
      BY <1>1, <1>2 DEF Killed
    <2>2. Killed(k) => \E m \in 0 .. NBounds : log[k] = Iota(Bound(m))
      BY <1>1 DEF ShowsInv
    <2> QED
      BY <1>1, <1>7, <2>1, <2>2 DEF ShowsInv, Ended
  <1> QED
    BY <1>4, <1>5, <1>6, <1>7

\* The twin does the rest of the loop, or stops where an iteration raises.
LEMMA TwinShows ==
  ASSUME IInv, [Next]_vars, NEW k \in Callers, Twin(k)
  PROVE  ShowsInv(k)'
  <1>1. TypeOK /\ todo[k] = {} /\ log[k] = Iota(Resume(k))
    BY DEF Twin, IInv, CallsInv, ShowsInv
  <1>2. UNCHANGED block /\ Resume(k) \in Nat /\ Resume(k) <= N
    BY Stays, ChunkBounds, IterationsAssumption DEF Resume
  <1>3. PICK n \in Resume(k) .. N :
          /\ n < N => n \in block[k].raises
          /\ log' = [log EXCEPT ![k] = Extend(@, Resume(k), n)]
          /\ Decide(k, IF n = N THEN "returned" ELSE "error")
          /\ errorAt' = [errorAt EXCEPT ![k] = IF n = N THEN @ ELSE n]
    BY DEF Twin
  <1>4. n \in Nat /\ Resume(k) <= n /\ n <= N /\ N \in Nat
    BY <1>2, <1>3, IterationsAssumption
  <1>5. log'[k] = Extend(log[k], Resume(k), n) /\ todo'[k] = {} /\ pc'[k] = "commit"
        /\ outcome'[k] = (IF n = N THEN "returned" ELSE "error")
        /\ errorAt'[k] = (IF n = N THEN errorAt[k] ELSE n)
    BY <1>1, <1>3 DEF Twin, TypeOK, Goto, Decide
  <1>6. log'[k] = Iota(n)
    BY <1>1, <1>2, <1>4, <1>5, ExtendIota
  <1>7. CASE n = N
    <2>1. NBounds \in 0 .. NBounds /\ NBounds .. NBounds - 1 = {} /\ NBounds .. (NBounds - 1) - 1 = {}
      BY NBoundsCover
    <2>2. Follow(k, NBounds, NBounds - 1)'
      BY <1>5, <1>6, <1>7, <2>1, BoundValues DEF Follow
    <2> QED
      BY <1>5, <1>7, <2>1, <2>2 DEF ShowsInv, Ended, Killed
  <1>8. CASE n # N
    <2>1. errorAt'[k] \in block'[k].raises /\ log'[k] = Iota(errorAt'[k])
      BY <1>2, <1>3, <1>4, <1>5, <1>6, <1>8
    <2> QED
      BY <1>5, <1>8, <2>1 DEF ShowsInv, Ended, Killed
  <1> QED
    BY <1>7, <1>8

\* All chunks joined: each ran to its end.
LEMMA JoinAllShows ==
  ASSUME IInv, [Next]_vars, NEW k \in Callers, JoinAll(k)
  PROVE  ShowsInv(k)'
  <1>1. /\ TypeOK /\ done[k] = Rest(k) /\ done[k] \subseteq Clean(k) /\ Gathered(k)
        /\ done[k] \subseteq Settled(k)
        /\ pc'[k] = "commit" /\ outcome'[k] = "returned" /\ log'[k] = log[k]
        /\ todo'[k] = Joined(k)
    BY DEF JoinAll, Joinable, Commit, Goto, Decide, IInv, CallsInv, WaitInv, TypeOK
  <1>2. NBounds \in Nat \ {0} /\ NBounds - 1 \in Chunks /\ Chunks = 0 .. NBounds - 1
    BY NBoundsCover DEF Chunks
  <1>3. Start(k) \in Nat /\ Start(k) <= NBounds - 1
    <2>1. block[k].probed = "twin" => NBounds > 1
      BY <1>1, ProcessAssumption DEF TypeOK, BlockType
    <2> QED
      BY <1>2, <2>1 DEF Start
  <1>4. Joined(k) = Start(k) .. NBounds - 1
    BY <1>1, StartBase DEF Joined
  <1>5. todo'[k] = {d \in Joined(k) : d <= NBounds - 1}
    BY <1>1, <1>2, <1>3, <1>4
  <1>6. Follow(k, Start(k), NBounds - 1)' /\ Start(k)' = Start(k)
    BY <1>1, <1>2, <1>3, <1>5, JoinShows DEF JoinAll
  <1>7. ASSUME NEW c \in todo'[k]
        PROVE  at'[k][c] = Hi(c)
    <2>1. c \in Chunks /\ (c \in Rest(k) \/ c \in ProbeRecord(k))
      BY <1>1, <1>2, <1>3, <1>4 DEF Joined
    <2>2. CASE c \in Rest(k)
      <3>1. fut[<<k, c>>] = "done" /\ stop[k][c] = "none"
        BY <1>1, <2>1, <2>2 DEF Gathered, Bad, Clean
      <3> QED
        BY <2>1, <3>1, Stays DEF IInv, RecordInv
    <2>3. CASE c \in ProbeRecord(k)
      <3>1. c = 0 /\ at[k][c] = Hi(0) /\ fut[<<k, c>>] # "running"
        BY <2>1, <2>3 DEF IInv, RecordInv, ProbeRecord, First
      <3> QED
        BY <2>1, <3>1, RecordSplit DEF IInv
    <2> QED
      BY <2>1, <2>2, <2>3
  <1>8. Start(k)' \in 0 .. NBounds
    BY <1>1, <1>6, StartBase
  <1>9. \E m \in 0 .. NBounds : Follow(k, m, NBounds - 1)' /\ \A c \in todo'[k] : at'[k][c] = Hi(c)
    BY <1>6, <1>7, <1>8
  <1> QED
    BY <1>1, <1>9 DEF ShowsInv, Ended, Killed

\* An erring record joined: the chunks below it ran to their ends, and what it
\* did itself ends where its error is.
LEMMA JoinErrorShows ==
  ASSUME IInv, [Next]_vars, NEW k \in Callers, NEW e \in Chunks, JoinError(k, e)
  PROVE  ShowsInv(k)'
  <1>1. /\ TypeOK /\ done[k] = Rest(k) /\ Joinable(k) /\ done'[k] = done[k]
        /\ e \in Rest(k) /\ e \notin Clean(k) /\ \A d \in done[k] \ Clean(k) : e <= d
        /\ pc'[k] = "commit" /\ log'[k] = log[k]
        /\ outcome'[k] = (IF stop[k][e] = "deadline" THEN "timeout" ELSE "error")
        /\ errorAt'[k] = at[k][e] /\ todo'[k] = {d \in Joined(k) : d <= e}
        /\ done[k] \subseteq Chunks /\ done[k] \subseteq Settled(k)
    BY DEF JoinError, Joinable, Commit, Goto, Decide, IInv, CallsInv, WaitInv, TypeOK
  <1>2. e \in Nat /\ Chunks \subseteq Nat
    BY ChunkBounds
  <1>3. CASE stop[k][e] = "deadline"
    <2>1. done'[k] = Rest(k)'
      BY <1>1, Stays
    <2> QED
      BY <1>1, <1>3, <2>1 DEF ShowsInv, Ended, Killed
  <1>4. CASE stop[k][e] # "deadline"
    <2>1. stop[k][e] = "error"
      BY <1>1, <1>4 DEF Clean, TypeOK
    <2>2. Start(k) \in 0 .. e
      BY <1>1, <1>2 DEF Start, Rest, First
    <2>3. ASSUME NEW d \in done[k], d < e
          PROVE  d \in Clean(k)
      <3>1. d \in Chunks /\ (d \notin Clean(k) => e <= d)
        BY <1>1, <2>3
      <3>2. d \in Nat
        BY <1>2, <3>1
      <3> QED
        BY <1>2, <2>3, <3>1, <3>2
    <2>4. Follow(k, Start(k), e)' /\ Start(k)' = Start(k)
      BY <1>1, <1>2, <2>2, <2>3, JoinShows
    <2>5. fut[<<k, e>>] = "done"
      BY <1>1 DEF Joinable, Gathered, Bad
    <2>6. at'[k][e] = errorAt'[k] /\ UNCHANGED block
      BY <1>1, <2>5, Stays
    <2>7. errorAt'[k] \in block'[k].raises
      BY <1>1, <2>1, <2>6 DEF IInv, RecordInv
    <2>8. \E x \in Chunks : \E m \in 0 .. x : Follow(k, m, x)' /\ at'[k][x] = errorAt'[k]
      BY <2>2, <2>4, <2>6
    <2> QED
      BY <1>1, <1>4, <2>7, <2>8 DEF ShowsInv, Ended, Killed
  <1> QED
    BY <1>3, <1>4

\* A step that leaves the caller alone leaves what it shows.
LEMMA OthersShow ==
  ASSUME IInv, [Next]_vars, NEW k \in Callers, UNCHANGED Local(k)
  PROVE  ShowsInv(k)'
  <1>1. ShowsInv(k) /\ todo[k] \subseteq Chunks
    BY DEF IInv, CallsInv, TypeOK
  <1>2. /\ UNCHANGED <<block, pc[k], done[k], todo[k], log[k], outcome[k], errorAt[k]>>
        /\ First(k)' = First(k) /\ Rest(k)' = Rest(k)
        /\ Resume(k)' = Resume(k) /\ Base(k)' = Base(k)
        /\ pc[k] = "commit" => \A c \in todo[k] : at'[k][c] = at[k][c]
    BY Stays DEF Local
  <1>3. Killed(k)' <=> Killed(k)
    BY <1>2 DEF Killed
  <1>4. Chunks \subseteq Nat
    BY ChunkBounds
  <1>5. ASSUME NEW m \in Nat, NEW e \in Int, pc[k] = "commit", Follow(k, m, e)
        PROVE  Follow(k, m, e)'
    <2>1. \A c \in m .. e - 1 : c \in todo[k]
      BY <1>5 DEF Follow
    <2> QED
      BY <1>2, <1>5, <2>1 DEF Follow
  <1>6. CASE pc[k] # "commit"
    BY <1>1, <1>2, <1>3, <1>6 DEF ShowsInv, Ended
  <1>7. CASE pc[k] = "commit" /\ outcome[k] = "returned"
    <2>1. PICK m \in 0 .. NBounds : Follow(k, m, NBounds - 1) /\ \A c \in todo[k] : at[k][c] = Hi(c)
      BY <1>1, <1>7 DEF ShowsInv
    <2>2. Follow(k, m, NBounds - 1)' /\ \A c \in todo'[k] : at'[k][c] = Hi(c)
      BY <1>2, <1>5, <1>7, <2>1, NBoundsCover
    <2> QED
      BY <1>2, <1>7, <2>2 DEF ShowsInv, Ended, Killed
  <1>8. CASE pc[k] = "commit" /\ outcome[k] = "error"
    <2>1. CASE todo[k] = {} /\ log[k] = Iota(errorAt[k])
      BY <1>1, <1>2, <1>8, <2>1 DEF ShowsInv, Ended, Killed
    <2>2. ASSUME NEW e \in Chunks, NEW m \in 0 .. e, Follow(k, m, e), at[k][e] = errorAt[k]
          PROVE  ShowsInv(k)'
      <3>1. e \in todo[k] /\ m \in Nat /\ e \in Int
        BY <1>4, <2>2 DEF Follow
      <3>2. Follow(k, m, e)' /\ at'[k][e] = errorAt'[k]
        BY <1>2, <1>5, <1>8, <2>2, <3>1
      <3> QED
        BY <1>1, <1>2, <1>8, <3>2 DEF ShowsInv, Ended, Killed
    <2> QED
      BY <1>1, <1>8, <2>1, <2>2 DEF ShowsInv
  <1>9. CASE pc[k] = "commit" /\ outcome[k] \notin {"returned", "error"}
    BY <1>1, <1>2, <1>3, <1>9 DEF ShowsInv, Ended
  <1> QED
    BY <1>6, <1>7, <1>8, <1>9

\* What the containers show.
LEMMA ShowsStep ==
  ASSUME IInv, [Next]_vars, NEW k \in Callers
  PROVE  ShowsInv(k)'
  <1>t. /\ TypeOK /\ ShowsInv(k) /\ WaitInv(k)
        /\ pc = [l \in Callers |-> pc[l]] /\ outcome = [l \in Callers |-> outcome[l]]
    BY DEF IInv, CallsInv, TypeOK
  <1>b. Base(k)' = Base(k)
    BY Stays
  <1> DEFINE Early == pc[k] \notin {"commit", "twin", "end"}
  <1>w. ASSUME Early, NEW l, l \notin {"commit", "twin", "end"}, Goto(k, l), UNCHANGED log
        PROVE  ShowsInv(k)'
    BY <1>b, <1>t, <1>w DEF ShowsInv, Goto, Ended
  <1>e. ASSUME End(k, "crashed") \/ End(k, "interrupt")
        PROVE  ShowsInv(k)'
    BY <1>e, <1>t DEF ShowsInv, End, Goto, Decide, Ended, Killed
  <1>f. ASSUME Early, Fallback(k), UNCHANGED log
        PROVE  ShowsInv(k)'
    BY <1>f, FallbackShows
  <1>1. CASE TakePool(k)
    BY <1>1, <1>f, <1>w DEF TakePool
  <1>2. CASE Submitting(k)
    BY <1>2, <1>e, <1>w DEF Submitting, Submit, SubmitRaises, PickleFails, NextToSubmit, result
  <1>3. CASE Drained(k)
    BY <1>3, <1>f DEF Drained
  <1>4. CASE Waiting(k)
    BY <1>4, <1>w DEF Waiting, WaitReturns, TimesOut, WaitsForRest, RestReturns, result
  <1>5. ASSUME NEW c \in Chunks, GatherFails(k, c)
        PROVE  ShowsInv(k)'
    BY <1>5, <1>e, <1>f DEF GatherFails, Gathering
  <1>6. CASE Joining(k)
    BY <1>5, <1>6, PrefixShows, JoinAllShows, JoinErrorShows DEF Joining
  <1>7. CASE Committing(k)
    BY <1>7, CommittedShows, CommitOneShows DEF Committing
  <1>8. CASE Interrupt(k)
    BY <1>8, <1>e DEF Interrupt
  <1> QED
    BY <1>1, <1>2, <1>3, <1>4, <1>6, <1>7, <1>8, <1>t, LocalSplit, OthersShow, TwinShows
    DEF CallerStep

-----------------------------------------------------------------------------
(***************************************************************************)
(* The pools callers leave behind.                                         *)
(***************************************************************************)
\* A generation that was opened stays opened.
LEMMA PoolsStay ==
  ASSUME PoolInv, [Next]_vars, NEW g \in Gens, state[g] # "none"
  PROVE  state'[g] # "none"
  <1> USE DEF PoolInv, States
  <1>1. CASE UNCHANGED <<pool, state, gen>>
    BY <1>1
  <1>2. ASSUME NEW k \in Callers, TakePool(k)
        PROVE  state'[g] # "none"
    BY <1>2 DEF TakePool
  <1>3. CASE Recycle
    BY <1>3 DEF Recycle
  <1>4. ASSUME NEW h \in Gens, PoolFlush(h) \/ PoolBreak(h)
        PROVE  state'[g] # "none"
    BY <1>4 DEF PoolFlush, PoolBreak
  <1> QED
    BY <1>1, <1>2, <1>3, <1>4, PoolSplit

\* The module's pool after a step: the same, none, or a generation nobody had.
LEMMA NewPool ==
  ASSUME PoolInv, [Next]_vars
  PROVE  \/ pool' = pool
         \/ pool' = 0
         \/ pool' \in Gens /\ state[pool'] = "none"
  <1>1. ASSUME NEW k \in Callers, TakePool(k)
        PROVE  pool' = pool \/ (pool' \in Gens /\ state[pool'] = "none")
    BY <1>1 DEF TakePool
  <1> QED
    BY <1>1, PoolSplit DEF Recycle

\* A caller that falls back on what it gathered recycles the module's pool.
LEMMA DeadPoolStep ==
  ASSUME IInv, [Next]_vars
  PROVE  DeadPoolInv'
  <1> SUFFICES ASSUME NEW k \in Callers
               PROVE  /\ gen'[k] # 0 => state'[gen'[k]] # "none"
                      /\ pc'[k] \in {"submit", "drain", "wait", "woken", "rest", "killed", "gather"}
                           => gen'[k] # 0
                      /\ done'[k] # {} => gen'[k] # 0
                      /\ done'[k] # {} /\ outcome'[k] = "none" /\ pc'[k] \in {"commit", "twin"}
                           => pool' # gen'[k]
    BY DEF DeadPoolInv
  <1>t. /\ TypeOK /\ PoolInv /\ WaitInv(k)
        /\ pc = [l \in Callers |-> pc[l]] /\ gen = [l \in Callers |-> gen[l]]
        /\ done = [l \in Callers |-> done[l]] /\ outcome = [l \in Callers |-> outcome[l]]
        /\ gen[k] \in Gens \cup {0}
    BY DEF IInv, CallsInv, TypeOK
  <1>d. /\ gen[k] # 0 => state[gen[k]] # "none"
        /\ pc[k] \in {"submit", "drain", "wait", "woken", "rest", "killed", "gather"} => gen[k] # 0
        /\ done[k] # {} => gen[k] # 0
        /\ done[k] # {} /\ outcome[k] = "none" /\ pc[k] \in {"commit", "twin"} => pool # gen[k]
    BY DEF IInv, DeadPoolInv
  \* The caller keeps its pool.
  <1>k. ASSUME gen'[k] = gen[k]
        PROVE  /\ gen'[k] # 0 => state'[gen'[k]] # "none"
               /\ gen[k] # 0 /\ pool # gen[k] => pool' # gen'[k]
    <2>1. gen[k] # 0 => gen[k] \in Gens /\ state'[gen[k]] # "none"
      BY <1>d, <1>t, PoolsStay
    <2> QED
      BY <1>d, <1>k, <1>t, <2>1, NewPool
  <1>1. CASE UNCHANGED Local(k)
    BY <1>1, <1>d, <1>k DEF Local
  <1>2. CASE TakePool(k)
    <2>1. done'[k] = {} /\ done[k] = {} /\ pc[k] = "open"
      BY <1>2, <1>t DEF TakePool, WaitInv
    <2>2. CASE block[k].unguarded
      <3>1. gen'[k] = gen[k] /\ Fallback(k)
        BY <1>2, <2>2 DEF TakePool
      <3>2. pc'[k] \in {"commit", "end"}
        BY <1>t, <3>1, FallbackSplit
      <3> QED
        BY <1>k, <2>1, <3>1, <3>2
    <2>3. CASE ~block[k].unguarded
      <3>1. gen'[k] = pool' /\ pool' \in Gens /\ state'[pool'] # "none"
        BY <1>2, <1>t, <2>3 DEF TakePool, PoolInv, States
      <3>2. pool' # 0
        BY <3>1, GensAssumption
      <3> QED
        BY <2>1, <3>1, <3>2
    <2> QED
      BY <2>2, <2>3
  <1>3. ASSUME NEW c \in Chunks, Submit(k, c) \/ PickleFails(k, c)
        PROVE  gen'[k] = gen[k] /\ done'[k] = {} /\ gen[k] # 0
    BY <1>3, <1>d, <1>t DEF Submit, PickleFails, NextToSubmit, WaitInv
  <1>4. CASE Waiting(k)
    <2>1. /\ gen'[k] = gen[k] /\ gen[k] # 0
          /\ pc'[k] \in {"woken", "killed", "gather", "rest"}
      BY <1>4, <1>d, <1>t DEF Waiting, WaitReturns, TimesOut, WaitsForRest, RestReturns, Goto
    <2> QED
      BY <1>k, <2>1
  <1>5. ASSUME (\E c \in Chunks : SubmitRaises(k, c)) \/ Interrupt(k)
        PROVE  gen'[k] = gen[k] /\ done'[k] = done[k] /\ pc'[k] = "end"
    BY <1>5, <1>t DEF SubmitRaises, Interrupt, End, Goto
  <1>6. CASE Drained(k)
    <2>1. gen'[k] = gen[k] /\ done'[k] = {} /\ Fallback(k)
      BY <1>6, <1>t DEF Drained, WaitInv
    <2>2. pc'[k] \in {"commit", "end"}
      BY <1>t, <2>1, FallbackSplit
    <2> QED
      BY <1>k, <2>1, <2>2
  <1>7. ASSUME NEW c \in Chunks, GatherFails(k, c)
        PROVE  /\ gen'[k] = gen[k] /\ done'[k] = done[k] /\ gen[k] # 0
               /\ pc'[k] = "end" \/ (pc'[k] = "commit" /\ pool' = 0)
    <2>1. UNCHANGED <<gen, done>> /\ gen[k] # 0
      BY <1>7, <1>d DEF GatherFails, Gathering
    <2>2. CASE End(k, "crashed")
      BY <1>t, <2>1, <2>2 DEF End, Goto
    <2>3. CASE Fallback(k) /\ Recycle
      BY <1>t, <2>1, <2>3, FallbackSplit DEF Recycle
    <2> QED
      BY <1>7, <2>1, <2>2, <2>3 DEF GatherFails
  <1>8. ASSUME \/ CommitPrefix(k) \/ JoinAll(k)
               \/ \E c \in Chunks : JoinError(k, c)
        PROVE  gen'[k] = gen[k] /\ gen[k] # 0 /\ outcome'[k] # "none" /\ pc'[k] = "commit"
    BY <1>8, <1>d, <1>t DEF CommitPrefix, JoinAll, JoinError, Joinable, Commit, Goto, Decide
  <1>9. CASE Committing(k)
    <2>1. gen'[k] = gen[k] /\ done'[k] = done[k] /\ outcome'[k] = outcome[k] /\ pc[k] = "commit"
          /\ pc'[k] \in {"commit", "twin", "end"}
      BY <1>9, <1>t DEF Committing, Committed, CommitOne, Goto, result
    <2> QED
      BY <1>d, <1>k, <2>1
  <1>10. CASE Twin(k)
    <2>1. gen'[k] = gen[k] /\ done'[k] = done[k] /\ pc'[k] = "commit" /\ outcome'[k] # "none"
      BY <1>10, <1>t DEF Twin, Goto, Decide
    <2> QED
      BY <1>d, <1>k, <2>1
  <1>11. CASE \E c \in Chunks : Submit(k, c) \/ PickleFails(k, c)
    BY <1>3, <1>11, <1>k
  <1>12. CASE (\E c \in Chunks : SubmitRaises(k, c)) \/ Interrupt(k)
    BY <1>5, <1>12, <1>d, <1>k
  <1>13. CASE \E c \in Chunks : GatherFails(k, c)
    BY <1>7, <1>13, <1>k
  <1>14. CASE CommitPrefix(k) \/ JoinAll(k) \/ \E c \in Chunks : JoinError(k, c)
    BY <1>8, <1>14, <1>k
  <1> QED
    BY <1>1, <1>2, <1>4, <1>6, <1>9, <1>10, <1>11, <1>12, <1>13, <1>14, <1>t, LocalSplit
    DEF CallerStep, Submitting, Joining

-----------------------------------------------------------------------------
(***************************************************************************)
(* The theorems.                                                           *)
(***************************************************************************)
\* The initial states are well typed.
LEMMA TypeInit == Init => TypeOK
  <1> SUFFICES ASSUME Init
               PROVE  TypeOK
    OBVIOUS
  <1>1. N \in Nat /\ \A c \in Chunks : Lo(c) \in 0 .. N /\ Hi(c) \in 0 .. N
    BY ChunkBounds, IterationsAssumption
  <1>2. Hi(0) \in 0 .. N
    BY <1>1, ChunkBounds
  <1>3. at \in [Callers -> [Chunks -> 0 .. N]]
    BY <1>1, <1>2 DEF Init
  <1>4. Iota(Hi(0)) \in Seq(Pos)
    <2>1. \A i \in 1 .. Hi(0) : i - 1 \in Pos
      BY <1>1, <1>2 DEF Pos
    <2> QED
      BY <1>1, <1>2, <2>1 DEF Iota
  <1>5. <<>> \in Seq(Pos) /\ <<>> \in Seq(Jobs)
    BY EmptySeq
  <1>6. log \in [Callers -> Seq(Pos)]
    BY <1>4, <1>5 DEF Init
  <1>7. PoolTypeOK
    BY <1>5 DEF Init, PoolInit, PoolTypeOK, FutureState
  <1>8. 0 \in 0 .. N
    BY <1>1
  <1> QED
    BY <1>3, <1>6, <1>7, <1>8 DEF Init, TypeOK, Outcomes

\* The initial states.
LEMMA InvInit == Init => IInv
  <1> SUFFICES ASSUME Init
               PROVE  IInv
    OBVIOUS
  <1>1. TypeOK /\ PoolInv
    BY TypeInit, PoolInvInit
  <1>2. JobInv
    <2>1. \A g \in Gens : pending[g] = <<>> /\ handed[g] = <<>>
      BY DEF Init, PoolInit
    <2>2. Len(<<>>) = 0 /\ 1 .. 0 = {}
      BY EmptySeq
    <2> QED
      BY <2>1, <2>2 DEF JobInv
  <1>3. ASSUME NEW k \in Callers, NEW c \in Chunks
        PROVE  /\ fut[<<k, c>>] = "none"
               /\ at[k][c] = (IF c \in ProbeRecord(k) THEN Hi(0) ELSE Lo(c))
               /\ stop[k][c] = "none"
    BY <1>1 DEF Init, PoolInit, Jobs
  <1>4. RecordInv
    <2> SUFFICES ASSUME NEW k \in Callers, NEW c \in Chunks
                 PROVE  at[k][c] \in Lo(c) .. Hi(c)
      BY <1>3 DEF RecordInv
    <2>1. Lo(c) \in Nat /\ Hi(c) \in Nat /\ Lo(c) < Hi(c)
      BY ChunkBounds
    <2>2. c \in ProbeRecord(k) => c = 0
      BY DEF ProbeRecord
    <2>3. at[k][c] = Hi(c) \/ at[k][c] = Lo(c)
      BY <1>3, <2>2
    <2> QED
      BY <2>1, <2>3
  <1>5. ASSUME NEW k \in Callers
        PROVE  WaitInv(k) /\ ShowsInv(k)
    <2>1. pc[k] = "open" /\ done[k] = {} /\ outcome[k] = "none" /\ log[k] = Iota(Base(k))
      BY IotaZero DEF Init, Base
    <2> QED
      BY <2>1 DEF WaitInv, ShowsInv, Ended
  <1>6. DeadPoolInv
    BY DEF Init, DeadPoolInv
  <1> QED
    BY <1>1, <1>2, <1>4, <1>5, <1>6 DEF IInv, CallsInv

\* Every step keeps the invariant.
LEMMA InvStep == IInv /\ [Next]_vars => IInv'
  <1> SUFFICES ASSUME IInv, [Next]_vars
               PROVE  IInv'
    OBVIOUS
  <1>1. TypeOK' /\ JobInv' /\ RecordInv' /\ PoolInv'
    BY TypeStep, JobInvStep, RecordStep, PoolInvStep DEF IInv
  <1>2. CallsInv'
    BY WaitStep, ShowsStep DEF CallsInv
  <1>3. DeadPoolInv'
    BY DeadPoolStep
  <1> QED
    BY <1>1, <1>2, <1>3 DEF IInv

\* The invariant holds in every reachable state.
LEMMA Invariance == Spec => []IInv
  BY InvInit, InvStep, PTL DEF Spec

\* Every state has its types: a record never ends outside its chunk, a commit
\* never leaves the domain.
THEOREM TypeCorrect == Spec => []TypeOK
  <1>1. IInv => TypeOK
    BY DEF IInv
  <1> QED
    BY <1>1, Invariance, PTL

\* A block that returns has done exactly what the loop does.
THEOREM WholeLoop == Spec => []ReturnsWholeLoop
  <1>1. IInv => ReturnsWholeLoop
    BY DEF IInv, CallsInv, ShowsInv, ReturnsWholeLoop
  <1> QED
    BY <1>1, Invariance, PTL

\* A block that raises an iteration's error leaves exactly the iterations
\* before it.
THEOREM ErrorPrefix == Spec => []ErrorLeavesPrefix
  <1>1. IInv => ErrorLeavesPrefix
    BY DEF IInv, CallsInv, ShowsInv, ErrorLeavesPrefix
  <1> QED
    BY <1>1, Invariance, PTL

\* A hard kill after the first chunk it submitted was done leaves a prefix.
THEOREM KilledPrefix == Spec => []KilledLeavesPrefix
  <1>1. IInv => KilledLeavesPrefix
    <2> SUFFICES ASSUME IInv, NEW k \in Callers, Ended(k, "timeout"), done[k] # Rest(k),
                        block[k].probed # "chunk", First(k) \in done[k]
                 PROVE  IsPrefixOfLoop(log[k])
      BY DEF KilledLeavesPrefix
    <2>1. pc[k] = "end" /\ Killed(k)
      BY DEF Ended, Killed
    <2>2. PICK m \in 0 .. NBounds : log[k] = Iota(Bound(m))
      BY <2>1 DEF IInv, CallsInv, ShowsInv
    <2>3. Bound(m) \in Nat
      BY BoundValues
    <2>4. Len(Iota(Bound(m))) = Bound(m)
      BY <2>3 DEF Iota
    <2> QED
      BY <2>2, <2>4 DEF IsPrefixOfLoop
  <1> QED
    BY <1>1, Invariance, PTL

\* A caller that fell back on a dead pool has not left it to the next block.
THEOREM NoDeadPool == Spec => []LeavesNoDeadPool
  <1>1. IInv => LeavesNoDeadPool
    <2> SUFFICES ASSUME IInv, NEW k \in Callers, pc[k] = "twin", done[k] # {}
                 PROVE  pool # gen[k]
      BY DEF LeavesNoDeadPool
    <2> QED
      BY DEF IInv, CallsInv, WaitInv, DeadPoolInv
  <1> QED
    BY <1>1, Invariance, PTL

-----------------------------------------------------------------------------
(***************************************************************************)
(* ProcessDispatch implements SequentialLoop, for blocks that start with   *)
(* no twin probe and have no timeout.                                      *)
(***************************************************************************)
LoopBlocksOnly == \A f \in Programs : \A k \in Callers : f[k].probed # "twin" /\ ~f[k].deadline

\* A chunk passes no iteration that raises.
CleanInv == \A k \in Callers, c \in Chunks : \A q \in Lo(c) .. at[k][c] - 1 : q \notin block[k].raises

\* Nothing expires; a call that commits will return, raise or run the twin.
UntimedInv ==
  \A k \in Callers :
    /\ ~expired[k] /\ pc[k] # "killed"
    /\ \A c \in Chunks : stop[k][c] # "deadline"
    /\ pc[k] = "commit" => outcome[k] \in {"none", "returned", "error"}

\* A chunk ends where ChunkEnds lets it.
LEMMA CleanStep == IInv /\ CleanInv /\ [Next]_vars => CleanInv'
  <1> SUFFICES ASSUME IInv, CleanInv, [Next]_vars, NEW k \in Callers, NEW c \in Chunks,
                      NEW q \in Lo(c) .. at'[k][c] - 1
               PROVE  q \notin block'[k].raises
    BY DEF CleanInv
  <1>1. UNCHANGED block
    BY RecordsFixed
  <1>2. CASE at'[k][c] = at[k][c]
    BY <1>1, <1>2 DEF CleanInv
  <1>3. ASSUME NEW p \in Lo(c) .. Hi(c), NEW s \in {"none", "error", "deadline"},
               ChunkEnds(k, c, p, s), at'[k][c] = p
        PROVE  q \notin block[k].raises
    BY <1>3 DEF ChunkEnds
  <1> QED
    BY <1>1, <1>2, <1>3, RecordSplit DEF IInv

\* Without a deadline the clock stops nothing.
LEMMA UntimedStep == LoopBlocksOnly /\ IInv /\ UntimedInv /\ [Next]_vars => UntimedInv'
  <1> SUFFICES ASSUME LoopBlocksOnly, IInv, UntimedInv, [Next]_vars, NEW k \in Callers
               PROVE  /\ ~expired'[k] /\ pc'[k] # "killed"
                      /\ \A c \in Chunks : stop'[k][c] # "deadline"
                      /\ pc'[k] = "commit" => outcome'[k] \in {"none", "returned", "error"}
    BY DEF UntimedInv
  <1>t. /\ TypeOK /\ WaitInv(k)
        /\ pc = [l \in Callers |-> pc[l]] /\ outcome = [l \in Callers |-> outcome[l]]
    BY DEF IInv, CallsInv, TypeOK
  <1>u. /\ ~expired[k] /\ pc[k] # "killed"
        /\ \A c \in Chunks : stop[k][c] # "deadline"
        /\ pc[k] = "commit" => outcome[k] \in {"none", "returned", "error"}
        /\ ~block[k].deadline
    BY <1>t DEF UntimedInv, LoopBlocksOnly, TypeOK
  <1>1. ~expired'[k]
    <2>1. expired' = expired \/ \E l \in Callers : Expire(l)
      BY DEF Next, CallerStep, Submitting, Waiting, Joining, Committing, TakePool, Submit,
         SubmitRaises, PickleFails, Drained, WaitReturns, TimesOut, WaitsForRest, RestReturns,
         CommitPrefix, JoinAll, GatherFails, JoinError, CommitOne, Committed, Twin, Interrupt,
         PoolStep, HandOver, Flush, Break, RunChunk, callers, vars, Over
    <2>2. expired = [l \in Callers |-> expired[l]]
      BY <1>t DEF TypeOK
    <2> QED
      BY <1>u, <2>1, <2>2 DEF Expire
  <1>2. ASSUME NEW c \in Chunks
        PROVE  stop'[k][c] # "deadline"
    <2>1. ASSUME NEW p, ChunkEnds(k, c, p, "deadline")
          PROVE  FALSE
      BY <1>u, <2>1 DEF ChunkEnds
    <2> QED
      BY <1>u, <2>1, RecordSplit DEF IInv
  <1> DEFINE Ok == /\ pc'[k] # "killed"
                   /\ pc'[k] = "commit" => outcome'[k] \in {"none", "returned", "error"}
  <1> SUFFICES Ok
    BY <1>1, <1>2
  <1>f. ASSUME Fallback(k), outcome[k] = "none"
        PROVE  Ok
    BY <1>f, <1>t, FallbackSplit
  <1>e. ASSUME NEW o, End(k, o)
        PROVE  Ok
    BY <1>e, <1>t DEF End, Goto
  <1>3. CASE UNCHANGED Local(k)
    BY <1>3, <1>u DEF Local
  <1>4. CASE TakePool(k)
    BY <1>4, <1>f, <1>t DEF TakePool, WaitInv, Goto
  <1>5. CASE Submitting(k)
    BY <1>5, <1>e, <1>t DEF Submitting, Submit, SubmitRaises, PickleFails, Goto
  <1>6. CASE Drained(k)
    BY <1>6, <1>f, <1>t DEF Drained, WaitInv
  <1>7. CASE Waiting(k)
    BY <1>7, <1>t, <1>u DEF Waiting, WaitReturns, TimesOut, WaitsForRest, RestReturns, Goto
  <1>8. ASSUME NEW c \in Chunks, GatherFails(k, c)
        PROVE  Ok
    BY <1>8, <1>e, <1>f, <1>t DEF GatherFails, Gathering, WaitInv
  <1>9. CASE CommitPrefix(k)
    BY <1>9, <1>u DEF CommitPrefix
  <1>10. ASSUME NEW c \in Chunks, JoinError(k, c)
         PROVE  Ok
    BY <1>10, <1>t, <1>u DEF JoinError, Commit, Goto, Decide
  <1>11. CASE JoinAll(k)
    BY <1>11, <1>t DEF JoinAll, Commit, Goto, Decide
  <1>12. CASE Committing(k)
    BY <1>12, <1>t, <1>u DEF Committing, Committed, CommitOne, Goto, result
  <1>13. CASE Twin(k)
    BY <1>13, <1>t DEF Twin, Goto, Decide
  <1>14. CASE Interrupt(k)
    BY <1>14, <1>e DEF Interrupt
  <1> QED
    BY <1>3, <1>4, <1>5, <1>6, <1>7, <1>8, <1>9, <1>10, <1>11, <1>12, <1>13, <1>14, <1>t, LocalSplit
    DEF CallerStep, Joining

\* What the containers show of the loop when the next record is committed.
LEMMA CommitFollows ==
  ASSUME IInv, NEW k \in Callers, NEW c \in Chunks, pc[k] = "commit",
         outcome[k] \in {"none", "returned", "error"}, c \in todo[k],
         \A d \in todo[k] : c <= d
  PROVE  log[k] = Iota(Lo(c))
  <1>1. ShowsInv(k) /\ c \in Nat /\ Lo(c) = Bound(c) /\ Bound(0) = 0 /\ Chunks \subseteq Nat
    BY ChunkBounds, BoundValues DEF IInv, CallsInv
  <1>2. ASSUME NEW m \in Nat, NEW e \in Int, Follow(k, m, e)
        PROVE  log[k] = Iota(Lo(c))
    <2>1. todo[k] = m .. e /\ log[k] = Iota(Bound(m))
      BY <1>2 DEF Follow
    <2>2. c \in m .. e
      BY <2>1
    <2>3. m \in m .. e
      BY <2>2
    <2>4. c <= m
      BY <2>1, <2>3
    <2>5. c = m
      BY <1>1, <2>2, <2>4
    <2> QED
      BY <1>1, <2>1, <2>5
  <1>3. CASE outcome[k] = "none"
    BY <1>1, <1>3, IotaZero DEF ShowsInv
  <1>4. CASE outcome[k] = "returned"
    BY <1>1, <1>2, <1>4, NBoundsCover DEF ShowsInv
  <1>5. CASE outcome[k] = "error"
    <2>1. todo[k] # {}
      OBVIOUS
    <2>2. PICK e \in Chunks : \E m \in 0 .. e : Follow(k, m, e)
      BY <1>1, <1>5, <2>1 DEF ShowsInv
    <2>3. PICK m \in 0 .. e : Follow(k, m, e)
      BY <2>2
    <2>4. e \in Int /\ m \in Nat
      BY <1>1, <2>2
    <2> QED
      BY <1>2, <2>3, <2>4
  <1> QED
    BY <1>3, <1>4, <1>5

\* Containers that go from one prefix of the loop to another past no error.
LEMMA LoopAdvances ==
  ASSUME NEW k \in Callers, NEW m \in 0 .. N, NEW n \in m .. N,
         pc[k] # "end", pc'[k] # "end", UNCHANGED block,
         log[k] = Iota(m), log'[k] = Iota(n), \A q \in m .. n - 1 : q \notin block[k].raises
  PROVE  Loop(k)!Next \/ UNCHANGED Loop(k)!loopVars
  <1>1. Len(log[k]) = m /\ N \in Nat
    BY IterationsAssumption DEF Iota
  <1>2. CASE n = m
    BY <1>2 DEF Loop!loopVars
  <1>3. CASE n # m
    <2>1. n \in Len(log[k]) + 1 .. N
      BY <1>1, <1>3
    <2>2. Loop(k)!Reaches(n)
      BY <1>1 DEF Loop!Reaches
    <2> QED
      BY <2>1, <2>2 DEF Loop!Next, Loop!Advance, Loop!Iota, Iota
  <1> QED
    BY <1>2, <1>3

\* A call that ends with the containers at a prefix of the loop.
LEMMA LoopEnds ==
  ASSUME NEW k \in Callers, NEW m \in 0 .. N, pc[k] # "end", pc'[k] = "end", UNCHANGED block,
         log[k] = Iota(m), log'[k] = log[k],
         \/ outcome'[k] \in {"refused", "crashed", "interrupt"}
         \/ outcome'[k] = "returned" /\ m = N
         \/ outcome'[k] = "error" /\ m \in block[k].raises /\ m # N
  PROVE  Loop(k)!Next
  <1>1. Len(log[k]) = m /\ N \in Nat /\ m \in Nat
    BY IterationsAssumption DEF Iota
  <1>2. Loop(k)!Reaches(m)
    BY <1>1 DEF Loop!Reaches
  <1>3. m \in Len(log[k]) .. N
    BY <1>1
  <1>4. CASE outcome'[k] \in {"refused", "crashed", "interrupt"}
    BY <1>2, <1>3, <1>4 DEF Loop!Next, Loop!GiveUp, Loop!Outcomes, Loop!Iota, Iota
  <1>5. CASE outcome'[k] = "returned" /\ m = N
    BY <1>1, <1>5 DEF Loop!Next, Loop!Return
  <1>6. CASE outcome'[k] = "error" /\ m \in block[k].raises /\ m # N
    <2>1. m \in Len(log[k]) .. N - 1
      BY <1>1, <1>6
    <2> QED
      BY <1>2, <1>6, <2>1 DEF Loop!Next, Loop!Raise, Loop!Iota, Iota
  <1> QED
    BY <1>4, <1>5, <1>6

\* A step before anything is committed.
LEMMA EarlySteps ==
  ASSUME IInv, [Next]_vars, NEW k \in Callers, pc[k] \notin {"commit", "twin", "end"},
         log'[k] = log[k], pc'[k] = "end" => outcome'[k] \in {"refused", "crashed", "interrupt"}
  PROVE  Loop(k)!Next \/ UNCHANGED Loop(k)!loopVars
  <1>1. UNCHANGED block /\ log[k] = Iota(Base(k))
    BY Stays DEF IInv, CallsInv, ShowsInv
  <1>2. Base(k) \in 0 .. N
    BY ChunkBounds, IterationsAssumption DEF Base
  <1>3. CASE pc'[k] = "end"
    BY <1>1, <1>2, <1>3, LoopEnds
  <1>4. CASE pc'[k] # "end"
    BY <1>1, <1>4 DEF Loop!loopVars
  <1> QED
    BY <1>3, <1>4

\* Every step is one of the loop's, to every caller, or none.
LEMMA LoopStep ==
  ASSUME IInv, CleanInv, UntimedInv, [Next]_vars, NEW k \in Callers
  PROVE  Loop(k)!Next \/ UNCHANGED Loop(k)!loopVars
  <1>t. /\ TypeOK /\ WaitInv(k) /\ ShowsInv(k) /\ UNCHANGED block
        /\ pc = [l \in Callers |-> pc[l]] /\ outcome = [l \in Callers |-> outcome[l]]
        /\ log = [l \in Callers |-> log[l]]
    BY Stays DEF IInv, CallsInv, TypeOK
  <1> DEFINE Simulates == Loop(k)!Next \/ UNCHANGED Loop(k)!loopVars
             Early == /\ pc[k] \notin {"commit", "twin", "end"}
                      /\ log'[k] = log[k]
                      /\ pc'[k] = "end" => outcome'[k] \in {"refused", "crashed", "interrupt"}
  <1>g. Early => Simulates
    BY EarlySteps
  <1>f. ASSUME Fallback(k), pc[k] \notin {"commit", "twin", "end"}, UNCHANGED log
        PROVE  Early
    BY <1>f, <1>t, FallbackSplit
  <1>e. ASSUME NEW o \in {"crashed", "interrupt"}, End(k, o),
               pc[k] \notin {"commit", "twin", "end"}, UNCHANGED log
        PROVE  Early
    BY <1>e, <1>t DEF End, Goto, Decide
  <1>1. CASE UNCHANGED Local(k)
    BY <1>1, <1>t DEF Local, Loop!loopVars
  <1>2. CASE TakePool(k)
    BY <1>2, <1>f, <1>t, <1>g DEF TakePool, Goto
  <1>3. CASE Submitting(k)
    <2>1. Early
      BY <1>3, <1>e, <1>t DEF Submitting, Submit, SubmitRaises, PickleFails, NextToSubmit, Goto, result
    <2> QED
      BY <1>g, <2>1
  <1>4. CASE Drained(k)
    BY <1>4, <1>f, <1>g DEF Drained
  <1>5. CASE Waiting(k)
    <2>1. Early
      BY <1>5, <1>t DEF Waiting, WaitReturns, TimesOut, WaitsForRest, RestReturns, Goto, result
    <2> QED
      BY <1>g, <2>1
  <1>6. ASSUME NEW c \in Chunks, GatherFails(k, c)
        PROVE  Simulates
    BY <1>6, <1>e, <1>f, <1>g DEF GatherFails, Gathering
  <1>7. ASSUME CommitPrefix(k) \/ JoinAll(k) \/ \E c \in Chunks : JoinError(k, c)
        PROVE  Early
    BY <1>7, <1>t DEF CommitPrefix, JoinAll, JoinError, Joinable, Commit, Goto
  <1>8. ASSUME NEW c \in Chunks, CommitOne(k, c)
        PROVE  Simulates
    <2>1. /\ pc[k] = "commit" /\ pc'[k] = "commit" /\ log'[k] = Extend(log[k], Lo(c), at[k][c])
          /\ c \in todo[k] /\ \A d \in todo[k] : c <= d
      BY <1>8, <1>t DEF CommitOne
    <2>2. log[k] = Iota(Lo(c))
      BY <2>1, CommitFollows DEF UntimedInv
    <2>3. at[k][c] \in Lo(c) .. Hi(c) /\ Lo(c) \in Nat /\ Hi(c) \in Nat /\ Hi(c) <= N /\ N \in Nat
      BY ChunkBounds, IterationsAssumption DEF IInv, RecordInv
    <2>4. log'[k] = Iota(at[k][c])
      BY <2>1, <2>2, <2>3, ExtendIota
    <2>5. Lo(c) \in 0 .. N /\ at[k][c] \in Lo(c) .. N
      BY <2>3
    <2>6. \A q \in Lo(c) .. at[k][c] - 1 : q \notin block[k].raises
      BY DEF CleanInv
    <2> QED
      BY <1>t, <2>1, <2>2, <2>4, <2>5, <2>6, LoopAdvances
  <1>9. CASE Committed(k)
    <2>1. /\ pc[k] = "commit" /\ pc'[k] = (IF outcome[k] = "none" THEN "twin" ELSE "end")
          /\ log'[k] = log[k] /\ outcome'[k] = outcome[k] /\ errorAt'[k] = errorAt[k]
      BY <1>9, <1>t DEF Committed, Goto, result
    <2>2. CASE outcome[k] = "none"
      BY <1>t, <2>1, <2>2 DEF Loop!loopVars
    <2>3. ShowsInv(k)' /\ N \in Nat
      BY <1>9, CommittedShows, IterationsAssumption
    <2>4. CASE outcome[k] = "returned"
      <3>1. log'[k] = Iota(N)
        BY <2>1, <2>3, <2>4 DEF ShowsInv, Ended
      <3> QED
        BY <1>t, <2>1, <2>3, <2>4, <3>1, LoopEnds
    <2>5. CASE outcome[k] = "error"
      <3>1. errorAt[k] \in block[k].raises /\ log'[k] = Iota(errorAt[k])
        BY <1>t, <2>1, <2>3, <2>5 DEF ShowsInv, Ended
      <3>2. errorAt[k] \in Pos
        BY <1>t, <3>1, ProcessAssumption DEF TypeOK, BlockType
      <3>3. errorAt[k] \in 0 .. N /\ errorAt[k] # N
        BY <2>3, <3>2 DEF Pos
      <3> QED
        BY <1>t, <2>1, <2>5, <3>1, <3>3, LoopEnds
    <2> QED
      BY <2>1, <2>2, <2>4, <2>5 DEF UntimedInv
  <1>10. CASE Twin(k)
    <2>1. log[k] = Iota(Resume(k)) /\ N \in Nat /\ Resume(k) \in 0 .. N
      BY <1>10, <1>t, ChunkBounds, IterationsAssumption DEF Twin, ShowsInv, Resume
    <2>2. PICK n \in Resume(k) .. N :
            /\ \A p \in Resume(k) .. n - 1 : p \notin block[k].raises
            /\ log' = [log EXCEPT ![k] = Extend(@, Resume(k), n)]
      BY <1>10 DEF Twin
    <2>3. log'[k] = Iota(n)
      <3>1. log'[k] = Extend(Iota(Resume(k)), Resume(k), n)
        BY <1>t, <2>1, <2>2
      <3> QED
        BY <2>1, <3>1, ExtendIota
    <2>4. pc[k] = "twin" /\ pc'[k] = "commit"
      BY <1>10, <1>t DEF Twin, Goto
    <2> QED
      BY <1>t, <2>1, <2>2, <2>3, <2>4, LoopAdvances
  <1>11. CASE Interrupt(k)
    BY <1>11, <1>e, <1>g DEF Interrupt
  <1> QED
    BY <1>1, <1>2, <1>3, <1>4, <1>5, <1>6, <1>7, <1>8, <1>9, <1>10, <1>11, <1>g, <1>t, LocalSplit
    DEF CallerStep, Joining, Committing

\* Each block is the sequential loop to its caller, if it ends: pools breaking
\* or recycled under it, bundles lost and submissions refused included.
THEOREM Implements == LoopBlocksOnly => (Spec => ImplementsLoop)
  <1> SUFFICES ASSUME LoopBlocksOnly
               PROVE  Spec => ImplementsLoop
    OBVIOUS
  <1> DEFINE LoopInv == IInv /\ CleanInv /\ UntimedInv
             LoopSteps == \A k \in Callers : Loop(k)!Next \/ UNCHANGED Loop(k)!loopVars
  <1>1. Init => LoopInv
    <2> SUFFICES ASSUME Init
                 PROVE  LoopInv
      OBVIOUS
    <2>1. IInv /\ TypeOK
      BY InvInit, TypeInit
    <2>2. ASSUME NEW k \in Callers, NEW c \in Chunks, NEW q \in Lo(c) .. at[k][c] - 1
          PROVE  q \notin block[k].raises
      <3>1. at[k][c] = (IF c \in ProbeRecord(k) THEN Hi(0) ELSE Lo(c)) /\ Lo(c) \in Nat
        BY ChunkBounds DEF Init
      <3>2. c \in ProbeRecord(k) /\ q \in Lo(0) .. Hi(0) - 1
        BY <3>1 DEF ProbeRecord
      <3>3. block[k].raises \cap (0 .. Hi(0) - 1) = {}
        BY <2>1, <3>2, ProcessAssumption DEF TypeOK, BlockType, ProbeRecord
      <3>4. q \in 0 .. Hi(0) - 1
        BY <3>2, ChunkBounds
      <3> QED
        BY <3>3, <3>4
    <2>3. UntimedInv
      BY DEF Init, UntimedInv
    <2> QED
      BY <2>1, <2>2, <2>3 DEF CleanInv
  <1>2. Init => \A k \in Callers : Loop(k)!Init
    <2> SUFFICES ASSUME Init, NEW k \in Callers
                 PROVE  Loop(k)!Init
      OBVIOUS
    <2>1. block[k].raises \in SUBSET Pos /\ block[k].probed # "twin"
      BY TypeInit, ProcessAssumption DEF LoopBlocksOnly, TypeOK, BlockType
    <2>2. log[k] = <<>> /\ pc[k] = "open"
      BY <2>1 DEF Init
    <2> QED
      BY <2>1, <2>2 DEF Loop!Init, Loop!Pos, Pos
  <1>3. LoopInv /\ [Next]_vars => LoopInv'
    BY InvStep, CleanStep, UntimedStep
  <1>4. LoopInv /\ [Next]_vars => LoopSteps
    BY LoopStep
  <1> HIDE DEF LoopInv, LoopSteps
  <1>5. Spec => (\A k \in Callers : Loop(k)!Init) /\ [][LoopSteps]_vars
    BY <1>1, <1>2, <1>3, <1>4, PTL DEF Spec
  <1> QED
    BY <1>5 DEF ImplementsLoop, LoopSteps
=============================================================================
