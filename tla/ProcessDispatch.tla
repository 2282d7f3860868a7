--------------------------- MODULE ProcessDispatch ---------------------------
(***************************************************************************)
(* Blocks run by the PROCESS backend (process_backend.run_chunks) in the   *)
(* threads Callers, on the one process pool of the program.  A block is    *)
(* past the gates and the probe of _execute, which ThreadDispatch models.  *)
(* Each caller takes the module's pool, creating it if there is none,      *)
(* pickles and submits one bundle per chunk, waits, and joins or falls     *)
(* back to the sequential twin.  A timeout, a bundle no worker can read or *)
(* a broken pool makes a caller recycle the module's pool under whoever    *)
(* else is using it.                                                       *)
(* A chunk runs in a process of its own: nothing of it shows before its    *)
(* result arrives, so its iterations are one step.                         *)
(***************************************************************************)
EXTENDS ProcessPool

CONSTANTS Programs,   (* which block each caller runs                    *)
          Faults      (* what the environment may do, of AllFaults       *)

AllFaults == {"break", "interrupt"}

(***************************************************************************)
(* What pickling does to a chunk: nothing; its bundle does not pickle, or  *)
(* not stably; the worker cannot load it, or cannot send its slabs back.   *)
(***************************************************************************)
Fate == {"fine", "unpicklable", "unreadable", "unsendable"}

(***************************************************************************)
(* raises     the iterations that raise;  fate: of each chunk              *)
(* probed     how _execute probed chunk 0: not, on the twin, into a record *)
(* hard       errors mode HARD: raise_or_fallback raises                   *)
(* deadline   timeout= is given;  perTask: timeout=(.., per_task=true)     *)
(* unguarded  on a spawn platform, the entry script has no main guard      *)
(***************************************************************************)
BlockType == {b \in [raises : SUBSET Pos, fate : [Chunks -> Fate],
                     probed : {"no", "twin", "chunk"}, hard : BOOLEAN,
                     deadline : BOOLEAN, perTask : BOOLEAN, unguarded : BOOLEAN] :
                /\ b.perTask => b.deadline
                /\ b.probed # "no" => NBounds > 1 /\ b.raises \cap (0 .. Hi(0) - 1) = {}}

ASSUME ProcessAssumption == /\ Programs \subseteq [Callers -> BlockType]
                            /\ Faults \subseteq AllFaults

VARIABLES block,      \* the block each caller runs: fixed by Init
          pool,       \* _pool: the module's generation, 0 for None
          pc,         \* where each caller is
          gen,        \* the pool it took, 0 before
          done,       \* the chunks its wait reported
          todo,       \* the records it has left to commit
          expired,    \* its deadline has passed
          at,         \* how far each chunk's result got
          stop,       \* what stopped it: record.error
          log,        \* what the caller's containers show
          outcome,    \* how its call ended, once decided
          errorAt     \* the iteration whose error it raises

records == <<at, stop>>
result == <<log, outcome, errorAt>>
vars == <<block, pool, pc, gen, done, todo, expired, records, result, poolVars>>

-----------------------------------------------------------------------------
\* rest in _execute: the chunks the probe left.
First(k) == IF block[k].probed = "no" THEN 0 ELSE 1
Rest(k) == {c \in Chunks : c >= First(k)}
ProbeRecord(k) == IF block[k].probed = "chunk" THEN {0} ELSE {}

\* Mutant of Resume: the twin starts over after a probe.
ResumeAtZero(k) == 0

\* probed_end, where a fallback resumes.
Resume(k) == IF block[k].probed = "no" THEN 0 ELSE Hi(0)

\* The futures of k with a result, and those whose result is an exception.
Settled(k) == {c \in Chunks : fut[<<k, c>>] \in Results \cup {"broken"}}
Bad(k) == {c \in Settled(k) : fut[<<k, c>>] # "done"}
Cancelled(k) == {c \in Chunks : fut[<<k, c>>] \in {"cancelled", "notified"}}
Submitted(k) == {c \in Chunks : fut[<<k, c>>] # "none"}

Clean(k) == {c \in Chunks : stop[k][c] = "none"}

Init ==
  /\ block \in Programs
  /\ pool = 0
  /\ pc = [k \in Callers |-> "open"]
  /\ gen = [k \in Callers |-> 0]
  /\ done = [k \in Callers |-> {}]
  /\ todo = [k \in Callers |-> {}]
  /\ expired = [k \in Callers |-> FALSE]
  /\ at = [k \in Callers |-> [c \in Chunks |->
             IF c \in ProbeRecord(k) THEN Hi(0) ELSE Lo(c)]]
  /\ stop = [k \in Callers |-> [c \in Chunks |-> "none"]]
  /\ log = [k \in Callers |-> IF block[k].probed = "twin" THEN Iota(Hi(0)) ELSE <<>>]
  /\ outcome = [k \in Callers |-> "none"]
  /\ errorAt = [k \in Callers |-> 0]
  /\ PoolInit

Goto(k, label) == pc' = [pc EXCEPT ![k] = label]
Decide(k, o) == outcome' = [outcome EXCEPT ![k] = o]

\* The call ends at once: it raises, and nothing more is committed.
End(k, o) == Goto(k, "end") /\ Decide(k, o) /\ UNCHANGED todo

Commit(k, R) == Goto(k, "commit") /\ todo' = [todo EXCEPT ![k] = R]

\* _execute on PreflightCheckError and MidRunSerializationError: raise, or
\* commit the probe's record and run the twin from the probe's end.
Fallback(k) == IF block[k].hard
               THEN End(k, "refused")
               ELSE Commit(k, ProbeRecord(k)) /\ UNCHANGED outcome

-----------------------------------------------------------------------------
(***************************************************************************)
(* The module's pool.                                                      *)
(***************************************************************************)
\* Mutant of Recycle: the module forgets the pool without shutting it down.
RecycleLeaksPool == pool' = 0 /\ UNCHANGED state

\* Mutant of Recycle: the pool is shut down and stays the module's.
RecycleKeepsPool ==
  /\ UNCHANGED pool
  /\ state' = [g \in Gens |-> IF g = pool /\ state[g] = "open"
                              THEN "closing" ELSE state[g]]

\* _recycle: whatever pool the module has now, shut down without a wait.
Recycle ==
  /\ pool' = 0
  /\ state' = [g \in Gens |-> IF g = pool /\ state[g] = "open"
                              THEN "closing" ELSE state[g]]

\* _ensure_pool, and the check of the first bundle.  A broken pool is taken
\* like any other.
TakePool(k) ==
  /\ pc[k] = "open"
  /\ IF block[k].unguarded
     THEN Fallback(k) /\ UNCHANGED <<pool, gen, state>>
     ELSE /\ IF pool = 0
             THEN \E g \in Gens :
                    /\ state[g] = "none"
                    /\ \A h \in 1 .. g - 1 : state[h] # "none"
                    /\ pool' = g
                    /\ state' = [state EXCEPT ![g] = "open"]
             ELSE UNCHANGED <<pool, state>>
          /\ gen' = [gen EXCEPT ![k] = pool']
          /\ IF block[k].fate[First(k)] = "unpicklable"
             THEN Fallback(k)
             ELSE Goto(k, "submit") /\ UNCHANGED <<todo, outcome>>
  /\ UNCHANGED <<block, done, expired, records, log, errorAt, pending, handed, fut>>

-----------------------------------------------------------------------------
(***************************************************************************)
(* The submissions.                                                        *)
(***************************************************************************)
NextToSubmit(k, c) == /\ pc[k] = "submit"
                      /\ c \in Rest(k)
                      /\ fut[<<k, c>>] = "none"
                      /\ \A d \in First(k) .. c - 1 : fut[<<k, d>>] # "none"

Submit(k, c) ==
  /\ NextToSubmit(k, c)
  /\ block[k].fate[c] # "unpicklable"
  /\ PoolSubmit(gen[k], <<k, c>>)
  /\ Goto(k, IF c = NBounds - 1 THEN "wait" ELSE "submit")
  /\ UNCHANGED <<block, pool, gen, done, todo, expired, records, result>>

\* submit on a pool that was shut down or is broken: RuntimeError or
\* BrokenProcessPool, which nothing between here and the caller catches.
SubmitRaises(k, c) ==
  /\ NextToSubmit(k, c)
  /\ block[k].fate[c] # "unpicklable"
  /\ state[gen[k]] # "open"
  /\ End(k, "crashed")
  /\ UNCHANGED <<block, pool, gen, done, expired, records, log, errorAt, poolVars>>

\* A later bundle stopped being picklable: cancel what was submitted.
PickleFails(k, c) ==
  /\ NextToSubmit(k, c)
  /\ c # First(k)
  /\ block[k].fate[c] = "unpicklable"
  /\ fut' = WithCancelled({k} \X Chunks)
  /\ Goto(k, "drain")
  /\ UNCHANGED <<block, pool, gen, done, todo, expired, records, result, state,
                 pending, handed>>

\* Mutant of Drained: the cancelled futures are waited for too.
DrainedOfAll(k) ==
  /\ pc[k] = "drain"
  /\ \A c \in Submitted(k) : c \in Settled(k) \/ fut[<<k, c>>] = "notified"
  /\ Fallback(k)
  /\ UNCHANGED <<block, pool, gen, done, expired, records, log, errorAt, poolVars>>

\* wait on the futures that could not be cancelled, then MidRunSerializationError.
Drained(k) ==
  /\ pc[k] = "drain"
  /\ Submitted(k) \ Cancelled(k) \subseteq Settled(k)
  /\ Fallback(k)
  /\ UNCHANGED <<block, pool, gen, done, expired, records, log, errorAt, poolVars>>

-----------------------------------------------------------------------------
(***************************************************************************)
(* The waits.                                                              *)
(***************************************************************************)
\* wait(futures, timeout, FIRST_EXCEPTION).
WaitReturns(k) ==
  /\ pc[k] = "wait"
  /\ \/ Settled(k) = Rest(k)
     \/ Bad(k) # {}
     \/ expired[k]
  /\ done' = [done EXCEPT ![k] = Settled(k)]
  /\ Goto(k, "woken")
  /\ UNCHANGED <<block, pool, gen, todo, expired, records, result, poolVars>>

\* Not everything is done and the clock, read again, is past the deadline:
\* cancel, and recycle the module's pool.
TimesOut(k) ==
  /\ pc[k] = "woken"
  /\ done[k] # Rest(k)
  /\ expired[k]
  /\ fut' = WithCancelled({k} \X (Rest(k) \ done[k]))
  /\ Recycle
  /\ Goto(k, "killed")
  /\ UNCHANGED <<block, gen, done, todo, expired, records, result, pending, handed>>

\* Otherwise a second wait, without a timeout, for what is not done.
WaitsForRest(k) ==
  /\ pc[k] = "woken"
  /\ done[k] = Rest(k) \/ ~expired[k]
  /\ Goto(k, IF done[k] = Rest(k) THEN "gather" ELSE "rest")
  /\ UNCHANGED <<block, pool, gen, done, todo, expired, records, result, poolVars>>

RestReturns(k) ==
  /\ pc[k] = "rest"
  /\ Settled(k) = Rest(k)
  /\ done' = [done EXCEPT ![k] = Rest(k)]
  /\ Goto(k, "gather")
  /\ UNCHANGED <<block, pool, gen, todo, expired, records, result, poolVars>>

-----------------------------------------------------------------------------
(***************************************************************************)
(* _records_of, _join and the commits.                                     *)
(***************************************************************************)
Gathering(k) == pc[k] \in {"gather", "killed"}
Gathered(k) == done[k] \cap Bad(k) = {}

\* Mutant of GatherFails: the dead pool stays the module's.
GatherFailsKeepingPool(k, c) ==
  /\ Gathering(k)
  /\ c \in done[k] \cap Bad(k)
  /\ IF fut[<<k, c>>] = "unsendable" THEN End(k, "crashed") ELSE Fallback(k)
  /\ UNCHANGED <<block, pool, gen, done, expired, records, log, errorAt, poolVars>>

\* result() of the first future met that raises, in no order: a bundle no
\* worker could load and a broken pool recycle and fall back, anything else
\* is raised as it is.
GatherFails(k, c) ==
  /\ Gathering(k)
  /\ c \in done[k] \cap Bad(k)
  /\ IF fut[<<k, c>>] = "unsendable"
     THEN End(k, "crashed") /\ UNCHANGED <<pool, state>>
     ELSE Fallback(k) /\ Recycle
  /\ UNCHANGED <<block, gen, done, expired, records, log, errorAt, pending, handed, fut>>

\* The timeout's commit.
CommitPrefix(k) ==
  /\ pc[k] = "killed" /\ Gathered(k)
  /\ Commit(k, ContiguousPrefix(done[k], Clean(k)))
  /\ Decide(k, "timeout")
  /\ UNCHANGED <<block, pool, gen, done, expired, records, log, errorAt, poolVars>>

Joinable(k) == pc[k] = "gather" /\ Gathered(k)
Joined(k) == done[k] \cup ProbeRecord(k)

\* Mutant of JoinError: the erring record's own writes are not committed.
JoinErrorBelow(k, c) ==
  /\ Joinable(k)
  /\ c \in done[k] \ Clean(k)
  /\ \A d \in done[k] \ Clean(k) : c <= d
  /\ Commit(k, {d \in Joined(k) : d < c})
  /\ Decide(k, IF stop[k][c] = "deadline" THEN "timeout" ELSE "error")
  /\ errorAt' = [errorAt EXCEPT ![k] = at[k][c]]
  /\ UNCHANGED <<block, pool, gen, done, expired, records, log, poolVars>>

\* Mutant of JoinError: any record with an error, not the lowest.
JoinAnyError(k, c) ==
  /\ Joinable(k)
  /\ c \in done[k] \ Clean(k)
  /\ Commit(k, {d \in Joined(k) : d <= c})
  /\ Decide(k, IF stop[k][c] = "deadline" THEN "timeout" ELSE "error")
  /\ errorAt' = [errorAt EXCEPT ![k] = at[k][c]]
  /\ UNCHANGED <<block, pool, gen, done, expired, records, log, poolVars>>

\* The lowest record with an error: it and those below it are committed.
JoinError(k, c) ==
  /\ Joinable(k)
  /\ c \in done[k] \ Clean(k)
  /\ \A d \in done[k] \ Clean(k) : c <= d
  /\ Commit(k, {d \in Joined(k) : d <= c})
  /\ Decide(k, IF stop[k][c] = "deadline" THEN "timeout" ELSE "error")
  /\ errorAt' = [errorAt EXCEPT ![k] = at[k][c]]
  /\ UNCHANGED <<block, pool, gen, done, expired, records, log, poolVars>>

JoinAll(k) ==
  /\ Joinable(k)
  /\ done[k] \subseteq Clean(k)
  /\ Commit(k, Joined(k))
  /\ Decide(k, "returned")
  /\ UNCHANGED <<block, pool, gen, done, expired, records, log, errorAt, poolVars>>

\* _commit_records: the lowest record left.
CommitOne(k, c) ==
  /\ pc[k] = "commit"
  /\ c \in todo[k]
  /\ \A d \in todo[k] : c <= d
  /\ log' = [log EXCEPT ![k] = Extend(@, Lo(c), at[k][c])]
  /\ todo' = [todo EXCEPT ![k] = @ \ {c}]
  /\ UNCHANGED <<block, pool, pc, gen, done, expired, records, outcome, errorAt, poolVars>>

Committed(k) ==
  /\ pc[k] = "commit" /\ todo[k] = {}
  /\ Goto(k, IF outcome[k] = "none" THEN "twin" ELSE "end")
  /\ UNCHANGED <<block, pool, gen, done, todo, expired, records, result, poolVars>>

\* _run_twin from the probe's end, up to m.  Nobody else sees it run.
Twin(k) ==
  /\ pc[k] = "twin"
  /\ \E m \in Resume(k) .. N :
       /\ \A p \in Resume(k) .. m - 1 : p \notin block[k].raises
       /\ m < N => m \in block[k].raises
       /\ log' = [log EXCEPT ![k] = Extend(@, Resume(k), m)]
       /\ Decide(k, IF m = N THEN "returned" ELSE "error")
       /\ errorAt' = [errorAt EXCEPT ![k] = IF m = N THEN @ ELSE m]
  /\ Goto(k, "commit")
  /\ UNCHANGED <<block, pool, gen, done, todo, expired, records, poolVars>>

-----------------------------------------------------------------------------
(***************************************************************************)
(* The pools, the clock and the keyboard.                                  *)
(***************************************************************************)
callers == <<block, pool, pc, gen, done, todo, expired, result>>

HandOver(g) == PoolHandOver(g) /\ UNCHANGED <<callers, records>>

Flush(g) == PoolFlush(g) /\ UNCHANGED <<callers, records>>

Break(g) == /\ "break" \in Faults
            /\ PoolBreak(g)
            /\ UNCHANGED <<callers, records>>

\* Chunk c of k can end at p for the reason s: its end, the first iteration
\* to raise, or one that finds the deadline passed.
ChunkEnds(k, c, p, s) ==
  /\ \A q \in Lo(c) .. p - 1 : q \notin block[k].raises
  /\ \/ s = "none" /\ p = Hi(c)
     \/ s = "error" /\ p < Hi(c) /\ p \in block[k].raises
     \/ s = "deadline" /\ p < Hi(c) /\ block[k].perTask /\ expired[k]

\* _run_chunk_task in a worker process, and its result on the way back.
RunChunk(g, i) ==
  /\ i \in 1 .. Len(handed[g])
  /\ LET k == handed[g][i][1]
         c == handed[g][i][2]
     IN \/ /\ block[k].fate[c] \in {"unreadable", "unsendable"}
           /\ PoolFinish(g, i, block[k].fate[c])
           /\ UNCHANGED records
        \/ /\ block[k].fate[c] = "fine"
           /\ PoolFinish(g, i, "done")
           /\ \E p \in Lo(c) .. Hi(c), s \in {"none", "error", "deadline"} :
                /\ ChunkEnds(k, c, p, s)
                /\ at' = [at EXCEPT ![k][c] = p]
                /\ stop' = [stop EXCEPT ![k][c] = s]
  /\ UNCHANGED callers

Expire(k) ==
  /\ block[k].deadline /\ ~expired[k]
  /\ expired' = [expired EXCEPT ![k] = TRUE]
  /\ UNCHANGED <<block, pool, pc, gen, done, todo, records, result, poolVars>>

\* KeyboardInterrupt: nothing here catches it, the futures are left.
Interrupt(k) ==
  /\ "interrupt" \in Faults
  /\ pc[k] \in {"submit", "drain", "wait", "rest"}
  /\ End(k, "interrupt")
  /\ UNCHANGED <<block, pool, gen, done, expired, records, log, errorAt, poolVars>>

-----------------------------------------------------------------------------
Submitting(k) == \E c \in Chunks : Submit(k, c) \/ SubmitRaises(k, c) \/ PickleFails(k, c)
Waiting(k) == WaitReturns(k) \/ TimesOut(k) \/ WaitsForRest(k) \/ RestReturns(k)
Joining(k) == CommitPrefix(k) \/ JoinAll(k) \/ \E c \in Chunks : GatherFails(k, c) \/ JoinError(k, c)
Committing(k) == Committed(k) \/ \E c \in Chunks : CommitOne(k, c)

CallerStep(k) == \/ TakePool(k) \/ Submitting(k) \/ Drained(k) \/ Waiting(k)
                 \/ Joining(k) \/ Committing(k) \/ Twin(k)

PoolStep(g) == HandOver(g) \/ Flush(g) \/ \E i \in 1 .. Procs : RunChunk(g, i)

\* Every call is over, and so is what was left in the pools.
Over == /\ \A k \in Callers : pc[k] = "end"
        /\ UNCHANGED vars

Next == \/ \E k \in Callers : CallerStep(k) \/ Expire(k) \/ Interrupt(k)
        \/ \E g \in Gens : PoolStep(g) \/ Break(g)
        \/ Over

Spec == Init /\ [][Next]_vars

(***************************************************************************)
(* The operating system runs every caller, manager thread and worker       *)
(* process; nobody promises a crash, a key or a deadline.                  *)
(***************************************************************************)
Fairness == /\ \A k \in Callers : WF_vars(CallerStep(k))
            /\ \A g \in Gens : WF_vars(PoolStep(g))

FairSpec == Spec /\ Fairness

-----------------------------------------------------------------------------
(***************************************************************************)
(* Properties.                                                             *)
(***************************************************************************)
Outcomes == {"none", "returned", "error", "timeout", "interrupt", "refused", "crashed"}

TypeOK ==
  /\ block \in Programs
  /\ pool \in Gens \cup {0}
  /\ pc \in [Callers -> {"open", "submit", "drain", "wait", "woken", "rest",
                         "killed", "gather", "commit", "twin", "end"}]
  /\ gen \in [Callers -> Gens \cup {0}]
  /\ done \in [Callers -> SUBSET Chunks]
  /\ todo \in [Callers -> SUBSET Chunks]
  /\ expired \in [Callers -> BOOLEAN]
  /\ at \in [Callers -> [Chunks -> 0 .. N]]
  /\ stop \in [Callers -> [Chunks -> {"none", "error", "deadline"}]]
  /\ log \in [Callers -> Seq(Pos)]
  /\ outcome \in [Callers -> Outcomes]
  /\ errorAt \in [Callers -> 0 .. N]
  /\ PoolTypeOK

Ended(k, o) == pc[k] = "end" /\ outcome[k] = o

\* A block that returns has done exactly what the loop does, whatever other
\* blocks, pickling and the pool did to its parallel attempt.
ReturnsWholeLoop ==
  \A k \in Callers : Ended(k, "returned") => log[k] = Iota(N)

\* An error leaves exactly the iterations before the one whose error is
\* raised: errors come back as values, so every chunk below it has run.
ErrorLeavesPrefix ==
  \A k \in Callers : Ended(k, "error") => /\ errorAt[k] \in block[k].raises
                                          /\ log[k] = Iota(errorAt[k])

\* A hard kill commits a prefix of the loop when chunk 0 was not probed into
\* a record and the first chunk submitted was among those the wait reported.
KilledLeavesPrefix ==
  \A k \in Callers :
    /\ Ended(k, "timeout") /\ done[k] # Rest(k)
    /\ block[k].probed # "chunk" /\ First(k) \in done[k]
    => IsPrefixOfLoop(log[k])

\* The program never has two pools open: no recycle, by whichever caller and
\* of whichever pool, leaks one.
OneOpenPool == \A g \in Gens : state[g] = "open" => g = pool

\* A caller whose join met a broken pool, or one that cannot load its bundles,
\* does not leave that pool to the next block.
LeavesNoDeadPool ==
  \A k \in Callers :
    pc[k] = "twin" /\ (\E c \in done[k] : fut[<<k, c>>] \in {"broken", "unreadable"})
    => pool # gen[k]

\* A block never takes a pool that was shut down: only a shutdown after that
\* can make its submissions raise.
NeverTakesShutPool ==
  [][\A k \in Callers : gen'[k] # gen[k] => state'[gen'[k]] \in {"open", "broken"}]_vars

\* k waits without a timeout for a future the shutdown of its pool cancelled.
Orphaned(k) == /\ pc[k] \in {"wait", "rest"}
               /\ \E c \in Chunks : fut[<<k, c>>] = "cancelled"

\* Being orphaned is the only way a call can fail to end.
EndsUnlessOrphaned == <>(\A k \in Callers : pc[k] = "end" \/ Orphaned(k))

Loop(k) == INSTANCE SequentialLoop
             WITH raises <- block[k].raises, log <- log[k],
                  outcome <- IF pc[k] = "end" THEN outcome[k] ELSE "none"

\* A block that starts with no twin probe and has no timeout is the sequential
\* loop to its caller, if it ends: pools breaking or recycled under it,
\* bundles lost and submissions refused included.
ImplementsLoop ==
  /\ \A k \in Callers : Loop(k)!Init
  /\ [][\A k \in Callers : Loop(k)!Next \/ UNCHANGED Loop(k)!loopVars]_vars

-----------------------------------------------------------------------------
(***************************************************************************)
(* What the documentation says and the code does not do: see the README.   *)
(***************************************************************************)
\* Every call ends, whatever other blocks do to the pool.
Terminates == \A k \in Callers : <>(pc[k] = "end")

\* A failure past the gate can only end in the sequential rerun.
FailuresFallBack == \A k \in Callers : outcome[k] # "crashed"

\* timeout= is a hard kill: no chunk of the block runs to its end after it.
TimeoutKills ==
  [][\A k \in Callers, c \in Chunks :
       Ended(k, "timeout") /\ fut[<<k, c>>] = "running" => fut'[<<k, c>>] # "done"]_vars
=============================================================================
