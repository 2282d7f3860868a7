----------------------------- MODULE ProcessPool -----------------------------
(***************************************************************************)
(* CPython's concurrent.futures.ProcessPoolExecutor, as far as the PROCESS *)
(* backend depends on it (external code, modelled from how                 *)
(* process_backend.py uses it: submit, cancel, wait, result, shutdown).    *)
(* Every pool the program creates is a generation; a job is a chunk of a   *)
(* caller.                                                                 *)
(*                                                                         *)
(*   - a manager thread moves jobs from the pending list to a bounded call *)
(*     queue; from then on their futures are RUNNING and cannot be         *)
(*     cancelled, even while no process has them;                          *)
(*   - shutdown(wait=False, cancel_futures=True) refuses submissions at    *)
(*     once and cancels pending jobs later, in the manager thread, which   *)
(*     forgets them: those futures are never notified, so a wait on one    *)
(*     never ends.  It kills no process: jobs handed over still run;       *)
(*   - a worker process that dies breaks the pool: every job left fails.   *)
(***************************************************************************)
EXTENDS Chunking, FiniteSets, Sequences

CONSTANTS Callers,   (* threads of the program that call marked blocks  *)
          Procs      (* max_workers, fixed when the pool is created     *)

ASSUME ProcessPoolAssumption == /\ Procs \in Nat \ {0}
                                /\ IsFiniteSet(Callers)

Jobs == Callers \X Chunks
Gens == 1 .. Cardinality(Callers)   (* a call creates at most one pool *)

VARIABLES state,     (* each generation's life                       *)
          pending,   (* jobs the manager thread has not handed over  *)
          handed,    (* jobs in the call queue or in a process       *)
          fut        (* the state of each job's future               *)

poolVars == <<state, pending, handed, fut>>

\* How a job that ran can end: with chunk results, or with an exception.
Results == {"done", "unreadable", "unsendable"}
\* "cancelled" is CANCELLED, which a wait does not count as done; "notified"
\* is CANCELLED_AND_NOTIFIED, which it does.
FutureState == {"none", "queued", "running", "cancelled", "notified", "broken"}
               \cup Results

PoolTypeOK == /\ state \in [Gens -> {"none", "open", "closing", "closed", "broken"}]
              /\ pending \in [Gens -> Seq(Jobs)]
              /\ handed \in [Gens -> Seq(Jobs)]
              /\ fut \in [Jobs -> FutureState]

PoolInit == /\ state = [g \in Gens |-> "none"]
            /\ pending = [g \in Gens |-> <<>>]
            /\ handed = [g \in Gens |-> <<>>]
            /\ fut = [j \in Jobs |-> "none"]

\* The call queue takes EXTRA_QUEUED_CALLS (1) more jobs than processes.
Slots == Procs + Procs + 1

JobsOf(g) == {pending[g][i] : i \in 1 .. Len(pending[g])}
             \cup {handed[g][i] : i \in 1 .. Len(handed[g])}

-----------------------------------------------------------------------------
PoolSubmit(g, j) == /\ state[g] = "open"
                    /\ fut' = [fut EXCEPT ![j] = "queued"]
                    /\ pending' = [pending EXCEPT ![g] = Append(@, j)]
                    /\ UNCHANGED <<state, handed>>

\* add_call_item_to_queue: a cancelled job is dropped, and its future notified.
PoolHandOver(g) ==
  /\ state[g] \in {"open", "closing"}
  /\ pending[g] # <<>>
  /\ Len(handed[g]) < Slots
  /\ pending' = [pending EXCEPT ![g] = Tail(@)]
  /\ LET j == Head(pending[g]) IN
       IF fut[j] = "cancelled"
       THEN /\ fut' = [fut EXCEPT ![j] = "notified"]
            /\ UNCHANGED handed
       ELSE /\ handed' = [handed EXCEPT ![g] = Append(@, j)]
            /\ fut' = [fut EXCEPT ![j] = "running"]
  /\ UNCHANGED state

\* One of the jobs the processes have, the oldest Procs handed over, ends.
PoolFinish(g, i, result) ==
  /\ i \in 1 .. Len(handed[g]) /\ i <= Procs
  /\ fut' = [fut EXCEPT ![handed[g][i]] = result]
  /\ handed' = [handed EXCEPT ![g] = SubSeq(@, 1, i - 1) \o SubSeq(@, i + 1, Len(@))]
  /\ UNCHANGED <<state, pending>>

\* The manager thread sees the shutdown: pending futures are cancelled.
PoolFlush(g) ==
  /\ state[g] = "closing"
  /\ state' = [state EXCEPT ![g] = "closed"]
  /\ fut' = [j \in Jobs |-> IF fut[j] = "queued" /\ j \in JobsOf(g)
                            THEN "cancelled" ELSE fut[j]]
  /\ pending' = [pending EXCEPT ![g] = <<>>]
  /\ UNCHANGED handed

\* A worker process dies, busy or idle: _broken is set, what is left fails.
PoolBreak(g) ==
  /\ \/ state[g] = "open"
     \/ state[g] \in {"closing", "closed"} /\ JobsOf(g) # {}
  /\ state' = [state EXCEPT ![g] = "broken"]
  /\ fut' = [j \in Jobs |-> IF fut[j] \in {"queued", "running"} /\ j \in JobsOf(g)
                            THEN "broken" ELSE fut[j]]
  /\ pending' = [pending EXCEPT ![g] = <<>>]
  /\ handed' = [handed EXCEPT ![g] = <<>>]

\* fut with the futures of J cancelled that still can be.
WithCancelled(J) ==
  [j \in Jobs |-> IF j \in J /\ fut[j] = "queued" THEN "cancelled" ELSE fut[j]]

=============================================================================
