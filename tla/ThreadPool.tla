----------------------------- MODULE ThreadPool -----------------------------
(***************************************************************************)
(* CPython's concurrent.futures.ThreadPoolExecutor, as far as the THREAD   *)
(* backend depends on it (external code, modelled from how dispatch.py     *)
(* uses it: submit, cancel, wait, exception).                              *)
(* A work item is named by the chunk it runs.                              *)
(*                                                                         *)
(*   - submit puts the work item on the queue BEFORE it adjusts the number *)
(*     of threads, so a submit that cannot start a thread raises and       *)
(*     leaves the item queued with nobody holding its future;              *)
(*   - a worker takes an item off the queue and only later moves its       *)
(*     future from PENDING to RUNNING: between the two a cancel succeeds;  *)
(*   - a thread is started only when the idle semaphore is 0, and the      *)
(*     semaphore is released once per item a worker has dealt with.        *)
(***************************************************************************)
EXTENDS Chunking, FiniteSets

CONSTANT PoolSize    (* max_workers, fixed when the pool is created *)

ASSUME PoolAssumption == PoolSize \in Nat \ {0}

VARIABLES queue,     (* _work_queue: items no worker has taken         *)
          threads,   (* worker threads started so far                  *)
          idle,      (* value of _idle_semaphore                       *)
          busy,      (* items in a worker's hands                      *)
          fut        (* the state of each item's future                *)

poolVars == <<queue, threads, idle, busy, fut>>

\* "queued" is PENDING, "failed" is FINISHED with an exception.
FutureState == {"none", "queued", "running", "done", "failed", "cancelled"}

PoolTypeOK == /\ queue \in Seq(Chunks)
              /\ threads \in 0 .. PoolSize
              /\ idle \in Nat
              /\ busy \subseteq Chunks
              /\ fut \in [Chunks -> FutureState]

PoolInit == /\ queue = <<>>
            /\ threads = 0
            /\ idle = 0
            /\ busy = {}
            /\ fut = [j \in Chunks |-> "none"]

-----------------------------------------------------------------------------
Enqueue(j) == /\ fut[j] = "none"
              /\ fut' = [fut EXCEPT ![j] = "queued"]
              /\ queue' = Append(queue, j)
              /\ UNCHANGED busy

PoolSubmit(j) ==
  /\ Enqueue(j)
  /\ \/ /\ idle > 0
        /\ idle' = idle - 1
        /\ UNCHANGED threads
     \/ /\ idle = 0
        /\ threads < PoolSize
        /\ threads' = threads + 1
        /\ UNCHANGED idle
     \/ /\ idle = 0
        /\ threads = PoolSize
        /\ UNCHANGED <<threads, idle>>

\* Thread.start raises RuntimeError: submit raises it, the item stays queued.
PoolSubmitFails(j) == /\ Enqueue(j)
                      /\ idle = 0
                      /\ threads < PoolSize
                      /\ UNCHANGED <<threads, idle>>

\* A free worker's work_queue.get(block=True).
PoolTake == /\ queue # <<>>
            /\ Cardinality(busy) < threads
            /\ busy' = busy \cup {Head(queue)}
            /\ queue' = Tail(queue)
            /\ UNCHANGED <<threads, idle, fut>>

\* set_running_or_notify_cancel on a live future, then the item runs.
PoolStart(j) == /\ j \in busy
                /\ fut[j] = "queued"
                /\ fut' = [fut EXCEPT ![j] = "running"]
                /\ UNCHANGED <<queue, threads, idle, busy>>

\* set_running_or_notify_cancel on a cancelled future: the item is dropped.
PoolDiscard(j) == /\ j \in busy
                  /\ fut[j] = "cancelled"
                  /\ busy' = busy \ {j}
                  /\ idle' = idle + 1
                  /\ UNCHANGED <<queue, threads, fut>>

\* set_result or set_exception, after which the worker counts as idle again.
PoolFinish(j, state) == /\ fut[j] = "running"
                        /\ fut' = [fut EXCEPT ![j] = state]
                        /\ busy' = busy \ {j}
                        /\ idle' = idle + 1
                        /\ UNCHANGED <<queue, threads>>

\* Future.cancel: succeeds while the future is PENDING, does nothing after.
PoolCancel(j) == /\ fut' = [fut EXCEPT ![j] = IF @ = "queued" THEN "cancelled" ELSE @]
                 /\ UNCHANGED <<queue, threads, idle, busy>>

\* The items of J that finished, and whether a wait on J has nothing left.
Finished(J) == {j \in J : fut[j] \in {"done", "failed"}}
Uncancelled(J) == {j \in J : fut[j] # "cancelled"}

=============================================================================
