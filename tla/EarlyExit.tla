------------------------------ MODULE EarlyExit ------------------------------
(***************************************************************************)
(* early_exit.execute_early_exit: a loop that breaks, run in speculative   *)
(* chunks.  The caller submits every chunk to the shared thread pool and   *)
(* waits for all of them; a chunk that meets a break offers it to a low-   *)
(* water mark, and a chunk that starts beyond the mark does nothing.  The  *)
(* caller then commits the chunks up to the mark.                          *)
(*                                                                         *)
(* The generated chunk notes its iteration before EVERY break of the body, *)
(* that of a loop inside it too (generator.py, visit_Break), though only a *)
(* break of the marked loop stops the chunk.  What a chunk offers is what  *)
(* it noted last: when an inner loop's break is all it met, the mark falls *)
(* where the loop does not stop (Misled), and the properties say what then *)
(* still holds.                                                            *)
(*                                                                         *)
(* A break is offered as the VALUE of the loop variable and compared with  *)
(* POSITIONS of the domain; the two agree when the domain starts at 0 with *)
(* step 1 (Aligned), which enumerate and plain sequences always do.        *)
(* Ranges that descend or start below 0 are left out.                      *)
(***************************************************************************)
EXTENDS Chunking, FiniteSets

CONSTANTS Workers,   (* the block's budget of running chunks               *)
          Threads,   (* the shared pool's threads: max(workers, cpu count) *)
          Blocks,    (* the blocks considered, records of BlockType        *)
          BreakSets, (* which iterations reach the break                   *)
          InnerSets, (* which ones break out of a loop inside the body     *)
          RaiseSets, (* which iterations raise                             *)
          Faults     (* what the environment may do                        *)

(***************************************************************************)
(* first, step  the range the loop runs over (0 and 1 for other domains)   *)
(* keys         how many keys an iteration writes in a dict slab           *)
(* late         the break comes after the iteration's writes               *)
(* inplace      no slab: the body mutates the caller's objects             *)
(***************************************************************************)
BlockType == [first : Nat, step : Nat \ {0}, keys : Nat \ {0},
              late : BOOLEAN, inplace : BOOLEAN]

AllFaults == {"no_thread", "interrupt"}

ASSUME EarlyExitAssumption == /\ Workers \in Nat \ {0}
                              /\ Threads \in Nat \ {0}
                              /\ Blocks \subseteq BlockType
                              /\ BreakSets \subseteq SUBSET Pos
                              /\ InnerSets \subseteq SUBSET Pos
                              /\ RaiseSets \subseteq SUBSET Pos
                              /\ Faults \subseteq AllFaults

VARIABLES block, breaks, inner, raises,   \* the block and its data: fixed by Init
          pc,       \* the caller: "submit", "wait" or "end"
          chunk,    \* the state of each chunk's job
          at,       \* the next iteration of each chunk
          offers,   \* what was offered to the low-water mark
          shown,    \* the writes the containers show, <<position, key>>
          target,   \* the position whose element the loop variable keeps
          outcome   \* how the call ended, "none" before

data == <<block, breaks, inner, raises>>
vars == <<data, pc, chunk, at, offers, shown, target, outcome>>

Keys == 1 .. block.keys

Value(p) == block.first + p * block.step

\* Whether the lowest offer is below position p, or at it.
Below(p) == \E v \in offers : v < p
Reached(p) == \E v \in offers : v <= p

\* The breaks the chunk met, and the iteration it noted last, if any.
Met(c) == {p \in breaks \cup inner : Lo(c) <= p /\ p < at[c]}
Noted(c) == {p \in Met(c) : \A q \in Met(c) : q <= p}

\* What iteration p writes: nothing when its break comes first.
Writes(p) == IF p \in breaks /\ ~block.late THEN {} ELSE {p} \X Keys

Active == {c \in Chunks : chunk[c] \in {"taken", "waiting", "running", "ran"}}
Running == {c \in Chunks : chunk[c] = "running"}
Finished == {"done", "skipped", "failed"}

Init == /\ block \in Blocks
        /\ breaks \in BreakSets
        /\ inner \in InnerSets
        /\ raises \in {R \ breaks : R \in RaiseSets}
        /\ pc = "submit"
        /\ chunk = [c \in Chunks |-> "none"]
        /\ at = [c \in Chunks |-> Lo(c)]
        /\ offers = {}
        /\ shown = {}
        /\ target = -1
        /\ outcome = "none"

-----------------------------------------------------------------------------
(* The caller *)

Ends(how) == pc' = "end" /\ outcome' = how

\* One more job on the pool; after the last the caller waits.
Submit == /\ pc = "submit"
          /\ \E c \in Chunks :
               /\ chunk[c] = "none"
               /\ \A d \in 0 .. c - 1 : chunk[d] # "none"
               /\ chunk' = [chunk EXCEPT ![c] = "queued"]
               /\ pc' = IF c = NBounds - 1 THEN "wait" ELSE "submit"
          /\ UNCHANGED <<data, at, offers, shown, target, outcome>>

\* The pool cannot start a thread for a job it has queued: nothing here
\* handles the error, and the jobs queued so far stay with the pool.
SubmitFails == /\ pc = "submit" /\ "no_thread" \in Faults
               /\ \E c \in Chunks :
                    /\ chunk[c] = "none"
                    /\ \A d \in 0 .. c - 1 : chunk[d] # "none"
                    /\ chunk' = [chunk EXCEPT ![c] = "queued"]
               /\ Ends("crashed")
               /\ UNCHANGED <<data, at, offers, shown, target>>

\* Ctrl-C in the wait: nothing is committed or cancelled.
Interrupt == /\ pc = "wait" /\ "interrupt" \in Faults
             /\ Ends("interrupt")
             /\ UNCHANGED <<data, chunk, at, offers, shown, target>>

\* Mutant of Joined: the wait returns on the first chunk that fails.
JoinedOnFailure == /\ pc = "wait"
                   /\ \/ \A c \in Chunks : chunk[c] \in Finished
                      \/ \E c \in Chunks : chunk[c] = "failed"
Joined == pc = "wait" /\ \A c \in Chunks : chunk[c] \in Finished

\* Any of the errors is raised, and nothing is committed.
JoinError == /\ Joined
             /\ \E c \in Chunks : chunk[c] = "failed"
             /\ Ends("error")
             /\ UNCHANGED <<data, chunk, at, offers, shown, target>>

\* Mutant of Kept: the iteration that breaks is cut off.
KeptShort(c) == {p \in Lo(c) .. Hi(c) - 1 : ~Reached(p)}
\* Positions of chunk c the commit keeps: up to the lowest offer.
Kept(c) == {p \in Lo(c) .. Hi(c) - 1 : ~Below(p)}

\* _commit_prefix cuts a list slab by position.  It cuts a dict slab to as
\* many items as there are positions, in the order they were written.
Committed(c) ==
  {w \in UNION {Writes(p) : p \in Lo(c) .. at[c] - 1} :
     (w[1] - Lo(c)) * block.keys + w[2] <= Cardinality(Kept(c))}

\* Mutant of StopsAt: the domain is taken to have been run to its end.
StopsAtEnd == N - 1
\* The position of the lowest offer, the last one when there is none.
StopsAt == IF \E p \in Pos : Reached(p)
           THEN CHOOSE p \in Pos : Reached(p) /\ \A q \in 0 .. p - 1 : ~Reached(q)
           ELSE N - 1

\* The slabs of the chunks up to the mark are committed, the loop variable is
\* rebound to the element at the mark.
Join == /\ Joined
        /\ \A c \in Chunks : chunk[c] # "failed"
        /\ shown' = shown \cup
             IF block.inplace THEN {}
             ELSE UNION {Committed(c) : c \in {d \in Chunks : chunk[d] = "done"}}
        /\ target' = StopsAt
        /\ Ends("returned")
        /\ UNCHANGED <<data, chunk, at, offers>>

-----------------------------------------------------------------------------
(* The pool's threads *)

\* A thread takes the first queued job.
Take(c) == /\ chunk[c] = "queued"
           /\ \A d \in 0 .. c - 1 : chunk[d] # "queued"
           /\ Cardinality(Active) < Threads
           /\ chunk' = [chunk EXCEPT ![c] = "taken"]
           /\ UNCHANGED <<data, pc, at, offers, shown, target, outcome>>

\* Mutant of Look: a chunk is skipped for a break at its upper bound.
LookOver(c) == /\ chunk[c] = "taken"
               /\ chunk' = [chunk EXCEPT ![c] = IF Reached(Hi(c)) THEN "skipped" ELSE "waiting"]
               /\ UNCHANGED <<data, pc, at, offers, shown, target, outcome>>
\* The job looks at the mark, before it waits for the budget.
Look(c) == /\ chunk[c] = "taken"
           /\ chunk' = [chunk EXCEPT ![c] = IF Reached(Lo(c)) THEN "skipped" ELSE "waiting"]
           /\ UNCHANGED <<data, pc, at, offers, shown, target, outcome>>

\* Mutant of Acquire: the budget is never free again.
AcquireOnce(c) == /\ chunk[c] = "waiting"
                  /\ Cardinality({d \in Chunks : chunk[d] \notin {"none", "queued", "taken", "waiting", "skipped"}})
                       < Workers
                  /\ chunk' = [chunk EXCEPT ![c] = "running"]
                  /\ UNCHANGED <<data, pc, at, offers, shown, target, outcome>>
Acquire(c) == /\ chunk[c] = "waiting"
              /\ Cardinality(Running) < Workers
              /\ chunk' = [chunk EXCEPT ![c] = "running"]
              /\ UNCHANGED <<data, pc, at, offers, shown, target, outcome>>

\* One iteration: it raises, or it leaves its writes and may break.  The last
\* one, or a break of the marked loop, gives the budget back; an inner loop's
\* break leaves the chunk running.
Iterate(c) ==
  /\ chunk[c] = "running"
  /\ LET p == at[c]
     IN  IF p \in raises
         THEN /\ chunk' = [chunk EXCEPT ![c] = "failed"]
              /\ UNCHANGED <<at, shown>>
         ELSE /\ at' = [at EXCEPT ![c] = p + 1]
              /\ shown' = IF block.inplace THEN shown \cup Writes(p) ELSE shown
              /\ chunk' = IF p \in breaks \/ p + 1 = Hi(c)
                          THEN [chunk EXCEPT ![c] = "ran"] ELSE chunk
  /\ UNCHANGED <<data, pc, offers, target, outcome>>

\* The chunk offers what it noted, if anything, and hands in its record.
Offer(c) == /\ chunk[c] = "ran"
            /\ offers' = offers \cup {Value(p) : p \in Noted(c)}
            /\ chunk' = [chunk EXCEPT ![c] = "done"]
            /\ UNCHANGED <<data, pc, at, shown, target, outcome>>

-----------------------------------------------------------------------------
Caller == Submit \/ SubmitFails \/ Interrupt \/ JoinError \/ Join
Job(c) == Take(c) \/ Look(c) \/ Acquire(c) \/ Iterate(c) \/ Offer(c)

\* The call has ended and its jobs with it.
Over == /\ pc = "end"
        /\ \A c \in Chunks : chunk[c] \in Finished \cup {"none"}
        /\ UNCHANGED vars

Next == Caller \/ (\E c \in Chunks : Job(c)) \/ Over

Spec == Init /\ [][Next]_vars

\* The caller and the pool's threads run when they can; faults need not come.
FairSpec == /\ Spec
            /\ WF_vars(Submit \/ JoinError \/ Join)
            /\ \A c \in Chunks : WF_vars(Job(c))

-----------------------------------------------------------------------------
TypeOK == /\ block \in Blocks
          /\ breaks \subseteq Pos /\ inner \subseteq Pos /\ raises \subseteq Pos
          /\ pc \in {"submit", "wait", "end"}
          /\ chunk \in [Chunks -> {"none", "queued", "taken", "waiting", "running", "ran"} \cup Finished]
          /\ at \in [Chunks -> 0 .. N]
          /\ offers \subseteq {Value(p) : p \in breaks \cup inner}
          /\ shown \subseteq Pos \X Keys
          /\ target \in -1 .. N - 1
          /\ outcome \in {"none", "returned", "error", "interrupt", "crashed"}

Aligned == block.first = 0 /\ block.step = 1

\* What the loop, run in sequence, leaves: everything up to its first break.
LoopRuns(p) == \A q \in breaks : q >= p
Leaves(P) == UNION {Writes(p) : p \in P}
LoopShows == Leaves({p \in Pos : LoopRuns(p)})

\* A chunk the loop runs to its end, without a break of the marked loop, notes
\* an inner loop's break before the last iteration of all, and offers it.
Misled ==
  \E c \in Chunks, q \in inner :
    /\ Lo(c) <= q /\ q < Hi(c) /\ q < N - 1 /\ LoopRuns(q)
    /\ \A p \in breaks : ~(Lo(c) <= p /\ p < Hi(c))
    /\ \A p \in inner : p < Hi(c) => p <= q

\* "the committed result is the prefix up to the lowest break plus that
\* iteration's own pre-break writes" (docs/spec, 5.9.1), for the blocks of
\* which it holds: an aligned domain, one key an iteration, a slab.  It is the
\* prefix up to the mark always, and what the loop leaves when no inner loop's
\* break misled it.
StopsAtFirstBreak ==
  outcome = "returned" /\ Aligned /\ block.keys = 1 /\ ~block.inplace =>
    shown = Leaves(0 .. target) /\ (shown = LoopShows \/ Misled)

\* The loop variable keeps an element the loop reaches, and the one it stopped
\* on (_rebind_exit) unless an inner loop's break misled the mark.
KeepsTarget ==
  outcome = "returned" /\ Aligned =>
    LoopRuns(target) /\ (target = N - 1 \/ target \in breaks \/ Misled)

\* Without a slab the chunks write as they run: on a return nothing the loop
\* does up to the mark is missing, nor anything it does at all when the mark was
\* not misled, though chunks beyond the mark may have added to it.
InPlaceMissesNothing ==
  outcome = "returned" /\ Aligned /\ block.inplace =>
    Leaves(0 .. target) \subseteq shown /\ (LoopShows \subseteq shown \/ Misled)

\* However chunks race to the mark, one that was skipped starts beyond an
\* iteration that met a break, and beyond the first break of the marked loop
\* unless the mark was misled: aligned domain or not.
SkipsOnlyBeyondBreak ==
  \A c \in Chunks : chunk[c] = "skipped" =>
    /\ \E q \in breaks \cup inner : q < Lo(c)
    /\ ~LoopRuns(Lo(c)) \/ Misled

\* When the call returns or raises an iteration's error, no chunk is left to
\* write into the caller's objects.
NoWriterAfterEnd == outcome \in {"returned", "error"} => Active = {}

\* Every call ends.
Terminates == <>(pc = "end")

\* The documented promise, whatever the domain: a return leaves the prefix.
MatchesFirstBreak ==
  outcome = "returned" /\ block.keys = 1 /\ ~block.inplace => shown = LoopShows

\* "An inner-loop `break` is not mistaken for an early exit of the marked loop"
\* (docs/spec, 5.3): the loop variable ends on a break of the marked loop, or
\* on the last element.  The noted iterations of inner loops break it.
InnerBreakIsNotTheExit ==
  outcome = "returned" /\ Aligned => target = N - 1 \/ target \in breaks
=============================================================================
