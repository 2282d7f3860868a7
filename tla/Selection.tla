------------------------------ MODULE Selection ------------------------------
(***************************************************************************)
(* A block from its source to its result: analysed, selected, given a plan *)
(* by codegen and run in two chunks that take turns an iteration at a      *)
(* time, level by level where it has levels, with what _commit_records and *)
(* the audit of the dict slabs do in between.  The chunks' scheduling and  *)
(* failures are ThreadDispatch; here the question is whether a block that  *)
(* is let through computes what the loop it was written as computes.       *)
(***************************************************************************)
EXTENDS Selector

CONSTANT Bodies

ASSUME SelectionAssumption == \A b \in Bodies : WellFormed(b)

VARIABLES body,      \* the block, with its clauses: fixed by Init
          stage,     \* "select", "decided", "run", "level", "twin" or "end"
          how,       \* the eligibility the selector gave it
          code,      \* what codegen made of it: plan, reductions, divisor
          direct,    \* the chunks run the loop itself in place
          heap,      \* the containers
          scalars,   \* the accumulators
          from,      \* where the current level starts
          frame,     \* what each chunk works on
          at,        \* the next iteration of each chunk
          outcome    \* "none", "refused", "unmodified", "done", "error"

vars == <<body, stage, how, code, direct, heap, scalars, from, frame, at, outcome>>

Workers == {1, 2}
Plans == IF direct THEN NoPlan ELSE code.plan
Ops == IF direct THEN {} ELSE code.reductions
OpOf(n) == code.ops[n]

CeilDiv(a, c) == -((-a) \div c)
\* The first power of the divisor past the element the level that starts at a
\* starts with.
Threshold(a) ==
  LET top == IF Elem(body, a) > 0 THEN Elem(body, a) ELSE 0
      power[k \in 0 .. top] == IF k = 0 THEN 1
                               ELSE IF power[k - 1] > top THEN power[k - 1] ELSE code.divisor * power[k - 1]
  IN  power[top]
\* Where the level ends (module Wavefront), and the loop for a block without.
LevelEnd(a) ==
  IF how # "WAVEFRONT" THEN N
  ELSE LET Below(p) == Elem(body, p) < Threshold(a)
       IN  CHOOSE z \in a + 1 .. N : (z = N \/ ~Below(z)) /\ \A p \in a + 1 .. z - 1 : Below(p)

Lo(c, a) == IF c = 1 THEN a ELSE a + CeilDiv(LevelEnd(a) - a, 2)
Hi(c, a) == IF c = 1 THEN Lo(2, a) ELSE LevelEnd(a)
Fresh(h) == [c \in Workers |-> AsFunction(body, h)]

NoCode == [made |-> FALSE, plan |-> NoPlan, reductions |-> {}, ops |-> <<>>, divisor |-> 2, direct |-> FALSE]

Init == /\ body \in Bodies
        /\ stage = "select" /\ how = "none" /\ code = NoCode /\ direct = FALSE
        /\ heap = StartHeap /\ scalars = StartNames
        /\ from = 0
        /\ frame = Fresh(StartHeap)
        /\ at = [c \in Workers |-> 0]
        /\ outcome = "none"

Ends(with) == stage' = "end" /\ outcome' = with

\* The block is analysed and selected and its code generated, once.
Decide == /\ stage = "select"
          /\ how' = Eligibility(body)
          /\ code' = IF how' \in {"RAISES", "SEQUENTIAL"} \/ ~Supported(body) THEN NoCode ELSE Artifact(body)
          /\ stage' = "decided"
          /\ UNCHANGED <<body, direct, heap, scalars, from, frame, at, outcome>>

\* It is left as it was written: refused by the analysis, the selector or
\* codegen, or, where it had code, predicted not to be worth it.
Leave == /\ stage = "decided"
         /\ \/ how = "RAISES" /\ Ends("refused")
            \/ how # "RAISES" /\ ~code.made /\ Ends("unmodified")
            \/ how \notin {"RAISES", "SEQUENTIAL"} /\ Ends(IF body.strict THEN "refused" ELSE "unmodified")
         /\ UNCHANGED <<body, how, code, direct, heap, scalars, from, frame, at>>

\* Its chunks start, or the twin when its levels do not ascend.
Start == /\ stage = "decided" /\ how \notin {"RAISES", "SEQUENTIAL"} /\ code.made
         /\ direct' \in {FALSE, code.direct}
         /\ stage' = IF how = "WAVEFRONT" /\ body.step < 0 THEN "twin" ELSE "run"
         /\ frame' = Fresh(heap)
         /\ UNCHANGED <<body, how, code, heap, scalars, from, at, outcome>>

\* The level's bounds, once the eligibility is known.
Enter == /\ stage = "run" /\ at = [c \in Workers |-> from] /\ from < N
         /\ at' = [c \in Workers |-> Lo(c, from)]
         /\ stage' = "level"
         /\ UNCHANGED <<body, how, code, direct, heap, scalars, from, frame, outcome>>

\* Chunk c runs its next iteration: on its slabs, and in place.
Iterate(c) ==
  /\ stage = "level" /\ at[c] < Hi(c, from) /\ frame[c].ok
  /\ LET f == Iteration(body, Plans, Ops, [frame[c] EXCEPT !.heap = heap], at[c])
     IN  /\ frame' = [frame EXCEPT ![c] = f]
         /\ heap' = f.heap
  /\ at' = [at EXCEPT ![c] = @ + 1]
  /\ UNCHANGED <<body, stage, how, code, direct, scalars, from, outcome>>

Done == stage = "level" /\ \A c \in Workers : at[c] = Hi(c, from) \/ ~frame[c].ok
AllOk == \A c \in Workers : frame[c].ok

\* Two chunks wrote one key of a dict slab.
Conflict == \E b \in Containers, key \in Keys :
              Plans[b] = "dict" /\ \A c \in Workers : frame[c].slab[b][key] # <<>>

JoinError == /\ Done /\ ~AllOk
             /\ Ends("error")
             /\ UNCHANGED <<body, how, code, direct, heap, scalars, from, frame, at>>

\* A conflict is rerun by the twin; under levels it is raised.
JoinConflict == /\ Done /\ AllOk /\ Conflict
                /\ IF how = "WAVEFRONT" THEN Ends("error")
                   ELSE stage' = "twin" /\ UNCHANGED outcome
                /\ UNCHANGED <<body, how, code, direct, heap, scalars, from, frame, at>>

\* A slab goes into its container, slots nobody wrote apart.
Merge(slab, h) == [b \in Containers |-> [key \in Keys |-> IF slab[b][key] = <<>> THEN h[b][key]
                                                          ELSE slab[b][key][1]]]
\* The contributions to an accumulator, in order.
Folded(op, start, sites) ==
  LET acc[m \in 0 .. Len(sites)] == IF m = 0 THEN start ELSE Combine(op, acc[m - 1], sites[m])
  IN  acc[Len(sites)]
Committed == Merge(frame[2].slab, Merge(frame[1].slab, heap))

Join == /\ Done /\ AllOk /\ ~Conflict
        /\ heap' = Committed
        /\ scalars' = [n \in Names |-> IF n \in Ops THEN Folded(OpOf(n), scalars[n], frame[1].site[n] \o frame[2].site[n])
                                   ELSE scalars[n]]
        /\ from' = LevelEnd(from)
        /\ frame' = Fresh(heap')
        /\ at' = [c \in Workers |-> LevelEnd(from)]
        /\ IF LevelEnd(from) = N THEN Ends("done") ELSE stage' = "run" /\ UNCHANGED outcome
        /\ UNCHANGED <<body, how, code, direct>>

\* The twin runs the loop from its start, on whatever is there.
Twin == /\ stage = "twin"
        /\ LET f == Straight(body, AsFunction(body, heap))
           IN  /\ heap' = f.heap
               /\ scalars' = [n \in Names |-> IF n \in Ops THEN f.local[n] ELSE scalars[n]]
               /\ Ends(IF f.ok THEN "done" ELSE "error")
        /\ UNCHANGED <<body, how, code, direct, from, frame, at>>

Over == stage = "end" /\ UNCHANGED vars

Next == Decide \/ Leave \/ Start \/ Enter \/ (\E c \in Workers : Iterate(c))
        \/ JoinError \/ JoinConflict \/ Join \/ Twin \/ Over

Spec == Init /\ [][Next]_vars

-----------------------------------------------------------------------------
(* Bodies the analysis is wrong about *)

Stmts(b, kinds) == {st \in Range(b.stmts) : st.kind \in kinds}
Uses(b, c) == {u \in UNION {Range(st.uses) : st \in Range(b.stmts)} : u.name = c}
Written(b, c) == \E st \in Range(b.stmts) :
                   st.base = c /\ st.kind \in {"store", "augstore", "nested", "augnested", "mutate", "opaque"}

\* The shape of a read and the cell take the header's index for the body's,
\* and an inner loop that binds it again is not seen.
RebindsIndex(b) == DomainNames(b) \cap {st.name : st \in Stmts(b, {"assign", "aug", "move", "walrus", "for"})} # {}
\* The loop's own index is bound by an inner loop, so an element written at
\* it is not the iteration's.
Shadows(b) == HasIndex(b) /\ "i" \in LoopVar(b)
\* A container read whole is not seen to depend on what the body writes.
ReadsWhole(b) == \E c \in Containers : Written(b, c) /\ \E u \in Uses(b, c) : u.ix.form = "whole"
\* t = x + t is folded as t + x.
AccumulatesRight(b) == \E st \in Stmts(b, {"assign"}) : st.form = "right"
\* A name bound on the way that may not be taken, and used after it.
BindsMaybe(b) == \E st \in Stmts(b, {"walrus", "for"}) : \E u \in Range(b.stmts) : st.name \in NeedsOf(u, {})
\* base[ix][0] = v and += v, in a container that gets a slab.
WritesRow(b) == \E st \in Stmts(b, {"nested", "augnested"}) : Plan(b)[st.base] # "none"
\* Rows of a container without a slab, at an index iterations may share: no
\* audit sees them.
SharesRows(b) == \E st \in Stmts(b, Writing) :
                   /\ Plan(b)[st.base] = "none" /\ ~AtIndex(b, st.ix)
                   /\ \E row \in Stmts(b, {"nested"}) : row.base = st.base
\* At 0 and -1, i // c is i: that element is read from the container though
\* the body has just written it to the slab.
RereadsRoot(b) == /\ \E p \in Pos : HasIndex(b) /\ Elem(b, p) \in {0, -1}
                  /\ \E n \in DOMAIN b.stmts : \E u \in Range(b.stmts[n].uses), m \in DOMAIN b.stmts :
                       u.ix.form = "div" /\ (m < n \/ b.stmts[n].arm = "loop") /\ b.stmts[m].base = u.name /\ b.stmts[m] \in Stmts(b, {"store", "augstore"})
\* Below 0, i // c is after i: where elements are changed in place, another
\* chunk may have changed it before it is read.
ReadsAhead(b) == /\ \E p \in Pos : HasIndex(b) /\ Elem(b, p) < -1
                 /\ \E st \in Stmts(b, {"mutate", "nested"}) : \E u \in Uses(b, st.base) : u.ix.form = "div"
\* Beside a dict slab, what chunks change in place is changed as they take
\* turns, and neither it nor a committed level is undone by a conflict.
UndoesNothing(b) == /\ "dict" \in Range(Plan(b))
                    /\ Eligibility(b) = "WAVEFRONT" \/ Stmts(b, {"mutate", "nested", "opaque"}) # {}
\* The reads of a container whose independence the user asserted.
OnTrust(b) == Asserted(b) /\ \E c \in Containers : Written(b, c) /\ Uses(b, c) # {}

Understood(b) == ~ (\/ RebindsIndex(b) \/ ReadsWhole(b) \/ AccumulatesRight(b) \/ BindsMaybe(b)
                    \/ WritesRow(b) \/ SharesRows(b) \/ RereadsRoot(b) \/ ReadsAhead(b)
                    \/ UndoesNothing(b) \/ OnTrust(b))

-----------------------------------------------------------------------------
TypeOK == /\ body.domain \in {"range", "enumerate", "sequence"}
          /\ stage \in {"select", "decided", "run", "level", "twin", "end"}
          /\ how \in {"none", "RAISES", "SEQUENTIAL", "WAVEFRONT", "REDUCTION", "THREAD_CAPABLE"}
          /\ direct \in BOOLEAN
          /\ DOMAIN heap = Containers /\ DOMAIN scalars = Names
          /\ from \in 0 .. N /\ at \in [Workers -> 0 .. N]
          /\ outcome \in {"none", "refused", "unmodified", "done", "error"}
          /\ direct => \A c \in Workers : frame[c].slab = Empty

\* What a body that ran in parallel leaves is what the loop leaves.
Same == LET f == AsWritten(body)
        IN  heap = f.heap /\ \A n \in Reductions(body) : scalars[n] = f.local[n]

\* A body that is let through, however its two chunks take turns, leaves the
\* containers and accumulators the loop leaves (select and codegen against
\* the promise of LIMITATIONS.md).
SameAsTheLoop == outcome = "done" /\ Understood(body) => Same

\* It never ends with an exception the loop would not have raised: an unbound
\* local, a row added to a number, a conflict nobody can rerun.
RaisesNothingNew == outcome = "error" /\ Understood(body) => ~AsWritten(body).ok

\* Where the chunks write the caller's containers themselves, each of them
\* only changes the elements of its own iterations, unless an inner loop
\* shadows the index.
OwnElementsOnly ==
  [][\A c \in Workers :
       direct /\ ~Shadows(body) /\ at'[c] = at[c] + 1 /\ stage' = "level" =>
         \A b \in Containers, key \in Keys :
           heap'[b][key] # heap[b][key] => key = Elem(body, at[c])]_vars

\* "behaves identically to the same file with the pragmas treated as comments"
\* (LIMITATIONS.md): no body raises where the loop does not.
EveryBodyRuns == outcome = "error" => ~AsWritten(body).ok

\* "tier B catches a duplicate as a write conflict, which discards and re-runs
\* sequentially for a last-write-wins result identical to sequential"
\* (lucen_technical_spec.md): no body keyed by values leaves anything else.
DuplicatesCaught == outcome = "done" => Same
=============================================================================
