-------------------------- MODULE MCThreadDispatch --------------------------
(***************************************************************************)
(* Values for the constants of ThreadDispatch.                             *)
(***************************************************************************)
EXTENDS ThreadDispatch

Plain == [kind |-> "list", gate |-> "open", hard |-> FALSE, calibrate |-> TRUE,
          strict |-> FALSE, collect |-> FALSE, deadline |-> FALSE,
          perTask |-> FALSE, audit |-> TRUE, hardConflict |-> FALSE]

Of(kind) == [Plain EXCEPT !.kind = kind]
Uncalibrated(b) == [b EXCEPT !.calibrate = FALSE]

\* One block per way a call can go.
AllBlocks ==
  {Of(k) : k \in Kinds}
  \cup {Uncalibrated(Of(k)) : k \in {"list", "dict", "inplace", "direct"}}
  \cup {[Of(k) EXCEPT !.deadline = TRUE] : k \in {"list", "reduction", "inplace"}}
  \cup {[Of(k) EXCEPT !.collect = TRUE] : k \in {"list", "reduction"}}
  \cup {[Plain EXCEPT !.gate = g, !.strict = s] : g \in Gates, s \in BOOLEAN}
  \cup {[Of(k) EXCEPT !.gate = g, !.hard = TRUE] :
          k \in {"dict", "direct"}, g \in {"open", "refused"}}
  \cup {[Of("dict") EXCEPT !.hardConflict = TRUE], [Of("dict") EXCEPT !.audit = FALSE],
        [Plain EXCEPT !.deadline = TRUE, !.perTask = TRUE, !.collect = TRUE]}

\* Blocks whose containers are the loop's at every step.
LoopBlocks ==
  {b \in AllBlocks : b.kind \in {"list", "dict", "reduction"} /\ ~b.deadline /\ ~b.collect}

\* The blocks that show each of the properties at the end of ThreadDispatch
\* violated.
UncalibratedLists == {Uncalibrated(Of("list"))}
DeadlineDicts == {[Of("dict") EXCEPT !.deadline = TRUE]}
CollectBlocks == {[Of("list") EXCEPT !.collect = TRUE]}
InPlaceBlocks == {Of("inplace")}

\* No error, one in the probed chunk and another past it, one past it alone, and
\* one in each of two chunks past it.
AllRaises == {{}, {0, 3}, {3}, {2, N - 1}}
\* Errors only where no lower chunk can be cancelled.
FirstRaises == {{}, {0}, {1}}

\* All keys distinct, or the last iteration writing the key of the first.
AllKeys == Pos
AllKeyMaps == {[p \in Pos |-> p], [p \in Pos |-> IF p = N - 1 THEN 0 ELSE p]}
=============================================================================
