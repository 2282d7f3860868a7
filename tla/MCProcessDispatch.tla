-------------------------- MODULE MCProcessDispatch --------------------------
(***************************************************************************)
(* Values for the constants of ProcessDispatch.                            *)
(***************************************************************************)
EXTENDS ProcessDispatch, TLC

Fine == [c \in Chunks |-> "fine"]
Plain == [raises |-> {}, fate |-> Fine, probed |-> "no", hard |-> FALSE,
          deadline |-> FALSE, perTask |-> FALSE, unguarded |-> FALSE]

Probed(b, how) == [b EXCEPT !.probed = how]
Timed(b) == [b EXCEPT !.deadline = TRUE]
PerTask(b) == [Timed(b) EXCEPT !.perTask = TRUE]
Hard(b) == [b EXCEPT !.hard = TRUE]
Raising(b, ps) == [b EXCEPT !.raises = ps]
\* Pickling harms chunk c.
Harmed(b, c, f) == [b EXCEPT !.fate[c] = f]

\* One caller runs a block of S, every other one a block of T.
OneOf(S, T) == {f \in [Callers -> S \cup T] :
                  \E k \in Callers : f[k] \in S /\ \A l \in Callers \ {k} : f[l] \in T}

Unguarded == [Probed(Plain, "chunk") EXCEPT !.unguarded = TRUE]
Unreadable(b) == Harmed(b, NBounds - 1, "unreadable")

\* Blocks to run beside one whose timeout recycles the pool.
OtherBlocks ==
  {Plain, Raising(Plain, {0, N - 1}), Raising(Probed(Plain, "chunk"), {N - 1}),
   Hard(Harmed(Plain, 0, "unpicklable")), Harmed(Plain, 1, "unsendable"),
   Harmed(Probed(Plain, "twin"), NBounds - 1, "unpicklable")}

\* Beside that, a pool recycled for a bundle, before or after a timeout, and a
\* deadline that every iteration reads.
AllPrograms ==
  OneOf(OtherBlocks, {Timed(Plain)})
  \cup OneOf({Unreadable(Timed(Probed(Plain, "chunk")))}, {Plain})
  \cup OneOf({Raising(PerTask(Probed(Plain, "twin")), {3})}, {Unguarded})

\* Blocks without a timeout or a twin probe.
LoopBlocks == {Plain, Raising(Plain, {2, 3}), Unreadable(Plain),
               Hard(Harmed(Raising(Plain, {0}), NBounds - 1, "unpicklable")),
               Raising(Probed(Plain, "chunk"), {3})}
LoopPrograms == OneOf(LoopBlocks, {Plain, Harmed(Plain, 1, "unreadable")})

\* A block beside one that times out: enough to violate each of the properties
\* at the end of ProcessDispatch.
TimedPrograms == OneOf({Plain}, {Timed(Plain)})

Symmetry == Permutations(Callers)
=============================================================================
