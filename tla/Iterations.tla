----------------------------- MODULE Iterations -----------------------------
(***************************************************************************)
(* The iterations of a marked loop and what they leave behind.             *)
(*                                                                         *)
(* Iterations are the positions 0 .. N-1 of the materialised domain.  What *)
(* a loop has done to the caller's containers is the sequence of the       *)
(* iterations whose effects they show, in the order the effects were       *)
(* applied: Iota(m) is what the first m iterations leave, run in sequence. *)
(***************************************************************************)
EXTENDS Integers, Sequences

CONSTANT N   (* plan.n: an empty domain returns at once and is left out *)

ASSUME IterationsAssumption == N \in Nat \ {0}

Pos == 0 .. N - 1

Iota(m) == [i \in 1 .. m |-> i - 1]

\* s with the effects of positions a .. b-1 applied after it, in order.
Extend(s, a, b) == s \o [i \in 1 .. (b - a) |-> a + i - 1]

IsPrefixOfLoop(s) == s = Iota(Len(s))

=============================================================================
