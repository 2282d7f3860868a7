----------------------------- MODULE MCWavefront -----------------------------
(***************************************************************************)
(* Values for the constants of Wavefront.                                  *)
(***************************************************************************)
EXTENDS Wavefront

Own == [p \in Pos |-> p]
Halves == [first |-> 1, step |-> 1, divs |-> {2}, self |-> FALSE, reduces |-> TRUE,
           order |-> [p \in Pos |-> 0], reads |-> [p \in Pos |-> {}],
           cell |-> Own, hard |-> FALSE]
On(first, step, divs) == [Halves EXCEPT !.first = first, !.step = step, !.divs = divs]
Acyclics(order, reads) == [Halves EXCEPT !.divs = {}, !.order = order, !.reads = reads]

\* Every start, stride and set of divisors; the cell read back.
DagBlocks == {On(f, s, D) : f \in {-3, 0, 1, 2, 5}, s \in {-1, 1, 2, 3},
                            D \in {{2}, {3}, {2, 3}, {4}}}
             \cup {[Halves EXCEPT !.self = TRUE], [Halves EXCEPT !.hard = TRUE]}

\* Keys that ascend in pairs, each iteration reading the pair before; keys
\* that descend; and a cell written twice in a level.
Pairs == [p \in Pos |-> p \div 2]
AcyclicBlocks ==
  {Acyclics(Pairs, [p \in Pos |-> {q \in Pos : Pairs[q] = Pairs[p] - 1}]),
   Acyclics([p \in Pos |-> -p], [p \in Pos |-> {q \in Pos : q = p - 1}]),
   [Acyclics(Pairs, [p \in Pos |-> {}]) EXCEPT !.cell = [Own EXCEPT ![3] = 2]]}

AllBlocks == DagBlocks \cup AcyclicBlocks
AllRaises == {{}, {3}, {4, 6}}
Reductions == {Halves}
NoRaises == {{}}
=============================================================================
