----------------------------- MODULE MCEarlyExit -----------------------------
(***************************************************************************)
(* Values for the constants of EarlyExit.                                  *)
(***************************************************************************)
EXTENDS EarlyExit

Plain == [first |-> 0, step |-> 1, keys |-> 1, late |-> FALSE, inplace |-> FALSE]

\* A list slab, the break before and after the write; two keys an iteration;
\* no slab; a domain that starts at 1, and one that strides.
AllBlocks == {Plain, [Plain EXCEPT !.late = TRUE], [Plain EXCEPT !.keys = 2],
              [Plain EXCEPT !.inplace = TRUE, !.late = TRUE],
              [Plain EXCEPT !.first = 1], [Plain EXCEPT !.step = 2]}
OffsetBlocks == {[Plain EXCEPT !.first = 2, !.late = TRUE]}

\* No break, one in each chunk, and breaks that race in two or three chunks.
AllBreaks == {{}, {1}, {2}, {4}, {0, 3}, {3, 4}, {1, 2, 4}}
\* No break of an inner loop; one that a break of the marked loop may follow in
\* its chunk; one beside, before and beyond those breaks; one at the very end.
AllInner == {{}, {0}, {1, 3}, {2, 4}}
\* No error, one in a middle chunk, one in the last.
AllRaises == {{}, {2}, {4}}
NoRaises == {{}}
=============================================================================
