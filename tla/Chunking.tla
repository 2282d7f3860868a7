------------------------------ MODULE Chunking ------------------------------
(***************************************************************************)
(* How a marked loop's iteration space is cut into chunks (planning.py)    *)
(* and which completed chunks an abandoned run may still commit            *)
(* (dispatch.py, _contiguous_prefix).                                      *)
(* A chunk is named by its index in the list _bounds returns, from 0.      *)
(***************************************************************************)
EXTENDS Iterations

CONSTANT NChunks   (* n_chunks: what _sizing asks for *)

ASSUME ChunkingAssumption == NChunks \in Nat \ {0}

\* max(1, -(-n // n_chunks)): the ceiling of N / NChunks, never 0.
Step == (N + NChunks - 1) \div NChunks

\* len(range(0, n, step))
NBounds == (N + Step - 1) \div Step

Chunks == 0 .. NBounds - 1

Lo(c) == c * Step

\* Mutant of Hi: the last chunk is not clamped to the domain.
HiUnclamped(c) == (c + 1) * Step

Hi(c) == IF (c + 1) * Step <= N THEN (c + 1) * Step ELSE N

-----------------------------------------------------------------------------
\* Mutant of ContiguousPrefix: a gap does not stop the commit.
CompletedChunks(R, clean) == R \cap clean

\* The chunks _contiguous_prefix keeps of the records R it is given, clean
\* being those that stopped on no error: it expects the first record it was
\* given, then every index after it, and stops at a gap or an error.
ContiguousPrefix(R, clean) ==
  {c \in R : \A d \in 0 .. c : (\E f \in R : f <= d) => d \in R \cap clean}

=============================================================================
