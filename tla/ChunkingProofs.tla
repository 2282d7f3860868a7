--------------------------- MODULE ChunkingProofs ---------------------------
(***************************************************************************)
(* The chunks tile the iteration space, for every length and every number  *)
(* of chunks asked for.                                                    *)
(***************************************************************************)
EXTENDS Chunking, TLAPS

\* Floor division by a positive number.
LEMMA DivBounds ==
  ASSUME NEW a \in Nat, NEW b \in Nat \ {0}
  PROVE  /\ a \div b \in Nat
         /\ b * (a \div b) <= a
         /\ a < b * (a \div b) + b
  OBVIOUS

LEMMA StepPositive == Step \in Nat \ {0}
  <1> DEFINE a == N + NChunks - 1
  <1>1. a \in Nat /\ a >= NChunks
    BY IterationsAssumption, ChunkingAssumption
  <1>2. a \div NChunks \in Nat /\ a < NChunks * (a \div NChunks) + NChunks
    BY <1>1, DivBounds, ChunkingAssumption
  <1>3. a \div NChunks # 0
    BY <1>1, <1>2, ChunkingAssumption
  <1> QED
    BY <1>2, <1>3 DEF Step

\* NBounds is the number of steps it takes to cover N.
LEMMA NBoundsCover ==
  /\ NBounds \in Nat \ {0}
  /\ (NBounds - 1) * Step < N
  /\ N <= NBounds * Step
  <1> DEFINE a == N + Step - 1
             k == a \div Step
  <1>1. a \in Nat /\ a >= Step /\ Step \in Nat \ {0} /\ N \in Nat \ {0}
    BY IterationsAssumption, StepPositive
  <1>2. k \in Nat /\ Step * k <= a /\ a < Step * k + Step
    BY <1>1, DivBounds
  <1>3. k # 0
    BY <1>1, <1>2
  <1>4. Step * k = k * Step /\ (k - 1) * Step = k * Step - Step
    BY <1>1, <1>2
  <1> HIDE DEF k
  <1>5. k * Step <= N + Step - 1 /\ N + Step - 1 < k * Step + Step /\ k * Step \in Nat
    BY <1>1, <1>2, <1>4
  <1>6. (k - 1) * Step < N /\ N <= k * Step
    BY <1>1, <1>4, <1>5
  <1> QED
    BY <1>2, <1>3, <1>6 DEF NBounds, k

LEMMA LoMonotonic ==
  ASSUME NEW c \in Nat, NEW d \in Nat, c <= d
  PROVE  c * Step <= d * Step /\ c * Step \in Nat
  BY StepPositive

\* The chunks are nonempty, start at 0, follow one another and end at N.
THEOREM Tiling ==
  /\ 0 \in Chunks /\ NBounds - 1 \in Chunks
  /\ Lo(0) = 0
  /\ Hi(NBounds - 1) = N
  /\ \A c \in Chunks : /\ Lo(c) \in Pos
                       /\ Hi(c) \in 1 .. N
                       /\ Lo(c) < Hi(c)
                       /\ c + 1 \in Chunks => Hi(c) = Lo(c + 1)
                       /\ c + 1 \notin Chunks => c = NBounds - 1
  <1>1. 0 \in Chunks /\ NBounds - 1 \in Chunks
    BY NBoundsCover DEF Chunks
  <1>2. Lo(0) = 0
    BY StepPositive DEF Lo
  <1>3. Hi(NBounds - 1) = N
    <2>1. (NBounds - 1) + 1 = NBounds /\ NBounds * Step \in Nat
      BY NBoundsCover, StepPositive
    <2> QED
      BY <2>1, NBoundsCover, IterationsAssumption DEF Hi
  <1>4. ASSUME NEW c \in Chunks
        PROVE  /\ Lo(c) \in Pos
               /\ Hi(c) \in 1 .. N
               /\ Lo(c) < Hi(c)
               /\ c + 1 \in Chunks => Hi(c) = Lo(c + 1)
               /\ c + 1 \notin Chunks => c = NBounds - 1
    <2>1. c \in Nat /\ c <= NBounds - 1 /\ NBounds - 1 \in Nat
      BY NBoundsCover DEF Chunks
    <2>2. c * Step \in Nat /\ c * Step <= (NBounds - 1) * Step
      BY <2>1, LoMonotonic
    <2>3. (NBounds - 1) * Step \in Nat /\ (c + 1) * Step = c * Step + Step
      BY <2>1, StepPositive
    <2>4. c * Step < N
      BY <2>2, <2>3, NBoundsCover, IterationsAssumption
    <2>5. c + 1 \in Chunks => (c + 1) * Step < N
      <3> SUFFICES ASSUME c + 1 \in Chunks
                   PROVE  (c + 1) * Step < N
        OBVIOUS
      <3>1. c + 1 \in Nat /\ c + 1 <= NBounds - 1
        BY <2>1 DEF Chunks
      <3>2. (c + 1) * Step <= (NBounds - 1) * Step /\ (c + 1) * Step \in Nat
        BY <2>1, <3>1, LoMonotonic
      <3> QED
        BY <2>3, <3>2, NBoundsCover, IterationsAssumption
    <2>6. c + 1 \notin Chunks => c = NBounds - 1
      BY <2>1 DEF Chunks
    <2> QED
      BY <2>2, <2>3, <2>4, <2>5, <2>6, StepPositive, IterationsAssumption DEF Lo, Hi, Pos
  <1> QED
    BY <1>1, <1>2, <1>3, <1>4

\* A position lies in one chunk only.
LEMMA OneChunk ==
  ASSUME NEW c \in Chunks, NEW d \in Chunks, NEW p \in Int,
         Lo(c) <= p, p < Hi(c), Lo(d) <= p, p < Hi(d)
  PROVE  c = d
<1>1. ASSUME NEW x \in Chunks, NEW y \in Chunks, x < y PROVE Hi(x) <= Lo(y)
  <2>1. x + 1 \in Chunks /\ x + 1 <= y /\ x + 1 \in Nat /\ y \in Nat
    BY <1>1, NBoundsCover DEF Chunks
  <2>2. Hi(x) = Lo(x + 1)
    BY <2>1, Tiling
  <2> QED
    BY <2>1, <2>2, LoMonotonic DEF Lo
<1>2. Lo(c) \in Int /\ Hi(c) \in Int /\ Lo(d) \in Int /\ Hi(d) \in Int
  BY Tiling DEF Pos
<1> QED
  BY <1>1, <1>2, NBoundsCover DEF Chunks

\* Every position lies in a chunk.
LEMMA SomeChunk ==
  ASSUME NEW p \in Pos
  PROVE  \E c \in Chunks : Lo(c) <= p /\ p < Hi(c)
<1> DEFINE c == p \div Step
<1>1. Step \in Nat \ {0} /\ p \in Nat /\ p < N
  BY StepPositive, IterationsAssumption DEF Pos
<1>2. c \in Nat /\ Step * c <= p /\ p < Step * c + Step
  BY <1>1, DivBounds
<1> HIDE DEF c
<1>3. Step * c = c * Step /\ (c + 1) * Step = c * Step + Step /\ c * Step \in Nat
  BY <1>1, <1>2
<1>4. c < NBounds
  <2>1. SUFFICES ASSUME c >= NBounds PROVE FALSE
    BY <1>2, NBoundsCover
  <2>2. NBounds * Step <= c * Step /\ NBounds * Step \in Nat
    BY <1>2, <2>1, LoMonotonic, NBoundsCover
  <2> QED
    BY <1>1, <1>2, <1>3, <2>2, NBoundsCover, IterationsAssumption
<1>5. c \in Chunks
  BY <1>2, <1>4, NBoundsCover DEF Chunks
<1> QED
  BY <1>1, <1>2, <1>3, <1>5 DEF Lo, Hi

\* Each chunk lies in the domain, in a form the steps below can use.
LEMMA ChunkBounds ==
  /\ 0 \in Chunks
  /\ Chunks \subseteq Nat
  /\ \A c \in Chunks : /\ Lo(c) \in Nat /\ Hi(c) \in Nat
                       /\ Lo(c) < Hi(c) /\ Hi(c) <= N
  BY Tiling, NBoundsCover, IterationsAssumption DEF Pos, Chunks

\* A chunk ends where the next one starts or before.
LEMMA ChunkOrder ==
  ASSUME NEW c \in Chunks, NEW d \in Chunks, c < d
  PROVE  Hi(c) <= Lo(d)
  <1>1. c + 1 \in 0 .. NBounds /\ d \in 0 .. NBounds /\ c + 1 <= d
    BY NBoundsCover DEF Chunks
  <1>2. (c + 1) * Step <= d * Step /\ (c + 1) * Step \in Nat /\ d * Step \in Nat
    BY <1>1, LoMonotonic
  <1> QED
    BY <1>2, IterationsAssumption DEF Hi, Lo

\* Where chunk m starts: N for the index past the last chunk.
Bound(m) == IF m * Step <= N THEN m * Step ELSE N

\* Chunk c goes from Bound(c) to Bound(c + 1).
LEMMA BoundValues ==
  /\ Bound(0) = 0 /\ Bound(NBounds) = N
  /\ \A c \in Chunks : Lo(c) = Bound(c) /\ Hi(c) = Bound(c + 1)
  /\ \A m \in 0 .. NBounds : Bound(m) \in Nat
  <1>1. Bound(0) = 0
    BY StepPositive, IterationsAssumption DEF Bound
  <1>2. Bound(NBounds) = N
    BY NBoundsCover, StepPositive, IterationsAssumption DEF Bound
  <1>3. \A c \in Chunks : Lo(c) = Bound(c) /\ Hi(c) = Bound(c + 1)
    BY Tiling, IterationsAssumption DEF Bound, Lo, Hi, Pos
  <1>4. \A m \in 0 .. NBounds : Bound(m) \in Nat
    <2> TAKE m \in 0 .. NBounds
    <2>1. m * Step \in Nat
      BY NBoundsCover, LoMonotonic
    <2> QED
      BY <2>1, IterationsAssumption DEF Bound
  <1> QED
    BY <1>1, <1>2, <1>3, <1>4

-----------------------------------------------------------------------------
(***************************************************************************)
(* What a sequence of iterations extended by the next ones is.             *)
(***************************************************************************)
\* Nothing has run.
LEMMA IotaZero == Iota(0) = <<>>
  BY DEF Iota

\* The first a iterations followed by a .. b-1 are the first b.
LEMMA ExtendIota ==
  ASSUME NEW a \in Nat, NEW b \in Nat, a <= b
  PROVE  Extend(Iota(a), a, b) = Iota(b)
  <1> DEFINE s == Iota(a)
             t == [i \in 1 .. (b - a) |-> a + i - 1]
  <1>1. s \in Seq(Int) /\ Len(s) = a /\ \A i \in 1 .. a : s[i] = i - 1
    BY DEF Iota
  <1>2. b - a \in Nat /\ t \in Seq(Int) /\ Len(t) = b - a
    OBVIOUS
  <1>3. \A i \in 1 .. (b - a) : t[i] = a + i - 1
    OBVIOUS
  <1> HIDE DEF s, t
  <1>4. s \o t \in Seq(Int) /\ Len(s \o t) = b
    BY <1>1, <1>2
  <1>5. \A i \in 1 .. b : (s \o t)[i] = i - 1
    BY <1>1, <1>2, <1>3
  <1>6. Iota(b) \in Seq(Int) /\ Len(Iota(b)) = b /\ \A i \in 1 .. b : Iota(b)[i] = i - 1
    BY DEF Iota
  <1> DEFINE u == s \o t
  <1>7. u \in Seq(Int) /\ Len(u) = b /\ \A i \in 1 .. b : u[i] = i - 1
    BY <1>4, <1>5
  <1> HIDE DEF u
  <1>8. u = Iota(b)
    BY <1>6, <1>7
  <1> QED
    BY <1>8 DEF Extend, s, t, u

\* And by the next one only.
LEMMA AppendIota ==
  ASSUME NEW a \in Nat
  PROVE  Append(Iota(a), a) = Iota(a + 1)
  <1>1. Iota(a) \in Seq(Int) /\ Len(Iota(a)) = a /\ \A i \in 1 .. a : Iota(a)[i] = i - 1
    BY DEF Iota
  <1>2. Append(Iota(a), a) \in Seq(Int) /\ Len(Append(Iota(a), a)) = a + 1
    BY <1>1
  <1>3. \A i \in 1 .. a + 1 : Append(Iota(a), a)[i] = i - 1
    BY <1>1
  <1>4. Iota(a + 1) \in Seq(Int) /\ Len(Iota(a + 1)) = a + 1
        /\ \A i \in 1 .. a + 1 : Iota(a + 1)[i] = i - 1
    BY DEF Iota
  <1> DEFINE u == Append(Iota(a), a)
  <1>5. u \in Seq(Int) /\ Len(u) = a + 1 /\ \A i \in 1 .. a + 1 : u[i] = i - 1
    BY <1>2, <1>3
  <1> HIDE DEF u
  <1>6. u = Iota(a + 1)
    BY <1>4, <1>5, SMTT(30)
  <1> QED
    BY <1>6 DEF u

\* Extending by positions of the domain leaves a sequence of positions.
LEMMA ExtendType ==
  ASSUME NEW s \in Seq(Pos), NEW a \in 0 .. N, NEW b \in a .. N
  PROVE  Extend(s, a, b) \in Seq(Pos)
  <1> DEFINE t == [i \in 1 .. (b - a) |-> a + i - 1]
  <1>1. b - a \in Nat /\ \A i \in 1 .. (b - a) : a + i - 1 \in Pos
    BY IterationsAssumption DEF Pos
  <1>2. t \in Seq(Pos)
    BY <1>1
  <1> QED
    BY <1>2 DEF Extend

\* The elements of a sequence extended by a .. b-1.
LEMMA ExtendElements ==
  ASSUME NEW s \in Seq(Pos), NEW a \in Nat, NEW b \in Nat, a <= b
  PROVE  LET e == Extend(s, a, b)
         IN /\ Len(e) = Len(s) + (b - a)
            /\ \A i \in 1 .. Len(s) : e[i] = s[i]
            /\ \A i \in Len(s) + 1 .. Len(e) : e[i] = a + (i - Len(s)) - 1
  <1> DEFINE t == [i \in 1 .. (b - a) |-> a + i - 1]
  <1>0. t \in Seq(Int) /\ Len(t) = b - a
    OBVIOUS
  <1>1. \A i \in 1 .. (b - a) : t[i] = a + i - 1
    OBVIOUS
  <1>2. s \in Seq(Int)
    BY IterationsAssumption DEF Pos
  <1> HIDE DEF t
  <1>3. Len(s \o t) = Len(s) + Len(t)
    BY ONLY <1>0, <1>2
  <1>4. \A i \in 1 .. Len(s) : (s \o t)[i] = s[i]
    BY <1>0, <1>2
  <1>5. \A i \in Len(s) + 1 .. Len(s) + Len(t) : (s \o t)[i] = t[i - Len(s)]
    BY <1>0, <1>2
  <1>6. \A i \in Len(s) + 1 .. Len(s) + Len(t) : i - Len(s) \in 1 .. (b - a)
    BY <1>0, <1>2
  <1> QED
    BY <1>0, <1>1, <1>3, <1>4, <1>5, <1>6 DEF Extend, t

=============================================================================
