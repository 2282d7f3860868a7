--------------------------- MODULE SelectionProofs ---------------------------
(***************************************************************************)
(* Proofs about Selection, for every set of bodies Python can have: each   *)
(* chunk raises nothing the loop does not raise, what is written in place  *)
(* is the chunk's own, and what a block leaves is what the loop leaves.    *)
(***************************************************************************)
EXTENDS SelectionRelations, FiniteSetTheorems, SequenceTheorems, WellFoundedInduction, TLAPS

-----------------------------------------------------------------------------
(* Numbers, sequences and folds *)

\* A nonempty set of naturals has a least element.  With a set of counter-
\* examples for S it is the induction of the proofs below.
LEMMA LeastNatural == ASSUME NEW S \in SUBSET Nat, S # {} PROVE \E m \in S : \A n \in S : m <= n
<1>1. \E m \in S : \A n \in S : ~ (<<n, m>> \in OpToRel(<, Nat))  BY NatLessThanWellFounded, WFMin
<1>2. ASSUME NEW m \in S, NEW n \in S, ~ (<<n, m>> \in OpToRel(<, Nat)) PROVE m <= n
  <2>1. OpToRel(<, Nat) = {ss \in Nat \X Nat : ss[1] < ss[2]}  BY DEF OpToRel
  <2>2. m \in Nat /\ n \in Nat /\ <<n, m>> \in Nat \X Nat  OBVIOUS
  <2>3. ~ (<<n, m>>[1] < <<n, m>>[2])  BY <1>2, <2>1, <2>2
  <2> QED BY <2>2, <2>3
<1> QED BY <1>1, <1>2

\* FlattenSeq, a sequence at a time.
LEMMA FlattenSteps ==
  ASSUME NEW T, NEW P \in Seq(Seq(T))
  PROVE  \E f \in [0 .. Len(P) -> Seq(T)] :
           /\ f[0] = <<>>
           /\ \A k \in 1 .. Len(P) : f[k] = f[k - 1] \o P[k]
           /\ FlattenSeq(P) = f[Len(P)]
<1> DEFINE Makes(m, f) == f[0] = <<>> /\ \A k \in 1 .. m : f[k] = f[k - 1] \o P[k]
           Missing == {m \in 0 .. Len(P) : ~ \E f \in [0 .. m -> Seq(T)] : Makes(m, f)}
<1>0. Len(P) \in Nat /\ \A k \in 1 .. Len(P) : P[k] \in Seq(T)  OBVIOUS
<1>1. Missing = {}
  <2> SUFFICES ASSUME Missing # {} PROVE FALSE  OBVIOUS
  <2>0. Missing \subseteq 0 .. Len(P) /\ Missing \in SUBSET Nat
    <3> HIDE DEF Makes
    <3>1. Missing \subseteq 0 .. Len(P)  OBVIOUS
    <3> QED BY <1>0, <3>1
  <2>1. PICK m \in Missing : \A n \in Missing : m <= n
    <3> HIDE DEF Missing
    <3> QED BY <2>0, LeastNatural
  <2>2. m # 0
    <3>1. [i \in 0 .. 0 |-> <<>>] \in [0 .. 0 -> Seq(T)] /\ Makes(0, [i \in 0 .. 0 |-> <<>>])
      OBVIOUS
    <3> QED BY <2>1, <3>1
  <2>3. m - 1 \in 0 .. Len(P) /\ m \in 1 .. Len(P)
    <3> HIDE DEF Missing
    <3> QED BY <1>0, <2>0, <2>1, <2>2
  <2>4. PICK f \in [0 .. m - 1 -> Seq(T)] : Makes(m - 1, f)
    <3>1. m - 1 \notin Missing
      <4>1. m - 1 \in Missing => m <= m - 1
        <5> HIDE DEF Missing
        <5> QED BY <2>1
      <4>2. ~ (m <= m - 1)  BY <1>0, <2>3
      <4> QED BY <4>1, <4>2
    <3> HIDE DEF Makes
    <3> QED BY <2>3, <3>1
  <2> DEFINE g == [i \in 0 .. m |-> IF i = m THEN f[m - 1] \o P[m] ELSE f[i]]
  <2>5. g \in [0 .. m -> Seq(T)]
    <3>1. f[m - 1] \in Seq(T) /\ P[m] \in Seq(T)  BY <1>0, <2>3
    <3>2. f[m - 1] \o P[m] \in Seq(T)  BY <3>1
    <3>3. \A i \in 0 .. m : i # m => f[i] \in Seq(T)  BY <2>3, <1>0
    <3> QED BY <3>2, <3>3
  <2>6. Makes(m, g)
    <3>1. g[0] = <<>>  BY <2>2, <2>3, <2>4, <1>0
    <3>2. ASSUME NEW k \in 1 .. m PROVE g[k] = g[k - 1] \o P[k]
      <4>1. g[k - 1] = f[k - 1]  BY <2>3, <1>0
      <4>2. CASE k = m
        <5>1. g[m] = f[m - 1] \o P[m]
          <6>1. m \in 0 .. m  BY <1>0, <2>3
          <6> QED BY <6>1, Zenon
        <5>2. g[k - 1] = f[m - 1]  BY <4>1, <4>2
        <5> QED BY <4>2, <5>1, <5>2, Zenon
      <4>3. CASE k # m
        <5>1. k \in 1 .. m - 1 /\ g[k] = f[k]  BY <2>3, <4>3, <1>0
        <5> QED BY <2>4, <4>1, <5>1
      <4> QED BY <4>2, <4>3
    <3> QED BY <3>1, <3>2
  <2>7. ~ \E d \in [0 .. m -> Seq(T)] : Makes(m, d)  BY <2>1
  <2> QED BY <2>5, <2>6, <2>7
<1>2. PICK f \in [0 .. Len(P) -> Seq(T)] : Makes(Len(P), f)
  <2> HIDE DEF Makes
  <2>1. Len(P) \in 0 .. Len(P)  BY <1>0
  <2> QED BY <1>1, <2>1
<1>3. FlattenSeq(P) = f[Len(P)]
  <2>1. CASE Len(P) = 0
    <3>1. P = <<>>  BY <2>1
    <3> QED BY <1>2, <2>1, <3>1 DEF FlattenSeq
  <2>2. CASE Len(P) # 0
    <3> DEFINE Flat(g) == g = [i \in 1 .. Len(P) |-> IF i = 1 THEN P[i] ELSE g[i - 1] \o P[i]]
               h == [i \in 1 .. Len(P) |-> f[i]]
               flat == CHOOSE g : Flat(g)
    <3>1. Flat(h)
      <4>1. ASSUME NEW i \in 1 .. Len(P) PROVE f[i] = IF i = 1 THEN P[i] ELSE h[i - 1] \o P[i]
        <5>1. CASE i = 1
          <6>1. f[1] = f[1 - 1] \o P[1] /\ f[0] = <<>> /\ P[1] \in Seq(T)  BY <1>0, <1>2, <5>1
          <6>2. 1 - 1 = 0  OBVIOUS
          <6>3. f[1] = <<>> \o P[1]  BY <6>1, <6>2, Zenon
          <6> QED BY <5>1, <6>1, <6>3
        <5>2. CASE i # 1
          <6>1. i - 1 \in 1 .. Len(P)  BY <1>0, <5>2
          <6>2. f[i] = f[i - 1] \o P[i]  BY <1>2
          <6> QED BY <5>2, <6>1, <6>2
        <5> QED BY <5>1, <5>2
      <4> QED BY <4>1, Zenon
    <3>2. Flat(flat)
      <4> HIDE DEF Flat
      <4> QED BY <3>1
    <3>3. FlattenSeq(P) = flat[Len(P)]  BY <2>2, Zenon DEF FlattenSeq
    <3> HIDE DEF flat
    <3> DEFINE Odd == {i \in 1 .. Len(P) : flat[i] # f[i]}
    <3>4. Odd = {}
      <4> SUFFICES ASSUME Odd # {} PROVE FALSE  OBVIOUS
      <4>0. Odd \in SUBSET Nat  BY <1>0
      <4>1. PICK i \in Odd : \A j \in Odd : i <= j
        <5> HIDE DEF Odd
        <5> QED BY <4>0, LeastNatural
      <4>2. flat[i] = IF i = 1 THEN P[i] ELSE flat[i - 1] \o P[i]  BY <3>2, <4>1
      <4>3. f[i] = f[i - 1] \o P[i]  BY <1>2, <4>1
      <4>4. CASE i = 1
        <5>1. f[1] = f[1 - 1] \o P[1] /\ f[0] = <<>> /\ P[1] \in Seq(T)  BY <1>0, <1>2, <4>1, <4>4
        <5>2. 1 - 1 = 0  OBVIOUS
        <5>3. f[1] = <<>> \o P[1]  BY <5>1, <5>2, Zenon
        <5> QED BY <4>1, <4>2, <4>4, <5>1, <5>3
      <4>5. CASE i # 1
        <5>1. i - 1 \in 1 .. Len(P) /\ i \in Nat  BY <1>0, <4>1, <4>5
        <5>2. i - 1 \notin Odd
          <6>1. i - 1 \in Odd => i <= i - 1  BY <4>1
          <6> QED BY <5>1, <6>1
        <5>3. flat[i - 1] = f[i - 1]  BY <5>1, <5>2
        <5> QED BY <4>1, <4>2, <4>3, <4>5, <5>3
      <4> QED BY <4>4, <4>5
    <3>5. Len(P) \in 1 .. Len(P)  BY <1>0, <2>2
    <3> QED BY <3>3, <3>4, <3>5
  <2> QED BY <2>1, <2>2
<1> QED BY <1>2, <1>3

\* Where each of the joined sequences starts, and that it is there.
LEMMA FlattenAt ==
  ASSUME NEW T, NEW P \in Seq(Seq(T))
  PROVE  /\ FlattenSeq(P) \in Seq(T)
         /\ \E off \in [0 .. Len(P) -> Nat] :
              /\ off[0] = 0 /\ off[Len(P)] = Len(FlattenSeq(P))
              /\ \A n \in 1 .. Len(P) : off[n] = off[n - 1] + Len(P[n])
              /\ \A n \in 1 .. Len(P) : \A i \in 1 .. Len(P[n]) :
                   off[n - 1] + i \in 1 .. Len(FlattenSeq(P)) /\ FlattenSeq(P)[off[n - 1] + i] = P[n][i]
<1> DEFINE F == FlattenSeq(P)
<1>0. Len(P) \in Nat /\ \A k \in 1 .. Len(P) : P[k] \in Seq(T) /\ Len(P[k]) \in Nat  OBVIOUS
<1>1. PICK f \in [0 .. Len(P) -> Seq(T)] :
        f[0] = <<>> /\ (\A k \in 1 .. Len(P) : f[k] = f[k - 1] \o P[k]) /\ F = f[Len(P)]
  BY FlattenSteps
<1> HIDE DEF F
<1> DEFINE off == [n \in 0 .. Len(P) |-> Len(f[n])]
           Good(m) == \A n \in 1 .. m : \A i \in 1 .. Len(P[n]) :
                        off[n - 1] + i \in 1 .. Len(f[m]) /\ f[m][off[n - 1] + i] = P[n][i]
           Bad == {m \in 0 .. Len(P) : ~Good(m)}
<1>2. off \in [0 .. Len(P) -> Nat] /\ off[0] = 0  BY <1>0, <1>1
<1>3. ASSUME NEW n \in 1 .. Len(P)
      PROVE  /\ n - 1 \in 0 .. Len(P) /\ n \in 0 .. Len(P)
             /\ f[n] = f[n - 1] \o P[n] /\ f[n - 1] \in Seq(T) /\ P[n] \in Seq(T)
             /\ off[n - 1] = Len(f[n - 1]) /\ off[n] = Len(f[n])
  <2>1. n - 1 \in 0 .. Len(P) /\ n \in 0 .. Len(P)  BY <1>0
  <2> QED BY <1>0, <1>1, <2>1
<1>4. ASSUME NEW n \in 1 .. Len(P)
      PROVE  /\ off[n] = off[n - 1] + Len(P[n])
             /\ \A i \in 1 .. Len(f[n - 1]) : i \in 1 .. Len(f[n]) /\ f[n][i] = f[n - 1][i]
             /\ \A i \in 1 .. Len(P[n]) : off[n - 1] + i \in 1 .. Len(f[n]) /\ f[n][off[n - 1] + i] = P[n][i]
  <2>1. \A a, b \in Seq(T) :
          /\ Len(a \o b) = Len(a) + Len(b)
          /\ \A i \in 1 .. Len(a) : i \in 1 .. Len(a \o b) /\ (a \o b)[i] = a[i]
          /\ \A i \in 1 .. Len(b) : Len(a) + i \in 1 .. Len(a \o b) /\ (a \o b)[Len(a) + i] = b[i]
    OBVIOUS
  <2> HIDE DEF off
  <2>2. /\ Len(f[n]) = Len(f[n - 1]) + Len(P[n])
        /\ \A i \in 1 .. Len(f[n - 1]) : i \in 1 .. Len(f[n]) /\ f[n][i] = f[n - 1][i]
        /\ \A i \in 1 .. Len(P[n]) : Len(f[n - 1]) + i \in 1 .. Len(f[n]) /\ f[n][Len(f[n - 1]) + i] = P[n][i]
    <3>1. f[n] = f[n - 1] \o P[n] /\ f[n - 1] \in Seq(T) /\ P[n] \in Seq(T)  BY <1>3
    <3> DEFINE a == f[n - 1]
               d == P[n]
    <3> HIDE DEF a, d
    <3>2. a \in Seq(T) /\ d \in Seq(T) /\ f[n] = a \o d  BY <3>1 DEF a, d
    <3>3. /\ Len(a \o d) = Len(a) + Len(d)
          /\ \A i \in 1 .. Len(a) : i \in 1 .. Len(a \o d) /\ (a \o d)[i] = a[i]
          /\ \A i \in 1 .. Len(d) : Len(a) + i \in 1 .. Len(a \o d) /\ (a \o d)[Len(a) + i] = d[i]
      BY <2>1, <3>2, Zenon
    <3> QED BY <3>2, <3>3, Zenon DEF a, d
  <2> QED BY <1>3, <2>2, Zenon
<1> HIDE DEF off
<1>5. Bad = {}
  <2> SUFFICES ASSUME Bad # {} PROVE FALSE  OBVIOUS
  <2>1. PICK m \in Bad : \A k \in Bad : m <= k
    <3>1. Bad \subseteq 0 .. Len(P)  OBVIOUS
    <3> HIDE DEF Bad
    <3>2. Bad \in SUBSET Nat  BY <1>0, <3>1
    <3> QED BY <3>2, LeastNatural
  <2>2. m \in 0 .. Len(P) /\ ~Good(m)  BY <2>1
  <2>3. m # 0  BY <2>2
  <2>4. m \in 1 .. Len(P) /\ m - 1 \in 0 .. Len(P) /\ ~ (m <= m - 1)  BY <1>0, <2>2, <2>3
  <2>5. Good(m - 1)  BY <2>1, <2>4
  <2>6. Good(m)
    <3> SUFFICES ASSUME NEW n \in 1 .. m, NEW i \in 1 .. Len(P[n])
                 PROVE  off[n - 1] + i \in 1 .. Len(f[m]) /\ f[m][off[n - 1] + i] = P[n][i]  OBVIOUS
    <3>1. CASE n = m  BY <1>4, <2>4, <3>1, Zenon
    <3>2. CASE n # m
      <4>1. n \in 1 .. m - 1  BY <2>4, <3>2
      <4>2. off[n - 1] + i \in 1 .. Len(f[m - 1]) /\ f[m - 1][off[n - 1] + i] = P[n][i]
        BY <2>5, <4>1
      <4> HIDE DEF Good
      <4> QED BY <1>4, <2>4, <4>2
    <3> QED BY <3>1, <3>2
  <2> QED BY <2>2, <2>6
<1>6. Len(P) \in 0 .. Len(P)  BY <1>0
<1>7. Good(Len(P))  BY <1>5, <1>6
<1>8. off[Len(P)] = Len(F) /\ F \in Seq(T)  BY <1>1, <1>6 DEF off
<1>9. /\ \A n \in 1 .. Len(P) : off[n] = off[n - 1] + Len(P[n])
      /\ \A n \in 1 .. Len(P) : \A i \in 1 .. Len(P[n]) :
           off[n - 1] + i \in 1 .. Len(F) /\ F[off[n - 1] + i] = P[n][i]
  BY <1>1, <1>4, <1>7, Zenon
<1> QED BY <1>2, <1>8, <1>9, Zenon DEF F

\* Ascending starts: any position is past some start, and not past the next.
LEMMA Ascends ==
  ASSUME NEW L \in Nat, NEW off \in [0 .. L -> Nat], off[0] = 0,
         \A n \in 1 .. L : off[n - 1] <= off[n]
  PROVE  /\ \A m, n \in 0 .. L : m <= n => off[m] <= off[n]
         /\ \A k \in 1 .. off[L] : \E n \in 1 .. L : off[n - 1] < k /\ k <= off[n]
<1>1. ASSUME NEW m \in 0 .. L PROVE \A n \in 0 .. L : m <= n => off[m] <= off[n]
  <2> DEFINE Bad == {n \in 0 .. L : m <= n /\ ~ (off[m] <= off[n])}
  <2> SUFFICES ASSUME Bad # {} PROVE FALSE  OBVIOUS
  <2>1. PICK n \in Bad : \A k \in Bad : n <= k
    <3>1. Bad \subseteq 0 .. L  OBVIOUS
    <3> HIDE DEF Bad
    <3>2. Bad \in SUBSET Nat  BY <3>1
    <3> QED BY <3>2, LeastNatural
  <2>2. n \in 0 .. L /\ m <= n /\ ~ (off[m] <= off[n]) /\ off[m] \in Nat /\ off[n] \in Nat  BY <2>1
  <2>3. n - 1 \in 0 .. L /\ m <= n - 1 /\ ~ (n <= n - 1) /\ n \in 1 .. L /\ off[n - 1] \in Nat
    BY <2>2
  <2>4. off[m] <= off[n - 1] /\ off[n - 1] <= off[n]  BY <2>1, <2>3
  <2> QED BY <2>2, <2>3, <2>4
<1>2. ASSUME NEW k \in 1 .. off[L] PROVE \E n \in 1 .. L : off[n - 1] < k /\ k <= off[n]
  <2> DEFINE Past == {n \in 0 .. L : k <= off[n]}
  <2>1. Past # {}  OBVIOUS
  <2>2. PICK n \in Past : \A m \in Past : n <= m
    <3>1. Past \subseteq 0 .. L  OBVIOUS
    <3> HIDE DEF Past
    <3>2. Past \in SUBSET Nat  BY <3>1
    <3> QED BY <2>1, <3>2, LeastNatural
  <2>3. n \in 0 .. L /\ k <= off[n] /\ n # 0  BY <2>2
  <2>4. n \in 1 .. L /\ n - 1 \in 0 .. L /\ ~ (n <= n - 1)  BY <2>3
  <2>5. ~ (k <= off[n - 1])  BY <2>2, <2>4
  <2> QED BY <2>3, <2>4, <2>5
<1> QED BY <1>1, <1>2

LEMMA FlattenIs ==
  ASSUME NEW T, NEW P \in Seq(Seq(T))
  PROVE  /\ FlattenSeq(P) \in Seq(T)
         /\ \A n \in 1 .. Len(P) : \A i \in 1 .. Len(P[n]) :
              \E k \in 1 .. Len(FlattenSeq(P)) : FlattenSeq(P)[k] = P[n][i]
         /\ \A k \in 1 .. Len(FlattenSeq(P)) : \E n \in 1 .. Len(P) : \E i \in 1 .. Len(P[n]) :
              /\ FlattenSeq(P)[k] = P[n][i]
              /\ \A m \in 1 .. Len(P) : \A j \in 1 .. Len(P[m]) :
                   Precedes(m, j, n, i) => \E l \in 1 .. k - 1 : FlattenSeq(P)[l] = P[m][j]
              /\ \A l \in 1 .. k - 1 : \E m \in 1 .. Len(P) : \E j \in 1 .. Len(P[m]) :
                   FlattenSeq(P)[l] = P[m][j] /\ Precedes(m, j, n, i)
<1> DEFINE F == FlattenSeq(P)
<1>0. Len(P) \in Nat /\ \A k \in 1 .. Len(P) : Len(P[k]) \in Nat  OBVIOUS
<1>1. F \in Seq(T)  BY FlattenAt
<1>2. PICK off \in [0 .. Len(P) -> Nat] :
        /\ off[0] = 0 /\ off[Len(P)] = Len(F)
        /\ \A n \in 1 .. Len(P) : off[n] = off[n - 1] + Len(P[n])
        /\ \A n \in 1 .. Len(P) : \A i \in 1 .. Len(P[n]) :
             off[n - 1] + i \in 1 .. Len(F) /\ F[off[n - 1] + i] = P[n][i]
  BY FlattenAt
<1> HIDE DEF F
<1>3. Len(F) \in Nat  BY <1>1
<1>4. \A n \in 1 .. Len(P) : n - 1 \in 0 .. Len(P) /\ n \in 0 .. Len(P) /\ off[n - 1] \in Nat /\ off[n] \in Nat
                             /\ off[n - 1] <= off[n] /\ off[n] = off[n - 1] + Len(P[n]) /\ Len(P[n]) \in Nat
  <2> SUFFICES ASSUME NEW n \in 1 .. Len(P)
               PROVE  /\ n - 1 \in 0 .. Len(P) /\ n \in 0 .. Len(P) /\ off[n - 1] \in Nat /\ off[n] \in Nat
                      /\ off[n - 1] <= off[n] /\ off[n] = off[n - 1] + Len(P[n]) /\ Len(P[n]) \in Nat
    OBVIOUS
  <2>1. n - 1 \in 0 .. Len(P) /\ n \in 0 .. Len(P)  BY <1>0
  <2>2. off[n] = off[n - 1] + Len(P[n]) /\ Len(P[n]) \in Nat  BY <1>0, <1>2, Zenon
  <2>3. off[n - 1] \in Nat /\ off[n] \in Nat  BY <1>2, <2>1, Zenon
  <2>4. off[n - 1] <= off[n]
    <3> DEFINE a == off[n - 1]
               c == off[n]
               l == Len(P[n])
    <3>1. a \in Nat /\ l \in Nat /\ c = a + l  BY <2>2, <2>3, Zenon
    <3> HIDE DEF a, c, l
    <3>2. a <= c  BY <3>1
    <3> QED BY <3>2, Zenon DEF a, c
  <2> QED BY <2>1, <2>2, <2>3, <2>4, Zenon
<1>5. /\ \A m, n \in 0 .. Len(P) : m <= n => off[m] <= off[n]
      /\ \A k \in 1 .. Len(F) : \E n \in 1 .. Len(P) : off[n - 1] < k /\ k <= off[n]
  BY <1>0, <1>2, <1>4, Ascends
<1>6. ASSUME NEW k \in 1 .. Len(F)
      PROVE  \E n \in 1 .. Len(P) : \E i \in 1 .. Len(P[n]) : k = off[n - 1] + i
  <2>1. PICK n \in 1 .. Len(P) : off[n - 1] < k /\ k <= off[n]  BY <1>5
  <2> DEFINE a == off[n - 1]
             c == off[n]
             l == Len(P[n])
  <2>2. a \in Nat /\ l \in Nat /\ c = a + l /\ a < k /\ k <= c  BY <1>4, <2>1, Zenon
  <2>3. k \in Int  BY <1>3
  <2> HIDE DEF a, c, l
  <2>4. k - a \in 1 .. l /\ k = a + (k - a)  BY <2>2, <2>3
  <2> QED BY <2>4, Zenon DEF a, l
<1>7. ASSUME NEW n \in 1 .. Len(P), NEW i \in 1 .. Len(P[n]), NEW m \in 1 .. Len(P), NEW j \in 1 .. Len(P[m])
      PROVE  Precedes(m, j, n, i) <=> off[m - 1] + j < off[n - 1] + i
  <2> DEFINE a == off[n - 1]
             c == off[n]
             l == Len(P[n])
             aa == off[m - 1]
             cc == off[m]
             ll == Len(P[m])
  <2>1. /\ cc = aa + ll /\ c = a + l
        /\ ll \in Nat /\ l \in Nat
        /\ a \in Nat /\ aa \in Nat /\ c \in Nat /\ cc \in Nat
    BY <1>4, Zenon
  <2>5. m = n => a = aa  OBVIOUS
  <2>6. m < n => cc <= a
    <3> SUFFICES ASSUME m < n PROVE cc <= a  OBVIOUS
    <3>1. m <= n - 1 /\ m \in 0 .. Len(P) /\ n - 1 \in 0 .. Len(P)  BY <1>0
    <3> QED BY <1>5, <3>1, Zenon
  <2>7. n < m => c <= aa
    <3> SUFFICES ASSUME n < m PROVE c <= aa  OBVIOUS
    <3>1. n <= m - 1 /\ n \in 0 .. Len(P) /\ m - 1 \in 0 .. Len(P)  BY <1>0
    <3> QED BY <1>5, <3>1, Zenon
  <2>8. i \in 1 .. l /\ j \in 1 .. ll /\ m \in Int /\ n \in Int  BY <1>0
  <2> HIDE DEF a, c, l, aa, cc, ll
  <2>9. Precedes(m, j, n, i) <=> aa + j < a + i  BY <2>1, <2>5, <2>6, <2>7, <2>8 DEF Precedes
  <2> QED BY <2>9, Zenon DEF a, aa
<1>8. ASSUME NEW k \in 1 .. Len(F)
      PROVE  \E n \in 1 .. Len(P) : \E i \in 1 .. Len(P[n]) :
              /\ F[k] = P[n][i]
              /\ \A m \in 1 .. Len(P) : \A j \in 1 .. Len(P[m]) :
                   Precedes(m, j, n, i) => \E l \in 1 .. k - 1 : F[l] = P[m][j]
              /\ \A l \in 1 .. k - 1 : \E m \in 1 .. Len(P) : \E j \in 1 .. Len(P[m]) :
                   F[l] = P[m][j] /\ Precedes(m, j, n, i)
  <2>0. PICK n \in 1 .. Len(P) : \E i \in 1 .. Len(P[n]) : k = off[n - 1] + i  BY <1>6
  <2>1. PICK i \in 1 .. Len(P[n]) : k = off[n - 1] + i  BY <2>0
  <2>2. F[k] = P[n][i]  BY <1>2, <2>1, Zenon
  <2>3. ASSUME NEW m \in 1 .. Len(P), NEW j \in 1 .. Len(P[m]), Precedes(m, j, n, i)
        PROVE  \E l \in 1 .. k - 1 : F[l] = P[m][j]
    <3>1. off[m - 1] + j < k  BY <1>7, <2>1, <2>3
    <3>2. off[m - 1] + j \in 1 .. Len(F) /\ F[off[m - 1] + j] = P[m][j]  BY <1>2, Zenon
    <3>3. off[m - 1] + j \in 1 .. k - 1  BY <1>3, <3>1, <3>2
    <3> QED BY <3>2, <3>3, Zenon
  <2>4. ASSUME NEW l \in 1 .. k - 1
        PROVE  \E m \in 1 .. Len(P) : \E j \in 1 .. Len(P[m]) : F[l] = P[m][j] /\ Precedes(m, j, n, i)
    <3>1. l \in 1 .. Len(F) /\ l < k  BY <1>3
    <3>0. PICK m \in 1 .. Len(P) : \E j \in 1 .. Len(P[m]) : l = off[m - 1] + j  BY <1>6, <3>1
    <3>2. PICK j \in 1 .. Len(P[m]) : l = off[m - 1] + j  BY <3>0
    <3>3. F[l] = P[m][j]  BY <1>2, <3>2, Zenon
    <3>4. Precedes(m, j, n, i)  BY <1>7, <2>1, <3>1, <3>2
    <3> QED BY <3>3, <3>4
  <2> QED BY <2>2, <2>3, <2>4, Zenon
<1>9. \A n \in 1 .. Len(P) : \A i \in 1 .. Len(P[n]) : \E k \in 1 .. Len(F) : F[k] = P[n][i]
  BY <1>2, Zenon
<1> QED BY <1>1, <1>8, <1>9, Zenon DEF F

-----------------------------------------------------------------------------
(* What a statement does *)

LEMMA Stored ==
  ASSUME NEW h, HeapOK(h), NEW c \in Containers, NEW key, NEW v
  PROVE  HeapOK([h EXCEPT ![c][key] = v]) /\ ChangesAt(h, [h EXCEPT ![c][key] = v], c, key)
BY DEF HeapOK, ChangesAt

LEMMA BindKeeps ==
  ASSUME NEW f, FrameOK(f), NEW n \in Names, NEW v
  PROVE  LET g == Bind(f, n, v)
         IN  /\ FrameOK(g) /\ g.heap = f.heap /\ g.ok = f.ok /\ g.truth = f.truth
             /\ g.bound = f.bound \cup {n}
             /\ n # "i" => g.local["i"] = f.local["i"]
BY DEF Bind, FrameOK, Names

LEMMA UpdateKeeps ==
  ASSUME NEW f, FrameOK(f), NEW ops, NEW st \in Statements, NEW v
  PROVE  LET g == Update(f, ops, st, v)
         IN  /\ FrameOK(g) /\ g.heap = f.heap /\ g.ok = f.ok /\ g.truth = f.truth /\ g.bound = f.bound
             /\ st.name # "i" => g.local["i"] = f.local["i"]
BY DEF Update, FrameOK, Names, Statements

LEMMA PutKeeps ==
  ASSUME NEW b, NEW plan, PlanOK(plan), NEW f, FrameOK(f), NEW st \in Statements, NEW p, NEW v
  PROVE  LET g == Put(b, plan, f, st, p, v)
         IN  /\ FrameOK(g) /\ g.ok = f.ok /\ g.truth = f.truth /\ g.bound = f.bound /\ g.local = f.local
             /\ plan[st.base] = "none" => ChangesAt(f.heap, g.heap, st.base, IndexValue(st.ix, f))
<1>1. st.base \in Containers  BY DEF Statements
<1>2. plan[st.base] \in {"none", "list", "cell", "dict"}  BY <1>1 DEF PlanOK
<1>3. HeapOK(f.heap)  BY DEF FrameOK
<1>4. CASE plan[st.base] = "none"
  <2> DEFINE h == [f.heap EXCEPT ![st.base][IndexValue(st.ix, f)] = v]
  <2>1. HeapOK(h) /\ ChangesAt(f.heap, h, st.base, IndexValue(st.ix, f))  BY <1>1, <1>3, Stored
  <2>2. Put(b, plan, f, st, p, v) = [f EXCEPT !.heap = h]  BY <1>4 DEF Put
  <2> HIDE DEF h
  <2>3. LET g == [f EXCEPT !.heap = h]
        IN  FrameOK(g) /\ g.ok = f.ok /\ g.truth = f.truth /\ g.bound = f.bound /\ g.local = f.local /\ g.heap = h
    BY <2>1 DEF FrameOK
  <2> QED BY <2>1, <2>2, <2>3, Zenon
<1>5. CASE plan[st.base] = "list"  BY <1>5 DEF Put, FrameOK
<1>6. CASE plan[st.base] = "cell"  BY <1>6 DEF Put, FrameOK
<1>7. CASE plan[st.base] = "dict"  BY <1>7 DEF Put, FrameOK
<1> QED BY <1>2, <1>4, <1>5, <1>6, <1>7

LEMMA AddNestedKeeps ==
  ASSUME NEW plan, NEW f, FrameOK(f), NEW st \in Statements, NEW v
  PROVE  LET g == AddNested(plan, f, st, v)
         IN  /\ FrameOK(g) /\ g.truth = f.truth /\ g.bound = f.bound /\ g.local = f.local
             /\ plan[st.base] = "none" => g.ok = f.ok /\ ChangesAt(f.heap, g.heap, st.base, IndexValue(st.ix, f))
<1>1. st.base \in Containers  BY DEF Statements
<1>2. HeapOK(f.heap)  BY DEF FrameOK
<1>3. CASE plan[st.base] = "none"
  <2> DEFINE key == IndexValue(st.ix, f)
             w == f.heap[st.base][key] \o v
             h == [f.heap EXCEPT ![st.base][key] = w]
  <2>1. HeapOK(h) /\ ChangesAt(f.heap, h, st.base, key)  BY <1>1, <1>2, Stored
  <2>2. AddNested(plan, f, st, v) = [f EXCEPT !.heap = h]  BY <1>3 DEF AddNested
  <2> HIDE DEF h
  <2>3. LET g == [f EXCEPT !.heap = h]
        IN  FrameOK(g) /\ g.ok = f.ok /\ g.truth = f.truth /\ g.bound = f.bound /\ g.local = f.local /\ g.heap = h
    BY <2>1 DEF FrameOK
  <2> QED BY <2>1, <2>2, <2>3, Zenon
<1>4. CASE plan[st.base] # "none"  BY <1>4 DEF AddNested, FrameOK
<1> QED BY <1>3, <1>4

LEMMA MutateKeeps ==
  ASSUME NEW b, NEW plan, PlanOK(plan), NEW f, FrameOK(f), NEW st \in Statements, NEW p, NEW v
  PROVE  LET g == Mutate(b, plan, f, st, p, v)
         IN  /\ FrameOK(g) /\ g.ok = f.ok /\ g.truth = f.truth /\ g.bound = f.bound /\ g.local = f.local
             /\ plan[st.base] = "none" => ChangesAt(f.heap, g.heap, st.base, IndexValue(st.ix, f))
<1>1. st.base \in Containers  BY DEF Statements
<1>2. HeapOK(f.heap)  BY DEF FrameOK
<1> DEFINE key == IndexValue(st.ix, f)
           held == plan[st.base] = "cell" /\ AtIndex(b, st.ix)
           kept == held /\ f.slab[st.base][Elem(b, p)] # <<>>
           h == [f.heap EXCEPT ![st.base][key] = @ \o v]
           g == [f EXCEPT !.heap[st.base][key] = @ \o v,
                          !.cell[st.base] = IF held THEN @ \o v ELSE @]
<1>3. CASE kept
  <2>1. Mutate(b, plan, f, st, p, v) = [f EXCEPT !.slab[st.base][Elem(b, p)] = <<@[1] \o v>>, !.cell[st.base] = @ \o v]
    BY <1>3 DEF Mutate
  <2> HIDE DEF held, kept, key
  <2>2. plan[st.base] # "none"  BY <1>3 DEF held, kept
  <2> QED BY <2>1, <2>2 DEF FrameOK
<1>4. CASE ~kept
  <2>1. Mutate(b, plan, f, st, p, v) = g  BY <1>4, Zenon DEF Mutate
  <2>2. HeapOK(h) /\ ChangesAt(f.heap, h, st.base, key)
    <3> DEFINE w == f.heap[st.base][key] \o v
    <3>1. h = [f.heap EXCEPT ![st.base][key] = w]  OBVIOUS
    <3> HIDE DEF w, h
    <3> QED BY <1>1, <1>2, <3>1, Stored
  <2> HIDE DEF held, kept, key
  <2>3. FrameOK(g) /\ g.ok = f.ok /\ g.truth = f.truth /\ g.bound = f.bound /\ g.local = f.local /\ g.heap = h
    <3>1. g.heap = h  BY DEF FrameOK
    <3> HIDE DEF h
    <3>2. g.ok = f.ok /\ g.truth = f.truth /\ g.bound = f.bound /\ g.local = f.local /\ DOMAIN g = DOMAIN f
      BY DEF FrameOK
    <3> HIDE DEF g
    <3> QED BY <2>2, <3>1, <3>2 DEF FrameOK
  <2> HIDE DEF g, h
  <2> QED BY <2>1, <2>2, <2>3, Zenon DEF key
<1> QED BY <1>3, <1>4

LEMMA RunKeeps ==
  ASSUME NEW b, NEW plan, PlanOK(plan), NEW ops, NEW p, NEW f, FrameOK(f),
         NEW st \in Statements, st.kind \notin {"break", "return"}
  PROVE  LET g == Run(b, plan, ops, p, f, st)
         IN  /\ RunsWell(plan, ops, st, f, g)
             /\ plan[st.base] = "none" => WritesAt(st, f, g)
<1> DEFINE loads == Loaded(b, plan, f, st)
           v == <<st.tag>> \o loads
           g == Run(b, plan, ops, p, f, st)
           Goal(x) == RunsWell(plan, ops, st, f, x) /\ (plan[st.base] = "none" => WritesAt(st, f, x))
<1>0. st.base \in Containers /\ st.name \in Names /\ Writing = {"store", "augstore", "nested", "augnested", "mutate"}
  BY DEF Statements, Writing
<1>01. ChangesAt(f.heap, f.heap, st.base, IndexValue(st.ix, f))  BY DEF ChangesAt
<1>1. CASE ~f.ok \/ Skips(f, st)
  <2>1. g = f  BY <1>1 DEF Run, Updates
  <2>2. Goal(f)  BY <1>1, <1>01 DEF RunsWell, WritesAt
  <2> QED BY <2>1, <2>2, Zenon
<1>2. CASE f.ok /\ ~Skips(f, st) /\ ~ (NeedsOf(st, ops) \subseteq f.bound)
  <2>1. g = [f EXCEPT !.ok = FALSE]  BY <1>2 DEF Run, Updates
  <2>2. Goal([f EXCEPT !.ok = FALSE])  BY <1>2, <1>01 DEF RunsWell, WritesAt, FrameOK
  <2> QED BY <2>1, <2>2, Zenon
<1> DEFINE runs == f.ok /\ ~Skips(f, st) /\ NeedsOf(st, ops) \subseteq f.bound
<1>3. CASE runs /\ st.kind = "assign" /\ st.form = "plain"
  <2>1. g = Bind(f, st.name, v)  BY <1>3 DEF Run, Updates
  <2>2. Goal(Bind(f, st.name, v))
    <3> HIDE DEF v
    <3> QED BY <1>0, <1>3, BindKeeps DEF RunsWell, WritesAt, Certain, Renames
  <2> QED BY <2>1, <2>2, Zenon
<1>4. CASE runs /\ st.kind \in {"assign", "aug"} /\ ~ (st.kind = "assign" /\ st.form = "plain")
  <2>1. g = Update(f, ops, st, v)  BY <1>4 DEF Run, Updates
  <2>2. Goal(Update(f, ops, st, v))
    <3> HIDE DEF v
    <3> QED BY <1>0, <1>4, UpdateKeeps DEF RunsWell, WritesAt, Certain, Renames
  <2> QED BY <2>1, <2>2, Zenon
<1>5. CASE runs /\ st.kind = "walrus"
  <2>1. g = IF Truth(loads) THEN Bind(f, st.name, v) ELSE f  BY <1>5 DEF Run, Updates
  <2>2. Goal(Bind(f, st.name, v)) /\ Goal(f)
    <3> HIDE DEF v
    <3> QED BY <1>0, <1>01, <1>5, BindKeeps DEF RunsWell, WritesAt, Certain, Renames
  <2> QED BY <2>1, <2>2, Zenon
<1>6. CASE runs /\ st.kind = "move"
  <2> DEFINE w == <<IndexValue(st.ix, f)>>
  <2>1. g = Bind(f, st.name, w)  BY <1>6 DEF Run, Updates
  <2>2. Goal(Bind(f, st.name, w))
    <3> HIDE DEF w
    <3> QED BY <1>0, <1>6, BindKeeps DEF RunsWell, WritesAt, Certain, Renames
  <2> QED BY <2>1, <2>2, Zenon
<1>7. CASE runs /\ st.kind \in {"store", "nested", "augstore"}
  <2> DEFINE w == IF st.kind = "augstore" THEN Old(plan, f, st) \o v ELSE v
  <2>1. g = Put(b, plan, f, st, p, w)  BY <1>7 DEF Run, Updates
  <2>2. Goal(Put(b, plan, f, st, p, w))
    <3> HIDE DEF w
    <3> QED BY <1>0, <1>7, PutKeeps DEF RunsWell, WritesAt, Certain, Renames
  <2> QED BY <2>1, <2>2, Zenon
<1>8. CASE runs /\ st.kind = "augnested"
  <2>1. g = AddNested(plan, f, st, v)  BY <1>8 DEF Run, Updates
  <2>2. Goal(AddNested(plan, f, st, v))
    <3> HIDE DEF v
    <3> DEFINE x == AddNested(plan, f, st, v)
    <3>1. /\ FrameOK(x) /\ x.truth = f.truth /\ x.bound = f.bound /\ x.local = f.local
          /\ plan[st.base] = "none" => x.ok = f.ok /\ ChangesAt(f.heap, x.heap, st.base, IndexValue(st.ix, f))
      BY AddNestedKeeps, Zenon
    <3> HIDE DEF x
    <3>2. RunsWell(plan, ops, st, f, x)  BY <1>8, <3>1 DEF RunsWell, Certain
    <3>3. plan[st.base] = "none" => WritesAt(st, f, x)  BY <1>0, <1>8, <3>1 DEF WritesAt
    <3> QED BY <3>2, <3>3, Zenon DEF x
  <2> QED BY <2>1, <2>2, Zenon
<1>9. CASE runs /\ st.kind = "mutate"
  <2>1. g = Mutate(b, plan, f, st, p, v)  BY <1>9 DEF Run, Updates
  <2>2. Goal(Mutate(b, plan, f, st, p, v))
    <3> HIDE DEF v
    <3> QED BY <1>0, <1>9, MutateKeeps DEF RunsWell, WritesAt, Certain, Renames
  <2> QED BY <2>1, <2>2, Zenon
<1>10. CASE runs /\ st.kind = "opaque"
  <2> DEFINE h == [f.heap EXCEPT ![st.base][EndKey] = f.heap[st.base][EndKey] \o v]
  <2>1. g = [f EXCEPT !.heap = h]  BY <1>10 DEF Run, Updates
  <2>2. HeapOK(h)
    <3> HIDE DEF v
    <3> DEFINE w == f.heap[st.base][EndKey] \o v
    <3> HIDE DEF w
    <3> QED BY <1>0, Stored DEF FrameOK, w
  <2>3. Goal([f EXCEPT !.heap = h])
    <3> HIDE DEF h
    <3> QED BY <1>0, <1>10, <2>2 DEF RunsWell, WritesAt, Certain, Renames, FrameOK
  <2> QED BY <2>1, <2>3, Zenon
<1>11. CASE runs /\ st.kind = "if"
  <2>1. g = [f EXCEPT !.truth = Truth(loads)] /\ Truth(loads) \in BOOLEAN
    BY <1>11 DEF Run, Updates, Truth
  <2>2. Goal([f EXCEPT !.truth = Truth(loads)])
    <3> HIDE DEF loads
    <3> QED BY <1>0, <1>11, <2>1 DEF RunsWell, WritesAt, Certain, Renames, FrameOK
  <2> QED BY <2>1, <2>2, Zenon
<1>12. CASE runs /\ st.kind = "for"
  <2> DEFINE w == <<st.tag>>
  <2>1. g = Bind(f, st.name, w)  BY <1>12 DEF Run, Updates
  <2>2. Goal(Bind(f, st.name, w))
    <3> HIDE DEF w
    <3> QED BY <1>0, <1>12, BindKeeps DEF RunsWell, WritesAt, Certain, Renames
  <2> QED BY <2>1, <2>2, Zenon
<1>13. st.kind \in {"assign", "aug", "walrus", "move", "opaque", "if", "for"} \cup Writing
  BY DEF Statements
<1> QED
  <2> HIDE DEF g
  <2>1. f.ok \in BOOLEAN  BY DEF FrameOK
  <2> QED
    BY <1>0, <1>1, <1>2, <1>3, <1>4, <1>5, <1>6, <1>7, <1>8, <1>9, <1>10, <1>11, <1>12, <1>13, <2>1, Zenon DEF g

-----------------------------------------------------------------------------
(* What an iteration does *)

LEMMA IterationRuns ==
  ASSUME NEW b, NEW plan, NEW ops, NEW f, NEW p, Len(Flow(b, p)) \in Nat
  PROVE  \E g : Ran(b, plan, ops, f, p, g)
<1> DEFINE flow == Flow(b, p)
<1>0. Len(flow) \in Nat  OBVIOUS
<1> HIDE DEF flow
<1> DEFINE Upto(m, g) == g = [k \in 0 .. m |-> IF k = 0 THEN Begin(b, plan, f, p) ELSE Run(b, plan, ops, p, g[k - 1], flow[k])]
           Missing == {m \in 0 .. Len(flow) : ~ \E g : Upto(m, g)}
           ran == CHOOSE g : Upto(Len(flow), g)
<1>1. Missing = {}
  <2> SUFFICES ASSUME Missing # {} PROVE FALSE  OBVIOUS
  <2>1. PICK m \in Missing : \A n \in Missing : m <= n
    <3>1. Missing \subseteq 0 .. Len(flow)  OBVIOUS
    <3> HIDE DEF Missing
    <3>2. Missing \in SUBSET Nat  BY <1>0, <3>1
    <3> QED BY <3>2, LeastNatural
  <2>2. m \in 0 .. Len(flow) /\ ~ \E g : Upto(m, g)  BY <2>1
  <2>3. m # 0
    <3>1. Upto(0, [k \in 0 .. 0 |-> Begin(b, plan, f, p)])
      <4> DEFINE c == Begin(b, plan, f, p)
                 h == [k \in 0 .. 0 |-> c]
      <4>1. \A k \in 0 .. 0 : k = 0  OBVIOUS
      <4>2. \A k \in 0 .. 0 : c = IF k = 0 THEN c ELSE Run(b, plan, ops, p, h[k - 1], flow[k])
        BY <4>1, Zenon
      <4> QED BY <4>2, Zenon
    <3> QED BY <2>2, <3>1
  <2>4. m - 1 \in 0 .. Len(flow) /\ m \in 1 .. Len(flow) /\ ~ (m <= m - 1)  BY <1>0, <2>2, <2>3
  <2>5. PICK r : Upto(m - 1, r)  BY <2>1, <2>4
  <2> DEFINE next(k) == Run(b, plan, ops, p, r[k - 1], flow[k])
             h == [k \in 0 .. m |-> IF k = m THEN next(m) ELSE r[k]]
  <2>6. ASSUME NEW k \in 0 .. m
        PROVE  h[k] = IF k = 0 THEN Begin(b, plan, f, p) ELSE Run(b, plan, ops, p, h[k - 1], flow[k])
    <3>1. CASE k = 0
      <4>1. k # m /\ k \in 0 .. m - 1  BY <2>4, <3>1
      <4>2. h[k] = r[k]  BY <4>1, Zenon
      <4>3. r[k] = Begin(b, plan, f, p)  BY <2>5, <3>1, <4>1, Zenon
      <4> QED BY <3>1, <4>2, <4>3, Zenon
    <3>2. CASE k # 0
      <4>1. k - 1 \in 0 .. m /\ k - 1 # m  BY <2>4, <3>2
      <4>2. h[k - 1] = r[k - 1]  BY <4>1, Zenon
      <4>3. h[k] = next(k)
        <5>1. CASE k = m  BY <5>1, Zenon
        <5>2. CASE k # m
          <6>1. k \in 0 .. m - 1  BY <2>4, <5>2
          <6>2. r[k] = next(k)  BY <2>5, <3>2, <6>1, Zenon
          <6> QED BY <5>2, <6>2, Zenon
        <5> QED BY <5>1, <5>2, Zenon
      <4> QED BY <3>2, <4>2, <4>3, Zenon
    <3> QED BY <3>1, <3>2, Zenon
  <2>7. Upto(m, h)
    <3>1. h = [k \in 0 .. m |-> h[k]]  BY Zenon
    <3> HIDE DEF h
    <3> QED BY <2>6, <3>1, Zenon
  <2> QED BY <2>2, <2>7, Zenon
<1>2. Upto(Len(flow), ran)
  <2>1. Len(flow) \in 0 .. Len(flow)  BY <1>0
  <2>2. \E g : Upto(Len(flow), g)  BY <1>1, <2>1
  <2> HIDE DEF Ran
  <2> QED BY <2>2
<1>3. Iteration(b, plan, ops, f, p) = ran[Len(flow)]  BY Zenon DEF Iteration, flow
<1> HIDE DEF ran
<1>4. \A k \in 1 .. Len(flow) : k \in 0 .. Len(flow) /\ k # 0  BY <1>0
<1>5. 0 \in 0 .. Len(flow)  BY <1>0
<1>6. ran[0] = Begin(b, plan, f, p)  BY <1>2, <1>5, Zenon
<1>7. \A k \in 1 .. Len(flow) : ran[k] = Run(b, plan, ops, p, ran[k - 1], flow[k])
  BY <1>2, <1>4, Zenon
<1> QED BY <1>3, <1>6, <1>7, Zenon DEF Ran, flow

LEMMA StraightRuns == ASSUME NEW b, NEW f PROVE \E g : InTurn(b, f, g)
<1> DEFINE So(m, g) == g = [k \in 0 .. m |-> IF k = 0 THEN f ELSE Iteration(b, NoPlan, {}, g[k - 1], k - 1)]
           Missing == {m \in 0 .. N : ~ \E g : So(m, g)}
           ran == CHOOSE g : So(N, g)
<1>1. Missing = {}
  <2> SUFFICES ASSUME Missing # {} PROVE FALSE  OBVIOUS
  <2>1. PICK m \in Missing : \A n \in Missing : m <= n
    <3>1. Missing \subseteq 0 .. N  OBVIOUS
    <3> HIDE DEF Missing
    <3>2. Missing \in SUBSET Nat  BY <3>1, LoopBodyAssumption
    <3> QED BY <3>2, LeastNatural
  <2>2. m \in 0 .. N /\ ~ \E g : So(m, g)  BY <2>1
  <2>3. m # 0
    <3>1. So(0, [k \in 0 .. 0 |-> f])
      <4> DEFINE c == f
                 h == [k \in 0 .. 0 |-> c]
      <4>1. \A k \in 0 .. 0 : k = 0  OBVIOUS
      <4>2. \A k \in 0 .. 0 : c = IF k = 0 THEN c ELSE Iteration(b, NoPlan, {}, h[k - 1], k - 1)
        BY <4>1, Zenon
      <4> QED BY <4>2, Zenon
    <3> QED BY <2>2, <3>1
  <2>4. m - 1 \in 0 .. N /\ m \in 1 .. N /\ ~ (m <= m - 1)  BY <2>2, <2>3, LoopBodyAssumption
  <2>5. PICK r : So(m - 1, r)  BY <2>1, <2>4
  <2> DEFINE next(k) == Iteration(b, NoPlan, {}, r[k - 1], k - 1)
             h == [k \in 0 .. m |-> IF k = m THEN next(m) ELSE r[k]]
  <2>6. ASSUME NEW k \in 0 .. m
        PROVE  h[k] = IF k = 0 THEN f ELSE Iteration(b, NoPlan, {}, h[k - 1], k - 1)
    <3>1. CASE k = 0
      <4>1. k # m /\ k \in 0 .. m - 1  BY <2>4, <3>1
      <4>2. h[k] = r[k]  BY <4>1, Zenon
      <4>3. r[k] = f  BY <2>5, <3>1, <4>1, Zenon
      <4> QED BY <3>1, <4>2, <4>3, Zenon
    <3>2. CASE k # 0
      <4>1. k - 1 \in 0 .. m /\ k - 1 # m  BY <2>4, <3>2
      <4>2. h[k - 1] = r[k - 1]  BY <4>1, Zenon
      <4>3. h[k] = next(k)
        <5>1. CASE k = m  BY <5>1, Zenon
        <5>2. CASE k # m
          <6>1. k \in 0 .. m - 1  BY <2>4, <5>2
          <6>2. r[k] = next(k)  BY <2>5, <3>2, <6>1, Zenon
          <6> QED BY <5>2, <6>2, Zenon
        <5> QED BY <5>1, <5>2, Zenon
      <4> QED BY <3>2, <4>2, <4>3, Zenon
    <3> QED BY <3>1, <3>2, Zenon
  <2>7. So(m, h)
    <3>1. h = [k \in 0 .. m |-> h[k]]  BY Zenon
    <3> HIDE DEF h
    <3> QED BY <2>6, <3>1, Zenon
  <2> QED BY <2>2, <2>7, Zenon
<1>2. So(N, ran)
  <2>1. N \in 0 .. N  BY LoopBodyAssumption
  <2>2. \E g : So(N, g)  BY <1>1, <2>1
  <2> HIDE DEF Ran
  <2> QED BY <2>2
<1>3. Straight(b, f) = ran[N]  BY Zenon DEF Straight
<1> HIDE DEF ran
<1>4. \A k \in 1 .. N : k \in 0 .. N /\ k # 0  BY LoopBodyAssumption
<1>5. 0 \in 0 .. N  BY LoopBodyAssumption
<1>6. ran[0] = f  BY <1>2, <1>5, Zenon
<1>7. \A k \in 1 .. N : ran[k] = Iteration(b, NoPlan, {}, ran[k - 1], k - 1)  BY <1>2, <1>4, Zenon
<1> QED BY <1>3, <1>6, <1>7, Zenon DEF InTurn

-----------------------------------------------------------------------------
(* The events of a body *)

LEMMA ConcatRange ==
  ASSUME NEW T, NEW s \in Seq(T), NEW t \in Seq(T)
  PROVE  s \o t \in Seq(T) /\ Range(s \o t) = Range(s) \cup Range(t)
<1>1. s \o t \in Seq(T) /\ Len(s \o t) = Len(s) + Len(t) /\ Len(s) \in Nat /\ Len(t) \in Nat
  OBVIOUS
<1>2. ASSUME NEW i \in 1 .. Len(s) + Len(t) PROVE (s \o t)[i] \in Range(s) \cup Range(t)
  <2>1. CASE i <= Len(s)
    <3>1. (s \o t)[i] = s[i] /\ i \in DOMAIN s  BY <2>1
    <3> QED BY <3>1 DEF Range
  <2>2. CASE ~ (i <= Len(s))
    <3>1. (s \o t)[i] = t[i - Len(s)] /\ i - Len(s) \in DOMAIN t  BY <2>2
    <3> QED BY <3>1 DEF Range
  <2> QED BY <2>1, <2>2
<1>3. ASSUME NEW i \in 1 .. Len(s) PROVE s[i] \in Range(s \o t)
  <2>1. (s \o t)[i] = s[i] /\ i \in DOMAIN (s \o t)  OBVIOUS
  <2> HIDE DEF Range
  <2> QED BY <2>1, Zenon DEF Range
<1>4. ASSUME NEW i \in 1 .. Len(t) PROVE t[i] \in Range(s \o t)
  <2>1. (s \o t)[Len(s) + i] = t[i] /\ Len(s) + i \in DOMAIN (s \o t)  OBVIOUS
  <2> QED BY <2>1, Zenon DEF Range
<1>5. Range(s \o t) \subseteq Range(s) \cup Range(t)
  <2>1. DOMAIN (s \o t) = 1 .. Len(s) + Len(t)  BY <1>1
  <2>2. \A x \in Range(s \o t) : \E i \in 1 .. Len(s) + Len(t) : x = (s \o t)[i]
    BY <2>1, Zenon DEF Range
  <2> QED BY <1>2, <2>2, Zenon
<1>6. Range(s) \subseteq Range(s \o t) /\ Range(t) \subseteq Range(s \o t)
  <2>1. DOMAIN s = 1 .. Len(s) /\ DOMAIN t = 1 .. Len(t)  OBVIOUS
  <2>2. \A x \in Range(s) : \E i \in 1 .. Len(s) : x = s[i]  BY <2>1, Zenon DEF Range
  <2>3. \A x \in Range(t) : \E i \in 1 .. Len(t) : x = t[i]  BY <2>1, Zenon DEF Range
  <2> QED BY <1>3, <1>4, <2>2, <2>3, Zenon
<1> QED BY <1>1, <1>5, <1>6, Zenon

LEMMA RangeIs ==
  ASSUME NEW T, NEW s \in Seq(T)
  PROVE  /\ Range(s) \subseteq T
         /\ \A i \in 1 .. Len(s) : s[i] \in Range(s)
         /\ \A x \in Range(s) : \E i \in 1 .. Len(s) : s[i] = x
         /\ DOMAIN s = 1 .. Len(s) /\ Len(s) \in Nat
BY DEF Range

LEMMA OneIs ==
  ASSUME NEW T, NEW x \in T
  PROVE  <<x>> \in Seq(T) /\ Range(<<x>>) = {x} /\ <<>> \in Seq(T) /\ Range(<<>>) = {}
BY DEF Range

LEMMA FlattenRange ==
  ASSUME NEW T, NEW P \in Seq(Seq(T))
  PROVE  /\ FlattenSeq(P) \in Seq(T)
         /\ \A n \in 1 .. Len(P) : Range(P[n]) \subseteq Range(FlattenSeq(P))
<1> DEFINE F == FlattenSeq(P)
<1>1. F \in Seq(T)  BY FlattenIs
<1>2. \A n \in 1 .. Len(P) : \A i \in 1 .. Len(P[n]) : \E k \in 1 .. Len(F) : F[k] = P[n][i]
  BY FlattenIs
<1> HIDE DEF F
<1>3. ASSUME NEW n \in 1 .. Len(P), NEW x \in Range(P[n]) PROVE x \in Range(F)
  <2>1. P[n] \in Seq(T)  OBVIOUS
  <2>2. PICK i \in 1 .. Len(P[n]) : P[n][i] = x  BY <2>1, RangeIs
  <2>3. PICK k \in 1 .. Len(F) : F[k] = x  BY <1>2, <2>2, Zenon
  <2> QED BY <1>1, <2>3, RangeIs
<1> QED BY <1>1, <1>3, Zenon DEF F

LEMMA WholeIsIndex == Whole \in Indexes
BY DEF Whole, Indexes, Names

LEMMA EventIs ==
  ASSUME NEW st \in Statements, NEW path \in Names \cup Containers,
         NEW kind \in {"read", "subread", "subwrite", "opaque", "aug"},
         kind = "aug" => path \in Names, kind \in {"subwrite", "opaque"} => path \in Containers
  PROVE  /\ Event(kind, path, st) \in Emitted(st)
         /\ \A ix \in Indexes : At(Event(kind, path, st), ix) \in Emitted(st)
         /\ Event(kind, path, st).path = path
         /\ \A ix \in Indexes : At(Event(kind, path, st), ix).path = path
<1> DEFINE Set == [kind : {"read", "subread", "write", "aug", "subwrite", "opaque"}, path : Names \cup Containers,
                   ctx : {Ctx(st)}, ix : Indexes, op : {"none", "+", "max"}, self : BOOLEAN, nested : BOOLEAN,
                   inLoop : BOOLEAN]
           e == Event(kind, path, st)
<1>1. e \in Set /\ e.kind = kind /\ e.path = path  BY WholeIsIndex DEF Event
<1>2. ASSUME NEW ix \in Indexes
      PROVE  At(e, ix) \in Set /\ At(e, ix).kind = kind /\ At(e, ix).path = path
  <2> HIDE DEF e
  <2> QED BY <1>1 DEF At
<1> HIDE DEF e
<1>3. \A x \in Set : x.kind = kind /\ x.path = path => x \in Emitted(st)  BY DEF Emitted
<1> HIDE DEF Set
<1> QED BY <1>1, <1>2, <1>3, Zenon DEF e

LEMMA WriteEventsAre ==
  ASSUME NEW st \in Statements
  PROVE  LET writes == [At(Event("subwrite", st.base, st), st.ix) EXCEPT !.nested = st.kind = "nested"]
             bind == [Event("write", st.name, st) EXCEPT !.op = SelfOp(st), !.self = SelfRef(st)]
             walrus == Event("write", st.name, st)
             aug == [Event("aug", st.name, st) EXCEPT !.op = st.op]
         IN  /\ writes \in Emitted(st) /\ writes.kind = "subwrite" /\ writes.path = st.base /\ writes.ix = st.ix
             /\ st.kind \in {"assign", "move"} =>
                  bind \in Emitted(st) /\ bind.kind = "write" /\ bind.path = st.name /\ bind.op = SelfOp(st)
             /\ st.kind = "walrus" => walrus \in Emitted(st) /\ walrus.kind = "write" /\ walrus.path = st.name
             /\ aug \in Emitted(st) /\ aug.kind = "aug" /\ aug.path = st.name
<1>1. /\ st.base \in Containers /\ st.name \in Names /\ st.ix \in Indexes /\ st.op \in {"+", "max"}
      /\ st.form \in {"plain", "left", "right"}
  BY DEF Statements
<1>2. SelfRef(st) \in BOOLEAN /\ SelfOp(st) \in {"none", "+", "max"}  BY <1>1 DEF SelfRef, SelfOp
<1> DEFINE writes == [At(Event("subwrite", st.base, st), st.ix) EXCEPT !.nested = st.kind = "nested"]
           bind == [Event("write", st.name, st) EXCEPT !.op = SelfOp(st), !.self = SelfRef(st)]
           walrus == Event("write", st.name, st)
           aug == [Event("aug", st.name, st) EXCEPT !.op = st.op]
<1>3. writes \in Emitted(st) /\ writes.kind = "subwrite" /\ writes.path = st.base /\ writes.ix = st.ix
  BY <1>1 DEF Emitted, Event, At
<1>4. st.kind \in {"assign", "move"} =>
        bind \in Emitted(st) /\ bind.kind = "write" /\ bind.path = st.name /\ bind.op = SelfOp(st)
  <2> DEFINE self == SelfRef(st)
             op == SelfOp(st)
  <2>1. self \in BOOLEAN /\ op \in {"none", "+", "max"}  BY <1>2
  <2> HIDE DEF op
  <2>2. ASSUME st.kind \in {"assign", "move"} PROVE [Event("write", st.name, st) EXCEPT !.op = op, !.self = self] \in Emitted(st)
    <3> DEFINE e == [Event("write", st.name, st) EXCEPT !.op = op, !.self = self]
    <3>1. e \in [kind : {"read", "subread", "write", "aug", "subwrite", "opaque"}, path : Names \cup Containers,
                 ctx : {Ctx(st)}, ix : Indexes, op : {"none", "+", "max"}, self : BOOLEAN, nested : BOOLEAN,
                 inLoop : BOOLEAN]
      <4> HIDE DEF self
      <4> QED BY <1>1, <2>1, WholeIsIndex DEF Event
    <3>2. e.kind = "write" /\ e.path = st.name /\ e.self = self
      <4> HIDE DEF self
      <4> QED BY DEF Event
    <3> HIDE DEF e
    <3>3. e \in Emitted(st)  BY <1>1, <2>2, <3>1, <3>2 DEF Emitted
    <3> QED BY <3>3, Zenon DEF e
  <2>3. [Event("write", st.name, st) EXCEPT !.op = op, !.self = self].kind = "write"
        /\ [Event("write", st.name, st) EXCEPT !.op = op, !.self = self].path = st.name
        /\ [Event("write", st.name, st) EXCEPT !.op = op, !.self = self].op = op
    BY DEF Event
  <2> QED BY <2>2, <2>3, Zenon DEF op
<1>5. st.kind = "walrus" => walrus \in Emitted(st) /\ walrus.kind = "write" /\ walrus.path = st.name
  BY <1>1, WholeIsIndex DEF Emitted, Event
<1>6. aug \in Emitted(st) /\ aug.kind = "aug" /\ aug.path = st.name
  BY <1>1, WholeIsIndex DEF Emitted, Event
<1> QED BY <1>3, <1>4, <1>5, <1>6, Zenon

LEMMA OwnIsEmitted ==
  ASSUME NEW st \in Statements
  PROVE  /\ Storing(st) \in Emitted(st) /\ Reading(st) \in Emitted(st) /\ Adding(st) \in Emitted(st)
         /\ Event("opaque", st.base, st) \in Emitted(st)
         /\ st.kind \in {"assign", "move"} => Binding(st) \in Emitted(st)
         /\ st.kind = "walrus" => Event("write", st.name, st) \in Emitted(st)
<1>1. /\ Storing(st) \in Emitted(st) /\ Adding(st) \in Emitted(st)
      /\ st.kind \in {"assign", "move"} => Binding(st) \in Emitted(st)
      /\ st.kind = "walrus" => Event("write", st.name, st) \in Emitted(st)
  BY WriteEventsAre, Zenon DEF Storing, Adding, Binding
<1>2. st.base \in Names \cup Containers /\ st.base \in Containers /\ st.ix \in Indexes
  BY DEF Statements
<1>3. Reading(st) \in Emitted(st) /\ Event("opaque", st.base, st) \in Emitted(st)
  BY <1>2, EventIs DEF Reading
<1> QED BY <1>1, <1>3

LEMMA LoadedEvents ==
  ASSUME NEW st \in Statements
  PROVE  /\ \A n \in Names \cup Containers : ReadOf(n, st) \in LoadKinds(st) /\ ReadOf(n, st).kind = "read" /\ ReadOf(n, st).path = n
         /\ \A n \in Names \cup Containers, ix \in Indexes :
              /\ PartOf(n, ix, st) \in LoadKinds(st) /\ PartOf(n, ix, st).kind = "subread"
              /\ PartOf(n, ix, st).path = n /\ PartOf(n, ix, st).ix = ix
<1>1. ASSUME NEW n \in Names \cup Containers
      PROVE  ReadOf(n, st) \in LoadKinds(st) /\ ReadOf(n, st).kind = "read" /\ ReadOf(n, st).path = n
  <2>1. ReadOf(n, st) \in Emitted(st)  BY EventIs DEF ReadOf
  <2>2. ReadOf(n, st).kind = "read" /\ ReadOf(n, st).path = n  BY DEF ReadOf, Event
  <2> QED BY <2>1, <2>2, Zenon DEF LoadKinds
<1>2. ASSUME NEW n \in Names \cup Containers, NEW ix \in Indexes
      PROVE  /\ PartOf(n, ix, st) \in LoadKinds(st) /\ PartOf(n, ix, st).kind = "subread"
             /\ PartOf(n, ix, st).path = n /\ PartOf(n, ix, st).ix = ix
  <2>1. PartOf(n, ix, st) \in Emitted(st)  BY EventIs DEF PartOf
  <2>2. PartOf(n, ix, st).kind = "subread" /\ PartOf(n, ix, st).path = n /\ PartOf(n, ix, st).ix = ix
    BY DEF PartOf, Event, At
  <2> QED BY <2>1, <2>2, Zenon DEF LoadKinds
<1> QED BY <1>1, <1>2, Zenon

LEMMA PiecesAre ==
  ASSUME NEW st \in Statements
  PROVE  /\ Storing(st).kind = "subwrite" /\ Storing(st).path = st.base /\ Storing(st).ix = st.ix
         /\ (Storing(st).nested <=> st.kind = "nested")
         /\ Reading(st).kind = "subread" /\ Reading(st).path = st.base /\ Reading(st).ix = st.ix
         /\ Adding(st).kind = "aug" /\ Adding(st).path = st.name /\ Adding(st).op = st.op
         /\ Binding(st).kind = "write" /\ Binding(st).path = st.name /\ Binding(st).op = SelfOp(st)
         /\ Event("write", st.name, st).kind = "write" /\ Event("write", st.name, st).path = st.name /\ Event("write", st.name, st).op = "none"
         /\ Event("opaque", st.base, st).kind = "opaque" /\ Event("opaque", st.base, st).path = st.base
<1>1. /\ Storing(st).kind = "subwrite" /\ Storing(st).path = st.base /\ Storing(st).ix = st.ix
      /\ (Storing(st).nested <=> st.kind = "nested")
  BY DEF Storing, At, Event
<1>2. Reading(st).kind = "subread" /\ Reading(st).path = st.base /\ Reading(st).ix = st.ix
  BY DEF Reading, At, Event
<1>3. Adding(st).kind = "aug" /\ Adding(st).path = st.name /\ Adding(st).op = st.op
  BY DEF Adding, Event
<1>4. Binding(st).kind = "write" /\ Binding(st).path = st.name /\ Binding(st).op = SelfOp(st)
  <2> DEFINE op == SelfOp(st)
             self == SelfRef(st)
  <2> HIDE DEF op, self
  <2>1. Binding(st) = [Event("write", st.name, st) EXCEPT !.op = op, !.self = self]
    BY Zenon DEF Binding, op, self
  <2>2. /\ [Event("write", st.name, st) EXCEPT !.op = op, !.self = self].kind = "write"
        /\ [Event("write", st.name, st) EXCEPT !.op = op, !.self = self].path = st.name
        /\ [Event("write", st.name, st) EXCEPT !.op = op, !.self = self].op = op
    BY DEF Event
  <2> QED BY <2>1, <2>2, Zenon DEF op
<1>5. /\ Event("write", st.name, st).kind = "write" /\ Event("write", st.name, st).path = st.name /\ Event("write", st.name, st).op = "none"
      /\ Event("opaque", st.base, st).kind = "opaque" /\ Event("opaque", st.base, st).path = st.base
  BY DEF Event
<1> QED BY <1>1, <1>2, <1>3, <1>4, <1>5, Zenon

LEMMA ReadsHave ==
  ASSUME NEW st \in Statements, NEW hidden
  PROVE  /\ \A n \in Names \cup Containers :
              Read(n, st, hidden) \in Seq(LoadKinds(st)) /\ (n \notin hidden => ReadOf(n, st) \in Range(Read(n, st, hidden)))
         /\ \A ix \in Indexes :
              /\ IndexLoads(ix, st, hidden) \in Seq(LoadKinds(st))
              /\ ix.form \notin {"whole", "lit"} /\ ix.name \notin hidden => ReadOf(ix.name, st) \in Range(IndexLoads(ix, st, hidden))
<1>1. ASSUME NEW n \in Names \cup Containers
      PROVE  Read(n, st, hidden) \in Seq(LoadKinds(st)) /\ (n \notin hidden => ReadOf(n, st) \in Range(Read(n, st, hidden)))
  <2> DEFINE e == ReadOf(n, st)
  <2>1. e \in LoadKinds(st)  BY LoadedEvents, Zenon
  <2> HIDE DEF e
  <2>2. <<e>> \in Seq(LoadKinds(st)) /\ Range(<<e>>) = {e} /\ <<>> \in Seq(LoadKinds(st))
    BY <2>1, OneIs
  <2>3. Read(n, st, hidden) = IF n \in hidden THEN <<>> ELSE <<e>>  BY Zenon DEF Read, e, ReadOf
  <2>4. e \in Range(<<e>>)  BY <2>2
  <2> QED BY <2>2, <2>3, <2>4, Zenon DEF e
<1>2. ASSUME NEW ix \in Indexes
      PROVE  /\ IndexLoads(ix, st, hidden) \in Seq(LoadKinds(st))
             /\ ix.form \notin {"whole", "lit"} /\ ix.name \notin hidden => ReadOf(ix.name, st) \in Range(IndexLoads(ix, st, hidden))
  <2>1. ix.name \in Names \cup Containers  BY DEF Indexes
  <2>2. Read(ix.name, st, hidden) \in Seq(LoadKinds(st)) /\ (ix.name \notin hidden => ReadOf(ix.name, st) \in Range(Read(ix.name, st, hidden)))
    BY <1>1, <2>1
  <2>3. <<>> \in Seq(LoadKinds(st))  OBVIOUS
  <2> QED BY <2>2, <2>3, Zenon DEF IndexLoads
<1> QED BY <1>1, <1>2, Zenon

LEMMA TokensGrow == ASSUME NEW u, NEW st, NEW hidden, NEW S, Tokens(u, st, hidden, S), NEW Z, S \subseteq Z PROVE Tokens(u, st, hidden, Z)
BY DEF Tokens

LEMMA LoadsHave ==
  ASSUME NEW st \in Statements, NEW hidden
  PROVE  /\ Loads(st, hidden) \in Seq(LoadKinds(st)) /\ Range(Loads(st, hidden)) \subseteq LoadKinds(st)
         /\ \A u \in Range(st.uses) : Tokens(u, st, hidden, Range(Loads(st, hidden)))
<1> DEFINE Use == [name : Names \cup Containers, ix : Indexes]
           T == LoadKinds(st)
<1>1. st.uses \in Seq(Use)  BY DEF Statements
<1>2. ASSUME NEW u \in Use
      PROVE  /\ LoadEvents(u, st, hidden) \in Seq(T)
             /\ Tokens(u, st, hidden, Range(LoadEvents(u, st, hidden)))
  <2>1. u.name \in Names \cup Containers /\ u.ix \in Indexes  OBVIOUS
  <2> DEFINE r == Read(u.name, st, hidden)
             e == PartOf(u.name, u.ix, st)
             m == IF u.ix.form = "whole" \/ u.name \in hidden THEN <<>> ELSE <<e>>
             x == IndexLoads(u.ix, st, hidden)
             two == ReadOf(u.name, st)
             index == ReadOf(u.ix.name, st)
  <2>2. r \in Seq(T) /\ (u.name \notin hidden => two \in Range(r))  BY <2>1, ReadsHave, Zenon
  <2>3. x \in Seq(T) /\ (u.ix.form \notin {"whole", "lit"} /\ u.ix.name \notin hidden => index \in Range(x))
    BY <2>1, ReadsHave, Zenon
  <2>4. m \in Seq(T) /\ (u.name \notin hidden /\ u.ix.form # "whole" => e \in Range(m))
    <3>1. e \in T  BY <2>1, LoadedEvents, Zenon
    <3> HIDE DEF T, e
    <3>2. <<e>> \in Seq(T) /\ <<>> \in Seq(T) /\ e \in Range(<<e>>)  BY <3>1, OneIs
    <3> QED BY <3>2, Zenon
  <2>5. LoadEvents(u, st, hidden) = r \o m \o x  BY Zenon DEF LoadEvents, PartOf
  <2> HIDE DEF r, m, x, T, e, two, index
  <2>60. \A s, t \in Seq(T) : s \o t \in Seq(T) /\ Range(s \o t) = Range(s) \cup Range(t)
    BY ConcatRange
  <2>6. r \o m \in Seq(T) /\ Range(r \o m) = Range(r) \cup Range(m)  BY <2>2, <2>4, <2>60, Zenon
  <2>7. (r \o m) \o x \in Seq(T) /\ Range((r \o m) \o x) = Range(r \o m) \cup Range(x)
    BY <2>3, <2>6, <2>60, Zenon
  <2>8. LoadEvents(u, st, hidden) \in Seq(T) /\ Range(LoadEvents(u, st, hidden)) = Range(r) \cup Range(m) \cup Range(x)
    BY <2>5, <2>6, <2>7
  <2> QED BY <2>2, <2>3, <2>4, <2>8 DEF Tokens, e, two, index
<1> DEFINE P == [n \in DOMAIN st.uses |-> LoadEvents(st.uses[n], st, hidden)]
<1>3. DOMAIN st.uses = 1 .. Len(st.uses) /\ Len(st.uses) \in Nat /\ \A n \in 1 .. Len(st.uses) : st.uses[n] \in Use
  <2> HIDE DEF Use
  <2> QED BY <1>1
<1>4. P \in Seq(Seq(T)) /\ Len(P) = Len(st.uses) /\ \A n \in 1 .. Len(st.uses) : P[n] = LoadEvents(st.uses[n], st, hidden)
  <2> HIDE DEF Use, T
  <2>1. \A n \in 1 .. Len(st.uses) : LoadEvents(st.uses[n], st, hidden) \in Seq(T)  BY <1>2, <1>3
  <2> QED BY <1>3, <2>1
<1>5. Loads(st, hidden) = FlattenSeq(P)  BY Zenon DEF Loads
<1> HIDE DEF P, T
<1>6. FlattenSeq(P) \in Seq(T) /\ \A n \in 1 .. Len(P) : Range(P[n]) \subseteq Range(FlattenSeq(P))
  BY <1>4, FlattenRange
<1>7. ASSUME NEW u \in Range(st.uses) PROVE Tokens(u, st, hidden, Range(Loads(st, hidden)))
  <2>1. PICK n \in 1 .. Len(st.uses) : u = st.uses[n]  BY <1>3 DEF Range
  <2>2. u \in Use /\ P[n] = LoadEvents(u, st, hidden) /\ Range(P[n]) \subseteq Range(Loads(st, hidden))
    BY <1>3, <1>4, <1>5, <1>6, <2>1
  <2> HIDE DEF Use
  <2>3. Tokens(u, st, hidden, Range(P[n]))  BY <1>2, <2>2, Zenon
  <2> QED BY <2>2, <2>3, TokensGrow, Zenon
<1>8. Range(Loads(st, hidden)) \subseteq T  BY <1>5, <1>6, RangeIs
<1> QED BY <1>5, <1>6, <1>7, <1>8, Zenon DEF T

LEMMA StmtRange ==
  ASSUME NEW st \in Statements, NEW outer, st.kind \notin {"break", "return"}
  PROVE  /\ StmtEvents(st, outer) \in Seq(Emitted(st))
         /\ Range(StmtEvents(st, outer)) = Range(Loads(st, HiddenTo(st, outer))) \cup IndexEvents(st, outer)
                                           \cup BaseEvents(st) \cup OwnEvents(st)
<1> DEFINE hidden == IF st.arm = "loop" THEN outer ELSE {}
           own == IF SelfRef(st) THEN hidden \cup {st.name} ELSE hidden
           hid == HiddenTo(st, outer)
           T == Emitted(st)
           E == StmtEvents(st, outer)
           L == Loads(st, hid)
           I == IndexLoads(st.ix, st, hid)
           B == Read(st.base, st, {})
           bind == Binding(st)
           walrus == Event("write", st.name, st)
           aug == Adding(st)
           writes == Storing(st)
           reads == Reading(st)
           opaque == Event("opaque", st.base, st)
<1>1. L \in Seq(T) /\ I \in Seq(T) /\ B \in Seq(T)
  <2>1. st.base \in Names \cup Containers /\ st.ix \in Indexes  BY DEF Statements
  <2>2. L \in Seq(LoadKinds(st)) /\ I \in Seq(LoadKinds(st)) /\ B \in Seq(LoadKinds(st))
    BY <2>1, LoadsHave, ReadsHave, Zenon
  <2>3. \A s \in Seq(LoadKinds(st)) : s \in Seq(T)  BY DEF LoadKinds
  <2> QED BY <2>2, <2>3, Zenon
<1>2. /\ writes \in T /\ reads \in T /\ aug \in T /\ opaque \in T
      /\ st.kind \in {"assign", "move"} => bind \in T
      /\ st.kind = "walrus" => walrus \in T
  BY OwnIsEmitted
<1>3. /\ st.kind \in {"assign", "move"} => hid = own
      /\ st.kind \notin {"assign", "move"} => hid = hidden
  BY DEF HiddenTo
<1>4. \A s, t \in Seq(T) : s \o t \in Seq(T) /\ Range(s \o t) = Range(s) \cup Range(t)
  BY ConcatRange
<1>5. \A e \in T : <<e>> \in Seq(T) /\ Range(<<e>>) = {e}  BY OneIs
<1>6. Range(<<>>) = {} /\ <<>> \in Seq(T)  BY DEF Range
<1>62. /\ <<writes>> \in Seq(T) /\ Range(<<writes>>) = {writes} /\ <<reads>> \in Seq(T) /\ Range(<<reads>>) = {reads}
       /\ <<aug>> \in Seq(T) /\ Range(<<aug>>) = {aug} /\ <<opaque>> \in Seq(T) /\ Range(<<opaque>>) = {opaque}
       /\ st.kind \in {"assign", "move"} => <<bind>> \in Seq(T) /\ Range(<<bind>>) = {bind}
       /\ st.kind = "walrus" => <<walrus>> \in Seq(T) /\ Range(<<walrus>>) = {walrus}
  BY <1>2, <1>5, Zenon
<1> HIDE DEF T, hid, L, I, B, bind, walrus, aug, writes, reads, opaque, own, hidden
<1> DEFINE R == Range(L) \cup IndexEvents(st, outer) \cup BaseEvents(st) \cup OwnEvents(st)
<1>7. ASSUME st.kind = "assign" PROVE E \in Seq(T) /\ Range(E) = R
  <2>1. E = L \o <<>> \o <<bind>>  BY <1>3, <1>7 DEF StmtEvents, L, own, hidden, bind, Binding
  <2>2. R = Range(L) \cup {bind}  BY <1>7 DEF IndexEvents, BaseEvents, OwnEvents, Writing, bind
  <2>30. L \o <<>> \in Seq(T) /\ Range(L \o <<>>) = Range(L) \cup Range(<<>>)
    BY <1>1, <1>6, <1>7, <1>4, <1>62, Zenon
  <2>3. (L \o <<>>) \o <<bind>> \in Seq(T) /\ Range((L \o <<>>) \o <<bind>>) = Range(L \o <<>>) \cup Range(<<bind>>)
    BY <2>30, <1>1, <1>6, <1>7, <1>4, <1>62, Zenon
  <2>4. Range(<<bind>>) = {bind}  BY <1>7, <1>62, Zenon
  <2> QED BY <1>6, <2>1, <2>2, <2>3, <2>4, <2>30
<1>8. ASSUME st.kind = "move" PROVE E \in Seq(T) /\ Range(E) = R
  <2>1. E = L \o I \o <<bind>>  BY <1>3, <1>8 DEF StmtEvents, L, I, own, hidden, bind, Binding
  <2>2. R = Range(L) \cup Range(I) \cup {bind}
    BY <1>8 DEF IndexEvents, BaseEvents, OwnEvents, Writing, bind, I, hid
  <2>30. L \o I \in Seq(T) /\ Range(L \o I) = Range(L) \cup Range(I)
    BY <1>1, <1>8, <1>4, <1>62, Zenon
  <2>3. (L \o I) \o <<bind>> \in Seq(T) /\ Range((L \o I) \o <<bind>>) = Range(L \o I) \cup Range(<<bind>>)
    BY <2>30, <1>1, <1>8, <1>4, <1>62, Zenon
  <2>4. Range(<<bind>>) = {bind}  BY <1>8, <1>62, Zenon
  <2> QED BY <2>1, <2>2, <2>3, <2>4, <2>30
<1>9. ASSUME st.kind = "walrus" PROVE E \in Seq(T) /\ Range(E) = R
  <2>1. E = L \o <<walrus>>  BY <1>3, <1>9 DEF StmtEvents, L, hidden, walrus
  <2>2. R = Range(L) \cup {walrus}  BY <1>9 DEF IndexEvents, BaseEvents, OwnEvents, Writing, walrus
  <2>3. L \o <<walrus>> \in Seq(T) /\ Range(L \o <<walrus>>) = Range(L) \cup Range(<<walrus>>)  BY <1>1, <1>4, <1>9, <1>62, Zenon
  <2>4. Range(<<walrus>>) = {walrus}  BY <1>9, <1>62, Zenon
  <2> QED BY <2>1, <2>2, <2>3, <2>4
<1>10. ASSUME st.kind = "aug" PROVE E \in Seq(T) /\ Range(E) = R
  <2>1. E = L \o <<aug>>  BY <1>3, <1>10 DEF StmtEvents, L, hidden, aug, Adding
  <2>2. R = Range(L) \cup {aug}  BY <1>10 DEF IndexEvents, BaseEvents, OwnEvents, Writing, aug
  <2>3. L \o <<aug>> \in Seq(T) /\ Range(L \o <<aug>>) = Range(L) \cup Range(<<aug>>)  BY <1>1, <1>4, <1>62, Zenon
  <2> QED BY <1>62, <2>1, <2>2, <2>3
<1>11. B \o I \in Seq(T) /\ Range(B \o I) = Range(B) \cup Range(I)  BY <1>1, <1>4, Zenon
<1>12. st.kind \notin {"assign", "move"} => Subscripted(st, hidden) = B \o I
  BY <1>3 DEF Subscripted, B, I
<1>13. ASSUME st.kind \in {"store", "nested"} PROVE E \in Seq(T) /\ Range(E) = R
  <2>1. E = L \o (B \o I) \o <<writes>>
    BY <1>3, <1>12, <1>13 DEF StmtEvents, L, hidden, writes, Storing
  <2>2. R = Range(L) \cup Range(I) \cup Range(B) \cup {writes}
    BY <1>13 DEF IndexEvents, BaseEvents, OwnEvents, Writing, writes, I, hid, B
  <2>30. L \o (B \o I) \in Seq(T) /\ Range(L \o (B \o I)) = Range(L) \cup Range(B \o I)
    BY <1>1, <1>11, <1>4, <1>62, Zenon
  <2>3. (L \o (B \o I)) \o <<writes>> \in Seq(T) /\ Range((L \o (B \o I)) \o <<writes>>) = Range(L \o (B \o I)) \cup Range(<<writes>>)
    BY <2>30, <1>1, <1>11, <1>4, <1>62, Zenon
  <2> QED BY <1>11, <1>62, <2>1, <2>2, <2>3, <2>30
<1>14. <<reads, writes>> \in Seq(T) /\ Range(<<reads, writes>>) = {reads, writes}
  <2>1. <<reads, writes>> = <<reads>> \o <<writes>>  OBVIOUS
  <2>2. <<reads>> \o <<writes>> \in Seq(T) /\ Range(<<reads>> \o <<writes>>) = Range(<<reads>>) \cup Range(<<writes>>)
    BY <1>4, <1>62, Zenon
  <2> QED BY <1>62, <2>1, <2>2
<1>15. ASSUME st.kind \in {"augstore", "augnested"} PROVE E \in Seq(T) /\ Range(E) = R
  <2>1. E = L \o (B \o I) \o <<reads, writes>>
    BY <1>3, <1>12, <1>15 DEF StmtEvents, L, hidden, writes, Storing, reads, Reading
  <2>2. R = Range(L) \cup Range(I) \cup Range(B) \cup {writes, reads}
    BY <1>15 DEF IndexEvents, BaseEvents, OwnEvents, Writing, writes, reads, I, hid, B
  <2>30. L \o (B \o I) \in Seq(T) /\ Range(L \o (B \o I)) = Range(L) \cup Range(B \o I)
    BY <1>1, <1>11, <1>4, <1>14, Zenon
  <2>3. (L \o (B \o I)) \o <<reads, writes>> \in Seq(T) /\ Range((L \o (B \o I)) \o <<reads, writes>>) = Range(L \o (B \o I)) \cup Range(<<reads, writes>>)
    BY <2>30, <1>1, <1>11, <1>4, <1>14, Zenon
  <2> QED BY <1>11, <1>14, <2>1, <2>2, <2>3, <2>30
<1>16. ASSUME st.kind = "mutate" PROVE E \in Seq(T) /\ Range(E) = R
  <2>1. E = (B \o I) \o <<reads, writes>> \o L
    BY <1>3, <1>12, <1>16 DEF StmtEvents, L, hidden, writes, Storing, reads, Reading
  <2>2. R = Range(L) \cup Range(I) \cup Range(B) \cup {writes, reads}
    BY <1>16 DEF IndexEvents, BaseEvents, OwnEvents, Writing, writes, reads, I, hid, B
  <2>30. (B \o I) \o <<reads, writes>> \in Seq(T) /\ Range((B \o I) \o <<reads, writes>>) = Range(B \o I) \cup Range(<<reads, writes>>)
    BY <1>1, <1>11, <1>4, <1>14, Zenon
  <2>3. ((B \o I) \o <<reads, writes>>) \o L \in Seq(T) /\ Range(((B \o I) \o <<reads, writes>>) \o L) = Range((B \o I) \o <<reads, writes>>) \cup Range(L)
    BY <2>30, <1>1, <1>11, <1>4, <1>14, Zenon
  <2> QED BY <1>11, <1>14, <2>1, <2>2, <2>3, <2>30
<1>17. ASSUME st.kind = "opaque" PROVE E \in Seq(T) /\ Range(E) = R
  <2>1. E = B \o <<opaque>> \o L  BY <1>3, <1>17 DEF StmtEvents, L, B, hidden, opaque
  <2>2. R = Range(L) \cup Range(B) \cup {opaque}
    BY <1>17 DEF IndexEvents, BaseEvents, OwnEvents, Writing, B, opaque
  <2>30. B \o <<opaque>> \in Seq(T) /\ Range(B \o <<opaque>>) = Range(B) \cup Range(<<opaque>>)
    BY <1>1, <1>4, <1>62, Zenon
  <2>3. (B \o <<opaque>>) \o L \in Seq(T) /\ Range((B \o <<opaque>>) \o L) = Range(B \o <<opaque>>) \cup Range(L)
    BY <2>30, <1>1, <1>4, <1>62, Zenon
  <2> QED BY <1>62, <2>1, <2>2, <2>3, <2>30
<1>18. ASSUME st.kind \in {"if", "for"} PROVE E \in Seq(T) /\ Range(E) = R
  <2>1. E = L  BY <1>3, <1>18 DEF StmtEvents, L, hidden
  <2>2. R = Range(L)  BY <1>18 DEF IndexEvents, BaseEvents, OwnEvents, Writing
  <2> QED BY <1>1, <2>1, <2>2
<1>19. st.kind \in {"assign", "move", "walrus", "aug", "store", "nested", "augstore", "augnested", "mutate", "opaque", "if", "for"}
  BY DEF Statements, Writing
<1> HIDE DEF E, R
<1>20. E \in Seq(T) /\ Range(E) = R  BY <1>7, <1>8, <1>9, <1>10, <1>13, <1>15, <1>16, <1>17, <1>18, <1>19
<1> QED BY <1>20, Zenon DEF E, R, L, hid, T

\* What a statement needs and does not itself rebind, it reads.
LEMMA NeedsRead ==
  ASSUME NEW st \in Statements, NEW outer, st.kind \notin {"break", "return"},
         st.kind \notin Writing \cup {"move"} => st.ix = Whole
  PROVE  \A n \in Needs(st) \ HiddenTo(st, outer) : \E e \in Range(StmtEvents(st, outer)) : e.kind = "read" /\ e.path = n
<1> DEFINE S == Range(StmtEvents(st, outer))
           hid == HiddenTo(st, outer)
           L == Range(Loads(st, hid))
           I == IndexEvents(st, outer)
<1>1. L \subseteq S /\ I \subseteq S  BY StmtRange
<1>2. \A u \in Range(st.uses) : Tokens(u, st, hid, L)  BY LoadsHave, Zenon
<1>3. st.ix \in Indexes /\ st.uses \in Seq([name : Names \cup Containers, ix : Indexes])
  BY DEF Statements
<1>4. \A u \in Range(st.uses) : u.name \in Names \cup Containers /\ u.ix \in Indexes
  <2> DEFINE Use == [name : Names \cup Containers, ix : Indexes]
  <2> HIDE DEF Use
  <2>1. st.uses \in Seq(Use)  BY <1>3 DEF Use
  <2>2. Range(st.uses) \subseteq Use  BY <2>1, RangeIs
  <2> QED BY <2>2 DEF Use
<1> HIDE DEF S, hid, L, I
<1>5. ASSUME NEW n \in Needs(st) \ hid PROVE \E e \in S : e.kind = "read" /\ e.path = n
  <2>0. n \in Names /\ n \in Names \cup Containers /\ n \notin hid
    BY <1>3, <1>4 DEF Needs, Indexes
  <2>1. ReadOf(n, st).kind = "read" /\ ReadOf(n, st).path = n  BY <2>0, LoadedEvents
  <2>2. CASE \E u \in Range(st.uses) : u.name = n  BY <1>1, <1>2, <2>0, <2>1, <2>2 DEF Tokens
  <2>3. CASE \E u \in Range(st.uses) : u.ix.name = n /\ u.ix.form \notin {"whole", "lit"}
    BY <1>1, <1>2, <2>0, <2>1, <2>3 DEF Tokens
  <2>4. CASE st.ix.name = n /\ st.ix.form \notin {"whole", "lit"}
    <3>1. st.kind \in Writing \cup {"move"}  BY <2>4 DEF Whole
    <3>2. ReadOf(n, st) \in Range(IndexLoads(st.ix, st, hid))  BY <1>3, <2>0, <2>4, ReadsHave
    <3>3. I = Range(IndexLoads(st.ix, st, hid))  BY <3>1 DEF I, IndexEvents, hid
    <3> QED BY <1>1, <2>1, <3>2, <3>3
  <2>5. \/ \E u \in Range(st.uses) : u.name = n
        \/ \E u \in Range(st.uses) : u.ix.name = n /\ u.ix.form \notin {"whole", "lit"}
        \/ st.ix.name = n /\ st.ix.form \notin {"whole", "lit"}
    BY DEF Needs
  <2> QED BY <2>2, <2>3, <2>4, <2>5
<1> QED BY <1>5, Zenon DEF S, hid

\* What a statement emits: its events tell what it stores and binds, and what
\* it needs is named, unless an earlier statement of the body has bound it.
LEMMA StmtEventsAre ==
  ASSUME NEW st \in Statements, NEW outer
  PROVE  /\ StmtEvents(st, outer) \in Seq(Emitted(st))
         /\ Tells(st, StmtEvents(st, outer))
         /\ st.kind \notin {"break", "return"} /\ (st.kind \notin Writing \cup {"move"} => st.ix = Whole) =>
              \A n \in NeedsOf(st, {}) \ outer : NamedIn(StmtEvents(st, outer), n)
<1> DEFINE E == StmtEvents(st, outer)
<1>1. CASE st.kind \in {"break", "return"}
  <2>1. E = <<>>  BY <1>1 DEF StmtEvents
  <2>2. Tells(st, E)  BY <1>1 DEF Tells, Writing
  <2> QED BY <1>1, <2>1, <2>2
<1>2. CASE st.kind \notin {"break", "return"}
  <2>1. E \in Seq(Emitted(st)) /\ OwnEvents(st) \subseteq Range(E)  BY <1>2, StmtRange
  <2> HIDE DEF E
  <2>2. /\ st.kind \in Writing => Storing(st) \in OwnEvents(st)
        /\ st.kind = "opaque" => Event("opaque", st.base, st) \in OwnEvents(st)
        /\ st.kind \in {"assign", "move"} => Binding(st) \in OwnEvents(st)
        /\ st.kind = "walrus" => Event("write", st.name, st) \in OwnEvents(st)
        /\ st.kind = "aug" => Adding(st) \in OwnEvents(st)
    BY DEF OwnEvents, Writing
  <2>3. Tells(st, E)  BY <2>1, <2>2, PiecesAre DEF Tells
  <2>4. st.kind \in {"assign", "move", "aug"} => NamedIn(E, st.name)
    BY <2>1, <2>2, PiecesAre DEF NamedIn
  <2>5. ASSUME st.kind \notin Writing \cup {"move"} => st.ix = Whole, NEW n \in NeedsOf(st, {}) \ outer
        PROVE  NamedIn(E, n)
    <3>1. CASE n \in Needs(st) \ HiddenTo(st, outer)
      BY <1>2, <2>5, <3>1, NeedsRead DEF NamedIn, E
    <3>2. CASE n \notin Needs(st) \ HiddenTo(st, outer)
      <4>1. n = st.name /\ st.kind \in {"assign", "move", "aug"}
        BY <2>5, <3>2 DEF NeedsOf, HiddenTo, Updates
      <4> QED BY <2>4, <4>1
    <3> QED BY <3>1, <3>2
  <2> QED BY <2>1, <2>3, <2>5, Zenon DEF E
<1> QED BY <1>1, <1>2

LEMMA StmtsAre ==
  ASSUME NEW b, WellFormed(b)
  PROVE  /\ b.stmts \in Seq(Statements) /\ DOMAIN b.stmts = 1 .. Len(b.stmts) /\ Len(b.stmts) \in Nat
         /\ \A n \in DOMAIN b.stmts :
              /\ b.stmts[n] \in Statements /\ b.stmts[n] \in Range(b.stmts)
              /\ b.stmts[n].kind \notin Writing \cup {"move"} => b.stmts[n].ix = Whole
              /\ b.stmts[n].form # "plain" => b.stmts[n].kind = "assign"
         /\ \A st \in Range(b.stmts) : \E n \in DOMAIN b.stmts : st = b.stmts[n]
<1>1. b.stmts \in Seq(Statements)  BY Zenon DEF WellFormed
<1>2. DOMAIN b.stmts = 1 .. Len(b.stmts) /\ Len(b.stmts) \in Nat
      /\ \A n \in DOMAIN b.stmts : b.stmts[n] \in Statements /\ b.stmts[n] \in Range(b.stmts)
  <2> DEFINE s == b.stmts
  <2>1. s \in Seq(Statements)  BY <1>1
  <2> HIDE DEF s
  <2>2. DOMAIN s = 1 .. Len(s) /\ Len(s) \in Nat /\ \A n \in DOMAIN s : s[n] \in Statements /\ s[n] \in Range(s)
    BY <2>1 DEF Range
  <2> QED BY <2>2, Zenon DEF s
<1>3. \A n \in DOMAIN b.stmts :
         /\ b.stmts[n].kind \notin Writing \cup {"move"} => b.stmts[n].ix = Whole
         /\ b.stmts[n].form # "plain" => b.stmts[n].kind = "assign"
  BY Zenon DEF WellFormed
<1>4. \A st \in Range(b.stmts) : \E n \in DOMAIN b.stmts : st = b.stmts[n]  BY Zenon DEF Range
<1> QED BY <1>1, <1>2, <1>3, <1>4, Zenon

LEMMA EventsAre ==
  ASSUME NEW b, WellFormed(b)
  PROVE  /\ Events(b) \in Seq(AllEvents)
         /\ \A n \in DOMAIN b.stmts : Range(EventsAt(b, n)) \subseteq Range(Events(b))
         /\ \A n \in DOMAIN b.stmts : \A e \in Range(EventsAt(b, n)) : e \in Emitted(b.stmts[n])
         /\ \A k \in 1 .. Len(Events(b)) : \E n \in DOMAIN b.stmts :
              /\ Events(b)[k] \in Range(EventsAt(b, n))
              /\ \A m \in 1 .. n - 1 : \A e \in Range(EventsAt(b, m)) : \E l \in 1 .. k - 1 : Events(b)[l] = e
<1> DEFINE s == b.stmts
           P == [n \in DOMAIN s |-> EventsAt(b, n)]
<1>1. DOMAIN s = 1 .. Len(s) /\ Len(s) \in Nat /\ \A n \in DOMAIN s : s[n] \in Statements
  BY StmtsAre, Zenon
<1>2. \A n \in DOMAIN s : EventsAt(b, n) \in Seq(Emitted(s[n]))
  BY <1>1, StmtEventsAre, Zenon DEF EventsAt
<1>3. ASSUME NEW n \in DOMAIN s
      PROVE  EventsAt(b, n) \in Seq(AllEvents) /\ \A e \in Range(EventsAt(b, n)) : e \in Emitted(s[n])
  <2>1. Emitted(s[n]) \subseteq AllEvents  BY <1>1, Zenon DEF AllEvents
  <2> DEFINE q == EventsAt(b, n)
             T == Emitted(s[n])
  <2>2. q \in Seq(T)  BY <1>2
  <2> HIDE DEF q, T
  <2>3. Range(q) \subseteq T  BY <2>2, RangeIs
  <2>4. T \subseteq AllEvents  BY <2>1 DEF T
  <2>5. q \in Seq(AllEvents)  BY <2>2, <2>4
  <2> QED BY <2>3, <2>5, Zenon DEF q, T
<1>4. Events(b) = FlattenSeq(P)  BY Zenon DEF Events, EventsAt
<1> HIDE DEF s
<1>5. P \in Seq(Seq(AllEvents)) /\ Len(P) = Len(s) /\ \A n \in 1 .. Len(s) : P[n] = EventsAt(b, n)
  BY <1>1, <1>3
<1> HIDE DEF P
<1>6. /\ FlattenSeq(P) \in Seq(AllEvents)
      /\ \A n \in 1 .. Len(P) : Range(P[n]) \subseteq Range(FlattenSeq(P))
  BY <1>5, FlattenRange
<1>7. ASSUME NEW k \in 1 .. Len(FlattenSeq(P))
      PROVE  \E n \in DOMAIN s :
               /\ FlattenSeq(P)[k] \in Range(EventsAt(b, n))
               /\ \A m \in 1 .. n - 1 : \A e \in Range(EventsAt(b, m)) : \E l \in 1 .. k - 1 : FlattenSeq(P)[l] = e
  <2>1. PICK n \in 1 .. Len(P) : \E i \in 1 .. Len(P[n]) :
              /\ FlattenSeq(P)[k] = P[n][i]
              /\ \A m \in 1 .. Len(P) : \A j \in 1 .. Len(P[m]) :
                   Precedes(m, j, n, i) => \E l \in 1 .. k - 1 : FlattenSeq(P)[l] = P[m][j]
    <3>1. \A o \in 1 .. Len(FlattenSeq(P)) : \E n \in 1 .. Len(P) : \E i \in 1 .. Len(P[n]) :
              /\ FlattenSeq(P)[o] = P[n][i]
              /\ \A m \in 1 .. Len(P) : \A j \in 1 .. Len(P[m]) :
                   Precedes(m, j, n, i) => \E l \in 1 .. o - 1 : FlattenSeq(P)[l] = P[m][j]
              /\ \A l \in 1 .. o - 1 : \E m \in 1 .. Len(P) : \E j \in 1 .. Len(P[m]) :
                   FlattenSeq(P)[l] = P[m][j] /\ Precedes(m, j, n, i)
      BY <1>5, FlattenIs
    <3> QED BY <3>1, Zenon
  <2>2. PICK i \in 1 .. Len(P[n]) :
              /\ FlattenSeq(P)[k] = P[n][i]
              /\ \A m \in 1 .. Len(P) : \A j \in 1 .. Len(P[m]) :
                   Precedes(m, j, n, i) => \E l \in 1 .. k - 1 : FlattenSeq(P)[l] = P[m][j]
    BY <2>1, Zenon
  <2>3. n \in DOMAIN s /\ P[n] = EventsAt(b, n) /\ P[n] \in Seq(AllEvents)  BY <1>1, <1>5
  <2>4. FlattenSeq(P)[k] \in Range(EventsAt(b, n))
    <3>1. P[n][i] \in Range(P[n])  BY <2>3, RangeIs
    <3> QED BY <2>2, <2>3, <3>1, Zenon
  <2>5. ASSUME NEW m \in 1 .. n - 1, NEW e \in Range(EventsAt(b, m))
        PROVE  \E l \in 1 .. k - 1 : FlattenSeq(P)[l] = e
    <3>1. m \in 1 .. Len(P) /\ m < n /\ P[m] = EventsAt(b, m) /\ P[m] \in Seq(AllEvents)
      BY <1>1, <1>5
    <3>2. PICK j \in 1 .. Len(P[m]) : P[m][j] = e  BY <3>1, RangeIs
    <3>3. Precedes(m, j, n, i)  BY <3>1 DEF Precedes
    <3> QED BY <2>2, <3>1, <3>2, <3>3, Zenon
  <2> QED BY <2>3, <2>4, <2>5, Zenon
<1>8. \A n \in DOMAIN s : Range(EventsAt(b, n)) \subseteq Range(FlattenSeq(P))
  BY <1>1, <1>5, <1>6, Zenon
<1> QED BY <1>3, <1>4, <1>6, <1>7, <1>8, Zenon DEF s

\* The first event of a path is of the first statement that names it.
LEMMA FirstIs ==
  ASSUME NEW b, WellFormed(b), NEW path, NamedIn(Events(b), path)
  PROVE  /\ First(Events(b), path).path = path
         /\ First(Events(b), path) \in Range(Events(b))
         /\ \E n \in DOMAIN b.stmts : /\ First(Events(b), path) \in Range(EventsAt(b, n))
                                      /\ \A m \in 1 .. n - 1 : ~NamedIn(EventsAt(b, m), path)
<1> DEFINE evs == Events(b)
           I == {i \in 1 .. Len(evs) : evs[i].path = path}
           k == SelectInSeq(evs, LAMBDA e : e.path = path)
<1>1. evs \in Seq(AllEvents)  BY EventsAre
<1>2. DOMAIN evs = 1 .. Len(evs) /\ Len(evs) \in Nat /\ \A i \in 1 .. Len(evs) : evs[i] \in Range(evs)
  BY <1>1, RangeIs
<1>3. I # {}
  <2>1. PICK e \in Range(evs) : e.path = path  BY DEF NamedIn
  <2>2. PICK i \in 1 .. Len(evs) : evs[i] = e  BY <1>1, <2>1, RangeIs
  <2> QED BY <2>1, <2>2
<1>4. k = Min(I)  BY <1>3, Zenon DEF SelectInSeq
<1> HIDE DEF evs
<1>5. k \in I /\ \A j \in I : k <= j
  <2>1. I \in SUBSET Nat  BY <1>2
  <2> HIDE DEF I, k
  <2>2. PICK m \in I : \A n \in I : m <= n  BY <1>3, <2>1, LeastNatural
  <2>3. Min(I) \in I /\ \A j \in I : Min(I) <= j  BY <2>2, Zenon DEF Min
  <2> QED BY <1>4, <2>3, Zenon
<1> HIDE DEF k
<1>6. k \in 1 .. Len(evs) /\ evs[k].path = path /\ \A l \in 1 .. k - 1 : evs[l].path # path
  <2>1. k \in 1 .. Len(evs) /\ evs[k].path = path  BY <1>5
  <2>2. ASSUME NEW l \in 1 .. k - 1 PROVE evs[l].path # path
    <3>1. l \in 1 .. Len(evs) /\ ~ (k <= l)  BY <1>2, <2>1
    <3> QED BY <1>5, <3>1
  <2> QED BY <2>1, <2>2
<1>7. First(evs, path) = evs[k]  BY Zenon DEF First, k
<1>8. PICK n \in DOMAIN b.stmts :
        /\ evs[k] \in Range(EventsAt(b, n))
        /\ \A m \in 1 .. n - 1 : \A e \in Range(EventsAt(b, m)) : \E l \in 1 .. k - 1 : evs[l] = e
  BY <1>6, EventsAre, Zenon DEF evs
<1>9. ASSUME NEW m \in 1 .. n - 1 PROVE ~NamedIn(EventsAt(b, m), path)
  BY <1>6, <1>8, Zenon DEF NamedIn
<1>10. evs[k] \in Range(evs)  BY <1>2, <1>6, Zenon
<1> QED BY <1>6, <1>7, <1>8, <1>9, <1>10, Zenon DEF evs

-----------------------------------------------------------------------------
(* The statements an iteration runs *)

LEMMA FlattenPlaces ==
  ASSUME NEW T, NEW P \in Seq(Seq(T))
  PROVE  /\ FlattenSeq(P) \in Seq(T)
         /\ \A k \in 1 .. Len(FlattenSeq(P)) : \E n \in 1 .. Len(P) : \E i \in 1 .. Len(P[n]) :
              Placed(P, FlattenSeq(P), k, n, i)
BY FlattenIs DEF Placed

LEMMA ArmsAre ==
  ASSUME NEW b, WellFormed(b), NEW n \in DOMAIN b.stmts
  PROVE  /\ b.stmts[n].kind \in {"if", "for"} =>
              b.stmts[n].arm = "top" /\ \A m \in DOMAIN b.stmts : b.stmts[m].kind = b.stmts[n].kind => m = n
         /\ b.stmts[n].arm \in {"then", "else"} => \E m \in 1 .. n - 1 : b.stmts[m].kind = "if"
         /\ b.stmts[n].arm = "loop" =>
              \E h \in 1 .. n - 1 : b.stmts[h].kind = "for" /\ \A m \in h + 1 .. n : b.stmts[m].arm = "loop"
BY Zenon DEF WellFormed

LEMMA FlowPieces == ASSUME NEW b, NEW p PROVE Flow(b, p) = FlattenSeq(Pieces(b, p))
BY Zenon DEF Flow, Pieces, Piece, PassPieces, Pass, Passes, InnerPieces

LEMMA InnerIs ==
  ASSUME NEW b, WellFormed(b)
  PROVE  /\ FlattenSeq(InnerPieces(b)) \in Seq(Statements)
         /\ \A k \in 1 .. Len(FlattenSeq(InnerPieces(b))) : \E n \in DOMAIN b.stmts :
              /\ FlattenSeq(InnerPieces(b))[k] = b.stmts[n] /\ b.stmts[n].arm = "loop"
              /\ \A m \in 1 .. n - 1 : b.stmts[m].arm = "loop" =>
                   \E l \in 1 .. k - 1 : FlattenSeq(InnerPieces(b))[l] = b.stmts[m]
<1> DEFINE s == b.stmts
           R == InnerPieces(b)
           F == FlattenSeq(R)
<1>1. DOMAIN s = 1 .. Len(s) /\ Len(s) \in Nat /\ \A n \in DOMAIN s : s[n] \in Statements
  BY StmtsAre, Zenon
<1>2. \A n \in DOMAIN s : R[n] = IF s[n].arm = "loop" THEN <<s[n]>> ELSE <<>>
  BY Zenon DEF InnerPieces
<1>3. R \in Seq(Seq(Statements)) /\ Len(R) = Len(s)
  <2>1. \A n \in 1 .. Len(s) : (IF s[n].arm = "loop" THEN <<s[n]>> ELSE <<>>) \in Seq(Statements)
    <3> SUFFICES ASSUME NEW n \in 1 .. Len(s)
                 PROVE  (IF s[n].arm = "loop" THEN <<s[n]>> ELSE <<>>) \in Seq(Statements)  OBVIOUS
    <3>1. <<s[n]>> \in Seq(Statements) /\ <<>> \in Seq(Statements)  BY <1>1, OneIs
    <3> QED BY <3>1, Zenon
  <2>2. R = [n \in 1 .. Len(s) |-> IF s[n].arm = "loop" THEN <<s[n]>> ELSE <<>>]
    BY <1>1, Zenon DEF InnerPieces
  <2> HIDE DEF R, s
  <2> QED BY <1>1, <2>1, <2>2
<1> HIDE DEF R, s
<1>4. /\ F \in Seq(Statements)
      /\ \A k \in 1 .. Len(F) : \E n \in 1 .. Len(R) : \E i \in 1 .. Len(R[n]) : Placed(R, F, k, n, i)
  BY <1>3, FlattenPlaces
<1>5. ASSUME NEW k \in 1 .. Len(F)
      PROVE  \E n \in DOMAIN s : /\ F[k] = s[n] /\ s[n].arm = "loop"
                                 /\ \A m \in 1 .. n - 1 : s[m].arm = "loop" => \E l \in 1 .. k - 1 : F[l] = s[m]
  <2>1. PICK n \in 1 .. Len(R) : \E i \in 1 .. Len(R[n]) : Placed(R, F, k, n, i)  BY <1>4, Zenon
  <2>2. PICK i \in 1 .. Len(R[n]) : Placed(R, F, k, n, i)  BY <2>1, Zenon
  <2>3. n \in DOMAIN s /\ n \in Nat  BY <1>1, <1>3
  <2>4. s[n].arm = "loop" /\ R[n] = <<s[n]>> /\ i = 1
    <3>1. s[n].arm = "loop"
      <4> SUFFICES ASSUME s[n].arm # "loop" PROVE FALSE  OBVIOUS
      <4>1. R[n] = <<>>  BY <1>2, <2>3
      <4> QED BY <4>1
    <3>2. R[n] = <<s[n]>>  BY <1>2, <2>3, <3>1
    <3> QED BY <3>1, <3>2
  <2>5. F[k] = s[n]  BY <2>2, <2>4 DEF Placed
  <2>6. ASSUME NEW m \in 1 .. n - 1, s[m].arm = "loop" PROVE \E l \in 1 .. k - 1 : F[l] = s[m]
    <3>1. m \in 1 .. Len(R) /\ m \in DOMAIN s /\ m < n  BY <1>1, <1>3, <2>3
    <3>2. R[m] = <<s[m]>>  BY <1>2, <2>6, <3>1
    <3>3. 1 \in 1 .. Len(R[m]) /\ R[m][1] = s[m] /\ Precedes(m, 1, n, i)  BY <3>1, <3>2 DEF Precedes
    <3>4. \E l \in 1 .. k - 1 : F[l] = R[m][1]
      <4> HIDE DEF F
      <4> QED BY <2>2, <3>1, <3>3, Zenon DEF Placed
    <3> QED BY <3>3, <3>4, Zenon
  <2> QED BY <2>3, <2>4, <2>5, <2>6, Zenon
<1> QED BY <1>4, <1>5, Zenon DEF R, s

LEMMA AfterOne ==
  ASSUME NEW T
  PROVE  \A u, v \in Seq(T) : Len(u) = 1 =>
           /\ u \o v \in Seq(T) /\ Len(u \o v) = Len(v) + 1
           /\ (u \o v)[1] = u[1] /\ \A j \in 1 .. Len(v) : (u \o v)[j + 1] = v[j]
<1>1. \A u, v \in Seq(T) :
          /\ u \o v \in Seq(T) /\ Len(u \o v) = Len(u) + Len(v)
          /\ \A i \in 1 .. Len(u) : (u \o v)[i] = u[i]
          /\ \A i \in 1 .. Len(v) : (u \o v)[Len(u) + i] = v[i]
  OBVIOUS
<1>2. \A v \in Seq(T) : Len(v) \in Nat  OBVIOUS
<1> SUFFICES ASSUME NEW u \in Seq(T), NEW v \in Seq(T), Len(u) = 1
             PROVE  /\ u \o v \in Seq(T) /\ Len(u \o v) = Len(v) + 1
                    /\ (u \o v)[1] = u[1] /\ \A j \in 1 .. Len(v) : (u \o v)[j + 1] = v[j]
  OBVIOUS
<1> DEFINE w == u \o v
<1>3. /\ w \in Seq(T) /\ Len(w) = Len(u) + Len(v)
      /\ \A i \in 1 .. Len(u) : w[i] = u[i]
      /\ \A i \in 1 .. Len(v) : w[Len(u) + i] = v[i]
  BY <1>1, Zenon
<1> HIDE DEF w
<1>4. w \in Seq(T) /\ Len(w) = Len(v) + 1 /\ w[1] = u[1] /\ \A j \in 1 .. Len(v) : w[j + 1] = v[j]
  BY <1>2, <1>3
<1> QED BY <1>4, Zenon DEF w

LEMMA PassesAre ==
  ASSUME NEW b, WellFormed(b), NEW h \in DOMAIN b.stmts, b.stmts[h].kind = "for", NEW p
  PROVE  PassFits(b, h, FlattenSeq(PassPieces(b, b.stmts[h], p)))
<1> DEFINE s == b.stmts
           Q == PassPieces(b, s[h], p)
           F == FlattenSeq(Q)
           inner == FlattenSeq(InnerPieces(b))
           first(q) == [s[h] EXCEPT !.tag = q - 1]
<1>1. s[h] \in Statements /\ s[h].arm = "top"  BY StmtsAre, ArmsAre, Zenon
<1>2. inner \in Seq(Statements)  BY InnerIs
<1>3. ASSUME NEW q \in 1 .. Passes(s[h], p)
      PROVE  /\ first(q) \in Statements /\ Like(first(q), s[h]) /\ first(q).kind = "for" /\ first(q).arm = "top"
             /\ Q[q] \in Seq(Statements) /\ Len(Q[q]) = Len(inner) + 1
             /\ Q[q][1] = first(q) /\ \A j \in 1 .. Len(inner) : Q[q][j + 1] = inner[j]
  <2>1. q \in Int /\ q - 1 \in Int  BY DEF Passes
  <2> DEFINE st == s[h]
             t == q - 1
             e == [st EXCEPT !.tag = t]
  <2>2. st \in Statements /\ st.arm = "top" /\ st.kind = "for" /\ t \in Int  BY <1>1, <2>1
  <2> HIDE DEF st, t
  <2>3. e \in Statements /\ e.kind = "for" /\ e.arm = "top" /\ e = [st EXCEPT !.tag = e.tag]
    BY <2>2 DEF Statements
  <2>4. e = first(q)  BY DEF st, t
  <2>5. Like(e, st)  BY <2>2, <2>3, Zenon DEF Like
  <2>6. Q[q] = <<e>> \o inner  BY <2>4, Zenon DEF PassPieces, Pass
  <2> HIDE DEF e, inner
  <2>7. /\ <<e>> \o inner \in Seq(Statements) /\ Len(<<e>> \o inner) = Len(inner) + 1
        /\ (<<e>> \o inner)[1] = e /\ \A j \in 1 .. Len(inner) : (<<e>> \o inner)[j + 1] = inner[j]
    <3>1. \A u, v \in Seq(Statements) : Len(u) = 1 =>
            /\ u \o v \in Seq(Statements) /\ Len(u \o v) = Len(v) + 1
            /\ (u \o v)[1] = u[1] /\ \A j \in 1 .. Len(v) : (u \o v)[j + 1] = v[j]
      BY AfterOne
    <3>2. <<e>> \in Seq(Statements) /\ Len(<<e>>) = 1 /\ <<e>>[1] = e  BY <2>3, OneIs
    <3> HIDE DEF first, Q, F, s
    <3> QED BY <1>2, <3>1, <3>2, Zenon
  <2> QED BY <2>3, <2>4, <2>5, <2>6, <2>7, Zenon DEF st
<1>4. Q = [q \in 1 .. Passes(s[h], p) |-> Q[q]]  BY Zenon DEF PassPieces
<1> HIDE DEF Q, inner, first, s
<1>5. Passes(s[h], p) \in Nat  BY DEF Passes
<1>6. Q \in Seq(Seq(Statements)) /\ Len(Q) = Passes(s[h], p)  BY <1>3, <1>4, <1>5
<1>7. /\ F \in Seq(Statements)
      /\ \A k \in 1 .. Len(F) : \E n \in 1 .. Len(Q) : \E i \in 1 .. Len(Q[n]) : Placed(Q, F, k, n, i)
  BY <1>6, FlattenPlaces
<1>8. Len(inner) \in Nat  BY <1>2
<1> HIDE DEF F
<1>9. ASSUME NEW k \in 1 .. Len(F)
      PROVE  \/ Like(F[k], s[h]) /\ F[k].kind = "for" /\ F[k].arm = "top"
             \/ \E n \in DOMAIN s :
                  /\ F[k] = s[n] /\ s[n].arm = "loop"
                  /\ \A m \in 1 .. n - 1 : s[m].arm = "loop" => \E l \in 1 .. k - 1 : F[l] = s[m]
  <2>1. PICK q \in 1 .. Len(Q) : \E i \in 1 .. Len(Q[q]) : Placed(Q, F, k, q, i)  BY <1>7, Zenon
  <2>2. PICK i \in 1 .. Len(Q[q]) : Placed(Q, F, k, q, i)  BY <2>1, Zenon
  <2>3. F[k] = Q[q][i]  BY <2>2, Zenon DEF Placed
  <2>4. /\ first(q) \in Statements /\ Like(first(q), s[h]) /\ first(q).kind = "for" /\ first(q).arm = "top"
        /\ Q[q] \in Seq(Statements) /\ Len(Q[q]) = Len(inner) + 1
        /\ Q[q][1] = first(q) /\ \A j \in 1 .. Len(inner) : Q[q][j + 1] = inner[j]
    BY <1>3, <1>6
  <2>5. CASE i = 1
    <3>1. F[k] = first(q)  BY <2>3, <2>4, <2>5, Zenon
    <3> QED BY <2>4, <3>1, Zenon
  <2>6. CASE i # 1
    <3> DEFINE j == i - 1
    <3>1. j \in 1 .. Len(inner) /\ j + 1 = i  BY <1>8, <2>4, <2>6
    <3> HIDE DEF j
    <3>2. F[k] = inner[j]  BY <2>3, <2>4, <3>1, Zenon
    <3>3. PICK n \in DOMAIN s :
              /\ inner[j] = s[n] /\ s[n].arm = "loop"
              /\ \A m \in 1 .. n - 1 : s[m].arm = "loop" => \E l \in 1 .. j - 1 : inner[l] = s[m]
      BY <3>1, InnerIs, Zenon DEF inner, s
    <3>4. ASSUME NEW m \in 1 .. n - 1, s[m].arm = "loop" PROVE \E l \in 1 .. k - 1 : F[l] = s[m]
      <4>1. PICK l \in 1 .. j - 1 : inner[l] = s[m]  BY <3>3, <3>4, Zenon
      <4>2. l \in 1 .. Len(inner) /\ l + 1 \in 1 .. Len(Q[q]) /\ l + 1 < i  BY <1>8, <2>4, <3>1
      <4>3. Q[q][l + 1] = s[m] /\ Precedes(q, l + 1, q, i)  BY <2>4, <4>1, <4>2 DEF Precedes
      <4>4. \E o \in 1 .. k - 1 : F[o] = Q[q][l + 1]  BY <2>2, <4>2, <4>3, Zenon DEF Placed
      <4> QED BY <4>3, <4>4, Zenon
    <3> QED BY <3>2, <3>3, <3>4, Zenon
  <2> QED BY <2>5, <2>6
<1> QED BY <1>7, <1>9, Zenon DEF PassFits, F, Q, s

LEMMA FlowIs ==
  ASSUME NEW b, WellFormed(b), NEW p
  PROVE  /\ Flow(b, p) \in Seq(Statements)
         /\ \A k \in 1 .. Len(Flow(b, p)) : \E n \in DOMAIN b.stmts : InPlace(b, Flow(b, p), k, n)
<1> DEFINE s == b.stmts
           P == Pieces(b, p)
           F == FlattenSeq(P)
           H(n) == FlattenSeq(PassPieces(b, s[n], p))
<1>1. DOMAIN s = 1 .. Len(s) /\ Len(s) \in Nat /\ \A n \in DOMAIN s : s[n] \in Statements
  BY StmtsAre, Zenon
<1>2. \A n \in DOMAIN s :
        /\ s[n].kind \in {"if", "for"} => s[n].arm = "top" /\ \A m \in DOMAIN s : s[m].kind = s[n].kind => m = n
        /\ s[n].arm \in {"then", "else"} => \E m \in 1 .. n - 1 : s[m].kind = "if"
        /\ s[n].arm = "loop" => \E h \in 1 .. n - 1 : s[h].kind = "for" /\ \A m \in h + 1 .. n : s[m].arm = "loop"
  BY ArmsAre
<1>3. ASSUME NEW n \in DOMAIN s, s[n].kind = "for"
      PROVE  /\ H(n) \in Seq(Statements)
             /\ \A k \in 1 .. Len(H(n)) :
                  \/ Like(H(n)[k], s[n]) /\ H(n)[k].kind = "for" /\ H(n)[k].arm = "top"
                  \/ \E o \in DOMAIN s :
                       /\ H(n)[k] = s[o] /\ s[o].arm = "loop"
                       /\ \A m \in 1 .. o - 1 : s[m].arm = "loop" => \E l \in 1 .. k - 1 : H(n)[l] = s[m]
  <2>1. PassFits(b, n, H(n))  BY <1>3, PassesAre, Zenon
  <2> HIDE DEF H
  <2> QED BY <2>1, Zenon DEF PassFits
<1>4. \A n \in DOMAIN s : P[n] = IF s[n].kind = "for" THEN H(n) ELSE IF s[n].arm = "loop" THEN <<>> ELSE <<s[n]>>
  BY Zenon DEF Pieces, Piece
<1>5. P = [n \in DOMAIN s |-> P[n]]  BY Zenon DEF Pieces
<1>6. Flow(b, p) = F  BY FlowPieces, Zenon
<1> HIDE DEF s, P, H
<1>7. \A n \in DOMAIN s : P[n] \in Seq(Statements)
  <2> SUFFICES ASSUME NEW n \in DOMAIN s PROVE P[n] \in Seq(Statements)  OBVIOUS
  <2>1. <<s[n]>> \in Seq(Statements) /\ <<>> \in Seq(Statements)  BY <1>1, OneIs
  <2> QED BY <1>3, <1>4, <2>1, Zenon
<1>8. P \in Seq(Seq(Statements)) /\ Len(P) = Len(s)  BY <1>1, <1>5, <1>7
<1>9. /\ F \in Seq(Statements)
      /\ \A k \in 1 .. Len(F) : \E n \in 1 .. Len(P) : \E i \in 1 .. Len(P[n]) : Placed(P, F, k, n, i)
  BY <1>8, FlattenPlaces
<1> HIDE DEF F
\* The statements that surely give a name a value are pieces of their own.
<1>10. ASSUME NEW m \in DOMAIN s, Certain(s[m]), s[m].arm # "loop"
       PROVE  P[m] = <<s[m]>> /\ 1 \in 1 .. Len(P[m]) /\ P[m][1] = s[m] /\ m \in 1 .. Len(P)
  <2>1. s[m].kind # "for"  BY <1>10 DEF Certain
  <2>2. P[m] = <<s[m]>>  BY <1>4, <1>10, <2>1
  <2>3. m \in 1 .. Len(P)  BY <1>1, <1>8
  <2> QED BY <2>2, <2>3
<1>11. ASSUME NEW k \in 1 .. Len(F), NEW n \in 1 .. Len(P), NEW i \in 1 .. Len(P[n]), Placed(P, F, k, n, i),
              NEW m \in 1 .. n - 1, Certain(s[m]), s[m].arm # "loop"
       PROVE  \E l \in 1 .. k - 1 : F[l] = s[m]
  <2>1. m \in DOMAIN s /\ m < n  BY <1>1, <1>8
  <2>2. 1 \in 1 .. Len(P[m]) /\ P[m][1] = s[m] /\ m \in 1 .. Len(P)  BY <1>10, <1>11, <2>1
  <2>3. Precedes(m, 1, n, i)  BY <2>1 DEF Precedes
  <2>4. \E l \in 1 .. k - 1 : F[l] = P[m][1]  BY <1>11, <2>2, <2>3, Zenon DEF Placed
  <2> QED BY <2>2, <2>4, Zenon
<1>12. ASSUME NEW k \in 1 .. Len(F) PROVE \E n \in DOMAIN s : InPlace(b, F, k, n)
  <2>1. PICK n \in 1 .. Len(P) : \E i \in 1 .. Len(P[n]) : Placed(P, F, k, n, i)  BY <1>9, Zenon
  <2>2. PICK i \in 1 .. Len(P[n]) : Placed(P, F, k, n, i)  BY <2>1, Zenon
  <2>3. F[k] = P[n][i] /\ n \in DOMAIN s  BY <1>1, <1>8, <2>2 DEF Placed
  <2>4. CASE s[n].kind # "for"
    <3>1. s[n].arm # "loop"
      <4> SUFFICES ASSUME s[n].arm = "loop" PROVE FALSE  OBVIOUS
      <4>1. P[n] = <<>>  BY <1>4, <2>3, <2>4
      <4> QED BY <4>1
    <3>2. P[n] = <<s[n]>>  BY <1>4, <2>3, <2>4, <3>1
    <3>3. i = 1 /\ Len(P[n]) = 1 /\ F[k] = s[n]  BY <2>3, <3>2
    <3>4. ASSUME NEW m \in 1 .. n - 1, Certain(s[m]), s[m].arm \in {"top", s[n].arm}
          PROVE  \E l \in 1 .. k - 1 : F[l] = s[m]
      <4>1. s[m].arm # "loop"  BY <3>1, <3>4
      <4> QED BY <1>11, <2>2, <3>4, <4>1, Zenon
    <3>5. ASSUME s[n].kind = "if", NEW l \in 1 .. k - 1 PROVE F[l].arm \notin {"then", "else"}
      <4>0. PICK m \in 1 .. Len(P) : \E j \in 1 .. Len(P[m]) : F[l] = P[m][j] /\ Precedes(m, j, n, i)
        BY <2>2, Zenon DEF Placed
      <4>1. PICK j \in 1 .. Len(P[m]) : F[l] = P[m][j] /\ Precedes(m, j, n, i)  BY <4>0, Zenon
      <4>2. m \in DOMAIN s /\ m < n /\ P[m] \in Seq(Statements)
        <5>1. m \in DOMAIN s /\ P[m] \in Seq(Statements)  BY <1>1, <1>7, <1>8
        <5>2. Len(P[m]) \in Nat  BY <5>1
        <5>3. m # n  BY <3>3, <4>1, <5>2 DEF Precedes
        <5> QED BY <4>1, <5>1, <5>3 DEF Precedes
      <4>3. CASE s[m].kind = "for"
        <5>1. P[m] = H(m)  BY <1>4, <4>2, <4>3
        <5>2. F[l] = H(m)[j] /\ j \in 1 .. Len(H(m))  BY <4>1, <5>1
        <5>3. \/ H(m)[j].arm = "top"
              \/ \E o \in DOMAIN s : H(m)[j] = s[o] /\ s[o].arm = "loop"
          BY <1>3, <4>2, <4>3, <5>2, Zenon
        <5>4. H(m)[j].arm \in {"top", "loop"}  BY <5>3
        <5> QED BY <5>2, <5>4
      <4>4. CASE s[m].kind # "for"
        <5>1. s[m].arm # "loop" /\ P[m] = <<s[m]>>
          <6>1. s[m].arm = "loop" => P[m] = <<>>  BY <1>4, <4>2, <4>4
          <6>2. P[m] # <<>>  OBVIOUS
          <6> QED BY <1>4, <4>2, <4>4, <6>1, <6>2
        <5>2. F[l] = s[m]  BY <4>1, <5>1
        <5>3. s[m].arm \notin {"then", "else"}
          <6> SUFFICES ASSUME s[m].arm \in {"then", "else"} PROVE FALSE  OBVIOUS
          <6>1. PICK a \in 1 .. m - 1 : s[a].kind = "if"  BY <1>2, <4>2
          <6>2. a \in DOMAIN s /\ a < n  BY <1>1, <4>2
          <6>3. a = n  BY <1>2, <2>3, <3>5, <6>1, <6>2
          <6> QED BY <6>2, <6>3
        <5> QED BY <5>2, <5>3
      <4> QED BY <4>3, <4>4
    <3>6. Like(F[k], s[n])  BY <3>3 DEF Like
    <3>7. ASSUME NEW l \in 1 .. k - 1, F[l].kind # "for" PROVE \E o \in 1 .. n - 1 : F[l] = s[o]
      <4>0. PICK m \in 1 .. Len(P) : \E j \in 1 .. Len(P[m]) : F[l] = P[m][j] /\ Precedes(m, j, n, i)
        BY <2>2, Zenon DEF Placed
      <4>1. PICK j \in 1 .. Len(P[m]) : F[l] = P[m][j] /\ Precedes(m, j, n, i)  BY <4>0, Zenon
      <4>2. m \in DOMAIN s /\ m < n /\ m \in Nat /\ n \in Nat
        <5>1. m \in DOMAIN s /\ P[m] \in Seq(Statements)  BY <1>1, <1>7, <1>8
        <5>2. Len(P[m]) \in Nat  BY <5>1
        <5>3. m # n  BY <3>3, <4>1, <5>2 DEF Precedes
        <5> QED BY <1>1, <2>3, <4>1, <5>1, <5>3 DEF Precedes
      <4>3. CASE s[m].kind = "for"
        <5>1. P[m] = H(m)  BY <1>4, <4>2, <4>3
        <5>2. F[l] = H(m)[j] /\ j \in 1 .. Len(H(m))  BY <4>1, <5>1
        <5>3. PICK o \in DOMAIN s : H(m)[j] = s[o] /\ s[o].arm = "loop"
          <6>1. \/ H(m)[j].kind = "for"
                \/ \E o \in DOMAIN s : H(m)[j] = s[o] /\ s[o].arm = "loop"
            BY <1>3, <4>2, <4>3, <5>2, Zenon
          <6> QED BY <3>7, <5>2, <6>1
        <5>4. PICK h \in 1 .. o - 1 : s[h].kind = "for" /\ \A q \in h + 1 .. o : s[q].arm = "loop"
          BY <1>2, <5>3
        <5>5. h \in DOMAIN s  BY <1>1
        <5>6. h = m  BY <1>2, <4>2, <4>3, <5>4, <5>5
        <5>7. n \notin h + 1 .. o  BY <3>1, <5>4
        <5>8. o \in 1 .. n - 1  BY <1>1, <4>2, <5>6, <5>7
        <5> QED BY <5>2, <5>3, <5>8
      <4>4. CASE s[m].kind # "for"
        <5>1. s[m].arm # "loop" /\ P[m] = <<s[m]>>
          <6>1. s[m].arm = "loop" => P[m] = <<>>  BY <1>4, <4>2, <4>4
          <6>2. P[m] # <<>>  OBVIOUS
          <6> QED BY <1>4, <4>2, <4>4, <6>1, <6>2
        <5>2. F[l] = s[m]  BY <4>1, <5>1
        <5>3. m \in 1 .. n - 1  BY <1>1, <4>2
        <5> QED BY <5>2, <5>3
      <4> QED BY <4>3, <4>4
    <3> QED BY <2>3, <3>4, <3>5, <3>6, <3>7, Zenon DEF InPlace, s
  <2>5. CASE s[n].kind = "for"
    <3>1. P[n] = H(n)  BY <1>4, <2>3, <2>5
    <3>2. F[k] = H(n)[i] /\ i \in 1 .. Len(H(n))  BY <2>3, <3>1
    <3>3. CASE Like(H(n)[i], s[n])
      <4>1. Like(F[k], s[n])  BY <3>2, <3>3, Zenon
      <4>2. s[n].arm = "top"  BY <1>2, <2>3, <2>5
      <4>3. ASSUME NEW m \in 1 .. n - 1, Certain(s[m]), s[m].arm \in {"top", s[n].arm}
            PROVE  \E l \in 1 .. k - 1 : F[l] = s[m]
        <5>1. s[m].arm # "loop"  BY <4>2, <4>3
        <5> QED BY <1>11, <2>2, <4>3, <5>1, Zenon
      <4> QED BY <2>3, <2>5, <4>1, <4>3 DEF InPlace, s
    <3>4. CASE \E o \in DOMAIN s :
                 /\ H(n)[i] = s[o] /\ s[o].arm = "loop"
                 /\ \A m \in 1 .. o - 1 : s[m].arm = "loop" => \E l \in 1 .. i - 1 : H(n)[l] = s[m]
      <4>1. PICK o \in DOMAIN s :
                 /\ H(n)[i] = s[o] /\ s[o].arm = "loop"
                 /\ \A m \in 1 .. o - 1 : s[m].arm = "loop" => \E l \in 1 .. i - 1 : H(n)[l] = s[m]
        BY <3>4, Zenon
      <4>2. PICK h \in 1 .. o - 1 : s[h].kind = "for" /\ \A m \in h + 1 .. o : s[m].arm = "loop"
        BY <1>2, <4>1
      <4>3. h \in DOMAIN s /\ h = n
        <5>1. h \in DOMAIN s  BY <1>1
        <5> QED BY <1>2, <2>3, <2>5, <4>2, <5>1
      <4>4. ASSUME NEW m \in 1 .. o - 1, Certain(s[m]), s[m].arm \in {"top", s[o].arm}
            PROVE  \E l \in 1 .. k - 1 : F[l] = s[m]
        <5>1. CASE s[m].arm = "loop"
          <6>1. PICK l \in 1 .. i - 1 : H(n)[l] = s[m]  BY <4>1, <5>1, Zenon
          <6>2. P[n] \in Seq(Statements)  BY <1>7, <2>3
          <6>3. Len(P[n]) \in Nat  BY <6>2
          <6>4. l \in 1 .. Len(P[n]) /\ P[n][l] = s[m] /\ Precedes(n, l, n, i)
            BY <3>1, <6>1, <6>3 DEF Precedes
          <6>5. \E q \in 1 .. k - 1 : F[q] = P[n][l]  BY <2>2, <6>4, Zenon DEF Placed
          <6> QED BY <6>4, <6>5, Zenon
        <5>2. CASE s[m].arm # "loop"
          <6>1. m \notin h + 1 .. o  BY <4>2, <5>2
          <6>2. m # h  BY <4>2, <4>4 DEF Certain
          <6>3. m \in 1 .. n - 1  BY <1>1, <4>3, <6>1, <6>2
          <6> QED BY <1>11, <2>2, <4>4, <5>2, <6>3, Zenon
        <5> QED BY <5>1, <5>2
      <4>5. Like(F[k], s[o]) /\ s[o].kind # "if"
        <5>1. s[o].kind # "if"  BY <1>2, <4>1
        <5> QED BY <3>2, <4>1, <5>1 DEF Like
      <4> QED BY <4>1, <4>4, <4>5, Zenon DEF InPlace, s
    <3> QED BY <1>3, <2>3, <2>5, <3>2, <3>3, <3>4, Zenon
  <2> QED BY <2>4, <2>5
<1> QED BY <1>6, <1>9, <1>12, Zenon DEF s

-----------------------------------------------------------------------------
(* What the analysis finds of a container *)

LEMMA ContainersApart == Names \cap Containers = {} /\ \A b : DomainNames(b) \subseteq Names
BY DEF Names, Containers, DomainNames

\* A container is not a local.
LEMMA ContainerInfo ==
  ASSUME NEW b, WellFormed(b), NEW c \in Containers, NamedIn(Events(b), c)
  PROVE  LET evs == Events(b)
             mine == Mine(evs, c)
         IN  /\ c \in DOMAIN Targets(b)
             /\ OfKind(mine, {"subwrite"}) # {} => Targets(b)[c] = IndexedInfo(b, evs, mine)
             /\ OfKind(mine, {"subwrite"}) = {} /\ OfKind(mine, {"opaque"}) # {} =>
                  Targets(b)[c] = Info("SHARED_INDEXED_UNRESOLVED")
<1> DEFINE evs == Events(b)
           mine == Mine(evs, c)
           first == First(evs, c)
<1>1. first.path = c /\ \E n \in DOMAIN b.stmts : first \in Range(EventsAt(b, n))  BY FirstIs, Zenon
<1>2. \E n \in DOMAIN b.stmts : first \in Emitted(b.stmts[n])  BY <1>1, EventsAre, Zenon
<1>3. first.kind # "write"
  <2> HIDE DEF first
  <2> QED BY <1>1, <1>2, ContainersApart DEF Emitted
<1>4. ~IsLocal(first, mine)  BY <1>3, Zenon DEF IsLocal
<1>5. c \in Paths(b, evs)
  <2>1. c \in {e.path : e \in Range(evs)}  BY Zenon DEF NamedIn
  <2>2. c \notin DomainNames(b)  BY ContainersApart
  <2> QED BY <2>1, <2>2, Zenon DEF Paths
<1>6. DOMAIN Targets(b) = Paths(b, evs) /\ Targets(b)[c] = Classify(b, evs, c)
  BY <1>5, Zenon DEF Targets
<1>7. /\ OfKind(mine, {"subwrite"}) # {} => Classify(b, evs, c) = IndexedInfo(b, evs, mine)
      /\ OfKind(mine, {"subwrite"}) = {} /\ OfKind(mine, {"opaque"}) # {} =>
           Classify(b, evs, c) = Info("SHARED_INDEXED_UNRESOLVED")
  BY <1>4, Zenon DEF Classify
<1> QED BY <1>5, <1>6, <1>7, Zenon

LEMMA StmtTells ==
  ASSUME NEW b, WellFormed(b), NEW n \in DOMAIN b.stmts
  PROVE  /\ Tells(b.stmts[n], EventsAt(b, n))
         /\ \A e \in Range(EventsAt(b, n)) : e \in Range(Events(b))
<1>1. b.stmts[n] \in Statements  BY StmtsAre, Zenon
<1> QED BY <1>1, StmtEventsAre, EventsAre, Zenon DEF EventsAt

\* What the plan of a container that is written says of its class.
LEMMA PlanKinds ==
  ASSUME NEW b, NEW info
  PROVE  /\ SlabKind(b, info) \in {"none", "list", "cell", "dict"}
         /\ ~info.inPlace /\ info.class = "SHARED_INDEXED_UNRESOLVED" => SlabKind(b, info) = "dict"
         /\ ~info.inPlace /\ info.class = "SHARED_INDEXED_SAFE" /\ info.tier # "BY_PROOF" => SlabKind(b, info) = "dict"
BY DEF SlabKind

LEMMA PlanIsOK == ASSUME NEW b PROVE PlanOK(Plan(b)) /\ PlanOK(NoPlan)
<1>1. \A c \in Containers : Plan(b)[c] = IF c \in DOMAIN Targets(b) THEN SlabKind(b, Targets(b)[c]) ELSE "none"
  BY Zenon DEF Plan
<1>2. Plan(b) = [c \in Containers |-> Plan(b)[c]]  BY Zenon DEF Plan
<1>3. \A c \in Containers : Plan(b)[c] \in {"none", "list", "cell", "dict"}  BY <1>1, PlanKinds
<1>4. PlanOK(NoPlan)  BY DEF PlanOK, NoPlan
<1> QED BY <1>2, <1>3, <1>4, Zenon DEF PlanOK

\* Where a container gets neither a slab audited nor one read back, and no
\* write in place, every write of it is at a proven index.
LEMMA DirectWrites ==
  ASSUME NEW b, WellFormed(b), Direct(b), NEW n \in DOMAIN b.stmts
  PROVE  /\ b.stmts[n].kind # "opaque"
         /\ b.stmts[n].kind \in Writing =>
              b.stmts[n].ix.form = "var" /\ b.stmts[n].ix.name \in Proven(b, Events(b))
<1> DEFINE st == b.stmts[n]
           evs == Events(b)
           c == st.base
           mine == Mine(evs, c)
           info == Targets(b)[c]
<1>0. c \in Containers  BY StmtsAre, Zenon DEF Statements
<1>1. SUFFICES ASSUME st.kind \in Writing \cup {"opaque"}
               PROVE  st.kind # "opaque" /\ st.ix.form = "var" /\ st.ix.name \in Proven(b, evs)
  OBVIOUS
<1>2. /\ st.kind \in Writing => \E e \in Range(evs) : e.kind = "subwrite" /\ e.path = c /\ e.ix = st.ix
      /\ st.kind = "opaque" => \E e \in Range(evs) : e.kind = "opaque" /\ e.path = c
  <2>1. Tells(st, EventsAt(b, n)) /\ \A e \in Range(EventsAt(b, n)) : e \in Range(evs)
    BY StmtTells, Zenon
  <2> HIDE DEF st, evs
  <2>2. /\ st.kind \in Writing => \E e \in Range(EventsAt(b, n)) : e.kind = "subwrite" /\ e.path = c /\ e.ix = st.ix
        /\ st.kind = "opaque" => \E e \in Range(EventsAt(b, n)) : e.kind = "opaque" /\ e.path = c
    BY <2>1, Zenon DEF Tells
  <2> QED BY <2>1, <2>2, Zenon
<1>3. NamedIn(evs, c)  BY <1>1, <1>2 DEF NamedIn
<1>4. /\ st.kind \in Writing => \E e \in OfKind(mine, {"subwrite"}) : e.ix = st.ix
      /\ st.kind = "opaque" => OfKind(mine, {"opaque"}) # {}
  <2>1. \A e \in Range(evs) : e.path = c => e \in mine  BY Zenon DEF Mine
  <2>2. \A e \in mine : \A kind : e.kind = kind => e \in OfKind(mine, {kind})  BY Zenon DEF OfKind
  <2> HIDE DEF evs, c, mine, st
  <2> QED BY <1>2, <2>1, <2>2, Zenon
<1>5. /\ c \in DOMAIN Targets(b)
      /\ OfKind(mine, {"subwrite"}) # {} => info = IndexedInfo(b, evs, mine)
      /\ OfKind(mine, {"subwrite"}) = {} /\ OfKind(mine, {"opaque"}) # {} => info = Info("SHARED_INDEXED_UNRESOLVED")
  BY <1>0, <1>3, ContainerInfo, Zenon
<1>6. info.class # "READ_AFTER_WRITE" /\ ~info.inPlace /\ SlabKind(b, info) # "dict"
  <2>1. info.class # "READ_AFTER_WRITE" /\ ~info.inPlace  BY <1>5, Zenon DEF Direct
  <2>2. Plan(b)[c] = SlabKind(b, info) /\ c \in DOMAIN Plan(b)  BY <1>0, <1>5, Zenon DEF Plan
  <2>3. Range(Plan(b)) \subseteq {"none", "list"}  BY Zenon DEF Direct
  <2>4. Plan(b)[c] \in Range(Plan(b))  BY <2>2, Zenon DEF Range
  <2> QED BY <2>1, <2>2, <2>3, <2>4
<1> HIDE DEF info
<1>7. info.class # "SHARED_INDEXED_UNRESOLVED" /\ (info.class = "SHARED_INDEXED_SAFE" => info.tier = "BY_PROOF")
  BY <1>6, PlanKinds
<1>8. OfKind(mine, {"subwrite"}) # {} /\ info = IndexedInfo(b, evs, mine)
  <2>1. Info("SHARED_INDEXED_UNRESOLVED").class = "SHARED_INDEXED_UNRESOLVED"  BY DEF Info
  <2> HIDE DEF mine, evs
  <2> QED BY <1>1, <1>4, <1>5, <1>7, <2>1
<1>9. OfKind(mine, {"opaque", "write", "aug"}) = {} /\ {IndexClass(b, evs, ix) : ix \in WriteIndexes(mine)} = {"proven"}
  <2> DEFINE classes == {IndexClass(b, evs, ix) : ix \in WriteIndexes(mine)}
             base == [Info("SHARED_INDEXED_SAFE") EXCEPT
                 !.writes = WriteIndexes(mine), !.reads = ReadIndexes(mine),
                 !.inPlace = \E e \in OfKind(mine, {"subwrite"}) : e.nested]
  <2>1. info = IF OfKind(mine, {"opaque", "write", "aug"}) # {} THEN Info("SHARED_INDEXED_UNRESOLVED")
      ELSE IF Disagree(b, evs, mine) THEN [base EXCEPT !.tier = "ASSERTED", !.inPlace = FALSE]
      ELSE IF base.reads # {} THEN [base EXCEPT !.class = "READ_AFTER_WRITE"]
      ELSE IF classes = {"proven"} THEN [base EXCEPT !.tier = "BY_PROOF"]
      ELSE IF classes = {"value"} THEN [base EXCEPT !.tier = "BY_ASSUMPTION"]
      ELSE [base EXCEPT !.class = "SHARED_INDEXED_UNRESOLVED", !.inPlace = FALSE]
    BY <1>8, Zenon DEF IndexedInfo
  <2>2. DOMAIN base = {"class", "tier", "op", "writes", "reads", "inPlace", "nested"} /\ base.class = "SHARED_INDEXED_SAFE"
    BY DEF Info
  <2>3. Info("SHARED_INDEXED_UNRESOLVED").class = "SHARED_INDEXED_UNRESOLVED"  BY DEF Info
  <2> HIDE DEF base, classes, mine, evs
  <2>4. /\ [base EXCEPT !.tier = "ASSERTED", !.inPlace = FALSE].class = "SHARED_INDEXED_SAFE"
        /\ [base EXCEPT !.tier = "ASSERTED", !.inPlace = FALSE].tier = "ASSERTED"
        /\ [base EXCEPT !.class = "READ_AFTER_WRITE"].class = "READ_AFTER_WRITE"
        /\ [base EXCEPT !.tier = "BY_ASSUMPTION"].class = "SHARED_INDEXED_SAFE"
        /\ [base EXCEPT !.tier = "BY_ASSUMPTION"].tier = "BY_ASSUMPTION"
        /\ [base EXCEPT !.class = "SHARED_INDEXED_UNRESOLVED", !.inPlace = FALSE].class = "SHARED_INDEXED_UNRESOLVED"
    BY <2>2
  <2>5. OfKind(mine, {"opaque", "write", "aug"}) = {} /\ classes = {"proven"}
    BY <1>6, <1>7, <2>1, <2>3, <2>4
  <2> QED BY <2>5, Zenon DEF classes
<1>10. st.kind # "opaque"
  <2>1. OfKind(mine, {"opaque"}) = {}  BY <1>9, Zenon DEF OfKind
  <2> QED BY <1>4, <2>1
<1>11. IndexClass(b, evs, st.ix) = "proven"
  <2>1. st.ix \in WriteIndexes(mine)
    <3>1. \E e \in OfKind(mine, {"subwrite"}) : e.ix = st.ix  BY <1>1, <1>4, <1>10
    <3> HIDE DEF mine, st
    <3> QED BY <3>1 DEF WriteIndexes
  <2> HIDE DEF mine, st, evs
  <2> QED BY <1>9, <2>1
<1> QED
  <2> HIDE DEF evs, st
  <2> QED BY <1>10, <1>11 DEF IndexClass

LEMMA DirectKeepsIndex ==
  ASSUME NEW b, WellFormed(b), Direct(b), ~Shadows(b), NEW m \in DOMAIN b.stmts, b.stmts[m].kind \in Writing
  PROVE  /\ HasIndex(b) /\ b.stmts[m].ix.form = "var" /\ b.stmts[m].ix.name = "i"
         /\ \A n \in DOMAIN b.stmts : Renames(b.stmts[n]) => b.stmts[n].name # "i"
<1> DEFINE evs == Events(b)
<1>1. b.stmts[m].ix.form = "var" /\ b.stmts[m].ix.name \in Proven(b, evs)  BY DirectWrites, Zenon
<1>2. HasIndex(b) /\ b.stmts[m].ix.name = "i" /\ "i" \notin Rebound(evs)
  <2> HIDE DEF evs
  <2> QED BY <1>1 DEF Proven
<1>3. "i" \notin LoopVar(b)  BY <1>2, Zenon DEF Shadows
<1>4. ASSUME NEW n \in DOMAIN b.stmts, Renames(b.stmts[n]) PROVE b.stmts[n].name # "i"
  <2> DEFINE st == b.stmts[n]
  <2>1. Tells(st, EventsAt(b, n)) /\ (\A e \in Range(EventsAt(b, n)) : e \in Range(evs)) /\ st \in Range(b.stmts)
    BY StmtTells, StmtsAre, Zenon
  <2>2. CASE st.kind = "for"
    <3>1. st.name \in LoopVar(b)  BY <2>1, <2>2, Zenon DEF LoopVar
    <3> QED BY <1>3, <3>1
  <2>3. CASE st.kind # "for"
    <3>1. \E e \in Range(evs) : e.kind \in {"write", "aug"} /\ e.path = st.name
      <4> HIDE DEF st, evs
      <4>1. st.kind \in {"assign", "move", "walrus", "aug"}  BY <1>4, <2>3 DEF Renames, st
      <4>2. \E e \in Range(EventsAt(b, n)) : e.kind \in {"write", "aug"} /\ e.path = st.name
        BY <2>1, <4>1 DEF Tells
      <4> QED BY <2>1, <4>2, Zenon
    <3>2. st.name \in Rebound(evs)
      <4> HIDE DEF st, evs
      <4> QED BY <3>1, Zenon DEF Rebound
    <3> QED BY <1>2, <3>2
  <2> QED BY <2>2, <2>3
<1> QED BY <1>1, <1>2, <1>4, Zenon

-----------------------------------------------------------------------------
(* What an iteration keeps *)

LEMMA ParallelStays ==
  ASSUME NEW b, WellFormed(b), Parallel(b), NEW n \in DOMAIN b.stmts
  PROVE  b.stmts[n].kind \notin {"break", "return"}
<1>1. ~HasKind(b, "break") /\ ~HasKind(b, "return")  BY DEF Parallel, Eligibility
<1>2. b.stmts[n] \in Range(b.stmts)  BY StmtsAre, Zenon
<1> DEFINE st == b.stmts[n]
<1> HIDE DEF st
<1>3. st \in Range(b.stmts)  BY <1>2 DEF st
<1>4. st.kind # "break" /\ st.kind # "return"  BY <1>1, <1>3, Zenon DEF HasKind
<1> QED BY <1>4 DEF st

LEMMA LikeIs ==
  ASSUME NEW st \in Statements, NEW s, Like(s, st)
  PROVE  /\ s.kind = st.kind /\ s.name = st.name /\ s.base = st.base /\ s.ix = st.ix /\ s.uses = st.uses
         /\ s.form = st.form /\ s.arm = st.arm
BY DEF Like, Statements

LEMMA BeginIs ==
  ASSUME NEW b, NEW plan, NEW f, FrameOK(f), NEW p
  PROVE  LET g == Begin(b, plan, f, p)
         IN  /\ FrameOK(g) /\ g.heap = f.heap /\ g.ok = f.ok /\ g.bound = f.bound \cup DomainNames(b)
             /\ HasIndex(b) => g.local["i"] = <<Elem(b, p)>>
<1> DEFINE x == <<Elem(b, p)>>
           y == <<b.values[p]>>
           cell == [c \in Containers |-> IF plan[c] = "cell" THEN f.heap[c][Elem(b, p)] ELSE <<>>]
           d == DomainNames(b)
           g == [f EXCEPT !.local["i"] = IF HasIndex(b) THEN x ELSE @,
                          !.local["v"] = IF b.domain = "range" THEN @ ELSE y,
                          !.bound = @ \cup d, !.cell = cell, !.truth = FALSE]
<1>1. Begin(b, plan, f, p) = g  BY DEF Begin
<1> HIDE DEF x, y, cell, d
<1>2. /\ FrameOK(g) /\ g.heap = f.heap /\ g.ok = f.ok /\ g.bound = f.bound \cup d
      /\ HasIndex(b) => g.local["i"] = x
  BY DEF FrameOK, Names
<1> HIDE DEF g
<1> QED BY <1>1, <1>2, Zenon DEF x, d

\* The statements of the flow.
LEMMA FlowStays ==
  ASSUME NEW b, WellFormed(b), Parallel(b), NEW p, NEW k \in 1 .. Len(Flow(b, p))
  PROVE  /\ Flow(b, p)[k] \in Statements /\ Flow(b, p)[k].kind \notin {"break", "return"}
         /\ \E n \in DOMAIN b.stmts : Like(Flow(b, p)[k], b.stmts[n]) /\ InPlace(b, Flow(b, p), k, n)
<1> DEFINE s == Flow(b, p)[k]
<1>1. s \in Statements
  <2>1. Flow(b, p) \in Seq(Statements)  BY FlowIs
  <2> QED BY <2>1
<1>2. PICK n \in DOMAIN b.stmts : InPlace(b, Flow(b, p), k, n)  BY FlowIs, Zenon
<1>3. Like(s, b.stmts[n])  BY <1>2, Zenon DEF InPlace
<1>4. b.stmts[n] \in Statements /\ b.stmts[n].kind \notin {"break", "return"}
  BY StmtsAre, ParallelStays, Zenon
<1>5. s.kind \notin {"break", "return"}  BY <1>3, <1>4, LikeIs, Zenon
<1> QED BY <1>1, <1>2, <1>3, <1>5, Zenon

\* Induction up to L.
LEMMA UpTo ==
  ASSUME NEW L \in Nat, NEW S, 0 \in S, \A k \in 1 .. L : k - 1 \in S => k \in S
  PROVE  \A k \in 0 .. L : k \in S
<1> DEFINE Bad == {k \in 0 .. L : k \notin S}
<1> SUFFICES ASSUME Bad # {} PROVE FALSE  OBVIOUS
<1>1. PICK k \in Bad : \A l \in Bad : k <= l
  <2>1. Bad \in SUBSET Nat  OBVIOUS
  <2> HIDE DEF Bad
  <2> QED BY <2>1, LeastNatural
<1>2. k \in 0 .. L /\ k \notin S /\ k # 0  BY <1>1
<1>3. k \in 1 .. L /\ k - 1 \in 0 .. L /\ ~ (k <= k - 1)  BY <1>2
<1>4. k - 1 \in S  BY <1>1, <1>3
<1> QED BY <1>2, <1>3, <1>4

\* An iteration has frames.
LEMMA IterationRan ==
  ASSUME NEW b, WellFormed(b), NEW plan, NEW ops, NEW f, NEW p
  PROVE  Len(Flow(b, p)) \in Nat /\ \E g : Ran(b, plan, ops, f, p, g)
<1> DEFINE flow == Flow(b, p)
<1>1. Len(flow) \in Nat
  <2>1. flow \in Seq(Statements)  BY FlowIs
  <2> HIDE DEF flow
  <2> QED BY <2>1
<1>2. \E g : Ran(b, plan, ops, f, p, g)  BY <1>1, IterationRuns
<1> QED BY <1>1, <1>2

LEMMA IterationKeeps ==
  ASSUME NEW b, WellFormed(b), Parallel(b), NEW plan, PlanOK(plan), NEW ops, NEW f, FrameOK(f), NEW p
  PROVE  FrameOK(Iteration(b, plan, ops, f, p))
<1>1. Len(Flow(b, p)) \in Nat  BY IterationRan
<1>2. PICK g : Ran(b, plan, ops, f, p, g)  BY IterationRan
<1> DEFINE S == {k \in 0 .. Len(Flow(b, p)) : FrameOK(g[k])}
<1>3. 0 \in S
  <2>1. FrameOK(Begin(b, plan, f, p))  BY BeginIs
  <2> QED BY <1>1, <1>2, <2>1 DEF Ran
<1>4. ASSUME NEW k \in 1 .. Len(Flow(b, p)), k - 1 \in S PROVE k \in S
  <2>1. Flow(b, p)[k] \in Statements /\ Flow(b, p)[k].kind \notin {"break", "return"}
    BY FlowStays, Zenon
  <2>2. FrameOK(g[k - 1])  BY <1>4
  <2>3. FrameOK(Run(b, plan, ops, p, g[k - 1], Flow(b, p)[k]))
    BY <2>1, <2>2, RunKeeps, Zenon DEF RunsWell
  <2>4. FrameOK(g[k])  BY <1>2, <2>3, Zenon DEF Ran
  <2> QED BY <1>1, <2>4
<1> HIDE DEF S
<1>5. Len(Flow(b, p)) \in S
  <2>1. \A k \in 0 .. Len(Flow(b, p)) : k \in S  BY <1>1, <1>3, <1>4, UpTo
  <2> QED BY <1>1, <2>1
<1> QED BY <1>2, <1>5, Zenon DEF S, Ran

-----------------------------------------------------------------------------
(* In place *)

LEMMA RunOwn ==
  ASSUME NEW b, WellFormed(b), Direct(b), ~Shadows(b), NEW f, NEW p, NEW g, KeepsOwn(b, f, p, g),
         NEW n \in DOMAIN b.stmts, NEW s \in Statements, Like(s, b.stmts[n]),
         s.kind \notin {"break", "return"}
  PROVE  KeepsOwn(b, f, p, Run(b, NoPlan, {}, p, g, s))
<1> DEFINE h == Run(b, NoPlan, {}, p, g, s)
           e == Elem(b, p)
           st == b.stmts[n]
<1>1. FrameOK(g) /\ OnlyAt(f.heap, g.heap, e)  BY DEF KeepsOwn
<1>2. PlanOK(NoPlan) /\ s.base \in Containers  BY PlanIsOK DEF Statements
<1>3. NoPlan[s.base] = "none"  BY <1>2 DEF NoPlan
<1>4. RunsWell(NoPlan, {}, s, g, h) /\ WritesAt(s, g, h)  BY <1>1, <1>2, <1>3, RunKeeps, Zenon
<1>5. st \in Statements  BY StmtsAre, Zenon
<1>6. s.kind = st.kind /\ s.name = st.name /\ s.ix = st.ix  BY <1>5, LikeIs, Zenon
<1> HIDE DEF st
<1>7. st.kind # "opaque"  BY DirectWrites, Zenon DEF st
<1>8. ASSUME \E m \in DOMAIN b.stmts : b.stmts[m].kind \in Writing
      PROVE  /\ g.local["i"] = <<e>> /\ h.local["i"] = <<e>>
             /\ st.kind \in Writing => st.ix.form = "var" /\ st.ix.name = "i"
  <2>1. g.local["i"] = <<e>>  BY <1>8 DEF KeepsOwn
  <2>2. /\ Renames(st) => st.name # "i"
        /\ st.kind \in Writing => st.ix.form = "var" /\ st.ix.name = "i"
    BY <1>8, DirectKeepsIndex, Zenon DEF st
  <2>3. Renames(s) => s.name # "i"  BY <1>6, <2>2 DEF Renames
  <2>4. h.local["i"] = g.local["i"]  BY <1>4, <2>3, Zenon DEF RunsWell
  <2> QED BY <2>1, <2>2, <2>4, Zenon
<1>9. OnlyAt(f.heap, h.heap, e)
  <2>1. CASE s.kind \in Writing
    <3>1. ChangesAt(g.heap, h.heap, s.base, IndexValue(s.ix, g))  BY <1>4, <2>1, Zenon DEF WritesAt
    <3>2. g.local["i"] = <<e>> /\ s.ix.form = "var" /\ s.ix.name = "i"
      <4>1. st.kind \in Writing  BY <1>6, <2>1, Zenon
      <4>2. \E m \in DOMAIN b.stmts : b.stmts[m].kind \in Writing  BY <4>1, Zenon DEF st
      <4> QED BY <1>6, <1>8, <4>1, <4>2, Zenon
    <3>3. IndexValue(s.ix, g) = e
      <4> HIDE DEF e
      <4>1. Head(<<e>>) = e  OBVIOUS
      <4> QED BY <3>2, <4>1 DEF IndexValue
    <3> HIDE DEF e, h
    <3> QED BY <1>1, <3>1, <3>3 DEF OnlyAt, ChangesAt
  <2>2. CASE s.kind \notin Writing
    <3>1. h.heap = g.heap
      <4>1. s.kind \notin Writing \cup {"opaque"}  BY <1>6, <1>7, <2>2
      <4> QED BY <1>4, <4>1, Zenon DEF WritesAt
    <3> QED BY <1>1, <3>1, Zenon
  <2> QED BY <2>1, <2>2, Zenon
<1>10. FrameOK(h)  BY <1>4, Zenon DEF RunsWell
<1> QED BY <1>8, <1>9, <1>10, Zenon DEF KeepsOwn

\* An iteration in place only changes its own element of each container.
LEMMA IterationOwn ==
  ASSUME NEW b, WellFormed(b), Direct(b), ~Shadows(b), NEW f, FrameOK(f), NEW p
  PROVE  OnlyAt(f.heap, Iteration(b, NoPlan, {}, f, p).heap, Elem(b, p))
<1>0. Parallel(b)  BY DEF Parallel, Direct
<1>1. Len(Flow(b, p)) \in Nat  BY IterationRan
<1>2. PICK g : Ran(b, NoPlan, {}, f, p, g)  BY IterationRan
<1> DEFINE S == {k \in 0 .. Len(Flow(b, p)) : KeepsOwn(b, f, p, g[k])}
<1>3. 0 \in S
  <2> DEFINE g0 == Begin(b, NoPlan, f, p)
  <2>1. FrameOK(g0) /\ g0.heap = f.heap /\ (HasIndex(b) => g0.local["i"] = <<Elem(b, p)>>)
    BY BeginIs
  <2>2. (\E m \in DOMAIN b.stmts : b.stmts[m].kind \in Writing) => HasIndex(b)
    BY DirectKeepsIndex, Zenon
  <2>3. KeepsOwn(b, f, p, g0)
    <3> HIDE DEF g0
    <3> QED BY <2>1, <2>2 DEF KeepsOwn, OnlyAt
  <2>4. g[0] = g0  BY <1>2, Zenon DEF Ran
  <2>5. KeepsOwn(b, f, p, g[0])  BY <2>3, <2>4, Zenon
  <2> QED BY <1>1, <2>5
<1>4. ASSUME NEW k \in 1 .. Len(Flow(b, p)), k - 1 \in S PROVE k \in S
  <2> DEFINE s == Flow(b, p)[k]
  <2>1. s \in Statements /\ s.kind \notin {"break", "return"} /\ \E n \in DOMAIN b.stmts : Like(s, b.stmts[n])
    BY <1>0, FlowStays, Zenon
  <2>2. PICK n \in DOMAIN b.stmts : Like(s, b.stmts[n])  BY <2>1
  <2>3. KeepsOwn(b, f, p, g[k - 1])  BY <1>4
  <2>4. KeepsOwn(b, f, p, Run(b, NoPlan, {}, p, g[k - 1], s))  BY <2>1, <2>2, <2>3, RunOwn, Zenon
  <2>5. g[k] = Run(b, NoPlan, {}, p, g[k - 1], s)  BY <1>2, Zenon DEF Ran
  <2>6. KeepsOwn(b, f, p, g[k])  BY <2>4, <2>5, Zenon
  <2> QED BY <1>1, <2>6
<1> HIDE DEF S
<1>5. Len(Flow(b, p)) \in S
  <2>1. \A k \in 0 .. Len(Flow(b, p)) : k \in S  BY <1>1, <1>3, <1>4, UpTo
  <2> QED BY <1>1, <2>1
<1>6. KeepsOwn(b, f, p, g[Len(Flow(b, p))])  BY <1>5, Zenon DEF S
<1> QED BY <1>2, <1>6, Zenon DEF KeepsOwn, Ran

-----------------------------------------------------------------------------
(* The block *)

LEMMA BodyIs == Typed => WellFormed(body)
BY SelectionAssumption DEF Typed

\* Code that was made is that of a block that may run in parallel.
LEMMA MadeIs ==
  ASSUME Chosen, code.made
  PROVE  /\ code = Artifact(body) /\ how = Eligibility(body) /\ Parallel(body)
         /\ code.plan = Plan(body) /\ code.direct = Direct(body) /\ code.reductions = Reductions(body)
<1>1. ~NoCode.made  BY DEF NoCode
<1>2. code = Artifact(body) /\ how = Eligibility(body) /\ Parallel(body)  BY <1>1, Zenon DEF Chosen
<1>3. /\ Artifact(body).plan = Plan(body) /\ Artifact(body).direct = Direct(body)
      /\ Artifact(body).reductions = Reductions(body)
  BY Zenon DEF Artifact
<1> QED BY <1>2, <1>3, Zenon

LEMMA PlansAre ==
  ASSUME Chosen, code.made
  PROVE  PlanOK(Plans) /\ (direct => Direct(body) /\ Plans = NoPlan /\ Ops = {}) /\ (~direct => Plans = Plan(body))
BY MadeIs, PlanIsOK, Zenon DEF Plans, Ops, Chosen

LEMMA FreshIs == ASSUME NEW h, HeapOK(h), NEW b PROVE FrameOK(AsFunction(b, h))
BY DEF AsFunction, Frame, FrameOK, StartNames

LEMMA StartHeapIs == HeapOK(StartHeap)
<1> DEFINE s(c) == CASE c = "xs" -> 10 [] c = "ys" -> 20 [] c = "ds" -> 30
<1>1. StartHeap = [c \in Containers |-> [key \in Keys |-> <<key + s(c)>>]]  BY DEF StartHeap
<1> HIDE DEF s
<1> QED BY <1>1 DEF HeapOK

\* A level ends after it starts, and what is before its end is below its
\* threshold.
LEMMA LevelIs ==
  ASSUME NEW a \in 0 .. N, a < N
  PROVE  /\ LevelEnd(a) \in a + 1 .. N
         /\ how = "WAVEFRONT" => \A p \in a + 1 .. LevelEnd(a) - 1 : Elem(body, p) < Threshold(a)
<1> DEFINE Below(p) == Elem(body, p) < Threshold(a)
           Past(z) == z = N \/ ~Below(z)
           E == {z \in a + 1 .. N : Past(z)}
           Closes(z) == Past(z) /\ \A p \in a + 1 .. z - 1 : Below(p)
           z0 == CHOOSE z \in a + 1 .. N : Closes(z)
<1>1. LevelEnd(a) = IF how # "WAVEFRONT" THEN N ELSE z0  BY Zenon DEF LevelEnd
<1> HIDE DEF Below
<1>2. N \in Nat /\ a \in Nat /\ N \in E /\ N \in a + 1 .. N  BY LoopBodyAssumption
<1>3. \E z \in a + 1 .. N : Closes(z)
  <2>1. E \in SUBSET Nat  BY <1>2
  <2>2. PICK z \in E : \A y \in E : z <= y
    <3> HIDE DEF E
    <3> QED BY <1>2, <2>1, LeastNatural
  <2>3. \A p \in a + 1 .. z - 1 : Below(p)
    <3> SUFFICES ASSUME NEW p \in a + 1 .. z - 1, ~Below(p) PROVE FALSE  OBVIOUS
    <3>1. p \in E /\ ~ (z <= p)  BY <1>2, <2>2
    <3> QED BY <2>2, <3>1
  <2> QED BY <2>2, <2>3
<1> HIDE DEF E, Closes, z0
<1>4. z0 \in a + 1 .. N /\ Closes(z0)  BY <1>3, Zenon DEF z0
<1>5. LevelEnd(a) \in a + 1 .. N  BY <1>1, <1>2, <1>4
<1>6. how = "WAVEFRONT" => Closes(LevelEnd(a))  BY <1>1, <1>4
<1> QED BY <1>5, <1>6, Zenon DEF Closes, Below

LEMMA BoundsAre ==
  ASSUME NEW a \in 0 .. N, a < N, NEW c \in Workers PROVE Lo(c, a) \in Int /\ Hi(c, a) \in Int
<1>1. LevelEnd(a) \in Int /\ a \in Int  BY LevelIs, LoopBodyAssumption
<1> HIDE DEF LevelEnd
<1>2. CeilDiv(LevelEnd(a) - a, 2) \in Int  BY <1>1 DEF CeilDiv
<1> QED BY <1>1, <1>2 DEF Lo, Hi

LEMMA StraightKeeps ==
  ASSUME NEW b, WellFormed(b), Parallel(b), NEW f, FrameOK(f) PROVE FrameOK(Straight(b, f))
<1>1. PICK g : InTurn(b, f, g)  BY StraightRuns, Zenon
<1> DEFINE S == {k \in 0 .. N : FrameOK(g[k])}
<1>2. N \in Nat  BY LoopBodyAssumption
<1>3. 0 \in S  BY <1>1, <1>2 DEF InTurn
<1>4. ASSUME NEW k \in 1 .. N, k - 1 \in S PROVE k \in S
  <2>1. FrameOK(g[k - 1])  BY <1>4
  <2>2. PlanOK(NoPlan)  BY PlanIsOK
  <2>3. FrameOK(Iteration(b, NoPlan, {}, g[k - 1], k - 1))  BY <2>1, <2>2, IterationKeeps, Zenon
  <2>4. FrameOK(g[k])  BY <1>1, <2>3, Zenon DEF InTurn
  <2> QED BY <1>2, <2>4
<1> HIDE DEF S
<1>5. N \in S
  <2>1. \A k \in 0 .. N : k \in S  BY <1>2, <1>3, <1>4, UpTo
  <2> QED BY <1>2, <2>1
<1> QED BY <1>1, <1>5, Zenon DEF S, InTurn

LEMMA MergeKeeps == ASSUME NEW slab, NEW h PROVE HeapOK(Merge(slab, h))
BY DEF Merge, HeapOK

LEMMA IterateIs ==
  ASSUME Inv, NEW c \in Workers, Iterate(c)
  PROVE  /\ FrameOK([frame[c] EXCEPT !.heap = heap]) /\ [frame[c] EXCEPT !.heap = heap].heap = heap
         /\ FrameOK(Stepped(c)) /\ Parallel(body) /\ WellFormed(body)
         /\ heap' = Stepped(c).heap /\ frame' = [frame EXCEPT ![c] = Stepped(c)]
         /\ at' = [at EXCEPT ![c] = @ + 1]
<1>1. stage = "level" /\ heap' = Stepped(c).heap /\ frame' = [frame EXCEPT ![c] = Stepped(c)]
      /\ at' = [at EXCEPT ![c] = @ + 1]
  BY Zenon DEF Iterate, Stepped
<1> DEFINE f == [frame[c] EXCEPT !.heap = heap]
<1>2. FrameOK(f) /\ f.heap = heap
  <2>1. FrameOK(frame[c]) /\ HeapOK(heap)  BY Zenon DEF Inv, Typed
  <2> QED BY <2>1 DEF FrameOK
<1>3. WellFormed(body)  BY BodyIs, Zenon DEF Inv
<1>4. PlanOK(Plans) /\ Parallel(body)
  <2>1. code.made  BY <1>1 DEF Inv, Chosen
  <2> QED BY <2>1, PlansAre, MadeIs, Zenon DEF Inv
<1> HIDE DEF f
<1>5. FrameOK(Iteration(body, Plans, Ops, f, at[c]))  BY <1>2, <1>3, <1>4, IterationKeeps, Zenon
<1> QED BY <1>1, <1>2, <1>3, <1>4, <1>5, Zenon DEF f, Stepped

LEMMA TypedStep == ASSUME Inv, [Next]_vars PROVE Typed'
<1>0. Typed /\ Chosen  BY Zenon DEF Inv
<1>00. body \in Bodies /\ HeapOK(heap) /\ from \in 0 .. N /\ N \in Nat /\ \A c \in Workers : FrameOK(frame[c]) /\ at[c] \in Int
  BY <1>0, LoopBodyAssumption DEF Typed
<1>1. CASE Decide \/ Leave \/ JoinError \/ JoinConflict \/ Over \/ UNCHANGED vars
  <2>1. UNCHANGED <<body, heap, from, frame, at>>
    BY <1>1 DEF Decide, Leave, JoinError, JoinConflict, Over, vars
  <2> QED BY <1>0, <2>1 DEF Typed
<1>2. CASE Start
  <2>1. UNCHANGED <<body, heap, from, at>> /\ frame' = Fresh(heap)  BY <1>2 DEF Start
  <2>2. \A c \in Workers : FrameOK(AsFunction(body, heap))  BY <1>00, FreshIs
  <2>3. frame' = [c \in Workers |-> frame'[c]] /\ \A c \in Workers : FrameOK(frame'[c])
    BY <2>1, <2>2, Zenon DEF Fresh
  <2> QED BY <1>0, <2>1, <2>3 DEF Typed
<1>3. CASE Enter
  <2>1. UNCHANGED <<body, heap, from, frame>> /\ at' = [c \in Workers |-> Lo(c, from)] /\ from < N
    BY <1>3 DEF Enter
  <2>2. \A c \in Workers : Lo(c, from) \in Int  BY <1>00, <2>1, BoundsAre
  <2>3. at' = [c \in Workers |-> at'[c]] /\ \A c \in Workers : at'[c] \in Int  BY <2>1, <2>2, Zenon
  <2> QED BY <1>0, <2>1, <2>3 DEF Typed
<1>4. ASSUME NEW c \in Workers, Iterate(c) PROVE Typed'
  <2>1. /\ FrameOK(Stepped(c)) /\ heap' = Stepped(c).heap /\ frame' = [frame EXCEPT ![c] = Stepped(c)]
        /\ at' = [at EXCEPT ![c] = @ + 1]
    BY <1>4, IterateIs, Zenon
  <2>2. UNCHANGED <<body, from>>  BY <1>4 DEF Iterate
  <2> DEFINE x == Stepped(c)
  <2> HIDE DEF x
  <2>3. FrameOK(x) /\ heap' = x.heap /\ frame' = [frame EXCEPT ![c] = x]  BY <2>1, Zenon DEF x
  <2>4. HeapOK(heap')  BY <2>3 DEF FrameOK
  <2>5. frame' = [d \in Workers |-> frame'[d]] /\ \A d \in Workers : FrameOK(frame'[d])
    BY <1>0, <2>3 DEF Typed
  <2>6. at' = [d \in Workers |-> at'[d]] /\ \A d \in Workers : at'[d] \in Int
    BY <1>0, <2>1 DEF Typed
  <2> QED BY <1>0, <2>2, <2>4, <2>5, <2>6 DEF Typed
<1>5. CASE Join
  <2>1. UNCHANGED body /\ heap' = Committed /\ from' = LevelEnd(from) /\ frame' = Fresh(heap')
        /\ at' = [c \in Workers |-> LevelEnd(from)]
    BY <1>5, Zenon DEF Join
  <2>2. from < N  BY <1>0, <1>5 DEF Join, Done, Chosen
  <2>3. LevelEnd(from) \in 0 .. N  BY <1>00, <2>2, LevelIs
  <2>4. HeapOK(heap')  BY <2>1, MergeKeeps, Zenon DEF Committed
  <2>5. FrameOK(AsFunction(body, heap'))  BY <2>4, FreshIs
  <2>6. frame' = [c \in Workers |-> frame'[c]] /\ \A c \in Workers : FrameOK(frame'[c])
    <3>1. frame' = [c \in Workers |-> AsFunction(body, heap')]  BY <2>1, Zenon DEF Fresh
    <3> QED BY <2>5, <3>1, Zenon
  <2>7. from' \in 0 .. N /\ at' = [c \in Workers |-> at'[c]] /\ \A c \in Workers : at'[c] \in Int
    <3> HIDE DEF LevelEnd
    <3> QED BY <1>00, <2>1, <2>3
  <2> QED BY <1>00, <2>1, <2>4, <2>6, <2>7, Zenon DEF Typed
<1>6. CASE Twin
  <2>1. UNCHANGED <<body, from, frame, at>> /\ heap' = Straight(body, AsFunction(body, heap)).heap /\ stage = "twin"
    BY <1>6 DEF Twin
  <2>2. code.made  BY <1>0, <2>1 DEF Chosen
  <2>3. Parallel(body) /\ WellFormed(body)  BY <1>0, <2>2, MadeIs, BodyIs, Zenon
  <2>4. FrameOK(Straight(body, AsFunction(body, heap)))
    <3>1. FrameOK(AsFunction(body, heap))  BY <1>00, FreshIs
    <3> QED BY <2>3, <3>1, StraightKeeps, Zenon
  <2> DEFINE x == Straight(body, AsFunction(body, heap))
  <2> HIDE DEF x
  <2>5. FrameOK(x) /\ heap' = x.heap  BY <2>1, <2>4, Zenon DEF x
  <2>6. HeapOK(heap')  BY <2>5 DEF FrameOK
  <2> QED BY <1>0, <2>1, <2>6 DEF Typed
<1> QED BY <1>1, <1>2, <1>3, <1>4, <1>5, <1>6, Zenon DEF Next

LEMMA ChosenStep == ASSUME Inv, [Next]_vars PROVE Chosen'
<1>0. Chosen  BY Zenon DEF Inv
<1>1. CASE Decide
  <2>1. /\ stage = "select" /\ stage' = "decided" /\ UNCHANGED <<body, direct>> /\ how' = Eligibility(body)
        /\ code' = IF how' \in {"RAISES", "SEQUENTIAL"} \/ ~Supported(body) THEN NoCode ELSE Artifact(body)
    BY <1>1, Zenon DEF Decide
  <2>2. code' = NoCode \/ (code' = Artifact(body) /\ how' = Eligibility(body) /\ Parallel(body))
    BY <2>1, Zenon DEF Parallel
  <2>3. Artifact(body)' = Artifact(body) /\ Eligibility(body)' = Eligibility(body) /\ Parallel(body)' = Parallel(body)
    <3>1. body' = body  BY <2>1
    <3> QED BY <3>1
  <2>4. code' = NoCode \/ (code' = Artifact(body)' /\ how' = Eligibility(body)' /\ Parallel(body)')
    BY <2>2, <2>3, Zenon
  <2>5. ~direct' /\ stage' = "decided"  BY <1>0, <2>1 DEF Chosen
  <2> QED BY <2>4, <2>5 DEF Chosen
<1>2. CASE Start
  <2>1. /\ UNCHANGED <<body, how, code>> /\ code.made /\ direct' \in {FALSE, code.direct} /\ stage' \in {"twin", "run"}
    BY <1>2 DEF Start
  <2> QED BY <1>0, <2>1 DEF Chosen
<1>3. CASE Leave \/ Enter \/ JoinError \/ JoinConflict \/ Join \/ Twin \/ Over \/ UNCHANGED vars \/ \E c \in Workers : Iterate(c)
  <2>1. UNCHANGED <<body, how, code, direct>>
    BY <1>3 DEF Leave, Enter, JoinError, JoinConflict, Join, Twin, Over, vars, Iterate
  <2>2. /\ stage' \in {"select", "decided"} => stage' = stage
        /\ stage' \in {"run", "level", "twin"} => stage \in {"run", "level", "twin"}
        /\ stage' = "level" => from' < N
    BY <1>0, <1>3 DEF Chosen, Leave, Enter, JoinError, JoinConflict, Join, Twin, Over, vars, Iterate, Ends, Done
  <2> QED BY <1>0, <2>1, <2>2 DEF Chosen
<1> QED BY <1>1, <1>2, <1>3, Zenon DEF Next

LEMMA InvInit == Init => Inv
<1> SUFFICES ASSUME Init PROVE Inv  OBVIOUS
<1>1. HeapOK(heap)  BY StartHeapIs DEF Init
<1>2. FrameOK(AsFunction(body, StartHeap))  BY StartHeapIs, FreshIs
<1>3. frame = [c \in Workers |-> frame[c]] /\ \A c \in Workers : FrameOK(frame[c])
  BY <1>2, Zenon DEF Init, Fresh
<1>4. Typed  BY <1>1, <1>3, LoopBodyAssumption DEF Init, Typed
<1>5. Chosen  BY Zenon DEF Init, Chosen
<1> QED BY <1>4, <1>5 DEF Inv

LEMMA Invariance == Spec => []Inv
<1>1. Inv /\ [Next]_vars => Inv'  BY TypedStep, ChosenStep, Zenon DEF Inv
<1> QED BY <1>1, InvInit, PTL DEF Spec

\* Where the chunks write the caller's containers themselves, each of them
\* only changes the elements of its own iterations, unless an inner loop
\* shadows the index (the direct twin of dispatch.py and direct_writes of
\* codegen): for every set of bodies Python can have.
THEOREM WritesItsOwn == Spec => OwnElementsOnly
<1> DEFINE Own == \A c \in Workers :
                    direct /\ ~Shadows(body) /\ at'[c] = at[c] + 1 /\ stage' = "level" =>
                      \A b \in Containers, key \in Keys :
                        heap'[b][key] # heap[b][key] => key = Elem(body, at[c])
<1>1. ASSUME Inv, [Next]_vars PROVE Own
  <2> SUFFICES ASSUME NEW c \in Workers, direct, ~Shadows(body), at'[c] = at[c] + 1, stage' = "level",
                      NEW b \in Containers, NEW key \in Keys, heap'[b][key] # heap[b][key]
               PROVE  key = Elem(body, at[c])  OBVIOUS
  <2>1. heap' # heap  OBVIOUS
  <2>2. PICK d \in Workers : Iterate(d)
    BY <1>1, <2>1 DEF Next, Decide, Leave, Start, Enter, JoinError, JoinConflict, Join, Twin, Over, vars, Ends
  <2> DEFINE f == [frame[d] EXCEPT !.heap = heap]
  <2>3. /\ FrameOK(f) /\ f.heap = heap /\ WellFormed(body) /\ heap' = Stepped(d).heap
        /\ at' = [at EXCEPT ![d] = @ + 1]
    BY <1>1, <2>2, IterateIs, Zenon
  <2>4. d = c  BY <1>1, <2>3 DEF Inv, Typed
  <2>5. Direct(body) /\ Plans = NoPlan /\ Ops = {}
    <3>1. code.made  BY <1>1 DEF Inv, Chosen
    <3> QED BY <1>1, <3>1, PlansAre, Zenon DEF Inv
  <2>6. Stepped(d) = Iteration(body, NoPlan, {}, f, at[c])  BY <2>4, <2>5, Zenon DEF Stepped
  <2> HIDE DEF f
  <2>7. OnlyAt(f.heap, Iteration(body, NoPlan, {}, f, at[c]).heap, Elem(body, at[c]))
    BY <2>3, <2>5, IterationOwn, Zenon
  <2>8. OnlyAt(heap, heap', Elem(body, at[c]))  BY <2>3, <2>6, <2>7, Zenon
  <2> QED BY <2>8, Zenon DEF OnlyAt
<1> QED BY <1>1, Invariance, PTL DEF Spec, OwnElementsOnly

-----------------------------------------------------------------------------
(* Names that have a value before they are needed *)

\* A statement that is under another's arm is on the same one.
LEMMA UnderArm ==
  ASSUME NEW s \in Statements, NEW t \in Statements, Under(Ctx(s), Ctx(t))
  PROVE  s.arm \in {"top", t.arm}
<1>1. CASE s.arm = "top"  BY <1>1
<1>2. CASE s.arm # "top"
  <2>1. Ctx(s) = <<s.arm>>  BY <1>2 DEF Ctx
  <2>2. t.arm # "top" /\ Ctx(t) = <<t.arm>>  BY <2>1 DEF Ctx, Under
  <2>3. SubSeq(<<t.arm>>, 1, 1) = <<s.arm>>  BY <2>1, <2>2, Zenon DEF Under
  <2> DEFINE a == t.arm
             c == s.arm
  <2>4. SubSeq(<<a>>, 1, 1) = <<c>>  BY <2>3
  <2> HIDE DEF a, c
  <2>5. SubSeq(<<a>>, 1, 1)[1] = a /\ <<c>>[1] = c  BY SMT
  <2>6. a = c  BY <2>4, <2>5
  <2> QED BY <2>6 DEF a, c
<1> QED BY <1>1, <1>2

LEMMA ScalarOpIs ==
  ASSUME NEW mine, \A e \in mine : e.kind \in {"aug", "write"} => e.op \in {"none", "+", "max"}, ScalarOp(mine) # "none"
  PROVE  /\ OfKind(mine, {"read"}) = {}
         /\ \A e \in OfKind(mine, {"aug", "write"}) : e.op = ScalarOp(mine)
<1> DEFINE updates == OfKind(mine, {"aug", "write"})
           ops == {e.op : e \in updates}
<1>2. ops \subseteq {"none", "+", "max"}  BY DEF OfKind
<1>3. IsFiniteSet(ops)
  <2>0. \A S, x : IsFiniteSet(S) => IsFiniteSet(S \cup {x})  BY FS_AddElement
  <2>1. IsFiniteSet({"none"})  BY FS_Singleton, Zenon
  <2>2. IsFiniteSet(({"none"} \cup {"+"}) \cup {"max"})  BY <2>0, <2>1, Zenon
  <2>3. ops \subseteq ({"none"} \cup {"+"}) \cup {"max"}  BY <1>2
  <2> HIDE DEF ops
  <2> QED BY <2>2, <2>3, FS_Subset, Zenon
<1>4. ScalarOp(mine) =
        IF \/ OfKind(mine, {"read"}) # {}
           \/ \E e \in updates : e.inLoop \/ (e.kind = "write" /\ ~e.self)
           \/ Cardinality(ops) # 1
        THEN "none" ELSE CHOOSE op \in ops : TRUE
  BY Zenon DEF ScalarOp
<1>5. \A e \in updates : e.op \in ops  OBVIOUS
<1> HIDE DEF updates, ops
<1>6. OfKind(mine, {"read"}) = {} /\ Cardinality(ops) = 1 /\ ScalarOp(mine) = CHOOSE op \in ops : TRUE
  BY <1>4
<1>7. PICK x : ops = {x}  BY <1>3, <1>6, FS_Singleton
<1>8. ScalarOp(mine) = x  BY <1>6, <1>7
<1> QED BY <1>5, <1>6, <1>7, <1>8 DEF updates

\* A name assigned without an operator is not a reduction.
LEMMA NoOperator ==
  ASSUME NEW mine, \A e \in mine : e.kind \in {"aug", "write"} => e.op \in {"none", "+", "max"},
         NEW w \in mine, w.kind = "write", w.op = "none"
  PROVE  ScalarOp(mine) = "none"
<1>1. w \in OfKind(mine, {"aug", "write"})  BY DEF OfKind
<1> QED BY <1>1, ScalarOpIs

\* A name of a block that is not refused, which an assignment without an
\* operator binds, is bound before anything else.
LEMMA AssignedIsLocal ==
  ASSUME NEW b, WellFormed(b), Parallel(b), NEW x \in Names \ DomainNames(b),
         NEW e \in Range(Events(b)), e.kind = "write", e.path = x, e.op = "none"
  PROVE  IsLocal(First(Events(b), x), Mine(Events(b), x))
<1> DEFINE evs == Events(b)
           mine == Mine(evs, x)
           first == First(evs, x)
<1> SUFFICES ASSUME ~IsLocal(first, mine) PROVE FALSE  OBVIOUS
<1>1. e \in mine  BY Zenon DEF Mine
<1>2. \A d \in mine : d \in AllEvents /\ d.path = x
  <2>1. evs \in Seq(AllEvents)  BY EventsAre, Zenon
  <2> HIDE DEF evs
  <2>2. \A d \in Range(evs) : d \in AllEvents  BY <2>1 DEF Range
  <2> QED BY <2>2, Zenon DEF Mine
<1>3. \A d \in mine : d.op \in {"none", "+", "max"} /\ d.kind \notin {"subwrite", "opaque"}
  <2>1. \A d \in AllEvents : d.op \in {"none", "+", "max"} /\ (d.kind \in {"subwrite", "opaque"} => d.path \in Containers)
    BY DEF AllEvents, Emitted
  <2>2. x \notin Containers  BY ContainersApart
  <2> HIDE DEF mine
  <2> QED BY <1>2, <2>1, <2>2, Zenon
<1>4. OfKind(mine, {"subwrite"}) = {} /\ OfKind(mine, {"opaque"}) = {} /\ OfKind(mine, {"aug", "write"}) # {}
  <2> HIDE DEF mine
  <2> QED BY <1>1, <1>3 DEF OfKind
<1>5. ScalarOp(mine) = "none"
  <2> HIDE DEF mine
  <2>1. \A d \in mine : d.kind \in {"aug", "write"} => d.op \in {"none", "+", "max"}  BY <1>3, Zenon
  <2> QED BY <1>1, <2>1, NoOperator
<1> DEFINE info == Classify(b, evs, x)
<1>6. info.class = "SHARED_SCALAR" /\ info.op = "none"
  <2> DEFINE nested == \E d \in OfKind(mine, {"aug", "write"}) : d.inLoop
  <2>1. info = [Info("SHARED_SCALAR") EXCEPT !.op = ScalarOp(mine), !.nested = nested]
    BY <1>4, Zenon DEF Classify
  <2> HIDE DEF info, mine, nested
  <2> QED BY <1>5, <2>1 DEF Info
<1>7. x \in DOMAIN Targets(b) /\ Targets(b)[x] = info
  <2>1. x \in {d.path : d \in Range(evs)}  BY Zenon
  <2>2. x \in Paths(b, evs)  BY <2>1, Zenon DEF Paths
  <2> QED BY <2>2, Zenon DEF Targets
<1>8. Verdict(b, info) = "refused"
  <2> HIDE DEF info
  <2> QED BY <1>6 DEF Verdict
<1>9. Eligibility(b) \in {"RAISES", "SEQUENTIAL"}
  <2>1. "refused" \in {Verdict(b, Targets(b)[path]) : path \in DOMAIN Targets(b)}
    BY <1>7, <1>8, Zenon
  <2> DEFINE verdicts == {Verdict(b, Targets(b)[path]) : path \in DOMAIN Targets(b)}
  <2>2. Eligibility(b) = IF ~Analysed(b) \/ b.backend = "sequential" THEN "SEQUENTIAL"
      ELSE IF HasKind(b, "return") \/ HasKind(b, "break") \/ "refused" \in verdicts
           THEN IF b.strict THEN "RAISES" ELSE "SEQUENTIAL"
      ELSE IF "levels" \in verdicts THEN "WAVEFRONT"
      ELSE IF "reduction" \in verdicts THEN "REDUCTION"
      ELSE "THREAD_CAPABLE"
    BY Zenon DEF Eligibility
  <2> HIDE DEF verdicts
  <2>3. "refused" \in verdicts  BY <2>1 DEF verdicts
  <2> QED BY <2>2, <2>3
<1> QED BY <1>9 DEF Parallel

\* A name of the block that the n-th statement needs was surely given a value
\* before it.
LEMMA BoundBefore ==
  ASSUME NEW b, WellFormed(b), Parallel(b), ~BindsMaybe(b), NEW n \in DOMAIN b.stmts,
         NEW x \in NeedsOf(b.stmts[n], {}), x \in Locals(b), x \notin DomainNames(b)
  PROVE  \E m \in 1 .. n - 1 : /\ Certain(b.stmts[m]) /\ b.stmts[m].name = x
                               /\ b.stmts[m].arm \in {"top", b.stmts[n].arm}
<1> DEFINE st == b.stmts[n]
           evs == Events(b)
           mine == Mine(evs, x)
           first == First(evs, x)
<1>1. /\ DOMAIN b.stmts = 1 .. Len(b.stmts) /\ Len(b.stmts) \in Nat
      /\ \A m \in DOMAIN b.stmts : b.stmts[m] \in Statements /\ b.stmts[m] \in Range(b.stmts)
                                   /\ (b.stmts[m].form # "plain" => b.stmts[m].kind = "assign")
                                   /\ (b.stmts[m].kind \notin Writing \cup {"move"} => b.stmts[m].ix = Whole)
      /\ \A s \in Range(b.stmts) : \E m \in DOMAIN b.stmts : s = b.stmts[m]
  BY StmtsAre, Zenon
<1>2. \A s \in Range(b.stmts) : s.kind \in {"walrus", "for"} => s.name # x
  <2> SUFFICES ASSUME NEW s \in Range(b.stmts), s.kind \in {"walrus", "for"}, s.name = x PROVE FALSE
    OBVIOUS
  <2>1. s \in Stmts(b, {"walrus", "for"})  BY Zenon DEF Stmts
  <2>2. st \in Range(b.stmts) /\ s.name \in NeedsOf(st, {})  BY <1>1, Zenon
  <2> QED BY <2>1, <2>2, Zenon DEF BindsMaybe
<1>3. x \in Names /\ x \notin LoopVar(b)
  <2>1. x \notin LoopVar(b)  BY <1>2, Zenon DEF LoopVar
  <2>2. x \in Names  BY Zenon DEF Locals
  <2> QED BY <2>1, <2>2
<1>4. PICK m1 \in DOMAIN b.stmts : Binds(b.stmts[m1], x)
  <2>1. PICK s \in Range(b.stmts) : Binds(s, x)  BY Zenon DEF Locals
  <2> QED BY <1>1, <2>1, Zenon
<1>5. PICK e \in Range(evs) : e.kind = "write" /\ e.path = x /\ e.op = "none"
  <2> DEFINE s == b.stmts[m1]
  <2>1. s \in Range(b.stmts) /\ Binds(s, x) /\ (s.form # "plain" => s.kind = "assign")
    BY <1>1, <1>4, Zenon
  <2>2. Tells(s, EventsAt(b, m1)) /\ \A e \in Range(EventsAt(b, m1)) : e \in Range(evs)
    BY StmtTells, Zenon
  <2> HIDE DEF s, evs
  <2>3. s.name = x /\ s.kind \in {"assign", "move"} /\ s.form = "plain"
    BY <1>2, <2>1 DEF Binds, Certain
  <2>4. \E e \in Range(EventsAt(b, m1)) : e.kind = "write" /\ e.path = x /\ e.op = SelfOp(s)
    BY <2>2, <2>3, Zenon DEF Tells
  <2>5. SelfOp(s) = "none"  BY <2>3 DEF SelfOp
  <2> QED BY <2>2, <2>4, <2>5, Zenon
<1>6. IsLocal(first, mine)  BY <1>3, <1>5, AssignedIsLocal, Zenon
<1>7. NamedIn(evs, x)  BY <1>5 DEF NamedIn
<1>8. PICK m \in DOMAIN b.stmts : first \in Range(EventsAt(b, m)) /\ \A l \in 1 .. m - 1 : ~NamedIn(EventsAt(b, l), x)
  BY <1>7, FirstIs, Zenon
<1> DEFINE s == b.stmts[m]
<1>9. s \in Statements /\ s \in Range(b.stmts) /\ first \in Emitted(s) /\ first.path = x
  BY <1>1, <1>7, <1>8, EventsAre, FirstIs, Zenon
<1>10. s.name = x /\ Certain(s) /\ first.ctx = Ctx(s) /\ ~SelfRef(s)
  <2>1. first.kind = "write" /\ ~first.self  BY <1>6, Zenon DEF IsLocal
  <2> HIDE DEF first, s
  <2>2. /\ first.path = s.name /\ s.kind \in {"assign", "move", "walrus"} /\ first.ctx = Ctx(s)
        /\ s.kind # "walrus" => first.self = SelfRef(s)
    BY <1>9, <2>1 DEF Emitted
  <2>3. s.kind # "walrus"  BY <1>2, <1>9, <2>2
  <2>4. ~SelfRef(s)  BY <2>1, <2>2, <2>3
  <2> QED BY <1>9, <2>2, <2>3, <2>4 DEF SelfRef, Certain
<1>11. st.kind \notin {"break", "return"}  BY ParallelStays, Zenon
<1>12. PICK d \in Range(EventsAt(b, n)) : d.path = x
  <2>1. NamedIn(EventsAt(b, n), x)
    <3>1. x \in NeedsOf(st, {}) \ LoopVar(b) /\ st \in Statements /\ (st.kind \notin Writing \cup {"move"} => st.ix = Whole)
      BY <1>1, <1>3, Zenon
    <3> QED BY <1>11, <3>1, StmtEventsAre, Zenon DEF EventsAt
  <2> QED BY <2>1, Zenon DEF NamedIn
<1>13. n \notin 1 .. m - 1
  <2>1. NamedIn(EventsAt(b, n), x)  BY <1>12, Zenon DEF NamedIn
  <2> QED BY <1>8, <2>1, Zenon
<1>14. m # n
  <2> SUFFICES ASSUME m = n PROVE FALSE  OBVIOUS
  <2>1. s = st  BY Zenon
  <2>2. s.kind \in {"assign", "move"} /\ s.form = "plain" /\ (s.kind # "move" => s.ix = Whole)
    <3>1. s.kind \in {"assign", "move"}  BY <1>10, Zenon DEF Certain
    <3>2. s.kind \notin Writing  BY <3>1 DEF Writing
    <3>3. s.kind # "move" => s.ix = Whole  BY <1>1, <3>2, Zenon
    <3>4. s.form = "plain"  BY <1>10, Zenon DEF SelfRef
    <3> QED BY <3>1, <3>3, <3>4
  <2>3. x \notin Needs(s)
    <3> HIDE DEF s
    <3> QED BY <1>10 DEF SelfRef
  <2>4. x \in Needs(s)
    <3>1. ~Updates(s)
      <4> HIDE DEF s
      <4> QED BY <2>2 DEF Updates
    <3> QED BY <2>1, <3>1, Zenon DEF NeedsOf
  <2> QED BY <2>3, <2>4
<1>15. m \in 1 .. n - 1
  <2> HIDE DEF s
  <2> QED BY <1>1, <1>13, <1>14
<1>16. s.arm \in {"top", st.arm}
  <2>1. d \in mine
    <3>1. d \in Range(evs)  BY <1>12, EventsAre, Zenon
    <3> QED BY <1>12, <3>1, Zenon DEF Mine
  <2>2. Under(first.ctx, d.ctx)  BY <1>6, <2>1, Zenon DEF IsLocal
  <2>3. d \in Emitted(st)  BY <1>12, EventsAre, Zenon
  <2> HIDE DEF st
  <2>4. d.ctx = Ctx(st)  BY <2>3 DEF Emitted
  <2>5. st \in Statements  BY <1>1, Zenon DEF st
  <2>6. Under(Ctx(s), Ctx(st))  BY <1>10, <2>2, <2>4, Zenon
  <2> QED BY <1>9, <2>5, <2>6, UnderArm, Zenon
<1> QED BY <1>10, <1>15, <1>16, Zenon

LEMMA NeedsAre ==
  ASSUME NEW st \in Statements, NEW ops, NEW s, Like(s, st)
  PROVE  NeedsOf(s, ops) \subseteq NeedsOf(st, {}) /\ NeedsOf(st, {}) \subseteq Names
<1>1. s.kind = st.kind /\ s.name = st.name /\ s.ix = st.ix /\ s.uses = st.uses /\ s.form = st.form
  BY LikeIs, Zenon
<1>2. Needs(s) = Needs(st) /\ Updates(s) = Updates(st)  BY <1>1, Zenon DEF Needs, Updates
<1>3. NeedsOf(s, ops) \subseteq NeedsOf(st, {})  BY <1>1, <1>2 DEF NeedsOf
<1>4. st.name \in Names /\ st.ix.name \in Names /\ st.uses \in Seq([name : Names \cup Containers, ix : Indexes])
  BY DEF Statements, Indexes
<1>5. \A u \in Range(st.uses) : u \in [name : Names \cup Containers, ix : Indexes]
  <2> DEFINE uses == st.uses
             U == [name : Names \cup Containers, ix : Indexes]
  <2>1. uses \in Seq(U)  BY <1>4
  <2> HIDE DEF uses, U
  <2>2. \A u \in Range(uses) : u \in U  BY <2>1 DEF Range
  <2> QED BY <2>2 DEF uses, U
<1>6. \A u \in [name : Names \cup Containers, ix : Indexes] : u.ix.name \in Names  BY DEF Indexes
<1>7. Needs(st) \subseteq Names  BY <1>4, <1>5, <1>6 DEF Needs
<1> QED BY <1>3, <1>4, <1>7 DEF NeedsOf

LEMMA HasWhatItNeeds ==
  ASSUME NEW b, WellFormed(b), Parallel(b), ~BindsMaybe(b), NEW ops, NEW F, NEW k \in Nat, NEW g, Reaches(b, F, k - 1, g),
         NEW n \in DOMAIN b.stmts, InPlace(b, F, k, n), ~Skips(g, F[k])
  PROVE  NeedsOf(F[k], ops) \subseteq g.bound
<1> DEFINE st == b.stmts[n]
<1>1. st \in Statements /\ Like(F[k], st)  BY StmtsAre, Zenon DEF InPlace
<1>2. F[k].arm = st.arm  BY <1>1, LikeIs, Zenon
<1> SUFFICES ASSUME NEW x \in NeedsOf(F[k], ops), x \notin g.bound PROVE FALSE  OBVIOUS
<1>3. x \in NeedsOf(st, {}) /\ x \in Names  BY <1>1, NeedsAre
<1>4. x \in Locals(b) /\ x \notin DomainNames(b)  BY <1>3 DEF Reaches, GoesOn
<1>5. PICK m \in 1 .. n - 1 : Certain(b.stmts[m]) /\ b.stmts[m].name = x /\ b.stmts[m].arm \in {"top", st.arm}
  BY <1>3, <1>4, BoundBefore
<1>6. PICK l \in 1 .. k - 1 : F[l] = b.stmts[m]  BY <1>5, Zenon DEF InPlace
<1>7. ~Skips(g, F[l])
  <2>1. F[l].arm \in {"top", F[k].arm}  BY <1>2, <1>5, <1>6, Zenon
  <2> QED BY <2>1 DEF Skips
<1>8. F[l].name \in g.bound  BY <1>5, <1>6, <1>7, Zenon DEF Reaches
<1> QED BY <1>5, <1>6, <1>8, Zenon

LEMMA RunReaches ==
  ASSUME NEW b, WellFormed(b), Parallel(b), ~BindsMaybe(b), NEW plan, PlanOK(plan), RowsApart(b, plan), NEW ops, NEW p,
         NEW F, NEW k \in Nat, NEW g, Reaches(b, F, k - 1, g), NEW n \in DOMAIN b.stmts, InPlace(b, F, k, n),
         F[k] \in Statements, F[k].kind \notin {"break", "return"}
  PROVE  Reaches(b, F, k, Run(b, plan, ops, p, g, F[k]))
<1> DEFINE s == F[k]
           h == Run(b, plan, ops, p, g, s)
<1>1. FrameOK(g) /\ g.ok  BY Zenon DEF Reaches, GoesOn
<1>2. RunsWell(plan, ops, s, g, h)  BY <1>1, RunKeeps, Zenon
<1>3. Skips(g, s) \/ NeedsOf(s, ops) \subseteq g.bound  BY HasWhatItNeeds, Zenon
<1>4. s.kind = "augnested" => plan[s.base] = "none"
  <2>0. b.stmts[n] \in Statements /\ Like(s, b.stmts[n])  BY StmtsAre, Zenon DEF InPlace
  <2>1. s.kind = b.stmts[n].kind /\ s.base = b.stmts[n].base  BY <2>0, LikeIs, Zenon
  <2> QED BY <2>1, Zenon DEF RowsApart
<1>5. s.kind = "if" => \A l \in 1 .. k - 1 : F[l].arm \notin {"then", "else"}
  <2>1. s.kind = b.stmts[n].kind  BY StmtsAre, LikeIs, Zenon DEF InPlace
  <2> QED BY <2>1, Zenon DEF InPlace
<1> HIDE DEF h
<1>6. FrameOK(h) /\ g.bound \subseteq h.bound /\ (s.kind # "if" => h.truth = g.truth)
  BY <1>2, Zenon DEF RunsWell
<1>7. h.ok /\ (Certain(s) /\ ~Skips(g, s) => s.name \in h.bound)
  BY <1>1, <1>2, <1>3, <1>4, Zenon DEF RunsWell
<1>8. GoesOn(b, h) /\ DomainNames(b) \subseteq h.bound  BY <1>6, <1>7 DEF Reaches, GoesOn
<1>9. ASSUME NEW q \in 1 .. k, Certain(F[q]), ~Skips(h, F[q]) PROVE F[q].name \in h.bound
  <2>1. CASE q = k
    <3>1. s.kind # "if"  BY <1>9, <2>1 DEF Certain
    <3>2. ~Skips(g, s)  BY <1>6, <1>9, <2>1, <3>1, Zenon DEF Skips
    <3> QED BY <1>7, <1>9, <2>1, <3>2, Zenon
  <2>2. CASE q # k
    <3>1. q \in 1 .. k - 1  BY <2>2
    <3>2. ~Skips(g, F[q])
      <4>1. CASE s.kind = "if"
        <5>1. F[q].arm # "then" /\ F[q].arm # "else"  BY <1>5, <3>1, <4>1
        <5> QED BY <5>1, Zenon DEF Skips
      <4>2. CASE s.kind # "if"  BY <1>6, <1>9, <4>2, Zenon DEF Skips
      <4> QED BY <4>1, <4>2, Zenon
    <3>3. F[q].name \in g.bound  BY <1>9, <3>1, <3>2, Zenon DEF Reaches
    <3> QED BY <1>6, <3>3
  <2> QED BY <2>1, <2>2, Zenon
<1> QED BY <1>8, <1>9, Zenon DEF Reaches, h

\* An iteration of a block whose names are bound on every way goes on.
LEMMA IterationGoesOn ==
  ASSUME NEW b, WellFormed(b), Parallel(b), ~BindsMaybe(b), NEW plan, PlanOK(plan), RowsApart(b, plan), NEW ops,
         NEW f, GoesOn(b, f), NEW p
  PROVE  GoesOn(b, Iteration(b, plan, ops, f, p))
<1> DEFINE F == Flow(b, p)
<1>1. Len(F) \in Nat  BY IterationRan
<1>2. PICK g : Ran(b, plan, ops, f, p, g)  BY IterationRan
<1> DEFINE S == {k \in 0 .. Len(F) : Reaches(b, F, k, g[k])}
<1>3. 0 \in S
  <2>1. FrameOK(f) /\ f.ok /\ Names \ Locals(b) \subseteq f.bound  BY Zenon DEF GoesOn
  <2> DEFINE g0 == Begin(b, plan, f, p)
  <2>2. FrameOK(g0) /\ g0.ok = f.ok /\ g0.bound = f.bound \cup DomainNames(b)
    <3> HIDE DEF F
    <3>1. FrameOK(f)  BY <2>1
    <3> QED BY <3>1, BeginIs
  <2>3. g[0] = g0  BY <1>2, Zenon DEF Ran
  <2> HIDE DEF g0, F
  <2>4. Reaches(b, F, 0, g0)  BY <2>1, <2>2 DEF Reaches, GoesOn
  <2>5. Reaches(b, F, 0, g[0])  BY <2>3, <2>4, Zenon
  <2> QED BY <1>1, <2>5
<1>4. ASSUME NEW k \in 1 .. Len(F), k - 1 \in S PROVE k \in S
  <2>1. F[k] \in Statements /\ F[k].kind \notin {"break", "return"} /\ \E n \in DOMAIN b.stmts : InPlace(b, F, k, n)
    BY FlowStays, Zenon
  <2>2. PICK n \in DOMAIN b.stmts : InPlace(b, F, k, n)  BY <2>1
  <2>3. g[k] = Run(b, plan, ops, p, g[k - 1], F[k])  BY <1>2, Zenon DEF Ran
  <2> HIDE DEF F
  <2>4. Reaches(b, F, k - 1, g[k - 1]) /\ k \in Nat  BY <1>1, <1>4
  <2>5. Reaches(b, F, k, Run(b, plan, ops, p, g[k - 1], F[k]))
    BY <2>1, <2>2, <2>4, RunReaches, Zenon
  <2>6. Reaches(b, F, k, g[k])  BY <2>3, <2>5, Zenon
  <2> QED BY <1>1, <2>6
<1>5. Iteration(b, plan, ops, f, p) = g[Len(F)]  BY <1>2, Zenon DEF Ran
<1> HIDE DEF S, F
<1>6. Len(F) \in S
  <2>1. \A k \in 0 .. Len(F) : k \in S  BY <1>1, <1>3, <1>4, UpTo
  <2> QED BY <1>1, <2>1
<1>7. Reaches(b, F, Len(F), g[Len(F)])  BY <1>6, Zenon DEF S
<1> QED BY <1>5, <1>7, Zenon DEF Reaches

LEMMA StraightGoesOn ==
  ASSUME NEW b, WellFormed(b), Parallel(b), ~BindsMaybe(b), NEW f, GoesOn(b, f)
  PROVE  GoesOn(b, Straight(b, f))
<1>1. PICK g : InTurn(b, f, g)  BY StraightRuns, Zenon
<1> DEFINE S == {k \in 0 .. N : GoesOn(b, g[k])}
<1>2. N \in Nat  BY LoopBodyAssumption
<1>3. 0 \in S  BY <1>1, <1>2 DEF InTurn
<1>4. PlanOK(NoPlan) /\ RowsApart(b, NoPlan)
  <2>1. \A c \in Containers : NoPlan[c] = "none"  BY DEF NoPlan
  <2>2. \A n \in DOMAIN b.stmts : b.stmts[n] \in Statements  BY StmtsAre, Zenon
  <2>3. \A st \in Statements : st.base \in Containers  BY DEF Statements
  <2>4. RowsApart(b, NoPlan)  BY <2>1, <2>2, <2>3, Zenon DEF RowsApart
  <2> QED BY <2>4, PlanIsOK
<1>5. ASSUME NEW k \in 1 .. N, k - 1 \in S PROVE k \in S
  <2>1. GoesOn(b, g[k - 1])  BY <1>5
  <2>2. GoesOn(b, Iteration(b, NoPlan, {}, g[k - 1], k - 1))  BY <1>4, <2>1, IterationGoesOn, Zenon
  <2>3. GoesOn(b, g[k])  BY <1>1, <2>2, Zenon DEF InTurn
  <2> QED BY <1>2, <2>3
<1> HIDE DEF S
<1>6. N \in S
  <2>1. \A k \in 0 .. N : k \in S  BY <1>2, <1>3, <1>5, UpTo
  <2> QED BY <1>2, <2>1
<1> QED BY <1>1, <1>6, Zenon DEF S, InTurn

LEMMA FreshGoesOn == ASSUME NEW b, NEW h, HeapOK(h) PROVE GoesOn(b, AsFunction(b, h))
<1>1. FrameOK(AsFunction(b, h))  BY FreshIs
<1>2. AsFunction(b, h).ok /\ AsFunction(b, h).bound = Names \ Locals(b)  BY DEF AsFunction, Frame
<1> QED BY <1>1, <1>2 DEF GoesOn

LEMMA ReadUnderstood ==
  ASSUME Chosen, code.made, Understood(body), WellFormed(body)
  PROVE  ~BindsMaybe(body) /\ RowsApart(body, Plans) /\ ~UndoesNothing(body)
<1>1. ~BindsMaybe(body) /\ ~WritesRow(body) /\ ~UndoesNothing(body)  BY Zenon DEF Understood
<1>2. (direct => Plans = NoPlan) /\ (~direct => Plans = Plan(body))  BY PlansAre, Zenon
<1>3. ASSUME NEW n \in DOMAIN body.stmts, body.stmts[n].kind = "augnested" PROVE Plans[body.stmts[n].base] = "none"
  <2> DEFINE st == body.stmts[n]
  <2>1. st \in Range(body.stmts) /\ st \in Statements  BY StmtsAre, Zenon
  <2>2. st \in Stmts(body, {"nested", "augnested"})  BY <1>3, <2>1, Zenon DEF Stmts
  <2>3. Plan(body)[st.base] = "none"  BY <1>1, <2>2, Zenon DEF WritesRow
  <2>4. NoPlan[st.base] = "none"
    <3> HIDE DEF st
    <3> QED BY <2>1 DEF NoPlan, Statements
  <2> QED BY <1>2, <2>3, <2>4, Zenon
<1> QED BY <1>1, <1>3, Zenon DEF RowsApart

LEMMA GoingStep == ASSUME Inv, Going, [Next]_vars PROVE Going'
<1>0. Chosen /\ HeapOK(heap) /\ WellFormed(body) /\ body' = body
  <2>1. Chosen /\ HeapOK(heap) /\ WellFormed(body)  BY BodyIs, Zenon DEF Inv, Typed
  <2>2. body' = body
    BY DEF Next, Decide, Leave, Start, Enter, Iterate, JoinError, JoinConflict, Join, Twin, Over, vars
  <2> QED BY <2>1, <2>2, Zenon
<1> SUFFICES ASSUME Understood(body)
             PROVE  outcome' # "error" /\ \A c \in Workers : GoesOn(body, frame'[c])
  <2>1. Understood(body)' = Understood(body)  BY <1>0
  <2>2. \A c : GoesOn(body, frame'[c]) = GoesOn(body, frame[c])'  BY <1>0
  <2> QED BY <2>1, <2>2, Zenon DEF Going
<1>1. outcome # "error" /\ \A c \in Workers : GoesOn(body, frame[c])  BY Zenon DEF Going
<1>2. CASE Decide \/ Leave \/ Enter \/ Over \/ UNCHANGED vars
  BY <1>1, <1>2 DEF Decide, Leave, Enter, Over, vars, Ends
<1>3. CASE Start
  <2>1. outcome' = outcome /\ frame' = Fresh(heap)  BY <1>3 DEF Start
  <2>2. GoesOn(body, AsFunction(body, heap))  BY <1>0, FreshGoesOn
  <2> QED BY <1>1, <2>1, <2>2, Zenon DEF Fresh
<1>4. ASSUME NEW c \in Workers, Iterate(c)
      PROVE  outcome' # "error" /\ \A d \in Workers : GoesOn(body, frame'[d])
  <2> DEFINE f == [frame[c] EXCEPT !.heap = heap]
  <2>1. /\ FrameOK(f) /\ Parallel(body) /\ frame' = [frame EXCEPT ![c] = Stepped(c)]
    BY <1>4, IterateIs, Zenon
  <2>2. code.made /\ outcome' = outcome  BY <1>0, <1>4 DEF Iterate, Chosen
  <2>3. PlanOK(Plans) /\ ~BindsMaybe(body) /\ RowsApart(body, Plans)
    BY <1>0, <2>2, PlansAre, ReadUnderstood, Zenon
  <2>4. GoesOn(body, f)
    <3>1. FrameOK(frame[c]) /\ GoesOn(body, frame[c])  BY <1>1, Zenon DEF Inv, Typed
    <3>2. f.ok = frame[c].ok /\ f.bound = frame[c].bound  BY <3>1 DEF FrameOK
    <3> HIDE DEF f
    <3> QED BY <2>1, <3>1, <3>2, Zenon DEF GoesOn
  <2> HIDE DEF f
  <2>5. GoesOn(body, Iteration(body, Plans, Ops, f, at[c]))
    BY <1>0, <2>1, <2>3, <2>4, IterationGoesOn, Zenon
  <2> DEFINE x == Stepped(c)
  <2>6. GoesOn(body, x) /\ frame' = [frame EXCEPT ![c] = x]  BY <2>1, <2>5, Zenon DEF Stepped, f
  <2>7. frame = [d \in Workers |-> frame[d]]  BY Zenon DEF Inv, Typed
  <2> HIDE DEF x
  <2>8. \A d \in Workers : frame'[d] = x \/ frame'[d] = frame[d]  BY <2>6, <2>7
  <2>9. \A d \in Workers : GoesOn(body, frame'[d])  BY <1>1, <2>6, <2>8, Zenon
  <2> QED BY <1>1, <2>2, <2>9, Zenon
<1>5. CASE JoinError
  <2>1. PICK c \in Workers : ~frame[c].ok  BY <1>5, Zenon DEF JoinError, AllOk
  <2> QED BY <1>1, <2>1, Zenon DEF GoesOn
<1>6. CASE JoinConflict
  <2>1. frame' = frame /\ Done /\ Conflict /\ (how # "WAVEFRONT" => outcome' = outcome)
    BY <1>6 DEF JoinConflict
  <2>2. code.made  BY <1>0, <2>1 DEF Done, Chosen
  <2>3. how # "WAVEFRONT"
    <3> SUFFICES ASSUME how = "WAVEFRONT" PROVE FALSE  OBVIOUS
    <3>1. PICK c \in Containers : Plans[c] = "dict"  BY <2>1, Zenon DEF Conflict
    <3>2. Plans = Plan(body)
      <4>1. NoPlan[c] = "none"  BY DEF NoPlan
      <4>2. Plans # NoPlan  BY <3>1, <4>1
      <4> QED BY <1>0, <2>2, <4>2, PlansAre, Zenon
    <3>3. c \in DOMAIN Plan(body)  BY Zenon DEF Plan
    <3>4. "dict" \in Range(Plan(body))  BY <3>1, <3>2, <3>3, Zenon DEF Range
    <3>5. Eligibility(body) = "WAVEFRONT"  BY <1>0, <2>2, MadeIs, Zenon
    <3>6. ~UndoesNothing(body)  BY <1>0, <2>2, ReadUnderstood, Zenon
    <3> QED BY <3>4, <3>5, <3>6, Zenon DEF UndoesNothing
  <2> QED BY <1>1, <2>1, <2>3, Zenon
<1>7. CASE Join
  <2>1. outcome' # "error" /\ heap' = Committed /\ frame' = Fresh(heap')
    <3>1. heap' = Committed /\ frame' = Fresh(heap')  BY <1>7, Zenon DEF Join
    <3>2. outcome' \in {outcome, "done"}  BY <1>7 DEF Join, Ends
    <3> QED BY <1>1, <3>1, <3>2
  <2>2. HeapOK(heap')  BY <2>1, MergeKeeps, Zenon DEF Committed
  <2>3. frame' = [c \in Workers |-> AsFunction(body, heap')]  BY <1>0, <2>1, Zenon DEF Fresh
  <2>4. GoesOn(body, AsFunction(body, heap'))  BY <2>2, FreshGoesOn
  <2> QED BY <2>1, <2>3, <2>4, Zenon
<1>8. CASE Twin
  <2> DEFINE x == Straight(body, AsFunction(body, heap))
  <2>1. frame' = frame /\ stage = "twin" /\ outcome' = IF x.ok THEN "done" ELSE "error"
    BY <1>8, Zenon DEF Twin, Ends
  <2>2. code.made  BY <1>0, <2>1 DEF Chosen
  <2>3. Parallel(body) /\ ~BindsMaybe(body)  BY <1>0, <2>2, MadeIs, ReadUnderstood, Zenon
  <2>4. GoesOn(body, AsFunction(body, heap))  BY <1>0, FreshGoesOn
  <2>5. GoesOn(body, x)  BY <1>0, <2>3, <2>4, StraightGoesOn, Zenon
  <2>6. x.ok  BY <2>5, Zenon DEF GoesOn
  <2> HIDE DEF x
  <2> QED BY <1>1, <2>1, <2>6
<1> QED BY <1>2, <1>3, <1>4, <1>5, <1>6, <1>7, <1>8, Zenon DEF Next

\* A block the analysis is right about never ends with an exception the loop
\* would not have raised (select and codegen against the promise of
\* LIMITATIONS.md): for every set of bodies Python can have.
THEOREM EndsAsTheLoop == Spec => []RaisesNothingNew
<1>1. Init => Going
  <2> SUFFICES ASSUME Init PROVE Going  OBVIOUS
  <2>1. GoesOn(body, AsFunction(body, StartHeap))  BY StartHeapIs, FreshGoesOn
  <2>2. frame = [c \in Workers |-> AsFunction(body, StartHeap)] /\ outcome = "none"
    BY Zenon DEF Init, Fresh
  <2>3. outcome # "error"  BY <2>2
  <2> QED BY <2>1, <2>2, <2>3, Zenon DEF Going
<1>2. Inv /\ Going /\ [Next]_vars => Going'  BY GoingStep, Zenon
<1>3. Going => RaisesNothingNew  BY Zenon DEF Going, RaisesNothingNew
<1> QED BY <1>1, <1>2, <1>3, Invariance, PTL DEF Spec

-----------------------------------------------------------------------------
(* The fold of contributions *)

LEMMA AppendIs ==
  ASSUME NEW s, IsSeq(s), NEW v
  PROVE  /\ IsSeq(Append(s, v)) /\ Len(s) \in Nat /\ Len(Append(s, v)) = Len(s) + 1
         /\ Append(s, v)[Len(s) + 1] = v
         /\ \A k \in 1 .. Len(s) : Append(s, v)[k] = s[k]
<1>1. PICK S : s \in Seq(S)  BY DEF IsSeq
<1> DEFINE T == S \cup {v}
<1>2. s \in Seq(T)
  <2>1. Len(s) \in Nat /\ s \in [1 .. Len(s) -> S]  BY <1>1
  <2>2. s \in [1 .. Len(s) -> T]  BY <2>1
  <2> QED BY <2>1, <2>2, SeqDef
<1>3. v \in T  OBVIOUS
<1> HIDE DEF T
<1>4. Append(s, v) \in Seq(T)  BY <1>2, <1>3
<1>5. IsSeq(Append(s, v))  BY <1>4, Zenon DEF IsSeq
<1> QED BY <1>2, <1>3, <1>5

LEMMA JoinIs ==
  ASSUME NEW s, IsSeq(s), NEW t, IsSeq(t)
  PROVE  /\ IsSeq(s \o t) /\ Len(s) \in Nat /\ Len(t) \in Nat /\ Len(s \o t) = Len(s) + Len(t)
         /\ \A k \in 1 .. Len(s) : (s \o t)[k] = s[k]
         /\ \A k \in 1 .. Len(t) : (s \o t)[Len(s) + k] = t[k]
<1>1. PICK S : s \in Seq(S)  BY DEF IsSeq
<1>2. PICK T : t \in Seq(T)  BY DEF IsSeq
<1> DEFINE A == S \cup T
<1>3. s \in Seq(A) /\ t \in Seq(A)
  <2>1. Len(s) \in Nat /\ s \in [1 .. Len(s) -> S] /\ Len(t) \in Nat /\ t \in [1 .. Len(t) -> T]
    BY <1>1, <1>2
  <2>2. s \in [1 .. Len(s) -> A] /\ t \in [1 .. Len(t) -> A]  BY <2>1
  <2> QED BY <2>1, <2>2, SeqDef
<1> HIDE DEF A
<1>4. s \o t \in Seq(A)  BY <1>3
<1>5. IsSeq(s \o t)  BY <1>4, Zenon DEF IsSeq
<1> QED BY <1>3, <1>5

LEMMA FoldedRuns ==
  ASSUME NEW op, NEW start, NEW s, Len(s) \in Nat PROVE \E g : FoldsUp(op, start, s, g)
<1> DEFINE L == Len(s)
           So(m, g) == g = [k \in 0 .. m |-> IF k = 0 THEN start ELSE Combine(op, g[k - 1], s[k])]
           Missing == {m \in 0 .. L : ~ \E g : So(m, g)}
           ran == CHOOSE g : So(L, g)
<1>0. L \in Nat  OBVIOUS
<1>a. Folded(op, start, s) = ran[L]  BY Zenon DEF Folded
<1> HIDE DEF L
<1>1. Missing = {}
  <2> SUFFICES ASSUME Missing # {} PROVE FALSE  OBVIOUS
  <2>1. PICK m \in Missing : \A n \in Missing : m <= n
    <3>1. Missing \subseteq 0 .. L  OBVIOUS
    <3> HIDE DEF Missing
    <3>2. Missing \in SUBSET Nat  BY <1>0, <3>1
    <3> QED BY <3>2, LeastNatural
  <2>2. m \in 0 .. L /\ ~ \E g : So(m, g)  BY <2>1
  <2>3. m # 0
    <3>1. So(0, [k \in 0 .. 0 |-> start])
      <4> DEFINE h == [k \in 0 .. 0 |-> start]
      <4>1. \A k \in 0 .. 0 : k = 0  OBVIOUS
      <4>2. \A k \in 0 .. 0 : start = IF k = 0 THEN start ELSE Combine(op, h[k - 1], s[k])
        BY <4>1, Zenon
      <4> QED BY <4>2, Zenon
    <3> QED BY <2>2, <3>1
  <2>4. m - 1 \in 0 .. L /\ m \in 1 .. L /\ ~ (m <= m - 1)  BY <1>0, <2>2, <2>3
  <2>5. PICK r : So(m - 1, r)  BY <2>1, <2>4
  <2> DEFINE next(k) == Combine(op, r[k - 1], s[k])
             h == [k \in 0 .. m |-> IF k = m THEN next(m) ELSE r[k]]
  <2>6. ASSUME NEW k \in 0 .. m PROVE h[k] = IF k = 0 THEN start ELSE Combine(op, h[k - 1], s[k])
    <3>1. CASE k = 0
      <4>1. k # m /\ k \in 0 .. m - 1  BY <2>4, <3>1
      <4>2. h[k] = r[k]  BY <4>1, Zenon
      <4>3. r[k] = start  BY <2>5, <3>1, <4>1, Zenon
      <4> QED BY <3>1, <4>2, <4>3, Zenon
    <3>2. CASE k # 0
      <4>1. k - 1 \in 0 .. m /\ k - 1 # m  BY <2>4, <3>2
      <4>2. h[k - 1] = r[k - 1]  BY <4>1, Zenon
      <4>3. h[k] = next(k)
        <5>1. CASE k = m  BY <5>1, Zenon
        <5>2. CASE k # m
          <6>1. k \in 0 .. m - 1  BY <2>4, <5>2
          <6>2. r[k] = next(k)  BY <2>5, <3>2, <6>1, Zenon
          <6> QED BY <5>2, <6>2, Zenon
        <5> QED BY <5>1, <5>2, Zenon
      <4> QED BY <3>2, <4>2, <4>3, Zenon
    <3> QED BY <3>1, <3>2, Zenon
  <2>7. So(m, h)
    <3>1. h = [k \in 0 .. m |-> h[k]]  BY Zenon
    <3> HIDE DEF h
    <3> QED BY <2>6, <3>1, Zenon
  <2> QED BY <2>2, <2>7, Zenon
<1>2. So(L, ran)
  <2>1. L \in 0 .. L  BY <1>0
  <2>2. \E g : So(L, g)  BY <1>1, <2>1
  <2> QED BY <2>2
<1> HIDE DEF ran
<1>3. \A k \in 1 .. L : k \in 0 .. L /\ k # 0  BY <1>0
<1>4. 0 \in 0 .. L  BY <1>0
<1>5. ran[0] = start  BY <1>2, <1>4, Zenon
<1>6. \A k \in 1 .. L : ran[k] = Combine(op, ran[k - 1], s[k])  BY <1>2, <1>3, Zenon
<1> QED BY <1>a, <1>5, <1>6, Zenon DEF FoldsUp, L

\* A contribution more is combined with what the others come to.
LEMMA FoldedStep ==
  ASSUME NEW op, NEW start, NEW s, IsSeq(s), NEW v
  PROVE  Folded(op, start, Append(s, v)) = Combine(op, Folded(op, start, s), v)
<1> DEFINE t == Append(s, v)
           L == Len(s)
<1>1. L \in Nat /\ Len(t) = L + 1 /\ t[L + 1] = v /\ \A k \in 1 .. L : t[k] = s[k]  BY AppendIs
<1> HIDE DEF t
<1>2. PICK g : FoldsUp(op, start, s, g)  BY <1>1, FoldedRuns
<1>3. Len(t) \in Nat  BY <1>1
<1>4. PICK h : FoldsUp(op, start, t, h)  BY <1>3, FoldedRuns
<1> HIDE DEF L
<1>5. /\ g[0] = start /\ h[0] = start
      /\ \A k \in 1 .. L : g[k] = Combine(op, g[k - 1], s[k])
      /\ \A k \in 1 .. L + 1 : h[k] = Combine(op, h[k - 1], t[k])
      /\ Folded(op, start, s) = g[L] /\ Folded(op, start, t) = h[L + 1]
  BY <1>1, <1>2, <1>4 DEF FoldsUp, L
<1> DEFINE S == {k \in 0 .. L : g[k] = h[k]}
<1>6. 0 \in S  BY <1>1, <1>5
<1>7. ASSUME NEW k \in 1 .. L, k - 1 \in S PROVE k \in S
  <2>1. k \in 1 .. L + 1 /\ k \in 0 .. L /\ g[k - 1] = h[k - 1] /\ t[k] = s[k]  BY <1>1, <1>7
  <2>2. g[k] = h[k]  BY <1>5, <2>1, Zenon
  <2> QED BY <2>1, <2>2
<1> HIDE DEF S
<1>8. L \in S
  <2>1. \A k \in 0 .. L : k \in S  BY <1>1, <1>6, <1>7, UpTo
  <2> QED BY <1>1, <2>1
<1>9. g[L] = h[L]  BY <1>8 DEF S
<1>10. L + 1 \in 1 .. L + 1 /\ (L + 1) - 1 = L  BY <1>1
<1>11. h[L + 1] = Combine(op, h[L], t[L + 1])  BY <1>5, <1>10
<1> QED BY <1>1, <1>5, <1>9, <1>11 DEF t

\* Two stretches of contributions, one after the other.
LEMMA FoldedJoin ==
  ASSUME NEW op, NEW start, NEW s, IsSeq(s), NEW t, IsSeq(t)
  PROVE  Folded(op, start, s \o t) = Folded(op, Folded(op, start, s), t)
<1> DEFINE w == s \o t
           A == Len(s)
           B == Len(t)
<1>1. /\ A \in Nat /\ B \in Nat /\ Len(w) = A + B
      /\ \A k \in 1 .. A : w[k] = s[k]
      /\ \A k \in 1 .. B : w[A + k] = t[k]
  BY JoinIs
<1> HIDE DEF w
<1>2. PICK g : FoldsUp(op, start, s, g)  BY <1>1, FoldedRuns
<1>3. PICK q : FoldsUp(op, g[A], t, q)  BY <1>1, FoldedRuns
<1>4. Len(w) \in Nat  BY <1>1
<1>5. PICK h : FoldsUp(op, start, w, h)  BY <1>4, FoldedRuns
<1> HIDE DEF A, B
<1>6. /\ g[0] = start /\ h[0] = start /\ q[0] = g[A]
      /\ \A k \in 1 .. A : g[k] = Combine(op, g[k - 1], s[k])
      /\ \A k \in 1 .. B : q[k] = Combine(op, q[k - 1], t[k])
      /\ \A k \in 1 .. A + B : h[k] = Combine(op, h[k - 1], w[k])
      /\ Folded(op, start, s) = g[A] /\ Folded(op, g[A], t) = q[B] /\ Folded(op, start, w) = h[A + B]
  BY <1>1, <1>2, <1>3, <1>5 DEF FoldsUp, A, B
<1> DEFINE S == {k \in 0 .. A : g[k] = h[k]}
           T == {k \in 0 .. B : q[k] = h[A + k]}
<1>7. 0 \in S  BY <1>1, <1>6
<1>8. ASSUME NEW k \in 1 .. A, k - 1 \in S PROVE k \in S
  <2>1. k \in 1 .. A + B /\ k \in 0 .. A /\ g[k - 1] = h[k - 1] /\ w[k] = s[k]  BY <1>1, <1>8
  <2>2. g[k] = h[k]  BY <1>6, <2>1, Zenon
  <2> QED BY <2>1, <2>2
<1> HIDE DEF S
<1>9. g[A] = h[A]
  <2>1. \A k \in 0 .. A : k \in S  BY <1>1, <1>7, <1>8, UpTo
  <2>2. A \in S  BY <1>1, <2>1
  <2> QED BY <2>2 DEF S
<1>10. 0 \in T  BY <1>1, <1>6, <1>9
<1>11. ASSUME NEW k \in 1 .. B, k - 1 \in T PROVE k \in T
  <2>1. A + k \in 1 .. A + B /\ (A + k) - 1 = A + (k - 1) /\ k \in 0 .. B /\ q[k - 1] = h[A + (k - 1)] /\ w[A + k] = t[k]
    BY <1>1, <1>11
  <2>2. h[A + k] = Combine(op, h[(A + k) - 1], w[A + k])  BY <1>6, <2>1, Zenon
  <2>3. q[k] = h[A + k]  BY <1>6, <2>1, <2>2
  <2> QED BY <2>1, <2>3
<1> HIDE DEF T
<1>12. q[B] = h[A + B]
  <2>1. \A k \in 0 .. B : k \in T  BY <1>1, <1>10, <1>11, UpTo
  <2>2. B \in T  BY <1>1, <2>1
  <2> QED BY <2>2 DEF T
<1> QED BY <1>6, <1>12 DEF w

-----------------------------------------------------------------------------
(* A chunk beside the loop *)

LEMMA IndexAgrees ==
  ASSUME NEW ix \in Indexes, NEW r, NEW f, ix.form # "whole", ix.form = "lit" \/ f.local[ix.name] = r.local[ix.name]
  PROVE  IndexValue(ix, f) = IndexValue(ix, r)
<1>1. ix.form \in {"var", "less", "div", "mod", "lit"}  BY DEF Indexes
<1>2. CASE ix.form = "lit"  BY <1>2 DEF IndexValue
<1>3. CASE ix.form # "lit"
  <2>1. f.local[ix.name] = r.local[ix.name]  BY <1>3
  <2>2. Head(f.local[ix.name]) = Head(r.local[ix.name])  BY <2>1
  <2> QED BY <1>1, <1>3, <2>2 DEF IndexValue
<1> QED BY <1>2, <1>3

LEMMA UsesAre ==
  ASSUME NEW st \in Statements
  PROVE  /\ st.ix \in Indexes /\ st.base \in Containers /\ st.name \in Names
         /\ \A u \in Range(st.uses) : u.name \in Names \cup Containers /\ u.ix \in Indexes
<1> DEFINE U == [name : Names \cup Containers, ix : Indexes]
<1>1. st.ix \in Indexes /\ st.base \in Containers /\ st.name \in Names /\ st.uses \in Seq(U)
  <2> HIDE DEF U
  <2>1. st \in [kind : {"assign", "aug", "walrus", "move", "opaque", "if", "for", "break", "return"} \cup Writing,
               name : Names, base : Containers, ix : Indexes,
               uses : Seq(U),
               form : {"plain", "left", "right"}, op : {"+", "max"},
               arm : {"top", "then", "else", "loop"}, tag : Int, empty : BOOLEAN]
    BY Zenon DEF Statements, U
  <2> HIDE DEF Indexes, Writing, Names, Containers
  <2> QED BY <2>1
<1>2. \A u \in U : u.name \in Names \cup Containers /\ u.ix \in Indexes
  <2> HIDE DEF Indexes, Names, Containers
  <2> QED OBVIOUS
<1> HIDE DEF U
<1>3. \A n \in DOMAIN st.uses : st.uses[n] \in U  BY <1>1
<1>4. \A u \in Range(st.uses) : u \in U  BY <1>3, Zenon DEF Range
<1> QED BY <1>1, <1>2, <1>4, Zenon

\* The chunk reads what the loop reads.
LEMMA LoadsAgree ==
  ASSUME NEW b, NEW w, World(w), NEW p, NEW r, NEW f, Along(b, w, p, r, f), NEW st, Fits(b, w, p, st),
         NeedsOf(st, w.ops) \subseteq f.bound, st.kind # "for", Divided(b, w, p, r, f, st)
  PROVE  /\ Loaded(b, w.plan, f, st) = Loaded(b, NoPlan, r, st)
         /\ st.ix.form # "whole" => IndexValue(st.ix, f) = IndexValue(st.ix, r)
         /\ AtIndex(b, st.ix) => IndexValue(st.ix, r) = Elem(b, p)
<1> DEFINE e == Elem(b, p)
<1>1. st \in Statements  BY Zenon DEF Fits
<1>2. \A x \in Needs(st) : f.local[x] = r.local[x]
  <2>1. Needs(st) \subseteq f.bound /\ Needs(st) \cap w.ops = {}
    BY Zenon DEF NeedsOf, Fits, NamesFit
  <2>2. \A x \in f.bound \ w.ops : f.local[x] = r.local[x]  BY Zenon DEF Along, Follows
  <2> QED BY <2>1, <2>2
<1>3. HasIndex(b) => f.local["i"] = <<e>> /\ r.local["i"] = <<e>>
  <2>1. \A x \in f.bound \ w.ops : f.local[x] = r.local[x]  BY Zenon DEF Along, Follows
  <2> QED BY <2>1, Zenon DEF Along
<1>4. \A ix \in {st.ix} \cup {u.ix : u \in Range(st.uses)} : ix.form \notin {"whole", "lit"} => ix.name \in Needs(st)
  BY Zenon DEF Needs
<1>5. ASSUME NEW ix \in {st.ix} \cup {u.ix : u \in Range(st.uses)}, ix.form # "whole"
      PROVE  IndexValue(ix, f) = IndexValue(ix, r)
  <2>1. ix \in Indexes
    <3>1. st.ix \in Indexes  BY <1>1, Zenon DEF Statements
    <3>2. \A u \in Range(st.uses) : u.ix \in Indexes  BY <1>1, UsesAre, Zenon
    <3> QED BY <3>1, <3>2
  <2>2. ix.form = "lit" \/ f.local[ix.name] = r.local[ix.name]  BY <1>2, <1>4, <1>5
  <2> QED BY <1>5, <2>1, <2>2, IndexAgrees, Zenon
<1>6. ASSUME NEW ix, AtIndex(b, ix) PROVE IndexValue(ix, r) = e /\ IndexValue(ix, f) = e
  <2>1. ix.form = "var" /\ ix.name = "i" /\ HasIndex(b)  BY <1>6, Zenon DEF AtIndex
  <2>2. r.local[ix.name] = <<e>> /\ f.local[ix.name] = <<e>>  BY <1>3, <2>1
  <2> HIDE DEF e
  <2>3. Head(r.local[ix.name]) = e /\ Head(f.local[ix.name]) = e  BY <2>2
  <2> QED BY <2>1, <2>3 DEF IndexValue
<1>7. ASSUME NEW n \in DOMAIN st.uses PROVE Load(b, w.plan, f, st.uses[n]) = Load(b, NoPlan, r, st.uses[n])
  <2> DEFINE u == st.uses[n]
  <2>1. u \in Range(st.uses)  BY DEF Range
  <2>2. u.name \in Names \cup Containers /\ u.ix \in Indexes  BY <1>1, <2>1, UsesAre, Zenon
  <2>3. CASE u.name \in Names
    <3>1. u.name \in Needs(st)  BY <2>1, <2>3, Zenon DEF Needs
    <3>2. f.local[u.name] = r.local[u.name]  BY <1>2, <3>1
    <3> QED BY <2>3, <3>2, Zenon DEF Load
  <2>4. CASE u.name \notin Names
    <3> DEFINE c == u.name
    <3>1. c \in Containers  BY <2>2, <2>4
    <3>2. NoPlan[c] = "none"  BY <3>1 DEF NoPlan
    <3>3. CASE c \in w.whole
      <4>1. f.heap[c] = r.heap[c]  BY <3>3, Zenon DEF Along, Follows
      <4>2. w.plan[c] = "none"  BY <3>3, Zenon DEF World
      <4>3. CASE u.ix.form = "whole"
        <5>1. [m \in DOMAIN InOrder |-> f.heap[c][InOrder[m]]] = [m \in DOMAIN InOrder |-> r.heap[c][InOrder[m]]]
          BY <4>1, Zenon
        <5> QED BY <2>4, <4>3, <5>1, Zenon DEF Load
      <4>4. CASE u.ix.form # "whole"
        <5>1. IndexValue(u.ix, f) = IndexValue(u.ix, r)  BY <1>5, <2>1, <4>4
        <5>2. Load(b, w.plan, f, u) = f.heap[c][IndexValue(u.ix, f)] /\ Load(b, NoPlan, r, u) = r.heap[c][IndexValue(u.ix, r)]
          <6> HIDE DEF u
          <6>1. w.plan[u.name] = "none" /\ NoPlan[u.name] = "none" /\ u.name \notin Names /\ u.ix.form # "whole"
            BY <2>4, <3>2, <4>2, <4>4
          <6> QED BY <6>1 DEF Load
        <5> QED BY <4>1, <5>1, <5>2, Zenon
      <4> QED BY <4>3, <4>4
    <3>4. CASE c \notin w.whole /\ ~AtQuotient(b, u.ix)
      <4>1. AtIndex(b, u.ix) /\ w.plan[c] \in {"none", "cell"} /\ <<c, e>> \notin w.foreign /\ e \in Keys
        BY <2>1, <3>1, <3>4, Zenon DEF Fits, ReadsFit
      <4>2. IndexValue(u.ix, r) = e /\ IndexValue(u.ix, f) = e /\ u.ix.form = "var"
        BY <1>6, <4>1, Zenon DEF AtIndex
      <4>3. View(f, c, e) = r.heap[c][e]  BY <3>1, <4>1, Zenon DEF Along, Follows
      <4>4. w.plan[c] = "none" => f.slab[c][e] = <<>>  BY <3>1, <4>1, Zenon DEF Along, Follows
      <4>5. w.plan[c] = "cell" => f.cell[c] = r.heap[c][e]  BY <3>1, <4>1, Zenon DEF Along
      <4>6. Load(b, NoPlan, r, u) = r.heap[c][e]
        <5> HIDE DEF u, e
        <5>1. NoPlan[u.name] = "none" /\ u.name \notin Names /\ u.ix.form = "var"
          BY <2>4, <3>2, <4>2
        <5> QED BY <4>2, <5>1 DEF Load
      <4>7. CASE w.plan[c] = "cell"
        <5>1. Load(b, w.plan, f, u) = f.cell[c]
          <6> HIDE DEF u, e
          <6>1. w.plan[u.name] = "cell" /\ u.name \notin Names /\ u.ix.form = "var" /\ AtIndex(b, u.ix)
            BY <2>4, <4>1, <4>2, <4>7
          <6> QED BY <6>1 DEF Load
        <5> QED BY <4>5, <4>6, <4>7, <5>1
      <4>8. CASE w.plan[c] = "none"
        <5>1. Load(b, w.plan, f, u) = f.heap[c][e]
          <6> HIDE DEF u, e
          <6>1. w.plan[u.name] = "none" /\ u.name \notin Names /\ u.ix.form = "var"
            BY <2>4, <4>2, <4>8
          <6> QED BY <4>2, <6>1 DEF Load
        <5>2. View(f, c, e) = f.heap[c][e]  BY <4>4, <4>8, Zenon DEF View
        <5> QED BY <4>3, <4>6, <5>1, <5>2
      <4> QED BY <4>1, <4>7, <4>8
    <3>5. CASE c \notin w.whole /\ AtQuotient(b, u.ix)
      <4> DEFINE key == e \div u.ix.by
      <4>1. f.heap[c][key] = r.heap[c][key]  BY <2>1, <3>1, <3>5, Zenon DEF Divided
      <4>2. u.ix.form = "div" /\ u.ix.name = "i" /\ HasIndex(b) /\ ~AtIndex(b, u.ix)
        BY <3>5 DEF AtQuotient, AtIndex
      <4>3. IndexValue(u.ix, r) = key /\ IndexValue(u.ix, f) = key
        <5>1. r.local[u.ix.name] = <<e>> /\ f.local[u.ix.name] = <<e>>  BY <1>3, <4>2
        <5> HIDE DEF e, u
        <5>2. Head(r.local[u.ix.name]) = e /\ Head(f.local[u.ix.name]) = e  BY <5>1
        <5> QED BY <4>2, <5>2 DEF IndexValue
      <4> HIDE DEF e, key
      <4>4. Load(b, w.plan, f, u) = f.heap[c][IndexValue(u.ix, f)] /\ Load(b, NoPlan, r, u) = r.heap[c][IndexValue(u.ix, r)]
        <5> HIDE DEF u
        <5>1. u.name \notin Names /\ u.ix.form = "div" /\ ~AtIndex(b, u.ix)  BY <2>4, <4>2
        <5> QED BY <5>1 DEF Load
      <4> QED BY <4>1, <4>3, <4>4, Zenon
    <3> QED BY <3>3, <3>4, <3>5
  <2> QED BY <2>3, <2>4
<1>8. Loaded(b, w.plan, f, st) = Loaded(b, NoPlan, r, st)
  <2>1. [n \in DOMAIN st.uses |-> Load(b, w.plan, f, st.uses[n])] = [n \in DOMAIN st.uses |-> Load(b, NoPlan, r, st.uses[n])]
    BY <1>7, Zenon
  <2> QED BY <2>1, Zenon DEF Loaded
<1> QED BY <1>5, <1>6, <1>8, Zenon

LEMMA LoopStores ==
  ASSUME NEW r, FrameOK(r), NEW c \in Containers, NEW key, NEW z, NEW g, LoopStored(r, g, c, key, z)
  PROVE  HasStored(r, g, c, key, z)
<1> DEFINE H == [r.heap EXCEPT ![c][key] = z]
<1>3. HeapOK(r.heap)  BY Zenon DEF FrameOK
<1>4. /\ HeapOK(H) /\ (key \in Keys => H[c][key] = z) /\ \A k \in Keys : k # key => H[c][k] = r.heap[c][k]
      /\ \A d \in Containers \ {c} : H[d] = r.heap[d]
      /\ H[c] = [r.heap[c] EXCEPT ![key] = z]
  BY <1>3 DEF HeapOK
<1>5. \A d \in Containers, k \in Keys : <<d, k>> # <<c, key>> => H[d][k] = r.heap[d][k]
  BY <1>3 DEF HeapOK
<1>6. /\ g.heap = H /\ g.local = r.local /\ g.bound = r.bound
      /\ g.truth = r.truth /\ g.ok = r.ok /\ DOMAIN g = Fields
  BY Zenon DEF LoopStored
<1> HIDE DEF H
<1>7. FrameOK(g)  BY <1>4, <1>6 DEF FrameOK, Fields
<1>8. /\ key \in Keys => g.heap[c][key] = z
      /\ \A k \in Keys : k # key => g.heap[c][k] = r.heap[c][k]
      /\ \A d \in Containers \ {c} : g.heap[d] = r.heap[d]
      /\ g.heap[c] = [r.heap[c] EXCEPT ![key] = z]
  BY <1>4, <1>6
<1>9. \A d \in Containers, k \in Keys : <<d, k>> # <<c, key>> => g.heap[d][k] = r.heap[d][k]
  BY <1>5, <1>6
<1> QED BY <1>6, <1>7, <1>8, <1>9 DEF HasStored

LEMMA WriteAgrees ==
  ASSUME NEW b, NEW w, World(w), NEW p, NEW r, NEW f, Along(b, w, p, r, f), NEW c \in Containers, NEW key, NEW z,
         NEW g, LoopStored(r, g, c, key, z), NEW h, Full(h), Beside(f, h), Holds(b, w, p, f, h, c, key, z)
  PROVE  Along(b, w, p, g, h)
<1> DEFINE e == Elem(b, p)
<1>1. Follows(w, r, f) /\ FrameOK(r)  BY Zenon DEF Along, Follows
<1>0. HasStored(r, g, c, key, z)  BY <1>1, LoopStores, Zenon
<1>2. /\ FrameOK(g) /\ g.local = r.local /\ g.bound = r.bound /\ g.truth = r.truth /\ g.ok = r.ok
      /\ key \in Keys => g.heap[c][key] = z
      /\ \A k \in Keys : k # key => g.heap[c][k] = r.heap[c][k]
      /\ \A d \in Containers \ {c} : g.heap[d] = r.heap[d]
      /\ g.heap[c] = [r.heap[c] EXCEPT ![key] = z]
  BY <1>0, Zenon DEF HasStored
<1>3. /\ h.local = f.local /\ h.bound = f.bound /\ h.ok = f.ok /\ h.truth = f.truth /\ h.site = f.site
  BY Zenon DEF Beside
<1>8. g.ok /\ h.ok /\ g.bound = Names  BY <1>1, <1>2, <1>3, Zenon DEF Follows
<1>9. /\ \A x \in h.bound \ w.ops : h.local[x] = g.local[x]
      /\ \A n \in w.ops : g.local[n] = Folded(w.by[n], w.start[n], h.site[n])
  <2>1. /\ \A x \in f.bound \ w.ops : f.local[x] = r.local[x]
        /\ \A n \in w.ops : r.local[n] = Folded(w.by[n], w.start[n], f.site[n])
    BY <1>1, Zenon DEF Follows
  <2> QED BY <1>2, <1>3, <2>1
<1>10. ASSUME NEW d \in w.whole PROVE h.heap[d] = g.heap[d]
  <2>1. f.heap[d] = r.heap[d] /\ d \in Containers  BY <1>1, Zenon DEF Follows, World
  <2>2. CASE d = c
    <3>1. h.heap[c] = [f.heap[c] EXCEPT ![key] = z]
      <4>1. c \in w.whole  BY <2>2, Zenon
      <4> QED BY <4>1, Zenon DEF Holds
    <3>2. f.heap[c] = r.heap[c]  BY <2>1, <2>2, Zenon
    <3>3. h.heap[c] = g.heap[c]  BY <1>2, <3>1, <3>2, Zenon
    <3> QED BY <2>2, <3>3, Zenon
  <2>3. CASE d # c
    <3>1. g.heap[d] = r.heap[d] /\ h.heap[d] = f.heap[d]  BY <1>2, <2>1, <2>3 DEF Holds
    <3> QED BY <2>1, <3>1
  <2> QED BY <2>2, <2>3
<1>11. ASSUME NEW d \in Containers, NEW k \in Keys, <<d, k>> \notin w.foreign PROVE View(h, d, k) = g.heap[d][k]
  <2>1. View(f, d, k) = r.heap[d][k]  BY <1>1, <1>11, Zenon DEF Follows
  <2>2. CASE d = c /\ k = key
    <3>1. View(h, c, key) = z  BY <1>11, <2>2 DEF Holds
    <3> QED BY <1>2, <1>11, <2>2, <3>1
  <2>3. CASE d # c \/ k # key
    <3>1. h.heap[d][k] = f.heap[d][k] /\ h.slab[d][k] = f.slab[d][k] /\ g.heap[d][k] = r.heap[d][k]
      <4>1. CASE d = c  BY <1>2, <2>3, <4>1 DEF Holds
      <4>2. CASE d # c  BY <1>2, <4>2 DEF Holds
      <4> QED BY <4>1, <4>2
    <3>2. View(h, d, k) = View(f, d, k)  BY <3>1, Zenon DEF View
    <3> QED BY <2>1, <3>1, <3>2
  <2> QED BY <2>2, <2>3
<1>12. ASSUME NEW d \in Containers, w.plan[d] = "none", NEW k \in Keys PROVE h.slab[d][k] = <<>>
  <2>1. f.slab[d][k] = <<>>  BY <1>1, <1>12, Zenon DEF Follows
  <2>2. h.slab[d] = f.slab[d]  BY <1>12 DEF Holds
  <2> QED BY <2>1, <2>2
<1>13. Follows(w, g, h)  BY <1>2, <1>3, <1>8, <1>9, <1>10, <1>11, <1>12, Zenon DEF Follows
<1>14. h.truth = g.truth /\ (HasIndex(b) => "i" \in h.bound \ w.ops /\ g.local["i"] = <<e>>)
  BY <1>2, <1>3, Zenon DEF Along
<1>15. ASSUME NEW d \in Containers, w.plan[d] = "cell", <<d, e>> \notin w.foreign PROVE h.cell[d] = g.heap[d][e]
  <2>1. f.cell[d] = r.heap[d][e]  BY <1>15, Zenon DEF Along
  <2>2. CASE d = c
    <3>1. key = e /\ key \in Keys  BY <1>15, <2>2 DEF Holds
    <3>2. h.cell[c] = z  BY <1>15, <2>2, <3>1 DEF Holds
    <3> QED BY <1>2, <2>2, <3>1, <3>2
  <2>3. CASE d # c
    <3>1. h.cell[d] = f.cell[d] /\ g.heap[d] = r.heap[d]  BY <1>2, <2>3 DEF Holds
    <3> QED BY <2>1, <3>1
  <2> QED BY <2>2, <2>3
<1> QED BY <1>13, <1>14, <1>15, Zenon DEF Along

\* A value y goes into the slab, and x into the cell.
LEMMA InSlab ==
  ASSUME NEW b, NEW w, World(w), NEW p, NEW r, NEW f, Along(b, w, p, r, f), NEW c \in Containers, NEW key, NEW z, NEW y, NEW x,
         w.plan[c] # "none", w.plan[c] = "cell" => key = Elem(b, p) /\ key \in Keys /\ (<<c, key>> \notin w.foreign => x = z),
         <<c, key>> \notin w.foreign /\ key \in Keys => y = z,
         NEW g, LoopStored(r, g, c, key, z), NEW h, SlabStored(w, f, h, c, key, y, x)
  PROVE  Along(b, w, p, g, h) /\ Marks(w, c, key, r, f, g, h)
<1> DEFINE S == [f.slab EXCEPT ![c][key] = <<y>>]
<1>1. Full(f) /\ FrameOK(r)  BY Zenon DEF Along, Follows
<1>3. HeapOK(f.slab)  BY <1>1, Zenon DEF Full
<1>4. /\ HeapOK(S) /\ (key \in Keys => S[c][key] = <<y>>) /\ (\A k \in Keys : k # key => S[c][k] = f.slab[c][k])
      /\ \A d \in Containers \ {c} : S[d] = f.slab[d]
  BY <1>3 DEF HeapOK
<1>5. /\ DOMAIN h.cell = Containers /\ (w.plan[c] = "cell" => h.cell[c] = x)
      /\ \A d \in Containers \ {c} : h.cell[d] = f.cell[d]
  BY Zenon DEF SlabStored, CellSet
<1>7. /\ h.heap = f.heap /\ h.local = f.local /\ h.bound = f.bound /\ h.slab = S
      /\ h.site = f.site /\ h.truth = f.truth /\ h.ok = f.ok /\ DOMAIN h = Fields
  BY Zenon DEF SlabStored, Beside
<1> HIDE DEF S
<1>8. Full(h)  BY <1>1, <1>4, <1>5, <1>7, Zenon DEF Full, FrameOK, Fields
<1>9. Beside(f, h)  BY Zenon DEF SlabStored
<1>10. <<y>> # <<>> /\ <<y>>[1] = y  OBVIOUS
<1>11. Holds(b, w, p, f, h, c, key, z)
  <2>1. \A d \in Containers \ {c} : h.heap[d] = f.heap[d] /\ h.slab[d] = f.slab[d] /\ h.cell[d] = f.cell[d]
    BY <1>4, <1>5, <1>7
  <2>2. \A k \in Keys : k # key => h.heap[c][k] = f.heap[c][k] /\ h.slab[c][k] = f.slab[c][k]
    BY <1>4, <1>7
  <2>3. ASSUME <<c, key>> \notin w.foreign, key \in Keys PROVE View(h, c, key) = z
    <3>1. h.slab[c][key] = <<y>> /\ y = z  BY <1>4, <1>7, <2>3, Zenon
    <3>2. View(h, c, key) = <<y>>[1]  BY <1>10, <3>1, Zenon DEF View
    <3> QED BY <1>10, <3>1, <3>2, Zenon
  <2>4. w.plan[c] = "cell" => key = Elem(b, p) /\ key \in Keys /\ (<<c, key>> \notin w.foreign => h.cell[c] = z)
    BY <1>5, <1>7
  <2>5. c \notin w.whole  BY Zenon DEF World
  <2> QED BY <2>1, <2>2, <2>3, <2>4, <2>5, Zenon DEF Holds
<1>12. Along(b, w, p, g, h)  BY <1>8, <1>9, <1>11, WriteAgrees
<1>13. Marks(w, c, key, r, f, g, h)
  <2>2. \A d \in Containers, k \in Keys : <<d, k>> # <<c, key>> => g.heap[d][k] = r.heap[d][k]
    <3>1. HasStored(r, g, c, key, z)  BY <1>1, LoopStores, Zenon
    <3> QED BY <3>1, Zenon DEF HasStored
  <2>3. \A d \in Containers, k \in Keys : <<d, k>> # <<c, key>> => h.heap[d][k] = f.heap[d][k] /\ h.slab[d][k] = f.slab[d][k]
    BY <1>4, <1>7
  <2>4. key \in Keys => h.slab[c][key] # <<>>  BY <1>4, <1>7, <1>10, Zenon
  <2>5. ASSUME NEW d \in Containers, NEW k \in Keys, f.slab[d][k] # <<>> PROVE h.slab[d][k] # <<>>
    <3>1. CASE d = c /\ k = key  BY <2>4, <3>1
    <3>2. CASE ~ (d = c /\ k = key)
      <4>1. <<d, k>> # <<c, key>>  BY <3>2
      <4> QED BY <2>3, <2>5, <4>1
    <3> QED BY <3>1, <3>2
  <2> QED BY <2>2, <2>3, <2>4, <2>5, Zenon DEF Marks
<1> QED BY <1>12, <1>13

LEMMA InHeap ==
  ASSUME NEW b, NEW w, World(w), NEW p, NEW r, NEW f, Along(b, w, p, r, f), NEW c \in Containers, NEW key, NEW z, NEW y,
         NEW x, HeapMay(b, w, p, f, c, key, z, y, x), NEW g, LoopStored(r, g, c, key, z), NEW h, HeapStored(w, f, h, c, key, y, x)
  PROVE  Along(b, w, p, g, h) /\ Marks(w, c, key, r, f, g, h)
<1> DEFINE S == [f.heap EXCEPT ![c][key] = y]
<1>0. /\ w.plan[c] \in {"none", "cell"}
      /\ w.plan[c] = "cell" => key = Elem(b, p) /\ key \in Keys /\ f.slab[c][key] = <<>> /\ (<<c, key>> \notin w.foreign => x = z)
      /\ <<c, key>> \notin w.foreign /\ key \in Keys => y = z
      /\ c \in w.whole => y = z
  BY Zenon DEF HeapMay
<1>1. Full(f) /\ FrameOK(r)  BY Zenon DEF Along, Follows
<1>3. HeapOK(f.heap)  BY <1>1, Zenon DEF Full, FrameOK
<1>4. /\ HeapOK(S) /\ (key \in Keys => S[c][key] = y) /\ (\A k \in Keys : k # key => S[c][k] = f.heap[c][k])
      /\ \A d \in Containers \ {c} : S[d] = f.heap[d]
      /\ S[c] = [f.heap[c] EXCEPT ![key] = y]
  BY <1>3 DEF HeapOK
<1>5. /\ DOMAIN h.cell = Containers /\ (w.plan[c] = "cell" => h.cell[c] = x)
      /\ \A d \in Containers \ {c} : h.cell[d] = f.cell[d]
  BY Zenon DEF HeapStored, CellSet
<1>7. /\ h.heap = S /\ h.local = f.local /\ h.bound = f.bound /\ h.slab = f.slab
      /\ h.site = f.site /\ h.truth = f.truth /\ h.ok = f.ok /\ DOMAIN h = Fields
  BY Zenon DEF HeapStored, Beside
<1> HIDE DEF S
<1>8. Full(h)  BY <1>1, <1>4, <1>5, <1>7, Zenon DEF Full, FrameOK, Fields
<1>9. Beside(f, h)  BY Zenon DEF HeapStored
<1>10. Holds(b, w, p, f, h, c, key, z)
  <2>1. \A d \in Containers \ {c} : h.heap[d] = f.heap[d] /\ h.slab[d] = f.slab[d] /\ h.cell[d] = f.cell[d]
    BY <1>4, <1>5, <1>7
  <2>2. \A k \in Keys : k # key => h.heap[c][k] = f.heap[c][k] /\ h.slab[c][k] = f.slab[c][k]
    BY <1>4, <1>7
  <2>3. ASSUME <<c, key>> \notin w.foreign, key \in Keys PROVE View(h, c, key) = z
    <3>1. h.slab[c][key] = <<>>
      <4>1. w.plan[c] = "none" => \A k \in Keys : f.slab[c][k] = <<>>  BY Zenon DEF Along, Follows
      <4> QED BY <1>0, <1>7, <2>3, <4>1
    <3>2. h.heap[c][key] = y  BY <1>4, <1>7, <2>3
    <3> QED BY <1>0, <2>3, <3>1, <3>2 DEF View
  <2>4. w.plan[c] = "cell" => key = Elem(b, p) /\ key \in Keys /\ (<<c, key>> \notin w.foreign => h.cell[c] = z)
    BY <1>0, <1>5, <1>7
  <2>5. c \in w.whole => h.heap[c] = [f.heap[c] EXCEPT ![key] = z]  BY <1>0, <1>4, <1>7
  <2>6. w.plan[c] = "none" => h.slab[c] = f.slab[c]  BY <1>7
  <2> QED BY <2>1, <2>2, <2>3, <2>4, <2>5, <2>6, Zenon DEF Holds
<1>12. Along(b, w, p, g, h)  BY <1>8, <1>9, <1>10, WriteAgrees
<1>13. Marks(w, c, key, r, f, g, h)
  <2>2. \A d \in Containers, k \in Keys : <<d, k>> # <<c, key>> => g.heap[d][k] = r.heap[d][k]
    <3>1. HasStored(r, g, c, key, z)  BY <1>1, LoopStores, Zenon
    <3> QED BY <3>1, Zenon DEF HasStored
  <2>3. \A d \in Containers, k \in Keys : <<d, k>> # <<c, key>> => h.heap[d][k] = f.heap[d][k] /\ h.slab[d][k] = f.slab[d][k]
    BY <1>4, <1>7
  <2>4. w.plan[c] # "dict" /\ \A d \in Containers, k \in Keys : f.slab[d][k] # <<>> => h.slab[d][k] # <<>>
    BY <1>0, <1>7
  <2> QED BY <2>2, <2>3, <2>4, Zenon DEF Marks
<1> QED BY <1>12, <1>13

-----------------------------------------------------------------------------
(* A statement in both *)

\* A name gets a value in both.
LEMMA BindAgrees ==
  ASSUME NEW b, NEW w, World(w), NEW p, NEW r, NEW f, Along(b, w, p, r, f), NEW n \in Names, n \notin DomainNames(b), n \notin w.ops,
         NEW v
  PROVE  Along(b, w, p, Bind(r, n, v), Bind(f, n, v)) /\ KeptHeaps(r, f, Bind(r, n, v), Bind(f, n, v))
<1> DEFINE g == Bind(r, n, v)
           h == Bind(f, n, v)
<1>1. Follows(w, r, f) /\ FrameOK(r) /\ Full(f) /\ FrameOK(f)  BY Zenon DEF Along, Follows, Full
<1>2. DOMAIN f = Fields /\ DOMAIN r = Fields /\ DOMAIN f.local = Names /\ DOMAIN r.local = Names
  BY <1>1, Zenon DEF FrameOK, Fields
<1>3. /\ h.heap = f.heap /\ h.local = [f.local EXCEPT ![n] = v] /\ h.bound = f.bound \cup {n} /\ h.cell = f.cell
      /\ h.slab = f.slab /\ h.site = f.site /\ h.truth = f.truth /\ h.ok = f.ok /\ DOMAIN h = DOMAIN f
  BY <1>2 DEF Bind, Fields
<1>4. /\ g.heap = r.heap /\ g.local = [r.local EXCEPT ![n] = v] /\ g.bound = r.bound \cup {n}
      /\ g.truth = r.truth /\ g.ok = r.ok /\ DOMAIN g = DOMAIN r
  BY <1>2 DEF Bind, Fields
<1> HIDE DEF g, h
<1>5. /\ h.local[n] = v /\ g.local[n] = v /\ DOMAIN h.local = Names /\ DOMAIN g.local = Names
      /\ \A x \in Names \ {n} : h.local[x] = f.local[x] /\ g.local[x] = r.local[x]
  BY <1>2, <1>3, <1>4
<1>6. FrameOK(g) /\ Full(h)  BY <1>1, <1>3, <1>4, <1>5, Zenon DEF FrameOK, Full
<1>7. g.ok /\ h.ok /\ g.bound = Names /\ r.bound = Names  BY <1>1, <1>3, <1>4 DEF Follows
<1>8. \A x \in h.bound \ w.ops : h.local[x] = g.local[x]
  <2> SUFFICES ASSUME NEW x \in h.bound \ w.ops PROVE h.local[x] = g.local[x]  OBVIOUS
  <2>1. CASE x = n  BY <1>5, <2>1
  <2>2. CASE x # n
    <3>1. x \in f.bound \ w.ops  BY <1>3, <2>2
    <3>2. f.local[x] = r.local[x]  BY <1>1, <3>1, Zenon DEF Follows
    <3>3. CASE x \in Names  BY <1>5, <2>2, <3>2, <3>3
    <3>4. CASE x \notin Names  BY <1>3, <1>4, <1>2, <2>2, <3>2, <3>4
    <3> QED BY <3>3, <3>4
  <2> QED BY <2>1, <2>2
<1>9. \A m \in w.ops : g.local[m] = Folded(w.by[m], w.start[m], h.site[m])
  <2> SUFFICES ASSUME NEW m \in w.ops PROVE g.local[m] = Folded(w.by[m], w.start[m], h.site[m])
    OBVIOUS
  <2>1. m \in Names \ {n}  BY DEF World
  <2>2. g.local[m] = r.local[m]  BY <1>5, <2>1
  <2>3. r.local[m] = Folded(w.by[m], w.start[m], f.site[m])  BY <1>1, Zenon DEF Follows
  <2> QED BY <1>3, <2>2, <2>3, Zenon
<1>10. \A c, k : View(h, c, k) = View(f, c, k)  BY <1>3, Zenon DEF View
<1>11. Follows(w, g, h)
  <2>1. /\ \A c \in w.whole : f.heap[c] = r.heap[c]
        /\ \A c \in Containers, k \in Keys : <<c, k>> \notin w.foreign => View(f, c, k) = r.heap[c][k]
        /\ \A c \in Containers : w.plan[c] = "none" => \A k \in Keys : f.slab[c][k] = <<>>
    BY <1>1, Zenon DEF Follows
  <2>2. /\ \A c \in w.whole : h.heap[c] = g.heap[c]
        /\ \A c \in Containers, k \in Keys : <<c, k>> \notin w.foreign => View(h, c, k) = g.heap[c][k]
        /\ \A c \in Containers : w.plan[c] = "none" => \A k \in Keys : h.slab[c][k] = <<>>
    BY <1>3, <1>4, <1>10, <2>1
  <2> QED BY <1>6, <1>7, <1>8, <1>9, <2>2, Zenon DEF Follows
<1>12. HasIndex(b) => "i" \in h.bound \ w.ops /\ g.local["i"] = <<Elem(b, p)>>
  <2> SUFFICES ASSUME HasIndex(b) PROVE "i" \in h.bound \ w.ops /\ g.local["i"] = <<Elem(b, p)>>
    OBVIOUS
  <2>1. "i" \in f.bound \ w.ops /\ r.local["i"] = <<Elem(b, p)>>  BY Zenon DEF Along
  <2>2. "i" # n /\ "i" \in Names  BY DEF DomainNames, Names
  <2>3. g.local["i"] = r.local["i"]  BY <1>5, <2>2
  <2> QED BY <1>3, <2>1, <2>3
<1>13. h.truth = g.truth /\ \A c \in Containers : w.plan[c] = "cell" /\ <<c, Elem(b, p)>> \notin w.foreign => h.cell[c] = g.heap[c][Elem(b, p)]
  <2>1. f.truth = r.truth /\ \A c \in Containers : w.plan[c] = "cell" /\ <<c, Elem(b, p)>> \notin w.foreign => f.cell[c] = r.heap[c][Elem(b, p)]
    BY Zenon DEF Along
  <2> QED BY <1>3, <1>4, <2>1, Zenon
<1>14. Along(b, w, p, g, h)  BY <1>11, <1>12, <1>13, Zenon DEF Along
<1>15. KeptHeaps(r, f, g, h)  BY <1>3, <1>4, Zenon DEF KeptHeaps
<1> QED BY <1>14, <1>15 DEF g, h

LEMMA RunWrites ==
  ASSUME NEW b, NEW plan, NEW ops, NEW p, NEW f, NEW st \in Statements, st.kind \in Writing,
         f.ok, ~Skips(f, st), NeedsOf(st, ops) \subseteq f.bound
  PROVE  HasWritten(b, plan, p, f, st, Run(b, plan, ops, p, f, st))
<1>1. st.kind \in {"store", "augstore", "nested", "augnested", "mutate"}  BY DEF Writing
<1>2. ~Updates(st)  BY <1>1 DEF Updates
<1> QED BY <1>1, <1>2 DEF Run, Value, Stores, HasWritten

LEMMA InPlaceRuns ==
  ASSUME NEW b, NEW plan, NEW ops, NEW p, NEW f, FrameOK(f), NEW st \in Statements, st.kind \in Writing, plan[st.base] = "none",
         f.ok, ~Skips(f, st), NeedsOf(st, ops) \subseteq f.bound
  PROVE  LET key == IndexValue(st.ix, f)
         IN  WritesInPlace(f, Run(b, plan, ops, p, f, st), st.base, key, Anew(st, f.heap[st.base][key], Value(b, plan, f, st)))
<1> DEFINE c == st.base
           key == IndexValue(st.ix, f)
           v == Value(b, plan, f, st)
           g == Run(b, plan, ops, p, f, st)
           z == Anew(st, f.heap[c][key], v)
<1>0. DOMAIN f = Fields  BY Zenon DEF FrameOK, Fields
<1>00. \A x : LET q == [f EXCEPT !.heap[c][key] = x] IN WritesInPlace(f, q, c, key, x)
  BY <1>0 DEF WritesInPlace, Fields
<1>01. HasWritten(b, plan, p, f, st, g)  BY RunWrites, Zenon
<1>1. CASE Stores(st)
  <2>1. g = Put(b, plan, f, st, p, v) /\ z = v  BY <1>1, <1>01, Zenon DEF Anew, HasWritten
  <2>2. Put(b, plan, f, st, p, v) = [f EXCEPT !.heap[c][key] = v]  BY DEF Put
  <2> HIDE DEF g, z, v, key, c
  <2> QED BY <1>00, <2>1, <2>2, Zenon DEF g, z, v, key, c
<1>2. CASE st.kind = "augstore"
  <2>0. ~Stores(st)  BY <1>2 DEF Stores
  <2>1. g = Put(b, plan, f, st, p, Old(plan, f, st) \o v) /\ z = f.heap[c][key] \o v
    BY <1>2, <2>0, <1>01, Zenon DEF Anew, HasWritten
  <2>2. Old(plan, f, st) = f.heap[c][key]  BY DEF Old
  <2>3. \A x : Put(b, plan, f, st, p, x) = [f EXCEPT !.heap[c][key] = x]  BY DEF Put
  <2>4. g = [f EXCEPT !.heap[c][key] = z]  BY <2>1, <2>2, <2>3, Zenon
  <2> HIDE DEF g, z, v, key, c
  <2> QED BY <1>00, <2>4, Zenon DEF g, z, v, key, c
<1>3. CASE st.kind = "augnested"
  <2>0. ~Stores(st)  BY <1>3 DEF Stores
  <2>1. g = AddNested(plan, f, st, v) /\ z = f.heap[c][key] \o v
    BY <1>3, <2>0, <1>01, Zenon DEF Anew, HasWritten
  <2> HIDE DEF v, z, g
  <2>2. AddNested(plan, f, st, v) = [f EXCEPT !.heap[c][key] = @ \o v]  BY DEF AddNested
  <2>3. [f EXCEPT !.heap[c][key] = @ \o v] = [f EXCEPT !.heap[c][key] = f.heap[c][key] \o v]
    OBVIOUS
  <2>4. g = [f EXCEPT !.heap[c][key] = z]  BY <2>1, <2>2, <2>3, Zenon
  <2> QED BY <1>00, <2>4, Zenon DEF g, z, v, key, c
<1>4. CASE st.kind = "mutate"
  <2>0. ~Stores(st)  BY <1>4 DEF Stores
  <2>1. g = Mutate(b, plan, f, st, p, v) /\ z = f.heap[c][key] \o v
    BY <1>4, <2>0, <1>01, Zenon DEF Anew, HasWritten
  <2> HIDE DEF v, z, g
  <2>2. Mutate(b, plan, f, st, p, v) = [f EXCEPT !.heap[c][key] = f.heap[c][key] \o v, !.cell[c] = @]
    BY DEF Mutate
  <2>3. \A x : LET q == [f EXCEPT !.heap[c][key] = x, !.cell[c] = @] IN WritesInPlace(f, q, c, key, x)
    BY <1>0 DEF WritesInPlace, Fields
  <2>4. g = [f EXCEPT !.heap[c][key] = z, !.cell[c] = @]  BY <2>1, <2>2, Zenon
  <2> QED BY <2>3, <2>4, Zenon DEF g, z, v, key, c
<1>5. Stores(st) \/ st.kind = "augstore" \/ st.kind = "augnested" \/ st.kind = "mutate"
  BY DEF Stores, Writing
<1> QED BY <1>1, <1>2, <1>3, <1>4, <1>5, Zenon

\* A statement that writes does the same in both.
LEMMA WritesAgree ==
  ASSUME NEW b, NEW w, World(w), NEW p, NEW r, NEW f, Along(b, w, p, r, f), NEW st, Fits(b, w, p, st),
         st.kind \in Writing, ~Skips(r, st), NeedsOf(st, w.ops) \subseteq f.bound, Divided(b, w, p, r, f, st)
  PROVE  Agrees(b, w, p, st, r, f, Run(b, NoPlan, {}, p, r, st), Run(b, w.plan, w.ops, p, f, st))
<1> DEFINE c == st.base
           key == IndexValue(st.ix, r)
           e == Elem(b, p)
           v == Value(b, NoPlan, r, st)
           z == Anew(st, r.heap[c][key], v)
           g == Run(b, NoPlan, {}, p, r, st)
           h == Run(b, w.plan, w.ops, p, f, st)
<1>1. st \in Statements /\ c \in Containers /\ st.ix.form # "whole"
  <2>1. st \in Statements /\ st.ix.form # "whole"  BY Zenon DEF Fits, WritesFit
  <2> QED BY <2>1 DEF Statements
<1>2. /\ FrameOK(r) /\ r.ok /\ r.bound = Names /\ Full(f) /\ FrameOK(f) /\ f.ok /\ f.truth = r.truth
  BY Zenon DEF Along, Follows, Full
<1>3. ~Skips(f, st)  BY <1>2, Zenon DEF Skips
<1>4. /\ Loaded(b, w.plan, f, st) = Loaded(b, NoPlan, r, st) /\ IndexValue(st.ix, f) = key
      /\ AtIndex(b, st.ix) => key = e
  <2>1. st.kind # "for"  BY DEF Writing
  <2> QED BY <1>1, <2>1, LoadsAgree
<1>5. Value(b, w.plan, f, st) = v  BY <1>4, Zenon DEF Value
<1>6. NeedsOf(st, {}) \subseteq r.bound
  <2>1. Like(st, st)  BY Zenon DEF Like
  <2>2. NeedsOf(st, {}) \subseteq Names  BY <1>1, <2>1, NeedsAre
  <2> QED BY <1>2, <2>2, Zenon
<1>7. NoPlan[c] = "none"  BY <1>1 DEF NoPlan
<1>8. WritesInPlace(r, g, c, key, z)  BY <1>1, <1>2, <1>6, <1>7, InPlaceRuns, Zenon
<1>9. LoopStored(r, g, c, key, z)  BY <1>8, Zenon DEF WritesInPlace, LoopStored
<1> SUFFICES Along(b, w, p, g, h) /\ Marks(w, c, key, r, f, g, h)  BY Zenon DEF Agrees, Effect
<1>10. /\ w.plan[c] # "none" => st.kind \in {"store", "augstore", "mutate"}
       /\ w.plan[c] \in {"list", "cell"} => AtIndex(b, st.ix) /\ <<c, e>> \notin w.foreign
       /\ w.plan[c] = "list" => st.kind = "store"
       /\ w.plan[c] = "dict" => st.kind # "mutate"
  BY Zenon DEF Fits, WritesFit
<1>11. w.plan[c] \in {"none", "list", "cell", "dict"}  BY <1>1 DEF World, PlanOK
<1>12. HasIndex(b) => e \in Keys  BY Zenon DEF Fits
<1>13. /\ \A k \in Keys : <<c, k>> \notin w.foreign => View(f, c, k) = r.heap[c][k]
       /\ c \in w.whole => f.heap[c] = r.heap[c]
       /\ w.plan[c] = "none" => \A k \in Keys : f.slab[c][k] = <<>>
       /\ w.plan[c] = "cell" /\ <<c, e>> \notin w.foreign => f.cell[c] = r.heap[c][e]
  BY <1>1, Zenon DEF Along, Follows
<1>14. DOMAIN f = Fields /\ DOMAIN f.cell = Containers  BY <1>2, Zenon DEF Full, FrameOK, Fields
<1>15. CASE w.plan[c] = "none"
  <2> DEFINE y == Anew(st, f.heap[c][key], v)
  <2>1. WritesInPlace(f, h, c, key, y)  BY <1>1, <1>2, <1>3, <1>4, <1>5, <1>15, InPlaceRuns, Zenon
  <2>2. CellSet(w, f, h, c, <<>>)
    <3>1. h.cell = f.cell \/ h.cell = [f.cell EXCEPT ![c] = @]  BY <2>1, Zenon DEF WritesInPlace
    <3> HIDE DEF h
    <3> QED BY <1>14, <1>15, <3>1 DEF CellSet
  <2>3. HeapStored(w, f, h, c, key, y, <<>>)
    BY <2>1, <2>2, Zenon DEF HeapStored, WritesInPlace, Beside
  <2>4. <<c, key>> \notin w.foreign /\ key \in Keys => y = z
    <3>1. ASSUME <<c, key>> \notin w.foreign, key \in Keys PROVE f.heap[c][key] = r.heap[c][key]
      <4>1. View(f, c, key) = r.heap[c][key] /\ f.slab[c][key] = <<>>  BY <1>13, <1>15, <3>1, Zenon
      <4> QED BY <4>1, Zenon DEF View
    <3> QED BY <3>1, Zenon
  <2>5. c \in w.whole => y = z  BY <1>13, Zenon
  <2>6. w.plan[c] \in {"none", "cell"} /\ w.plan[c] # "cell"  BY <1>15
  <2> HIDE DEF y, z, h, g, key, c
  <2>7. HeapMay(b, w, p, f, c, key, z, y, <<>>)  BY <2>4, <2>5, <2>6, Zenon DEF HeapMay
  <2> QED BY <1>1, <1>9, <2>3, <2>7, InHeap, Zenon
<1>16. CASE w.plan[c] # "none" /\ Stores(st)
  <2>1. st.kind = "store"  BY <1>10, <1>16, Zenon DEF Stores
  <2>2. HasWritten(b, w.plan, p, f, st, h)  BY <1>1, <1>2, <1>3, RunWrites, Zenon
  <2>3. h = Put(b, w.plan, f, st, p, v)  BY <1>5, <1>16, <2>2, Zenon DEF HasWritten
  <2>4. z = v  BY <1>16, Zenon DEF Anew
  <2>5. w.plan[c] \in {"list", "cell"} => key = e  BY <1>4, <1>10, Zenon
  <2>6. SlabStored(w, f, h, c, key, v, v)
    <3>1. CASE w.plan[c] = "dict"
      <4>1. h = [f EXCEPT !.slab[c][key] = <<v>>]
        <5> HIDE DEF v, h
        <5> QED BY <1>4, <2>1, <2>3, <3>1 DEF Put
      <4> HIDE DEF v, h, key, c
      <4> QED BY <1>14, <3>1, <4>1 DEF SlabStored, Beside, CellSet, Fields
    <3>2. CASE w.plan[c] = "list"
      <4>1. h = [f EXCEPT !.slab[c][key] = <<v>>]
        <5> HIDE DEF v, h, key, e
        <5>1. h = [f EXCEPT !.slab[c][e] = <<v>>]  BY <2>3, <3>2 DEF Put, e
        <5> QED BY <2>5, <3>2, <5>1
      <4> HIDE DEF v, h, key, c
      <4> QED BY <1>14, <3>2, <4>1 DEF SlabStored, Beside, CellSet, Fields
    <3>3. CASE w.plan[c] = "cell"
      <4>1. h = [f EXCEPT !.cell[c] = v, !.slab[c][key] = <<v>>]
        <5> HIDE DEF v, h, key, e
        <5>1. h = [f EXCEPT !.cell[c] = v, !.slab[c][e] = <<v>>]  BY <2>3, <3>3 DEF Put, e
        <5> QED BY <2>5, <3>3, <5>1
      <4> HIDE DEF v, h, key, c
      <4> QED BY <1>1, <1>14, <3>3, <4>1 DEF SlabStored, Beside, CellSet, Fields, c
    <3> QED BY <1>11, <1>16, <3>1, <3>2, <3>3
  <2>7. w.plan[c] = "cell" => key = e /\ key \in Keys  BY <1>10, <1>12, <2>5, Zenon DEF AtIndex
  <2> HIDE DEF v, z, h, g, key, c
  <2> QED BY <1>1, <1>9, <1>16, <2>4, <2>6, <2>7, InSlab, Zenon DEF e
<1>17. CASE w.plan[c] # "none" /\ st.kind = "augstore"
  <2> DEFINE old == Old(w.plan, f, st)
             y == old \o v
  <2>0. ~Stores(st)  BY <1>17 DEF Stores
  <2>1. w.plan[c] \in {"cell", "dict"}  BY <1>10, <1>11, <1>17
  <2>2. HasWritten(b, w.plan, p, f, st, h)  BY <1>1, <1>2, <1>3, RunWrites, Zenon
  <2>3. h = Put(b, w.plan, f, st, p, y)  BY <1>5, <1>17, <2>2, Zenon DEF HasWritten
  <2>4. z = r.heap[c][key] \o v  BY <2>0, Zenon DEF Anew
  <2>5. w.plan[c] = "cell" => key = e /\ key \in Keys /\ <<c, e>> \notin w.foreign
    BY <1>4, <1>10, <1>12, Zenon DEF AtIndex
  <2>6. old = IF w.plan[c] = "cell" THEN f.cell[c]
              ELSE IF w.plan[c] = "dict" /\ f.slab[c][key] # <<>> THEN f.slab[c][key][1] ELSE f.heap[c][key]
    BY <1>4, Zenon DEF Old
  <2>7. <<c, key>> \notin w.foreign /\ key \in Keys => y = z
    <3> SUFFICES ASSUME <<c, key>> \notin w.foreign, key \in Keys PROVE old = r.heap[c][key]
      BY <2>4, Zenon
    <3>1. CASE w.plan[c] = "cell"
      <4>1. f.cell[c] = r.heap[c][e] /\ key = e  BY <1>13, <2>5, <3>1, Zenon
      <4> QED BY <2>6, <3>1, <4>1, Zenon
    <3>2. CASE w.plan[c] = "dict"
      <4>1. old = View(f, c, key)
        <5> HIDE DEF old, key, c
        <5> QED BY <2>6, <3>2 DEF View
      <4> QED BY <1>13, <4>1, Zenon
    <3> QED BY <2>1, <3>1, <3>2
  <2> HIDE DEF old
  <2>8. SlabStored(w, f, h, c, key, y, y)
    <3>1. CASE w.plan[c] = "dict"
      <4>1. h = [f EXCEPT !.slab[c][key] = <<y>>]
        <5> HIDE DEF y, h
        <5> QED BY <1>4, <1>17, <2>3, <3>1 DEF Put
      <4> HIDE DEF y, h, key, c
      <4> QED BY <1>14, <3>1, <4>1 DEF SlabStored, Beside, CellSet, Fields
    <3>3. CASE w.plan[c] = "cell"
      <4>1. h = [f EXCEPT !.cell[c] = y, !.slab[c][key] = <<y>>]
        <5> HIDE DEF y, h, key, e
        <5>1. h = [f EXCEPT !.cell[c] = y, !.slab[c][e] = <<y>>]  BY <2>3, <3>3 DEF Put, e
        <5> QED BY <2>5, <3>3, <5>1
      <4> HIDE DEF y, h, key, c
      <4> QED BY <1>1, <1>14, <3>3, <4>1 DEF SlabStored, Beside, CellSet, Fields, c
    <3> QED BY <2>1, <3>1, <3>3
  <2> HIDE DEF y, z, h, g, key, c
  <2> QED BY <1>1, <1>9, <1>17, <2>5, <2>7, <2>8, InSlab, Zenon DEF e
<1>18. CASE w.plan[c] # "none" /\ st.kind = "mutate"
  <2>0. ~Stores(st)  BY <1>18 DEF Stores
  <2>1. w.plan[c] = "cell"  BY <1>10, <1>11, <1>18
  <2>2. HasWritten(b, w.plan, p, f, st, h)  BY <1>1, <1>2, <1>3, RunWrites, Zenon
  <2>3. h = Mutate(b, w.plan, f, st, p, v)  BY <1>5, <1>18, <2>2, Zenon DEF HasWritten
  <2>4. z = r.heap[c][key] \o v  BY <2>0, Zenon DEF Anew
  <2>5. key = e /\ key \in Keys /\ <<c, e>> \notin w.foreign /\ AtIndex(b, st.ix)
    BY <1>4, <1>10, <1>12, <2>1, Zenon DEF AtIndex
  <2>6. View(f, c, key) = r.heap[c][key] /\ f.cell[c] = r.heap[c][key]  BY <1>13, <2>1, <2>5, Zenon
  <2> DEFINE x == f.cell[c] \o v
  <2>7. x = z  BY <2>4, <2>6, Zenon
  <2>8. CASE f.slab[c][key] # <<>>
    <3> DEFINE y == f.slab[c][key][1] \o v
    <3>1. y = z  BY <2>4, <2>6, <2>8, Zenon DEF View
    <3>2. h = [f EXCEPT !.slab[c][key] = <<y>>, !.cell[c] = x]
      <4>1. h = [f EXCEPT !.slab[c][e] = <<@[1] \o v>>, !.cell[c] = @ \o v]
        <5> HIDE DEF v, h
        <5> QED BY <2>1, <2>3, <2>5, <2>8 DEF Mutate
      <4> HIDE DEF v, h, key, c, e
      <4>2. [f EXCEPT !.slab[c][e] = <<@[1] \o v>>, !.cell[c] = @ \o v] = [f EXCEPT !.slab[c][e] = <<f.slab[c][e][1] \o v>>, !.cell[c] = f.cell[c] \o v]
        OBVIOUS
      <4> QED BY <2>5, <4>1, <4>2
    <3>3. SlabStored(w, f, h, c, key, y, x)
      <4> HIDE DEF x, y, h, key, c
      <4> QED BY <1>1, <1>14, <3>2 DEF SlabStored, Beside, CellSet, Fields, c
    <3> HIDE DEF x, y, z, h, g, key, c
    <3> QED BY <1>1, <1>9, <2>1, <2>5, <2>7, <3>1, <3>3, InSlab, Zenon DEF e
  <2>9. CASE f.slab[c][key] = <<>>
    <3> DEFINE y == f.heap[c][key] \o v
    <3>1. y = z  BY <2>4, <2>6, <2>9, Zenon DEF View
    <3>2. h = [f EXCEPT !.heap[c][key] = y, !.cell[c] = x]
      <4>1. h = [f EXCEPT !.heap[c][key] = @ \o v, !.cell[c] = @ \o v]
        <5> HIDE DEF v, h
        <5> QED BY <1>4, <2>1, <2>3, <2>5, <2>9 DEF Mutate
      <4> HIDE DEF v, h, key, c, e
      <4>2. [f EXCEPT !.heap[c][key] = @ \o v, !.cell[c] = @ \o v] = [f EXCEPT !.heap[c][key] = f.heap[c][key] \o v, !.cell[c] = f.cell[c] \o v]
        OBVIOUS
      <4> QED BY <4>1, <4>2
    <3>3. HeapStored(w, f, h, c, key, y, x)
      <4> HIDE DEF x, y, h, key, c
      <4> QED BY <1>1, <1>14, <3>2 DEF HeapStored, Beside, CellSet, Fields, c
    <3>4. w.plan[c] \in {"none", "cell"} /\ c \notin w.whole  BY <2>1 DEF World
    <3> HIDE DEF x, y, z, h, g, key, c
    <3>5. HeapMay(b, w, p, f, c, key, z, y, x)
      BY <2>5, <2>7, <2>9, <3>1, <3>4, Zenon DEF HeapMay, e
    <3> QED BY <1>1, <1>9, <3>3, <3>5, InHeap, Zenon
  <2> QED BY <2>8, <2>9
<1>19. w.plan[c] = "none" \/ Stores(st) \/ st.kind = "augstore" \/ st.kind = "mutate"
  BY <1>10, Zenon DEF Stores
<1> QED BY <1>15, <1>16, <1>17, <1>18, <1>19, Zenon

LEMMA RunNames ==
  ASSUME NEW b, NEW plan, NEW ops, NEW p, NEW f, NEW st \in Statements,
         f.ok, ~Skips(f, st), NeedsOf(st, ops) \subseteq f.bound
  PROVE  HasRun(b, plan, ops, p, f, st, Run(b, plan, ops, p, f, st))
<1> DEFINE v == Value(b, plan, f, st)
           g == Run(b, plan, ops, p, f, st)
<1>1. st.kind = "assign" /\ st.form = "plain" => g = Bind(f, st.name, v)  BY DEF Run, Value, Updates
<1>2. Updates(st) => g = Update(f, ops, st, v)
  <2> SUFFICES ASSUME Updates(st) PROVE g = Update(f, ops, st, v)  OBVIOUS
  <2>1. st.kind \in {"aug", "assign"} /\ ~(st.kind = "assign" /\ st.form = "plain")  BY DEF Updates
  <2> QED BY <2>1 DEF Run, Value
<1>3. ASSUME st.kind \in {"walrus", "move", "if", "for"} PROVE ~Updates(st) /\ ~(st.kind = "assign" /\ st.form = "plain")
  BY <1>3 DEF Updates
<1>4. st.kind = "walrus" => g = IF Truth(Loaded(b, plan, f, st)) THEN Bind(f, st.name, v) ELSE f
  BY <1>3 DEF Run, Value
<1>5. st.kind = "move" => g = Bind(f, st.name, <<IndexValue(st.ix, f)>>)  BY <1>3 DEF Run
<1>6. st.kind = "if" => g = [f EXCEPT !.truth = Truth(Loaded(b, plan, f, st))]  BY <1>3 DEF Run
<1>7. st.kind = "for" => g = Bind(f, st.name, <<st.tag>>)  BY <1>3 DEF Run
<1> HIDE DEF v, g
<1> QED BY <1>1, <1>2, <1>4, <1>5, <1>6, <1>7, Zenon DEF HasRun, v, g

\* Giving a name that has a value another one is binding it.
LEMMA SetIsBind ==
  ASSUME NEW f, FrameOK(f), NEW n \in f.bound, NEW v PROVE [f EXCEPT !.local[n] = v] = Bind(f, n, v)
<1> DEFINE B == f.bound
<1>1. B \cup {n} = B  OBVIOUS
<1>2. Bind(f, n, v) = [f EXCEPT !.local[n] = v, !.bound = B]  BY <1>1, Zenon DEF Bind
<1> HIDE DEF B
<1>3. DOMAIN f = Fields  BY Zenon DEF FrameOK, Fields
<1>4. [f EXCEPT !.local[n] = v, !.bound = B] = [f EXCEPT !.local[n] = v]
  <2> DEFINE x == [f EXCEPT !.local[n] = v]
  <2>1. x.bound = B /\ x = [y \in Fields |-> x[y]]  BY <1>3 DEF B, Fields
  <2>2. [f EXCEPT !.local[n] = v, !.bound = B] = [x EXCEPT !.bound = B]  OBVIOUS
  <2> HIDE DEF x
  <2>3. [x EXCEPT !.bound = B] = x  BY <2>1 DEF Fields
  <2> QED BY <2>2, <2>3 DEF x
<1> QED BY <1>2, <1>4

\* An update is the same in both, and a contribution of a name that is folded.
LEMMA UpdateAgrees ==
  ASSUME NEW b, NEW w, World(w), NEW p, NEW r, NEW f, Along(b, w, p, r, f), NEW st \in Statements, Updates(st),
         NamesFit(b, w, st), NeedsOf(st, w.ops) \subseteq f.bound, NEW v
  PROVE  LET g == Update(r, {}, st, v)
             h == Update(f, w.ops, st, v)
         IN  Along(b, w, p, g, h) /\ KeptHeaps(r, f, g, h)
<1> DEFINE n == st.name
           x == IF st.form = "right" THEN Combine(st.op, v, r.local[n]) ELSE Combine(st.op, r.local[n], v)
           g == Update(r, {}, st, v)
           h == Update(f, w.ops, st, v)
<1>1. Follows(w, r, f) /\ FrameOK(r) /\ Full(f) /\ FrameOK(f) /\ r.bound = Names /\ r.ok /\ f.ok
  BY Zenon DEF Along, Follows, Full
<1>2. DOMAIN f = Fields /\ DOMAIN r = Fields /\ DOMAIN f.local = Names /\ DOMAIN r.local = Names /\ DOMAIN f.site = Names
  BY <1>1, Zenon DEF FrameOK, Fields, Full
<1>3. n \in Names /\ n \notin DomainNames(b)
  <2>1. Renames(st)  BY DEF Updates, Renames
  <2> QED BY <2>1 DEF NamesFit, Statements
<1>4. g = Bind(r, n, x)
  <2>1. g = [r EXCEPT !.local[n] = x]
    <3>1. g = [r EXCEPT !.local[n] = IF st.form = "right" THEN Combine(st.op, v, @) ELSE Combine(st.op, @, v)]
      BY Zenon DEF Update
    <3> HIDE DEF g, n
    <3> QED BY <3>1
  <2> HIDE DEF x, g
  <2> QED BY <1>1, <1>3, <2>1, SetIsBind
<1>5. CASE n \notin w.ops
  <2>1. n \in f.bound  BY <1>5 DEF NeedsOf
  <2>2. f.local[n] = r.local[n]  BY <1>1, <1>5, <2>1 DEF Follows
  <2>3. h = [f EXCEPT !.local[n] = x]
    <3>1. h = [f EXCEPT !.local[n] = IF st.form = "right" THEN Combine(st.op, v, @) ELSE Combine(st.op, @, v)]
      BY <1>5, Zenon DEF Update
    <3> HIDE DEF h, n
    <3> QED BY <2>2, <3>1
  <2>4. h = Bind(f, n, x)
    <3> HIDE DEF x, h
    <3> QED BY <1>1, <2>1, <2>3, SetIsBind
  <2> HIDE DEF x, n
  <2>5. Along(b, w, p, Bind(r, n, x), Bind(f, n, x)) /\ KeptHeaps(r, f, Bind(r, n, x), Bind(f, n, x))
    BY <1>3, <1>5, BindAgrees
  <2> QED BY <1>4, <2>4, <2>5, Zenon
<1>6. CASE n \in w.ops
  <2>1. st.form # "right" /\ st.op = w.by[n]
    <3>1. Renames(st)  BY DEF Updates, Renames
    <3> QED BY <1>6, <3>1 DEF NamesFit
  <2>2. x = Combine(w.by[n], r.local[n], v)  BY <2>1
  <2>3. h = [f EXCEPT !.site[n] = Append(f.site[n], v)]
    <3>1. h = [f EXCEPT !.site[n] = Append(@, v)]  BY <1>6, Zenon DEF Update
    <3> HIDE DEF h, n
    <3> QED BY <3>1
  <2> DEFINE y == Append(f.site[n], v)
  <2>4. IsSeq(y) /\ Folded(w.by[n], w.start[n], y) = Combine(w.by[n], Folded(w.by[n], w.start[n], f.site[n]), v)
    <3>1. IsSeq(f.site[n])  BY <1>1, <1>3, Zenon DEF Full
    <3> QED BY <3>1, AppendIs, FoldedStep
  <2>5. r.local[n] = Folded(w.by[n], w.start[n], f.site[n])  BY <1>1, <1>6, Zenon DEF Follows
  <2>6. Folded(w.by[n], w.start[n], y) = x  BY <2>2, <2>4, <2>5, Zenon
  <2> HIDE DEF x, y
  <2>7. /\ h.heap = f.heap /\ h.local = f.local /\ h.bound = f.bound /\ h.cell = f.cell
        /\ h.slab = f.slab /\ h.site = [f.site EXCEPT ![n] = y] /\ h.truth = f.truth /\ h.ok = f.ok /\ DOMAIN h = DOMAIN f
    <3> HIDE DEF n
    <3>1. h = [f EXCEPT !.site[n] = y]  BY <2>3 DEF y
    <3> HIDE DEF h
    <3> QED BY <1>2, <3>1 DEF Fields
  <2>8. /\ g.heap = r.heap /\ g.local = [r.local EXCEPT ![n] = x] /\ g.bound = Names
        /\ g.truth = r.truth /\ g.ok = r.ok /\ DOMAIN g = DOMAIN r
    <3> HIDE DEF n, g
    <3>1. r.bound \cup {n} = Names  BY <1>1, <1>3
    <3>2. /\ g.heap = r.heap /\ g.local = [r.local EXCEPT ![n] = x] /\ g.bound = r.bound \cup {n}
          /\ g.truth = r.truth /\ g.ok = r.ok /\ DOMAIN g = DOMAIN r
      BY <1>2, <1>4 DEF Bind, Fields
    <3> QED BY <3>1, <3>2
  <2> HIDE DEF g, h, n
  <2>9. /\ g.local[n] = x /\ h.site[n] = y /\ DOMAIN g.local = Names /\ DOMAIN h.site = Names
        /\ (\A m \in Names \ {n} : g.local[m] = r.local[m] /\ h.site[m] = f.site[m])
    BY <1>2, <1>3, <2>7, <2>8
  <2>10. FrameOK(g) /\ Full(h)
    <3>1. FrameOK(g) /\ FrameOK(h)  BY <1>1, <2>7, <2>8, <2>9, Zenon DEF FrameOK
    <3>2. \A m \in Names : IsSeq(h.site[m])  BY <1>1, <2>4, <2>9 DEF Full
    <3> QED BY <1>1, <2>7, <2>9, <3>1, <3>2, Zenon DEF Full
  <2>11. \A m \in h.bound \ w.ops : h.local[m] = g.local[m]
    <3> SUFFICES ASSUME NEW m \in h.bound \ w.ops PROVE h.local[m] = g.local[m]  OBVIOUS
    <3>1. m \in f.bound \ w.ops /\ m # n  BY <1>6, <2>7
    <3>2. f.local[m] = r.local[m]  BY <1>1, <3>1, Zenon DEF Follows
    <3>3. g.local[m] = r.local[m]  BY <1>2, <2>8, <3>1
    <3> QED BY <2>7, <3>2, <3>3
  <2>12. \A m \in w.ops : g.local[m] = Folded(w.by[m], w.start[m], h.site[m])
    <3> SUFFICES ASSUME NEW m \in w.ops PROVE g.local[m] = Folded(w.by[m], w.start[m], h.site[m])
      OBVIOUS
    <3>1. CASE m = n  BY <2>6, <2>9, <3>1, Zenon
    <3>2. CASE m # n
      <4>1. m \in Names \ {n}  BY <3>2 DEF World
      <4>2. r.local[m] = Folded(w.by[m], w.start[m], f.site[m])  BY <1>1, Zenon DEF Follows
      <4> QED BY <2>9, <4>1, <4>2, Zenon
    <3> QED BY <3>1, <3>2
  <2>13. Follows(w, g, h)
    <3>0. \A c, k : View(h, c, k) = View(f, c, k)  BY <2>7, Zenon DEF View
    <3>1. /\ \A c \in w.whole : f.heap[c] = r.heap[c]
          /\ \A c \in Containers, k \in Keys : <<c, k>> \notin w.foreign => View(f, c, k) = r.heap[c][k]
          /\ \A c \in Containers : w.plan[c] = "none" => \A k \in Keys : f.slab[c][k] = <<>>
      BY <1>1, Zenon DEF Follows
    <3>2. /\ \A c \in w.whole : h.heap[c] = g.heap[c]
          /\ \A c \in Containers, k \in Keys : <<c, k>> \notin w.foreign => View(h, c, k) = g.heap[c][k]
          /\ \A c \in Containers : w.plan[c] = "none" => \A k \in Keys : h.slab[c][k] = <<>>
      BY <2>7, <2>8, <3>0, <3>1
    <3>3. g.ok /\ h.ok /\ g.bound = Names  BY <1>1, <2>7, <2>8
    <3> QED BY <2>10, <2>11, <2>12, <3>2, <3>3, Zenon DEF Follows
  <2>14. HasIndex(b) => "i" \in h.bound \ w.ops /\ g.local["i"] = <<Elem(b, p)>>
    <3> SUFFICES ASSUME HasIndex(b) PROVE "i" \in h.bound \ w.ops /\ g.local["i"] = <<Elem(b, p)>>
      OBVIOUS
    <3>1. "i" \in f.bound \ w.ops /\ r.local["i"] = <<Elem(b, p)>>  BY Zenon DEF Along
    <3>2. "i" # n /\ "i" \in Names  BY <1>6, <3>1 DEF Names
    <3> QED BY <2>7, <2>9, <3>1, <3>2
  <2>15. h.truth = g.truth /\ \A c \in Containers : w.plan[c] = "cell" /\ <<c, Elem(b, p)>> \notin w.foreign => h.cell[c] = g.heap[c][Elem(b, p)]
    <3>1. f.truth = r.truth /\ \A c \in Containers : w.plan[c] = "cell" /\ <<c, Elem(b, p)>> \notin w.foreign => f.cell[c] = r.heap[c][Elem(b, p)]
      BY Zenon DEF Along
    <3> QED BY <2>7, <2>8, <3>1, Zenon
  <2>16. Along(b, w, p, g, h)  BY <2>13, <2>14, <2>15, Zenon DEF Along
  <2>17. KeptHeaps(r, f, g, h)  BY <2>7, <2>8, Zenon DEF KeptHeaps
  <2> QED BY <2>16, <2>17 DEF g, h
<1> QED BY <1>5, <1>6

\* A statement does the same in both.
LEMMA RunAgrees ==
  ASSUME NEW b, NEW w, World(w), NEW p, NEW r, NEW f, Along(b, w, p, r, f), NEW st, Fits(b, w, p, st),
         Skips(f, st) \/ NeedsOf(st, w.ops) \subseteq f.bound, st.kind # "for" => Divided(b, w, p, r, f, st)
  PROVE  Agrees(b, w, p, st, r, f, Run(b, NoPlan, {}, p, r, st), Run(b, w.plan, w.ops, p, f, st))
<1> DEFINE g == Run(b, NoPlan, {}, p, r, st)
           h == Run(b, w.plan, w.ops, p, f, st)
           n == st.name
<1>1. /\ FrameOK(r) /\ r.ok /\ r.bound = Names /\ FrameOK(f) /\ f.ok /\ f.truth = r.truth
  BY Zenon DEF Along, Follows, Full
<1>2. Skips(f, st) = Skips(r, st)  BY <1>1, Zenon DEF Skips
<1>3. CASE Skips(f, st)
  <2>1. g = r /\ h = f
    <3>1. g = r  BY <1>2, <1>3, Zenon DEF Run
    <3>2. h = f  BY <1>3, Zenon DEF Run
    <3> QED BY <3>1, <3>2
  <2>2. KeptHeaps(r, f, r, f)  BY DEF KeptHeaps
  <2>3. Agrees(b, w, p, st, r, f, r, f)  BY <1>2, <1>3, <2>2, Zenon DEF Agrees, Effect
  <2> QED BY <2>1, <2>3, Zenon
<1>4. CASE ~Skips(f, st) /\ st.kind \in Writing  BY <1>2, <1>4, WritesAgree DEF Writing
<1>5. CASE ~Skips(f, st) /\ st.kind \notin Writing
  <2>1. st \in Statements /\ st.kind \notin {"break", "return", "opaque"} /\ NamesFit(b, w, st) /\ NeedsOf(st, w.ops) \subseteq f.bound
    BY <1>5, Zenon DEF Fits
  <2>2. NeedsOf(st, {}) \subseteq r.bound
    <3>1. Like(st, st)  BY Zenon DEF Like
    <3>2. NeedsOf(st, {}) \subseteq Names  BY <2>1, <3>1, NeedsAre
    <3> QED BY <1>1, <3>2, Zenon
  <2>3. HasRun(b, NoPlan, {}, p, r, st, g) /\ HasRun(b, w.plan, w.ops, p, f, st, h)
    <3>1. HasRun(b, NoPlan, {}, p, r, st, g)  BY <1>1, <1>2, <1>5, <2>1, <2>2, RunNames, Zenon
    <3>2. HasRun(b, w.plan, w.ops, p, f, st, h)  BY <1>1, <1>5, <2>1, RunNames, Zenon
    <3> QED BY <3>1, <3>2
  <2> DEFINE v == Value(b, NoPlan, r, st)
             loads == Loaded(b, NoPlan, r, st)
  <2>4. st.kind # "for" => Value(b, w.plan, f, st) = v /\ Loaded(b, w.plan, f, st) = loads
    <3> SUFFICES ASSUME st.kind # "for" PROVE Value(b, w.plan, f, st) = v /\ Loaded(b, w.plan, f, st) = loads
      OBVIOUS
    <3>1. Loaded(b, w.plan, f, st) = loads  BY <2>1, LoadsAgree
    <3> QED BY <3>1, Zenon DEF Value
  <2> SUFFICES Along(b, w, p, g, h) /\ KeptHeaps(r, f, g, h)
    BY <1>2, <1>5, Zenon DEF Agrees, Effect
  <2>5. n \in Names  BY <2>1 DEF Statements
  <2>6. ASSUME Renames(st), ~Updates(st), NEW x
        PROVE  Along(b, w, p, Bind(r, n, x), Bind(f, n, x)) /\ KeptHeaps(r, f, Bind(r, n, x), Bind(f, n, x))
    <3>1. n \notin DomainNames(b) /\ n \notin w.ops  BY <2>1, <2>6 DEF NamesFit
    <3> HIDE DEF n
    <3> QED BY <2>5, <3>1, BindAgrees
  <2>7. KeptHeaps(r, f, r, f)  BY DEF KeptHeaps
  <2> HIDE DEF g, h, n, v, loads
  <2>8. CASE st.kind = "assign" /\ st.form = "plain"
    <3>1. Renames(st) /\ ~Updates(st) /\ st.kind # "for"  BY <2>8 DEF Renames, Updates
    <3>2. g = Bind(r, n, v) /\ h = Bind(f, n, v)  BY <2>3, <2>4, <2>8, <3>1, Zenon DEF HasRun, v, n
    <3> QED BY <2>6, <3>1, <3>2, Zenon
  <2>9. CASE Updates(st)
    <3>1. st.kind # "for"  BY <2>9 DEF Updates
    <3>2. g = Update(r, {}, st, v) /\ h = Update(f, w.ops, st, v)
      BY <2>3, <2>4, <2>9, <3>1, Zenon DEF HasRun, v
    <3>3. Along(b, w, p, Update(r, {}, st, v), Update(f, w.ops, st, v))
          /\ KeptHeaps(r, f, Update(r, {}, st, v), Update(f, w.ops, st, v))
      BY <2>1, <2>9, UpdateAgrees
    <3> QED BY <3>2, <3>3, Zenon
  <2>10. CASE st.kind = "walrus"
    <3>1. Renames(st) /\ ~Updates(st) /\ st.kind # "for"  BY <2>10 DEF Renames, Updates
    <3>2. /\ g = IF Truth(loads) THEN Bind(r, n, v) ELSE r
          /\ h = IF Truth(loads) THEN Bind(f, n, v) ELSE f
      BY <2>3, <2>4, <2>10, <3>1, Zenon DEF HasRun, v, n, loads
    <3>3. CASE Truth(loads)  BY <2>6, <3>1, <3>2, <3>3, Zenon
    <3>4. CASE ~Truth(loads)  BY <2>7, <3>2, <3>4, Zenon
    <3> QED BY <3>3, <3>4, Zenon
  <2>11. CASE st.kind = "move"
    <3>1. Renames(st) /\ ~Updates(st) /\ st.kind # "for"  BY <2>11 DEF Renames, Updates
    <3>2. IndexValue(st.ix, f) = IndexValue(st.ix, r)
      <4>1. st.ix.form # "whole" => IndexValue(st.ix, f) = IndexValue(st.ix, r)
        BY <2>1, <3>1, LoadsAgree
      <4>2. st.ix.form # "whole"  BY <2>11, Zenon DEF Fits
      <4> QED BY <4>1, <4>2
    <3>3. g = Bind(r, n, <<IndexValue(st.ix, r)>>) /\ h = Bind(f, n, <<IndexValue(st.ix, r)>>)
      BY <2>3, <2>11, <3>2, Zenon DEF HasRun, n
    <3> QED BY <2>6, <3>1, <3>3, Zenon
  <2>12. CASE st.kind = "if"
    <3>1. g = [r EXCEPT !.truth = Truth(loads)] /\ h = [f EXCEPT !.truth = Truth(loads)]
      BY <2>3, <2>4, <2>12, Zenon DEF HasRun, loads
    <3> DEFINE t == Truth(loads)
    <3>2. t \in BOOLEAN  BY Zenon DEF Truth
    <3>3. g = [r EXCEPT !.truth = t] /\ h = [f EXCEPT !.truth = t]  BY <3>1
    <3> HIDE DEF t
    <3>4. /\ h.heap = f.heap /\ h.local = f.local /\ h.bound = f.bound /\ h.cell = f.cell
          /\ h.slab = f.slab /\ h.site = f.site /\ h.truth = t /\ h.ok = f.ok /\ DOMAIN h = DOMAIN f
          /\ g.heap = r.heap /\ g.local = r.local /\ g.bound = r.bound /\ g.truth = t /\ g.ok = r.ok /\ DOMAIN g = DOMAIN r
      BY <1>1, <3>3 DEF FrameOK
    <3>5. FrameOK(g) /\ FrameOK(h)  BY <1>1, <3>2, <3>4, Zenon DEF FrameOK
    <3>6. Full(h)  BY <3>4, <3>5, Zenon DEF Full, Along, Follows
    <3>7. \A c, k : View(h, c, k) = View(f, c, k)  BY <3>4, Zenon DEF View
    <3>8. Follows(w, g, h)
      <4>1. Follows(w, r, f)  BY Zenon DEF Along
      <4> QED BY <3>4, <3>5, <3>6, <3>7, <4>1 DEF Follows
    <3>9. Along(b, w, p, g, h)  BY <3>4, <3>8 DEF Along
    <3>10. KeptHeaps(r, f, g, h)  BY <3>4, Zenon DEF KeptHeaps
    <3> QED BY <3>9, <3>10
  <2>13. CASE st.kind = "for"
    <3>1. Renames(st) /\ ~Updates(st)  BY <2>13 DEF Renames, Updates
    <3>2. g = Bind(r, n, <<st.tag>>) /\ h = Bind(f, n, <<st.tag>>)
      BY <2>3, <2>13, Zenon DEF HasRun, n
    <3> QED BY <2>6, <3>1, <3>2, Zenon
  <2>14. \/ (st.kind = "assign" /\ st.form = "plain") \/ Updates(st)
         \/ st.kind = "walrus" \/ st.kind = "move" \/ st.kind = "if" \/ st.kind = "for"
    BY <1>5, <2>1 DEF Updates, Statements
  <2> QED BY <2>8, <2>9, <2>10, <2>11, <2>12, <2>13, <2>14, Zenon
<1> QED BY <1>3, <1>4, <1>5, Zenon

LEMMA MutateTouches ==
  ASSUME NEW b, NEW plan, NEW f, FrameOK(f), NEW st \in Statements, st.kind = "mutate", NEW p, NEW v
  PROVE  RunTouches(plan, st, f, Mutate(b, plan, f, st, p, v))
<1> DEFINE key == IndexValue(st.ix, f)
           held == plan[st.base] = "cell" /\ AtIndex(b, st.ix)
           e == Elem(b, p)
           c == st.base
           old == f.slab[c][e]
           g == Mutate(b, plan, f, st, p, v)
<1>0. c \in Containers /\ ~Renames(st) /\ st.kind \in Writing  BY DEF Statements, Renames, Writing
<1>1. DOMAIN f = Fields  BY Zenon DEF FrameOK, Fields
<1>2. CASE held /\ old # <<>>
  <2> DEFINE y == <<old[1] \o v>>
  <2>1. g = [f EXCEPT !.slab[c][e] = <<@[1] \o v>>, !.cell[c] = @ \o v]  BY <1>2, Zenon DEF Mutate
  <2> HIDE DEF g
  <2>2. g.heap = f.heap /\ g.bound = f.bound /\ g.local = f.local /\ g.slab = [f.slab EXCEPT ![c][e] = <<@[1] \o v>>]
    BY <1>1, <2>1 DEF Fields
  <2>3. HeapOK(f.slab) => \A d \in Containers, k \in Keys : <<d, k>> # <<c, e>> => g.slab[d][k] = f.slab[d][k]
    BY <1>0, <2>2 DEF HeapOK
  <2>4. \A d \in Containers, k \in Keys : f.slab[d][k] = <<>> => <<d, k>> # <<c, e>>  BY <1>2
  <2> QED BY <1>0, <2>2, <2>3, <2>4 DEF RunTouches, HeapStep, g
<1>3. CASE ~(held /\ old # <<>>)
  <2> DEFINE x == f.heap[c][key] \o v
  <2>1. g = [f EXCEPT !.heap[c][key] = @ \o v, !.cell[c] = IF held THEN @ \o v ELSE @]
    BY <1>3, Zenon DEF Mutate
  <2> HIDE DEF g, held, key
  <2>2. g.heap = [f.heap EXCEPT ![c][key] = x] /\ g.bound = f.bound /\ g.local = f.local /\ g.slab = f.slab
    BY <1>1, <2>1 DEF Fields
  <2> HIDE DEF x
  <2>3. HeapStep(st, f, g)  BY <1>0, <2>2, ZenonT(30) DEF HeapStep
  <2>4. st.kind \notin {"store", "augstore"}  OBVIOUS
  <2> QED BY <2>2, <2>3, <2>4 DEF RunTouches, g
<1> QED BY <1>2, <1>3

LEMMA PutTouches ==
  ASSUME NEW b, NEW plan, PlanOK(plan), NEW f, FrameOK(f), NEW st \in Statements, st.kind \in {"store", "augstore", "nested"}, NEW p, NEW v
  PROVE  RunTouches(plan, st, f, Put(b, plan, f, st, p, v))
<1> DEFINE key == IndexValue(st.ix, f)
           c == st.base
           g == Put(b, plan, f, st, p, v)
<1>0. c \in Containers /\ ~Renames(st) /\ st.kind \in Writing  BY DEF Statements, Renames, Writing
<1>1. DOMAIN f = Fields  BY Zenon DEF FrameOK, Fields
<1>2. CASE plan[c] = "none"
  <2>1. g = [f EXCEPT !.heap[c][key] = v]  BY <1>2 DEF Put
  <2> HIDE DEF g, key
  <2>2. g.heap = [f.heap EXCEPT ![c][key] = v] /\ g.bound = f.bound /\ g.local = f.local
    BY <1>1, <2>1 DEF Fields
  <2>3. HeapStep(st, f, g)  BY <1>0, <2>2, Zenon DEF HeapStep
  <2> QED BY <1>2, <2>2, <2>3 DEF RunTouches, g
<1>3. CASE plan[c] # "none"
  <2>1. plan[c] \in {"list", "cell", "dict"}  BY <1>0, <1>3 DEF PlanOK
  <2>2. g.heap = f.heap /\ g.bound = f.bound /\ g.local = f.local  BY <1>1, <2>1 DEF Put, Fields
  <2>3. HeapStep(st, f, g)  BY <2>2, Zenon DEF HeapStep
  <2> QED BY <2>2, <2>3 DEF RunTouches
<1> QED BY <1>2, <1>3

LEMMA RunTouch ==
  ASSUME NEW b, NEW plan, PlanOK(plan), NEW ops, NEW p, NEW f, FrameOK(f),
         NEW st \in Statements, st.kind \notin {"break", "return"}
  PROVE  RunTouches(plan, st, f, Run(b, plan, ops, p, f, st))
<1> DEFINE loads == Loaded(b, plan, f, st)
           v == <<st.tag>> \o loads
           g == Run(b, plan, ops, p, f, st)
           Goal(x) == RunTouches(plan, st, f, x)
           runs == f.ok /\ ~Skips(f, st) /\ NeedsOf(st, ops) \subseteq f.bound
<1>0. /\ st.base \in Containers /\ st.name \in Names /\ Writing = {"store", "augstore", "nested", "augnested", "mutate"}
      /\ DOMAIN f = Fields /\ DOMAIN f.local = Names
  BY DEF Statements, Writing, FrameOK, Fields
<1>01. ASSUME NEW x, x.heap = f.heap, x.bound \subseteq f.bound \cup Names, x.slab = f.slab, \A n \in Names : (Renames(st) /\ n = st.name) \/ x.local[n] = f.local[n]
       PROVE  Goal(x)  BY <1>01 DEF RunTouches, HeapStep
<1>1. CASE ~f.ok \/ Skips(f, st)
  <2>1. g = f  BY <1>1 DEF Run, Updates
  <2> QED BY <1>01, <2>1, Zenon
<1>2. CASE f.ok /\ ~Skips(f, st) /\ ~ (NeedsOf(st, ops) \subseteq f.bound)
  <2>1. g = [f EXCEPT !.ok = FALSE]  BY <1>2 DEF Run, Updates
  <2>2. [f EXCEPT !.ok = FALSE].heap = f.heap /\ [f EXCEPT !.ok = FALSE].bound \subseteq f.bound \cup Names /\ [f EXCEPT !.ok = FALSE].slab = f.slab /\ [f EXCEPT !.ok = FALSE].local = f.local
    BY <1>0 DEF Fields
  <2> QED BY <1>01, <2>1, <2>2, Zenon
<1>3. ASSUME Renames(st), NEW x PROVE Goal(Bind(f, st.name, x))
  <2> DEFINE y == Bind(f, st.name, x)
  <2>1. y.heap = f.heap /\ y.slab = f.slab /\ y.local = [f.local EXCEPT ![st.name] = x] /\ y.bound \subseteq f.bound \cup Names
    BY <1>0 DEF Bind, Fields
  <2> HIDE DEF y
  <2>2. \A n \in Names : n # st.name => y.local[n] = f.local[n]  BY <1>0, <2>1
  <2> QED BY <1>01, <1>3, <2>1, <2>2, Zenon DEF y
<1>4. CASE runs /\ st.kind \in {"assign", "aug"} /\ ~ (st.kind = "assign" /\ st.form = "plain")
  <2> DEFINE y == Update(f, ops, st, v)
  <2>1. g = y /\ Renames(st)  BY <1>4 DEF Run, Updates, Renames
  <2> HIDE DEF v, g
  <2>2. y.heap = f.heap /\ y.slab = f.slab /\ y.bound \subseteq f.bound \cup Names /\ \A n \in Names : n # st.name => y.local[n] = f.local[n]
    <3>1. CASE st.name \in ops
      <4>1. y = [f EXCEPT !.site[st.name] = Append(@, v)]  BY <3>1, Zenon DEF Update
      <4> HIDE DEF y
      <4> QED BY <1>0, <4>1 DEF Fields
    <3>2. CASE st.name \notin ops
      <4>1. y = [f EXCEPT !.local[st.name] = IF st.form = "right" THEN Combine(st.op, v, @) ELSE Combine(st.op, @, v)]
        BY <3>2, Zenon DEF Update
      <4> HIDE DEF y
      <4>2. y.heap = f.heap /\ y.slab = f.slab /\ y.bound \subseteq f.bound \cup Names
            /\ y.local = [f.local EXCEPT ![st.name] = IF st.form = "right" THEN Combine(st.op, v, @) ELSE Combine(st.op, @, v)]
        BY <1>0, <4>1 DEF Fields
      <4> QED BY <1>0, <4>2
    <3> QED BY <3>1, <3>2
  <2> HIDE DEF y
  <2>3. Goal(y)  BY <1>01, <2>1, <2>2, Zenon
  <2> QED BY <2>1, <2>3, Zenon DEF g, y
<1>5. CASE (runs /\ st.kind \in {"walrus", "move", "for"}) \/ (runs /\ st.kind = "assign" /\ st.form = "plain")
  <2>1. Renames(st) /\ ((\E x : g = Bind(f, st.name, x)) \/ g = f)
    <3>1. Renames(st) /\ (g = Bind(f, st.name, v) \/ g = f \/ g = Bind(f, st.name, <<IndexValue(st.ix, f)>>) \/ g = Bind(f, st.name, <<st.tag>>))
      BY <1>5 DEF Run, Updates, Renames
    <3> QED BY <3>1, Zenon
  <2>2. Goal(f)  BY <1>01, Zenon
  <2> HIDE DEF g
  <2> QED BY <1>3, <2>1, <2>2, Zenon DEF g
<1>7. CASE runs /\ st.kind \in {"store", "nested", "augstore"}
  <2> DEFINE w == IF st.kind = "augstore" THEN Old(plan, f, st) \o v ELSE v
  <2>1. g = Put(b, plan, f, st, p, w)  BY <1>7 DEF Run, Updates
  <2>2. Goal(Put(b, plan, f, st, p, w))
    <3> HIDE DEF w
    <3> QED BY <1>7, PutTouches
  <2> QED BY <2>1, <2>2, Zenon
<1>8. CASE runs /\ st.kind = "augnested"
  <2> DEFINE y == AddNested(plan, f, st, v)
             key == IndexValue(st.ix, f)
             x == f.heap[st.base][key] \o v
  <2>1. g = y  BY <1>8 DEF Run, Updates
  <2> HIDE DEF v, g
  <2>2. (y.heap = f.heap \/ y.heap = [f.heap EXCEPT ![st.base][key] = x]) /\ y.slab = f.slab /\ y.local = f.local /\ y.bound \subseteq f.bound \cup Names
    <3>1. y = [f EXCEPT !.heap[st.base][key] = @ \o v] \/ y = [f EXCEPT !.ok = FALSE]
      BY Zenon DEF AddNested
    <3> HIDE DEF y, key
    <3> QED BY <1>0, <3>1 DEF Fields
  <2> HIDE DEF y, key, x
  <2>3. HeapStep(st, f, y)
    <3>1. st.kind \in Writing \cup {"opaque"}  BY <1>0, <1>8
    <3> QED BY <2>2, <3>1, Zenon DEF HeapStep
  <2>4. st.kind \notin {"store", "augstore"}  BY <1>8
  <2>5. Goal(y)  BY <2>2, <2>3, <2>4 DEF RunTouches
  <2> QED BY <2>1, <2>5, Zenon DEF g, y
<1>9. CASE runs /\ st.kind = "mutate"
  <2>1. g = Mutate(b, plan, f, st, p, v)  BY <1>9 DEF Run, Updates
  <2>2. Goal(Mutate(b, plan, f, st, p, v))
    <3> HIDE DEF v
    <3> QED BY <1>9, MutateTouches
  <2> QED BY <2>1, <2>2, Zenon
<1>10. CASE runs /\ st.kind = "opaque"
  <2> DEFINE x == f.heap[st.base][EndKey] \o v
             y == [f EXCEPT !.heap = [f.heap EXCEPT ![st.base][EndKey] = x]]
  <2>1. g = y  BY <1>10 DEF Run, Updates
  <2> HIDE DEF x, g
  <2>2. y.heap = [f.heap EXCEPT ![st.base][EndKey] = x] /\ y.slab = f.slab /\ y.local = f.local /\ y.bound \subseteq f.bound \cup Names
    BY <1>0 DEF Fields
  <2> HIDE DEF y
  <2>3. HeapStep(st, f, y)  BY <1>10, <2>2, Zenon DEF HeapStep
  <2>4. st.kind \notin {"store", "augstore"}  BY <1>10
  <2>5. Goal(y)  BY <2>2, <2>3, <2>4 DEF RunTouches
  <2> QED BY <2>1, <2>5, Zenon DEF g, y
<1>11. CASE runs /\ st.kind = "if"
  <2> DEFINE y == [f EXCEPT !.truth = Truth(loads)]
  <2>1. g = y  BY <1>11 DEF Run, Updates
  <2> HIDE DEF loads, g
  <2>2. y.heap = f.heap /\ y.slab = f.slab /\ y.local = f.local /\ y.bound \subseteq f.bound \cup Names
    BY <1>0 DEF Fields
  <2> HIDE DEF y
  <2>3. Goal(y)  BY <1>01, <2>2, Zenon
  <2> QED BY <2>1, <2>3, Zenon DEF g, y
<1>13. st.kind \in {"assign", "aug", "walrus", "move", "opaque", "if", "for"} \cup Writing
  BY DEF Statements
<1> QED
  <2> HIDE DEF g
  <2>1. f.ok \in BOOLEAN  BY DEF FrameOK
  <2> QED BY <1>0, <1>1, <1>2, <1>4, <1>5, <1>7, <1>8, <1>9, <1>10, <1>11, <1>13, <2>1, Zenon DEF g

LEMMA HeapStepIs ==
  ASSUME NEW f, HeapOK(f.heap), NEW st \in Statements, NEW g, HeapStep(st, f, g)
  PROVE  /\ \A d \in Containers : d # st.base \/ st.kind \notin Writing \cup {"opaque"} => g.heap[d] = f.heap[d]
         /\ Canon(f.heap) => Canon(g.heap)
<1> DEFINE c == st.base
<1>0. c \in Containers  BY DEF Statements
<1>1. CASE g.heap = f.heap  BY <1>1, Zenon DEF Canon
<1>2. CASE st.kind \in Writing \cup {"opaque"} /\ \E key, x : g.heap = [f.heap EXCEPT ![c][key] = x]
  <2>1. PICK key, x : g.heap = [f.heap EXCEPT ![c][key] = x]  BY <1>2
  <2> DEFINE H == f.heap
             G == [H EXCEPT ![c][key] = x]
  <2>2. \A d \in Containers : d # c => G[d] = H[d]  BY DEF HeapOK
  <2>3. Canon(H) => Canon(G)
    <3> SUFFICES ASSUME Canon(H) PROVE Canon(G)  OBVIOUS
    <3>1. H = [d \in Containers |-> [k \in Keys |-> H[d][k]]]  BY Zenon DEF Canon
    <3> HIDE DEF H
    <3>2. H = [d \in Containers |-> H[d]] /\ H[c] = [k \in Keys |-> H[c][k]]  BY <1>0, <3>1
    <3> HIDE DEF G
    <3>3. G = [d \in Containers |-> IF d = c THEN [H[c] EXCEPT ![key] = x] ELSE H[d]]
      BY <1>0, <3>2 DEF G
    <3>4. G = [d \in Containers |-> G[d]] /\ G[c] = [H[c] EXCEPT ![key] = x] /\ \A d \in Containers \ {c} : G[d] = H[d]
      BY <1>0, <3>3
    <3>5. G[c] = [k \in Keys |-> G[c][k]]  BY <3>2, <3>4
    <3>6. \A d \in Containers : G[d] = [k \in Keys |-> G[d][k]]  BY <3>1, <3>4, <3>5
    <3> QED BY <3>4, <3>6 DEF Canon
  <2> QED BY <1>2, <2>1, <2>2, <2>3
<1> QED BY <1>1, <1>2 DEF HeapStep

\* An iteration begins.
LEMMA BeginAgrees ==
  ASSUME NEW b, NEW w, World(w), DomainNames(b) \cap w.ops = {}, NEW p, NEW r, NEW f, Follows(w, r, f), f.bound \subseteq Names,
         \A c \in Containers : w.plan[c] = "cell" => Elem(b, p) \in Keys /\ f.slab[c][Elem(b, p)] = <<>>
  PROVE  LET g == Begin(b, NoPlan, r, p)
             h == Begin(b, w.plan, f, p)
         IN  /\ Along(b, w, p, g, h) /\ KeptHeaps(r, f, g, h)
             /\ \A x \in Names \ DomainNames(b) : h.local[x] = f.local[x]
<1> DEFINE g == Begin(b, NoPlan, r, p)
           h == Begin(b, w.plan, f, p)
           e == Elem(b, p)
           D == DomainNames(b)
<1>1. FrameOK(r) /\ r.ok /\ r.bound = Names /\ Full(f) /\ FrameOK(f) /\ f.ok
  BY Zenon DEF Follows, Full
<1>2. D \subseteq Names  BY ContainersApart
<1>3. /\ DOMAIN r = Fields /\ DOMAIN f = Fields /\ DOMAIN r.local = Names /\ DOMAIN f.local = Names
  BY <1>1, Zenon DEF FrameOK, Fields
<1> DEFINE i == <<Elem(b, p)>>
           v == <<b.values[p]>>
           Local(x) == [n \in Names |-> IF n = "i" /\ HasIndex(b) THEN i ELSE IF n = "v" /\ b.domain # "range" THEN v ELSE x[n]]
<1> DEFINE Begun(plan, x, y) ==
             /\ FrameOK(y) /\ y.heap = x.heap /\ y.slab = x.slab /\ y.site = x.site /\ y.ok = x.ok
             /\ y.bound = x.bound \cup D /\ y.truth = FALSE
             /\ y.cell = [c \in Containers |-> IF plan[c] = "cell" THEN x.heap[c][e] ELSE <<>>]
             /\ \A n \in Names : y.local[n] = Local(x.local)[n]
<1>4. ASSUME NEW plan, NEW x, FrameOK(x) PROVE Begun(plan, x, Begin(b, plan, x, p))
  <2> DEFINE cell == [c \in Containers |-> IF plan[c] = "cell" THEN x.heap[c][e] ELSE <<>>]
             y == [x EXCEPT !.local["i"] = IF HasIndex(b) THEN i ELSE @,
                            !.local["v"] = IF b.domain = "range" THEN @ ELSE v,
                            !.bound = @ \cup D, !.cell = cell, !.truth = FALSE]
  <2>1. Begin(b, plan, x, p) = y  BY DEF Begin
  <2>2. DOMAIN x = Fields /\ DOMAIN x.local = Names  BY <1>4, Zenon DEF FrameOK, Fields
  <2> HIDE DEF i, v, cell, D
  <2>3. /\ y.heap = x.heap /\ y.slab = x.slab /\ y.site = x.site /\ y.ok = x.ok
        /\ y.bound = x.bound \cup D /\ y.truth = FALSE /\ y.cell = cell /\ DOMAIN y = Fields /\ DOMAIN y.local = Names
    BY <2>2 DEF Fields, Names
  <2>4. \A n \in Names : y.local[n] = Local(x.local)[n]  BY <2>2 DEF Fields, Names
  <2> HIDE DEF y
  <2>5. FrameOK(y)  BY <1>4, <2>3 DEF FrameOK, Fields
  <2> HIDE DEF Local
  <2> QED BY <2>1, <2>3, <2>4, <2>5, Zenon DEF cell
<1> HIDE DEF i, v
<1>5. /\ FrameOK(g) /\ g.heap = r.heap /\ g.ok = r.ok /\ g.bound = Names /\ g.truth = FALSE
      /\ \A n \in Names : g.local[n] = Local(r.local)[n]
  <2>1. Begun(NoPlan, r, g)
    <3> HIDE DEF Begun
    <3> QED BY <1>1, <1>4, Zenon
  <2>2. Names \cup D = Names  BY <1>2
  <2> HIDE DEF D, Local, g
  <2> QED BY <1>1, <2>1, <2>2
<1>6. /\ FrameOK(h) /\ h.heap = f.heap /\ h.slab = f.slab /\ h.site = f.site /\ h.ok = f.ok /\ h.bound = f.bound \cup D
      /\ h.truth = FALSE /\ h.cell = [c \in Containers |-> IF w.plan[c] = "cell" THEN f.heap[c][e] ELSE <<>>]
      /\ \A n \in Names : h.local[n] = Local(f.local)[n]
  <2>1. Begun(w.plan, f, h)
    <3> HIDE DEF Begun
    <3> QED BY <1>1, <1>4, Zenon
  <2> HIDE DEF D, Local, h
  <2> QED BY <2>1
<1>7. \A n \in Names \ D : Local(r.local)[n] = r.local[n] /\ Local(f.local)[n] = f.local[n]
  BY DEF DomainNames
<1>8. \A n \in D : Local(f.local)[n] = Local(r.local)[n]  BY DEF DomainNames, Names
<1>9. HasIndex(b) => Local(r.local)["i"] = i /\ "i" \in D  BY DEF Names, DomainNames
<1> HIDE DEF g, h, Local, D
<1>10. Full(h)  BY <1>1, <1>6 DEF Full
<1>11. \A c, k : View(h, c, k) = View(f, c, k)  BY <1>6, Zenon DEF View
<1>12. \A x \in h.bound \ w.ops : h.local[x] = g.local[x]
  <2> SUFFICES ASSUME NEW x \in h.bound \ w.ops PROVE h.local[x] = g.local[x]  OBVIOUS
  <2>1. CASE x \in D  BY <1>2, <1>5, <1>6, <1>8, <2>1
  <2>2. CASE x \notin D /\ x \in Names
    <3>1. x \in f.bound \ w.ops  BY <1>6, <2>2
    <3>2. f.local[x] = r.local[x]  BY <3>1 DEF Follows
    <3> QED BY <1>5, <1>6, <1>7, <2>2, <3>2
  <2>3. x \in Names  BY <1>2, <1>6
  <2> QED BY <2>1, <2>2, <2>3
<1>13. \A n \in w.ops : g.local[n] = Folded(w.by[n], w.start[n], h.site[n])
  <2> SUFFICES ASSUME NEW n \in w.ops PROVE g.local[n] = Folded(w.by[n], w.start[n], h.site[n])
    OBVIOUS
  <2>1. n \in Names \ D  BY DEF World, D
  <2>2. r.local[n] = Folded(w.by[n], w.start[n], f.site[n])  BY Zenon DEF Follows
  <2> QED BY <1>5, <1>6, <1>7, <2>1, <2>2, Zenon
<1>14. Follows(w, g, h)  BY <1>1, <1>5, <1>6, <1>10, <1>11, <1>12, <1>13 DEF Follows
<1>15. \A c \in Containers : w.plan[c] = "cell" /\ <<c, e>> \notin w.foreign => h.cell[c] = g.heap[c][e]
  <2> SUFFICES ASSUME NEW c \in Containers, w.plan[c] = "cell", <<c, e>> \notin w.foreign PROVE h.cell[c] = g.heap[c][e]
    OBVIOUS
  <2>1. h.cell[c] = f.heap[c][e]  BY <1>6
  <2>2. e \in Keys /\ f.slab[c][e] = <<>>  OBVIOUS
  <2>3. View(f, c, e) = r.heap[c][e]  BY <2>2 DEF Follows
  <2>4. View(f, c, e) = f.heap[c][e]  BY <2>2, Zenon DEF View
  <2> QED BY <1>5, <2>1, <2>3, <2>4
<1>16. HasIndex(b) => "i" \in h.bound \ w.ops /\ g.local["i"] = <<Elem(b, p)>>
  <2> SUFFICES ASSUME HasIndex(b) PROVE "i" \in h.bound \ w.ops /\ g.local["i"] = <<Elem(b, p)>>
    OBVIOUS
  <2>1. "i" \in D /\ "i" \in Names /\ g.local["i"] = i  BY <1>2, <1>5, <1>9
  <2> QED BY <1>6, <2>1 DEF i, D
<1>17. Along(b, w, p, g, h)  BY <1>5, <1>6, <1>14, <1>15, <1>16, Zenon DEF Along
<1>18. KeptHeaps(r, f, g, h)  BY <1>5, <1>6, Zenon DEF KeptHeaps
<1>19. \A x \in Names \ D : h.local[x] = f.local[x]  BY <1>6, <1>7
<1> QED BY <1>17, <1>18, <1>19 DEF g, h, D

-----------------------------------------------------------------------------
(* An iteration of a chunk beside the loop's *)

LEMMA TouchingStep ==
  ASSUME NEW F, NEW g, NEW k \in Nat \ {0}
  PROVE  /\ Touching(F, g, k - 1) \subseteq Touching(F, g, k)
         /\ F[k].kind \in Writing /\ ~Skips(g[k - 1], F[k]) => <<F[k].base, IndexValue(F[k].ix, g[k - 1])>> \in Touching(F, g, k)
         /\ \A t \in Touching(F, g, k) : \/ t \in Touching(F, g, k - 1)
                                         \/ /\ F[k].kind \in Writing /\ ~Skips(g[k - 1], F[k])
                                            /\ t = <<F[k].base, IndexValue(F[k].ix, g[k - 1])>>
<1> DEFINE I(n) == {m \in 1 .. n : F[m].kind \in Writing /\ ~Skips(g[m - 1], F[m])}
           pair(l) == <<F[l].base, IndexValue(F[l].ix, g[l - 1])>>
<1>1. \A n : Touching(F, g, n) = {pair(l) : l \in I(n)}  BY Zenon DEF Touching
<1>2. I(k - 1) \subseteq I(k) /\ (\A l \in I(k) : l \in I(k - 1) \/ l = k)  OBVIOUS
<1>3. (F[k].kind \in Writing /\ ~Skips(g[k - 1], F[k])) <=> k \in I(k)  OBVIOUS
<1> HIDE DEF I, pair
<1>4. Touching(F, g, k - 1) \subseteq Touching(F, g, k)  BY <1>1, <1>2
<1>5. k \in I(k) => pair(k) \in Touching(F, g, k)  BY <1>1
<1>6. \A t \in Touching(F, g, k) : t \in Touching(F, g, k - 1) \/ (k \in I(k) /\ t = pair(k))
  BY <1>1, <1>2
<1> QED BY <1>3, <1>4, <1>5, <1>6, Zenon DEF pair

LEMMA EffectsStep ==
  ASSUME NEW b, NEW w, World(w), NEW p, NEW F, NEW g, NEW k \in Nat \ {0}, NEW r, NEW f, NEW y, NEW z,
         Effects(b, w, p, F, k - 1, r, f, g[k - 1], y, Touching(F, g, k - 1)), FrameOK(y), HeapOK(y.slab),
         F[k] \in Statements, RunTouches(w.plan, F[k], y, z), Effect(w, F[k], g[k - 1], y, g[k], z),
         Renames(F[k]) => F[k].name \notin DomainNames(b)
  PROVE  Effects(b, w, p, F, k, r, f, g[k], z, Touching(F, g, k))
<1> DEFINE st == F[k]
           T == Touching(F, g, k - 1)
           U == Touching(F, g, k)
           x == g[k - 1]
           pair == <<st.base, IndexValue(st.ix, x)>>
           hit == st.kind \in Writing /\ ~Skips(x, st)
<1>0. st.base \in Containers /\ k \in 1 .. k /\ \A l \in 1 .. k - 1 : l \in 1 .. k
  BY DEF Statements
<1>1. T \subseteq U /\ (hit => pair \in U) /\ \A t \in U : t \in T \/ (hit /\ t = pair)
  BY TouchingStep, Zenon
<1> HIDE DEF T, U, hit, pair
<1>2. /\ Off(r, f, x, y, T) /\ Kept(w, f, y, T) /\ Still(w, F, k - 1, f, y) /\ Filled(b, w, p, F, k - 1, f, y)
      /\ (Canon(f.heap) => Canon(y.heap)) /\ Named(b, F, k - 1, f, y) /\ y.bound \subseteq Names
  BY Zenon DEF Effects, T
<1>3. HeapOK(y.heap)  BY Zenon DEF FrameOK
<1>4. HeapStep(st, y, z) /\ z.bound \subseteq y.bound \cup Names /\ \A n \in Names : (Renames(st) /\ n = st.name) \/ z.local[n] = y.local[n]
  BY Zenon DEF RunTouches
<1>5. /\ \A d \in Containers : d # st.base \/ st.kind \notin Writing \cup {"opaque"} => z.heap[d] = y.heap[d]
      /\ Canon(y.heap) => Canon(z.heap)
  BY <1>3, <1>4, HeapStepIs, Zenon
<1>8. Off(r, f, g[k], z, U) /\ Kept(w, f, z, U)
  <2>1. CASE hit
    <3>1. Marks(w, st.base, IndexValue(st.ix, x), x, y, g[k], z)  BY <2>1, Zenon DEF Effect, hit
    <3>2. \A d \in Containers, key \in Keys :
            <<d, key>> # pair => g[k].heap[d][key] = x.heap[d][key] /\ z.heap[d][key] = y.heap[d][key] /\ z.slab[d][key] = y.slab[d][key]
      BY <3>1, Zenon DEF Marks, pair
    <3>3. /\ \A d \in Containers, key \in Keys : y.slab[d][key] # <<>> => z.slab[d][key] # <<>>
          /\ \A d \in Containers, key \in Keys : w.plan[d] = "dict" /\ <<d, key>> = pair => z.slab[d][key] # <<>>
      BY <3>1 DEF Marks, pair
    <3>4. Off(r, f, g[k], z, U)
      <4> SUFFICES ASSUME NEW d \in Containers, NEW key \in Keys, <<d, key>> \notin U
                   PROVE  g[k].heap[d][key] = r.heap[d][key] /\ z.heap[d][key] = f.heap[d][key] /\ z.slab[d][key] = f.slab[d][key]
        BY Zenon DEF Off
      <4>1. <<d, key>> \notin T /\ <<d, key>> # pair  BY <1>1, <2>1
      <4>2. x.heap[d][key] = r.heap[d][key] /\ y.heap[d][key] = f.heap[d][key] /\ y.slab[d][key] = f.slab[d][key]
        BY <1>2, <4>1, Zenon DEF Off
      <4>3. g[k].heap[d][key] = x.heap[d][key] /\ z.heap[d][key] = y.heap[d][key] /\ z.slab[d][key] = y.slab[d][key]
        BY <3>2, <4>1, Zenon
      <4> QED BY <4>2, <4>3, Zenon
    <3>5. Kept(w, f, z, U)  BY <1>1, <1>2, <3>3, Zenon DEF Kept
    <3> QED BY <3>4, <3>5
  <2>2. CASE ~hit
    <3>1. KeptHeaps(x, y, g[k], z)  BY <2>2, Zenon DEF Effect, hit
    <3>2. U = T  BY <1>1, <2>2
    <3>3. Off(r, f, g[k], z, U)
      <4>1. Off(r, f, g[k], z, T)  BY <1>2, <3>1 DEF Off, KeptHeaps
      <4> QED BY <3>2, <4>1, Zenon
    <3>4. Kept(w, f, z, U)  BY <1>2, <3>1, <3>2, Zenon DEF Kept, KeptHeaps
    <3> QED BY <3>3, <3>4
  <2> QED BY <2>1, <2>2
<1>9. Still(w, F, k, f, z)
  <2> SUFFICES ASSUME NEW d \in Containers, \A l \in 1 .. k : ~InPlaceOf(w, d, F[l]) PROVE z.heap[d] = f.heap[d]
    BY Zenon DEF Still
  <2>1. y.heap[d] = f.heap[d]  BY <1>0, <1>2, Zenon DEF Still
  <2>2. ~InPlaceOf(w, d, st)  BY <1>0
  <2>3. z.heap[d] = y.heap[d]
    <3>1. CASE d # st.base \/ st.kind \notin Writing \cup {"opaque"}  BY <1>5, <3>1
    <3>2. CASE ~(d # st.base \/ st.kind \notin Writing \cup {"opaque"})
      <4>1. w.plan[st.base] # "none" /\ st.kind \in {"store", "augstore"}
        BY <2>2, <3>2 DEF InPlaceOf
      <4>2. z.heap = y.heap  BY <4>1, Zenon DEF RunTouches
      <4> QED BY <4>2
    <3> QED BY <3>1, <3>2
  <2> QED BY <2>1, <2>3
<1>10. Filled(b, w, p, F, k, f, z)
  <2> SUFFICES ASSUME NEW d \in Containers, NEW key \in Keys, f.slab[d][key] = <<>>, z.slab[d][key] # <<>>
               PROVE  \E l \in 1 .. k : F[l].kind \in {"store", "augstore", "nested"} /\ F[l].base = d
    BY Zenon DEF Filled
  <2>1. CASE y.slab[d][key] # <<>>  BY <1>0, <1>2, <2>1, Zenon DEF Filled
  <2>2. CASE y.slab[d][key] = <<>>
    <3>1. st.kind \in {"store", "augstore", "nested"}  BY <2>2, Zenon DEF RunTouches
    <3>2. hit /\ <<d, key>> = pair
      <4>1. hit
        <5> SUFFICES ASSUME ~hit PROVE FALSE  OBVIOUS
        <5>1. KeptHeaps(x, y, g[k], z)  BY Zenon DEF Effect, hit
        <5> QED BY <2>2, <5>1 DEF KeptHeaps
      <4>2. Marks(w, st.base, IndexValue(st.ix, x), x, y, g[k], z)  BY <4>1, Zenon DEF Effect, hit
      <4> QED BY <2>2, <4>1, <4>2, Zenon DEF Marks, pair
    <3>3. d = st.base  BY <3>2 DEF pair
    <3> QED BY <1>0, <3>1, <3>3
  <2> QED BY <2>1, <2>2
<1>11. Named(b, F, k, f, z)
  <2> SUFFICES ASSUME NEW n \in Names \ DomainNames(b), \A l \in 1 .. k : Renames(F[l]) => F[l].name # n
               PROVE  z.local[n] = f.local[n]  BY Zenon DEF Named
  <2>1. y.local[n] = f.local[n]  BY <1>0, <1>2, Zenon DEF Named
  <2>2. z.local[n] = y.local[n]  BY <1>0, <1>4, Zenon
  <2> QED BY <2>1, <2>2
<1>12. z.bound \subseteq Names  BY <1>2, <1>4
<1> QED BY <1>2, <1>5, <1>8, <1>9, <1>10, <1>11, <1>12, Zenon DEF Effects, U

LEMMA ConfinedStep ==
  ASSUME NEW b, WellFormed(b), NEW p, NEW F, NEW g, NEW k \in Nat \ {0}, Confined(b, p, Touching(F, g, k - 1)),
         HasIndex(b) => g[k - 1].local["i"] = <<Elem(b, p)>>, NEW n \in DOMAIN b.stmts, Like(F[k], b.stmts[n])
  PROVE  Confined(b, p, Touching(F, g, k))
<1> SUFFICES ASSUME NEW c \in Containers, NEW key, <<c, key>> \in Touching(F, g, k), OwnWrites(b, c)
             PROVE  key = Elem(b, p)  BY DEF Confined
<1>1. CASE <<c, key>> \in Touching(F, g, k - 1)  BY <1>1, Zenon DEF Confined
<1>2. CASE F[k].kind \in Writing /\ <<c, key>> = <<F[k].base, IndexValue(F[k].ix, g[k - 1])>>
  <2>1. F[k].kind = b.stmts[n].kind /\ F[k].base = b.stmts[n].base /\ F[k].ix = b.stmts[n].ix
    BY StmtsAre, LikeIs, Zenon
  <2>2. c = F[k].base /\ key = IndexValue(F[k].ix, g[k - 1])  BY <1>2
  <2>3. AtIndex(b, F[k].ix)  BY <1>2, <2>1, <2>2, Zenon DEF OwnWrites
  <2>4. g[k - 1].local["i"] = <<Elem(b, p)>> /\ F[k].ix.form = "var" /\ F[k].ix.name = "i"
    BY <2>3, Zenon DEF AtIndex
  <2> QED BY <2>2, <2>4 DEF IndexValue
<1> QED BY <1>1, <1>2, TouchingStep, Zenon

LEMMA LikeFits ==
  ASSUME NEW b, NEW w, NEW p, NEW st \in Statements, Fits(b, w, p, st), NEW s \in Statements, Like(s, st)
  PROVE  Fits(b, w, p, s)
<1>1. /\ s.kind = st.kind /\ s.name = st.name /\ s.base = st.base /\ s.ix = st.ix /\ s.uses = st.uses
      /\ s.form = st.form /\ s.arm = st.arm /\ s.op = st.op
  BY DEF Like, Statements
<1>2. Needs(s) = Needs(st) /\ Renames(s) = Renames(st) /\ Updates(s) = Updates(st)
  BY <1>1, Zenon DEF Needs, Renames, Updates
<1>3. ReadsFit(b, w, p, s) = ReadsFit(b, w, p, st) /\ WritesFit(b, w, p, s) = WritesFit(b, w, p, st)
  BY <1>1, Zenon DEF ReadsFit, WritesFit
<1>4. NamesFit(b, w, s) = NamesFit(b, w, st)  BY <1>1, <1>2, Zenon DEF NamesFit
<1> QED BY <1>1, <1>3, <1>4, Zenon DEF Fits

\* What a statement reads at a quotient of the index is as it was when the
\* iteration began.
LEMMA DividedAt ==
  ASSUME NEW b, WellFormed(b), NEW w, NEW p, Suits(b, w, p), NEW r, NEW f, Ready(b, w, p, r, f),
         NEW F, NEW k \in Nat \ {0}, \A l \in 1 .. k : \E m \in DOMAIN b.stmts : Like(F[l], b.stmts[m]),
         NEW n \in DOMAIN b.stmts, InPlace(b, F, k, n), F[k].kind # "for",
         NEW x, NEW y, Along(b, w, p, x, y), NEW T, Effects(b, w, p, F, k - 1, r, f, x, y, T), Confined(b, p, T)
  PROVE  Divided(b, w, p, x, y, F[k])
<1> DEFINE e == Elem(b, p)
<1>1. /\ F[k].kind = b.stmts[n].kind /\ F[k].uses = b.stmts[n].uses
      /\ \A m \in DOMAIN b.stmts : b.stmts[m] \in Statements
  <2>1. \A m \in DOMAIN b.stmts : b.stmts[m] \in Statements  BY StmtsAre, Zenon
  <2>2. Like(F[k], b.stmts[n])  BY Zenon DEF InPlace
  <2>3. F[k].kind = b.stmts[n].kind /\ F[k].uses = b.stmts[n].uses  BY <2>1, <2>2, LikeIs, Zenon
  <2> QED BY <2>1, <2>3
<1> SUFFICES ASSUME NEW u \in Range(F[k].uses), u.name \in Containers \ w.whole, AtQuotient(b, u.ix)
             PROVE  y.heap[u.name][e \div u.ix.by] = x.heap[u.name][e \div u.ix.by]  BY DEF Divided
<1> DEFINE q == e \div u.ix.by
           c == u.name
<1>2. Divides(b, w, n, u)  BY <1>1, Zenon DEF Divides
<1>3. Quotient(b, w, p, n, u)  BY <1>2, Zenon DEF Suits
<1>4. q \in Keys /\ OwnWrites(b, c) /\ c \in Containers  BY <1>3, Zenon DEF Quotient
<1>5. /\ Off(r, f, x, y, T) /\ Filled(b, w, p, F, k - 1, f, y) /\ Follows(w, x, y)
  BY Zenon DEF Effects, Along
<1>6. CASE q # e
  <2>1. <<c, q>> \notin T  BY <1>4, <1>6, Zenon DEF Confined
  <2>2. x.heap[c][q] = r.heap[c][q] /\ y.heap[c][q] = f.heap[c][q]
    BY <1>4, <1>5, <2>1, Zenon DEF Off
  <2>3. f.heap[c][q] = r.heap[c][q]  BY <1>2, <1>6, Zenon DEF Ready
  <2> QED BY <2>2, <2>3, Zenon
<1>7. CASE q = e
  <2>1. /\ <<c, q>> \notin w.foreign
        /\ \A m \in DOMAIN b.stmts : b.stmts[m].base = c /\ b.stmts[m].kind \in {"store", "augstore"} =>
             ~ (m < n) /\ b.stmts[n].arm # "loop"
    BY <1>3, <1>7, Zenon DEF Quotient
  <2>2. View(y, c, q) = x.heap[c][q]  BY <1>4, <1>5, <2>1, Zenon DEF Follows
  <2>3. y.slab[c][q] = <<>>
    <3>1. CASE w.plan[c] = "none"  BY <1>4, <1>5, <3>1, Zenon DEF Follows
    <3>2. CASE w.plan[c] # "none"
      <4>1. w.plan[c] \in {"list", "cell"}
        <5>1. b.stmts[n].kind # "for" /\ u \in Range(b.stmts[n].uses) /\ c \in Containers \ w.whole
          BY <1>2, Zenon DEF Divides
        <5>2. ReadsFit(b, w, p, b.stmts[n])  BY <5>1, Zenon DEF Suits, Fits
        <5>3. AtQuotient(b, u.ix) /\ ~AtIndex(b, u.ix)  BY DEF AtQuotient, AtIndex
        <5>4. w.plan[c] \in {"none", "list", "cell"}  BY <5>1, <5>2, <5>3, Zenon DEF ReadsFit
        <5> QED BY <3>2, <5>4
      <4>2. f.slab[c][q] = <<>>  BY <1>4, <1>7, <4>1, Zenon DEF Ready
      <4>3. ASSUME NEW l \in 1 .. k - 1, F[l].kind \in {"store", "augstore", "nested"}, F[l].base = c PROVE FALSE
        <5>0. l \in 1 .. k  OBVIOUS
        <5>1. PICK m \in DOMAIN b.stmts : Like(F[l], b.stmts[m])  BY <5>0
        <5>2. F[l].kind = b.stmts[m].kind /\ F[l].base = b.stmts[m].base
          BY <1>1, <5>1, LikeIs, Zenon
        <5>3. b.stmts[m].kind # "nested"
          <6>1. WritesFit(b, w, p, b.stmts[m])  BY Zenon DEF Suits, Fits
          <6>2. b.stmts[m].kind \in Writing  BY <4>3, <5>2 DEF Writing
          <6> QED BY <3>2, <4>3, <5>2, <6>1, <6>2 DEF WritesFit
        <5>4. b.stmts[m].kind \in {"store", "augstore"} /\ b.stmts[m].base = c  BY <4>3, <5>2, <5>3
        <5>5. b.stmts[n].arm # "loop"  BY <2>1, <5>4, Zenon
        <5>6. F[l].kind # "for" /\ b.stmts[n].kind # "for"  BY <1>1, <4>3
        <5>7. PICK o \in 1 .. n - 1 : F[l] = b.stmts[o]  BY <5>5, <5>6, Zenon DEF InPlace
        <5>8. o \in DOMAIN b.stmts /\ o < n
          <6>1. DOMAIN b.stmts = 1 .. Len(b.stmts) /\ Len(b.stmts) \in Nat  BY StmtsAre, Zenon
          <6> QED BY <6>1
        <5>9. b.stmts[o].base = c /\ b.stmts[o].kind \in {"store", "augstore"}
          BY <4>3, <5>2, <5>4, <5>7, Zenon
        <5> QED BY <2>1, <5>8, <5>9, Zenon
      <4> QED BY <1>4, <1>5, <4>2, <4>3, Zenon DEF Filled
    <3> QED BY <3>1, <3>2
  <2> QED BY <2>2, <2>3, Zenon DEF View
<1> QED BY <1>6, <1>7

LEMMA BeginsWell ==
  ASSUME NEW b, NEW plan, NEW f, FrameOK(f), NEW p PROVE HasBegun(b, f, Begin(b, plan, f, p))
<1> DEFINE g == Begin(b, plan, f, p)
<1>1. /\ FrameOK(g) /\ g.heap = f.heap /\ g.ok = f.ok /\ g.bound = f.bound \cup DomainNames(b)
      /\ HasIndex(b) => g.local["i"] = <<Elem(b, p)>>
  BY BeginIs
<1> HIDE DEF g
<1>2. HasBegun(b, f, g)  BY <1>1, Zenon DEF HasBegun
<1> QED BY <1>2, Zenon DEF g

LEMMA GoesFirst ==
  ASSUME NEW b, WellFormed(b), NEW w, NEW p, Suits(b, w, p), NEW r, NEW f, Ready(b, w, p, r, f),
         NEW F, NEW g, NEW h, g[0] = Begin(b, NoPlan, r, p), h[0] = Begin(b, w.plan, f, p)
  PROVE  Goes(b, w, p, F, 0, r, f, g, h)
<1>1. /\ Follows(w, r, f) /\ GoesOn(b, f) /\ f.bound \subseteq Names /\ Full(f) /\ FrameOK(f)
      /\ World(w) /\ DomainNames(b) \cap w.ops = {}
      /\ \A c \in Containers : w.plan[c] = "cell" => Elem(b, p) \in Keys /\ f.slab[c][Elem(b, p)] = <<>>
  <2>1. Follows(w, r, f) /\ GoesOn(b, f) /\ f.bound \subseteq Names /\ World(w) /\ DomainNames(b) \cap w.ops = {}
    BY Zenon DEF Ready, Suits
  <2>2. \A c \in Containers : w.plan[c] \in {"list", "cell"} => Elem(b, p) \in Keys /\ f.slab[c][Elem(b, p)] = <<>>
    BY Zenon DEF Ready
  <2>3. Full(f) /\ FrameOK(f)  BY <2>1, Zenon DEF Follows, Full
  <2> QED BY <2>1, <2>2, <2>3
<1>2. /\ Along(b, w, p, g[0], h[0]) /\ KeptHeaps(r, f, g[0], h[0])
      /\ \A x \in Names \ DomainNames(b) : h[0].local[x] = f.local[x]
  <2> DEFINE x0 == Begin(b, NoPlan, r, p)
             y0 == Begin(b, w.plan, f, p)
  <2>1. /\ Along(b, w, p, x0, y0) /\ KeptHeaps(r, f, x0, y0)
        /\ \A x \in Names \ DomainNames(b) : y0.local[x] = f.local[x]
    BY <1>1, BeginAgrees
  <2> HIDE DEF x0, y0
  <2>2. g[0] = x0 /\ h[0] = y0  BY Zenon DEF x0, y0
  <2> QED BY <2>1, <2>2, Zenon
<1>3. FrameOK(h[0]) /\ h[0].ok = f.ok /\ h[0].bound = f.bound \cup DomainNames(b)
  <2> DEFINE y0 == Begin(b, w.plan, f, p)
  <2>1. FrameOK(y0) /\ y0.ok = f.ok /\ y0.bound = f.bound \cup DomainNames(b)
    <3>1. FrameOK(f)  BY <1>1
    <3>2. HasBegun(b, f, y0)  BY <3>1, BeginsWell, Zenon
    <3> QED BY <3>2, Zenon DEF HasBegun
  <2> HIDE DEF y0
  <2>2. h[0] = y0  BY Zenon DEF y0
  <2> QED BY <2>1, <2>2, Zenon
<1>4. Reaches(b, F, 0, h[0])  BY <1>1, <1>3 DEF Reaches, GoesOn
<1>5. Touching(F, g, 0) = {}  BY DEF Touching
<1>6. Confined(b, p, {})  BY DEF Confined
<1>7. Effects(b, w, p, F, 0, r, f, g[0], h[0], {})
  <2>1. Off(r, f, g[0], h[0], {}) /\ Kept(w, f, h[0], {})  BY <1>2 DEF Off, Kept, KeptHeaps
  <2>2. Still(w, F, 0, f, h[0]) /\ Filled(b, w, p, F, 0, f, h[0]) /\ Named(b, F, 0, f, h[0])
    BY <1>2 DEF Still, Filled, Named, KeptHeaps
  <2>3. Canon(f.heap) => Canon(h[0].heap)  BY <1>2, Zenon DEF KeptHeaps
  <2>4. h[0].bound \subseteq Names  BY <1>1, <1>3, ContainersApart
  <2> QED BY <2>1, <2>2, <2>3, <2>4, Zenon DEF Effects
<1> QED BY <1>2, <1>4, <1>5, <1>6, <1>7, Zenon DEF Goes

LEMMA GoesStep ==
  ASSUME NEW b, WellFormed(b), Parallel(b), ~BindsMaybe(b), NEW w, NEW p, Suits(b, w, p),
         NEW r, NEW f, Ready(b, w, p, r, f),
         NEW F, NEW k \in Nat \ {0}, \A l \in 1 .. k : \E m \in DOMAIN b.stmts : Like(F[l], b.stmts[m]),
         NEW n \in DOMAIN b.stmts, InPlace(b, F, k, n), F[k] \in Statements, F[k].kind \notin {"break", "return"},
         NEW g, NEW h, Goes(b, w, p, F, k - 1, r, f, g, h),
         g[k] = Run(b, NoPlan, {}, p, g[k - 1], F[k]), h[k] = Run(b, w.plan, w.ops, p, h[k - 1], F[k])
  PROVE  Goes(b, w, p, F, k, r, f, g, h)
<1> DEFINE x == g[k - 1]
           y == h[k - 1]
           st == F[k]
           T == Touching(F, g, k - 1)
<1>1. /\ Along(b, w, p, x, y) /\ Reaches(b, F, k - 1, y) /\ Effects(b, w, p, F, k - 1, r, f, x, y, T)
      /\ Confined(b, p, T)
  BY Zenon DEF Goes
<1>2. World(w) /\ PlanOK(w.plan) /\ RowsApart(b, w.plan) /\ Fits(b, w, p, b.stmts[n]) /\ Like(st, b.stmts[n])
  BY Zenon DEF Suits, World, InPlace
<1>3. Fits(b, w, p, st)  BY <1>2, StmtsAre, LikeFits, Zenon
<1>4. Skips(y, st) \/ NeedsOf(st, w.ops) \subseteq y.bound  BY <1>1, HasWhatItNeeds
<1>5. st.kind # "for" => Divided(b, w, p, x, y, st)  BY <1>1, DividedAt, Zenon
<1> HIDE DEF x, y, T
<1>6. Agrees(b, w, p, st, x, y, g[k], h[k])
  <2>1. Agrees(b, w, p, st, x, y, Run(b, NoPlan, {}, p, x, st), Run(b, w.plan, w.ops, p, y, st))
    BY <1>1, <1>2, <1>3, <1>4, <1>5, RunAgrees, Zenon
  <2> QED BY <2>1, Zenon DEF x, y
<1>7. Along(b, w, p, g[k], h[k]) /\ Effect(w, st, x, y, g[k], h[k])  BY <1>6, Zenon DEF Agrees
<1>8. Reaches(b, F, k, h[k])
  <2>1. Reaches(b, F, k, Run(b, w.plan, w.ops, p, y, st))  BY <1>1, <1>2, RunReaches
  <2> QED BY <2>1, Zenon DEF y
<1>9. FrameOK(y) /\ HeapOK(y.slab)  BY <1>1, Zenon DEF Along, Follows, Full
<1>10. RunTouches(w.plan, st, y, h[k])
  <2>1. RunTouches(w.plan, st, y, Run(b, w.plan, w.ops, p, y, st))  BY <1>2, <1>9, RunTouch, Zenon
  <2> QED BY <2>1, Zenon DEF y
<1>11. Renames(st) => st.name \notin DomainNames(b)  BY <1>3, Zenon DEF Fits, NamesFit
<1>12. Effects(b, w, p, F, k, r, f, g[k], h[k], Touching(F, g, k))
  <2>1. Effects(b, w, p, F, k - 1, r, f, g[k - 1], y, Touching(F, g, k - 1)) /\ Effect(w, st, g[k - 1], y, g[k], h[k])
    BY <1>1, <1>7, Zenon DEF x, T
  <2> QED BY <1>2, <1>9, <1>10, <1>11, <2>1, EffectsStep, Zenon
<1>13. Confined(b, p, Touching(F, g, k))
  <2>1. HasIndex(b) => g[k - 1].local["i"] = <<Elem(b, p)>>  BY <1>1, Zenon DEF Along, x
  <2>2. Confined(b, p, Touching(F, g, k - 1))  BY <1>1, Zenon DEF T
  <2> QED BY <1>2, <2>1, <2>2, ConfinedStep, Zenon
<1> QED BY <1>7, <1>8, <1>12, <1>13, Zenon DEF Goes

LEMMA IterationFollows ==
  ASSUME NEW b, WellFormed(b), Parallel(b), ~BindsMaybe(b), NEW w, NEW p, Suits(b, w, p),
         NEW r, NEW f, Ready(b, w, p, r, f), NEW g, Ran(b, NoPlan, {}, r, p, g)
  PROVE  Finishes(b, w, p, r, f, Iteration(b, NoPlan, {}, r, p), Iteration(b, w.plan, w.ops, f, p),
                  Flow(b, p), Touching(Flow(b, p), g, Len(Flow(b, p))))
<1> DEFINE F == Flow(b, p)
<1>1. Len(F) \in Nat  BY IterationRan
<1>2. PICK h : Ran(b, w.plan, w.ops, f, p, h)  BY IterationRan
<1>3. /\ \A k \in 1 .. Len(F) : g[k] = Run(b, NoPlan, {}, p, g[k - 1], F[k]) /\ h[k] = Run(b, w.plan, w.ops, p, h[k - 1], F[k])
      /\ g[0] = Begin(b, NoPlan, r, p) /\ h[0] = Begin(b, w.plan, f, p)
      /\ Iteration(b, NoPlan, {}, r, p) = g[Len(F)] /\ Iteration(b, w.plan, w.ops, f, p) = h[Len(F)]
  BY <1>2, Zenon DEF Ran
<1>4. \A k \in 1 .. Len(F) : /\ F[k] \in Statements /\ F[k].kind \notin {"break", "return"}
                             /\ \E n \in DOMAIN b.stmts : Like(F[k], b.stmts[n]) /\ InPlace(b, F, k, n)
  BY FlowStays, Zenon
<1> HIDE DEF F
<1> DEFINE S == {k \in 0 .. Len(F) : Goes(b, w, p, F, k, r, f, g, h)}
<1>5. 0 \in S  BY <1>1, <1>3, GoesFirst
<1>6. ASSUME NEW k \in 1 .. Len(F), k - 1 \in S PROVE k \in S
  <2>1. k \in Nat \ {0} /\ k \in 0 .. Len(F) /\ \A l \in 1 .. k : l \in 1 .. Len(F)  BY <1>1
  <2>2. \A l \in 1 .. k : \E m \in DOMAIN b.stmts : Like(F[l], b.stmts[m])  BY <1>4, <2>1, Zenon
  <2>3. PICK n \in DOMAIN b.stmts : InPlace(b, F, k, n)  BY <1>4
  <2>4. F[k] \in Statements /\ F[k].kind \notin {"break", "return"}  BY <1>4
  <2>5. Goes(b, w, p, F, k - 1, r, f, g, h)  BY <1>6
  <2>6. g[k] = Run(b, NoPlan, {}, p, g[k - 1], F[k]) /\ h[k] = Run(b, w.plan, w.ops, p, h[k - 1], F[k])
    BY <1>3, Zenon
  <2>7. Goes(b, w, p, F, k, r, f, g, h)  BY <2>1, <2>2, <2>3, <2>4, <2>5, <2>6, GoesStep, Zenon
  <2> QED BY <2>1, <2>7
<1> HIDE DEF S
<1>7. Len(F) \in S
  <2>1. \A k \in 0 .. Len(F) : k \in S  BY <1>1, <1>5, <1>6, UpTo
  <2> QED BY <1>1, <2>1
<1>8. Goes(b, w, p, F, Len(F), r, f, g, h)  BY <1>7, Zenon DEF S
<1>9. /\ Follows(w, g[Len(F)], h[Len(F)]) /\ GoesOn(b, h[Len(F)])
      /\ Effects(b, w, p, F, Len(F), r, f, g[Len(F)], h[Len(F)], Touching(F, g, Len(F)))
      /\ Confined(b, p, Touching(F, g, Len(F)))
  BY <1>8, Zenon DEF Goes, Along, Reaches
<1> QED BY <1>3, <1>9, Zenon DEF Finishes, F

-----------------------------------------------------------------------------
(* The loop as it was written *)

LEMMA StepsAre == ASSUME NEW b PROVE InTurn(b, Frame(StartHeap, Names), Steps(b))
BY StraightRuns, Zenon DEF Steps

LEMMA TraceIs == ASSUME NEW b, WellFormed(b), NEW q PROVE Ran(b, NoPlan, {}, Steps(b)[q], q, TraceOf(b, q))
BY IterationRan, Zenon DEF TraceOf

LEMMA NoPlanIs == \A c \in Containers : NoPlan[c] = "none"
BY DEF NoPlan

LEMMA AloneSuits == ASSUME NEW b, Plainly(b), NEW p \in Pos PROVE Suits(b, Alone, p)
<1>0. WellFormed(b)  BY Zenon DEF Plainly
<1>1. Alone.plan = NoPlan /\ Alone.ops = {} /\ Alone.whole = Containers /\ Alone.foreign = {}
  BY DEF Alone
<1> HIDE DEF Alone
<1>2. World(Alone)  BY <1>1, NoPlanIs, PlanIsOK DEF World
<1>3. RowsApart(b, Alone.plan)
  <2>1. \A n \in DOMAIN b.stmts : b.stmts[n].base \in Containers  BY <1>0, StmtsAre DEF Statements
  <2> QED BY <1>1, <2>1, NoPlanIs, Zenon DEF RowsApart
<1>4. ASSUME NEW n \in DOMAIN b.stmts PROVE Fits(b, Alone, p, b.stmts[n])
  <2>1. b.stmts[n] \in Statements /\ b.stmts[n].kind \notin {"break", "return"} /\ b.stmts[n].kind # "opaque"
    BY <1>0, StmtsAre, ParallelStays, Zenon DEF Plainly
  <2>2. Renames(b.stmts[n]) => b.stmts[n].name \notin DomainNames(b)  BY Zenon DEF Plainly
  <2>3. b.stmts[n].kind \in Writing \cup {"move"} => b.stmts[n].ix.form # "whole"
    BY <1>0 DEF WellFormed
  <2>4. HasIndex(b) => Elem(b, p) \in Keys  BY <1>0 DEF WellFormed
  <2> DEFINE st == b.stmts[n]
  <2>5. st.base \in Containers  BY <2>1 DEF Statements
  <2> HIDE DEF st
  <2>6. ReadsFit(b, Alone, p, st)  BY <1>1, Zenon DEF ReadsFit
  <2>7. WritesFit(b, Alone, p, st)
    <3>1. Alone.plan[st.base] = "none" /\ (st.kind \in Writing => st.ix.form # "whole")
      BY <1>1, <2>3, <2>5, NoPlanIs DEF st
    <3> QED BY <3>1 DEF WritesFit
  <2>8. NamesFit(b, Alone, st)  BY <1>1, <2>2 DEF NamesFit, st
  <2> QED BY <2>1, <2>3, <2>4, <2>6, <2>7, <2>8 DEF Fits, st
<1>5. \A n \in DOMAIN b.stmts : \A u : ~Divides(b, Alone, n, u)  BY <1>1 DEF Divides
<1> QED BY <1>1, <1>2, <1>3, <1>4, <1>5 DEF Suits

LEMMA BesideReady ==
  ASSUME NEW b, NEW r, NEW f, Twins(b, r, f), NEW p PROVE Ready(b, Alone, p, r, f)
<1>1. Alone.plan = NoPlan /\ Alone.whole = Containers  BY DEF Alone
<1>2. \A c \in Containers : Alone.plan[c] = "none"  BY <1>1, NoPlanIs
<1>3. \A n \in DOMAIN b.stmts : \A u : ~Divides(b, Alone, n, u)  BY <1>1 DEF Divides
<1> QED BY <1>2, <1>3 DEF Ready, Twins

LEMMA BesideStep ==
  ASSUME NEW b, Plainly(b), NEW p \in Pos, NEW r, NEW f, Twins(b, r, f), NEW g, Ran(b, NoPlan, {}, r, p, g)
  PROVE  Finishes(b, Alone, p, r, f, Iteration(b, NoPlan, {}, r, p), Iteration(b, NoPlan, {}, f, p),
                  Flow(b, p), Touching(Flow(b, p), g, Len(Flow(b, p))))
<1>1. Alone.plan = NoPlan /\ Alone.ops = {}  BY DEF Alone
<1>2. Suits(b, Alone, p) /\ Ready(b, Alone, p, r, f)  BY AloneSuits, BesideReady, Zenon
<1>3. Finishes(b, Alone, p, r, f, Iteration(b, NoPlan, {}, r, p), Iteration(b, Alone.plan, Alone.ops, f, p),
                  Flow(b, p), Touching(Flow(b, p), g, Len(Flow(b, p))))
  BY <1>2, IterationFollows, Zenon DEF Plainly
<1> QED BY <1>1, <1>3, Zenon

LEMMA FinishesBeside ==
  ASSUME NEW b, NEW p, NEW r, NEW f, NEW x, NEW y, NEW F, NEW T, Finishes(b, Alone, p, r, f, x, y, F, T)
  PROVE  Twins(b, x, y) /\ (Canon(f.heap) => Canon(y.heap))  BY Zenon DEF Finishes, Twins, Effects

\* Two runs of the loop that start alike go on alike.
LEMMA LoopTwins ==
  ASSUME NEW b, Plainly(b), NEW r, NEW f, Twins(b, r, f), NEW g, InTurn(b, r, g), NEW h, InTurn(b, f, h)
  PROVE  \A q \in 0 .. N : Twins(b, g[q], h[q]) /\ (Canon(f.heap) => Canon(h[q].heap))
<1> DEFINE S == {q \in 0 .. N : Twins(b, g[q], h[q]) /\ (Canon(f.heap) => Canon(h[q].heap))}
<1>1. N \in Nat  BY LoopBodyAssumption
<1>2. 0 \in S  BY <1>1 DEF InTurn
<1>3. ASSUME NEW q \in 1 .. N, q - 1 \in S PROVE q \in S
  <2>1. q - 1 \in Pos /\ q \in 0 .. N /\ Twins(b, g[q - 1], h[q - 1]) /\ (Canon(f.heap) => Canon(h[q - 1].heap))
    BY <1>1, <1>3 DEF Pos
  <2>2. g[q] = Iteration(b, NoPlan, {}, g[q - 1], q - 1) /\ h[q] = Iteration(b, NoPlan, {}, h[q - 1], q - 1)
    BY Zenon DEF InTurn
  <2>3. PICK t : Ran(b, NoPlan, {}, g[q - 1], q - 1, t)  BY IterationRan DEF Plainly
  <2>4. Finishes(b, Alone, q - 1, g[q - 1], h[q - 1], g[q], h[q], Flow(b, q - 1), Touching(Flow(b, q - 1), t, Len(Flow(b, q - 1))))
    BY <2>1, <2>2, <2>3, BesideStep, Zenon
  <2>5. Twins(b, g[q], h[q]) /\ (Canon(h[q - 1].heap) => Canon(h[q].heap))  BY <2>4, FinishesBeside
  <2> QED BY <2>1, <2>5
<1> HIDE DEF S
<1>4. \A q \in 0 .. N : q \in S  BY <1>1, <1>2, <1>3, UpTo
<1> QED BY <1>4, Zenon DEF S

LEMMA StartTwins ==
  ASSUME NEW b, NEW bound, bound \subseteq Names, Names \ Locals(b) \subseteq bound
  PROVE  Twins(b, Frame(StartHeap, Names), Frame(StartHeap, bound))
<1> DEFINE r == Frame(StartHeap, Names)
           f == Frame(StartHeap, bound)
<1>1. /\ DOMAIN f = Fields /\ f.heap = StartHeap /\ f.local = StartNames /\ f.bound = bound
      /\ f.cell = [c \in Containers |-> <<>>] /\ f.slab = Empty /\ f.site = [n \in Names |-> <<>>]
      /\ f.truth = FALSE /\ f.ok = TRUE
  BY DEF Frame, Fields
<1>2. /\ DOMAIN r = Fields /\ r.heap = StartHeap /\ r.local = StartNames /\ r.bound = Names
      /\ r.truth = FALSE /\ r.ok = TRUE
  BY DEF Frame, Fields
<1> HIDE DEF r, f
<1>3. HeapOK(StartHeap) /\ HeapOK(Empty) /\ DOMAIN StartNames = Names
  BY StartHeapIs DEF HeapOK, Empty, StartNames
<1>4. FrameOK(r) /\ FrameOK(f)  BY <1>1, <1>2, <1>3 DEF FrameOK, Fields
<1>5. Full(f)  BY <1>1, <1>3, <1>4 DEF Full, IsSeq
<1>6. \A c \in Containers, k \in Keys : f.slab[c][k] = <<>> /\ View(f, c, k) = f.heap[c][k]
  BY <1>1 DEF Empty, View
<1>7. Follows(Alone, r, f)  BY <1>1, <1>2, <1>4, <1>5, <1>6 DEF Follows, Alone
<1>8. GoesOn(b, f)  BY <1>1, <1>4 DEF GoesOn
<1> QED BY <1>1, <1>7, <1>8 DEF Twins, r, f

LEMMA StartCanon == Canon(StartHeap)
<1> DEFINE s(c) == CASE c = "xs" -> 10 [] c = "ys" -> 20 [] c = "ds" -> 30
<1>1. StartHeap = [c \in Containers |-> [key \in Keys |-> <<key + s(c)>>]]  BY DEF StartHeap
<1> HIDE DEF s
<1> QED BY <1>1 DEF Canon

LEMMA StepsFollow ==
  ASSUME NEW b, Plainly(b) PROVE \A q \in 0 .. N : Twins(b, Steps(b)[q], Steps(b)[q])
<1>1. Twins(b, Frame(StartHeap, Names), Frame(StartHeap, Names))  BY StartTwins
<1>2. InTurn(b, Frame(StartHeap, Names), Steps(b))  BY StepsAre
<1> QED BY <1>1, <1>2, LoopTwins, Zenon

LEMMA LoopSteps == ASSUME NEW b, Plainly(b), NEW q \in Pos PROVE StepIs(b, q)
<1> DEFINE x == Steps(b)[q]
           y == Steps(b)[q + 1]
           F == Flow(b, q)
           T == Touched(b, q)
           L == Len(F)
<1>1. q \in 0 .. N /\ q + 1 \in 1 .. N /\ (q + 1) - 1 = q  BY LoopBodyAssumption DEF Pos
<1>2. Twins(b, x, x)  BY <1>1, StepsFollow, Zenon
<1>3. y = Iteration(b, NoPlan, {}, x, q)  BY <1>1, StepsAre DEF InTurn
<1>4. Ran(b, NoPlan, {}, x, q, TraceOf(b, q))  BY TraceIs, Zenon DEF Plainly
<1>5. Finishes(b, Alone, q, x, x, y, y, F, T)  BY <1>2, <1>3, <1>4, BesideStep, Zenon DEF Touched
<1>6. L \in Nat /\ \A l \in 1 .. L : \E n \in DOMAIN b.stmts : Like(F[l], b.stmts[n])
  BY IterationRan, FlowStays DEF Plainly
<1>7. \A l \in 1 .. L : \E n \in DOMAIN b.stmts : /\ F[l].base = b.stmts[n].base /\ F[l].kind = b.stmts[n].kind
                                                  /\ F[l].name = b.stmts[n].name /\ F[l].kind # "opaque"
  <2> SUFFICES ASSUME NEW l \in 1 .. L
               PROVE \E n \in DOMAIN b.stmts : /\ F[l].base = b.stmts[n].base /\ F[l].kind = b.stmts[n].kind
                                               /\ F[l].name = b.stmts[n].name /\ F[l].kind # "opaque"
    OBVIOUS
  <2>1. PICK n \in DOMAIN b.stmts : Like(F[l], b.stmts[n])  BY <1>6
  <2>2. b.stmts[n] \in Statements /\ b.stmts[n].kind # "opaque"  BY StmtsAre, Zenon DEF Plainly
  <2>3. F[l].base = b.stmts[n].base /\ F[l].kind = b.stmts[n].kind /\ F[l].name = b.stmts[n].name
    BY <2>1, <2>2, LikeIs, Zenon
  <2> QED BY <2>2, <2>3, Zenon
<1> HIDE DEF x, y, F, T, L
<1>8. /\ Off(x, x, y, y, T) /\ Still(Alone, F, L, x, y) /\ Named(b, F, L, x, y)
      /\ (Canon(x.heap) => Canon(y.heap)) /\ Confined(b, q, T)
  BY <1>5, Zenon DEF Finishes, Effects, L
<1>9. \A d \in Containers, k \in Keys : <<d, k>> \notin T => y.heap[d][k] = x.heap[d][k]
  BY <1>8, Zenon DEF Off
<1>10. ASSUME NEW d \in Containers, \A n \in DOMAIN b.stmts : ~ (b.stmts[n].base = d /\ b.stmts[n].kind \in Writing)
       PROVE  y.heap[d] = x.heap[d]
  <2>1. \A l \in 1 .. L : ~InPlaceOf(Alone, d, F[l])
    <3> SUFFICES ASSUME NEW l \in 1 .. L, InPlaceOf(Alone, d, F[l]) PROVE FALSE  OBVIOUS
    <3>1. PICK n \in DOMAIN b.stmts : F[l].base = b.stmts[n].base /\ F[l].kind = b.stmts[n].kind /\ F[l].kind # "opaque"
      BY <1>7
    <3>2. F[l].base = d /\ F[l].kind \in Writing  BY <3>1 DEF InPlaceOf
    <3> QED BY <1>10, <3>1, <3>2, Zenon
  <2> QED BY <1>8, <2>1, Zenon DEF Still
<1>11. ASSUME NEW n \in Names \ DomainNames(b), \A m \in DOMAIN b.stmts : Renames(b.stmts[m]) => b.stmts[m].name # n
       PROVE  y.local[n] = x.local[n]
  <2>1. \A l \in 1 .. L : Renames(F[l]) => F[l].name # n  BY <1>7, <1>11, Zenon DEF Renames
  <2> QED BY <1>8, <2>1, Zenon DEF Named
<1> QED BY <1>3, <1>8, <1>9, <1>10, <1>11 DEF StepIs, x, y, T

LEMMA LoopRange ==
  ASSUME NEW b, Plainly(b), NEW lo \in 0 .. N, NEW hi \in lo .. N
  PROVE  Passed(b, lo, hi, TouchedIn(b, lo, hi))
<1> DEFINE T == TouchedIn(b, lo, hi)
           L == hi - lo
           S == {k \in 0 .. L : Passed(b, lo, lo + k, T)}
<1>1. N \in Nat /\ L \in Nat /\ lo \in Nat /\ hi \in Nat /\ lo + L = hi  BY LoopBodyAssumption
<1>2. \A q \in lo .. hi - 1 : Touched(b, q) \subseteq T  BY DEF TouchedIn
<1> HIDE DEF T
<1>3. 0 \in S
  <2>1. lo + 0 = lo  BY <1>1
  <2>2. Passed(b, lo, lo, T)  BY DEF Passed
  <2> QED BY <1>1, <2>1, <2>2
<1>4. ASSUME NEW k \in 1 .. L, k - 1 \in S PROVE k \in S
  <2> DEFINE q == lo + (k - 1)
  <2>1. q \in lo .. hi - 1 /\ q \in Pos /\ q + 1 = lo + k /\ k \in 0 .. L  BY <1>1 DEF Pos
  <2>2. Passed(b, lo, q, T)  BY <1>4
  <2> HIDE DEF q, S, L
  <2>3. StepIs(b, q)  BY <2>1, LoopSteps, Zenon
  <2>4. Touched(b, q) \subseteq T  BY <1>2, <2>1
  <2> DEFINE x == Steps(b)[lo]
             y == Steps(b)[q]
             z == Steps(b)[q + 1]
             Unnamed(n) == \A m \in DOMAIN b.stmts : Renames(b.stmts[m]) => b.stmts[m].name # n
  <2>5. /\ \A d \in Containers, l \in Keys : <<d, l>> \notin Touched(b, q) => z.heap[d][l] = y.heap[d][l]
        /\ \A d \in Containers : Unwritten(b, d) => z.heap[d] = y.heap[d]
        /\ \A n \in Names \ DomainNames(b) : Unnamed(n) => z.local[n] = y.local[n]
        /\ Canon(y.heap) => Canon(z.heap)
    BY <2>3, Zenon DEF StepIs, Unwritten
  <2>6. /\ \A d \in Containers, l \in Keys : <<d, l>> \notin T => y.heap[d][l] = x.heap[d][l]
        /\ \A d \in Containers : Unwritten(b, d) => y.heap[d] = x.heap[d]
        /\ \A n \in Names \ DomainNames(b) : Unnamed(n) => y.local[n] = x.local[n]
        /\ Canon(x.heap) => Canon(y.heap)
    BY <2>2, Zenon DEF Passed, Unwritten
  <2> HIDE DEF x, y, z, Unnamed
  <2>7. \A d \in Containers, l \in Keys : <<d, l>> \notin T => <<d, l>> \notin Touched(b, q)
    BY <2>4
  <2>8. /\ \A d \in Containers, l \in Keys : <<d, l>> \notin T => z.heap[d][l] = x.heap[d][l]
        /\ \A d \in Containers : Unwritten(b, d) => z.heap[d] = x.heap[d]
        /\ \A n \in Names \ DomainNames(b) : Unnamed(n) => z.local[n] = x.local[n]
        /\ Canon(x.heap) => Canon(z.heap)
    BY <2>5, <2>6, <2>7, Zenon
  <2>9. Passed(b, lo, q + 1, T)  BY <2>8, Zenon DEF Passed, x, z, Unwritten, Unnamed
  <2> QED BY <2>1, <2>9 DEF S
<1> HIDE DEF S
<1>5. L \in S
  <2>1. \A k \in 0 .. L : k \in S  BY <1>1, <1>3, <1>4, UpTo
  <2> QED BY <1>1, <2>1
<1> QED BY <1>1, <1>5, Zenon DEF S, T

LEMMA StepsCanon ==
  ASSUME NEW b, Plainly(b)
  PROVE  /\ Steps(b)[0] = Frame(StartHeap, Names) /\ Steps(b)[0].heap = StartHeap /\ Steps(b)[0].local = StartNames
         /\ AsWritten(b) = Steps(b)[N]
         /\ \A q \in 0 .. N : Canon(Steps(b)[q].heap)
<1>1. Steps(b)[0] = Frame(StartHeap, Names) /\ Straight(b, Frame(StartHeap, Names)) = Steps(b)[N]
  BY StepsAre, Zenon DEF InTurn
<1>2. Steps(b)[0].heap = StartHeap /\ Steps(b)[0].local = StartNames  BY <1>1 DEF Frame
<1>3. \A q \in 0 .. N : Passed(b, 0, q, TouchedIn(b, 0, q))  BY LoopRange, LoopBodyAssumption
<1>4. \A q \in 0 .. N : Canon(Steps(b)[q].heap)  BY <1>2, <1>3, StartCanon, Zenon DEF Passed
<1> QED BY <1>1, <1>2, <1>4, Zenon DEF AsWritten

LEMMA ElemsApart ==
  ASSUME NEW b, b.first \in Int, b.step \in Int \ {0}, NEW p \in Int, NEW q \in Int
  PROVE  /\ Elem(b, p) \in Int
         /\ p # q => Elem(b, p) # Elem(b, q)
         /\ b.step > 0 /\ p < q => Elem(b, p) < Elem(b, q)
<1> DEFINE s == b.step
           a == s * p
           c == s * q
<1>1. s \in Int /\ s # 0 /\ a \in Int /\ c \in Int  OBVIOUS
<1>2. p < q /\ s > 0 => a < c  BY <1>1, Z3
<1>3. q < p /\ s > 0 => c < a  BY <1>1, Z3
<1>4. p < q /\ s < 0 => c < a  BY <1>1, Z3
<1>5. q < p /\ s < 0 => a < c  BY <1>1, Z3
<1> HIDE DEF a, c
<1>6. Elem(b, p) = b.first + a /\ Elem(b, q) = b.first + c  BY Zenon DEF Elem, a, c, s
<1> QED BY <1>1, <1>2, <1>3, <1>4, <1>5, <1>6

-----------------------------------------------------------------------------
(* The code of a block *)

LEMMA ElementsAre ==
  ASSUME NEW b, WellFormed(b)
  PROVE  /\ b.first \in Int /\ b.step \in Int \ {0}
         /\ HasIndex(b) => \A p \in Pos : Elem(b, p) \in Keys
         /\ HasIndex(b) => \A p \in Pos, n \in DOMAIN b.stmts : \A u \in Range(b.stmts[n].uses) :
              u.ix.form = "div" /\ u.ix.by > 0 => Elem(b, p) \div u.ix.by \in Keys
<1> DEFINE D == {u.ix.by : u \in {v \in UNION {Range(st.uses) : st \in Range(b.stmts)} : v.ix.form = "div" /\ v.ix.by > 0}}
<1>1. /\ b.first \in Int /\ b.step \in Int \ {0}
      /\ HasIndex(b) => \A p \in Pos : Elem(b, p) \in Keys /\ \A c \in D : Elem(b, p) \div c \in Keys
  BY Zenon DEF WellFormed
<1>2. \A n \in DOMAIN b.stmts : b.stmts[n] \in Range(b.stmts)  BY StmtsAre, Zenon
<1>3. \A n \in DOMAIN b.stmts : \A u \in Range(b.stmts[n].uses) : u.ix.form = "div" /\ u.ix.by > 0 => u.ix.by \in D
  BY <1>2
<1> QED BY <1>1, <1>3, Zenon

LEMMA ChunkFits ==
  ASSUME NEW b, NEW plan, NEW ops, NEW by, Compiled(b, plan, ops, by), NEW p \in Pos,
         NEW lo, NEW foreign, OwnElements(b, p, foreign), NEW n \in DOMAIN b.stmts
  PROVE  Fits(b, ChunkWorld(b, plan, ops, by, lo, foreign), p, b.stmts[n])
<1> DEFINE w == ChunkWorld(b, plan, ops, by, lo, foreign)
           st == b.stmts[n]
<1>0. WellFormed(b) /\ Plainly(b)  BY Zenon DEF Plainly, Compiled
<1>1. /\ w.plan = plan /\ w.ops = ops /\ w.by = by /\ w.foreign = foreign
      /\ \A d \in Containers : d \in w.whole <=> Unwritten(b, d)
  BY DEF ChunkWorld
<1>2. st \in Statements /\ st.kind \notin {"break", "return"} /\ st.kind # "opaque"
  BY <1>0, StmtsAre, ParallelStays, Zenon DEF Plainly
<1>3. st.kind \in Writing \cup {"move"} => st.ix.form # "whole"  BY <1>0 DEF WellFormed
<1>4. HasIndex(b) => Elem(b, p) \in Keys  BY <1>0, ElementsAre, Zenon
<1>5. Sorted(plan, st) /\ NamesFit(b, [ops |-> ops, by |-> by], st)  BY Zenon DEF Compiled
<1>6. st.base \in Containers  BY <1>2 DEF Statements
<1>7. \A d \in Containers : plan[d] # "dict" => OwnWrites(b, d)  BY Zenon DEF Compiled
<1>8. st.kind # "for" => \A u \in Range(st.uses) : ReadsOwn(b, plan, u)  BY Zenon DEF Compiled
<1>9. st.base \in Containers /\ OwnWrites(b, st.base) /\ st.kind \in Writing => AtIndex(b, st.ix)
  BY Zenon DEF OwnWrites
<1> HIDE DEF w, st
<1>10. st.kind # "for" => ReadsFit(b, w, p, st)
  <2> SUFFICES ASSUME st.kind # "for", NEW u \in Range(st.uses), u.name \in Containers, u.name \notin w.whole
               PROVE  \/ AtQuotient(b, u.ix) /\ w.plan[u.name] \in {"none", "list", "cell"}
                      \/ /\ AtIndex(b, u.ix) /\ w.plan[u.name] \in {"none", "cell"}
                         /\ <<u.name, Elem(b, p)>> \notin w.foreign /\ Elem(b, p) \in Keys
    BY Zenon DEF ReadsFit
  <2>1. ~Unwritten(b, u.name) /\ ReadsOwn(b, plan, u)  BY <1>1, <1>8, Zenon
  <2>2. CASE AtQuotient(b, u.ix) /\ plan[u.name] \in {"none", "list", "cell"}  BY <1>1, <2>2, Zenon
  <2>3. CASE AtIndex(b, u.ix) /\ plan[u.name] \in {"none", "cell"}
    <3>1. OwnWrites(b, u.name) /\ HasIndex(b)  BY <1>7, <2>3 DEF AtIndex
    <3>2. <<u.name, Elem(b, p)>> \notin foreign  BY <3>1, Zenon DEF OwnElements
    <3> QED BY <1>1, <1>4, <2>3, <3>1, <3>2, Zenon
  <2> QED BY <2>1, <2>2, <2>3, Zenon DEF ReadsOwn
<1>11. WritesFit(b, w, p, st)
  <2> SUFFICES ASSUME st.kind \in Writing
               PROVE  /\ st.ix.form # "whole"
                      /\ plan[st.base] # "none" => st.kind \in {"store", "augstore", "mutate"}
                      /\ plan[st.base] \in {"list", "cell"} => AtIndex(b, st.ix) /\ <<st.base, Elem(b, p)>> \notin foreign
                      /\ plan[st.base] = "list" => st.kind = "store"
                      /\ plan[st.base] = "dict" => st.kind # "mutate"
    BY <1>1, Zenon DEF WritesFit
  <2>1. plan[st.base] \in {"list", "cell"} => OwnWrites(b, st.base)  BY <1>6, <1>7
  <2>2. OwnWrites(b, st.base) => AtIndex(b, st.ix) /\ <<st.base, Elem(b, p)>> \notin foreign
    BY <1>6, <1>9, Zenon DEF OwnElements
  <2> QED BY <1>3, <1>5, <2>1, <2>2 DEF Sorted
<1>12. NamesFit(b, w, st)
  <2> DEFINE v == [ops |-> ops, by |-> by]
  <2>1. v.ops = ops /\ v.by = by /\ NamesFit(b, v, st)  BY <1>5
  <2> HIDE DEF v
  <2> QED BY <1>1, <2>1, Zenon DEF NamesFit
<1>13. st.kind = "move" => st.ix.form # "whole"  BY <1>3
<1> QED BY <1>2, <1>4, <1>10, <1>11, <1>12, <1>13 DEF Fits, w, st

\* i // c is i at 0 and -1 only.
LEMMA QuotientIs ==
  ASSUME NEW e \in Int, NEW c \in Int, c > 1
  PROVE  /\ e \div c = e => e \in {0, -1}
         /\ e > 0 => e \div c < e /\ e \div c \in Nat
         /\ e < -1 => e \div c > e
<1> DEFINE q == e \div c
<1>1. q \in Int /\ c * q <= e /\ e < c * q + c  BY SMT
<1> HIDE DEF q
<1>2. e > 0 => q < e /\ q >= 0
  <2> SUFFICES ASSUME e > 0 PROVE q < e /\ q >= 0  OBVIOUS
  <2>1. q >= 0
    <3> SUFFICES ASSUME q <= -1 PROVE FALSE  BY <1>1
    <3>1. c * q <= -c  BY <1>1, Z3
    <3> QED BY <1>1, <3>1, Z3
  <2>2. q < e
    <3> SUFFICES ASSUME q >= e PROVE FALSE  BY <1>1
    <3>1. c * q >= 2 * q  BY <1>1, <2>1, Z3
    <3> QED BY <1>1, <3>1, Z3
  <2> QED BY <2>1, <2>2
<1>3. e < -1 => q > e
  <2> SUFFICES ASSUME e < -1, q <= e PROVE FALSE  BY <1>1
  <2>1. c * (q + 1) <= 2 * (q + 1)  BY <1>1, Z3
  <2>2. c * q + c = c * (q + 1)  BY <1>1, Z3
  <2> QED BY <1>1, <2>1, <2>2, Z3
<1> QED BY <1>1, <1>2, <1>3 DEF q

LEMMA ChunkSuits ==
  ASSUME NEW b, NEW plan, NEW ops, NEW by, Compiled(b, plan, ops, by), NEW p \in Pos,
         NEW lo, NEW foreign, OwnElements(b, p, foreign)
  PROVE  Suits(b, ChunkWorld(b, plan, ops, by, lo, foreign), p)
<1> DEFINE w == ChunkWorld(b, plan, ops, by, lo, foreign)
           e == Elem(b, p)
<1>0. WellFormed(b) /\ Plainly(b)  BY Zenon DEF Plainly, Compiled
<1>1. /\ w.plan = plan /\ w.ops = ops /\ w.by = by /\ w.foreign = foreign /\ w.whole \subseteq Containers
      /\ \A d \in Containers : d \in w.whole <=> Unwritten(b, d)
  BY DEF ChunkWorld
<1>2. \A n \in DOMAIN b.stmts : Fits(b, w, p, b.stmts[n])  BY ChunkFits, Zenon
<1> HIDE DEF w
<1>3. World(w) /\ DomainNames(b) \cap w.ops = {} /\ RowsApart(b, w.plan)
  <2>1. PlanOK(plan) /\ ops \subseteq Names /\ DomainNames(b) \cap ops = {} /\ RowsApart(b, plan)
        /\ \A d \in Containers : Unwritten(b, d) => plan[d] = "none"
    BY Zenon DEF Compiled
  <2>2. \A d \in w.whole : w.plan[d] = "none"  BY <1>1, <2>1
  <2> QED BY <1>1, <2>1, <2>2, Zenon DEF World
<1>4. ASSUME NEW n \in DOMAIN b.stmts, NEW u, Divides(b, w, n, u) PROVE Quotient(b, w, p, n, u)
  <2>1. u \in Range(b.stmts[n].uses) /\ b.stmts[n].kind # "for" /\ u.name \in Containers /\ ~Unwritten(b, u.name) /\ AtQuotient(b, u.ix)
    BY <1>1, <1>4 DEF Divides
  <2>2. ReadsOwn(b, plan, u)  BY <2>1, Zenon DEF Compiled
  <2>3. u.ix.by > 1 /\ plan[u.name] # "dict" /\ u.ix.form = "div" /\ HasIndex(b)
    BY <2>1, <2>2 DEF ReadsOwn, AtQuotient, AtIndex
  <2>4. OwnWrites(b, u.name)  BY <2>1, <2>3, Zenon DEF Compiled
  <2>5. u.ix.by \in Int /\ e \in Int
    <3>1. u.ix \in Indexes  BY <1>0, <2>1, StmtsAre, UsesAre, Zenon
    <3>2. p \in Int /\ b.first \in Int /\ b.step \in Int \ {0}  BY <1>0, ElementsAre DEF Pos
    <3> QED BY <3>1, <3>2, ElemsApart DEF Indexes
  <2>6. e \div u.ix.by \in Keys
    <3>1. u.ix.by > 0  BY <2>3, <2>5
    <3> QED BY <1>0, <2>1, <2>3, <3>1, ElementsAre, Zenon
  <2>7. ASSUME e \div u.ix.by = e
        PROVE  /\ <<u.name, e>> \notin foreign
               /\ \A m \in DOMAIN b.stmts : b.stmts[m].base = u.name /\ b.stmts[m].kind \in {"store", "augstore"} =>
                    ~ (m < n) /\ b.stmts[n].arm # "loop"
    <3>1. e \in {0, -1}  BY <2>3, <2>5, <2>7, QuotientIs
    <3>2. <<u.name, e>> \notin foreign  BY <2>1, <2>4, Zenon DEF OwnElements
    <3>3. ASSUME NEW m \in DOMAIN b.stmts, b.stmts[m].base = u.name, b.stmts[m].kind \in {"store", "augstore"},
                 m < n \/ b.stmts[n].arm = "loop"
          PROVE  FALSE
      <4>1. b.stmts[m] \in Stmts(b, {"store", "augstore"})  BY <1>0, <3>3, StmtsAre, Zenon DEF Stmts
      <4> QED BY <2>1, <2>3, <3>1, <3>3, <4>1, Zenon DEF RereadsRoot, Compiled
    <3> QED BY <3>2, <3>3, Zenon
  <2> QED BY <1>1, <2>4, <2>6, <2>7, Zenon DEF Quotient
<1> QED BY <1>2, <1>3, <1>4, Zenon DEF Suits, w

-----------------------------------------------------------------------------
(* A level *)

LEMMA LevelHas ==
  ASSUME NEW G, LevelFits(G), NEW c \in Workers
  PROVE  /\ Plainly(G.b) /\ WellFormed(G.b)
         /\ FirstOf(G, c) \in 0 .. N /\ LastOf(G, c) \in FirstOf(G, c) .. N /\ N \in Nat
         /\ FirstOf(G, c) \in G.lo .. N /\ LastOf(G, c) \in 0 .. G.hi
         /\ Other(c) \in Workers /\ Other(c) # c /\ c \in {1, 2}
BY LoopBodyAssumption DEF LevelFits, Compiled, Plainly, FirstOf, LastOf, Other, Workers

LEMMA FoldedNone == ASSUME NEW op, NEW start PROVE Folded(op, start, <<>>) = start
<1> DEFINE s == <<>>
<1>1. Len(s) \in Nat /\ Len(s) = 0  OBVIOUS
<1>2. PICK g : FoldsUp(op, start, s, g)  BY <1>1, FoldedRuns
<1> QED BY <1>1, <1>2 DEF FoldsUp

LEMMA StepAt ==
  ASSUME NEW b, Plainly(b), NEW q \in 0 .. N
  PROVE  FrameOK(Steps(b)[q]) /\ Steps(b)[q].ok /\ Steps(b)[q].bound = Names
BY StepsFollow, Zenon DEF Twins, Follows

\* The frame a chunk starts on.
LEMMA AsFunctionIs ==
  ASSUME NEW b, NEW h, HeapOK(h)
  PROVE  LET f == AsFunction(b, h)
         IN  /\ Full(f) /\ f.heap = h /\ f.ok /\ f.bound = Names \ Locals(b) /\ f.local = StartNames
             /\ (\A n \in Names : f.site[n] = <<>>) /\ \A c \in Containers, k \in Keys : f.slab[c][k] = <<>>
             /\ With(f, h) = f
<1> DEFINE f == Frame(h, Names \ Locals(b))
<1>1. /\ DOMAIN f = Fields /\ f.heap = h /\ f.local = StartNames /\ f.bound = Names \ Locals(b)
      /\ f.cell = [c \in Containers |-> <<>>] /\ f.slab = Empty /\ f.site = [n \in Names |-> <<>>]
      /\ f.truth = FALSE /\ f.ok = TRUE
  BY DEF Frame, Fields
<1>2. With(f, h) = f
  <2> DEFINE l == StartNames
             n == Names \ Locals(b)
             c == [d \in Containers |-> <<>>]
             e == Empty
             s == [d \in Names |-> <<>>]
             R == [heap |-> h, local |-> l, bound |-> n, cell |-> c, slab |-> e, site |-> s, truth |-> FALSE, ok |-> TRUE]
  <2>1. f = R  BY DEF Frame
  <2> HIDE DEF l, n, c, e, s
  <2>2. [R EXCEPT !.heap = h] = R
    <3>1. R = [x \in DOMAIN R |-> R[x]]  OBVIOUS
    <3>2. R.heap = h  OBVIOUS
    <3> HIDE DEF R
    <3>3. [R EXCEPT !.heap = h] = [x \in DOMAIN R |-> IF x = "heap" THEN h ELSE R[x]]  OBVIOUS
    <3>4. \A x \in DOMAIN R : (IF x = "heap" THEN h ELSE R[x]) = R[x]  BY <3>2
    <3> QED BY <3>1, <3>3, <3>4
  <2> QED BY <2>1, <2>2, Zenon DEF With
<1>3. AsFunction(b, h) = f  BY Zenon DEF AsFunction
<1> HIDE DEF f
<1>4. HeapOK(Empty) /\ DOMAIN StartNames = Names  BY DEF HeapOK, Empty, StartNames
<1>5. Full(f)
  <2>1. FrameOK(f)  BY <1>1, <1>4 DEF FrameOK, Fields
  <2> QED BY <1>1, <1>4, <2>1 DEF Full, IsSeq
<1>6. (\A n \in Names : f.site[n] = <<>>) /\ \A c \in Containers, k \in Keys : f.slab[c][k] = <<>>
  BY <1>1 DEF Empty
<1> QED BY <1>1, <1>2, <1>3, <1>5, <1>6

LEMMA ChunkFollows ==
  ASSUME NEW G, LevelFits(G), NEW c \in Workers
  PROVE  Follows(WorldOf(G, c), Steps(G.b)[FirstOf(G, c)], AsFunction(G.b, Steps(G.b)[G.lo].heap))
<1> DEFINE b == G.b
           q == FirstOf(G, c)
           r == Steps(b)[q]
           x == Steps(b)[G.lo]
           f == AsFunction(b, x.heap)
           w == WorldOf(G, c)
<1>1. Plainly(b) /\ WellFormed(b) /\ q \in 0 .. N /\ G.lo \in 0 .. N /\ q \in G.lo .. N /\ Compiled(b, G.plan, G.ops, G.by)
  BY LevelHas, Zenon DEF LevelFits
<1>2. FrameOK(x) /\ HeapOK(x.heap) /\ FrameOK(r) /\ r.ok /\ r.bound = Names
  BY <1>1, StepAt, Zenon DEF FrameOK
<1>3. /\ Full(f) /\ f.heap = x.heap /\ f.ok /\ f.bound = Names \ Locals(b) /\ f.local = StartNames
      /\ (\A n \in Names : f.site[n] = <<>>) /\ \A d \in Containers, k \in Keys : f.slab[d][k] = <<>>
  BY <1>2, AsFunctionIs
<1>4. /\ w.plan = G.plan /\ w.ops = G.ops /\ w.by = G.by /\ w.foreign = ForeignTo(G, c) /\ w.start = r.local
      /\ \A d \in Containers : d \in w.whole <=> Unwritten(b, d)
      /\ w.whole \subseteq Containers
  BY DEF WorldOf, ChunkWorld
<1>5. Passed(b, 0, q, TouchedIn(b, 0, q)) /\ Passed(b, G.lo, q, TouchedIn(b, G.lo, q))
  BY <1>1, LoopRange, LoopBodyAssumption
<1>6. \A d \in Containers, k \in Keys : <<d, k>> \notin ForeignTo(G, c) => r.heap[d][k] = x.heap[d][k]
  <2>1. CASE c = 1
    <3>1. q = G.lo  BY <2>1 DEF FirstOf
    <3> QED BY <3>1, Zenon
  <2>2. CASE c = 2
    <3>1. ForeignTo(G, c) = TouchedIn(b, G.lo, q)  BY <2>2 DEF ForeignTo, FirstOf, LastOf, Other
    <3>2. \A d \in Containers, k \in Keys : <<d, k>> \notin TouchedIn(b, G.lo, q) => r.heap[d][k] = x.heap[d][k]
      BY <1>5, Zenon DEF Passed
    <3> QED BY <3>1, <3>2
  <2> QED BY <2>1, <2>2 DEF Workers
<1>7. Steps(b)[0].local = StartNames  BY <1>1, StepsCanon
<1>8. G.ops \subseteq Names /\ \A n \in DOMAIN b.stmts : Renames(b.stmts[n]) => b.stmts[n].name \in Locals(b) \cup G.ops
  BY <1>1, Zenon DEF Compiled
<1> DEFINE y == Steps(b)[0]
<1>9. /\ \A d \in Containers : Unwritten(b, d) => r.heap[d] = x.heap[d]
      /\ \A n \in Names \ DomainNames(b) : (\A m \in DOMAIN b.stmts : Renames(b.stmts[m]) => b.stmts[m].name # n) =>
           r.local[n] = y.local[n]
  BY <1>5, Zenon DEF Passed, Unwritten
<1> HIDE DEF w, f, r, x, q, b, y
<1>10. \A n \in f.bound \ w.ops : f.local[n] = r.local[n]
  <2> SUFFICES ASSUME NEW n \in Names \ Locals(b), n \notin G.ops PROVE StartNames[n] = r.local[n]
    BY <1>3, <1>4
  <2>1. n \notin DomainNames(b)  BY DEF Locals
  <2>2. \A m \in DOMAIN b.stmts : Renames(b.stmts[m]) => b.stmts[m].name # n  BY <1>8
  <2>3. y.local = StartNames  BY <1>7 DEF y
  <2> QED BY <1>9, <2>1, <2>2, <2>3
<1>11. \A n \in w.ops : r.local[n] = Folded(w.by[n], w.start[n], f.site[n])
  BY <1>3, <1>4, <1>8, FoldedNone
<1>12. \A d \in w.whole : f.heap[d] = r.heap[d]  BY <1>3, <1>4, <1>9
<1>13. \A d \in Containers, k \in Keys : <<d, k>> \notin w.foreign => View(f, d, k) = r.heap[d][k]
  BY <1>3, <1>4, <1>6 DEF View
<1>14. Follows(w, r, f)  BY <1>2, <1>3, <1>10, <1>11, <1>12, <1>13 DEF Follows
<1> QED BY <1>14 DEF w, f, r, x, q, b

LEMMA LevelStarts ==
  ASSUME NEW G, LevelFits(G), NEW h, h = Steps(G.b)[G.lo].heap,
         NEW fr, \A c \in Workers : fr[c] = AsFunction(G.b, h), NEW pos, \A c \in Workers : pos[c] = FirstOf(G, c)
  PROVE  LevelOK(G, h, fr, pos)
<1>1. Plainly(G.b) /\ G.lo \in 0 .. N  BY Zenon DEF LevelFits, Compiled
<1>2. HeapOK(h) /\ Canon(h)  BY <1>1, StepAt, StepsCanon, Zenon DEF FrameOK
<1>3. ASSUME NEW c \in Workers PROVE ChunkOK(G, h, fr[c], pos[c], c)
  <2> DEFINE f == AsFunction(G.b, h)
             a == FirstOf(G, c)
  <2>1. a \in 0 .. N /\ a \in a .. LastOf(G, c)  BY LevelHas
  <2>2. TouchedIn(G.b, a, a) = {}  BY <2>1 DEF TouchedIn
  <2>3. f.bound = Names \ Locals(G.b) /\ (\A d \in Containers, k \in Keys : f.slab[d][k] = <<>>) /\ With(f, h) = f
    BY <1>2, AsFunctionIs
  <2>4. Follows(WorldOf(G, c), Steps(G.b)[a], f)  BY ChunkFollows, Zenon
  <2> HIDE DEF f, a
  <2>5. fr[c] = f /\ pos[c] = a  BY DEF f, a
  <2>6. ChunkOK(G, h, f, a, c)  BY <2>1, <2>2, <2>3, <2>4 DEF ChunkOK, a
  <2> QED BY <2>5, <2>6, Zenon
<1> QED BY <1>2, <1>3 DEF LevelOK

LEMMA WithIs ==
  ASSUME NEW f, DOMAIN f = Fields, NEW h
  PROVE  LET g == With(f, h)
         IN  /\ DOMAIN g = Fields /\ g.heap = h /\ g.local = f.local /\ g.bound = f.bound /\ g.cell = f.cell
             /\ g.slab = f.slab /\ g.site = f.site /\ g.truth = f.truth /\ g.ok = f.ok
BY DEF With, Fields

LEMMA TouchedIs ==
  ASSUME NEW b, Plainly(b), NEW lo \in 0 .. N, NEW hi \in 0 .. N, NEW d \in Containers, OwnWrites(b, d),
         NEW k, <<d, k>> \in TouchedIn(b, lo, hi)
  PROVE  TouchedAt(b, lo, hi, k)
<1>1. PICK q \in lo .. hi - 1 : <<d, k>> \in Touched(b, q)  BY DEF TouchedIn
<1>2. q \in Pos  BY LoopBodyAssumption DEF Pos
<1>3. Confined(b, q, Touched(b, q))  BY <1>2, LoopSteps, Zenon DEF StepIs
<1>4. k = Elem(b, q)  BY <1>1, <1>3, Zenon DEF Confined
<1> QED BY <1>2, <1>4 DEF TouchedAt

LEMMA RangeApart ==
  ASSUME NEW b, Plainly(b), NEW lo \in 0 .. N, NEW hi \in 0 .. N, NEW p \in Pos, p \notin lo .. hi - 1
  PROVE  OwnElements(b, p, TouchedIn(b, lo, hi))
<1> SUFFICES ASSUME NEW d \in Containers, OwnWrites(b, d), <<d, Elem(b, p)>> \in TouchedIn(b, lo, hi) PROVE FALSE
  BY Zenon DEF OwnElements
<1>0. TouchedAt(b, lo, hi, Elem(b, p))  BY TouchedIs, Zenon
<1>1. PICK q \in lo .. hi - 1 : q \in Pos /\ Elem(b, p) = Elem(b, q)  BY <1>0, Zenon DEF TouchedAt
<1>2. p # q /\ p \in Int /\ q \in Int  BY <1>1 DEF Pos
<1>3. b.first \in Int /\ b.step \in Int \ {0}  BY ElementsAre DEF Plainly
<1> QED BY <1>1, <1>2, <1>3, ElemsApart, Zenon

LEMMA ChunkReady ==
  ASSUME NEW G, LevelFits(G), NEW h, NEW fr, NEW pos, LevelOK(G, h, fr, pos),
         NEW c \in Workers, pos[c] < LastOf(G, c), GoesOn(G.b, fr[c])
  PROVE  /\ pos[c] \in Pos
         /\ Suits(G.b, WorldOf(G, c), pos[c]) /\ Ready(G.b, WorldOf(G, c), pos[c], Steps(G.b)[pos[c]], With(fr[c], h))
<1> DEFINE b == G.b
           p == pos[c]
           f == fr[c]
           g == With(f, h)
           w == WorldOf(G, c)
           x == Steps(b)[G.lo]
           r == Steps(b)[p]
           lo == FirstOf(G, c)
           o == Other(c)
<1>1. /\ Plainly(b) /\ WellFormed(b) /\ Compiled(b, G.plan, G.ops, G.by) /\ Settled(G) /\ N \in Nat
      /\ lo \in G.lo .. N /\ LastOf(G, c) \in 0 .. G.hi /\ G.lo \in 0 .. N /\ G.hi \in 0 .. N /\ lo \in 0 .. N
      /\ FirstOf(G, o) \in 0 .. N /\ LastOf(G, o) \in 0 .. N /\ c \in {1, 2} /\ G.mid \in 0 .. N
  <2>1. /\ Compiled(b, G.plan, G.ops, G.by) /\ Settled(G) /\ G.lo \in 0 .. N /\ G.mid \in G.lo .. N /\ G.hi \in G.mid .. N
    BY Zenon DEF LevelFits
  <2>2. /\ Plainly(b) /\ WellFormed(b) /\ N \in Nat /\ lo \in G.lo .. N /\ LastOf(G, c) \in 0 .. G.hi /\ o \in Workers /\ c \in {1, 2}
    BY LevelHas
  <2>3. FirstOf(G, o) \in 0 .. N /\ LastOf(G, o) \in FirstOf(G, o) .. N  BY <2>2, LevelHas
  <2> QED BY <2>1, <2>2, <2>3
<1>2. ChunkOK(G, h, f, p, c)  BY Zenon DEF LevelOK
<1>3. p \in lo .. LastOf(G, c) /\ Follows(w, r, g) /\ f.bound \subseteq Names
  BY <1>2, Zenon DEF ChunkOK
<1>4. p \in Pos /\ p \in G.lo .. G.hi - 1 /\ p \in 0 .. N /\ p \in Int /\ p \in G.lo .. N
  BY <1>1, <1>3 DEF Pos
<1>5. FrameOK(f) /\ f.ok /\ Names \ Locals(b) \subseteq f.bound  BY Zenon DEF GoesOn
<1>6. g.heap = h /\ g.bound = f.bound /\ g.slab = f.slab /\ g.ok = f.ok
  <2>1. DOMAIN f = Fields  BY <1>5, Zenon DEF FrameOK, Fields
  <2> QED BY <2>1, WithIs
<1>7. GoesOn(b, g)
  <2>1. FrameOK(g)  BY <1>3, Zenon DEF Follows, Full
  <2> QED BY <1>5, <1>6, <2>1, Zenon DEF GoesOn
<1>8. OwnElements(b, p, ForeignTo(G, c))
  <2>1. p \notin FirstOf(G, o) .. LastOf(G, o) - 1  BY <1>1, <1>3 DEF FirstOf, LastOf, Other
  <2> QED BY <1>1, <1>4, <2>1, RangeApart, Zenon DEF ForeignTo
<1>9. Suits(b, w, p)  BY <1>1, <1>4, <1>8, ChunkSuits, Zenon DEF WorldOf
<1>10. /\ w.plan = G.plan /\ \A d \in Containers : d \in w.whole <=> Unwritten(b, d)
  BY DEF WorldOf, ChunkWorld
<1>11. b.first \in Int /\ b.step \in Int \ {0} /\ (HasIndex(b) => Elem(b, p) \in Keys)
  BY <1>1, <1>4, ElementsAre, Zenon
<1> HIDE DEF g, w, r, x
<1>12. ASSUME NEW d \in Containers, G.plan[d] \in {"list", "cell"}
       PROVE  Elem(b, p) \in Keys /\ f.slab[d][Elem(b, p)] = <<>>
  <2>1. HasIndex(b) /\ OwnWrites(b, d)  BY <1>1, <1>12 DEF Compiled
  <2>2. Elem(b, p) \in Keys  BY <1>11, <2>1
  <2>3. ASSUME f.slab[d][Elem(b, p)] # <<>> PROVE FALSE
    <3>1. <<d, Elem(b, p)>> \in TouchedIn(b, lo, p)  BY <1>2, <2>2, <2>3, Zenon DEF ChunkOK
    <3>4. TouchedAt(b, lo, p, Elem(b, p))  BY <1>1, <1>4, <2>1, <3>1, TouchedIs, Zenon
    <3>2. PICK q \in lo .. p - 1 : q \in Pos /\ Elem(b, p) = Elem(b, q)
      BY <3>4, Zenon DEF TouchedAt
    <3>3. p # q /\ q \in Int  BY <1>4, <3>2 DEF Pos
    <3> QED BY <1>4, <1>11, <3>2, <3>3, ElemsApart, Zenon
  <2> QED BY <2>2, <2>3
<1>13. ASSUME NEW n \in DOMAIN b.stmts, NEW u, Divides(b, w, n, u), Elem(b, p) \div u.ix.by # Elem(b, p)
       PROVE  h[u.name][Elem(b, p) \div u.ix.by] = r.heap[u.name][Elem(b, p) \div u.ix.by]
  <2> DEFINE q == Elem(b, p) \div u.ix.by
             d == u.name
  <2>1. u \in Range(b.stmts[n].uses) /\ b.stmts[n].kind # "for" /\ d \in Containers /\ ~Unwritten(b, d) /\ AtQuotient(b, u.ix)
    BY <1>10, <1>13 DEF Divides
  <2>2. \/ \A m \in G.lo .. G.hi - 1 : Elem(b, m) # q
        \/ (\A m \in G.lo .. p : Elem(b, m) # q) /\ ~InPlaceWritten(b, G.plan, d)
    BY <1>1, <1>4, <1>13, <2>1, Zenon DEF Settled
  <2>3. q \in Keys /\ OwnWrites(b, d)  BY <1>9, <1>13, Zenon DEF Suits, Quotient
  <2> HIDE DEF q
  <2>4. h[d][q] = x.heap[d][q]
    <3> SUFFICES ASSUME h[d][q] # x.heap[d][q] PROVE FALSE  OBVIOUS
    <3>1. InPlaceWritten(b, G.plan, d) /\ \E e \in Workers : <<d, q>> \in DoneBy(G, pos, e)
      BY <2>1, <2>3, Zenon DEF LevelOK, x
    <3>2. PICK e \in Workers : <<d, q>> \in DoneBy(G, pos, e)  BY <3>1
    <3>3. FirstOf(G, e) \in G.lo .. N /\ LastOf(G, e) \in 0 .. G.hi /\ pos[e] \in FirstOf(G, e) .. LastOf(G, e)
      BY LevelHas, Zenon DEF LevelOK, ChunkOK
    <3>4. FirstOf(G, e) \in 0 .. N /\ pos[e] \in 0 .. N  BY <1>1, <3>3
    <3>7. TouchedAt(b, FirstOf(G, e), pos[e], q)
      BY <1>1, <2>1, <2>3, <3>2, <3>4, TouchedIs, Zenon DEF DoneBy
    <3>5. PICK m \in FirstOf(G, e) .. pos[e] - 1 : q = Elem(b, m)  BY <3>7, Zenon DEF TouchedAt
    <3>6. m \in G.lo .. G.hi - 1  BY <1>1, <3>3, <3>5
    <3> QED BY <2>2, <3>1, <3>5, <3>6, Zenon
  <2>5. r.heap[d][q] = x.heap[d][q]
    <3>1. Passed(b, G.lo, p, TouchedIn(b, G.lo, p))  BY <1>1, <1>4, LoopRange
    <3>2. <<d, q>> \notin TouchedIn(b, G.lo, p)
      <4> SUFFICES ASSUME <<d, q>> \in TouchedIn(b, G.lo, p) PROVE FALSE  OBVIOUS
      <4>0. TouchedAt(b, G.lo, p, q)  BY <1>1, <1>4, <2>1, <2>3, TouchedIs, Zenon
      <4>1. PICK m \in G.lo .. p - 1 : q = Elem(b, m)  BY <4>0, Zenon DEF TouchedAt
      <4>2. m \in G.lo .. p /\ m \in G.lo .. G.hi - 1  BY <1>1, <1>4, <4>1
      <4> QED BY <2>2, <4>1, <4>2, Zenon
    <3> QED BY <2>1, <2>3, <3>1, <3>2, Zenon DEF Passed, r, x
  <2> QED BY <2>4, <2>5 DEF q
<1>14. Ready(b, w, p, r, g)  BY <1>3, <1>6, <1>7, <1>10, <1>12, <1>13 DEF Ready
<1> QED BY <1>4, <1>9, <1>14 DEF b, p, f, g, w, r

LEMMA ChunkMoves ==
  ASSUME NEW G, LevelFits(G), NEW h, NEW fr, NEW pos, LevelOK(G, h, fr, pos),
         NEW c \in Workers, pos[c] < LastOf(G, c), GoesOn(G.b, fr[c])
  PROVE  Moves(G, h, fr[c], Iteration(G.b, G.plan, G.ops, With(fr[c], h), pos[c]), pos[c], c)
<1> DEFINE b == G.b
           p == pos[c]
           f == fr[c]
           g == With(f, h)
           w == WorldOf(G, c)
           r == Steps(b)[p]
           x == Steps(b)[p + 1]
           y == Iteration(b, G.plan, G.ops, g, p)
           F == Flow(b, p)
           L == Len(F)
           T == Touched(b, p)
<1>1. /\ Compiled(b, G.plan, G.ops, G.by) /\ Plainly(b) /\ WellFormed(b) /\ Parallel(b) /\ ~BindsMaybe(b)
      /\ \A n \in DOMAIN b.stmts : b.stmts[n].kind # "opaque"
  BY Zenon DEF LevelFits, Compiled, Plainly
<1>2. p \in Pos /\ Suits(b, w, p) /\ Ready(b, w, p, r, g)  BY ChunkReady
<1>3. w.plan = G.plan /\ w.ops = G.ops  BY DEF WorldOf, ChunkWorld
<1>4. Ran(b, NoPlan, {}, r, p, TraceOf(b, p))  BY <1>1, TraceIs, Zenon
<1>5. x = Iteration(b, NoPlan, {}, r, p)  BY <1>1, <1>2, LoopSteps, Zenon DEF StepIs
<1>6. Finishes(b, w, p, r, g, x, y, F, T)
  <2>1. Finishes(b, w, p, r, g, Iteration(b, NoPlan, {}, r, p), Iteration(b, w.plan, w.ops, g, p), F, T)
    BY <1>1, <1>2, <1>4, IterationFollows, Zenon DEF Touched
  <2> QED BY <1>3, <1>5, <2>1, Zenon
<1>7. L \in Nat /\ \A l \in 1 .. L : \E n \in DOMAIN b.stmts : Like(F[l], b.stmts[n])
  BY <1>1, IterationRan, FlowStays
<1>8. \A n \in DOMAIN b.stmts : b.stmts[n] \in Statements  BY <1>1, StmtsAre, Zenon
<1>9. g.heap = h /\ g.slab = f.slab
  <2>1. DOMAIN f = Fields  BY Zenon DEF GoesOn, FrameOK, Fields
  <2> QED BY <2>1, WithIs
<1> HIDE DEF g, w, r, x, y, F, L, T
<1>10. /\ Follows(w, x, y) /\ GoesOn(b, y) /\ Off(r, g, x, y, T) /\ Kept(w, g, y, T) /\ Still(w, F, L, g, y)
       /\ (Canon(h) => Canon(y.heap)) /\ y.bound \subseteq Names
  BY <1>6, <1>9, Zenon DEF Finishes, Effects, L
<1>11. \A d \in Containers, k \in Keys : <<d, k>> \notin T => y.heap[d][k] = h[d][k] /\ y.slab[d][k] = f.slab[d][k]
  BY <1>9, <1>10 DEF Off
<1>12. /\ \A d \in Containers, k \in Keys : f.slab[d][k] # <<>> => y.slab[d][k] # <<>>
       /\ \A d \in Containers, k \in Keys : G.plan[d] = "dict" /\ <<d, k>> \in T => y.slab[d][k] # <<>>
  BY <1>3, <1>9, <1>10 DEF Kept
<1>13. ASSUME NEW d \in Containers, ~InPlaceWritten(b, G.plan, d) PROVE y.heap[d] = h[d]
  <2>1. \A l \in 1 .. L : ~InPlaceOf(w, d, F[l])
    <3> SUFFICES ASSUME NEW l \in 1 .. L, InPlaceOf(w, d, F[l]) PROVE FALSE  OBVIOUS
    <3>1. PICK n \in DOMAIN b.stmts : Like(F[l], b.stmts[n])  BY <1>7
    <3>2. F[l].base = b.stmts[n].base /\ F[l].kind = b.stmts[n].kind  BY <1>8, <3>1, LikeIs, Zenon
    <3>3. b.stmts[n].kind # "opaque"  BY <1>1
    <3>4. b.stmts[n].base = d /\ b.stmts[n].kind \in Writing /\ (G.plan[d] = "none" \/ b.stmts[n].kind \notin {"store", "augstore"})
      BY <1>3, <3>2, <3>3 DEF InPlaceOf
    <3> QED BY <1>13, <3>4, Zenon DEF InPlaceWritten
  <2> QED BY <1>9, <1>10, <2>1, Zenon DEF Still
<1>14. Moves(G, h, f, y, p, c)  BY <1>10, <1>11, <1>12, <1>13, Zenon DEF Moves, w, x, T
<1> QED BY <1>14, Zenon DEF f, y, p, g, b

LEMMA FollowsLike ==
  ASSUME NEW w, World(w), NEW r, NEW f, Follows(w, r, f), NEW g, DOMAIN g = Fields, HeapOK(g.heap),
         g.local = f.local, g.bound = f.bound, g.cell = f.cell, g.slab = f.slab, g.site = f.site,
         g.truth = f.truth, g.ok = f.ok, \A c \in w.whole : g.heap[c] = f.heap[c],
         \A c \in Containers, k \in Keys : <<c, k>> \notin w.foreign => g.heap[c][k] = f.heap[c][k]
  PROVE  Follows(w, r, g)
<1>1. FrameOK(g) /\ Full(g)  BY DEF Follows, Full, FrameOK, Fields
<1>2. \A c \in Containers, k \in Keys : <<c, k>> \notin w.foreign => View(g, c, k) = r.heap[c][k]
  <2> SUFFICES ASSUME NEW c \in Containers, NEW k \in Keys, <<c, k>> \notin w.foreign PROVE View(g, c, k) = r.heap[c][k]
    OBVIOUS
  <2>1. View(f, c, k) = r.heap[c][k] /\ g.heap[c][k] = f.heap[c][k]  BY Zenon DEF Follows
  <2> QED BY <2>1 DEF View
<1>3. \A c \in w.whole : g.heap[c] = r.heap[c]  BY Zenon DEF Follows
<1>4. /\ FrameOK(r) /\ r.ok /\ r.bound = Names /\ f.ok
      /\ \A x \in f.bound \ w.ops : f.local[x] = r.local[x]
      /\ \A n \in w.ops : r.local[n] = Folded(w.by[n], w.start[n], f.site[n])
      /\ \A c \in Containers : w.plan[c] = "none" => \A k \in Keys : f.slab[c][k] = <<>>
  BY Zenon DEF Follows
<1>5. /\ FrameOK(r) /\ r.ok /\ r.bound = Names /\ g.ok
      /\ \A x \in g.bound \ w.ops : g.local[x] = r.local[x]
      /\ \A n \in w.ops : r.local[n] = Folded(w.by[n], w.start[n], g.site[n])
      /\ \A c \in Containers : w.plan[c] = "none" => \A k \in Keys : g.slab[c][k] = <<>>
  BY <1>4
<1> QED BY <1>1, <1>2, <1>3, <1>5, Zenon DEF Follows

LEMMA WorldIs ==
  ASSUME NEW G, LevelFits(G), NEW c \in Workers
  PROVE  /\ World(WorldOf(G, c)) /\ WorldOf(G, c).foreign = ForeignTo(G, c) /\ WorldOf(G, c).plan = G.plan
         /\ WorldOf(G, c).ops = G.ops /\ WorldOf(G, c).by = G.by /\ WorldOf(G, c).start = Steps(G.b)[FirstOf(G, c)].local
         /\ WorldOf(G, c).whole \subseteq Containers
         /\ \A d \in Containers : d \in WorldOf(G, c).whole <=> Unwritten(G.b, d)
<1> DEFINE w == WorldOf(G, c)
<1>1. /\ w.plan = G.plan /\ w.ops = G.ops /\ w.by = G.by /\ w.foreign = ForeignTo(G, c)
      /\ w.start = Steps(G.b)[FirstOf(G, c)].local
      /\ w.whole \subseteq Containers /\ \A d \in Containers : d \in w.whole <=> Unwritten(G.b, d)
  BY DEF WorldOf, ChunkWorld
<1> HIDE DEF w
<1>2. PlanOK(G.plan) /\ G.ops \subseteq Names /\ \A d \in Containers : Unwritten(G.b, d) => G.plan[d] = "none"
  BY Zenon DEF LevelFits, Compiled
<1>3. World(w)  BY <1>1, <1>2 DEF World
<1> QED BY <1>1, <1>3 DEF w

LEMMA ChunkOKStep ==
  ASSUME NEW G, LevelFits(G), NEW h, NEW f, NEW a, NEW c \in Workers, ChunkOK(G, h, f, a, c), a < LastOf(G, c),
         NEW y, Moves(G, h, f, y, a, c)
  PROVE  ChunkOK(G, y.heap, y, a + 1, c) /\ Touched(G.b, a) \subseteq TouchedIn(G.b, FirstOf(G, c), a + 1)
         /\ TouchedIn(G.b, FirstOf(G, c), a) \subseteq TouchedIn(G.b, FirstOf(G, c), a + 1)
         /\ Touched(G.b, a) \subseteq TouchedIn(G.b, FirstOf(G, c), LastOf(G, c))
<1> DEFINE lo == FirstOf(G, c)
           T == Touched(G.b, a)
           D == TouchedIn(G.b, lo, a)
           E == TouchedIn(G.b, lo, a + 1)
<1>1. a \in lo .. LastOf(G, c) /\ lo \in Nat /\ LastOf(G, c) \in Nat
  <2>1. a \in lo .. LastOf(G, c)  BY Zenon DEF ChunkOK
  <2>2. lo \in 0 .. N /\ LastOf(G, c) \in lo .. N /\ N \in Nat  BY LevelHas
  <2> QED BY <2>1, <2>2
<1>2. T \subseteq E /\ D \subseteq E /\ E = D \cup T
  <2>1. lo .. (a + 1) - 1 = (lo .. a - 1) \cup {a}  BY <1>1
  <2> QED BY <2>1 DEF TouchedIn
<1>3. T \subseteq TouchedIn(G.b, lo, LastOf(G, c))
  <2>1. a \in lo .. LastOf(G, c) - 1  BY <1>1
  <2> QED BY <2>1 DEF TouchedIn
<1> HIDE DEF lo, T, D, E
<1>4. /\ Follows(WorldOf(G, c), Steps(G.b)[a + 1], y) /\ FrameOK(y) /\ y.bound \subseteq Names
      /\ \A d \in Containers, k \in Keys : <<d, k>> \notin T => y.slab[d][k] = f.slab[d][k]
      /\ \A d \in Containers, k \in Keys : f.slab[d][k] # <<>> => y.slab[d][k] # <<>>
      /\ \A d \in Containers, k \in Keys : G.plan[d] = "dict" /\ <<d, k>> \in T => y.slab[d][k] # <<>>
  BY Zenon DEF Moves, GoesOn, T
<1>5. /\ \A d \in Containers, k \in Keys : f.slab[d][k] # <<>> => <<d, k>> \in D
      /\ \A d \in Containers, k \in Keys : G.plan[d] = "dict" /\ <<d, k>> \in D => f.slab[d][k] # <<>>
  BY Zenon DEF ChunkOK, D, lo
<1>6. Follows(WorldOf(G, c), Steps(G.b)[a + 1], With(y, y.heap))
  <2>1. DOMAIN y = Fields /\ HeapOK(y.heap)  BY <1>4, Zenon DEF FrameOK, Fields
  <2> DEFINE g == With(y, y.heap)
  <2>2. /\ DOMAIN g = Fields /\ g.heap = y.heap /\ g.local = y.local /\ g.bound = y.bound /\ g.cell = y.cell
        /\ g.slab = y.slab /\ g.site = y.site /\ g.truth = y.truth /\ g.ok = y.ok
    BY <2>1, WithIs
  <2> HIDE DEF g
  <2>3. World(WorldOf(G, c))  BY WorldIs
  <2>4. Follows(WorldOf(G, c), Steps(G.b)[a + 1], g)  BY <1>4, <2>1, <2>2, <2>3, FollowsLike
  <2> QED BY <2>4 DEF g
<1>7. \A d \in Containers, k \in Keys : y.slab[d][k] # <<>> => <<d, k>> \in E
  BY <1>2, <1>4, <1>5, Zenon
<1>8. \A d \in Containers, k \in Keys : G.plan[d] = "dict" /\ <<d, k>> \in E => y.slab[d][k] # <<>>
  BY <1>2, <1>4, <1>5
<1>9. a + 1 \in lo .. LastOf(G, c)  BY <1>1
<1>10. ChunkOK(G, y.heap, y, a + 1, c)  BY <1>4, <1>6, <1>7, <1>8, <1>9, Zenon DEF ChunkOK, lo, E
<1> QED BY <1>2, <1>3, <1>10, Zenon DEF lo, T, D, E

\* What the other chunk sees of it.
LEMMA ChunkOKOther ==
  ASSUME NEW G, LevelFits(G), NEW h, NEW f, FrameOK(f), NEW a, NEW o \in Workers, ChunkOK(G, h, f, a, o),
         NEW x, HeapOK(x), \A d \in Containers : ~InPlaceWritten(G.b, G.plan, d) => x[d] = h[d],
         \A d \in Containers, k \in Keys : <<d, k>> \notin ForeignTo(G, o) => x[d][k] = h[d][k]
  PROVE  ChunkOK(G, x, f, a, o)
<1> DEFINE w == WorldOf(G, o)
           g == With(f, h)
           y == With(f, x)
<1>1. DOMAIN f = Fields  BY Zenon DEF FrameOK, Fields
<1>2. /\ DOMAIN g = Fields /\ g.heap = h /\ g.local = f.local /\ g.bound = f.bound /\ g.cell = f.cell
      /\ g.slab = f.slab /\ g.site = f.site /\ g.truth = f.truth /\ g.ok = f.ok
  BY <1>1, WithIs
<1>3. /\ DOMAIN y = Fields /\ y.heap = x /\ y.local = f.local /\ y.bound = f.bound /\ y.cell = f.cell
      /\ y.slab = f.slab /\ y.site = f.site /\ y.truth = f.truth /\ y.ok = f.ok
  BY <1>1, WithIs
<1>4. World(w) /\ w.foreign = ForeignTo(G, o) /\ w.whole \subseteq Containers /\ \A d \in Containers : d \in w.whole <=> Unwritten(G.b, d)
  BY WorldIs
<1> HIDE DEF w, g, y
<1>5. Follows(w, Steps(G.b)[a], g)  BY Zenon DEF ChunkOK, w, g
<1>6. \A d \in w.whole : x[d] = h[d]
  <2>1. \A d \in w.whole : ~InPlaceWritten(G.b, G.plan, d)
    BY <1>4, Zenon DEF Unwritten, InPlaceWritten
  <2> QED BY <1>4, <2>1
<1>7. Follows(w, Steps(G.b)[a], y)
  <2>1. \A d \in w.whole : y.heap[d] = g.heap[d]  BY <1>2, <1>3, <1>6, Zenon
  <2>2. \A d \in Containers, k \in Keys : <<d, k>> \notin w.foreign => y.heap[d][k] = g.heap[d][k]
    BY <1>2, <1>3, <1>4, Zenon
  <2>3. HeapOK(y.heap)  BY <1>3, Zenon
  <2>4. /\ y.local = g.local /\ y.bound = g.bound /\ y.cell = g.cell /\ y.slab = g.slab /\ y.site = g.site
        /\ y.truth = g.truth /\ y.ok = g.ok
    BY <1>2, <1>3, Zenon
  <2> QED BY <1>3, <1>4, <1>5, <2>1, <2>2, <2>3, <2>4, FollowsLike
<1> QED BY <1>7, Zenon DEF ChunkOK, w, y

LEMMA LevelIterates ==
  ASSUME NEW G, LevelFits(G), NEW h, NEW fr, NEW pos, LevelOK(G, h, fr, pos),
         NEW c \in Workers, pos[c] < LastOf(G, c), \A o \in Workers : GoesOn(G.b, fr[o]),
         NEW y, y = Iteration(G.b, G.plan, G.ops, With(fr[c], h), pos[c]),
         NEW fs, fs[c] = y, fs[Other(c)] = fr[Other(c)], NEW as, as[c] = pos[c] + 1, as[Other(c)] = pos[Other(c)]
  PROVE  LevelOK(G, y.heap, fs, as)
<1> DEFINE f == fr[c]
           a == pos[c]
           o == Other(c)
           x == Steps(G.b)[G.lo]
<1>1. Moves(G, h, f, y, a, c)  BY ChunkMoves, Zenon
<1>2. o \in Workers /\ o # c /\ \A e \in Workers : e = c \/ e = o  BY DEF Other, Workers
<1>3. /\ ChunkOK(G, h, f, a, c) /\ ChunkOK(G, h, fr[o], pos[o], o) /\ Canon(h)
      /\ \A d \in Containers, k \in Keys : h[d][k] # x.heap[d][k] =>
            InPlaceWritten(G.b, G.plan, d) /\ \E e \in Workers : <<d, k>> \in DoneBy(G, pos, e)
  BY <1>2, Zenon DEF LevelOK
<1>4. /\ ChunkOK(G, y.heap, y, a + 1, c) /\ Touched(G.b, a) \subseteq TouchedIn(G.b, FirstOf(G, c), a + 1)
      /\ TouchedIn(G.b, FirstOf(G, c), a) \subseteq TouchedIn(G.b, FirstOf(G, c), a + 1)
      /\ Touched(G.b, a) \subseteq TouchedIn(G.b, FirstOf(G, c), LastOf(G, c))
  BY <1>1, <1>3, ChunkOKStep
<1>5. /\ \A d \in Containers, k \in Keys : <<d, k>> \notin Touched(G.b, a) => y.heap[d][k] = h[d][k]
      /\ \A d \in Containers : ~InPlaceWritten(G.b, G.plan, d) => y.heap[d] = h[d]
      /\ Canon(y.heap) /\ HeapOK(y.heap)
  BY <1>1, <1>3, Zenon DEF Moves, GoesOn, FrameOK
<1>6. ForeignTo(G, o) = TouchedIn(G.b, FirstOf(G, c), LastOf(G, c))
  <2>1. Other(o) = c  BY DEF Other, Workers
  <2> QED BY <2>1, Zenon DEF ForeignTo
<1>7. ChunkOK(G, y.heap, fr[o], pos[o], o)
  <2>1. \A d \in Containers, k \in Keys : <<d, k>> \notin ForeignTo(G, o) => y.heap[d][k] = h[d][k]
    BY <1>4, <1>5, <1>6
  <2>2. FrameOK(fr[o])  BY <1>2, Zenon DEF GoesOn
  <2> QED BY <1>2, <1>3, <1>5, <2>1, <2>2, ChunkOKOther, Zenon
<1>8. \A e \in Workers : ChunkOK(G, y.heap, fs[e], as[e], e)  BY <1>2, <1>4, <1>7, Zenon
<1>9. DoneBy(G, as, c) = TouchedIn(G.b, FirstOf(G, c), a + 1) /\ DoneBy(G, pos, c) = TouchedIn(G.b, FirstOf(G, c), a)
      /\ DoneBy(G, as, o) = DoneBy(G, pos, o)
  BY Zenon DEF DoneBy
<1>10. ASSUME NEW d \in Containers, NEW k \in Keys, y.heap[d][k] # x.heap[d][k]
       PROVE  InPlaceWritten(G.b, G.plan, d) /\ \E e \in Workers : <<d, k>> \in DoneBy(G, as, e)
  <2>1. CASE y.heap[d][k] = h[d][k]
    <3>1. InPlaceWritten(G.b, G.plan, d) /\ \E e \in Workers : <<d, k>> \in DoneBy(G, pos, e)
      BY <1>3, <1>10, <2>1, Zenon
    <3>2. \A e \in Workers : DoneBy(G, pos, e) \subseteq DoneBy(G, as, e)  BY <1>2, <1>4, <1>9
    <3> QED BY <3>1, <3>2
  <2>2. CASE y.heap[d][k] # h[d][k]
    <3>1. <<d, k>> \in Touched(G.b, a) /\ InPlaceWritten(G.b, G.plan, d)  BY <1>5, <2>2
    <3> QED BY <1>4, <1>9, <3>1
  <2> QED BY <2>1, <2>2
<1> QED BY <1>5, <1>8, <1>10, Zenon DEF LevelOK

LEMMA LevelEnds ==
  ASSUME NEW G, LevelFits(G), NEW h, NEW fr, NEW pos, LevelOK(G, h, fr, pos),
         \A c \in Workers : pos[c] = LastOf(G, c) /\ FrameOK(fr[c]), Apart(G, fr)
  PROVE  /\ Merge(fr[2].slab, Merge(fr[1].slab, h)) = Steps(G.b)[G.hi].heap
         /\ \A n \in G.ops : Folded(G.by[n], Steps(G.b)[G.lo].local[n], fr[1].site[n] \o fr[2].site[n])
                             = Steps(G.b)[G.hi].local[n]
<1> DEFINE b == G.b
           x == Steps(b)[G.lo]
           y == Steps(b)[G.mid]
           z == Steps(b)[G.hi]
           T == TouchedIn(b, G.lo, G.mid)
           U == TouchedIn(b, G.mid, G.hi)
           f == With(fr[1], h)
           g == With(fr[2], h)
           H == Merge(fr[2].slab, Merge(fr[1].slab, h))
           v == WorldOf(G, 1)
           w == WorldOf(G, 2)
<1>0. 1 \in Workers /\ 2 \in Workers /\ FirstOf(G, 1) = G.lo /\ LastOf(G, 1) = G.mid /\ FirstOf(G, 2) = G.mid
      /\ LastOf(G, 2) = G.hi /\ Other(1) = 2 /\ Other(2) = 1
  BY DEF Workers, FirstOf, LastOf, Other
<1>1. /\ Plainly(b) /\ Compiled(b, G.plan, G.ops, G.by) /\ G.lo \in 0 .. N /\ G.mid \in G.lo .. N /\ G.hi \in G.mid .. N
      /\ N \in Nat /\ G.mid \in 0 .. N /\ G.hi \in 0 .. N
  <2>1. /\ Compiled(b, G.plan, G.ops, G.by) /\ G.lo \in 0 .. N /\ G.mid \in G.lo .. N /\ G.hi \in G.mid .. N
    BY Zenon DEF LevelFits
  <2> QED BY <2>1, LoopBodyAssumption DEF Compiled
<1>2. /\ ChunkOK(G, h, fr[1], G.mid, 1) /\ ChunkOK(G, h, fr[2], G.hi, 2)  BY <1>0, Zenon DEF LevelOK
<1>3. /\ v.foreign = U /\ w.foreign = T /\ v.ops = G.ops /\ w.ops = G.ops /\ v.by = G.by /\ w.by = G.by
      /\ v.start = x.local /\ w.start = y.local
  <2>1. /\ v.foreign = ForeignTo(G, 1) /\ v.ops = G.ops /\ v.by = G.by /\ v.start = Steps(b)[FirstOf(G, 1)].local
    BY <1>0, WorldIs
  <2>2. /\ w.foreign = ForeignTo(G, 2) /\ w.ops = G.ops /\ w.by = G.by /\ w.start = Steps(b)[FirstOf(G, 2)].local
    BY <1>0, WorldIs
  <2>3. ForeignTo(G, 1) = U /\ ForeignTo(G, 2) = T  BY <1>0, Zenon DEF ForeignTo
  <2> QED BY <1>0, <2>1, <2>2, <2>3, Zenon
<1>4. DOMAIN fr[1] = Fields /\ DOMAIN fr[2] = Fields  BY <1>0, Zenon DEF FrameOK, Fields
<1>5. /\ f.heap = h /\ f.slab = fr[1].slab /\ f.site = fr[1].site
      /\ g.heap = h /\ g.slab = fr[2].slab /\ g.site = fr[2].site
  BY <1>4, WithIs
<1>6. Passed(b, G.mid, G.hi, U)  BY <1>1, LoopRange, Zenon
<1>7. Canon(z.heap)  BY <1>1, StepsCanon, Zenon
<1>8. \A d \in Containers, k \in Keys : H[d][k] = IF g.slab[d][k] = <<>> THEN IF f.slab[d][k] = <<>> THEN h[d][k] ELSE f.slab[d][k][1]
                                                  ELSE g.slab[d][k][1]
  BY <1>5 DEF Merge
<1>9. H = [d \in Containers |-> [k \in Keys |-> H[d][k]]]  BY DEF Merge
<1> HIDE DEF H, f, g, v, w, T, U, x, y, z
<1>10. Follows(v, y, f) /\ Follows(w, z, g)  BY <1>2, Zenon DEF ChunkOK, v, w, f, g, y, z, b
<1>11. /\ \A d \in Containers, k \in Keys : f.slab[d][k] # <<>> => <<d, k>> \in T
       /\ \A d \in Containers, k \in Keys : g.slab[d][k] # <<>> => <<d, k>> \in U
       /\ \A d \in Containers, k \in Keys : G.plan[d] = "dict" /\ <<d, k>> \in T => f.slab[d][k] # <<>>
       /\ \A d \in Containers, k \in Keys : G.plan[d] = "dict" /\ <<d, k>> \in U => g.slab[d][k] # <<>>
  BY <1>0, <1>2, <1>5, Zenon DEF ChunkOK, T, U, b
<1>12. ASSUME NEW d \in Containers, NEW k \in Keys, <<d, k>> \in T, <<d, k>> \in U PROVE FALSE
  <2>1. G.plan[d] # "dict"  BY <1>5, <1>11, <1>12, Zenon DEF Apart
  <2>2. OwnWrites(b, d)  BY <1>1, <2>1, Zenon DEF Compiled
  <2>3. TouchedAt(b, G.lo, G.mid, k) /\ TouchedAt(b, G.mid, G.hi, k)
    BY <1>1, <1>12, <2>2, TouchedIs, Zenon DEF T, U
  <2>4. PICK p \in G.lo .. G.mid - 1 : p \in Pos /\ k = Elem(b, p)  BY <2>3, Zenon DEF TouchedAt
  <2>5. PICK q \in G.mid .. G.hi - 1 : q \in Pos /\ k = Elem(b, q)  BY <2>3, Zenon DEF TouchedAt
  <2>6. p # q /\ p \in Int /\ q \in Int  BY <1>1, <2>4, <2>5
  <2>7. b.first \in Int /\ b.step \in Int \ {0}  BY <1>1, ElementsAre DEF Plainly
  <2> QED BY <2>4, <2>5, <2>6, <2>7, ElemsApart, Zenon
<1>13. ASSUME NEW d \in Containers, NEW k \in Keys PROVE H[d][k] = z.heap[d][k]
  <2>1. CASE <<d, k>> \notin T
    <3>1. View(g, d, k) = z.heap[d][k]  BY <1>3, <1>10, <2>1, Zenon DEF Follows
    <3>2. f.slab[d][k] = <<>>  BY <1>11, <2>1, Zenon
    <3> QED BY <1>5, <1>8, <3>1, <3>2 DEF View
  <2>2. CASE <<d, k>> \in T
    <3>1. <<d, k>> \notin U  BY <1>12, <2>2, Zenon
    <3>2. View(f, d, k) = y.heap[d][k]  BY <1>3, <1>10, <3>1, Zenon DEF Follows
    <3>3. z.heap[d][k] = y.heap[d][k]  BY <1>6, <3>1, Zenon DEF Passed, y, z
    <3>4. g.slab[d][k] = <<>>  BY <1>11, <3>1, Zenon
    <3> QED BY <1>5, <1>8, <3>2, <3>3, <3>4 DEF View
  <2> QED BY <2>1, <2>2
<1>14. H = z.heap
  <2> DEFINE Z == z.heap
  <2>1. Z = [d \in Containers |-> [k \in Keys |-> Z[d][k]]]  BY <1>7, Zenon DEF Canon
  <2>2. \A d \in Containers, k \in Keys : H[d][k] = Z[d][k]  BY <1>13
  <2> HIDE DEF Z
  <2>3. H = Z  BY <1>9, <2>1, <2>2
  <2> QED BY <2>3 DEF Z
<1>15. ASSUME NEW n \in G.ops PROVE Folded(G.by[n], x.local[n], f.site[n] \o g.site[n]) = z.local[n]
  <2>1. n \in Names  BY <1>1, Zenon DEF Compiled
  <2>2. IsSeq(f.site[n]) /\ IsSeq(g.site[n])  BY <1>10, <2>1, Zenon DEF Follows, Full
  <2>3. y.local[n] = Folded(G.by[n], x.local[n], f.site[n]) /\ z.local[n] = Folded(G.by[n], y.local[n], g.site[n])
    <3>1. y.local[n] = Folded(v.by[n], v.start[n], f.site[n])  BY <1>3, <1>10, Zenon DEF Follows
    <3>2. z.local[n] = Folded(w.by[n], w.start[n], g.site[n])  BY <1>3, <1>10, Zenon DEF Follows
    <3> QED BY <1>3, <3>1, <3>2
  <2> DEFINE op == G.by[n]
             s == f.site[n]
             t == g.site[n]
             start == x.local[n]
  <2>4. Folded(op, start, s \o t) = Folded(op, Folded(op, start, s), t)
    <3>1. IsSeq(s) /\ IsSeq(t)  BY <2>2
    <3> HIDE DEF op, s, t, start
    <3> QED BY <3>1, FoldedJoin
  <2> QED BY <2>3, <2>4, Zenon
<1>16. \A n \in G.ops : Folded(G.by[n], x.local[n], fr[1].site[n] \o fr[2].site[n]) = z.local[n]
  BY <1>5, <1>15, Zenon
<1> QED BY <1>14, <1>16, Zenon DEF H, x, z, b

\* Where nothing is written in place, the containers wait for the end.
LEMMA LevelWaits ==
  ASSUME NEW G, LevelFits(G), NEW h, NEW fr, NEW pos, LevelOK(G, h, fr, pos),
         \A d \in Containers : ~InPlaceWritten(G.b, G.plan, d)
  PROVE  h = Steps(G.b)[G.lo].heap
<1> DEFINE x == Steps(G.b)[G.lo].heap
<1>1. Plainly(G.b) /\ G.lo \in 0 .. N  BY Zenon DEF LevelFits, Compiled
<1>2. Canon(x) /\ Canon(h)  BY <1>1, StepsCanon, Zenon DEF LevelOK
<1>3. \A d \in Containers, k \in Keys : h[d][k] = x[d][k]  BY Zenon DEF LevelOK
<1> HIDE DEF x
<1>4. h = x  BY <1>2, <1>3 DEF Canon
<1> QED BY <1>4 DEF x

-----------------------------------------------------------------------------
(* What the events of a statement are *)

LEMMA StmtSays ==
  ASSUME NEW st \in Statements, NEW outer \in SUBSET Names, st.kind \notin {"break", "return"},
         st.kind \notin Writing \cup {"move"} => st.ix = Whole, st.form # "plain" => st.kind = "assign"
  PROVE  Honest(st, Range(StmtEvents(st, outer))) /\ Complete(st, outer, Range(StmtEvents(st, outer)))
<1> DEFINE S == Range(StmtEvents(st, outer))
           hid == HiddenTo(st, outer)
           L == Range(Loads(st, hid))
           I == IndexEvents(st, outer)
           B == BaseEvents(st)
           O == OwnEvents(st)
<1>1. S = L \cup I \cup B \cup O  BY StmtRange, Zenon
<1>2. L \subseteq LoadKinds(st) /\ \A u \in Range(st.uses) : Tokens(u, st, hid, L)
  BY LoadsHave, Zenon
<1>3. st.base \in Containers /\ st.ix \in Indexes /\ st.name \in Names /\ st.uses \in Seq([name : Names \cup Containers, ix : Indexes])
  BY DEF Statements
<1>4. I \subseteq LoadKinds(st)
  <2>1. IndexLoads(st.ix, st, hid) \in Seq(LoadKinds(st))  BY <1>3, ReadsHave
  <2>2. Range(IndexLoads(st.ix, st, hid)) \subseteq LoadKinds(st)  BY <2>1, RangeIs
  <2> QED BY <2>2 DEF IndexEvents
<1>5. B \subseteq LoadKinds(st)
  <2>1. Read(st.base, st, {}) \in Seq(LoadKinds(st))  BY <1>3, ReadsHave
  <2>2. Range(Read(st.base, st, {})) \subseteq LoadKinds(st)  BY <2>1, RangeIs
  <2> QED BY <2>2 DEF BaseEvents
<1>6. \A e \in LoadKinds(st) : e \in Emitted(st) /\ e.kind \in {"read", "subread"}  BY DEF LoadKinds
<1> DEFINE walrus == Event("write", st.name, st)
           opaque == Event("opaque", st.base, st)
<1>7. /\ \A e \in O : \/ e = Storing(st) /\ st.kind \in Writing
                      \/ e = Reading(st)
                      \/ e = Adding(st) /\ st.kind = "aug"
                      \/ e = Binding(st) /\ st.kind \in {"assign", "move"}
                      \/ e = walrus /\ st.kind = "walrus"
                      \/ e = opaque /\ st.kind = "opaque"
      /\ st.kind \in {"augstore", "augnested", "mutate"} => Reading(st) \in O
      /\ st.kind = "aug" => Adding(st) \in O
  <2> HIDE DEF walrus, opaque
  <2>1. OwnEvents(st) = CASE st.kind \in {"assign", "move"} -> {Binding(st)}
                          [] st.kind = "walrus" -> {walrus}
                          [] st.kind = "aug" -> {Adding(st)}
                          [] st.kind \in {"store", "nested"} -> {Storing(st)}
                          [] st.kind \in {"augstore", "augnested", "mutate"} -> {Storing(st), Reading(st)}
                          [] st.kind = "opaque" -> {opaque}
                          [] OTHER -> {}
    BY Zenon DEF OwnEvents, walrus, opaque
  <2> QED BY <2>1 DEF Writing
<1>8. /\ Storing(st) \in Emitted(st) /\ Reading(st) \in Emitted(st) /\ Adding(st) \in Emitted(st) /\ opaque \in Emitted(st)
      /\ st.kind \in {"assign", "move"} => Binding(st) \in Emitted(st)
      /\ st.kind = "walrus" => walrus \in Emitted(st)
  BY OwnIsEmitted
<1>9. /\ Storing(st).kind = "subwrite" /\ Storing(st).path = st.base /\ Storing(st).ix = st.ix
      /\ (Storing(st).nested <=> st.kind = "nested")
      /\ Reading(st).kind = "subread" /\ Reading(st).path = st.base /\ Reading(st).ix = st.ix
      /\ Adding(st).kind = "aug" /\ Adding(st).path = st.name /\ Adding(st).op = st.op
      /\ Binding(st).kind = "write" /\ Binding(st).path = st.name /\ Binding(st).op = SelfOp(st)
      /\ walrus.kind = "write" /\ walrus.path = st.name /\ walrus.op = "none"
      /\ opaque.kind = "opaque" /\ opaque.path = st.base
  BY PiecesAre, Zenon
<1>10. SelfOp(st) # "none" => st.form # "plain"  BY DEF SelfOp
<1> HIDE DEF S, hid, L, I, B, O, walrus, opaque
<1>11. S \subseteq Emitted(st)  BY <1>1, <1>2, <1>4, <1>5, <1>6, <1>7, <1>8
<1>12. \A e \in S : e \in O \/ e.kind \in {"read", "subread"}  BY <1>1, <1>2, <1>4, <1>5, <1>6
<1>13. /\ \A e \in S : e.kind = "subwrite" => st.kind \in Writing /\ e.path = st.base /\ e.ix = st.ix /\ (e.nested => st.kind = "nested")
       /\ \A e \in S : e.kind = "opaque" => st.kind = "opaque" /\ e.path = st.base
       /\ \A e \in S : e.kind = "write" => st.kind \in {"assign", "move", "walrus"} /\ e.path = st.name
  BY <1>7, <1>9, <1>12
<1>14. \A e \in S : e.kind \in {"write", "aug"} /\ e.op # "none" => Updates(st) /\ e.path = st.name
  BY <1>7, <1>9, <1>10, <1>12 DEF Updates
<1>15. Honest(st, S)  BY <1>11, <1>13, <1>14, Zenon DEF Honest
<1>16. /\ st.kind \in {"augstore", "augnested", "mutate"} => \E e \in S : e.kind = "subread" /\ e.path = st.base /\ e.ix = st.ix
       /\ st.kind = "aug" => \E e \in S : e.kind = "aug" /\ e.path = st.name /\ e.op = st.op
  BY <1>1, <1>7, <1>9
<1>17. \A u \in Range(st.uses) : u.name \in Names \cup Containers /\ u.ix \in Indexes
  <2> DEFINE Use == [name : Names \cup Containers, ix : Indexes]
  <2> HIDE DEF Use
  <2>1. st.uses \in Seq(Use)  BY <1>3 DEF Use
  <2>2. Range(st.uses) \subseteq Use  BY <2>1, RangeIs
  <2> QED BY <2>2 DEF Use
<1>18. ASSUME NEW u \in Range(st.uses), u.name \in Containers, u.ix.form # "whole"
       PROVE  \E e \in S : e.kind = "subread" /\ e.path = u.name /\ e.ix = u.ix
  <2>1. u.name \notin hid
    <3>1. hid \subseteq Names  BY <1>3 DEF hid, HiddenTo
    <3> QED BY <1>18, <3>1, ContainersApart
  <2>2. PartOf(u.name, u.ix, st) \in L  BY <1>2, <2>1, <1>18 DEF Tokens
  <2>3. PartOf(u.name, u.ix, st).kind = "subread" /\ PartOf(u.name, u.ix, st).path = u.name /\ PartOf(u.name, u.ix, st).ix = u.ix
    BY <1>17, <1>18, LoadedEvents
  <2> QED BY <1>1, <2>2, <2>3
<1>19. \A n \in Needs(st) \ hid : \E e \in S : e.kind = "read" /\ e.path = n
  BY NeedsRead, Zenon DEF S, hid
<1> QED BY <1>15, <1>16, <1>18, <1>19, Zenon DEF Complete, S, hid

-----------------------------------------------------------------------------
(* What the analysis knows of a container *)

LEMMA BlockSays ==
  ASSUME NEW b, WellFormed(b), Parallel(b), NEW n \in DOMAIN b.stmts
  PROVE  /\ Honest(b.stmts[n], Range(EventsAt(b, n))) /\ Complete(b.stmts[n], LoopVar(b), Range(EventsAt(b, n)))
         /\ Tells(b.stmts[n], EventsAt(b, n)) /\ \A e \in Range(EventsAt(b, n)) : e \in Range(Events(b))
<1>1. /\ b.stmts[n] \in Statements /\ (b.stmts[n].kind \notin Writing \cup {"move"} => b.stmts[n].ix = Whole)
      /\ b.stmts[n].form # "plain" => b.stmts[n].kind = "assign"
  BY StmtsAre, Zenon
<1>2. b.stmts[n].kind \notin {"break", "return"}  BY ParallelStays, Zenon
<1>3. LoopVar(b) \in SUBSET Names
  <2>1. \A st \in Range(b.stmts) : st \in Statements
    <3>1. b.stmts \in Seq(Statements)  BY StmtsAre, Zenon
    <3> QED BY <3>1, RangeIs
  <2>2. \A st \in Statements : st.name \in Names  BY DEF Statements
  <2> QED BY <2>1, <2>2 DEF LoopVar
<1>4. Honest(b.stmts[n], Range(StmtEvents(b.stmts[n], LoopVar(b)))) /\ Complete(b.stmts[n], LoopVar(b), Range(StmtEvents(b.stmts[n], LoopVar(b))))
  BY <1>1, <1>2, <1>3, StmtSays, Zenon
<1> QED BY <1>4, StmtTells, Zenon DEF EventsAt

LEMMA EventFrom ==
  ASSUME NEW b, WellFormed(b), NEW e \in Range(Events(b))
  PROVE  \E n \in DOMAIN b.stmts : e \in Range(EventsAt(b, n))
<1>1. Events(b) \in Seq(AllEvents)  BY EventsAre, Zenon
<1>2. PICK k \in 1 .. Len(Events(b)) : Events(b)[k] = e  BY <1>1, RangeIs
<1>3. \E n \in DOMAIN b.stmts : Events(b)[k] \in Range(EventsAt(b, n))  BY EventsAre, Zenon
<1> QED BY <1>2, <1>3

LEMMA MineIs == ASSUME NEW b, WellFormed(b), Parallel(b), NEW c \in Containers PROVE MineSays(b, c)
<1> DEFINE mine == Mine(Events(b), c)
           EventsOf(n) == Range(EventsAt(b, n))
<1>1. \A e \in mine : e.path = c /\ \E n \in DOMAIN b.stmts : e \in EventsOf(n)
  BY EventFrom, Zenon DEF Mine
<1>2. \A n \in DOMAIN b.stmts : \A e \in EventsOf(n) : e.path = c => e \in mine
  BY BlockSays, Zenon DEF Mine
<1>3. \A n \in DOMAIN b.stmts : Honest(b.stmts[n], EventsOf(n)) /\ Complete(b.stmts[n], LoopVar(b), EventsOf(n)) /\ Tells(b.stmts[n], EventsAt(b, n))
  BY BlockSays, Zenon
<1>4. \A kinds : \A e : e \in OfKind(mine, kinds) <=> e \in mine /\ e.kind \in kinds  BY DEF OfKind
<1>5. WriteIndexes(mine) = {e.ix : e \in OfKind(mine, {"subwrite"})} /\ ReadIndexes(mine) = {e.ix : e \in OfKind(mine, {"subread"})}
  BY Zenon DEF WriteIndexes, ReadIndexes
<1> HIDE DEF mine
<1>6. ASSUME NEW e \in OfKind(mine, {"subwrite"})
      PROVE  \E n \in DOMAIN b.stmts : /\ b.stmts[n].kind \in Writing /\ b.stmts[n].base = c /\ e.ix = b.stmts[n].ix
                                       /\ e.nested => b.stmts[n].kind = "nested"
  <2>1. e \in mine /\ e.kind = "subwrite" /\ e.path = c  BY <1>1, <1>4
  <2>2. PICK n \in DOMAIN b.stmts : e \in EventsOf(n)  BY <1>1, <2>1
  <2>3. b.stmts[n].kind \in Writing /\ e.path = b.stmts[n].base /\ e.ix = b.stmts[n].ix /\ (e.nested => b.stmts[n].kind = "nested")
    BY <1>3, <2>1, <2>2, Zenon DEF Honest
  <2> QED BY <2>1, <2>3, Zenon
<1>7. ASSUME NEW e \in OfKind(mine, {"opaque"}) PROVE \E n \in DOMAIN b.stmts : b.stmts[n].kind = "opaque"
  <2>1. e \in mine /\ e.kind = "opaque"  BY <1>4
  <2>2. PICK n \in DOMAIN b.stmts : e \in EventsOf(n)  BY <1>1, <2>1
  <2> QED BY <1>3, <2>1, <2>2, Zenon DEF Honest
<1>8. OfKind(mine, {"write", "aug"}) = {}
  <2> SUFFICES ASSUME NEW e \in OfKind(mine, {"write", "aug"}) PROVE FALSE  OBVIOUS
  <2>1. e \in mine /\ e.kind \in {"write", "aug"} /\ e.path = c  BY <1>1, <1>4
  <2>2. PICK n \in DOMAIN b.stmts : e \in EventsOf(n)  BY <1>1, <2>1
  <2>3. e \in Emitted(b.stmts[n])  BY <1>3, <2>2 DEF Honest
  <2>4. e.path \in Names  BY <2>1, <2>3 DEF Emitted
  <2> QED BY <2>1, <2>4, ContainersApart
<1>9. ASSUME NEW n \in DOMAIN b.stmts
      PROVE  /\ b.stmts[n].kind \in Writing /\ b.stmts[n].base = c =>
                  b.stmts[n].ix \in WriteIndexes(mine) /\ OfKind(mine, {"subwrite"}) # {}
             /\ b.stmts[n].kind = "opaque" /\ b.stmts[n].base = c => OfKind(mine, {"opaque"}) # {}
             /\ b.stmts[n].kind \in {"augstore", "augnested", "mutate"} /\ b.stmts[n].base = c => b.stmts[n].ix \in ReadIndexes(mine)
             /\ \A u \in Range(b.stmts[n].uses) : u.name = c /\ u.ix.form # "whole" => u.ix \in ReadIndexes(mine)
  <2> DEFINE st == b.stmts[n]
             S == EventsOf(n)
  <2>1. Complete(st, LoopVar(b), S) /\ Tells(st, EventsAt(b, n)) /\ \A e \in S : e.path = c => e \in mine
    BY <1>2, <1>3, Zenon
  <2>2. /\ st.kind \in Writing /\ st.base = c => \E e \in S : e.kind = "subwrite" /\ e.path = c /\ e.ix = st.ix
        /\ st.kind = "opaque" /\ st.base = c => \E e \in S : e.kind = "opaque" /\ e.path = c
    BY <2>1 DEF Tells
  <2>3. /\ st.kind \in {"augstore", "augnested", "mutate"} /\ st.base = c => \E e \in S : e.kind = "subread" /\ e.path = c /\ e.ix = st.ix
        /\ \A u \in Range(st.uses) : u.name = c /\ u.ix.form # "whole" => \E e \in S : e.kind = "subread" /\ e.path = c /\ e.ix = u.ix
    BY <2>1 DEF Complete
  <2> HIDE DEF st, S
  <2>4. /\ \A ix : (\E e \in S : e.kind = "subwrite" /\ e.path = c /\ e.ix = ix) => ix \in WriteIndexes(mine) /\ OfKind(mine, {"subwrite"}) # {}
        /\ \A ix : (\E e \in S : e.kind = "subread" /\ e.path = c /\ e.ix = ix) => ix \in ReadIndexes(mine)
        /\ (\E e \in S : e.kind = "opaque" /\ e.path = c) => OfKind(mine, {"opaque"}) # {}
    BY <1>4, <1>5, <2>1
  <2>5. /\ st.kind \in Writing /\ st.base = c => st.ix \in WriteIndexes(mine) /\ OfKind(mine, {"subwrite"}) # {}
        /\ st.kind = "opaque" /\ st.base = c => OfKind(mine, {"opaque"}) # {}
        /\ st.kind \in {"augstore", "augnested", "mutate"} /\ st.base = c => st.ix \in ReadIndexes(mine)
        /\ \A u \in Range(st.uses) : u.name = c /\ u.ix.form # "whole" => u.ix \in ReadIndexes(mine)
    BY <2>2, <2>3, <2>4, Zenon
  <2> QED BY <2>5, Zenon DEF st
<1> QED BY <1>6, <1>7, <1>8, <1>9, Zenon DEF MineSays, mine

\* No statement is opaque: the plan would be a dict slab, and what it changes
\* would stay.
LEMMA NoOpaque ==
  ASSUME NEW b, WellFormed(b), Parallel(b), ~UndoesNothing(b), NEW n \in DOMAIN b.stmts
  PROVE  b.stmts[n].kind # "opaque"
<1> SUFFICES ASSUME b.stmts[n].kind = "opaque" PROVE FALSE  OBVIOUS
<1> DEFINE c == b.stmts[n].base
           mine == Mine(Events(b), c)
           info == Targets(b)[c]
<1>1. c \in Containers /\ b.stmts[n] \in Range(b.stmts)  BY StmtsAre, Zenon DEF Statements
<1>2. MineSays(b, c)  BY <1>1, MineIs, Zenon
<1>3. OfKind(mine, {"opaque"}) # {}  BY <1>2, Zenon DEF MineSays
<1>4. NamedIn(Events(b), c)  BY <1>3 DEF NamedIn, OfKind, Mine
<1> HIDE DEF mine, info, c
<1>5. /\ c \in DOMAIN Targets(b)
      /\ OfKind(mine, {"subwrite"}) # {} => info = IndexedInfo(b, Events(b), mine)
      /\ OfKind(mine, {"subwrite"}) = {} => info = Info("SHARED_INDEXED_UNRESOLVED")
  BY <1>1, <1>3, <1>4, ContainerInfo, Zenon DEF mine, info
<1>6. OfKind(mine, {"opaque", "write", "aug"}) # {}  BY <1>3 DEF OfKind
<1>7. info = Info("SHARED_INDEXED_UNRESOLVED")  BY <1>5, <1>6, Zenon DEF IndexedInfo
<1>8. info.class = "SHARED_INDEXED_UNRESOLVED" /\ ~info.inPlace  BY <1>7 DEF Info
<1>9. SlabKind(b, info) = "dict"  BY <1>8, PlanKinds
<1>10. Plan(b)[c] = "dict" /\ c \in DOMAIN Plan(b)  BY <1>1, <1>5, <1>9, Zenon DEF Plan, info
<1>11. "dict" \in Range(Plan(b))  BY <1>10 DEF Range
<1>12. Stmts(b, {"mutate", "nested", "opaque"}) # {}  BY <1>1 DEF Stmts
<1> QED BY <1>11, <1>12, Zenon DEF UndoesNothing

\* The plan of a container the body does not write.
LEMMA UnwrittenPlan ==
  ASSUME NEW b, WellFormed(b), Parallel(b), ~UndoesNothing(b), NEW c \in Containers, Unwritten(b, c)
  PROVE  Plan(b)[c] = "none"
<1> DEFINE evs == Events(b)
           mine == Mine(evs, c)
           info == Targets(b)[c]
<1>1. Plan(b)[c] = IF c \in DOMAIN Targets(b) THEN SlabKind(b, info) ELSE "none"  BY Zenon DEF Plan
<1> SUFFICES ASSUME c \in DOMAIN Targets(b) PROVE SlabKind(b, info) = "none"  BY <1>1
<1>2. MineSays(b, c)  BY MineIs, Zenon
<1>3. OfKind(mine, {"subwrite"}) = {}  BY <1>2, Zenon DEF MineSays, Unwritten
<1>4. OfKind(mine, {"opaque"}) = {}  BY <1>2, NoOpaque, Zenon DEF MineSays
<1>5. OfKind(mine, {"write", "aug"}) = {} /\ OfKind(mine, {"aug", "write"}) = {}
  <2>1. OfKind(mine, {"write", "aug"}) = {}  BY <1>2, Zenon DEF MineSays
  <2> QED BY <2>1 DEF OfKind
<1> HIDE DEF mine, info, evs
<1>6. info = Classify(b, evs, c)  BY Zenon DEF Targets, info, evs
<1>7. info \in {Info("LOOP_LOCAL"), Info("OUTER_READONLY")}
  BY <1>3, <1>4, <1>5, <1>6, Zenon DEF Classify, mine
<1>8. info.class \in {"LOOP_LOCAL", "OUTER_READONLY"}  BY <1>7 DEF Info
<1> QED BY <1>8 DEF SlabKind

-----------------------------------------------------------------------------
(* The plan of a container the body writes *)

LEMMA WorstIs ==
  ASSUME NEW S \in SUBSET Shapes, S # {}
  PROVE  /\ Worst(S) = "SELF_CONTAINED" => S = {"SELF_CONTAINED"}
         /\ Worst(S) = "RECOGNIZED_DAG" => S \subseteq {"SELF_CONTAINED", "RECOGNIZED_DAG"}
<1> DEFINE order == <<"UNRESOLVED", "MODULAR_SELF_REFERENCE", "MONOTONIC_OFFSET", "RECOGNIZED_DAG", "SELF_CONTAINED">>
           Is(m) == order[m] \in S /\ \A l \in 1 .. m - 1 : order[l] \notin S
           k == CHOOSE m \in 1 .. 5 : Is(m)
<1>1. \E m \in 1 .. 5 : Is(m)
  <2>1. CASE "UNRESOLVED" \in S
    <3>1. order[1] \in S /\ \A l \in 1 .. 1 - 1 : order[l] \notin S  BY <2>1
    <3> QED BY <3>1
  <2>2. CASE "UNRESOLVED" \notin S /\ "MODULAR_SELF_REFERENCE" \in S
    <3>1. order[2] \in S /\ \A l \in 1 .. 2 - 1 : order[l] \notin S  BY <2>2
    <3> QED BY <3>1
  <2>3. CASE {"UNRESOLVED", "MODULAR_SELF_REFERENCE"} \cap S = {} /\ "MONOTONIC_OFFSET" \in S
    <3>1. order[3] \in S /\ \A l \in 1 .. 3 - 1 : order[l] \notin S  BY <2>3
    <3> QED BY <3>1
  <2>4. CASE {"UNRESOLVED", "MODULAR_SELF_REFERENCE", "MONOTONIC_OFFSET"} \cap S = {} /\ "RECOGNIZED_DAG" \in S
    <3>1. order[4] \in S /\ \A l \in 1 .. 4 - 1 : order[l] \notin S  BY <2>4
    <3> QED BY <3>1
  <2>5. CASE {"UNRESOLVED", "MODULAR_SELF_REFERENCE", "MONOTONIC_OFFSET", "RECOGNIZED_DAG"} \cap S = {} /\ "SELF_CONTAINED" \in S
    <3>1. order[5] \in S /\ \A l \in 1 .. 5 - 1 : order[l] \notin S  BY <2>5
    <3> QED BY <3>1
  <2> QED BY <2>1, <2>2, <2>3, <2>4, <2>5 DEF Shapes
<1>2. k \in 1 .. 5 /\ Is(k)
  <2> HIDE DEF Is
  <2> QED BY <1>1, Zenon
<1>3. Worst(S) = order[k]  BY Zenon DEF Worst
<1> HIDE DEF k
<1>4. k = 5 \/ k = 4 \/ order[k] \notin {"SELF_CONTAINED", "RECOGNIZED_DAG"}  BY <1>2
<1>5. order[1] = "UNRESOLVED" /\ order[2] = "MODULAR_SELF_REFERENCE" /\ order[3] = "MONOTONIC_OFFSET" /\ order[4] = "RECOGNIZED_DAG" /\ order[5] = "SELF_CONTAINED"
  OBVIOUS
<1>6. CASE k = 5
  <2>1. order[1] \notin S /\ order[2] \notin S /\ order[3] \notin S /\ order[4] \notin S
    BY <1>2, <1>6
  <2> QED BY <1>3, <1>5, <1>6, <2>1 DEF Shapes
<1>7. CASE k = 4
  <2>1. order[1] \notin S /\ order[2] \notin S /\ order[3] \notin S  BY <1>2, <1>7
  <2> QED BY <1>3, <1>5, <1>7, <2>1 DEF Shapes
<1> QED BY <1>3, <1>4, <1>6, <1>7

\* What a container with a tractable shape is read and written at.
LEMMA ShapeIs ==
  ASSUME NEW b, NEW info, info.reads # {}, Shape(b, info) \in {"SELF_CONTAINED", "RECOGNIZED_DAG"}
  PROVE  /\ HasIndex(b) /\ \A ix \in info.writes : AtIndex(b, ix)
         /\ \A ix \in info.reads : AtIndex(b, ix) \/ (AtQuotient(b, ix) /\ ix.by > 1)
         /\ \A ix \in info.reads : AtQuotient(b, ix) => Shape(b, info) = "RECOGNIZED_DAG"
<1> DEFINE S == {ReadShape(ix) : ix \in info.reads}
<1>1. HasIndex(b) /\ (\A ix \in info.writes : AtIndex(b, ix)) /\ Shape(b, info) = Worst(S)
  BY DEF Shape
<1>2. S \in SUBSET Shapes /\ S # {}  BY DEF ReadShape, Shapes
<1>3. /\ Worst(S) = "SELF_CONTAINED" => S = {"SELF_CONTAINED"}
      /\ Worst(S) = "RECOGNIZED_DAG" => S \subseteq {"SELF_CONTAINED", "RECOGNIZED_DAG"}
  <2> HIDE DEF S
  <2> QED BY <1>2, WorstIs, Zenon
<1>4. \A ix \in info.reads : ReadShape(ix) \in S  OBVIOUS
<1> HIDE DEF S
<1>5. \A ix : ReadShape(ix) = "SELF_CONTAINED" => ix.form = "var" /\ ix.name = "i"  BY DEF ReadShape
<1>6. \A ix : ReadShape(ix) = "RECOGNIZED_DAG" => ix.form = "div" /\ ix.name = "i" /\ ix.by > 1
  BY DEF ReadShape
<1>7. \A ix : AtIndex(b, ix) <=> ix.form = "var" /\ ix.name = "i"  BY <1>1 DEF AtIndex
<1>8. \A ix : AtQuotient(b, ix) <=> ix.form = "div" /\ ix.name = "i"  BY <1>1 DEF AtQuotient
<1>9. \A ix \in info.reads : ReadShape(ix) \in {"SELF_CONTAINED", "RECOGNIZED_DAG"}
  BY <1>1, <1>3, <1>4
<1>10. \A ix \in info.reads : AtIndex(b, ix) \/ (AtQuotient(b, ix) /\ ix.by > 1)
  BY <1>5, <1>6, <1>7, <1>8, <1>9
<1>11. ASSUME NEW ix \in info.reads, AtQuotient(b, ix) PROVE Shape(b, info) = "RECOGNIZED_DAG"
  <2>1. ReadShape(ix) # "SELF_CONTAINED"  BY <1>5, <1>8, <1>11
  <2> QED BY <1>1, <1>3, <1>4, <2>1
<1> QED BY <1>1, <1>10, <1>11

LEMMA IndexedCases ==
  ASSUME NEW b, NEW evs, NEW mine, OfKind(mine, {"opaque", "write", "aug"}) = {}
  PROVE  Outcome(IndexedInfo(b, evs, mine), WriteIndexes(mine), ReadIndexes(mine),
                 {IndexClass(b, evs, ix) : ix \in WriteIndexes(mine)}, Nests(mine))
<1> DEFINE classes == {IndexClass(b, evs, ix) : ix \in WriteIndexes(mine)}
           W == WriteIndexes(mine)
           R == ReadIndexes(mine)
           nest == Nests(mine)
           dis == Disagree(b, evs, mine)
           base == [Info("SHARED_INDEXED_SAFE") EXCEPT !.writes = W, !.reads = R, !.inPlace = nest]
           info == IndexedInfo(b, evs, mine)
<1>1. info = IF dis THEN [base EXCEPT !.tier = "ASSERTED", !.inPlace = FALSE]
             ELSE IF base.reads # {} THEN [base EXCEPT !.class = "READ_AFTER_WRITE"]
             ELSE IF classes = {"proven"} THEN [base EXCEPT !.tier = "BY_PROOF"]
             ELSE IF classes = {"value"} THEN [base EXCEPT !.tier = "BY_ASSUMPTION"]
             ELSE [base EXCEPT !.class = "SHARED_INDEXED_UNRESOLVED", !.inPlace = FALSE]
  BY Zenon DEF IndexedInfo, Nests
<1>2. /\ DOMAIN base = {"class", "tier", "op", "writes", "reads", "inPlace", "nested"}
      /\ base.class = "SHARED_INDEXED_SAFE" /\ base.writes = W /\ base.reads = R /\ base.inPlace = nest
  <2> HIDE DEF W, R, nest
  <2> QED BY DEF Info
<1> HIDE DEF base, classes, W, R, nest, dis, info
<1>3. CASE dis
  <2>1. info = [base EXCEPT !.tier = "ASSERTED", !.inPlace = FALSE]  BY <1>1, <1>3, Zenon
  <2> QED BY <1>2, <2>1 DEF Outcome, info, W, R, nest, classes
<1>4. CASE ~dis /\ R # {}
  <2>1. info = [base EXCEPT !.class = "READ_AFTER_WRITE"]  BY <1>1, <1>2, <1>4, Zenon
  <2> QED BY <1>2, <1>4, <2>1 DEF Outcome, info, W, R, nest, classes
<1>5. CASE ~dis /\ R = {} /\ classes = {"proven"}
  <2>1. info = [base EXCEPT !.tier = "BY_PROOF"]  BY <1>1, <1>2, <1>5, Zenon
  <2>2. info.writes = W /\ info.reads = R /\ info.class = "SHARED_INDEXED_SAFE" /\ info.tier = "BY_PROOF" /\ (info.inPlace <=> nest)
    BY <1>2, <2>1
  <2> QED BY <1>5, <2>2, Zenon DEF Outcome, info, W, R, nest, classes
<1>6. CASE ~dis /\ R = {} /\ classes # {"proven"} /\ classes = {"value"}
  <2>1. info = [base EXCEPT !.tier = "BY_ASSUMPTION"]  BY <1>1, <1>2, <1>6, Zenon
  <2>2. info.writes = W /\ info.reads = R /\ info.class = "SHARED_INDEXED_SAFE" /\ info.tier = "BY_ASSUMPTION" /\ (info.inPlace <=> nest)
    BY <1>2, <2>1
  <2> QED BY <1>6, <2>2, Zenon DEF Outcome, info, W, R, nest, classes
<1>7. CASE ~dis /\ R = {} /\ classes # {"proven"} /\ classes # {"value"}
  <2>1. info = [base EXCEPT !.class = "SHARED_INDEXED_UNRESOLVED", !.inPlace = FALSE]
    BY <1>1, <1>2, <1>7, Zenon
  <2>2. info.writes = W /\ info.reads = R /\ info.class = "SHARED_INDEXED_UNRESOLVED" /\ ~info.inPlace
    BY <1>2, <2>1
  <2> QED BY <1>7, <2>2, Zenon DEF Outcome, info, W, R, nest, classes
<1> QED BY <1>3, <1>4, <1>5, <1>6, <1>7

LEMMA KnownIs ==
  ASSUME NEW b, Known(b)
  PROVE  /\ WellFormed(b) /\ Parallel(b) /\ ~RebindsIndex(b) /\ ~ReadsWhole(b) /\ ~AccumulatesRight(b) /\ ~BindsMaybe(b)
         /\ ~WritesRow(b) /\ ~SharesRows(b) /\ ~RereadsRoot(b) /\ ~ReadsAhead(b) /\ ~UndoesNothing(b) /\ ~OnTrust(b)
BY Zenon DEF Known, Understood

LEMMA ParallelVerdict ==
  ASSUME NEW b, Parallel(b), NEW path \in DOMAIN Targets(b)
  PROVE  /\ Analysed(b) /\ Verdict(b, Targets(b)[path]) # "refused"
         /\ Verdict(b, Targets(b)[path]) = "levels" => Eligibility(b) = "WAVEFRONT"
         /\ Eligibility(b) = "THREAD_CAPABLE" => Verdict(b, Targets(b)[path]) # "reduction"
<1> DEFINE verdicts == {Verdict(b, Targets(b)[q]) : q \in DOMAIN Targets(b)}
           e == Eligibility(b)
           no == HasKind(b, "return") \/ HasKind(b, "break")
<1>1. e = IF ~Analysed(b) \/ b.backend = "sequential" THEN "SEQUENTIAL"
          ELSE IF no \/ "refused" \in verdicts
               THEN IF b.strict THEN "RAISES" ELSE "SEQUENTIAL"
          ELSE IF "levels" \in verdicts THEN "WAVEFRONT"
          ELSE IF "reduction" \in verdicts THEN "REDUCTION"
          ELSE "THREAD_CAPABLE"
  BY DEF Eligibility
<1>2. Verdict(b, Targets(b)[path]) \in verdicts  OBVIOUS
<1> HIDE DEF verdicts, e, no
<1>3. e \notin {"RAISES", "SEQUENTIAL"}  BY DEF Parallel, e
<1> QED BY <1>1, <1>2, <1>3 DEF e

LEMMA WrittenInfo ==
  ASSUME NEW b, Known(b), NEW c \in Containers, ~Unwritten(b, c) PROVE WriteInfo(b, c)
<1> DEFINE info == Targets(b)[c]
           evs == Events(b)
           mine == Mine(evs, c)
<1>0. WellFormed(b) /\ Parallel(b) /\ ~UndoesNothing(b)  BY KnownIs, Zenon
<1>1. MineSays(b, c)  BY <1>0, MineIs, Zenon
<1>2. OfKind(mine, {"subwrite"}) # {}  BY <1>1, Zenon DEF MineSays, Unwritten
<1>3. OfKind(mine, {"opaque", "write", "aug"}) = {}
  <2>1. OfKind(mine, {"write", "aug"}) = {}  BY <1>1, Zenon DEF MineSays
  <2>2. OfKind(mine, {"opaque"}) = {}  BY <1>0, <1>1, NoOpaque, Zenon DEF MineSays
  <2> HIDE DEF mine
  <2> QED BY <2>1, <2>2 DEF OfKind
<1>4. NamedIn(evs, c)  BY <1>2 DEF NamedIn, OfKind, Mine
<1>5. c \in DOMAIN Targets(b) /\ info = IndexedInfo(b, evs, mine)
  BY <1>0, <1>2, <1>4, ContainerInfo, Zenon
<1>6. Plan(b)[c] = SlabKind(b, info) /\ c \in DOMAIN Plan(b)  BY <1>5, Zenon DEF Plan
<1>7. Outcome(info, WriteIndexes(mine), ReadIndexes(mine), {IndexClass(b, evs, ix) : ix \in WriteIndexes(mine)}, Nests(mine))
  <2> HIDE DEF info, mine, evs
  <2> QED BY <1>3, <1>5, IndexedCases, Zenon
<1>8. Analysed(b) /\ Verdict(b, info) # "refused"  BY <1>0, <1>5, ParallelVerdict, Zenon
<1>9. info.tier = "ASSERTED" => info.reads = {}  BY <1>5, <1>8, Zenon DEF Analysed
<1>10. info.class = "READ_AFTER_WRITE" => Shape(b, info) \in {"SELF_CONTAINED", "RECOGNIZED_DAG"} \/ Asserted(b)
  <2> HIDE DEF info
  <2> QED BY <1>8 DEF Verdict
<1> QED BY <1>5, <1>6, <1>7, <1>9, <1>10, Zenon DEF WriteInfo

LEMMA SlabKinds ==
  ASSUME NEW b, NEW info
  PROVE  /\ info.inPlace => SlabKind(b, info) = "none"
         /\ ~info.inPlace /\ info.class = "SHARED_INDEXED_SAFE" =>
              SlabKind(b, info) = IF info.tier = "BY_PROOF" THEN "list" ELSE "dict"
         /\ ~info.inPlace /\ info.class = "SHARED_INDEXED_UNRESOLVED" => SlabKind(b, info) = "dict"
         /\ ~info.inPlace /\ info.class = "READ_AFTER_WRITE" /\ Shape(b, info) \in {"SELF_CONTAINED", "RECOGNIZED_DAG"} =>
              SlabKind(b, info) = IF \E ix \in info.reads : AtIndex(b, ix) THEN "cell" ELSE "list"
         /\ ~info.inPlace /\ info.class = "READ_AFTER_WRITE" /\ Shape(b, info) \notin {"SELF_CONTAINED", "RECOGNIZED_DAG"} =>
              SlabKind(b, info) = "dict"
BY DEF SlabKind

LEMMA WrittenPlan ==
  ASSUME NEW b, Known(b), NEW c \in Containers, ~Unwritten(b, c) PROVE SlabOK(b, c)
<1> DEFINE info == Targets(b)[c]
           evs == Events(b)
           mine == Mine(evs, c)
           W == WriteIndexes(mine)
           R == ReadIndexes(mine)
           classes == {IndexClass(b, evs, ix) : ix \in W}
           p == Plan(b)[c]
<1>0. WellFormed(b) /\ Parallel(b) /\ ~SharesRows(b) /\ ~OnTrust(b) /\ ~ReadsWhole(b)
  BY KnownIs, Zenon
<1>1. MineSays(b, c)  BY <1>0, MineIs, Zenon
<1>2. /\ c \in DOMAIN Targets(b) /\ p = SlabKind(b, info)
      /\ Outcome(info, W, R, classes, Nests(mine))
      /\ info.tier = "ASSERTED" => info.reads = {}
      /\ info.class = "READ_AFTER_WRITE" => Shape(b, info) \in {"SELF_CONTAINED", "RECOGNIZED_DAG"} \/ Asserted(b)
  BY WrittenInfo, Zenon DEF WriteInfo
<1>3. /\ \A n \in DOMAIN b.stmts : b.stmts[n].kind \in Writing /\ b.stmts[n].base = c => b.stmts[n].ix \in W
      /\ \A n \in DOMAIN b.stmts : \A u \in Range(b.stmts[n].uses) : u.name = c /\ u.ix.form # "whole" => u.ix \in R
      /\ Nests(mine) => \E n \in DOMAIN b.stmts : b.stmts[n].kind = "nested" /\ b.stmts[n].base = c
  BY <1>1, Zenon DEF MineSays, Nests
<1>4. \A n \in DOMAIN b.stmts : b.stmts[n] \in Range(b.stmts)  BY <1>0, StmtsAre, Zenon
<1>5. PICK w \in DOMAIN b.stmts : b.stmts[w].base = c /\ b.stmts[w].kind \in Writing
  BY Zenon DEF Unwritten
<1>6. Written(b, c)  BY <1>4, <1>5 DEF Written, Writing
<1>7. ASSUME NEW n \in DOMAIN b.stmts, NEW u \in Range(b.stmts[n].uses), u.name = c
      PROVE  u.ix \in R /\ ~Asserted(b)
  <2>1. u \in Uses(b, c)  BY <1>4, <1>7 DEF Uses
  <2>2. u.ix.form # "whole"  BY <1>0, <1>6, <2>1, Zenon DEF ReadsWhole
  <2>3. ~Asserted(b)  BY <1>0, <1>6, <2>1, Zenon DEF OnTrust
  <2> QED BY <1>3, <1>7, <2>2, <2>3, Zenon
<1>8. \A ix : IndexClass(b, evs, ix) = "proven" => AtIndex(b, ix)
  <2> HIDE DEF evs
  <2> QED BY DEF IndexClass, Proven, AtIndex
<1>9. Nests(mine) /\ p = "none" => OwnWrites(b, c)
  <2> SUFFICES ASSUME Nests(mine), p = "none", NEW n \in DOMAIN b.stmts, b.stmts[n].base = c, b.stmts[n].kind \in Writing,
                      ~AtIndex(b, b.stmts[n].ix)
               PROVE  FALSE  BY DEF OwnWrites
  <2>1. PICK m \in DOMAIN b.stmts : b.stmts[m].kind = "nested" /\ b.stmts[m].base = c
    BY <1>3, Zenon
  <2>2. b.stmts[m] \in Stmts(b, {"nested"}) /\ b.stmts[n] \in Stmts(b, Writing)
    BY <1>4, <2>1 DEF Stmts
  <2> QED BY <1>0, <2>1, <2>2, Zenon DEF SharesRows
<1> HIDE DEF info, evs, mine, W, R, classes, p
<1>10. info.writes = W /\ info.reads = R  BY <1>2, Zenon DEF Outcome
<1>11. (\A ix \in W : AtIndex(b, ix)) => OwnWrites(b, c)  BY <1>3, Zenon DEF OwnWrites
<1>12. CASE info.class = "SHARED_INDEXED_SAFE" /\ info.tier = "ASSERTED" /\ ~info.inPlace
  <2>1. p = "dict" /\ R = {}  BY <1>2, <1>10, <1>12, SlabKinds
  <2> QED BY <1>7, <2>1 DEF SlabOK, p, info, mine, evs, R
<1>13. CASE R # {} /\ info.class = "READ_AFTER_WRITE" /\ (info.inPlace <=> Nests(mine)) /\ Shape(b, info) \in {"SELF_CONTAINED", "RECOGNIZED_DAG"}
  <2>1. /\ HasIndex(b) /\ \A ix \in W : AtIndex(b, ix)
        /\ \A ix \in R : AtIndex(b, ix) \/ (AtQuotient(b, ix) /\ ix.by > 1)
        /\ \A ix \in R : AtQuotient(b, ix) => Shape(b, info) = "RECOGNIZED_DAG"
    BY <1>10, <1>13, ShapeIs, Zenon
  <2>2. p \in {"none", "list", "cell"} /\ (p = "list" => \A ix \in R : ~AtIndex(b, ix))
    BY <1>2, <1>10, <1>13, SlabKinds
  <2>3. OwnWrites(b, c)  BY <1>11, <2>1, Zenon
  <2>4. ASSUME NEW n \in DOMAIN b.stmts, NEW u \in Range(b.stmts[n].uses), u.name = c
        PROVE  /\ info.class = "READ_AFTER_WRITE" /\ c \in DOMAIN Targets(b) /\ u.ix \in info.reads
               /\ \/ AtIndex(b, u.ix) /\ p \in {"none", "cell"}
                  \/ AtQuotient(b, u.ix) /\ u.ix.by > 1 /\ p \in {"none", "list", "cell"} /\ Shape(b, info) = "RECOGNIZED_DAG"
    <3>1. u.ix \in R  BY <1>7, <2>4
    <3> QED BY <1>2, <1>10, <1>13, <2>1, <2>2, <3>1
  <2> QED BY <2>2, <2>3, <2>4, Zenon DEF SlabOK, p, info, mine, evs, R
<1>14. CASE R # {} /\ info.class = "READ_AFTER_WRITE" /\ (info.inPlace <=> Nests(mine)) /\ Shape(b, info) \notin {"SELF_CONTAINED", "RECOGNIZED_DAG"}
  <2>1. Asserted(b)  BY <1>2, <1>14
  <2>2. \A n \in DOMAIN b.stmts : \A u \in Range(b.stmts[n].uses) : u.name # c  BY <1>7, <2>1
  <2>3. (info.inPlace => p = "none") /\ (~info.inPlace => p = "dict")  BY <1>2, <1>14, SlabKinds
  <2>4. p # "dict" => OwnWrites(b, c)  BY <1>9, <1>14, <2>3
  <2> QED BY <2>2, <2>3, <2>4 DEF SlabOK, p, info, mine, evs, R
<1>15. CASE R = {} /\ classes = {"proven"} /\ info.class = "SHARED_INDEXED_SAFE" /\ info.tier = "BY_PROOF"
  <2>1. \A ix \in W : AtIndex(b, ix)  BY <1>8, <1>15 DEF classes
  <2>2. OwnWrites(b, c)  BY <1>11, <2>1, Zenon
  <2> QED BY <1>7, <1>15, <2>2 DEF SlabOK, p, info, mine, evs, R
<1>16. CASE R = {} /\ info.class = "SHARED_INDEXED_SAFE" /\ info.tier = "BY_ASSUMPTION" /\ (info.inPlace <=> Nests(mine))
  <2>1. (info.inPlace => p = "none") /\ (~info.inPlace => p = "dict")  BY <1>2, <1>16, SlabKinds
  <2>2. p # "dict" => OwnWrites(b, c)  BY <1>9, <1>16, <2>1
  <2> QED BY <1>7, <1>16, <2>2 DEF SlabOK, p, info, mine, evs, R
<1>17. CASE R = {} /\ info.class = "SHARED_INDEXED_UNRESOLVED" /\ ~info.inPlace
  <2>1. p = "dict"  BY <1>2, <1>17, SlabKinds
  <2> QED BY <1>7, <1>17, <2>1 DEF SlabOK, p, info, mine, evs, R
<1> QED BY <1>2, <1>12, <1>13, <1>14, <1>15, <1>16, <1>17, Zenon DEF Outcome

-----------------------------------------------------------------------------
(* What the analysis knows of a name *)

LEMMA NameIs == ASSUME NEW b, WellFormed(b), Parallel(b), NEW x \in Names PROVE NameSays(b, x)
<1> DEFINE mine == Mine(Events(b), x)
           At0(n) == Range(EventsAt(b, n))
<1>1. \A e \in mine : e.path = x /\ \E n \in DOMAIN b.stmts : e \in At0(n)
  BY EventFrom, Zenon DEF Mine
<1>2. \A n \in DOMAIN b.stmts : \A e \in At0(n) : e.path = x => e \in mine
  BY BlockSays, Zenon DEF Mine
<1>3. \A n \in DOMAIN b.stmts : Honest(b.stmts[n], At0(n)) /\ Complete(b.stmts[n], LoopVar(b), At0(n)) /\ Tells(b.stmts[n], EventsAt(b, n))
  BY BlockSays, Zenon
<1>4. \A st : \A e \in Emitted(st) : /\ e.op \in {"none", "+", "max"} /\ (e.kind \in {"subwrite", "opaque"} => e.path \in Containers)
                                     /\ e.kind = "write" => /\ e.path = st.name /\ st.kind \in {"assign", "move", "walrus"}
                                                            /\ st.kind # "walrus" => e.self = SelfRef(st)
  BY DEF Emitted
<1>5. x \notin Containers  BY ContainersApart
<1> HIDE DEF mine
<1>6. ASSUME NEW e \in mine
      PROVE  /\ e.op \in {"none", "+", "max"} /\ e.kind \notin {"subwrite", "opaque"}
             /\ e.kind \in {"write", "aug"} =>
                  \/ \E n \in DOMAIN b.stmts : b.stmts[n].name = x /\ Updates(b.stmts[n])
                  \/ e.op = "none"
             /\ e.kind = "write" => \E n \in DOMAIN b.stmts : BindsAs(b.stmts[n], x, e)
  <2>1. e.path = x  BY <1>1
  <2>2. PICK n \in DOMAIN b.stmts : e \in At0(n)  BY <1>1
  <2>3. /\ e \in Emitted(b.stmts[n])
        /\ e.kind \in {"write", "aug"} /\ e.op # "none" => Updates(b.stmts[n]) /\ e.path = b.stmts[n].name
    BY <1>3, <2>2 DEF Honest
  <2>4. /\ e.op \in {"none", "+", "max"} /\ (e.kind \in {"subwrite", "opaque"} => e.path \in Containers)
        /\ e.kind = "write" => /\ e.path = b.stmts[n].name /\ b.stmts[n].kind \in {"assign", "move", "walrus"}
                               /\ b.stmts[n].kind # "walrus" => e.self = SelfRef(b.stmts[n])
    BY <1>4, <2>3, Zenon
  <2>5. e.kind \in {"write", "aug"} => (\E m \in DOMAIN b.stmts : b.stmts[m].name = x /\ Updates(b.stmts[m])) \/ e.op = "none"
    BY <2>1, <2>3, Zenon
  <2>6. e.kind = "write" => \E m \in DOMAIN b.stmts : BindsAs(b.stmts[m], x, e)
    BY <2>1, <2>4, Zenon DEF BindsAs
  <2>7. e.kind \notin {"subwrite", "opaque"}  BY <1>5, <2>1, <2>4
  <2> QED BY <2>4, <2>5, <2>6, <2>7
<1>8. ASSUME NEW n \in DOMAIN b.stmts
      PROVE  /\ b.stmts[n].name = x /\ b.stmts[n].kind = "aug" => \E e \in mine : e.kind = "aug" /\ e.op = b.stmts[n].op
             /\ b.stmts[n].name = x /\ b.stmts[n].kind \in {"assign", "move"} => \E e \in mine : e.kind = "write" /\ e.op = SelfOp(b.stmts[n])
             /\ b.stmts[n].name = x /\ b.stmts[n].kind = "walrus" => \E e \in mine : e.kind = "write"
             /\ x \in Needs(b.stmts[n]) \ HiddenTo(b.stmts[n], LoopVar(b)) => \E e \in mine : e.kind = "read"
  <2> DEFINE st == b.stmts[n]
             S == At0(n)
  <2>1. Complete(st, LoopVar(b), S) /\ Tells(st, EventsAt(b, n)) /\ \A e \in S : e.path = x => e \in mine
    BY <1>2, <1>3, Zenon
  <2>2. /\ st.name = x /\ st.kind \in {"assign", "move"} => \E e \in S : e.kind = "write" /\ e.path = x /\ e.op = SelfOp(st)
        /\ st.name = x /\ st.kind = "walrus" => \E e \in S : e.kind = "write" /\ e.path = x
    BY <2>1 DEF Tells
  <2>3. /\ st.name = x /\ st.kind = "aug" => \E e \in S : e.kind = "aug" /\ e.path = x /\ e.op = st.op
        /\ x \in Needs(st) \ HiddenTo(st, LoopVar(b)) => \E e \in S : e.kind = "read" /\ e.path = x
    BY <2>1 DEF Complete
  <2> HIDE DEF st, S
  <2>4. /\ st.name = x /\ st.kind = "aug" => \E e \in mine : e.kind = "aug" /\ e.op = st.op
        /\ st.name = x /\ st.kind \in {"assign", "move"} => \E e \in mine : e.kind = "write" /\ e.op = SelfOp(st)
        /\ st.name = x /\ st.kind = "walrus" => \E e \in mine : e.kind = "write"
        /\ x \in Needs(st) \ HiddenTo(st, LoopVar(b)) => \E e \in mine : e.kind = "read"
    BY <2>1, <2>2, <2>3, Zenon
  <2> QED BY <2>4, Zenon DEF st
<1>9. \A e \in mine : e.kind \in {"write", "aug"} =>
           \/ \E n \in DOMAIN b.stmts : b.stmts[n].name = x /\ Updates(b.stmts[n])
           \/ e.op = "none"
  BY <1>6, Zenon
<1> QED BY <1>6, <1>8, <1>9, Zenon DEF NameSays, mine

\* What makes a name a shared scalar.
LEMMA ScalarInfo ==
  ASSUME NEW b, WellFormed(b), NEW x \in Paths(b, Events(b)), Targets(b)[x].class = "SHARED_SCALAR"
  PROVE  /\ x \in Names \ DomainNames(b)
         /\ OfKind(Mine(Events(b), x), {"aug", "write"}) # {}
         /\ Targets(b)[x].op = ScalarOp(Mine(Events(b), x))
<1> DEFINE evs == Events(b)
           mine == Mine(evs, x)
           info == Targets(b)[x]
           nested == \E d \in OfKind(mine, {"aug", "write"}) : d.inLoop
           made == [Info("SHARED_SCALAR") EXCEPT !.op = ScalarOp(mine), !.nested = nested]
           local == IsLocal(First(evs, x), mine)
           indexed == IndexedInfo(b, evs, mine)
<1>1. info = IF local THEN Info("LOOP_LOCAL")
             ELSE IF OfKind(mine, {"subwrite"}) # {} THEN indexed
             ELSE IF OfKind(mine, {"opaque"}) # {} THEN Info("SHARED_INDEXED_UNRESOLVED")
             ELSE IF OfKind(mine, {"aug", "write"}) # {} THEN made
             ELSE Info("OUTER_READONLY")
  BY Zenon DEF Targets, Classify
<1>2. /\ Info("LOOP_LOCAL").class = "LOOP_LOCAL" /\ Info("SHARED_INDEXED_UNRESOLVED").class = "SHARED_INDEXED_UNRESOLVED"
      /\ Info("OUTER_READONLY").class = "OUTER_READONLY"
  BY DEF Info
<1>3. indexed.class # "SHARED_SCALAR"
  <2>1. CASE OfKind(mine, {"opaque", "write", "aug"}) # {}
    <3>1. indexed = Info("SHARED_INDEXED_UNRESOLVED")  BY <2>1, Zenon DEF IndexedInfo
    <3> QED BY <1>2, <3>1
  <2>2. CASE OfKind(mine, {"opaque", "write", "aug"}) = {}
    <3>1. Outcome(indexed, WriteIndexes(mine), ReadIndexes(mine), {IndexClass(b, evs, ix) : ix \in WriteIndexes(mine)}, Nests(mine))
      BY <2>2, IndexedCases, Zenon
    <3> HIDE DEF indexed, mine, evs
    <3> QED BY <3>1 DEF Outcome
  <2> QED BY <2>1, <2>2
<1> HIDE DEF local, indexed
<1>4. info = made /\ OfKind(mine, {"aug", "write"}) # {}
  <2> HIDE DEF info, made, mine
  <2> QED BY <1>1, <1>2, <1>3 DEF info
<1>5. info.op = ScalarOp(mine)
  <2> HIDE DEF info, mine, nested
  <2> QED BY <1>4 DEF Info
<1>6. x \in Names
  <2>1. PICK e \in OfKind(mine, {"aug", "write"}) : TRUE  BY <1>4
  <2>2. e \in Range(evs) /\ e.path = x /\ e.kind \in {"aug", "write"}  BY <2>1 DEF OfKind, Mine
  <2>3. evs \in Seq(AllEvents)  BY EventsAre, Zenon
  <2>4. e \in AllEvents
    <3> HIDE DEF evs
    <3> QED BY <2>2, <2>3, RangeIs
  <2> QED BY <2>2, <2>4 DEF AllEvents, Emitted
<1>7. x \notin DomainNames(b)  BY Zenon DEF Paths
<1> QED BY <1>4, <1>5, <1>6, <1>7, Zenon DEF mine, evs, info

LEMMA ReductionHas ==
  ASSUME NEW b, Known(b), NEW x \in Reductions(b)
  PROVE  /\ x \in Names \ DomainNames(b) /\ x \in DOMAIN Targets(b)
         /\ OfKind(Mine(Events(b), x), {"aug", "write"}) # {} /\ OfKind(Mine(Events(b), x), {"read"}) = {}
         /\ Targets(b)[x].op # "none" /\ \A e \in OfKind(Mine(Events(b), x), {"aug", "write"}) : e.op = Targets(b)[x].op
<1> DEFINE mine == Mine(Events(b), x)
           info == Targets(b)[x]
<1>1. WellFormed(b) /\ Parallel(b) /\ x \in DOMAIN Targets(b) /\ info.class = "SHARED_SCALAR"
  BY KnownIs, Zenon DEF Reductions
<1>2. x \in Paths(b, Events(b))  BY <1>1, Zenon DEF Targets
<1>3. x \in Names \ DomainNames(b) /\ OfKind(mine, {"aug", "write"}) # {} /\ info.op = ScalarOp(mine)
  BY <1>1, <1>2, ScalarInfo, Zenon
<1>4. Verdict(b, info) # "refused"  BY <1>1, ParallelVerdict, Zenon
<1>5. info.op # "none"
  <2> HIDE DEF info
  <2> QED BY <1>1, <1>4 DEF Verdict
<1>6. \A e \in mine : e.kind \in {"write", "aug"} => e.op \in {"none", "+", "max"}
  <2>1. NameSays(b, x)  BY <1>1, <1>3, NameIs, Zenon
  <2> QED BY <2>1, Zenon DEF NameSays
<1> HIDE DEF mine, info
<1>7. OfKind(mine, {"read"}) = {} /\ \A e \in OfKind(mine, {"aug", "write"}) : e.op = ScalarOp(mine)
  <2>1. \A e \in mine : e.kind \in {"aug", "write"} => e.op \in {"none", "+", "max"}  BY <1>6
  <2> QED BY <1>3, <1>5, <2>1, ScalarOpIs, Zenon
<1> QED BY <1>1, <1>3, <1>5, <1>7, Zenon DEF mine, info

\* A name an inner loop binds is needed by nothing.
LEMMA LoopHides ==
  ASSUME NEW b, Known(b), NEW x \in LoopVar(b), NEW n \in DOMAIN b.stmts
  PROVE  x \notin Needs(b.stmts[n]) /\ ~(Updates(b.stmts[n]) /\ b.stmts[n].name = x)
<1>1. WellFormed(b) /\ ~BindsMaybe(b)  BY KnownIs, Zenon
<1>2. PICK st \in Range(b.stmts) : st.kind = "for" /\ st.name = x  BY DEF LoopVar
<1>3. st \in Stmts(b, {"walrus", "for"})  BY <1>2 DEF Stmts
<1>4. b.stmts[n] \in Range(b.stmts)  BY <1>1, StmtsAre, Zenon
<1>5. x \notin NeedsOf(b.stmts[n], {})  BY <1>1, <1>2, <1>3, <1>4, Zenon DEF BindsMaybe
<1> QED BY <1>5 DEF NeedsOf

\* The accumulators are only updated, with the one operator of theirs, and
\* nothing reads them.
LEMMA ReductionIs ==
  ASSUME NEW b, Known(b), Supported(b), NEW x \in Reductions(b), NEW n \in DOMAIN b.stmts
  PROVE  /\ x \notin Needs(b.stmts[n])
         /\ Renames(b.stmts[n]) /\ b.stmts[n].name = x =>
              Updates(b.stmts[n]) /\ b.stmts[n].form # "right" /\ b.stmts[n].op = Targets(b)[x].op
<1> DEFINE mine == Mine(Events(b), x)
           st == b.stmts[n]
           op == Targets(b)[x].op
<1>1. /\ x \in Names \ DomainNames(b) /\ OfKind(mine, {"aug", "write"}) # {} /\ OfKind(mine, {"read"}) = {}
      /\ op # "none" /\ \A e \in OfKind(mine, {"aug", "write"}) : e.op = op
  BY ReductionHas, Zenon
<1>2. WellFormed(b) /\ Parallel(b) /\ ~AccumulatesRight(b) /\ ~BindsMaybe(b)  BY KnownIs, Zenon
<1>3. st \in Statements /\ st \in Range(b.stmts) /\ (st.form # "plain" => st.kind = "assign")
  BY <1>2, StmtsAre, Zenon
<1>4. NameSays(b, x)  BY <1>1, <1>2, NameIs, Zenon
<1>5. /\ st.name = x /\ st.kind = "aug" => \E e \in mine : e.kind = "aug" /\ e.op = st.op
      /\ st.name = x /\ st.kind \in {"assign", "move"} => \E e \in mine : e.kind = "write" /\ e.op = SelfOp(st)
      /\ st.name = x /\ st.kind = "walrus" => \E e \in mine : e.kind = "write"
      /\ x \in Needs(st) \ HiddenTo(st, LoopVar(b)) => \E e \in mine : e.kind = "read"
  BY <1>4, Zenon DEF NameSays
<1>6. \E m \in DOMAIN b.stmts : b.stmts[m].name = x /\ Updates(b.stmts[m])
  <2>1. PICK e \in OfKind(mine, {"aug", "write"}) : TRUE  BY <1>1
  <2>2. e \in mine /\ e.kind \in {"write", "aug"} /\ e.op # "none"  BY <1>1, <2>1 DEF OfKind
  <2> QED BY <1>4, <2>2, Zenon DEF NameSays
<1>7. x \notin LoopVar(b)  BY <1>6, LoopHides, Zenon
<1>8. st.kind = "assign" /\ st.name = x => st.form # "plain" /\ x \notin Needs(st)
  BY <1>3, Zenon DEF Supported
<1>9. st.form # "right" \/ st.kind # "assign"  BY <1>2, <1>3, Zenon DEF AccumulatesRight, Stmts
<1>10. \A e \in mine : e.kind \in {"aug", "write"} => e.op = op  BY <1>1, Zenon DEF OfKind
<1>11. \A e \in mine : e.kind # "read"
  <2>1. \A e \in mine : e.kind = "read" => e \in OfKind(mine, {"read"})  BY Zenon DEF OfKind
  <2> QED BY <1>1, <2>1
<1> HIDE DEF mine, st, op
<1>12. ~(st.name = x /\ st.kind = "move")
  <2> SUFFICES ASSUME st.name = x, st.kind = "move" PROVE FALSE  OBVIOUS
  <2>1. SelfOp(st) = "none"  BY <1>3 DEF SelfOp
  <2> QED BY <1>1, <1>5, <1>10, <2>1
<1>13. ~(st.name = x /\ st.kind \in {"walrus", "for"})
  <2> SUFFICES ASSUME st.name = x, st.kind \in {"walrus", "for"} PROVE FALSE  OBVIOUS
  <2>1. st \in Stmts(b, {"walrus", "for"})  BY <1>3 DEF Stmts
  <2>2. PICK m \in DOMAIN b.stmts : b.stmts[m].name = x /\ Updates(b.stmts[m])  BY <1>6
  <2>3. x \in NeedsOf(b.stmts[m], {}) /\ b.stmts[m] \in Range(b.stmts)
    <3>1. b.stmts[m] \in Range(b.stmts)  BY <1>2, StmtsAre, Zenon
    <3> QED BY <2>2, <3>1 DEF NeedsOf
  <2> QED BY <1>2, <2>1, <2>3, Zenon DEF BindsMaybe
<1>14. ASSUME x \in Needs(st) PROVE FALSE
  <2>1. x \in HiddenTo(st, LoopVar(b))  BY <1>5, <1>11, <1>14
  <2>2. x = st.name /\ st.kind \in {"assign", "move"}  BY <1>7, <2>1 DEF HiddenTo
  <2> QED BY <1>8, <1>12, <1>14, <2>2
<1>15. Renames(st) /\ st.name = x => st.kind \in {"assign", "aug"}  BY <1>12, <1>13 DEF Renames
<1>16. st.kind = "assign" /\ st.name = x => Updates(st) /\ st.op = op
  <2> SUFFICES ASSUME st.kind = "assign", st.name = x PROVE Updates(st) /\ st.op = op  OBVIOUS
  <2>1. st.form # "plain" /\ SelfOp(st) = st.op  BY <1>8 DEF SelfOp
  <2>2. \E e \in mine : e.kind = "write" /\ e.op = st.op  BY <1>5, <2>1
  <2> QED BY <1>10, <2>1, <2>2 DEF Updates
<1>17. st.kind = "aug" /\ st.name = x => Updates(st) /\ st.op = op /\ st.form # "right"
  <2> SUFFICES ASSUME st.kind = "aug", st.name = x PROVE Updates(st) /\ st.op = op /\ st.form # "right"
    OBVIOUS
  <2>1. \E e \in mine : e.kind = "aug" /\ e.op = st.op  BY <1>5
  <2> QED BY <1>3, <1>10, <2>1 DEF Updates
<1>18. x \notin Needs(st) /\ (Renames(st) /\ st.name = x => Updates(st) /\ st.form # "right" /\ st.op = op)
  BY <1>9, <1>14, <1>15, <1>16, <1>17
<1> QED BY <1>18, Zenon DEF st, op

\* The names the body binds are its locals or accumulators.
LEMMA RenamedIs ==
  ASSUME NEW b, Known(b), NEW n \in DOMAIN b.stmts, Renames(b.stmts[n])
  PROVE  /\ b.stmts[n].name \notin DomainNames(b)
         /\ b.stmts[n].name \in Locals(b) \cup Reductions(b)
<1> DEFINE st == b.stmts[n]
           x == st.name
           mine == Mine(Events(b), x)
           first == First(Events(b), x)
<1>1. WellFormed(b) /\ Parallel(b) /\ ~RebindsIndex(b)  BY KnownIs, Zenon
<1>2. st \in Statements /\ st \in Range(b.stmts) /\ x \in Names /\ (st.form # "plain" => st.kind = "assign")
  <2>1. st \in Statements /\ st \in Range(b.stmts) /\ (st.form # "plain" => st.kind = "assign")
    BY <1>1, StmtsAre, Zenon
  <2> QED BY <2>1 DEF Statements
<1>3. x \notin DomainNames(b)
  <2>1. st \in Stmts(b, {"assign", "aug", "move", "walrus", "for"})  BY <1>2 DEF Stmts, Renames
  <2> QED BY <1>1, <2>1 DEF RebindsIndex
<1>4. NameSays(b, x)  BY <1>1, <1>2, NameIs, Zenon
<1>5. \A m \in DOMAIN b.stmts : b.stmts[m] \in Range(b.stmts)  BY <1>1, StmtsAre, Zenon
<1>6. \A m \in DOMAIN b.stmts : Binds(b.stmts[m], x) => x \in Locals(b)
  BY <1>2, <1>5, Zenon DEF Locals
<1>7. CASE st.kind \in {"walrus", "for"}
  <2>1. Binds(st, x)  BY <1>7 DEF Binds
  <2> QED BY <1>3, <1>6, <2>1
<1>8. CASE st.kind \in {"assign", "aug", "move"}
  <2>1. \E e \in mine : e.kind \in {"aug", "write"}
    <3>1. /\ st.kind = "aug" => \E e \in mine : e.kind = "aug" /\ e.op = st.op
          /\ st.kind \in {"assign", "move"} => \E e \in mine : e.kind = "write" /\ e.op = SelfOp(st)
      BY <1>4, Zenon DEF NameSays
    <3> HIDE DEF mine, st
    <3> QED BY <1>8, <3>1
  <2>2. NamedIn(Events(b), x)  BY <2>1 DEF NamedIn, Mine
  <2>3. first.path = x /\ first \in mine
    <3>1. first.path = x /\ first \in Range(Events(b))  BY <1>1, <2>2, FirstIs, Zenon
    <3> QED BY <3>1, Zenon DEF Mine
  <2>4. x \in Paths(b, Events(b)) /\ x \in DOMAIN Targets(b) /\ Targets(b)[x] = Classify(b, Events(b), x)
    <3>1. x \in Paths(b, Events(b))  BY <1>3, <2>2, Zenon DEF Paths, NamedIn
    <3> QED BY <3>1, Zenon DEF Targets
  <2>5. CASE IsLocal(first, mine)
    <3>1. first.kind = "write" /\ ~first.self  BY <2>5, Zenon DEF IsLocal
    <3>2. PICK m \in DOMAIN b.stmts : BindsAs(b.stmts[m], x, first)
      <4>1. \A e \in mine : e.kind = "write" => \E m \in DOMAIN b.stmts : BindsAs(b.stmts[m], x, e)
        BY <1>4, Zenon DEF NameSays
      <4>2. first \in mine /\ first.kind = "write"  BY <2>3, <3>1, Zenon
      <4> HIDE DEF first, mine
      <4> QED BY <4>1, <4>2, Zenon
    <3> DEFINE s == b.stmts[m]
    <3>3. Binds(s, x)
      <4> HIDE DEF s, first, x
      <4>1. s.kind = "walrus" \/ ~SelfRef(s)  BY <3>1, <3>2 DEF s, BindsAs
      <4> QED BY <3>2, <4>1 DEF Binds, SelfRef, Certain, s, BindsAs
    <3> QED BY <1>3, <1>6, <3>3
  <2>6. CASE ~IsLocal(first, mine)
    <3>1. OfKind(mine, {"subwrite"}) = {} /\ OfKind(mine, {"opaque"}) = {}
      <4>1. \A e \in mine : e.kind \notin {"subwrite", "opaque"}  BY <1>4, Zenon DEF NameSays
      <4> HIDE DEF mine
      <4> QED BY <4>1 DEF OfKind
    <3>2. OfKind(mine, {"aug", "write"}) # {}
      <4> HIDE DEF mine
      <4> QED BY <2>1 DEF OfKind
    <3> DEFINE nested == \E d \in OfKind(mine, {"aug", "write"}) : d.inLoop
    <3>3. Targets(b)[x] = [Info("SHARED_SCALAR") EXCEPT !.op = ScalarOp(mine), !.nested = nested]
      BY <2>4, <2>6, <3>1, <3>2, Zenon DEF Classify
    <3>4. Targets(b)[x].class = "SHARED_SCALAR"
      <4> HIDE DEF mine, nested
      <4> QED BY <3>3 DEF Info
    <3>5. x \in Reductions(b)  BY <2>4, <3>4, Zenon DEF Reductions
    <3> QED BY <1>3, <3>5
  <2> QED BY <2>5, <2>6
<1> QED BY <1>7, <1>8 DEF Renames

-----------------------------------------------------------------------------
(* The code of a block does what the block's statements need *)

LEMMA KnownPlainly == ASSUME NEW b, Known(b) PROVE Plainly(b)
<1>1. WellFormed(b) /\ Parallel(b) /\ ~BindsMaybe(b) /\ ~UndoesNothing(b)  BY KnownIs, Zenon
<1>2. \A n \in DOMAIN b.stmts : b.stmts[n].kind # "opaque"  BY <1>1, NoOpaque, Zenon
<1>3. \A n \in DOMAIN b.stmts : Renames(b.stmts[n]) => b.stmts[n].name \notin DomainNames(b)
  BY RenamedIs, Zenon
<1> QED BY <1>1, <1>2, <1>3, Zenon DEF Plainly

\* Where the rows of a container are written it has no slab, and where there
\* are dict slabs nothing is changed in place.
LEMMA PlanFits ==
  ASSUME NEW b, Known(b), NEW n \in DOMAIN b.stmts
  PROVE  /\ b.stmts[n].kind \in {"nested", "augnested"} => Plan(b)[b.stmts[n].base] = "none"
         /\ Sorted(Plan(b), b.stmts[n])
<1> DEFINE st == b.stmts[n]
           c == st.base
           mine == Mine(Events(b), c)
           R == ReadIndexes(mine)
           p == Plan(b)[c]
<1>1. WellFormed(b) /\ Parallel(b) /\ ~WritesRow(b) /\ ~UndoesNothing(b)  BY KnownIs, Zenon
<1>2. st \in Range(b.stmts) /\ st \in Statements  BY <1>1, StmtsAre, Zenon
<1>3. c \in Containers  BY <1>2 DEF Statements
<1>4. st.kind \in {"nested", "augnested"} => p = "none"
  <2>1. st.kind \in {"nested", "augnested"} => st \in Stmts(b, {"nested", "augnested"})
    BY <1>2 DEF Stmts
  <2> QED BY <1>1, <2>1, Zenon DEF WritesRow
<1>5. p = "dict" => st.kind # "mutate"
  <2> SUFFICES ASSUME p = "dict", st.kind = "mutate" PROVE FALSE  OBVIOUS
  <2>1. c \in DOMAIN Plan(b)  BY <1>3 DEF Plan
  <2>2. "dict" \in Range(Plan(b))  BY <2>1 DEF Range
  <2>3. st \in Stmts(b, {"mutate", "nested", "opaque"})  BY <1>2 DEF Stmts
  <2> QED BY <1>1, <2>2, <2>3 DEF UndoesNothing
<1>6. ASSUME p = "list", st.kind \in Writing PROVE st.kind = "store"
  <2>0. ~Unwritten(b, c)  BY <1>6, Zenon DEF Unwritten
  <2>1. SlabOK(b, c)  BY <1>3, <2>0, WrittenPlan, Zenon
  <2>2. OwnWrites(b, c) /\ \A ix \in R : ~AtIndex(b, ix)  BY <1>6, <2>1 DEF SlabOK
  <2>3. AtIndex(b, st.ix)  BY <1>6, <2>2, Zenon DEF OwnWrites
  <2>4. MineSays(b, c)  BY <1>1, <1>3, MineIs, Zenon
  <2>5. st.kind \in {"augstore", "augnested", "mutate"} => st.ix \in R  BY <2>4, Zenon DEF MineSays
  <2> HIDE DEF st, R, p
  <2> QED BY <1>4, <1>6, <2>2, <2>3, <2>5 DEF Writing
<1> HIDE DEF st, p
<1>7. st.kind \in Writing => /\ p # "none" => st.kind \in {"store", "augstore", "mutate"}
                             /\ p = "list" => st.kind = "store"
                             /\ p = "dict" => st.kind # "mutate"
  BY <1>4, <1>5, <1>6 DEF Writing
<1> QED BY <1>4, <1>7, Zenon DEF Sorted, st, p

LEMMA CompiledPlan ==
  ASSUME NEW b, Known(b), Supported(b), NEW by, \A x \in Reductions(b) : by[x] = Targets(b)[x].op
  PROVE  Compiled(b, Plan(b), Reductions(b), by)
<1> DEFINE plan == Plan(b)
           ops == Reductions(b)
<1>1. Plainly(b) /\ WellFormed(b) /\ Parallel(b) /\ ~UndoesNothing(b) /\ ~RereadsRoot(b)
  BY KnownPlainly, KnownIs, Zenon
<1>2. PlanOK(plan)  BY PlanIsOK
<1>3. RowsApart(b, plan)
  <2>1. \A n \in DOMAIN b.stmts : b.stmts[n].kind \in {"nested", "augnested"} => plan[b.stmts[n].base] = "none"
    BY PlanFits, Zenon
  <2> QED BY <2>1 DEF RowsApart
<1>4. ops \subseteq Names \ DomainNames(b)  BY ReductionHas, Zenon
<1>5. \A d \in Containers : Unwritten(b, d) => plan[d] = "none"  BY <1>1, UnwrittenPlan, Zenon
<1>6. ASSUME NEW d \in Containers, plan[d] # "dict" PROVE OwnWrites(b, d)
  <2>1. CASE Unwritten(b, d)  BY <2>1, Zenon DEF Unwritten, OwnWrites
  <2>2. CASE ~Unwritten(b, d)
    <3>1. SlabOK(b, d)  BY <2>2, WrittenPlan, Zenon
    <3> QED BY <1>6, <3>1, Zenon DEF SlabOK
  <2> QED BY <2>1, <2>2
<1>7. ASSUME NEW d \in Containers, plan[d] \in {"list", "cell"} PROVE HasIndex(b)
  <2>1. ~Unwritten(b, d)  BY <1>5, <1>7
  <2>2. PICK n \in DOMAIN b.stmts : b.stmts[n].base = d /\ b.stmts[n].kind \in Writing
    BY <2>1, Zenon DEF Unwritten
  <2>3. plan[d] # "dict"  BY <1>7
  <2>4. AtIndex(b, b.stmts[n].ix)  BY <1>6, <2>2, <2>3, Zenon DEF OwnWrites
  <2> QED BY <2>4, Zenon DEF AtIndex
<1>8. ASSUME NEW n \in DOMAIN b.stmts PROVE Sorted(plan, b.stmts[n]) /\ NamesFit(b, [ops |-> ops, by |-> by], b.stmts[n])
  <2> DEFINE st == b.stmts[n]
  <2>1. Sorted(plan, st)  BY PlanFits, Zenon
  <2>2. \A x \in ops : /\ x \notin Needs(st)
                       /\ Renames(st) /\ st.name = x => Updates(st) /\ st.form # "right" /\ st.op = by[x]
    <3> SUFFICES ASSUME NEW x \in ops
                 PROVE  x \notin Needs(st) /\ (Renames(st) /\ st.name = x => Updates(st) /\ st.form # "right" /\ st.op = by[x])
      OBVIOUS
    <3>1. x \notin Needs(st) /\ (Renames(st) /\ st.name = x => Updates(st) /\ st.form # "right" /\ st.op = Targets(b)[x].op)
      BY ReductionIs, Zenon
    <3>2. by[x] = Targets(b)[x].op  OBVIOUS
    <3> QED BY <3>1, <3>2
  <2>3. Renames(st) => st.name \notin DomainNames(b)  BY RenamedIs, Zenon
  <2> DEFINE w == [ops |-> ops, by |-> by]
  <2>4. w.ops = ops /\ w.by = by  OBVIOUS
  <2> HIDE DEF w, ops, st
  <2>5. NamesFit(b, w, st)  BY <2>2, <2>3, <2>4 DEF NamesFit
  <2> QED BY <2>1, <2>5, Zenon DEF w, st
<1>9. \A n \in DOMAIN b.stmts : Renames(b.stmts[n]) => b.stmts[n].name \in Locals(b) \cup ops
  BY RenamedIs, Zenon
<1>10. ASSUME NEW n \in DOMAIN b.stmts, NEW u \in Range(b.stmts[n].uses) PROVE ReadsOwn(b, plan, u)
  <2> SUFFICES ASSUME u.name \in Containers, ~Unwritten(b, u.name)
               PROVE  \/ AtIndex(b, u.ix) /\ plan[u.name] \in {"none", "cell"}
                      \/ AtQuotient(b, u.ix) /\ u.ix.by > 1 /\ plan[u.name] \in {"none", "list", "cell"}
    BY DEF ReadsOwn
  <2>1. SlabOK(b, u.name)  BY WrittenPlan, Zenon
  <2> QED BY <2>1, Zenon DEF SlabOK
<1> HIDE DEF plan, ops
<1>11. ops \subseteq Names /\ DomainNames(b) \cap ops = {}  BY <1>4
<1> QED
  BY <1>1, <1>2, <1>3, <1>5, <1>6, <1>7, <1>8, <1>9, <1>10, <1>11, Zenon DEF Compiled, plan, ops

LEMMA CompiledDirect ==
  ASSUME NEW b, Known(b), Direct(b), NEW by PROVE Compiled(b, NoPlan, {}, by) /\ Reductions(b) = {}
<1>1. Plainly(b) /\ WellFormed(b) /\ Parallel(b) /\ ~RereadsRoot(b)  BY KnownPlainly, KnownIs, Zenon
<1>2. PlanOK(NoPlan) /\ \A c \in Containers : NoPlan[c] = "none"  BY PlanIsOK, NoPlanIs
<1>3. \A n \in DOMAIN b.stmts : b.stmts[n].base \in Containers  BY <1>1, StmtsAre DEF Statements
<1>4. RowsApart(b, NoPlan)  BY <1>2, <1>3, Zenon DEF RowsApart
<1>5. ASSUME NEW d \in Containers PROVE OwnWrites(b, d)
  <2> SUFFICES ASSUME NEW n \in DOMAIN b.stmts, b.stmts[n].kind \in Writing PROVE AtIndex(b, b.stmts[n].ix)
    BY DEF OwnWrites
  <2>1. b.stmts[n].ix.form = "var" /\ b.stmts[n].ix.name \in Proven(b, Events(b))
    BY <1>1, DirectWrites, Zenon
  <2> QED BY <2>1 DEF Proven, AtIndex
<1>6. Reductions(b) = {}
  <2> SUFFICES ASSUME NEW x \in Reductions(b) PROVE FALSE  OBVIOUS
  <2>1. x \in DOMAIN Targets(b) /\ Targets(b)[x].class = "SHARED_SCALAR"  BY Zenon DEF Reductions
  <2>2. Verdict(b, Targets(b)[x]) \notin {"refused", "reduction"}
    <3>1. Verdict(b, Targets(b)[x]) # "refused"  BY <1>1, <2>1, ParallelVerdict, Zenon
    <3>2. Eligibility(b) = "THREAD_CAPABLE"  BY Zenon DEF Direct
    <3>3. Verdict(b, Targets(b)[x]) # "reduction"  BY <1>1, <2>1, <3>2, ParallelVerdict, Zenon
    <3> QED BY <3>1, <3>3
  <2> DEFINE info == Targets(b)[x]
  <2> HIDE DEF info
  <2>3. info.class = "SHARED_SCALAR" /\ Verdict(b, info) \notin {"refused", "reduction"}
    BY <2>1, <2>2 DEF info
  <2> QED BY <2>3 DEF Verdict
<1>7. ASSUME NEW n \in DOMAIN b.stmts PROVE Sorted(NoPlan, b.stmts[n]) /\ NamesFit(b, [ops |-> {}, by |-> by], b.stmts[n])
  <2> DEFINE st == b.stmts[n]
             w == [ops |-> {}, by |-> by]
  <2>1. NoPlan[st.base] = "none"  BY <1>2, <1>3
  <2>2. Renames(st) => st.name \notin DomainNames(b)  BY RenamedIs, Zenon
  <2>3. w.ops = {}  OBVIOUS
  <2> HIDE DEF st, w
  <2>4. Sorted(NoPlan, st)  BY <2>1 DEF Sorted
  <2>5. NamesFit(b, w, st)  BY <2>2, <2>3 DEF NamesFit
  <2> QED BY <2>4, <2>5, Zenon DEF st, w
<1>8. \A n \in DOMAIN b.stmts : Renames(b.stmts[n]) => b.stmts[n].name \in Locals(b) \cup {}
  <2>1. \A n \in DOMAIN b.stmts : Renames(b.stmts[n]) => b.stmts[n].name \in Locals(b) \cup Reductions(b)
    BY RenamedIs, Zenon
  <2> QED BY <1>6, <2>1
<1>9. ASSUME NEW n \in DOMAIN b.stmts, NEW u \in Range(b.stmts[n].uses) PROVE ReadsOwn(b, NoPlan, u)
  <2> SUFFICES ASSUME u.name \in Containers, ~Unwritten(b, u.name) PROVE FALSE  BY DEF ReadsOwn
  <2>1. SlabOK(b, u.name)  BY WrittenPlan, Zenon
  <2>2. Targets(b)[u.name].class = "READ_AFTER_WRITE" /\ u.name \in DOMAIN Targets(b)
    BY <2>1, Zenon DEF SlabOK
  <2> QED BY <2>2, Zenon DEF Direct
<1>10. \A d \in Containers : NoPlan[d] \notin {"list", "cell"}  BY <1>2
<1>11. {} \subseteq Names /\ DomainNames(b) \cap {} = {}  OBVIOUS
<1>12. Compiled(b, NoPlan, {}, by)
  BY <1>1, <1>2, <1>4, <1>5, <1>7, <1>8, <1>9, <1>10, <1>11, Zenon DEF Compiled
<1> QED BY <1>6, <1>12

-----------------------------------------------------------------------------
(* The levels of a block *)

LEMMA PowersRun == ASSUME NEW top, NEW d, NEW m \in Nat PROVE \E g : Powers(top, d, m, g)
<1> DEFINE Missing == {k \in 0 .. m : ~ \E g : Powers(top, d, k, g)}
<1>1. Missing = {}
  <2> SUFFICES ASSUME Missing # {} PROVE FALSE  OBVIOUS
  <2>1. PICK k \in Missing : \A n \in Missing : k <= n
    <3>1. Missing \subseteq 0 .. m  OBVIOUS
    <3>2. Missing \in SUBSET Nat  BY <3>1
    <3> HIDE DEF Missing
    <3> QED BY <3>2, LeastNatural
  <2>2. k \in 0 .. m /\ ~ \E g : Powers(top, d, k, g)  OBVIOUS
  <2>3. CASE k = 0
    <3> DEFINE one == [x \in 0 .. 0 |-> 1]
    <3>1. one = [x \in 0 .. k |-> IF x = 0 THEN 1 ELSE IF one[x - 1] > top THEN one[x - 1] ELSE d * one[x - 1]]
      BY <2>3
    <3>2. Powers(top, d, k, one)  BY <3>1, Zenon DEF Powers
    <3> QED BY <2>2, <3>2
  <2>4. CASE k > 0
    <3>1. k - 1 \in 0 .. m /\ k - 1 \notin Missing  BY <2>1, <2>2, <2>4
    <3>2. PICK h : Powers(top, d, k - 1, h)  BY <3>1
    <3> DEFINE g == [x \in 0 .. k |-> IF x < k THEN h[x] ELSE IF h[k - 1] > top THEN h[k - 1] ELSE d * h[k - 1]]
    <3>3. DOMAIN h = 0 .. k - 1 /\ \A x \in 0 .. k - 1 : h[x] = IF x = 0 THEN 1 ELSE IF h[x - 1] > top THEN h[x - 1] ELSE d * h[x - 1]
      BY <3>2 DEF Powers
    <3>4. \A x \in 0 .. k : g[x] = IF x = 0 THEN 1 ELSE IF g[x - 1] > top THEN g[x - 1] ELSE d * g[x - 1]
      <4> SUFFICES ASSUME NEW x \in 0 .. k
                   PROVE  g[x] = IF x = 0 THEN 1 ELSE IF g[x - 1] > top THEN g[x - 1] ELSE d * g[x - 1]
        OBVIOUS
      <4>1. CASE x < k
        <5>1. g[x] = h[x] /\ x \in 0 .. k - 1  BY <2>2, <4>1
        <5>2. x # 0 => g[x - 1] = h[x - 1]  BY <2>2, <4>1
        <5> HIDE DEF g
        <5> QED BY <3>3, <5>1, <5>2
      <4>2. CASE x = k
        <5>1. g[x] = (IF h[k - 1] > top THEN h[k - 1] ELSE d * h[k - 1]) /\ g[x - 1] = h[k - 1]
          BY <2>2, <2>4, <4>2
        <5> HIDE DEF g
        <5> QED BY <2>4, <4>2, <5>1
      <4> QED BY <2>2, <4>1, <4>2
    <3>5. DOMAIN g = 0 .. k /\ g = [x \in 0 .. k |-> g[x]]  OBVIOUS
    <3> HIDE DEF g
    <3>6. Powers(top, d, k, g)  BY <3>4, <3>5 DEF Powers
    <3> QED BY <2>2, <3>6
  <2> QED BY <2>2, <2>3, <2>4
<1>2. m \in 0 .. m  OBVIOUS
<1> QED BY <1>1, <1>2

\* The threshold of a level is one where the level starts at or below 0, and
\* not past the next multiple of its first element else.
LEMMA ThresholdIs ==
  ASSUME NEW a, Elem(body, a) \in Int, code.divisor \in Nat, code.divisor > 1
  PROVE  /\ Threshold(a) \in Nat
         /\ Elem(body, a) <= 0 => Threshold(a) = 1
         /\ Elem(body, a) >= 1 => Threshold(a) <= code.divisor * Elem(body, a)
<1> DEFINE e == Elem(body, a)
           d == code.divisor
           top == IF e > 0 THEN e ELSE 0
           power == CHOOSE g : Powers(top, d, top, g)
           most == d * top
<1>1. top \in Nat /\ d \in Nat /\ d > 1 /\ e \in Int  OBVIOUS
<1>2. Threshold(a) = power[top]  BY Zenon DEF Threshold, Powers
<1> HIDE DEF e, d, top
<1>3. \E g : Powers(top, d, top, g)  BY <1>1, PowersRun
<1>4. Powers(top, d, top, power)  BY <1>3, Zenon
<1> HIDE DEF power
<1>5. power[0] = 1 /\ \A k \in 1 .. top : power[k] = IF power[k - 1] > top THEN power[k - 1] ELSE d * power[k - 1]
  BY <1>1, <1>4 DEF Powers
<1>6. most \in Nat /\ (top >= 1 => most >= 1)
  <2>1. top >= 1 => d * top >= 1  BY <1>1, Z3
  <2> QED BY <1>1, <2>1
<1>7. \A x \in Nat : x <= top => d * x \in Nat /\ d * x <= most
  <2>1. \A x \in Nat, t \in Nat : x <= t => d * x \in Nat /\ d * x <= d * t  BY <1>1, Z3
  <2> QED BY <1>1, <2>1, Zenon
<1> HIDE DEF most
<1> DEFINE S == {k \in 0 .. top : power[k] \in Nat /\ (power[k] <= most \/ power[k] = 1)}
<1>8. 0 \in S  BY <1>1, <1>5
<1>9. ASSUME NEW k \in 1 .. top, k - 1 \in S PROVE k \in S
  <2>1. power[k - 1] \in Nat /\ (power[k - 1] <= most \/ power[k - 1] = 1)  BY <1>9
  <2>2. CASE power[k - 1] > top  BY <1>1, <1>5, <2>1, <2>2
  <2>3. CASE ~(power[k - 1] > top)
    <3>0. power[k - 1] \in Nat /\ power[k - 1] <= top  BY <1>1, <2>1, <2>3
    <3>1. d * power[k - 1] \in Nat /\ d * power[k - 1] <= most  BY <1>7, <3>0, Zenon
    <3>2. power[k] = d * power[k - 1]  BY <1>5, <2>3
    <3> QED BY <1>1, <3>1, <3>2
  <2> QED BY <2>2, <2>3
<1> HIDE DEF S
<1>10. top \in S
  <2>1. \A k \in 0 .. top : k \in S  BY <1>1, <1>8, <1>9, UpTo
  <2> QED BY <1>1, <2>1
<1>11. power[top] \in Nat /\ (power[top] <= most \/ power[top] = 1)  BY <1>10 DEF S
<1>12. top = 0 => power[top] = 1  BY <1>5
<1>13. (e <= 0 => top = 0) /\ (e >= 1 => top = e /\ top >= 1)  BY <1>1 DEF top
<1>14. e >= 1 => power[top] <= d * e
  <2>1. most = d * top  BY DEF most
  <2> QED BY <1>6, <1>11, <1>13, <2>1
<1> QED BY <1>2, <1>11, <1>12, <1>13, <1>14 DEF e, d

\* What the analysis says a name is read at are indexes.
LEMMA ReadsAreIndexes ==
  ASSUME NEW b, WellFormed(b), NEW path \in DOMAIN Targets(b)
  PROVE  Targets(b)[path].reads \subseteq Indexes
<1> DEFINE evs == Events(b)
           mine == Mine(evs, path)
           info == Targets(b)[path]
<1>1. info = Classify(b, evs, path)  BY Zenon DEF Targets
<1>2. ReadIndexes(mine) \subseteq Indexes
  <2> SUFFICES ASSUME NEW e \in OfKind(mine, {"subread"}) PROVE e.ix \in Indexes  BY DEF ReadIndexes
  <2>1. e \in Range(evs)  BY DEF OfKind, Mine
  <2>2. PICK n \in DOMAIN b.stmts : e \in Range(EventsAt(b, n))
    <3>1. evs \in Seq(AllEvents)  BY EventsAre, Zenon
    <3>2. PICK k \in 1 .. Len(evs) : e = evs[k]
      <4> HIDE DEF evs
      <4> QED BY <2>1, <3>1 DEF Range
    <3> QED BY <3>2, EventsAre, Zenon
  <2>3. e \in Emitted(b.stmts[n])  BY <2>2, EventsAre, Zenon
  <2> QED BY <2>3 DEF Emitted
<1>3. \A class : Info(class).reads = {}  BY DEF Info
<1> HIDE DEF mine, info
<1>4. IndexedInfo(b, evs, mine).reads \in {{}, ReadIndexes(mine)}
  <2>1. CASE OfKind(mine, {"opaque", "write", "aug"}) # {}
    <3>1. IndexedInfo(b, evs, mine) = Info("SHARED_INDEXED_UNRESOLVED")
      BY <2>1, Zenon DEF IndexedInfo
    <3> QED BY <1>3, <3>1
  <2>2. CASE OfKind(mine, {"opaque", "write", "aug"}) = {}  BY <2>2, IndexedCases, Zenon DEF Outcome
  <2> QED BY <2>1, <2>2
<1>5. \/ info.reads = {}
      \/ info = IndexedInfo(b, evs, mine)
  <2> DEFINE scalar == [Info("SHARED_SCALAR") EXCEPT
                          !.op = ScalarOp(mine), !.nested = \E e \in OfKind(mine, {"aug", "write"}) : e.inLoop]
  <2>1. scalar.reads = {}  BY DEF Info
  <2>2. \/ info = Info("LOOP_LOCAL") \/ info = IndexedInfo(b, evs, mine) \/ info = Info("SHARED_INDEXED_UNRESOLVED")
        \/ info = scalar \/ info = Info("OUTER_READONLY")
    BY <1>1, Zenon DEF Classify, mine
  <2> HIDE DEF scalar
  <2> QED BY <1>3, <2>1, <2>2, Zenon
<1> QED BY <1>2, <1>4, <1>5 DEF info

\* The divisors of a block are numbers past 1, and codegen's is the least.
LEMMA DivisorsAre ==
  ASSUME NEW b, WellFormed(b)
  PROVE  LET D == Divisors(b, Targets(b))
         IN  /\ D \subseteq Nat \ {0, 1}
             /\ Artifact(b).divisor \in Nat /\ Artifact(b).divisor > 1
             /\ \A d \in D : Artifact(b).divisor <= d
<1> DEFINE D == Divisors(b, Targets(b))
           least == CHOOSE c \in D : \A d \in D : c <= d
<1>1. ASSUME NEW d \in D PROVE d \in Nat /\ d > 1
  <2>1. PICK path \in DOMAIN Targets(b) : /\ Shape(b, Targets(b)[path]) = "RECOGNIZED_DAG"
                                          /\ \E ix \in Targets(b)[path].reads : ix.form = "div" /\ d = ix.by
    BY Zenon DEF Divisors
  <2> DEFINE info == Targets(b)[path]
  <2>2. PICK ix \in info.reads : ix.form = "div" /\ d = ix.by  BY <2>1
  <2>3. info.reads \subseteq Indexes  BY ReadsAreIndexes, Zenon
  <2> HIDE DEF info
  <2>4. AtIndex(b, ix) \/ (AtQuotient(b, ix) /\ ix.by > 1)
    <3>1. Shape(b, info) \in {"SELF_CONTAINED", "RECOGNIZED_DAG"} /\ info.reads # {}
      BY <2>1, <2>2 DEF info
    <3> QED BY <2>2, <3>1, ShapeIs, Zenon
  <2>5. ix.by \in Int  BY <2>2, <2>3 DEF Indexes
  <2> QED BY <2>2, <2>4, <2>5 DEF AtIndex
<1>2. Artifact(b).divisor = IF D = {} THEN 2 ELSE least  BY Zenon DEF Artifact
<1> HIDE DEF D
<1>3. D # {} => least \in D /\ \A d \in D : least <= d
  <2> SUFFICES ASSUME D # {} PROVE \E c \in D : \A d \in D : c <= d  BY Zenon
  <2>1. D \in SUBSET Nat  BY <1>1
  <2> QED BY <2>1, LeastNatural
<1> HIDE DEF least
<1>4. D \subseteq Nat \ {0, 1}  BY <1>1
<1>5. Artifact(b).divisor \in Nat /\ Artifact(b).divisor > 1 /\ \A d \in D : Artifact(b).divisor <= d
  BY <1>1, <1>2, <1>3
<1> QED BY <1>4, <1>5 DEF D

\* A block that reads, at a quotient of the index, what it writes runs in levels.
LEMMA QuotientLevels ==
  ASSUME NEW b, Known(b), NEW n \in DOMAIN b.stmts, NEW u \in Range(b.stmts[n].uses),
         u.name \in Containers, ~Unwritten(b, u.name), AtQuotient(b, u.ix)
  PROVE  /\ Eligibility(b) = "WAVEFRONT" /\ ~Direct(b)
         /\ u.ix.by \in Nat /\ u.ix.by > 1 /\ Artifact(b).divisor <= u.ix.by
<1> DEFINE c == u.name
           info == Targets(b)[c]
           D == Divisors(b, Targets(b))
<1>1. /\ info.class = "READ_AFTER_WRITE" /\ c \in DOMAIN Targets(b) /\ u.ix \in info.reads
      /\ \/ AtIndex(b, u.ix)
         \/ Shape(b, info) = "RECOGNIZED_DAG"
  BY WrittenPlan, Zenon DEF SlabOK
<1>2. u.ix.form = "div" /\ ~AtIndex(b, u.ix)  BY DEF AtQuotient, AtIndex
<1>3. u.ix.by \in D
  <2>1. u.ix \in {r \in info.reads : r.form = "div"}  BY <1>1, <1>2
  <2>2. c \in {q \in DOMAIN Targets(b) : /\ Targets(b)[q].class = "READ_AFTER_WRITE"
                                         /\ Shape(b, Targets(b)[q]) = "RECOGNIZED_DAG"}
    BY <1>1, <1>2
  <2> QED BY <2>1, <2>2, Zenon DEF Divisors
<1>4. WellFormed(b) /\ Parallel(b)  BY KnownIs, Zenon
<1>5. D \subseteq Nat \ {0, 1} /\ \A d \in D : Artifact(b).divisor <= d  BY <1>4, DivisorsAre, Zenon
<1> HIDE DEF D, info
<1>6. Verdict(b, info) = "levels"  BY <1>1, <1>2 DEF Verdict
<1>7. Eligibility(b) = "WAVEFRONT"  BY <1>1, <1>4, <1>6, ParallelVerdict, Zenon DEF info
<1>8. ~Direct(b)  BY <1>7 DEF Direct
<1>9. u.ix.by \in Nat /\ u.ix.by > 1 /\ Artifact(b).divisor <= u.ix.by
  <2> DEFINE d == u.ix.by
  <2>1. d \in Nat \ {0, 1} /\ Artifact(b).divisor <= d
    <3>1. d \in D  BY <1>3
    <3> HIDE DEF d
    <3> QED BY <1>5, <3>1
  <2> HIDE DEF d
  <2>2. d \in Nat /\ d > 1 /\ Artifact(b).divisor <= d  BY <2>1
  <2> QED BY <2>2, Zenon DEF d
<1> QED BY <1>7, <1>8, <1>9, Zenon

\* Of a container that is changed in place, rows are written or elements
\* mutated.
LEMMA ChangedInPlace ==
  ASSUME NEW b, Known(b), NEW c \in Containers, InPlaceWritten(b, Plan(b), c)
  PROVE  \E n \in DOMAIN b.stmts : b.stmts[n].base = c /\ b.stmts[n].kind \in {"mutate", "nested"}
<1>0. WellFormed(b) /\ Parallel(b)  BY KnownIs, Zenon
<1>1. PICK n \in DOMAIN b.stmts : /\ b.stmts[n].base = c /\ b.stmts[n].kind \in Writing
                                  /\ Plan(b)[c] = "none" \/ b.stmts[n].kind \notin {"store", "augstore"}
  BY Zenon DEF InPlaceWritten
<1>2. CASE b.stmts[n].kind \in {"mutate", "nested"}  BY <1>1, <1>2
<1>3. b.stmts[n].kind = "augnested" => Plan(b)[c] = "none"  BY <1>1, PlanFits, Zenon
<1>4. CASE Plan(b)[c] = "none"
  <2> DEFINE info == Targets(b)[c]
             mine == Mine(Events(b), c)
  <2>1. ~Unwritten(b, c)  BY <1>1, Zenon DEF Unwritten
  <2>2. /\ Plan(b)[c] = SlabKind(b, info)
        /\ Outcome(info, WriteIndexes(mine), ReadIndexes(mine),
                   {IndexClass(b, Events(b), ix) : ix \in WriteIndexes(mine)}, Nests(mine))
        /\ info.tier = "ASSERTED" => info.reads = {}
    BY <2>1, WrittenInfo, Zenon DEF WriteInfo
  <2>3. info.class \in {"SHARED_INDEXED_SAFE", "READ_AFTER_WRITE", "SHARED_INDEXED_UNRESOLVED"} /\ (info.inPlace => Nests(mine))
    <3> DEFINE R == ReadIndexes(mine)
               W == WriteIndexes(mine)
               classes == {IndexClass(b, Events(b), ix) : ix \in W}
               nest == Nests(mine)
    <3>1. Outcome(info, W, R, classes, nest)  BY <2>2, Zenon
    <3> HIDE DEF info, R, W, classes, nest
    <3>2. info.class \in {"SHARED_INDEXED_SAFE", "READ_AFTER_WRITE", "SHARED_INDEXED_UNRESOLVED"} /\ (info.inPlace => nest)
      BY <3>1, Zenon DEF Outcome
    <3> QED BY <3>2, Zenon DEF nest
  <2>4. info.inPlace
    <3> HIDE DEF info
    <3>1. ~info.inPlace => SlabKind(b, info) # "none"  BY <2>3 DEF SlabKind
    <3> QED BY <1>4, <2>2, <3>1
  <2>5. Nests(mine) => \E m \in DOMAIN b.stmts : b.stmts[m].kind = "nested" /\ b.stmts[m].base = c
    <3>1. MineSays(b, c)  BY <1>0, MineIs, Zenon
    <3> QED BY <3>1, Zenon DEF MineSays, Nests
  <2> QED BY <2>3, <2>4, <2>5
<1> QED BY <1>1, <1>2, <1>3, <1>4 DEF Writing

LEMMA LevelBounds ==
  ASSUME NEW a \in 0 .. N, a < N
  PROVE  /\ Lo(2, a) \in a .. LevelEnd(a) /\ LevelEnd(a) \in a + 1 .. N
         /\ \A c \in Workers : FirstOf(Level(a), c) = Lo(c, a) /\ LastOf(Level(a), c) = Hi(c, a)
<1>1. LevelEnd(a) \in a + 1 .. N /\ a \in Nat /\ N \in Nat  BY LevelIs, LoopBodyAssumption
<1> DEFINE z == LevelEnd(a)
           L == Level(a)
<1>2. L.lo = a /\ L.mid = Lo(2, a) /\ L.hi = z  BY DEF Level
<1> HIDE DEF z, L
<1>3. Lo(2, a) = a + CeilDiv(z - a, 2) /\ Lo(1, a) = a /\ Hi(1, a) = Lo(2, a) /\ Hi(2, a) = z
  BY DEF Lo, Hi, z
<1>4. CeilDiv(z - a, 2) \in 0 .. z - a
  <2>1. \A m \in Nat : -((-m) \div 2) \in 0 .. m  OBVIOUS
  <2>2. z - a \in Nat  BY <1>1 DEF z
  <2> QED BY <2>1, <2>2 DEF CeilDiv
<1>5. Lo(2, a) \in a .. z  BY <1>1, <1>3, <1>4 DEF z
<1>6. \A c \in Workers : FirstOf(L, c) = Lo(c, a) /\ LastOf(L, c) = Hi(c, a)
  BY <1>2, <1>3 DEF FirstOf, LastOf, Workers
<1> QED BY <1>1, <1>5, <1>6 DEF z, L

\* q is the quotient of e, the element of position p of a level whose first
\* element is o and whose threshold is t: it is before the level, or e.
LEMMA QuotientBefore ==
  ASSUME NEW e \in Int, NEW o \in Int, NEW d \in Nat, NEW c \in Nat, d > 1, c > 1, d <= c, NEW t \in Nat,
         o >= 1 => t <= d * o, o <= 0 => t = 1, e = o \/ e < t, e >= 1
  PROVE  e \div c < o
<1>1. e \div c < e /\ e \div c \in Nat  BY QuotientIs
<1>2. CASE e = o  BY <1>1, <1>2
<1>3. CASE e # o /\ o >= 1
  <2>1. d * o <= c * o  BY <1>3, Z3
  <2>2. e < c * o
    <3>1. d * o \in Int /\ c * o \in Int  OBVIOUS
    <3> QED BY <1>3, <2>1, <3>1
  <2> DEFINE q == e \div c
  <2>3. c * q <= e /\ q \in Nat  BY <1>1, SMT
  <2> HIDE DEF q
  <2>4. q < o
    <3> SUFFICES ASSUME q >= o PROVE FALSE  BY <2>3
    <3>1. c * o <= c * q  BY <2>3, Z3
    <3>2. c * o \in Int /\ c * q \in Int  BY <2>3
    <3> QED BY <2>2, <2>3, <3>1, <3>2
  <2> QED BY <2>4 DEF q
<1>4. CASE e # o /\ o <= 0  BY <1>4
<1> QED BY <1>2, <1>3, <1>4

LEMMA LevelSettled ==
  ASSUME Chosen, code.made, Known(body), NEW a \in 0 .. N, a < N, how = "WAVEFRONT" => body.step > 0
  PROVE  Settled(Level(a))
<1>0. WellFormed(body) /\ ~ReadsAhead(body)  BY KnownIs, Zenon
<1>1. Level(a).b = body /\ Level(a).plan = Plans /\ Level(a).lo = a /\ Level(a).hi = LevelEnd(a)
  BY DEF Level
<1>2. ASSUME NEW p \in a .. LevelEnd(a) - 1, NEW n \in DOMAIN body.stmts, NEW u \in Range(body.stmts[n].uses),
             u.name \in Containers, ~Unwritten(body, u.name), AtQuotient(body, u.ix)
      PROVE  LET q == Elem(body, p) \div u.ix.by
             IN  \/ q = Elem(body, p)
                 \/ \A o \in a .. LevelEnd(a) - 1 : Elem(body, o) # q
                 \/ (\A o \in a .. p : Elem(body, o) # q) /\ ~InPlaceWritten(body, Plans, u.name)
  <2> DEFINE e == Elem(body, p)
             by == u.ix.by
             q == e \div by
             s == Elem(body, a)
             end == LevelEnd(a)
             d == code.divisor
             t == Threshold(a)
  <2>1. /\ Eligibility(body) = "WAVEFRONT" /\ ~Direct(body)
        /\ by \in Nat /\ by > 1 /\ Artifact(body).divisor <= by
    BY <1>2, QuotientLevels
  <2>2. code = Artifact(body) /\ how = "WAVEFRONT" /\ ~direct /\ Plans = Plan(body)
    BY <2>1, MadeIs, PlansAre, Zenon
  <2>3. d \in Nat /\ d > 1 /\ d <= by  BY <1>0, <2>1, <2>2, DivisorsAre, Zenon
  <2>4. end \in a + 1 .. N /\ a \in Nat /\ N \in Nat /\ p \in Nat /\ p \in Pos /\ \A o \in a + 1 .. end - 1 : Elem(body, o) < t
    <3>1. end \in a + 1 .. N /\ \A o \in a + 1 .. end - 1 : Elem(body, o) < t  BY <2>2, LevelIs
    <3> HIDE DEF end
    <3> QED BY <1>2, <3>1, LoopBodyAssumption DEF Pos, end
  <2>5. body.first \in Int /\ body.step \in Int \ {0} /\ body.step > 0
    BY <1>0, <2>2, ElementsAre, Zenon
  <2>6. \A o \in Nat : Elem(body, o) \in Int  BY <2>5, ElemsApart
  <2>7. \A o \in Nat, m \in Nat : o < m => Elem(body, o) < Elem(body, m)  BY <2>5, ElemsApart
  <2>8. /\ e \in Int /\ s \in Int
        /\ \A o \in a .. end - 1 : Elem(body, o) \in Int /\ Elem(body, o) >= s
        /\ \A o \in a .. p : Elem(body, o) \in Int /\ Elem(body, o) <= e
    <3> HIDE DEF end
    <3>1. e \in Int /\ s \in Int  BY <2>4, <2>6
    <3>2. ASSUME NEW o \in a .. end - 1 PROVE Elem(body, o) \in Int /\ Elem(body, o) >= s
      <4>1. o \in Nat /\ (o = a \/ a < o)  BY <2>4
      <4>2. a < o => s < Elem(body, o)  BY <2>4, <2>7, <4>1, Zenon
      <4>3. Elem(body, o) \in Int  BY <2>6, <4>1, Zenon
      <4>4. o = a => Elem(body, o) = s  OBVIOUS
      <4> HIDE DEF s
      <4> QED BY <3>1, <4>1, <4>2, <4>3, <4>4
    <3>3. ASSUME NEW o \in a .. p PROVE Elem(body, o) \in Int /\ Elem(body, o) <= e
      <4>1. o \in Nat /\ (o = p \/ o < p)  BY <2>4
      <4>2. o < p => Elem(body, o) < e  BY <2>4, <2>7, <4>1, Zenon
      <4>3. Elem(body, o) \in Int  BY <2>6, <4>1, Zenon
      <4>4. o = p => Elem(body, o) = e  OBVIOUS
      <4> HIDE DEF e
      <4> QED BY <3>1, <4>1, <4>2, <4>3, <4>4
    <3> QED BY <3>1, <3>2, <3>3
  <2>9. t \in Nat /\ (s <= 0 => t = 1) /\ (s >= 1 => t <= d * s)
    <3>1. s \in Int /\ d \in Nat /\ d > 1  BY <2>3, <2>8
    <3> QED BY <3>1, ThresholdIs
  <2>10. e = s \/ e < t
    <3>1. p = a \/ p \in a + 1 .. end - 1
      <4> HIDE DEF end
      <4> QED BY <1>2, <2>4 DEF end
    <3> QED BY <2>4, <3>1, Zenon
  <2>11. e < -1 => ~InPlaceWritten(body, Plans, u.name)
    <3> SUFFICES ASSUME e < -1, InPlaceWritten(body, Plan(body), u.name) PROVE FALSE  BY <2>2
    <3>1. PICK m \in DOMAIN body.stmts : body.stmts[m].base = u.name /\ body.stmts[m].kind \in {"mutate", "nested"}
      BY <1>2, ChangedInPlace, Zenon
    <3>2. body.stmts[m] \in Range(body.stmts) /\ body.stmts[n] \in Range(body.stmts)
      BY <1>0, StmtsAre, Zenon
    <3>3. body.stmts[m] \in Stmts(body, {"mutate", "nested"})  BY <3>1, <3>2 DEF Stmts
    <3>4. u \in Uses(body, u.name)  BY <3>2 DEF Uses
    <3>5. u.ix.form = "div" /\ HasIndex(body)  BY <1>2 DEF AtQuotient
    <3> QED BY <1>0, <2>4, <3>1, <3>3, <3>4, <3>5, Zenon DEF ReadsAhead
  <2> HIDE DEF e, by, s, end, d, t
  <2>12. CASE e >= 1
    <3>1. q < s /\ q \in Int  BY <2>1, <2>3, <2>8, <2>9, <2>10, <2>12, QuotientBefore
    <3> HIDE DEF q
    <3>2. \A o \in a .. end - 1 : Elem(body, o) # q  BY <2>8, <3>1
    <3> QED BY <3>2, Zenon DEF q, e, by, end
  <2>13. CASE e \in {0, -1}
    <3>1. \A c \in Nat : c > 1 => 0 \div c = 0 /\ (-1) \div c = -1
      <4> SUFFICES ASSUME NEW c \in Nat, c > 1 PROVE 0 \div c = 0 /\ (-1) \div c = -1  OBVIOUS
      <4> QED BY SMT
    <3>2. q = e  BY <2>1, <2>13, <3>1
    <3> QED BY <3>2, Zenon DEF q, e, by
  <2>14. CASE e < -1
    <3>1. q > e /\ q \in Int  BY <2>1, <2>8, <2>14, QuotientIs
    <3> HIDE DEF q
    <3>2. \A o \in a .. p : Elem(body, o) # q  BY <2>8, <3>1
    <3> QED BY <2>11, <2>14, <3>2, Zenon DEF q, e, by
  <2>15. e >= 1 \/ e \in {0, -1} \/ e < -1  BY <2>8
  <2> QED BY <2>12, <2>13, <2>14, <2>15
<1> DEFINE L == Level(a)
<1>3. L.b = body /\ L.plan = Plans /\ L.lo = a /\ L.hi = LevelEnd(a)  BY <1>1
<1> HIDE DEF L
<1>4. Settled(L)
  <2> SUFFICES ASSUME NEW p \in L.lo .. L.hi - 1, NEW n \in DOMAIN L.b.stmts, NEW u \in Range(L.b.stmts[n].uses),
                      u.name \in Containers, ~Unwritten(L.b, u.name), AtQuotient(L.b, u.ix)
               PROVE  LET q == Elem(L.b, p) \div u.ix.by
                      IN  \/ q = Elem(L.b, p)
                          \/ \A o \in L.lo .. L.hi - 1 : Elem(L.b, o) # q
                          \/ (\A o \in L.lo .. p : Elem(L.b, o) # q) /\ ~InPlaceWritten(L.b, L.plan, u.name)
    BY Zenon DEF Settled
  <2>1. p \in a .. LevelEnd(a) - 1 /\ n \in DOMAIN body.stmts /\ u \in Range(body.stmts[n].uses)
        /\ u.name \in Containers /\ ~Unwritten(body, u.name) /\ AtQuotient(body, u.ix)
    BY <1>3, Zenon
  <2> QED BY <1>2, <1>3, <2>1, Zenon
<1> QED BY <1>4 DEF L

\* The levels of a block that is let through are those of the chunks' proof.
LEMMA LevelSuits ==
  ASSUME Chosen, code.made, Known(body), Supported(body), NEW a \in 0 .. N, a < N, how = "WAVEFRONT" => body.step > 0
  PROVE  LevelFits(Level(a))
<1>1. Settled(Level(a))  BY LevelSettled
<1>2. /\ Level(a).b = body /\ Level(a).plan = Plans /\ Level(a).ops = Ops /\ Level(a).by = code.ops
      /\ Level(a).lo = a /\ Level(a).mid = Lo(2, a) /\ Level(a).hi = LevelEnd(a)
  BY DEF Level
<1>3. Compiled(body, Plans, Ops, code.ops)
  <2>1. CASE direct
    <3>1. Direct(body) /\ Plans = NoPlan /\ Ops = {}  BY <2>1, PlansAre, Zenon
    <3> QED BY <3>1, CompiledDirect, Zenon
  <2>2. CASE ~direct
    <3>1. Plans = Plan(body) /\ Ops = Reductions(body) /\ code = Artifact(body)
      BY <2>2, PlansAre, MadeIs, Zenon DEF Ops
    <3>2. \A x \in Reductions(body) : code.ops[x] = Targets(body)[x].op
      <4>1. Artifact(body).ops = [x \in Reductions(body) |-> Targets(body)[x].op]
        BY Zenon DEF Artifact
      <4> QED BY <3>1, <4>1, Zenon
    <3> QED BY <3>1, <3>2, CompiledPlan, Zenon
  <2> QED BY <2>1, <2>2
<1>4. a \in 0 .. N /\ Lo(2, a) \in a .. N /\ LevelEnd(a) \in Lo(2, a) .. N
  <2>1. Lo(2, a) \in a .. LevelEnd(a) /\ LevelEnd(a) \in a + 1 .. N  BY LevelBounds
  <2> DEFINE m == Lo(2, a)
             z == LevelEnd(a)
  <2> HIDE DEF m, z
  <2>2. m \in a .. N /\ z \in m .. N  BY <2>1, LoopBodyAssumption DEF m, z
  <2> QED BY <2>2 DEF m, z
<1> QED BY <1>1, <1>2, <1>3, <1>4, Zenon DEF LevelFits

-----------------------------------------------------------------------------
(* A block computes what its loop computes *)

LEMMA LocalsApart ==
  ASSUME NEW b, Known(b), Supported(b) PROVE Reductions(b) \subseteq Names \ Locals(b)
<1> SUFFICES ASSUME NEW x \in Reductions(b) PROVE x \in Names \ Locals(b)  OBVIOUS
<1>1. x \in Names \ DomainNames(b)  BY ReductionHas, Zenon
<1>2. ASSUME NEW st \in Range(b.stmts) PROVE ~Binds(st, x)
  <2>1. WellFormed(b)  BY KnownIs, Zenon
  <2>2. PICK n \in DOMAIN b.stmts : st = b.stmts[n]  BY <2>1, StmtsAre, Zenon
  <2>3. Renames(st) /\ st.name = x => Updates(st)  BY <2>2, ReductionIs, Zenon
  <2> QED BY <2>3 DEF Binds, Certain, Renames, Updates
<1> QED BY <1>1, <1>2, Zenon DEF Locals

LEMMA OpsAre == ASSUME Chosen, code.made, Known(body) PROVE Ops = Reductions(body)
<1>1. CASE direct
  <2>1. Direct(body) /\ Ops = {}  BY <1>1, PlansAre, Zenon
  <2>2. Reductions(body) = {}  BY <2>1, CompiledDirect, Zenon
  <2> QED BY <2>1, <2>2
<1>2. CASE ~direct  BY <1>2, MadeIs, Zenon DEF Ops
<1> QED BY <1>1, <1>2

\* The twin starts where the loop starts.
LEMMA TwinComputes ==
  ASSUME NEW b, Known(b), Supported(b), NEW f, f = Straight(b, AsFunction(b, StartHeap))
  PROVE  f.heap = AsWritten(b).heap /\ \A n \in Reductions(b) : f.local[n] = AsWritten(b).local[n]
<1> DEFINE s == AsFunction(b, StartHeap)
           r == Frame(StartHeap, Names)
           x == AsWritten(b)
<1>1. Plainly(b)  BY KnownPlainly, Zenon
<1>2. s = Frame(StartHeap, Names \ Locals(b))  BY DEF AsFunction
<1>3. Twins(b, r, s)
  <2> DEFINE bound == Names \ Locals(b)
  <2>1. bound \subseteq Names /\ Names \ Locals(b) \subseteq bound  OBVIOUS
  <2> HIDE DEF bound
  <2>2. Twins(b, r, Frame(StartHeap, bound))  BY <2>1, StartTwins
  <2> QED BY <1>2, <2>2 DEF bound
<1>4. s.heap = StartHeap  BY <1>2 DEF Frame
<1>5. PICK h : InTurn(b, s, h)  BY StraightRuns, Zenon
<1>6. InTurn(b, r, Steps(b))  BY StepsAre
<1> HIDE DEF s, r
<1>7. Twins(b, Steps(b)[N], h[N]) /\ Canon(h[N].heap)
  <2>1. \A q \in 0 .. N : Twins(b, Steps(b)[q], h[q]) /\ (Canon(s.heap) => Canon(h[q].heap))
    BY <1>1, <1>3, <1>5, <1>6, LoopTwins
  <2>2. N \in 0 .. N  BY LoopBodyAssumption
  <2> QED BY <1>4, <2>1, <2>2, StartCanon, Zenon
<1>8. f = h[N] /\ x = Steps(b)[N] /\ Canon(x.heap)
  <2>1. f = h[N]  BY <1>5, Zenon DEF InTurn, s
  <2>2. N \in 0 .. N  BY LoopBodyAssumption
  <2>3. AsWritten(b) = Steps(b)[N] /\ \A q \in 0 .. N : Canon(Steps(b)[q].heap)
    BY <1>1, StepsCanon, Zenon
  <2> QED BY <2>1, <2>2, <2>3, Zenon
<1> HIDE DEF x
<1>9. Twins(b, x, f) /\ Canon(f.heap) /\ Canon(x.heap)  BY <1>7, <1>8, Zenon
<1>10. Follows(Alone, x, f) /\ Names \ Locals(b) \subseteq f.bound  BY <1>9, Zenon DEF Twins, GoesOn
<1>11. \A c \in Containers : f.heap[c] = x.heap[c]  BY <1>10 DEF Follows, Alone
<1>12. f.heap = x.heap
  <2> DEFINE y == f.heap
             z == x.heap
  <2>1. y = [c \in Containers |-> [k \in Keys |-> y[c][k]]] /\ z = [c \in Containers |-> [k \in Keys |-> z[c][k]]]
        /\ \A c \in Containers : y[c] = z[c]
    BY <1>9, <1>11, Zenon DEF Canon
  <2> HIDE DEF y, z
  <2>2. y = z  BY <2>1
  <2> QED BY <2>2 DEF y, z
<1>13. ASSUME NEW n \in Reductions(b) PROVE f.local[n] = x.local[n]
  <2>1. n \in f.bound \ {}  BY <1>10, LocalsApart
  <2> QED BY <1>10, <2>1 DEF Follows, Alone
<1> QED BY <1>12, <1>13 DEF x

\* Beside a dict slab nothing is changed in place.
LEMMA NothingInPlace ==
  ASSUME NEW b, Known(b), NEW d \in Containers, Plan(b)[d] = "dict", NEW c \in Containers
  PROVE  ~InPlaceWritten(b, Plan(b), c)
<1> SUFFICES ASSUME InPlaceWritten(b, Plan(b), c) PROVE FALSE  OBVIOUS
<1>0. ~UndoesNothing(b) /\ WellFormed(b)  BY KnownIs, Zenon
<1>1. PICK n \in DOMAIN b.stmts : b.stmts[n].base = c /\ b.stmts[n].kind \in {"mutate", "nested"}
  BY ChangedInPlace, Zenon
<1>2. b.stmts[n] \in Range(b.stmts)  BY <1>0, StmtsAre, Zenon
<1>3. b.stmts[n] \in Stmts(b, {"mutate", "nested", "opaque"})  BY <1>1, <1>2 DEF Stmts
<1>4. "dict" \in Range(Plan(b))  BY DEF Range, Plan
<1> QED BY <1>0, <1>3, <1>4, Zenon DEF UndoesNothing

LEMMA LevelStays ==
  ASSUME UNCHANGED <<body, how, code, direct, from>> PROVE Level(from)' = Level(from)
<1>1. Level(from) = LevelOf(body, how, Plans, Ops, code.ops, code.divisor, from)
  <2>1. LevelEnd(from) = EndOf(body, how, code.divisor, from)
    BY Zenon DEF LevelEnd, EndOf, Threshold, ThresholdOf
  <2>2. Lo(2, from) = from + CeilDiv(LevelEnd(from) - from, 2)
    <3> HIDE DEF LevelEnd
    <3> QED BY DEF Lo
  <2> QED BY <2>1, <2>2, Zenon DEF Level, LevelOf
<1>2. Level(from)' = LevelOf(body', how', Plans', Ops', code'.ops, code'.divisor, from')
  <2>1. LevelEnd(from)' = EndOf(body', how', code'.divisor, from')
    BY Zenon DEF LevelEnd, EndOf, Threshold, ThresholdOf
  <2>2. Lo(2, from)' = from' + CeilDiv(LevelEnd(from)' - from', 2)  BY DEF Lo
  <2> QED BY <2>1, <2>2, Zenon DEF Level, LevelOf
<1>3. Plans' = Plans /\ Ops' = Ops  BY DEF Plans, Ops
<1> QED BY <1>1, <1>2, <1>3, Zenon

LEMMA KnowsOf ==
  ASSUME Knows
  PROVE  /\ Typed /\ Chosen /\ Computes /\ WellFormed(body) /\ HeapOK(heap) /\ from \in 0 .. N /\ N \in Nat
         /\ \A c \in Workers : FrameOK(frame[c]) /\ GoesOn(body, frame[c])
         /\ code.made => /\ Known(body) /\ Supported(body) /\ Plainly(body) /\ how = Eligibility(body)
                         /\ Ops = Reductions(body) /\ Reductions(body) \subseteq Names
                         /\ code.reductions = Reductions(body)
<1>1. Typed /\ Chosen /\ Computes /\ (code.made => Supported(body)) /\ Going /\ Understood(body)
  BY Zenon DEF Knows, Inv, Computing
<1>2. WellFormed(body) /\ HeapOK(heap) /\ from \in 0 .. N /\ \A c \in Workers : FrameOK(frame[c])
  BY <1>1, BodyIs, Zenon DEF Typed
<1>3. \A c \in Workers : GoesOn(body, frame[c])  BY <1>1, Zenon DEF Going
<1>4. ASSUME code.made
      PROVE  /\ Known(body) /\ Supported(body) /\ Plainly(body) /\ how = Eligibility(body)
             /\ Ops = Reductions(body) /\ Reductions(body) \subseteq Names /\ code.reductions = Reductions(body)
  <2>1. Parallel(body) /\ how = Eligibility(body) /\ code.reductions = Reductions(body)
    BY <1>1, <1>4, MadeIs, Zenon
  <2>2. Known(body)  BY <1>1, <1>2, <2>1, Zenon DEF Known
  <2>3. Plainly(body) /\ Ops = Reductions(body)  BY <1>1, <1>4, <2>2, KnownPlainly, OpsAre, Zenon
  <2>4. Reductions(body) \subseteq Names  BY <1>1, <1>4, <2>2, LocalsApart
  <2> QED BY <1>1, <1>4, <2>1, <2>2, <2>3, <2>4, Zenon
<1>5. N \in Nat  BY LoopBodyAssumption
<1> QED BY <1>1, <1>2, <1>3, <1>4, <1>5, Zenon

\* The level a block is about to run, or is in.
LEMMA LevelHere ==
  ASSUME Knows, stage \in {"run", "level"}, from < N PROVE LevelFits(Level(from)) /\ code.made
<1>1. code.made /\ (how = "WAVEFRONT" => body.step > 0)  BY KnowsOf DEF Chosen, Computes
<1>2. Chosen /\ Known(body) /\ Supported(body) /\ from \in 0 .. N  BY <1>1, KnowsOf, Zenon
<1> QED BY <1>1, <1>2, LevelSuits

LEMMA DecideComputes == ASSUME Knows, Decide PROVE Computes'
<1>1. /\ stage = "select" /\ stage' = "decided" /\ UNCHANGED <<body, heap, scalars, from, outcome>>
  BY DEF Decide
<1>2. heap = StartHeap /\ scalars = StartNames /\ from = 0 /\ outcome = "none"
  BY <1>1, KnowsOf DEF Computes
<1> QED BY <1>1, <1>2 DEF Computes

LEMMA LeaveComputes == ASSUME Knows, Leave PROVE Computes'
<1>1. stage' = "end" /\ outcome' \in {"refused", "unmodified"}  BY DEF Leave, Ends
<1> QED BY <1>1 DEF Computes

LEMMA StartComputes == ASSUME Knows, Start PROVE Computes'
<1>1. /\ stage = "decided" /\ UNCHANGED <<body, how, heap, scalars, from, outcome>> /\ code.made
      /\ stage' = (IF how = "WAVEFRONT" /\ body.step < 0 THEN "twin" ELSE "run") /\ frame' = Fresh(heap)
  BY DEF Start
<1>2. heap = StartHeap /\ scalars = StartNames /\ from = 0 /\ outcome = "none"
  BY <1>1, KnowsOf DEF Computes
<1>3. Plainly(body) /\ Reductions(body) \subseteq Names  BY <1>1, KnowsOf, Zenon
<1>4. Steps(body)[0].heap = StartHeap /\ Steps(body)[0].local = StartNames  BY <1>3, StepsCanon
<1>5. body.step \in Int \ {0}  BY KnowsOf, ElementsAre
<1>6. \A c \in Workers : frame'[c] = AsFunction(body, heap)  BY <1>1, Zenon DEF Fresh
<1>7. Steps(body') = Steps(body) /\ Reductions(body') = Reductions(body) /\ AsFunction(body', heap') = AsFunction(body, heap)
  BY <1>1
<1>8. CASE stage' = "twin"  BY <1>1, <1>2, <1>8 DEF Computes
<1>9. CASE stage' = "run"
  <2>1. how' = "WAVEFRONT" => body'.step > 0  BY <1>1, <1>5, <1>9
  <2>2. \A n \in Reductions(body') : scalars'[n] = Steps(body')[from'].local[n]  BY <1>1, <1>2, <1>4
  <2>3. heap' = Steps(body')[from'].heap /\ \A c \in Workers : frame'[c] = AsFunction(body', heap')
    BY <1>1, <1>2, <1>4, <1>6, <1>7
  <2> QED BY <1>1, <1>2, <1>9, <2>1, <2>2, <2>3 DEF Computes
<1> QED BY <1>1, <1>8, <1>9

LEMMA EnterComputes == ASSUME Knows, Enter PROVE Computes'
<1>1. /\ stage = "run" /\ from < N /\ at' = [c \in Workers |-> Lo(c, from)] /\ stage' = "level"
      /\ UNCHANGED <<body, how, heap, code, direct, scalars, from, frame, outcome>>
  BY DEF Enter
<1>2. /\ heap = Steps(body)[from].heap /\ (\A c \in Workers : frame[c] = AsFunction(body, heap)) /\ outcome = "none"
      /\ how # "WAVEFRONT" => from = 0
      /\ how = "WAVEFRONT" => body.step > 0
      /\ \A n \in Reductions(body) : scalars[n] = Steps(body)[from].local[n]
  BY <1>1, KnowsOf DEF Computes
<1>3. from \in 0 .. N  BY KnowsOf
<1>4. LevelFits(Level(from))  BY <1>1, LevelHere
<1>5. Level(from).b = body /\ Level(from).lo = from  BY DEF Level
<1>6. \A c \in Workers : at'[c] = FirstOf(Level(from), c)
  <2>1. \A c \in Workers : FirstOf(Level(from), c) = Lo(c, from)  BY <1>1, <1>3, LevelBounds
  <2> QED BY <1>1, <2>1, Zenon
<1> DEFINE G == Level(from)
<1> HIDE DEF G
<1>7. LevelOK(G, heap, frame, at')
  <2>1. LevelFits(G) /\ G.b = body /\ G.lo = from /\ \A c \in Workers : at'[c] = FirstOf(G, c)
    BY <1>4, <1>5, <1>6, Zenon DEF G
  <2>2. heap = Steps(G.b)[G.lo].heap /\ \A c \in Workers : frame[c] = AsFunction(G.b, heap)
    BY <1>2, <2>1, Zenon
  <2> QED BY <2>1, <2>2, LevelStarts, Zenon
<1>8. Level(from)' = G  BY <1>1, LevelStays, Zenon DEF G
<1>9. LevelOK(Level(from)', heap', frame', at')  BY <1>1, <1>7, <1>8
<1>10. \A n \in Reductions(body') : scalars'[n] = Steps(body')[from'].local[n]  BY <1>1, <1>2
<1> QED BY <1>1, <1>2, <1>9, <1>10 DEF Computes

LEMMA IterateComputes == ASSUME Knows, NEW c \in Workers, Iterate(c) PROVE Computes'
<1>1. /\ stage = "level" /\ at[c] < Hi(c, from) /\ stage' = stage
      /\ UNCHANGED <<body, how, code, direct, scalars, from, outcome>>
  BY DEF Iterate
<1>2. /\ LevelOK(Level(from), heap, frame, at) /\ outcome = "none"
      /\ how # "WAVEFRONT" => from = 0
      /\ how = "WAVEFRONT" => body.step > 0
      /\ \A n \in Reductions(body) : scalars[n] = Steps(body)[from].local[n]
  BY <1>1, KnowsOf DEF Computes
<1>3. from \in 0 .. N /\ from < N  BY <1>1, KnowsOf DEF Chosen
<1>4. LevelFits(Level(from))  BY <1>1, <1>3, LevelHere
<1>5. Level(from).b = body /\ Level(from).plan = Plans /\ Level(from).ops = Ops  BY DEF Level
<1>6. at[c] < LastOf(Level(from), c)
  <2>1. LastOf(Level(from), c) = Hi(c, from)  BY <1>3, LevelBounds
  <2> QED BY <1>1, <2>1, Zenon
<1> DEFINE G == Level(from)
           y == Stepped(c)
<1>7. heap' = y.heap /\ frame' = [frame EXCEPT ![c] = y] /\ at' = [at EXCEPT ![c] = @ + 1]
  BY Zenon DEF Iterate, Stepped
<1>8. y = Iteration(G.b, G.plan, G.ops, With(frame[c], heap), at[c])
  BY <1>5, Zenon DEF Stepped, With
<1>9. frame = [d \in Workers |-> frame[d]] /\ at = [d \in Workers |-> at[d]] /\ \A d \in Workers : GoesOn(body, frame[d])
  BY KnowsOf, Zenon DEF Typed
<1>10. Other(c) \in Workers /\ Other(c) # c  BY DEF Other, Workers
<1> HIDE DEF G, y
<1>11. frame'[c] = y /\ frame'[Other(c)] = frame[Other(c)] /\ at'[c] = at[c] + 1 /\ at'[Other(c)] = at[Other(c)]
  BY <1>7, <1>9, <1>10
<1>12. LevelOK(G, y.heap, frame', at')
  <2>1. LevelFits(G) /\ LevelOK(G, heap, frame, at) /\ at[c] < LastOf(G, c)
    BY <1>2, <1>4, <1>6, Zenon DEF G
  <2>2. \A d \in Workers : GoesOn(G.b, frame[d])  BY <1>5, <1>9, Zenon DEF G
  <2> QED BY <1>8, <1>11, <2>1, <2>2, LevelIterates
<1>13. Level(from)' = G  BY <1>1, LevelStays, Zenon DEF G
<1>14. LevelOK(Level(from)', heap', frame', at')  BY <1>7, <1>12, <1>13, Zenon
<1>15. \A n \in Reductions(body') : scalars'[n] = Steps(body')[from'].local[n]  BY <1>1, <1>2
<1> QED BY <1>1, <1>2, <1>14, <1>15 DEF Computes

\* A level whose chunks are done.
LEMMA DoneIs ==
  ASSUME Knows, Done, AllOk
  PROVE  /\ stage = "level" /\ from \in 0 .. N /\ from < N /\ LevelFits(Level(from)) /\ code.made
         /\ LevelOK(Level(from), heap, frame, at) /\ \A c \in Workers : at[c] = LastOf(Level(from), c)
<1>1. stage = "level" /\ \A c \in Workers : at[c] = Hi(c, from)  BY Zenon DEF Done, AllOk
<1>2. from \in 0 .. N /\ from < N  BY <1>1, KnowsOf DEF Chosen
<1>3. LevelFits(Level(from)) /\ code.made  BY <1>1, <1>2, LevelHere
<1>4. LevelOK(Level(from), heap, frame, at)  BY <1>1, KnowsOf DEF Computes
<1>5. \A c \in Workers : LastOf(Level(from), c) = Hi(c, from)  BY <1>2, LevelBounds
<1> QED BY <1>1, <1>2, <1>3, <1>4, <1>5, Zenon

LEMMA JoinComputes == ASSUME Knows, Join PROVE Computes'
<1>1. /\ Done /\ AllOk /\ ~Conflict /\ heap' = Committed /\ from' = LevelEnd(from) /\ frame' = Fresh(heap')
      /\ scalars' = [n \in Names |-> IF n \in Ops THEN Folded(OpOf(n), scalars[n], frame[1].site[n] \o frame[2].site[n])
                                     ELSE scalars[n]]
      /\ IF LevelEnd(from) = N THEN Ends("done") ELSE stage' = "run" /\ UNCHANGED outcome
      /\ UNCHANGED <<body, how, code, direct>>
  BY Zenon DEF Join
<1>2. /\ stage = "level" /\ from \in 0 .. N /\ from < N /\ LevelFits(Level(from)) /\ code.made
      /\ LevelOK(Level(from), heap, frame, at) /\ \A c \in Workers : at[c] = LastOf(Level(from), c)
  BY <1>1, DoneIs
<1>3. /\ outcome = "none"
      /\ how = "WAVEFRONT" => body.step > 0
      /\ \A n \in Reductions(body) : scalars[n] = Steps(body)[from].local[n]
  BY <1>2, KnowsOf DEF Computes
<1>4. /\ Level(from).b = body /\ Level(from).plan = Plans /\ Level(from).ops = Ops /\ Level(from).by = code.ops
      /\ Level(from).lo = from /\ Level(from).hi = LevelEnd(from)
  BY DEF Level
<1>5. Ops = Reductions(body) /\ Reductions(body) \subseteq Names /\ Plainly(body) /\ \A c \in Workers : FrameOK(frame[c])
  BY <1>2, KnowsOf, Zenon
<1> DEFINE G == Level(from)
           z == LevelEnd(from)
<1> HIDE DEF G, z
<1>6. Apart(G, frame)
  <2> SUFFICES ASSUME NEW d \in Containers, NEW k \in Keys, G.plan[d] = "dict"
               PROVE  frame[1].slab[d][k] = <<>> \/ frame[2].slab[d][k] = <<>>  BY DEF Apart
  <2>1. Plans[d] = "dict"  BY <1>4, Zenon DEF G
  <2>2. ~ \A c \in Workers : frame[c].slab[d][k] # <<>>  BY <1>1, <2>1, Zenon DEF Conflict
  <2> QED BY <2>2 DEF Workers
<1>7. /\ Merge(frame[2].slab, Merge(frame[1].slab, heap)) = Steps(G.b)[G.hi].heap
      /\ \A n \in G.ops : Folded(G.by[n], Steps(G.b)[G.lo].local[n], frame[1].site[n] \o frame[2].site[n])
                          = Steps(G.b)[G.hi].local[n]
  <2>1. LevelFits(G) /\ LevelOK(G, heap, frame, at) /\ \A c \in Workers : at[c] = LastOf(G, c) /\ FrameOK(frame[c])
    BY <1>2, <1>5, Zenon DEF G
  <2> QED BY <1>6, <2>1, LevelEnds
<1>8. G.b = body /\ G.ops = Ops /\ G.by = code.ops /\ G.lo = from /\ G.hi = z
  BY <1>4, Zenon DEF G, z
<1>9. heap' = Steps(body)[z].heap  BY <1>1, <1>7, <1>8, Zenon DEF Committed
<1>10. ASSUME NEW n \in Reductions(body) PROVE scalars'[n] = Steps(body)[z].local[n]
  <2>1. n \in Names /\ n \in Ops  BY <1>5
  <2>2. scalars'[n] = Folded(code.ops[n], scalars[n], frame[1].site[n] \o frame[2].site[n])
    BY <1>1, <2>1 DEF OpOf
  <2>3. scalars[n] = Steps(body)[from].local[n]  BY <1>3
  <2>4. Folded(code.ops[n], Steps(body)[from].local[n], frame[1].site[n] \o frame[2].site[n]) = Steps(body)[z].local[n]
    BY <1>7, <1>8, <2>1
  <2> QED BY <2>2, <2>3, <2>4, Zenon
<1>11. AsWritten(body) = Steps(body)[N]  BY <1>5, StepsCanon, Zenon
<1>12. CASE z = N
  <2>1. stage' = "end" /\ outcome' = "done"  BY <1>1, <1>12 DEF Ends, z
  <2>2. heap' = AsWritten(body).heap /\ \A n \in Reductions(body) : scalars'[n] = AsWritten(body).local[n]
    BY <1>9, <1>10, <1>11, <1>12, Zenon
  <2>3. body' = body  BY <1>1
  <2>4. Same'  BY <2>2, <2>3, Zenon DEF Same
  <2> QED BY <2>1, <2>4 DEF Computes
<1>13. CASE z # N
  <2>1. stage' = "run" /\ outcome' = outcome  BY <1>1, <1>13 DEF z
  <2>2. how = "WAVEFRONT"  BY <1>13 DEF z, LevelEnd
  <2>3. body' = body /\ how' = how /\ from' = z  BY <1>1 DEF z
  <2>4. \A c \in Workers : frame'[c] = AsFunction(body, heap')
    <3>1. frame' = [c \in Workers |-> AsFunction(body, heap')]  BY <1>1, Zenon DEF Fresh
    <3> QED BY <3>1
  <2>5. /\ heap' = Steps(body')[from'].heap /\ \A c \in Workers : frame'[c] = AsFunction(body', heap')
        /\ \A n \in Reductions(body') : scalars'[n] = Steps(body')[from'].local[n]
    BY <1>9, <1>10, <2>3, <2>4, Zenon
  <2> QED BY <1>3, <2>1, <2>2, <2>3, <2>5 DEF Computes
<1> QED BY <1>12, <1>13

LEMMA ConflictComputes == ASSUME Knows, JoinConflict, how # "WAVEFRONT" PROVE Computes'
<1>1. /\ Done /\ AllOk /\ Conflict /\ stage' = "twin" /\ UNCHANGED <<outcome, heap>>
  BY DEF JoinConflict
<1>2. /\ stage = "level" /\ LevelFits(Level(from)) /\ code.made /\ LevelOK(Level(from), heap, frame, at)
  BY <1>1, DoneIs
<1>3. outcome = "none" /\ from = 0  BY <1>2, KnowsOf DEF Computes
<1>4. PICK d \in Containers : Plans[d] = "dict"  BY <1>1, Zenon DEF Conflict
<1>5. Chosen /\ Known(body) /\ Plainly(body)  BY <1>2, KnowsOf, Zenon
<1>6. Plans = Plan(body)
  <2>1. Plans # NoPlan  BY <1>4 DEF NoPlan
  <2> QED BY <1>2, <1>5, <2>1, PlansAre, Zenon
<1>7. \A c \in Containers : ~InPlaceWritten(body, Plans, c)  BY <1>4, <1>5, <1>6, NothingInPlace
<1>8. Level(from).b = body /\ Level(from).plan = Plans /\ Level(from).lo = 0  BY <1>3 DEF Level
<1> DEFINE G == Level(from)
<1> HIDE DEF G
<1>9. heap = Steps(G.b)[G.lo].heap
  <2>1. LevelFits(G) /\ LevelOK(G, heap, frame, at) /\ \A c \in Containers : ~InPlaceWritten(G.b, G.plan, c)
    BY <1>2, <1>7, <1>8, Zenon DEF G
  <2> QED BY <2>1, LevelWaits
<1>10. heap = StartHeap
  <2>1. Steps(body)[0].heap = StartHeap  BY <1>5, StepsCanon, Zenon
  <2> QED BY <1>8, <1>9, <2>1, Zenon DEF G
<1> QED BY <1>1, <1>3, <1>10 DEF Computes

LEMMA TwinsCompute == ASSUME Knows, Twin PROVE Computes'
<1> DEFINE f == Straight(body, AsFunction(body, heap))
<1>1. /\ stage = "twin" /\ heap' = f.heap /\ body' = body /\ stage' = "end"
      /\ scalars' = [n \in Names |-> IF n \in Ops THEN f.local[n] ELSE scalars[n]]
  BY DEF Twin, Ends
<1>2. heap = StartHeap /\ code.made  BY <1>1, KnowsOf DEF Computes, Chosen
<1>3. Known(body) /\ Supported(body) /\ Ops = Reductions(body) /\ Reductions(body) \subseteq Names
  BY <1>2, KnowsOf, Zenon
<1>4. f = Straight(body, AsFunction(body, StartHeap))  BY <1>2, Zenon
<1> HIDE DEF f
<1>5. f.heap = AsWritten(body).heap /\ \A n \in Reductions(body) : f.local[n] = AsWritten(body).local[n]
  BY <1>3, <1>4, TwinComputes, Zenon
<1>6. \A n \in Reductions(body) : scalars'[n] = f.local[n]  BY <1>1, <1>3
<1>7. heap' = AsWritten(body').heap /\ \A n \in Reductions(body') : scalars'[n] = AsWritten(body').local[n]
  BY <1>1, <1>5, <1>6, Zenon
<1>8. Same'  BY <1>7, Zenon DEF Same
<1> QED BY <1>1, <1>8 DEF Computes

LEMMA StillComputes == ASSUME Knows, UNCHANGED vars PROVE Computes'
<1>1. UNCHANGED <<body, stage, how, code, direct, heap, scalars, from, frame, at, outcome>>
  BY DEF vars
<1>2. Level(from)' = Level(from)  BY <1>1, LevelStays, Zenon
<1>3. Same' <=> Same  BY <1>1 DEF Same
<1>4. Computes  BY KnowsOf, Zenon
<1>5. LevelOK(Level(from), heap, frame, at) => LevelOK(Level(from)', heap', frame', at')
  BY <1>1, <1>2
<1>6. /\ Steps(body') = Steps(body) /\ Reductions(body') = Reductions(body)
      /\ \A c \in Workers : AsFunction(body', heap') = AsFunction(body, heap)
  BY <1>1
<1> QED BY <1>1, <1>3, <1>4, <1>5, <1>6 DEF Computes

LEMMA ComputingStep == ASSUME Inv, Going, Computing, [Next]_vars PROVE Computing'
<1>1. body' = body
  BY DEF Next, Decide, Leave, Start, Enter, Iterate, JoinError, JoinConflict, Join, Twin, Over, vars
<1>2. Supported(body') = Supported(body) /\ Understood(body') = Understood(body)  BY <1>1
<1>3. code'.made => Supported(body)
  <2>1. CASE Decide
    <3>1. code' = NoCode \/ Supported(body)  BY <2>1, Zenon DEF Decide
    <3>2. ~NoCode.made  BY DEF NoCode
    <3> QED BY <3>1, <3>2, Zenon
  <2>2. CASE ~Decide
    <3>1. code' = code
      BY <2>2 DEF Next, Leave, Start, Enter, Iterate, JoinError, JoinConflict, Join, Twin, Over, vars
    <3> QED BY <3>1 DEF Computing
  <2> QED BY <2>1, <2>2
<1>4. ASSUME Understood(body) PROVE Computes'
  <2>1. Knows  BY <1>4, Zenon DEF Knows
  <2>2. outcome' # "error"  BY <1>2, <1>4, GoingStep, Zenon DEF Going
  <2>3. CASE Over \/ UNCHANGED vars  BY <2>1, <2>3, StillComputes, Zenon DEF Over
  <2>4. CASE JoinError  BY <2>2, <2>4 DEF JoinError, Ends
  <2>5. CASE JoinConflict
    <3>1. how # "WAVEFRONT"  BY <2>2, <2>5 DEF JoinConflict, Ends
    <3> QED BY <2>1, <2>5, <3>1, ConflictComputes, Zenon
  <2> QED
    BY <2>1, <2>3, <2>4, <2>5, DecideComputes, LeaveComputes, StartComputes, EnterComputes, IterateComputes, JoinComputes,
       TwinsCompute, Zenon DEF Next
<1> QED BY <1>2, <1>3, <1>4, Zenon DEF Computing

\* A body that is let through, however its two chunks take turns, leaves the
\* containers and accumulators the loop leaves (select and codegen against
\* the promise of LIMITATIONS.md): for every set of bodies Python can have,
\* of any length, and any number of iterations.
THEOREM ComputesTheLoop == Spec => []SameAsTheLoop
<1>1. Init => Going /\ Computing
  <2> SUFFICES ASSUME Init PROVE Going /\ Computing  OBVIOUS
  <2>1. GoesOn(body, AsFunction(body, StartHeap))  BY StartHeapIs, FreshGoesOn
  <2>2. /\ frame = [c \in Workers |-> AsFunction(body, StartHeap)] /\ outcome = "none" /\ stage = "select"
        /\ heap = StartHeap /\ scalars = StartNames /\ from = 0 /\ code = NoCode
    BY Zenon DEF Init, Fresh
  <2>3. outcome # "error"  BY <2>2
  <2>4. Going  BY <2>1, <2>2, <2>3, Zenon DEF Going
  <2>5. Computes  BY <2>2 DEF Computes
  <2>6. ~code.made  BY <2>2 DEF NoCode
  <2> QED BY <2>4, <2>5, <2>6, Zenon DEF Computing
<1>2. Inv /\ Going /\ Computing /\ [Next]_vars => Going' /\ Computing'
  BY GoingStep, ComputingStep, Zenon
<1>3. Going /\ Computing => SameAsTheLoop  BY Zenon DEF Computing, Computes, SameAsTheLoop
<1> QED BY <1>1, <1>2, <1>3, Invariance, PTL DEF Spec

=============================================================================
