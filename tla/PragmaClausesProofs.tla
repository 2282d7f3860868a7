------------------------- MODULE PragmaClausesProofs -------------------------
(***************************************************************************)
(* Proofs about Pragmas and PragmaClauses, for every file of any length.   *)
(*                                                                         *)
(* The first part asks nothing of what clauses mean: no pragma is ignored  *)
(* and only marked loops are replaced.                                     *)
(*                                                                         *)
(* The second is about the clauses: the parser reads what is written, and  *)
(* a clause that passes the registry has what its readers take from it.    *)
(* Readings and Rendering are recursive functions.  That there are such    *)
(* functions at all is shown first (ReadingsAre, RenderingIs), from what   *)
(* each form needs: what is read further on, or at the same place in a     *)
(* lower form.  Then the text is followed from its end to its beginning.   *)
(***************************************************************************)
EXTENDS PragmaClauses, SequenceTheorems, WellFoundedInduction, TLAPS

-----------------------------------------------------------------------------
(* Numbers and sequences *)

\* A nonempty set of naturals has a least element.  With a set of counter-
\* examples for S it is the induction of the proofs below.
LEMMA LeastNatural ==
  ASSUME NEW S \in SUBSET Nat, S # {}
  PROVE  \E m \in S : \A n \in S : m <= n
<1>1. \E m \in S : \A n \in S : ~ (<<n, m>> \in OpToRel(<, Nat))
  BY NatLessThanWellFounded, WFMin
<1>2. ASSUME NEW m \in S, NEW n \in S, ~ (<<n, m>> \in OpToRel(<, Nat)) PROVE m <= n
  <2>1. OpToRel(<, Nat) = {ss \in Nat \X Nat : ss[1] < ss[2]}
    BY DEF OpToRel
  <2>2. m \in Nat /\ n \in Nat /\ <<n, m>> \in Nat \X Nat
    OBVIOUS
  <2>3. ~ (<<n, m>>[1] < <<n, m>>[2])
    BY <1>2, <2>1, <2>2
  <2> QED
    BY <2>2, <2>3
<1> QED
  BY <1>1, <1>2

\* A bounded one has a greatest.
LEMMA GreatestNatural ==
  ASSUME NEW S \in SUBSET Nat, S # {}, NEW top \in Nat, \A n \in S : n <= top
  PROVE  \E m \in S : \A n \in S : n <= m
<1> DEFINE Below == {top - n : n \in S}
<1>1. Below \in SUBSET Nat /\ Below # {}
  <2>1. \A n \in S : n \in Nat /\ n <= top
    OBVIOUS
  <2>2. \A n \in S : top - n \in Nat
    BY <2>1
  <2> QED
    BY <2>2
<1>2. PICK d \in Below : \A n \in Below : d <= n
  <2> HIDE DEF Below
  <2> QED
    BY <1>1, LeastNatural
<1>3. PICK m \in S : d = top - m
  BY <1>2
<1>4. ASSUME NEW n \in S PROVE n <= m
  <2>1. d <= top - n /\ n \in Nat /\ m \in Nat
    BY <1>2
  <2> QED
    BY <1>3, <2>1
<1> QED
  BY <1>3, <1>4

LEMMA ToSetAppend ==
  ASSUME NEW T, NEW s \in Seq(T), NEW x \in T
  PROVE  /\ ToSet(Append(s, x)) = ToSet(s) \cup {x}
         /\ Append(s, x) \in Seq(T) /\ Len(Append(s, x)) = Len(s) + 1
         /\ Append(s, x)[Len(s) + 1] = x
         /\ \A i \in 1 .. Len(s) : Append(s, x)[i] = s[i]
<1>1. /\ Append(s, x) \in Seq(T) /\ Len(Append(s, x)) = Len(s) + 1
      /\ Append(s, x)[Len(s) + 1] = x
      /\ \A i \in 1 .. Len(s) : Append(s, x)[i] = s[i]
      /\ DOMAIN s = 1 .. Len(s) /\ DOMAIN Append(s, x) = 1 .. Len(s) + 1 /\ Len(s) \in Nat
  OBVIOUS
<1>2. ToSet(Append(s, x)) \subseteq ToSet(s) \cup {x}
  <2> SUFFICES ASSUME NEW i \in 1 .. Len(s) + 1 PROVE Append(s, x)[i] \in ToSet(s) \cup {x}
    BY <1>1 DEF ToSet
  <2>1. CASE i \in 1 .. Len(s)
    BY <1>1, <2>1 DEF ToSet
  <2>2. CASE i = Len(s) + 1
    BY <1>1, <2>2
  <2> QED
    BY <1>1, <2>1, <2>2
<1>3. ASSUME NEW y \in ToSet(s) PROVE y \in ToSet(Append(s, x))
  <2>1. PICK i \in 1 .. Len(s) : y = s[i]
    BY <1>1 DEF ToSet
  <2>2. i \in 1 .. Len(s) + 1 /\ y = Append(s, x)[i]
    BY <1>1, <2>1
  <2> QED
    BY <1>1, <2>2 DEF ToSet
<1>4. x \in ToSet(Append(s, x))
  <2>1. Len(s) + 1 \in 1 .. Len(s) + 1
    BY <1>1
  <2> QED
    BY <1>1, <2>1 DEF ToSet
<1> QED
  BY <1>1, <1>2, <1>3, <1>4

LEMMA ToSetIn ==
  ASSUME NEW T, NEW s \in Seq(T)
  PROVE  /\ ToSet(s) \subseteq T
         /\ \A i \in 1 .. Len(s) : s[i] \in ToSet(s)
         /\ \A x \in ToSet(s) : \E i \in 1 .. Len(s) : x = s[i]
BY DEF ToSet

\* FlattenSeq, a sequence at a time.
LEMMA FlattenSteps ==
  ASSUME NEW T, NEW P \in Seq(Seq(T))
  PROVE  \E f \in [0 .. Len(P) -> Seq(T)] :
           /\ f[0] = <<>>
           /\ \A k \in 1 .. Len(P) : f[k] = f[k - 1] \o P[k]
           /\ FlattenSeq(P) = f[Len(P)]
<1> DEFINE Makes(m, f) == f[0] = <<>> /\ \A k \in 1 .. m : f[k] = f[k - 1] \o P[k]
           Missing == {m \in 0 .. Len(P) : ~ \E f \in [0 .. m -> Seq(T)] : Makes(m, f)}
<1>0. Len(P) \in Nat /\ \A k \in 1 .. Len(P) : P[k] \in Seq(T)
  OBVIOUS
<1>1. Missing = {}
  <2> SUFFICES ASSUME Missing # {} PROVE FALSE
    OBVIOUS
  <2>0. Missing \subseteq 0 .. Len(P) /\ Missing \in SUBSET Nat
    <3> HIDE DEF Makes
    <3>1. Missing \subseteq 0 .. Len(P)
      OBVIOUS
    <3> QED
      BY <1>0, <3>1
  <2>1. PICK m \in Missing : \A n \in Missing : m <= n
    <3> HIDE DEF Missing
    <3> QED
      BY <2>0, LeastNatural
  <2>2. m # 0
    <3>1. [i \in 0 .. 0 |-> <<>>] \in [0 .. 0 -> Seq(T)] /\ Makes(0, [i \in 0 .. 0 |-> <<>>])
      OBVIOUS
    <3> QED
      BY <2>1, <3>1
  <2>3. m - 1 \in 0 .. Len(P) /\ m \in 1 .. Len(P)
    <3> HIDE DEF Missing
    <3> QED
      BY <1>0, <2>0, <2>1, <2>2
  <2>4. PICK f \in [0 .. m - 1 -> Seq(T)] : Makes(m - 1, f)
    <3>1. m - 1 \notin Missing
      <4>1. m - 1 \in Missing => m <= m - 1
        <5> HIDE DEF Missing
        <5> QED
          BY <2>1
      <4>2. ~ (m <= m - 1)
        BY <1>0, <2>3
      <4> QED
        BY <4>1, <4>2
    <3> HIDE DEF Makes
    <3> QED
      BY <2>3, <3>1
  <2> DEFINE g == [i \in 0 .. m |-> IF i = m THEN f[m - 1] \o P[m] ELSE f[i]]
  <2>5. g \in [0 .. m -> Seq(T)]
    <3>1. f[m - 1] \in Seq(T) /\ P[m] \in Seq(T)
      BY <1>0, <2>3
    <3>2. f[m - 1] \o P[m] \in Seq(T)
      BY <3>1
    <3>3. \A i \in 0 .. m : i # m => f[i] \in Seq(T)
      BY <2>3, <1>0
    <3> QED
      BY <3>2, <3>3
  <2>6. Makes(m, g)
    <3>1. g[0] = <<>>
      BY <2>2, <2>3, <2>4, <1>0
    <3>2. ASSUME NEW k \in 1 .. m PROVE g[k] = g[k - 1] \o P[k]
      <4>1. g[k - 1] = f[k - 1]
        BY <2>3, <1>0
      <4>2. CASE k = m
        <5>1. g[m] = f[m - 1] \o P[m]
          <6>1. m \in 0 .. m
            BY <1>0, <2>3
          <6> QED
            BY <6>1, Zenon
        <5>2. g[k - 1] = f[m - 1]
          BY <4>1, <4>2
        <5> QED
          BY <4>2, <5>1, <5>2, Zenon
      <4>3. CASE k # m
        <5>1. k \in 1 .. m - 1 /\ g[k] = f[k]
          BY <2>3, <4>3, <1>0
        <5> QED
          BY <2>4, <4>1, <5>1
      <4> QED
        BY <4>2, <4>3
    <3> QED
      BY <3>1, <3>2
  <2>7. ~ \E d \in [0 .. m -> Seq(T)] : Makes(m, d)
    BY <2>1
  <2> QED
    BY <2>5, <2>6, <2>7
<1>2. PICK f \in [0 .. Len(P) -> Seq(T)] : Makes(Len(P), f)
  <2> HIDE DEF Makes
  <2>1. Len(P) \in 0 .. Len(P)
    BY <1>0
  <2> QED
    BY <1>1, <2>1
<1>3. FlattenSeq(P) = f[Len(P)]
  <2>1. CASE Len(P) = 0
    <3>1. P = <<>>
      BY <2>1
    <3> QED
      BY <1>2, <2>1, <3>1 DEF FlattenSeq
  <2>2. CASE Len(P) # 0
    <3> DEFINE Flat(g) == g = [i \in 1 .. Len(P) |-> IF i = 1 THEN P[i] ELSE g[i - 1] \o P[i]]
               h == [i \in 1 .. Len(P) |-> f[i]]
               flat == CHOOSE g : Flat(g)
    <3>1. Flat(h)
      <4>1. ASSUME NEW i \in 1 .. Len(P) PROVE f[i] = IF i = 1 THEN P[i] ELSE h[i - 1] \o P[i]
        <5>1. CASE i = 1
          <6>1. f[1] = f[1 - 1] \o P[1] /\ f[0] = <<>> /\ P[1] \in Seq(T)
            BY <1>0, <1>2, <5>1
          <6>2. 1 - 1 = 0
            OBVIOUS
          <6>3. f[1] = <<>> \o P[1]
            BY <6>1, <6>2, Zenon
          <6> QED
            BY <5>1, <6>1, <6>3
        <5>2. CASE i # 1
          <6>1. i - 1 \in 1 .. Len(P)
            BY <1>0, <5>2
          <6>2. f[i] = f[i - 1] \o P[i]
            BY <1>2
          <6> QED
            BY <5>2, <6>1, <6>2
        <5> QED
          BY <5>1, <5>2
      <4> QED
        BY <4>1, Zenon
    <3>2. Flat(flat)
      <4> HIDE DEF Flat
      <4> QED
        BY <3>1
    <3>3. FlattenSeq(P) = flat[Len(P)]
      BY <2>2, Zenon DEF FlattenSeq
    <3> HIDE DEF flat
    <3> DEFINE Odd == {i \in 1 .. Len(P) : flat[i] # f[i]}
    <3>4. Odd = {}
      <4> SUFFICES ASSUME Odd # {} PROVE FALSE
        OBVIOUS
      <4>0. Odd \in SUBSET Nat
        BY <1>0
      <4>1. PICK i \in Odd : \A j \in Odd : i <= j
        <5> HIDE DEF Odd
        <5> QED
          BY <4>0, LeastNatural
      <4>2. flat[i] = IF i = 1 THEN P[i] ELSE flat[i - 1] \o P[i]
        BY <3>2, <4>1
      <4>3. f[i] = f[i - 1] \o P[i]
        BY <1>2, <4>1
      <4>4. CASE i = 1
        <5>1. f[1] = f[1 - 1] \o P[1] /\ f[0] = <<>> /\ P[1] \in Seq(T)
          BY <1>0, <1>2, <4>1, <4>4
        <5>2. 1 - 1 = 0
          OBVIOUS
        <5>3. f[1] = <<>> \o P[1]
          BY <5>1, <5>2, Zenon
        <5> QED
          BY <4>1, <4>2, <4>4, <5>1, <5>3
      <4>5. CASE i # 1
        <5>1. i - 1 \in 1 .. Len(P) /\ i \in Nat
          BY <1>0, <4>1, <4>5
        <5>2. i - 1 \notin Odd
          <6>1. i - 1 \in Odd => i <= i - 1
            BY <4>1
          <6> QED
            BY <5>1, <6>1
        <5>3. flat[i - 1] = f[i - 1]
          BY <5>1, <5>2
        <5> QED
          BY <4>1, <4>2, <4>3, <4>5, <5>3
      <4> QED
        BY <4>4, <4>5
    <3>5. Len(P) \in 1 .. Len(P)
      BY <1>0, <2>2
    <3> QED
      BY <3>3, <3>4, <3>5
  <2> QED
    BY <2>1, <2>2
<1> QED
  BY <1>2, <1>3

\* Its length, where no piece is empty.
LEMMA FlattenLength ==
  ASSUME NEW T, NEW P \in Seq(Seq(T)), \A k \in 1 .. Len(P) : Len(P[k]) >= 1
  PROVE  FlattenSeq(P) \in Seq(T) /\ Len(FlattenSeq(P)) >= Len(P)
<1>0. Len(P) \in Nat /\ \A k \in 1 .. Len(P) : P[k] \in Seq(T)
  OBVIOUS
<1>1. PICK f \in [0 .. Len(P) -> Seq(T)] :
        f[0] = <<>> /\ (\A k \in 1 .. Len(P) : f[k] = f[k - 1] \o P[k]) /\ FlattenSeq(P) = f[Len(P)]
  BY FlattenSteps
<1> DEFINE Short == {k \in 0 .. Len(P) : ~(Len(f[k]) >= k)}
<1>2. Short = {}
  <2> SUFFICES ASSUME Short # {} PROVE FALSE
    OBVIOUS
  <2>0. Short \in SUBSET Nat
    BY <1>0
  <2>1. PICK k \in Short : \A j \in Short : k <= j
    <3> HIDE DEF Short
    <3> QED
      BY <2>0, LeastNatural
  <2>2. k \in 0 .. Len(P) /\ ~(Len(f[k]) >= k) /\ k \in Nat
    BY <1>0, <2>1
  <2>3. k # 0
    BY <1>1, <2>2
  <2>4. k \in 1 .. Len(P) /\ k - 1 \in 0 .. Len(P) /\ k - 1 \in Nat
    BY <1>0, <2>2, <2>3
  <2>5. k - 1 \notin Short
    <3>1. k - 1 \in Short => k <= k - 1
      BY <2>1
    <3> QED
      BY <2>4, <3>1
  <2>6. f[k - 1] \in Seq(T) /\ P[k] \in Seq(T) /\ Len(f[k - 1]) >= k - 1 /\ Len(P[k]) >= 1
    BY <1>0, <2>4, <2>5
  <2>7. f[k] = f[k - 1] \o P[k]
    BY <1>1, <2>4
  <2>8. Len(f[k]) = Len(f[k - 1]) + Len(P[k]) /\ Len(f[k - 1]) \in Nat /\ Len(P[k]) \in Nat
    BY <2>6, <2>7
  <2> HIDE DEF Short
  <2>9. Len(f[k - 1]) + Len(P[k]) >= k
    <3>1. \A a, b \in Nat : a >= k - 1 /\ b >= 1 => a + b >= k
      BY <2>2
    <3> QED
      BY <2>6, <2>8, <3>1
  <2> QED
    BY <2>2, <2>8, <2>9
<1>3. Len(P) \in 0 .. Len(P)
  BY <1>0
<1> QED
  BY <1>1, <1>2, <1>3

\* The first m elements of a sequence.
LEMMA SubSeqFront ==
  ASSUME NEW T, NEW s \in Seq(T), NEW m \in 0 .. Len(s)
  PROVE  /\ SubSeq(s, 1, m) \in Seq(T) /\ Len(SubSeq(s, 1, m)) = m
         /\ \A i \in 1 .. m : SubSeq(s, 1, m)[i] = s[i]
<1>0. Len(s) \in Nat /\ m \in Nat /\ m <= Len(s) /\ \A i \in 1 .. Len(s) : s[i] \in T
  OBVIOUS
<1>1. \A i \in 1 .. m : s[i] \in T
  BY <1>0
<1>2. 1 \in Int /\ m \in Int
  BY <1>0
<1>3. /\ SubSeq(s, 1, m) \in Seq(T)
      /\ Len(SubSeq(s, 1, m)) = IF 1 <= m THEN m - 1 + 1 ELSE 0
      /\ \A i \in 1 .. m - 1 + 1 : SubSeq(s, 1, m)[i] = s[1 + i - 1]
  BY <1>1, <1>2, SubSeqProperties
<1>4. m - 1 + 1 = m /\ \A i \in Int : 1 + i - 1 = i
  BY <1>0
<1> QED
  BY <1>0, <1>3, <1>4

\* What a longer sequence keeps of a shorter one.
LEMMA SubSeqGrows ==
  \A s, t \in Seq(Int) : \A m \in 0 .. Len(s) :
    /\ SubSeq(s \o t, 1, m) = SubSeq(s, 1, m)
    /\ SubSeq(s \o t, m + 1, Len(s \o t)) = SubSeq(s, m + 1, Len(s)) \o t
    /\ SubSeq(s, 1, m) \in Seq(Int) /\ SubSeq(s, m + 1, Len(s)) \in Seq(Int)
<1> DEFINE T == Int
<1> SUFFICES ASSUME NEW s \in Seq(T), NEW t \in Seq(T), NEW m \in 0 .. Len(s)
             PROVE  /\ SubSeq(s \o t, 1, m) = SubSeq(s, 1, m)
                    /\ SubSeq(s \o t, m + 1, Len(s \o t)) = SubSeq(s, m + 1, Len(s)) \o t
                    /\ SubSeq(s, 1, m) \in Seq(T) /\ SubSeq(s, m + 1, Len(s)) \in Seq(T)
  OBVIOUS
<1> HIDE DEF T
<1>0. Len(s) \in Nat /\ Len(t) \in Nat /\ m \in Nat /\ m <= Len(s)
      /\ \A i \in 1 .. Len(s) : s[i] \in T
  OBVIOUS
<1>1. /\ s \o t \in Seq(T) /\ Len(s \o t) = Len(s) + Len(t)
      /\ \A i \in 1 .. Len(s) + Len(t) : (s \o t)[i] = IF i <= Len(s) THEN s[i] ELSE t[i - Len(s)]
  BY ConcatProperties
<1>2. /\ SubSeq(s, 1, m) \in Seq(T) /\ Len(SubSeq(s, 1, m)) = m
      /\ \A i \in 1 .. m : SubSeq(s, 1, m)[i] = s[i]
  BY SubSeqFront
<1>3. /\ SubSeq(s, m + 1, Len(s)) \in Seq(T) /\ Len(SubSeq(s, m + 1, Len(s))) = Len(s) - m
      /\ \A i \in 1 .. Len(s) - m : SubSeq(s, m + 1, Len(s))[i] = s[m + i]
  <2>1. \A i \in m + 1 .. Len(s) : s[i] \in T
    BY <1>0
  <2>2. m + 1 \in Int /\ Len(s) \in Int
    BY <1>0
  <2>3. /\ SubSeq(s, m + 1, Len(s)) \in Seq(T)
        /\ Len(SubSeq(s, m + 1, Len(s))) = IF m + 1 <= Len(s) THEN Len(s) - (m + 1) + 1 ELSE 0
        /\ \A i \in 1 .. Len(s) - (m + 1) + 1 : SubSeq(s, m + 1, Len(s))[i] = s[m + 1 + i - 1]
    BY <2>1, <2>2, SubSeqProperties
  <2>4. /\ Len(s) - (m + 1) + 1 = Len(s) - m /\ \A i \in Int : m + 1 + i - 1 = m + i
        /\ (IF m + 1 <= Len(s) THEN Len(s) - (m + 1) + 1 ELSE 0) = Len(s) - m
    BY <1>0
  <2>5. Len(SubSeq(s, m + 1, Len(s))) = Len(s) - m
    BY <2>3, <2>4
  <2>6. ASSUME NEW i \in 1 .. Len(s) - m PROVE SubSeq(s, m + 1, Len(s))[i] = s[m + i]
    <3>1. i \in 1 .. Len(s) - (m + 1) + 1 /\ m + 1 + i - 1 = m + i
      <4>1. Len(s) - (m + 1) + 1 = Len(s) - m
        BY <1>0
      <4>2. i \in Int /\ m \in Int
        BY <1>0
      <4>3. m + 1 + i - 1 = m + i
        BY <4>2
      <4> QED
        BY <4>1, <4>3, Zenon
    <3>2. SubSeq(s, m + 1, Len(s))[i] = s[m + 1 + i - 1]
      BY <2>3, <3>1, Zenon
    <3> QED
      BY <3>1, <3>2, Zenon
  <2> QED
    BY <2>3, <2>5, <2>6
<1>4. SubSeq(s \o t, 1, m) = SubSeq(s, 1, m)
  <2>1. \A i \in 1 .. m : (s \o t)[i] = s[i] /\ s[i] \in T
    BY <1>0, <1>1
  <2>2. 1 \in Int /\ m \in Int
    BY <1>0
  <2>3. /\ SubSeq(s \o t, 1, m) \in Seq(T)
        /\ Len(SubSeq(s \o t, 1, m)) = IF 1 <= m THEN m - 1 + 1 ELSE 0
        /\ \A i \in 1 .. m - 1 + 1 : SubSeq(s \o t, 1, m)[i] = (s \o t)[1 + i - 1]
    BY <2>1, <2>2, SubSeqProperties
  <2>4. m - 1 + 1 = m /\ \A i \in Int : 1 + i - 1 = i
    BY <1>0
  <2>5. /\ Len(SubSeq(s \o t, 1, m)) = m
        /\ \A i \in 1 .. m : SubSeq(s \o t, 1, m)[i] = SubSeq(s, 1, m)[i]
    BY <1>0, <1>2, <2>1, <2>3, <2>4
  <2> QED
    BY <1>2, <2>3, <2>5, SeqEqual
<1>5. SubSeq(s \o t, m + 1, Len(s \o t)) = SubSeq(s, m + 1, Len(s)) \o t
  <2> DEFINE l == Len(s) + Len(t)
             u == SubSeq(s, m + 1, Len(s))
  <2>1. \A i \in m + 1 .. l : (s \o t)[i] \in T
    BY <1>0, <1>1
  <2>2. m + 1 \in Int /\ l \in Int
    BY <1>0
  <2>3. /\ SubSeq(s \o t, m + 1, l) \in Seq(T)
        /\ Len(SubSeq(s \o t, m + 1, l)) = IF m + 1 <= l THEN l - (m + 1) + 1 ELSE 0
        /\ \A i \in 1 .. l - (m + 1) + 1 : SubSeq(s \o t, m + 1, l)[i] = (s \o t)[m + 1 + i - 1]
    BY <2>1, <2>2, SubSeqProperties
  <2>4. /\ l - (m + 1) + 1 = l - m /\ \A i \in Int : m + 1 + i - 1 = m + i
        /\ (IF m + 1 <= l THEN l - (m + 1) + 1 ELSE 0) = l - m
    BY <1>0
  <2>5. /\ u \o t \in Seq(T) /\ Len(u \o t) = Len(u) + Len(t)
        /\ \A i \in 1 .. Len(u) + Len(t) : (u \o t)[i] = IF i <= Len(u) THEN u[i] ELSE t[i - Len(u)]
    BY <1>3, ConcatProperties
  <2>6. Len(SubSeq(s \o t, m + 1, l)) = l - m /\ Len(u) = Len(s) - m /\ Len(u) + Len(t) = l - m
    <3>1. Len(SubSeq(s \o t, m + 1, l)) = l - m
      BY <2>3, <2>4
    <3>2. Len(u) = Len(s) - m
      BY <1>3
    <3>3. (Len(s) - m) + Len(t) = l - m
      BY <1>0
    <3> HIDE DEF l, u
    <3> QED
      BY <3>1, <3>2, <3>3
  <2>7. ASSUME NEW i \in 1 .. l - m PROVE SubSeq(s \o t, m + 1, l)[i] = (u \o t)[i]
    <3>1. SubSeq(s \o t, m + 1, l)[i] = (s \o t)[m + i]
      BY <2>3, <2>4
    <3>2. m + i \in 1 .. l /\ m + i <= Len(s) <=> i <= Len(u)
      BY <1>0, <2>6
    <3>3. (s \o t)[m + i] = IF m + i <= Len(s) THEN s[m + i] ELSE t[m + i - Len(s)]
      BY <1>0, <1>1, <2>7
    <3>4. (u \o t)[i] = IF i <= Len(u) THEN u[i] ELSE t[i - Len(u)]
      BY <2>5, <2>6
    <3>5. m + i - Len(s) = i - Len(u)
      <4>1. m + i - Len(s) = i - (Len(s) - m)
        BY <1>0
      <4> QED
        BY <2>6, <4>1, Zenon
    <3>6. i <= Len(u) => u[i] = s[m + i]
      BY <1>0, <1>3, <2>6
    <3>7. m + i <= Len(s) <=> i <= Len(u)
      BY <1>0, <2>6
    <3> HIDE DEF u, l
    <3> QED
      BY <3>1, <3>3, <3>4, <3>5, <3>6, <3>7
  <2>8. Len(SubSeq(s \o t, m + 1, l)) = Len(u \o t)
    BY <2>5, <2>6
  <2>9. SubSeq(s \o t, m + 1, l) = u \o t
    <3> HIDE DEF u, l
    <3>1. \A i \in 1 .. Len(SubSeq(s \o t, m + 1, l)) : SubSeq(s \o t, m + 1, l)[i] = (u \o t)[i]
      BY <2>6, <2>7
    <3> QED
      BY <2>3, <2>5, <2>8, <3>1, SeqEqual
  <2> QED
    BY <1>1, <2>9
<1> QED
  BY <1>2, <1>3, <1>4, <1>5

LEMMA Assoc == \A a, b, c \in Seq(Int) : (a \o b) \o c = a \o (b \o c)
<1> TAKE a, b, c \in Seq(Int)
<1> QED
  BY ConcatAssociative

\* The lines from n to e make way for c.
Spliced(s, n, e, c) == SubSeq(s, 1, n - 1) \o c \o SubSeq(s, e + 1, Len(s))

Reaching(s, n, e) == n \in Nat \ {0} /\ e \in Nat /\ n - 1 <= e /\ e <= Len(s)

LEMMA SpliceGrows ==
  \A s, t, c \in Seq(Int) : \A n, e : Reaching(s, n, e) =>
    Spliced(s, n, e, c) \o t = Spliced(s \o t, n, e, c) /\ Reaching(s \o t, n, e)
<1> SUFFICES ASSUME NEW s \in Seq(Int), NEW t \in Seq(Int), NEW c \in Seq(Int), NEW n, NEW e,
                    Reaching(s, n, e)
             PROVE  Spliced(s, n, e, c) \o t = Spliced(s \o t, n, e, c) /\ Reaching(s \o t, n, e)
  OBVIOUS
<1>1. /\ e \in 0 .. Len(s) /\ n - 1 \in 0 .. Len(s) /\ Len(s) \in Nat
      /\ n \in Nat \ {0} /\ e \in Nat /\ n - 1 <= e
  BY DEF Reaching
<1> DEFINE d == n - 1
           a == SubSeq(s, 1, d)
           u == SubSeq(s, e + 1, Len(s))
<1>2. d \in 0 .. Len(s)
  BY <1>1
<1> HIDE DEF d
<1>3. SubSeq(s \o t, 1, d) = a /\ a \in Seq(Int)
  BY <1>2, SubSeqGrows, Zenon
<1>4. SubSeq(s \o t, e + 1, Len(s \o t)) = u \o t /\ u \in Seq(Int)
  BY <1>1, SubSeqGrows, Zenon
<1> HIDE DEF a, u
<1>5. a \o c \in Seq(Int)
  BY <1>3, ConcatProperties
<1>6. ((a \o c) \o u) \o t = (a \o c) \o (u \o t)
  BY <1>4, <1>5, Assoc, Zenon
<1>7. Reaching(s \o t, n, e)
  <2>1. Len(s \o t) = Len(s) + Len(t) /\ Len(t) \in Nat
    BY ConcatProperties
  <2> QED
    BY <1>1, <2>1 DEF Reaching
<1>8. Spliced(s, n, e, c) = (a \o c) \o u /\ Spliced(s \o t, n, e, c) = (a \o c) \o (u \o t)
  BY <1>3, <1>4, Zenon DEF Spliced, a, u, d
<1> QED
  BY <1>6, <1>7, <1>8, Zenon

\* f is what the first pieces of P make, and they are lines up to the m-th.
Builds(f, P, N) == f \in [0 .. N -> Seq(Int)] /\ f[0] = <<>> /\ \A k \in 1 .. N : f[k] = f[k - 1] \o P[k]
LinesTo(P, m) == \A k \in 1 .. m : P[k] = <<k>>
Lined(s, k) == Len(s) = k /\ \A i \in 1 .. k : s[i] = i
LinedTo(f, m) == \A k \in 0 .. m : Lined(f[k], k)

\* As long as the pieces are the lines themselves, so is what they make.
LEMMA FlattenLines ==
  \A N \in Nat : \A m \in 0 .. N : \A P, f :
    Builds(f, P, N) /\ LinesTo(P, m) => LinedTo(f, m)
<1> SUFFICES ASSUME NEW N \in Nat, NEW m \in 0 .. N, NEW P, NEW f, Builds(f, P, N), LinesTo(P, m)
             PROVE  \A k \in 0 .. m : Lined(f[k], k)
  BY DEF LinedTo
<1>a. /\ f \in [0 .. N -> Seq(Int)] /\ f[0] = <<>> /\ \A k \in 1 .. N : f[k] = f[k - 1] \o P[k]
      /\ \A k \in 1 .. m : P[k] = <<k>>
  BY DEF Builds, LinesTo
<1> DEFINE Other == {k \in 0 .. m : ~Lined(f[k], k)}
<1> SUFFICES ASSUME Other # {} PROVE FALSE
  OBVIOUS
<1>0. Other \in SUBSET Nat
  OBVIOUS
<1>1. PICK k \in Other : \A j \in Other : k <= j
  <2> HIDE DEF Other
  <2> QED
    BY <1>0, LeastNatural
<1>2. k # 0
  BY <1>a, <1>1 DEF Lined
<1>3. k \in 1 .. m /\ k \in 1 .. N /\ k - 1 \in 0 .. m /\ k - 1 \in Nat /\ k - 1 \in 0 .. N
  BY <1>1, <1>2
<1>4. Lined(f[k - 1], k - 1)
  <2>1. k - 1 \in Other => k <= k - 1
    BY <1>1
  <2> QED
    BY <1>3, <2>1
<1>5. f[k] = f[k - 1] \o <<k>> /\ f[k - 1] \in Seq(Int)
  BY <1>a, <1>3
<1>6. /\ Len(f[k]) = k
      /\ \A i \in 1 .. k : f[k][i] = IF i <= k - 1 THEN f[k - 1][i] ELSE <<k>>[i - (k - 1)]
  <2>1. <<k>> \in Seq(Int) /\ Len(<<k>>) = 1 /\ Len(f[k - 1]) = k - 1
    BY <1>3, <1>4 DEF Lined
  <2>2. /\ Len(f[k - 1] \o <<k>>) = Len(f[k - 1]) + Len(<<k>>)
        /\ \A i \in 1 .. Len(f[k - 1]) + Len(<<k>>) :
             (f[k - 1] \o <<k>>)[i] = IF i <= Len(f[k - 1]) THEN f[k - 1][i] ELSE <<k>>[i - Len(f[k - 1])]
    BY <1>5, <2>1, ConcatProperties
  <2>3. (k - 1) + 1 = k
    BY <1>3
  <2> QED
    BY <1>5, <2>1, <2>2, <2>3
<1>7. ASSUME NEW i \in 1 .. k PROVE f[k][i] = i
  <2>1. CASE i <= k - 1
    <3>1. i \in 1 .. k - 1
      BY <1>3, <2>1
    <3>2. f[k][i] = f[k - 1][i]
      BY <1>6, <2>1
    <3>3. f[k - 1][i] = i
      BY <1>4, <3>1, Zenon DEF Lined
    <3> QED
      BY <3>2, <3>3, Zenon
  <2>2. CASE ~(i <= k - 1)
    <3>1. i = k /\ i - (k - 1) = 1 /\ <<k>>[1] = k
      BY <1>3, <2>2
    <3>2. f[k][i] = <<k>>[i - (k - 1)]
      BY <1>6, <2>2
    <3> QED
      BY <3>1, <3>2, Zenon
  <2> QED
    BY <2>1, <2>2
<1> QED
  BY <1>1, <1>6, <1>7 DEF Lined

\* The pieces of q are those of p, but for the lines from n to e.
Swapped(p, q, N, n, e, c) ==
  /\ \A k \in 1 .. n - 1 : q[k] = <<k>>
  /\ q[n] = c
  /\ \A k \in n + 1 .. e : q[k] = <<>>
  /\ \A k \in e + 1 .. N : q[k] = p[k]

\* What becomes of the lines.
LEMMA SpliceFlat ==
  ASSUME NEW N \in Nat, NEW p \in Seq(Seq(Int)), NEW q \in Seq(Seq(Int)), Len(p) = N, Len(q) = N,
         NEW n \in 1 .. N, NEW e \in n .. N, NEW c \in Seq(Int),
         LinesTo(p, e), Swapped(p, q, N, n, e, c)
  PROVE  FlattenSeq(q) = Spliced(FlattenSeq(p), n, e, c)
<1>0. /\ e \in 1 .. N /\ e \in 0 .. N /\ n - 1 \in 0 .. N /\ n - 1 \in Nat /\ e \in Nat /\ n \in Nat
      /\ n - 1 <= e /\ n \in 0 .. N
      /\ \A k \in 1 .. N : p[k] \in Seq(Int) /\ q[k] \in Seq(Int)
  OBVIOUS
<1>1. PICK f \in [0 .. N -> Seq(Int)] :
        f[0] = <<>> /\ (\A k \in 1 .. N : f[k] = f[k - 1] \o p[k]) /\ FlattenSeq(p) = f[N]
  <2>1. \E h \in [0 .. Len(p) -> Seq(Int)] :
          /\ h[0] = <<>>
          /\ \A k \in 1 .. Len(p) : h[k] = h[k - 1] \o p[k]
          /\ FlattenSeq(p) = h[Len(p)]
    BY FlattenSteps, Zenon
  <2> QED
    BY <2>1, Zenon
<1>2. PICK g \in [0 .. N -> Seq(Int)] :
        g[0] = <<>> /\ (\A k \in 1 .. N : g[k] = g[k - 1] \o q[k]) /\ FlattenSeq(q) = g[N]
  <2>1. \E h \in [0 .. Len(q) -> Seq(Int)] :
          /\ h[0] = <<>>
          /\ \A k \in 1 .. Len(q) : h[k] = h[k - 1] \o q[k]
          /\ FlattenSeq(q) = h[Len(q)]
    BY FlattenSteps, Zenon
  <2> QED
    BY <2>1, Zenon
<1>3. LinedTo(f, e)
  <2>1. Builds(f, p, N)
    BY <1>1, Zenon DEF Builds
  <2>2. e \in 0 .. N
    BY <1>0
  <2> QED
    BY <2>1, <2>2, FlattenLines, Zenon
<1>4. LinedTo(g, n - 1)
  <2> DEFINE d == n - 1
  <2>1. Builds(g, q, N)
    BY <1>2, Zenon DEF Builds
  <2>2. LinesTo(q, d)
    BY Zenon DEF LinesTo, Swapped
  <2>3. d \in 0 .. N
    BY <1>0
  <2> HIDE DEF d
  <2>4. LinedTo(g, d)
    BY <2>1, <2>2, <2>3, FlattenLines, Zenon
  <2> QED
    BY <2>4, Zenon DEF d
<1>5. \A k \in 0 .. N : f[k] \in Seq(Int) /\ g[k] \in Seq(Int)
  BY <1>1, <1>2
\* At the end of the lines that go.
<1>6. g[n - 1] = SubSeq(f[e], 1, n - 1)
  <2>1. /\ f[e] \in Seq(Int) /\ Len(f[e]) = e /\ \A i \in 1 .. e : f[e][i] = i
        /\ g[n - 1] \in Seq(Int) /\ Len(g[n - 1]) = n - 1 /\ \A i \in 1 .. n - 1 : g[n - 1][i] = i
    <3>1. e \in 0 .. e /\ n - 1 \in 0 .. n - 1
      BY <1>0
    <3> QED
      BY <1>0, <1>3, <1>4, <1>5, <3>1 DEF LinedTo, Lined
  <2>2. n - 1 \in 0 .. Len(f[e])
    BY <1>0, <2>1
  <2>3. /\ SubSeq(f[e], 1, n - 1) \in Seq(Int) /\ Len(SubSeq(f[e], 1, n - 1)) = n - 1
        /\ \A i \in 1 .. n - 1 : SubSeq(f[e], 1, n - 1)[i] = f[e][i]
    <3> DEFINE s == f[e]
    <3>1. s \in Seq(Int) /\ n - 1 \in 0 .. Len(s)
      BY <2>1, <2>2
    <3> HIDE DEF s
    <3>2. /\ SubSeq(s, 1, n - 1) \in Seq(Int) /\ Len(SubSeq(s, 1, n - 1)) = n - 1
          /\ \A i \in 1 .. n - 1 : SubSeq(s, 1, n - 1)[i] = s[i]
      BY <3>1, SubSeqFront
    <3> QED
      BY <3>2 DEF s
  <2>4. ASSUME NEW i \in 1 .. n - 1 PROVE SubSeq(f[e], 1, n - 1)[i] = g[n - 1][i]
    <3>1. i \in 1 .. e
      BY <1>0
    <3> QED
      BY <2>1, <2>3, <3>1, Zenon
  <2> QED
    BY <2>1, <2>3, <2>4, SeqEqual
<1>7. \A k \in n .. e : g[k] = g[n - 1] \o c
  <2> DEFINE Moved == {k \in n .. e : g[k] # g[n - 1] \o c}
  <2> SUFFICES ASSUME Moved # {} PROVE FALSE
    OBVIOUS
  <2>0. Moved \in SUBSET Nat
    BY <1>0
  <2>1. PICK k \in Moved : \A j \in Moved : k <= j
    <3> HIDE DEF Moved
    <3> QED
      BY <2>0, LeastNatural
  <2>2. k \in n .. e /\ k \in 1 .. N /\ g[k] = g[k - 1] \o q[k] /\ g[k] # g[n - 1] \o c
    <3>1. k \in n .. e /\ k \in 1 .. N
      BY <1>0, <2>1
    <3> QED
      BY <1>2, <2>1, <3>1
  <2>3. k # n
    BY <2>2 DEF Swapped
  <2>4. k - 1 \in n .. e /\ k \in n + 1 .. e /\ k \in Nat
    BY <1>0, <2>2, <2>3
  <2>5. g[k - 1] = g[n - 1] \o c
    <3>1. k - 1 \in Moved => k <= k - 1
      <4> HIDE DEF Moved
      <4> QED
        BY <2>1
    <3>2. ~(k <= k - 1)
      BY <2>4
    <3> QED
      BY <2>4, <3>1, <3>2, Zenon
  <2>6. g[k] = (g[n - 1] \o c) \o <<>>
    <3>1. q[k] = <<>>
      BY <2>4 DEF Swapped
    <3> QED
      BY <2>2, <2>5, <3>1, Zenon
  <2>7. g[n - 1] \o c \in Seq(Int)
    BY <1>0, <1>5
  <2> QED
    BY <2>2, <2>6, <2>7, ConcatEmptySeq
\* From there on.
<1> DEFINE Fits(k) == /\ Reaching(f[k], n, e)
                      /\ g[k] = Spliced(f[k], n, e, c)
           Wrong == {k \in e .. N : ~Fits(k)}
<1>8. Wrong = {}
  <2> SUFFICES ASSUME Wrong # {} PROVE FALSE
    OBVIOUS
  <2>0. Wrong \in SUBSET Nat
    <3> HIDE DEF Fits
    <3> QED
      BY <1>0
  <2>1. PICK k \in Wrong : \A j \in Wrong : k <= j
    <3> HIDE DEF Wrong
    <3> QED
      BY <2>0, LeastNatural
  <2>2. k \in e .. N /\ ~Fits(k)
    <3> HIDE DEF Fits
    <3> QED
      BY <2>1
  <2>3. CASE k = e
    <3>1. e \in n .. e /\ e \in 0 .. e
      BY <1>0
    <3>2. g[e] = SubSeq(f[e], 1, n - 1) \o c /\ Len(f[e]) = e
      BY <1>3, <1>6, <1>7, <3>1 DEF LinedTo, Lined
    <3>3. SubSeq(f[e], e + 1, e) = <<>>
      BY <1>0, SubSeqEmpty
    <3>4. SubSeq(f[e], 1, n - 1) \o c \in Seq(Int)
      <4>1. g[n - 1] \o c \in Seq(Int)
        BY <1>0, <1>5
      <4> QED
        BY <1>6, <4>1
    <3>5. (SubSeq(f[e], 1, n - 1) \o c) \o <<>> = SubSeq(f[e], 1, n - 1) \o c
      BY <3>4, ConcatEmptySeq
    <3>6. g[e] = (SubSeq(f[e], 1, n - 1) \o c) \o SubSeq(f[e], e + 1, Len(f[e]))
      BY <3>2, <3>3, <3>5, Zenon
    <3>7. Reaching(f[e], n, e)
      BY <1>0, <3>2 DEF Reaching
    <3> QED
      BY <2>2, <2>3, <3>6, <3>7, Zenon DEF Spliced
  <2>4. CASE k # e
    <3>1. k - 1 \in e .. N /\ k \in e + 1 .. N /\ k \in 1 .. N /\ k - 1 \in 0 .. N /\ k \in Nat
      BY <1>0, <2>2, <2>4
    <3>2. Fits(k - 1)
      <4>1. k - 1 \in Wrong => k <= k - 1
        BY <2>1
      <4> HIDE DEF Fits
      <4> QED
        BY <3>1, <4>1
    <3> DEFINE s == f[k - 1]
               t == p[k]
    <3>3. s \in Seq(Int) /\ t \in Seq(Int) /\ f[k] = s \o t /\ Reaching(s, n, e)
      BY <1>0, <1>1, <1>5, <3>1, <3>2, Zenon
    <3>4. g[k] = Spliced(s, n, e, c) \o t
      <4>1. g[k] = g[k - 1] \o q[k] /\ q[k] = t
        BY <1>2, <3>1 DEF Swapped
      <4> QED
        BY <3>2, <4>1, Zenon
    <3> HIDE DEF s, t
    <3>5. g[k] = Spliced(s \o t, n, e, c) /\ Reaching(s \o t, n, e)
      <4>1. Spliced(s, n, e, c) \o t = Spliced(s \o t, n, e, c) /\ Reaching(s \o t, n, e)
        BY <3>3, SpliceGrows, Zenon
      <4> QED
        BY <3>4, <4>1, Zenon
    <3> QED
      BY <2>2, <3>3, <3>5, Zenon
  <2> QED
    BY <2>3, <2>4
<1>9. N \in e .. N
  BY <1>0
<1>10. Fits(N)
  <2> HIDE DEF Fits
  <2> QED
    BY <1>8, <1>9
<1> QED
  BY <1>1, <1>2, <1>10, Zenon

-----------------------------------------------------------------------------
(* Lines and loops *)

\* What the variables hold, but for the lines of the rewritten module.
TypeInv == /\ input \in Inputs /\ src \in Seq(Kinds) /\ Len(src) <= Len(input.lines)
           /\ pc \in {"scan", "pair", "rewrite", "splice", "done", "raised"}
           /\ pragmas \in Seq(DOMAIN src) /\ trusted \in Seq(DOMAIN src)
           /\ blocks \in Seq((DOMAIN src) \X (DOMAIN src)) /\ reports \subseteq DOMAIN src
           /\ next \in 1 .. Len(pragmas) + 1
           /\ open \in (DOMAIN src) \cup {0}
           /\ left \subseteq DOMAIN src

LEMMA Lines ==
  ASSUME src \in Seq(Kinds)
  PROVE  /\ Len(src) \in Nat /\ DOMAIN src = 1 .. Len(src) /\ DOMAIN src \subseteq Nat \ {0}
         /\ \A n \in DOMAIN src : src[n] \in Kinds
OBVIOUS

\* A statement ends at a line of its own or below it.
LEMMA EndLineType ==
  ASSUME src \in Seq(Kinds), NEW n \in Statements
  PROVE  n \in DOMAIN src /\ EndLine(n) \in DOMAIN src /\ n <= EndLine(n)
<1>1. /\ Statements \subseteq DOMAIN src /\ DOMAIN src \subseteq Nat \ {0}
      /\ Len(src) \in Nat /\ \A m \in DOMAIN src : m <= Len(src)
  BY Lines DEF Statements
<1>2. CASE src[n] # "for"
  BY <1>1, <1>2 DEF EndLine
<1>3. CASE src[n] = "for"
  <2> DEFINE IsEnd(m) == /\ m >= n /\ \A k \in Statements : n < k /\ k <= m => src[k] \in Inner
                         /\ \A k \in Statements : k > m =>
                              \E j \in Statements : n < j /\ j <= k /\ src[j] \notin Inner
             Body == {m \in Statements : m >= n /\ \A k \in Statements : n < k /\ k <= m => src[k] \in Inner}
  <2>1. Body \in SUBSET Nat /\ n \in Body /\ \A m \in Body : m <= Len(src)
    BY <1>1
  <2>2. PICK m \in Body : \A k \in Body : k <= m
    <3> HIDE DEF Body
    <3> QED
      BY <1>1, <2>1, GreatestNatural
  <2>3. IsEnd(m)
    <3>1. ASSUME NEW k \in Statements, k > m
          PROVE  \E j \in Statements : n < j /\ j <= k /\ src[j] \notin Inner
      <4>1. k \notin Body
        <5>1. k \in Body => k <= m
          BY <2>2
        <5>2. k \in Nat /\ m \in Nat
          BY <1>1, <2>1
        <5> QED
          BY <3>1, <5>1, <5>2
      <4>2. k >= n
        BY <1>1, <3>1, <2>2
      <4> QED
        BY <4>1, <4>2
    <3> QED
      BY <2>2, <3>1
  <2>4. m \in Statements
    BY <2>2
  <2>5. EndLine(n) = CHOOSE k \in Statements : IsEnd(k)
    BY <1>3, Zenon DEF EndLine
  <2>6. EndLine(n) \in Statements /\ IsEnd(EndLine(n))
    <3> HIDE DEF IsEnd
    <3> QED
      BY <2>3, <2>4, <2>5
  <2> QED
    BY <1>1, <2>6
<1> QED
  BY <1>2, <1>3

\* The loop of a block is within it, to its last line.
LEMMA LoopWithin ==
  ASSUME src \in Seq(Kinds), NEW b, HasOneLoop(b)
  PROVE  /\ LoopOf(b) \in Statements /\ src[LoopOf(b)] \in Loops
         /\ LoopOf(b) > b[1] /\ EndLine(LoopOf(b)) < b[2]
<1>1. PICK n \in TopOf(b) : TopOf(b) = {n} /\ src[n] \in Loops
  BY DEF HasOneLoop
<1>2. LoopOf(b) = n
  BY <1>1 DEF LoopOf
<1>3. n \in Inside(b)
  BY DEF TopOf
<1> QED
  BY <1>1, <1>2, <1>3 DEF Inside

\* The marked blocks lie one after the other.
LEMMA BlocksApart ==
  ASSUME src \in Seq(Kinds), NEW b \in Marked, NEW c \in Marked, b # c
  PROVE  b[2] < c[1] \/ c[2] < b[1]
<1>0. /\ b \in (DOMAIN src) \X (DOMAIN src) /\ c \in (DOMAIN src) \X (DOMAIN src)
      /\ b = <<b[1], b[2]>> /\ c = <<c[1], c[2]>>
      /\ b[1] \in Nat \ {0} /\ b[2] \in Nat /\ c[1] \in Nat \ {0} /\ c[2] \in Nat
  BY Lines DEF Marked
<1>1. ASSUME NEW x \in Marked, NEW y \in Marked, x[1] < y[1],
             x[1] \in Nat \ {0}, x[2] \in Nat, y[1] \in Nat \ {0}
      PROVE  x[2] < y[1]
  <2>1. x[1] \in 1 .. y[1] - 1 /\ IsA(x[1], "start")
    BY <1>1 DEF Marked
  <2>2. EndBetween(x[1], y[1])
    BY <2>1 DEF Marked
  <2>3. PICK m \in x[1] + 1 .. y[1] - 1 : IsA(m, "end")
    BY <2>2 DEF EndBetween
  <2>4. m \notin x[1] + 1 .. x[2] - 1
    BY <2>3 DEF Marked, EndBetween
  <2> QED
    BY <1>1, <2>3, <2>4
<1>2. CASE b[1] = c[1]
  <2>1. ASSUME NEW x \in Marked, NEW y \in Marked, x[1] = y[1], x[2] < y[2],
               x[1] \in Nat, x[2] \in Nat, y[2] \in Nat
        PROVE  FALSE
    <3>1. x[2] \in y[1] + 1 .. y[2] - 1 /\ IsA(x[2], "end")
      BY <2>1 DEF Marked
    <3> QED
      BY <3>1 DEF Marked, EndBetween
  <2>2. b[2] = c[2]
    BY <1>0, <1>2, <2>1
  <2> QED
    BY <1>0, <1>2, <2>2
<1>3. CASE b[1] < c[1]
  BY <1>0, <1>1, <1>3
<1>4. CASE c[1] < b[1]
  BY <1>0, <1>1, <1>4
<1> QED
  BY <1>0, <1>2, <1>3, <1>4

\* So their loops do, each on lines of its own.
LEMMA LoopsApart ==
  ASSUME src \in Seq(Kinds), NEW m \in MarkedLoops, NEW n \in MarkedLoops
  PROVE  /\ n \in Statements /\ n \in DOMAIN src /\ EndLine(n) \in DOMAIN src /\ n <= EndLine(n)
         /\ m < n => EndLine(m) < n
<1>1. PICK b \in Marked : HasOneLoop(b) /\ m = LoopOf(b)
  BY DEF MarkedLoops, Analysed
<1>2. PICK c \in Marked : HasOneLoop(c) /\ n = LoopOf(c)
  BY DEF MarkedLoops, Analysed
<1>3. /\ m \in Statements /\ m > b[1] /\ EndLine(m) < b[2]
      /\ n \in Statements /\ n > c[1] /\ EndLine(n) < c[2]
  BY <1>1, <1>2, LoopWithin
<1>4. /\ m \in DOMAIN src /\ EndLine(m) \in DOMAIN src /\ m <= EndLine(m)
      /\ n \in DOMAIN src /\ EndLine(n) \in DOMAIN src /\ n <= EndLine(n)
  BY <1>3, EndLineType
<1>5. m \in Nat /\ n \in Nat /\ EndLine(m) \in Nat /\ EndLine(n) \in Nat
  BY <1>4, Lines
<1>6. b[1] \in Nat /\ b[2] \in Nat /\ c[1] \in Nat /\ c[2] \in Nat
  BY Lines DEF Marked
<1>7. ASSUME m < n PROVE EndLine(m) < n
  <2>1. b # c
    BY <1>1, <1>2, <1>5, <1>7
  <2>2. b[2] < c[1] \/ c[2] < b[1]
    BY <2>1, BlocksApart
  <2> QED
    BY <1>3, <1>4, <1>5, <1>6, <1>7, <2>2
<1> QED
  BY <1>3, <1>4, <1>7

-----------------------------------------------------------------------------
(***************************************************************************)
(* The inductive invariant, in parts.  Each is about a scan and a pairing  *)
(* that raised nothing.                                                    *)
(***************************************************************************)
\* The lines of the pragmas paired so far, and the borders of the blocks.
Paired == {pragmas[i] : i \in 1 .. next - 1}
Borders == UNION {{b[1], b[2]} : b \in ToSet(blocks)}

\* The scan has the pragmas in the order of the file, each on its own line,
\* and has reported the others.
ScanInv ==
  /\ \A i, j \in 1 .. Len(pragmas) : i < j => pragmas[i] < pragmas[j]
  /\ ToSet(pragmas) = {n \in DOMAIN src : src[n] \in OwnLine}
  /\ \A n \in DOMAIN src : src[n] = "trailing" => n \in reports
  /\ pc = "scan" => next = 1 /\ open = 0 /\ blocks = <<>>
  /\ pc \in {"rewrite", "splice", "done"} => next = Len(pragmas) + 1

\* What was paired is answered, but for the START that is open.
AnswerInv ==
  /\ \A n \in Paired : n \in Borders \cup ToSet(trusted) \cup reports \cup {open}
  /\ pc \in {"rewrite", "splice", "done"} => open \in reports \cup {0}

\* The START that is open is the first since the last END.
OpenInv ==
  /\ open # 0 =>
       /\ open \in Paired /\ IsA(open, "start")
       /\ \A n \in Paired : n > open => ~IsA(n, "end")
       /\ \A n \in 1 .. open - 1 : IsA(n, "start") => EndBetween(n, open)
  /\ open = 0 => \A n \in Paired : IsA(n, "start") => \E m \in Paired : n < m /\ IsA(m, "end")

\* The blocks are those a reader sees, as far as they are paired.
BlockInv == \A b : b \in ToSet(blocks) <=> b \in Marked /\ b[2] \in Paired

PairInv == pc # "raised" => ScanInv /\ AnswerInv /\ OpenInv /\ BlockInv

LEMMA KindsOf ==
  ASSUME NEW n
  PROVE  /\ IsA(n, "start") => ~IsA(n, "end") /\ ~IsA(n, "trust")
         /\ IsA(n, "trust") => ~IsA(n, "end")
         /\ \A k : IsA(n, k) => src[n] \in OwnLine
BY DEF IsA

\* What a step that leaves the source alone sees of it.
LEMMA SameSource ==
  ASSUME src' = src
  PROVE  /\ Marked' = Marked /\ Statements' = Statements
         /\ \A n, k : IsA(n, k)' <=> IsA(n, k)
         /\ \A a, b : EndBetween(a, b)' <=> EndBetween(a, b)
         /\ \A n : EndLine(n)' = EndLine(n)
<1>1. \A n, k : IsA(n, k)' <=> IsA(n, k)
  BY DEF IsA
<1>2. \A a, b : EndBetween(a, b)' <=> EndBetween(a, b)
  BY <1>1 DEF EndBetween
<1>3. Marked' = Marked
  BY <1>1, <1>2 DEF Marked
<1>4. Statements' = Statements
  BY DEF Statements
<1>5. \A n : EndLine(n)' = EndLine(n)
  BY <1>4 DEF EndLine
<1> QED
  BY <1>1, <1>2, <1>3, <1>4, <1>5

\* A pairing step takes the first pragma that is not paired.
LEMMA PairedGrows ==
  ASSUME TypeInv, ScanInv, next <= Len(pragmas), next' = next + 1, pragmas' = pragmas
  PROVE  /\ pragmas[next] \in DOMAIN src /\ pragmas[next] \in Nat \ {0}
         /\ src[pragmas[next]] \in OwnLine
         /\ Paired' = Paired \cup {pragmas[next]}
         /\ \A n \in Paired : n \in DOMAIN src /\ n < pragmas[next]
         /\ \A n \in DOMAIN src : src[n] \in OwnLine /\ n < pragmas[next] => n \in Paired
<1>1. /\ Len(pragmas) \in Nat /\ next \in 1 .. Len(pragmas) /\ next - 1 \in Nat
      /\ \A i \in 1 .. Len(pragmas) : pragmas[i] \in DOMAIN src /\ pragmas[i] \in Nat \ {0}
      /\ DOMAIN pragmas = 1 .. Len(pragmas)
  <2>1. /\ pragmas \in Seq(DOMAIN src) /\ src \in Seq(Kinds) /\ next \in 1 .. Len(pragmas) + 1
        /\ DOMAIN src \subseteq Nat \ {0}
    BY Lines DEF TypeInv
  <2>2. Len(pragmas) \in Nat /\ \A i \in 1 .. Len(pragmas) : pragmas[i] \in DOMAIN src
    BY <2>1
  <2> QED
    BY <2>1, <2>2
<1>2. \A i \in 1 .. Len(pragmas) : pragmas[i] \in ToSet(pragmas)
  BY <1>1 DEF ToSet
<1>3. src[pragmas[next]] \in OwnLine
  BY <1>1, <1>2 DEF ScanInv
<1>4. Paired' = Paired \cup {pragmas[next]}
  <2>1. Paired' = {pragmas[i] : i \in 1 .. next}
    BY <1>1 DEF Paired
  <2>2. 1 .. next = (1 .. next - 1) \cup {next}
    BY <1>1
  <2> QED
    BY <2>1, <2>2 DEF Paired
<1>5. ASSUME NEW n \in Paired PROVE n \in DOMAIN src /\ n < pragmas[next]
  <2>1. PICK i \in 1 .. next - 1 : n = pragmas[i]
    BY DEF Paired
  <2>2. i \in 1 .. Len(pragmas) /\ i < next
    BY <1>1, <2>1
  <2> QED
    BY <1>1, <2>1, <2>2 DEF ScanInv
<1>6. ASSUME NEW n \in DOMAIN src, src[n] \in OwnLine, n < pragmas[next] PROVE n \in Paired
  <2>1. n \in ToSet(pragmas)
    BY <1>6 DEF ScanInv
  <2>2. PICK i \in 1 .. Len(pragmas) : n = pragmas[i]
    BY <1>1, <2>1 DEF ToSet
  <2>3. i < next
    <3>1. ~ (i = next) /\ ~ (next < i)
      <4>1. next < i => pragmas[next] < pragmas[i]
        BY <1>1 DEF ScanInv
      <4>2. pragmas[next] \in Nat /\ pragmas[i] \in Nat
        BY <1>1
      <4> QED
        BY <1>6, <2>2, <4>1, <4>2
    <3> QED
      BY <1>1, <2>2, <3>1
  <2>4. i \in 1 .. next - 1
    BY <1>1, <2>2, <2>3
  <2> QED
    BY <2>2, <2>4 DEF Paired
<1> QED
  BY <1>1, <1>3, <1>4, <1>5, <1>6

\* Once all are paired, the blocks are those a reader sees.
LEMMA AllPaired ==
  ASSUME TypeInv, PairInv, pc # "raised", next = Len(pragmas) + 1
  PROVE  ToSet(blocks) = Marked /\ Paired = ToSet(pragmas)
<1>1. Len(pragmas) \in Nat /\ DOMAIN pragmas = 1 .. Len(pragmas) /\ next - 1 = Len(pragmas)
  BY DEF TypeInv
<1>2. Paired = ToSet(pragmas)
  BY <1>1 DEF Paired, ToSet
<1>3. ASSUME NEW b \in Marked PROVE b[2] \in Paired
  <2>1. b[2] \in DOMAIN src /\ src[b[2]] \in OwnLine
    BY KindsOf DEF Marked
  <2> QED
    BY <1>2, <2>1 DEF PairInv, ScanInv
<1>4. \A b : b \in ToSet(blocks) <=> b \in Marked
  BY <1>3 DEF PairInv, BlockInv
<1> QED
  BY <1>2, <1>4

-----------------------------------------------------------------------------
(* Each step keeps the types. *)

LEMMA TypeHolds == Init => TypeInv
<1> SUFFICES ASSUME Init PROVE TypeInv
  OBVIOUS
<1>1. input \in Inputs /\ Len(input.lines) \in Nat
  BY PragmasAssumption DEF Init
<1>2. <<>> \in Seq(Kinds) /\ Len(<<>>) = 0 /\ <<>> \in Seq({}) /\ <<>> \in Seq({} \X {}) /\ DOMAIN <<>> = {}
  OBVIOUS
<1> QED
  BY <1>1, <1>2 DEF Init, TypeInv

LEMMA TypeStep == TypeInv /\ [Next]_vars => TypeInv'
<1> SUFFICES ASSUME TypeInv, [Next]_vars PROVE TypeInv'
  OBVIOUS
<1>0. /\ input \in Inputs /\ src \in Seq(Kinds) /\ Len(src) <= Len(input.lines)
      /\ Len(input.lines) \in Nat /\ Len(src) \in Nat /\ DOMAIN src = 1 .. Len(src)
      /\ pragmas \in Seq(DOMAIN src) /\ Len(pragmas) \in Nat
      /\ next \in 1 .. Len(pragmas) + 1
  BY PragmasAssumption DEF TypeInv
\* The lines stay lines when there is one more.
<1>1. ASSUME NEW k \in Kinds, Reaches(k), src' = Append(src, k)
      PROVE  /\ src' \in Seq(Kinds) /\ Len(src') <= Len(input.lines)
             /\ DOMAIN src \subseteq DOMAIN src' /\ Len(src) + 1 \in DOMAIN src'
             /\ pragmas \in Seq(DOMAIN src') /\ trusted \in Seq(DOMAIN src')
             /\ blocks \in Seq((DOMAIN src') \X (DOMAIN src')) /\ reports \subseteq DOMAIN src'
             /\ open \in (DOMAIN src') \cup {0} /\ left \subseteq DOMAIN src'
  <2>1. /\ src' \in Seq(Kinds) /\ Len(src') = Len(src) + 1 /\ DOMAIN src' = 1 .. Len(src) + 1
        /\ Len(src') <= Len(input.lines)
    BY <1>0, <1>1 DEF Reaches
  <2>2. DOMAIN src \subseteq DOMAIN src' /\ Len(src) + 1 \in DOMAIN src'
    BY <1>0, <2>1
  <2>3. \A S, T : S \subseteq T => Seq(S) \subseteq Seq(T)
    OBVIOUS
  <2>4. (DOMAIN src) \X (DOMAIN src) \subseteq (DOMAIN src') \X (DOMAIN src')
    BY <2>2
  <2>5. /\ Seq(DOMAIN src) \subseteq Seq(DOMAIN src')
        /\ Seq((DOMAIN src) \X (DOMAIN src)) \subseteq Seq((DOMAIN src') \X (DOMAIN src'))
    BY <2>2, <2>3, <2>4
  <2> QED
    BY <2>1, <2>2, <2>5 DEF TypeInv
<1>2. ASSUME NEW k \in Kinds, ScanLine(k) PROVE TypeInv'
  <2>1. /\ Reaches(k) /\ src' = Append(src, k) /\ pragmas' \in {pragmas, Append(pragmas, Len(src) + 1)}
        /\ reports' \in {reports, reports \cup {Len(src) + 1}}
        /\ UNCHANGED <<input, pc, next, open, blocks, trusted, left>>
    BY <1>2 DEF ScanLine
  <2>2. /\ src' \in Seq(Kinds) /\ Len(src') <= Len(input.lines) /\ Len(src) + 1 \in DOMAIN src'
        /\ pragmas \in Seq(DOMAIN src') /\ trusted \in Seq(DOMAIN src')
        /\ blocks \in Seq((DOMAIN src') \X (DOMAIN src')) /\ reports \subseteq DOMAIN src'
        /\ open \in (DOMAIN src') \cup {0} /\ left \subseteq DOMAIN src'
    BY <1>1, <2>1
  <2>3. pragmas' \in Seq(DOMAIN src') /\ next \in 1 .. Len(pragmas') + 1
    <3>1. Append(pragmas, Len(src) + 1) \in Seq(DOMAIN src')
          /\ Len(Append(pragmas, Len(src) + 1)) = Len(pragmas) + 1
      BY <2>2
    <3>2. CASE pragmas' = pragmas
      BY <1>0, <2>2, <3>2
    <3>3. CASE pragmas' = Append(pragmas, Len(src) + 1)
      BY <1>0, <3>1, <3>3
    <3> QED
      BY <2>1, <3>2, <3>3
  <2> QED
    BY <2>1, <2>2, <2>3 DEF TypeInv
<1>3. ASSUME NEW k \in Kinds, ScanRefuses(k) PROVE TypeInv'
  <2>1. /\ Reaches(k) /\ src' = Append(src, k) /\ pc' = "raised"
        /\ UNCHANGED <<input, pragmas, next, open, blocks, trusted, reports, left>>
    BY <1>3 DEF ScanRefuses
  <2> QED
    BY <1>1, <2>1 DEF TypeInv
<1>4. CASE ScanEnds
  BY <1>4 DEF ScanEnds, TypeInv
<1>5. ASSUME NEW k, Pairing(k)
      PROVE  /\ pragmas[next] \in DOMAIN src /\ next' \in 1 .. Len(pragmas) + 1
             /\ UNCHANGED <<input, src, pragmas, out, left>>
  <2>1. next \in 1 .. Len(pragmas) /\ next' = next + 1
    BY <1>0, <1>5 DEF Pairing
  <2>2. pragmas[next] \in DOMAIN src
    BY <1>0, <2>1
  <2> QED
    BY <1>0, <1>5, <2>1, <2>2 DEF Pairing
<1>6. ASSUME NEW n \in DOMAIN src, Report(n)
      PROVE  pc' \in {"pair", "raised"} /\ reports' \subseteq DOMAIN src
  BY <1>6 DEF Report, TypeInv
<1>7. CASE PairStart
  BY <1>5, <1>6, <1>7 DEF PairStart, TypeInv
<1>8. CASE PairEnd
  <2>1. /\ pragmas[next] \in DOMAIN src /\ next' \in 1 .. Len(pragmas) + 1
        /\ UNCHANGED <<input, src, pragmas, out, left, trusted>>
    BY <1>5, <1>8 DEF PairEnd
  <2>2. CASE open = 0
    BY <1>6, <1>8, <2>1, <2>2 DEF PairEnd, TypeInv
  <2>3. CASE open # 0
    <3>1. <<open, pragmas[next]>> \in (DOMAIN src) \X (DOMAIN src)
      BY <2>1, <2>3 DEF TypeInv
    <3>2. Append(blocks, <<open, pragmas[next]>>) \in Seq((DOMAIN src) \X (DOMAIN src))
      BY <3>1 DEF TypeInv
    <3> QED
      BY <1>8, <2>1, <2>3, <3>2 DEF PairEnd, TypeInv
  <2> QED
    BY <2>2, <2>3
<1>9. CASE PairTrust
  <2>1. /\ pragmas[next] \in DOMAIN src /\ next' \in 1 .. Len(pragmas) + 1
        /\ UNCHANGED <<input, src, pragmas, out, left, open, blocks>>
    BY <1>5, <1>9 DEF PairTrust
  <2>2. Append(trusted, pragmas[next]) \in Seq(DOMAIN src)
    BY <2>1 DEF TypeInv
  <2> QED
    BY <1>6, <1>9, <2>1, <2>2 DEF PairTrust, TypeInv
<1>10. CASE PairingEnds
  BY <1>10 DEF PairingEnds, TypeInv
<1>11. CASE Rewrite
  <2>1. \A b \in Replaced : LoopOf(b) \in DOMAIN src
    BY LoopWithin, EndLineType DEF TypeInv, Replaced, Analysed
  <2>2. \A b \in ToSet(blocks) : b[1] \in DOMAIN src
    BY ToSetIn DEF TypeInv
  <2>3. UNCHANGED <<input, src, pragmas, next, open, blocks, trusted>>
    BY <1>11 DEF Rewrite
  <2>4. /\ pc' \in {"raised", "splice"} /\ reports' \subseteq DOMAIN src
        /\ left' \subseteq DOMAIN src
    <3>1. CASE pc' = "raised" /\ UNCHANGED <<reports, out, left>>
      BY <3>1 DEF TypeInv
    <3>2. CASE /\ pc' = "splice" /\ left' = {LoopOf(b) : b \in Replaced}
               /\ \E bs \in SUBSET ToSet(blocks) : reports' = reports \cup {b[1] : b \in bs}
      BY <2>1, <2>2, <3>2 DEF TypeInv
    <3> QED
      <4> DEFINE refused == {b \in ToSet(blocks) : ~Analysed(b) \/ (Calls(b) /\ Ambiguous)}
                 dropped == {b \in ToSet(blocks) : Analysed(b) /\ Dropped(b)}
      <4>1. refused \cup dropped \in SUBSET ToSet(blocks)
        OBVIOUS
      <4>2. \/ pc' = "raised" /\ UNCHANGED <<reports, out, left>>
            \/ /\ pc' = "splice" /\ left' = {LoopOf(b) : b \in Replaced}
               /\ reports' = reports \cup {b[1] : b \in refused \cup dropped}
        BY <1>11 DEF Rewrite
      <4> HIDE DEF refused, dropped
      <4> QED
        BY <3>1, <3>2, <4>1, <4>2
  <2> QED
    BY <2>3, <2>4 DEF TypeInv
<1>12. ASSUME NEW n \in left, Splice(n) PROVE TypeInv'
  BY <1>12 DEF Splice, TypeInv
<1>13. CASE Rewritten
  BY <1>13 DEF Rewritten, TypeInv
<1>14. CASE UNCHANGED vars
  BY <1>14 DEF vars, TypeInv
<1> QED
  BY <1>2, <1>3, <1>4, <1>7, <1>8, <1>9, <1>10, <1>11, <1>12, <1>13, <1>14 DEF Next, Over

-----------------------------------------------------------------------------
(* Each step keeps the pairing right. *)

LEMMA PairHolds == Init => PairInv
<1> SUFFICES ASSUME Init PROVE PairInv
  OBVIOUS
<1>1. /\ src = <<>> /\ pragmas = <<>> /\ next = 1 /\ open = 0 /\ blocks = <<>> /\ pc = "scan"
      /\ Len(pragmas) = 0 /\ DOMAIN src = {} /\ DOMAIN pragmas = {} /\ DOMAIN blocks = {}
  BY DEF Init
<1>2. Paired = {} /\ ToSet(pragmas) = {} /\ ToSet(blocks) = {}
  BY <1>1 DEF Paired, ToSet
<1>3. ScanInv
  BY <1>1, <1>2 DEF ScanInv
<1> QED
  BY <1>1, <1>2, <1>3 DEF PairInv, AnswerInv, OpenInv, BlockInv

\* A line more: nothing is paired yet.
LEMMA PairScanLine ==
  ASSUME TypeInv, PairInv, NEW k \in Kinds, ScanLine(k)
  PROVE  PairInv'
<1>1. /\ pc = "scan" /\ pc' = "scan" /\ src' = Append(src, k)
      /\ pragmas' = IF k \in OwnLine THEN Append(pragmas, Len(src) + 1) ELSE pragmas
      /\ reports' = IF k = "trailing" THEN reports \cup {Len(src) + 1} ELSE reports
      /\ UNCHANGED <<next, open, blocks, trusted>>
  BY DEF ScanLine, Reaches
<1>2. next = 1 /\ open = 0 /\ blocks = <<>> /\ DOMAIN blocks = {}
  BY <1>1 DEF PairInv, ScanInv
<1>3. Paired = {} /\ Paired' = {} /\ ToSet(blocks) = {} /\ ToSet(blocks') = {}
  BY <1>1, <1>2 DEF Paired, ToSet
<1>4. /\ src \in Seq(Kinds) /\ Len(src) \in Nat /\ DOMAIN src = 1 .. Len(src)
      /\ pragmas \in Seq(DOMAIN src) /\ Len(pragmas) \in Nat /\ pragmas \in Seq(Nat)
      /\ \A i \in 1 .. Len(pragmas) : pragmas[i] \in 1 .. Len(src)
  <2>1. src \in Seq(Kinds) /\ pragmas \in Seq(DOMAIN src)
    BY DEF TypeInv
  <2>2. Len(src) \in Nat /\ DOMAIN src = 1 .. Len(src) /\ DOMAIN src \subseteq Nat
    BY <2>1
  <2>3. \A i \in 1 .. Len(pragmas) : pragmas[i] \in 1 .. Len(src)
    BY <2>1, <2>2
  <2>4. pragmas \in Seq(Nat)
    BY <2>1, <2>2
  <2> QED
    BY <2>1, <2>2, <2>3, <2>4
<1>5. /\ DOMAIN src' = (DOMAIN src) \cup {Len(src) + 1} /\ Len(src) + 1 \notin DOMAIN src
      /\ src'[Len(src) + 1] = k /\ \A n \in DOMAIN src : src'[n] = src[n]
  BY <1>1, <1>4
<1>6. /\ \A i, j \in 1 .. Len(pragmas) : i < j => pragmas[i] < pragmas[j]
      /\ ToSet(pragmas) = {n \in DOMAIN src : src[n] \in OwnLine}
      /\ \A n \in DOMAIN src : src[n] = "trailing" => n \in reports
  BY <1>1 DEF PairInv, ScanInv
<1>7. ScanInv'
  <2>1. /\ \A i, j \in 1 .. Len(pragmas') : i < j => pragmas'[i] < pragmas'[j]
        /\ ToSet(pragmas') = {n \in DOMAIN src' : src'[n] \in OwnLine}
    <3>1. CASE k \notin OwnLine
      <4>1. pragmas' = pragmas
        BY <1>1, <3>1
      <4> QED
        BY <1>5, <1>6, <3>1, <4>1
    <3>2. CASE k \in OwnLine
      <4>1. pragmas' = Append(pragmas, Len(src) + 1) /\ Len(src) + 1 \in Nat
        BY <1>1, <1>4, <3>2
      <4>2. /\ Len(pragmas') = Len(pragmas) + 1 /\ pragmas'[Len(pragmas) + 1] = Len(src) + 1
            /\ \A i \in 1 .. Len(pragmas) : pragmas'[i] = pragmas[i]
            /\ ToSet(pragmas') = ToSet(pragmas) \cup {Len(src) + 1}
        BY <1>4, <4>1, ToSetAppend
      <4>3. ASSUME NEW i \in 1 .. Len(pragmas'), NEW j \in 1 .. Len(pragmas'), i < j
            PROVE  pragmas'[i] < pragmas'[j]
        <5>1. i \in 1 .. Len(pragmas) /\ pragmas'[i] = pragmas[i] /\ pragmas[i] \in 1 .. Len(src)
          BY <1>4, <4>2, <4>3
        <5>2. CASE j \in 1 .. Len(pragmas)
          BY <1>6, <4>2, <4>3, <5>1, <5>2
        <5>3. CASE j = Len(pragmas) + 1
          BY <1>4, <4>2, <5>1, <5>3
        <5> QED
          BY <1>4, <4>2, <5>2, <5>3
      <4>4. ToSet(pragmas') = {n \in DOMAIN src' : src'[n] \in OwnLine}
        BY <1>5, <1>6, <3>2, <4>2
      <4> QED
        BY <4>3, <4>4
    <3> QED
      BY <3>1, <3>2
  <2>2. ASSUME NEW n \in DOMAIN src', src'[n] = "trailing" PROVE n \in reports'
    BY <1>1, <1>5, <1>6, <2>2
  <2> QED
    BY <1>1, <1>2, <2>1, <2>2 DEF ScanInv
<1> QED
  BY <1>1, <1>2, <1>3, <1>7 DEF PairInv, AnswerInv, OpenInv, BlockInv

\* The pairing of one pragma, whatever its kind: what does not depend on it.
LEMMA PairOne ==
  ASSUME TypeInv, PairInv, NEW k, Pairing(k), pc' = "pair", reports \subseteq reports'
  PROVE  /\ ScanInv' /\ src' = src /\ ScanInv /\ AnswerInv /\ OpenInv /\ BlockInv
         /\ pragmas[next] \in DOMAIN src /\ pragmas[next] \in Nat \ {0} /\ IsA(pragmas[next], k)
         /\ Paired' = Paired \cup {pragmas[next]}
         /\ \A n \in Paired : n \in DOMAIN src /\ n < pragmas[next]
         /\ \A n \in DOMAIN src : src[n] \in OwnLine /\ n < pragmas[next] => n \in Paired
<1>1. /\ pc = "pair" /\ next <= Len(pragmas) /\ Pragma(src[pragmas[next]]) = k /\ next' = next + 1
      /\ UNCHANGED <<input, src, pragmas, out, left>>
  BY DEF Pairing
<1>2. ScanInv /\ AnswerInv /\ OpenInv /\ BlockInv
  BY <1>1 DEF PairInv
<1>3. /\ pragmas[next] \in DOMAIN src /\ pragmas[next] \in Nat \ {0}
      /\ src[pragmas[next]] \in OwnLine
      /\ Paired' = Paired \cup {pragmas[next]}
      /\ \A n \in Paired : n \in DOMAIN src /\ n < pragmas[next]
      /\ \A n \in DOMAIN src : src[n] \in OwnLine /\ n < pragmas[next] => n \in Paired
  BY <1>1, <1>2, PairedGrows
<1>4. IsA(pragmas[next], k)
  BY <1>1, <1>3 DEF IsA
<1>5. ScanInv'
  BY <1>1, <1>2 DEF ScanInv, ToSet
<1> QED
  BY <1>1, <1>2, <1>3, <1>4, <1>5

\* A pragma that is no END ends no block.
LEMMA NoBlockEnds ==
  ASSUME BlockInv, src' = src, blocks' = blocks, NEW p, ~IsA(p, "end"), Paired' = Paired \cup {p}
  PROVE  BlockInv'
<1>1. Marked' = Marked /\ \A b \in Marked : b[2] # p
  BY SameSource DEF Marked
<1> QED
  BY <1>1 DEF BlockInv

LEMMA PairPairStart ==
  ASSUME TypeInv, PairInv, PairStart, pc' # "raised"
  PROVE  PairInv'
<1> DEFINE p == pragmas[next]
<1>1. Pairing("start") /\ pc' = "pair" /\ reports \subseteq reports' /\ UNCHANGED <<blocks, trusted>>
      /\ IF open # 0 THEN p \in reports' /\ UNCHANGED open ELSE open' = p
  BY DEF PairStart, Report, Pairing
<1>2. /\ ScanInv' /\ src' = src /\ ScanInv /\ AnswerInv /\ OpenInv /\ BlockInv
      /\ p \in DOMAIN src /\ p \in Nat \ {0} /\ IsA(p, "start") /\ Paired' = Paired \cup {p}
      /\ \A n \in Paired : n \in DOMAIN src /\ n < p
      /\ \A n \in DOMAIN src : src[n] \in OwnLine /\ n < p => n \in Paired
  BY <1>1, PairOne
<1> HIDE DEF p
<1>3. /\ \A n, k : IsA(n, k)' <=> IsA(n, k)
      /\ \A a, b : EndBetween(a, b)' <=> EndBetween(a, b)
  BY <1>2, SameSource
<1>4. ~IsA(p, "end") /\ \A n : IsA(n, "end") => ~IsA(n, "start")
  BY <1>2, KindsOf
<1>5. BlockInv'
  BY <1>1, <1>2, <1>4, NoBlockEnds
<1>6. AnswerInv'
  <2>1. Borders' = Borders /\ ToSet(trusted)' = ToSet(trusted)
    BY <1>1 DEF Borders, ToSet
  <2>2. \A n \in Paired : n \in Borders \cup ToSet(trusted) \cup reports \cup {open}
    BY <1>2 DEF AnswerInv
  <2>3. ASSUME NEW n \in Paired' PROVE n \in Borders' \cup ToSet(trusted)' \cup reports' \cup {open'}
    <3>1. CASE n = p
      BY <1>1, <3>1
    <3>2. CASE n \in Paired
      <4>1. n \in DOMAIN src /\ n # 0
        BY <1>2, <3>2, Lines DEF TypeInv
      <4> QED
        BY <1>1, <2>1, <2>2, <3>2, <4>1
    <3> QED
      BY <1>2, <3>1, <3>2
  <2> QED
    BY <1>1, <2>3 DEF AnswerInv
<1>7. OpenInv'
  <2>1. CASE open # 0
    BY <1>1, <1>2, <1>3, <1>4, <2>1 DEF OpenInv
  <2>2. CASE open = 0
    <3>1. open' = p /\ open' # 0 /\ open' \in Paired'
      BY <1>1, <1>2, <2>2
    <3>2. ASSUME NEW n \in Paired', n > p PROVE FALSE
      <4>1. n \in DOMAIN src /\ (n < p \/ n = p)
        BY <1>2
      <4>2. n \in Nat
        BY <4>1, Lines DEF TypeInv
      <4> QED
        BY <1>2, <3>2, <4>1, <4>2
    <3>3. ASSUME NEW n \in 1 .. p - 1, IsA(n, "start") PROVE EndBetween(n, p)
      <4>1. n \in DOMAIN src /\ src[n] \in OwnLine /\ n \in Nat
        <5>1. p <= Len(src) /\ Len(src) \in Nat /\ DOMAIN src = 1 .. Len(src)
          BY <1>2, Lines DEF TypeInv
        <5>2. src[n] \in OwnLine
          BY <3>3, KindsOf
        <5> QED
          BY <1>2, <5>1, <5>2
      <4>2. n \in Paired
        BY <1>2, <4>1
      <4>3. PICK m \in Paired : n < m /\ IsA(m, "end")
        BY <1>2, <2>2, <3>3, <4>2 DEF OpenInv
      <4>4. m \in n + 1 .. p - 1
        <5>1. m \in DOMAIN src /\ m < p
          BY <1>2
        <5>2. m \in Nat
          BY <5>1, Lines DEF TypeInv
        <5> QED
          BY <1>2, <4>1, <4>3, <5>1, <5>2
      <4> QED
        BY <4>3, <4>4 DEF EndBetween
    <3> QED
      BY <1>2, <1>3, <3>1, <3>2, <3>3 DEF OpenInv
  <2> QED
    BY <2>1, <2>2
<1> QED
  BY <1>2, <1>5, <1>6, <1>7 DEF PairInv

LEMMA PairPairEnd ==
  ASSUME TypeInv, PairInv, PairEnd, pc' # "raised"
  PROVE  PairInv'
<1> DEFINE p == pragmas[next]
<1>1. /\ Pairing("end") /\ pc' = "pair" /\ reports \subseteq reports' /\ UNCHANGED trusted
      /\ IF open = 0 THEN p \in reports' /\ UNCHANGED <<open, blocks>>
         ELSE blocks' = Append(blocks, <<open, p>>) /\ open' = 0
  BY DEF PairEnd, Report, Pairing
<1>2. /\ ScanInv' /\ src' = src /\ ScanInv /\ AnswerInv /\ OpenInv /\ BlockInv
      /\ p \in DOMAIN src /\ p \in Nat \ {0} /\ IsA(p, "end") /\ Paired' = Paired \cup {p}
      /\ \A n \in Paired : n \in DOMAIN src /\ n < p
      /\ \A n \in DOMAIN src : src[n] \in OwnLine /\ n < p => n \in Paired
  BY <1>1, PairOne
<1> HIDE DEF p
<1>3. /\ \A n, k : IsA(n, k)' <=> IsA(n, k)
      /\ \A a, b : EndBetween(a, b)' <=> EndBetween(a, b)
      /\ Marked' = Marked
  BY <1>2, SameSource
<1>4. ~IsA(p, "start") /\ \A n, k : IsA(n, k) => src[n] \in OwnLine
  BY <1>2, KindsOf
<1>5. src \in Seq(Kinds) /\ DOMAIN src \subseteq Nat \ {0} /\ DOMAIN src = 1 .. Len(src) /\ Len(src) \in Nat
  BY Lines DEF TypeInv
<1>6. CASE open = 0
  <2>1. BlockInv'
    <3>1. ASSUME NEW b \in Marked, b[2] = p PROVE FALSE
      <4>1. b[1] \in DOMAIN src /\ IsA(b[1], "start") /\ b[1] < p /\ ~EndBetween(b[1], p)
        BY <3>1 DEF Marked
      <4>2. b[1] \in Paired
        BY <1>2, <1>4, <4>1
      <4>3. PICK m \in Paired : b[1] < m /\ IsA(m, "end")
        BY <1>2, <1>6, <4>1, <4>2 DEF OpenInv
      <4>4. m \in b[1] + 1 .. p - 1
        BY <1>2, <1>5, <4>1, <4>3
      <4> QED
        BY <4>1, <4>3, <4>4 DEF EndBetween
    <3>2. blocks' = blocks
      BY <1>1, <1>6
    <3> QED
      BY <1>2, <1>3, <3>1, <3>2 DEF BlockInv
  <2>2. AnswerInv'
    <3>1. Borders' = Borders /\ ToSet(trusted)' = ToSet(trusted) /\ open' = open
      BY <1>1, <1>6 DEF Borders, ToSet
    <3> QED
      BY <1>1, <1>2, <1>6, <3>1 DEF AnswerInv
  <2>3. OpenInv'
    <3>1. open' = 0
      BY <1>1, <1>6
    <3>2. ASSUME NEW n \in Paired', IsA(n, "start") PROVE \E m \in Paired' : n < m /\ IsA(m, "end")
      <4>1. n \in Paired
        BY <1>2, <1>4, <3>2
      <4>2. PICK m \in Paired : n < m /\ IsA(m, "end")
        BY <1>2, <1>6, <3>2, <4>1 DEF OpenInv
      <4> QED
        BY <1>2, <4>2
    <3> QED
      BY <1>3, <3>1, <3>2 DEF OpenInv
  <2> QED
    BY <1>2, <2>1, <2>2, <2>3 DEF PairInv
<1>7. CASE open # 0
  <2>1. /\ open \in Paired /\ IsA(open, "start") /\ open \in DOMAIN src /\ open < p
        /\ \A n \in Paired : n > open => ~IsA(n, "end")
        /\ \A n \in 1 .. open - 1 : IsA(n, "start") => EndBetween(n, open)
    BY <1>2, <1>7 DEF OpenInv
  <2>2. ToSet(blocks') = ToSet(blocks) \cup {<<open, p>>}
    <3>1. <<open, p>> \in (DOMAIN src) \X (DOMAIN src) /\ blocks \in Seq((DOMAIN src) \X (DOMAIN src))
      BY <1>2, <2>1 DEF TypeInv
    <3>2. ToSet(Append(blocks, <<open, p>>)) = ToSet(blocks) \cup {<<open, p>>}
      BY <3>1, ToSetAppend
    <3>3. blocks' = Append(blocks, <<open, p>>)
      BY <1>1, <1>7
    <3> QED
      BY <3>2, <3>3
  <2>3. ~EndBetween(open, p)
    <3>1. ASSUME NEW n \in open + 1 .. p - 1, IsA(n, "end") PROVE FALSE
      <4>1. n \in DOMAIN src /\ n < p /\ n > open
        BY <1>2, <1>5, <2>1
      <4>2. n \in Paired
        BY <1>2, <1>4, <3>1, <4>1
      <4> QED
        BY <2>1, <3>1, <4>1, <4>2
    <3> QED
      BY <3>1 DEF EndBetween
  <2>4. <<open, p>> \in Marked
    BY <1>2, <2>1, <2>3 DEF Marked
  <2>5. ASSUME NEW b \in Marked, b[2] = p PROVE b = <<open, p>>
    <3>1. /\ b = <<b[1], b[2]>> /\ b[1] \in DOMAIN src /\ IsA(b[1], "start") /\ b[1] < p
          /\ ~EndBetween(b[1], p) /\ \A n \in 1 .. b[1] - 1 : IsA(n, "start") => EndBetween(n, b[1])
      BY <2>5 DEF Marked
    <3>2. b[1] \in Nat \ {0} /\ open \in Nat \ {0} /\ p \in Nat
      BY <1>2, <1>5, <2>1, <3>1
    <3>3. ~(b[1] < open)
      <4>1. ASSUME b[1] < open PROVE FALSE
        <5>1. b[1] \in 1 .. open - 1
          BY <3>2, <4>1
        <5>2. PICK m \in b[1] + 1 .. open - 1 : IsA(m, "end")
          BY <2>1, <3>1, <5>1 DEF EndBetween
        <5>3. m \in b[1] + 1 .. p - 1
          BY <2>1, <3>2, <5>2
        <5> QED
          BY <3>1, <5>2, <5>3 DEF EndBetween
      <4> QED
        BY <4>1
    <3>4. ~(open < b[1])
      <4>1. ASSUME open < b[1] PROVE FALSE
        <5>1. open \in 1 .. b[1] - 1
          BY <3>2, <4>1
        <5>2. PICK m \in open + 1 .. b[1] - 1 : IsA(m, "end")
          BY <2>1, <3>1, <5>1 DEF EndBetween
        <5>3. m \in open + 1 .. p - 1
          BY <3>1, <3>2, <5>2
        <5> QED
          BY <2>3, <5>2, <5>3 DEF EndBetween
      <4> QED
        BY <4>1
    <3> QED
      BY <2>5, <3>1, <3>2, <3>3, <3>4
  <2>6. BlockInv'
    <3>1. ASSUME NEW b PROVE b \in ToSet(blocks') <=> b \in Marked /\ b[2] \in Paired'
      <4>1. b \in ToSet(blocks) <=> b \in Marked /\ b[2] \in Paired
        BY <1>2 DEF BlockInv
      <4>2. <<open, p>>[2] = p
        OBVIOUS
      <4> QED
        BY <1>2, <2>2, <2>4, <2>5, <4>1, <4>2
    <3> QED
      BY <1>3, <3>1 DEF BlockInv
  <2>7. AnswerInv'
    <3>1. Borders' = Borders \cup {open, p} /\ ToSet(trusted)' = ToSet(trusted)
      <4>1. \A b : b = <<open, p>> => b[1] = open /\ b[2] = p
        OBVIOUS
      <4>2. Borders' = UNION {{b[1], b[2]} : b \in ToSet(blocks) \cup {<<open, p>>}}
        BY <2>2 DEF Borders
      <4>3. Borders' = Borders \cup {open, p}
        BY <4>1, <4>2 DEF Borders
      <4> QED
        BY <1>1, <4>3 DEF ToSet
    <3>2. \A n \in Paired : n \in Borders \cup ToSet(trusted) \cup reports \cup {open}
      BY <1>2 DEF AnswerInv
    <3> QED
      BY <1>1, <1>2, <3>1, <3>2 DEF AnswerInv
  <2>8. OpenInv'
    <3>1. open' = 0
      BY <1>1, <1>7
    <3>2. ASSUME NEW n \in Paired', IsA(n, "start") PROVE n < p
      BY <1>2, <1>4, <3>2
    <3> QED
      BY <1>2, <1>3, <3>1, <3>2 DEF OpenInv
  <2> QED
    BY <1>2, <2>6, <2>7, <2>8 DEF PairInv
<1> QED
  BY <1>6, <1>7

LEMMA PairPairTrust ==
  ASSUME TypeInv, PairInv, PairTrust, pc' # "raised"
  PROVE  PairInv'
<1> DEFINE p == pragmas[next]
<1>1. /\ Pairing("trust") /\ pc' = "pair" /\ reports \subseteq reports' /\ UNCHANGED <<open, blocks>>
      /\ \/ trusted' = Append(trusted, p)
         \/ p \in reports' /\ trusted' = trusted
  BY DEF PairTrust, Report, Pairing
<1>2. /\ ScanInv' /\ src' = src /\ ScanInv /\ AnswerInv /\ OpenInv /\ BlockInv
      /\ p \in DOMAIN src /\ p \in Nat \ {0} /\ IsA(p, "trust") /\ Paired' = Paired \cup {p}
      /\ \A n \in Paired : n \in DOMAIN src /\ n < p
  BY <1>1, PairOne
<1> HIDE DEF p
<1>3. /\ \A n, k : IsA(n, k)' <=> IsA(n, k)
      /\ \A a, b : EndBetween(a, b)' <=> EndBetween(a, b)
  BY <1>2, SameSource
<1>4. ~IsA(p, "end") /\ ~IsA(p, "start")
  BY <1>2, KindsOf
<1>5. BlockInv'
  BY <1>1, <1>2, <1>4, NoBlockEnds
<1>6. AnswerInv'
  <2>1. Borders' = Borders
    BY <1>1 DEF Borders, ToSet
  <2>2. ToSet(trusted) \subseteq ToSet(trusted') /\ p \in ToSet(trusted') \cup reports'
    <3>1. trusted \in Seq(DOMAIN src)
      BY DEF TypeInv
    <3>2. ToSet(Append(trusted, p)) = ToSet(trusted) \cup {p}
      BY <1>2, <3>1, ToSetAppend
    <3> QED
      BY <1>1, <3>2
  <2>3. \A n \in Paired : n \in Borders \cup ToSet(trusted) \cup reports \cup {open}
    BY <1>2 DEF AnswerInv
  <2>4. pc' = "pair" /\ open' = open /\ reports \subseteq reports'
    BY <1>1
  <2>5. \A n \in Paired' : n \in Borders' \cup ToSet(trusted') \cup reports' \cup {open'}
    BY <1>2, <2>1, <2>2, <2>3, <2>4
  <2> QED
    BY <2>4, <2>5 DEF AnswerInv
<1>7. OpenInv'
  BY <1>1, <1>2, <1>3, <1>4 DEF OpenInv
<1> QED
  BY <1>2, <1>5, <1>6, <1>7 DEF PairInv

LEMMA PairStep == TypeInv /\ PairInv /\ [Next]_vars => PairInv'
<1> SUFFICES ASSUME TypeInv, PairInv, [Next]_vars, pc' # "raised" PROVE PairInv'
  BY DEF PairInv
\* A step that pairs nothing.
<1>1. ASSUME pc # "raised", UNCHANGED <<src, pragmas, next, open, blocks, trusted>>, reports \subseteq reports',
             pc' = "scan" => pc = "scan",
             pc' \in {"rewrite", "splice", "done"} => next = Len(pragmas) + 1 /\ open \in reports' \cup {0}
      PROVE  PairInv'
  <2>1. ScanInv /\ AnswerInv /\ OpenInv /\ BlockInv
    BY <1>1 DEF PairInv
  <2>2. /\ \A n, k : IsA(n, k)' <=> IsA(n, k)
        /\ \A a, b : EndBetween(a, b)' <=> EndBetween(a, b)
        /\ Marked' = Marked
    BY <1>1, SameSource
  <2>3. Paired' = Paired /\ Borders' = Borders /\ ToSet(trusted)' = ToSet(trusted)
        /\ ToSet(blocks)' = ToSet(blocks) /\ ToSet(pragmas)' = ToSet(pragmas)
    BY <1>1 DEF Paired, Borders, ToSet
  <2>4. ScanInv'
    BY <1>1, <2>1, <2>3 DEF ScanInv
  <2>5. AnswerInv'
    BY <1>1, <2>1, <2>3 DEF AnswerInv
  <2>6. OpenInv'
    BY <1>1, <2>1, <2>2, <2>3 DEF OpenInv
  <2>7. BlockInv'
    BY <1>1, <2>1, <2>2, <2>3 DEF BlockInv
  <2> QED
    BY <2>4, <2>5, <2>6, <2>7 DEF PairInv
<1>2. ASSUME NEW k \in Kinds, ScanLine(k) \/ ScanRefuses(k) PROVE PairInv'
  BY <1>2, PairScanLine DEF ScanRefuses
<1>3. CASE ScanEnds
  BY <1>1, <1>3 DEF ScanEnds
<1>4. CASE PairingEnds
  <2>1. next = Len(pragmas) + 1
    <3>1. next \in 1 .. Len(pragmas) + 1 /\ Len(pragmas) \in Nat /\ next > Len(pragmas)
      BY <1>4 DEF PairingEnds, TypeInv
    <3> QED
      BY <3>1
  <2> QED
    BY <1>1, <1>4, <2>1 DEF PairingEnds
<1>5. ASSUME pc \in {"rewrite", "splice"} PROVE next = Len(pragmas) + 1 /\ open \in reports \cup {0}
  BY <1>5 DEF PairInv, ScanInv, AnswerInv
<1>6. CASE Rewrite
  BY <1>1, <1>5, <1>6 DEF Rewrite
<1>7. ASSUME NEW n \in left, Splice(n) PROVE PairInv'
  BY <1>1, <1>5, <1>7 DEF Splice
<1>8. CASE Rewritten
  BY <1>1, <1>5, <1>8 DEF Rewritten
<1>9. CASE UNCHANGED vars
  <2>1. UNCHANGED <<pc, src, pragmas, next, open, blocks, trusted, reports>>
    BY <1>9 DEF vars
  <2>2. pc \in {"rewrite", "splice", "done"} => next = Len(pragmas) + 1 /\ open \in reports \cup {0}
    BY <2>1 DEF PairInv, ScanInv, AnswerInv
  <2> QED
    BY <1>1, <2>1, <2>2
<1> QED
  BY <1>2, <1>3, <1>4, <1>6, <1>7, <1>8, <1>9, PairPairStart, PairPairEnd, PairPairTrust DEF Next, Over

\* No pragma is ignored without a word, whatever the clauses of the file mean.
THEOREM Answered == Spec => []EveryPragmaAnswered
<1>1. ASSUME TypeInv, PairInv, pc = "done", NEW n \in DOMAIN src, src[n] \in PragmaKinds
      PROVE  n \in Borders \cup ToSet(trusted) \cup reports
  <2>1. ScanInv /\ AnswerInv
    BY <1>1 DEF PairInv
  <2>2. CASE src[n] = "trailing"
    BY <2>1, <2>2 DEF ScanInv
  <2>3. CASE src[n] # "trailing"
    <3>1. n \in ToSet(pragmas)
      BY <1>1, <2>1, <2>3 DEF ScanInv, OwnLine
    <3>2. n \in Paired
      BY <1>1, <2>1, <3>1, AllPaired DEF ScanInv
    <3>3. n # 0
      BY <1>1, Lines DEF TypeInv
    <3> QED
      BY <1>1, <2>1, <3>2, <3>3 DEF AnswerInv
  <2> QED
    BY <2>2, <2>3
<1>2. TypeInv /\ PairInv => EveryPragmaAnswered
  BY <1>1 DEF EveryPragmaAnswered, Borders
<1> QED
  BY <1>2, TypeHolds, TypeStep, PairHolds, PairStep, PTL DEF Spec
-----------------------------------------------------------------------------
(***************************************************************************)
(* The lines of the rewritten module.  No line of the source holds a form  *)
(* feed in what follows: splitlines and the parser count the same lines.   *)
(***************************************************************************)
PageFree == \A n \in DOMAIN src : src[n] # "page"
\* What stands in the place of each line when the loops L are replaced.
Pieces(L) == [n \in DOMAIN src |-> IF n \in L THEN CallSite(n)
                ELSE IF \E m \in L : m < n /\ n <= EndLine(m) THEN <<>> ELSE <<n>>]

\* The loops are replaced from the last one up: those that are left begin
\* before those that are done, and end on lines that are where they were.
OutInv ==
  /\ pc \notin {"splice", "done"} => out = <<>>
  /\ pc = "done" => left = {}
  /\ pc \in {"splice", "done"} =>
       /\ left \subseteq MarkedLoops
       /\ \A m \in left, n \in MarkedLoops \ left : m < n
       /\ out \in Seq(Int)
       /\ \A n \in left : EndLine(n) <= Len(out)
       /\ PageFree => out = FlattenSeq(Pieces(MarkedLoops \ left))

LEMMA SameMarks ==
  ASSUME UNCHANGED <<input, src, trusted>>
  PROVE  /\ MarkedLoops' = MarkedLoops /\ PageFree' = PageFree
         /\ \A n : EndLine(n)' = EndLine(n) /\ \A L : Pieces(L)' = Pieces(L)
<1>1. Marked' = Marked /\ Statements' = Statements /\ \A n : EndLine(n)' = EndLine(n)
  BY SameSource
<1>2. \A n : HeadOf(n)' = HeadOf(n)
  BY <1>1 DEF HeadOf
<1>3. \A b : Inside(b)' = Inside(b)
  BY <1>1 DEF Inside
<1>4. \A b : TopOf(b)' = TopOf(b)
  BY <1>2, <1>3 DEF TopOf
<1>5. \A b : LoopOf(b)' = LoopOf(b) /\ (HasOneLoop(b)' <=> HasOneLoop(b))
  BY <1>4 DEF LoopOf, HasOneLoop
<1>6. \A b : Analysed(b)' <=> Analysed(b)
  BY <1>5 DEF Analysed
<1>7. TrustedDefs' = TrustedDefs
  BY <1>1 DEF TrustedDefs
<1>8. \A k : Text(k)' = Text(k)
  BY DEF Text
<1>9. Ambiguous' <=> Ambiguous
  BY <1>7, <1>8 DEF Ambiguous
<1>10. \A b : Calls(b)' <=> Calls(b)
  BY <1>5, <1>7 DEF Calls
<1>11. \A b : Oversteps(b)' <=> Oversteps(b)
  BY <1>5, <1>7, <1>8, <1>10 DEF Oversteps, FirstTrust
<1>12. \A b : Dropped(b)' <=> Dropped(b)
  BY <1>9, <1>10, <1>11 DEF Dropped
<1>13. MarkedLoops' = MarkedLoops
  BY <1>1, <1>5, <1>6, <1>12 DEF MarkedLoops
<1>14. PageFree' = PageFree /\ \A L : Pieces(L)' = Pieces(L)
  BY <1>1 DEF PageFree, Pieces, CallSite
<1> QED
  BY <1>1, <1>13, <1>14

LEMMA PiecesType ==
  ASSUME src \in Seq(Kinds), NEW L
  PROVE  /\ Pieces(L) \in Seq(Seq(Int)) /\ Len(Pieces(L)) = Len(src)
         /\ \A k \in 1 .. Len(src) :
              Pieces(L)[k] = IF k \in L THEN CallSite(k)
                             ELSE IF \E m \in L : m < k /\ k <= EndLine(m) THEN <<>> ELSE <<k>>
<1>1. Len(src) \in Nat /\ DOMAIN src = 1 .. Len(src)
  OBVIOUS
<1> DEFINE Piece(k) == IF k \in L THEN CallSite(k)
                       ELSE IF \E m \in L : m < k /\ k <= EndLine(m) THEN <<>> ELSE <<k>>
<1>2. \A k \in 1 .. Len(src) : Piece(k) \in Seq(Int)
  <2>1. \A k \in Int : <<k>> \in Seq(Int) /\ <<-k, -k>> \in Seq(Int) /\ <<>> \in Seq(Int)
    OBVIOUS
  <2> QED
    BY <1>1, <2>1 DEF CallSite
<1>3. Pieces(L) = [k \in 1 .. Len(src) |-> Piece(k)]
  BY <1>1 DEF Pieces
<1> HIDE DEF Piece
<1>4. /\ DOMAIN Pieces(L) = 1 .. Len(src) /\ \A k \in 1 .. Len(src) : Pieces(L)[k] = Piece(k)
      /\ Pieces(L) \in [1 .. Len(src) -> Seq(Int)]
  BY <1>2, <1>3
<1>5. Pieces(L) \in Seq(Seq(Int))
  BY <1>1, <1>4, SeqDef
<1>6. Len(Pieces(L)) = Len(src)
  BY <1>1, <1>4, <1>5, LenProperties
<1> QED
  BY <1>4, <1>5, <1>6 DEF Piece

\* Before any loop is replaced the module is its lines.
LEMMA Unspliced ==
  ASSUME src \in Seq(Kinds)
  PROVE  /\ SplitLines \in Seq(Int) /\ Len(SplitLines) >= Len(src)
         /\ PageFree => SplitLines = FlattenSeq(Pieces({}))
<1> DEFINE P == [n \in DOMAIN src |-> IF src[n] = "page" THEN <<n, n>> ELSE <<n>>]
<1>1. Len(src) \in Nat /\ DOMAIN src = 1 .. Len(src)
  OBVIOUS
<1>2. P \in [1 .. Len(src) -> Seq(Int)] /\ \A k \in 1 .. Len(src) : Len(P[k]) >= 1
  <2>1. \A n \in Int : /\ <<n, n>> \in Seq(Int) /\ Len(<<n, n>>) = 2
                       /\ <<n>> \in Seq(Int) /\ Len(<<n>>) = 1
    OBVIOUS
  <2> QED
    BY <1>1, <2>1
<1>3. SplitLines = FlattenSeq(P)
  BY DEF SplitLines
<1>4. PageFree => P = Pieces({})
  BY DEF PageFree, Pieces
<1> HIDE DEF P
<1>5. P \in Seq(Seq(Int)) /\ Len(P) = Len(src)
  <2>1. P \in Seq(Seq(Int))
    BY <1>1, <1>2, SeqDef
  <2> QED
    BY <1>1, <1>2, <2>1, LenProperties
<1>6. FlattenSeq(P) \in Seq(Int) /\ Len(FlattenSeq(P)) >= Len(P)
  BY <1>2, <1>5, FlattenLength
<1> QED
  BY <1>3, <1>4, <1>5, <1>6
\* The lines between, for a loop that makes way before any above it.
LEMMA NextPiece ==
  ASSUME src \in Seq(Kinds), NEW L \in SUBSET MarkedLoops, NEW n \in MarkedLoops \ L,
         \A m \in L : n < m
  PROVE  /\ LinesTo(Pieces(L), EndLine(n))
         /\ Swapped(Pieces(L), Pieces(L \cup {n}), Len(src), n, EndLine(n), CallSite(n))
<1>1. /\ n \in 1 .. Len(src) /\ EndLine(n) \in n .. Len(src) /\ Len(src) \in Nat
      /\ n \in Nat \ {0} /\ EndLine(n) \in Nat
  <2>1. n \in DOMAIN src /\ EndLine(n) \in DOMAIN src /\ n <= EndLine(n)
    BY LoopsApart
  <2> QED
    BY <2>1
<1>2. \A m \in L : m \in Nat /\ EndLine(n) < m
  <2> SUFFICES ASSUME NEW m \in L PROVE m \in Nat /\ EndLine(n) < m
    OBVIOUS
  <2>1. m \in MarkedLoops /\ n \in MarkedLoops /\ n < m
    OBVIOUS
  <2>2. m \in DOMAIN src
    BY <2>1, LoopsApart
  <2> QED
    BY <2>1, <2>2, LoopsApart, Lines
<1> DEFINE K == L \cup {n}
           p == Pieces(L)
           q == Pieces(K)
<1>3. /\ \A k \in 1 .. Len(src) : p[k] = IF k \in L THEN CallSite(k)
                                         ELSE IF \E m \in L : m < k /\ k <= EndLine(m) THEN <<>> ELSE <<k>>
      /\ \A k \in 1 .. Len(src) : q[k] = IF k \in K THEN CallSite(k)
                                         ELSE IF \E m \in K : m < k /\ k <= EndLine(m) THEN <<>> ELSE <<k>>
  <2> HIDE DEF K
  <2> QED
    BY PiecesType
<1> HIDE DEF p, q
<1>4. ASSUME NEW k \in 1 .. EndLine(n) PROVE p[k] = <<k>> /\ k \in 1 .. Len(src) /\ k \in Nat /\ k \notin L
  <2>1. k \in 1 .. Len(src) /\ k \in Nat /\ k <= EndLine(n)
    BY <1>1
  <2>2. \A m \in L : k < m
    BY <1>1, <1>2, <2>1
  <2>3. \A m \in L : ~(m < k) /\ m # k
    BY <1>2, <2>1, <2>2
  <2> QED
    BY <1>3, <2>1, <2>3
<1>5. ASSUME NEW k \in 1 .. n - 1 PROVE q[k] = <<k>>
  <2>1. k \in 1 .. EndLine(n) /\ k \in 1 .. Len(src) /\ k < n
    BY <1>1
  <2>2. k \notin K /\ \A m \in K : ~(m < k)
    <3>1. \A m \in L : ~(m < k)
      BY <1>1, <1>2, <2>1
    <3>2. ~(n < k) /\ k # n
      BY <1>1, <2>1
    <3> QED
      BY <1>4, <2>1, <3>1, <3>2
  <2> QED
    BY <1>3, <2>1, <2>2
<1>6. q[n] = CallSite(n)
  BY <1>1, <1>3
<1>7. ASSUME NEW k \in n + 1 .. EndLine(n) PROVE q[k] = <<>>
  <2>1. k \in 1 .. EndLine(n) /\ k \in 1 .. Len(src) /\ n < k /\ k # n /\ k <= EndLine(n)
    BY <1>1
  <2>2. k \notin K /\ n \in K
    BY <1>4, <2>1
  <2> QED
    BY <1>3, <2>1, <2>2
<1>8. ASSUME NEW k \in EndLine(n) + 1 .. Len(src) PROVE q[k] = p[k]
  <2>1. k \in 1 .. Len(src) /\ k # n /\ ~(k <= EndLine(n))
    BY <1>1
  <2>2. (k \in K <=> k \in L) /\ ((\E m \in K : m < k /\ k <= EndLine(m)) <=> \E m \in L : m < k /\ k <= EndLine(m))
    BY <2>1
  <2> HIDE DEF K
  <2> QED
    BY <1>3, <2>1, <2>2
<1>9. LinesTo(p, EndLine(n))
  BY <1>4 DEF LinesTo
<1>10. Swapped(p, q, Len(src), n, EndLine(n), CallSite(n))
  BY <1>5, <1>6, <1>7, <1>8 DEF Swapped
<1> QED
  BY <1>9, <1>10 DEF p, q

LEMMA OutHolds == Init => OutInv
BY DEF Init, OutInv

LEMMA OutRewrite ==
  ASSUME TypeInv, PairInv, OutInv, Rewrite
  PROVE  OutInv'
<1>1. /\ pc = "rewrite" /\ UNCHANGED <<input, src, trusted>>
      /\ \/ pc' = "raised" /\ UNCHANGED <<out, left>>
         \/ pc' = "splice" /\ out' = SplitLines /\ left' = {LoopOf(b) : b \in Replaced}
  BY DEF Rewrite
<1>2. CASE pc' = "raised" /\ UNCHANGED <<out, left>>
  BY <1>1, <1>2 DEF OutInv
<1>3. CASE pc' = "splice" /\ out' = SplitLines /\ left' = {LoopOf(b) : b \in Replaced}
  <2>1. ToSet(blocks) = Marked
    BY <1>1, AllPaired DEF PairInv, ScanInv
  <2>2. left' = MarkedLoops
    BY <1>3, <2>1 DEF MarkedLoops, Replaced
  <2>3. src \in Seq(Kinds) /\ Len(src) \in Nat
    BY DEF TypeInv
  <2>4. SplitLines \in Seq(Int) /\ Len(SplitLines) >= Len(src) /\ Len(SplitLines) \in Nat
    BY <2>3, Unspliced
  <2>5. ASSUME NEW n \in MarkedLoops PROVE EndLine(n) <= Len(SplitLines)
    <3>1. EndLine(n) \in DOMAIN src
      BY <2>3, LoopsApart
    <3> QED
      BY <2>3, <2>4, <3>1
  <2>6. PageFree => SplitLines = FlattenSeq(Pieces(MarkedLoops \ MarkedLoops))
    <3>1. MarkedLoops \ MarkedLoops = {}
      OBVIOUS
    <3>2. PageFree => SplitLines = FlattenSeq(Pieces({}))
      BY <2>3, Unspliced
    <3> QED
      BY <3>1, <3>2, Zenon
  <2>7. /\ MarkedLoops' = MarkedLoops /\ PageFree' = PageFree
        /\ \A n : EndLine(n)' = EndLine(n) /\ \A L : Pieces(L)' = Pieces(L)
    BY <1>1, SameMarks
  <2>8. PageFree' => out' = FlattenSeq(Pieces(MarkedLoops \ left))'
    <3>1. FlattenSeq(Pieces(MarkedLoops \ left))' = FlattenSeq(Pieces(MarkedLoops \ MarkedLoops))
      BY <2>2, <2>7 DEF Pieces, CallSite
    <3> QED
      BY <1>3, <2>6, <2>7, <3>1, Zenon
  <2> QED
    BY <1>3, <2>2, <2>4, <2>5, <2>7, <2>8 DEF OutInv
<1> QED
  BY <1>1, <1>2, <1>3
\* One loop makes way: the lines of those that are left stay where they are.
LEMMA OutSplice ==
  ASSUME TypeInv, OutInv, NEW n \in left, Splice(n)
  PROVE  OutInv'
<1> DEFINE L == MarkedLoops \ left
           N == Len(src)
           e == EndLine(n)
           c == CallSite(n)
<1>1. /\ pc = "splice" /\ pc' = "splice" /\ UNCHANGED <<input, src, trusted>>
      /\ left' = left \ {n} /\ \A m \in left : m <= n
      /\ out' = Spliced(out, n, e, c)
  BY DEF Splice, Later, Spliced
<1>2. /\ src \in Seq(Kinds) /\ left \subseteq MarkedLoops /\ out \in Seq(Int) /\ e <= Len(out)
      /\ \A m \in left, k \in L : m < k
      /\ \A m \in left : EndLine(m) <= Len(out)
      /\ PageFree => out = FlattenSeq(Pieces(L))
  BY <1>1 DEF TypeInv, OutInv
<1>3. /\ N \in Nat /\ n \in 1 .. N /\ e \in n .. N /\ e \in Nat /\ n \in Nat \ {0} /\ n - 1 \in Nat
      /\ n - 1 <= e /\ Len(out) \in Nat /\ n - 1 \in 0 .. Len(out) /\ e \in 0 .. Len(out)
  <2>1. n \in DOMAIN src /\ e \in DOMAIN src /\ n <= e
    BY <1>2, LoopsApart
  <2> QED
    BY <1>2, <2>1
<1>4. /\ MarkedLoops' = MarkedLoops /\ PageFree' = PageFree
      /\ \A k : EndLine(k)' = EndLine(k) /\ \A S : Pieces(S)' = Pieces(S)
  BY <1>1, SameMarks
<1>5. MarkedLoops \ left' = L \cup {n}
  BY <1>1, <1>2
<1>6. c \in Seq(Int) /\ c = <<-n, -n>>
  BY <1>3 DEF CallSite
\* The lines themselves, and how many.
<1>7. out' \in Seq(Int) /\ Len(out') \in Nat /\ Len(out') >= n - 1
  <2> DEFINE d == n - 1
             a == SubSeq(out, 1, d)
             u == SubSeq(out, e + 1, Len(out))
  <2>1. d \in 0 .. Len(out)
    BY <1>3
  <2> HIDE DEF d
  <2>2. a \in Seq(Int) /\ Len(a) = d
    BY <1>2, <2>1, SubSeqFront
  <2>3. u \in Seq(Int)
    BY <1>2, <1>3, SubSeqGrows, Zenon
  <2> HIDE DEF a, u, c, e
  <2>4. a \o c \in Seq(Int) /\ Len(a \o c) = Len(a) + Len(c) /\ Len(c) \in Nat
    BY <1>6, <2>2
  <2>5. (a \o c) \o u \in Seq(Int) /\ Len((a \o c) \o u) = Len(a \o c) + Len(u) /\ Len(u) \in Nat
    <3> DEFINE b == a \o c
    <3>1. b \in Seq(Int)
      BY <2>4
    <3> HIDE DEF b
    <3>2. b \o u \in Seq(Int) /\ Len(b \o u) = Len(b) + Len(u) /\ Len(u) \in Nat
      BY <2>3, <3>1
    <3> QED
      BY <3>2 DEF b
  <2>6. out' = (a \o c) \o u
    BY <1>1, Zenon DEF Spliced, a, u, d
  <2>7. Len(out') = (d + Len(c)) + Len(u)
    BY <2>2, <2>4, <2>5, <2>6, Zenon
  <2>8. d \in Nat
    BY <1>3 DEF d
  <2>9. (d + Len(c)) + Len(u) >= d /\ (d + Len(c)) + Len(u) \in Nat
    BY <2>4, <2>5, <2>8
  <2>10. out' \in Seq(Int) /\ Len(out') \in Nat /\ Len(out') >= d
    BY <2>5, <2>6, <2>7, <2>9, Zenon
  <2> QED
    BY <2>10 DEF d
<1>8. ASSUME NEW m \in left' PROVE EndLine(m) <= Len(out')
  <2>1. m \in MarkedLoops /\ n \in MarkedLoops /\ m <= n /\ m # n
    BY <1>1, <1>2
  <2>2. m \in DOMAIN src /\ EndLine(m) \in DOMAIN src
    BY <1>2, <2>1, LoopsApart
  <2>3. m \in Nat /\ EndLine(m) \in Nat
    BY <1>2, <2>2, Lines
  <2>4. m < n
    BY <1>3, <2>1, <2>3
  <2>5. EndLine(m) < n
    BY <1>2, <2>1, <2>4, LoopsApart
  <2> QED
    BY <1>3, <1>7, <2>3, <2>5
<1>9. ASSUME NEW m \in left', NEW k \in MarkedLoops \ left' PROVE m < k
  <2>1. m \in left /\ m # n /\ m <= n
    BY <1>1
  <2>2. m \in Nat
    BY <1>2, <2>1, LoopsApart, Lines
  <2>3. CASE k = n
    BY <1>3, <2>1, <2>2, <2>3
  <2>4. CASE k # n
    BY <1>2, <1>5, <2>1, <2>4
  <2> QED
    BY <2>3, <2>4
<1>10. ASSUME PageFree PROVE out' = FlattenSeq(Pieces(L \cup {n}))
  <2> DEFINE p == Pieces(L)
             q == Pieces(L \cup {n})
  <2>1. LinesTo(p, e) /\ Swapped(p, q, N, n, e, c)
    <3>1. L \in SUBSET MarkedLoops /\ n \in MarkedLoops \ L /\ \A m \in L : n < m
      BY <1>2
    <3> HIDE DEF L
    <3> QED
      BY <1>2, <3>1, NextPiece
  <2>2. p \in Seq(Seq(Int)) /\ Len(p) = N /\ q \in Seq(Seq(Int)) /\ Len(q) = N
    BY <1>2, PiecesType
  <2> HIDE DEF p, q, e, c, N
  <2>3. FlattenSeq(q) = Spliced(FlattenSeq(p), n, e, c)
    <3>1. N \in Nat /\ n \in 1 .. N /\ e \in n .. N /\ c \in Seq(Int)
      BY <1>3, <1>6
    <3> QED
      BY <2>1, <2>2, <3>1, SpliceFlat
  <2>4. out = FlattenSeq(p)
    BY <1>2, <1>10 DEF p
  <2>5. out' = FlattenSeq(q)
    BY <1>1, <2>3, <2>4, Zenon
  <2> QED
    BY <2>5 DEF q
<1>11. PageFree' => out' = FlattenSeq(Pieces(MarkedLoops \ left))'
  <2>1. FlattenSeq(Pieces(MarkedLoops \ left))' = FlattenSeq(Pieces(L \cup {n}))
    <3>1. (MarkedLoops \ left)' = L \cup {n}
      BY <1>4, <1>5
    <3> HIDE DEF L
    <3> QED
      BY <1>4, <3>1 DEF Pieces, CallSite
  <2> QED
    BY <1>4, <1>10, <2>1, Zenon
<1>12. left' \subseteq MarkedLoops'
  BY <1>1, <1>2, <1>4
<1> QED
  BY <1>1, <1>4, <1>7, <1>8, <1>9, <1>11, <1>12 DEF OutInv

LEMMA OutStep == TypeInv /\ PairInv /\ OutInv /\ [Next]_vars => OutInv'
<1> SUFFICES ASSUME TypeInv, PairInv, OutInv, [Next]_vars PROVE OutInv'
  OBVIOUS
\* Before the loops are replaced there are no lines.
<1>1. ASSUME pc \in {"scan", "pair"}, pc' \in {"scan", "pair", "rewrite", "raised"}, UNCHANGED out
      PROVE  OutInv'
  BY <1>1 DEF OutInv
<1>2. ASSUME NEW k \in Kinds, ScanLine(k) \/ ScanRefuses(k) PROVE OutInv'
  BY <1>1, <1>2 DEF ScanLine, ScanRefuses, Reaches
<1>3. CASE ScanEnds \/ PairStart \/ PairEnd \/ PairTrust \/ PairingEnds
  BY <1>1, <1>3 DEF ScanEnds, PairStart, PairEnd, PairTrust, PairingEnds, Pairing, Report
<1>4. ASSUME UNCHANGED <<input, src, trusted, out, left>>, pc' = pc \/ (pc = "splice" /\ pc' = "done" /\ left = {})
      PROVE  OutInv'
  <2>1. /\ MarkedLoops' = MarkedLoops /\ PageFree' = PageFree
        /\ \A n : EndLine(n)' = EndLine(n) /\ \A L : Pieces(L)' = Pieces(L)
    BY <1>4, SameMarks
  <2>2. FlattenSeq(Pieces(MarkedLoops \ left))' = FlattenSeq(Pieces(MarkedLoops \ left))
    BY <1>4, <2>1 DEF Pieces, CallSite
  <2> QED
    BY <1>4, <2>1, <2>2 DEF OutInv
<1>5. CASE Rewritten
  BY <1>4, <1>5 DEF Rewritten
<1>6. CASE UNCHANGED vars
  BY <1>4, <1>6 DEF vars
<1> QED
  BY <1>2, <1>3, <1>5, <1>6, OutRewrite, OutSplice DEF Next, Over

\* The rewritten module is the source with a call in the place of the loop of
\* each marked block and nothing else moved, for every file whose lines
\* splitlines counts as the parser does, and whatever its clauses mean.
THEOREM OnlyLoopsGo == Spec => [](PageFree => OnlyMarkedLoopsGo)
<1>1. ASSUME TypeInv, OutInv, PageFree, pc = "done" PROVE out = FlattenSeq(Pieces(MarkedLoops))
  <2>1. left = {} /\ out = FlattenSeq(Pieces(MarkedLoops \ left))
    BY <1>1 DEF OutInv
  <2>2. MarkedLoops \ left = MarkedLoops
    BY <2>1
  <2> QED
    BY <2>1, <2>2, Zenon
<1>2. TypeInv /\ OutInv => (PageFree => OnlyMarkedLoopsGo)
  <2> SUFFICES ASSUME TypeInv, OutInv, PageFree, pc = "done"
               PROVE  OnlyMarkedLoopsGo
    BY DEF OnlyMarkedLoopsGo
  <2>1. Pieces(MarkedLoops) =
          [n \in DOMAIN src |->
            IF n \in MarkedLoops THEN CallSite(n)
            ELSE IF \E m \in MarkedLoops : m < n /\ n <= EndLine(m) THEN <<>>
            ELSE IF src[n] = "page" THEN <<n, n>> ELSE <<n>>]
    BY DEF PageFree, Pieces
  <2> QED
    BY <1>1, <2>1, Zenon DEF OnlyMarkedLoopsGo
<1> QED
  BY <1>2, TypeHolds, TypeStep, PairHolds, PairStep, OutHolds, OutStep, PTL DEF Spec

\* Every variable keeps its type.
THEOREM TypeCorrect == Spec => []TypeOK
<1>1. TypeInv /\ OutInv => TypeOK
  <2> SUFFICES ASSUME TypeInv, OutInv PROVE TypeOK
    OBVIOUS
  <2>1. out \in Seq(Int)
    <3>1. <<>> \in Seq(Int)
      OBVIOUS
    <3> QED
      BY <3>1 DEF OutInv
  <2> QED
    BY <2>1 DEF TypeInv, TypeOK
<1> QED
  BY <1>1, TypeHolds, TypeStep, PairHolds, PairStep, OutHolds, OutStep, PTL DEF Spec

-----------------------------------------------------------------------------
(* The readings of a text *)

\* A text is a sequence of these: what the lexer makes of one, and what the
\* texts that Pragmas names hold.
Tokens == STRING \cup Syms \cup {"qualname", "m.f", "args", "unchecked"}

\* What a form needs of the others is lower, or further on and so lower too.
Level == [primary |-> 0, items |-> 1, value |-> 2, args |-> 3, clauses |-> 4]
Height(ts, p) == 5 * (Len(ts) + 1 - p[2]) + Level[p[1]]
Moves(n, got) == got.next \in Nat /\ (got.next = 0 \/ got.next > n)
SameAt(r, s, form, n) == r[<<form, n>>] = s[<<form, n>>] /\ Moves(n, r[<<form, n>>])
SameAfter(ts, r, s, n) == \A form \in Forms : \A m \in n + 1 .. Len(ts) + 1 : SameAt(r, s, form, m)

\* A place of the text that holds a token.
LEMMA AtToken ==
  \A ts \in Seq(Tokens) : \A n \in Int :
    At(ts, n) # "no-token" => n \in 1 .. Len(ts) /\ At(ts, n) = ts[n] /\ ts[n] \in Tokens
<1> SUFFICES ASSUME NEW ts \in Seq(Tokens), NEW n \in Int, At(ts, n) # "no-token"
             PROVE  n \in 1 .. Len(ts) /\ At(ts, n) = ts[n] /\ ts[n] \in Tokens
  OBVIOUS
<1>1. DOMAIN ts = 1 .. Len(ts) /\ \A i \in 1 .. Len(ts) : ts[i] \in Tokens
  OBVIOUS
<1>2. n \in DOMAIN ts /\ At(ts, n) = ts[n]
  BY Zenon DEF At
<1> QED
  BY <1>1, <1>2

\* A token is followed by a place where more may be read.
LEMMA AfterToken ==
  \A ts \in Seq(Tokens) : \A n, k \in Nat :
    At(ts, k) # "no-token" /\ k >= n => k \in 1 .. Len(ts) /\ k + 1 \in n + 1 .. Len(ts) + 1
<1> SUFFICES ASSUME NEW ts \in Seq(Tokens), NEW n \in Nat, NEW k \in Nat, At(ts, k) # "no-token", k >= n
             PROVE  k \in 1 .. Len(ts) /\ k + 1 \in n + 1 .. Len(ts) + 1
  OBVIOUS
<1>1. k \in 1 .. Len(ts) /\ Len(ts) \in Nat
  BY AtToken
<1> QED
  BY <1>1

\* The two parts of what is read.
LEMMA GotHas == \A v, n : Got(v, n).value = v /\ Got(v, n).next = n
BY DEF Got

\* The comma is no other symbol, and the symbols are tokens.
LEMMA CommaIs ==
  /\ Comma # "no-token" /\ Comma # "=" /\ Comma # "(" /\ Comma # ")" /\ Comma # "[" /\ Comma # "]"
  /\ Comma \in Tokens /\ "=" \in Tokens /\ "(" \in Tokens /\ ")" \in Tokens /\ "[" \in Tokens /\ "]" \in Tokens
<1>1. Comma # "no-token" /\ Comma # "=" /\ Comma # "(" /\ Comma # ")" /\ Comma # "[" /\ Comma # "]"
  BY Zenon DEF Comma
<1>2. /\ Comma \in Tokens /\ "=" \in Tokens /\ "(" \in Tokens /\ ")" \in Tokens
      /\ "[" \in Tokens /\ "]" \in Tokens
  BY DEF Tokens, Syms
<1> QED
  BY <1>1, <1>2

\* Each form reads the same from readings that agree on what it needs, and never
\* turns back.
LEMMA OthersAgree ==
  ASSUME NEW ts \in Seq(Tokens), NEW r, NEW s, NEW n \in 1 .. Len(ts) + 1, SameAfter(ts, r, s, n),
         NEW form \in {"items", "args", "clauses"}, NEW k \in Nat, k = 0 \/ k >= n
  PROVE  Others(ts, r, form, k) = Others(ts, s, form, k) /\ Moves(n, Others(ts, r, form, k))
<1>0. \A v : \A m \in Nat : m = 0 \/ m > n => Moves(n, Got(v, m))
  BY DEF Moves, Got
<1>1. CASE k = 0 \/ (~Closes(ts, form, k) /\ At(ts, k) # Comma)
  <2>1. Others(ts, r, form, k) = Refusal /\ Others(ts, s, form, k) = Refusal
    BY <1>1, Zenon DEF Others
  <2> QED
    BY <1>0, <2>1 DEF Refusal
<1>2. CASE k # 0 /\ Closes(ts, form, k)
  <2>1. /\ Others(ts, r, form, k) = Got(None[form], k + 1)
        /\ Others(ts, s, form, k) = Got(None[form], k + 1)
    BY <1>2, Zenon DEF Others
  <2> QED
    BY <1>0, <1>2, <2>1
<1>3. CASE k # 0 /\ ~Closes(ts, form, k) /\ At(ts, k) = Comma
  <2>0. At(ts, k) # "no-token" /\ n \in Nat /\ k >= n
    BY <1>3, CommaIs
  <2>1. k + 1 \in n + 1 .. Len(ts) + 1 /\ form \in Forms
    BY <1>3, <2>0, AfterToken DEF Forms
  <2>2. SameAt(r, s, form, k + 1)
    BY <2>1 DEF SameAfter
  <2>3. Others(ts, r, form, k) = r[<<form, k + 1>>] /\ Others(ts, s, form, k) = s[<<form, k + 1>>]
    BY <1>3, Zenon DEF Others
  <2>4. \A got : Moves(k + 1, got) => Moves(n, got)
    BY <2>0 DEF Moves
  <2> QED
    BY <2>2, <2>3, <2>4, Zenon DEF SameAt
<1> QED
  BY <1>1, <1>2, <1>3

LEMMA PrimaryAgree ==
  ASSUME NEW ts \in Seq(Tokens), NEW r, NEW s, NEW n \in 1 .. Len(ts) + 1, SameAfter(ts, r, s, n)
  PROVE  Primary(ts, r, n) = Primary(ts, s, n) /\ Moves(n, Primary(ts, r, n))
<1>1. CASE At(ts, n) # "["
  BY <1>1 DEF Primary, Refusal, Moves, Got
<1>2. CASE At(ts, n) = "[" /\ At(ts, n + 1) = "]"
  BY <1>2 DEF Primary, Refusal, Moves, Got, Syms
<1>3. CASE At(ts, n) = "[" /\ At(ts, n + 1) # "]"
  <2>0. At(ts, n) # "no-token" /\ n \in Nat
    BY <1>3
  <2>1. n + 1 \in n + 1 .. Len(ts) + 1 /\ "items" \in Forms
    BY <2>0, AfterToken DEF Forms
  <2>2. SameAt(r, s, "items", n + 1)
    BY <2>1 DEF SameAfter
  <2>3. /\ Primary(ts, r, n) = IF r[<<"items", n + 1>>].next = 0 THEN Refusal
                               ELSE Got(List(r[<<"items", n + 1>>].value), r[<<"items", n + 1>>].next)
        /\ Primary(ts, s, n) = IF s[<<"items", n + 1>>].next = 0 THEN Refusal
                               ELSE Got(List(s[<<"items", n + 1>>].value), s[<<"items", n + 1>>].next)
    BY <1>3 DEF Primary, Syms
  <2> QED
    BY <2>2, <2>3 DEF SameAt, Moves, Refusal, Got
<1> QED
  BY <1>1, <1>2, <1>3

LEMMA ItemsAgree ==
  ASSUME NEW ts \in Seq(Tokens), NEW r, NEW s, NEW n \in 1 .. Len(ts) + 1, SameAfter(ts, r, s, n),
         SameAt(r, s, "primary", n)
  PROVE  Items(ts, r, n) = Items(ts, s, n) /\ Moves(n, Items(ts, r, n))
<1> DEFINE k == r[<<"primary", n>>].next
<1>1. k \in Nat /\ (k = 0 \/ k >= n) /\ s[<<"primary", n>>] = r[<<"primary", n>>]
  BY DEF SameAt, Moves
<1>2. Others(ts, r, "items", k) = Others(ts, s, "items", k) /\ Moves(n, Others(ts, r, "items", k))
  <2> HIDE DEF k
  <2> QED
    BY <1>1, OthersAgree
<1>3. Items(ts, r, n) = Items(ts, s, n)
  BY <1>1, <1>2, Zenon DEF Items
<1>4. Items(ts, r, n) = IF Others(ts, r, "items", k).next = 0 THEN Refusal
                        ELSE Got(<<r[<<"primary", n>>].value>> \o Others(ts, r, "items", k).value,
                                 Others(ts, r, "items", k).next)
  BY Zenon DEF Items
<1> HIDE DEF k
<1> QED
  BY <1>2, <1>3, <1>4 DEF Moves, Refusal, Got

LEMMA ValueAgree ==
  ASSUME NEW ts \in Seq(Tokens), NEW r, NEW s, NEW n \in 1 .. Len(ts) + 1, SameAfter(ts, r, s, n),
         SameAt(r, s, "primary", n)
  PROVE  Value(ts, r, n) = Value(ts, s, n) /\ Moves(n, Value(ts, r, n))
<1> DEFINE b == r[<<"primary", n>>]
           parts == r[<<"args", b.next + 1>>]
<1>1. b.next \in Nat /\ (b.next = 0 \/ b.next > n) /\ s[<<"primary", n>>] = b
  BY DEF SameAt, Moves
<1>2. CASE b.next = 0 \/ At(ts, b.next) # "("
  <2>1. Value(ts, r, n) = b /\ Value(ts, s, n) = b
    BY <1>1, <1>2, Zenon DEF Value
  <2> QED
    BY <1>1, <2>1 DEF Moves
<1>3. CASE b.next # 0 /\ At(ts, b.next) = "(" /\ At(ts, b.next + 1) = ")"
  <2>1. /\ Value(ts, r, n) = Got(Call(b.value, <<>>, <<>>), b.next + 2)
        /\ Value(ts, s, n) = Got(Call(b.value, <<>>, <<>>), b.next + 2)
    BY <1>1, <1>3, Zenon DEF Value
  <2> HIDE DEF b
  <2> QED
    BY <1>1, <1>3, <2>1 DEF Moves, Got
<1>4. CASE b.next # 0 /\ At(ts, b.next) = "(" /\ At(ts, b.next + 1) # ")"
  <2>0. At(ts, b.next) # "no-token" /\ n \in Nat /\ b.next \in Nat /\ b.next >= n
    BY <1>1, <1>4
  <2>1. b.next + 1 \in n + 1 .. Len(ts) + 1 /\ "args" \in Forms
    <3> HIDE DEF b
    <3> QED
      BY <2>0, AfterToken DEF Forms
  <2>2. SameAt(r, s, "args", b.next + 1)
    BY <2>1 DEF SameAfter
  <2>3. s[<<"args", b.next + 1>>] = parts /\ parts.next \in Nat
        /\ (parts.next = 0 \/ parts.next > n)
    BY <1>1, <2>1, <2>2 DEF SameAt, Moves
  <2>4. /\ Value(ts, r, n) = IF parts.next = 0 THEN Refusal
                             ELSE Got(Call(b.value, parts.value.args, parts.value.kwargs), parts.next)
        /\ Value(ts, s, n) = Value(ts, r, n)
    BY <1>1, <1>4, <2>3, Zenon DEF Value
  <2> HIDE DEF parts
  <2> QED
    BY <2>3, <2>4 DEF Moves, Refusal, Got
<1> QED
  BY <1>2, <1>3, <1>4

LEMMA ArgsAgree ==
  ASSUME NEW ts \in Seq(Tokens), NEW r, NEW s, NEW n \in 1 .. Len(ts) + 1, SameAfter(ts, r, s, n),
         SameAt(r, s, "value", n)
  PROVE  Args(ts, r, n) = Args(ts, s, n) /\ Moves(n, Args(ts, r, n))
<1> DEFINE named == IsIdent(At(ts, n)) /\ At(ts, n + 1) = "="
           m == IF named THEN n + 2 ELSE n
           part == r[<<"value", m>>]
           others == Others(ts, r, "args", part.next)
<1>1. s[<<"value", m>>] = part /\ part.next \in Nat /\ (part.next = 0 \/ part.next >= n)
  <2>1. CASE ~named
    <3>1. m = n
      BY <2>1, Zenon
    <3> QED
      BY <3>1 DEF SameAt, Moves
  <2>2. CASE named
    <3>1. m = n + 2 /\ At(ts, n + 1) # "no-token" /\ At(ts, n + 1) = "="
      BY <2>2
    <3>2. n + 1 \in Nat /\ n + 1 >= n /\ n \in Nat
      OBVIOUS
    <3>3. n + 1 + 1 \in n + 1 .. Len(ts) + 1
      BY <3>1, <3>2, AfterToken
    <3>4. m \in n + 1 .. Len(ts) + 1 /\ m > n /\ "value" \in Forms
      BY <3>1, <3>3 DEF Forms
    <3>5. SameAt(r, s, "value", m)
      BY <3>4 DEF SameAfter
    <3> HIDE DEF m
    <3> QED
      BY <3>4, <3>5 DEF SameAt, Moves
  <2> QED
    BY <2>1, <2>2
<1>2. Others(ts, s, "args", part.next) = others /\ Moves(n, others)
  <2> HIDE DEF part
  <2> QED
    BY <1>1, OthersAgree
<1> DEFINE Taken(x) == named /\ (x.value.args # <<>> \/ ts[n] \in Keys(x.value.kwargs))
           A(v, x) == [args |-> <<>>, kwargs |-> <<[key |-> ts[n], value |-> v.value]>> \o x.value.kwargs]
           B(v, x) == [args |-> <<v.value>> \o x.value.args, kwargs |-> x.value.kwargs]
           Result(v, x) == IF x.next = 0 \/ Taken(x) THEN Refusal
                           ELSE IF named THEN Got(A(v, x), x.next) ELSE Got(B(v, x), x.next)
<1>3. /\ Args(ts, r, n) = Result(part, others)
      /\ Args(ts, s, n) = Result(s[<<"value", m>>], Others(ts, s, "args", s[<<"value", m>>].next))
  BY Zenon DEF Args
<1>4. Args(ts, s, n) = Args(ts, r, n)
  <2> HIDE DEF Result, m, others
  <2> QED
    BY <1>1, <1>2, <1>3
<1> DEFINE taken == Taken(others)
           a == A(part, others)
           b == B(part, others)
<1>5. Args(ts, r, n) = IF others.next = 0 \/ taken THEN Refusal
                       ELSE IF named THEN Got(a, others.next) ELSE Got(b, others.next)
  BY <1>3, Zenon
<1> HIDE DEF a, b, taken, named, others
<1> QED
  BY <1>2, <1>4, <1>5 DEF Moves, Refusal, Got

LEMMA PairsAgree ==
  ASSUME NEW ts \in Seq(Tokens), NEW r, NEW s, NEW n \in 1 .. Len(ts) + 1, SameAfter(ts, r, s, n)
  PROVE  Pairs(ts, r, n) = Pairs(ts, s, n) /\ Moves(n, Pairs(ts, r, n))
<1>1. CASE ~IsIdent(At(ts, n)) \/ At(ts, n + 1) # "="
  <2>1. Pairs(ts, r, n) = Refusal /\ Pairs(ts, s, n) = Refusal
    BY <1>1, Zenon DEF Pairs
  <2> QED
    BY <2>1 DEF Moves, Refusal, Got
<1>2. CASE IsIdent(At(ts, n)) /\ At(ts, n + 1) = "="
  <2> DEFINE cv == r[<<"value", n + 2>>]
             others == Others(ts, r, "clauses", cv.next)
             c == <<[key |-> ts[n], value |-> cv.value]>> \o others.value
             taken == ts[n] \in Keys(others.value)
  <2>1. s[<<"value", n + 2>>] = cv /\ cv.next \in Nat /\ (cv.next = 0 \/ cv.next >= n)
    <3>1. At(ts, n + 1) # "no-token" /\ n + 1 \in Nat /\ n + 1 >= n /\ n \in Nat
      BY <1>2
    <3>2. n + 1 + 1 \in n + 1 .. Len(ts) + 1
      BY <3>1, AfterToken
    <3>3. n + 2 \in n + 1 .. Len(ts) + 1 /\ n + 2 > n /\ "value" \in Forms
      BY <3>2 DEF Forms
    <3>4. SameAt(r, s, "value", n + 2)
      BY <3>3 DEF SameAfter
    <3> QED
      BY <3>3, <3>4 DEF SameAt, Moves
  <2>2. Others(ts, s, "clauses", cv.next) = others /\ Moves(n, others)
    <3> HIDE DEF cv
    <3> QED
      BY <2>1, OthersAgree
  <2>3. Pairs(ts, s, n) = Pairs(ts, r, n)
    BY <2>1, <2>2, Zenon DEF Pairs
  <2>4. Pairs(ts, r, n) = IF others.next = 0 \/ taken THEN Refusal ELSE Got(c, others.next)
    BY <1>2, Zenon DEF Pairs
  <2> HIDE DEF c, taken, others
  <2> QED
    BY <2>2, <2>3, <2>4 DEF Moves, Refusal, Got
<1> QED
  BY <1>1, <1>2

\* r and s agree on what is below p.
AgreeBelow(ts, r, s, p) ==
  \A q \in Places(ts) : Height(ts, q) < Height(ts, p) => r[q] = s[q] /\ Moves(q[2], r[q])

\* So for every form, of readings that agree on what is lower.
LEMMA ReadingAgrees ==
  ASSUME NEW ts \in Seq(Tokens), NEW r, NEW s, NEW p \in Places(ts), AgreeBelow(ts, r, s, p)
  PROVE  Reading(ts, r, p) = Reading(ts, s, p) /\ Moves(p[2], Reading(ts, r, p))
<1>0. PICK form \in Forms, n \in 1 .. Len(ts) + 1 : p = <<form, n>>
  BY DEF Places
<1>1. /\ \A f \in Forms : Level[f] \in 0 .. 4
      /\ Level["primary"] = 0 /\ Level["items"] = 1 /\ Level["value"] = 2 /\ Level["args"] = 3
  BY DEF Level, Forms
<1>2. SameAfter(ts, r, s, n)
  <2> SUFFICES ASSUME NEW f \in Forms, NEW m \in n + 1 .. Len(ts) + 1
               PROVE  SameAt(r, s, f, m)
    BY DEF SameAfter
  <2>1. <<f, m>> \in Places(ts) /\ m \in Nat /\ n \in Nat /\ Len(ts) \in Nat /\ m >= n + 1
    BY DEF Places
  <2>2. Level[f] \in 0 .. 4 /\ Level[form] \in 0 .. 4
    BY <1>1
  <2>3. 5 * (Len(ts) + 1 - m) + Level[f] < 5 * (Len(ts) + 1 - n) + Level[form]
    BY <2>1, <2>2
  <2> QED
    BY <1>0, <2>1, <2>3 DEF AgreeBelow, Height, SameAt
<1>3. ASSUME NEW f \in Forms, Level[f] < Level[form] PROVE SameAt(r, s, f, n)
  <2>1. <<f, n>> \in Places(ts) /\ n \in Nat /\ Len(ts) \in Nat
    BY DEF Places
  <2>2. Level[f] \in 0 .. 4 /\ Level[form] \in 0 .. 4
    BY <1>1
  <2>3. 5 * (Len(ts) + 1 - n) + Level[f] < 5 * (Len(ts) + 1 - n) + Level[form]
    BY <1>3, <2>1, <2>2
  <2> QED
    BY <1>0, <2>1, <2>3 DEF AgreeBelow, Height, SameAt
<1>4. p[1] = form /\ p[2] = n
  BY <1>0
<1>5. CASE form = "primary"
  <2>1. Reading(ts, r, p) = Primary(ts, r, n) /\ Reading(ts, s, p) = Primary(ts, s, n)
    BY <1>4, <1>5 DEF Reading
  <2> QED
    BY <1>2, <1>4, <2>1, PrimaryAgree
<1>6. CASE form = "items"
  <2>1. Reading(ts, r, p) = Items(ts, r, n) /\ Reading(ts, s, p) = Items(ts, s, n)
    BY <1>4, <1>6 DEF Reading
  <2>2. SameAt(r, s, "primary", n)
    BY <1>1, <1>3, <1>6 DEF Forms
  <2> QED
    BY <1>2, <1>4, <2>1, <2>2, ItemsAgree
<1>7. CASE form = "value"
  <2>1. Reading(ts, r, p) = Value(ts, r, n) /\ Reading(ts, s, p) = Value(ts, s, n)
    BY <1>4, <1>7 DEF Reading
  <2>2. SameAt(r, s, "primary", n)
    BY <1>1, <1>3, <1>7 DEF Forms
  <2> QED
    BY <1>2, <1>4, <2>1, <2>2, ValueAgree
<1>8. CASE form = "args"
  <2>1. Reading(ts, r, p) = Args(ts, r, n) /\ Reading(ts, s, p) = Args(ts, s, n)
    BY <1>4, <1>8 DEF Reading
  <2>2. SameAt(r, s, "value", n)
    BY <1>1, <1>3, <1>8 DEF Forms
  <2> QED
    BY <1>2, <1>4, <2>1, <2>2, ArgsAgree
<1>9. CASE form = "clauses"
  <2>1. Reading(ts, r, p) = Pairs(ts, r, n) /\ Reading(ts, s, p) = Pairs(ts, s, n)
    BY <1>4, <1>9 DEF Reading
  <2> QED
    BY <1>2, <1>4, <2>1, PairsAgree
<1> QED
  BY <1>5, <1>6, <1>7, <1>8, <1>9 DEF Forms

\* How high a place can be.
LEMMA HeightBounds ==
  \A ts \in Seq(Tokens) : \A p \in Places(ts) :
    p[2] \in 1 .. Len(ts) + 1 /\ Height(ts, p) \in Nat /\ Height(ts, p) < 5 * (Len(ts) + 1)
<1> SUFFICES ASSUME NEW ts \in Seq(Tokens), NEW p \in Places(ts)
             PROVE  /\ p[2] \in 1 .. Len(ts) + 1
                    /\ Height(ts, p) \in Nat /\ Height(ts, p) < 5 * (Len(ts) + 1)
  OBVIOUS
<1>1. p[1] \in Forms /\ p[2] \in 1 .. Len(ts) + 1 /\ Len(ts) \in Nat
  BY DEF Places
<1>2. Level[p[1]] \in 0 .. 4
  BY <1>1 DEF Level, Forms
<1>3. Height(ts, p) = 5 * (Len(ts) + 1 - p[2]) + Level[p[1]]
  BY DEF Height
<1> QED
  BY <1>1, <1>2, <1>3

\* r reads what is below h.
ReadsBelow(ts, r, h) ==
  /\ r = [p \in Places(ts) |-> r[p]]
  /\ \A p \in Places(ts) : Height(ts, p) < h => r[p] = Reading(ts, r, p) /\ Moves(p[2], r[p])

\* One level more can always be read.
LEMMA ReadsMore ==
  ASSUME NEW ts \in Seq(Tokens), NEW h \in Nat, NEW r, ReadsBelow(ts, r, h)
  PROVE  \E s : ReadsBelow(ts, s, h + 1)
<1> DEFINE s == [p \in Places(ts) |-> IF Height(ts, p) = h THEN Reading(ts, r, p) ELSE r[p]]
<1>1. \A p \in Places(ts) : Height(ts, p) \in Nat
  BY HeightBounds
<1>2. ASSUME NEW p \in Places(ts), Height(ts, p) < h + 1 PROVE AgreeBelow(ts, r, s, p)
  <2> SUFFICES ASSUME NEW q \in Places(ts), Height(ts, q) < Height(ts, p)
               PROVE  r[q] = s[q] /\ Moves(q[2], r[q])
    BY DEF AgreeBelow
  <2>1. Height(ts, q) < h /\ Height(ts, q) # h
    BY <1>1, <1>2
  <2>2. s[q] = r[q]
    BY <2>1
  <2> QED
    BY <2>1, <2>2 DEF ReadsBelow
<1>3. ASSUME NEW p \in Places(ts), Height(ts, p) < h + 1
      PROVE  s[p] = Reading(ts, s, p) /\ Moves(p[2], s[p])
  <2>1. Reading(ts, r, p) = Reading(ts, s, p) /\ Moves(p[2], Reading(ts, r, p))
    <3> HIDE DEF s
    <3> QED
      BY <1>2, <1>3, ReadingAgrees
  <2>2. s[p] = Reading(ts, r, p)
    <3>1. CASE Height(ts, p) = h
      BY <3>1
    <3>2. CASE Height(ts, p) # h
      <4>1. Height(ts, p) < h
        BY <1>1, <1>3, <3>2
      <4>2. r[p] = Reading(ts, r, p)
        BY <4>1 DEF ReadsBelow
      <4> QED
        BY <3>2, <4>2
    <3> QED
      BY <3>1, <3>2
  <2> QED
    BY <2>1, <2>2
<1>4. s = [p \in Places(ts) |-> s[p]]
  OBVIOUS
<1>5. ReadsBelow(ts, s, h + 1)
  <2> HIDE DEF s
  <2> QED
    BY <1>3, <1>4 DEF ReadsBelow
<1> QED
  BY <1>5

\* The readings of a text are what the forms say they are, and the reading
\* never turns back.
LEMMA ReadingsAre ==
  ASSUME NEW ts \in Seq(Tokens)
  PROVE  \A p \in Places(ts) : /\ Readings(ts)[p] = Reading(ts, Readings(ts), p)
                               /\ Moves(p[2], Readings(ts)[p])
<1> DEFINE Missing == {h \in Nat : ~ \E r : ReadsBelow(ts, r, h)}
           Solves(r) == r = [p \in Places(ts) |-> Reading(ts, r, p)]
           read == CHOOSE r : Solves(r)
<1>1. Missing = {}
  <2> SUFFICES ASSUME Missing # {} PROVE FALSE
    OBVIOUS
  <2>1. PICK h \in Missing : \A n \in Missing : h <= n
    <3>1. Missing \in SUBSET Nat
      OBVIOUS
    <3> HIDE DEF Missing
    <3> QED
      BY <3>1, LeastNatural
  <2>2. h # 0
    <3> DEFINE r == [p \in Places(ts) |-> 0]
    <3>1. \A p \in Places(ts) : Height(ts, p) \in Nat /\ ~ (Height(ts, p) < 0)
      BY HeightBounds
    <3>2. r = [p \in Places(ts) |-> r[p]]
      OBVIOUS
    <3>3. ReadsBelow(ts, r, 0)
      <4> HIDE DEF r
      <4> QED
        BY <3>1, <3>2 DEF ReadsBelow
    <3> QED
      BY <2>1, <3>3
  <2>3. h \in Nat /\ h - 1 \in Nat /\ ~ (h <= h - 1) /\ h - 1 + 1 = h
    BY <2>1, <2>2
  <2>4. PICK r : ReadsBelow(ts, r, h - 1)
    BY <2>1, <2>3
  <2>5. \E s : ReadsBelow(ts, s, h - 1 + 1)
    BY <2>3, <2>4, ReadsMore
  <2> QED
    BY <2>1, <2>3, <2>5
<1>2. 5 * (Len(ts) + 1) \in Nat
  OBVIOUS
<1>3. PICK r : ReadsBelow(ts, r, 5 * (Len(ts) + 1))
  BY <1>1, <1>2
<1>4. \A p \in Places(ts) : r[p] = Reading(ts, r, p)
  BY <1>3, HeightBounds DEF ReadsBelow
<1>5. r = [p \in Places(ts) |-> r[p]]
  BY <1>3 DEF ReadsBelow
<1>6. Solves(r)
  BY <1>4, <1>5, Zenon
<1>7. Solves(read)
  <2> HIDE DEF Solves
  <2> QED
    BY <1>6
<1>8. Readings(ts) = read
  BY Zenon DEF Readings
<1> HIDE DEF read
<1>9. \A p \in Places(ts) : read[p] = Reading(ts, read, p)
  BY <1>7
<1>10. read = [p \in Places(ts) |-> read[p]]
  BY <1>7
<1> DEFINE Still == {h \in Nat : \E p \in Places(ts) : Height(ts, p) = h /\ ~Moves(p[2], read[p])}
<1>11. Still = {}
  <2> SUFFICES ASSUME Still # {} PROVE FALSE
    OBVIOUS
  <2>1. PICK h \in Still : \A n \in Still : h <= n
    <3>1. Still \in SUBSET Nat
      OBVIOUS
    <3> HIDE DEF Still
    <3> QED
      BY <3>1, LeastNatural
  <2>2. PICK p \in Places(ts) : Height(ts, p) = h /\ ~Moves(p[2], read[p])
    BY <2>1
  <2>3. AgreeBelow(ts, read, read, p)
    <3> SUFFICES ASSUME NEW q \in Places(ts), Height(ts, q) < Height(ts, p) PROVE Moves(q[2], read[q])
      BY DEF AgreeBelow
    <3>1. Height(ts, q) \in Nat /\ h \in Nat /\ ~ (h <= Height(ts, q))
      BY <2>1, <2>2, HeightBounds
    <3>2. Height(ts, q) \notin Still
      BY <2>1, <3>1
    <3> QED
      BY <3>1, <3>2
  <2>4. Moves(p[2], Reading(ts, read, p))
    BY <2>3, ReadingAgrees
  <2> QED
    BY <1>9, <2>2, <2>4
<1> QED
  BY <1>8, <1>9, <1>11, HeightBounds

-----------------------------------------------------------------------------
(* What was read, a form at a time *)

Read(ts, form, n) == Readings(ts)[<<form, n>>]
\* Something was read from n on.
Found(ts, form, n) == n \in 1 .. Len(ts) + 1 /\ Read(ts, form, n).next # 0
Ends(ts, form, n) == Read(ts, form, n).next \in Nat /\ Read(ts, form, n).next > n

\* What is found ends further on.
LEMMA ReadEnds ==
  \A ts \in Seq(Tokens) : \A form \in Forms : \A n : Found(ts, form, n) => Ends(ts, form, n)
<1> SUFFICES ASSUME NEW ts \in Seq(Tokens), NEW form \in Forms, NEW n, Found(ts, form, n)
             PROVE  Ends(ts, form, n)
  OBVIOUS
<1>1. n \in 1 .. Len(ts) + 1 /\ Readings(ts)[<<form, n>>].next # 0
  BY DEF Found, Read
<1>2. <<form, n>> \in Places(ts)
  BY <1>1 DEF Places
<1>3. Moves(n, Readings(ts)[<<form, n>>])
  BY <1>2, ReadingsAre
<1> QED
  BY <1>1, <1>3 DEF Moves, Ends, Read

\* Each reading by its form.
LEMMA ReadIs ==
  ASSUME NEW ts \in Seq(Tokens), NEW n \in 1 .. Len(ts) + 1
  PROVE  /\ Read(ts, "primary", n) = Primary(ts, Readings(ts), n)
         /\ Read(ts, "items", n) = Items(ts, Readings(ts), n)
         /\ Read(ts, "value", n) = Value(ts, Readings(ts), n)
         /\ Read(ts, "args", n) = Args(ts, Readings(ts), n)
         /\ Read(ts, "clauses", n) = Pairs(ts, Readings(ts), n)
<1>1. \A form \in Forms : <<form, n>> \in Places(ts)
  BY DEF Places
<1>2. \A form \in Forms : Read(ts, form, n) = Reading(ts, Readings(ts), <<form, n>>)
  BY <1>1, ReadingsAre DEF Read
<1> QED
  BY <1>2 DEF Forms, Reading

\* After an element.
Goes(ts, form, k, o) ==
  /\ k \in Nat \ {0}
  /\ \/ Closes(ts, form, k) /\ o = Got(None[form], k + 1)
     \/ At(ts, k) = Comma /\ Found(ts, form, k + 1) /\ o = Read(ts, form, k + 1)

\* What Others reads, and then each form, with what it found of the others.
LEMMA OthersRead ==
  \A ts \in Seq(Tokens) : \A form \in {"items", "args", "clauses"} : \A k \in Nat :
    Others(ts, Readings(ts), form, k).next # 0 => Goes(ts, form, k, Others(ts, Readings(ts), form, k))
<1> SUFFICES ASSUME NEW ts \in Seq(Tokens), NEW form \in {"items", "args", "clauses"}, NEW k \in Nat,
                    Others(ts, Readings(ts), form, k).next # 0
             PROVE  Goes(ts, form, k, Others(ts, Readings(ts), form, k))
  OBVIOUS
<1> DEFINE o == Others(ts, Readings(ts), form, k)
<1>0. Refusal.next = 0
  BY DEF Refusal, Got
<1>1. k # 0
  <2>1. k = 0 => o = Refusal
    BY Zenon DEF Others
  <2> QED
    BY <1>0, <2>1
<1>2. CASE Closes(ts, form, k)
  <2>1. o = Got(None[form], k + 1)
    BY <1>1, <1>2, Zenon DEF Others
  <2>2. \A z : z = Got(None[form], k + 1) => Goes(ts, form, k, z)
    BY <1>1, <1>2 DEF Goes
  <2> QED
    BY <2>1, <2>2, Zenon
<1>3. CASE ~Closes(ts, form, k) /\ At(ts, k) = Comma
  <2>1. o = Readings(ts)[<<form, k + 1>>]
    BY <1>1, <1>3, Zenon DEF Others
  <2>2. At(ts, k) # "no-token" /\ 1 \in Nat
    BY <1>3, CommaIs
  <2>3. k \in 1 .. Len(ts)
    BY <2>2, AfterToken, <1>1
  <2>4. k + 1 \in 1 .. Len(ts) + 1
    BY <2>3
  <2>5. o.next # 0
    OBVIOUS
  <2>6. \A z : z = Readings(ts)[<<form, k + 1>>] /\ z.next # 0 => Goes(ts, form, k, z)
    BY <1>1, <1>3, <2>4 DEF Goes, Found, Read
  <2> QED
    BY <2>1, <2>5, <2>6, Zenon
<1>4. CASE ~Closes(ts, form, k) /\ At(ts, k) # Comma
  <2>1. o = Refusal
    BY <1>1, <1>4, Zenon DEF Others
  <2> QED
    BY <1>0, <2>1
<1> QED
  BY <1>2, <1>3, <1>4

LEMMA PrimaryRead ==
  ASSUME NEW ts \in Seq(Tokens), NEW n, Found(ts, "primary", n)
  PROVE  /\ n \in 1 .. Len(ts)
         /\ \/ Read(ts, "primary", n) = Got(Prim(ts[n]), n + 1)
            \/ ts[n] = "[" /\ At(ts, n + 1) = "]" /\ Read(ts, "primary", n) = Got(List(<<>>), n + 2)
            \/ /\ ts[n] = "[" /\ Found(ts, "items", n + 1)
               /\ Read(ts, "primary", n) = Got(List(Read(ts, "items", n + 1).value), Read(ts, "items", n + 1).next)
<1> DEFINE x == Read(ts, "primary", n)
           items == Readings(ts)[<<"items", n + 1>>]
<1>1. n \in 1 .. Len(ts) + 1 /\ x.next # 0 /\ x = Primary(ts, Readings(ts), n)
  BY ReadIs DEF Found
<1>2. Refusal.next = 0
  BY DEF Refusal, Got
<1>3. At(ts, n) \notin {"no-token"} \cup (Syms \ {"["})
  <2>1. At(ts, n) \in {"no-token"} \cup (Syms \ {"["}) => x = Refusal
    BY <1>1, Zenon DEF Primary
  <2> QED
    BY <1>1, <1>2, <2>1
<1>4. n \in 1 .. Len(ts) /\ n + 1 \in 1 .. Len(ts) + 1 /\ At(ts, n) = ts[n]
  <2>1. At(ts, n) # "no-token" /\ n \in Nat /\ 1 \in Nat /\ n >= 1
    BY <1>1, <1>3
  <2>2. n \in 1 .. Len(ts) /\ n + 1 \in 1 + 1 .. Len(ts) + 1
    BY <2>1, AfterToken
  <2> QED
    BY <2>1, <2>2, AtToken
<1>5. CASE ts[n] # "["
  <2>1. x = Got(Prim(ts[n]), n + 1)
    BY <1>1, <1>3, <1>4, <1>5, Zenon DEF Primary
  <2> QED
    BY <1>4, <2>1
<1>6. CASE ts[n] = "[" /\ At(ts, n + 1) = "]"
  <2>1. x = Got(List(<<>>), n + 2)
    BY <1>1, <1>3, <1>4, <1>6, Zenon DEF Primary
  <2> QED
    BY <1>4, <1>6, <2>1
<1>7. CASE ts[n] = "[" /\ At(ts, n + 1) # "]"
  <2>1. x = IF items.next = 0 THEN Refusal ELSE Got(List(items.value), items.next)
    BY <1>1, <1>3, <1>4, <1>7, Zenon DEF Primary
  <2>2. items.next # 0
    BY <1>1, <1>2, <2>1
  <2> QED
    BY <1>4, <1>7, <2>1, <2>2 DEF Found, Read
<1> QED
  BY <1>5, <1>6, <1>7

LEMMA ValueRead ==
  ASSUME NEW ts \in Seq(Tokens), NEW n, Found(ts, "value", n)
  PROVE  /\ Found(ts, "primary", n)
         /\ LET base == Read(ts, "primary", n)
                parts == Read(ts, "args", base.next + 1)
            IN  \/ Read(ts, "value", n) = base
                \/ /\ base.next \in 1 .. Len(ts) /\ ts[base.next] = "("
                   /\ \/ /\ At(ts, base.next + 1) = ")"
                         /\ Read(ts, "value", n) = Got(Call(base.value, <<>>, <<>>), base.next + 2)
                      \/ /\ Found(ts, "args", base.next + 1)
                         /\ Read(ts, "value", n) = Got(Call(base.value, parts.value.args, parts.value.kwargs),
                                                       parts.next)
<1> DEFINE x == Read(ts, "value", n)
           base == Read(ts, "primary", n)
           parts == Read(ts, "args", base.next + 1)
<1>1. n \in 1 .. Len(ts) + 1 /\ x.next # 0 /\ x = Value(ts, Readings(ts), n)
  BY ReadIs DEF Found
<1>2. Refusal.next = 0
  BY DEF Refusal, Got
<1>3. base.next # 0 /\ Found(ts, "primary", n)
  <2>1. base.next = 0 => x = base
    BY <1>1, Zenon DEF Value, Read
  <2>2. base.next # 0
    BY <1>1, <2>1
  <2> QED
    BY <1>1, <2>2 DEF Found
<1>4. CASE At(ts, base.next) # "("
  <2>1. x = base
    BY <1>1, <1>4, Zenon DEF Value, Read
  <2> QED
    BY <1>3, <2>1
<1>5. CASE At(ts, base.next) = "("
  <2>0. base.next \in Nat /\ base.next > n
    BY <1>3, ReadEnds DEF Ends, Forms
  <2>1. At(ts, base.next) # "no-token" /\ 1 \in Nat /\ base.next >= 1 /\ base.next \in Int
    BY <1>1, <1>5, <2>0
  <2>2. base.next \in 1 .. Len(ts) /\ base.next + 1 \in 1 + 1 .. Len(ts) + 1 /\ ts[base.next] = "("
    <3> HIDE DEF base
    <3> QED
      BY <1>5, <2>0, <2>1, AfterToken, AtToken
  <2>3. CASE At(ts, base.next + 1) = ")"
    <3>1. x = Got(Call(base.value, <<>>, <<>>), base.next + 2)
      BY <1>1, <1>3, <1>5, <2>3, Zenon DEF Value, Read
    <3> QED
      BY <1>3, <2>2, <2>3, <3>1
  <2>4. CASE At(ts, base.next + 1) # ")"
    <3>1. x = IF parts.next = 0 THEN Refusal
              ELSE Got(Call(base.value, parts.value.args, parts.value.kwargs), parts.next)
      BY <1>1, <1>3, <1>5, <2>4, Zenon DEF Value, Read
    <3>2. parts.next # 0
      BY <1>1, <1>2, <3>1
    <3>3. base.next + 1 \in 1 .. Len(ts) + 1
      <4> HIDE DEF base
      <4> QED
        BY <2>2
    <3>4. Found(ts, "args", base.next + 1)
      BY <3>2, <3>3 DEF Found
    <3> QED
      BY <1>3, <2>2, <3>1, <3>2, <3>4
  <2> QED
    BY <2>3, <2>4
<1> QED
  BY <1>4, <1>5

LEMMA ItemsRead ==
  ASSUME NEW ts \in Seq(Tokens), NEW n, Found(ts, "items", n)
  PROVE  /\ Found(ts, "primary", n)
         /\ \E o : /\ Goes(ts, "items", Read(ts, "primary", n).next, o)
                  /\ Read(ts, "items", n) = Got(<<Read(ts, "primary", n).value>> \o o.value, o.next)
<1> DEFINE x == Read(ts, "items", n)
           item == Read(ts, "primary", n)
           o == Others(ts, Readings(ts), "items", item.next)
<1>1. n \in 1 .. Len(ts) + 1 /\ x.next # 0 /\ x = Items(ts, Readings(ts), n)
  BY ReadIs DEF Found
<1>2. Refusal.next = 0
  BY DEF Refusal, Got
<1>3. x = IF o.next = 0 THEN Refusal ELSE Got(<<item.value>> \o o.value, o.next)
  BY <1>1, Zenon DEF Items, Read
<1>4. o.next # 0
  BY <1>1, <1>2, <1>3
<1>5. item.next # 0
  <2>1. item.next = 0 => o = Refusal
    BY Zenon DEF Others
  <2> QED
    BY <1>2, <1>4, <2>1
<1>6. Found(ts, "primary", n)
  BY <1>1, <1>5 DEF Found
<1>7. item.next \in Nat
  BY <1>6, ReadEnds DEF Ends, Forms
<1>8. Goes(ts, "items", item.next, o)
  <2> HIDE DEF item
  <2> QED
    BY <1>4, <1>7, OthersRead
<1> QED
  BY <1>3, <1>4, <1>6, <1>8

\* A named part or one without a name, from n on, and where its value is.
PartAt(ts, n, m, pair) ==
  \/ ~pair /\ m = n
  \/ pair /\ m = n + 2 /\ n \in 1 .. Len(ts) /\ n + 1 \in 1 .. Len(ts) /\ ts[n + 1] = "="

LEMMA ArgsRead ==
  ASSUME NEW ts \in Seq(Tokens), NEW n, Found(ts, "args", n)
  PROVE  \E m, pair, o :
           /\ PartAt(ts, n, m, pair) /\ pair \in BOOLEAN /\ Found(ts, "value", m)
           /\ Goes(ts, "args", Read(ts, "value", m).next, o)
           /\ pair => /\ o.value.args = <<>>
                      /\ Read(ts, "args", n) =
                           Got([args |-> <<>>,
                                kwargs |-> <<[key |-> ts[n], value |-> Read(ts, "value", m).value]>> \o o.value.kwargs],
                               o.next)
           /\ ~pair => Read(ts, "args", n) =
                         Got([args |-> <<Read(ts, "value", m).value>> \o o.value.args, kwargs |-> o.value.kwargs], o.next)
<1> DEFINE x == Read(ts, "args", n)
           named == IsIdent(At(ts, n)) /\ At(ts, n + 1) = "="
           m == IF named THEN n + 2 ELSE n
           part == Read(ts, "value", m)
           o == Others(ts, Readings(ts), "args", part.next)
           taken == named /\ (o.value.args # <<>> \/ ts[n] \in Keys(o.value.kwargs))
           a == [args |-> <<>>, kwargs |-> <<[key |-> ts[n], value |-> part.value]>> \o o.value.kwargs]
           b == [args |-> <<part.value>> \o o.value.args, kwargs |-> o.value.kwargs]
<1>1. n \in 1 .. Len(ts) + 1 /\ x.next # 0 /\ x = Args(ts, Readings(ts), n)
  BY ReadIs DEF Found
<1>2. Refusal.next = 0
  BY DEF Refusal, Got
<1>3. x = IF o.next = 0 \/ taken THEN Refusal ELSE IF named THEN Got(a, o.next) ELSE Got(b, o.next)
  BY <1>1, Zenon DEF Args, Read
<1>4. o.next # 0 /\ ~taken
  <2> HIDE DEF o, taken, a, b, named
  <2> QED
    BY <1>1, <1>2, <1>3
<1>5. part.next # 0
  <2>1. part.next = 0 => o = Refusal
    BY Zenon DEF Others
  <2> QED
    BY <1>2, <1>4, <2>1
<1>6. PartAt(ts, n, m, named) /\ m \in 1 .. Len(ts) + 1
  <2>1. CASE ~named
    <3>1. m = n
      BY <2>1, Zenon
    <3> HIDE DEF m, named
    <3> QED
      BY <1>1, <2>1, <3>1 DEF PartAt
  <2>2. CASE named
    <3>1. m = n + 2 /\ At(ts, n + 1) # "no-token" /\ At(ts, n + 1) = "=" /\ At(ts, n) # "no-token"
      BY <2>2 DEF IsIdent
    <3>2. n \in Nat /\ n + 1 \in Nat /\ n + 1 >= 1 /\ n >= 1 /\ 1 \in Nat
      BY <1>1
    <3>3. n + 1 \in 1 .. Len(ts) /\ n + 1 + 1 \in 1 + 1 .. Len(ts) + 1 /\ n \in 1 .. Len(ts)
      BY <3>1, <3>2, AfterToken
    <3>4. ts[n + 1] = "="
      BY <3>1, <3>2, AtToken
    <3> HIDE DEF m, named
    <3> QED
      BY <2>2, <3>1, <3>2, <3>3, <3>4 DEF PartAt
  <2> QED
    BY <2>1, <2>2
<1>7. Found(ts, "value", m)
  <2> HIDE DEF m
  <2> QED
    BY <1>5, <1>6 DEF Found
<1>8. part.next \in Nat
  <2> HIDE DEF m
  <2> QED
    BY <1>7, ReadEnds DEF Ends, Forms
<1>9. Goes(ts, "args", part.next, o)
  <2> HIDE DEF part
  <2> QED
    BY <1>4, <1>8, OthersRead
<1>10. /\ named => o.value.args = <<>> /\ x = Got(a, o.next)
       /\ ~named => x = Got(b, o.next)
  BY <1>3, <1>4, Zenon
<1>11. \E pair \in BOOLEAN : pair <=> named
  BY Zenon
<1>12. PICK pair \in BOOLEAN : pair <=> named
  BY <1>11
<1>13. PartAt(ts, n, m, pair)
  <2> HIDE DEF m, named
  <2> QED
    BY <1>6, <1>12 DEF PartAt
<1>14. pair => o.value.args = <<>> /\ x = Got(a, o.next)
  BY <1>10, <1>12, Zenon
<1>15. ~pair => x = Got(b, o.next)
  BY <1>10, <1>12, Zenon
<1> HIDE DEF named, m, o
<1> QED
  BY <1>7, <1>9, <1>13, <1>14, <1>15

LEMMA PairsRead ==
  ASSUME NEW ts \in Seq(Tokens), NEW n, Found(ts, "clauses", n)
  PROVE  /\ PartAt(ts, n, n + 2, TRUE) /\ Found(ts, "value", n + 2)
         /\ \E o : /\ Goes(ts, "clauses", Read(ts, "value", n + 2).next, o)
                  /\ Read(ts, "clauses", n) =
                       Got(<<[key |-> ts[n], value |-> Read(ts, "value", n + 2).value]>> \o o.value, o.next)
<1> DEFINE x == Read(ts, "clauses", n)
           cv == Read(ts, "value", n + 2)
           o == Others(ts, Readings(ts), "clauses", cv.next)
           c == <<[key |-> ts[n], value |-> cv.value]>> \o o.value
<1>1. n \in 1 .. Len(ts) + 1 /\ x.next # 0 /\ x = Pairs(ts, Readings(ts), n)
  BY ReadIs DEF Found
<1>2. Refusal.next = 0
  BY DEF Refusal, Got
<1>3. IsIdent(At(ts, n)) /\ At(ts, n + 1) = "="
  <2>1. ~IsIdent(At(ts, n)) \/ At(ts, n + 1) # "=" => x = Refusal
    BY <1>1, Zenon DEF Pairs
  <2> QED
    BY <1>1, <1>2, <2>1
<1>4. x = IF o.next = 0 \/ ts[n] \in Keys(o.value) THEN Refusal ELSE Got(c, o.next)
  BY <1>1, <1>3, Zenon DEF Pairs, Read
<1>5. o.next # 0 /\ x = Got(c, o.next)
  <2> HIDE DEF o, c
  <2> QED
    BY <1>1, <1>2, <1>4
<1>6. cv.next # 0
  <2>1. cv.next = 0 => o = Refusal
    BY Zenon DEF Others
  <2> QED
    BY <1>2, <1>5, <2>1
<1>7. PartAt(ts, n, n + 2, TRUE) /\ n + 2 \in 1 .. Len(ts) + 1
  <2>1. At(ts, n + 1) # "no-token" /\ At(ts, n) # "no-token"
    BY <1>3 DEF IsIdent
  <2>2. n \in Nat /\ n + 1 \in Nat /\ n + 1 >= 1 /\ n >= 1 /\ 1 \in Nat
    BY <1>1
  <2>3. n + 1 \in 1 .. Len(ts) /\ n + 1 + 1 \in 1 + 1 .. Len(ts) + 1 /\ n \in 1 .. Len(ts)
    BY <2>1, <2>2, AfterToken
  <2>4. ts[n + 1] = "="
    BY <1>3, <2>1, <2>2, AtToken
  <2> QED
    BY <2>2, <2>3, <2>4 DEF PartAt
<1>8. Found(ts, "value", n + 2)
  BY <1>6, <1>7 DEF Found
<1>9. cv.next \in Nat
  BY <1>8, ReadEnds DEF Ends, Forms
<1>10. Goes(ts, "clauses", cv.next, o)
  <2> HIDE DEF cv
  <2> QED
    BY <1>5, <1>9, OthersRead
<1> QED
  BY <1>5, <1>7, <1>8, <1>10

-----------------------------------------------------------------------------
(* The parts of a value *)

\* A sequence with one element more in front.
LEMMA OnFront ==
  ASSUME NEW S, NEW a \in S, NEW s \in Seq(S)
  PROVE  /\ <<a>> \o s \in Seq(S) /\ Len(<<a>> \o s) = Len(s) + 1 /\ Len(s) \in Nat
         /\ (<<a>> \o s)[1] = a /\ \A i \in 1 .. Len(s) : (<<a>> \o s)[i + 1] = s[i]
<1>1. <<a>> \in Seq(S) /\ Len(<<a>>) = 1 /\ <<a>>[1] = a
  OBVIOUS
<1> QED
  BY <1>1

\* The values read from n on.
From(ts, n) == {Readings(ts)[p].value : p \in {q \in {"primary", "value"} \X (1 .. Len(ts)) :
                                                 Readings(ts)[q].next # 0 /\ q[2] >= n}}
Keyed(S) == [key : Tokens, value : S]
\* A value with its parts in S.
Made(v, S) ==
  \/ v.kind \in {"literal", "name"} /\ v.text \in Tokens
  \/ v.kind = "list" /\ v.items \in Seq(S)
  \/ v.kind = "call" /\ v.base \in S /\ v.args \in Seq(S) /\ v.kwargs \in Seq(Keyed(S))

\* What is read further on is read from here on.
LEMMA FromLater ==
  \A ts : \A n, m \in Nat : n <= m =>
    /\ From(ts, m) \subseteq From(ts, n)
    /\ Seq(From(ts, m)) \subseteq Seq(From(ts, n))
    /\ Seq(Keyed(From(ts, m))) \subseteq Seq(Keyed(From(ts, n)))
<1> SUFFICES ASSUME NEW ts, NEW n \in Nat, NEW m \in Nat, n <= m
             PROVE  /\ From(ts, m) \subseteq From(ts, n)
                    /\ Seq(From(ts, m)) \subseteq Seq(From(ts, n))
                    /\ Seq(Keyed(From(ts, m))) \subseteq Seq(Keyed(From(ts, n)))
  OBVIOUS
<1>1. From(ts, m) \subseteq From(ts, n)
  <2>1. \A q \in {"primary", "value"} \X (1 .. Len(ts)) : q[2] >= m => q[2] >= n
    OBVIOUS
  <2> QED
    BY <2>1 DEF From
<1>2. Keyed(From(ts, m)) \subseteq Keyed(From(ts, n))
  BY <1>1 DEF Keyed
<1>3. \A S, T : S \subseteq T => Seq(S) \subseteq Seq(T)
  OBVIOUS
<1> QED
  BY <1>1, <1>2, <1>3

\* A primary or a value that is found is one of those.
LEMMA ReadFrom ==
  ASSUME NEW ts \in Seq(Tokens), NEW form \in {"primary", "value"}, NEW n \in Nat, NEW m,
         Found(ts, form, m), n <= m
  PROVE  m \in 1 .. Len(ts) /\ Read(ts, form, m).value \in From(ts, n)
<1>1. Found(ts, "primary", m)
  BY ValueRead
<1>2. m \in 1 .. Len(ts)
  BY <1>1, PrimaryRead
<1>3. /\ <<form, m>> \in {"primary", "value"} \X (1 .. Len(ts))
      /\ Readings(ts)[<<form, m>>].next # 0 /\ <<form, m>>[2] >= n
  BY <1>2 DEF Found, Read
<1> QED
  BY <1>2, <1>3 DEF From, Read

\* What is within what is read from n on, is read from n on.
Within(ts, n) ==
  /\ Found(ts, "items", n) => Read(ts, "items", n).value \in Seq(From(ts, n))
  /\ Found(ts, "args", n) => /\ Read(ts, "args", n).value.args \in Seq(From(ts, n))
                             /\ Read(ts, "args", n).value.kwargs \in Seq(Keyed(From(ts, n)))
  /\ Found(ts, "clauses", n) => Read(ts, "clauses", n).value \in Seq(Keyed(From(ts, n)))

\* What the others of a list hold.
LEMMA OthersWithin ==
  ASSUME NEW ts \in Seq(Tokens), NEW n \in 1 .. Len(ts) + 1,
         \A m \in n + 1 .. Len(ts) + 1 : Within(ts, m),
         NEW form \in {"items", "args", "clauses"}, NEW k, k > n, NEW o, Goes(ts, form, k, o)
  PROVE  /\ form # "args" => o.value \in IF form = "items" THEN Seq(From(ts, n)) ELSE Seq(Keyed(From(ts, n)))
         /\ form = "args" => o.value.args \in Seq(From(ts, n)) /\ o.value.kwargs \in Seq(Keyed(From(ts, n)))
<1>0. k \in Nat /\ n \in Nat /\ k + 1 \in Nat /\ n <= k + 1
  BY DEF Goes
<1>1. CASE o = Got(None[form], k + 1)
  <2>1. o.value = None[form]
    BY <1>1 DEF Got
  <2>2. \A S : <<>> \in Seq(S)
    OBVIOUS
  <2>3. /\ None["items"] = <<>> /\ None["clauses"] = <<>>
        /\ None["args"].args = <<>> /\ None["args"].kwargs = <<>>
    BY DEF None
  <2> QED
    BY <2>1, <2>2, <2>3
<1>2. CASE Found(ts, form, k + 1) /\ o = Read(ts, form, k + 1)
  <2>1. k + 1 \in n + 1 .. Len(ts) + 1
    BY <1>0, <1>2 DEF Found
  <2>2. Within(ts, k + 1)
    BY <2>1
  <2>3. /\ Seq(From(ts, k + 1)) \subseteq Seq(From(ts, n))
        /\ Seq(Keyed(From(ts, k + 1))) \subseteq Seq(Keyed(From(ts, n)))
    BY <1>0, FromLater
  <2>4. CASE form = "items"
    BY <1>2, <2>2, <2>3, <2>4 DEF Within
  <2>5. CASE form = "args"
    BY <1>2, <2>2, <2>3, <2>5 DEF Within
  <2>6. CASE form = "clauses"
    BY <1>2, <2>2, <2>3, <2>6 DEF Within
  <2> QED
    BY <2>4, <2>5, <2>6
<1> QED
  BY <1>1, <1>2 DEF Goes

\* The value of a part of a call or of a clause.
LEMMA PartPlace ==
  ASSUME NEW ts \in Seq(Tokens), NEW n \in 1 .. Len(ts) + 1, NEW m, NEW pair \in BOOLEAN,
         PartAt(ts, n, m, pair), Found(ts, "value", m)
  PROVE  /\ Read(ts, "value", m).next > n /\ Read(ts, "value", m).value \in From(ts, n)
         /\ m \in Nat /\ m >= n /\ (pair => ts[n] \in Tokens)
<1>1. m \in Nat /\ m >= n /\ n \in Nat
  BY DEF PartAt
<1>2. Read(ts, "value", m).next \in Nat /\ Read(ts, "value", m).next > m
  BY ReadEnds DEF Ends, Forms
<1>3. Read(ts, "value", m).value \in From(ts, n)
  BY <1>1, ReadFrom
<1>4. pair => ts[n] \in Tokens
  BY DEF PartAt
<1> QED
  BY <1>1, <1>2, <1>3, <1>4

\* Downwards from the end of the text.
LEMMA WithinStep ==
  ASSUME NEW ts \in Seq(Tokens), NEW n \in 1 .. Len(ts) + 1,
         \A m \in n + 1 .. Len(ts) + 1 : Within(ts, m)
  PROVE  Within(ts, n)
<1>0. n \in Nat /\ n <= n
  OBVIOUS
<1>1. ASSUME Found(ts, "items", n) PROVE Read(ts, "items", n).value \in Seq(From(ts, n))
  <2> DEFINE item == Read(ts, "primary", n)
  <2>1. PICK o : /\ Found(ts, "primary", n) /\ Goes(ts, "items", item.next, o)
                 /\ Read(ts, "items", n) = Got(<<item.value>> \o o.value, o.next)
    BY <1>1, ItemsRead
  <2>2. item.value \in From(ts, n) /\ item.next > n
    BY <1>0, <2>1, ReadFrom, ReadEnds DEF Ends, Forms
  <2> HIDE DEF item
  <2>3. o.value \in Seq(From(ts, n))
    BY <2>1, <2>2, OthersWithin
  <2>4. <<item.value>> \o o.value \in Seq(From(ts, n))
    BY <2>2, <2>3, OnFront
  <2>5. Read(ts, "items", n).value = <<item.value>> \o o.value
    BY <2>1, GotHas, Zenon
  <2> QED
    BY <2>4, <2>5, Zenon
<1>2. ASSUME Found(ts, "args", n)
      PROVE  /\ Read(ts, "args", n).value.args \in Seq(From(ts, n))
             /\ Read(ts, "args", n).value.kwargs \in Seq(Keyed(From(ts, n)))
  <2>1. PICK m, pair, o :
           /\ PartAt(ts, n, m, pair) /\ pair \in BOOLEAN /\ Found(ts, "value", m)
           /\ Goes(ts, "args", Read(ts, "value", m).next, o)
           /\ pair => /\ o.value.args = <<>>
                      /\ Read(ts, "args", n) =
                           Got([args |-> <<>>,
                                kwargs |-> <<[key |-> ts[n], value |-> Read(ts, "value", m).value]>> \o o.value.kwargs],
                               o.next)
           /\ ~pair => Read(ts, "args", n) =
                         Got([args |-> <<Read(ts, "value", m).value>> \o o.value.args, kwargs |-> o.value.kwargs], o.next)
    BY <1>2, ArgsRead
  <2> DEFINE part == Read(ts, "value", m)
             kv == [key |-> ts[n], value |-> part.value]
  <2>2. part.next > n /\ part.value \in From(ts, n) /\ (pair => ts[n] \in Tokens)
    BY <2>1, PartPlace
  <2>3. o.value.args \in Seq(From(ts, n)) /\ o.value.kwargs \in Seq(Keyed(From(ts, n)))
    <3> HIDE DEF part
    <3> QED
      BY <2>1, <2>2, OthersWithin DEF part
  <2>4. CASE pair
    <3>1. kv \in Keyed(From(ts, n))
      BY <2>2, <2>4 DEF Keyed
    <3>2. <<kv>> \o o.value.kwargs \in Seq(Keyed(From(ts, n)))
      <4> HIDE DEF kv
      <4> QED
        BY <2>3, <3>1, OnFront
    <3>3. Read(ts, "args", n) = Got([args |-> <<>>, kwargs |-> <<kv>> \o o.value.kwargs], o.next)
      BY <2>1, <2>4
    <3> HIDE DEF kv
    <3>4. <<>> \in Seq(From(ts, n))
      OBVIOUS
    <3> DEFINE both == [args |-> <<>>, kwargs |-> <<kv>> \o o.value.kwargs]
    <3>5. both.args = <<>> /\ both.kwargs = <<kv>> \o o.value.kwargs
      OBVIOUS
    <3> HIDE DEF both
    <3>6. Read(ts, "args", n).value = both
      BY <3>3, GotHas, Zenon DEF both
    <3> QED
      BY <3>2, <3>4, <3>5, <3>6
  <2>5. CASE ~pair
    <3>1. <<part.value>> \o o.value.args \in Seq(From(ts, n))
      <4> HIDE DEF part
      <4> QED
        BY <2>2, <2>3, OnFront
    <3>2. Read(ts, "args", n) = Got([args |-> <<part.value>> \o o.value.args, kwargs |-> o.value.kwargs], o.next)
      BY <2>1, <2>5
    <3> HIDE DEF part
    <3> DEFINE both == [args |-> <<part.value>> \o o.value.args, kwargs |-> o.value.kwargs]
    <3>3. both.args = <<part.value>> \o o.value.args /\ both.kwargs = o.value.kwargs
      OBVIOUS
    <3> HIDE DEF both
    <3>4. Read(ts, "args", n) = Got(both, o.next)
      BY <3>2 DEF both
    <3>5. Read(ts, "args", n).value = both
      BY <3>4, GotHas, Zenon
    <3> QED
      BY <2>3, <3>1, <3>3, <3>5
  <2> QED
    BY <2>1, <2>4, <2>5
<1>3. ASSUME Found(ts, "clauses", n) PROVE Read(ts, "clauses", n).value \in Seq(Keyed(From(ts, n)))
  <2> DEFINE part == Read(ts, "value", n + 2)
             kv == [key |-> ts[n], value |-> part.value]
  <2>1. PICK o : /\ PartAt(ts, n, n + 2, TRUE) /\ Found(ts, "value", n + 2)
                 /\ Goes(ts, "clauses", part.next, o)
                 /\ Read(ts, "clauses", n) = Got(<<kv>> \o o.value, o.next)
    BY <1>3, PairsRead
  <2>2. part.next > n /\ part.value \in From(ts, n) /\ ts[n] \in Tokens
    BY <2>1, PartPlace
  <2>3. kv \in Keyed(From(ts, n))
    BY <2>2 DEF Keyed
  <2> HIDE DEF part, kv
  <2>4. o.value \in Seq(Keyed(From(ts, n)))
    BY <2>1, <2>2, OthersWithin
  <2>5. <<kv>> \o o.value \in Seq(Keyed(From(ts, n)))
    BY <2>3, <2>4, OnFront
  <2>6. Read(ts, "clauses", n).value = <<kv>> \o o.value
    BY <2>1, GotHas, Zenon
  <2> QED
    BY <2>5, <2>6, Zenon
<1> QED
  BY <1>1, <1>2, <1>3 DEF Within

LEMMA AllWithin ==
  \A ts \in Seq(Tokens) : \A n \in 1 .. Len(ts) + 1 : Within(ts, n)
<1> SUFFICES ASSUME NEW ts \in Seq(Tokens) PROVE \A n \in 1 .. Len(ts) + 1 : Within(ts, n)
  OBVIOUS
<1> DEFINE Out == {d \in 0 .. Len(ts) : ~Within(ts, Len(ts) + 1 - d)}
<1>1. Out = {}
  <2> SUFFICES ASSUME Out # {} PROVE FALSE
    OBVIOUS
  <2>1. PICK d \in Out : \A e \in Out : d <= e
    <3>1. Out \in SUBSET Nat
      OBVIOUS
    <3> HIDE DEF Out
    <3> QED
      BY <3>1, LeastNatural
  <2> DEFINE n == Len(ts) + 1 - d
  <2>2. d \in 0 .. Len(ts) /\ Len(ts) \in Nat /\ n \in 1 .. Len(ts) + 1 /\ ~Within(ts, n)
    BY <2>1
  <2>3. ASSUME NEW m \in n + 1 .. Len(ts) + 1 PROVE Within(ts, m)
    <3>1. Len(ts) + 1 - m \in 0 .. Len(ts) /\ ~ (d <= Len(ts) + 1 - m)
      BY <2>2
    <3>2. Len(ts) + 1 - m \notin Out
      BY <2>1, <3>1
    <3>3. Len(ts) + 1 - (Len(ts) + 1 - m) = m
      BY <2>2
    <3> QED
      BY <3>1, <3>2, <3>3
  <2> HIDE DEF n
  <2>4. Within(ts, n)
    BY <2>2, <2>3, WithinStep
  <2> QED
    BY <2>2, <2>4
<1>2. ASSUME NEW n \in 1 .. Len(ts) + 1 PROVE Within(ts, n)
  <2>1. Len(ts) + 1 - n \in 0 .. Len(ts) /\ Len(ts) + 1 - (Len(ts) + 1 - n) = n
    OBVIOUS
  <2>2. Len(ts) + 1 - n \notin Out
    BY <1>1
  <2> QED
    BY <2>1, <2>2
<1> QED
  BY <1>2

\* What values are made of.
LEMMA MadeOf ==
  /\ \A t \in Tokens : \A S : Made(Prim(t), S) /\ Prim(t).text = t /\ Prim(t).kind \notin {"list", "call"}
  /\ \A S : \A items \in Seq(S) : Made(List(items), S) /\ List(items).kind = "list" /\ List(items).items = items
  /\ \A S : \A base \in S : \A args \in Seq(S) : \A kwargs \in Seq(Keyed(S)) :
       /\ Made(Call(base, args, kwargs), S) /\ Call(base, args, kwargs).kind = "call"
       /\ Call(base, args, kwargs).base = base
       /\ Call(base, args, kwargs).args = args /\ Call(base, args, kwargs).kwargs = kwargs
<1>1. ASSUME NEW t \in Tokens, NEW S
      PROVE  Made(Prim(t), S) /\ Prim(t).text = t /\ Prim(t).kind \notin {"list", "call"}
  <2>1. Prim(t).text = t /\ Prim(t).kind \in {"literal", "name"}
    BY DEF Prim
  <2> QED
    BY <2>1 DEF Made
<1>2. ASSUME NEW S, NEW items \in Seq(S)
      PROVE  Made(List(items), S) /\ List(items).kind = "list" /\ List(items).items = items
  <2>1. List(items).kind = "list" /\ List(items).items = items
    BY DEF List
  <2> QED
    BY <2>1 DEF Made
<1>3. ASSUME NEW S, NEW base \in S, NEW args \in Seq(S), NEW kwargs \in Seq(Keyed(S))
      PROVE  /\ Made(Call(base, args, kwargs), S) /\ Call(base, args, kwargs).kind = "call"
             /\ Call(base, args, kwargs).base = base
             /\ Call(base, args, kwargs).args = args /\ Call(base, args, kwargs).kwargs = kwargs
  <2>1. /\ Call(base, args, kwargs).kind = "call" /\ Call(base, args, kwargs).base = base
        /\ Call(base, args, kwargs).args = args /\ Call(base, args, kwargs).kwargs = kwargs
    BY DEF Call
  <2> QED
    BY <2>1, Zenon DEF Made
<1> QED
  BY <1>1, <1>2, <1>3

LEMMA MadeLarger ==
  \A v, S, T : Made(v, S) /\ S \subseteq T => Made(v, T)
<1> SUFFICES ASSUME NEW v, NEW S, NEW T, Made(v, S), S \subseteq T PROVE Made(v, T)
  OBVIOUS
<1>1. \A A, B : A \subseteq B => Seq(A) \subseteq Seq(B)
  OBVIOUS
<1>2. Keyed(S) \subseteq Keyed(T)
  BY DEF Keyed
<1>3. Seq(S) \subseteq Seq(T) /\ Seq(Keyed(S)) \subseteq Seq(Keyed(T))
  BY <1>1, <1>2
<1> QED
  BY <1>3 DEF Made

\* The values that are found are made of those found further on, and of their base.
LEMMA PrimaryMade ==
  ASSUME NEW ts \in Seq(Tokens), NEW n, Found(ts, "primary", n)
  PROVE  Made(Read(ts, "primary", n).value, From(ts, n + 1))
<1> DEFINE x == Read(ts, "primary", n)
           items == Read(ts, "items", n + 1)
<1>1. n \in 1 .. Len(ts) /\ n + 1 \in 1 .. Len(ts) + 1 /\ ts[n] \in Tokens
  <2>1. n \in 1 .. Len(ts)
    BY PrimaryRead
  <2> QED
    BY <2>1
<1>2. CASE x = Got(Prim(ts[n]), n + 1)
  <2>1. x.value = Prim(ts[n])
    BY <1>2, GotHas, Zenon
  <2> QED
    BY <1>1, <2>1, MadeOf
<1>3. CASE x = Got(List(<<>>), n + 2)
  <2>1. x.value = List(<<>>)
    BY <1>3, GotHas, Zenon
  <2>2. <<>> \in Seq(From(ts, n + 1))
    OBVIOUS
  <2>3. Made(List(<<>>), From(ts, n + 1))
    BY <2>2, MadeOf
  <2> QED
    BY <2>1, <2>3, Zenon
<1>4. CASE Found(ts, "items", n + 1) /\ x = Got(List(items.value), items.next)
  <2>1. x.value = List(items.value)
    BY <1>4, GotHas, Zenon
  <2>2. items.value \in Seq(From(ts, n + 1))
    BY <1>1, <1>4, AllWithin DEF Within
  <2>3. Made(List(items.value), From(ts, n + 1))
    <3> HIDE DEF items
    <3> QED
      BY <2>2, MadeOf
  <2> QED
    BY <2>1, <2>3, Zenon
<1> QED
  BY <1>2, <1>3, <1>4, PrimaryRead

LEMMA ValueMade ==
  ASSUME NEW ts \in Seq(Tokens), NEW n, Found(ts, "value", n)
  PROVE  Made(Read(ts, "value", n).value, From(ts, n + 1) \cup {Read(ts, "primary", n).value})
<1> DEFINE x == Read(ts, "value", n)
           base == Read(ts, "primary", n)
           parts == Read(ts, "args", base.next + 1)
           S == From(ts, n + 1) \cup {base.value}
<1>1. /\ Found(ts, "primary", n)
      /\ \/ x = base
         \/ x = Got(Call(base.value, <<>>, <<>>), base.next + 2)
         \/ /\ Found(ts, "args", base.next + 1)
            /\ x = Got(Call(base.value, parts.value.args, parts.value.kwargs), parts.next)
  BY ValueRead
<1>2. base.value \in S /\ From(ts, n + 1) \subseteq S
  OBVIOUS
<1>3. n \in Nat /\ base.next \in Nat /\ base.next > n
  BY <1>1, ReadEnds, PrimaryRead DEF Ends, Forms
<1>4. CASE x = base
  <2>1. Made(base.value, From(ts, n + 1))
    BY <1>1, PrimaryMade
  <2>2. Made(base.value, S)
    <3> HIDE DEF S
    <3> QED
      BY <1>2, <2>1, MadeLarger, Zenon
  <2> QED
    BY <1>4, <2>2, Zenon
<1>5. CASE x = Got(Call(base.value, <<>>, <<>>), base.next + 2)
  <2>1. x.value = Call(base.value, <<>>, <<>>)
    BY <1>5, GotHas, Zenon
  <2>2. <<>> \in Seq(S) /\ <<>> \in Seq(Keyed(S))
    OBVIOUS
  <2>3. Made(Call(base.value, <<>>, <<>>), S)
    <3> HIDE DEF S, base
    <3> QED
      BY <1>2, <2>2, MadeOf DEF base
  <2> QED
    BY <2>1, <2>3, Zenon
<1>6. CASE Found(ts, "args", base.next + 1) /\ x = Got(Call(base.value, parts.value.args, parts.value.kwargs), parts.next)
  <2>1. x.value = Call(base.value, parts.value.args, parts.value.kwargs)
    BY <1>6, GotHas, Zenon
  <2>2. base.next + 1 \in 1 .. Len(ts) + 1 /\ n + 1 \in Nat /\ base.next + 1 \in Nat /\ n + 1 <= base.next + 1
    BY <1>3, <1>6 DEF Found
  <2>3. /\ parts.value.args \in Seq(From(ts, base.next + 1))
        /\ parts.value.kwargs \in Seq(Keyed(From(ts, base.next + 1)))
    BY <1>6, <2>2, AllWithin DEF Within
  <2>4. From(ts, base.next + 1) \subseteq S
    <3>1. From(ts, base.next + 1) \subseteq From(ts, n + 1)
      <4> HIDE DEF base
      <4> QED
        BY <2>2, FromLater
    <3> QED
      BY <3>1
  <2>5. Keyed(From(ts, base.next + 1)) \subseteq Keyed(S)
    <3> HIDE DEF S, base
    <3> QED
      BY <2>4 DEF Keyed
  <2>6. \A A, B : A \subseteq B => Seq(A) \subseteq Seq(B)
    OBVIOUS
  <2> HIDE DEF S
  <2>7. parts.value.args \in Seq(S) /\ parts.value.kwargs \in Seq(Keyed(S))
    BY <2>3, <2>4, <2>5, <2>6
  <2>8. Made(Call(base.value, parts.value.args, parts.value.kwargs), S)
    <3> HIDE DEF parts, base
    <3> QED
      BY <1>2, <2>7, MadeOf
  <2> QED
    BY <2>1, <2>8, Zenon DEF S
<1> QED
  BY <1>1, <1>4, <1>5, <1>6

\* What is written for a value depends on its parts only.
LEMMA RenderedAgrees ==
  ASSUME NEW S, NEW v, Made(v, S), NEW w, NEW u, \A x \in S : w[x] = u[x]
  PROVE  Rendered(w, v) = Rendered(u, v)
<1>1. ASSUME NEW s \in Seq(S) PROVE Texts(w, s) = Texts(u, s)
  <2>1. \A n \in DOMAIN s : w[s[n]] = u[s[n]]
    OBVIOUS
  <2> QED
    BY <2>1, Zenon DEF Texts
<1>2. ASSUME NEW s \in Seq(Keyed(S)) PROVE KeyedTexts(w, s) = KeyedTexts(u, s)
  <2>1. \A n \in DOMAIN s : s[n] \in Keyed(S)
    OBVIOUS
  <2>2. \A n \in DOMAIN s : w[s[n].value] = u[s[n].value]
    BY <2>1 DEF Keyed
  <2> QED
    BY <2>2, Zenon DEF KeyedTexts
<1>3. CASE v.kind \in {"literal", "name"}
  <2>1. Rendered(w, v) = <<v.text>> /\ Rendered(u, v) = <<v.text>>
    BY <1>3 DEF Rendered
  <2> QED
    BY <2>1
<1>4. CASE v.kind = "list" /\ v.items \in Seq(S)
  <2>1. /\ Rendered(w, v) = <<"[">> \o Commas(Texts(w, v.items)) \o <<"]">>
        /\ Rendered(u, v) = <<"[">> \o Commas(Texts(u, v.items)) \o <<"]">>
    BY <1>4 DEF Rendered
  <2>2. Texts(w, v.items) = Texts(u, v.items)
    BY <1>1, <1>4
  <2> QED
    BY <2>1, <2>2, Zenon
<1>5. CASE v.kind = "call" /\ v.base \in S /\ v.args \in Seq(S) /\ v.kwargs \in Seq(Keyed(S))
  <2> DEFINE Texted(t) == t[v.base] \o <<"(">> \o Commas(Texts(t, v.args) \o KeyedTexts(t, v.kwargs)) \o <<")">>
  <2>1. Rendered(w, v) = Texted(w) /\ Rendered(u, v) = Texted(u)
    BY <1>5 DEF Rendered
  <2>2. Texts(w, v.args) = Texts(u, v.args) /\ KeyedTexts(w, v.kwargs) = KeyedTexts(u, v.kwargs)
        /\ w[v.base] = u[v.base]
    BY <1>1, <1>2, <1>5
  <2> QED
    BY <2>1, <2>2, Zenon
<1> QED
  BY <1>3, <1>4, <1>5 DEF Made

\* The values read below a height.
Low(ts, h) == {Readings(ts)[p].value : p \in {q \in {"primary", "value"} \X (1 .. Len(ts)) :
                                                Readings(ts)[q].next # 0 /\ Height(ts, q) < h}}

\* A value is made of lower ones.
LEMMA LowMade ==
  ASSUME NEW ts \in Seq(Tokens), NEW h \in Nat, NEW v \in Low(ts, h + 1)
  PROVE  Made(v, Low(ts, h))
<1>1. PICK form \in {"primary", "value"}, n \in 1 .. Len(ts) :
        /\ v = Readings(ts)[<<form, n>>].value /\ Readings(ts)[<<form, n>>].next # 0
        /\ Height(ts, <<form, n>>) < h + 1
  <2>1. PICK p \in {"primary", "value"} \X (1 .. Len(ts)) :
          v = Readings(ts)[p].value /\ Readings(ts)[p].next # 0 /\ Height(ts, p) < h + 1
    BY DEF Low
  <2>2. p = <<p[1], p[2]>> /\ p[1] \in {"primary", "value"} /\ p[2] \in 1 .. Len(ts)
    OBVIOUS
  <2> QED
    BY <2>1, <2>2, Zenon
<1>2. Len(ts) \in Nat /\ n \in Nat /\ n + 1 \in Nat /\ n \in 1 .. Len(ts) + 1
  OBVIOUS
<1>3. /\ \A m : Height(ts, <<"primary", m>>) = 5 * (Len(ts) + 1 - m) + 0
      /\ \A m : Height(ts, <<"value", m>>) = 5 * (Len(ts) + 1 - m) + 2
  BY DEF Height, Level
<1>4. From(ts, n + 1) \subseteq Low(ts, h)
  <2> SUFFICES ASSUME NEW f \in {"primary", "value"}, NEW m \in 1 .. Len(ts),
                      Readings(ts)[<<f, m>>].next # 0, m >= n + 1
               PROVE  Readings(ts)[<<f, m>>].value \in Low(ts, h)
    BY DEF From
  <2>1. Height(ts, <<f, m>>) <= 5 * (Len(ts) + 1 - m) + 2
    BY <1>3
  <2>2. Height(ts, <<form, n>>) >= 5 * (Len(ts) + 1 - n)
    BY <1>3
  <2>3. /\ Height(ts, <<f, m>>) \in Int /\ Height(ts, <<form, n>>) \in Int
    BY <1>3
  <2>4. Height(ts, <<f, m>>) < h
    <3> DEFINE a == Height(ts, <<f, m>>)
               b == Height(ts, <<form, n>>)
    <3>1. a \in Int /\ b \in Int /\ a <= 5 * (Len(ts) + 1 - m) + 2 /\ b >= 5 * (Len(ts) + 1 - n) /\ b < h + 1
      BY <1>1, <2>1, <2>2, <2>3
    <3> HIDE DEF a, b
    <3>2. a < h
      BY <1>2, <3>1
    <3> QED
      BY <3>2 DEF a
  <2>5. <<f, m>> \in {"primary", "value"} \X (1 .. Len(ts))
    OBVIOUS
  <2> QED
    BY <2>4, <2>5 DEF Low
<1>5. CASE form = "primary"
  <2>1. Found(ts, "primary", n) /\ v = Read(ts, "primary", n).value
    BY <1>1, <1>2, <1>5 DEF Found, Read
  <2>2. Made(v, From(ts, n + 1))
    BY <2>1, PrimaryMade
  <2> QED
    BY <1>4, <2>2, MadeLarger, Zenon
<1>6. CASE form = "value"
  <2>1. Found(ts, "value", n) /\ v = Read(ts, "value", n).value
    BY <1>1, <1>2, <1>6 DEF Found, Read
  <2>2. Made(v, From(ts, n + 1) \cup {Read(ts, "primary", n).value})
    BY <2>1, ValueMade
  <2>3. Read(ts, "primary", n).value \in Low(ts, h)
    <3>1. Found(ts, "primary", n)
      BY <2>1, ValueRead
    <3>2. Height(ts, <<"primary", n>>) < h
      <4>1. 5 * (Len(ts) + 1 - n) + 2 < h + 1
        BY <1>1, <1>3, <1>6
      <4>2. 5 * (Len(ts) + 1 - n) + 0 < h
        BY <1>2, <4>1
      <4> QED
        BY <1>3, <4>2
    <3>3. <<"primary", n>> \in {"primary", "value"} \X (1 .. Len(ts))
      OBVIOUS
    <3> QED
      BY <3>1, <3>2, <3>3 DEF Low, Found, Read
  <2>4. From(ts, n + 1) \cup {Read(ts, "primary", n).value} \subseteq Low(ts, h)
    BY <1>4, <2>3
  <2> QED
    BY <2>2, <2>4, MadeLarger, Zenon
<1> QED
  BY <1>5, <1>6

\* w is what is written for the values below h.
RendersBelow(ts, w, h) ==
  /\ w = [v \in Said(ts) |-> w[v]]
  /\ \A v \in Low(ts, h) : w[v] = Rendered(w, v)

LEMMA LowSaid ==
  \A ts \in Seq(Tokens) : /\ Low(ts, 0) = {} /\ Low(ts, 5 * (Len(ts) + 1)) = Said(ts)
                          /\ \A h \in Nat : Low(ts, h) \subseteq Low(ts, h + 1) /\ Low(ts, h) \subseteq Said(ts)
<1> SUFFICES ASSUME NEW ts \in Seq(Tokens)
             PROVE  /\ Low(ts, 0) = {} /\ Low(ts, 5 * (Len(ts) + 1)) = Said(ts)
                    /\ \A h \in Nat : Low(ts, h) \subseteq Low(ts, h + 1) /\ Low(ts, h) \subseteq Said(ts)
  OBVIOUS
<1>1. \A q \in {"primary", "value"} \X (1 .. Len(ts)) :
        Height(ts, q) \in Nat /\ Height(ts, q) < 5 * (Len(ts) + 1) /\ ~ (Height(ts, q) < 0)
  <2>1. {"primary", "value"} \X (1 .. Len(ts)) \subseteq Places(ts)
    BY DEF Places, Forms
  <2>2. \A q \in Places(ts) : Height(ts, q) \in Nat /\ Height(ts, q) < 5 * (Len(ts) + 1)
    BY HeightBounds
  <2>3. \A a \in Nat : ~ (a < 0)
    OBVIOUS
  <2> QED
    BY <2>1, <2>2, <2>3
<1>2. \A h \in Nat : Low(ts, h) \subseteq Low(ts, h + 1)
  <2>1. \A a, h \in Nat : a < h => a < h + 1
    OBVIOUS
  <2> QED
    BY <1>1, <2>1 DEF Low
<1>3. Low(ts, 0) = {}
  BY <1>1 DEF Low
<1>4. Low(ts, 5 * (Len(ts) + 1)) = Said(ts)
  BY <1>1 DEF Low, Said
<1>5. \A h \in Nat : Low(ts, h) \subseteq Said(ts)
  BY DEF Low, Said
<1> QED
  BY <1>2, <1>3, <1>4, <1>5

\* One level more can always be written.
LEMMA RendersMore ==
  ASSUME NEW ts \in Seq(Tokens), NEW h \in Nat, NEW w, RendersBelow(ts, w, h)
  PROVE  \E u : RendersBelow(ts, u, h + 1)
<1> DEFINE u == [v \in Said(ts) |-> IF v \in Low(ts, h) THEN w[v] ELSE Rendered(w, v)]
<1>1. Low(ts, h) \subseteq Said(ts) /\ Low(ts, h + 1) \subseteq Said(ts)
  BY LowSaid
<1>2. \A x \in Low(ts, h) : w[x] = u[x]
  BY <1>1
<1>3. ASSUME NEW v \in Low(ts, h + 1) PROVE u[v] = Rendered(u, v)
  <2>1. Made(v, Low(ts, h))
    BY LowMade
  <2>2. Rendered(w, v) = Rendered(u, v)
    <3> HIDE DEF u
    <3> QED
      BY <1>2, <2>1, RenderedAgrees
  <2>3. u[v] = Rendered(w, v)
    <3>1. CASE v \in Low(ts, h)
      <4>1. w[v] = Rendered(w, v)
        BY <3>1 DEF RendersBelow
      <4> QED
        BY <1>2, <3>1, <4>1
    <3>2. CASE v \notin Low(ts, h)
      BY <1>1, <3>2
    <3> QED
      BY <3>1, <3>2
  <2> QED
    BY <2>2, <2>3
<1>4. u = [v \in Said(ts) |-> u[v]]
  OBVIOUS
<1>5. RendersBelow(ts, u, h + 1)
  <2> HIDE DEF u
  <2> QED
    BY <1>3, <1>4 DEF RendersBelow
<1> QED
  BY <1>5

\* What is written for a value is what Rendered says of its parts.
LEMMA RenderingIs ==
  \A ts \in Seq(Tokens) : \A v \in Said(ts) : Rendering(ts)[v] = Rendered(Rendering(ts), v)
<1> SUFFICES ASSUME NEW ts \in Seq(Tokens)
             PROVE  \A v \in Said(ts) : Rendering(ts)[v] = Rendered(Rendering(ts), v)
  OBVIOUS
<1> DEFINE Missing == {h \in Nat : ~ \E w : RendersBelow(ts, w, h)}
           Renders(w) == w = [v \in Said(ts) |-> Rendered(w, v)]
           rendering == CHOOSE w : Renders(w)
<1>1. Missing = {}
  <2> SUFFICES ASSUME Missing # {} PROVE FALSE
    OBVIOUS
  <2>1. PICK h \in Missing : \A n \in Missing : h <= n
    <3>1. Missing \in SUBSET Nat
      OBVIOUS
    <3> HIDE DEF Missing
    <3> QED
      BY <3>1, LeastNatural
  <2>2. h # 0
    <3> DEFINE w == [v \in Said(ts) |-> 0]
    <3>1. w = [v \in Said(ts) |-> w[v]]
      OBVIOUS
    <3>2. RendersBelow(ts, w, 0)
      <4> HIDE DEF w
      <4> QED
        BY <3>1, LowSaid DEF RendersBelow
    <3> QED
      BY <2>1, <3>2
  <2>3. h \in Nat /\ h - 1 \in Nat /\ ~ (h <= h - 1) /\ h - 1 + 1 = h
    BY <2>1, <2>2
  <2>4. PICK w : RendersBelow(ts, w, h - 1)
    BY <2>1, <2>3
  <2>5. \E u : RendersBelow(ts, u, h - 1 + 1)
    BY <2>3, <2>4, RendersMore
  <2> QED
    BY <2>1, <2>3, <2>5
<1>2. 5 * (Len(ts) + 1) \in Nat
  OBVIOUS
<1>3. PICK w : RendersBelow(ts, w, 5 * (Len(ts) + 1))
  BY <1>1, <1>2
<1>4. \A v \in Said(ts) : w[v] = Rendered(w, v)
  BY <1>3, LowSaid DEF RendersBelow
<1>5. w = [v \in Said(ts) |-> w[v]]
  BY <1>3 DEF RendersBelow
<1>6. Renders(w)
  BY <1>4, <1>5, Zenon
<1>7. Renders(rendering)
  <2> HIDE DEF Renders
  <2> QED
    BY <1>6
<1>8. Rendering(ts) = rendering
  BY Zenon DEF Rendering
<1> HIDE DEF rendering
<1>9. \A v \in Said(ts) : rendering[v] = Rendered(rendering, v)
  BY <1>7
<1> QED
  BY <1>8, <1>9

-----------------------------------------------------------------------------
(* What is written *)

SS == Seq(Seq(Tokens))

\* Functions on 1 .. n are sequences.
LEMMA FunctionSeq ==
  \A T : \A n \in Nat : \A P \in [1 .. n -> T] : P \in Seq(T) /\ Len(P) = n /\ DOMAIN P = 1 .. n
<1> SUFFICES ASSUME NEW T, NEW n \in Nat, NEW P \in [1 .. n -> T]
             PROVE  P \in Seq(T) /\ Len(P) = n /\ DOMAIN P = 1 .. n
  OBVIOUS
<1>1. P \in Seq(T)
  BY SeqDef
<1>2. DOMAIN P = 1 .. n
  OBVIOUS
<1> QED
  BY <1>1, <1>2

\* Joining sequences.
LEMMA Joined ==
  \A T : \A a, b \in Seq(T) :
    /\ a \o b \in Seq(T) /\ Len(a \o b) = Len(a) + Len(b) /\ Len(a) \in Nat /\ Len(b) \in Nat
    /\ \A i \in 1 .. Len(a) : (a \o b)[i] = a[i]
    /\ \A i \in 1 .. Len(b) : (a \o b)[Len(a) + i] = b[i]
    /\ <<>> \o a = a /\ a \o <<>> = a
OBVIOUS

\* x is the text from n up to m.
Spells(ts, n, m, x) ==
  /\ n \in Nat /\ m \in Nat /\ 1 <= n /\ n <= m /\ m <= Len(ts) + 1
  /\ x \in Seq(Tokens) /\ Len(x) = m - n /\ \A i \in 1 .. m - n : x[i] = ts[n + i - 1]

\* Two pieces of the text, one after the other.
LEMMA SpellsMore ==
  \A ts \in Seq(Tokens) : \A n, m, k, x, y :
    Spells(ts, n, m, x) /\ Spells(ts, m, k, y) => Spells(ts, n, k, x \o y)
<1> SUFFICES ASSUME NEW ts \in Seq(Tokens), NEW n, NEW m, NEW k, NEW x, NEW y,
                    Spells(ts, n, m, x), Spells(ts, m, k, y)
             PROVE  Spells(ts, n, k, x \o y)
  OBVIOUS
<1>1. /\ n \in Nat /\ m \in Nat /\ k \in Nat /\ 1 <= n /\ n <= m /\ m <= k /\ k <= Len(ts) + 1
      /\ x \in Seq(Tokens) /\ y \in Seq(Tokens) /\ Len(x) = m - n /\ Len(y) = k - m
      /\ \A i \in 1 .. m - n : x[i] = ts[n + i - 1]
      /\ \A i \in 1 .. k - m : y[i] = ts[m + i - 1]
  BY DEF Spells
<1>2. x \o y \in Seq(Tokens) /\ Len(x \o y) = k - n
  <2>1. x \o y \in Seq(Tokens) /\ Len(x \o y) = Len(x) + Len(y)
    BY <1>1, Joined
  <2> QED
    BY <1>1, <2>1
<1>3. ASSUME NEW i \in 1 .. k - n PROVE (x \o y)[i] = ts[n + i - 1]
  <2>1. CASE i <= m - n
    <3>1. i \in 1 .. m - n
      BY <1>1, <2>1
    <3>2. (x \o y)[i] = x[i]
      BY <1>1, <3>1, Joined
    <3> QED
      BY <1>1, <3>1, <3>2
  <2>2. CASE i > m - n
    <3>0. i - (m - n) \in 1 .. k - m /\ (m - n) + (i - (m - n)) = i
      BY <1>1, <2>2
    <3>1. (x \o y)[i] = y[i - (m - n)] /\ i - (m - n) \in 1 .. k - m
      <4>1. (x \o y)[Len(x) + (i - (m - n))] = y[i - (m - n)]
        BY <1>1, <3>0, Joined
      <4> QED
        BY <1>1, <3>0, <4>1
    <3>2. m + (i - (m - n)) - 1 = n + i - 1
      BY <1>1
    <3>3. y[i - (m - n)] = ts[m + (i - (m - n)) - 1]
      BY <1>1, <3>1
    <3> QED
      BY <3>1, <3>2, <3>3
  <2> QED
    BY <1>1, <2>1, <2>2
<1> QED
  BY <1>1, <1>2, <1>3 DEF Spells

\* A piece of one token, and one of none.
LEMMA SpellsOne ==
  \A ts \in Seq(Tokens) :
    /\ \A n \in 1 .. Len(ts) : Spells(ts, n, n + 1, <<ts[n]>>)
    /\ \A n \in 1 .. Len(ts) + 1 : Spells(ts, n, n, <<>>)
<1> SUFFICES ASSUME NEW ts \in Seq(Tokens)
             PROVE  /\ \A n \in 1 .. Len(ts) : Spells(ts, n, n + 1, <<ts[n]>>)
                    /\ \A n \in 1 .. Len(ts) + 1 : Spells(ts, n, n, <<>>)
  OBVIOUS
<1>1. ASSUME NEW n \in 1 .. Len(ts) PROVE Spells(ts, n, n + 1, <<ts[n]>>)
  <2>1. <<ts[n]>> \in Seq(Tokens) /\ Len(<<ts[n]>>) = 1 /\ <<ts[n]>>[1] = ts[n]
    OBVIOUS
  <2>2. n + 1 - n = 1 /\ \A i \in 1 .. 1 : i = 1 /\ n + i - 1 = n
    OBVIOUS
  <2> QED
    BY <2>1, <2>2 DEF Spells
<1>2. ASSUME NEW n \in 1 .. Len(ts) + 1 PROVE Spells(ts, n, n, <<>>)
  BY DEF Spells
<1> QED
  BY <1>1, <1>2

\* Texts joined, as the proofs below use it.
LEMMA TokensJoined ==
  \A a, b \in Seq(Tokens) :
    /\ a \o b \in Seq(Tokens) /\ Len(a \o b) = Len(a) + Len(b) /\ Len(a) \in Nat /\ Len(b) \in Nat
    /\ \A i \in 1 .. Len(b) : (a \o b)[Len(a) + i] = b[i]
    /\ <<>> \o a = a /\ a \o <<>> = a
OBVIOUS

LEMMA TokensRegrouped ==
  \A a, b, d \in Seq(Tokens) : (a \o b) \o d = a \o (b \o d)
OBVIOUS

\* What follows the first token of a text.
LEMMA TailAfter ==
  ASSUME NEW c \in Seq(Tokens), Len(c) = 1, NEW y \in Seq(Tokens)
  PROVE  Tail(c \o y) = y
<1> DEFINE a == c \o y
           t == Tail(a)
<1>1. a \in Seq(Tokens) /\ Len(a) = Len(y) + 1 /\ Len(y) \in Nat /\ \A i \in 1 .. Len(y) : a[Len(c) + i] = y[i]
  <2>1. Len(a) = Len(c) + Len(y) /\ a \in Seq(Tokens) /\ Len(y) \in Nat
        /\ \A i \in 1 .. Len(y) : a[Len(c) + i] = y[i]
    BY TokensJoined, Zenon
  <2> HIDE DEF a
  <2> QED
    BY <2>1
<1> HIDE DEF a
<1>2. \A i \in 1 .. Len(y) : a[i + 1] = y[i]
  <2>1. \A i \in 1 .. Len(y) : Len(c) + i = i + 1
    OBVIOUS
  <2> QED
    BY <1>1, <2>1
<1>3. a # <<>>
  BY <1>1
<1>4. t \in Seq(Tokens) /\ Len(t) = Len(y) /\ \A i \in 1 .. Len(y) : t[i] = a[i + 1]
  BY <1>1, <1>3
<1> HIDE DEF t
<1>5. \A i \in 1 .. Len(t) : t[i] = y[i]
  BY <1>2, <1>4
<1>6. t = y
  BY <1>4, <1>5, SeqEqual
<1> QED
  BY <1>6 DEF t, a

\* The first text, a comma, and the others.
LEMMA CommasFront ==
  \A x \in Seq(Tokens) : \A s \in SS :
    /\ <<x>> \o s \in SS /\ <<x>> \o s # <<>>
    /\ Commas(<<x>> \o s) = IF s = <<>> THEN x ELSE x \o <<Comma>> \o Commas(s)
<1> SUFFICES ASSUME NEW x \in Seq(Tokens), NEW s \in SS
             PROVE  /\ <<x>> \o s \in SS /\ <<x>> \o s # <<>>
                    /\ Commas(<<x>> \o s) = IF s = <<>> THEN x ELSE x \o <<Comma>> \o Commas(s)
  OBVIOUS
<1> DEFINE c == <<Comma>>
           z == <<x>> \o s
           P == [n \in DOMAIN z |-> c \o z[n]]
           Q == [n \in DOMAIN s |-> c \o s[n]]
<1>0. c \in Seq(Tokens) /\ Len(c) = 1
  BY CommaIs
<1>1. /\ z \in SS /\ Len(z) = Len(s) + 1 /\ Len(s) \in Nat /\ z[1] = x
      /\ \A i \in 1 .. Len(s) : z[i + 1] = s[i]
  <2> HIDE DEF z
  <2> QED
    BY OnFront DEF SS, z
<1> HIDE DEF c, z
<1>2. /\ DOMAIN z = 1 .. Len(s) + 1 /\ DOMAIN s = 1 .. Len(s)
      /\ (\A i \in 1 .. Len(s) + 1 : z[i] \in Seq(Tokens)) /\ \A i \in 1 .. Len(s) : s[i] \in Seq(Tokens)
  BY <1>1 DEF SS
<1>3. /\ P \in Seq(Seq(Tokens)) /\ Q \in Seq(Seq(Tokens)) /\ Len(P) = Len(s) + 1 /\ Len(Q) = Len(s)
      /\ P[1] = c \o x /\ \A i \in 1 .. Len(s) : P[i + 1] = Q[i]
  <2>1. /\ \A i \in 1 .. Len(s) + 1 : c \o z[i] \in Seq(Tokens)
        /\ \A i \in 1 .. Len(s) : c \o s[i] \in Seq(Tokens)
    BY <1>0, <1>2
  <2>2. P = [n \in 1 .. Len(s) + 1 |-> c \o z[n]] /\ Q = [n \in 1 .. Len(s) |-> c \o s[n]]
    BY <1>2, Zenon
  <2>3. P \in [1 .. Len(s) + 1 -> Seq(Tokens)] /\ Q \in [1 .. Len(s) -> Seq(Tokens)]
    BY <2>1, <2>2, Zenon
  <2>4. Len(s) + 1 \in Nat
    BY <1>1
  <2>5. /\ P \in Seq(Seq(Tokens)) /\ Q \in Seq(Seq(Tokens)) /\ Len(P) = Len(s) + 1 /\ Len(Q) = Len(s)
    <3> HIDE DEF P, Q
    <3> QED
      BY <1>1, <2>3, <2>4, FunctionSeq
  <2>6. P[1] = c \o x
    <3>1. 1 \in 1 .. Len(s) + 1
      BY <1>1
    <3>2. P[1] = c \o z[1]
      BY <1>2, <3>1, Zenon
    <3> QED
      BY <1>1, <3>2
  <2>7. ASSUME NEW i \in 1 .. Len(s) PROVE P[i + 1] = Q[i]
    <3>1. i + 1 \in 1 .. Len(s) + 1
      BY <1>1
    <3>2. P[i + 1] = c \o z[i + 1] /\ Q[i] = c \o s[i]
      BY <1>2, <3>1, Zenon
    <3> QED
      BY <1>1, <3>2
  <2> QED
    BY <2>5, <2>6, <2>7
<1>4. PICK f \in [0 .. Len(P) -> Seq(Tokens)] :
        f[0] = <<>> /\ (\A k \in 1 .. Len(P) : f[k] = f[k - 1] \o P[k]) /\ FlattenSeq(P) = f[Len(P)]
  <2> HIDE DEF P
  <2> QED
    BY <1>3, FlattenSteps
<1>5. PICK g \in [0 .. Len(Q) -> Seq(Tokens)] :
        g[0] = <<>> /\ (\A k \in 1 .. Len(Q) : g[k] = g[k - 1] \o Q[k]) /\ FlattenSeq(Q) = g[Len(Q)]
  <2> HIDE DEF Q
  <2> QED
    BY <1>3, FlattenSteps
<1>6. f[1] = c \o x
  <2>1. 1 \in 1 .. Len(P) /\ 1 - 1 = 0
    BY <1>1, <1>3
  <2>2. f[1] = <<>> \o P[1]
    BY <1>4, <2>1
  <2>3. c \o x \in Seq(Tokens)
    BY <1>0
  <2> QED
    BY <1>3, <2>2, <2>3
<1> HIDE DEF P, Q
<1> DEFINE Off == {k \in 0 .. Len(s) : f[k + 1] # (c \o x) \o g[k]}
<1>7. Off = {}
  <2> SUFFICES ASSUME Off # {} PROVE FALSE
    OBVIOUS
  <2>1. PICK k \in Off : \A n \in Off : k <= n
    <3>1. Off \subseteq 0 .. Len(s)
      BY Zenon
    <3> HIDE DEF Off
    <3>2. Off \in SUBSET Nat
      BY <1>1, <3>1
    <3> QED
      BY <3>2, LeastNatural
  <2>2. k \in 0 .. Len(s) /\ f[k + 1] # (c \o x) \o g[k]
    BY <2>1
  <2>3. c \o x \in Seq(Tokens) /\ (c \o x) \o <<>> = c \o x
    BY <1>0
  <2>4. k # 0
    <3>1. k = 0 => f[k + 1] = f[1] /\ g[k] = <<>>
      BY <1>5
    <3> QED
      BY <1>6, <2>2, <2>3, <3>1, Zenon
  <2>5. k \in 1 .. Len(s) /\ k - 1 \in 0 .. Len(s) /\ k + 1 \in 1 .. Len(P) /\ k \in 1 .. Len(Q) /\ k + 1 - 1 = k
        /\ k - 1 + 1 = k /\ ~ (k <= k - 1) /\ k - 1 \in 0 .. Len(Q)
    BY <1>1, <1>3, <2>2, <2>4
  <2>6. f[k] = (c \o x) \o g[k - 1]
    <3>1. k - 1 \notin Off
      BY <2>1, <2>5
    <3> QED
      BY <2>5, <3>1
  <2>7. f[k + 1] = f[k] \o P[k + 1] /\ g[k] = g[k - 1] \o Q[k] /\ P[k + 1] = Q[k]
    <3>1. f[k + 1] = f[k] \o P[k + 1]
      <4>1. \A j \in 1 .. Len(P) : f[j] = f[j - 1] \o P[j]
        BY <1>4
      <4>2. \A j \in 1 .. Len(P) : \A i : i = j - 1 => f[j] = f[i] \o P[j]
        BY <4>1
      <4>3. k = (k + 1) - 1
        BY <2>2
      <4> QED
        BY <2>5, <4>2, <4>3
    <3>2. g[k] = g[k - 1] \o Q[k]
      BY <1>5, <2>5, Zenon
    <3>3. P[k + 1] = Q[k]
      BY <1>3, <2>5, Zenon
    <3> QED
      BY <2>5, <3>1, <3>2, <3>3, Zenon
  <2>8. g[k - 1] \in Seq(Tokens) /\ Q[k] \in Seq(Tokens)
    <3>1. g[k - 1] \in Seq(Tokens)
      BY <1>5, <2>5, Zenon
    <3>2. \A R \in Seq(Seq(Tokens)) : \A i \in 1 .. Len(R) : R[i] \in Seq(Tokens)
      OBVIOUS
    <3> QED
      BY <1>3, <2>5, <3>1, <3>2, Zenon
  <2>9. ((c \o x) \o g[k - 1]) \o Q[k] = (c \o x) \o (g[k - 1] \o Q[k])
    BY <2>3, <2>8, TokensRegrouped, Zenon
  <2> QED
    BY <2>2, <2>6, <2>7, <2>9, Zenon
<1>8. f[Len(P)] = (c \o x) \o g[Len(Q)] /\ g[Len(Q)] \in Seq(Tokens)
  <2>1. Len(s) \in 0 .. Len(s) /\ Len(Q) \in 0 .. Len(Q) /\ Len(Q) = Len(s) /\ Len(P) = Len(s) + 1
    BY <1>1, <1>3
  <2>2. Len(s) \notin Off
    BY <1>7
  <2>3. f[Len(s) + 1] = (c \o x) \o g[Len(s)]
    BY <2>1, <2>2
  <2> QED
    BY <1>5, <2>1, <2>3
<1>9. \A y \in Seq(Tokens) : Tail(c \o y) = y
  BY <1>0, TailAfter
<1>10. Commas(z) = x \o g[Len(Q)]
  <2>1. z # <<>>
    BY <1>1
  <2>2. Commas(z) = Tail((c \o x) \o g[Len(Q)])
    BY <1>4, <1>8, <2>1, Zenon DEF Commas, P, c
  <2>3. (c \o x) \o g[Len(Q)] = c \o (x \o g[Len(Q)]) /\ x \o g[Len(Q)] \in Seq(Tokens)
    <3> DEFINE y == g[Len(Q)]
    <3>1. y \in Seq(Tokens)
      BY <1>8
    <3> HIDE DEF y
    <3>2. (c \o x) \o y = c \o (x \o y) /\ x \o y \in Seq(Tokens)
      BY <1>0, <3>1
    <3> QED
      BY <3>2 DEF y
  <2> QED
    BY <1>9, <2>2, <2>3
<1>11. CASE s = <<>>
  <2>1. Len(Q) = 0
    BY <1>3, <1>11
  <2>2. x \o <<>> = x
    OBVIOUS
  <2>3. g[Len(Q)] = <<>> /\ z \in SS /\ z # <<>>
    BY <1>1, <1>5, <2>1
  <2> QED
    BY <1>10, <1>11, <2>2, <2>3, Zenon DEF z
<1>12. CASE s # <<>>
  <2>1. Commas(s) = Tail(g[Len(Q)])
    BY <1>5, <1>12, Zenon DEF Commas, Q, c
  <2>2. g[Len(Q)] = c \o Commas(s) /\ Commas(s) \in Seq(Tokens)
    <3>1. PICK y \in Seq(Tokens) : g[Len(Q)] = c \o y
      <4> DEFINE Bare0 == {k \in 1 .. Len(s) : ~ \E y \in Seq(Tokens) : g[k] = c \o y}
      <4>1. Bare0 = {}
        <5> SUFFICES ASSUME Bare0 # {} PROVE FALSE
          OBVIOUS
        <5>1. PICK k \in Bare0 : \A n \in Bare0 : k <= n
          <6>1. Bare0 \in SUBSET Nat
            BY <1>1
          <6> HIDE DEF Bare0
          <6> QED
            BY <6>1, LeastNatural
        <5>2. k \in 1 .. Len(s) /\ k \in 1 .. Len(Q) /\ ~ \E y \in Seq(Tokens) : g[k] = c \o y
          BY <1>3, <5>1
        <5>3. g[k] = g[k - 1] \o Q[k] /\ Q[k] = c \o s[k] /\ s[k] \in Seq(Tokens)
          BY <1>2, <1>5, <5>2 DEF Q
        <5>4. k # 1
          <6>1. k = 1 => g[k - 1] = <<>>
            BY <1>5
          <6>2. c \o s[k] \in Seq(Tokens)
            BY <1>0, <5>3
          <6>3. <<>> \o (c \o s[k]) = c \o s[k]
            BY <6>2
          <6> QED
            BY <5>2, <5>3, <6>1, <6>3
        <5>5. k - 1 \in 1 .. Len(s) /\ ~ (k <= k - 1)
          BY <1>1, <5>2, <5>4
        <5>6. k - 1 \notin Bare0
          BY <5>1, <5>5
        <5>7. PICK y \in Seq(Tokens) : g[k - 1] = c \o y
          BY <5>5, <5>6
        <5>8. Q[k] \in Seq(Tokens)
          BY <1>0, <5>3
        <5>9. (c \o y) \o Q[k] = c \o (y \o Q[k]) /\ y \o Q[k] \in Seq(Tokens)
          <6> DEFINE q == Q[k]
          <6>1. q \in Seq(Tokens) /\ y \in Seq(Tokens)
            BY <5>7, <5>8, Zenon
          <6> HIDE DEF q
          <6>2. (c \o y) \o q = c \o (y \o q)
            BY <1>0, <6>1, TokensRegrouped
          <6>3. y \o q \in Seq(Tokens)
            BY <6>1
          <6> QED
            BY <6>2, <6>3 DEF q
        <5> QED
          BY <5>2, <5>3, <5>7, <5>9
      <4>2. Len(s) \in 1 .. Len(s) /\ Len(Q) = Len(s)
        BY <1>1, <1>3, <1>12
      <4> QED
        BY <4>1, <4>2
    <3>2. Tail(g[Len(Q)]) = y
      BY <1>9, <3>1
    <3> QED
      BY <2>1, <3>1, <3>2
  <2>3. (x \o c) \o Commas(s) = x \o (c \o Commas(s))
    BY <1>0, <2>2
  <2>4. Commas(z) = (x \o c) \o Commas(s)
    BY <1>10, <2>2, <2>3, Zenon
  <2>5. z \in SS /\ z # <<>>
    BY <1>1
  <2> QED
    BY <1>12, <2>4, <2>5, Zenon DEF z, c
<1> QED
  BY <1>11, <1>12

\* A text and the next token.
LEMMA SpellsToken ==
  \A ts \in Seq(Tokens) :
    /\ \A n \in Int : At(ts, n) # "no-token" => n \in 1 .. Len(ts) /\ Spells(ts, n, n + 1, <<At(ts, n)>>)
    /\ \A n, m, x : Spells(ts, n, m, x) /\ At(ts, m) # "no-token"
                      => m \in 1 .. Len(ts) /\ Spells(ts, n, m + 1, x \o <<At(ts, m)>>)
<1> SUFFICES ASSUME NEW ts \in Seq(Tokens)
             PROVE  /\ \A n \in Int : At(ts, n) # "no-token"
                                        => n \in 1 .. Len(ts) /\ Spells(ts, n, n + 1, <<At(ts, n)>>)
                    /\ \A n, m, x : Spells(ts, n, m, x) /\ At(ts, m) # "no-token"
                                      => m \in 1 .. Len(ts) /\ Spells(ts, n, m + 1, x \o <<At(ts, m)>>)
  OBVIOUS
<1>1. ASSUME NEW n \in Int, At(ts, n) # "no-token"
      PROVE  n \in 1 .. Len(ts) /\ Spells(ts, n, n + 1, <<At(ts, n)>>)
  <2>1. n \in 1 .. Len(ts) /\ At(ts, n) = ts[n]
    BY <1>1, AtToken
  <2> QED
    BY <2>1, SpellsOne
<1>2. ASSUME NEW n, NEW m, NEW x, Spells(ts, n, m, x), At(ts, m) # "no-token"
      PROVE  m \in 1 .. Len(ts) /\ Spells(ts, n, m + 1, x \o <<At(ts, m)>>)
  <2>1. m \in Int
    BY <1>2 DEF Spells
  <2>2. m \in 1 .. Len(ts) /\ Spells(ts, m, m + 1, <<At(ts, m)>>)
    BY <1>1, <1>2, <2>1
  <2> QED
    BY <1>2, <2>2, SpellsMore
<1> QED
  BY <1>1, <1>2

Maps(h, S, T) == \A v \in S : h[v] \in T
Mapped(h, u) == [n \in DOMAIN u |-> h[u[n]]]
MapsFront(h, T, a, s) == Mapped(h, s) \in Seq(T) /\ Mapped(h, <<a>> \o s) = <<h[a]>> \o Mapped(h, s)

\* What is written for the values of a sequence, and for those of named parts.
LEMMA MappedFront ==
  \A S, T, h : Maps(h, S, T) =>
    \A a \in S : \A s \in Seq(S) : MapsFront(h, T, a, s)
<1> SUFFICES ASSUME NEW S, NEW T, NEW h, Maps(h, S, T), NEW a \in S, NEW s \in Seq(S)
             PROVE  MapsFront(h, T, a, s)
  OBVIOUS
<1>0. \A v \in S : h[v] \in T
  BY DEF Maps
<1> DEFINE z == <<a>> \o s
           P == [n \in DOMAIN z |-> h[z[n]]]
           Q == [n \in DOMAIN s |-> h[s[n]]]
           R == <<h[a]>> \o Q
<1>1. /\ z \in Seq(S) /\ Len(z) = Len(s) + 1 /\ Len(s) \in Nat /\ z[1] = a
      /\ \A i \in 1 .. Len(s) : z[i + 1] = s[i]
  <2> HIDE DEF z
  <2> QED
    BY OnFront DEF z
<1> HIDE DEF z
<1>2. /\ DOMAIN z = 1 .. Len(s) + 1 /\ DOMAIN s = 1 .. Len(s)
      /\ (\A i \in 1 .. Len(s) + 1 : z[i] \in S) /\ \A i \in 1 .. Len(s) : s[i] \in S
  BY <1>1
<1>3. P \in Seq(T) /\ Q \in Seq(T) /\ Len(P) = Len(s) + 1 /\ Len(Q) = Len(s)
  <2>1. P = [n \in 1 .. Len(s) + 1 |-> h[z[n]]] /\ Q = [n \in 1 .. Len(s) |-> h[s[n]]]
    BY <1>2, Zenon
  <2>2. P \in [1 .. Len(s) + 1 -> T] /\ Q \in [1 .. Len(s) -> T]
    BY <1>0, <1>2, <2>1, Zenon
  <2>3. Len(s) + 1 \in Nat
    BY <1>1
  <2> HIDE DEF P, Q
  <2> QED
    BY <1>1, <2>2, <2>3, FunctionSeq
<1>4. /\ \A i \in 1 .. Len(s) + 1 : P[i] = h[z[i]]
      /\ \A i \in 1 .. Len(s) : Q[i] = h[s[i]]
  BY <1>2, Zenon
<1> HIDE DEF P, Q
<1>5. h[a] \in T
  BY <1>0
<1>6. /\ R \in Seq(T) /\ Len(R) = Len(s) + 1 /\ R[1] = h[a]
      /\ \A i \in 1 .. Len(s) : R[i + 1] = Q[i]
  <2> HIDE DEF R
  <2>1. /\ R \in Seq(T) /\ Len(R) = Len(Q) + 1 /\ R[1] = h[a]
        /\ \A i \in 1 .. Len(Q) : R[i + 1] = Q[i]
    BY <1>3, <1>5, OnFront DEF R
  <2> QED
    BY <1>3, <2>1
<1> HIDE DEF R
<1>7. ASSUME NEW i \in 1 .. Len(P) PROVE P[i] = R[i]
  <2>1. CASE i = 1
    <3>1. 1 \in 1 .. Len(s) + 1
      BY <1>1
    <3>2. P[1] = h[z[1]]
      BY <1>4, <3>1
    <3> QED
      BY <1>1, <1>6, <2>1, <3>2
  <2>2. CASE i # 1
    <3>1. i - 1 \in 1 .. Len(s) /\ i - 1 + 1 = i /\ i \in 1 .. Len(s) + 1
      BY <1>1, <1>3, <2>2
    <3>2. z[i] = s[i - 1] /\ R[i] = Q[i - 1]
      <4>1. z[i - 1 + 1] = s[i - 1] /\ R[i - 1 + 1] = Q[i - 1]
        BY <1>1, <1>6, <3>1
      <4> QED
        BY <3>1, <4>1
    <3> QED
      BY <1>4, <3>1, <3>2
  <2> QED
    BY <2>1, <2>2
<1>8. P = R
  BY <1>3, <1>6, <1>7, SeqEqual
<1> QED
  BY <1>3, <1>8, Zenon DEF MapsFront, Mapped, P, Q, R, z

TextsFront(w, S) ==
  \A s \in Seq(S) : \A a \in S : Texts(w, <<a>> \o s) = <<w[a]>> \o Texts(w, s)
KeyedFront(w, S) ==
  \A s \in Seq(Keyed(S)) : \A k \in Tokens : \A v \in S :
    KeyedTexts(w, <<[key |-> k, value |-> v]>> \o s) = <<<<k, "=">> \o w[v]>> \o KeyedTexts(w, s)

\* What is written for one value more in front.
LEMMA TextsAre ==
  ASSUME NEW S, NEW w, \A v \in S : w[v] \in Seq(Tokens)
  PROVE  /\ TextsFront(w, S) /\ KeyedFront(w, S)
         /\ \A s \in Seq(S) : Texts(w, s) \in SS
         /\ \A s \in Seq(Keyed(S)) : KeyedTexts(w, s) \in SS
<1>1. Texts(w, <<>>) = <<>> /\ KeyedTexts(w, <<>>) = <<>>
  BY DEF Texts, KeyedTexts
<1>2. ASSUME NEW s \in Seq(S)
      PROVE  /\ Texts(w, s) \in SS
             /\ \A a \in S : Texts(w, <<a>> \o s) = <<w[a]>> \o Texts(w, s)
  <2>1. ASSUME NEW a \in S
        PROVE  Texts(w, s) \in SS /\ Texts(w, <<a>> \o s) = <<w[a]>> \o Texts(w, s)
    <3> DEFINE T == Seq(Tokens)
    <3>1. Maps(w, S, T)
      BY DEF Maps
    <3> HIDE DEF T
    <3>2. MapsFront(w, T, a, s)
      BY <3>1, MappedFront
    <3> QED
      BY <3>2, Zenon DEF MapsFront, Texts, Mapped, SS, T
  <2>2. CASE s = <<>>
    <3>1. <<>> \in SS
      BY DEF SS
    <3>2. Texts(w, s) \in SS
      BY <1>1, <2>2, <3>1, Zenon
    <3> QED
      BY <2>1, <3>2
  <2>3. CASE s # <<>>
    <3>1. s[1] \in S
      BY <2>3
    <3>2. Texts(w, s) \in SS
      BY <2>1, <3>1
    <3> QED
      BY <2>1, <3>2
  <2> QED
    BY <2>2, <2>3
<1> DEFINE h == [p \in Keyed(S) |-> <<p.key, "=">> \o w[p.value]]
<1>3. \A p \in Keyed(S) : h[p] \in Seq(Tokens)
  <2> SUFFICES ASSUME NEW p \in Keyed(S) PROVE h[p] \in Seq(Tokens)
    OBVIOUS
  <2>1. p.key \in Tokens /\ p.value \in S /\ "=" \in Tokens
    BY CommaIs DEF Keyed
  <2>2. <<p.key, "=">> \in Seq(Tokens) /\ w[p.value] \in Seq(Tokens)
    BY <2>1
  <2>3. <<p.key, "=">> \o w[p.value] \in Seq(Tokens)
    BY <2>2, TokensJoined
  <2> QED
    BY <2>3, Zenon
<1>4. ASSUME NEW s \in Seq(Keyed(S)) PROVE KeyedTexts(w, s) = [n \in DOMAIN s |-> h[s[n]]]
  <2>1. \A n \in DOMAIN s : s[n] \in Keyed(S)
    OBVIOUS
  <2>2. \A n \in DOMAIN s : h[s[n]] = <<s[n].key, "=">> \o w[s[n].value]
    BY <2>1, Zenon
  <2> QED
    BY <2>2, Zenon DEF KeyedTexts
<1>5. ASSUME NEW s \in Seq(Keyed(S)), NEW k \in Tokens, NEW v \in S
      PROVE  /\ KeyedTexts(w, s) \in SS
             /\ KeyedTexts(w, <<[key |-> k, value |-> v]>> \o s) = <<<<k, "=">> \o w[v]>> \o KeyedTexts(w, s)
  <2> DEFINE a == [key |-> k, value |-> v]
             z == <<a>> \o s
  <2>1. a \in Keyed(S) /\ a.key = k /\ a.value = v
    BY DEF Keyed
  <2>2. h[a] = <<k, "=">> \o w[v]
    BY <2>1
  <2> HIDE DEF h, a
  <2>3. z \in Seq(Keyed(S))
    BY <2>1, OnFront
  <2>4. /\ [n \in DOMAIN s |-> h[s[n]]] \in Seq(Seq(Tokens))
        /\ [n \in DOMAIN z |-> h[z[n]]] = <<h[a]>> \o [n \in DOMAIN s |-> h[s[n]]]
    <3> DEFINE T == Seq(Tokens)
               K == Keyed(S)
    <3>1. Maps(h, K, T) /\ a \in K /\ s \in Seq(K)
      BY <1>3, <2>1 DEF Maps
    <3> HIDE DEF T, K, z
    <3>2. MapsFront(h, T, a, s)
      BY <3>1, MappedFront
    <3> QED
      BY <3>2, Zenon DEF MapsFront, Mapped, T, z
  <2>5. KeyedTexts(w, z) = [n \in DOMAIN z |-> h[z[n]]]
    BY <1>4, <2>3
  <2> QED
    BY <1>4, <2>2, <2>4, <2>5, Zenon DEF SS, a
<1>6. ASSUME NEW s \in Seq(Keyed(S)) PROVE KeyedTexts(w, s) \in SS
  <2>1. CASE s = <<>>
    <3>1. <<>> \in SS
      BY DEF SS
    <3> QED
      BY <1>1, <2>1, <3>1, Zenon
  <2>2. CASE s # <<>>
    <3>1. s[1] \in Keyed(S)
      BY <2>2
    <3>2. s[1].key \in Tokens /\ s[1].value \in S
      BY <3>1 DEF Keyed
    <3> QED
      BY <1>5, <3>2, Zenon
  <2> QED
    BY <2>1, <2>2
<1>7. TextsFront(w, S) /\ KeyedFront(w, S)
  BY <1>2, <1>5 DEF TextsFront, KeyedFront
<1> QED
  BY <1>2, <1>6, <1>7

\* What is written for the elements of a list, between its commas.
TextsOf(ts, form, value) ==
  IF form = "items" THEN Texts(Rendering(ts), value)
  ELSE IF form = "args" THEN Texts(Rendering(ts), value.args) \o KeyedTexts(Rendering(ts), value.kwargs)
  ELSE KeyedTexts(Rendering(ts), value)
Typed(ts, n) == \A v \in From(ts, n) : Rendering(ts)[v] \in Seq(Tokens)
\* o is what is read of a list from n on, and what is written for it is the
\* text up to what ends it.
Listed(ts, form, n, o) ==
  /\ o.next - 1 \in Nat /\ Closes(ts, form, o.next - 1)
  /\ Spells(ts, n, o.next - 1, Commas(TextsOf(ts, form, o.value)))
  /\ TextsOf(ts, form, o.value) # <<>>

\* The others of a list hold values whose texts are known.
LEMMA OthersTyped ==
  ASSUME NEW ts \in Seq(Tokens), NEW n \in 1 .. Len(ts) + 1, Typed(ts, n),
         NEW form \in {"items", "args", "clauses"}, NEW k, k > n, NEW o, Goes(ts, form, k, o)
  PROVE  /\ form # "args" => o.value \in IF form = "items" THEN Seq(From(ts, n)) ELSE Seq(Keyed(From(ts, n)))
         /\ form = "args" => o.value.args \in Seq(From(ts, n)) /\ o.value.kwargs \in Seq(Keyed(From(ts, n)))
         /\ TextsOf(ts, form, o.value) \in SS
<1>1. \A m \in n + 1 .. Len(ts) + 1 : Within(ts, m)
  <2>1. \A m \in n + 1 .. Len(ts) + 1 : m \in 1 .. Len(ts) + 1
    OBVIOUS
  <2> QED
    BY <2>1, AllWithin
<1>2. /\ form # "args" => o.value \in IF form = "items" THEN Seq(From(ts, n)) ELSE Seq(Keyed(From(ts, n)))
      /\ form = "args" => o.value.args \in Seq(From(ts, n)) /\ o.value.kwargs \in Seq(Keyed(From(ts, n)))
  BY <1>1, OthersWithin
<1>3. \A v \in From(ts, n) : Rendering(ts)[v] \in Seq(Tokens)
  BY DEF Typed
<1>4. /\ \A s \in Seq(From(ts, n)) : Texts(Rendering(ts), s) \in SS
      /\ \A s \in Seq(Keyed(From(ts, n))) : KeyedTexts(Rendering(ts), s) \in SS
  BY <1>3, TextsAre
<1>5. TextsOf(ts, form, o.value) \in SS
  <2>1. CASE form = "items"
    <3>1. o.value \in Seq(From(ts, n))
      BY <1>2, <2>1
    <3> QED
      BY <1>4, <2>1, <3>1 DEF TextsOf
  <2>2. CASE form = "clauses"
    <3>1. o.value \in Seq(Keyed(From(ts, n)))
      BY <1>2, <2>2
    <3> QED
      BY <1>4, <2>2, <3>1 DEF TextsOf
  <2>3. CASE form = "args"
    <3>1. o.value.args \in Seq(From(ts, n)) /\ o.value.kwargs \in Seq(Keyed(From(ts, n)))
      BY <1>2, <2>3
    <3> DEFINE a == Texts(Rendering(ts), o.value.args)
               b == KeyedTexts(Rendering(ts), o.value.kwargs)
    <3>2. a \in SS /\ b \in SS
      BY <1>4, <3>1
    <3>3. TextsOf(ts, form, o.value) = a \o b
      BY <2>3 DEF TextsOf
    <3> HIDE DEF a, b
    <3>4. a \o b \in SS
      BY <3>2 DEF SS
    <3> QED
      BY <3>3, <3>4
  <2> QED
    BY <2>1, <2>2, <2>3
<1> QED
  BY <1>2, <1>5

\* After the text x of an element come what ends the list, or a comma and the
\* text of the others.
LEMMA OthersSpelled ==
  ASSUME NEW ts \in Seq(Tokens), NEW n, NEW k, NEW x, Spells(ts, n, k, x),
         NEW form \in {"items", "args", "clauses"}, NEW o, Goes(ts, form, k, o),
         Found(ts, form, k + 1) => Listed(ts, form, k + 1, Read(ts, form, k + 1)),
         NEW T \in SS, T = TextsOf(ts, form, o.value)
  PROVE  /\ o.next - 1 \in Nat /\ Closes(ts, form, o.next - 1)
         /\ Spells(ts, n, o.next - 1, Commas(<<x>> \o T)) /\ <<x>> \o T # <<>>
<1>1. x \in Seq(Tokens) /\ k \in Nat
  BY DEF Spells
<1>2. /\ <<x>> \o T # <<>>
      /\ Commas(<<x>> \o T) = IF T = <<>> THEN x ELSE x \o <<Comma>> \o Commas(T)
  BY <1>1, CommasFront
<1>3. CASE Closes(ts, form, k) /\ o = Got(None[form], k + 1)
  <2>1. o.next - 1 = k /\ o.value = None[form]
    <3>1. o.next = k + 1 /\ o.value = None[form]
      BY <1>3, GotHas
    <3> QED
      BY <1>1, <3>1
  <2>2. T = <<>>
    <3>1. Texts(Rendering(ts), <<>>) = <<>> /\ KeyedTexts(Rendering(ts), <<>>) = <<>>
      BY DEF Texts, KeyedTexts
    <3>2. /\ None["items"] = <<>> /\ None["clauses"] = <<>>
          /\ None["args"].args = <<>> /\ None["args"].kwargs = <<>>
      BY DEF None
    <3>3. CASE form = "items"
      BY <2>1, <3>1, <3>2, <3>3, Zenon DEF TextsOf
    <3>4. CASE form = "clauses"
      BY <2>1, <3>1, <3>2, <3>4, Zenon DEF TextsOf
    <3>5. CASE form = "args"
      <4>1. T = Texts(Rendering(ts), o.value.args) \o KeyedTexts(Rendering(ts), o.value.kwargs)
        BY <3>5, Zenon DEF TextsOf
      <4>2. o.value.args = <<>> /\ o.value.kwargs = <<>>
        BY <2>1, <3>2, <3>5, Zenon
      <4>3. T = <<>> \o <<>>
        BY <3>1, <4>1, <4>2, Zenon
      <4> QED
        BY <4>3
    <3> QED
      BY <3>3, <3>4, <3>5
  <2>3. Commas(<<x>> \o T) = x
    BY <1>2, <2>2
  <2> QED
    BY <1>1, <1>2, <1>3, <2>1, <2>3, Zenon
<1>4. CASE At(ts, k) = Comma /\ Found(ts, form, k + 1) /\ o = Read(ts, form, k + 1)
  <2>1. Listed(ts, form, k + 1, o)
    BY <1>4
  <2>2. /\ o.next - 1 \in Nat /\ Closes(ts, form, o.next - 1) /\ T # <<>>
        /\ Spells(ts, k + 1, o.next - 1, Commas(T))
    BY <2>1, Zenon DEF Listed
  <2>3. Spells(ts, n, k + 1, x \o <<Comma>>)
    <3>1. At(ts, k) # "no-token"
      BY <1>4, CommaIs
    <3> QED
      BY <1>4, <3>1, SpellsToken, Zenon
  <2>4. Spells(ts, n, o.next - 1, (x \o <<Comma>>) \o Commas(T))
    BY <2>2, <2>3, SpellsMore
  <2>5. Commas(<<x>> \o T) = (x \o <<Comma>>) \o Commas(T)
    BY <1>2, <2>2, Zenon
  <2> QED
    BY <1>2, <2>2, <2>4, <2>5, Zenon
<1> QED
  BY <1>3, <1>4 DEF Goes

\* What is written for each form of value.
LEMMA RenderedForms ==
  /\ \A w : \A t \in Tokens : Rendered(w, Prim(t)) = <<t>>
  /\ \A w, items : Rendered(w, List(items)) = (<<"[">> \o Commas(Texts(w, items))) \o <<"]">>
  /\ \A w, base, args, kwargs :
       Rendered(w, Call(base, args, kwargs)) =
         ((w[base] \o <<"(">>) \o Commas(Texts(w, args) \o KeyedTexts(w, kwargs))) \o <<")">>
  /\ Commas(<<>>) = <<>>
  /\ \A w : Commas(Texts(w, <<>>)) = <<>> /\ Commas(Texts(w, <<>>) \o KeyedTexts(w, <<>>)) = <<>>
<1>1. ASSUME NEW w, NEW t \in Tokens PROVE Rendered(w, Prim(t)) = <<t>>
  <2>1. Prim(t).kind # "list" /\ Prim(t).kind # "call" /\ Prim(t).text = t
    BY DEF Prim
  <2> QED
    BY <2>1 DEF Rendered
<1>2. ASSUME NEW w, NEW items
      PROVE  Rendered(w, List(items)) = (<<"[">> \o Commas(Texts(w, items))) \o <<"]">>
  <2>1. List(items).kind = "list" /\ List(items).items = items
    BY DEF List
  <2> QED
    BY <2>1, Zenon DEF Rendered
<1>3. ASSUME NEW w, NEW base, NEW args, NEW kwargs
      PROVE  Rendered(w, Call(base, args, kwargs)) =
               ((w[base] \o <<"(">>) \o Commas(Texts(w, args) \o KeyedTexts(w, kwargs))) \o <<")">>
  <2> DEFINE c == Call(base, args, kwargs)
  <2>1. c.kind = "call" /\ c.base = base /\ c.args = args /\ c.kwargs = kwargs /\ c.kind # "list"
    BY DEF Call
  <2> HIDE DEF c
  <2>2. Rendered(w, c) = ((w[c.base] \o <<"(">>) \o Commas(Texts(w, c.args) \o KeyedTexts(w, c.kwargs))) \o <<")">>
    BY <2>1, Zenon DEF Rendered
  <2> QED
    BY <2>1, <2>2, Zenon DEF c
<1>4. Commas(<<>>) = <<>>
  BY Zenon DEF Commas
<1>5. ASSUME NEW w
      PROVE  Commas(Texts(w, <<>>)) = <<>> /\ Commas(Texts(w, <<>>) \o KeyedTexts(w, <<>>)) = <<>>
  <2>1. Texts(w, <<>>) = <<>> /\ KeyedTexts(w, <<>>) = <<>>
    BY DEF Texts, KeyedTexts
  <2>2. <<>> \o <<>> = <<>>
    OBVIOUS
  <2> QED
    BY <1>4, <2>1, <2>2, Zenon
<1> QED
  BY <1>1, <1>2, <1>3, <1>4, <1>5

\* What is written for a value that was found.
LEMMA ReadSaid ==
  ASSUME NEW ts \in Seq(Tokens), NEW form \in {"primary", "value"}, NEW n, Found(ts, form, n)
  PROVE  Rendering(ts)[Read(ts, form, n).value] = Rendered(Rendering(ts), Read(ts, form, n).value)
<1>1. n \in Nat /\ 1 <= n
  BY DEF Found
<1>2. n \in 1 .. Len(ts) /\ Read(ts, form, n).value \in From(ts, 1)
  BY <1>1, ReadFrom
<1>3. From(ts, 1) \subseteq Said(ts)
  BY DEF From, Said
<1> QED
  BY <1>2, <1>3, RenderingIs

Written(ts, form, n) == Spells(ts, n, Read(ts, form, n).next, Rendering(ts)[Read(ts, form, n).value])

\* Each form, from what is known of those it needs.
LEMMA PrimarySpelled ==
  ASSUME NEW ts \in Seq(Tokens), NEW n, Found(ts, "primary", n),
         Found(ts, "items", n + 1) => Listed(ts, "items", n + 1, Read(ts, "items", n + 1))
  PROVE  Written(ts, "primary", n)
<1> DEFINE w == Rendering(ts)
           v == Read(ts, "primary", n)
<1>1. w[v.value] = Rendered(w, v.value)
  BY ReadSaid
<1>2. n \in 1 .. Len(ts) /\ n \in Int /\ n + 1 \in Int /\ ts[n] \in Tokens
  BY PrimaryRead
<1> HIDE DEF w
<1>3. CASE v = Got(Prim(ts[n]), n + 1)
  <2>1. v.value = Prim(ts[n]) /\ v.next = n + 1
    BY <1>3, GotHas
  <2>2. w[v.value] = <<ts[n]>>
    BY <1>1, <1>2, <2>1, RenderedForms
  <2>3. Spells(ts, n, n + 1, <<ts[n]>>)
    BY <1>2, SpellsOne
  <2> QED
    BY <2>1, <2>2, <2>3, Zenon DEF Written, w
<1>4. ts[n] = "[" => Spells(ts, n, n + 1, <<"[">>)
  BY <1>2, SpellsOne
<1>5. CASE ts[n] = "[" /\ At(ts, n + 1) = "]" /\ v = Got(List(<<>>), n + 2)
  <2>1. v.value = List(<<>>) /\ v.next = n + 2
    BY <1>5, GotHas
  <2>2. w[v.value] = (<<"[">> \o <<>>) \o <<"]">>
    BY <1>1, <2>1, RenderedForms, Zenon
  <2>3. <<"[">> \o <<>> = <<"[">>
    OBVIOUS
  <2>4. Spells(ts, n, n + 1 + 1, <<"[">> \o <<"]">>)
    <3>1. At(ts, n + 1) # "no-token"
      BY <1>5
    <3> QED
      BY <1>4, <1>5, <3>1, SpellsToken, Zenon
  <2>5. n + 1 + 1 = n + 2
    BY <1>2
  <2> QED
    BY <2>1, <2>2, <2>3, <2>4, <2>5, Zenon DEF Written, w
<1>6. CASE /\ ts[n] = "[" /\ Found(ts, "items", n + 1)
           /\ v = Got(List(Read(ts, "items", n + 1).value), Read(ts, "items", n + 1).next)
  <2> DEFINE o == Read(ts, "items", n + 1)
             y == Commas(Texts(w, o.value))
             q == o.next - 1
  <2>1. v.value = List(o.value) /\ v.next = o.next
    BY <1>6, GotHas
  <2>2. w[v.value] = (<<"[">> \o y) \o <<"]">>
    BY <1>1, <2>1, RenderedForms, Zenon
  <2>3. q \in Nat /\ Closes(ts, "items", q) /\ Spells(ts, n + 1, q, y)
    BY <1>6, Zenon DEF Listed, TextsOf, w
  <2>4. At(ts, q) = "]" /\ At(ts, q) # "no-token"
    BY <2>3 DEF Closes
  <2> HIDE DEF y, q
  <2>5. Spells(ts, n, q, <<"[">> \o y)
    BY <1>4, <1>6, <2>3, SpellsMore
  <2>6. Spells(ts, n, q + 1, (<<"[">> \o y) \o <<"]">>)
    BY <2>4, <2>5, SpellsToken, Zenon
  <2>7. o.next \in Nat
    <3>1. "items" \in Forms
      BY DEF Forms
    <3> QED
      BY <1>6, <3>1, ReadEnds DEF Ends
  <2>8. q + 1 = v.next
    BY <2>1, <2>7 DEF q
  <2> QED
    BY <2>2, <2>6, <2>8, Zenon DEF Written, w
<1> QED
  <2>1. \/ v = Got(Prim(ts[n]), n + 1)
        \/ ts[n] = "[" /\ At(ts, n + 1) = "]" /\ v = Got(List(<<>>), n + 2)
        \/ /\ ts[n] = "[" /\ Found(ts, "items", n + 1)
           /\ v = Got(List(Read(ts, "items", n + 1).value), Read(ts, "items", n + 1).next)
    BY PrimaryRead
  <2> QED
    BY <1>3, <1>5, <1>6, <2>1, Zenon

LEMMA ValueSpelled ==
  ASSUME NEW ts \in Seq(Tokens), NEW n, Found(ts, "value", n), Written(ts, "primary", n),
         \A m \in n + 1 .. Len(ts) + 1 : Found(ts, "args", m) => Listed(ts, "args", m, Read(ts, "args", m))
  PROVE  Written(ts, "value", n)
<1> DEFINE w == Rendering(ts)
           v == Read(ts, "value", n)
           base == Read(ts, "primary", n)
           k == base.next
           o == Read(ts, "args", k + 1)
<1>0. \A b, args, kwargs :
        Rendered(w, Call(b, args, kwargs)) =
          ((w[b] \o <<"(">>) \o Commas(Texts(w, args) \o KeyedTexts(w, kwargs))) \o <<")">>
  BY RenderedForms, Zenon
<1>1. w[v.value] = Rendered(w, v.value)
  BY ReadSaid
<1>2. Spells(ts, n, k, w[base.value])
  BY Zenon DEF Written
<1>3. k \in Nat /\ k > n /\ n \in Nat
  <2>1. Found(ts, "primary", n) /\ "primary" \in Forms
    BY ValueRead DEF Forms
  <2>2. Ends(ts, "primary", n)
    BY <2>1, ReadEnds
  <2> QED
    BY <2>1, <2>2 DEF Ends, Found
<1>4. \/ v = base
      \/ /\ k \in 1 .. Len(ts) /\ ts[k] = "("
         /\ \/ At(ts, k + 1) = ")" /\ v = Got(Call(base.value, <<>>, <<>>), k + 2)
            \/ Found(ts, "args", k + 1) /\ v = Got(Call(base.value, o.value.args, o.value.kwargs), o.next)
  BY ValueRead, Zenon
<1> HIDE DEF w
<1>5. CASE v = base
  BY <1>2, <1>5, Zenon DEF Written, w
<1>6. ASSUME k \in 1 .. Len(ts), ts[k] = "("
      PROVE  Spells(ts, n, k + 1, w[base.value] \o <<"(">>)
  <2>1. At(ts, k) = "(" /\ At(ts, k) # "no-token"
    <3>1. DOMAIN ts = 1 .. Len(ts)
      OBVIOUS
    <3> HIDE DEF k
    <3> QED
      BY <1>6, <3>1 DEF At
  <2> QED
    BY <1>2, <2>1, SpellsToken, Zenon
<1>7. CASE /\ k \in 1 .. Len(ts) /\ ts[k] = "(" /\ At(ts, k + 1) = ")"
           /\ v = Got(Call(base.value, <<>>, <<>>), k + 2)
  <2>1. v.value = Call(base.value, <<>>, <<>>) /\ v.next = k + 2
    BY <1>7, GotHas
  <2>2. w[v.value] = ((w[base.value] \o <<"(">>) \o <<>>) \o <<")">>
    <3>1. Commas(Texts(w, <<>>) \o KeyedTexts(w, <<>>)) = <<>>
      BY RenderedForms
    <3>2. Rendered(w, Call(base.value, <<>>, <<>>)) =
            ((w[base.value] \o <<"(">>) \o Commas(Texts(w, <<>>) \o KeyedTexts(w, <<>>))) \o <<")">>
      BY <1>0, Zenon
    <3> HIDE DEF v, base
    <3> QED
      BY <1>1, <2>1, <3>1, <3>2, Zenon
  <2>3. Spells(ts, n, k + 1, w[base.value] \o <<"(">>)
    BY <1>6, <1>7, Zenon
  <2>4. (w[base.value] \o <<"(">>) \o <<>> = w[base.value] \o <<"(">>
    <3> DEFINE x == w[base.value] \o <<"(">>
    <3>1. x \in Seq(Tokens)
      BY <2>3, Zenon DEF Spells
    <3> HIDE DEF x
    <3>2. x \o <<>> = x
      BY <3>1
    <3> QED
      BY <3>2, Zenon DEF x
  <2>5. Spells(ts, n, k + 1 + 1, (w[base.value] \o <<"(">>) \o <<")">>)
    <3>1. At(ts, k + 1) # "no-token" /\ At(ts, k + 1) = ")"
      BY <1>7
    <3> QED
      BY <2>3, <3>1, SpellsToken, Zenon
  <2>6. k + 1 + 1 = k + 2
    BY <1>3
  <2> QED
    BY <2>1, <2>2, <2>4, <2>5, <2>6, Zenon DEF Written, w
<1>8. CASE /\ k \in 1 .. Len(ts) /\ ts[k] = "(" /\ Found(ts, "args", k + 1)
           /\ v = Got(Call(base.value, o.value.args, o.value.kwargs), o.next)
  <2> DEFINE x == w[base.value] \o <<"(">>
             y == Commas(Texts(w, o.value.args) \o KeyedTexts(w, o.value.kwargs))
             q == o.next - 1
  <2>1. v.value = Call(base.value, o.value.args, o.value.kwargs) /\ v.next = o.next
    BY <1>8, GotHas
  <2>2. w[v.value] = (x \o y) \o <<")">>
    <3>1. Rendered(w, Call(base.value, o.value.args, o.value.kwargs)) = (x \o y) \o <<")">>
      BY <1>0, Zenon
    <3> HIDE DEF v, base, o, x, y
    <3> QED
      BY <1>1, <2>1, <3>1, Zenon
  <2>3. k + 1 \in n + 1 .. Len(ts) + 1
    BY <1>3, <1>8
  <2>4. Listed(ts, "args", k + 1, o)
    BY <1>8, <2>3, Zenon
  <2>5. q \in Nat /\ Closes(ts, "args", q) /\ Spells(ts, k + 1, q, y)
    <3>1. TextsOf(ts, "args", o.value) = Texts(w, o.value.args) \o KeyedTexts(w, o.value.kwargs)
      BY DEF TextsOf, w
    <3> QED
      BY <2>4, <3>1, Zenon DEF Listed
  <2>6. At(ts, q) = ")" /\ At(ts, q) # "no-token"
    BY <2>5 DEF Closes
  <2>7. Spells(ts, n, k + 1, x)
    BY <1>6, <1>8, Zenon
  <2>8. o.next \in Nat
    <3>1. "args" \in Forms
      BY DEF Forms
    <3>2. Ends(ts, "args", k + 1)
      BY <1>8, <3>1, ReadEnds
    <3> QED
      BY <3>2 DEF Ends
  <2>9. q + 1 = v.next
    BY <2>1, <2>8
  <2> HIDE DEF x, y, q, o, k, base, v
  <2>10. Spells(ts, n, q, x \o y)
    BY <2>5, <2>7, SpellsMore
  <2>11. Spells(ts, n, q + 1, (x \o y) \o <<")">>)
    BY <2>6, <2>10, SpellsToken, Zenon
  <2> QED
    BY <2>2, <2>9, <2>11, Zenon DEF Written, w, v
<1> QED
  BY <1>4, <1>5, <1>7, <1>8, Zenon

\* The values from n on are written as texts.
LEMMA TypedAt ==
  ASSUME NEW ts \in Seq(Tokens), NEW n \in Nat,
         \A form \in {"primary", "value"} : \A m \in 1 .. Len(ts) : m >= n /\ Found(ts, form, m) => Written(ts, form, m)
  PROVE  Typed(ts, n)
<1> SUFFICES ASSUME NEW v \in From(ts, n) PROVE Rendering(ts)[v] \in Seq(Tokens)
  BY DEF Typed
<1>1. PICK q \in {"primary", "value"} \X (1 .. Len(ts)) :
        Readings(ts)[q].next # 0 /\ q[2] >= n /\ v = Readings(ts)[q].value
  BY DEF From
<1>2. PICK form \in {"primary", "value"}, m \in 1 .. Len(ts) : q = <<form, m>>
  BY <1>1
<1>3. m >= n /\ Read(ts, form, m).next # 0 /\ v = Read(ts, form, m).value
  BY <1>1, <1>2 DEF Read
<1>4. Found(ts, form, m)
  <2>1. m \in 1 .. Len(ts) + 1
    BY <1>2
  <2> QED
    BY <1>3, <2>1 DEF Found
<1>5. Written(ts, form, m)
  BY <1>2, <1>3, <1>4
<1> QED
  BY <1>3, <1>5, Zenon DEF Written, Spells

\* The lists after n.
Behind(ts, n) ==
  \A form \in {"items", "args", "clauses"} : \A m \in n + 1 .. Len(ts) + 1 :
    Found(ts, form, m) => Listed(ts, form, m, Read(ts, form, m))

\* A list, from its first element and the others.
LEMMA ListStep ==
  ASSUME NEW ts \in Seq(Tokens), NEW n \in 1 .. Len(ts) + 1, Typed(ts, n), Behind(ts, n),
         NEW form \in {"items", "args", "clauses"}, NEW k, k > n, NEW x, Spells(ts, n, k, x),
         NEW o, Goes(ts, form, k, o),
         NEW z, TextsOf(ts, form, z) = <<x>> \o TextsOf(ts, form, o.value)
  PROVE  Listed(ts, form, n, Got(z, o.next))
<1> DEFINE T == TextsOf(ts, form, o.value)
<1>1. T \in SS
  BY OthersTyped
<1>2. Found(ts, form, k + 1) => Listed(ts, form, k + 1, Read(ts, form, k + 1))
  <2> SUFFICES ASSUME Found(ts, form, k + 1) PROVE Listed(ts, form, k + 1, Read(ts, form, k + 1))
    OBVIOUS
  <2>1. k + 1 \in 1 .. Len(ts) + 1 /\ k \in Nat
    BY DEF Found, Spells
  <2>2. k + 1 \in n + 1 .. Len(ts) + 1
    BY <2>1
  <2> QED
    BY <2>2 DEF Behind
<1>3. /\ o.next - 1 \in Nat /\ Closes(ts, form, o.next - 1)
      /\ Spells(ts, n, o.next - 1, Commas(<<x>> \o T)) /\ <<x>> \o T # <<>>
  <2> DEFINE S == T
  <2>1. S \in SS /\ S = TextsOf(ts, form, o.value)
    BY <1>1
  <2> HIDE DEF S
  <2>2. /\ o.next - 1 \in Nat /\ Closes(ts, form, o.next - 1)
        /\ Spells(ts, n, o.next - 1, Commas(<<x>> \o S)) /\ <<x>> \o S # <<>>
    BY <1>2, <2>1, OthersSpelled
  <2> QED
    BY <2>2 DEF S
<1>4. Got(z, o.next).value = z /\ Got(z, o.next).next = o.next
  BY GotHas
<1>5. TextsOf(ts, form, z) = <<x>> \o T
  OBVIOUS
<1> HIDE DEF T
<1> QED
  BY <1>3, <1>4, <1>5, Zenon DEF Listed

LEMMA ItemsSpelled ==
  ASSUME NEW ts \in Seq(Tokens), NEW n \in 1 .. Len(ts) + 1, Typed(ts, n), Behind(ts, n),
         Written(ts, "primary", n), Found(ts, "items", n)
  PROVE  Listed(ts, "items", n, Read(ts, "items", n))
<1> DEFINE w == Rendering(ts)
           v == Read(ts, "primary", n)
<1>1. PICK o : Goes(ts, "items", v.next, o) /\ Read(ts, "items", n) = Got(<<v.value>> \o o.value, o.next)
  BY ItemsRead
<1>2. Found(ts, "primary", n)
  BY ItemsRead
<1>3. v.next > n
  <2>1. "primary" \in Forms
    BY DEF Forms
  <2> QED
    BY <1>2, <2>1, ReadEnds DEF Ends
<1>4. Spells(ts, n, v.next, w[v.value])
  BY Zenon DEF Written
<1>5. v.value \in From(ts, n)
  BY <1>2, ReadFrom
<1>6. o.value \in Seq(From(ts, n))
  BY <1>1, <1>3, OthersTyped
<1>7. TextsOf(ts, "items", <<v.value>> \o o.value) = <<w[v.value]>> \o TextsOf(ts, "items", o.value)
  <2>1. \A a \in From(ts, n) : w[a] \in Seq(Tokens)
    BY DEF Typed
  <2>2. Texts(w, <<v.value>> \o o.value) = <<w[v.value]>> \o Texts(w, o.value)
    <3> HIDE DEF w
    <3>1. \A s \in Seq(From(ts, n)) : \A a \in From(ts, n) : Texts(w, <<a>> \o s) = <<w[a]>> \o Texts(w, s)
      <4>1. TextsFront(w, From(ts, n))
        BY <2>1, TextsAre
      <4> QED
        BY <4>1, Zenon DEF TextsFront
    <3> QED
      BY <1>5, <1>6, <3>1, Zenon
  <2> QED
    BY <2>2, Zenon DEF TextsOf
<1> DEFINE z == <<v.value>> \o o.value
           x == w[v.value]
           k == v.next
<1>8. Listed(ts, "items", n, Got(z, o.next))
  <2>1. TextsOf(ts, "items", z) = <<x>> \o TextsOf(ts, "items", o.value)
    BY <1>7
  <2>2. k > n /\ Spells(ts, n, k, x) /\ Goes(ts, "items", k, o)
    BY <1>1, <1>3, <1>4
  <2> HIDE DEF z, x, k
  <2> QED
    BY <2>1, <2>2, ListStep
<1> QED
  BY <1>1, <1>8, Zenon

\* A name, an equals sign and a value.
LEMMA NamedSpelled ==
  ASSUME NEW ts \in Seq(Tokens), NEW n, PartAt(ts, n, n + 2, TRUE), Written(ts, "value", n + 2)
  PROVE  Spells(ts, n, Read(ts, "value", n + 2).next, <<ts[n], "=">> \o Rendering(ts)[Read(ts, "value", n + 2).value])
<1>1. n \in 1 .. Len(ts) /\ n + 1 \in 1 .. Len(ts) /\ ts[n + 1] = "=" /\ ts[n] \in Tokens
  BY DEF PartAt
<1> DEFINE x == <<ts[n], "=">>
<1>2. x \in Seq(Tokens) /\ Len(x) = 2 /\ x[1] = ts[n] /\ x[2] = "="
  BY <1>1, CommaIs
<1>3. n + 2 - n = 2 /\ n \in Nat /\ n + 2 \in Nat /\ n <= n + 2 /\ n + 2 <= Len(ts) + 1 /\ 1 <= n
  BY <1>1
<1>4. \A i \in 1 .. 2 : (i = 1 /\ n + i - 1 = n) \/ (i = 2 /\ n + i - 1 = n + 1)
  BY <1>1
<1> HIDE DEF x
<1>5. Spells(ts, n, n + 2, x)
  BY <1>1, <1>2, <1>3, <1>4 DEF Spells
<1> QED
  BY <1>5, SpellsMore, Zenon DEF Written, x

LEMMA ArgsSpelled ==
  ASSUME NEW ts \in Seq(Tokens), NEW n \in 1 .. Len(ts) + 1, Typed(ts, n), Behind(ts, n),
         Found(ts, "args", n),
         \A m \in Nat : m >= n /\ Found(ts, "value", m) => Written(ts, "value", m)
  PROVE  Listed(ts, "args", n, Read(ts, "args", n))
<1> DEFINE w == Rendering(ts)
           TextsOfParts(args, kwargs) == Texts(w, args) \o KeyedTexts(w, kwargs)
<1>1. PICK m, pair, o :
        /\ PartAt(ts, n, m, pair) /\ pair \in BOOLEAN /\ Found(ts, "value", m)
        /\ Goes(ts, "args", Read(ts, "value", m).next, o)
        /\ pair => /\ o.value.args = <<>>
                   /\ Read(ts, "args", n) =
                        Got([args |-> <<>>,
                             kwargs |-> <<[key |-> ts[n], value |-> Read(ts, "value", m).value]>> \o o.value.kwargs],
                            o.next)
        /\ ~pair => Read(ts, "args", n) =
                      Got([args |-> <<Read(ts, "value", m).value>> \o o.value.args, kwargs |-> o.value.kwargs], o.next)
  BY ArgsRead, Zenon
<1> DEFINE v == Read(ts, "value", m)
           k == v.next
           u == w[v.value]
<1>2. k > n /\ v.value \in From(ts, n) /\ m \in Nat /\ m >= n /\ (pair => ts[n] \in Tokens)
  BY <1>1, PartPlace
<1>3. Written(ts, "value", m)
  BY <1>1, <1>2
<1>4. o.value.args \in Seq(From(ts, n)) /\ o.value.kwargs \in Seq(Keyed(From(ts, n)))
  BY <1>1, <1>2, OthersTyped
<1>5. /\ TextsFront(w, From(ts, n)) /\ KeyedFront(w, From(ts, n))
      /\ Texts(w, o.value.args) \in SS /\ KeyedTexts(w, o.value.kwargs) \in SS
  <2>1. \A a \in From(ts, n) : w[a] \in Seq(Tokens)
    BY DEF Typed
  <2> HIDE DEF w
  <2>2. /\ TextsFront(w, From(ts, n)) /\ KeyedFront(w, From(ts, n))
        /\ \A s \in Seq(From(ts, n)) : Texts(w, s) \in SS
        /\ \A s \in Seq(Keyed(From(ts, n))) : KeyedTexts(w, s) \in SS
    BY <2>1, TextsAre
  <2> QED
    BY <1>4, <2>2
<1>6. /\ TextsOf(ts, "args", o.value) = TextsOfParts(o.value.args, o.value.kwargs)
      /\ \A args, kwargs :
           TextsOf(ts, "args", [args |-> args, kwargs |-> kwargs]) = TextsOfParts(args, kwargs)
  BY DEF TextsOf
<1>7. \A a \in SS : <<>> \o a = a
  BY DEF SS
<1>8. CASE pair
  <2> DEFINE x == <<ts[n], "=">> \o u
             kwargs == <<[key |-> ts[n], value |-> v.value]>> \o o.value.kwargs
             z == [args |-> <<>>, kwargs |-> kwargs]
  <2>1. m = n + 2 /\ PartAt(ts, n, n + 2, TRUE)
    BY <1>1, <1>8 DEF PartAt
  <2>2. Spells(ts, n, k, x)
    BY <1>3, <2>1, NamedSpelled, Zenon
  <2>3. Texts(w, <<>>) = <<>>
    BY DEF Texts
  <2>4. KeyedTexts(w, kwargs) = <<x>> \o KeyedTexts(w, o.value.kwargs)
    <3> HIDE DEF w, v
    <3> QED
      BY <1>2, <1>4, <1>5, <1>8, Zenon DEF KeyedFront
  <2>5. x \in Seq(Tokens)
    BY <2>2, Zenon DEF Spells
  <2>6. KeyedTexts(w, kwargs) \in SS
    <3> DEFINE s == KeyedTexts(w, o.value.kwargs)
    <3>1. s \in SS
      BY <1>5
    <3> HIDE DEF s, x
    <3>2. <<x>> \o s \in SS
      BY <2>5, <3>1, CommasFront
    <3> QED
      BY <2>4, <3>2 DEF s
  <2>7. TextsOf(ts, "args", o.value) = KeyedTexts(w, o.value.kwargs)
    <3>1. TextsOf(ts, "args", o.value) = <<>> \o KeyedTexts(w, o.value.kwargs)
      BY <1>1, <1>6, <1>8, <2>3, Zenon
    <3> QED
      BY <1>5, <1>7, <3>1, Zenon
  <2>8. TextsOf(ts, "args", z) = KeyedTexts(w, kwargs)
    <3>1. TextsOf(ts, "args", z) = <<>> \o KeyedTexts(w, kwargs)
      BY <1>6, <2>3, Zenon
    <3> QED
      BY <1>7, <2>6, <3>1, Zenon
  <2>9. Listed(ts, "args", n, Got(z, o.next))
    <3>1. TextsOf(ts, "args", z) = <<x>> \o TextsOf(ts, "args", o.value)
      BY <2>4, <2>7, <2>8, Zenon
    <3>2. k > n /\ Spells(ts, n, k, x) /\ Goes(ts, "args", k, o)
      BY <1>1, <1>2, <2>2, Zenon
    <3> HIDE DEF z, x, k
    <3> QED
      BY <3>1, <3>2, ListStep
  <2>10. Read(ts, "args", n) = Got(z, o.next)
    BY <1>1, <1>8, Zenon
  <2> QED
    BY <2>9, <2>10, Zenon
<1>9. CASE ~pair
  <2> DEFINE x == u
             args == <<v.value>> \o o.value.args
             z == [args |-> args, kwargs |-> o.value.kwargs]
             a == Texts(w, o.value.args)
             b == KeyedTexts(w, o.value.kwargs)
  <2>1. m = n
    BY <1>1, <1>9 DEF PartAt
  <2>2. Spells(ts, n, k, x)
    BY <1>3, <2>1, Zenon DEF Written
  <2>3. Texts(w, args) = <<x>> \o a
    <3> HIDE DEF w, v
    <3> QED
      BY <1>2, <1>4, <1>5, Zenon DEF TextsFront
  <2>4. a \in SS /\ b \in SS /\ x \in Seq(Tokens)
    BY <1>5, <2>2, Zenon DEF Spells
  <2>5. TextsOf(ts, "args", z) = (<<x>> \o a) \o b /\ TextsOf(ts, "args", o.value) = a \o b
    <3>1. TextsOf(ts, "args", z) = Texts(w, args) \o b /\ TextsOf(ts, "args", o.value) = a \o b
      BY <1>6, Zenon
    <3> QED
      BY <2>3, <3>1, Zenon
  <2>6. (<<x>> \o a) \o b = <<x>> \o (a \o b)
    <3> HIDE DEF x, a, b
    <3>1. <<x>> \in SS
      BY <2>4 DEF SS
    <3>2. \A d, e, f \in SS : (d \o e) \o f = d \o (e \o f)
      <4> DEFINE U == Seq(Tokens)
      <4> HIDE DEF U
      <4>1. \A d, e, f \in Seq(U) : (d \o e) \o f = d \o (e \o f)
        OBVIOUS
      <4> QED
        BY <4>1, Zenon DEF SS, U
    <3> QED
      BY <2>4, <3>1, <3>2, Zenon
  <2>7. Listed(ts, "args", n, Got(z, o.next))
    <3>1. TextsOf(ts, "args", z) = <<x>> \o TextsOf(ts, "args", o.value)
      BY <2>5, <2>6, Zenon
    <3>2. k > n /\ Spells(ts, n, k, x) /\ Goes(ts, "args", k, o)
      BY <1>1, <1>2, <2>2, Zenon
    <3> HIDE DEF z, x, k
    <3> QED
      BY <3>1, <3>2, ListStep
  <2>8. Read(ts, "args", n) = Got(z, o.next)
    BY <1>1, <1>9, Zenon
  <2> QED
    BY <2>7, <2>8, Zenon
<1> QED
  BY <1>1, <1>8, <1>9

LEMMA ClausesSpelled ==
  ASSUME NEW ts \in Seq(Tokens), NEW n \in 1 .. Len(ts) + 1, Typed(ts, n), Behind(ts, n),
         Found(ts, "clauses", n),
         \A m \in Nat : m >= n /\ Found(ts, "value", m) => Written(ts, "value", m)
  PROVE  Listed(ts, "clauses", n, Read(ts, "clauses", n))
<1> DEFINE w == Rendering(ts)
           v == Read(ts, "value", n + 2)
           k == v.next
           x == <<ts[n], "=">> \o w[v.value]
<1>1. PartAt(ts, n, n + 2, TRUE) /\ Found(ts, "value", n + 2)
  BY PairsRead
<1>2. PICK o : /\ Goes(ts, "clauses", k, o)
               /\ Read(ts, "clauses", n) = Got(<<[key |-> ts[n], value |-> v.value]>> \o o.value, o.next)
  BY PairsRead
<1>3. k > n /\ v.value \in From(ts, n) /\ n + 2 \in Nat /\ n + 2 >= n /\ ts[n] \in Tokens
  BY <1>1, PartPlace
<1>4. Written(ts, "value", n + 2)
  BY <1>1, <1>3
<1>5. o.value \in Seq(Keyed(From(ts, n)))
  BY <1>2, <1>3, OthersTyped
<1>6. KeyedFront(w, From(ts, n))
  <2>1. \A a \in From(ts, n) : w[a] \in Seq(Tokens)
    BY DEF Typed
  <2> HIDE DEF w
  <2> QED
    BY <2>1, TextsAre
<1> DEFINE z == <<[key |-> ts[n], value |-> v.value]>> \o o.value
<1>7. TextsOf(ts, "clauses", z) = <<x>> \o TextsOf(ts, "clauses", o.value)
  <2>1. KeyedTexts(w, z) = <<x>> \o KeyedTexts(w, o.value)
    <3> HIDE DEF w, v
    <3> QED
      BY <1>3, <1>5, <1>6, Zenon DEF KeyedFront
  <2> QED
    BY <2>1 DEF TextsOf
<1>8. Spells(ts, n, k, x)
  BY <1>1, <1>4, NamedSpelled, Zenon
<1>9. Listed(ts, "clauses", n, Got(z, o.next))
  <2> HIDE DEF z, x, k
  <2> QED
    BY <1>2, <1>3, <1>7, <1>8, ListStep
<1> QED
  BY <1>2, <1>9, Zenon

\* What is read from n on is written as the text it was read from.
Spelled(ts, n) ==
  /\ \A form \in {"primary", "value"} : Found(ts, form, n) => Written(ts, form, n)
  /\ \A form \in {"items", "args", "clauses"} : Found(ts, form, n) => Listed(ts, form, n, Read(ts, form, n))

\* Every form at a place, from what is known of the places after it.
LEMMA SpelledStep ==
  ASSUME NEW ts \in Seq(Tokens), NEW n \in 1 .. Len(ts) + 1,
         \A m \in n + 1 .. Len(ts) + 1 : Spelled(ts, m)
  PROVE  Spelled(ts, n)
<1>0. n \in Nat /\ Len(ts) \in Nat
  OBVIOUS
<1>1. Behind(ts, n)
  BY DEF Behind, Spelled
<1>2. Found(ts, "primary", n) => Written(ts, "primary", n)
  <2> SUFFICES ASSUME Found(ts, "primary", n) PROVE Written(ts, "primary", n)
    OBVIOUS
  <2>1. Found(ts, "items", n + 1) => Listed(ts, "items", n + 1, Read(ts, "items", n + 1))
    <3> SUFFICES ASSUME Found(ts, "items", n + 1) PROVE Listed(ts, "items", n + 1, Read(ts, "items", n + 1))
      OBVIOUS
    <3>1. n + 1 \in n + 1 .. Len(ts) + 1
      BY <1>0 DEF Found
    <3> QED
      BY <1>1, <3>1 DEF Behind
  <2> QED
    BY <2>1, PrimarySpelled
<1>3. Found(ts, "value", n) => Written(ts, "value", n)
  <2> SUFFICES ASSUME Found(ts, "value", n) PROVE Written(ts, "value", n)
    OBVIOUS
  <2>1. Found(ts, "primary", n)
    BY ValueRead
  <2>2. \A m \in n + 1 .. Len(ts) + 1 : Found(ts, "args", m) => Listed(ts, "args", m, Read(ts, "args", m))
    BY <1>1 DEF Behind
  <2> QED
    BY <1>2, <2>1, <2>2, ValueSpelled
<1>4. ASSUME NEW form \in {"primary", "value"}, NEW m \in Nat, m >= n, Found(ts, form, m)
      PROVE  Written(ts, form, m)
  <2>1. CASE m = n
    BY <1>2, <1>3, <1>4, <2>1
  <2>2. CASE m # n
    <3>1. m \in n + 1 .. Len(ts) + 1
      BY <1>0, <1>4, <2>2 DEF Found
    <3> QED
      BY <1>4, <3>1 DEF Spelled
  <2> QED
    BY <2>1, <2>2
<1>5. Typed(ts, n)
  <2>1. \A m \in 1 .. Len(ts) : m \in Nat
    OBVIOUS
  <2>2. \A form \in {"primary", "value"} : \A m \in 1 .. Len(ts) :
          m >= n /\ Found(ts, form, m) => Written(ts, form, m)
    BY <1>4, <2>1
  <2> QED
    BY <1>0, <2>2, TypedAt
<1>6. \A m \in Nat : m >= n /\ Found(ts, "value", m) => Written(ts, "value", m)
  BY <1>4
<1>7. Found(ts, "items", n) => Listed(ts, "items", n, Read(ts, "items", n))
  <2> SUFFICES ASSUME Found(ts, "items", n) PROVE Listed(ts, "items", n, Read(ts, "items", n))
    OBVIOUS
  <2>1. Found(ts, "primary", n)
    BY ItemsRead
  <2> QED
    BY <1>1, <1>2, <1>5, <2>1, ItemsSpelled
<1>8. Found(ts, "args", n) => Listed(ts, "args", n, Read(ts, "args", n))
  BY <1>1, <1>5, <1>6, ArgsSpelled
<1>9. Found(ts, "clauses", n) => Listed(ts, "clauses", n, Read(ts, "clauses", n))
  BY <1>1, <1>5, <1>6, ClausesSpelled
<1> QED
  BY <1>2, <1>3, <1>7, <1>8, <1>9 DEF Spelled

LEMMA AllSpelled ==
  \A ts \in Seq(Tokens) : \A n \in 1 .. Len(ts) + 1 : Spelled(ts, n)
<1> SUFFICES ASSUME NEW ts \in Seq(Tokens) PROVE \A n \in 1 .. Len(ts) + 1 : Spelled(ts, n)
  OBVIOUS
<1> DEFINE Out == {d \in 0 .. Len(ts) : ~Spelled(ts, Len(ts) + 1 - d)}
<1>1. Out = {}
  <2> SUFFICES ASSUME Out # {} PROVE FALSE
    OBVIOUS
  <2>1. PICK d \in Out : \A e \in Out : d <= e
    <3>1. Out \in SUBSET Nat
      OBVIOUS
    <3> HIDE DEF Out
    <3> QED
      BY <3>1, LeastNatural
  <2> DEFINE n == Len(ts) + 1 - d
  <2>2. d \in 0 .. Len(ts) /\ Len(ts) \in Nat /\ n \in 1 .. Len(ts) + 1 /\ ~Spelled(ts, n)
    BY <2>1
  <2>3. ASSUME NEW m \in n + 1 .. Len(ts) + 1 PROVE Spelled(ts, m)
    <3>1. Len(ts) + 1 - m \in 0 .. Len(ts) /\ ~ (d <= Len(ts) + 1 - m)
      BY <2>2
    <3>2. Len(ts) + 1 - m \notin Out
      BY <2>1, <3>1
    <3>3. Len(ts) + 1 - (Len(ts) + 1 - m) = m
      BY <2>2
    <3> QED
      BY <3>1, <3>2, <3>3
  <2> HIDE DEF n
  <2>4. Spelled(ts, n)
    BY <2>2, <2>3, SpelledStep
  <2> QED
    BY <2>2, <2>4
<1>2. ASSUME NEW n \in 1 .. Len(ts) + 1 PROVE Spelled(ts, n)
  <2>1. Len(ts) + 1 - n \in 0 .. Len(ts) /\ Len(ts) + 1 - (Len(ts) + 1 - n) = n
    OBVIOUS
  <2>2. Len(ts) + 1 - n \notin Out
    BY <1>1
  <2> QED
    BY <2>1, <2>2
<1> QED
  BY <1>2

\* The clauses of a text the parser takes, written out, are the text: no token
\* of it is skipped, read twice or taken for another clause's.
THEOREM ParsesWhatIsWritten ==
  \A ts \in Seq(Tokens) : Parse(ts).next # 0 => RenderedAll(ts) = ts
<1> SUFFICES ASSUME NEW ts \in Seq(Tokens), Parse(ts).next # 0 PROVE RenderedAll(ts) = ts
  OBVIOUS
<1>1. CASE ts = <<>>
  <2>1. Parse(ts).value = <<>>
    <3>1. Parse(ts) = Got(<<>>, 1)
      BY <1>1 DEF Parse
    <3> QED
      BY <3>1, GotHas
  <2>2. KeyedTexts(Rendering(ts), <<>>) = <<>>
    BY DEF KeyedTexts
  <2> QED
    BY <1>1, <2>1, <2>2, RenderedForms, Zenon DEF RenderedAll
<1>2. CASE ts # <<>>
  <2> DEFINE o == Read(ts, "clauses", 1)
             x == Commas(TextsOf(ts, "clauses", o.value))
  <2>1. Parse(ts) = o
    <3>1. Refusal.next = 0
      BY GotHas DEF Refusal
    <3> QED
      BY <1>2, <3>1, Zenon DEF Parse, Read
  <2>2. 1 \in 1 .. Len(ts) + 1 /\ Len(ts) \in Nat
    OBVIOUS
  <2>3. Found(ts, "clauses", 1)
    BY <2>1, <2>2 DEF Found
  <2>4. Listed(ts, "clauses", 1, o)
    BY <2>2, <2>3, AllSpelled DEF Spelled
  <2>5. o.next - 1 \in Nat /\ o.next - 1 > Len(ts) /\ Spells(ts, 1, o.next - 1, x)
    BY <2>4 DEF Listed, Closes
  <2>6. x = RenderedAll(ts)
    BY <2>1, Zenon DEF TextsOf, RenderedAll
  <2> DEFINE q == o.next - 1
  <2> HIDE DEF q, x
  <2>7. q = Len(ts) + 1
    BY <2>2, <2>5 DEF Spells, q
  <2>8. x \in Seq(Tokens) /\ Len(x) = Len(ts) /\ \A i \in 1 .. Len(ts) : x[i] = ts[i]
    <3>1. Spells(ts, 1, q, x)
      BY <2>5 DEF q
    <3>2. q - 1 = Len(ts) /\ \A i \in 1 .. Len(ts) : 1 + i - 1 = i
      BY <2>2, <2>7
    <3> QED
      BY <3>1, <3>2 DEF Spells
  <2>9. x = ts
    BY <2>8, SeqEqual
  <2> QED
    BY <2>6, <2>9
<1> QED
  BY <1>1, <1>2

-----------------------------------------------------------------------------
(***************************************************************************)
(* The pragmas the scanner took.  What the run puts in the place of        *)
(* Allowed is a hypothesis of these theorems.                              *)
(***************************************************************************)
AllowedIsLegal == \A kind, ts : Allowed(kind, ts) <=> Legal(kind, ts)

\* Every pragma scanned was let through.
TextInv == pc # "raised" => \A n \in DOMAIN src : src[n] \in OwnLine => Allowed(Pragma(src[n]), Text(src[n]))

\* The invariant holds, of every step.
LEMMA TextHolds == Init => TextInv
<1> SUFFICES ASSUME Init PROVE TextInv
  OBVIOUS
<1>1. DOMAIN src = {}
  BY DEF Init
<1> QED
  BY <1>1 DEF TextInv

LEMMA TextStep == TypeInv /\ TextInv /\ [Next]_vars => TextInv'
<1> SUFFICES ASSUME TypeInv, TextInv, [Next]_vars, pc' # "raised",
                    NEW n \in DOMAIN src', src'[n] \in OwnLine
             PROVE  Allowed(Pragma(src[n]), Text(src[n]))'
  BY DEF TextInv
<1>1. CASE UNCHANGED <<src, input>> /\ pc # "raised"
  BY <1>1 DEF TextInv, Text
<1>2. ASSUME NEW k \in Kinds, ScanLine(k) PROVE Allowed(Pragma(src[n]), Text(src[n]))'
  <2>1. src' = Append(src, k) /\ input' = input /\ pc = "scan" /\ (k \in OwnLine => Allowed(Pragma(k), Text(k)))
    BY <1>2 DEF ScanLine, Reaches
  <2>2. src \in Seq(Kinds)
    BY DEF TypeInv
  <2>3. n \in 1 .. Len(src) + 1 /\ Len(src) \in Nat /\ DOMAIN src = 1 .. Len(src)
    BY <2>1, <2>2
  <2>4. \A kind : Text(kind)' = Text(kind)
    BY <2>1 DEF Text
  <2>7. Text(src[n])' = Text(src'[n])
    BY <2>1 DEF Text
  <2>5. CASE n = Len(src) + 1
    <3>1. src'[n] = k
      BY <2>1, <2>2, <2>5
    <3> QED
      BY <2>1, <2>7, <3>1
  <2>6. CASE n # Len(src) + 1
    <3>1. n \in 1 .. Len(src)
      BY <2>3, <2>6
    <3>2. src'[n] = src[n]
      BY <2>1, <2>2, <3>1
    <3>3. Allowed(Pragma(src[n]), Text(src[n]))
      BY <2>1, <2>3, <3>1, <3>2 DEF TextInv
    <3> QED
      BY <2>7, <3>2, <3>3
  <2> QED
    BY <2>5, <2>6
<1>3. ASSUME NEW k \in Kinds, ScanRefuses(k) PROVE FALSE
  BY <1>3 DEF ScanRefuses
<1>4. CASE ScanEnds \/ PairStart \/ PairEnd \/ PairTrust \/ PairingEnds \/ Rewrite \/ (\E m \in left : Splice(m))
           \/ Rewritten \/ Over \/ UNCHANGED vars
  <2>1. UNCHANGED <<src, input>> /\ pc # "raised"
    BY <1>4 DEF ScanEnds, PairStart, PairEnd, PairTrust, Pairing, PairingEnds, Rewrite, Splice, Rewritten, Over, vars
  <2> QED
    BY <1>1, <2>1
<1> QED
  BY <1>2, <1>3, <1>4 DEF Next

\* The texts of a file are texts.
LEMMA TextTokens ==
  ASSUME TypeInv, NEW kind
  PROVE  Text(kind) \in Seq(Tokens)
<1>1. input.text \in Seq(STRING)
  BY PragmasAssumption DEF TypeInv
<1>2. input.text \in Seq(Tokens)
  BY <1>1 DEF Tokens
<1>3. "qualname" \in Tokens /\ "m.f" \in Tokens /\ "args" \in Tokens /\ "unchecked" \in Tokens /\ "=" \in Tokens
  BY DEF Tokens, Syms
<1> QED
  BY <1>2, <1>3 DEF Text

\* What every pragma of a scanned file says is what its values say: the clauses
\* written out again are its tokens, none skipped, read twice or taken for
\* another clause's, however long the text and however deep its calls and lists
\* (_ClauseParser of analysis/scanner.py).
THEOREM PragmasReadAsWritten == ASSUME AllowedIsLegal PROVE Spec => []ReadsWhatIsWritten
<1>1. ASSUME TypeInv, TextInv, pc = "done", NEW n \in DOMAIN src, src[n] \in OwnLine
      PROVE  RenderedAll(Text(src[n])) = Text(src[n])
  <2> DEFINE ts == Text(src[n])
  <2>1. ts \in Seq(Tokens)
    BY <1>1, TextTokens
  <2>2. Legal(Pragma(src[n]), ts)
    BY <1>1 DEF TextInv, AllowedIsLegal
  <2> HIDE DEF ts
  <2>3. Parse(ts).next # 0
    <3>1. CASE Pragma(src[n]) = "end"
      <4>1. ts = <<>>
        BY <2>2, <3>1 DEF Legal
      <4>2. Parse(ts) = Got(<<>>, 1)
        BY <4>1 DEF Parse
      <4> QED
        BY <4>2, GotHas
    <3>2. CASE Pragma(src[n]) # "end"
      BY <2>2, <3>2 DEF Legal
    <3> QED
      BY <3>1, <3>2
  <2> QED
    BY <2>1, <2>3, ParsesWhatIsWritten DEF ts
<1>2. TypeInv /\ TextInv => ReadsWhatIsWritten
  BY <1>1 DEF ReadsWhatIsWritten
<1> QED
  BY <1>2, TypeHolds, TypeStep, TextHolds, TextStep, PTL DEF Spec

\* A call that was read has sequences of parts.
LEMMA CallParts ==
  ASSUME NEW ts \in Seq(Tokens), NEW v \in From(ts, 1), v.kind = "call"
  PROVE  \E S : v.args \in Seq(S) /\ v.kwargs \in Seq(Keyed(S))
<1>1. PICK q \in {"primary", "value"} \X (1 .. Len(ts)) :
        Readings(ts)[q].next # 0 /\ v = Readings(ts)[q].value
  BY DEF From
<1>2. PICK form \in {"primary", "value"}, m \in 1 .. Len(ts) : q = <<form, m>>
  BY <1>1
<1>3. v = Read(ts, form, m).value /\ Found(ts, form, m)
  <2>1. m \in 1 .. Len(ts) + 1
    BY <1>2
  <2> QED
    BY <1>1, <1>2, <2>1 DEF Found, Read
<1>4. \E S : Made(v, S)
  BY <1>2, <1>3, PrimaryMade, ValueMade
<1> QED
  BY <1>4 DEF Made

\* A clause the registry lets through has what is taken out of it.
LEMMA ValidIsReadable ==
  ASSUME NEW key, NEW v, Valid("start", key, v), NEW S,
         v.kind = "call" => v.args \in Seq(S) /\ v.kwargs \in Seq(Keyed(S))
  PROVE  Readable(key, v) \/ (key = "on_error" /\ Bare(v))
<1> SUFFICES ASSUME v.kind = "call" PROVE Readable(key, v) \/ (key = "on_error" /\ Bare(v))
  BY DEF Readable
<1>0. v.args \in Seq(S) /\ v.kwargs \in Seq(Keyed(S))
  OBVIOUS
<1>1. \A options : ~IsIn(v, options)
  BY DEF IsIn
<1>2. ~IsBool(v) /\ ~IsPositive(v) /\ \A least : ~IsInt(v, least)
  BY DEF IsBool, IsPositive, IsInt
<1>3. Keys(v.kwargs) \subseteq Has(v)
  BY DEF Has
<1>4. SUFFICES ASSUME ~(key = "on_error" /\ Bare(v)) PROVE Reads(key, v) \subseteq Has(v)
  BY DEF Readable
<1>5. CASE key = "on_error"
  <2>1. CASE Based(v, {"custom"}) /\ Takes(key, v, HandlerPart, 0)
    <3>1. v.base.text = "custom"
      BY <2>1 DEF Based, IsIn
    <3>2. Required(key, v.base.text) \subseteq Keys(v.kwargs)
      BY <2>1 DEF Takes
    <3>3. Required(key, v.base.text) = {"handler"} /\ Reads(key, v) = {"handler"}
      BY <1>5, <3>1 DEF Required, Reads
    <3> QED
      BY <1>3, <3>2, <3>3
  <2>2. CASE Based(v, {"collect"}) /\ Takes(key, v, ErrorsPart, 0)
    <3>1. v.base.text = "collect"
      BY <2>2 DEF Based, IsIn
    <3>2. Reads(key, v) = {"max_errors"}
      BY <1>5, <3>1 DEF Reads
    <3>3. Len(v.args) = 0 /\ \A k \in Keys(v.kwargs) : k = "max_errors"
      BY <2>2 DEF Takes, ErrorsPart
    <3>4. v.args = <<>>
      BY <1>0, <3>3
    <3>5. v.kwargs # <<>>
      BY <1>4, <1>5, <3>4 DEF Bare
    <3>6. v.kwargs[1].key \in Keys(v.kwargs)
      BY <1>0, <3>5 DEF Keys
    <3> QED
      BY <1>3, <3>2, <3>3, <3>6
  <2> QED
    BY <1>1, <1>5, <2>1, <2>2 DEF Valid, AcceptsFailing, SchedulingKeys, FailingKeys, ShapingKeys, TrustKeys
<1>6. CASE key = "on_fallback"
  <2>1. CASE v.base.text = "custom"
    <3>1. Based(v, {"custom"}) /\ Takes(key, v, HandlerPart, 0)
      <4>1. ~Based(v, Modes)
        BY <2>1 DEF Based, IsIn, Modes
      <4> QED
        BY <1>1, <1>6, <4>1 DEF Valid, AcceptsFailing, SchedulingKeys, FailingKeys, ShapingKeys, TrustKeys
    <3>2. Required(key, v.base.text) \subseteq Keys(v.kwargs)
      BY <3>1 DEF Takes
    <3>3. Required(key, v.base.text) = {"handler"} /\ Reads(key, v) = {"handler"}
      BY <1>6, <2>1 DEF Required, Reads
    <3> QED
      BY <1>3, <3>2, <3>3
  <2>2. CASE v.base.text # "custom"
    BY <1>6, <2>2 DEF Reads
  <2> QED
    BY <2>1, <2>2
<1>7. CASE key = "progress"
  <2>1. Len(v.args) = 1
    BY <1>2, <1>7 DEF Valid, AcceptsShaping, Takes, SchedulingKeys, FailingKeys, ShapingKeys, TrustKeys
  <2>2. v.args # <<>>
    <3>1. Len(<<>>) = 0 /\ Len(v.args) # 0
      BY <2>1
    <3> QED
      BY <3>1, Zenon
  <2> QED
    BY <1>7, <2>2 DEF Reads, Has
<1>8. CASE key \in {"reduce", "calibrate", "depend", "affinity"}
  <2>1. Required(key, v.base.text) \subseteq Keys(v.kwargs)
    <3>1. CASE key = "reduce"
      BY <1>1, <3>1 DEF Valid, AcceptsShaping, Takes, SchedulingKeys, FailingKeys, ShapingKeys, TrustKeys
    <3>2. CASE key = "calibrate"
      BY <1>1, <1>2, <3>2 DEF Valid, AcceptsScheduling, Takes, SchedulingKeys, FailingKeys, ShapingKeys, TrustKeys
    <3>3. CASE key = "depend"
      BY <1>1, <3>3 DEF Valid, AcceptsScheduling, Takes, SchedulingKeys, FailingKeys, ShapingKeys, TrustKeys
    <3>4. CASE key = "affinity"
      BY <1>1, <3>4 DEF Valid, AcceptsShaping, Takes, SchedulingKeys, FailingKeys, ShapingKeys, TrustKeys
    <3> QED
      BY <1>8, <3>1, <3>2, <3>3, <3>4
  <2>2. Reads(key, v) = Required(key, v.base.text)
    BY <1>8 DEF Reads, Required
  <2> QED
    BY <1>3, <2>1, <2>2
<1>9. CASE key \notin {"on_error", "on_fallback", "progress", "reduce", "calibrate", "depend", "affinity"}
  BY <1>9 DEF Reads
<1> QED
  BY <1>5, <1>6, <1>7, <1>8, <1>9

\* In every block whose loop is replaced, each clause has every part that the
\* preflight, the selector and the dispatcher take out of it without asking, or
\* is the one on_error=collect() of which they cannot (clauses/registry.py and
\* its readers).
THEOREM ClausesHaveTheirParts == ASSUME AllowedIsLegal PROVE Spec => []ReadersFindTheirParts
<1>1. ASSUME TypeInv, PairInv, TextInv, pc = "done", NEW b \in Replaced, NEW n \in DOMAIN ClausesAt(b[1])
      PROVE  \/ Readable(ClausesAt(b[1])[n].key, ClausesAt(b[1])[n].value)
             \/ ClausesAt(b[1])[n].key = "on_error" /\ Bare(ClausesAt(b[1])[n].value)
  <2> DEFINE k == src[b[1]]
             ts == Text(k)
             c == ClausesAt(b[1])[n]
  <2>1. b \in Marked
    <3>1. b \in ToSet(blocks) /\ next = Len(pragmas) + 1
      BY <1>1 DEF Replaced, PairInv, ScanInv
    <3> QED
      BY <1>1, <3>1, AllPaired
  <2>2. b[1] \in DOMAIN src /\ k \in OwnLine /\ Pragma(k) = "start"
    BY <2>1 DEF Marked, IsA
  <2>3. ts \in Seq(Tokens) /\ Legal("start", ts)
    BY <1>1, <2>2, TextTokens DEF TextInv, AllowedIsLegal
  <2>4. ClausesAt(b[1]) = Parse(ts).value
    BY DEF ClausesAt
  <2> HIDE DEF ts
  <2>5. Parse(ts).next # 0 /\ \A m \in DOMAIN Parse(ts).value :
                                Valid("start", Parse(ts).value[m].key, Parse(ts).value[m].value)
    BY <2>3 DEF Legal
  <2>6. Valid("start", c.key, c.value)
    BY <1>1, <2>4, <2>5
  <2>7. c.value \in From(ts, 1)
    <3>1. CASE ts = <<>>
      <4>1. Parse(ts) = Got(<<>>, 1)
        BY <3>1 DEF Parse
      <4>2. Parse(ts).value = <<>>
        BY <4>1, GotHas
      <4> QED
        BY <1>1, <2>4, <4>2
    <3>2. CASE ts # <<>>
      <4>1. Parse(ts) = Read(ts, "clauses", 1)
        <5>1. Refusal.next = 0
          BY GotHas DEF Refusal
        <5> QED
          BY <2>5, <3>2, <5>1, Zenon DEF Parse, Read
      <4>2. 1 \in 1 .. Len(ts) + 1
        BY <2>3
      <4>3. Found(ts, "clauses", 1)
        BY <2>5, <4>1, <4>2 DEF Found
      <4>4. Read(ts, "clauses", 1).value \in Seq(Keyed(From(ts, 1)))
        BY <2>3, <4>2, <4>3, AllWithin DEF Within
      <4>5. c \in Keyed(From(ts, 1))
        BY <1>1, <2>4, <4>1, <4>4
      <4> QED
        BY <4>5 DEF Keyed
    <3> QED
      BY <3>1, <3>2
  <2> HIDE DEF c
  <2>8. \E S : c.value.kind = "call" => c.value.args \in Seq(S) /\ c.value.kwargs \in Seq(Keyed(S))
    BY <2>3, <2>7, CallParts
  <2>9. Readable(c.key, c.value) \/ (c.key = "on_error" /\ Bare(c.value))
    BY <2>6, <2>8, ValidIsReadable
  <2> QED
    BY <2>9 DEF c
<1>2. TypeInv /\ PairInv /\ TextInv => ReadersFindTheirParts
  BY <1>1 DEF ReadersFindTheirParts
<1> QED
  BY <1>2, TypeHolds, TypeStep, PairHolds, PairStep, TextHolds, TextStep, PTL DEF Spec
=============================================================================
