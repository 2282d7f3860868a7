--------------------------- MODULE WavefrontProofs ---------------------------
(***************************************************************************)
(* Proofs about Wavefront: levels cut by divisors, for every range and set *)
(* of divisors, and by keys; whatever raises, is refused or abandoned.     *)
(***************************************************************************)
EXTENDS Wavefront, FiniteSetTheorems, WellFoundedInduction, TLAPS

-----------------------------------------------------------------------------
(* Numbers *)

\* A nonempty set of naturals has a least element.  With a set of counter-
\* examples for S it is the induction of the proofs below.
LEMMA LeastNatural ==
  ASSUME NEW S \in SUBSET Nat, S # {}
  PROVE  \E m \in S : \A n \in S : m <= n
<1>1. \E m \in S : \A n \in S : ~ (<<n, m>> \in OpToRel(<, Nat))
  BY NatLessThanWellFounded, WFMin
<1>2. ASSUME NEW m \in S, NEW n \in S, ~ (<<n, m>> \in OpToRel(<, Nat)) PROVE m <= n
  <2>1. OpToRel(<, Nat) = {ss \in Nat \X Nat : ss[1] < ss[2]}
    BY DEF OpToRel
  <2>2. m \in Nat /\ n \in Nat /\ <<n, m>> \in Nat \X Nat
    OBVIOUS
  <2>3. ~ (<<n, m>>[1] < <<n, m>>[2])
    BY <1>2, <2>1, <2>2
  <2> QED
    BY <2>2, <2>3
<1> QED
  BY <1>1, <1>2

\* Floor division, of negative numbers too.
LEMMA Floor ==
  ASSUME NEW a \in Int, NEW b \in Nat \ {0}
  PROVE  /\ a \div b \in Int
         /\ b * (a \div b) <= a
         /\ a < b * (a \div b) + b
OBVIOUS

LEMMA Ceil ==
  ASSUME NEW a \in Int, NEW b \in Nat \ {0}
  PROVE  /\ CeilDiv(a, b) \in Int
         /\ a <= b * CeilDiv(a, b)
         /\ b * CeilDiv(a, b) < a + b
<1> DEFINE k == (-a) \div b
<1>1. k \in Int /\ b * k <= -a /\ -a < b * k + b
  BY Floor
<1>2. CeilDiv(a, b) = -k /\ b * (-k) = -(b * k) /\ b * k \in Int
  BY <1>1 DEF CeilDiv
<1> HIDE DEF k
<1> QED
  BY <1>1, <1>2

\* A product with a positive factor keeps the order.
LEMMA TimesOrder ==
  ASSUME NEW a \in Int, NEW b \in Int, NEW c \in Nat \ {0}
  PROVE  /\ a <= b => c * a <= c * b
         /\ c * a < c * b => a < b
         /\ c * a \in Int
OBVIOUS

LEMMA TimesOneLess ==
  ASSUME NEW a \in Int, NEW c \in Nat \ {0}
  PROVE  c * (a - 1) = c * a - c
OBVIOUS

-----------------------------------------------------------------------------
(* Thresholds *)

\* There is a function that multiplies by D until it is at T or past it.
LEMMA Multiples ==
  ASSUME NEW D \in Nat, NEW T \in Nat
  PROVE  \E f \in [Nat -> Nat] :
           f = [k \in Nat |-> IF k = 0 THEN 1
                              ELSE LET t == f[k - 1] IN IF t >= T THEN t ELSE D * t]
<1> DEFINE After(t) == IF t >= T THEN t ELSE D * t
           Starts(m, f) == f[0] = 1 /\ \A k \in 1 .. m : f[k] = After(f[k - 1])
           Missing == {m \in Nat : ~ \E f \in [0 .. m -> Nat] : Starts(m, f)}
<1>0. \A t \in Nat : After(t) \in Nat
  OBVIOUS
<1> HIDE DEF After
<1>1. Missing = {}
  <2> SUFFICES ASSUME Missing # {} PROVE FALSE
    OBVIOUS
  <2>1. PICK m \in Missing : \A n \in Missing : m <= n
    BY LeastNatural
  <2>2. m # 0
    <3>1. [i \in 0 .. 0 |-> 1] \in [0 .. 0 -> Nat] /\ Starts(0, [i \in 0 .. 0 |-> 1])
      OBVIOUS
    <3> QED
      BY <2>1, <3>1
  <2>3. m - 1 \in Nat
    BY <2>1, <2>2
  <2>4. PICK f \in [0 .. m - 1 -> Nat] : Starts(m - 1, f)
    <3>1. m - 1 \notin Missing
      <4>1. ASSUME m - 1 \in Missing PROVE FALSE
        <5>1. m <= m - 1 /\ m \in Nat
          BY <2>1, <4>1
        <5> QED
          BY <5>1
      <4> QED
        BY <4>1
    <3> QED
      BY <2>3, <3>1
  <2> DEFINE g == [i \in 0 .. m |-> IF i = m THEN After(f[m - 1]) ELSE f[i]]
  <2>5. g \in [0 .. m -> Nat]
    <3>1. f[m - 1] \in Nat
      BY <2>3
    <3>2. \A i \in 0 .. m : i # m => f[i] \in Nat
      BY <2>3
    <3> QED
      BY <1>0, <3>1, <3>2
  <2>6. Starts(m, g)
    <3>1. g[0] = 1
      BY <2>2, <2>3, <2>4
    <3>2. ASSUME NEW k \in 1 .. m PROVE g[k] = After(g[k - 1])
      <4>1. g[k - 1] = f[k - 1]
        BY <2>3
      <4>2. CASE k = m
        BY <4>1, <4>2
      <4>3. CASE k # m
        <5>1. k \in 1 .. m - 1 /\ g[k] = f[k]
          BY <2>3, <4>3
        <5> QED
          BY <2>4, <4>1, <5>1
      <4> QED
        BY <4>2, <4>3
    <3> QED
      BY <3>1, <3>2
  <2>7. m \in Nat /\ ~ \E d \in [0 .. m -> Nat] : Starts(m, d)
    BY <2>1
  <2> QED
    BY <2>5, <2>6, <2>7
<1> DEFINE G(m) == CHOOSE f \in [0 .. m -> Nat] : Starts(m, f)
<1>2. \A m \in Nat : G(m) \in [0 .. m -> Nat] /\ Starts(m, G(m))
  BY <1>1
<1> HIDE DEF G
<1>3. ASSUME NEW m \in Nat PROVE \A k \in 0 .. m : G(m)[k] = G(m + 1)[k]
  <2> DEFINE Differ == {k \in 0 .. m : G(m)[k] # G(m + 1)[k]}
  <2> SUFFICES ASSUME Differ # {} PROVE FALSE
    OBVIOUS
  <2>1. PICK k \in Differ : \A n \in Differ : k <= n
    <3>1. Differ \in SUBSET Nat
      OBVIOUS
    <3> HIDE DEF Differ
    <3> QED
      BY <3>1, LeastNatural
  <2>2. m + 1 \in Nat /\ Starts(m, G(m)) /\ Starts(m + 1, G(m + 1))
    <3> HIDE DEF Starts
    <3> QED
      BY <1>2
  <2>3. k # 0
    BY <2>1, <2>2
  <2>4. k - 1 \in 0 .. m /\ G(m)[k - 1] = G(m + 1)[k - 1]
    BY <2>1, <2>3
  <2> QED
    BY <2>1, <2>2, <2>3, <2>4
<1> DEFINE h == [k \in Nat |-> G(k)[k]]
<1>4. h \in [Nat -> Nat]
  BY <1>2
<1>5. h[0] = 1
  BY <1>2
<1>6. ASSUME NEW k \in Nat, k # 0 PROVE h[k] = After(h[k - 1])
  <2>1. k - 1 \in Nat /\ k - 1 \in 0 .. k - 1 /\ (k - 1) + 1 = k
    BY <1>6
  <2>2. G(k - 1)[k - 1] = G(k)[k - 1]
    BY <1>3, <2>1
  <2>3. G(k)[k] = After(G(k)[k - 1])
    BY <1>2, <1>6
  <2> QED
    BY <2>1, <2>2, <2>3
<1> HIDE DEF h
<1>7. h = [k \in Nat |-> IF k = 0 THEN 1 ELSE After(h[k - 1])]
  BY <1>4, <1>5, <1>6
<1> QED
  BY <1>4, <1>7 DEF After

\* A loop cut by divisors: what its data are.
Cuttable == block \in BlockType /\ ~Acyclic /\ block.step > 0

LEMMA DivisorLeast ==
  ASSUME Cuttable
  PROVE  /\ Divisor \in block.divs /\ Divisor \in Nat \ {0, 1}
         /\ \A c \in block.divs : Divisor <= c
<1>1. block.divs \in SUBSET Nat /\ block.divs # {} /\ block.divs \subseteq Nat \ {0, 1}
  BY DEF Cuttable, BlockType, Acyclic
<1>2. \E c \in block.divs : \A d \in block.divs : c <= d
  BY <1>1, LeastNatural
<1> QED
  BY <1>1, <1>2 DEF Divisor

LEMMA ElemType ==
  ASSUME Cuttable, NEW p \in Int
  PROVE  /\ block.first \in Int /\ block.step \in Nat \ {0}
         /\ Elem(p) \in Int /\ block.step * p \in Int
         /\ Elem(p) = block.first + block.step * p
<1>1. block.first \in Int /\ block.step \in Nat \ {0}
  BY DEF Cuttable, BlockType
<1>2. p * block.step = block.step * p /\ block.step * p \in Int
  BY <1>1
<1> QED
  BY <1>1, <1>2 DEF Elem

\* Elements ascend with the positions.
LEMMA ElemOrder ==
  ASSUME Cuttable, NEW p \in Int, NEW q \in Int
  PROVE  /\ p < q <=> Elem(p) < Elem(q)
         /\ p <= q <=> Elem(p) <= Elem(q)
<1>1. /\ block.step \in Nat \ {0} /\ block.first \in Int
      /\ Elem(p) = block.first + block.step * p /\ Elem(q) = block.first + block.step * q
      /\ block.step * p \in Int /\ block.step * q \in Int
  BY ElemType
<1>2. /\ p <= q => block.step * p <= block.step * q
      /\ q <= p => block.step * q <= block.step * p
      /\ block.step * p < block.step * q => p < q
      /\ block.step * q < block.step * p => q < p
  BY <1>1, TimesOrder
<1>3. block.step * p = block.step * q => p = q
  BY <1>1
<1> QED
  BY <1>1, <1>2, <1>3

\* The thresholds: 1, then Divisor times the one before until one is at Top.
LEMMA ThresholdSteps ==
  ASSUME Cuttable
  PROVE  /\ Top \in Nat
         /\ Threshold \in [Nat -> Nat] /\ Threshold[0] = 1
         /\ \A k \in Nat : Threshold[k + 1] = IF Threshold[k] >= Top THEN Threshold[k]
                                               ELSE Divisor * Threshold[k]
<1>1. Top \in Nat
  BY ElemType, IterationsAssumption DEF Top
<1>2. Divisor \in Nat
  BY DivisorLeast
<1>3. \E f \in [Nat -> Nat] :
        f = [k \in Nat |-> IF k = 0 THEN 1
                           ELSE LET t == f[k - 1] IN IF t >= Top THEN t ELSE Divisor * t]
  BY <1>1, <1>2, Multiples
<1>4. Threshold = [k \in Nat |-> IF k = 0 THEN 1
                     ELSE LET t == Threshold[k - 1] IN IF t >= Top THEN t ELSE Divisor * t]
  BY <1>3, Zenon DEF Threshold
<1> HIDE DEF Threshold
<1>5. Threshold[0] = 1
  BY <1>4
<1>6. ASSUME NEW k \in Nat
      PROVE  Threshold[k + 1] = IF Threshold[k] >= Top THEN Threshold[k] ELSE Divisor * Threshold[k]
  <2>1. k + 1 \in Nat /\ k + 1 # 0 /\ (k + 1) - 1 = k
    OBVIOUS
  <2> QED
    BY <1>4, <2>1
<1>7. \A k \in Nat : Threshold[k] \in Nat
  <2> DEFINE Odd == {k \in Nat : Threshold[k] \notin Nat}
  <2> SUFFICES ASSUME Odd # {} PROVE FALSE
    OBVIOUS
  <2>0. Odd \in SUBSET Nat
    OBVIOUS
  <2>1. PICK k \in Odd : \A n \in Odd : k <= n
    <3> HIDE DEF Odd
    <3> QED
      BY <2>0, LeastNatural
  <2>2. k - 1 \in Nat /\ (k - 1) + 1 = k
    BY <2>1, <1>5
  <2>3. Threshold[k - 1] \in Nat
    BY <2>1, <2>2
  <2>4. Threshold[k] = IF Threshold[k - 1] >= Top THEN Threshold[k - 1] ELSE Divisor * Threshold[k - 1]
    BY <1>6, <2>2
  <2>5. Divisor * Threshold[k - 1] \in Nat
    BY <1>2, <2>3
  <2> QED
    BY <2>1, <2>3, <2>4, <2>5
<1>8. Threshold \in [Nat -> Nat]
  BY <1>4, <1>7
<1> QED
  BY <1>1, <1>5, <1>6, <1>8

\* They reach Top.
LEMMA ThresholdsReachTop ==
  ASSUME Cuttable
  PROVE  Threshold[Top] >= Top
<1> DEFINE Low == {k \in Nat : Threshold[k] < Top /\ Threshold[k] < k + 1}
<1>1. /\ Top \in Nat /\ Threshold \in [Nat -> Nat] /\ Threshold[0] = 1
      /\ \A k \in Nat : Threshold[k + 1] = IF Threshold[k] >= Top THEN Threshold[k]
                                           ELSE Divisor * Threshold[k]
  BY ThresholdSteps
<1>2. Divisor \in Nat \ {0, 1}
  BY DivisorLeast
<1>3. Low = {}
  <2> SUFFICES ASSUME Low # {} PROVE FALSE
    OBVIOUS
  <2>0. Low \in SUBSET Nat
    OBVIOUS
  <2>1. PICK k \in Low : \A n \in Low : k <= n
    <3> HIDE DEF Low
    <3> QED
      BY <2>0, LeastNatural
  <2>2. k - 1 \in Nat /\ (k - 1) + 1 = k
    BY <2>1, <1>1
  <2>3. k - 1 \notin Low
    <3>1. k - 1 \in Low => k <= k - 1
      BY <2>1
    <3> QED
      BY <2>2, <3>1
  <2>4. Threshold[k] = IF Threshold[k - 1] >= Top THEN Threshold[k - 1] ELSE Divisor * Threshold[k - 1]
    BY <1>1, <2>2
  <2>5. Threshold[k - 1] \in Nat /\ Threshold[k] < Top /\ Threshold[k] < k + 1
    BY <1>1, <2>1, <2>2
  <2>6. Threshold[k - 1] < Top /\ Threshold[k - 1] >= k
    BY <1>1, <2>2, <2>3, <2>4, <2>5
  <2>7. 2 * Threshold[k - 1] <= Divisor * Threshold[k - 1]
    BY <1>2, <2>5
  <2>8. Threshold[k] = Divisor * Threshold[k - 1]
    BY <1>1, <2>4, <2>5, <2>6
  <2>9. Threshold[k] \in Nat /\ k \in Nat /\ k >= 1 /\ 2 * Threshold[k - 1] >= 2 * k
    BY <1>1, <2>1, <2>2, <2>5, <2>6
  <2> QED
    BY <2>5, <2>7, <2>8, <2>9
<1> QED
  BY <1>1, <1>3

\* Between an element and one Divisor times as large there is a threshold.
LEMMA PowerBetween ==
  ASSUME Cuttable, NEW q \in Nat, NEW e \in Nat, e >= 1, Divisor * q <= e, e <= Top
  PROVE  \E t \in Powers : t \in Nat /\ q < t /\ t <= e
<1>1. /\ Top \in Nat /\ Threshold \in [Nat -> Nat] /\ Threshold[0] = 1
      /\ \A k \in Nat : Threshold[k + 1] = IF Threshold[k] >= Top THEN Threshold[k]
                                           ELSE Divisor * Threshold[k]
  BY ThresholdSteps
<1>2. Divisor \in Nat \ {0, 1}
  BY DivisorLeast
<1>3. Threshold[Top] >= Top
  BY ThresholdsReachTop
<1> DEFINE Over0 == {k \in Nat : q < Threshold[k]}
<1>4. q < e
  <2>1. q # 0 => 2 * q <= Divisor * q /\ Divisor * q \in Nat
    BY <1>2
  <2> QED
    BY <2>1
<1>5. Top \in Over0
  BY <1>1, <1>3, <1>4
<1>6. PICK k \in Over0 : \A n \in Over0 : k <= n
  <2>1. Over0 \in SUBSET Nat
    OBVIOUS
  <2> HIDE DEF Over0
  <2> QED
    BY <1>5, <2>1, LeastNatural
<1>7. k \in 0 .. Top /\ Threshold[k] \in Powers /\ Threshold[k] \in Nat /\ q < Threshold[k]
  BY <1>1, <1>5, <1>6 DEF Powers
<1>8. Threshold[k] <= e
  <2>1. CASE k = 0
    BY <1>1, <2>1
  <2>2. CASE k # 0
    <3>1. k - 1 \in Nat /\ (k - 1) + 1 = k
      BY <2>2
    <3>2. k - 1 \notin Over0
      <4>1. k - 1 \in Over0 => k <= k - 1
        BY <1>6
      <4> QED
        BY <3>1, <4>1
    <3>3. Threshold[k - 1] \in Nat /\ Threshold[k - 1] <= q
      BY <1>1, <3>1, <3>2
    <3>4. Threshold[k] = Divisor * Threshold[k - 1]
      BY <1>1, <1>7, <3>1, <3>3
    <3>5. Divisor * Threshold[k - 1] <= Divisor * q /\ Divisor * q \in Int /\ Divisor * Threshold[k - 1] \in Int
      BY <1>2, <3>3, TimesOrder
    <3> QED
      BY <3>4, <3>5
  <2> QED
    BY <2>1, <2>2
<1> QED
  BY <1>7, <1>8

-----------------------------------------------------------------------------
(* Cuts *)

\* The cut of a threshold is the first position whose element is not below it.
LEMMA CutAt ==
  ASSUME Cuttable, NEW t \in Int
  PROVE  LET b == Clamp(CeilDiv(t - block.first, block.step))
         IN  /\ b \in 0 .. N
             /\ \A p \in Pos : p >= b <=> Elem(p) >= t
<1> DEFINE k == CeilDiv(t - block.first, block.step)
<1>1. N \in Nat \ {0} /\ block.first \in Int /\ block.step \in Nat \ {0}
  BY IterationsAssumption DEF Cuttable, BlockType
<1>2. /\ k \in Int /\ block.step * k \in Int
      /\ t - block.first <= block.step * k /\ block.step * k < t - block.first + block.step
  <2>1. t - block.first \in Int
    BY <1>1
  <2>2. /\ k \in Int
        /\ t - block.first <= block.step * k /\ block.step * k < t - block.first + block.step
    BY <1>1, <2>1, Ceil
  <2> HIDE DEF k
  <2> QED
    BY <1>1, <2>2, TimesOrder
<1> HIDE DEF k
<1>3. Clamp(k) = IF k < 0 THEN 0 ELSE IF k > N THEN N ELSE k
  BY DEF Clamp
<1>4. ASSUME NEW p \in Pos PROVE p >= k <=> Elem(p) >= t
  <2>1. p \in Int /\ Elem(p) = block.first + block.step * p /\ block.step * p \in Int
    BY <1>1, ElemType DEF Pos
  <2>2. p >= k => block.step * k <= block.step * p
    BY <1>1, <1>2, <2>1, TimesOrder
  <2>3. p <= k - 1 => block.step * p <= block.step * (k - 1)
    BY <1>1, <1>2, <2>1, TimesOrder
  <2>4. block.step * (k - 1) = block.step * k - block.step
    BY <1>1, <1>2, TimesOneLess
  <2> QED
    BY <1>1, <1>2, <2>1, <2>2, <2>3, <2>4
<1>5. \A p \in Pos : p >= Clamp(k) <=> p >= k
  BY <1>1, <1>2, <1>3 DEF Pos
<1>6. Clamp(k) \in 0 .. N
  BY <1>1, <1>2, <1>3
<1> QED
  BY <1>4, <1>5, <1>6 DEF k

LEMMA PowersType ==
  ASSUME Cuttable
  PROVE  Powers \subseteq Nat
<1>1. Top \in Nat /\ Threshold \in [Nat -> Nat]
  BY ThresholdSteps
<1> QED
  BY <1>1 DEF Powers

LEMMA CutsType ==
  ASSUME Cuttable
  PROVE  Cuts \subseteq 0 .. N /\ N \in Cuts
<1>1. Powers \subseteq Nat
  BY PowersType
<1>2. Cuts \subseteq 0 .. N
  BY <1>1, CutAt DEF Cuts
<1> DEFINE t == Threshold[Top]
           b == Clamp(CeilDiv(t - block.first, block.step))
<1>3. Top \in Nat /\ t \in Powers /\ t \in Int /\ t >= Top
  BY <1>1, ThresholdSteps, ThresholdsReachTop DEF Powers
<1>4. b \in 0 .. N /\ (\A p \in Pos : p >= b <=> Elem(p) >= t) /\ b \in Cuts
  <2> HIDE DEF t
  <2> QED
    BY <1>3, CutAt DEF Cuts
<1> HIDE DEF b, t
<1>5. Elem(N - 1) < t
  <2>1. N - 1 \in Int /\ N \in Int /\ Elem(N - 1) \in Int /\ Elem(N) \in Int
    BY IterationsAssumption, ElemType
  <2>2. Elem(N - 1) < Elem(N)
    BY <2>1, ElemOrder
  <2>3. Elem(N) <= Top
    BY <2>1 DEF Top
  <2> QED
    BY <1>3, <2>1, <2>2, <2>3
<1>6. N - 1 \in Pos /\ Elem(N - 1) \in Int
  BY IterationsAssumption, ElemType DEF Pos
<1>7. b = N
  BY <1>3, <1>4, <1>5, <1>6, IterationsAssumption
<1> QED
  BY <1>2, <1>4, <1>7

\* A quotient below the element it is of is cut off from it.
LEMMA CutBetween ==
  ASSUME Cuttable, NEW p \in Pos, NEW q \in Pos, NEW c \in block.divs,
         Elem(q) = Elem(p) \div c, q < p
  PROVE  \E b \in Cuts : q < b /\ b <= p
<1> DEFINE e == Elem(p)
           m == Elem(q)
<1>1. e \in Int /\ m \in Int /\ p \in Int /\ q \in Int /\ N \in Int /\ Elem(N) \in Int
  BY ElemType, IterationsAssumption DEF Pos
<1>2. c \in Nat \ {0, 1} /\ Divisor \in Nat /\ Divisor <= c
  BY DivisorLeast DEF Cuttable, BlockType
<1>3. m < e /\ e < Elem(N)
  BY <1>1, ElemOrder, IterationsAssumption DEF Pos
<1>4. c * m <= e /\ e < c * m + c /\ c * m \in Int /\ c * e \in Int
  <2> HIDE DEF e
  <2> QED
    BY <1>1, <1>2, Floor, TimesOrder DEF e
<1> HIDE DEF e, m
<1>5. e >= 1
  <2> SUFFICES ASSUME e <= 0 PROVE FALSE
    BY <1>1
  <2>1. c * m <= c * (e - 1) /\ c * (e - 1) = c * e - c
    BY <1>1, <1>2, <1>3, TimesOrder
  <2>2. c * e <= e
    BY <1>1, <1>2
  <2> QED
    BY <1>1, <1>2, <1>4, <2>1, <2>2
<1>6. m >= 0
  <2> SUFFICES ASSUME m <= -1 PROVE FALSE
    BY <1>1
  <2>1. c * m <= c * (-1)
    BY <1>1, <1>2, TimesOrder
  <2> QED
    BY <1>1, <1>2, <1>4, <1>5, <2>1
<1>7. Divisor * m <= e
  <2>1. Divisor * m <= c * m /\ Divisor * m \in Int
    BY <1>1, <1>2, <1>6
  <2> QED
    BY <1>1, <1>4, <2>1
<1>8. e <= Top
  BY <1>1, <1>3, <1>5 DEF Top
<1>9. PICK t \in Powers : t \in Nat /\ m < t /\ t <= e
  BY <1>1, <1>5, <1>6, <1>7, <1>8, PowerBetween
<1> DEFINE b == Clamp(CeilDiv(t - block.first, block.step))
<1>10. b \in 0 .. N /\ (\A r \in Pos : r >= b <=> Elem(r) >= t) /\ b \in Cuts
  BY <1>9, CutAt DEF Cuts
<1> HIDE DEF b
<1>11. b <= p /\ q < b
  BY <1>1, <1>9, <1>10, IterationsAssumption DEF e, m
<1> QED
  BY <1>10, <1>11

\* Between positions of different keys there is a cut.
LEMMA KeyCutBetween ==
  ASSUME block \in BlockType, NEW p \in Pos, NEW q \in Pos, q < p,
         block.order[q] # block.order[p]
  PROVE  \E b \in KeyCuts : q < b /\ b <= p
<1> DEFINE New == {r \in Nat : q < r /\ r <= p /\ block.order[r] # block.order[q]}
<1>1. p \in New /\ New \in SUBSET Nat
  BY DEF Pos
<1>2. PICK b \in New : \A r \in New : b <= r
  <2> HIDE DEF New
  <2> QED
    BY <1>1, LeastNatural
<1>3. block.order[b - 1] = block.order[q]
  <2>1. CASE b - 1 = q
    BY <2>1
  <2>2. CASE b - 1 # q
    <3>1. b - 1 \in Nat /\ q < b - 1 /\ b - 1 <= p /\ b - 1 \notin New
      BY <1>2, <2>2 DEF Pos
    <3> QED
      BY <3>1
  <2> QED
    BY <2>1, <2>2
<1>4. b \in KeyCuts
  BY <1>2, <1>3, IterationsAssumption DEF KeyCuts, Pos
<1> QED
  BY <1>2, <1>4

-----------------------------------------------------------------------------
(***************************************************************************)
(* The invariant, in parts.                                                *)
(***************************************************************************)
\* No level holds both a position and a quotient of it below it, or two keys.
CutInv ==
  pc = "levels" =>
    \A p, q \in Pos :
      /\ q < p
      /\ IF Acyclic THEN block.order[q] # block.order[p]
         ELSE \E c \in block.divs : Elem(q) = Elem(p) \div c
      => \E b \in cuts : q < b /\ b <= p

\* The container shows the first m iterations, none of which raises, and what
\* is run next starts there; but for the twin that reruns, which is behind.
ShownInv ==
  /\ \E m \in 0 .. N : /\ shown = 0 .. m - 1
                       /\ pc # "end" => from <= m
                       /\ pc # "end" /\ ~rerun => from = m
  /\ shown \cap raises = {}
  /\ pc = "levels" => ~rerun
  /\ pc # "end" => outcome = "none"

\* Only the twin that reruns counts an iteration again.
CountInv ==
  /\ CountsOnce
  /\ ~block.reduces => counted = [p \in Pos |-> 0]
  /\ rerun => \A p \in Pos : counted[p] <= IF p < from THEN 2 ELSE 1

Inv == TypeOK /\ CutInv /\ ShownInv /\ CountInv

\* What depend=acyclic(order=key) promises: an iteration reads what an earlier
\* one wrote only if their keys differ.
UserOrders ==
  \A b \in Blocks : b.divs = {} =>
    \A p \in Pos : \A q \in b.reads[p] : q < p => b.order[q] # b.order[p]

-----------------------------------------------------------------------------
(* Levels *)

\* A level is nonempty, ends at a cut and has none within.
LEMMA LevelEnds ==
  ASSUME TypeOK, pc = "levels", from < N
  PROVE  /\ End \in cuts /\ End \in from + 1 .. N
         /\ \A e \in cuts : ~ (from < e /\ e < End)
<1> DEFINE After == {b \in cuts : b > from}
<1>1. cuts \subseteq 0 .. N /\ N \in cuts /\ from \in 0 .. N /\ N \in Nat
  BY IterationsAssumption DEF TypeOK
<1>2. After \in SUBSET Nat /\ After # {}
  <2>1. N \in After
    BY <1>1
  <2>2. \A b \in After : b \in Nat
    BY <1>1
  <2> QED
    BY <2>1, <2>2
<1>3. \E m \in After : \A n \in After : m <= n
  <2> HIDE DEF After
  <2> QED
    BY <1>2, LeastNatural
<1>4. \E b \in cuts : b > from /\ \A e \in cuts : e > from => b <= e
  BY <1>3
<1>5. End \in cuts /\ End > from /\ \A e \in cuts : e > from => End <= e
  BY <1>4 DEF End, LevelEnd
<1> QED
  BY <1>1, <1>5

\* FirstRaise is in the level or its end, and nothing before it raises.
LEMMA FirstRaiseIs ==
  ASSUME TypeOK, pc = "levels", from < N
  PROVE  /\ FirstRaise \in from .. End /\ FirstRaise <= N
         /\ FirstRaise # End => FirstRaise \in raises
         /\ \A q \in from .. FirstRaise - 1 : q \notin raises
<1> DEFINE Stops == {p \in from .. End : p = End \/ p \in raises}
<1>1. from \in Nat /\ End \in from + 1 .. N /\ N \in Nat
  BY LevelEnds, IterationsAssumption DEF TypeOK
<1>2. Stops \in SUBSET Nat /\ Stops # {}
  BY <1>1
<1>3. \E m \in Stops : \A n \in Stops : m <= n
  <2> HIDE DEF Stops
  <2> QED
    BY <1>2, LeastNatural
<1>4. \E p \in from .. End : /\ p = End \/ p \in raises
                             /\ \A q \in from .. p - 1 : q \notin raises
  <2>1. PICK m \in Stops : \A n \in Stops : m <= n
    BY <1>3
  <2>2. \A q \in from .. m - 1 : q \notin raises
    BY <1>1, <2>1
  <2> QED
    BY <2>1, <2>2
<1>5. /\ FirstRaise \in from .. End
      /\ FirstRaise = End \/ FirstRaise \in raises
      /\ \A q \in from .. FirstRaise - 1 : q \notin raises
  BY <1>4 DEF FirstRaise
<1> QED
  BY <1>1, <1>5

\* A wide level's chunks are not empty.
LEMMA ChunkStepPositive ==
  ASSUME TypeOK, pc = "levels", from < N
  PROVE  ChunkStep \in Nat \ {0}
<1> DEFINE a == End - from
           w == IF Width < a THEN Width ELSE a
<1>1. a \in Nat \ {0} /\ w \in Nat \ {0}
  BY LevelEnds, WavefrontAssumption DEF TypeOK
<1> HIDE DEF a, w
<1>2. CeilDiv(a, w) \in Int /\ a <= w * CeilDiv(a, w)
  BY <1>1, Ceil
<1>3. CeilDiv(a, w) <= 0 => w * CeilDiv(a, w) <= w * 0
  BY <1>1, <1>2, TimesOrder
<1>4. CeilDiv(a, w) > 0
  BY <1>1, <1>2, <1>3
<1> QED
  BY <1>2, <1>4 DEF ChunkStep, a, w

\* Where the levels are cut, whatever the block.
LEMMA CutData ==
  ASSUME block \in Blocks, Ordered
  PROVE  (IF Acyclic THEN KeyCuts ELSE Cuts) \subseteq 0 .. N
         /\ N \in IF Acyclic THEN KeyCuts ELSE Cuts
<1>1. CASE Acyclic
  BY <1>1, IterationsAssumption DEF KeyCuts
<1>2. CASE ~Acyclic
  <2>1. Cuttable
    BY <1>2, WavefrontAssumption DEF Cuttable, Ordered
  <2> QED
    BY <1>2, <2>1, CutsType
<1> QED
  BY <1>1, <1>2

-----------------------------------------------------------------------------
(* The invariant *)

LEMMA InvInit == Init => Inv
<1> SUFFICES ASSUME Init PROVE Inv
  OBVIOUS
<1>1. TypeOK
  <2>1. raises \subseteq Pos
    BY WavefrontAssumption DEF Init
  <2>2. cuts \subseteq 0 .. N /\ (pc = "levels" => N \in cuts)
    BY CutData DEF Init
  <2>3. from \in 0 .. N
    BY IterationsAssumption DEF Init
  <2>4. counted \in [Pos -> 0 .. 2]
    BY DEF Init
  <2> QED
    BY <2>1, <2>2, <2>3, <2>4 DEF Init, TypeOK
<1>2. CutInv
  <2> SUFFICES ASSUME pc = "levels" PROVE CutInv
    BY DEF CutInv
  <2>1. block \in BlockType /\ Ordered
    BY WavefrontAssumption DEF Init
  <2>2. CASE Acyclic
    <3>1. cuts = KeyCuts
      BY <2>1, <2>2 DEF Init
    <3> QED
      BY <2>1, <2>2, <3>1, KeyCutBetween DEF CutInv
  <2>3. CASE ~Acyclic
    <3>1. cuts = Cuts /\ Cuttable
      BY <2>1, <2>3 DEF Init, Cuttable, Ordered
    <3> QED
      BY <2>3, <3>1, CutBetween DEF CutInv
  <2> QED
    BY <2>2, <2>3
<1>3. ShownInv
  <2>1. shown = 0 .. 0 - 1 /\ 0 \in 0 .. N /\ from = 0
    BY IterationsAssumption DEF Init
  <2>2. shown \cap raises = {} /\ ~rerun /\ outcome = "none"
    BY DEF Init
  <2> QED
    BY <2>1, <2>2 DEF ShownInv
<1>4. CountInv
  BY DEF Init, CountInv, CountsOnce
<1> QED
  BY <1>1, <1>2, <1>3, <1>4 DEF Inv

\* What committing the iterations up to b leaves.
LEMMA Commits ==
  ASSUME Inv, pc # "end", NEW b \in from .. N, Commit(from, b), block' = block,
         \A r \in from .. b - 1 : r \notin raises
  PROVE  /\ \E m \in 0 .. N : shown' = 0 .. m - 1 /\ b <= m /\ (~rerun => b = m)
         /\ shown' \subseteq Pos /\ shown' \cap raises = {}
         /\ counted' \in [Pos -> 0 .. 2]
         /\ ~rerun /\ block.reduces => counted' = [p \in Pos |-> IF p \in shown' THEN 1 ELSE 0]
         /\ ~block.reduces => counted' = [p \in Pos |-> 0]
         /\ rerun => \A p \in Pos : counted'[p] <= IF p < b THEN 2 ELSE 1
         /\ stale' \in BOOLEAN
<1>1. PICK m \in 0 .. N : /\ shown = 0 .. m - 1 /\ from <= m
                          /\ ~rerun => from = m
  BY DEF Inv, ShownInv
<1>2. /\ from \in Nat /\ N \in Nat /\ b \in Nat /\ m \in Nat /\ b <= N /\ from <= b
      /\ counted \in [Pos -> 0 .. 2] /\ stale \in BOOLEAN /\ shown \cap raises = {}
  BY IterationsAssumption DEF Inv, TypeOK, ShownInv
<1>3. shown' = shown \cup from .. b - 1
  BY DEF Commit
<1>4. counted' = [p \in Pos |-> counted[p] + IF block.reduces /\ p \in from .. b - 1 THEN 1 ELSE 0]
  BY DEF Commit
<1>5. \E n \in 0 .. N : shown' = 0 .. n - 1 /\ b <= n /\ (~rerun => b = n)
  <2>1. CASE b <= m
    <3>1. shown' = 0 .. m - 1 /\ (~rerun => b = m)
      BY <1>1, <1>2, <1>3, <2>1
    <3> QED
      BY <2>1, <3>1
  <2>2. CASE m < b
    <3>1. shown' = 0 .. b - 1 /\ b \in 0 .. N
      BY <1>1, <1>2, <1>3, <2>2
    <3> QED
      BY <3>1
  <2> QED
    BY <1>2, <2>1, <2>2
<1>6. shown' \subseteq Pos /\ shown' \cap raises = {}
  <2>1. shown' \subseteq Pos
    BY <1>2, <1>5 DEF Pos
  <2>2. shown' \cap raises = {}
    BY <1>2, <1>3
  <2> QED
    BY <2>1, <2>2
<1>7. ASSUME ~block.reduces PROVE counted' = [p \in Pos |-> 0]
  <2>1. counted = [p \in Pos |-> 0]
    BY <1>7 DEF Inv, CountInv
  <2> QED
    BY <1>4, <1>7, <2>1
<1>8. ASSUME block.reduces, ~rerun PROVE counted' = [p \in Pos |-> IF p \in shown' THEN 1 ELSE 0]
  <2>1. counted = [p \in Pos |-> IF p \in shown THEN 1 ELSE 0]
    BY <1>8 DEF Inv, CountInv, CountsOnce
  <2>2. shown = 0 .. from - 1
    BY <1>1, <1>8
  <2>3. \A p \in Pos : counted'[p] = IF p \in shown' THEN 1 ELSE 0
    BY <1>2, <1>3, <1>4, <1>8, <2>1, <2>2 DEF Pos
  <2> QED
    BY <1>4, <2>3
<1>9. ASSUME rerun PROVE \A p \in Pos : counted'[p] \in 0 .. 2 /\ counted'[p] <= IF p < b THEN 2 ELSE 1
  <2>1. \A p \in Pos : counted[p] <= IF p < from THEN 2 ELSE 1
    BY <1>9 DEF Inv, CountInv
  <2> QED
    BY <1>2, <1>4, <2>1 DEF Pos
<1>10. counted' \in [Pos -> 0 .. 2]
  <2>1. counted' \in [Pos -> Int]
    BY <1>2, <1>4
  <2>2. \A p \in Pos : counted'[p] \in 0 .. 2
    BY <1>7, <1>8, <1>9
  <2> QED
    BY <1>4, <2>2
<1>11. stale' \in BOOLEAN
  BY <1>2 DEF Commit
<1> QED
  BY <1>5, <1>6, <1>7, <1>8, <1>9, <1>10, <1>11

\* An iteration that an action runs at from is one the loop has.
LEMMA Unfinished ==
  ASSUME Inv, from < N
  PROVE  from \in 0 .. N - 1 /\ from \in Nat /\ N \in Nat
BY IterationsAssumption DEF Inv, TypeOK

LEMMA InvRunLevel == Inv /\ RunLevel => Inv'
<1> SUFFICES ASSUME Inv, RunLevel PROVE Inv'
  OBVIOUS
<1>1. /\ pc = "levels" /\ from < N /\ FirstRaise = End /\ Commit(from, End) /\ from' = End
      /\ block' = block /\ raises' = raises /\ cuts' = cuts /\ pc' = pc
      /\ rerun' = rerun /\ outcome' = outcome
  BY DEF RunLevel, data
<1>2. End \in from .. N /\ End \in 0 .. N /\ \A r \in from .. End - 1 : r \notin raises
  BY <1>1, LevelEnds, FirstRaiseIs, Unfinished DEF Inv
<1>3. /\ \E m \in 0 .. N : shown' = 0 .. m - 1 /\ End <= m /\ (~rerun => End = m)
      /\ shown' \subseteq Pos /\ shown' \cap raises = {}
      /\ counted' \in [Pos -> 0 .. 2]
      /\ ~rerun /\ block.reduces => counted' = [p \in Pos |-> IF p \in shown' THEN 1 ELSE 0]
      /\ ~block.reduces => counted' = [p \in Pos |-> 0]
      /\ rerun => \A p \in Pos : counted'[p] <= IF p < End THEN 2 ELSE 1
      /\ stale' \in BOOLEAN
  <2> HIDE DEF End
  <2> QED
    BY <1>1, <1>2, Commits
<1>4. TypeOK'
  BY <1>1, <1>2, <1>3 DEF Inv, TypeOK
<1>5. CutInv'
  BY <1>1 DEF Inv, CutInv, Acyclic, Elem
<1>6. ShownInv'
  BY <1>1, <1>3 DEF Inv, ShownInv
<1>7. CountInv'
  BY <1>1, <1>3 DEF Inv, CountInv, CountsOnce
<1> QED
  BY <1>4, <1>5, <1>6, <1>7 DEF Inv

\* Where an abandoned level's completed prefix ends.
LEMMA PrefixEnd ==
  ASSUME Inv, pc = "levels", from < N,
         NEW c \in 0 .. ChunkOf(End - 1) + 1, NEW b, b = from + c * ChunkStep, b <= FirstRaise
  PROVE  b \in from .. N /\ \A r \in from .. b - 1 : r \notin raises
<1>1. ChunkStep \in Nat \ {0} /\ End \in Int /\ from \in Nat /\ N \in Nat
  BY ChunkStepPositive, LevelEnds, Unfinished DEF Inv
<1>2. c \in Nat
  <2>1. (End - 1 - from) \div ChunkStep \in Int
    BY <1>1, Floor
  <2> QED
    BY <2>1 DEF ChunkOf
<1>3. c * ChunkStep \in Nat
  BY <1>1, <1>2
<1>4. FirstRaise \in from .. End /\ FirstRaise <= N /\ \A q \in from .. FirstRaise - 1 : q \notin raises
  BY FirstRaiseIs DEF Inv
<1> QED
  BY <1>1, <1>3, <1>4

\* A level that ends the call leaves what it committed.
LEMMA InvLeaves ==
  ASSUME Inv, pc = "levels", NEW b \in from .. N, Commit(from, b),
         \A r \in from .. b - 1 : r \notin raises,
         UNCHANGED <<data, from, rerun>>, pc' = "end",
         outcome' \in {"error"} \cup AllFaults
  PROVE  Inv'
<1>1. /\ pc # "end" /\ block' = block /\ raises' = raises /\ cuts' = cuts /\ from' = from /\ rerun' = rerun
      /\ ~rerun
  BY DEF data, Inv, ShownInv
<1>2. /\ \E m \in 0 .. N : shown' = 0 .. m - 1 /\ b <= m /\ (~rerun => b = m)
      /\ shown' \subseteq Pos /\ shown' \cap raises = {}
      /\ counted' \in [Pos -> 0 .. 2]
      /\ ~rerun /\ block.reduces => counted' = [p \in Pos |-> IF p \in shown' THEN 1 ELSE 0]
      /\ ~block.reduces => counted' = [p \in Pos |-> 0]
      /\ stale' \in BOOLEAN
  BY <1>1, Commits
<1>3. TypeOK'
  BY <1>1, <1>2 DEF Inv, TypeOK
<1>4. CutInv'
  BY <1>1 DEF CutInv
<1>5. ShownInv'
  BY <1>1, <1>2 DEF ShownInv
<1>6. CountInv'
  BY <1>1, <1>2 DEF CountInv, CountsOnce
<1> QED
  BY <1>3, <1>4, <1>5, <1>6 DEF Inv

\* One that ends without a commit leaves everything.
LEMMA InvStays ==
  ASSUME Inv, pc # "end", UNCHANGED <<data, shown, counted, stale>>,
         \/ pc' = "end" /\ from' = from /\ rerun' = rerun
              /\ outcome' \in {"returned", "error", "conflict", "refused"}
         \/ pc = "levels" /\ pc' = "twin" /\ from' = 0 /\ rerun' = (from > 0) /\ outcome' = outcome
  PROVE  Inv'
<1>1. /\ block' = block /\ raises' = raises /\ cuts' = cuts /\ pc' # "levels"
      /\ shown' = shown /\ counted' = counted /\ stale' = stale
  BY DEF data
<1>2. from \in 0 .. N /\ N \in Nat
  BY IterationsAssumption DEF Inv, TypeOK
<1>3. TypeOK'
  <2>1. from' \in 0 .. N /\ rerun' \in BOOLEAN
    <3>1. (from > 0) \in BOOLEAN /\ rerun \in BOOLEAN
      BY DEF Inv, TypeOK
    <3>2. 0 \in 0 .. N
      BY <1>2
    <3> QED
      BY <1>2, <3>1, <3>2
  <2>2. pc' \in {"twin", "end"}
    OBVIOUS
  <2>3. outcome' \in {"none", "returned", "error", "conflict", "refused"} \cup AllFaults
    BY DEF Inv, TypeOK
  <2> QED
    BY <1>1, <2>1, <2>2, <2>3 DEF Inv, TypeOK
<1>4. CutInv'
  BY <1>1 DEF CutInv
<1>5. ShownInv'
  <2>1. PICK m \in 0 .. N : /\ shown = 0 .. m - 1 /\ from <= m
                            /\ ~rerun => from = m
    BY DEF Inv, ShownInv
  <2>2. pc' # "end" => from' <= m
    BY <1>2, <2>1
  <2>3. pc' # "end" /\ ~rerun' => from' = m
    <3> SUFFICES ASSUME pc' # "end", ~rerun' PROVE from' = m
      OBVIOUS
    <3>1. pc = "levels" /\ from' = 0 /\ ~ (from > 0)
      OBVIOUS
    <3>2. ~rerun
      BY <3>1 DEF Inv, ShownInv
    <3> QED
      BY <1>2, <2>1, <3>1, <3>2
  <2>4. shown \cap raises = {} /\ outcome = "none"
    BY DEF Inv, ShownInv
  <2> QED
    BY <1>1, <2>1, <2>2, <2>3, <2>4 DEF ShownInv
<1>6. CountInv'
  <2>1. CASE pc' = "end"
    BY <1>1, <2>1 DEF Inv, CountInv, CountsOnce
  <2>2. CASE pc' # "end"
    <3>1. ~rerun
      BY <2>2 DEF Inv, ShownInv
    <3>2. \A p \in Pos : counted[p] <= 1
      BY <3>1 DEF Inv, CountInv, CountsOnce
    <3> QED
      BY <1>1, <1>2, <2>2, <3>1, <3>2 DEF Inv, CountInv, CountsOnce, Pos
  <2> QED
    BY <2>1, <2>2
<1> QED
  BY <1>3, <1>4, <1>5, <1>6 DEF Inv

LEMMA InvTwin == Inv /\ Twin => Inv'
<1> SUFFICES ASSUME Inv, Twin PROVE Inv'
  OBVIOUS
<1>1. pc = "twin" /\ from < N /\ UNCHANGED data /\ rerun' = rerun
  BY DEF Twin
<1>2. CASE from \in raises
  <2>1. pc' = "end" /\ outcome' = "error" /\ from' = from /\ UNCHANGED <<shown, counted, stale>>
    BY <1>2 DEF Twin, Ends
  <2> QED
    BY <1>1, <2>1, InvStays
<1>3. CASE from \notin raises
  <2>1. /\ Commit(from, from + 1) /\ from' = from + 1 /\ pc' = pc /\ outcome' = outcome
        /\ block' = block /\ raises' = raises /\ cuts' = cuts
    BY <1>1, <1>3 DEF Twin, data
  <2>2. from + 1 \in from .. N /\ from + 1 \in 0 .. N /\ \A r \in from .. (from + 1) - 1 : r \notin raises
    BY <1>1, <1>3, Unfinished
  <2>3. /\ \E m \in 0 .. N : shown' = 0 .. m - 1 /\ from + 1 <= m /\ (~rerun => from + 1 = m)
        /\ shown' \subseteq Pos /\ shown' \cap raises = {}
        /\ counted' \in [Pos -> 0 .. 2]
        /\ ~rerun /\ block.reduces => counted' = [p \in Pos |-> IF p \in shown' THEN 1 ELSE 0]
        /\ ~block.reduces => counted' = [p \in Pos |-> 0]
        /\ rerun => \A p \in Pos : counted'[p] <= IF p < from + 1 THEN 2 ELSE 1
        /\ stale' \in BOOLEAN
    BY <1>1, <2>1, <2>2, Commits
  <2>4. TypeOK'
    BY <1>1, <2>1, <2>2, <2>3 DEF Inv, TypeOK
  <2>5. CutInv'
    BY <1>1, <2>1 DEF CutInv
  <2>6. ShownInv'
    BY <1>1, <2>1, <2>3 DEF Inv, ShownInv
  <2>7. CountInv'
    BY <1>1, <2>1, <2>3 DEF CountInv, CountsOnce
  <2> QED
    BY <2>4, <2>5, <2>6, <2>7 DEF Inv
<1> QED
  BY <1>2, <1>3

LEMMA InvNext == Inv /\ [Next]_vars => Inv'
<1> SUFFICES ASSUME Inv, [Next]_vars PROVE Inv'
  OBVIOUS
<1>1. CASE RunLevel
  BY <1>1, InvRunLevel
<1>2. CASE LevelConflicts
  <2>1. /\ pc # "end" /\ pc' = "end" /\ outcome' = "conflict"
        /\ UNCHANGED <<data, from, shown, counted, stale, rerun>>
    BY <1>2 DEF LevelConflicts, Ends
  <2> QED
    BY <2>1, InvStays
<1>3. CASE LevelRaises
  <2>1. /\ pc = "levels" /\ from < N /\ Commit(from, FirstRaise)
        /\ pc' = "end" /\ outcome' = "error" /\ UNCHANGED <<data, from, rerun>>
    BY <1>3 DEF LevelRaises, Ends
  <2>2. FirstRaise \in from .. N /\ \A r \in from .. FirstRaise - 1 : r \notin raises
    BY <2>1, FirstRaiseIs, LevelEnds, Unfinished DEF Inv
  <2> QED
    BY <2>1, <2>2, InvLeaves
<1>4. ASSUME NEW how \in {"timeout", "interrupt"}, LevelAbandoned(how) PROVE Inv'
  <2>1. PICK c \in 0 .. ChunkOf(End - 1) + 1 :
          LET b == from + c * ChunkStep IN b <= FirstRaise /\ Commit(from, b)
    BY <1>4 DEF LevelAbandoned
  <2> DEFINE b == from + c * ChunkStep
  <2>2. b = from + c * ChunkStep /\ b <= FirstRaise /\ Commit(from, b)
    BY <2>1
  <2>3. /\ pc = "levels" /\ from < N /\ pc' = "end" /\ outcome' = how
        /\ UNCHANGED <<data, from, rerun>>
    BY <1>4 DEF LevelAbandoned, Ends
  <2>4. outcome' \in {"error"} \cup AllFaults
    BY <1>4, <2>3 DEF AllFaults
  <2> HIDE DEF b
  <2>5. b \in from .. N /\ \A r \in from .. b - 1 : r \notin raises
    BY <2>2, <2>3, PrefixEnd
  <2> QED
    BY <2>2, <2>3, <2>4, <2>5, InvLeaves
<1>5. CASE LevelRefused
  <2>1. /\ pc = "levels" /\ UNCHANGED <<data, shown, counted, stale>>
        /\ \/ pc' = "end" /\ outcome' = "refused" /\ from' = from /\ rerun' = rerun
           \/ pc' = "twin" /\ from' = 0 /\ rerun' = (from > 0) /\ outcome' = outcome
    BY <1>5 DEF LevelRefused, Ends
  <2> QED
    BY <2>1, InvStays
<1>6. CASE Twin
  BY <1>6, InvTwin
<1>7. CASE Return
  <2>1. /\ pc # "end" /\ pc' = "end" /\ outcome' = "returned"
        /\ UNCHANGED <<data, from, shown, counted, stale, rerun>>
    BY <1>7 DEF Return, Ends
  <2> QED
    BY <2>1, InvStays
<1>8. CASE UNCHANGED vars
  BY <1>8 DEF vars, data, Inv, TypeOK, CutInv, ShownInv, CountInv, CountsOnce, Acyclic, Elem
<1> QED
  BY <1>1, <1>2, <1>3, <1>4, <1>5, <1>6, <1>7, <1>8 DEF Next, Step, Over

-----------------------------------------------------------------------------
(* Theorems *)

\* Every variable keeps its type: no iteration is counted more than twice.
THEOREM TypeCorrect == Spec => []TypeOK
<1>1. Inv => TypeOK
  BY DEF Inv
<1> QED
  BY <1>1, InvInit, InvNext, PTL DEF Spec

\* An accumulator holds every iteration the containers show, once: levels,
\* the prefix of one that failed and the twin follow one another.
THEOREM Counts == Spec => []CountsOnce
<1>1. Inv => CountsOnce
  BY DEF Inv, CountInv
<1> QED
  BY <1>1, InvInit, InvNext, PTL DEF Spec

\* No iteration of a level reads what another of its level writes.
LEMMA LevelReads ==
  ASSUME UserOrders, Inv, pc = "levels", from < N, NEW p \in from .. End - 1
  PROVE  ~Misread(p, shown)
<1>1. /\ End \in from + 1 .. N /\ from \in Nat /\ N \in Nat /\ p \in Pos /\ p \in Nat
      /\ \A e \in cuts : ~ (from < e /\ e < End)
  BY LevelEnds, Unfinished DEF Inv, Pos
<1>2. shown = 0 .. from - 1
  BY DEF Inv, ShownInv
<1>3. block \in Blocks /\ block \in BlockType /\ cuts \subseteq 0 .. N
  BY WavefrontAssumption DEF Inv, TypeOK
<1> SUFFICES ASSUME NEW q \in Reads(p), (q \in shown) # (q < p) PROVE FALSE
  BY DEF Misread
<1>4. q \in Pos
  BY <1>1, <1>3 DEF Reads, BlockType
<1>5. from <= q /\ q < p /\ q \in Nat
  BY <1>1, <1>2, <1>4 DEF Pos
<1>6. \E b \in cuts : q < b /\ b <= p
  <2>1. CASE Acyclic
    <3>1. q \in block.reads[p]
      BY <1>5, <2>1 DEF Reads
    <3>2. block.order[q] # block.order[p]
      BY <1>1, <1>3, <1>5, <2>1, <3>1 DEF UserOrders, Acyclic
    <3> QED
      BY <1>1, <1>4, <1>5, <2>1, <3>2 DEF Inv, CutInv
  <2>2. CASE ~Acyclic
    <3>1. \E c \in block.divs : Elem(q) = Elem(p) \div c
      BY <1>5, <2>2 DEF Reads
    <3> QED
      BY <1>1, <1>4, <1>5, <2>2, <3>1 DEF Inv, CutInv
  <2> QED
    BY <2>1, <2>2
<1>7. PICK b \in cuts : q < b /\ b <= p
  BY <1>6
<1>8. from < b /\ b < End
  BY <1>1, <1>3, <1>5, <1>7
<1> QED
  BY <1>1, <1>8

\* The twin runs one iteration at a time.
LEMMA TwinReads ==
  ASSUME Inv, pc = "twin", ~rerun, from < N
  PROVE  ~Misread(from, shown)
<1>1. shown = 0 .. from - 1 /\ from \in Pos /\ from \in Nat
  BY Unfinished DEF Inv, ShownInv, Pos
<1>2. block \in BlockType
  BY WavefrontAssumption DEF Inv, TypeOK
<1>3. Reads(from) \subseteq Pos
  BY <1>1, <1>2 DEF Reads, BlockType
<1> QED
  BY <1>1, <1>3 DEF Misread, Pos

LEMMA CommitReads ==
  ASSUME ~stale, NEW b, Commit(from, b), \A p \in from .. b - 1 : ~Misread(p, shown)
  PROVE  ~stale'
BY DEF Commit

\* Whatever the range and the divisors of a block, and whatever key the user
\* orders it by, an iteration reads what it would read in the loop, until a
\* twin runs over committed levels.
THEOREM ReadsInOrder == UserOrders => (Spec => []ReadsAsTheLoop)
<1> SUFFICES ASSUME UserOrders PROVE Spec => []ReadsAsTheLoop
  OBVIOUS
<1>1. Init => ReadsAsTheLoop
  BY DEF Init, ReadsAsTheLoop
<1>2. Inv /\ ReadsAsTheLoop /\ [Next]_vars => ReadsAsTheLoop'
  <2> SUFFICES ASSUME Inv, ReadsAsTheLoop, [Next]_vars, ~rerun' PROVE ~stale'
    BY DEF ReadsAsTheLoop
  <2>0. pc = "levels" => ~rerun /\ ~stale
    BY DEF Inv, ShownInv, ReadsAsTheLoop
  <2>1. CASE RunLevel
    <3>1. pc = "levels" /\ from < N /\ Commit(from, End)
      BY <2>1 DEF RunLevel
    <3> QED
      BY <2>0, <3>1, LevelReads, CommitReads
  <2>2. CASE LevelRaises
    <3>1. pc = "levels" /\ from < N /\ Commit(from, FirstRaise)
      BY <2>2 DEF LevelRaises
    <3>2. FirstRaise \in from .. End /\ End \in from + 1 .. N /\ from \in Nat /\ N \in Nat
      BY <3>1, FirstRaiseIs, LevelEnds, Unfinished DEF Inv
    <3>3. \A p \in from .. FirstRaise - 1 : ~Misread(p, shown)
      BY <3>1, <3>2, LevelReads
    <3> QED
      BY <2>0, <3>1, <3>3, CommitReads
  <2>3. ASSUME NEW how \in {"timeout", "interrupt"}, LevelAbandoned(how) PROVE ~stale'
    <3>1. pc = "levels" /\ from < N
      BY <2>3 DEF LevelAbandoned
    <3>2. PICK c \in 0 .. ChunkOf(End - 1) + 1 :
            LET b == from + c * ChunkStep IN b <= FirstRaise /\ Commit(from, b)
      BY <2>3 DEF LevelAbandoned
    <3> DEFINE b == from + c * ChunkStep
    <3>3. b = from + c * ChunkStep /\ b <= FirstRaise /\ Commit(from, b)
      BY <3>2
    <3> HIDE DEF b
    <3>4. b \in from .. N
      BY <3>1, <3>3, PrefixEnd
    <3>5. FirstRaise \in from .. End /\ End \in from + 1 .. N /\ from \in Nat /\ N \in Nat
      BY <3>1, FirstRaiseIs, LevelEnds, Unfinished DEF Inv
    <3>6. \A p \in from .. b - 1 : ~Misread(p, shown)
      BY <3>1, <3>3, <3>4, <3>5, LevelReads
    <3> QED
      BY <2>0, <3>1, <3>3, <3>6, CommitReads
  <2>4. CASE Twin
    <3>1. pc = "twin" /\ from < N /\ ~rerun /\ ~stale
      BY <2>4 DEF Twin, ReadsAsTheLoop
    <3>2. CASE stale' = stale
      BY <3>1, <3>2
    <3>3. CASE Commit(from, from + 1)
      <4>1. from .. (from + 1) - 1 = {from}
        BY <3>1, Unfinished
      <4> QED
        BY <3>1, <3>3, <4>1, TwinReads, CommitReads
    <3> QED
      BY <2>4, <3>2, <3>3 DEF Twin
  <2>5. CASE stale' = stale
    <3>1. ~stale
      BY <2>0 DEF ReadsAsTheLoop, Next, Step, RunLevel, LevelConflicts, LevelRaises, LevelAbandoned,
                  LevelRefused, Twin, Return, Over, vars
    <3> QED
      BY <2>5, <3>1
  <2> QED
    BY <2>1, <2>2, <2>3, <2>4, <2>5
       DEF Next, Step, LevelConflicts, LevelRefused, Return, Over, vars
<1> QED
  BY <1>1, <1>2, InvInit, InvNext, PTL DEF Spec

-----------------------------------------------------------------------------
(* The sequential loop *)

\* What is shown, as the loop has it.
Log == IF shown = 0 .. Cardinality(shown) - 1 THEN Iota(Cardinality(shown)) ELSE <<N>>

LEMMA LogIs ==
  ASSUME NEW S, NEW m \in Nat, S = 0 .. m - 1
  PROVE  /\ (IF S = 0 .. Cardinality(S) - 1 THEN Iota(Cardinality(S)) ELSE <<N>>) = Iota(m)
         /\ Len(Iota(m)) = m
<1>1. Cardinality(S) = m
  BY FS_Interval
<1>2. Len(Iota(m)) = m
  BY DEF Iota
<1> QED
  BY <1>1, <1>2

\* Iterations take effect, or did before.
LEMMA LoopAdvances ==
  ASSUME NEW m \in 0 .. N, NEW n \in 0 .. N, m <= n, shown = 0 .. m - 1, shown' = 0 .. n - 1,
         \A r \in m .. n - 1 : r \notin raises,
         outcome = "none", outcome' = outcome, raises' = raises
  PROVE  [Loop!Next]_(Loop!loopVars)
<1>1. m \in Nat /\ n \in Nat /\ N \in Nat
  BY IterationsAssumption
<1>2. Log = Iota(m) /\ Log' = Iota(n) /\ Len(Log) = m
  BY <1>1, LogIs DEF Log
<1>3. CASE m = n
  BY <1>2, <1>3 DEF Loop!loopVars, Log
<1>4. CASE m # n
  <2>1. n \in Len(Log) + 1 .. N /\ (\A r \in Len(Log) .. n - 1 : r \notin raises)
    BY <1>1, <1>2, <1>4
  <2>2. Loop!Reaches(n)
    BY <2>1 DEF Loop!Reaches, Log
  <2>3. Log' = Loop!Iota(n)
    BY <1>2 DEF Loop!Iota, Iota
  <2> QED
    BY <2>1, <2>2, <2>3 DEF Loop!Next, Loop!Advance, Log
<1> QED
  BY <1>3, <1>4

\* The call ends, with the error of the next iteration or another way.
LEMMA LoopEnds ==
  ASSUME NEW m \in 0 .. N, NEW n \in 0 .. N, m <= n, shown = 0 .. m - 1, shown' = 0 .. n - 1,
         \A r \in m .. n - 1 : r \notin raises,
         outcome = "none", raises' = raises,
         \/ outcome' = "error" /\ n \in raises /\ n < N
         \/ outcome' = "returned" /\ m = n /\ n = N
         \/ outcome' \in {"conflict", "refused"} \cup AllFaults
  PROVE  Loop!Next
<1>1. m \in Nat /\ n \in Nat /\ N \in Nat
  BY IterationsAssumption
<1>2. Log = Iota(m) /\ Log' = Iota(n) /\ Len(Log) = m
  BY <1>1, LogIs DEF Log
<1>3. Loop!Reaches(n) /\ Log' = Loop!Iota(n)
  BY <1>2 DEF Loop!Reaches, Loop!Iota, Iota, Log
<1>4. CASE outcome' = "error" /\ n \in raises /\ n < N
  <2>1. n \in Len(Log) .. N - 1
    BY <1>1, <1>2, <1>4
  <2> QED
    BY <1>3, <1>4, <2>1 DEF Loop!Next, Loop!Raise, Log
<1>5. CASE outcome' = "returned" /\ m = n /\ n = N
  BY <1>2, <1>5 DEF Loop!Next, Loop!Return, Log
<1>6. CASE outcome' \in {"conflict", "refused"} \cup AllFaults
  <2>1. n \in Len(Log) .. N /\ outcome' \in Loop!Outcomes \ {"returned", "error"}
    BY <1>1, <1>2, <1>6 DEF Loop!Outcomes, AllFaults
  <2> QED
    BY <1>3, <2>1 DEF Loop!Next, Loop!GiveUp, Log
<1> QED
  BY <1>4, <1>5, <1>6

LEMMA LoopInit == Init => Loop!Init
<1> SUFFICES ASSUME Init PROVE Loop!Init
  OBVIOUS
<1>1. raises \in SUBSET Pos /\ outcome = "none"
  BY WavefrontAssumption DEF Init
<1>2. Log = Iota(0)
  <2>1. shown = 0 .. 0 - 1
    BY DEF Init
  <2> QED
    BY <2>1, LogIs DEF Log
<1>3. Iota(0) = <<>>
  BY DEF Iota
<1> QED
  BY <1>1, <1>2, <1>3 DEF Loop!Init, Loop!Pos, Pos, Log

\* Every way a level commits.
LEMMA LevelCommits ==
  ASSUME Inv, pc = "levels", NEW b \in from .. N, Commit(from, b),
         \A r \in from .. b - 1 : r \notin raises, raises' = raises,
         \/ outcome' = outcome
         \/ outcome' = "error" /\ b \in raises /\ b < N
         \/ outcome' \in AllFaults
  PROVE  [Loop!Next]_(Loop!loopVars)
<1>1. from \in 0 .. N /\ b \in 0 .. N /\ from <= b /\ from \in Nat
  BY IterationsAssumption DEF Inv, TypeOK
<1>2. shown = 0 .. from - 1 /\ outcome = "none"
  BY DEF Inv, ShownInv
<1>3. shown' = 0 .. b - 1
  BY <1>1, <1>2 DEF Commit
<1>4. CASE outcome' = outcome
  BY <1>1, <1>2, <1>3, <1>4, LoopAdvances
<1>5. CASE outcome' # outcome
  <2>1. Loop!Next
    BY <1>1, <1>2, <1>3, <1>5, LoopEnds
  <2> QED
    BY <2>1
<1> QED
  BY <1>4, <1>5

\* A step that commits nothing ends the call, or stutters.
LEMMA LoopWithoutCommit ==
  ASSUME Inv, pc # "end", UNCHANGED <<raises, shown>>,
         \/ outcome' = outcome
         \/ outcome' = "returned" /\ from = N
         \/ outcome' = "error" /\ from \in raises /\ from < N
         \/ outcome' \in {"conflict", "refused"}
  PROVE  [Loop!Next]_(Loop!loopVars)
<1>1. PICK m \in 0 .. N : shown = 0 .. m - 1 /\ from <= m
  BY DEF Inv, ShownInv
<1>2. outcome = "none" /\ from \in 0 .. N /\ N \in Nat /\ shown \cap raises = {}
  BY IterationsAssumption DEF Inv, TypeOK, ShownInv
<1>3. CASE outcome' = outcome
  BY <1>3 DEF Loop!loopVars
<1>4. CASE outcome' # outcome
  <2>1. \A r \in m .. m - 1 : r \notin raises
    BY <1>1
  <2>2. from = N => m = N
    BY <1>1, <1>2
  <2>3. from \in raises => m = from
    BY <1>1, <1>2
  <2>4. Loop!Next
    BY <1>1, <1>2, <1>4, <2>1, <2>2, <2>3, LoopEnds
  <2> QED
    BY <2>4
<1> QED
  BY <1>3, <1>4

LEMMA LoopStep == Inv /\ [Next]_vars => [Loop!Next]_(Loop!loopVars)
<1> SUFFICES ASSUME Inv, [Next]_vars PROVE [Loop!Next]_(Loop!loopVars)
  OBVIOUS
<1>1. CASE RunLevel
  <2>1. pc = "levels" /\ from < N /\ FirstRaise = End /\ Commit(from, End) /\ raises' = raises /\ outcome' = outcome
    BY <1>1 DEF RunLevel, data
  <2>2. End \in from .. N /\ \A r \in from .. End - 1 : r \notin raises
    BY <2>1, LevelEnds, FirstRaiseIs, Unfinished DEF Inv
  <2> QED
    BY <2>1, <2>2, LevelCommits
<1>2. CASE LevelConflicts
  <2>1. pc # "end" /\ UNCHANGED <<raises, shown>> /\ outcome' = "conflict"
    BY <1>2 DEF LevelConflicts, Ends, data
  <2> QED
    BY <2>1, LoopWithoutCommit
<1>3. CASE LevelRaises
  <2>1. /\ pc = "levels" /\ from < N /\ FirstRaise < End /\ Commit(from, FirstRaise)
        /\ outcome' = "error" /\ raises' = raises
    BY <1>3 DEF LevelRaises, Ends, data
  <2>2. /\ FirstRaise \in from .. N /\ \A r \in from .. FirstRaise - 1 : r \notin raises
        /\ FirstRaise \in raises /\ FirstRaise < N
    BY <2>1, FirstRaiseIs, LevelEnds, Unfinished DEF Inv
  <2> QED
    BY <2>1, <2>2, LevelCommits
<1>4. ASSUME NEW how \in {"timeout", "interrupt"}, LevelAbandoned(how)
      PROVE  [Loop!Next]_(Loop!loopVars)
  <2>1. PICK c \in 0 .. ChunkOf(End - 1) + 1 :
          LET b == from + c * ChunkStep IN b <= FirstRaise /\ Commit(from, b)
    BY <1>4 DEF LevelAbandoned
  <2> DEFINE b == from + c * ChunkStep
  <2>2. b = from + c * ChunkStep /\ b <= FirstRaise /\ Commit(from, b)
    BY <2>1
  <2>3. pc = "levels" /\ from < N /\ outcome' \in AllFaults /\ raises' = raises
    BY <1>4 DEF LevelAbandoned, Ends, AllFaults, data
  <2> HIDE DEF b
  <2>4. b \in from .. N /\ \A r \in from .. b - 1 : r \notin raises
    BY <2>2, <2>3, PrefixEnd
  <2> QED
    BY <2>2, <2>3, <2>4, LevelCommits
<1>5. CASE LevelRefused
  <2>1. pc # "end" /\ UNCHANGED <<raises, shown>> /\ (outcome' = "refused" \/ outcome' = outcome)
    BY <1>5 DEF LevelRefused, Ends, data
  <2> QED
    BY <2>1, LoopWithoutCommit
<1>6. CASE Twin
  <2>1. pc = "twin" /\ from < N /\ raises' = raises
    BY <1>6 DEF Twin, data
  <2>2. CASE from \in raises
    <3>1. shown' = shown /\ outcome' = "error"
      BY <1>6, <2>2 DEF Twin, Ends
    <3> QED
      BY <2>1, <2>2, <3>1, LoopWithoutCommit
  <2>3. CASE from \notin raises
    <3>1. Commit(from, from + 1) /\ outcome' = outcome
      BY <1>6, <2>3 DEF Twin
    <3>2. PICK m \in 0 .. N : shown = 0 .. m - 1 /\ from <= m
      BY <2>1 DEF Inv, ShownInv
    <3>3. from \in 0 .. N - 1 /\ from \in Nat /\ N \in Nat /\ outcome = "none"
      BY <2>1, Unfinished DEF Inv, ShownInv
    <3>4. CASE from = m
      <4>1. shown' = 0 .. (from + 1) - 1 /\ from + 1 \in 0 .. N /\ \A r \in from .. (from + 1) - 1 : r \notin raises
        BY <2>3, <3>1, <3>2, <3>3, <3>4 DEF Commit
      <4> QED
        BY <2>1, <3>1, <3>2, <3>3, <3>4, <4>1, LoopAdvances
    <3>5. CASE from # m
      <4>1. shown' = shown
        BY <3>1, <3>2, <3>3, <3>5 DEF Commit
      <4> QED
        BY <2>1, <3>1, <4>1, LoopWithoutCommit
    <3> QED
      BY <3>4, <3>5
  <2> QED
    BY <2>2, <2>3
<1>7. CASE Return
  <2>1. pc # "end" /\ UNCHANGED <<raises, shown>> /\ outcome' = "returned" /\ from = N
    BY <1>7 DEF Return, Ends, data
  <2> QED
    BY <2>1, LoopWithoutCommit
<1>8. CASE UNCHANGED vars
  BY <1>8 DEF vars, data, Loop!loopVars
<1> QED
  BY <1>1, <1>2, <1>3, <1>4, <1>5, <1>6, <1>7, <1>8 DEF Next, Step, Over

\* Every step of the levels, and of the twin behind them, is one or more
\* steps of the sequential loop, or none: at any moment the containers show a
\* prefix of the loop, and each way out leaves the prefix it should.
THEOREM Implements == Spec => Loop!Spec
<1> QED
  BY InvInit, InvNext, LoopInit, LoopStep, PTL DEF Spec, Loop!Spec
=============================================================================
