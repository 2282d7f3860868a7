--------------------------- MODULE EarlyExitProofs ---------------------------
(***************************************************************************)
(* A loop that breaks, in speculative chunks, for every length, number of  *)
(* chunks, budget, pool and every set of breaks and errors, breaks of the  *)
(* loops inside the body among them: a call that returns leaves what the   *)
(* loop leaves up to the mark, the mark is never beyond the loop's first   *)
(* break, and it is that break unless an inner loop's break misled it.     *)
(***************************************************************************)
EXTENDS EarlyExit, ChunkingProofs, FiniteSetTheorems, WellFoundedInduction

\* Where a chunk's job can be: it has run what is before at[c], no break is
\* behind it while it runs, and when it has run it stopped on one or at its end.
JobInv ==
  \A c \in Chunks :
    /\ at[c] \in Lo(c) .. Hi(c)
    /\ chunk[c] \in {"none", "queued", "taken", "waiting", "skipped"} => at[c] = Lo(c)
    /\ chunk[c] = "running" => at[c] < Hi(c) /\ \A p \in breaks : ~(Lo(c) <= p /\ p < at[c])
    /\ chunk[c] \in {"ran", "done"} =>
         /\ at[c] > Lo(c)
         /\ at[c] = Hi(c) \/ at[c] - 1 \in breaks
         /\ \A p \in breaks : ~(Lo(c) <= p /\ p < at[c] - 1)

\* What is offered is what the jobs that are done noted last, and a job that was
\* skipped saw one of the offers at its start or before.
OfferInv ==
  /\ \A v \in offers : \E c \in Chunks : chunk[c] = "done" /\ \E p \in Noted(c) : v = Value(p)
  /\ \A c \in Chunks : chunk[c] = "done" => \A p \in Noted(c) : Value(p) \in offers
  /\ \A c \in Chunks : chunk[c] = "skipped" => Reached(Lo(c))

\* In place, what a chunk has run shows; in slabs nothing does before the end.
ShownInv ==
  /\ block.inplace => \A c \in Chunks, p \in Pos : Lo(c) <= p /\ p < at[c] => Writes(p) \subseteq shown
  /\ ~block.inplace /\ pc # "end" => shown = {}

\* A call returns, or raises the error of an iteration, when every job is over.
EndInv ==
  /\ pc = "end" <=> outcome # "none"
  /\ outcome \in {"returned", "error"} => \A c \in Chunks : chunk[c] \in Finished

Inv == TypeOK /\ JobInv /\ OfferInv /\ ShownInv /\ EndInv

-----------------------------------------------------------------------------
\* A nonempty set of naturals has a least element.
LEMMA LeastNatural ==
  ASSUME NEW S \in SUBSET Nat, S # {}
  PROVE  \E m \in S : \A n \in S : m <= n
<1>1. \E m \in S : \A n \in S : ~ (<<n, m>> \in OpToRel(<, Nat))
  BY NatLessThanWellFounded, WFMin
<1>2. ASSUME NEW m \in S, NEW n \in S, ~ (<<n, m>> \in OpToRel(<, Nat)) PROVE m <= n
  <2>1. OpToRel(<, Nat) = {ss \in Nat \X Nat : ss[1] < ss[2]}
    BY DEF OpToRel
  <2>2. m \in Nat /\ n \in Nat /\ <<n, m>> \in Nat \X Nat
    OBVIOUS
  <2>3. ~ (<<n, m>>[1] < <<n, m>>[2])
    BY <1>2, <2>1, <2>2
  <2> QED
    BY <2>2, <2>3
<1> QED
  BY <1>1, <1>2

\* What an iteration writes is at its own position.
LEMMA WritesAt ==
  ASSUME NEW p PROVE Writes(p) \subseteq {p} \X Keys
BY DEF Writes

-----------------------------------------------------------------------------
(* Types *)

LEMMA TypeInit == Init => TypeOK
<1> SUFFICES ASSUME Init PROVE TypeOK
  OBVIOUS
<1>1. block \in Blocks /\ breaks \subseteq Pos /\ inner \subseteq Pos /\ raises \subseteq Pos
  BY EarlyExitAssumption DEF Init
<1>2. at \in [Chunks -> 0 .. N]
  BY ChunkBounds, IterationsAssumption DEF Init
<1> QED
  BY <1>1, <1>2, IterationsAssumption DEF Init, TypeOK, Finished

LEMMA TypeStep == TypeOK /\ JobInv /\ [Next]_vars => TypeOK'
<1> SUFFICES ASSUME TypeOK, JobInv, [Next]_vars PROVE TypeOK'
  OBVIOUS
<1> USE DEF TypeOK, Finished, data, Ends, Keys, Value
<1>1. CASE Submit
  BY <1>1 DEF Submit
<1>2. CASE SubmitFails
  BY <1>2 DEF SubmitFails
<1>3. CASE Interrupt \/ JoinError
  BY <1>3 DEF Interrupt, JoinError
<1>4. CASE Join
  <2>1. UNION {Committed(c) : c \in {d \in Chunks : chunk[d] = "done"}} \subseteq Pos \X Keys
    <3>1. ASSUME NEW c \in Chunks, NEW w \in Committed(c) PROVE w \in Pos \X Keys
      <4>1. PICK p \in Lo(c) .. at[c] - 1 : w \in Writes(p)
        BY <3>1 DEF Committed
      <4>2. p \in Pos
        BY ChunkBounds, IterationsAssumption DEF JobInv, Pos
      <4> QED
        BY <4>1, <4>2, WritesAt
    <3> QED
      BY <3>1
  <2>2. StopsAt \in -1 .. N - 1
    <3>1. CASE \E p \in Pos : Reached(p)
      <4>1. {p \in Pos : Reached(p)} \in SUBSET Nat /\ {p \in Pos : Reached(p)} # {}
        BY <3>1 DEF Pos
      <4>2. PICK m \in Pos : Reached(m) /\ \A q \in Pos : Reached(q) => m <= q
        BY <4>1, LeastNatural
      <4>3. \A q \in 0 .. m - 1 : ~Reached(q)
        BY <4>2, IterationsAssumption DEF Pos
      <4>4. StopsAt \in Pos
        BY <3>1, <4>2, <4>3 DEF StopsAt
      <4> QED
        BY <4>4, IterationsAssumption DEF Pos
    <3>2. CASE ~ \E p \in Pos : Reached(p)
      BY <3>2, IterationsAssumption DEF StopsAt
    <3> QED
      BY <3>1, <3>2
  <2>3. shown' \subseteq Pos \X Keys
    BY <1>4, <2>1 DEF Join
  <2> QED
    BY <1>4, <2>2, <2>3 DEF Join
<1>5. ASSUME NEW c \in Chunks, Take(c) \/ Look(c) \/ Acquire(c) PROVE TypeOK'
  BY <1>5 DEF Take, Look, Acquire
<1>6. ASSUME NEW c \in Chunks, Iterate(c) PROVE TypeOK'
  <2>1. at[c] \in Pos /\ at[c] + 1 \in 0 .. N
    BY <1>6, ChunkBounds, IterationsAssumption DEF Iterate, JobInv, Pos
  <2>2. Writes(at[c]) \subseteq Pos \X Keys
    BY <2>1, WritesAt
  <2> QED
    BY <1>6, <2>1, <2>2 DEF Iterate
<1>7. ASSUME NEW c \in Chunks, Offer(c) PROVE TypeOK'
  BY <1>7 DEF Offer, Noted, Met
<1>8. CASE UNCHANGED vars \/ Over
  BY <1>8 DEF vars, Over
<1> QED
  BY <1>1, <1>2, <1>3, <1>4, <1>5, <1>6, <1>7, <1>8 DEF Next, Caller, Job

-----------------------------------------------------------------------------
(* The jobs and their offers *)

\* What only the caller does, or a job between its iterations, to the jobs.
LEMMA StillJobs ==
  ASSUME TypeOK, [Next]_vars
  PROVE  UNCHANGED data
BY DEF Next, Caller, Job, Submit, SubmitFails, Interrupt, JoinError, Join, Take, Look, Acquire,
     Iterate, Offer, Over, vars, data

LEMMA JobStep == TypeOK /\ JobInv /\ [Next]_vars => JobInv'
<1> SUFFICES ASSUME TypeOK, JobInv, [Next]_vars PROVE JobInv'
  OBVIOUS
<1>0. breaks' = breaks /\ breaks \subseteq Nat
  BY StillJobs, IterationsAssumption DEF data, TypeOK, Pos
<1> USE <1>0, ChunkBounds DEF JobInv, TypeOK
<1>1. CASE Submit \/ SubmitFails
  BY <1>1 DEF Submit, SubmitFails
<1>2. CASE Interrupt \/ JoinError \/ Join \/ Over \/ UNCHANGED vars
  BY <1>2 DEF Interrupt, JoinError, Join, Over, vars
<1>3. ASSUME NEW c \in Chunks, Take(c) \/ Look(c) \/ Acquire(c) PROVE JobInv'
  BY <1>3 DEF Take, Look, Acquire
<1>4. ASSUME NEW c \in Chunks, Iterate(c) PROVE JobInv'
  <2>1. CASE at[c] \in raises
    BY <1>4, <2>1 DEF Iterate
  <2>2. CASE at[c] \notin raises
    <3>1. at' = [at EXCEPT ![c] = at[c] + 1] /\ at[c] < Hi(c) /\ at[c] \in Nat
      BY <1>4, <2>2 DEF Iterate
    <3>2. chunk' = [chunk EXCEPT ![c] = IF at[c] \in breaks \/ at[c] + 1 = Hi(c) THEN "ran" ELSE "running"]
      BY <1>4, <2>2 DEF Iterate
    <3>3. \A p \in breaks : ~(Lo(c) <= p /\ p < at[c])
      BY <1>4 DEF Iterate
    <3>4. ASSUME NEW d \in Chunks, d # c PROVE at'[d] = at[d] /\ chunk'[d] = chunk[d]
      BY <3>1, <3>2, <3>4
    <3>5. at'[c] = at[c] + 1 /\ chunk'[c] = IF at[c] \in breaks \/ at[c] + 1 = Hi(c) THEN "ran" ELSE "running"
      BY <3>1, <3>2
    <3> QED
      BY <3>1, <3>3, <3>4, <3>5
  <2> QED
    BY <2>1, <2>2
<1>5. ASSUME NEW c \in Chunks, Offer(c) PROVE JobInv'
  BY <1>5 DEF Offer
<1> QED
  BY <1>1, <1>2, <1>3, <1>4, <1>5 DEF Next, Caller, Job

LEMMA OfferStep == TypeOK /\ JobInv /\ OfferInv /\ [Next]_vars => OfferInv'
<1> SUFFICES ASSUME TypeOK, JobInv, OfferInv, [Next]_vars PROVE OfferInv'
  OBVIOUS
<1>0. breaks' = breaks /\ inner' = inner /\ block' = block
  BY StillJobs DEF data
<1> USE <1>0 DEF OfferInv, Noted, Met, Value, Reached
<1>1. CASE Submit \/ SubmitFails
  BY <1>1 DEF Submit, SubmitFails, TypeOK
<1>2. CASE Interrupt \/ JoinError \/ Join \/ Over \/ UNCHANGED vars
  BY <1>2 DEF Interrupt, JoinError, Join, Over, vars
<1>3. ASSUME NEW c \in Chunks, Take(c) \/ Look(c) \/ Acquire(c) PROVE OfferInv'
  BY <1>3 DEF Take, Look, Acquire, TypeOK
<1>4. ASSUME NEW c \in Chunks, Iterate(c) PROVE OfferInv'
  <2>1. chunk[c] = "running" /\ chunk'[c] \in {"running", "ran", "failed"} /\ offers' = offers
    BY <1>4 DEF Iterate, TypeOK
  <2>2. \A d \in Chunks : d # c => chunk'[d] = chunk[d] /\ at'[d] = at[d]
    BY <1>4 DEF Iterate, TypeOK
  <2> QED
    BY <2>1, <2>2
<1>5. ASSUME NEW c \in Chunks, Offer(c) PROVE OfferInv'
  <2>1. /\ chunk[c] = "ran" /\ chunk'[c] = "done" /\ at' = at
        /\ offers' = offers \cup {Value(p) : p \in Noted(c)}
        /\ \A d \in Chunks : d # c => chunk'[d] = chunk[d]
    BY <1>5 DEF Offer, TypeOK
  <2>2. \A v \in offers' : \E d \in Chunks : chunk'[d] = "done" /\ \E p \in Noted(d)' : v = Value(p)'
    <3>1. ASSUME NEW v \in offers PROVE \E d \in Chunks : chunk'[d] = "done" /\ \E p \in Noted(d)' : v = Value(p)'
      BY <2>1
    <3>2. ASSUME NEW v \in {Value(p) : p \in Noted(c)} PROVE \E p \in Noted(c)' : v = Value(p)'
      BY <2>1
    <3> QED
      BY <2>1, <3>1, <3>2
  <2>3. \A d \in Chunks : chunk'[d] = "done" => \A p \in Noted(d)' : Value(p)' \in offers'
    BY <2>1
  <2>4. \A d \in Chunks : chunk'[d] = "skipped" => Reached(Lo(d))'
    BY <2>1
  <2> QED
    BY <2>2, <2>3, <2>4
<1> QED
  BY <1>1, <1>2, <1>3, <1>4, <1>5 DEF Next, Caller, Job

LEMMA ShownStep == TypeOK /\ JobInv /\ ShownInv /\ EndInv /\ [Next]_vars => ShownInv'
<1> SUFFICES ASSUME TypeOK, JobInv, ShownInv, EndInv, [Next]_vars PROVE ShownInv'
  OBVIOUS
<1>0. breaks' = breaks /\ block' = block
  BY StillJobs DEF data
<1> USE <1>0 DEF ShownInv, Writes, Keys
<1>1. CASE Submit \/ SubmitFails \/ Interrupt \/ JoinError \/ Over \/ UNCHANGED vars
  BY <1>1 DEF Submit, SubmitFails, Interrupt, JoinError, Over, vars, Ends
<1>2. CASE Join
  BY <1>2 DEF Join, Joined, Ends
<1>3. ASSUME NEW c \in Chunks, Take(c) \/ Look(c) \/ Acquire(c) \/ Offer(c) PROVE ShownInv'
  BY <1>3 DEF Take, Look, Acquire, Offer
<1>4. ASSUME NEW c \in Chunks, Iterate(c) PROVE ShownInv'
  <2>1. CASE at[c] \in raises
    BY <1>4, <2>1 DEF Iterate
  <2>2. CASE at[c] \notin raises
    <3>1. /\ at' = [at EXCEPT ![c] = at[c] + 1] /\ pc' = pc
          /\ shown' = IF block.inplace THEN shown \cup Writes(at[c]) ELSE shown
      BY <1>4, <2>2 DEF Iterate
    <3>2. at[c] \in Int
      BY ChunkBounds DEF JobInv
    <3>3. ASSUME NEW d \in Chunks, NEW p \in Pos, Lo(d) <= p, p < at'[d], block.inplace
          PROVE  Writes(p)' \subseteq shown'
      <4>1. CASE p < at[d]
        BY <3>1, <3>3, <4>1
      <4>2. CASE ~(p < at[d])
        <5>1. d = c /\ p = at[c]
          BY <3>1, <3>2, <3>3, <4>2, IterationsAssumption DEF TypeOK, Pos
        <5> QED
          BY <3>1, <3>3, <5>1
      <4> QED
        BY <4>1, <4>2
    <3> QED
      BY <3>1, <3>3
  <2> QED
    BY <2>1, <2>2
<1> QED
  BY <1>1, <1>2, <1>3, <1>4 DEF Next, Caller, Job

LEMMA EndStep == TypeOK /\ EndInv /\ [Next]_vars => EndInv'
<1> SUFFICES ASSUME TypeOK, EndInv, [Next]_vars PROVE EndInv'
  OBVIOUS
<1> USE DEF EndInv, Finished
<1>1. CASE Submit
  BY <1>1 DEF Submit
<1>2. CASE SubmitFails \/ Interrupt \/ JoinError \/ Join
  BY <1>2 DEF SubmitFails, Interrupt, JoinError, Join, Joined, Ends
<1>3. ASSUME NEW c \in Chunks, Job(c) PROVE EndInv'
  <2>1. UNCHANGED <<pc, outcome>> /\ chunk[c] \notin Finished
    BY <1>3 DEF Job, Take, Look, Acquire, Iterate, Offer
  <2>2. CASE outcome \in {"returned", "error"}
    BY <2>1, <2>2
  <2>3. CASE outcome \notin {"returned", "error"}
    BY <2>1, <2>3
  <2> QED
    BY <2>2, <2>3
<1>4. CASE Over \/ UNCHANGED vars
  BY <1>4 DEF Over, vars
<1> QED
  BY <1>1, <1>2, <1>3, <1>4 DEF Next, Caller

LEMMA InvInit == Init => Inv
<1> SUFFICES ASSUME Init PROVE Inv
  OBVIOUS
<1>1. JobInv
  BY ChunkBounds DEF Init, JobInv
<1>2. OfferInv /\ EndInv
  BY DEF Init, OfferInv, EndInv
<1>3. ShownInv
  BY ChunkBounds DEF Init, ShownInv, Pos
<1> QED
  BY <1>1, <1>2, <1>3, TypeInit DEF Inv

LEMMA Invariance == Spec => []Inv
<1>1. Inv /\ [Next]_vars => Inv'
  BY TypeStep, JobStep, OfferStep, ShownStep, EndStep DEF Inv
<1> QED
  BY <1>1, InvInit, PTL DEF Spec

-----------------------------------------------------------------------------
(* No chunk the loop reaches is skipped *)

\* A value offered is never below its position.
LEMMA ValueAbove ==
  ASSUME TypeOK, NEW p \in Nat PROVE Value(p) \in Int /\ p <= Value(p)
<1>1. block.first \in Nat /\ block.step \in Nat \ {0}
  BY EarlyExitAssumption DEF TypeOK, BlockType
<1>2. \A x, y \in Nat : y # 0 => x * y \in Nat /\ x <= x * y
  OBVIOUS
<1> QED
  BY <1>1, <1>2 DEF Value

\* What a done job noted last: the break of the marked loop it stopped on, or,
\* when it ran to its end and met none, the last break of an inner loop.
LEMMA NotedIs ==
  ASSUME Inv, NEW c \in Chunks, chunk[c] = "done", NEW q \in Noted(c)
  PROVE  /\ q \in breaks \cup inner /\ q \in Nat /\ q < N /\ Lo(c) <= q /\ q < Hi(c)
         /\ \/ q \in breaks
            \/ /\ q \in inner
               /\ \A p \in breaks : ~(Lo(c) <= p /\ p < Hi(c))
               /\ \A p \in inner : p < Hi(c) => p <= q
<1> USE ChunkBounds, IterationsAssumption
<1>1. breaks \subseteq Nat /\ inner \subseteq Nat
  BY DEF Inv, TypeOK, Pos
<1>2. /\ q \in breaks \cup inner /\ q \in Nat /\ Lo(c) <= q /\ q < at[c]
      /\ \A p \in breaks \cup inner : Lo(c) <= p /\ p < at[c] => p <= q
  BY <1>1 DEF Noted, Met
<1>3. /\ at[c] \in Nat /\ at[c] <= Hi(c) /\ at[c] > Lo(c)
      /\ at[c] = Hi(c) \/ at[c] - 1 \in breaks
      /\ \A p \in breaks : ~(Lo(c) <= p /\ p < at[c] - 1)
  BY DEF Inv, JobInv
<1>4. CASE q \in breaks
  BY <1>2, <1>3, <1>4
<1>5. CASE q \notin breaks
  <2>1. at[c] - 1 \notin breaks
    BY <1>2, <1>3, <1>5
  <2>2. at[c] = Hi(c)
    BY <1>3, <2>1
  <2>3. ASSUME NEW p \in breaks PROVE ~(Lo(c) <= p /\ p < Hi(c))
    BY <1>1, <1>3, <2>1, <2>2
  <2>4. ASSUME NEW p \in inner, p < Hi(c) PROVE p <= q
    BY <1>1, <1>2, <2>2, <2>4
  <2> QED
    BY <1>2, <1>3, <1>5, <2>3, <2>4
<1> QED
  BY <1>4, <1>5

\* The break of the marked loop that a done job stopped on is offered.
LEMMA BreakOffered ==
  ASSUME Inv, NEW c \in Chunks, chunk[c] = "done", NEW q \in breaks, Lo(c) <= q, q < at[c]
  PROVE  q = at[c] - 1 /\ Value(q) \in offers
<1>1. at[c] \in Nat /\ \A p \in breaks : ~(Lo(c) <= p /\ p < at[c] - 1)
  BY ChunkBounds DEF Inv, JobInv
<1>2. breaks \subseteq Nat /\ inner \subseteq Nat
  BY DEF Inv, TypeOK, Pos
<1>3. q = at[c] - 1
  BY <1>1, <1>2
<1>4. q \in Noted(c)
  BY <1>1, <1>2, <1>3 DEF Noted, Met
<1> QED
  BY <1>3, <1>4 DEF Inv, OfferInv

\* The offer a skipped chunk saw is of an iteration strictly before it: one of
\* its own is offered by itself alone.
LEMMA SkipsBeyond == Inv => SkipsOnlyBeyondBreak
<1> SUFFICES ASSUME Inv, NEW c \in Chunks, chunk[c] = "skipped"
             PROVE  /\ \E q \in breaks \cup inner : q < Lo(c)
                    /\ ~LoopRuns(Lo(c)) \/ Misled
  BY DEF SkipsOnlyBeyondBreak
<1>1. PICK v \in offers : v <= Lo(c)
  BY DEF Inv, OfferInv, Reached
<1>2. PICK d \in Chunks : chunk[d] = "done" /\ \E p \in Noted(d) : v = Value(p)
  BY DEF Inv, OfferInv
<1>3. PICK p \in Noted(d) : v = Value(p)
  BY <1>2
<1>4. /\ p \in breaks \cup inner /\ p \in Nat /\ p < N /\ Lo(d) <= p /\ p < Hi(d)
      /\ \/ p \in breaks
         \/ /\ p \in inner
            /\ \A q \in breaks : ~(Lo(d) <= q /\ q < Hi(d))
            /\ \A q \in inner : q < Hi(d) => q <= p
  BY <1>2, NotedIs
<1>5. p <= Lo(c)
  BY <1>1, <1>3, <1>4, ValueAbove, ChunkBounds DEF Inv
<1>6. p # Lo(c)
  BY <1>2, <1>4, OneChunk, ChunkBounds
<1>7. p < Lo(c) /\ Lo(c) \in Nat /\ Lo(c) < N
  BY <1>4, <1>5, <1>6, ChunkBounds, IterationsAssumption
<1>8. CASE p \in breaks
  BY <1>4, <1>7, <1>8 DEF LoopRuns
<1>9. CASE p \notin breaks
  <2>1. CASE LoopRuns(p)
    <3>1. p < N - 1
      BY <1>4, <1>7, IterationsAssumption
    <3>2. Misled
      BY <1>4, <1>9, <2>1, <3>1 DEF Misled
    <3> QED
      BY <1>4, <1>7, <3>2
  <2>2. CASE ~LoopRuns(p)
    <3>1. breaks \subseteq Nat
      BY DEF Inv, TypeOK, Pos
    <3>2. ~LoopRuns(Lo(c))
      BY <1>4, <1>7, <2>2, <3>1 DEF LoopRuns
    <3> QED
      BY <1>4, <1>7, <3>2
  <2> QED
    BY <2>1, <2>2
<1> QED
  BY <1>8, <1>9

\* SkipsOnlyBeyondBreak: however chunks race to lower the mark, one that was
\* skipped starts beyond an iteration that met a break, and beyond the first
\* break of the marked loop unless an inner loop's break misled the mark.
THEOREM SkipsNothing == Spec => []SkipsOnlyBeyondBreak
BY SkipsBeyond, Invariance, PTL

\* NoWriterAfterEnd: a call that returns or raises an iteration's error has no
\* job left to write into the caller's objects.
THEOREM NoWriter == Spec => []NoWriterAfterEnd
<1>1. Inv => NoWriterAfterEnd
  BY DEF Inv, EndInv, NoWriterAfterEnd, Active, Finished
<1> QED
  BY <1>1, Invariance, PTL

-----------------------------------------------------------------------------
(* Where the mark falls *)

\* What there is to join: every job is done, or was skipped.
AllOver == \A c \in Chunks : chunk[c] \in {"done", "skipped"}

\* Position m is the mark: the lowest offer, or the end when there is none.
Mark(m) == /\ m \in Pos
           /\ \A p \in Pos : Below(p) <=> m < p
           /\ IF offers = {} THEN m = N - 1 ELSE m \in offers
           /\ \A v \in offers : v \in Pos /\ m <= v

\* Over an aligned domain the offers are positions, and the lowest is the mark.
LEMMA MarkExists ==
  ASSUME Inv, Aligned PROVE \E m : Mark(m)
<1> USE IterationsAssumption DEF Pos
<1>0. \A p \in Int : Value(p) = p
  BY DEF Aligned, Value
<1>1. offers \subseteq Pos
  <2>1. offers \subseteq {Value(p) : p \in breaks \cup inner} /\ breaks \cup inner \subseteq Pos
    BY DEF Inv, TypeOK
  <2> QED
    BY <1>0, <2>1
<1>2. CASE offers = {}
  <2>1. Mark(N - 1)
    BY <1>2 DEF Mark, Below
  <2> QED
    BY <2>1
<1>3. CASE offers # {}
  <2>1. offers \in SUBSET Nat
    BY <1>1
  <2>2. PICK m \in offers : \A v \in offers : m <= v
    BY <1>3, <2>1, LeastNatural
  <2>3. Mark(m)
    BY <1>1, <1>3, <2>2 DEF Mark, Below
  <2> QED
    BY <2>3
<1> QED
  BY <1>2, <1>3

\* When all is over, the chunks have run whatever is up to the mark: a chunk that
\* starts there offered it itself.
LEMMA RanAll ==
  ASSUME Inv, AllOver, Aligned, NEW m, Mark(m), NEW c \in Chunks, NEW p \in Pos,
         Lo(c) <= p, p < Hi(c), p <= m
  PROVE  chunk[c] = "done" /\ p < at[c]
<1> USE ChunkBounds, IterationsAssumption DEF Pos
<1>0. \A q \in Int : Value(q) = q
  BY DEF Aligned, Value
<1>1. m \in Nat /\ m < N
  BY DEF Mark
<1>2. chunk[c] # "skipped"
  <2> SUFFICES ASSUME chunk[c] = "skipped" PROVE FALSE
    OBVIOUS
  <2>1. PICK v \in offers : v <= Lo(c)
    BY DEF Inv, OfferInv, Reached
  <2>2. v \in Nat /\ m <= v /\ v = p /\ v = Lo(c)
    BY <1>1, <2>1 DEF Mark
  <2>3. PICK d \in Chunks : chunk[d] = "done" /\ \E q \in Noted(d) : v = Value(q)
    BY DEF Inv, OfferInv
  <2>4. PICK q \in Noted(d) : v = Value(q)
    BY <2>3
  <2>5. q \in Nat /\ Lo(d) <= q /\ q < Hi(d)
    BY <2>3, NotedIs
  <2>6. q = p
    BY <1>0, <2>2, <2>4, <2>5
  <2>7. d = c
    BY <2>5, <2>6, OneChunk
  <2> QED
    BY <2>3, <2>7
<1>3. chunk[c] = "done"
  BY <1>2 DEF AllOver
<1>4. at[c] \in Nat /\ at[c] > Lo(c) /\ (at[c] = Hi(c) \/ at[c] - 1 \in breaks)
  BY <1>3 DEF Inv, JobInv
<1>5. CASE at[c] - 1 \in breaks
  <2>1. at[c] - 1 \in Nat /\ Lo(c) <= at[c] - 1 /\ at[c] - 1 < at[c]
    BY <1>4
  <2>2. Value(at[c] - 1) \in offers
    BY <1>3, <1>5, <2>1, BreakOffered
  <2>3. m <= at[c] - 1
    BY <1>0, <2>1, <2>2 DEF Mark
  <2> QED
    BY <1>1, <1>3, <1>4, <2>3
<1> QED
  BY <1>3, <1>4, <1>5

\* The mark is never beyond the first break of the marked loop, and it is that
\* break, or the end, unless an inner loop's break misled it.
LEMMA MarkIs ==
  ASSUME Inv, AllOver, Aligned, NEW m, Mark(m)
  PROVE  LoopRuns(m) /\ (m = N - 1 \/ m \in breaks \/ Misled)
<1> USE ChunkBounds, IterationsAssumption DEF Pos
<1>0. \A q \in Int : Value(q) = q
  BY DEF Aligned, Value
<1>1. m \in Nat /\ m < N /\ breaks \subseteq Pos
  BY DEF Mark, Inv, TypeOK
<1>2. LoopRuns(m)
  <2> SUFFICES ASSUME NEW q \in breaks, q < m PROVE FALSE
    BY <1>1 DEF LoopRuns
  <2>1. q \in Pos
    BY <1>1
  <2>2. PICK c \in Chunks : Lo(c) <= q /\ q < Hi(c)
    BY <2>1, SomeChunk
  <2>3. chunk[c] = "done" /\ q < at[c]
    BY <1>1, <2>1, <2>2, RanAll
  <2>4. Value(q) \in offers
    BY <2>2, <2>3, BreakOffered
  <2>5. m <= q
    BY <1>0, <2>1, <2>4 DEF Mark
  <2> QED
    BY <1>1, <2>1, <2>5
<1>3. CASE offers = {}
  BY <1>2, <1>3 DEF Mark
<1>4. CASE offers # {} /\ m \notin breaks /\ m # N - 1
  <2>1. m \in offers
    BY <1>4 DEF Mark
  <2>2. PICK d \in Chunks : chunk[d] = "done" /\ \E q \in Noted(d) : m = Value(q)
    BY <2>1 DEF Inv, OfferInv
  <2>3. PICK q \in Noted(d) : m = Value(q)
    BY <2>2
  <2>4. /\ q \in breaks \cup inner /\ q \in Nat /\ Lo(d) <= q /\ q < Hi(d)
        /\ \/ q \in breaks
           \/ /\ q \in inner
              /\ \A p \in breaks : ~(Lo(d) <= p /\ p < Hi(d))
              /\ \A p \in inner : p < Hi(d) => p <= q
    BY <2>2, NotedIs
  <2>5. q = m
    BY <1>0, <2>3, <2>4
  <2>6. m < N - 1
    BY <1>1, <1>4
  <2>7. Misled
    BY <1>2, <1>4, <2>4, <2>5, <2>6 DEF Misled
  <2> QED
    BY <1>2, <2>7
<1> QED
  BY <1>2, <1>3, <1>4

\* A misled mark is nowhere the loop stops: the chunk that Misled names offered
\* the inner break, or was skipped for an offer below it.
LEMMA MisledMark ==
  ASSUME Inv, AllOver, Aligned, NEW m, Mark(m), Misled
  PROVE  m # N - 1 /\ m \notin breaks
<1> USE ChunkBounds, IterationsAssumption DEF Pos
<1>0. \A q \in Int : Value(q) = q
  BY DEF Aligned, Value
<1>1. PICK c \in Chunks, q \in inner :
        /\ Lo(c) <= q /\ q < Hi(c) /\ q < N - 1 /\ LoopRuns(q)
        /\ \A p \in breaks : ~(Lo(c) <= p /\ p < Hi(c))
        /\ \A p \in inner : p < Hi(c) => p <= q
  BY DEF Misled
<1>2. m \in Nat /\ q \in Nat /\ breaks \subseteq Nat /\ inner \subseteq Nat
  BY DEF Mark, Inv, TypeOK
<1>3. m <= q
  <2>1. CASE m < Lo(c)
    BY <1>1, <1>2, <2>1
  <2>2. CASE Lo(c) <= m /\ q < m
    <3>1. chunk[c] = "done" /\ q < at[c]
      BY <1>1, <1>2, <2>2, RanAll
    <3>2. at[c] \in Nat /\ at[c] <= Hi(c)
      BY DEF Inv, JobInv
    <3>3. q \in Noted(c)
      BY <1>1, <1>2, <3>1, <3>2 DEF Noted, Met
    <3>4. Value(q) \in offers
      BY <3>1, <3>3 DEF Inv, OfferInv
    <3> QED
      BY <1>0, <1>2, <3>4 DEF Mark
  <2> QED
    BY <1>2, <2>1, <2>2
<1>4. m \in breaks => m = q
  BY <1>1, <1>2, <1>3 DEF LoopRuns
<1> QED
  BY <1>1, <1>2, <1>3, <1>4

\* The mark, read back as a position.
LEMMA StopsAtMark ==
  ASSUME Inv, NEW m, Mark(m) PROVE StopsAt = m
<1> USE IterationsAssumption DEF Pos
<1>1. m \in Nat /\ m < N
  BY DEF Mark
<1>2. CASE offers = {}
  BY <1>2 DEF Mark, StopsAt, Reached
<1>3. CASE offers # {}
  <2>1. \A p \in Pos : Reached(p) <=> m <= p
    BY <1>1, <1>3 DEF Mark, Reached
  <2>2. \A p \in Pos : Reached(p) /\ (\A q \in 0 .. p - 1 : ~Reached(q)) <=> p = m
    <3>1. ASSUME NEW p \in Pos, Reached(p), \A q \in 0 .. p - 1 : ~Reached(q) PROVE p = m
      BY <1>1, <2>1, <3>1
    <3>2. Reached(m) /\ \A q \in 0 .. m - 1 : ~Reached(q)
      BY <1>1, <2>1
    <3> QED
      BY <3>1, <3>2
  <2> QED
    BY <1>1, <2>1, <2>2 DEF StopsAt
<1> QED
  BY <1>2, <1>3

-----------------------------------------------------------------------------
(* What the caller commits *)

LEMMA KeptCount ==
  ASSUME NEW m, Mark(m), NEW c \in Chunks
  PROVE  /\ Cardinality(Kept(c)) \in Nat
         /\ \A p \in Lo(c) .. Hi(c) - 1 : p - Lo(c) + 1 <= Cardinality(Kept(c)) <=> p <= m
<1> USE ChunkBounds, IterationsAssumption
<1>0. m \in Nat /\ m < N
  BY DEF Mark, Pos
<1>1. Kept(c) = {p \in Lo(c) .. Hi(c) - 1 : p <= m}
  <2>1. \A p \in Lo(c) .. Hi(c) - 1 : p \in Pos /\ (Below(p) <=> m < p)
    BY DEF Mark, Pos
  <2> QED
    BY <1>0, <2>1 DEF Kept
<1>2. CASE m < Lo(c)
  <2>1. Kept(c) = {}
    BY <1>0, <1>1, <1>2
  <2> QED
    BY <1>0, <1>2, <2>1, FS_EmptySet
<1>3. CASE Lo(c) <= m
  <2>0. Lo(c) \in Nat /\ Hi(c) \in Nat /\ Lo(c) < Hi(c)
    OBVIOUS
  <2>1. PICK h \in Nat : h = IF m < Hi(c) THEN m ELSE Hi(c) - 1
    BY <1>0, <2>0
  <2>2. Lo(c) <= h
    BY <1>3, <2>0, <2>1
  <2>3. Kept(c) = Lo(c) .. h
    BY <1>0, <1>1, <1>3, <2>0, <2>1
  <2>4. Cardinality(Kept(c)) = h - Lo(c) + 1
    BY <2>0, <2>2, <2>3, FS_Interval
  <2> QED
    BY <1>0, <1>3, <2>0, <2>1, <2>2, <2>4
<1> QED
  BY <1>0, <1>2, <1>3

\* One key an iteration: the done chunks commit everything up to the mark.
LEMMA CommitsTheMark ==
  ASSUME Inv, AllOver, Aligned, block.keys = 1, NEW m, Mark(m)
  PROVE  UNION {Committed(c) : c \in {d \in Chunks : chunk[d] = "done"}} = Leaves(0 .. m)
<1> USE ChunkBounds, IterationsAssumption
<1> DEFINE All == UNION {Committed(c) : c \in {d \in Chunks : chunk[d] = "done"}}
<1>2. m \in Nat /\ m < N
  BY DEF Mark, Pos
<1>3. ASSUME NEW p \in Pos, NEW w \in Writes(p) PROVE w[1] = p /\ w[2] = 1
  BY <1>3, WritesAt DEF Keys
<1>4. ASSUME NEW w \in All PROVE w \in Leaves(0 .. m)
  <2>1. PICK c \in Chunks : chunk[c] = "done" /\ w \in Committed(c)
    BY <1>4
  <2>2. PICK p \in Lo(c) .. at[c] - 1 : w \in Writes(p)
    BY <2>1 DEF Committed
  <2>3. p \in Lo(c) .. Hi(c) - 1 /\ p \in Pos
    BY <2>2 DEF Inv, JobInv, Pos
  <2>4. (p - Lo(c)) * 1 + 1 <= Cardinality(Kept(c))
    <3>1. (w[1] - Lo(c)) * block.keys + w[2] <= Cardinality(Kept(c))
      BY <2>1 DEF Committed
    <3>2. w[1] = p /\ w[2] = 1
      BY <1>3, <2>2, <2>3
    <3> QED
      BY <3>1, <3>2
  <2>5. p \in 0 .. m
    BY <1>2, <2>3, <2>4, KeptCount DEF Pos
  <2> QED
    BY <2>2, <2>5 DEF Leaves
<1>5. ASSUME NEW w \in Leaves(0 .. m) PROVE w \in All
  <2>1. PICK p \in 0 .. m : w \in Writes(p)
    BY <1>5 DEF Leaves
  <2>2. p <= m /\ p \in Nat /\ p \in Pos
    BY <1>2, <2>1 DEF Pos
  <2>3. PICK c \in Chunks : Lo(c) <= p /\ p < Hi(c)
    BY <2>2, SomeChunk
  <2>4. chunk[c] = "done" /\ p < at[c]
    BY <2>2, <2>3, RanAll
  <2>5. p \in Lo(c) .. Hi(c) - 1 /\ p \in Lo(c) .. at[c] - 1
    BY <2>2, <2>3, <2>4 DEF Inv, JobInv
  <2>6. (p - Lo(c)) * 1 + 1 <= Cardinality(Kept(c))
    BY <1>2, <2>2, <2>5, KeptCount
  <2>7. w \in Committed(c)
    BY <1>3, <2>1, <2>2, <2>5, <2>6 DEF Committed
  <2> QED
    BY <2>4, <2>7
<1> QED
  BY <1>4, <1>5

\* Without a slab, whatever is up to the mark shows.
LEMMA InPlaceShows ==
  ASSUME Inv, AllOver, Aligned, block.inplace, NEW m, Mark(m)
  PROVE  Leaves(0 .. m) \subseteq shown
<1> SUFFICES ASSUME NEW p \in 0 .. m PROVE Writes(p) \subseteq shown
  BY DEF Leaves
<1>1. p \in Pos /\ p <= m
  BY IterationsAssumption DEF Mark, Pos
<1>2. PICK c \in Chunks : Lo(c) <= p /\ p < Hi(c)
  BY <1>1, SomeChunk
<1>3. p < at[c]
  BY <1>1, <1>2, RanAll
<1> QED
  BY <1>1, <1>2, <1>3 DEF Inv, ShownInv

\* A mark that was not misled is where the loop stops.
LEMMA LeavesTheLoop ==
  ASSUME Inv, AllOver, Aligned, NEW m, Mark(m), ~Misled
  PROVE  Leaves(0 .. m) = LoopShows
<1> USE IterationsAssumption DEF Pos
<1>1. m \in Nat /\ m < N /\ LoopRuns(m) /\ (m = N - 1 \/ m \in breaks)
  BY MarkIs DEF Mark
<1>2. breaks \subseteq Nat
  BY DEF Inv, TypeOK
<1>3. 0 .. m = {p \in Pos : LoopRuns(p)}
  <2>1. ASSUME NEW p \in Pos PROVE LoopRuns(p) <=> p <= m
    BY <1>1, <1>2 DEF LoopRuns
  <2> QED
    BY <1>1, <2>1
<1> QED
  BY <1>3 DEF LoopShows

-----------------------------------------------------------------------------
(* What a return leaves *)

\* The exception of the properties below is no wider than it must be.
MisledIsReal == outcome = "returned" /\ Aligned /\ Misled => target # N - 1 /\ target \notin breaks

Returns == StopsAtFirstBreak /\ KeepsTarget /\ InPlaceMissesNothing /\ MisledIsReal

LEMMA ReturnsStep == Inv /\ Returns /\ [Next]_vars => Returns'
<1> SUFFICES ASSUME Inv, Returns, [Next]_vars PROVE Returns'
  OBVIOUS
<1>0. breaks' = breaks /\ inner' = inner /\ block' = block
  BY StillJobs DEF data, Inv
<1> USE DEF Returns, StopsAtFirstBreak, KeepsTarget, InPlaceMissesNothing, MisledIsReal
<1>1. /\ LoopShows' = LoopShows /\ Aligned' = Aligned /\ Misled' = Misled
      /\ \A p : LoopRuns(p)' = LoopRuns(p)
      /\ \A P : Leaves(P)' = Leaves(P)
  BY <1>0 DEF LoopShows, LoopRuns, Leaves, Writes, Keys, Aligned, Misled
<1>2. CASE Join
  <2>1. AllOver /\ outcome' = "returned" /\ target' = StopsAt
    BY <1>2 DEF Join, Joined, Ends, AllOver, Finished
  <2> SUFFICES ASSUME Aligned PROVE Returns'
    BY <1>1
  <2>2. PICK m : Mark(m)
    BY MarkExists
  <2>3. target' = m
    BY <2>1, <2>2, StopsAtMark
  <2>4. LoopRuns(target)' = LoopRuns(m) /\ Leaves(0 .. target)' = Leaves(0 .. m)
    BY <1>0, <2>3 DEF LoopRuns, Leaves, Writes, Keys
  <2>5. Leaves(0 .. m) = LoopShows \/ Misled
    BY <2>1, <2>2, LeavesTheLoop
  <2>6. KeepsTarget'
    <3>1. LoopRuns(m) /\ (m = N - 1 \/ m \in breaks \/ Misled)
      BY <2>1, <2>2, MarkIs
    <3> QED
      BY <1>0, <1>1, <2>3, <2>4, <3>1
  <2>7. StopsAtFirstBreak'
    <3>1. ~block.inplace => shown = {}
      BY <1>2 DEF Join, Joined, Inv, ShownInv
    <3>2. block.keys = 1 /\ ~block.inplace => shown' = Leaves(0 .. m)
      BY <1>2, <2>1, <2>2, <3>1, CommitsTheMark DEF Join
    <3> QED
      BY <1>0, <1>1, <2>4, <2>5, <3>2
  <2>8. InPlaceMissesNothing'
    <3>1. shown \subseteq shown'
      BY <1>2 DEF Join
    <3>2. block.inplace => Leaves(0 .. m) \subseteq shown
      BY <2>1, <2>2, InPlaceShows
    <3> QED
      BY <1>0, <1>1, <2>4, <2>5, <3>1, <3>2
  <2>9. MisledIsReal'
    BY <1>0, <1>1, <2>1, <2>2, <2>3, MisledMark
  <2> QED
    BY <2>6, <2>7, <2>8, <2>9
<1>3. CASE Submit \/ SubmitFails \/ Interrupt \/ JoinError
  BY <1>3 DEF Submit, SubmitFails, Interrupt, JoinError, Ends, Joined, Inv, EndInv
<1>4. ASSUME NEW c \in Chunks, Job(c) PROVE Returns'
  <2>1. chunk[c] \notin Finished /\ outcome' = outcome
    BY <1>4 DEF Job, Take, Look, Acquire, Iterate, Offer, Finished
  <2>2. outcome' # "returned"
    BY <2>1 DEF Inv, EndInv
  <2> QED
    BY <2>2
<1>5. CASE UNCHANGED vars \/ Over
  <2>1. UNCHANGED <<shown, target, outcome>>
    BY <1>5 DEF vars, Over
  <2>2. LoopRuns(target)' = LoopRuns(target) /\ Leaves(0 .. target)' = Leaves(0 .. target)
    BY <1>0, <2>1 DEF LoopRuns, Leaves, Writes, Keys
  <2> QED
    BY <1>0, <1>1, <2>1, <2>2
<1> QED
  BY <1>2, <1>3, <1>4, <1>5 DEF Next, Caller

LEMMA ReturnsAlways == Spec => []Returns
<1>1. Init => Returns
  BY DEF Init, Returns, StopsAtFirstBreak, KeepsTarget, InPlaceMissesNothing, MisledIsReal
<1>2. (Inv /\ Inv') /\ Returns /\ [Next]_vars => Returns'
  BY ReturnsStep
<1> QED
  BY <1>1, <1>2, Invariance, PTL DEF Spec

\* StopsAtFirstBreak: over an aligned domain, a return commits what the loop
\* does up to the mark, however the chunks raced to it, and all it does unless an
\* inner loop's break misled the mark.
THEOREM Stops == Spec => []StopsAtFirstBreak
BY ReturnsAlways, PTL DEF Returns

\* KeepsTarget: the loop variable keeps an element the loop reaches, and the one
\* it stopped on unless an inner loop's break misled the mark.
THEOREM Keeps == Spec => []KeepsTarget
BY ReturnsAlways, PTL DEF Returns

\* InPlaceMissesNothing: without a slab, whatever the loop does up to the mark is
\* done, and all it does unless an inner loop's break misled the mark.
THEOREM MissesNothing == Spec => []InPlaceMissesNothing
BY ReturnsAlways, PTL DEF Returns

\* What the documentation says of inner loops' breaks (InnerBreakIsNotTheExit)
\* holds of a return exactly when the mark was not misled.
THEOREM InnerBreaks ==
  Spec => [](outcome = "returned" /\ Aligned => (InnerBreakIsNotTheExit <=> ~Misled))
<1>1. Returns => (outcome = "returned" /\ Aligned => (InnerBreakIsNotTheExit <=> ~Misled))
  BY DEF Returns, KeepsTarget, MisledIsReal, InnerBreakIsNotTheExit
<1> QED
  BY <1>1, ReturnsAlways, PTL
=============================================================================
