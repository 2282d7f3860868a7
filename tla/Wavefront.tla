------------------------------ MODULE Wavefront ------------------------------
(***************************************************************************)
(* wavefront.execute_wavefront: a loop whose iteration i reads what        *)
(* iteration i // c wrote (a recognised DAG), or whose iterations the user *)
(* ordered by a key (depend=acyclic), run a level at a time.  A level is   *)
(* run in parallel and committed before the next one starts; a level that  *)
(* is too narrow runs on the calling thread.  When a level's chunks cannot *)
(* be run at all, _execute runs the sequential twin over the whole loop.   *)
(*                                                                         *)
(* How a level's chunks are dispatched and joined is ThreadDispatch and    *)
(* ProcessDispatch; here a level ends in one of the ways they show.        *)
(***************************************************************************)
EXTENDS Iterations, FiniteSets

CONSTANTS Blocks,    (* the blocks considered, records of BlockType     *)
          RaiseSets, (* which iterations raise                          *)
          Grain,     (* grainsize: narrower levels run on the caller    *)
          Width,     (* chunks a wide level is cut into: 4 * workers    *)
          Faults     (* what the environment may do                     *)

(***************************************************************************)
(* first, step  the range the loop runs over; 0 and 1 for other domains    *)
(* divs         the divisors the body reads at; {} for depend=acyclic      *)
(* self         the body also reads the cell it writes                     *)
(* reduces      the body also updates an accumulator                       *)
(* order        the order key of each position, for depend=acyclic         *)
(* reads        what each position reads, for depend=acyclic               *)
(* cell         the cell each position writes: its own under divs, audited *)
(*              under depend=acyclic                                       *)
(* hard         errors mode HARD: raise_or_fallback raises                 *)
(***************************************************************************)
BlockType == [first : Int, step : Int \ {0}, divs : SUBSET (Nat \ {0, 1}),
              self : BOOLEAN, reduces : BOOLEAN, order : [Pos -> Int],
              reads : [Pos -> SUBSET Pos], cell : [Pos -> Pos], hard : BOOLEAN]

AllFaults == {"refused", "timeout", "interrupt"}

ASSUME WavefrontAssumption == /\ Blocks \subseteq BlockType
                              /\ RaiseSets \subseteq SUBSET Pos
                              /\ Grain \in Nat /\ Width \in Nat \ {0}
                              /\ Faults \subseteq AllFaults

VARIABLES block, raises,  \* the block and its data: fixed by Init
          pc,       \* "levels", "twin" or "end"
          cuts,     \* where the levels end, for a loop that has them
          from,     \* where the next level, or the twin, starts
          shown,    \* the iterations whose writes the container shows
          counted,  \* how often the accumulator holds each iteration
          stale,    \* an iteration read what the loop would not have read
          rerun,    \* the twin ran over committed levels
          outcome   \* how the call ended, "none" before

data == <<block, raises, cuts>>
vars == <<data, pc, from, shown, counted, stale, rerun, outcome>>

Acyclic == block.divs = {}
Elem(p) == block.first + p * block.step

\* The positions iteration p reads: those of the elements it divides down to.
Reads(p) == (IF Acyclic THEN block.reads[p]
             ELSE {q \in Pos : \E c \in block.divs : Elem(q) = Elem(p) \div c})
            \cup IF block.self THEN {p} ELSE {}

\* In sequence, iteration p finds written exactly what is before it.
Misread(p, S) == \E q \in Reads(p) : (q \in S) # (q < p)

-----------------------------------------------------------------------------
(* Levels *)

\* min(divisors of the targets)
Divisor == CHOOSE c \in block.divs : \A d \in block.divs : c <= d

CeilDiv(a, b) == -((-a) \div b)
Clamp(p) == IF p < 0 THEN 0 ELSE IF p > N THEN N ELSE p

\* The elements are cut at 1, c, c * c, ... until the threshold is past them.
Top == IF Elem(N) > 0 THEN Elem(N) ELSE 0
Threshold[k \in Nat] == IF k = 0 THEN 1
                        ELSE LET t == Threshold[k - 1]
                             IN  IF t >= Top THEN t ELSE Divisor * t
Powers == {Threshold[k] : k \in 0 .. Top}
\* Mutant of Cuts: a level takes in its upper bound.
CutsAfter == {Clamp(CeilDiv(t + 1 - block.first, block.step)) : t \in Powers}
Cuts == {Clamp(CeilDiv(t - block.first, block.step)) : t \in Powers}

\* Positions with equal keys are one level.
KeyCuts == {p \in 1 .. N : p = N \/ block.order[p] # block.order[p - 1]}

LevelEnd(a) == CHOOSE b \in cuts : b > a /\ \A e \in cuts : e > a => b <= e

\* A divisor needs an ascending range, keys must ascend with the positions.
Ordered == IF Acyclic THEN \A p \in 1 .. N - 1 : block.order[p - 1] <= block.order[p]
           ELSE block.step > 0

-----------------------------------------------------------------------------
Init == /\ block \in Blocks
        /\ raises \in RaiseSets
        /\ pc = IF Ordered THEN "levels" ELSE "twin"
        /\ cuts = IF ~Ordered THEN {} ELSE IF Acyclic THEN KeyCuts ELSE Cuts
        /\ from = 0
        /\ shown = {}
        /\ counted = [p \in Pos |-> 0]
        /\ stale = FALSE
        /\ rerun = FALSE
        /\ outcome = "none"

\* Positions a .. b - 1 take effect together: they read what was shown before.
Commit(a, b) ==
  /\ shown' = shown \cup a .. b - 1
  /\ counted' = [p \in Pos |-> counted[p] + IF block.reduces /\ p \in a .. b - 1 THEN 1 ELSE 0]
  /\ stale' = (stale \/ \E p \in a .. b - 1 : Misread(p, shown))

Ends(how) == pc' = "end" /\ outcome' = how

\* The level starts at from; FirstRaise is its first iteration to raise, or
\* its end.
End == LevelEnd(from)
FirstRaise == CHOOSE p \in from .. End :
                /\ p = End \/ p \in raises
                /\ \A q \in from .. p - 1 : q \notin raises

\* A wide level is cut into chunks of Step iterations.
Wide == End - from >= Grain
ChunkStep == CeilDiv(End - from, IF Width < End - from THEN Width ELSE End - from)
ChunkOf(p) == (p - from) \div ChunkStep

\* Two chunks of the level wrote one cell of an audited container.
Conflict == /\ Acyclic /\ Wide
            /\ \E p, q \in from .. End - 1 :
                 ChunkOf(p) # ChunkOf(q) /\ block.cell[p] = block.cell[q]

\* Mutant of RunLevel: the next level starts with the last iteration of this.
RunLevelAgain == /\ pc = "levels" /\ from < N
                 /\ FirstRaise = End /\ ~Conflict
                 /\ Commit(from, End)
                 /\ from' = IF from + 1 < End THEN End - 1 ELSE End
                 /\ UNCHANGED <<data, pc, rerun, outcome>>
\* Everything in the level ran: it is audited and committed.
RunLevel == /\ pc = "levels" /\ from < N
            /\ FirstRaise = End /\ ~Conflict
            /\ Commit(from, End)
            /\ from' = End
            /\ UNCHANGED <<data, pc, rerun, outcome>>

\* The levels before stay committed, and the conflict is raised.
LevelConflicts == /\ pc = "levels" /\ from < N
                  /\ FirstRaise = End /\ Conflict
                  /\ Ends("conflict")
                  /\ UNCHANGED <<data, from, shown, counted, stale, rerun>>

\* What the level did before the error is committed, and the error raised.
LevelRaises == /\ pc = "levels" /\ from < N
               /\ FirstRaise < End
               /\ Commit(from, FirstRaise)
               /\ Ends("error")
               /\ UNCHANGED <<data, from, rerun>>

\* A timeout or an interrupt of a wide level commits its completed prefix.
LevelAbandoned(how) == /\ pc = "levels" /\ from < N /\ Wide /\ how \in Faults
                       /\ \E c \in 0 .. ChunkOf(End - 1) + 1 :
                            LET b == from + c * ChunkStep
                            IN  b <= FirstRaise /\ Commit(from, b)
                       /\ Ends(how)
                       /\ UNCHANGED <<data, from, rerun>>

\* A wide level's chunks cannot be submitted, or one does not survive pickling:
\* the twin runs the loop from its start, whatever is committed.
LevelRefused == /\ pc = "levels" /\ from < N /\ Wide /\ "refused" \in Faults
                /\ IF block.hard THEN Ends("refused") /\ UNCHANGED <<from, rerun>>
                   ELSE /\ pc' = "twin" /\ from' = 0
                        /\ rerun' = (from > 0)
                        /\ UNCHANGED outcome
                /\ UNCHANGED <<data, shown, counted, stale>>

\* One iteration of the twin.
Twin == /\ pc = "twin" /\ from < N
        /\ IF from \in raises
           THEN /\ Ends("error")
                /\ UNCHANGED <<from, shown, counted, stale>>
           ELSE /\ Commit(from, from + 1)
                /\ from' = from + 1
                /\ UNCHANGED <<pc, outcome>>
        /\ UNCHANGED <<data, rerun>>

Return == /\ pc # "end" /\ from = N
          /\ Ends("returned")
          /\ UNCHANGED <<data, from, shown, counted, stale, rerun>>

Over == pc = "end" /\ UNCHANGED vars

Step == RunLevel \/ LevelConflicts \/ LevelRaises \/ Twin \/ Return
Next == Step \/ LevelAbandoned("timeout") \/ LevelAbandoned("interrupt") \/ LevelRefused \/ Over

Spec == Init /\ [][Next]_vars

\* The calling thread runs, and the chunks of a level end.
FairSpec == Spec /\ WF_vars(Step)

-----------------------------------------------------------------------------
TypeOK == /\ block \in Blocks /\ raises \subseteq Pos
          /\ pc \in {"levels", "twin", "end"}
          /\ cuts \subseteq 0 .. N /\ (pc = "levels" => N \in cuts)
          /\ from \in 0 .. N
          /\ shown \subseteq Pos
          /\ counted \in [Pos -> 0 .. 2]
          /\ stale \in BOOLEAN /\ rerun \in BOOLEAN
          /\ outcome \in {"none", "returned", "error", "conflict", "refused"} \cup AllFaults

\* An iteration reads exactly what it would in the sequential loop, whatever
\* the divisors, the start and the stride: a level depends on earlier levels
\* only.  Not so when the twin runs over committed levels.
ReadsAsTheLoop == ~rerun => ~stale

\* An accumulator holds every iteration the containers show, once.
CountsOnce == ~rerun /\ block.reduces =>
                counted = [p \in Pos |-> IF p \in shown THEN 1 ELSE 0]

\* To its caller the block is the sequential loop: prefixes only, each way out.
Loop == INSTANCE SequentialLoop
          WITH log <- IF shown = 0 .. Cardinality(shown) - 1
                      THEN Iota(Cardinality(shown)) ELSE <<N>>
ImplementsLoop == Loop!FairSpec

\* "Lucen guarantees a marked file behaves identically to the same file with
\* the pragmas treated as comments" (LIMITATIONS.md), accumulators included.
NoneTwice == outcome = "returned" /\ block.reduces => counted = [p \in Pos |-> 1]
=============================================================================
