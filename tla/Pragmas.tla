------------------------------ MODULE Pragmas ------------------------------
(***************************************************************************)
(* From a source to its rewritten text: scan_source of analysis/scanner.py *)
(* finds the pragmas line by line and pairs them, analyze_source of        *)
(* analysis/rewriter.py finds the loop of each block, blocks_to_drop of    *)
(* analysis/trust.py gives up the blocks whose trusted calls are not       *)
(* sound, and rewrite_module of import_hook.py replaces the loops by calls *)
(* into the dispatcher.                                                    *)
(*                                                                         *)
(* A line is one of the kinds below.  One loop is on one line or has a     *)
(* body of lines of its own; one helper may be defined, and called by a    *)
(* loop.  Every line that is no pragma and holds no loop, definition or    *)
(* form feed is a "stmt", or a "note" when it holds no code.               *)
(*                                                                         *)
(* What the clauses of a pragma mean is in Clauses, and put in the place   *)
(* of the constants Allowed, Named and Shares by PragmaClauses.            *)
(***************************************************************************)
EXTENDS Integers, FiniteSets, SequencesExt

CONSTANTS
  Inputs,         \* of [lines, text, hard]: the kinds each line of a file may have,
                  \* the clauses of its "start_with", "trust_with" and "end_with"
                  \* pragmas, and whether [errors].mode is hard
  Allowed(_, _),  \* the scanner takes this text on a pragma of this kind
  Named(_),       \* the clauses of a TRUST pragma have a qualname,
  Shares(_)       \* and let its helper be given what a loop shares

Starts == {"start", "start_with", "trailing"}
Trusts == {"trust", "trust_qualname", "trust_unchecked", "trust_with"}
PragmaKinds == Starts \cup Trusts \cup {"end", "end_with"}
\* On a line of its own: no code before it.
OwnLine == PragmaKinds \ {"trailing"}
Comments == OwnLine \cup {"note", "page"}
\* Of a loop's body.
Inner == {"in", "inloop"}
Loops == {"loop", "call", "share", "odd", "for", "inloop"}
Kinds == PragmaKinds \cup Comments \cup Inner \cup Loops \cup {"stmt", "def"}

ASSUME PragmasAssumption ==
  \A i \in Inputs : i.lines \in Seq(SUBSET Kinds) /\ i.text \in Seq(STRING) /\ i.hard \in BOOLEAN

VARIABLES input, src,  \* the lines scanned so far, by their kinds
          pc, pragmas, \* the lines of the pragmas found, in order
          next, open,  \* the next one to pair, and the START that is open, or 0
          blocks, trusted, reports,
          out, left    \* the lines of the module, and the loops still to replace in them
vars == <<input, src, pc, pragmas, next, open, blocks, trusted, reports, out, left>>

Pragma(kind) == IF kind \in Starts THEN "start" ELSE IF kind \in Trusts THEN "trust" ELSE "end"
Text(kind) == CASE kind \in {"start_with", "trust_with", "end_with"} -> input.text
                [] kind = "trust_qualname" -> <<"qualname", "=", "m.f">>
                [] kind = "trust_unchecked" -> <<"args", "=", "unchecked">>
                [] OTHER -> <<>>
\* The source as splitlines has it, by the lines they come from: it ends a
\* line at a form feed too.
SplitLines == FlattenSeq([n \in DOMAIN src |-> IF src[n] = "page" THEN <<n, n>> ELSE <<n>>])

Init == /\ input \in Inputs
        /\ src = <<>> /\ pc = "scan" /\ pragmas = <<>> /\ next = 1 /\ open = 0
        /\ blocks = <<>> /\ trusted = <<>> /\ reports = {} /\ out = <<>> /\ left = {}

-----------------------------------------------------------------------------
(* Scanning *)

Code(lines) == SelectSeq(lines, LAMBDA k : k \notin Comments)
LastCode == IF Code(src) = <<>> THEN "none" ELSE Last(Code(src))
\* Python's own rule for the lines.
Follows(k) == /\ k \in Inner => LastCode \in {"for"} \cup Inner
              /\ k \notin Inner \cup Comments => LastCode # "for"

\* The scan comes to a line of kind k.
Reaches(k) == /\ pc = "scan" /\ Len(src) < Len(input.lines)
              /\ k \in input.lines[Len(src) + 1] /\ Follows(k)

\* A line the scanner reads on from; a pragma beside code is reported.
ScanLine(k) ==
  /\ Reaches(k)
  /\ k \in OwnLine => Allowed(Pragma(k), Text(k))
  /\ ~(k = "trailing" /\ input.hard)
  /\ src' = Append(src, k)
  /\ pragmas' = IF k \in OwnLine THEN Append(pragmas, Len(src) + 1) ELSE pragmas
  /\ reports' = IF k = "trailing" THEN reports \cup {Len(src) + 1} ELSE reports
  /\ UNCHANGED <<input, pc, next, open, blocks, trusted, out, left>>

\* A clause that is refused ends the scan, whatever the mode.
ScanRefuses(k) ==
  /\ Reaches(k)
  /\ \/ k \in OwnLine /\ ~Allowed(Pragma(k), Text(k))
     \/ k = "trailing" /\ input.hard
  /\ src' = Append(src, k)
  /\ pc' = "raised"
  /\ UNCHANGED <<input, pragmas, next, open, blocks, trusted, reports, out, left>>

\* What Python cannot parse fails to import, pragmas or not.
ScanEnds == /\ pc = "scan" /\ src # <<>>
            /\ pc' = IF LastCode = "for" THEN "raised" ELSE "pair"
            /\ UNCHANGED <<input, src, pragmas, next, open, blocks, trusted, reports, out, left>>

-----------------------------------------------------------------------------
(* The structural pass *)

\* What is reported is raised in the hard mode.
Report(line) == IF input.hard THEN pc' = "raised" /\ UNCHANGED reports
                ELSE pc' = "pair" /\ reports' = reports \cup {line}
Pairing(kind) == /\ pc = "pair" /\ next <= Len(pragmas) /\ Pragma(src[pragmas[next]]) = kind
                 /\ next' = next + 1
                 /\ UNCHANGED <<input, src, pragmas, out, left>>

PairStart == /\ Pairing("start")
             /\ IF open # 0 THEN Report(pragmas[next]) /\ UNCHANGED open
                ELSE open' = pragmas[next] /\ UNCHANGED <<pc, reports>>
             /\ UNCHANGED <<blocks, trusted>>

PairEnd == /\ Pairing("end")
           /\ IF open = 0 THEN Report(pragmas[next]) /\ UNCHANGED <<open, blocks>>
              ELSE /\ blocks' = Append(blocks, <<open, pragmas[next]>>) /\ open' = 0
                   /\ UNCHANGED <<pc, reports>>
           /\ UNCHANGED trusted

\* The next line with code among the lines splitlines has after the n-th.
NextCodeIsDef(n) ==
  LET after == Code([m \in 1 .. Len(SplitLines) - n |-> src[SplitLines[n + m]]])
  IN  after # <<>> /\ Head(after) = "def"

PairTrust == /\ Pairing("trust")
             /\ IF NextCodeIsDef(pragmas[next])
                THEN trusted' = Append(trusted, pragmas[next]) /\ UNCHANGED <<pc, reports>>
                ELSE Report(pragmas[next]) /\ UNCHANGED trusted
             /\ UNCHANGED <<open, blocks>>

\* Mutant of PairingEnds: a START that stays open is forgotten.
PairingEndsQuietly == /\ pc = "pair" /\ next > Len(pragmas)
                      /\ pc' = "rewrite"
                      /\ UNCHANGED <<input, src, pragmas, next, open, blocks, trusted, reports, out, left>>
PairingEnds == /\ pc = "pair" /\ next > Len(pragmas)
               /\ pc' = IF open # 0 /\ input.hard THEN "raised" ELSE "rewrite"
               /\ reports' = IF open = 0 THEN reports ELSE reports \cup {open}
               /\ UNCHANGED <<input, src, pragmas, next, open, blocks, trusted, out, left>>

-----------------------------------------------------------------------------
(* The loops of the blocks *)

Statements == {n \in DOMAIN src : src[n] \notin Comments}
\* The last line of a statement.
EndLine(n) ==
  IF src[n] # "for" THEN n
  ELSE CHOOSE m \in Statements :
         /\ m >= n /\ \A k \in Statements : n < k /\ k <= m => src[k] \in Inner
         /\ \A k \in Statements : k > m => \E j \in Statements : n < j /\ j <= k /\ src[j] \notin Inner
HeadOf(n) == CHOOSE m \in Statements : src[m] = "for" /\ m < n /\ n <= EndLine(m)

Inside(b) == {n \in Statements : n > b[1] /\ EndLine(n) < b[2]}
\* Those that are within no other.
TopOf(b) == {n \in Inside(b) : src[n] \in Inner => HeadOf(n) \notin Inside(b)}
HasOneLoop(b) == \E n \in TopOf(b) : TopOf(b) = {n} /\ src[n] \in Loops
LoopOf(b) == CHOOSE n \in TopOf(b) : TRUE
\* One for loop, and one the analysis takes.
Analysed(b) == HasOneLoop(b) /\ src[LoopOf(b)] # "odd"

\* The pragmas that trust the helper, by the definition after each.
TrustedDefs == {n \in ToSet(trusted) : \E m \in Statements : m > n /\ src[m] = "def"}
Ambiguous == \E m, n \in TrustedDefs : m # n /\ ~Named(Text(src[n]))
Calls(b) == TrustedDefs # {} /\ src[LoopOf(b)] \in {"call", "share"}

\* The clauses of the first of them say what may be handed over.
FirstTrust(n) == n \in TrustedDefs /\ \A m \in TrustedDefs : n <= m
Oversteps(b) == /\ Calls(b) /\ src[LoopOf(b)] = "share"
                /\ \E n \in TrustedDefs : FirstTrust(n) /\ ~Shares(Text(src[n]))

Dropped(b) == (Calls(b) /\ Ambiguous) \/ Oversteps(b)
Replaced == {b \in ToSet(blocks) : Analysed(b) /\ ~Dropped(b)}

Rewrite ==
  /\ pc = "rewrite"
  /\ LET refused == {b \in ToSet(blocks) : ~Analysed(b) \/ (Calls(b) /\ Ambiguous)}
         dropped == {b \in ToSet(blocks) : Analysed(b) /\ Dropped(b)}
     IN  IF input.hard /\ refused # {}
         THEN pc' = "raised" /\ UNCHANGED <<reports, out, left>>
         ELSE /\ pc' = "splice"
              /\ reports' = reports \cup {b[1] : b \in refused \cup dropped}
              /\ out' = SplitLines
              /\ left' = {LoopOf(b) : b \in Replaced}
  /\ UNCHANGED <<input, src, pragmas, next, open, blocks, trusted>>

\* The lines that call the dispatcher in the place of the loop at line n.
CallSite(n) == <<-n, -n>>
\* Mutant of Later: each replacement moves the lines of the next.
LaterUp(n) == \A m \in left : n <= m
\* From the last loop up, so that the lines of the others stay where they are.
Later(n) == \A m \in left : m <= n
Splice(n) ==
  /\ pc = "splice" /\ n \in left /\ Later(n)
  /\ out' = SubSeq(out, 1, n - 1) \o CallSite(n) \o SubSeq(out, EndLine(n) + 1, Len(out))
  /\ left' = left \ {n}
  /\ UNCHANGED <<input, src, pc, pragmas, next, open, blocks, trusted, reports>>

Rewritten == /\ pc = "splice" /\ left = {}
             /\ pc' = "done"
             /\ UNCHANGED <<input, src, pragmas, next, open, blocks, trusted, reports, out, left>>

Over == pc \in {"done", "raised"} /\ UNCHANGED vars

Next == \/ \E k \in Kinds : ScanLine(k) \/ ScanRefuses(k)
        \/ ScanEnds \/ PairStart \/ PairEnd \/ PairTrust \/ PairingEnds
        \/ Rewrite \/ (\E n \in left : Splice(n)) \/ Rewritten \/ Over

Spec == Init /\ [][Next]_vars

-----------------------------------------------------------------------------
TypeOK == /\ input \in Inputs /\ src \in Seq(Kinds) /\ Len(src) <= Len(input.lines)
          /\ pc \in {"scan", "pair", "rewrite", "splice", "done", "raised"}
          /\ pragmas \in Seq(DOMAIN src) /\ trusted \in Seq(DOMAIN src)
          /\ blocks \in Seq((DOMAIN src) \X (DOMAIN src)) /\ reports \subseteq DOMAIN src
          /\ next \in 1 .. Len(pragmas) + 1
          /\ open \in (DOMAIN src) \cup {0}
          /\ out \in Seq(Int) /\ left \subseteq DOMAIN src

\* The blocks by what a reader of the file sees: a START, but for one within a
\* block, up to the next END.
IsA(n, kind) == src[n] \in OwnLine /\ Pragma(src[n]) = kind
EndBetween(a, b) == \E n \in a + 1 .. b - 1 : IsA(n, "end")
Marked == {b \in (DOMAIN src) \X (DOMAIN src) :
             /\ b[1] < b[2] /\ IsA(b[1], "start") /\ IsA(b[2], "end") /\ ~EndBetween(b[1], b[2])
             /\ \A n \in 1 .. b[1] - 1 : IsA(n, "start") => EndBetween(n, b[1])}
MarkedLoops == {LoopOf(b) : b \in {m \in Marked : Analysed(m) /\ ~Dropped(m)}}

\* The rewritten module is the source, line for line, with a call in the place
\* of the loop of every marked block, whatever else the file holds: blocks side
\* by side, within one another's loops, wrongly nested or given up.
OnlyMarkedLoopsGo ==
  pc = "done" =>
    out = FlattenSeq([n \in DOMAIN src |->
            IF n \in MarkedLoops THEN CallSite(n)
            ELSE IF \E m \in MarkedLoops : m < n /\ n <= EndLine(m) THEN <<>>
            ELSE IF src[n] = "page" THEN <<n, n>> ELSE <<n>>])

\* No pragma is ignored without a word: each is the border of a block, trusts
\* a definition or is reported.
EveryPragmaAnswered ==
  pc = "done" =>
    \A n \in DOMAIN src : src[n] \in PragmaKinds =>
      n \in (UNION {{b[1], b[2]} : b \in ToSet(blocks)}) \cup ToSet(trusted) \cup reports
=============================================================================
