--------------------------- MODULE PragmaClauses ---------------------------
(***************************************************************************)
(* Pragmas with the clauses of Clauses: Allowed is Legal, Named is         *)
(* HasQualname, Shares is LetsShare.                                       *)
(***************************************************************************)
EXTENDS Pragmas, Clauses

\* What trust.py asks of the clauses of a TRUST pragma; "x" is what a loop shares.
HasQualname(text) == "qualname" \in Keys(Parse(text).value)
LetsShare(text) ==
  LET clauses == Parse(text).value
      v == ValueOf(clauses, "args")
  IN  /\ "args" \in Keys(clauses)
      /\ IF v.kind = "call"
         THEN "only" \in Keys(v.kwargs) =>
                \E n \in DOMAIN ValueOf(v.kwargs, "only").items : ValueOf(v.kwargs, "only").items[n].text = "x"
         ELSE v.text = "unchecked"

ClausesAt(n) == Parse(Text(src[n])).value

-----------------------------------------------------------------------------
\* The values read somewhere in a text, and what is written for each, and for
\* its clauses; w is what is written for the values within a value.
Said(ts) == LET read == Readings(ts)
            IN  {read[p].value : p \in {q \in {"primary", "value"} \X (1 .. Len(ts)) : read[q].next # 0}}
Commas(texts) == IF texts = <<>> THEN <<>> ELSE Tail(FlattenSeq([n \in DOMAIN texts |-> <<Comma>> \o texts[n]]))
Texts(w, values) == [n \in DOMAIN values |-> w[values[n]]]
KeyedTexts(w, pairs) == [n \in DOMAIN pairs |-> <<pairs[n].key, "=">> \o w[pairs[n].value]]
Rendered(w, v) ==
  CASE v.kind = "list" -> <<"[">> \o Commas(Texts(w, v.items)) \o <<"]">>
    [] v.kind = "call" -> w[v.base] \o <<"(">>
                          \o Commas(Texts(w, v.args) \o KeyedTexts(w, v.kwargs))
                          \o <<")">>
    [] OTHER -> <<v.text>>
Rendering(ts) == LET w[v \in Said(ts)] == Rendered(w, v) IN w
RenderedAll(ts) == Commas(KeyedTexts(Rendering(ts), Parse(ts).value))

\* What a pragma the scanner takes says is what its values say: no token is
\* skipped, read twice or taken for another clause's.
ReadsWhatIsWritten ==
  pc = "done" => \A n \in DOMAIN src : src[n] \in OwnLine => RenderedAll(Text(src[n])) = Text(src[n])

\* A clause the registry lets through has every part the preflight, the
\* selector and the dispatcher take out of it without asking; the one that
\* does not, on_error=collect(), ends the loop with a KeyError.
Bare(v) == v.kind = "call" /\ v.args = <<>> /\ v.kwargs = <<>>
ReadersFindTheirParts ==
  pc = "done" =>
    \A b \in Replaced : \A n \in DOMAIN ClausesAt(b[1]) :
      LET c == ClausesAt(b[1])[n]
      IN  Readable(c.key, c.value) \/ (c.key = "on_error" /\ Bare(c.value))
=============================================================================
