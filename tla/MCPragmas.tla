----------------------------- MODULE MCPragmas -----------------------------
(* Files and clause texts for Pragmas, with the clauses of Clauses. *)
EXTENDS PragmaClauses

File(lines, text, hard) == [lines |-> lines, text |-> text, hard |-> hard]
Each(kinds, n) == [m \in 1 .. n |-> kinds]
Plainly(kinds, n) == {File(Each(kinds, n), <<>>, FALSE)}
Lines(kinds) == [m \in DOMAIN kinds |-> {kinds[m]}]

\* Blocks of every shape; and trusted helpers.
Shapes == Plainly({"start", "end", "loop", "for", "in", "inloop"}, 6)
          \cup Plainly({"start", "end", "loop", "odd", "stmt", "note"}, 5)
          \cup {File(Each({"start", "end", "trust", "def", "trailing", "loop"}, 5), <<>>, h) : h \in BOOLEAN}
Helpers == Plainly({"start", "end", "trust_unchecked", "def", "share"}, 5)
           \cup {File(<<{"trust", "trust_qualname", "note"}, {"def", "stmt"},
                       {"trust", "trust_qualname", "trust_unchecked"}, {"note", "def"}, {"def"},
                       {"start"}, {"call", "share"}, {"end"}, {"start"}, {"loop", "odd"}, {"end"}>>,
                     <<>>, h) : h \in BOOLEAN}

\* The forms the registry names, as far as they differ, and one token more,
\* less or other than these.
T(a, b, c) == <<a, b, c>>
Written ==
  {T("backend", "=", "thread"), T("strict", "=", "true"), T("timeout", "=", "0.5"), T("nested", "=", "sequential"),
   T("depend", "=", "none"), T("trust", "=", "all"), T("skip_runtime_check", "=", "False"),
   T("reduce", "=", "sum"), T("affinity", "=", "compact"), T("on_error", "=", "collect"),
   <<"backend", "=", "thread", "(", "pool_size", "=", "1", ",", "chunks", "=", "0", ")">>,
   <<"backend", "=", "process", "(", "chunks", "=", "0", ",", "pool", "=", "m.f", ")">>,
   <<"calibrate", "=", "threshold", "(", "min_gain", "=", "0.5", ")">>,
   <<"depend", "=", "acyclic", "(", "order", "=", "m.f", ")">>,
   <<"on_error", "=", "collect", "(", "max_errors", "=", "1", ")">>,
   <<"on_error", "=", "custom", "(", "handler", "=", "m.f", ")">>,
   <<"strict", "=", "true", "(", "allow", "=", "[", "nested", ",", "modular", "]", ")">>,
   <<"on_fallback", "=", "quiet", "(", "allow", "=", "[", "nested", "]", ")">>,
   <<"on_fallback", "=", "custom", "(", "handler", "=", "m.f", ")">>,
   <<"timeout", "=", "1", "(", "per_task", "=", "true", ",", "on_timeout", "=", "m.f", ")">>,
   <<"reduction_order", "=", "custom", "(", "combine", "=", "m.f", ")">>,
   <<"reduce", "=", "custom", "(", "fn", "=", "m.f", ",", "identity", "=", "0", ",", "tree", "=", "false", ")">>,
   <<"grainsize", "=", "1", "(", "min_workers", "=", "1", ")">>,
   <<"progress", "=", "callback", "(", "m.f", ",", "per_task", "=", "true", ")">>,
   <<"affinity", "=", "explicit", "(", "cores", "=", "[", "0", ",", "1", "]", ",", "numa_node", "=", "0", ")">>,
   <<"calibrate", "=", "false", ",", "grainsize", "=", "1">>}
TrustWritten == {<<"args", "=", "unchecked", "(", "only", "=", "[", "x", "]", ",", "skip_runtime_check", "=", "true", ")">>,
                 <<"args", "=", "unchecked", "(", "only", "=", "[", "y", "]", ")">>,
                 <<"qualname", "=", "m.f", "(", "module", "=", "x", ")">>}
Other == {",", "(", ")", "[", "]", "=", "-1", "true", "'s'", "@", "custom"}
Edits(ts) == {ts} \cup {RemoveAt(ts, n) : n \in DOMAIN ts}
             \cup {ReplaceAt(ts, n, t) : n \in DOMAIN ts, t \in Other}
             \cup {InsertAt(ts, n, t) : n \in DOMAIN ts, t \in Other}
             \cup {SubSeq(ts, 1, n) \o SubSeq(ts, m, Len(ts)) : n \in 3 .. Len(ts), m \in {Len(ts), Len(ts) + 1}}
Clausal == {File(Lines(<<"start_with", "loop", "end">>), ts, FALSE) : ts \in UNION {Edits(w) : w \in Written}}
Trusting == {File(Lines(<<"trust_with", "def", "start", "share", "end">>), ts, FALSE) : ts \in UNION {Edits(w) : w \in TrustWritten}}
            \cup {File(Lines(<<"start", "loop", "end_with">>), <<"strict", "=", "true">>, FALSE)}

MCInputs == Shapes \cup Helpers \cup Clausal \cup Trusting
\* A line with a form feed above a block.
Paged == Plainly({"page", "start", "for", "in", "end"}, 5)
=============================================================================
