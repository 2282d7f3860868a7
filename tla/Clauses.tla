------------------------------ MODULE Clauses ------------------------------
(***************************************************************************)
(* The clauses of a pragma: _ClauseParser of analysis/scanner.py, the      *)
(* registry of clauses/registry.py that says which values a clause may     *)
(* have, and what the rest of the program later takes out of a value.  A   *)
(* text is a sequence of tokens; the lexer's splitting of characters is    *)
(* left out, with the one thing it decides: what it cannot split ("@") it  *)
(* refuses.                                                                *)
(***************************************************************************)
EXTENDS Integers, Sequences, FiniteSets

Comma == ","
Syms == {"=", Comma, "(", ")", "[", "]"}
IntOf == [t \in {"-1", "0", "1"} |-> IF t = "-1" THEN -1 ELSE IF t = "0" THEN 0 ELSE 1]
Floats == {"0.5"}
Strings == {"'s'"}
Truths == {"true", "True"}
Falsehoods == {"false", "False"}
Unlexable == {"@"}
Dotted == {"m.f"}
Quantities == DOMAIN IntOf \cup Floats \cup Strings
Literals == Quantities \cup Truths \cup Falsehoods
\* true and false lex as names, and may be keywords.
IsIdent(t) == t \notin Syms \cup Quantities \cup Dotted \cup {"no-token"}

-----------------------------------------------------------------------------
(* The parser *)

\* What is left of a value, and where the next token is: 0 after an error.
Got(v, n) == [value |-> v, next |-> n]
Refusal == Got(<<>>, 0)
At(ts, n) == IF n \in DOMAIN ts THEN ts[n] ELSE "no-token"

Prim(t) == [kind |-> IF t \in Literals THEN "literal" ELSE "name", text |-> t]
List(items) == [kind |-> "list", items |-> items]
Call(base, args, kwargs) == [kind |-> "call", base |-> base, args |-> args, kwargs |-> kwargs]
Keys(pairs) == {pairs[n].key : n \in DOMAIN pairs}
ValueOf(pairs, k) == pairs[CHOOSE n \in DOMAIN pairs : pairs[n].key = k].value

\* Each form of the text is read from a position on: a value without the parts
\* of its call, the values of a list after its bracket, a value, the parts of a
\* call after its parenthesis, and clauses.  r is what is read at each.
Forms == {"primary", "items", "value", "args", "clauses"}
Places(ts) == Forms \X (1 .. Len(ts) + 1)

Primary(ts, r, n) ==
  LET items == r[<<"items", n + 1>>]
  IN  IF At(ts, n) \in {"no-token"} \cup (Syms \ {"["}) THEN Refusal
      ELSE IF At(ts, n) # "[" THEN Got(Prim(ts[n]), n + 1)
      ELSE IF At(ts, n + 1) = "]" THEN Got(List(<<>>), n + 2)
      ELSE IF items.next = 0 THEN Refusal
      ELSE Got(List(items.value), items.next)

Value(ts, r, n) ==
  LET base == r[<<"primary", n>>]
      parts == r[<<"args", base.next + 1>>]
  IN  IF base.next = 0 \/ At(ts, base.next) # "(" THEN base
      ELSE IF At(ts, base.next + 1) = ")" THEN Got(Call(base.value, <<>>, <<>>), base.next + 2)
      ELSE IF parts.next = 0 THEN Refusal
      ELSE Got(Call(base.value, parts.value.args, parts.value.kwargs), parts.next)

\* What ends the values of a list, the parts of a call and the clauses, and
\* what none of them is.
Closes(ts, form, n) == IF form = "clauses" THEN n > Len(ts)
                       ELSE At(ts, n) = IF form = "items" THEN "]" ELSE ")"
None == [items |-> <<>>, args |-> [args |-> <<>>, kwargs |-> <<>>], clauses |-> <<>>]
\* After an element, up to n: the end, or a comma and the others.
Others(ts, r, form, n) ==
  IF n = 0 THEN Refusal
  ELSE IF Closes(ts, form, n) THEN Got(None[form], n + 1)
  ELSE IF At(ts, n) = Comma THEN r[<<form, n + 1>>]
  ELSE Refusal

\* Mutant of Items: only the last item is kept.
ItemsLast(ts, r, n) ==
  LET item == r[<<"primary", n>>]
      others == Others(ts, r, "items", item.next)
  IN  IF others.next = 0 THEN Refusal
      ELSE Got(IF others.value = <<>> THEN <<item.value>> ELSE others.value, others.next)
Items(ts, r, n) ==
  LET item == r[<<"primary", n>>]
      others == Others(ts, r, "items", item.next)
  IN  IF others.next = 0 THEN Refusal
      ELSE Got(<<item.value>> \o others.value, others.next)

Args(ts, r, n) ==
  LET named == IsIdent(At(ts, n)) /\ At(ts, n + 1) = "="
      part == r[<<"value", IF named THEN n + 2 ELSE n>>]
      others == Others(ts, r, "args", part.next)
      \* Named parts are named once, and come after those without a name.
      taken == named /\ (others.value.args # <<>> \/ ts[n] \in Keys(others.value.kwargs))
  IN  IF others.next = 0 \/ taken THEN Refusal
      ELSE IF named
      THEN Got([args |-> <<>>,
                kwargs |-> <<[key |-> ts[n], value |-> part.value]>> \o others.value.kwargs], others.next)
      ELSE Got([args |-> <<part.value>> \o others.value.args, kwargs |-> others.value.kwargs], others.next)

Pairs(ts, r, n) ==
  LET cv == r[<<"value", n + 2>>]
      others == Others(ts, r, "clauses", cv.next)
  IN  IF ~IsIdent(At(ts, n)) \/ At(ts, n + 1) # "=" THEN Refusal
      ELSE IF others.next = 0 \/ ts[n] \in Keys(others.value) THEN Refusal
      ELSE Got(<<[key |-> ts[n], value |-> cv.value]>> \o others.value, others.next)

Reading(ts, r, p) == CASE p[1] = "primary" -> Primary(ts, r, p[2])
                       [] p[1] = "items" -> Items(ts, r, p[2])
                       [] p[1] = "value" -> Value(ts, r, p[2])
                       [] p[1] = "args" -> Args(ts, r, p[2])
                       [] p[1] = "clauses" -> Pairs(ts, r, p[2])
Readings(ts) == LET r[p \in Places(ts)] == Reading(ts, r, p) IN r

Parse(ts) == IF \E n \in DOMAIN ts : ts[n] \in Unlexable THEN Refusal
             ELSE IF ts = <<>> THEN Got(<<>>, 1) ELSE Readings(ts)[<<"clauses", 1>>]

-----------------------------------------------------------------------------
(* The registry *)

IsBool(v) == v.kind = "literal" /\ v.text \in Truths \cup Falsehoods
IsInt(v, least) == v.kind = "literal" /\ v.text \in DOMAIN IntOf /\ IntOf[v.text] >= least
IsPositive(v) == IsInt(v, 1) \/ (v.kind = "literal" /\ v.text \in Floats)
IsIn(v, options) == v.kind = "name" /\ v.text \in options
IsRef(v) == v.kind = "name"
IsListOf(v, Item(_)) == v.kind = "list" /\ \A n \in DOMAIN v.items : Item(v.items[n])

Reasons == {"monotonic", "unresolved", "modular", "nested", "unprofitable", "early_exit",
            "branch_merge", "conflict"}
AreReasons(v) == LET Reason(i) == IsIn(i, Reasons) IN IsListOf(v, Reason)
AreNames(v) == IsListOf(v, IsRef)
AreCores(v) == LET Core(i) == IsInt(i, 0) IN IsListOf(v, Core)
IsAny(v) == v.kind # "call"

\* Mutant of Required: what is required may be missing.
RequiredNothing(key, base) == {}
\* The parts a call must have.
Required(key, base) ==
  CASE key = "calibrate" -> {"min_gain"}
    [] key = "depend" -> {"order"}
    [] key = "on_error" /\ base = "custom" -> {"handler"}
    [] key = "on_fallback" -> IF base = "custom" THEN {"handler"} ELSE {"allow"}
    [] key = "strict" -> {"allow"}
    [] key = "reduction_order" -> {"combine"}
    [] key = "reduce" -> {"fn", "identity"}
    [] key = "affinity" -> {"cores"}
    [] OTHER -> {}

\* A call with nargs positional parts, whose keyword parts all pass.
Takes(key, v, Kwarg(_, _), nargs) ==
  /\ v.kind = "call" /\ Len(v.args) = nargs
  /\ \A k \in Keys(v.kwargs) : Kwarg(k, ValueOf(v.kwargs, k))
  /\ Required(key, v.base.text) \subseteq Keys(v.kwargs)
Based(v, options) == v.kind = "call" /\ IsIn(v.base, options)

\* The keyword parts each form may have.
PoolPart(k, v) == (k = "pool_size" /\ IsInt(v, 1)) \/ (k = "chunks" /\ IsInt(v, 0))
ProcessPart(k, v) == (k = "chunks" /\ IsInt(v, 0)) \/ (k = "pool" /\ IsRef(v))
GainPart(k, v) == k = "min_gain" /\ IsPositive(v)
RefPart(key, k, v) == k = key /\ IsRef(v)
OrderPart(k, v) == RefPart("order", k, v)
HandlerPart(k, v) == RefPart("handler", k, v)
CombinePart(k, v) == RefPart("combine", k, v)
ModulePart(k, v) == RefPart("module", k, v)
ErrorsPart(k, v) == k = "max_errors" /\ IsInt(v, 1)
AllowPart(k, v) == k = "allow" /\ AreReasons(v)
TimeoutPart(k, v) == (k = "per_task" /\ IsBool(v)) \/ RefPart("on_timeout", k, v)
FoldPart(k, v) == (k = "fn" /\ IsRef(v)) \/ (k = "identity" /\ IsAny(v)) \/ (k = "tree" /\ IsBool(v))
WorkersPart(k, v) == k = "min_workers" /\ IsInt(v, 1)
TaskPart(k, v) == k \in {"per_task", "include_result"} /\ IsBool(v)
CoresPart(k, v) == (k = "cores" /\ AreCores(v)) \/ (k = "numa_node" /\ IsInt(v, 0))
OnlyPart(k, v) == (k = "only" /\ AreNames(v)) \/ (k = "skip_runtime_check" /\ IsBool(v))

ReduceOps == {"sum", "prod", "min", "max", "count", "any", "all", "bit_and", "bit_or", "bit_xor", "concat"}
Modes == {"hard", "quiet", "report"}

(* The check of each clause *)

\* Backend and scheduling; what is asserted of the loop.
AcceptsScheduling(key, v) ==
  CASE key = "backend" -> \/ IsIn(v, {"thread", "process", "sequential"})
                          \/ Based(v, {"thread"}) /\ Takes(key, v, PoolPart, 0)
                          \/ Based(v, {"process"}) /\ Takes(key, v, ProcessPart, 0)
    [] key = "calibrate" -> \/ IsBool(v) \/ IsIn(v, {"static", "always"})
                            \/ Based(v, {"threshold"}) /\ Takes(key, v, GainPart, 0)
    [] key = "nested" -> IsIn(v, {"sequential", "shared_pool", "independent"})
    [] key = "depend" -> \/ IsIn(v, {"none"})
                         \/ Based(v, {"acyclic"}) /\ Takes(key, v, OrderPart, 0)
    [] key = "skip_runtime_check" -> IsBool(v)
    [] key = "trust" -> IsIn(v, {"callables", "pickle", "all"})

\* What happens to errors, fallbacks and time.
AcceptsFailing(key, v) ==
  CASE key = "on_error" -> \/ IsIn(v, {"collect"})
                           \/ Based(v, {"collect"}) /\ Takes(key, v, ErrorsPart, 0)
                           \/ Based(v, {"custom"}) /\ Takes(key, v, HandlerPart, 0)
    [] key = "strict" -> \/ IsBool(v)
                         \/ v.kind = "call" /\ v.base.kind = "literal" /\ v.base.text \in Truths
                            /\ Takes(key, v, AllowPart, 0)
    [] key = "on_fallback" -> \/ IsIn(v, Modes)
                              \/ Based(v, {"custom"}) /\ Takes(key, v, HandlerPart, 0)
                              \/ Based(v, Modes) /\ Takes(key, v, AllowPart, 0)
    [] key = "timeout" -> \/ IsPositive(v)
                          \/ v.kind = "call" /\ IsPositive(v.base) /\ Takes(key, v, TimeoutPart, 0)

\* Reductions, levels, progress, cores.
AcceptsShaping(key, v) ==
  CASE key = "reduction_order" -> \/ IsIn(v, {"sequential_equivalent", "stable"})
                                  \/ Based(v, {"custom"}) /\ Takes(key, v, CombinePart, 0)
    [] key = "reduce" -> \/ IsIn(v, ReduceOps)
                         \/ Based(v, {"custom"}) /\ Takes(key, v, FoldPart, 0)
    [] key = "grainsize" -> \/ IsInt(v, 1)
                            \/ v.kind = "call" /\ IsInt(v.base, 1) /\ Takes(key, v, WorkersPart, 0)
    [] key = "progress" -> \/ IsBool(v)
                           \/ Based(v, {"callback"}) /\ Takes(key, v, TaskPart, 1) /\ IsRef(v.args[1])
    [] key = "affinity" -> \/ IsIn(v, {"compact", "scatter"})
                           \/ Based(v, {"explicit"}) /\ Takes(key, v, CoresPart, 0)

\* Clauses of TRUST.
AcceptsTrust(key, v) ==
  CASE key = "args" -> \/ IsIn(v, {"checked", "unchecked"})
                       \/ Based(v, {"unchecked"}) /\ Takes(key, v, OnlyPart, 0)
    [] key = "qualname" -> IsRef(v) \/ (v.kind = "call" /\ v.base.kind = "name" /\ Takes(key, v, ModulePart, 0))

SchedulingKeys == {"backend", "calibrate", "nested", "depend", "skip_runtime_check", "trust"}
FailingKeys == {"on_error", "strict", "on_fallback", "timeout"}
ShapingKeys == {"reduction_order", "reduce", "grainsize", "progress", "affinity"}
TrustKeys == {"args", "qualname"}

\* validate_clause: a key of no clause, or of one of the other pragma, is refused.
Valid(pragma, key, v) ==
  \/ pragma = "start" /\ key \in SchedulingKeys /\ AcceptsScheduling(key, v)
  \/ pragma = "start" /\ key \in FailingKeys /\ AcceptsFailing(key, v)
  \/ pragma = "start" /\ key \in ShapingKeys /\ AcceptsShaping(key, v)
  \/ pragma = "trust" /\ key \in TrustKeys /\ AcceptsTrust(key, v)

\* scan_source raises what this refuses, and END takes no clauses.
Legal(pragma, ts) ==
  LET parsed == Parse(ts)
  IN  IF pragma = "end" THEN ts = <<>>
      ELSE /\ parsed.next # 0
           /\ \A n \in DOMAIN parsed.value : Valid(pragma, parsed.value[n].key, parsed.value[n].value)

-----------------------------------------------------------------------------
(* The readers *)

\* What preflight, dispatch, the selector, the wavefront and affinity take out
\* of a value that is a call, without asking whether it is there.
Reads(key, v) ==
  CASE v.kind # "call" -> {}
    [] key = "on_error" -> IF v.base.text = "custom" THEN {"handler"} ELSE {"max_errors"}
    [] key = "reduce" -> {"fn", "identity"}
    [] key = "calibrate" -> {"min_gain"}
    [] key = "depend" -> {"order"}
    [] key = "affinity" -> {"cores"}
    [] key = "on_fallback" /\ v.base.text = "custom" -> {"handler"}
    [] key = "progress" -> {"0"}
    [] OTHER -> {}

Has(v) == Keys(v.kwargs) \cup (IF v.args = <<>> THEN {} ELSE {"0"})
Readable(key, v) == v.kind = "call" => Reads(key, v) \subseteq Has(v)
=============================================================================
