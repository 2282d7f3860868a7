------------------------------ MODULE Selector ------------------------------
(***************************************************************************)
(* analyzer.py, selector.py and the plan of codegen/generator.py: whether  *)
(* and how a block may run in parallel, and where its chunks then write.   *)
(* The clauses are depend=none (asserted), strict= and                     *)
(* backend=sequential; branch_sensitive_deps is the experiment sensitive.  *)
(***************************************************************************)
EXTENDS Rewriter

(* Shapes of dependency *)

\* What reading at ix means for a container written at i.
ReadShape(ix) ==
  CASE ix.name = "i" /\ ix.form = "var" -> "SELF_CONTAINED"
    [] ix.name = "i" /\ ix.form = "less" /\ ix.by > 0 -> "MONOTONIC_OFFSET"
    [] ix.name = "i" /\ ix.form = "div" /\ ix.by > 1 -> "RECOGNIZED_DAG"
    [] ix.name = "i" /\ ix.form = "mod" -> "MODULAR_SELF_REFERENCE"
    [] OTHER -> "UNRESOLVED"

\* The least tractable of the reads decides.
Worst(shapes) == LET order == <<"UNRESOLVED", "MODULAR_SELF_REFERENCE", "MONOTONIC_OFFSET",
                                "RECOGNIZED_DAG", "SELF_CONTAINED">>
                     n == CHOOSE m \in 1 .. 5 : order[m] \in shapes /\ \A l \in 1 .. m - 1 : order[l] \notin shapes
                 IN  order[n]

\* The header's index is taken as it is, whether or not the body rebinds it.
Shape(b, info) ==
  IF HasIndex(b) /\ \A ix \in info.writes : AtIndex(b, ix)
  THEN Worst({ReadShape(ix) : ix \in info.reads}) ELSE "UNRESOLVED"

Divisors(b, infos) ==
  {ix.by : ix \in UNION {{r \in infos[path].reads : r.form = "div"} :
     path \in {q \in DOMAIN infos : infos[q].class = "READ_AFTER_WRITE"
                                     /\ Shape(b, infos[q]) = "RECOGNIZED_DAG"}}}

-----------------------------------------------------------------------------
(* Eligibility *)

Asserted(b) == b.depend = "none"

\* What is to be done about one name.
Verdict(b, info) ==
  CASE info.class \in {"LOOP_LOCAL", "OUTER_READONLY"} -> "free"
    [] info.class = "SHARED_INDEXED_SAFE" -> "free"
    [] info.class = "SHARED_SCALAR" ->
         IF info.op = "none" \/ info.nested THEN "refused" ELSE "reduction"
    [] info.class = "SHARED_INDEXED_UNRESOLVED" -> IF Asserted(b) THEN "free" ELSE "refused"
    [] info.class = "READ_AFTER_WRITE" ->
         LET shape == Shape(b, info)
         IN  CASE shape = "SELF_CONTAINED" -> "free"
               [] shape = "RECOGNIZED_DAG" -> "levels"
               [] shape = "UNRESOLVED" /\ Asserted(b) -> "free"
               [] OTHER -> "refused"

\* The eligibility of a block; strict= raises where the block is given up by
\* the selector, though not where the analysis gave up before it.
Eligibility(b) ==
  LET infos == Targets(b)
      verdicts == {Verdict(b, infos[path]) : path \in DOMAIN infos}
  IN  IF ~Analysed(b) \/ b.backend = "sequential" THEN "SEQUENTIAL"
      ELSE IF HasKind(b, "return") \/ HasKind(b, "break") \/ "refused" \in verdicts
           THEN IF b.strict THEN "RAISES" ELSE "SEQUENTIAL"
      ELSE IF "levels" \in verdicts THEN "WAVEFRONT"
      ELSE IF "reduction" \in verdicts THEN "REDUCTION"
      ELSE "THREAD_CAPABLE"

Reductions(b) == LET infos == Targets(b)
                 IN  {path \in DOMAIN infos : infos[path].class = "SHARED_SCALAR"}

-----------------------------------------------------------------------------
(* The plan of the generated code *)

\* Mutant of SlabKind: the cell is forgotten.
SlabKindNoCell(b, info) ==
  IF info.inPlace \/ info.class \in {"LOOP_LOCAL", "OUTER_READONLY", "SHARED_SCALAR"} THEN "none"
  ELSE IF info.class = "SHARED_INDEXED_SAFE" /\ info.tier = "BY_PROOF" THEN "list"
  ELSE IF info.class = "READ_AFTER_WRITE" /\ Shape(b, info) \in {"SELF_CONTAINED", "RECOGNIZED_DAG"} THEN "list"
  ELSE "dict"
\* A list slab where the indexes are proven, with a cell when the body reads
\* what it writes; a dict slab, which is audited, where they are not.
SlabKind(b, info) ==
  IF info.inPlace \/ info.class \in {"LOOP_LOCAL", "OUTER_READONLY", "SHARED_SCALAR"} THEN "none"
  ELSE IF info.class = "SHARED_INDEXED_SAFE" /\ info.tier = "BY_PROOF" THEN "list"
  ELSE IF info.class = "READ_AFTER_WRITE" /\ Shape(b, info) \in {"SELF_CONTAINED", "RECOGNIZED_DAG"}
       THEN IF \E ix \in info.reads : AtIndex(b, ix) THEN "cell" ELSE "list"
  ELSE "dict"

Plan(b) == LET infos == Targets(b)
           IN  [c \in Containers |-> IF c \in DOMAIN infos THEN SlabKind(b, infos[c]) ELSE "none"]

\* codegen refuses a contribution that reads its accumulator.
Supported(b) == \A st \in Range(b.stmts) :
                  st.kind = "assign" /\ st.name \in Reductions(b) =>
                    st.form # "plain" /\ st.name \notin Needs(st)

\* Plain writes at proven indexes only: chunks may run the loop itself, in
\* the caller's containers.
Direct(b) == LET infos == Targets(b)
             IN  /\ Eligibility(b) = "THREAD_CAPABLE"
                 /\ \A path \in DOMAIN infos : infos[path].class # "READ_AFTER_WRITE" /\ ~infos[path].inPlace
                 /\ "list" \in Range(Plan(b)) /\ Range(Plan(b)) \subseteq {"none", "list"}

\* What codegen hands to the dispatcher.
Artifact(b) == LET infos == Targets(b)
                   D == Divisors(b, infos)
               IN  [made |-> TRUE, plan |-> Plan(b), reductions |-> Reductions(b),
                    ops |-> [n \in Reductions(b) |-> infos[n].op],
                    divisor |-> IF D = {} THEN 2 ELSE CHOOSE c \in D : \A d \in D : c <= d,
                    direct |-> Direct(b)]
=============================================================================
