------------------------------ MODULE LoopBody ------------------------------
(***************************************************************************)
(* The bodies of marked loops, as far as the analysis and the generated    *)
(* code tell them apart, and what running one iteration does.  The same    *)
(* interpreter runs the loop as it was written, with no plan, and the      *)
(* chunk function codegen makes of it, with a plan for each container.     *)
(*                                                                         *)
(* A value is a sequence of integers: that of an expression is the tag of  *)
(* its statement and the values it loads, and + concatenates.  A slot of a *)
(* slab is <<v>> for the value v, and <<>> while nobody wrote it.          *)
(* Objects are not aliased: preflight refuses blocks whose containers are. *)
(***************************************************************************)
EXTENDS Integers, Sequences, SequencesExt, FiniteSets

CONSTANTS N,     (* iterations                                  *)
          Keys   (* the integers containers are indexed with    *)

ASSUME LoopBodyAssumption == N \in Nat \ {0} /\ Keys \subseteq Int

Pos == 0 .. N - 1

Containers == {"xs", "ys", "ds"}
Names == {"i", "v", "k", "t", "u"}
InOrder == [n \in 1 .. Cardinality(Keys) |-> CHOOSE key \in Keys : Cardinality({o \in Keys : o < key}) = n - 1]
EndKey == CHOOSE key \in Keys : \A other \in Keys : other <= key

(***************************************************************************)
(* A body is a record:                                                     *)
(*   domain       "range" and "enumerate" bind i, "enumerate" and          *)
(*                "sequence" bind v                                        *)
(*   first, step  the range, 0 and 1 for the other domains                 *)
(*   values       the value v has at each position                         *)
(*   stmts        its statements in order, with at most one if, whose arms *)
(*                follow it, and at most one inner loop                    *)
(* A statement is a record:                                                *)
(*   kind  assign  name = uses, or name = name op uses (form "left"), or   *)
(*                 name = uses op name (form "right")                      *)
(*         aug     name op= uses          walrus  uses and (name := uses)  *)
(*         move    name = ix              store   base[ix] = uses          *)
(*         augstore base[ix] += uses      nested  base[ix][0] = uses       *)
(*         augnested base[ix][0] += uses                                   *)
(*         mutate  base[ix].append(uses)  opaque  base.append(uses)        *)
(*         if      if uses:               for     for name in uses:        *)
(*         break, return                                                   *)
(*   uses  what its expression loads; arm: "top", "then", "else", "loop"   *)
(*   empty a for whose iterable is empty at the even positions             *)
(* An index ix is var (name), less (name - by), div (name // by),          *)
(* mod ((name + 1) % by), lit (by), and whole where there is none.         *)
(***************************************************************************)
Indexes == [form : {"var", "less", "div", "mod", "lit", "whole"}, name : Names, by : Int]
Whole == [form |-> "whole", name |-> "i", by |-> 0]
Writing == {"store", "augstore", "nested", "augnested", "mutate"}
Statements == [kind : {"assign", "aug", "walrus", "move", "opaque", "if", "for", "break", "return"} \cup Writing,
               name : Names, base : Containers, ix : Indexes,
               uses : Seq([name : Names \cup Containers, ix : Indexes]),
               form : {"plain", "left", "right"}, op : {"+", "max"},
               arm : {"top", "then", "else", "loop"}, tag : Int, empty : BOOLEAN]
Stmt == [kind |-> "assign", name |-> "t", base |-> "ys", ix |-> Whole, uses |-> <<>>,
         form |-> "plain", op |-> "+", arm |-> "top", tag |-> 0, empty |-> FALSE]

HasIndex(b) == b.domain # "sequence"
Elem(b, p) == b.first + b.step * p

\* A body Python can have: updates are assignments, the arms of the one if come
\* after it, and the statements of the one inner loop are together after it.
\* A range takes a step, and the containers have the elements it goes over and
\* those it reads at a quotient of its index.
WellFormed(b) ==
  LET Only(kind, n) == b.stmts[n].kind = kind /\ \A m \in DOMAIN b.stmts : b.stmts[m].kind = kind => m = n
      Opens(st, n) == st.arm = "top" /\ Only(st.kind, n)
      InArm(n) == \E m \in 1 .. n - 1 : b.stmts[m].kind = "if"
      InLoop(n) == \E h \in 1 .. n - 1 : b.stmts[h].kind = "for" /\ \A m \in h + 1 .. n : b.stmts[m].arm = "loop"
      Divides == {u.ix.by : u \in {v \in UNION {Range(st.uses) : st \in Range(b.stmts)} : v.ix.form = "div" /\ v.ix.by > 0}}
  IN  /\ b.domain \in {"range", "enumerate", "sequence"} /\ b.first \in Int /\ b.step \in Int \ {0}
      /\ HasIndex(b) => \A p \in Pos : Elem(b, p) \in Keys /\ \A c \in Divides : Elem(b, p) \div c \in Keys
      /\ b.stmts \in Seq(Statements)
      /\ \A n \in DOMAIN b.stmts :
           LET st == b.stmts[n]
           IN  /\ st.form # "plain" => st.kind = "assign"
               /\ IF st.kind \in Writing \cup {"move"} THEN st.ix.form # "whole" ELSE st.ix = Whole
               /\ st.kind \in {"if", "for"} => Opens(st, n)
               /\ st.arm \in {"then", "else"} => InArm(n)
               /\ st.arm = "loop" => InLoop(n)

LoopVar(b) == {st.name : st \in {s \in Range(b.stmts) : s.kind = "for"}}
DomainNames(b) == (IF HasIndex(b) THEN {"i"} ELSE {})
                  \cup (IF b.domain = "range" THEN {} ELSE {"v"})

\* Names a statement needs a value for.
Needs(st) == ({u.name : u \in Range(st.uses)} \cap Names)
             \cup {ix.name : ix \in {x \in {st.ix} \cup {u.ix : u \in Range(st.uses)} :
                                      x.form \notin {"whole", "lit"}}}

\* The names a function made of the loop binds: its locals.  One that is only
\* ever updated from itself is a parameter instead.
Certain(st) == st.kind = "move" \/ (st.kind = "assign" /\ st.form = "plain")
Binds(st, n) == st.name = n /\ (st.kind \in {"walrus", "for"} \/ (Certain(st) /\ n \notin Needs(st)))
Locals(b) == DomainNames(b) \cup {n \in Names : \E st \in Range(b.stmts) : Binds(st, n)}

-----------------------------------------------------------------------------
(* Values *)

Truth(v) == FoldLeft(LAMBDA a, e : a + e, 0, v) % 2 = 1
Combine(op, a, b) == IF op = "max" THEN IF Len(b) > Len(a) THEN b ELSE a ELSE a \o b

Empty == [c \in Containers |-> [key \in Keys |-> <<>>]]
StartHeap == [c \in Containers |->
               [key \in Keys |-> <<key + (CASE c = "xs" -> 10 [] c = "ys" -> 20 [] c = "ds" -> 30)>>]]
StartNames == [n \in Names |-> <<CASE n = "t" -> 41 [] n = "u" -> 42 [] OTHER -> 43>>]

\* What one run of iterations works on: the containers, its names and which of
\* them have a value, the cells read at the loop's index, the slabs, the
\* contributions to each reduction.
Frame(heap, bound) == [heap |-> heap, local |-> StartNames, bound |-> bound,
                       cell |-> [c \in Containers |-> <<>>],
                       slab |-> Empty, site |-> [n \in Names |-> <<>>],
                       truth |-> FALSE, ok |-> TRUE]

IndexValue(ix, f) ==
  LET n == Head(f.local[ix.name])
  IN  CASE ix.form = "var" -> n       [] ix.form = "less" -> n - ix.by
        [] ix.form = "div" -> n \div ix.by [] ix.form = "mod" -> (n + 1) % ix.by
        [] ix.form = "lit" -> ix.by

\* The loop's own index, unchanged: codegen loads the cell instead.
AtIndex(b, ix) == ix.form = "var" /\ HasIndex(b) /\ ix.name = "i"

Load(b, plan, f, u) ==
  IF u.name \in Names THEN f.local[u.name]
  ELSE IF u.ix.form = "whole"
       THEN FlattenSeq([n \in DOMAIN InOrder |-> f.heap[u.name][InOrder[n]]])
  ELSE IF plan[u.name] = "cell" /\ AtIndex(b, u.ix) THEN f.cell[u.name]
  ELSE f.heap[u.name][IndexValue(u.ix, f)]

Loaded(b, plan, f, st) == FlattenSeq([n \in DOMAIN st.uses |-> Load(b, plan, f, st.uses[n])])

Updates(st) == st.kind = "aug" \/ (st.kind = "assign" /\ st.form # "plain")
\* An update needs the old value too, unless it leaves a contribution.
NeedsOf(st, ops) == Needs(st) \cup (IF Updates(st) THEN {st.name} \ ops ELSE {})

-----------------------------------------------------------------------------
(* Statements *)

Bind(f, n, v) == [f EXCEPT !.local[n] = v, !.bound = @ \cup {n}]
\* Rebinds name to the accumulated value, or leaves a contribution.
Update(f, ops, st, v) ==
  IF st.name \in ops THEN [f EXCEPT !.site[st.name] = Append(@, v)]
  ELSE [f EXCEPT !.local[st.name] = IF st.form = "right" THEN Combine(st.op, v, @)
                                    ELSE Combine(st.op, @, v)]

\* A store at base[ix] in iteration p: into the container, or its slab, where
\* a list slab has one slot per iteration.  In a dict slab the key is the last
\* subscript of the target.
Put(b, plan, f, st, p, v) ==
  CASE plan[st.base] = "none" -> [f EXCEPT !.heap[st.base][IndexValue(st.ix, f)] = v]
    [] plan[st.base] = "list" -> [f EXCEPT !.slab[st.base][Elem(b, p)] = <<v>>]
    [] plan[st.base] = "cell" -> [f EXCEPT !.cell[st.base] = v, !.slab[st.base][Elem(b, p)] = <<v>>]
    [] plan[st.base] = "dict" ->
         [f EXCEPT !.slab[st.base][IF st.kind = "nested" THEN 0 ELSE IndexValue(st.ix, f)] = <<v>>]

\* What base[ix] op= ... starts from.
Old(plan, f, st) ==
  LET key == IndexValue(st.ix, f)
  IN  IF plan[st.base] = "cell" THEN f.cell[st.base]
      ELSE IF plan[st.base] = "dict" /\ f.slab[st.base][key] # <<>> THEN f.slab[st.base][key][1]
      ELSE f.heap[st.base][key]

\* The object in the cell is changed where it is.
Mutate(b, plan, f, st, p, v) ==
  LET key == IndexValue(st.ix, f)
      held == plan[st.base] = "cell" /\ AtIndex(b, st.ix)
  IN  IF held /\ f.slab[st.base][Elem(b, p)] # <<>>
      THEN [f EXCEPT !.slab[st.base][Elem(b, p)] = <<@[1] \o v>>, !.cell[st.base] = @ \o v]
      ELSE [f EXCEPT !.heap[st.base][key] = @ \o v,
                     !.cell[st.base] = IF held THEN @ \o v ELSE @]

\* base[ix][0] += v: with a slab it is compiled as base[ix] += v, which adds
\* a number to the row and raises.
AddNested(plan, f, st, v) ==
  IF plan[st.base] = "none" THEN [f EXCEPT !.heap[st.base][IndexValue(st.ix, f)] = @ \o v]
  ELSE [f EXCEPT !.ok = FALSE]

\* The statement is on an arm the iteration does not take.
Skips(f, st) == (st.arm = "then" /\ ~f.truth) \/ (st.arm = "else" /\ f.truth)

Run(b, plan, ops, p, f, st) ==
  LET loads == Loaded(b, plan, f, st)
      v == <<st.tag>> \o loads
  IN  IF ~f.ok \/ Skips(f, st) THEN f
      ELSE IF ~ NeedsOf(st, ops) \subseteq f.bound THEN [f EXCEPT !.ok = FALSE]
      ELSE
      CASE st.kind = "assign" /\ st.form = "plain" -> Bind(f, st.name, v)
        [] Updates(st) -> Update(f, ops, st, v)
        [] st.kind = "walrus" -> IF Truth(loads) THEN Bind(f, st.name, v) ELSE f
        [] st.kind = "move" -> Bind(f, st.name, <<IndexValue(st.ix, f)>>)
        [] st.kind \in {"store", "nested"} -> Put(b, plan, f, st, p, v)
        [] st.kind = "augstore" -> Put(b, plan, f, st, p, Old(plan, f, st) \o v)
        [] st.kind = "augnested" -> AddNested(plan, f, st, v)
        [] st.kind = "mutate" -> Mutate(b, plan, f, st, p, v)
        [] st.kind = "opaque" -> [f EXCEPT !.heap[st.base][EndKey] = @ \o v]
        [] st.kind = "if" -> [f EXCEPT !.truth = Truth(loads)]
        [] st.kind = "for" -> Bind(f, st.name, <<st.tag>>)

\* The statements iteration p runs: an inner loop binds its name, from 0.
Flow(b, p) ==
  LET Passes(st) == IF st.empty /\ p % 2 = 0 THEN 0 ELSE 2
      Inner == FlattenSeq([n \in DOMAIN b.stmts |-> IF b.stmts[n].arm = "loop" THEN <<b.stmts[n]>> ELSE <<>>])
      Laid(st) == IF st.kind = "for"
                  THEN FlattenSeq([m \in 1 .. Passes(st) |-> <<[st EXCEPT !.tag = m - 1]>> \o Inner])
                  ELSE IF st.arm = "loop" THEN <<>> ELSE <<st>>
  IN  FlattenSeq([n \in DOMAIN b.stmts |-> Laid(b.stmts[n])])

\* Iteration p: the loop's names are bound, the cells loaded, the body run.
Begin(b, plan, f, p) ==
  [f EXCEPT !.local["i"] = IF HasIndex(b) THEN <<Elem(b, p)>> ELSE @,
            !.local["v"] = IF b.domain = "range" THEN @ ELSE <<b.values[p]>>,
            !.bound = @ \cup DomainNames(b),
            !.cell = [c \in Containers |-> IF plan[c] = "cell" THEN f.heap[c][Elem(b, p)] ELSE <<>>],
            !.truth = FALSE]
Iteration(b, plan, ops, f, p) ==
  LET flow == Flow(b, p)
      ran[k \in 0 .. Len(flow)] == IF k = 0 THEN Begin(b, plan, f, p)
                                   ELSE Run(b, plan, ops, p, ran[k - 1], flow[k])
  IN  ran[Len(flow)]

NoPlan == [c \in Containers |-> "none"]

\* Every position in order, with nothing between the loop and its data.
Straight(b, f) ==
  LET ran[n \in 0 .. N] == IF n = 0 THEN f ELSE Iteration(b, NoPlan, {}, ran[n - 1], n - 1)
  IN  ran[N]

\* The loop as it was written, and the function made of it, whose locals
\* start without a value.
AsWritten(b) == Straight(b, Frame(StartHeap, Names))
AsFunction(b, heap) == Frame(heap, Names \ Locals(b))
=============================================================================
