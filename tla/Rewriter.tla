------------------------------ MODULE Rewriter ------------------------------
(***************************************************************************)
(* rewriter.py: the events a body's statements emit for each name, in the  *)
(* order of the source, and the class each name gets from its events.      *)
(***************************************************************************)
EXTENDS LoopBody

(* Events *)

Ctx(st) == IF st.arm = "top" THEN <<>> ELSE <<st.arm>>

Event(kind, path, st) == [kind |-> kind, path |-> path, ctx |-> Ctx(st), ix |-> Whole,
                          op |-> "none", self |-> FALSE, nested |-> FALSE,
                          inLoop |-> st.arm = "loop"]
At(e, ix) == [e EXCEPT !.ix = ix]

\* A name bound by an inner construct is hidden: loading it emits nothing.
Read(n, st, hidden) == IF n \in hidden THEN <<>> ELSE <<Event("read", n, st)>>
IndexLoads(ix, st, hidden) ==
  IF ix.form \in {"whole", "lit"} THEN <<>> ELSE Read(ix.name, st, hidden)

LoadEvents(u, st, hidden) ==
  Read(u.name, st, hidden)
  \o (IF u.ix.form = "whole" \/ u.name \in hidden THEN <<>>
      ELSE <<At(Event("subread", u.name, st), u.ix)>>)
  \o IndexLoads(u.ix, st, hidden)

Loads(st, hidden) ==
  FlattenSeq([n \in DOMAIN st.uses |-> LoadEvents(st.uses[n], st, hidden)])

\* name = name op e and name = e op name are updates; any other mention of the
\* name on the right makes the assignment refer to itself without an operator.
SelfRef(st) == st.form # "plain" \/ st.name \in Needs(st)
SelfOp(st) == IF st.form = "plain" THEN "none" ELSE st.op

Subscripted(st, hidden) == Read(st.base, st, {}) \o IndexLoads(st.ix, st, hidden)

StmtEvents(st, outer) ==
  LET hidden == IF st.arm = "loop" THEN outer ELSE {}
      own == IF SelfRef(st) THEN hidden \cup {st.name} ELSE hidden
      writes == [At(Event("subwrite", st.base, st), st.ix) EXCEPT !.nested = st.kind = "nested"]
      reads == At(Event("subread", st.base, st), st.ix)
  IN  CASE st.kind \in {"assign", "move"} ->
             Loads(st, own) \o (IF st.kind = "move" THEN IndexLoads(st.ix, st, own) ELSE <<>>)
               \o <<[Event("write", st.name, st) EXCEPT !.op = SelfOp(st), !.self = SelfRef(st)]>>
        [] st.kind = "walrus" -> Loads(st, hidden) \o <<Event("write", st.name, st)>>
        [] st.kind = "aug" -> Loads(st, hidden) \o <<[Event("aug", st.name, st) EXCEPT !.op = st.op]>>
        [] st.kind \in {"store", "nested"} ->
             Loads(st, hidden) \o Subscripted(st, hidden) \o <<writes>>
        [] st.kind \in {"augstore", "augnested"} ->
             Loads(st, hidden) \o Subscripted(st, hidden) \o <<reads, writes>>
        [] st.kind = "mutate" ->
             Subscripted(st, hidden) \o <<reads, writes>> \o Loads(st, hidden)
        [] st.kind = "opaque" ->
             Read(st.base, st, {}) \o <<Event("opaque", st.base, st)>> \o Loads(st, hidden)
        [] st.kind \in {"if", "for"} -> Loads(st, hidden)
        [] st.kind \in {"break", "return"} -> <<>>

\* The header loads the iterable; here a range's bounds or a container apart.
Events(b) == FlattenSeq([n \in DOMAIN b.stmts |-> StmtEvents(b.stmts[n], LoopVar(b))])

HasKind(b, kind) == \E st \in Range(b.stmts) : st.kind = kind
\* Names the conditions load.
Conditions(b) == {u.name : u \in UNION {Range(st.uses) : st \in {s \in Range(b.stmts) : s.kind = "if"}}}
                 \cup UNION {Needs(st) : st \in {s \in Range(b.stmts) : s.kind = "if"}}

-----------------------------------------------------------------------------
(* Classes *)

\* Names of the domain the body rebinds lose what the header says of them.
Rebound(evs) == {e.path : e \in {d \in Range(evs) : d.kind \in {"write", "aug"}}}
\* Mutant of Proven: a rebound index still counts.
ProvenAnyway(b, evs) == IF HasIndex(b) THEN {"i"} ELSE {}
Proven(b, evs) == (IF HasIndex(b) THEN {"i"} ELSE {}) \ Rebound(evs)
ByValue(b, evs) == (IF b.domain = "range" THEN {} ELSE {"v"}) \ Rebound(evs)

IndexClass(b, evs, ix) == IF ix.form = "var" /\ ix.name \in Proven(b, evs) THEN "proven"
                          ELSE IF ix.form = "var" /\ ix.name \in ByValue(b, evs) THEN "value"
                          ELSE "other"

Under(a, ctx) == Len(a) <= Len(ctx) /\ SubSeq(ctx, 1, Len(a)) = a
OfKind(mine, kinds) == {e \in mine : e.kind \in kinds}

\* Mutant of IsLocal: a first write on one arm counts for every arm.
IsLocalAnyArm(first, mine) == first.kind = "write" /\ ~first.self
\* Bound before anything else, wherever the name is used.
IsLocal(first, mine) == /\ first.kind = "write" /\ ~first.self
                        /\ \A e \in mine : Under(first.ctx, e.ctx)
                        /\ first.ctx = <<>> \/ OfKind(mine, {"read"}) # {}

\* The one operator of every update, when the name is never read and no
\* update is in an inner loop.
ScalarOp(mine) ==
  LET updates == OfKind(mine, {"aug", "write"})
      ops == {e.op : e \in updates}
  IN  IF \/ OfKind(mine, {"read"}) # {}
         \/ \E e \in updates : e.inLoop \/ (e.kind = "write" /\ ~e.self)
         \/ Cardinality(ops) # 1
      THEN "none" ELSE CHOOSE op \in ops : TRUE

WriteIndexes(mine) == {e.ix : e \in OfKind(mine, {"subwrite"})}
ReadIndexes(mine) == {e.ix : e \in OfKind(mine, {"subread"})}

\* Arms of an if that write a container at different classes of index.
Disagree(b, evs, mine) ==
  /\ Cardinality({e.ctx : e \in OfKind(mine, {"subread", "subwrite"})} \ {<<>>}) >= 2
  /\ Cardinality({IndexClass(b, evs, ix) : ix \in WriteIndexes(mine)}) > 1

Info(class) == [class |-> class, tier |-> "none", op |-> "none", writes |-> {}, reads |-> {},
                inPlace |-> FALSE, nested |-> FALSE]
\* Indexed writes: what their indexes allow.
IndexedInfo(b, evs, mine) ==
  LET classes == {IndexClass(b, evs, ix) : ix \in WriteIndexes(mine)}
      info == [Info("SHARED_INDEXED_SAFE") EXCEPT
                 !.writes = WriteIndexes(mine), !.reads = ReadIndexes(mine),
                 !.inPlace = \E e \in OfKind(mine, {"subwrite"}) : e.nested]
  IN  IF OfKind(mine, {"opaque", "write", "aug"}) # {} THEN Info("SHARED_INDEXED_UNRESOLVED")
      ELSE IF Disagree(b, evs, mine) THEN [info EXCEPT !.tier = "ASSERTED", !.inPlace = FALSE]
      ELSE IF info.reads # {} THEN [info EXCEPT !.class = "READ_AFTER_WRITE"]
      ELSE IF classes = {"proven"} THEN [info EXCEPT !.tier = "BY_PROOF"]
      ELSE IF classes = {"value"} THEN [info EXCEPT !.tier = "BY_ASSUMPTION"]
      ELSE [info EXCEPT !.class = "SHARED_INDEXED_UNRESOLVED", !.inPlace = FALSE]

\* The events of a path, and the first of them.
Mine(evs, path) == {e \in Range(evs) : e.path = path}
First(evs, path) == evs[SelectInSeq(evs, LAMBDA e : e.path = path)]
Classify(b, evs, path) ==
  LET mine == Mine(evs, path)
  IN  IF IsLocal(First(evs, path), mine) THEN Info("LOOP_LOCAL")
      ELSE IF OfKind(mine, {"subwrite"}) # {} THEN IndexedInfo(b, evs, mine)
      ELSE IF OfKind(mine, {"opaque"}) # {} THEN Info("SHARED_INDEXED_UNRESOLVED")
      ELSE IF OfKind(mine, {"aug", "write"}) # {}
           THEN [Info("SHARED_SCALAR") EXCEPT
                   !.op = ScalarOp(mine),
                   !.nested = \E e \in OfKind(mine, {"aug", "write"}) : e.inLoop]
      ELSE Info("OUTER_READONLY")

Paths(b, evs) == {e.path : e \in Range(evs)} \ DomainNames(b)

\* The analysis of a block: a class for each name, or none when it gives up.
\* With branch_sensitive_deps, arms that disagree are left to the audit if
\* they do not read what they write.
Targets(b) == LET evs == Events(b) IN [path \in Paths(b, evs) |-> Classify(b, evs, path)]
Analysed(b) ==
  LET infos == Targets(b)
  IN  /\ \A path \in DOMAIN infos :
           infos[path].tier = "ASSERTED" => b.sensitive /\ infos[path].reads = {}
      /\ \A path \in Conditions(b) \cap DOMAIN infos :
           infos[path].class \in {"LOOP_LOCAL", "OUTER_READONLY"}
=============================================================================
