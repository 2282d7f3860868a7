------------------------- MODULE SelectionRelations -------------------------
(***************************************************************************)
(* What the proofs about Selection relate: what a statement and an         *)
(* iteration keep, what the analysis knows of a body, a chunk's frame and  *)
(* the loop's, a level and the chunks in it, and the invariants of the     *)
(* block.                                                                  *)
(***************************************************************************)
EXTENDS Selection

-----------------------------------------------------------------------------
(* Numbers, sequences and folds *)

\* What is joined, and in which order: Precedes is the order of the pieces, and
\* in a piece of its elements.
Precedes(m, j, n, i) == m < n \/ (m = n /\ j < i)

-----------------------------------------------------------------------------
(* What a statement does *)

\* What the proofs need to know of a frame: its fields, and the names and
\* elements it has.
HeapOK(h) == DOMAIN h = Containers /\ \A c \in Containers : DOMAIN h[c] = Keys
FrameOK(f) == /\ DOMAIN f = {"heap", "local", "bound", "cell", "slab", "site", "truth", "ok"}
              /\ HeapOK(f.heap) /\ DOMAIN f.local = Names
              /\ f.truth \in BOOLEAN /\ f.ok \in BOOLEAN
PlanOK(plan) == plan \in [Containers -> {"none", "list", "cell", "dict"}]

\* All that changes between the containers h and k is in c, at key.
ChangesAt(h, k, c, key) == \A d \in Containers, l \in Keys : k[d][l] # h[d][l] => d = c /\ l = key
Renames(st) == st.kind \in {"assign", "aug", "walrus", "move", "for"}

\* What a run of a statement keeps: no name is lost, the iteration goes on if
\* the statement has what it needs, and the loop's index stays.
RunsWell(plan, ops, st, f, g) ==
  /\ FrameOK(g) /\ f.bound \subseteq g.bound
  /\ st.kind # "if" => g.truth = f.truth
  /\ st.name # "i" \/ ~Renames(st) => g.local["i"] = f.local["i"]
  /\ f.ok /\ (Skips(f, st) \/ (/\ NeedsOf(st, ops) \subseteq f.bound
                               /\ st.kind = "augnested" => plan[st.base] = "none")) =>
       g.ok /\ (Certain(st) /\ ~Skips(f, st) => st.name \in g.bound)

\* Without slabs the containers change where it writes.
WritesAt(st, f, g) ==
  /\ st.kind \in Writing => ChangesAt(f.heap, g.heap, st.base, IndexValue(st.ix, f))
  /\ st.kind \notin Writing \cup {"opaque"} => g.heap = f.heap

-----------------------------------------------------------------------------
(* What an iteration does *)

\* The frames of an iteration, which runs its statements one after the other.
Ran(b, plan, ops, f, p, g) ==
  /\ g[0] = Begin(b, plan, f, p)
  /\ \A k \in 1 .. Len(Flow(b, p)) : g[k] = Run(b, plan, ops, p, g[k - 1], Flow(b, p)[k])
  /\ Iteration(b, plan, ops, f, p) = g[Len(Flow(b, p))]

\* The loop runs its iterations one after the other.
InTurn(b, f, g) == /\ g[0] = f
                   /\ \A k \in 1 .. N : g[k] = Iteration(b, NoPlan, {}, g[k - 1], k - 1)
                   /\ Straight(b, f) = g[N]

-----------------------------------------------------------------------------
(* The events of a body *)

\* The events a statement may emit, and that a sequence of them names a path.
Emitted(st) ==
  {e \in [kind : {"read", "subread", "write", "aug", "subwrite", "opaque"}, path : Names \cup Containers,
          ctx : {Ctx(st)}, ix : Indexes, op : {"none", "+", "max"}, self : BOOLEAN, nested : BOOLEAN,
          inLoop : BOOLEAN] :
     /\ e.kind \in {"write", "aug"} => e.path \in Names
     /\ e.kind \in {"subwrite", "opaque"} => e.path \in Containers
     /\ e.kind = "write" => /\ e.path = st.name /\ st.kind \in {"assign", "move", "walrus"}
                            /\ st.kind # "walrus" => e.self = SelfRef(st)}
NamedIn(s, path) == \E e \in Range(s) : e.path = path

\* What a statement does to a container or a name is among its events.
Tells(st, s) ==
  /\ st.kind \in Writing => \E e \in Range(s) : e.kind = "subwrite" /\ e.path = st.base /\ e.ix = st.ix
  /\ st.kind = "opaque" => \E e \in Range(s) : e.kind = "opaque" /\ e.path = st.base
  /\ st.kind \in {"assign", "move"} => \E e \in Range(s) : e.kind = "write" /\ e.path = st.name /\ e.op = SelfOp(st)
  /\ st.kind = "walrus" => \E e \in Range(s) : e.kind = "write" /\ e.path = st.name
  /\ st.kind = "aug" => \E e \in Range(s) : e.kind = "aug" /\ e.path = st.name
AllEvents == UNION {Emitted(st) : st \in Statements}
EventsAt(b, n) == StmtEvents(b.stmts[n], LoopVar(b))

-----------------------------------------------------------------------------
(* The statements an iteration runs *)

\* The element at k of the joined sequence F of P is the i-th of the n-th
\* piece, and what it is after.
Placed(P, F, k, n, i) ==
  /\ F[k] = P[n][i]
  /\ \A m \in 1 .. Len(P) : \A j \in 1 .. Len(P[m]) :
       Precedes(m, j, n, i) => \E l \in 1 .. k - 1 : F[l] = P[m][j]
  /\ \A l \in 1 .. k - 1 : \E m \in 1 .. Len(P) : \E j \in 1 .. Len(P[m]) :
       F[l] = P[m][j] /\ Precedes(m, j, n, i)

\* A statement of the flow is one of the body's, a for with its pass in it.
Like(s, st) == s = st \/ (st.kind = "for" /\ s = [st EXCEPT !.tag = s.tag])

\* The pass of an inner loop.
Pass(b, st, inner, q) == <<[st EXCEPT !.tag = q - 1]>> \o inner
InnerPieces(b) == [n \in DOMAIN b.stmts |-> IF b.stmts[n].arm = "loop" THEN <<b.stmts[n]>> ELSE <<>>]
Passes(st, p) == IF st.empty /\ p % 2 = 0 THEN 0 ELSE 2
PassPieces(b, st, p) == [q \in 1 .. Passes(st, p) |-> Pass(b, st, FlattenSeq(InnerPieces(b)), q)]
Piece(b, p, n) == IF b.stmts[n].kind = "for" THEN FlattenSeq(PassPieces(b, b.stmts[n], p))
                  ELSE IF b.stmts[n].arm = "loop" THEN <<>> ELSE <<b.stmts[n]>>
Pieces(b, p) == [n \in DOMAIN b.stmts |-> Piece(b, p, n)]

\* The flow F of the for at h: its name bound, and after it in each pass the
\* statements of the inner loop in order.
PassFits(b, h, F) ==
  /\ F \in Seq(Statements)
  /\ \A k \in 1 .. Len(F) :
       \/ Like(F[k], b.stmts[h]) /\ F[k].kind = "for" /\ F[k].arm = "top"
       \/ \E n \in DOMAIN b.stmts :
            /\ F[k] = b.stmts[n] /\ b.stmts[n].arm = "loop"
            /\ \A m \in 1 .. n - 1 : b.stmts[m].arm = "loop" => \E l \in 1 .. k - 1 : F[l] = b.stmts[m]

\* The k-th statement of the flow F is the n-th of the body, after those that
\* surely gave a name a value for it; no arm is entered before the if, and
\* outside the inner loop nothing comes from after it.
InPlace(b, F, k, n) ==
  /\ Like(F[k], b.stmts[n])
  /\ \A m \in 1 .. n - 1 : Certain(b.stmts[m]) /\ b.stmts[m].arm \in {"top", b.stmts[n].arm} =>
       \E l \in 1 .. k - 1 : F[l] = b.stmts[m]
  /\ b.stmts[n].kind = "if" => \A l \in 1 .. k - 1 : F[l].arm \notin {"then", "else"}
  /\ b.stmts[n].arm # "loop" /\ b.stmts[n].kind # "for" =>
       \A l \in 1 .. k - 1 : F[l].kind # "for" => \E m \in 1 .. n - 1 : F[l] = b.stmts[m]

-----------------------------------------------------------------------------
(* What an iteration keeps *)

\* The block is not left as it was written.
Parallel(b) == Eligibility(b) \notin {"RAISES", "SEQUENTIAL"}

-----------------------------------------------------------------------------
(* In place *)

\* All that changes between the containers h and k is at key.
OnlyAt(h, k, key) == \A c \in Containers, l \in Keys : k[c][l] # h[c][l] => l = key

\* What a run of iteration p keeps, of a body whose chunks write in place.
KeepsOwn(b, f, p, g) ==
  /\ FrameOK(g) /\ OnlyAt(f.heap, g.heap, Elem(b, p))
  /\ (\E m \in DOMAIN b.stmts : b.stmts[m].kind \in Writing) => g.local["i"] = <<Elem(b, p)>>

-----------------------------------------------------------------------------
(* The block *)

\* What every reachable state has: bodies, containers and frames as they are
\* read, chunks between the ends of a level, and code that is the block's own.
Typed == /\ body \in Bodies /\ HeapOK(heap)
         /\ frame = [c \in Workers |-> frame[c]] /\ \A c \in Workers : FrameOK(frame[c])
         /\ from \in 0 .. N /\ at = [c \in Workers |-> at[c]] /\ \A c \in Workers : at[c] \in Int
Chosen == /\ stage \in {"select", "decided"} => ~direct
          /\ code = NoCode \/ (code = Artifact(body) /\ how = Eligibility(body) /\ Parallel(body))
          /\ stage \in {"run", "level", "twin"} => code.made
          /\ direct => code.made /\ code.direct
          /\ stage = "level" => from < N
Inv == Typed /\ Chosen

\* What an iteration of a chunk leaves.
Stepped(c) == Iteration(body, Plans, Ops, [frame[c] EXCEPT !.heap = heap], at[c])

-----------------------------------------------------------------------------
(* Names that have a value before they are needed *)

\* A frame that goes on: no name it may need is missing but the block's own.
GoesOn(b, f) == FrameOK(f) /\ f.ok /\ Names \ Locals(b) \subseteq f.bound

\* The rows of a container with a slab are not written.
RowsApart(b, plan) == \A n \in DOMAIN b.stmts : b.stmts[n].kind = "augnested" => plan[b.stmts[n].base] = "none"

\* After the first k statements of an iteration: those that were not skipped
\* and give a name a value have done so.
Reaches(b, F, k, g) ==
  /\ GoesOn(b, g) /\ DomainNames(b) \subseteq g.bound
  /\ \A q \in 1 .. k : Certain(F[q]) /\ ~Skips(g, F[q]) => F[q].name \in g.bound

\* No frame of a block the analysis is right about misses a name it needs,
\* and the block does not end with an exception.
Going == Understood(body) => outcome # "error" /\ \A c \in Workers : GoesOn(body, frame[c])

-----------------------------------------------------------------------------
(* The fold of contributions *)
IsSeq(s) == \E S : s \in Seq(S)

\* The values a fold goes through.
FoldsUp(op, start, s, g) == /\ g[0] = start
                            /\ \A k \in 1 .. Len(s) : g[k] = Combine(op, g[k - 1], s[k])
                            /\ Folded(op, start, s) = g[Len(s)]

-----------------------------------------------------------------------------
(* A chunk beside the loop *)

\* All the fields of a frame.
Full(f) == /\ FrameOK(f) /\ HeapOK(f.slab) /\ DOMAIN f.cell = Containers
           /\ DOMAIN f.site = Names /\ \A n \in Names : IsSeq(f.site[n])

\* An element as a chunk leaves it: from its slab, or where it is.
View(f, c, k) == IF f.slab[c][k] # <<>> THEN f.slab[c][k][1] ELSE f.heap[c][k]

(***************************************************************************)
(* A chunk is compared with the loop in a world w: its plan, the names it  *)
(* folds (ops) with what (by) and from what (start), the containers that   *)
(* are the same as a whole, and the elements that are foreign, which other *)
(* chunks write.  r is the loop's frame, f the chunk's: the names that     *)
(* have a value in the chunk have the loop's.                              *)
(***************************************************************************)
World(w) == /\ PlanOK(w.plan) /\ w.ops \subseteq Names /\ w.whole \subseteq Containers
            /\ \A c \in w.whole : w.plan[c] = "none"
Follows(w, r, f) ==
  /\ FrameOK(r) /\ r.ok /\ r.bound = Names /\ Full(f) /\ f.ok
  /\ \A x \in f.bound \ w.ops : f.local[x] = r.local[x]
  /\ \A n \in w.ops : r.local[n] = Folded(w.by[n], w.start[n], f.site[n])
  /\ \A c \in w.whole : f.heap[c] = r.heap[c]
  /\ \A c \in Containers, k \in Keys : <<c, k>> \notin w.foreign => View(f, c, k) = r.heap[c][k]
  /\ \A c \in Containers : w.plan[c] = "none" => \A k \in Keys : f.slab[c][k] = <<>>

\* Within iteration p.
Along(b, w, p, r, f) ==
  /\ Follows(w, r, f) /\ f.truth = r.truth
  /\ HasIndex(b) => "i" \in f.bound \ w.ops /\ r.local["i"] = <<Elem(b, p)>>
  /\ \A c \in Containers : w.plan[c] = "cell" /\ <<c, Elem(b, p)>> \notin w.foreign => f.cell[c] = r.heap[c][Elem(b, p)]

\* A statement the world allows.
AtQuotient(b, ix) == ix.form = "div" /\ HasIndex(b) /\ ix.name = "i"
ReadsFit(b, w, p, st) ==
  \A u \in Range(st.uses) : u.name \in Containers =>
    \/ u.name \in w.whole
    \/ AtQuotient(b, u.ix) /\ w.plan[u.name] \in {"none", "list", "cell"}
    \/ /\ AtIndex(b, u.ix) /\ w.plan[u.name] \in {"none", "cell"}
       /\ <<u.name, Elem(b, p)>> \notin w.foreign /\ Elem(b, p) \in Keys

\* What it reads at a quotient of its index is where the chunk reads it.
Divided(b, w, p, r, f, st) ==
  \A u \in Range(st.uses) : u.name \in Containers \ w.whole /\ AtQuotient(b, u.ix) =>
    f.heap[u.name][Elem(b, p) \div u.ix.by] = r.heap[u.name][Elem(b, p) \div u.ix.by]
WritesFit(b, w, p, st) ==
  st.kind \in Writing =>
    /\ st.ix.form # "whole"
    /\ w.plan[st.base] # "none" => st.kind \in {"store", "augstore", "mutate"}
    /\ w.plan[st.base] \in {"list", "cell"} => AtIndex(b, st.ix) /\ <<st.base, Elem(b, p)>> \notin w.foreign
    /\ w.plan[st.base] = "list" => st.kind = "store"
    /\ w.plan[st.base] = "dict" => st.kind # "mutate"
NamesFit(b, w, st) ==
  /\ Needs(st) \cap w.ops = {}
  /\ Renames(st) => st.name \notin DomainNames(b)
  /\ Renames(st) /\ st.name \in w.ops => Updates(st) /\ st.form # "right" /\ st.op = w.by[st.name]
Fits(b, w, p, st) == /\ st \in Statements /\ st.kind \notin {"break", "return", "opaque"}
                     /\ st.kind = "move" => st.ix.form # "whole"
                     /\ HasIndex(b) => Elem(b, p) \in Keys
                     /\ (st.kind # "for" => ReadsFit(b, w, p, st)) /\ WritesFit(b, w, p, st) /\ NamesFit(b, w, st)

\* What a write of key in container c does to the loop's frame r and the
\* chunk's f: g and h are theirs after it.
Marks(w, c, key, r, f, g, h) ==
  /\ \A d \in Containers, k \in Keys :
       <<d, k>> # <<c, key>> => g.heap[d][k] = r.heap[d][k] /\ h.heap[d][k] = f.heap[d][k] /\ h.slab[d][k] = f.slab[d][k]
  /\ w.plan[c] = "dict" /\ key \in Keys => h.slab[c][key] # <<>>
  /\ \A d \in Containers, k \in Keys : f.slab[d][k] # <<>> => h.slab[d][k] # <<>>
KeptHeaps(r, f, g, h) == g.heap = r.heap /\ h.heap = f.heap /\ h.slab = f.slab
Fields == {"heap", "local", "bound", "cell", "slab", "site", "truth", "ok"}

\* The loop stores z in an element.
LoopStored(r, g, c, key, z) ==
  /\ DOMAIN g = Fields /\ g.heap = [r.heap EXCEPT ![c][key] = z]
  /\ g.local = r.local /\ g.bound = r.bound /\ g.truth = r.truth /\ g.ok = r.ok

\* What the chunk does: y goes into a slot of the slab, or into the element,
\* and x into the cell.
Beside(f, h) == /\ DOMAIN h = Fields /\ h.local = f.local /\ h.bound = f.bound /\ h.ok = f.ok /\ h.truth = f.truth
                /\ h.site = f.site
CellSet(w, f, h, c, x) == /\ DOMAIN h.cell = Containers /\ (w.plan[c] = "cell" => h.cell[c] = x)
                          /\ \A d \in Containers \ {c} : h.cell[d] = f.cell[d]
SlabStored(w, f, h, c, key, y, x) ==
  /\ Beside(f, h) /\ CellSet(w, f, h, c, x)
  /\ h.heap = f.heap /\ h.slab = [f.slab EXCEPT ![c][key] = <<y>>]
HeapStored(w, f, h, c, key, y, x) ==
  /\ Beside(f, h) /\ CellSet(w, f, h, c, x)
  /\ h.slab = f.slab /\ h.heap = [f.heap EXCEPT ![c][key] = y]
HasStored(r, g, c, key, z) ==
  /\ FrameOK(g) /\ g.local = r.local /\ g.bound = r.bound /\ g.truth = r.truth /\ g.ok = r.ok
  /\ key \in Keys => g.heap[c][key] = z
  /\ \A k \in Keys : k # key => g.heap[c][k] = r.heap[c][k]
  /\ \A d \in Containers \ {c} : g.heap[d] = r.heap[d]
  /\ g.heap[c] = [r.heap[c] EXCEPT ![key] = z]
  /\ \A d \in Containers, k \in Keys : <<d, k>> # <<c, key>> => g.heap[d][k] = r.heap[d][k]

\* What is left to compare when the loop has stored z and the chunk has
\* changed the element, its slot or its cell.
Holds(b, w, p, f, h, c, key, z) ==
  /\ \A d \in Containers \ {c} : h.heap[d] = f.heap[d] /\ h.slab[d] = f.slab[d] /\ h.cell[d] = f.cell[d]
  /\ \A k \in Keys : k # key => h.heap[c][k] = f.heap[c][k] /\ h.slab[c][k] = f.slab[c][k]
  /\ <<c, key>> \notin w.foreign /\ key \in Keys => View(h, c, key) = z
  /\ c \in w.whole => h.heap[c] = [f.heap[c] EXCEPT ![key] = z]
  /\ w.plan[c] = "none" => h.slab[c] = f.slab[c]
  /\ w.plan[c] = "cell" => key = Elem(b, p) /\ key \in Keys /\ (<<c, key>> \notin w.foreign => h.cell[c] = z)

\* A value y goes into the container.
HeapMay(b, w, p, f, c, key, z, y, x) ==
  /\ w.plan[c] \in {"none", "cell"}
  /\ w.plan[c] = "cell" => key = Elem(b, p) /\ key \in Keys /\ f.slab[c][key] = <<>> /\ (<<c, key>> \notin w.foreign => x = z)
  /\ <<c, key>> \notin w.foreign /\ key \in Keys => y = z
  /\ c \in w.whole => y = z

-----------------------------------------------------------------------------
(* A statement in both *)

\* What a statement that writes makes of what it finds.
Stores(st) == st.kind \in {"store", "nested"}
Anew(st, old, v) == IF Stores(st) THEN v ELSE old \o v
Value(b, plan, f, st) == <<st.tag>> \o Loaded(b, plan, f, st)
HasWritten(b, plan, p, f, st, g) ==
  LET v == Value(b, plan, f, st)
  IN  /\ Stores(st) => g = Put(b, plan, f, st, p, v)
      /\ st.kind = "augstore" => g = Put(b, plan, f, st, p, Old(plan, f, st) \o v)
      /\ st.kind = "augnested" => g = AddNested(plan, f, st, v)
      /\ st.kind = "mutate" => g = Mutate(b, plan, f, st, p, v)

\* Without a slab the statement writes the container.
WritesInPlace(f, g, c, key, z) ==
  /\ DOMAIN g = Fields /\ g.heap = [f.heap EXCEPT ![c][key] = z] /\ g.slab = f.slab
  /\ g.local = f.local /\ g.bound = f.bound /\ g.truth = f.truth /\ g.ok = f.ok /\ g.site = f.site
  /\ g.cell = f.cell \/ g.cell = [f.cell EXCEPT ![c] = @]

\* The loop's frame and the chunk's after a statement that changes st.base.
Effect(w, st, r, f, g, h) ==
  IF st.kind \in Writing /\ ~Skips(r, st) THEN Marks(w, st.base, IndexValue(st.ix, r), r, f, g, h) ELSE KeptHeaps(r, f, g, h)
Agrees(b, w, p, st, r, f, g, h) == Along(b, w, p, g, h) /\ Effect(w, st, r, f, g, h)

\* What a statement that does not write makes of the frame.
HasRun(b, plan, ops, p, f, st, g) ==
  LET v == Value(b, plan, f, st)
  IN  /\ st.kind = "assign" /\ st.form = "plain" => g = Bind(f, st.name, v)
      /\ Updates(st) => g = Update(f, ops, st, v)
      /\ st.kind = "walrus" => g = IF Truth(Loaded(b, plan, f, st)) THEN Bind(f, st.name, v) ELSE f
      /\ st.kind = "move" => g = Bind(f, st.name, <<IndexValue(st.ix, f)>>)
      /\ st.kind = "if" => g = [f EXCEPT !.truth = Truth(Loaded(b, plan, f, st))]
      /\ st.kind = "for" => g = Bind(f, st.name, <<st.tag>>)

\* The containers change where a statement writes, a slab gets its first
\* value from a store, and names get theirs from the statements that rename.
HeapStep(st, f, g) ==
  \/ g.heap = f.heap
  \/ st.kind \in Writing \cup {"opaque"} /\ \E key, x : g.heap = [f.heap EXCEPT ![st.base][key] = x]
RunTouches(plan, st, f, g) ==
  /\ HeapStep(st, f, g)
  /\ plan[st.base] # "none" /\ st.kind \in {"store", "augstore"} => g.heap = f.heap
  /\ HeapOK(f.slab) /\ st.kind \notin {"store", "augstore", "nested"} =>
       \A d \in Containers, k \in Keys : f.slab[d][k] = <<>> => g.slab[d][k] = <<>>
  /\ \A x \in Names : (Renames(st) /\ x = st.name) \/ g.local[x] = f.local[x]
  /\ g.bound \subseteq f.bound \cup Names

\* A heap is what it has at its keys.
Canon(h) == h = [c \in Containers |-> [k \in Keys |-> h[c][k]]]

-----------------------------------------------------------------------------
(* An iteration of a chunk beside the loop's *)

\* The elements written by the first k of the statements F, whose frames are g.
Touching(F, g, k) == {<<F[l].base, IndexValue(F[l].ix, g[l - 1])>> :
                        l \in {m \in 1 .. k : F[m].kind \in Writing /\ ~Skips(g[m - 1], F[m])}}

\* What those statements leave of the loop's frame r and the chunk's f: x and
\* y are theirs after them, and T the elements the loop has written.
Off(r, f, x, y, T) ==
  \A d \in Containers, k \in Keys : <<d, k>> \notin T =>
    x.heap[d][k] = r.heap[d][k] /\ y.heap[d][k] = f.heap[d][k] /\ y.slab[d][k] = f.slab[d][k]
Kept(w, f, y, T) ==
  /\ \A d \in Containers, k \in Keys : f.slab[d][k] # <<>> => y.slab[d][k] # <<>>
  /\ \A d \in Containers, k \in Keys : w.plan[d] = "dict" /\ <<d, k>> \in T => y.slab[d][k] # <<>>

\* In container d, st writes in place.
InPlaceOf(w, d, st) == /\ st.base = d /\ st.kind \in Writing \cup {"opaque"}
                       /\ w.plan[d] = "none" \/ st.kind \notin {"store", "augstore"}
Still(w, F, k, f, y) ==
  \A d \in Containers : (\A l \in 1 .. k : ~InPlaceOf(w, d, F[l])) => y.heap[d] = f.heap[d]
Filled(b, w, p, F, k, f, y) ==
  \A d \in Containers, key \in Keys : f.slab[d][key] = <<>> /\ y.slab[d][key] # <<>> =>
    \E l \in 1 .. k : F[l].kind \in {"store", "augstore", "nested"} /\ F[l].base = d
Named(b, F, k, f, y) ==
  \A x \in Names \ DomainNames(b) : (\A l \in 1 .. k : Renames(F[l]) => F[l].name # x) => y.local[x] = f.local[x]
Effects(b, w, p, F, k, r, f, x, y, T) ==
  /\ Off(r, f, x, y, T) /\ Kept(w, f, y, T) /\ Still(w, F, k, f, y) /\ Filled(b, w, p, F, k, f, y)
  /\ (Canon(f.heap) => Canon(y.heap)) /\ Named(b, F, k, f, y) /\ y.bound \subseteq Names

\* In container c the body writes its own element only.
OwnWrites(b, c) == \A m \in DOMAIN b.stmts : b.stmts[m].base = c /\ b.stmts[m].kind \in Writing => AtIndex(b, b.stmts[m].ix)

\* u is read by the n-th statement at a quotient of the index.
Divides(b, w, n, u) == /\ u \in Range(b.stmts[n].uses) /\ b.stmts[n].kind # "for"
                       /\ u.name \in Containers \ w.whole /\ AtQuotient(b, u.ix)
Quotient(b, w, p, n, u) ==
  /\ Elem(b, p) \div u.ix.by \in Keys /\ OwnWrites(b, u.name)
  /\ Elem(b, p) \div u.ix.by = Elem(b, p) =>
       /\ <<u.name, Elem(b, p)>> \notin w.foreign
       /\ \A m \in DOMAIN b.stmts : b.stmts[m].base = u.name /\ b.stmts[m].kind \in {"store", "augstore"} =>
            ~ (m < n) /\ b.stmts[n].arm # "loop"

\* The world allows the body in iteration p.
Suits(b, w, p) ==
  /\ World(w) /\ DomainNames(b) \cap w.ops = {} /\ RowsApart(b, w.plan)
  /\ \A n \in DOMAIN b.stmts : Fits(b, w, p, b.stmts[n])
  /\ \A n \in DOMAIN b.stmts : \A u : Divides(b, w, n, u) => Quotient(b, w, p, n, u)

\* The iteration can start.
Ready(b, w, p, r, f) ==
  /\ Follows(w, r, f) /\ GoesOn(b, f) /\ f.bound \subseteq Names
  /\ \A c \in Containers : w.plan[c] \in {"list", "cell"} => Elem(b, p) \in Keys /\ f.slab[c][Elem(b, p)] = <<>>
  /\ \A n \in DOMAIN b.stmts : \A u : Divides(b, w, n, u) =>
       LET q == Elem(b, p) \div u.ix.by IN q # Elem(b, p) => f.heap[u.name][q] = r.heap[u.name][q]

\* Where the body writes its own element only, nothing else is touched.
Confined(b, p, T) == \A c \in Containers : \A key : <<c, key>> \in T /\ OwnWrites(b, c) => key = Elem(b, p)

\* The loop's frames g and the chunk's h after k statements of iteration p.
Goes(b, w, p, F, k, r, f, g, h) ==
  /\ Along(b, w, p, g[k], h[k]) /\ Reaches(b, F, k, h[k])
  /\ Effects(b, w, p, F, k, r, f, g[k], h[k], Touching(F, g, k)) /\ Confined(b, p, Touching(F, g, k))
HasBegun(b, f, g) == FrameOK(g) /\ g.heap = f.heap /\ g.ok = f.ok /\ g.bound = f.bound \cup DomainNames(b)

\* An iteration of the chunk leaves what the loop's leaves.
Finishes(b, w, p, r, f, x, y, F, T) ==
  Follows(w, x, y) /\ GoesOn(b, y) /\ Effects(b, w, p, F, Len(F), r, f, x, y, T) /\ Confined(b, p, T)

-----------------------------------------------------------------------------
(* The loop as it was written *)

\* The world of a run with nothing between the loop and its data.
Alone == [plan |-> NoPlan, ops |-> {}, by |-> <<>>, start |-> StartNames, whole |-> Containers, foreign |-> {}]

\* What the analysis leaves of the statements: none it cannot run twice, none
\* that binds the loop's own names.
Plainly(b) == /\ WellFormed(b) /\ Parallel(b) /\ ~BindsMaybe(b)
              /\ \A n \in DOMAIN b.stmts : b.stmts[n].kind # "opaque"
              /\ \A n \in DOMAIN b.stmts : Renames(b.stmts[n]) => b.stmts[n].name \notin DomainNames(b)

\* The frames of the loop, one before each iteration, what iteration q goes
\* through, and the elements it writes.
Steps(b) == CHOOSE g : InTurn(b, Frame(StartHeap, Names), g)
TraceOf(b, q) == CHOOSE g : Ran(b, NoPlan, {}, Steps(b)[q], q, g)
Touched(b, q) == Touching(Flow(b, q), TraceOf(b, q), Len(Flow(b, q)))

\* A run with nothing in between beside the loop's: h are its frames.
Twins(b, r, f) == Follows(Alone, r, f) /\ GoesOn(b, f) /\ f.bound \subseteq Names

\* What iteration q of the loop leaves of what it found.
StepIs(b, q) ==
  LET x == Steps(b)[q]
      y == Steps(b)[q + 1]
  IN  /\ \A d \in Containers, k \in Keys : <<d, k>> \notin Touched(b, q) => y.heap[d][k] = x.heap[d][k]
      /\ \A d \in Containers : (\A n \in DOMAIN b.stmts : ~ (b.stmts[n].base = d /\ b.stmts[n].kind \in Writing)) =>
           y.heap[d] = x.heap[d]
      /\ \A n \in Names \ DomainNames(b) : (\A m \in DOMAIN b.stmts : Renames(b.stmts[m]) => b.stmts[m].name # n) =>
           y.local[n] = x.local[n]
      /\ Canon(x.heap) => Canon(y.heap)
      /\ Confined(b, q, Touched(b, q))
      /\ y = Iteration(b, NoPlan, {}, x, q)

\* The elements the loop writes from one position to another.
TouchedIn(b, lo, hi) == UNION {Touched(b, q) : q \in lo .. hi - 1}

\* What the loop leaves of what it found on the way from lo to hi.
Passed(b, lo, hi, T) ==
  LET x == Steps(b)[lo]
      y == Steps(b)[hi]
  IN  /\ \A d \in Containers, k \in Keys : <<d, k>> \notin T => y.heap[d][k] = x.heap[d][k]
      /\ \A d \in Containers : (\A n \in DOMAIN b.stmts : ~ (b.stmts[n].base = d /\ b.stmts[n].kind \in Writing)) =>
           y.heap[d] = x.heap[d]
      /\ \A n \in Names \ DomainNames(b) : (\A m \in DOMAIN b.stmts : Renames(b.stmts[m]) => b.stmts[m].name # n) =>
           y.local[n] = x.local[n]
      /\ Canon(x.heap) => Canon(y.heap)

-----------------------------------------------------------------------------
(* The code of a block *)
Unwritten(b, d) == \A n \in DOMAIN b.stmts : ~ (b.stmts[n].base = d /\ b.stmts[n].kind \in Writing)

\* A statement writes as the plan of its container allows.
Sorted(plan, st) ==
  st.kind \in Writing => /\ plan[st.base] # "none" => st.kind \in {"store", "augstore", "mutate"}
                         /\ plan[st.base] = "list" => st.kind = "store"
                         /\ plan[st.base] = "dict" => st.kind # "mutate"

\* What is read of a container that is written: the iteration's own element,
\* or one at a quotient of it.
ReadsOwn(b, plan, u) ==
  u.name \in Containers /\ ~Unwritten(b, u.name) =>
    \/ AtIndex(b, u.ix) /\ plan[u.name] \in {"none", "cell"}
    \/ AtQuotient(b, u.ix) /\ u.ix.by > 1 /\ plan[u.name] \in {"none", "list", "cell"}

\* What the analysis and codegen see to, for the plan and the names folded.
Compiled(b, plan, ops, by) ==
  /\ Plainly(b) /\ PlanOK(plan) /\ RowsApart(b, plan) /\ ops \subseteq Names /\ DomainNames(b) \cap ops = {}
  /\ \A d \in Containers : Unwritten(b, d) => plan[d] = "none"
  /\ \A d \in Containers : plan[d] # "dict" => OwnWrites(b, d)
  /\ \A d \in Containers : plan[d] \in {"list", "cell"} => HasIndex(b)
  /\ \A n \in DOMAIN b.stmts : Sorted(plan, b.stmts[n]) /\ NamesFit(b, [ops |-> ops, by |-> by], b.stmts[n])
  /\ \A n \in DOMAIN b.stmts : Renames(b.stmts[n]) => b.stmts[n].name \in Locals(b) \cup ops
  /\ \A n \in DOMAIN b.stmts : b.stmts[n].kind # "for" => \A u \in Range(b.stmts[n].uses) : ReadsOwn(b, plan, u)
  /\ ~RereadsRoot(b)
ChunkWorld(b, plan, ops, by, lo, foreign) ==
  [plan |-> plan, ops |-> ops, by |-> by, start |-> Steps(b)[lo].local,
   whole |-> {d \in Containers : Unwritten(b, d)}, foreign |-> foreign]

\* Nothing of iteration p is foreign where each writes its own element.
OwnElements(b, p, foreign) == \A d \in Containers : OwnWrites(b, d) => <<d, Elem(b, p)>> \notin foreign

-----------------------------------------------------------------------------
(* A level *)

\* A level G of block b runs the positions from lo on in chunk 1, from mid on
\* in chunk 2, and ends before hi.
Other(c) == IF c = 1 THEN 2 ELSE 1
FirstOf(G, c) == IF c = 1 THEN G.lo ELSE G.mid
LastOf(G, c) == IF c = 1 THEN G.mid ELSE G.hi
ForeignTo(G, c) == TouchedIn(G.b, FirstOf(G, Other(c)), LastOf(G, Other(c)))
WorldOf(G, c) == ChunkWorld(G.b, G.plan, G.ops, G.by, FirstOf(G, c), ForeignTo(G, c))
With(f, h) == [f EXCEPT !.heap = h]

\* The body changes container d where it is.
InPlaceWritten(b, plan, d) == \E n \in DOMAIN b.stmts : /\ b.stmts[n].base = d /\ b.stmts[n].kind \in Writing
                                                        /\ plan[d] = "none" \/ b.stmts[n].kind \notin {"store", "augstore"}

\* What is read at a quotient of the index is not written in the level, or
\* neither before it nor in place.
Settled(G) ==
  LET b == G.b
  IN  \A p \in G.lo .. G.hi - 1, n \in DOMAIN b.stmts : \A u \in Range(b.stmts[n].uses) :
        b.stmts[n].kind # "for" /\ u.name \in Containers /\ ~Unwritten(b, u.name) /\ AtQuotient(b, u.ix) =>
          LET q == Elem(b, p) \div u.ix.by
          IN  \/ q = Elem(b, p)
              \/ \A o \in G.lo .. G.hi - 1 : Elem(b, o) # q
              \/ (\A o \in G.lo .. p : Elem(b, o) # q) /\ ~InPlaceWritten(b, G.plan, u.name)
LevelFits(G) == /\ Compiled(G.b, G.plan, G.ops, G.by) /\ Settled(G)
                /\ G.lo \in 0 .. N /\ G.mid \in G.lo .. N /\ G.hi \in G.mid .. N
DoneBy(G, pos, c) == TouchedIn(G.b, FirstOf(G, c), pos[c])
ChunkOK(G, h, f, a, c) ==
  /\ a \in FirstOf(G, c) .. LastOf(G, c)
  /\ Follows(WorldOf(G, c), Steps(G.b)[a], With(f, h)) /\ f.bound \subseteq Names
  /\ \A d \in Containers, k \in Keys : f.slab[d][k] # <<>> => <<d, k>> \in TouchedIn(G.b, FirstOf(G, c), a)
  /\ \A d \in Containers, k \in Keys :
       G.plan[d] = "dict" /\ <<d, k>> \in TouchedIn(G.b, FirstOf(G, c), a) => f.slab[d][k] # <<>>
LevelOK(G, h, fr, pos) ==
  /\ \A c \in Workers : ChunkOK(G, h, fr[c], pos[c], c)
  /\ \A d \in Containers, k \in Keys : h[d][k] # Steps(G.b)[G.lo].heap[d][k] =>
       InPlaceWritten(G.b, G.plan, d) /\ \E c \in Workers : <<d, k>> \in DoneBy(G, pos, c)
  /\ Canon(h)

\* Where the body writes its own elements, the loop touches those of the
\* positions it goes through.
TouchedAt(b, lo, hi, k) == \E q \in lo .. hi - 1 : q \in Pos /\ k = Elem(b, q)

\* What iteration p of chunk c makes of the containers h and its frame f.
Moves(G, h, f, y, p, c) ==
  /\ Follows(WorldOf(G, c), Steps(G.b)[p + 1], y) /\ GoesOn(G.b, y) /\ y.bound \subseteq Names
  /\ \A d \in Containers, k \in Keys : <<d, k>> \notin Touched(G.b, p) =>
       y.heap[d][k] = h[d][k] /\ y.slab[d][k] = f.slab[d][k]
  /\ \A d \in Containers, k \in Keys : f.slab[d][k] # <<>> => y.slab[d][k] # <<>>
  /\ \A d \in Containers, k \in Keys : G.plan[d] = "dict" /\ <<d, k>> \in Touched(G.b, p) => y.slab[d][k] # <<>>
  /\ \A d \in Containers : ~InPlaceWritten(G.b, G.plan, d) => y.heap[d] = h[d]
  /\ Canon(h) => Canon(y.heap)

\* A level at its end has no key in two slabs.
Apart(G, fr) == \A d \in Containers, k \in Keys : G.plan[d] = "dict" => fr[1].slab[d][k] = <<>> \/ fr[2].slab[d][k] = <<>>

-----------------------------------------------------------------------------
(* What the events of a statement are *)
HiddenTo(st, outer) == LET hidden == IF st.arm = "loop" THEN outer ELSE {}
                       IN  IF st.kind \in {"assign", "move"} /\ SelfRef(st) THEN hidden \cup {st.name} ELSE hidden
Binding(st) == [Event("write", st.name, st) EXCEPT !.op = SelfOp(st), !.self = SelfRef(st)]
Adding(st) == [Event("aug", st.name, st) EXCEPT !.op = st.op]
Storing(st) == [At(Event("subwrite", st.base, st), st.ix) EXCEPT !.nested = st.kind = "nested"]
Reading(st) == At(Event("subread", st.base, st), st.ix)

\* Those of the statement itself, beside what it loads.
OwnEvents(st) ==
  CASE st.kind \in {"assign", "move"} -> {Binding(st)}
    [] st.kind = "walrus" -> {Event("write", st.name, st)}
    [] st.kind = "aug" -> {Adding(st)}
    [] st.kind \in {"store", "nested"} -> {Storing(st)}
    [] st.kind \in {"augstore", "augnested", "mutate"} -> {Storing(st), Reading(st)}
    [] st.kind = "opaque" -> {Event("opaque", st.base, st)}
    [] OTHER -> {}
IndexEvents(st, outer) == IF st.kind \in Writing \cup {"move"} THEN Range(IndexLoads(st.ix, st, HiddenTo(st, outer))) ELSE {}
BaseEvents(st) == IF st.kind \in Writing \cup {"opaque"} THEN Range(Read(st.base, st, {})) ELSE {}

\* The events of loads.
LoadKinds(st) == {e \in Emitted(st) : e.kind \in {"read", "subread"}}
ReadOf(n, st) == Event("read", n, st)
PartOf(n, ix, st) == At(Event("subread", n, st), ix)

\* What the loads of a use, and of a statement, emit.
Tokens(u, st, hidden, S) ==
  /\ u.name \notin hidden => ReadOf(u.name, st) \in S
  /\ u.name \notin hidden /\ u.ix.form # "whole" => PartOf(u.name, u.ix, st) \in S
  /\ u.ix.form \notin {"whole", "lit"} /\ u.ix.name \notin hidden => ReadOf(u.ix.name, st) \in S

\* What the events of a statement say it does, and what it does that they say.
Honest(st, S) ==
  /\ S \subseteq Emitted(st)
  /\ \A e \in S : e.kind = "subwrite" =>
       /\ st.kind \in Writing /\ e.path = st.base /\ e.ix = st.ix
       /\ e.nested => st.kind = "nested"
  /\ \A e \in S : e.kind = "opaque" => st.kind = "opaque" /\ e.path = st.base
  /\ \A e \in S : e.kind \in {"write", "aug"} /\ e.op # "none" => Updates(st) /\ e.path = st.name
  /\ \A e \in S : e.kind = "write" => st.kind \in {"assign", "move", "walrus"} /\ e.path = st.name
Complete(st, outer, S) ==
  /\ st.kind \in {"augstore", "augnested", "mutate"} => \E e \in S : e.kind = "subread" /\ e.path = st.base /\ e.ix = st.ix
  /\ st.kind = "aug" => \E e \in S : e.kind = "aug" /\ e.path = st.name /\ e.op = st.op
  /\ \A u \in Range(st.uses) : u.name \in Containers /\ u.ix.form # "whole" =>
       \E e \in S : e.kind = "subread" /\ e.path = u.name /\ e.ix = u.ix
  /\ \A n \in Needs(st) \ HiddenTo(st, outer) : \E e \in S : e.kind = "read" /\ e.path = n

-----------------------------------------------------------------------------
(* What the analysis knows of a container *)

\* What the events of container c are.
MineSays(b, c) ==
  LET mine == Mine(Events(b), c)
  IN  /\ \A e \in OfKind(mine, {"subwrite"}) : \E n \in DOMAIN b.stmts :
           /\ b.stmts[n].kind \in Writing /\ b.stmts[n].base = c /\ e.ix = b.stmts[n].ix
           /\ e.nested => b.stmts[n].kind = "nested"
      /\ \A e \in OfKind(mine, {"opaque"}) : \E n \in DOMAIN b.stmts : b.stmts[n].kind = "opaque"
      /\ OfKind(mine, {"write", "aug"}) = {}
      /\ \A n \in DOMAIN b.stmts :
           /\ b.stmts[n].kind \in Writing /\ b.stmts[n].base = c =>
                b.stmts[n].ix \in WriteIndexes(mine) /\ OfKind(mine, {"subwrite"}) # {}
           /\ b.stmts[n].kind = "opaque" /\ b.stmts[n].base = c => OfKind(mine, {"opaque"}) # {}
           /\ b.stmts[n].kind \in {"augstore", "augnested", "mutate"} /\ b.stmts[n].base = c => b.stmts[n].ix \in ReadIndexes(mine)
           /\ \A u \in Range(b.stmts[n].uses) : u.name = c /\ u.ix.form # "whole" => u.ix \in ReadIndexes(mine)

-----------------------------------------------------------------------------
(* The plan of a container the body writes *)
Shapes == {"UNRESOLVED", "MODULAR_SELF_REFERENCE", "MONOTONIC_OFFSET", "RECOGNIZED_DAG", "SELF_CONTAINED"}

\* The outcomes of the analysis of a container.
Outcome(info, W, R, classes, nest) ==
  /\ info.writes = W /\ info.reads = R
  /\ \/ info.class = "SHARED_INDEXED_SAFE" /\ info.tier = "ASSERTED" /\ ~info.inPlace
     \/ R # {} /\ info.class = "READ_AFTER_WRITE" /\ (info.inPlace <=> nest)
     \/ R = {} /\ classes = {"proven"} /\ info.class = "SHARED_INDEXED_SAFE" /\ info.tier = "BY_PROOF" /\ (info.inPlace <=> nest)
     \/ R = {} /\ info.class = "SHARED_INDEXED_SAFE" /\ info.tier = "BY_ASSUMPTION" /\ (info.inPlace <=> nest)
     \/ R = {} /\ info.class = "SHARED_INDEXED_UNRESOLVED" /\ ~info.inPlace
Nests(mine) == \E e \in OfKind(mine, {"subwrite"}) : e.nested

\* A block that is let through and that the analysis understands.
Known(b) == WellFormed(b) /\ Parallel(b) /\ Understood(b)

\* What the analysis says of a container the body writes.
WriteInfo(b, c) ==
  LET info == Targets(b)[c]
      mine == Mine(Events(b), c)
  IN  /\ c \in DOMAIN Targets(b) /\ Plan(b)[c] = SlabKind(b, info) /\ c \in DOMAIN Plan(b)
      /\ Outcome(info, WriteIndexes(mine), ReadIndexes(mine),
                 {IndexClass(b, Events(b), ix) : ix \in WriteIndexes(mine)}, Nests(mine))
      /\ info.tier = "ASSERTED" => info.reads = {}
      /\ info.class = "READ_AFTER_WRITE" => Shape(b, info) \in {"SELF_CONTAINED", "RECOGNIZED_DAG"} \/ Asserted(b)

\* What codegen makes of a container the body writes: p is its plan.
SlabOK(b, c) ==
  LET info == Targets(b)[c]
      mine == Mine(Events(b), c)
      p == Plan(b)[c]
  IN  /\ p # "dict" => OwnWrites(b, c)
      /\ p = "list" => \A ix \in ReadIndexes(mine) : ~AtIndex(b, ix)
      /\ \A n \in DOMAIN b.stmts : \A u \in Range(b.stmts[n].uses) : u.name = c =>
           /\ info.class = "READ_AFTER_WRITE" /\ c \in DOMAIN Targets(b) /\ u.ix \in info.reads
           /\ \/ AtIndex(b, u.ix) /\ p \in {"none", "cell"}
              \/ AtQuotient(b, u.ix) /\ u.ix.by > 1 /\ p \in {"none", "list", "cell"} /\ Shape(b, info) = "RECOGNIZED_DAG"

-----------------------------------------------------------------------------
(* What the analysis knows of a name *)

\* st is a binding of x that e can stand for.
BindsAs(st, x, e) == st.name = x /\ st.kind \in {"assign", "move", "walrus"} /\ (st.kind # "walrus" => e.self = SelfRef(st))

\* What is known of the events of a name.
NameSays(b, x) ==
  LET mine == Mine(Events(b), x)
  IN  /\ \A e \in mine : e.op \in {"none", "+", "max"} /\ e.kind \notin {"subwrite", "opaque"}
      /\ \A e \in mine : e.kind \in {"write", "aug"} =>
           \/ \E n \in DOMAIN b.stmts : b.stmts[n].name = x /\ Updates(b.stmts[n])
           \/ e.op = "none"
      /\ \A e \in mine : e.kind = "write" => \E n \in DOMAIN b.stmts : BindsAs(b.stmts[n], x, e)
      /\ \A n \in DOMAIN b.stmts :
           LET st == b.stmts[n]
           IN  /\ st.name = x /\ st.kind = "aug" => \E e \in mine : e.kind = "aug" /\ e.op = st.op
               /\ st.name = x /\ st.kind \in {"assign", "move"} => \E e \in mine : e.kind = "write" /\ e.op = SelfOp(st)
               /\ st.name = x /\ st.kind = "walrus" => \E e \in mine : e.kind = "write"
               /\ x \in Needs(st) \ HiddenTo(st, LoopVar(b)) => \E e \in mine : e.kind = "read"

-----------------------------------------------------------------------------
(* The levels of a block *)

\* The powers of the divisor, up to the first past top.
Powers(top, d, m, g) == g = [k \in 0 .. m |-> IF k = 0 THEN 1 ELSE IF g[k - 1] > top THEN g[k - 1] ELSE d * g[k - 1]]

\* The level that starts at a.
Level(a) == [b |-> body, plan |-> Plans, ops |-> Ops, by |-> code.ops, lo |-> a, mid |-> Lo(2, a), hi |-> LevelEnd(a)]

-----------------------------------------------------------------------------
(* A block computes what its loop computes *)

\* What has run is what the loop has done up to here: at the start of a level
\* all of it, within one what its chunks have got to.
Computes ==
  /\ stage \in {"select", "decided"} => heap = StartHeap /\ scalars = StartNames /\ from = 0
  /\ stage \in {"run", "level"} =>
       /\ how # "WAVEFRONT" => from = 0
       /\ how = "WAVEFRONT" => body.step > 0
       /\ \A n \in Reductions(body) : scalars[n] = Steps(body)[from].local[n]
  /\ stage = "run" => heap = Steps(body)[from].heap /\ \A c \in Workers : frame[c] = AsFunction(body, heap)
  /\ stage = "level" => LevelOK(Level(from), heap, frame, at)
  /\ stage = "twin" => heap = StartHeap
  /\ stage # "end" => outcome = "none"
  /\ outcome = "done" => Same
Computing == /\ code.made => Supported(body)
             /\ Understood(body) => Computes

\* All that is known of a state.
Knows == Inv /\ Going /\ Computing /\ Understood(body)

\* The end of a level and the level are those of these parameters.
ThresholdOf(b, d, a) ==
  LET top == IF Elem(b, a) > 0 THEN Elem(b, a) ELSE 0
      power[k \in 0 .. top] == IF k = 0 THEN 1
                               ELSE IF power[k - 1] > top THEN power[k - 1] ELSE d * power[k - 1]
  IN  power[top]
EndOf(b, h, d, a) ==
  IF h # "WAVEFRONT" THEN N
  ELSE LET Below(p) == Elem(b, p) < ThresholdOf(b, d, a)
       IN  CHOOSE z \in a + 1 .. N : (z = N \/ ~Below(z)) /\ \A p \in a + 1 .. z - 1 : Below(p)
LevelOf(b, h, plan, ops, by, d, a) ==
  [b |-> b, plan |-> plan, ops |-> ops, by |-> by, lo |-> a, mid |-> a + CeilDiv(EndOf(b, h, d, a) - a, 2),
   hi |-> EndOf(b, h, d, a)]

=============================================================================
