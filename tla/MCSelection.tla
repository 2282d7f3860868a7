---------------------------- MODULE MCSelection ----------------------------
(* Bodies of one to three statements for the selection pipeline. *)
EXTENDS Selection

MCN == 5
MCKeys == -2 .. 6

Var(n) == [form |-> "var", name |-> n, by |-> 0]
By(form, c) == [form |-> form, name |-> "i", by |-> c]
Of(c, ix) == [name |-> c, ix |-> ix]
X == Of("xs", Var("i"))
Y == Of("ys", Var("i"))
Bare(n) == Of(n, Whole)

Assign(n, us) == [Stmt EXCEPT !.name = n, !.uses = us]
Accumulate(n, form, op) == [Assign(n, <<X>>) EXCEPT !.form = form, !.op = op]
Aug(n, us) == [Assign(n, us) EXCEPT !.kind = "aug"]
Walrus(n) == [Assign(n, <<X>>) EXCEPT !.kind = "walrus"]
Move(n, ix) == [Stmt EXCEPT !.kind = "move", !.name = n, !.ix = ix]
Write(kind, c, ix, us) == [Stmt EXCEPT !.kind = kind, !.base = c, !.ix = ix, !.uses = us]
Store(c, ix, us) == Write("store", c, ix, us)
If == [Stmt EXCEPT !.kind = "if", !.uses = <<X>>]
For(empty) == [Stmt EXCEPT !.kind = "for", !.name = "k", !.empty = empty]
In(arm, st) == [st EXCEPT !.arm = arm]

\* Statements with the element v of an enumerate, and those without.
OnValues == {Store("ds", Var("v"), <<Bare("v")>>), Write("augstore", "ds", Var("v"), <<X>>)}
OnIndex == {Store("ys", Var("i"), <<X>>), Store("ys", Var("i"), <<Y, Bare("t")>>),
            Write("augstore", "ys", Var("i"), <<X>>),
            Store("ys", Var("i"), <<Of("ys", By("less", 1))>>),
            Store("ys", Var("i"), <<Of("ys", By("div", 2))>>),
            Store("ys", Var("i"), <<Of("ys", By("mod", 4))>>),
            Store("ys", By("mod", 3), <<X>>), Store("ys", By("lit", 2), <<X>>),
            Write("mutate", "ys", Var("i"), <<X>>),
            Write("nested", "ys", Var("i"), <<X>>)}
OnNames == {Aug("t", <<X>>), Accumulate("t", "left", "+"), Accumulate("t", "left", "max"),
            Assign("t", <<X>>), Assign("u", <<Bare("t")>>), Aug("u", <<Bare("t")>>)}
Misread == {Store("ys", Var("i"), <<Bare("ys")>>), Accumulate("t", "right", "+"), Walrus("t"),
            Move("i", By("div", 2)), Write("opaque", "ds", Whole, <<X>>),
            Write("augnested", "ys", Var("i"), <<X>>), Write("nested", "ds", Var("v"), <<X>>)}
Atoms == OnValues \cup OnIndex \cup OnNames

Tagged(ss) == [n \in DOMAIN ss |-> [ss[n] EXCEPT !.tag = n]]
Block(domain, ss) == [domain |-> domain, first |-> 0, step |-> 1,
                      values |-> [p \in 0 .. MCN - 1 |-> p], stmts |-> Tagged(ss),
                      depend |-> "none given", strict |-> FALSE, backend |-> "any", sensitive |-> FALSE]

Pairs == {Block("enumerate", <<a, b>>) : a \in Atoms, b \in Atoms}
Arms == {Block("enumerate", <<If, In("then", a), In("else", b)>>) :
           a \in OnIndex \cup OnValues, b \in OnIndex \cup OnNames}
Threes == {Block("enumerate", <<a, If, In("then", b), In("else", c)>>) :
             a \in OnNames, b \in OnIndex \cup OnValues, c \in Atoms}
          \cup {Block("enumerate", <<If, In("then", a), b>>) : a \in Atoms, b \in Atoms}
Loops == {Block("enumerate", <<a, For(e), In("loop", b)>>) : a \in OnNames, b \in Atoms, e \in BOOLEAN}
Singles == {Block("enumerate", <<a>>) : a \in Atoms \cup Misread}
\* Arms that disagree, values met twice, with what is asserted of them.
Conflicting == {[Block("enumerate", ss) EXCEPT !.depend = d, !.sensitive = s, !.strict = st,
                                               !.values = [p \in 0 .. MCN - 1 |-> p \div w]] :
                  d \in {"none given", "none"}, s \in BOOLEAN, st \in BOOLEAN, w \in {1, 2, 3},
                  ss \in {<<If, In("then", Store("ds", Var("v"), <<X>>)), In("else", Store("ds", Var("i"), <<X>>))>>,
                          <<If, In("then", Store("ds", Var("v"), <<X>>)), In("else", Store("ds", By("lit", 0), <<X>>))>>,
                          <<Store("ds", Var("v"), <<X>>), Aug("t", <<X>>)>>,
                          <<Store("ds", By("mod", 3), <<X>>)>>, <<Store("ys", By("div", 3), <<Of("ys", By("lit", 0))>>)>>,
                          <<Write("mutate", "ys", Var("i"), <<X>>), Store("ds", Var("v"), <<X>>)>>,
                          <<Store("ys", Var("i"), <<Of("ys", By("div", 2))>>), Store("ds", Var("v"), <<X>>)>>}}
Ranges == {[Block("range", <<a>>) EXCEPT !.first = fs[1], !.step = fs[2]] :
             a \in OnIndex \cup OnNames, fs \in {<<1, 1>>, <<-1, 1>>, <<3, -1>>}}
Elements == {Block("sequence", <<[a EXCEPT !.uses = <<Bare("v")>>]>>) : a \in OnValues \cup OnNames}
Left == {Block("enumerate", <<Store("ys", Var("i"), <<X>>), [Stmt EXCEPT !.kind = k]>>) : k \in {"break", "return"}}
        \cup {[Block("range", <<Store("ys", Var("i"), <<X>>)>>) EXCEPT !.backend = "sequential"]}
\* Bodies the analysis is wrong about, on their own and beside another.
Rows == {Block("range", <<Write("augnested", "ys", Var("i"), <<X>>)>>)}
SharedRows == {[Block("enumerate", ss) EXCEPT !.values = [p \in 0 .. MCN - 1 |-> 0]] :
                 ss \in {<<Write("nested", "ds", Var("v"), <<X>>)>>}}
Confused == {Block("enumerate", <<a, b>>) : a \in Misread, b \in Atoms}
            \cup {[Block("enumerate", <<a, b>>) EXCEPT !.depend = "none"] : a \in Misread, b \in OnIndex}
            \cup {Block("range", <<[For(FALSE) EXCEPT !.name = "i"], In("loop", Store("ys", Var("i"), <<X>>))>> \o rest) :
                   rest \in {<<>>, <<Aug("u", <<X>>)>>}}
            \cup {Block("enumerate", <<For(TRUE), Store("ys", Var("i"), <<Bare("k")>>)>>),
                  Block("enumerate", <<Walrus("t"), Store("ys", Var("i"), <<Bare("t")>>)>>)}

MCBodies == Pairs \cup Arms \cup Threes \cup Loops \cup Singles \cup Conflicting \cup Ranges \cup Elements
            \cup Left \cup Rows \cup SharedRows \cup Confused
=============================================================================
