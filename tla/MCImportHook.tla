---------------------------- MODULE MCImportHook ----------------------------
(***************************************************************************)
(* Values for the constants of ImportHook.                                 *)
(***************************************************************************)
EXTENDS ImportHook, TLC

\* Two packages with a module of the same name, and one out of scope.
MCModules == {"a/util", "b/util", "other"}
MCBaseOf == [m \in MCModules |-> IF m = "other" THEN "other" ELSE "util"]
MCScope == {"a/util", "b/util"}
MCTexts == {"bare", "idle", "loop", "breaks", "illegal"}
MCKindOf == [t \in MCTexts |-> t]
Holding(a, b) == [m \in MCModules |-> CASE m = "a/util" -> a [] m = "b/util" -> b [] m = "other" -> "loop"]
MCInitially == {Holding("loop", "loop"), Holding("breaks", "idle"), Holding("bare", "illegal")}

\* Two versions, one of them with early_exit, and the cache disabled.
Conf(v, e, d) == [version |-> v, early |-> e, disabled |-> d]
MCConfs == {Conf(1, FALSE, FALSE), Conf(2, TRUE, FALSE), Conf(1, FALSE, TRUE)}
Vetoes == {Conf(1, FALSE, FALSE), Conf(1, TRUE, FALSE)}
Symmetry == Permutations(Importers)
=============================================================================
