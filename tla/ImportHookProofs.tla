-------------------------- MODULE ImportHookProofs --------------------------
(***************************************************************************)
(* The import hook and its cache, for any number of processes, modules,    *)
(* texts, versions, edits, crashes and power losses: what a process runs   *)
(* was made from the text it read (Sourced), a marked loop is never run as *)
(* if it were not marked (Marked), nothing but a power loss tears an entry *)
(* (Whole) and nothing but a death leaves a file behind (Clean).           *)
(*                                                                         *)
(* RunsItsSource is not inductive: an importer takes what the disk holds,  *)
(* and the disk what an importer made.  Honest says both, and what each    *)
(* stage of an import has already got.                                     *)
(***************************************************************************)
EXTENDS ImportHook, FiniteSetTheorems, TLAPS

\* Every entry on the disk was made from the text and by the version of its key.
DiskHonest ==
  \A k \in KeyType : disk[k] \in EntryType => disk[k].text = k[2] /\ disk[k].version = k[3]

\* Before the file is read there is no entry, when it is stored there is one,
\* and what is to run with none is not marked or not the hook's.
Stages ==
  \A p \in Importers :
    /\ pc[p] \in {"read", "load", "rewrite"} => entry[p] = NoEntry
    /\ pc[p] \in {"open", "write", "replace"} => entry[p] # NoEntry
    /\ pc[p] = "exec" /\ entry[p] = NoEntry => target[p] \notin Scope \/ KindOf[source[p]] = "bare"
    /\ pc[p] # "idle" => ran[p] = "none"

Honest == TypeOK /\ DiskHonest /\ Stages /\ RunsItsSource

-----------------------------------------------------------------------------
\* The disk is keyed by the text and the version the importer has.
LEMMA KeyTyped ==
  ASSUME TypeOK, NEW p \in Importers
  PROVE  /\ Key(p) \in KeyType
         /\ Key(p)[2] = source[p] /\ Key(p)[3] = conf[p].version
BY ImportHookAssumption DEF TypeOK, Key, KeyType, ConfType

\* A rewrite is an entry of the text and version its process has.
LEMMA MadeTyped ==
  ASSUME TypeOK, NEW p \in Importers
  PROVE  /\ Made(p) \in EntryType /\ Made(p) # NoEntry
         /\ Made(p).text = source[p] /\ Made(p).version = conf[p].version
BY ImportHookAssumption DEF TypeOK, Made, EntryType, ConfType

\* Orphans are counted by a number.
LEMMA OrphansTyped ==
  ASSUME NEW S \in SUBSET Importers PROVE Orphans(S) \in Nat
<1>1. {p \in S : temp[p] # "none"} \subseteq Importers
  OBVIOUS
<1>2. IsFiniteSet({p \in S : temp[p] # "none"})
  BY <1>1, ImportHookAssumption, FS_Subset
<1> QED
  BY <1>2, FS_CardinalityType DEF Orphans

-----------------------------------------------------------------------------
(* Types *)

\* The initial states have their types.
LEMMA TypeInit == Init => TypeOK
<1> SUFFICES ASSUME Init PROVE TypeOK
  OBVIOUS
<1> USE ImportHookAssumption DEF Init
<1>1. file \in [Modules -> Texts]
  OBVIOUS
<1>2. source \in [Importers -> Texts]
  BY <1>1
<1>3. conf \in [Importers -> Confs] /\ target \in [Importers -> Modules]
  OBVIOUS
<1>4. blocked \in BOOLEAN
  <2>1. blocked \in {FALSE, "no_directory" \in Faults}
    BY DEF Init
  <2>2. CASE "no_directory" \in Faults
    <3>1. ("no_directory" \in Faults) = TRUE
      BY ONLY <2>2
    <3> QED
      BY ONLY <2>1, <3>1
  <2>3. CASE "no_directory" \notin Faults
    <3>1. ("no_directory" \in Faults) = FALSE
      BY ONLY <2>3
    <3> QED
      BY ONLY <2>1, <3>1
  <2> QED
    BY ONLY <2>2, <2>3
<1>5. disk \in [KeyType -> EntryType \cup {NoEntry, Torn}]
  OBVIOUS
<1>6. entry \in [Importers -> EntryType \cup {NoEntry}] /\ imports \in [Importers -> 0 .. MaxImports]
  OBVIOUS
<1>7. edits \in 0 .. MaxEdits /\ losses \in 0 .. MaxLosses /\ litter \in Nat /\ crashes \in Nat
  OBVIOUS
<1> QED
  BY <1>1, <1>2, <1>3, <1>4, <1>5, <1>6, <1>7 DEF TypeOK

\* Every step keeps them.
LEMMA TypeStep == TypeOK /\ [Next]_vars => TypeOK'
<1> SUFFICES ASSUME TypeOK, [Next]_vars PROVE TypeOK'
  OBVIOUS
<1> USE DEF TypeOK
<1>1. ASSUME NEW p \in Importers, Begin(p) PROVE TypeOK'
  BY <1>1, ImportHookAssumption DEF Begin, Goes
<1>2. ASSUME NEW p \in Importers, Read(p) PROVE TypeOK'
  BY <1>2 DEF Read, Goes
<1>3. ASSUME NEW p \in Importers, Load(p) PROVE TypeOK'
  BY <1>3 DEF Load, Goes
<1>4. ASSUME NEW p \in Importers, Rewrite(p) PROVE TypeOK'
  BY <1>4, MadeTyped DEF Rewrite, Goes
<1>5. ASSUME NEW p \in Importers, Refuse(p) PROVE TypeOK'
  BY <1>5 DEF Refuse, Goes
<1>6. ASSUME NEW p \in Importers, Open(p) PROVE TypeOK'
  BY <1>6 DEF Open, Goes
<1>7. ASSUME NEW p \in Importers, OpenFails(p) PROVE TypeOK'
  BY <1>7 DEF OpenFails, Goes
<1>8. ASSUME NEW p \in Importers, Write(p) PROVE TypeOK'
  BY <1>8 DEF Write, Goes
<1>9. ASSUME NEW p \in Importers, WriteFails(p) PROVE TypeOK'
  BY <1>9 DEF WriteFails, Goes
<1>10. ASSUME NEW p \in Importers, Replace(p) PROVE TypeOK'
  BY <1>10, KeyTyped DEF Replace, Goes
<1>11. ASSUME NEW p \in Importers, Exec(p) PROVE TypeOK'
  <2>1. Runs(p) \in {"plain", "rewritten", "name_error"}
    BY DEF Runs
  <2> QED
    BY <1>11, <2>1 DEF Exec, Goes
<1>12. ASSUME NEW p \in Importers, Crash(p) PROVE TypeOK'
  BY <1>12, OrphansTyped DEF Crash
<1>13. CASE PowerLoss
  <2>1. litter' \in Nat
    BY <1>13, OrphansTyped DEF PowerLoss
  <2>2. Cardinality({p \in Importers : pc[p] # "idle"}) \in Nat
    <3>1. IsFiniteSet({p \in Importers : pc[p] # "idle"})
      BY ImportHookAssumption, FS_Subset
    <3> QED
      BY <3>1, FS_CardinalityType
  <2>3. disk' \in [KeyType -> EntryType \cup {NoEntry, Torn}] /\ losses' \in 0 .. MaxLosses
    BY <1>13, ImportHookAssumption DEF PowerLoss
  <2> QED
    BY <1>13, <2>1, <2>2, <2>3 DEF PowerLoss
<1>14. CASE Edit
  BY <1>14, ImportHookAssumption DEF Edit, importer
<1>15. CASE UNCHANGED vars \/ Over
  BY <1>15 DEF vars, importer, Over
<1> QED
  BY <1>1, <1>2, <1>3, <1>4, <1>5, <1>6, <1>7, <1>8, <1>9, <1>10, <1>11, <1>12, <1>13, <1>14, <1>15 DEF Next, Step

-----------------------------------------------------------------------------
(* What the cache holds and what an import has *)

LEMMA HonestInit == Init => Honest
<1> SUFFICES ASSUME Init PROVE Honest
  OBVIOUS
<1>1. TypeOK
  BY TypeInit
<1>2. DiskHonest
  BY ImportHookAssumption DEF Init, DiskHonest
<1>3. Stages /\ RunsItsSource
  BY DEF Init, Stages, RunsItsSource
<1> QED
  BY <1>1, <1>2, <1>3 DEF Honest

\* An importer takes from the disk what its key names, and puts there what the
\* key it has names.
LEMMA HonestStep == Honest /\ [Next]_vars => Honest'
<1> SUFFICES ASSUME Honest, [Next]_vars PROVE DiskHonest' /\ Stages' /\ RunsItsSource'
  BY TypeStep DEF Honest
<1> USE DEF Honest
<1>1. ASSUME NEW p \in Importers, Begin(p) PROVE DiskHonest' /\ Stages' /\ RunsItsSource'
  BY <1>1 DEF Begin, Goes, DiskHonest, Stages, RunsItsSource, TypeOK
<1>2. ASSUME NEW p \in Importers, Read(p) PROVE DiskHonest' /\ Stages' /\ RunsItsSource'
  BY <1>2 DEF Read, Goes, DiskHonest, Stages, RunsItsSource, TypeOK
<1>3. ASSUME NEW p \in Importers, Load(p) PROVE DiskHonest' /\ Stages' /\ RunsItsSource'
  <2>1. disk[Key(p)] \in EntryType =>
          disk[Key(p)].text = source[p] /\ disk[Key(p)].version = conf[p].version
    BY KeyTyped DEF DiskHonest
  <2>2. DiskHonest'
    BY <1>3 DEF Load, DiskHonest
  <2>3. RunsItsSource'
    BY <1>3, <2>1 DEF Load, RunsItsSource, TypeOK
  <2>4. Stages'
    BY <1>3, ImportHookAssumption DEF Load, Goes, Stages, TypeOK
  <2> QED
    BY <2>2, <2>3, <2>4
<1>4. ASSUME NEW p \in Importers, Rewrite(p) PROVE DiskHonest' /\ Stages' /\ RunsItsSource'
  BY <1>4, MadeTyped DEF Rewrite, Goes, DiskHonest, Stages, RunsItsSource, TypeOK
<1>5. ASSUME NEW p \in Importers, Refuse(p) PROVE DiskHonest' /\ Stages' /\ RunsItsSource'
  BY <1>5 DEF Refuse, Goes, DiskHonest, Stages, RunsItsSource, TypeOK
<1>6. ASSUME NEW p \in Importers, Open(p) PROVE DiskHonest' /\ Stages' /\ RunsItsSource'
  BY <1>6 DEF Open, Goes, DiskHonest, Stages, RunsItsSource, TypeOK
<1>7. ASSUME NEW p \in Importers, OpenFails(p) PROVE DiskHonest' /\ Stages' /\ RunsItsSource'
  BY <1>7 DEF OpenFails, Goes, DiskHonest, Stages, RunsItsSource, TypeOK
<1>8. ASSUME NEW p \in Importers, Write(p) PROVE DiskHonest' /\ Stages' /\ RunsItsSource'
  BY <1>8 DEF Write, Goes, DiskHonest, Stages, RunsItsSource, TypeOK
<1>9. ASSUME NEW p \in Importers, WriteFails(p) PROVE DiskHonest' /\ Stages' /\ RunsItsSource'
  BY <1>9 DEF WriteFails, Goes, DiskHonest, Stages, RunsItsSource, TypeOK
<1>10. ASSUME NEW p \in Importers, Replace(p) PROVE DiskHonest' /\ Stages' /\ RunsItsSource'
  <2>1. entry[p] # NoEntry
    BY <1>10 DEF Replace, Goes, Stages
  <2>2. DiskHonest'
    BY <1>10, <2>1, KeyTyped DEF Replace, DiskHonest, RunsItsSource, TypeOK
  <2>3. Stages' /\ RunsItsSource'
    BY <1>10, <2>1 DEF Replace, Goes, Stages, RunsItsSource, TypeOK
  <2> QED
    BY <2>2, <2>3
<1>11. ASSUME NEW p \in Importers, Exec(p) PROVE DiskHonest' /\ Stages' /\ RunsItsSource'
  BY <1>11 DEF Exec, Goes, DiskHonest, Stages, RunsItsSource, TypeOK
<1>12. ASSUME NEW p \in Importers, Crash(p) PROVE DiskHonest' /\ Stages' /\ RunsItsSource'
  BY <1>12 DEF Crash, DiskHonest, Stages, RunsItsSource, TypeOK
<1>13. CASE PowerLoss
  <2>1. DiskHonest'
    BY <1>13, ImportHookAssumption DEF PowerLoss, DiskHonest
  <2>2. Stages' /\ RunsItsSource'
    BY <1>13 DEF PowerLoss, Stages, RunsItsSource, TypeOK
  <2> QED
    BY <2>1, <2>2
<1>14. CASE Edit
  BY <1>14 DEF Edit, importer, DiskHonest, Stages, RunsItsSource
<1>15. CASE UNCHANGED vars \/ Over
  BY <1>15 DEF vars, importer, Over, DiskHonest, Stages, RunsItsSource
<1> QED
  BY <1>1, <1>2, <1>3, <1>4, <1>5, <1>6, <1>7, <1>8, <1>9, <1>10, <1>11, <1>12, <1>13, <1>14, <1>15 DEF Next, Step

\* Every variable keeps its type, whatever the processes and the machine do.
THEOREM TypeCorrect == Spec => []TypeOK
<1>1. Init => TypeOK
  BY TypeInit
<1>2. TypeOK /\ [Next]_vars => TypeOK'
  BY TypeStep
<1> QED
  BY <1>1, <1>2, PTL DEF Spec

LEMMA AlwaysHonest == Spec => []Honest
<1>1. Init => Honest
  BY HonestInit
<1>2. Honest /\ [Next]_vars => Honest'
  BY HonestStep
<1> QED
  BY <1>1, <1>2, PTL DEF Spec

\* RunsItsSource: nobody is served a rewrite of another text than the one it
\* read, or one by another version, however the importers race and die.
THEOREM Sourced == Spec => []RunsItsSource
<1>1. Honest => RunsItsSource
  BY DEF Honest
<1> QED
  BY <1>1, AlwaysHonest, PTL

-----------------------------------------------------------------------------
(* Marked loops *)

\* What is run with an entry, or without one, is not a marked loop left plain.
LEMMA ExecMarked ==
  ASSUME Honest, NEW p \in Importers, Exec(p), target[p] \in Scope, KindOf[source[p]] = "loop"
  PROVE  Runs(p) # "plain"
<1>1. pc[p] = "exec"
  BY DEF Exec, Goes
<1>2. entry[p] # NoEntry
  BY <1>1 DEF Honest, Stages
<1>3. entry[p].text = source[p]
  BY <1>2 DEF Honest, RunsItsSource
<1> QED
  BY <1>2, <1>3 DEF Runs, Rewrites

LEMMA MarkedStep == Honest /\ NeverLeftPlain /\ [Next]_vars => NeverLeftPlain'
<1> SUFFICES ASSUME Honest, NeverLeftPlain, [Next]_vars PROVE NeverLeftPlain'
  OBVIOUS
<1> USE DEF NeverLeftPlain
<1>0. TypeOK
  BY DEF Honest
<1>1. ASSUME NEW p \in Importers, Begin(p) PROVE NeverLeftPlain'
  BY <1>0, <1>1 DEF Begin, TypeOK
<1>2. ASSUME NEW p \in Importers, Read(p) PROVE NeverLeftPlain'
  <2>1. ran[p] = "none"
    BY <1>2 DEF Read, Goes, Honest, Stages
  <2> QED
    BY <1>0, <1>2, <2>1 DEF Read, TypeOK
<1>3. ASSUME NEW p \in Importers,
             Load(p) \/ Rewrite(p) \/ Open(p) \/ Write(p) \/ WriteFails(p) \/ Replace(p) \/ Crash(p)
      PROVE  UNCHANGED <<ran, target, source>>
  BY <1>3 DEF Load, Rewrite, Open, Write, WriteFails, Replace, Crash
<1>4. ASSUME NEW p \in Importers, Refuse(p) \/ OpenFails(p) PROVE NeverLeftPlain'
  BY <1>0, <1>4 DEF Refuse, OpenFails, TypeOK
<1>5. ASSUME NEW p \in Importers, Exec(p) PROVE NeverLeftPlain'
  BY <1>0, <1>5, ExecMarked DEF Exec, TypeOK
<1>6. CASE PowerLoss \/ Edit \/ Over \/ UNCHANGED vars
  BY <1>6 DEF PowerLoss, Edit, Over, vars, importer
<1> QED
  BY <1>1, <1>2, <1>3, <1>4, <1>5, <1>6 DEF Next, Step

\* NeverLeftPlain: a marked loop of a module the hook owns is never run as if
\* it were not marked.
THEOREM Marked == Spec => []NeverLeftPlain
<1>1. Init => NeverLeftPlain
  BY DEF Init, NeverLeftPlain
<1>2. Honest /\ NeverLeftPlain /\ [Next]_vars => NeverLeftPlain'
  BY MarkedStep
<1> QED
  BY <1>1, <1>2, AlwaysHonest, PTL DEF Spec

-----------------------------------------------------------------------------
(* Entries and temporary files *)

\* Only a rename writes an entry, and what it renames is one.
LEMMA WholeStep == Honest /\ TornByPowerOnly /\ [Next]_vars => TornByPowerOnly'
<1> SUFFICES ASSUME Honest, TornByPowerOnly, [Next]_vars PROVE TornByPowerOnly'
  OBVIOUS
<1> USE DEF TornByPowerOnly
<1>1. ASSUME NEW p \in Importers, Replace(p) PROVE TornByPowerOnly'
  <2>1. entry[p] \in EntryType
    BY <1>1 DEF Replace, Goes, Honest, Stages, TypeOK
  <2> QED
    BY <1>1, <2>1, ImportHookAssumption DEF Replace, Honest, TypeOK
<1>2. CASE PowerLoss
  <2>1. losses' # 0
    BY <1>2 DEF PowerLoss, Honest, TypeOK
  <2> QED
    BY <2>1
<1>3. CASE UNCHANGED <<disk, losses>>
  BY <1>3
<1> QED
  BY <1>1, <1>2, <1>3 DEF Next, Step, Begin, Read, Load, Rewrite, Refuse, Open, OpenFails, Write,
       WriteFails, Exec, Crash, Edit, Over, vars

\* TornByPowerOnly: however many processes store one entry at once, and
\* wherever they die, a reader finds a whole entry or none.
THEOREM Whole == Spec => []TornByPowerOnly
<1>1. Init => TornByPowerOnly
  BY ImportHookAssumption DEF Init, TornByPowerOnly
<1>2. Honest /\ TornByPowerOnly /\ [Next]_vars => TornByPowerOnly'
  BY WholeStep
<1> QED
  BY <1>1, <1>2, AlwaysHonest, PTL DEF Spec

\* A temporary file belongs to a process that is storing.
Owned == \A p \in Importers : pc[p] \notin {"write", "replace"} => temp[p] = "none"

LEMMA OwnedStep == TypeOK /\ Owned /\ [Next]_vars => Owned'
<1> SUFFICES ASSUME TypeOK, Owned, [Next]_vars PROVE Owned'
  OBVIOUS
<1> USE DEF TypeOK, Owned
<1>1. ASSUME NEW p \in Importers, Begin(p) \/ Read(p) \/ Load(p) \/ Rewrite(p) \/ Refuse(p) \/ OpenFails(p)
      PROVE  Owned'
  BY <1>1 DEF Begin, Read, Load, Rewrite, Refuse, OpenFails, Goes
<1>2. ASSUME NEW p \in Importers,
             Open(p) \/ Write(p) \/ WriteFails(p) \/ Replace(p) \/ Exec(p) \/ Crash(p)
      PROVE  Owned'
  BY <1>2 DEF Open, Write, WriteFails, Replace, Exec, Crash, Goes
<1>3. CASE PowerLoss \/ Edit \/ Over \/ UNCHANGED vars
  BY <1>3 DEF PowerLoss, Edit, Over, vars, importer
<1> QED
  BY <1>1, <1>2, <1>3 DEF Next, Step

\* A process that dies leaves one file at most.
LEMMA OneOrphan ==
  ASSUME NEW p \in Importers PROVE Orphans({p}) <= 1
<1>1. IsFiniteSet({p}) /\ Cardinality({p}) = 1
  BY FS_Singleton
<1>2. Cardinality({q \in {p} : temp[q] # "none"}) <= Cardinality({p})
  BY <1>1, FS_Subset
<1> QED
  BY <1>1, <1>2 DEF Orphans

\* When the machine stops, no more files stay than processes were at work.
LEMMA OrphansOfAll ==
  ASSUME TypeOK, Owned
  PROVE  Orphans(Importers) <= Cardinality({p \in Importers : pc[p] # "idle"})
<1> DEFINE atWork == {p \in Importers : pc[p] # "idle"}
           owning == {p \in Importers : temp[p] # "none"}
<1>1. IsFiniteSet(atWork)
  BY ImportHookAssumption, FS_Subset
<1>2. owning \subseteq atWork
  BY DEF Owned, TypeOK
<1>3. Cardinality(owning) <= Cardinality(atWork)
  BY ONLY <1>1, <1>2, FS_Subset
<1> QED
  BY <1>3 DEF Orphans

LEMMA CleanStep ==
  TypeOK /\ Owned /\ LitterFromCrashesOnly /\ [Next]_vars => LitterFromCrashesOnly'
<1> SUFFICES ASSUME TypeOK, Owned, LitterFromCrashesOnly, [Next]_vars PROVE LitterFromCrashesOnly'
  OBVIOUS
<1> USE DEF LitterFromCrashesOnly
<1>0. litter \in Nat /\ crashes \in Nat
  BY DEF TypeOK
<1>1. ASSUME NEW p \in Importers, Crash(p) PROVE LitterFromCrashesOnly'
  BY <1>0, <1>1, OneOrphan, OrphansTyped DEF Crash
<1>2. CASE PowerLoss
  <2>1. Cardinality({p \in Importers : pc[p] # "idle"}) \in Nat
    <3>1. IsFiniteSet({p \in Importers : pc[p] # "idle"})
      BY ImportHookAssumption, FS_Subset
    <3> QED
      BY <3>1, FS_CardinalityType
  <2> QED
    BY <1>0, <1>2, <2>1, OrphansOfAll, OrphansTyped DEF PowerLoss
<1>3. CASE UNCHANGED <<litter, crashes>>
  BY <1>3
<1> QED
  BY <1>1, <1>2, <1>3 DEF Next, Step, Begin, Read, Load, Rewrite, Refuse, Open, OpenFails, Write,
       WriteFails, Replace, Exec, Edit, Over, vars

\* LitterFromCrashesOnly: a file that was never renamed was a dead process's.
THEOREM Clean == Spec => []LitterFromCrashesOnly
<1>1. Init => Owned /\ LitterFromCrashesOnly
  BY DEF Init, Owned, LitterFromCrashesOnly
<1>2. TypeOK /\ Owned /\ LitterFromCrashesOnly /\ [Next]_vars => Owned' /\ LitterFromCrashesOnly'
  BY OwnedStep, CleanStep
<1> QED
  BY <1>1, <1>2, TypeCorrect, PTL DEF Spec
=============================================================================
