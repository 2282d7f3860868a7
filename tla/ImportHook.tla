----------------------------- MODULE ImportHook -----------------------------
(***************************************************************************)
(* import_hook.py and support/cache.py: processes import modules of one    *)
(* project through the hook, which rewrites a marked module and keeps the  *)
(* rewrite in a cache the processes share.  An import reads the file, and  *)
(* on a miss rewrites it, writes the entry to a temporary file and renames *)
(* it into place; processes do so at the same time, the files are edited   *)
(* between and during their steps, and a process may die at any of them.   *)
(* The hash of a source is taken for the source itself, and the unlinking  *)
(* of a temporary file for a step that does not fail.                      *)
(***************************************************************************)
EXTENDS Integers, FiniteSets

CONSTANTS Importers,   (* processes                                         *)
          Modules,     (* the modules of the project, by their files        *)
          BaseOf,      (* the base name of each: packages may repeat one    *)
          Scope,       (* the modules [scope] leaves to the hook            *)
          Texts,       (* what a file may hold                              *)
          Initially,   (* the texts of the modules at first                 *)
          KindOf,      (* what the rewriter makes of each text, below       *)
          Versions,    (* of Lucen and of the interpreter, together         *)
          Confs,       (* how a process may be run, records of ConfType     *)
          Faults,      (* what the environment may do                       *)
          MaxImports, MaxEdits, MaxLosses,
          NoEntry, Torn

(***************************************************************************)
(* A text has no pragma at all ("bare"), pragmas but no block worth a call *)
(* ("idle"), a block the hook rewrites ("loop"), one with a break, which   *)
(* it rewrites for early_exit only ("breaks"), or a clause the scanner     *)
(* refuses ("illegal").                                                    *)
(***************************************************************************)
Kinds == {"bare", "idle", "loop", "breaks", "illegal"}

\* early: activate(["early_exit"]); disabled: LUCEN_DISABLE_CACHE.
ConfType == [version : Versions, early : BOOLEAN, disabled : BOOLEAN]
EntryType == [text : Texts, file : Modules, version : Versions, early : BOOLEAN]
KeyType == {BaseOf[m] : m \in Modules} \X Texts \X Versions

AllFaults == {"full", "crash", "power", "no_directory"}

ASSUME ImportHookAssumption ==
  /\ IsFiniteSet(Importers)
  /\ Modules # {} /\ Confs # {} /\ Confs \subseteq ConfType
  /\ Scope \subseteq Modules /\ Initially \subseteq [Modules -> Texts]
  /\ KindOf \in [Texts -> Kinds]
  /\ Faults \subseteq AllFaults
  /\ MaxImports \in Nat /\ MaxEdits \in Nat /\ MaxLosses \in Nat
  /\ NoEntry \notin EntryType /\ Torn \notin EntryType /\ Torn # NoEntry

VARIABLES file, edits,     \* the text of each module, how often one was edited
          disk,            \* the entry under each key, NoEntry or Torn
          blocked,         \* the cache directory cannot be made: fixed by Init
          litter,          \* orphaned temporary files
          crashes, losses, \* processes that died, power losses
          pc, conf, target, source, entry, temp,  \* of each importer
          imports, ran     \* how many it has begun, how the last one ended

importer == <<pc, conf, target, source, entry, temp, imports, ran>>
vars == <<file, edits, disk, blocked, litter, crashes, losses, importer>>

\* Mutant of Key: a new version of Lucen serves the entries of the old one.
KeyUnversioned(p) == <<BaseOf[target[p]], source[p], CHOOSE v \in Versions : TRUE>>
\* Mutant of Key: whatever the file holds.
KeySourceless(p) == <<BaseOf[target[p]], CHOOSE t \in Texts : TRUE, conf[p].version>>
Key(p) == <<BaseOf[target[p]], source[p], conf[p].version>>

\* Whether any block of the text is rewritten.
Rewrites(text, early) == KindOf[text] = "loop" \/ (KindOf[text] = "breaks" /\ early)

Init == /\ file \in Initially /\ edits = 0
        /\ disk = [k \in KeyType |-> NoEntry]
        /\ blocked \in {FALSE, "no_directory" \in Faults}
        /\ litter = 0 /\ crashes = 0 /\ losses = 0
        /\ pc = [p \in Importers |-> "idle"]
        /\ conf = [p \in Importers |-> CHOOSE c \in Confs : TRUE]
        /\ target = [p \in Importers |-> CHOOSE m \in Modules : TRUE]
        /\ source = [p \in Importers |-> file[target[p]]]
        /\ entry = [p \in Importers |-> NoEntry]
        /\ temp = [p \in Importers |-> "none"]
        /\ imports = [p \in Importers |-> 0]
        /\ ran = [p \in Importers |-> "none"]

-----------------------------------------------------------------------------
(* One import *)

Goes(p, from, to) == pc[p] = from /\ pc' = [pc EXCEPT ![p] = to]

\* A process runs with some configuration and imports a module.
Begin(p) == /\ imports[p] < MaxImports
            /\ Goes(p, "idle", "read")
            /\ \E c \in Confs, m \in Modules :
                 conf' = [conf EXCEPT ![p] = c] /\ target' = [target EXCEPT ![p] = m]
            /\ imports' = [imports EXCEPT ![p] = @ + 1]
            /\ entry' = [entry EXCEPT ![p] = NoEntry]
            /\ ran' = [ran EXCEPT ![p] = "none"]
            /\ UNCHANGED <<file, edits, disk, blocked, litter, crashes, losses, source, temp>>

\* The file is read, once.  What is out of scope or has no pragma is not the
\* hook's.
Read(p) == /\ LET text == file[target[p]]
              IN  /\ source' = [source EXCEPT ![p] = text]
                  /\ Goes(p, "read", IF target[p] \notin Scope \/ KindOf[text] = "bare" THEN "exec"
                                     ELSE IF conf[p].disabled THEN "rewrite" ELSE "load")
           /\ UNCHANGED <<file, edits, disk, blocked, litter, crashes, losses,
                          conf, target, entry, temp, imports, ran>>

\* A file that is missing or does not unpickle is no entry.
Load(p) == /\ LET found == disk[Key(p)]
              IN  IF found \in EntryType
                  THEN Goes(p, "load", "exec") /\ entry' = [entry EXCEPT ![p] = found]
                  ELSE Goes(p, "load", "rewrite") /\ UNCHANGED entry
           /\ UNCHANGED <<file, edits, disk, blocked, litter, crashes, losses,
                          conf, target, source, temp, imports, ran>>

\* What the rewriter makes of the source under the process's flags.
Made(p) == [text |-> source[p], file |-> target[p],
            version |-> conf[p].version, early |-> conf[p].early]

Rewrite(p) == /\ KindOf[source[p]] # "illegal"
              /\ Goes(p, "rewrite", IF conf[p].disabled THEN "exec" ELSE "open")
              /\ entry' = [entry EXCEPT ![p] = Made(p)]
              /\ UNCHANGED <<file, edits, disk, blocked, litter, crashes, losses,
                             conf, target, source, temp, imports, ran>>

\* A clause the scanner refuses ends the import, and is not cached.
Refuse(p) == /\ KindOf[source[p]] = "illegal"
             /\ Goes(p, "rewrite", "idle")
             /\ ran' = [ran EXCEPT ![p] = "clause_error"]
             /\ UNCHANGED <<file, edits, disk, blocked, litter, crashes, losses,
                            conf, target, source, entry, temp, imports>>

\* Mutant of Open: the entry is written where it is read.
OpenInPlace(p) == /\ ~blocked
                  /\ Goes(p, "open", "write")
                  /\ temp' = [temp EXCEPT ![p] = "partial"]
                  /\ disk' = [disk EXCEPT ![Key(p)] = Torn]
                  /\ UNCHANGED <<file, edits, blocked, litter, crashes, losses,
                                 conf, target, source, entry, imports, ran>>
\* The directory and a temporary file in it.
Open(p) == /\ ~blocked
           /\ Goes(p, "open", "write")
           /\ temp' = [temp EXCEPT ![p] = "partial"]
           /\ UNCHANGED <<file, edits, disk, blocked, litter, crashes, losses,
                          conf, target, source, entry, imports, ran>>

\* Neither makedirs nor mkstemp is in a try: the import fails.
OpenFails(p) == /\ blocked \/ "full" \in Faults
                /\ Goes(p, "open", "idle")
                /\ ran' = [ran EXCEPT ![p] = "os_error"]
                /\ UNCHANGED <<file, edits, disk, blocked, litter, crashes, losses,
                               conf, target, source, entry, temp, imports>>

Write(p) == /\ Goes(p, "write", "replace")
            /\ temp' = [temp EXCEPT ![p] = "whole"]
            /\ UNCHANGED <<file, edits, disk, blocked, litter, crashes, losses,
                           conf, target, source, entry, imports, ran>>

\* Mutant of WriteFails: the temporary file stays.
WriteFailsLittering(p) == /\ "full" \in Faults
                          /\ pc[p] \in {"write", "replace"}
                          /\ Goes(p, pc[p], "exec")
                          /\ temp' = [temp EXCEPT ![p] = "none"]
                          /\ litter' = litter + 1
                          /\ UNCHANGED <<file, edits, disk, blocked, crashes, losses,
                                         conf, target, source, entry, imports, ran>>
\* The write or the rename fails: the temporary file is unlinked, and the
\* entry is used without having been kept.
WriteFails(p) == /\ "full" \in Faults
                 /\ pc[p] \in {"write", "replace"}
                 /\ Goes(p, pc[p], "exec")
                 /\ temp' = [temp EXCEPT ![p] = "none"]
                 /\ UNCHANGED <<file, edits, disk, blocked, litter, crashes, losses,
                                conf, target, source, entry, imports, ran>>

\* The rename is one step, whoever reads or renames beside it.
Replace(p) == /\ Goes(p, "replace", "exec")
              /\ disk' = [disk EXCEPT ![Key(p)] = entry[p]]
              /\ temp' = [temp EXCEPT ![p] = "none"]
              /\ UNCHANGED <<file, edits, blocked, litter, crashes, losses,
                             conf, target, source, entry, imports, ran>>

\* How a module runs: its source as it is, with its calls into the
\* dispatcher, or, when a block has a break, up to the call: the call site
\* passes every parameter make_spec does not know, and _plx_exit is one.
Runs(p) == IF entry[p] = NoEntry THEN "plain"
           ELSE IF ~Rewrites(entry[p].text, entry[p].early) THEN "plain"
           ELSE IF KindOf[entry[p].text] = "breaks" THEN "name_error" ELSE "rewritten"

Exec(p) == /\ Goes(p, "exec", "idle")
           /\ ran' = [ran EXCEPT ![p] = Runs(p)]
           /\ UNCHANGED <<file, edits, disk, blocked, litter, crashes, losses,
                          conf, target, source, entry, temp, imports>>

-----------------------------------------------------------------------------
(* The environment *)

Orphans(S) == Cardinality({p \in S : temp[p] # "none"})

\* A process dies: its temporary file, if it had one, stays.
Crash(p) == /\ "crash" \in Faults
            /\ pc[p] # "idle"
            /\ pc' = [pc EXCEPT ![p] = "idle"]
            /\ litter' = litter + Orphans({p}) /\ crashes' = crashes + 1
            /\ temp' = [temp EXCEPT ![p] = "none"]
            /\ UNCHANGED <<file, edits, disk, blocked, losses, conf, target, source, entry, imports, ran>>

\* The machine stops: entries nobody had synced may be torn.
PowerLoss == /\ "power" \in Faults /\ losses < MaxLosses
             /\ losses' = losses + 1
             /\ \E torn \in SUBSET {k \in KeyType : disk[k] # NoEntry} :
                  disk' = [k \in KeyType |-> IF k \in torn THEN Torn ELSE disk[k]]
             /\ pc' = [p \in Importers |-> "idle"]
             /\ litter' = litter + Orphans(Importers)
             /\ crashes' = crashes + Cardinality({p \in Importers : pc[p] # "idle"})
             /\ temp' = [p \in Importers |-> "none"]
             /\ UNCHANGED <<file, edits, blocked, conf, target, source, entry, imports, ran>>

Edit == /\ edits < MaxEdits
        /\ edits' = edits + 1
        /\ \E m \in Modules, text \in Texts : file' = [file EXCEPT ![m] = text]
        /\ UNCHANGED <<disk, blocked, litter, crashes, losses, importer>>

Step(p) == \/ Read(p) \/ Load(p) \/ Rewrite(p) \/ Refuse(p) \/ Open(p) \/ OpenFails(p)
           \/ Write(p) \/ WriteFails(p) \/ Replace(p) \/ Exec(p)

\* Nobody has an import left.
Over == /\ \A p \in Importers : pc[p] = "idle" /\ imports[p] = MaxImports
        /\ UNCHANGED vars

Next == \/ \E p \in Importers : Begin(p) \/ Step(p) \/ Crash(p)
        \/ PowerLoss \/ Edit \/ Over

Spec == Init /\ [][Next]_vars

-----------------------------------------------------------------------------
TypeOK == /\ file \in [Modules -> Texts] /\ edits \in 0 .. MaxEdits
          /\ disk \in [KeyType -> EntryType \cup {NoEntry, Torn}]
          /\ blocked \in BOOLEAN
          /\ litter \in Nat /\ crashes \in Nat /\ losses \in 0 .. MaxLosses
          /\ pc \in [Importers -> {"idle", "read", "load", "rewrite", "open", "write", "replace", "exec"}]
          /\ conf \in [Importers -> Confs]
          /\ target \in [Importers -> Modules]
          /\ source \in [Importers -> Texts]
          /\ entry \in [Importers -> EntryType \cup {NoEntry}]
          /\ temp \in [Importers -> {"none", "partial", "whole"}]
          /\ imports \in [Importers -> 0 .. MaxImports]
          /\ ran \in [Importers -> {"none", "plain", "rewritten", "name_error", "clause_error", "os_error"}]

\* Whatever the cache held and whoever wrote it, what a process runs was made
\* from the text it read and by its own version of Lucen and Python ("keyed by
\* source content hash, Lucen version, and interpreter version", docs/spec).
RunsItsSource ==
  \A p \in Importers : entry[p] # NoEntry =>
    entry[p].text = source[p] /\ entry[p].version = conf[p].version

\* A module the hook owns and can rewrite never runs as if it were not marked.
NeverLeftPlain ==
  \A p \in Importers :
    ran[p] = "plain" /\ target[p] \in Scope => KindOf[source[p]] # "loop"

\* "Written atomically": only a power loss tears an entry, however many
\* processes write one at once and wherever they die.
TornByPowerOnly == losses = 0 => \A k \in KeyType : disk[k] # Torn

\* A temporary file is left behind only by a process that died with it.
LitterFromCrashesOnly == litter <= crashes

\* "allow_experimental = false ... vetoes all three for the project"
\* (docs/pragmas.md): a process without the flag runs the loop as it is.
VetoHolds == \A p \in Importers : ran[p] = "name_error" => conf[p].early
=============================================================================
