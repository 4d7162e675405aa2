-------------------------- MODULE KitInstallation --------------------------
(***************************************************************************)
(* Installing, repairing and uninstalling the editor kit (scripts/lib:     *)
(* install/apply.js, install-executor.js, install-lifecycle.js,            *)
(* install-state.js).  An installation copies the files of the modules     *)
(* that were asked for, rewrites two of them for the machine, and records  *)
(* its operations in the install state; the doctor compares, repair copies *)
(* again what is missing or differs, uninstall takes back what is          *)
(* recorded.  Nothing locks: commands of several editors interleave, and   *)
(* a command that fails stops where it is.                                 *)
(*                                                                         *)
(* A module is its one destination.  Older states also record operations   *)
(* of other kinds: a template, a merge into a JSON file, a removal.        *)
(***************************************************************************)
EXTENDS Integers, FiniteSets

CONSTANTS Procs,   \* commands
          Dests,   \* destination paths
          Kind,    \* the kind of operation that makes each
          Fitted   \* destinations rewritten after the copy: hooks.json, mcp.json

VARIABLES
  env,     \* commands, faults, kills, edits and the upgrade to come
  disk,    \* the files, the install state, what the kit's repository ships
  procs,   \* what each command is doing
  past     \* whether commands overlapped, failed or were cut off

vars == <<env, disk, procs, past>>

Kinds == {"copy-file", "render-template", "merge-json", "remove"}
Contents == {"none", "user", "raw", "fitted", "both"}  \* both: a JSON file with keys of both
NoState == [is |-> "none", ops |-> {}, select |-> {}]
States == [is : {"none", "torn", "valid"}, ops : SUBSET Dests, select : SUBSET Dests]

Idle == [step |-> "idle", todo |-> {}, ops |-> {}, select |-> {}]
Op(p) == env.work[p].op
At(p, step) == procs[p].step = step
Goes(p, step) == procs' = [procs EXCEPT ![p].step = step]
Resting == {"none", "idle", "done", "failed", "killed"}
Exists(d) == disk.files[d] # "none"

Begins(p) == past' = [past EXCEPT !.crossed =
                        @ \/ \E q \in Procs \ {p} : procs[q].step \notin Resting]

-----------------------------------------------------------------------------
\* inspectManagedOperation.

Health(d) ==
  CASE Kind[d] = "remove" -> IF Exists(d) THEN "drifted" ELSE "ok"
    [] Kind[d] # "remove" /\ ~Exists(d) -> "missing"
    [] Kind[d] = "copy-file" /\ Exists(d) ->
         IF d \notin disk.shipped THEN "missing-source"
         ELSE IF disk.files[d] = "raw" THEN "ok" ELSE "drifted"
    [] Kind[d] = "render-template" /\ Exists(d) ->
         IF disk.files[d] = "raw" THEN "ok" ELSE "drifted"
    [] OTHER -> IF disk.files[d] \in {"raw", "both"} THEN "ok" ELSE "drifted"
Unhealthy(ops) == {d \in ops : Health(d) \in {"missing", "drifted"}}

\* createRepairPlanFromRecord: the recorded operations if one is no copy,
\* else those the request stands for today.
RepairPlan ==
  IF \E d \in disk.state.ops : Kind[d] # "copy-file" THEN disk.state.ops
  ELSE disk.state.select \cap disk.shipped

-----------------------------------------------------------------------------
\* install.

StartInstall(p) ==
  /\ At(p, "idle") /\ Op(p) = "install"
  /\ LET ops == env.work[p].select \cap disk.shipped
     IN  procs' = [procs EXCEPT ![p] = [step |-> "copy", todo |-> ops, ops |-> ops,
                                        select |-> env.work[p].select]]
  /\ Begins(p) /\ UNCHANGED <<env, disk>>

CopyFile(p) ==
  /\ At(p, "copy")
  /\ \E d \in procs[p].todo :
       /\ disk' = [disk EXCEPT !.files[d] = "raw"]
       /\ procs' = [procs EXCEPT ![p].todo = @ \ {d}]
  /\ UNCHANGED <<env, past>>
CopiesEnd(p) ==
  /\ At(p, "copy") /\ procs[p].todo = {}
  /\ procs' = [procs EXCEPT ![p].step = "fit", ![p].todo = procs[p].ops \cap Fitted]
  /\ UNCHANGED <<env, disk, past>>

\* The hooks with the plugin's path in them; the servers without the disabled.
FitFile(p) ==
  /\ At(p, "fit")
  /\ \E d \in procs[p].todo :
       /\ disk' = [disk EXCEPT !.files[d] = "fitted"]
       /\ procs' = [procs EXCEPT ![p].todo = @ \ {d}]
  /\ UNCHANGED <<env, past>>
FitsEnd(p) ==
  /\ At(p, "fit") /\ procs[p].todo = {}
  /\ Goes(p, "record") /\ UNCHANGED <<env, disk, past>>

\* writeInstallState writes in place.
TruncateState(p) ==
  /\ At(p, "record")
  /\ disk' = [disk EXCEPT !.state = [NoState EXCEPT !.is = "torn"]]
  /\ Goes(p, "write") /\ UNCHANGED <<env, past>>

\* Mutant: the files that were fitted are not among the recorded operations.
WriteStatePlain(p) ==
  /\ At(p, "write")
  /\ disk' = [disk EXCEPT !.state = [is |-> "valid", ops |-> procs[p].ops \ Fitted,
                                     select |-> procs[p].select]]
  /\ Goes(p, "done") /\ UNCHANGED <<env, past>>

WriteState(p) ==
  /\ At(p, "write")
  /\ disk' = [disk EXCEPT !.state = [is |-> "valid", ops |-> procs[p].ops,
                                     select |-> procs[p].select]]
  /\ Goes(p, "done") /\ UNCHANGED <<env, past>>

-----------------------------------------------------------------------------
\* repair.

\* Without a state there is nothing to repair or to uninstall.
NothingThere(p) ==
  /\ At(p, "idle") /\ Op(p) \in {"repair", "uninstall"} /\ disk.state.is = "none"
  /\ Goes(p, "done") /\ UNCHANGED <<env, disk, past>>
Unreadable(p) ==
  /\ At(p, "idle") /\ Op(p) \in {"repair", "uninstall"} /\ disk.state.is = "torn"
  /\ Goes(p, "failed") /\ UNCHANGED <<env, disk, past>>

StartRepair(p) ==
  /\ At(p, "idle") /\ Op(p) = "repair" /\ disk.state.is = "valid"
  /\ procs' = [procs EXCEPT ![p] =
       IF \E d \in RepairPlan : Health(d) = "missing-source"
       THEN [@ EXCEPT !.step = "failed"]
       ELSE [step |-> "repair", todo |-> Unhealthy(RepairPlan), ops |-> RepairPlan,
             select |-> disk.state.select]]
  /\ Begins(p) /\ UNCHANGED <<env, disk>>

Repaired(d) ==
  CASE Kind[d] \in {"copy-file", "render-template"} -> "raw"
    [] Kind[d] = "merge-json" -> IF disk.files[d] \in {"user", "both"} THEN "both" ELSE "raw"
    [] OTHER -> "none"

\* executeRepairOperation; without its source a copy throws.
RepairFile(p) ==
  /\ At(p, "repair")
  /\ \E d \in procs[p].todo :
       IF Kind[d] = "copy-file" /\ d \notin disk.shipped
       THEN /\ Goes(p, "failed") /\ UNCHANGED disk
            /\ past' = [past EXCEPT !.broken = TRUE]
       ELSE /\ disk' = [disk EXCEPT !.files[d] = Repaired(d)]
            /\ procs' = [procs EXCEPT ![p].todo = @ \ {d}] /\ UNCHANGED past
  /\ UNCHANGED env
RepairsEnd(p) ==
  /\ At(p, "repair") /\ procs[p].todo = {}
  /\ Goes(p, "record") /\ UNCHANGED <<env, disk, past>>

-----------------------------------------------------------------------------
\* uninstall.

StartUninstall(p) ==
  /\ At(p, "idle") /\ Op(p) = "uninstall" /\ disk.state.is = "valid"
  /\ procs' = [procs EXCEPT ![p] = [step |-> "undo", todo |-> disk.state.ops,
                                    ops |-> disk.state.ops, select |-> {}]]
  /\ Begins(p) /\ UNCHANGED <<env, disk>>

\* Mutant: a merged file is taken for one of the kit's own.
UndoneWhole(d) ==
  CASE Kind[d] = "copy-file" -> "none"
    [] Kind[d] # "copy-file" /\ d \in env.previous -> "user"
    [] Kind[d] \in {"merge-json", "render-template"} /\ d \notin env.previous -> "none"
    [] OTHER -> disk.files[d]

\* executeUninstallOperation: a copy goes, whatever it holds; the others give
\* back the content they recorded, if any.
Undone(d) ==
  CASE Kind[d] = "copy-file" -> "none"
    [] Kind[d] # "copy-file" /\ d \in env.previous -> "user"
    [] Kind[d] = "render-template" /\ d \notin env.previous -> "none"
    [] Kind[d] = "merge-json" /\ d \notin env.previous ->
         IF disk.files[d] \in {"both", "user"} THEN "user" ELSE "none"
    [] OTHER -> disk.files[d]
UndoFile(p) ==
  /\ At(p, "undo")
  /\ \E d \in procs[p].todo :
       /\ disk' = [disk EXCEPT !.files[d] = Undone(d)]
       /\ procs' = [procs EXCEPT ![p].todo = @ \ {d}]
  /\ UNCHANGED <<env, past>>
RemoveState(p) ==
  /\ At(p, "undo") /\ procs[p].todo = {}
  /\ disk' = [disk EXCEPT !.state = NoState]
  /\ Goes(p, "done") /\ UNCHANGED <<env, past>>

-----------------------------------------------------------------------------
\* A command fails in the middle, or its process ends: what it did stays.
Fails(p) ==
  /\ env.faults > 0 /\ procs[p].step \notin Resting
  /\ env' = [env EXCEPT !.faults = @ - 1]
  /\ past' = [past EXCEPT !.broken = TRUE]
  /\ \E how \in {"failed", "killed"} :
       /\ (how = "failed" => ~At(p, "write"))
       /\ Goes(p, how)
  /\ UNCHANGED disk

Edit(d) ==
  /\ env.edits > 0 /\ disk.files[d] # "user"
  /\ env' = [env EXCEPT !.edits = @ - 1]
  /\ disk' = [disk EXCEPT !.files[d] = IF Kind[d] = "merge-json" /\ @ = "raw" THEN "both" ELSE "user"]
  /\ past' = [past EXCEPT !.edited = @ \cup {d}]
  /\ UNCHANGED procs

\* The kit's repository moves on: it ships other files.
Upgrade ==
  /\ env.upgrade # disk.shipped
  /\ disk' = [disk EXCEPT !.shipped = env.upgrade]
  /\ past' = [past EXCEPT !.upgraded = TRUE] /\ UNCHANGED <<env, procs>>

Next ==
  \/ \E p \in Procs :
       \/ StartInstall(p) \/ CopyFile(p) \/ CopiesEnd(p) \/ FitFile(p) \/ FitsEnd(p)
       \/ TruncateState(p) \/ WriteState(p)
       \/ NothingThere(p) \/ Unreadable(p) \/ StartRepair(p) \/ RepairFile(p) \/ RepairsEnd(p)
       \/ StartUninstall(p) \/ UndoFile(p) \/ RemoveState(p) \/ Fails(p)
  \/ \E d \in Dests : Edit(d)
  \/ Upgrade

InitIn(e) ==
  /\ env = e
  /\ disk = [files |-> e.files, state |-> e.state, shipped |-> e.shipped]
  /\ procs = [p \in Procs |-> [Idle EXCEPT !.step = IF Op(p) = "none" THEN "none" ELSE "idle"]]
  /\ past = [crossed |-> FALSE, broken |-> FALSE, upgraded |-> FALSE, edited |-> {}]

-----------------------------------------------------------------------------
TypeOK ==
  /\ disk.files \in [Dests -> Contents] /\ disk.state \in States /\ disk.shipped \subseteq Dests
  /\ \A p \in Procs : /\ procs[p].todo \subseteq procs[p].ops /\ procs[p].ops \subseteq Dests
                      /\ procs[p].select \subseteq Dests

AtRest == \A p \in Procs : procs[p].step \in Resting
Orderly == AtRest /\ ~past.crossed /\ ~past.broken
Selections == {env.work[p].select : p \in {q \in Procs : Op(q) = "install"}}

(* Commands one after the other, none cut off: what the kit put on the     *)
(* disk is in the install state, so that an uninstall finds it.  An         *)
(* installation of another selection, or of another version, writes a      *)
(* state of its own over the former one's.                                 *)
KitFilesRecorded ==
  Orderly /\ ~past.upgraded /\ Cardinality(Selections) <= 1 =>
    \A d \in Dests : disk.files[d] \in {"raw", "fitted"} =>
      disk.state.is = "valid" /\ d \in disk.state.ops

(* A repair leaves nothing to repair.                                      *)
RepairConverges ==
  \A p \in Procs :
    /\ Orderly /\ Op(p) = "repair" /\ At(p, "done") /\ disk.state.is = "valid"
    /\ past.edited = {} /\ \A q \in Procs \ {p} : procs[q].step \in {"none", "idle"}
    => Unhealthy(RepairPlan) = {}

(* What was merged into a file of the user's is taken out again, and only  *)
(* that.                                                                   *)
UsersKeysKept ==
  \A d \in Dests : Kind[d] = "merge-json" /\ env.files[d] \in {"both", "user"} =>
    disk.files[d] \in {"both", "user"}


=============================================================================
