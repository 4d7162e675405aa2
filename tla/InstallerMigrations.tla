------------------------ MODULE InstallerMigrations ------------------------
(***************************************************************************)
(* The migrations an installation of gsd-core runs over a runtime's        *)
(* configuration directory (installer-migrations.cjs, its four records,    *)
(* installer-migration-report.cjs).  Under a lock a run classifies the     *)
(* files, plans the actions of the pending migrations and applies them     *)
(* with a copy of each file it touches, so that a failure puts them back;  *)
(* a plan blocked by questions is resolved and applied after the lock is   *)
(* released.  Later the installation itself may fail and roll the run back.*)
(*                                                                         *)
(* A file is a path of one kind; what matters of its content is whether    *)
(* it is the shipped one, holds something of the user's, or has had GSD's  *)
(* registrations pruned.  The manifest names the files an earlier          *)
(* installation wrote.                                                     *)
(***************************************************************************)
EXTENDS Integers, FiniteSets

CONSTANTS Procs,  \* installers
          Paths,  \* files of the configuration directory
          Kind    \* what each is: see KnownKinds

VARIABLES
  env,     \* managed paths, the operator's choice, kills and faults to come
  disk,    \* the files, the install state, the lock, the journals
  procs,   \* what each installer is doing
  past     \* which migrations were rolled back, which restores failed

vars == <<env, disk, procs, past>>

KnownKinds == {"orphan_hook", "hooks_json", "bundled_hook", "stale_agent", "skill",
               "legacy_dir", "user_file"}
Contents == {"none", "shipped", "edited", "pruned"}
Migrations == 1..4   \* baseline, orphan hooks, codex hooks.json, rename: in file order
Types == {"record-baseline", "baseline-preserve-user", "prompt-user", "remove-managed",
          "backup-and-remove", "rewrite-json"}
Actions == [migration : Migrations, path : Paths, type : Types]
Free == 0
NoLock == [by |-> Free, pid |-> FALSE]
NoFiles == [x \in Paths |-> "none"]

Idle == [step |-> "idle", locked |-> FALSE, plan |-> {}, theirs |-> {}, pending |-> {},
         todo |-> {}, now |-> {}, touched |-> {}, copies |-> NoFiles, backups |-> NoFiles,
         before |-> {}, applied |-> {}]

At(p, step) == procs[p].step = step
Goes(p, step) == procs' = [procs EXCEPT ![p].step = step]
Resting == {"idle", "done", "failed", "blocked", "killed"}

-----------------------------------------------------------------------------
\* The plan.

Present(x) == disk.files[x] # "none"

\* classifyArtifact: the hash on disk against the one in the manifest.
Classify(x) ==
  IF ~Present(x) THEN "missing"
  ELSE IF x \notin env.managed THEN "unknown"
  ELSE IF disk.files[x] = "shipped" THEN "managed-pristine" ELSE "managed-modified"
Managed(x) == Classify(x) \in {"managed-pristine", "managed-modified"}

\* The first-time baseline, asked for by the installer's first run only.
BaselineType(x) ==
  CASE Kind[x] = "user_file" -> "baseline-preserve-user"
    [] Kind[x] # "user_file" /\ Managed(x) -> "record-baseline"
    [] Kind[x] \in {"bundled_hook", "stale_agent", "skill"} /\ ~Managed(x) -> "prompt-user"
    [] OTHER -> "baseline-preserve-user"
Baseline ==
  {[migration |-> 1, path |-> x, type |-> BaselineType(x)] :
     x \in {y \in Paths : env.baseline /\ Present(y) /\ Kind[y] \notin {"legacy_dir", "hooks_json"}}}

Removal(m, x) ==
  [migration |-> m, path |-> x,
   type |-> IF Classify(x) = "managed-pristine" THEN "remove-managed" ELSE "backup-and-remove"]
OrphanHooks == {Removal(2, x) : x \in {y \in Paths : Kind[y] = "orphan_hook" /\ Managed(y)}}

\* hooks.json is rewritten without the registrations, or removed when that
\* leaves nothing: what was shipped holds nothing else.
CodexHooks ==
  {[migration |-> 3, path |-> x, type |-> "rewrite-json"] :
     x \in {y \in Paths : Kind[y] = "hooks_json" /\ disk.files[y] \in {"shipped", "edited"}}}

LegacyDir ==
  {IF Managed(x) THEN Removal(4, x)
   ELSE [migration |-> 4, path |-> x, type |-> "baseline-preserve-user"] :
     x \in {y \in Paths : Kind[y] = "legacy_dir" /\ Present(y)}}

Planned(pending) ==
  {a \in Baseline \cup OrphanHooks \cup CodexHooks \cup LegacyDir : a.migration \in pending}

\* resolveInstallerMigrationPromptsForNonTty: the operator's choice, else
\* the safe default of the file's kind, else none.
Choice(x) ==
  CASE env.choice # "none" -> env.choice
    [] env.choice = "none" /\ Kind[x] = "bundled_hook" -> "remove"
    [] env.choice = "none" /\ Kind[x] = "skill" -> "keep"
    [] OTHER -> "none"
Resolved(a) ==
  IF a.type # "prompt-user" \/ Choice(a.path) = "none" THEN a
  ELSE [a EXCEPT !.type = IF Choice(a.path) = "keep" THEN "baseline-preserve-user"
                          ELSE "backup-and-remove"]
Blocked(plan) == {a \in plan : a.type = "prompt-user"}

-----------------------------------------------------------------------------
\* acquireInstallMigrationLock: the file is made, then the pid written into it.

MakeLock(p) ==
  /\ procs[p].step \in {"idle", "want"} /\ disk.lock = NoLock
  /\ disk' = [disk EXCEPT !.lock = [by |-> p, pid |-> FALSE]]
  /\ Goes(p, "stamp") /\ UNCHANGED <<env, past>>
StampLock(p) ==
  /\ At(p, "stamp")
  /\ disk' = [disk EXCEPT !.lock = [by |-> p, pid |-> TRUE]]
  /\ procs' = [procs EXCEPT ![p].step = "plan", ![p].locked = TRUE] /\ UNCHANGED <<env, past>>
StampFails(p) ==
  /\ At(p, "stamp") /\ env.faults > 0
  /\ env' = [env EXCEPT !.faults = @ - 1]
  /\ disk' = [disk EXCEPT !.lock = NoLock] /\ Goes(p, "failed") /\ UNCHANGED past

\* Mutant: the pid in the lock is not looked up.
SeeAny(p) ==
  /\ procs[p].step \in {"idle", "want"} /\ disk.lock.pid
  /\ Goes(p, "reclaim") /\ UNCHANGED <<env, disk, past>>

\* The lock names a dead process: it is unlinked, whoever's it is by then.
SeeDead(p) ==
  /\ procs[p].step \in {"idle", "want"} /\ disk.lock.pid /\ At(disk.lock.by, "killed")
  /\ Goes(p, "reclaim") /\ UNCHANGED <<env, disk, past>>
Reclaim(p) ==
  /\ At(p, "reclaim")
  /\ disk' = [disk EXCEPT !.lock = NoLock] /\ Goes(p, "want") /\ UNCHANGED <<env, past>>

\* Thirty seconds with the lock of a live process, or without a pid to read.
GiveUp(p) ==
  /\ procs[p].step \in {"idle", "want"} /\ disk.lock # NoLock
  /\ disk.lock.pid => ~At(disk.lock.by, "killed")
  /\ Goes(p, "failed") /\ UNCHANGED <<env, disk, past>>

\* The release unlinks the file, and fails when it is gone.
Release(p, outcome) ==
  /\ disk' = [disk EXCEPT !.lock = NoLock]
  /\ procs' = [procs EXCEPT ![p].locked = FALSE,
                            ![p].step = IF disk.lock = NoLock THEN "failed" ELSE outcome]

-----------------------------------------------------------------------------
\* runInstallerMigrations.

Plan(p) ==
  /\ At(p, "plan")
  /\ LET pending == Migrations \ disk.applied
         plan == Planned(pending)
     IN  procs' = [procs EXCEPT
           ![p].step = CASE plan = {} -> "mark" [] Blocked(plan) # {} -> "ask" [] OTHER -> "begin",
           ![p].plan = plan, ![p].pending = pending,
           ![p].theirs = {x \in Paths : disk.files[x] = "edited"}]
  /\ UNCHANGED <<env, disk, past>>

\* Nothing to do: the pending migrations are recorded as applied.
MarkApplied(p) ==
  /\ At(p, "mark")
  /\ disk' = [disk EXCEPT !.applied = @ \cup procs[p].pending]
  /\ Goes(p, "leave") /\ UNCHANGED <<env, past>>
Leave(p) ==
  /\ At(p, "leave") /\ Release(p, "done") /\ UNCHANGED <<env, past>>

\* A blocked plan goes back to the installer, which resolves what it can and
\* applies the plan without the lock; what it cannot resolve ends it.
Ask(p) ==
  /\ At(p, "ask") /\ Release(p, "resolve") /\ UNCHANGED <<env, past>>
Resolve(p) ==
  /\ At(p, "resolve")
  /\ LET plan == {Resolved(a) : a \in procs[p].plan}
     IN  procs' = [procs EXCEPT ![p].plan = plan,
                     ![p].step = IF Blocked(plan) # {} THEN "blocked" ELSE "begin"]
  /\ past' = [past EXCEPT !.unlocked = TRUE] /\ UNCHANGED <<env, disk>>

-----------------------------------------------------------------------------
\* applyInstallerMigrationPlan.

\* Mutant: the migrations are recorded before they are done.
BeginRecorded(p) ==
  /\ At(p, "begin")
  /\ procs' = [procs EXCEPT ![p].step = "apply", ![p].todo = procs[p].plan,
                            ![p].before = disk.applied]
  /\ disk' = [disk EXCEPT !.applied = @ \cup {a.migration : a \in procs[p].plan}]
  /\ UNCHANGED <<env, past>>

Begin(p) ==
  /\ At(p, "begin")
  /\ procs' = [procs EXCEPT ![p].step = "apply", ![p].todo = procs[p].plan,
                            ![p].before = disk.applied]
  /\ UNCHANGED <<env, disk, past>>

\* The actions in the order of their migrations.
Due(p, a) == a \in procs[p].todo /\ \A b \in procs[p].todo : a.migration <= b.migration
Skips(a) == ~Present(a.path) \/ a.type \in {"record-baseline", "baseline-preserve-user"}

Skip(p) ==
  /\ At(p, "apply")
  /\ \E a \in procs[p].todo :
       Due(p, a) /\ Skips(a) /\ procs' = [procs EXCEPT ![p].todo = @ \ {a}]
  /\ UNCHANGED <<env, disk, past>>

\* A copy of the file for the rollback, and one for the user if it was theirs.
Copy(p) ==
  /\ At(p, "apply")
  /\ \E a \in procs[p].todo :
       /\ Due(p, a) /\ ~Skips(a)
       /\ procs' = [procs EXCEPT ![p].step = "change", ![p].todo = @ \ {a}, ![p].now = {a},
            ![p].touched = @ \cup {a.path}, ![p].copies[a.path] = disk.files[a.path],
            ![p].backups[a.path] = IF a.type = "backup-and-remove" THEN disk.files[a.path] ELSE @]
  /\ UNCHANGED <<env, disk, past>>

\* The rewritten file holds what the plan made of it.
Change(p) ==
  /\ At(p, "change")
  /\ \E a \in procs[p].now :
       disk' = [disk EXCEPT !.files[a.path] =
         IF a.type = "rewrite-json" /\ a.path \in procs[p].theirs THEN "pruned" ELSE "none"]
  /\ procs' = [procs EXCEPT ![p].step = "apply", ![p].now = {}] /\ UNCHANGED <<env, past>>

ReadState(p) ==
  /\ At(p, "apply") /\ procs[p].todo = {}
  /\ procs' = [procs EXCEPT ![p].step = "record", ![p].applied =
                  disk.applied \cup {a.migration : a \in procs[p].plan}]
  /\ UNCHANGED <<env, disk, past>>
WriteState(p) ==
  /\ At(p, "record")
  /\ IF procs[p].locked
     THEN /\ disk' = [disk EXCEPT !.applied = procs[p].applied, !.lock = NoLock]
          /\ procs' = [procs EXCEPT ![p].locked = FALSE,
                         ![p].step = IF disk.lock = NoLock THEN "failed" ELSE "applied"]
     ELSE disk' = [disk EXCEPT !.applied = procs[p].applied] /\ Goes(p, "applied")
  /\ UNCHANGED <<env, past>>

\* Any write of the run may fail.
ApplyFails(p) ==
  /\ procs[p].step \in {"apply", "change", "record"} /\ env.faults > 0
  /\ env' = [env EXCEPT !.faults = @ - 1]
  /\ procs' = [procs EXCEPT ![p].step = "undo", ![p].todo = {}, ![p].now = {}]
  /\ UNCHANGED <<disk, past>>

\* The copies go back, then the journal goes; a copy that fails is passed
\* over, and then the journal stays.
PutBack(p, failed) ==
  \E x \in procs[p].touched :
    /\ procs' = [procs EXCEPT ![p].touched = @ \ {x}]
    /\ IF failed
       THEN /\ env.faults > 0 /\ env' = [env EXCEPT !.faults = @ - 1]
            /\ past' = [past EXCEPT !.unrestored = @ \cup {x}] /\ UNCHANGED disk
       ELSE disk' = [disk EXCEPT !.files[x] = procs[p].copies[x]] /\ UNCHANGED <<env, past>>
Cleaned(p) == [procs EXCEPT ![p].step = "failed", ![p].locked = FALSE, ![p].touched = {},
                            ![p].copies = NoFiles, ![p].backups = NoFiles]

Undo(p) == At(p, "undo") /\ \E failed \in BOOLEAN : PutBack(p, failed)
UndoEnds(p) ==
  /\ At(p, "undo") /\ procs[p].touched = {}
  /\ procs' = IF past.unrestored # {} THEN [procs EXCEPT ![p].step = "failed", ![p].locked = FALSE]
              ELSE Cleaned(p)
  /\ disk' = IF procs[p].locked THEN [disk EXCEPT !.lock = NoLock] ELSE disk
  /\ UNCHANGED <<env, past>>

-----------------------------------------------------------------------------
\* rollbackAppliedMigrationResult, when the installation fails later: the
\* copies and the earlier install state go back, and the journal goes.

InstallEnds(p) ==
  /\ At(p, "applied") /\ Goes(p, "done") /\ UNCHANGED <<env, disk, past>>
InstallFails(p) ==
  /\ At(p, "applied") /\ env.installFails
  /\ Goes(p, "rollback") /\ UNCHANGED <<env, disk, past>>
Rollback(p) == At(p, "rollback") /\ \E failed \in BOOLEAN : PutBack(p, failed)

\* Mutant: the install state stays as it is.
RollbackEndsShort(p) ==
  /\ At(p, "rollback") /\ procs[p].touched = {}
  /\ procs' = Cleaned(p) /\ UNCHANGED <<env, disk, past>>

RollbackEnds(p) ==
  /\ At(p, "rollback") /\ procs[p].touched = {}
  /\ disk' = [disk EXCEPT !.applied = procs[p].before]
  /\ procs' = Cleaned(p) /\ UNCHANGED <<env, past>>

-----------------------------------------------------------------------------
Kill(p) ==
  /\ env.kills > 0 /\ procs[p].step \notin Resting
  /\ env' = [env EXCEPT !.kills = @ - 1]
  /\ procs' = [procs EXCEPT ![p].step = "killed", ![p].locked = FALSE]
  /\ past' = [past EXCEPT !.torn = @ \/ At(p, "rollback")] /\ UNCHANGED disk

\* The user changes a shipped file; not within the instant between its copy
\* and its removal.
Edit(x) ==
  /\ env.edits > 0 /\ disk.files[x] = "shipped" /\ \A p \in Procs : x \notin procs[p].touched
  /\ env' = [env EXCEPT !.edits = @ - 1]
  /\ disk' = [disk EXCEPT !.files[x] = "edited"]
  /\ past' = [past EXCEPT !.users = @ \cup {x}] /\ UNCHANGED procs

Next ==
  \/ \E p \in Procs :
       \/ MakeLock(p) \/ StampLock(p) \/ StampFails(p) \/ SeeDead(p) \/ Reclaim(p) \/ GiveUp(p)
       \/ Plan(p) \/ MarkApplied(p) \/ Leave(p) \/ Ask(p) \/ Resolve(p)
       \/ Begin(p) \/ Skip(p) \/ Copy(p) \/ Change(p) \/ ReadState(p) \/ WriteState(p)
       \/ ApplyFails(p) \/ Undo(p) \/ UndoEnds(p)
       \/ InstallEnds(p) \/ InstallFails(p) \/ Rollback(p) \/ RollbackEnds(p)
       \/ Kill(p)
  \/ \E x \in Paths : Edit(x)

InitIn(e) ==
  /\ env = e
  /\ disk = [files |-> e.files, applied |-> {}, lock |-> NoLock]
  /\ procs = [p \in Procs |-> IF p \in e.runs THEN Idle ELSE [Idle EXCEPT !.step = "done"]]
  /\ past = [users |-> {x \in Paths : e.files[x] = "edited"}, unrestored |-> {},
             unlocked |-> FALSE, torn |-> FALSE]

-----------------------------------------------------------------------------
TypeOK ==
  /\ disk.files \in [Paths -> Contents] /\ disk.applied \subseteq Migrations
  /\ disk.lock \in [by : Procs \cup {Free}, pid : BOOLEAN]
  /\ \A p \in Procs : /\ procs[p].plan \subseteq Actions /\ procs[p].todo \subseteq procs[p].plan
                      /\ procs[p].touched \subseteq Paths
                      /\ procs[p].copies \in [Paths -> Contents]
                      /\ procs[p].backups \in [Paths -> Contents]

Started == {p \in env.runs : ~At(p, "idle")}
Killed == {p \in Procs : At(p, "killed")}
AtRest == \A p \in Procs : procs[p].step \in Resting

\* Of two that see the lock of a dead installer, the slower one unlinks the
\* lock of the faster one.
LockTrusted == Killed = {} \/ Cardinality(env.runs) <= 2
OneInside == LockTrusted => Cardinality({p \in Procs : procs[p].locked}) <= 1

\* What the user wrote is in its file or in a journal.
UsersFilesKept ==
  past.unrestored = {} =>
    \A x \in past.users :
      \/ disk.files[x] \in {"edited", "pruned"}
      \/ \E p \in Procs : "edited" \in {procs[p].copies[x], procs[p].backups[x]}

Original(x) == IF x \in past.users THEN "edited" ELSE env.files[x]
FailureRestores ==
  /\ Cardinality(Started) = 1 /\ past.unrestored = {} /\ (\A p \in Started : At(p, "failed"))
  => disk.applied = {} /\ \A x \in Paths : disk.files[x] = Original(x)

\* Plans that were blocked are applied without the lock, and the death of a
\* rollback leaves files back whose migrations are still recorded.
AppliedIsDone ==
  /\ AtRest /\ LockTrusted /\ past.unrestored = {} /\ ~past.torn
  /\ past.unlocked => Cardinality(Started) = 1
  =>
    \A a \in Planned(disk.applied \ {1}) : Skips(a)
=============================================================================
