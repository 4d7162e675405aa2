--------------------------- MODULE PlanningState ---------------------------
(***************************************************************************)
(* .planning/STATE.md and the commands that change it (gsd-core,           *)
(* state.cjs).  Every agent of a project runs gsd-tools in a process of    *)
(* its own, so several commands work on the document at once.  A command   *)
(* takes STATE.md.lock, reads, transforms, rebuilds the frontmatter from   *)
(* the body and the phase directories, writes and releases; some read the  *)
(* document before they take the lock.  A lock older than ten seconds is   *)
(* taken for that of a dead process and unlinked by whoever waits.         *)
(*                                                                         *)
(* The document has two layouts: bold fields such as Current Plan, and     *)
(* the one of templates/state.md, whose fields are plain lines of the      *)
(* section Current Position and whose frontmatter, at the top of the file, *)
(* is what a search for a plain "status:" finds first.                     *)
(*                                                                         *)
(* A process that waits thirty seconds gives up; that takes the locks of   *)
(* three others, more than the Procs of the runs.                          *)
(***************************************************************************)
EXTENDS Integers, FiniteSets, Functions

CONSTANTS Procs,       \* gsd-tools processes, each running one command
          Plans,       \* the plans each phase directory holds
          KeepRecent   \* the phases state prune retains

VARIABLES
  env,     \* what this behaviour exposes the document to
  disk,    \* the document, its lock, its archive and the phases' summaries
  procs,   \* what each process is doing and what it has read
  past     \* entries written and not resolved, those a race took out, summaries removed

vars == <<env, disk, procs, past>>

Phases == DOMAIN Plans
Free == 0
Locks == [by : Procs \cup {Free}, old : BOOLEAN]
Unlocked == [by |-> Free, old |-> FALSE]

Status == ({"executing", "complete"} \X Phases)
            \cup ({"ready", "verify", "defining", "planning", "custom"} \X {0})
Entries == [kind : {"decision", "blocker", "metric"}, by : Procs \cup {0}, phase : Phases]
Sections == [has : BOOLEAN, phase : {0} \cup Phases, plan : Nat, total : Nat, status : Status]
Docs == [fields : Sections,    \* the bold fields
         position : Sections,  \* the section Current Position
         kind : STRING,        \* status in the frontmatter
         done : Nat,           \* progress.completed_plans in the frontmatter
         bar : Nat,            \* the bold Progress field, in plans
         stopped : Procs \cup {0},
         entries : SUBSET Entries]

Nowhere == [has |-> FALSE, phase |-> 0, plan |-> 0, total |-> 0, status |-> <<"ready", 0>>]
NoDoc == [fields |-> Nowhere, position |-> Nowhere, kind |-> "", done |-> 0, bar |-> 0,
          stopped |-> 0, entries |-> {}]

-----------------------------------------------------------------------------
\* The document: fields, frontmatter.

\* normalizeStateStatus.
Normalized(status) ==
  CASE status[1] \in {"executing", "ready"} -> "executing"
    [] status[1] = "complete" -> "completed"
    [] status[1] = "verify" -> "verifying"
    [] OTHER -> status[1]

\* The field Status of the whole file: without the bold one, the frontmatter's.
FieldStatus(doc) == IF doc.fields.has THEN doc.fields.status ELSE <<doc.kind, 0>>

\* Without the bold field it is the frontmatter that is replaced, and the
\* rebuilt frontmatter forgets it.
ReplaceStatus(doc, status) ==
  IF doc.fields.has THEN [doc EXCEPT !.fields.status = status] ELSE doc

\* The values a handler wrote itself and may write over.
IsTemplateDefault(status) == status[1] # "custom"

ReplaceStatusIfTemplate(doc, status) ==
  IF IsTemplateDefault(FieldStatus(doc)) THEN ReplaceStatus(doc, status) ELSE doc

\* updateCurrentPositionFields; a plan of 0 leaves the Plan line alone.
UpdatePosition(doc, status, plan, total) ==
  LET at == doc.position
  IN  IF ~at.has THEN doc
      ELSE [doc EXCEPT
             !.position.status = IF IsTemplateDefault(at.status) THEN status ELSE at.status,
             !.position.plan = IF plan = 0 THEN at.plan ELSE plan,
             !.position.total = IF plan = 0 THEN at.total ELSE total]

PlansDone == FoldFunction(+, 0, disk.done)

\* The status the body tells: its bold field, else the line of the section.
BodyStatus(doc) == IF doc.fields.has THEN doc.fields.status ELSE doc.position.status

\* Mutant: only the plans of the current phase are counted.
SyncedFromPhase(doc) ==
  [doc EXCEPT !.kind = Normalized(BodyStatus(doc)),
              !.done = IF doc.fields.phase \in Phases THEN disk.done[doc.fields.phase] ELSE 0]

\* syncStateFrontmatter with the counters of the phase directories.
Synced(doc) == [doc EXCEPT !.kind = Normalized(BodyStatus(doc)), !.done = PlansDone]

-----------------------------------------------------------------------------
\* What each command makes of the document it reads under the lock.

\* Update of the Status field of the body; Patch looks at the whole file.
Update(doc, status) ==
  IF doc.fields.has THEN [doc EXCEPT !.fields.status = status]
  ELSE [doc EXCEPT !.position.status = status]

Patch(doc, status) == ReplaceStatus(doc, status)

AdvancePlan(doc) ==
  LET at == IF doc.fields.has THEN doc.fields ELSE doc.position
      Bumped == IF doc.fields.has THEN [doc EXCEPT !.fields.plan = at.plan + 1]
                ELSE [doc EXCEPT !.position.plan = at.plan + 1]
  IN  IF at.plan = 0 THEN doc
      ELSE IF at.plan >= at.total
           THEN UpdatePosition(ReplaceStatusIfTemplate(doc, <<"verify", 0>>),
                               <<"verify", 0>>, 0, 0)
           ELSE UpdatePosition(ReplaceStatusIfTemplate(Bumped, <<"ready", 0>>),
                               <<"ready", 0>>, at.plan + 1, at.total)

RecordMetric(doc, p) ==
  [doc EXCEPT !.entries = @ \cup {[kind |-> "metric", by |-> p, phase |-> 1]}]
AddDecision(doc, p, n) ==
  [doc EXCEPT !.entries = @ \cup {[kind |-> "decision", by |-> p, phase |-> n]}]
AddBlocker(doc, p) ==
  [doc EXCEPT !.entries = @ \cup {[kind |-> "blocker", by |-> p, phase |-> 1]}]

\* All the lines that hold the text go: here every blocker.
ResolveBlocker(doc) ==
  [doc EXCEPT !.entries = {e \in @ : e.kind # "blocker"}]

RecordSession(doc, p) == [doc EXCEPT !.stopped = p]

\* The bold Progress field; a plain one is looked for in the frontmatter.
UpdateProgress(doc, counted) ==
  IF doc.fields.has THEN [doc EXCEPT !.bar = counted] ELSE doc

Begun(section, n) ==
  IF section.has THEN [has |-> TRUE, phase |-> n, plan |-> 1, total |-> Plans[n],
                       status |-> <<"executing", n>>]
  ELSE section

BeginPhase(doc, n) ==
  IF FieldStatus(doc) = <<"executing", n>> THEN doc
  ELSE [doc EXCEPT !.fields = Begun(@, n), !.position = Begun(@, n)]

PlannedPhase(doc, n) ==
  LET ready == ReplaceStatusIfTemplate(doc, <<"ready", 0>>)
      counted == IF doc.fields.has THEN [ready EXCEPT !.fields.total = Plans[n]] ELSE ready
  IN  UpdatePosition(counted, <<"ready", 0>>, 0, 0)

CompletePhase(doc, n) ==
  LET done == ReplaceStatus(doc, <<"complete", n>>)
  IN  IF doc.position.has
      THEN [done EXCEPT !.position.phase = n, !.position.status = <<"complete", n>>]
      ELSE done

\* The section is added where it is missing; bold fields stay as they are.
MilestoneSwitch(doc) ==
  [doc EXCEPT !.position = [has |-> TRUE, phase |-> 0, plan |-> 0, total |-> 0,
                            status |-> <<"defining", 0>>],
              !.kind = "planning", !.done = 0]

\* Decisions of the phases up to the cutoff.
Prunable(doc, cutoff) == {e \in doc.entries : e.kind = "decision" /\ e.phase <= cutoff}
Prune(doc, cutoff) == [doc EXCEPT !.entries = @ \ Prunable(doc, cutoff)]

\* The phase whose plans state sync counts: the last unfinished one, else the first.
SyncedPhase ==
  LET open == {n \in Phases : disk.done[n] < Plans[n]}
  IN  CHOOSE n \in Phases : IF open = {} THEN n = 1 ELSE n \in open /\ \A k \in open : k <= n

Sync(doc) ==
  IF doc.fields.has
  THEN [doc EXCEPT !.fields.total = Plans[SyncedPhase], !.bar = PlansDone]
  ELSE doc

-----------------------------------------------------------------------------
\* A process.

None == [op |-> "none", n |-> 1]
Idle(command) == [step |-> IF command = None THEN "done" ELSE "idle", cmd |-> command,
                  doc |-> NoDoc, note |-> 0, pruned |-> {}, pile |-> {}]
Ended(p, step) == [Idle(procs[p].cmd) EXCEPT !.step = step]
Op(p) == procs[p].cmd.op
At(p, step) == procs[p].step = step
Goes(p, step) == procs' = [procs EXCEPT ![p].step = step]

CurrentPhase == IF disk.doc.fields.has THEN disk.doc.fields.phase ELSE 0

\* complete-phase is a no-op once Current Phase names another phase.
CheckComplete(p) ==
  /\ At(p, "idle") /\ Op(p) = "complete"
  /\ procs' = [procs EXCEPT ![p] =
       IF CurrentPhase \notin {0, @.cmd.n} THEN Ended(p, "done") ELSE [@ EXCEPT !.step = "want"]]
  /\ UNCHANGED <<env, disk, past>>

CheckPrune(p) ==
  /\ At(p, "idle") /\ Op(p) = "prune"
  /\ LET cutoff == CurrentPhase - KeepRecent
     IN  procs' = [procs EXCEPT ![p] =
           IF cutoff <= 0 THEN Ended(p, "done") ELSE [@ EXCEPT !.step = "want", !.note = cutoff]]
  /\ UNCHANGED <<env, disk, past>>

CountSummaries(p) ==
  /\ At(p, "idle") /\ Op(p) = "progress"
  /\ procs' = [procs EXCEPT ![p].step = "want", ![p].note = PlansDone]
  /\ UNCHANGED <<env, disk, past>>

\* state sync reads and transforms before the lock; with nothing to change
\* (the date of the last activity included) it ends there.
ReadForSync(p) ==
  /\ At(p, "idle") /\ Op(p) = "sync"
  /\ \/ procs' = [procs EXCEPT ![p].step = "want", ![p].doc = Synced(Sync(disk.doc))]
     \/ Sync(disk.doc) = disk.doc /\ procs' = [procs EXCEPT ![p] = Ended(p, "done")]
  /\ UNCHANGED <<env, disk, past>>

\* WAITING.json is written and unlinked without a lock.
SignalWaiting(p) ==
  /\ At(p, "idle") /\ Op(p) = "waiting"
  /\ disk' = [disk EXCEPT !.waiting = TRUE]
  /\ procs' = [procs EXCEPT ![p] = Ended(p, "done")] /\ UNCHANGED <<env, past>>

SignalResume(p) ==
  /\ At(p, "idle") /\ Op(p) = "resume"
  /\ disk' = [disk EXCEPT !.waiting = FALSE]
  /\ procs' = [procs EXCEPT ![p] = Ended(p, "done")] /\ UNCHANGED <<env, past>>

Start(p) ==
  /\ At(p, "idle")
  /\ Op(p) \notin {"complete", "prune", "progress", "sync", "waiting", "resume"}
  /\ Goes(p, "want") /\ UNCHANGED <<env, disk, past>>

\* acquireStateLock: O_EXCL, else a look at the age of the lock.
Acquire(p) ==
  /\ At(p, "want") /\ disk.lock.by = Free
  /\ disk' = [disk EXCEPT !.lock = [by |-> p, old |-> FALSE]]
  /\ Goes(p, IF Op(p) = "sync" THEN "read" ELSE "held") /\ UNCHANGED <<env, past>>

\* Mutant: a lock is taken for stale at once.
SeesFresh(p) ==
  /\ At(p, "want") /\ disk.lock.by # Free
  /\ Goes(p, "stale") /\ UNCHANGED <<env, disk, past>>

SeesStale(p) ==
  /\ At(p, "want") /\ disk.lock.by # Free /\ disk.lock.old
  /\ Goes(p, "stale") /\ UNCHANGED <<env, disk, past>>

\* The unlink takes whatever lock is there by then.
BreakLock(p) ==
  /\ At(p, "stale")
  /\ disk' = [disk EXCEPT !.lock = Unlocked]
  /\ Goes(p, "want") /\ UNCHANGED <<env, past>>

\* The document the process will write: planned-phase and update keep the
\* progress of the frontmatter, milestone-switch writes its own.
Transformed(p) ==
  LET doc == disk.doc
      n == procs[p].cmd.n
      kept(new) == [Synced(new) EXCEPT !.done = doc.done]
  IN  CASE Op(p) = "update" -> kept(Update(doc, <<"custom", 0>>))
        [] Op(p) = "patch" -> Synced(Patch(doc, <<"custom", 0>>))
        [] Op(p) = "advance" -> Synced(AdvancePlan(doc))
        [] Op(p) = "metric" -> Synced(RecordMetric(doc, p))
        [] Op(p) = "decision" -> Synced(AddDecision(doc, p, n))
        [] Op(p) = "blocker" -> Synced(AddBlocker(doc, p))
        [] Op(p) = "resolve" -> Synced(ResolveBlocker(doc))
        [] Op(p) = "session" -> Synced(RecordSession(doc, p))
        [] Op(p) = "progress" -> Synced(UpdateProgress(doc, procs[p].note))
        [] Op(p) = "begin" -> Synced(BeginPhase(doc, n))
        [] Op(p) = "planned" -> kept(PlannedPhase(doc, n))
        [] Op(p) = "complete" -> Synced(CompletePhase(doc, n))
        [] Op(p) = "switch" -> MilestoneSwitch(doc)
        [] Op(p) = "prune" -> Synced(Prune(doc, procs[p].note))

Transform(p) ==
  /\ At(p, "held")
  /\ procs' = [procs EXCEPT ![p].step = "read", ![p].doc = Transformed(p),
       ![p].pruned = IF Op(p) = "prune" THEN Prunable(disk.doc, procs[p].note) ELSE {}]
  /\ UNCHANGED <<env, disk>>
  /\ past' = IF Op(p) = "resolve"
             THEN [past EXCEPT !.written = {e \in @ : e \notin disk.doc.entries \/ e.kind # "blocker"}]
             ELSE past

\* What state sync read before it had the lock replaces what is there by now.
Write(p) ==
  /\ At(p, "read")
  /\ disk' = [disk EXCEPT !.doc = procs[p].doc]
  /\ past' = [past EXCEPT
       !.written = @ \cup {e \in procs[p].doc.entries : e.by = p},
       !.raced = @ \cup IF Op(p) = "sync" THEN disk.doc.entries \ procs[p].doc.entries ELSE {}]
  /\ Goes(p, "written") /\ UNCHANGED env

\* Mutant: what was pruned is not appended to the archive.
ReleaseAndForget(p) ==
  /\ At(p, "written")
  /\ disk' = [disk EXCEPT !.lock = Unlocked]
  /\ procs' = [procs EXCEPT ![p] = Ended(p, "done")]
  /\ UNCHANGED <<env, past>>

\* releaseStateLock unlinks the lock file, whoever made it.
Release(p) ==
  /\ At(p, "written")
  /\ disk' = [disk EXCEPT !.lock = Unlocked]
  /\ procs' = [procs EXCEPT ![p] =
       IF @.pruned # {} THEN [@ EXCEPT !.step = "archive", !.doc = NoDoc]
       ELSE Ended(p, "done")]
  /\ UNCHANGED <<env, past>>

\* STATE-ARCHIVE.md is read and written again after the lock is gone: what
\* another prune appended in between is not in the file any more.
ReadArchive(p) ==
  /\ At(p, "archive")
  /\ procs' = [procs EXCEPT ![p].step = "append", ![p].pile = disk.archive]
  /\ UNCHANGED <<env, disk, past>>

WriteArchive(p) ==
  /\ At(p, "append")
  /\ disk' = [disk EXCEPT !.archive = procs[p].pile \cup procs[p].pruned]
  /\ past' = [past EXCEPT !.raced = @ \cup (disk.archive \ (procs[p].pile \cup procs[p].pruned))]
  /\ procs' = [procs EXCEPT ![p] = Ended(p, "done")] /\ UNCHANGED env

\* SIGKILL: the exit handler that unlinks held locks does not run, and what a
\* prune took out of the document and had not archived yet is nowhere.
Kill(p) ==
  /\ env.kills > 0 /\ ~(procs[p].step \in {"idle", "done", "killed"})
  /\ env' = [env EXCEPT !.kills = @ - 1]
  /\ procs' = [procs EXCEPT ![p] = Ended(p, "killed")]
  /\ past' = [past EXCEPT !.raced = @ \cup IF At(p, "read") THEN {} ELSE procs[p].pruned]
  /\ UNCHANGED disk

\* Ten seconds: the lock of a dead process, or of one that is slow.
LockAges ==
  /\ disk.lock.by # Free /\ ~disk.lock.old
  /\ At(disk.lock.by, "killed") \/ env.slow
  /\ disk' = [disk EXCEPT !.lock.old = TRUE] /\ UNCHANGED <<env, procs, past>>

\* An agent finishes a plan: another SUMMARY file.
FinishPlan(n) ==
  /\ env.finishes > 0 /\ disk.done[n] < Plans[n]
  /\ env' = [env EXCEPT !.finishes = @ - 1]
  /\ disk' = [disk EXCEPT !.done[n] = @ + 1] /\ UNCHANGED <<procs, past>>

\* phase remove and phases clear take a phase's directory, summaries included.
ClearPhase(n) ==
  /\ env.clears > 0 /\ disk.done[n] > 0
  /\ env' = [env EXCEPT !.clears = @ - 1]
  /\ disk' = [disk EXCEPT !.done[n] = 0]
  /\ past' = [past EXCEPT !.cleared = TRUE] /\ UNCHANGED procs

Next ==
  \/ \E p \in Procs :
       \/ CheckComplete(p) \/ CheckPrune(p) \/ CountSummaries(p) \/ ReadForSync(p)
       \/ SignalWaiting(p) \/ SignalResume(p) \/ Start(p)
       \/ Acquire(p) \/ SeesStale(p) \/ BreakLock(p)
       \/ Transform(p) \/ Write(p) \/ Release(p) \/ ReadArchive(p) \/ WriteArchive(p)
       \/ Kill(p)
  \/ LockAges
  \/ \E n \in Phases : FinishPlan(n) \/ ClearPhase(n)

\* Phase 1 is under way, at its first plan, in either layout.
Underway == [has |-> TRUE, phase |-> 1, plan |-> 1, total |-> Plans[1],
             status |-> <<"executing", 1>>]
FirstDoc(layout) ==
  [fields |-> IF layout = "fields" THEN Underway ELSE Nowhere,
   position |-> IF layout = "position" THEN Underway ELSE Nowhere,
   kind |-> "executing", done |-> 0, bar |-> 0, stopped |-> 0,
   entries |-> {[kind |-> "decision", by |-> 0, phase |-> 1],
                [kind |-> "blocker", by |-> 0, phase |-> 1]}]

InitIn(e) ==
  /\ env = e
  /\ disk = [doc |-> FirstDoc(e.layout), lock |-> Unlocked, archive |-> {},
             done |-> [n \in Phases |-> 0], waiting |-> FALSE]
  /\ procs = [p \in Procs |-> Idle(e.work[p])]
  /\ past = [written |-> FirstDoc(e.layout).entries, raced |-> {}, cleared |-> FALSE]

-----------------------------------------------------------------------------
TypeOK ==
  /\ disk.doc \in Docs /\ disk.lock \in Locks /\ disk.archive \subseteq Entries
  /\ disk.done \in [Phases -> Nat] /\ disk.waiting \in BOOLEAN
  /\ \A p \in Procs : /\ procs[p].doc \in Docs \cup {NoDoc}
                      /\ procs[p].pruned \subseteq Entries /\ procs[p].pile \subseteq Entries
  /\ past.written \subseteq Entries /\ past.raced \subseteq Entries /\ past.cleared \in BOOLEAN

Working == {p \in Procs : procs[p].cmd # None}

(* The lock is trusted while nobody is slow, and after a death while at     *)
(* most one process waits: two may both see it stale, and the slower one   *)
(* unlinks the lock the faster one has taken since.                        *)
LockTrusted ==
  /\ ~env.slow
  /\ (\E p \in Procs : At(p, "killed")) => Cardinality(Working) <= 2

OneInside ==
  LockTrusted => Cardinality({p \in Procs : procs[p].step \in {"held", "read", "written"}}) <= 1

\* What prunes have taken out, or are about to, and not archived yet.
Pruned == UNION {procs[p].pruned : p \in Procs}

(* An entry that was written, and that no command resolved, is in the       *)
(* document, in the archive or with the prune that moves it there, unless   *)
(* it went in one of three windows: a state sync wrote what it had read     *)
(* before the lock, a prune wrote an archive it had read before another     *)
(* prune appended to it, or a prune died before it appended.                *)
EntriesKept ==
  LockTrusted =>
    past.written \subseteq disk.doc.entries \cup disk.archive \cup Pruned \cup past.raced

(* While the lock is trusted, the counter of the frontmatter falls at a     *)
(* milestone switch, at a state sync that counted before it had the lock,   *)
(* and once summaries were removed: then it is recomputed downwards.        *)
ProgressStep ==
  (LockTrusted /\ ~past.cleared /\ disk'.doc.done < disk.doc.done)
    => \E p \in Procs : At(p, "read") /\ Op(p) \in {"switch", "sync"}
=============================================================================
