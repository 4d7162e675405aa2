---------------------------- MODULE PhaseLedger ----------------------------
(***************************************************************************)
(* The phases of a project (gsd-core: phase.cjs, roadmap.cjs,              *)
(* milestone.cjs).  A phase is a heading of ROADMAP.md and a directory,    *)
(* both carrying its number: N, or N.k for one inserted after N.  Commands *)
(* of several agents add, insert, remove, complete and archive phases;     *)
(* withPlanningLock serialises the ones that rewrite ROADMAP.md, and those *)
(* that wait ten seconds for it take it from whoever holds it.             *)
(*                                                                         *)
(* A phase is identified by its slug, which never changes; slugs differ    *)
(* here.  A line of the roadmap that is found under a number is found      *)
(* under whatever number the phase has then.                               *)
(***************************************************************************)
EXTENDS Integers, Sequences, FiniteSets, FiniteSetsExt, Functions

CONSTANTS Procs,     \* gsd-tools processes, each running one command
          NewSlugs   \* the slugs of the phases each of them may add

VARIABLES
  env,     \* what this behaviour exposes the files to
  disk,    \* the planning files
  procs,   \* what each process is doing and what it has read
  past     \* what the commands that ended have done

vars == <<env, disk, procs, past>>

Free == 0
Backlog == 999
Numbers == [n : Nat, k : Nat]                 \* phase n.k, n itself for k = 0
Whole(n) == [n |-> n, k |-> 0]
Before(a, b) == a.n < b.n \/ (a.n = b.n /\ a.k < b.k)
Slugs == {"alpha", "beta", "gamma", "delta", "later"} \cup UNION {Range(NewSlugs[p]) : p \in Procs}
Headings == [id : Numbers, slug : Slugs, plans : STRING, waves : BOOLEAN]
Dirs == [id : Numbers, slug : Slugs, plans : Nat, sums : Nat]

\* The files a command has read and means to write.
NoPages == [roadmap |-> {}, boxes |-> {}, reqs |-> {}, told |-> "none", status |-> ""]
Idle(command) ==
  [cmd |-> command, step |-> IF command.op = "none" THEN "done" ELSE "idle",
   plans |-> 0, sums |-> 0, slug |-> "none", todo |-> {}, made |-> {}, before |-> NoPages, after |-> NoPages]

Op(p) == procs[p].cmd.op
Arg(p) == procs[p].cmd.id
At(p, step) == procs[p].step = step
Running(p) == procs[p].step \notin {"idle", "done", "failed", "killed"}
Ends(p, how) == procs' = [procs EXCEPT ![p] = [Idle(procs[p].cmd) EXCEPT !.step = how]]
Goes(p, step) == procs' = [procs EXCEPT ![p].step = step]

DirOf(id) == {d \in disk.dirs : d.id = id}
HeadingOf(id) == {h \in disk.roadmap : h.id = id}
Pages == [roadmap |-> disk.roadmap, boxes |-> disk.boxes, reqs |-> disk.reqs,
          told |-> disk.told, status |-> disk.status]

(* Commands of which one renumbers, deletes or archives phases, or writes   *)
(* the requirements without the lock, while the other is under way.        *)
Unlocked == {"remove", "clear", "milestone", "requirements"}
Crosses(p) ==
  \E q \in Procs \ {p} : Running(q) /\ {Op(p), Op(q)} \cap Unlocked # {}
Begins(p) == past' = [past EXCEPT !.crossed = @ \/ Crosses(p)]

-----------------------------------------------------------------------------
\* withPlanningLock.

Acquire(p) ==
  /\ At(p, "want") /\ disk.lock = Free
  /\ disk' = [disk EXCEPT !.lock = p]
  /\ Goes(p, "held") /\ UNCHANGED <<env, past>>

(* Ten seconds have passed: the lock file is unlinked, whoever made it.     *)
(* Those that waited for a dead holder run out of patience together, and   *)
(* the later one unlinks the file of the earlier.                          *)
Unlink(p) ==
  /\ At(p, "want") /\ disk.lock # Free
  /\ env.slow \/ \E q \in Procs : At(q, "killed")
  /\ disk' = [disk EXCEPT !.lock = Free]
  /\ past' = [past EXCEPT !.stolen = @ \/ Running(disk.lock)]
  /\ Goes(p, "relock") /\ UNCHANGED env

\* One try to create it again.
Relock(p) ==
  /\ At(p, "relock") /\ disk.lock = Free
  /\ disk' = [disk EXCEPT !.lock = p]
  /\ Goes(p, "held") /\ UNCHANGED <<env, past>>
RelockFails(p) ==
  /\ At(p, "relock") /\ disk.lock # Free
  /\ past' = [past EXCEPT !.stolen = TRUE]
  /\ Ends(p, "failed") /\ UNCHANGED <<env, disk>>

\* The lock file is unlinked at the end, whoever made it.
Released == [disk EXCEPT !.lock = Free]

-----------------------------------------------------------------------------
\* phase add, add-batch and insert.

HeadingIds == {h.id : h \in disk.roadmap}
DirIds == {d.id : d \in disk.dirs}

\* The highest whole number of a heading or a directory, the backlog apart.
LastPhase ==
  Max({0} \cup ({id.n : id \in HeadingIds \cup {i \in DirIds : i.k = 0}} \ {Backlog}))

\* The next free decimal of phase n.
NextDecimal(n) == Max({0} \cup {id.k : id \in {i \in HeadingIds \cup DirIds : i.n = n}}) + 1

NewId(p) ==
  IF procs[p].made # {} THEN Whole(Max({h.id.n : h \in procs[p].made}) + 1)
  ELSE IF Op(p) = "insert" THEN [n |-> Arg(p).n, k |-> NextDecimal(Arg(p).n)]
  ELSE Whole(LastPhase + 1)

Adding == {"add", "batch", "insert"}
Wanted(p) == IF Op(p) = "batch" THEN Len(NewSlugs[p]) ELSE 1

Start(p) ==
  /\ At(p, "idle") /\ Op(p) \in Adding
  /\ Goes(p, "want") /\ Begins(p) /\ UNCHANGED <<env, disk>>

InsertRefused(p) ==
  /\ At(p, "held") /\ Op(p) = "insert" /\ HeadingOf(Arg(p)) = {}
  /\ disk' = Released /\ Ends(p, "failed") /\ UNCHANGED <<env, past>>

\* The directories first ...
MakeDir(p) ==
  /\ At(p, "held") /\ Op(p) \in Adding
  /\ Op(p) = "insert" => HeadingOf(Arg(p)) # {}
  /\ LET i == Cardinality(procs[p].made) + 1
         h == [id |-> NewId(p), slug |-> NewSlugs[p][i], plans |-> "none", waves |-> FALSE]
     IN  /\ disk' = [disk EXCEPT !.dirs = @ \cup
                        {[id |-> h.id, slug |-> h.slug, plans |-> 0, sums |-> 0]}]
         /\ procs' = [procs EXCEPT
              ![p].step = IF i = Wanted(p) THEN "made" ELSE @, ![p].made = @ \cup {h},
              ![p].after.roadmap = IF i = 1 THEN disk.roadmap ELSE @]
  /\ UNCHANGED <<env, past>>

\* ... then the roadmap that was read with it.
AddHeading(p) ==
  /\ At(p, "made")
  /\ disk' = [Released EXCEPT !.roadmap = procs[p].after.roadmap \cup procs[p].made]
  /\ Ends(p, "done") /\ UNCHANGED <<env, past>>

-----------------------------------------------------------------------------
\* phase remove: the directories without the lock, then the roadmap with it.

\* Mutant: the phase behind the removed one keeps its number.
LowerBehind(id, n) == IF id.n > n + 1 /\ id.n # Backlog THEN [id EXCEPT !.n = @ - 1] ELSE id

Lower(id, n) == IF id.n > n /\ id.n # Backlog THEN [id EXCEPT !.n = @ - 1] ELSE id

RemoveRefused(p) ==
  /\ At(p, "idle") /\ Op(p) = "remove" /\ ~procs[p].cmd.force
  /\ \E d \in DirOf(Arg(p)) : d.sums > 0
  /\ Ends(p, "failed") /\ UNCHANGED <<env, disk, past>>

RemoveDir(p) ==
  /\ At(p, "idle") /\ Op(p) = "remove"
  /\ procs[p].cmd.force \/ \A d \in DirOf(Arg(p)) : d.sums = 0
  /\ disk' = [disk EXCEPT !.dirs = @ \ DirOf(Arg(p))]
  /\ Goes(p, "list") /\ Begins(p) /\ UNCHANGED env

\* The directories to rename, as listed now.
ListRenames(p) ==
  /\ At(p, "list")
  /\ procs' = [procs EXCEPT ![p].step = "rename", ![p].todo =
       IF Arg(p).k = 0
       THEN {d \in disk.dirs : d.id.n > Arg(p).n /\ d.id.n # Backlog}
       ELSE {d \in disk.dirs : d.id.n = Arg(p).n /\ d.id.k > Arg(p).k}]
  /\ UNCHANGED <<env, disk, past>>

Renamed(p, d) ==
  IF Arg(p).k = 0 THEN [d EXCEPT !.id.n = @ - 1] ELSE [d EXCEPT !.id.k = @ - 1]

\* The highest number goes first; a name that is gone ends the renaming.
RenameDir(p) ==
  /\ At(p, "rename")
  /\ \E d \in procs[p].todo :
       /\ \A e \in procs[p].todo : ~Before(d.id, e.id)
       /\ LET there == {e \in disk.dirs : e.id = d.id /\ e.slug = d.slug}
          IN  /\ disk' = [disk EXCEPT !.dirs = (@ \ there) \cup {Renamed(p, e) : e \in there}]
              /\ procs' = [procs EXCEPT ![p].todo = IF there = {} THEN {} ELSE @ \ {d}]
  /\ UNCHANGED <<env, past>>

RenamesEnd(p) ==
  /\ At(p, "rename") /\ procs[p].todo = {}
  /\ Goes(p, "want") /\ UNCHANGED <<env, disk, past>>

\* The heading goes; the higher numbers come down for a whole phase only.
RemoveHeading(p) ==
  /\ At(p, "held") /\ Op(p) = "remove"
  /\ LET left == disk.roadmap \ HeadingOf(Arg(p))
     IN  disk' = [Released EXCEPT !.roadmap =
           IF Arg(p).k = 0 THEN {[h EXCEPT !.id = Lower(h.id, Arg(p).n)] : h \in left} ELSE left]
  /\ Goes(p, "state") /\ UNCHANGED <<env, past>>

\* Total Phases in STATE.md, under its own lock.
CountDown(p) ==
  /\ At(p, "state") /\ Op(p) = "remove"
  /\ disk' = [disk EXCEPT !.total = @ - 1]
  /\ Ends(p, "done") /\ UNCHANGED <<env, past>>

-----------------------------------------------------------------------------
\* phase complete.

\* Plans and summaries are counted before the locks are taken.
CountPlans(p) ==
  /\ At(p, "idle") /\ Op(p) \in {"complete", "progress", "annotate"}
  /\ \/ DirOf(Arg(p)) = {} /\ Ends(p, "failed") /\ UNCHANGED past
     \/ \E d \in DirOf(Arg(p)) :
          IF Op(p) # "complete" /\ d.plans = 0 THEN Ends(p, "done") /\ UNCHANGED past
          ELSE /\ procs' = [procs EXCEPT ![p].step = "want", ![p].plans = d.plans,
                                         ![p].sums = d.sums, ![p].slug = d.slug]
               /\ Begins(p)
  /\ UNCHANGED <<env, disk>>

\* The phase after n: the first directory behind it, else the first heading.
Later(id) ==
  LET dirs == {i \in DirIds : Before(id, i) /\ i.n # Backlog}
      headings == {i \in HeadingIds : Before(id, i)}
  IN  IF dirs # {} THEN dirs ELSE headings

WithPlans(p, text) ==
  {IF h.id = Arg(p) THEN [h EXCEPT !.plans = text] ELSE h : h \in disk.roadmap}
SlugsOf(id) == {h.slug : h \in HeadingOf(id)}

\* Every file is read and its new text made before the first is written.
PrepareCompletion(p) ==
  /\ At(p, "held") /\ Op(p) = "complete"
  /\ procs' = [procs EXCEPT ![p].step = "roadmap", ![p].before = Pages,
       ![p].after = [roadmap |-> WithPlans(p, "complete"),
                     boxes |-> disk.boxes \cup SlugsOf(Arg(p)),
                     reqs |-> disk.reqs \cup SlugsOf(Arg(p)),
                     told |-> procs[p].slug,
                     status |-> IF Later(Arg(p)) = {} THEN "milestone complete" ELSE "ready to plan"]]
  /\ UNCHANGED <<env, disk, past>>

\* writePlanningFileSet: ROADMAP.md, REQUIREMENTS.md, STATE.md.
WriteRoadmap(p) ==
  /\ At(p, "roadmap")
  /\ disk' = [disk EXCEPT !.roadmap = procs[p].after.roadmap, !.boxes = procs[p].after.boxes]
  /\ Goes(p, "reqs") /\ UNCHANGED <<env, past>>
WriteRequirements(p) ==
  /\ At(p, "reqs")
  /\ disk' = [disk EXCEPT !.reqs = procs[p].after.reqs]
  /\ Goes(p, "state") /\ UNCHANGED <<env, past>>
WriteState(p) ==
  /\ At(p, "state") /\ Op(p) = "complete"
  /\ disk' = [Released EXCEPT !.told = procs[p].after.told, !.status = procs[p].after.status]
  /\ past' = [past EXCEPT !.completed = @ \cup {procs[p].slug}]
  /\ Ends(p, "done") /\ UNCHANGED env

\* Mutant: only the last file that was written is put back.
WriteFailsShort(p) ==
  /\ Op(p) = "complete" /\ procs[p].step \in {"roadmap", "reqs", "state"} /\ env.faults > 0
  /\ env' = [env EXCEPT !.faults = @ - 1]
  /\ Goes(p, IF At(p, "reqs") THEN "undo_roadmap" ELSE "undone")
  /\ UNCHANGED <<disk, past>>

(* A write fails: what was written before is put back, in reverse, and the  *)
(* command fails; the first that cannot be put back ends that.             *)
WriteFails(p) ==
  /\ Op(p) = "complete" /\ procs[p].step \in {"roadmap", "reqs", "state"} /\ env.faults > 0
  /\ env' = [env EXCEPT !.faults = @ - 1]
  /\ Goes(p, CASE At(p, "roadmap") -> "undone" [] At(p, "reqs") -> "undo_roadmap"
               [] OTHER -> "undo_reqs")
  /\ UNCHANGED <<disk, past>>

UndoRequirements(p) ==
  /\ At(p, "undo_reqs")
  /\ disk' = [disk EXCEPT !.reqs = procs[p].before.reqs]
  /\ Goes(p, "undo_roadmap") /\ UNCHANGED <<env, past>>
UndoRoadmap(p) ==
  /\ At(p, "undo_roadmap")
  /\ disk' = [disk EXCEPT !.roadmap = procs[p].before.roadmap, !.boxes = procs[p].before.boxes]
  /\ Goes(p, "undone") /\ UNCHANGED <<env, past>>
UndoFails(p) ==
  /\ procs[p].step \in {"undo_reqs", "undo_roadmap"} /\ env.faults > 0
  /\ env' = [env EXCEPT !.faults = @ - 1]
  /\ past' = [past EXCEPT !.warned = TRUE]
  /\ Goes(p, "undone") /\ UNCHANGED disk
CompletionFails(p) ==
  /\ At(p, "undone")
  /\ disk' = Released /\ Ends(p, "failed") /\ UNCHANGED <<env, past>>

-----------------------------------------------------------------------------
\* roadmap update-plan-progress and annotate-dependencies; requirements.

UpdateProgress(p) ==
  /\ At(p, "held") /\ Op(p) = "progress"
  /\ LET whole == procs[p].sums >= procs[p].plans
     IN  disk' = [Released EXCEPT
           !.roadmap = WithPlans(p, IF whole THEN "complete" ELSE "executed"),
           !.boxes = IF whole THEN @ \cup SlugsOf(Arg(p)) ELSE @]
  /\ past' = IF procs[p].sums >= procs[p].plans
             THEN [past EXCEPT !.boxed = @ \cup SlugsOf(Arg(p))] ELSE past
  /\ Ends(p, "done") /\ UNCHANGED env

\* Wave headings, unless they are there.
AnnotateDependencies(p) ==
  /\ At(p, "held") /\ Op(p) = "annotate"
  /\ disk' = [Released EXCEPT !.roadmap =
       {IF h.id = Arg(p) THEN [h EXCEPT !.waves = TRUE] ELSE h : h \in @}]
  /\ Ends(p, "done") /\ UNCHANGED <<env, past>>

\* requirements mark-complete reads and writes without any lock.
ReadRequirements(p) ==
  /\ At(p, "idle") /\ Op(p) = "requirements"
  /\ IF SlugsOf(Arg(p)) \subseteq disk.reqs THEN Ends(p, "done") /\ UNCHANGED past
     ELSE /\ procs' = [procs EXCEPT ![p].step = "mark",
                         ![p].after.reqs = disk.reqs \cup SlugsOf(Arg(p))]
          /\ Begins(p)
  /\ UNCHANGED <<env, disk>>
MarkRequirements(p) ==
  /\ At(p, "mark")
  /\ disk' = [disk EXCEPT !.reqs = procs[p].after.reqs]
  /\ past' = [past EXCEPT !.marked = @ \cup procs[p].after.reqs]
  /\ Ends(p, "done") /\ UNCHANGED env

-----------------------------------------------------------------------------
\* milestone complete and phases clear, neither under the planning lock.

\* A heading without a directory refuses, unless forced.
MilestoneRefused(p) ==
  /\ At(p, "idle") /\ Op(p) = "milestone" /\ ~procs[p].cmd.force
  /\ \E h \in disk.roadmap : DirOf(h.id) = {}
  /\ Ends(p, "failed") /\ UNCHANGED <<env, disk, past>>
ArchiveRoadmap(p) ==
  /\ At(p, "idle") /\ Op(p) = "milestone"
  /\ procs[p].cmd.force \/ \A h \in disk.roadmap : DirOf(h.id) # {}
  /\ disk' = [disk EXCEPT !.archived = disk.roadmap]
  /\ procs' = [procs EXCEPT ![p].step = "close",
                            ![p].todo = {d \in disk.dirs : HeadingOf(d.id) # {}}]
  /\ Begins(p) /\ UNCHANGED env
CloseState(p) ==
  /\ At(p, "close")
  /\ disk' = [disk EXCEPT !.status = "milestone complete"]
  /\ Goes(p, "move") /\ UNCHANGED <<env, past>>
\* The directories of the milestone, in any order; one that is gone ends it.
MoveDir(p) ==
  /\ At(p, "move")
  /\ \E d \in procs[p].todo :
       IF d \in disk.dirs
       THEN /\ disk' = [disk EXCEPT !.dirs = @ \ {d}, !.kept = @ \cup {d}]
            /\ procs' = [procs EXCEPT ![p].todo = @ \ {d}]
       ELSE UNCHANGED disk /\ procs' = [procs EXCEPT ![p].todo = {}]
  /\ UNCHANGED <<env, past>>
MilestoneEnds(p) ==
  /\ At(p, "move") /\ procs[p].todo = {}
  /\ past' = [past EXCEPT !.closed = TRUE]
  /\ Ends(p, "done") /\ UNCHANGED <<env, disk>>

ClearPhases(p) ==
  /\ At(p, "idle") /\ Op(p) = "clear"
  /\ disk' = IF procs[p].cmd.force THEN [disk EXCEPT !.dirs = {d \in @ : d.id.n = Backlog}] ELSE disk
  /\ past' = [past EXCEPT !.crossed = @ \/ Crosses(p), !.closed = TRUE]
  /\ Ends(p, "done") /\ UNCHANGED env

-----------------------------------------------------------------------------
\* SIGKILL leaves the lock file behind.
Kill(p) ==
  /\ env.kills > 0 /\ Running(p)
  /\ env' = [env EXCEPT !.kills = @ - 1]
  /\ Ends(p, "killed") /\ UNCHANGED <<disk, past>>

\* An executor finishes a plan: another SUMMARY file.
FinishPlan(d) ==
  /\ env.finishes > 0 /\ d.sums < d.plans
  /\ env' = [env EXCEPT !.finishes = @ - 1]
  /\ disk' = [disk EXCEPT !.dirs = (@ \ {d}) \cup {[d EXCEPT !.sums = @ + 1]}]
  /\ UNCHANGED <<procs, past>>

Next ==
  \/ \E p \in Procs :
       \/ Acquire(p) \/ Unlink(p) \/ Relock(p) \/ RelockFails(p)
       \/ Start(p) \/ InsertRefused(p) \/ MakeDir(p) \/ AddHeading(p)
       \/ RemoveRefused(p) \/ RemoveDir(p) \/ ListRenames(p) \/ RenameDir(p)
       \/ RenamesEnd(p) \/ RemoveHeading(p) \/ CountDown(p)
       \/ CountPlans(p) \/ PrepareCompletion(p) \/ WriteRoadmap(p)
       \/ WriteRequirements(p) \/ WriteState(p) \/ WriteFails(p)
       \/ UndoRequirements(p) \/ UndoRoadmap(p) \/ UndoFails(p) \/ CompletionFails(p)
       \/ UpdateProgress(p) \/ AnnotateDependencies(p)
       \/ ReadRequirements(p) \/ MarkRequirements(p)
       \/ MilestoneRefused(p) \/ ArchiveRoadmap(p) \/ CloseState(p) \/ MoveDir(p)
       \/ MilestoneEnds(p) \/ ClearPhases(p)
       \/ Kill(p)
  \/ \E d \in disk.dirs : FinishPlan(d)

\* Three phases, one of them inserted, and the backlog.
Outline == {<<Whole(1), "alpha", 1>>, <<Whole(2), "beta", 1>>,
            <<[n |-> 2, k |-> 1], "gamma", 0>>, <<Whole(3), "delta", 0>>}

InitIn(e) ==
  /\ env = e
  /\ disk = [lock |-> Free, archived |-> {}, kept |-> {}, total |-> 4, told |-> "none",
             boxes |-> {}, reqs |-> {}, status |-> "executing",
             roadmap |-> {[id |-> x[1], slug |-> x[2], plans |-> "none", waves |-> FALSE] : x \in Outline},
             dirs |-> {[id |-> x[1], slug |-> x[2], plans |-> x[3], sums |-> 0] : x \in Outline}
                        \cup {[id |-> Whole(Backlog), slug |-> "later", plans |-> 0, sums |-> 0]}]
  /\ procs = [p \in Procs |-> Idle(e.work[p])]
  /\ past = [crossed |-> FALSE, stolen |-> FALSE, warned |-> FALSE, closed |-> FALSE,
             completed |-> {}, boxed |-> {}, marked |-> {}]

-----------------------------------------------------------------------------
TypeOK ==
  /\ disk.roadmap \subseteq Headings /\ disk.archived \subseteq Headings
  /\ disk.dirs \subseteq Dirs /\ disk.kept \subseteq Dirs
  /\ disk.boxes \subseteq Slugs /\ disk.reqs \subseteq Slugs /\ disk.lock \in Procs \cup {Free}

AtRest == \A p \in Procs : ~Running(p)
Undisturbed == ~past.crossed /\ ~past.stolen /\ \A p \in Procs : ~At(p, "killed")

\* The removal of an inserted phase leaves the headings of its successors.
LastDecimalsOnly ==
  \A p \in Procs : Op(p) = "remove" => Arg(p).k = 0

NumbersAgree ==
  /\ \A h \in disk.roadmap : \E d \in disk.dirs : d.slug = h.slug /\ d.id = h.id
  /\ \A h, g \in disk.roadmap : h.id = g.id => h = g

(* When every command has ended, none of them cut off or crossed by a       *)
(* command that works without the lock: each heading has the number of its *)
(* directory, and no other has it.                                         *)
LedgerAgrees ==
  AtRest /\ Undisturbed /\ ~past.closed /\ LastDecimalsOnly => NumbersAgree

(* A completion is told by the roadmap, the requirements and STATE.md, or   *)
(* by none of them, whichever of its writes fails, unless the undoing fails *)
(* as well, another command comes in between or it is killed.               *)
CompletionIsWhole ==
  AtRest /\ Undisturbed /\ ~past.warned =>
    /\ disk.boxes = past.completed \cup past.boxed
    /\ disk.reqs = past.completed \cup past.marked
    /\ disk.told \in past.completed \cup {"none"}

=============================================================================
