---------------------------- MODULE PhaseManager ----------------------------
(***************************************************************************)
(* Which phase is worked on next (.cursor/gsd-core/bin/lib: cmdInitManager,*)
(* cmdPhasePlanIndex, the other readers of the phases).  Every reader      *)
(* derives what a phase has come to from the files in its directory and    *)
(* the box of ROADMAP.md, each in a way of its own.  The manager           *)
(* recommends from them; a session of it dispatches what was recommended,  *)
(* as background agents that discuss, plan, execute and verify, while the  *)
(* recommendations it shows grow old.                                      *)
(*                                                                         *)
(* What the agents write and in which order is the workflows'              *)
(* (gsd-core/workflows); the prompts are abstracted to that.  A file is in *)
(* the directory or not; a plan may bear a name only some readers take for *)
(* one.  Phases of earlier milestones are archived under the same numbers. *)
(***************************************************************************)
EXTENDS Integers, FiniteSets

CONSTANTS Procs,    \* agents
          Phases,   \* 1..n, headings of ROADMAP.md in their order
          Plans     \* 1..n, a phase's plans in the order they are written

VARIABLES
  env,     \* dependencies of phases and of plans, what may go wrong
  disk,    \* the files of each phase and its box
  procs,   \* the recommendations shown, the agents
  past     \* what was complete once, who executed from where

vars == <<env, disk, procs, past>>

Backlog == 999
Agents == procs.agent
At(a, at) == Agents[a].at = at
Executing == {"index", "wave", "verify", "close"}
Rest == [at |-> "free", phase |-> 1, level |-> [q \in Plans |-> -1], todo |-> {}]
Becomes(a, s) == procs' = [procs EXCEPT !.agent[a] = s]
GoesTo(a, at) == procs' = [procs EXCEPT !.agent[a].at = at]
Touched(d, p) == [d EXCEPT !.dir[p] = TRUE, !.active[p] = TRUE]

-----------------------------------------------------------------------------
\* The readers.  Plans and summaries that scanPhasePlans counts, and those
\* whose names are canonical, that the others go by.
Scanned(p) == [plans |-> Cardinality(disk.plans[p]), sums |-> Cardinality(disk.sums[p])]
Canonical(p) == disk.plans[p] \ env.loose

\* Mutant: a phase with its first summary counts as done.
HasSummaries(c) == c.sums > 0

Complete(c) == c.sums >= c.plans /\ c.plans > 0

FileStatus(p) ==
  LET c == Scanned(p)
  IN  CASE ~disk.dir[p] -> "no_directory"
        [] disk.dir[p] /\ Complete(c) -> "complete"
        [] disk.dir[p] /\ ~Complete(c) /\ c.sums > 0 -> "partial"
        [] disk.dir[p] /\ c.sums = 0 /\ c.plans > 0 -> "planned"
        [] disk.dir[p] /\ c.sums = 0 /\ c.plans = 0 /\ disk.research[p] -> "researched"
        [] disk.dir[p] /\ c.sums = 0 /\ c.plans = 0 /\ ~disk.research[p] ->
             IF disk.context[p] THEN "discussed" ELSE "empty"

\* The box of ROADMAP.md is trusted over the files (cmdInitManager).
DiskStatus(p) == IF disk.box[p] THEN "complete" ELSE FileStatus(p)

\* cmdRoadmapAnalyze reads the same; the phase it calls current and the next.
Analyzed ==
  LET First(s) == {p \in Phases : DiskStatus(p) \in s /\ \A q \in Phases : DiskStatus(q) \in s => p <= q}
  IN  [current |-> First({"planned", "partial"}),
       next |-> First({"empty", "no_directory", "discussed", "researched"})]

\* cmdInitProgress trusts the box where there is no directory.
ProgressStatus(p) ==
  IF ~disk.dir[p] THEN (IF disk.box[p] THEN "complete" ELSE "not_started")
  ELSE IF Complete(Scanned(p)) THEN "complete"
  ELSE IF disk.plans[p] # {} THEN "in_progress"
  ELSE IF disk.research[p] THEN "researched" ELSE "pending"

\* Mutant: a verification that passed is enough.
Passed(plans, sums, p) ==
  IF disk.verify[p] = "passed" THEN "Complete" ELSE IF plans = 0 THEN "Pending" ELSE "Planned"

\* determinePhaseStatus: summaries for every plan are not enough.
Determined(plans, sums, p) ==
  IF plans = 0 THEN "Pending"
  ELSE IF sums < plans THEN (IF sums > 0 THEN "In Progress" ELSE "Planned")
  ELSE IF disk.verify[p] = "passed" THEN "Complete" ELSE "Executed"

\* cmdProgressRender and cmdStats.
Rendered(p) == Determined(Cardinality(Canonical(p)), Cardinality(disk.sums[p]), p)

\* cmdInitPlanPhase: phase_status, by which plan-phase refuses a closed phase.
PhaseStatus(p) == IF disk.dir[p] THEN Rendered(p) ELSE "Pending"

\* buildWorkstreamInventory.
Inventoried(p) ==
  IF Complete(Scanned(p)) THEN "complete" ELSE IF disk.plans[p] # {} THEN "in_progress" ELSE "pending"

\* searchPhaseInDir, by the plans that have no summary of their own name.
IncompletePlans(p) == Canonical(p) \ disk.sums[p]

\* findPhaseInternal finds an archived phase where this milestone has none.
FoundIn(p) == IF disk.dir[p] THEN "phases" ELSE IF env.archived THEN "archive" ELSE "nowhere"

\* cmdVerifyPhaseCompleteness: also of a phase it found in the archive.
VerifiedComplete(p) ==
  \/ FoundIn(p) = "phases" /\ IncompletePlans(p) = {}
  \/ FoundIn(p) = "archive"

\* cmdInitExecutePhase takes no archived phase for the roadmap's.
ExecutablePlans(p) == IF FoundIn(p) = "phases" THEN IncompletePlans(p) ELSE {}

\* cmdInitMilestoneOp counts a phase with any summary.
MilestoneDone == \A p \in Phases : disk.dir[p] /\ disk.sums[p] # {}

-----------------------------------------------------------------------------
\* computeDependencyLevels: the longest path to a plan over the plans there.
Deps(p, q) == env.after[q] \cap Canonical(p)

\* Mutant: a plan's level is that of its nearest dependency, and one.
AnyReached(p) ==
  LET r[i \in 0..Cardinality(Plans)] ==
        IF i = 0 THEN {q \in Canonical(p) : Deps(p, q) = {}}
        ELSE r[i - 1] \cup {q \in Canonical(p) : Deps(p, q) \cap r[i - 1] # {}}
  IN  r

Reached(p) ==
  LET r[i \in 0..Cardinality(Plans)] ==
        IF i = 0 THEN {q \in Canonical(p) : Deps(p, q) = {}}
        ELSE r[i - 1] \cup {q \in Canonical(p) : Deps(p, q) \subseteq r[i - 1]}
  IN  r

Level(p) ==
  LET r == Reached(p)
  IN  [q \in Plans |-> IF q \in r[0] THEN 0
                       ELSE LET is == {i \in 1..Cardinality(Plans) : q \in r[i] /\ q \notin r[i - 1]}
                            IN  IF is = {} THEN -1 ELSE CHOOSE i \in is : TRUE]

Cyclic(p) == \E q \in Canonical(p) : Level(p)[q] = -1

-----------------------------------------------------------------------------
\* cmdInitManager.
CompletedNums == {p \in Phases : DiskStatus(p) = "complete"}

\* Mutant: one of the phases it needs is enough.
AnyDepSatisfied(p) == env.deps[p] = {} \/ env.deps[p] \cap CompletedNums # {}

DepsSatisfied(p) == env.deps[p] \subseteq CompletedNums

Reaches(p, q) ==
  LET r[i \in 0..Cardinality(Phases)] ==
        IF i = 0 THEN env.deps[p] ELSE r[i - 1] \cup UNION {env.deps[x] : x \in r[i - 1]}
  IN  q \in r[Cardinality(Phases)]

HasDepRelationship(p, q) == Reaches(p, q) \/ Reaches(q, p)

ActiveExecuting ==
  {p \in Phases : \/ DiskStatus(p) = "partial"
                  \/ DiskStatus(p) = "planned" /\ disk.active[p]}
ActivePlanning == {p \in Phases : disk.active[p] /\ DiskStatus(p) \in {"discussed", "researched"}}

Unfiltered ==
  {[act |-> "execute", phase |-> p] : p \in {x \in Phases : DiskStatus(x) = "planned" /\ DepsSatisfied(x)}}
  \cup {[act |-> "plan", phase |-> p] : p \in {x \in Phases : DiskStatus(x) \in {"discussed", "researched"}}}
  \cup {[act |-> "discuss", phase |-> p] :
          p \in {x \in Phases : DiskStatus(x) \in {"empty", "no_directory"} /\ DepsSatisfied(x)}}

Recommended ==
  {x \in Unfiltered :
     /\ x.phase # Backlog
     /\ x.act = "execute" => \A p \in ActiveExecuting : ~HasDepRelationship(x.phase, p)
     /\ x.act = "plan" => \A p \in ActivePlanning : ~HasDepRelationship(x.phase, p)}

AllComplete == (Phases \ {Backlog}) \subseteq CompletedNums

-----------------------------------------------------------------------------
\* The dashboard is read, and stays while agents go on.
Refresh ==
  /\ procs.shown # Recommended
  /\ procs' = [procs EXCEPT !.shown = Recommended]
  /\ UNCHANGED <<env, disk, past>>

\* What is shown is dispatched; whether twice to the same phase is the user's.
Dispatch(a) ==
  /\ At(a, "free") /\ past.started[a] < env.starts
  /\ \E x \in procs.shown :
       /\ env.again \/ \A b \in Procs : At(b, "free") \/ Agents[b].phase # x.phase
       /\ procs' = [procs EXCEPT !.shown = @ \ {x},
                                 !.agent[a] = [Rest EXCEPT !.phase = x.phase,
                                   !.at = IF x.act = "execute" THEN "index" ELSE x.act]]
  /\ past' = [past EXCEPT !.started[a] = @ + 1]
  /\ UNCHANGED <<env, disk>>

\* execute-phase of a phase the manager no longer recommends.
ByHand(a) ==
  /\ At(a, "free") /\ past.started[a] < env.starts
  /\ \E p \in env.hand :
       /\ DiskStatus(p) = "partial"
       /\ \A b \in Procs : At(b, "free") \/ Agents[b].phase # p
       /\ Becomes(a, [Rest EXCEPT !.phase = p, !.at = "index"])
  /\ past' = [past EXCEPT !.started[a] = @ + 1]
  /\ UNCHANGED <<env, disk>>

Discuss(a) ==
  /\ At(a, "discuss")
  /\ LET p == Agents[a].phase IN disk' = [Touched(disk, p) EXCEPT !.context[p] = TRUE]
  /\ Becomes(a, Rest)
  /\ UNCHANGED <<env, past>>

\* plan-phase does not replan a phase that is closed.
PlanRefused(a) ==
  /\ At(a, "plan") /\ PhaseStatus(Agents[a].phase) = "Complete"
  /\ Becomes(a, Rest)
  /\ UNCHANGED <<env, disk, past>>

Research(a) ==
  /\ At(a, "plan") /\ PhaseStatus(Agents[a].phase) # "Complete"
  /\ LET p == Agents[a].phase
     IN  disk' = IF disk.research[p] THEN disk ELSE [Touched(disk, p) EXCEPT !.research[p] = TRUE]
  /\ GoesTo(a, "write")
  /\ UNCHANGED <<env, past>>

\* One plan after the other: readers see the first before the last is there.
WritePlan(a) ==
  /\ At(a, "write")
  /\ LET p == Agents[a].phase
         left == env.wanted \ disk.plans[p]
     IN  IF left = {} THEN Becomes(a, Rest) /\ UNCHANGED disk
         ELSE /\ disk' = [Touched(disk, p) EXCEPT
                            !.plans[p] = @ \cup {CHOOSE q \in left : \A r \in left : q <= r}]
              /\ UNCHANGED procs
  /\ UNCHANGED <<env, past>>

\* phase-plan-index; plans that have a summary are left out.
ReadIndex(a) ==
  /\ At(a, "index")
  /\ LET p == Agents[a].phase
     IN  IF Cyclic(p) \/ ExecutablePlans(p) = {} THEN Becomes(a, Rest)
         ELSE Becomes(a, [at |-> "wave", phase |-> p, level |-> Level(p), todo |-> ExecutablePlans(p)])
  /\ UNCHANGED <<env, disk, past>>

\* The plans of the lowest wave, in any order.
NextWave(s) == {q \in s.todo : \A r \in s.todo : s.level[q] <= s.level[r]}

RunPlan(a) ==
  /\ At(a, "wave")
  /\ LET s == Agents[a]
     IN  /\ \E q \in NextWave(s) :
              /\ disk' = [Touched(disk, s.phase) EXCEPT !.sums[s.phase] = @ \cup {q}]
              /\ Becomes(a, [s EXCEPT !.todo = @ \ {q}, !.at = IF s.todo = {q} THEN "verify" ELSE "wave"])
         /\ past' = [past EXCEPT !.began = @ \cup {s.phase},
                                 !.done = @ \cup CompletedNums]
  /\ UNCHANGED env

\* The verifier writes what it found; gaps end the run.
Verify(a) ==
  /\ At(a, "verify")
  /\ \E v \in {"passed", "gaps"} :
       /\ v = "gaps" => env.gaps
       /\ disk' = [Touched(disk, Agents[a].phase) EXCEPT !.verify[Agents[a].phase] = v]
       /\ IF v = "passed" THEN GoesTo(a, "close") ELSE Becomes(a, Rest)
  /\ UNCHANGED <<env, past>>

\* phase complete: refused while a plan has no summary (cmdPhaseComplete).
Close(a) ==
  /\ At(a, "close")
  /\ disk' = [disk EXCEPT !.box[Agents[a].phase] = Complete(Scanned(Agents[a].phase)) \/ @]
  /\ Becomes(a, Rest)
  /\ UNCHANGED <<env, past>>

\* plan-phase --gaps adds a plan to a phase whose verification found gaps.
PlanGaps ==
  /\ \E p \in Phases, q \in Plans \ env.wanted :
       /\ disk.verify[p] = "gaps" /\ q \notin disk.plans[p]
       /\ \A b \in Procs : At(b, "free") \/ Agents[b].phase # p
       /\ disk' = [Touched(disk, p) EXCEPT !.plans[p] = @ \cup {q}]
  /\ past' = [past EXCEPT !.done = @ \cup CompletedNums]
  /\ UNCHANGED <<env, procs>>

\* Five minutes without a write.
Quiet ==
  /\ \E p \in Phases : disk.active[p] /\ disk' = [disk EXCEPT !.active[p] = FALSE]
  /\ UNCHANGED <<env, procs, past>>

Kill(a) ==
  /\ past.kills < env.kills /\ ~At(a, "free")
  /\ Becomes(a, Rest)
  /\ past' = [past EXCEPT !.kills = @ + 1]
  /\ UNCHANGED <<env, disk>>

-----------------------------------------------------------------------------
InitIn(e) ==
  LET Some(s) == [p \in Phases |-> p \in s]
  IN  /\ env = e
      /\ disk = [dir |-> Some(e.ready), context |-> Some(e.ready), research |-> Some({}),
                 plans |-> [p \in Phases |-> IF p \in e.ready THEN e.wanted ELSE {}],
                 sums |-> [p \in Phases |-> {}], verify |-> [p \in Phases |-> "none"],
                 box |-> Some({}), active |-> Some({})]
      /\ procs = [shown |-> {}, agent |-> [a \in Procs |-> Rest]]
      /\ past = [kills |-> 0, started |-> [a \in Procs |-> 0], began |-> {}, done |-> {}]

Next ==
  \/ Refresh \/ PlanGaps \/ Quiet
  \/ \E a \in Procs :
       \/ Dispatch(a) \/ ByHand(a) \/ Discuss(a) \/ PlanRefused(a) \/ Research(a)
       \/ WritePlan(a) \/ ReadIndex(a) \/ RunPlan(a) \/ Verify(a) \/ Close(a) \/ Kill(a)

-----------------------------------------------------------------------------
TypeOK ==
  /\ disk.dir \in [Phases -> BOOLEAN] /\ disk.context \in [Phases -> BOOLEAN]
  /\ disk.research \in [Phases -> BOOLEAN] /\ disk.active \in [Phases -> BOOLEAN]
  /\ disk.box \in [Phases -> BOOLEAN] /\ disk.verify \in [Phases -> {"none", "passed", "gaps"}]
  /\ disk.plans \in [Phases -> SUBSET Plans] /\ disk.sums \in [Phases -> SUBSET Plans]
  /\ procs.shown \subseteq [act : {"discuss", "plan", "execute"}, phase : Phases]
  /\ \A a \in Procs : Agents[a].at \in {"free", "discuss", "plan", "write"} \cup Executing

(* Agents that the manager started, each on a phase of its own, run plans   *)
(* of no two phases of which one needs the other, however old the          *)
(* recommendations were and whoever died (cmdInitManager).  Verification   *)
(* is not waited for: every plan's summary makes a phase complete.         *)
ExecutorsApart ==
  ~env.again /\ env.hand = {} =>
    \A a, b \in Procs :
      a # b /\ At(a, "wave") /\ At(b, "wave") =>
        /\ Agents[a].phase # Agents[b].phase
        /\ ~HasDepRelationship(Agents[a].phase, Agents[b].phase)

(* A phase is executed after the phases it needs were complete, and a plan  *)
(* after the plans it needs, by every executor, of dead ones' rest too     *)
(* (cmdInitManager, computeDependencyLevels).                              *)
DependenciesFirst ==
  \A p \in Phases :
    /\ p \in past.began => env.deps[p] \subseteq past.done \cup CompletedNums
    /\ \A q \in disk.sums[p] : env.after[q] \cap Canonical(p) \subseteq disk.sums[p]

(* The readers agree on what is finished: what the progress table calls     *)
(* complete is so for the manager, the progress and the workstream         *)
(* inventory and has no plan left; and a phase is closed complete, as long *)
(* as no two agents work on it: the manager recommends to execute what a   *)
(* planner is still writing (determinePhaseStatus, cmdInitManager,         *)
(* cmdInitProgress, buildWorkstreamInventory, searchPhaseInDir).           *)
ReadersAgree ==
  /\ AllComplete => MilestoneDone
  /\ \A p \in Phases :
      /\ Rendered(p) = "Complete" /\ Canonical(p) = disk.plans[p] =>
           /\ DiskStatus(p) = "complete" /\ ProgressStatus(p) = "complete"
           /\ Inventoried(p) = "complete" /\ IncompletePlans(p) = {}
      /\ disk.box[p] /\ ~env.again => Rendered(p) = "Complete" /\ VerifiedComplete(p)
      /\ p \in Analyzed.current => p \notin CompletedNums
      /\ ProgressStatus(p) = "complete" => DiskStatus(p) = "complete"
=============================================================================
