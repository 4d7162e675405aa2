--------------------------- MODULE PlanningHealth ---------------------------
(***************************************************************************)
(* The health of a planning directory (gsd-core/bin/lib/verify.cjs         *)
(* cmdValidateHealth, cmdValidateConsistency) while milestones come and    *)
(* go.  Somebody works: phases get directories, boxes are ticked, a        *)
(* milestone is archived, its section of ROADMAP.md folded, STATE.md       *)
(* switched, the next section written.  Health commands look at all of it  *)
(* once, note what can be repaired, and repair one thing after another,    *)
(* with what they noted.  ROADMAP.md is the sequence of its lines that     *)
(* readers go by, and the readers of the current milestone                 *)
(* (extractCurrentMilestone, getMilestoneInfo, getMilestonePhaseFilter of  *)
(* core.cjs) find their way in it by STATE.md, marks and levels.           *)
(***************************************************************************)
EXTENDS Integers, Sequences, FiniteSets, SequencesExt

CONSTANTS Procs,   \* health commands
          Starts   \* pairs of versions, the text of the first one starting the second one's

VARIABLES
  env,     \* milestones, how they are folded, what is lost and put back
  disk,    \* the planning directory
  procs,   \* what each health command is doing
  past     \* the milestone worked on, and what the repairs are held to

vars == <<env, disk, procs, past>>

None == "none"
Versions == {env.milestones[i].v : i \in 1..Len(env.milestones)}
Current == env.milestones[past.now]
Phases == UNION {env.milestones[i].phases : i \in 1..Len(env.milestones)}

\* Lines of ROADMAP.md: bullets and headings of milestones, details, phases, their boxes.
Line(is, level, v, mark, n) == [is |-> is, level |-> level, v |-> v, mark |-> mark, n |-> n]
Bullet(v, mark) == Line("bullet", 0, v, mark, 0)
Heading(level, v, mark) == Line("milestone", level, v, mark, 0)
Open(v) == Line("open", 0, v, "tick", 0)
Close == Line("close", 0, None, None, 0)
PhaseLine(level, n) == Line("phase", level, None, None, n)
Box(n, mark) == Line("box", 0, None, mark, n)

PhasesOf(lines) == {lines[i].n : i \in {j \in 1..Len(lines) : lines[j].is = "phase"}}
Boxes(lines, mark) ==
  {lines[i].n : i \in {j \in 1..Len(lines) : lines[j].is = "box" /\ lines[j].mark = mark}}
Sorted(s) == SetToSortSeq(s, LAMBDA a, b : a < b)
Section(level, m, mark) ==
  (IF level = 0 THEN <<>> ELSE <<Heading(level, m.v, mark)>>)
    \o [i \in 1..Cardinality(m.phases) |-> Box(Sorted(m.phases)[i], None)]
    \o [i \in 1..Cardinality(m.phases) |-> PhaseLine(IF level = 0 THEN 3 ELSE level + 1,
                                                     Sorted(m.phases)[i])]

Idle == [at |-> "idle", todo |-> <<>>, missing |-> {}, registry |-> <<>>, config |-> {}]
At(p, at) == procs[p].at = at
GoesTo(p, at) == procs' = [procs EXCEPT ![p].at = at]
Repairing == \E p \in Procs : procs[p].at \notin {"idle", "done"}

-----------------------------------------------------------------------------
(* The readers of the current milestone.                                    *)

Ends(lines, from) == {i \in from..Len(lines) : lines[i].is = "close"}
Least(s, otherwise) == IF s = {} THEN otherwise ELSE CHOOSE x \in s : \A y \in s : x <= y

\* Without details, open to close.
Stripped(lines) ==
  LET inside == {i \in 1..Len(lines) :
                   \E o \in 1..i : /\ lines[o].is = "open"
                                   /\ i <= Least(Ends(lines, o), 0)}
  IN  FoldLeftDomain(LAMBDA kept, i : IF i \in inside THEN kept ELSE Append(kept, lines[i]),
                     <<>>, lines)

StateVersion == IF disk.state.is = "none" THEN None ELSE disk.state.v
ActiveBullets(lines) == {i \in 1..Len(lines) : lines[i].is = "bullet" /\ lines[i].mark = "active"}
HeadingsOf(lines, v) == {i \in 1..Len(lines) : lines[i].is = "milestone" /\ lines[i].v = v}
Closed(line) == line.mark \in {"tick", "word"}

\* Mutant: the section goes on to the end.
SectionToEnd(lines, h) == SubSeq(lines, h, Len(lines))

\* From a heading to the next one of a milestone that is not deeper.
SectionFrom(lines, h) ==
  LET next == {i \in (h + 1)..Len(lines) :
                 lines[i].is = "milestone" /\ lines[i].level <= lines[h].level}
  IN  SubSeq(lines, h, Least(next, Len(lines) + 1) - 1)

\* What comes before all milestones is kept, but for its phases and details.
Preamble(lines) ==
  LET first == Least({i \in 1..Len(lines) : lines[i].is = "milestone"}, Len(lines) + 1)
  IN  SelectSeq(Stripped(SubSeq(lines, 1, first - 1)), LAMBDA l : l.is # "phase")

ExtractCurrent(lines) ==
  LET bullets == ActiveBullets(lines)
      v == IF StateVersion # None THEN StateVersion
           ELSE IF bullets # {} THEN lines[Least(bullets, 0)].v ELSE None
      heads == HeadingsOf(lines, v)
      open == {i \in heads : ~Closed(lines[i])}
      folds == {i \in 1..Len(lines) : lines[i].is = "open" /\ lines[i].v = v}
  IN  IF v = None THEN Stripped(lines)
      ELSE IF heads # {}
           THEN Preamble(lines) \o SectionFrom(lines, Least(open, Least(heads, 0)))
      ELSE IF folds # {}
           THEN LET o == Least(folds, 0)
                IN  Preamble(SubSeq(lines, 1, o - 1)) \o SubSeq(lines, o, Least(Ends(lines, o), Len(lines)))
      ELSE Stripped(lines)

\* The words of a closed heading mean nothing here, only the tick does.
MilestoneInfo(lines) ==
  LET v == StateVersion
      heads == HeadingsOf(lines, v)
      bullets == ActiveBullets(lines)
      plain == Stripped(lines)
      others == {i \in 1..Len(plain) : plain[i].is = "milestone" /\ plain[i].mark # "tick"}
      named == {i \in 1..Len(plain) : plain[i].v # None}
  IN  IF v # None /\ (heads = {} \/ lines[Least(heads, 0)].mark # "tick") THEN v
      ELSE IF bullets # {} THEN lines[Least(bullets, 0)].v
      ELSE IF others # {} THEN plain[Least(others, 0)].v
      ELSE IF named # {} THEN plain[Least(named, 0)].v ELSE "v1.0"

\* Whose directories count: all of them, when no phase is found.
PhaseFilter(lines) ==
  LET found == PhasesOf(ExtractCurrent(lines)) IN IF found = {} THEN Phases ELSE found

\* A version asked for is looked up by the start of its text, ticked or not.
FilterOf(lines, v) ==
  LET heads == {i \in 1..Len(lines) : /\ lines[i].is = "milestone"
                                      /\ lines[i].v = v \/ <<v, lines[i].v>> \in Starts}
      folds == {i \in 1..Len(lines) : lines[i].is = "open"
                                      /\ (lines[i].v = v \/ <<v, lines[i].v>> \in Starts)}
      found == IF heads # {} THEN PhasesOf(SectionFrom(lines, Least(heads, 0)))
               ELSE IF folds = {} /\ \E i \in 1..Len(lines) : lines[i].is = "milestone" THEN {}
               ELSE PhasesOf(ExtractCurrent(lines))
  IN  IF found = {} THEN Phases ELSE found

-----------------------------------------------------------------------------
(* The checks.                                                              *)

\* The archive of the milestone of STATE.md counts as the directory of phases.
ActiveDirs ==
  disk.dirs \cup (IF StateVersion # None
                  THEN {n \in Phases : StateVersion \in Versions /\ n \in disk.old[StateVersion]}
                  ELSE LET newest == {i \in 1..Len(env.milestones) :
                                        /\ env.milestones[i].v \in disk.archived
                                        /\ \A j \in (i + 1)..Len(env.milestones) :
                                             env.milestones[j].v \notin disk.archived}
                       IN  UNION {disk.old[env.milestones[i].v] : i \in newest})
ArchivedDirs == UNION {disk.old[v] : v \in Versions}

CheckState ==
  IF disk.state.is = "none" THEN {"E004"}
  ELSE IF disk.state.phase \notin {0} \cup ActiveDirs \cup ArchivedDirs \cup PhasesOf(disk.roadmap)
          /\ ActiveDirs \cup ArchivedDirs \cup PhasesOf(disk.roadmap) # {}
       THEN {"W002"} ELSE {}

CheckConfig ==
  CASE disk.config.is = "none" -> {"W003"}
    [] disk.config.is = "broken" -> {"E005"}
    [] OTHER -> IF "workflow" \notin disk.config.keys THEN {}
                ELSE {c \in {"W008", "W016"} :
                        (IF c = "W008" THEN "nyquist" ELSE "ai") \notin disk.config.keys}

\* Mutant: every phase of the milestone needs a directory.
CheckAllBegun ==
  (IF PhasesOf(ExtractCurrent(disk.roadmap)) \ (ActiveDirs \cup ArchivedDirs) # {}
   THEN {"W006"} ELSE {})
  \cup (IF ActiveDirs \ PhasesOf(disk.roadmap) # {} THEN {"W007"} ELSE {})

\* A phase not begun, by its empty box, needs no directory.
CheckRoadmap ==
  LET lines == ExtractCurrent(disk.roadmap)
  IN  (IF PhasesOf(lines) \ (ActiveDirs \cup ArchivedDirs \cup Boxes(lines, None)) # {}
       THEN {"W006"} ELSE {})
      \cup (IF ActiveDirs \ PhasesOf(disk.roadmap) # {} THEN {"W007"} ELSE {})

CheckPosition ==
  IF disk.state.is # "none" /\ disk.state.phase \in Boxes(disk.roadmap, "tick")
     /\ disk.state.status # "complete" THEN {"W011"} ELSE {}

\* Mutant: only the latest entry is looked at.
IsLatest(v) == disk.registry # <<>> /\ disk.registry[1] = v

\* An entry is looked for by the start of its text.
Registered(v) == \E i \in 1..Len(disk.registry) :
                   disk.registry[i] = v \/ <<v, disk.registry[i]>> \in Starts
Missing == {v \in disk.archived : ~Registered(v)}
CheckRegistry == IF Missing # {} THEN {"W018"} ELSE {}

CheckFinished ==
  IF disk.state.is # "none" /\ disk.state.status = "complete"
     /\ PhasesOf(ExtractCurrent(disk.roadmap)) \ disk.dirs # {} THEN {"W021"} ELSE {}

Codes == env.other \cup CheckState \cup CheckConfig \cup CheckRoadmap \cup CheckPosition
           \cup CheckRegistry \cup CheckFinished

Verdict ==
  IF Codes \cap {"E002", "E004", "E005"} # {} THEN "broken"
  ELSE IF Codes \ {"I001"} # {} THEN "degraded" ELSE "healthy"

Consistency ==
  LET phases == PhasesOf(ExtractCurrent(disk.roadmap))
  IN  [absent |-> phases \ ActiveDirs, unknown |-> ActiveDirs \ PhasesOf(disk.roadmap)]

\* What can be repaired, in the order it is.
Repairs ==
  SelectSeq(<<"regenerateState", "createConfig", "resetConfig", "addNyquistKey",
              "addAiIntegrationPhaseKey", "backfillMilestones">>,
            LAMBDA r : CASE r = "regenerateState" -> "E004" \in Codes
                         [] r = "createConfig" -> "W003" \in Codes
                         [] r = "resetConfig" -> "E005" \in Codes
                         [] r = "addNyquistKey" -> "W008" \in Codes
                         [] r = "addAiIntegrationPhaseKey" -> "W016" \in Codes
                         [] r = "backfillMilestones" -> "W018" \in Codes)

-----------------------------------------------------------------------------
(* A health command with --repair.                                          *)

Check(p) ==
  /\ p \in env.asked
  /\ \/ At(p, "idle") \/ (At(p, "done") /\ env.again /\ past.passes = 2)
  /\ procs' = [procs EXCEPT ![p] = [Idle EXCEPT !.at = "repair", !.todo = Repairs,
                                                !.missing = Missing]]
  /\ past' = [past EXCEPT !.crossed = @ \/ Repairing, !.mixed = @ \/ Repairing]
  /\ UNCHANGED <<env, disk>>

Doing(p, repair) == At(p, "repair") /\ procs[p].todo # <<>> /\ Head(procs[p].todo) = repair
Next1(p) == procs' = [procs EXCEPT ![p].at = "repair", ![p].todo = Tail(@)]

\* Mutant: the defaults leave the section of the workflow empty.
FewerKeys == {"workflow"}

\* The defaults written know one of the two keys, and ask nobody.
DefaultKeys == {"workflow", "nyquist"}

WriteDefaults(p) ==
  /\ Doing(p, "createConfig") \/ Doing(p, "resetConfig")
  /\ disk' = [disk EXCEPT !.config = [is |-> "json", keys |-> DefaultKeys]]
  /\ Next1(p) /\ UNCHANGED <<env, past>>

\* Mutant: what has come back in the meantime is not copied.
NoCopy(p) ==
  /\ Doing(p, "regenerateState") /\ GoesTo(p, "state") /\ UNCHANGED <<env, disk, past>>

CopyState(p) ==
  /\ Doing(p, "regenerateState")
  /\ disk' = [disk EXCEPT !.copies = @ \cup ({disk.state.is} \ {"none"})]
  /\ GoesTo(p, "state") /\ UNCHANGED <<env, past>>

\* The file says what the readers of the roadmap make of the milestone.
WriteState(p) ==
  /\ At(p, "state")
  /\ disk' = [disk EXCEPT !.state = [is |-> "made", v |-> MilestoneInfo(disk.roadmap),
                                     phase |-> 0, status |-> "resuming"]]
  /\ Next1(p) /\ UNCHANGED <<env, past>>

ReadForKey(p) ==
  /\ Doing(p, "addNyquistKey") \/ Doing(p, "addAiIntegrationPhaseKey")
  /\ IF disk.config.is # "json" THEN Next1(p)
     ELSE procs' = [procs EXCEPT ![p].at = "key", ![p].config = disk.config.keys]
  /\ UNCHANGED <<env, disk, past>>

AddKey(p) ==
  /\ At(p, "key")
  /\ disk' = [disk EXCEPT !.config =
                [is |-> "json",
                 keys |-> procs[p].config \cup
                   {"workflow", IF Head(procs[p].todo) = "addNyquistKey" THEN "nyquist" ELSE "ai"}]]
  /\ Next1(p) /\ UNCHANGED <<env, past>>

ReadRegistry(p) ==
  /\ Doing(p, "backfillMilestones")
  /\ IF procs[p].missing = {} THEN Next1(p)
     ELSE procs' = [procs EXCEPT ![p].at = "backfill", ![p].registry = disk.registry]
  /\ UNCHANGED <<env, disk, past>>

\* One entry after another; one that fails is left out.
Backfill(p) ==
  /\ At(p, "backfill")
  /\ \E v \in procs[p].missing :
       /\ procs' = [procs EXCEPT ![p].at = "repair", ![p].missing = @ \ {v}]
       /\ disk' = [disk EXCEPT !.registry = <<v>> \o procs[p].registry]
  /\ UNCHANGED <<env, past>>

Finish(p) ==
  /\ At(p, "repair") /\ procs[p].todo = <<>> /\ GoesTo(p, "done")
  /\ past' = [past EXCEPT !.passes = IF @ = 0 \/ past.crossed THEN @ ELSE @ + 1]
  /\ UNCHANGED <<env, disk>>

-----------------------------------------------------------------------------
(* The work on milestones.  What changes the directory ends a row of        *)
(* repairs: 'passes' counts from 1 when nothing has been changed.          *)

Changed == [past EXCEPT !.passes = IF Repairing THEN 0 ELSE 1,
                        !.crossed = @ /\ Repairing, !.mixed = @ \/ Repairing]
WorkGoesOn(stage) == past' = [Changed EXCEPT !.stage = stage]

MakeDir(n) ==
  /\ past.stage = "working" /\ n \in Current.phases \ disk.dirs
  /\ disk' = [disk EXCEPT !.dirs = @ \cup {n},
                          !.state.phase = IF disk.state.is = "none" THEN @ ELSE n]
  /\ WorkGoesOn("working") /\ UNCHANGED <<env, procs>>

Tick(n) ==
  /\ past.stage = "working" /\ n \in (Boxes(disk.roadmap, None) \cap disk.dirs)
  /\ disk' = [disk EXCEPT !.roadmap = [i \in 1..Len(@) |->
                IF @[i] = Box(n, None) THEN Box(n, "tick") ELSE @[i]]]
  /\ WorkGoesOn("working") /\ UNCHANGED <<env, procs>>

\* The registry is read and written by the command that archives, STATE.md too.
ArchiveMilestone ==
  /\ past.stage = "working" /\ Current.phases \cap Boxes(disk.roadmap, None) = {}
  /\ past.now < Len(env.milestones)
  /\ disk' = [disk EXCEPT !.archived = @ \cup {Current.v}, !.registry = <<Current.v>> \o @,
                          !.state.status = IF disk.state.is = "none" THEN @ ELSE "complete",
                          !.old[Current.v] = IF env.moves THEN disk.dirs ELSE {},
                          !.dirs = IF env.moves THEN {} ELSE @]
  /\ WorkGoesOn("archived") /\ UNCHANGED <<env, procs>>

Fold ==
  /\ past.stage = "archived"
  /\ LET lines == disk.roadmap
         own(l) == \/ l.is \in {"phase", "box"} /\ l.n \in Current.phases
                   \/ l.is = "milestone" /\ l.v = Current.v
         mine == {i \in 1..Len(lines) : own(lines[i])}
         folded == SelectSeq(lines, LAMBDA l : own(l) /\ l.is # "milestone")
         unlisted(ls) == SelectSeq(ls, LAMBDA l : ~(l.is = "bullet" /\ l.v = Current.v))
         closed(l) == IF l.v # Current.v THEN l
                      ELSE [l EXCEPT !.mark = IF l.is = "milestone" THEN env.style ELSE "tick"]
     IN  disk' = [disk EXCEPT !.roadmap =
           IF env.style = "details"
           THEN <<Bullet(Current.v, "tick")>> \o unlisted(SubSeq(lines, 1, Least(mine, 1) - 1))
                  \o <<Open(Current.v)>> \o folded \o <<Close>>
                  \o unlisted(SubSeq(lines, Least(mine, 1) + Cardinality(mine), Len(lines)))
           ELSE [i \in 1..Len(lines) |-> closed(lines[i])]]
  /\ WorkGoesOn("folded") /\ UNCHANGED <<env, procs>>

Switch ==
  /\ past.stage = "folded" /\ disk.state.is # "none"
  /\ disk' = [disk EXCEPT !.state = [@ EXCEPT !.v = env.milestones[past.now + 1].v, !.phase = 0,
                                              !.status = "planning"],
                          !.dirs = {}]
  /\ past' = [Changed EXCEPT !.stage = "switched", !.now = @ + 1] /\ UNCHANGED <<env, procs>>

WriteSection ==
  /\ past.stage = "switched"
  /\ disk' = [disk EXCEPT !.roadmap =
                (IF env.bullets THEN <<Bullet(Current.v, "active")>> ELSE <<>>) \o
                IF HeadingsOf(@, Current.v) = {} THEN @ \o Section(env.level, Current, "active")
                ELSE [i \in 1..Len(@) |-> IF i \in HeadingsOf(@, Current.v)
                                          THEN Heading(env.level, Current.v, "active") ELSE @[i]]]
  /\ WorkGoesOn("working") /\ UNCHANGED <<env, procs>>

\* Files are deleted, spoiled, and put back from the repository.
Lose(what) ==
  /\ what \in env.lost \ past.gone
  /\ disk' = CASE what = "state" -> [disk EXCEPT !.state = [is |-> "none", v |-> None, phase |-> 0,
                                                            status |-> None]]
               [] what = "config" -> [disk EXCEPT !.config = [is |-> "none", keys |-> {}]]
               [] what = "registry" -> [disk EXCEPT !.registry = <<>>]
               [] what = "spoiled" -> [disk EXCEPT !.config = [is |-> "broken", keys |-> {}]]
  /\ past' = [Changed EXCEPT !.gone = @ \cup {what},
                             !.notes = IF what = "state" THEN FALSE ELSE @]
  /\ UNCHANGED <<env, procs>>

\* Notes put back after the repair has looked are overwritten: see WriteState.
PutBack ==
  /\ env.back /\ disk.state.is = "none" /\ "back" \notin past.gone
  /\ disk' = [disk EXCEPT !.state = [is |-> "user", v |-> Current.v, phase |-> 0,
                                     status |-> "executing"]]
  /\ past' = [Changed EXCEPT !.gone = @ \cup {"back"},
                             !.notes = \A p \in Procs : ~At(p, "state")]
  /\ UNCHANGED <<env, procs>>

InitIn(e) ==
  /\ env = e
  /\ procs = [p \in Procs |-> Idle]
  /\ LET first == e.milestones[1]
     IN  disk = [roadmap |-> (IF e.bullets THEN <<Bullet(first.v, "active")>> ELSE <<>>)
                               \o Section(e.first, first, "active")
                               \o IF e.planned THEN Section(e.level, e.milestones[2], "planned")
                                  ELSE <<>>,
                 state |-> [is |-> "user", v |-> first.v, phase |-> 0, status |-> "planning"],
                 copies |-> {}, config |-> [is |-> "json", keys |-> e.keys],
                 registry |-> <<>>, archived |-> {}, dirs |-> {},
                 old |-> [v \in {e.milestones[i].v : i \in 1..Len(e.milestones)} |-> {}]]
  /\ past = [now |-> 1, stage |-> "working", notes |-> TRUE, passes |-> 1, crossed |-> FALSE,
             mixed |-> FALSE, gone |-> {}]

Next ==
  \/ \E p \in Procs : \/ Check(p) \/ WriteDefaults(p) \/ CopyState(p) \/ WriteState(p)
                      \/ ReadForKey(p) \/ AddKey(p) \/ ReadRegistry(p) \/ Backfill(p) \/ Finish(p)
  \/ \E n \in Phases : MakeDir(n) \/ Tick(n)
  \/ ArchiveMilestone \/ Fold \/ Switch \/ WriteSection \/ PutBack
  \/ \E what \in env.lost : Lose(what)

-----------------------------------------------------------------------------
TypeOK ==
  /\ disk.state.is \in {"none", "user", "made"} /\ disk.copies \subseteq {"user", "made"}
  /\ disk.config.is \in {"none", "broken", "json"}
  /\ disk.config.keys \subseteq {"workflow", "nyquist", "ai"}
  /\ disk.archived \subseteq Versions /\ disk.dirs \subseteq Phases
  /\ Verdict \in {"broken", "degraded", "healthy"}
  /\ \A p \in Procs : procs[p].missing \subseteq Versions

(* Notes in STATE.md survive its repair (regenerateState), or a copy of     *)
(* them does, unless they are put back between the copy and the writing.   *)
NotesKept == past.notes => disk.state.is = "user" \/ "user" \in disk.copies

(* Repairs end (cmdValidateHealth --repair): after one that nothing has     *)
(* disturbed only the key is left that the defaults do not know, and after *)
(* two of them nothing.                                                    *)
RepairConverges ==
  /\ past.passes >= 2 => \A i \in 1..Len(Repairs) : Repairs[i] = "addAiIntegrationPhaseKey"
  /\ past.passes >= 3 => Repairs = <<>>

(* MILESTONES.md has an entry of each archived milestone once               *)
(* (backfillMilestones), as long as nothing else happens during a repair.  *)
RegistryOnce ==
  ~past.mixed => \A i, j \in 1..Len(disk.registry) :
                   disk.registry[i] = disk.registry[j] => i = j

(* While a milestone is worked on, its readers find it, and its phases      *)
(* (extractCurrentMilestone, getMilestoneInfo, getMilestonePhaseFilter):   *)
(* however the earlier ones were folded, and whatever is planned for later *)
(* at the same level; without STATE.md too, if the sections closed before  *)
(* bear the tick, and not the word only.                                   *)
MilestoneFound ==
  past.stage = "working" =>
    LET lines == disk.roadmap
    IN  /\ disk.state.v = Current.v =>
             /\ MilestoneInfo(lines) = Current.v
             /\ PhasesOf(ExtractCurrent(lines)) = Current.phases
             /\ PhaseFilter(lines) = Current.phases /\ FilterOf(lines, Current.v) = Current.phases
        /\ (disk.state.is = "none" /\ (env.style # "word" \/ env.bullets)
            /\ (env.bullets \/ env.first # 0 \/ past.now > 1)) => MilestoneInfo(lines) = Current.v

(* Work that goes as the workflows say raises no alarm (cmdValidateHealth,  *)
(* cmdValidateConsistency): with no file lost, no phase is reported as     *)
(* missing or unknown while a milestone is worked on.                      *)
NoFalseAlarm ==
  (past.stage = "working" /\ env.lost = {}) =>
    /\ Codes \cap {"W002", "W006", "W007", "W018", "E004"} \subseteq env.other
    /\ Consistency.unknown = {} /\ Consistency.absent \subseteq Boxes(disk.roadmap, None)
=============================================================================
