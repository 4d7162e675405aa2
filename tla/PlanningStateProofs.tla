------------------------ MODULE PlanningStateProofs ------------------------
(***************************************************************************)
(* Proofs about PlanningState for any number of processes and commands,    *)
(* any plans, deaths and plans finished meanwhile: who may be inside the   *)
(* lock, and that no entry of the document is lost.                        *)
(***************************************************************************)
EXTENDS PlanningState, FiniteSetTheorems, TLAPS

\* The commands that write under the lock, and those a process may be run with.
LockOps == {"update", "patch", "advance", "metric", "decision", "blocker", "resolve", "session",
            "progress", "begin", "planned", "complete", "switch", "prune", "sync"}
AnyCommand == {None} \cup [op : LockOps \cup {"waiting", "resume"}, n : Nat]
Environments == [work : [Procs -> AnyCommand], layout : {"fields", "position"}, kills : Nat,
                 slow : BOOLEAN, finishes : Nat, clears : Nat]

Inside == {"held", "read", "written"}
Steps == {"idle", "want", "stale", "archive", "append", "done", "killed"} \cup Inside

\* The records have the fields they began with, whatever these hold.
IsDoc(d) == d = [fields |-> d.fields, position |-> d.position, kind |-> d.kind, done |-> d.done,
                 bar |-> d.bar, stopped |-> d.stopped, entries |-> d.entries]
IsDisk(d) == d = [doc |-> d.doc, lock |-> d.lock, archive |-> d.archive, done |-> d.done,
                  waiting |-> d.waiting]
IsProc(r) == r = [step |-> r.step, cmd |-> r.cmd, doc |-> r.doc, note |-> r.note,
                  pruned |-> r.pruned, pile |-> r.pile]

\* Where a process may be that runs a command.
Placed(cmd, step) ==
  /\ cmd \in AnyCommand /\ step \in Steps
  /\ cmd = None => step = "done"
  /\ cmd.op \in {"waiting", "resume"} => step \in {"idle", "done"}
  /\ step = "held" => cmd.op # "sync"

Shape ==
  /\ env \in Environments
  /\ IsDisk(disk) /\ IsDoc(disk.doc) /\ disk.lock \in Locks
  /\ DOMAIN procs = Procs /\ procs = [p \in Procs |-> procs[p]]
  /\ \A p \in Procs : /\ IsProc(procs[p]) /\ IsDoc(procs[p].doc)
                      /\ Placed(procs[p].cmd, procs[p].step)
  /\ past = [written |-> past.written, raced |-> past.raced, cleared |-> past.cleared]

\* What a step does to the process that takes it.
Moved(p, step, doc, pruned, pile) ==
  /\ DOMAIN procs' = Procs /\ procs' = [q \in Procs |-> procs'[q]]
  /\ IsProc(procs'[p]) /\ procs'[p].cmd = procs[p].cmd
  /\ procs'[p].step = step /\ procs'[p].doc = doc
  /\ procs'[p].pruned = pruned /\ procs'[p].pile = pile
  /\ \A q \in Procs \ {p} : procs'[q] = procs[q]

LEMMA Exchange ==
  ASSUME Shape, NEW p \in Procs, NEW r, IsProc(r), r.cmd = procs[p].cmd,
         procs' = [procs EXCEPT ![p] = r]
  PROVE  Moved(p, r.step, r.doc, r.pruned, r.pile)
  BY DEF Shape, Moved

LEMMA EndedIs ==
  ASSUME Shape, NEW p \in Procs, NEW step
  PROVE  /\ IsProc(Ended(p, step)) /\ Ended(p, step).cmd = procs[p].cmd
         /\ Ended(p, step).step = step /\ Ended(p, step).doc = NoDoc
         /\ Ended(p, step).pruned = {} /\ Ended(p, step).pile = {}
  BY DEF IsProc, Ended, Idle

LEMMA Ends ==
  ASSUME Shape, NEW p \in Procs, NEW step, procs' = [procs EXCEPT ![p] = Ended(p, step)]
  PROVE  Moved(p, step, NoDoc, {}, {})
<1> DEFINE r == Ended(p, step)
<1>1. /\ IsProc(r) /\ r.cmd = procs[p].cmd
      /\ r.step = step /\ r.doc = NoDoc /\ r.pruned = {} /\ r.pile = {}
  BY EndedIs
<1>2. procs' = [procs EXCEPT ![p] = r]
  OBVIOUS
<1> HIDE DEF r
<1>3. Moved(p, r.step, r.doc, r.pruned, r.pile)
  BY <1>1, <1>2, Exchange
<1> QED BY <1>1, <1>3

\* Fields of a process that are set.
With(r, step, doc, note, pruned, pile) ==
  [step |-> step, cmd |-> r.cmd, doc |-> doc, note |-> note, pruned |-> pruned, pile |-> pile]

LEMMA SetStep ==
  ASSUME NEW r, IsProc(r), NEW step
  PROVE  [r EXCEPT !.step = step] = With(r, step, r.doc, r.note, r.pruned, r.pile)
<1>1. PICK a, b, c, d, e, f :
        r = [step |-> a, cmd |-> b, doc |-> c, note |-> d, pruned |-> e, pile |-> f]
  BY DEF IsProc
<1>2. [r EXCEPT !.step = step] =
        [step |-> step, cmd |-> b, doc |-> c, note |-> d, pruned |-> e, pile |-> f]
  BY <1>1
<1>3. r.cmd = b /\ r.doc = c /\ r.note = d /\ r.pruned = e /\ r.pile = f
  BY <1>1
<1> QED BY <1>2, <1>3 DEF With

LEMMA Becomes ==
  ASSUME Shape, NEW p \in Procs, NEW step, NEW doc, NEW note, NEW pruned, NEW pile,
         procs' = [procs EXCEPT ![p] = With(procs[p], step, doc, note, pruned, pile)]
  PROVE  Moved(p, step, doc, pruned, pile)
<1> DEFINE n == With(procs[p], step, doc, note, pruned, pile)
<1>1. /\ IsProc(n) /\ n.cmd = procs[p].cmd
      /\ n.step = step /\ n.doc = doc /\ n.pruned = pruned /\ n.pile = pile
  BY DEF IsProc, With
<1>2. procs' = [procs EXCEPT ![p] = n]
  OBVIOUS
<1> HIDE DEF n
<1>3. Moved(p, n.step, n.doc, n.pruned, n.pile)
  BY <1>1, <1>2, Exchange
<1> QED BY <1>1, <1>3

LEMMA GoesMoves ==
  ASSUME Shape, NEW p \in Procs, NEW step, Goes(p, step)
  PROVE  Moved(p, step, procs[p].doc, procs[p].pruned, procs[p].pile)
<1> DEFINE r == procs[p]
<1>1. IsProc(r)
  BY DEF Shape
<1>2. procs' = [procs EXCEPT ![p] = [r EXCEPT !.step = step]]
  BY DEF Goes, Shape
<1>3. [r EXCEPT !.step = step] = With(r, step, r.doc, r.note, r.pruned, r.pile)
  BY <1>1, SetStep
<1> QED BY <1>2, <1>3, Becomes

\* What the steps do to the process that takes them.
LEMMA Moves ==
  ASSUME Shape, NEW p \in Procs
  PROVE  /\ CheckComplete(p) \/ CheckPrune(p) \/ CountSummaries(p) =>
              \/ Moved(p, "done", NoDoc, {}, {})
              \/ Moved(p, "want", procs[p].doc, procs[p].pruned, procs[p].pile)
         /\ ReadForSync(p) => \/ Moved(p, "done", NoDoc, {}, {})
                              \/ Moved(p, "want", Synced(Sync(disk.doc)), procs[p].pruned, procs[p].pile)
         /\ SignalWaiting(p) \/ SignalResume(p) \/ WriteArchive(p) => Moved(p, "done", NoDoc, {}, {})
         /\ Transform(p) =>
              Moved(p, "read", Transformed(p),
                    IF Op(p) = "prune" THEN Prunable(disk.doc, procs[p].note) ELSE {}, procs[p].pile)
         /\ Release(p) => \/ /\ procs[p].pruned = {}
                             /\ Moved(p, "done", NoDoc, {}, {})
                          \/ /\ procs[p].pruned # {}
                             /\ Moved(p, "archive", NoDoc, procs[p].pruned, procs[p].pile)
         /\ ReadArchive(p) => Moved(p, "append", procs[p].doc, procs[p].pruned, disk.archive)
         /\ Kill(p) => Moved(p, "killed", NoDoc, {}, {})
<1> DEFINE r == procs[p]
           s(step) == With(r, step, r.doc, r.note, r.pruned, r.pile)
<1>0. \A step : [r EXCEPT !.step = step] = s(step)
  BY SetStep DEF Shape
<1>a. \A step, x : /\ [s(step) EXCEPT !.doc = x] = With(r, step, x, r.note, r.pruned, r.pile)
                   /\ [s(step) EXCEPT !.note = x] = With(r, step, r.doc, x, r.pruned, r.pile)
                   /\ [s(step) EXCEPT !.pile = x] = With(r, step, r.doc, r.note, r.pruned, x)
  BY DEF With
<1> HIDE DEF s
<1>1. ASSUME CheckComplete(p) \/ CheckPrune(p) \/ CountSummaries(p)
      PROVE  \/ Moved(p, "done", NoDoc, {}, {})
             \/ Moved(p, "want", r.doc, r.pruned, r.pile)
  <2>1. CASE procs' = [procs EXCEPT ![p] = Ended(p, "done")]
    BY <2>1, Ends
  <2>2. CASE procs' = [procs EXCEPT ![p] = [r EXCEPT !.step = "want"]]
    <3>1. procs' = [procs EXCEPT ![p] = With(r, "want", r.doc, r.note, r.pruned, r.pile)]
      BY <1>0, <2>2 DEF s
    <3> QED BY <3>1, Becomes
  <2>3. ASSUME NEW x, procs' = [procs EXCEPT ![p] = [s("want") EXCEPT !.note = x]]
        PROVE  Moved(p, "want", r.doc, r.pruned, r.pile)
    <3>1. procs' = [procs EXCEPT ![p] = With(r, "want", r.doc, x, r.pruned, r.pile)]
      BY <2>3, <1>a
    <3> QED BY <3>1, Becomes
  <2>4. CASE CheckComplete(p)
    BY <2>1, <2>2, <2>4 DEF CheckComplete, Shape
  <2>5. CASE CheckPrune(p)
    BY <1>0, <2>1, <2>3, <2>5 DEF CheckPrune, Shape
  <2>6. CASE CountSummaries(p)
    <3> DEFINE x == PlansDone
    <3>1. procs' = [procs EXCEPT ![p].step = "want", ![p].note = x]
      BY <2>6 DEF CountSummaries
    <3> HIDE DEF x
    <3>2. procs' = [procs EXCEPT ![p] = [s("want") EXCEPT !.note = x]]
      BY <3>1, <1>0 DEF Shape
    <3> QED BY <2>3, <3>2
  <2> QED BY <1>1, <2>4, <2>5, <2>6
<1>2. ASSUME ReadForSync(p)
      PROVE  \/ Moved(p, "done", NoDoc, {}, {})
             \/ Moved(p, "want", Synced(Sync(disk.doc)), r.pruned, r.pile)
  <2>1. CASE procs' = [procs EXCEPT ![p] = Ended(p, "done")]
    BY <2>1, Ends
  <2> DEFINE d == Synced(Sync(disk.doc))
  <2>2. CASE procs' = [procs EXCEPT ![p].step = "want", ![p].doc = d]
    <3> HIDE DEF d
    <3>1. procs' = [procs EXCEPT ![p] = [s("want") EXCEPT !.doc = d]]
      BY <2>2, <1>0 DEF Shape
    <3>2. procs' = [procs EXCEPT ![p] = With(r, "want", d, r.note, r.pruned, r.pile)]
      BY <3>1, <1>a
    <3> QED BY <3>2, Becomes DEF d
  <2> QED BY <1>2, <2>1, <2>2 DEF ReadForSync
<1>3. ASSUME SignalWaiting(p) \/ SignalResume(p) \/ WriteArchive(p)
      PROVE  Moved(p, "done", NoDoc, {}, {})
  BY <1>3, Ends DEF SignalWaiting, SignalResume, WriteArchive
<1>4. ASSUME Transform(p)
      PROVE  Moved(p, "read", Transformed(p),
                   IF Op(p) = "prune" THEN Prunable(disk.doc, procs[p].note) ELSE {}, procs[p].pile)
  <2> DEFINE d == Transformed(p)
             pr == IF Op(p) = "prune" THEN Prunable(disk.doc, procs[p].note) ELSE {}
  <2>1. procs' = [procs EXCEPT ![p].step = "read", ![p].doc = d, ![p].pruned = pr]
    BY <1>4 DEF Transform
  <2> HIDE DEF d, pr
  <2> DEFINE t == With(r, "read", d, r.note, r.pruned, r.pile)
  <2>a. [s("read") EXCEPT !.doc = d] = t
    BY <1>a
  <2>b. [t EXCEPT !.pruned = pr] = With(r, "read", d, r.note, pr, r.pile)
    BY DEF With
  <2> HIDE DEF t
  <2>2. procs' = [procs EXCEPT ![p] = [t EXCEPT !.pruned = pr]]
    BY <2>1, <2>a, <1>0 DEF Shape
  <2>3. procs' = [procs EXCEPT ![p] = With(r, "read", d, r.note, pr, r.pile)]
    BY <2>2, <2>b
  <2>4. Moved(p, "read", d, pr, r.pile)
    BY <2>3, Becomes
  <2> QED BY <2>4 DEF d, pr
<1>5. ASSUME Release(p)
      PROVE  \/ r.pruned = {} /\ Moved(p, "done", NoDoc, {}, {})
             \/ r.pruned # {} /\ Moved(p, "archive", NoDoc, r.pruned, r.pile)
  <2>1. CASE r.pruned = {}
    <3>1. procs' = [procs EXCEPT ![p] = Ended(p, "done")]
      BY <1>5, <2>1 DEF Release, Shape
    <3> QED BY <2>1, <3>1, Ends
  <2>2. CASE r.pruned # {}
    <3>1. procs' = [procs EXCEPT ![p] = [s("archive") EXCEPT !.doc = NoDoc]]
      BY <1>0, <1>5, <2>2 DEF Release, Shape
    <3>2. procs' = [procs EXCEPT ![p] = With(r, "archive", NoDoc, r.note, r.pruned, r.pile)]
      BY <3>1, <1>a
    <3> QED BY <2>2, <3>2, Becomes
  <2> QED BY <2>1, <2>2
<1>6. ASSUME ReadArchive(p) PROVE Moved(p, "append", r.doc, r.pruned, disk.archive)
  <2>1. procs' = [procs EXCEPT ![p].step = "append", ![p].pile = disk.archive]
    BY <1>6 DEF ReadArchive
  <2>2. procs' = [procs EXCEPT ![p] = [s("append") EXCEPT !.pile = disk.archive]]
    BY <2>1, <1>0 DEF Shape
  <2>3. procs' = [procs EXCEPT ![p] = With(r, "append", r.doc, r.note, r.pruned, disk.archive)]
    BY <2>2, <1>a
  <2> QED BY <2>3, Becomes
<1>7. ASSUME Kill(p) PROVE Moved(p, "killed", NoDoc, {}, {})
  BY <1>7, Ends DEF Kill
<1> QED BY <1>1, <1>2, <1>3, <1>4, <1>5, <1>6, <1>7

-----------------------------------------------------------------------------
\* A document that has the entries of another.
SameEntries(d, new) == IsDoc(new) /\ new.entries = d.entries

LEMMA DocFields ==
  ASSUME NEW d, IsDoc(d), NEW x
  PROVE  /\ SameEntries(d, [d EXCEPT !.fields = x]) /\ SameEntries(d, [d EXCEPT !.position = x])
         /\ SameEntries(d, [d EXCEPT !.kind = x]) /\ SameEntries(d, [d EXCEPT !.done = x])
         /\ SameEntries(d, [d EXCEPT !.bar = x]) /\ SameEntries(d, [d EXCEPT !.stopped = x])
         /\ IsDoc([d EXCEPT !.entries = x]) /\ [d EXCEPT !.entries = x].entries = x
<1>1. PICK a, b, c, e, f, g, h :
        d = [fields |-> a, position |-> b, kind |-> c, done |-> e, bar |-> f, stopped |-> g, entries |-> h]
  BY DEF IsDoc
<1>2. d.entries = h
  BY <1>1
<1>3. SameEntries(d, [d EXCEPT !.fields = x])
  BY <1>1, <1>2 DEF SameEntries, IsDoc
<1>4. SameEntries(d, [d EXCEPT !.position = x])
  BY <1>1, <1>2 DEF SameEntries, IsDoc
<1>5. SameEntries(d, [d EXCEPT !.kind = x])
  BY <1>1, <1>2 DEF SameEntries, IsDoc
<1>6. SameEntries(d, [d EXCEPT !.done = x])
  BY <1>1, <1>2 DEF SameEntries, IsDoc
<1>7. SameEntries(d, [d EXCEPT !.bar = x])
  BY <1>1, <1>2 DEF SameEntries, IsDoc
<1>8. SameEntries(d, [d EXCEPT !.stopped = x])
  BY <1>1, <1>2 DEF SameEntries, IsDoc
<1>9. IsDoc([d EXCEPT !.entries = x]) /\ [d EXCEPT !.entries = x].entries = x
  BY <1>1 DEF IsDoc
<1> QED BY <1>3, <1>4, <1>5, <1>6, <1>7, <1>8, <1>9

LEMMA Chained ==
  ASSUME NEW d, NEW e, NEW f, SameEntries(d, e), SameEntries(e, f)
  PROVE  SameEntries(d, f)
  BY DEF SameEntries

\* The parts of a command's work that leave the entries alone.
LEMMA SyncedEntries ==
  ASSUME NEW d, IsDoc(d)
  PROVE  SameEntries(d, Synced(d))
<1> DEFINE k == Normalized(BodyStatus(d))
           e == [d EXCEPT !.kind = k]
           n == PlansDone
<1>1. SameEntries(d, e)
  BY DocFields
<1>2. Synced(d) = [e EXCEPT !.done = n]
  BY DEF Synced
<1> HIDE DEF e, n
<1>3. SameEntries(e, [e EXCEPT !.done = n])
  BY <1>1, DocFields DEF SameEntries
<1> QED BY <1>1, <1>2, <1>3, Chained

LEMMA StatusEntries ==
  ASSUME NEW d, IsDoc(d), NEW status
  PROVE  /\ SameEntries(d, ReplaceStatus(d, status))
         /\ SameEntries(d, ReplaceStatusIfTemplate(d, status))
         /\ SameEntries(d, Update(d, status))
<1> SameEntries(d, d)
  BY DEF SameEntries
<1>1. SameEntries(d, ReplaceStatus(d, status))
  BY DocFields DEF ReplaceStatus
<1>2. SameEntries(d, ReplaceStatusIfTemplate(d, status))
  BY <1>1 DEF ReplaceStatusIfTemplate
<1>3. SameEntries(d, Update(d, status))
  BY DocFields DEF Update
<1> QED BY <1>1, <1>2, <1>3

LEMMA PositionEntries ==
  ASSUME NEW d, IsDoc(d), NEW status, NEW plan, NEW total
  PROVE  SameEntries(d, UpdatePosition(d, status, plan, total))
<1>1. CASE ~d.position.has
  BY <1>1 DEF UpdatePosition, SameEntries
<1>2. CASE d.position.has
  <2>1. PICK x, y, z : UpdatePosition(d, status, plan, total) =
                         [d EXCEPT !.position.status = x, !.position.plan = y, !.position.total = z]
    BY <1>2 DEF UpdatePosition
  <2> DEFINE e == [d EXCEPT !.position = [d.position EXCEPT !.status = x]]
             f == [e EXCEPT !.position = [e.position EXCEPT !.plan = y]]
             g == [f EXCEPT !.position = [f.position EXCEPT !.total = z]]
  <2>2. UpdatePosition(d, status, plan, total) = g
    BY <2>1
  <2>3. SameEntries(d, e)
    BY DocFields
  <2> HIDE DEF e
  <2>4. SameEntries(e, f)
    BY <2>3, DocFields DEF SameEntries
  <2> HIDE DEF f
  <2>5. SameEntries(f, g)
    BY <2>4, DocFields DEF SameEntries
  <2> HIDE DEF g
  <2> QED BY <2>2, <2>3, <2>4, <2>5, Chained
<1> QED BY <1>1, <1>2

LEMMA AdvanceEntries == ASSUME NEW d, IsDoc(d) PROVE SameEntries(d, AdvancePlan(d))
<1> DEFINE at == IF d.fields.has THEN d.fields ELSE d.position
           bumped == IF d.fields.has THEN [d EXCEPT !.fields.plan = at.plan + 1]
                     ELSE [d EXCEPT !.position.plan = at.plan + 1]
           one == ReplaceStatusIfTemplate(d, <<"verify", 0>>)
           two == ReplaceStatusIfTemplate(bumped, <<"ready", 0>>)
<1>1. \/ AdvancePlan(d) = d
      \/ AdvancePlan(d) = UpdatePosition(one, <<"verify", 0>>, 0, 0)
      \/ AdvancePlan(d) = UpdatePosition(two, <<"ready", 0>>, at.plan + 1, at.total)
  BY DEF AdvancePlan
<1>2. SameEntries(d, bumped)
  BY DocFields
<1>3. SameEntries(d, one)
  BY StatusEntries
<1> HIDE DEF bumped, one, at
<1>4. SameEntries(bumped, two)
  BY <1>2, StatusEntries DEF SameEntries
<1> HIDE DEF two
<1>5. SameEntries(one, UpdatePosition(one, <<"verify", 0>>, 0, 0))
  BY <1>3, PositionEntries DEF SameEntries
<1>6. SameEntries(two, UpdatePosition(two, <<"ready", 0>>, at.plan + 1, at.total))
  BY <1>4, PositionEntries DEF SameEntries
<1>7. SameEntries(d, d)
  BY DEF SameEntries
<1> QED BY <1>1, <1>2, <1>3, <1>4, <1>5, <1>6, <1>7 DEF SameEntries

LEMMA PhaseEntries ==
  ASSUME NEW d, IsDoc(d), NEW n
  PROVE  /\ SameEntries(d, BeginPhase(d, n)) /\ SameEntries(d, PlannedPhase(d, n))
         /\ SameEntries(d, CompletePhase(d, n)) /\ SameEntries(d, MilestoneSwitch(d))
<1>0. SameEntries(d, d)
  BY DEF SameEntries
<1>1. SameEntries(d, BeginPhase(d, n))
  <2> DEFINE x == Begun(d.fields, n)
             y == Begun(d.position, n)
             e == [d EXCEPT !.fields = x]
  <2>1. SameEntries(d, e)
    BY DocFields
  <2>2. BeginPhase(d, n) \in {d, [e EXCEPT !.position = y]}
    BY DEF BeginPhase
  <2> HIDE DEF e, y
  <2>3. SameEntries(e, [e EXCEPT !.position = y])
    BY <2>1, DocFields DEF SameEntries
  <2> QED BY <1>0, <2>1, <2>2, <2>3, Chained
<1>2. SameEntries(d, PlannedPhase(d, n))
  <2> DEFINE e == ReplaceStatusIfTemplate(d, <<"ready", 0>>)
             f == IF d.fields.has THEN [e EXCEPT !.fields.total = Plans[n]] ELSE e
  <2>1. SameEntries(d, e)
    BY StatusEntries
  <2>2. PlannedPhase(d, n) = UpdatePosition(f, <<"ready", 0>>, 0, 0)
    BY DEF PlannedPhase
  <2> HIDE DEF e
  <2>3. SameEntries(e, f)
    BY <2>1, DocFields DEF SameEntries
  <2> HIDE DEF f
  <2>4. SameEntries(f, UpdatePosition(f, <<"ready", 0>>, 0, 0))
    BY <2>3, PositionEntries DEF SameEntries
  <2> QED BY <2>1, <2>2, <2>3, <2>4 DEF SameEntries
<1>3. SameEntries(d, CompletePhase(d, n))
  <2> DEFINE e == ReplaceStatus(d, <<"complete", n>>)
             f == [e EXCEPT !.position = [e.position EXCEPT !.phase = n]]
             g == [f EXCEPT !.position = [f.position EXCEPT !.status = <<"complete", n>>]]
  <2>1. SameEntries(d, e)
    BY StatusEntries
  <2>2. CompletePhase(d, n) \in {e, g}
    BY DEF CompletePhase
  <2> HIDE DEF e
  <2>3. SameEntries(e, f)
    BY <2>1, DocFields DEF SameEntries
  <2> HIDE DEF f
  <2>4. SameEntries(f, g)
    BY <2>3, DocFields DEF SameEntries
  <2> HIDE DEF g
  <2> QED BY <2>1, <2>2, <2>3, <2>4 DEF SameEntries
<1>4. SameEntries(d, MilestoneSwitch(d))
  <2> DEFINE e == [d EXCEPT !.position = [has |-> TRUE, phase |-> 0, plan |-> 0, total |-> 0,
                                          status |-> <<"defining", 0>>]]
             f == [e EXCEPT !.kind = "planning"]
             g == [f EXCEPT !.done = 0]
  <2>1. SameEntries(d, e)
    BY DocFields
  <2>2. MilestoneSwitch(d) = g
    BY DEF MilestoneSwitch
  <2> HIDE DEF e
  <2>3. SameEntries(e, f)
    BY <2>1, DocFields DEF SameEntries
  <2> HIDE DEF f
  <2>4. SameEntries(f, g)
    BY <2>3, DocFields DEF SameEntries
  <2> HIDE DEF g
  <2> QED BY <2>1, <2>2, <2>3, <2>4 DEF SameEntries
<1> QED BY <1>1, <1>2, <1>3, <1>4

\* Only resolving and pruning take entries out, and pruning keeps them.
LEMMA TransformedEntries ==
  ASSUME Shape, NEW p \in Procs, Op(p) \in LockOps, Op(p) # "sync"
  PROVE  /\ IsDoc(Transformed(p))
         /\ Op(p) \notin {"resolve", "prune"} => disk.doc.entries \subseteq Transformed(p).entries
         /\ Op(p) = "resolve" => {e \in disk.doc.entries : e.kind # "blocker"} \subseteq Transformed(p).entries
         /\ Op(p) = "prune" => disk.doc.entries \subseteq
                                 Transformed(p).entries \cup Prunable(disk.doc, procs[p].note)
<1> DEFINE d == disk.doc
           n == procs[p].cmd.n
           op == Op(p)
           T == Transformed(p)
           kept(new) == [Synced(new) EXCEPT !.done = d.done]
           Good(new) == IsDoc(new) /\ d.entries \subseteq new.entries
<1>0. IsDoc(d)
  BY DEF Shape
<1>1. ASSUME NEW e, SameEntries(d, e) PROVE Good(Synced(e)) /\ Good(kept(e)) /\ Good(e)
  <2>1. SameEntries(e, Synced(e))
    BY <1>1, SyncedEntries DEF SameEntries
  <2> DEFINE f == Synced(e)
  <2> HIDE DEF f
  <2>2. SameEntries(f, [f EXCEPT !.done = d.done])
    BY <2>1, DocFields DEF SameEntries, f
  <2> QED BY <1>1, <2>1, <2>2 DEF SameEntries, f
<1>2. ASSUME NEW x PROVE /\ IsDoc(Synced([d EXCEPT !.entries = x]))
                         /\ Synced([d EXCEPT !.entries = x]).entries = x
  <2> DEFINE e == [d EXCEPT !.entries = x]
  <2>1. IsDoc(e) /\ e.entries = x
    BY <1>0, DocFields
  <2> HIDE DEF e
  <2>2. SameEntries(e, Synced(e))
    BY <2>1, SyncedEntries
  <2> QED BY <2>1, <2>2 DEF SameEntries, e
<1>3. /\ op = "update" => T = kept(Update(d, <<"custom", 0>>))
      /\ op = "patch" => T = Synced(Patch(d, <<"custom", 0>>))
      /\ op = "advance" => T = Synced(AdvancePlan(d))
      /\ op = "metric" => T = Synced(RecordMetric(d, p))
      /\ op = "decision" => T = Synced(AddDecision(d, p, n))
      /\ op = "blocker" => T = Synced(AddBlocker(d, p))
      /\ op = "resolve" => T = Synced(ResolveBlocker(d))
  BY DEF Transformed
<1>4. /\ op = "session" => T = Synced(RecordSession(d, p))
      /\ op = "progress" => T = Synced(UpdateProgress(d, procs[p].note))
      /\ op = "begin" => T = Synced(BeginPhase(d, n))
      /\ op = "planned" => T = kept(PlannedPhase(d, n))
      /\ op = "complete" => T = Synced(CompletePhase(d, n))
      /\ op = "switch" => T = MilestoneSwitch(d)
      /\ op = "prune" => T = Synced(Prune(d, procs[p].note))
  BY DEF Transformed
<1>5. SameEntries(d, Update(d, <<"custom", 0>>)) /\ SameEntries(d, Patch(d, <<"custom", 0>>))
  BY <1>0, StatusEntries DEF Patch
<1>6. /\ SameEntries(d, AdvancePlan(d)) /\ SameEntries(d, BeginPhase(d, n))
      /\ SameEntries(d, PlannedPhase(d, n)) /\ SameEntries(d, CompletePhase(d, n))
      /\ SameEntries(d, MilestoneSwitch(d))
  BY <1>0, AdvanceEntries, PhaseEntries
<1>7. SameEntries(d, RecordSession(d, p))
  BY <1>0, DocFields DEF RecordSession
<1>8. SameEntries(d, UpdateProgress(d, procs[p].note))
  BY <1>0, DocFields DEF UpdateProgress, SameEntries
<1> HIDE DEF d, T, op, kept
<1>9. op \in {"update", "patch", "advance", "session", "progress", "begin", "planned", "complete", "switch"}
        => Good(T)
  BY <1>1, <1>3, <1>4, <1>5, <1>6, <1>7, <1>8
<1>10. op \in {"metric", "decision", "blocker"} => Good(T)
  BY <1>2, <1>3 DEF RecordMetric, AddDecision, AddBlocker
<1>11. op = "resolve" => /\ IsDoc(T)
                         /\ T.entries = {e \in d.entries : e.kind # "blocker"}
  BY <1>2, <1>3 DEF ResolveBlocker
<1>12. op = "prune" => /\ IsDoc(T)
                       /\ T.entries = d.entries \ Prunable(d, procs[p].note)
  BY <1>2, <1>4 DEF Prune
<1>13. op \in {"update", "patch", "advance", "session", "progress", "begin", "planned", "complete",
               "switch", "metric", "decision", "blocker", "resolve", "prune"}
  BY DEF LockOps, op
<1> QED BY <1>9, <1>10, <1>11, <1>12, <1>13 DEF d, T, op

LEMMA SyncEntries == ASSUME NEW d, IsDoc(d) PROVE IsDoc(Synced(Sync(d)))
<1>1. IsDoc(Sync(d))
  <2> DEFINE x == Plans[SyncedPhase]
             y == PlansDone
             e == [d EXCEPT !.fields = [d.fields EXCEPT !.total = x]]
  <2>1. Sync(d) \in {d, [e EXCEPT !.bar = y]}
    BY DEF Sync
  <2>2. IsDoc(e)
    BY DocFields DEF SameEntries
  <2> HIDE DEF e, y
  <2>3. IsDoc([e EXCEPT !.bar = y])
    BY <2>2, DocFields DEF SameEntries
  <2> QED BY <2>1, <2>3
<1> QED BY <1>1, SyncedEntries DEF SameEntries

LEMMA DiskFields ==
  ASSUME NEW d, IsDisk(d), NEW x
  PROVE  /\ /\ IsDisk([d EXCEPT !.doc = x]) /\ [d EXCEPT !.doc = x].doc = x
            /\ [d EXCEPT !.doc = x].lock = d.lock /\ [d EXCEPT !.doc = x].archive = d.archive
         /\ /\ IsDisk([d EXCEPT !.lock = x]) /\ [d EXCEPT !.lock = x].lock = x
            /\ [d EXCEPT !.lock = x].doc = d.doc /\ [d EXCEPT !.lock = x].archive = d.archive
         /\ /\ IsDisk([d EXCEPT !.archive = x]) /\ [d EXCEPT !.archive = x].archive = x
            /\ [d EXCEPT !.archive = x].doc = d.doc /\ [d EXCEPT !.archive = x].lock = d.lock
         /\ /\ IsDisk([d EXCEPT !.waiting = x]) /\ [d EXCEPT !.waiting = x].doc = d.doc
            /\ [d EXCEPT !.waiting = x].lock = d.lock /\ [d EXCEPT !.waiting = x].archive = d.archive
         /\ /\ IsDisk([d EXCEPT !.done = x]) /\ [d EXCEPT !.done = x].doc = d.doc
            /\ [d EXCEPT !.done = x].lock = d.lock /\ [d EXCEPT !.done = x].archive = d.archive
<1>1. PICK a, b, c, e, f : d = [doc |-> a, lock |-> b, archive |-> c, done |-> e, waiting |-> f]
  BY DEF IsDisk
<1>2. [d EXCEPT !.doc = x] = [doc |-> x, lock |-> b, archive |-> c, done |-> e, waiting |-> f]
  BY <1>1
<1>3. [d EXCEPT !.lock = x] = [doc |-> a, lock |-> x, archive |-> c, done |-> e, waiting |-> f]
  BY <1>1
<1>4. [d EXCEPT !.archive = x] = [doc |-> a, lock |-> b, archive |-> x, done |-> e, waiting |-> f]
  BY <1>1
<1>5. [d EXCEPT !.waiting = x] = [doc |-> a, lock |-> b, archive |-> c, done |-> e, waiting |-> x]
  BY <1>1
<1>6. [d EXCEPT !.done = x] = [doc |-> a, lock |-> b, archive |-> c, done |-> x, waiting |-> f]
  BY <1>1
<1> QED BY <1>1, <1>2, <1>3, <1>4, <1>5, <1>6 DEF IsDisk

\* A process that moves keeps its shape, and so does the rest.
ProcsShape ==
  /\ DOMAIN procs = Procs /\ procs = [q \in Procs |-> procs[q]]
  /\ \A q \in Procs : /\ IsProc(procs[q]) /\ IsDoc(procs[q].doc)
                      /\ Placed(procs[q].cmd, procs[q].step)
DiskShape == IsDisk(disk) /\ IsDoc(disk.doc) /\ disk.lock \in Locks
PastShape == past = [written |-> past.written, raced |-> past.raced, cleared |-> past.cleared]

LEMMA MovedShape ==
  ASSUME ProcsShape, NEW p \in Procs, NEW step, NEW doc, NEW pruned, NEW pile,
         IsDoc(doc), Placed(procs[p].cmd, step), Moved(p, step, doc, pruned, pile)
  PROVE  ProcsShape'
<1>1. \A q \in Procs : /\ IsProc(procs[q]) /\ IsDoc(procs[q].doc)
                       /\ Placed(procs[q].cmd, procs[q].step)
  BY DEF ProcsShape
<1>2. /\ DOMAIN procs' = Procs /\ procs' = [q \in Procs |-> procs'[q]]
      /\ IsProc(procs'[p]) /\ procs'[p].cmd = procs[p].cmd
      /\ procs'[p].step = step /\ procs'[p].doc = doc
      /\ \A q \in Procs \ {p} : procs'[q] = procs[q]
  BY DEF Moved
<1>3. ASSUME NEW q \in Procs
      PROVE  IsProc(procs'[q]) /\ IsDoc(procs'[q].doc) /\ Placed(procs'[q].cmd, procs'[q].step)
  <2>1. CASE q = p
    BY <1>2, <2>1
  <2>2. CASE q # p
    BY <1>1, <1>2, <2>2
  <2> QED BY <2>1, <2>2
<1> QED BY <1>2, <1>3 DEF ProcsShape

\* What all steps have in common, as far as the lock and the entries are about it.
LEMMA Rest ==
  ASSUME Shape, [Next]_vars
  PROVE  env' \in Environments /\ env'.slow = env.slow
<1>1. env \in Environments
  BY DEF Shape
<1>2. CASE env' = env
  BY <1>1, <1>2
<1>3. ASSUME NEW p \in Procs, Kill(p) PROVE env' \in Environments /\ env'.slow = env.slow
  BY <1>1, <1>3 DEF Kill, Environments
<1>4. ASSUME NEW n \in Phases, FinishPlan(n) \/ ClearPhase(n)
      PROVE  env' \in Environments /\ env'.slow = env.slow
  BY <1>1, <1>4 DEF FinishPlan, ClearPhase, Environments
<1> QED
  BY <1>2, <1>3, <1>4
     DEF Next, vars, CheckComplete, CheckPrune, CountSummaries, ReadForSync, SignalWaiting,
         SignalResume, Start, Acquire, SeesStale, BreakLock, Transform, Write, Release, ReadArchive,
         WriteArchive, LockAges

\* The steps of a process: where it is, and what becomes of it.
LEMMA ProcessMoves ==
  ASSUME Shape, NEW p \in Procs
  PROVE  /\ CheckComplete(p) \/ CheckPrune(p) \/ CountSummaries(p) \/ Start(p) =>
              /\ At(p, "idle") /\ UNCHANGED <<disk, past>> /\ Op(p) \notin {"waiting", "resume", "sync"}
              /\ \/ Moved(p, "done", NoDoc, {}, {})
                 \/ Moved(p, "want", procs[p].doc, procs[p].pruned, procs[p].pile)
         /\ ReadForSync(p) =>
              /\ At(p, "idle") /\ UNCHANGED <<disk, past>> /\ Op(p) = "sync"
              /\ \/ Moved(p, "done", NoDoc, {}, {})
                 \/ Moved(p, "want", Synced(Sync(disk.doc)), procs[p].pruned, procs[p].pile)
         /\ SignalWaiting(p) \/ SignalResume(p) =>
              /\ At(p, "idle") /\ UNCHANGED past /\ \E b : disk' = [disk EXCEPT !.waiting = b]
              /\ Moved(p, "done", NoDoc, {}, {})
         /\ Acquire(p) =>
              /\ At(p, "want") /\ disk.lock.by = Free /\ UNCHANGED past
              /\ disk' = [disk EXCEPT !.lock = [by |-> p, old |-> FALSE]]
              /\ Moved(p, IF Op(p) = "sync" THEN "read" ELSE "held", procs[p].doc, procs[p].pruned, procs[p].pile)
         /\ SeesStale(p) =>
              /\ At(p, "want") /\ disk.lock.by # Free /\ disk.lock.old /\ UNCHANGED <<disk, past>>
              /\ Moved(p, "stale", procs[p].doc, procs[p].pruned, procs[p].pile)
         /\ BreakLock(p) =>
              /\ At(p, "stale") /\ UNCHANGED past /\ disk' = [disk EXCEPT !.lock = Unlocked]
              /\ Moved(p, "want", procs[p].doc, procs[p].pruned, procs[p].pile)
         /\ Transform(p) =>
              /\ At(p, "held") /\ UNCHANGED disk
              /\ Moved(p, "read", Transformed(p),
                       IF Op(p) = "prune" THEN Prunable(disk.doc, procs[p].note) ELSE {}, procs[p].pile)
         /\ Write(p) =>
              /\ At(p, "read") /\ disk' = [disk EXCEPT !.doc = procs[p].doc]
              /\ Moved(p, "written", procs[p].doc, procs[p].pruned, procs[p].pile)
         /\ Release(p) =>
              /\ At(p, "written") /\ UNCHANGED past /\ disk' = [disk EXCEPT !.lock = Unlocked]
              /\ \/ procs[p].pruned = {} /\ Moved(p, "done", NoDoc, {}, {})
                 \/ procs[p].pruned # {} /\ Moved(p, "archive", NoDoc, procs[p].pruned, procs[p].pile)
         /\ ReadArchive(p) =>
              /\ At(p, "archive") /\ UNCHANGED <<disk, past>>
              /\ Moved(p, "append", procs[p].doc, procs[p].pruned, disk.archive)
         /\ WriteArchive(p) =>
              /\ At(p, "append")
              /\ disk' = [disk EXCEPT !.archive = procs[p].pile \cup procs[p].pruned]
              /\ Moved(p, "done", NoDoc, {}, {})
         /\ Kill(p) =>
              /\ procs[p].step \notin {"idle", "done", "killed"} /\ UNCHANGED disk
              /\ Moved(p, "killed", NoDoc, {}, {})
<1>1. ASSUME CheckComplete(p) \/ CheckPrune(p) \/ CountSummaries(p) \/ Start(p)
      PROVE  /\ At(p, "idle") /\ UNCHANGED <<disk, past>> /\ Op(p) \notin {"waiting", "resume", "sync"}
             /\ \/ Moved(p, "done", NoDoc, {}, {})
                \/ Moved(p, "want", procs[p].doc, procs[p].pruned, procs[p].pile)
  BY <1>1, Moves, GoesMoves DEF CheckComplete, CheckPrune, CountSummaries, Start
<1>2. ReadForSync(p) => At(p, "idle") /\ UNCHANGED <<disk, past>> /\ Op(p) = "sync"
  BY DEF ReadForSync
<1>3. SignalWaiting(p) \/ SignalResume(p) =>
        At(p, "idle") /\ UNCHANGED past /\ \E b : disk' = [disk EXCEPT !.waiting = b]
  BY DEF SignalWaiting, SignalResume
<1>4. ASSUME Acquire(p)
      PROVE  /\ At(p, "want") /\ disk.lock.by = Free /\ UNCHANGED past
             /\ disk' = [disk EXCEPT !.lock = [by |-> p, old |-> FALSE]]
             /\ Moved(p, IF Op(p) = "sync" THEN "read" ELSE "held", procs[p].doc, procs[p].pruned, procs[p].pile)
  BY <1>4, GoesMoves DEF Acquire
<1>5. ASSUME SeesStale(p)
      PROVE  /\ At(p, "want") /\ disk.lock.by # Free /\ disk.lock.old /\ UNCHANGED <<disk, past>>
             /\ Moved(p, "stale", procs[p].doc, procs[p].pruned, procs[p].pile)
  BY <1>5, GoesMoves DEF SeesStale
<1>6. ASSUME BreakLock(p)
      PROVE  /\ At(p, "stale") /\ UNCHANGED past /\ disk' = [disk EXCEPT !.lock = Unlocked]
             /\ Moved(p, "want", procs[p].doc, procs[p].pruned, procs[p].pile)
  BY <1>6, GoesMoves DEF BreakLock
<1>7. Transform(p) => At(p, "held") /\ UNCHANGED disk
  BY DEF Transform
<1>8. ASSUME Write(p)
      PROVE  /\ At(p, "read") /\ disk' = [disk EXCEPT !.doc = procs[p].doc]
             /\ Moved(p, "written", procs[p].doc, procs[p].pruned, procs[p].pile)
  BY <1>8, GoesMoves DEF Write
<1>9. Release(p) => At(p, "written") /\ UNCHANGED past /\ disk' = [disk EXCEPT !.lock = Unlocked]
  BY DEF Release
<1>10. ReadArchive(p) => At(p, "archive") /\ UNCHANGED <<disk, past>>
  BY DEF ReadArchive
<1>11. WriteArchive(p) => /\ At(p, "append")
                          /\ disk' = [disk EXCEPT !.archive = procs[p].pile \cup procs[p].pruned]
  BY DEF WriteArchive
<1>12. Kill(p) => procs[p].step \notin {"idle", "done", "killed"} /\ UNCHANGED disk
  BY DEF Kill
<1> QED
  BY <1>1, <1>2, <1>3, <1>4, <1>5, <1>6, <1>7, <1>8, <1>9, <1>10, <1>11, <1>12, Moves

LEMMA NoDocIs == IsDoc(NoDoc) /\ NoDoc.entries = {}
  BY DEF NoDoc, IsDoc

\* What becomes of the entries remembered.
PastMoves(w, r) ==
  past' = [written |-> past.written \cup w, raced |-> past.raced \cup r, cleared |-> past.cleared]

LEMMA PastIs ==
  ASSUME PastShape, NEW p \in Procs
  PROVE  /\ Transform(p) => \E w : past' = [written |-> w, raced |-> past.raced, cleared |-> past.cleared]
         /\ Write(p) => PastMoves({e \in procs[p].doc.entries : e.by = p},
                                  IF Op(p) = "sync" THEN disk.doc.entries \ procs[p].doc.entries ELSE {})
         /\ WriteArchive(p) => PastMoves({}, disk.archive \ (procs[p].pile \cup procs[p].pruned))
         /\ Kill(p) => PastMoves({}, IF At(p, "read") THEN {} ELSE procs[p].pruned)
<1>1. PICK a, b, c : past = [written |-> a, raced |-> b, cleared |-> c]
  BY DEF PastShape
<1>2. past.written = a /\ past.raced = b /\ past.cleared = c
  BY <1>1
<1>a. \A x : [past EXCEPT !.written = x] = [written |-> x, raced |-> b, cleared |-> c]
  BY <1>1
<1>b. \A x : [past EXCEPT !.raced = x] = [written |-> a, raced |-> x, cleared |-> c]
  BY <1>1
<1>c. \A x, y : [[written |-> x, raced |-> b, cleared |-> c] EXCEPT !.raced = y]
                  = [written |-> x, raced |-> y, cleared |-> c]
  OBVIOUS
<1>d. \A x, y : [past EXCEPT !.written = x, !.raced = y] = [written |-> x, raced |-> y, cleared |-> c]
  BY <1>a, <1>c
<1>3. \A x, y : /\ [past EXCEPT !.written = x] = [written |-> x, raced |-> b, cleared |-> c]
                /\ [past EXCEPT !.raced = y] = [written |-> a, raced |-> y, cleared |-> c]
                /\ [past EXCEPT !.written = x, !.raced = y] = [written |-> x, raced |-> y, cleared |-> c]
  BY <1>a, <1>b, <1>d
<1>4. Transform(p) => \E w : past' = [written |-> w, raced |-> past.raced, cleared |-> past.cleared]
  <2> SUFFICES ASSUME Transform(p) PROVE \E w : past' = [written |-> w, raced |-> b, cleared |-> c]
    BY <1>2
  <2>1. CASE Op(p) # "resolve"
    BY <1>1, <2>1 DEF Transform
  <2>2. CASE Op(p) = "resolve"
    <3> DEFINE w == {e \in past.written : e \notin disk.doc.entries \/ e.kind # "blocker"}
    <3>1. past' = [past EXCEPT !.written = w]
      BY <2>2 DEF Transform
    <3> HIDE DEF w
    <3> QED BY <1>3, <3>1
  <2> QED BY <2>1, <2>2
<1>5. ASSUME Write(p)
      PROVE  PastMoves({e \in procs[p].doc.entries : e.by = p},
                       IF Op(p) = "sync" THEN disk.doc.entries \ procs[p].doc.entries ELSE {})
  <2> DEFINE w == {e \in procs[p].doc.entries : e.by = p}
             r == IF Op(p) = "sync" THEN disk.doc.entries \ procs[p].doc.entries ELSE {}
  <2>1. past' = [past EXCEPT !.written = past.written \cup w, !.raced = past.raced \cup r]
    BY <1>5 DEF Write
  <2> HIDE DEF w, r
  <2>2. PastMoves(w, r)
    BY <1>2, <1>3, <2>1 DEF PastMoves
  <2> QED BY <2>2 DEF w, r
<1>6. ASSUME WriteArchive(p)
      PROVE  PastMoves({}, disk.archive \ (procs[p].pile \cup procs[p].pruned))
  <2> DEFINE r == disk.archive \ (procs[p].pile \cup procs[p].pruned)
  <2>1. past' = [past EXCEPT !.raced = past.raced \cup r]
    BY <1>6 DEF WriteArchive
  <2> HIDE DEF r
  <2>2. past' = [written |-> a, raced |-> past.raced \cup r, cleared |-> c]
    BY <1>2, <1>3, <2>1
  <2>3. a = past.written \cup {} /\ c = past.cleared
    BY <1>2
  <2>4. PastMoves({}, r)
    BY <2>2, <2>3 DEF PastMoves
  <2> QED BY <2>4 DEF r
<1>7. ASSUME Kill(p)
      PROVE  PastMoves({}, IF At(p, "read") THEN {} ELSE procs[p].pruned)
  <2> DEFINE r == IF At(p, "read") THEN {} ELSE procs[p].pruned
  <2>1. past' = [past EXCEPT !.raced = past.raced \cup r]
    BY <1>7 DEF Kill
  <2> HIDE DEF r
  <2>2. past' = [written |-> a, raced |-> past.raced \cup r, cleared |-> c]
    BY <1>2, <1>3, <2>1
  <2>3. a = past.written \cup {} /\ c = past.cleared
    BY <1>2
  <2>4. PastMoves({}, r)
    BY <2>2, <2>3 DEF PastMoves
  <2> QED BY <2>4 DEF r
<1> QED BY <1>4, <1>5, <1>6, <1>7

LEMMA PastKeeps == ASSUME PastShape, [Next]_vars PROVE PastShape'
<1>1. CASE past' = past
  BY <1>1 DEF PastShape
<1>2. ASSUME NEW w, NEW r, NEW c, past' = [written |-> w, raced |-> r, cleared |-> c] PROVE PastShape'
  BY <1>2 DEF PastShape
<1>3. ASSUME NEW p \in Procs, Transform(p) \/ Write(p) \/ WriteArchive(p) \/ Kill(p) PROVE PastShape'
  BY <1>2, <1>3, PastIs DEF PastMoves
<1>4. ASSUME NEW n \in Phases, ClearPhase(n) PROVE PastShape'
  <2>1. past' = [past EXCEPT !.cleared = TRUE]
    BY <1>4 DEF ClearPhase
  <2>2. past' = [written |-> past.written, raced |-> past.raced, cleared |-> TRUE]
    BY <2>1 DEF PastShape
  <2> QED BY <1>2, <2>2
<1>5. CASE /\ \A p \in Procs : ~(Transform(p) \/ Write(p) \/ WriteArchive(p) \/ Kill(p))
           /\ \A n \in Phases : ~ClearPhase(n)
  <2>1. past' = past
    BY <1>5 DEF Next, vars, CheckComplete, CheckPrune, CountSummaries, ReadForSync, SignalWaiting,
                SignalResume, Start, Acquire, SeesStale, BreakLock, Release, ReadArchive,
                LockAges, FinishPlan
  <2> QED BY <1>1, <2>1
<1> QED BY <1>3, <1>4, <1>5

LEMMA ShapeStep == ASSUME Shape, [Next]_vars PROVE Shape'
<1>1. Shape <=> env \in Environments /\ DiskShape /\ ProcsShape /\ PastShape
  BY DEF Shape, DiskShape, ProcsShape, PastShape
<1>2. Shape' <=> env' \in Environments /\ DiskShape' /\ ProcsShape' /\ PastShape'
  BY DEF Shape, DiskShape, ProcsShape, PastShape
<1>3. env' \in Environments /\ PastShape'
  BY <1>1, Rest, PastKeeps
<1>4. SUFFICES DiskShape' /\ ProcsShape'
  BY <1>2, <1>3
<1>5. /\ IsDoc(NoDoc) /\ IsDisk(disk) /\ IsDoc(disk.doc) /\ disk.lock \in Locks
      /\ \A p \in Procs : IsDoc(procs[p].doc) /\ Placed(procs[p].cmd, procs[p].step)
  BY <1>1, NoDocIs DEF DiskShape, ProcsShape
<1>6. ASSUME NEW p \in Procs, NEW step, NEW doc, NEW pruned, NEW pile,
             IsDoc(doc), Placed(procs[p].cmd, step), Moved(p, step, doc, pruned, pile)
      PROVE  ProcsShape'
  BY <1>1, <1>6, MovedShape
<1>7. ASSUME disk' = disk PROVE DiskShape'
  BY <1>1, <1>7 DEF DiskShape
<1>8. ASSUME NEW x \in Locks, disk' = [disk EXCEPT !.lock = x] PROVE DiskShape'
  BY <1>5, <1>8, DiskFields DEF DiskShape
<1>9. Unlocked \in Locks /\ \A p \in Procs : [by |-> p, old |-> FALSE] \in Locks
  BY DEF Unlocked, Locks
<1>10. ASSUME NEW p \in Procs, CheckComplete(p) \/ CheckPrune(p) \/ CountSummaries(p) \/ Start(p)
       PROVE  DiskShape' /\ ProcsShape'
  <2>1. /\ At(p, "idle") /\ disk' = disk /\ Op(p) \notin {"waiting", "resume", "sync"}
        /\ \/ Moved(p, "done", NoDoc, {}, {})
           \/ Moved(p, "want", procs[p].doc, procs[p].pruned, procs[p].pile)
    BY <1>10, ProcessMoves
  <2>2. Placed(procs[p].cmd, "done") /\ Placed(procs[p].cmd, "want")
    BY <1>5, <2>1 DEF Placed, At, Op, Steps
  <2> QED BY <1>5, <1>6, <1>7, <2>1, <2>2
<1>11. ASSUME NEW p \in Procs, ReadForSync(p) PROVE DiskShape' /\ ProcsShape'
  <2>1. /\ At(p, "idle") /\ disk' = disk /\ Op(p) = "sync"
        /\ \/ Moved(p, "done", NoDoc, {}, {})
           \/ Moved(p, "want", Synced(Sync(disk.doc)), procs[p].pruned, procs[p].pile)
    BY <1>11, ProcessMoves
  <2>2. Placed(procs[p].cmd, "done") /\ Placed(procs[p].cmd, "want")
    BY <1>5, <2>1 DEF Placed, At, Op, Steps
  <2>3. IsDoc(Synced(Sync(disk.doc)))
    BY <1>5, SyncEntries
  <2> QED BY <1>5, <1>6, <1>7, <2>1, <2>2, <2>3
<1>12. ASSUME NEW p \in Procs, SignalWaiting(p) \/ SignalResume(p) PROVE DiskShape' /\ ProcsShape'
  <2>1. /\ At(p, "idle") /\ \E b : disk' = [disk EXCEPT !.waiting = b]
        /\ Moved(p, "done", NoDoc, {}, {})
    BY <1>12, ProcessMoves
  <2>2. Placed(procs[p].cmd, "done")
    BY <1>5, <2>1 DEF Placed, At, Steps
  <2>3. DiskShape'
    <3>1. PICK b : disk' = [disk EXCEPT !.waiting = b]
      BY <2>1
    <3>2. IsDisk(disk') /\ disk'.doc = disk.doc /\ disk'.lock = disk.lock
      BY <1>5, <3>1, DiskFields
    <3> QED BY <1>5, <3>2 DEF DiskShape
  <2> QED BY <1>5, <1>6, <2>1, <2>2, <2>3
<1>13. ASSUME NEW p \in Procs, Acquire(p) PROVE DiskShape' /\ ProcsShape'
  <2> DEFINE step == IF Op(p) = "sync" THEN "read" ELSE "held"
  <2>1. /\ At(p, "want") /\ disk' = [disk EXCEPT !.lock = [by |-> p, old |-> FALSE]]
        /\ Moved(p, step, procs[p].doc, procs[p].pruned, procs[p].pile)
    BY <1>13, ProcessMoves
  <2>2. Placed(procs[p].cmd, step)
    BY <1>5, <2>1 DEF Placed, At, Op, Steps, Inside
  <2> HIDE DEF step
  <2>3. DiskShape'
    BY <1>8, <1>9, <2>1
  <2> QED BY <1>5, <1>6, <2>1, <2>2, <2>3
<1>14. ASSUME NEW p \in Procs, SeesStale(p) PROVE DiskShape' /\ ProcsShape'
  <2>1. /\ At(p, "want") /\ disk' = disk
        /\ Moved(p, "stale", procs[p].doc, procs[p].pruned, procs[p].pile)
    BY <1>14, ProcessMoves
  <2>2. Placed(procs[p].cmd, "stale")
    BY <1>5, <2>1 DEF Placed, At, Steps
  <2> QED BY <1>5, <1>6, <1>7, <2>1, <2>2
<1>15. ASSUME NEW p \in Procs, BreakLock(p) PROVE DiskShape' /\ ProcsShape'
  <2>1. /\ At(p, "stale") /\ disk' = [disk EXCEPT !.lock = Unlocked]
        /\ Moved(p, "want", procs[p].doc, procs[p].pruned, procs[p].pile)
    BY <1>15, ProcessMoves
  <2>2. Placed(procs[p].cmd, "want")
    BY <1>5, <2>1 DEF Placed, At, Steps
  <2>3. DiskShape'
    BY <1>8, <1>9, <2>1
  <2> QED BY <1>5, <1>6, <2>1, <2>2, <2>3
<1>16. ASSUME NEW p \in Procs, Transform(p) PROVE DiskShape' /\ ProcsShape'
  <2> DEFINE pr == IF Op(p) = "prune" THEN Prunable(disk.doc, procs[p].note) ELSE {}
  <2>1. /\ At(p, "held") /\ disk' = disk
        /\ Moved(p, "read", Transformed(p), pr, procs[p].pile)
    BY <1>16, ProcessMoves
  <2>2. Placed(procs[p].cmd, "read")
    BY <1>5, <2>1 DEF Placed, At, Steps, Inside
  <2>3. Op(p) \in LockOps /\ Op(p) # "sync"
    BY <1>5, <2>1 DEF Placed, At, Op, AnyCommand, None
  <2>4. IsDoc(Transformed(p))
    BY <2>3, TransformedEntries
  <2> HIDE DEF pr
  <2> QED BY <1>6, <1>7, <2>1, <2>2, <2>4
<1>17. ASSUME NEW p \in Procs, Write(p) PROVE DiskShape' /\ ProcsShape'
  <2>1. /\ At(p, "read") /\ disk' = [disk EXCEPT !.doc = procs[p].doc]
        /\ Moved(p, "written", procs[p].doc, procs[p].pruned, procs[p].pile)
    BY <1>17, ProcessMoves
  <2>2. Placed(procs[p].cmd, "written")
    BY <1>5, <2>1 DEF Placed, At, Steps, Inside
  <2>3. DiskShape'
    BY <1>5, <2>1, DiskFields DEF DiskShape
  <2> QED BY <1>5, <1>6, <2>1, <2>2, <2>3
<1>18. ASSUME NEW p \in Procs, Release(p) PROVE DiskShape' /\ ProcsShape'
  <2>1. /\ At(p, "written") /\ disk' = [disk EXCEPT !.lock = Unlocked]
        /\ \/ Moved(p, "done", NoDoc, {}, {})
           \/ Moved(p, "archive", NoDoc, procs[p].pruned, procs[p].pile)
    BY <1>18, ProcessMoves
  <2>2. Placed(procs[p].cmd, "done") /\ Placed(procs[p].cmd, "archive")
    BY <1>5, <2>1 DEF Placed, At, Steps
  <2>3. DiskShape'
    BY <1>8, <1>9, <2>1
  <2> QED BY <1>5, <1>6, <2>1, <2>2, <2>3
<1>19. ASSUME NEW p \in Procs, ReadArchive(p) PROVE DiskShape' /\ ProcsShape'
  <2>1. /\ At(p, "archive") /\ disk' = disk
        /\ Moved(p, "append", procs[p].doc, procs[p].pruned, disk.archive)
    BY <1>19, ProcessMoves
  <2>2. Placed(procs[p].cmd, "append")
    BY <1>5, <2>1 DEF Placed, At, Steps
  <2> QED BY <1>5, <1>6, <1>7, <2>1, <2>2
<1>20. ASSUME NEW p \in Procs, WriteArchive(p) PROVE DiskShape' /\ ProcsShape'
  <2>1. /\ At(p, "append") /\ disk' = [disk EXCEPT !.archive = procs[p].pile \cup procs[p].pruned]
        /\ Moved(p, "done", NoDoc, {}, {})
    BY <1>20, ProcessMoves
  <2>2. Placed(procs[p].cmd, "done")
    BY <1>5, <2>1 DEF Placed, At, Steps
  <2>3. DiskShape'
    BY <1>5, <2>1, DiskFields DEF DiskShape
  <2> QED BY <1>5, <1>6, <2>1, <2>2, <2>3
<1>21. ASSUME NEW p \in Procs, Kill(p) PROVE DiskShape' /\ ProcsShape'
  <2>1. /\ procs[p].step \notin {"idle", "done", "killed"} /\ disk' = disk
        /\ Moved(p, "killed", NoDoc, {}, {})
    BY <1>21, ProcessMoves
  <2>2. Placed(procs[p].cmd, "killed")
    BY <1>5, <2>1 DEF Placed, Steps
  <2> QED BY <1>5, <1>6, <1>7, <2>1, <2>2
<1>22. CASE LockAges
  <2> DEFINE x == [disk.lock EXCEPT !.old = TRUE]
  <2>1. disk' = [disk EXCEPT !.lock = x] /\ procs' = procs
    BY <1>22 DEF LockAges
  <2>2. x \in Locks
    BY <1>5 DEF Locks
  <2> HIDE DEF x
  <2> QED BY <1>1, <1>8, <2>1, <2>2 DEF ProcsShape
<1>23. ASSUME NEW n \in Phases, FinishPlan(n) \/ ClearPhase(n) PROVE DiskShape' /\ ProcsShape'
  <2>1. procs' = procs /\ \E x : disk' = [disk EXCEPT !.done = x]
    BY <1>23 DEF FinishPlan, ClearPhase
  <2>2. PICK x : disk' = [disk EXCEPT !.done = x]
    BY <2>1
  <2>3. IsDisk(disk') /\ disk'.doc = disk.doc /\ disk'.lock = disk.lock
    BY <1>5, <2>2, DiskFields
  <2> QED BY <1>1, <1>5, <2>1, <2>3 DEF DiskShape, ProcsShape
<1>24. CASE UNCHANGED vars
  BY <1>1, <1>24 DEF vars, DiskShape, ProcsShape
<1> QED
  BY <1>10, <1>11, <1>12, <1>13, <1>14, <1>15, <1>16, <1>17, <1>18, <1>19, <1>20, <1>21, <1>22, <1>23, <1>24
     DEF Next

-----------------------------------------------------------------------------
(* The lock.  While it is trusted, whoever is inside holds it; it is old   *)
(* only when its holder has died, and taken for stale only after a death.  *)
Held == \A p \in Procs : procs[p].step \in Inside => disk.lock.by = p
OldIsDead == disk.lock.old /\ disk.lock.by # Free => procs[disk.lock.by].step = "killed"
StaleAfterDeath == (\E p \in Procs : At(p, "stale")) => \E p \in Procs : At(p, "killed")
LockInv == LockTrusted => Held /\ OldIsDead /\ StaleAfterDeath

\* A step of one process, as far as the lock is concerned.
StepsTo(p, step) ==
  /\ procs'[p].step = step /\ DOMAIN procs' = Procs
  /\ \A q \in Procs : procs'[q].cmd = procs[q].cmd /\ (q # p => procs'[q].step = procs[q].step)

ProcessStep(p) ==
  \/ CheckComplete(p) \/ CheckPrune(p) \/ CountSummaries(p) \/ ReadForSync(p)
  \/ SignalWaiting(p) \/ SignalResume(p) \/ Start(p)
  \/ Acquire(p) \/ SeesStale(p) \/ BreakLock(p)
  \/ Transform(p) \/ Write(p) \/ Release(p) \/ ReadArchive(p) \/ WriteArchive(p)
  \/ Kill(p)

LockStep(p, step) ==
  /\ procs[p].step # "killed" /\ StepsTo(p, step)
  /\ \/ /\ disk'.lock = disk.lock /\ step \notin {"stale", "killed"}
        /\ step \in Inside => procs[p].step \in Inside
     \/ /\ disk.lock.by = Free /\ disk'.lock = [by |-> p, old |-> FALSE]
        /\ step \notin {"stale", "killed"}
     \/ disk.lock.by # Free /\ disk.lock.old /\ disk'.lock = disk.lock /\ step = "stale"
     \/ procs[p].step = "stale" /\ disk'.lock = Unlocked /\ step = "want"
     \/ procs[p].step = "written" /\ disk'.lock = Unlocked /\ step \in {"done", "archive"}
     \/ disk'.lock = disk.lock /\ step = "killed"

LEMMA LockSteps ==
  ASSUME Shape, NEW p \in Procs, ProcessStep(p)
  PROVE  \E step : LockStep(p, step)
<1>1. ASSUME NEW step, NEW doc, NEW pruned, NEW pile, Moved(p, step, doc, pruned, pile)
      PROVE  StepsTo(p, step)
  BY <1>1 DEF Moved, StepsTo
<1>2. IsDisk(disk)
  BY DEF Shape
<1>3. CASE CheckComplete(p) \/ CheckPrune(p) \/ CountSummaries(p) \/ Start(p)
  <2>1. /\ procs[p].step = "idle" /\ disk'.lock = disk.lock
        /\ StepsTo(p, "done") \/ StepsTo(p, "want")
    BY <1>1, <1>3, ProcessMoves DEF At
  <2> QED BY <2>1 DEF LockStep, Inside
<1>4. CASE ReadForSync(p)
  <2>1. /\ procs[p].step = "idle" /\ disk'.lock = disk.lock
        /\ StepsTo(p, "done") \/ StepsTo(p, "want")
    BY <1>1, <1>4, ProcessMoves DEF At
  <2> QED BY <2>1 DEF LockStep, Inside
<1>5. CASE SignalWaiting(p) \/ SignalResume(p)
  <2>1. /\ procs[p].step = "idle" /\ StepsTo(p, "done") /\ \E b : disk' = [disk EXCEPT !.waiting = b]
    BY <1>1, <1>5, ProcessMoves DEF At
  <2>2. PICK b : disk' = [disk EXCEPT !.waiting = b]
    BY <2>1
  <2>3. disk'.lock = disk.lock
    BY <1>2, <2>2, DiskFields
  <2> QED BY <2>1, <2>3 DEF LockStep, Inside
<1>6. CASE Acquire(p)
  <2> DEFINE step == IF Op(p) = "sync" THEN "read" ELSE "held"
  <2>1. /\ procs[p].step = "want" /\ disk.lock.by = Free /\ StepsTo(p, step)
        /\ disk' = [disk EXCEPT !.lock = [by |-> p, old |-> FALSE]]
    BY <1>1, <1>6, ProcessMoves DEF At
  <2>2. disk'.lock = [by |-> p, old |-> FALSE]
    BY <1>2, <2>1, DiskFields
  <2>3. step \notin {"stale", "killed"}
    OBVIOUS
  <2> HIDE DEF step
  <2> QED BY <2>1, <2>2, <2>3 DEF LockStep
<1>7. CASE SeesStale(p)
  <2>1. /\ procs[p].step = "want" /\ disk.lock.by # Free /\ disk.lock.old
        /\ disk'.lock = disk.lock /\ StepsTo(p, "stale")
    BY <1>1, <1>7, ProcessMoves DEF At
  <2> QED BY <2>1 DEF LockStep
<1>8. CASE BreakLock(p)
  <2>1. /\ procs[p].step = "stale" /\ StepsTo(p, "want") /\ disk' = [disk EXCEPT !.lock = Unlocked]
    BY <1>1, <1>8, ProcessMoves DEF At
  <2>2. disk'.lock = Unlocked
    BY <1>2, <2>1, DiskFields
  <2> QED BY <2>1, <2>2 DEF LockStep
<1>9. CASE Transform(p)
  <2>1. procs[p].step = "held" /\ disk'.lock = disk.lock /\ StepsTo(p, "read")
    BY <1>1, <1>9, ProcessMoves DEF At
  <2> QED BY <2>1 DEF LockStep, Inside
<1>10. CASE Write(p)
  <2>1. procs[p].step = "read" /\ StepsTo(p, "written") /\ disk' = [disk EXCEPT !.doc = procs[p].doc]
    BY <1>1, <1>10, ProcessMoves DEF At
  <2>2. disk'.lock = disk.lock
    BY <1>2, <2>1, DiskFields
  <2> QED BY <2>1, <2>2 DEF LockStep, Inside
<1>11. CASE Release(p)
  <2>1. /\ procs[p].step = "written" /\ (StepsTo(p, "done") \/ StepsTo(p, "archive"))
        /\ disk' = [disk EXCEPT !.lock = Unlocked]
    BY <1>1, <1>11, ProcessMoves DEF At
  <2>2. disk'.lock = Unlocked
    BY <1>2, <2>1, DiskFields
  <2> QED BY <2>1, <2>2 DEF LockStep
<1>12. CASE ReadArchive(p)
  <2>1. procs[p].step = "archive" /\ disk'.lock = disk.lock /\ StepsTo(p, "append")
    BY <1>1, <1>12, ProcessMoves DEF At
  <2> QED BY <2>1 DEF LockStep, Inside
<1>13. CASE WriteArchive(p)
  <2>1. /\ procs[p].step = "append" /\ StepsTo(p, "done")
        /\ disk' = [disk EXCEPT !.archive = procs[p].pile \cup procs[p].pruned]
    BY <1>1, <1>13, ProcessMoves DEF At
  <2>2. disk'.lock = disk.lock
    BY <1>2, <2>1, DiskFields
  <2> QED BY <2>1, <2>2 DEF LockStep, Inside
<1>14. CASE Kill(p)
  <2>1. procs[p].step # "killed" /\ disk'.lock = disk.lock /\ StepsTo(p, "killed")
    BY <1>1, <1>14, ProcessMoves DEF At
  <2> QED BY <2>1 DEF LockStep
<1> QED
  BY <1>3, <1>4, <1>5, <1>6, <1>7, <1>8, <1>9, <1>10, <1>11, <1>12, <1>13, <1>14 DEF ProcessStep

\* The steps of nobody: the lock ages, a plan is finished.
PastAlike == past'.written = past.written /\ past'.raced = past.raced

LEMMA OtherSteps ==
  ASSUME Shape, LockAges \/ (\E n \in Phases : FinishPlan(n) \/ ClearPhase(n)) \/ UNCHANGED vars
  PROVE  /\ procs' = procs /\ (PastShape => PastAlike)
         /\ disk'.doc = disk.doc /\ disk'.archive = disk.archive
         /\ \/ disk'.lock = disk.lock
            \/ /\ disk.lock.by # Free /\ disk'.lock = [disk.lock EXCEPT !.old = TRUE]
               /\ At(disk.lock.by, "killed") \/ env.slow
<1>1. IsDisk(disk)
  BY DEF Shape
<1> USE DEF PastAlike
<1>2. CASE LockAges
  <2> DEFINE x == [disk.lock EXCEPT !.old = TRUE]
  <2>1. disk' = [disk EXCEPT !.lock = x]
    BY <1>2 DEF LockAges
  <2> HIDE DEF x
  <2>2. disk'.lock = x /\ disk'.doc = disk.doc /\ disk'.archive = disk.archive
    BY <1>1, <2>1, DiskFields
  <2> QED BY <1>2, <2>2 DEF LockAges, x
<1>3. ASSUME NEW n \in Phases, FinishPlan(n) \/ ClearPhase(n)
      PROVE  /\ procs' = procs /\ (PastShape => PastAlike) /\ disk'.doc = disk.doc
             /\ disk'.archive = disk.archive /\ disk'.lock = disk.lock
  <2>1. /\ procs' = procs /\ \E x : disk' = [disk EXCEPT !.done = x]
        /\ past' = past \/ past' = [past EXCEPT !.cleared = TRUE]
    BY <1>3 DEF FinishPlan, ClearPhase
  <2>a. PastShape => PastAlike
    <3>1. CASE past' = past
      BY <3>1
    <3>2. CASE past' = [past EXCEPT !.cleared = TRUE]
      <4>1. SUFFICES ASSUME PastShape PROVE PastAlike
        OBVIOUS
      <4>2. PICK a, b, c : past = [written |-> a, raced |-> b, cleared |-> c]
        BY <4>1 DEF PastShape
      <4> QED BY <3>2, <4>2
    <3> QED BY <2>1, <3>1, <3>2
  <2>2. PICK x : disk' = [disk EXCEPT !.done = x]
    BY <2>1
  <2> QED BY <1>1, <2>1, <2>2, <2>a, DiskFields
<1>4. CASE UNCHANGED vars
  BY <1>4 DEF vars
<1> QED BY <1>2, <1>3, <1>4

LEMMA CommandsStay ==
  ASSUME Shape, [Next]_vars
  PROVE  /\ \A p \in Procs : procs'[p].cmd = procs[p].cmd
         /\ \A p \in Procs : At(p, "killed") => At(p, "killed")'
<1>1. ASSUME NEW p \in Procs, NEW step, LockStep(p, step)
      PROVE  /\ \A q \in Procs : procs'[q].cmd = procs[q].cmd
             /\ \A q \in Procs : At(q, "killed") => At(q, "killed")'
  BY <1>1 DEF LockStep, StepsTo, At
<1>2. CASE \E p \in Procs : ProcessStep(p)
  BY <1>1, <1>2, LockSteps
<1>3. CASE LockAges \/ (\E n \in Phases : FinishPlan(n) \/ ClearPhase(n)) \/ UNCHANGED vars
  BY <1>3, OtherSteps DEF At
<1> QED BY <1>2, <1>3 DEF Next, ProcessStep

\* Nobody becomes trustworthy: the dead stay dead, the slow slow.
LEMMA TrustIsLost ==
  ASSUME Shape, [Next]_vars, LockTrusted'
  PROVE  LockTrusted
<1>1. env'.slow = env.slow
  BY Rest
<1>2. /\ \A p \in Procs : procs'[p].cmd = procs[p].cmd
      /\ \A p \in Procs : At(p, "killed") => At(p, "killed")'
  BY CommandsStay
<1>3. Working' = Working
  BY <1>2 DEF Working, None
<1> QED BY <1>1, <1>2, <1>3 DEF LockTrusted

LEMMA ThreeWork ==
  ASSUME IsFiniteSet(Procs), NEW a \in Working, NEW b \in Working, NEW c \in Working,
         a # b, a # c, b # c
  PROVE  ~(Cardinality(Working) <= 2)
<1>1. IsFiniteSet(Working)
  BY FS_Subset DEF Working
<1>2. IsFiniteSet({a}) /\ Cardinality({a}) = 1
  BY FS_Singleton
<1>3. IsFiniteSet({a} \cup {b}) /\ Cardinality({a} \cup {b}) = 2
  BY <1>2, FS_AddElement
<1>4. IsFiniteSet({a} \cup {b} \cup {c}) /\ Cardinality({a} \cup {b} \cup {c}) = 3
  <2> DEFINE S == {a} \cup {b}
  <2>1. c \notin S
    OBVIOUS
  <2>2. IsFiniteSet(S) /\ Cardinality(S) = 2
    BY <1>3
  <2> HIDE DEF S
  <2>3. IsFiniteSet(S \cup {c}) /\ Cardinality(S \cup {c}) = 3
    BY <2>1, <2>2, FS_AddElement
  <2> QED BY <2>3 DEF S
<1>5. {a} \cup {b} \cup {c} \subseteq Working
  OBVIOUS
<1>6. Cardinality({a} \cup {b} \cup {c}) <= Cardinality(Working)
  BY <1>1, <1>5, FS_Subset
<1>7. Cardinality(Working) \in Nat
  BY <1>1, FS_CardinalityType
<1> QED BY <1>4, <1>6, <1>7

LEMMA LockKeeps ==
  ASSUME Shape, LockInv, [Next]_vars, Free \notin Procs, IsFiniteSet(Procs)
  PROVE  LockInv'
<1> SUFFICES ASSUME LockTrusted' PROVE (Held /\ OldIsDead /\ StaleAfterDeath)'
  BY DEF LockInv
<1>1. LockTrusted /\ Held /\ OldIsDead /\ StaleAfterDeath
  BY TrustIsLost DEF LockInv
<1>2. ASSUME NEW p \in Procs, NEW step, LockStep(p, step)
      PROVE  (Held /\ OldIsDead /\ StaleAfterDeath)'
  <2> DEFINE by == disk.lock.by
  <2>0. /\ by \in Procs \cup {Free} /\ disk.lock.old \in BOOLEAN
        /\ \A q \in Procs : procs[q].cmd = None => procs[q].step = "done"
    BY DEF Shape, Locks, Placed
  <2>1. /\ procs[p].step # "killed" /\ procs'[p].step = step
        /\ \A q \in Procs : q # p => procs'[q].step = procs[q].step
        /\ \A q \in Procs : procs'[q].cmd = procs[q].cmd
    BY <1>2 DEF LockStep, StepsTo
  <2>2. \A q \in Procs : procs[q].step = "killed" => procs'[q].step = "killed"
    BY <2>1
  <2>3. CASE /\ disk'.lock = disk.lock /\ step \notin {"stale", "killed"}
             /\ step \in Inside => procs[p].step \in Inside
    <3>1. Held'
      BY <1>1, <2>1, <2>3 DEF Held
    <3>2. OldIsDead'
      BY <1>1, <2>0, <2>2, <2>3 DEF OldIsDead
    <3>3. StaleAfterDeath'
      BY <1>1, <2>1, <2>2, <2>3 DEF StaleAfterDeath, At
    <3> QED BY <3>1, <3>2, <3>3
  <2>4. CASE /\ by = Free /\ disk'.lock = [by |-> p, old |-> FALSE]
             /\ step \notin {"stale", "killed"}
    <3>1. \A q \in Procs : procs[q].step \notin Inside
      BY <1>1, <2>4 DEF Held
    <3>2. Held'
      BY <2>1, <2>4, <3>1 DEF Held
    <3>3. OldIsDead'
      BY <2>4 DEF OldIsDead
    <3>4. StaleAfterDeath'
      BY <1>1, <2>1, <2>2, <2>4 DEF StaleAfterDeath, At
    <3> QED BY <3>2, <3>3, <3>4
  <2>5. CASE by # Free /\ disk.lock.old /\ disk'.lock = disk.lock /\ step = "stale"
    <3>1. Held'
      BY <1>1, <2>1, <2>5 DEF Held, Inside
    <3>2. by \in Procs /\ procs'[by].step = "killed"
      BY <1>1, <2>0, <2>2, <2>5 DEF OldIsDead
    <3>3. OldIsDead' /\ StaleAfterDeath'
      BY <2>5, <3>2 DEF OldIsDead, StaleAfterDeath, At
    <3> QED BY <3>1, <3>3
  <2>6. CASE procs[p].step = "stale" /\ disk'.lock = Unlocked /\ step = "want"
    <3>1. PICK k \in Procs : procs[k].step = "killed"
      BY <1>1, <2>6 DEF StaleAfterDeath, At
    <3>2. \A q \in Procs : procs[q].step \notin Inside
      <4> SUFFICES ASSUME NEW q \in Procs, procs[q].step \in Inside PROVE FALSE
        OBVIOUS
      <4>1. p # k /\ p # q /\ k # q
        BY <2>6, <3>1 DEF Inside
      <4>2. p \in Working /\ k \in Working /\ q \in Working
        BY <2>0, <2>6, <3>1 DEF Inside, Working
      <4>3. Cardinality(Working) <= 2
        BY <1>1, <3>1 DEF LockTrusted, At
      <4> QED BY <4>1, <4>2, <4>3, ThreeWork
    <3>3. Held'
      BY <2>1, <2>6, <3>2 DEF Held, Inside
    <3>4. OldIsDead'
      BY <2>6 DEF OldIsDead, Unlocked
    <3>5. StaleAfterDeath'
      BY <2>2, <3>1 DEF StaleAfterDeath, At
    <3> QED BY <3>3, <3>4, <3>5
  <2>7. CASE procs[p].step = "written" /\ disk'.lock = Unlocked /\ step \in {"done", "archive"}
    <3>1. \A q \in Procs \ {p} : procs[q].step \notin Inside
      BY <1>1, <2>7 DEF Held, Inside
    <3>2. Held'
      BY <2>1, <2>7, <3>1 DEF Held, Inside
    <3>3. OldIsDead'
      BY <2>7 DEF OldIsDead, Unlocked
    <3>4. StaleAfterDeath'
      BY <1>1, <2>1, <2>2, <2>7 DEF StaleAfterDeath, At
    <3> QED BY <3>2, <3>3, <3>4
  <2>8. CASE disk'.lock = disk.lock /\ step = "killed"
    <3>1. Held'
      BY <1>1, <2>1, <2>8 DEF Held, Inside
    <3>2. OldIsDead'
      BY <1>1, <2>0, <2>2, <2>8 DEF OldIsDead
    <3>3. StaleAfterDeath'
      BY <2>1, <2>8 DEF StaleAfterDeath, At
    <3> QED BY <3>1, <3>2, <3>3
  <2> QED BY <1>2, <2>3, <2>4, <2>5, <2>6, <2>7, <2>8 DEF LockStep
<1>3. CASE LockAges \/ (\E n \in Phases : FinishPlan(n) \/ ClearPhase(n)) \/ UNCHANGED vars
  <2>1. procs' = procs /\ ~env.slow
    BY <1>1, <1>3, OtherSteps DEF LockTrusted
  <2>2. \/ disk'.lock = disk.lock
        \/ /\ disk'.lock = [disk.lock EXCEPT !.old = TRUE]
           /\ procs[disk.lock.by].step = "killed"
    BY <1>3, <2>1, OtherSteps DEF At
  <2>3. disk'.lock.by = disk.lock.by
    BY <2>2 DEF Shape, Locks
  <2> QED BY <1>1, <2>1, <2>2, <2>3 DEF Held, OldIsDead, StaleAfterDeath, At
<1> QED
  BY <1>2, <1>3, LockSteps DEF Next, ProcessStep

LEMMA InitialShape ==
  ASSUME NEW e \in Environments, InitIn(e)
  PROVE  Shape /\ LockInv
<1>1. /\ env = e
      /\ disk = [doc |-> FirstDoc(e.layout), lock |-> Unlocked, archive |-> {},
                 done |-> [n \in Phases |-> 0], waiting |-> FALSE]
      /\ procs = [p \in Procs |-> Idle(e.work[p])]
      /\ past = [written |-> FirstDoc(e.layout).entries, raced |-> {}, cleared |-> FALSE]
  BY DEF InitIn
<1>2. disk.lock = Unlocked /\ disk.doc = FirstDoc(e.layout) /\ IsDisk(disk)
  BY <1>1 DEF IsDisk
<1>3. IsDoc(FirstDoc(e.layout))
  BY DEF IsDoc, FirstDoc
<1>4. Unlocked \in Locks
  BY DEF Unlocked, Locks
<1>5. ASSUME NEW p \in Procs
      PROVE  /\ IsProc(procs[p]) /\ IsDoc(procs[p].doc) /\ Placed(procs[p].cmd, procs[p].step)
             /\ procs[p].step \in {"idle", "done"}
  <2>1. procs[p] = Idle(e.work[p]) /\ e.work[p] \in AnyCommand
    BY <1>1 DEF Environments
  <2> DEFINE r == Idle(e.work[p])
  <2>2. /\ IsProc(r) /\ r.doc = NoDoc /\ r.cmd = e.work[p]
        /\ r.step = IF e.work[p] = None THEN "done" ELSE "idle"
    BY DEF IsProc, Idle
  <2> HIDE DEF r
  <2>3. Placed(r.cmd, r.step)
    BY <2>1, <2>2 DEF Placed, Steps, AnyCommand, None
  <2> QED BY <2>1, <2>2, <2>3, NoDocIs DEF r
<1>6. DOMAIN procs = Procs /\ procs = [p \in Procs |-> procs[p]]
  BY <1>1
<1>7. past = [written |-> past.written, raced |-> past.raced, cleared |-> past.cleared]
  BY <1>1
<1>8. Shape
  BY <1>1, <1>2, <1>3, <1>4, <1>5, <1>6, <1>7 DEF Shape
<1>9. LockInv
  BY <1>2, <1>5 DEF LockInv, Held, OldIsDead, StaleAfterDeath, At, Inside, Unlocked
<1> QED BY <1>8, <1>9

(* OneInside: while nobody is slow, and with at most two commands once one  *)
(* was killed, no two processes are between taking STATE.md.lock and        *)
(* unlinking it.                                                            *)
THEOREM OneWriter ==
  ASSUME Free \notin Procs, IsFiniteSet(Procs), NEW e \in Environments
  PROVE  InitIn(e) /\ [][Next]_vars => []OneInside
<1>1. InitIn(e) => Shape /\ LockInv
  BY InitialShape
<1>2. Shape /\ LockInv /\ [Next]_vars => Shape' /\ LockInv'
  BY ShapeStep, LockKeeps
<1>3. Shape /\ LockInv => OneInside
  <2> SUFFICES ASSUME Shape, LockInv, LockTrusted
               PROVE  Cardinality({p \in Procs : procs[p].step \in {"held", "read", "written"}}) <= 1
    BY DEF OneInside
  <2> DEFINE In == {p \in Procs : procs[p].step \in {"held", "read", "written"}}
             by == disk.lock.by
  <2>1. In \subseteq {by}
    BY DEF LockInv, Held, Inside
  <2> HIDE DEF In, by
  <2>2. IsFiniteSet({by}) /\ Cardinality({by}) = 1
    BY FS_Singleton
  <2> QED BY <2>1, <2>2, FS_Subset, FS_CardinalityType DEF In
<1> QED BY <1>1, <1>2, <1>3, PTL

-----------------------------------------------------------------------------
(* The entries.  What was written is in the document, in the archive, with *)
(* the prune that moves it there or among what a race took out, and so it   *)
(* is for the document a process is about to write; what a prune has        *)
(* chosen is in the document until it has written it.                       *)
Around == disk.archive \cup Pruned \cup past.raced
Kept == past.written \subseteq disk.doc.entries \cup Around
ReadKeeps ==
  \A p \in Procs : At(p, "read") =>
    /\ Op(p) # "sync" => past.written \subseteq procs[p].doc.entries \cup Around
    /\ procs[p].pruned \subseteq disk.doc.entries
Carries(step, pruned) == pruned # {} => step \in {"read", "written", "archive", "append"}
Carried == \A p \in Procs : Carries(procs[p].step, procs[p].pruned)
Entire == Kept /\ ReadKeeps /\ Carried
EntriesInv == LockTrusted => Entire

LEMMA PrunedIs ==
  ASSUME NEW p \in Procs, NEW step, NEW doc, NEW pruned, NEW pile,
         Moved(p, step, doc, pruned, pile)
  PROVE  Pruned \subseteq Pruned' \cup procs[p].pruned /\ pruned \subseteq Pruned'
<1>1. procs'[p].pruned = pruned /\ \A q \in Procs \ {p} : procs'[q] = procs[q]
  BY DEF Moved
<1>2. ASSUME NEW e \in Pruned PROVE e \in Pruned' \cup procs[p].pruned
  <2>1. PICK q \in Procs : e \in procs[q].pruned
    BY DEF Pruned
  <2>2. CASE q = p
    BY <2>1, <2>2
  <2>3. CASE q # p
    <3>1. e \in procs'[q].pruned
      BY <1>1, <2>1, <2>3
    <3> QED BY <3>1 DEF Pruned
  <2> QED BY <2>2, <2>3
<1>3. pruned \subseteq Pruned'
  BY <1>1 DEF Pruned
<1> QED BY <1>2, <1>3

LEMMA CarriedStays ==
  ASSUME Carried, NEW p \in Procs, NEW step, NEW doc, NEW pruned, NEW pile,
         Moved(p, step, doc, pruned, pile), Carries(step, pruned)
  PROVE  Carried'
<1> SUFFICES ASSUME NEW q \in Procs PROVE Carries(procs[q].step, procs[q].pruned)'
  BY DEF Carried
<1>1. CASE q = p
  BY <1>1 DEF Moved, Carries
<1>2. CASE q # p
  <2>1. procs'[q] = procs[q] /\ Carries(procs[q].step, procs[q].pruned)
    BY <1>2 DEF Moved, Carried
  <2> QED BY <2>1 DEF Carries
<1> QED BY <1>1, <1>2

\* The other processes' part of ReadKeeps, when nothing that was around is lost.
LEMMA OthersRead ==
  ASSUME ReadKeeps, NEW p \in Procs, NEW step, NEW doc, NEW pruned, NEW pile,
         Moved(p, step, doc, pruned, pile), step # "read",
         disk'.doc = disk.doc, Around \subseteq Around', past'.written = past.written
  PROVE  ReadKeeps'
<1> SUFFICES ASSUME NEW q \in Procs, procs'[q].step = "read"
             PROVE  /\ procs'[q].cmd.op # "sync" =>
                         past'.written \subseteq procs'[q].doc.entries \cup Around'
                    /\ procs'[q].pruned \subseteq disk'.doc.entries
  BY DEF ReadKeeps, At, Op
<1>1. procs'[q] = procs[q]
  BY DEF Moved
<1> QED BY <1>1 DEF ReadKeeps, At, Op

\* Steps that leave the document, the archive and what is remembered alone.
LEMMA MovesKeep ==
  ASSUME Entire, NEW p \in Procs, NEW step, NEW doc, NEW pruned, NEW pile,
         Moved(p, step, doc, pruned, pile), step # "read",
         disk'.doc = disk.doc, disk'.archive = disk.archive, past' = past,
         procs[p].pruned \subseteq pruned, Carries(step, pruned)
  PROVE  Entire'
<1>1. Pruned \subseteq Pruned'
  BY PrunedIs
<1>2. Around \subseteq Around'
  BY <1>1 DEF Around
<1>3. Kept'
  BY <1>2 DEF Entire, Kept
<1>4. ReadKeeps' /\ Carried'
  BY <1>2, OthersRead, CarriedStays DEF Entire
<1> QED BY <1>3, <1>4 DEF Entire

LEMMA EntriesKeep ==
  ASSUME Shape, LockInv, EntriesInv, [Next]_vars, Free \notin Procs, IsFiniteSet(Procs)
  PROVE  EntriesInv'
<1> SUFFICES ASSUME LockTrusted' PROVE Entire'
  BY DEF EntriesInv
<1>1. LockTrusted /\ Entire /\ Held
  BY TrustIsLost DEF EntriesInv, LockInv
<1>2. Kept /\ ReadKeeps /\ Carried /\ IsDisk(disk) /\ PastShape
  BY <1>1 DEF Entire, Shape, PastShape
<1>3. \A p \in Procs : Carries(procs[p].step, procs[p].pruned)
  BY <1>2 DEF Carried
<1>4. \A p, q \in Procs : procs[p].step \in Inside /\ procs[q].step \in Inside => p = q
  BY <1>1 DEF Held
<1>5. ASSUME NEW p \in Procs, CheckComplete(p) \/ CheckPrune(p) \/ CountSummaries(p) \/ Start(p)
      PROVE  Entire'
  <2>1. /\ procs[p].step = "idle" /\ disk' = disk /\ past' = past
        /\ \/ Moved(p, "done", NoDoc, {}, {})
           \/ Moved(p, "want", procs[p].doc, procs[p].pruned, procs[p].pile)
    BY <1>5, ProcessMoves DEF At
  <2>2. procs[p].pruned = {} /\ Carries("done", {}) /\ Carries("want", {})
    BY <1>3, <2>1 DEF Carries
  <2> QED BY <1>1, <2>1, <2>2, MovesKeep
<1>6. ASSUME NEW p \in Procs, ReadForSync(p) PROVE Entire'
  <2>1. /\ procs[p].step = "idle" /\ disk' = disk /\ past' = past
        /\ \/ Moved(p, "done", NoDoc, {}, {})
           \/ Moved(p, "want", Synced(Sync(disk.doc)), procs[p].pruned, procs[p].pile)
    BY <1>6, ProcessMoves DEF At
  <2>2. procs[p].pruned = {} /\ Carries("done", {}) /\ Carries("want", {})
    BY <1>3, <2>1 DEF Carries
  <2> QED BY <1>1, <2>1, <2>2, MovesKeep
<1>7. ASSUME NEW p \in Procs, SignalWaiting(p) \/ SignalResume(p) PROVE Entire'
  <2>1. /\ procs[p].step = "idle" /\ past' = past /\ Moved(p, "done", NoDoc, {}, {})
        /\ \E b : disk' = [disk EXCEPT !.waiting = b]
    BY <1>7, ProcessMoves DEF At
  <2>2. PICK b : disk' = [disk EXCEPT !.waiting = b]
    BY <2>1
  <2>3. disk'.doc = disk.doc /\ disk'.archive = disk.archive
    BY <1>2, <2>2, DiskFields
  <2>4. procs[p].pruned = {} /\ Carries("done", {})
    BY <1>3, <2>1 DEF Carries
  <2> QED BY <1>1, <2>1, <2>3, <2>4, MovesKeep
<1>8. ASSUME NEW p \in Procs, Acquire(p) PROVE Entire'
  <2> DEFINE step == IF Op(p) = "sync" THEN "read" ELSE "held"
  <2>1. /\ procs[p].step = "want" /\ past' = past
        /\ disk' = [disk EXCEPT !.lock = [by |-> p, old |-> FALSE]]
        /\ Moved(p, step, procs[p].doc, procs[p].pruned, procs[p].pile)
    BY <1>8, ProcessMoves DEF At
  <2>2. disk'.doc = disk.doc /\ disk'.archive = disk.archive
    BY <1>2, <2>1, DiskFields
  <2>3. procs[p].pruned = {} /\ Carries(step, procs[p].pruned)
    BY <1>3, <2>1 DEF Carries
  <2>4. CASE step # "read"
    BY <1>1, <2>1, <2>2, <2>3, <2>4, MovesKeep
  <2>5. CASE step = "read"
    <3>1. Op(p) = "sync"
      BY <2>5
    <3> HIDE DEF step
    <3>2. Around \subseteq Around'
      BY <2>1, <2>2, PrunedIs DEF Around
    <3>3. Kept'
      BY <1>2, <2>1, <2>2, <3>2 DEF Kept
    <3>4. /\ procs'[p].cmd = procs[p].cmd /\ procs'[p].pruned = {}
          /\ \A q \in Procs \ {p} : procs'[q] = procs[q]
      BY <2>1, <2>3 DEF Moved
    <3>5. ReadKeeps'
      <4> SUFFICES ASSUME NEW q \in Procs, procs'[q].step = "read"
                   PROVE  /\ procs'[q].cmd.op # "sync" =>
                               past'.written \subseteq procs'[q].doc.entries \cup Around'
                          /\ procs'[q].pruned \subseteq disk'.doc.entries
        BY DEF ReadKeeps, At, Op
      <4>1. CASE q = p
        BY <3>1, <3>4, <4>1 DEF Op
      <4>2. CASE q # p
        BY <1>2, <2>1, <2>2, <3>2, <3>4, <4>2 DEF ReadKeeps, At, Op
      <4> QED BY <4>1, <4>2
    <3>6. Carried'
      BY <1>2, <2>1, <2>3, CarriedStays
    <3> QED BY <3>3, <3>5, <3>6 DEF Entire
  <2> QED BY <2>4, <2>5
<1>9. ASSUME NEW p \in Procs, SeesStale(p) PROVE Entire'
  <2>1. /\ procs[p].step = "want" /\ past' = past /\ disk' = disk
        /\ Moved(p, "stale", procs[p].doc, procs[p].pruned, procs[p].pile)
    BY <1>9, ProcessMoves DEF At
  <2>2. Carries("stale", procs[p].pruned)
    BY <1>3, <2>1 DEF Carries
  <2> QED BY <1>1, <2>1, <2>2, MovesKeep
<1>10. ASSUME NEW p \in Procs, BreakLock(p) PROVE Entire'
  <2>1. /\ procs[p].step = "stale" /\ past' = past /\ disk' = [disk EXCEPT !.lock = Unlocked]
        /\ Moved(p, "want", procs[p].doc, procs[p].pruned, procs[p].pile)
    BY <1>10, ProcessMoves DEF At
  <2>2. disk'.doc = disk.doc /\ disk'.archive = disk.archive
    BY <1>2, <2>1, DiskFields
  <2>3. Carries("want", procs[p].pruned)
    BY <1>3, <2>1 DEF Carries
  <2> QED BY <1>1, <2>1, <2>2, <2>3, MovesKeep
<1>11. ASSUME NEW p \in Procs, Transform(p) PROVE Entire'
  <2> DEFINE d == disk.doc
             T == Transformed(p)
             pr == IF Op(p) = "prune" THEN Prunable(d, procs[p].note) ELSE {}
  <2>1. /\ procs[p].step = "held" /\ disk' = disk /\ Moved(p, "read", T, pr, procs[p].pile)
    BY <1>11, ProcessMoves DEF At
  <2>2. past'.written = IF Op(p) = "resolve"
                        THEN {e \in past.written : e \notin d.entries \/ e.kind # "blocker"}
                        ELSE past.written
    <3>1. CASE Op(p) # "resolve"
      BY <1>11, <3>1 DEF Transform
    <3>2. CASE Op(p) = "resolve"
      <4> DEFINE w == {e \in past.written : e \notin d.entries \/ e.kind # "blocker"}
      <4>1. past' = [past EXCEPT !.written = w]
        BY <1>11, <3>2 DEF Transform
      <4> HIDE DEF w
      <4>2. past'.written = w
        BY <4>1 DEF Shape
      <4> QED BY <3>2, <4>2 DEF w
    <3> QED BY <3>1, <3>2
  <2>3. past'.raced = past.raced
    <3>1. PICK w : past' = [written |-> w, raced |-> past.raced, cleared |-> past.cleared]
      BY <1>2, <1>11, PastIs
    <3> QED BY <3>1
  <2>4. Op(p) \in LockOps /\ Op(p) # "sync"
    BY <2>1 DEF Shape, Placed, Op, AnyCommand, None
  <2>5. /\ Op(p) \notin {"resolve", "prune"} => d.entries \subseteq T.entries
        /\ Op(p) = "resolve" => {e \in d.entries : e.kind # "blocker"} \subseteq T.entries
        /\ Op(p) = "prune" => d.entries \subseteq T.entries \cup pr
    BY <2>4, TransformedEntries
  <2>6. procs[p].pruned = {} /\ Carries("read", pr)
    BY <1>3, <2>1 DEF Carries
  <2>7. pr \subseteq d.entries
    BY DEF Prunable
  <2> HIDE DEF T, pr
  <2>8. Pruned \subseteq Pruned' /\ pr \subseteq Pruned'
    BY <2>1, <2>6, PrunedIs
  <2>9. Around \cup pr \subseteq Around'
    BY <2>1, <2>3, <2>8 DEF Around
  <2>10. past.written \subseteq d.entries \cup Around
    BY <1>2 DEF Kept
  <2>11. past'.written \subseteq past.written /\ past'.written \subseteq T.entries \cup Around'
    BY <2>2, <2>5, <2>9, <2>10
  <2>12. Kept'
    BY <2>1, <2>9, <2>10, <2>11 DEF Kept
  <2>13. /\ procs'[p].step = "read" /\ procs'[p].doc = T /\ procs'[p].pruned = pr
         /\ \A q \in Procs \ {p} : procs'[q] = procs[q]
    BY <2>1 DEF Moved
  <2>14. ReadKeeps'
    <3> SUFFICES ASSUME NEW q \in Procs, procs'[q].step = "read"
                 PROVE  /\ past'.written \subseteq procs'[q].doc.entries \cup Around'
                        /\ procs'[q].pruned \subseteq disk'.doc.entries
      BY DEF ReadKeeps, At
    <3>1. q = p
      BY <1>4, <2>1, <2>13 DEF Inside
    <3> QED BY <2>1, <2>7, <2>11, <2>13, <3>1
  <2>15. Carried'
    BY <1>2, <2>1, <2>6, CarriedStays
  <2> QED BY <2>12, <2>14, <2>15 DEF Entire
<1>12. ASSUME NEW p \in Procs, Write(p) PROVE Entire'
  <2> DEFINE d == procs[p].doc
             w == {e \in d.entries : e.by = p}
             r == IF Op(p) = "sync" THEN disk.doc.entries \ d.entries ELSE {}
  <2>1. /\ procs[p].step = "read" /\ disk' = [disk EXCEPT !.doc = d]
        /\ Moved(p, "written", d, procs[p].pruned, procs[p].pile)
    BY <1>12, ProcessMoves DEF At
  <2>2. disk'.doc = d /\ disk'.archive = disk.archive
    BY <1>2, <2>1, DiskFields
  <2>3. past'.written = past.written \cup w /\ past'.raced = past.raced \cup r
    BY <1>2, <1>12, PastIs DEF PastMoves
  <2>4. Around \cup r \subseteq Around'
    BY <2>1, <2>2, <2>3, PrunedIs DEF Around
  <2>5. past.written \subseteq d.entries \cup Around'
    <3>1. CASE Op(p) = "sync"
      BY <1>2, <2>4, <3>1 DEF Kept
    <3>2. CASE Op(p) # "sync"
      BY <1>2, <2>1, <2>4, <3>2 DEF ReadKeeps, At
    <3> QED BY <3>1, <3>2
  <2>6. Kept'
    BY <2>2, <2>3, <2>5 DEF Kept
  <2>7. /\ procs'[p].step = "written" /\ \A q \in Procs \ {p} : procs'[q] = procs[q]
    BY <2>1 DEF Moved
  <2>8. ReadKeeps'
    <3> SUFFICES ASSUME NEW q \in Procs, procs'[q].step = "read" PROVE FALSE
      BY DEF ReadKeeps, At
    <3> QED BY <1>4, <2>1, <2>7 DEF Inside
  <2>9. Carried'
    BY <1>2, <2>1, CarriedStays DEF Carries
  <2> QED BY <2>6, <2>8, <2>9 DEF Entire
<1>13. ASSUME NEW p \in Procs, Release(p) PROVE Entire'
  <2>1. /\ procs[p].step = "written" /\ past' = past /\ disk' = [disk EXCEPT !.lock = Unlocked]
        /\ \/ procs[p].pruned = {} /\ Moved(p, "done", NoDoc, {}, {})
           \/ procs[p].pruned # {} /\ Moved(p, "archive", NoDoc, procs[p].pruned, procs[p].pile)
    BY <1>13, ProcessMoves DEF At
  <2>2. disk'.doc = disk.doc /\ disk'.archive = disk.archive
    BY <1>2, <2>1, DiskFields
  <2>3. Carries("done", {}) /\ Carries("archive", procs[p].pruned)
    BY DEF Carries
  <2> QED BY <1>1, <2>1, <2>2, <2>3, MovesKeep
<1>14. ASSUME NEW p \in Procs, ReadArchive(p) PROVE Entire'
  <2>1. /\ past' = past /\ disk' = disk
        /\ Moved(p, "append", procs[p].doc, procs[p].pruned, disk.archive)
    BY <1>14, ProcessMoves
  <2>2. Carries("append", procs[p].pruned)
    BY DEF Carries
  <2> QED BY <1>1, <2>1, <2>2, MovesKeep
<1>15. ASSUME NEW p \in Procs, WriteArchive(p) PROVE Entire'
  <2> DEFINE a == procs[p].pile \cup procs[p].pruned
  <2>1. disk' = [disk EXCEPT !.archive = a] /\ Moved(p, "done", NoDoc, {}, {})
    BY <1>15, ProcessMoves
  <2>2. disk'.doc = disk.doc /\ disk'.archive = a
    BY <1>2, <2>1, DiskFields
  <2>3. past'.written = past.written \cup {} /\ past'.raced = past.raced \cup (disk.archive \ a)
    BY <1>2, <1>15, PastIs DEF PastMoves
  <2>4. Around \subseteq Around'
    BY <2>1, <2>2, <2>3, PrunedIs DEF Around
  <2>5. Kept'
    BY <1>2, <2>2, <2>3, <2>4 DEF Kept
  <2>6. Carries("done", {}) /\ past'.written = past.written
    BY <2>3 DEF Carries
  <2>7. ReadKeeps' /\ Carried'
    BY <1>2, <2>1, <2>2, <2>4, <2>6, OthersRead, CarriedStays
  <2> QED BY <2>5, <2>7 DEF Entire
<1>16. ASSUME NEW p \in Procs, Kill(p) PROVE Entire'
  <2> DEFINE r == IF At(p, "read") THEN {} ELSE procs[p].pruned
  <2>1. disk' = disk /\ Moved(p, "killed", NoDoc, {}, {})
    BY <1>16, ProcessMoves
  <2>2. past'.written = past.written \cup {} /\ past'.raced = past.raced \cup r
    BY <1>2, <1>16, PastIs DEF PastMoves
  <2>3. Pruned \subseteq Pruned' \cup procs[p].pruned
    BY <2>1, PrunedIs
  <2>4. Carries("killed", {}) /\ past'.written = past.written
    BY <2>2 DEF Carries
  <2>5. CASE ~At(p, "read")
    <3>1. Around \subseteq Around'
      BY <2>1, <2>2, <2>3, <2>5 DEF Around
    <3>2. Kept'
      BY <1>2, <2>1, <2>4, <3>1 DEF Kept
    <3>3. ReadKeeps' /\ Carried'
      BY <1>2, <2>1, <2>4, <3>1, OthersRead, CarriedStays
    <3> QED BY <3>2, <3>3 DEF Entire
  <2>6. CASE At(p, "read")
    <3>1. procs[p].pruned \subseteq disk.doc.entries
      BY <1>2, <2>6 DEF ReadKeeps
    <3>2. Around \subseteq disk'.doc.entries \cup Around'
      BY <2>1, <2>2, <2>3, <3>1 DEF Around
    <3>3. Kept'
      BY <1>2, <2>1, <2>4, <3>2 DEF Kept
    <3>4. ReadKeeps'
      <4> SUFFICES ASSUME NEW q \in Procs, procs'[q].step = "read" PROVE FALSE
        BY DEF ReadKeeps, At
      <4>1. procs'[p].step = "killed" /\ \A x \in Procs \ {p} : procs'[x] = procs[x]
        BY <2>1 DEF Moved
      <4> QED BY <1>4, <2>6, <4>1 DEF At, Inside
    <3>5. Carried'
      BY <1>2, <2>1, <2>4, CarriedStays
    <3> QED BY <3>3, <3>4, <3>5 DEF Entire
  <2> QED BY <2>5, <2>6
<1>17. CASE LockAges \/ (\E n \in Phases : FinishPlan(n) \/ ClearPhase(n)) \/ UNCHANGED vars
  <2>1. /\ procs' = procs /\ past'.written = past.written /\ past'.raced = past.raced
        /\ disk'.doc = disk.doc /\ disk'.archive = disk.archive
    BY <1>2, <1>17, OtherSteps DEF PastAlike
  <2>2. Pruned' = Pruned /\ Around' = Around
    BY <2>1 DEF Pruned, Around
  <2> QED BY <1>2, <2>1, <2>2 DEF Entire, Kept, ReadKeeps, Carried, Carries, At, Op
<1> QED
  BY <1>5, <1>6, <1>7, <1>8, <1>9, <1>10, <1>11, <1>12, <1>13, <1>14, <1>15, <1>16, <1>17
     DEF Next

(* EntriesKept: while the lock is trusted, whatever commands run and        *)
(* whichever of them die, an entry once written that no command resolved is *)
(* in STATE.md, in STATE-ARCHIVE.md or on its way there, unless a state     *)
(* sync that read too early, a second prune or the death of a prune between *)
(* the two files took it: there is no fourth way to lose one.               *)
THEOREM EntriesAreKept ==
  ASSUME Free \notin Procs, IsFiniteSet(Procs), NEW e \in Environments
  PROVE  InitIn(e) /\ [][Next]_vars => []EntriesKept
<1>1. InitIn(e) => Shape /\ LockInv /\ EntriesInv
  <2> SUFFICES ASSUME InitIn(e) PROVE Shape /\ LockInv /\ EntriesInv
    OBVIOUS
  <2>1. Shape /\ LockInv
    BY InitialShape
  <2>2. past.written = disk.doc.entries
    BY DEF InitIn
  <2>3. \A p \in Procs : procs[p].step \in {"idle", "done"} /\ procs[p].pruned = {}
    BY DEF InitIn, Idle
  <2>4. Entire
    BY <2>2, <2>3 DEF Entire, Kept, ReadKeeps, Carried, Carries, At
  <2> QED BY <2>1, <2>4 DEF EntriesInv
<1>2. Shape /\ LockInv /\ EntriesInv /\ [Next]_vars => Shape' /\ LockInv' /\ EntriesInv'
  BY ShapeStep, LockKeeps, EntriesKeep
<1>3. EntriesInv => EntriesKept
  BY DEF EntriesInv, EntriesKept, Entire, Kept, Around
<1> QED BY <1>1, <1>2, <1>3, PTL
=============================================================================
