---------------------------- MODULE SkillVersions ----------------------------
(***************************************************************************)
(* How skills change and how well they do (scripts/lib/skill-evolution):   *)
(* the versions kept beside a skill and the log of its amendments, the     *)
(* way back to an earlier version, where a learned skill comes from, the   *)
(* log of runs, and the health and panels derived from it.  Each operation *)
(* is several writes without a lock; two of them at once may take the same *)
(* number.  Here one begins when the one before has ended.                 *)
(***************************************************************************)
EXTENDS Integers, FiniteSets, Sequences

CONSTANTS Procs, Skills,
          Roots,   \* the places of skills in the order they are searched
          Now, Warn

VARIABLES
  env,    \* what may happen and how much of it
  disk,   \* the skills, their versions and logs, and the log of runs
  procs,  \* what each operation is doing
  past    \* what was reported

vars == <<env, disk, procs, past>>

Places == {<<r, s>> : r \in DOMAIN Roots, s \in Skills}
Nowhere == <<0, "none">>
Idle == [at |-> "idle", op |-> "none", place |-> Nowhere, target |-> 0, edits |-> 0,
         next |-> 0, text |-> 0]
Ended == {"idle", "done", "refused", "killed"}
At(p, at) == procs[p].at = at
GoesTo(p, at) == procs' = [procs EXCEPT ![p].at = at]

-----------------------------------------------------------------------------
(* Versions.                                                                *)

Exists(k) == disk.text[k] > 0

\* A skill without versions counts as its own first.
CurrentVersion(k) ==
  IF ~Exists(k) THEN 0 ELSE IF disk.versions[k] = <<>> THEN 1 ELSE Len(disk.versions[k])

\* Mutant: the number of the newest version is taken again.
SameVersion(k) == IF disk.versions[k] = <<>> THEN 1 ELSE Len(disk.versions[k])

NextVersion(k) == Len(disk.versions[k]) + 1

Entry(event, version, reason, status) ==
  [event |-> event, version |-> version, reason |-> reason, status |-> status]

\* A version, or the way back to one that must be there.
Begin(p) ==
  /\ \A q \in Procs : procs[q].at \in Ended
  /\ past.starts < env.starts
  /\ \E k \in Places, op \in {"version", "rollback"}, target \in 0..2 :
       procs' = [procs EXCEPT ![p] =
         [Idle EXCEPT !.op = op, !.place = k, !.target = target,
            !.at = IF ~Exists(k) THEN "refused"
                   ELSE IF op = "version" THEN "list"
                   ELSE IF target \notin DOMAIN disk.versions[k] THEN "refused" ELSE "restore",
            !.edits = past.edits,
            !.text = IF target \in DOMAIN disk.versions[k] THEN disk.versions[k][target] ELSE 0]]
  /\ past' = [past EXCEPT !.starts = @ + 1]
  /\ UNCHANGED <<env, disk>>

\* Mutant: the text of the target is put back after the new version is made.
RestoreLater(p) ==
  /\ At(p, "restore") /\ GoesTo(p, "list")
  /\ UNCHANGED <<env, disk, past>>

\* The text of the target replaces that of the skill, whatever it was.
Restore(p) ==
  /\ At(p, "restore")
  /\ disk' = [disk EXCEPT !.text[procs[p].place] = procs[p].text]
  /\ GoesTo(p, "list") /\ UNCHANGED <<env, past>>

List(p) ==
  LET k == procs[p].place
  IN  /\ At(p, "list")
      /\ procs' = [procs EXCEPT ![p].at = "snapshot", ![p].next = NextVersion(k),
                                ![p].text = disk.text[k]]
      /\ UNCHANGED <<env, disk, past>>

Snapshot(p) ==
  LET k == procs[p].place
  IN  /\ At(p, "snapshot")
      /\ disk' = [disk EXCEPT !.versions[k] =
           IF procs[p].next \in DOMAIN @ THEN [@ EXCEPT ![procs[p].next] = procs[p].text]
           ELSE Append(@, procs[p].text)]
      /\ GoesTo(p, "record") /\ UNCHANGED <<env, past>>

Record(p) ==
  LET k == procs[p].place  w == procs[p]
  IN  /\ At(p, "record")
      /\ disk' = [disk EXCEPT !.log[k] = Append(@, Entry("snapshot", w.next, w.op, "applied"))]
      /\ GoesTo(p, IF w.op = "rollback" THEN "rolled" ELSE "done")
      /\ past' = IF w.op = "rollback" THEN past
                 ELSE [past EXCEPT !.reported = @ \cup {<<k, w.next, w.text>>}]
      /\ UNCHANGED env

\* The record of the way back has a reason of its own only when one was given.
Rolled(p) ==
  LET k == procs[p].place  w == procs[p]
  IN  /\ At(p, "rolled")
      /\ disk' = [disk EXCEPT !.log[k] = Append(@, Entry("rollback", w.next, "none", "applied"))]
      /\ GoesTo(p, "done")
      /\ past' = [past EXCEPT !.reported = @ \cup {<<k, w.next, w.text>>}]
      /\ UNCHANGED env

\* Someone works on a skill, proposes an amendment, or runs it.
Edit(k) ==
  /\ Exists(k) /\ past.edits < env.edits
  /\ disk' = [disk EXCEPT !.text[k] = 10 + past.edits]
  /\ past' = [past EXCEPT !.edits = @ + 1]
  /\ UNCHANGED <<env, procs>>

Propose(k) ==
  /\ Exists(k) /\ past.edits < env.edits
  /\ \E status \in {"none", "queued", "applied"} :
       disk' = [disk EXCEPT !.log[k] = Append(@, Entry("proposal", 0, "none", status))]
  /\ past' = [past EXCEPT !.edits = @ + 1]
  /\ UNCHANGED <<env, procs>>

\* A run without a name, or with an outcome of its own, is refused.
RecordRun ==
  /\ Len(disk.runs) < env.runs
  /\ \E r \in env.executions : r.outcome \in {"success", "failure", "partial"}
                               /\ disk' = [disk EXCEPT !.runs = Append(@, r)]
  /\ UNCHANGED <<env, procs, past>>

Kill(p) ==
  /\ procs[p].at \notin Ended /\ past.kills < env.kills
  /\ past' = [past EXCEPT !.kills = @ + 1]
  /\ GoesTo(p, "killed") /\ UNCHANGED <<env, disk>>

-----------------------------------------------------------------------------
(* Where skills come from and how they do.                                  *)

NeedsProvenance(k) == Roots[k[1]] \in {"learned", "imported"}

\* Of a learned or an imported skill one must know where it comes from.
Provenance(k) ==
  CASE disk.origin[k] = "none" -> IF NeedsProvenance(k) THEN "error" ELSE "none"
    [] disk.origin[k] = "odd" -> "error"
    [] OTHER -> "known"

WriteProvenance(k) ==
  /\ NeedsProvenance(k) /\ past.edits < env.edits
  /\ disk' = [disk EXCEPT !.origin[k] = "known"]
  /\ past' = [past EXCEPT !.edits = @ + 1]
  /\ UNCHANGED <<env, procs>>

\* Of two skills of one name the one in the place that is searched first.
PlaceOf(s) ==
  LET found == {r \in DOMAIN Roots : Exists(<<r, s>>)}
  IN  IF found = {} THEN Nowhere ELSE <<CHOOSE r \in found : \A q \in found : r <= q, s>>

Runs(s) == {i \in DOMAIN disk.runs : disk.runs[i].skill = s}

Shown == {s \in Skills : PlaceOf(s) # Nowhere \/ Runs(s) # {}}

Within(runs, days) == {i \in runs : disk.runs[i].time >= Now - days /\ disk.runs[i].time <= Now}

Succeeded(runs) == {i \in runs : disk.runs[i].outcome = "success"}

\* In ten thousandths, rounded; below nothing when there was no run.
SuccessRate(runs) ==
  IF runs = {} THEN -1
  ELSE (10000 * Cardinality(Succeeded(runs)) + Cardinality(runs) \div 2) \div Cardinality(runs)

FailureTrend(week, month) ==
  IF week < 0 \/ month < 0 THEN "stable"
  ELSE IF week - month <= -Warn THEN "worsening"
  ELSE IF week - month >= Warn THEN "improving" ELSE "stable"

\* Mutant: only an entry with a status can be pending.
PendingByStatus(k) == {i \in DOMAIN disk.log[k] : disk.log[k][i].status \in {"pending", "queued"}}

\* A proposal without a status is pending; nothing makes it less so.
Pending(k) ==
  {i \in DOMAIN disk.log[k] : LET e == disk.log[k][i]
                              IN  IF e.status # "none" THEN e.status \in {"pending", "queued"}
                                  ELSE e.event = "proposal"}

Health(s) ==
  LET k == PlaceOf(s)  week == Within(Runs(s), 7)  month == Within(Runs(s), 30)
      trend == FailureTrend(SuccessRate(week), SuccessRate(month))
  IN  [version |-> IF k = Nowhere THEN 0 ELSE CurrentVersion(k),
       pending |-> IF k = Nowhere THEN 0 ELSE Cardinality(Pending(k)),
       week |-> SuccessRate(week), month |-> SuccessRate(month),
       trend |-> trend, declining |-> trend = "worsening"]

\* The runs of each of the last days; what is exactly as old as the first day
\* is in none of them.
Day(runs, b) == {i \in runs : disk.runs[i].time > Now - b - 1 /\ disk.runs[i].time <= Now - b}

FailureClusters ==
  LET failures == {i \in DOMAIN disk.runs : disk.runs[i].outcome = "failure"}
      reason(i) == disk.runs[i].reason
  IN  {[pattern |-> reason(i), count |-> Cardinality({j \in failures : reason(j) = reason(i)})] :
         i \in failures}

AmendmentPanel ==
  UNION {{<<s, i>> : i \in Pending(PlaceOf(s))} : s \in {t \in Skills : PlaceOf(t) # Nowhere}}

\* The last reason that was given for a version.
Timeline(k) ==
  [v \in DOMAIN disk.versions[k] |->
     LET given == {i \in DOMAIN disk.log[k] : /\ disk.log[k][i].version = v
                                              /\ disk.log[k][i].reason # "none"}
     IN  IF given = {} THEN "none"
         ELSE disk.log[k][CHOOSE i \in given : \A j \in given : j <= i].reason]

-----------------------------------------------------------------------------
InitIn(e) ==
  /\ env = e
  /\ disk = [text |-> e.text, versions |-> [k \in Places |-> <<>>], log |-> [k \in Places |-> <<>>],
             runs |-> <<>>, origin |-> e.origin]
  /\ procs = [p \in Procs |-> Idle]
  /\ past = [starts |-> 0, edits |-> 0, kills |-> 0, reported |-> {}]

Next ==
  \/ \E p \in Procs : \/ Begin(p) \/ Restore(p) \/ List(p) \/ Snapshot(p) \/ Record(p) \/ Rolled(p)
                      \/ Kill(p)
  \/ \E k \in Places : Edit(k) \/ Propose(k) \/ WriteProvenance(k)
  \/ RecordRun

-----------------------------------------------------------------------------
(* Properties.                                                              *)

TypeOK ==
  /\ \A k \in Places : /\ disk.text[k] \in Nat
                       /\ \A v \in DOMAIN disk.versions[k] : disk.versions[k][v] \in Nat
                       /\ disk.origin[k] \in {"none", "odd", "known"}
  /\ \A p \in Procs : procs[p].next \in Nat /\ procs[p].place \in Places \cup {Nowhere}

(* A version that was reported is kept with the text it was made of, with   *)
(* commands one after another, whoever of them is ended.                   *)
VersionsKept ==
  \A r \in past.reported : r[2] \in DOMAIN disk.versions[r[1]] /\ disk.versions[r[1]][r[2]] = r[3]

(* When an operation has ended in order, each version has its record and   *)
(* its reason; after the way back to a version, if nobody edited the skill *)
(* meanwhile, it and the newest version hold the text of that version.     *)
HistoryTells ==
  \A p \in Procs : At(p, "done") =>
    LET k == procs[p].place  w == procs[p]
    IN  /\ past.kills = 0 => \A v \in DOMAIN disk.versions[k] : Timeline(k)[v] # "none"
        /\ Len(disk.versions[k]) = CurrentVersion(k)
        /\ w.op = "rollback" /\ w.edits = past.edits =>
             /\ disk.versions[k][w.next] = disk.versions[k][w.target]
             /\ disk.text[k] = disk.versions[k][w.target]

(* Every skill that ran or that is there is shown; one that only succeeded *)
(* this week is not declining; the days of a month account for each run of *)
(* it once, the failures for each failed run, and the panel of amendments  *)
(* for those that the skills report.                                       *)
HealthTells ==
  LET all == DOMAIN disk.runs
  IN  /\ \A i \in all : disk.runs[i].skill \in Shown
      /\ \A s \in Shown : Health(s).week = 10000 => ~Health(s).declining
      /\ \A i \in Within(all, 30) :
           Cardinality({b \in 0..29 : i \in Day(all, b)}) = IF disk.runs[i].time = Now - 30 THEN 0 ELSE 1
      /\ \A i \in all : disk.runs[i].outcome = "failure" =>
           \E c \in FailureClusters : c.pattern = disk.runs[i].reason /\ c.count > 0
      /\ \A s \in Shown : Cardinality({a \in AmendmentPanel : a[1] = s}) = Health(s).pending
      /\ \A k \in Places : \A i \in DOMAIN disk.log[k] :
           disk.log[k][i].event = "proposal" /\ disk.log[k][i].status # "applied" => i \in Pending(k)
      /\ \A k \in Places : Roots[k[1]] = "curated" /\ disk.origin[k] = "none" => Provenance(k) = "none"
=============================================================================
