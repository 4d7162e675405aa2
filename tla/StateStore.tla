----------------------------- MODULE StateStore -----------------------------
(***************************************************************************)
(* The store of sessions, runs of skills, their versions, decisions,       *)
(* installations and events (scripts/lib/state-store).  A process reads    *)
(* the whole database into memory, works on it there, and writes all of it *)
(* over the file after every statement, after a transaction and when it    *)
(* closes the store.  Exporting the database resets its settings, so that  *)
(* the rows a row refers to need not exist.  A process that overlaps with  *)
(* another overwrites what that one wrote, even if it only reads; here a   *)
(* store is opened when the process before has ended.                      *)
(***************************************************************************)
EXTENDS Naturals, FiniteSets, SequencesExt

CONSTANTS Procs, Ids,
          ActiveLimit, RunLimit, PendingLimit  \* how much of a table the status shows

VARIABLES
  env,    \* the rows that are written, and how much may happen
  disk,   \* the file
  procs,  \* each process, its database and what it is doing
  past    \* the rows that were acknowledged

vars == <<env, disk, procs, past>>

Tables == {"sessions", "skill_runs", "skill_versions", "decisions", "install_state",
           "governance_events"}
NoRow == [at |-> 0, end |-> 0, is |-> "none"]
NoRows == [t \in Tables |-> [i \in Ids |-> NoRow]]
NewStore == [version |-> 0, rows |-> NoRows]
Missing == [kind |-> "missing", db |-> NewStore]
Holding(db) == [kind |-> "whole", db |-> db]
Idle == [at |-> "idle", db |-> NewStore, then |-> "ready"]
Ended == {"idle", "closed", "refused", "killed"}
At(p, at) == procs[p].at = at
GoesTo(p, at) == procs' = [procs EXCEPT ![p].at = at]

-----------------------------------------------------------------------------
(* What the store tells.                                                    *)

Rows(db, t) == {i \in Ids : db.rows[t][i] # NoRow}

\* Mutant: the status shows the first rows of a table.
FirstWritten(db, t, ids, limit) ==
  LET row(i) == db.rows[t][i]
      all == SetToSortSeq(ids, LAMBDA i, j : row(i).at < row(j).at)
  IN  SubSeq(all, 1, IF Len(all) < limit THEN Len(all) ELSE limit)

\* Newest first; identifiers are compared where the times are equal.
Newest(db, t, ids, limit) ==
  LET row(i) == db.rows[t][i]
      all == SetToSortSeq(ids, LAMBDA i, j : row(i).at > row(j).at \/ (row(i).at = row(j).at /\ i > j))
  IN  SubSeq(all, 1, IF Len(all) < limit THEN Len(all) ELSE limit)

\* A session without an end whose state is one of those of a session at work.
Active(db) ==
  {i \in Rows(db, "sessions") : /\ db.rows["sessions"][i].end = 0
                                /\ db.rows["sessions"][i].is \in {"active", "running", "idle"}}

Pending(db) == {i \in Rows(db, "governance_events") : db.rows["governance_events"][i].end = 0}

Outcome(row) ==
  CASE row.is \in {"success", "succeeded", "passed"} -> "success"
    [] row.is \in {"failure", "failed", "error"} -> "failure"
    [] OTHER -> "unknown"

\* Rates are those of the runs whose outcome is known.
Summary(db, runs) ==
  LET with(o) == Cardinality({k \in DOMAIN runs : Outcome(db.rows["skill_runs"][runs[k]]) = o})
      known == with("success") + with("failure")
  IN  [total |-> Len(runs), success |-> with("success"), failure |-> with("failure"),
       unknown |-> with("unknown"), rate |-> IF known = 0 THEN 0 - 1
                                             ELSE (100 * with("success")) \div known]

\* An installation is healthy when it says which version it is of.
InstallHealth(db) ==
  LET all == Rows(db, "install_state")
  IN  IF all = {} THEN "missing"
      ELSE IF \E i \in all : db.rows["install_state"][i].is = "none" THEN "warning" ELSE "healthy"

Status(db) ==
  LET runs == Newest(db, "skill_runs", Rows(db, "skill_runs"), RunLimit)
  IN  [active |-> Newest(db, "sessions", Active(db), ActiveLimit),
       activeCount |-> Cardinality(Active(db)),
       recent |-> runs, summary |-> Summary(db, runs), health |-> InstallHealth(db),
       events |-> Newest(db, "governance_events", Pending(db), PendingLimit),
       pendingCount |-> Cardinality(Pending(db))]

\* The runs and decisions of a session; a row holds its session in "end".
Detail(db, s) ==
  LET ofS(t) == {i \in Rows(db, t) : db.rows[t][i].end = s}
  IN  [runs |-> Newest(db, "skill_runs", ofS("skill_runs"), Cardinality(Ids)),
       decisions |-> Newest(db, "decisions", ofS("decisions"), Cardinality(Ids))]

-----------------------------------------------------------------------------
(* Writing.                                                                 *)

\* A row without a time is of now.
Normalized(w) ==
  IF w.table = "sessions" \/ w.row.at > 0 THEN w.row ELSE [w.row EXCEPT !.at = past.writes + 1]

\* A row with the key of another takes its place.
Upsert(db, w) == [db EXCEPT !.rows[w.table][w.id] = Normalized(w)]

Saves(p, db, then) ==
  procs' = [procs EXCEPT ![p].db = db, ![p].at = "save", ![p].then = then]

\* The file as it is found; an empty one is a new database, half of one is an error.
Open(p) ==
  /\ \A q \in Procs : procs[q].at \in Ended
  /\ past.opens < env.opens
  /\ IF disk.kind = "partial" THEN GoesTo(p, "refused")
     ELSE Saves(p, disk.db, "migrate")
  /\ past' = [past EXCEPT !.opens = @ + 1]
  /\ UNCHANGED <<env, disk>>

\* Mutant: the tables are made whether or not they are there.
MigrateAnew(p) ==
  /\ At(p, "migrate")
  /\ Saves(p, [procs[p].db EXCEPT !.version = 1, !.rows = NoRows], "list")
  /\ UNCHANGED <<env, disk, past>>

\* The migrations that the database has not seen, in one transaction.
Migrate(p) ==
  /\ At(p, "migrate")
  /\ Saves(p, IF procs[p].db.version = 1 THEN procs[p].db
              ELSE [procs[p].db EXCEPT !.version = 1, !.rows = NoRows], "list")
  /\ UNCHANGED <<env, disk, past>>

\* The list of migrations, for which their table is made once more.
List(p) ==
  /\ At(p, "list") /\ Saves(p, procs[p].db, "ready")
  /\ UNCHANGED <<env, disk, past>>

\* A row that does not fit the schema is refused before anything is written.
Write(p) ==
  /\ At(p, "ready") /\ past.writes < env.writes
  /\ \E w \in env.rows :
       IF ~w.valid THEN UNCHANGED procs
       ELSE Saves(p, Upsert(procs[p].db, w), "written")
  /\ past' = [past EXCEPT !.writes = @ + 1]
  /\ UNCHANGED <<env, disk>>

\* The whole database is written over the file.
Truncate(p) ==
  /\ At(p, "save")
  /\ disk' = [kind |-> "empty", db |-> NewStore]
  /\ GoesTo(p, "fill") /\ UNCHANGED <<env, past>>

Fill(p) ==
  /\ At(p, "fill")
  /\ disk' = Holding(procs[p].db)
  /\ procs' = [procs EXCEPT ![p].at = IF procs[p].then = "written" THEN "ready" ELSE procs[p].then]
  /\ past' = [past EXCEPT !.rows = IF procs[p].then = "written" THEN procs[p].db.rows ELSE @]
  /\ UNCHANGED env

\* A store that is closed is written once more.
Close(p) ==
  /\ At(p, "ready") /\ Saves(p, procs[p].db, "closed")
  /\ UNCHANGED <<env, disk, past>>

\* The end in the middle of writing leaves an empty file or a part of one.
Kill(p) ==
  /\ procs[p].at \notin Ended /\ past.kills < env.kills
  /\ IF At(p, "fill")
     THEN \E kind \in {"empty", "partial"} : disk' = [kind |-> kind, db |-> NewStore]
     ELSE UNCHANGED disk
  /\ past' = [past EXCEPT !.kills = @ + 1, !.torn = @ \/ At(p, "fill")]
  /\ GoesTo(p, "killed") /\ UNCHANGED env

InitIn(e) ==
  /\ env = e /\ disk = Missing
  /\ procs = [p \in Procs |-> Idle]
  /\ past = [opens |-> 0, writes |-> 0, kills |-> 0, torn |-> FALSE, rows |-> NoRows]

Next == \E p \in Procs : \/ Open(p) \/ Migrate(p) \/ List(p) \/ Write(p) \/ Close(p)
                         \/ Truncate(p) \/ Fill(p) \/ Kill(p)

-----------------------------------------------------------------------------
(* Properties.                                                              *)

Row == [at : Nat, end : Nat, is : STRING]
Database == [version : {0, 1}, rows : [Tables -> [Ids -> Row]]]

TypeOK ==
  /\ disk \in [kind : {"missing", "empty", "partial", "whole"}, db : Database]
  /\ \A p \in Procs : procs[p].db \in Database

(* The rows that were written out are in the database of the process that  *)
(* opens the store next, and a store that can be used has its tables,      *)
(* unless a process was ended in the middle of writing the file.           *)
RowsSurvive ==
  ~past.torn =>
    /\ \A p \in Procs :
         /\ At(p, "ready") => procs[p].db.rows = past.rows /\ procs[p].db.version = 1
         /\ procs[p].at # "refused"
    /\ disk.kind = "whole" => disk.db.rows = past.rows

(* The status of a store: no session, run or event that is left out is     *)
(* newer than one that is shown, the counts are those of all rows, and a   *)
(* summary accounts for each of its runs.                                  *)
StatusTells ==
  \A p \in Procs : At(p, "ready") =>
    LET db == procs[p].db
        s == Status(db)
        shown(t, list, all) ==
          \A k \in DOMAIN list : /\ list[k] \in all
                                 /\ \A i \in all \ ToSet(list) : db.rows[t][i].at <= db.rows[t][list[k]].at
    IN  /\ shown("sessions", s.active, Active(db))
        /\ shown("skill_runs", s.recent, Rows(db, "skill_runs"))
        /\ shown("governance_events", s.events, Pending(db))
        /\ s.activeCount = Len(s.active) \/ Len(s.active) = ActiveLimit
        /\ s.pendingCount = Len(s.events) \/ Len(s.events) = PendingLimit
        /\ s.summary.success + s.summary.failure + s.summary.unknown = s.summary.total
        /\ s.health = "missing" <=> \A i \in Ids : db.rows["install_state"][i] = NoRow
        /\ \A i \in Rows(db, "skill_runs") : \E k \in Ids :
             k = db.rows["skill_runs"][i].end => i \in ToSet(Detail(db, k).runs)
=============================================================================
