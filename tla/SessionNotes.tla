----------------------------- MODULE SessionNotes -----------------------------
(***************************************************************************)
(* What one session leaves to the next (scripts/hooks/session-end.js,      *)
(* session-start.js, session-end-marker.js, lib/observer-sessions.js).     *)
(* When an answer ends, the summary of the session is written into its     *)
(* note, between marks, beside what a person wrote there; when a session   *)
(* begins, old notes are removed and the note that fits best is shown with *)
(* the instincts that were learned.  A session holds a lease of the        *)
(* project's observer, which stops with the last lease.  Hooks that        *)
(* overlap would undo each other's work; one begins when the other ended.  *)
(***************************************************************************)
EXTENDS Integers, FiniteSets, SequencesExt

CONSTANTS Sessions, Files,
          Recent, Retention,      \* days a note is shown, and kept
          MaxTasks, MaxInstincts, Threshold

VARIABLES
  env,    \* the sessions' places and names, and how much may happen
  disk,   \* notes, transcripts, leases and the observer
  procs,  \* what the hook that runs is doing
  past    \* what was written and shown

vars == <<env, disk, procs, past>>

NoNote == [kind |-> "gone", header |-> FALSE, started |-> 0, worktree |-> "none",
           project |-> "none", tasks |-> <<>>, user |-> {}, day |-> 0, seq |-> 0]
NoLast == [file |-> "none", tasks |-> <<>>, day |-> 0]
Idle == [at |-> "idle", session |-> "none", text |-> NoNote, leases |-> {}]
Ended == {"idle", "done", "killed"}
Quiet == procs.at \in Ended

-----------------------------------------------------------------------------
(* The end of an answer.                                                    *)

Latest(seq, n) == IF Len(seq) <= n THEN seq ELSE SubSeq(seq, Len(seq) - n + 1, Len(seq))

\* The last messages of the person; without any there is no summary.
Summary(s) == Latest(disk.transcript[s], MaxTasks)

\* Mutant: the refreshed header begins anew.
HeaderAnew(s, old) ==
  [old EXCEPT !.header = TRUE, !.started = past.writes + 1, !.worktree = env.at[s].worktree,
              !.project = env.at[s].project]

\* The first header of a note says when it began; later ones only where the
\* session is.
SessionHeader(s, old) ==
  [old EXCEPT !.header = TRUE, !.started = IF old.started > 0 THEN @ ELSE past.writes + 1,
              !.worktree = env.at[s].worktree, !.project = env.at[s].project]

\* A note that has lost the line after its header keeps the header it has.
MergeSessionHeader(s, old) == IF old.header THEN SessionHeader(s, old) ELSE old

\* Mutant: the summary replaces everything that follows its first mark.
ReplacesRest(s, note) ==
  IF Summary(s) = <<>> THEN note ELSE [note EXCEPT !.kind = "marked", !.tasks = Summary(s), !.user = {}]

\* Between the marks the summary is replaced; a note without them loses all
\* from the first heading to its end, and gets them.
WithSummary(s, note) ==
  IF Summary(s) = <<>> THEN note
  ELSE IF note.kind = "marked" THEN [note EXCEPT !.tasks = Summary(s)]
  ELSE [note EXCEPT !.kind = "marked", !.tasks = Summary(s), !.user = {}]

NewNote(s) ==
  [SessionHeader(s, NoNote) EXCEPT !.kind = IF Summary(s) = <<>> THEN "blank" ELSE "marked",
                                   !.tasks = Summary(s)]

\* What the hook would write was read at its start; an empty note is left so.
Stop(s) ==
  LET old == disk.notes[env.file[s]]
  IN  /\ Quiet /\ s \in past.live /\ past.writes < env.writes
      /\ procs' = [Idle EXCEPT !.session = s,
           !.at = IF old.kind = "empty" THEN "done" ELSE "truncate",
           !.text = IF old.kind = "gone" THEN NewNote(s)
                    ELSE WithSummary(s, MergeSessionHeader(s, old))]
      /\ past' = [past EXCEPT !.writes = @ + 1]
      /\ UNCHANGED <<env, disk>>

\* The last note that was written in each worktree.
Touched(f, note) ==
  [w \in DOMAIN past.last |->
     IF w = note.worktree THEN [file |-> f, tasks |-> note.tasks, day |-> disk.day]
     ELSE IF past.last[w].file = f THEN NoLast ELSE past.last[w]]

\* The note is written in place: emptied, then filled.
Truncate ==
  /\ procs.at = "truncate"
  /\ disk' = [disk EXCEPT !.notes[env.file[procs.session]] =
                [NoNote EXCEPT !.kind = "empty", !.day = disk.day, !.seq = past.writes]]
  /\ procs' = [procs EXCEPT !.at = "fill"]
  /\ UNCHANGED <<env, past>>

Fill ==
  LET f == env.file[procs.session]
  IN  /\ procs.at = "fill"
      /\ disk' = [disk EXCEPT !.notes[f] = [procs.text EXCEPT !.day = disk.day, !.seq = past.writes]]
      /\ procs' = [procs EXCEPT !.at = "done"]
      /\ past' = [past EXCEPT !.began[f] = IF @ = 0 THEN procs.text.started ELSE @,
                              !.last = Touched(f, procs.text)]
      /\ UNCHANGED env

-----------------------------------------------------------------------------
(* The beginning of a session.                                              *)

\* Notes older than they are kept are removed.
PruneExpired(notes) ==
  [f \in Files |-> IF notes[f].kind # "gone" /\ disk.day - notes[f].day > Retention
                   THEN NoNote ELSE notes[f]]

\* The recent notes, the one that was written last first.
RecentNotes(notes) ==
  SetToSortSeq({f \in Files : notes[f].kind # "gone" /\ disk.day - notes[f].day <= Recent},
               LAMBDA f, g : notes[f].seq > notes[g].seq)

\* Mutant: the newest note is shown whatever project it is of.
NewestNote(s, notes) ==
  LET all == SelectSeq(RecentNotes(notes), LAMBDA f : notes[f].kind # "empty")
  IN  IF all = <<>> THEN NoNote ELSE notes[Head(all)]

\* Of the notes that can be read: the newest of this worktree, else of this
\* project, else of any.
MatchingNote(s, notes) ==
  LET all == SelectSeq(RecentNotes(notes), LAMBDA f : notes[f].kind # "empty")
      here == SelectSeq(all, LAMBDA f : notes[f].worktree = env.at[s].worktree)
      project == SelectSeq(all, LAMBDA f : notes[f].project = env.at[s].project)
  IN  IF here # <<>> THEN notes[Head(here)]
      ELSE IF project # <<>> THEN notes[Head(project)]
      ELSE IF all # <<>> THEN notes[Head(all)] ELSE NoNote

\* A note that holds nothing but the form is not shown.
Shown(note) == IF note.kind \in {"gone", "blank"} THEN NoNote ELSE note

\* A file of instincts: each begins with a line of dashes and needs a name; a
\* confidence that is no number is half.
Parsed(lines) ==
  {[id |-> l.id, scope |-> l.scope, action |-> l.action,
    confidence |-> IF l.confidence < 0 THEN 50 ELSE l.confidence] :
     l \in {l \in ToSet(lines) : l.id # "none"}}

\* Of the instincts one can rely on, for each name that of the project, the
\* surest first.
ActiveInstincts ==
  LET all == {i \in Parsed(env.instincts) : i.confidence >= Threshold}
      kept == {i \in all : i.scope = "project" \/ ~\E j \in all : j.id = i.id /\ j.scope = "project"}
      before(i, j) == \/ i.confidence > j.confidence
                      \/ i.confidence = j.confidence /\ i.scope = "project" /\ j.scope # "project"
                      \/ i.confidence = j.confidence /\ i.scope = j.scope /\ i.order < j.order
      ranked == SetToSortSeq({[id |-> i.id, scope |-> i.scope, confidence |-> i.confidence,
                               order |-> env.order[i.id]] : i \in {i \in kept : i.action}}, before)
  IN  SubSeq(ranked, 1, IF Len(ranked) < MaxInstincts THEN Len(ranked) ELSE MaxInstincts)

Removed(notes) == {f \in Files : disk.notes[f] # NoNote /\ notes[f] = NoNote}

Start(s) ==
  /\ Quiet /\ s \in env.sessions \ past.live /\ past.starts < env.starts
  /\ disk' = [disk EXCEPT !.notes = PruneExpired(@), !.leases = @ \cup {s}]
  /\ LET notes == PruneExpired(disk.notes)
     IN  past' = [past EXCEPT
           !.live = @ \cup {s}, !.starts = @ + 1,
           !.shown = [session |-> s, note |-> Shown(MatchingNote(s, notes)), last |-> past.last[env.at[s].worktree],
                      day |-> disk.day],
           !.user = {u \in @ : u.file \notin Removed(notes)},
           !.began = [f \in Files |-> IF f \in Removed(notes) THEN 0 ELSE @[f]],
           !.torn = @ \ Removed(notes)]
  /\ UNCHANGED <<env, procs>>

-----------------------------------------------------------------------------
(* The end of a session.                                                    *)

\* The observer is started by another hook of a session, which leaves its
\* number in a file.
StartObserver ==
  /\ past.live # {} /\ Quiet /\ ~disk.observer /\ past.observers < env.observers
  /\ disk' = [disk EXCEPT !.observer = TRUE, !.pid = TRUE]
  /\ past' = [past EXCEPT !.observers = @ + 1, !.serving = TRUE]
  /\ UNCHANGED <<env, procs>>

\* Mutant: the session that ends still counts its own lease.
CountsOwnLease(s) ==
  /\ Quiet /\ s \in past.live
  /\ procs' = [Idle EXCEPT !.at = "stop", !.session = s, !.leases = disk.leases]
  /\ disk' = [disk EXCEPT !.leases = @ \ {s}]
  /\ past' = [past EXCEPT !.live = @ \ {s}, !.serving = @ /\ past.live # {s}]
  /\ UNCHANGED env

\* The lease is removed, then the others are listed.
End(s) ==
  /\ Quiet /\ s \in past.live
  /\ disk' = [disk EXCEPT !.leases = @ \ {s}]
  /\ procs' = [Idle EXCEPT !.at = "stop", !.session = s, !.leases = disk.leases \ {s}]
  /\ past' = [past EXCEPT !.live = @ \ {s}, !.serving = @ /\ past.live # {s}]
  /\ UNCHANGED env

\* Without leases the observer is told to end; a number that is no longer that
\* of a process only has its file removed.
StopObserver ==
  /\ procs.at = "stop"
  /\ disk' = IF procs.leases = {} /\ disk.pid THEN [disk EXCEPT !.observer = FALSE, !.pid = FALSE] ELSE disk
  /\ procs' = [procs EXCEPT !.at = "done"]
  /\ UNCHANGED <<env, past>>

\* A session that is killed leaves its lease.
SessionDies(s) ==
  /\ Quiet /\ s \in past.live /\ past.kills < env.kills
  /\ past' = [past EXCEPT !.live = @ \ {s}, !.kills = @ + 1]
  /\ UNCHANGED <<env, disk, procs>>

ObserverDies ==
  /\ disk.observer /\ past.kills < env.kills
  /\ disk' = [disk EXCEPT !.observer = FALSE]
  /\ past' = [past EXCEPT !.kills = @ + 1, !.serving = FALSE]
  /\ UNCHANGED <<env, procs>>

Kill ==
  /\ ~Quiet /\ past.kills < env.kills
  /\ procs' = [procs EXCEPT !.at = "killed"]
  /\ past' = [past EXCEPT !.kills = @ + 1, !.torn = @ \cup (IF procs.at = "fill" THEN {env.file[procs.session]} ELSE {})]
  /\ UNCHANGED <<env, disk>>

-----------------------------------------------------------------------------
(* The person.                                                              *)

Talk(s) ==
  /\ Quiet /\ s \in past.live /\ Len(disk.transcript[s]) < env.messages
  /\ disk' = [disk EXCEPT !.transcript[s] = Append(@, Len(@) + 1)]
  /\ UNCHANGED <<env, procs, past>>

\* Something is added to a note, below the summary or below its heading.
WriteNote(f) ==
  /\ Quiet /\ disk.notes[f].kind \in {"blank", "plain", "marked"} /\ past.edits < env.edits
  /\ disk' = [disk EXCEPT !.notes[f].user = @ \cup {past.edits + 1}, !.notes[f].day = disk.day,
                          !.notes[f].seq = past.writes + 1]
  /\ past' = [past EXCEPT !.edits = @ + 1, !.writes = @ + 1, !.last = Touched(f, disk.notes[f]),
                          !.user = IF disk.notes[f].kind = "marked"
                                   THEN @ \cup {[file |-> f, text |-> past.edits + 1]} ELSE @]
  /\ UNCHANGED <<env, procs>>

Tomorrow ==
  /\ Quiet /\ disk.day < env.days
  /\ disk' = [disk EXCEPT !.day = @ + 1]
  /\ UNCHANGED <<env, procs, past>>

-----------------------------------------------------------------------------
InitIn(e) ==
  /\ env = e
  /\ disk = [notes |-> e.notes, transcript |-> [s \in Sessions |-> <<>>], leases |-> {},
             observer |-> FALSE, pid |-> FALSE, day |-> 0]
  /\ procs = Idle
  /\ past = [writes |-> 2, starts |-> 0, observers |-> 0, kills |-> 0, edits |-> 0, live |-> {},
             user |-> {}, torn |-> {}, serving |-> FALSE,
             began |-> [f \in Files |-> e.notes[f].started],
             last |-> [w \in {e.at[s].worktree : s \in Sessions} |-> NoLast],
             shown |-> [session |-> "none", note |-> NoNote, last |-> NoLast, day |-> 0]]

Next ==
  \/ \E s \in Sessions : Stop(s) \/ Start(s) \/ End(s) \/ SessionDies(s) \/ Talk(s)
  \/ \E f \in Files : WriteNote(f)
  \/ Truncate \/ Fill \/ StartObserver \/ StopObserver \/ ObserverDies \/ Kill \/ Tomorrow

-----------------------------------------------------------------------------
(* Properties.                                                              *)

TypeOK ==
  /\ \A f \in Files : disk.notes[f].kind \in {"gone", "empty", "blank", "plain", "marked"}
  /\ disk.leases \subseteq Sessions /\ past.live \subseteq disk.leases
  /\ procs.at \in Ended \cup {"truncate", "fill", "stop"}

(* What a person wrote into a note that has its marks is there until the    *)
(* note is removed for its age, however often the summary is replaced,      *)
(* unless the hook died while it wrote; and the note goes on saying when it *)
(* began.                                                                   *)
PersonsWordsKept ==
  \A f \in Files : f \in past.torn \/ procs.at = "fill" \/
    /\ \A u \in past.user : u.file = f => u.text \in disk.notes[f].user
    /\ disk.notes[f].header => disk.notes[f].started = past.began[f]

(* A session that begins is shown the messages of the session that last     *)
(* wrote a note in its worktree, as long as notes are shown, whatever was   *)
(* written elsewhere meanwhile, unless the hook died while it wrote.        *)
HandedOver ==
  LET b == past.shown
  IN  b.last.file # "none" /\ b.day - b.last.day <= Recent /\ past.torn = {} =>
        b.note.tasks = b.last.tasks

(* Of the instincts one name is shown once, that of the project before the  *)
(* general one, and none that is left out is surer than one that is shown.  *)
InstinctsFit ==
  LET all == ActiveInstincts
  IN  /\ Len(all) <= MaxInstincts
      /\ \A i, j \in DOMAIN all : i < j =>
           all[i].id # all[j].id /\ all[i].confidence >= all[j].confidence
      /\ \A i \in Parsed(env.instincts) :
           i.confidence >= Threshold /\ i.action /\ i.scope = "project" =>
             \/ \E k \in DOMAIN all : all[k].id = i.id /\ all[k].scope = "project"
             \/ Len(all) = MaxInstincts /\ all[MaxInstincts].confidence >= i.confidence

(* The observer works as long as a session of the project is open and no    *)
(* longer, if no session and no observer died.                              *)
ObserverServes == Quiet /\ past.kills = 0 => disk.observer = past.serving
=============================================================================
