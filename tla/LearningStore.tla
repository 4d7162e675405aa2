----------------------------- MODULE LearningStore -----------------------------
(***************************************************************************)
(* The learnings of all projects (gsd-core/bin/lib/learnings): one file    *)
(* for each in a directory that every project shares.  A learning of a     *)
(* project is kept once: who writes looks through the files first, and a   *)
(* copy of a project's notes builds an index before its first section.     *)
(* Nothing is locked, so that another command may write or remove between  *)
(* the look and the write.                                                 *)
(***************************************************************************)
EXTENDS Integers, FiniteSets, SequencesExt

CONSTANTS Procs,
          MaxId,   \* files there may ever be
          MaxNow   \* how far time goes

VARIABLES
  env,    \* the notes of the projects, the commands, and how much may happen
  disk,   \* the files of the store, and the time
  procs,  \* what each command is doing
  past    \* the names used, what was pruned, and whether writers overlapped

vars == <<env, disk, procs, past>>

Ids == 1..MaxId
Undated == -1
NoFile == [is |-> "gone", project |-> "none", text |-> "none", tags |-> {}, date |-> Undated]

NoRequest == [op |-> "none", project |-> "none", text |-> "none", tag |-> "none", id |-> 1, days |-> 0]
Idle == [at |-> "idle", req |-> NoRequest, queue |-> <<>>, sections |-> <<>>, index |-> {}, shown |-> <<>>,
         found |-> {}, cutoff |-> 0, stale |-> FALSE]
Ended == {"idle", "done", "failed", "killed"}
At(p, at) == procs[p].at = at
GoesTo(p, at) == procs' = [procs EXCEPT ![p].at = at]

Readable(id) == disk.files[id].is = "record"
Listed == SelectSeq([i \in Ids |-> i], LAMBDA id : disk.files[id].is # "gone")

-----------------------------------------------------------------------------
\* Mutant: the project is left out of what tells learnings apart.
TextAlone(text, project) == <<text>>

\* What tells two learnings apart.
ContentHash(text, project) == <<text, project>>

HashOf(id) == ContentHash(disk.files[id].text, disk.files[id].project)

Writers == {p \in Procs : procs[p].at \notin Ended /\ procs[p].req.op \in {"write", "copy"}}

\* A command of the tool, or a call of the library.
Begin(p) ==
  /\ p \in env.procs /\ procs[p].at \in Ended /\ past.starts < env.starts
  /\ \E r \in env.requests :
       /\ procs' = [procs EXCEPT ![p] =
            [Idle EXCEPT !.req = r, !.found = {id \in Ids : Readable(id)}, !.cutoff = disk.now - r.days,
               !.sections = IF r.op = "copy" THEN env.notes[r.project] ELSE <<>>,
               !.at = IF r.op = "delete" THEN "check" ELSE IF r.op = "copy" /\ ~env.hasNotes[r.project] THEN "done" ELSE "list"]]
       /\ past' = [past EXCEPT !.starts = @ + 1,
                     !.crossed = @ \/ (r.op \in {"write", "copy"} /\ Writers # {})]
  /\ UNCHANGED <<env, disk>>

\* The names of the files are taken first.
List(p) ==
  /\ At(p, "list")
  /\ procs' = [procs EXCEPT ![p].at = "read", ![p].queue = Listed]
  /\ UNCHANGED <<env, disk, past>>

NewestFirst(ids) ==
  SortSeq(ids, LAMBDA a, b : disk.files[a].date > disk.files[b].date \/ (disk.files[a].date = disk.files[b].date /\ a < b))

\* What a command does with a learning it has read.
Take(p, id) ==
  LET w == procs[p]
      r == w.req
      rest == [procs EXCEPT ![p].queue = Tail(@)]
      same == HashOf(id) = ContentHash(r.text, r.project)
  IN  CASE r.op = "write" -> IF same THEN [procs EXCEPT ![p].at = "done"] ELSE rest
        [] r.op = "copy" -> [rest EXCEPT ![p].index = @ \cup {HashOf(id)}]
        [] r.op = "prune" -> rest
        [] r.op = "query" -> IF r.tag = "none" \/ r.tag \in disk.files[id].tags
                             THEN [rest EXCEPT ![p].shown = Append(@, id)] ELSE rest

\* Mutant: a learning without a date counts as an old one.
UndatedIsOld(p, id) == disk.files[id].date < procs[p].cutoff

TooOld(p, id) == disk.files[id].date # Undated /\ disk.files[id].date < procs[p].cutoff

\* Mutant: a file that cannot be read ends the look.
ReadUntilBroken(p) ==
  /\ At(p, "read") /\ procs[p].queue # <<>>
  /\ LET id == Head(procs[p].queue)
     IN  procs' = IF ~Readable(id) THEN [procs EXCEPT ![p].queue = <<>>]
                  ELSE IF procs[p].req.op = "prune" /\ TooOld(p, id) THEN [procs EXCEPT ![p].at = "unlink"]
                  ELSE Take(p, id)
  /\ UNCHANGED <<env, disk, past>>

\* The files are read one by one; one that is gone or torn is passed over.
Read(p) ==
  /\ At(p, "read") /\ procs[p].queue # <<>>
  /\ LET id == Head(procs[p].queue)
     IN  procs' = IF ~Readable(id) THEN [procs EXCEPT ![p].queue = Tail(@)]
                  ELSE IF procs[p].req.op = "prune" /\ TooOld(p, id) THEN [procs EXCEPT ![p].at = "unlink"]
                  ELSE Take(p, id)
  /\ UNCHANGED <<env, disk, past>>

\* All were read.
ReadAll(p) ==
  /\ At(p, "read") /\ procs[p].queue = <<>>
  /\ procs' = [procs EXCEPT ![p].at = CASE procs[p].req.op = "copy" -> "section"
                                        [] procs[p].req.op = "write" -> "create"
                                        [] OTHER -> "done",
                            ![p].shown = NewestFirst(@)]
  /\ UNCHANGED <<env, disk, past>>

\* A file of its own, under a name that nobody has.
NewFile(project, text, tags) ==
  [disk EXCEPT !.files[past.used + 1] =
     [is |-> "record", project |-> project, text |-> text, tags |-> tags, date |-> disk.now]]

Create(p) ==
  LET r == procs[p].req
  IN  /\ At(p, "create") /\ past.used < MaxId
      /\ disk' = NewFile(r.project, r.text, {})
      /\ past' = [past EXCEPT !.used = @ + 1]
      /\ GoesTo(p, "done") /\ UNCHANGED env

\* Mutant: what was just written is not entered in the index.
SectionUnindexed(p) ==
  LET w == procs[p]
      s == Head(w.sections)
      hash == ContentHash(s.body, w.req.project)
      new == s.body # "none" /\ hash \notin w.index
  IN  /\ At(p, "section") /\ w.sections # <<>> /\ past.used < MaxId
      /\ procs' = [procs EXCEPT ![p].sections = Tail(@)]
      /\ disk' = IF new THEN NewFile(w.req.project, s.body, s.tags) ELSE disk
      /\ past' = IF new THEN [past EXCEPT !.used = @ + 1] ELSE past
      /\ UNCHANGED env

\* One section of the notes: a heading alone is none, a known one is skipped.
Section(p) ==
  LET w == procs[p]
      s == Head(w.sections)
      hash == ContentHash(s.body, w.req.project)
      new == s.body # "none" /\ hash \notin w.index
  IN  /\ At(p, "section") /\ w.sections # <<>> /\ past.used < MaxId
      /\ procs' = [procs EXCEPT ![p].sections = Tail(@), ![p].index = IF new THEN @ \cup {hash} ELSE @]
      /\ disk' = IF new THEN NewFile(w.req.project, s.body, s.tags) ELSE disk
      /\ past' = IF new THEN [past EXCEPT !.used = @ + 1] ELSE past
      /\ UNCHANGED env

Copied(p) == At(p, "section") /\ procs[p].sections = <<>> /\ GoesTo(p, "done") /\ UNCHANGED <<env, disk, past>>

\* Everybody's look is out of date once a file is gone.
Removed(id, next) ==
  /\ disk' = [disk EXCEPT !.files[id] = NoFile]
  /\ procs' = [q \in Procs |-> [next[q] EXCEPT !.stale = TRUE]]

Check(p) ==
  /\ At(p, "check")
  /\ GoesTo(p, IF disk.files[procs[p].req.id].is = "gone" THEN "done" ELSE "unlink")
  /\ UNCHANGED <<env, disk, past>>

\* The file is removed; one that somebody else has removed ends the command.
Unlink(p) ==
  LET w == procs[p]
      prunes == w.req.op = "prune"
      id == IF prunes THEN Head(w.queue) ELSE w.req.id
  IN  /\ At(p, "unlink")
      /\ IF disk.files[id].is = "gone" THEN GoesTo(p, "failed") /\ UNCHANGED <<disk, past>>
         ELSE /\ Removed(id, IF prunes THEN [procs EXCEPT ![p].at = "read", ![p].queue = Tail(@)]
                             ELSE [procs EXCEPT ![p].at = "done"])
              /\ past' = IF prunes THEN [past EXCEPT !.pruned = @ \cup {<<disk.files[id].date, w.cutoff>>}] ELSE past
      /\ UNCHANGED env

Kill(p) ==
  /\ procs[p].at \notin Ended /\ past.kills < env.kills
  /\ GoesTo(p, "killed")
  /\ past' = [past EXCEPT !.kills = @ + 1]
  /\ UNCHANGED <<env, disk>>

Tick ==
  /\ disk.now < MaxNow /\ past.starts < env.starts
  /\ disk' = [disk EXCEPT !.now = @ + 1]
  /\ UNCHANGED <<env, procs, past>>

-----------------------------------------------------------------------------
InitIn(e) ==
  /\ env = e
  /\ disk = [files |-> [id \in Ids |-> IF id \in DOMAIN e.files THEN e.files[id] ELSE NoFile], now |-> e.now]
  /\ procs = [p \in Procs |-> Idle]
  /\ past = [starts |-> 0, kills |-> 0, used |-> Len(e.files), pruned |-> {}, crossed |-> FALSE]

Next ==
  \/ \E p \in Procs :
       Begin(p) \/ List(p) \/ Read(p) \/ ReadAll(p) \/ Create(p) \/ Section(p) \/ Copied(p)
         \/ Check(p) \/ Unlink(p) \/ Kill(p)
  \/ Tick

-----------------------------------------------------------------------------
\* Names are taken once and time does not go back.
TypeOK ==
  /\ past.used \in 0..MaxId /\ disk.now \in 0..MaxNow
  /\ \A id \in Ids : disk.files[id].is \in {"gone", "broken", "record"} /\ (id > past.used => disk.files[id] = NoFile)
  /\ \A p \in Procs : procs[p].at \in Ended \cup {"list", "read", "create", "section", "check", "unlink"}

\* Every section of notes that were copied is in the store, unless something
\* was removed since the copy looked; and pruning takes none whose date is
\* unknown or within the time asked for.
LearningsKept ==
  /\ \A p \in Procs : procs[p].req.op = "copy" /\ At(p, "done") /\ ~procs[p].stale =>
       \A i \in DOMAIN env.notes[procs[p].req.project] :
         LET s == env.notes[procs[p].req.project][i]
         IN  (s.body # "none" /\ env.hasNotes[procs[p].req.project]) =>
               \E id \in Ids : Readable(id) /\ disk.files[id].text = s.body
                                 /\ disk.files[id].project = procs[p].req.project
  /\ \A r \in past.pruned : r[1] # Undated /\ r[1] < r[2]

\* A project's learning is in the store once as long as no two writers were at
\* work together; and a list shows all that was there when it began and is
\* still there, whatever other files are like, the newest before the others.
StoredOnce ==
  /\ ~past.crossed =>
       \A a, b \in Ids : Readable(a) /\ Readable(b) /\ disk.files[a].text = disk.files[b].text
                           /\ disk.files[a].project = disk.files[b].project => a = b
  /\ \A p \in Procs : procs[p].req.op = "query" /\ At(p, "done") /\ ~procs[p].stale =>
       LET r == procs[p].req
           shown == procs[p].shown
       IN  /\ {id \in procs[p].found : r.tag = "none" \/ r.tag \in disk.files[id].tags} \subseteq ToSet(shown)
           /\ \A i, j \in DOMAIN shown : i < j => disk.files[shown[i]].date >= disk.files[shown[j]].date
================================================================================
