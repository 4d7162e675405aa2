---------------------------- MODULE SessionNames ----------------------------
(***************************************************************************)
(* The notes on earlier sessions and the names given to them               *)
(* (scripts/lib/session-manager.js and session-aliases.js).  Notes are     *)
(* files of a new directory or of an older one; names are the entries of   *)
(* one file, which every command reads as a whole and writes as a whole:   *)
(* a copy is put aside, the new contents are written beside the file and   *)
(* renamed over it, and the copy is removed or, after a failure, put back. *)
(* Commands that overlap share the names of those files and may destroy    *)
(* each other's work; here a command begins when the one before has ended. *)
(***************************************************************************)
EXTENDS Naturals, FiniteSets, SequencesExt

CONSTANTS Procs, Names,
          Reserved,  \* the names the commands keep for themselves
          Dirs,      \* the directories in the order they are searched
          Files      \* the names of session files

VARIABLES
  env,    \* commands, questions, and how much may happen
  disk,   \* the file of names, what is beside it, and the session files
  procs,  \* what each command is doing
  past    \* what the names should be, whatever the file says

vars == <<env, disk, procs, past>>

None == "none"
Nowhere == <<0, None>>
Paths == {<<d, f>> : d \in DOMAIN Dirs, f \in Files}
NoEntry == [of |-> Nowhere, made |-> 0, titled |-> FALSE]
Empty == [n \in Names |-> NoEntry]
Absent == [kind |-> "absent", names |-> Empty]
Torn == [kind |-> "torn", names |-> Empty]
Whole(names) == [kind |-> "whole", names |-> names]

Idle == [at |-> "idle", op |-> "none", name |-> None, to |-> None, of |-> Nowhere,
         data |-> Empty, old |-> Empty, read |-> Absent, again |-> FALSE]
Ended == {"idle", "done", "failed", "refused", "killed"}
At(p, at) == procs[p].at = at
GoesTo(p, at) == procs' = [procs EXCEPT ![p].at = at]
Quiet == \A p \in Procs : procs[p].at \in Ended

-----------------------------------------------------------------------------
(* The notes.                                                               *)

OnDisk(d, f) == disk.time[d][f] > 0

\* Mutant: of two files of one name the newer one is listed.
NewerCandidates(day, word) ==
  {<<d, f>> \in Paths :
     /\ OnDisk(d, f) /\ env.about[f].valid
     /\ day \in {0, env.about[f].day} /\ word \in {None} \cup env.about[f].words
     /\ \A e \in DOMAIN Dirs : disk.time[e][f] <= disk.time[d][f]}

\* The files with the name of a session on a day that exists; of two with the
\* same name the one in the directory that is searched first.
Candidates(day, word) ==
  {<<d, f>> \in Paths :
     /\ OnDisk(d, f) /\ env.about[f].valid
     /\ day \in {0, env.about[f].day} /\ word \in {None} \cup env.about[f].words
     /\ \A e \in 1..(d - 1) : ~OnDisk(e, f)}

Newer(a, b) == disk.time[a[1]][a[2]] > disk.time[b[1]][b[2]]

Listing(day, word) == SetToSortSeq(Candidates(day, word), Newer)

\* An offset below nothing is nothing, and a page holds at least one session.
Page(day, word, rawOffset, rawLimit) ==
  LET all == Listing(day, word)
      offset == IF rawOffset < 0 THEN 0 ELSE rawOffset
      limit == IF rawLimit < 1 THEN 1 ELSE rawLimit
      last == IF offset + limit < Len(all) THEN offset + limit ELSE Len(all)
  IN  [sessions |-> SubSeq(all, offset + 1, last), next |-> offset + limit,
       hasMore |-> offset + limit < Len(all)]

\* What is asked for begins the session's own id, or is the file's name.
Matches(ask, f) ==
  \/ env.about[f].id /\ f \in ask.begins
  \/ f = ask.is

\* The newest of the sessions that match.
ById(ask) ==
  LET found == {<<d, f>> \in Paths :
                  /\ OnDisk(d, f) /\ env.about[f].valid /\ Matches(ask, f)
                  /\ \A e \in 1..(d - 1) : ~OnDisk(e, f)}
  IN  IF found = {} THEN Nowhere
      ELSE CHOOSE s \in found : \A t \in found \ {s} : Newer(s, t)

SessionExists(path) == path \in Paths /\ OnDisk(path[1], path[2])

WriteSession(d, f) ==
  /\ past.writes < env.writes
  /\ disk' = [disk EXCEPT !.time[d][f] = past.writes + Cardinality(Paths) + 1]
  /\ past' = [past EXCEPT !.writes = @ + 1]
  /\ UNCHANGED <<env, procs>>

DeleteSession(d, f) ==
  /\ OnDisk(d, f) /\ past.writes < env.writes
  /\ disk' = [disk EXCEPT !.time[d][f] = 0]
  /\ past' = [past EXCEPT !.writes = @ + 1]
  /\ UNCHANGED <<env, procs>>

-----------------------------------------------------------------------------
(* The names.                                                               *)

\* A file that is missing or makes no sense is an empty one.
Loaded == disk.file.names

Valid(n) == n \notin Reserved

Has(names, n) == names[n] # NoEntry

\* A name that is set again keeps the day it was made on and loses its title.
Set(names, n, of, made) ==
  [names EXCEPT ![n] = [of |-> of, made |-> IF Has(names, n) THEN @.made ELSE made,
                        titled |-> FALSE]]

Delete(names, n) == [names EXCEPT ![n] = NoEntry]

Rename(names, n, to) == [names EXCEPT ![to] = names[n], ![n] = NoEntry]

Title(names, n) == [names EXCEPT ![n].titled = TRUE]

\* The names of sessions that are gone.
Cleanup(names) ==
  [n \in Names |-> IF SessionExists(names[n].of) THEN names[n] ELSE NoEntry]

\* What a command refuses.
Refused(c, names) ==
  CASE c.op = "set" -> ~Valid(c.name)
    [] c.op = "rename" -> ~Has(names, c.name) \/ ~Valid(c.to) \/ Has(names, c.to)
    [] c.op = "clean" -> FALSE
    [] OTHER -> ~Has(names, c.name)

\* What it makes of the names.
Changed(c, names) ==
  CASE c.op = "set" -> Set(names, c.name, c.of, past.starts + 1)
    [] c.op = "delete" -> Delete(names, c.name)
    [] c.op = "rename" -> Rename(names, c.name, c.to)
    [] c.op = "title" -> Title(names, c.name)
    [] OTHER -> Cleanup(names)

\* A cleanup that removes nothing saves nothing.
Begin(p) ==
  /\ Quiet /\ past.starts < env.starts
  /\ \E c \in env.commands :
       LET new == Changed(c, Loaded)
       IN  /\ procs' = [procs EXCEPT ![p] =
                [Idle EXCEPT !.op = c.op, !.name = c.name, !.to = c.to, !.of = c.of,
                             !.data = new, !.old = Loaded,
                             !.at = CASE Refused(c, Loaded) -> "refused"
                                      [] c.op = "clean" /\ new = Loaded -> "done"
                                      [] OTHER -> "backup"]]
           /\ past' = [past EXCEPT !.starts = @ + 1, !.should = past.names,
                                   !.will = IF Refused(c, past.names) THEN past.names
                                            ELSE Changed(c, past.names)]
  /\ UNCHANGED <<env, disk>>

\* How a command ends: its change is made, or nothing of it is.
Ends(at) ==
  [past EXCEPT !.names = IF at = "done" THEN past.will ELSE past.should]

Fails(p) == past.faults < env.faults

-----------------------------------------------------------------------------
(* Saving.                                                                  *)

\* A copy that fails leaves nothing.
Backup(p) ==
  /\ At(p, "backup")
  /\ \/ /\ disk' = [disk EXCEPT !.bak = IF disk.file.kind = "absent" THEN @ ELSE disk.file]
        /\ GoesTo(p, "write") /\ UNCHANGED past
     \/ /\ Fails(p) /\ disk.file.kind # "absent"
        /\ disk' = [disk EXCEPT !.bak = Absent]
        /\ GoesTo(p, "restore") /\ past' = [past EXCEPT !.faults = @ + 1]
  /\ UNCHANGED env

\* Mutant: the new contents are written over the file.
WriteInPlace(p) ==
  /\ At(p, "write")
  /\ disk' = [disk EXCEPT !.file = Torn, !.tmp = Whole(procs[p].data)]
  /\ GoesTo(p, "replace") /\ UNCHANGED <<env, past>>

\* The new contents are written beside the file.
Write(p) ==
  /\ At(p, "write")
  /\ \/ /\ disk' = [disk EXCEPT !.tmp = Whole(procs[p].data)]
        /\ GoesTo(p, "replace") /\ UNCHANGED past
     \/ /\ Fails(p) /\ disk' = [disk EXCEPT !.tmp = Torn]
        /\ GoesTo(p, "restore") /\ past' = [past EXCEPT !.faults = @ + 1]
  /\ UNCHANGED env

Replace(p) ==
  /\ At(p, "replace")
  /\ \/ /\ disk' = [disk EXCEPT !.file = disk.tmp, !.tmp = Absent]
        /\ GoesTo(p, "unback") /\ UNCHANGED past
     \/ /\ Fails(p) /\ GoesTo(p, "restore") /\ past' = [past EXCEPT !.faults = @ + 1]
        /\ UNCHANGED disk
  /\ UNCHANGED env

\* A copy that cannot be removed is put back over the new contents: the
\* command failed.
Unback(p) ==
  /\ At(p, "unback")
  /\ \/ /\ disk' = [disk EXCEPT !.bak = Absent]
        /\ LET at == IF procs[p].again THEN "failed" ELSE "done"
           IN  GoesTo(p, at) /\ past' = Ends(at)
     \/ /\ Fails(p) /\ disk.bak.kind # "absent" /\ GoesTo(p, "restore")
        /\ past' = [past EXCEPT !.faults = @ + 1] /\ UNCHANGED disk
  /\ UNCHANGED env

\* The copy is written over the file itself.
Restore(p) ==
  /\ At(p, "restore")
  /\ IF disk.bak.kind = "absent" THEN GoesTo(p, "discard") /\ UNCHANGED disk
     ELSE /\ disk' = [disk EXCEPT !.file = Torn]
          /\ procs' = [procs EXCEPT ![p].at = "refill", ![p].read = disk.bak]
  /\ UNCHANGED <<env, past>>

Refill(p) ==
  /\ At(p, "refill")
  /\ disk' = [disk EXCEPT !.file = procs[p].read]
  /\ GoesTo(p, "discard") /\ UNCHANGED <<env, past>>

\* Mutant: the names a failed renaming writes again are the new ones.
DiscardKeepingNew(p) ==
  /\ At(p, "discard")
  /\ disk' = [disk EXCEPT !.tmp = Absent]
  /\ IF procs[p].op = "rename" /\ ~procs[p].again
     THEN /\ procs' = [procs EXCEPT ![p].at = "backup", ![p].again = TRUE]
          /\ UNCHANGED past
     ELSE GoesTo(p, "failed") /\ past' = Ends("failed")
  /\ UNCHANGED env

\* What was written beside the file is removed.  A renaming that failed writes
\* the names as they were once more.
Discard(p) ==
  /\ At(p, "discard")
  /\ disk' = [disk EXCEPT !.tmp = Absent]
  /\ IF procs[p].op = "rename" /\ ~procs[p].again
     THEN /\ procs' = [procs EXCEPT ![p].at = "backup", ![p].again = TRUE,
                                    ![p].data = procs[p].old]
          /\ UNCHANGED past
     ELSE GoesTo(p, "failed") /\ past' = Ends("failed")
  /\ UNCHANGED env

\* A command that is ended in the middle has been carried out when the new
\* contents are in place.
Kill(p) ==
  /\ procs[p].at \notin Ended /\ past.kills < env.kills
  /\ \E torn \in BOOLEAN :
       disk' = CASE torn /\ At(p, "backup") -> [disk EXCEPT !.bak = Torn]
                 [] torn /\ At(p, "write") -> [disk EXCEPT !.tmp = Torn]
                 [] OTHER -> disk
  /\ past' = [Ends(IF At(p, "unback") THEN "done" ELSE "failed") EXCEPT !.kills = @ + 1]
  /\ GoesTo(p, "killed") /\ UNCHANGED env

InitIn(e) ==
  /\ env = e
  /\ disk = [file |-> e.file, bak |-> Absent, tmp |-> Absent, time |-> e.time]
  /\ procs = [p \in Procs |-> Idle]
  /\ past = [starts |-> 0, faults |-> 0, kills |-> 0, writes |-> 0,
             names |-> e.file.names, should |-> e.file.names, will |-> e.file.names]

Work(p) ==
  \/ Begin(p) \/ Backup(p) \/ Write(p) \/ Replace(p) \/ Unback(p)
  \/ Restore(p) \/ Refill(p) \/ Discard(p) \/ Kill(p)

Next ==
  \/ \E p \in Procs : Work(p)
  \/ \E d \in DOMAIN Dirs, f \in Files : WriteSession(d, f) \/ DeleteSession(d, f)

-----------------------------------------------------------------------------
(* Properties.                                                              *)

Contents == [kind : {"absent", "torn", "whole"}, names : [Names -> [of : Paths \cup {Nowhere},
             made : Nat, titled : BOOLEAN]]]

TypeOK ==
  /\ disk \in [file : Contents, bak : Contents, tmp : Contents,
               time : [DOMAIN Dirs -> [Files -> Nat]]]
  /\ \A p \in Procs : procs[p].read \in Contents /\ procs[p].again \in BOOLEAN

(* What a reader finds at any moment of a command that does not fail are   *)
(* the names as they were or as the command leaves them, and never a file  *)
(* that makes no sense: it would be read as no names at all, and the next  *)
(* command would save that.                                                *)
ReadersFindNames ==
  past.faults = 0 =>
    /\ disk.file.kind # "torn"
    /\ IF Quiet THEN Loaded = past.names ELSE Loaded \in {past.should, past.will}

(* After a command that failed, or that was ended in the middle, the names *)
(* are those of before it, and after one that succeeded those it reported. *)
NamesAsReported == Quiet => Loaded = past.names /\ (Loaded # Empty => disk.file.kind = "whole")

(* The pages of a list of sessions hold each of its sessions once, and the *)
(* session found by the name of a file is the one the list shows.          *)
ListedIsFound ==
  \A day \in env.days, word \in env.words :
    LET all == Listing(day, word)
    IN  /\ \A i \in DOMAIN all : ById([begins |-> {}, is |-> all[i][2]]) = all[i]
        /\ \A size \in 0..2 :
             LET first == Page(day, word, -1, size)
                 rest == Page(day, word, first.next, Len(all))
             IN  /\ first.sessions \o (IF first.hasMore THEN rest.sessions ELSE <<>>) = all
                 /\ ~rest.hasMore
                 /\ first.hasMore <=> rest.sessions # <<>>
=============================================================================
