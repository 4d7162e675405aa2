---------------------------- MODULE Workstreams ----------------------------
(***************************************************************************)
(* Workstreams of a planning directory (gsd-core/bin/lib/workstream.cjs,   *)
(* active-workstream-store.cjs).  Creating the first one moves the flat    *)
(* layout into a workstream, file by file; completing one moves its files  *)
(* into an archive.  What fails is moved back, file by file again; a file  *)
(* that does not go back is passed over and removed with the directory it  *)
(* is in.  Each session has a pointer to its active workstream, or all     *)
(* share one; a pointer that names no directory is cleared by whoever      *)
(* reads it.  Nothing locks.                                               *)
(***************************************************************************)
EXTENDS Integers, FiniteSets, Sequences

CONSTANTS Procs,   \* commands; the STATE.md a creation writes has its name
          Files,   \* the movable files of the flat layout, "state" among them
          Streams  \* workstream names

VARIABLES
  env,     \* commands, sessions, files that cannot be moved (stuck) or not be moved
           \* back (jammed), kills
  disk,    \* where each file is, the directories, the pointers
  procs,   \* what each command is doing
  past     \* whether commands overlapped or were killed, files that did not go back

vars == <<env, disk, procs, past>>

None == "none"
In(kind, w, n) == [in |-> kind, of |-> w, n |-> n]
Flat == In("flat", None, 0)
Gone == In("gone", None, 0)
Unborn == In("unborn", None, 0)
Stream(w) == In("stream", w, 0)
Archive(w, n) == In("archive", w, n)

Idle == [at |-> "idle", todo |-> {}, moved |-> {}, to |-> None, n |-> 0, was |-> FALSE]
Resting == {"idle", "done", "failed", "killed"}
At(p, at) == procs[p].at = at
GoesTo(p, at) == procs' = [procs EXCEPT ![p].at = at]
Op(p) == env.work[p].op
Name(p) == env.work[p].stream
Slot(p) == env.slot[p]
All == Files \cup Procs
Held(place) == {f \in All : disk.at[f] = place}
IsState(f) == f \in Procs \/ f = "state"
Moved(at, fs, place) == [f \in All |-> IF f \in fs THEN place ELSE at[f]]

Begins == past' = [past EXCEPT !.crossed = @ \/ \E q \in Procs : procs[q].at \notin Resting]

-----------------------------------------------------------------------------
(* create, with the migration of a flat layout.                             *)

Exists(w) == w \in disk.dirs
StartCreate(p) ==
  /\ At(p, "idle") /\ Op(p) = "create" /\ Begins
  /\ procs' = [procs EXCEPT ![p].at =
       IF Exists(Name(p)) /\ \E f \in Held(Stream(Name(p))) : IsState(f) THEN "done"
       ELSE IF ~disk.root /\ Held(Flat) # {} THEN "migrate" ELSE "create"]
  /\ UNCHANGED <<env, disk>>

\* The milestone's slug names the workstream the flat files go to.
StartMigration(p) ==
  /\ At(p, "migrate")
  /\ IF disk.root THEN GoesTo(p, "failed") /\ UNCHANGED disk
     ELSE /\ disk' = [disk EXCEPT !.root = TRUE, !.dirs = @ \cup {env.milestone}]
          /\ procs' = [procs EXCEPT ![p].at = "move", ![p].todo = Files]
  /\ UNCHANGED <<env, past>>

\* Whether the file is there is looked at before the rename.
Look(p) ==
  /\ At(p, "move") /\ procs[p].to = None
  /\ IF procs[p].todo = {} THEN GoesTo(p, "create")
     ELSE \E f \in procs[p].todo :
            procs' = [procs EXCEPT ![p].todo = @ \ {f},
                                   ![p].to = IF disk.at[f] = Flat THEN f ELSE None]
  /\ UNCHANGED <<env, disk, past>>

Renames(p, f, from, to) == /\ disk.at[f] = from /\ f \notin env.stuck
                           /\ disk' = [disk EXCEPT !.at[f] = to]

\* Mutant: a file that cannot be moved is passed over.
MoveOn(p) ==
  /\ At(p, "move") /\ procs[p].to # None
  /\ LET f == procs[p].to
     IN  /\ procs' = [procs EXCEPT ![p].to = None]
         /\ \/ Renames(p, f, Flat, Stream(env.milestone))
            \/ (disk.at[f] # Flat \/ f \in env.stuck) /\ UNCHANGED disk
  /\ UNCHANGED <<env, past>>

Move(p) ==
  /\ At(p, "move") /\ procs[p].to # None
  /\ LET f == procs[p].to
     IN  \/ /\ Renames(p, f, Flat, Stream(env.milestone))
            /\ procs' = [procs EXCEPT ![p].moved = @ \cup {f}, ![p].to = None]
         \/ /\ disk.at[f] # Flat \/ f \in env.stuck
            /\ GoesTo(p, "moveback") /\ UNCHANGED disk
  /\ UNCHANGED <<env, past>>

\* One file of a failed command goes back, or the error is ignored.
Returns(p, from, to, there) ==
  \E f \in procs[p].moved :
    /\ procs' = [procs EXCEPT ![p].moved = @ \ {f}]
    /\ IF disk.at[f] = from /\ there /\ f \notin env.jammed
         THEN disk' = [disk EXCEPT !.at[f] = to] /\ UNCHANGED past
         ELSE past' = [past EXCEPT !.unreturned = @ \cup {f}] /\ UNCHANGED disk

\* Mutant: the directory is removed before anything has gone back.
MoveBackNothing(p) ==
  /\ At(p, "moveback")
  /\ LET here == Held(Stream(env.milestone))
     IN  disk' = [disk EXCEPT !.at = Moved(@, here, Gone), !.dirs = @ \ {env.milestone},
                              !.root = disk.dirs \ {env.milestone} # {}]
  /\ GoesTo(p, "failed") /\ UNCHANGED <<env, past>>

\* What this command moved goes back; then the directory is removed with what is
\* in it, or with a part of that if the removal fails too.
MoveBack(p) ==
  /\ At(p, "moveback")
  /\ \/ Returns(p, Stream(env.milestone), Flat, TRUE)
     \/ /\ procs[p].moved = {}
        /\ \E lost \in SUBSET Held(Stream(env.milestone)) :
             LET dirs == IF lost = Held(Stream(env.milestone))
                           THEN disk.dirs \ {env.milestone} ELSE disk.dirs
             IN  disk' = [disk EXCEPT !.at = Moved(@, lost, Gone), !.dirs = dirs,
                                      !.root = dirs # {}]
        /\ GoesTo(p, "failed") /\ UNCHANGED past
  /\ UNCHANGED env

FinishCreate(p) ==
  /\ At(p, "create")
  /\ LET w == Name(p)
     IN  disk' = [disk EXCEPT !.root = TRUE, !.dirs = @ \cup {w},
                              !.pointer[Slot(p)] = w,
                              !.at[p] = IF \E f \in Held(Stream(w)) : IsState(f)
                                        THEN @ ELSE Stream(w)]
  /\ GoesTo(p, "done") /\ UNCHANGED <<env, past>>

-----------------------------------------------------------------------------
(* complete: the archive's name is the first free one of the day.           *)

StartComplete(p) ==
  /\ At(p, "idle") /\ Op(p) = "complete" /\ Begins
  /\ LET w == Name(p)
         n == CHOOSE k \in 0..Cardinality(Procs) : /\ <<w, k>> \notin disk.archives
                                     /\ \A j \in 0..(k - 1) : <<w, j>> \in disk.archives
     IN  IF ~Exists(w) THEN GoesTo(p, "failed") /\ UNCHANGED disk
         ELSE /\ disk' = [disk EXCEPT !.pointer[Slot(p)] = IF @ = w THEN None ELSE @]
              /\ procs' = [procs EXCEPT ![p].at = "archive", ![p].n = n,
                                        ![p].was = disk.pointer[Slot(p)] = w]
  /\ UNCHANGED env

\* The directory is read once.
OpenArchive(p) ==
  /\ At(p, "archive")
  /\ disk' = [disk EXCEPT !.archives = @ \cup {<<Name(p), procs[p].n>>}]
  /\ procs' = [procs EXCEPT ![p].at = "store", ![p].todo = Held(Stream(Name(p)))]
  /\ UNCHANGED <<env, past>>

Store(p) ==
  /\ At(p, "store")
  /\ \/ /\ procs[p].todo = {} /\ Exists(Name(p))
        /\ LET empty == Held(Stream(Name(p))) = {}
           IN  disk' = [disk EXCEPT !.dirs = IF empty THEN @ \ {Name(p)} ELSE @,
                                    !.root = disk.dirs # {Name(p)} \/ ~empty]
        /\ GoesTo(p, "done")
     \/ procs[p].todo = {} /\ ~Exists(Name(p)) /\ GoesTo(p, "done") /\ UNCHANGED disk
     \/ \E f \in procs[p].todo :
          \/ /\ Renames(p, f, Stream(Name(p)), Archive(Name(p), procs[p].n))
             /\ procs' = [procs EXCEPT ![p].todo = @ \ {f}, ![p].moved = @ \cup {f}]
          \/ /\ disk.at[f] # Stream(Name(p)) \/ f \in env.stuck
             /\ GoesTo(p, "restore") /\ UNCHANGED disk
  /\ UNCHANGED <<env, past>>

Restore(p) ==
  /\ At(p, "restore")
  /\ LET a == Archive(Name(p), procs[p].n)
     IN  \/ Returns(p, a, Stream(Name(p)), Exists(Name(p)))
         \/ /\ procs[p].moved = {}
            /\ \E lost \in SUBSET Held(a) :
                 disk' = [disk EXCEPT !.at = Moved(@, lost, Gone),
                    !.archives = IF lost = Held(a) THEN @ \ {<<Name(p), procs[p].n>>} ELSE @,
                    !.dirs = IF procs[p].was THEN @ \cup {Name(p)} ELSE @,
                    !.root = @ \/ procs[p].was,
                    !.pointer[Slot(p)] = IF procs[p].was THEN Name(p) ELSE @]
            /\ GoesTo(p, "failed") /\ UNCHANGED past
  /\ UNCHANGED env

-----------------------------------------------------------------------------
(* The pointers.                                                            *)

Set(p) ==
  /\ At(p, "idle") /\ Op(p) = "set" /\ Begins
  /\ GoesTo(p, IF Exists(Name(p)) THEN "point" ELSE "failed") /\ UNCHANGED <<env, disk>>
\* The directory is made again if it has gone since.
Point(p) ==
  /\ At(p, "point")
  /\ disk' = [disk EXCEPT !.pointer[Slot(p)] = Name(p), !.dirs = @ \cup {Name(p)},
                          !.root = TRUE]
  /\ GoesTo(p, "done") /\ UNCHANGED <<env, past>>

\* Every command of a session reads its pointer first.
Read(p) ==
  /\ At(p, "idle") /\ Op(p) = "read" /\ Begins
  /\ procs' = [procs EXCEPT ![p].at = "judge", ![p].to = disk.pointer[Slot(p)]]
  /\ UNCHANGED <<env, disk>>
Judge(p) ==
  /\ At(p, "judge")
  /\ IF procs[p].to # None /\ Exists(procs[p].to) THEN UNCHANGED disk
     ELSE disk' = [disk EXCEPT !.pointer[Slot(p)] = None]
  /\ procs' = [procs EXCEPT ![p].at = "done",
                 ![p].to = IF @ # None /\ Exists(@) THEN @ ELSE None]
  /\ UNCHANGED <<env, past>>
Clear(p) ==
  /\ At(p, "idle") /\ Op(p) = "clear" /\ Begins
  /\ disk' = [disk EXCEPT !.pointer[Slot(p)] = None]
  /\ GoesTo(p, "done") /\ UNCHANGED env

Kill(p) ==
  /\ procs[p].at \notin Resting /\ env.kills > 0
  /\ env' = [env EXCEPT !.kills = @ - 1] /\ GoesTo(p, "killed")
  /\ past' = [past EXCEPT !.killed = TRUE] /\ UNCHANGED disk

-----------------------------------------------------------------------------
InitIn(e) ==
  /\ env = [work |-> e.work, slot |-> e.slot, stuck |-> e.stuck, jammed |-> e.jammed,
            kills |-> e.kills, milestone |-> e.milestone]
  /\ disk = [at |-> [f \in All |-> IF f \in e.flat THEN Flat
                                   ELSE IF f \in Files THEN Stream("a") ELSE Unborn],
             dirs |-> IF e.flat = Files THEN {} ELSE {"a"}, root |-> e.flat # Files,
             archives |-> {}, pointer |-> [s \in {e.slot[p] : p \in Procs} |-> None]]
  /\ procs = [p \in Procs |-> Idle]
  /\ past = [crossed |-> FALSE, killed |-> FALSE, unreturned |-> {}]

Next == \E p \in Procs :
  \/ StartCreate(p) \/ StartMigration(p) \/ Look(p) \/ Move(p) \/ MoveBack(p)
  \/ FinishCreate(p) \/ StartComplete(p) \/ OpenArchive(p) \/ Store(p) \/ Restore(p)
  \/ Set(p) \/ Point(p) \/ Read(p) \/ Judge(p) \/ Clear(p) \/ Kill(p)

-----------------------------------------------------------------------------
TypeOK ==
  /\ disk.at \in [All -> {Flat, Gone, Unborn} \cup {Stream(w) : w \in Streams}
                           \cup {Archive(w, n) : w \in Streams, n \in 0..3}]
  /\ disk.dirs \subseteq Streams /\ disk.root \in BOOLEAN
  /\ disk.archives \subseteq Streams \X (0..3)
  /\ \A s \in DOMAIN disk.pointer : disk.pointer[s] \in Streams \cup {None}
  /\ past \in [crossed : BOOLEAN, killed : BOOLEAN, unreturned : SUBSET All]

(* Commands that do not overlap lose no file, failing half way or killed,  *)
(* but one that could not be moved back: that error is ignored, and the    *)
(* removal of the directory may take the file along.                       *)
FilesKept == ~past.crossed => \A f \in All : disk.at[f] = Gone => f \in past.unreturned

(* A file is in a workstream or an archive only if the directory is there, *)
(* as long as commands do not overlap.                                     *)
FilesHaveHomes ==
  ~past.crossed => \A f \in All :
    /\ disk.at[f].in = "stream" => disk.at[f].of \in disk.dirs
    /\ disk.at[f].in = "archive" => <<disk.at[f].of, disk.at[f].n>> \in disk.archives

(* Of the files that could be moved back the flat layout is moved whole or *)
(* not at all, unless a kill comes in between or commands overlap.         *)
MovedWhole ==
  (~past.crossed /\ ~past.killed /\ \A p \in Procs : procs[p].at \in Resting) =>
    \A f, g \in Files \ past.unreturned : disk.at[f] = Flat <=> disk.at[g] = Flat
=============================================================================
