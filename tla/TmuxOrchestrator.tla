-------------------------- MODULE TmuxOrchestrator --------------------------
(***************************************************************************)
(* Starting workers in worktrees and panes of one tmux session             *)
(* (scripts/lib/tmux-worktree-orchestrator.js).  A run writes the workers' *)
(* task, handoff and status files, adds a worktree on a new branch for     *)
(* each, lays the seed files over it, creates the session and a pane per   *)
(* worker; whatever fails, what was created is taken back.  Asked to       *)
(* replace, a run first removes what an earlier one left.  Runs of the     *)
(* same session name may overlap.                                          *)
(*                                                                         *)
(* Git and tmux are external: worktree add makes the branch before it      *)
(* looks at the path, and neither makes what exists already.               *)
(***************************************************************************)
EXTENDS Integers, FiniteSets

CONSTANTS Procs,    \* runs of the orchestrator, numbers from 1
          Workers   \* 1..n, in the plan's order

VARIABLES
  env,     \* which runs replace, what stands in the way, faults
  disk,    \* session, worktrees, branches and notes, each with who made it
  procs,   \* what each run is doing
  past     \* whether runs overlapped, what failed runs left

vars == <<env, disk, procs, past>>

Nobody == -1
Earlier == 0           \* a session of yesterday
Makers == Procs \cup {Nobody, Earlier}

Idle == [at |-> "idle", i |-> 1, made |-> {}, session |-> FALSE, ownDir |-> FALSE]
At(p, at) == procs[p].at = at
GoesTo(p, at) == procs' = [procs EXCEPT ![p].at = at, ![p].i = 1]
Resting == {"idle", "done", "failed"}
Last == Cardinality(Workers)
There(x) == x # Nobody
Fails(p) == GoesTo(p, IF procs[p].session THEN "kill" ELSE "undo")

\* Mutant: the loop takes one worker too many.
StepsOver(p, at) ==
  IF procs[p].i > Last THEN GoesTo(p, at) ELSE procs' = [procs EXCEPT ![p].i = @ + 1]

\* The loop over the workers, then the next stage.
Steps(p, at) ==
  IF procs[p].i = Last THEN GoesTo(p, at) ELSE procs' = [procs EXCEPT ![p].i = @ + 1]

-----------------------------------------------------------------------------
StartRun(p) ==
  /\ At(p, "idle")
  /\ past' = [past EXCEPT !.crossed = @ \/ \E q \in Procs \ {p} : procs[q].at \notin Resting,
                          !.before[p] = disk]
  /\ \/ /\ p \in env.replace
        /\ disk' = [disk EXCEPT !.session = Nobody]
        /\ procs' = [procs EXCEPT ![p].at = "clean", ![p].ownDir = ~disk.dir]
     \/ /\ p \notin env.replace /\ There(disk.session)
        /\ procs' = [procs EXCEPT ![p].at = "failed"] /\ UNCHANGED disk
     \/ /\ p \notin env.replace /\ ~There(disk.session)
        /\ procs' = [procs EXCEPT ![p].at = "notes", ![p].ownDir = ~disk.dir]
        /\ UNCHANGED disk
  /\ UNCHANGED env

\* cleanupExisting takes worktree, directory and branch of each worker.
Clean(p) ==
  /\ At(p, "clean")
  /\ LET w == procs[p].i
     IN  /\ disk' = [disk EXCEPT !.tree[w] = Nobody, !.branch[w] = Nobody]
         /\ env' = [env EXCEPT !.squatted = @ \ {w}]
  /\ Steps(p, "notes")
  /\ past' = IF procs[p].i = Last THEN [past EXCEPT !.before[p] = disk'] ELSE past

\* Task, handoff and status of each worker, as templates to be filled in.
FreshNotes == [w \in Workers |-> "pending"]
Materialize(p) ==
  /\ At(p, "notes")
  /\ disk' = [disk EXCEPT !.dir = TRUE, !.notes = FreshNotes]
  /\ GoesTo(p, "add") /\ UNCHANGED <<env, past>>

\* Mutant: a worktree is counted as made before git is asked for it.
AddTreeCounted(p) ==
  /\ At(p, "add")
  /\ LET w == procs[p].i
         ok == ~There(disk.branch[w]) /\ w \notin env.squatted /\ ~There(disk.tree[w])
     IN  /\ procs' = [procs EXCEPT ![p].made = @ \cup {w}, ![p].at = IF ok THEN "overlay" ELSE "undo"]
         /\ disk' = IF ok THEN [disk EXCEPT !.branch[w] = p, !.tree[w] = p] ELSE disk
  /\ UNCHANGED <<env, past>>

AddTree(p) ==
  /\ At(p, "add")
  /\ LET w == procs[p].i
     IN  IF There(disk.branch[w])
         THEN Fails(p) /\ UNCHANGED disk
         ELSE IF w \in env.squatted \/ There(disk.tree[w])
         THEN Fails(p) /\ disk' = [disk EXCEPT !.branch[w] = p]
         ELSE /\ disk' = [disk EXCEPT !.branch[w] = p, !.tree[w] = p]
              /\ procs' = [procs EXCEPT ![p].made = @ \cup {w}, ![p].at = "overlay"]
  /\ UNCHANGED <<env, past>>

Overlay(p) ==
  /\ At(p, "overlay")
  /\ \/ procs[p].i \notin env.seedless
        /\ IF procs[p].i = Last THEN GoesTo(p, "session")
           ELSE procs' = [procs EXCEPT ![p].i = @ + 1, ![p].at = "add"]
     \/ procs[p].i \in env.seedless /\ Fails(p)
  /\ UNCHANGED <<env, disk, past>>

NewSession(p) ==
  /\ At(p, "session")
  /\ IF There(disk.session) THEN Fails(p) /\ UNCHANGED disk
     ELSE /\ disk' = [disk EXCEPT !.session = p]
          /\ procs' = [procs EXCEPT ![p].at = "panes", ![p].i = 1, ![p].session = TRUE]
  /\ UNCHANGED <<env, past>>

\* A pane cannot be split off, or gets no command: its session is gone or full.
OpenPane(p) ==
  /\ At(p, "panes")
  /\ \/ There(disk.session) /\ Steps(p, "done") /\ UNCHANGED env
     \/ /\ ~There(disk.session) \/ env.faults > 0
        /\ env' = [env EXCEPT !.faults = IF There(disk.session) THEN @ - 1 ELSE @]
        /\ Fails(p)
  /\ UNCHANGED <<disk, past>>

\* A worker whose pane is open answers in its handoff file.
Answer(w) ==
  /\ There(disk.session) /\ disk.tree[w] = disk.session /\ disk.notes[w] = "pending"
  /\ \E p \in Procs : p = disk.session /\ (At(p, "done") \/ (At(p, "panes") /\ procs[p].i > w))
  /\ disk' = [disk EXCEPT !.notes[w] = "answered"] /\ UNCHANGED <<env, procs, past>>

-----------------------------------------------------------------------------
\* rollbackCreatedResources: the session, then the worktrees made, by path
\* and by branch name, then the notes if the directory was new.

KillSession(p) ==
  /\ At(p, "kill") /\ disk' = [disk EXCEPT !.session = Nobody]
  /\ GoesTo(p, "undo") /\ UNCHANGED <<env, past>>

\* Mutant: the branches of the worktrees stay.
UndoTrees(p) ==
  /\ At(p, "undo") /\ procs[p].made # {}
  /\ LET w == CHOOSE x \in procs[p].made : \A y \in procs[p].made : y <= x
     IN  /\ disk' = [disk EXCEPT !.tree[w] = Nobody]
         /\ procs' = [procs EXCEPT ![p].made = @ \ {w}]
  /\ UNCHANGED <<env, past>>

Undo(p) ==
  /\ At(p, "undo") /\ procs[p].made # {}
  /\ LET w == CHOOSE x \in procs[p].made : \A y \in procs[p].made : y <= x
     IN  /\ disk' = [disk EXCEPT !.tree[w] = Nobody, !.branch[w] = Nobody]
         /\ procs' = [procs EXCEPT ![p].made = @ \ {w}]
  /\ UNCHANGED <<env, past>>

UndoNotes(p) ==
  /\ At(p, "undo") /\ procs[p].made = {}
  /\ disk' = IF procs[p].ownDir
             THEN [disk EXCEPT !.dir = FALSE, !.notes = [w \in Workers |-> "none"]] ELSE disk
  /\ procs' = [procs EXCEPT ![p].at = "failed"]
  /\ past' = [past EXCEPT !.debris = @ \cup
                {w \in Workers : \/ disk'.tree[w] # past.before[p].tree[w]
                                 \/ disk'.branch[w] # past.before[p].branch[w]
                                 \/ disk'.session # past.before[p].session}]
  /\ UNCHANGED env

-----------------------------------------------------------------------------
Was(old, w) == IF w \in old THEN Earlier ELSE Nobody
InitIn(e) ==
  /\ env = [replace |-> e.replace, squatted |-> e.squatted, seedless |-> e.seedless,
            faults |-> e.faults]
  /\ disk = [session |-> IF e.session THEN Earlier ELSE Nobody,
             tree |-> [w \in Workers |-> Was(e.old, w)],
             branch |-> [w \in Workers |-> Was(e.old, w)],
             notes |-> [w \in Workers |-> IF w \in e.old THEN "answered" ELSE "none"],
             dir |-> e.old # {}]
  /\ procs = [p \in Procs |-> Idle]
  /\ past = [crossed |-> FALSE, debris |-> {}, squatted |-> e.squatted,
             before |-> [p \in Procs |-> disk]]

Next == \/ \E p \in Procs : \/ StartRun(p) \/ Clean(p) \/ Materialize(p) \/ AddTree(p)
                            \/ Overlay(p) \/ NewSession(p) \/ OpenPane(p)
                            \/ KillSession(p) \/ Undo(p) \/ UndoNotes(p)
        \/ \E w \in Workers : Answer(w)

-----------------------------------------------------------------------------
Disks == [session : Makers, tree : [Workers -> Makers], branch : [Workers -> Makers],
          notes : [Workers -> {"none", "pending", "answered"}], dir : BOOLEAN]
TypeOK ==
  /\ env \in [replace : SUBSET Procs, squatted : SUBSET Workers,
              seedless : SUBSET Workers, faults : 0..2]
  /\ disk \in Disks
  /\ procs \in [Procs -> [at : Resting \cup {"clean", "notes", "add", "overlay", "session",
                                             "panes", "kill", "undo"},
                          i : Workers, made : SUBSET Workers, session : BOOLEAN,
                          ownDir : BOOLEAN]]
  /\ past \in [crossed : BOOLEAN, debris : SUBSET Workers, squatted : SUBSET Workers,
               before : [Procs -> Disks]]

(* A run that fails alone leaves session, worktrees and branches as it      *)
(* found them, but for a branch whose worktree had no place to go.         *)
FailureUndone == ~past.crossed => past.debris \subseteq past.squatted

(* Unless runs that replace are about, a worktree or a branch goes only     *)
(* when the run that made it undoes its own failure: the undoing of a run   *)
(* that lost a race leaves the other's alone.  Not so session and notes.    *)
OthersKeptStep ==
  env.replace = {} =>
    \A w \in Workers :
      /\ (disk'.tree[w] # disk.tree[w] /\ There(disk.tree[w])) =>
            (disk.tree[w] \in Procs /\ At(disk.tree[w], "undo"))
      /\ (disk'.branch[w] # disk.branch[w] /\ There(disk.branch[w])) =>
            (disk.branch[w] \in Procs /\ At(disk.branch[w], "undo"))
=============================================================================
