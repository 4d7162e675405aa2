--------------------------- MODULE WorktreeSafety ---------------------------
(***************************************************************************)
(* The worktrees of a wave of executor agents (gsd-core/bin/lib/           *)
(* worktree-safety.cjs).  Each agent works in a linked worktree on a       *)
(* branch of its own; when all have returned, cleanup-wave walks the       *)
(* manifest: checks, summaries copied to the main tree, merge, removal,    *)
(* branch deletion, one git command after the other, until an entry is     *)
(* blocked.  reap-orphans, which every new session runs, removes the       *)
(* worktrees of dead sessions.  Sessions die between any two commands.     *)
(*                                                                         *)
(* Git is external: a merge refuses to overwrite an untracked file of the  *)
(* main tree, and a conflict leaves the merge open.                        *)
(***************************************************************************)
EXTENDS Integers, FiniteSets, Sequences

CONSTANTS Procs,   \* sessions: the first dispatched the wave
          Trees,   \* worktrees, one branch, agent and manifest entry each
          Wave     \* the manifest: a sequence of worktrees

VARIABLES
  env,     \* what git will find: clashes, drifted bases, the remote, locks, refusals
  disk,    \* the worktrees, branches and the main tree
  procs,   \* what each session's commands are doing
  past     \* which worktrees were reaped, which entries blocked and why

vars == <<env, disk, procs, past>>

Wrote == {"no", "loose", "committed"}     \* a summary: absent, uncommitted, committed
Blocks == {"branch_mismatch", "base_mismatch", "branch_contains_deletions",
           "summary_rescue_failed", "worktree_dirty", "merge_failed", "worktree_remove_failed"}
Refusals == {"copy", "remove", "branch"}

Fresh == [dir |-> TRUE, branch |-> TRUE, commits |-> FALSE, deletes |-> FALSE,
          dirty |-> FALSE, summary |-> "no", agent |-> "running", aged |-> FALSE]
Idle == [at |-> "idle", i |-> 1, tip |-> {}, todo |-> {}]

Tree(t) == disk.tree[t]
Now(p) == Wave[procs[p].i]
At(p, at) == procs[p].at = at
Alive(p) == procs[p].at \notin {"dead", "unborn"}
Owner == CHOOSE p \in Procs : \A q \in Procs : p <= q
GoesTo(p, at) == procs' = [procs EXCEPT ![p].at = at]

-----------------------------------------------------------------------------
(* The agents: work is uncommitted, then committed; the summary likewise.   *)

Acts(t, to) ==
  /\ Tree(t).agent = "running" /\ Tree(t).dir
  /\ disk' = [disk EXCEPT !.tree[t] = to]
  /\ UNCHANGED <<env, procs, past>>

Edit(t) == ~Tree(t).dirty /\ ~Tree(t).commits /\ Acts(t, [Tree(t) EXCEPT !.dirty = TRUE])
Commit(t) ==
  /\ Tree(t).dirty
  /\ Acts(t, [Tree(t) EXCEPT !.dirty = FALSE, !.commits = TRUE,
                             !.deletes = t \in env.deleters])
Summarise(t) == /\ Tree(t).summary = "no"
                /\ Acts(t, [Tree(t) EXCEPT !.summary = "loose"])
CommitSummary(t) ==
  /\ Tree(t).summary = "loose"
  /\ Acts(t, [Tree(t) EXCEPT !.summary = "committed", !.commits = TRUE])
Return(t) == Acts(t, [Tree(t) EXCEPT !.agent = "returned"])

\* A session ends: its agents with it, a command in the middle of its work.
Dies(p) ==
  /\ Alive(p) /\ env.kills > 0
  /\ env' = [env EXCEPT !.kills = @ - 1]
  /\ procs' = [procs EXCEPT ![p] = [Idle EXCEPT !.at = "dead"]]
  /\ disk' = IF p # Owner THEN disk
             ELSE [disk EXCEPT !.tree =
                    [t \in Trees |-> [Tree(t) EXCEPT !.agent =
                                        IF @ = "running" THEN "dead" ELSE @]]]
  /\ UNCHANGED past

Begins(p) == /\ At(p, "unborn") /\ GoesTo(p, "idle") /\ UNCHANGED <<env, disk, past>>

\* Five minutes pass over a lock.
Ages(t) ==
  /\ ~Tree(t).aged /\ ~Alive(Owner)
  /\ disk' = [disk EXCEPT !.tree[t].aged = TRUE] /\ UNCHANGED <<env, procs, past>>

-----------------------------------------------------------------------------
(* cleanup-wave.                                                            *)

Merged(t) == t \in disk.merged
\* merge-base HEAD branch: the tip once the branch is merged.
BaseExpected(t) == t \notin env.drifted /\ (Merged(t) => ~Tree(t).commits)

Blocked(p, why) ==
  /\ procs' = [procs EXCEPT ![p] = Idle]
  /\ past' = [past EXCEPT !.blocked = @ \cup 
                                  {[tree |-> Now(p), why |-> why]}]

\* The manifest is the owner's; a later session takes it over.
InCharge(p) == At(p, "idle") /\ (p = Owner \/ ~Alive(Owner))

StartCleanup(p) ==
  /\ InCharge(p) /\ \A t \in Trees : Tree(t).agent # "running"
  /\ env.rounds > 0 /\ env' = [env EXCEPT !.rounds = @ - 1]
  /\ procs' = [procs EXCEPT ![p] = [Idle EXCEPT !.at = "check"]]
  /\ UNCHANGED <<disk, past>>

\* The three checks that only read.
Verdict(t) ==
  CASE ~Tree(t).dir -> "branch_mismatch"
    [] Tree(t).dir /\ ~BaseExpected(t) -> "base_mismatch"
    [] Tree(t).dir /\ BaseExpected(t) /\ Tree(t).deletes -> "branch_contains_deletions"
    [] OTHER -> "fine"
Check(p) ==
  /\ At(p, "check")
  /\ IF Verdict(Now(p)) = "fine" THEN GoesTo(p, "rescue") /\ UNCHANGED past
     ELSE Blocked(p, Verdict(Now(p)))
  /\ UNCHANGED <<env, disk>>

\* A step that git or the file system may refuse.
MayRefuse(t, what) == <<t, what>> \in env.refusals

\* Every summary of the worktree is copied, a committed one too.
ToRescue(t) ==
  /\ Tree(t).dir
  /\ Tree(t).summary = "loose" \/ (Tree(t).summary = "committed" /\ ~Merged(t))

\* Mutant: a summary counts as rescued whether or not it could be copied.
RescueAnyway(p) ==
  /\ At(p, "rescue")
  /\ disk' = IF ToRescue(Now(p)) /\ ~MayRefuse(Now(p), "copy")
             THEN [disk EXCEPT !.copies = @ \cup {Now(p)}] ELSE disk
  /\ GoesTo(p, "status") /\ UNCHANGED <<env, past>>

Rescue(p) ==
  /\ At(p, "rescue")
  /\ \/ /\ disk' = IF ToRescue(Now(p)) THEN [disk EXCEPT !.copies = @ \cup {Now(p)}] ELSE disk
        /\ GoesTo(p, "status") /\ UNCHANGED past
     \/ /\ ToRescue(Now(p)) /\ Now(p) \notin disk.copies /\ MayRefuse(Now(p), "copy")
        /\ Blocked(p, "summary_rescue_failed") /\ UNCHANGED disk
  /\ UNCHANGED env

CheckDirty(p) ==
  /\ At(p, "status")
  /\ IF Tree(Now(p)).dir /\ ~Tree(Now(p)).dirty THEN GoesTo(p, "merge") /\ UNCHANGED past
     ELSE Blocked(p, "worktree_dirty")
  /\ UNCHANGED <<env, disk>>

Overwrites(t) == Tree(t).summary = "committed" /\ t \in disk.copies
MergeRefused(t) ==
  \/ disk.merging # {}
  \/ Tree(t).commits /\ ~Merged(t) /\ (t \in env.clash \/ Overwrites(t))

\* Mutant: a merge that is refused is taken for one that had nothing to do.
MergeAnyway(p) ==
  /\ At(p, "merge")
  /\ disk' = IF MergeRefused(Now(p)) THEN disk ELSE [disk EXCEPT !.merged = @ \cup {Now(p)}]
  /\ GoesTo(p, "remove") /\ UNCHANGED <<env, past>>

Merge(p) ==
  /\ At(p, "merge")
  /\ LET t == Now(p)
     IN  IF MergeRefused(t)
         THEN /\ Blocked(p, "merge_failed")
              /\ disk' = IF disk.merging = {} /\ ~Overwrites(t)
                         THEN [disk EXCEPT !.merging = {t}] ELSE disk
         ELSE /\ GoesTo(p, "remove") /\ UNCHANGED past
              /\ disk' = [disk EXCEPT !.merged = @ \cup {t}]
  /\ UNCHANGED env

Unlocked(t) == [env EXCEPT !.unlocked = @ \cup {t}]

\* worktree remove --force, after an unlock if need be.
Remove(p) ==
  /\ At(p, "remove")
  /\ \/ /\ disk' = [disk EXCEPT !.tree[Now(p)].dir = FALSE]
        /\ GoesTo(p, "delete") /\ UNCHANGED <<env, past>>
     \/ /\ MayRefuse(Now(p), "remove") /\ env' = Unlocked(Now(p))
        /\ Blocked(p, "worktree_remove_failed") /\ UNCHANGED disk

\* Mutant: the loop does not end with the last entry.
DeleteBranchOn(p) ==
  /\ At(p, "delete")
  /\ disk' = [disk EXCEPT !.tree[Now(p)].branch = FALSE]
  /\ procs' = [procs EXCEPT ![p].at = "check", ![p].i = @ + 1]
  /\ UNCHANGED <<env, past>>

\* A branch that stays is a warning, and the next entry begins.
DeleteBranch(p) ==
  /\ At(p, "delete")
  /\ \/ disk' = [disk EXCEPT !.tree[Now(p)].branch = FALSE]
     \/ MayRefuse(Now(p), "branch") /\ UNCHANGED disk
  /\ procs' = [procs EXCEPT ![p] = IF procs[p].i = Len(Wave) THEN Idle
                                   ELSE [procs[p] EXCEPT !.at = "check", !.i = procs[p].i + 1]]
  /\ UNCHANGED <<env, past>>

\* The orchestrator clears what stopped the cleanup: it concludes the open
\* merge, removes the copy in the way, or commits what an agent left.
Resolve(p) ==
  /\ InCharge(p) /\ env.rounds > 0
  /\ \E b \in past.blocked :
       LET t == b.tree
       IN  \/ /\ t \in disk.merging
              /\ disk' = [disk EXCEPT !.merging = {}, !.merged = @ \cup {t}]
           \/ /\ b.why = "merge_failed" /\ t \in disk.copies /\ Tree(t).summary = "committed"
              /\ disk' = [disk EXCEPT !.copies = @ \ {t}]
           \/ /\ b.why = "worktree_dirty" /\ Tree(t).dirty /\ Tree(t).dir
              /\ disk' = [disk EXCEPT !.tree[t].dirty = FALSE, !.tree[t].commits = TRUE]
  /\ UNCHANGED <<env, procs, past>>

-----------------------------------------------------------------------------
(* reap-orphans.  The tip of the default branch is read once: of the remote *)
(* if one is configured, which knows nothing of the merges not pushed.      *)

StartReap(p) ==
  /\ At(p, "idle") /\ p # Owner /\ env.reaps > 0
  /\ env' = [env EXCEPT !.reaps = @ - 1]
  /\ procs' = [procs EXCEPT ![p].at = "reap", ![p].todo = Trees,
                            ![p].tip = IF env.remote THEN {} ELSE disk.merged]
  /\ UNCHANGED <<disk, past>>

\* An unmerged branch without commits is an ancestor of every tip.
Orphan(p, t) ==
  /\ Tree(t).dir /\ t \notin env.unlocked /\ Tree(t).aged
  /\ ~Alive(Owner)
  /\ Tree(t).branch /\ (Tree(t).commits => t \in procs[p].tip)
Reap(p) ==
  /\ At(p, "reap")
  /\ \E t \in procs[p].todo :
       /\ procs' = [procs EXCEPT ![p].todo = @ \ {t}]
       /\ \/ /\ Orphan(p, t)
             /\ disk' = [disk EXCEPT !.tree[t].dir = FALSE]
             /\ past' = [past EXCEPT !.reaped = @ \cup {t}] /\ UNCHANGED env
          \/ /\ Orphan(p, t) /\ MayRefuse(t, "remove") /\ env' = Unlocked(t)
             /\ UNCHANGED <<disk, past>>
          \/ ~Orphan(p, t) /\ UNCHANGED <<env, disk, past>>
EndReap(p) ==
  /\ At(p, "reap") /\ procs[p].todo = {}
  /\ procs' = [procs EXCEPT ![p] = Idle] /\ UNCHANGED <<env, disk, past>>

-----------------------------------------------------------------------------
InitIn(e) ==
  /\ env = e
  /\ disk = [tree |-> [t \in Trees |-> Fresh], merged |-> {}, copies |-> {}, merging |-> {}]
  /\ procs = [p \in Procs |-> [Idle EXCEPT !.at = IF p = Owner THEN "idle" ELSE "unborn"]]
  /\ past = [reaped |-> {}, blocked |-> {}]

Cleanup(p) == \/ StartCleanup(p) \/ Check(p) \/ Rescue(p) \/ CheckDirty(p) \/ Merge(p)
              \/ Remove(p) \/ DeleteBranch(p) \/ Resolve(p)
Next ==
  \/ \E t \in Trees : Edit(t) \/ Commit(t) \/ Summarise(t) \/ CommitSummary(t)
                      \/ Return(t) \/ Ages(t)
  \/ \E p \in Procs : Dies(p) \/ Begins(p) \/ Cleanup(p)
                      \/ StartReap(p) \/ Reap(p) \/ EndReap(p)

-----------------------------------------------------------------------------
TypeOK ==
  /\ env \in [clash : SUBSET Trees, deleters : SUBSET Trees, drifted : SUBSET Trees,
              unlocked : SUBSET Trees, refusals : SUBSET (Trees \X Refusals), remote : BOOLEAN,
              rounds : 0..3, kills : 0..2, reaps : 0..2]
  /\ disk \in [tree : [Trees -> [dir : BOOLEAN, branch : BOOLEAN, commits : BOOLEAN,
                                 deletes : BOOLEAN, dirty : BOOLEAN, summary : Wrote,
                                 agent : {"running", "returned", "dead"}, aged : BOOLEAN]],
               merged : SUBSET Trees, copies : SUBSET Trees, merging : SUBSET Trees]
  /\ procs \in [Procs -> [at : {"unborn", "idle", "check", "rescue", "status", "merge",
                                "remove", "delete", "reap", "dead"},
                          i : 1..Len(Wave), tip : SUBSET Trees, todo : SUBSET Trees]]
  /\ past \in [reaped : SUBSET Trees, blocked : SUBSET [tree : Trees, why : Blocks]]

(* Whatever dies, clashes or is reaped between two commands, what an agent  *)
(* committed is in the main tree or still on its branch.                    *)
CommitsKept == \A t \in Trees : Tree(t).commits => (Tree(t).branch \/ Merged(t))

(* A worktree goes only when it is clean and its summary is safe in the     *)
(* main tree, unless it was an orphan: what an agent that died before its   *)
(* first commit had written goes with it.                                   *)
SummariesKept ==
  \A t \in Trees : ~Tree(t).dir =>
    \/ /\ ~Tree(t).dirty
       /\ Tree(t).summary = "committed" => Merged(t)
       /\ Tree(t).summary = "loose" => t \in disk.copies
    \/ t \in past.reaped

\* The cleanup and the reaping of one environment.
RunIn(e) == InitIn(e) /\ [][Next]_vars
=============================================================================
