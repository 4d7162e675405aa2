------------------------- MODULE WorktreeSafetyProofs -------------------------
(***************************************************************************)
(* Proofs about WorktreeSafety for any sessions, any worktrees and any      *)
(* manifest of them: what an agent committed is never lost, and a worktree  *)
(* goes only when nothing in it is needed.  Both rest on one invariant:     *)
(* while a cleanup is at work no agent is, so that what it has checked of a *)
(* worktree stays true until the worktree is gone.                          *)
(***************************************************************************)
EXTENDS WorktreeSafety, TLAPS

TreeType == [dir : BOOLEAN, branch : BOOLEAN, commits : BOOLEAN, deletes : BOOLEAN, dirty : BOOLEAN,
             summary : Wrote, agent : {"running", "returned", "dead"}, aged : BOOLEAN]
DiskType == [tree : [Trees -> TreeType], merged : SUBSET Trees, copies : SUBSET Trees, merging : SUBSET Trees]
ProcType == [at : {"unborn", "idle", "check", "rescue", "status", "merge", "remove", "delete", "reap", "dead"},
             i : 1..Len(Wave), tip : SUBSET Trees, todo : SUBSET Trees]
PastType == [reaped : SUBSET Trees, blocked : SUBSET [tree : Trees, why : Blocks]]

Cleaning == {"check", "rescue", "status", "merge", "remove", "delete"}

\* Every variable but the environment has its type.
Typed == disk \in DiskType /\ procs \in [Procs -> ProcType] /\ past \in PastType

\* No agent works beside a cleanup.
AgentsDone == \A p \in Procs : procs[p].at \in Cleaning => \A t \in Trees : Tree(t).agent # "running"

\* What a cleanup merges is clean, and what it removes is merged.
MergedFirst ==
  /\ \A p \in Procs : procs[p].at \in {"merge", "remove", "delete"} => ~Tree(Now(p)).dirty
  /\ \A p \in Procs : procs[p].at \in {"remove", "delete"} => Now(p) \in disk.merged

\* What a cleanup has rescued stays in the main tree.
Rescued(t) == Tree(t).summary = "loose" => t \in disk.copies
RescuedFirst ==
  \A p \in Procs : procs[p].at \in {"status", "merge", "remove", "delete"}
                    => (Tree(Now(p)).dir => Rescued(Now(p)))

\* A branch goes when it is merged; a worktree too, unless it was reaped.
GoneIsSafe ==
  \A t \in Trees :
    /\ ~Tree(t).branch => t \in disk.merged
    /\ ~Tree(t).dir => (~Tree(t).dirty /\ t \in disk.merged /\ Rescued(t)) \/ t \in past.reaped

SafeInv == Typed /\ AgentsDone /\ MergedFirst /\ RescuedFirst /\ GoneIsSafe

\* A worktree of the manifest is one of the worktrees.
LEMMA NowIsTree ==
  ASSUME Wave \in Seq(Trees), procs \in [Procs -> ProcType], NEW p \in Procs
  PROVE  Now(p) \in Trees
BY DEF ProcType, Now

\* One worktree changes.
LEMMA TreeChange ==
  ASSUME disk \in DiskType, NEW t \in Trees, NEW to \in TreeType, disk' = [disk EXCEPT !.tree[t] = to]
  PROVE  /\ disk' \in DiskType
         /\ disk'.tree = [disk.tree EXCEPT ![t] = to]
         /\ \A u \in Trees : disk'.tree[u] = IF u = t THEN to ELSE disk.tree[u]
         /\ disk'.merged = disk.merged /\ disk'.copies = disk.copies /\ disk'.merging = disk.merging
BY DEF DiskType

\* Whatever an agent does, it was running, and nothing it leaves is gone.
LEMMA AgentStep ==
  ASSUME SafeInv, NEW t \in Trees, NEW to \in TreeType, Acts(t, to),
         to.dir = Tree(t).dir, to.branch = Tree(t).branch, to.agent # "running" \/ to.agent = Tree(t).agent
  PROVE  SafeInv'
<1> USE DEF SafeInv, Typed, Tree
<1>1. \A p \in Procs : procs[p].at \notin Cleaning
  BY DEF AgentsDone, Acts
<1>2. disk' = [disk EXCEPT !.tree[t] = to] /\ procs' = procs /\ past' = past
  BY DEF Acts
<1>3. /\ Typed' /\ disk'.tree = [disk.tree EXCEPT ![t] = to]
      /\ disk'.merged = disk.merged /\ disk'.copies = disk.copies
  BY <1>2, TreeChange
<1>4. AgentsDone'
  BY <1>1, <1>2 DEF AgentsDone
<1>5. MergedFirst'
  BY <1>1, <1>2 DEF MergedFirst, Cleaning
<1>6. RescuedFirst'
  BY <1>1, <1>2 DEF RescuedFirst, Cleaning
<1>7. GoneIsSafe'
  <2>1. \A u \in Trees : disk'.tree[u] = IF u = t THEN to ELSE disk.tree[u]
    BY <1>3 DEF DiskType
  <2>2. Tree(t).agent = "running" /\ Tree(t).dir
    BY DEF Acts
  <2>3. ASSUME NEW u \in Trees
        PROVE  /\ ~disk'.tree[u].branch => u \in disk.merged
               /\ ~disk'.tree[u].dir =>
                    \/ /\ ~disk'.tree[u].dirty /\ u \in disk.merged
                       /\ disk'.tree[u].summary = "loose" => u \in disk.copies
                    \/ u \in past.reaped
    <3>1. CASE u = t
      BY <2>1, <2>2, <3>1 DEF GoneIsSafe
    <3>2. CASE u # t
      BY <2>1, <3>2 DEF GoneIsSafe, Rescued
    <3>3. QED
      BY <3>1, <3>2
  <2>4. QED
    BY <1>2, <1>3, <2>3 DEF GoneIsSafe, Rescued
<1>8. QED
  BY <1>3, <1>4, <1>5, <1>6, <1>7

\* Agents write, commit and return.
LEMMA AgentsSafe ==
  ASSUME SafeInv, NEW t \in Trees, Edit(t) \/ Commit(t) \/ Summarise(t) \/ CommitSummary(t) \/ Return(t)
  PROVE  SafeInv'
<1>1. Tree(t) \in TreeType
  BY DEF SafeInv, Typed, DiskType, Tree
<1>2. CASE Edit(t)
  <2>1. [Tree(t) EXCEPT !.dirty = TRUE] \in TreeType
    BY <1>1 DEF TreeType
  <2>2. QED
    BY <1>1, <1>2, <2>1, AgentStep DEF Edit, TreeType
<1>3. CASE Commit(t)
  <2> DEFINE to == [Tree(t) EXCEPT !.dirty = FALSE, !.commits = TRUE, !.deletes = t \in env.deleters]
  <2>1. to \in TreeType
    <3>1. (t \in env.deleters) \in BOOLEAN
      OBVIOUS
    <3>2. \A d \in BOOLEAN : [Tree(t) EXCEPT !.dirty = FALSE, !.commits = TRUE, !.deletes = d] \in TreeType
      BY <1>1 DEF TreeType
    <3>3. QED
      BY <3>1, <3>2, Zenon
  <2>2. Acts(t, to) /\ to.dir = Tree(t).dir /\ to.branch = Tree(t).branch /\ to.agent = Tree(t).agent
    BY <1>1, <1>3 DEF Commit, TreeType
  <2> HIDE DEF to
  <2>3. QED
    BY <2>1, <2>2, AgentStep
<1>4. CASE Summarise(t)
  <2>1. [Tree(t) EXCEPT !.summary = "loose"] \in TreeType
    BY <1>1 DEF TreeType, Wrote
  <2>2. QED
    BY <1>1, <1>4, <2>1, AgentStep DEF Summarise, TreeType
<1>5. CASE CommitSummary(t)
  <2>1. [Tree(t) EXCEPT !.summary = "committed", !.commits = TRUE] \in TreeType
    BY <1>1 DEF TreeType, Wrote
  <2>2. QED
    BY <1>1, <1>5, <2>1, AgentStep DEF CommitSummary, TreeType
<1>6. CASE Return(t)
  <2>1. [Tree(t) EXCEPT !.agent = "returned"] \in TreeType
    BY <1>1 DEF TreeType
  <2>2. QED
    BY <1>1, <1>6, <2>1, AgentStep DEF Return, TreeType
<1>7. QED
  BY <1>2, <1>3, <1>4, <1>5, <1>6

\* A session that leaves its command, or begins one that is no cleanup, disturbs nothing.
LEMMA LeavesSafe ==
  ASSUME SafeInv, NEW p \in Procs, NEW q \in ProcType, q.at \notin Cleaning,
         procs' = [procs EXCEPT ![p] = q], UNCHANGED disk,
         past'.reaped = past.reaped, past' \in PastType
  PROVE  SafeInv'
<1> USE DEF SafeInv, Typed, Tree
<1>1. Typed'
  OBVIOUS
<1>2. AgentsDone'
  BY DEF AgentsDone, ProcType
<1>3. MergedFirst'
  BY DEF MergedFirst, Cleaning, Now, ProcType
<1>4. RescuedFirst'
  BY DEF RescuedFirst, Rescued, Cleaning, Now, ProcType
<1>5. GoneIsSafe'
  BY DEF GoneIsSafe, Rescued
<1>6. QED
  BY <1>1, <1>2, <1>3, <1>4, <1>5

\* A session that is idle is at no worktree.
LEMMA IdleTyped ==
  ASSUME Wave \in Seq(Trees), Wave # <<>>
  PROVE  /\ Idle \in ProcType /\ Idle.at = "idle" /\ Idle.i = 1
         /\ \A at \in {"unborn", "idle", "check", "dead"} : [Idle EXCEPT !.at = at] \in ProcType
<1>1. 1 \in 1..Len(Wave)
  OBVIOUS
<1>2. QED
  BY <1>1 DEF Idle, ProcType

\* An entry that is blocked ends the cleanup.
LEMMA BlockedSafe ==
  ASSUME Wave \in Seq(Trees), Wave # <<>>, SafeInv, NEW p \in Procs, NEW why \in Blocks,
         Blocked(p, why), UNCHANGED disk
  PROVE  SafeInv'
<1>1. Now(p) \in Trees
  BY NowIsTree DEF SafeInv, Typed
<1>2. past' \in PastType /\ past'.reaped = past.reaped
  BY <1>1 DEF Blocked, SafeInv, Typed, PastType
<1>3. Idle \in ProcType /\ Idle.at \notin Cleaning
  BY IdleTyped DEF Cleaning
<1>4. QED
  BY <1>2, <1>3, LeavesSafe DEF Blocked

\* A session ends, with the agents it had dispatched.
LEMMA DiesSafe ==
  ASSUME Wave \in Seq(Trees), Wave # <<>>, SafeInv, NEW p \in Procs, Dies(p)
  PROVE  SafeInv'
<1> DEFINE dead == [Idle EXCEPT !.at = "dead"]
<1>1. dead \in ProcType /\ dead.at \notin Cleaning
  BY IdleTyped DEF Cleaning, Idle
<1>2. procs' = [procs EXCEPT ![p] = dead] /\ past' = past
  BY DEF Dies
<1> HIDE DEF dead
<1>3. CASE p # Owner
  BY <1>1, <1>2, <1>3, LeavesSafe DEF Dies, SafeInv, Typed
<1>4. CASE p = Owner
  <2> USE DEF SafeInv, Typed, Tree, DiskType
  <2>1. disk' = [disk EXCEPT !.tree = [t \in Trees |->
                   [disk.tree[t] EXCEPT !.agent = IF @ = "running" THEN "dead" ELSE @]]]
    BY <1>4 DEF Dies
  <2>0. \A t \in Trees : disk.tree[t] \in TreeType
    OBVIOUS
  <2> DEFINE died(r) == [r EXCEPT !.agent = IF @ = "running" THEN "dead" ELSE @]
  <2>2. \A t \in Trees : disk'.tree[t] = died(disk.tree[t])
    BY <2>1
  <2>3. ASSUME NEW r \in TreeType
        PROVE  /\ died(r) \in TreeType /\ died(r).dir = r.dir /\ died(r).branch = r.branch
               /\ died(r).dirty = r.dirty /\ died(r).summary = r.summary /\ died(r).agent # "running"
    <3>1. \A a \in {"returned", "dead"} :
            LET m == [r EXCEPT !.agent = a]
            IN  /\ m \in TreeType /\ m.dir = r.dir /\ m.branch = r.branch /\ m.dirty = r.dirty
                /\ m.summary = r.summary /\ m.agent # "running"
      BY <2>3 DEF TreeType
    <3>2. (IF r.agent = "running" THEN "dead" ELSE r.agent) \in {"returned", "dead"}
      BY <2>3 DEF TreeType
    <3>3. QED
      BY <2>3, <3>1, <3>2
  <2> HIDE DEF died
  <2>4. disk' \in DiskType
    <3>1. disk'.tree = [t \in Trees |-> disk'.tree[t]]
      BY <2>1
    <3>2. disk'.tree \in [Trees -> TreeType]
      BY <2>0, <2>2, <2>3, <3>1
    <3>3. QED
      BY <2>1, <3>2
  <2>5. \A t \in Trees : /\ disk'.tree[t].dir = disk.tree[t].dir
                         /\ disk'.tree[t].branch = disk.tree[t].branch
                         /\ disk'.tree[t].dirty = disk.tree[t].dirty
                         /\ disk'.tree[t].summary = disk.tree[t].summary
                         /\ disk'.tree[t].agent # "running"
    BY <2>0, <2>2, <2>3
  <2>6. disk'.merged = disk.merged /\ disk'.copies = disk.copies
    BY <2>1
  <2>7. \A q \in Procs : Now(q) \in Trees
    BY NowIsTree
  <2>8. \A q \in Procs : procs'[q].at \in Cleaning => procs'[q] = procs[q]
    BY <1>1, <1>2
  <2>9. Typed'
    BY <1>1, <1>2, <2>4
  <2>10. AgentsDone'
    BY <2>5 DEF AgentsDone
  <2>11. MergedFirst'
    BY <2>5, <2>6, <2>7, <2>8 DEF MergedFirst, Cleaning, Now
  <2>12. RescuedFirst'
    BY <2>5, <2>6, <2>7, <2>8 DEF RescuedFirst, Rescued, Cleaning, Now
  <2>13. GoneIsSafe'
    BY <1>2, <2>5, <2>6 DEF GoneIsSafe, Rescued
  <2>14. QED
    BY <2>9, <2>10, <2>11, <2>12, <2>13
<1>5. QED
  BY <1>3, <1>4

\* A lock grows old; no session moves.
LEMMA AgesSafe ==
  ASSUME Wave \in Seq(Trees), SafeInv, NEW t \in Trees, Ages(t)
  PROVE  SafeInv'
<1> USE DEF SafeInv, Typed
<1> DEFINE to == [disk.tree[t] EXCEPT !.aged = TRUE]
<1>1. disk.tree[t] \in TreeType
  BY DEF DiskType
<1>2. to \in TreeType
  BY <1>1 DEF TreeType
<1>3. to.dir = disk.tree[t].dir /\ to.branch = disk.tree[t].branch /\ to.dirty = disk.tree[t].dirty
      /\ to.summary = disk.tree[t].summary /\ to.agent = disk.tree[t].agent
  BY <1>1 DEF TreeType
<1>4. disk' = [disk EXCEPT !.tree[t] = to] /\ UNCHANGED <<procs, past>>
  BY DEF Ages
<1> HIDE DEF to
<1>5. /\ disk' \in DiskType
      /\ disk'.tree = [disk.tree EXCEPT ![t] = to]
      /\ disk'.merged = disk.merged /\ disk'.copies = disk.copies
  BY <1>2, <1>4, TreeChange
<1>6. \A u \in Trees : /\ disk'.tree[u].dir = disk.tree[u].dir
                       /\ disk'.tree[u].branch = disk.tree[u].branch
                       /\ disk'.tree[u].dirty = disk.tree[u].dirty
                       /\ disk'.tree[u].summary = disk.tree[u].summary
                       /\ disk'.tree[u].agent = disk.tree[u].agent
  BY <1>3, <1>5 DEF DiskType
<1>7. \A p \in Procs : Now(p) \in Trees
  BY NowIsTree
<1>8. Typed' /\ AgentsDone'
  BY <1>4, <1>5, <1>6 DEF AgentsDone, Tree
<1>9. MergedFirst'
  BY <1>4, <1>5, <1>6, <1>7 DEF MergedFirst, Now, Tree
<1>10. RescuedFirst' /\ GoneIsSafe'
  BY <1>4, <1>5, <1>6, <1>7 DEF RescuedFirst, GoneIsSafe, Rescued, Now, Tree
<1>11. QED
  BY <1>8, <1>9, <1>10

\* A cleanup begins when every agent has returned or died.
LEMMA StartCleanupSafe ==
  ASSUME Wave \in Seq(Trees), Wave # <<>>, SafeInv, NEW p \in Procs, StartCleanup(p)
  PROVE  SafeInv'
<1> USE DEF SafeInv, Typed
<1> DEFINE check == [Idle EXCEPT !.at = "check"]
<1>1. check \in ProcType /\ check.at = "check"
  BY IdleTyped DEF Idle
<1>2. procs' = [procs EXCEPT ![p] = check] /\ disk' = disk /\ past' = past
      /\ \A t \in Trees : Tree(t).agent # "running"
  BY DEF StartCleanup
<1> HIDE DEF check
<1>3. \A q \in Procs : procs'[q].at \in Cleaning \ {"check"} => procs'[q] = procs[q]
  BY <1>1, <1>2
<1>4. Typed' /\ AgentsDone' /\ GoneIsSafe'
  BY <1>1, <1>2 DEF AgentsDone, GoneIsSafe, Rescued, Tree
<1>5. MergedFirst' /\ RescuedFirst'
  BY <1>2, <1>3 DEF MergedFirst, RescuedFirst, Rescued, Tree, Now, Cleaning
<1>6. QED
  BY <1>4, <1>5

\* What one session has established of the worktree it is at.
AtWork(p) ==
  /\ procs[p].at \in Cleaning => \A t \in Trees : Tree(t).agent # "running"
  /\ procs[p].at \in {"merge", "remove", "delete"} => ~Tree(Now(p)).dirty
  /\ procs[p].at \in {"remove", "delete"} => Now(p) \in disk.merged
  /\ procs[p].at \in {"status", "merge", "remove", "delete"} => (Tree(Now(p)).dir => Rescued(Now(p)))

\* A step of one session takes nothing from the others.
Gentle ==
  /\ disk.merged \subseteq disk'.merged /\ past.reaped \subseteq past'.reaped
  /\ \A t \in Trees : /\ Tree(t)'.agent = Tree(t).agent
                      /\ Tree(t)'.dirty => Tree(t).dirty
                      /\ Tree(t)'.dir => Tree(t).dir
                      /\ Rescued(t) => Rescued(t)'

\* What the other sessions have established survives a gentle step.
LEMMA GentleStep ==
  ASSUME Wave \in Seq(Trees), SafeInv, Typed', Gentle, NEW p \in Procs, NEW q \in ProcType,
         procs' = [procs EXCEPT ![p] = q], AtWork(p)',
         \A t \in Trees : ~Tree(t)'.branch => (~Tree(t).branch \/ t \in disk'.merged),
         \A t \in Trees : ~Tree(t)'.dir => \/ ~Tree(t).dir \/ t \in past'.reaped
                                           \/ ~Tree(t)'.dirty /\ t \in disk'.merged /\ Rescued(t)'
  PROVE  SafeInv'
<1> USE DEF SafeInv, Typed
<1>1. \A r \in Procs : r # p => procs'[r] = procs[r] /\ Now(r)' = Now(r) /\ Now(r) \in Trees
  BY NowIsTree DEF Now
<1>2. AgentsDone'
  BY <1>1 DEF AgentsDone, AtWork, Gentle
<1>3. MergedFirst'
  BY <1>1 DEF MergedFirst, AtWork, Gentle
<1>4. RescuedFirst'
  BY <1>1 DEF RescuedFirst, AtWork, Gentle
<1>5. GoneIsSafe'
  BY DEF GoneIsSafe, Gentle
<1>6. QED
  BY <1>2, <1>3, <1>4, <1>5

\* The checks that only read.
LEMMA CheckSafe ==
  ASSUME Wave \in Seq(Trees), Wave # <<>>, SafeInv, NEW p \in Procs, Check(p)
  PROVE  SafeInv'
<1>1. CASE Verdict(Now(p)) = "fine"
  <2> DEFINE q == [procs[p] EXCEPT !.at = "rescue"]
  <2>1. q \in ProcType /\ q.at = "rescue"
    BY DEF SafeInv, Typed, ProcType
  <2>2. procs' = [procs EXCEPT ![p] = q] /\ UNCHANGED <<disk, past>> /\ procs[p].at = "check"
    BY <1>1 DEF Check, GoesTo, At
  <2> HIDE DEF q
  <2>3. Typed' /\ procs'[p].at = "rescue"
    BY <2>1, <2>2 DEF SafeInv, Typed
  <2>4. AtWork(p)'
    BY <2>2, <2>3 DEF SafeInv, AgentsDone, AtWork, Cleaning, Tree
  <2>5. Gentle
    BY <2>2 DEF Gentle, Tree, Rescued
  <2>6. QED
    BY <2>1, <2>2, <2>3, <2>4, <2>5, GentleStep DEF Tree
<1>2. CASE Verdict(Now(p)) # "fine"
  <2>1. Verdict(Now(p)) \in Blocks
    BY <1>2 DEF Verdict, Blocks
  <2>2. QED
    BY <1>2, <2>1, BlockedSafe DEF Check
<1>3. QED
  BY <1>1, <1>2

\* A command goes on to its next step.
LEMMA GoesOn ==
  ASSUME SafeInv, NEW p \in Procs, NEW at \in Cleaning, GoesTo(p, at)
  PROVE  \E q \in ProcType : /\ procs' = [procs EXCEPT ![p] = q]
                             /\ q.at = at /\ q.i = procs[p].i /\ procs'[p] = q /\ Now(p)' = Now(p)
<1> DEFINE q == [procs[p] EXCEPT !.at = at]
<1>1. q \in ProcType /\ q.at = at /\ q.i = procs[p].i
  BY DEF SafeInv, Typed, ProcType, Cleaning
<1>2. procs' = [procs EXCEPT ![p] = q]
  BY DEF GoesTo
<1> HIDE DEF q
<1>3. procs'[p] = q /\ Now(p)' = Now(p)
  BY <1>1, <1>2 DEF SafeInv, Typed, Now
<1>4. QED
  BY <1>1, <1>2, <1>3

\* What the agent summarised is copied before the worktree is judged.
LEMMA RescueSafe ==
  ASSUME Wave \in Seq(Trees), Wave # <<>>, SafeInv, NEW p \in Procs, Rescue(p)
  PROVE  SafeInv'
<1> DEFINE Copied == disk' = IF ToRescue(Now(p)) THEN [disk EXCEPT !.copies = @ \cup {Now(p)}] ELSE disk
<1>1. procs[p].at = "rescue" /\ Now(p) \in Trees
  BY NowIsTree DEF Rescue, At, SafeInv, Typed
<1>2. CASE Copied /\ GoesTo(p, "status") /\ UNCHANGED past
  <2>1. PICK q \in ProcType : /\ procs' = [procs EXCEPT ![p] = q]
                              /\ q.at = "status" /\ procs'[p] = q /\ Now(p)' = Now(p)
    BY <1>2, GoesOn DEF Cleaning
  <2>2. disk' = disk \/ disk' = [disk EXCEPT !.copies = @ \cup {Now(p)}]
    BY <1>2
  <2>3. /\ disk' \in DiskType /\ disk'.tree = disk.tree
        /\ disk'.merged = disk.merged /\ disk.copies \subseteq disk'.copies
    BY <1>1, <2>2 DEF SafeInv, Typed, DiskType
  <2>4. Tree(Now(p)).dir /\ Tree(Now(p)).summary = "loose" => Now(p) \in disk'.copies
    BY <1>1, <1>2 DEF ToRescue, SafeInv, Typed, DiskType
  <2>5. Typed'
    BY <1>2, <2>1, <2>3 DEF SafeInv, Typed
  <2>6. AtWork(p)'
    BY <1>1, <2>1, <2>3, <2>4 DEF AtWork, SafeInv, AgentsDone, Cleaning, Tree, Rescued
  <2>7. Gentle
    BY <1>2, <2>3 DEF Gentle, Tree, Rescued
  <2>8. QED
    BY <1>2, <2>1, <2>3, <2>5, <2>6, <2>7, GentleStep DEF Tree
<1>3. CASE Blocked(p, "summary_rescue_failed") /\ UNCHANGED disk
  BY <1>3, BlockedSafe DEF Blocks
<1>4. QED
  BY <1>2, <1>3 DEF Rescue

\* Only a clean worktree is merged.
LEMMA CheckDirtySafe ==
  ASSUME Wave \in Seq(Trees), Wave # <<>>, SafeInv, NEW p \in Procs, CheckDirty(p)
  PROVE  SafeInv'
<1>1. CASE Tree(Now(p)).dir /\ ~Tree(Now(p)).dirty
  <2>1. procs[p].at = "status" /\ UNCHANGED <<disk, past>>
    BY <1>1 DEF CheckDirty, At
  <2>2. PICK q \in ProcType : /\ procs' = [procs EXCEPT ![p] = q]
                              /\ q.at = "merge" /\ procs'[p] = q /\ Now(p)' = Now(p)
    BY <1>1, GoesOn DEF CheckDirty, Cleaning
  <2>3. Typed'
    BY <2>1, <2>2 DEF SafeInv, Typed
  <2>4. AtWork(p)'
    BY <1>1, <2>1, <2>2 DEF AtWork, SafeInv, AgentsDone, RescuedFirst, Cleaning, Tree, Rescued
  <2>5. Gentle
    BY <2>1 DEF Gentle, Tree, Rescued
  <2>6. QED
    BY <2>1, <2>2, <2>3, <2>4, <2>5, GentleStep DEF Tree
<1>2. CASE ~(Tree(Now(p)).dir /\ ~Tree(Now(p)).dirty)
  BY <1>2, BlockedSafe DEF CheckDirty, Blocks
<1>3. QED
  BY <1>1, <1>2

\* A merge that is refused may stay open; one that is not brings the branch in.
LEMMA MergeSafe ==
  ASSUME Wave \in Seq(Trees), Wave # <<>>, SafeInv, NEW p \in Procs, Merge(p)
  PROVE  SafeInv'
<1>1. procs[p].at = "merge" /\ Now(p) \in Trees
  BY NowIsTree DEF Merge, At, SafeInv, Typed
<1>2. CASE MergeRefused(Now(p))
  <2>1. Blocked(p, "merge_failed") /\ (disk' = disk \/ disk' = [disk EXCEPT !.merging = {Now(p)}])
    BY <1>2 DEF Merge
  <2>2. procs' = [procs EXCEPT ![p] = Idle] /\ past'.reaped = past.reaped /\ past' \in PastType
    BY <1>1, <2>1 DEF Blocked, Blocks, SafeInv, Typed, PastType
  <2>3. disk' \in DiskType /\ disk'.tree = disk.tree /\ disk'.merged = disk.merged /\ disk'.copies = disk.copies
    BY <1>1, <2>1 DEF SafeInv, Typed, DiskType
  <2>4. Idle \in ProcType /\ Idle.at = "idle"
    BY IdleTyped
  <2>5. Typed' /\ procs'[p].at = "idle"
    BY <2>2, <2>3, <2>4 DEF SafeInv, Typed
  <2>6. AtWork(p)'
    BY <2>5 DEF AtWork, Cleaning
  <2>7. Gentle
    BY <2>2, <2>3 DEF Gentle, Tree, Rescued
  <2>8. QED
    BY <2>2, <2>3, <2>4, <2>5, <2>6, <2>7, GentleStep DEF Tree
<1>3. CASE ~MergeRefused(Now(p))
  <2>1. disk' = [disk EXCEPT !.merged = @ \cup {Now(p)}] /\ past' = past
    BY <1>3 DEF Merge
  <2>2. PICK q \in ProcType : /\ procs' = [procs EXCEPT ![p] = q]
                              /\ q.at = "remove" /\ procs'[p] = q /\ Now(p)' = Now(p)
    BY <1>3, GoesOn DEF Merge, Cleaning
  <2>3. disk' \in DiskType /\ disk'.tree = disk.tree /\ disk'.copies = disk.copies
        /\ disk'.merged = disk.merged \cup {Now(p)}
    BY <1>1, <2>1 DEF SafeInv, Typed, DiskType
  <2>4. Typed'
    BY <2>1, <2>2, <2>3 DEF SafeInv, Typed
  <2>5. AtWork(p)'
    BY <1>1, <2>2, <2>3 DEF AtWork, SafeInv, AgentsDone, MergedFirst, RescuedFirst, Cleaning, Tree, Rescued
  <2>6. Gentle
    BY <2>1, <2>3 DEF Gentle, Tree, Rescued
  <2>7. QED
    BY <2>1, <2>2, <2>3, <2>4, <2>5, <2>6, GentleStep DEF Tree
<1>4. QED
  BY <1>2, <1>3

\* A worktree is removed once it is merged.
LEMMA RemovedSafe ==
  ASSUME Wave \in Seq(Trees), SafeInv, NEW p \in Procs, At(p, "remove"), UNCHANGED past,
         disk' = [disk EXCEPT !.tree[Now(p)].dir = FALSE], GoesTo(p, "delete")
  PROVE  SafeInv'
<1> DEFINE t == Now(p)
<1> DEFINE to == [disk.tree[t] EXCEPT !.dir = FALSE]
<1>1. procs[p].at = "remove" /\ past' = past /\ t \in Trees /\ disk.tree[t] \in TreeType
  BY NowIsTree DEF At, SafeInv, Typed, DiskType
<1>2. disk' = [disk EXCEPT !.tree[t] = to]
  OBVIOUS
<1>3. PICK q \in ProcType : /\ procs' = [procs EXCEPT ![p] = q]
                            /\ q.at = "delete" /\ procs'[p] = q /\ Now(p)' = Now(p)
  BY GoesOn DEF Cleaning
<1>4. /\ to \in TreeType /\ to.agent = disk.tree[t].agent /\ to.dirty = disk.tree[t].dirty
      /\ to.summary = disk.tree[t].summary /\ to.branch = disk.tree[t].branch /\ ~to.dir
  BY <1>1 DEF TreeType
<1> HIDE DEF t, to
<1>5. /\ disk' \in DiskType /\ \A u \in Trees : disk'.tree[u] = IF u = t THEN to ELSE disk.tree[u]
      /\ disk'.merged = disk.merged /\ disk'.copies = disk.copies
  BY <1>1, <1>2, <1>4, TreeChange DEF SafeInv, Typed
<1>6. \A u \in Trees : /\ disk'.tree[u] = IF u = t THEN to ELSE disk.tree[u]
                       /\ Rescued(u) <=> Rescued(u)'
  BY <1>4, <1>5 DEF Rescued, Tree
<1>7. Typed'
  BY <1>1, <1>3, <1>5 DEF SafeInv, Typed
<1>8. ~disk.tree[t].dirty /\ t \in disk.merged /\ (disk.tree[t].dir => Rescued(t))
  BY <1>1 DEF SafeInv, MergedFirst, RescuedFirst, Tree, t
<1>9. AtWork(p)'
  BY <1>1, <1>3, <1>4, <1>5, <1>6, <1>8 DEF AtWork, SafeInv, AgentsDone, Cleaning, Tree, t
<1>10. Gentle
  BY <1>1, <1>4, <1>5, <1>6 DEF Gentle, Tree
<1>11. \A u \in Trees : ~Tree(u)'.branch => ~Tree(u).branch
  BY <1>4, <1>6 DEF Tree
<1>12. ASSUME NEW u \in Trees, ~Tree(u)'.dir
       PROVE  \/ ~Tree(u).dir
              \/ ~Tree(u)'.dirty /\ u \in disk'.merged /\ Rescued(u)'
  <2>1. CASE u = t
    BY <1>4, <1>5, <1>6, <1>8, <2>1 DEF Tree
  <2>2. CASE u # t
    BY <1>6, <1>12, <2>2 DEF Tree
  <2>3. QED
    BY <2>1, <2>2
<1>13. QED
  BY <1>3, <1>7, <1>9, <1>10, <1>11, <1>12, GentleStep

\* One that cannot be removed ends the cleanup.
LEMMA RemoveSafe ==
  ASSUME Wave \in Seq(Trees), Wave # <<>>, SafeInv, NEW p \in Procs, Remove(p)
  PROVE  SafeInv'
<1>1. CASE disk' = [disk EXCEPT !.tree[Now(p)].dir = FALSE] /\ GoesTo(p, "delete") /\ UNCHANGED past
  BY <1>1, RemovedSafe DEF Remove
<1>2. CASE Blocked(p, "worktree_remove_failed") /\ UNCHANGED disk
  BY <1>2, BlockedSafe DEF Blocks
<1>3. QED
  BY <1>1, <1>2 DEF Remove

\* A branch is deleted once it is merged, and the next entry begins.
LEMMA DeleteBranchSafe ==
  ASSUME Wave \in Seq(Trees), Wave # <<>>, SafeInv, NEW p \in Procs, DeleteBranch(p)
  PROVE  SafeInv'
<1> DEFINE t == Now(p)
<1> DEFINE to == [disk.tree[t] EXCEPT !.branch = FALSE]
<1> DEFINE next == [procs[p] EXCEPT !.at = "check", !.i = procs[p].i + 1]
<1> DEFINE q == IF procs[p].i = Len(Wave) THEN Idle ELSE next
<1>1. procs[p].at = "delete" /\ past' = past /\ t \in Trees /\ disk.tree[t] \in TreeType
  BY NowIsTree DEF DeleteBranch, At, SafeInv, Typed, DiskType
<1>2. (disk' = [disk EXCEPT !.tree[t] = to] \/ disk' = disk) /\ procs' = [procs EXCEPT ![p] = q]
  BY DEF DeleteBranch
<1>3. q \in ProcType /\ q.at \in {"idle", "check"}
  <2>1. procs[p].i # Len(Wave) => procs[p].i + 1 \in 1..Len(Wave)
    BY DEF SafeInv, Typed, ProcType
  <2>2. procs[p].i # Len(Wave) => next \in ProcType /\ next.at = "check"
    BY <2>1 DEF SafeInv, Typed, ProcType
  <2>3. QED
    BY <2>2, IdleTyped
<1>4. /\ to \in TreeType /\ to.agent = disk.tree[t].agent /\ to.dirty = disk.tree[t].dirty
      /\ to.summary = disk.tree[t].summary /\ to.dir = disk.tree[t].dir
  BY <1>1 DEF TreeType
<1>5. t \in disk.merged /\ \A u \in Trees : disk.tree[u].agent # "running"
  BY <1>1 DEF SafeInv, MergedFirst, AgentsDone, Cleaning, Tree
<1> HIDE DEF t, to, q
<1>6. /\ disk' \in DiskType
      /\ \A u \in Trees : disk'.tree[u] = disk.tree[u] \/ (u = t /\ disk'.tree[u] = to)
      /\ disk'.merged = disk.merged /\ disk'.copies = disk.copies
  <2>1. CASE disk' = [disk EXCEPT !.tree[t] = to]
    BY <1>1, <1>4, <2>1, TreeChange DEF SafeInv, Typed
  <2>2. CASE disk' = disk
    BY <2>2 DEF SafeInv, Typed
  <2>3. QED
    BY <1>2, <2>1, <2>2
<1>7. \A u \in Trees : /\ disk'.tree[u] = disk.tree[u] \/ (u = t /\ disk'.tree[u] = to)
                       /\ Rescued(u) <=> Rescued(u)'
  BY <1>4, <1>6 DEF Rescued, Tree
<1>8. Typed' /\ procs'[p] = q
  BY <1>1, <1>2, <1>3, <1>6 DEF SafeInv, Typed
<1>9. AtWork(p)'
  BY <1>3, <1>4, <1>5, <1>7, <1>8 DEF AtWork, Tree
<1>10. Gentle
  BY <1>1, <1>4, <1>6, <1>7 DEF Gentle, Tree
<1>11. /\ \A u \in Trees : ~Tree(u)'.branch => ~Tree(u).branch \/ u \in disk'.merged
       /\ \A u \in Trees : ~Tree(u)'.dir => ~Tree(u).dir
  BY <1>4, <1>5, <1>6, <1>7 DEF Tree
<1>12. QED
  BY <1>2, <1>3, <1>8, <1>9, <1>10, <1>11, GentleStep

\* reap-orphans takes a worktree away only on its own account.
LEMMA ReapSafe ==
  ASSUME Wave \in Seq(Trees), SafeInv, NEW p \in Procs, Reap(p)
  PROVE  SafeInv'
<1>1. PICK t \in procs[p].todo :
        /\ procs' = [procs EXCEPT ![p].todo = @ \ {t}]
        /\ \/ /\ disk' = [disk EXCEPT !.tree[t].dir = FALSE]
              /\ past' = [past EXCEPT !.reaped = @ \cup {t}]
           \/ UNCHANGED <<disk, past>>
  BY DEF Reap
<1> DEFINE q == [procs[p] EXCEPT !.todo = @ \ {t}]
<1> DEFINE to == [disk.tree[t] EXCEPT !.dir = FALSE]
<1>2. procs[p].at = "reap" /\ t \in Trees /\ disk.tree[t] \in TreeType
  BY DEF Reap, At, SafeInv, Typed, ProcType, DiskType
<1>3. q \in ProcType /\ q.at = "reap" /\ procs' = [procs EXCEPT ![p] = q]
  BY <1>1, <1>2 DEF SafeInv, Typed, ProcType
<1>4. CASE UNCHANGED <<disk, past>>
  <2>1. past' \in PastType
    BY <1>4 DEF SafeInv, Typed
  <2>2. q.at \notin Cleaning
    BY <1>3 DEF Cleaning
  <2> HIDE DEF q
  <2>3. QED
    BY <1>3, <1>4, <2>1, <2>2, LeavesSafe
<1>5. CASE /\ disk' = [disk EXCEPT !.tree[t].dir = FALSE]
           /\ past' = [past EXCEPT !.reaped = @ \cup {t}]
  <2>1. disk' = [disk EXCEPT !.tree[t] = to] /\ past' = [past EXCEPT !.reaped = @ \cup {t}]
    BY <1>5
  <2>2. /\ to \in TreeType /\ to.agent = disk.tree[t].agent /\ to.dirty = disk.tree[t].dirty
        /\ to.summary = disk.tree[t].summary /\ to.branch = disk.tree[t].branch /\ ~to.dir
    BY <1>2 DEF TreeType
  <2> HIDE DEF q, to
  <2>3. past' \in PastType /\ past'.reaped = past.reaped \cup {t}
    BY <1>2, <2>1 DEF SafeInv, Typed, PastType
  <2>4. /\ disk' \in DiskType /\ \A u \in Trees : disk'.tree[u] = IF u = t THEN to ELSE disk.tree[u]
        /\ disk'.merged = disk.merged /\ disk'.copies = disk.copies
    BY <1>2, <2>1, <2>2, TreeChange DEF SafeInv, Typed
  <2>5. \A u \in Trees : /\ disk'.tree[u] = IF u = t THEN to ELSE disk.tree[u]
                         /\ Rescued(u) <=> Rescued(u)'
    BY <2>2, <2>4 DEF Rescued, Tree
  <2>6. Typed' /\ procs'[p].at = "reap"
    BY <1>3, <2>3, <2>4 DEF SafeInv, Typed
  <2>7. AtWork(p)'
    BY <2>6 DEF AtWork, Cleaning
  <2>8. Gentle
    BY <1>2, <2>2, <2>3, <2>4, <2>5 DEF Gentle, Tree
  <2>9. /\ \A u \in Trees : ~Tree(u)'.branch => ~Tree(u).branch
        /\ \A u \in Trees : ~Tree(u)'.dir => ~Tree(u).dir \/ u \in past'.reaped
    BY <2>2, <2>3, <2>5 DEF Tree
  <2>10. QED
    BY <1>3, <2>6, <2>7, <2>8, <2>9, GentleStep
<1>6. QED
  BY <1>1, <1>4, <1>5

\* The orchestrator concludes merges, clears copies of committed summaries and commits what was left.
LEMMA ResolveSafe ==
  ASSUME Wave \in Seq(Trees), SafeInv, NEW p \in Procs, Resolve(p)
  PROVE  SafeInv'
<1>1. procs[p].at = "idle" /\ UNCHANGED <<procs, past>> /\ procs[p] \in ProcType
      /\ procs' = [procs EXCEPT ![p] = procs[p]]
  BY DEF Resolve, InCharge, At, SafeInv, Typed
<1>2. AtWork(p)'
  BY <1>1 DEF AtWork, Cleaning
<1>3. PICK b \in past.blocked :
        LET t == b.tree
        IN  \/ /\ t \in disk.merging
               /\ disk' = [disk EXCEPT !.merging = {}, !.merged = @ \cup {t}]
            \/ /\ b.why = "merge_failed" /\ t \in disk.copies /\ Tree(t).summary = "committed"
               /\ disk' = [disk EXCEPT !.copies = @ \ {t}]
            \/ /\ b.why = "worktree_dirty" /\ Tree(t).dirty /\ Tree(t).dir
               /\ disk' = [disk EXCEPT !.tree[t].dirty = FALSE, !.tree[t].commits = TRUE]
  BY DEF Resolve
<1> DEFINE t == b.tree
<1>4. t \in Trees /\ disk.tree[t] \in TreeType
  BY DEF SafeInv, Typed, PastType, DiskType
<1> HIDE DEF t
<1>5. CASE t \in disk.merging /\ disk' = [disk EXCEPT !.merging = {}, !.merged = @ \cup {t}]
  <2>1. /\ disk' \in DiskType /\ disk'.tree = disk.tree /\ disk'.copies = disk.copies
        /\ disk'.merged = disk.merged \cup {t}
    BY <1>4, <1>5 DEF SafeInv, Typed, DiskType
  <2>2. Typed' /\ Gentle
    BY <1>1, <2>1 DEF SafeInv, Typed, Gentle, Tree, Rescued
  <2>3. QED
    BY <1>1, <1>2, <2>1, <2>2, GentleStep DEF Tree
<1>6. CASE Tree(t).summary = "committed" /\ disk' = [disk EXCEPT !.copies = @ \ {t}]
  <2>1. /\ disk' \in DiskType /\ disk'.tree = disk.tree /\ disk'.merged = disk.merged
        /\ disk'.copies = disk.copies \ {t}
    BY <1>4, <1>6 DEF SafeInv, Typed, DiskType
  <2>2. Typed' /\ Gentle
    BY <1>1, <1>6, <2>1 DEF SafeInv, Typed, Gentle, Tree, Rescued
  <2>3. QED
    BY <1>1, <1>2, <2>1, <2>2, GentleStep DEF Tree
<1>7. CASE disk' = [disk EXCEPT !.tree[t].dirty = FALSE, !.tree[t].commits = TRUE]
  <2> DEFINE to == [disk.tree[t] EXCEPT !.dirty = FALSE, !.commits = TRUE]
  <2>1. disk' = [disk EXCEPT !.tree[t] = to]
    BY <1>4, <1>7 DEF SafeInv, Typed, DiskType
  <2>2. /\ to \in TreeType /\ to.agent = disk.tree[t].agent /\ to.dir = disk.tree[t].dir /\ ~to.dirty
        /\ to.summary = disk.tree[t].summary /\ to.branch = disk.tree[t].branch
    BY <1>4 DEF TreeType
  <2> HIDE DEF to
  <2>3. /\ disk' \in DiskType /\ \A u \in Trees : disk'.tree[u] = IF u = t THEN to ELSE disk.tree[u]
        /\ disk'.merged = disk.merged /\ disk'.copies = disk.copies
    BY <1>4, <2>1, <2>2, TreeChange DEF SafeInv, Typed
  <2>4. \A u \in Trees : /\ disk'.tree[u] = IF u = t THEN to ELSE disk.tree[u]
                         /\ Rescued(u) <=> Rescued(u)'
    BY <2>2, <2>3 DEF Rescued, Tree
  <2>5. Typed' /\ Gentle
    BY <1>1, <2>2, <2>3, <2>4 DEF SafeInv, Typed, Gentle, Tree
  <2>6. \A u \in Trees : (~Tree(u)'.branch => ~Tree(u).branch) /\ (~Tree(u)'.dir => ~Tree(u).dir)
    BY <2>2, <2>4 DEF Tree
  <2>7. QED
    BY <1>1, <1>2, <2>5, <2>6, GentleStep
<1>8. QED
  BY <1>3, <1>5, <1>6, <1>7 DEF t

\* A session begins, or begins or ends a reaping.
LEMMA SessionsSafe ==
  ASSUME Wave \in Seq(Trees), Wave # <<>>, SafeInv, NEW p \in Procs, Begins(p) \/ StartReap(p) \/ EndReap(p)
  PROVE  SafeInv'
<1> USE DEF SafeInv, Typed
<1>1. CASE Begins(p)
  <2> DEFINE q == [procs[p] EXCEPT !.at = "idle"]
  <2>1. q \in ProcType /\ q.at \notin Cleaning
    BY DEF ProcType, Cleaning
  <2>2. procs' = [procs EXCEPT ![p] = q]
    BY <1>1 DEF Begins, GoesTo
  <2> HIDE DEF q
  <2>3. QED
    BY <1>1, <2>1, <2>2, LeavesSafe DEF Begins
<1>2. CASE StartReap(p)
  <2> DEFINE tip == IF env.remote THEN {} ELSE disk.merged
  <2> DEFINE q == [procs[p] EXCEPT !.at = "reap", !.todo = Trees, !.tip = tip]
  <2>1. tip \in SUBSET Trees
    BY DEF DiskType
  <2>2. procs' = [procs EXCEPT ![p] = q]
    BY <1>2 DEF StartReap
  <2> HIDE DEF tip
  <2>3. q \in ProcType /\ q.at \notin Cleaning
    BY <2>1 DEF ProcType, Cleaning
  <2> HIDE DEF q
  <2>4. QED
    BY <1>2, <2>2, <2>3, LeavesSafe DEF StartReap
<1>3. CASE EndReap(p)
  <2>1. Idle \in ProcType /\ Idle.at \notin Cleaning
    BY IdleTyped DEF Cleaning
  <2>2. QED
    BY <1>3, <2>1, LeavesSafe DEF EndReap
<1>4. QED
  BY <1>1, <1>2, <1>3

\* The wave begins with its worktrees fresh and its owner idle.
LEMMA InitSafe ==
  ASSUME Wave \in Seq(Trees), Wave # <<>>, NEW e, InitIn(e)
  PROVE  SafeInv
<1>1. Fresh \in TreeType /\ Fresh.dir /\ Fresh.branch
  BY DEF Fresh, TreeType, Wrote
<1>2. /\ disk \in DiskType /\ \A t \in Trees : disk.tree[t] = Fresh
  BY <1>1 DEF InitIn, DiskType
<1>3. \A p \in Procs : procs[p] \in ProcType /\ procs[p].at \in {"idle", "unborn"}
  <2>1. \A p \in Procs : procs[p] = [Idle EXCEPT !.at = IF p = Owner THEN "idle" ELSE "unborn"]
    BY DEF InitIn
  <2>2. \A at \in {"idle", "unborn"} : [Idle EXCEPT !.at = at] \in ProcType /\ [Idle EXCEPT !.at = at].at = at
    BY IdleTyped DEF Idle
  <2>3. QED
    BY <2>1, <2>2
<1>4. Typed
  <2>1. procs \in [Procs -> ProcType]
    BY <1>3 DEF InitIn
  <2>2. QED
    BY <1>2, <2>1 DEF InitIn, Typed, PastType
<1>5. AgentsDone /\ MergedFirst /\ RescuedFirst
  BY <1>3 DEF AgentsDone, MergedFirst, RescuedFirst, Cleaning
<1>6. GoneIsSafe
  BY <1>1, <1>2 DEF GoneIsSafe, Tree
<1>7. QED
  BY <1>4, <1>5, <1>6 DEF SafeInv

\* Every step of agents and sessions preserves the invariant.
LEMMA NextSafe ==
  ASSUME Wave \in Seq(Trees), Wave # <<>>, SafeInv, [Next]_vars
  PROVE  SafeInv'
<1>1. CASE UNCHANGED vars
  BY <1>1 DEF vars, SafeInv, Typed, AgentsDone, MergedFirst, RescuedFirst, GoneIsSafe, Rescued, Tree, Now
<1>2. ASSUME NEW t \in Trees,
             Edit(t) \/ Commit(t) \/ Summarise(t) \/ CommitSummary(t) \/ Return(t) \/ Ages(t)
      PROVE  SafeInv'
  BY <1>2, AgentsSafe, AgesSafe
<1>3. ASSUME NEW p \in Procs,
             Dies(p) \/ Begins(p) \/ Cleanup(p) \/ StartReap(p) \/ Reap(p) \/ EndReap(p)
      PROVE  SafeInv'
  <2>1. CASE Dies(p) \/ Begins(p) \/ StartReap(p) \/ Reap(p) \/ EndReap(p)
    BY <2>1, DiesSafe, SessionsSafe, ReapSafe
  <2>2. CASE Cleanup(p)
    BY <2>2, StartCleanupSafe, CheckSafe, RescueSafe, CheckDirtySafe, MergeSafe, RemoveSafe,
       DeleteBranchSafe, ResolveSafe DEF Cleanup
  <2>3. QED
    BY <1>3, <2>1, <2>2
<1>4. QED
  BY <1>1, <1>2, <1>3 DEF Next

\* What the invariant is for.
LEMMA SafeKeeps ==
  ASSUME SafeInv
  PROVE  CommitsKept /\ SummariesKept
<1>1. CommitsKept
  BY DEF SafeInv, GoneIsSafe, CommitsKept, Merged
<1>2. SummariesKept
  BY DEF SafeInv, GoneIsSafe, SummariesKept, Rescued, Merged
<1>3. QED
  BY <1>1, <1>2

\* Whatever sessions die, clash, reap or clean up at once, what an agent committed stays on its
\* branch until it is in the main tree, and a worktree that a cleanup removed was clean, its summary
\* merged or copied: cmdWorktreeCleanupWave for any manifest and any number of sessions.
THEOREM WorkSurvives ==
  ASSUME Wave \in Seq(Trees), Wave # <<>>, NEW e
  PROVE  RunIn(e) => [](CommitsKept /\ SummariesKept)
<1>1. InitIn(e) => SafeInv
  BY InitSafe
<1>2. SafeInv /\ [Next]_vars => SafeInv'
  BY NextSafe
<1>3. SafeInv => CommitsKept /\ SummariesKept
  BY SafeKeeps
<1>4. QED
  BY <1>1, <1>2, <1>3, PTL DEF RunIn

=============================================================================
