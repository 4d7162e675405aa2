------------------------------- MODULE FactGate -------------------------------
(***************************************************************************)
(* The hooks that stand before a tool call (scripts/hooks/run-with-flags,  *)
(* gateguard-fact-force, config-protection).  The gate refuses the first   *)
(* change of a file and the first command of its kind, asks for facts, and *)
(* lets the retry through; what it asked for is kept in a file per session *)
(* that forgets after a time without activity.  A call is one process, and *)
(* calls of one session may overlap.                                       *)
(***************************************************************************)
EXTENDS Integers, FiniteSets, SequencesExt

CONSTANTS Procs, FileKeys, CommandKeys,
          Routine,      \* the key of every ordinary command
          Exempt,       \* files the gate never asks about
          Protected,    \* files no call may change
          MaxChecked, MaxSession, Timeout, Heartbeat

VARIABLES
  env,    \* the calls, the flags, and how much may happen
  disk,   \* the clock and the file of each session
  procs,  \* what each hook is doing
  past    \* what was asked and answered

vars == <<env, disk, procs, past>>

Gone == [there |-> FALSE, checked |-> <<>>, active |-> 0]
Idle == [at |-> "idle", session |-> "none", keys |-> <<>>, checked |-> <<>>, hook |-> "none",
         asked |-> {}]
Ended == {"idle", "allowed", "denied", "blocked", "killed"}
At(p, at) == procs[p].at = at
GoesTo(p, at) == procs' = [procs EXCEPT ![p].at = at]
Key(p) == Head(procs[p].keys)
Alone == Cardinality(env.procs) = 1

\* Characters a file name cannot hold are replaced, so two sessions may share
\* a file; without an id the transcript or the project names it.
StateFile(s) == env.file[s]
File(p) == disk.files[StateFile(procs[p].session)]

-----------------------------------------------------------------------------
(* What is kept.                                                            *)

Expired(f) == f.there /\ disk.clock - f.active > Timeout

\* What the file says, or nothing when it is missing or has expired.
Loaded(p) == IF File(p).there /\ ~Expired(File(p)) THEN File(p).checked ELSE <<>>

\* Loading an expired file removes it.
AfterLoad(p) == IF Expired(File(p)) THEN Gone ELSE File(p)

Latest(seq, n) == IF Len(seq) <= n THEN seq ELSE SubSeq(seq, Len(seq) - n + 1, Len(seq))

\* Mutant: a full file keeps the oldest entries.
OldestEntries(checked) == IF Len(checked) <= MaxChecked THEN checked ELSE SubSeq(checked, 1, MaxChecked)

\* The key of ordinary commands stays, then the latest of the other commands,
\* then the latest files.
PruneCheckedEntries(checked) ==
  LET preserved == IF Contains(checked, Routine) THEN <<Routine>> ELSE <<>>
      commands == Latest(SelectSeq(checked, LAMBDA k : k \in CommandKeys),
                         MaxSession - Len(preserved))
      files == Latest(SelectSeq(checked, LAMBDA k : k \in FileKeys),
                      MaxChecked - Len(preserved) - Len(commands))
  IN  IF Len(checked) <= MaxChecked THEN checked ELSE preserved \o commands \o files

\* A file that was not written for twice the time is removed by any hook.
Pruned(files) ==
  [f \in DOMAIN files |->
     IF files[f].there /\ disk.clock - files[f].active > 2 * Timeout THEN Gone ELSE files[f]]

-----------------------------------------------------------------------------
(* One call.                                                                *)

\* A hook runs unless it is switched off or its profile is not the one in use.
HookEnabled(h) == h \notin env.disabled /\ env.profile \in env.profiles[h]

\* Too much input, or a protected file, is refused.
ConfigProtection(c) == c.truncated \/ \E k \in ToSet(c.keys) : k \in Protected

\* Mutant: only the first file of an edit of several is gated.
GatesFirstFile(c) ==
  IF c.readOnly \/ c.keys = <<>> \/ Head(c.keys) \in Exempt THEN <<>> ELSE <<Head(c.keys)>>

\* A command that only reads the repository passes; settings are never gated.
GatedKeys(c) == IF c.readOnly THEN <<>> ELSE SelectSeq(c.keys, LAMBDA k : k \notin Exempt)

\* A hook the dispatcher starts, its file of the session found and old files
\* removed.  Without keys, with input that was cut off and so is no longer
\* JSON, or switched off, it lets the call through.
Begin(p) ==
  /\ p \in env.procs /\ procs[p].at \in Ended /\ past.starts < env.starts
  /\ \E s \in env.sessions, c \in env.calls, h \in {"gate", "protection"} :
       LET keys == GatedKeys(c)
           passes == ~HookEnabled(h) \/ (h = "gate" /\ (keys = <<>> \/ c.truncated))
       IN  /\ procs' = [procs EXCEPT ![p] =
                [Idle EXCEPT !.session = s, !.hook = h, !.keys = IF h = "gate" THEN keys ELSE c.keys,
                   !.at = IF passes THEN "allowed"
                          ELSE IF h = "gate" THEN "check"
                          ELSE IF ConfigProtection(c) THEN "blocked" ELSE "allowed",
                   !.asked = IF passes \/ h # "gate" THEN {} ELSE ToSet(c.keys) \ Exempt]]
           /\ disk' = IF h = "gate" /\ HookEnabled(h) THEN [disk EXCEPT !.files = Pruned(@)] ELSE disk
  /\ past' = [past EXCEPT !.starts = @ + 1]
  /\ UNCHANGED env

\* Mutant: activity that finds its key leaves the file as it is.
NoHeartbeat(p) ==
  /\ At(p, "check")
  /\ disk' = [disk EXCEPT !.files[StateFile(procs[p].session)] = AfterLoad(p)]
  /\ IF ~Contains(Loaded(p), Key(p)) THEN GoesTo(p, "mark")
     ELSE procs' = [procs EXCEPT ![p].keys = Tail(@),
                                 ![p].at = IF Len(procs[p].keys) = 1 THEN "allowed" ELSE "check"]
  /\ past' = [past EXCEPT !.last[StateFile(procs[p].session)] = disk.clock]
  /\ UNCHANGED env

\* A key that is there lets the next one be looked up; it also renews a file
\* that was not written for a while.
Check(p) ==
  LET found == Contains(Loaded(p), Key(p))
      stale == disk.clock - AfterLoad(p).active > Heartbeat
      next == IF Len(procs[p].keys) = 1 THEN "allowed" ELSE "check"
  IN  /\ At(p, "check")
      /\ disk' = [disk EXCEPT !.files[StateFile(procs[p].session)] = AfterLoad(p)]
      /\ procs' = [procs EXCEPT
           ![p].checked = Loaded(p),
           ![p].keys = IF found /\ ~stale THEN Tail(@) ELSE @,
           ![p].at = IF ~found THEN "mark" ELSE IF stale THEN "renew" ELSE next]
      /\ past' = [past EXCEPT !.last[StateFile(procs[p].session)] = disk.clock]
      /\ UNCHANGED env

\* The file is loaded again before the key is added.
Mark(p) ==
  /\ At(p, "mark")
  /\ disk' = [disk EXCEPT !.files[StateFile(procs[p].session)] = AfterLoad(p)]
  /\ procs' = [procs EXCEPT ![p].checked = Append(Loaded(p), Key(p)),
                            ![p].at = IF Contains(Loaded(p), Key(p)) THEN "deny" ELSE "save"]
  /\ UNCHANGED <<env, past>>

\* The contents are replaced as a whole; that it failed is not noticed.
Written(p) ==
  LET f == StateFile(procs[p].session)
  IN  \/ disk' = [disk EXCEPT !.files[f] = [there |-> TRUE, active |-> disk.clock,
                                            checked |-> PruneCheckedEntries(procs[p].checked)]]
         /\ past' = [past EXCEPT !.marked[f] = @ \cup ToSet(procs[p].checked)]
      \/ past.faults < env.faults /\ past' = [past EXCEPT !.faults = @ + 1] /\ UNCHANGED disk

Save(p) ==
  /\ At(p, "save") /\ Written(p) /\ GoesTo(p, "deny")
  /\ UNCHANGED env

Renew(p) ==
  /\ At(p, "renew") /\ Written(p)
  /\ procs' = [procs EXCEPT ![p].keys = Tail(@),
                            ![p].at = IF Len(procs[p].keys) = 1 THEN "allowed" ELSE "check"]
  /\ UNCHANGED env

Deny(p) ==
  /\ At(p, "deny") /\ GoesTo(p, "denied")
  /\ LET f == StateFile(procs[p].session)
     IN  past' = [past EXCEPT !.denied[f] = Append(@, [key |-> Key(p), lost |-> past.lost[f]])]
  /\ UNCHANGED <<env, disk>>

\* Time goes by between the hooks, each of which takes a fraction of a tick; a
\* session whose last look is long ago may be forgotten.
Tick ==
  /\ disk.clock < env.clock /\ \A p \in Procs : procs[p].at \in Ended
  /\ disk' = [disk EXCEPT !.clock = @ + 1]
  /\ past' = [past EXCEPT !.lost = [f \in DOMAIN @ |->
                IF disk'.clock - past.last[f] > Timeout - Heartbeat THEN @[f] + 1 ELSE @[f]]]
  /\ UNCHANGED <<env, procs>>

\* The tool gives a hook up; a call whose hook gave no answer goes ahead.
Kill(p) ==
  /\ procs[p].at \notin Ended /\ past.kills < env.kills
  /\ past' = [past EXCEPT !.kills = @ + 1]
  /\ GoesTo(p, "killed") /\ UNCHANGED <<env, disk>>

-----------------------------------------------------------------------------
InitIn(e) ==
  /\ env = e
  /\ disk = [clock |-> 0,
             files |-> [f \in {e.file[s] : s \in e.sessions} |->
                          IF e.checked = <<>> THEN Gone
                          ELSE [there |-> TRUE, checked |-> e.checked, active |-> 0]]]
  /\ procs = [p \in Procs |-> Idle]
  /\ LET files == {e.file[s] : s \in e.sessions}
     IN  past = [starts |-> 0, faults |-> 0, kills |-> 0,
                 denied |-> [f \in files |-> <<>>], marked |-> [f \in files |-> ToSet(e.checked)],
                 last |-> [f \in files |-> 0], lost |-> [f \in files |-> 0]]

Next ==
  \/ \E p \in Procs : Begin(p) \/ Check(p) \/ Mark(p) \/ Save(p) \/ Renew(p) \/ Deny(p) \/ Kill(p)
  \/ Tick

-----------------------------------------------------------------------------
(* Properties.                                                              *)

TypeOK ==
  /\ disk.clock \in Nat
  /\ \A f \in DOMAIN disk.files : ToSet(disk.files[f].checked) \subseteq FileKeys \cup CommandKeys \cup {Routine}
  /\ \A p \in Procs : ToSet(procs[p].keys) \subseteq FileKeys \cup CommandKeys \cup {Routine}

(* A call that the gate let through was asked for the facts of each file it *)
(* changes: a refusal was given for it or, when hooks overlap, is about to  *)
(* be; and a protected file is not changed where the protection runs.       *)
AskedFirst ==
  \A p \in Procs : At(p, "allowed") =>
    LET f == StateFile(procs[p].session)
    IN  /\ past.kills = 0 => \A k \in procs[p].asked :
             \/ k \in ToSet(env.checked)
             \/ \E i \in DOMAIN past.denied[f] : past.denied[f][i].key = k
             \/ \E q \in Procs : /\ At(q, "deny") /\ Key(q) = k
                                 /\ StateFile(procs[q].session) = f
        /\ procs[p].hook = "protection" /\ HookEnabled("protection") =>
             \A k \in ToSet(procs[p].keys) : k \notin Protected

(* The retry of a refused call passes: nothing is asked twice of a session  *)
(* that was never without activity for the time it forgets in, less the    *)
(* heartbeat, unless a write failed, hooks overlapped or the file was full. *)
RetryPasses ==
  Alone /\ past.faults = 0 /\ past.kills = 0 =>
    \A f \in DOMAIN past.denied : \A i, j \in DOMAIN past.denied[f] :
      LET a == past.denied[f][i]  b == past.denied[f][j]
      IN  i < j /\ a.key = b.key /\ a.lost = b.lost =>
            Cardinality(past.marked[f]) > MaxChecked

(* The file stays within its size, and when it is full it still holds the   *)
(* key of ordinary commands and the key that was added last.                *)
FullKeepsLatest ==
  \A f \in DOMAIN disk.files :
    /\ Len(disk.files[f].checked) <= MaxChecked
    /\ \A p \in Procs :
         At(p, "deny") /\ StateFile(procs[p].session) = f /\ Alone /\ past.faults = 0 =>
           /\ Contains(disk.files[f].checked, Key(p)) \/ Expired(disk.files[f])
           /\ Contains(procs[p].checked, Routine) =>
                Contains(disk.files[f].checked, Routine) \/ Expired(disk.files[f])
=============================================================================
