------------------------------ MODULE McpHealth ------------------------------
(***************************************************************************)
(* The hook that keeps calls away from tool servers that do not answer     *)
(* (scripts/hooks/mcp-health-check.js).  A hook is a process of its own:   *)
(* one before each call, one after each failed call, and several of them   *)
(* at a time.  They share a file with the verdict on every server, which   *)
(* each reads as a whole, probes its own server for some seconds, and then *)
(* writes as a whole, in place and without a lock.                         *)
(***************************************************************************)
EXTENDS Integers, Sequences

CONSTANTS Procs, Servers,
          Ttl,     \* how long a good verdict lasts
          Base,    \* the wait after a first failure
          MaxWait  \* the longest wait

VARIABLES
  env,    \* configuration files, inputs, and how much may happen
  disk,   \* the verdicts on file, the time, and how the servers really are
  procs,  \* what each hook is doing
  past    \* what the hooks found out, whatever the file says of it

vars == <<env, disk, procs, past>>

None == "none"
Conditions == {"ok", "gated", "busy", "down"}
Unknown == [status |-> "unknown", expires |-> 0, count |-> 0, retry |-> 0]
Empty == [s \in Servers |-> Unknown]
Idle == [at |-> "idle", event |-> "pre", server |-> None, now |-> 0, saw |-> Empty, new |-> Empty,
         then |-> "done"]
Ended == {"idle", "passed", "skipped", "refused", "done", "killed"}
At(p, at) == procs[p].at = at
GoesTo(p, at) == procs' = [procs EXCEPT ![p].at = at]
Lesser(a, b) == IF a < b THEN a ELSE b

-----------------------------------------------------------------------------
(* What a hook is asked about and what it finds.                            *)

\* A server that is named outright, or that the tool's name begins with.
Target(i) == IF i.explicit # None THEN i.explicit ELSE i.named

\* The first configuration file with an entry of the server that is an object.
Resolved(s) ==
  LET having == {k \in DOMAIN env.configs : env.configs[k][s] \notin {None, "text"}}
  IN  IF having = {} THEN None
      ELSE env.configs[CHOOSE k \in having : \A l \in having : k <= l][s]

\* A server that wants to know who asks, or that finds the request wrong, answers.
HttpAnswer(condition) ==
  [ok |-> condition \in {"ok", "gated"}, code |-> condition = "busy"]

\* A process that is still there when the time is over is a server that runs.
CommandAnswer(condition) == [ok |-> condition # "down", code |-> FALSE]

\* An entry with neither an address nor a command fails.
Answer(s) ==
  CASE Resolved(s) = "http" -> HttpAnswer(disk.real[s])
    [] Resolved(s) = "command" -> CommandAnswer(disk.real[s])
    [] OTHER -> [ok |-> FALSE, code |-> FALSE]

-----------------------------------------------------------------------------
(* The verdicts.                                                            *)

Loaded == IF disk.torn THEN Empty ELSE disk.file

MarkHealthy(file, s, now) ==
  [file EXCEPT ![s] = [status |-> "healthy", expires |-> now + Ttl, count |-> 0, retry |-> now]]

RECURSIVE Power(_)
Power(n) == IF n = 0 THEN 1 ELSE 2 * Power(n - 1)

\* Mutant: a server that fails for the second time waits as long as after the first.
SlowUnhealthy(file, s, now) ==
  LET count == file[s].count + 1
      exponent == IF count > 2 THEN count - 2 ELSE 0
  IN  [file EXCEPT ![s] = [status |-> "unhealthy", expires |-> now, count |-> count,
                           retry |-> now + Lesser(Base * Power(exponent), MaxWait)]]

MarkUnhealthy(file, s, now) ==
  LET count == file[s].count + 1
  IN  [file EXCEPT ![s] = [status |-> "unhealthy", expires |-> now, count |-> count,
                           retry |-> now + Lesser(Base * Power(count - 1), MaxWait)]]

Found(s, ok, now) ==
  IF ok
  THEN [past EXCEPT !.good[s] = IF now > @ THEN now ELSE @, !.wait[s] = 0, !.until[s] = 0]
  ELSE LET wait == IF past.wait[s] = 0 THEN Base ELSE Lesser(2 * past.wait[s], MaxWait)
       IN  [past EXCEPT !.bad[s] = IF now > @ THEN now ELSE @, !.wait[s] = Lesser(wait, MaxWait),
                        !.until[s] = now + Lesser(wait, MaxWait)]

\* A refusal of fail-open is a call that passes.
Refusal(why) == IF env.failOpen THEN "passed" ELSE why

-----------------------------------------------------------------------------
(* The hook before a call.                                                  *)

\* Input that was cut off is refused whatever the verdict, if it names a server.
Start(p) ==
  /\ At(p, "idle") /\ p \in env.hooks /\ past.starts < env.starts
  /\ \E i \in env.inputs :
       /\ past' = [past EXCEPT !.starts = @ + 1,
                               !.mixed = @ \/ \E q \in Procs : procs[q].at \notin Ended]
       /\ procs' = [procs EXCEPT ![p] =
            [Idle EXCEPT !.event = i.event, !.server = Target(i), !.now = disk.clock,
                         !.at = IF Target(i) = None THEN "done"
                                ELSE IF i.cut THEN Refusal("refused")
                                ELSE IF i.event = "pre" THEN "load"
                                ELSE IF i.code THEN "note" ELSE "done"]]
  /\ UNCHANGED <<env, disk>>

\* Mutant: a verdict lasts until the next failure.
ForGood(v, now) == v.status = "healthy"

Fresh(v, now) == v.status = "healthy" /\ v.expires > now

Waiting(v, now) == v.status = "unhealthy" /\ v.retry > now

Load(p) ==
  LET h == procs[p]
      v == Loaded[h.server]
  IN  /\ At(p, "load")
      /\ procs' = [procs EXCEPT ![p].saw = Loaded,
                     ![p].at = IF Fresh(v, h.now) THEN "passed"
                               ELSE IF Waiting(v, h.now) THEN IF env.failOpen THEN "done" ELSE "skipped"
                               ELSE IF Resolved(h.server) = None THEN "done" ELSE "probe"]
      /\ UNCHANGED <<env, disk, past>>

Save(p, new, then) == procs' = [procs EXCEPT ![p].at = "truncate", ![p].new = new, ![p].then = then]

\* Mutant: a failure without a code is not written down.
OnlyCodes(p, s, now) == IF Answer(s).code THEN Save(p, MarkUnhealthy(procs[p].saw, s, now), Refusal("skipped")) ELSE GoesTo(p, Refusal("skipped"))

Failed(p, s, now) == Save(p, MarkUnhealthy(procs[p].saw, s, now), Refusal("skipped"))

\* A server that gave a code, or failed before, may be brought back.
Probe(p) ==
  LET h == procs[p]
      a == Answer(h.server)
      retried == env.reconnects /\ (a.code \/ h.saw[h.server].status = "unhealthy")
  IN  /\ At(p, "probe")
      /\ \/ a.ok /\ Save(p, MarkHealthy(h.saw, h.server, h.now), "done")
         \/ ~a.ok /\ retried /\ GoesTo(p, "reconnect")
         \/ ~a.ok /\ ~retried /\ Failed(p, h.server, h.now)
      /\ past' = IF a.ok \/ ~retried THEN Found(h.server, a.ok, h.now) ELSE past
      /\ UNCHANGED <<env, disk>>

\* The command may bring the server back, do nothing, or fail.
Reconnect(p) ==
  LET h == procs[p]
  IN  /\ At(p, "reconnect")
      /\ \E back, ran \in BOOLEAN :
           /\ disk' = IF back THEN [disk EXCEPT !.real[h.server] = "ok"] ELSE disk
           /\ \/ ran /\ GoesTo(p, "reprobe") /\ UNCHANGED past
              \/ ~ran /\ h.event = "pre" /\ Failed(p, h.server, h.now)
                      /\ past' = Found(h.server, FALSE, h.now)
              \/ ~ran /\ h.event = "failure" /\ GoesTo(p, "done") /\ UNCHANGED past
      /\ UNCHANGED env

Reprobe(p) ==
  LET h == procs[p]
      a == Answer(h.server)
  IN  /\ At(p, "reprobe") /\ h.event = "pre"
      /\ \/ a.ok /\ Save(p, MarkHealthy(h.saw, h.server, h.now), "done")
         \/ ~a.ok /\ Failed(p, h.server, h.now)
      /\ past' = Found(h.server, a.ok, h.now)
      /\ UNCHANGED <<env, disk>>

-----------------------------------------------------------------------------
(* The hook after a failed call.                                            *)

Note(p) ==
  LET h == procs[p]
  IN  /\ At(p, "note")
      /\ Save(p, MarkUnhealthy(Loaded, h.server, h.now),
              IF env.reconnects THEN "reconnect" ELSE "done")
      /\ past' = Found(h.server, FALSE, h.now)
      /\ UNCHANGED <<env, disk>>

\* The verdicts are read again after the wait for the server.
AfterFailure(p) ==
  LET h == procs[p]
      ok == Resolved(h.server) # None /\ Answer(h.server).ok
  IN  /\ At(p, "reprobe") /\ h.event = "failure"
      /\ GoesTo(p, IF ok THEN "refresh" ELSE "done")
      /\ past' = IF ok THEN Found(h.server, TRUE, h.now) ELSE past
      /\ UNCHANGED <<env, disk>>

\* Mutant: the verdicts read before the wait are written.
Unrefreshed(p) ==
  /\ At(p, "refresh")
  /\ Save(p, MarkHealthy(Empty, procs[p].server, procs[p].now), "done")
  /\ UNCHANGED <<env, disk, past>>

Refresh(p) ==
  /\ At(p, "refresh")
  /\ Save(p, MarkHealthy(Loaded, procs[p].server, procs[p].now), "done")
  /\ UNCHANGED <<env, disk, past>>

-----------------------------------------------------------------------------
(* The file, the servers and the time.                                      *)

Truncate(p) ==
  /\ At(p, "truncate") /\ GoesTo(p, "write")
  /\ disk' = [disk EXCEPT !.torn = TRUE]
  /\ UNCHANGED <<env, past>>

Write(p) ==
  /\ At(p, "write")
  /\ procs' = [procs EXCEPT ![p].at = procs[p].then, ![p].saw = Empty, ![p].new = Empty]
  /\ disk' = [disk EXCEPT !.torn = FALSE, !.file = procs[p].new]
  /\ UNCHANGED <<env, past>>

Leaves(p) ==
  /\ procs[p].at \in Ended \ {"idle", "killed"}
  /\ procs' = [procs EXCEPT ![p] = Idle]
  /\ UNCHANGED <<env, disk, past>>

Kill(p) ==
  /\ env.kills /\ procs[p].at \notin Ended
  /\ GoesTo(p, "killed")
  /\ past' = [past EXCEPT !.mixed = TRUE]
  /\ UNCHANGED <<env, disk>>

Tick ==
  /\ disk.clock < env.horizon
  /\ disk' = [disk EXCEPT !.clock = @ + 1]
  /\ UNCHANGED <<env, procs, past>>

Change ==
  /\ past.changes < env.changes
  /\ \E s \in Servers, c \in env.conditions :
       c # disk.real[s] /\ disk' = [disk EXCEPT !.real[s] = c]
  /\ past' = [past EXCEPT !.changes = @ + 1]
  /\ UNCHANGED <<env, procs>>

Acts(p) ==
  \/ Start(p) \/ Load(p) \/ Probe(p) \/ Reconnect(p) \/ Reprobe(p) \/ Note(p) \/ AfterFailure(p)
  \/ Refresh(p) \/ Truncate(p) \/ Write(p) \/ Leaves(p) \/ Kill(p)

Next == Tick \/ Change \/ \E p \in Procs : Acts(p)

InitIn(e) ==
  /\ env = e
  /\ disk = [torn |-> FALSE, file |-> Empty, clock |-> 0, real |-> e.real]
  /\ procs = [p \in Procs |-> Idle]
  /\ past = [good |-> [s \in Servers |-> -Ttl], bad |-> [s \in Servers |-> -MaxWait],
             wait |-> [s \in Servers |-> 0], until |-> [s \in Servers |-> 0],
             mixed |-> FALSE, starts |-> 0, changes |-> 0]

-----------------------------------------------------------------------------
(* Properties.                                                              *)

Verdict == [status : {"unknown", "healthy", "unhealthy"}, expires : Nat, count : Nat, retry : Nat]

(* The file holds verdicts, and a hook is at one of its steps.              *)
TypeOK ==
  /\ \A s \in Servers : disk.file[s] \in Verdict /\ disk.real[s] \in Conditions
  /\ disk.clock \in 0..env.horizon /\ disk.torn \in BOOLEAN
  /\ \A p \in Procs : procs[p].at \in Ended \cup {"load", "probe", "reconnect", "reprobe", "note",
                                                  "refresh", "truncate", "write"}

(* A call passes without a probe only within the time that a probe which   *)
(* found the server well vouches for, and is kept back, while nobody wants *)
(* calls to pass regardless, only within the longest wait of a failure of  *)
(* that server: whatever else runs, and whatever is lost of the file       *)
(* (handlePreToolUse, markHealthy, markUnhealthy).                         *)
VerdictsAreRecent ==
  \A p \in Procs :
    LET h == procs[p]
    IN  /\ At(p, "passed") /\ ~env.failOpen => h.now < past.good[h.server] + Ttl
        /\ At(p, "skipped") => ~env.failOpen /\ h.now <= past.bad[h.server] + MaxWait
        /\ At(p, "refused") => ~env.failOpen

(* As long as hooks run one after the other and none dies, the file tells  *)
(* what they found: a server that failed is left alone for twice the time  *)
(* of the failure before it, up to the longest, by every hook of a call,   *)
(* and what is noted of another server stays (handlePreToolUse,            *)
(* handlePostToolUseFailure, saveState).                                   *)
BackOffKept ==
  past.mixed \/
    /\ \A p \in Procs :
         At(p, "probe") => procs[p].now >= past.until[procs[p].server]
    /\ (\A p \in Procs : procs[p].at \in Ended) =>
         \A s \in Servers : past.wait[s] > 0 <=> disk.file[s].status = "unhealthy"
=============================================================================
