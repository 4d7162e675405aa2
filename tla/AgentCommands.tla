---------------------------- MODULE AgentCommands ----------------------------
(***************************************************************************)
(* The command queue of one agent (backend/agents/services.py and          *)
(* views.py), the request handlers of the control plane that serve it, and *)
(* the daemon that polls it (backend/agent_daemon).                        *)
(*                                                                         *)
(* A request runs in one of the server's handlers.  Between two database   *)
(* statements of a request the other handlers run, unless the code holds   *)
(* the statements in transaction.atomic; each phase below is therefore one *)
(* statement, or one such block.  The daemon has one request outstanding   *)
(* at a time.  Its HTTP client gives up after 30 seconds while the handler *)
(* works on, which is how two requests of one agent come to overlap.       *)
(*                                                                         *)
(* Commands are numbered in the order of created_at.  A batch and a list   *)
(* of rows are sets: the order within them is the order of the numbers.    *)
(***************************************************************************)
EXTENDS Integers, Sequences, FiniteSets

CONSTANTS MaxCommands,    \* bound: commands ever enqueued
          Handlers,       \* the control plane's request processes
          NoHandler,      \* what the daemon waits for when it waits for nobody
          PollInterval,   \* Agent.poll_interval_seconds, in clock ticks
          MaxKills        \* bound: handlers killed in mid-request

ASSUME ConstantsAssumption ==
  /\ MaxCommands \in Nat
  /\ PollInterval \in Nat
  /\ MaxKills \in Nat
  /\ Handlers # {} /\ NoHandler \notin Handlers

NoCommand == 0

Commands == 1..MaxCommands
Outcomes == {"acked", "failed"}
Statuses == {"absent", "pending", "dispatched"} \cup Outcomes
Terminal == Outcomes

ExpireAfter == 2 * PollInterval
\* Ages are counted up to the first value that is past the cutoff.
Ages == 0..(ExpireAfter + 1)

PollPhases == {"expire", "read", "update", "reply"}
AckPhases == {"ack_get", "ack_commit", "ack_reply"}

VARIABLES
  status,     \* AgentCommand.state of each command
  result,     \* the outcome AgentCommand.result reports, "none" while {}
  age,        \* ticks since dispatched_at of a DISPATCHED command, else 0
  phase,      \* what each handler does next, "idle" when it serves nobody
  rows,       \* the commands each handler's request is about
  stamp,      \* ticks since a poll's handler read timezone.now(), until it used it
  posted,     \* the outcome in the body of the ack a handler serves
  daemon,     \* what the daemon is doing
  conn,       \* the handler the daemon waits for
  batch,      \* polled commands the daemon has not started
  current,    \* the command it executes or acknowledges
  log,        \* every command it ever started, in order
  outcome,    \* how the execution of each command ended
  confirmed,  \* commands whose ack the daemon saw answered with 200
  kills       \* handlers killed so far

rowVars == <<status, result, age>>
handlerVars == <<phase, rows, stamp, posted>>
daemonVars == <<daemon, conn, batch, current>>
historyVars == <<log, outcome, confirmed>>
vars == <<rowVars, handlerVars, daemonVars, historyVars, kills>>

TypeOK ==
  /\ status \in [Commands -> Statuses]
  /\ result \in [Commands -> Outcomes \cup {"none"}]
  /\ age \in [Commands -> Ages]
  /\ phase \in [Handlers -> {"idle"} \cup PollPhases \cup AckPhases]
  /\ rows \in [Handlers -> SUBSET Commands]
  /\ stamp \in [Handlers -> Ages]
  /\ posted \in [Handlers -> Outcomes \cup {"none"}]
  /\ daemon \in {"idle", "polling", "batch", "executing", "reporting"}
  /\ conn \in Handlers \cup {NoHandler}
  /\ batch \in SUBSET Commands
  /\ current \in Commands \cup {NoCommand}
  /\ log \in Seq(Commands)
  /\ outcome \in [Commands -> Outcomes \cup {"none"}]
  /\ confirmed \in SUBSET Commands
  /\ kills \in 0..MaxKills

Init ==
  /\ status = [c \in Commands |-> "absent"]
  /\ result = [c \in Commands |-> "none"]
  /\ age = [c \in Commands |-> 0]
  /\ phase = [h \in Handlers |-> "idle"]
  /\ rows = [h \in Handlers |-> {}]
  /\ stamp = [h \in Handlers |-> 0]
  /\ posted = [h \in Handlers |-> "none"]
  /\ daemon = "idle"
  /\ conn = NoHandler
  /\ batch = {}
  /\ current = NoCommand
  /\ log = <<>>
  /\ outcome = [c \in Commands |-> "none"]
  /\ confirmed = {}
  /\ kills = 0

-----------------------------------------------------------------------------
\* _expire_stale_dispatched selects dispatched_at < now - 2 poll intervals.
Stale(c) == status[c] = "dispatched" /\ age[c] > ExpireAfter

\* A request is over: the handler serves nobody.
Release(h) ==
  /\ phase' = [phase EXCEPT ![h] = "idle"]
  /\ rows' = [rows EXCEPT ![h] = {}]
  /\ stamp' = [stamp EXCEPT ![h] = 0]
  /\ posted' = [posted EXCEPT ![h] = "none"]

-----------------------------------------------------------------------------
(* Faulty variants of actions below.  They are no part of Next: each stands *)
(* for a bug that one of the properties must notice.                        *)

ExpireToUnknownState(h) ==
  /\ phase[h] = "expire"
  /\ status' = [c \in Commands |-> IF Stale(c) THEN "expired" ELSE status[c]]
  /\ age' = [c \in Commands |-> IF Stale(c) THEN 0 ELSE age[c]]
  /\ phase' = [phase EXCEPT ![h] = "read"]
  /\ stamp' = [stamp EXCEPT ![h] = 0]
  /\ UNCHANGED <<result, rows, posted, daemonVars, historyVars, kills>>

ExpireNothing(h) ==
  /\ phase[h] = "expire"
  /\ phase' = [phase EXCEPT ![h] = "read"]
  /\ stamp' = [stamp EXCEPT ![h] = 0]
  /\ UNCHANGED <<rowVars, rows, posted, daemonVars, historyVars, kills>>

ExpireToPending(h) ==
  /\ phase[h] = "expire"
  /\ status' = [c \in Commands |-> IF Stale(c) THEN "pending" ELSE status[c]]
  /\ age' = [c \in Commands |-> IF Stale(c) THEN 0 ELSE age[c]]
  /\ phase' = [phase EXCEPT ![h] = "read"]
  /\ stamp' = [stamp EXCEPT ![h] = 0]
  /\ UNCHANGED <<result, rows, posted, daemonVars, historyVars, kills>>

ReadUnsettled(h) ==
  /\ phase[h] = "read"
  /\ rows' = [rows EXCEPT ![h] = {c \in Commands : status[c] \in {"pending", "dispatched"}}]
  /\ phase' = [phase EXCEPT ![h] = "update"]
  /\ UNCHANGED <<rowVars, stamp, posted, daemonVars, historyVars, kills>>

AckGetUnlessPending(h) ==
  /\ phase[h] = "ack_get"
  /\ phase' = [phase EXCEPT ![h] =
                 IF \E c \in rows[h] : status[c] # "pending"
                   THEN "ack_reply" ELSE "ack_commit"]
  /\ UNCHANGED <<rowVars, rows, stamp, posted, daemonVars, historyVars, kills>>

AckCommitStateOnly(h) ==
  /\ phase[h] = "ack_commit"
  /\ status' = [c \in Commands |-> IF c \in rows[h] THEN posted[h] ELSE status[c]]
  /\ age' = [c \in Commands |-> IF c \in rows[h] THEN 0 ELSE age[c]]
  /\ phase' = [phase EXCEPT ![h] = "ack_reply"]
  /\ UNCHANGED <<result, rows, stamp, posted, daemonVars, historyVars, kills>>

StartPollInBatch(h) ==
  /\ daemon \in {"idle", "batch"} /\ phase[h] = "idle"
  /\ phase' = [phase EXCEPT ![h] = "expire"]
  /\ daemon' = "polling" /\ conn' = h
  /\ UNCHANGED <<rowVars, rows, stamp, posted, batch, current, historyVars, kills>>

-----------------------------------------------------------------------------
(* Enqueueing, by an operator's request or by another handler.             *)

Enqueue(c) ==
  /\ status[c] = "absent"
  /\ \A d \in Commands : d < c => status[d] # "absent"
  /\ status' = [status EXCEPT ![c] = "pending"]
  /\ UNCHANGED <<result, age, handlerVars, daemonVars, historyVars, kills>>

-----------------------------------------------------------------------------
(* AgentPollView and dispatch_commands, statement by statement.            *)

\* _expire_stale_dispatched, then now = timezone.now().
PollExpire(h) ==
  /\ phase[h] = "expire"
  /\ status' = [c \in Commands |-> IF Stale(c) THEN "failed" ELSE status[c]]
  /\ phase' = [phase EXCEPT ![h] = "read"]
  /\ stamp' = [stamp EXCEPT ![h] = 0]
  /\ age' = [c \in Commands |-> IF Stale(c) THEN 0 ELSE age[c]]
  /\ UNCHANGED <<result, rows, posted, daemonVars, historyVars, kills>>

PollRead(h) ==
  /\ phase[h] = "read"
  /\ rows' = [rows EXCEPT ![h] = {c \in Commands : status[c] = "pending"}]
  /\ phase' = [phase EXCEPT ![h] = "update"]
  /\ UNCHANGED <<rowVars, stamp, posted, daemonVars, historyVars, kills>>

\* The update selects by id only: it does not look at the state again.
PollUpdate(h) ==
  /\ phase[h] = "update"
  /\ status' = [c \in Commands |-> IF c \in rows[h] THEN "dispatched" ELSE status[c]]
  /\ age' = [c \in Commands |-> IF c \in rows[h] THEN stamp[h] ELSE age[c]]
  /\ phase' = [phase EXCEPT ![h] = "reply"]
  /\ stamp' = [stamp EXCEPT ![h] = 0]
  /\ UNCHANGED <<result, rows, posted, daemonVars, historyVars, kills>>

\* The response reaches the daemon only if it still waits for this handler.
PollReply(h) ==
  /\ phase[h] = "reply"
  /\ Release(h)
  /\ IF conn = h
       THEN daemon' = "batch" /\ batch' = rows[h] /\ conn' = NoHandler
       ELSE UNCHANGED <<daemon, batch, conn>>
  /\ UNCHANGED <<rowVars, current, historyVars, kills>>

-----------------------------------------------------------------------------
(* AgentCommandAckView: the state is read before the atomic block, and the *)
(* update in ack_command selects by primary key only.                      *)

AckGet(h) ==
  /\ phase[h] = "ack_get"
  /\ phase' = [phase EXCEPT ![h] =
                 IF \E c \in rows[h] : status[c] \in Terminal
                   THEN "ack_reply" ELSE "ack_commit"]
  /\ UNCHANGED <<rowVars, rows, stamp, posted, daemonVars, historyVars, kills>>

AckCommit(h) ==
  /\ phase[h] = "ack_commit"
  /\ status' = [c \in Commands |-> IF c \in rows[h] THEN posted[h] ELSE status[c]]
  /\ result' = [c \in Commands |-> IF c \in rows[h] THEN posted[h] ELSE result[c]]
  /\ age' = [c \in Commands |-> IF c \in rows[h] THEN 0 ELSE age[c]]
  /\ phase' = [phase EXCEPT ![h] = "ack_reply"]
  /\ UNCHANGED <<rows, stamp, posted, daemonVars, historyVars, kills>>

AckReply(h) ==
  /\ phase[h] = "ack_reply"
  /\ Release(h)
  /\ IF conn = h
       THEN /\ daemon' = "batch" /\ current' = NoCommand /\ conn' = NoHandler
            /\ confirmed' = confirmed \cup rows[h]
       ELSE UNCHANGED <<daemon, current, conn, confirmed>>
  /\ UNCHANGED <<rowVars, batch, log, outcome, kills>>

\* gunicorn kills a handler that exceeds its timeout; a block that has not
\* committed is rolled back, so the request stops between two phases.
KillHandler(h) ==
  /\ phase[h] # "idle" /\ kills < MaxKills
  /\ Release(h)
  /\ kills' = kills + 1
  /\ UNCHANGED <<rowVars, daemonVars, historyVars>>

-----------------------------------------------------------------------------
(* The daemon: run_once and run_forever of WorkerDaemon and GatewayDaemon.  *)

StartPoll(h) ==
  /\ daemon = "idle" /\ phase[h] = "idle"
  /\ phase' = [phase EXCEPT ![h] = "expire"]
  /\ daemon' = "polling" /\ conn' = h
  /\ UNCHANGED <<rowVars, rows, stamp, posted, batch, current, historyVars, kills>>

StartCommand(c) ==
  /\ daemon = "batch" /\ c \in batch
  /\ \A d \in batch : c <= d
  /\ daemon' = "executing" /\ current' = c /\ batch' = batch \ {c}
  /\ log' = Append(log, c)
  /\ UNCHANGED <<rowVars, handlerVars, conn, outcome, confirmed, kills>>

\* _handle_command: an exception of the handler is caught and becomes a
\* result with state "failed".
FinishCommand(o) ==
  /\ daemon = "executing"
  /\ daemon' = "reporting"
  /\ outcome' = [outcome EXCEPT ![current] = o]
  /\ UNCHANGED <<rowVars, handlerVars, conn, batch, current, log, confirmed, kills>>

SendAck(h) ==
  /\ daemon = "reporting" /\ conn = NoHandler /\ phase[h] = "idle"
  /\ phase' = [phase EXCEPT ![h] = "ack_get"]
  /\ rows' = [rows EXCEPT ![h] = {current}]
  /\ posted' = [posted EXCEPT ![h] = outcome[current]]
  /\ conn' = h
  /\ UNCHANGED <<rowVars, stamp, daemon, batch, current, historyVars, kills>>

EndCycle ==
  /\ daemon = "batch" /\ batch = {}
  /\ daemon' = "idle"
  /\ UNCHANGED <<rowVars, handlerVars, conn, batch, current, historyVars, kills>>

\* What the daemon holds is in memory only.
ForgetBatch ==
  /\ daemon' = "idle" /\ conn' = NoHandler /\ batch' = {} /\ current' = NoCommand
  /\ UNCHANGED <<rowVars, handlerVars, historyVars, kills>>

\* A timeout, a broken connection or an error status raises in AgentClient,
\* and run_forever abandons the rest of the cycle.  No request is retried.
RequestFails ==
  /\ daemon \in {"polling", "reporting"}
  /\ ForgetBatch

\* The process dies and its supervisor starts it again.
CrashDaemon ==
  /\ daemon \in {"batch", "executing"}
  /\ ForgetBatch

-----------------------------------------------------------------------------
Older(a) == IF a < ExpireAfter + 1 THEN a + 1 ELSE a

Tick ==
  /\ \/ \E c \in Commands : status[c] = "dispatched" /\ age[c] \in 0..ExpireAfter
     \/ \E h \in Handlers : phase[h] \in {"read", "update"} /\ stamp[h] \in 0..ExpireAfter
  /\ age' = [c \in Commands |-> IF status[c] = "dispatched" THEN Older(age[c]) ELSE age[c]]
  /\ stamp' = [h \in Handlers |->
                 IF phase[h] \in {"read", "update"} THEN Older(stamp[h]) ELSE stamp[h]]
  /\ UNCHANGED <<status, result, phase, rows, posted, daemonVars, historyVars, kills>>

HandlerStep(h) ==
  \/ PollExpire(h) \/ PollRead(h) \/ PollUpdate(h) \/ PollReply(h)
  \/ AckGet(h) \/ AckCommit(h) \/ AckReply(h)

DaemonStep ==
  \/ \E h \in Handlers : StartPoll(h) \/ SendAck(h)
  \/ \E c \in Commands : StartCommand(c)
  \/ \E o \in Outcomes : FinishCommand(o)
  \/ EndCycle

Next ==
  \/ \E c \in Commands : Enqueue(c)
  \/ \E h \in Handlers : HandlerStep(h) \/ KillHandler(h)
  \/ DaemonStep
  \/ RequestFails
  \/ CrashDaemon
  \/ Tick

\* Requests are served or time out, commands run under subprocess timeouts,
\* run_forever keeps polling, and time passes.  Nothing obliges an operator to
\* enqueue, a connection to fail or a process to die.
Fairness ==
  /\ \A h \in Handlers : WF_vars(HandlerStep(h))
  /\ WF_vars(DaemonStep)
  /\ WF_vars(RequestFails)
  /\ WF_vars(Tick)

Spec == Init /\ [][Next]_vars
FairSpec == Spec /\ Fairness
-----------------------------------------------------------------------------
(* Properties that hold however requests overlap.                          *)

\* The daemon starts no command twice, and never starts a command after one
\* that was created later: a lost response, a lost ack, a restart or a poll
\* that overlaps an abandoned one does not bring a command back.
ExecutedInOrder ==
  \A i, j \in DOMAIN log : i < j => log[i] < log[j]

\* A result is on record only for a command that ran, it is the result of that
\* run, and a command counts as ACKED only with a successful result.
RecordedOutcomeIsReal ==
  \A c \in Commands :
    /\ result[c] # "none" => result[c] = outcome[c]
    /\ status[c] = "acked" => result[c] = "acked"

\* Whatever was lost or killed on the way, every command that was enqueued is
\* in the end ACKED or FAILED, for good: nothing stays PENDING or DISPATCHED.
QueueDrains ==
  <>[](\A c \in Commands : status[c] \notin {"pending", "dispatched"})

-----------------------------------------------------------------------------
(* Properties of a server that handles one request of an agent at a time.  *)

\* The sweep fails no command the daemon still has to run or is running,
\* however long that takes: only the daemon's own polls run the sweep.  And a
\* 200 answer to an ack means the outcome is on record and stays there.
HeldUntilRecorded ==
  /\ \A c \in batch : status[c] = "dispatched"
  /\ daemon = "executing" => status[current] = "dispatched"
  /\ \A c \in confirmed : status[c] = outcome[c] /\ result[c] = outcome[c]

Lifecycle == INSTANCE CommandLifecycle WITH
  Commands <- Commands, status <- status, result <- result

\* The handlers and the daemon together implement the abstract life cycle.
ImplementsLifecycle == Lifecycle!Spec
=============================================================================
