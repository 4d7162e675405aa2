-------------------------- MODULE WorkerConnection --------------------------
(***************************************************************************)
(* How a worker comes to be connected and stops being so: enrolment with a *)
(* token, heartbeats, the liveness check, disconnecting and deleting       *)
(* (backend/workers/services.py, backend/agents/views.py and liveness.py,  *)
(* backend/agent_daemon/worker_daemon.py).                                 *)
(*                                                                         *)
(* One worker and its enrolment token, and the hosts on which the          *)
(* installer was started with that token.  A host that registers gets an   *)
(* agent of its own, so an agent has the name of its host.  A handler      *)
(* authenticates a request before it works on it, and revoking credentials *)
(* does not stop the requests that have passed.                            *)
(***************************************************************************)
EXTENDS Integers, FiniteSets, TLAPS

CONSTANTS Hosts,         \* machines on which the installer runs
          NoHost,        \* Worker.agent = None
          MaxUses,       \* WorkerEnrollmentToken.max_uses
          PollInterval,  \* Agent.poll_interval_seconds, in clock ticks
          MaxCrashes     \* bound: daemons that die

ASSUME ConnectionAssumption ==
  /\ NoHost \notin Hosts /\ "idle" \notin Hosts \cup {NoHost}
  /\ MaxUses \in Nat \ {0} /\ PollInterval \in Nat \ {0} /\ MaxCrashes \in Nat

OfflineAfter == 3 * PollInterval      \* heartbeat_offline_cutoff
Ages == 0..(OfflineAfter + 1)         \* counted up to the first value past the cutoff
Never == -1                           \* last_heartbeat_at is None
NotReading == -1                      \* no registration is in progress
Idle == "idle"                        \* no deletion is in progress
Gone == "gone"                        \* the worker's row is deleted

VARIABLES
  status,     \* Worker.status, or Gone
  owner,      \* Worker.agent
  beatAge,    \* ticks since Worker.last_heartbeat_at, Never while there is none
  uses,       \* WorkerEnrollmentToken.uses
  seenUses,   \* what a registration in progress has read of it, NotReading if there is none
  valid,      \* agents whose credentials the control plane accepts
  agents,     \* agents that are registered
  shutdown,   \* state of the shutdown command of each agent, "none" without one
  daemon,     \* the daemon of each host
  call,       \* the request of each daemon that is authenticated and under way
  turn,       \* what each daemon asks for next
  operator,   \* what an operator's request to disconnect has done
  leaving,    \* the agent that request is about
  doomed,     \* Worker.agent as a deletion in progress has read it, Idle without one
  past,       \* agents the worker had and lost to another registration (replaced), and
              \* those registered since a deletion last read the worker (late)
  check,      \* the liveness check has read a stale heartbeat
  crashes

server == <<status, owner, beatAge>>
token == <<uses, seenUses>>
hosts == <<daemon, call, turn>>
disconnect == <<operator, leaving>>
deletion == <<doomed, past>>
vars ==
  <<server, token, valid, agents, shutdown, hosts, disconnect, deletion, check, crashes>>

TypeOK ==
  /\ status \in {"pending", "online", "offline", "disabled", Gone}
  /\ owner \in Hosts \cup {NoHost}
  /\ beatAge \in Ages \cup {Never}
  /\ uses \in 0..MaxUses
  /\ seenUses \in [Hosts -> 0..MaxUses \cup {NotReading}]
  /\ valid \in SUBSET agents /\ agents \in SUBSET Hosts
  /\ shutdown \in [Hosts -> {"none", "pending", "dispatched", "acked"}]
  /\ daemon \in [Hosts -> {"absent", "up", "stopping", "down"}]
  /\ call \in [Hosts -> {"none", "heartbeat", "poll"}]
  /\ turn \in [Hosts -> {"heartbeat", "poll"}]
  /\ operator \in {"idle", "revoked", "queued"}
  /\ leaving \in Hosts \cup {NoHost}
  /\ doomed \in Hosts \cup {NoHost, Idle}
  /\ past \in [replaced : SUBSET Hosts, late : SUBSET Hosts]
  /\ check \in BOOLEAN
  /\ crashes \in 0..MaxCrashes

\* create_worker_enrollment_token
Init ==
  /\ status = "pending" /\ owner = NoHost /\ beatAge = Never
  /\ uses = 0 /\ seenUses = [h \in Hosts |-> NotReading]
  /\ valid = {} /\ agents = {}
  /\ shutdown = [h \in Hosts |-> "none"]
  /\ daemon = [h \in Hosts |-> "absent"]
  /\ call = [h \in Hosts |-> "none"]
  /\ turn = [h \in Hosts |-> "heartbeat"]
  /\ operator = "idle" /\ leaving = NoHost /\ check = FALSE /\ crashes = 0
  /\ doomed = Idle /\ past = [replaced |-> {}, late |-> {}]

Stale == beatAge > OfflineAfter    \* is_heartbeat_stale

-----------------------------------------------------------------------------
(* Faulty variants of actions below, used only to show that a property     *)
(* notices the bug they stand for.                                         *)

RevokeNothing ==
  /\ operator = "idle" /\ owner # NoHost /\ status # Gone
  /\ operator' = "revoked" /\ leaving' = owner
  /\ UNCHANGED <<server, token, valid, agents, shutdown, hosts, check, crashes, deletion>>

ValidateWithoutOwner(h) ==
  /\ daemon[h] = "absent" /\ seenUses[h] = NotReading
  /\ status # Gone /\ uses < MaxUses + 1
  /\ seenUses' = [seenUses EXCEPT ![h] = uses]
  /\ UNCHANGED <<server, uses, valid, agents, shutdown, hosts, disconnect, check, crashes, deletion>>

HeartbeatUnlessOffline(h) ==
  /\ call[h] = "heartbeat"
  /\ IF owner = h /\ status # "offline" THEN status' = "online" /\ beatAge' = 0
                                        ELSE UNCHANGED <<status, beatAge>>
  /\ call' = [call EXCEPT ![h] = "none"] /\ turn' = [turn EXCEPT ![h] = "poll"]
  /\ UNCHANGED <<owner, token, valid, agents, shutdown, daemon, disconnect, check, crashes, deletion>>

DeleteRowOnly ==
  /\ doomed # Idle /\ status # Gone
  /\ status' = Gone /\ owner' = NoHost /\ doomed' = Idle
  /\ shutdown' = [h \in Hosts |-> IF h = doomed THEN "none" ELSE shutdown[h]]
  /\ UNCHANGED <<beatAge, token, valid, agents, hosts, disconnect, past, check, crashes>>

\* Writes back the agent as it was read before its credentials were revoked.
MarkDisabledAndSaveAgent ==
  /\ operator = "queued"
  /\ operator' = "idle" /\ leaving' = NoHost
  /\ status' = IF status = Gone THEN Gone ELSE "disabled"
  /\ valid' = valid \cup ({leaving} \cap agents)
  /\ UNCHANGED <<owner, beatAge, token, agents, shutdown, hosts, check, crashes, deletion>>

-----------------------------------------------------------------------------
(* Enrolment: register_worker_from_token.  It is one transaction, but what  *)
(* it reads is not locked, so another one may commit between its reads and  *)
(* its writes.                                                              *)

Validate(h) ==
  /\ daemon[h] = "absent" /\ seenUses[h] = NotReading
  /\ status # Gone /\ uses < MaxUses /\ owner = NoHost
  /\ seenUses' = [seenUses EXCEPT ![h] = uses]
  /\ UNCHANGED <<server, uses, valid, agents, shutdown, hosts, disconnect, check, crashes, deletion>>

\* The installer starts the daemon, unless the response with the credentials is
\* lost.  A worker deleted meanwhile makes the transaction fail.
Register(h, answered) ==
  /\ seenUses[h] # NotReading
  /\ seenUses' = [seenUses EXCEPT ![h] = NotReading]
  /\ IF status = Gone
       THEN UNCHANGED <<owner, uses, valid, agents, daemon, past>>
       ELSE /\ owner' = h /\ uses' = seenUses[h] + 1
            /\ valid' = valid \cup {h} /\ agents' = agents \cup {h}
            /\ daemon' = IF answered THEN [daemon EXCEPT ![h] = "up"] ELSE daemon
            /\ past' = [replaced |-> past.replaced \cup ({owner} \ {NoHost}),
                        late |-> past.late \cup {h}]
  /\ UNCHANGED <<status, beatAge, shutdown, call, turn, disconnect, doomed, check, crashes>>

-----------------------------------------------------------------------------
(* The daemon and the handlers of its requests.                             *)

\* verify_agent_token has accepted the request, and the agent's row is updated.
Authenticate(h) ==
  /\ daemon[h] = "up" /\ call[h] = "none" /\ h \in valid
  /\ call' = [call EXCEPT ![h] = turn[h]]
  /\ UNCHANGED <<server, token, valid, agents, shutdown, daemon, turn, disconnect, check, crashes, deletion>>

\* The rest of AgentHeartbeatView: the worker that has this agent is ONLINE.
Heartbeat(h) ==
  /\ call[h] = "heartbeat"
  /\ IF owner = h THEN status' = "online" /\ beatAge' = 0 ELSE UNCHANGED <<status, beatAge>>
  /\ call' = [call EXCEPT ![h] = "none"] /\ turn' = [turn EXCEPT ![h] = "poll"]
  /\ UNCHANGED <<owner, token, valid, agents, shutdown, daemon, disconnect, check, crashes, deletion>>

\* dispatch_commands; a daemon that waits for the answer executes the shutdown.
PollCommands(h) ==
  /\ call[h] = "poll"
  /\ call' = [call EXCEPT ![h] = "none"] /\ turn' = [turn EXCEPT ![h] = "heartbeat"]
  /\ IF shutdown[h] = "pending"
       THEN /\ shutdown' = [shutdown EXCEPT ![h] = "dispatched"]
            /\ daemon' = IF daemon[h] = "up" THEN [daemon EXCEPT ![h] = "stopping"] ELSE daemon
       ELSE UNCHANGED <<shutdown, daemon>>
  /\ UNCHANGED <<server, token, valid, agents, disconnect, check, crashes, deletion>>

\* A request is refused: the rest of the cycle is skipped.
Refused(h) ==
  /\ daemon[h] = "up" /\ call[h] = "none" /\ h \notin valid /\ turn[h] = "poll"
  /\ turn' = [turn EXCEPT ![h] = "heartbeat"]
  /\ UNCHANGED <<server, token, valid, agents, shutdown, daemon, call, disconnect, check, crashes, deletion>>

\* _handle_shutdown: acknowledge if that is still allowed, and leave run_forever.
StopDaemon(h) ==
  /\ daemon[h] = "stopping"
  /\ daemon' = [daemon EXCEPT ![h] = "down"]
  /\ shutdown' = [shutdown EXCEPT ![h] = IF h \in valid /\ @ = "dispatched" THEN "acked" ELSE @]
  /\ UNCHANGED <<server, token, valid, agents, call, turn, disconnect, check, crashes, deletion>>

CrashDaemon(h) ==
  /\ daemon[h] = "up" /\ crashes < MaxCrashes
  /\ daemon' = [daemon EXCEPT ![h] = "down"] /\ crashes' = crashes + 1
  /\ UNCHANGED <<server, token, valid, agents, shutdown, call, turn, disconnect, check, deletion>>

\* systemd restarts the daemon, after a clean exit too.
RestartDaemon(h) ==
  /\ daemon[h] = "down" /\ call[h] = "none"
  /\ daemon' = [daemon EXCEPT ![h] = "up"] /\ turn' = [turn EXCEPT ![h] = "heartbeat"]
  /\ UNCHANGED <<server, token, valid, agents, shutdown, call, disconnect, check, crashes, deletion>>

-----------------------------------------------------------------------------
(* Operators.                                                               *)

\* disconnect_worker: three updates, one after the other.
Revoke ==
  /\ operator = "idle" /\ owner # NoHost /\ status # Gone
  /\ valid' = valid \ {owner}
  /\ operator' = "revoked" /\ leaving' = owner
  /\ UNCHANGED <<server, token, agents, shutdown, hosts, check, crashes, deletion>>

QueueShutdown ==
  /\ operator = "revoked"
  /\ IF leaving \in agents
       THEN /\ shutdown' = [shutdown EXCEPT ![leaving] = "pending"]
            /\ operator' = "queued" /\ UNCHANGED leaving
       ELSE operator' = "idle" /\ leaving' = NoHost /\ UNCHANGED shutdown
  /\ UNCHANGED <<server, token, valid, agents, hosts, check, crashes, deletion>>

MarkDisabled ==
  /\ operator = "queued"
  /\ operator' = "idle" /\ leaving' = NoHost
  /\ status' = IF status = Gone THEN Gone ELSE "disabled"
  /\ UNCHANGED <<owner, beatAge, token, valid, agents, shutdown, hosts, check, crashes, deletion>>

\* enqueue_worker_command with "shutdown".
RequestShutdown ==
  /\ owner # NoHost /\ shutdown[owner] # "pending"
  /\ shutdown' = [shutdown EXCEPT ![owner] = "pending"]
  /\ UNCHANGED <<server, token, valid, agents, hosts, disconnect, check, crashes, deletion>>

\* destroy: get_object reads the worker together with its agent, and nothing is
\* locked until the transaction of delete_worker begins.
BeginDelete ==
  /\ doomed = Idle /\ status # Gone
  /\ doomed' = owner /\ past' = [past EXCEPT !.late = {}]
  /\ UNCHANGED <<server, token, valid, agents, shutdown, hosts, disconnect, check, crashes>>

\* delete_worker, in one transaction: the agent that was read goes with its
\* commands, and then the row, whichever agent it names by now.
DeleteWorker ==
  /\ doomed # Idle /\ status # Gone
  /\ status' = Gone /\ owner' = NoHost /\ doomed' = Idle
  /\ valid' = valid \ {doomed} /\ agents' = agents \ {doomed}
  /\ shutdown' = [h \in Hosts |-> IF h = doomed THEN "none" ELSE shutdown[h]]
  /\ UNCHANGED <<beatAge, token, hosts, disconnect, past, check, crashes>>

\* The worker has tenants, or the process ends before the commit.
AbandonDelete ==
  /\ doomed # Idle
  /\ doomed' = Idle
  /\ UNCHANGED <<server, token, valid, agents, shutdown, hosts, disconnect, past, check, crashes>>

\* refresh_worker_liveness reads the worker's row and later updates its status.
CheckLiveness ==
  /\ ~check /\ status = "online" /\ owner # NoHost /\ Stale
  /\ check' = TRUE
  /\ UNCHANGED <<server, token, valid, agents, shutdown, hosts, disconnect, crashes, deletion>>

MarkOffline ==
  /\ check
  /\ check' = FALSE
  /\ status' = IF status = Gone THEN Gone ELSE "offline"
  /\ UNCHANGED <<owner, beatAge, token, valid, agents, shutdown, hosts, disconnect, crashes, deletion>>

Tick ==
  /\ beatAge \in 0..OfflineAfter
  /\ beatAge' = beatAge + 1
  /\ UNCHANGED <<status, owner, token, valid, agents, shutdown, hosts, disconnect, check, crashes, deletion>>

DaemonStep(h) ==
  \/ Authenticate(h) \/ Heartbeat(h) \/ PollCommands(h) \/ Refused(h)
  \/ StopDaemon(h) \/ RestartDaemon(h)

ServerStep == QueueShutdown \/ MarkDisabled \/ MarkOffline

Next ==
  \/ \E h \in Hosts : \/ Validate(h) \/ (\E answered \in BOOLEAN : Register(h, answered))
                      \/ DaemonStep(h) \/ CrashDaemon(h)
  \/ ServerStep \/ Revoke \/ RequestShutdown \/ CheckLiveness \/ Tick
  \/ BeginDelete \/ DeleteWorker \/ AbandonDelete

\* Daemons keep cycling and are restarted, handlers finish what they began and
\* time passes.  Operators and the liveness check may never come.
Fairness ==
  /\ \A h \in Hosts : WF_vars(DaemonStep(h))
  /\ WF_vars(ServerStep)
  /\ WF_vars(Tick)

Spec == Init /\ [][Next]_vars
FairSpec == Spec /\ Fairness
-----------------------------------------------------------------------------
(* Properties.                                                              *)

\* Once the worker is deleted, whatever registration, heartbeat or disconnection
\* was under way, an agent can use the control plane in its name only if it
\* registered after the view had read the worker, or had lost the worker to an
\* overlapping registration: the agent the deletion has read is gone.
DeletedHasNoCredentials == status = Gone => valid \subseteq past.late \cup past.replaced

\* An agent whose credentials are revoked never has valid ones again: no
\* registration that was under way, and no restart, brings them back.
RevokedForGood == [][\A h \in agents \ valid : h \notin valid']_vars

\* After a disconnection the credentials do not come back and the agent falls silent for
\* good: requests that had passed authentication finish, and none follows.
QuietAfterRevoke ==
  /\ RevokedForGood
  /\ \A h \in Hosts : (operator = "revoked" /\ leaving = h) ~> [](call[h] = "none")

\* A worker whose daemon runs and has valid credentials comes back ONLINE after
\* crashes, shutdown commands and liveness checks that raced a heartbeat.
ComesBackOnline ==
  \A h \in Hosts :
    (owner = h /\ h \in valid /\ daemon[h] # "absent")
      ~> (status = "online" \/ owner # h \/ h \notin valid)

-----------------------------------------------------------------------------
(* What the documentation of the code says, and the code does not do.      *)

\* The shutdown a disconnection queues reaches the daemon, or its worker is deleted.
ShutdownIsDelivered ==
  \A h \in Hosts : (shutdown[h] = "pending") ~> (shutdown[h] # "pending")

\* A token enrols no more agents than it has uses.
TokenIsLimited == Cardinality(agents) <= MaxUses

-----------------------------------------------------------------------------
(* Proofs, for any number of hosts, uses of the token and crashes.         *)

\* A registration in progress has found a use left when it read the token.
ReadUses == \A h \in Hosts : seenUses[h] # NotReading => seenUses[h] < MaxUses

\* An agent is registered only while its worker is there, the first one takes
\* the worker, and a host that has registered does not begin again.
Enrolled ==
  /\ status = Gone => owner = NoHost
  /\ owner = NoHost /\ status # Gone => agents = {}
  /\ \A h \in agents : seenUses[h] = NotReading

IInv == TypeOK /\ ReadUses /\ Enrolled

\* Who has valid credentials lost the worker to another or has it still, and what
\* a deletion has read is still so unless someone registered since.
Known ==
  /\ status # Gone => valid \subseteq past.replaced \cup {owner}
  /\ status # Gone /\ doomed # Idle => owner = doomed \/ owner \in past.late

-----------------------------------------------------------------------------
LEMMA Initially == Init => IInv /\ Known /\ DeletedHasNoCredentials
<1> SUFFICES ASSUME Init PROVE IInv /\ Known /\ DeletedHasNoCredentials
  OBVIOUS
<1> USE ConnectionAssumption DEF Init
<1>1. TypeOK
  <2>1. /\ seenUses \in [Hosts -> 0..MaxUses \cup {NotReading}]
        /\ shutdown \in [Hosts -> {"none", "pending", "dispatched", "acked"}]
        /\ daemon \in [Hosts -> {"absent", "up", "stopping", "down"}]
    OBVIOUS
  <2>2. /\ call \in [Hosts -> {"none", "heartbeat", "poll"}]
        /\ turn \in [Hosts -> {"heartbeat", "poll"}]
    OBVIOUS
  <2>3. uses \in 0..MaxUses /\ crashes \in 0..MaxCrashes
    OBVIOUS
  <2>4. past \in [replaced : SUBSET Hosts, late : SUBSET Hosts]
    OBVIOUS
  <2> QED BY <2>1, <2>2, <2>3, <2>4 DEF TypeOK
<1>2. ReadUses /\ Enrolled /\ Known /\ DeletedHasNoCredentials
  BY DEF ReadUses, Enrolled, Known, DeletedHasNoCredentials, Gone
<1> QED BY <1>1, <1>2 DEF IInv

\* Registrations are the steps that write the token and add an agent.
LEMMA EnrolStep ==
  ASSUME IInv, NEW h \in Hosts,
         Validate(h) \/ \E answered \in BOOLEAN : Register(h, answered)
  PROVE  IInv'
<1> USE ConnectionAssumption DEF IInv, server, token, hosts, disconnect, deletion
<1>1. CASE Validate(h)
  <2> USE <1>1 DEF Validate
  <2>1. TypeOK'
    <3>1. seenUses' \in [Hosts -> 0..MaxUses \cup {NotReading}]
      BY DEF TypeOK
    <3> QED BY <3>1 DEF TypeOK
  <2>2. ReadUses'
    BY DEF TypeOK, ReadUses
  <2>3. agents = {}
    BY DEF Enrolled
  <2> QED BY <2>1, <2>2, <2>3 DEF Enrolled
<1>2. ASSUME NEW answered \in BOOLEAN, Register(h, answered) PROVE IInv'
  <2> USE <1>2 DEF Register
  <2>1. seenUses[h] \in 0..(MaxUses - 1)
    BY DEF TypeOK, ReadUses, NotReading
  <2>2. TypeOK'
    <3>1. seenUses' \in [Hosts -> 0..MaxUses \cup {NotReading}]
      BY DEF TypeOK
    <3>2. uses' \in 0..MaxUses /\ owner' \in Hosts \cup {NoHost}
      BY <2>1 DEF TypeOK
    <3>3. valid' \in SUBSET agents' /\ agents' \in SUBSET Hosts
      BY DEF TypeOK
    <3>4. daemon' \in [Hosts -> {"absent", "up", "stopping", "down"}]
      BY DEF TypeOK
    <3>5. past' \in [replaced : SUBSET Hosts, late : SUBSET Hosts]
      BY DEF TypeOK
    <3> QED BY <3>1, <3>2, <3>3, <3>4, <3>5 DEF TypeOK
  <2>3. ReadUses'
    BY DEF TypeOK, ReadUses
  <2>4. Enrolled'
    BY DEF TypeOK, Enrolled
  <2> QED BY <2>2, <2>3, <2>4
<1> QED BY <1>1, <1>2

\* The other steps leave the token alone, add no agent and leave the worker its
\* agent until it is deleted.
LEMMA OtherStep ==
  ASSUME IInv,
         \/ \E h \in Hosts : DaemonStep(h) \/ CrashDaemon(h)
         \/ ServerStep \/ Revoke \/ RequestShutdown \/ CheckLiveness \/ Tick
         \/ BeginDelete \/ DeleteWorker \/ AbandonDelete
         \/ UNCHANGED vars
  PROVE  /\ TypeOK'
         /\ UNCHANGED <<uses, seenUses>> /\ agents' \subseteq agents /\ valid' \subseteq valid
         /\ past'.replaced = past.replaced
         /\ \/ owner' = owner /\ (status' = Gone <=> status = Gone)
            \/ /\ owner' = NoHost /\ status' = Gone /\ past' = past
               /\ doomed # Idle /\ status # Gone /\ valid' = valid \ {doomed}
         /\ \/ UNCHANGED deletion
            \/ doomed' = owner /\ status # Gone
            \/ doomed' = Idle /\ past' = past
<1> USE ConnectionAssumption DEF IInv, server, token, hosts, disconnect, deletion
<1>1. ASSUME NEW h \in Hosts, Authenticate(h)
      PROVE  TypeOK' /\ UNCHANGED <<server, token, valid, agents, deletion>>
  <2>1. call' \in [Hosts -> {"none", "heartbeat", "poll"}]
    BY <1>1 DEF TypeOK, Authenticate
  <2> QED BY <1>1, <2>1 DEF TypeOK, Authenticate
<1>2. ASSUME NEW h \in Hosts, Heartbeat(h)
      PROVE  /\ TypeOK' /\ UNCHANGED <<owner, token, valid, agents, deletion>>
             /\ status' = Gone <=> status = Gone
  <2>1. owner = h => status # Gone
    BY DEF Enrolled
  <2>2. status' = Gone <=> status = Gone
    BY <1>2, <2>1 DEF Heartbeat, Gone
  <2>3. /\ status' \in {"pending", "online", "offline", "disabled", Gone}
        /\ beatAge' \in Ages \cup {Never}
    BY <1>2 DEF TypeOK, Heartbeat, Ages, OfflineAfter
  <2>4. /\ call' \in [Hosts -> {"none", "heartbeat", "poll"}]
        /\ turn' \in [Hosts -> {"heartbeat", "poll"}]
    BY <1>2 DEF TypeOK, Heartbeat
  <2> QED BY <1>2, <2>2, <2>3, <2>4 DEF TypeOK, Heartbeat
<1>3. ASSUME NEW h \in Hosts, PollCommands(h)
      PROVE  TypeOK' /\ UNCHANGED <<server, token, valid, agents, deletion>>
  <2>1. /\ call' \in [Hosts -> {"none", "heartbeat", "poll"}]
        /\ turn' \in [Hosts -> {"heartbeat", "poll"}]
    BY <1>3 DEF TypeOK, PollCommands
  <2>2. /\ shutdown' \in [Hosts -> {"none", "pending", "dispatched", "acked"}]
        /\ daemon' \in [Hosts -> {"absent", "up", "stopping", "down"}]
    BY <1>3 DEF TypeOK, PollCommands
  <2> QED BY <1>3, <2>1, <2>2 DEF TypeOK, PollCommands
<1>4. ASSUME NEW h \in Hosts, Refused(h)
      PROVE  TypeOK' /\ UNCHANGED <<server, token, valid, agents, deletion>>
  BY <1>4 DEF TypeOK, Refused
<1>5. ASSUME NEW h \in Hosts, StopDaemon(h)
      PROVE  TypeOK' /\ UNCHANGED <<server, token, valid, agents, deletion>>
  <2>1. /\ shutdown' \in [Hosts -> {"none", "pending", "dispatched", "acked"}]
        /\ daemon' \in [Hosts -> {"absent", "up", "stopping", "down"}]
    BY <1>5 DEF TypeOK, StopDaemon
  <2> QED BY <1>5, <2>1 DEF TypeOK, StopDaemon
<1>6. ASSUME NEW h \in Hosts, RestartDaemon(h) \/ CrashDaemon(h)
      PROVE  TypeOK' /\ UNCHANGED <<server, token, valid, agents, deletion>>
  <2>1. /\ daemon' \in [Hosts -> {"absent", "up", "stopping", "down"}]
        /\ turn' \in [Hosts -> {"heartbeat", "poll"}]
    BY <1>6 DEF TypeOK, RestartDaemon, CrashDaemon
  <2>2. crashes' \in 0..MaxCrashes
    BY <1>6 DEF TypeOK, RestartDaemon, CrashDaemon
  <2> QED BY <1>6, <2>1, <2>2 DEF TypeOK, RestartDaemon, CrashDaemon
<1>7. ASSUME QueueShutdown
      PROVE  TypeOK' /\ UNCHANGED <<server, token, valid, agents, deletion>>
  <2>1. shutdown' \in [Hosts -> {"none", "pending", "dispatched", "acked"}]
    BY <1>7 DEF TypeOK, QueueShutdown
  <2> QED BY <1>7, <2>1 DEF TypeOK, QueueShutdown
<1>8. ASSUME MarkDisabled \/ MarkOffline
      PROVE  /\ TypeOK' /\ UNCHANGED <<owner, token, valid, agents, deletion>>
             /\ status' = Gone <=> status = Gone
  BY <1>8 DEF TypeOK, MarkDisabled, MarkOffline, Gone
<1>9. ASSUME Revoke
      PROVE  TypeOK' /\ UNCHANGED <<server, token, agents, deletion>> /\ valid' \subseteq valid
  BY <1>9 DEF TypeOK, Revoke
<1>10. ASSUME RequestShutdown
       PROVE  TypeOK' /\ UNCHANGED <<server, token, valid, agents, deletion>>
  <2>1. shutdown' \in [Hosts -> {"none", "pending", "dispatched", "acked"}]
    BY <1>10 DEF TypeOK, RequestShutdown
  <2> QED BY <1>10, <2>1 DEF TypeOK, RequestShutdown
<1>11. ASSUME DeleteWorker
       PROVE  /\ TypeOK' /\ UNCHANGED token /\ agents' \subseteq agents
              /\ owner' = NoHost /\ status' = Gone /\ valid' = valid \ {doomed}
              /\ doomed # Idle /\ status # Gone /\ doomed' = Idle /\ past' = past
  <2>1. shutdown' \in [Hosts -> {"none", "pending", "dispatched", "acked"}]
    BY <1>11 DEF TypeOK, DeleteWorker
  <2> QED BY <1>11, <2>1 DEF TypeOK, DeleteWorker
<1>12. ASSUME CheckLiveness
       PROVE  TypeOK' /\ UNCHANGED <<server, token, valid, agents, deletion>>
  BY <1>12 DEF TypeOK, CheckLiveness
<1>13. ASSUME Tick
       PROVE  TypeOK' /\ UNCHANGED <<status, owner, token, valid, agents, deletion>>
  BY <1>13 DEF TypeOK, Tick, Ages, OfflineAfter
<1>15. ASSUME BeginDelete
       PROVE  /\ TypeOK' /\ UNCHANGED <<server, token, valid, agents>>
              /\ past'.replaced = past.replaced /\ doomed' = owner /\ status # Gone
  BY <1>15 DEF TypeOK, BeginDelete
<1>16. ASSUME AbandonDelete
       PROVE  /\ TypeOK' /\ UNCHANGED <<server, token, valid, agents, past>>
              /\ doomed' = Idle
  BY <1>16 DEF TypeOK, AbandonDelete
<1>14. ASSUME UNCHANGED vars
       PROVE  TypeOK' /\ UNCHANGED <<server, token, valid, agents, deletion>>
  BY <1>14 DEF TypeOK, vars
<1> QED
  BY <1>1, <1>2, <1>3, <1>4, <1>5, <1>6, <1>7, <1>8, <1>9, <1>10, <1>11, <1>12, <1>13, <1>14, <1>15, <1>16
     DEF DaemonStep, ServerStep

-----------------------------------------------------------------------------
LEMMA Inductive == IInv /\ [Next]_vars => IInv'
<1> SUFFICES ASSUME IInv, [Next]_vars PROVE IInv'
  OBVIOUS
<1>1. CASE \E h \in Hosts : Validate(h) \/ \E answered \in BOOLEAN : Register(h, answered)
  BY <1>1, EnrolStep
<1>2. CASE ~ \E h \in Hosts : Validate(h) \/ \E answered \in BOOLEAN : Register(h, answered)
  <2>1. /\ TypeOK' /\ UNCHANGED <<uses, seenUses>> /\ agents' \subseteq agents
        /\ \/ owner' = owner /\ (status' = Gone <=> status = Gone)
           \/ owner' = NoHost /\ status' = Gone /\ status # Gone
    BY <1>2, OtherStep DEF Next
  <2>2. ReadUses' /\ Enrolled'
    BY <2>1 DEF IInv, ReadUses, Enrolled
  <2> QED BY <2>1, <2>2 DEF IInv
<1> QED BY <1>1, <1>2

\* A step that gives an agent valid credentials is a registration that makes the
\* agent too.
LEMMA OnlyNewAgents ==
  ASSUME IInv, [Next]_vars
  PROVE  \A h \in agents \ valid : h \notin valid'
<1>1. ASSUME NEW g \in Hosts, Validate(g) PROVE valid' = valid
  BY <1>1 DEF Validate
<1>2. ASSUME NEW g \in Hosts, NEW answered \in BOOLEAN, Register(g, answered)
      PROVE  g \notin agents /\ valid' \subseteq valid \cup {g}
  BY <1>2 DEF Register, IInv, Enrolled
<1>3. CASE \E g \in Hosts : Validate(g) \/ \E answered \in BOOLEAN : Register(g, answered)
  BY <1>1, <1>2, <1>3
<1>4. CASE ~ \E g \in Hosts : Validate(g) \/ \E answered \in BOOLEAN : Register(g, answered)
  <2>1. valid' \subseteq valid
    BY <1>4, OtherStep DEF Next
  <2> QED BY <2>1
<1> QED BY <1>3, <1>4

LEMMA KnownStep ==
  ASSUME IInv, Known, DeletedHasNoCredentials, [Next]_vars
  PROVE  Known' /\ DeletedHasNoCredentials'
<1> USE DEF IInv, Known, DeletedHasNoCredentials
<1>1. ASSUME NEW g \in Hosts, Validate(g) PROVE Known' /\ DeletedHasNoCredentials'
  BY <1>1 DEF Validate, server, deletion
<1>2. ASSUME NEW g \in Hosts, NEW answered \in BOOLEAN, Register(g, answered)
      PROVE  Known' /\ DeletedHasNoCredentials'
  <2>1. CASE status = Gone
    BY <1>2, <2>1 DEF Register
  <2>2. CASE status # Gone
    <3>1. /\ status' = status /\ owner' = g /\ valid' = valid \cup {g} /\ doomed' = doomed
          /\ past'.replaced = past.replaced \cup ({owner} \ {NoHost})
          /\ past'.late = past.late \cup {g}
      BY <1>2, <2>2 DEF Register
    <3>2. NoHost \notin valid
      BY ConnectionAssumption DEF TypeOK
    <3> QED BY <2>2, <3>1, <3>2
  <2> QED BY <2>1, <2>2
<1>3. CASE \E g \in Hosts : Validate(g) \/ \E answered \in BOOLEAN : Register(g, answered)
  BY <1>1, <1>2, <1>3
<1>4. CASE ~ \E g \in Hosts : Validate(g) \/ \E answered \in BOOLEAN : Register(g, answered)
  <2>1. /\ valid' \subseteq valid /\ past'.replaced = past.replaced
        /\ \/ owner' = owner /\ (status' = Gone <=> status = Gone)
           \/ /\ owner' = NoHost /\ status' = Gone /\ past' = past
              /\ doomed # Idle /\ status # Gone /\ valid' = valid \ {doomed}
        /\ \/ UNCHANGED deletion
           \/ doomed' = owner /\ status # Gone
           \/ doomed' = Idle /\ past' = past
    BY <1>4, OtherStep DEF Next
  <2> QED BY <2>1 DEF deletion
<1> QED BY <1>3, <1>4

-----------------------------------------------------------------------------
\* The variables keep their types, among them uses, which no race of
\* registrations brings past max_uses.
THEOREM TypeCorrect == Spec => []TypeOK
<1>1. Init => IInv
  BY Initially
<1>2. IInv /\ [Next]_vars => IInv'
  BY Inductive
<1>3. IInv => TypeOK
  BY DEF IInv
<1> QED BY <1>1, <1>2, <1>3, PTL DEF Spec

\* Credentials that disconnect_worker has revoked, or that went with the worker,
\* never become valid again, whatever registrations on however many hosts are
\* under way with the same token.
THEOREM RevokedStaysRevoked == Spec => RevokedForGood
<1>1. Init => IInv
  BY Initially
<1>2. IInv /\ [Next]_vars => IInv'
  BY Inductive
<1>3. IInv /\ [Next]_vars => [\A h \in agents \ valid : h \notin valid']_vars
  BY OnlyNewAgents
<1> QED BY <1>1, <1>2, <1>3, PTL DEF Spec, RevokedForGood

\* delete_worker leaves no valid credentials but those of agents registered after
\* the view had read the worker (destroy) or whose worker an overlapping
\* registration had taken, on however many hosts the token is used.
THEOREM DeletionRevokes == Spec => []DeletedHasNoCredentials
<1>1. Init => IInv /\ Known /\ DeletedHasNoCredentials
  BY Initially
<1>2. IInv /\ Known /\ DeletedHasNoCredentials /\ [Next]_vars
      => (IInv /\ Known /\ DeletedHasNoCredentials)'
  BY Inductive, KnownStep
<1> QED BY <1>1, <1>2, PTL DEF Spec
=============================================================================
