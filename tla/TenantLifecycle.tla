--------------------------- MODULE TenantLifecycle ---------------------------
(***************************************************************************)
(* The life of one tenant: its row in the control plane, the operators'    *)
(* requests about it (backend/workers/tenant_services.py and               *)
(* tenant_views.py, backend/lifecycle/services.py), the commands they      *)
(* enqueue, the worker's agent that executes them, and what the            *)
(* acknowledgement of a command does to the row.                           *)
(*                                                                         *)
(* A request is a sequence of database statements and a call to the DNS    *)
(* provider; the agent and the other requests run between them.  The       *)
(* queue itself is the one of AgentCommands, as it behaves while requests  *)
(* of one agent do not overlap: a poll gives up commands the agent no      *)
(* longer holds and hands over the waiting ones, in the order of creation. *)
(***************************************************************************)
EXTENDS Integers, Sequences, FiniteSets

CONSTANTS Requests,      \* server processes that serve operators' requests
          Environments   \* what may happen around the tenant, see env

ASSUME TenantAssumption ==
  Environments \subseteq
    [commands : Nat,     \* bound: no request begins once there are that many commands
     losses : Nat,       \* bound: times the agent forgets what it holds
     kills : Nat,        \* bound: requests killed half way
     slow : BOOLEAN,     \* may a command settle while a request's status update is due?
     repolls : BOOLEAN,  \* do clients ask again for commands that have settled?
     servers : SUBSET Requests]   \* the processes that requests for this tenant reach

Kinds == {"provision", "start", "stop", "bootstrap", "deprovision"}
RuntimeKinds == Kinds \ {"bootstrap"}   \* _RUNTIME_COMMANDS
CommandStates == {"pending", "dispatched", "acked", "failed"}
RuntimeStatuses == {"pending", "provisioning", "running", "stopped", "failed", "deleting"}
BootstrapStatuses == {"pending", "provisioning", "bootstrapped", "failed"}
Gone == "gone"                          \* the tenant's row is deleted

VARIABLES
  env,        \* the environment this behaviour is in; it never changes
  runtime,    \* Tenant.runtime_status, or Gone
  bootstrap,  \* Tenant.bootstrap_status
  apiKey,     \* api_key in Tenant.bootstrap_secrets: the command that made it, 0 if none
  record,     \* a ManagedDnsRecord row of the tenant exists
  zone,       \* the DNS provider has the tenant's record
  cmds,       \* the tenant's AgentCommand rows in the order of created_at
  held,       \* polled commands the agent has not finished
  ran,        \* the outcome of the first of them once it has run, else "none"
  stack,      \* the tenant's containers on the worker
  defined,    \* the worker's compose.yml has the tenant's services
  keys,       \* API keys the tenant's database on the worker accepts
  request,    \* what each server process does for an operator
  losses, kills,
  past        \* of the requests that overlapped: late, those before whose Find and
              \* EnqueueFor another queued the same; doubled, the commands they queued

row == <<runtime, bootstrap, apiKey, record>>
host == <<stack, defined, keys>>
agent == <<held, ran>>
vars == <<row, zone, cmds, agent, host, request, losses, kills, past, env>>

Free == [step |-> "free", kind |-> "none", seen |-> "none"]
Steps == {"find", "dns", "enqueue", "status", "undo_dns", "delete"}

TypeOK ==
  /\ runtime \in RuntimeStatuses \cup {Gone}
  /\ bootstrap \in BootstrapStatuses
  /\ apiKey \in Nat
  /\ record \in BOOLEAN /\ zone \in BOOLEAN
  /\ cmds \in Seq([kind : Kinds, state : CommandStates])
  /\ held \in SUBSET (DOMAIN cmds)
  /\ ran \in {"none", "acked", "failed"}
  /\ stack \in {"none", "running", "stopped"}
  /\ defined \in BOOLEAN
  /\ keys \in SUBSET (DOMAIN cmds)
  /\ request \in [Requests -> {Free} \cup
                   [step : Steps, kind : Kinds, seen : RuntimeStatuses]]
  /\ env \in Environments
  /\ losses \in 0..env.losses /\ kills \in 0..env.kills
  /\ past \in [late : SUBSET Requests, doubled : SUBSET Nat]

\* bulk_create_tenants has created the row.
Init ==
  /\ env \in Environments
  /\ runtime = "pending" /\ bootstrap = "pending" /\ apiKey = 0
  /\ record = FALSE /\ zone = FALSE
  /\ cmds = <<>> /\ held = {} /\ ran = "none"
  /\ stack = "none" /\ defined = FALSE /\ keys = {}
  /\ request = [r \in Requests |-> Free]
  /\ losses = 0 /\ kills = 0
  /\ past = [late |-> {}, doubled |-> {}]

-----------------------------------------------------------------------------
IsOpen(c) == c.state \in {"pending", "dispatched"}   \* _PENDING_STATES

\* Faulty: overlooks the commands the agent has already polled.
HasOpenPendingOnly(kind, cs) ==
  \E i \in DOMAIN cs : cs[i].kind = kind /\ cs[i].state = "pending"

HasOpen(kind, cs) == \E i \in DOMAIN cs : cs[i].kind = kind /\ IsOpen(cs[i])
New(kind) == [kind |-> kind, state |-> "pending"]
Settle(cs, c, outcome) == [cs EXCEPT ![c].state = outcome]

Goto(r, s) == request' = [request EXCEPT ![r].step = s]
Leave(r) == request' = [request EXCEPT ![r] = Free]

\* The runtime_status an acknowledged command reports on success.
ReportedStatus == [provision |-> "running", start |-> "running", stop |-> "stopped"]

-----------------------------------------------------------------------------
(* Faulty variants of definitions below, used only to show that a property *)
(* notices the bug they stand for.                                         *)

FindThenEnqueue(r) ==
  /\ request[r].step = "find"
  /\ IF HasOpen(request[r].kind, cmds)
       THEN IF request[r].kind = "deprovision" /\ request[r].seen # "deleting"
              THEN Goto(r, "status") ELSE Leave(r)
       ELSE Goto(r, "enqueue")
  /\ past' = [past EXCEPT !.late = @ \ {r}]
  /\ UNCHANGED <<row, zone, cmds, agent, host, losses, kills>>

BeginDeleteOfFailed(r) ==
  /\ r \in env.servers
  /\ request[r].step = "free" /\ runtime # Gone /\ Len(cmds) < env.commands
  /\ request' = [request EXCEPT ![r] =
       [step |-> IF runtime \in {"pending", "failed"} THEN "undo_dns" ELSE "find",
        kind |-> "deprovision", seen |-> runtime]]
  /\ UNCHANGED <<row, zone, cmds, agent, host, losses, kills, past>>

RuntimeAfterUnchecked(c) ==
  CASE c.kind = "bootstrap" -> runtime
    [] c.kind = "deprovision" -> IF c.state = "acked" THEN "deprovisioned" ELSE "failed"
    [] OTHER -> IF c.state = "acked" THEN ReportedStatus[c.kind] ELSE "failed"

RuntimeAfterForgetful(c) ==
  CASE c.kind = "bootstrap" -> runtime
    [] c.kind = "deprovision" -> IF c.state = "acked" THEN Gone ELSE runtime
    [] OTHER -> IF c.state = "acked" THEN ReportedStatus[c.kind] ELSE "failed"

KeyAfterAnyBootstrap(i, cs) ==
  IF cs[i].kind = "bootstrap" /\ apiKey = 0 THEN i ELSE apiKey

-----------------------------------------------------------------------------
(* What a settled command does to the row:                                 *)
(* sync_tenant_from_acked_command.                                         *)

RuntimeAfter(c) ==
  CASE c.kind = "bootstrap" -> runtime
    [] c.kind = "deprovision" -> IF c.state = "acked" THEN Gone ELSE "failed"
    [] OTHER -> IF c.state = "acked" THEN ReportedStatus[c.kind] ELSE "failed"

BootstrapAfter(c) ==
  IF c.kind # "bootstrap" THEN bootstrap
  ELSE IF c.state = "acked" THEN "bootstrapped" ELSE "failed"

\* resolve_bootstrap_secrets: the first api_key that is stored stays.
KeyAfter(i, cs) ==
  IF cs[i].kind = "bootstrap" /\ cs[i].state = "acked" /\ apiKey = 0 THEN i ELSE apiKey

\* maybe_enqueue_bootstrap_after_provision
FollowedByBootstrap(c, cs) ==
  /\ c.kind = "provision" /\ c.state = "acked"
  /\ bootstrap \notin {"bootstrapped", "provisioning"}
  /\ ~HasOpen("bootstrap", cs)

\* The record is deleted at the provider on a best effort basis: an error there
\* is ignored and the row of the record is deleted all the same.
RemoveDns == record' = FALSE /\ (IF record THEN zone' \in {FALSE, zone} ELSE UNCHANGED zone)

\* Applies the settled command i of the commands cs.
Sync(i, cs) ==
  IF runtime = Gone
  THEN cmds' = cs /\ UNCHANGED <<row, zone>>
  ELSE
    /\ runtime' = RuntimeAfter(cs[i])
    /\ apiKey' = KeyAfter(i, cs)
    /\ IF FollowedByBootstrap(cs[i], cs)
         THEN cmds' = Append(cs, New("bootstrap")) /\ bootstrap' = "provisioning"
         ELSE cmds' = cs /\ bootstrap' = BootstrapAfter(cs[i])
    /\ IF runtime' = Gone THEN RemoveDns ELSE UNCHANGED <<record, zone>>

-----------------------------------------------------------------------------
(* Operators' requests.  Each Begin reads the tenant's row once; what it    *)
(* read is what the later steps of the request go by.  A request that is    *)
(* rejected changes nothing and is left out.                                *)

Begin(r, kind) ==
  /\ r \in env.servers
  /\ request[r].step = "free" /\ runtime # Gone /\ Len(cmds) < env.commands
  /\ kind \in RuntimeKinds => runtime # "deleting"         \* _reject_if_deleting
  /\ kind = "bootstrap" => bootstrap # "bootstrapped"
  /\ request' = [request EXCEPT ![r] = [step |-> "find", kind |-> kind, seen |-> runtime]]
  /\ UNCHANGED <<row, zone, cmds, agent, host, losses, kills, past>>

\* remove_tenant: a tenant that was never provisioned is deleted at once.
BeginDelete(r) ==
  /\ r \in env.servers
  /\ request[r].step = "free" /\ runtime # Gone /\ Len(cmds) < env.commands
  /\ request' = [request EXCEPT ![r] =
       [step |-> IF runtime = "pending" THEN "undo_dns" ELSE "find",
        kind |-> "deprovision", seen |-> runtime]]
  /\ UNCHANGED <<row, zone, cmds, agent, host, losses, kills, past>>

\* An open command of the kind makes the request a repetition of it.
Find(r) ==
  /\ request[r].step = "find"
  /\ IF HasOpen(request[r].kind, cmds)
       THEN IF request[r].kind = "deprovision" /\ request[r].seen # "deleting"
              THEN Goto(r, "status") ELSE Leave(r)
       ELSE Goto(r, IF request[r].kind = "provision" THEN "dns" ELSE "enqueue")
  /\ past' = [past EXCEPT !.late = @ \ {r}]
  /\ UNCHANGED <<row, zone, cmds, agent, host, losses, kills>>

\* ensure_tenant_dns of a production tenant: the provider's record first, then
\* the row for it, which needs the tenant's row.
EnsureDns(r) ==
  /\ request[r].step = "dns"
  /\ zone' = TRUE
  /\ IF runtime = Gone THEN Leave(r) /\ UNCHANGED record
                       ELSE Goto(r, "enqueue") /\ record' = TRUE
  /\ UNCHANGED <<runtime, bootstrap, apiKey, cmds, agent, host, losses, kills, past>>

\* The requests that have found no command of this kind open, and will queue one.
SameSought(r) == {q \in Requests : /\ request[q].step \in {"dns", "enqueue"}
                                   /\ request[q].kind = request[r].kind}

\* Nothing locks the queue between the look for an open command and this insertion.
EnqueueFor(r) ==
  /\ request[r].step = "enqueue"
  /\ cmds' = Append(cmds, New(request[r].kind))
  /\ IF \/ request[r].kind \in {"provision", "bootstrap"}
        \/ request[r].kind = "deprovision" /\ request[r].seen # "deleting"
       THEN Goto(r, "status") ELSE Leave(r)
  /\ past' = [late |-> (past.late \cup SameSought(r)) \ {r},
              doubled |-> IF r \in past.late THEN past.doubled \cup {Len(cmds) + 1}
                                             ELSE past.doubled]
  /\ UNCHANGED <<row, zone, agent, host, losses, kills>>

\* The status is written whatever has happened to the command meanwhile.
UpdateStatus(r) ==
  /\ request[r].step = "status"
  /\ Leave(r)
  /\ runtime' = IF runtime = Gone THEN Gone
                ELSE CASE request[r].kind = "provision" -> "provisioning"
                       [] request[r].kind = "deprovision" -> "deleting"
                       [] OTHER -> runtime
  /\ bootstrap' = IF runtime # Gone /\ request[r].kind = "bootstrap"
                    THEN "provisioning" ELSE bootstrap
  /\ UNCHANGED <<apiKey, record, zone, cmds, agent, host, losses, kills, past>>

UndoDns(r) ==
  /\ request[r].step = "undo_dns"
  /\ RemoveDns
  /\ Goto(r, "delete")
  /\ UNCHANGED <<runtime, bootstrap, apiKey, cmds, agent, host, losses, kills, past>>

\* tenant.delete(), which takes the rows of its DNS records along.
DeleteRow(r) ==
  /\ request[r].step = "delete"
  /\ runtime' = Gone /\ record' = FALSE
  /\ Leave(r)
  /\ UNCHANGED <<bootstrap, apiKey, zone, cmds, agent, host, losses, kills, past>>

\* The provider refuses, the worker is found offline, or the process is killed.
BreakOff(r) ==
  /\ request[r].step # "free" /\ kills < env.kills
  /\ Leave(r) /\ kills' = kills + 1
  /\ UNCHANGED <<row, zone, cmds, agent, host, losses, past>>

\* WorkerTenantCommandPollView applies a settled command once more.
PollCommand(i) ==
  /\ env.repolls /\ Len(cmds) < env.commands /\ ~IsOpen(cmds[i]) /\ runtime # Gone
  /\ Sync(i, cmds)
  /\ UNCHANGED <<agent, host, request, losses, kills, past>>

-----------------------------------------------------------------------------
(* The worker's agent.                                                      *)

Waiting == {i \in DOMAIN cmds : cmds[i].state = "pending"}
Dropped == {i \in DOMAIN cmds : cmds[i].state = "dispatched"}

\* _expire_stale_dispatched fails the stale ones without touching the tenant.
Poll(stale) ==
  /\ held = {}
  /\ cmds' = [i \in DOMAIN cmds |->
                IF i \in Waiting THEN [cmds[i] EXCEPT !.state = "dispatched"]
                ELSE IF i \in stale THEN [cmds[i] EXCEPT !.state = "failed"] ELSE cmds[i]]
  /\ held' = Waiting
  /\ UNCHANGED <<row, zone, ran, host, request, losses, kills, past>>

\* A provisioning that fails may have started the containers, or only written
\* compose.yml.  So may a bootstrap have made a key, and a deprovisioning have
\* removed the containers, the services from compose.yml after them, and in the
\* end the database.
Effect(i, outcome) ==
  CASE cmds[i].kind = "provision" ->
         /\ \/ stack' = "running" /\ defined' = TRUE
            \/ outcome = "failed" /\ UNCHANGED stack /\ defined' \in {TRUE, defined}
         /\ UNCHANGED keys
    [] cmds[i].kind = "start" ->
         /\ outcome = "acked" => defined
         /\ stack' = IF outcome = "acked" THEN "running" ELSE stack
         /\ UNCHANGED <<defined, keys>>
    [] cmds[i].kind = "stop" ->
         /\ outcome = "acked" => defined
         /\ stack' = IF outcome = "acked" /\ stack # "none" THEN "stopped" ELSE stack
         /\ UNCHANGED <<defined, keys>>
    [] cmds[i].kind = "bootstrap" ->
         /\ outcome = "acked" => stack = "running"
         /\ keys' \in {keys \cup {i}} \cup (IF outcome = "failed" THEN {keys} ELSE {})
         /\ UNCHANGED <<stack, defined>>
    [] cmds[i].kind = "deprovision" ->
         IF outcome = "acked"
         THEN stack' = "none" /\ defined' \in {FALSE, defined} /\ keys' = {}
         ELSE /\ \/ UNCHANGED <<stack, defined>>
                 \/ stack' = "none" /\ defined' \in {FALSE, defined}
              /\ keys' \in {keys, {}}

Execute(i, outcome) ==
  /\ ran = "none" /\ \A j \in held : i <= j
  /\ Effect(i, outcome)
  /\ ran' = outcome
  /\ UNCHANGED <<row, zone, cmds, held, request, losses, kills, past>>

\* AgentCommandAckView: the outcome and what follows from it, in one transaction.
Ack(i) ==
  /\ ran # "none" /\ \A j \in held : i <= j
  /\ env.slow \/ \A r \in Requests : request[r].step # "status"
  /\ Sync(i, Settle(cmds, i, ran))
  /\ held' = held \ {i} /\ ran' = "none"
  /\ UNCHANGED <<host, request, losses, kills, past>>

\* A failed request or a restart: the agent forgets its batch, and the outcome
\* of a command that ran is never reported.
Lose ==
  /\ held # {} /\ losses < env.losses
  /\ held' = {} /\ ran' = "none" /\ losses' = losses + 1
  /\ UNCHANGED <<row, zone, cmds, host, request, kills, past>>

RequestStep(r) ==
  \/ Find(r) \/ EnsureDns(r) \/ EnqueueFor(r) \/ UpdateStatus(r)
  \/ UndoDns(r) \/ DeleteRow(r)

AgentStep ==
  \/ \E stale \in SUBSET Dropped : Poll(stale)
  \/ \E i \in held, outcome \in {"acked", "failed"} : Execute(i, outcome)
  \/ \E i \in held : Ack(i)

Next ==
  /\ UNCHANGED env
  /\ \/ \E r \in Requests : \/ \E kind \in Kinds \ {"deprovision"} : Begin(r, kind)
                            \/ BeginDelete(r) \/ RequestStep(r) \/ BreakOff(r)
     \/ AgentStep
     \/ \E i \in DOMAIN cmds : PollCommand(i)
     \/ Lose

\* A request that has begun goes on, and the agent polls, executes and reports.
Fairness == /\ WF_vars(AgentStep /\ UNCHANGED env)
            /\ \A r \in Requests : WF_vars(RequestStep(r) /\ UNCHANGED env)

Spec == Init /\ [][Next]_vars
FairSpec == Spec /\ Fairness

-----------------------------------------------------------------------------
\* Every acknowledgement arrives, no command settles before the request that
\* queued it has finished, and settled commands are not looked at again.
Calm == env.losses = 0 /\ ~env.slow /\ ~env.repolls

Quiet == /\ \A i \in DOMAIN cmds : ~IsOpen(cmds[i])
         /\ \A r \in Requests : request[r].step = "free"

\* Requests for the tenant follow each other.
Serial == \A q, r \in env.servers : q = r

\* While requests follow each other and none was cut short, a tenant's row is deleted
\* only when the worker has no containers of it: a row never vanishes in front of a stack that still
\* runs.  (Cut short after it enqueued a provisioning, a request leaves a tenant
\* that looks as if it had never been provisioned.)
NoStackLeftBehind ==
  [][(Serial /\ kills = 0 /\ runtime # Gone /\ runtime' = Gone) => stack = "none"]_vars

\* Repeating a request does not repeat its work, whether the first command waits
\* or is already with the agent: two open commands of one runtime kind exist only if
\* two server processes served such requests at once, and the second looked for an
\* open command before the first had queued its own.
OneOpenCommand ==
  \A i, j \in DOMAIN cmds :
    /\ i < j /\ cmds[i].kind = cmds[j].kind
    /\ cmds[i].kind \in RuntimeKinds
    /\ IsOpen(cmds[i]) /\ IsOpen(cmds[j])
    => j \in past.doubled

\* While the worker runs the containers of a tenant that exists, its host
\* names are at the DNS provider: while requests follow each other and none was cut
\* short, no step removes or forgets them too early.
RunningIsResolvable == Serial /\ kills = 0 /\ stack = "running" /\ runtime # Gone => zone

\* In a calm environment, once every command has settled, the status tells what the worker runs, and
\* no tenant is left in a status that only an open command could end.
StatusTellsStack ==
  Calm /\ Quiet =>
           /\ runtime = "running" => stack = "running"
           /\ runtime = "stopped" => stack # "running"
           /\ runtime \notin {"provisioning", "deleting"}
           /\ runtime # Gone => bootstrap # "provisioning"

\* In a calm environment the API key on record is one the tenant's database on the worker accepts, up
\* to a removal that fails: it may have dropped the database on the way.
KeyOnRecordWorks ==
  /\ Calm /\ runtime # Gone /\ apiKey # 0 /\ ran = "none"
  /\ \A i \in DOMAIN cmds : cmds[i].kind = "deprovision" => cmds[i].state # "failed"
  => apiKey \in keys

\* In a calm environment a removal ends: the tenant is deleted or its removal is reported as failed.
RemovalEnds == (Calm /\ runtime = "deleting") ~> (runtime # "deleting")

\* A tenant that is being removed gets no more work: behind an open removal no
\* command is queued that would bring its stack back.
NothingBehindRemoval ==
  \A i, j \in DOMAIN cmds :
    i < j /\ cmds[i].kind = "deprovision" /\ IsOpen(cmds[i])
      => cmds[j].kind \notin {"provision", "start"}
-----------------------------------------------------------------------------
(* What the runs give for Environments.                                     *)

One == {CHOOSE r \in Requests : TRUE}

\* One request at a time, each of which may be cut short.
CalmOne == [commands |-> 4, losses |-> 0, kills |-> 1, slow |-> FALSE, repolls |-> FALSE,
            servers |-> One]

\* Lost acknowledgements, commands that overtake the request that queued them,
\* and clients that poll settled commands.
Rough == [commands |-> 3, losses |-> 2, kills |-> 0, slow |-> TRUE, repolls |-> TRUE,
          servers |-> One]

\* Two server processes, an acknowledgement that is lost or comes early.
Crowded == [commands |-> 2, losses |-> 1, kills |-> 0, slow |-> TRUE, repolls |-> FALSE,
            servers |-> Requests]

CalmRoughAndCrowded == {CalmOne, Rough, Crowded}
CalmOnly == {[CalmOne EXCEPT !.kills = 0]}
=============================================================================
