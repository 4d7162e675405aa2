----------------------- MODULE TenantLifecycleProofs -----------------------
(***************************************************************************)
(* Proofs about TenantLifecycle, for any number of commands, of lost       *)
(* acknowledgements and of requests cut short, with commands that overtake *)
(* the request that queued them and clients that poll settled commands.    *)
(* That work is not repeated, and that status and key are those of the     *)
(* host, is proved for any number of server processes; that no stack is    *)
(* left behind for environments in which requests follow each other.       *)
(***************************************************************************)
EXTENDS TenantLifecycle, TLAPS

Command == [kind : Kinds, state : CommandStates]

\* new is what the tenant's commands may become in a step: none goes, none
\* opens again, and at most one of the kinds is added.
Grown(new, kinds) ==
  /\ new \in Seq(Command)
  /\ Len(new) \in {Len(cmds), Len(cmds) + 1}
  /\ \A i \in 1..Len(cmds) : /\ new[i].kind = cmds[i].kind
                             /\ IsOpen(new[i]) => IsOpen(cmds[i])
                             /\ cmds[i].state = "acked" => new[i].state = "acked"
  /\ \A i \in 1..Len(new) : i > Len(cmds) => new[i].kind \in kinds /\ new[i].state = "pending"

LEMMA WithState ==
  ASSUME NEW c \in Command, NEW s \in CommandStates
  PROVE  /\ [c EXCEPT !.state = s] = [kind |-> c.kind, state |-> s]
         /\ [kind |-> c.kind, state |-> s] \in Command
  BY DEF Command

LEMMA SettleGrows ==
  ASSUME cmds \in Seq(Command), NEW i \in DOMAIN cmds, NEW o \in {"acked", "failed"},
         cmds[i].state # "acked"
  PROVE  /\ Grown(Settle(cmds, i, o), {})
         /\ Len(Settle(cmds, i, o)) = Len(cmds)
         /\ Settle(cmds, i, o)[i] = [kind |-> cmds[i].kind, state |-> o]
<1> DEFINE c == [kind |-> cmds[i].kind, state |-> o]
<1>0. cmds[i] \in Command /\ o \in CommandStates
  BY DEF CommandStates
<1>1. c \in Command /\ [cmds[i] EXCEPT !.state = o] = c
  BY <1>0, WithState
<1>2. Settle(cmds, i, o) = [cmds EXCEPT ![i] = c]
  BY <1>1 DEF Settle
<1>3. c.kind = cmds[i].kind /\ c.state = o /\ ~IsOpen(c)
  BY DEF IsOpen
<1> HIDE DEF c
<1>4. /\ [cmds EXCEPT ![i] = c] \in Seq(Command)
      /\ Len([cmds EXCEPT ![i] = c]) = Len(cmds)
      /\ \A j \in 1..Len(cmds) : [cmds EXCEPT ![i] = c][j] = IF j = i THEN c ELSE cmds[j]
  BY <1>1
<1>5. Grown([cmds EXCEPT ![i] = c], {})
  BY <1>3, <1>4 DEF Grown
<1>6. QED
  BY <1>2, <1>4, <1>5 DEF c

LEMMA SameGrows ==
  ASSUME cmds \in Seq(Command) PROVE Grown(cmds, {})
  BY DEF Grown

LEMMA AppendGrows ==
  ASSUME NEW cs \in Seq(Command), Grown(cs, {}), Len(cs) = Len(cmds), NEW k \in Kinds
  PROVE  Grown(Append(cs, New(k)), {k})
  BY DEF Grown, New, Command, CommandStates, IsOpen

\* Applying a settled command of cs: the row stays typed, at most a bootstrap
\* follows, and the row goes only with a removal that succeeded.
LEMMA SyncRow ==
  ASSUME TypeOK, NEW cs, Grown(cs, {}), Len(cs) = Len(cmds), NEW i \in DOMAIN cmds,
         cs[i].state \in {"acked", "failed"}, Sync(i, cs)
  PROVE  /\ Grown(cmds', {"bootstrap"})
         /\ \A j \in DOMAIN cmds : cmds'[j] = cs[j]
         /\ runtime' \in RuntimeStatuses \cup {Gone} /\ bootstrap' \in BootstrapStatuses
         /\ apiKey' \in Nat /\ record' \in BOOLEAN /\ zone' \in BOOLEAN
         /\ zone' = zone \/ runtime' = Gone
         /\ runtime # "pending" => runtime' # "pending"
         /\ cs[i].kind = "provision" => runtime' # "pending"
         /\ runtime' = Gone <=> \/ runtime = Gone
                                \/ cs[i].kind = "deprovision" /\ cs[i].state = "acked"
<1> USE DEF TypeOK
<1>1. /\ cs \in Seq(Command) /\ DOMAIN cs = DOMAIN cmds /\ DOMAIN cmds = 1..Len(cmds)
      /\ cs[i] \in Command
  BY DEF Grown
<1>2. CASE runtime = Gone
  <2>1. cmds' = cs /\ UNCHANGED <<row, zone>>
    BY <1>2 DEF Sync
  <2>2. QED
    BY <1>1, <1>2, <2>1 DEF Grown, row, Gone
<1>3. CASE runtime # Gone
  <2>1. /\ runtime' = RuntimeAfter(cs[i])
        /\ apiKey' = KeyAfter(i, cs)
        /\ \/ cmds' = Append(cs, New("bootstrap")) /\ bootstrap' = "provisioning"
           \/ cmds' = cs /\ bootstrap' = BootstrapAfter(cs[i])
        /\ IF runtime' = Gone THEN RemoveDns ELSE UNCHANGED <<record, zone>>
    BY <1>3 DEF Sync
  <2>2. Grown(cmds', {"bootstrap"}) /\ \A j \in DOMAIN cmds : cmds'[j] = cs[j]
    <3>1. CASE cmds' = cs
      BY <3>1, <1>1 DEF Grown
    <3>2. CASE cmds' = Append(cs, New("bootstrap"))
      <4>1. Grown(cmds', {"bootstrap"})
        BY <3>2, <1>1, AppendGrows DEF Kinds
      <4>2. QED
        BY <4>1, <3>2, <1>1
    <3>3. QED
      BY <2>1, <3>1, <3>2
  <2>3. /\ runtime' \in RuntimeStatuses \cup {Gone}
        /\ runtime # "pending" => runtime' # "pending"
        /\ cs[i].kind = "provision" => runtime' # "pending"
        /\ runtime' = Gone <=> cs[i].kind = "deprovision" /\ cs[i].state = "acked"
    BY <1>1, <1>3, <2>1 DEF RuntimeAfter, ReportedStatus, RuntimeStatuses, Gone, Command, Kinds
  <2>4. bootstrap' \in BootstrapStatuses /\ apiKey' \in Nat
    BY <1>1, <2>1 DEF BootstrapAfter, BootstrapStatuses, KeyAfter
  <2>5. record' \in BOOLEAN /\ zone' \in BOOLEAN /\ (zone' = zone \/ runtime' = Gone)
    BY <2>1 DEF RemoveDns
  <2>6. QED
    BY <1>3, <2>2, <2>3, <2>4, <2>5
<1>4. QED
  BY <1>2, <1>3

\* What the agent holds has been handed to it, and it has an outcome only while
\* it holds something.
HeldInv ==
  /\ \A i \in held : cmds[i].state = "dispatched"
  /\ held = {} => ran = "none"

LEMMA PollGrows ==
  ASSUME TypeOK, NEW stale \in SUBSET Dropped, Poll(stale)
  PROVE  /\ Grown(cmds', {}) /\ Len(cmds') = Len(cmds)
         /\ \A i \in held' : cmds'[i].state = "dispatched"
         /\ held' \in SUBSET (DOMAIN cmds)
         /\ \A i \in DOMAIN cmds' : cmds'[i].state = "acked" => cmds[i].state = "acked"
<1> DEFINE after(i) == IF i \in Waiting THEN [cmds[i] EXCEPT !.state = "dispatched"]
                       ELSE IF i \in stale THEN [cmds[i] EXCEPT !.state = "failed"] ELSE cmds[i]
<1>1. cmds \in Seq(Command) /\ DOMAIN cmds = 1..Len(cmds) /\ Len(cmds) \in Nat
  BY DEF TypeOK, Command
<1>2. \A i \in DOMAIN cmds : /\ after(i) \in Command /\ after(i).kind = cmds[i].kind
                             /\ IsOpen(after(i)) => IsOpen(cmds[i])
                             /\ cmds[i].state = "acked" <=> after(i).state = "acked"
                             /\ i \in Waiting => after(i).state = "dispatched"
  <2> SUFFICES ASSUME NEW i \in DOMAIN cmds
               PROVE  /\ after(i) \in Command /\ after(i).kind = cmds[i].kind
                      /\ IsOpen(after(i)) => IsOpen(cmds[i])
                      /\ cmds[i].state = "acked" <=> after(i).state = "acked"
                      /\ i \in Waiting => after(i).state = "dispatched"
    OBVIOUS
  <2>1. cmds[i] \in Command
    BY <1>1
  <2>2. /\ [cmds[i] EXCEPT !.state = "dispatched"] = [kind |-> cmds[i].kind, state |-> "dispatched"]
        /\ [kind |-> cmds[i].kind, state |-> "dispatched"] \in Command
    BY <2>1, WithState DEF CommandStates
  <2>3. /\ [cmds[i] EXCEPT !.state = "failed"] = [kind |-> cmds[i].kind, state |-> "failed"]
        /\ [kind |-> cmds[i].kind, state |-> "failed"] \in Command
    BY <2>1, WithState DEF CommandStates
  <2>4. QED
    BY <2>1, <2>2, <2>3 DEF IsOpen, Waiting, Dropped
<1>3. cmds' = [i \in DOMAIN cmds |-> after(i)] /\ held' = Waiting
  BY DEF Poll
<1> HIDE DEF after
<1>4. /\ cmds' \in [1..Len(cmds) -> Command] /\ DOMAIN cmds' = 1..Len(cmds)
      /\ \A i \in 1..Len(cmds) : cmds'[i] = after(i)
  BY <1>1, <1>2, <1>3
<1>5. cmds' \in Seq(Command) /\ Len(cmds') = Len(cmds)
  BY <1>1, <1>4
<1>6. Waiting \subseteq DOMAIN cmds
  BY DEF Waiting
<1>7. QED
  BY <1>1, <1>2, <1>3, <1>4, <1>5, <1>6 DEF Grown

LEMMA EnqueueGrows ==
  ASSUME TypeOK, NEW r \in Requests, EnqueueFor(r)
  PROVE  Grown(cmds', {request[r].kind}) /\ request[r].kind \in Kinds
<1>1. request[r].kind \in Kinds
  BY DEF TypeOK, EnqueueFor, Free
<1>2. cmds \in Seq(Command)
  BY DEF TypeOK, Command
<1>3. QED
  BY <1>1, <1>2, SameGrows, AppendGrows DEF EnqueueFor

\* An acknowledgement settles what it is about, and applies it.
LEMMA AckGrows ==
  ASSUME TypeOK, HeldInv, NEW i \in held, Ack(i)
  PROVE  /\ i \in DOMAIN cmds /\ ran \in {"acked", "failed"}
         /\ Sync(i, Settle(cmds, i, ran))
         /\ Grown(Settle(cmds, i, ran), {}) /\ Len(Settle(cmds, i, ran)) = Len(cmds)
         /\ Settle(cmds, i, ran)[i].kind = cmds[i].kind
         /\ Settle(cmds, i, ran)[i].state = ran
         /\ \A j \in held' : Settle(cmds, i, ran)[j].state = "dispatched"
         /\ \A j \in DOMAIN cmds \ {i} : Settle(cmds, i, ran)[j] = cmds[j]
<1>1. /\ i \in DOMAIN cmds /\ ran \in {"acked", "failed"} /\ cmds \in Seq(Command)
      /\ cmds[i].state # "acked" /\ Sync(i, Settle(cmds, i, ran)) /\ held' = held \ {i}
  BY DEF TypeOK, HeldInv, Ack, Command
<1>2. /\ \A j \in held' : Settle(cmds, i, ran)[j] = cmds[j]
      /\ \A j \in DOMAIN cmds \ {i} : Settle(cmds, i, ran)[j] = cmds[j]
  BY <1>1 DEF Settle, TypeOK
<1>3. /\ Grown(Settle(cmds, i, ran), {}) /\ Len(Settle(cmds, i, ran)) = Len(cmds)
      /\ Settle(cmds, i, ran)[i] = [kind |-> cmds[i].kind, state |-> ran]
  BY <1>1, SettleGrows
<1>4. \A j \in held' : cmds[j].state = "dispatched"
  BY <1>1 DEF HeldInv
<1>5. QED
  BY <1>1, <1>2, <1>3, <1>4

LEMMA RepollGrows ==
  ASSUME TypeOK, NEW i \in DOMAIN cmds, PollCommand(i)
  PROVE  /\ Grown(cmds, {}) /\ Len(cmds) = Len(cmds) /\ Sync(i, cmds)
         /\ cmds[i].state \in {"acked", "failed"}
<1>1. cmds \in Seq(Command)
  BY DEF TypeOK, Command
<1>2. cmds[i] \in Command /\ ~IsOpen(cmds[i])
  BY <1>1 DEF PollCommand
<1>3. cmds[i].state \in {"acked", "failed"}
  BY <1>2 DEF IsOpen, Command, CommandStates
<1>4. QED
  BY <1>1, <1>3, SameGrows DEF PollCommand

\* What a request works on keeps its type from step to step.
LEMMA RequestType ==
  ASSUME TypeOK, NEW r \in Requests, request[r].step # "free"
  PROVE  /\ request[r] \in [step : Steps, kind : Kinds, seen : RuntimeStatuses]
         /\ Leave(r) =>
              /\ request' \in [Requests -> {Free} \cup
                                  [step : Steps, kind : Kinds, seen : RuntimeStatuses]]
              /\ request'[r].step = "free"
              /\ \A q \in Requests \ {r} : request'[q] = request[q]
         /\ \A s \in Steps : Goto(r, s) =>
              /\ request' \in [Requests -> {Free} \cup
                                  [step : Steps, kind : Kinds, seen : RuntimeStatuses]]
              /\ request'[r].step = s /\ request'[r].kind = request[r].kind
              /\ \A q \in Requests \ {r} : request'[q] = request[q]
<1> DEFINE Job == [step : Steps, kind : Kinds, seen : RuntimeStatuses]
<1>1. request \in [Requests -> {Free} \cup Job] /\ request[r] \in Job
  BY DEF TypeOK, Free
<1>2. ASSUME NEW s \in Steps
      PROVE  /\ [request[r] EXCEPT !.step = s]
                   = [step |-> s, kind |-> request[r].kind, seen |-> request[r].seen]
             /\ [step |-> s, kind |-> request[r].kind, seen |-> request[r].seen] \in Job
  BY <1>1
<1>3. ASSUME NEW s \in Steps, Goto(r, s)
      PROVE  request' = [request EXCEPT ![r] =
                           [step |-> s, kind |-> request[r].kind, seen |-> request[r].seen]]
  BY <1>2, <1>3 DEF Goto
<1> HIDE DEF Job
<1>4. ASSUME NEW s \in Steps, Goto(r, s)
      PROVE  /\ request' \in [Requests -> {Free} \cup Job]
             /\ request'[r].step = s /\ request'[r].kind = request[r].kind
             /\ \A q \in Requests \ {r} : request'[q] = request[q]
  BY <1>1, <1>2, <1>3, <1>4
<1>5. Leave(r) => /\ request' \in [Requests -> {Free} \cup Job]
                  /\ request'[r].step = "free"
                  /\ \A q \in Requests \ {r} : request'[q] = request[q]
  BY <1>1 DEF Leave, Free
<1>6. QED
  BY <1>1, <1>4, <1>5 DEF Job

\* What any step does to the commands.
LEMMA CommandsGrow ==
  ASSUME TypeOK, HeldInv, [Next]_vars
  PROVE  \/ Grown(cmds', {"bootstrap"})
         \/ \E r \in Requests : EnqueueFor(r) /\ Grown(cmds', {request[r].kind})
<1>0. cmds \in Seq(Command)
  BY DEF TypeOK, Command
<1>1. CASE UNCHANGED cmds
  BY <1>0, <1>1 DEF Grown
<1>2. ASSUME NEW r \in Requests, EnqueueFor(r) PROVE Grown(cmds', {request[r].kind})
  BY <1>2, EnqueueGrows
<1>3. ASSUME NEW stale \in SUBSET Dropped, Poll(stale) PROVE Grown(cmds', {"bootstrap"})
  BY <1>3, PollGrows DEF Grown
<1>4. ASSUME NEW i \in held, Ack(i) PROVE Grown(cmds', {"bootstrap"})
  <2> DEFINE cs == Settle(cmds, i, ran)
  <2>1. /\ i \in DOMAIN cmds /\ cs[i].state \in {"acked", "failed"} /\ Sync(i, cs)
        /\ Grown(cs, {}) /\ Len(cs) = Len(cmds)
    BY <1>4, AckGrows
  <2> HIDE DEF cs
  <2>2. QED
    BY <2>1, SyncRow
<1>5. ASSUME NEW i \in DOMAIN cmds, PollCommand(i) PROVE Grown(cmds', {"bootstrap"})
  BY <1>5, RepollGrows, SyncRow
<1>6. QED
  BY <1>1, <1>2, <1>3, <1>4, <1>5
     DEF Next, vars, Begin, BeginDelete, RequestStep, BreakOff, AgentStep, Lose, Find, EnsureDns,
         UpdateStatus, UndoDns, DeleteRow, Execute

-----------------------------------------------------------------------------
LEMMA TypeStep ==
  ASSUME TypeOK, HeldInv, [Next]_vars
  PROVE  TypeOK' /\ HeldInv'
<1>0. /\ env.commands \in Nat /\ env.losses \in Nat /\ env.kills \in Nat
      /\ env.slow \in BOOLEAN /\ env.repolls \in BOOLEAN
  BY TenantAssumption DEF TypeOK, TenantAssumption
<1>1. CASE UNCHANGED vars
  BY <1>1 DEF TypeOK, HeldInv, vars, row, host, agent
<1> SUFFICES ASSUME Next PROVE TypeOK' /\ HeldInv'
  BY <1>1
<1>2. env' = env
  BY DEF Next
<1>3. ASSUME NEW r \in Requests, NEW kind \in Kinds \ {"deprovision"}, Begin(r, kind)
      PROVE TypeOK' /\ HeldInv'
  BY <1>2, <1>3 DEF TypeOK, HeldInv, Begin, row, host, agent, Steps, Gone
<1>4. ASSUME NEW r \in Requests, BeginDelete(r) PROVE TypeOK' /\ HeldInv'
  BY <1>2, <1>4 DEF TypeOK, HeldInv, BeginDelete, row, host, agent, Steps, Gone, Kinds
<1>5. ASSUME NEW r \in Requests, Find(r) \/ EnsureDns(r) PROVE TypeOK' /\ HeldInv'
  <2>1. request' \in [Requests -> {Free} \cup [step : Steps, kind : Kinds, seen : RuntimeStatuses]]
    BY <1>5, RequestType DEF Find, EnsureDns, Steps
  <2>2. past' \in [late : SUBSET Requests, doubled : SUBSET Nat]
    BY <1>5 DEF TypeOK, Find, EnsureDns
  <2>3. QED
    BY <1>2, <1>5, <2>1, <2>2 DEF TypeOK, HeldInv, Find, EnsureDns, row, host, agent
<1>6. ASSUME NEW r \in Requests, EnqueueFor(r) PROVE TypeOK' /\ HeldInv'
  <2>1. Grown(cmds', {request[r].kind})
    BY <1>6, EnqueueGrows
  <2>2. cmds' \in Seq(Command) /\ DOMAIN cmds \subseteq DOMAIN cmds' /\ \A i \in DOMAIN cmds : cmds'[i] = cmds[i]
    BY <2>1, <1>6 DEF Grown, EnqueueFor
  <2>3. request' \in [Requests -> {Free} \cup [step : Steps, kind : Kinds, seen : RuntimeStatuses]]
    BY <1>6, RequestType DEF EnqueueFor, Steps
  <2>4. past' \in [late : SUBSET Requests, doubled : SUBSET Nat]
    BY <1>6 DEF TypeOK, EnqueueFor, SameSought
  <2>5. QED
    BY <1>2, <1>6, <2>2, <2>3, <2>4 DEF TypeOK, HeldInv, EnqueueFor, row, host, agent, Command
<1>7. ASSUME NEW r \in Requests, UpdateStatus(r) PROVE TypeOK' /\ HeldInv'
  BY <1>2, <1>7 DEF TypeOK, HeldInv, UpdateStatus, Leave, host, agent, RuntimeStatuses, BootstrapStatuses, Gone
<1>8. ASSUME NEW r \in Requests, UndoDns(r) \/ DeleteRow(r) PROVE TypeOK' /\ HeldInv'
  <2>1. request' \in [Requests -> {Free} \cup [step : Steps, kind : Kinds, seen : RuntimeStatuses]]
    BY <1>8, RequestType DEF UndoDns, DeleteRow, Steps
  <2>2. QED
    BY <1>2, <1>8, <2>1 DEF TypeOK, HeldInv, UndoDns, DeleteRow, RemoveDns, host, agent
<1>9. ASSUME NEW r \in Requests, BreakOff(r) PROVE TypeOK' /\ HeldInv'
  BY <1>0, <1>2, <1>9 DEF TypeOK, HeldInv, BreakOff, Leave, row, host, agent
<1>10. ASSUME NEW stale \in SUBSET Dropped, Poll(stale) PROVE TypeOK' /\ HeldInv'
  <2>1. cmds' \in Seq(Command) /\ DOMAIN cmds' = DOMAIN cmds
    BY <1>10, PollGrows DEF Grown
  <2>2. \A i \in held' : cmds'[i].state = "dispatched"
    BY <1>10, PollGrows
  <2>3. held' \in SUBSET (DOMAIN cmds) /\ ran' = ran /\ ran = "none"
    BY <1>10, PollGrows DEF Poll, HeldInv
  <2>4. QED
    BY <1>2, <1>10, <2>1, <2>2, <2>3 DEF TypeOK, HeldInv, Poll, row, host, Command
<1>11. ASSUME NEW i \in held, NEW o \in {"acked", "failed"}, Execute(i, o) PROVE TypeOK' /\ HeldInv'
  <2>1. /\ stack' \in {"none", "running", "stopped"} /\ defined' \in BOOLEAN
        /\ keys' \in SUBSET (DOMAIN cmds)
    <3>1. i \in DOMAIN cmds /\ Effect(i, o) /\ cmds \in Seq(Command)
      BY <1>11 DEF TypeOK, Execute, Command
    <3>6. cmds[i].kind \in Kinds
      <4>1. cmds[i] \in Command
        BY <3>1
      <4>2. QED
        BY <4>1 DEF Command
    <3>2. CASE cmds[i].kind \in {"provision", "start", "stop"}
      BY <3>1, <3>2 DEF TypeOK, Effect
    <3>3. CASE cmds[i].kind = "bootstrap"
      BY <3>1, <3>3 DEF TypeOK, Effect
    <3>4. CASE cmds[i].kind = "deprovision"
      BY <3>1, <3>4 DEF TypeOK, Effect
    <3>5. QED
      BY <3>2, <3>3, <3>4, <3>6 DEF Kinds
  <2>2. QED
    BY <1>2, <1>11, <2>1 DEF TypeOK, HeldInv, Execute, row
<1>12. ASSUME NEW i \in held, Ack(i) PROVE TypeOK' /\ HeldInv'
  <2> DEFINE cs == Settle(cmds, i, ran)
  <2>1. /\ i \in DOMAIN cmds /\ ran \in {"acked", "failed"} /\ Sync(i, cs)
        /\ Grown(cs, {}) /\ Len(cs) = Len(cmds) /\ cs[i].state = ran
        /\ \A j \in held' : cs[j].state = "dispatched"
    BY <1>12, AckGrows
  <2> HIDE DEF cs
  <2>2. /\ Grown(cmds', {"bootstrap"}) /\ \A j \in DOMAIN cmds : cmds'[j] = cs[j]
        /\ runtime' \in RuntimeStatuses \cup {Gone} /\ bootstrap' \in BootstrapStatuses
        /\ apiKey' \in Nat /\ record' \in BOOLEAN /\ zone' \in BOOLEAN
    BY <2>1, SyncRow
  <2>3. cmds' \in Seq(Command) /\ DOMAIN cmds \subseteq DOMAIN cmds'
    BY <2>2 DEF Grown
  <2>4. held' = held \ {i} /\ ran' = "none"
    BY <1>12 DEF TypeOK, HeldInv, Ack
  <2>5. QED
    BY <1>2, <1>12, <2>1, <2>2, <2>3, <2>4 DEF TypeOK, HeldInv, Ack, host, Command
<1>13. ASSUME NEW i \in DOMAIN cmds, PollCommand(i) PROVE TypeOK' /\ HeldInv'
  <2>1. /\ Grown(cmds', {"bootstrap"}) /\ \A j \in DOMAIN cmds : cmds'[j] = cmds[j]
        /\ runtime' \in RuntimeStatuses \cup {Gone} /\ bootstrap' \in BootstrapStatuses
        /\ apiKey' \in Nat /\ record' \in BOOLEAN /\ zone' \in BOOLEAN
    BY <1>13, RepollGrows, SyncRow
  <2>2. cmds' \in Seq(Command) /\ DOMAIN cmds \subseteq DOMAIN cmds'
    BY <2>1 DEF Grown
  <2>3. QED
    BY <1>2, <1>13, <2>1, <2>2 DEF TypeOK, HeldInv, PollCommand, host, agent, Command
<1>14. CASE Lose
  BY <1>0, <1>2, <1>14 DEF TypeOK, HeldInv, Lose, row, host
<1>15. QED
  BY <1>3, <1>4, <1>5, <1>6, <1>7, <1>8, <1>9, <1>10, <1>11, <1>12, <1>13, <1>14
     DEF Next, RequestStep, AgentStep

-----------------------------------------------------------------------------
(* Any number of requests at a time.                                        *)

\* A request that is about to queue a command has seen none of its kind open,
\* and unless another was quicker none is.
OpenInv ==
  \A r \in Requests \ past.late :
    request[r].step \in {"dns", "enqueue"} /\ request[r].kind \in RuntimeKinds
      => ~HasOpen(request[r].kind, cmds)

LEMMA OpenStep ==
  ASSUME TypeOK, HeldInv, OneOpenCommand, OpenInv, [Next]_vars
  PROVE  OneOpenCommand' /\ OpenInv'
<1>1. cmds \in Seq(Command)
  BY DEF TypeOK, Command
<1>2. ASSUME Grown(cmds', {"bootstrap"}), past.doubled \subseteq past'.doubled
      PROVE  OneOpenCommand'
  BY <1>1, <1>2 DEF Grown, OneOpenCommand, RuntimeKinds
<1>3. ASSUME Grown(cmds', {"bootstrap"}), NEW k \in RuntimeKinds, ~HasOpen(k, cmds)
      PROVE  ~HasOpen(k, cmds')
  BY <1>1, <1>3 DEF Grown, HasOpen, RuntimeKinds
<1>4. ASSUME NEW r \in Requests, EnqueueFor(r) PROVE OneOpenCommand' /\ OpenInv'
  <2>1. /\ cmds' = Append(cmds, New(request[r].kind))
        /\ past'.late = (past.late \cup SameSought(r)) \ {r}
        /\ past'.doubled = IF r \in past.late THEN past.doubled \cup {Len(cmds) + 1}
                                              ELSE past.doubled
        /\ r \notin past.late /\ request[r].kind \in RuntimeKinds
             => ~HasOpen(request[r].kind, cmds)
    BY <1>4 DEF EnqueueFor, OpenInv
  <2>2. /\ request'[r].step \in {"status", "free"}
        /\ \A q \in Requests \ {r} : request'[q] = request[q]
    BY <1>4, RequestType DEF EnqueueFor, Steps
  <2>3. OneOpenCommand'
    BY <1>1, <2>1 DEF OneOpenCommand, HasOpen, New
  <2>4. ASSUME NEW q \in Requests \ past'.late, request'[q].step \in {"dns", "enqueue"},
               request'[q].kind \in RuntimeKinds
        PROVE  ~HasOpen(request'[q].kind, cmds')
    <3>1. /\ q # r /\ q \notin past.late /\ request'[q] = request[q]
          /\ request[q].kind # request[r].kind
      BY <2>1, <2>2, <2>4 DEF SameSought
    <3>2. ~HasOpen(request[q].kind, cmds)
      BY <2>4, <3>1 DEF OpenInv
    <3>3. QED
      BY <1>1, <2>1, <3>1, <3>2 DEF HasOpen, New
  <2>5. QED
    BY <2>3, <2>4 DEF OpenInv
<1>5. ASSUME Grown(cmds', {"bootstrap"}),
             \A r \in Requests : ~EnqueueFor(r)
      PROVE  OneOpenCommand' /\ OpenInv'
  <2>1. past'.doubled = past.doubled
    BY <1>5 DEF Next, vars, Begin, BeginDelete, RequestStep, BreakOff, AgentStep, Lose, Find,
                EnsureDns, UpdateStatus, UndoDns, DeleteRow, Execute, Poll, Ack, PollCommand, TypeOK
  <2>2. ASSUME NEW r \in Requests \ past'.late, request'[r].step \in {"dns", "enqueue"},
               request'[r].kind \in RuntimeKinds
        PROVE  ~HasOpen(request'[r].kind, cmds)
    <3>1. CASE request'[r] = request[r] /\ past' = past
      BY <2>2, <3>1 DEF OpenInv
    <3>2. ASSUME NEW q \in Requests, Find(q) PROVE ~HasOpen(request'[r].kind, cmds)
      <4>1. /\ past'.late = past.late \ {q}
            /\ \A p \in Requests \ {q} : request'[p] = request[p]
        BY <3>2, RequestType DEF Find, Steps, TypeOK
      <4>2. CASE r = q
        BY <2>2, <3>2, <4>2, RequestType DEF Find, Steps
      <4>3. CASE r # q
        BY <2>2, <4>1, <4>3 DEF OpenInv
      <4>4. QED
        BY <4>2, <4>3
    <3>3. ASSUME NEW q \in Requests, EnsureDns(q) PROVE ~HasOpen(request'[r].kind, cmds)
      <4>1. /\ past' = past /\ request[q].step = "dns"
            /\ request'[q].step \in {"free", "enqueue"}
            /\ request'[q].step = "enqueue" => request'[q].kind = request[q].kind
            /\ \A p \in Requests \ {q} : request'[p] = request[p]
        BY <3>3, RequestType DEF EnsureDns, Steps
      <4>2. QED
        BY <2>2, <4>1 DEF OpenInv
    <3>4. ASSUME NEW q \in Requests, UpdateStatus(q) \/ UndoDns(q) \/ DeleteRow(q) \/ BreakOff(q)
          PROVE  ~HasOpen(request'[r].kind, cmds)
      <4>1. /\ past' = past /\ request'[q].step \in {"free", "delete"}
            /\ \A p \in Requests \ {q} : request'[p] = request[p]
        BY <3>4, RequestType DEF UpdateStatus, UndoDns, DeleteRow, BreakOff, Steps
      <4>2. QED
        BY <2>2, <4>1 DEF OpenInv
    <3>5. ASSUME NEW q \in Requests,
                 (\E k \in Kinds \ {"deprovision"} : Begin(q, k)) \/ BeginDelete(q)
          PROVE  ~HasOpen(request'[r].kind, cmds)
      <4>1. /\ past' = past /\ request'[q].step \in {"find", "undo_dns"}
            /\ \A p \in Requests \ {q} : request'[p] = request[p]
        BY <3>5 DEF Begin, BeginDelete, TypeOK
      <4>2. QED
        BY <2>2, <4>1 DEF OpenInv
    <3>6. QED
      BY <1>5, <3>1, <3>2, <3>3, <3>4, <3>5
         DEF Next, vars, RequestStep, AgentStep, Lose, Execute, Poll, Ack, PollCommand
  <2>3. QED
    BY <1>2, <1>3, <1>5, <2>1, <2>2 DEF OpenInv
<1>6. QED
  BY <1>4, <1>5, CommandsGrow

-----------------------------------------------------------------------------
(* Requests that follow each other.                                         *)

\* Only the environment's servers have requests to serve.
IdleInv == \A r \in Requests \ env.servers : request[r].step = "free"

\* A provisioning was queued.
Provisioned == \E i \in DOMAIN cmds : cmds[i].kind = "provision"

\* The host has nothing of a tenant that was never provisioned.
StackInv == stack # "none" \/ defined => Provisioned

\* A tenant whose provisioning was queued looks new only until its request has
\* written the status.
PendingInv ==
  kills = 0 /\ Provisioned /\ runtime = "pending" =>
    \E r \in Requests : request[r].step = "status" /\ request[r].kind = "provision"

\* Only a tenant that was never provisioned is deleted without a command.
LeaveInv ==
  \A r \in Requests : kills = 0 /\ request[r].step \in {"undo_dns", "delete"} => ~Provisioned

\* The record comes before the provisioning.
DnsInv ==
  kills = 0 /\ runtime # Gone =>
    /\ Provisioned => zone
    /\ \A r \in Requests : request[r].step = "enqueue" /\ request[r].kind = "provision" => zone

\* A removal that succeeded left no containers, and is applied only once.
RemovedInv ==
  /\ runtime # Gone =>
       \A i \in DOMAIN cmds : cmds[i].kind = "deprovision" => cmds[i].state # "acked"
  /\ ran = "acked" =>
       \A i \in held : (\A j \in held : i <= j) /\ cmds[i].kind = "deprovision" => stack = "none"

OrderInv == Serial => PendingInv /\ LeaveInv /\ DnsInv

IInv == TypeOK /\ HeldInv /\ IdleInv /\ StackInv /\ OrderInv /\ RemovedInv

\* The request queues the provisioning in this step.
Provisions(r) ==
  /\ request[r].step = "enqueue" /\ request[r].kind = "provision"
  /\ request'[r].step = "status" /\ request'[r].kind = "provision"

LEMMA ProvisionedStep ==
  ASSUME TypeOK, HeldInv, [Next]_vars
  PROVE  /\ Provisioned => Provisioned'
         /\ Provisioned' => Provisioned \/ \E r \in Requests : Provisions(r)
<1>1. cmds \in Seq(Command)
  BY DEF TypeOK, Command
<1>2. CASE Grown(cmds', {"bootstrap"})
  BY <1>1, <1>2 DEF Grown, Provisioned
<1>3. ASSUME NEW r \in Requests, EnqueueFor(r), Grown(cmds', {request[r].kind})
      PROVE  /\ Provisioned => Provisioned'
             /\ Provisioned' => Provisioned \/ Provisions(r)
  <2>1. /\ Provisioned => Provisioned'
        /\ Provisioned' => Provisioned \/ request[r].kind = "provision"
    BY <1>1, <1>3 DEF Grown, Provisioned
  <2>2. request[r].kind = "provision" => Provisions(r)
    BY <1>3, RequestType DEF EnqueueFor, Steps, Provisions
  <2>3. QED
    BY <2>1, <2>2
<1>4. QED
  BY <1>2, <1>3, CommandsGrow

\* Applying a settled command leaves host and requests alone.
LEMMA SettledStep ==
  ASSUME TypeOK, HeldInv,
         (\E i \in held : Ack(i)) \/ (\E i \in DOMAIN cmds : PollCommand(i))
  PROVE  /\ UNCHANGED <<stack, defined, request, kills>>
         /\ runtime # "pending" => runtime' # "pending"
         /\ runtime = Gone => runtime' = Gone
         /\ zone' = zone \/ runtime' = Gone
<1> DEFINE Row == /\ runtime # "pending" => runtime' # "pending"
                  /\ runtime = Gone => runtime' = Gone
                  /\ zone' = zone \/ runtime' = Gone
<1>1. ASSUME NEW i \in held, Ack(i) PROVE Row
  <2> DEFINE cs == Settle(cmds, i, ran)
  <2>1. /\ i \in DOMAIN cmds /\ cs[i].state \in {"acked", "failed"} /\ Sync(i, cs)
        /\ Grown(cs, {}) /\ Len(cs) = Len(cmds)
    BY <1>1, AckGrows
  <2> HIDE DEF cs
  <2>2. QED
    BY <2>1, SyncRow
<1>2. ASSUME NEW i \in DOMAIN cmds, PollCommand(i) PROVE Row
  BY <1>2, RepollGrows, SyncRow
<1>3. QED
  BY <1>1, <1>2 DEF Ack, PollCommand, host

LEMMA StackStep ==
  ASSUME TypeOK, HeldInv, StackInv, [Next]_vars
  PROVE  StackInv'
<1>1. Provisioned => Provisioned'
  BY ProvisionedStep
<1>2. CASE UNCHANGED <<stack, defined>>
  BY <1>1, <1>2 DEF StackInv
<1>3. ASSUME NEW i \in held, NEW o \in {"acked", "failed"}, Execute(i, o)
      PROVE  stack' # "none" \/ defined' => Provisioned
  <2>1. i \in DOMAIN cmds /\ Effect(i, o)
    BY <1>3 DEF TypeOK, Execute
  <2>2. CASE cmds[i].kind = "provision"
    BY <2>1, <2>2 DEF Provisioned
  <2>3. CASE cmds[i].kind # "provision"
    <3>0. cmds \in Seq(Command)
      BY DEF TypeOK, Command
    <3>1. cmds[i] \in Command
      BY <2>1, <3>0
    <3>2. cmds[i].kind \in {"start", "stop", "bootstrap", "deprovision"}
      BY <2>3, <3>1 DEF Command, Kinds
    <3>3. stack' # "none" \/ defined' => stack # "none" \/ defined
      BY <2>1, <3>2 DEF Effect, TypeOK
    <3>4. QED
      BY <3>3 DEF StackInv
  <2>4. QED
    BY <2>2, <2>3
<1>4. QED
  BY <1>1, <1>2, <1>3
     DEF StackInv, Next, vars, host, Begin, BeginDelete, RequestStep, BreakOff, AgentStep, Lose,
         Find, EnsureDns, EnqueueFor, UpdateStatus, UndoDns, DeleteRow, Poll, Ack, PollCommand

\* A process that no request reaches stays free.
LEMMA IdleStep ==
  ASSUME TypeOK, IdleInv, [Next]_vars
  PROVE  IdleInv'
<1>1. CASE UNCHANGED <<request, env>>
  BY <1>1 DEF IdleInv
<1> SUFFICES ASSUME Next, NEW r \in Requests \ env.servers PROVE request'[r].step = "free"
  BY <1>1 DEF IdleInv, Next, vars
<1>2. request[r].step = "free" /\ request \in [Requests -> {Free} \cup
                  [step : Steps, kind : Kinds, seen : RuntimeStatuses]]
  BY DEF IdleInv, TypeOK
<1>3. ASSUME NEW q \in Requests, RequestStep(q) \/ BreakOff(q) PROVE request'[r] = request[r]
  BY <1>2, <1>3 DEF RequestStep, BreakOff, Find, EnsureDns, EnqueueFor, UpdateStatus, UndoDns,
                    DeleteRow, Goto, Leave
<1>4. ASSUME NEW q \in Requests,
             (\E kind \in Kinds \ {"deprovision"} : Begin(q, kind)) \/ BeginDelete(q)
      PROVE  request'[r] = request[r]
  BY <1>2, <1>4 DEF Begin, BeginDelete
<1>5. QED
  BY <1>2, <1>3, <1>4 DEF Next, AgentStep, Poll, Execute, Ack, Lose, PollCommand

\* While requests follow each other.
LEMMA OrderlyStep ==
  ASSUME Serial, IInv, [Next]_vars
  PROVE  PendingInv' /\ LeaveInv' /\ DnsInv'
<1>0. TypeOK /\ HeldInv /\ PendingInv /\ LeaveInv /\ DnsInv /\ kills \in Nat
  BY TenantAssumption DEF IInv, OrderInv, TypeOK, TenantAssumption
<1>a. ASSUME NEW r \in Requests, r \in env.servers \/ request[r].step # "free"
      PROVE  \A q \in Requests \ {r} : request[q].step = "free" /\ request'[q].step = "free"
  <2>1. IdleInv /\ IdleInv' /\ env' = env
    BY IdleStep DEF IInv, Next, vars
  <2>2. QED
    BY <1>a, <2>1 DEF IdleInv, Serial
<1>1. /\ Provisioned => Provisioned'
      /\ Provisioned' => Provisioned \/ \E r \in Requests : Provisions(r)
  BY <1>0, ProvisionedStep
<1> DEFINE Goal == PendingInv' /\ LeaveInv' /\ DnsInv'
<1> USE DEF PendingInv, LeaveInv, DnsInv, Provisions
<1>2. CASE UNCHANGED <<runtime, zone, request, kills>>
  BY <1>0, <1>1, <1>2
<1>3. ASSUME NEW r \in Requests, NEW kind \in Kinds \ {"deprovision"}, Begin(r, kind) PROVE Goal
  <2>0. \A q \in Requests \ {r} : request[q].step = "free" /\ request'[q].step = "free"
    BY <1>a, <1>3 DEF Begin
  <2>1. request'[r].step = "find" /\ runtime' = runtime /\ zone' = zone /\ kills' = kills
    BY <1>0, <1>3 DEF Begin, row, TypeOK
  <2>2. QED
    BY <1>0, <1>1, <2>0, <1>3, <2>1 DEF Begin
<1>4. ASSUME NEW r \in Requests, BeginDelete(r) PROVE Goal
  <2>0. \A q \in Requests \ {r} : request[q].step = "free" /\ request'[q].step = "free"
    BY <1>a, <1>4 DEF BeginDelete
  <2>1. /\ request'[r].step = IF runtime = "pending" THEN "undo_dns" ELSE "find"
        /\ request[r].step = "free" /\ runtime' = runtime /\ zone' = zone /\ kills' = kills
    BY <1>0, <1>4 DEF BeginDelete, row, TypeOK
  <2>2. QED
    BY <1>0, <1>1, <2>0, <2>1
<1>5. ASSUME NEW r \in Requests, Find(r) PROVE Goal
  <2>0. \A q \in Requests \ {r} : request[q].step = "free" /\ request'[q].step = "free"
    BY <1>a, <1>5 DEF Find
  <2>1. /\ \/ request'[r].step \in {"status", "free", "dns"}
           \/ request'[r].step = "enqueue" /\ request'[r].kind # "provision"
        /\ request[r].step = "find" /\ runtime' = runtime /\ zone' = zone /\ kills' = kills
    BY <1>0, <1>5, RequestType DEF Find, Steps, row
  <2>2. QED
    BY <1>0, <1>1, <2>0, <2>1
<1>6. ASSUME NEW r \in Requests, EnsureDns(r) PROVE Goal
  <2>0. \A q \in Requests \ {r} : request[q].step = "free" /\ request'[q].step = "free"
    BY <1>a, <1>6 DEF EnsureDns
  <2>1. /\ request'[r].step \in {"free", "enqueue"}
        /\ request[r].step = "dns" /\ runtime' = runtime /\ zone' = TRUE /\ kills' = kills
    BY <1>0, <1>6, RequestType DEF EnsureDns, Steps
  <2>2. QED
    BY <1>0, <1>1, <2>0, <2>1
<1>7. ASSUME NEW r \in Requests, EnqueueFor(r) PROVE Goal
  <2>0. \A q \in Requests \ {r} : request[q].step = "free" /\ request'[q].step = "free"
    BY <1>a, <1>7 DEF EnqueueFor
  <2>1. /\ request'[r].step \in {"free", "status"}
        /\ request[r].step = "enqueue" /\ runtime' = runtime /\ zone' = zone /\ kills' = kills
    BY <1>0, <1>7, RequestType DEF EnqueueFor, Steps, row
  <2>2. QED
    BY <1>0, <1>1, <2>0, <2>1
<1>8. ASSUME NEW r \in Requests, UpdateStatus(r) PROVE Goal
  <2>0. \A q \in Requests \ {r} : request[q].step = "free" /\ request'[q].step = "free"
    BY <1>a, <1>8 DEF UpdateStatus
  <2>1. /\ request'[r].step = "free" /\ request[r].step = "status"
        /\ request[r].kind = "provision" \/ runtime # "pending" => runtime' # "pending"
        /\ runtime = Gone => runtime' = Gone
        /\ zone' = zone /\ kills' = kills
    BY <1>0, <1>8, RequestType DEF UpdateStatus, Gone
  <2>2. QED
    BY <1>0, <1>1, <2>0, <2>1
<1>9. ASSUME NEW r \in Requests, UndoDns(r) PROVE Goal
  <2>0. \A q \in Requests \ {r} : request[q].step = "free" /\ request'[q].step = "free"
    BY <1>a, <1>9 DEF UndoDns
  <2>1. /\ request'[r].step = "delete" /\ request[r].step = "undo_dns"
        /\ runtime' = runtime /\ kills' = kills
    BY <1>0, <1>9, RequestType DEF UndoDns, Steps
  <2>2. QED
    BY <1>0, <1>1, <2>0, <2>1
<1>10. ASSUME NEW r \in Requests, DeleteRow(r) PROVE Goal
  <2>0. \A q \in Requests \ {r} : request[q].step = "free" /\ request'[q].step = "free"
    BY <1>a, <1>10 DEF DeleteRow
  <2>1. request'[r].step = "free" /\ request[r].step = "delete" /\ runtime' = Gone
    BY <1>0, <1>10, RequestType DEF DeleteRow
  <2>2. QED
    BY <1>0, <1>1, <2>0, <2>1 DEF Gone
<1>11. ASSUME NEW r \in Requests, BreakOff(r) PROVE Goal
  <2>1. kills' # 0 /\ request'[r].step = "free"
    BY <1>0, <1>11, RequestType DEF BreakOff
  <2>2. QED
    BY <2>1
<1>12. CASE (\E i \in held : Ack(i)) \/ (\E i \in DOMAIN cmds : PollCommand(i))
  BY <1>0, <1>1, <1>12, SettledStep
<1>13. QED
  BY <1>2, <1>3, <1>4, <1>5, <1>6, <1>7, <1>8, <1>9, <1>10, <1>11, <1>12
     DEF Next, vars, row, RequestStep, AgentStep, Poll, Execute, Lose

LEMMA RemovedStep ==
  ASSUME TypeOK, HeldInv, RemovedInv, [Next]_vars
  PROVE  RemovedInv'
<1>0. cmds \in Seq(Command) /\ DOMAIN cmds = 1..Len(cmds) /\ held \in SUBSET (DOMAIN cmds)
  BY DEF TypeOK, Command
<1>1. CASE UNCHANGED <<cmds, held, ran, stack>> /\ (runtime = Gone => runtime' = Gone)
  BY <1>1 DEF RemovedInv
<1>2. ASSUME NEW r \in Requests, EnqueueFor(r) PROVE RemovedInv'
  <2>1. /\ cmds' = Append(cmds, New(request[r].kind))
        /\ UNCHANGED <<runtime, held, ran, stack>>
    BY <1>2 DEF EnqueueFor, row, agent, host
  <2>2. \A i \in DOMAIN cmds' : \/ i \in DOMAIN cmds /\ cmds'[i] = cmds[i]
                                \/ cmds'[i].state = "pending"
    BY <1>0, <2>1 DEF New
  <2>3. \A i \in DOMAIN cmds : cmds'[i] = cmds[i]
    BY <1>0, <2>1
  <2>4. QED
    BY <1>0, <2>1, <2>2, <2>3 DEF RemovedInv
<1>3. ASSUME NEW stale \in SUBSET Dropped, Poll(stale) PROVE RemovedInv'
  <2>1. /\ \A i \in DOMAIN cmds' : /\ i \in DOMAIN cmds /\ cmds'[i].kind = cmds[i].kind
                                   /\ cmds'[i].state = "acked" => cmds[i].state = "acked"
        /\ runtime' = runtime /\ ran' = "none"
    BY <1>0, <1>3, PollGrows DEF Poll, row, HeldInv, Grown
  <2>2. QED
    BY <2>1 DEF RemovedInv
<1>4. ASSUME NEW i \in held, NEW o \in {"acked", "failed"}, Execute(i, o) PROVE RemovedInv'
  <2>1. /\ \A j \in held : i <= j
        /\ UNCHANGED <<cmds, held, runtime>> /\ ran' = o
        /\ o = "acked" /\ cmds[i].kind = "deprovision" => stack' = "none"
    BY <1>4 DEF Execute, Effect, row
  <2>2. \A j \in held : (\A k \in held : j <= k) => j = i
    BY <1>0, <2>1
  <2>3. QED
    BY <2>1, <2>2 DEF RemovedInv
<1>5. ASSUME NEW i \in held, Ack(i) PROVE RemovedInv'
  <2> DEFINE cs == Settle(cmds, i, ran)
  <2>1. /\ i \in DOMAIN cmds /\ cs[i].state \in {"acked", "failed"} /\ Sync(i, cs)
        /\ Grown(cs, {}) /\ Len(cs) = Len(cmds)
        /\ \A j \in DOMAIN cmds \ {i} : cs[j] = cmds[j]
    BY <1>5, AckGrows
  <2> HIDE DEF cs
  <2>2. /\ Grown(cmds', {"bootstrap"}) /\ \A j \in DOMAIN cmds : cmds'[j] = cs[j]
        /\ runtime' = Gone <=> \/ runtime = Gone
                               \/ cs[i].kind = "deprovision" /\ cs[i].state = "acked"
    BY <2>1, SyncRow
  <2>3. \A j \in DOMAIN cmds' : j \in DOMAIN cmds \/ cmds'[j].state = "pending"
    BY <1>0, <2>2 DEF Grown
  <2>4. ran' = "none"
    BY <1>5 DEF Ack
  <2>5. QED
    BY <2>1, <2>2, <2>3, <2>4 DEF RemovedInv
<1>6. ASSUME NEW i \in DOMAIN cmds, PollCommand(i) PROVE RemovedInv'
  <2>1. /\ Grown(cmds', {"bootstrap"}) /\ \A j \in DOMAIN cmds : cmds'[j] = cmds[j]
        /\ runtime = Gone => runtime' = Gone
    BY <1>6, RepollGrows, SyncRow
  <2>2. \A j \in DOMAIN cmds' : j \in DOMAIN cmds \/ cmds'[j].state = "pending"
    BY <1>0, <2>1 DEF Grown
  <2>3. UNCHANGED <<held, ran, stack>>
    BY <1>6 DEF PollCommand, agent, host
  <2>4. QED
    BY <1>0, <2>1, <2>2, <2>3 DEF RemovedInv
<1>7. CASE Lose
  BY <1>7 DEF Lose, row, host, RemovedInv
<1>8. QED
  BY <1>1, <1>2, <1>3, <1>4, <1>5, <1>6, <1>7
     DEF Next, vars, row, agent, host, Begin, BeginDelete, RequestStep, BreakOff, AgentStep, Find,
         EnsureDns, UpdateStatus, UndoDns, DeleteRow

-----------------------------------------------------------------------------
LEMMA Initially == ASSUME Init PROVE IInv
<1> USE TenantAssumption DEF Init
<1>1. TypeOK
  <2>1. env.losses \in Nat /\ env.kills \in Nat
    BY DEF TenantAssumption
  <2>2. losses \in 0..env.losses /\ kills \in 0..env.kills
    BY <2>1
  <2>3. cmds \in Seq([kind : Kinds, state : CommandStates])
    OBVIOUS
  <2>4. request \in [Requests -> {Free} \cup [step : Steps, kind : Kinds, seen : RuntimeStatuses]]
    OBVIOUS
  <2>5. QED
    BY <2>2, <2>3, <2>4 DEF TypeOK, RuntimeStatuses, BootstrapStatuses
<1>2. HeldInv /\ StackInv /\ RemovedInv
  BY DEF HeldInv, StackInv, RemovedInv
<1>3. LeaveInv /\ PendingInv /\ DnsInv /\ IdleInv
  BY DEF LeaveInv, PendingInv, DnsInv, IdleInv, Provisioned, Free
<1>4. QED
  BY <1>1, <1>2, <1>3 DEF IInv, OrderInv

LEMMA Inductive == Spec => []IInv
<1>1. IInv /\ [Next]_vars => IInv'
  <2> SUFFICES ASSUME IInv, [Next]_vars PROVE IInv'
    OBVIOUS
  <2>1. Serial' <=> Serial
    BY DEF Serial, Next, vars
  <2>2. OrderInv'
    BY <2>1, OrderlyStep DEF OrderInv
  <2>3. QED
    BY <2>2, TypeStep, IdleStep, StackStep, RemovedStep DEF IInv
<1>2. QED
  BY <1>1, Initially, PTL DEF Spec

-----------------------------------------------------------------------------
(* A calm environment, with any number of requests at a time.              *)

\* The command the agent works on.
Current(i) == i \in held /\ \A j \in held : i <= j

\* The row says of the containers what is so.
RowTells == (runtime = "running" => stack = "running") /\ (runtime = "stopped" => stack # "running")

\* It does unless the outcome of a command that changes the status is on its
\* way, and then that outcome tells.
ToldInv ==
  env.losses = 0 /\ ~env.repolls =>
    /\ ran = "none" => RowTells
    /\ ran # "none" => \A i \in held : Current(i) =>
         /\ cmds[i].kind = "bootstrap" => RowTells
         /\ cmds[i].kind \in {"provision", "start"} /\ ran = "acked" => stack = "running"
         /\ cmds[i].kind = "stop" /\ ran = "acked" => stack # "running"

\* The key on record works until a removal has run; a key is on its way only
\* when the database has it.
KeyInv ==
  env.losses = 0 /\ ~env.repolls =>
    /\ ran = "acked" => \A i \in held : Current(i) /\ cmds[i].kind = "bootstrap" => i \in keys
    /\ /\ runtime # Gone /\ apiKey # 0
       /\ \A i \in DOMAIN cmds : cmds[i].kind = "deprovision" => cmds[i].state # "failed"
       /\ ran # "none" => \A i \in held : Current(i) => cmds[i].kind # "deprovision"
       => apiKey \in keys

\* A status that only an open command can end has one, and so has a request that
\* is about to write such a status; the agent holds every command it was handed.
WaitInv ==
  Calm =>
    /\ runtime = "provisioning" => HasOpen("provision", cmds)
    /\ runtime = "deleting" => HasOpen("deprovision", cmds)
    /\ bootstrap = "provisioning" /\ runtime # Gone => HasOpen("bootstrap", cmds)
    /\ \A r \in Requests : request[r].step = "status" => HasOpen(request[r].kind, cmds)
    /\ Dropped \subseteq held

CalmInv == TypeOK /\ HeldInv /\ ToldInv /\ KeyInv /\ WaitInv

\* What a poll does when the agent holds every command it was handed.
LEMMA PollCalm ==
  ASSUME TypeOK, Dropped = {}, NEW stale \in SUBSET Dropped, Poll(stale)
  PROVE  /\ DOMAIN cmds' = DOMAIN cmds
         /\ \A i \in DOMAIN cmds : /\ cmds'[i].kind = cmds[i].kind
                                   /\ IsOpen(cmds'[i]) <=> IsOpen(cmds[i])
                                   /\ cmds'[i].state = "failed" <=> cmds[i].state = "failed"
         /\ Dropped' \subseteq held'
<1>1. cmds \in Seq(Command) /\ stale = {}
  BY DEF TypeOK, Command
<1>2. /\ DOMAIN cmds' = DOMAIN cmds /\ held' = Waiting
      /\ \A i \in DOMAIN cmds :
           cmds'[i] = IF i \in Waiting THEN [cmds[i] EXCEPT !.state = "dispatched"] ELSE cmds[i]
  BY <1>1 DEF Poll
<1>3. ASSUME NEW i \in DOMAIN cmds
      PROVE  /\ cmds'[i].kind = cmds[i].kind
             /\ IsOpen(cmds'[i]) <=> IsOpen(cmds[i])
             /\ cmds'[i].state = "failed" <=> cmds[i].state = "failed"
             /\ cmds'[i].state = "dispatched" => i \in Waiting
  <2>1. cmds[i] \in Command
    BY <1>1
  <2>2. [cmds[i] EXCEPT !.state = "dispatched"] = [kind |-> cmds[i].kind, state |-> "dispatched"]
    BY <2>1, WithState DEF CommandStates
  <2>3. CASE i \in Waiting
    BY <1>2, <2>2, <2>3 DEF IsOpen, Waiting
  <2>4. CASE i \notin Waiting
    BY <1>2, <2>4 DEF IsOpen, Dropped
  <2> QED BY <2>3, <2>4
<1> QED BY <1>2, <1>3 DEF Dropped

\* What an acknowledgement does to the commands and, while it is there, to the row.
LEMMA AckExact ==
  ASSUME TypeOK, HeldInv, NEW i \in held, Ack(i)
  PROVE  /\ i \in DOMAIN cmds /\ Current(i) /\ ran \in {"acked", "failed"}
         /\ cmds[i].kind \in Kinds /\ IsOpen(cmds[i])
         /\ \A j \in DOMAIN cmds : /\ j \in DOMAIN cmds' /\ cmds'[j].kind = cmds[j].kind
                                   /\ j # i => cmds'[j] = cmds[j]
         /\ cmds'[i].state = ran
         /\ \A j \in DOMAIN cmds' \ DOMAIN cmds : cmds'[j] = New("bootstrap")
         /\ held' = held \ {i} /\ ran' = "none"
         /\ runtime = Gone => runtime' = Gone
         /\ runtime # Gone =>
              /\ runtime' = RuntimeAfter([kind |-> cmds[i].kind, state |-> ran])
              /\ apiKey' = IF cmds[i].kind = "bootstrap" /\ ran = "acked" /\ apiKey = 0
                           THEN i ELSE apiKey
              /\ bootstrap' = "provisioning" =>
                   \/ HasOpen("bootstrap", cmds')
                   \/ bootstrap = "provisioning" /\ cmds[i].kind # "bootstrap"
<1> DEFINE cs == Settle(cmds, i, ran)
<1>1. /\ i \in DOMAIN cmds /\ ran \in {"acked", "failed"} /\ Sync(i, cs)
      /\ Grown(cs, {}) /\ Len(cs) = Len(cmds)
      /\ cs[i].kind = cmds[i].kind /\ cs[i].state = ran
      /\ \A j \in DOMAIN cmds \ {i} : cs[j] = cmds[j]
  BY AckGrows
<1>2. cmds \in Seq(Command)
  BY DEF TypeOK, Command
<1>3. cmds[i] \in Command /\ cmds[i].state = "dispatched"
  BY <1>1, <1>2 DEF HeldInv
<1>4. cs[i] = [kind |-> cmds[i].kind, state |-> ran]
  BY <1>1, <1>2, <1>3, SettleGrows
<1> HIDE DEF cs
<1>5. cmds' = cs \/ cmds' = Append(cs, New("bootstrap"))
  BY <1>1 DEF Sync
<1>6. cs \in Seq(Command) /\ DOMAIN cs = DOMAIN cmds
  BY <1>1, <1>2 DEF Grown
<1>7. /\ \A j \in DOMAIN cmds : j \in DOMAIN cmds' /\ cmds'[j] = cs[j]
      /\ \A j \in DOMAIN cmds' \ DOMAIN cmds : cmds'[j] = New("bootstrap")
  BY <1>5, <1>6
<1>8. ASSUME runtime # Gone
      PROVE  /\ runtime' = RuntimeAfter([kind |-> cmds[i].kind, state |-> ran])
             /\ apiKey' = IF cmds[i].kind = "bootstrap" /\ ran = "acked" /\ apiKey = 0
                          THEN i ELSE apiKey
             /\ bootstrap' = "provisioning" =>
                  \/ HasOpen("bootstrap", cmds')
                  \/ bootstrap = "provisioning" /\ cmds[i].kind # "bootstrap"
  <2>1. runtime' = RuntimeAfter(cs[i]) /\ apiKey' = KeyAfter(i, cs)
    BY <1>1, <1>8 DEF Sync
  <2>2. CASE FollowedByBootstrap(cs[i], cs)
    <3>1. cmds' = Append(cs, New("bootstrap"))
      BY <1>1, <1>8, <2>2 DEF Sync
    <3>2. Len(cs) + 1 \in DOMAIN cmds' /\ cmds'[Len(cs) + 1] = New("bootstrap")
      BY <1>6, <3>1
    <3> QED BY <1>1, <1>4, <2>1, <3>2 DEF HasOpen, New, IsOpen, KeyAfter
  <2>3. CASE ~FollowedByBootstrap(cs[i], cs)
    <3>1. bootstrap' = BootstrapAfter(cs[i])
      BY <1>1, <1>8, <2>3 DEF Sync
    <3> QED BY <1>1, <1>4, <2>1, <3>1 DEF BootstrapAfter, KeyAfter
  <2> QED BY <2>2, <2>3
<1>9. runtime = Gone => runtime' = Gone
  BY <1>1 DEF Sync, row
<1>10. held' = held \ {i} /\ ran' = "none" /\ Current(i)
  BY DEF Ack, Current
<1>11. cmds[i].kind \in Kinds /\ IsOpen(cmds[i])
  BY <1>3 DEF Command, IsOpen
<1> QED BY <1>1, <1>7, <1>8, <1>9, <1>10, <1>11

\* The commands the agent holds, once it has run one, stay what they are.
LEMMA ToldStep ==
  ASSUME CalmInv, [Next]_vars
  PROVE  ToldInv'
<1>0. TypeOK /\ HeldInv /\ ToldInv /\ cmds \in Seq(Command) /\ held \in SUBSET (DOMAIN cmds)
  BY DEF CalmInv, TypeOK, Command
<1>1. CASE UNCHANGED vars
  BY <1>0, <1>1 DEF ToldInv, RowTells, Current, vars, row, agent, host
<1> SUFFICES ASSUME Next, env.losses = 0, ~env.repolls PROVE ToldInv'
  BY <1>1 DEF ToldInv, Next
<1>2. env' = env
  BY DEF Next
<1>3. CASE /\ UNCHANGED <<agent, stack>> /\ runtime' \in {runtime, "provisioning", "deleting", Gone}
           /\ \A i \in held : cmds'[i].kind = cmds[i].kind
  BY <1>0, <1>2, <1>3 DEF ToldInv, RowTells, Current, agent, Gone
<1>4. ASSUME NEW r \in Requests, EnqueueFor(r) PROVE ToldInv'
  <2>1. \A i \in DOMAIN cmds : cmds'[i] = cmds[i]
    BY <1>0, <1>4 DEF EnqueueFor
  <2> QED BY <1>0, <1>3, <1>4, <2>1 DEF EnqueueFor, row, host
<1>5. ASSUME NEW stale \in SUBSET Dropped, Poll(stale) PROVE ToldInv'
  <2>1. ran = "none" /\ UNCHANGED <<ran, stack, runtime>>
    BY <1>0, <1>5 DEF HeldInv, Poll, row, host
  <2> QED BY <1>0, <1>2, <2>1 DEF ToldInv, RowTells
<1>6. ASSUME NEW i \in held, NEW o \in {"acked", "failed"}, Execute(i, o) PROVE ToldInv'
  <2>1. /\ ran = "none" /\ ran' = o /\ UNCHANGED <<cmds, held, runtime>>
        /\ Effect(i, o) /\ RowTells
    BY <1>0, <1>2, <1>6 DEF Execute, row, ToldInv
  <2>2. \A j \in held : Current(j)' => j = i
    BY <1>0, <1>6, <2>1 DEF Execute, Current
  <2>3. cmds[i].kind = "bootstrap" => RowTells'
    BY <2>1 DEF Effect, RowTells
  <2>4. /\ cmds[i].kind \in {"provision", "start"} /\ o = "acked" => stack' = "running"
        /\ cmds[i].kind = "stop" /\ o = "acked" => stack' # "running"
    <3>1. CASE cmds[i].kind = "provision"
      BY <2>1, <3>1 DEF Effect
    <3>2. CASE cmds[i].kind = "start"
      BY <2>1, <3>2 DEF Effect
    <3>3. CASE cmds[i].kind = "stop"
      BY <2>1, <3>3 DEF Effect
    <3> QED BY <3>1, <3>2, <3>3
  <2> QED BY <1>0, <2>1, <2>2, <2>3, <2>4 DEF ToldInv
<1>7. ASSUME NEW i \in held, Ack(i) PROVE ToldInv'
  <2>1. /\ Current(i) /\ ran \in {"acked", "failed"} /\ ran' = "none"
        /\ cmds[i].kind \in Kinds
        /\ runtime = Gone => runtime' = Gone
        /\ runtime # Gone => runtime' = RuntimeAfter([kind |-> cmds[i].kind, state |-> ran])
    BY <1>0, <1>7, AckExact
  <2>2. stack' = stack
    BY <1>7 DEF Ack, host
  <2>3. /\ cmds[i].kind = "bootstrap" => RowTells
        /\ cmds[i].kind \in {"provision", "start"} /\ ran = "acked" => stack = "running"
        /\ cmds[i].kind = "stop" /\ ran = "acked" => stack # "running"
    BY <1>0, <2>1 DEF ToldInv
  <2>4. RowTells'
    <3>1. CASE runtime = Gone
      BY <2>1, <3>1 DEF RowTells, Gone
    <3>2. CASE runtime # Gone /\ cmds[i].kind = "bootstrap"
      BY <2>1, <2>2, <2>3, <3>2 DEF RowTells, RuntimeAfter
    <3>3. CASE runtime # Gone /\ cmds[i].kind # "bootstrap"
      BY <2>1, <2>2, <2>3, <3>3 DEF RowTells, RuntimeAfter, ReportedStatus, Kinds, Gone
    <3> QED BY <3>1, <3>2, <3>3
  <2> QED BY <2>1, <2>4 DEF ToldInv
<1>8. ASSUME NEW r \in Requests, UpdateStatus(r) PROVE ToldInv'
  <2>1. runtime' \in {runtime, "provisioning", "deleting", Gone}
    BY <1>8 DEF UpdateStatus
  <2> QED BY <1>3, <1>8, <2>1 DEF UpdateStatus, agent, host
<1>9. ASSUME Lose PROVE FALSE
  BY <1>0, <1>9, TenantAssumption DEF Lose, TypeOK, TenantAssumption
<1>10. ASSUME NEW i \in DOMAIN cmds, PollCommand(i) PROVE FALSE
  BY <1>10 DEF PollCommand
<1> QED
  BY <1>3, <1>4, <1>5, <1>6, <1>7, <1>8, <1>9, <1>10
     DEF Next, row, host, Begin, BeginDelete, RequestStep, BreakOff, AgentStep, Find,
         EnsureDns, UndoDns, DeleteRow

LEMMA KeyStep ==
  ASSUME CalmInv, [Next]_vars
  PROVE  KeyInv'
<1>0. TypeOK /\ HeldInv /\ KeyInv /\ cmds \in Seq(Command) /\ held \in SUBSET (DOMAIN cmds)
  BY DEF CalmInv, TypeOK, Command
<1>1. CASE UNCHANGED vars
  BY <1>0, <1>1 DEF KeyInv, Current, vars, row, agent, host
<1> SUFFICES ASSUME Next, env.losses = 0, ~env.repolls PROVE KeyInv'
  BY <1>1 DEF KeyInv, Next
<1>2. env' = env
  BY DEF Next
<1>3. CASE UNCHANGED <<agent, keys, apiKey, cmds>> /\ (runtime = Gone => runtime' = Gone)
  BY <1>0, <1>2, <1>3 DEF KeyInv, Current, agent
<1>4. ASSUME NEW r \in Requests, EnqueueFor(r) PROVE KeyInv'
  <2>1. /\ \A i \in DOMAIN cmds : i \in DOMAIN cmds' /\ cmds'[i] = cmds[i]
        /\ UNCHANGED <<agent, keys, apiKey, runtime>>
    BY <1>0, <1>4 DEF EnqueueFor, row, host
  <2> QED BY <1>0, <1>2, <2>1 DEF KeyInv, Current, agent
<1>5. ASSUME NEW stale \in SUBSET Dropped, Poll(stale) PROVE KeyInv'
  <2>1. /\ \A i \in DOMAIN cmds : /\ i \in DOMAIN cmds' /\ cmds'[i].kind = cmds[i].kind
                                  /\ cmds[i].state = "failed" => cmds'[i].state = "failed"
        /\ ran = "none" /\ UNCHANGED <<ran, keys, apiKey, runtime>>
    <3>1. DOMAIN cmds' = DOMAIN cmds
      BY <1>0, <1>5 DEF Poll
    <3>2. \A i \in DOMAIN cmds : cmds'[i].kind = cmds[i].kind
      BY <1>0, <1>5, PollGrows DEF Grown
    <3>3. ASSUME NEW i \in DOMAIN cmds, cmds[i].state = "failed" PROVE cmds'[i] = cmds[i]
      BY <1>5, <3>3 DEF Poll, Waiting, Dropped
    <3> QED BY <1>0, <1>5, <3>1, <3>2, <3>3 DEF HeldInv, Poll, row, host
  <2> QED BY <1>0, <1>2, <2>1 DEF KeyInv
<1>6. ASSUME NEW i \in held, NEW o \in {"acked", "failed"}, Execute(i, o) PROVE KeyInv'
  <2>1. /\ ran = "none" /\ ran' = o /\ UNCHANGED <<cmds, held, runtime, apiKey>>
        /\ Effect(i, o) /\ Current(i)'
    BY <1>0, <1>6 DEF Execute, row, Current
  <2>2. \A j \in held : Current(j)' => j = i
    BY <1>0, <1>6, <2>1 DEF Execute, Current
  <2>3. cmds[i] \in Command
    BY <1>0
  <2>4. /\ cmds[i].kind # "deprovision" => keys \subseteq keys'
        /\ cmds[i].kind = "bootstrap" /\ o = "acked" => i \in keys'
    <3>1. CASE cmds[i].kind \in {"provision", "start", "stop"}
      BY <2>1, <3>1 DEF Effect
    <3>2. CASE cmds[i].kind = "bootstrap"
      BY <2>1, <3>2 DEF Effect
    <3> QED BY <2>3, <3>1, <3>2 DEF Command, Kinds
  <2> QED BY <1>0, <1>2, <2>1, <2>2, <2>4 DEF KeyInv
<1>7. ASSUME NEW i \in held, Ack(i) PROVE KeyInv'
  <2>1. /\ i \in DOMAIN cmds /\ Current(i) /\ ran \in {"acked", "failed"} /\ ran' = "none"
        /\ \A j \in DOMAIN cmds : /\ j \in DOMAIN cmds' /\ cmds'[j].kind = cmds[j].kind
                                  /\ j # i => cmds'[j] = cmds[j]
        /\ cmds'[i].state = ran
        /\ runtime = Gone => runtime' = Gone
        /\ runtime # Gone =>
             /\ runtime' = RuntimeAfter([kind |-> cmds[i].kind, state |-> ran])
             /\ apiKey' = IF cmds[i].kind = "bootstrap" /\ ran = "acked" /\ apiKey = 0
                          THEN i ELSE apiKey
    BY <1>0, <1>7, AckExact
  <2>2. keys' = keys
    BY <1>7 DEF Ack, host
  <2> SUFFICES ASSUME runtime' # Gone, apiKey' # 0,
                      \A j \in DOMAIN cmds' : cmds'[j].kind = "deprovision" => cmds'[j].state # "failed"
               PROVE  apiKey' \in keys
    BY <2>1, <2>2 DEF KeyInv
  <2>3. cmds[i].kind # "deprovision"
    BY <2>1 DEF RuntimeAfter
  <2>4. \A j \in DOMAIN cmds : cmds[j].kind = "deprovision" => cmds[j].state # "failed"
    BY <2>1, <2>3
  <2>5. \A j \in held : Current(j) => j = i
    BY <1>0, <2>1 DEF Current
  <2>6. CASE apiKey' = apiKey
    BY <1>0, <2>1, <2>3, <2>4, <2>5, <2>6 DEF KeyInv
  <2>7. CASE apiKey' # apiKey
    BY <1>0, <2>1, <2>7 DEF KeyInv
  <2> QED BY <2>6, <2>7
<1>8. ASSUME Lose PROVE FALSE
  BY <1>0, <1>8, TenantAssumption DEF Lose, TypeOK, TenantAssumption
<1>9. ASSUME NEW i \in DOMAIN cmds, PollCommand(i) PROVE FALSE
  BY <1>9 DEF PollCommand
<1> QED
  BY <1>3, <1>4, <1>5, <1>6, <1>7, <1>8, <1>9
     DEF Next, row, host, Begin, BeginDelete, RequestStep, BreakOff, AgentStep, Find,
         EnsureDns, UpdateStatus, UndoDns, DeleteRow

LEMMA WaitStep ==
  ASSUME CalmInv, [Next]_vars
  PROVE  WaitInv'
<1>0. TypeOK /\ HeldInv /\ WaitInv /\ cmds \in Seq(Command) /\ held \in SUBSET (DOMAIN cmds)
  BY DEF CalmInv, TypeOK, Command
<1>1. CASE UNCHANGED vars
  BY <1>0, <1>1 DEF WaitInv, Calm, HasOpen, Dropped, vars, row, agent
<1> SUFFICES ASSUME Next, Calm PROVE WaitInv'
  BY <1>1 DEF WaitInv, Calm, Next
<1>2. env' = env
  BY DEF Next
<1> DEFINE Kept == \A k \in Kinds : HasOpen(k, cmds) => HasOpen(k, cmds')
           Same == UNCHANGED <<runtime, bootstrap>>
<1> USE DEF WaitInv
<1>3. ASSUME NEW r \in Requests, NEW kind \in Kinds \ {"deprovision"}, Begin(r, kind) PROVE WaitInv'
  <2>1. /\ request'[r].step = "find" /\ \A q \in Requests \ {r} : request'[q] = request[q]
        /\ UNCHANGED <<runtime, bootstrap, cmds, held>>
    BY <1>0, <1>3 DEF Begin, TypeOK, row, agent
  <2> QED BY <1>0, <1>2, <2>1 DEF Calm, HasOpen, Dropped
<1>4. ASSUME NEW r \in Requests, BeginDelete(r) PROVE WaitInv'
  <2>1. /\ request'[r].step # "status" /\ \A q \in Requests \ {r} : request'[q] = request[q]
        /\ UNCHANGED <<runtime, bootstrap, cmds, held>>
    BY <1>0, <1>4 DEF BeginDelete, TypeOK, row, agent
  <2> QED BY <1>0, <1>2, <2>1 DEF Calm, HasOpen, Dropped
<1>5. ASSUME NEW r \in Requests, Find(r) PROVE WaitInv'
  <2>1. /\ request'[r].step = "status" => HasOpen(request'[r].kind, cmds)
        /\ \A q \in Requests \ {r} : request'[q] = request[q]
        /\ UNCHANGED <<runtime, bootstrap, cmds, held>>
    BY <1>0, <1>5, RequestType DEF Find, Steps, row, agent
  <2> QED BY <1>0, <1>2, <2>1 DEF Calm, HasOpen, Dropped
<1>6. ASSUME NEW r \in Requests, EnsureDns(r) \/ UndoDns(r) \/ DeleteRow(r) \/ BreakOff(r) PROVE WaitInv'
  <2>1. /\ request'[r].step # "status" /\ \A q \in Requests \ {r} : request'[q] = request[q]
        /\ runtime' \in {runtime, Gone} /\ UNCHANGED <<bootstrap, cmds, held>>
    BY <1>0, <1>6, RequestType DEF EnsureDns, UndoDns, DeleteRow, BreakOff, Steps, row, agent
  <2>2. runtime = Gone => runtime' = Gone
    BY <2>1
  <2> QED BY <1>0, <1>2, <2>1, <2>2 DEF Calm, HasOpen, Dropped, Gone
<1>7. ASSUME NEW r \in Requests, EnqueueFor(r) PROVE WaitInv'
  <2>1. /\ request'[r].step = "status" => request'[r].kind = request[r].kind
        /\ \A q \in Requests \ {r} : request'[q] = request[q]
        /\ UNCHANGED <<runtime, bootstrap, held>>
    BY <1>0, <1>7, RequestType DEF EnqueueFor, Steps, row, agent
  <2>2. /\ \A i \in DOMAIN cmds : i \in DOMAIN cmds' /\ cmds'[i] = cmds[i]
        /\ \A i \in DOMAIN cmds' \ DOMAIN cmds : cmds'[i] = New(request[r].kind)
        /\ Len(cmds) + 1 \in DOMAIN cmds' /\ cmds'[Len(cmds) + 1] = New(request[r].kind)
    BY <1>0, <1>7 DEF EnqueueFor
  <2>3. /\ \A k : HasOpen(k, cmds) => HasOpen(k, cmds')
        /\ HasOpen(request[r].kind, cmds')
    BY <2>2 DEF HasOpen, New, IsOpen
  <2>4. Dropped' \subseteq held'
    BY <1>0, <2>1, <2>2 DEF Dropped, New
  <2> QED BY <1>0, <1>2, <2>1, <2>3, <2>4 DEF Calm
<1>8. ASSUME NEW r \in Requests, UpdateStatus(r) PROVE WaitInv'
  <2>1. /\ request[r].step = "status" /\ request[r].kind \in Kinds
        /\ request'[r].step = "free" /\ \A q \in Requests \ {r} : request'[q] = request[q]
        /\ UNCHANGED <<cmds, held>>
    BY <1>0, <1>8, RequestType DEF UpdateStatus, agent
  <2>2. HasOpen(request[r].kind, cmds)
    BY <1>0, <2>1
  <2>3. /\ runtime' = "provisioning" => runtime = "provisioning" \/ request[r].kind = "provision"
        /\ runtime' = "deleting" => runtime = "deleting" \/ request[r].kind = "deprovision"
        /\ runtime = Gone => runtime' = Gone
        /\ bootstrap' = "provisioning" => bootstrap = "provisioning" \/ request[r].kind = "bootstrap"
    BY <1>8, <2>1 DEF UpdateStatus, Gone
  <2> QED BY <1>0, <1>2, <2>1, <2>2, <2>3 DEF Calm, HasOpen, Dropped
<1>9. ASSUME NEW stale \in SUBSET Dropped, Poll(stale) PROVE WaitInv'
  <2>1. Dropped = {} /\ UNCHANGED <<runtime, bootstrap, request>>
    BY <1>0, <1>9 DEF Poll, row
  <2>2. /\ DOMAIN cmds' = DOMAIN cmds
        /\ \A i \in DOMAIN cmds : /\ cmds'[i].kind = cmds[i].kind
                                  /\ IsOpen(cmds'[i]) <=> IsOpen(cmds[i])
        /\ Dropped' \subseteq held'
    BY <1>0, <1>9, <2>1, PollCalm
  <2>3. \A k : HasOpen(k, cmds) => HasOpen(k, cmds')
    BY <2>2 DEF HasOpen
  <2> QED BY <1>0, <1>2, <2>1, <2>2, <2>3 DEF Calm
<1>10. ASSUME NEW i \in held, Ack(i) PROVE WaitInv'
  <2>1. /\ i \in DOMAIN cmds /\ ran \in {"acked", "failed"} /\ cmds[i].kind \in Kinds
        /\ \A j \in DOMAIN cmds : /\ j \in DOMAIN cmds' /\ cmds'[j].kind = cmds[j].kind
                                  /\ j # i => cmds'[j] = cmds[j]
        /\ cmds'[i].state = ran
        /\ \A j \in DOMAIN cmds' \ DOMAIN cmds : cmds'[j] = New("bootstrap")
        /\ held' = held \ {i}
        /\ runtime = Gone => runtime' = Gone
        /\ runtime # Gone =>
             /\ runtime' = RuntimeAfter([kind |-> cmds[i].kind, state |-> ran])
             /\ bootstrap' = "provisioning" =>
                  \/ HasOpen("bootstrap", cmds')
                  \/ bootstrap = "provisioning" /\ cmds[i].kind # "bootstrap"
    BY <1>0, <1>10, AckExact
  <2>2. request' = request /\ \A r \in Requests : request[r].step # "status"
    BY <1>10 DEF Ack, Calm
  <2>3. \A k : k # cmds[i].kind /\ HasOpen(k, cmds) => HasOpen(k, cmds')
    BY <2>1 DEF HasOpen
  <2>4. Dropped' \subseteq held'
    BY <1>0, <2>1 DEF Dropped, New
  <2>5. ASSUME runtime # Gone
        PROVE  /\ runtime' = "provisioning" => runtime = "provisioning" /\ cmds[i].kind = "bootstrap"
               /\ runtime' = "deleting" => runtime = "deleting" /\ cmds[i].kind = "bootstrap"
    BY <2>1, <2>5 DEF RuntimeAfter, ReportedStatus, Kinds, Gone
  <2> QED BY <1>0, <1>2, <2>1, <2>2, <2>3, <2>4, <2>5 DEF Calm, Gone
<1>11. ASSUME NEW i \in held, NEW o \in {"acked", "failed"}, Execute(i, o) PROVE WaitInv'
  BY <1>0, <1>2, <1>11 DEF Execute, row, Calm, HasOpen, Dropped
<1>12. ASSUME Lose PROVE FALSE
  BY <1>0, <1>12, TenantAssumption DEF Lose, TypeOK, TenantAssumption, Calm
<1>13. ASSUME NEW i \in DOMAIN cmds, PollCommand(i) PROVE FALSE
  BY <1>13 DEF PollCommand, Calm
<1> QED
  BY <1>3, <1>4, <1>5, <1>6, <1>7, <1>8, <1>9, <1>10, <1>11, <1>12, <1>13
     DEF Next, RequestStep, AgentStep

LEMMA CalmInductive == Spec => []CalmInv
<1>1. Init => CalmInv
  <2> SUFFICES ASSUME Init PROVE CalmInv
    OBVIOUS
  <2>1. TypeOK /\ HeldInv
    BY Initially DEF IInv
  <2>2. ToldInv /\ KeyInv /\ WaitInv
    BY DEF Init, ToldInv, RowTells, KeyInv, WaitInv, Free, Dropped
  <2> QED BY <2>1, <2>2 DEF CalmInv
<1>2. CalmInv /\ [Next]_vars => CalmInv'
  BY TypeStep, ToldStep, KeyStep, WaitStep DEF CalmInv
<1> QED BY <1>1, <1>2, PTL DEF Spec

-----------------------------------------------------------------------------
\* Every variable keeps its type, however many requests the control plane serves
\* at a time: no step of a handler, of the agent or of an acknowledgement takes the
\* row, the record, the commands or the host out of the values the code has for them.
THEOREM TypeCorrect == Spec => []TypeOK
<1>1. Init => TypeOK /\ HeldInv
  BY Initially DEF IInv
<1>2. TypeOK /\ HeldInv /\ [Next]_vars => TypeOK' /\ HeldInv'
  BY TypeStep
<1>3. QED
  BY <1>1, <1>2, PTL DEF Spec

\* Repeating a request does not repeat its work, however many server processes
\* there are, acknowledgements are lost and requests cut short: two open commands of
\* one runtime kind exist only if the request for the second looked for an open one
\* (_find_pending_runtime_command) before the request for the first queued its own.
THEOREM WorkIsNotRepeated == Spec => []OneOpenCommand
<1>1. Init => TypeOK /\ HeldInv /\ OneOpenCommand /\ OpenInv
  <2> SUFFICES ASSUME Init PROVE TypeOK /\ HeldInv /\ OneOpenCommand /\ OpenInv
    OBVIOUS
  <2>1. TypeOK /\ HeldInv
    BY Initially DEF IInv
  <2>2. OneOpenCommand /\ OpenInv
    BY DEF Init, OneOpenCommand, OpenInv, Free
  <2> QED BY <2>1, <2>2
<1>2. TypeOK /\ HeldInv /\ OneOpenCommand /\ OpenInv /\ [Next]_vars
      => (TypeOK /\ HeldInv /\ OneOpenCommand /\ OpenInv)'
  BY TypeStep, OpenStep
<1>3. QED
  BY <1>1, <1>2, PTL DEF Spec

\* A tenant that exists and whose containers run has its record at the DNS provider,
\* in every environment in which requests for the tenant follow each other and none
\* was cut short (ensure_tenant_dns comes before the command, its removal after it).
THEOREM RunningResolves == Spec => []RunningIsResolvable
<1>1. IInv => RunningIsResolvable
  BY DEF IInv, OrderInv, RunningIsResolvable, StackInv, DnsInv
<1>2. QED
  BY <1>1, Inductive, PTL

\* No row is deleted in front of containers that still run: neither by the
\* acknowledgement of a removal, be it applied late or once more, nor by the deletion of
\* a tenant that looks new, while requests follow each other and none was cut short.
THEOREM RowsOutliveStacks == Spec => NoStackLeftBehind
<1>1. ASSUME IInv, [Next]_vars, Serial, kills = 0, runtime # Gone, runtime' = Gone PROVE stack = "none"
  <2>1. ~Provisioned => stack = "none"
    BY <1>1 DEF IInv, StackInv
  <2>2. ASSUME NEW r \in Requests, DeleteRow(r) PROVE stack = "none"
    BY <1>1, <2>1, <2>2 DEF IInv, OrderInv, LeaveInv, DeleteRow
  <2>3. ASSUME NEW i \in held, Ack(i) PROVE stack = "none"
    <3> DEFINE cs == Settle(cmds, i, ran)
    <3>1. TypeOK /\ HeldInv /\ RemovedInv
      BY <1>1 DEF IInv
    <3>2. /\ i \in DOMAIN cmds /\ cs[i].state \in {"acked", "failed"} /\ Sync(i, cs)
          /\ Grown(cs, {}) /\ Len(cs) = Len(cmds)
          /\ cs[i].kind = cmds[i].kind /\ cs[i].state = ran
      BY <2>3, <3>1, AckGrows
    <3> HIDE DEF cs
    <3>3. cmds[i].kind = "deprovision" /\ ran = "acked"
      BY <1>1, <3>1, <3>2, SyncRow
    <3>4. QED
      BY <2>3, <3>1, <3>3 DEF RemovedInv, Ack
  <2>4. ASSUME NEW i \in DOMAIN cmds, PollCommand(i) PROVE FALSE
    <3>1. TypeOK /\ RemovedInv
      BY <1>1 DEF IInv
    <3>2. cmds[i].kind = "deprovision" /\ cmds[i].state = "acked"
      BY <1>1, <2>4, <3>1, RepollGrows, SyncRow
    <3>3. QED
      BY <1>1, <3>1, <3>2 DEF RemovedInv
  <2>5. QED
    BY <1>1, <2>2, <2>3, <2>4
       DEF Next, vars, row, Begin, BeginDelete, RequestStep, BreakOff, AgentStep, Find, EnsureDns,
           EnqueueFor, UpdateStatus, UndoDns, Poll, Execute, Lose, Gone
<1>2. IInv /\ [Next]_vars => [(Serial /\ kills = 0 /\ runtime # Gone /\ runtime' = Gone) => stack = "none"]_vars
  BY <1>1
<1>3. QED
  BY <1>2, Inductive, PTL DEF Spec, NoStackLeftBehind

\* With no acknowledgement lost and none that overtakes its request, a tenant
\* for which nothing is open has the status its containers have, and none that only
\* an open command could end (sync_tenant_from_acked_command, the views' updates).
THEOREM QuietStatusTells == Spec => []StatusTellsStack
<1>1. CalmInv => StatusTellsStack
  <2> SUFFICES ASSUME CalmInv, Calm, Quiet
               PROVE  /\ RowTells
                      /\ runtime \notin {"provisioning", "deleting"}
                      /\ runtime # Gone => bootstrap # "provisioning"
    BY DEF StatusTellsStack, RowTells
  <2>1. /\ TypeOK /\ HeldInv /\ ToldInv /\ WaitInv
        /\ \A k : ~HasOpen(k, cmds)
    BY DEF CalmInv, Quiet, HasOpen
  <2>2. ran = "none"
    BY <2>1 DEF TypeOK, HeldInv, Quiet, IsOpen
  <2> QED BY <2>1, <2>2 DEF ToldInv, WaitInv, Calm
<1> QED BY <1>1, CalmInductive, PTL

\* The API key on record is one the tenant's database accepts
\* (resolve_bootstrap_secrets), up to a removal that failed, however requests overlap.
THEOREM RecordedKeyWorks == Spec => []KeyOnRecordWorks
<1>1. CalmInv => KeyOnRecordWorks
  BY DEF CalmInv, KeyInv, KeyOnRecordWorks, Calm
<1> QED BY <1>1, CalmInductive, PTL
=============================================================================
