-------------------------- MODULE GatewayMonitoring --------------------------
(***************************************************************************)
(* The monitoring of one gateway's networks                                *)
(* (backend/gateways/monitoring_service.py, monitoring_policy.py): the     *)
(* scheduler and the operators that enqueue discovery scans of a few       *)
(* chunks of the networks at a time, the gateway's agent that executes     *)
(* them, the acknowledgement that records the hosts and marks them for a   *)
(* vulnerability scan, and the agent's pool of threads that works those    *)
(* scans off (backend/agent_daemon/vuln_worker.py).                        *)
(*                                                                         *)
(* Chunks (the /24 networks of the monitored CIDRs) are numbered from 0.   *)
(* Only scan commands that are open, or whose acknowledgement is on its    *)
(* way, are kept.                                                          *)
(***************************************************************************)
EXTENDS Integers, Sequences, FiniteSets, FiniteSetsExt, SequencesExt

CONSTANTS Hosts,          \* hosts of the gateway's networks
          Totals,         \* how many chunks the monitored CIDRs may have
          Parallel,       \* vuln_parallel_workers
          Environments    \* what may happen around the gateway, see env

\* A monitoring policy: how many chunks its CIDRs have, chunk_count, the scan
\* strategy, and vuln_scan_enabled (with its modules).
Policies == [total : Totals, count : Nat \ {0}, strategy : {"rotating", "full"},
             vuln : BOOLEAN]

ASSUME MonitoringAssumption ==
  /\ IsFiniteSet(Hosts)
  /\ Totals \subseteq Nat \ {0}
  /\ Parallel \in Nat \ {0}
  /\ \A e \in Environments :
       /\ e.policies \subseteq Policies   \* those an operator chooses from
       /\ e.hosts \subseteq Hosts         \* those that scans find
       /\ e.triggers \in BOOLEAN         \* do operators ask for scans at once?
       /\ e.handlers \in Nat \ {0}       \* server processes: how many acks can be under way
       /\ e.losses \in Nat               \* bound: failed scans, lost requests and restarts of the agent
       /\ e.changes \in Nat              \* bound: changes of the policy, of the gateway and of a host's need

VARIABLES
  env,        \* the environment this behaviour is in; it never changes
  policy,     \* the GatewayMonitorPolicy row, without its bookkeeping
  cursor,     \* chunk_cursor
  due,        \* the interval has passed since last_scheduled_at
  ready,      \* the gateway is ONLINE and its masscan module is installed
  scans,      \* scan_network commands in the order of created_at
  scheduler,  \* what the scheduler process is about to enqueue, holding the policy's lock
  operator,   \* what an operator's request for a scan is about to enqueue
  snapshot,   \* chunk_cidrs of the latest ScanSnapshot
  known,      \* DiscoveredHost rows in the order of first_seen_at
  isNew,      \* hosts with is_new
  alerts,     \* NEW_HOST alerts raised for each host
  pending,    \* hosts with vuln_scan_pending
  recent,     \* hosts with last_vuln_scan_at within vuln_rescan_days
  fetched,    \* the vuln queue the agent has fetched and not acted on
  jobs,       \* what the agent's pool does for each host
  losses, changes

schedule == <<env, policy, cursor, due, ready, scheduler, operator>>
inventory == <<known, isNew, alerts, snapshot>>
needs == <<pending, recent>>
pool == <<fetched, jobs>>
vars == <<schedule, scans, inventory, needs, pool, losses, changes>>

Chunks == UNION {0..(t - 1) : t \in Totals}
ScanStates == {"pending", "held", "lost", "acking", "inserting"}
ScanRow == [targets : SUBSET Chunks, by : {"scheduler", "operator"},
            state : ScanStates, expired : BOOLEAN,
            found : SUBSET Hosts, seen : SUBSET Hosts]
JobStages == {"none", "scan", "report", "report_failure"}
Idle == [step |-> "idle", targets |-> {}, next |-> 0]
NoFetch == <<"none">>

TypeOK ==
  /\ policy \in Policies
  /\ cursor \in Chunks
  /\ due \in BOOLEAN /\ ready \in BOOLEAN
  /\ scans \in Seq(ScanRow)
  /\ scheduler \in [step : {"idle", "commit"}, targets : SUBSET Chunks, next : Chunks]
  /\ operator \in [step : {"idle", "check", "commit"}, targets : SUBSET Chunks, next : Chunks]
  /\ snapshot \in SUBSET Chunks
  /\ known \in Seq(Hosts)
  /\ isNew \in SUBSET Hosts /\ pending \in SUBSET Hosts /\ recent \in SUBSET Hosts
  /\ alerts \in [Hosts -> Nat]
  /\ fetched = NoFetch \/ fetched \in Seq(Hosts)
  /\ jobs \in [Hosts -> JobStages]
  /\ env \in Environments
  /\ losses \in 0..env.losses /\ changes \in 0..env.changes

Init ==
  /\ env \in Environments
  /\ policy \in env.policies /\ cursor = 0 /\ due = TRUE /\ ready = TRUE
  /\ scans = <<>> /\ scheduler = Idle /\ operator = Idle
  /\ snapshot = {} /\ known = <<>> /\ isNew = {} /\ alerts = [h \in Hosts |-> 0]
  /\ pending = {} /\ recent = {}
  /\ fetched = NoFetch /\ jobs = [h \in Hosts |-> "none"]
  /\ losses = 0 /\ changes = 0

-----------------------------------------------------------------------------
\* pending_network_scan
HasOpen(cs) == \E i \in DOMAIN cs : ~cs[i].expired

\* The k-th smallest of some positions, and the subsequence of s at them.
Nth(k, positions) == CHOOSE i \in positions : Cardinality({j \in positions : j <= i}) = k
Subsequence(s, positions) == [k \in 1..Cardinality(positions) |-> s[Nth(k, positions)]]

Known == Range(known)
Active == {h \in Hosts : jobs[h] # "none"}
Loses == losses < env.losses /\ losses' = losses + 1
Changes == changes < env.changes /\ changes' = changes + 1

\* _plan_targets: the next chunks from the cursor on, or the first ones of a
\* full sweep.  A cursor past the end, left by an earlier policy, wraps.
Selected == Min({policy.count, policy.total})
From == IF policy.strategy = "full" THEN 0 ELSE cursor % policy.total
Targets == {(From + k) % policy.total : k \in 0..(Selected - 1)}

\* Faulty: every cycle starts where the first one did.
NextCursorStuck == IF policy.strategy = "full" THEN 0 ELSE From

\* Faulty: the wrap is left to the next planning, which may not happen.
NextCursorUnwrapped == IF policy.strategy = "full" THEN 0 ELSE From + Selected

NextCursor == IF policy.strategy = "full" THEN 0 ELSE (From + Selected) % policy.total

Scan(plan, by) == [targets |-> plan.targets, by |-> by, state |-> "pending",
                   expired |-> FALSE, found |-> {}, seen |-> {}]
Enqueue(plan, by) ==
  /\ scans' = Append(scans, Scan(plan, by))
  /\ cursor' = plan.next /\ due' = FALSE

-----------------------------------------------------------------------------
(* Enqueueing scans.                                                        *)

\* schedule_policy_scan, one transaction that holds the lock of the policy's row.
ScheduleRead ==
  /\ scheduler = Idle /\ ready /\ due /\ ~HasOpen(scans)
  /\ scheduler' = [step |-> "commit", targets |-> Targets, next |-> NextCursor]
  /\ UNCHANGED <<env, policy, cursor, due, ready, operator, scans, inventory, needs, pool, losses, changes>>

ScheduleCommit ==
  /\ scheduler # Idle
  /\ Enqueue(scheduler, "scheduler")
  /\ scheduler' = Idle
  /\ UNCHANGED <<env, policy, ready, operator, inventory, needs, pool, losses, changes>>

\* trigger_immediate_monitor_scan reads the policy without its lock ...
TriggerRead ==
  /\ env.triggers /\ operator = Idle
  /\ operator' = [step |-> "check", targets |-> Targets, next |-> NextCursor]
  /\ UNCHANGED <<env, policy, cursor, due, ready, scheduler, scans, inventory, needs, pool, losses, changes>>

\* ... is refused while the gateway is not ready or a scan is open ...
TriggerCheck ==
  /\ operator.step = "check"
  /\ operator' = IF ready /\ ~HasOpen(scans) THEN [operator EXCEPT !.step = "commit"] ELSE Idle
  /\ UNCHANGED <<env, policy, cursor, due, ready, scheduler, scans, inventory, needs, pool, losses, changes>>

\* ... and in the end waits for the lock to write the bookkeeping.
TriggerCommit ==
  /\ operator.step = "commit" /\ scheduler = Idle
  /\ Enqueue(operator, "operator")
  /\ operator' = Idle
  /\ UNCHANGED <<env, policy, ready, scheduler, inventory, needs, pool, losses, changes>>

\* GatewayMonitoringView.patch: the cursor stays.
ChangePolicy(p) ==
  /\ scheduler = Idle /\ p # policy /\ Changes
  /\ policy' = p
  /\ UNCHANGED <<env, cursor, due, ready, scheduler, operator, scans, inventory, needs, pool, losses>>

\* The gateway goes offline or comes back, or the module is installed.
ChangeGateway ==
  /\ Changes /\ ready' = ~ready
  /\ UNCHANGED <<env, policy, cursor, due, scheduler, operator, scans, inventory, needs, pool, losses>>

IntervalPasses ==
  /\ ~due /\ due' = TRUE
  /\ UNCHANGED <<env, policy, cursor, ready, scheduler, operator, scans, inventory, needs, pool, losses, changes>>

-----------------------------------------------------------------------------
(* The agent's scans.                                                       *)

\* A poll: what the agent lost is given up, what waits is handed over.  The
\* sweep may also hit a command whose ack the server has not begun to record.
Poll(late) ==
  /\ \A i \in DOMAIN scans : scans[i].state # "held"
  /\ late \subseteq {i \in DOMAIN scans : scans[i].state = "acking" /\ ~scans[i].expired}
  /\ IF late = {} THEN UNCHANGED losses ELSE Loses
  /\ scans' = LET swept == [i \in DOMAIN scans |->
                              IF scans[i].state = "pending" THEN [scans[i] EXCEPT !.state = "held"]
                              ELSE [scans[i] EXCEPT !.expired = @ \/ i \in late]]
              IN Subsequence(swept, {i \in DOMAIN scans : scans[i].state # "lost"})
  /\ UNCHANGED <<schedule, inventory, needs, pool, changes>>

Current(i) == scans[i].state = "held" /\ \A j \in 1..(i - 1) : scans[j].state # "held"
Acking == {i \in DOMAIN scans : scans[i].state \in {"acking", "inserting"}}

\* _handle_scan_network; the ack with the hosts is sent off.
Execute(i, found) ==
  /\ Current(i) /\ Cardinality(Acking) < env.handlers
  /\ scans' = [scans EXCEPT ![i].state = "acking", ![i].found = found]
  /\ UNCHANGED <<schedule, inventory, needs, pool, losses, changes>>

\* The scan fails and is acknowledged as failed, which records no hosts.
FailScan(i) ==
  /\ Current(i) /\ Loses
  /\ scans' = RemoveAt(scans, i)
  /\ UNCHANGED <<schedule, inventory, needs, pool, changes>>

\* The daemon is restarted: its batch and its threads are gone.
Restart ==
  /\ Loses
  /\ scans' = [i \in DOMAIN scans |->
                 IF scans[i].state = "held" THEN [scans[i] EXCEPT !.state = "lost"] ELSE scans[i]]
  /\ fetched' = NoFetch /\ jobs' = [h \in Hosts |-> "none"]
  /\ UNCHANGED <<schedule, inventory, needs, changes>>

-----------------------------------------------------------------------------
(* AgentCommandAckView and process_monitor_scan_ack: one transaction, which *)
(* reads the known hosts before it inserts the new ones.                    *)

AckRead(i) ==
  /\ scans[i].state = "acking"
  /\ scans' = [scans EXCEPT ![i].state = "inserting", ![i].seen = Known]
  /\ UNCHANGED <<schedule, inventory, needs, pool, losses, changes>>

\* _maybe_enqueue_vuln_scans
Marked(found, new, others) ==
  IF policy.vuln /\ ~HasOpen(others)
  THEN {h \in found \ pending : h \in new \/ h \notin recent} ELSE {}

RecordHosts(s, others) ==
  LET new == s.found \ s.seen
  IN /\ snapshot' = s.targets
     /\ known' = known \o SetToSeq(new)
     /\ isNew' = (isNew \ s.found) \cup new
     /\ alerts' = [h \in Hosts |-> IF h \in new THEN alerts[h] + 1 ELSE alerts[h]]
     /\ pending' = pending \cup Marked(s.found, new, others)

AckCommitWithoutConstraint(i) ==
  /\ scans[i].state = "inserting"
  /\ scans' = RemoveAt(scans, i)
  /\ RecordHosts(scans[i], RemoveAt(scans, i))
  /\ UNCHANGED <<schedule, recent, pool, losses, changes>>

\* Another ack that inserted one of the hosts first makes the transaction fail:
\* the command stays dispatched, and nobody will acknowledge it again.
AckCommit(i) ==
  /\ scans[i].state = "inserting"
  /\ IF (scans[i].found \ scans[i].seen) \cap Known # {}
       THEN /\ scans' = IF scans[i].expired THEN RemoveAt(scans, i)
                                            ELSE [scans EXCEPT ![i] = [@ EXCEPT !.state = "lost", !.found = {}, !.seen = {}]]
            /\ UNCHANGED <<inventory, pending>>
       ELSE /\ scans' = RemoveAt(scans, i)
            /\ RecordHosts(scans[i], RemoveAt(scans, i))
  /\ UNCHANGED <<schedule, recent, pool, losses, changes>>

-----------------------------------------------------------------------------
(* The queue of vulnerability scans and the pool that works it off.         *)

\* trigger_vuln_rescan of one host.
Rescan(h) ==
  /\ ready /\ policy.vuln /\ h \in Known /\ Changes
  /\ pending' = pending \cup {h}
  /\ UNCHANGED <<schedule, scans, inventory, recent, pool, losses>>

RescanDaysPass(h) ==
  /\ h \in recent /\ Changes
  /\ recent' = recent \ {h}
  /\ UNCHANGED <<schedule, scans, inventory, pending, pool, losses>>

\* get_vuln_scan_queue: the hosts that have been known the longest.
First(n, s) == SubSeq(s, 1, Min({n, Len(s)}))
VulnQueue ==
  First(Parallel, Subsequence(known, {i \in DOMAIN known : known[i] \in pending}))

\* An empty queue ends the tick.
TickFetch ==
  /\ fetched = NoFetch /\ policy.vuln /\ VulnQueue # <<>>
  /\ fetched' = VulnQueue
  /\ UNCHANGED <<schedule, scans, inventory, needs, jobs, losses, changes>>

Available == Max({Parallel - Cardinality(Active), 0})

\* VulnWorkerPool.tick, under the pool's lock: no host that is being worked on,
\* and no more than there are free workers.
TickSchedule ==
  /\ fetched # NoFetch
  /\ LET free == Subsequence(fetched, {i \in DOMAIN fetched : fetched[i] \notin Active})
     IN jobs' = [h \in Hosts |-> IF h \in Range(First(Available, free)) THEN "scan" ELSE jobs[h]]
  /\ fetched' = NoFetch
  /\ UNCHANGED <<schedule, scans, inventory, needs, losses, changes>>

\* run_vuln_scan returns its findings, or raises.
JobScan(h) ==
  /\ jobs[h] = "scan"
  /\ \E stage \in {"report", "report_failure"} : jobs' = [jobs EXCEPT ![h] = stage]
  /\ UNCHANGED <<schedule, scans, inventory, needs, fetched, losses, changes>>

\* process_vuln_results_push: a report of a failure counts as a scan.
Done(h) == pending' = pending \ {h} /\ recent' = recent \cup {h}

\* The server records the report, unless the request is lost; when the request
\* or the response is lost, the job reports a failure next.
JobReport(h) ==
  /\ jobs[h] = "report"
  /\ \/ Done(h) /\ jobs' = [jobs EXCEPT ![h] = "none"] /\ UNCHANGED losses
     \/ Done(h) /\ jobs' = [jobs EXCEPT ![h] = "report_failure"] /\ Loses
     \/ UNCHANGED needs /\ jobs' = [jobs EXCEPT ![h] = "report_failure"] /\ Loses
  /\ UNCHANGED <<schedule, scans, inventory, fetched, changes>>

\* Faulty: the server leaves a host whose scan failed in the queue.
JobReportFailureIgnored(h) ==
  /\ jobs[h] = "report_failure"
  /\ jobs' = [jobs EXCEPT ![h] = "none"]
  /\ UNCHANGED <<schedule, scans, inventory, needs, fetched, losses, changes>>

JobReportFailure(h) ==
  /\ jobs[h] = "report_failure"
  /\ \/ Done(h) /\ UNCHANGED losses
     \/ UNCHANGED needs /\ Loses
  /\ jobs' = [jobs EXCEPT ![h] = "none"]
  /\ UNCHANGED <<schedule, scans, inventory, fetched, changes>>

-----------------------------------------------------------------------------
SchedulerStep == ScheduleRead \/ ScheduleCommit
OperatorStep == TriggerCheck \/ TriggerCommit
AckStep == \E i \in DOMAIN scans : AckRead(i) \/ AckCommit(i)
AgentStep == Poll({}) \/ \E i \in DOMAIN scans, found \in SUBSET env.hosts : Execute(i, found)
TickStep == TickFetch \/ TickSchedule
JobStep(h) == JobScan(h) \/ JobReport(h) \/ JobReportFailure(h)

Next ==
  \/ SchedulerStep \/ TriggerRead \/ OperatorStep
  \/ (\E p \in env.policies : ChangePolicy(p)) \/ ChangeGateway \/ IntervalPasses
  \/ AgentStep \/ (\E late \in (SUBSET DOMAIN scans) \ {{}} : Poll(late))
  \/ (\E i \in DOMAIN scans : FailScan(i)) \/ Restart
  \/ AckStep
  \/ TickStep
  \/ (\E h \in Hosts : Rescan(h) \/ RescanDaysPass(h) \/ JobStep(h))

\* The scheduler's loop, the agent's cycle, its threads and the server's
\* requests go on, and time passes.  Operators may never ask for anything.
Fairness ==
  /\ WF_vars(SchedulerStep) /\ WF_vars(OperatorStep) /\ WF_vars(IntervalPasses)
  /\ WF_vars(AgentStep) /\ WF_vars(AckStep) /\ WF_vars(TickStep)
  /\ \A h \in Hosts : WF_vars(JobStep(h))

Spec == Init /\ [][Next]_vars
FairSpec == Spec /\ Fairness

-----------------------------------------------------------------------------
\* A host is announced exactly once, and recorded once, although two acks may
\* both find it missing before either inserts it.
AnnouncedOnce ==
  /\ \A h \in Hosts : alerts[h] = (IF h \in Known THEN 1 ELSE 0)
  /\ Len(known) = Cardinality(Known)

\* The pool never works on more hosts than it has workers, whatever a tick finds
\* in a queue it fetched before other jobs ended or the agent was restarted.
PoolIsBounded == Cardinality(Active) <= Parallel

\* With rotating chunks, every chunk of the policy is scanned again and again
\* while the gateway is ready: neither a stale cursor of an operator's request,
\* nor a changed policy, nor a lost scan leaves one out for good.
EveryChunkScanned ==
  \A c \in Chunks : []<>(c \in snapshot \/ c >= policy.total \/ policy.strategy = "full" \/ ~ready)

\* No host waits for its vulnerability scan for ever: not behind hosts known for
\* longer, not after a restart or a lost report.
QueueIsServed ==
  \A h \in Hosts : []<>(h \notin pending \/ ~policy.vuln)

-----------------------------------------------------------------------------
(* What the console says, and the code does not do.                        *)

\* A full sweep scans every chunk in each cycle, whatever chunk_count is.
FullSweepIsComplete ==
  [][(ScheduleCommit /\ policy.strategy = "full")
       => Last(scans').targets = 0..(policy.total - 1)]_vars

-----------------------------------------------------------------------------
(* Environments of a gateway for TLC, over the hosts "h1" and "h2".         *)

\* Operators and the scheduler both ask for scans of rotating chunks, and two
\* acks may be recorded at once.
Rotating ==
  [policies |-> [total : {1, 2}, count : {1}, strategy : {"rotating"}, vuln : {FALSE}],
   hosts |-> {"h1"}, triggers |-> TRUE, handlers |-> 2, losses |-> 1, changes |-> 1]

\* Hosts compete for the one worker of the vulnerability pool.
VulnQueueing ==
  [policies |-> [total : {1}, count : {1}, strategy : {"full"}, vuln : BOOLEAN],
   hosts |-> {"h1", "h2"}, triggers |-> FALSE, handlers |-> 1, losses |-> 1, changes |-> 1]

\* A full sweep of more chunks than chunk_count.
Sweeping ==
  [policies |-> [total : {3}, count : {2}, strategy : {"full"}, vuln : {FALSE}],
   hosts |-> {"h1"}, triggers |-> TRUE, handlers |-> 1, losses |-> 0, changes |-> 0]

RotatingAndQueueing == {Rotating, VulnQueueing}
SweepingOnly == {Sweeping}
=============================================================================
