--------------------------- MODULE StackProvisioner ---------------------------
(***************************************************************************)
(* The stack that all tenants of one worker share, as the agent changes it  *)
(* (backend/agent_daemon/stack_provisioner.py): the recorded state          *)
(* (stack-state.json), the bundle generated from it (compose.yml and        *)
(* pgbouncer.ini), the tenants' directories, the containers and databases.  *)
(*                                                                         *)
(* The agent executes one command at a time.  A command is a sequence of    *)
(* writes and calls to Docker, each of which may fail, and the agent may    *)
(* stop between two of them; what has been done stays.                      *)
(***************************************************************************)
EXTENDS TLAPS

CONSTANTS Tenants,
          Modes,    \* production or dev: what a tenant's compose snippet is made for
          NoMode    \* a file that does not exist, a tenant not in a file

ASSUME StackAssumption == NoMode \notin Modes

OptionalModes == Modes \cup {NoMode}

VARIABLES
  state,       \* stack-state.json; without the file nothing is initialized
  dir,         \* tenants/<slug>/compose.snippet.yml: the mode it is written for
  ini,         \* the tenants whose databases pgbouncer.ini lists
  compose,     \* compose.yml: its mode, and the mode of each tenant's services
  infra,       \* the containers of PostgreSQL and PgBouncer have been created
  pool,        \* the tenants whose databases the running PgBouncer knows
  databases,   \* the tenants whose databases exist
  containers,  \* each tenant's containers
  job,         \* the command the agent executes
  told         \* what the agent last reported of each tenant

files == <<dir, ini, compose>>
docker == <<infra, pool, databases, containers>>
vars == <<state, files, docker, job, told>>

Steps == {"dir", "ini", "compose", "up", "database", "restart", "save"}
Idle == [op |-> "none"]
Jobs == [op : {"provision", "deprovision"}, tenant : Tenants,
         mode : OptionalModes,    \* of the bundle it generates
         step : Steps]
Reports == {"nothing", "unknown", "failed", "running", "stopped", "deprovisioned"}

TypeOK ==
  /\ state \in [initialized : BOOLEAN, mode : OptionalModes, listed : SUBSET Tenants]
  /\ dir \in [Tenants -> OptionalModes]
  /\ ini \in SUBSET Tenants
  /\ compose \in [mode : OptionalModes, blocks : [Tenants -> OptionalModes]]
  /\ infra \in BOOLEAN
  /\ pool \in SUBSET Tenants
  /\ databases \in SUBSET Tenants
  /\ containers \in [Tenants -> {"none", "running", "stopped"}]
  /\ job \in Jobs \cup {Idle}
  /\ told \in [Tenants -> Reports]

Init ==
  /\ state = [initialized |-> FALSE, mode |-> NoMode, listed |-> {}]
  /\ dir = [t \in Tenants |-> NoMode]
  /\ ini = {}
  /\ compose = [mode |-> NoMode, blocks |-> [t \in Tenants |-> NoMode]]
  /\ infra = FALSE /\ pool = {} /\ databases = {}
  /\ containers = [t \in Tenants |-> "none"]
  /\ job = Idle
  /\ told = [t \in Tenants |-> "nothing"]

-----------------------------------------------------------------------------
Working(op, step) == job # Idle /\ job.op = op /\ job.step = step
At(step) == job # Idle /\ job.step = step
Defined(t) == compose.mode # NoMode /\ compose.blocks[t] # NoMode

Goto(step) == job' = [job EXCEPT !.step = step] /\ UNCHANGED told
Report(t, what) == job' = Idle /\ told' = [told EXCEPT ![t] = what]

\* An error is reported as a failure; an exception, a timeout or the end of the
\* agent's process leaves the command without an answer.
Fail(t) == \E what \in {"failed", "unknown"} : Report(t, what)

\* Faulty: forgets the tenants that are already there.
CollectOwnOnly == IF job.op = "provision" THEN {job.tenant} ELSE {}

\* The tenants the generated files are for.
Collected ==
  IF job.op = "provision" THEN state.listed \cup {job.tenant}
                          ELSE state.listed \ {job.tenant}

-----------------------------------------------------------------------------
(* Faulty variants of definitions below, used only to show that a property *)
(* notices the bug they stand for.                                         *)

BeginAnyProvision(t, m) ==
  /\ job = Idle
  /\ job' = [op |-> "provision", tenant |-> t, mode |-> m, step |-> "dir"]
  /\ told' = [told EXCEPT ![t] = "unknown"]
  /\ UNCHANGED <<state, files, docker>>

ComposeRmUnchecked(t) ==
  /\ job = Idle
  /\ containers' = IF Defined(t) THEN [containers EXCEPT ![t] = "none"] ELSE containers
  /\ job' = [op |-> "deprovision", tenant |-> t, mode |-> state.mode, step |-> "dir"]
  /\ told' = [told EXCEPT ![t] = "unknown"]
  /\ UNCHANGED <<state, files, infra, pool, databases>>

SaveStateListed ==
  /\ At("save")
  /\ state' = IF job.op = "provision"
                THEN [initialized |-> TRUE, mode |-> job.mode, listed |-> Collected]
                ELSE [state EXCEPT !.initialized = Collected # {}]
  /\ Report(job.tenant, IF job.op = "provision" THEN "running" ELSE "deprovisioned")
  /\ UNCHANGED <<files, docker>>

WriteIniForOwn ==
  /\ At("ini")
  /\ ini' = {job.tenant} \cap Collected
  /\ Goto("compose")
  /\ UNCHANGED <<state, dir, compose, docker>>

SaveStateRenamed ==
  /\ At("save")
  /\ state' = [initialized |-> TRUE, mode |-> job.mode, listed |-> Collected]
  /\ Report(job.tenant, IF job.op = "provision" THEN "running" ELSE "deleted")
  /\ UNCHANGED <<files, docker>>

-----------------------------------------------------------------------------
(* Steps of provision and deprovision.                                     *)

\* A stack that is initialized for one mode refuses tenants of the other.
BeginProvision(t, m) ==
  /\ job = Idle
  /\ state.initialized => state.mode = m
  /\ job' = [op |-> "provision", tenant |-> t, mode |-> m, step |-> "dir"]
  /\ told' = [told EXCEPT ![t] = "unknown"]
  /\ UNCHANGED <<state, files, docker>>

\* compose rm: only if there is a compose.yml, and an error ends the command.
\* Docker knows no services that are not in the file.
ComposeRm(t) ==
  /\ job = Idle
  /\ \/ /\ compose.mode = NoMode \/ Defined(t)
        /\ containers' = IF Defined(t) THEN [containers EXCEPT ![t] = "none"] ELSE containers
        /\ job' = [op |-> "deprovision", tenant |-> t, mode |-> state.mode, step |-> "dir"]
        /\ told' = [told EXCEPT ![t] = "unknown"]
     \/ /\ compose.mode # NoMode
        /\ \E c \in IF Defined(t) THEN {"none", "stopped", containers[t]} ELSE {containers[t]} :
             containers' = [containers EXCEPT ![t] = IF @ = "none" THEN "none" ELSE c]
        /\ Fail(t)
  /\ UNCHANGED <<state, files, infra, pool, databases>>

\* The first command makes secrets and the tenant's files, the other removes them.
TenantDir ==
  /\ At("dir")
  /\ dir' = [dir EXCEPT ![job.tenant] = IF job.op = "provision" THEN job.mode ELSE NoMode]
  /\ Goto(IF job.op = "provision" \/ state.initialized THEN "ini" ELSE "database")
  /\ UNCHANGED <<state, ini, compose, docker>>

\* The bundle: pgbouncer.ini is written before compose.yml.
WriteIni ==
  /\ At("ini")
  /\ ini' = Collected
  /\ Goto("compose")
  /\ UNCHANGED <<state, dir, compose, docker>>

WriteCompose ==
  /\ At("compose")
  /\ compose' = [mode |-> job.mode,
                 blocks |-> [t \in Tenants |-> IF t \in Collected THEN dir[t] ELSE NoMode]]
  /\ Goto("up")
  /\ UNCHANGED <<state, dir, ini, docker>>

\* When PostgreSQL and PgBouncer start for the first time they create and read
\* what the bundle lists.  A file that changes later is not read again.
StartInfra ==
  /\ infra' = TRUE
  /\ IF infra THEN UNCHANGED <<pool, databases>>
              ELSE pool' = ini /\ databases' = databases \cup ini

\* compose up --remove-orphans of the whole stack.  If it fails, some tenants'
\* containers are as they were and some as they should be.
Wanted(t) == IF Defined(t) THEN "running" ELSE "none"

ComposeUp ==
  /\ At("up")
  /\ \/ /\ StartInfra
        /\ containers' = [t \in Tenants |-> Wanted(t)]
        /\ Goto("database")
     \/ /\ StartInfra \/ UNCHANGED <<infra, pool, databases>>
        /\ \E done \in SUBSET Tenants, own \in {"none", "running", "stopped"} :
             containers' = [t \in Tenants |->
               IF t = job.tenant /\ Defined(t) THEN own
               ELSE IF t \in done THEN Wanted(t) ELSE containers[t]]
        /\ Fail(job.tenant)
  /\ UNCHANGED <<state, files>>

\* An existing database is left alone, and PgBouncer is not restarted for it.
EnsureDatabase ==
  /\ Working("provision", "database")
  /\ \/ Fail(job.tenant) /\ UNCHANGED databases
     \/ job.tenant \in databases /\ Goto("save") /\ UNCHANGED databases
     \/ /\ job.tenant \notin databases
        /\ databases' = databases \cup {job.tenant}
        /\ Goto("restart")
  /\ UNCHANGED <<state, files, infra, pool, containers>>

DropDatabase ==
  /\ Working("deprovision", "database")
  /\ \/ Fail(job.tenant) /\ UNCHANGED databases
     \/ job.tenant \notin databases /\ Goto("save") /\ UNCHANGED databases
     \/ /\ job.tenant \in databases
        /\ databases' = databases \ {job.tenant}
        /\ Goto("restart")
  /\ UNCHANGED <<state, files, infra, pool, containers>>

RestartPgbouncer ==
  /\ At("restart")
  /\ pool' = ini
  /\ Goto("save")
  /\ UNCHANGED <<state, files, infra, databases, containers>>

\* The state is saved last, and when the last tenant goes the stack is open to
\* either mode again.
SaveState ==
  /\ At("save")
  /\ state' = IF job.op = "provision"
                THEN [initialized |-> TRUE, mode |-> job.mode, listed |-> Collected]
              ELSE IF state.initialized
                THEN [state EXCEPT !.listed = Collected, !.initialized = Collected # {}]
              ELSE state
  /\ Report(job.tenant, IF job.op = "provision" THEN "running" ELSE "deprovisioned")
  /\ UNCHANGED <<files, docker>>

-----------------------------------------------------------------------------
(* The other commands are a single call.                                   *)

\* compose up of the tenant's own services and those they depend on.
StartTenant(t) ==
  /\ job = Idle
  /\ \/ /\ Defined(t) /\ StartInfra
        /\ containers' = [containers EXCEPT ![t] = "running"]
        /\ Report(t, "running")
     \/ /\ IF Defined(t) THEN StartInfra \/ UNCHANGED <<infra, pool, databases>>
                         ELSE UNCHANGED <<infra, pool, databases>>
        /\ \E c \in IF Defined(t) THEN {"running", "stopped", containers[t]} ELSE {containers[t]} :
             containers' = [containers EXCEPT ![t] = c]
        /\ Fail(t)
  /\ UNCHANGED <<state, files>>

StopTenant(t) ==
  /\ job = Idle
  /\ \E stopped \in IF Defined(t) /\ containers[t] = "running" THEN BOOLEAN ELSE {FALSE} :
       /\ containers' = IF stopped THEN [containers EXCEPT ![t] = "stopped"] ELSE containers
       /\ \/ Defined(t) /\ (containers[t] = "running" => stopped) /\ Report(t, "stopped")
          \/ Fail(t)
  /\ UNCHANGED <<state, files, infra, pool, databases>>

\* Docker is not reachable, the payload is not valid, or the modes do not fit.
Reject(t) ==
  /\ job = Idle
  /\ Report(t, "failed")
  /\ UNCHANGED <<state, files, docker>>

\* A write fails, a call runs into its timeout or the agent's process ends; the
\* agent then takes the next command.
Abort ==
  /\ job # Idle
  /\ job' = Idle
  /\ UNCHANGED <<state, files, docker, told>>

JobStep ==
  \/ TenantDir \/ WriteIni \/ WriteCompose \/ ComposeUp
  \/ EnsureDatabase \/ DropDatabase \/ RestartPgbouncer \/ SaveState

Next ==
  \/ \E t \in Tenants : \/ \E m \in Modes : BeginProvision(t, m)
                        \/ ComposeRm(t) \/ StartTenant(t) \/ StopTenant(t) \/ Reject(t)
  \/ JobStep
  \/ Abort

Spec == Init /\ [][Next]_vars

-----------------------------------------------------------------------------
\* Production and dev tenants are never in one compose file: "Cannot mix
\* production and dev tenants on one worker stack", whatever failed before.
NoMixedStack ==
  \A t \in Tenants : compose.blocks[t] \in {NoMode, compose.mode}

\* No command for one tenant takes the containers of another away: as long as
\* the state lists a tenant whose files are there and which was reported as
\* running, it runs.
ListedKeepRunning ==
  \A t \in Tenants :
    t \in state.listed /\ dir[t] # NoMode /\ told[t] = "running" => containers[t] = "running"

\* After a successful removal nothing of the tenant is left.
RemovedLeavesNothing ==
  \A t \in Tenants :
    told[t] = "deprovisioned" =>
      /\ containers[t] = "none" /\ dir[t] = NoMode
      /\ t \notin databases /\ t \notin state.listed

\* A database is dropped only when the tenant has no containers that use it.
DroppedAfterContainers ==
  [][\A t \in databases \ databases' : containers[t] = "none"]_vars

\* A restart of PgBouncer for one tenant disconnects no other that is listed.
NeighboursStayConnected ==
  [][\A t \in (state.listed \cap pool) \ pool' : job # Idle /\ job.tenant = t]_vars

-----------------------------------------------------------------------------
(* Proofs, for any set of tenants and of modes: the stack is never mixed, a *)
(* command for one tenant leaves the containers and the connections of the *)
(* others alone, and a database goes after the containers.                 *)

Provisioning == job # Idle /\ job.op = "provision"
Deprovisioning == job # Idle /\ job.op = "deprovision"

\* What is recorded and what is in the tenants' directories fit together, and
\* the command under way fits the record.
ModeInv ==
  /\ state.initialized => state.mode \in Modes
  /\ ~state.initialized => state.listed = {}
  /\ \A t \in state.listed : dir[t] \in {NoMode, state.mode}
  /\ Provisioning =>
       /\ job.mode \in Modes
       /\ state.initialized => job.mode = state.mode
       /\ job.step # "dir" => dir[job.tenant] = job.mode
  /\ Deprovisioning =>
       /\ job.mode = state.mode
       /\ job.step \in {"ini", "compose", "up"} => state.initialized

\* Once written, the generated files list the tenants they are for.
BundleInv ==
  job # Idle =>
    /\ job.step \notin {"dir", "ini"} /\ (Provisioning \/ state.initialized) => ini = Collected
    /\ job.step = "up" =>
         /\ compose.mode = job.mode
         /\ \A t \in Tenants :
              compose.blocks[t] = IF t \in Collected THEN dir[t] ELSE NoMode

\* A command has no report yet, and from some step on its containers run or are gone.
JobInv ==
  job # Idle =>
    /\ told[job.tenant] = "unknown"
    /\ Provisioning /\ job.step \in {"database", "restart", "save"}
         => containers[job.tenant] = "running"
    /\ Deprovisioning => containers[job.tenant] = "none"

\* Without a compose.yml nothing has ever run.
FileInv == compose.mode = NoMode => \A t \in Tenants : containers[t] = "none"

\* PgBouncer is there before anything is in it or it is restarted.
PoolInv ==
  /\ ~infra => pool = {} /\ databases = {}
  /\ job # Idle =>
       /\ job.step = "restart" => infra
       /\ Provisioning /\ job.step \in {"database", "save"} => infra

\* Until PostgreSQL has started the stack knows one tenant at most, so that its
\* first start makes no database of a tenant that has been removed.
FirstStartInv ==
  /\ state.initialized => infra
  /\ ~infra => \A t, u \in Tenants : Defined(t) /\ Defined(u) => t = u
  /\ ~infra => \A t \in ini, u \in Tenants :
       told[t] = "deprovisioned" \/ (Deprovisioning /\ job.tenant = t)
         => (Defined(u) => u = t)

\* What a removal has achieved on its way.
RemovalInv ==
  Deprovisioning =>
    /\ job.step # "dir" => dir[job.tenant] = NoMode
    /\ job.step \in {"restart", "save"} => job.tenant \notin databases

IInv ==
  /\ TypeOK /\ ModeInv /\ BundleInv /\ JobInv /\ FileInv /\ PoolInv
  /\ FirstStartInv /\ RemovalInv
  /\ NoMixedStack /\ ListedKeepRunning /\ RemovedLeavesNothing
-----------------------------------------------------------------------------
LEMMA TypeInit == Init => TypeOK
<1> SUFFICES ASSUME Init PROVE TypeOK
  OBVIOUS
<1> USE DEF Init, OptionalModes
<1>1. state \in [initialized : BOOLEAN, mode : OptionalModes, listed : SUBSET Tenants]
  OBVIOUS
<1>2. compose \in [mode : OptionalModes, blocks : [Tenants -> OptionalModes]]
  OBVIOUS
<1>3. dir \in [Tenants -> OptionalModes] /\ told \in [Tenants -> Reports]
  BY DEF Reports
<1>4. QED
  BY <1>1, <1>2, <1>3 DEF TypeOK

LEMMA TypeStep == TypeOK /\ [Next]_vars => TypeOK'
<1> SUFFICES ASSUME TypeOK, [Next]_vars PROVE TypeOK'
  OBVIOUS
<1> USE DEF TypeOK, OptionalModes, Jobs, Idle, Steps, Reports, files, docker
<1>1. ASSUME NEW t \in Tenants, NEW m \in Modes, BeginProvision(t, m) PROVE TypeOK'
  BY <1>1 DEF BeginProvision
<1>2. ASSUME NEW t \in Tenants, ComposeRm(t) PROVE TypeOK'
  BY <1>2 DEF ComposeRm, Fail, Report, Defined
<1>3. ASSUME NEW t \in Tenants, StartTenant(t) PROVE TypeOK'
  <2>1. containers' \in [Tenants -> {"none", "running", "stopped"}]
    BY <1>3 DEF StartTenant
  <2>2. infra' \in BOOLEAN /\ pool' \in SUBSET Tenants /\ databases' \in SUBSET Tenants
    BY <1>3 DEF StartTenant, StartInfra
  <2>3. job' = Idle /\ told' \in [Tenants -> Reports]
    BY <1>3 DEF StartTenant, Fail, Report
  <2>4. QED
    BY <1>3, <2>1, <2>2, <2>3 DEF StartTenant
<1>4. ASSUME NEW t \in Tenants, StopTenant(t) PROVE TypeOK'
  BY <1>4 DEF StopTenant, Fail, Report, Defined
<1>5. ASSUME NEW t \in Tenants, Reject(t) PROVE TypeOK'
  BY <1>5 DEF Reject, Report
<1>6. ASSUME TenantDir PROVE TypeOK'
  BY <1>6 DEF TenantDir, At, Goto
<1>7. ASSUME WriteIni PROVE TypeOK'
  BY <1>7 DEF WriteIni, At, Goto, Collected
<1>8. ASSUME WriteCompose PROVE TypeOK'
  BY <1>8 DEF WriteCompose, At, Goto, Collected
<1>9. ASSUME ComposeUp PROVE TypeOK'
  <2>1. job \in Jobs
    BY <1>9 DEF ComposeUp, At
  <2>2. containers' \in [Tenants -> {"none", "running", "stopped"}]
    <3>1. \A t \in Tenants : Wanted(t) \in {"none", "running", "stopped"}
      BY DEF Wanted
    <3>2. QED
      BY <1>9, <3>1 DEF ComposeUp
  <2>3. infra' \in BOOLEAN /\ pool' \in SUBSET Tenants /\ databases' \in SUBSET Tenants
    BY <1>9 DEF ComposeUp, StartInfra
  <2>4. job' \in Jobs \cup {Idle} /\ told' \in [Tenants -> Reports]
    BY <1>9, <2>1 DEF ComposeUp, Goto, Fail, Report
  <2>5. QED
    BY <1>9, <2>2, <2>3, <2>4 DEF ComposeUp
<1>10. ASSUME EnsureDatabase PROVE TypeOK'
  BY <1>10 DEF EnsureDatabase, Working, Goto, Fail, Report
<1>11. ASSUME DropDatabase PROVE TypeOK'
  BY <1>11 DEF DropDatabase, Working, Goto, Fail, Report
<1>12. ASSUME RestartPgbouncer PROVE TypeOK'
  BY <1>12 DEF RestartPgbouncer, At, Goto
<1>13. ASSUME SaveState PROVE TypeOK'
  BY <1>13 DEF SaveState, At, Report, Collected
<1>14. ASSUME Abort PROVE TypeOK'
  BY <1>14 DEF Abort
<1>15. CASE UNCHANGED vars
  BY <1>15 DEF vars
<1>16. QED
  BY <1>1, <1>2, <1>3, <1>4, <1>5, <1>6, <1>7, <1>8, <1>9, <1>10, <1>11, <1>12, <1>13, <1>14,
     <1>15 DEF Next, JobStep

-----------------------------------------------------------------------------
(* The mode: what is recorded, what is in the directories and what the      *)
(* command generates.                                                      *)
LEMMA ModeStep == IInv /\ [Next]_vars => ModeInv'
<1> SUFFICES ASSUME IInv, [Next]_vars PROVE ModeInv'
  OBVIOUS
<1> USE StackAssumption DEF IInv, ModeInv, Provisioning, Deprovisioning, TypeOK, Jobs, Idle,
                            files, docker
<1>1. ASSUME NEW t \in Tenants, NEW m \in Modes, BeginProvision(t, m) PROVE ModeInv'
  BY <1>1 DEF BeginProvision
<1>2. ASSUME NEW t \in Tenants, ComposeRm(t) PROVE ModeInv'
  BY <1>2 DEF ComposeRm, Fail, Report
<1>3. ASSUME NEW t \in Tenants, StartTenant(t) PROVE ModeInv'
  BY <1>3 DEF StartTenant, Fail, Report
<1>4. ASSUME NEW t \in Tenants, StopTenant(t) PROVE ModeInv'
  BY <1>4 DEF StopTenant, Fail, Report
<1>5. ASSUME NEW t \in Tenants, Reject(t) PROVE ModeInv'
  BY <1>5 DEF Reject, Report
<1>6. ASSUME TenantDir PROVE ModeInv'
  BY <1>6 DEF TenantDir, At, Goto
<1>7. ASSUME WriteIni PROVE ModeInv'
  BY <1>7 DEF WriteIni, At, Goto
<1>8. ASSUME WriteCompose PROVE ModeInv'
  BY <1>8 DEF WriteCompose, At, Goto
<1>9. ASSUME ComposeUp PROVE ModeInv'
  BY <1>9 DEF ComposeUp, At, Goto, Fail, Report
<1>10. ASSUME EnsureDatabase PROVE ModeInv'
  BY <1>10 DEF EnsureDatabase, Working, Goto, Fail, Report
<1>11. ASSUME DropDatabase PROVE ModeInv'
  BY <1>11 DEF DropDatabase, Working, Goto, Fail, Report
<1>12. ASSUME RestartPgbouncer PROVE ModeInv'
  BY <1>12 DEF RestartPgbouncer, At, Goto
<1>13. ASSUME SaveState PROVE ModeInv'
  BY <1>13 DEF SaveState, At, Report, Collected
<1>14. ASSUME Abort PROVE ModeInv'
  BY <1>14 DEF Abort
<1>15. CASE UNCHANGED vars
  BY <1>15 DEF vars
<1>16. QED
  BY <1>1, <1>2, <1>3, <1>4, <1>5, <1>6, <1>7, <1>8, <1>9, <1>10, <1>11, <1>12, <1>13, <1>14,
     <1>15 DEF Next, JobStep

LEMMA MixedStep == IInv /\ [Next]_vars => NoMixedStack'
<1> SUFFICES ASSUME IInv, [Next]_vars PROVE NoMixedStack'
  OBVIOUS
<1> USE StackAssumption DEF IInv, NoMixedStack, ModeInv, Provisioning, Deprovisioning, TypeOK,
                            Jobs, Idle, files, docker
<1>1. ASSUME NEW t \in Tenants, NEW m \in Modes, BeginProvision(t, m) PROVE NoMixedStack'
  BY <1>1 DEF BeginProvision
<1>2. ASSUME NEW t \in Tenants, ComposeRm(t) PROVE NoMixedStack'
  BY <1>2 DEF ComposeRm, Fail, Report
<1>3. ASSUME NEW t \in Tenants, StartTenant(t) PROVE NoMixedStack'
  BY <1>3 DEF StartTenant, Fail, Report
<1>4. ASSUME NEW t \in Tenants, StopTenant(t) PROVE NoMixedStack'
  BY <1>4 DEF StopTenant, Fail, Report
<1>5. ASSUME NEW t \in Tenants, Reject(t) PROVE NoMixedStack'
  BY <1>5 DEF Reject, Report
<1>6. ASSUME TenantDir PROVE NoMixedStack'
  BY <1>6 DEF TenantDir, At, Goto
<1>7. ASSUME WriteIni PROVE NoMixedStack'
  BY <1>7 DEF WriteIni, At, Goto
<1>8. ASSUME WriteCompose PROVE NoMixedStack'
  BY <1>8 DEF WriteCompose, At, Goto, Collected
<1>9. ASSUME ComposeUp PROVE NoMixedStack'
  BY <1>9 DEF ComposeUp, At, Goto, Fail, Report
<1>10. ASSUME EnsureDatabase PROVE NoMixedStack'
  BY <1>10 DEF EnsureDatabase, Working, Goto, Fail, Report
<1>11. ASSUME DropDatabase PROVE NoMixedStack'
  BY <1>11 DEF DropDatabase, Working, Goto, Fail, Report
<1>12. ASSUME RestartPgbouncer PROVE NoMixedStack'
  BY <1>12 DEF RestartPgbouncer, At, Goto
<1>13. ASSUME SaveState PROVE NoMixedStack'
  BY <1>13 DEF SaveState, At, Report
<1>14. ASSUME Abort PROVE NoMixedStack'
  BY <1>14 DEF Abort
<1>15. CASE UNCHANGED vars
  BY <1>15 DEF vars
<1>16. QED
  BY <1>1, <1>2, <1>3, <1>4, <1>5, <1>6, <1>7, <1>8, <1>9, <1>10, <1>11, <1>12, <1>13, <1>14,
     <1>15 DEF Next, JobStep

-----------------------------------------------------------------------------
(* The bundle and what Docker makes of it.                                 *)
LEMMA BundleStep == IInv /\ [Next]_vars => BundleInv'
<1> SUFFICES ASSUME IInv, [Next]_vars PROVE BundleInv'
  OBVIOUS
<1> USE StackAssumption DEF IInv, ModeInv, BundleInv, Collected, Provisioning, Deprovisioning,
                            TypeOK, Jobs, Idle, files, docker
<1>1. ASSUME NEW t \in Tenants, NEW m \in Modes, BeginProvision(t, m) PROVE BundleInv'
  BY <1>1 DEF BeginProvision
<1>2. ASSUME NEW t \in Tenants, ComposeRm(t) PROVE BundleInv'
  BY <1>2 DEF ComposeRm, Fail, Report
<1>3. ASSUME NEW t \in Tenants, StartTenant(t) PROVE BundleInv'
  BY <1>3 DEF StartTenant, Fail, Report
<1>4. ASSUME NEW t \in Tenants, StopTenant(t) PROVE BundleInv'
  BY <1>4 DEF StopTenant, Fail, Report
<1>5. ASSUME NEW t \in Tenants, Reject(t) PROVE BundleInv'
  BY <1>5 DEF Reject, Report
<1>6. ASSUME TenantDir PROVE BundleInv'
  BY <1>6 DEF TenantDir, At, Goto
<1>7. ASSUME WriteIni PROVE BundleInv'
  BY <1>7 DEF WriteIni, At, Goto
<1>8. ASSUME WriteCompose PROVE BundleInv'
  BY <1>8 DEF WriteCompose, At, Goto
<1>9. ASSUME ComposeUp PROVE BundleInv'
  BY <1>9 DEF ComposeUp, At, Goto, Fail, Report
<1>10. ASSUME EnsureDatabase PROVE BundleInv'
  BY <1>10 DEF EnsureDatabase, Working, Goto, Fail, Report
<1>11. ASSUME DropDatabase PROVE BundleInv'
  BY <1>11 DEF DropDatabase, Working, Goto, Fail, Report
<1>12. ASSUME RestartPgbouncer PROVE BundleInv'
  BY <1>12 DEF RestartPgbouncer, At, Goto
<1>13. ASSUME SaveState PROVE BundleInv'
  BY <1>13 DEF SaveState, At, Report
<1>14. ASSUME Abort PROVE BundleInv'
  BY <1>14 DEF Abort
<1>15. CASE UNCHANGED vars
  BY <1>15 DEF vars
<1>16. QED
  BY <1>1, <1>2, <1>3, <1>4, <1>5, <1>6, <1>7, <1>8, <1>9, <1>10, <1>11, <1>12, <1>13, <1>14,
     <1>15 DEF Next, JobStep

LEMMA PoolStep == IInv /\ [Next]_vars => PoolInv'
<1> SUFFICES ASSUME IInv, [Next]_vars PROVE PoolInv'
  OBVIOUS
<1> USE StackAssumption DEF IInv, PoolInv, Provisioning, Deprovisioning, TypeOK, Jobs, Idle,
                            files, docker
<1>1. ASSUME NEW t \in Tenants, NEW m \in Modes, BeginProvision(t, m) PROVE PoolInv'
  BY <1>1 DEF BeginProvision
<1>2. ASSUME NEW t \in Tenants, ComposeRm(t) PROVE PoolInv'
  BY <1>2 DEF ComposeRm, Fail, Report
<1>3. ASSUME NEW t \in Tenants, StartTenant(t) PROVE PoolInv'
  BY <1>3 DEF StartTenant, Fail, Report, StartInfra
<1>4. ASSUME NEW t \in Tenants, StopTenant(t) PROVE PoolInv'
  BY <1>4 DEF StopTenant, Fail, Report
<1>5. ASSUME NEW t \in Tenants, Reject(t) PROVE PoolInv'
  BY <1>5 DEF Reject, Report
<1>6. ASSUME TenantDir PROVE PoolInv'
  BY <1>6 DEF TenantDir, At, Goto
<1>7. ASSUME WriteIni PROVE PoolInv'
  BY <1>7 DEF WriteIni, At, Goto
<1>8. ASSUME WriteCompose PROVE PoolInv'
  BY <1>8 DEF WriteCompose, At, Goto
<1>9. ASSUME ComposeUp PROVE PoolInv'
  BY <1>9 DEF ComposeUp, At, Goto, Fail, Report, StartInfra
<1>10. ASSUME EnsureDatabase PROVE PoolInv'
  BY <1>10 DEF EnsureDatabase, Working, Goto, Fail, Report
<1>11. ASSUME DropDatabase PROVE PoolInv'
  BY <1>11 DEF DropDatabase, Working, Goto, Fail, Report
<1>12. ASSUME RestartPgbouncer PROVE PoolInv'
  BY <1>12 DEF RestartPgbouncer, At, Goto
<1>13. ASSUME SaveState PROVE PoolInv'
  BY <1>13 DEF SaveState, At, Report
<1>14. ASSUME Abort PROVE PoolInv'
  BY <1>14 DEF Abort
<1>15. CASE UNCHANGED vars
  BY <1>15 DEF vars
<1>16. QED
  BY <1>1, <1>2, <1>3, <1>4, <1>5, <1>6, <1>7, <1>8, <1>9, <1>10, <1>11, <1>12, <1>13, <1>14,
     <1>15 DEF Next, JobStep

LEMMA FileStep == IInv /\ [Next]_vars => FileInv'
<1> SUFFICES ASSUME IInv, [Next]_vars PROVE FileInv'
  OBVIOUS
<1> USE StackAssumption DEF IInv, ModeInv, BundleInv, FileInv, Defined, Provisioning,
                            Deprovisioning, TypeOK, Jobs, Idle, files, docker
<1>1. ASSUME NEW t \in Tenants, NEW m \in Modes, BeginProvision(t, m) PROVE FileInv'
  BY <1>1 DEF BeginProvision
<1>2. ASSUME NEW t \in Tenants, ComposeRm(t) PROVE FileInv'
  BY <1>2 DEF ComposeRm, Fail, Report
<1>3. ASSUME NEW t \in Tenants, StartTenant(t) PROVE FileInv'
  BY <1>3 DEF StartTenant, Fail, Report
<1>4. ASSUME NEW t \in Tenants, StopTenant(t) PROVE FileInv'
  BY <1>4 DEF StopTenant, Fail, Report
<1>5. ASSUME NEW t \in Tenants, Reject(t) PROVE FileInv'
  BY <1>5 DEF Reject, Report
<1>6. ASSUME TenantDir PROVE FileInv'
  BY <1>6 DEF TenantDir, At, Goto
<1>7. ASSUME WriteIni PROVE FileInv'
  BY <1>7 DEF WriteIni, At, Goto
<1>8. ASSUME WriteCompose PROVE FileInv'
  BY <1>8 DEF WriteCompose, At, Goto
<1>9. ASSUME ComposeUp PROVE FileInv'
  BY <1>9 DEF ComposeUp, At, Goto, Fail, Report
<1>10. ASSUME EnsureDatabase PROVE FileInv'
  BY <1>10 DEF EnsureDatabase, Working, Goto, Fail, Report
<1>11. ASSUME DropDatabase PROVE FileInv'
  BY <1>11 DEF DropDatabase, Working, Goto, Fail, Report
<1>12. ASSUME RestartPgbouncer PROVE FileInv'
  BY <1>12 DEF RestartPgbouncer, At, Goto
<1>13. ASSUME SaveState PROVE FileInv'
  BY <1>13 DEF SaveState, At, Report
<1>14. ASSUME Abort PROVE FileInv'
  BY <1>14 DEF Abort
<1>15. CASE UNCHANGED vars
  BY <1>15 DEF vars
<1>16. QED
  BY <1>1, <1>2, <1>3, <1>4, <1>5, <1>6, <1>7, <1>8, <1>9, <1>10, <1>11, <1>12, <1>13, <1>14,
     <1>15 DEF Next, JobStep

LEMMA JobInvStep == IInv /\ [Next]_vars => JobInv'
<1> SUFFICES ASSUME IInv, [Next]_vars PROVE JobInv'
  OBVIOUS
<1> USE StackAssumption DEF IInv, ModeInv, BundleInv, JobInv, FileInv, Defined, Wanted, Collected,
                            Provisioning, Deprovisioning, TypeOK, Jobs, Idle, files, docker
<1>1. ASSUME NEW t \in Tenants, NEW m \in Modes, BeginProvision(t, m) PROVE JobInv'
  BY <1>1 DEF BeginProvision
<1>2. ASSUME NEW t \in Tenants, ComposeRm(t) PROVE JobInv'
  BY <1>2 DEF ComposeRm, Fail, Report
<1>3. ASSUME NEW t \in Tenants, StartTenant(t) PROVE JobInv'
  BY <1>3 DEF StartTenant, Fail, Report
<1>4. ASSUME NEW t \in Tenants, StopTenant(t) PROVE JobInv'
  BY <1>4 DEF StopTenant, Fail, Report
<1>5. ASSUME NEW t \in Tenants, Reject(t) PROVE JobInv'
  BY <1>5 DEF Reject, Report
<1>6. ASSUME TenantDir PROVE JobInv'
  BY <1>6 DEF TenantDir, At, Goto
<1>7. ASSUME WriteIni PROVE JobInv'
  BY <1>7 DEF WriteIni, At, Goto
<1>8. ASSUME WriteCompose PROVE JobInv'
  BY <1>8 DEF WriteCompose, At, Goto
<1>9. ASSUME ComposeUp PROVE JobInv'
  BY <1>9 DEF ComposeUp, At, Goto, Fail, Report
<1>10. ASSUME EnsureDatabase PROVE JobInv'
  BY <1>10 DEF EnsureDatabase, Working, Goto, Fail, Report
<1>11. ASSUME DropDatabase PROVE JobInv'
  BY <1>11 DEF DropDatabase, Working, Goto, Fail, Report
<1>12. ASSUME RestartPgbouncer PROVE JobInv'
  BY <1>12 DEF RestartPgbouncer, At, Goto
<1>13. ASSUME SaveState PROVE JobInv'
  BY <1>13 DEF SaveState, At, Report
<1>14. ASSUME Abort PROVE JobInv'
  BY <1>14 DEF Abort
<1>15. CASE UNCHANGED vars
  BY <1>15 DEF vars
<1>16. QED
  BY <1>1, <1>2, <1>3, <1>4, <1>5, <1>6, <1>7, <1>8, <1>9, <1>10, <1>11, <1>12, <1>13, <1>14,
     <1>15 DEF Next, JobStep

LEMMA ListedStep == IInv /\ [Next]_vars => ListedKeepRunning'
<1> SUFFICES ASSUME IInv, [Next]_vars PROVE ListedKeepRunning'
  OBVIOUS
<1> USE StackAssumption DEF IInv, ModeInv, BundleInv, JobInv, ListedKeepRunning, Defined, Wanted,
                            Collected, Provisioning, Deprovisioning, TypeOK, Jobs, Idle, files,
                            docker
<1>1. ASSUME NEW t \in Tenants, NEW m \in Modes, BeginProvision(t, m) PROVE ListedKeepRunning'
  BY <1>1 DEF BeginProvision
<1>2. ASSUME NEW t \in Tenants, ComposeRm(t) PROVE ListedKeepRunning'
  BY <1>2 DEF ComposeRm, Fail, Report
<1>3. ASSUME NEW t \in Tenants, StartTenant(t) PROVE ListedKeepRunning'
  BY <1>3 DEF StartTenant, Fail, Report
<1>4. ASSUME NEW t \in Tenants, StopTenant(t) PROVE ListedKeepRunning'
  BY <1>4 DEF StopTenant, Fail, Report
<1>5. ASSUME NEW t \in Tenants, Reject(t) PROVE ListedKeepRunning'
  BY <1>5 DEF Reject, Report
<1>6. ASSUME TenantDir PROVE ListedKeepRunning'
  BY <1>6 DEF TenantDir, At, Goto
<1>7. ASSUME WriteIni PROVE ListedKeepRunning'
  BY <1>7 DEF WriteIni, At, Goto
<1>8. ASSUME WriteCompose PROVE ListedKeepRunning'
  BY <1>8 DEF WriteCompose, At, Goto
<1>9. ASSUME ComposeUp PROVE ListedKeepRunning'
  BY <1>9 DEF ComposeUp, At, Goto, Fail, Report
<1>10. ASSUME EnsureDatabase PROVE ListedKeepRunning'
  BY <1>10 DEF EnsureDatabase, Working, Goto, Fail, Report
<1>11. ASSUME DropDatabase PROVE ListedKeepRunning'
  BY <1>11 DEF DropDatabase, Working, Goto, Fail, Report
<1>12. ASSUME RestartPgbouncer PROVE ListedKeepRunning'
  BY <1>12 DEF RestartPgbouncer, At, Goto
<1>13. ASSUME SaveState PROVE ListedKeepRunning'
  BY <1>13 DEF SaveState, At, Report
<1>14. ASSUME Abort PROVE ListedKeepRunning'
  BY <1>14 DEF Abort
<1>15. CASE UNCHANGED vars
  BY <1>15 DEF vars
<1>16. QED
  BY <1>1, <1>2, <1>3, <1>4, <1>5, <1>6, <1>7, <1>8, <1>9, <1>10, <1>11, <1>12, <1>13, <1>14,
     <1>15 DEF Next, JobStep

-----------------------------------------------------------------------------
(* Removal.                                                                *)
LEMMA FirstStartStep == IInv /\ [Next]_vars => FirstStartInv'
<1> SUFFICES ASSUME IInv, [Next]_vars PROVE FirstStartInv'
  OBVIOUS
<1> USE StackAssumption DEF IInv, FirstStartInv, ModeInv, PoolInv, BundleInv, JobInv, Collected,
                            Defined, Provisioning, Deprovisioning, TypeOK, Jobs, Idle, files,
                            docker
<1>1. ASSUME NEW t \in Tenants, NEW m \in Modes, BeginProvision(t, m) PROVE FirstStartInv'
  BY <1>1 DEF BeginProvision
<1>2. ASSUME NEW t \in Tenants, ComposeRm(t) PROVE FirstStartInv'
  BY <1>2 DEF ComposeRm, Fail, Report
<1>3. ASSUME NEW t \in Tenants, StartTenant(t) PROVE FirstStartInv'
  BY <1>3 DEF StartTenant, Fail, Report, StartInfra
<1>4. ASSUME NEW t \in Tenants, StopTenant(t) PROVE FirstStartInv'
  BY <1>4 DEF StopTenant, Fail, Report
<1>5. ASSUME NEW t \in Tenants, Reject(t) PROVE FirstStartInv'
  BY <1>5 DEF Reject, Report
<1>6. ASSUME TenantDir PROVE FirstStartInv'
  BY <1>6 DEF TenantDir, At, Goto
<1>7. ASSUME WriteIni PROVE FirstStartInv'
  BY <1>7 DEF WriteIni, At, Goto
<1>8. ASSUME WriteCompose PROVE FirstStartInv'
  BY <1>8 DEF WriteCompose, At, Goto
<1>9. ASSUME ComposeUp PROVE FirstStartInv'
  BY <1>9 DEF ComposeUp, At, Goto, Fail, Report, StartInfra
<1>10. ASSUME EnsureDatabase PROVE FirstStartInv'
  BY <1>10 DEF EnsureDatabase, Working, Goto, Fail, Report
<1>11. ASSUME DropDatabase PROVE FirstStartInv'
  BY <1>11 DEF DropDatabase, Working, Goto, Fail, Report
<1>12. ASSUME RestartPgbouncer PROVE FirstStartInv'
  BY <1>12 DEF RestartPgbouncer, At, Goto
<1>13. ASSUME SaveState PROVE FirstStartInv'
  BY <1>13 DEF SaveState, At, Report
<1>14. ASSUME Abort PROVE FirstStartInv'
  BY <1>14 DEF Abort
<1>15. CASE UNCHANGED vars
  BY <1>15 DEF vars
<1>16. QED
  BY <1>1, <1>2, <1>3, <1>4, <1>5, <1>6, <1>7, <1>8, <1>9, <1>10, <1>11, <1>12, <1>13, <1>14,
     <1>15 DEF Next, JobStep

LEMMA RemovalStep == IInv /\ [Next]_vars => RemovalInv'
<1> SUFFICES ASSUME IInv, [Next]_vars PROVE RemovalInv'
  OBVIOUS
<1> USE StackAssumption DEF IInv, RemovalInv, Provisioning, Deprovisioning, TypeOK, Jobs, Idle,
                            files, docker
<1>1. ASSUME NEW t \in Tenants, NEW m \in Modes, BeginProvision(t, m) PROVE RemovalInv'
  BY <1>1 DEF BeginProvision
<1>2. ASSUME NEW t \in Tenants, ComposeRm(t) PROVE RemovalInv'
  BY <1>2 DEF ComposeRm, Fail, Report
<1>3. ASSUME NEW t \in Tenants, StartTenant(t) PROVE RemovalInv'
  BY <1>3 DEF StartTenant, Fail, Report
<1>4. ASSUME NEW t \in Tenants, StopTenant(t) PROVE RemovalInv'
  BY <1>4 DEF StopTenant, Fail, Report
<1>5. ASSUME NEW t \in Tenants, Reject(t) PROVE RemovalInv'
  BY <1>5 DEF Reject, Report
<1>6. ASSUME TenantDir PROVE RemovalInv'
  BY <1>6 DEF TenantDir, At, Goto
<1>7. ASSUME WriteIni PROVE RemovalInv'
  BY <1>7 DEF WriteIni, At, Goto
<1>8. ASSUME WriteCompose PROVE RemovalInv'
  BY <1>8 DEF WriteCompose, At, Goto
<1>9. ASSUME ComposeUp PROVE RemovalInv'
  BY <1>9 DEF ComposeUp, At, Goto, Fail, Report
<1>10. ASSUME EnsureDatabase PROVE RemovalInv'
  BY <1>10 DEF EnsureDatabase, Working, Goto, Fail, Report
<1>11. ASSUME DropDatabase PROVE RemovalInv'
  BY <1>11 DEF DropDatabase, Working, Goto, Fail, Report
<1>12. ASSUME RestartPgbouncer PROVE RemovalInv'
  BY <1>12 DEF RestartPgbouncer, At, Goto
<1>13. ASSUME SaveState PROVE RemovalInv'
  BY <1>13 DEF SaveState, At, Report
<1>14. ASSUME Abort PROVE RemovalInv'
  BY <1>14 DEF Abort
<1>15. CASE UNCHANGED vars
  BY <1>15 DEF vars
<1>16. QED
  BY <1>1, <1>2, <1>3, <1>4, <1>5, <1>6, <1>7, <1>8, <1>9, <1>10, <1>11, <1>12, <1>13, <1>14,
     <1>15 DEF Next, JobStep

LEMMA RemovedStep == IInv /\ [Next]_vars => RemovedLeavesNothing'
<1> SUFFICES ASSUME IInv, [Next]_vars PROVE RemovedLeavesNothing'
  OBVIOUS
<1> USE StackAssumption DEF IInv, RemovedLeavesNothing, RemovalInv, FirstStartInv, ModeInv,
                            BundleInv, JobInv, Collected, Defined, Wanted, Provisioning,
                            Deprovisioning, TypeOK, Jobs, Idle, files, docker
<1>1. ASSUME NEW t \in Tenants, NEW m \in Modes, BeginProvision(t, m) PROVE RemovedLeavesNothing'
  BY <1>1 DEF BeginProvision
<1>2. ASSUME NEW t \in Tenants, ComposeRm(t) PROVE RemovedLeavesNothing'
  BY <1>2 DEF ComposeRm, Fail, Report
<1>3. ASSUME NEW t \in Tenants, StartTenant(t) PROVE RemovedLeavesNothing'
  BY <1>3 DEF StartTenant, Fail, Report, StartInfra
<1>4. ASSUME NEW t \in Tenants, StopTenant(t) PROVE RemovedLeavesNothing'
  BY <1>4 DEF StopTenant, Fail, Report
<1>5. ASSUME NEW t \in Tenants, Reject(t) PROVE RemovedLeavesNothing'
  BY <1>5 DEF Reject, Report
<1>6. ASSUME TenantDir PROVE RemovedLeavesNothing'
  BY <1>6 DEF TenantDir, At, Goto
<1>7. ASSUME WriteIni PROVE RemovedLeavesNothing'
  BY <1>7 DEF WriteIni, At, Goto
<1>8. ASSUME WriteCompose PROVE RemovedLeavesNothing'
  BY <1>8 DEF WriteCompose, At, Goto
<1>9. ASSUME ComposeUp PROVE RemovedLeavesNothing'
  BY <1>9 DEF ComposeUp, At, Goto, Fail, Report, StartInfra
<1>10. ASSUME EnsureDatabase PROVE RemovedLeavesNothing'
  BY <1>10 DEF EnsureDatabase, Working, Goto, Fail, Report
<1>11. ASSUME DropDatabase PROVE RemovedLeavesNothing'
  BY <1>11 DEF DropDatabase, Working, Goto, Fail, Report
<1>12. ASSUME RestartPgbouncer PROVE RemovedLeavesNothing'
  BY <1>12 DEF RestartPgbouncer, At, Goto
<1>13. ASSUME SaveState PROVE RemovedLeavesNothing'
  BY <1>13 DEF SaveState, At, Report
<1>14. ASSUME Abort PROVE RemovedLeavesNothing'
  BY <1>14 DEF Abort
<1>15. CASE UNCHANGED vars
  BY <1>15 DEF vars
<1>16. QED
  BY <1>1, <1>2, <1>3, <1>4, <1>5, <1>6, <1>7, <1>8, <1>9, <1>10, <1>11, <1>12, <1>13, <1>14,
     <1>15 DEF Next, JobStep

-----------------------------------------------------------------------------
LEMMA InvInit == Init => IInv
<1> SUFFICES ASSUME Init PROVE IInv
  OBVIOUS
<1>1. TypeOK
  BY TypeInit
<1>2. ModeInv /\ BundleInv /\ JobInv /\ FileInv /\ PoolInv /\ RemovalInv
  BY DEF Init, ModeInv, BundleInv, JobInv, FileInv, PoolInv, RemovalInv, Provisioning,
         Deprovisioning
<1>3. FirstStartInv
  BY DEF Init, FirstStartInv, Defined, Deprovisioning
<1>4. NoMixedStack /\ ListedKeepRunning /\ RemovedLeavesNothing
  BY DEF Init, NoMixedStack, ListedKeepRunning, RemovedLeavesNothing
<1>5. QED
  BY <1>1, <1>2, <1>3, <1>4 DEF IInv

LEMMA InvStep == IInv /\ [Next]_vars => IInv'
  BY TypeStep, ModeStep, BundleStep, JobInvStep, FileStep, PoolStep, FirstStartStep,
     RemovalStep, MixedStep, ListedStep, RemovedStep DEF IInv

LEMMA Invariance == Spec => []IInv
  BY InvInit, InvStep, PTL DEF Spec

\* Every variable keeps its type.
THEOREM TypeCorrect == Spec => []TypeOK
<1>1. IInv => TypeOK
  BY DEF IInv
<1>2. QED
  BY Invariance, <1>1, PTL

\* No compose file ever holds production and dev tenants together, whatever
\* failed before (_provision_impl's check of the saved mode).
THEOREM NeverMixed == Spec => []NoMixedStack
<1>1. IInv => NoMixedStack
  BY DEF IInv
<1>2. QED
  BY Invariance, <1>1, PTL

\* A tenant on record that was reported as running runs, whatever is done for
\* the others (_collect_tenant_compose_blocks, _compose_up).
THEOREM ListedRun == Spec => []ListedKeepRunning
<1>1. IInv => ListedKeepRunning
  BY DEF IInv
<1>2. QED
  BY Invariance, <1>1, PTL

\* A removal that was reported as done has left nothing (deprovision).
THEOREM RemovalIsComplete == Spec => []RemovedLeavesNothing
<1>1. IInv => RemovedLeavesNothing
  BY DEF IInv
<1>2. QED
  BY Invariance, <1>1, PTL

\* A database goes only after the containers that use it (deprovision, _drop_database).
THEOREM DropsAreSafe == Spec => DroppedAfterContainers
<1>1. IInv /\ [Next]_vars => [\A t \in databases \ databases' : containers[t] = "none"]_vars
  <2> SUFFICES ASSUME IInv, Next,
                      NEW t \in databases \ databases'
               PROVE  containers[t] = "none"
    OBVIOUS
  <2>1. CASE DropDatabase
    BY <2>1 DEF DropDatabase, Working, IInv, JobInv, Deprovisioning
  <2>2. CASE ~DropDatabase
    BY <2>2 DEF Next, JobStep, BeginProvision, ComposeRm, StartTenant, StopTenant, Reject,
                TenantDir, WriteIni, WriteCompose, ComposeUp, StartInfra, EnsureDatabase,
                RestartPgbouncer, SaveState, Abort, files, docker
  <2>3. QED
    BY <2>1, <2>2
<1>2. QED
  BY Invariance, <1>1, PTL DEF Spec, DroppedAfterContainers

\* PgBouncer is never restarted with a configuration that lacks a listed
\* neighbour of the tenant the command is for (RestartPgbouncer in both commands).
THEOREM NeighboursConnected == Spec => NeighboursStayConnected
<1>1. IInv /\ [Next]_vars =>
        [\A t \in (state.listed \cap pool) \ pool' : job # Idle /\ job.tenant = t]_vars
  <2> SUFFICES ASSUME IInv, Next,
                      NEW t \in (state.listed \cap pool) \ pool'
               PROVE  job # Idle /\ job.tenant = t
    OBVIOUS
  <2>1. CASE RestartPgbouncer
    BY <2>1 DEF RestartPgbouncer, At, IInv, TypeOK, Jobs, ModeInv, BundleInv, Collected,
                Provisioning, Deprovisioning
  <2>2. CASE ~RestartPgbouncer
    BY <2>2 DEF Next, JobStep, BeginProvision, ComposeRm, StartTenant, StopTenant, Reject,
                TenantDir, WriteIni, WriteCompose, ComposeUp, StartInfra, EnsureDatabase,
                DropDatabase, SaveState, Abort, files, docker, IInv, PoolInv
  <2>3. QED
    BY <2>1, <2>2
<1>2. QED
  BY Invariance, <1>1, PTL DEF Spec, NeighboursStayConnected
=============================================================================
