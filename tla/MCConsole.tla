------------------------------ MODULE MCConsole ------------------------------
(***************************************************************************)
(* The console for TLC.  A browser shows one page at a time, and pages     *)
(* share nothing but the session: a behaviour chooses one of the models at *)
(* its start and stays with it, so that the states are those of the models *)
(* one after the other.  The pages not chosen never move.                  *)
(***************************************************************************)
EXTENDS Integers, FiniteSets, TLC

CONSTANTS Opened,   \* the pages of the run
          MaxScans, MaxLoads, MaxFailures, Tenants, GatewayTenant, ReadyTenants, HostsOf,
          MaxPicks, MaxScanEnds, Tables, Filters, NoFilter, Pages, MaxUnderWay,
          MaxChanges, Machines, MaxWatches, MaxPolls, Tabs, Users, Admins, Editors,
          MaxTokens, MaxRequests, MaxBesides, Entries, GroupOf, MaxActs, MaxWires, Texts,
          Secrets, Blank, MaxSaves, Workers, ManagedTenants, Gateways, WorkerOf, TenantOf, Accts, Later

(* What the pages take for granted of their constants: only they are        *)
(* opened, the bounds are numbers, administrators and editors are users,   *)
(* "no filter" is one, a table has a page, the tenants a gateway can be    *)
(* given exist, a host has not the name of a subnet (validate_cidr admits  *)
(* /8 to /30, and `ip route` prints a host's route without its prefix),    *)
(* what is listed has a group, and identifiers are not taken for the words *)
(* the pages use for "nothing".                                            *)
ASSUME ConsoleAssumption ==
  /\ Opened \subseteq {"scan", "connect", "panel", "watch", "session", "board", "fleet",
                       "record", "users"}
  /\ {MaxScans, MaxFailures, MaxPicks, MaxScanEnds, MaxUnderWay, MaxChanges, MaxWatches,
      MaxRequests, MaxBesides, MaxActs, MaxWires, MaxSaves} \subseteq Nat
  /\ {MaxLoads, MaxPolls, MaxTokens, Pages} \subseteq Nat \ {0}
  /\ Admins \subseteq Users /\ Editors \subseteq Users \ Admins
  /\ NoFilter \in Filters
  /\ GatewayTenant \in Tenants /\ ReadyTenants \subseteq Tenants
  /\ \A cidr \in DOMAIN HostsOf : HostsOf[cidr] \cap DOMAIN HostsOf = {}
  /\ GroupOf \in [Entries -> Tenants] /\ "none" \notin Tenants
  /\ {"none", "load"} \cap Entries = {}
  /\ Blank \notin Texts \cup Secrets
  /\ WorkerOf \in [ManagedTenants -> Workers \cup {"none"}]
  /\ TenantOf \in [Gateways -> ManagedTenants]
  /\ Later \subseteq Accts /\ "none" \notin Accts

\* Two subnets that overlap, with one live host in both.
InBoth == "lan" :> {"h1"} @@ "dmz" :> {"h1"}

\* Two rows of two tenants; one worker with a tenant that has a gateway.
OneEach == "a" :> "t1" @@ "b" :> "t2"
OnlyWorker == "t" :> "w"
OnlyTenant == "g" :> "t"

VARIABLES
  focus,      \* the page that is open
  status, mode, loads, loading, failed, shown, active, activeMode, polling, loops,
  post, installing, left, owed, env,
  context, fetching, selected, selection, asked, refreshKey, subnets, picks, sent,
  tables, data, vulnEnabled, windows, pollActive, clicks, changes, ordered,
  kind, enrolled, tokens, listing, watch, known, polls, announced, before, expired,
  session, cookie, issued, user, route, step, cached, wire, replied, refused,
  runtime, edge, rows, shownEdge, refreshes, acting, busy, dialog, deleting, bulk,
  saving, unmarked, requests,
  screen, backend, wires,
  failures    \* requests of the open page that failed

scanVars == <<status, mode, loads, loading, failed, shown, active, activeMode, polling,
              loops, post, installing, left, owed, env>>
connectVars == <<context, fetching, selected, selection, asked, refreshKey, subnets,
                 picks, sent>>
panelVars == <<tables, data, vulnEnabled, windows, pollActive, clicks, changes, ordered>>
watchVars == <<kind, enrolled, tokens, listing, watch, known, polls, announced, before,
               expired>>
sessionVars == <<session, cookie, issued, user, route, step, cached, wire, replied,
                 refused>>
boardVars == <<runtime, edge, rows, shownEdge, refreshes, acting, busy, dialog, deleting,
               bulk, saving, unmarked, requests>>
pageVars == <<screen, backend, wires>>
modelVars == <<scanVars, connectVars, panelVars, watchVars, sessionVars, boardVars, failures>>
vars == <<focus, modelVars, pageVars>>

Scan == INSTANCE GatewayScanPage
Connect == INSTANCE TailscaleConnect
Panel == INSTANCE MonitoringPanel
Watch == INSTANCE EnrollmentWatch
Session == INSTANCE ConsoleSession
Board == INSTANCE TenantBoard
Fleet == INSTANCE FleetPages WITH Groups <- Tenants, Rows <- Entries
Record == INSTANCE RecordPages WITH Tokens <- Secrets, MaxActs <- MaxSaves
UserList == INSTANCE UsersPage

\* Only the open page has a choice of its initial state.
Init ==
  /\ focus \in Opened
  /\ Scan!Init /\ (focus # "scan" => env = "shared")
  /\ Connect!Init /\ (focus # "connect" => subnets = {})
  /\ Panel!Init /\ (focus # "panel" => vulnEnabled /\ ordered)
  /\ Watch!Init /\ (focus # "watch" => kind = "workers" /\ enrolled = {})
  /\ Session!Init /\ (focus # "session" => session = "nobody" /\ cookie = 0)
  /\ Board!Init
  /\ CASE focus = "fleet" -> Fleet!Init
       [] focus = "record" -> Record!Init
       [] focus = "users" -> UserList!Init
       [] OTHER -> screen = <<>> /\ backend = <<>> /\ wires = <<>>

PageNext ==
  \/ focus = "fleet" /\ Fleet!Next
  \/ focus = "record" /\ Record!Next
  \/ focus = "users" /\ UserList!Next

ModelNext ==
  /\ \/ focus = "scan" /\ Scan!Next
        /\ UNCHANGED <<connectVars, panelVars, watchVars, sessionVars, boardVars>>
     \/ focus = "connect" /\ Connect!Next
        /\ UNCHANGED <<scanVars, panelVars, watchVars, sessionVars, boardVars, failures>>
     \/ focus = "panel" /\ Panel!Next
        /\ UNCHANGED <<scanVars, connectVars, watchVars, sessionVars, boardVars>>
     \/ focus = "watch" /\ Watch!Next
        /\ UNCHANGED <<scanVars, connectVars, panelVars, sessionVars, boardVars>>
     \/ focus = "session" /\ Session!Next
        /\ UNCHANGED <<scanVars, connectVars, panelVars, watchVars, boardVars>>
     \/ focus = "board" /\ Board!Next
        /\ UNCHANGED <<scanVars, connectVars, panelVars, watchVars, sessionVars>>

Next ==
  /\ UNCHANGED focus
  /\ \/ ModelNext /\ UNCHANGED pageVars
     \/ PageNext /\ UNCHANGED modelVars

\* The variables of the open page.
openVars ==
  CASE focus = "scan" -> scanVars [] focus = "connect" -> connectVars
    [] focus = "panel" -> panelVars [] focus = "watch" -> watchVars
    [] focus = "session" -> sessionVars [] focus = "board" -> boardVars
    [] OTHER -> pageVars

(* The i-th action of the open page that is bound to happen: a request is   *)
(* answered, an interval ticks, a timer runs out.                          *)
Due(i) ==
  /\ UNCHANGED focus
  /\ \/ focus = "scan" /\ i = 1 /\ Scan!LoopStep
     \/ focus = "connect" /\ i = 1 /\ Connect!Answer
     \/ focus = "panel" /\ i = 1 /\ Panel!Poll
     \/ focus = "panel" /\ i = 2 /\ \E t \in Tables : Panel!Debounced(t)
     \/ focus = "watch" /\ i = 1 /\ (Watch!GatewaysListed \/ Watch!GatewaysNotListed)
     \/ focus = "watch" /\ i = 2 /\ \E w \in 1..MaxWatches : Watch!PollWatch(w)
     \/ focus = "watch" /\ i = 3 /\ \E w \in 1..MaxWatches : Watch!WatchExpires(w)
     \/ focus = "watch" /\ i - 3 \in 1..MaxWatches /\ Watch!Answer(i - 3)
     \/ focus = "board" /\ i = 1 /\ Board!Poll
     \/ focus = "board" /\ i = 2 /\ Board!Answers
     \/ focus = "board" /\ i = 3 /\ Board!LoadRead
     \/ focus = "board" /\ i = 4 /\ Board!LoadReply(1)
     \/ focus = "fleet" /\ i = 1 /\ Fleet!Poll
     \/ focus = "fleet" /\ i = 2 /\ Fleet!Oldest
     \/ focus = "record" /\ i = 1 /\ Record!Tick
     \/ focus = "record" /\ i = 2 /\ Record!Oldest

(* What comes true in the end if it is possible again and again: the        *)
(* deadline at the head of a loop, the answer to the oldest request of a   *)
(* table, the poll that finds a newcomer.                                  *)
DueAgain(i) ==
  /\ UNCHANGED focus
  /\ \/ focus = "scan" /\ i = 1 /\ Scan!OverDeadline
     \/ focus = "panel" /\ i = 1 /\ \E t \in Tables : Panel!Oldest(t)
     \/ focus = "watch" /\ i \in 1..MaxWatches /\ Watch!PollFinds(i)

Fairness ==
  /\ \A i \in 1..5 : WF_openVars(Due(i))
  /\ \A i \in 1..2 : SF_openVars(DueAgain(i))

Spec == Init /\ [][Next]_vars /\ Fairness

-----------------------------------------------------------------------------
(* Every variable keeps its type, and a gateway page has a live poll loop  *)
(* exactly while it says that it is polling.                               *)
TypeOK ==
  CASE focus = "scan" -> Scan!TypeOK [] focus = "connect" -> Connect!TypeOK
    [] focus = "panel" -> Panel!TypeOK [] focus = "watch" -> Watch!TypeOK
    [] focus = "session" -> Session!TypeOK [] focus = "board" -> Board!TypeOK
    [] focus = "fleet" -> Fleet!TypeOK [] focus = "record" -> Record!TypeOK
    [] focus = "users" -> UserList!TypeOK

(* GatewayDetailPage, whatever the order in which rows and polls come back, *)
(* whoever else scans the gateway, and if requests fail: a scan the         *)
(* operator has started there is reported in the end: its result, its      *)
(* failure, or that it took too long (the poll effect).  Only a gateway    *)
(* row that names another open scan, and leaving the page, excuse it: the  *)
(* page then follows the other scan (the effect on gateway).                *)
OwnScanIsReported == \A c \in 1..MaxScans : []<>(focus # "scan" \/ ~Scan!Owes(c))

(* What a page changes or sends belongs to what it shows.  A table of       *)
(* GatewayDetailPage changes only with the answer of the poll loop that    *)
(* follows its scan, never with that of a loop the effect has cancelled,   *)
(* or with a gateway row the page has asked for; it falls back to an older *)
(* scan by a row only if that was read long before it came.  The page      *)
(* stops following a scan only when that scan's own loop ends.  The        *)
(* command of TailscaleConnectPanel carries the tenant and the routes the  *)
(* screen shows at the time, whichever replies are still to come           *)
(* (handleSubmit).  A blank secret of ConsoleSettingsPage never replaces   *)
(* the one on record.                                                       *)
StepsAsShown ==
  [][CASE focus = "scan" -> Scan!SilentStep
       [] focus = "connect" -> Connect!SentAsShownStep
       [] focus = "record" -> Record!SecretKeptStep
       [] OTHER -> TRUE]_vars

(* A page tells what is so.  When replies come in order and none fails, a   *)
(* table of GatewayMonitoringPanel that waits for nothing shows rows of    *)
(* its own page and filter (the load and page effects), unless a click on  *)
(* Refresh or on a scan has read last what its closure still named: the    *)
(* page or filter of the time of the click (pollLiveData).  Without         *)
(* failures GatewaysPage and WorkersPage announce as enrolled only a        *)
(* machine that came after a token was created (startEnrollmentWatch).     *)
(* When replies come in order and none is lost, the lists, the users with  *)
(* their grants, and the settings and tenants are those on record once the *)
(* page waits for nothing; what is listed for a user is what the user may  *)
(* open, and a grant names a resource of its type.                          *)
ShownIsTrue ==
  CASE focus = "panel" -> Panel!RestingTableShowsItsKey
    [] focus = "watch" -> Watch!AnnouncedIsNew
    [] focus = "fleet" -> Fleet!ShownIsTrue
    [] focus = "record" -> Record!ShownIsTrue
    [] focus = "users" -> /\ UserList!ListedCanBeOpened /\ UserList!GrantsNameTheirType
                          /\ UserList!RestingPageShowsTheRecord
    [] OTHER -> TRUE

(* getCsrfToken: "Cookie is rotated on login/logout; it is the source of    *)
(* truth".  A request is built with one token and handled later:           *)
(* one of a signed-in browser is refused for its token only if a tab has   *)
(* signed in between the two, however the tabs sign in and out, reload and *)
(* lose their sessions.                                                     *)
RefusedIfOvertaken == focus = "session" => Session!RefusedIfOvertaken

(* WorkerTenantsPage: a row has a second action under way only when, since  *)
(* the first was begun, an action of another row was begun or answered and *)
(* the one mark of the page, actionLoading, went with it (actionDisabled).  *)
(* WorkersPage: an installation and a disconnection or deletion are never   *)
(* under way together, and the page waits exactly as long as one is.       *)
OneRequestPerRow ==
  /\ focus = "board" => Board!OneRequestPerRow
  /\ focus = "fleet" => Fleet!OneActionAtATime

(* Whatever was lost or overtaken, every page gets back to rest: the scan   *)
(* button of GatewayDetailPage is enabled again (setScanPolling),          *)
(* TailscaleConnectPanel stops loading until a scan has ended under it     *)
(* (loadContext and the effect on selectedTenantId), the tables of         *)
(* GatewayMonitoringPanel show the present data while its live poll runs,  *)
(* the list of workers, an open tenant and the metrics are those of the    *)
(* server, and WorkerTenantsPage shows the server's tenants and edge       *)
(* switch while no dialog is open (their poll effects).  A machine that     *)
(* enrols while the only watch is there is announced, unless the watch     *)
(* runs out, whatever polls fail (startEnrollmentWatch).                    *)
PagesRecover ==
  []<>(CASE focus = "scan" -> Scan!ButtonIsBack
         [] focus = "connect" -> Connect!Settled
         [] focus = "panel" -> Panel!UpToDate
         [] focus = "watch" -> Watch!AwaitedIsAnnounced
         [] focus = "board" -> Board!ShowsTheServer
         [] focus = "fleet" -> Fleet!UpToDate
         [] focus = "record" -> Record!UpToDate
         [] OTHER -> TRUE)
=============================================================================
