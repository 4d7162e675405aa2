--------------------------- MODULE GatewayScanPage ---------------------------
(***************************************************************************)
(* How the gateway page of the console starts a network scan and follows   *)
(* it (frontend/src/pages/GatewayDetailPage.tsx).  Of the command queue    *)
(* behind it only this is needed: a command is open until it is acked or   *)
(* failed, once (CommandLifecycle, which AgentCommands implements).        *)
(*                                                                         *)
(* The page is one thread, but every request leaves it at an await and the *)
(* replies come back in any order: a gateway row that was read before a    *)
(* scan was created may arrive after the scan was shown.  A poll loop that *)
(* its effect has cancelled still waits for the reply it asked for.        *)
(*                                                                         *)
(* Scans are numbered in the order of created_at.  A gateway row is what   *)
(* the page reads of it: the newest scan of each mode, whatever its state  *)
(* (backend/gateways/services.py, last_discover_scan, last_target_scan).   *)
(***************************************************************************)
EXTENDS Integers, FiniteSets, FiniteSetsExt

CONSTANTS MaxScans,     \* bound: scans ever created
          MaxLoads,     \* bound: gateway rows asked for and not yet answered
          MaxFailures   \* bound: requests that fail

Scans == 1..MaxScans
NoScan == 0
Modes == {"discover", "target"}
Loads == 1..MaxLoads

VARIABLES
  status,           \* AgentCommand.state of each scan; "open" is pending or dispatched
  mode,             \* payload.mode of each scan, "none" before it exists
  loads,            \* the requests for the gateway row that are under way
  loading, failed,  \* loading and error of loadGateway
  shown,            \* the scan whose result each mode's table shows
  active,           \* activeScanCommandId
  activeMode,       \* activeScanMode
  polling,          \* scanPolling
  loops,            \* the poll loops that still wait for something
  post,             \* the page's own scan_network request
  installing,       \* whether an install_module request is under way
  left,             \* the page is no longer mounted
  owed,             \* scans this page has started, follows and has not reported on
  failures,         \* requests that failed so far
  env               \* what goes wrong: requests fail ("failing"), rows are delivered
                    \* long after they were read ("slow"), others scan the same
                    \* gateway ("shared")

queueVars == <<status, mode>>
pollVars == <<active, activeMode, polling, loops>>
vars == <<queueVars, loads, loading, failed, shown, pollVars, post, installing,
          left, owed, failures, env>>

Statuses == {"absent", "open", "acked", "failed"}
Rows == [Modes -> [scan : Scans \cup {NoScan}, state : Statuses]]
NoRow == [m \in Modes |-> [scan |-> NoScan, state |-> "absent"]]
NoLoad == [stage |-> "free", row |-> NoRow]
NoPost == [stage |-> "none", mode |-> "none", scan |-> NoScan]

Environments == {"failing", "slow", "shared"}

TypeOK ==
  /\ status \in [Scans -> Statuses]
  /\ mode \in [Scans -> Modes \cup {"none"}]
  /\ loads \in [Loads -> [stage : {"free", "asked", "read"}, row : Rows]]
  /\ loading \in BOOLEAN /\ failed \in BOOLEAN
  /\ shown \in [Modes -> Scans \cup {NoScan}]
  /\ active \in Scans \cup {NoScan}
  /\ activeMode \in Modes \cup {"none"}
  /\ polling \in BOOLEAN
  /\ loops \subseteq [scan : Scans, live : BOOLEAN,
                      stage : {"asking", "answered"},
                      got : Statuses \cup {"error"}]
  /\ Cardinality({l \in loops : l.live}) = (IF polling THEN 1 ELSE 0)
  /\ post \in [stage : {"none", "sent", "created"}, mode : Modes \cup {"none"},
               scan : Scans \cup {NoScan}]
  /\ installing \in BOOLEAN /\ left \in BOOLEAN
  /\ owed \subseteq Scans
  /\ failures \in 0..MaxFailures
  /\ env \in Environments

\* The mount effect has asked for the first row.
Init ==
  /\ status = [c \in Scans |-> "absent"]
  /\ mode = [c \in Scans |-> "none"]
  /\ loads = [l \in Loads |-> [NoLoad EXCEPT !.stage = IF l = 1 THEN "asked" ELSE "free"]]
  /\ loading = TRUE /\ failed = FALSE
  /\ shown = [m \in Modes |-> NoScan]
  /\ active = NoScan /\ activeMode = "none" /\ polling = FALSE /\ loops = {}
  /\ post = NoPost
  /\ installing = FALSE /\ left = FALSE
  /\ owed = {}
  /\ failures = 0
  /\ env \in Environments

-----------------------------------------------------------------------------
MayFail == env = "failing" /\ failures < MaxFailures

\* The page shows its buttons: not the spinner, not the error page.
Ready == ~left /\ ~loading /\ ~failed

OfMode(m) == {c \in Scans : mode[c] = m}

\* GET /gateways/<id>, as far as the page uses it.
CurrentRow ==
  [m \in Modes |->
     IF OfMode(m) = {} THEN NoRow[m]
     ELSE [scan |-> Max(OfMode(m)), state |-> status[Max(OfMode(m))]]]

InflightModes(row) == {m \in Modes : row[m].state = "open"}

\* findInflightScan: the newest scan of the row that has not ended.
FindInflightScan(row) ==
  Max({NoScan} \cup {row[m].scan : m \in InflightModes(row)})

Cancelled == {[l EXCEPT !.live = FALSE] : l \in {l \in loops : l.stage = "answered"}}

NewLoop(c) == [scan |-> c, live |-> TRUE, stage |-> "asking", got |-> "absent"]

\* Faulty variant: the effect has no cleanup.
TrackUncancelled(c, m) ==
  /\ active' = c
  /\ activeMode' = m
  /\ polling' = TRUE
  /\ loops' = IF polling /\ active = c /\ activeMode = m
              THEN loops ELSE loops \cup {NewLoop(c)}

(* setActiveScanCommandId, setActiveScanMode and setScanPolling(true), and  *)
(* the effect that depends on the three: it restarts the loop only if one  *)
(* of them has changed.  A loop cancelled while it sleeps asks once more    *)
(* and ignores the answer, so only those with an answer under way are kept. *)
Track(c, m) ==
  /\ active' = c
  /\ activeMode' = m
  /\ polling' = TRUE
  /\ loops' = IF polling /\ active = c /\ activeMode = m
              THEN loops ELSE Cancelled \cup {NewLoop(c)}

\* setScanPolling(false) and setActiveScanMode(null) at the end of a loop.
StopTracking(l) ==
  /\ polling' = FALSE
  /\ activeMode' = "none"
  /\ loops' = loops \ {l}
  /\ UNCHANGED active

-----------------------------------------------------------------------------
(* Faulty variants of definitions below, for the mutants. *)

HydrateAndForget(row) ==
  LET c == FindInflightScan(row)
  IN  /\ shown' = [m \in Modes |-> IF row[m].state = "acked" THEN row[m].scan ELSE shown[m]]
      /\ IF c # NoScan THEN Track(c, mode[c])
         ELSE /\ polling' = FALSE /\ activeMode' = "none" /\ loops' = Cancelled
              /\ UNCHANGED active

DeadlineUnchecked(l) == FALSE /\ l.live /\ UNCHANGED vars

PollNotIgnored(l) ==
  /\ ~l.live
  /\ shown' = IF l.got = "acked" THEN [shown EXCEPT ![mode[l.scan]] = l.scan] ELSE shown
  /\ loops' = loops \ {l}
  /\ UNCHANGED <<queueVars, loads, loading, failed, active, activeMode, polling, post,
                 installing, left, owed, failures, env>>

-----------------------------------------------------------------------------
(* The gateway row.                                                        *)

\* loadGateway, up to its await.
StartLoad(l) ==
  /\ loads[l].stage = "free"
  /\ loads' = [loads EXCEPT ![l].stage = "asked"]
  /\ loading' = TRUE
  /\ failed' = FALSE

\* The Refresh button, and Retry on the error page.
Refresh(l) ==
  /\ ~left /\ ~loading
  /\ StartLoad(l)
  /\ UNCHANGED <<queueVars, shown, pollVars, post, installing, left, owed,
                 failures, env>>

\* The server reads the row, and the reply is on its way for a while.
ReadRow(l) ==
  /\ ~left /\ env = "slow"
  /\ loads[l].stage = "asked"
  /\ loads' = [loads EXCEPT ![l] = [stage |-> "read", row |-> CurrentRow]]
  /\ UNCHANGED <<queueVars, loading, failed, shown, pollVars, post, installing, left,
                 owed, failures, env>>

(* The effect on gateway: acked results of the row are shown, and the      *)
(* newest unfinished scan is followed.  It never stops a loop.             *)
Hydrate(row) ==
  LET c == FindInflightScan(row)
  IN  /\ shown' = [m \in Modes |-> IF row[m].state = "acked" THEN row[m].scan ELSE shown[m]]
      /\ IF c # NoScan THEN Track(c, mode[c]) ELSE UNCHANGED pollVars

\* The row a request brings.
Answer(l) == IF loads[l].stage = "read" THEN loads[l].row ELSE CurrentRow

\* The rest of loadGateway when the reply arrives.  A row that names another open
\* scan makes the page follow that one, and say so.
LoadReply(l) ==
  /\ ~left
  /\ loads[l].stage \in {"asked", "read"}
  /\ loads' = [loads EXCEPT ![l] = NoLoad]
  /\ loading' = FALSE
  /\ Hydrate(Answer(l))
  /\ LET c == FindInflightScan(Answer(l))
     IN  owed' = IF c = NoScan THEN owed ELSE owed \cap {c}
  /\ UNCHANGED <<queueVars, failed, post, installing, left, failures, env>>

LoadFails(l) ==
  /\ ~left
  /\ loads[l].stage # "free" /\ MayFail
  /\ failures' = failures + 1
  /\ loads' = [loads EXCEPT ![l] = NoLoad]
  /\ loading' = FALSE
  /\ failed' = TRUE
  /\ UNCHANGED <<queueVars, shown, pollVars, post, installing, left, owed, env>>

-----------------------------------------------------------------------------
(* Following a scan.                                                       *)

\* The head of the loop, two hours (SCAN_POLL_MAX_MS) after it began.
Deadline(l) ==
  /\ l.live /\ l.stage = "asking"
  /\ owed' = owed \ {l.scan}
  /\ StopTracking(l)
  /\ UNCHANGED <<queueVars, loads, loading, failed, shown, post, installing, left,
                 failures, env>>

\* It sleeps and asks; the server reads the command, or the request fails.
PollRead(l) ==
  /\ l.live /\ l.stage = "asking"
  /\ \E got \in {status[l.scan], "error"} :
       /\ got = "error" => MayFail
       /\ failures' = IF got = "error" THEN failures + 1 ELSE failures
       /\ loops' = (loops \ {l}) \cup {[l EXCEPT !.stage = "answered", !.got = got]}
  /\ UNCHANGED <<queueVars, loads, loading, failed, shown, active, activeMode, polling,
                 post, installing, left, owed, env>>

\* The reply of a loop nobody has cancelled says that the scan has ended, or fails.
PollEnds(l) ==
  /\ l.live /\ l.stage = "answered" /\ l.got # "open"
  /\ shown' = IF l.got = "acked" THEN [shown EXCEPT ![mode[l.scan]] = l.scan] ELSE shown
  /\ owed' = owed \ {l.scan}
  /\ StopTracking(l)
  /\ UNCHANGED <<queueVars, loads, loading, failed, post, installing, left,
                 failures, env>>

\* The scan is still open: the loop goes round.
PollAgain(l) ==
  /\ l.live /\ l.stage = "answered" /\ l.got = "open"
  /\ loops' = (loops \ {l}) \cup {[l EXCEPT !.stage = "asking", !.got = "absent"]}
  /\ UNCHANGED <<queueVars, loads, loading, failed, shown, active, activeMode, polling,
                 post, installing, left, owed, failures, env>>

\* The reply of a cancelled loop: "if (cancelled) return".
PollIgnored(l) ==
  /\ ~l.live
  /\ loops' = loops \ {l}
  /\ UNCHANGED <<queueVars, loads, loading, failed, shown, active, activeMode, polling,
                 post, installing, left, owed, failures, env>>

-----------------------------------------------------------------------------
(* The operator's commands.                                                *)

\* scanNetwork: its button is disabled while a scan is being sent or followed.
ScanNetwork(m) ==
  /\ Ready /\ post.stage = "none" /\ ~polling
  /\ post' = [stage |-> "sent", mode |-> m, scan |-> NoScan]
  /\ UNCHANGED <<queueVars, loads, loading, failed, shown, pollVars, installing, left,
                 owed, failures, env>>

NextScan == Cardinality({c \in Scans : mode[c] # "none"}) + 1

Enqueue(m) ==
  /\ NextScan \in Scans
  /\ status' = [status EXCEPT ![NextScan] = "open"]
  /\ mode' = [mode EXCEPT ![NextScan] = m]

\* The server handles the page's request.
ScanCreated ==
  /\ post.stage = "sent"
  /\ Enqueue(post.mode)
  /\ post' = [post EXCEPT !.stage = "created", !.scan = NextScan]
  /\ UNCHANGED <<loads, loading, failed, shown, pollVars, installing, left, owed,
                 failures, env>>

ScanAccepted ==
  /\ ~left /\ post.stage = "created"
  /\ Track(post.scan, post.mode)
  /\ owed' = owed \cup {post.scan}
  /\ post' = NoPost
  /\ UNCHANGED <<queueVars, loads, loading, failed, shown, installing, left,
                 failures, env>>

\* The request is lost on its way out or back, or refused.
ScanRefused ==
  /\ ~left /\ post.stage \in {"sent", "created"} /\ MayFail
  /\ failures' = failures + 1
  /\ post' = NoPost
  /\ UNCHANGED <<queueVars, loads, loading, failed, shown, pollVars, installing, left,
                 owed, env>>

\* installModule: runCommand reads the row again when the request is answered.
InstallModule ==
  /\ Ready /\ ~installing
  /\ installing' = TRUE
  /\ UNCHANGED <<queueVars, loads, loading, failed, shown, pollVars, post, left, owed, failures, env>>

InstallQueued(l) ==
  /\ ~left /\ installing
  /\ installing' = FALSE
  /\ StartLoad(l)
  /\ UNCHANGED <<queueVars, shown, pollVars, post, left, owed, failures, env>>

InstallFails ==
  /\ ~left /\ installing /\ MayFail
  /\ failures' = failures + 1
  /\ installing' = FALSE
  /\ UNCHANGED <<queueVars, loads, loading, failed, shown, pollVars, post, left, owed, env>>

\* deleteGateway, or a link, leaves the page: its loops are cancelled and its state is gone.
Leave ==
  /\ Ready
  /\ left' = TRUE
  /\ loads' = [l \in Loads |-> NoLoad]
  /\ shown' = [m \in Modes |-> NoScan]
  /\ active' = NoScan /\ activeMode' = "none" /\ polling' = FALSE /\ loops' = {}
  /\ post' = NoPost
  /\ installing' = FALSE
  /\ owed' = {}
  /\ UNCHANGED <<queueVars, loading, failed, failures, env>>

-----------------------------------------------------------------------------
(* The rest of the system.                                                 *)

OtherScan(m) ==
  /\ ~left /\ env = "shared"
  /\ Enqueue(m)
  /\ UNCHANGED <<loads, loading, failed, shown, pollVars, post, installing, left, owed, failures, env>>

\* The agent reports its commands in order, or the control plane gives them up.
AgentWorks ==
  /\ ~left
  /\ \E c \in Scans, end \in {"acked", "failed"} :
       /\ status[c] = "open"
       /\ \A earlier \in 1..(c - 1) : status[earlier] # "open"
       /\ status' = [status EXCEPT ![c] = end]
  /\ UNCHANGED <<mode, loads, loading, failed, shown, pollVars, post, installing, left,
                 owed, failures, env>>

Next ==
  \/ \E l \in Loads : Refresh(l) \/ ReadRow(l) \/ LoadReply(l) \/ LoadFails(l) \/ InstallQueued(l)
  \/ \E l \in loops : Deadline(l) \/ PollRead(l) \/ PollEnds(l)
                        \/ PollAgain(l) \/ PollIgnored(l)
  \/ \E m \in Modes : ScanNetwork(m) \/ OtherScan(m)
  \/ ScanCreated \/ ScanAccepted \/ ScanRefused
  \/ InstallModule \/ InstallFails \/ Leave
  \/ AgentWorks

Spec == Init /\ [][Next]_vars

(* Timers run, so that a loop that keeps coming back to its head comes      *)
(* there after the deadline (strong fairness of OverDeadline), and requests *)
(* are answered (weak fairness of LoopStep); nothing is assumed of the      *)
(* agent or of the operators.                                              *)
LoopStep == \E l \in loops : PollRead(l) \/ PollEnds(l) \/ PollAgain(l)
OverDeadline == \E l \in loops : Deadline(l)

-----------------------------------------------------------------------------
(* State and step predicates of the properties MCConsole checks.           *)

\* A scan of this page waits for its result or failure to be reported.
Owes(c) == c \in owed

ButtonIsBack == ~polling \/ left

\* The loop that follows the page's scan, with its answer at hand.
FollowedAnswer(l) == l.live /\ l.scan = active /\ l.stage = "answered"

\* What changes a table is the answer of the loop that follows its scan, or the row
\* of a request the page has made; a row puts a table back only when it was long
\* under way.
TablesFollow ==
  \A m \in Modes : shown'[m] # shown[m] =>
    \/ \E l \in loops : /\ FollowedAnswer(l) /\ l.got = "acked"
                        /\ mode[active] = m /\ shown'[m] = active
    \/ \E k \in Loads : /\ loads[k].stage # "free" /\ loads'[k].stage = "free"
                        /\ Answer(k)[m] = [scan |-> shown'[m], state |-> "acked"]
                        /\ (env = "slow" \/ shown'[m] > shown[m])

\* What ends the following of a scan is its own loop.
FollowingEnds ==
  (polling /\ ~polling') =>
    \E l \in loops : /\ l.live /\ l.scan = active
                     /\ l.stage = "asking" \/ (l.stage = "answered" /\ l.got # "open")

SilentStep == ~left' => TablesFollow /\ FollowingEnds
=============================================================================
