----------------------------- MODULE TenantBoard -----------------------------
(***************************************************************************)
(* The board of a worker's tenants (frontend/src/pages/WorkerTenantsPage   *)
(* .tsx): rows read again after every action and every few seconds, the    *)
(* buttons each row offers, the dialogs that stop the poll, and the        *)
(* worker's shared edge switch.  A refresh is three requests that are      *)
(* answered together or not at all; refreshes overlap and overtake.        *)
(***************************************************************************)
EXTENDS Integers, Sequences, SequencesExt

CONSTANTS Tenants,
          MaxRequests,  \* bound: requests of the operator
          MaxBesides,   \* bound: bulk requests and the edge switch are among the first so many
          MaxFailures   \* bound: requests that fail

Actions == {"provision", "start", "stop", "verify", "bootstrap"}
Runtimes == {"absent", "pending", "running", "deleting", "gone"}
NoTenant == "none"

VARIABLES
  runtime,    \* runtime_status of each tenant at the server
  edge,       \* shared_edge_traefik at the server
  rows,       \* the board: what the page shows of the two
  shownEdge,
  refreshes,  \* refreshes under way: how many are still to be read, and what the others read
  acting,     \* requests of each row's actions under way
  busy,       \* actionLoading: the row whose action was begun last
  dialog,     \* the dialog that is open, and the row it is about
  deleting,   \* deleteLoading
  bulk,       \* bulkLoading or bulkProvisionLoading: the bulk request under way
  saving,     \* edgeSaving
  unmarked,   \* history: rows with a request under way whose mark another row's action
              \* has taken
  requests, failures

pageVars == <<rows, shownEdge, refreshes, acting, busy, dialog, deleting, bulk, saving>>
vars == <<runtime, edge, pageVars, unmarked, requests, failures>>

\* How many refreshes are followed at a time.
Loads == 2
Server == [rows |-> runtime, edge |-> edge]
NoDialog == [kind |-> "none", tenant |-> NoTenant]
Dialogs == {"none", "create", "remove"}

TypeOK ==
  /\ runtime \in [Tenants -> Runtimes] /\ rows \in [Tenants -> Runtimes]
  /\ edge \in BOOLEAN /\ shownEdge \in BOOLEAN
  /\ refreshes.asked \in 0..Loads
  /\ refreshes.read \in Seq([rows : [Tenants -> Runtimes], edge : BOOLEAN])
  /\ refreshes.asked + Len(refreshes.read) <= Loads
  /\ acting \in [Tenants -> 0..MaxRequests]
  /\ busy \in Tenants \cup {NoTenant}
  /\ dialog \in [kind : Dialogs, tenant : Tenants \cup {NoTenant}]
  /\ deleting \in BOOLEAN /\ saving \in BOOLEAN /\ unmarked \subseteq Tenants
  /\ bulk \in {"none", "create", "provision"}
  /\ requests \in 0..MaxRequests /\ failures \in 0..MaxFailures

\* One tenant is there, to be deployed; it makes no difference which.
Init ==
  /\ LET first == CHOOSE t \in Tenants : TRUE
     IN  runtime = [t \in Tenants |-> IF t = first THEN "pending" ELSE "absent"]
  /\ edge = FALSE
  /\ rows = [t \in Tenants |-> "absent"] /\ shownEdge = FALSE
  /\ refreshes = [asked |-> 1, read |-> <<>>]
  /\ acting = [t \in Tenants |-> 0]
  /\ busy = NoTenant
  /\ dialog = NoDialog
  /\ deleting = FALSE /\ bulk = "none" /\ saving = FALSE
  /\ unmarked = {}
  /\ requests = 0 /\ failures = 0

-----------------------------------------------------------------------------
(* Refreshes.                                                              *)

Fail == failures < MaxFailures /\ failures' = failures + 1

RoomToLoad == refreshes.asked + Len(refreshes.read) < Loads

\* loadData; one that would be the third under way is left out.
StartLoad ==
  refreshes' = IF RoomToLoad THEN [refreshes EXCEPT !.asked = @ + 1] ELSE refreshes

\* Faulty variant: the interval is not started again after an action.
PollUntilFirstAction ==
  /\ RoomToLoad
  /\ dialog = NoDialog /\ requests = 0
  /\ StartLoad
  /\ UNCHANGED <<runtime, edge, rows, shownEdge, acting, busy, dialog, deleting, bulk,
                 saving, unmarked, requests, failures>>

\* The interval runs while no dialog is open.
Poll ==
  /\ RoomToLoad
  /\ dialog = NoDialog
  /\ StartLoad
  /\ UNCHANGED <<runtime, edge, rows, shownEdge, acting, busy, dialog, deleting, bulk,
                 saving, unmarked, requests, failures>>

LoadRead ==
  /\ refreshes.asked > 0
  /\ refreshes' = [asked |-> refreshes.asked - 1, read |-> Append(refreshes.read, Server)]
  /\ UNCHANGED <<runtime, edge, rows, shownEdge, acting, busy, dialog, deleting, bulk,
                 saving, unmarked, requests, failures>>

LoadReply(i) ==
  /\ i \in DOMAIN refreshes.read
  /\ refreshes' = [refreshes EXCEPT !.read = RemoveAt(@, i)]
  /\ rows' = refreshes.read[i].rows
  /\ shownEdge' = refreshes.read[i].edge
  /\ UNCHANGED <<runtime, edge, acting, busy, dialog, deleting, bulk, saving, unmarked,
                 requests, failures>>

\* A request that has been read fails like one that has not: nothing is shown.
LoadFails ==
  /\ Fail
  /\ \/ refreshes.asked > 0 /\ refreshes' = [refreshes EXCEPT !.asked = @ - 1]
     \/ \E i \in DOMAIN refreshes.read : refreshes' = [refreshes EXCEPT !.read = RemoveAt(@, i)]
  /\ UNCHANGED <<runtime, edge, rows, shownEdge, acting, busy, dialog, deleting, bulk,
                 saving, unmarked, requests>>

-----------------------------------------------------------------------------
(* The rows' actions.                                                      *)

\* Faulty variant: the row's own action does not disable its buttons.
ActionDisabledByBulk(t) ==
  bulk # "none" \/ deleting \/ rows[t] = "deleting"

\* actionDisabled: busy names one row only.
ActionDisabled(t) ==
  busy = t \/ bulk # "none" \/ deleting \/ rows[t] = "deleting"

Listed(t) == rows[t] \notin {"absent", "gone"}
Ask == requests < MaxRequests /\ requests' = requests + 1

\* Bounds: what is asked besides the rows' actions; a deletion is the last request.
AskBesides == requests < MaxBesides /\ Ask
AskLast == requests = MaxRequests - 1 /\ Ask

RunTenantAction(t) ==
  /\ Listed(t) /\ ~ActionDisabled(t) /\ dialog = NoDialog
  /\ Ask
  /\ acting' = [acting EXCEPT ![t] = @ + 1]
  /\ busy' = t
  /\ unmarked' = unmarked \cup {other \in Tenants \ {t} : acting[other] > 0}
  /\ UNCHANGED <<runtime, edge, rows, shownEdge, refreshes, dialog, deleting, bulk, saving,
                 failures>>

(* The server has queued a command, and the rows are read again; or the     *)
(* action fails, and they are not.  Whichever row's it was, no row is busy *)
(* any more: the mark is cleared in the finally.                           *)
ActionAnswered(t) ==
  /\ acting[t] > 0
  /\ acting' = [acting EXCEPT ![t] = @ - 1]
  /\ busy' = NoTenant
  /\ unmarked' = {row \in unmarked \cup (Tenants \ {t}) : acting'[row] > 0}
  /\ \/ StartLoad /\ UNCHANGED failures
     \/ Fail /\ UNCHANGED refreshes
  /\ UNCHANGED <<runtime, edge, rows, shownEdge, dialog, deleting, bulk, saving, requests>>

-----------------------------------------------------------------------------
(* Dialogs, bulk requests and the edge switch.                             *)

Open(kind, t) ==
  /\ dialog = NoDialog
  /\ IF kind = "remove" THEN Listed(t) /\ ~ActionDisabled(t) ELSE t = NoTenant
  /\ dialog' = [kind |-> kind, tenant |-> t]
  /\ UNCHANGED <<runtime, edge, rows, shownEdge, refreshes, acting, busy, deleting, bulk, saving,
                 unmarked, requests, failures>>

Cancel ==
  /\ dialog # NoDialog /\ ~deleting /\ bulk # "create"
  /\ dialog' = NoDialog
  /\ UNCHANGED <<runtime, edge, rows, shownEdge, refreshes, acting, busy, deleting, bulk, saving,
                 unmarked, requests, failures>>

HandleDeleteTenant ==
  /\ dialog.kind = "remove" /\ ~deleting
  /\ AskLast
  /\ deleting' = TRUE
  /\ UNCHANGED <<runtime, edge, rows, shownEdge, refreshes, acting, busy, dialog, bulk, saving,
                 unmarked, failures>>

\* A stack that was never deployed is removed at once; on failure the dialog stays.
DeleteAnswered ==
  /\ deleting
  /\ deleting' = FALSE
  /\ \/ /\ runtime' = [runtime EXCEPT ![dialog.tenant] =
                         IF @ = "pending" THEN "gone" ELSE IF @ = "gone" THEN @ ELSE "deleting"]
        /\ dialog' = NoDialog
        /\ StartLoad
        /\ UNCHANGED failures
     \/ Fail /\ UNCHANGED <<runtime, dialog, refreshes>>
  /\ UNCHANGED <<edge, rows, shownEdge, acting, busy, bulk, saving, unmarked, requests>>

\* handleBulkCreate and handleBulkProvision.
StartBulk(kind) ==
  /\ bulk = "none" /\ ~deleting
  /\ kind = "create" => dialog.kind = "create"
  /\ kind = "provision" => dialog = NoDialog /\ \E t \in Tenants : rows[t] = "pending"
  /\ AskBesides
  /\ bulk' = kind
  /\ UNCHANGED <<runtime, edge, rows, shownEdge, refreshes, acting, busy, dialog, deleting, saving,
                 unmarked, failures>>

\* The dialog of a bulk creation that fails stays open.
BulkAnswered ==
  /\ bulk # "none"
  /\ bulk' = "none"
  /\ \/ /\ IF bulk = "create"
           THEN /\ \E new \in SUBSET {t \in Tenants : runtime[t] = "absent"} :
                     runtime' = [t \in Tenants |-> IF t \in new THEN "pending" ELSE runtime[t]]
                /\ dialog' = NoDialog
           ELSE UNCHANGED <<runtime, dialog>>
        /\ StartLoad
        /\ UNCHANGED failures
     \/ Fail /\ UNCHANGED <<runtime, dialog, refreshes>>
  /\ UNCHANGED <<edge, rows, shownEdge, acting, busy, deleting, saving, unmarked, requests>>

HandleSharedEdgeToggle ==
  /\ ~saving /\ dialog = NoDialog
  /\ AskBesides
  /\ saving' = TRUE
  /\ edge' = ~shownEdge
  /\ UNCHANGED <<runtime, rows, shownEdge, refreshes, acting, busy, dialog, deleting, bulk, unmarked,
                 failures>>

\* The reply is the worker as it was saved, or is lost.
EdgeSaved ==
  /\ saving
  /\ saving' = FALSE
  /\ \/ shownEdge' = edge /\ UNCHANGED failures
     \/ Fail /\ UNCHANGED shownEdge
  /\ UNCHANGED <<runtime, edge, rows, refreshes, acting, busy, dialog, deleting, bulk, unmarked,
                 requests>>

\* The worker executes what was queued.
WorkerReports(t) ==
  /\ \/ runtime[t] = "pending" /\ runtime' = [runtime EXCEPT ![t] = "running"]
     \/ runtime[t] = "deleting" /\ runtime' = [runtime EXCEPT ![t] = "gone"]
  /\ UNCHANGED <<edge, pageVars, unmarked, requests, failures>>

Next ==
  \/ Poll \/ LoadRead \/ LoadFails \/ \E i \in 1..Loads : LoadReply(i)
  \/ \E t \in Tenants : RunTenantAction(t) \/ ActionAnswered(t) \/ WorkerReports(t)
                          \/ Open("remove", t)
  \/ Open("create", NoTenant) \/ Cancel
  \/ HandleDeleteTenant \/ DeleteAnswered
  \/ \E kind \in {"create", "provision"} : StartBulk(kind)
  \/ BulkAnswered
  \/ HandleSharedEdgeToggle \/ EdgeSaved

Answers == (\E t \in Tenants : ActionAnswered(t)) \/ DeleteAnswered \/ BulkAnswered \/ EdgeSaved

Spec == Init /\ [][Next]_vars

-----------------------------------------------------------------------------
(* State predicates of the properties MCConsole checks.                    *)

\* A row has a second request under way only after the action of another row took
\* or cleared its mark.
OneRequestPerRow == \A t \in Tenants : acting[t] > 1 => t \in unmarked

ShowsTheServer == dialog # NoDialog \/ (rows = runtime /\ shownEdge = edge)
=============================================================================
