----------------------------- MODULE FleetPages -----------------------------
(***************************************************************************)
(* The lists of workers, gateways and tenants (pages/WorkersPage.tsx,      *)
(* GatewaysPage.tsx, TenantsPage.tsx) with the dialogs that confirm an     *)
(* action or make an enrolment token (AddWorkerModal.tsx,                  *)
(* AddGatewayModal.tsx).  A list is read when the page opens, when its     *)
(* filter changes and after an action; that of workers every ten seconds   *)
(* as well.  A dialog that is closed stays mounted: the reply to what it   *)
(* sent still reaches it.                                                  *)
(***************************************************************************)
EXTENDS Naturals, Sequences

CONSTANTS Rows,    \* what may be listed
          Groups,  \* what a filter or a token can name
          GroupOf, \* the group of a row
          MaxActs, MaxWires

VARIABLES
  screen,   \* what the page holds
  backend,  \* the rows on record, and whether times are calm: requests keep their
            \* order, and nobody closes a dialog before the reply to it
  wires     \* requests under way, oldest first

vars == <<screen, backend, wires>>

None == "none"
Statuses == {"pending", "online", "offline", "gone"}
Closed == [open |-> FALSE, group |-> None, submitting |-> FALSE, made |-> None]
Request(op, row, group) ==
  [op |-> op, row |-> row, group |-> group, served |-> FALSE, ok |-> FALSE, data |-> {}]
Ask(op, row, group) == Append(wires, Request(op, row, group))
Without(i) == [j \in 1..(Len(wires) - 1) |-> IF j < i THEN wires[j] ELSE wires[j + 1]]
Page == screen.page

-----------------------------------------------------------------------------
(* The server.                                                              *)

Record(filter) ==
  {x \in [id : Rows, status : Statuses, group : Groups] :
     /\ x = backend.rows[x.id] /\ x.status # "gone"
     /\ filter \in {None, x.group}}

\* What has gone, or has no agent, cannot be acted upon.
Outcome(r) ==
  LET here == r.row \in Rows /\ backend.rows[r.row].status # "gone"
      to(status) == [backend EXCEPT !.rows[r.row].status = status]
      res(ok, data, b) == [ok |-> ok, data |-> data, backend |-> b]
  IN  CASE r.op = "list" -> res(TRUE, Record(r.group), backend)
        [] r.op = "token" -> res(TRUE, {}, backend)
        [] r.op = "delete" -> res(here, {}, IF here THEN to("gone") ELSE backend)
        [] r.op = "disconnect" -> res(here, {}, IF here THEN to("offline") ELSE backend)
        [] r.op = "install" -> res(here, {}, backend)

Serve(i) ==
  LET o == Outcome(wires[i])
  IN  /\ ~wires[i].served
      /\ backend.calm => \A j \in 1..(i - 1) : wires[j].served
      /\ wires' = [wires EXCEPT ![i].served = TRUE, ![i].ok = o.ok, ![i].data = o.data]
      /\ backend' = o.backend
      /\ UNCHANGED screen

\* A request may fail before it reaches the server or after it left it.
Lose(i) ==
  /\ backend.losses > 0 /\ (~wires[i].served \/ wires[i].ok)
  /\ wires' = [wires EXCEPT ![i].served = TRUE, ![i].ok = FALSE]
  /\ backend' = [backend EXCEPT !.losses = @ - 1, !.lost = wires[i].ok]
  /\ UNCHANGED screen

AgentChanges ==
  /\ backend.changes > 0
  /\ \E x \in Rows, s \in Statuses \ {"gone"} :
       /\ backend.rows[x].status \notin {"gone", s}
       /\ backend' = [backend EXCEPT !.rows[x].status = s, !.changes = @ - 1]
  /\ UNCHANGED <<screen, wires>>

-----------------------------------------------------------------------------
(* Replies.                                                                 *)

\* An action that went well lets go of its dialog and reads the list again.
ActionDone(r) ==
  [screen EXCEPT !.confirm = IF r.op = "install" THEN @ ELSE [act |-> None, row |-> None],
                 !.failed = FALSE]

\* The gateways page closes its dialog even then, the workers page keeps it.
ActionFailed ==
  [screen EXCEPT !.acting = FALSE,
                 !.confirm = IF Page = "gateways" THEN [act |-> None, row |-> None] ELSE @]

TokenMade(r) == [screen.modal EXCEPT !.submitting = FALSE, !.made = r.group]

\* Mutant: only a reading that succeeds lets go.
HeldUntilRead(r) ==
  IF r.ok THEN [screen EXCEPT !.rows = r.data, !.loading = FALSE, !.acting = FALSE,
                              !.installing = None]
  ELSE screen

\* A list that cannot be read keeps the rows, and ends what waits for it.
ListRead(r) ==
  LET own == r.row \in Rows
      s == [screen EXCEPT !.rows = IF r.ok THEN r.data ELSE @, !.failed = ~r.ok,
                          !.loading = @ /\ r.row # "load"]
  IN  IF own THEN [s EXCEPT !.acting = FALSE, !.installing = None] ELSE s

Reply(i) ==
  LET r == wires[i]
      after == r.ok /\ r.op \in {"delete", "disconnect", "install"}
  IN  /\ r.served
      /\ backend.calm => i = 1
      /\ screen' = CASE r.op = "list" -> ListRead(r)
                     [] r.op = "token" /\ r.ok -> [screen EXCEPT !.modal = TokenMade(r)]
                     [] r.op = "token" /\ ~r.ok -> [screen EXCEPT !.modal.submitting = FALSE]
                     [] after -> ActionDone(r)
                     [] r.op = "install" /\ ~r.ok -> [screen EXCEPT !.installing = None]
                     [] OTHER -> ActionFailed
      /\ wires' = IF after THEN Append(Without(i), Request("list", r.row, screen.filter))
                  ELSE Without(i)
      /\ UNCHANGED backend

-----------------------------------------------------------------------------
(* The operator.                                                            *)

Acts == screen.acts < MaxActs /\ Len(wires) < MaxWires /\ UNCHANGED backend
Acted(s) == screen' = [s EXCEPT !.acts = screen.acts + 1]
Covered == screen.modal.open \/ screen.confirm.act # None

\* The page is left blank while it loads, unless it is refreshed silently.
SelectFilter(g) ==
  /\ Acts /\ Page # "workers" /\ ~Covered /\ g # screen.filter
  /\ Acted([screen EXCEPT !.filter = g, !.loading = TRUE, !.failed = FALSE])
  /\ wires' = Ask("list", "load", g)

Retry ==
  /\ Acts /\ screen.failed /\ ~screen.loading /\ ~Covered
  /\ Acted([screen EXCEPT !.loading = TRUE, !.failed = FALSE])
  /\ wires' = Ask("list", "load", screen.filter)

\* Every ten seconds, whatever else is under way.
Poll ==
  /\ Page = "workers"
  /\ ~\E j \in DOMAIN wires : wires[j].op = "list" /\ wires[j].row = None
  /\ wires' = Ask("list", None, None)
  /\ screen' = [screen EXCEPT !.failed = FALSE]
  /\ UNCHANGED backend

\* The row's own status says what can be asked of it.
Offered(act, x) ==
  CASE act = "disconnect" -> Page = "workers" /\ x.status \in {"online", "offline"}
    [] act = "install" -> Page = "workers" /\ x.status # "pending"
    [] act = "delete" -> Page # "tenants"

OpenConfirm(act, x) ==
  /\ Acts /\ ~screen.loading /\ ~screen.failed /\ ~Covered /\ Offered(act, x)
  /\ ~screen.acting /\ screen.installing = None
  /\ Acted([screen EXCEPT !.confirm = [act |-> act, row |-> x.id]])
  /\ UNCHANGED wires

RunConfirmed ==
  /\ Acts /\ screen.confirm.act # None /\ ~screen.acting
  /\ Acted([screen EXCEPT !.acting = TRUE])
  /\ wires' = Ask(screen.confirm.act, screen.confirm.row, None)

CancelConfirm ==
  /\ Acts /\ screen.confirm.act # None /\ ~screen.acting
  /\ Acted([screen EXCEPT !.confirm = [act |-> None, row |-> None]])
  /\ UNCHANGED wires

\* Mutant: the button does not look at the other action.
InstallUnguarded(x) ==
  /\ Acts /\ ~screen.loading /\ ~screen.failed /\ Offered("install", x) /\ screen.installing = None
  /\ Acted([screen EXCEPT !.installing = x.id])
  /\ wires' = Ask("install", x.id, None)

InstallDocker(x) ==
  /\ Acts /\ ~screen.loading /\ ~screen.failed /\ Offered("install", x)
  /\ screen.installing = None /\ ~screen.acting /\ screen.confirm.act = None
  /\ Acted([screen EXCEPT !.installing = x.id])
  /\ wires' = Ask("install", x.id, None)

\* A tenant is selected when the dialog opens; closing it forgets what it made.
OpenModal ==
  /\ Acts /\ Page # "tenants" /\ ~Covered
  /\ \E g \in Groups :
       /\ g = screen.filter \/ screen.filter = None
       /\ Acted([screen EXCEPT !.modal.open = TRUE, !.modal.group = g])
  /\ UNCHANGED wires

\* Mutant: the tenant can be changed while the command is being made.
SelectWhileSubmitting(g) ==
  /\ Acts /\ screen.modal.open /\ screen.modal.made = None /\ g # screen.modal.group
  /\ Acted([screen EXCEPT !.modal.group = g])
  /\ UNCHANGED wires

SelectGroup(g) ==
  /\ Acts /\ screen.modal.open /\ screen.modal.made = None /\ ~screen.modal.submitting
  /\ g # screen.modal.group
  /\ Acted([screen EXCEPT !.modal.group = g])
  /\ UNCHANGED wires

Submit ==
  /\ Acts /\ screen.modal.open /\ ~screen.modal.submitting /\ screen.modal.made = None
  /\ Acted([screen EXCEPT !.modal.submitting = TRUE])
  /\ wires' = Ask("token", None, screen.modal.group)

\* The dialog can be closed while its request is under way.
CloseModal ==
  /\ Acts /\ screen.modal.open
  /\ backend.calm => ~screen.modal.submitting
  /\ Acted([screen EXCEPT !.modal = Closed])
  /\ UNCHANGED wires

\* What waits longest is answered in the end.
Oldest == wires # <<>> /\ (Serve(1) \/ Reply(1))

Next ==
  \/ \E i \in DOMAIN wires : Serve(i) \/ Reply(i)
  \/ AgentChanges \/ Retry \/ Poll \/ RunConfirmed \/ CancelConfirm
  \/ OpenModal \/ Submit \/ CloseModal
  \/ \E i \in DOMAIN wires : Lose(i)
  \/ \E g \in Groups \cup {None} : SelectFilter(g)
  \/ \E g \in Groups : SelectGroup(g)
  \/ \E x \in screen.rows :
       InstallDocker(x) \/ \E act \in {"delete", "disconnect"} : OpenConfirm(act, x)

Init ==
  /\ \E page \in {"workers", "gateways", "tenants"} :
       screen = [page |-> page, rows |-> {}, filter |-> None, loading |-> TRUE, failed |-> FALSE,
                 confirm |-> [act |-> None, row |-> None], acting |-> FALSE, installing |-> None,
                 modal |-> Closed, acts |-> 0]
  /\ \E calm \in BOOLEAN :
       backend = [rows |-> [x \in Rows |-> [id |-> x, status |-> "online", group |-> GroupOf[x]]],
                  calm |-> calm, changes |-> IF calm THEN 0 ELSE 1,
                  losses |-> IF calm THEN 1 ELSE 0, lost |-> FALSE]
  /\ wires = <<Request("list", "load", None)>>

-----------------------------------------------------------------------------
(* Properties.                                                              *)

(* The page holds rows, a dialog names one or nothing.                      *)
TypeOK ==
  /\ \A x \in screen.rows : x.id \in Rows /\ x.status \in Statuses \ {"gone"}
  /\ screen.confirm.row \in Rows \cup {None}
  /\ screen.modal.made \in Groups \cup {None}

(* In calm times a list that waits for nothing shows what its filter        *)
(* selects of the record, unless its last reading failed or the reply to   *)
(* an action was lost (loadGateways, loadTenants); and an install command  *)
(* is shown next to the tenant it is for (AddGatewayModal).                *)
ShownIsTrue ==
  /\ backend.calm /\ wires = <<>> /\ ~screen.failed /\ ~backend.lost =>
       screen.rows = Record(screen.filter)
  /\ backend.calm /\ screen.modal.made # None => screen.modal.made = screen.modal.group

(* WorkersPage: an installation and a disconnection or deletion are never   *)
(* under way together, and the page waits for an action exactly as long as *)
(* its request or the reading after it is under way (runConfirmedAction,   *)
(* installDocker).                                                         *)
OneActionAtATime ==
  /\ ~(screen.acting /\ screen.installing # None)
  /\ screen.acting \/ screen.installing # None <=>
       \E i \in DOMAIN wires : \/ wires[i].op \in {"delete", "disconnect", "install"}
                               \/ wires[i].op = "list" /\ wires[i].row \in Rows

(* The list of workers is that of the server again.                         *)
UpToDate == Page = "workers" => screen.rows = Record(None)
=============================================================================
