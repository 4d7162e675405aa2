------------------------------ MODULE UsersPage ------------------------------
(***************************************************************************)
(* The page on which an administrator manages users and their grants       *)
(* (pages/admin/UsersPage.tsx), with the views behind it                   *)
(* (accounts/admin_views.py).  The grants of the selected user, and the    *)
(* resources of the selected type, are read in effects after the selection *)
(* changes; a reply changes the page whatever is selected by then.  The    *)
(* server takes up requests in any order, and replies may overtake each    *)
(* other.                                                                  *)
(*                                                                         *)
(* Who may do what with which resource (accounts/scoping.py,               *)
(* accounts/services/grants.py): an administrator may do everything, an    *)
(* editor what a grant says on a worker, on the tenants of it and on their *)
(* gateways, a viewer may look at the tenants a grant names.  Grants refer *)
(* to resources by an identifier only, and to a role by what it was when   *)
(* they were given.                                                        *)
(***************************************************************************)
EXTENDS Naturals, Sequences

CONSTANTS Workers, ManagedTenants, Gateways,  \* identifiers, all different
          WorkerOf,   \* the worker of a tenant, or "none"
          TenantOf,   \* the tenant of a gateway
          Accts,  \* users that an administrator manages
          Later,  \* those of them that do not exist yet
          MaxActs, \* what the administrator does at most, and without waiting
          MaxWires

VARIABLES
  screen,   \* what the page holds
  backend,  \* users, grants and resources on record
  wires     \* requests under way, oldest first

vars == <<screen, backend, wires>>

-----------------------------------------------------------------------------
(* Grants and what they allow.                                              *)

Roles == {"admin", "editor", "viewer"}
ScopeTypes == {"tenant", "worker", "gateway"}
AccessLevels == {"view", "edit"}
Resources == Workers \cup ManagedTenants \cup Gateways
Grants(users) == [user : users, type : ScopeTypes, id : Resources, level : AccessLevels]

\* The resources of a type, and the type of one.
OfType(type) ==
  CASE type = "worker" -> Workers [] type = "tenant" -> ManagedTenants [] OTHER -> Gateways

SameKey(g, h) == g.user = h.user /\ g.type = h.type /\ g.id = h.id

Highest(levels) ==
  IF levels = {} THEN "none" ELSE IF "edit" \in levels THEN "edit" ELSE "view"

Direct(grants, user, type, id) ==
  {g.level : g \in {h \in grants : h.user = user /\ h.type = type /\ h.id = id}}

\* Mutant: what a gateway inherits stops at its tenant.
OneGeneration(grants, user, type, id) ==
  CASE type = "tenant" -> Direct(grants, user, "worker", WorkerOf[id])
    [] type = "gateway" -> Direct(grants, user, "tenant", TenantOf[id])
    [] OTHER -> {}

Inherited(grants, user, type, id) ==
  CASE type = "tenant" -> Direct(grants, user, "worker", WorkerOf[id])
    [] type = "gateway" -> Direct(grants, user, "tenant", TenantOf[id])
                             \cup Direct(grants, user, "worker", WorkerOf[TenantOf[id]])
    [] OTHER -> {}

EffectiveAccess(role, grants, user, type, id) ==
  LET direct == Direct(grants, user, type, id)
  IN  CASE role = "admin" -> "edit"
        [] role = "viewer" -> IF type = "tenant" /\ "view" \in direct THEN "view" ELSE "none"
        [] OTHER -> Highest(direct \cup Inherited(grants, user, type, id))

GrantedIds(grants, user, type) == {g.id : g \in {h \in grants : h.user = user /\ h.type = type}}

\* What a list shows: the filter of the query set.
Listed(role, grants, user, type, existing) ==
  LET ids(t) == GrantedIds(grants, user, t)
      worked == {t \in ManagedTenants : WorkerOf[t] \in ids("worker")}
      here == existing \cap OfType(type)
  IN  CASE role = "admin" -> here
        [] role = "viewer" -> IF type = "tenant" THEN here \cap ids("tenant") ELSE {}
        [] role = "editor" ->
             here \cap (CASE type = "worker" -> ids("worker")
                          [] type = "tenant" -> ids("tenant") \cup worked
                          [] type = "gateway" ->
                               ids("gateway")
                                 \cup {g \in Gateways : TenantOf[g] \in ids("tenant") \cup worked})

\* Workers and tenants are looked up in the list; the viewer is denied the others anyway.
MayOpen(role, grants, user, type, id, existing) ==
  /\ type = "gateway" \/ id \in Listed(role, grants, user, type, existing)
  /\ role = "viewer" => type = "tenant"
  /\ EffectiveAccess(role, grants, user, type, id) # "none"

\* Mutant: nobody looks whether the resource exists.
AnyScope(type, id, existing) == TRUE

ScopeExists(type, id, existing) == id \in existing \cap OfType(type)

ValidGrant(role, g, existing) ==
  /\ role # "admin"
  /\ role = "viewer" => g.type = "tenant" /\ g.level = "view"
  /\ ScopeExists(g.type, g.id, existing)

\* A grant on the same resource takes the new level.
CreateGrant(grants, g) == {h \in grants : ~SameKey(g, h)} \cup {g}

-----------------------------------------------------------------------------
(* Requests.                                                                *)

Nobody == "none"
Request(op, user, type, id, level) ==
  [op |-> op, user |-> user, type |-> type, id |-> id, level |-> level, served |-> FALSE,
   ok |-> FALSE, data |-> {}]
Ask(op, user, type, id, level) == Append(wires, Request(op, user, type, id, level))
AskFor(op, user) == Ask(op, user, "tenant", Nobody, "view")
Without(i) == [j \in 1..(Len(wires) - 1) |-> IF j < i THEN wires[j] ELSE wires[j + 1]]
GrantsOf(user) == {g \in backend.grants : g.user = user}

-----------------------------------------------------------------------------
(* The server.                                                              *)

\* Requests for what is not there any more fail.
Outcome(r) ==
  LET known == r.user \in backend.users
      grant == [user |-> r.user, type |-> r.type, id |-> r.id, level |-> r.level]
      result(ok, data, users, grants) ==
        [ok |-> ok, data |-> data,
         backend |-> [backend EXCEPT !.users = users, !.grants = grants]]
      same(ok, data) == result(ok, data, backend.users, backend.grants)
  IN  CASE r.op = "users" -> same(TRUE, backend.users)
        [] r.op = "grants" -> same(known, GrantsOf(r.user))
        [] r.op = "options" -> same(TRUE, backend.existing \cap OfType(r.type))
        [] r.op = "adduser" ->
             result(~known, {r.user}, backend.users \cup {r.user}, backend.grants)
        [] r.op = "deluser" ->
             result(known, {}, backend.users \ {r.user}, backend.grants \ GrantsOf(r.user))
        [] r.op = "grant" ->
             IF known /\ ValidGrant(backend.role[r.user], grant, backend.existing)
             THEN result(TRUE, {grant}, backend.users, CreateGrant(backend.grants, grant))
             ELSE same(FALSE, {})
        [] r.op = "revoke" ->
             result(\E g \in backend.grants : SameKey(g, grant), {}, backend.users,
                    {g \in backend.grants : ~SameKey(g, grant)})

Serve(i) ==
  LET o == Outcome(wires[i])
  IN  /\ ~wires[i].served
      /\ backend.ordered => \A j \in 1..(i - 1) : wires[j].served
      /\ wires' = [wires EXCEPT ![i].served = TRUE, ![i].ok = o.ok, ![i].data = o.data]
      /\ backend' = o.backend
      /\ UNCHANGED screen

\* Another administrator changes a role, or a resource goes away: its grants stay.
ElsewhereChanges ==
  /\ backend.others > 0
  /\ \/ \E u \in backend.users, r \in Roles \ {"admin"} :
          r # backend.role[u] /\ backend' = [backend EXCEPT !.role[u] = r, !.others = @ - 1]
     \/ \E x \in backend.existing :
          backend' = [backend EXCEPT !.existing = @ \ {x}, !.others = @ - 1]
  /\ UNCHANGED <<screen, wires>>

-----------------------------------------------------------------------------
(* Replies.                                                                 *)

\* After the options changed, the selected one is one of them, or none.
Settled(options, id) ==
  CASE options = {} -> Nobody
    [] id \in options -> id
    [] OTHER -> CHOOSE x \in options : TRUE

\* Mutant: a grant that was created elsewhere in the page is not shown.
GrantOfSelected(r) == [screen EXCEPT !.submitting = FALSE]

\* The row is added whether or not the list holds the grant with another level.
GrantCreated(r) ==
  [screen EXCEPT !.submitting = FALSE, !.grants = @ \cup r.data]

GrantRemoved(r) ==
  [screen EXCEPT !.grants = {g \in @ : ~(g.user = r.user /\ g.type = r.type /\ g.id = r.id)}]

UserCreated(r) == [screen EXCEPT !.submitting = FALSE, !.users = @ \cup r.data]

\* Mutant: only the selection goes, not the row.
RowStays(r) ==
  [screen EXCEPT !.selected = IF r.id = r.user THEN Nobody ELSE @,
                 !.grants = IF r.id = r.user THEN {} ELSE @]

\* The selection goes if it was the user's when the button was pressed.
UserDeleted(r) ==
  [screen EXCEPT !.users = @ \ {r.user},
                 !.selected = IF r.id = r.user THEN Nobody ELSE @,
                 !.grants = IF r.id = r.user THEN {} ELSE @]

\* What changes the record rather than reads it.
Changing == {"adduser", "deluser", "grant", "revoke"}

Shown(r) ==
  CASE r.op = "users" -> [screen EXCEPT !.loading = FALSE, !.users = IF r.ok THEN r.data ELSE @]
    [] r.op = "grants" ->
         [screen EXCEPT !.grants = IF r.ok THEN r.data ELSE {}, !.grantsLoading = FALSE]
    [] r.op = "options" ->
         [screen EXCEPT !.options = r.data, !.scopeId = Settled(r.data, @)]
    [] r.op \in Changing /\ ~r.ok ->
         [screen EXCEPT !.submitting = @ /\ r.op \in {"deluser", "revoke"}]
    [] r.op = "adduser" /\ r.ok -> UserCreated(r)
    [] r.op = "deluser" /\ r.ok -> UserDeleted(r)
    [] r.op = "grant" /\ r.ok -> GrantCreated(r)
    [] r.op = "revoke" /\ r.ok -> GrantRemoved(r)

Reply(i) ==
  /\ wires[i].served
  /\ backend.ordered => i = 1
  /\ screen' = Shown(wires[i]) /\ wires' = Without(i)
  /\ UNCHANGED backend

-----------------------------------------------------------------------------
(* The administrator.                                                       *)

Acts == screen.acts < MaxActs /\ Len(wires) < MaxWires /\ ~screen.loading /\ UNCHANGED backend
Acted(s) == screen' = [s EXCEPT !.acts = screen.acts + 1]

Select(u) ==
  /\ Acts /\ u \in screen.users \ {screen.selected}
  /\ Acted([screen EXCEPT !.selected = u, !.grantsLoading = TRUE])
  /\ wires' = AskFor("grants", u)

SelectType(type) ==
  /\ Acts /\ screen.selected \in screen.users /\ type # screen.type
  /\ Acted([screen EXCEPT !.type = type])
  /\ wires' = Ask("options", Nobody, type, Nobody, "view")

SelectScope(id) ==
  /\ Acts /\ screen.selected \in screen.users
  /\ id \in screen.options \ {screen.scopeId}
  /\ ~\E j \in DOMAIN wires : wires[j].op = "options"
  /\ Acted([screen EXCEPT !.scopeId = id])
  /\ UNCHANGED wires

HandleCreateUser(u) ==
  /\ Acts /\ u \in Later \ screen.users /\ ~screen.submitting
  /\ Acted([screen EXCEPT !.submitting = TRUE])
  /\ wires' = AskFor("adduser", u)

HandleDeleteUser(u) ==
  /\ Acts /\ u \in screen.users
  /\ Acted(screen)
  /\ wires' = Ask("deluser", u, "tenant", screen.selected, "view")

\* The form is there while the options of another type are read.
HandleCreateGrant(level) ==
  /\ Acts /\ screen.selected \in screen.users /\ ~screen.submitting
  /\ screen.options # {} /\ screen.scopeId # Nobody
  /\ Acted([screen EXCEPT !.submitting = TRUE])
  /\ wires' = Ask("grant", screen.selected, screen.type, screen.scopeId, level)

HandleDeleteGrant(g) ==
  /\ Acts /\ screen.selected \in screen.users /\ ~screen.grantsLoading
  /\ g \in screen.grants
  /\ Acted(screen)
  /\ wires' = Ask("revoke", g.user, g.type, g.id, g.level)

Next ==
  \/ ElsewhereChanges
  \/ \E i \in DOMAIN wires : Serve(i) \/ Reply(i)
  \/ \E u \in Accts : Select(u) \/ HandleCreateUser(u) \/ HandleDeleteUser(u)
  \/ \E type \in ScopeTypes : SelectType(type)
  \/ \E id \in Resources : SelectScope(id)
  \/ \E level \in AccessLevels : HandleCreateGrant(level)
  \/ \E g \in screen.grants : HandleDeleteGrant(g)

Init ==
  /\ screen = [users |-> {}, loading |-> TRUE, selected |-> Nobody, grants |-> {},
               grantsLoading |-> FALSE, type |-> "tenant", options |-> {}, scopeId |-> Nobody,
               submitting |-> FALSE, acts |-> 0]
  /\ \E ordered \in BOOLEAN, others \in 0..1, granted \in SUBSET Grants(Accts \ Later) :
       /\ \A g, h \in granted : g = h
       /\ \A g \in granted : g.type = "worker" /\ ValidGrant("editor", g, Resources)
       /\ ordered => others = 0
       /\ backend = [users |-> Accts \ Later, grants |-> granted, existing |-> Resources,
                     role |-> [u \in Accts |-> IF u \in Later THEN "viewer" ELSE "editor"],
                     ordered |-> ordered, others |-> others]
  /\ wires = <<Request("users", Nobody, "tenant", Nobody, "view"),
               Request("options", Nobody, "tenant", Nobody, "view")>>

-----------------------------------------------------------------------------
(* Properties.                                                              *)

(* The page holds what it should, and a grant on record names one level.    *)
TypeOK ==
  /\ screen.users \subseteq Accts /\ screen.grants \subseteq Grants(Accts)
  /\ screen.selected \in Accts \cup {Nobody} /\ screen.options \subseteq Resources
  /\ backend.grants \subseteq Grants(Accts) /\ backend.users \subseteq Accts

(* A list shows a user what the user may open, and nothing else, unless     *)
(* the user became a viewer and still has a grant to edit (build_scope_q,  *)
(* effective_access).                                                      *)
ListedCanBeOpened ==
  \A u \in backend.users, type \in ScopeTypes :
    LET role == backend.role[u]
    IN  (role = "viewer" => \A g \in GrantsOf(u) : g.level = "view") =>
          \A id \in backend.existing \cap OfType(type) :
            LET may == MayOpen(role, backend.grants, u, type, id, backend.existing)
            IN  /\ id \in Listed(role, backend.grants, u, type, backend.existing) => may
                /\ EffectiveAccess(role, backend.grants, u, type, id) # "none" => may

(* Every grant names a resource of its type, although the page may send the *)
(* identifier of another type while the options are read                   *)
(* (validate_scope_exists, handleCreateGrant).                             *)
GrantsNameTheirType ==
  \A g \in backend.grants :
    /\ g.id \in OfType(g.type)
    /\ \A h \in backend.grants : SameKey(g, h) => g = h

(* When the server and the network keep the order of requests, a page that  *)
(* waits for nothing lists the users on record, and shows the grants of the *)
(* selected one that are on record, each at its present level at least     *)
(* (loadGrants, handleCreateGrant, handleDeleteGrant, handleDeleteUser).   *)
RestingPageShowsTheRecord ==
  backend.ordered /\ wires = <<>> =>
    /\ screen.users = backend.users
    /\ screen.selected \in screen.users =>
         /\ GrantsOf(screen.selected) \subseteq screen.grants
         /\ \A g \in screen.grants : \E h \in GrantsOf(screen.selected) : SameKey(g, h)
=============================================================================
