--------------------------- MODULE TailscaleConnect ---------------------------
(***************************************************************************)
(* The panel that reconnects a gateway to a tenant's tailnet               *)
(* (frontend/src/components/gateways/TailscaleConnectPanel.tsx): the       *)
(* tenant picker, the tree of routes to advertise (RouteSelectionTree.tsx, *)
(* lib/tailscaleConnect.ts) and the context both are drawn from, which is  *)
(* read again for every pick and, once the page has seen a scan end, for   *)
(* every change of the tenant.  Replies come back in any order.            *)
(***************************************************************************)
EXTENDS Integers, FiniteSets

CONSTANTS Tenants,        \* tenants the console offers
          GatewayTenant,  \* gateway.tenant, the tenant of a request that names none
          ReadyTenants,   \* those whose gateway keys exist (credentials_ready)
          HostsOf,        \* the live hosts a scan finds in each subnet it lists
          MaxPicks,       \* bound: tenants picked
          MaxScanEnds        \* bound: scans that end while the panel is open

Cidrs == DOMAIN HostsOf
Hosts == UNION {HostsOf[cidr] : cidr \in Cidrs}
NoTenant == "none"

VARIABLES
  context,      \* tenant_preview and the subnets of last_scan, once loaded
  fetching,     \* loading
  selected,     \* selectedTenantId
  selection,    \* selectedSubnets and selectedHosts
  asked,        \* context requests under way, counted by the tenant they name
  refreshKey,   \* scanRefreshKey: scans the page has seen end
  subnets,      \* the subnets of the gateway's last acked scan
  picks,        \* tenants picked so far
  sent          \* the tailscale_up command sent last: its tenant and routes

vars == <<context, fetching, selected, selection, asked, refreshKey, subnets, picks, sent>>

NoContext == [preview |-> NoTenant, subnets |-> {}]
CreateEmptyRouteSelection == [subnets |-> {}, hosts |-> [cidr \in Cidrs |-> {}]]
NothingSent == [tenant |-> NoTenant, routes |-> {}]

MaxAsked == 2 + 2 * MaxPicks + 2 * MaxScanEnds

TypeOK ==
  /\ context \in [preview : Tenants \cup {NoTenant}, subnets : SUBSET Cidrs]
  /\ fetching \in BOOLEAN
  /\ selected \in Tenants \cup {NoTenant}
  /\ selection \in [subnets : SUBSET Cidrs, hosts : [Cidrs -> SUBSET Hosts]]
  /\ \A cidr \in Cidrs : selection.hosts[cidr] \subseteq HostsOf[cidr]
  /\ asked \in [Tenants -> 0..MaxAsked]
  /\ refreshKey \in 0..MaxScanEnds
  /\ subnets \in SUBSET Cidrs
  /\ picks \in 0..MaxPicks
  /\ sent \in [tenant : Tenants \cup {NoTenant}, routes : SUBSET (Cidrs \cup Hosts)]

Init ==
  /\ context = NoContext
  /\ fetching = TRUE
  /\ selected = NoTenant
  /\ selection = CreateEmptyRouteSelection
  /\ asked = [t \in Tenants |-> IF t = GatewayTenant THEN 1 ELSE 0]
  /\ refreshKey = 0
  /\ subnets \in SUBSET Cidrs
  /\ picks = 0
  /\ sent = NothingSent

-----------------------------------------------------------------------------
(* The routes.                                                             *)

HasRouteSelection == selection.subnets # {} \/ \E cidr \in Cidrs : selection.hosts[cidr] # {}

\* What the tree shows ticked.
SubnetTicked(cidr) == cidr \in selection.subnets
HostTicked(cidr, host) == SubnetTicked(cidr) \/ host \in selection.hosts[cidr]

ToggleSubnet(cidr, ticked) ==
  IF ticked THEN [subnets |-> selection.subnets \cup {cidr},
                  hosts |-> [selection.hosts EXCEPT ![cidr] = {}]]
            ELSE [selection EXCEPT !.subnets = @ \ {cidr}]

ToggleHost(cidr, host, ticked) ==
  IF cidr \in selection.subnets THEN selection
  ELSE [selection EXCEPT !.hosts[cidr] = IF ticked THEN @ \cup {host} ELSE @ \ {host}]

ToggleAllSubnets(ticked) ==
  IF ticked THEN [CreateEmptyRouteSelection EXCEPT !.subnets = context.subnets]
            ELSE CreateEmptyRouteSelection

\* The subnets of the scan that are ticked, and the hosts ticked in the others.
BuildAdvertiseRoutes(listed) ==
  (selection.subnets \cap listed)
    \cup UNION {selection.hosts[cidr] : cidr \in listed \ selection.subnets}

-----------------------------------------------------------------------------
(* The context.                                                            *)

Ask(request, tenant) == [request EXCEPT ![tenant] = @ + 1]

\* loadContext(selectedTenantId || undefined)
Named == IF selected = NoTenant THEN GatewayTenant ELSE selected

\* Faulty variant: the effect always follows the tenant.
EffectUnguarded(request, tenant) ==
  IF tenant # selected THEN Ask(request, tenant) ELSE request

\* The effect on selectedTenantId, which does nothing before the first scan has ended.
EffectOnTenant(request, tenant) ==
  IF refreshKey # 0 /\ tenant # selected THEN Ask(request, tenant) ELSE request

\* Faulty variant: the reply does not say which tenant is selected.
ReplyKeepsSelected(tenant) ==
  /\ asked[tenant] > 0
  /\ context' = [preview |-> tenant, subnets |-> subnets]
  /\ asked' = [asked EXCEPT ![tenant] = @ - 1]
  /\ selection' = CreateEmptyRouteSelection
  /\ fetching' = FALSE
  /\ UNCHANGED <<selected, refreshKey, subnets, picks, sent>>

\* The context becomes that of the tenant the request named, and the selection is dropped.
ContextReply(tenant) ==
  /\ asked[tenant] > 0
  /\ context' = [preview |-> tenant, subnets |-> subnets]
  /\ selected' = tenant
  /\ asked' = EffectOnTenant([asked EXCEPT ![tenant] = @ - 1], tenant)
  /\ selection' = CreateEmptyRouteSelection
  \* the load the effect starts sets loading again
  /\ fetching' = (EffectOnTenant(asked, tenant) # asked)
  /\ UNCHANGED <<refreshKey, subnets, picks, sent>>

ContextFails(tenant) ==
  /\ asked[tenant] > 0
  /\ context' = NoContext
  /\ asked' = [asked EXCEPT ![tenant] = @ - 1]
  /\ fetching' = FALSE
  /\ UNCHANGED <<selected, selection, refreshKey, subnets, picks, sent>>

\* The button of the error page.
Retry ==
  /\ context = NoContext /\ ~fetching
  /\ asked' = Ask(asked, Named)
  /\ fetching' = TRUE
  /\ UNCHANGED <<context, selected, selection, refreshKey, subnets, picks, sent>>

\* handleTenantChange; the picker is enabled while a context is being loaded.
HandleTenantChange(tenant) ==
  /\ context # NoContext /\ tenant # selected /\ picks < MaxPicks
  /\ selected' = tenant
  /\ asked' = EffectOnTenant(Ask(asked, tenant), tenant)
  /\ fetching' = TRUE
  /\ picks' = picks + 1
  /\ UNCHANGED <<context, selection, refreshKey, subnets, sent>>

\* A scan has changed what the server knows; the page sees it end, now or never.
ScanEnds(found, seen) ==
  /\ refreshKey < MaxScanEnds
  /\ found # subnets
  /\ subnets' = found
  /\ IF seen THEN /\ refreshKey' = refreshKey + 1
                  /\ asked' = Ask(asked, Named)
                  /\ fetching' = TRUE
             ELSE UNCHANGED <<refreshKey, asked, fetching>>
  /\ UNCHANGED <<context, selected, selection, picks, sent>>

-----------------------------------------------------------------------------
Toggle ==
  /\ context # NoContext
  /\ \E ticked \in BOOLEAN :
       \/ \E cidr \in context.subnets : selection' = ToggleSubnet(cidr, ticked)
       \/ \E cidr \in context.subnets : \E host \in HostsOf[cidr] :
            ~SubnetTicked(cidr) /\ selection' = ToggleHost(cidr, host, ticked)
       \/ context.subnets # {} /\ selection' = ToggleAllSubnets(ticked)
  /\ UNCHANGED <<context, fetching, selected, asked, refreshKey, subnets, picks, sent>>

\* canSubmit and the checks of handleSubmit.
CanSubmit ==
  /\ context # NoContext /\ ~fetching
  /\ selected \in ReadyTenants
  /\ HasRouteSelection
  /\ BuildAdvertiseRoutes(context.subnets) # {}

HandleSubmit ==
  /\ CanSubmit
  /\ sent' = [tenant |-> selected, routes |-> BuildAdvertiseRoutes(context.subnets)]
  /\ UNCHANGED <<context, fetching, selected, selection, asked, refreshKey, subnets, picks>>

Next ==
  \/ \E t \in Tenants : ContextReply(t) \/ ContextFails(t) \/ HandleTenantChange(t)
  \/ \E found \in SUBSET Cidrs, seen \in BOOLEAN : ScanEnds(found, seen)
  \/ Retry \/ Toggle \/ HandleSubmit

Answer == \E t \in Tenants : ContextReply(t) \/ ContextFails(t)

Spec == Init /\ [][Next]_vars

-----------------------------------------------------------------------------
(* State and step predicates of the properties MCConsole checks.           *)

\* The host is reached through a route, its own or that of a subnet it is found in.
Reached(host, routes) ==
  host \in routes \/ \E cidr \in routes \cap Cidrs : host \in HostsOf[cidr]

(* A command carries what the screen shows when it is sent: the tenant of   *)
(* the preview, the subnets ticked, and routes that reach exactly the      *)
(* hosts shown ticked, also where the subnets of a scan overlap; a host is *)
(* sent by itself only for a subnet that is not sent.                      *)
SentAsShownStep ==
  sent' # sent =>
    /\ sent'.tenant = context.preview
    /\ sent'.routes \cap Cidrs = {cidr \in context.subnets : SubnetTicked(cidr)}
    /\ \A host \in UNION {HostsOf[cidr] : cidr \in context.subnets} :
         /\ Reached(host, sent'.routes) <=>
              \E cidr \in context.subnets : host \in HostsOf[cidr] /\ HostTicked(cidr, host)
         /\ host \in sent'.routes =>
              \E cidr \in context.subnets : host \in HostsOf[cidr] /\ ~SubnetTicked(cidr)

Settled == refreshKey # 0 \/ ~fetching
=============================================================================
