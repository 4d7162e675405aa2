--------------------------- MODULE MonitoringPanel ---------------------------
(***************************************************************************)
(* The tables of a gateway's monitoring panel                              *)
(* (frontend/src/components/gateways/GatewayMonitoringPanel.tsx): hosts,   *)
(* alerts and findings, each with its page and its filters, read again by  *)
(* effects when one of them changes and by the live poll every ten         *)
(* seconds.  No reply is ever dropped: the one that arrives last is shown. *)
(* A click on Refresh or on one of the scans waits for requests of its own *)
(* first; then it reads the tables for the pages and filters of the time   *)
(* of the click, which is what its closure holds.                          *)
(***************************************************************************)
EXTENDS Integers, Sequences, SequencesExt

CONSTANTS Tables,       \* the tables of the panel: they share nothing but the live poll
          Filters,      \* the values of a table's filters
          NoFilter,
          Pages,        \* how many pages each table has
          MaxUnderWay,  \* bound: requests of a table under way
          MaxChanges,   \* bound: clicks of the operator, and changes of the data
          MaxFailures   \* bound: requests that fail

VARIABLES
  tables,      \* each table's page, filter, requests under way and rows
  data,        \* what the server would list now
  vulnEnabled, \* policy.vuln_scan_enabled
  windows,     \* timers of earlier scans that will end the live poll
  pollActive,  \* scanPollActive
  clicks,      \* the refresh and the scan that are under way
  changes, failures,
  ordered      \* environment: replies come in the order of their requests

vars == <<tables, data, vulnEnabled, windows, pollActive, clicks, changes, failures, ordered>>

Keys == [page : 1..Pages, filter : Filters]
Buttons == {"refresh", "scan"}   \* refreshing; scanningNetwork or rescanningVulns
Kinds == {"refresh", "network", "vulns"}
\* A request: what it asks for, the click it belongs to, and whether the table
\* had already gone on from there when it was made.
Requests == [key : Keys, by : Buttons \cup {"page"}, late : BOOLEAN]
\* What the rows of a table were listed for, and when.
NoRows == [key |-> [page |-> 0, filter |-> NoFilter], late |-> FALSE, data |-> 0]
Key(t) == [page |-> tables[t].page, filter |-> tables[t].filter]
Listed(request, d) == [key |-> request.key, late |-> request.late, data |-> d]
NoClick == [at |-> "idle", kind |-> "refresh", keys |-> [t \in Tables |-> NoRows.key]]

TypeOK ==
  /\ \A t \in Tables :
       /\ tables[t].page \in 1..Pages
       /\ tables[t].typed \in Filters /\ tables[t].filter \in Filters
       /\ tables[t].underWay \in Seq(Requests) /\ Len(tables[t].underWay) <= MaxUnderWay + 1
       /\ tables[t].loading \in BOOLEAN
       /\ tables[t].rows \in {NoRows} \cup [key : Keys, late : BOOLEAN, data : 0..MaxChanges]
  /\ \A b \in Buttons :
       clicks[b] \in {NoClick} \cup [at : {"post", "policy"}, kind : Kinds, keys : [Tables -> Keys]]
  /\ data \in 0..MaxChanges
  /\ vulnEnabled \in BOOLEAN /\ pollActive \in BOOLEAN /\ ordered \in BOOLEAN
  /\ windows \in 0..MaxChanges
  /\ changes \in 0..MaxChanges /\ failures \in 0..MaxFailures

Fresh == [page |-> 1, typed |-> NoFilter, filter |-> NoFilter,
          underWay |-> << [key |-> [page |-> 1, filter |-> NoFilter], by |-> "page", late |-> FALSE] >>,
          loading |-> TRUE, rows |-> NoRows]

Init ==
  /\ tables = [t \in Tables |-> Fresh]
  /\ data = 0
  /\ vulnEnabled \in BOOLEAN
  /\ windows = 0 /\ pollActive = FALSE /\ clicks = [b \in Buttons |-> NoClick]
  /\ changes = 0 /\ failures = 0
  /\ ordered \in BOOLEAN

-----------------------------------------------------------------------------
\* loadHosts, loadAlerts, loadFindings up to the await.
LoadFor(table, key, by) ==
  [table EXCEPT !.underWay = Append(@, [key |-> key, by |-> by,
                                        late |-> key # [page |-> table.page, filter |-> table.filter]]),
                !.loading = TRUE]

\* The effects and the poll load for the table's present key.
Load(table) == LoadFor(table, [page |-> table.page, filter |-> table.filter], "page")

HasRoom(t) == Len(tables[t].underWay) < MaxUnderWay

Act ==
  /\ changes < MaxChanges
  /\ changes' = changes + 1

\* A debounced text filter: the new text waits for 400 ms without another.
Type(t, filter) ==
  /\ Act
  /\ filter # tables[t].typed
  /\ tables' = [tables EXCEPT ![t].typed = filter]
  /\ UNCHANGED <<data, vulnEnabled, windows, pollActive, clicks, failures, ordered>>

\* Faulty variant: the page is reset first, and the load for the old page comes last.
FilterEffectsSwapped(table) ==
  IF table.page = 1 THEN Load(table)
  ELSE [Load([Load([table EXCEPT !.page = 1]) EXCEPT !.page = table.page]) EXCEPT !.page = 1]

(* The effects of a new filter: the load effect runs with the old page; the *)
(* page effect then sets page 1, and if that is a change the load effect   *)
(* runs once more.                                                         *)
FilterEffects(table) ==
  IF table.page = 1 THEN Load(table) ELSE Load([Load(table) EXCEPT !.page = 1])

Debounced(t) ==
  /\ tables[t].typed # tables[t].filter /\ HasRoom(t)
  /\ tables' = [tables EXCEPT ![t] = FilterEffects([tables[t] EXCEPT !.filter = tables[t].typed])]
  /\ UNCHANGED <<data, vulnEnabled, windows, pollActive, clicks, changes, failures, ordered>>

\* Faulty variant: the button after the last page is not disabled.
TurnBeyond(t, page) ==
  /\ Act
  /\ ~tables[t].loading /\ HasRoom(t)
  /\ tables' = [tables EXCEPT ![t] = Load([tables[t] EXCEPT !.page = @ + 1])]
  /\ UNCHANGED <<data, vulnEnabled, windows, pollActive, clicks, failures, ordered>>

\* The pager is disabled while the table is loading.
TurnPage(t, page) ==
  /\ Act
  /\ ~tables[t].loading /\ HasRoom(t)
  /\ page \in {tables[t].page - 1, tables[t].page + 1} \cap (1..Pages)
  /\ tables' = [tables EXCEPT ![t] = Load([tables[t] EXCEPT !.page = page])]
  /\ UNCHANGED <<data, vulnEnabled, windows, pollActive, clicks, failures, ordered>>

\* Which of the requests under way is answered next.
Next1(t) == IF ordered THEN {1} \cap DOMAIN tables[t].underWay ELSE DOMAIN tables[t].underWay

\* The first reply to arrive ends the loading mark, whichever it is.
Reply(t, i) ==
  /\ i \in Next1(t)
  /\ tables' = [tables EXCEPT ![t].underWay = RemoveAt(@, i),
                              ![t].rows = Listed(tables[t].underWay[i], data),
                              ![t].loading = FALSE]
  /\ UNCHANGED <<data, vulnEnabled, windows, pollActive, clicks, changes, failures, ordered>>

\* "Table-level errors are non-fatal during polling."
ReplyFails(t, i) ==
  /\ i \in Next1(t) /\ failures < MaxFailures
  /\ failures' = failures + 1
  /\ tables' = [tables EXCEPT ![t].underWay = RemoveAt(@, i), ![t].loading = FALSE]
  /\ UNCHANGED <<data, vulnEnabled, windows, pollActive, clicks, changes, ordered>>

-----------------------------------------------------------------------------
(* The live poll.                                                          *)

LiveWhileScanning == pollActive
Live == vulnEnabled \/ pollActive

\* pollLiveData: all tables are read, each for its present key.
Poll ==
  /\ Live
  /\ \A t \in Tables : HasRoom(t)
  /\ tables' = [t \in Tables |-> Load(tables[t])]
  /\ UNCHANGED <<data, vulnEnabled, windows, pollActive, clicks, changes, failures, ordered>>

-----------------------------------------------------------------------------
(* The buttons.                                                            *)

\* A button is busy until the tables it has asked for are there.
Asked(b) == {t \in Tables : \E i \in DOMAIN tables[t].underWay : tables[t].underWay[i].by = b}
Busy(b) == clicks[b] # NoClick \/ Asked(b) # {}

\* refresh, scanNetworkNow, rescanVulnsNow: the closure keeps the keys.
Click(kind) ==
  /\ Act
  /\ LET b == IF kind = "refresh" THEN "refresh" ELSE "scan"
     IN  /\ ~Busy(b) /\ ~Busy("scan")
         /\ clicks' = [clicks EXCEPT ![b] =
              [at |-> IF b = "scan" THEN "post" ELSE "policy", kind |-> kind,
               keys |-> [t \in Tables |-> Key(t)]]]
  /\ UNCHANGED <<tables, data, vulnEnabled, windows, pollActive, failures, ordered>>

\* pollLiveData of the click.
ReadTables(b) ==
  /\ \A t \in Tables : HasRoom(t)
  /\ tables' = [t \in Tables |-> LoadFor(tables[t], clicks[b].keys[t], b)]
  /\ clicks' = [clicks EXCEPT ![b] = NoClick]

\* The scan is queued: the poll is switched on for a while; a network scan reads
\* the policy before the tables.
ScanQueued ==
  /\ clicks["scan"].at = "post"
  /\ pollActive' = TRUE
  /\ windows' = windows + 1
  /\ IF clicks["scan"].kind = "vulns" THEN ReadTables("scan")
     ELSE clicks' = [clicks EXCEPT !["scan"].at = "policy"] /\ UNCHANGED tables
  /\ UNCHANGED <<data, vulnEnabled, changes, failures, ordered>>

\* Whatever somebody has made of the policy meanwhile.
PolicyRead(b) ==
  /\ clicks[b].at = "policy"
  /\ vulnEnabled' \in BOOLEAN
  /\ ReadTables(b)
  /\ UNCHANGED <<data, windows, pollActive, changes, failures, ordered>>

\* A request of the click fails: a refresh reads the tables nevertheless.
ClickFails(b) ==
  /\ clicks[b] # NoClick /\ failures < MaxFailures
  /\ failures' = failures + 1
  /\ IF b = "refresh" THEN ReadTables(b)
     ELSE clicks' = [clicks EXCEPT ![b] = NoClick] /\ UNCHANGED tables
  /\ UNCHANGED <<data, vulnEnabled, windows, pollActive, changes, ordered>>

\* The timer of any earlier scan switches it off: none is ever cancelled.
WindowEnds ==
  /\ windows > 0
  /\ windows' = windows - 1
  /\ pollActive' = FALSE
  /\ UNCHANGED <<tables, data, vulnEnabled, clicks, changes, failures, ordered>>

\* ensureModules at any time, or savePolicy while no scan is being started.
PolicyChanges ==
  /\ Act
  /\ vulnEnabled' = ~vulnEnabled
  /\ UNCHANGED <<tables, data, windows, pollActive, clicks, failures, ordered>>

\* The agent reports hosts, alerts or findings.
DataChanges ==
  /\ Act
  /\ data' = data + 1
  /\ UNCHANGED <<tables, vulnEnabled, windows, pollActive, clicks, failures, ordered>>

Next ==
  \/ \E t \in Tables : \/ \E filter \in Filters : Type(t, filter)
                       \/ \E page \in 1..Pages : TurnPage(t, page)
                       \/ Debounced(t)
                       \/ \E i \in 1..(MaxUnderWay + 1) : Reply(t, i) \/ ReplyFails(t, i)
  \/ \E kind \in Kinds : Click(kind)
  \/ \E b \in Buttons : PolicyRead(b) \/ ClickFails(b)
  \/ Poll \/ ScanQueued \/ WindowEnds \/ PolicyChanges \/ DataChanges

\* Every request is answered in the end: the oldest of a table.
Oldest(t) == Reply(t, 1) \/ ReplyFails(t, 1)

Spec == Init /\ [][Next]_vars

-----------------------------------------------------------------------------
(* State predicates of the properties MCConsole checks.                    *)

\* What a click reads late, for a page or a filter the table has left, is shown too.
RestingTableShowsItsKey ==
  \A t \in Tables :
    (ordered /\ failures = 0 /\ tables[t].underWay = <<>>)
      => tables[t].rows.key = Key(t) \/ tables[t].rows.late

UpToDate ==
  (vulnEnabled \/ pollActive) =>
    \A t \in Tables : tables[t].rows.key = Key(t) /\ tables[t].rows.data = data
=============================================================================
