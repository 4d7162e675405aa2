----------------------------- MODULE RecordPages -----------------------------
(***************************************************************************)
(* Pages about one record: the settings of the console                     *)
(* (pages/admin/ConsoleSettingsPage.tsx), a tenant with and without a      *)
(* description to edit (WorkerTenantDetailPage.tsx, TenantDetailPage.tsx,  *)
(* hooks/usePeriodicTenantVerify.ts) and the metrics of a host             *)
(* (components/metrics/ResourceMetricsPanel.tsx).  A page that refreshes   *)
(* itself does so whatever is typed or under way.                          *)
(***************************************************************************)
EXTENDS Naturals, Sequences

CONSTANTS Texts,   \* what the form's text field may hold
          Tokens,  \* the secrets of the settings
          Blank,   \* an empty field, and a record for downloads that was not made
          MaxActs, MaxWires

VARIABLES
  screen,   \* what the page holds
  backend,  \* the record, and whether times are calm: requests keep their order, and
            \* the operator waits for one action before typing or asking for another
  wires     \* requests under way, oldest first

vars == <<screen, backend, wires>>

Page == screen.page
Refreshed == Page # "settings"
HasForm == Page \in {"settings", "workertenant"}
Records == [text : Texts \cup {Blank}, token : Tokens \cup {Blank}, checked : Nat, dns : Texts \cup {Blank}]
Nothing == [text |-> Blank, token |-> Blank, checked |-> 0, dns |-> Blank]
Request(op, chain, text, token) ==
  [op |-> op, chain |-> chain, text |-> text, token |-> token, served |-> FALSE, ok |-> FALSE,
   data |-> Nothing]
Ask(op, chain) ==
  Append(wires, IF op = "patch" THEN Request(op, chain, screen.draft.text, screen.draft.token)
                ELSE Request(op, chain, Blank, Blank))
Without(i) == [j \in 1..(Len(wires) - 1) |-> IF j < i THEN wires[j] ELSE wires[j + 1]]

-----------------------------------------------------------------------------
(* The server.                                                              *)

\* Mutant: the field of the secret is saved whether or not something is in it.
SavesTheBlank(r) == [backend.record EXCEPT !.text = r.text, !.token = r.token]

\* The page leaves a blank secret out of what it sends.
Patched(r) ==
  [backend.record EXCEPT !.text = r.text, !.token = IF r.token = Blank THEN @ ELSE r.token]

\* A secret can be verified if there is one; a tenant's stack is looked at later.
Outcome(r) ==
  LET old == backend.record
  IN  CASE r.op = "get" -> old
        [] r.op = "patch" -> Patched(r)
        [] r.op = "verify" -> IF Page = "settings" THEN [old EXCEPT !.checked = @ + 1] ELSE old
        [] r.op = "sync" -> [old EXCEPT !.dns = old.text]
        [] r.op = "bootstrap" -> old

Serve(i) ==
  LET r == wires[i]
      ok == r.op = "verify" /\ Page = "settings" => backend.record.token # Blank
      new == IF ok THEN Outcome(r) ELSE backend.record
  IN  /\ ~r.served
      /\ backend.calm => \A j \in 1..(i - 1) : wires[j].served
      /\ backend' = [backend EXCEPT !.record = new]
      /\ wires' = [wires EXCEPT ![i].served = TRUE, ![i].ok = ok, ![i].data = new]
      /\ UNCHANGED screen

Lose(i) ==
  /\ backend.losses > 0 /\ (~wires[i].served \/ wires[i].ok)
  /\ wires' = [wires EXCEPT ![i].served = TRUE, ![i].ok = FALSE]
  /\ backend' = [backend EXCEPT !.losses = @ - 1, !.lost = TRUE]
  /\ UNCHANGED screen

\* A heartbeat, a health check or the result of a command changes the record.
AgentChanges ==
  /\ Refreshed /\ backend.changes > 0
  /\ backend' = [backend EXCEPT !.record.checked = @ + 1, !.changes = @ - 1]
  /\ UNCHANGED <<screen, wires>>

-----------------------------------------------------------------------------
(* Replies.                                                                 *)

\* Mutant: the fields keep what they hold when the record is read again.
DraftStays(data) == [screen EXCEPT !.shown = data, !.typed = FALSE]

\* The fields follow the record that was read.
Loaded(data) ==
  [screen EXCEPT !.shown = data, !.typed = FALSE,
                 !.draft = IF HasForm THEN [text |-> data.text, token |-> Blank] ELSE @]

\* After a save the settings keep their text fields, and lose the secret typed meanwhile.
Saved(data) ==
  [screen EXCEPT !.shown = data,
                 !.draft = [text |-> IF Page = "settings" THEN @.text ELSE data.text,
                            token |-> Blank]]

\* Mutant: an action that failed is still under way for its button.
BusyUnlessDone(r) == IF r.ok THEN screen.busy \ {r.chain} ELSE screen.busy

\* The button of an action that ended, well or not, is back.
BusyAfter(r) == screen.busy \ {r.chain}

Loud(chain) == chain \in {"load", "verify", "sync"}

\* What is asked next: synchronising saves first, and what went well is read again.
Follow(r) ==
  CASE r.ok /\ r.op = "patch" /\ r.chain = "sync" -> <<"sync">>
    [] r.ok /\ r.op \in {"verify", "sync", "bootstrap"} /\ r.chain # "tick" -> <<"get">>
    [] OTHER -> <<>>

\* A refresh that fails changes nothing, but for the metrics that say so.
Shown(r) ==
  LET read == r.op = "get"
      s == CASE read /\ r.ok -> Loaded(r.data)
             [] r.op = "patch" /\ r.ok -> Saved(r.data)
             [] OTHER -> screen
      ends == Follow(r) = <<>>
      blocks == read /\ (Loud(r.chain) \/ Page = "metrics")
  IN  [s EXCEPT !.loading = IF Follow(r) = <<"get">> /\ Loud(r.chain) THEN TRUE
                            ELSE @ /\ ~(read /\ Loud(r.chain)),
                !.failed = IF blocks THEN ~r.ok ELSE @,
                !.busy = IF ends THEN BusyAfter(r) ELSE @]

Reply(i) ==
  LET r == wires[i]
  IN  /\ r.served
      /\ backend.calm => i = 1
      /\ screen' = Shown(r)
      /\ wires' = Without(i) \o [j \in DOMAIN Follow(r) |->
                                  Request(Follow(r)[j], r.chain, Blank, Blank)]
      /\ UNCHANGED backend

-----------------------------------------------------------------------------
(* The operator, and the clock.                                             *)

UnderWay(op, chain) == \E j \in DOMAIN wires : wires[j].op = op /\ wires[j].chain = chain
Visible == ~screen.loading /\ (Page = "settings" \/ ~screen.failed)
Acts == screen.acts < MaxActs /\ UNCHANGED backend /\ (backend.calm => screen.busy = {})
Acted(s) == screen' = [s EXCEPT !.acts = screen.acts + 1]

Type(text) ==
  /\ Acts /\ Visible /\ HasForm /\ text # screen.draft.text
  /\ Acted([screen EXCEPT !.draft.text = text, !.typed = TRUE])
  /\ UNCHANGED wires

TypeToken(token) ==
  /\ Acts /\ Visible /\ Page = "settings" /\ token # screen.draft.token
  /\ Acted([screen EXCEPT !.draft.token = token, !.typed = TRUE])
  /\ UNCHANGED wires

\* Each button looks at its own action only.  When the settings could not be read, the
\* fields are empty and can be saved all the same.
Press(chain, op) ==
  /\ Acts /\ Len(wires) < MaxWires /\ Visible /\ chain \notin screen.busy
  /\ Acted([screen EXCEPT !.busy = @ \cup {chain}, !.typed = @ /\ op # "patch"])
  /\ wires' = Ask(op, chain)

HandleSave == HasForm /\ Press("save", "patch")
HandleVerifyToken == Page = "settings" /\ screen.shown.token # Blank /\ Press("verify", "verify")
HandleSyncDownloadDns ==
  Page = "settings" /\ screen.draft.text # Blank /\ Press("sync", "patch")
RunBootstrap == Page \in {"tenant", "workertenant"} /\ Press("bootstrap", "bootstrap")

Retry ==
  /\ Acts /\ Page \in {"tenant", "workertenant"} /\ screen.failed /\ ~screen.loading
  /\ Acted([screen EXCEPT !.loading = TRUE, !.failed = FALSE])
  /\ wires' = Ask("get", "load")

\* Mutant: the refresh ends with the first thing the operator does.
TickUntilActed ==
  /\ Refreshed /\ (Page = "metrics" \/ Visible) /\ ~UnderWay("get", "tick") /\ screen.acts = 0
  /\ wires' = Ask("get", "tick")
  /\ UNCHANGED <<screen, backend>>

\* The intervals run once the tenant is there; those of the metrics from the start.
Tick ==
  /\ Refreshed /\ (Page = "metrics" \/ Visible) /\ ~UnderWay("get", "tick")
  /\ wires' = Ask("get", "tick")
  /\ UNCHANGED <<screen, backend>>

\* A tenant's stack is verified now and then; nobody looks at the reply.
VerifyTick ==
  /\ Page \in {"tenant", "workertenant"} /\ Visible /\ ~UnderWay("verify", "tick")
  /\ wires' = Ask("verify", "tick")
  /\ UNCHANGED <<screen, backend>>

\* What waits longest is answered in the end.
Oldest == wires # <<>> /\ (Serve(1) \/ Reply(1))

Next ==
  \/ \E i \in DOMAIN wires : Serve(i) \/ Reply(i)
  \/ AgentChanges \/ Tick \/ VerifyTick \/ Retry
  \/ HandleSave \/ HandleVerifyToken \/ HandleSyncDownloadDns \/ RunBootstrap
  \/ \E i \in DOMAIN wires : Lose(i)
  \/ \E text \in Texts : Type(text)
  \/ \E token \in Tokens \cup {Blank} : TypeToken(token)

Init ==
  /\ \E page \in {"settings", "workertenant", "tenant", "metrics"}, calm \in BOOLEAN,
        text \in Texts, token \in Tokens \cup {Blank} :
       LET record == [text |-> text, token |-> token, checked |-> 0, dns |-> Blank]
       IN  /\ page # "settings" => token = Blank
           /\ backend = [record |-> record, calm |-> calm, lost |-> FALSE,
                         changes |-> IF calm THEN 0 ELSE 1, losses |-> IF calm THEN 1 ELSE 0]
           /\ screen = [page |-> page, shown |-> record, typed |-> FALSE, loading |-> TRUE,
                        draft |-> [text |-> Blank, token |-> Blank], failed |-> FALSE,
                        busy |-> {}, acts |-> 0]
  /\ wires = <<Request("get", "load", Blank, Blank)>>

-----------------------------------------------------------------------------
(* Properties.                                                              *)

(* The record and what the page holds of it are of their types.             *)
TypeOK ==
  /\ backend.record \in Records /\ screen.shown \in Records
  /\ screen.busy \subseteq {"save", "verify", "sync", "bootstrap"}

(* In calm times without a failure, a page that waits for nothing shows the *)
(* record, its fields hold what is on record unless something was typed    *)
(* since, and the record for downloads was last made for the name saved    *)
(* with it (loadTenant, handleSave, handleSyncDownloadDns); and an action  *)
(* is under way exactly as long as its button says so, in any order.       *)
ShownIsTrue ==
  /\ backend.calm /\ ~backend.lost /\ wires = <<>> =>
       /\ screen.shown = backend.record
       /\ HasForm /\ ~screen.typed =>
            screen.draft = [text |-> backend.record.text, token |-> Blank]
  /\ screen.busy = {wires[i].chain : i \in DOMAIN wires} \ {"load", "tick"}

(* The secret on record goes only when another takes its place ("leave      *)
(* blank to keep current").                                                *)
SecretKeptStep ==
  backend'.record.token # backend.record.token => backend'.record.token \in Tokens

(* A page that refreshes itself shows the record in the end, unless it      *)
(* could not be opened.                                                     *)
UpToDate == Refreshed => screen.failed \/ screen.shown = backend.record
=============================================================================
