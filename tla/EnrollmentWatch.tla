--------------------------- MODULE EnrollmentWatch ---------------------------
(***************************************************************************)
(* How the console waits for a machine to enrol after it has created an    *)
(* enrolment token: the watch of the gateways page and the one of the      *)
(* workers page (frontend/src/pages/GatewaysPage.tsx, WorkersPage.tsx).    *)
(* Both poll until something new shows up or an hour-glass runs out.  A    *)
(* poll that is under way when its watch is replaced is not cancelled: its *)
(* reply is applied, and it ends whatever watch there is by then.          *)
(***************************************************************************)
EXTENDS Integers, FiniteSets

CONSTANTS Machines,     \* gateways of the tenant, or workers, that may enrol
          MaxWatches,   \* bound: tokens created on the page
          MaxPolls,     \* bound: polls of one watch under way
          MaxFailures   \* bound: requests that fail

Watches == 1..MaxWatches
NoWatch == 0
Kinds == {"gateways", "workers"}

VARIABLES
  kind,       \* which of the two pages this is
  enrolled,   \* the machines that have enrolled
  tokens,     \* tokens created: each is followed by a watch
  listing,    \* startEnrollmentWatch of the gateways page waits for its list
  watch,      \* enrollmentWatch: the current watch
  known,      \* what each watch takes for old
  polls,      \* polls under way, by the watch that sent them
  announced,  \* machines the operator was told have enrolled
  before,     \* history: the machines that had enrolled before each token
  expired,    \* history: whether an hour-glass ran out
  failures

vars == <<kind, enrolled, tokens, listing, watch, known, polls, announced, before,
          expired, failures>>

TypeOK ==
  /\ kind \in Kinds
  /\ enrolled \subseteq Machines /\ announced \subseteq Machines
  /\ tokens \in 0..MaxWatches
  /\ listing \in BOOLEAN
  /\ watch \in Watches \cup {NoWatch}
  /\ known \in [Watches -> SUBSET Machines] /\ before \in [Watches -> SUBSET Machines]
  /\ polls \in [Watches -> 0..MaxPolls]
  /\ expired \in BOOLEAN
  /\ failures \in 0..MaxFailures

Init ==
  /\ kind \in Kinds
  /\ enrolled \in SUBSET Machines
  /\ tokens = 0
  /\ listing = FALSE
  /\ watch = NoWatch
  /\ known = [w \in Watches |-> {}]
  /\ polls = [w \in Watches |-> 0]
  /\ announced = {}
  /\ before = [w \in Watches |-> {}]
  /\ expired = FALSE
  /\ failures = 0

-----------------------------------------------------------------------------
\* Setting the watch runs its effect, which polls at once.
Begin(w, old) ==
  /\ watch' = w
  /\ known' = [known EXCEPT ![w] = old]
  /\ polls' = [polls EXCEPT ![w] = 1]

\* AddGatewayModal: the token exists; the page asks for the tenant's gateways.
GatewayTokenCreated ==
  /\ kind = "gateways" /\ tokens < MaxWatches /\ ~listing
  /\ tokens' = tokens + 1
  /\ listing' = TRUE
  /\ before' = [before EXCEPT ![tokens + 1] = enrolled]
  /\ UNCHANGED <<kind, enrolled, watch, known, polls, announced, expired, failures>>

\* Faulty variant: the rows the page shows already stand in for a fresh list.
GatewaysListedEarlier ==
  /\ listing
  /\ listing' = FALSE
  /\ Begin(tokens, {})
  /\ UNCHANGED <<kind, enrolled, tokens, announced, before, expired, failures>>

\* startEnrollmentWatch: what the list holds is old.
GatewaysListed ==
  /\ listing
  /\ listing' = FALSE
  /\ Begin(tokens, enrolled)
  /\ UNCHANGED <<kind, enrolled, tokens, announced, before, expired, failures>>

\* Without a list everything is taken for new.
GatewaysNotListed ==
  /\ listing /\ failures < MaxFailures
  /\ failures' = failures + 1
  /\ listing' = FALSE
  /\ Begin(tokens, {})
  /\ UNCHANGED <<kind, enrolled, tokens, announced, before, expired>>

\* AddWorkerModal has created a worker that is pending until its agent comes.
WorkerCreated(machine) ==
  /\ kind = "workers" /\ tokens < MaxWatches
  /\ machine \notin enrolled
  /\ \A w \in 1..tokens : machine \in known[w]
  /\ tokens' = tokens + 1
  /\ before' = [before EXCEPT ![tokens + 1] = enrolled]
  /\ Begin(tokens + 1, Machines \ {machine})
  /\ UNCHANGED <<kind, enrolled, listing, announced, expired, failures>>

Enrol(machine) ==
  /\ machine \notin enrolled
  /\ kind = "workers" => \E w \in 1..tokens : machine \notin known[w]
  /\ enrolled' = enrolled \cup {machine}
  /\ UNCHANGED <<kind, tokens, listing, watch, known, polls, announced, before, expired,
                 failures>>

-----------------------------------------------------------------------------
\* The interval's tick.
PollWatch(w) ==
  /\ w = watch /\ polls[w] < MaxPolls
  /\ polls' = [polls EXCEPT ![w] = @ + 1]
  /\ UNCHANGED <<kind, enrolled, tokens, listing, watch, known, announced, before, expired,
                 failures>>

\* The tick after GATEWAY_ENROLL_POLL_MAX_MS or WORKER_ENROLL_POLL_MAX_MS.
WatchExpires(w) ==
  /\ w = watch
  /\ watch' = NoWatch
  /\ expired' = TRUE
  /\ UNCHANGED <<kind, enrolled, tokens, listing, known, polls, announced, before, failures>>

Received(w) ==
  /\ polls[w] > 0
  /\ polls' = [polls EXCEPT ![w] = @ - 1]

\* The gateway that is not known, or the worker that is no longer pending.
Newcomers(w) == enrolled \ known[w]

\* The reply shows a newcomer: the current watch ends, even if it is a later one.
PollFinds(w) ==
  /\ Received(w)
  /\ \E newcomer \in Newcomers(w) : announced' = announced \cup {newcomer}
  /\ watch' = NoWatch
  /\ UNCHANGED <<kind, enrolled, tokens, listing, known, before, expired, failures>>

PollFindsNothing(w) ==
  /\ Received(w)
  /\ Newcomers(w) = {}
  /\ UNCHANGED <<kind, enrolled, tokens, listing, watch, known, announced, before, expired,
                 failures>>

PollFailsForGood(w) ==
  /\ Received(w) /\ failures < MaxFailures
  /\ failures' = failures + 1
  /\ watch' = NoWatch
  /\ UNCHANGED <<kind, enrolled, tokens, listing, known, announced, before, expired>>

\* "Keep polling - transient network errors should not stop the watch."
PollFails(w) ==
  /\ Received(w) /\ failures < MaxFailures
  /\ failures' = failures + 1
  /\ UNCHANGED <<kind, enrolled, tokens, listing, watch, known, announced, before, expired>>

Next ==
  \/ GatewayTokenCreated \/ GatewaysListed \/ GatewaysNotListed
  \/ \E m \in Machines : WorkerCreated(m) \/ Enrol(m)
  \/ \E w \in Watches : PollWatch(w) \/ WatchExpires(w) \/ PollFinds(w)
                          \/ PollFindsNothing(w) \/ PollFails(w)

Answer(w) == PollFinds(w) \/ PollFindsNothing(w) \/ PollFails(w)

Spec == Init /\ [][Next]_vars

-----------------------------------------------------------------------------
(* State predicates of the properties MCConsole checks.                    *)

AnnouncedIsNew ==
  failures = 0 => \A m \in announced : \E w \in 1..tokens : m \notin before[w]

\* A newcomer of the only watch is announced, unless the watch has run out.
AwaitedIsAnnounced ==
  (tokens = 1 /\ Newcomers(1) # {}) => announced # {} \/ expired
=============================================================================
