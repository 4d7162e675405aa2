---------------------------- MODULE ConsoleProofs ----------------------------
(***************************************************************************)
(* Proofs about the console, for every value of its constants.  Each page  *)
(* has a section of its own: the facts about constants it needs, its       *)
(* inductive invariant in named parts, that it holds at first and is kept, *)
(* and that it implies the page's properties.  The last section puts the   *)
(* pages together, as MCConsole does.                                      *)
(***************************************************************************)
EXTENDS MCConsole, FiniteSetTheorems, SequenceTheorems, WellFoundedInduction, TLAPS

-----------------------------------------------------------------------------
(* Sequences of requests.                                                 *)

\* A sequence without its i-th element.
LEMMA Removed ==
  ASSUME NEW S, NEW s \in Seq(S), NEW i \in 1..Len(s)
  PROVE  LET r == SubSeq(s, 1, i - 1) \o SubSeq(s, i + 1, Len(s))
         IN  /\ r \in Seq(S) /\ Len(r) = Len(s) - 1
             /\ \A j \in 1..(Len(s) - 1) : r[j] = IF j < i THEN s[j] ELSE s[j + 1]
<1> DEFINE a == SubSeq(s, 1, i - 1)
           b == SubSeq(s, i + 1, Len(s))
<1>1. /\ a \in Seq(S) /\ Len(a) = i - 1
      /\ \A j \in 1..(i - 1) : a[j] = s[j]
  <2>1. \A j \in 1..(i - 1) : s[j] \in S
    OBVIOUS
  <2>2. /\ a \in Seq(S) /\ Len(a) = IF 1 <= i - 1 THEN (i - 1) - 1 + 1 ELSE 0
        /\ \A j \in 1..((i - 1) - 1 + 1) : a[j] = s[1 + j - 1]
    BY <2>1, SubSeqProperties
  <2> QED BY <2>2
<1>2. /\ b \in Seq(S) /\ Len(b) = Len(s) - i
      /\ \A j \in 1..(Len(s) - i) : b[j] = s[i + j]
  <2>1. \A j \in (i + 1)..Len(s) : s[j] \in S
    OBVIOUS
  <2>2. /\ b \in Seq(S) /\ Len(b) = IF i + 1 <= Len(s) THEN Len(s) - (i + 1) + 1 ELSE 0
        /\ \A j \in 1..(Len(s) - (i + 1) + 1) : b[j] = s[(i + 1) + j - 1]
    BY <2>1, SubSeqProperties
  <2> QED BY <2>2
<1> HIDE DEF a, b
<1>3. /\ a \o b \in Seq(S) /\ Len(a \o b) = Len(a) + Len(b)
      /\ \A j \in 1..(Len(a) + Len(b)) : (a \o b)[j] = IF j <= Len(a) THEN a[j] ELSE b[j - Len(a)]
  BY <1>1, <1>2, ConcatProperties
<1>4. ASSUME NEW j \in 1..(Len(s) - 1)
      PROVE  (a \o b)[j] = IF j < i THEN s[j] ELSE s[j + 1]
  <2>1. CASE j < i
    BY <1>1, <1>2, <1>3, <2>1
  <2>2. CASE ~(j < i)
    <3> DEFINE k == j - (i - 1)
    <3>0. k \in 1..(Len(s) - i) /\ ~(j <= i - 1)
      BY <2>2
    <3>1. (a \o b)[j] = b[k]
      <4>1. j \in 1..(Len(a) + Len(b))
        BY <1>1, <1>2
      <4>2. (a \o b)[j] = IF j <= Len(a) THEN a[j] ELSE b[j - Len(a)]
        BY <1>3, <4>1
      <4> QED BY <1>1, <3>0, <4>2
    <3> HIDE DEF k
    <3>2. b[k] = s[i + k]
      BY <1>2, <3>0
    <3>3. i + k = j + 1
      BY DEF k
    <3> QED BY <2>2, <3>1, <3>2, <3>3
  <2> QED BY <2>1, <2>2
<1>5. a \o b \in Seq(S) /\ Len(a \o b) = Len(s) - 1
  BY <1>1, <1>2, <1>3
<1> QED BY <1>4, <1>5 DEF a, b

\* r is the sequence of requests s without the i-th.
Dropping(s, r, i) ==
  /\ Len(r) = Len(s) - 1
  /\ \A j \in 1..(Len(s) - 1) :
       /\ r[j] = IF j < i THEN s[j] ELSE s[j + 1]
       /\ IF j < i THEN j \in 1..Len(s) ELSE j + 1 \in 1..Len(s)
  /\ \A k \in 1..Len(s) : k # i =>
       \E j \in 1..(Len(s) - 1) : r[j] = s[k] /\ j = IF k < i THEN k ELSE k - 1

LEMMA Dropped ==
  ASSUME NEW S, NEW s \in Seq(S), NEW i \in 1..Len(s)
  PROVE  LET r == [j \in 1..(Len(s) - 1) |-> IF j < i THEN s[j] ELSE s[j + 1]]
         IN  r \in Seq(S) /\ Dropping(s, r, i)
<1> DEFINE n == Len(s) - 1
           r == [j \in 1..n |-> IF j < i THEN s[j] ELSE s[j + 1]]
<1>1. n \in Nat /\ \A j \in 1..n : j \in 1..Len(s) /\ j + 1 \in 1..Len(s)
  OBVIOUS
<1>2. \A j \in 1..n : r[j] \in S
  BY <1>1
<1>3. r \in [1..n -> S]
  BY <1>2
<1>4. r \in Seq(S) /\ Len(r) = n
  <2> HIDE DEF r
  <2> QED BY <1>1, <1>3
<1>5. ASSUME NEW k \in 1..Len(s), k # i
      PROVE  \E j \in 1..n : r[j] = s[k] /\ j = IF k < i THEN k ELSE k - 1
  <2>1. CASE k < i
    <3>1. k \in 1..n
      BY <2>1
    <3> QED BY <2>1, <3>1
  <2>2. CASE ~(k < i)
    <3>1. k - 1 \in 1..n /\ ~(k - 1 < i) /\ (k - 1) + 1 = k
      BY <1>5, <2>2
    <3> QED BY <2>2, <3>1
  <2> QED BY <2>1, <2>2
<1> QED BY <1>1, <1>4, <1>5 DEF Dropping


\* t is s without its i-th element, and with w appended if n is 1.
Left(s, t, i, n, w) ==
  /\ Len(t) = Len(s) - 1 + n
  /\ \A j \in 1..Len(t) :
       \/ \E k \in 1..Len(s) : k # i /\ t[j] = s[k] /\ k = IF j < i THEN j ELSE j + 1
       \/ n = 1 /\ j = Len(t) /\ t[j] = w
  /\ \A k \in 1..Len(s) : k # i =>
       \E j \in 1..Len(t) : t[j] = s[k] /\ j = IF k < i THEN k ELSE k - 1
  /\ n = 1 => t[Len(t)] = w /\ Len(t) \in 1..Len(t)

LEMMA Leaves ==
  ASSUME NEW S, NEW s \in Seq(S), NEW i \in 1..Len(s), NEW n \in 0..1, NEW w \in S,
         NEW u \in Seq(S), Dropping(s, u, i), NEW t, t = IF n = 1 THEN Append(u, w) ELSE u
  PROVE  t \in Seq(S) /\ Left(s, t, i, n, w)
<1> DEFINE m == Len(s) - 1
<1>1. m \in Nat /\ Len(s) = m + 1
  OBVIOUS
<1>2. /\ u \in Seq(S) /\ Len(u) = m
      /\ \A j \in 1..m : /\ u[j] = IF j < i THEN s[j] ELSE s[j + 1]
                         /\ IF j < i THEN j \in 1..Len(s) ELSE j + 1 \in 1..Len(s)
      /\ \A k \in 1..Len(s) : k # i =>
           \E j \in 1..m : u[j] = s[k] /\ j = IF k < i THEN k ELSE k - 1
  BY DEF Dropping
<1> HIDE DEF m
<1>3. /\ t \in Seq(S) /\ Len(t) = m + n /\ \A j \in 1..m : t[j] = u[j]
      /\ n = 1 => t[m + 1] = w
  <2>1. CASE n = 1
    <3>1. /\ Append(u, w) \in Seq(S) /\ Len(Append(u, w)) = m + 1
          /\ \A j \in 1..m : Append(u, w)[j] = u[j]
          /\ Append(u, w)[m + 1] = w
      BY <1>1, <1>2, AppendProperties
    <3> QED BY <2>1, <3>1
  <2>2. CASE n = 0
    BY <1>1, <1>2, <2>2
  <2>3. n = 0 \/ n = 1
    OBVIOUS
  <2> QED BY <2>1, <2>2, <2>3
<1>4. ASSUME NEW j \in 1..Len(t)
      PROVE  \/ \E k \in 1..Len(s) : k # i /\ t[j] = s[k] /\ k = IF j < i THEN j ELSE j + 1
             \/ n = 1 /\ j = Len(t) /\ t[j] = w
  <2>1. CASE j \in 1..m
    <3> DEFINE k == IF j < i THEN j ELSE j + 1
    <3>1. k \in 1..Len(s) /\ t[j] = s[k]
      BY <1>2, <1>3, <2>1
    <3>2. k # i
      <4>1. i \in Nat /\ j \in Int
        OBVIOUS
      <4> QED BY <4>1
    <3> QED BY <3>1, <3>2
  <2>2. CASE ~(j \in 1..m)
    <3>1. n = 1 /\ j = m + 1
      BY <1>1, <1>3, <2>2
    <3> QED BY <1>3, <3>1
  <2> QED BY <2>1, <2>2
<1>5. 1..m \subseteq 1..Len(t)
  BY <1>1, <1>3
<1>6. ASSUME NEW k \in 1..Len(s), k # i
      PROVE  \E j \in 1..Len(t) : t[j] = s[k] /\ j = IF k < i THEN k ELSE k - 1
  <2>1. PICK j \in 1..m : u[j] = s[k] /\ j = IF k < i THEN k ELSE k - 1
    BY <1>2, <1>6
  <2>2. j \in 1..Len(t) /\ t[j] = u[j]
    BY <1>3, <1>5
  <2> QED BY <2>1, <2>2
<1>7. n = 1 => t[Len(t)] = w /\ Len(t) \in 1..Len(t)
  BY <1>1, <1>3
<1>8. Len(t) = Len(s) - 1 + n
  BY <1>1, <1>3
<1> QED BY <1>3, <1>4, <1>6, <1>7, <1>8 DEF Left

\* What a sequence of requests is after one more, or after one of them changed.
LEMMA Sent ==
  ASSUME NEW S, NEW s \in Seq(S), NEW w \in S, NEW t, t = Append(s, w)
  PROVE  /\ t \in Seq(S) /\ Len(t) = Len(s) + 1 /\ t[Len(t)] = w /\ Len(t) \in 1..Len(t)
         /\ \A j \in 1..Len(s) : j \in 1..Len(t) /\ t[j] = s[j]
         /\ \A j \in 1..Len(t) : j \in 1..Len(s) \/ (j = Len(t) /\ t[j] = w)
<1>1. /\ t \in Seq(S) /\ Len(t) = Len(s) + 1 /\ t[Len(s) + 1] = w
      /\ \A j \in 1..Len(s) : t[j] = s[j]
  BY AppendProperties
<1>2. Len(s) \in Nat
  OBVIOUS
<1> QED BY <1>1, <1>2

LEMMA Marked ==
  ASSUME NEW S, NEW s \in Seq(S), NEW i \in 1..Len(s), NEW w \in S, NEW t,
         t = [s EXCEPT ![i] = w]
  PROVE  /\ t \in Seq(S) /\ Len(t) = Len(s) /\ t[i] = w
         /\ \A j \in 1..Len(s) : j # i => t[j] = s[j]
BY ExceptSeq

-----------------------------------------------------------------------------
(* The enrolment watches.                                                  *)

LEMMA WatchConstants ==
  MaxWatches \in Nat /\ MaxPolls \in Nat /\ MaxPolls > 0 /\ MaxFailures \in Nat
BY ConsoleAssumption

\* The numbers and sets among the variables have their types.
WatchTypes ==
  /\ enrolled \subseteq Machines /\ announced \subseteq Machines
  /\ tokens \in 0..MaxWatches
  /\ watch \in 0..MaxWatches
  /\ known \in [1..MaxWatches -> SUBSET Machines]
  /\ before \in [1..MaxWatches -> SUBSET Machines]
  /\ polls \in [1..MaxWatches -> 0..MaxPolls]
  /\ failures \in 0..MaxFailures

\* A token that waits for its list has a number, and a watch that has not begun polls nothing.
Begun ==
  /\ listing => tokens > 0
  /\ watch <= tokens
  /\ \A w \in 1..MaxWatches : w > tokens => polls[w] = 0

\* Until a request fails, what had enrolled before a watch's token is known to it.
BeforeIsKnown ==
  /\ \A w \in 1..MaxWatches : before[w] \subseteq enrolled
  /\ failures = 0 =>
       \A w \in 1..MaxWatches : polls[w] > 0 \/ w = watch => before[w] \subseteq known[w]

WatchInv ==
  /\ kind \in Watch!Kinds /\ listing \in BOOLEAN /\ expired \in BOOLEAN
  /\ WatchTypes /\ Begun /\ BeforeIsKnown /\ Watch!AnnouncedIsNew

LEMMA WatchTyped == ASSUME WatchInv PROVE Watch!TypeOK
BY WatchConstants DEF WatchInv, WatchTypes, Watch!TypeOK, Watch!Watches, Watch!NoWatch

LEMMA WatchInitially == ASSUME Watch!Init PROVE WatchInv
<1> USE WatchConstants DEF Watch!Init, Watch!Watches, Watch!NoWatch
<1>1. kind \in Watch!Kinds /\ listing \in BOOLEAN /\ expired \in BOOLEAN
  OBVIOUS
<1>2. WatchTypes
  BY DEF WatchTypes
<1>3. Begun
  BY DEF Begun
<1>4. BeforeIsKnown
  BY DEF BeforeIsKnown
<1>5. Watch!AnnouncedIsNew
  BY DEF Watch!AnnouncedIsNew
<1> QED BY <1>1, <1>2, <1>3, <1>4, <1>5 DEF WatchInv

LEMMA WatchInductive == ASSUME WatchInv, [Watch!Next]_(Watch!vars) PROVE WatchInv'
<1>0. WatchTypes /\ Begun /\ BeforeIsKnown /\ Watch!AnnouncedIsNew
  BY DEF WatchInv
<1> USE WatchConstants DEF Watch!NoWatch, Watch!Watches
<1>1. kind' \in Watch!Kinds /\ listing' \in BOOLEAN /\ expired' \in BOOLEAN
  BY DEF WatchInv, Watch!Next, Watch!vars, Watch!GatewayTokenCreated, Watch!GatewaysListed,
         Watch!GatewaysNotListed, Watch!WorkerCreated, Watch!Enrol, Watch!PollWatch,
         Watch!WatchExpires, Watch!PollFinds, Watch!PollFindsNothing, Watch!PollFails
<1> DEFINE Rest == WatchTypes /\ Begun /\ BeforeIsKnown /\ Watch!AnnouncedIsNew
<1>2. ASSUME Watch!GatewayTokenCreated PROVE Rest'
  <2> USE <1>0, <1>2 DEF Watch!GatewayTokenCreated, WatchTypes
  <2>1. WatchTypes'
    OBVIOUS
  <2>2. Begun'
    BY DEF Begun
  <2>3. BeforeIsKnown'
    BY DEF BeforeIsKnown, Begun
  <2>4. Watch!AnnouncedIsNew'
    BY DEF Watch!AnnouncedIsNew
  <2> QED BY <2>1, <2>2, <2>3, <2>4
<1>3. ASSUME Watch!GatewaysListed PROVE Rest'
  <2> USE <1>0, <1>3 DEF Watch!GatewaysListed, Watch!Begin, WatchTypes
  <2>1. WatchTypes' /\ Begun'
    BY DEF Begun
  <2>2. BeforeIsKnown'
    BY DEF BeforeIsKnown, Begun
  <2>3. Watch!AnnouncedIsNew'
    BY DEF Watch!AnnouncedIsNew
  <2> QED BY <2>1, <2>2, <2>3
<1>4. ASSUME Watch!GatewaysNotListed PROVE Rest'
  <2> USE <1>0, <1>4 DEF Watch!GatewaysNotListed, Watch!Begin, WatchTypes
  <2>1. WatchTypes' /\ Begun'
    BY DEF Begun
  <2>2. failures' # 0
    OBVIOUS
  <2> QED BY <2>1, <2>2 DEF BeforeIsKnown, Watch!AnnouncedIsNew
<1>5. ASSUME NEW m \in Machines, Watch!WorkerCreated(m) PROVE Rest'
  <2> USE <1>0, <1>5 DEF Watch!WorkerCreated, Watch!Begin, WatchTypes
  <2>1. WatchTypes' /\ Begun'
    BY DEF Begun
  <2>2. BeforeIsKnown'
    BY DEF BeforeIsKnown
  <2>3. Watch!AnnouncedIsNew'
    BY DEF Watch!AnnouncedIsNew
  <2> QED BY <2>1, <2>2, <2>3
<1>6. ASSUME NEW m \in Machines, Watch!Enrol(m) PROVE Rest'
  BY <1>0, <1>6 DEF Watch!Enrol, WatchTypes, Begun, BeforeIsKnown, Watch!AnnouncedIsNew
<1>7. ASSUME NEW w \in Watch!Watches, Watch!PollWatch(w) PROVE Rest'
  BY <1>0, <1>7
     DEF Watch!PollWatch, WatchTypes, Begun, BeforeIsKnown, Watch!AnnouncedIsNew
<1>8. ASSUME NEW w \in Watch!Watches, Watch!WatchExpires(w) PROVE Rest'
  BY <1>0, <1>8
     DEF Watch!WatchExpires, WatchTypes, Begun, BeforeIsKnown, Watch!AnnouncedIsNew
<1>9. ASSUME NEW w \in Watch!Watches, Watch!PollFinds(w) PROVE Rest'
  <2> USE <1>0, <1>9 DEF Watch!PollFinds, Watch!Received, Watch!Newcomers, WatchTypes
  <2>1. WatchTypes' /\ Begun'
    BY DEF Begun
  <2>2. BeforeIsKnown'
    BY DEF BeforeIsKnown
  <2>3. Watch!AnnouncedIsNew'
    <3>1. PICK n \in enrolled \ known[w] : announced' = announced \cup {n}
      OBVIOUS
    <3>2. failures = 0 => n \notin before[w]
      BY <3>1 DEF BeforeIsKnown
    <3>3. w \in 1..tokens
      BY DEF Begun
    <3> QED BY <3>1, <3>2, <3>3 DEF Watch!AnnouncedIsNew
  <2> QED BY <2>1, <2>2, <2>3
<1>10. ASSUME NEW w \in Watch!Watches, Watch!PollFindsNothing(w) PROVE Rest'
  BY <1>0, <1>10 DEF Watch!PollFindsNothing, Watch!Received, WatchTypes, Begun, BeforeIsKnown,
                     Watch!AnnouncedIsNew
<1>11. ASSUME NEW w \in Watch!Watches, Watch!PollFails(w) PROVE Rest'
  <2> USE <1>0, <1>11 DEF Watch!PollFails, Watch!Received, WatchTypes
  <2>1. WatchTypes' /\ Begun'
    BY DEF Begun
  <2>2. failures' # 0
    OBVIOUS
  <2> QED BY <2>1, <2>2 DEF BeforeIsKnown, Watch!AnnouncedIsNew
<1>12. ASSUME UNCHANGED Watch!vars PROVE Rest'
  BY <1>0, <1>12 DEF Watch!vars, WatchTypes, Begun, BeforeIsKnown, Watch!AnnouncedIsNew
<1>13. Rest'
  BY <1>2, <1>3, <1>4, <1>5, <1>6, <1>7, <1>8, <1>9, <1>10, <1>11, <1>12 DEF Watch!Next
<1> QED BY <1>1, <1>13 DEF WatchInv

-----------------------------------------------------------------------------
(* The board of a worker's tenants.                                        *)

LEMMA BoardConstants == MaxRequests \in Nat /\ MaxFailures \in Nat
BY ConsoleAssumption

\* What a refresh has read.
Reads == [rows : [Tenants -> Board!Runtimes], edge : BOOLEAN]

RefreshesTyped ==
  /\ refreshes \in [asked : 0..2, read : Seq(Reads)]
  /\ refreshes.asked + Len(refreshes.read) <= 2

BoardTypes ==
  /\ runtime \in [Tenants -> Board!Runtimes] /\ rows \in [Tenants -> Board!Runtimes]
  /\ acting \in [Tenants -> 0..MaxRequests]
  /\ busy \in Tenants \cup {Board!NoTenant}
  /\ dialog \in [kind : Board!Dialogs, tenant : Tenants \cup {Board!NoTenant}]
  /\ bulk \in {"none", "create", "provision"}
  /\ requests \in 0..MaxRequests /\ failures \in 0..MaxFailures

BoardFlags ==
  /\ edge \in BOOLEAN /\ shownEdge \in BOOLEAN
  /\ deleting \in BOOLEAN /\ saving \in BOOLEAN

\* A row has no more requests under way than were made; and a row that has one is
\* marked, and has no other, as long as no action of another row took the mark.
ActingIsMarked ==
  /\ unmarked \subseteq Tenants
  /\ \A t \in Tenants : acting[t] <= requests
  /\ \A t \in Tenants \ unmarked : acting[t] > 0 => acting[t] = 1 /\ busy = t

BoardInv == BoardTypes /\ RefreshesTyped /\ BoardFlags /\ ActingIsMarked

LEMMA BoardTyped == ASSUME BoardInv PROVE Board!TypeOK /\ Board!OneRequestPerRow
<1>1. Board!TypeOK
  BY DEF BoardInv, BoardTypes, RefreshesTyped, BoardFlags, ActingIsMarked, Board!TypeOK, Reads,
         Board!Loads
<1>2. Board!OneRequestPerRow
  BY BoardConstants DEF BoardInv, BoardTypes, ActingIsMarked, Board!OneRequestPerRow
<1> QED BY <1>1, <1>2

LEMMA BoardInitially == ASSUME Board!Init PROVE BoardInv
<1> USE BoardConstants DEF Board!Init
<1>1. BoardTypes
  BY DEF BoardTypes, Board!Runtimes, Board!NoDialog, Board!Dialogs, Board!NoTenant
<1>2. RefreshesTyped
  BY DEF RefreshesTyped
<1>3. BoardFlags
  BY DEF BoardFlags
<1>4. ActingIsMarked
  BY DEF ActingIsMarked
<1> QED BY <1>1, <1>2, <1>3, <1>4 DEF BoardInv

\* However a refresh begins, is read, answered or lost, what is read is of its type.
LEMMA LoadStarted ==
  ASSUME RefreshesTyped, Board!StartLoad
  PROVE  RefreshesTyped'
BY DEF RefreshesTyped, Board!StartLoad, Board!RoomToLoad, Board!Loads

LEMMA ReadRemoved ==
  ASSUME RefreshesTyped, NEW i \in DOMAIN refreshes.read,
         refreshes' = [refreshes EXCEPT !.read = Board!RemoveAt(@, i)]
  PROVE  RefreshesTyped'
<1> DEFINE r == Board!RemoveAt(refreshes.read, i)
<1>1. r \in Seq(Reads) /\ Len(r) = Len(refreshes.read) - 1
  <2>1. refreshes.read \in Seq(Reads) /\ i \in 1..Len(refreshes.read)
    BY DEF RefreshesTyped
  <2> QED BY <2>1, Removed DEF Board!RemoveAt
<1> QED BY <1>1 DEF RefreshesTyped

LEMMA RefreshesInductive ==
  ASSUME BoardInv, [Board!Next]_(Board!vars)
  PROVE  RefreshesTyped'
<1> USE DEF BoardInv
<1>1. ASSUME Board!LoadRead PROVE RefreshesTyped'
  <2>1. Board!Server \in Reads
    BY DEF Board!Server, Reads, BoardTypes, BoardFlags
  <2> QED BY <1>1, <2>1 DEF Board!LoadRead, RefreshesTyped
<1>2. ASSUME NEW i \in 1..Board!Loads, Board!LoadReply(i) PROVE RefreshesTyped'
  BY <1>2, ReadRemoved DEF Board!LoadReply
<1>3. ASSUME Board!LoadFails PROVE RefreshesTyped'
  <2>1. CASE refreshes.asked > 0 /\ refreshes' = [refreshes EXCEPT !.asked = @ - 1]
    BY <2>1 DEF RefreshesTyped
  <2>2. CASE \E i \in DOMAIN refreshes.read :
               refreshes' = [refreshes EXCEPT !.read = Board!RemoveAt(@, i)]
    BY <2>2, ReadRemoved
  <2> QED BY <1>3, <2>1, <2>2 DEF Board!LoadFails
<1>4. ASSUME UNCHANGED refreshes PROVE RefreshesTyped'
  BY <1>4 DEF RefreshesTyped
<1> QED
  BY <1>1, <1>2, <1>3, <1>4, LoadStarted
     DEF Board!Next, Board!vars, Board!pageVars, Board!Poll, Board!RunTenantAction,
         Board!ActionAnswered, Board!WorkerReports, Board!Open, Board!Cancel,
         Board!HandleDeleteTenant, Board!DeleteAnswered, Board!StartBulk, Board!BulkAnswered,
         Board!HandleSharedEdgeToggle, Board!EdgeSaved

LEMMA FlagsInductive ==
  ASSUME BoardInv, [Board!Next]_(Board!vars)
  PROVE  BoardFlags'
<1> USE DEF BoardInv
<1>1. ASSUME NEW i \in 1..Board!Loads, Board!LoadReply(i) PROVE BoardFlags'
  <2>1. refreshes.read[i] \in Reads
    BY <1>1 DEF Board!LoadReply, RefreshesTyped
  <2> QED BY <1>1, <2>1 DEF Board!LoadReply, BoardFlags, Reads
<1> QED
  BY <1>1, Zenon
     DEF BoardFlags, Board!Next, Board!vars, Board!pageVars, Board!Poll, Board!LoadRead,
         Board!LoadFails, Board!RunTenantAction,
         Board!ActionAnswered, Board!WorkerReports, Board!Open, Board!Cancel,
         Board!HandleDeleteTenant, Board!DeleteAnswered, Board!StartBulk, Board!BulkAnswered,
         Board!HandleSharedEdgeToggle, Board!EdgeSaved

LEMMA BoardTypesInductive ==
  ASSUME BoardInv, [Board!Next]_(Board!vars)
  PROVE  BoardTypes'
<1>0. BoardTypes /\ RefreshesTyped /\ ActingIsMarked
  BY DEF BoardInv
<1> USE BoardConstants DEF BoardTypes, Board!Fail, Board!Ask, Board!AskBesides, Board!AskLast,
                           Board!NoDialog, Board!NoTenant, Board!Dialogs
<1>1. ASSUME NEW i \in 1..Board!Loads, Board!LoadReply(i) PROVE BoardTypes'
  <2>1. refreshes.read[i] \in Reads
    BY <1>0, <1>1 DEF Board!LoadReply, RefreshesTyped
  <2> QED BY <1>0, <1>1, <2>1 DEF Board!LoadReply, Reads
<1>2. ASSUME Board!Poll \/ Board!LoadRead \/ Board!LoadFails PROVE BoardTypes'
  BY <1>0, <1>2 DEF Board!Poll, Board!LoadRead, Board!LoadFails
<1>3. ASSUME NEW t \in Tenants, Board!RunTenantAction(t) PROVE BoardTypes'
  BY <1>0, <1>3 DEF Board!RunTenantAction, ActingIsMarked
<1>4. ASSUME NEW t \in Tenants, Board!ActionAnswered(t) PROVE BoardTypes'
  BY <1>0, <1>4 DEF Board!ActionAnswered
<1>5. ASSUME NEW t \in Tenants, Board!WorkerReports(t) PROVE BoardTypes'
  BY <1>0, <1>5 DEF Board!WorkerReports, Board!pageVars, Board!Runtimes
<1>6. ASSUME NEW t \in Tenants \cup {"none"}, NEW k \in {"create", "remove"}, Board!Open(k, t)
      PROVE  BoardTypes'
  BY <1>0, <1>6 DEF Board!Open
<1>7. ASSUME Board!Cancel \/ Board!HandleDeleteTenant PROVE BoardTypes'
  BY <1>0, <1>7 DEF Board!Cancel, Board!HandleDeleteTenant
<1>8. ASSUME Board!DeleteAnswered PROVE BoardTypes'
  BY <1>0, <1>8 DEF Board!DeleteAnswered, Board!Runtimes
<1>9. ASSUME NEW k \in {"create", "provision"}, Board!StartBulk(k) PROVE BoardTypes'
  BY <1>0, <1>9 DEF Board!StartBulk
<1>10. ASSUME Board!BulkAnswered PROVE BoardTypes'
  <2>1. runtime' \in [Tenants -> Board!Runtimes]
    BY <1>0, <1>10 DEF Board!BulkAnswered, Board!Runtimes
  <2> QED BY <1>0, <1>10, <2>1 DEF Board!BulkAnswered
<1>11. ASSUME Board!HandleSharedEdgeToggle PROVE BoardTypes'
  BY <1>0, <1>11 DEF Board!HandleSharedEdgeToggle
<1>12. ASSUME Board!EdgeSaved PROVE BoardTypes'
  BY <1>0, <1>12 DEF Board!EdgeSaved
<1>13. ASSUME UNCHANGED Board!vars PROVE BoardTypes'
  BY <1>0, <1>13 DEF Board!vars, Board!pageVars
<1> QED
  BY <1>1, <1>2, <1>3, <1>4, <1>5, <1>6, <1>7, <1>8, <1>9, <1>10, <1>11, <1>12, <1>13
     DEF Board!Next

LEMMA MarkInductive ==
  ASSUME BoardInv, [Board!Next]_(Board!vars)
  PROVE  ActingIsMarked'
<1>0. BoardTypes /\ ActingIsMarked
  BY DEF BoardInv
<1> USE BoardConstants DEF BoardTypes, ActingIsMarked
<1>1. ASSUME NEW t \in Tenants, Board!RunTenantAction(t) PROVE ActingIsMarked'
  <2> USE <1>0, <1>1 DEF Board!RunTenantAction, Board!Ask, Board!ActionDisabled
  <2>1. \A u \in Tenants : acting'[u] <= requests'
    OBVIOUS
  <2>2. unmarked' \subseteq Tenants
    OBVIOUS
  <2>3. ASSUME NEW u \in Tenants \ unmarked', acting'[u] > 0 PROVE acting'[u] = 1 /\ busy' = u
    <3>1. u \notin unmarked /\ (u # t => ~(acting[u] > 0))
      BY <2>3
    <3>2. u = t
      BY <2>3, <3>1
    <3>3. acting[t] = 0
      BY <3>1, <3>2
    <3> QED BY <3>2, <3>3
  <2> QED BY <2>1, <2>2, <2>3
<1>2. ASSUME NEW t \in Tenants, Board!ActionAnswered(t) PROVE ActingIsMarked'
  <2> USE <1>0, <1>2 DEF Board!ActionAnswered
  <2>1. unmarked' \subseteq Tenants /\ \A u \in Tenants : acting'[u] <= requests'
    OBVIOUS
  <2>2. ASSUME NEW u \in Tenants \ unmarked', acting'[u] > 0 PROVE FALSE
    <3>1. u = t /\ t \notin unmarked
      BY <2>2
    <3>2. acting[t] = 1
      BY <3>1
    <3> QED BY <2>2, <3>1, <3>2
  <2> QED BY <2>1, <2>2
<1>3. ASSUME UNCHANGED <<acting, busy, unmarked>>, requests' \in {requests, requests + 1}
      PROVE  ActingIsMarked'
  BY <1>0, <1>3
<1> QED
  BY <1>1, <1>2, <1>3
     DEF Board!Next, Board!vars, Board!pageVars, Board!Ask, Board!AskBesides, Board!AskLast,
         Board!Poll, Board!LoadRead, Board!LoadReply, Board!LoadFails, Board!WorkerReports, Board!Open, Board!Cancel,
         Board!HandleDeleteTenant, Board!DeleteAnswered, Board!StartBulk, Board!BulkAnswered,
         Board!HandleSharedEdgeToggle, Board!EdgeSaved

LEMMA BoardInductive == ASSUME BoardInv, [Board!Next]_(Board!vars) PROVE BoardInv'
BY BoardTypesInductive, RefreshesInductive, FlagsInductive, MarkInductive DEF BoardInv

-----------------------------------------------------------------------------
(* The connection panel.                                                   *)

LEMMA ConnectConstants ==
  /\ MaxPicks \in Nat /\ MaxScanEnds \in Nat /\ GatewayTenant \in Tenants
  /\ \A cidr \in Connect!Cidrs : HostsOf[cidr] \cap Connect!Cidrs = {}
BY ConsoleAssumption DEF Connect!Cidrs

\* The requests that a count of them by tenant stands for.
Requests(count) == {q \in Tenants \X (Nat \ {0}) : q[2] <= count[q[1]]}

LEMMA OneMore ==
  ASSUME NEW count \in [Tenants -> Nat], NEW t \in Tenants, IsFiniteSet(Requests(count))
  PROVE  LET more == Connect!Ask(count, t)
         IN  /\ more \in [Tenants -> Nat] /\ IsFiniteSet(Requests(more))
             /\ Cardinality(Requests(more)) = Cardinality(Requests(count)) + 1
<1> DEFINE more == Connect!Ask(count, t)
           new == <<t, count[t] + 1>>
<1>1. more \in [Tenants -> Nat]
  BY DEF Connect!Ask
<1>2. new \notin Requests(count)
  BY DEF Requests
<1>3. Requests(more) = Requests(count) \cup {new}
  <2>1. ASSUME NEW u \in Tenants, NEW n \in Nat \ {0}
        PROVE  n <= more[u] <=> (n <= count[u] \/ <<u, n>> = new)
    BY DEF Connect!Ask
  <2>2. new \in Tenants \X (Nat \ {0})
    OBVIOUS
  <2> HIDE DEF more, new
  <2> QED BY <2>1, <2>2 DEF Requests
<1> HIDE DEF new
<1> QED BY <1>1, <1>2, <1>3, FS_AddElement

LEMMA OneLess ==
  ASSUME NEW count \in [Tenants -> Nat], NEW t \in Tenants, count[t] > 0,
         IsFiniteSet(Requests(count))
  PROVE  LET less == [count EXCEPT ![t] = @ - 1]
         IN  /\ less \in [Tenants -> Nat] /\ IsFiniteSet(Requests(less))
             /\ Cardinality(Requests(less)) = Cardinality(Requests(count)) - 1
<1> DEFINE less == [count EXCEPT ![t] = @ - 1]
           old == <<t, count[t]>>
<1>1. less \in [Tenants -> Nat]
  OBVIOUS
<1>2. old \in Requests(count)
  BY DEF Requests
<1>3. Requests(less) = Requests(count) \ {old}
  <2>1. ASSUME NEW u \in Tenants, NEW n \in Nat \ {0}
        PROVE  n <= less[u] <=> (n <= count[u] /\ <<u, n>> # old)
    OBVIOUS
  <2> HIDE DEF less, old
  <2> QED BY <2>1 DEF Requests
<1> HIDE DEF old
<1> QED BY <1>1, <1>2, <1>3, FS_RemoveElement

LEMMA NoMoreThanAll ==
  ASSUME NEW count \in [Tenants -> Nat], NEW t \in Tenants, IsFiniteSet(Requests(count))
  PROVE  Cardinality(Requests(count)) \in Nat /\ count[t] <= Cardinality(Requests(count))
<1> DEFINE own == {t} \X (1..count[t])
<1>1. count[t] \in Nat
  OBVIOUS
<1>2. IsFiniteSet({t}) /\ Cardinality({t}) = 1
  BY FS_Singleton
<1>3. IsFiniteSet(1..count[t]) /\ Cardinality(1..count[t]) = count[t]
  <2>1. Cardinality(1..count[t]) = IF 1 > count[t] THEN 0 ELSE count[t] - 1 + 1
    BY <1>1, FS_Interval
  <2> QED BY <1>1, <2>1, FS_Interval
<1>4. Cardinality(own) = 1 * count[t]
  <2>1. Cardinality({t} \X (1..count[t])) = Cardinality({t}) * Cardinality(1..count[t])
    BY <1>2, <1>3, FS_Product
  <2> QED BY <1>2, <1>3, <2>1
<1>5. own \subseteq Requests(count)
  BY DEF Requests
<1> HIDE DEF own
<1>6. Cardinality(own) <= Cardinality(Requests(count))
  BY <1>5, FS_Subset
<1> QED BY <1>1, <1>4, <1>6, FS_CardinalityType

\* Each request was asked for by the mount, by a pick (with the effect it may set
\* off), by the end of a scan, or in the place of one that was answered.
RequestsBounded ==
  /\ asked \in [Tenants -> Nat]
  /\ IsFiniteSet(Requests(asked))
  /\ Cardinality(Requests(asked)) + (IF fetching THEN 0 ELSE 1) <= 1 + 2 * picks + refreshKey

ConnectTypes ==
  /\ context \in [preview : Tenants \cup {Connect!NoTenant}, subnets : SUBSET Connect!Cidrs]
  /\ selected \in Tenants \cup {Connect!NoTenant}
  /\ refreshKey \in 0..MaxScanEnds
  /\ subnets \in SUBSET Connect!Cidrs
  /\ picks \in 0..MaxPicks

\* The hosts selected under a subnet are hosts of it.
SelectionTyped ==
  /\ selection \in [subnets : SUBSET Connect!Cidrs,
                    hosts : [Connect!Cidrs -> SUBSET Connect!Hosts]]
  /\ \A cidr \in Connect!Cidrs : selection.hosts[cidr] \subseteq HostsOf[cidr]

SentTyped ==
  sent \in [tenant : Tenants \cup {Connect!NoTenant},
            routes : SUBSET (Connect!Cidrs \cup Connect!Hosts)]

\* What is shown once nothing is being loaded is the context of the tenant picked.
PreviewIsSelected ==
  ~fetching /\ context # Connect!NoContext => selected = context.preview

ConnectInv ==
  /\ fetching \in BOOLEAN
  /\ ConnectTypes /\ RequestsBounded /\ SelectionTyped /\ SentTyped /\ PreviewIsSelected

LEMMA ConnectTyped == ASSUME ConnectInv PROVE Connect!TypeOK
<1>1. asked \in [Tenants -> 0..Connect!MaxAsked]
  <2>1. ASSUME NEW t \in Tenants PROVE asked[t] \in 0..Connect!MaxAsked
    <3>1. asked[t] \in Nat /\ Cardinality(Requests(asked)) \in Nat
          /\ asked[t] <= Cardinality(Requests(asked))
      BY NoMoreThanAll DEF ConnectInv, RequestsBounded
    <3>2. Cardinality(Requests(asked)) <= 1 + 2 * picks + refreshKey
      BY <3>1, ConnectConstants DEF ConnectInv, RequestsBounded, ConnectTypes
    <3> QED BY <3>1, <3>2, ConnectConstants DEF ConnectInv, ConnectTypes, Connect!MaxAsked
  <2> QED BY <2>1 DEF ConnectInv, RequestsBounded
<1>2. fetching \in BOOLEAN
  BY DEF ConnectInv
<1> QED
  BY <1>1, <1>2
     DEF ConnectInv, ConnectTypes, SelectionTyped, SentTyped, Connect!TypeOK

LEMMA ConnectInitially == ASSUME Connect!Init PROVE ConnectInv
<1> USE ConnectConstants DEF Connect!Init
<1>1. fetching \in BOOLEAN
  OBVIOUS
<1>2. ConnectTypes
  BY DEF ConnectTypes, Connect!NoContext, Connect!NoTenant
<1>3. RequestsBounded
  <2>1. Requests(asked) = {<<GatewayTenant, 1>>}
    BY DEF Requests
  <2>2. IsFiniteSet(Requests(asked)) /\ Cardinality(Requests(asked)) = 1
    BY <2>1, FS_Singleton
  <2> QED BY <2>2 DEF RequestsBounded
<1>4. SelectionTyped
  BY DEF SelectionTyped, Connect!CreateEmptyRouteSelection
<1>5. SentTyped
  BY DEF SentTyped, Connect!NothingSent, Connect!NoTenant
<1>6. PreviewIsSelected
  BY DEF PreviewIsSelected
<1> QED BY <1>1, <1>2, <1>3, <1>4, <1>5, <1>6 DEF ConnectInv

LEMMA RequestsInductive ==
  ASSUME ConnectInv, [Connect!Next]_(Connect!vars)
  PROVE  RequestsBounded'
<1>0. ConnectTypes /\ RequestsBounded
  BY DEF ConnectInv
<1> USE ConnectConstants DEF RequestsBounded, ConnectTypes
<1>1. \A t \in Tenants : Cardinality(Requests(asked)) \in Nat
  BY <1>0, FS_CardinalityType
<1>2. Connect!Named \in Tenants \cup {Connect!NoTenant}
  BY <1>0 DEF Connect!Named
<1>3. Connect!Named \in Tenants
  BY <1>0 DEF Connect!Named
<1> DEFINE Moved(n) == /\ asked' \in [Tenants -> Nat] /\ IsFiniteSet(Requests(asked)')
                       /\ Cardinality(Requests(asked)') = Cardinality(Requests(asked)) + n
<1>4. Cardinality(Requests(asked)) \in Nat
  BY <1>0, FS_CardinalityType
<1>5. ASSUME NEW t \in Tenants, Connect!ContextReply(t) PROVE RequestsBounded'
  <2> DEFINE less == [asked EXCEPT ![t] = @ - 1]
  <2>1. /\ less \in [Tenants -> Nat] /\ IsFiniteSet(Requests(less))
        /\ Cardinality(Requests(less)) = Cardinality(Requests(asked)) - 1
    BY <1>0, <1>5, OneLess DEF Connect!ContextReply
  <2>0. refreshKey' = refreshKey /\ picks' = picks
    BY <1>5 DEF Connect!ContextReply
  <2>2. CASE refreshKey # 0 /\ t # selected
    <3>1. asked' = Connect!Ask(less, t)
      BY <1>5, <2>2 DEF Connect!ContextReply, Connect!EffectOnTenant
    <3>2. fetching' = TRUE
      <4>1. Connect!Ask(asked, t)[t] = asked[t] + 1
        BY <1>0 DEF Connect!Ask
      <4>2. Connect!Ask(asked, t) # asked
        BY <1>0, <4>1
      <4> QED BY <1>5, <2>2, <4>2 DEF Connect!ContextReply, Connect!EffectOnTenant
    <3> HIDE DEF less
    <3>3. /\ Connect!Ask(less, t) \in [Tenants -> Nat]
          /\ IsFiniteSet(Requests(Connect!Ask(less, t)))
          /\ Cardinality(Requests(Connect!Ask(less, t))) = Cardinality(Requests(less)) + 1
      BY <2>1, OneMore
    <3>4. Moved(0)
      BY <1>4, <2>1, <3>1, <3>3
    <3> HIDE DEF Requests
    <3> QED BY <1>0, <1>4, <2>0, <3>2, <3>4
  <2>3. CASE ~(refreshKey # 0 /\ t # selected)
    <3>1. asked' = less
      BY <1>5, <2>3 DEF Connect!ContextReply, Connect!EffectOnTenant
    <3> HIDE DEF less
    <3>2. Moved(-1)
      BY <1>4, <2>1, <3>1
    <3> QED BY <1>0, <1>4, <2>0, <3>2
  <2> QED BY <2>2, <2>3
<1>6. ASSUME NEW t \in Tenants, Connect!ContextFails(t) PROVE RequestsBounded'
  <2>1. Moved(-1)
    BY <1>0, <1>4, <1>6, OneLess DEF Connect!ContextFails
  <2> HIDE DEF Requests
  <2> QED BY <1>0, <1>4, <1>6, <2>1 DEF Connect!ContextFails
<1>7. ASSUME NEW t \in Tenants, Connect!HandleTenantChange(t) PROVE RequestsBounded'
  <2> DEFINE more == Connect!Ask(asked, t)
  <2>1. /\ more \in [Tenants -> Nat] /\ IsFiniteSet(Requests(more))
        /\ Cardinality(Requests(more)) = Cardinality(Requests(asked)) + 1
    BY <1>0, OneMore
  <2>2. asked' = Connect!Ask(more, t) \/ asked' = more
    BY <1>7 DEF Connect!HandleTenantChange, Connect!EffectOnTenant
  <2> HIDE DEF more
  <2>3. Moved(2) \/ Moved(1)
    BY <1>4, <2>1, <2>2, OneMore
  <2> QED BY <1>0, <1>4, <1>7, <2>3 DEF Connect!HandleTenantChange
<1>8. ASSUME Connect!Retry PROVE RequestsBounded'
  <2>1. Moved(1)
    BY <1>0, <1>3, <1>8, OneMore DEF Connect!Retry
  <2> QED BY <1>0, <1>4, <1>8, <2>1 DEF Connect!Retry
<1>9. ASSUME NEW found \in SUBSET Connect!Cidrs, NEW seen \in BOOLEAN,
             Connect!ScanEnds(found, seen)
      PROVE  RequestsBounded'
  <2>1. CASE seen
    <3>1. Moved(1)
      BY <1>0, <1>3, <1>9, <2>1, OneMore DEF Connect!ScanEnds
    <3> QED BY <1>0, <1>4, <1>9, <2>1, <3>1 DEF Connect!ScanEnds
  <2>2. CASE ~seen
    BY <1>0, <1>9, <2>2 DEF Connect!ScanEnds, Requests
  <2> QED BY <2>1, <2>2
<1>10. ASSUME UNCHANGED <<asked, fetching, picks, refreshKey>> PROVE RequestsBounded'
  BY <1>0, <1>10 DEF Requests
<1> QED
  BY <1>5, <1>6, <1>7, <1>8, <1>9, <1>10
     DEF Connect!Next, Connect!vars, Connect!Toggle, Connect!HandleSubmit

LEMMA SelectionInductive ==
  ASSUME ConnectInv, [Connect!Next]_(Connect!vars)
  PROVE  SelectionTyped'
<1>0. ConnectTypes /\ SelectionTyped
  BY DEF ConnectInv
<1> USE DEF SelectionTyped
<1>1. ASSUME selection' = Connect!CreateEmptyRouteSelection PROVE SelectionTyped'
  BY <1>1 DEF Connect!CreateEmptyRouteSelection
<1>2. ASSUME NEW cidr \in Connect!Cidrs, NEW ticked \in BOOLEAN,
             selection' = Connect!ToggleSubnet(cidr, ticked)
      PROVE  SelectionTyped'
  BY <1>0, <1>2 DEF Connect!ToggleSubnet
<1>3. ASSUME NEW cidr \in Connect!Cidrs, NEW ticked \in BOOLEAN, NEW host \in HostsOf[cidr],
             selection' = Connect!ToggleHost(cidr, host, ticked)
      PROVE  SelectionTyped'
  <2>1. host \in Connect!Hosts
    BY DEF Connect!Hosts
  <2> QED BY <1>0, <1>3, <2>1 DEF Connect!ToggleHost
<1>4. ASSUME NEW ticked \in BOOLEAN, selection' = Connect!ToggleAllSubnets(ticked)
      PROVE  SelectionTyped'
  BY <1>0, <1>4 DEF Connect!ToggleAllSubnets, Connect!CreateEmptyRouteSelection, ConnectTypes
<1>5. ASSUME UNCHANGED selection PROVE SelectionTyped'
  BY <1>0, <1>5
<1>6. ASSUME Connect!Toggle PROVE SelectionTyped'
  <2>1. context.subnets \subseteq Connect!Cidrs
    BY <1>0 DEF ConnectTypes
  <2> QED BY <1>2, <1>3, <1>4, <1>6, <2>1 DEF Connect!Toggle
<1> QED
  BY <1>1, <1>5, <1>6
     DEF Connect!Next, Connect!vars, Connect!ContextReply, Connect!ContextFails,
         Connect!HandleTenantChange, Connect!ScanEnds, Connect!Retry, Connect!HandleSubmit

LEMMA ConnectInductive ==
  ASSUME ConnectInv, [Connect!Next]_(Connect!vars)
  PROVE  ConnectInv' /\ Connect!SentAsShownStep
<1>0. ConnectTypes /\ SelectionTyped /\ SentTyped /\ PreviewIsSelected
  BY DEF ConnectInv
<1>1. fetching' \in BOOLEAN
  BY DEF ConnectInv, Connect!Next, Connect!vars, Connect!ContextReply, Connect!ContextFails,
         Connect!HandleTenantChange, Connect!ScanEnds, Connect!Retry, Connect!Toggle,
         Connect!HandleSubmit
<1> DEFINE Shown == ConnectTypes /\ PreviewIsSelected
<1> USE DEF ConnectTypes, PreviewIsSelected
<1>2. ASSUME NEW t \in Tenants, Connect!ContextReply(t) PROVE Shown'
  BY <1>0, <1>2 DEF Connect!ContextReply
<1>6. ASSUME NEW t \in Tenants, Connect!ContextFails(t) PROVE Shown'
  BY <1>0, <1>6 DEF Connect!ContextFails, Connect!NoContext
<1>7. ASSUME NEW t \in Tenants, Connect!HandleTenantChange(t) PROVE Shown'
  BY <1>0, <1>7, ConnectConstants DEF Connect!HandleTenantChange
<1>8. ASSUME NEW found \in SUBSET Connect!Cidrs, NEW seen \in BOOLEAN,
             Connect!ScanEnds(found, seen)
      PROVE  Shown'
  BY <1>0, <1>8, ConnectConstants DEF Connect!ScanEnds
<1>9. ASSUME Connect!Retry PROVE Shown'
  BY <1>0, <1>9 DEF Connect!Retry
<1>10. ASSUME UNCHANGED <<context, fetching, selected, refreshKey, subnets, picks>>
       PROVE  Shown'
  BY <1>0, <1>10
<1>11. Shown'
  BY <1>2, <1>6, <1>7, <1>8, <1>9, <1>10
     DEF Connect!Next, Connect!vars, Connect!Toggle, Connect!HandleSubmit
<1>3. ASSUME Connect!HandleSubmit PROVE SentTyped' /\ Connect!SentAsShownStep
  <2> DEFINE routes == Connect!BuildAdvertiseRoutes(context.subnets)
  <2>1. sent' = [tenant |-> selected, routes |-> routes] /\ selected = context.preview
    BY <1>0, <1>3 DEF Connect!HandleSubmit, Connect!CanSubmit, PreviewIsSelected
  <2>2. ASSUME NEW r
        PROVE  r \in routes <=>
                 \/ r \in selection.subnets \cap context.subnets
                 \/ \E cidr \in context.subnets \ selection.subnets :
                      r \in selection.hosts[cidr]
    BY DEF Connect!BuildAdvertiseRoutes
  <2>3. /\ context.subnets \subseteq Connect!Cidrs
        /\ \A cidr \in Connect!Cidrs :
             selection.hosts[cidr] \subseteq HostsOf[cidr] /\ HostsOf[cidr] \subseteq Connect!Hosts
    BY <1>0 DEF ConnectTypes, SelectionTyped, Connect!Hosts
  <2> HIDE DEF routes
  <2>4. routes \subseteq Connect!Cidrs \cup Connect!Hosts
    BY <2>2, <2>3
  <2>5. routes \cap Connect!Cidrs = {cidr \in context.subnets : Connect!SubnetTicked(cidr)}
    BY <2>2, <2>3, ConnectConstants DEF Connect!SubnetTicked
  <2>6. ASSUME NEW host, NEW found \in context.subnets, host \in HostsOf[found]
        PROVE  /\ Connect!Reached(host, routes) <=>
                    \E cidr \in context.subnets :
                      host \in HostsOf[cidr] /\ Connect!HostTicked(cidr, host)
               /\ host \in routes =>
                    \E cidr \in context.subnets :
                      host \in HostsOf[cidr] /\ ~Connect!SubnetTicked(cidr)
    <3>1. host \notin Connect!Cidrs
      BY <2>3, <2>6, ConnectConstants
    <3>2. host \in routes <=>
            \E cidr \in context.subnets \ selection.subnets : host \in selection.hosts[cidr]
      BY <2>2, <2>3, <3>1
    <3>3. \A cidr \in context.subnets : host \in selection.hosts[cidr] => host \in HostsOf[cidr]
      BY <2>3
    <3>4. (\E cidr \in routes \cap Connect!Cidrs : host \in HostsOf[cidr]) <=>
            \E cidr \in context.subnets : cidr \in selection.subnets /\ host \in HostsOf[cidr]
      BY <2>5 DEF Connect!SubnetTicked
    <3> QED
      BY <3>2, <3>3, <3>4 DEF Connect!Reached, Connect!HostTicked, Connect!SubnetTicked
  <2>7. Connect!SentAsShownStep
    <3>1. \A host \in UNION {HostsOf[cidr] : cidr \in context.subnets} :
            \E found \in context.subnets : host \in HostsOf[found]
      OBVIOUS
    <3> QED BY <2>1, <2>5, <2>6, <3>1 DEF Connect!SentAsShownStep
  <2> QED BY <1>0, <2>1, <2>4, <2>7 DEF SentTyped, ConnectTypes
<1>4. ASSUME UNCHANGED sent PROVE SentTyped' /\ Connect!SentAsShownStep
  BY <1>0, <1>4 DEF SentTyped, Connect!SentAsShownStep
<1>5. SentTyped' /\ Connect!SentAsShownStep
  BY <1>3, <1>4
     DEF Connect!Next, Connect!vars, Connect!ContextReply, Connect!ContextFails,
         Connect!HandleTenantChange, Connect!ScanEnds, Connect!Retry, Connect!Toggle
<1> QED BY <1>1, <1>5, <1>11, RequestsInductive, SelectionInductive DEF ConnectInv

-----------------------------------------------------------------------------
(* Following a network scan.                                               *)

LEMMA ScanConstants ==
  MaxScans \in Nat /\ MaxLoads \in Nat /\ MaxLoads > 0 /\ MaxFailures \in Nat
BY ConsoleAssumption

\* The page counts as the library does.
LEMMA SameCount == \A S : Scan!Cardinality(S) = Cardinality(S)
BY DEF Scan!Cardinality, Cardinality

\* A bounded set of numbers has its largest.
LEMMA MaxOfBounded ==
  ASSUME NEW N \in Nat, NEW S \in SUBSET (0..N), S # {}
  PROVE  Scan!Max(S) \in S /\ \A x \in S : x <= Scan!Max(S)
<1> DEFINE T == {y \in Nat : N - y \in S}
           R == {p \in Nat \X Nat : p[1] < p[2]}
<1>1. T \subseteq Nat /\ T # {}
  <2>1. PICK x \in S : x \in 0..N
    OBVIOUS
  <2>2. N - x \in Nat /\ N - (N - x) = x
    BY <2>1
  <2> QED BY <2>1, <2>2
<1>2. IsWellFoundedOn(R, Nat)
  BY NatLessThanWellFounded DEF OpToRel
<1>3. PICK y \in T : \A z \in T : ~ (z < y)
  <2>1. \E y \in T : \A z \in T : ~ (<<z, y>> \in R)
    <3> HIDE DEF T, R
    <3> QED BY <1>1, <1>2, WFMin
  <2>2. \A z, y \in T : <<z, y>> \in R <=> z < y
    <3>1. \A z, y \in Nat : <<z, y>> \in R <=> z < y
      OBVIOUS
    <3> HIDE DEF T, R
    <3> QED BY <1>1, <3>1
  <2> HIDE DEF T, R
  <2> QED BY <2>1, <2>2
<1> DEFINE x == N - y
<1>4. x \in S /\ y \in Nat
  BY <1>3
<1>5. ASSUME NEW w \in S PROVE x >= w
  <2>1. w \in 0..N /\ N - w \in Nat /\ N - (N - w) = w
    OBVIOUS
  <2>2. ~ (N - w < y)
    BY <1>3, <2>1
  <2> QED BY <1>4, <2>1, <2>2
<1> HIDE DEF x
<1> QED BY <1>4, <1>5 DEF Scan!Max

ScanTypes ==
  /\ status \in [Scan!Scans -> Scan!Statuses]
  /\ mode \in [Scan!Scans -> Scan!Modes \cup {"none"}]
  /\ loads \in [Scan!Loads -> [stage : {"free", "asked", "read"}, row : Scan!Rows]]
  /\ shown \in [Scan!Modes -> Scan!Scans \cup {Scan!NoScan}]
  /\ active \in Scan!Scans \cup {Scan!NoScan}
  /\ activeMode \in Scan!Modes \cup {"none"}
  /\ loops \subseteq [scan : Scan!Scans, live : BOOLEAN, stage : {"asking", "answered"},
                      got : Scan!Statuses \cup {"error"}]
  /\ owed \subseteq Scan!Scans
  /\ failures \in 0..MaxFailures

ScanFlags ==
  /\ loading \in BOOLEAN /\ failed \in BOOLEAN /\ polling \in BOOLEAN
  /\ installing \in BOOLEAN /\ left \in BOOLEAN /\ env \in Scan!Environments

\* A request that is sent has a mode, and one that was handled a scan too.
PostTyped ==
  /\ post \in [stage : {"none", "sent", "created"}, mode : Scan!Modes \cup {"none"},
               scan : Scan!Scans \cup {Scan!NoScan}]
  /\ post.stage # "none" => post.mode \in Scan!Modes
  /\ post.stage = "created" => post.scan \in Scan!Scans

\* While the page polls, one loop is live, that of the scan the page follows.
OneLiveLoop ==
  /\ polling <=> \E l \in loops : l.live
  /\ \A l \in loops : l.live => l.scan = active
  /\ \A k, l \in loops : k.live /\ l.live => k = l

\* Scans are numbered from one as they are created.
Numbered(k) == {c \in Scan!Scans : mode[c] # "none"} = 1..k
ScansInOrder == \E k \in 0..MaxScans : Numbered(k)

\* A table, and a row on its way, hold for a mode a scan of that mode.
OfItsMode(c, m) == c = Scan!NoScan \/ (c \in Scan!Scans /\ mode[c] = m)
TablesHoldTheirMode ==
  /\ \A m \in Scan!Modes : OfItsMode(shown[m], m)
  /\ \A l \in Scan!Loads : loads[l].stage = "read" =>
       env = "slow" /\ \A m \in Scan!Modes : OfItsMode(loads[l].row[m].scan, m)

ScanInv ==
  /\ ScanTypes /\ ScanFlags /\ PostTyped
  /\ OneLiveLoop /\ ScansInOrder /\ TablesHoldTheirMode

LEMMA ScanTyped == ASSUME ScanInv PROVE Scan!TypeOK
<1>1. Scan!Cardinality({l \in loops : l.live}) = (IF polling THEN 1 ELSE 0)
  <2>1. CASE polling
    <3>1. PICK l \in loops : l.live
      BY <2>1 DEF ScanInv, OneLiveLoop
    <3>2. {k \in loops : k.live} = {l}
      BY <3>1 DEF ScanInv, OneLiveLoop
    <3> QED BY <2>1, <3>2, FS_Singleton, SameCount
  <2>2. CASE ~polling
    <3>1. {k \in loops : k.live} = {}
      BY <2>2 DEF ScanInv, OneLiveLoop
    <3> QED BY <2>2, <3>1, FS_EmptySet, SameCount
  <2> QED BY <2>1, <2>2
<1>2. ScanTypes /\ ScanFlags /\ PostTyped
  BY DEF ScanInv
<1> QED BY <1>1, <1>2 DEF ScanTypes, ScanFlags, PostTyped, Scan!TypeOK

LEMMA ScanInitially == ASSUME Scan!Init PROVE ScanInv
<1> USE ScanConstants DEF Scan!Init
<1>1. ScanTypes
  <2>1. loads \in [Scan!Loads -> [stage : {"free", "asked", "read"}, row : Scan!Rows]]
    BY DEF Scan!NoLoad, Scan!NoRow, Scan!Rows, Scan!Statuses, Scan!Loads
  <2>2. /\ status \in [Scan!Scans -> Scan!Statuses]
        /\ mode \in [Scan!Scans -> Scan!Modes \cup {"none"}]
        /\ shown \in [Scan!Modes -> Scan!Scans \cup {Scan!NoScan}]
    BY DEF Scan!Statuses
  <2>3. /\ active \in Scan!Scans \cup {Scan!NoScan}
        /\ activeMode \in Scan!Modes \cup {"none"}
        /\ failures \in 0..MaxFailures
    OBVIOUS
  <2> QED BY <2>1, <2>2, <2>3 DEF ScanTypes
<1>2. ScanFlags
  BY DEF ScanFlags
<1>3. PostTyped
  BY DEF PostTyped, Scan!NoPost
<1>4. OneLiveLoop
  BY DEF OneLiveLoop
<1>5. ScansInOrder
  <2>1. Numbered(0)
    BY DEF Numbered
  <2> QED BY <2>1 DEF ScansInOrder
<1>6. TablesHoldTheirMode
  BY DEF TablesHoldTheirMode, OfItsMode, Scan!NoLoad
<1> QED BY <1>1, <1>2, <1>3, <1>4, <1>5, <1>6 DEF ScanInv

LEMMA RowTyped ==
  ASSUME ScanTypes
  PROVE  /\ Scan!CurrentRow \in Scan!Rows
         /\ \A m \in Scan!Modes :
              /\ OfItsMode(Scan!CurrentRow[m].scan, m)
              /\ \A c \in Scan!Scans : mode[c] = m => c <= Scan!CurrentRow[m].scan
<1> DEFINE row(m) ==
     IF Scan!OfMode(m) = {} THEN Scan!NoRow[m]
     ELSE [scan |-> Scan!Max(Scan!OfMode(m)), state |-> status[Scan!Max(Scan!OfMode(m))]]
<1>1. ASSUME NEW m \in Scan!Modes
      PROVE  /\ row(m) \in [scan : Scan!Scans \cup {Scan!NoScan}, state : Scan!Statuses]
             /\ OfItsMode(row(m).scan, m)
             /\ \A c \in Scan!Scans : mode[c] = m => c <= row(m).scan
  <2>1. CASE Scan!OfMode(m) = {}
    BY <2>1 DEF Scan!OfMode, Scan!NoRow, OfItsMode, Scan!Statuses
  <2>2. CASE Scan!OfMode(m) # {}
    <3>1. Scan!OfMode(m) \in SUBSET (0..MaxScans)
      BY ScanConstants DEF Scan!OfMode, Scan!Scans
    <3>2. /\ Scan!Max(Scan!OfMode(m)) \in Scan!OfMode(m)
          /\ \A x \in Scan!OfMode(m) : x <= Scan!Max(Scan!OfMode(m))
      BY <2>2, <3>1, ScanConstants, MaxOfBounded
    <3> HIDE DEF Scan!Max
    <3> QED BY <2>2, <3>2 DEF Scan!OfMode, OfItsMode, ScanTypes
  <2> QED BY <2>1, <2>2
<1>2. Scan!CurrentRow = [m \in Scan!Modes |-> row(m)]
  BY DEF Scan!CurrentRow
<1> HIDE DEF row
<1> QED BY <1>1, <1>2 DEF Scan!Rows

LEMMA InflightTyped ==
  ASSUME NEW row \in Scan!Rows
  PROVE  Scan!FindInflightScan(row) \in Scan!Scans \cup {Scan!NoScan}
<1> DEFINE S == {Scan!NoScan} \cup {row[m].scan : m \in Scan!InflightModes(row)}
<1>1. S \subseteq Scan!Scans \cup {Scan!NoScan}
  BY DEF Scan!Rows, Scan!InflightModes
<1>2. S \in SUBSET (0..MaxScans) /\ S # {}
  BY <1>1, ScanConstants DEF Scan!Scans, Scan!NoScan
<1> HIDE DEF S
<1>3. Scan!Max(S) \in S
  BY <1>2, ScanConstants, MaxOfBounded
<1> QED BY <1>1, <1>3 DEF Scan!FindInflightScan, S

LEMMA NextIsNew ==
  ASSUME ScanTypes, ScansInOrder, Scan!NextScan \in Scan!Scans
  PROVE  \E k \in 0..MaxScans : k < MaxScans /\ Scan!NextScan = k + 1 /\ Numbered(k)
<1>1. PICK k \in 0..MaxScans : Numbered(k)
  BY DEF ScansInOrder
<1>2. k \in Int /\ 1 \in Int
  BY ScanConstants
<1>3. Cardinality(1..k) = k
  BY <1>2, ScanConstants, FS_Interval
<1>4. Scan!NextScan = k + 1
  BY <1>1, <1>3, SameCount DEF Scan!NextScan, Numbered
<1>5. k < MaxScans
  <2>1. k + 1 \in 1..MaxScans
    BY <1>4 DEF Scan!Scans
  <2> QED BY <1>2, <2>1, ScanConstants
<1> HIDE DEF Scan!NextScan
<1> QED BY <1>1, <1>4, <1>5

\* A scan keeps its mode once it has one.
LEMMA ModesKept ==
  ASSUME ScanInv, [Scan!Next]_(Scan!vars)
  PROVE  /\ ScansInOrder' /\ mode' \in [Scan!Scans -> Scan!Modes \cup {"none"}]
         /\ status' \in [Scan!Scans -> Scan!Statuses]
         /\ \A c \in Scan!Scans : mode[c] # "none" => mode'[c] = mode[c]
<1>0. ScanTypes /\ ScansInOrder /\ PostTyped
  BY DEF ScanInv
<1>1. ASSUME NEW m \in Scan!Modes, Scan!Enqueue(m)
      PROVE  /\ ScansInOrder' /\ mode' \in [Scan!Scans -> Scan!Modes \cup {"none"}]
             /\ status' \in [Scan!Scans -> Scan!Statuses]
             /\ \A c \in Scan!Scans : mode[c] # "none" => mode'[c] = mode[c]
  <2>1. PICK k \in 0..MaxScans : k < MaxScans /\ Scan!NextScan = k + 1 /\ Numbered(k)
    BY <1>0, <1>1, NextIsNew DEF Scan!Enqueue
  <2>2. /\ mode' = [mode EXCEPT ![k + 1] = m] /\ status' = [status EXCEPT ![k + 1] = "open"]
        /\ k + 1 \in Scan!Scans
    BY <1>1, <2>1 DEF Scan!Enqueue
  <2>3. mode[k + 1] = "none"
    BY <2>1, <2>2, ScanConstants DEF Numbered
  <2>4. m # "none"
    BY DEF Scan!Modes
  <2>5. /\ mode' \in [Scan!Scans -> Scan!Modes \cup {"none"}]
        /\ status' \in [Scan!Scans -> Scan!Statuses]
    BY <1>0, <2>2 DEF ScanTypes, Scan!Statuses
  <2>6. \A c \in Scan!Scans : mode'[c] # "none" <=> (mode[c] # "none" \/ c = k + 1)
    BY <1>0, <2>2, <2>4 DEF ScanTypes
  <2>7. {c \in Scan!Scans : mode'[c] # "none"} = 1..(k + 1)
    <3>1. {c \in Scan!Scans : mode'[c] # "none"} = (1..k) \cup {k + 1}
      BY <2>1, <2>2, <2>6 DEF Numbered
    <3>2. (1..k) \cup {k + 1} = 1..(k + 1)
      BY <2>1, ScanConstants
    <3> QED BY <3>1, <3>2
  <2>8. k + 1 \in 0..MaxScans
    BY <2>1, ScanConstants
  <2>9. \E j \in 0..MaxScans : {c \in Scan!Scans : mode'[c] # "none"} = 1..j
    BY <2>7, <2>8
  <2>10. \A c \in Scan!Scans : mode[c] # "none" => mode'[c] = mode[c]
    BY <1>0, <2>2, <2>3 DEF ScanTypes
  <2> QED BY <2>5, <2>9, <2>10 DEF ScansInOrder, Numbered
<1>2. ASSUME Scan!ScanCreated PROVE post.mode \in Scan!Modes /\ Scan!Enqueue(post.mode)
  BY <1>0, <1>2 DEF Scan!ScanCreated, PostTyped
<1>3. ASSUME UNCHANGED mode, status' \in [Scan!Scans -> Scan!Statuses]
      PROVE  /\ ScansInOrder' /\ mode' \in [Scan!Scans -> Scan!Modes \cup {"none"}]
             /\ status' \in [Scan!Scans -> Scan!Statuses]
             /\ \A c \in Scan!Scans : mode[c] # "none" => mode'[c] = mode[c]
  BY <1>0, <1>3 DEF ScansInOrder, Numbered, ScanTypes
<1>4. ASSUME Scan!AgentWorks PROVE UNCHANGED mode /\ status' \in [Scan!Scans -> Scan!Statuses]
  BY <1>0, <1>4 DEF Scan!AgentWorks, ScanTypes, Scan!Statuses
<1>5. ASSUME UNCHANGED <<mode, status>>
      PROVE  UNCHANGED mode /\ status' \in [Scan!Scans -> Scan!Statuses]
  BY <1>0, <1>5 DEF ScanTypes
<1>6. ASSUME NEW m \in Scan!Modes, Scan!OtherScan(m) PROVE Scan!Enqueue(m)
  BY <1>6 DEF Scan!OtherScan
<1> QED
  BY <1>1, <1>2, <1>3, <1>4, <1>5, <1>6, Zenon
     DEF Scan!Next, Scan!vars, Scan!queueVars, Scan!Refresh, Scan!ReadRow, Scan!LoadReply,
         Scan!LoadFails, Scan!InstallQueued, Scan!Deadline, Scan!PollRead, Scan!PollEnds,
         Scan!PollAgain, Scan!PollIgnored, Scan!ScanNetwork, Scan!ScanAccepted,
         Scan!ScanRefused, Scan!InstallModule, Scan!InstallFails, Scan!Leave

\* What the loops, and what is said of them, have to be.
LoopTypes ==
  /\ active \in Scan!Scans \cup {Scan!NoScan}
  /\ activeMode \in Scan!Modes \cup {"none"}
  /\ loops \subseteq [scan : Scan!Scans, live : BOOLEAN, stage : {"asking", "answered"},
                      got : Scan!Statuses \cup {"error"}]
  /\ polling \in BOOLEAN

LEMMA Tracked ==
  ASSUME LoopTypes, OneLiveLoop, NEW c \in Scan!Scans, NEW m \in Scan!Modes \cup {"none"},
         Scan!Track(c, m)
  PROVE  LoopTypes' /\ OneLiveLoop'
<1> USE DEF LoopTypes
<1>1. CASE polling /\ active = c /\ activeMode = m
  BY <1>1 DEF Scan!Track, OneLiveLoop
<1>2. CASE ~(polling /\ active = c /\ activeMode = m)
  <2>1. active' = c /\ activeMode' = m /\ polling' = TRUE
        /\ loops' = Scan!Cancelled \cup {Scan!NewLoop(c)}
    BY <1>2 DEF Scan!Track
  <2>2. \A l \in Scan!Cancelled :
          /\ l \in [scan : Scan!Scans, live : BOOLEAN, stage : {"asking", "answered"},
                    got : Scan!Statuses \cup {"error"}]
          /\ ~l.live
    BY DEF Scan!Cancelled
  <2>3. /\ Scan!NewLoop(c) \in [scan : Scan!Scans, live : BOOLEAN,
                                stage : {"asking", "answered"},
                                got : Scan!Statuses \cup {"error"}]
        /\ Scan!NewLoop(c).live /\ Scan!NewLoop(c).scan = c
    BY DEF Scan!NewLoop, Scan!Statuses
  <2> HIDE DEF LoopTypes
  <2>4. LoopTypes'
    BY <2>1, <2>2, <2>3 DEF LoopTypes
  <2>5. OneLiveLoop'
    BY <2>1, <2>2, <2>3 DEF OneLiveLoop
  <2> QED BY <2>4, <2>5
<1> QED BY <1>1, <1>2

LEMMA Stopped ==
  ASSUME LoopTypes, OneLiveLoop, NEW l \in loops, l.live, Scan!StopTracking(l)
  PROVE  LoopTypes' /\ OneLiveLoop'
<1>1. LoopTypes'
  BY DEF LoopTypes, Scan!StopTracking
<1>2. OneLiveLoop'
  BY DEF OneLiveLoop, Scan!StopTracking
<1> QED BY <1>1, <1>2

LEMMA GoesOn ==
  ASSUME LoopTypes, OneLiveLoop, NEW l \in loops, l.live,
         NEW k \in [scan : Scan!Scans, live : BOOLEAN, stage : {"asking", "answered"},
                    got : Scan!Statuses \cup {"error"}],
         k.live, k.scan = l.scan, loops' = (loops \ {l}) \cup {k},
         UNCHANGED <<active, activeMode, polling>>
  PROVE  LoopTypes' /\ OneLiveLoop'
<1>1. LoopTypes'
  BY DEF LoopTypes
<1>2. OneLiveLoop'
  BY DEF OneLiveLoop
<1> QED BY <1>1, <1>2

LEMMA LoopsInductive ==
  ASSUME ScanInv, [Scan!Next]_(Scan!vars)
  PROVE  LoopTypes' /\ OneLiveLoop'
<1>0. LoopTypes /\ OneLiveLoop /\ ScanTypes /\ PostTyped
  BY DEF ScanInv, ScanTypes, ScanFlags, LoopTypes
<1>1. ASSUME NEW l \in Scan!Loads, Scan!LoadReply(l) PROVE LoopTypes' /\ OneLiveLoop'
  <2> DEFINE row == Scan!Answer(l)
  <2>1. row \in Scan!Rows
    BY <1>0, RowTyped DEF Scan!Answer, ScanTypes
  <2>2. Scan!Hydrate(row)
    BY <1>1 DEF Scan!LoadReply
  <2> DEFINE c == Scan!FindInflightScan(row)
  <2> HIDE DEF row
  <2>3. c \in Scan!Scans \cup {Scan!NoScan}
    BY <2>1, InflightTyped
  <2>4. IF c # Scan!NoScan THEN Scan!Track(c, mode[c]) ELSE UNCHANGED Scan!pollVars
    BY <2>2 DEF Scan!Hydrate
  <2> HIDE DEF c
  <2>5. CASE c # Scan!NoScan
    <3>1. c \in Scan!Scans /\ mode[c] \in Scan!Modes \cup {"none"}
      BY <1>0, <2>3, <2>5 DEF ScanTypes
    <3> QED BY <1>0, <2>4, <2>5, <3>1, Tracked
  <2>6. CASE c = Scan!NoScan
    BY <1>0, <2>4, <2>6 DEF Scan!pollVars, LoopTypes, OneLiveLoop
  <2> QED BY <2>5, <2>6
<1>2. ASSUME NEW l \in loops, Scan!Deadline(l) PROVE LoopTypes' /\ OneLiveLoop'
  BY <1>0, <1>2, Stopped DEF Scan!Deadline
<1>3. ASSUME NEW l \in loops, Scan!PollEnds(l) PROVE LoopTypes' /\ OneLiveLoop'
  BY <1>0, <1>3, Stopped DEF Scan!PollEnds
<1>4. ASSUME NEW l \in loops, Scan!PollRead(l) PROVE LoopTypes' /\ OneLiveLoop'
  <2>1. PICK got \in {status[l.scan], "error"} :
          loops' = (loops \ {l}) \cup {[l EXCEPT !.stage = "answered", !.got = got]}
    BY <1>4 DEF Scan!PollRead
  <2>2. /\ l \in [scan : Scan!Scans, live : BOOLEAN, stage : {"asking", "answered"},
                  got : Scan!Statuses \cup {"error"}]
        /\ got \in Scan!Statuses \cup {"error"}
    BY <1>0 DEF ScanTypes
  <2> DEFINE k == [l EXCEPT !.stage = "answered", !.got = got]
  <2>3. /\ k \in [scan : Scan!Scans, live : BOOLEAN, stage : {"asking", "answered"},
                  got : Scan!Statuses \cup {"error"}]
        /\ k.live = l.live /\ k.scan = l.scan
    BY <2>2
  <2>4. l.live /\ UNCHANGED <<active, activeMode, polling>>
    BY <1>4 DEF Scan!PollRead
  <2>5. loops' = (loops \ {l}) \cup {k}
    BY <2>1
  <2> HIDE DEF k
  <2> QED BY <1>0, <2>3, <2>4, <2>5, GoesOn
<1>5. ASSUME NEW l \in loops, Scan!PollAgain(l) PROVE LoopTypes' /\ OneLiveLoop'
  <2> DEFINE k == [l EXCEPT !.stage = "asking", !.got = "absent"]
  <2>1. l \in [scan : Scan!Scans, live : BOOLEAN, stage : {"asking", "answered"},
               got : Scan!Statuses \cup {"error"}]
    BY <1>0 DEF ScanTypes
  <2>2. /\ k \in [scan : Scan!Scans, live : BOOLEAN, stage : {"asking", "answered"},
                  got : Scan!Statuses \cup {"error"}]
        /\ k.live = l.live /\ k.scan = l.scan
    BY <2>1 DEF Scan!Statuses
  <2>3. loops' = (loops \ {l}) \cup {k} /\ l.live /\ UNCHANGED <<active, activeMode, polling>>
    BY <1>5 DEF Scan!PollAgain
  <2> HIDE DEF k
  <2> QED BY <1>0, <2>2, <2>3, GoesOn
<1>6. ASSUME NEW l \in loops, Scan!PollIgnored(l) PROVE LoopTypes' /\ OneLiveLoop'
  BY <1>0, <1>6 DEF Scan!PollIgnored, LoopTypes, OneLiveLoop
<1>7. ASSUME Scan!ScanAccepted PROVE LoopTypes' /\ OneLiveLoop'
  BY <1>0, <1>7, Tracked DEF Scan!ScanAccepted, PostTyped
<1>8. ASSUME Scan!Leave PROVE LoopTypes' /\ OneLiveLoop'
  BY <1>0, <1>8 DEF Scan!Leave, LoopTypes, OneLiveLoop
<1>9. ASSUME UNCHANGED Scan!pollVars PROVE LoopTypes' /\ OneLiveLoop'
  BY <1>0, <1>9 DEF Scan!pollVars, LoopTypes, OneLiveLoop
<1> QED
  BY <1>1, <1>2, <1>3, <1>4, <1>5, <1>6, <1>7, <1>8, <1>9
     DEF Scan!Next, Scan!vars, Scan!pollVars, Scan!Refresh, Scan!ReadRow,
         Scan!LoadFails, Scan!InstallQueued, Scan!ScanNetwork, Scan!OtherScan,
         Scan!ScanCreated, Scan!ScanRefused, Scan!InstallModule, Scan!InstallFails,
         Scan!AgentWorks

LEMMA PostInductive ==
  ASSUME ScanInv, [Scan!Next]_(Scan!vars)
  PROVE  PostTyped' /\ ScanFlags'
<1>0. PostTyped /\ ScanFlags
  BY DEF ScanInv
<1>4. ASSUME NEW m \in Scan!Modes, Scan!ScanNetwork(m) PROVE PostTyped'
  BY <1>4 DEF Scan!ScanNetwork, PostTyped
<1>5. ASSUME Scan!ScanCreated PROVE PostTyped'
  <2>1. Scan!NextScan \in Scan!Scans
    BY <1>5 DEF Scan!ScanCreated, Scan!Enqueue
  <2> QED BY <1>0, <1>5, <2>1 DEF Scan!ScanCreated, PostTyped
<1>6. ASSUME post' = Scan!NoPost PROVE PostTyped'
  BY <1>6 DEF PostTyped, Scan!NoPost
<1>7. ASSUME UNCHANGED post PROVE PostTyped'
  BY <1>0, <1>7 DEF PostTyped
<1>1. PostTyped'
  BY <1>4, <1>5, <1>6, <1>7, Zenon
     DEF Scan!Next, Scan!vars,
         Scan!Refresh, Scan!ReadRow, Scan!LoadReply, Scan!LoadFails, Scan!InstallQueued,
         Scan!Deadline, Scan!PollRead, Scan!PollEnds, Scan!PollAgain, Scan!PollIgnored,
         Scan!OtherScan, Scan!ScanAccepted,
         Scan!ScanRefused, Scan!InstallModule, Scan!InstallFails, Scan!Leave, Scan!AgentWorks
<1>2. /\ loading' \in {loading, TRUE, FALSE} /\ failed' \in {failed, TRUE, FALSE}
      /\ installing' \in {installing, TRUE, FALSE} /\ left' \in {left, TRUE} /\ env' = env
  BY Zenon DEF Scan!Next, Scan!vars, Scan!StartLoad,
         Scan!Refresh, Scan!ReadRow, Scan!LoadReply, Scan!LoadFails, Scan!InstallQueued,
         Scan!Deadline, Scan!PollRead, Scan!PollEnds, Scan!PollAgain, Scan!PollIgnored,
         Scan!ScanNetwork, Scan!OtherScan, Scan!ScanCreated, Scan!ScanAccepted,
         Scan!ScanRefused, Scan!InstallModule, Scan!InstallFails, Scan!Leave, Scan!AgentWorks
<1>3. polling' \in BOOLEAN
  BY LoopsInductive DEF LoopTypes
<1> QED BY <1>0, <1>1, <1>2, <1>3 DEF ScanFlags

\* What is said of the rows, the tables and the counts.
TableTypes ==
  /\ loads \in [Scan!Loads -> [stage : {"free", "asked", "read"}, row : Scan!Rows]]
  /\ shown \in [Scan!Modes -> Scan!Scans \cup {Scan!NoScan}]
  /\ owed \subseteq Scan!Scans
  /\ failures \in 0..MaxFailures

LEMMA TablesInductive ==
  ASSUME ScanInv, [Scan!Next]_(Scan!vars)
  PROVE  TableTypes' /\ TablesHoldTheirMode' /\ (~left' => Scan!TablesFollow)
<1>0. ScanTypes /\ TablesHoldTheirMode /\ TableTypes
  BY DEF ScanInv, ScanTypes, TableTypes
<1>1. /\ mode \in [Scan!Scans -> Scan!Modes \cup {"none"}]
      /\ \A c \in Scan!Scans : mode[c] # "none" => mode'[c] = mode[c]
  BY ModesKept DEF ScanInv, ScanTypes
<1>2. \A c, m : m \in Scan!Modes /\ OfItsMode(c, m) => OfItsMode(c, m)'
  BY <1>1 DEF OfItsMode, Scan!Modes
<1> DEFINE Rest == TableTypes /\ TablesHoldTheirMode
           Follow == ~left' => Scan!TablesFollow
\* Tables and rows are left alone, or rows are dropped.
<1>3. ASSUME UNCHANGED <<shown, env>>, owed' \subseteq Scan!Scans, failures' \in 0..MaxFailures,
             loads' \in [Scan!Loads -> [stage : {"free", "asked", "read"}, row : Scan!Rows]],
             \A l \in Scan!Loads : loads'[l] = loads[l] \/ loads'[l].stage # "read"
      PROVE  Rest' /\ Follow
  <2>1. TableTypes'
    BY <1>0, <1>3 DEF TableTypes
  <2>2. TablesHoldTheirMode'
    BY <1>0, <1>2, <1>3 DEF TablesHoldTheirMode
  <2>3. Follow
    BY <1>3 DEF Scan!TablesFollow
  <2> QED BY <2>1, <2>2, <2>3
<1>4. ASSUME NEW l \in Scan!Loads, Scan!ReadRow(l) PROVE Rest' /\ Follow
  <2>0. /\ Scan!CurrentRow \in Scan!Rows
        /\ \A m \in Scan!Modes : OfItsMode(Scan!CurrentRow[m].scan, m)
    BY <1>0, RowTyped
  <2>1. /\ loads' = [loads EXCEPT ![l] = [stage |-> "read", row |-> Scan!CurrentRow]]
        /\ UNCHANGED <<shown, owed, failures, env, mode>> /\ env = "slow"
    BY <1>4 DEF Scan!ReadRow, Scan!queueVars
  <2> HIDE DEF Scan!CurrentRow
  <2>2. TableTypes'
    BY <1>0, <2>0, <2>1 DEF TableTypes
  <2>3. TablesHoldTheirMode'
    BY <1>0, <1>2, <2>0, <2>1 DEF TablesHoldTheirMode, TableTypes
  <2>4. Follow
    BY <2>1 DEF Scan!TablesFollow
  <2> QED BY <2>2, <2>3, <2>4
<1>5. ASSUME NEW l \in Scan!Loads, Scan!LoadReply(l) PROVE Rest' /\ Follow
  <2> DEFINE row == Scan!Answer(l)
  <2>1. /\ row \in Scan!Rows
        /\ \A m \in Scan!Modes : OfItsMode(row[m].scan, m)
        /\ env # "slow" =>
             \A m \in Scan!Modes : \A c \in Scan!Scans : mode[c] = m => c <= row[m].scan
    BY <1>0, RowTyped DEF Scan!Answer, TableTypes, TablesHoldTheirMode
  <2>2. /\ loads' = [loads EXCEPT ![l] = Scan!NoLoad]
        /\ shown' = [m \in Scan!Modes |-> IF row[m].state = "acked" THEN row[m].scan ELSE shown[m]]
        /\ loads[l].stage # "free"
        /\ owed' \subseteq owed /\ UNCHANGED <<failures, env, mode>>
    BY <1>5 DEF Scan!LoadReply, Scan!Hydrate, Scan!queueVars
  <2> HIDE DEF row
  <2>3. TableTypes'
    <3>1. Scan!NoLoad \in [stage : {"free", "asked", "read"}, row : Scan!Rows]
      BY DEF Scan!NoLoad, Scan!NoRow, Scan!Rows, Scan!Statuses
    <3>2. \A m \in Scan!Modes : row[m].scan \in Scan!Scans \cup {Scan!NoScan}
      BY <2>1 DEF Scan!Rows
    <3> HIDE DEF Scan!NoLoad
    <3> QED BY <1>0, <2>2, <3>1, <3>2 DEF TableTypes
  <2>4. TablesHoldTheirMode'
    BY <1>0, <1>2, <2>1, <2>2 DEF TablesHoldTheirMode, TableTypes, Scan!NoLoad
  <2>5. Follow
    <3>1. loads'[l].stage = "free"
      BY <1>0, <2>2 DEF TableTypes, Scan!NoLoad
    <3>2. ASSUME NEW m \in Scan!Modes, shown'[m] # shown[m]
          PROVE  /\ row[m] = [scan |-> shown'[m], state |-> "acked"]
                 /\ env = "slow" \/ shown'[m] > shown[m]
      <4>1. /\ row[m] \in [scan : Scan!Scans \cup {Scan!NoScan}, state : Scan!Statuses]
            /\ shown[m] \in Scan!Scans \cup {Scan!NoScan}
        BY <1>0, <2>1 DEF Scan!Rows, TableTypes
      <4>2. row[m].state = "acked" /\ row[m].scan = shown'[m]
        BY <2>2, <3>2
      <4>3. row[m] = [scan |-> shown'[m], state |-> "acked"]
        BY <4>1, <4>2
      <4>4. ASSUME env # "slow" PROVE shown'[m] > shown[m]
        <5>1. shown[m] # Scan!NoScan => shown[m] <= row[m].scan
          BY <1>0, <2>1, <4>4 DEF TablesHoldTheirMode, OfItsMode
        <5> QED BY <3>2, <4>1, <4>2, <5>1 DEF Scan!Scans, Scan!NoScan
      <4> QED BY <4>3, <4>4
    <3> QED BY <2>2, <3>1, <3>2 DEF row, Scan!TablesFollow
  <2> QED BY <2>3, <2>4, <2>5
<1>6. ASSUME NEW l \in loops, Scan!PollEnds(l) PROVE Rest' /\ Follow
  <2>1. /\ shown' = shown \/ shown' = [shown EXCEPT ![mode[l.scan]] = l.scan]
        /\ shown' # shown => l.got = "acked" /\ shown' = [shown EXCEPT ![mode[l.scan]] = l.scan]
        /\ owed' \subseteq owed /\ l.live /\ l.stage = "answered"
        /\ UNCHANGED <<loads, failures, env, mode>>
    BY <1>6 DEF Scan!PollEnds, Scan!StopTracking, Scan!queueVars
  <2>2. l.scan \in Scan!Scans /\ l.scan = active
    BY <1>0, <2>1 DEF ScanInv, OneLiveLoop, ScanTypes
  <2>3. TableTypes'
    BY <1>0, <2>1, <2>2 DEF TableTypes
  <2>4. TablesHoldTheirMode'
    BY <1>0, <2>1, <2>2 DEF TablesHoldTheirMode, OfItsMode, TableTypes
  <2>5. Follow
    <3>1. ASSUME NEW m \in Scan!Modes, shown'[m] # shown[m]
          PROVE  /\ Scan!FollowedAnswer(l) /\ l.got = "acked"
                 /\ mode[active] = m /\ shown'[m] = active
      BY <1>0, <2>1, <2>2, <3>1 DEF Scan!FollowedAnswer, TableTypes
    <3> QED BY <3>1 DEF Scan!TablesFollow
  <2> QED BY <2>3, <2>4, <2>5
<1>7. ASSUME Scan!Leave PROVE Rest' /\ Follow
  <2>1. /\ loads' = [l \in Scan!Loads |-> Scan!NoLoad]
        /\ shown' = [m \in Scan!Modes |-> Scan!NoScan]
        /\ owed' = {} /\ left' = TRUE /\ UNCHANGED failures
    BY <1>7 DEF Scan!Leave
  <2>2. TableTypes'
    BY <1>0, <2>1 DEF TableTypes, Scan!NoLoad, Scan!NoRow, Scan!Rows, Scan!Statuses
  <2>3. TablesHoldTheirMode'
    BY <2>1 DEF TablesHoldTheirMode, OfItsMode, Scan!NoLoad
  <2> QED BY <2>1, <2>2, <2>3
<1>8. ASSUME NEW l \in Scan!Loads, Scan!Refresh(l) \/ Scan!InstallQueued(l)
      PROVE  Rest' /\ Follow
  <2>1. /\ loads' = [loads EXCEPT ![l].stage = "asked"]
        /\ UNCHANGED <<shown, owed, failures, env>>
    BY <1>8 DEF Scan!Refresh, Scan!InstallQueued, Scan!StartLoad
  <2> QED BY <1>0, <1>3, <2>1 DEF TableTypes
<1>9. ASSUME NEW l \in Scan!Loads, Scan!LoadFails(l) PROVE Rest' /\ Follow
  <2>1. /\ loads' = [loads EXCEPT ![l] = Scan!NoLoad] /\ failures' = failures + 1
        /\ UNCHANGED <<shown, owed, env>> /\ failures < MaxFailures
    BY <1>9 DEF Scan!LoadFails, Scan!MayFail
  <2>2. /\ Scan!NoLoad \in [stage : {"free", "asked", "read"}, row : Scan!Rows]
        /\ Scan!NoLoad.stage # "read"
    BY DEF Scan!NoLoad, Scan!NoRow, Scan!Rows, Scan!Statuses
  <2> HIDE DEF Scan!NoLoad
  <2> QED BY <1>0, <1>3, <2>1, <2>2, ScanConstants DEF TableTypes
<1>10. ASSUME UNCHANGED <<shown, loads, env>>, owed' \subseteq Scan!Scans,
              failures' \in 0..MaxFailures
       PROVE  Rest' /\ Follow
  BY <1>0, <1>3, <1>10 DEF TableTypes
<1>11. ASSUME \/ \E l \in loops : Scan!Deadline(l) \/ Scan!PollRead(l) \/ Scan!PollAgain(l)
                                    \/ Scan!PollIgnored(l)
              \/ Scan!ScanRefused \/ Scan!InstallFails
       PROVE  Rest' /\ Follow
  <2>1. owed' \subseteq owed /\ UNCHANGED <<shown, loads, env>>
    BY <1>11, Zenon DEF Scan!Deadline, Scan!PollRead, Scan!PollAgain, Scan!PollIgnored,
                 Scan!ScanRefused, Scan!InstallFails
  <2>2. failures' \in {failures, failures + 1} /\ (failures' # failures => failures < MaxFailures)
    BY <1>11, Zenon DEF Scan!Deadline, Scan!PollRead, Scan!PollAgain, Scan!PollIgnored,
                 Scan!ScanRefused, Scan!InstallFails, Scan!MayFail
  <2>3. failures' \in 0..MaxFailures
    BY <1>0, <2>2, ScanConstants DEF TableTypes
  <2> QED BY <1>0, <1>10, <2>1, <2>3 DEF TableTypes
<1>12. ASSUME Scan!ScanAccepted PROVE Rest' /\ Follow
  <2>1. post.scan \in Scan!Scans
    BY <1>12 DEF Scan!ScanAccepted, ScanInv, PostTyped
  <2> QED BY <1>0, <1>10, <1>12, <2>1 DEF Scan!ScanAccepted, TableTypes
<1>13. ASSUME UNCHANGED <<shown, loads, env, owed, failures>> PROVE Rest' /\ Follow
  BY <1>0, <1>10, <1>13 DEF TableTypes
<1>14. Rest' /\ Follow
  BY <1>4, <1>5, <1>6, <1>7, <1>8, <1>9, <1>11, <1>12, <1>13
     DEF Scan!Next, Scan!vars, Scan!ScanNetwork, Scan!OtherScan, Scan!ScanCreated,
         Scan!InstallModule, Scan!AgentWorks
<1> QED BY <1>14

\* A page that goes on stops following a scan only in the step that ends its loop.
LEMMA FollowingKept ==
  ASSUME ScanInv, [Scan!Next]_(Scan!vars)
  PROVE  ~left' => Scan!FollowingEnds
<1> USE DEF Scan!FollowingEnds
<1>1. ASSUME NEW l \in loops, Scan!Deadline(l) \/ Scan!PollEnds(l)
      PROVE  Scan!FollowingEnds
  <2>1. l.live /\ (l.stage = "asking" \/ (l.stage = "answered" /\ l.got # "open"))
    BY <1>1 DEF Scan!Deadline, Scan!PollEnds
  <2>2. l.scan = active
    BY <2>1 DEF ScanInv, OneLiveLoop
  <2> QED BY <2>1, <2>2
<1>2. ASSUME NEW l \in Scan!Loads, Scan!LoadReply(l) PROVE Scan!FollowingEnds
  <2>1. polling' = TRUE \/ polling' = polling
    BY <1>2 DEF Scan!LoadReply, Scan!Hydrate, Scan!Track, Scan!pollVars
  <2> QED BY <2>1
<1>3. ASSUME Scan!ScanAccepted PROVE Scan!FollowingEnds
  BY <1>3 DEF Scan!ScanAccepted, Scan!Track
<1>4. ASSUME UNCHANGED polling PROVE Scan!FollowingEnds
  BY <1>4
<1>5. ASSUME Scan!Leave PROVE left'
  BY <1>5 DEF Scan!Leave
<1> HIDE DEF Scan!FollowingEnds
<1> QED
  BY <1>1, <1>2, <1>3, <1>4, <1>5, Zenon
     DEF Scan!Next, Scan!vars, Scan!pollVars, Scan!Refresh, Scan!ReadRow, Scan!LoadFails,
         Scan!InstallQueued, Scan!PollRead, Scan!PollAgain, Scan!PollIgnored, Scan!ScanNetwork,
         Scan!OtherScan, Scan!ScanCreated, Scan!ScanRefused, Scan!InstallModule,
         Scan!InstallFails, Scan!AgentWorks

LEMMA ScanInductive ==
  ASSUME ScanInv, [Scan!Next]_(Scan!vars)
  PROVE  ScanInv' /\ Scan!SilentStep
<1>1. ScanTypes'
  BY ModesKept, LoopsInductive, TablesInductive DEF ScanTypes, LoopTypes, TableTypes
<1> QED
  BY <1>1, ModesKept, LoopsInductive, PostInductive, TablesInductive, FollowingKept
     DEF ScanInv, Scan!SilentStep

-----------------------------------------------------------------------------
(* The monitoring panel.                                                   *)

LEMMA PanelConstants ==
  /\ MaxUnderWay \in Nat /\ MaxChanges \in Nat /\ MaxFailures \in Nat
  /\ Pages \in Nat /\ Pages > 0 /\ NoFilter \in Filters
BY ConsoleAssumption

PanelRows == {Panel!NoRows} \cup [key : Panel!Keys, late : BOOLEAN, data : 0..MaxChanges]

PanelTables ==
  [page : 1..Pages, typed : Filters, filter : Filters, underWay : Seq(Panel!Requests),
   loading : BOOLEAN, rows : PanelRows]

PanelClicks ==
  {Panel!NoClick} \cup [at : {"post", "policy"}, kind : Panel!Kinds, keys : [Tables -> Panel!Keys]]

\* The key of a table, and its request that will be answered last.
KeyOf(table) == [page |-> table.page, filter |-> table.filter]
LastOf(table) == table.underWay[Len(table.underWay)]

\* A scan that is asked for has still to start its window.
ToBeQueued == IF clicks["scan"].at = "post" THEN 1 ELSE 0

\* The counts: the poll's windows, and the changes of the data, are changes.
PanelCounts ==
  /\ changes \in 0..MaxChanges /\ data \in 0..changes
  /\ windows \in 0..changes /\ windows + ToBeQueued <= changes
  /\ failures \in 0..MaxFailures

PanelFlags ==
  /\ vulnEnabled \in BOOLEAN /\ pollActive \in BOOLEAN /\ ordered \in BOOLEAN
  /\ clicks \in [Panel!Buttons -> PanelClicks]

TablesTyped ==
  /\ tables \in [Tables -> PanelTables]
  /\ \A t \in Tables : Len(tables[t].underWay) <= MaxUnderWay + 1

\* A table that waits for a reply waits last for its key, or for what a click has
\* read late; and one that waits for none shows what was listed for it so.
ForKey(request, table) == request.key = KeyOf(table) \/ request.late
ForItsKey(table) ==
  IF table.underWay = <<>> THEN ForKey(table.rows, table) ELSE ForKey(LastOf(table), table)

TablesForTheirKeys == ordered /\ failures = 0 => \A t \in Tables : ForItsKey(tables[t])

PanelInv == PanelCounts /\ PanelFlags /\ TablesTyped /\ TablesForTheirKeys

LEMMA PanelTyped == ASSUME PanelInv PROVE Panel!TypeOK /\ Panel!RestingTableShowsItsKey
<1>1. Panel!RestingTableShowsItsKey
  BY DEF PanelInv, TablesForTheirKeys, ForItsKey, ForKey, KeyOf, Panel!Key,
         Panel!RestingTableShowsItsKey
<1>2. ASSUME NEW t \in Tables
      PROVE  /\ tables[t].page \in 1..Pages
             /\ tables[t].typed \in Filters /\ tables[t].filter \in Filters
             /\ tables[t].underWay \in Seq(Panel!Requests)
             /\ Len(tables[t].underWay) <= MaxUnderWay + 1
             /\ tables[t].loading \in BOOLEAN
             /\ tables[t].rows \in PanelRows
  BY DEF PanelInv, TablesTyped, PanelTables
<1>3. data \in 0..MaxChanges /\ windows \in 0..MaxChanges /\ changes \in 0..MaxChanges
      /\ failures \in 0..MaxFailures
  BY PanelConstants DEF PanelInv, PanelCounts
<1>4. /\ vulnEnabled \in BOOLEAN /\ pollActive \in BOOLEAN /\ ordered \in BOOLEAN
      /\ \A b \in Panel!Buttons : clicks[b] \in PanelClicks
  BY DEF PanelInv, PanelFlags
<1>5. Panel!TypeOK
  BY <1>2, <1>3, <1>4 DEF Panel!TypeOK, PanelRows, PanelClicks
<1> QED BY <1>1, <1>5

LEMMA PanelInitially == ASSUME Panel!Init PROVE PanelInv
<1> USE PanelConstants DEF Panel!Init
<1>1. Panel!Fresh \in PanelTables /\ Len(Panel!Fresh.underWay) = 1
      /\ ForItsKey(Panel!Fresh)
  <2> DEFINE first == [key |-> [page |-> 1, filter |-> NoFilter], by |-> "page", late |-> FALSE]
  <2>1. first \in Panel!Requests /\ first.key = [page |-> 1, filter |-> NoFilter]
    BY DEF Panel!Keys, Panel!Requests
  <2>2. Panel!Fresh = [page |-> 1, typed |-> NoFilter, filter |-> NoFilter, underWay |-> <<first>>,
                       loading |-> TRUE, rows |-> Panel!NoRows]
    BY DEF Panel!Fresh
  <2> HIDE DEF first
  <2>3. <<first>> \in Seq(Panel!Requests) /\ Len(<<first>>) = 1 /\ <<first>> # <<>>
        /\ <<first>>[1] = first
    BY <2>1
  <2>4. Panel!Fresh \in PanelTables
    <3>1. Panel!NoRows \in PanelRows /\ 1 \in 1..Pages
      BY DEF PanelRows
    <3> QED BY <2>2, <2>3, <3>1 DEF PanelTables
  <2> QED BY <2>1, <2>2, <2>3, <2>4 DEF ForItsKey, ForKey, LastOf, KeyOf
<1> HIDE DEF Panel!Fresh
<1>2. PanelCounts
  BY DEF PanelCounts, ToBeQueued, Panel!NoClick, Panel!Buttons
<1>3. PanelFlags
  BY DEF PanelFlags, PanelClicks
<1>4. TablesTyped
  <2>1. \A t \in Tables : tables[t] = Panel!Fresh
    OBVIOUS
  <2>2. 1 <= MaxUnderWay + 1
    OBVIOUS
  <2> QED BY <1>1, <2>1, <2>2 DEF TablesTyped
<1>5. TablesForTheirKeys
  BY <1>1 DEF TablesForTheirKeys
<1> QED BY <1>2, <1>3, <1>4, <1>5 DEF PanelInv

\* A load adds one request, and the table waits for its own key or a late one.
LEMMA LoadedFor ==
  ASSUME NEW table \in PanelTables, NEW key \in Panel!Keys, NEW by \in Panel!Buttons \cup {"page"}
  PROVE  LET loaded == Panel!LoadFor(table, key, by)
         IN  /\ loaded \in PanelTables
             /\ Len(loaded.underWay) = Len(table.underWay) + 1
             /\ loaded.underWay # <<>> /\ ForItsKey(loaded)
<1> DEFINE request == [key |-> key, by |-> by, late |-> key # KeyOf(table)]
           loaded == Panel!LoadFor(table, key, by)
<1>1. request \in Panel!Requests /\ table.underWay \in Seq(Panel!Requests)
  BY DEF PanelTables, Panel!Requests
<1>2. request.key = key /\ (request.late \/ key = KeyOf(table))
  OBVIOUS
<1>3. loaded = [table EXCEPT !.underWay = Append(@, request), !.loading = TRUE]
  BY DEF Panel!LoadFor, KeyOf
<1> HIDE DEF request, loaded
<1>4. /\ Append(table.underWay, request) \in Seq(Panel!Requests)
      /\ Len(Append(table.underWay, request)) = Len(table.underWay) + 1
      /\ Append(table.underWay, request)[Len(table.underWay) + 1] = request
      /\ Append(table.underWay, request) # <<>>
  <2> DEFINE s == table.underWay
  <2>1. s \in Seq(Panel!Requests)
    BY <1>1
  <2> HIDE DEF s
  <2>2. /\ Append(s, request) \in Seq(Panel!Requests)
        /\ Len(Append(s, request)) = Len(s) + 1 /\ Append(s, request)[Len(s) + 1] = request
    BY <1>1, <2>1, AppendProperties
  <2>3. Append(s, request) # <<>>
    <3>1. Len(s) \in Nat
      BY <2>1
    <3> QED BY <2>2, <3>1
  <2> QED BY <2>2, <2>3 DEF s
<1>5. /\ loaded \in PanelTables
      /\ loaded.underWay = Append(table.underWay, request)
      /\ loaded.page = table.page /\ loaded.filter = table.filter
  BY <1>3, <1>4 DEF PanelTables
<1>6. ForItsKey(loaded)
  BY <1>2, <1>4, <1>5 DEF ForItsKey, ForKey, LastOf, KeyOf
<1> QED BY <1>4, <1>5, <1>6 DEF loaded

LEMMA Loaded ==
  ASSUME NEW table \in PanelTables
  PROVE  /\ Panel!Load(table) \in PanelTables
         /\ Len(Panel!Load(table).underWay) = Len(table.underWay) + 1
         /\ Panel!Load(table).underWay # <<>> /\ ForItsKey(Panel!Load(table))
<1>1. KeyOf(table) \in Panel!Keys
  BY DEF PanelTables, Panel!Keys, KeyOf
<1>2. Panel!Load(table) = Panel!LoadFor(table, KeyOf(table), "page")
  BY DEF Panel!Load, KeyOf
<1> HIDE DEF Panel!LoadFor
<1> QED BY <1>1, <1>2, LoadedFor

\* The reply to a request of a table takes the request away.
LEMMA Answered ==
  ASSUME TablesTyped, NEW t \in Tables, NEW i \in DOMAIN tables[t].underWay
  PROVE  LET rest == Panel!RemoveAt(tables[t].underWay, i)
         IN  /\ rest \in Seq(Panel!Requests) /\ Len(rest) = Len(tables[t].underWay) - 1
             /\ \A k \in 1..Len(rest) : rest[k] = tables[t].underWay[IF k < i THEN k ELSE k + 1]
<1>1. tables[t].underWay \in Seq(Panel!Requests) /\ i \in 1..Len(tables[t].underWay)
  BY DEF TablesTyped, PanelTables
<1> DEFINE s == tables[t].underWay
<1> HIDE DEF s
<1>2. s \in Seq(Panel!Requests) /\ i \in 1..Len(s)
  BY <1>1 DEF s
<1>3. LET r == SubSeq(s, 1, i - 1) \o SubSeq(s, i + 1, Len(s))
      IN  /\ r \in Seq(Panel!Requests) /\ Len(r) = Len(s) - 1
          /\ \A j \in 1..(Len(s) - 1) : r[j] = IF j < i THEN s[j] ELSE s[j + 1]
  BY <1>2, Removed
<1> QED BY <1>3 DEF s, Panel!RemoveAt

LEMMA PanelCountsInductive ==
  ASSUME PanelInv, [Panel!Next]_(Panel!vars)
  PROVE  PanelCounts' /\ PanelFlags'
<1>0. PanelCounts /\ PanelFlags
  BY DEF PanelInv
<1>1. /\ vulnEnabled' \in BOOLEAN /\ pollActive' \in BOOLEAN /\ ordered' \in BOOLEAN
  <2>1. /\ vulnEnabled' \in {vulnEnabled, ~vulnEnabled} \cup BOOLEAN
        /\ pollActive' \in {pollActive, TRUE, FALSE} /\ ordered' = ordered
    BY Zenon DEF Panel!Next, Panel!vars, Panel!Type, Panel!TurnPage, Panel!Debounced,
           Panel!Reply, Panel!ReplyFails, Panel!Poll, Panel!Click, Panel!ScanQueued,
           Panel!PolicyRead, Panel!ClickFails, Panel!WindowEnds, Panel!PolicyChanges,
           Panel!DataChanges
  <2> QED BY <1>0, <2>1 DEF PanelFlags
<1>2. failures' \in 0..MaxFailures
  <2>1. failures' = failures \/ (failures < MaxFailures /\ failures' = failures + 1)
    BY Zenon DEF Panel!Next, Panel!vars, Panel!Type, Panel!TurnPage, Panel!Debounced,
           Panel!Reply, Panel!ReplyFails, Panel!Poll, Panel!Click, Panel!ScanQueued,
           Panel!PolicyRead, Panel!ClickFails, Panel!WindowEnds, Panel!PolicyChanges,
           Panel!DataChanges
  <2> QED BY <1>0, <2>1, PanelConstants DEF PanelCounts
<1> DEFINE Goal == /\ changes \in 0..MaxChanges /\ data \in 0..changes
                   /\ windows \in 0..changes /\ windows + ToBeQueued <= changes
                   /\ clicks \in [Panel!Buttons -> PanelClicks]
<1>3. ASSUME UNCHANGED clicks,
             \/ UNCHANGED changes /\ UNCHANGED data /\ windows' = windows
             \/ UNCHANGED changes /\ UNCHANGED data /\ windows > 0 /\ windows' = windows - 1
             \/ /\ changes < MaxChanges /\ changes' = changes + 1
                /\ data' \in {data, data + 1} /\ windows' = windows
      PROVE  Goal'
  BY <1>0, <1>3, PanelConstants DEF PanelCounts, PanelFlags, ToBeQueued
\* A click of a button that was idle: a scan has its window to start.
<1>4. ASSUME NEW how \in Panel!Kinds, Panel!Click(how) PROVE Goal'
  <2> DEFINE b == IF how = "refresh" THEN "refresh" ELSE "scan"
             click == [at |-> IF b = "scan" THEN "post" ELSE "policy", kind |-> how,
                       keys |-> [t \in Tables |-> Panel!Key(t)]]
  <2>1. /\ changes < MaxChanges /\ changes' = changes + 1 /\ UNCHANGED <<data, windows>>
        /\ clicks[b] = Panel!NoClick /\ clicks' = [clicks EXCEPT ![b] = click]
    BY <1>4 DEF Panel!Click, Panel!Act, Panel!Busy
  <2>2. click \in PanelClicks /\ b \in Panel!Buttons
    <3>1. \A t \in Tables : Panel!Key(t) \in Panel!Keys
      BY DEF PanelInv, TablesTyped, PanelTables, Panel!Key, Panel!Keys
    <3>2. click.keys \in [Tables -> Panel!Keys]
      BY <3>1
    <3> QED BY <3>2 DEF PanelClicks, Panel!Buttons
  <2> HIDE DEF click
  <2>3. clicks' \in [Panel!Buttons -> PanelClicks]
    BY <1>0, <2>1, <2>2 DEF PanelFlags
  <2>4. ToBeQueued' <= ToBeQueued + 1 /\ ToBeQueued \in {0, 1} /\ ToBeQueued' \in {0, 1}
    BY DEF ToBeQueued
  <2>5. /\ changes' \in 0..MaxChanges /\ data' \in 0..changes' /\ windows' \in 0..changes'
    BY <1>0, <2>1, PanelConstants DEF PanelCounts
  <2>6. windows' + ToBeQueued' <= changes'
    <3> DEFINE q == ToBeQueued
               r == ToBeQueued'
    <3>1. /\ windows + q <= changes /\ windows \in Nat /\ changes \in Nat
          /\ q \in {0, 1} /\ r \in {0, 1} /\ r <= q + 1
      BY <1>0, <2>4 DEF PanelCounts
    <3> HIDE DEF q, r
    <3>2. windows' + r <= changes'
      BY <2>1, <3>1
    <3> QED BY <3>2 DEF r
  <2> QED BY <2>3, <2>5, <2>6
\* The scan is queued: its window starts.
<1>5. ASSUME Panel!ScanQueued PROVE Goal'
  <2>1. /\ clicks["scan"].at = "post" /\ windows' = windows + 1 /\ UNCHANGED <<data, changes>>
        /\ \/ clicks' = [clicks EXCEPT !["scan"] = Panel!NoClick]
           \/ clicks' = [clicks EXCEPT !["scan"].at = "policy"]
    BY <1>5 DEF Panel!ScanQueued, Panel!ReadTables
  <2>2. clicks["scan"] \in PanelClicks \ {Panel!NoClick} /\ "scan" \in Panel!Buttons
    BY <1>0, <2>1 DEF PanelFlags, Panel!NoClick, Panel!Buttons
  <2>3. /\ clicks' \in [Panel!Buttons -> PanelClicks]
        /\ clicks'["scan"].at # "post"
    <3>1. [clicks["scan"] EXCEPT !.at = "policy"] \in PanelClicks
          /\ [clicks["scan"] EXCEPT !.at = "policy"].at = "policy"
      BY <2>2 DEF PanelClicks
    <3>2. Panel!NoClick \in PanelClicks /\ Panel!NoClick.at = "idle"
      BY DEF PanelClicks, Panel!NoClick
    <3> QED BY <1>0, <2>1, <2>2, <3>1, <3>2 DEF PanelFlags
  <2>4. ToBeQueued = 1 /\ ToBeQueued' = 0
    BY <2>1, <2>3 DEF ToBeQueued
  <2> QED BY <1>0, <2>1, <2>3, <2>4, PanelConstants DEF PanelCounts
<1>6. ASSUME NEW b \in Panel!Buttons, Panel!PolicyRead(b) \/ Panel!ClickFails(b) PROVE Goal'
  <2>1. /\ clicks' = [clicks EXCEPT ![b] = Panel!NoClick]
        /\ UNCHANGED <<data, windows, changes>>
    BY <1>6 DEF Panel!PolicyRead, Panel!ClickFails, Panel!ReadTables
  <2>2. clicks' \in [Panel!Buttons -> PanelClicks]
    BY <1>0, <2>1 DEF PanelFlags, PanelClicks
  <2>3. ToBeQueued' <= ToBeQueued
    <3>1. clicks'["scan"] \in {clicks["scan"], Panel!NoClick}
      BY <1>0, <2>1 DEF PanelFlags, Panel!Buttons
    <3> QED BY <3>1 DEF ToBeQueued, Panel!NoClick
  <2>4. ToBeQueued \in {0, 1} /\ ToBeQueued' \in {0, 1}
    BY DEF ToBeQueued
  <2>5. /\ changes' \in 0..MaxChanges /\ data' \in 0..changes' /\ windows' \in 0..changes'
    BY <1>0, <2>1, PanelConstants DEF PanelCounts
  <2>6. windows' + ToBeQueued' <= changes'
    <3> DEFINE q == ToBeQueued
               r == ToBeQueued'
    <3>1. /\ windows + q <= changes /\ windows \in Nat /\ changes \in Nat
          /\ q \in {0, 1} /\ r \in {0, 1}
      BY <1>0, <2>4 DEF PanelCounts
    <3>2. r <= q
      BY <2>3, <2>4
    <3> HIDE DEF q, r
    <3>3. windows' + r <= changes'
      BY <2>1, <3>1, <3>2
    <3> QED BY <3>3 DEF r
  <2> QED BY <2>2, <2>5, <2>6
<1>7. Goal'
  <2>1. CASE \E how \in Panel!Kinds : Panel!Click(how)
    BY <1>4, <2>1
  <2>2. CASE Panel!ScanQueued
    BY <1>5, <2>2
  <2>3. CASE \E b \in Panel!Buttons : Panel!PolicyRead(b) \/ Panel!ClickFails(b)
    BY <1>6, <2>3
  <2>4. CASE /\ ~ \E how \in Panel!Kinds : Panel!Click(how)
             /\ ~ Panel!ScanQueued
             /\ ~ \E b \in Panel!Buttons : Panel!PolicyRead(b) \/ Panel!ClickFails(b)
    <3> HIDE DEF Goal
    <3> QED
      BY <1>3, <2>4, Zenon
         DEF Panel!Next, Panel!vars, Panel!Act, Panel!Type, Panel!TurnPage, Panel!Debounced,
             Panel!Reply, Panel!ReplyFails, Panel!Poll, Panel!WindowEnds,
             Panel!PolicyChanges, Panel!DataChanges
  <2> QED BY <2>1, <2>2, <2>3, <2>4
<1> QED BY <1>1, <1>2, <1>7 DEF PanelCounts, PanelFlags

LEMMA PanelTablesInductive ==
  ASSUME PanelInv, [Panel!Next]_(Panel!vars)
  PROVE  TablesTyped' /\ TablesForTheirKeys'
<1>0. PanelCounts /\ PanelFlags /\ TablesTyped /\ TablesForTheirKeys
  BY DEF PanelInv
<1> DEFINE Goal == TablesTyped /\ TablesForTheirKeys
\* One table, or each, becomes another one that is typed and waits for its key.
<1>1. ASSUME NEW T \in SUBSET Tables, NEW f \in [T -> PanelTables],
             tables' = [t \in Tables |-> IF t \in T THEN f[t] ELSE tables[t]],
             \A t \in T : Len(f[t].underWay) <= MaxUnderWay + 1 /\ ForItsKey(f[t]),
             UNCHANGED ordered, failures' \in {failures, failures + 1}
      PROVE  Goal'
  <2>1. \A t \in Tables : tables'[t] = IF t \in T THEN f[t] ELSE tables[t]
    BY <1>1
  <2>2. TablesTyped'
    BY <1>0, <1>1, <2>1 DEF TablesTyped
  <2>3. ASSUME ordered' /\ failures' = 0 PROVE ordered /\ failures = 0
    BY <1>0, <1>1, <2>3 DEF PanelCounts
  <2>4. ASSUME ordered' /\ failures' = 0, NEW t \in Tables
        PROVE  ForItsKey(tables[t])'
    <3>1. ForItsKey(tables'[t])
      BY <1>0, <1>1, <2>1, <2>3, <2>4, Zenon DEF TablesForTheirKeys
    <3> QED BY <3>1 DEF ForItsKey, ForKey, LastOf, KeyOf
  <2> QED BY <2>2, <2>4 DEF TablesForTheirKeys
<1>2. ASSUME NEW t \in Tables, NEW filter \in Filters, Panel!Type(t, filter) PROVE Goal'
  <2>1. /\ tables' = [tables EXCEPT ![t].typed = filter] /\ UNCHANGED <<failures, ordered>>
    BY <1>2 DEF Panel!Type
  <2>2. TablesTyped'
    BY <1>0, <2>1 DEF TablesTyped, PanelTables
  <2>3. \A u \in Tables :
          /\ tables'[u].page = tables[u].page /\ tables'[u].filter = tables[u].filter
          /\ tables'[u].underWay = tables[u].underWay /\ tables'[u].rows = tables[u].rows
    BY <1>0, <2>1 DEF TablesTyped, PanelTables
  <2>4. \A u \in Tables : ForItsKey(tables[u])' <=> ForItsKey(tables[u])
    BY <2>1, <2>3 DEF ForItsKey, ForKey, LastOf, KeyOf
  <2> QED BY <1>0, <2>1, <2>2, <2>4 DEF TablesForTheirKeys
<1>3. ASSUME NEW t \in Tables, NEW page \in 1..Pages, Panel!TurnPage(t, page) PROVE Goal'
  <2> DEFINE table == [tables[t] EXCEPT !.page = page]
             f == [u \in {t} |-> Panel!Load(table)]
  <2>1. table \in PanelTables /\ table.underWay = tables[t].underWay
    BY <1>0 DEF TablesTyped, PanelTables
  <2>2. /\ tables' = [tables EXCEPT ![t] = Panel!Load(table)]
        /\ UNCHANGED <<failures, ordered>> /\ Len(tables[t].underWay) < MaxUnderWay
    BY <1>3 DEF Panel!TurnPage, Panel!HasRoom
  <2> HIDE DEF table
  <2>3. f \in [{t} -> PanelTables]
        /\ \A u \in {t} : Len(f[u].underWay) <= MaxUnderWay + 1 /\ ForItsKey(f[u])
    <3>1. tables[t].underWay \in Seq(Panel!Requests)
      BY <1>0 DEF TablesTyped, PanelTables
    <3> HIDE DEF Panel!Load
    <3>2. /\ Panel!Load(table) \in PanelTables /\ ForItsKey(Panel!Load(table))
          /\ Len(Panel!Load(table).underWay) = Len(table.underWay) + 1
      BY <2>1, Loaded
    <3> QED BY <2>1, <2>2, <3>1, <3>2, PanelConstants
  <2>4. tables' = [u \in Tables |-> IF u \in {t} THEN f[u] ELSE tables[u]]
    BY <1>0, <2>2 DEF TablesTyped
  <2> HIDE DEF f
  <2> QED BY <1>1, <2>2, <2>3, <2>4
<1>4. ASSUME NEW t \in Tables, Panel!Debounced(t) PROVE Goal'
  <2> DEFINE table == [tables[t] EXCEPT !.filter = tables[t].typed]
             first == [Panel!Load(table) EXCEPT !.page = 1]
             f == [u \in {t} |-> Panel!FilterEffects(table)]
  <2>1. table \in PanelTables /\ table.underWay = tables[t].underWay
    BY <1>0 DEF TablesTyped, PanelTables
  <2>2. /\ tables' = [tables EXCEPT ![t] = Panel!FilterEffects(table)]
        /\ UNCHANGED <<failures, ordered>> /\ Len(tables[t].underWay) < MaxUnderWay
    BY <1>4 DEF Panel!Debounced, Panel!HasRoom
  <2> HIDE DEF table
  <2>3. first \in PanelTables /\ first.underWay = Panel!Load(table).underWay
    <3>1. Panel!Load(table) \in PanelTables
      BY <2>1, Loaded
    <3> HIDE DEF Panel!Load
    <3> QED BY <3>1, PanelConstants DEF PanelTables
  <2>4. Panel!FilterEffects(table) \in {Panel!Load(table), Panel!Load(first)}
    BY DEF Panel!FilterEffects
  <2>5. Len(Panel!Load(table).underWay) <= MaxUnderWay + 1
        /\ Len(Panel!Load(first).underWay) <= MaxUnderWay + 1
    <3>1. tables[t].underWay \in Seq(Panel!Requests)
      BY <1>0 DEF TablesTyped, PanelTables
    <3> HIDE DEF first
    <3>2. /\ Len(Panel!Load(table).underWay) = Len(table.underWay) + 1
          /\ Len(Panel!Load(first).underWay) = Len(first.underWay) + 1
      BY <2>1, <2>3, Loaded
    <3> HIDE DEF Panel!Load
    <3> QED BY <2>1, <2>2, <2>3, <3>1, <3>2, PanelConstants
  <2> HIDE DEF first
  <2>6. f \in [{t} -> PanelTables]
        /\ \A u \in {t} : Len(f[u].underWay) <= MaxUnderWay + 1 /\ ForItsKey(f[u])
    <3>1. /\ Panel!Load(table) \in PanelTables /\ Panel!Load(first) \in PanelTables
          /\ ForItsKey(Panel!Load(table)) /\ ForItsKey(Panel!Load(first))
      BY <2>1, <2>3, Loaded
    <3> HIDE DEF Panel!Load
    <3> QED BY <2>4, <2>5, <3>1
  <2>7. tables' = [u \in Tables |-> IF u \in {t} THEN f[u] ELSE tables[u]]
    BY <1>0, <2>2 DEF TablesTyped
  <2> HIDE DEF f
  <2> QED BY <1>1, <2>2, <2>6, <2>7
<1>5. ASSUME Panel!Poll PROVE Goal'
  <2> DEFINE f == [u \in Tables |-> Panel!Load(tables[u])]
  <2>1. /\ tables' = f /\ UNCHANGED <<failures, ordered>>
        /\ \A t \in Tables : Len(tables[t].underWay) < MaxUnderWay
    BY <1>5 DEF Panel!Poll, Panel!HasRoom
  <2>2. f \in [Tables -> PanelTables]
        /\ \A u \in Tables : Len(f[u].underWay) <= MaxUnderWay + 1 /\ ForItsKey(f[u])
    <3>1. \A u \in Tables : tables[u] \in PanelTables /\ tables[u].underWay \in Seq(Panel!Requests)
      BY <1>0 DEF TablesTyped, PanelTables
    <3> HIDE DEF Panel!Load
    <3> QED BY <2>1, <3>1, Loaded, PanelConstants
  <2> HIDE DEF f
  <2>3. tables' = [u \in Tables |-> IF u \in Tables THEN f[u] ELSE tables[u]]
    BY <2>1, <2>2
  <2> QED BY <1>1, <2>1, <2>2, <2>3
\* A click reads every table for the key its closure holds.
<1>6. ASSUME NEW b \in Panel!Buttons, clicks[b] # Panel!NoClick, Panel!ReadTables(b),
             UNCHANGED ordered, failures' \in {failures, failures + 1}
      PROVE  Goal'
  <2> DEFINE f == [u \in Tables |-> Panel!LoadFor(tables[u], clicks[b].keys[u], b)]
  <2>1. tables' = f /\ \A t \in Tables : Len(tables[t].underWay) < MaxUnderWay
    BY <1>6 DEF Panel!ReadTables, Panel!HasRoom
  <2>2. clicks[b].keys \in [Tables -> Panel!Keys]
    BY <1>0, <1>6 DEF PanelFlags, PanelClicks
  <2>3. f \in [Tables -> PanelTables]
        /\ \A u \in Tables : Len(f[u].underWay) <= MaxUnderWay + 1 /\ ForItsKey(f[u])
    <3>1. \A u \in Tables : /\ tables[u] \in PanelTables /\ clicks[b].keys[u] \in Panel!Keys
                           /\ tables[u].underWay \in Seq(Panel!Requests)
      BY <1>0, <2>2 DEF TablesTyped, PanelTables
    <3> HIDE DEF Panel!LoadFor
    <3> QED BY <2>1, <3>1, LoadedFor, PanelConstants
  <2> HIDE DEF f
  <2>4. tables' = [u \in Tables |-> IF u \in Tables THEN f[u] ELSE tables[u]]
    BY <2>1, <2>3
  <2> QED BY <1>1, <1>6, <2>1, <2>3, <2>4
<1>7. ASSUME NEW t \in Tables, NEW i \in DOMAIN tables[t].underWay, Panel!Reply(t, i) PROVE Goal'
  <2> DEFINE s == tables[t].underWay
             rest == Panel!RemoveAt(s, i)
             row == Panel!Listed(s[i], data)
  <2>1. /\ rest \in Seq(Panel!Requests) /\ Len(rest) = Len(s) - 1
        /\ \A k \in 1..Len(rest) : rest[k] = s[IF k < i THEN k ELSE k + 1]
    BY <1>0, Answered
  <2>2. s \in Seq(Panel!Requests) /\ i \in 1..Len(s)
    BY <1>0 DEF TablesTyped, PanelTables
  <2>3. /\ tables' = [tables EXCEPT ![t].underWay = rest, ![t].rows = row, ![t].loading = FALSE]
        /\ UNCHANGED <<failures, ordered>> /\ (ordered => i = 1)
    BY <1>7 DEF Panel!Reply, Panel!Next1
  <2>4. row \in PanelRows /\ row.key = s[i].key /\ row.late = s[i].late
    <3>1. s[i] \in Panel!Requests /\ data \in 0..MaxChanges
      BY <1>0, <2>2, PanelConstants DEF PanelCounts
    <3> QED BY <3>1 DEF PanelRows, Panel!Listed, Panel!Requests
  <2> HIDE DEF rest, row
  <2>5. /\ tables' \in [Tables -> PanelTables]
        /\ tables'[t].underWay = rest /\ tables'[t].rows = row
        /\ tables'[t].page = tables[t].page /\ tables'[t].filter = tables[t].filter
        /\ \A u \in Tables \ {t} : tables'[u] = tables[u]
    BY <1>0, <2>1, <2>3, <2>4, Zenon DEF TablesTyped, PanelTables
  <2>6. TablesTyped'
    BY <1>0, <2>1, <2>2, <2>5, PanelConstants DEF TablesTyped
  <2>7. ASSUME ordered', failures' = 0 PROVE ForItsKey(tables[t])'
    <3>1. /\ ForItsKey(tables[t]) /\ i = 1
      BY <1>0, <2>3, <2>7 DEF TablesForTheirKeys
    <3>2. ForKey(s[Len(s)], tables[t])
      BY <2>2, <3>1 DEF ForItsKey, LastOf
    <3>3. KeyOf(tables[t])' = KeyOf(tables[t])
      BY <2>5 DEF KeyOf
    <3>4. CASE rest = <<>>
      <4>1. Len(s) = 1
        BY <2>1, <2>2, <3>4
      <4>2. row.key = KeyOf(tables[t]) \/ row.late
        BY <2>4, <3>1, <3>2, <4>1 DEF ForKey
      <4> QED BY <2>5, <3>3, <3>4, <4>2 DEF ForItsKey, ForKey
    <3>5. CASE rest # <<>>
      <4>1. rest[Len(rest)] = s[Len(s)]
        BY <2>1, <2>2, <3>1, <3>5
      <4> QED BY <2>5, <3>2, <3>3, <3>5, <4>1 DEF ForItsKey, ForKey, LastOf
    <3> QED BY <3>4, <3>5
  <2>8. TablesForTheirKeys'
    BY <1>0, <2>3, <2>5, <2>7 DEF TablesForTheirKeys, ForItsKey, ForKey, LastOf, KeyOf
  <2> QED BY <2>6, <2>8
<1>8. ASSUME NEW t \in Tables, NEW i \in DOMAIN tables[t].underWay, Panel!ReplyFails(t, i)
      PROVE  Goal'
  <2> DEFINE s == tables[t].underWay
             rest == Panel!RemoveAt(s, i)
  <2>1. rest \in Seq(Panel!Requests) /\ Len(rest) = Len(s) - 1
    BY <1>0, Answered
  <2>2. s \in Seq(Panel!Requests)
    BY <1>0 DEF TablesTyped, PanelTables
  <2>3. /\ tables' = [tables EXCEPT ![t].underWay = rest, ![t].loading = FALSE]
        /\ failures' = failures + 1
    BY <1>8 DEF Panel!ReplyFails
  <2> HIDE DEF rest
  <2>4. /\ tables' \in [Tables -> PanelTables] /\ tables'[t].underWay = rest
        /\ \A u \in Tables \ {t} : tables'[u] = tables[u]
    BY <1>0, <2>1, <2>3 DEF TablesTyped, PanelTables
  <2>5. TablesTyped'
    BY <1>0, <2>1, <2>2, <2>4, PanelConstants DEF TablesTyped
  <2> QED BY <1>0, <2>3, <2>5 DEF TablesForTheirKeys, PanelCounts
<1>9. ASSUME UNCHANGED <<tables, ordered>>, failures' \in {failures, failures + 1} PROVE Goal'
  <2>1. failures' = 0 => failures = 0
    BY <1>0, <1>9 DEF PanelCounts
  <2>2. \A t \in Tables : ForItsKey(tables[t]) => ForItsKey(tables[t])'
    BY <1>9 DEF ForItsKey, ForKey, LastOf, KeyOf
  <2> QED BY <1>0, <1>9, <2>1, <2>2 DEF TablesTyped, TablesForTheirKeys
<1>10. ASSUME Panel!ScanQueued PROVE Goal'
  <2>1. /\ clicks["scan"] # Panel!NoClick /\ UNCHANGED <<ordered, failures>>
        /\ UNCHANGED tables \/ Panel!ReadTables("scan")
    BY <1>10 DEF Panel!ScanQueued, Panel!NoClick
  <2> QED BY <1>6, <1>9, <2>1 DEF Panel!Buttons
<1>11. ASSUME NEW b \in Panel!Buttons, Panel!PolicyRead(b) \/ Panel!ClickFails(b) PROVE Goal'
  <2>1. /\ clicks[b] # Panel!NoClick /\ UNCHANGED ordered /\ failures' \in {failures, failures + 1}
        /\ UNCHANGED tables \/ Panel!ReadTables(b)
    BY <1>11 DEF Panel!PolicyRead, Panel!ClickFails, Panel!NoClick
  <2> QED BY <1>6, <1>9, <2>1
<1>12. Goal'
  <2>1. ASSUME NEW t \in Tables, NEW i \in 1..(MaxUnderWay + 1),
               Panel!Reply(t, i) \/ Panel!ReplyFails(t, i)
        PROVE  i \in DOMAIN tables[t].underWay
    BY <2>1 DEF Panel!Reply, Panel!ReplyFails, Panel!Next1
  <2> HIDE DEF Goal
  <2> QED
    BY <1>2, <1>3, <1>4, <1>5, <1>7, <1>8, <1>9, <1>10, <1>11, <2>1, Zenon
       DEF Panel!Next, Panel!vars, Panel!Click, Panel!WindowEnds, Panel!PolicyChanges,
           Panel!DataChanges
<1> QED BY <1>12

LEMMA PanelInductive == ASSUME PanelInv, [Panel!Next]_(Panel!vars) PROVE PanelInv'
BY PanelCountsInductive, PanelTablesInductive DEF PanelInv

-----------------------------------------------------------------------------
(* The session.                                                            *)

LEMMA SessionConstants == MaxTokens \in Nat \ {0} /\ MaxFailures \in Nat
BY ConsoleAssumption

\* A tab has a token in its cache, and the browser a session, only when the browser
\* has a token's cookie, which is replaced and never taken away.
CookieFirst ==
  cookie = Session!NoToken =>
    session = Session!Nobody /\ \A tab \in Tabs : cached[tab] = Session!NoToken

\* A request that nobody signed in after would be accepted if it arrived now.
InTime ==
  \A tab \in Tabs :
    step[tab] \in {"login", "logout", "page"} /\ ~wire[tab].late => Session!Accepted(tab)

SessionInv == Session!TypeOK /\ CookieFirst /\ InTime /\ Session!RefusedIfOvertaken

\* The bootstrap leaves the browser with a cookie and its tab with the same token; a
\* browser that is signed in had the cookie before.
LEMMA CookieEnsured ==
  ASSUME SessionInv, NEW tab \in Tabs, Session!EnsureCookie(tab)
  PROVE  /\ cookie' \in Session!Tokens /\ issued' \in 0..MaxTokens
         /\ cached' \in [Tabs -> Session!Tokens \cup {Session!NoToken}]
         /\ session # Session!Nobody => cookie' = cookie
BY SessionConstants DEF SessionInv, Session!TypeOK, Session!EnsureCookie, Session!Tokens,
                        Session!NoToken, CookieFirst

LEMMA SessionApplied ==
  ASSUME SessionInv, NEW tab \in Tabs, NEW who \in Users \cup {Session!Nobody},
         Session!ApplySession(tab, who)
  PROVE  user' \in [Tabs -> Users \cup {Session!Nobody}] /\ route' \in [Tabs -> Session!Routes]
<1>1. Session!Routed(who, route[tab]) \in Session!Routes
  BY DEF SessionInv, Session!TypeOK, Session!Routed, Session!Routes
<1> QED BY <1>1 DEF SessionInv, Session!TypeOK, Session!ApplySession

\* A tab that takes no part in a step, or is not waiting for an answer after it, has
\* no part in the refusals: requests go on to be accepted while nobody signs in.
LEMMA StaysInTime ==
  ASSUME SessionInv, NEW tab \in Tabs,
         step'[tab] \notin {"login", "logout", "page"},
         \A other \in Tabs \ {tab} : step'[other] = step[other] /\ wire'[other] = wire[other],
         session' \in {session, Session!Nobody},
         session # Session!Nobody => cookie' = cookie
  PROVE  InTime'
<1>1. ASSUME NEW other \in Tabs, step'[other] \in {"login", "logout", "page"},
             ~wire'[other].late
      PROVE  Session!Accepted(other)'
  <2>1. other # tab /\ step[other] = step'[other] /\ wire[other] = wire'[other]
    BY <1>1
  <2>2. Session!Accepted(other)
    BY <1>1, <2>1 DEF SessionInv, InTime
  <2> QED BY <2>1, <2>2 DEF Session!Accepted
<1> QED BY <1>1 DEF InTime

\* What a tab that builds a request puts on it is accepted at that moment.
LEMMA BuiltInTime ==
  ASSUME SessionInv, NEW tab \in Tabs, NEW next \in {"login", "logout", "page"},
         Session!Build(tab, next), UNCHANGED <<session, cookie>>
  PROVE  /\ InTime' /\ wire' \in [Tabs -> Session!Wires]
         /\ step' \in [Tabs -> Session!Steps]
<1>1. Session!GetCsrfToken(tab) \in Session!Tokens \cup {Session!NoToken}
  BY DEF SessionInv, Session!TypeOK, Session!GetCsrfToken
<1>2. /\ wire' \in [Tabs -> Session!Wires] /\ step' \in [Tabs -> Session!Steps]
      /\ wire'[tab] = [token |-> Session!GetCsrfToken(tab), late |-> FALSE]
      /\ \A other \in Tabs \ {tab} : step'[other] = step[other] /\ wire'[other] = wire[other]
  BY <1>1 DEF SessionInv, Session!TypeOK, Session!Build, Session!Go, Session!Wires, Session!Steps
<1>3. Session!Accepted(tab)'
  BY <1>2 DEF SessionInv, CookieFirst, Session!Accepted, Session!GetCsrfToken
<1>4. ASSUME NEW other \in Tabs \ {tab}, step'[other] \in {"login", "logout", "page"},
             ~wire'[other].late
      PROVE  Session!Accepted(other)'
  <2>1. Session!Accepted(other)
    BY <1>2, <1>4 DEF SessionInv, InTime
  <2> QED BY <1>2, <2>1 DEF Session!Accepted
<1> QED BY <1>2, <1>3, <1>4 DEF InTime

\* An answered request is off the wire, and one that is refused was late.
LEMMA RequestAnswered ==
  ASSUME SessionInv, NEW tab \in Tabs, NEW at \in {"login", "logout", "page"}, step[tab] = at,
         \/ Session!Refused(tab, at)
         \/ wire' = [wire EXCEPT ![tab] = Session!NoWire] /\ UNCHANGED refused
  PROVE  /\ refused' = FALSE
         /\ wire' \in [Tabs -> Session!Wires]
         /\ \A other \in Tabs \ {tab} : wire'[other] = wire[other]
<1>1. wire' = [wire EXCEPT ![tab] = Session!NoWire]
  BY DEF Session!Refused
<1>2. Session!NoWire \in Session!Wires
  BY DEF Session!NoWire, Session!Wires
<1>3. wire' \in [Tabs -> Session!Wires] /\ \A other \in Tabs \ {tab} : wire'[other] = wire[other]
  BY <1>1, <1>2 DEF SessionInv, Session!TypeOK
<1>4. refused = FALSE
  BY DEF SessionInv, Session!RefusedIfOvertaken, Session!TypeOK
<1>5. CASE Session!Refused(tab, at)
  <2>1. wire[tab].late = TRUE
    <3>1. ~Session!Accepted(tab) /\ wire[tab] \in Session!Wires
      BY <1>5 DEF Session!Refused, SessionInv, Session!TypeOK
    <3> QED BY <3>1 DEF SessionInv, InTime, Session!Wires
  <2> QED BY <1>3, <1>4, <1>5, <2>1 DEF Session!Refused
<1>6. CASE UNCHANGED refused
  BY <1>3, <1>4, <1>6
<1> QED BY <1>5, <1>6

LEMMA SessionInductive ==
  ASSUME SessionInv, [Session!Next]_(Session!vars)
  PROVE  SessionInv'
<1> USE SessionConstants DEF Session!Go, Session!Fail, Session!Steps
<1> DEFINE Elsewhere(tab) ==
             \A other \in Tabs \ {tab} : step'[other] = step[other] /\ wire'[other] = wire[other]
\* The bootstrap of a tab, which may make the cookie.
<1>1. ASSUME NEW tab \in Tabs, Session!BootCsrf(tab) PROVE SessionInv'
  <2>1. /\ cookie' \in Session!Tokens /\ issued' \in 0..MaxTokens
        /\ cached' \in [Tabs -> Session!Tokens \cup {Session!NoToken}]
        /\ session # Session!Nobody => cookie' = cookie
    BY <1>1, CookieEnsured DEF Session!BootCsrf
  <2>2. step' \in [Tabs -> Session!Steps] /\ step'[tab] = "boot_me" /\ Elsewhere(tab)
    BY <1>1 DEF SessionInv, Session!TypeOK, Session!BootCsrf
  <2>3. InTime'
    BY <1>1, <2>1, <2>2, StaysInTime DEF Session!BootCsrf
  <2> QED BY <1>1, <2>1, <2>2, <2>3 DEF Session!BootCsrf, SessionInv, Session!TypeOK, CookieFirst,
                                  Session!RefusedIfOvertaken, Session!Tokens, Session!NoToken
<1>2. ASSUME NEW tab \in Tabs, Session!BootMe(tab) PROVE SessionInv'
  <2>1. user' \in [Tabs -> Users \cup {Session!Nobody}] /\ route' \in [Tabs -> Session!Routes]
    BY <1>2, SessionApplied DEF Session!BootMe, SessionInv, Session!TypeOK
  <2>2. step' \in [Tabs -> Session!Steps] /\ step'[tab] = "idle" /\ Elsewhere(tab)
    BY <1>2 DEF SessionInv, Session!TypeOK, Session!BootMe
  <2>3. InTime'
    BY <1>2, <2>2, StaysInTime DEF Session!BootMe
  <2> QED BY <1>2, <2>1, <2>2, <2>3 DEF Session!BootMe, SessionInv, Session!TypeOK, CookieFirst,
                                  Session!RefusedIfOvertaken
<1>3. ASSUME NEW tab \in Tabs, Session!BootFails(tab) PROVE SessionInv'
  <2>1. user' \in [Tabs -> Users \cup {Session!Nobody}] /\ route' \in [Tabs -> Session!Routes]
    BY <1>3, SessionApplied DEF Session!BootFails
  <2>2. /\ step' \in [Tabs -> Session!Steps] /\ failures' \in 0..MaxFailures
        /\ step'[tab] = "idle" /\ Elsewhere(tab)
    BY <1>3 DEF SessionInv, Session!TypeOK, Session!BootFails
  <2>3. InTime'
    BY <1>3, <2>2, StaysInTime DEF Session!BootFails
  <2> QED BY <1>3, <2>1, <2>2, <2>3 DEF Session!BootFails, SessionInv, Session!TypeOK, CookieFirst,
                                  Session!RefusedIfOvertaken
<1>4. ASSUME NEW tab \in Tabs, Session!Reload(tab) PROVE SessionInv'
  <2>1. /\ step' \in [Tabs -> Session!Steps] /\ user' \in [Tabs -> Users \cup {Session!Nobody}]
        /\ cached' \in [Tabs -> Session!Tokens \cup {Session!NoToken}]
        /\ step'[tab] = "boot_csrf" /\ Elsewhere(tab)
    BY <1>4 DEF SessionInv, Session!TypeOK, Session!Reload
  <2>2. CookieFirst'
    BY <1>4 DEF SessionInv, Session!TypeOK, CookieFirst, Session!Reload
  <2>3. InTime'
    BY <1>4, <2>1, StaysInTime DEF Session!Reload
  <2> QED BY <1>4, <2>1, <2>2, <2>3 DEF Session!Reload, SessionInv, Session!TypeOK,
                                  Session!RefusedIfOvertaken
\* Building a request, and the answer to it.
<1>5. ASSUME NEW tab \in Tabs, NEW who \in Users, Session!Login(tab, who) PROVE SessionInv'
  <2>1. /\ InTime' /\ wire' \in [Tabs -> Session!Wires] /\ step' \in [Tabs -> Session!Steps]
    BY <1>5, BuiltInTime DEF Session!Login
  <2>2. replied' \in [Tabs -> Users \cup {Session!Nobody}]
    BY <1>5 DEF SessionInv, Session!TypeOK, Session!Login
  <2> QED BY <1>5, <2>1, <2>2 DEF Session!Login, SessionInv, Session!TypeOK, CookieFirst,
                                  Session!RefusedIfOvertaken
<1>6. ASSUME NEW tab \in Tabs, Session!Logout(tab) \/ Session!PageRequest(tab) PROVE SessionInv'
  <2>1. /\ InTime' /\ wire' \in [Tabs -> Session!Wires] /\ step' \in [Tabs -> Session!Steps]
    BY <1>6, BuiltInTime DEF Session!Logout, Session!PageRequest
  <2> QED BY <1>6, <2>1 DEF Session!Logout, Session!PageRequest, SessionInv, Session!TypeOK,
                            CookieFirst, Session!RefusedIfOvertaken
<1>7. ASSUME NEW tab \in Tabs, Session!LoggedIn(tab) PROVE SessionInv'
  <2>1. /\ session' \in Users \cup {Session!Nobody} /\ step' \in [Tabs -> Session!Steps]
        /\ cookie' \in Session!Tokens /\ issued' \in 0..MaxTokens
    BY <1>7 DEF SessionInv, Session!TypeOK, Session!LoggedIn, Session!Tokens
  <2>2. wire' \in [Tabs -> Session!Wires]
    <3>1. Session!NoWire \in Session!Wires
      BY DEF Session!NoWire, Session!Wires
    <3>2. \A t \in Tabs : [wire[t] EXCEPT !.late = TRUE] \in Session!Wires
      BY DEF SessionInv, Session!TypeOK, Session!Wires
    <3> QED BY <1>7, <3>1, <3>2 DEF Session!LoggedIn
  <2>3. InTime'
    <3>1. ASSUME NEW t \in Tabs, step'[t] \in {"login", "logout", "page"}
          PROVE  wire'[t].late = TRUE
      <4>1. t # tab /\ step[t] \in {"login", "logout", "page"}
        BY <1>7, <3>1 DEF Session!LoggedIn, SessionInv, Session!TypeOK
      <4>2. wire'[t] = [wire[t] EXCEPT !.late = TRUE] /\ wire[t] \in Session!Wires
        BY <1>7, <4>1 DEF Session!LoggedIn, SessionInv, Session!TypeOK
      <4> QED BY <4>2 DEF Session!Wires
    <3> QED BY <3>1 DEF InTime
  <2> QED BY <1>7, <2>1, <2>2, <2>3 DEF Session!LoggedIn, SessionInv, Session!TypeOK, CookieFirst,
                                   Session!RefusedIfOvertaken, Session!Tokens, Session!NoToken
<1>8. ASSUME NEW tab \in Tabs, Session!LoginRefused(tab) PROVE SessionInv'
  <2>1. /\ refused' = FALSE /\ wire' \in [Tabs -> Session!Wires]
        /\ \A other \in Tabs \ {tab} : wire'[other] = wire[other]
    BY <1>8, RequestAnswered DEF Session!LoginRefused, Session!Refused
  <2>2. /\ step' \in [Tabs -> Session!Steps] /\ replied' \in [Tabs -> Users \cup {Session!Nobody}]
        /\ step'[tab] = "idle" /\ Elsewhere(tab)
    BY <1>8, <2>1 DEF SessionInv, Session!TypeOK, Session!LoginRefused
  <2>3. InTime'
    BY <1>8, <2>2, StaysInTime DEF Session!LoginRefused
  <2> QED BY <1>8, <2>1, <2>2, <2>3 DEF Session!LoginRefused, SessionInv, Session!TypeOK,
                                   CookieFirst, Session!RefusedIfOvertaken
<1>9. ASSUME NEW tab \in Tabs, Session!LoggedOut(tab) PROVE SessionInv'
  <2>1. /\ refused' = FALSE /\ wire' \in [Tabs -> Session!Wires]
        /\ \A other \in Tabs \ {tab} : wire'[other] = wire[other]
    BY <1>9, RequestAnswered DEF Session!LoggedOut, Session!Refused
  <2>2. user' \in [Tabs -> Users \cup {Session!Nobody}] /\ route' \in [Tabs -> Session!Routes]
    BY <1>9, SessionApplied DEF Session!LoggedOut
  <2>3. /\ step' \in [Tabs -> Session!Steps] /\ step'[tab] = "logout_csrf" /\ Elsewhere(tab)
        /\ cached' \in [Tabs -> Session!Tokens \cup {Session!NoToken}]
    BY <1>9, <2>1 DEF SessionInv, Session!TypeOK, Session!LoggedOut
  <2>4. /\ session' \in {session, Session!Nobody} /\ failures' \in 0..MaxFailures
        /\ UNCHANGED cookie
    BY <1>9 DEF SessionInv, Session!TypeOK, Session!LoggedOut
  <2>5. CookieFirst'
    BY <1>9, <2>4 DEF SessionInv, Session!TypeOK, CookieFirst, Session!LoggedOut
  <2>6. InTime'
    BY <2>3, <2>4, StaysInTime
  <2>7. Session!TypeOK'
    BY <1>9, <2>1, <2>2, <2>3, <2>4 DEF Session!LoggedOut, SessionInv, Session!TypeOK
  <2> QED BY <2>1, <2>5, <2>6, <2>7 DEF SessionInv, Session!RefusedIfOvertaken
<1>10. ASSUME NEW tab \in Tabs, Session!PageAnswered(tab) PROVE SessionInv'
  <2>1. /\ refused' = FALSE /\ wire' \in [Tabs -> Session!Wires]
        /\ \A other \in Tabs \ {tab} : wire'[other] = wire[other]
    BY <1>10, RequestAnswered DEF Session!PageAnswered, Session!Refused
  <2>2. step' \in [Tabs -> Session!Steps] /\ step'[tab] = "idle" /\ Elsewhere(tab)
    BY <1>10, <2>1 DEF SessionInv, Session!TypeOK, Session!PageAnswered
  <2>3. InTime'
    BY <1>10, <2>2, StaysInTime DEF Session!PageAnswered
  <2> QED BY <1>10, <2>1, <2>2, <2>3 DEF Session!PageAnswered, SessionInv, Session!TypeOK,
                                    CookieFirst, Session!RefusedIfOvertaken
\* What follows a login and a logout.
<1>11. ASSUME NEW tab \in Tabs, Session!LoginCsrf(tab) PROVE SessionInv'
  <2>1. /\ cookie' \in Session!Tokens /\ issued' \in 0..MaxTokens
        /\ cached' \in [Tabs -> Session!Tokens \cup {Session!NoToken}]
        /\ session # Session!Nobody => cookie' = cookie
    BY <1>11, CookieEnsured DEF Session!LoginCsrf
  <2>2. user' \in [Tabs -> Users \cup {Session!Nobody}] /\ route' \in [Tabs -> Session!Routes]
    <3>1. replied[tab] \in Users \cup {Session!Nobody}
      BY DEF SessionInv, Session!TypeOK
    <3> QED BY <1>11, <3>1, SessionApplied DEF Session!LoginCsrf
  <2>3. /\ step' \in [Tabs -> Session!Steps] /\ replied' \in [Tabs -> Users \cup {Session!Nobody}]
        /\ step'[tab] = "login_me" /\ Elsewhere(tab)
    BY <1>11 DEF SessionInv, Session!TypeOK, Session!LoginCsrf
  <2>4. InTime'
    BY <1>11, <2>1, <2>3, StaysInTime DEF Session!LoginCsrf
  <2> QED BY <1>11, <2>1, <2>2, <2>3, <2>4 DEF Session!LoginCsrf, SessionInv, Session!TypeOK,
                                   CookieFirst, Session!RefusedIfOvertaken, Session!Tokens,
                                   Session!NoToken
<1>12. ASSUME NEW tab \in Tabs, Session!LoginMe(tab) PROVE SessionInv'
  <2>1. user' \in [Tabs -> Users \cup {Session!Nobody}] /\ route' \in [Tabs -> Session!Routes]
    BY <1>12, SessionApplied DEF Session!LoginMe, SessionInv, Session!TypeOK
  <2>2. step' \in [Tabs -> Session!Steps] /\ step'[tab] = "idle" /\ Elsewhere(tab)
    BY <1>12 DEF SessionInv, Session!TypeOK, Session!LoginMe
  <2>3. InTime'
    BY <1>12, <2>2, StaysInTime DEF Session!LoginMe
  <2> QED BY <1>12, <2>1, <2>2, <2>3 DEF Session!LoginMe, SessionInv, Session!TypeOK, CookieFirst,
                                  Session!RefusedIfOvertaken
<1>13. ASSUME NEW tab \in Tabs, Session!LoginFails(tab) PROVE SessionInv'
  <2>1. /\ step' \in [Tabs -> Session!Steps] /\ replied' \in [Tabs -> Users \cup {Session!Nobody}]
        /\ step'[tab] = "idle" /\ Elsewhere(tab)
    BY <1>13 DEF SessionInv, Session!TypeOK, Session!LoginFails
  <2>2. failures' \in 0..MaxFailures
    BY <1>13 DEF SessionInv, Session!TypeOK, Session!LoginFails
  <2>3. InTime'
    BY <1>13, <2>1, StaysInTime DEF Session!LoginFails
  <2> QED BY <1>13, <2>1, <2>2, <2>3 DEF Session!LoginFails, SessionInv, Session!TypeOK, CookieFirst,
                                  Session!RefusedIfOvertaken
<1>14. ASSUME NEW tab \in Tabs, Session!LogoutCsrf(tab) PROVE SessionInv'
  <2>1. /\ step' \in [Tabs -> Session!Steps] /\ failures' \in 0..MaxFailures
        /\ step'[tab] = "idle" /\ Elsewhere(tab)
    BY <1>14 DEF SessionInv, Session!TypeOK, Session!LogoutCsrf
  <2>2. CASE Session!EnsureCookie(tab)
    <3>1. /\ cookie' \in Session!Tokens /\ issued' \in 0..MaxTokens
          /\ cached' \in [Tabs -> Session!Tokens \cup {Session!NoToken}]
          /\ session # Session!Nobody => cookie' = cookie
      BY <2>2, CookieEnsured
    <3>2. InTime'
      BY <1>14, <2>1, <3>1, StaysInTime DEF Session!LogoutCsrf
    <3> QED BY <1>14, <2>1, <3>1, <3>2 DEF Session!LogoutCsrf, SessionInv, Session!TypeOK, CookieFirst,
                                    Session!RefusedIfOvertaken, Session!Tokens, Session!NoToken
  <2>3. CASE UNCHANGED <<cookie, issued, cached>>
    <3>1. InTime'
      BY <1>14, <2>1, <2>3, StaysInTime DEF Session!LogoutCsrf
    <3> QED BY <1>14, <2>1, <2>3, <3>1 DEF Session!LogoutCsrf, SessionInv, Session!TypeOK, CookieFirst,
                            Session!RefusedIfOvertaken
  <2> QED BY <1>14, <2>2, <2>3 DEF Session!LogoutCsrf
<1>15. ASSUME NEW tab \in Tabs, NEW wanted \in Session!Routes, Session!Navigate(tab, wanted)
       PROVE  SessionInv'
  <2>1. Session!Routed(user[tab], wanted) \in Session!Routes
    BY DEF Session!Routed, Session!Routes
  <2>2. route' \in [Tabs -> Session!Routes]
    BY <1>15, <2>1 DEF SessionInv, Session!TypeOK, Session!Navigate
  <2>3. InTime'
    BY <1>15 DEF Session!Navigate, SessionInv, InTime, Session!Accepted
  <2> QED BY <1>15, <2>2, <2>3 DEF Session!Navigate, SessionInv, Session!TypeOK, CookieFirst,
                             Session!RefusedIfOvertaken
<1>16. ASSUME Session!SessionEnds PROVE SessionInv'
  <2>1. InTime'
    BY <1>16 DEF Session!SessionEnds, InTime, Session!Accepted
  <2> QED BY <1>16, <2>1 DEF Session!SessionEnds, SessionInv, Session!TypeOK, CookieFirst,
                             Session!RefusedIfOvertaken
<1>17. ASSUME UNCHANGED Session!vars PROVE SessionInv'
  <2>1. InTime'
    BY <1>17 DEF Session!vars, SessionInv, InTime, Session!Accepted
  <2> QED BY <1>17, <2>1 DEF Session!vars, SessionInv, Session!TypeOK, CookieFirst,
                             Session!RefusedIfOvertaken
<1> QED
  BY <1>1, <1>2, <1>3, <1>4, <1>5, <1>6, <1>7, <1>8, <1>9, <1>10, <1>11, <1>12,
     <1>13, <1>14, <1>15, <1>16, <1>17 DEF Session!Next

LEMMA SessionInitially ==
  ASSUME Session!Init
  PROVE  SessionInv
<1>1. /\ step \in [Tabs -> Session!Steps] /\ route \in [Tabs -> Session!Routes]
      /\ cached \in [Tabs -> Session!Tokens \cup {Session!NoToken}]
      /\ wire \in [Tabs -> Session!Wires]
  BY DEF Session!Init, Session!Routes, Session!Steps, Session!Wires, Session!NoWire
<1>2. /\ issued \in 0..MaxTokens /\ failures \in 0..MaxFailures
      /\ cookie \in Session!Tokens \cup {Session!NoToken}
  BY SessionConstants DEF Session!Init, Session!Tokens, Session!NoToken
<1>3. Session!TypeOK
  BY <1>1, <1>2 DEF Session!Init, Session!TypeOK
<1>4. InTime
  BY DEF Session!Init, InTime
<1> QED BY <1>3, <1>4 DEF Session!Init, SessionInv, CookieFirst, Session!RefusedIfOvertaken

\* A page is open to the user a tab shows: the guards of the routes, unless the
\* tab still shows the spinner.
PagesGuarded ==
  \A tab \in Tabs : ~Session!Loading(tab) => route[tab] = Session!Routed(user[tab], route[tab])

LEMMA RoutedTwice ==
  ASSUME NEW who, NEW wanted
  PROVE  Session!Routed(who, Session!Routed(who, wanted)) = Session!Routed(who, wanted)
<1>1. CASE who = Session!Nobody
  <2>1. \A w : Session!Routed(who, w) = "login"
    BY <1>1 DEF Session!Routed
  <2> QED BY <2>1
<1>2. CASE who # Session!Nobody
  <2>1. Session!Routed(who, "tenants") = "tenants"
    BY <1>2 DEF Session!Routed
  <2>2. Session!Routed(who, wanted) \in {"tenants", wanted}
    BY <1>2 DEF Session!Routed
  <2> QED BY <2>1, <2>2
<1> QED BY <1>1, <1>2

LEMMA GuardsKept ==
  ASSUME Session!TypeOK, PagesGuarded, [Session!Next]_(Session!vars)
  PROVE  PagesGuarded'
<1> USE DEF Session!Go, Session!Loading, PagesGuarded, Session!TypeOK
<1>1. ASSUME NEW tab \in Tabs, NEW who, Session!ApplySession(tab, who),
             \A other \in Tabs \ {tab} : step'[other] = step[other]
      PROVE  PagesGuarded'
  <2>1. user'[tab] = who /\ route'[tab] = Session!Routed(who, route[tab])
    BY <1>1 DEF Session!ApplySession
  <2>2. \A other \in Tabs \ {tab} : user'[other] = user[other] /\ route'[other] = route[other]
    BY <1>1 DEF Session!ApplySession
  <2>3. route'[tab] = Session!Routed(user'[tab], route'[tab])
    BY <2>1, RoutedTwice
  <2>4. ASSUME NEW other \in Tabs \ {tab}, step'[other] \notin {"boot_csrf", "boot_me"}
        PROVE  route'[other] = Session!Routed(user'[other], route'[other])
    BY <1>1, <2>2, <2>4
  <2> QED BY <2>3, <2>4
<1>2. ASSUME NEW tab \in Tabs,
             \/ Session!BootMe(tab) \/ Session!BootFails(tab)
             \/ Session!LoginCsrf(tab) \/ Session!LoginMe(tab) \/ Session!LoggedOut(tab)
      PROVE  PagesGuarded'
  <2>1. \A other \in Tabs \ {tab} : step'[other] = step[other]
    BY <1>2 DEF Session!BootMe, Session!BootFails, Session!LoginCsrf, Session!LoginMe,
                Session!LoggedOut
  <2>2. PICK who : Session!ApplySession(tab, who)
    BY <1>2 DEF Session!BootMe, Session!BootFails, Session!LoginCsrf, Session!LoginMe,
                Session!LoggedOut
  <2> QED BY <1>1, <2>1, <2>2
<1>3. ASSUME NEW tab \in Tabs, NEW wanted, Session!Navigate(tab, wanted) PROVE PagesGuarded'
  <2>1. route'[tab] = Session!Routed(user[tab], wanted) /\ user' = user /\ step' = step
    BY <1>3 DEF Session!Navigate
  <2>2. \A other \in Tabs \ {tab} : route'[other] = route[other]
    BY <1>3 DEF Session!Navigate
  <2> QED BY <2>1, <2>2, RoutedTwice
<1>4. ASSUME NEW tab \in Tabs, Session!Reload(tab) \/ Session!BootCsrf(tab) PROVE PagesGuarded'
  BY <1>4 DEF Session!Reload, Session!BootCsrf
<1>5. ASSUME NEW tab \in Tabs,
             \/ Session!Logout(tab) \/ Session!PageRequest(tab) \/ Session!PageAnswered(tab)
             \/ Session!LoggedIn(tab) \/ Session!LoginRefused(tab)
             \/ \E who \in Users : Session!Login(tab, who)
      PROVE  PagesGuarded'
  <2>1. /\ UNCHANGED <<user, route>> /\ step[tab] \notin {"boot_csrf", "boot_me"}
        /\ \A other \in Tabs \ {tab} : step'[other] = step[other]
    BY <1>5 DEF Session!Build, Session!Logout, Session!PageRequest, Session!PageAnswered,
                Session!Refused, Session!LoggedIn, Session!LoginRefused, Session!Login
  <2> QED BY <2>1
<1>6. ASSUME NEW tab \in Tabs, Session!LoginFails(tab) \/ Session!LogoutCsrf(tab)
      PROVE  PagesGuarded'
  BY <1>6 DEF Session!LoginFails, Session!LogoutCsrf
<1>7. ASSUME Session!SessionEnds \/ UNCHANGED Session!vars PROVE PagesGuarded'
  BY <1>7 DEF Session!SessionEnds, Session!vars
<1> QED BY <1>2, <1>3, <1>4, <1>5, <1>6, <1>7 DEF Session!Next

-----------------------------------------------------------------------------
(* The lists of workers, gateways and tenants.                             *)

LEMMA FleetConstants ==
  /\ GroupOf \in [Entries -> Tenants] /\ "none" \notin Entries /\ "load" \notin Entries
  /\ "none" \notin Tenants
BY ConsoleAssumption

FleetRows == [id : Entries, status : Fleet!Statuses, group : Tenants]
ListedRows == [id : Entries, status : Fleet!Statuses \ {"gone"}, group : Tenants]
MaybeGroup == Tenants \cup {"none"}

FleetScreens ==
  [page : {"workers", "gateways", "tenants"}, rows : SUBSET ListedRows, filter : MaybeGroup,
   loading : BOOLEAN, failed : BOOLEAN,
   confirm : [act : {"none", "delete", "disconnect"}, row : Entries \cup {"none"}],
   acting : BOOLEAN, installing : Entries \cup {"none"},
   modal : [open : BOOLEAN, group : MaybeGroup, submitting : BOOLEAN, made : MaybeGroup],
   acts : Nat]
FleetBackends ==
  [rows : [Entries -> FleetRows], calm : BOOLEAN, changes : Nat, losses : 0..1, lost : BOOLEAN]
FleetWires ==
  [op : {"list", "token", "delete", "disconnect", "install"}, row : Entries \cup {"none", "load"},
   group : MaybeGroup, served : BOOLEAN, ok : BOOLEAN, data : SUBSET ListedRows]

FleetTypes ==
  /\ screen \in FleetScreens /\ backend \in FleetBackends /\ wires \in Seq(FleetWires)

\* The page's filter, the calm and what was lost.
FleetFacts ==
  /\ screen.page = "workers" => screen.filter = "none"
  /\ backend.calm => backend.changes = 0
  /\ backend.lost => backend.losses = 0

LEMMA FleetRecordTyped ==
  ASSUME NEW filter
  PROVE  Fleet!Record(filter) \subseteq ListedRows
BY DEF Fleet!Record, ListedRows

LEMMA FleetOutcome ==
  ASSUME FleetTypes, NEW r \in FleetWires
  PROVE  LET o == Fleet!Outcome(r)
         IN  /\ o.ok \in BOOLEAN /\ o.data \subseteq ListedRows /\ o.backend \in FleetBackends
             /\ o.backend.calm = backend.calm /\ o.backend.changes = backend.changes
             /\ o.backend.losses = backend.losses /\ o.backend.lost = backend.lost
             /\ r.op = "list" => o.data = Fleet!Record(r.group)
             /\ r.op \in {"list", "token"} \/ ~o.ok => o.backend = backend
<1> USE DEF FleetTypes
<1> DEFINE o == Fleet!Outcome(r)
           here == r.row \in Entries /\ backend.rows[r.row].status # "gone"
           to(now) == [backend EXCEPT !.rows[r.row].status = now]
<1>1. CASE r.op = "list"
  <2>1. o = [ok |-> TRUE, data |-> Fleet!Record(r.group), backend |-> backend]
    BY <1>1 DEF Fleet!Outcome
  <2> QED BY <1>1, <2>1, FleetRecordTyped
<1>2. CASE r.op = "token"
  <2>1. o = [ok |-> TRUE, data |-> {}, backend |-> backend]
    BY <1>2 DEF Fleet!Outcome
  <2> QED BY <1>2, <2>1
<1>3. CASE r.op = "install"
  <2>1. o = [ok |-> here, data |-> {}, backend |-> backend]
    BY <1>3 DEF Fleet!Outcome
  <2> QED BY <1>3, <2>1
<1>4. ASSUME NEW now \in {"gone", "offline"}, r.row \in Entries
      PROVE  /\ to(now) \in FleetBackends /\ to(now).calm = backend.calm
             /\ to(now).changes = backend.changes /\ to(now).losses = backend.losses
             /\ to(now).lost = backend.lost
  BY <1>4 DEF FleetBackends, FleetRows, Fleet!Statuses
<1>5. ASSUME NEW now \in {"gone", "offline"},
             o.ok = here, o.data = {}, o.backend = IF here THEN to(now) ELSE backend
      PROVE  /\ o.ok \in BOOLEAN /\ o.data \subseteq ListedRows /\ o.backend \in FleetBackends
             /\ o.backend.calm = backend.calm /\ o.backend.changes = backend.changes
             /\ o.backend.losses = backend.losses /\ o.backend.lost = backend.lost
             /\ ~o.ok => o.backend = backend
  <2>2. CASE here
    <3> HIDE DEF to, o
    <3> QED BY <1>4, <1>5, <2>2
  <2>3. CASE ~here
    <3> HIDE DEF o
    <3> QED BY <1>5, <2>3
  <2> QED BY <2>2, <2>3
<1>6. CASE r.op = "delete"
  <2>1. o = [ok |-> here, data |-> {}, backend |-> IF here THEN to("gone") ELSE backend]
    BY <1>6 DEF Fleet!Outcome
  <2>2. o.ok = here /\ o.data = {} /\ o.backend = IF here THEN to("gone") ELSE backend
    <3> HIDE DEF here, to
    <3> QED BY <2>1
  <2>3. /\ o.ok \in BOOLEAN /\ o.data \subseteq ListedRows /\ o.backend \in FleetBackends
        /\ o.backend.calm = backend.calm /\ o.backend.changes = backend.changes
        /\ o.backend.losses = backend.losses /\ o.backend.lost = backend.lost
        /\ ~o.ok => o.backend = backend
    <3> HIDE DEF o, here, to
    <3> QED BY <1>5, <2>2
  <2> QED BY <1>6, <2>3
<1>7. CASE r.op = "disconnect"
  <2>1. o = [ok |-> here, data |-> {}, backend |-> IF here THEN to("offline") ELSE backend]
    BY <1>7 DEF Fleet!Outcome
  <2>2. o.ok = here /\ o.data = {} /\ o.backend = IF here THEN to("offline") ELSE backend
    <3> HIDE DEF here, to
    <3> QED BY <2>1
  <2>3. /\ o.ok \in BOOLEAN /\ o.data \subseteq ListedRows /\ o.backend \in FleetBackends
        /\ o.backend.calm = backend.calm /\ o.backend.changes = backend.changes
        /\ o.backend.losses = backend.losses /\ o.backend.lost = backend.lost
        /\ ~o.ok => o.backend = backend
    <3> HIDE DEF o, here, to
    <3> QED BY <1>5, <2>2
  <2> QED BY <1>7, <2>3
<1> QED BY <1>1, <1>2, <1>3, <1>6, <1>7 DEF FleetWires

\* The requests under way stay, or one more is sent.
FleetGrown ==
  /\ Len(wires') \in {Len(wires), Len(wires) + 1}
  /\ \A j \in 1..Len(wires) :
       /\ wires'[j].op = wires[j].op /\ wires'[j].row = wires[j].row
       /\ wires'[j].group = wires[j].group

\* What happens to a request on its way changes its answer only.
LEMMA FleetMarked ==
  ASSUME FleetTypes, NEW i \in 1..Len(wires), NEW w \in FleetWires, w.op = wires[i].op,
         w.row = wires[i].row, w.group = wires[i].group, wires' = [wires EXCEPT ![i] = w]
  PROVE  /\ FleetGrown /\ wires' \in Seq(FleetWires) /\ Len(wires') = Len(wires)
         /\ wires'[i] = w /\ \A j \in 1..Len(wires) : j # i => wires'[j] = wires[j]
         /\ \A j \in 1..Len(wires') : ~(j > Len(wires))
<1>1. wires \in Seq(FleetWires)
  BY DEF FleetTypes
<1>2. \A j \in 1..Len(wires) : [wires EXCEPT ![i] = w][j] = IF j = i THEN w ELSE wires[j]
  BY <1>1, ExceptSeq
<1>3. [wires EXCEPT ![i] = w] \in Seq(FleetWires) /\ Len([wires EXCEPT ![i] = w]) = Len(wires)
  BY <1>1, ExceptSeq
<1>4. /\ wires' \in Seq(FleetWires) /\ Len(wires') = Len(wires) /\ wires'[i] = w
      /\ \A j \in 1..Len(wires) : j # i => wires'[j] = wires[j]
  BY <1>2, <1>3
<1>5. \A j \in 1..Len(wires') : ~(j > Len(wires))
  BY <1>1, <1>4
<1>6. FleetGrown
  BY <1>4 DEF FleetGrown
<1> QED BY <1>4, <1>5, <1>6

LEMMA FleetInitially1 == ASSUME Fleet!Init PROVE FleetTypes /\ FleetFacts
<1>1. screen \in FleetScreens /\ screen.filter = "none"
  BY DEF Fleet!Init, FleetScreens, MaybeGroup, Fleet!None, Fleet!Closed
<1>2. backend \in FleetBackends /\ (backend.calm => backend.changes = 0) /\ ~backend.lost
  BY FleetConstants DEF Fleet!Init, FleetBackends, FleetRows, Fleet!Statuses
<1>3. wires \in Seq(FleetWires)
  BY DEF Fleet!Init, Fleet!Request, FleetWires, MaybeGroup, Fleet!None
<1> QED BY <1>1, <1>2, <1>3 DEF FleetTypes, FleetFacts

\* A request the page sends while nothing else it does is under way: an action, or the
\* reading after it.
FleetAct(w) ==
  w.op \in {"delete", "disconnect", "install"} \/ (w.op = "list" /\ w.row \in Entries)

\* The page waits for an action exactly while its only request is under way.
FleetActing ==
  /\ \A i \in 1..Len(wires) :
       wires[i].op \in {"delete", "disconnect", "install"} => wires[i].row \in Entries
  /\ \A i, j \in 1..Len(wires) : FleetAct(wires[i]) /\ FleetAct(wires[j]) => i = j
  /\ \A i \in 1..Len(wires) : FleetAct(wires[i]) => screen.acting \/ screen.installing # "none"
  /\ screen.acting \/ screen.installing # "none" => \E i \in 1..Len(wires) : FleetAct(wires[i])
  /\ ~(screen.acting /\ screen.installing # "none")
  /\ screen.confirm.act # "none" => screen.confirm.row \in Entries /\ screen.installing = "none"
  /\ \A i \in 1..Len(wires) :
       /\ wires[i].op \in {"delete", "disconnect"} => screen.acting
       /\ wires[i].op = "install" => screen.installing # "none"

\* An action was carried out, and its reply will have the list read again.
FleetChanged ==
  \E i \in 1..Len(wires) :
    wires[i].op \in {"delete", "disconnect", "install"} /\ wires[i].served /\ wires[i].ok
FleetShows(listed) == listed = Fleet!Record(screen.filter) \/ FleetChanged

\* In calm times the latest reading is of the page's filter, and what it found, or what
\* the page holds when none is under way, is on record or about to be read again.
FleetCalm ==
  backend.calm /\ ~backend.lost =>
    /\ \A k \in 1..Len(wires) :
         wires[k].op = "list" /\ (\A j \in 1..Len(wires) : wires[j].op = "list" => j <= k) =>
           /\ wires[k].group = screen.filter
           /\ wires[k].served /\ wires[k].ok => FleetShows(wires[k].data)
    /\ ~screen.failed /\ (\A j \in 1..Len(wires) : wires[j].op # "list") =>
         FleetShows(screen.rows)

\* In calm times a token under way is for the group that its dialog shows.
FleetToken ==
  backend.calm =>
    /\ \A i, j \in 1..Len(wires) : wires[i].op = "token" /\ wires[j].op = "token" => i = j
    /\ \A i \in 1..Len(wires) : wires[i].op = "token" =>
         /\ screen.modal.open /\ screen.modal.submitting /\ screen.modal.made = "none"
         /\ wires[i].group = screen.modal.group
    /\ screen.modal.made # "none" => screen.modal.made = screen.modal.group
    /\ ~screen.modal.open => screen.modal.made = "none" /\ ~screen.modal.submitting

FleetInv == FleetTypes /\ FleetFacts /\ FleetActing /\ FleetCalm /\ FleetToken

LEMMA FleetTyped ==
  ASSUME FleetInv
  PROVE  Fleet!TypeOK /\ Fleet!ShownIsTrue /\ Fleet!OneActionAtATime
<1> USE DEF FleetInv, FleetTypes
<1>1. Fleet!TypeOK
  <2>1. \A x \in screen.rows : x.id \in Entries /\ x.status \in Fleet!Statuses \ {"gone"}
    BY DEF FleetScreens, ListedRows
  <2>2. screen.confirm.row \in Entries \cup {"none"}
    BY DEF FleetScreens
  <2>3. screen.modal.made \in Tenants \cup {"none"}
    BY DEF FleetScreens, MaybeGroup
  <2> QED BY <2>1, <2>2, <2>3 DEF Fleet!TypeOK, Fleet!None
<1>2. Fleet!ShownIsTrue
  <2>1. ASSUME backend.calm, wires = <<>>, ~screen.failed, ~backend.lost
        PROVE  screen.rows = Fleet!Record(screen.filter)
    <3>1. Len(wires) = 0
      BY <2>1
    <3>2. FleetShows(screen.rows) /\ ~FleetChanged
      BY <2>1, <3>1 DEF FleetCalm, FleetChanged
    <3> QED BY <3>2 DEF FleetShows
  <2>2. backend.calm /\ screen.modal.made # "none" => screen.modal.made = screen.modal.group
    BY DEF FleetToken
  <2> QED BY <2>1, <2>2 DEF Fleet!ShownIsTrue, Fleet!None
<1>3. Fleet!OneActionAtATime
  <2>1. DOMAIN wires = 1..Len(wires)
    OBVIOUS
  <2>2. ~(screen.acting /\ screen.installing # "none")
    BY DEF FleetActing
  <2>3. (screen.acting \/ screen.installing # "none") => \E i \in 1..Len(wires) : FleetAct(wires[i])
    BY DEF FleetActing
  <2>4. (\E i \in 1..Len(wires) : FleetAct(wires[i])) =>
          (screen.acting \/ screen.installing # "none")
    BY DEF FleetActing
  <2> QED BY <2>1, <2>2, <2>3, <2>4 DEF Fleet!OneActionAtATime, Fleet!None, FleetAct
<1> QED BY <1>1, <1>2, <1>3

LEMMA FleetInitially == ASSUME Fleet!Init PROVE FleetInv
<1>1. FleetTypes /\ FleetFacts
  BY FleetInitially1
<1> DEFINE r == [op |-> "list", row |-> "load", group |-> "none", served |-> FALSE, ok |-> FALSE,
                 data |-> {}]
<1>2. wires = <<r>>
  BY DEF Fleet!Init, Fleet!Request, Fleet!None
<1>3. /\ r.op = "list" /\ r.row = "load" /\ r.group = "none" /\ ~r.served
      /\ ~(r.row \in Entries)
  BY FleetConstants
<1> HIDE DEF r
<1>4. Len(wires) = 1 /\ wires[1] = r
  BY <1>2
<1>5. /\ screen.filter = "none" /\ screen.acting = FALSE /\ screen.installing = "none"
      /\ screen.confirm.act = "none" /\ screen.modal.made = "none" /\ ~screen.modal.submitting
  BY DEF Fleet!Init, Fleet!None, Fleet!Closed
<1>6. FleetActing
  BY <1>3, <1>4, <1>5 DEF FleetActing, FleetAct
<1>7. FleetCalm
  BY <1>3, <1>4, <1>5 DEF FleetCalm
<1>8. FleetToken
  BY <1>3, <1>4, <1>5 DEF FleetToken
<1> QED BY <1>1, <1>6, <1>7, <1>8 DEF FleetInv

-----------------------------------------------------------------------------
LEMMA FleetActingKept ==
  ASSUME FleetTypes, FleetActing, FleetGrown,
         screen'.acting = screen.acting, screen'.installing = screen.installing,
         \/ screen'.confirm.act = "none" \/ screen'.confirm = screen.confirm
         \/ screen'.confirm.row \in Entries /\ screen'.installing = "none",
         \A j \in 1..Len(wires') : j > Len(wires) => ~FleetAct(wires'[j])
  PROVE  FleetActing'
<1>1. Len(wires) \in Nat /\ 1..Len(wires) \subseteq 1..Len(wires')
  BY DEF FleetTypes, FleetGrown
<1>2. \A j \in 1..Len(wires') : j \in 1..Len(wires) \/ j > Len(wires)
  BY <1>1
<1>3. \A j \in 1..Len(wires) : FleetAct(wires'[j]) <=> FleetAct(wires[j])
  BY DEF FleetGrown, FleetAct
<1>4. \A j \in 1..Len(wires') : FleetAct(wires'[j]) => j \in 1..Len(wires) /\ FleetAct(wires[j])
  BY <1>2, <1>3
<1>5. \A j \in 1..Len(wires') : wires'[j].op \in {"delete", "disconnect", "install"} =>
        j \in 1..Len(wires) /\ wires'[j].op = wires[j].op /\ wires'[j].row = wires[j].row
  BY <1>4 DEF FleetAct, FleetGrown
<1> QED BY <1>1, <1>3, <1>4, <1>5 DEF FleetActing

LEMMA FleetTokenKept ==
  ASSUME FleetTypes, FleetToken, FleetGrown, screen'.modal = screen.modal,
         backend'.calm = backend.calm,
         \A j \in 1..Len(wires') : j > Len(wires) => wires'[j].op # "token"
  PROVE  FleetToken'
<1>1. Len(wires) \in Nat
  BY DEF FleetTypes
<1>2. \A j \in 1..Len(wires') : wires'[j].op = "token" =>
        j \in 1..Len(wires) /\ wires[j].op = "token" /\ wires'[j].group = wires[j].group
  BY <1>1 DEF FleetGrown
<1> QED BY <1>2 DEF FleetToken

\* The record and what the page shows of it stay.
LEMMA FleetRecordKept ==
  ASSUME backend'.rows = backend.rows, NEW filter
  PROVE  Fleet!Record(filter)' = Fleet!Record(filter)
BY DEF Fleet!Record

\* A reading is sent that asks for the page's filter.
LEMMA FleetCalmAsked ==
  ASSUME FleetTypes, NEW w, Len(wires') \in Nat \ {0}, wires'[Len(wires')] = w,
         w.op = "list", ~w.served, w.group = screen'.filter
  PROVE  FleetCalm'
<1>1. Len(wires') \in 1..Len(wires')
  OBVIOUS
<1>2. \A k \in 1..Len(wires') : Len(wires') <= k => k = Len(wires')
  OBVIOUS
<1> QED BY <1>1, <1>2 DEF FleetCalm

\* Nothing that is read changes, and what is sent is not a reading.
LEMMA FleetCalmKept ==
  ASSUME FleetTypes, FleetCalm, Len(wires') \in {Len(wires), Len(wires) + 1},
         \A j \in 1..Len(wires) : wires'[j] = wires[j],
         \A j \in 1..Len(wires') : j > Len(wires) => wires'[j].op # "list",
         backend'.calm = backend.calm, backend'.lost = backend.lost,
         backend'.rows = backend.rows, screen'.filter = screen.filter,
         screen'.failed = screen.failed, screen'.rows = screen.rows
  PROVE  FleetCalm'
<1>1. Len(wires) \in Nat /\ 1..Len(wires) \subseteq 1..Len(wires')
  BY DEF FleetTypes
<1>2. \A j \in 1..Len(wires') : wires'[j].op = "list" => j \in 1..Len(wires) /\ wires'[j] = wires[j]
  BY <1>1
<1>3. FleetChanged => FleetChanged'
  BY <1>1 DEF FleetChanged
<1>4. \A listed : FleetShows(listed) => FleetShows(listed)'
  <2>1. Fleet!Record(screen.filter)' = Fleet!Record(screen.filter)
    BY DEF Fleet!Record
  <2> QED BY <1>3, <2>1 DEF FleetShows
<1>5. \A listed : FleetShows(listed)' <=> listed = Fleet!Record(screen.filter)' \/ FleetChanged'
  BY DEF FleetShows
<1>6. ASSUME backend.calm, ~backend.lost, NEW k \in 1..Len(wires'), wires'[k].op = "list",
             \A j \in 1..Len(wires') : wires'[j].op = "list" => j <= k
      PROVE  /\ wires'[k].group = screen'.filter
             /\ wires'[k].served /\ wires'[k].ok => FleetShows(wires[k].data)
  BY <1>1, <1>2, <1>6 DEF FleetCalm
<1>7. ASSUME backend.calm, ~backend.lost, ~screen.failed,
             \A j \in 1..Len(wires') : wires'[j].op # "list"
      PROVE  FleetShows(screen.rows)
  BY <1>1, <1>7 DEF FleetCalm
<1> QED BY <1>2, <1>4, <1>5, <1>6, <1>7 DEF FleetCalm, FleetShows

-----------------------------------------------------------------------------
LEMMA FleetStays ==
  ASSUME FleetTypes, wires' = wires
  PROVE  /\ FleetGrown /\ wires' \in Seq(FleetWires) /\ Len(wires') \in {Len(wires), Len(wires) + 1}
         /\ \A j \in 1..Len(wires) : wires'[j] = wires[j]
         /\ \A j \in 1..Len(wires') : ~(j > Len(wires))
BY DEF FleetTypes, FleetGrown

LEMMA FleetSent ==
  ASSUME FleetTypes, NEW w \in FleetWires, wires' = Append(wires, w)
  PROVE  /\ FleetGrown /\ wires' \in Seq(FleetWires) /\ Len(wires') \in {Len(wires), Len(wires) + 1}
         /\ Len(wires') \in Nat \ {0} /\ wires'[Len(wires')] = w
         /\ \A j \in 1..Len(wires) : wires'[j] = wires[j]
         /\ \A j \in 1..Len(wires') : j > Len(wires) => wires'[j] = w
BY DEF FleetTypes, FleetGrown

LEMMA FleetRequest ==
  ASSUME NEW op \in {"list", "token", "delete", "disconnect", "install"},
         NEW row \in Entries \cup {"none", "load"}, NEW group \in MaybeGroup
  PROVE  LET w == Fleet!Request(op, row, group)
         IN  /\ w \in FleetWires /\ w.op = op /\ w.row = row /\ w.group = group /\ ~w.served
BY DEF Fleet!Request, FleetWires

\* The page with one more act of the operator.
LEMMA FleetActed ==
  ASSUME NEW s \in FleetScreens, screen \in FleetScreens, Fleet!Acted(s)
  PROVE  /\ screen' \in FleetScreens /\ screen'.page = s.page /\ screen'.rows = s.rows
         /\ screen'.filter = s.filter /\ screen'.failed = s.failed /\ screen'.confirm = s.confirm
         /\ screen'.acting = s.acting /\ screen'.installing = s.installing
         /\ screen'.modal = s.modal
<1>1. screen.acts + 1 \in Nat
  BY DEF FleetScreens
<1>2. screen' = [s EXCEPT !.acts = screen.acts + 1]
  BY DEF Fleet!Acted
<1> DEFINE n == screen.acts + 1
<1> HIDE DEF n
<1> QED BY <1>1, <1>2 DEF FleetScreens, n

\* The server and the filter stay.
LEMMA FleetFactsKept ==
  ASSUME FleetFacts, backend' = backend, screen'.page = screen.page,
         screen'.filter = screen.filter
  PROVE  FleetFacts'
BY DEF FleetFacts

\* The dialogs leave what is read and what is sent alone.
FleetQuiet ==
  /\ screen' \in FleetScreens /\ screen'.page = screen.page /\ screen'.rows = screen.rows
  /\ screen'.filter = screen.filter /\ screen'.failed = screen.failed
  /\ screen'.acting = screen.acting /\ screen'.installing = screen.installing
  /\ \/ screen'.confirm.act = "none" \/ screen'.confirm = screen.confirm
     \/ screen'.confirm.row \in Entries /\ screen'.installing = "none"

LEMMA FleetQuietly ==
  ASSUME FleetInv, FleetQuiet, wires' = wires, backend' = backend
  PROVE  FleetTypes' /\ FleetFacts' /\ FleetActing' /\ FleetCalm'
<1> USE DEF FleetInv
<1>1. FleetTypes'
  BY FleetStays DEF FleetQuiet, FleetTypes
<1>2. FleetFacts'
  BY FleetFactsKept DEF FleetQuiet
<1>3. FleetActing'
  <2>1. /\ FleetGrown /\ screen'.acting = screen.acting /\ screen'.installing = screen.installing
        /\ \A j \in 1..Len(wires') : j > Len(wires) => ~FleetAct(wires'[j])
    BY FleetStays DEF FleetQuiet
  <2>2. \/ screen'.confirm.act = "none" \/ screen'.confirm = screen.confirm
        \/ screen'.confirm.row \in Entries /\ screen'.installing = "none"
    BY DEF FleetQuiet
  <2> QED BY <2>1, <2>2, FleetActingKept
<1>4. FleetCalm'
  BY FleetStays, FleetCalmKept DEF FleetQuiet
<1> QED BY <1>1, <1>2, <1>3, <1>4

LEMMA FleetSelectGroup ==
  ASSUME FleetInv, NEW g \in Tenants, Fleet!SelectGroup(g) PROVE FleetInv'
<1> USE DEF FleetInv, FleetTypes
<1> DEFINE s == [screen EXCEPT !.modal.group = g]
<1>1. /\ s \in FleetScreens /\ s.page = screen.page /\ s.rows = screen.rows
      /\ s.filter = screen.filter /\ s.failed = screen.failed /\ s.confirm = screen.confirm
      /\ s.acting = screen.acting /\ s.installing = screen.installing
      /\ s.modal.made = screen.modal.made /\ s.modal.submitting = screen.modal.submitting
      /\ s.modal.open = screen.modal.open
  BY DEF FleetScreens, MaybeGroup
<1>2. /\ Fleet!Acted(s) /\ ~screen.modal.submitting /\ screen.modal.made = "none"
      /\ wires' = wires /\ backend' = backend
  BY DEF Fleet!SelectGroup, Fleet!None, Fleet!Acts
<1> HIDE DEF s
<1>3. FleetQuiet /\ screen'.modal = s.modal
  BY <1>1, <1>2, FleetActed DEF FleetQuiet
<1>4. FleetToken'
  BY <1>1, <1>2, <1>3 DEF FleetToken
<1> QED BY <1>2, <1>3, <1>4, FleetQuietly

LEMMA FleetOpenModal ==
  ASSUME FleetInv, Fleet!OpenModal PROVE FleetInv'
<1> USE DEF FleetInv, FleetTypes
<1>0. PICK g \in Tenants : Fleet!Acted([screen EXCEPT !.modal.open = TRUE, !.modal.group = g])
  BY DEF Fleet!OpenModal
<1> DEFINE s == [screen EXCEPT !.modal.open = TRUE, !.modal.group = g]
<1>1. /\ s \in FleetScreens /\ s.page = screen.page /\ s.rows = screen.rows
      /\ s.filter = screen.filter /\ s.failed = screen.failed /\ s.confirm = screen.confirm
      /\ s.acting = screen.acting /\ s.installing = screen.installing
      /\ s.modal.made = screen.modal.made /\ s.modal.submitting = screen.modal.submitting
      /\ s.modal.open = TRUE
  BY DEF FleetScreens, MaybeGroup
<1>2. /\ Fleet!Acted(s) /\ ~screen.modal.open /\ wires' = wires /\ backend' = backend
  BY <1>0 DEF Fleet!OpenModal, Fleet!Covered, Fleet!Acts
<1> HIDE DEF s
<1>3. FleetQuiet /\ screen'.modal = s.modal
  BY <1>1, <1>2, FleetActed DEF FleetQuiet
<1>4. FleetToken'
  BY <1>1, <1>2, <1>3 DEF FleetToken
<1> QED BY <1>2, <1>3, <1>4, FleetQuietly

LEMMA FleetCloseModal ==
  ASSUME FleetInv, Fleet!CloseModal PROVE FleetInv'
<1> USE DEF FleetInv, FleetTypes
<1> DEFINE s == [screen EXCEPT !.modal = Fleet!Closed]
<1>1. /\ s \in FleetScreens /\ s.page = screen.page /\ s.rows = screen.rows
      /\ s.filter = screen.filter /\ s.failed = screen.failed /\ s.confirm = screen.confirm
      /\ s.acting = screen.acting /\ s.installing = screen.installing
      /\ s.modal.made = "none" /\ ~s.modal.submitting
  BY DEF FleetScreens, MaybeGroup, Fleet!Closed, Fleet!None
<1>2. /\ Fleet!Acted(s) /\ wires' = wires /\ backend' = backend
      /\ backend.calm => ~screen.modal.submitting
  BY DEF Fleet!CloseModal, Fleet!Acts
<1> HIDE DEF s
<1>3. FleetQuiet /\ screen'.modal = s.modal
  BY <1>1, <1>2, FleetActed DEF FleetQuiet
<1>4. FleetToken'
  BY <1>1, <1>2, <1>3 DEF FleetToken
<1> QED BY <1>2, <1>3, <1>4, FleetQuietly

LEMMA FleetCancelConfirm ==
  ASSUME FleetInv, Fleet!CancelConfirm PROVE FleetInv'
<1> USE DEF FleetInv, FleetTypes
<1> DEFINE s == [screen EXCEPT !.confirm = [act |-> "none", row |-> "none"]]
<1>1. /\ s \in FleetScreens /\ s.page = screen.page /\ s.rows = screen.rows
      /\ s.filter = screen.filter /\ s.failed = screen.failed /\ s.confirm.act = "none"
      /\ s.acting = screen.acting /\ s.installing = screen.installing
      /\ s.modal = screen.modal
  BY DEF FleetScreens
<1>2. /\ Fleet!Acted(s) /\ wires' = wires /\ backend' = backend
  BY DEF Fleet!CancelConfirm, Fleet!Acts, Fleet!None
<1> HIDE DEF s
<1>3. FleetQuiet /\ screen'.modal = screen.modal
  BY <1>1, <1>2, FleetActed DEF FleetQuiet
<1>4. FleetToken'
  BY <1>2, <1>3, FleetStays, FleetTokenKept
<1> QED BY <1>2, <1>3, <1>4, FleetQuietly

LEMMA FleetOpenConfirm ==
  ASSUME FleetInv, NEW x \in screen.rows, NEW act \in {"delete", "disconnect"},
         Fleet!OpenConfirm(act, x)
  PROVE  FleetInv'
<1> USE DEF FleetInv, FleetTypes
<1> DEFINE s == [screen EXCEPT !.confirm = [act |-> act, row |-> x.id]]
<1>1. x.id \in Entries
  BY DEF FleetScreens, ListedRows
<1>2. /\ s \in FleetScreens /\ s.page = screen.page /\ s.rows = screen.rows
      /\ s.filter = screen.filter /\ s.failed = screen.failed /\ s.confirm.row = x.id
      /\ s.acting = screen.acting /\ s.installing = screen.installing
      /\ s.modal = screen.modal
  BY <1>1 DEF FleetScreens
<1>3. /\ Fleet!Acted(s) /\ wires' = wires /\ backend' = backend /\ screen.installing = "none"
  BY DEF Fleet!OpenConfirm, Fleet!Acts, Fleet!None
<1> HIDE DEF s
<1>4. FleetQuiet /\ screen'.modal = screen.modal
  BY <1>1, <1>2, <1>3, FleetActed DEF FleetQuiet
<1>5. FleetToken'
  BY <1>3, <1>4, FleetStays, FleetTokenKept
<1> QED BY <1>3, <1>4, <1>5, FleetQuietly

-----------------------------------------------------------------------------
\* A reading is asked for by the page: another filter, another try, the next poll.
LEMMA FleetReads ==
  ASSUME FleetInv, NEW row \in {"none", "load"}, screen' \in FleetScreens, backend' = backend,
         wires' = Fleet!Ask("list", row, screen'.filter),
         screen'.page = screen.page, screen'.page = "workers" => screen'.filter = "none",
         screen'.acting = screen.acting, screen'.installing = screen.installing,
         screen'.confirm = screen.confirm, screen'.modal = screen.modal
  PROVE  FleetInv'
<1> USE DEF FleetInv
<1> DEFINE w == Fleet!Request("list", row, screen'.filter)
<1>1. w \in FleetWires /\ w.op = "list" /\ w.row = row /\ w.group = screen'.filter /\ ~w.served
  <2>1. screen'.filter \in MaybeGroup
    BY DEF FleetScreens
  <2> QED BY <2>1, FleetRequest
<1>2. wires' = Append(wires, w)
  BY DEF Fleet!Ask
<1>3. ~FleetAct(w)
  BY <1>1, FleetConstants DEF FleetAct
<1> HIDE DEF w
<1>4. FleetTypes'
  BY <1>1, <1>2, FleetSent DEF FleetTypes
<1>5. FleetFacts'
  BY DEF FleetFacts
<1>6. FleetActing'
  <2>1. FleetGrown /\ \A j \in 1..Len(wires') : j > Len(wires) => ~FleetAct(wires'[j])
    BY <1>1, <1>2, <1>3, FleetSent
  <2> QED BY <2>1, FleetActingKept
<1>7. FleetCalm'
  BY <1>1, <1>2, FleetSent, FleetCalmAsked
<1>8. FleetToken'
  BY <1>1, <1>2, FleetSent, FleetTokenKept
<1> QED BY <1>4, <1>5, <1>6, <1>7, <1>8

LEMMA FleetSelectFilter ==
  ASSUME FleetInv, NEW g \in MaybeGroup, Fleet!SelectFilter(g) PROVE FleetInv'
<1> USE DEF FleetInv, FleetTypes
<1> DEFINE s == [screen EXCEPT !.filter = g, !.loading = TRUE, !.failed = FALSE]
<1>1. /\ s \in FleetScreens /\ s.page = screen.page /\ s.filter = g /\ s.confirm = screen.confirm
      /\ s.acting = screen.acting /\ s.installing = screen.installing
      /\ s.modal = screen.modal
  BY DEF FleetScreens
<1>2. /\ Fleet!Acted(s) /\ wires' = Fleet!Ask("list", "load", g) /\ backend' = backend
      /\ screen.page # "workers"
  BY DEF Fleet!SelectFilter, Fleet!Acts, Fleet!Page
<1> HIDE DEF s
<1> QED BY <1>1, <1>2, FleetActed, FleetReads

LEMMA FleetRetry ==
  ASSUME FleetInv, Fleet!Retry PROVE FleetInv'
<1> USE DEF FleetInv, FleetTypes
<1> DEFINE s == [screen EXCEPT !.loading = TRUE, !.failed = FALSE]
<1>1. /\ s \in FleetScreens /\ s.page = screen.page /\ s.filter = screen.filter
      /\ s.confirm = screen.confirm /\ s.acting = screen.acting
      /\ s.installing = screen.installing /\ s.modal = screen.modal
  BY DEF FleetScreens
<1>2. /\ Fleet!Acted(s) /\ wires' = Fleet!Ask("list", "load", screen.filter)
      /\ backend' = backend
  BY DEF Fleet!Retry, Fleet!Acts
<1>3. screen.page = "workers" => screen.filter = "none"
  BY DEF FleetFacts
<1> HIDE DEF s
<1> QED BY <1>1, <1>2, <1>3, FleetActed, FleetReads

LEMMA FleetPoll ==
  ASSUME FleetInv, Fleet!Poll PROVE FleetInv'
<1> USE DEF FleetInv, FleetTypes
<1>1. /\ screen.page = "workers" /\ wires' = Fleet!Ask("list", "none", "none")
      /\ screen' = [screen EXCEPT !.failed = FALSE] /\ backend' = backend
  BY DEF Fleet!Poll, Fleet!Page, Fleet!None
<1>2. screen.filter = "none"
  BY <1>1 DEF FleetFacts
<1>3. /\ screen' \in FleetScreens /\ screen'.page = screen.page /\ screen'.filter = screen.filter
      /\ screen'.confirm = screen.confirm /\ screen'.acting = screen.acting
      /\ screen'.installing = screen.installing /\ screen'.modal = screen.modal
  BY <1>1 DEF FleetScreens
<1> QED BY <1>1, <1>2, <1>3, FleetReads

\* What the page sends besides.
LEMMA FleetSubmit ==
  ASSUME FleetInv, Fleet!Submit PROVE FleetInv'
<1> USE DEF FleetInv
<1> DEFINE s == [screen EXCEPT !.modal.submitting = TRUE]
           w == Fleet!Request("token", "none", screen.modal.group)
<1>1. /\ s \in FleetScreens /\ s.page = screen.page /\ s.rows = screen.rows
      /\ s.filter = screen.filter /\ s.failed = screen.failed /\ s.confirm = screen.confirm
      /\ s.acting = screen.acting /\ s.installing = screen.installing
      /\ s.modal.open = screen.modal.open /\ s.modal.submitting = TRUE
      /\ s.modal.made = screen.modal.made /\ s.modal.group = screen.modal.group
  BY DEF FleetScreens, FleetTypes
<1>2. /\ Fleet!Acted(s) /\ wires' = Append(wires, w) /\ backend' = backend
      /\ screen.modal.open /\ ~screen.modal.submitting /\ screen.modal.made = "none"
  BY DEF Fleet!Submit, Fleet!Acts, Fleet!Ask, Fleet!None
<1>3. w \in FleetWires /\ w.op = "token" /\ w.group = screen.modal.group
  <2> DEFINE g == screen.modal.group
  <2>1. g \in MaybeGroup
    BY DEF FleetScreens, FleetTypes
  <2> HIDE DEF g, s
  <2>2. /\ Fleet!Request("token", "none", g) \in FleetWires
        /\ Fleet!Request("token", "none", g).op = "token"
        /\ Fleet!Request("token", "none", g).group = g
    BY <2>1, FleetRequest
  <2> QED BY <2>2 DEF g
<1>4. ~FleetAct(w)
  BY <1>3 DEF FleetAct
<1> HIDE DEF s, w
<1>5. /\ screen' \in FleetScreens /\ screen'.page = screen.page /\ screen'.rows = screen.rows
      /\ screen'.filter = screen.filter /\ screen'.failed = screen.failed
      /\ screen'.confirm = screen.confirm /\ screen'.acting = screen.acting
      /\ screen'.installing = screen.installing /\ screen'.modal = s.modal
  BY <1>1, <1>2, FleetActed DEF FleetTypes
<1>6. FleetTypes'
  BY <1>2, <1>3, <1>5, FleetSent DEF FleetTypes
<1>7. FleetFacts'
  BY <1>2, <1>5 DEF FleetFacts
<1>8. FleetActing'
  <2>1. FleetGrown /\ \A j \in 1..Len(wires') : j > Len(wires) => ~FleetAct(wires'[j])
    BY <1>2, <1>3, <1>4, FleetSent
  <2> QED BY <1>5, <2>1, FleetActingKept
<1>9. FleetCalm'
  BY <1>2, <1>3, <1>5, FleetSent, FleetCalmKept
<1>10. FleetToken'
  <2>1. backend.calm => \A j \in 1..Len(wires) : wires[j].op # "token"
    BY <1>2 DEF FleetToken
  <2>2. backend.calm => \A j \in 1..Len(wires') : wires'[j].op = "token" =>
          wires'[j] = w /\ j = Len(wires) + 1
    BY <1>2, <2>1 DEF FleetTypes
  <2>3. /\ screen'.modal.open = TRUE /\ screen'.modal.submitting = TRUE
        /\ screen'.modal.made = "none" /\ w.group = screen'.modal.group
        /\ backend'.calm = backend.calm
    <3>1. screen.modal.open = TRUE
      BY <1>2 DEF FleetScreens, FleetTypes
    <3> QED BY <1>1, <1>2, <1>3, <1>5, <3>1
  <2> QED BY <2>2, <2>3 DEF FleetToken
<1> QED BY <1>6, <1>7, <1>8, <1>9, <1>10

LEMMA FleetStarts ==
  ASSUME FleetInv, NEW op \in {"delete", "disconnect", "install"}, NEW row \in Entries,
         screen' \in FleetScreens, backend' = backend, wires' = Fleet!Ask(op, row, "none"),
         ~screen.acting, screen.installing = "none", screen'.modal = screen.modal,
         screen'.page = screen.page, screen'.rows = screen.rows,
         screen'.filter = screen.filter, screen'.failed = screen.failed,
         screen'.confirm = screen.confirm,
         IF op = "install"
         THEN screen'.installing = row /\ ~screen'.acting /\ screen.confirm.act = "none"
         ELSE screen'.installing = "none" /\ screen'.acting
  PROVE  FleetInv'
<1> USE DEF FleetInv
<1> DEFINE w == Fleet!Request(op, row, "none")
<1>1. w \in FleetWires /\ w.op = op /\ w.row = row
  BY FleetRequest DEF MaybeGroup
<1>2. wires' = Append(wires, w)
  BY DEF Fleet!Ask
<1>3. FleetAct(w) /\ row # "none"
  BY <1>1, FleetConstants DEF FleetAct
<1> HIDE DEF w
<1>4. FleetTypes'
  BY <1>1, <1>2, FleetSent DEF FleetTypes
<1>5. FleetFacts'
  BY FleetFactsKept
<1>6. FleetActing'
  <2>1. \A j \in 1..Len(wires) : ~FleetAct(wires[j])
    BY DEF FleetActing
  <2>2. /\ \A j \in 1..Len(wires') : FleetAct(wires'[j]) => wires'[j] = w /\ j = Len(wires')
        /\ wires'[Len(wires')] = w /\ Len(wires') \in 1..Len(wires')
    BY <1>2, <2>1 DEF FleetTypes
  <2>3. \A j \in 1..Len(wires') : wires'[j].op \in {"delete", "disconnect", "install"} =>
          wires'[j] = w
    BY <2>2 DEF FleetAct
  <2>4. screen'.acting \/ screen'.installing # "none"
    BY <1>3
  <2>5. ~(screen'.acting /\ screen'.installing # "none")
    BY <1>3
  <2>6. screen'.confirm.act # "none" => screen'.confirm.row \in Entries /\ screen'.installing = "none"
    BY DEF FleetActing
  <2>7. /\ w.op \in {"delete", "disconnect"} => screen'.acting
        /\ w.op = "install" => screen'.installing # "none"
    BY <1>1, <1>3
  <2>8. w.row \in Entries
    BY <1>1
  <2> QED BY <1>3, <2>2, <2>3, <2>4, <2>5, <2>6, <2>7, <2>8 DEF FleetActing
<1>7. FleetCalm'
  BY <1>1, <1>2, FleetSent, FleetCalmKept
<1>8. FleetToken'
  BY <1>1, <1>2, FleetSent, FleetTokenKept
<1> QED BY <1>4, <1>5, <1>6, <1>7, <1>8

LEMMA FleetRunConfirmed ==
  ASSUME FleetInv, Fleet!RunConfirmed PROVE FleetInv'
<1> USE DEF FleetInv
<1> DEFINE s == [screen EXCEPT !.acting = TRUE]
<1>1. /\ s \in FleetScreens /\ s.page = screen.page /\ s.rows = screen.rows
      /\ s.filter = screen.filter /\ s.failed = screen.failed /\ s.confirm = screen.confirm
      /\ s.acting /\ s.installing = screen.installing /\ s.modal = screen.modal
      /\ screen.confirm.act \in {"none", "delete", "disconnect"}
  BY DEF FleetScreens, FleetTypes
<1>2. /\ Fleet!Acted(s) /\ backend' = backend /\ ~screen.acting
      /\ wires' = Fleet!Ask(screen.confirm.act, screen.confirm.row, "none")
      /\ screen.confirm.act # "none"
  BY DEF Fleet!RunConfirmed, Fleet!Acts, Fleet!None
<1>3. screen.confirm.row \in Entries /\ screen.installing = "none"
  BY <1>2 DEF FleetActing
<1> HIDE DEF s
<1>4. /\ screen' \in FleetScreens /\ screen'.page = screen.page /\ screen'.rows = screen.rows
      /\ screen'.filter = screen.filter /\ screen'.failed = screen.failed
      /\ screen'.confirm = screen.confirm /\ screen'.acting
      /\ screen'.installing = screen.installing /\ screen'.modal = screen.modal
  BY <1>1, <1>2, FleetActed DEF FleetTypes
<1> QED BY <1>1, <1>2, <1>3, <1>4, FleetStarts

LEMMA FleetInstallDocker ==
  ASSUME FleetInv, NEW x \in screen.rows, Fleet!InstallDocker(x) PROVE FleetInv'
<1> USE DEF FleetInv
<1> DEFINE s == [screen EXCEPT !.installing = x.id]
<1>1. x.id \in Entries
  BY DEF FleetTypes, FleetScreens, ListedRows
<1>2. /\ s \in FleetScreens /\ s.page = screen.page /\ s.rows = screen.rows
      /\ s.filter = screen.filter /\ s.failed = screen.failed /\ s.confirm = screen.confirm
      /\ s.acting = screen.acting /\ s.installing = x.id /\ s.modal = screen.modal
  BY <1>1 DEF FleetScreens, FleetTypes
<1>3. /\ Fleet!Acted(s) /\ backend' = backend /\ ~screen.acting
      /\ wires' = Fleet!Ask("install", x.id, "none")
      /\ screen.installing = "none" /\ screen.confirm.act = "none"
  BY DEF Fleet!InstallDocker, Fleet!Acts, Fleet!None
<1> HIDE DEF s
<1>4. /\ screen' \in FleetScreens /\ screen'.page = screen.page /\ screen'.rows = screen.rows
      /\ screen'.filter = screen.filter /\ screen'.failed = screen.failed
      /\ screen'.confirm = screen.confirm /\ ~screen'.acting
      /\ screen'.installing = x.id /\ screen'.modal = screen.modal
  BY <1>2, <1>3, FleetActed DEF FleetTypes
<1> QED BY <1>1, <1>3, <1>4, FleetStarts

-----------------------------------------------------------------------------
\* The server changes what is on record, or the network loses a request.
LEMMA FleetAgentChanges ==
  ASSUME FleetInv, Fleet!AgentChanges PROVE FleetInv'
<1> USE DEF FleetInv
<1>1. PICK x \in Entries, now \in Fleet!Statuses \ {"gone"} :
        backend' = [backend EXCEPT !.rows[x].status = now, !.changes = @ - 1]
  BY DEF Fleet!AgentChanges
<1>2. backend.changes > 0 /\ screen' = screen /\ wires' = wires
  BY DEF Fleet!AgentChanges
<1>3. /\ backend' \in FleetBackends /\ backend'.calm = backend.calm
      /\ backend'.losses = backend.losses /\ backend'.lost = backend.lost
  <2>1. backend.rows[x] \in FleetRows /\ backend.changes - 1 \in Nat
    BY <1>2 DEF FleetTypes, FleetBackends
  <2> DEFINE row == [backend.rows[x] EXCEPT !.status = now]
             n == backend.changes - 1
  <2>2. row \in FleetRows
    BY <2>1 DEF FleetRows
  <2>3. backend' = [backend EXCEPT !.rows = [backend.rows EXCEPT ![x] = row], !.changes = n]
    BY <1>1 DEF FleetTypes, FleetBackends
  <2> HIDE DEF row, n
  <2>4. n \in Nat
    BY <2>1 DEF n
  <2> QED BY <2>2, <2>3, <2>4 DEF FleetTypes, FleetBackends
<1>4. FleetTypes' /\ FleetFacts' /\ ~backend.calm
  BY <1>2, <1>3 DEF FleetTypes, FleetFacts, FleetBackends
<1>5. FleetActing'
  BY <1>2, FleetStays, FleetActingKept
<1>6. FleetCalm' /\ FleetToken'
  BY <1>3, <1>4 DEF FleetCalm, FleetToken
<1> QED BY <1>4, <1>5, <1>6

LEMMA FleetServe ==
  ASSUME FleetInv, NEW i \in 1..Len(wires), Fleet!Serve(i) PROVE FleetInv'
<1> USE DEF FleetInv
<1> DEFINE r == wires[i]
           o == Fleet!Outcome(r)
           w == [r EXCEPT !.served = TRUE, !.ok = o.ok, !.data = o.data]
           filter == screen.filter
<1>1. r \in FleetWires
  BY DEF FleetTypes
<1>2. /\ o.ok \in BOOLEAN /\ o.data \subseteq ListedRows /\ o.backend \in FleetBackends
      /\ o.backend.calm = backend.calm /\ o.backend.changes = backend.changes
      /\ o.backend.losses = backend.losses /\ o.backend.lost = backend.lost
      /\ r.op = "list" => o.data = Fleet!Record(r.group)
      /\ r.op \in {"list", "token"} \/ ~o.ok => o.backend = backend
  <2> HIDE DEF r
  <2> QED BY <1>1, FleetOutcome
<1>3. /\ ~r.served /\ wires' = [wires EXCEPT ![i] = w] /\ backend' = o.backend
      /\ screen' = screen
  <2>1. ~r.served /\ backend' = o.backend /\ screen' = screen
    BY DEF Fleet!Serve
  <2>2. wires' = [wires EXCEPT ![i].served = TRUE, ![i].ok = o.ok, ![i].data = o.data]
    BY DEF Fleet!Serve
  <2> HIDE DEF o
  <2> QED BY <2>1, <2>2 DEF FleetTypes
<1> HIDE DEF o
<1>4. /\ w \in FleetWires /\ w.op = r.op /\ w.row = r.row /\ w.group = r.group
      /\ w.served = TRUE /\ w.ok = o.ok /\ w.data = o.data
  <2> HIDE DEF r
  <2> QED BY <1>1, <1>2 DEF FleetWires
<1> HIDE DEF w
<1>5. /\ FleetGrown /\ wires' \in Seq(FleetWires) /\ Len(wires') = Len(wires)
      /\ wires'[i] = w /\ \A j \in 1..Len(wires) : j # i => wires'[j] = wires[j]
      /\ \A j \in 1..Len(wires') : ~(j > Len(wires))
  BY <1>3, <1>4, FleetMarked
<1>6. FleetTypes'
  BY <1>2, <1>3, <1>5 DEF FleetTypes
<1>7. FleetFacts'
  BY <1>2, <1>3 DEF FleetFacts
<1>8. FleetActing'
  BY <1>3, <1>5, FleetActingKept
<1>9. FleetToken'
  BY <1>2, <1>3, <1>5, FleetTokenKept
<1>10. FleetCalm'
  <2> SUFFICES ASSUME backend.calm, ~backend.lost PROVE FleetCalm'
    BY <1>2, <1>3 DEF FleetCalm
  <2>1. ASSUME NEW k \in 1..Len(wires), wires'[k].op = "list",
               \A j \in 1..Len(wires) : wires'[j].op = "list" => j <= k
        PROVE  /\ wires[k].op = "list" /\ \A j \in 1..Len(wires) : wires[j].op = "list" => j <= k
               /\ wires'[k].group = filter /\ wires[k].group = filter
    <3>1. wires[k].op = "list" /\ \A j \in 1..Len(wires) : wires[j].op = "list" => j <= k
      BY <1>5, <2>1 DEF FleetGrown
    <3> QED BY <1>5, <3>1 DEF FleetCalm, FleetGrown
  <2>2. CASE r.op \in {"delete", "disconnect", "install"} /\ o.ok
    <3>1. FleetChanged'
      BY <1>4, <1>5, <2>2 DEF FleetChanged
    <3> QED BY <1>3, <1>5, <2>1, <3>1 DEF FleetCalm, FleetShows
  <2>3. CASE ~(r.op \in {"delete", "disconnect", "install"} /\ o.ok)
    <3>1. backend' = backend
      <4>1. r.op \in {"list", "token"} \/ ~o.ok
        BY <1>1, <2>3 DEF FleetWires
      <4> QED BY <1>2, <1>3, <4>1
    <3>2. FleetChanged => FleetChanged'
      BY <1>3, <1>5 DEF FleetChanged
    <3>3. Fleet!Record(filter)' = Fleet!Record(filter)
      BY <1>3, <3>1 DEF Fleet!Record
    <3>4. ASSUME NEW k \in 1..Len(wires), wires'[k].op = "list",
                 \A j \in 1..Len(wires) : wires'[j].op = "list" => j <= k,
                 wires'[k].served, wires'[k].ok
          PROVE  wires'[k].data = Fleet!Record(filter) \/ FleetChanged
      <4>1. CASE k = i
        <5>1. r.op = "list" /\ r.group = filter
          BY <2>1, <3>4, <4>1
        <5>2. w.data = Fleet!Record(filter)
          BY <1>2, <1>4, <5>1
        <5> QED BY <1>5, <4>1, <5>2
      <4>2. CASE k # i
        <5>1. wires'[k] = wires[k]
          BY <1>5, <4>2
        <5>2. FleetShows(wires[k].data)
          BY <2>1, <3>4, <5>1 DEF FleetCalm
        <5> QED BY <5>1, <5>2 DEF FleetShows
      <4> QED BY <4>1, <4>2
    <3>5. ASSUME ~screen.failed, \A j \in 1..Len(wires) : wires'[j].op # "list"
          PROVE  screen.rows = Fleet!Record(filter) \/ FleetChanged
      <4>1. \A j \in 1..Len(wires) : wires[j].op # "list"
        BY <1>5, <3>5 DEF FleetGrown
      <4> QED BY <3>5, <4>1 DEF FleetCalm, FleetShows
    <3>6. \A listed : FleetShows(listed)' <=> listed = Fleet!Record(filter) \/ FleetChanged'
      BY <1>3, <3>3 DEF FleetShows
    <3> QED BY <1>3, <1>5, <2>1, <3>2, <3>4, <3>5, <3>6 DEF FleetCalm, FleetShows
  <2> QED BY <2>2, <2>3
<1> QED BY <1>6, <1>7, <1>8, <1>9, <1>10

LEMMA FleetLose ==
  ASSUME FleetInv, NEW i \in 1..Len(wires), Fleet!Lose(i) PROVE FleetInv'
<1> USE DEF FleetInv
<1> DEFINE r == wires[i]
           w == [r EXCEPT !.served = TRUE, !.ok = FALSE]
           filter == screen.filter
<1>1. r \in FleetWires
  BY DEF FleetTypes
<1>2. wires' = [wires EXCEPT ![i] = w] /\ screen' = screen
  BY DEF Fleet!Lose, FleetTypes
<1>3. /\ w \in FleetWires /\ w.op = r.op /\ w.row = r.row /\ w.group = r.group
      /\ w.served = TRUE /\ w.ok = FALSE
  <2> HIDE DEF r
  <2> QED BY <1>1 DEF FleetWires
<1>4. /\ backend.losses = 1 /\ ~backend.lost /\ (~r.served \/ r.ok)
      /\ backend' = [backend EXCEPT !.losses = 0, !.lost = r.ok]
  <2>1. backend.losses \in 0..1
    BY DEF FleetTypes, FleetBackends
  <2>2. /\ backend.losses > 0 /\ (~r.served \/ r.ok)
        /\ backend' = [backend EXCEPT !.losses = backend.losses - 1, !.lost = r.ok]
    BY DEF Fleet!Lose
  <2>3. backend.losses = 1
    BY <2>1, <2>2
  <2>4. backend.losses - 1 = 0
    BY <2>3
  <2> QED BY <2>2, <2>3, <2>4 DEF FleetFacts
<1>5. /\ backend' \in FleetBackends /\ backend'.calm = backend.calm
      /\ backend'.changes = backend.changes /\ backend'.losses = 0 /\ backend'.lost = r.ok
      /\ backend'.rows = backend.rows
  <2> DEFINE ok == r.ok
  <2>1. ok \in BOOLEAN
    BY <1>1 DEF FleetWires
  <2>2. backend' = [backend EXCEPT !.losses = 0, !.lost = ok]
    BY <1>4
  <2> HIDE DEF r, ok
  <2>3. backend \in FleetBackends /\ 0 \in 0..1
    BY DEF FleetTypes
  <2>4. /\ backend'.calm = backend.calm
        /\ backend'.changes = backend.changes /\ backend'.losses = 0 /\ backend'.lost = ok
        /\ backend'.rows = backend.rows
    BY <2>2, <2>3 DEF FleetBackends
  <2>5. backend' \in FleetBackends
    BY <2>1, <2>2, <2>3 DEF FleetBackends
  <2> QED BY <2>4, <2>5 DEF ok
<1> HIDE DEF w
<1>6. /\ FleetGrown /\ wires' \in Seq(FleetWires) /\ Len(wires') = Len(wires)
      /\ wires'[i] = w /\ \A j \in 1..Len(wires) : j # i => wires'[j] = wires[j]
      /\ \A j \in 1..Len(wires') : ~(j > Len(wires))
  BY <1>2, <1>3, FleetMarked
<1>7. FleetTypes'
  BY <1>2, <1>5, <1>6 DEF FleetTypes
<1>8. FleetFacts'
  BY <1>2, <1>5 DEF FleetFacts
<1>9. FleetActing'
  BY <1>2, <1>6, FleetActingKept
<1>10. FleetToken'
  BY <1>2, <1>5, <1>6, FleetTokenKept
<1>11. FleetCalm'
  <2> SUFFICES ASSUME backend.calm, ~r.ok PROVE FleetCalm'
    BY <1>5 DEF FleetCalm
  <2>1. ASSUME NEW k \in 1..Len(wires), wires'[k].op = "list",
               \A j \in 1..Len(wires) : wires'[j].op = "list" => j <= k
        PROVE  /\ wires'[k].group = filter
               /\ wires'[k].served /\ wires'[k].ok => FleetShows(wires'[k].data)
    <3>1. wires[k].op = "list" /\ \A j \in 1..Len(wires) : wires[j].op = "list" => j <= k
      BY <1>6, <2>1 DEF FleetGrown
    <3>2. /\ wires[k].group = filter
          /\ wires[k].served /\ wires[k].ok => FleetShows(wires[k].data)
      BY <1>4, <3>1 DEF FleetCalm
    <3>3. k # i => wires'[k] = wires[k]
      BY <1>6
    <3> QED BY <1>3, <1>6, <3>2, <3>3 DEF FleetGrown
  <2>2. ASSUME ~screen.failed, \A j \in 1..Len(wires) : wires'[j].op # "list"
        PROVE  FleetShows(screen.rows)
    <3>1. \A j \in 1..Len(wires) : wires[j].op # "list"
      BY <1>6, <2>2 DEF FleetGrown
    <3> QED BY <1>4, <2>2, <3>1 DEF FleetCalm
  <2>3. FleetChanged => FleetChanged'
    BY <1>6 DEF FleetChanged
  <2>4. Fleet!Record(filter)' = Fleet!Record(filter)
    BY <1>2, <1>5 DEF Fleet!Record
  <2>5. \A listed : FleetShows(listed) => listed = Fleet!Record(filter)' \/ FleetChanged'
    BY <2>3, <2>4 DEF FleetShows
  <2> QED BY <1>2, <1>6, <2>1, <2>2, <2>5 DEF FleetCalm, FleetShows
<1> QED BY <1>7, <1>8, <1>9, <1>10, <1>11

-----------------------------------------------------------------------------
LEMMA FleetActingLeft ==
  ASSUME FleetInv, NEW i \in 1..Len(wires), NEW w,
         Left(wires, wires', i, 0, w), ~FleetAct(wires[i]),
         screen'.acting = screen.acting, screen'.installing = screen.installing,
         screen'.confirm = screen.confirm
  PROVE  FleetActing'
<1>1. FleetTypes /\ FleetActing
  BY DEF FleetInv
<1>2. \A j \in 1..Len(wires') : \E k \in 1..Len(wires) :
        k # i /\ wires'[j] = wires[k] /\ k = IF j < i THEN j ELSE j + 1
  BY <1>1 DEF Left
<1>3. \A j, l \in 1..Len(wires') :
        (IF j < i THEN j ELSE j + 1) = (IF l < i THEN l ELSE l + 1) => j = l
  <2>1. i \in Nat /\ 1..Len(wires') \subseteq Int
    BY <1>1 DEF FleetTypes
  <2> QED BY <2>1
<1>4. \A j, l \in 1..Len(wires') : FleetAct(wires'[j]) /\ FleetAct(wires'[l]) => j = l
  BY <1>1, <1>2, <1>3 DEF FleetActing
<1>5. \A j \in 1..Len(wires') :
        /\ wires'[j].op \in {"delete", "disconnect", "install"} => wires'[j].row \in Entries
        /\ FleetAct(wires'[j]) => screen'.acting \/ screen'.installing # "none"
        /\ wires'[j].op \in {"delete", "disconnect"} => screen'.acting
        /\ wires'[j].op = "install" => screen'.installing # "none"
  BY <1>1, <1>2 DEF FleetActing
<1>6. screen'.acting \/ screen'.installing # "none" =>
        \E j \in 1..Len(wires') : FleetAct(wires'[j])
  <2>1. SUFFICES ASSUME screen.acting \/ screen.installing # "none"
                 PROVE  \E j \in 1..Len(wires') : FleetAct(wires'[j])
    OBVIOUS
  <2>2. PICK k \in 1..Len(wires) : FleetAct(wires[k])
    BY <1>1, <2>1 DEF FleetActing
  <2>3. PICK j \in 1..Len(wires') : wires'[j] = wires[k]
    BY <1>1, <2>2 DEF Left
  <2> QED BY <2>2, <2>3
<1> QED BY <1>1, <1>4, <1>5, <1>6 DEF FleetActing

\* The only action is over: nothing that is left is one.
LEMMA FleetOnlyAct ==
  ASSUME FleetInv, NEW i \in 1..Len(wires), NEW n \in 0..1, NEW w,
         Left(wires, wires', i, n, w), FleetAct(wires[i])
  PROVE  \A j \in 1..Len(wires') :
           FleetAct(wires'[j]) => n = 1 /\ j = Len(wires') /\ wires'[j] = w
<1>1. \A j \in 1..Len(wires') :
        \/ \E k \in 1..Len(wires) : k # i /\ wires'[j] = wires[k]
        \/ n = 1 /\ j = Len(wires') /\ wires'[j] = w
  BY DEF FleetInv, Left
<1>2. \A k \in 1..Len(wires) : FleetAct(wires[k]) => k = i
  BY DEF FleetInv, FleetActing
<1> QED BY <1>1, <1>2

LEMMA FleetActingEnds ==
  ASSUME FleetInv, NEW i \in 1..Len(wires), NEW w,
         Left(wires, wires', i, 0, w), FleetAct(wires[i]),
         ~screen'.acting, screen'.installing = "none",
         screen'.confirm.act = "none" \/ screen'.confirm = screen.confirm
  PROVE  FleetActing'
<1>1. \A j \in 1..Len(wires') : ~FleetAct(wires'[j])
  BY FleetOnlyAct
<1>2. \A j \in 1..Len(wires') : wires'[j].op \notin {"delete", "disconnect", "install"}
  BY <1>1 DEF FleetAct
<1>3. screen'.confirm.act # "none" => screen'.confirm.row \in Entries
  BY DEF FleetInv, FleetActing
<1> QED BY <1>1, <1>2, <1>3 DEF FleetActing

LEMMA FleetActingTurns ==
  ASSUME FleetInv, NEW i \in 1..Len(wires), NEW w,
         Left(wires, wires', i, 1, w), FleetAct(wires[i]), FleetAct(w), w.op = "list",
         screen'.acting = screen.acting, screen'.installing = screen.installing,
         screen'.confirm.act = "none"
           \/ screen'.confirm = screen.confirm
  PROVE  FleetActing'
<1>1. \A j \in 1..Len(wires') : FleetAct(wires'[j]) => j = Len(wires') /\ wires'[j] = w
  BY FleetOnlyAct
<1>2. \A j \in 1..Len(wires') : wires'[j].op \notin {"delete", "disconnect", "install"}
  BY <1>1 DEF FleetAct
<1>3. Len(wires') \in 1..Len(wires') /\ wires'[Len(wires')] = w
  BY DEF Left
<1>4. screen.acting \/ screen.installing # "none"
  BY DEF FleetInv, FleetActing
<1>5. /\ ~(screen'.acting /\ screen'.installing # "none")
      /\ screen'.confirm.act # "none" => screen'.confirm.row \in Entries /\ screen'.installing = "none"
  BY DEF FleetInv, FleetActing
<1> QED BY <1>1, <1>2, <1>3, <1>4, <1>5 DEF FleetActing

LEMMA FleetTokenLeft ==
  ASSUME FleetInv, NEW i \in 1..Len(wires), NEW n \in 0..1, NEW w,
         Left(wires, wires', i, n, w), n = 1 => w.op = "list",
         screen'.modal = screen.modal, backend' = backend
  PROVE  FleetToken'
<1>1. FleetTypes /\ FleetToken
  BY DEF FleetInv
<1>2. \A j \in 1..Len(wires') : wires'[j].op = "token" => \E k \in 1..Len(wires) :
        k # i /\ wires'[j] = wires[k] /\ k = IF j < i THEN j ELSE j + 1
  <2>1. \A j \in 1..Len(wires') :
          \/ \E k \in 1..Len(wires) : k # i /\ wires'[j] = wires[k]
                                      /\ k = IF j < i THEN j ELSE j + 1
          \/ n = 1 /\ j = Len(wires') /\ wires'[j] = w
    BY <1>1 DEF Left
  <2> QED BY <2>1
<1>3. \A j, l \in 1..Len(wires') :
        (IF j < i THEN j ELSE j + 1) = (IF l < i THEN l ELSE l + 1) => j = l
  <2>1. i \in Nat /\ 1..Len(wires') \subseteq Int
    BY <1>1 DEF FleetTypes
  <2> QED BY <2>1
<1>4. ASSUME backend.calm, NEW j \in 1..Len(wires'), NEW l \in 1..Len(wires'),
             wires'[j].op = "token", wires'[l].op = "token"
      PROVE  j = l
  <2>1. PICK k \in 1..Len(wires) :
          wires'[j] = wires[k] /\ k = IF j < i THEN j ELSE j + 1
    BY <1>2, <1>4
  <2>2. PICK m \in 1..Len(wires) :
          wires'[l] = wires[m] /\ m = IF l < i THEN l ELSE l + 1
    BY <1>2, <1>4
  <2>3. k = m
    BY <1>1, <1>4, <2>1, <2>2 DEF FleetToken
  <2> QED BY <1>3, <2>1, <2>2, <2>3
<1>5. backend.calm => \A j \in 1..Len(wires') : wires'[j].op = "token" =>
        /\ screen.modal.open /\ screen.modal.submitting /\ screen.modal.made = "none"
        /\ wires'[j].group = screen.modal.group
  BY <1>1, <1>2 DEF FleetToken
<1> QED BY <1>1, <1>4, <1>5 DEF FleetToken

LEMMA FleetTokenEnds ==
  ASSUME FleetInv, NEW i \in 1..Len(wires), NEW w,
         Left(wires, wires', i, 0, w), wires[i].op = "token", backend' = backend,
         screen'.modal.open = screen.modal.open,
         screen'.modal.group = screen.modal.group, ~screen'.modal.submitting,
         \/ screen'.modal.made = screen.modal.made
         \/ screen'.modal.made = wires[i].group
  PROVE  FleetToken'
<1>1. FleetTypes /\ FleetToken
  BY DEF FleetInv
<1>2. backend.calm => \A j \in 1..Len(wires') : wires'[j].op # "token"
  <2>1. \A j \in 1..Len(wires') : \E k \in 1..Len(wires) :
          k # i /\ wires'[j] = wires[k] /\ k = IF j < i THEN j ELSE j + 1
    BY <1>1 DEF Left
  <2>2. backend.calm => \A k \in 1..Len(wires) : wires[k].op = "token" => k = i
    BY <1>1 DEF FleetToken
  <2> QED BY <2>1, <2>2
<1>3. backend.calm => screen.modal.open /\ wires[i].group = screen.modal.group
  BY <1>1 DEF FleetToken
<1> QED BY <1>1, <1>2, <1>3 DEF FleetToken

\* In calm times the oldest request is answered.
LEMMA FleetCalmLeft ==
  ASSUME FleetInv, backend.calm, ~backend.lost, NEW w,
         Left(wires, wires', 1, 0, w), 1 \in 1..Len(wires), wires[1].served,
         wires[1].op \in {"delete", "disconnect", "install"} => ~wires[1].ok,
         backend' = backend, screen'.filter = screen.filter,
         IF wires[1].op = "list"
         THEN screen'.failed = ~wires[1].ok /\ (wires[1].ok => screen'.rows = wires[1].data)
         ELSE screen'.failed = screen.failed /\ screen'.rows = screen.rows
  PROVE  FleetCalm'
<1>1. FleetTypes /\ FleetCalm /\ Len(wires) \in Nat
  BY DEF FleetInv, FleetTypes
<1>2. \A j \in 1..Len(wires') :
        \E k \in 1..Len(wires) : k # 1 /\ wires'[j] = wires[k] /\ k = j + 1
  BY <1>1 DEF Left
<1>3. \A k \in 1..Len(wires) : k # 1 =>
        \E j \in 1..Len(wires') : wires'[j] = wires[k] /\ k = j + 1
  <2>1. \A k \in 1..Len(wires) : k # 1 =>
          \E j \in 1..Len(wires') : wires'[j] = wires[k] /\ j = IF k < 1 THEN k ELSE k - 1
    BY DEF Left
  <2> QED BY <2>1
<1>4. FleetChanged => FleetChanged'
  BY <1>3 DEF FleetChanged
<1>5. Fleet!Record(screen.filter)' = Fleet!Record(screen.filter)
  BY DEF Fleet!Record
<1>6. \A listed : FleetShows(listed) => listed = Fleet!Record(screen.filter)' \/ FleetChanged'
  BY <1>4, <1>5 DEF FleetShows
<1>7. ASSUME NEW k \in 1..Len(wires'), wires'[k].op = "list",
             \A j \in 1..Len(wires') : wires'[j].op = "list" => j <= k
      PROVE  /\ wires'[k].group = screen'.filter
             /\ wires'[k].served /\ wires'[k].ok => FleetShows(wires'[k].data)
  <2>1. k + 1 \in 1..Len(wires) /\ wires'[k] = wires[k + 1]
    BY <1>2
  <2>2. ASSUME NEW l \in 1..Len(wires), wires[l].op = "list" PROVE l <= k + 1
    <3>1. CASE l = 1
      BY <3>1
    <3>2. CASE l # 1
      <4>1. PICK j \in 1..Len(wires') : wires'[j] = wires[l] /\ l = j + 1
        BY <1>3, <3>2
      <4>2. j <= k
        BY <1>7, <2>2, <4>1
      <4> QED BY <4>1, <4>2
    <3> QED BY <3>1, <3>2
  <2> QED BY <1>1, <1>7, <2>1, <2>2 DEF FleetCalm
<1>8. ASSUME ~screen'.failed, \A j \in 1..Len(wires') : wires'[j].op # "list"
      PROVE  FleetShows(screen'.rows)
  <2>1. \A l \in 1..Len(wires) : wires[l].op = "list" => l = 1
    BY <1>3, <1>8
  <2>2. CASE wires[1].op = "list"
    <3>1. wires[1].ok /\ screen'.rows = wires[1].data
      BY <1>8, <2>2
    <3>2. \A j \in 1..Len(wires) : wires[j].op = "list" => j <= 1
      BY <2>1
    <3>3. FleetShows(wires[1].data)
      BY <1>1, <2>2, <3>1, <3>2 DEF FleetCalm
    <3> QED BY <3>1, <3>3
  <2>3. CASE wires[1].op # "list"
    <3>1. \A l \in 1..Len(wires) : wires[l].op # "list"
      BY <2>1, <2>3
    <3> QED BY <1>1, <1>8, <2>3, <3>1 DEF FleetCalm
  <2> QED BY <2>2, <2>3
<1> QED BY <1>6, <1>7, <1>8 DEF FleetCalm, FleetShows

LEMMA FleetReply ==
  ASSUME FleetInv, NEW i \in 1..Len(wires), Fleet!Reply(i) PROVE FleetInv'
<1> USE DEF FleetInv
<1> DEFINE r == wires[i]
           after == r.ok /\ r.op \in {"delete", "disconnect", "install"}
           w == Fleet!Request("list", r.row, screen.filter)
           nothing == [act |-> "none", row |-> "none"]
<1>1. r \in FleetWires /\ screen \in FleetScreens
  BY DEF FleetTypes
<1>2. /\ r.served /\ (backend.calm => i = 1) /\ backend' = backend
      /\ wires' = IF after THEN Append(Fleet!Without(i), w) ELSE Fleet!Without(i)
      /\ screen' = CASE r.op = "list" -> Fleet!ListRead(r)
                     [] r.op = "token" /\ r.ok -> [screen EXCEPT !.modal = Fleet!TokenMade(r)]
                     [] r.op = "token" /\ ~r.ok -> [screen EXCEPT !.modal.submitting = FALSE]
                     [] after -> Fleet!ActionDone(r)
                     [] r.op = "install" /\ ~r.ok -> [screen EXCEPT !.installing = "none"]
                     [] OTHER -> Fleet!ActionFailed
  BY DEF Fleet!Reply, Fleet!None
<1> HIDE DEF r
<1>3. /\ w \in FleetWires /\ w.op = "list" /\ w.row = r.row /\ w.group = screen.filter
      /\ ~w.served
  <2> DEFINE row == r.row
             filter == screen.filter
  <2>1. row \in Entries \cup {"none", "load"} /\ filter \in MaybeGroup
    BY <1>1 DEF FleetWires, FleetScreens
  <2> HIDE DEF row, filter
  <2>2. LET v == Fleet!Request("list", row, filter)
        IN  v \in FleetWires /\ v.op = "list" /\ v.row = row /\ v.group = filter /\ ~v.served
    BY <2>1, FleetRequest
  <2> QED BY <2>2 DEF row, filter
<1>4. after \in BOOLEAN
  OBVIOUS
<1> HIDE DEF w
<1>5. /\ wires' \in Seq(FleetWires) /\ (after => Left(wires, wires', i, 1, w))
      /\ ~after => Left(wires, wires', i, 0, w)
  <2> DEFINE u == Fleet!Without(i)
  <2>1. wires \in Seq(FleetWires)
    BY DEF FleetTypes
  <2>2. u \in Seq(FleetWires) /\ Dropping(wires, u, i)
    BY <2>1, Dropped DEF Fleet!Without
  <2> DEFINE n == IF after THEN 1 ELSE 0
  <2>3. n \in 0..1 /\ (after => n = 1) /\ (~after => n = 0)
    OBVIOUS
  <2>4. wires' = IF n = 1 THEN Append(u, w) ELSE u
    BY <1>2
  <2> HIDE DEF u, n, after
  <2>5. wires' \in Seq(FleetWires) /\ Left(wires, wires', i, n, w)
    BY <1>3, <2>1, <2>2, <2>3, <2>4, Leaves
  <2> QED BY <2>3, <2>5
<1>6. wires' \in Seq(FleetWires)
  BY <1>5
<1>7. screen' \in FleetScreens => FleetTypes'
  BY <1>2, <1>6 DEF FleetTypes
<1>8. screen'.page = screen.page /\ screen'.filter = screen.filter => FleetFacts'
  BY <1>2 DEF FleetFacts
<1>9. ASSUME ~after, IF r.op = "list"
                     THEN screen'.failed = ~r.ok /\ (r.ok => screen'.rows = r.data)
                     ELSE screen'.failed = screen.failed /\ screen'.rows = screen.rows,
             screen'.filter = screen.filter
      PROVE  FleetCalm'
  <2>1. CASE backend.calm /\ ~backend.lost
    BY <1>2, <1>4, <1>5, <1>9, <2>1, FleetCalmLeft DEF r
  <2>2. CASE ~(backend.calm /\ ~backend.lost)
    BY <1>2, <2>2 DEF FleetCalm
  <2> QED BY <2>1, <2>2
<1>10. CASE r.op = "list"
  <2> DEFINE own == r.row \in Entries
             brought == IF r.ok THEN r.data ELSE screen.rows
             waits == screen.loading /\ r.row # "load"
             s == [screen EXCEPT !.rows = brought, !.failed = ~r.ok, !.loading = waits]
  <2>1. ~after /\ screen' = Fleet!ListRead(r)
    BY <1>2, <1>10
  <2>2. screen' = IF own THEN [s EXCEPT !.acting = FALSE, !.installing = "none"] ELSE s
    <3>1. Fleet!ListRead(r) =
            IF own THEN [s EXCEPT !.acting = FALSE, !.installing = "none"] ELSE s
      BY DEF Fleet!ListRead, Fleet!None
    <3> QED BY <2>1, <3>1
  <2>3. brought \in SUBSET ListedRows /\ waits \in BOOLEAN /\ (~r.ok) \in BOOLEAN
    BY <1>1 DEF FleetScreens, FleetWires
  <2>4. r.ok => brought = r.data
    OBVIOUS
  <2> HIDE DEF brought, waits
  <2>5. /\ s \in FleetScreens /\ s.page = screen.page /\ s.rows = brought
        /\ s.filter = screen.filter
        /\ s.failed = ~r.ok /\ s.acting = screen.acting /\ s.installing = screen.installing
        /\ s.confirm = screen.confirm /\ s.modal = screen.modal
    BY <1>1, <2>3 DEF FleetScreens
  <2> HIDE DEF s
  <2>6. /\ screen' \in FleetScreens /\ screen'.page = screen.page /\ screen'.rows = brought
        /\ screen'.filter = screen.filter /\ screen'.failed = ~r.ok
        /\ screen'.confirm = screen.confirm /\ screen'.modal = screen.modal
        /\ own => ~screen'.acting /\ screen'.installing = "none"
        /\ ~own => screen'.acting = screen.acting /\ screen'.installing = screen.installing
    <3>1. CASE own
      <4>1. screen' = [s EXCEPT !.acting = FALSE, !.installing = "none"]
        BY <2>2, <3>1
      <4> HIDE DEF own
      <4> QED BY <2>5, <3>1, <4>1 DEF FleetScreens
    <3>2. CASE ~own
      BY <2>2, <2>5, <3>2
    <3> QED BY <3>1, <3>2
  <2>7. FleetActing'
    <3>1. CASE own
      <4>1. FleetAct(r)
        BY <1>10, <3>1 DEF FleetAct
      <4> HIDE DEF after, own
      <4> QED BY <1>4, <1>5, <2>1, <2>6, <3>1, <4>1, FleetActingEnds DEF r
    <3>2. CASE ~own
      <4>1. ~FleetAct(r)
        BY <1>10, <3>2 DEF FleetAct
      <4> HIDE DEF after, own
      <4> QED BY <1>4, <1>5, <2>1, <2>6, <3>2, <4>1, FleetActingLeft DEF r
    <3> QED BY <3>1, <3>2
  <2>8. FleetCalm'
    <3> HIDE DEF after
    <3> QED BY <1>9, <1>10, <2>1, <2>4, <2>6
  <2>9. FleetToken'
    <3>1. Left(wires, wires', i, 0, w) /\ screen'.modal = screen.modal /\ backend' = backend
      BY <1>2, <1>5, <2>1, <2>6
    <3>2. 0 \in 0..1 /\ 0 # 1
      OBVIOUS
    <3> HIDE DEF after, own
    <3> QED BY <3>1, <3>2, FleetTokenLeft
  <2> QED BY <1>7, <1>8, <2>6, <2>7, <2>8, <2>9
<1>11. CASE r.op = "token"
  <2>1. ~after /\ ~FleetAct(r)
    BY <1>11 DEF FleetAct
  <2> DEFINE modal == IF r.ok THEN Fleet!TokenMade(r)
                      ELSE [screen.modal EXCEPT !.submitting = FALSE]
  <2>2. screen' = [screen EXCEPT !.modal = modal]
    <3>1. CASE r.ok
      <4>1. screen' = [screen EXCEPT !.modal = Fleet!TokenMade(r)]
        BY <1>2, <1>11, <3>1
      <4> QED BY <3>1, <4>1
    <3>2. CASE ~r.ok
      <4>1. screen' = [screen EXCEPT !.modal.submitting = FALSE]
        BY <1>2, <1>11, <3>2
      <4> QED BY <1>1, <3>2, <4>1 DEF FleetScreens
    <3> QED BY <3>1, <3>2
  <2>3. /\ modal \in [open : BOOLEAN, group : MaybeGroup, submitting : BOOLEAN, made : MaybeGroup]
        /\ modal.open = screen.modal.open /\ modal.group = screen.modal.group
        /\ modal.submitting = FALSE
        /\ modal.made = screen.modal.made \/ modal.made = r.group
    BY <1>1 DEF FleetScreens, FleetWires, Fleet!TokenMade
  <2> HIDE DEF modal
  <2>4. /\ screen' \in FleetScreens /\ screen'.page = screen.page /\ screen'.rows = screen.rows
        /\ screen'.filter = screen.filter /\ screen'.failed = screen.failed
        /\ screen'.acting = screen.acting /\ screen'.installing = screen.installing
        /\ screen'.confirm = screen.confirm /\ screen'.modal = modal
    BY <1>1, <2>2, <2>3 DEF FleetScreens
  <2> HIDE DEF after
  <2>5. FleetActing'
    BY <1>4, <1>5, <2>1, <2>4, FleetActingLeft DEF r
  <2>6. FleetCalm'
    BY <1>9, <1>11, <2>1, <2>4
  <2>7. FleetToken'
    BY <1>2, <1>4, <1>5, <1>11, <2>1, <2>3, <2>4, FleetTokenEnds DEF r
  <2> QED BY <1>7, <1>8, <2>4, <2>5, <2>6, <2>7
<1>12. CASE after
  <2>1. r.row \in Entries /\ FleetAct(r) /\ r.op \notin {"list", "token"}
    BY <1>12 DEF FleetActing, FleetAct, r
  <2>2. FleetAct(w)
    BY <1>3, <2>1 DEF FleetAct
  <2> DEFINE confirm == IF r.op = "install" THEN screen.confirm ELSE nothing
  <2>3. screen' = [screen EXCEPT !.confirm = confirm, !.failed = FALSE]
    <3>1. screen' = Fleet!ActionDone(r)
      <4>1. r.ok
        BY <1>12
      <4> HIDE DEF after
      <4> QED BY <1>2, <1>12, <2>1, <4>1
    <3> QED BY <1>1, <3>1 DEF Fleet!ActionDone, Fleet!None, FleetScreens
  <2>4. /\ confirm \in [act : {"none", "delete", "disconnect"}, row : Entries \cup {"none"}]
        /\ confirm.act = "none" \/ confirm = screen.confirm
    BY <1>1 DEF FleetScreens
  <2> HIDE DEF confirm
  <2>5. /\ screen' \in FleetScreens /\ screen'.page = screen.page
        /\ screen'.filter = screen.filter /\ screen'.acting = screen.acting
        /\ screen'.installing = screen.installing /\ screen'.confirm = confirm
        /\ screen'.modal = screen.modal
    BY <1>1, <2>3, <2>4 DEF FleetScreens
  <2>6. FleetActing'
    <3> HIDE DEF after
    <3> QED BY <1>3, <1>4, <1>5, <1>12, <2>1, <2>2, <2>4, <2>5, FleetActingTurns DEF r
  <2>7. FleetCalm'
    <3>1. Len(wires') \in Nat \ {0} /\ wires'[Len(wires')] = w
      BY <1>5, <1>12, <1>6 DEF Left
    <3> HIDE DEF after
    <3> QED BY <1>3, <2>5, <3>1, FleetCalmAsked
  <2>8. FleetToken'
    <3> HIDE DEF after
    <3> QED BY <1>2, <1>3, <1>5, <1>12, <2>5, FleetTokenLeft
  <2> QED BY <1>7, <1>8, <2>5, <2>6, <2>7, <2>8
<1>13. CASE r.op = "install" /\ ~after
  <2>1. screen' = [screen EXCEPT !.installing = "none"]
    BY <1>2, <1>13
  <2>2. /\ screen' \in FleetScreens /\ screen'.page = screen.page /\ screen'.rows = screen.rows
        /\ screen'.filter = screen.filter /\ screen'.failed = screen.failed
        /\ screen'.acting = screen.acting /\ screen'.installing = "none"
        /\ screen'.confirm = screen.confirm /\ screen'.modal = screen.modal
    BY <1>1, <2>1 DEF FleetScreens
  <2>3. FleetAct(r) /\ ~screen.acting
    BY <1>13 DEF FleetActing, FleetAct, r
  <2> HIDE DEF after
  <2>4. FleetActing'
    BY <1>4, <1>5, <1>13, <2>2, <2>3, FleetActingEnds DEF r
  <2>5. FleetCalm'
    BY <1>9, <1>13, <2>2
  <2>6. FleetToken'
    BY <1>2, <1>5, <1>13, <2>2, FleetTokenLeft
  <2> QED BY <1>7, <1>8, <2>2, <2>4, <2>5, <2>6
<1>14. CASE r.op \in {"delete", "disconnect"} /\ ~after
  <2> DEFINE confirm == IF screen.page = "gateways" THEN nothing ELSE screen.confirm
  <2>1. screen' = [screen EXCEPT !.acting = FALSE, !.confirm = confirm]
    <3>1. screen' = Fleet!ActionFailed
      BY <1>2, <1>14
    <3> QED BY <1>1, <3>1 DEF Fleet!ActionFailed, Fleet!None, Fleet!Page, FleetScreens
  <2>2. /\ confirm \in [act : {"none", "delete", "disconnect"}, row : Entries \cup {"none"}]
        /\ confirm.act = "none" \/ confirm = screen.confirm
    BY <1>1 DEF FleetScreens
  <2> HIDE DEF confirm
  <2>3. /\ screen' \in FleetScreens /\ screen'.page = screen.page /\ screen'.rows = screen.rows
        /\ screen'.filter = screen.filter /\ screen'.failed = screen.failed
        /\ screen'.acting = FALSE /\ screen'.installing = screen.installing
        /\ screen'.confirm = confirm /\ screen'.modal = screen.modal
    BY <1>1, <2>1, <2>2 DEF FleetScreens
  <2>4. FleetAct(r) /\ screen.installing = "none" /\ r.op # "list"
    BY <1>14 DEF FleetActing, FleetAct, r
  <2> HIDE DEF after
  <2>5. FleetActing'
    BY <1>4, <1>5, <1>14, <2>2, <2>3, <2>4, FleetActingEnds DEF r
  <2>6. FleetCalm'
    BY <1>9, <1>14, <2>3, <2>4
  <2>7. FleetToken'
    BY <1>2, <1>5, <1>14, <2>3, FleetTokenLeft
  <2> QED BY <1>7, <1>8, <2>3, <2>5, <2>6, <2>7
<1> QED BY <1>1, <1>10, <1>11, <1>12, <1>13, <1>14 DEF FleetWires

LEMMA FleetInductive ==
  ASSUME FleetInv, [Fleet!Next]_(Fleet!vars) PROVE FleetInv'
<1>1. CASE Fleet!Next
  <2>1. DOMAIN wires = 1..Len(wires)
    BY DEF FleetInv, FleetTypes
  <2>2. ASSUME NEW i \in 1..Len(wires), Fleet!Serve(i) \/ Fleet!Reply(i) \/ Fleet!Lose(i)
        PROVE  FleetInv'
    BY <2>2, FleetServe, FleetReply, FleetLose
  <2>3. ASSUME NEW g \in Tenants \cup {"none"}, Fleet!SelectFilter(g) PROVE FleetInv'
    BY <2>3, FleetSelectFilter DEF MaybeGroup
  <2>4. ASSUME \/ \E g \in Tenants : Fleet!SelectGroup(g)
               \/ Fleet!OpenModal \/ Fleet!CloseModal \/ Fleet!CancelConfirm
               \/ \E x \in screen.rows, act \in {"delete", "disconnect"} : Fleet!OpenConfirm(act, x)
        PROVE  FleetInv'
    BY <2>4, FleetSelectGroup, FleetOpenModal, FleetCloseModal, FleetCancelConfirm,
       FleetOpenConfirm
  <2>5. ASSUME \/ Fleet!AgentChanges \/ Fleet!Retry \/ Fleet!Poll \/ Fleet!RunConfirmed
               \/ Fleet!Submit \/ \E x \in screen.rows : Fleet!InstallDocker(x)
        PROVE  FleetInv'
    BY <2>5, FleetAgentChanges, FleetRetry, FleetPoll, FleetRunConfirmed, FleetSubmit,
       FleetInstallDocker
  <2> QED BY <1>1, <2>1, <2>2, <2>3, <2>4, <2>5 DEF Fleet!Next, Fleet!None
<1>2. CASE UNCHANGED Fleet!vars
  <2>1. screen' = screen /\ backend' = backend /\ wires' = wires
    BY <1>2 DEF Fleet!vars
  <2>2. FleetTypes' /\ FleetFacts'
    BY <2>1 DEF FleetInv, FleetTypes, FleetFacts
  <2>3. FleetActing'
    BY <2>1 DEF FleetInv, FleetActing
  <2>4. FleetCalm' /\ FleetToken'
    <3>1. FleetGrown /\ Len(wires') \in {Len(wires), Len(wires) + 1}
          /\ \A j \in 1..Len(wires') : ~(j > Len(wires))
      BY <2>1, FleetStays DEF FleetInv
    <3> QED BY <2>1, <3>1, FleetCalmKept, FleetTokenKept DEF FleetInv
  <2> QED BY <2>2, <2>3, <2>4 DEF FleetInv
<1> QED BY <1>1, <1>2

-----------------------------------------------------------------------------
(* The pages about one record.                                             *)

LEMMA RecordConstants == Blank \notin Secrets
BY ConsoleAssumption

RecordOps == {"get", "patch", "verify", "sync", "bootstrap"}
RecordActions == {"save", "verify", "sync", "bootstrap"}
RecordChains == RecordActions \cup {"load", "tick"}
RecordTexts == Texts \cup {Blank}
RecordTokens == Secrets \cup {Blank}
RecordPagesShown == {"settings", "workertenant", "tenant", "metrics"}
RecordDrafts == [text : RecordTexts, token : RecordTokens]

RecordScreens ==
  [page : RecordPagesShown, shown : Record!Records, typed : BOOLEAN, loading : BOOLEAN,
   draft : RecordDrafts, failed : BOOLEAN, busy : SUBSET RecordActions, acts : Nat]
RecordBackends ==
  [record : Record!Records, calm : BOOLEAN, lost : BOOLEAN, changes : Nat, losses : 0..1]
RecordWires ==
  [op : RecordOps, chain : RecordChains, text : RecordTexts,
   token : RecordTokens, served : BOOLEAN, ok : BOOLEAN, data : Record!Records]

\* What a request is sent for: a clock reads and verifies, and not for the settings.
RecordChain(w, page) ==
  /\ w.op = "patch" => w.chain \in {"save", "sync"}
  /\ w.op = "sync" => w.chain = "sync"
  /\ w.op = "bootstrap" => w.chain = "bootstrap"
  /\ w.op = "verify" => w.chain \in {"verify", "tick"}
  /\ w.chain = "load" => w.op = "get"
  /\ w.chain = "tick" => page # "settings"

RecordTypes ==
  /\ screen \in RecordScreens /\ backend \in RecordBackends /\ wires \in Seq(RecordWires)

RecordFacts ==
  /\ backend.calm => backend.changes = 0
  /\ \A i \in 1..Len(wires) : RecordChain(wires[i], screen.page)

\* An action is under way exactly as long as its button says so.
RecordBusy ==
  /\ \A i \in 1..Len(wires) : wires[i].chain \in RecordActions => wires[i].chain \in screen.busy
  /\ \A c \in screen.busy : \E i \in 1..Len(wires) : wires[i].chain = c
  /\ \A i, j \in 1..Len(wires) :
       wires[i].chain \in RecordActions /\ wires[i].chain = wires[j].chain => i = j

\* The server takes up requests in their order, and reading and saving go well.
RecordOrder ==
  /\ \A i, j \in 1..Len(wires) : wires[i].served /\ j < i => wires[j].served
  /\ \A i \in 1..Len(wires) :
       wires[i].served /\ wires[i].op \in {"get", "patch"} => wires[i].ok

\* A reply that brings the record, and one after which it will be read.
RecordRead(w) == w.served /\ w.ok /\ w.op \in {"get", "patch"}
RecordWill(w) ==
  \/ w.op = "get" /\ ~w.served
  \/ w.served /\ w.ok /\ w.op \in {"verify", "sync", "bootstrap"} /\ w.chain # "tick"

\* What came last of the record, or is shown if nothing of it is on its way, is so.
RecordKnown ==
  /\ \A k \in 1..Len(wires) :
       RecordRead(wires[k]) /\ (\A j \in 1..Len(wires) : RecordRead(wires[j]) => j <= k) =>
         wires[k].data = backend.record
  /\ (\A k \in 1..Len(wires) : ~RecordRead(wires[k])) => screen.shown = backend.record
RecordFresh == (\E k \in 1..Len(wires) : RecordWill(wires[k])) \/ RecordKnown

\* The settings wait for one request at most, and keep their fields while it saves.
RecordSettings ==
  screen.page = "settings" =>
    /\ Len(wires) <= 1
    /\ \A i \in 1..Len(wires) :
         /\ wires[i].chain = "load" => screen.loading
         /\ wires[i].op = "patch" =>
              /\ wires[i].text = screen.draft.text
              /\ wires[i].served => wires[i].data.text = wires[i].text

\* The fields hold what the page shows, or something was typed, or they will follow.
RecordDraft ==
  screen.page \in {"settings", "workertenant"} =>
    \/ screen.typed
    \/ screen.draft = [text |-> screen.shown.text, token |-> Blank]
    \/ \E i \in 1..Len(wires) : wires[i].op \in {"get", "patch"}

RecordCalm ==
  backend.calm /\ ~backend.lost =>
    RecordOrder /\ RecordFresh /\ RecordSettings /\ RecordDraft

RecordInv == RecordTypes /\ RecordFacts /\ RecordBusy /\ RecordCalm

LEMMA RecordTyped == ASSUME RecordInv PROVE Record!TypeOK /\ Record!ShownIsTrue
<1> USE DEF RecordInv
<1>1. Record!TypeOK
  BY DEF RecordTypes, RecordScreens, RecordBackends, Record!TypeOK, RecordActions
<1>2. ASSUME backend.calm, ~backend.lost, wires = <<>>
      PROVE  /\ screen.shown = backend.record
             /\ Record!HasForm /\ ~screen.typed =>
                  screen.draft = [text |-> backend.record.text, token |-> Blank]
  <2>1. Len(wires) = 0
    BY <1>2
  <2>2. screen.shown = backend.record
    BY <1>2, <2>1 DEF RecordCalm, RecordFresh, RecordKnown
  <2>3. RecordDraft
    BY <1>2 DEF RecordCalm
  <2> QED BY <2>1, <2>2, <2>3 DEF RecordDraft, Record!HasForm, Record!Page
<1>3. screen.busy = {wires[i].chain : i \in DOMAIN wires} \ {"load", "tick"}
  <2>1. DOMAIN wires = 1..Len(wires)
    BY DEF RecordTypes
  <2>2. screen.busy \subseteq RecordActions
    BY DEF RecordTypes, RecordScreens
  <2>3. \A i \in 1..Len(wires) : wires[i].chain \in RecordChains
    <3>1. \A w \in RecordWires : w.chain \in RecordChains
      BY DEF RecordWires
    <3> QED BY <3>1 DEF RecordTypes
  <2>4. \A c \in screen.busy : \E i \in 1..Len(wires) : wires[i].chain = c
    BY DEF RecordBusy
  <2>5. \A i \in 1..Len(wires) : wires[i].chain \in RecordActions => wires[i].chain \in screen.busy
    BY DEF RecordBusy
  <2> QED BY <2>1, <2>2, <2>3, <2>4, <2>5 DEF RecordActions, RecordChains
<1> QED BY <1>1, <1>2, <1>3 DEF Record!ShownIsTrue

LEMMA RecordInitially == ASSUME Record!Init PROVE RecordInv
<1> DEFINE r == Record!Request("get", "load", Blank, Blank)
<1>1. /\ r \in RecordWires /\ r.op = "get" /\ r.chain = "load" /\ ~r.served
  BY DEF Record!Request, RecordWires, Record!Records, Record!Nothing, RecordTexts, RecordTokens,
         RecordOps, RecordChains
<1>2. wires = <<r>>
  BY DEF Record!Init
<1> HIDE DEF r
<1>3. wires \in Seq(RecordWires) /\ Len(wires) = 1 /\ wires[1] = r
  BY <1>1, <1>2
<1>4. PICK page \in {"settings", "workertenant", "tenant", "metrics"}, calm \in BOOLEAN,
           text \in Texts, token \in Secrets \cup {Blank} :
        LET record == [text |-> text, token |-> token, checked |-> 0, dns |-> Blank]
        IN  /\ page # "settings" => token = Blank
            /\ backend = [record |-> record, calm |-> calm, lost |-> FALSE,
                          changes |-> IF calm THEN 0 ELSE 1, losses |-> IF calm THEN 1 ELSE 0]
            /\ screen = [page |-> page, shown |-> record, typed |-> FALSE, loading |-> TRUE,
                         draft |-> [text |-> Blank, token |-> Blank], failed |-> FALSE,
                         busy |-> {}, acts |-> 0]
  BY DEF Record!Init
<1>5. /\ screen.busy = {} /\ screen.loading = TRUE
      /\ backend.calm => backend.changes = 0
  BY <1>4
<1>6. screen \in RecordScreens
  BY <1>4 DEF RecordScreens, RecordPagesShown, RecordDrafts, RecordTexts, RecordTokens,
              Record!Records
<1>7. backend \in RecordBackends
  BY <1>4 DEF RecordBackends, Record!Records
<1>8. RecordTypes
  BY <1>3, <1>6, <1>7 DEF RecordTypes
<1>9. RecordFacts
  BY <1>1, <1>3, <1>5 DEF RecordFacts, RecordChain
<1>10. RecordBusy
  BY <1>1, <1>3, <1>5 DEF RecordBusy, RecordActions
<1>11. RecordOrder /\ RecordFresh /\ RecordSettings /\ RecordDraft
  BY <1>1, <1>3, <1>5 DEF RecordOrder, RecordFresh, RecordWill, RecordSettings, RecordDraft
<1> QED BY <1>8, <1>9, <1>10, <1>11 DEF RecordInv, RecordCalm

\* The secret that is on record gives way to another only.
LEMMA RecordOutcome ==
  ASSUME RecordTypes, NEW r \in RecordWires
  PROVE  LET o == Record!Outcome(r)
         IN  /\ o \in Record!Records
             /\ r.op = "patch" => o.text = r.text
             /\ r.op \in {"get", "bootstrap"} => o = backend.record
             /\ r.op = "verify" /\ screen.page # "settings" => o = backend.record
             /\ o.token # backend.record.token => o.token \in Secrets
<1> DEFINE old == backend.record
           o == Record!Outcome(r)
<1>1. old \in Record!Records
  BY DEF RecordTypes, RecordBackends
<1>2. CASE r.op \in {"get", "bootstrap"}
  <2>1. o = old
    BY <1>2 DEF Record!Outcome
  <2> QED BY <1>1, <1>2, <2>1
<1>3. CASE r.op = "patch"
  <2> DEFINE token == IF r.token = Blank THEN old.token ELSE r.token
             text == r.text
  <2>1. o = [old EXCEPT !.text = text, !.token = token]
    BY <1>3 DEF Record!Outcome, Record!Patched
  <2>2. /\ text \in Texts \cup {Blank} /\ token \in Secrets \cup {Blank}
        /\ token # old.token => token \in Secrets
    BY <1>1 DEF RecordWires, RecordTexts, RecordTokens, Record!Records
  <2> HIDE DEF old, token, text
  <2>3. o \in Record!Records /\ o.text = text /\ o.token = token
    BY <1>1, <2>1, <2>2 DEF Record!Records
  <2> QED BY <1>3, <2>2, <2>3 DEF text, old
<1>4. CASE r.op = "verify"
  <2>1. o = IF screen.page = "settings" THEN [old EXCEPT !.checked = old.checked + 1] ELSE old
    BY <1>4 DEF Record!Outcome, Record!Page
  <2>2. old.checked + 1 \in Nat
    BY <1>1 DEF Record!Records
  <2> DEFINE n == old.checked + 1
  <2> HIDE DEF n
  <2>3. /\ [old EXCEPT !.checked = n] \in Record!Records
        /\ [old EXCEPT !.checked = n].token = old.token
    BY <1>1, <2>2 DEF Record!Records, n
  <2> QED BY <1>1, <1>4, <2>1, <2>3 DEF n
<1>5. CASE r.op = "sync"
  <2>1. o = [old EXCEPT !.dns = old.text]
    BY <1>5 DEF Record!Outcome
  <2>2. o \in Record!Records /\ o.token = old.token
    BY <1>1, <2>1 DEF Record!Records
  <2> QED BY <1>5, <2>2
<1> QED BY <1>2, <1>3, <1>4, <1>5 DEF RecordWires, RecordOps

LEMMA RecordServe ==
  ASSUME RecordInv, NEW i \in 1..Len(wires), Record!Serve(i)
  PROVE  RecordInv' /\ Record!SecretKeptStep
<1> USE DEF RecordInv
<1> DEFINE r == wires[i]
           ok == r.op = "verify" /\ screen.page = "settings" => backend.record.token # Blank
           new == IF ok THEN Record!Outcome(r) ELSE backend.record
           w == [r EXCEPT !.served = TRUE, !.ok = ok, !.data = new]
<1>1. r \in RecordWires /\ wires \in Seq(RecordWires)
  BY DEF RecordTypes
<1>2. /\ ~r.served /\ (backend.calm => \A j \in 1..(i - 1) : wires[j].served)
      /\ wires' = [wires EXCEPT ![i] = w] /\ backend' = [backend EXCEPT !.record = new]
      /\ screen' = screen
  <2>1. /\ ~r.served /\ (backend.calm => \A j \in 1..(i - 1) : wires[j].served)
        /\ backend' = [backend EXCEPT !.record = new] /\ screen' = screen
    BY DEF Record!Serve, Record!Page
  <2>2. wires' = [wires EXCEPT ![i].served = TRUE, ![i].ok = ok, ![i].data = new]
    BY DEF Record!Serve, Record!Page
  <2> HIDE DEF ok, new
  <2> QED BY <1>1, <2>1, <2>2
<1>3. ok \in BOOLEAN /\ (r.op \in {"get", "patch"} => ok = TRUE)
  OBVIOUS
<1>4. /\ new \in Record!Records
      /\ r.op = "patch" => new.text = r.text
      /\ r.op \in {"get", "bootstrap"} => new = backend.record
      /\ r.op = "verify" /\ screen.page # "settings" => new = backend.record
      /\ new # backend.record => ok = TRUE
      /\ new.token # backend.record.token => new.token \in Secrets
  <2>1. backend.record \in Record!Records
    BY DEF RecordTypes, RecordBackends
  <2>2. r.op = "patch" => ok
    OBVIOUS
  <2> HIDE DEF r
  <2> DEFINE o == Record!Outcome(r)
  <2>3. /\ o \in Record!Records
        /\ r.op = "patch" => o.text = r.text
        /\ r.op \in {"get", "bootstrap"} => o = backend.record
        /\ r.op = "verify" /\ screen.page # "settings" => o = backend.record
        /\ o.token # backend.record.token => o.token \in Secrets
    BY <1>1, RecordOutcome
  <2> HIDE DEF o, ok
  <2>4. new = IF ok THEN o ELSE backend.record
    BY DEF o
  <2> HIDE DEF new
  <2> QED BY <1>3, <2>1, <2>2, <2>3, <2>4
<1> HIDE DEF ok, new
<1>5. /\ w \in RecordWires /\ w.op = r.op /\ w.chain = r.chain /\ w.text = r.text
      /\ w.served = TRUE /\ w.ok = ok /\ w.data = new
  <2> HIDE DEF r
  <2> QED BY <1>1, <1>3, <1>4 DEF RecordWires
<1> HIDE DEF w
<1>6. /\ wires' \in Seq(RecordWires) /\ Len(wires') = Len(wires) /\ wires'[i] = w
      /\ \A j \in 1..Len(wires) : j # i => wires'[j] = wires[j]
  BY <1>1, <1>2, <1>5, Marked
<1>7. \A j \in 1..Len(wires) :
        /\ wires'[j].op = wires[j].op /\ wires'[j].chain = wires[j].chain
        /\ wires'[j].text = wires[j].text
  BY <1>5, <1>6
<1>8. /\ backend' \in RecordBackends /\ backend'.calm = backend.calm
      /\ backend'.lost = backend.lost /\ backend'.changes = backend.changes
      /\ backend'.record = new
  BY <1>2, <1>4 DEF RecordTypes, RecordBackends
<1>9. RecordTypes'
  BY <1>2, <1>6, <1>8 DEF RecordTypes
<1>10. RecordFacts'
  BY <1>2, <1>6, <1>7, <1>8 DEF RecordFacts, RecordChain
<1>11. RecordBusy'
  BY <1>2, <1>6, <1>7 DEF RecordBusy
<1>12. RecordCalm'
  <2> SUFFICES ASSUME backend.calm, ~backend.lost
               PROVE  RecordOrder' /\ RecordFresh' /\ RecordSettings' /\ RecordDraft'
    BY <1>8 DEF RecordCalm
  <2>1. RecordOrder /\ RecordFresh /\ RecordSettings /\ RecordDraft
    BY DEF RecordCalm
  <2>2. \A j \in 1..Len(wires) : /\ j < i => wires[j].served /\ wires'[j].served
                                 /\ j > i => ~wires[j].served /\ ~wires'[j].served
    <3>1. i \in Nat /\ 1..(i - 1) \subseteq Nat
      OBVIOUS
    <3>2. \A j \in 1..Len(wires) : j < i => j \in 1..(i - 1) /\ j # i
      BY <3>1
    <3>3. \A j \in 1..Len(wires) : j > i => i < j /\ j # i
      BY <3>1
    <3> QED BY <1>2, <1>6, <2>1, <3>2, <3>3 DEF RecordOrder
  <2>3. RecordOrder'
    <3>1. ASSUME NEW a \in 1..Len(wires), NEW b \in 1..Len(wires), wires'[a].served, b < a
          PROVE  wires'[b].served
      <4>1. ~(a > i)
        BY <2>2, <3>1
      <4>2. b < i
        BY <3>1, <4>1
      <4> QED BY <2>2, <4>2
    <3>2. \A j \in 1..Len(wires) :
            wires'[j].served /\ wires'[j].op \in {"get", "patch"} => wires'[j].ok
      BY <1>3, <1>5, <1>6, <2>1 DEF RecordOrder
    <3> QED BY <1>6, <3>1, <3>2 DEF RecordOrder
  <2>4. RecordFresh'
    <3>1. CASE r.op \in {"get", "patch"}
      <4>1. RecordRead(wires'[i]) /\ wires'[i].data = new
        BY <1>3, <1>5, <1>6, <3>1 DEF RecordRead
      <4>2. \A j \in 1..Len(wires) : RecordRead(wires'[j]) => ~(j > i)
        BY <2>2 DEF RecordRead
      <4>3. \A k \in 1..Len(wires) :
              RecordRead(wires'[k]) /\ (\A j \in 1..Len(wires) : RecordRead(wires'[j]) => j <= k)
                => k = i
        BY <4>1, <4>2
      <4>4. RecordKnown'
        BY <1>6, <1>8, <4>1, <4>3 DEF RecordKnown
      <4> QED BY <4>4 DEF RecordFresh
    <3>2. CASE r.op \notin {"get", "patch"} /\ new = backend.record
      <4>1. \A k \in 1..Len(wires) : RecordRead(wires'[k]) <=> RecordRead(wires[k])
        BY <1>5, <1>6, <3>2 DEF RecordRead
      <4>2. \A k \in 1..Len(wires) : RecordRead(wires[k]) => wires'[k] = wires[k]
        BY <1>6, <3>2 DEF RecordRead
      <4>3. \A k \in 1..Len(wires) : RecordWill(wires[k]) => wires'[k] = wires[k]
        BY <1>2, <1>6, <3>2 DEF RecordWill
      <4>4. RecordKnown => RecordKnown'
        BY <1>2, <1>6, <1>8, <3>2, <4>1, <4>2 DEF RecordKnown
      <4> QED BY <1>6, <2>1, <4>3, <4>4 DEF RecordFresh
    <3>3. CASE r.op \notin {"get", "patch"} /\ new # backend.record
      <4>1. /\ r.op \in {"verify", "sync"} /\ ok = TRUE
            /\ (r.op = "verify" => screen.page = "settings")
        BY <1>1, <1>4, <3>3 DEF RecordWires, RecordOps
      <4>2. r.chain # "tick"
        BY <4>1 DEF RecordFacts, RecordChain
      <4>3. RecordWill(wires'[i])
        BY <1>5, <1>6, <4>1, <4>2 DEF RecordWill
      <4> QED BY <1>6, <4>3 DEF RecordFresh
    <3> QED BY <3>1, <3>2, <3>3
  <2>5. RecordSettings'
    <3>1. ASSUME screen.page = "settings", NEW j \in 1..Len(wires)
          PROVE  /\ wires'[j].chain = "load" => screen.loading
                 /\ wires'[j].op = "patch" =>
                      /\ wires'[j].text = screen.draft.text
                      /\ wires'[j].served => wires'[j].data.text = wires'[j].text
      BY <1>4, <1>5, <1>6, <1>7, <2>1, <3>1 DEF RecordSettings
    <3> QED BY <1>2, <1>6, <2>1, <3>1 DEF RecordSettings
  <2>6. RecordDraft'
    BY <1>2, <1>6, <1>7, <2>1 DEF RecordDraft
  <2> QED BY <2>3, <2>4, <2>5, <2>6
<1>13. Record!SecretKeptStep
  BY <1>4, <1>8 DEF Record!SecretKeptStep
<1> QED BY <1>9, <1>10, <1>11, <1>12, <1>13

LEMMA RecordLose ==
  ASSUME RecordInv, NEW i \in 1..Len(wires), Record!Lose(i)
  PROVE  RecordInv' /\ backend'.record = backend.record
<1> USE DEF RecordInv
<1> DEFINE r == wires[i]
           w == [r EXCEPT !.served = TRUE, !.ok = FALSE]
<1>1. r \in RecordWires /\ wires \in Seq(RecordWires)
  BY DEF RecordTypes
<1>2. wires' = [wires EXCEPT ![i] = w] /\ screen' = screen
  BY <1>1 DEF Record!Lose
<1>3. w \in RecordWires /\ w.op = r.op /\ w.chain = r.chain
  <2> HIDE DEF r
  <2> QED BY <1>1 DEF RecordWires
<1> HIDE DEF w
<1>4. /\ wires' \in Seq(RecordWires) /\ Len(wires') = Len(wires)
      /\ \A j \in 1..Len(wires) : wires'[j].op = wires[j].op /\ wires'[j].chain = wires[j].chain
  BY <1>1, <1>2, <1>3, Marked
<1>5. /\ backend' \in RecordBackends /\ backend'.calm = backend.calm /\ backend'.lost = TRUE
      /\ backend'.changes = backend.changes /\ backend'.record = backend.record
  <2> DEFINE n == backend.losses - 1
  <2>1. backend.losses \in 0..1 /\ backend.losses > 0
        /\ backend' = [backend EXCEPT !.losses = n, !.lost = TRUE]
    BY DEF Record!Lose, RecordTypes, RecordBackends
  <2>2. n \in 0..1
    BY <2>1
  <2> HIDE DEF n
  <2> QED BY <2>1, <2>2 DEF RecordTypes, RecordBackends
<1>6. RecordTypes'
  BY <1>2, <1>4, <1>5 DEF RecordTypes
<1>7. RecordFacts'
  BY <1>2, <1>4, <1>5 DEF RecordFacts, RecordChain
<1>8. RecordBusy'
  BY <1>2, <1>4 DEF RecordBusy
<1>9. RecordCalm'
  BY <1>5 DEF RecordCalm
<1> QED BY <1>5, <1>6, <1>7, <1>8, <1>9

LEMMA RecordAgentChanges ==
  ASSUME RecordInv, Record!AgentChanges
  PROVE  RecordInv' /\ backend'.record.token = backend.record.token
<1> USE DEF RecordInv
<1> DEFINE n == backend.changes - 1
           c == backend.record.checked + 1
           new == [backend.record EXCEPT !.checked = c]
<1>1. /\ backend.changes > 0 /\ screen' = screen /\ wires' = wires
      /\ backend' = [backend EXCEPT !.record = new, !.changes = n]
  BY DEF Record!AgentChanges, RecordTypes, RecordBackends
<1>2. n \in Nat /\ c \in Nat /\ backend.record \in Record!Records
  BY <1>1 DEF RecordTypes, RecordBackends, Record!Records
<1> HIDE DEF c
<1>3. new \in Record!Records /\ new.token = backend.record.token
  BY <1>2 DEF Record!Records
<1> HIDE DEF n, new
<1>4. /\ backend' \in RecordBackends /\ backend'.calm = backend.calm /\ backend'.record = new
  BY <1>1, <1>2, <1>3 DEF RecordTypes, RecordBackends
<1>5. ~backend.calm
  BY <1>1 DEF RecordFacts
<1> QED BY <1>1, <1>3, <1>4, <1>5 DEF RecordTypes, RecordFacts, RecordBusy, RecordCalm

-----------------------------------------------------------------------------
\* The page asks for something.
LEMMA RecordAsk ==
  ASSUME RecordTypes, NEW op \in RecordOps, NEW chain \in RecordChains,
         wires' = Record!Ask(op, chain)
  PROVE  \E w \in RecordWires :
           /\ wires' = Append(wires, w) /\ w.op = op /\ w.chain = chain /\ w.served = FALSE
           /\ op = "patch" => w.text = screen.draft.text
<1> DEFINE text == screen.draft.text
           token == screen.draft.token
<1>1. text \in RecordTexts /\ token \in RecordTokens
  BY DEF RecordTypes, RecordScreens, RecordDrafts
<1>2. Blank \in RecordTexts /\ Blank \in RecordTokens
  BY DEF RecordTexts, RecordTokens
<1>3. CASE op = "patch"
  <2>1. wires' = Append(wires, Record!Request(op, chain, text, token))
    BY <1>3 DEF Record!Ask
  <2> HIDE DEF text, token
  <2> DEFINE w == Record!Request(op, chain, text, token)
  <2>2. w \in RecordWires /\ w.op = op /\ w.chain = chain /\ w.text = text /\ w.served = FALSE
    BY <1>1 DEF Record!Request, RecordWires, Record!Records, Record!Nothing
  <2> HIDE DEF w
  <2>3. wires' = Append(wires, w)
    BY <2>1 DEF w
  <2> QED BY <2>2, <2>3 DEF text
<1>4. CASE op # "patch"
  <2> DEFINE w == Record!Request(op, chain, Blank, Blank)
  <2>1. wires' = Append(wires, w)
    BY <1>4 DEF Record!Ask
  <2>2. w \in RecordWires /\ w.op = op /\ w.chain = chain /\ w.served = FALSE
    BY <1>2 DEF Record!Request, RecordWires, Record!Records, Record!Nothing
  <2> HIDE DEF w
  <2> QED BY <1>4, <2>1, <2>2
<1> QED BY <1>3, <1>4

\* One more request, which the button it belongs to waits for.
LEMMA RecordSent ==
  ASSUME RecordInv, NEW w \in RecordWires, wires' = Append(wires, w), w.served = FALSE,
         RecordChain(w, screen.page), backend' = backend, screen' \in RecordScreens,
         screen'.page = screen.page, screen'.shown = screen.shown, screen'.draft = screen.draft,
         w.op # "patch" => screen'.typed = screen.typed,
         w.chain \in RecordActions => w.chain \notin screen.busy,
         screen'.busy = IF w.chain \in RecordActions THEN screen.busy \cup {w.chain}
                        ELSE screen.busy,
         screen.page = "settings" =>
           /\ w.chain # "load" /\ ~screen.loading /\ (backend.calm => screen.busy = {})
           /\ w.op = "patch" => w.text = screen.draft.text
  PROVE  RecordInv'
<1> USE DEF RecordInv
<1>1. /\ wires' \in Seq(RecordWires) /\ Len(wires') = Len(wires) + 1
      /\ wires'[Len(wires')] = w /\ Len(wires') \in 1..Len(wires')
      /\ \A j \in 1..Len(wires) : j \in 1..Len(wires') /\ wires'[j] = wires[j]
      /\ \A j \in 1..Len(wires') : j \in 1..Len(wires) \/ (j = Len(wires') /\ wires'[j] = w)
  <2>1. wires \in Seq(RecordWires)
    BY DEF RecordTypes
  <2> QED BY <2>1, Sent
<1>2. Len(wires) \in Nat
  BY DEF RecordTypes
<1>3. RecordTypes'
  BY <1>1 DEF RecordTypes
<1>4. RecordFacts'
  BY <1>1 DEF RecordFacts
<1>5. RecordBusy'
  <2>1. \A j \in 1..Len(wires') :
          wires'[j].chain \in RecordActions => wires'[j].chain \in screen'.busy
    BY <1>1 DEF RecordBusy
  <2>2. \A c \in screen'.busy : \E j \in 1..Len(wires') : wires'[j].chain = c
    BY <1>1 DEF RecordBusy
  <2>3. \A j \in 1..Len(wires) : wires[j].chain \in RecordActions => wires[j].chain # w.chain
    BY DEF RecordBusy
  <2>4. \A a, b \in 1..Len(wires') :
          wires'[a].chain \in RecordActions /\ wires'[a].chain = wires'[b].chain => a = b
    BY <1>1, <2>3 DEF RecordBusy
  <2> QED BY <2>1, <2>2, <2>4 DEF RecordBusy
<1>6. RecordCalm'
  <2> SUFFICES ASSUME backend.calm, ~backend.lost
               PROVE  RecordOrder' /\ RecordFresh' /\ RecordSettings' /\ RecordDraft'
    BY DEF RecordCalm
  <2>1. RecordOrder /\ RecordFresh /\ RecordSettings /\ RecordDraft
    BY DEF RecordCalm
  <2>2. RecordOrder'
    <3>1. ASSUME NEW a \in 1..Len(wires'), NEW b \in 1..Len(wires'), wires'[a].served, b < a
          PROVE  wires'[b].served
      <4>1. a \in 1..Len(wires) /\ wires'[a] = wires[a]
        BY <1>1, <3>1
      <4>2. b \in 1..Len(wires)
        BY <1>2, <3>1, <4>1
      <4> QED BY <1>1, <2>1, <3>1, <4>1, <4>2 DEF RecordOrder
    <3>2. \A j \in 1..Len(wires') :
            wires'[j].served /\ wires'[j].op \in {"get", "patch"} => wires'[j].ok
      BY <1>1, <2>1 DEF RecordOrder
    <3> QED BY <3>1, <3>2 DEF RecordOrder
  <2>3. RecordFresh'
    <3>1. \A j \in 1..Len(wires') : RecordRead(wires'[j]) =>
            j \in 1..Len(wires) /\ wires'[j] = wires[j]
      BY <1>1 DEF RecordRead
    <3>2. RecordKnown => RecordKnown'
      BY <1>1, <3>1 DEF RecordKnown
    <3> QED BY <1>1, <2>1, <3>2 DEF RecordFresh
  <2>4. RecordSettings'
    <3> SUFFICES ASSUME screen.page = "settings" PROVE RecordSettings'
      BY DEF RecordSettings
    <3>1. ASSUME NEW j \in 1..Len(wires)
          PROVE  FALSE
      <4>1. wires[j].chain # "load" /\ wires[j].chain # "tick"
        BY <2>1 DEF RecordSettings, RecordFacts, RecordChain
      <4>2. wires[j].chain \notin RecordActions
        BY DEF RecordBusy
      <4>3. \A v \in RecordWires : v.chain \in RecordChains
        BY DEF RecordWires
      <4> QED BY <4>1, <4>2, <4>3 DEF RecordTypes, RecordChains
    <3>2. Len(wires) = 0
      BY <1>2, <3>1
    <3> QED BY <1>1, <3>1, <3>2 DEF RecordSettings
  <2>5. RecordDraft'
    <3>1. CASE w.op = "patch"
      BY <1>1, <3>1 DEF RecordDraft
    <3>2. CASE w.op # "patch"
      BY <1>1, <2>1, <3>2 DEF RecordDraft
    <3> QED BY <3>1, <3>2
  <2> QED BY <2>2, <2>3, <2>4, <2>5
<1> QED BY <1>3, <1>4, <1>5, <1>6

\* The clock asks, and nothing else happens.
LEMMA RecordClock ==
  ASSUME RecordInv, NEW op \in {"get", "verify"}, wires' = Record!Ask(op, "tick"),
         screen.page # "settings", UNCHANGED <<screen, backend>>
  PROVE  RecordInv'
<1>1. PICK w \in RecordWires :
        wires' = Append(wires, w) /\ w.op = op /\ w.chain = "tick" /\ w.served = FALSE
  <2>1. op \in RecordOps /\ "tick" \in RecordChains
    BY DEF RecordOps, RecordChains
  <2>2. RecordTypes
    BY DEF RecordInv
  <2>3. \E w \in RecordWires :
          /\ wires' = Append(wires, w) /\ w.op = op /\ w.chain = "tick" /\ w.served = FALSE
          /\ op = "patch" => w.text = screen.draft.text
    BY <2>1, <2>2, RecordAsk
  <2> QED BY <2>3
<1>2. RecordChain(w, screen.page)
  BY <1>1 DEF RecordChain
<1>3. w.chain \notin RecordActions /\ w.op # "patch"
  BY <1>1 DEF RecordActions
<1>4. screen \in RecordScreens
  BY DEF RecordInv, RecordTypes, RecordScreens
<1>5. /\ screen' \in RecordScreens /\ screen'.page = screen.page /\ screen'.shown = screen.shown
      /\ screen'.draft = screen.draft /\ screen'.typed = screen.typed
      /\ screen'.busy = screen.busy
  BY <1>3, <1>4
<1> QED BY <1>1, <1>2, <1>3, <1>5, RecordSent

LEMMA RecordTick == ASSUME RecordInv, Record!Tick PROVE RecordInv'
BY RecordClock DEF Record!Tick, Record!Refreshed, Record!Page

LEMMA RecordVerifyTick == ASSUME RecordInv, Record!VerifyTick PROVE RecordInv'
BY RecordClock DEF Record!VerifyTick, Record!Page

\* The page with one more act of the operator.
LEMMA RecordActed ==
  ASSUME NEW s \in RecordScreens, screen \in RecordScreens, Record!Acted(s)
  PROVE  /\ screen' \in RecordScreens /\ screen'.page = s.page /\ screen'.shown = s.shown
         /\ screen'.typed = s.typed /\ screen'.loading = s.loading /\ screen'.draft = s.draft
         /\ screen'.busy = s.busy
<1> DEFINE n == screen.acts + 1
<1>1. n \in Nat /\ screen' = [s EXCEPT !.acts = n]
  BY DEF Record!Acted, RecordScreens
<1> HIDE DEF n
<1> QED BY <1>1 DEF RecordScreens

LEMMA RecordRetry == ASSUME RecordInv, Record!Retry PROVE RecordInv'
<1> DEFINE s == [screen EXCEPT !.loading = TRUE, !.failed = FALSE]
<1>1. screen \in RecordScreens
  BY DEF RecordInv, RecordTypes
<1>2. /\ s \in RecordScreens /\ s.page = screen.page /\ s.shown = screen.shown
      /\ s.typed = screen.typed /\ s.draft = screen.draft /\ s.busy = screen.busy
  BY <1>1 DEF RecordScreens
<1>3. /\ Record!Acted(s) /\ wires' = Record!Ask("get", "load") /\ backend' = backend
      /\ screen.page \in {"tenant", "workertenant"}
  BY DEF Record!Retry, Record!Acts, Record!Page
<1> HIDE DEF s
<1>4. /\ screen' \in RecordScreens /\ screen'.page = screen.page /\ screen'.shown = screen.shown
      /\ screen'.typed = screen.typed /\ screen'.draft = screen.draft
      /\ screen'.busy = screen.busy
  BY <1>1, <1>2, <1>3, RecordActed
<1>5. PICK w \in RecordWires :
        wires' = Append(wires, w) /\ w.op = "get" /\ w.chain = "load" /\ w.served = FALSE
  <2>1. "get" \in RecordOps /\ "load" \in RecordChains
    BY DEF RecordOps, RecordChains
  <2>2. RecordTypes
    BY DEF RecordInv
  <2>3. \E w \in RecordWires :
          /\ wires' = Append(wires, w) /\ w.op = "get" /\ w.chain = "load" /\ w.served = FALSE
          /\ "get" = "patch" => w.text = screen.draft.text
    BY <1>3, <2>1, <2>2, RecordAsk
  <2> QED BY <2>3
<1>6. RecordChain(w, screen.page) /\ w.chain \notin RecordActions /\ w.op # "patch"
  BY <1>5 DEF RecordChain, RecordActions
<1>7. screen.page # "settings"
  BY <1>3
<1> QED BY <1>3, <1>4, <1>5, <1>6, <1>7, RecordSent

\* A button is pressed: nothing of its action is under way.
LEMMA RecordPress ==
  ASSUME RecordInv, NEW chain \in RecordActions, NEW op \in RecordOps, Record!Press(chain, op),
         \/ op = "patch" /\ chain \in {"save", "sync"}
         \/ op = "verify" /\ chain = "verify"
         \/ op = "bootstrap" /\ chain = "bootstrap"
  PROVE  RecordInv'
<1> DEFINE typed == screen.typed /\ op # "patch"
           pressed == screen.busy \cup {chain}
           s == [screen EXCEPT !.busy = pressed, !.typed = typed]
<1>1. screen \in RecordScreens
  BY DEF RecordInv, RecordTypes
<1>2. typed \in BOOLEAN /\ pressed \in SUBSET RecordActions
  BY <1>1 DEF RecordScreens
<1>3. /\ Record!Acted(s) /\ wires' = Record!Ask(op, chain) /\ backend' = backend /\ ~screen.loading
      /\ chain \notin screen.busy /\ (backend.calm => screen.busy = {})
  BY DEF Record!Press, Record!Acts, Record!Visible
<1> HIDE DEF typed, pressed
<1>4. /\ s \in RecordScreens /\ s.page = screen.page /\ s.shown = screen.shown
      /\ s.typed = typed /\ s.draft = screen.draft /\ s.busy = pressed
  BY <1>1, <1>2 DEF RecordScreens
<1> HIDE DEF s
<1>5. /\ screen' \in RecordScreens /\ screen'.page = screen.page /\ screen'.shown = screen.shown
      /\ screen'.typed = typed /\ screen'.draft = screen.draft /\ screen'.busy = pressed
  BY <1>1, <1>3, <1>4, RecordActed
<1>6. PICK w \in RecordWires :
        /\ wires' = Append(wires, w) /\ w.op = op /\ w.chain = chain /\ w.served = FALSE
        /\ op = "patch" => w.text = screen.draft.text
  <2>1. chain \in RecordChains
    BY DEF RecordChains
  <2> QED BY <1>3, <2>1, RecordAsk DEF RecordInv
<1>7. RecordChain(w, screen.page) /\ w.chain \in RecordActions /\ w.chain # "load"
  BY <1>6 DEF RecordChain, RecordActions
<1>8. screen'.busy = IF w.chain \in RecordActions THEN screen.busy \cup {w.chain} ELSE screen.busy
  BY <1>5, <1>6, <1>7 DEF pressed
<1>9. w.op # "patch" => screen'.typed = screen.typed
  BY <1>1, <1>5, <1>6 DEF typed, RecordScreens
<1>10. w.chain \notin screen.busy
  BY <1>3, <1>6
<1> QED BY <1>3, <1>5, <1>6, <1>7, <1>8, <1>9, <1>10, RecordSent

LEMMA RecordButtons ==
  ASSUME RecordInv,
         \/ Record!HandleSave \/ Record!HandleVerifyToken \/ Record!HandleSyncDownloadDns
         \/ Record!RunBootstrap
  PROVE  RecordInv'
<1> USE DEF RecordActions, RecordOps
<1>1. CASE Record!HandleSave
  BY <1>1, RecordPress DEF Record!HandleSave
<1>2. CASE Record!HandleVerifyToken
  BY <1>2, RecordPress DEF Record!HandleVerifyToken
<1>3. CASE Record!HandleSyncDownloadDns
  BY <1>3, RecordPress DEF Record!HandleSyncDownloadDns
<1>4. CASE Record!RunBootstrap
  BY <1>4, RecordPress DEF Record!RunBootstrap
<1> QED BY <1>1, <1>2, <1>3, <1>4

\* The operator types: in calm times nothing is being saved.
LEMMA RecordFilledIn ==
  ASSUME RecordInv, NEW s \in RecordScreens, Record!Acted(s), wires' = wires,
         backend' = backend, backend.calm => screen.busy = {}, s.page = screen.page,
         s.shown = screen.shown, s.busy = screen.busy, s.loading = screen.loading,
         s.typed = TRUE
  PROVE  RecordInv'
<1> USE DEF RecordInv
<1>1. /\ screen' \in RecordScreens /\ screen'.page = screen.page
      /\ screen'.shown = screen.shown /\ screen'.busy = screen.busy
      /\ screen'.loading = screen.loading /\ screen'.typed = TRUE
  BY RecordActed DEF RecordTypes
<1>2. RecordTypes' /\ RecordFacts'
  BY <1>1 DEF RecordTypes, RecordFacts
<1>3. RecordBusy'
  BY <1>1 DEF RecordBusy
<1>4. RecordCalm'
  <2> SUFFICES ASSUME backend.calm, ~backend.lost
               PROVE  RecordOrder' /\ RecordFresh' /\ RecordSettings' /\ RecordDraft'
    BY DEF RecordCalm
  <2>1. RecordOrder /\ RecordFresh /\ RecordSettings /\ RecordDraft
    BY DEF RecordCalm
  <2>2. \A i \in 1..Len(wires) : wires[i].op # "patch"
    BY DEF RecordFacts, RecordChain, RecordBusy, RecordActions
  <2>3. RecordSettings'
    BY <1>1, <2>1, <2>2 DEF RecordSettings
  <2> QED BY <1>1, <2>1, <2>3 DEF RecordOrder, RecordFresh, RecordKnown, RecordDraft
<1> QED BY <1>2, <1>3, <1>4

LEMMA RecordType ==
  ASSUME RecordInv, NEW text \in Texts, Record!Type(text) PROVE RecordInv'
<1> DEFINE s == [screen EXCEPT !.draft.text = text, !.typed = TRUE]
<1>1. screen \in RecordScreens /\ text \in RecordTexts
  BY DEF RecordInv, RecordTypes, RecordTexts
<1>2. /\ s \in RecordScreens /\ s.page = screen.page /\ s.shown = screen.shown
      /\ s.busy = screen.busy /\ s.loading = screen.loading /\ s.typed = TRUE
  BY <1>1 DEF RecordScreens, RecordDrafts
<1>3. /\ Record!Acted(s) /\ wires' = wires /\ backend' = backend
      /\ backend.calm => screen.busy = {}
  BY DEF Record!Type, Record!Acts
<1> HIDE DEF s
<1> QED BY <1>2, <1>3, RecordFilledIn

LEMMA RecordTypeToken ==
  ASSUME RecordInv, NEW token \in Secrets \cup {Blank}, Record!TypeToken(token) PROVE RecordInv'
<1> DEFINE s == [screen EXCEPT !.draft.token = token, !.typed = TRUE]
<1>1. screen \in RecordScreens /\ token \in RecordTokens
  BY DEF RecordInv, RecordTypes, RecordTokens
<1>2. /\ s \in RecordScreens /\ s.page = screen.page /\ s.shown = screen.shown
      /\ s.busy = screen.busy /\ s.loading = screen.loading /\ s.typed = TRUE
  BY <1>1 DEF RecordScreens, RecordDrafts
<1>3. /\ Record!Acted(s) /\ wires' = wires /\ backend' = backend
      /\ backend.calm => screen.busy = {}
  BY DEF Record!TypeToken, Record!Acts
<1> HIDE DEF s
<1> QED BY <1>2, <1>3, RecordFilledIn

-----------------------------------------------------------------------------
\* What the page holds after a reply: the same record, unless the reply brings it.
LEMMA RecordShown ==
  ASSUME screen \in RecordScreens, NEW r \in RecordWires, NEW n \in 0..1,
         n = 1 <=> Record!Follow(r) # <<>>,
         screen' = Record!Shown(r)
  PROVE  /\ screen' \in RecordScreens /\ screen'.page = screen.page
         /\ screen'.shown = IF r.op \in {"get", "patch"} /\ r.ok THEN r.data ELSE screen.shown
         /\ screen'.busy = IF n = 0 THEN screen.busy \ {r.chain} ELSE screen.busy
         /\ r.op \in {"get", "patch"} /\ r.ok /\ screen.page = "workertenant" =>
              screen'.draft = [text |-> r.data.text, token |-> Blank]
         /\ r.op = "get" /\ r.ok /\ screen.page = "settings" =>
              screen'.draft = [text |-> r.data.text, token |-> Blank]
         /\ r.op = "patch" /\ r.ok /\ screen.page = "settings" =>
              screen'.draft = [text |-> screen.draft.text, token |-> Blank]
         /\ r.op \notin {"get", "patch"} =>
              screen'.draft = screen.draft /\ screen'.typed = screen.typed
<1> DEFINE read == r.op = "get"
           s == CASE read /\ r.ok -> Record!Loaded(r.data)
                  [] r.op = "patch" /\ r.ok -> Record!Saved(r.data)
                  [] OTHER -> screen
           f == Record!Follow(r)
           waits == IF f = <<"get">> /\ Record!Loud(r.chain) THEN TRUE
                      ELSE screen.loading /\ ~(read /\ Record!Loud(r.chain))
           fails == IF read /\ (Record!Loud(r.chain) \/ screen.page = "metrics") THEN ~r.ok
                     ELSE screen.failed
           pressed == IF n = 0 THEN screen.busy \ {r.chain} ELSE screen.busy
           brought == r.data
           blank == [text |-> brought.text, token |-> Blank]
           kept == [text |-> screen.draft.text, token |-> Blank]
<1>1. brought \in Record!Records /\ brought.text \in RecordTexts
  BY DEF RecordWires, Record!Records, RecordTexts
<1>2. blank \in RecordDrafts /\ kept \in RecordDrafts
  <2>1. screen.draft.text \in RecordTexts /\ Blank \in RecordTokens
    BY DEF RecordScreens, RecordDrafts, RecordTokens
  <2> QED BY <1>1, <2>1 DEF RecordDrafts
<1>3. /\ s \in RecordScreens /\ s.page = screen.page
      /\ s.shown = IF r.op \in {"get", "patch"} /\ r.ok THEN brought ELSE screen.shown
      /\ s.loading = screen.loading /\ s.failed = screen.failed /\ s.busy = screen.busy
      /\ r.op \in {"get", "patch"} /\ r.ok /\ screen.page = "workertenant" => s.draft = blank
      /\ r.op = "get" /\ r.ok /\ screen.page = "settings" => s.draft = blank
      /\ r.op = "patch" /\ r.ok /\ screen.page = "settings" => s.draft = kept
      /\ r.op \notin {"get", "patch"} => s.draft = screen.draft /\ s.typed = screen.typed
  <2>1. CASE read /\ r.ok
    <3> DEFINE draft == IF Record!HasForm THEN blank ELSE screen.draft
    <3>1. s = [screen EXCEPT !.shown = brought, !.typed = FALSE, !.draft = draft]
      BY <2>1 DEF Record!Loaded
    <3>2. draft \in RecordDrafts
      BY <1>2 DEF RecordScreens
    <3>3. screen.page \in {"settings", "workertenant"} => draft = blank
      BY DEF Record!HasForm, Record!Page
    <3> HIDE DEF draft, brought, blank, kept, s
    <3>4. /\ s \in RecordScreens /\ s.page = screen.page /\ s.shown = brought
          /\ s.loading = screen.loading /\ s.failed = screen.failed /\ s.busy = screen.busy
          /\ s.draft = draft
      BY <1>1, <3>1, <3>2 DEF RecordScreens
    <3> QED BY <2>1, <3>3, <3>4
  <2>2. CASE r.op = "patch" /\ r.ok
    <3> DEFINE draft == [text |-> IF screen.page = "settings" THEN screen.draft.text
                                  ELSE brought.text, token |-> Blank]
    <3>1. s = [screen EXCEPT !.shown = brought, !.draft = draft]
      BY <2>2 DEF Record!Saved, Record!Page
    <3>2. draft = IF screen.page = "settings" THEN kept ELSE blank
      OBVIOUS
    <3>3. draft \in RecordDrafts
      BY <1>2, <3>2
    <3> HIDE DEF draft, brought, blank, kept, s
    <3>4. /\ s \in RecordScreens /\ s.page = screen.page /\ s.shown = brought
          /\ s.loading = screen.loading /\ s.failed = screen.failed /\ s.busy = screen.busy
          /\ s.draft = draft
      BY <1>1, <3>1, <3>3 DEF RecordScreens
    <3> QED BY <2>2, <3>2, <3>4
  <2>3. CASE ~(r.op \in {"get", "patch"} /\ r.ok)
    <3>1. s = screen
      BY <2>3
    <3> QED BY <2>3, <3>1
  <2> QED BY <2>1, <2>2, <2>3
<1>4. waits \in BOOLEAN
  BY DEF RecordScreens
<1>5. fails \in BOOLEAN
  BY DEF RecordScreens, RecordWires
<1>6. pressed \in SUBSET RecordActions
  BY DEF RecordScreens
<1>7. screen' = [s EXCEPT !.loading = waits, !.failed = fails, !.busy = pressed]
  <2>1. pressed = IF f = <<>> THEN screen.busy \ {r.chain} ELSE screen.busy
    OBVIOUS
  <2>2. /\ s.loading = screen.loading /\ s.failed = screen.failed /\ s.busy = screen.busy
    BY <1>3
  <2>3. screen' = [s EXCEPT !.loading = IF f = <<"get">> /\ Record!Loud(r.chain) THEN TRUE
                                        ELSE s.loading /\ ~(read /\ Record!Loud(r.chain)),
                            !.failed = IF read /\ (Record!Loud(r.chain) \/ screen.page = "metrics")
                                       THEN ~r.ok ELSE s.failed,
                            !.busy = IF f = <<>> THEN screen.busy \ {r.chain} ELSE s.busy]
    <3> HIDE DEF f
    <3> QED BY DEF Record!Shown, Record!Page, Record!BusyAfter, f
  <2> HIDE DEF s, f, pressed
  <2> QED BY <2>1, <2>2, <2>3
<1> HIDE DEF s, waits, fails, pressed, brought, blank, kept
<1>8. /\ screen' \in RecordScreens /\ screen'.page = s.page /\ screen'.shown = s.shown
      /\ screen'.busy = pressed /\ screen'.draft = s.draft /\ screen'.typed = s.typed
  BY <1>3, <1>4, <1>5, <1>6, <1>7 DEF RecordScreens
<1> QED BY <1>3, <1>8 DEF pressed, brought, blank, kept

\* What was asked for went well, and something follows it.
RecordGoesOn(r) ==
  r.ok /\ \/ r.op = "patch" /\ r.chain = "sync"
          \/ r.op \in {"verify", "sync", "bootstrap"} /\ r.chain # "tick"

LEMMA RecordFollows ==
  ASSUME NEW r \in RecordWires
  PROVE  Record!Follow(r) = IF RecordGoesOn(r) THEN <<IF r.op = "patch" THEN "sync" ELSE "get">>
                            ELSE <<>>
BY DEF Record!Follow, RecordGoesOn

LEMMA RecordReply ==
  ASSUME RecordInv, NEW i \in 1..Len(wires), Record!Reply(i)
  PROVE  RecordInv' /\ backend' = backend
<1> USE DEF RecordInv
<1> DEFINE r == wires[i]
           n == IF RecordGoesOn(r) THEN 1 ELSE 0
           next == IF r.op = "patch" THEN "sync" ELSE "get"
           chain == r.chain
           w == Record!Request(next, chain, Blank, Blank)
           u == Record!Without(i)
           f == Record!Follow(r)
<1>1. r \in RecordWires /\ wires \in Seq(RecordWires)
  BY DEF RecordTypes
<1>2. r.served /\ (backend.calm => i = 1) /\ backend' = backend /\ screen' = Record!Shown(r)
  BY DEF Record!Reply
<1>3. n \in 0..1 /\ (n = 1 <=> RecordGoesOn(r)) /\ (n = 0 <=> ~RecordGoesOn(r))
  OBVIOUS
<1>4. f = IF n = 1 THEN <<next>> ELSE <<>>
  <2> HIDE DEF r
  <2> QED BY <1>1, <1>3, RecordFollows
<1>5. /\ w \in RecordWires /\ w.op = next /\ w.chain = chain /\ w.served = FALSE
  <2>1. next \in RecordOps /\ chain \in RecordChains
    <3> HIDE DEF r
    <3> QED BY <1>1 DEF RecordOps, RecordWires
  <2>2. Blank \in RecordTexts /\ Blank \in RecordTokens
    BY DEF RecordTexts, RecordTokens
  <2> HIDE DEF next, chain
  <2> QED BY <2>1, <2>2 DEF Record!Request, RecordWires, Record!Records, Record!Nothing
<1>6. u \in Seq(RecordWires) /\ Dropping(wires, u, i)
  BY <1>1, Dropped DEF Record!Without
<1>7. wires' = IF n = 1 THEN Append(u, w) ELSE u
  <2>1. wires' = u \o [j \in DOMAIN f |-> Record!Request(f[j], chain, Blank, Blank)]
    BY DEF Record!Reply
  <2> HIDE DEF f, u, n
  <2>2. CASE n = 1
    <3>1. f = <<next>>
      BY <1>4, <2>2
    <3> HIDE DEF next, chain
    <3>2. [j \in DOMAIN f |-> Record!Request(f[j], chain, Blank, Blank)] = <<w>>
      <4>1. DOMAIN f = 1..1 /\ f[1] = next
        BY <3>1
      <4>2. \A j \in 1..1 : f[j] = next
        BY <4>1
      <4>3. [j \in DOMAIN f |-> Record!Request(f[j], chain, Blank, Blank)] = [j \in 1..1 |-> w]
        BY <4>1, <4>2
      <4> HIDE DEF w
      <4>4. [j \in 1..1 |-> w] = <<w>>
        OBVIOUS
      <4> QED BY <4>3, <4>4
    <3> HIDE DEF w
    <3>3. Append(u, w) = u \o <<w>>
      BY <1>5, <1>6, AppendIsConcat
    <3> QED BY <2>1, <2>2, <3>2, <3>3
  <2>3. CASE n = 0
    <3>1. f = <<>>
      BY <1>4, <2>3
    <3>2. [j \in DOMAIN f |-> Record!Request(f[j], chain, Blank, Blank)] = <<>>
      BY <3>1
    <3> QED BY <1>6, <2>1, <2>3, <3>2, ConcatEmptySeq
  <2> QED BY <1>3, <2>2, <2>3
<1> HIDE DEF n, u, w, f
<1>8. wires' \in Seq(RecordWires) /\ Left(wires, wires', i, n, w)
  BY <1>1, <1>3, <1>5, <1>6, <1>7, Leaves
<1> DEFINE comes == r.op \in {"get", "patch"} /\ r.ok
<1>9. /\ screen' \in RecordScreens /\ screen'.page = screen.page
      /\ screen'.shown = IF comes THEN r.data ELSE screen.shown
      /\ screen'.busy = IF n = 0 THEN screen.busy \ {r.chain} ELSE screen.busy
      /\ comes /\ screen.page = "workertenant" =>
           screen'.draft = [text |-> r.data.text, token |-> Blank]
      /\ r.op = "get" /\ r.ok /\ screen.page = "settings" =>
           screen'.draft = [text |-> r.data.text, token |-> Blank]
      /\ r.op = "patch" /\ r.ok /\ screen.page = "settings" =>
           screen'.draft = [text |-> screen.draft.text, token |-> Blank]
      /\ r.op \notin {"get", "patch"} =>
           screen'.draft = screen.draft /\ screen'.typed = screen.typed
  <2>1. screen \in RecordScreens
    BY DEF RecordTypes
  <2>2. n = 1 <=> Record!Follow(r) # <<>>
    <3>1. <<next>> # <<>> /\ 0 # 1
      OBVIOUS
    <3> QED BY <1>3, <1>4, <3>1 DEF f
  <2> HIDE DEF r
  <2> QED BY <1>1, <1>2, <1>3, <2>1, <2>2, RecordShown
<1>10. \A j \in 1..Len(wires') :
         \/ \E k \in 1..Len(wires) :
              k # i /\ wires'[j] = wires[k] /\ k = IF j < i THEN j ELSE j + 1
         \/ n = 1 /\ j = Len(wires') /\ wires'[j] = w
  BY <1>1, <1>8 DEF Left
<1>11. /\ \A k \in 1..Len(wires) : k # i =>
            \E j \in 1..Len(wires') : wires'[j] = wires[k] /\ j = IF k < i THEN k ELSE k - 1
       /\ n = 1 => wires'[Len(wires')] = w /\ Len(wires') \in 1..Len(wires')
       /\ Len(wires') = Len(wires) - 1 + n
  BY <1>1, <1>8 DEF Left
<1>12. RecordTypes'
  BY <1>2, <1>8, <1>9 DEF RecordTypes
<1>13. RecordFacts'
  <2>1. n = 1 => RecordChain(w, screen.page)
    <3>1. RecordChain(r, screen.page)
      BY DEF RecordFacts
    <3> QED BY <1>3, <1>5, <3>1 DEF RecordChain, RecordGoesOn
  <2>2. \A j \in 1..Len(wires') : RecordChain(wires'[j], screen.page)
    BY <1>10, <2>1 DEF RecordFacts
  <2> QED BY <1>2, <1>9, <2>2 DEF RecordFacts
<1>14. RecordBusy'
  <2>1. \A j \in 1..Len(wires') :
          wires'[j].chain \in RecordActions => wires'[j].chain \in screen'.busy
    BY <1>3, <1>5, <1>9, <1>10 DEF RecordBusy
  <2>2. ASSUME NEW c \in screen'.busy
        PROVE  \E j \in 1..Len(wires') : wires'[j].chain = c
    <3>1. PICK k \in 1..Len(wires) : wires[k].chain = c
      BY <1>9, <2>2 DEF RecordBusy
    <3>2. CASE k # i
      BY <1>11, <3>1, <3>2
    <3>3. CASE k = i
      <4>1. n = 1
        BY <1>3, <1>9, <2>2, <3>1, <3>3
      <4> QED BY <1>5, <1>11, <3>1, <3>3, <4>1
    <3> QED BY <3>2, <3>3
  <2>3. \A a, b \in 1..Len(wires') :
          (IF a < i THEN a ELSE a + 1) = (IF b < i THEN b ELSE b + 1) => a = b
    <3>1. i \in Nat /\ 1..Len(wires') \subseteq Int
      BY <1>1, <1>8
    <3> QED BY <3>1
  <2>4. \A k \in 1..Len(wires) : k # i /\ wires[k].chain \in RecordActions => wires[k].chain # chain
    BY DEF RecordBusy
  <2>5. ASSUME NEW a \in 1..Len(wires'), NEW b \in 1..Len(wires'),
               wires'[a].chain \in RecordActions, wires'[a].chain = wires'[b].chain
        PROVE  a = b
    <3>1. CASE n = 1 /\ a = Len(wires') /\ wires'[a] = w
      BY <1>5, <1>10, <2>4, <2>5, <3>1
    <3>2. CASE n = 1 /\ b = Len(wires') /\ wires'[b] = w
      BY <1>5, <1>10, <2>4, <2>5, <3>2
    <3>3. ASSUME NEW k \in 1..Len(wires), NEW l \in 1..Len(wires),
                 wires'[a] = wires[k], k = IF a < i THEN a ELSE a + 1,
                 wires'[b] = wires[l], l = IF b < i THEN b ELSE b + 1
          PROVE  a = b
      <4>1. k = l
        BY <2>5, <3>3 DEF RecordBusy
      <4> QED BY <2>3, <3>3, <4>1
    <3> QED BY <1>10, <3>1, <3>2, <3>3
  <2> QED BY <2>1, <2>2, <2>5 DEF RecordBusy
<1>15. RecordCalm'
  <2> SUFFICES ASSUME backend.calm, ~backend.lost
               PROVE  RecordOrder' /\ RecordFresh' /\ RecordSettings' /\ RecordDraft'
    BY <1>2 DEF RecordCalm
  <2>1. /\ RecordOrder /\ RecordFresh /\ RecordSettings /\ RecordDraft /\ i = 1
        /\ r.op \in {"get", "patch"} => comes
    <3>1. RecordOrder /\ RecordFresh /\ RecordSettings /\ RecordDraft /\ i = 1
      BY <1>2 DEF RecordCalm
    <3> QED BY <1>2, <3>1 DEF RecordOrder
  <2>2. \A j \in 1..Len(wires') :
          \/ j + 1 \in 1..Len(wires) /\ wires'[j] = wires[j + 1]
          \/ n = 1 /\ j = Len(wires') /\ wires'[j] = w
    BY <1>10, <2>1
  <2>3. \A k \in 1..Len(wires) : k # 1 => k - 1 \in 1..Len(wires') /\ wires'[k - 1] = wires[k]
    BY <1>11, <2>1
  <2>4. RecordOrder'
    <3>1. ASSUME NEW a \in 1..Len(wires'), NEW b \in 1..Len(wires'), wires'[a].served, b < a
          PROVE  wires'[b].served
      <4>1. a + 1 \in 1..Len(wires) /\ wires'[a] = wires[a + 1]
        BY <1>5, <2>2, <3>1
      <4>2. b + 1 < a + 1 /\ b # Len(wires')
        BY <1>8, <3>1
      <4>3. b + 1 \in 1..Len(wires) /\ wires'[b] = wires[b + 1]
        BY <2>2, <4>2
      <4> QED BY <2>1, <3>1, <4>1, <4>2, <4>3 DEF RecordOrder
    <3>2. \A j \in 1..Len(wires') :
            wires'[j].served /\ wires'[j].op \in {"get", "patch"} => wires'[j].ok
      BY <1>5, <2>1, <2>2 DEF RecordOrder
    <3> QED BY <3>1, <3>2 DEF RecordOrder
  <2>5. RecordFresh'
    <3>1. CASE n = 1 /\ r.op # "patch"
      <4>1. RecordWill(w)
        BY <1>5, <3>1 DEF RecordWill
      <4> QED BY <1>11, <3>1, <4>1 DEF RecordFresh
    <3>2. CASE ~(n = 1 /\ r.op # "patch")
      <4>1. ~RecordWill(r)
        BY <1>2, <1>3, <3>2 DEF RecordWill, RecordGoesOn
      <4>2. (\E k \in 1..Len(wires) : RecordWill(wires[k])) =>
              \E j \in 1..Len(wires') : RecordWill(wires'[j])
        BY <2>1, <2>3, <4>1
      <4>3. \A j \in 1..Len(wires') : RecordRead(wires'[j]) =>
              j + 1 \in 1..Len(wires) /\ wires'[j] = wires[j + 1]
        BY <1>5, <2>2 DEF RecordRead
      <4>4. ASSUME RecordKnown PROVE RecordKnown'
        <5>1. ASSUME NEW k \in 1..Len(wires'), RecordRead(wires'[k]),
                     \A j \in 1..Len(wires') : RecordRead(wires'[j]) => j <= k
              PROVE  wires'[k].data = backend.record
          <6>1. k + 1 \in 1..Len(wires) /\ wires'[k] = wires[k + 1]
            BY <4>3, <5>1
          <6>2. ASSUME NEW j \in 1..Len(wires), RecordRead(wires[j]) PROVE j <= k + 1
            <7>1. CASE j = 1
              BY <7>1
            <7>2. CASE j # 1
              BY <2>3, <5>1, <6>2, <7>2
            <7> QED BY <7>1, <7>2
          <6> QED BY <4>4, <5>1, <6>1, <6>2 DEF RecordKnown
        <5>2. ASSUME \A k \in 1..Len(wires') : ~RecordRead(wires'[k])
              PROVE  screen'.shown = backend.record
          <6>1. \A k \in 1..Len(wires) : k # 1 => ~RecordRead(wires[k])
            BY <2>3, <5>2
          <6>2. CASE comes
            <7>1. RecordRead(r)
              BY <1>2, <6>2 DEF RecordRead
            <7>2. \A j \in 1..Len(wires) : RecordRead(wires[j]) => j <= 1
              BY <6>1
            <7>3. r.data = backend.record
              BY <2>1, <4>4, <7>1, <7>2 DEF RecordKnown
            <7> QED BY <1>9, <6>2, <7>3
          <6>3. CASE ~comes
            <7>1. ~RecordRead(r)
              BY <6>3 DEF RecordRead
            <7>2. \A k \in 1..Len(wires) : ~RecordRead(wires[k])
              BY <2>1, <6>1, <7>1
            <7> QED BY <1>9, <4>4, <6>3, <7>2 DEF RecordKnown
          <6> QED BY <6>2, <6>3
        <5> QED BY <1>2, <5>1, <5>2 DEF RecordKnown
      <4> QED BY <2>1, <4>2, <4>4 DEF RecordFresh
    <3> QED BY <3>1, <3>2
  <2>6. RecordSettings'
    <3> SUFFICES ASSUME screen.page = "settings" PROVE RecordSettings'
      BY <1>9 DEF RecordSettings
    <3>1. Len(wires) = 1
      <4>1. Len(wires) <= 1
        BY <2>1 DEF RecordSettings
      <4>2. Len(wires) \in Nat /\ 1 \in 1..Len(wires)
        BY <1>1, <2>1
      <4>3. \A m \in Nat : m <= 1 /\ 1 \in 1..m => m = 1
        OBVIOUS
      <4> QED BY <4>1, <4>2, <4>3
    <3>2. Len(wires') <= 1
      BY <1>3, <1>11, <3>1
    <3>3. \A j \in 1..Len(wires') : n = 1 /\ wires'[j] = w
      BY <2>2, <3>1
    <3>4. n = 1 => w.chain # "load" /\ w.op # "patch"
      <4>1. RecordChain(r, screen.page)
        BY DEF RecordFacts
      <4> QED BY <1>3, <1>5, <4>1 DEF RecordChain, RecordGoesOn
    <3> QED BY <3>2, <3>3, <3>4 DEF RecordSettings
  <2>7. RecordDraft'
    <3> SUFFICES ASSUME screen.page \in {"settings", "workertenant"} PROVE RecordDraft'
      BY <1>9 DEF RecordDraft
    <3>1. CASE r.op \in {"get", "patch"}
      <4>1. screen'.shown = r.data
        BY <1>9, <2>1, <3>1
      <4>2. screen.page = "settings" /\ r.op = "patch" => r.data.text = screen.draft.text
        BY <1>2, <2>1 DEF RecordSettings
      <4>3. screen'.draft = [text |-> screen'.shown.text, token |-> Blank]
        BY <1>9, <2>1, <3>1, <4>1, <4>2
      <4> QED BY <4>3 DEF RecordDraft
    <3>2. CASE r.op \notin {"get", "patch"}
      <4>1. (\E k \in 1..Len(wires) : wires[k].op \in {"get", "patch"}) =>
              \E j \in 1..Len(wires') : wires'[j].op \in {"get", "patch"}
        BY <2>1, <2>3, <3>2
      <4>2. screen'.draft = screen.draft /\ screen'.typed = screen.typed
            /\ screen'.shown = screen.shown
        BY <1>9, <3>2
      <4> QED BY <1>9, <2>1, <4>1, <4>2 DEF RecordDraft
    <3> QED BY <3>1, <3>2
  <2> QED BY <2>4, <2>5, <2>6, <2>7
<1> QED BY <1>2, <1>12, <1>13, <1>14, <1>15

LEMMA RecordInductive ==
  ASSUME RecordInv, [Record!Next]_(Record!vars)
  PROVE  RecordInv' /\ Record!SecretKeptStep
<1>1. CASE UNCHANGED Record!vars
  BY <1>1 DEF Record!vars, RecordInv, RecordTypes, RecordFacts, RecordBusy, RecordCalm,
              RecordOrder, RecordFresh, RecordKnown, RecordSettings, RecordDraft,
              Record!SecretKeptStep
<1>2. CASE Record!Next
  <2>1. DOMAIN wires = 1..Len(wires)
    BY DEF RecordInv, RecordTypes
  <2>2. CASE \E i \in DOMAIN wires : Record!Serve(i)
    BY <2>1, <2>2, RecordServe
  <2>3. CASE \E i \in DOMAIN wires : Record!Reply(i)
    BY <2>1, <2>3, RecordReply DEF Record!SecretKeptStep
  <2>4. CASE \E i \in DOMAIN wires : Record!Lose(i)
    BY <2>1, <2>4, RecordLose DEF Record!SecretKeptStep
  <2>5. CASE Record!AgentChanges
    BY <2>5, RecordAgentChanges DEF Record!SecretKeptStep
  <2>6. CASE Record!Tick \/ Record!VerifyTick
    BY <2>6, RecordTick, RecordVerifyTick
       DEF Record!Tick, Record!VerifyTick, Record!SecretKeptStep
  <2>7. CASE Record!Retry
    BY <2>7, RecordRetry DEF Record!Retry, Record!Acts, Record!SecretKeptStep
  <2>8. CASE \/ Record!HandleSave \/ Record!HandleVerifyToken \/ Record!HandleSyncDownloadDns
             \/ Record!RunBootstrap
    BY <2>8, RecordButtons
       DEF Record!HandleSave, Record!HandleVerifyToken, Record!HandleSyncDownloadDns,
           Record!RunBootstrap, Record!Press, Record!Acts, Record!SecretKeptStep
  <2>9. CASE \E text \in Texts : Record!Type(text)
    BY <2>9, RecordType DEF Record!Type, Record!Acts, Record!SecretKeptStep
  <2>10. CASE \E token \in Secrets \cup {Blank} : Record!TypeToken(token)
    BY <2>10, RecordTypeToken DEF Record!TypeToken, Record!Acts, Record!SecretKeptStep
  <2> QED BY <1>2, <2>2, <2>3, <2>4, <2>5, <2>6, <2>7, <2>8, <2>9, <2>10 DEF Record!Next
<1> QED BY <1>1, <1>2

-----------------------------------------------------------------------------
(* The users and their grants.                                             *)

LEMMA UsersConstants == "none" \notin Accts /\ Later \subseteq Accts
BY ConsoleAssumption

Found == UserList!Resources
UserGrants == UserList!Grants(Accts)
UsersOps == {"users", "grants", "options", "adduser", "deluser", "grant", "revoke"}
UsersIds == Found \cup Accts \cup {"none"}
UsersData == Found \cup Accts \cup UserGrants
MaybeUser == Accts \cup {"none"}
MaybeFound == Found \cup {"none"}

UsersScreens ==
  [users : SUBSET Accts, loading : BOOLEAN, selected : MaybeUser, grants : SUBSET UserGrants,
   grantsLoading : BOOLEAN, type : UserList!ScopeTypes, options : SUBSET Found,
   scopeId : MaybeFound, submitting : BOOLEAN, acts : Nat]
UsersBackends ==
  [users : SUBSET Accts, grants : SUBSET UserGrants, existing : SUBSET Found,
   role : [Accts -> UserList!Roles], ordered : BOOLEAN, others : Nat]
UsersWires ==
  [op : UsersOps, user : MaybeUser, type : UserList!ScopeTypes, id : UsersIds,
   level : UserList!AccessLevels, served : BOOLEAN, ok : BOOLEAN, data : SUBSET UsersData]

UsersTypes ==
  /\ screen \in UsersScreens /\ backend \in UsersBackends /\ wires \in Seq(UsersWires)

\* The grant that a request asks for.
GrantAsked(w) == [user |-> w.user, type |-> w.type, id |-> w.id, level |-> w.level]

\* What a request names and what a reply brings.
UsersWell(w) ==
  /\ w.op = "users" => w.data \subseteq Accts
  /\ w.op = "grants" => w.data \subseteq UserGrants /\ \A g \in w.data : g.user = w.user
  /\ w.op = "options" => w.data \subseteq Found
  /\ w.op = "adduser" => w.user \in Accts /\ (w.served /\ w.ok => w.data = {w.user})
  /\ w.op = "deluser" => w.user \in Accts
  /\ w.op = "grant" => /\ w.user \in Accts /\ w.id \in Found
                       /\ w.served /\ w.ok => w.data = {GrantAsked(w)}

\* Who has a grant is there, what it names was of its type, and it has one level.
UsersRecord ==
  /\ \A g \in backend.grants : g.user \in backend.users /\ g.id \in UserList!OfType(g.type)
  /\ \A g, h \in backend.grants : UserList!SameKey(g, h) => g = h
  /\ backend.ordered => backend.others = 0

UsersFacts == UsersRecord /\ \A i \in 1..Len(wires) : UsersWell(wires[i])

\* The server takes up requests in their order.
UsersOrder == \A i, j \in 1..Len(wires) : wires[i].served /\ j < i => wires[j].served

\* A reply after which user u is listed, or is not.
UsersChange(w, u) == w.served /\ w.ok /\ w.op \in {"adduser", "deluser"} /\ w.user = u

\* Nothing is done until the list was read; then it follows what was done.
UsersListed ==
  /\ \A i \in 1..Len(wires) : wires[i].op = "users" =>
       /\ screen.loading
       /\ \A j \in 1..Len(wires) : wires[j].op = "users" => i = j
       /\ \A j \in 1..Len(wires) : wires[j].op \in {"users", "options"}
       /\ wires[i].served => wires[i].ok /\ wires[i].data = backend.users
  /\ (\A i \in 1..Len(wires) : wires[i].op # "users") => \A u \in Accts :
       /\ \A k \in 1..Len(wires) :
            UsersChange(wires[k], u)
              /\ (\A j \in 1..Len(wires) : UsersChange(wires[j], u) => j <= k) =>
            (wires[k].op = "adduser" <=> u \in backend.users)
       /\ (\A k \in 1..Len(wires) : ~UsersChange(wires[k], u)) =>
            (u \in screen.users <=> u \in backend.users)

\* The grants of the selected user are read after everything that was done before the
\* user was selected.
UsersLater(k) == \E j \in 1..Len(wires) : wires[j].op = "grants" /\ k < j
UsersSelected ==
  screen.selected # "none" =>
    /\ \A k \in 1..Len(wires) :
         /\ wires[k].op = "grants" => wires[k].user = screen.selected \/ UsersLater(k)
         /\ wires[k].op = "grant" => wires[k].user = screen.selected \/ UsersLater(k)
         /\ wires[k].op = "deluser" /\ wires[k].user = screen.selected
              /\ wires[k].id # wires[k].user => UsersLater(k)
    /\ (\A k \in 1..Len(wires) : wires[k].op # "grants") =>
         \A g \in screen.grants : g.user = screen.selected

\* The grants will be read, or the selected user will be gone from the page.
UsersWill(w, who) ==
  \/ w.op = "grants" /\ ~w.served
  \/ w.op = "deluser" /\ w.served /\ w.ok /\ w.id = w.user /\ w.user = who

\* A reply that tells of the grant on what x names, to what was read last.
UsersTells(w, x) ==
  w.served /\ w.ok /\ w.op \in {"grant", "revoke"} /\ UserList!SameKey(w, x)
UsersLate(k, x) ==
  UsersTells(wires[k], x) /\ \A j \in 1..Len(wires) : wires[j].op = "grants" => j < k

\* What such a reply tells is so, and what was read is so.
UsersStands(w, x) ==
  /\ w.op = "grant" => GrantAsked(w) \in backend.grants
  /\ w.op = "revoke" => \A h \in backend.grants : ~UserList!SameKey(h, x)
UsersAgree(grants, x) ==
  /\ \A h \in backend.grants : UserList!SameKey(h, x) => h \in grants
  /\ \A g \in grants : UserList!SameKey(g, x) => \E h \in backend.grants : UserList!SameKey(h, x)
UsersBrought(w) == IF w.ok THEN w.data ELSE {}

UsersKnown(x) ==
  /\ \A k \in 1..Len(wires) :
       UsersLate(k, x) /\ (\A j \in 1..Len(wires) : UsersLate(j, x) => j <= k) =>
         UsersStands(wires[k], x)
  /\ (\A k \in 1..Len(wires) : ~UsersLate(k, x)) =>
       /\ \A k \in 1..Len(wires) : wires[k].op = "grants" /\ ~UsersLater(k) =>
            UsersAgree(UsersBrought(wires[k]), x)
       /\ (\A k \in 1..Len(wires) : wires[k].op # "grants") => UsersAgree(screen.grants, x)
UsersGranted ==
  screen.selected # "none" =>
    \/ \E k \in 1..Len(wires) : UsersWill(wires[k], screen.selected)
    \/ \A x \in UserGrants : x.user = screen.selected => UsersKnown(x)

UsersOrdered ==
  backend.ordered => UsersOrder /\ UsersListed /\ UsersSelected /\ UsersGranted

UsersInv == UsersTypes /\ UsersFacts /\ UsersOrdered

\* What a list shows of the resources of a type can be opened, and what a grant allows.
LEMMA UsersListedOpen ==
  ASSUME NEW role \in UserList!Roles, NEW grants, NEW who, NEW type \in UserList!ScopeTypes,
         NEW existing, NEW id \in existing \cap UserList!OfType(type),
         role = "viewer" => \A g \in grants : g.user = who => g.level = "view"
  PROVE  LET may == UserList!MayOpen(role, grants, who, type, id, existing)
         IN  /\ id \in UserList!Listed(role, grants, who, type, existing) => may
             /\ UserList!EffectiveAccess(role, grants, who, type, id) # "none" => may
<1> DEFINE direct(t, x) == UserList!Direct(grants, who, t, x)
           ids(t) == UserList!GrantedIds(grants, who, t)
           worked == {t \in ManagedTenants : WorkerOf[t] \in ids("worker")}
           inherited == UserList!Inherited(grants, who, type, id)
           listed == id \in UserList!Listed(role, grants, who, type, existing)
           access == UserList!EffectiveAccess(role, grants, who, type, id)
           may == UserList!MayOpen(role, grants, who, type, id, existing)
<1>1. \A t, x : x \in ids(t) <=> direct(t, x) # {}
  BY DEF UserList!GrantedIds, UserList!Direct
<1>2. may <=> /\ type = "gateway" \/ listed
              /\ role = "viewer" => type = "tenant"
              /\ access # "none"
  BY DEF UserList!MayOpen
<1>3. CASE role = "admin"
  <2>1. listed
    BY <1>3 DEF UserList!Listed
  <2>2. access # "none"
    BY <1>3 DEF UserList!EffectiveAccess
  <2> QED BY <1>2, <1>3, <2>1, <2>2
<1>4. CASE role = "viewer"
  <2>1. listed <=> type = "tenant" /\ id \in ids("tenant")
    BY <1>4 DEF UserList!Listed
  <2>2. access # "none" <=> type = "tenant" /\ "view" \in direct(type, id)
    BY <1>4 DEF UserList!EffectiveAccess
  <2>3. \A x : "view" \in direct("tenant", x) <=> direct("tenant", x) # {}
    BY <1>4 DEF UserList!Direct
  <2> QED BY <1>1, <1>2, <1>4, <2>1, <2>2, <2>3
<1>5. CASE role = "editor"
  <2>1. access # "none" <=> direct(type, id) \cup inherited # {}
    <3>1. access = UserList!Highest(direct(type, id) \cup inherited)
      BY <1>5 DEF UserList!EffectiveAccess
    <3> QED BY <3>1 DEF UserList!Highest
  <2>2. CASE type = "worker"
    <3>1. listed <=> id \in ids("worker")
      BY <1>5, <2>2 DEF UserList!Listed
    <3>2. inherited = {}
      BY <2>2 DEF UserList!Inherited
    <3>3. access # "none" <=> direct("worker", id) # {}
      BY <2>1, <2>2, <3>2
    <3>4. listed <=> access # "none"
      BY <1>1, <3>1, <3>3
    <3> QED BY <1>2, <1>5, <3>4
  <2>3. CASE type = "tenant"
    <3>1. id \in ManagedTenants
      BY <2>3 DEF UserList!OfType
    <3>2. listed <=> id \in ids("tenant") \/ id \in worked
      BY <1>5, <2>3 DEF UserList!Listed
    <3>3. inherited = direct("worker", WorkerOf[id])
      BY <2>3 DEF UserList!Inherited
    <3>4. id \in worked <=> direct("worker", WorkerOf[id]) # {}
      BY <1>1, <3>1
    <3>5. access # "none" <=> direct("tenant", id) # {} \/ direct("worker", WorkerOf[id]) # {}
      BY <2>1, <2>3, <3>3
    <3>6. listed <=> access # "none"
      BY <1>1, <3>2, <3>4, <3>5
    <3> QED BY <1>2, <1>5, <3>6
  <2>4. CASE type = "gateway"
    <3>1. listed => \/ id \in ids("gateway")
                    \/ TenantOf[id] \in ids("tenant")
                    \/ TenantOf[id] \in worked
      BY <1>5, <2>4 DEF UserList!Listed
    <3>2. inherited = direct("tenant", TenantOf[id]) \cup direct("worker", WorkerOf[TenantOf[id]])
      BY <2>4 DEF UserList!Inherited
    <3>3. TenantOf[id] \in worked => direct("worker", WorkerOf[TenantOf[id]]) # {}
      BY <1>1
    <3>4. access # "none" <=> \/ direct("gateway", id) # {}
                             \/ direct("tenant", TenantOf[id]) # {}
                             \/ direct("worker", WorkerOf[TenantOf[id]]) # {}
      BY <2>1, <2>4, <3>2
    <3>5. listed => access # "none"
      BY <1>1, <3>1, <3>3, <3>4
    <3> QED BY <1>2, <1>5, <2>4, <3>5
  <2> QED BY <2>2, <2>3, <2>4 DEF UserList!ScopeTypes
<1> QED BY <1>3, <1>4, <1>5 DEF UserList!Roles

LEMMA UsersTyped ==
  ASSUME UsersInv
  PROVE  /\ UserList!TypeOK /\ UserList!ListedCanBeOpened /\ UserList!GrantsNameTheirType
         /\ UserList!RestingPageShowsTheRecord
<1> USE DEF UsersInv
<1>1. UserList!TypeOK
  <2>1. /\ screen.users \subseteq Accts /\ screen.grants \subseteq UserGrants
        /\ screen.selected \in MaybeUser /\ screen.options \subseteq Found
        /\ backend.grants \subseteq UserGrants /\ backend.users \subseteq Accts
    BY DEF UsersTypes, UsersScreens, UsersBackends
  <2> QED BY <2>1 DEF UserList!TypeOK, UserGrants, MaybeUser, Found, UserList!Nobody
<1>2. UserList!ListedCanBeOpened
  <2> SUFFICES ASSUME NEW u \in backend.users, NEW type \in UserList!ScopeTypes,
                      backend.role[u] = "viewer" =>
                        \A g \in UserList!GrantsOf(u) : g.level = "view",
                      NEW id \in backend.existing \cap UserList!OfType(type)
               PROVE  LET role == backend.role[u]
                          may == UserList!MayOpen(role, backend.grants, u, type, id,
                                                  backend.existing)
                      IN  /\ id \in UserList!Listed(role, backend.grants, u, type, backend.existing)
                               => may
                          /\ UserList!EffectiveAccess(role, backend.grants, u, type, id) # "none"
                               => may
    BY DEF UserList!ListedCanBeOpened
  <2>1. backend.role[u] \in UserList!Roles
    BY DEF UsersTypes, UsersBackends
  <2>2. backend.role[u] = "viewer" =>
          \A g \in backend.grants : g.user = u => g.level = "view"
    BY DEF UserList!GrantsOf
  <2> QED BY <2>1, <2>2, UsersListedOpen
<1>3. UserList!GrantsNameTheirType
  BY DEF UsersFacts, UsersRecord, UserList!GrantsNameTheirType
<1>4. ASSUME backend.ordered, wires = <<>> PROVE screen.users = backend.users
  <2>1. Len(wires) = 0
    BY <1>4
  <2>2. \A u \in Accts : u \in screen.users <=> u \in backend.users
    BY <1>4, <2>1 DEF UsersOrdered, UsersListed
  <2> QED BY <2>2 DEF UsersTypes, UsersScreens, UsersBackends
<1>5. ASSUME backend.ordered, wires = <<>>, screen.selected \in screen.users
      PROVE  /\ UserList!GrantsOf(screen.selected) \subseteq screen.grants
             /\ \A g \in screen.grants : \E h \in UserList!GrantsOf(screen.selected) :
                  UserList!SameKey(g, h)
  <2>1. Len(wires) = 0
    BY <1>5
  <2>2. screen.selected # "none"
    BY <1>5, UsersConstants DEF UsersTypes, UsersScreens
  <2>3. \A x \in UserGrants : x.user = screen.selected => UsersAgree(screen.grants, x)
    BY <1>5, <2>1, <2>2 DEF UsersOrdered, UsersGranted, UsersKnown
  <2>4. \A g \in screen.grants : g.user = screen.selected
    BY <1>5, <2>1, <2>2 DEF UsersOrdered, UsersSelected
  <2>5. screen.grants \subseteq UserGrants /\ backend.grants \subseteq UserGrants
    BY DEF UsersTypes, UsersScreens, UsersBackends
  <2>6. \A h \in UserList!GrantsOf(screen.selected) : h \in screen.grants
    BY <2>3, <2>5 DEF UserList!GrantsOf, UsersAgree, UserList!SameKey
  <2>7. ASSUME NEW g \in screen.grants
        PROVE  \E h \in UserList!GrantsOf(screen.selected) : UserList!SameKey(g, h)
    <3>1. PICK h \in backend.grants : UserList!SameKey(h, g)
      BY <2>3, <2>4, <2>5 DEF UsersAgree, UserList!SameKey
    <3> QED BY <2>4, <3>1 DEF UserList!GrantsOf, UserList!SameKey
  <2> QED BY <2>6, <2>7
<1> QED BY <1>1, <1>2, <1>3, <1>4, <1>5 DEF UserList!RestingPageShowsTheRecord

LEMMA UsersInitially == ASSUME UserList!Init PROVE UsersInv
<1> DEFINE r == UserList!Request("users", "none", "tenant", "none", "view")
           o == UserList!Request("options", "none", "tenant", "none", "view")
<1>1. \A w \in {r, o} : w \in UsersWires /\ UsersWell(w) /\ w.served = FALSE
  <2>1. "none" \in MaybeUser /\ "none" \in UsersIds
    BY DEF MaybeUser, UsersIds
  <2>2. ASSUME NEW op \in {"users", "options"}
        PROVE  LET w == UserList!Request(op, "none", "tenant", "none", "view")
               IN  w \in UsersWires /\ UsersWell(w) /\ w.served = FALSE
    BY <2>1 DEF UserList!Request, UsersWires, UsersOps, UsersWell, UserList!ScopeTypes,
                UserList!AccessLevels
  <2> QED BY <2>2
<1>2. r.op = "users" /\ o.op = "options"
  BY DEF UserList!Request
<1>3. wires = <<r, o>>
  BY DEF UserList!Init, UserList!Nobody
<1> HIDE DEF r, o
<1>4. wires \in Seq(UsersWires) /\ Len(wires) = 2 /\ wires[1] = r /\ wires[2] = o
  BY <1>1, <1>3
<1>5. \A i \in 1..Len(wires) : i = 1 \/ i = 2
  BY <1>4
<1>6. screen \in UsersScreens /\ screen.loading = TRUE /\ screen.selected = "none"
  BY DEF UserList!Init, UsersScreens, MaybeUser, MaybeFound, UserList!ScopeTypes, UserList!Nobody
<1>7. PICK inOrder \in BOOLEAN, others \in 0..1, granted \in SUBSET UserList!Grants(Accts \ Later) :
        /\ \A g, h \in granted : g = h
        /\ \A g \in granted :
             g.type = "worker" /\ UserList!ValidGrant("editor", g, UserList!Resources)
        /\ inOrder => others = 0
        /\ backend = [users |-> Accts \ Later, grants |-> granted,
                      existing |-> UserList!Resources,
                      role |-> [u \in Accts |-> IF u \in Later THEN "viewer" ELSE "editor"],
                      ordered |-> inOrder, others |-> others]
  BY DEF UserList!Init
<1>8. granted \subseteq UserGrants /\ \A g \in granted : g.user \in Accts \ Later
  BY DEF UserGrants, UserList!Grants
<1>9. backend \in UsersBackends
  <2>1. [u \in Accts |-> IF u \in Later THEN "viewer" ELSE "editor"] \in [Accts -> UserList!Roles]
    BY DEF UserList!Roles
  <2> QED BY <1>7, <1>8, <2>1 DEF UsersBackends, Found
<1>10. /\ \A g \in backend.grants : g.user \in backend.users /\ g.id \in UserList!OfType(g.type)
       /\ \A g, h \in backend.grants : g = h
       /\ backend.ordered => backend.others = 0
  BY <1>7, <1>8 DEF UserList!ValidGrant, UserList!ScopeExists
<1>11. UsersTypes
  BY <1>4, <1>6, <1>9 DEF UsersTypes
<1>12. UsersFacts
  BY <1>1, <1>4, <1>5, <1>10 DEF UsersFacts, UsersRecord
<1>13. UsersOrder
  BY <1>1, <1>4, <1>5 DEF UsersOrder
<1>14. UsersListed
  BY <1>1, <1>2, <1>4, <1>5, <1>6 DEF UsersListed
<1>15. UsersSelected /\ UsersGranted
  BY <1>6 DEF UsersSelected, UsersGranted
<1> QED BY <1>11, <1>12, <1>13, <1>14, <1>15 DEF UsersInv, UsersOrdered


-----------------------------------------------------------------------------
(* What the server does with a request.                                    *)

UsersServed(r, o) ==
  /\ o.ok \in BOOLEAN /\ o.data \subseteq UsersData /\ o.backend \in UsersBackends
  /\ o.backend.ordered = backend.ordered /\ o.backend.others = backend.others
  /\ r.op \notin {"adduser", "deluser"} => o.backend.users = backend.users
  /\ r.op \in {"users", "grants", "options", "adduser"} => o.backend.grants = backend.grants
  /\ r.op = "users" => o.ok = TRUE /\ o.data = backend.users
  /\ r.op = "grants" => o.data = UserList!GrantsOf(r.user) /\ (o.ok # TRUE => o.data = {})
  /\ r.op = "options" => o.data \subseteq Found
  /\ r.op = "adduser" =>
       /\ o.data = {r.user} /\ o.backend.users = backend.users \cup {r.user}
       /\ o.ok # TRUE => o.backend.users = backend.users
  /\ r.op = "deluser" =>
       /\ o.backend.users = backend.users \ {r.user}
       /\ o.backend.grants = {g \in backend.grants : g.user # r.user}
       /\ o.ok # TRUE => o.backend.users = backend.users /\ o.backend.grants = backend.grants
  /\ r.op = "grant" =>
       /\ o.ok # TRUE => o.backend.grants = backend.grants
       /\ o.ok = TRUE =>
            /\ o.data = {GrantAsked(r)} /\ r.user \in backend.users
            /\ r.id \in UserList!OfType(r.type)
            /\ o.backend.grants =
                 {h \in backend.grants : ~UserList!SameKey(GrantAsked(r), h)} \cup {GrantAsked(r)}
  /\ r.op = "revoke" =>
       /\ o.backend.grants = {h \in backend.grants : ~UserList!SameKey(h, GrantAsked(r))}
       /\ o.ok # TRUE => o.backend.grants = backend.grants

LEMMA UsersOutcome ==
  ASSUME UsersTypes, UsersRecord, NEW r \in UsersWires, UsersWell(r), NEW o,
         o = UserList!Outcome(r)
  PROVE  UsersServed(r, o)
<1> USE DEF UsersTypes
<1> DEFINE listed == r.user \in backend.users
           wanted == GrantAsked(r)
           mine == UserList!GrantsOf(r.user)
           same(b, d) == [ok |-> b, data |-> d,
                          backend |-> [backend EXCEPT !.users = backend.users,
                                                      !.grants = backend.grants]]
<1>1. /\ backend \in UsersBackends /\ backend.users \subseteq Accts
      /\ backend.grants \subseteq UserGrants /\ backend.existing \subseteq Found
  BY DEF UsersBackends
<1>2. /\ mine = {g \in backend.grants : g.user = r.user} /\ (~listed => mine = {})
      /\ Found \subseteq UsersData /\ Accts \subseteq UsersData /\ UserGrants \subseteq UsersData
  BY DEF UserList!GrantsOf, UsersRecord, UsersData
<1>3. [backend EXCEPT !.users = backend.users, !.grants = backend.grants] = backend
  BY DEF UsersBackends
<1>4. r.op \in UsersOps
  BY DEF UsersWires
<1> HIDE DEF mine
<1>5. CASE r.op = "users"
  <2>1. o = same(TRUE, backend.users)
    BY <1>5 DEF UserList!Outcome
  <2>2. o.ok = TRUE /\ o.data = backend.users /\ o.backend = backend
    BY <1>3, <2>1
  <2> QED BY <1>1, <1>2, <1>5, <2>2 DEF UsersServed
<1>6. CASE r.op = "grants"
  <2>1. o = same(listed, mine)
    BY <1>6 DEF UserList!Outcome, mine
  <2>2. o.ok = listed /\ o.data = mine /\ o.backend = backend
    <3> HIDE DEF listed
    <3> QED BY <1>3, <2>1
  <2>3. o.data \subseteq UsersData
    BY <1>1, <1>2, <2>2
  <2>4. o.ok \in BOOLEAN /\ (o.ok # TRUE => mine = {})
    <3>1. listed \in BOOLEAN
      OBVIOUS
    <3>2. ~listed => mine = {}
      BY <1>2
    <3> HIDE DEF listed
    <3> QED BY <2>2, <3>1, <3>2
  <2> HIDE DEF listed
  <2> QED BY <1>1, <1>6, <2>2, <2>3, <2>4 DEF UsersServed, mine
<1>7. CASE r.op = "options"
  <2>1. o = same(TRUE, backend.existing \cap UserList!OfType(r.type))
    BY <1>7 DEF UserList!Outcome
  <2>2. /\ o.ok = TRUE /\ o.data = backend.existing \cap UserList!OfType(r.type)
        /\ o.backend = backend
    BY <1>3, <2>1
  <2> QED BY <1>1, <1>2, <1>7, <2>2 DEF UsersServed
<1>8. CASE r.op = "adduser"
  <2> DEFINE U == backend.users \cup {r.user}
             fresh == ~listed
             b == [backend EXCEPT !.users = U, !.grants = backend.grants]
  <2>1. o = [ok |-> fresh, data |-> {r.user}, backend |-> b]
    BY <1>8 DEF UserList!Outcome
  <2>2. r.user \in Accts /\ U \subseteq Accts
    BY <1>1, <1>8 DEF UsersWell
  <2>3. o.ok = fresh /\ o.data = {r.user} /\ o.backend = b
    <3> HIDE DEF fresh, b
    <3> QED BY <2>1
  <2>4. /\ b \in UsersBackends /\ b.users = U /\ b.grants = backend.grants
        /\ b.others = backend.others /\ b.ordered = backend.ordered
    <3> HIDE DEF U
    <3> QED BY <1>1, <2>2 DEF UsersBackends
  <2>5. o.ok # TRUE => U = backend.users
    BY <2>3
  <2>6. o.ok \in BOOLEAN /\ o.data \subseteq UsersData
    BY <1>2, <2>2, <2>3
  <2> HIDE DEF b
  <2> QED BY <1>8, <2>3, <2>4, <2>5, <2>6 DEF UsersServed
<1>9. CASE r.op = "deluser"
  <2> DEFINE U == backend.users \ {r.user}
             G == backend.grants \ mine
             b == [backend EXCEPT !.users = U, !.grants = G]
  <2>1. o = [ok |-> listed, data |-> {}, backend |-> b]
    BY <1>9 DEF UserList!Outcome, mine
  <2>2. U \subseteq Accts /\ G \subseteq UserGrants
    BY <1>1
  <2>3. o.ok = listed /\ o.data = {} /\ o.backend = b
    <3> HIDE DEF listed, b
    <3> QED BY <2>1
  <2>4. /\ b \in UsersBackends /\ b.users = U /\ b.grants = G
        /\ b.others = backend.others /\ b.ordered = backend.ordered
    <3> HIDE DEF U, G
    <3> QED BY <1>1, <2>2 DEF UsersBackends
  <2>5. G = {g \in backend.grants : g.user # r.user}
    BY <1>2
  <2>6. o.ok # TRUE => U = backend.users /\ G = backend.grants
    BY <1>2, <2>3
  <2>7. o.ok \in BOOLEAN /\ o.data \subseteq UsersData
    BY <2>3
  <2> HIDE DEF b, U, G
  <2>8. U = backend.users \ {r.user}
    BY DEF U
  <2> QED BY <1>9, <2>3, <2>4, <2>5, <2>6, <2>7, <2>8 DEF UsersServed
<1>10. CASE r.op = "grant"
  <2> DEFINE fits == listed /\ UserList!ValidGrant(backend.role[r.user], wanted, backend.existing)
             G == {h \in backend.grants : ~UserList!SameKey(wanted, h)} \cup {wanted}
             b == [backend EXCEPT !.users = backend.users, !.grants = G]
  <2>1. o = IF fits THEN [ok |-> TRUE, data |-> {wanted}, backend |-> b] ELSE same(FALSE, {})
    BY <1>10 DEF UserList!Outcome, UserList!CreateGrant, GrantAsked
  <2>2. wanted \in UserGrants
    BY <1>10 DEF UsersWell, UsersWires, GrantAsked, UserGrants, UserList!Grants, Found
  <2>3. CASE fits
    <3>1. o = [ok |-> TRUE, data |-> {wanted}, backend |-> b]
      BY <2>1, <2>3
    <3>2. o.ok = TRUE /\ o.data = {wanted} /\ o.backend = b
      <4> HIDE DEF b, wanted
      <4> QED BY <3>1
    <3>3. r.id \in UserList!OfType(r.type) /\ r.user \in backend.users
      BY <2>3 DEF UserList!ValidGrant, UserList!ScopeExists, GrantAsked
    <3>4. /\ b \in UsersBackends /\ b.users = backend.users /\ b.grants = G
          /\ b.others = backend.others /\ b.ordered = backend.ordered
      <4>1. G \subseteq UserGrants
        BY <1>1, <2>2
      <4> HIDE DEF G
      <4> QED BY <1>1, <4>1 DEF UsersBackends
    <3>5. o.data \subseteq UsersData
      BY <1>2, <2>2, <3>2
    <3> HIDE DEF b
    <3> QED BY <1>10, <3>2, <3>3, <3>4, <3>5 DEF UsersServed
  <2>4. CASE ~fits
    <3>1. o = same(FALSE, {})
      BY <2>1, <2>4
    <3>2. o.ok = FALSE /\ o.data = {} /\ o.backend = backend
      BY <1>3, <3>1
    <3> QED BY <1>1, <1>10, <3>2 DEF UsersServed
  <2> QED BY <2>3, <2>4
<1>11. CASE r.op = "revoke"
  <2> DEFINE G == {h \in backend.grants : ~UserList!SameKey(h, wanted)}
             there == \E g \in backend.grants : UserList!SameKey(g, wanted)
             b == [backend EXCEPT !.users = backend.users, !.grants = G]
  <2>1. o = [ok |-> there, data |-> {}, backend |-> b]
    BY <1>11 DEF UserList!Outcome, GrantAsked
  <2>2. G \subseteq UserGrants
    BY <1>1
  <2>3. o.ok = there /\ o.data = {} /\ o.backend = b
    <3> HIDE DEF there, b
    <3> QED BY <2>1
  <2>4. /\ b \in UsersBackends /\ b.users = backend.users /\ b.grants = G
        /\ b.others = backend.others /\ b.ordered = backend.ordered
    <3> HIDE DEF G
    <3> QED BY <1>1, <2>2 DEF UsersBackends
  <2>5. o.ok # TRUE => G = backend.grants
    BY <2>3
  <2>6. o.ok \in BOOLEAN /\ o.data \subseteq UsersData
    BY <2>3
  <2> HIDE DEF b, there
  <2> QED BY <1>11, <2>3, <2>4, <2>5, <2>6 DEF UsersServed
<1> QED BY <1>4, <1>5, <1>6, <1>7, <1>8, <1>9, <1>10, <1>11 DEF UsersOps

\* The record stays in order.
LEMMA UsersRecordKept ==
  ASSUME UsersTypes, UsersRecord, NEW r \in UsersWires, NEW o, UsersServed(r, o),
         backend' = o.backend
  PROVE  UsersRecord'
<1> DEFINE U == o.backend.users
           G == o.backend.grants
           wanted == GrantAsked(r)
<1>1. /\ \A g \in backend.grants : g.user \in backend.users /\ g.id \in UserList!OfType(g.type)
      /\ \A g, h \in backend.grants : UserList!SameKey(g, h) => g = h
      /\ backend.ordered => backend.others = 0
  BY DEF UsersRecord
<1>2. o.backend.ordered => o.backend.others = 0
  BY <1>1 DEF UsersServed
<1>3. wanted.user = r.user /\ wanted.id = r.id /\ wanted.type = r.type
  BY DEF GrantAsked
<1>4. \A g, h : UserList!SameKey(g, h) <=> UserList!SameKey(h, g)
  BY DEF UserList!SameKey
<1>5. /\ \A g \in G : g.user \in U /\ g.id \in UserList!OfType(g.type)
      /\ \A g, h \in G : UserList!SameKey(g, h) => g = h
  <2>1. CASE r.op \in {"users", "grants", "options", "adduser"}
    BY <1>1, <2>1 DEF UsersServed
  <2>2. CASE r.op = "deluser"
    <3>1. U = backend.users \ {r.user} /\ G = {g \in backend.grants : g.user # r.user}
      BY <2>2 DEF UsersServed
    <3> QED BY <1>1, <3>1
  <2>3. CASE r.op = "revoke"
    <3>1. U = backend.users /\ G \subseteq backend.grants
      BY <2>3 DEF UsersServed
    <3> QED BY <1>1, <3>1
  <2>4. CASE r.op = "grant" /\ o.ok # TRUE
    BY <1>1, <2>4 DEF UsersServed
  <2>5. CASE r.op = "grant" /\ o.ok = TRUE
    <3>1. /\ U = backend.users /\ r.user \in U /\ r.id \in UserList!OfType(r.type)
          /\ G = {h \in backend.grants : ~UserList!SameKey(wanted, h)} \cup {wanted}
      BY <2>5 DEF UsersServed
    <3> HIDE DEF wanted, U, G
    <3> QED BY <1>1, <1>3, <1>4, <3>1
  <2> QED BY <2>1, <2>2, <2>3, <2>4, <2>5 DEF UsersWires, UsersOps
<1> QED BY <1>2, <1>5 DEF UsersRecord

-----------------------------------------------------------------------------
(* What a reply does to the page.                                          *)

UsersGone(r) == r.op = "deluser" /\ r.ok = TRUE /\ r.id = r.user

UsersShows(r, s) ==
  /\ s \in UsersScreens
  /\ IF UsersGone(r) THEN s.selected = "none" ELSE s.selected = screen.selected
  /\ r.op # "users" => s.loading = screen.loading
  /\ r.op = "users" /\ r.ok = TRUE => s.users = r.data
  /\ r.op \notin {"users", "adduser", "deluser"} => s.users = screen.users
  /\ r.op = "adduser" => s.users = IF r.ok = TRUE THEN screen.users \cup {r.user} ELSE screen.users
  /\ r.op = "deluser" => s.users = IF r.ok = TRUE THEN screen.users \ {r.user} ELSE screen.users
  /\ r.op = "grants" => s.grants = UsersBrought(r)
  /\ r.op = "grant" /\ r.ok = TRUE => s.grants = screen.grants \cup {GrantAsked(r)}
  /\ r.op = "revoke" /\ r.ok = TRUE =>
       s.grants = {g \in screen.grants : ~UserList!SameKey(g, r)}
  /\ r.op # "grants" /\ ~UsersGone(r) /\ ~(r.op \in {"grant", "revoke"} /\ r.ok = TRUE) =>
       s.grants = screen.grants

LEMMA UsersShown ==
  ASSUME screen \in UsersScreens, NEW r \in UsersWires, UsersWell(r), r.served = TRUE, NEW s,
         s = UserList!Shown(r)
  PROVE  UsersShows(r, s)
<1>1. /\ r.ok \in BOOLEAN /\ r.op \in UsersOps /\ screen.users \subseteq Accts
      /\ screen.grants \subseteq UserGrants /\ screen.loading \in BOOLEAN
      /\ screen.submitting \in BOOLEAN /\ screen.selected \in MaybeUser
      /\ screen.scopeId \in MaybeFound
  BY DEF UsersWires, UsersScreens
<1>2. "none" \in MaybeUser /\ "none" \in MaybeFound
  BY DEF MaybeUser, MaybeFound
<1>3. CASE r.op = "users"
  <2> DEFINE U == IF r.ok THEN r.data ELSE screen.users
  <2>1. s = [screen EXCEPT !.loading = FALSE, !.users = U]
    BY <1>3 DEF UserList!Shown, UserList!Changing
  <2>2. U \subseteq Accts /\ (r.ok = TRUE => U = r.data)
    BY <1>1, <1>3 DEF UsersWell
  <2> HIDE DEF U
  <2>3. /\ s \in UsersScreens /\ s.users = U /\ s.selected = screen.selected
        /\ s.grants = screen.grants
    BY <2>1, <2>2 DEF UsersScreens
  <2> QED BY <1>3, <2>2, <2>3 DEF UsersShows, UsersGone
<1>4. CASE r.op = "grants"
  <2> DEFINE G == IF r.ok THEN r.data ELSE {}
  <2>1. s = [screen EXCEPT !.grants = G, !.grantsLoading = FALSE]
    BY <1>4 DEF UserList!Shown, UserList!Changing
  <2>2. G \subseteq UserGrants /\ G = UsersBrought(r)
    BY <1>4 DEF UsersWell, UsersBrought
  <2> HIDE DEF G
  <2>3. /\ s \in UsersScreens /\ s.users = screen.users /\ s.selected = screen.selected
        /\ s.grants = G /\ s.loading = screen.loading
    BY <2>1, <2>2 DEF UsersScreens
  <2> QED BY <1>4, <2>2, <2>3 DEF UsersShows, UsersGone
<1>5. CASE r.op = "options"
  <2> DEFINE O == r.data
             id == UserList!Settled(O, screen.scopeId)
  <2>1. s = [screen EXCEPT !.options = O, !.scopeId = id]
    BY <1>5 DEF UserList!Shown, UserList!Changing
  <2>2. O \subseteq Found
    BY <1>5 DEF UsersWell
  <2> HIDE DEF O
  <2>3. id \in MaybeFound
    <3>1. CASE O = {}
      BY <1>2, <3>1 DEF UserList!Settled, UserList!Nobody
    <3>2. CASE O # {} /\ screen.scopeId \in O
      BY <1>1, <3>2 DEF UserList!Settled
    <3>3. CASE O # {} /\ screen.scopeId \notin O
      <4>1. id = CHOOSE x \in O : TRUE
        BY <3>3 DEF UserList!Settled
      <4>2. (CHOOSE x \in O : TRUE) \in O
        BY <3>3
      <4> HIDE DEF id
      <4> QED BY <2>2, <4>1, <4>2 DEF MaybeFound
    <3> QED BY <3>1, <3>2, <3>3
  <2> HIDE DEF id
  <2>4. /\ s \in UsersScreens /\ s.users = screen.users /\ s.selected = screen.selected
        /\ s.grants = screen.grants /\ s.loading = screen.loading
    BY <2>1, <2>2, <2>3 DEF UsersScreens
  <2> QED BY <1>5, <2>4 DEF UsersShows, UsersGone
<1>6. CASE r.op \in {"adduser", "deluser", "grant", "revoke"} /\ r.ok # TRUE
  <2> DEFINE b == screen.submitting /\ r.op \in {"deluser", "revoke"}
  <2>1. s = [screen EXCEPT !.submitting = b]
    BY <1>1, <1>6 DEF UserList!Shown, UserList!Changing
  <2>2. b \in BOOLEAN
    OBVIOUS
  <2> HIDE DEF b
  <2>3. /\ s \in UsersScreens /\ s.users = screen.users /\ s.selected = screen.selected
        /\ s.grants = screen.grants /\ s.loading = screen.loading
    BY <2>1, <2>2 DEF UsersScreens
  <2> QED BY <1>6, <2>3 DEF UsersShows, UsersGone
<1>7. CASE r.op = "adduser" /\ r.ok = TRUE
  <2> DEFINE U == screen.users \cup r.data
  <2>1. s = [screen EXCEPT !.submitting = FALSE, !.users = U]
    BY <1>7 DEF UserList!Shown, UserList!UserCreated
  <2>2. r.data = {r.user} /\ r.user \in Accts
    BY <1>7 DEF UsersWell
  <2>3. U \subseteq Accts /\ U = screen.users \cup {r.user}
    BY <1>1, <2>2
  <2> HIDE DEF U
  <2>4. /\ s \in UsersScreens /\ s.users = U /\ s.selected = screen.selected
        /\ s.grants = screen.grants /\ s.loading = screen.loading
    BY <2>1, <2>3 DEF UsersScreens
  <2> QED BY <1>7, <2>3, <2>4 DEF UsersShows, UsersGone
<1>8. CASE r.op = "deluser" /\ r.ok = TRUE
  <2> DEFINE U == screen.users \ {r.user}
             who == IF r.id = r.user THEN "none" ELSE screen.selected
             G == IF r.id = r.user THEN {} ELSE screen.grants
  <2>1. s = [screen EXCEPT !.users = U, !.selected = who, !.grants = G]
    BY <1>8 DEF UserList!Shown, UserList!UserDeleted, UserList!Nobody
  <2>2. U \subseteq Accts /\ who \in MaybeUser /\ G \subseteq UserGrants
    BY <1>1, <1>2
  <2> HIDE DEF U, who, G
  <2>3. /\ s \in UsersScreens /\ s.users = U /\ s.selected = who
        /\ s.grants = G /\ s.loading = screen.loading
    BY <2>1, <2>2 DEF UsersScreens
  <2> QED BY <1>8, <2>3 DEF UsersShows, UsersGone, U, who, G
<1>9. CASE r.op = "grant" /\ r.ok = TRUE
  <2> DEFINE G == screen.grants \cup r.data
  <2>1. s = [screen EXCEPT !.submitting = FALSE, !.grants = G]
    BY <1>9 DEF UserList!Shown, UserList!GrantCreated
  <2>2. r.data = {GrantAsked(r)} /\ GrantAsked(r) \in UserGrants
    BY <1>9 DEF UsersWell, UsersWires, GrantAsked, UserGrants, UserList!Grants, Found
  <2>3. G \subseteq UserGrants /\ G = screen.grants \cup {GrantAsked(r)}
    BY <1>1, <2>2
  <2> HIDE DEF G
  <2>4. /\ s \in UsersScreens /\ s.users = screen.users /\ s.selected = screen.selected
        /\ s.grants = G /\ s.loading = screen.loading
    BY <2>1, <2>3 DEF UsersScreens
  <2> QED BY <1>9, <2>3, <2>4 DEF UsersShows, UsersGone
<1>10. CASE r.op = "revoke" /\ r.ok = TRUE
  <2> DEFINE G == {g \in screen.grants : ~(g.user = r.user /\ g.type = r.type /\ g.id = r.id)}
  <2>1. s = [screen EXCEPT !.grants = G]
    BY <1>10 DEF UserList!Shown, UserList!GrantRemoved
  <2>2. G \subseteq UserGrants /\ G = {g \in screen.grants : ~UserList!SameKey(g, r)}
    BY <1>1 DEF UserList!SameKey
  <2> HIDE DEF G
  <2>3. /\ s \in UsersScreens /\ s.users = screen.users /\ s.selected = screen.selected
        /\ s.grants = G /\ s.loading = screen.loading
    BY <2>1, <2>2 DEF UsersScreens
  <2> QED BY <1>10, <2>2, <2>3 DEF UsersShows, UsersGone
<1> QED BY <1>1, <1>3, <1>4, <1>5, <1>6, <1>7, <1>8, <1>9, <1>10 DEF UsersOps

-----------------------------------------------------------------------------
(* The administrator asks for something.                                   *)

\* The users are on the page, and a request w is sent after the others.
UsersAsks(w) ==
  /\ w \in UsersWires /\ UsersWell(w) /\ w.served = FALSE /\ w.op # "users"
  /\ wires' = Append(wires, w) /\ backend' = backend
  /\ screen.loading = FALSE /\ screen' \in UsersScreens
  /\ screen'.users = screen.users /\ screen'.grants = screen.grants
  /\ \/ /\ w.op = "grants" /\ screen'.selected = w.user
     \/ /\ w.op # "grants" /\ screen'.selected = screen.selected
        /\ w.op = "grant" => w.user = screen.selected
        /\ w.op = "deluser" => w.id = screen.selected

LEMMA UsersAsked ==
  ASSUME UsersInv, NEW w, UsersAsks(w)
  PROVE  UsersInv'
<1> USE DEF UsersInv
<1> DEFINE n == Len(wires)
<1>1. /\ w \in UsersWires /\ UsersWell(w) /\ w.served = FALSE /\ w.op # "users"
      /\ wires' = Append(wires, w) /\ backend' = backend
      /\ screen.loading = FALSE /\ screen' \in UsersScreens
      /\ screen'.users = screen.users /\ screen'.grants = screen.grants
  BY DEF UsersAsks
<1>2. /\ wires' \in Seq(UsersWires) /\ Len(wires') = n + 1 /\ wires'[Len(wires')] = w
      /\ Len(wires') \in 1..Len(wires')
      /\ \A j \in 1..n : j \in 1..Len(wires') /\ wires'[j] = wires[j]
      /\ \A j \in 1..Len(wires') : j \in 1..n \/ (j = Len(wires') /\ wires'[j] = w)
  BY <1>1, Sent DEF UsersTypes
<1>3. n \in Nat /\ \A j \in 1..n : j < Len(wires')
  <2>1. n \in Nat
    BY DEF UsersTypes
  <2> QED BY <1>2, <2>1
<1> HIDE DEF n
<1>4. UsersTypes'
  BY <1>1, <1>2 DEF UsersTypes
<1>5. UsersFacts'
  BY <1>1, <1>2 DEF UsersFacts, UsersRecord, n
<1>6. SUFFICES ASSUME backend.ordered = TRUE
               PROVE  UsersOrder' /\ UsersListed' /\ UsersSelected' /\ UsersGranted'
  BY <1>1, <1>4, <1>5 DEF UsersOrdered, UsersTypes, UsersBackends
<1>7. UsersOrder /\ UsersListed /\ UsersSelected /\ UsersGranted
  BY <1>6 DEF UsersOrdered
<1>8. \A k \in 1..n : UsersLater(k) => UsersLater(k)'
  BY <1>2 DEF UsersLater, n
<1>9. UsersOrder'
  <2> SUFFICES ASSUME NEW i \in 1..Len(wires'), NEW j \in 1..Len(wires'), wires'[i].served, j < i
               PROVE  wires'[j].served
    BY DEF UsersOrder
  <2>1. i \in 1..n
    BY <1>1, <1>2
  <2>2. j \in 1..n
    BY <1>2, <1>3, <2>1
  <2> QED BY <1>2, <1>7, <2>1, <2>2 DEF UsersOrder, n
<1>10. UsersListed'
  <2>1. \A i \in 1..n : wires[i].op # "users"
    BY <1>1, <1>7 DEF UsersListed, n
  <2>2. \A i \in 1..Len(wires') : wires'[i].op # "users"
    BY <1>1, <1>2, <2>1
  <2>3. ASSUME NEW u \in Accts
        PROVE  /\ \A k \in 1..Len(wires') :
                    UsersChange(wires'[k], u)
                      /\ (\A j \in 1..Len(wires') : UsersChange(wires'[j], u) => j <= k) =>
                    (wires'[k].op = "adduser" <=> u \in backend'.users)
               /\ (\A k \in 1..Len(wires') : ~UsersChange(wires'[k], u)) =>
                    (u \in screen'.users <=> u \in backend'.users)
    <3>1. /\ \A k \in 1..n :
               UsersChange(wires[k], u) /\ (\A j \in 1..n : UsersChange(wires[j], u) => j <= k) =>
               (wires[k].op = "adduser" <=> u \in backend.users)
          /\ (\A k \in 1..n : ~UsersChange(wires[k], u)) =>
               (u \in screen.users <=> u \in backend.users)
      BY <1>7, <2>1 DEF UsersListed, n
    <3>2. \A k \in 1..n : UsersChange(wires'[k], u) <=> UsersChange(wires[k], u)
      BY <1>2
    <3>3. ~UsersChange(w, u)
      BY <1>1 DEF UsersChange
    <3>4. ASSUME NEW k \in 1..Len(wires'), UsersChange(wires'[k], u),
                 \A j \in 1..Len(wires') : UsersChange(wires'[j], u) => j <= k
          PROVE  wires'[k].op = "adduser" <=> u \in backend'.users
      <4>1. k \in 1..n
        BY <1>2, <3>3, <3>4
      <4>2. \A j \in 1..n : UsersChange(wires[j], u) => j <= k
        BY <1>2, <3>2, <3>4
      <4> QED BY <1>1, <1>2, <3>1, <3>2, <3>4, <4>1, <4>2
    <3>5. ASSUME \A k \in 1..Len(wires') : ~UsersChange(wires'[k], u)
          PROVE  u \in screen'.users <=> u \in backend'.users
      <4>1. \A k \in 1..n : ~UsersChange(wires[k], u)
        BY <1>2, <3>2, <3>5
      <4> QED BY <1>1, <3>1, <4>1
    <3> QED BY <3>4, <3>5
  <2> QED BY <2>2, <2>3 DEF UsersListed
<1>11. CASE w.op = "grants"
  <2>1. screen'.selected = w.user
    BY <1>11 DEF UsersAsks
  <2>2. \A k \in 1..n : UsersLater(k)'
    BY <1>2, <1>3, <1>11 DEF UsersLater
  <2>3. UsersSelected'
    <3>1. ASSUME NEW k \in 1..Len(wires')
          PROVE  /\ wires'[k].op = "grants" => wires'[k].user = screen'.selected \/ UsersLater(k)'
                 /\ wires'[k].op = "grant" => wires'[k].user = screen'.selected \/ UsersLater(k)'
                 /\ wires'[k].op = "deluser" /\ wires'[k].user = screen'.selected
                      /\ wires'[k].id # wires'[k].user => UsersLater(k)'
      BY <1>2, <1>11, <2>1, <2>2
    <3>2. ~\A k \in 1..Len(wires') : wires'[k].op # "grants"
      BY <1>2, <1>11
    <3> QED BY <3>1, <3>2 DEF UsersSelected
  <2>4. UsersWill(w, screen'.selected)
    BY <1>1, <1>11 DEF UsersWill
  <2>5. UsersGranted'
    BY <1>2, <2>4 DEF UsersGranted
  <2> QED BY <1>9, <1>10, <2>3, <2>5
<1>12. CASE w.op # "grants"
  <2> DEFINE who == screen.selected
  <2>1. /\ screen'.selected = who
        /\ w.op = "grant" => w.user = who
        /\ w.op = "deluser" => w.id = who
    BY <1>12 DEF UsersAsks
  <2> HIDE DEF who
  <2>2. \A k \in 1..n : UsersLater(k)' <=> UsersLater(k)
    BY <1>2, <1>8, <1>12 DEF UsersLater, n
  <2>3. (\A k \in 1..Len(wires') : wires'[k].op # "grants") <=>
          \A k \in 1..n : wires[k].op # "grants"
    BY <1>2, <1>12
  <2>4. UsersSelected'
    <3> SUFFICES ASSUME who # "none"
                 PROVE  /\ \A k \in 1..Len(wires') :
                             /\ wires'[k].op = "grants" => wires'[k].user = who \/ UsersLater(k)'
                             /\ wires'[k].op = "grant" => wires'[k].user = who \/ UsersLater(k)'
                             /\ wires'[k].op = "deluser" /\ wires'[k].user = who
                                  /\ wires'[k].id # wires'[k].user => UsersLater(k)'
                        /\ (\A k \in 1..Len(wires') : wires'[k].op # "grants") =>
                             \A g \in screen'.grants : g.user = who
      BY <2>1 DEF UsersSelected
    <3>1. /\ \A k \in 1..n :
               /\ wires[k].op = "grants" => wires[k].user = who \/ UsersLater(k)
               /\ wires[k].op = "grant" => wires[k].user = who \/ UsersLater(k)
               /\ wires[k].op = "deluser" /\ wires[k].user = who
                    /\ wires[k].id # wires[k].user => UsersLater(k)
          /\ (\A k \in 1..n : wires[k].op # "grants") => \A g \in screen.grants : g.user = who
      BY <1>7 DEF UsersSelected, n, who
    <3> QED BY <1>1, <1>2, <1>12, <2>1, <2>2, <2>3, <3>1
  <2>5. UsersGranted'
    <3> SUFFICES ASSUME who # "none"
                 PROVE  \/ \E k \in 1..Len(wires') : UsersWill(wires'[k], who)
                        \/ \A x \in UserGrants : x.user = who => UsersKnown(x)'
      BY <2>1 DEF UsersGranted
    <3>1. CASE \E k \in 1..n : UsersWill(wires[k], who)
      BY <1>2, <3>1
    <3>2. CASE ~\E k \in 1..n : UsersWill(wires[k], who)
      <4> SUFFICES ASSUME NEW x \in UserGrants, x.user = who PROVE UsersKnown(x)'
        OBVIOUS
      <4>1. UsersKnown(x)
        BY <1>7, <3>2 DEF UsersGranted, n, who
      <4>2. \A k \in 1..n : UsersLate(k, x)' <=> UsersLate(k, x)
        BY <1>2, <1>12 DEF UsersLate, n
      <4>3. \A k \in 1..Len(wires') : UsersLate(k, x)' => k \in 1..n
        BY <1>1, <1>2 DEF UsersLate, UsersTells
      <4>4. ASSUME NEW k \in 1..Len(wires'), UsersLate(k, x)',
                   \A j \in 1..Len(wires') : UsersLate(j, x)' => j <= k
            PROVE  UsersStands(wires[k], x)' /\ wires'[k] = wires[k]
        <5>1. k \in 1..n /\ UsersLate(k, x)
          BY <4>2, <4>3, <4>4
        <5>2. \A j \in 1..n : UsersLate(j, x) => j <= k
          BY <1>2, <4>2, <4>4
        <5>3. UsersStands(wires[k], x)
          BY <4>1, <5>1, <5>2 DEF UsersKnown, n
        <5> QED BY <1>1, <1>2, <5>1, <5>3 DEF UsersStands
      <4>5. ASSUME \A k \in 1..Len(wires') : ~UsersLate(k, x)'
            PROVE  /\ \A k \in 1..Len(wires') : wires'[k].op = "grants" /\ ~UsersLater(k)' =>
                        UsersAgree(UsersBrought(wires[k]), x)'
                   /\ (\A k \in 1..Len(wires') : wires'[k].op # "grants") =>
                        UsersAgree(screen.grants, x)'
        <5>1. \A k \in 1..n : ~UsersLate(k, x)
          BY <1>2, <4>2, <4>5
        <5>2. /\ \A k \in 1..n : wires[k].op = "grants" /\ ~UsersLater(k) =>
                   UsersAgree(UsersBrought(wires[k]), x)
              /\ (\A k \in 1..n : wires[k].op # "grants") => UsersAgree(screen.grants, x)
          BY <4>1, <5>1 DEF UsersKnown, n
        <5>3. ASSUME NEW k \in 1..Len(wires'), wires'[k].op = "grants", ~UsersLater(k)'
              PROVE  UsersAgree(UsersBrought(wires[k]), x)'
          <6>1. k \in 1..n /\ wires'[k] = wires[k]
            BY <1>2, <1>12, <5>3
          <6>2. UsersAgree(UsersBrought(wires[k]), x)
            BY <2>2, <5>2, <5>3, <6>1
          <6> QED BY <1>1, <6>1, <6>2 DEF UsersAgree
        <5>4. (\A k \in 1..Len(wires') : wires'[k].op # "grants") => UsersAgree(screen.grants, x)'
          BY <1>1, <2>3, <5>2 DEF UsersAgree
        <5> QED BY <5>3, <5>4
      <4> QED BY <4>4, <4>5 DEF UsersKnown
    <3> QED BY <3>1, <3>2
  <2> QED BY <1>9, <1>10, <2>4, <2>5
<1> QED BY <1>11, <1>12

-----------------------------------------------------------------------------
(* The server takes up a request.                                          *)

\* What is on record of the grants on what x names.
UsersSame(x) ==
  \A h : UserList!SameKey(h, x) => (h \in backend.grants <=> h \in backend'.grants)

LEMMA UsersSameKept ==
  ASSUME NEW x, UsersSame(x)
  PROVE  /\ \A w : w.op \in {"grant", "revoke"} /\ UserList!SameKey(w, x) /\ UsersStands(w, x) =>
              /\ w.op = "grant" => GrantAsked(w) \in backend'.grants
              /\ w.op = "revoke" => \A h \in backend'.grants : ~UserList!SameKey(h, x)
         /\ \A G : UsersAgree(G, x) =>
              /\ \A h \in backend'.grants : UserList!SameKey(h, x) => h \in G
              /\ \A g \in G : UserList!SameKey(g, x) =>
                   \E h \in backend'.grants : UserList!SameKey(h, x)
<1>1. ASSUME NEW w, w.op \in {"grant", "revoke"}, UserList!SameKey(w, x), UsersStands(w, x)
      PROVE  /\ w.op = "grant" => GrantAsked(w) \in backend'.grants
             /\ w.op = "revoke" => \A h \in backend'.grants : ~UserList!SameKey(h, x)
  <2>1. UserList!SameKey(GrantAsked(w), x)
    BY <1>1 DEF GrantAsked, UserList!SameKey
  <2> QED BY <1>1, <2>1 DEF UsersSame, UsersStands
<1>2. ASSUME NEW G, UsersAgree(G, x)
      PROVE  /\ \A h \in backend'.grants : UserList!SameKey(h, x) => h \in G
             /\ \A g \in G : UserList!SameKey(g, x) =>
                  \E h \in backend'.grants : UserList!SameKey(h, x)
  BY <1>2 DEF UsersSame, UsersAgree
<1> QED BY <1>1, <1>2

\* The i-th request is taken up, and answered as w says.
UsersTaken(i, w) ==
  /\ i \in 1..Len(wires) /\ wires[i].served = FALSE /\ w \in UsersWires /\ UsersWell(w)
  /\ w.op = wires[i].op /\ w.user = wires[i].user /\ w.type = wires[i].type /\ w.id = wires[i].id
  /\ w.level = wires[i].level /\ w.served = TRUE
  /\ wires' \in Seq(UsersWires) /\ Len(wires') = Len(wires) /\ wires'[i] = w
  /\ \A j \in 1..Len(wires) : j # i => wires'[j] = wires[j]
  /\ screen' = screen
  /\ UsersServed(wires[i], [ok |-> w.ok, data |-> w.data, backend |-> backend'])

LEMMA UsersServes ==
  ASSUME UsersTypes, UsersFacts, NEW i \in 1..Len(wires), UserList!Serve(i)
  PROVE  \E w : UsersTaken(i, w)
<1> DEFINE r == wires[i]
           o == UserList!Outcome(r)
           w == [r EXCEPT !.served = TRUE, !.ok = o.ok, !.data = o.data]
<1>1. wires \in Seq(UsersWires) /\ r \in UsersWires /\ UsersWell(r)
  BY DEF UsersTypes, UsersFacts
<1>2. /\ ~r.served /\ backend' = o.backend /\ screen' = screen
      /\ wires' = [wires EXCEPT ![i].served = TRUE, ![i].ok = o.ok, ![i].data = o.data]
  BY DEF UserList!Serve
<1>3. UsersServed(r, o)
  BY <1>1, UsersOutcome DEF UsersFacts
<1> HIDE DEF o
<1>4. r.served = FALSE
  BY <1>1, <1>2 DEF UsersWires
<1>5. o.ok \in BOOLEAN /\ o.data \subseteq UsersData
  BY <1>3 DEF UsersServed
<1>6. wires' = [wires EXCEPT ![i] = w]
  BY <1>1, <1>2
<1>7. /\ w \in UsersWires /\ w.op = r.op /\ w.user = r.user /\ w.type = r.type /\ w.id = r.id
      /\ w.level = r.level /\ w.served = TRUE /\ w.ok = o.ok /\ w.data = o.data
  <2> HIDE DEF r
  <2> QED BY <1>1, <1>5 DEF UsersWires
<1> HIDE DEF w
<1>8. UsersWell(w)
  <2> DEFINE u == w.user
             d == w.data
  <2>1. /\ r.op = "users" => d \subseteq Accts
        /\ r.op = "grants" => d \subseteq UserGrants /\ \A g \in d : g.user = u
        /\ r.op = "options" => d \subseteq Found
        /\ r.op = "adduser" => d = {u}
        /\ r.op = "grant" => (o.ok = TRUE => d = {GrantAsked(w)})
    <3>1. backend.users \subseteq Accts /\ backend.grants \subseteq UserGrants
      BY DEF UsersTypes, UsersBackends
    <3>2. GrantAsked(w) = GrantAsked(r)
      BY <1>7 DEF GrantAsked
    <3> HIDE DEF r
    <3> QED BY <1>3, <1>7, <3>1, <3>2 DEF UsersServed, UserList!GrantsOf
  <2>2. /\ r.op \in {"adduser", "deluser", "grant"} => u \in Accts
        /\ r.op = "grant" => w.id \in Found
    BY <1>1, <1>7 DEF UsersWell
  <2>3. w.ok \in BOOLEAN
    BY <1>5, <1>7
  <2> HIDE DEF r
  <2> QED BY <1>7, <2>1, <2>2, <2>3 DEF UsersWell
<1>9. /\ wires' \in Seq(UsersWires) /\ Len(wires') = Len(wires) /\ wires'[i] = w
      /\ \A j \in 1..Len(wires) : j # i => wires'[j] = wires[j]
  BY <1>1, <1>6, <1>7, Marked
<1>10. UsersServed(r, [ok |-> w.ok, data |-> w.data, backend |-> backend'])
  <2> DEFINE p == [ok |-> w.ok, data |-> w.data, backend |-> backend']
  <2>1. p.ok = o.ok /\ p.data = o.data /\ p.backend = o.backend
    BY <1>2, <1>7
  <2> HIDE DEF p, r
  <2>2. UsersServed(r, p)
    BY <1>3, <2>1 DEF UsersServed
  <2> QED BY <2>2 DEF p
<1> QED BY <1>2, <1>4, <1>7, <1>8, <1>9, <1>10 DEF UsersTaken

\* The types and the record.
LEMMA UsersTakenTyped ==
  ASSUME UsersTypes, UsersFacts, NEW i, NEW w, UsersTaken(i, w)
  PROVE  /\ UsersTypes' /\ UsersFacts'
         /\ backend'.ordered = backend.ordered
<1> DEFINE o == [ok |-> w.ok, data |-> w.data, backend |-> backend']
<1>1. i \in 1..Len(wires) /\ UsersServed(wires[i], o) /\ UsersWell(w)
  BY DEF UsersTaken
<1>2. o.backend = backend'
  OBVIOUS
<1> HIDE DEF o
<1>3. backend' \in UsersBackends /\ backend'.ordered = backend.ordered
  BY <1>1, <1>2 DEF UsersServed
<1>4. UsersTypes'
  BY <1>3 DEF UsersTypes, UsersTaken
<1>5. UsersRecord'
  <2>1. wires[i] \in UsersWires
    BY <1>1 DEF UsersTypes
  <2> QED BY <1>1, <1>2, <2>1, UsersRecordKept DEF UsersFacts
<1>6. \A j \in 1..Len(wires') : UsersWell(wires'[j])
  BY <1>1 DEF UsersTaken, UsersFacts
<1> QED BY <1>3, <1>4, <1>5, <1>6 DEF UsersFacts

\* Requests are taken up in their order, and nothing of what follows from it breaks.
LEMMA UsersTakenInOrder ==
  ASSUME UsersInv, NEW i, NEW w, UsersTaken(i, w), backend.ordered = TRUE,
         \A j \in 1..(i - 1) : wires[j].served
  PROVE  UsersOrder' /\ UsersListed' /\ UsersSelected' /\ UsersGranted'
<1> USE DEF UsersInv
<1> DEFINE n == Len(wires)
           r == wires[i]
           o == [ok |-> w.ok, data |-> w.data, backend |-> backend']
<1>1. UsersOrder /\ UsersListed /\ UsersSelected /\ UsersGranted
  BY DEF UsersOrdered
<1>2. /\ i \in 1..n /\ r.served = FALSE /\ w \in UsersWires /\ UsersWell(w)
      /\ w.op = r.op /\ w.user = r.user /\ w.type = r.type /\ w.id = r.id
      /\ w.level = r.level /\ w.served = TRUE
      /\ Len(wires') = n /\ wires'[i] = w
      /\ \A j \in 1..n : j # i => wires'[j] = wires[j]
      /\ screen' = screen
  BY DEF UsersTaken
<1>3. UsersServed(r, o) /\ o.ok = w.ok /\ o.data = w.data /\ o.backend = backend'
  BY DEF UsersTaken
<1>4. n \in Nat
  BY DEF UsersTypes
<1> HIDE DEF n, o, r
<1>5. \A j \in 1..n : j < i => wires[j].served
  BY <1>2, <1>4
<1>6. \A j \in 1..n : i < j => ~wires[j].served
  BY <1>1, <1>2 DEF UsersOrder, n, r
<1>7. \A j \in 1..n : wires'[j].served => j <= i
  BY <1>2, <1>4, <1>6
<1>8. \A j \in 1..n : /\ wires'[j].op = wires[j].op /\ wires'[j].user = wires[j].user
                      /\ wires'[j].id = wires[j].id
  BY <1>2 DEF r
<1>9. \A k \in 1..n : UsersLater(k)' <=> UsersLater(k)
  BY <1>2, <1>8 DEF UsersLater, n
<1>10. UsersOrder'
  <2> SUFFICES ASSUME NEW a \in 1..n, NEW b \in 1..n, wires'[a].served, b < a
               PROVE  wires'[b].served
    BY <1>2 DEF UsersOrder
  <2>1. b < i
    BY <1>2, <1>4, <1>7
  <2> QED BY <1>2, <1>5, <2>1
<1>11. UsersSelected'
  <2> SUFFICES ASSUME screen.selected # "none"
               PROVE  /\ \A k \in 1..n :
                           /\ wires'[k].op = "grants" =>
                                wires'[k].user = screen.selected \/ UsersLater(k)'
                           /\ wires'[k].op = "grant" =>
                                wires'[k].user = screen.selected \/ UsersLater(k)'
                           /\ wires'[k].op = "deluser" /\ wires'[k].user = screen.selected
                                /\ wires'[k].id # wires'[k].user => UsersLater(k)'
                      /\ (\A k \in 1..n : wires'[k].op # "grants") =>
                           \A g \in screen.grants : g.user = screen.selected
    BY <1>2 DEF UsersSelected
  <2>1. /\ \A k \in 1..n :
             /\ wires[k].op = "grants" => wires[k].user = screen.selected \/ UsersLater(k)
             /\ wires[k].op = "grant" => wires[k].user = screen.selected \/ UsersLater(k)
             /\ wires[k].op = "deluser" /\ wires[k].user = screen.selected
                  /\ wires[k].id # wires[k].user => UsersLater(k)
        /\ (\A k \in 1..n : wires[k].op # "grants") =>
             \A g \in screen.grants : g.user = screen.selected
    BY <1>1 DEF UsersSelected, n
  <2> QED BY <1>8, <1>9, <2>1
<1>12. UsersListed'
  <2>1. ASSUME NEW k \in 1..n, wires'[k].op = "users"
        PROVE  /\ screen.loading
               /\ \A j \in 1..n : wires'[j].op = "users" => k = j
               /\ \A j \in 1..n : wires'[j].op \in {"users", "options"}
               /\ wires'[k].served => wires'[k].ok /\ wires'[k].data = backend'.users
    <3>1. wires[k].op = "users"
      BY <1>8, <2>1
    <3>2. /\ screen.loading
          /\ \A j \in 1..n : wires[j].op = "users" => k = j
          /\ \A j \in 1..n : wires[j].op \in {"users", "options"}
          /\ wires[k].served => wires[k].ok /\ wires[k].data = backend.users
      BY <1>1, <3>1 DEF UsersListed, n
    <3>3. r.op \in {"users", "options"} /\ backend'.users = backend.users
      <4>1. r.op \in {"users", "options"}
        BY <1>2, <3>2 DEF r
      <4> QED BY <1>3, <4>1 DEF UsersServed
    <3>4. wires'[k].served => wires'[k].ok /\ wires'[k].data = backend'.users
      <4>1. CASE k = i
        <5>1. o.ok = TRUE /\ o.data = backend.users
          BY <1>3, <3>1, <4>1 DEF UsersServed, r
        <5> QED BY <1>2, <1>3, <3>3, <4>1, <5>1
      <4>2. CASE k # i
        BY <1>2, <3>2, <3>3, <4>2
      <4> QED BY <4>1, <4>2
    <3> QED BY <1>8, <3>2, <3>4
  <2>2. ASSUME \A k \in 1..n : wires'[k].op # "users", NEW u \in Accts
        PROVE  /\ \A k \in 1..n :
                    UsersChange(wires'[k], u)
                      /\ (\A j \in 1..n : UsersChange(wires'[j], u) => j <= k) =>
                    (wires'[k].op = "adduser" <=> u \in backend'.users)
               /\ (\A k \in 1..n : ~UsersChange(wires'[k], u)) =>
                    (u \in screen.users <=> u \in backend'.users)
    <3>1. /\ \A k \in 1..n :
               UsersChange(wires[k], u) /\ (\A j \in 1..n : UsersChange(wires[j], u) => j <= k) =>
               (wires[k].op = "adduser" <=> u \in backend.users)
          /\ (\A k \in 1..n : ~UsersChange(wires[k], u)) =>
               (u \in screen.users <=> u \in backend.users)
      <4>1. \A k \in 1..n : wires[k].op # "users"
        BY <1>8, <2>2
      <4> QED BY <1>1, <4>1 DEF UsersListed, n
    <3>2. w.ok \in BOOLEAN /\ r.op \in UsersOps
      BY <1>2 DEF UsersWires
    <3>3. CASE UsersChange(w, u)
      <4>1. ASSUME NEW k \in 1..n, UsersChange(wires'[k], u),
                   \A j \in 1..n : UsersChange(wires'[j], u) => j <= k
            PROVE  k = i
        <5>1. i <= k
          BY <1>2, <3>3, <4>1
        <5>2. k <= i
          BY <1>7, <4>1 DEF UsersChange
        <5> QED BY <1>2, <1>4, <5>1, <5>2
      <4>2. w.op = "adduser" <=> u \in backend'.users
        <5>1. r.op \in {"adduser", "deluser"} /\ r.user = u
          BY <1>2, <3>3 DEF UsersChange
        <5>2. /\ r.op = "adduser" => backend'.users = backend.users \cup {u}
              /\ r.op = "deluser" => backend'.users = backend.users \ {u}
          BY <1>3, <5>1 DEF UsersServed
        <5> QED BY <1>2, <5>1, <5>2
      <4> QED BY <1>2, <3>3, <4>1, <4>2
    <3>4. CASE ~UsersChange(w, u)
      <4>1. u \in backend'.users <=> u \in backend.users
        <5>1. CASE r.op \notin {"adduser", "deluser"}
          BY <1>3, <5>1 DEF UsersServed
        <5>2. CASE r.op \in {"adduser", "deluser"} /\ w.ok # TRUE
          BY <1>3, <5>2 DEF UsersServed
        <5>3. CASE r.op \in {"adduser", "deluser"} /\ w.ok = TRUE
          <6>1. r.user # u
            BY <1>2, <3>4, <5>3 DEF UsersChange
          <6>2. /\ r.op = "adduser" => backend'.users = backend.users \cup {r.user}
                /\ r.op = "deluser" => backend'.users = backend.users \ {r.user}
            BY <1>3 DEF UsersServed
          <6> QED BY <5>3, <6>1, <6>2
        <5> QED BY <5>1, <5>2, <5>3
      <4>2. \A k \in 1..n : UsersChange(wires'[k], u) <=> UsersChange(wires[k], u)
        BY <1>2, <3>4 DEF UsersChange, r
      <4> QED BY <1>8, <3>1, <4>1, <4>2
    <3> QED BY <3>3, <3>4
  <2> QED BY <1>2, <2>1, <2>2 DEF UsersListed
<1>13. UsersGranted'
  <2> DEFINE who == screen.selected
  <2> SUFFICES ASSUME who # "none", \A k \in 1..n : ~UsersWill(wires'[k], who),
                      NEW x \in UserGrants, x.user = who
               PROVE  UsersKnown(x)'
    BY <1>2 DEF UsersGranted
  <2>1. \A k \in 1..n : wires[k].op = "grants" => k <= i
    <3>1. \A k \in 1..n : wires'[k].op = "grants" => wires'[k].served
      BY DEF UsersWill
    <3> QED BY <1>7, <1>8, <3>1
  <2>2. /\ \A k \in 1..n :
             /\ wires[k].op = "grants" => wires[k].user = who \/ UsersLater(k)
             /\ wires[k].op = "grant" => wires[k].user = who \/ UsersLater(k)
             /\ wires[k].op = "deluser" /\ wires[k].user = who
                  /\ wires[k].id # wires[k].user => UsersLater(k)
    BY <1>1 DEF UsersSelected, n
  <2> HIDE DEF who
  <2>3. ~UsersLater(i)
    <3>1. \A j \in 1..n : j <= i => ~(i < j)
      BY <1>2, <1>4
    <3> QED BY <2>1, <3>1 DEF UsersLater, n
  <2>4. CASE r.op = "grants"
    <3>1. r.user = who
      BY <1>2, <2>2, <2>3, <2>4 DEF r
    <3>2. /\ w.data = UserList!GrantsOf(who) /\ (w.ok # TRUE => w.data = {})
          /\ backend'.grants = backend.grants
      BY <1>3, <2>4, <3>1 DEF UsersServed
    <3>3. UsersBrought(w) = {g \in backend'.grants : g.user = who}
      <4>1. w.ok \in BOOLEAN
        BY <1>2 DEF UsersWires
      <4> QED BY <3>2, <4>1 DEF UsersBrought, UserList!GrantsOf
    <3>4. \A k \in 1..n : ~UsersLate(k, x)'
      <4> SUFFICES ASSUME NEW k \in 1..n, UsersLate(k, x)' PROVE FALSE
        OBVIOUS
      <4>1. i < k /\ wires'[k].served
        BY <1>2, <1>8, <2>4 DEF UsersLate, UsersTells, r, n
      <4> QED BY <1>2, <1>4, <1>7, <4>1
    <3>5. ASSUME NEW k \in 1..n, wires'[k].op = "grants", ~UsersLater(k)'
          PROVE  UsersAgree(UsersBrought(wires[k]), x)'
      <4>1. ~(k < i)
        BY <1>2, <2>4, <3>5 DEF UsersLater, n
      <4>2. k = i
        BY <1>2, <1>4, <1>8, <2>1, <3>5, <4>1
      <4> QED BY <1>2, <3>3, <4>2 DEF UsersAgree, UserList!SameKey
    <3>6. ~\A k \in 1..n : wires'[k].op # "grants"
      BY <1>2, <2>4
    <3> QED BY <1>2, <3>4, <3>5, <3>6 DEF UsersKnown
  <2>5. CASE r.op # "grants"
    <3>1. UsersKnown(x)
      <4>1. \A k \in 1..n : ~UsersWill(wires[k], who)
        <5> SUFFICES ASSUME NEW k \in 1..n, UsersWill(wires[k], who) PROVE FALSE
          OBVIOUS
        <5>1. k # i
          BY <1>2, <2>5 DEF UsersWill, r
        <5> QED BY <1>2, <5>1
      <4> QED BY <1>1, <4>1 DEF UsersGranted, n, who
    <3>2. CASE UsersTells(w, x)
      <4>1. UsersLate(i, x)'
        <5>1. \A j \in 1..n : wires'[j].op = "grants" => j < i
          BY <1>2, <1>4, <1>8, <2>1, <2>5
        <5> QED BY <1>2, <3>2, <5>1 DEF UsersLate
      <4>2. UsersStands(w, x)'
        <5>1. r.op = w.op /\ w.op \in {"grant", "revoke"} /\ w.ok = TRUE /\ UserList!SameKey(w, x)
          BY <1>2, <3>2 DEF UsersTells, UsersWires
        <5>2. GrantAsked(w) = GrantAsked(r)
          BY <1>2 DEF GrantAsked
        <5>3. w.op = "grant" => GrantAsked(w) \in backend'.grants
          BY <1>3, <5>1, <5>2 DEF UsersServed
        <5>4. w.op = "revoke" => \A h \in backend'.grants : ~UserList!SameKey(h, x)
          <6>1. UserList!SameKey(GrantAsked(r), x)
            BY <5>1, <5>2 DEF GrantAsked, UserList!SameKey
          <6>2. w.op = "revoke" => \A h \in backend'.grants : ~UserList!SameKey(h, GrantAsked(r))
            BY <1>3, <5>1 DEF UsersServed
          <6> QED BY <6>1, <6>2 DEF UserList!SameKey
        <5> QED BY <5>3, <5>4 DEF UsersStands
      <4>3. ASSUME NEW k \in 1..n, UsersLate(k, x)',
                   \A j \in 1..n : UsersLate(j, x)' => j <= k
            PROVE  k = i
        <5>1. i <= k
          BY <1>2, <4>1, <4>3
        <5>2. k <= i
          BY <1>7, <4>3 DEF UsersLate, UsersTells
        <5> QED BY <1>2, <1>4, <5>1, <5>2
      <4>4. ASSUME NEW k \in 1..n, UsersLate(k, x)',
                   \A j \in 1..n : UsersLate(j, x)' => j <= k
            PROVE  UsersStands(wires[k], x)'
        BY <1>2, <4>2, <4>3, <4>4
      <4>5. ~\A k \in 1..n : ~UsersLate(k, x)'
        BY <1>2, <4>1
      <4> QED BY <1>2, <4>4, <4>5 DEF UsersKnown
    <3>3. CASE ~UsersTells(w, x)
      <4>1. UsersSame(x)
        <5>0. w.ok \in BOOLEAN /\ r.op \in UsersOps
          BY <1>2 DEF UsersWires
        <5>1. CASE r.op \in {"users", "options", "adduser"}
          BY <1>3, <5>1 DEF UsersServed, UsersSame
        <5>2. CASE r.op \in {"grant", "revoke", "deluser"} /\ w.ok # TRUE
          BY <1>3, <5>2 DEF UsersServed, UsersSame
        <5>3. CASE r.op \in {"grant", "revoke"} /\ w.ok = TRUE
          <6>1. ~UserList!SameKey(GrantAsked(r), x)
            <7>1. GrantAsked(r).user = w.user /\ GrantAsked(r).type = w.type
                  /\ GrantAsked(r).id = w.id
              BY <1>2 DEF GrantAsked
            <7> QED BY <1>2, <3>3, <5>3, <7>1 DEF UsersTells, UserList!SameKey
          <6>2. \A h : UserList!SameKey(h, x) => /\ ~UserList!SameKey(h, GrantAsked(r))
                                                /\ ~UserList!SameKey(GrantAsked(r), h)
                                                /\ h # GrantAsked(r)
            BY <6>1 DEF UserList!SameKey
          <6>3. \/ backend'.grants = {h \in backend.grants :
                                        ~UserList!SameKey(GrantAsked(r), h)} \cup {GrantAsked(r)}
                \/ backend'.grants = {h \in backend.grants :
                                        ~UserList!SameKey(h, GrantAsked(r))}
            BY <1>3, <5>3 DEF UsersServed
          <6> QED BY <6>2, <6>3 DEF UsersSame
        <5>4. CASE r.op = "deluser" /\ w.ok = TRUE
          <6>1. r.user # who
            <7>1. r.user = who => r.id = r.user
              BY <1>2, <2>2, <2>3, <5>4 DEF r
            <7>2. ~UsersWill(w, who)
              BY <1>2
            <7> QED BY <1>2, <5>4, <7>1, <7>2 DEF UsersWill
          <6>2. backend'.grants = {g \in backend.grants : g.user # r.user}
            BY <1>3, <5>4 DEF UsersServed
          <6> QED BY <6>1, <6>2 DEF UsersSame, UserList!SameKey
        <5> QED BY <2>5, <5>0, <5>1, <5>2, <5>3, <5>4 DEF UsersOps
      <4>2. \A k \in 1..n : UsersLate(k, x)' <=> UsersLate(k, x)
        <5>1. \A k \in 1..n : UsersTells(wires'[k], x) <=> UsersTells(wires[k], x)
          BY <1>2, <3>3 DEF UsersTells, r
        <5> QED BY <1>2, <1>8, <5>1 DEF UsersLate, n
      <4>3. ASSUME NEW k \in 1..n, UsersLate(k, x)',
                   \A j \in 1..n : UsersLate(j, x)' => j <= k
            PROVE  UsersStands(wires[k], x)'
        <5>1. UsersStands(wires[k], x)
          BY <3>1, <4>2, <4>3 DEF UsersKnown, n
        <5>2. UsersTells(wires[k], x)
          BY <4>2, <4>3 DEF UsersLate
        <5>3. wires'[k] = wires[k]
          BY <1>2, <5>2 DEF UsersTells, r
        <5> QED BY <4>1, <5>1, <5>2, <5>3, UsersSameKept DEF UsersStands, UsersTells
      <4>4. ASSUME \A k \in 1..n : ~UsersLate(k, x)'
            PROVE  /\ \A k \in 1..n : wires'[k].op = "grants" /\ ~UsersLater(k)' =>
                        UsersAgree(UsersBrought(wires[k]), x)'
                   /\ (\A k \in 1..n : wires'[k].op # "grants") => UsersAgree(screen.grants, x)'
        <5>1. /\ \A k \in 1..n : wires[k].op = "grants" /\ ~UsersLater(k) =>
                   UsersAgree(UsersBrought(wires[k]), x)
              /\ (\A k \in 1..n : wires[k].op # "grants") => UsersAgree(screen.grants, x)
          BY <3>1, <4>2, <4>4 DEF UsersKnown, n
        <5>2. ASSUME NEW k \in 1..n, wires'[k].op = "grants", ~UsersLater(k)'
              PROVE  UsersAgree(UsersBrought(wires[k]), x)'
          <6>1. wires'[k] = wires[k]
            BY <1>2, <2>5, <5>2
          <6>2. UsersAgree(UsersBrought(wires[k]), x)
            BY <1>8, <1>9, <5>1, <5>2
          <6> QED BY <4>1, <6>1, <6>2, UsersSameKept DEF UsersAgree
        <5>3. (\A k \in 1..n : wires'[k].op # "grants") => UsersAgree(screen.grants, x)'
          BY <1>2, <1>8, <4>1, <5>1, UsersSameKept DEF UsersAgree
        <5> QED BY <5>2, <5>3
      <4> QED BY <1>2, <4>3, <4>4 DEF UsersKnown
    <3> QED BY <3>2, <3>3
  <2> QED BY <2>4, <2>5
<1> QED BY <1>10, <1>11, <1>12, <1>13

-----------------------------------------------------------------------------
(* A reply arrives.                                                        *)

\* r, the i-th request, was answered, and its reply is shown.
UsersAnswered(i, r) ==
  /\ i \in 1..Len(wires) /\ r = wires[i] /\ r \in UsersWires /\ UsersWell(r) /\ r.served = TRUE
  /\ wires' \in Seq(UsersWires) /\ Left(wires, wires', i, 0, r)
  /\ UsersShows(r, screen') /\ backend' = backend

LEMMA UsersReplies ==
  ASSUME UsersTypes, UsersFacts, NEW i \in 1..Len(wires), UserList!Reply(i)
  PROVE  UsersAnswered(i, wires[i])
<1> DEFINE r == wires[i]
<1>1. wires \in Seq(UsersWires) /\ r \in UsersWires /\ UsersWell(r) /\ screen \in UsersScreens
  BY DEF UsersTypes, UsersFacts
<1>2. /\ r.served /\ screen' = UserList!Shown(r) /\ backend' = backend
      /\ wires' = [j \in 1..(Len(wires) - 1) |-> IF j < i THEN wires[j] ELSE wires[j + 1]]
  BY DEF UserList!Reply, UserList!Without
<1>3. r.served = TRUE
  BY <1>1, <1>2 DEF UsersWires
<1>4. UsersShows(r, screen')
  BY <1>1, <1>2, <1>3, UsersShown
<1>5. wires' \in Seq(UsersWires) /\ Dropping(wires, wires', i)
  BY <1>1, <1>2, Dropped
<1>6. wires' \in Seq(UsersWires) /\ Left(wires, wires', i, 0, r)
  <2> HIDE DEF r
  <2> QED BY <1>1, <1>5, Leaves
<1> QED BY <1>1, <1>2, <1>3, <1>4, <1>6 DEF UsersAnswered

LEMMA UsersAnsweredTyped ==
  ASSUME UsersTypes, UsersFacts, NEW i, NEW r, UsersAnswered(i, r)
  PROVE  UsersTypes' /\ UsersFacts'
<1>1. UsersTypes'
  BY DEF UsersTypes, UsersAnswered, UsersShows
<1>2. UsersRecord'
  BY DEF UsersFacts, UsersRecord, UsersAnswered
<1>3. ASSUME NEW j \in 1..Len(wires') PROVE UsersWell(wires'[j])
  <2>1. \E k \in 1..Len(wires) : wires'[j] = wires[k]
    BY DEF UsersAnswered, Left
  <2> QED BY <2>1 DEF UsersFacts
<1> QED BY <1>1, <1>2, <1>3 DEF UsersFacts

\* The reply to the oldest request.
LEMMA UsersAnsweredInOrder ==
  ASSUME UsersInv, NEW r, UsersAnswered(1, r), backend.ordered = TRUE
  PROVE  UsersOrder' /\ UsersListed' /\ UsersSelected' /\ UsersGranted'
<1> USE DEF UsersInv
<1> DEFINE n == Len(wires)
           m == Len(wires')
<1>1. UsersOrder /\ UsersListed /\ UsersSelected /\ UsersGranted
  BY DEF UsersOrdered
<1>2. /\ 1 \in 1..n /\ r = wires[1] /\ r \in UsersWires /\ UsersWell(r) /\ r.served = TRUE
      /\ UsersShows(r, screen') /\ backend' = backend
  BY DEF UsersAnswered
<1>3. n \in Nat /\ m = n - 1 /\ m \in Nat
  BY DEF UsersAnswered, Left, UsersTypes
<1>4. \A j \in 1..m : j + 1 \in 1..n /\ wires'[j] = wires[j + 1]
  <2> SUFFICES ASSUME NEW j \in 1..m PROVE j + 1 \in 1..n /\ wires'[j] = wires[j + 1]
    OBVIOUS
  <2>1. \E k \in 1..n : wires'[j] = wires[k] /\ k = IF j < 1 THEN j ELSE j + 1
    BY <1>3 DEF UsersAnswered, Left
  <2>2. ~(j < 1)
    BY <1>3
  <2> QED BY <2>1, <2>2
<1>5. \A k \in 1..n : k = 1 \/ (k - 1 \in 1..m /\ (k - 1) + 1 = k /\ wires'[k - 1] = wires[k])
  <2> SUFFICES ASSUME NEW k \in 1..n, k # 1
               PROVE  k - 1 \in 1..m /\ (k - 1) + 1 = k /\ wires'[k - 1] = wires[k]
    OBVIOUS
  <2>1. k - 1 \in 1..m /\ (k - 1) + 1 = k
    BY <1>3
  <2> QED BY <1>4, <2>1
<1>6. r.ok \in BOOLEAN /\ r.op \in UsersOps
  BY <1>2 DEF UsersWires
<1> HIDE DEF n, m
<1>7. UsersOrder'
  <2> SUFFICES ASSUME NEW a \in 1..m, NEW b \in 1..m, wires'[a].served, b < a
               PROVE  wires'[b].served
    BY DEF UsersOrder, m
  <2>1. a + 1 \in 1..n /\ b + 1 \in 1..n /\ b + 1 < a + 1
    BY <1>3, <1>4
  <2>2. wires[a + 1].served
    BY <1>4
  <2>3. wires[b + 1].served
    BY <1>1, <2>1, <2>2 DEF UsersOrder, n
  <2> QED BY <1>4, <2>3
<1>8. UsersListed'
  <2>1. ASSUME NEW k \in 1..m, wires'[k].op = "users"
        PROVE  /\ screen'.loading
               /\ \A j \in 1..m : wires'[j].op = "users" => k = j
               /\ \A j \in 1..m : wires'[j].op \in {"users", "options"}
               /\ wires'[k].served => wires'[k].ok /\ wires'[k].data = backend'.users
    <3>1. k + 1 \in 1..n /\ wires[k + 1].op = "users" /\ k + 1 # 1
      BY <1>3, <1>4, <2>1
    <3>2. /\ screen.loading
          /\ \A j \in 1..n : wires[j].op = "users" => k + 1 = j
          /\ \A j \in 1..n : wires[j].op \in {"users", "options"}
          /\ wires[k + 1].served => wires[k + 1].ok /\ wires[k + 1].data = backend.users
      BY <1>1, <3>1 DEF UsersListed, n
    <3>3. r.op # "users"
      BY <1>2, <3>1, <3>2
    <3>4. screen'.loading
      BY <1>2, <3>2, <3>3 DEF UsersShows
    <3>5. \A j \in 1..m : wires'[j].op = "users" => k = j
      <4> SUFFICES ASSUME NEW j \in 1..m, wires'[j].op = "users" PROVE k = j
        OBVIOUS
      <4>1. k + 1 = j + 1
        BY <1>4, <3>2
      <4> QED BY <1>3, <4>1
    <3> QED BY <1>2, <1>4, <3>2, <3>4, <3>5
  <2>2. ASSUME \A k \in 1..m : wires'[k].op # "users", NEW u \in Accts
        PROVE  /\ \A k \in 1..m :
                    UsersChange(wires'[k], u)
                      /\ (\A j \in 1..m : UsersChange(wires'[j], u) => j <= k) =>
                    (wires'[k].op = "adduser" <=> u \in backend'.users)
               /\ (\A k \in 1..m : ~UsersChange(wires'[k], u)) =>
                    (u \in screen'.users <=> u \in backend'.users)
    <3>1. CASE r.op = "users"
      <4>1. /\ \A j \in 1..n : wires[j].op \in {"users", "options"}
            /\ r.ok /\ r.data = backend.users
        BY <1>1, <1>2, <3>1 DEF UsersListed, n
      <4>2. \A k \in 1..m : ~UsersChange(wires'[k], u)
        BY <1>4, <4>1 DEF UsersChange
      <4>3. screen'.users = backend.users
        BY <1>2, <1>6, <3>1, <4>1 DEF UsersShows
      <4> QED BY <1>2, <4>2, <4>3
    <3>2. CASE r.op # "users"
      <4>1. \A k \in 1..n : wires[k].op # "users"
        BY <1>2, <1>5, <2>2, <3>2
      <4>2. /\ \A k \in 1..n :
                 UsersChange(wires[k], u)
                   /\ (\A j \in 1..n : UsersChange(wires[j], u) => j <= k) =>
                 (wires[k].op = "adduser" <=> u \in backend.users)
            /\ (\A k \in 1..n : ~UsersChange(wires[k], u)) =>
                 (u \in screen.users <=> u \in backend.users)
        BY <1>1, <4>1 DEF UsersListed, n
      <4>3. ASSUME NEW k \in 1..m, UsersChange(wires'[k], u),
                   \A j \in 1..m : UsersChange(wires'[j], u) => j <= k
            PROVE  wires'[k].op = "adduser" <=> u \in backend'.users
        <5>1. \A j \in 1..n : UsersChange(wires[j], u) => j <= k + 1
          <6> SUFFICES ASSUME NEW j \in 1..n, UsersChange(wires[j], u) PROVE j <= k + 1
            OBVIOUS
          <6>1. CASE j = 1
            BY <1>3, <6>1
          <6>2. CASE j # 1
            <7>1. j - 1 <= k
              BY <1>5, <4>3, <6>2
            <7> QED BY <1>3, <7>1
          <6> QED BY <6>1, <6>2
        <5>2. k + 1 \in 1..n /\ wires'[k] = wires[k + 1]
          BY <1>4
        <5> DEFINE q == k + 1
        <5> HIDE DEF q
        <5>3. wires[q].op = "adduser" <=> u \in backend.users
          BY <4>2, <4>3, <5>1, <5>2 DEF q
        <5> QED BY <1>2, <5>2, <5>3 DEF q
      <4>4. ASSUME \A k \in 1..m : ~UsersChange(wires'[k], u)
            PROVE  u \in screen'.users <=> u \in backend'.users
        <5>1. \A k \in 1..n : k = 1 \/ ~UsersChange(wires[k], u)
          BY <1>5, <4>4
        <5>2. CASE UsersChange(r, u)
          <6>1. wires[1].op = "adduser" <=> u \in backend.users
            <7>1. \A j \in 1..n : UsersChange(wires[j], u) => j <= 1
              BY <5>1
            <7> QED BY <1>2, <4>2, <5>2, <7>1
          <6>2. u \in screen'.users <=> r.op = "adduser"
            BY <1>2, <1>6, <5>2 DEF UsersChange, UsersShows
          <6> QED BY <1>2, <6>1, <6>2
        <5>3. CASE ~UsersChange(r, u)
          <6>1. u \in screen.users <=> u \in backend.users
            BY <1>2, <4>2, <5>1, <5>3
          <6>2. u \in screen'.users <=> u \in screen.users
            <7>1. CASE r.op \in {"adduser", "deluser"} /\ r.ok = TRUE
              <8>1. r.user # u
                BY <1>2, <5>3, <7>1 DEF UsersChange
              <8> QED BY <1>2, <7>1, <8>1 DEF UsersShows
            <7>2. CASE ~(r.op \in {"adduser", "deluser"} /\ r.ok = TRUE)
              BY <1>2, <3>2, <7>2 DEF UsersShows
            <7> QED BY <7>1, <7>2
          <6> QED BY <1>2, <6>1, <6>2
        <5> QED BY <5>2, <5>3
      <4> QED BY <4>3, <4>4
    <3> QED BY <3>1, <3>2
  <2> QED BY <2>1, <2>2 DEF UsersListed, m
<1>9. CASE screen'.selected = "none"
  <2>1. UsersSelected' /\ UsersGranted'
    BY <1>9 DEF UsersSelected, UsersGranted
  <2> QED BY <1>7, <1>8, <2>1
<1>10. CASE screen'.selected # "none"
  <2> DEFINE who == screen.selected
  <2>1. screen'.selected = who /\ ~UsersGone(r)
    BY <1>2, <1>10 DEF UsersShows
  <2>2. /\ \A k \in 1..n :
             /\ wires[k].op = "grants" => wires[k].user = who \/ UsersLater(k)
             /\ wires[k].op = "grant" => wires[k].user = who \/ UsersLater(k)
             /\ wires[k].op = "deluser" /\ wires[k].user = who
                  /\ wires[k].id # wires[k].user => UsersLater(k)
        /\ (\A k \in 1..n : wires[k].op # "grants") => \A g \in screen.grants : g.user = who
    BY <1>1, <1>10, <2>1 DEF UsersSelected, n
  <2>3. \/ \E k \in 1..n : UsersWill(wires[k], who)
        \/ \A x \in UserGrants : x.user = who => UsersKnown(x)
    BY <1>1, <1>10, <2>1 DEF UsersGranted, n
  <2>4. who # "none"
    BY <1>10, <2>1
  <2> HIDE DEF who
  <2>5. \A k \in 1..m : UsersLater(k)' <=> UsersLater(k + 1)
    <3> SUFFICES ASSUME NEW k \in 1..m PROVE UsersLater(k)' <=> UsersLater(k + 1)
      OBVIOUS
    <3>1. ASSUME NEW j \in 1..m, wires'[j].op = "grants", k < j
          PROVE  UsersLater(k + 1)
      <4>1. k + 1 < j + 1
        BY <1>3, <3>1
      <4> QED BY <1>4, <3>1, <4>1 DEF UsersLater, n
    <3>2. ASSUME NEW j \in 1..n, wires[j].op = "grants", k + 1 < j
          PROVE  \E b \in 1..m : wires'[b].op = "grants" /\ k < b
      <4>1. j # 1 /\ k < j - 1
        BY <1>3, <3>2
      <4> QED BY <1>5, <3>2, <4>1
    <3> QED BY <3>1, <3>2 DEF UsersLater, n, m
  <2>6. (\A k \in 1..m : wires'[k].op # "grants") =>
          \A k \in 1..n : k = 1 \/ wires[k].op # "grants"
    BY <1>5
  <2>7. (\A k \in 1..m : wires'[k].op # "grants") => ~UsersLater(1)
    BY <2>6 DEF UsersLater, n
  <2>8. UsersSelected'
    <3>1. ASSUME NEW k \in 1..m
          PROVE  /\ wires'[k].op = "grants" => wires'[k].user = who \/ UsersLater(k)'
                 /\ wires'[k].op = "grant" => wires'[k].user = who \/ UsersLater(k)'
                 /\ wires'[k].op = "deluser" /\ wires'[k].user = who
                      /\ wires'[k].id # wires'[k].user => UsersLater(k)'
      BY <1>4, <2>2, <2>5
    <3>2. ASSUME \A k \in 1..m : wires'[k].op # "grants", NEW g \in screen'.grants
          PROVE  g.user = who
      <4>1. CASE r.op = "grants"
        <5>1. r.user = who
          BY <1>2, <2>2, <2>7, <3>2, <4>1
        <5>2. g \in r.data
          BY <1>2, <1>6, <3>2, <4>1 DEF UsersShows, UsersBrought
        <5> QED BY <1>2, <4>1, <5>1, <5>2 DEF UsersWell
      <4>2. CASE r.op # "grants"
        <5>1. \A h \in screen.grants : h.user = who
          BY <1>2, <2>2, <2>6, <3>2, <4>2
        <5>2. r.op = "grant" => r.user = who
          BY <1>2, <2>2, <2>7, <3>2
        <5>3. g \in screen.grants \/ (r.op = "grant" /\ g = GrantAsked(r))
          BY <1>2, <2>1, <3>2, <4>2 DEF UsersShows
        <5> QED BY <5>1, <5>2, <5>3 DEF GrantAsked
      <4> QED BY <4>1, <4>2
    <3> QED BY <2>1, <3>1, <3>2 DEF UsersSelected, m
  <2>9. UsersGranted'
    <3>1. CASE \E k \in 1..n : UsersWill(wires[k], who)
      <4>1. PICK k \in 1..n : UsersWill(wires[k], who)
        BY <3>1
      <4>2. k # 1
        BY <1>2, <1>6, <2>1, <4>1 DEF UsersWill, UsersGone
      <4>3. k - 1 \in 1..m /\ UsersWill(wires'[k - 1], who)
        BY <1>5, <4>1, <4>2
      <4> QED BY <2>1, <4>3 DEF UsersGranted, m
    <3>2. CASE ~\E k \in 1..n : UsersWill(wires[k], who)
      <4> SUFFICES ASSUME NEW x \in UserGrants, x.user = who PROVE UsersKnown(x)'
        BY <2>1 DEF UsersGranted
      <4>1. UsersKnown(x)
        BY <2>3, <3>2
      <4>2. \A k \in 1..m : UsersLate(k, x)' <=> UsersLate(k + 1, x)
        <5> SUFFICES ASSUME NEW k \in 1..m PROVE UsersLate(k, x)' <=> UsersLate(k + 1, x)
          OBVIOUS
        <5>1. UsersTells(wires'[k], x) <=> UsersTells(wires[k + 1], x)
          BY <1>4
        <5>2. (\A j \in 1..m : wires'[j].op = "grants" => j < k) <=>
                \A j \in 1..n : wires[j].op = "grants" => j < k + 1
          <6>1. ASSUME \A j \in 1..m : wires'[j].op = "grants" => j < k,
                       NEW j \in 1..n, wires[j].op = "grants"
                PROVE  j < k + 1
            <7>1. CASE j = 1
              BY <1>3, <7>1
            <7>2. CASE j # 1
              <8>1. j - 1 < k
                BY <1>5, <6>1, <7>2
              <8> QED BY <1>3, <8>1
            <7> QED BY <7>1, <7>2
          <6>2. ASSUME \A j \in 1..n : wires[j].op = "grants" => j < k + 1,
                       NEW j \in 1..m, wires'[j].op = "grants"
                PROVE  j < k
            <7>1. j + 1 < k + 1
              BY <1>4, <6>2
            <7> QED BY <1>3, <7>1
          <6> QED BY <6>1, <6>2
        <5> QED BY <5>1, <5>2 DEF UsersLate, n, m
      <4>3. ASSUME NEW k \in 1..m, UsersLate(k, x)',
                   \A j \in 1..m : UsersLate(j, x)' => j <= k
            PROVE  UsersStands(wires[k], x)'
        <5> DEFINE q == k + 1
        <5>1. q \in 1..n /\ wires'[k] = wires[q] /\ UsersLate(q, x)
          BY <1>4, <4>2, <4>3
        <5>2. \A j \in 1..n : UsersLate(j, x) => j <= q
          <6> SUFFICES ASSUME NEW j \in 1..n, UsersLate(j, x) PROVE j <= k + 1
            OBVIOUS
          <6>1. CASE j = 1
            BY <1>3, <6>1
          <6>2. CASE j # 1
            <7>1. j - 1 <= k
              BY <1>5, <4>2, <4>3, <6>2
            <7> QED BY <1>3, <7>1
          <6> QED BY <6>1, <6>2
        <5> HIDE DEF q
        <5>3. UsersStands(wires[q], x)
          BY <4>1, <5>1, <5>2 DEF UsersKnown, n
        <5> QED BY <1>2, <5>1, <5>3 DEF UsersStands
      <4>4. ASSUME \A k \in 1..m : ~UsersLate(k, x)'
            PROVE  /\ \A k \in 1..m : wires'[k].op = "grants" /\ ~UsersLater(k)' =>
                        UsersAgree(UsersBrought(wires[k]), x)'
                   /\ (\A k \in 1..m : wires'[k].op # "grants") => UsersAgree(screen.grants, x)'
        <5>1. \A k \in 1..n : k = 1 \/ ~UsersLate(k, x)
          BY <1>5, <4>2, <4>4
        <5>2. CASE ~UsersLate(1, x)
          <6>1. /\ \A k \in 1..n : wires[k].op = "grants" /\ ~UsersLater(k) =>
                     UsersAgree(UsersBrought(wires[k]), x)
                /\ (\A k \in 1..n : wires[k].op # "grants") => UsersAgree(screen.grants, x)
            <7>1. \A k \in 1..n : ~UsersLate(k, x)
              BY <5>1, <5>2
            <7> QED BY <4>1, <7>1 DEF UsersKnown, n
          <6>2. ASSUME NEW k \in 1..m, wires'[k].op = "grants", ~UsersLater(k)'
                PROVE  UsersAgree(UsersBrought(wires[k]), x)'
            <7> DEFINE q == k + 1
            <7>1. q \in 1..n /\ wires'[k] = wires[q] /\ ~UsersLater(q)
              BY <1>4, <2>5, <6>2
            <7> HIDE DEF q
            <7>2. UsersAgree(UsersBrought(wires[q]), x)
              BY <6>1, <6>2, <7>1
            <7> QED BY <1>2, <7>1, <7>2 DEF UsersAgree
          <6>3. ASSUME \A k \in 1..m : wires'[k].op # "grants"
                PROVE  UsersAgree(screen.grants, x)'
            <7>1. CASE r.op = "grants"
              <8>1. UsersAgree(UsersBrought(r), x) /\ screen'.grants = UsersBrought(r)
                BY <1>2, <2>7, <6>1, <6>3, <7>1 DEF UsersShows
              <8> QED BY <1>2, <8>1 DEF UsersAgree
            <7>2. CASE r.op # "grants"
              <8>1. \A k \in 1..n : wires[k].op # "grants"
                BY <1>2, <2>6, <6>3, <7>2
              <8>2. UsersAgree(screen.grants, x) /\ ~UsersTells(r, x)
                BY <1>2, <5>2, <6>1, <8>1 DEF UsersLate, n
              <8>3. \A g : UserList!SameKey(g, x) => (g \in screen'.grants <=> g \in screen.grants)
                <9>1. CASE r.op \in {"grant", "revoke"} /\ r.ok = TRUE
                  <10>1. ~UserList!SameKey(r, x)
                    BY <1>2, <8>2, <9>1 DEF UsersTells
                  <10>2. \A g : UserList!SameKey(g, x) =>
                           g # GrantAsked(r) /\ ~UserList!SameKey(g, r)
                    BY <10>1 DEF UserList!SameKey, GrantAsked
                  <10> QED BY <1>2, <9>1, <10>2 DEF UsersShows
                <9>2. CASE ~(r.op \in {"grant", "revoke"} /\ r.ok = TRUE)
                  BY <1>2, <2>1, <7>2, <9>2 DEF UsersShows
                <9> QED BY <9>1, <9>2
              <8> QED BY <1>2, <8>2, <8>3 DEF UsersAgree
            <7> QED BY <7>1, <7>2
          <6> QED BY <6>2, <6>3
        <5>3. CASE UsersLate(1, x)
          <6>1. \A k \in 1..n : wires[k].op # "grants"
            <7>1. \A k \in 1..n : ~(k < 1)
              BY <1>3
            <7> QED BY <5>3, <7>1 DEF UsersLate, n
          <6>2. UsersTells(r, x) /\ UsersStands(r, x)
            <7>1. \A j \in 1..n : UsersLate(j, x) => j <= 1
              BY <5>1
            <7>2. UsersStands(wires[1], x)
              BY <1>2, <4>1, <5>3, <7>1 DEF UsersKnown, n
            <7> QED BY <1>2, <5>3, <7>2 DEF UsersLate
          <6>3. r.op \in {"grant", "revoke"} /\ r.ok = TRUE /\ UserList!SameKey(r, x)
            BY <1>6, <6>2 DEF UsersTells
          <6>4. UsersAgree(screen.grants, x)'
            <7>1. CASE r.op = "grant"
              <8> DEFINE g == GrantAsked(r)
              <8>1. /\ g \in backend.grants /\ screen'.grants = screen.grants \cup {g}
                    /\ UserList!SameKey(g, x)
                BY <1>2, <6>2, <6>3, <7>1 DEF UsersStands, UsersShows, GrantAsked, UserList!SameKey
              <8> HIDE DEF g
              <8>2. \A h \in backend.grants : UserList!SameKey(h, x) => h = g
                <9>1. \A h : UserList!SameKey(h, x) => UserList!SameKey(h, g)
                  BY <8>1 DEF UserList!SameKey
                <9> QED BY <8>1, <9>1 DEF UsersFacts, UsersRecord
              <8> QED BY <1>2, <8>1, <8>2 DEF UsersAgree
            <7>2. CASE r.op = "revoke"
              <8>1. /\ \A h \in backend.grants : ~UserList!SameKey(h, x)
                    /\ screen'.grants = {g \in screen.grants : ~UserList!SameKey(g, r)}
                BY <1>2, <6>2, <6>3, <7>2 DEF UsersStands, UsersShows
              <8>2. \A g : UserList!SameKey(g, x) => UserList!SameKey(g, r)
                BY <6>3 DEF UserList!SameKey
              <8> QED BY <1>2, <8>1, <8>2 DEF UsersAgree
            <7> QED BY <6>3, <7>1, <7>2
          <6>5. \A k \in 1..m : wires'[k].op # "grants"
            BY <1>4, <6>1
          <6> QED BY <6>4, <6>5
        <5> QED BY <5>2, <5>3
      <4> QED BY <4>3, <4>4 DEF UsersKnown, m
    <3> QED BY <3>1, <3>2
  <2> QED BY <1>7, <1>8, <2>8, <2>9
<1> QED BY <1>9, <1>10

-----------------------------------------------------------------------------
(* The administrator's acts, and the page as a whole.                      *)

\* The page with one more act of the administrator.
LEMMA UsersActed ==
  ASSUME NEW s \in UsersScreens, screen \in UsersScreens, UserList!Acted(s)
  PROVE  /\ screen' \in UsersScreens /\ screen'.users = s.users /\ screen'.grants = s.grants
         /\ screen'.loading = s.loading /\ screen'.selected = s.selected
<1>1. screen.acts + 1 \in Nat
  BY DEF UsersScreens
<1> DEFINE k == screen.acts + 1
<1>2. screen' = [s EXCEPT !.acts = k]
  BY DEF UserList!Acted
<1> HIDE DEF k
<1> QED BY <1>1, <1>2 DEF UsersScreens, k

LEMMA UsersAct ==
  ASSUME UsersInv,
         \/ \E u \in Accts : \/ UserList!Select(u) \/ UserList!HandleCreateUser(u)
                             \/ UserList!HandleDeleteUser(u)
         \/ \E type \in UserList!ScopeTypes : UserList!SelectType(type)
         \/ \E level \in UserList!AccessLevels : UserList!HandleCreateGrant(level)
         \/ \E g \in screen.grants : UserList!HandleDeleteGrant(g)
  PROVE  UsersInv'
<1>1. /\ screen \in UsersScreens /\ screen.selected \in MaybeUser /\ screen.users \subseteq Accts
      /\ screen.loading \in BOOLEAN /\ screen.grants \subseteq UserGrants
      /\ screen.type \in UserList!ScopeTypes /\ screen.scopeId \in MaybeFound
  BY DEF UsersInv, UsersTypes, UsersScreens
<1>2. /\ "none" \in MaybeUser /\ Accts \subseteq MaybeUser /\ "none" \in UsersIds
      /\ MaybeUser \subseteq UsersIds /\ Found \subseteq UsersIds /\ "none" \notin Accts
      /\ "tenant" \in UserList!ScopeTypes /\ "view" \in UserList!AccessLevels
      /\ MaybeFound = Found \cup {"none"}
  BY UsersConstants DEF MaybeUser, MaybeFound, UsersIds, UserList!ScopeTypes, UserList!AccessLevels
<1>3. \A g \in UserGrants : /\ g.user \in Accts /\ g.type \in UserList!ScopeTypes
                            /\ g.id \in Found /\ g.level \in UserList!AccessLevels
  BY DEF UserGrants, UserList!Grants, Found
<1>4. ASSUME NEW w, w \in UsersWires, UsersWell(w), w.served = FALSE, w.op # "users",
             wires' = Append(wires, w), UserList!Acts, NEW s \in UsersScreens, UserList!Acted(s),
             s.users = screen.users, s.grants = screen.grants,
             \/ /\ w.op = "grants" /\ s.selected = w.user
             \/ /\ w.op # "grants" /\ s.selected = screen.selected
                /\ w.op = "grant" => w.user = screen.selected
                /\ w.op = "deluser" => w.id = screen.selected
      PROVE  UsersInv'
  <2>1. screen.loading = FALSE /\ backend' = backend
    BY <1>1, <1>4 DEF UserList!Acts
  <2>2. /\ screen' \in UsersScreens /\ screen'.users = s.users /\ screen'.grants = s.grants
        /\ screen'.selected = s.selected
    BY <1>1, <1>4, UsersActed
  <2>3. UsersAsks(w)
    BY <1>4, <2>1, <2>2 DEF UsersAsks
  <2> QED BY <2>3, UsersAsked
<1>5. ASSUME NEW u \in Accts, UserList!Select(u) PROVE UsersInv'
  <2> DEFINE w == UserList!Request("grants", u, "tenant", "none", "view")
             s == [screen EXCEPT !.selected = u, !.grantsLoading = TRUE]
  <2>1. UserList!Acts /\ UserList!Acted(s) /\ wires' = Append(wires, w)
    BY <1>5 DEF UserList!Select, UserList!AskFor, UserList!Ask, UserList!Nobody
  <2>2. w \in UsersWires /\ UsersWell(w) /\ w.served = FALSE /\ w.op = "grants" /\ w.user = u
    BY <1>2 DEF UserList!Request, UsersWires, UsersWell, UsersOps
  <2>3. s \in UsersScreens /\ s.users = screen.users /\ s.grants = screen.grants /\ s.selected = u
    BY <1>1, <1>2 DEF UsersScreens
  <2> HIDE DEF w, s
  <2> QED BY <1>4, <2>1, <2>2, <2>3
<1>6. ASSUME NEW u \in Accts, UserList!HandleCreateUser(u) PROVE UsersInv'
  <2> DEFINE w == UserList!Request("adduser", u, "tenant", "none", "view")
             s == [screen EXCEPT !.submitting = TRUE]
  <2>1. UserList!Acts /\ UserList!Acted(s) /\ wires' = Append(wires, w)
    BY <1>6 DEF UserList!HandleCreateUser, UserList!AskFor, UserList!Ask, UserList!Nobody
  <2>2. w \in UsersWires /\ UsersWell(w) /\ w.served = FALSE /\ w.op = "adduser"
    BY <1>2 DEF UserList!Request, UsersWires, UsersWell, UsersOps
  <2>3. /\ s \in UsersScreens /\ s.users = screen.users /\ s.grants = screen.grants
        /\ s.selected = screen.selected
    BY <1>1 DEF UsersScreens
  <2> HIDE DEF w, s
  <2> QED BY <1>4, <2>1, <2>2, <2>3
<1>7. ASSUME NEW u \in Accts, UserList!HandleDeleteUser(u) PROVE UsersInv'
  <2> DEFINE w == UserList!Request("deluser", u, "tenant", screen.selected, "view")
  <2>1. UserList!Acts /\ UserList!Acted(screen) /\ wires' = Append(wires, w)
    BY <1>7 DEF UserList!HandleDeleteUser, UserList!Ask
  <2>2. screen.selected \in UsersIds
    BY <1>1, <1>2
  <2>3. /\ w \in UsersWires /\ UsersWell(w) /\ w.served = FALSE /\ w.op = "deluser"
        /\ w.id = screen.selected
    BY <1>2, <2>2 DEF UserList!Request, UsersWires, UsersWell, UsersOps
  <2> HIDE DEF w
  <2> QED BY <1>1, <1>4, <2>1, <2>3
<1>8. ASSUME NEW type \in UserList!ScopeTypes, UserList!SelectType(type) PROVE UsersInv'
  <2> DEFINE w == UserList!Request("options", "none", type, "none", "view")
             s == [screen EXCEPT !.type = type]
  <2>1. UserList!Acts /\ UserList!Acted(s) /\ wires' = Append(wires, w)
    BY <1>8 DEF UserList!SelectType, UserList!Ask, UserList!Nobody
  <2>2. w \in UsersWires /\ UsersWell(w) /\ w.served = FALSE /\ w.op = "options"
    BY <1>2 DEF UserList!Request, UsersWires, UsersWell, UsersOps
  <2>3. /\ s \in UsersScreens /\ s.users = screen.users /\ s.grants = screen.grants
        /\ s.selected = screen.selected
    BY <1>1 DEF UsersScreens
  <2> HIDE DEF w, s
  <2> QED BY <1>4, <2>1, <2>2, <2>3
<1>9. ASSUME NEW level \in UserList!AccessLevels, UserList!HandleCreateGrant(level)
      PROVE  UsersInv'
  <2> DEFINE who == screen.selected
             id == screen.scopeId
             w == UserList!Request("grant", who, screen.type, id, level)
             s == [screen EXCEPT !.submitting = TRUE]
  <2>1. /\ UserList!Acts /\ UserList!Acted(s) /\ wires' = Append(wires, w)
        /\ who \in screen.users /\ id # "none"
    BY <1>9 DEF UserList!HandleCreateGrant, UserList!Ask, UserList!Nobody
  <2>2. who \in Accts /\ id \in Found
    BY <1>1, <1>2, <2>1
  <2> HIDE DEF id
  <2>3. /\ w \in UsersWires /\ UsersWell(w) /\ w.served = FALSE /\ w.op = "grant"
        /\ w.user = who
    BY <1>1, <1>2, <2>2 DEF UserList!Request, UsersWires, UsersWell, UsersOps
  <2>4. /\ s \in UsersScreens /\ s.users = screen.users /\ s.grants = screen.grants
        /\ s.selected = screen.selected
    BY <1>1 DEF UsersScreens
  <2> HIDE DEF w, s
  <2> QED BY <1>4, <2>1, <2>3, <2>4
<1>10. ASSUME NEW g \in screen.grants, UserList!HandleDeleteGrant(g) PROVE UsersInv'
  <2> DEFINE w == UserList!Request("revoke", g.user, g.type, g.id, g.level)
  <2>1. UserList!Acts /\ UserList!Acted(screen) /\ wires' = Append(wires, w)
    BY <1>10 DEF UserList!HandleDeleteGrant, UserList!Ask
  <2>2. /\ g.user \in MaybeUser /\ g.type \in UserList!ScopeTypes /\ g.id \in UsersIds
        /\ g.level \in UserList!AccessLevels
    BY <1>1, <1>2, <1>3
  <2>3. w \in UsersWires /\ UsersWell(w) /\ w.served = FALSE /\ w.op = "revoke"
    BY <2>2 DEF UserList!Request, UsersWires, UsersWell, UsersOps
  <2> HIDE DEF w
  <2> QED BY <1>1, <1>4, <2>1, <2>3
<1> QED BY <1>5, <1>6, <1>7, <1>8, <1>9, <1>10

\* Nothing that is compared with the record changes.
LEMMA UsersUntouched ==
  ASSUME UsersInv, screen' \in UsersScreens, screen'.users = screen.users,
         screen'.loading = screen.loading, screen'.selected = screen.selected,
         screen'.grants = screen.grants, wires' = wires, backend' = backend
  PROVE  UsersInv'
<1>1. UsersTypes'
  BY DEF UsersInv, UsersTypes
<1>2. UsersFacts'
  BY DEF UsersInv, UsersFacts, UsersRecord
<1>3. ASSUME backend.ordered PROVE UsersOrder' /\ UsersListed' /\ UsersSelected' /\ UsersGranted'
  <2>1. UsersOrder /\ UsersListed /\ UsersSelected /\ UsersGranted
    BY <1>3 DEF UsersInv, UsersOrdered
  <2>2. UsersOrder'
    BY <2>1 DEF UsersOrder
  <2>3. UsersListed'
    BY <2>1 DEF UsersListed
  <2>4. UsersSelected'
    BY <2>1 DEF UsersSelected, UsersLater
  <2>5. \A x : UsersKnown(x) => UsersKnown(x)'
    BY DEF UsersKnown, UsersLate, UsersLater, UsersStands, UsersAgree
  <2>6. UsersGranted'
    BY <2>1, <2>5 DEF UsersGranted
  <2> QED BY <2>2, <2>3, <2>4, <2>6
<1> QED BY <1>1, <1>2, <1>3 DEF UsersInv, UsersOrdered

LEMMA UsersElsewhere ==
  ASSUME UsersInv, UserList!ElsewhereChanges PROVE UsersInv'
<1>1. /\ screen \in UsersScreens /\ backend \in UsersBackends /\ wires \in Seq(UsersWires)
      /\ UsersRecord
  BY DEF UsersInv, UsersTypes, UsersFacts
<1>2. backend.others > 0 /\ screen' = screen /\ wires' = wires
  BY DEF UserList!ElsewhereChanges
<1>3. backend.others - 1 \in Nat /\ backend.ordered = FALSE
  BY <1>1, <1>2 DEF UsersBackends, UsersRecord
<1>4. /\ backend' \in UsersBackends /\ backend'.ordered = FALSE
      /\ backend'.users = backend.users /\ backend'.grants = backend.grants
  <2> DEFINE k == backend.others - 1
  <2>1. ASSUME NEW u \in backend.users, NEW q \in UserList!Roles \ {"admin"},
               backend' = [backend EXCEPT !.role[u] = q, !.others = @ - 1]
        PROVE  /\ backend' \in UsersBackends /\ backend'.ordered = FALSE
               /\ backend'.users = backend.users /\ backend'.grants = backend.grants
    <3>1. u \in Accts
      BY <1>1 DEF UsersBackends
    <3> DEFINE roles == [backend.role EXCEPT ![u] = q]
    <3>2. roles \in [Accts -> UserList!Roles]
      BY <1>1 DEF UsersBackends
    <3>3. backend' = [backend EXCEPT !.role = roles, !.others = k]
      BY <1>1, <2>1 DEF UsersBackends
    <3> HIDE DEF roles, k
    <3>4. k \in Nat
      BY <1>3 DEF k
    <3> QED BY <1>1, <1>3, <3>2, <3>3, <3>4 DEF UsersBackends
  <2>2. ASSUME NEW x \in backend.existing,
               backend' = [backend EXCEPT !.existing = @ \ {x}, !.others = @ - 1]
        PROVE  /\ backend' \in UsersBackends /\ backend'.ordered = FALSE
               /\ backend'.users = backend.users /\ backend'.grants = backend.grants
    <3> DEFINE here == backend.existing \ {x}
    <3>1. here \subseteq Found
      BY <1>1 DEF UsersBackends
    <3>2. backend' = [backend EXCEPT !.existing = here, !.others = k]
      BY <2>2
    <3> HIDE DEF here, k
    <3>3. k \in Nat
      BY <1>3 DEF k
    <3> QED BY <1>1, <1>3, <3>1, <3>2, <3>3 DEF UsersBackends
  <2> QED BY <2>1, <2>2 DEF UserList!ElsewhereChanges
<1>5. UsersTypes'
  BY <1>1, <1>2, <1>4 DEF UsersTypes
<1>6. UsersFacts'
  BY <1>1, <1>2, <1>4 DEF UsersInv, UsersFacts, UsersRecord
<1> QED BY <1>4, <1>5, <1>6 DEF UsersInv, UsersOrdered

LEMMA UsersInductive ==
  ASSUME UsersInv, [UserList!Next]_(UserList!vars) PROVE UsersInv'
<1>1. UsersTypes /\ UsersFacts /\ backend.ordered \in BOOLEAN
  BY DEF UsersInv, UsersTypes, UsersBackends
<1>2. CASE UserList!ElsewhereChanges
  BY <1>2, UsersElsewhere
<1>3. ASSUME NEW i \in DOMAIN wires, UserList!Serve(i) PROVE UsersInv'
  <2>1. i \in 1..Len(wires)
    BY <1>1 DEF UsersTypes
  <2>2. PICK w : UsersTaken(i, w)
    BY <1>1, <1>3, <2>1, UsersServes
  <2>3. UsersTypes' /\ UsersFacts' /\ backend'.ordered = backend.ordered
    BY <1>1, <2>2, UsersTakenTyped
  <2>4. ASSUME backend.ordered = TRUE
        PROVE  UsersOrder' /\ UsersListed' /\ UsersSelected' /\ UsersGranted'
    <3>1. \A j \in 1..(i - 1) : wires[j].served
      BY <1>3, <2>4 DEF UserList!Serve
    <3> QED BY <2>2, <2>4, <3>1, UsersTakenInOrder
  <2> QED BY <1>1, <2>3, <2>4 DEF UsersInv, UsersOrdered
<1>4. ASSUME NEW i \in DOMAIN wires, UserList!Reply(i) PROVE UsersInv'
  <2>1. i \in 1..Len(wires)
    BY <1>1 DEF UsersTypes
  <2>2. UsersAnswered(i, wires[i])
    BY <1>1, <1>4, <2>1, UsersReplies
  <2>3. UsersTypes' /\ UsersFacts' /\ backend' = backend
    BY <1>1, <2>2, UsersAnsweredTyped DEF UsersAnswered
  <2>4. ASSUME backend.ordered = TRUE
        PROVE  UsersOrder' /\ UsersListed' /\ UsersSelected' /\ UsersGranted'
    <3>1. i = 1
      BY <1>4, <2>4 DEF UserList!Reply
    <3> QED BY <2>2, <2>4, <3>1, UsersAnsweredInOrder
  <2> QED BY <1>1, <2>3, <2>4 DEF UsersInv, UsersOrdered
<1>5. ASSUME NEW id \in UserList!Resources, UserList!SelectScope(id) PROVE UsersInv'
  <2> DEFINE s == [screen EXCEPT !.scopeId = id]
  <2>1. UserList!Acted(s) /\ wires' = wires /\ backend' = backend
    BY <1>5 DEF UserList!SelectScope, UserList!Acts
  <2>2. screen \in UsersScreens /\ id \in MaybeFound
    BY <1>1 DEF UsersTypes, MaybeFound, Found
  <2>3. /\ s \in UsersScreens /\ s.users = screen.users /\ s.grants = screen.grants
        /\ s.selected = screen.selected /\ s.loading = screen.loading
    BY <2>2 DEF UsersScreens
  <2> HIDE DEF s
  <2>4. /\ screen' \in UsersScreens /\ screen'.users = s.users /\ screen'.grants = s.grants
        /\ screen'.loading = s.loading /\ screen'.selected = s.selected
    BY <2>1, <2>2, <2>3, UsersActed
  <2> QED BY <2>1, <2>3, <2>4, UsersUntouched
<1>6. CASE UNCHANGED UserList!vars
  BY <1>1, <1>6, UsersUntouched DEF UserList!vars, UsersTypes
<1> QED BY <1>2, <1>3, <1>4, <1>5, <1>6, UsersAct DEF UserList!Next

-----------------------------------------------------------------------------
(* The console.                                                            *)

\* The page that is open keeps its invariant.
ConsoleInv ==
  /\ focus \in {"scan", "connect", "panel", "watch", "session", "board", "fleet", "record",
               "users"}
  /\ focus = "scan" => ScanInv
  /\ focus = "connect" => ConnectInv
  /\ focus = "panel" => PanelInv
  /\ focus = "watch" => WatchInv
  /\ focus = "session" => SessionInv /\ PagesGuarded
  /\ focus = "board" => BoardInv
  /\ focus = "fleet" => FleetInv
  /\ focus = "record" => RecordInv
  /\ focus = "users" => UsersInv

LEMMA Initially == ASSUME Init PROVE ConsoleInv
<1> USE DEF Init
<1>1. focus = "session" => PagesGuarded
  BY DEF Session!Init, PagesGuarded, Session!Loading
<1>2. /\ focus = "fleet" => Fleet!Init
      /\ focus = "record" => Record!Init
      /\ focus = "users" => UserList!Init
  OBVIOUS
<1>3. /\ focus = "scan" => ScanInv
      /\ focus = "connect" => ConnectInv
      /\ focus = "panel" => PanelInv
      /\ focus = "watch" => WatchInv
      /\ focus = "session" => SessionInv
      /\ focus = "board" => BoardInv
  BY ScanInitially, ConnectInitially, PanelInitially, WatchInitially, SessionInitially,
     BoardInitially
<1>4. /\ focus = "fleet" => FleetInv
      /\ focus = "record" => RecordInv
      /\ focus = "users" => UsersInv
  BY <1>2, FleetInitially, RecordInitially, UsersInitially
<1>5. focus \in {"scan", "connect", "panel", "watch", "session", "board", "fleet", "record",
                 "users"}
  <2>1. focus \in Opened
    OBVIOUS
  <2> QED BY <2>1, ConsoleAssumption
<1> HIDE DEF Init
<1> QED BY <1>1, <1>3, <1>4, <1>5 DEF ConsoleInv

\* Only the open page moves.
LEMMA OnlyOpenMoves ==
  ASSUME [Next]_vars
  PROVE  /\ focus' = focus
         /\ focus = "scan" => [Scan!Next]_(Scan!vars)
         /\ focus = "connect" => [Connect!Next]_(Connect!vars)
         /\ focus = "panel" => [Panel!Next]_(Panel!vars)
         /\ focus = "watch" => [Watch!Next]_(Watch!vars)
         /\ focus = "session" => [Session!Next]_(Session!vars)
         /\ focus = "board" => [Board!Next]_(Board!vars)
         /\ focus = "fleet" => [Fleet!Next]_(Fleet!vars)
         /\ focus = "record" => [Record!Next]_(Record!vars)
         /\ focus = "users" => [UserList!Next]_(UserList!vars)
<1>1. CASE Next
  BY <1>1 DEF Next, ModelNext, PageNext
<1>2. CASE UNCHANGED vars
  <2>1. focus' = focus /\ UNCHANGED modelVars /\ UNCHANGED pageVars
    BY <1>2 DEF vars
  <2>2. /\ UNCHANGED scanVars /\ UNCHANGED connectVars /\ UNCHANGED panelVars
        /\ UNCHANGED watchVars /\ UNCHANGED sessionVars /\ UNCHANGED boardVars
        /\ UNCHANGED failures
    BY <2>1 DEF modelVars
  <2>3. UNCHANGED Scan!vars
    BY <2>2 DEF scanVars, Scan!vars, Scan!queueVars, Scan!pollVars
  <2>4. UNCHANGED Connect!vars
    BY <2>2 DEF connectVars, Connect!vars
  <2>5. UNCHANGED Panel!vars
    BY <2>2 DEF panelVars, Panel!vars
  <2>6. UNCHANGED Watch!vars
    BY <2>2 DEF watchVars, Watch!vars
  <2>7. UNCHANGED Session!vars
    BY <2>2 DEF sessionVars, Session!vars
  <2>8. UNCHANGED Board!vars
    BY <2>2 DEF boardVars, Board!vars, Board!pageVars
  <2>9. UNCHANGED Fleet!vars /\ UNCHANGED Record!vars /\ UNCHANGED UserList!vars
    BY <2>1 DEF pageVars, Fleet!vars, Record!vars, UserList!vars
  <2> QED BY <2>1, <2>3, <2>4, <2>5, <2>6, <2>7, <2>8, <2>9
<1> QED BY <1>1, <1>2

LEMMA Inductive ==
  ASSUME ConsoleInv, [Next]_vars
  PROVE  /\ ConsoleInv'
         /\ focus = "scan" => Scan!SilentStep
         /\ focus = "connect" => Connect!SentAsShownStep
         /\ focus = "record" => Record!SecretKeptStep
<1>0. focus' = focus /\ focus \in {"scan", "connect", "panel", "watch", "session", "board",
                                   "fleet", "record", "users"}
  BY OnlyOpenMoves DEF ConsoleInv
<1>1. focus = "scan" => ScanInv' /\ Scan!SilentStep
  BY OnlyOpenMoves, ScanInductive DEF ConsoleInv
<1>2. focus = "connect" => ConnectInv' /\ Connect!SentAsShownStep
  BY OnlyOpenMoves, ConnectInductive DEF ConsoleInv
<1>3. focus = "panel" => PanelInv'
  BY OnlyOpenMoves, PanelInductive DEF ConsoleInv
<1>4. focus = "watch" => WatchInv'
  BY OnlyOpenMoves, WatchInductive DEF ConsoleInv
<1>5. focus = "session" => SessionInv' /\ PagesGuarded'
  BY OnlyOpenMoves, SessionInductive, GuardsKept DEF ConsoleInv, SessionInv
<1>6. focus = "board" => BoardInv'
  BY OnlyOpenMoves, BoardInductive DEF ConsoleInv
<1>7. focus = "fleet" => FleetInv'
  BY OnlyOpenMoves, FleetInductive DEF ConsoleInv
<1>8. focus = "record" => RecordInv' /\ Record!SecretKeptStep
  BY OnlyOpenMoves, RecordInductive DEF ConsoleInv
<1>9. focus = "users" => UsersInv'
  BY OnlyOpenMoves, UsersInductive DEF ConsoleInv
<1>10. ConsoleInv'
  BY <1>0, <1>1, <1>2, <1>3, <1>4, <1>5, <1>6, <1>7, <1>8, <1>9 DEF ConsoleInv
<1> QED BY <1>1, <1>2, <1>8, <1>10

LEMMA Implied ==
  ASSUME ConsoleInv
  PROVE  /\ TypeOK /\ ShownIsTrue /\ RefusedIfOvertaken /\ OneRequestPerRow
         /\ focus = "session" => PagesGuarded
<1>1. TypeOK
  BY ScanTyped, ConnectTyped, PanelTyped, WatchTyped, BoardTyped, FleetTyped, RecordTyped,
     UsersTyped DEF ConsoleInv, SessionInv, TypeOK
<1>2. ShownIsTrue
  BY PanelTyped, FleetTyped, RecordTyped, UsersTyped DEF ConsoleInv, WatchInv, ShownIsTrue
<1>3. RefusedIfOvertaken
  BY DEF ConsoleInv, SessionInv, RefusedIfOvertaken
<1>4. OneRequestPerRow
  BY BoardTyped, FleetTyped DEF ConsoleInv, OneRequestPerRow
<1> QED BY <1>1, <1>2, <1>3, <1>4 DEF ConsoleInv

-----------------------------------------------------------------------------
\* Every variable of every page keeps its type, for any number of machines, rows,
\* tabs, users and requests; GatewayDetailPage has a live poll loop exactly while
\* it says that it is polling.
THEOREM TypeCorrect == Spec => []TypeOK
<1>1. Init => ConsoleInv
  BY Initially
<1>2. ConsoleInv /\ [Next]_vars => ConsoleInv'
  BY Inductive
<1>3. ConsoleInv => TypeOK
  BY Implied
<1> QED BY <1>1, <1>2, <1>3, PTL DEF Spec

\* For any number of pages, filters, requests and clicks: when replies come in the
\* order of their requests and none fails, a table of GatewayMonitoringPanel at rest
\* shows the rows of its own page and filter, unless a click that the table was left
\* behind by has read the page and filter of its closure last (pollLiveData); the
\* lists of WorkersPage and its kin, the settings and tenants, and the users and
\* grants of UsersPage are those of the server; and without failures GatewaysPage
\* announces only machines that came after a token was created, in whatever order
\* the replies of its watches come.
THEOREM PagesShowTheTruth == Spec => []ShownIsTrue
<1>1. Init => ConsoleInv
  BY Initially
<1>2. ConsoleInv /\ [Next]_vars => ConsoleInv'
  BY Inductive
<1>3. ConsoleInv => ShownIsTrue
  BY Implied
<1> QED BY <1>1, <1>2, <1>3, PTL DEF Spec

\* However many tabs users sign in and out in, reload and lose their sessions in,
\* a request that was built with one token and is handled later is refused for it,
\* in a browser that is signed in then, only if a tab has signed in between the two
\* (getCsrfToken, request): the cookie is there before any session is, and nothing
\* but a login replaces it.
THEOREM RefusedOnlyIfOvertaken == Spec => []RefusedIfOvertaken
<1>1. Init => ConsoleInv
  BY Initially
<1>2. ConsoleInv /\ [Next]_vars => ConsoleInv'
  BY Inductive
<1>3. ConsoleInv => RefusedIfOvertaken
  BY Implied
<1> QED BY <1>1, <1>2, <1>3, PTL DEF Spec

\* Whoever signs in and out in other tabs meanwhile, a tab is at a page that the
\* user it shows may open (ProtectedRoute, AdminRoute, InfrastructureRoute).
THEOREM RoutesAreGuarded == Spec => [](focus = "session" => PagesGuarded)
<1>1. Init => ConsoleInv
  BY Initially
<1>2. ConsoleInv /\ [Next]_vars => ConsoleInv'
  BY Inductive
<1>3. ConsoleInv => (focus = "session" => PagesGuarded)
  BY Implied
<1> QED BY <1>1, <1>2, <1>3, PTL DEF Spec

\* However many rows WorkerTenantsPage has, requests are under way and replies cross,
\* a row has a second action under way only if its mark was taken or cleared by an
\* action of another row since the first one began; and WorkersPage never has an
\* installation under way beside a disconnection or a deletion.
THEOREM RowsActOneAtATime == Spec => []OneRequestPerRow
<1>1. Init => ConsoleInv
  BY Initially
<1>2. ConsoleInv /\ [Next]_vars => ConsoleInv'
  BY Inductive
<1>3. ConsoleInv => OneRequestPerRow
  BY Implied
<1> QED BY <1>1, <1>2, <1>3, PTL DEF Spec

\* Whether requests fail, rows come long after they were read, or others scan the
\* gateway: a table of GatewayDetailPage changes only with the answer of the loop
\* that follows its scan or with a row the page has asked for, falls back to an older
\* scan only by a row that was long under way, and the page stops following a scan
\* only when that scan's loop ends.  TailscaleConnectPanel sends what it shows, and a
\* blank secret of ConsoleSettingsPage replaces none.
THEOREM PagesStepAsShown == Spec => StepsAsShown
<1>1. Init => ConsoleInv
  BY Initially
<1>2. ConsoleInv /\ [Next]_vars => ConsoleInv'
  BY Inductive
<1>3. ConsoleInv /\ [Next]_vars =>
        [CASE focus = "scan" -> Scan!SilentStep
           [] focus = "connect" -> Connect!SentAsShownStep
           [] focus = "record" -> Record!SecretKeptStep
           [] OTHER -> TRUE]_vars
  BY Inductive DEF ConsoleInv
<1> QED BY <1>1, <1>2, <1>3, PTL DEF Spec, StepsAsShown
=============================================================================
