---------------------- MODULE GatewayMonitoringProofs ----------------------
(***************************************************************************)
(* Proofs about GatewayMonitoring, for any networks, any number of server  *)
(* processes that record acknowledgements at once, of lost scans, restarts *)
(* and changes of the policy, and any size of the pool.                    *)
(***************************************************************************)
EXTENDS GatewayMonitoring, FiniteSetTheorems, TLAPS

LEMMA FinitePositions ==
  ASSUME NEW n \in Nat, NEW P \in SUBSET (1..n)
  PROVE  IsFiniteSet(P) /\ Cardinality(P) \in Nat
<1>1. IsFiniteSet(1..n)
  BY FS_Interval
<1> QED BY <1>1, FS_Subset, FS_CardinalityType

\* Positions are counted from the smallest on: there is a k-th one.
LEMMA NthIsOne ==
  ASSUME NEW n \in Nat, NEW P \in SUBSET (1..n), NEW k \in 1..Cardinality(P)
  PROVE  Nth(k, P) \in P
<1> DEFINE Upto(i) == {j \in P : j <= i}
           rank == [i \in P |-> Cardinality(Upto(i))]
           c == Cardinality(P)
<1>1. IsFiniteSet(P) /\ c \in Nat
  BY FinitePositions
<1>2. \A i \in P : IsFiniteSet(Upto(i)) /\ Cardinality(Upto(i)) \in Nat /\ Cardinality(Upto(i)) <= c
  BY <1>1, FS_Subset, FS_CardinalityType
<1>3. \A i \in P : Cardinality(Upto(i)) # 0
  <2> SUFFICES ASSUME NEW i \in P PROVE Upto(i) # {}
    BY <1>2, FS_EmptySet
  <2> QED OBVIOUS
<1>4. rank \in [P -> 1..c]
  BY <1>1, <1>2, <1>3
<1>5. \A i, j \in P : i < j => rank[i] # rank[j]
  <2> SUFFICES ASSUME NEW i \in P, NEW j \in P, i < j, Cardinality(Upto(i)) = Cardinality(Upto(j))
               PROVE  FALSE
    OBVIOUS
  <2>1. \A m \in P : m \in Nat
    OBVIOUS
  <2>2. /\ \A m \in P : m <= i => m <= j
        /\ j <= j /\ ~(j <= i)
    BY <2>1
  <2>3. Upto(i) \in SUBSET Upto(j) /\ j \in Upto(j) /\ j \notin Upto(i)
    BY <2>2
  <2>4. Upto(i) = Upto(j)
    BY <1>2, <2>3, FS_Subset
  <2> QED BY <2>3, <2>4
<1>6. rank \in Injection(P, 1..c)
  <2>1. \A a, b \in P : rank[a] = rank[b] => a = b
    BY <1>5
  <2> QED BY <1>4, <2>1 DEF Injection, IsInjective
<1>7. IsFiniteSet(1..c) /\ Cardinality(1..c) = c
  BY <1>1, FS_Interval
<1>8. rank \in Surjection(P, 1..c)
  BY <1>6, <1>7, FS_Injection
<1>9. \E i \in P : Cardinality(Upto(i)) = k
  BY <1>8 DEF Surjection
<1> QED BY <1>9 DEF Nth

LEMMA SubsequenceType ==
  ASSUME NEW S, NEW s \in Seq(S), NEW P \in SUBSET DOMAIN s
  PROVE  Subsequence(s, P) \in Seq(S)
<1> DEFINE n == Len(s)
<1>1. n \in Nat /\ DOMAIN s = 1..n /\ \A i \in 1..n : s[i] \in S
  OBVIOUS
<1> HIDE DEF n
<1>2. P \in SUBSET (1..n)
  BY <1>1
<1>3. Cardinality(P) \in Nat
  BY <1>1, <1>2, FinitePositions
<1>4. \A k \in 1..Cardinality(P) : Nth(k, P) \in P
  BY <1>1, <1>2, NthIsOne
<1>5. \A k \in 1..Cardinality(P) : s[Nth(k, P)] \in S
  BY <1>1, <1>2, <1>4
<1> QED BY <1>3, <1>5 DEF Subsequence

LEMMA MinOfTwo ==
  ASSUME NEW a \in Int, NEW b \in Int
  PROVE  Min({a, b}) = IF a <= b THEN a ELSE b
  BY DEF Min

LEMMA FirstType ==
  ASSUME NEW S, NEW s \in Seq(S), NEW n \in Nat
  PROVE  First(n, s) \in Seq(S)
<1> DEFINE m == Min({n, Len(s)})
<1>1. m \in 0..Len(s)
  BY MinOfTwo
<1>2. SubSeq(s, 1, m) \in Seq(S)
  <2> HIDE DEF m
  <2> QED BY <1>1
<1> QED BY <1>2 DEF First

\* An enumeration of a finite set has each of its elements once.
LEMMA Enumerated ==
  ASSUME NEW S, IsFiniteSet(S)
  PROVE  /\ SetToSeq(S) \in Seq(S)
         /\ Len(SetToSeq(S)) = Cardinality(S)
         /\ Range(SetToSeq(S)) = S
<1> DEFINE c == Cardinality(S)
<1>1. c \in Nat /\ \E f \in [1..c -> S] : IsInjective(f)
  BY FS_CardinalityType DEF ExistsBijection, Bijection, Injection
<1>2. SetToSeq(S) \in [1..c -> S] /\ IsInjective(SetToSeq(S))
  BY <1>1 DEF SetToSeq
<1>3. SetToSeq(S) \in Seq(S) /\ Len(SetToSeq(S)) = c
  BY <1>1, <1>2
<1>4. IsFiniteSet(1..c) /\ Cardinality(1..c) = c
  BY <1>1, FS_Interval
<1>5. SetToSeq(S) \in Injection(1..c, S)
  BY <1>2 DEF Injection
<1>6. SetToSeq(S) \in Surjection(1..c, S)
  BY <1>4, <1>5, FS_Injection
<1>7. Range(SetToSeq(S)) = S
  BY <1>2, <1>6 DEF Surjection, Range
<1> QED BY <1>3, <1>7

LEMMA MaxWithZero ==
  ASSUME NEW a \in Int
  PROVE  Max({a, 0}) = IF a <= 0 THEN 0 ELSE a
  BY DEF Max

\* The first n of a sequence are n at most.
LEMMA FirstAreFew ==
  ASSUME NEW S, NEW s \in Seq(S), NEW n \in Nat
  PROVE  /\ IsFiniteSet(Range(First(n, s)))
         /\ Cardinality(Range(First(n, s))) \in Nat
         /\ Cardinality(Range(First(n, s))) <= n
<1> DEFINE m == Min({n, Len(s)})
           f == First(n, s)
<1>1. m \in 0..Len(s) /\ m <= n
  BY MinOfTwo
<1>2. f = SubSeq(s, 1, m)
  BY DEF First
<1> HIDE DEF m, f
<1>3. f \in Seq(S) /\ DOMAIN f = 1..m
  BY <1>1, <1>2
<1>4. f \in Surjection(1..m, Range(f))
  BY <1>3 DEF Surjection, Range
<1>5. IsFiniteSet(1..m) /\ Cardinality(1..m) = m
  BY <1>1, FS_Interval
<1>6. IsFiniteSet(Range(f)) /\ Cardinality(Range(f)) <= m
  BY <1>4, <1>5, FS_Surjection
<1>7. Cardinality(Range(f)) \in Nat
  BY <1>6, FS_CardinalityType
<1> QED BY <1>1, <1>6, <1>7 DEF f

LEMMA SizeOfUnion ==
  ASSUME NEW S, IsFiniteSet(S), NEW T, IsFiniteSet(T)
  PROVE  Cardinality(S \cup T) <= Cardinality(S) + Cardinality(T)
<1>1. S \cap T \in SUBSET S
  OBVIOUS
<1>2. IsFiniteSet(S \cap T)
  BY <1>1, FS_Subset
<1>3. Cardinality(S) \in Nat /\ Cardinality(T) \in Nat /\ Cardinality(S \cap T) \in Nat
  BY <1>2, FS_CardinalityType
<1>4. Cardinality(S \cup T) = Cardinality(S) + Cardinality(T) - Cardinality(S \cap T)
  BY FS_Union
<1> QED BY <1>3, <1>4

\* Hosts whose jobs start become active.
LEMMA JobsStart ==
  ASSUME jobs \in [Hosts -> JobStages], NEW chosen,
         jobs' = [h \in Hosts |-> IF h \in chosen THEN "scan" ELSE jobs[h]]
  PROVE  {h \in Hosts : jobs'[h] # "none"} = {h \in Hosts : jobs[h] # "none"} \cup (chosen \cap Hosts)
  OBVIOUS

LEMMA RangeOfJoin ==
  ASSUME NEW S, NEW s \in Seq(S), NEW t \in Seq(S)
  PROVE  Range(s \o t) = Range(s) \cup Range(t)
<1>1. /\ DOMAIN (s \o t) = 1..(Len(s) + Len(t))
      /\ \A i \in 1..Len(s) : (s \o t)[i] = s[i]
      /\ \A i \in 1..Len(t) : (s \o t)[Len(s) + i] = t[i]
  OBVIOUS
<1>2. ASSUME NEW x \in Range(s \o t) PROVE x \in Range(s) \cup Range(t)
  BY <1>1, <1>2 DEF Range
<1>3. ASSUME NEW i \in 1..Len(s) PROVE s[i] \in Range(s \o t)
  <2>1. i \in 1..(Len(s) + Len(t))
    OBVIOUS
  <2> QED BY <1>1, <2>1 DEF Range
<1>4. ASSUME NEW i \in 1..Len(t) PROVE t[i] \in Range(s \o t)
  <2>1. Len(s) + i \in 1..(Len(s) + Len(t))
    OBVIOUS
  <2> QED BY <1>1, <2>1 DEF Range
<1>5. DOMAIN s = 1..Len(s) /\ DOMAIN t = 1..Len(t)
  OBVIOUS
<1> QED BY <1>2, <1>3, <1>4, <1>5 DEF Range

LEMMA RemoveAtType ==
  ASSUME NEW S, NEW s \in Seq(S), NEW i \in DOMAIN s
  PROVE  RemoveAt(s, i) \in Seq(S)
  BY DEF RemoveAt

-----------------------------------------------------------------------------
(* Every variable keeps its type.                                           *)

\* A plan stays within the chunks of the policy, wherever the cursor is.
LEMMA PlanType ==
  ASSUME TypeOK
  PROVE  Targets \in SUBSET Chunks /\ NextCursor \in Chunks
<1>1. /\ policy.total \in Totals /\ policy.total \in Nat \ {0}
      /\ policy.count \in Nat \ {0}
  BY MonitoringAssumption DEF TypeOK, Policies
<1> DEFINE t == policy.total
<1>2. \A n \in Nat : n % t \in 0..(t - 1)
  BY <1>1
<1>3. 0..(t - 1) \in SUBSET Chunks
  BY <1>1 DEF Chunks
<1>4. cursor \in Nat
  BY MonitoringAssumption DEF TypeOK, Chunks
<1>5. Selected \in Nat
  BY <1>1, MinOfTwo DEF Selected
<1>6. From \in Nat
  BY <1>2, <1>4 DEF From
<1>7. Targets \in SUBSET (0..(t - 1))
  <2> SUFFICES ASSUME NEW k \in 0..(Selected - 1) PROVE (From + k) % t \in 0..(t - 1)
    BY DEF Targets
  <2>1. From + k \in Nat
    BY <1>5, <1>6
  <2> QED BY <1>2, <2>1
<1>8. NextCursor \in 0..(t - 1)
  <2>1. 0 \in 0..(t - 1)
    BY <1>1
  <2>2. From + Selected \in Nat
    BY <1>5, <1>6
  <2> QED BY <1>2, <2>1, <2>2 DEF NextCursor
<1> QED BY <1>3, <1>7, <1>8

LEMMA ScanType ==
  ASSUME NEW plan, plan.targets \in SUBSET Chunks, NEW by \in {"scheduler", "operator"},
         scans \in Seq(ScanRow)
  PROVE  Append(scans, Scan(plan, by)) \in Seq(ScanRow)
<1>1. Scan(plan, by) \in ScanRow
  BY DEF Scan, ScanRow, ScanStates
<1> QED BY <1>1

\* A field of a scan is set.
LEMMA RowChanges ==
  ASSUME NEW c \in ScanRow
  PROVE  /\ \A st \in ScanStates : [c EXCEPT !.state = st] \in ScanRow
         /\ \A st \in ScanStates, hs \in SUBSET Hosts :
              /\ [c EXCEPT !.state = st, !.found = hs] \in ScanRow
              /\ [c EXCEPT !.state = st, !.seen = hs] \in ScanRow
         /\ [c EXCEPT !.state = "lost", !.found = {}, !.seen = {}] \in ScanRow
         /\ \A b \in BOOLEAN : [c EXCEPT !.expired = c.expired \/ b] \in ScanRow
  BY DEF ScanRow, ScanStates

\* What an acknowledgement marks for a vulnerability scan and records.
LEMMA RecordType ==
  ASSUME TypeOK, NEW s \in ScanRow, NEW others, RecordHosts(s, others)
  PROVE  /\ snapshot' \in SUBSET Chunks /\ known' \in Seq(Hosts)
         /\ isNew' \in SUBSET Hosts /\ pending' \in SUBSET Hosts
         /\ alerts' \in [Hosts -> Nat]
<1> DEFINE new == s.found \ s.seen
<1>1. /\ s.targets \in SUBSET Chunks /\ s.found \in SUBSET Hosts /\ new \in SUBSET Hosts
  BY DEF ScanRow
<1>2. IsFiniteSet(new)
  BY <1>1, MonitoringAssumption, FS_Subset
<1>3. SetToSeq(new) \in Seq(Hosts)
  BY <1>1, <1>2, Enumerated
<1>4. known \in Seq(Hosts) /\ isNew \in SUBSET Hosts /\ pending \in SUBSET Hosts
      /\ alerts \in [Hosts -> Nat]
  BY DEF TypeOK
<1>5. known \o SetToSeq(new) \in Seq(Hosts)
  BY <1>3, <1>4
<1>6. Marked(s.found, new, others) \in SUBSET Hosts
  BY <1>1 DEF Marked
<1>7. [h \in Hosts |-> IF h \in new THEN alerts[h] + 1 ELSE alerts[h]] \in [Hosts -> Nat]
  BY <1>4
<1> QED BY <1>1, <1>4, <1>5, <1>6, <1>7 DEF RecordHosts

LEMMA Initially == ASSUME Init PROVE TypeOK /\ AnnouncedOnce
<1>1. env \in Environments /\ policy \in Policies /\ env.losses \in Nat /\ env.changes \in Nat
  BY MonitoringAssumption DEF Init
<1>2. 0 \in Chunks
  <2>1. policy.total \in Totals /\ policy.total \in Nat \ {0}
    BY <1>1, MonitoringAssumption DEF Policies
  <2>2. 0 \in 0..(policy.total - 1)
    BY <2>1
  <2> QED BY <2>1, <2>2 DEF Chunks
<1>3. TypeOK
  <2>1. /\ scans \in Seq(ScanRow) /\ known \in Seq(Hosts)
        /\ alerts \in [Hosts -> Nat] /\ jobs \in [Hosts -> JobStages]
    BY DEF Init, JobStages
  <2>2. losses \in 0..env.losses /\ changes \in 0..env.changes
    BY <1>1 DEF Init
  <2> QED BY <1>1, <1>2, <2>1, <2>2 DEF Init, TypeOK, Idle
<1>4. AnnouncedOnce
  <2>1. Known = {}
    BY DEF Known, Range, Init
  <2> QED BY <2>1, FS_EmptySet DEF AnnouncedOnce, Init
<1> QED BY <1>3, <1>4

\* The variables that enqueueing writes.
ScheduleType == /\ cursor \in Chunks /\ due \in BOOLEAN /\ scans \in Seq(ScanRow)
                /\ scheduler \in [step : {"idle", "commit"}, targets : SUBSET Chunks, next : Chunks]
                /\ operator \in [step : {"idle", "check", "commit"}, targets : SUBSET Chunks, next : Chunks]

LEMMA IdleType == ASSUME TypeOK PROVE Idle \in [step : {"idle"}, targets : SUBSET Chunks, next : Chunks]
<1>1. policy.total \in Totals /\ policy.total \in Nat \ {0}
  BY MonitoringAssumption DEF TypeOK, Policies
<1>2. 0 \in 0..(policy.total - 1)
  BY <1>1
<1>3. 0 \in Chunks
  BY <1>1, <1>2 DEF Chunks
<1> QED BY <1>3 DEF Idle

LEMMA EnqueueType ==
  ASSUME TypeOK, ScheduleRead \/ ScheduleCommit \/ TriggerRead \/ TriggerCheck \/ TriggerCommit
  PROVE  TypeOK'
<1>1. ScheduleType /\ Targets \in SUBSET Chunks /\ NextCursor \in Chunks
      /\ Idle \in [step : {"idle"}, targets : SUBSET Chunks, next : Chunks]
  BY PlanType, IdleType DEF TypeOK, ScheduleType
<1>2. ASSUME ScheduleRead PROVE ScheduleType'
  BY <1>1, <1>2 DEF ScheduleRead, ScheduleType
<1>3. ASSUME ScheduleCommit PROVE ScheduleType'
  <2>1. Append(scans, Scan(scheduler, "scheduler")) \in Seq(ScanRow)
    BY <1>1, ScanType DEF ScheduleType
  <2> QED BY <1>1, <1>3, <2>1 DEF ScheduleCommit, Enqueue, ScheduleType
<1>4. ASSUME TriggerRead PROVE ScheduleType'
  BY <1>1, <1>4 DEF TriggerRead, ScheduleType
<1>5. ASSUME TriggerCheck PROVE ScheduleType'
  BY <1>1, <1>5 DEF TriggerCheck, ScheduleType
<1>6. ASSUME TriggerCommit PROVE ScheduleType'
  <2>1. Append(scans, Scan(operator, "operator")) \in Seq(ScanRow)
    BY <1>1, ScanType DEF ScheduleType
  <2> QED BY <1>1, <1>6, <2>1 DEF TriggerCommit, Enqueue, ScheduleType
<1>7. UNCHANGED <<env, policy, ready, inventory, needs, pool, losses, changes>>
  BY DEF ScheduleRead, ScheduleCommit, TriggerRead, TriggerCheck, TriggerCommit
<1> QED BY <1>2, <1>3, <1>4, <1>5, <1>6, <1>7 DEF TypeOK, ScheduleType, inventory, needs, pool

LEMMA CountType ==
  ASSUME TypeOK
  PROVE  /\ Loses => losses' \in 0..env.losses
         /\ Changes => changes' \in 0..env.changes
  BY MonitoringAssumption DEF TypeOK, Loses, Changes

\* A change of the policy, of the gateway, of time and of what a host needs.
LEMMA ChangeType ==
  ASSUME TypeOK,
         \/ \E p \in env.policies : ChangePolicy(p)
         \/ ChangeGateway \/ IntervalPasses
         \/ \E h \in Hosts : Rescan(h) \/ RescanDaysPass(h)
  PROVE  TypeOK'
<1>1. env.policies \in SUBSET Policies
  BY MonitoringAssumption DEF TypeOK
<1>2. ASSUME NEW p \in env.policies, ChangePolicy(p) PROVE TypeOK'
  BY <1>1, <1>2, CountType DEF ChangePolicy, TypeOK, inventory, needs, pool
<1>3. ASSUME ChangeGateway PROVE TypeOK'
  BY <1>3, CountType DEF ChangeGateway, TypeOK, inventory, needs, pool
<1>4. ASSUME IntervalPasses PROVE TypeOK'
  BY <1>4 DEF IntervalPasses, TypeOK, inventory, needs, pool
<1>5. ASSUME NEW h \in Hosts, Rescan(h) PROVE TypeOK'
  BY <1>5, CountType DEF Rescan, TypeOK, inventory, schedule, pool
<1>6. ASSUME NEW h \in Hosts, RescanDaysPass(h) PROVE TypeOK'
  BY <1>6, CountType DEF RescanDaysPass, TypeOK, inventory, schedule, pool
<1> QED BY <1>2, <1>3, <1>4, <1>5, <1>6

\* What the agent and the acknowledgements do to the scans.
LEMMA ScansStay ==
  ASSUME scans \in Seq(ScanRow), NEW i \in DOMAIN scans
  PROVE  /\ scans[i] \in ScanRow /\ RemoveAt(scans, i) \in Seq(ScanRow)
         /\ \A c \in ScanRow : [scans EXCEPT ![i] = c] \in Seq(ScanRow)
  BY RemoveAtType

LEMMA PollType ==
  ASSUME scans \in Seq(ScanRow), NEW late, Poll(late)
  PROVE  scans' \in Seq(ScanRow)
<1> DEFINE swept == [i \in DOMAIN scans |->
                       IF scans[i].state = "pending" THEN [scans[i] EXCEPT !.state = "held"]
                       ELSE [scans[i] EXCEPT !.expired = @ \/ i \in late]]
           rest == {i \in DOMAIN scans : scans[i].state # "lost"}
<1>1. ASSUME NEW i \in DOMAIN scans PROVE swept[i] \in ScanRow
  <2>1. scans[i] \in ScanRow
    OBVIOUS
  <2>2. [scans[i] EXCEPT !.state = "held"] \in ScanRow
    BY <2>1, RowChanges DEF ScanStates
  <2>3. [scans[i] EXCEPT !.expired = scans[i].expired \/ i \in late] \in ScanRow
    BY <2>1, RowChanges
  <2> QED BY <2>2, <2>3
<1>2. scans' = Subsequence(swept, rest) /\ DOMAIN swept = DOMAIN scans
  BY DEF Poll
<1> HIDE DEF swept
<1>3. swept \in Seq(ScanRow)
  <2>1. Len(scans) \in Nat /\ DOMAIN scans = 1..Len(scans)
    OBVIOUS
  <2>2. swept = [i \in 1..Len(scans) |-> swept[i]]
    BY <2>1 DEF swept
  <2>3. \A i \in 1..Len(scans) : swept[i] \in ScanRow
    BY <1>1, <2>1
  <2> QED BY <2>1, <2>2, <2>3
<1> QED BY <1>2, <1>3, SubsequenceType

LEMMA AgentType ==
  ASSUME TypeOK,
         \/ \E late : Poll(late)
         \/ \E i \in DOMAIN scans, found \in SUBSET env.hosts : Execute(i, found)
         \/ \E i \in DOMAIN scans : FailScan(i)
         \/ Restart
  PROVE  TypeOK'
<1>1. scans \in Seq(ScanRow) /\ env.hosts \in SUBSET Hosts
  BY MonitoringAssumption DEF TypeOK
<1>2. ASSUME NEW late, Poll(late) PROVE TypeOK'
  <2>1. scans' \in Seq(ScanRow)
    BY <1>1, <1>2, PollType
  <2>2. losses' \in 0..env.losses
    BY <1>2, CountType DEF Poll, TypeOK
  <2> QED BY <1>2, <2>1, <2>2 DEF Poll, TypeOK, schedule, inventory, needs, pool
<1>3. ASSUME NEW i \in DOMAIN scans, NEW found \in SUBSET env.hosts, Execute(i, found) PROVE TypeOK'
  <2>1. [scans[i] EXCEPT !.state = "acking", !.found = found] \in ScanRow
    BY <1>1, ScansStay, RowChanges DEF ScanStates
  <2>2. scans' = [scans EXCEPT ![i] = [scans[i] EXCEPT !.state = "acking", !.found = found]]
    BY <1>1, <1>3 DEF Execute
  <2>3. scans' \in Seq(ScanRow)
    BY <1>1, <2>1, <2>2, ScansStay
  <2> QED BY <1>3, <2>3 DEF Execute, TypeOK, schedule, inventory, needs, pool
<1>4. ASSUME NEW i \in DOMAIN scans, FailScan(i) PROVE TypeOK'
  <2>1. scans' \in Seq(ScanRow)
    BY <1>1, <1>4, ScansStay DEF FailScan
  <2> QED BY <1>4, <2>1, CountType DEF FailScan, TypeOK, schedule, inventory, needs, pool
<1>5. ASSUME Restart PROVE TypeOK'
  <2>1. ASSUME NEW i \in DOMAIN scans
        PROVE  (IF scans[i].state = "held" THEN [scans[i] EXCEPT !.state = "lost"] ELSE scans[i]) \in ScanRow
    <3>1. scans[i] \in ScanRow
      BY <1>1
    <3> QED BY <3>1, RowChanges DEF ScanStates
  <2>2. scans' \in Seq(ScanRow)
    BY <1>1, <1>5, <2>1 DEF Restart
  <2>3. jobs' \in [Hosts -> JobStages] /\ fetched' = NoFetch
    BY <1>5 DEF Restart, JobStages
  <2> QED BY <1>5, <2>2, <2>3, CountType DEF Restart, TypeOK, schedule, inventory, needs
<1> QED BY <1>2, <1>3, <1>4, <1>5

LEMMA AckType ==
  ASSUME TypeOK, NEW i \in DOMAIN scans, AckRead(i) \/ AckCommit(i)
  PROVE  TypeOK'
<1>1. scans \in Seq(ScanRow) /\ scans[i] \in ScanRow /\ RemoveAt(scans, i) \in Seq(ScanRow)
  BY ScansStay DEF TypeOK
<1>2. ASSUME AckRead(i) PROVE TypeOK'
  <2>1. Known \in SUBSET Hosts
    BY DEF TypeOK, Known, Range
  <2>2. [scans[i] EXCEPT !.state = "inserting", !.seen = Known] \in ScanRow
    BY <1>1, <2>1, RowChanges DEF ScanStates
  <2>3. scans' = [scans EXCEPT ![i] = [scans[i] EXCEPT !.state = "inserting", !.seen = Known]]
    BY <1>1, <1>2 DEF AckRead
  <2>4. scans' \in Seq(ScanRow)
    BY <1>1, <2>2, <2>3, ScansStay
  <2> QED BY <1>2, <2>4 DEF AckRead, TypeOK, schedule, inventory, needs, pool
<1>3. ASSUME AckCommit(i), (scans[i].found \ scans[i].seen) \cap Known # {} PROVE TypeOK'
  <2>1. [scans[i] EXCEPT !.state = "lost", !.found = {}, !.seen = {}] \in ScanRow
    BY <1>1, RowChanges
  <2>2. scans' \in Seq(ScanRow)
    BY <1>1, <1>3, <2>1, ScansStay DEF AckCommit
  <2> QED BY <1>3, <2>2 DEF AckCommit, TypeOK, schedule, inventory, pool
<1>4. ASSUME AckCommit(i), (scans[i].found \ scans[i].seen) \cap Known = {} PROVE TypeOK'
  <2>1. scans' = RemoveAt(scans, i) /\ RecordHosts(scans[i], RemoveAt(scans, i))
        /\ UNCHANGED <<schedule, recent, pool, losses, changes>>
    BY <1>4 DEF AckCommit
  <2>2. /\ snapshot' \in SUBSET Chunks /\ known' \in Seq(Hosts)
        /\ isNew' \in SUBSET Hosts /\ pending' \in SUBSET Hosts
        /\ alerts' \in [Hosts -> Nat]
    BY <1>1, <2>1, RecordType
  <2> QED BY <1>1, <2>1, <2>2 DEF TypeOK, schedule, pool
<1> QED BY <1>2, <1>3, <1>4

LEMMA PoolType ==
  ASSUME TypeOK, TickStep \/ \E h \in Hosts : JobStep(h)
  PROVE  TypeOK'
<1>1. ASSUME TickFetch PROVE TypeOK'
  <2>1. Subsequence(known, {i \in DOMAIN known : known[i] \in pending}) \in Seq(Hosts)
    BY SubsequenceType DEF TypeOK
  <2>2. VulnQueue \in Seq(Hosts)
    BY <2>1, FirstType, MonitoringAssumption DEF VulnQueue
  <2> QED BY <1>1, <2>2 DEF TickFetch, TypeOK, schedule, inventory, needs
<1>2. ASSUME TickSchedule PROVE TypeOK'
  <2>1. jobs' \in [Hosts -> JobStages]
    BY <1>2 DEF TickSchedule, TypeOK, JobStages
  <2> QED BY <1>2, <2>1 DEF TickSchedule, TypeOK, schedule, inventory, needs
<1>3. ASSUME NEW h \in Hosts, JobStep(h) PROVE TypeOK'
  <2>1. jobs' \in [Hosts -> JobStages]
    BY <1>3 DEF JobStep, JobScan, JobReport, JobReportFailure, TypeOK, JobStages
  <2>2. pending' \in SUBSET Hosts /\ recent' \in SUBSET Hosts
    BY <1>3 DEF JobStep, JobScan, JobReport, JobReportFailure, Done, TypeOK, needs
  <2>3. losses' \in 0..env.losses
    BY <1>3, CountType DEF JobStep, JobScan, JobReport, JobReportFailure, TypeOK
  <2>4. UNCHANGED <<schedule, scans, inventory, fetched, changes>>
    BY <1>3 DEF JobStep, JobScan, JobReport, JobReportFailure
  <2> QED BY <2>1, <2>2, <2>3, <2>4 DEF TypeOK, schedule, inventory
<1> QED BY <1>1, <1>2, <1>3 DEF TickStep

LEMMA TypeStep == ASSUME TypeOK, [Next]_vars PROVE TypeOK'
<1>1. ASSUME UNCHANGED vars PROVE TypeOK'
  BY <1>1 DEF vars, schedule, inventory, needs, pool, TypeOK
<1> QED
  BY <1>1, EnqueueType, ChangeType, AgentType, AckType, PoolType
     DEF Next, SchedulerStep, OperatorStep, AgentStep, AckStep

-----------------------------------------------------------------------------
(* Hosts are recorded and announced together.                               *)

\* The hosts that a commit records are new, or it records nothing.
LEMMA RecordsOnce ==
  ASSUME TypeOK, AnnouncedOnce, NEW s \in ScanRow, NEW others, RecordHosts(s, others),
         (s.found \ s.seen) \cap Known = {}
  PROVE  AnnouncedOnce'
<1> DEFINE new == s.found \ s.seen
           order == SetToSeq(new)
<1>1. new \in SUBSET Hosts /\ IsFiniteSet(new)
  BY MonitoringAssumption, FS_Subset DEF ScanRow
<1>2. /\ order \in Seq(new) /\ order \in Seq(Hosts)
      /\ Len(order) = Cardinality(new) /\ Range(order) = new
  <2>1. order \in Seq(new) /\ Len(order) = Cardinality(new) /\ Range(order) = new
    BY <1>1, Enumerated
  <2> HIDE DEF order, new
  <2> QED BY <1>1, <2>1
<1>3. known \in Seq(Hosts) /\ alerts \in [Hosts -> Nat]
      /\ Len(known) = Cardinality(Known) /\ \A h \in Hosts : alerts[h] = (IF h \in Known THEN 1 ELSE 0)
  BY DEF TypeOK, AnnouncedOnce
<1>4. /\ known' = known \o order
      /\ alerts' = [h \in Hosts |-> IF h \in new THEN alerts[h] + 1 ELSE alerts[h]]
  BY DEF RecordHosts
<1> HIDE DEF order
<1>5. Known' = Known \cup new
  <2>1. Range(known \o order) = Range(known) \cup Range(order)
    BY <1>2, <1>3, RangeOfJoin
  <2> QED BY <1>2, <1>4, <2>1 DEF Known
<1>6. Len(known') = Len(known) + Cardinality(new)
  <2>1. Len(known \o order) = Len(known) + Len(order)
    BY <1>2, <1>3
  <2> QED BY <1>2, <1>4, <2>1
<1>7. Cardinality(Known \cup new) = Cardinality(Known) + Cardinality(new)
  <2>1. Known \in SUBSET Hosts
    BY <1>3 DEF Known, Range
  <2>2. IsFiniteSet(Known)
    BY <2>1, MonitoringAssumption, FS_Subset
  <2>3. Known \cap new = {} /\ Cardinality(Known \cap new) = 0
    BY FS_EmptySet
  <2>4. Cardinality(Known) \in Nat /\ Cardinality(new) \in Nat
    BY <1>1, <2>2, FS_CardinalityType
  <2>5. Cardinality(Known \cup new) = Cardinality(Known) + Cardinality(new) - Cardinality(Known \cap new)
    BY <1>1, <2>2, FS_Union
  <2> QED BY <2>3, <2>4, <2>5
<1>8. \A h \in Hosts : alerts'[h] = (IF h \in Known' THEN 1 ELSE 0)
  BY <1>3, <1>4, <1>5
<1> QED BY <1>3, <1>5, <1>6, <1>7, <1>8 DEF AnnouncedOnce

LEMMA AnnouncedStep == ASSUME TypeOK, AnnouncedOnce, [Next]_vars PROVE AnnouncedOnce'
<1>1. ASSUME UNCHANGED <<known, alerts>> PROVE AnnouncedOnce'
  BY <1>1 DEF AnnouncedOnce, Known
<1>2. ASSUME NEW i \in DOMAIN scans, AckCommit(i), (scans[i].found \ scans[i].seen) \cap Known = {}
      PROVE  AnnouncedOnce'
  <2>1. scans[i] \in ScanRow
    BY DEF TypeOK
  <2> QED BY <1>2, <2>1, RecordsOnce DEF AckCommit
<1>3. ASSUME NEW i \in DOMAIN scans, AckCommit(i), (scans[i].found \ scans[i].seen) \cap Known # {}
      PROVE  UNCHANGED <<known, alerts>>
  BY <1>3 DEF AckCommit, inventory
<1>4. CASE \E i \in DOMAIN scans : AckCommit(i)
  BY <1>1, <1>2, <1>3, <1>4
<1>5. CASE ~\E i \in DOMAIN scans : AckCommit(i)
  <2>1. UNCHANGED <<known, alerts>>
    BY <1>5
       DEF Next, vars, inventory, SchedulerStep, OperatorStep, AgentStep, AckStep, TickStep, JobStep,
           ScheduleRead, ScheduleCommit, TriggerRead, TriggerCheck, TriggerCommit, ChangePolicy,
           ChangeGateway, IntervalPasses, Poll, Execute, FailScan, Restart, AckRead, TickFetch,
           TickSchedule, Rescan, RescanDaysPass, JobScan, JobReport, JobReportFailure
  <2> QED BY <1>1, <2>1
<1> QED BY <1>4, <1>5

-----------------------------------------------------------------------------
\* Every variable keeps its type: the cursor stays within the chunks, wherever a
\* changed policy, a full sweep or an old request leaves it (plan_rotating_chunks).
THEOREM TypeCorrect == Spec => []TypeOK
<1>1. Init => TypeOK
  BY Initially
<1>2. TypeOK /\ [Next]_vars => TypeOK'
  BY TypeStep
<1> QED BY <1>1, <1>2, PTL DEF Spec

\* A host is recorded once and announced once, however many acknowledgements read
\* the known hosts before one of them inserts (process_monitor_scan_ack).
THEOREM HostsAnnouncedOnce == Spec => []AnnouncedOnce
<1>1. Init => TypeOK /\ AnnouncedOnce
  BY Initially
<1>2. TypeOK /\ AnnouncedOnce /\ [Next]_vars => TypeOK' /\ AnnouncedOnce'
  BY TypeStep, AnnouncedStep
<1> QED BY <1>1, <1>2, PTL DEF Spec

\* The pool never works on more hosts than it has workers (VulnWorkerPool.tick):
\* a tick fills no more than the places that are free, with hosts that are not active.
THEOREM PoolKeepsItsSize == Spec => []PoolIsBounded
<1>0. Parallel \in Nat
  BY MonitoringAssumption
<1>1. Init => TypeOK /\ PoolIsBounded
  <2> SUFFICES ASSUME Init PROVE Active = {}
    BY <1>0, Initially, FS_EmptySet DEF PoolIsBounded
  <2> QED BY DEF Init, Active
<1>2. ASSUME TypeOK, PoolIsBounded, Active' \subseteq Active PROVE PoolIsBounded'
  <2>1. Active \in SUBSET Hosts
    BY DEF Active
  <2>2. IsFiniteSet(Active) /\ IsFiniteSet(Active')
    BY <1>2, <2>1, MonitoringAssumption, FS_Subset
  <2>3. Cardinality(Active') <= Cardinality(Active)
    BY <1>2, <2>2, FS_Subset
  <2>4. Cardinality(Active) \in Nat /\ Cardinality(Active') \in Nat
    BY <2>2, FS_CardinalityType
  <2> QED BY <1>0, <1>2, <2>3, <2>4 DEF PoolIsBounded
<1>3. ASSUME TypeOK, PoolIsBounded, TickSchedule PROVE PoolIsBounded'
  <2> DEFINE free == Subsequence(fetched, {i \in DOMAIN fetched : fetched[i] \notin Active})
             chosen == Range(First(Available, free))
  <2>1. fetched \in Seq(Hosts)
    BY <1>3 DEF TickSchedule, TypeOK
  <2>2. free \in Seq(Hosts)
    BY <2>1, SubsequenceType
  <2>3. IsFiniteSet(Active) /\ Cardinality(Active) \in Nat
    BY MonitoringAssumption, FS_Subset, FS_CardinalityType DEF Active
  <2>4. Available \in Nat /\ Cardinality(Active) + Available <= Parallel
    BY <1>0, <1>3, <2>3, MaxWithZero DEF Available, PoolIsBounded
  <2> HIDE DEF free
  <2>5. IsFiniteSet(chosen) /\ Cardinality(chosen) \in Nat /\ Cardinality(chosen) <= Available
    BY <2>2, <2>4, FirstAreFew
  <2>6. Active' = Active \cup (chosen \cap Hosts)
    BY <1>3, JobsStart DEF TickSchedule, TypeOK, Active, free
  <2> HIDE DEF chosen
  <2>7. /\ IsFiniteSet(chosen \cap Hosts) /\ Cardinality(chosen \cap Hosts) \in Nat
        /\ Cardinality(chosen \cap Hosts) <= Cardinality(chosen)
    BY <2>5, FS_Subset, FS_CardinalityType
  <2>8. Cardinality(Active') <= Cardinality(Active) + Cardinality(chosen \cap Hosts)
    BY <2>3, <2>6, <2>7, SizeOfUnion
  <2>9. Cardinality(Active') \in Nat
    BY <2>3, <2>6, <2>7, FS_Union, FS_CardinalityType
  <2> QED BY <1>0, <2>3, <2>4, <2>5, <2>7, <2>8, <2>9 DEF PoolIsBounded
<1>4. ASSUME TypeOK, [Next]_vars, ~TickSchedule PROVE Active' \subseteq Active
  <2>1. CASE UNCHANGED jobs
    BY <2>1 DEF Active
  <2>2. CASE Restart
    BY <2>2 DEF Restart, Active
  <2>3. CASE \E h \in Hosts : JobStep(h)
    <3>1. \E h \in Hosts : jobs[h] # "none" /\ \A g \in Hosts : g # h => jobs'[g] = jobs[g]
      <4>1. PICK h \in Hosts : JobStep(h)
        BY <2>3
      <4>2. jobs[h] # "none" /\ \E stage : jobs' = [jobs EXCEPT ![h] = stage]
        BY <4>1 DEF JobStep, JobScan, JobReport, JobReportFailure
      <4> QED BY <1>4, <4>2 DEF TypeOK
    <3> QED BY <3>1 DEF Active
  <2> QED
    BY <1>4, <2>1, <2>2, <2>3
       DEF Next, vars, pool, SchedulerStep, OperatorStep, AgentStep, AckStep, TickStep,
           ScheduleRead, ScheduleCommit, TriggerRead, TriggerCheck, TriggerCommit, ChangePolicy,
           ChangeGateway, IntervalPasses, Poll, Execute, FailScan, AckRead, AckCommit, TickFetch,
           Rescan, RescanDaysPass
<1>5. TypeOK /\ PoolIsBounded /\ [Next]_vars => TypeOK' /\ PoolIsBounded'
  BY TypeStep, <1>2, <1>3, <1>4
<1> QED BY <1>1, <1>5, PTL DEF Spec
=============================================================================
