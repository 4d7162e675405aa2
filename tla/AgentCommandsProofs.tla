------------------------- MODULE AgentCommandsProofs -------------------------
(***************************************************************************)
(* Proofs about AgentCommands, for any number of commands and of handlers, *)
(* any poll interval and any number of killed handlers; the last part, the *)
(* refinement of CommandLifecycle, is about one handler at a time.         *)
(***************************************************************************)
EXTENDS AgentCommands, TLAPS

\* A command no poll has handed over yet.
Fresh(c) == status[c] \in {"absent", "pending"}

\* The daemon's state decides what it holds and what it waits for, and an ack
\* carries an outcome.
DaemonInv ==
  /\ daemon \notin {"executing", "reporting"} => current = NoCommand
  /\ daemon \in {"executing", "reporting"} => current \in Commands
  /\ daemon \in {"idle", "polling"} => batch = {}
  /\ conn # NoHandler =>
       \/ daemon = "polling" /\ phase[conn] \in PollPhases \cup {"idle"}
       \/ daemon = "reporting" /\ phase[conn] \in AckPhases \cup {"idle"}
  /\ daemon = "reporting" => outcome[current] # "none"
  /\ \A h \in Handlers : phase[h] \in {"ack_get", "ack_commit"} => posted[h] # "none"

\* Rows appear in the order of created_at.
CreationInv ==
  \A c, d \in Commands : status[c] = "absent" /\ c < d => status[d] = "absent"

\* Handlers and daemon only speak of commands that exist.
KnownInv ==
  /\ \A h \in Handlers : \A r \in rows[h] : status[r] # "absent"
  /\ \A c \in batch : status[c] # "absent"
  /\ current \in Commands => status[current] # "absent"

\* A list of pending rows is complete up to the newest row in it; a handler
\* about to reply has dispatched them all.
ListInv ==
  \A h \in Handlers :
    /\ phase[h] = "update" =>
         \A c \in Commands \ rows[h], r \in rows[h] : Fresh(c) => r < c
    /\ phase[h] = "reply" =>
         \A c \in Commands, r \in rows[h] : Fresh(c) => r < c

\* What was started precedes what the daemon holds, which precedes every
\* command not handed over yet.
OrderInv ==
  /\ \A i, j \in DOMAIN log : i < j => log[i] < log[j]
  /\ \A i \in DOMAIN log, c \in batch : log[i] < c
  /\ \A i \in DOMAIN log, c \in Commands : Fresh(c) => log[i] < c
  /\ \A b \in batch, c \in Commands : Fresh(c) => b < c

\* So does what was started precede the list of the poll the daemon awaits.
AwaitedInv ==
  \A h \in Handlers : conn = h /\ phase[h] \in {"update", "reply"} =>
    \A i \in DOMAIN log, r \in rows[h] : log[i] < r

\* The inductive invariant behind ExecutedInOrder.
OrderIInv ==
  /\ TypeOK /\ DaemonInv
  /\ KnownInv /\ CreationInv
  /\ ListInv /\ AwaitedInv /\ OrderInv

\* What is known about outcomes, at the daemon, on the way and on record.
OutcomeInv ==
  /\ \A c \in Commands : outcome[c] # "none" => \E i \in DOMAIN log : log[i] = c
  /\ daemon = "executing" =>
       outcome[current] = "none" /\ \E i \in DOMAIN log : log[i] = current
  /\ \A h \in Handlers : phase[h] \in {"ack_get", "ack_commit"} =>
       \A c \in rows[h] : outcome[c] = posted[h]

OutcomeIInv == OutcomeInv /\ RecordedOutcomeIsReal
-----------------------------------------------------------------------------
(* Types.  The daemon's invariant is needed with them: the ack it sends    *)
(* names the command it executes.                                          *)

LEMMA TypeInit == Init => TypeOK /\ DaemonInv
  BY ConstantsAssumption
     DEF Init, TypeOK, DaemonInv, Statuses, Outcomes, Ages, ExpireAfter, PollPhases,
         AckPhases

LEMMA TypeStep == TypeOK /\ DaemonInv /\ [Next]_vars => TypeOK' /\ DaemonInv'
<1> SUFFICES ASSUME TypeOK, DaemonInv, [Next]_vars
             PROVE  TypeOK' /\ DaemonInv'
  OBVIOUS
<1> USE ConstantsAssumption
    DEF TypeOK, DaemonInv, PollPhases, AckPhases, Outcomes, Statuses,
        rowVars, handlerVars, daemonVars, historyVars
<1>0. 0 \in Ages
  BY DEF Ages, ExpireAfter
<1>1. ASSUME NEW c \in Commands, Enqueue(c) PROVE TypeOK' /\ DaemonInv'
  BY <1>1 DEF Enqueue
<1>2. ASSUME NEW h \in Handlers, PollExpire(h) PROVE TypeOK' /\ DaemonInv'
  <2>1. TypeOK'
    BY <1>2, <1>0 DEF PollExpire, Stale
  <2>2. DaemonInv'
    BY <1>2 DEF PollExpire
  <2>3. QED
    BY <2>1, <2>2
<1>3. ASSUME NEW h \in Handlers, PollRead(h) PROVE TypeOK' /\ DaemonInv'
  BY <1>3 DEF PollRead, NoCommand, Commands
<1>4. ASSUME NEW h \in Handlers, PollUpdate(h) PROVE TypeOK' /\ DaemonInv'
  <2>1. TypeOK'
    BY <1>4, <1>0 DEF PollUpdate
  <2>2. DaemonInv'
    BY <1>4 DEF PollUpdate
  <2>3. QED
    BY <2>1, <2>2
<1>5. ASSUME NEW h \in Handlers, PollReply(h) PROVE TypeOK' /\ DaemonInv'
  <2>1. CASE conn = h
    <3>1. TypeOK'
      BY <1>5, <1>0, <2>1 DEF PollReply, Release
    <3>2. DaemonInv'
      BY <1>5, <1>0, <2>1 DEF PollReply, Release
    <3>3. QED
      BY <3>1, <3>2
  <2>2. CASE conn # h
    <3>1. TypeOK'
      BY <1>5, <1>0, <2>2 DEF PollReply, Release
    <3>2. DaemonInv'
      BY <1>5, <1>0, <2>2 DEF PollReply, Release
    <3>3. QED
      BY <3>1, <3>2
  <2>3. QED
    BY <2>1, <2>2
<1>6. ASSUME NEW h \in Handlers, AckGet(h) PROVE TypeOK' /\ DaemonInv'
  BY <1>6 DEF AckGet, NoCommand, Commands
<1>7. ASSUME NEW h \in Handlers, AckCommit(h) PROVE TypeOK' /\ DaemonInv'
  <2>1. TypeOK'
    BY <1>7, <1>0 DEF AckCommit
  <2>2. DaemonInv'
    BY <1>7 DEF AckCommit
  <2>3. QED
    BY <2>1, <2>2
<1>8. ASSUME NEW h \in Handlers, AckReply(h) PROVE TypeOK' /\ DaemonInv'
  <2>1. CASE conn = h
    <3>1. TypeOK'
      BY <1>8, <1>0, <2>1 DEF AckReply, Release
    <3>2. DaemonInv'
      BY <1>8, <1>0, <2>1 DEF AckReply, Release
    <3>3. QED
      BY <3>1, <3>2
  <2>2. CASE conn # h
    <3>1. TypeOK'
      BY <1>8, <1>0, <2>2 DEF AckReply, Release
    <3>2. DaemonInv'
      BY <1>8, <1>0, <2>2 DEF AckReply, Release
    <3>3. QED
      BY <3>1, <3>2
  <2>3. QED
    BY <2>1, <2>2
<1>9. ASSUME NEW h \in Handlers, KillHandler(h) PROVE TypeOK' /\ DaemonInv'
  BY <1>9, <1>0 DEF KillHandler, Release
<1>10. ASSUME NEW h \in Handlers, StartPoll(h) PROVE TypeOK' /\ DaemonInv'
  BY <1>10 DEF StartPoll, NoCommand, Commands
<1>11. ASSUME NEW c \in Commands, StartCommand(c) PROVE TypeOK' /\ DaemonInv'
  BY <1>11 DEF StartCommand, NoCommand, Commands
<1>12. ASSUME NEW o \in Outcomes, FinishCommand(o) PROVE TypeOK' /\ DaemonInv'
  BY <1>12 DEF FinishCommand, NoCommand, Commands
<1>13. ASSUME NEW h \in Handlers, SendAck(h) PROVE TypeOK' /\ DaemonInv'
  BY <1>13 DEF SendAck, NoCommand, Commands
<1>14. ASSUME EndCycle PROVE TypeOK' /\ DaemonInv'
  BY <1>14 DEF EndCycle, NoCommand, Commands
<1>15. ASSUME RequestFails PROVE TypeOK' /\ DaemonInv'
  BY <1>15 DEF RequestFails, ForgetBatch, NoCommand, Commands
<1>16. ASSUME CrashDaemon PROVE TypeOK' /\ DaemonInv'
  BY <1>16 DEF CrashDaemon, ForgetBatch, NoCommand, Commands
<1>17. ASSUME Tick PROVE TypeOK' /\ DaemonInv'
  <2>1. \A a \in Ages : Older(a) \in Ages
    BY DEF Older, Ages, ExpireAfter
  <2>2. TypeOK'
    BY <1>17, <2>1 DEF Tick, Ages, ExpireAfter
  <2>3. DaemonInv'
    BY <1>17 DEF Tick
  <2>4. QED
    BY <2>2, <2>3
<1>18. CASE UNCHANGED vars
  BY <1>18 DEF vars
<1> QED
  BY <1>1, <1>2, <1>3, <1>4, <1>5, <1>6, <1>7, <1>8, <1>9, <1>10, <1>11, <1>12, <1>13, <1>14, <1>15, <1>16, <1>17, <1>18
     DEF Next, HandlerStep, DaemonStep

\* Every variable keeps its type.
THEOREM TypeCorrect == Spec => []TypeOK
<1>1. TypeOK /\ DaemonInv /\ [Next]_vars => TypeOK' /\ DaemonInv'
  BY TypeStep
<1>2. QED
  BY <1>1, TypeInit, PTL DEF Spec
-----------------------------------------------------------------------------
(* Order of execution.                                                     *)

LEMMA KnownStep == TypeOK /\ DaemonInv /\ KnownInv /\ [Next]_vars => KnownInv'
<1> SUFFICES ASSUME TypeOK, DaemonInv, KnownInv, [Next]_vars
             PROVE  KnownInv'
  OBVIOUS
<1> DEFINE Kept == \A c \in Commands : status[c] # "absent" => status'[c] # "absent"
<1> USE DEF TypeOK, KnownInv, rowVars, handlerVars, daemonVars, historyVars
<1>1. NoCommand \notin Commands
  BY DEF NoCommand, Commands
<1>2. Kept
  <2>1. CASE UNCHANGED status
    BY <2>1
  <2>2. ASSUME NEW c \in Commands, Enqueue(c) PROVE Kept
    BY <2>2 DEF Enqueue
  <2>3. ASSUME NEW h \in Handlers, PollExpire(h) PROVE Kept
    BY <2>3 DEF PollExpire
  <2>4. ASSUME NEW h \in Handlers, PollUpdate(h) PROVE Kept
    BY <2>4 DEF PollUpdate
  <2>5. ASSUME NEW h \in Handlers, AckCommit(h) PROVE Kept
    BY <2>5 DEF AckCommit, Outcomes
  <2>6. QED
    BY <2>1, <2>2, <2>3, <2>4, <2>5
       DEF Next, HandlerStep, DaemonStep, PollRead, PollReply, AckGet, AckReply, KillHandler,
           StartPoll, StartCommand, FinishCommand, SendAck, EndCycle, RequestFails,
           CrashDaemon, ForgetBatch, Tick, vars
<1> HIDE DEF Kept
<1>3. ASSUME NEW h \in Handlers, PollRead(h) PROVE KnownInv'
  BY <1>3 DEF PollRead
<1>4. ASSUME NEW h \in Handlers, PollReply(h) PROVE KnownInv'
  BY <1>4 DEF PollReply, Release
<1>5. ASSUME NEW h \in Handlers, AckReply(h) PROVE KnownInv'
  BY <1>5, <1>1 DEF AckReply, Release
<1>6. ASSUME NEW h \in Handlers, KillHandler(h) PROVE KnownInv'
  BY <1>6 DEF KillHandler, Release
<1>7. ASSUME NEW c \in Commands, StartCommand(c) PROVE KnownInv'
  BY <1>7 DEF StartCommand
<1>8. ASSUME NEW h \in Handlers, SendAck(h) PROVE KnownInv'
  BY <1>8 DEF SendAck, DaemonInv
<1>9. CASE RequestFails \/ CrashDaemon
  BY <1>9, <1>1 DEF RequestFails, CrashDaemon, ForgetBatch
<1>10. CASE UNCHANGED <<rows, batch, current>>
  BY <1>2, <1>10 DEF Kept
<1>11. QED
  BY <1>3, <1>4, <1>5, <1>6, <1>7, <1>8, <1>9, <1>10
     DEF Next, HandlerStep, DaemonStep, Enqueue, PollExpire, PollUpdate, AckGet, AckCommit,
         StartPoll, FinishCommand, EndCycle, Tick, vars

\* A command that was handed over is never fresh again.
LEMMA FreshShrinks ==
  TypeOK /\ DaemonInv /\ [Next]_vars => \A c \in Commands : Fresh(c)' => Fresh(c)
<1> SUFFICES ASSUME TypeOK, DaemonInv, [Next]_vars,
                    NEW c \in Commands, status'[c] \in {"absent", "pending"}
             PROVE  status[c] \in {"absent", "pending"}
  BY DEF Fresh
<1> USE DEF TypeOK
<1>1. ASSUME NEW d \in Commands, Enqueue(d) PROVE status[c] \in {"absent", "pending"}
  BY <1>1 DEF Enqueue
<1>2. ASSUME NEW h \in Handlers, PollExpire(h) PROVE status[c] \in {"absent", "pending"}
  BY <1>2 DEF PollExpire
<1>3. ASSUME NEW h \in Handlers, PollUpdate(h) PROVE status[c] \in {"absent", "pending"}
  BY <1>3 DEF PollUpdate
<1>4. ASSUME NEW h \in Handlers, AckCommit(h) PROVE status[c] \in {"absent", "pending"}
  BY <1>4 DEF AckCommit, DaemonInv, Outcomes
<1>5. CASE UNCHANGED status
  BY <1>5
<1>6. QED
  BY <1>1, <1>2, <1>3, <1>4, <1>5
     DEF Next, HandlerStep, DaemonStep, PollRead, PollReply, AckGet, AckReply, KillHandler,
         StartPoll, StartCommand, FinishCommand, SendAck, EndCycle, RequestFails,
         CrashDaemon, ForgetBatch, Tick, vars, rowVars

LEMMA CreationStep ==
  TypeOK /\ DaemonInv /\ KnownInv /\ CreationInv /\ [Next]_vars => CreationInv'
<1> SUFFICES ASSUME TypeOK, DaemonInv, KnownInv, CreationInv, [Next]_vars
             PROVE  CreationInv'
  OBVIOUS
<1> USE DEF TypeOK, CreationInv
<1>1. ASSUME NEW c \in Commands, Enqueue(c) PROVE CreationInv'
  BY <1>1 DEF Enqueue, Commands
<1>2. ASSUME NEW h \in Handlers, PollExpire(h) PROVE CreationInv'
  BY <1>2 DEF PollExpire, Stale
<1>3. ASSUME NEW h \in Handlers, PollUpdate(h) PROVE CreationInv'
  BY <1>3 DEF PollUpdate, KnownInv
<1>4. ASSUME NEW h \in Handlers, AckCommit(h) PROVE CreationInv'
  BY <1>4 DEF AckCommit, KnownInv, DaemonInv, Outcomes
<1>5. CASE UNCHANGED status
  BY <1>5
<1>6. QED
  BY <1>1, <1>2, <1>3, <1>4, <1>5
     DEF Next, HandlerStep, DaemonStep, PollRead, PollReply, AckGet, AckReply, KillHandler,
         StartPoll, StartCommand, FinishCommand, SendAck, EndCycle, RequestFails,
         CrashDaemon, ForgetBatch, Tick, vars, rowVars
\* Only the two phases of a poll that follow the sweep touch its list.
LEMMA ListChanges ==
  ASSUME TypeOK, [Next]_vars, NEW g \in Handlers
  PROVE  \/ phase'[g] = phase[g] /\ rows'[g] = rows[g]
         \/ phase'[g] \notin {"update", "reply"}
         \/ PollRead(g)
         \/ PollUpdate(g)
  BY DEF TypeOK, Next, HandlerStep, DaemonStep, Enqueue, PollExpire, PollRead, PollUpdate,
         PollReply, AckGet, AckCommit, AckReply, KillHandler, Release, StartPoll,
         StartCommand, FinishCommand, SendAck, EndCycle, RequestFails, CrashDaemon,
         ForgetBatch, Tick, vars, handlerVars

\* Only PollRead makes a list, and then it holds every pending row.
LEMMA ListStep ==
  /\ TypeOK /\ DaemonInv /\ KnownInv /\ CreationInv /\ ListInv
  /\ [Next]_vars
  => ListInv'
<1> SUFFICES ASSUME TypeOK, DaemonInv, KnownInv, CreationInv, ListInv, [Next]_vars,
                    NEW g \in Handlers, NEW r \in rows'[g], NEW c \in Commands, Fresh(c)'
             PROVE  /\ phase'[g] = "update" /\ c \notin rows'[g] => r < c
                    /\ phase'[g] = "reply" => r < c
  BY DEF ListInv
<1>1. Fresh(c)
  BY FreshShrinks
<1>2. ASSUME phase'[g] \in {"update", "reply"}, phase'[g] = phase[g], rows'[g] = rows[g]
      PROVE  /\ phase'[g] = "update" /\ c \notin rows'[g] => r < c
             /\ phase'[g] = "reply" => r < c
  BY <1>1, <1>2 DEF ListInv
<1>3. ASSUME PollRead(g)
      PROVE  /\ phase'[g] = "update" /\ c \notin rows'[g] => r < c
             /\ phase'[g] = "reply" => r < c
  <2>1. phase'[g] = "update" /\ status[r] = "pending" /\ r \in Commands
    BY <1>3 DEF PollRead, TypeOK
  <2>2. c \notin rows'[g] => status[c] = "absent"
    BY <1>1, <1>3 DEF PollRead, Fresh, TypeOK
  <2>3. status[c] = "absent" => r < c
    BY <2>1 DEF CreationInv, Commands
  <2>4. QED
    BY <2>1, <2>2, <2>3
<1>4. ASSUME PollUpdate(g)
      PROVE  /\ phase'[g] = "update" /\ c \notin rows'[g] => r < c
             /\ phase'[g] = "reply" => r < c
  <2>1. phase[g] = "update" /\ rows'[g] = rows[g] /\ phase'[g] = "reply"
    BY <1>4 DEF PollUpdate, TypeOK
  <2>2. c \notin rows[g]
    BY <1>4 DEF PollUpdate, Fresh
  <2>3. QED
    BY <1>1, <2>1, <2>2 DEF ListInv
<1>5. \/ phase'[g] = phase[g] /\ rows'[g] = rows[g]
      \/ phase'[g] \notin {"update", "reply"}
      \/ PollRead(g)
      \/ PollUpdate(g)
  BY ListChanges
<1>6. QED
  BY <1>2, <1>3, <1>4, <1>5

\* While the daemon awaits a poll it starts nothing.
LEMMA AwaitedStep ==
  TypeOK /\ DaemonInv /\ OrderInv /\ AwaitedInv /\ [Next]_vars => AwaitedInv'
<1> SUFFICES ASSUME TypeOK, DaemonInv, OrderInv, AwaitedInv, [Next]_vars,
                    NEW g \in Handlers, conn' = g, phase'[g] \in {"update", "reply"},
                    NEW i \in DOMAIN log', NEW r \in rows'[g]
             PROVE  log'[i] < r
  BY DEF AwaitedInv
<1>1. conn = g /\ log' = log
  BY ConstantsAssumption DEF TypeOK, Next, HandlerStep, DaemonStep, Enqueue, PollExpire, PollRead, PollUpdate,
         PollReply, AckGet, AckCommit, AckReply, KillHandler, Release, StartPoll,
         StartCommand, FinishCommand, SendAck, EndCycle, RequestFails, CrashDaemon,
         ForgetBatch, Tick, vars, daemonVars, historyVars, handlerVars, DaemonInv,
         PollPhases, AckPhases
<1>2. ASSUME PollRead(g) PROVE log'[i] < r
  <2>1. r \in Commands /\ Fresh(r)
    BY <1>2 DEF PollRead, Fresh, TypeOK
  <2>2. QED
    BY <1>1, <2>1 DEF OrderInv
<1>3. ASSUME phase[g] \in {"update", "reply"}, rows'[g] = rows[g]
      PROVE  log'[i] < r
  BY <1>1, <1>3, ConstantsAssumption DEF AwaitedInv
<1>4. PollRead(g) \/ (phase[g] \in {"update", "reply"} /\ rows'[g] = rows[g])
  <2>1. PollUpdate(g) => phase[g] = "update" /\ rows'[g] = rows[g]
    BY DEF PollUpdate
  <2>2. \/ phase'[g] = phase[g] /\ rows'[g] = rows[g]
        \/ phase'[g] \notin {"update", "reply"}
        \/ PollRead(g)
        \/ PollUpdate(g)
    BY ListChanges
  <2>3. QED
    BY <2>1, <2>2
<1>5. QED
  BY <1>2, <1>3, <1>4

LEMMA OrderStep ==
  TypeOK /\ DaemonInv /\ ListInv /\ AwaitedInv /\ OrderInv /\ [Next]_vars => OrderInv'
<1> SUFFICES ASSUME TypeOK, DaemonInv, ListInv, AwaitedInv, OrderInv, [Next]_vars
             PROVE  OrderInv'
  OBVIOUS
<1>1. \A c \in Commands : Fresh(c)' => Fresh(c)
  BY FreshShrinks
<1>2. CASE log' = log /\ batch' \subseteq batch
  BY <1>1, <1>2 DEF OrderInv
<1>3. ASSUME NEW h \in Handlers, PollReply(h), conn = h PROVE OrderInv'
  <2>1. log' = log /\ batch' = rows[h] /\ phase[h] = "reply"
    BY <1>3 DEF PollReply, historyVars
  <2>2. \A i \in DOMAIN log, r \in rows[h] : log[i] < r
    BY <1>3, <2>1, ConstantsAssumption DEF AwaitedInv
  <2>3. \A r \in rows[h], c \in Commands : Fresh(c)' => r < c
    BY <1>1, <2>1 DEF ListInv
  <2>4. QED
    BY <1>1, <2>1, <2>2, <2>3 DEF OrderInv
<1>4. ASSUME NEW c \in Commands, StartCommand(c) PROVE OrderInv'
  <2>1. /\ c \in batch /\ \A d \in batch : c <= d
        /\ batch' = batch \ {c}
        /\ log' = Append(log, c) /\ status' = status
    BY <1>4 DEF StartCommand, rowVars
  <2>2. /\ log \in Seq(Commands) /\ DOMAIN log' = 1..(Len(log) + 1) /\ DOMAIN log = 1..Len(log)
        /\ Len(log) \in Nat
        /\ \A i \in DOMAIN log' : log'[i] = IF i \in DOMAIN log THEN log[i] ELSE c
    BY <2>1 DEF TypeOK
  <2>3. \A i \in DOMAIN log : log[i] < c
    BY <2>1 DEF OrderInv
  <2>4. \A i, j \in DOMAIN log' : i < j => log'[i] < log'[j]
    BY <2>2, <2>3 DEF OrderInv
  <2>5. \A d \in batch' : c < d /\ d \in Commands
    BY <2>1 DEF TypeOK, Commands
  <2>6. \A i \in DOMAIN log', d \in batch' : log'[i] < d
    BY <2>1, <2>2, <2>5 DEF OrderInv
  <2>7. \A i \in DOMAIN log', d \in Commands : Fresh(d)' => log'[i] < d
    BY <1>1, <2>1, <2>2 DEF OrderInv
  <2>8. \A b \in batch', d \in Commands : Fresh(d)' => b < d
    BY <1>1, <2>1 DEF OrderInv
  <2>9. QED
    BY <2>4, <2>6, <2>7, <2>8 DEF OrderInv
<1>5. QED
  BY <1>2, <1>3, <1>4
     DEF Next, HandlerStep, DaemonStep, Enqueue, PollExpire, PollRead, PollUpdate,
         PollReply, AckGet, AckCommit, AckReply, KillHandler, StartPoll, StartCommand,
         FinishCommand, SendAck, EndCycle, RequestFails, CrashDaemon, ForgetBatch, Tick,
         vars, daemonVars, historyVars

LEMMA OrderInit == Init => OrderIInv
<1> SUFFICES ASSUME Init PROVE OrderIInv
  OBVIOUS
<1>1. TypeOK /\ DaemonInv
  BY TypeInit
<1>2. KnownInv /\ CreationInv /\ ListInv /\ AwaitedInv /\ OrderInv
  BY DEF Init, KnownInv, CreationInv, ListInv, AwaitedInv, OrderInv, NoCommand, Commands
<1>3. QED
  BY <1>1, <1>2 DEF OrderIInv

LEMMA OrderInductive == Spec => []OrderIInv
<1>1. OrderIInv /\ [Next]_vars => OrderIInv'
  BY TypeStep, KnownStep, CreationStep, ListStep, AwaitedStep, OrderStep DEF OrderIInv
<1>2. QED
  BY <1>1, OrderInit, PTL DEF Spec

\* The daemon never runs a command twice and never out of creation order,
\* whatever requests overlap, fail or are killed.
THEOREM ExecutionOrder == Spec => []ExecutedInOrder
<1>1. OrderIInv => ExecutedInOrder
  BY DEF OrderIInv, OrderInv, ExecutedInOrder
<1>2. QED
  BY <1>1, OrderInductive, PTL

-----------------------------------------------------------------------------
(* Outcomes.  A command that starts has no outcome yet, because it was     *)
(* never started before: this is where the order of execution is needed.   *)

LEMMA OutcomeStep ==
  OrderIInv /\ OutcomeIInv /\ [Next]_vars => OutcomeIInv'
<1> SUFFICES ASSUME OrderIInv, OutcomeIInv, [Next]_vars
             PROVE  OutcomeIInv'
  OBVIOUS
<1> USE DEF OutcomeIInv, OutcomeInv, RecordedOutcomeIsReal, OrderIInv, TypeOK, rowVars,
            handlerVars, daemonVars, historyVars
<1>1. ASSUME NEW c \in Commands, StartCommand(c) PROVE OutcomeIInv'
  <2>1. c \in batch /\ log' = Append(log, c) /\ current' = c
    BY <1>1 DEF StartCommand
  <2>2. \A i \in DOMAIN log : log[i] # c
    BY <2>1 DEF OrderInv, Commands
  <2>3. outcome[c] = "none"
    BY <2>2
  <2>4. /\ DOMAIN log' = 1..(Len(log) + 1) /\ DOMAIN log = 1..Len(log) /\ Len(log) \in Nat
        /\ \A i \in DOMAIN log : log'[i] = log[i]
        /\ log'[Len(log) + 1] = c
    BY <2>1
  <2>5. /\ \A i \in DOMAIN log : i \in DOMAIN log'
        /\ Len(log) + 1 \in DOMAIN log'
    BY <2>4
  <2>6. \A d \in Commands : outcome[d] # "none" => \E i \in DOMAIN log' : log'[i] = d
    BY <2>4, <2>5
  <2>7. \E i \in DOMAIN log' : log'[i] = c
    BY <2>4, <2>5
  <2>8. /\ UNCHANGED <<status, result, outcome, phase, posted, rows>>
        /\ daemon' = "executing"
    BY <1>1 DEF StartCommand
  <2>9. QED
    BY <2>1, <2>3, <2>6, <2>7, <2>8
<1>2. ASSUME NEW o \in Outcomes, FinishCommand(o) PROVE OutcomeIInv'
  <2>1. current \in Commands /\ outcome[current] = "none" /\ o # "none"
    BY <1>2 DEF FinishCommand, DaemonInv, Outcomes
  <2>2. \E i \in DOMAIN log : log[i] = current
    BY <1>2 DEF FinishCommand, OutcomeInv
  <2>3. QED
    BY <1>2, <2>1, <2>2 DEF FinishCommand, DaemonInv
<1>3. ASSUME NEW h \in Handlers, SendAck(h) PROVE OutcomeIInv'
  BY <1>3 DEF SendAck, DaemonInv
<1>4. ASSUME NEW h \in Handlers, AckCommit(h) PROVE OutcomeIInv'
  BY <1>4 DEF AckCommit, DaemonInv
<1>5. ASSUME NEW h \in Handlers, PollExpire(h) \/ PollUpdate(h) PROVE OutcomeIInv'
  BY <1>5 DEF PollExpire, PollUpdate, Stale
<1>6. ASSUME NEW c \in Commands, Enqueue(c) PROVE OutcomeIInv'
  BY <1>6 DEF Enqueue
<1>7. ASSUME NEW h \in Handlers, AckGet(h) \/ PollRead(h) \/ StartPoll(h) PROVE OutcomeIInv'
  BY <1>7 DEF AckGet, PollRead, StartPoll
<1>8. ASSUME NEW h \in Handlers, PollReply(h) \/ AckReply(h) \/ KillHandler(h)
      PROVE  OutcomeIInv'
  BY <1>8 DEF PollReply, AckReply, KillHandler, Release
<1>9. CASE EndCycle \/ RequestFails \/ CrashDaemon \/ Tick
  BY <1>9 DEF EndCycle, RequestFails, CrashDaemon, ForgetBatch, Tick
<1>10. CASE UNCHANGED vars
  BY <1>10 DEF vars
<1>11. QED
  BY <1>1, <1>2, <1>3, <1>4, <1>5, <1>6, <1>7, <1>8, <1>9, <1>10
     DEF Next, HandlerStep, DaemonStep

\* What the control plane records about a command is what its one execution
\* reported, and ACKED is recorded for a successful report only.
THEOREM OutcomesAreReal == Spec => []RecordedOutcomeIsReal
<1>1. Init => OutcomeIInv
  BY DEF Init, OutcomeIInv, OutcomeInv, RecordedOutcomeIsReal
<1>2. OrderIInv /\ OutcomeIInv /\ [Next]_vars => OutcomeIInv'
  BY OutcomeStep
<1>3. OutcomeIInv => RecordedOutcomeIsReal
  BY DEF OutcomeIInv
<1>4. QED
  BY <1>1, <1>2, <1>3, OrderInductive, PTL DEF Spec

-----------------------------------------------------------------------------
(* AgentCommands implements CommandLifecycle as long as requests of one    *)
(* agent do not overlap: for one handler, any number of commands, any poll *)
(* interval, and any number of kills, lost requests and restarts.  With    *)
(* one handler a daemon that holds commands has no poll under way, so that *)
(* nobody sweeps or hands over again what it holds.                        *)

\* The server handles one request of the agent at a time.
OneHandler == \A g, h \in Handlers : g = h

\* While the daemon holds commands no request is under way but the ack of the
\* command it has run.
CalmInv ==
  \A h \in Handlers :
    daemon \in {"batch", "executing"} \/ (daemon = "reporting" /\ conn = NoHandler)
      => phase[h] = "idle"

\* What a request is about has not changed since it looked.
RequestInv ==
  \A h \in Handlers :
    /\ phase[h] = "update" => \A r \in rows[h] : status[r] = "pending"
    /\ phase[h] = "reply" => \A r \in rows[h] : status[r] = "dispatched"
    /\ phase[h] \in {"ack_get", "ack_commit"} =>
         \E c \in Commands : rows[h] = {c} /\ status[c] = "dispatched"
    /\ phase[h] = "ack_reply" =>
         \A c \in rows[h] : status[c] = outcome[c] /\ result[c] = outcome[c]
    /\ conn = h /\ phase[h] \in AckPhases => rows[h] = {current}

\* What is run is no longer in the batch, and dispatched until its ack is sent.
CurrentInv ==
  /\ current \notin batch
  /\ daemon = "reporting" /\ conn = NoHandler => status[current] = "dispatched"

SerialInv == CalmInv /\ RequestInv /\ CurrentInv /\ HeldUntilRecorded

\* What is known of every server.
QueueIInv == OrderIInv /\ OutcomeIInv

LEMMA SerialInit == Init => SerialInv
  BY DEF Init, SerialInv, CalmInv, RequestInv, CurrentInv, HeldUntilRecorded, AckPhases

-----------------------------------------------------------------------------
(* Each invariant is kept by every step.                                    *)

LEMMA CalmStep ==
  ASSUME OneHandler, TypeOK, DaemonInv, CalmInv, [Next]_vars
  PROVE  CalmInv'
<1> USE ConstantsAssumption
    DEF OneHandler, TypeOK, DaemonInv, CalmInv, PollPhases, AckPhases, handlerVars, daemonVars
<1>1. ASSUME NEW h \in Handlers, PollReply(h) \/ AckReply(h) \/ KillHandler(h) PROVE CalmInv'
  BY <1>1 DEF PollReply, AckReply, KillHandler, Release
<1>2. ASSUME NEW h \in Handlers, PollExpire(h) \/ PollRead(h) \/ PollUpdate(h) PROVE CalmInv'
  BY <1>2 DEF PollExpire, PollRead, PollUpdate
<1>3. ASSUME NEW h \in Handlers, AckGet(h) \/ AckCommit(h) PROVE CalmInv'
  BY <1>3 DEF AckGet, AckCommit
<1>4. ASSUME NEW h \in Handlers, StartPoll(h) \/ SendAck(h) PROVE CalmInv'
  BY <1>4 DEF StartPoll, SendAck
<1>5. ASSUME NEW c \in Commands, StartCommand(c) \/ Enqueue(c) PROVE CalmInv'
  BY <1>5 DEF StartCommand, Enqueue
<1>6. ASSUME NEW o \in Outcomes, FinishCommand(o) PROVE CalmInv'
  BY <1>6 DEF FinishCommand
<1>7. CASE EndCycle \/ RequestFails \/ CrashDaemon \/ Tick
  BY <1>7 DEF EndCycle, RequestFails, CrashDaemon, ForgetBatch, Tick
<1>8. CASE UNCHANGED vars
  BY <1>8 DEF vars
<1>9. QED
  BY <1>1, <1>2, <1>3, <1>4, <1>5, <1>6, <1>7, <1>8 DEF Next, HandlerStep, DaemonStep

LEMMA RequestStep ==
  ASSUME OneHandler, QueueIInv, SerialInv, [Next]_vars
  PROVE  RequestInv'
<1> USE ConstantsAssumption
    DEF OneHandler, QueueIInv, OrderIInv, OutcomeIInv, TypeOK, DaemonInv, RequestInv, SerialInv, PollPhases, AckPhases, rowVars, handlerVars,
        daemonVars, historyVars
<1>1. ASSUME NEW h \in Handlers, PollReply(h) \/ AckReply(h) \/ KillHandler(h) PROVE RequestInv'
  BY <1>1 DEF PollReply, AckReply, KillHandler, Release
<1>2. ASSUME NEW h \in Handlers, PollExpire(h) PROVE RequestInv'
  BY <1>2 DEF PollExpire
<1>3. ASSUME NEW h \in Handlers, PollRead(h) PROVE RequestInv'
  BY <1>3 DEF PollRead
<1>4. ASSUME NEW h \in Handlers, PollUpdate(h) PROVE RequestInv'
  BY <1>4 DEF PollUpdate
<1>5. ASSUME NEW h \in Handlers, AckGet(h) PROVE RequestInv'
  BY <1>5 DEF AckGet, Terminal, Outcomes
<1>6. ASSUME NEW h \in Handlers, AckCommit(h) PROVE RequestInv'
  BY <1>6 DEF AckCommit, OutcomeInv
<1>7. ASSUME NEW h \in Handlers, StartPoll(h) PROVE RequestInv'
  BY <1>7 DEF StartPoll
<1>8. ASSUME NEW h \in Handlers, SendAck(h) PROVE RequestInv'
  BY <1>8 DEF SendAck, CurrentInv
<1>9. ASSUME NEW c \in Commands, StartCommand(c) PROVE RequestInv'
  BY <1>9 DEF StartCommand, CalmInv
<1>10. ASSUME NEW c \in Commands, Enqueue(c) PROVE RequestInv'
  BY <1>10 DEF Enqueue, KnownInv
<1>11. ASSUME NEW o \in Outcomes, FinishCommand(o) PROVE RequestInv'
  BY <1>11 DEF FinishCommand, CalmInv
<1>12. CASE EndCycle \/ RequestFails \/ CrashDaemon \/ Tick
  BY <1>12 DEF EndCycle, RequestFails, CrashDaemon, ForgetBatch, Tick
<1>13. CASE UNCHANGED vars
  BY <1>13 DEF vars
<1>14. QED
  BY <1>1, <1>2, <1>3, <1>4, <1>5, <1>6, <1>7, <1>8, <1>9, <1>10, <1>11, <1>12, <1>13
     DEF Next, HandlerStep, DaemonStep

LEMMA CurrentStep ==
  ASSUME OneHandler, QueueIInv, SerialInv, [Next]_vars
  PROVE  CurrentInv'
<1> USE ConstantsAssumption
    DEF OneHandler, QueueIInv, OrderIInv, TypeOK, DaemonInv, SerialInv, CurrentInv, rowVars, handlerVars,
        daemonVars, historyVars, PollPhases, AckPhases
<1>0. NoCommand \notin Commands
  BY DEF NoCommand, Commands
<1>1. ASSUME NEW h \in Handlers, PollReply(h) PROVE CurrentInv'
  BY <1>0, <1>1 DEF PollReply
<1>2. ASSUME NEW h \in Handlers, AckReply(h) PROVE CurrentInv'
  BY <1>0, <1>2 DEF AckReply
<1>3. ASSUME NEW h \in Handlers, PollExpire(h) \/ PollUpdate(h) \/ AckCommit(h) PROVE CurrentInv'
  BY <1>3 DEF PollExpire, PollUpdate, AckCommit, CalmInv
<1>4. ASSUME NEW h \in Handlers, PollRead(h) \/ AckGet(h) \/ KillHandler(h) PROVE CurrentInv'
  BY <1>4 DEF PollRead, AckGet, KillHandler
<1>5. ASSUME NEW h \in Handlers, StartPoll(h) \/ SendAck(h) PROVE CurrentInv'
  BY <1>5 DEF StartPoll, SendAck
<1>6. ASSUME NEW c \in Commands, StartCommand(c) PROVE CurrentInv'
  BY <1>6 DEF StartCommand
<1>7. ASSUME NEW c \in Commands, Enqueue(c) PROVE CurrentInv'
  BY <1>7 DEF Enqueue
<1>8. ASSUME NEW o \in Outcomes, FinishCommand(o) PROVE CurrentInv'
  BY <1>8 DEF FinishCommand, HeldUntilRecorded
<1>9. CASE EndCycle \/ RequestFails \/ CrashDaemon \/ Tick
  BY <1>0, <1>9 DEF EndCycle, RequestFails, CrashDaemon, ForgetBatch, Tick
<1>10. CASE UNCHANGED vars
  BY <1>10 DEF vars
<1>11. QED
  BY <1>1, <1>2, <1>3, <1>4, <1>5, <1>6, <1>7, <1>8, <1>9, <1>10
     DEF Next, HandlerStep, DaemonStep

\* A command whose ack was confirmed has its outcome for good.
LEMMA HeldStep ==
  ASSUME OneHandler, QueueIInv, SerialInv, [Next]_vars
  PROVE  HeldUntilRecorded'
<1> USE ConstantsAssumption
    DEF OneHandler, QueueIInv, OrderIInv, TypeOK, DaemonInv, SerialInv, HeldUntilRecorded, rowVars,
        handlerVars, daemonVars, historyVars, PollPhases, AckPhases
<1>1. ASSUME NEW h \in Handlers, PollReply(h) PROVE HeldUntilRecorded'
  BY <1>1 DEF PollReply, RequestInv
<1>2. ASSUME NEW h \in Handlers, AckReply(h) PROVE HeldUntilRecorded'
  BY <1>2 DEF AckReply, RequestInv
<1>3. ASSUME NEW h \in Handlers, PollExpire(h) PROVE HeldUntilRecorded'
  BY <1>3 DEF PollExpire, Stale, CalmInv, Outcomes
<1>4. ASSUME NEW h \in Handlers, PollUpdate(h) PROVE HeldUntilRecorded'
  BY <1>4 DEF PollUpdate, CalmInv, RequestInv, Outcomes
<1>5. ASSUME NEW h \in Handlers, AckCommit(h) PROVE HeldUntilRecorded'
  BY <1>5 DEF AckCommit, CalmInv, RequestInv, CurrentInv, Outcomes
<1>6. ASSUME NEW h \in Handlers, PollRead(h) \/ AckGet(h) \/ KillHandler(h) PROVE HeldUntilRecorded'
  BY <1>6 DEF PollRead, AckGet, KillHandler
<1>7. ASSUME NEW h \in Handlers, StartPoll(h) \/ SendAck(h) PROVE HeldUntilRecorded'
  BY <1>7 DEF StartPoll, SendAck
<1>8. ASSUME NEW c \in Commands, StartCommand(c) PROVE HeldUntilRecorded'
  BY <1>8 DEF StartCommand
<1>9. ASSUME NEW c \in Commands, Enqueue(c) PROVE HeldUntilRecorded'
  BY <1>9 DEF Enqueue, Outcomes
<1>10. ASSUME NEW o \in Outcomes, FinishCommand(o) PROVE HeldUntilRecorded'
  BY <1>10 DEF FinishCommand, OutcomeIInv, OutcomeInv, Statuses, Outcomes
<1>11. CASE EndCycle \/ RequestFails \/ CrashDaemon \/ Tick
  BY <1>11 DEF EndCycle, RequestFails, CrashDaemon, ForgetBatch, Tick
<1>12. CASE UNCHANGED vars
  BY <1>12 DEF vars
<1>13. QED
  BY <1>1, <1>2, <1>3, <1>4, <1>5, <1>6, <1>7, <1>8, <1>9, <1>10, <1>11, <1>12
     DEF Next, HandlerStep, DaemonStep

LEMMA SerialInductive == ASSUME OneHandler PROVE Spec => [](QueueIInv /\ SerialInv)
<1>1. Init => QueueIInv /\ SerialInv
  BY OrderInit, SerialInit DEF QueueIInv, Init, OutcomeIInv, OutcomeInv, RecordedOutcomeIsReal
<1>2. QueueIInv /\ SerialInv /\ [Next]_vars => (QueueIInv /\ SerialInv)'
  <2> SUFFICES ASSUME QueueIInv, SerialInv, [Next]_vars PROVE QueueIInv' /\ SerialInv'
    OBVIOUS
  <2>1. QueueIInv'
    BY TypeStep, KnownStep, CreationStep, ListStep, AwaitedStep, OrderStep, OutcomeStep
       DEF QueueIInv, OrderIInv
  <2>2. SerialInv'
    BY CalmStep, RequestStep, CurrentStep, HeldStep DEF QueueIInv, OrderIInv, SerialInv
  <2>3. QED
    BY <2>1, <2>2
<1>3. QED
  BY <1>1, <1>2, PTL DEF Spec

\* The sweep fails nothing that the daemon holds, and an ack that was answered
\* is on record for good, if requests of one agent do not overlap.
THEOREM HeldIsSafe == ASSUME OneHandler PROVE Spec => []HeldUntilRecorded
<1>1. SerialInv => HeldUntilRecorded
  BY DEF SerialInv
<1>2. QED
  BY <1>1, SerialInductive, PTL

-----------------------------------------------------------------------------
(* The refinement.                                                         *)

LEMMA LifecycleInit == Init => Lifecycle!Init
  BY DEF Init, Lifecycle!Init

\* Each step of a handler or of the daemon is a step of the life cycle, or
\* none for it.
LEMMA LifecycleStep ==
  ASSUME OneHandler, QueueIInv, SerialInv, [Next]_vars
  PROVE  [Lifecycle!Next]_(Lifecycle!vars)
<1> USE DEF QueueIInv, OrderIInv, TypeOK, DaemonInv, SerialInv, RequestInv, rowVars
<1>1. ASSUME NEW c \in Commands, Enqueue(c) PROVE Lifecycle!Next
  <2>1. Lifecycle!Create(c)
    BY <1>1 DEF Enqueue, Lifecycle!Create
  <2>2. QED
    BY <2>1 DEF Lifecycle!Next
<1>2. ASSUME NEW h \in Handlers, PollExpire(h) PROVE Lifecycle!Next
  <2> DEFINE stale == {c \in Commands : Stale(c)}
  <2>1. Lifecycle!GiveUp(stale)
    BY <1>2 DEF PollExpire, Stale, Lifecycle!GiveUp
  <2>2. stale \in SUBSET Commands
    OBVIOUS
  <2>3. QED
    BY <2>1, <2>2 DEF Lifecycle!Next
<1>3. ASSUME NEW h \in Handlers, PollUpdate(h) PROVE Lifecycle!Next
  <2>1. Lifecycle!HandOver(rows[h])
    BY <1>3 DEF PollUpdate, Lifecycle!HandOver
  <2>2. rows[h] \in SUBSET Commands
    OBVIOUS
  <2>3. QED
    BY <2>1, <2>2 DEF Lifecycle!Next
<1>4. ASSUME NEW h \in Handlers, AckCommit(h) PROVE Lifecycle!Next
  <2>1. PICK c \in Commands : rows[h] = {c} /\ status[c] = "dispatched"
    BY <1>4 DEF AckCommit
  <2>2. posted[h] \in Lifecycle!Outcomes
    BY <1>4 DEF AckCommit, Outcomes, Lifecycle!Outcomes
  <2>3. Lifecycle!Report(c, posted[h])
    BY <1>4, <2>1 DEF AckCommit, Lifecycle!Report
  <2>4. QED
    BY <2>2, <2>3 DEF Lifecycle!Next
<1>5. CASE UNCHANGED <<status, result>>
  BY <1>5 DEF Lifecycle!vars
<1>6. QED
  BY <1>1, <1>2, <1>3, <1>4, <1>5
     DEF Next, HandlerStep, DaemonStep, PollRead, PollReply, AckGet, AckReply, KillHandler,
         StartPoll, StartCommand, FinishCommand, SendAck, EndCycle, RequestFails,
         CrashDaemon, ForgetBatch, Tick, vars

\* Handlers and daemon implement the life cycle the rest of the control plane
\* relies on, if requests of one agent do not overlap.
THEOREM Refinement == ASSUME OneHandler PROVE Spec => ImplementsLifecycle
<1>1. QueueIInv /\ SerialInv /\ [Next]_vars => [Lifecycle!Next]_(Lifecycle!vars)
  BY LifecycleStep
<1>2. QED
  BY <1>1, LifecycleInit, SerialInductive, PTL DEF Spec, ImplementsLifecycle, Lifecycle!Spec
=============================================================================
