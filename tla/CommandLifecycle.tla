-------------------------- MODULE CommandLifecycle --------------------------
(***************************************************************************)
(* What the command queue of one agent promises to the code that enqueues  *)
(* into it: a command is created once, handed to the agent at most once,   *)
(* and then settles exactly once, either with the outcome the agent        *)
(* reported or, without an outcome, because the control plane gave it up.  *)
(* A settled command never changes again.  AgentCommands is the detailed   *)
(* specification of the handlers and the daemon that are meant to          *)
(* implement this one.                                                     *)
(***************************************************************************)

CONSTANT Commands

VARIABLES status,   \* AgentCommand.state, "absent" before the row exists
          result    \* AgentCommand.result: the outcome it reports, if any

vars == <<status, result>>

Outcomes == {"acked", "failed"}

Init ==
  /\ status = [c \in Commands |-> "absent"]
  /\ result = [c \in Commands |-> "none"]

Create(c) ==
  /\ status[c] = "absent"
  /\ status' = [status EXCEPT ![c] = "pending"]
  /\ UNCHANGED result

\* One poll hands over any number of waiting commands together.
HandOver(batch) ==
  /\ \A c \in batch : status[c] = "pending"
  /\ status' = [c \in Commands |-> IF c \in batch THEN "dispatched" ELSE status[c]]
  /\ UNCHANGED result

Report(c, outcome) ==
  /\ status[c] = "dispatched"
  /\ status' = [status EXCEPT ![c] = outcome]
  /\ result' = [result EXCEPT ![c] = outcome]

GiveUp(stale) ==
  /\ \A c \in stale : status[c] = "dispatched"
  /\ status' = [c \in Commands |-> IF c \in stale THEN "failed" ELSE status[c]]
  /\ UNCHANGED result

Next ==
  \/ \E c \in Commands : Create(c)
  \/ \E c \in Commands, outcome \in Outcomes : Report(c, outcome)
  \/ \E batch \in SUBSET Commands : HandOver(batch) \/ GiveUp(batch)

Spec == Init /\ [][Next]_vars
=============================================================================
