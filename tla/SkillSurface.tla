------------------------------- MODULE SkillSurface -------------------------------
(***************************************************************************)
(* Which skills of the planning kit a tool is shown (gsd-core/bin/lib:     *)
(* surface, install-profiles, runtime-artifact-layout, clusters, and       *)
(* skills/gsd-surface, which says what each command does with them).  A    *)
(* command changes the record of what is shown, in one step; then what     *)
(* that means is worked out, copied into the tool's directories one entry  *)
(* at a time, and the kit's other entries there are removed.  Users keep   *)
(* skills of their own in the same directories.                            *)
(***************************************************************************)
EXTENDS Integers, FiniteSets, SequencesExt

CONSTANTS Procs,
          Requires,  \* the skills each skill of the source needs
          Calls,     \* the agents it names
          Agents,    \* those the source has
          Profiles,  \* the skills of a profile
          Clusters   \* the skills of a cluster

VARIABLES
  env,    \* the tool, the commands, and how much may happen
  disk,   \* the profile of the installation, the record, and the directories
  procs,  \* what each command is doing
  past    \* what has happened

vars == <<env, disk, procs, past>>

Stems == DOMAIN Requires
NoRecord == [base |-> <<>>, disabled |-> {}, adds |-> {}, removes |-> {}]
Idle == [at |-> "idle", record |-> NoRecord, shown |-> {}, kinds |-> <<>>, copies |-> {}, entries |-> {}]
Ended == {"idle", "done", "failed", "killed"}
At(p, at) == procs[p].at = at
GoesTo(p, at) == procs' = [procs EXCEPT ![p].at = at]
Quiet == \A p \in Procs : procs[p].at \in Ended

-----------------------------------------------------------------------------
(* What is shown.                                                           *)

\* All that a set of skills needs in the end.
Closure(S) ==
  LET grow[n \in 0..Cardinality(Stems)] ==
        IF n = 0 THEN S ELSE grow[n - 1] \cup UNION {Requires[s] : s \in grow[n - 1] \cap Stems}
  IN  grow[Cardinality(Stems)]

\* A profile that does not exist counts for nothing; without any all is shown.
ResolveProfile(modes) ==
  LET valid == ToSet(modes) \cap DOMAIN Profiles
  IN  IF valid = {} \/ "full" \in ToSet(modes) THEN Stems ELSE UNION {Closure(Profiles[m]) : m \in valid}

\* A record without a profile is none at all.
Surface == IF disk.record.base = <<>> THEN NoRecord ELSE disk.record
ActiveProfile == disk.marker
BaseProfile == IF Surface.base # <<>> THEN Surface.base ELSE IF ActiveProfile # <<>> THEN ActiveProfile ELSE <<"full">>

ClustersToSkills(names) == UNION {Clusters[c] : c \in names \cap DOMAIN Clusters}

\* Mutant: what is added comes without what it needs.
AddsAlone == ((ResolveProfile(BaseProfile) \ ClustersToSkills(Surface.disabled)) \cup Surface.adds) \ Surface.removes

\* The profile, without the clusters that are off, with what was added and all
\* that needs, without what was removed.
Shown == ((ResolveProfile(BaseProfile) \ ClustersToSkills(Surface.disabled)) \cup Closure(Surface.adds)) \ Surface.removes

ShownAgents(shown) == UNION {Calls[s] : s \in shown \cap Stems} \cap Agents

-----------------------------------------------------------------------------
(* The directories of a tool.                                               *)

Kind(kind, prefix, shared) == [kind |-> kind, prefix |-> prefix, shared |-> shared]

\* Some tools keep commands in a directory of the kit's own, some in one that
\* is the user's, some take skills, one takes nothing.
Layout(runtime, scope) ==
  CASE runtime = "claude" /\ scope = "local" -> <<Kind("commands", "gsd-", FALSE), Kind("agents", "gsd-", TRUE)>>
    [] runtime = "gemini" -> <<Kind("commands", "gsd-", FALSE)>>
    [] runtime \in {"opencode", "kilo"} -> <<Kind("commands", "gsd-", TRUE)>>
    [] runtime = "hermes" -> <<Kind("skills", "", TRUE)>>
    [] runtime = "cline" -> <<>>
    [] OTHER -> <<Kind("skills", "gsd-", TRUE)>>

Kinds == ToSet(Layout(env.runtime, env.scope))

Entry(prefix, stem) == [prefix |-> prefix, stem |-> stem]

\* What is put into a directory of this kind.
Staged(k, shown) ==
  CASE k.kind = "skills" -> {Entry(k.prefix, s) : s \in shown \cap Stems}
    [] k.kind = "commands" -> {Entry("", s) : s \in shown \cap Stems}
    [] k.kind = "agents" -> {Entry("gsd-", a) : a \in ShownAgents(shown)}

\* Mutant: the prefix makes an entry the kit's.
ByPrefix(k, e) == IF k.kind = "skills" THEN e.prefix = k.prefix ELSE k.kind = "commands" \/ e.prefix = "gsd-"

\* A skill is the kit's by prefix and name, an agent by prefix; all commands are.
Owned(k, e) ==
  CASE k.kind = "skills" -> e.prefix = k.prefix /\ e.stem \in Stems
    [] k.kind = "commands" -> TRUE
    [] k.kind = "agents" -> e.prefix = "gsd-"

\* The source is where the tool's marker says, or above the program.
SourceFound == env.source # "none"

-----------------------------------------------------------------------------
(* The commands.                                                            *)

\* What a command makes of the record it read; without a record it starts from
\* the profile of the installation.
Changed(c, record) ==
  LET from == IF record = NoRecord THEN [NoRecord EXCEPT !.base = ActiveProfile] ELSE record
  IN  CASE c.does = "profile" -> [from EXCEPT !.base = c.names]
        [] c.does = "disable" -> [from EXCEPT !.disabled = @ \cup ToSet(c.names)]
        [] c.does = "enable" -> [from EXCEPT !.disabled = @ \ ToSet(c.names)]
        [] c.does = "reset" -> NoRecord

\* A cluster must exist; with nothing recorded there is nothing to enable.
Begin(p) ==
  /\ p \in env.procs /\ procs[p].at \in Ended /\ past.commands < env.limit
  /\ \E c \in env.commands :
       /\ past' = [past EXCEPT !.commands = @ + 1, !.overlap = @ \/ ~Quiet]
       /\ procs' = [procs EXCEPT ![p] =
            IF \/ c.does \in {"disable", "enable"} /\ ~(ToSet(c.names) \subseteq DOMAIN Clusters)
               \/ c.does = "enable" /\ Surface = NoRecord
            THEN [Idle EXCEPT !.at = "idle"]
            ELSE [Idle EXCEPT !.at = "write", !.record = Changed(c, Surface)]]
  /\ UNCHANGED <<env, disk>>

Write(p) ==
  /\ At(p, "write")
  /\ disk' = [disk EXCEPT !.record = procs[p].record]
  /\ GoesTo(p, "resolve") /\ UNCHANGED <<env, past>>

\* Without the source what is recorded is not applied.
Resolve(p) ==
  /\ At(p, "resolve")
  /\ procs' = [procs EXCEPT ![p] =
       IF ~SourceFound THEN [@ EXCEPT !.at = "failed"]
       ELSE [@ EXCEPT !.at = "stage", !.shown = Shown, !.kinds = Layout(env.runtime, env.scope)]]
  /\ past' = IF SourceFound THEN past ELSE [past EXCEPT !.failed = TRUE]
  /\ UNCHANGED <<env, disk>>

\* A copy of what is shown is made aside, kind by kind; if that fails it is
\* removed and the command ends.
Stage(p) ==
  LET w == procs[p]
  IN  /\ At(p, "stage")
      /\ IF w.kinds = <<>>
         THEN /\ disk' = [disk EXCEPT !.temps = @ \ {p}]
              /\ GoesTo(p, "done") /\ UNCHANGED past
         ELSE \/ /\ disk' = [disk EXCEPT !.temps = @ \cup {p}]
                 /\ procs' = [procs EXCEPT ![p].at = "copy", ![p].copies = Staged(Head(w.kinds), w.shown)]
                 /\ UNCHANGED past
              \/ /\ past.faults < env.faults
                 /\ past' = [past EXCEPT !.faults = @ + 1, !.failed = TRUE]
                 /\ disk' = [disk EXCEPT !.temps = @ \ {p}]
                 /\ GoesTo(p, "failed")
      /\ UNCHANGED env

\* One entry after the other, whatever is there; then the directory is read.
CopyIn(p) ==
  LET w == procs[p]
      k == Head(w.kinds)
  IN  /\ At(p, "copy")
      /\ IF w.copies = {}
         THEN /\ procs' = [procs EXCEPT ![p].at = "prune", ![p].entries = disk.dest[k]] /\ UNCHANGED disk
         ELSE \E e \in w.copies : /\ disk' = [disk EXCEPT !.dest[k] = @ \cup {e}]
                                  /\ procs' = [procs EXCEPT ![p].copies = @ \ {e}]
      /\ UNCHANGED <<env, past>>

\* The kit's entries that are not shown go, if they can be removed.  A skill
\* that has gone since the directory was read ends the command.
Prune(p) ==
  LET w == procs[p]
      k == Head(w.kinds)
  IN  /\ At(p, "prune")
      /\ IF w.entries = {}
         THEN /\ procs' = [procs EXCEPT ![p].at = "stage", ![p].kinds = Tail(@)]
              /\ UNCHANGED <<disk, past>>
         ELSE \E e \in w.entries :
                LET gone == k.kind = "skills" /\ e \notin disk.dest[k]
                IN  /\ procs' = [procs EXCEPT ![p].entries = @ \ {e}, ![p].at = IF gone THEN "failed" ELSE @]
                    /\ \/ gone /\ disk' = [disk EXCEPT !.temps = @ \ {p}] /\ UNCHANGED past
                       \/ ~gone /\ (~Owned(k, e) \/ e \in Staged(k, w.shown)) /\ UNCHANGED <<disk, past>>
                       \/ /\ ~gone /\ Owned(k, e) /\ e \notin Staged(k, w.shown)
                          /\ \/ disk' = [disk EXCEPT !.dest[k] = @ \ {e}] /\ UNCHANGED past
                             \/ /\ past.faults < env.faults /\ UNCHANGED disk
                                /\ past' = [past EXCEPT !.faults = @ + 1, !.failed = TRUE]
      /\ UNCHANGED env

\* Interrupted, a command removes what it put aside; killed, it does not.
Stop(p) ==
  /\ procs[p].at \notin Ended /\ past.stops < env.stops
  /\ \/ disk' = [disk EXCEPT !.temps = @ \ {p}] /\ UNCHANGED past
     \/ UNCHANGED disk /\ past' = [past EXCEPT !.left = @ \cup {p}]
  /\ GoesTo(p, "killed")
  /\ UNCHANGED env

-----------------------------------------------------------------------------
InitIn(e) ==
  /\ env = e
  /\ disk = [marker |-> e.marker, record |-> e.record, temps |-> {},
             dest |-> [k \in ToSet(Layout(e.runtime, e.scope)) |->
                         IF k.shared THEN e.own ELSE {Entry("", s) : s \in e.before}]]
  /\ procs = [p \in Procs |-> Idle]
  /\ past = [commands |-> 0, overlap |-> FALSE, failed |-> FALSE, faults |-> 0, stops |-> 0, left |-> {}]

Next ==
  \E p \in Procs : \/ Begin(p) \/ Write(p) \/ Resolve(p) \/ Stage(p)
                   \/ CopyIn(p) \/ Prune(p) \/ Stop(p)

-----------------------------------------------------------------------------
(* Properties.                                                              *)

TypeOK ==
  /\ disk.record.disabled \subseteq DOMAIN Clusters
  /\ disk.temps \subseteq Procs
  /\ \A p \in Procs : procs[p].at \in Ended \cup {"write", "resolve", "stage", "copy", "prune"}

(* A skill or agent of the user stays whatever the commands do, also one    *)
(* whose name begins like the kit's; only in a directory of commands every  *)
(* file counts as the kit's.                                                *)
OwnSkillsStay ==
  \A k \in Kinds : \A e \in env.own :
    (k.kind = "skills" /\ e.stem \notin Stems) \/ (k.kind = "agents" /\ e.prefix # "gsd-") => e \in disk.dest[k]

\* The kit's entries in a directory, by what they stand for.
Installed(k) == {e \in disk.dest[k] : IF k.kind = "commands" THEN e.stem \in Stems ELSE Owned(k, e)}

\* What the list says is on.
ListedOn == Shown \cap Stems

(* When commands that did not overlap have ended and the last was not cut   *)
(* off, the directories hold what the record now means, no more and no      *)
(* less, which is what the list shows; nothing put aside is left of         *)
(* a command that was not killed.  What is shown has all it needs, except   *)
(* what is off or was removed; a cluster that is off stays off unless an    *)
(* added skill needs it, and a removed skill is not shown.                  *)
ShownIsInstalled ==
  /\ Quiet /\ ~past.overlap /\ ~past.failed /\ (\E p \in Procs : At(p, "done")) /\ (\A p \in Procs : ~At(p, "killed")) =>
       /\ \A k \in Kinds : Installed(k) = Staged(k, Shown)
       /\ \A k \in Kinds : k.kind = "skills" => {e.stem : e \in Installed(k)} = ListedOn
  /\ Quiet => disk.temps \subseteq past.left
  /\ \A s \in Shown \cap Stems : \A d \in Requires[s] :
       d \in Shown \/ d \in ClustersToSkills(Surface.disabled) \cup Surface.removes
  /\ \A s \in ClustersToSkills(Surface.disabled) \cup Surface.removes :
       s \in Shown => s \notin Surface.removes /\ s \in Closure(Surface.adds)
=============================================================================
