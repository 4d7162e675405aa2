-------------------------------- MODULE EditLog --------------------------------
(***************************************************************************)
(* What the hooks after a tool call and at the end of an answer do with    *)
(* the files that were edited (scripts/hooks/post-edit-accumulator,        *)
(* stop-format-typecheck, post-edit-format, quality-gate, suggest-compact, *)
(* session-activity-tracker, lib/resolve-formatter).  Each edit appends    *)
(* its paths to a file; when the answer ends the file is read and removed  *)
(* and the files it names are formatted and checked in batches.  Hooks of  *)
(* one answer may overlap; the end of the answer comes after them.         *)
(***************************************************************************)
EXTENDS Integers, FiniteSets, SequencesExt

CONSTANTS Procs, Files,
          Threshold, Interval,  \* calls until compacting is suggested, and again
          Budget, Spare         \* time for all batches, and for one when there are none

VARIABLES
  env,    \* the project, the calls, and how much may happen
  disk,   \* the files, the paths to format, the count and the log
  procs,  \* what each hook is doing
  past    \* what was edited and what was suggested

vars == <<env, disk, procs, past>>

NoCall == [tool |-> "none", fields |-> <<>>, words |-> <<>>]
Idle == [at |-> "idle", call |-> NoCall, paths |-> <<>>, count |-> 0, batches |-> <<>>]
Ended == {"idle", "done", "killed"}
At(p, at) == procs[p].at = at
GoesTo(p, at) == procs' = [procs EXCEPT ![p].at = at]
Quiet == \A p \in Procs : procs[p].at \in Ended

Script(f) == env.kind[f] \in {"ts", "js"}
There(f) == disk.text[f] > 0

-----------------------------------------------------------------------------
(* The project a file belongs to.                                           *)

\* The next directory above that is marked as a project, or its own.
Root(f) == env.root[f]

\* Biome goes before Prettier.
Formatter(root) ==
  IF "biome" \in env.configured[root] THEN "biome"
  ELSE IF "prettier" \in env.configured[root] THEN "prettier" ELSE "none"

\* Its own copy of the tool, or the package manager's; one of them may be
\* missing on this machine.
FormatterWorks(root) == Formatter(root) # "none" /\ root \notin env.broken

Formats(text, files) == [f \in Files |-> IF f \in files THEN text[f] + 1 ELSE text[f]]

-----------------------------------------------------------------------------
(* After a call.                                                            *)

\* The tool has changed its files and its hooks begin.
Call(p) ==
  /\ p \in env.procs /\ procs[p].at \in Ended
  /\ past.calls < env.calls /\ ~past.stopping
  /\ \E c \in env.tools :
       LET named == SelectSeq(c.fields, LAMBDA f : f \in Files)
       IN  /\ procs' = [procs EXCEPT ![p] = [Idle EXCEPT !.at = "append", !.call = c, !.paths = named]]
           /\ disk' = IF c.tool = "Read" THEN disk
                      ELSE [disk EXCEPT !.text = [f \in Files |-> IF f \in ToSet(named) THEN @[f] + 2 - (@[f] % 2) ELSE @[f]]]
           /\ past' = [past EXCEPT !.calls = @ + 1, !.edited = @ \cup (IF c.tool = "Read" THEN {} ELSE ToSet(named))]
  /\ UNCHANGED env

\* Mutant: only the first path of a call is remembered.
AppendFirst(p) ==
  /\ At(p, "append")
  /\ disk' = IF procs[p].call.tool \in {"Edit", "Write", "MultiEdit"} /\ procs[p].paths # <<>>
               /\ Script(Head(procs[p].paths))
             THEN [disk EXCEPT !.accum = Append(@, Head(procs[p].paths))] ELSE disk
  /\ GoesTo(p, "row") /\ UNCHANGED <<env, past>>

\* The paths of an edit are appended one by one, if they are of scripts.
Accumulate(p) ==
  /\ At(p, "append")
  /\ LET w == procs[p]
         edits == w.call.tool \in {"Edit", "Write", "MultiEdit"}
     IN  IF ~edits \/ w.paths = <<>> THEN GoesTo(p, "row") /\ UNCHANGED disk
         ELSE /\ disk' = IF Script(Head(w.paths)) THEN [disk EXCEPT !.accum = Append(@, Head(w.paths))] ELSE disk
              /\ procs' = [procs EXCEPT ![p].paths = Tail(@)]
  /\ UNCHANGED <<env, past>>

DefaultAction(tool) ==
  CASE tool = "Read" -> "read" [] tool = "Write" -> "create"
    [] tool \in {"Edit", "MultiEdit"} -> "modify" [] OTHER -> "touch"

\* One that writes a file the repository has modifies it.
Action(tool, f) == IF tool = "Write" /\ f \in env.tracked THEN "modify" ELSE DefaultAction(tool)

\* What a call does to the files it names.
FileEvents(c) ==
  {[path |-> f, action |-> Action(c.tool, f)] : f \in ToSet(c.fields) \ {"http"}}

\* Without a file event every word of a list counts as a path.
FilePaths(c) ==
  IF FileEvents(c) # {} THEN {e.path : e \in FileEvents(c)} ELSE ToSet(c.words) \ {"http"}

\* Mutant: what is read is not recorded.
RowUnlessRead(p) ==
  /\ At(p, "row")
  /\ disk' = IF procs[p].call.tool = "Read" THEN disk
             ELSE [disk EXCEPT !.log = Append(@, [tool |-> procs[p].call.tool, paths |-> FilePaths(procs[p].call),
                                                  events |-> FileEvents(procs[p].call)])]
  /\ GoesTo(p, "count") /\ UNCHANGED <<env, past>>

\* A row is added to the log.
LogRow(p) ==
  /\ At(p, "row")
  /\ disk' = [disk EXCEPT !.log = Append(@, [tool |-> procs[p].call.tool, paths |-> FilePaths(procs[p].call),
                                             events |-> FileEvents(procs[p].call)])]
  /\ GoesTo(p, "count") /\ UNCHANGED <<env, past>>

\* The counter is read, emptied and written; one that cannot be read begins anew.
Count(p) ==
  /\ At(p, "count")
  /\ procs' = [procs EXCEPT ![p].at = "write", ![p].count = disk.count + 1]
  /\ disk' = [disk EXCEPT !.count = 0]
  /\ UNCHANGED <<env, past>>

\* At the threshold and at each interval after it compacting is suggested.
Suggest(p) ==
  LET n == procs[p].count
  IN  /\ At(p, "write")
      /\ disk' = [disk EXCEPT !.count = n]
      /\ past' = IF n >= Threshold /\ (n - Threshold) % Interval = 0
                 THEN [past EXCEPT !.suggested = @ + 1] ELSE past
      /\ GoesTo(p, "gate") /\ UNCHANGED env

\* A single file is formatted at once where that hook is in use; otherwise the
\* gate only looks, and what Biome formats it leaves to the other hook.
Gate(p) ==
  LET c == procs[p].call
      f == Head(c.fields)
      formats == /\ c.fields # <<>> /\ f \in Files /\ There(f) /\ c.tool \in {"Edit", "Write"}
                 /\ FormatterWorks(Root(f))
                 /\ \/ "format" \in env.hooks /\ Script(f)
                    \/ "fix" \in env.hooks /\ ~(Formatter(Root(f)) = "biome" /\ Script(f))
  IN  /\ At(p, "gate")
      /\ disk' = IF formats THEN [disk EXCEPT !.text = Formats(@, {g \in {f} : @[g] % 2 = 0})] ELSE disk
      /\ GoesTo(p, "done") /\ UNCHANGED <<env, past>>

-----------------------------------------------------------------------------
(* The end of the answer.                                                   *)

Batch(kind, of, files) == [kind |-> kind, of |-> of, files |-> files]

\* Mutant: all files go with the project of the first.
OneBatch(files) ==
  IF files = {} THEN <<>> ELSE <<Batch("format", Root(CHOOSE f \in files : TRUE), files)>>

\* The files that are still there by project, then those that are typed by the
\* directory of their settings, if there is one.
Batches(files) ==
  LET live == {f \in files : Script(f) /\ There(f)}
      typed == {f \in live : env.kind[f] = "ts" /\ env.tsconfig[f] # "none"}
      formats == {Batch("format", r, {f \in live : Root(f) = r}) : r \in {Root(f) : f \in live}}
      checks == {Batch("check", d, {f \in typed : env.tsconfig[f] = d}) : d \in {env.tsconfig[f] : f \in typed}}
  IN  SetToSeq(formats) \o SetToSeq(checks)

BatchTime(n) == IF n > 0 THEN Budget \div n ELSE Spare

\* The paths are read, if there are any.
Stop(p) ==
  /\ Quiet /\ p \in env.procs /\ past.stops < env.stops
  /\ past' = [past EXCEPT !.stops = @ + 1, !.stopping = disk.accum # <<>>]
  /\ procs' = [procs EXCEPT ![p] =
       [Idle EXCEPT !.at = IF disk.accum = <<>> THEN "done" ELSE "unlink", !.paths = disk.accum]]
  /\ UNCHANGED <<env, disk>>

\* The file is removed and its paths, each once, are put into batches.
Unlink(p) ==
  /\ At(p, "unlink")
  /\ disk' = [disk EXCEPT !.accum = <<>>]
  /\ procs' = [procs EXCEPT ![p].at = "batch", ![p].batches = Batches(ToSet(procs[p].paths))]
  /\ past' = [past EXCEPT !.time = Len(Batches(ToSet(procs[p].paths))) * BatchTime(Len(Batches(ToSet(procs[p].paths))))]
  /\ UNCHANGED env

\* A project without a formatter, or one that fails or takes too long, leaves
\* its files as they are.
RunBatch(p) ==
  /\ At(p, "batch") /\ procs[p].batches # <<>>
  /\ LET b == Head(procs[p].batches)
         live == {f \in b.files : There(f)}
     IN  \/ /\ b.kind = "format" /\ FormatterWorks(b.of)
            /\ disk' = [disk EXCEPT !.text = Formats(@, {f \in live : @[f] % 2 = 0})]
            /\ UNCHANGED past
         \/ /\ b.kind = "format" /\ ~FormatterWorks(b.of) /\ UNCHANGED <<disk, past>>
         \/ /\ b.kind = "check"
            /\ past' = [past EXCEPT !.checked = [f \in Files |-> IF f \in live THEN disk.text[f] ELSE @[f]]]
            /\ UNCHANGED disk
         \/ /\ past.timeouts < env.timeouts /\ UNCHANGED disk
            /\ past' = [past EXCEPT !.timeouts = @ + 1]
  /\ procs' = [procs EXCEPT ![p].batches = Tail(@)]
  /\ UNCHANGED env

Finish(p) ==
  /\ At(p, "batch") /\ procs[p].batches = <<>>
  /\ GoesTo(p, "done")
  /\ past' = [past EXCEPT !.stopping = FALSE, !.settled = past.edited]
  /\ UNCHANGED <<env, disk>>

Delete(f) ==
  /\ There(f) /\ past.deletes < env.deletes
  /\ disk' = [disk EXCEPT !.text[f] = 0]
  /\ past' = [past EXCEPT !.deletes = @ + 1]
  /\ UNCHANGED <<env, procs>>

Kill(p) ==
  /\ procs[p].at \notin Ended /\ past.kills < env.kills
  /\ procs' = [procs EXCEPT ![p].at = "killed", ![p].batches = <<>>]
  /\ past' = [past EXCEPT !.kills = @ + 1, !.stopping = FALSE]
  /\ UNCHANGED <<env, disk>>

-----------------------------------------------------------------------------
InitIn(e) ==
  /\ env = e
  /\ disk = [text |-> [f \in Files |-> IF f \in e.tracked THEN 1 ELSE 0], accum |-> <<>>, count |-> 0, log |-> <<>>]
  /\ procs = [p \in Procs |-> Idle]
  /\ past = [calls |-> 0, stops |-> 0, timeouts |-> 0, kills |-> 0, deletes |-> 0, suggested |-> 0, time |-> 0,
             edited |-> {}, settled |-> {}, stopping |-> FALSE, checked |-> [f \in Files |-> 0]]

Next ==
  \/ \E p \in Procs : \/ Call(p) \/ Accumulate(p) \/ LogRow(p) \/ Count(p) \/ Suggest(p) \/ Gate(p)
                      \/ Stop(p) \/ Unlink(p) \/ RunBatch(p) \/ Finish(p) \/ Kill(p)
  \/ \E f \in Files : Delete(f)

-----------------------------------------------------------------------------
(* Properties.                                                              *)

TypeOK ==
  /\ \A f \in Files : disk.text[f] \in Nat
  /\ ToSet(disk.accum) \subseteq Files /\ disk.count \in Nat
  /\ \A p \in Procs : procs[p].at \in Ended \cup {"append", "row", "count", "write", "gate", "unlink", "batch"}

(* When an answer has ended, each script it edited that is still there is   *)
(* formatted, if its project has a formatter that works, and each typed one *)
(* was checked in the text it now has, unless a batch took too long or a    *)
(* hook died; and the batches together stay within the time there is.       *)
EditedAreFormatted ==
  /\ past.kills = 0 /\ past.timeouts = 0 /\ Quiet /\ past.stops > 0 /\ disk.accum = <<>> =>
       \A f \in past.edited : Script(f) /\ There(f) =>
         /\ FormatterWorks(Root(f)) => disk.text[f] % 2 = 1
         /\ env.kind[f] = "ts" /\ env.tsconfig[f] # "none" => past.checked[f] = disk.text[f]
  /\ past.time <= Budget

(* The log has one row for each call whose hooks ran, with the files that   *)
(* the call changed; while hooks follow one another, compacting was         *)
(* suggested at the threshold and each interval after it.                   *)
CallsAreLogged ==
  /\ Quiet /\ past.kills = 0 =>
       /\ Len(disk.log) = past.calls
       /\ past.edited \subseteq UNION {disk.log[i].paths : i \in DOMAIN disk.log}
       /\ Cardinality(env.procs) = 1 /\ past.calls >= Threshold =>
            past.suggested = (past.calls - Threshold) \div Interval + 1
  /\ \A i \in DOMAIN disk.log : \A e \in disk.log[i].events :
       e.action = "create" => e.path \notin env.tracked
=============================================================================
