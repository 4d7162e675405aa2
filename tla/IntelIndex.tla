------------------------------ MODULE IntelIndex -------------------------------
(***************************************************************************)
(* What is known of a project's files, interfaces and dependencies         *)
(* (gsd-core/bin/lib/intel).  Agents write one file for each kind, and the *)
(* commands read them one after the other: to search them, to tell how old *)
(* and how sound they are, to keep their hashes and later to tell what has *)
(* changed, and to render the interfaces as a page.  One command writes    *)
(* what agents write too: it stamps the date in a file it has read.        *)
(* Nothing is locked.                                                      *)
(***************************************************************************)
EXTENDS Integers, FiniteSets, SequencesExt

CONSTANTS Procs,
          Kinds,        \* the files, in the order they are read
          StaleAfter,   \* how long a file counts as fresh
          Checked,      \* entries whose paths are looked for
          MaxVersion

VARIABLES
  env,    \* the commands, what agents write, and how much may happen
  disk,   \* the files, the hashes kept, the page, and the time
  procs,  \* what each command is doing and what it has read
  past    \* what agents wrote last, and what the hashes may stand for

vars == <<env, disk, procs, past>>

Names == ToSet(Kinds)
Undated == -1
Gone == [is |-> "gone", entries |-> <<>>, updated |-> Undated, version |-> 0]
Unread == [f \in Names |-> Gone]
NoBase == [kept |-> FALSE, files |-> Unread]
NoHistory == [f \in Names |-> {}]

NoRequest == [op |-> "none", file |-> Head(Kinds), term |-> "none", source |-> <<>>]
Idle == [at |-> "idle", req |-> NoRequest, queue |-> <<>>, seen |-> Unread, base |-> NoBase, now |-> 0,
         held |-> NoHistory, baseHeld |-> NoHistory]
Ended == {"idle", "done", "disabled", "failed", "killed"}
At(p, at) == procs[p].at = at
GoesTo(p, at) == procs' = [procs EXCEPT ![p].at = at]

-----------------------------------------------------------------------------
(* What a file says, as it was read.                                        *)

\* A file that is missing or torn says nothing.
SafeReadJson(file) == file.is = "json"

Entries(file) == IF SafeReadJson(file) THEN file.entries ELSE <<>>

\* Mutant: the name of an entry is not searched.
InValue(entry, term) == term \in entry.words

\* A term is looked for in an entry's name and in all its strings.
Matches(entry, term) == term = entry.key \/ term \in entry.words

Query(seen, term) ==
  [f \in Names |-> {e \in ToSet(Entries(seen[f])) : Matches(e, term)}]

\* Mutant: a file without a date is not old.
OldOnly(file, now) == file.is = "json" /\ file.updated # Undated /\ now - file.updated > StaleAfter

\* A file whose date is unknown counts as old.
StaleFile(file, now) == ~SafeReadJson(file) \/ file.updated = Undated \/ now - file.updated > StaleAfter

OverallStale(seen, now) == \E f \in Names : StaleFile(seen[f], now)

\* What is wrong with the entries: the paths of the first few are looked for.
EntryWarnings(f, entries) ==
  CASE f = "files" -> {<<i, "spaced">> : i \in {j \in DOMAIN entries : "spaced" \in entries[j].flaws}}
                        \cup {<<i, "missing">> : i \in {j \in DOMAIN entries : j <= Checked /\ "missing" \in entries[j].flaws}}
    [] f = "deps" -> {<<i, "fields">> : i \in {j \in DOMAIN entries : entries[j].flaws \cap {"version", "type", "used_by"} # {}}}
    [] OTHER -> {}

Errors(seen) == {f \in Names : ~SafeReadJson(seen[f])}

Warnings(seen, now) ==
  {f \in Names \ Errors(seen) :
     \/ seen[f].updated = Undated \/ now - seen[f].updated > StaleAfter
     \/ EntryWarnings(f, seen[f].entries) # {}}

\* Mutant: what is gone is not told.
DiffOfPresent(base, seen) ==
  [f \in Names |-> IF seen[f] = Gone THEN "same"
                   ELSE IF base.files[f] = Gone THEN "added"
                   ELSE IF base.files[f] # seen[f] THEN "changed" ELSE "same"]

\* A file against its hash.
Diff(base, seen) ==
  [f \in Names |-> IF seen[f] # Gone /\ base.files[f] = Gone THEN "added"
                   ELSE IF seen[f] # Gone /\ base.files[f] # seen[f] THEN "changed"
                   ELSE IF seen[f] = Gone /\ base.files[f] # Gone THEN "removed" ELSE "same"]

-----------------------------------------------------------------------------
(* What a script exports, told from the beginnings of its lines.            *)

Of(source, kinds) == SelectSeq(source, LAMBDA s : s.is \in kinds /\ s.first)
NamesOf(statements) == UNION {statements[i].names : i \in DOMAIN statements}

\* The last object assigned to the module counts, wherever it begins, and every
\* single assignment.
CommonExports(source) ==
  LET blocks == SelectSeq(source, LAMBDA s : s.is = "module")
  IN  (IF blocks = <<>> THEN {} ELSE Last(blocks).names) \cup NamesOf(Of(source, {"single"}))

\* Mutant: a list of exports is passed over.
EsNoLists(source) ==
  LET named == NamesOf(Of(source, {"default"}))
  IN  named \cup (IF named = {} /\ Of(source, {"anonymous"}) # <<>> THEN {"default"} ELSE {})
        \cup NamesOf(Of(source, {"declared"}))

\* A default without a name counts when there is none with a name.
EsExports(source) ==
  LET named == NamesOf(Of(source, {"default"}))
  IN  named \cup (IF named = {} /\ Of(source, {"anonymous"}) # <<>> THEN {"default"} ELSE {})
        \cup NamesOf(Of(source, {"declared", "list"}))

Method(source) ==
  LET common == CommonExports(source) # {}
      es == EsExports(source) # {}
  IN  IF es THEN IF common THEN "mixed" ELSE "esm"
      ELSE IF \E i \in DOMAIN source : source[i].is = "module" THEN "module.exports"
      ELSE IF common THEN "exports.X" ELSE "none"

-----------------------------------------------------------------------------
(* The commands.                                                            *)

\* A configuration that is missing or torn permits nothing.
IsIntelEnabled == env.config = "on"

\* Stamping and the exports of a script need no permission.
Free == {"patch", "exports"}

Begin(p) ==
  /\ p \in env.procs /\ procs[p].at \in Ended /\ past.starts < env.starts
  /\ \E r \in env.requests :
       procs' = [procs EXCEPT ![p] =
         [Idle EXCEPT !.req = r, !.now = disk.now, !.held = [f \in Names |-> {disk.files[f]}],
            !.at = IF ~IsIntelEnabled /\ r.op \notin Free THEN "disabled"
                   ELSE CASE r.op = "diff" -> "base" [] r.op = "patch" -> "read"
                          [] r.op = "exports" -> "done" [] OTHER -> "look",
            !.queue = IF r.op = "surface" THEN <<"apis">> ELSE Kinds]]
  /\ past' = [past EXCEPT !.starts = @ + 1]
  /\ UNCHANGED <<env, disk>>

\* The hashes kept are read first; without them nothing can be told.
ReadBase(p) ==
  /\ At(p, "base")
  /\ procs' = [procs EXCEPT ![p].at = IF disk.base.kept THEN "look" ELSE "done",
                            ![p].base = disk.base, ![p].baseHeld = past.baseHeld]
  /\ UNCHANGED <<env, disk, past>>

\* The files are read one by one.
Look(p) ==
  /\ At(p, "look") /\ procs[p].queue # <<>>
  /\ LET f == Head(procs[p].queue)
     IN  procs' = [procs EXCEPT ![p].queue = Tail(@), ![p].seen[f] = disk.files[f]]
  /\ UNCHANGED <<env, disk, past>>

\* The page tells what the interfaces are, or that they are not known.
Surface(api, now) ==
  [written |-> TRUE, symbols |-> {e.key : e \in ToSet(Entries(api))},
   banner |-> IF Entries(api) = <<>> THEN "incomplete" ELSE IF StaleFile(api, now) THEN "stale" ELSE "none"]

\* The hashes and the page are written at once; the rest is only told.
Finish(p) ==
  LET w == procs[p]
  IN  /\ At(p, "look") /\ w.queue = <<>>
      /\ disk' = CASE w.req.op = "snapshot" -> [disk EXCEPT !.base = [kept |-> TRUE, files |-> w.seen]]
                   [] w.req.op = "surface" -> [disk EXCEPT !.surface = Surface(w.seen["apis"], disk.now)]
                   [] OTHER -> disk
      /\ past' = IF w.req.op = "snapshot" THEN [past EXCEPT !.baseHeld = w.held] ELSE past
      /\ GoesTo(p, "done") /\ UNCHANGED env

\* A file to be stamped must be there and sound.
ReadMeta(p) ==
  /\ At(p, "read")
  /\ LET f == procs[p].req.file
     IN  procs' = [procs EXCEPT ![p].seen[f] = disk.files[f],
                                ![p].at = IF SafeReadJson(disk.files[f]) THEN "stamp" ELSE "failed"]
  /\ UNCHANGED <<env, disk, past>>

\* Every command under way may have read the file before or after.
Changed(f, file, next) ==
  /\ disk' = [disk EXCEPT !.files[f] = file]
  /\ procs' = [q \in Procs |-> IF next[q].at \in Ended THEN next[q] ELSE [next[q] EXCEPT !.held[f] = @ \cup {file}]]

\* Mutant: only the stamp is written.
StampAlone(p) ==
  LET f == procs[p].req.file
      file == procs[p].seen[f]
  IN  /\ At(p, "stamp") /\ file.version < MaxVersion
      /\ Changed(f, [Gone EXCEPT !.is = "json", !.updated = disk.now, !.version = file.version + 1],
                 [procs EXCEPT ![p].at = "done"])
      /\ UNCHANGED <<env, past>>

\* The file is written as it was read, with the date and one version more.
Stamp(p) ==
  LET f == procs[p].req.file
      file == procs[p].seen[f]
  IN  /\ At(p, "stamp") /\ file.version < MaxVersion
      /\ Changed(f, [file EXCEPT !.updated = disk.now, !.version = @ + 1], [procs EXCEPT ![p].at = "done"])
      /\ UNCHANGED <<env, past>>

\* An agent writes or removes a file.
AgentWrites ==
  /\ past.writes < env.writes
  /\ \E w \in env.written :
       LET file == [w.file EXCEPT !.updated = IF @ = Undated THEN @ ELSE disk.now]
       IN  /\ Changed(w.name, file, procs)
           /\ past' = [past EXCEPT !.writes = @ + 1, !.last[w.name] = file,
                         !.crossed = @ \/ \E p \in Procs : At(p, "stamp") /\ procs[p].req.file = w.name]
  /\ UNCHANGED env

Kill(p) ==
  /\ procs[p].at \notin Ended /\ past.kills < env.kills
  /\ GoesTo(p, "killed") /\ past' = [past EXCEPT !.kills = @ + 1]
  /\ UNCHANGED <<env, disk>>

Tick == disk.now < env.until /\ disk' = [disk EXCEPT !.now = @ + 1] /\ UNCHANGED <<env, procs, past>>

-----------------------------------------------------------------------------
InitIn(e) ==
  /\ env = e
  /\ disk = [files |-> e.files, base |-> NoBase, now |-> 0,
             surface |-> [written |-> FALSE, symbols |-> {}, banner |-> "none"]]
  /\ procs = [p \in Procs |-> Idle]
  /\ past = [starts |-> 0, writes |-> 0, kills |-> 0, last |-> e.files, baseHeld |-> NoHistory, crossed |-> FALSE]

Next ==
  \/ \E p \in Procs :
       Begin(p) \/ ReadBase(p) \/ Look(p) \/ Finish(p) \/ ReadMeta(p) \/ Stamp(p) \/ Kill(p)
  \/ AgentWrites \/ Tick

-----------------------------------------------------------------------------
\* Nothing is kept of a file that was not read, and nothing is written by who
\* may not.
TypeOK ==
  /\ \A f \in Names : disk.files[f].is \in {"gone", "torn", "json"} /\ disk.files[f].version \in 0..MaxVersion
  /\ disk.surface.banner \in {"none", "stale", "incomplete"}
  /\ \A p \in Procs : procs[p].at \in Ended \cup {"base", "look", "read", "stamp"}

\* What an agent wrote is in its file, whatever was stamped there since, unless
\* it wrote while a stamp was being set; and a script's exports hold every name
\* that it exports at the beginning of a line, told to be of that kind.
WordsKept ==
  /\ ~past.crossed => \A f \in Names :
       disk.files[f].is = past.last[f].is /\ disk.files[f].entries = past.last[f].entries
  /\ \A p \in Procs : procs[p].req.op = "exports" /\ At(p, "done") =>
       \A i \in DOMAIN procs[p].req.source :
         LET s == procs[p].req.source[i]
         IN  (s.first /\ s.is \in {"single", "default", "declared", "list"}) =>
               s.names \subseteq CommonExports(procs[p].req.source) \cup EsExports(procs[p].req.source)
                 /\ Method(procs[p].req.source) \in IF s.is = "single" THEN {"mixed", "module.exports", "exports.X"} ELSE {"mixed", "esm"}

\* A file is told to be unchanged only if it was at some time of the comparison
\* what it was at some time while its hash was taken, and told to have changed
\* only if it was not the same through both; what is told to be fresh is valid,
\* and what is valid without a warning is fresh; a search shows every entry that
\* stayed where it was; and a page without a banner lists what stayed.
IndexTells ==
  /\ \A p \in Procs : LET w == procs[p] IN (At(p, "done") /\ w.base.kept) =>
       \A f \in Names :
         IF Diff(w.base, w.seen)[f] = "same" THEN w.held[f] \cap w.baseHeld[f] # {}
         ELSE ~(w.held[f] = w.baseHeld[f] /\ Cardinality(w.held[f]) = 1)
  /\ ~OverallStale(disk.files, disk.now) => Errors(disk.files) = {}
  /\ (Errors(disk.files) = {} /\ Warnings(disk.files, disk.now) = {}) => ~OverallStale(disk.files, disk.now)
  /\ \A p \in Procs : LET w == procs[p] IN (At(p, "done") /\ w.req.op = "query") =>
       \A f \in Names : \A e \in Query(w.seen, w.req.term)[f] \cup UNION {ToSet(c.entries) : c \in w.held[f]} :
         (\A c \in w.held[f] : c.is = "json" /\ e \in ToSet(c.entries)) /\ (w.req.term = e.key \/ w.req.term \in e.words)
           => e \in Query(w.seen, w.req.term)[f]
  /\ \A p \in Procs : LET w == procs[p] IN (At(p, "done") /\ w.req.op = "surface") =>
       \E api \in w.held["apis"] :
         LET s == Surface(w.seen["apis"], w.now)
         IN  s.symbols = (IF api.is = "json" THEN {e.key : e \in ToSet(api.entries)} ELSE {})
               /\ (s.banner = "incomplete" <=> s.symbols = {})
               /\ (s.banner = "none" => api.updated # Undated)
================================================================================
