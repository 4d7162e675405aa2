--------------------------- MODULE PlanningConfig ---------------------------
(***************************************************************************)
(* config.json of a planning directory and of a workstream under it        *)
(* (gsd-core/bin/lib/config.cjs, configuration.cjs, loadConfig of          *)
(* core.cjs).  Setting a key reads and writes the file under the planning  *)
(* lock; creating, migrating and loading it do not take the lock, and      *)
(* loading writes: keys of older versions are moved to where they belong   *)
(* now, and the list of repositories follows the file system.  A           *)
(* workstream inherits what it does not set from the root.                 *)
(***************************************************************************)
EXTENDS Integers

CONSTANTS Procs  \* commands, numbered from 1: 0 is nobody

VARIABLES
  env,     \* commands, the files at the start, what the file system holds
  disk,    \* the two configurations, the user's defaults, the locks
  procs,   \* what each command is doing
  past     \* what was set last, and which file a death or an edit broke

vars == <<env, disk, procs, past>>

Places == {"root", "stream"}
\* The keys of older versions, and a representative of each section of today.
Legacy == {"strategyTop", "reposTop", "multi", "depth"}
Today == {"profile", "docsTop", "docs", "strategy", "repos", "granularity", "nyquist"}
Keys == Legacy \cup Today
Unset == "unset"
Values == {Unset, "own", "mine", "default", "found", "off", "quick", "coarse", "fine"}
Blank == [k \in Keys |-> Unset]
Over(base, top) == [k \in DOMAIN base |-> IF top[k] # Unset THEN top[k] ELSE base[k]]

File(is, keys) == [is |-> is, keys |-> keys]
Parsed(f) == f.is = "json"

Idle == [at |-> "idle", place |-> "root", saw |-> Blank, new |-> Blank]
Resting == {"idle", "done", "failed", "killed"}
Work(p) == env.work[p]
Place(p) == Work(p).place
At(p, at) == procs[p].at = at
GoesTo(p, at) == procs' = [procs EXCEPT ![p].at = at]
Keeps(p, at, place, saw, new) ==
  procs' = [procs EXCEPT ![p] = [at |-> at, place |-> place, saw |-> saw, new |-> new]]
Written(place, keys) == [disk EXCEPT !.file[place] = File("json", keys)]

-----------------------------------------------------------------------------
(* Keys of older versions.                                                  *)

Mapped(depth) == IF depth = "quick" THEN "coarse" ELSE depth

\* Mutant: the key that moved wins over what the section holds.
TopWins(c) ==
  [c EXCEPT !.strategy = IF c.strategyTop # Unset THEN c.strategyTop ELSE @,
            !.strategyTop = Unset,
            !.repos = IF @ = Unset THEN c.reposTop ELSE @,
            !.reposTop = Unset,
            !.multi = Unset,
            !.granularity = IF @ = Unset THEN Mapped(c.depth) ELSE @,
            !.depth = IF c.granularity = Unset THEN Unset ELSE @]

\* What is set in a section wins over the key that moved into it.
Normalised(c) ==
  [c EXCEPT !.strategy = IF @ = Unset THEN c.strategyTop ELSE @,
            !.strategyTop = Unset,
            !.repos = IF @ = Unset THEN c.reposTop ELSE @,
            !.reposTop = Unset,
            !.multi = Unset,
            !.granularity = IF @ = Unset THEN Mapped(c.depth) ELSE @,
            !.depth = IF c.granularity = Unset THEN Unset ELSE @]

Canonical(c) == Normalised(c) = c

\* A project of several repositories gets the list of them, not committed.
Filled(c, was) ==
  IF was.multi # Unset /\ c.repos = Unset /\ env.subrepos
  THEN [c EXCEPT !.repos = "found", !.docs = "off"] ELSE c

Synced(c) == IF c.repos # Unset /\ env.subrepos THEN [c EXCEPT !.repos = "found"] ELSE c

RootRead(c) == Filled(Normalised(c), c)
OwnRead(c) == Synced(Filled(Normalised(c), c))

\* Mutant: the migration leaves out that the planning files are not committed.
MigratedCommitted(c) ==
  IF c.multi # Unset /\ env.subrepos THEN [Normalised(c) EXCEPT !.repos = "found"] ELSE Normalised(c)

\* The explicit migration takes the list found, whatever the file says.
MigratedOnDisk(c) ==
  IF c.multi # Unset /\ env.subrepos
  THEN [Normalised(c) EXCEPT !.repos = "found", !.docs = "off"] ELSE Normalised(c)

-----------------------------------------------------------------------------
(* What a reader takes the configuration to say.                            *)

\* Mutant: the root's keys win over the workstream's.
RootFirst(root, own) == Over(own, root)

DeepMerge(root, own) == Over(root, own)

Extracted(c) ==
  [k \in Today \ {"docsTop"} |->
     CASE k = "docs" -> IF c.docsTop # Unset THEN c.docsTop
                        ELSE IF c.docs # Unset THEN c.docs
                        ELSE IF env.ignored THEN "off" ELSE "default"
       [] k = "granularity" -> c.granularity
       [] OTHER -> IF c[k] # Unset THEN c[k] ELSE "default"]

Defaults == [Extracted(Blank) EXCEPT !.docs = "default"]

LoadedRoot(files) ==
  IF Parsed(files.root) THEN Extracted(OwnRead(files.root.keys)) ELSE Defaults

Loaded(files, place) ==
  IF place = "root" \/ ~Parsed(files.stream) THEN LoadedRoot(files)
  ELSE LET own == OwnRead(files.stream.keys)
       IN  Extracted(IF Parsed(files.root) THEN DeepMerge(RootRead(files.root.keys), own) ELSE own)

\* The reader that writes nothing and knows no workstream above.
PureLoaded(c) == Extracted(Over([k \in Keys |-> IF k \in {"docsTop", "granularity"} \cup Legacy
                                                THEN Unset ELSE "default"], Normalised(c)))

\* config-get shows the file as it is.
Got(files, place, k) == IF Parsed(files[place]) THEN files[place].keys[k] ELSE Unset

-----------------------------------------------------------------------------
(* Creation: the user's defaults over the tool's, the choices over both.    *)

Hardcoded == [Blank EXCEPT !.profile = "default", !.docsTop = "default", !.strategy = "default",
                           !.nyquist = "default"]
UsersDefaults == [disk.defaults EXCEPT
                    !.granularity = IF @ = Unset THEN Mapped(disk.defaults.depth) ELSE @,
                    !.depth = IF disk.defaults.granularity = Unset THEN Unset ELSE @]
Built(choices) == Over(Over(Hardcoded, UsersDefaults), choices)
Choices(p) == IF Work(p).op = "new" THEN [Blank EXCEPT ![Work(p).key] = "own"] ELSE Blank

StartEnsure(p) ==
  /\ At(p, "idle") /\ Work(p).op \in {"ensure", "new", "profile"}
  /\ GoesTo(p, IF disk.file[Place(p)].is = "none" THEN "create"
               ELSE IF Work(p).op = "profile" THEN "set" ELSE "done")
  /\ UNCHANGED <<env, disk, past>>

Create(p) ==
  /\ At(p, "create")
  /\ disk' = [Written(Place(p), Built(Choices(p))) EXCEPT !.defaults = UsersDefaults]
  /\ past' = [past EXCEPT !.broken = @ \ {Place(p)}]
  /\ GoesTo(p, IF Work(p).op = "profile" THEN "set" ELSE "done") /\ UNCHANGED env

-----------------------------------------------------------------------------
(* Setting a key.                                                           *)

\* A key or a value the tool does not know is refused before the file is read.
StartSet(p) ==
  /\ At(p, "idle") /\ Work(p).op = "set"
  /\ GoesTo(p, IF Work(p).valid THEN "set" ELSE "failed")
  /\ UNCHANGED <<env, disk, past>>

\* Mutant: the lock is not waited for.
NoLock(p) == TRUE

Free(p) == disk.lock[Place(p)] = 0

\* A file that does not parse ends the command, and the lock is released.
ReadToSet(p) ==
  /\ At(p, "set") /\ Free(p)
  /\ IF disk.file[Place(p)].is = "broken" THEN GoesTo(p, "failed") /\ UNCHANGED disk
     ELSE /\ Keeps(p, "write", Place(p), disk.file[Place(p)].keys, Blank)
          /\ disk' = [disk EXCEPT !.lock[Place(p)] = p]
  /\ UNCHANGED <<env, past>>

Key(p) == IF Work(p).op = "profile" THEN "profile" ELSE Work(p).key
Value(p) == Work(p).value

WriteSet(p) ==
  /\ At(p, "write")
  /\ disk' = [Written(Place(p), [procs[p].saw EXCEPT ![Key(p)] = Value(p)]) EXCEPT
                !.lock[Place(p)] = IF @ = p THEN 0 ELSE @]
  /\ past' = [past EXCEPT !.set[Place(p)][Key(p)] = Value(p), !.broken = @ \ {Place(p)}]
  /\ GoesTo(p, "done") /\ UNCHANGED env

\* The lock of a dead command is removed after thirty seconds.
Recover(p) ==
  /\ At(p, "set") /\ disk.lock[Place(p)] # 0 /\ At(disk.lock[Place(p)], "killed")
  /\ disk' = [disk EXCEPT !.lock[Place(p)] = 0]
  /\ UNCHANGED <<env, procs, past>>

-----------------------------------------------------------------------------
(* Loading, and what it writes.                                             *)

StartLoad(p) ==
  /\ At(p, "idle") /\ Work(p).op = "load"
  /\ LET root == disk.file.root
     IN  IF Place(p) = "stream" /\ Parsed(root) /\ ~Canonical(root.keys)
         THEN Keeps(p, "root", "root", root.keys, RootRead(root.keys))
         ELSE Keeps(p, "own", Place(p), root.keys, Blank)
  /\ UNCHANGED <<env, disk, past>>

StoreRoot(p) ==
  /\ At(p, "root")
  /\ disk' = Written("root", procs[p].new) /\ past' = [past EXCEPT !.broken = @ \ {"root"}]
  /\ procs' = [procs EXCEPT ![p].at = "own", ![p].place = "stream"] /\ UNCHANGED env

\* A workstream without a file of its own is served by the root's.
ReadOwn(p) ==
  /\ At(p, "own")
  /\ LET place == procs[p].place
         f == disk.file[place]
     IN  IF Parsed(f)
         THEN IF OwnRead(f.keys) = f.keys THEN GoesTo(p, "done")
              ELSE Keeps(p, "store", place, f.keys, OwnRead(f.keys))
         ELSE IF place = "stream" /\ Parsed(disk.file.root)
              THEN Keeps(p, "own", "root", f.keys, Blank)
              ELSE GoesTo(p, "done")
  /\ UNCHANGED <<env, disk, past>>

StoreOwn(p) ==
  /\ At(p, "store")
  /\ disk' = Written(procs[p].place, procs[p].new)
  /\ past' = [past EXCEPT !.broken = @ \ {procs[p].place}]
  /\ GoesTo(p, "done") /\ UNCHANGED env

StartMigrate(p) ==
  /\ At(p, "idle") /\ Work(p).op = "migrate"
  /\ LET f == disk.file[Place(p)]
     IN  IF Parsed(f) /\ ~Canonical(f.keys)
         THEN Keeps(p, "migrate", Place(p), f.keys, MigratedOnDisk(f.keys))
         ELSE GoesTo(p, "done")
  /\ UNCHANGED <<env, disk, past>>

WriteMigrated(p) ==
  /\ At(p, "migrate")
  /\ disk' = Written(procs[p].place, procs[p].new)
  /\ past' = [past EXCEPT !.broken = @ \ {procs[p].place}]
  /\ GoesTo(p, "done") /\ UNCHANGED env

-----------------------------------------------------------------------------
\* Mutant: every writer writes in place.
AllInPlace(p) == procs[p].at \in {"migrate", "write", "create", "store", "root"}

\* platformWriteSync renames a copy; the migration writes the file itself.
InPlace(p) == At(p, "migrate")

Die(p) ==
  /\ env.kills /\ procs[p].at \notin Resting
  /\ \A q \in Procs : ~At(q, "killed")
  /\ \/ UNCHANGED <<disk, past>>
     \/ /\ InPlace(p) /\ disk' = [disk EXCEPT !.file[procs[p].place] = File("broken", Blank)]
        /\ past' = [past EXCEPT !.broken = @ \cup {x \in {procs[p].place} : At(p, "migrate")}]
  /\ GoesTo(p, "killed") /\ UNCHANGED env

\* Somebody saves a file with a comma too many.
Spoil(place) ==
  /\ env.spoils /\ past.broken = {} /\ disk.file[place].is = "json"
  /\ disk' = [disk EXCEPT !.file[place] = File("broken", Blank)]
  /\ past' = [past EXCEPT !.broken = {place}]
  /\ UNCHANGED <<env, procs>>

InitIn(e) ==
  /\ env = e /\ procs = [p \in Procs |-> Idle]
  /\ disk = [file |-> e.files, defaults |-> e.defaults, lock |-> [x \in Places |-> 0]]
  /\ past = [set |-> [x \in Places |-> Blank], broken |-> {}]

Next ==
  \/ \E p \in Procs : \/ StartEnsure(p) \/ Create(p) \/ StartSet(p) \/ ReadToSet(p) \/ WriteSet(p)
                      \/ Recover(p) \/ StartLoad(p) \/ StoreRoot(p) \/ ReadOwn(p) \/ StoreOwn(p)
                      \/ StartMigrate(p) \/ WriteMigrated(p) \/ Die(p)
  \/ \E x \in Places : Spoil(x)

-----------------------------------------------------------------------------
TypeOK ==
  /\ \A x \in Places : /\ disk.file[x].is \in {"none", "json", "broken"}
                       /\ disk.file[x].keys \in [Keys -> Values]
                       /\ disk.lock[x] \in Procs \cup {0}
  /\ disk.defaults \in [Keys -> Values] /\ past.broken \subseteq Places
  /\ \A p \in Procs : /\ procs[p].saw \in [Keys -> Values] /\ procs[p].new \in [Keys -> Values]
                      /\ procs[p].place \in Places

\* Nobody creates or spoils, and no file holds what a load would rewrite.
Calm ==
  /\ ~env.spoils
  /\ \A p \in Procs : Work(p).op \in {"none", "set", "profile", "load", "migrate"}
  /\ \A x \in Places : /\ Parsed(env.files[x]) /\ Canonical(env.files[x].keys)
                       /\ env.subrepos => env.files[x].keys.repos = Unset
  /\ env.subrepos => \A p \in Procs : Work(p).key # "repos"

(* What a command has set stays set until another sets it (setConfigValue), *)
(* whatever else is set, loaded or migrated meanwhile and whoever dies, as  *)
(* long as the files parse, have today's keys and list no repositories:     *)
(* then nobody rewrites them outside the lock.                              *)
KeysKept ==
  Calm => \A x \in Places, k \in Keys :
            past.set[x][k] # Unset => disk.file[x].keys[k] = past.set[x][k]

(* Moving keys of older versions does not change what the configuration     *)
(* says (loadConfig, migrateOnDisk): what is read of a file after it was   *)
(* rewritten is what would have been read before.  Only the explicit       *)
(* migration of a project of several repositories that lists them itself   *)
(* does: it also stops committing the planning files.                      *)
MeaningKeptStep ==
  \A p \in Procs :
    LET place == procs[p].place
        saw == procs[p].saw
    IN  ( /\ procs[p].at \in {"root", "store", "migrate"} /\ procs'[p].at \in {"own", "done"}
          /\ disk.file[place] = File("json", saw)
          /\ ~(At(p, "migrate") /\ saw.multi # Unset /\ env.subrepos
               /\ (saw.repos # Unset \/ saw.reposTop # Unset)) )
        => Loaded(disk.file, place) = Loaded(disk'.file, place)

(* The readers agree: what config-get shows is what is used (cmdConfigGet,  *)
(* loadConfig), but for a list of repositories that will be replaced and a *)
(* key of the planning section under the same key at the top, here or at   *)
(* the root; and the reader that writes nothing reads the same.            *)
ReadersAgree ==
  \A x \in Places :
    Parsed(disk.file[x]) =>
      /\ \A k \in Today \ {"docsTop"} :
           LET got == Got(disk.file, x, k)
               hidden == \/ k = "repos" /\ env.subrepos
                         \/ k = "docs" /\ \E y \in {x, "root"} : disk.file[y].keys.docsTop # Unset
           IN  (got # Unset /\ ~hidden) => Loaded(disk.file, x)[k] = got
      /\ LET docs == Got(disk.file, x, "docsTop")
         IN  docs # Unset => Loaded(disk.file, x).docs = docs
      /\ x = "root" => \A k \in {"profile", "strategy", "granularity", "nyquist"} :
                         PureLoaded(disk.file.root.keys)[k] = LoadedRoot(disk.file)[k]

(* A command that dies leaves the file as it was or as it should be: a file *)
(* that does not parse was saved so, or its migration was killed           *)
(* (platformWriteSync).                                                    *)
FilesWhole == \A x \in Places : disk.file[x].is = "broken" => x \in past.broken \/ env.files[x].is = "broken"
=============================================================================
