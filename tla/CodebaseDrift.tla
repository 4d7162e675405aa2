----------------------------- MODULE CodebaseDrift -----------------------------
(***************************************************************************)
(* What has been added to a repository since its structure was last        *)
(* written down (gsd-core/bin/lib/drift, verify.cmdVerifyCodebaseDrift).   *)
(* Mappers look at the repository, write STRUCTURE.md and stamp it with    *)
(* the commit; after a phase a check compares the stamp with the head and  *)
(* asks for a new mapping if enough was added that the text does not       *)
(* know.  Commits go on meanwhile, and the check reads the file twice.     *)
(***************************************************************************)
EXTENDS Integers, FiniteSets, SequencesExt

CONSTANTS DefaultThreshold,
          Part               \* pairs of names of which the second begins with the first

VARIABLES
  env,    \* the settings, what is committed, and how much may happen
  disk,   \* the commits and the file
  procs,  \* what the check and the mapper are doing
  past    \* what was written last, and whether somebody wrote between

vars == <<env, disk, procs, past>>

None == <<>>   \* the directory at the root
Ended == {"idle", "done", "skipped", "killed"}
Code == {"ts", "tsx", "js", "jsx", "mjs", "cjs"}
Packages == {"apps", "packages"}

-----------------------------------------------------------------------------
(* Files.                                                                   *)

InDir(f, dir) == IsPrefix(dir, f.dir)

Migration(f) ==
  \/ InDir(f, <<"supabase", "migrations">>) /\ f.ext = "sql"
  \/ \E dir \in {<<"prisma", "migrations">>, <<"drizzle", "meta">>, <<"drizzle", "migrations">>} : InDir(f, dir)
  \/ \E dir \in {<<"src", "migrations">>, <<"db", "migrations">>, <<"migrations">>} :
       InDir(f, dir) /\ f.ext \in {"ts", "js", "sql"}

Route(f) ==
  /\ f.ext \in Code
  /\ \E what \in {"routes", "api"} :
       \/ InDir(f, <<"src", what>>)
       \/ Len(f.dir) > 3 /\ f.dir[1] \in Packages /\ SubSeq(f.dir, 3, 4) = <<"src", what>>

Barrel(f) ==
  /\ Len(f.dir) = 3 /\ f.dir[1] \in Packages /\ f.dir[3] = "src"
  /\ f.name = "index" /\ f.ext \in Code \ {"jsx"}

\* The most specific rule wins.
ClassifyFile(f) ==
  IF Migration(f) THEN "migration" ELSE IF Route(f) THEN "route"
  ELSE IF Barrel(f) THEN "barrel" ELSE "none"

\* Whether a text names a directory, if only as the beginning of another.
Includes(text, dir) ==
  \E m \in text : \E i \in 1..Len(m) :
    LET j == i + Len(dir) - 1
    IN  /\ j <= Len(m) /\ SubSeq(m, i, j - 1) = Front(dir)
        /\ m[j] = Last(dir) \/ <<Last(dir), m[j]>> \in Part

\* Mutant: only the directory itself counts.
MappedItself(f, text) == f.dir # None /\ Includes(text, f.dir)

\* A file is known if any directory above it is named, one at the root if it
\* is named itself.
IsPathMapped(f, text) ==
  IF f.dir = None THEN <<f.name>> \in text
  ELSE \E i \in 1..Len(f.dir) : Includes(text, SubSeq(f.dir, 1, i))

-----------------------------------------------------------------------------
(* What is told.                                                            *)

\* Mutant: what the text knows is not told, of whatever kind.
UnknownAlone(added, text) ==
  {[category |-> IF ClassifyFile(f) = "none" THEN "new_dir" ELSE ClassifyFile(f), file |-> f] :
     f \in {g \in added : ~IsPathMapped(g, text)}}

\* An added file of one of the kinds, or one that the text does not know.
Elements(added, text) ==
  {[category |-> IF ClassifyFile(f) = "none" THEN "new_dir" ELSE ClassifyFile(f), file |-> f] :
     f \in {g \in added : ClassifyFile(g) # "none" \/ ~IsPathMapped(g, text)}}

Threshold == IF env.threshold >= 1 THEN env.threshold ELSE DefaultThreshold
Action == IF env.action = "auto-remap" THEN "auto-remap" ELSE "warn"

\* Mutant: one directory stands for all packages.
TopsAlone(files) == {IF f.dir = None THEN <<f.name>> ELSE <<f.dir[1]>> : f \in {g \in files : g.dir = None \/ g.dir[1] \notin Packages}}

\* A package counts by itself, anything else by its directory at the root.
ChooseAffectedPaths(files) ==
  {IF f.dir = None THEN <<f.name>>
   ELSE IF f.dir[1] \in Packages THEN SubSeq(Append(f.dir, f.name), 1, 2) ELSE <<f.dir[1]>> : f \in files}

\* What the check says.
DetectDrift(added, text) ==
  LET elements == Elements(added, text)
      required == Cardinality(elements) >= Threshold
  IN  [elements |-> elements, directive |-> IF required THEN Action ELSE "none",
       spawn |-> required /\ Action = "auto-remap",
       paths |-> IF required THEN ChooseAffectedPaths({e.file : e \in elements}) ELSE {}]

NoReport == [elements |-> {}, directive |-> "none", spawn |-> FALSE, paths |-> {}]

-----------------------------------------------------------------------------
(* The stamp.                                                               *)

\* Lines that are not a key and a value are dropped.
ParseFrontmatter(doc) == SelectSeq(doc.front, LAMBDA l : l.key # "none")

\* Mutant: the stamp is all that stays above the text.
StampOnly(front, commit) == <<[key |-> "last_mapped_commit", value |-> commit]>>

Upsert(front, commit) ==
  LET stamp == [key |-> "last_mapped_commit", value |-> commit]
  IN  IF \E i \in DOMAIN front : front[i].key = stamp.key
      THEN [i \in DOMAIN front |-> IF front[i].key = stamp.key THEN stamp ELSE front[i]]
      ELSE Append(front, stamp)

ReadMappedCommit(doc) ==
  LET stamps == SelectSeq(ParseFrontmatter(doc), LAMBDA l : l.key = "last_mapped_commit")
  IN  IF ~doc.there \/ stamps = <<>> THEN 0 ELSE Last(stamps).value

Head0 == Len(disk.commits)
Tree(commit) == IF commit = 0 \/ commit \in disk.dropped THEN {} ELSE disk.commits[commit]

-----------------------------------------------------------------------------
(* The check.                                                               *)

Check(at) == procs.check.at = at

BeginCheck ==
  /\ procs.check.at \in Ended /\ past.checks < env.checks /\ procs.map.at \in Ended \cup {"write", "read", "stamp"}
  /\ procs' = [procs EXCEPT !.check = [at |-> "text", text |-> {}, stamp |-> 0, added |-> {}, head |-> 0,
                                       report |-> NoReport, steady |-> TRUE]]
  /\ past' = [past EXCEPT !.checks = @ + 1]
  /\ UNCHANGED <<env, disk>>

\* Without the file nothing can be told.
ReadText ==
  /\ Check("text")
  /\ procs' = [procs EXCEPT !.check.at = IF disk.doc.there THEN "base" ELSE "skipped", !.check.text = disk.doc.body]
  /\ UNCHANGED <<env, disk, past>>

\* The file is read again for the stamp.
ReadStamp ==
  /\ Check("base")
  /\ procs' = [procs EXCEPT !.check.at = IF env.git THEN "diff" ELSE "skipped",
                            !.check.stamp = ReadMappedCommit(disk.doc)]
  /\ UNCHANGED <<env, disk, past>>

\* A stamp that is no commit here stands for an empty repository.
Compare ==
  LET added == Tree(Head0) \ Tree(procs.check.stamp)
  IN  /\ Check("diff")
      /\ procs' = [procs EXCEPT !.check.at = "done", !.check.added = added, !.check.head = Head0,
                                !.check.report = DetectDrift(added, procs.check.text)]
      /\ UNCHANGED <<env, disk, past>>

-----------------------------------------------------------------------------
(* The mapper, the repository and people.                                   *)

Map(at) == procs.map.at = at

\* A mapper looks at all, or at what the check asked for.
BeginMap ==
  /\ procs.map.at \in Ended /\ past.maps < env.maps
  /\ \E paths \in IF Check("done") /\ procs.check.report.spawn THEN {{}, procs.check.report.paths} ELSE {{}} :
       LET seen == {f \in Tree(Head0) : paths = {} \/ \E q \in paths : IsPrefix(q, Append(f.dir, f.name))}
       IN  procs' = [procs EXCEPT !.map = [at |-> "write", front |-> <<>>, body |-> {},
                        dirs |-> {IF f.dir = None THEN <<f.name>> ELSE f.dir : f \in seen}]]
  /\ past' = [past EXCEPT !.maps = @ + 1]
  /\ UNCHANGED <<env, disk>>

\* The check under way did not read one text.
DocIs(doc) == disk' = [disk EXCEPT !.doc = doc]
Unsteady(next) == procs' = [next EXCEPT !.check.steady = FALSE]

WriteText ==
  LET body == (IF disk.doc.there THEN disk.doc.body ELSE {}) \cup procs.map.dirs
  IN  /\ Map("write")
      /\ DocIs([disk.doc EXCEPT !.there = TRUE, !.body = body])
      /\ Unsteady([procs EXCEPT !.map.at = "read"])
      /\ past' = [past EXCEPT !.body = body]
      /\ UNCHANGED env

ReadFront ==
  /\ Map("read")
  /\ procs' = [procs EXCEPT !.map.at = "stamp", !.map.front = IF disk.doc.there THEN ParseFrontmatter(disk.doc) ELSE <<>>,
                            !.map.body = IF disk.doc.there THEN disk.doc.body ELSE {}]
  /\ UNCHANGED <<env, disk, past>>

\* The file is written as it was read, below the stamp.
WriteMappedCommit ==
  /\ Map("stamp")
  /\ DocIs([there |-> TRUE, front |-> Upsert(procs.map.front, Head0), body |-> procs.map.body])
  /\ Unsteady([procs EXCEPT !.map.at = "done"])
  /\ UNCHANGED <<env, past>>

\* A person writes what is above the text and adds to the text.
Edit ==
  /\ past.edits < env.edits
  /\ DocIs([there |-> TRUE, front |-> <<[key |-> "owner", value |-> 1], [key |-> "none", value |-> 0]>>,
            body |-> past.body \cup {<<"notes">>}])
  /\ Unsteady(procs)
  /\ past' = [past EXCEPT !.edits = @ + 1, !.body = @ \cup {<<"notes">>}, !.owner = TRUE, !.crossed = @ \/ Map("stamp")]
  /\ UNCHANGED env

Commit ==
  /\ Head0 < env.commits
  /\ \E c \in env.changes :
       disk' = [disk EXCEPT !.commits = Append(@, (Tree(Head0) \cup c.adds) \ c.removes)]
  /\ UNCHANGED <<env, procs, past>>

\* History is written anew: the commits before the head are no longer there.
Rewrite ==
  /\ past.rewrites < env.rewrites
  /\ disk' = [disk EXCEPT !.dropped = 1..(Head0 - 1)]
  /\ past' = [past EXCEPT !.rewrites = @ + 1]
  /\ Unsteady(procs) /\ UNCHANGED env

-----------------------------------------------------------------------------
InitIn(e) ==
  /\ env = e
  /\ disk = [commits |-> <<e.tree>>, dropped |-> {}, doc |-> [there |-> FALSE, front |-> <<>>, body |-> {}]]
  /\ procs = [check |-> [at |-> "idle", text |-> {}, stamp |-> 0, added |-> {}, head |-> 0, report |-> NoReport, steady |-> TRUE],
              map |-> [at |-> "idle", front |-> <<>>, body |-> {}, dirs |-> {}]]
  /\ past = [checks |-> 0, maps |-> 0, edits |-> 0, rewrites |-> 0, body |-> {}, owner |-> FALSE, crossed |-> FALSE]

Next ==
  \/ BeginCheck \/ ReadText \/ ReadStamp \/ Compare
  \/ BeginMap \/ WriteText \/ ReadFront \/ WriteMappedCommit
  \/ Edit \/ Commit \/ Rewrite

-----------------------------------------------------------------------------
\* Only the check and the mapper move, and a stamp is of a commit.
TypeOK ==
  /\ procs.check.at \in Ended \cup {"text", "base", "diff"}
  /\ procs.map.at \in Ended \cup {"write", "read", "stamp"}
  /\ ReadMappedCommit(disk.doc) \in 0..Head0 /\ disk.dropped \subseteq 1..Head0

\* A stamp leaves the text and a person's line above it as they were, unless
\* the file was written between its reading and its writing; and of what was
\* committed since a mapper looked nothing is lost to the check that follows,
\* unless it was committed before the stamp or the text names a directory above.
TextKept ==
  /\ ~past.crossed =>
       /\ disk.doc.body = past.body
       /\ past.owner => \E i \in DOMAIN disk.doc.front : disk.doc.front[i].key = "owner"
  /\ LET c == procs.check IN (Check("done") /\ c.steady /\ c.stamp > 0) =>
       \A f \in disk.commits[c.head] \ disk.commits[c.stamp] :
         (\A m \in c.text : ~\E i \in 1..Len(f.dir) : Includes({m}, SubSeq(f.dir, 1, i))) /\ f.dir # None
           => \E e \in c.report.elements : e.file = f

\* When a mapper has stamped the head and nothing was committed since, a check
\* that read one text tells nothing; whatever it tells lies below one of the
\* paths it wants mapped, and it asks for mapping only if it told enough.
DriftTold ==
  LET c == procs.check
      tells == c.report.elements
  IN  Check("done") =>
        /\ c.steady /\ c.stamp = c.head => tells = {}
        /\ c.report.directive # "none" =>
             /\ \A e \in tells : \E q \in c.report.paths : IsPrefix(q, Append(e.file.dir, e.file.name))
             /\ Cardinality(tells) >= env.threshold
        /\ \A e \in tells : e.file \in c.added /\ (e.category = "new_dir" /\ e.file.dir # None => ~Includes(c.text, <<e.file.dir[1]>>))
        /\ \A f \in c.added : ClassifyFile(f) # "none" => \E e \in tells : e = [category |-> ClassifyFile(f), file |-> f]
================================================================================
