------------------------------- MODULE InstallPlan -------------------------------
(***************************************************************************)
(* What an installation of the editor kit is going to copy (scripts/lib:   *)
(* install/request, install/runtime, install-manifests, install-executor,  *)
(* install-targets).  A request names a profile, modules, components to    *)
(* add and to leave out, or languages.  Its modules are resolved one       *)
(* dependency at a time; those a tool does not support are skipped; the    *)
(* paths of the others become the files to copy.  A name is a sequence of  *)
(* words, a path a sequence of names.                                      *)
(***************************************************************************)
EXTENDS Integers, FiniteSets, SequencesExt

VARIABLES
  env,    \* the catalog, the files of the kit and the request
  disk,   \* the plan
  procs,  \* how far the planning is
  past    \* why it was given up

vars == <<env, disk, procs, past>>

At(at) == procs.at = at
GoesTo(at) == procs' = [procs EXCEPT !.at = at]

Dedupe(s) == FoldLeft(LAMBDA found, x : IF Contains(found, x) THEN found ELSE Append(found, x), <<>>, s)

GivesUp(why) == GoesTo("refused") /\ past' = [past EXCEPT !.why = why] /\ UNCHANGED <<env, disk>>

Deps(m) == env.modules[m].deps
Supported(m, target) ==
  target \in env.modules[m].targets /\ (target = "antigravity" => env.modules[m].paths # <<>>)
Known == DOMAIN env.modules

\* What several components stand for together.
Expand(components) == Dedupe(FlattenSeq([i \in DOMAIN components |-> env.components[components[i]]]))
Excluded == ToSet(Expand(env.request.without))

\* A component is shown for the tools that all its modules list.
ComponentTargets(c) ==
  LET named == ToSet(env.components[c]) \cap Known
  IN  IF named = {} THEN {} ELSE {t \in env.targets : \A m \in named : t \in env.modules[m].targets}

-----------------------------------------------------------------------------
(* The request.                                                             *)

FromCatalog(r) == r.profile # "none" \/ r.modules # <<>> \/ r.with # <<>>

\* Languages go with nothing else, and something must be asked for.
Normalize ==
  LET r == env.request
  IN  /\ At("request")
      /\ IF ~(ToSet(r.modules) \subseteq Known) THEN GivesUp("unknown")
         ELSE IF (FromCatalog(r) \/ r.without # <<>>) /\ r.languages # <<>> THEN GivesUp("mixed")
         ELSE IF ~FromCatalog(r) /\ r.languages = <<>> THEN GivesUp("nothing")
         ELSE /\ GoesTo(IF r.direct THEN "files" ELSE IF r.languages # <<>> THEN "languages" ELSE "select")
              /\ UNCHANGED <<env, disk, past>>

\* A language stands for the modules every installation has and its own.
FromLanguages ==
  LET r == env.request
      base == env.base[IF r.target \in DOMAIN env.base THEN r.target ELSE "claude"]
      extra == [i \in DOMAIN r.languages |-> env.extra[env.alias[r.languages[i]]]]
      all == Dedupe(base \o (IF r.target = "antigravity" THEN <<>> ELSE FlattenSeq(extra)))
  IN  /\ At("languages")
      /\ IF ~(ToSet(r.languages) \subseteq DOMAIN env.alias) \/ ~(ToSet(all) \subseteq Known) THEN GivesUp("unknown")
         ELSE /\ procs' = [procs EXCEPT !.at = "resolve", !.queue = all]
              /\ disk' = [disk EXCEPT !.requested = all]
              /\ UNCHANGED <<env, past>>

\* The profile's modules, those named, and those of the components, without
\* what is excluded.
Select ==
  LET r == env.request
      asked == (IF r.profile = "none" THEN <<>> ELSE env.profiles[r.profile]) \o r.modules \o Expand(r.with)
      left == Dedupe(SelectSeq(asked, LAMBDA m : m \notin Excluded))
  IN  /\ At("select")
      /\ IF \/ r.profile # "none" /\ r.profile \notin DOMAIN env.profiles
            \/ ~(ToSet(r.with \o r.without) \subseteq DOMAIN env.components)
            \/ r.target \notin env.targets
         THEN GivesUp("unknown")
         ELSE IF asked = <<>> THEN GivesUp("nothing")
         ELSE IF left = <<>> THEN GivesUp("all excluded")
         ELSE /\ procs' = [procs EXCEPT !.at = "resolve", !.queue = left]
              /\ disk' = [disk EXCEPT !.requested = left]
              /\ UNCHANGED <<env, past>>

-----------------------------------------------------------------------------
(* Resolving.  The stack holds the modules that are being visited, each     *)
(* with the dependencies still to come.                                     *)

Visit(m) == [id |-> m, rest |-> Deps(m)]
Visiting == {procs.stack[i].id : i \in DOMAIN procs.stack}
Top == Last(procs.stack)

\* Mutant: only the dependency that is not supported is left out.
SkipsIt(root) ==
  /\ disk' = [disk EXCEPT !.skipped = @ \cup {root}]
  /\ procs' = [procs EXCEPT !.stack = [i \in DOMAIN @ |-> IF i = Len(@) THEN [@[i] EXCEPT !.rest = Tail(@)] ELSE @[i]]]
  /\ UNCHANGED <<env, past>>

\* A module that is not supported takes all that wait for it with it, and the
\* module that was asked for is the one reported.
Unwind(root) ==
  /\ disk' = [disk EXCEPT !.skipped = @ \cup {root}]
  /\ procs' = [procs EXCEPT !.stack = <<>>]
  /\ UNCHANGED <<env, past>>

\* The next module that was asked for.
VisitRoot ==
  LET m == Head(procs.queue)
      next == [procs EXCEPT !.queue = Tail(@)]
  IN  /\ At("resolve") /\ procs.stack = <<>> /\ procs.queue # <<>>
      /\ IF m \notin Known THEN GivesUp("unknown")
         ELSE /\ disk' = IF Supported(m, env.request.target) THEN disk ELSE [disk EXCEPT !.skipped = @ \cup {m}]
              /\ procs' = IF ~Supported(m, env.request.target) \/ m \in disk.selected THEN next
                          ELSE [next EXCEPT !.stack = <<Visit(m)>>]
              /\ UNCHANGED <<env, past>>

\* Mutant: what is excluded is taken in as a dependency.
VisitAnyDependency ==
  /\ At("resolve") /\ procs.stack # <<>> /\ Top.rest # <<>>
  /\ LET d == Head(Top.rest)
         popped == Append(Front(procs.stack), [Top EXCEPT !.rest = Tail(@)])
     IN  IF d \notin Known THEN GivesUp("unknown")
         ELSE IF ~Supported(d, env.request.target) THEN Unwind(Head(procs.stack).id)
         ELSE IF d \notin disk.selected /\ d \in Visiting THEN GivesUp("cycle")
         ELSE /\ procs' = [procs EXCEPT !.stack = IF d \in disk.selected THEN popped ELSE Append(popped, Visit(d))]
              /\ UNCHANGED <<env, disk, past>>

\* The next dependency of the module on top.
VisitDependency ==
  /\ At("resolve") /\ procs.stack # <<>> /\ Top.rest # <<>>
  /\ LET d == Head(Top.rest)
         popped == Append(Front(procs.stack), [Top EXCEPT !.rest = Tail(@)])
     IN  IF d \notin Known THEN GivesUp("unknown")
         ELSE IF d \in Excluded THEN GivesUp("excluded")
         ELSE IF ~Supported(d, env.request.target) THEN Unwind(Head(procs.stack).id)
         ELSE IF d \notin disk.selected /\ d \in Visiting THEN GivesUp("cycle")
         ELSE /\ procs' = [procs EXCEPT !.stack = IF d \in disk.selected THEN popped ELSE Append(popped, Visit(d))]
              /\ UNCHANGED <<env, disk, past>>

Resolved ==
  /\ At("resolve") /\ procs.stack # <<>> /\ Top.rest = <<>>
  /\ disk' = [disk EXCEPT !.selected = @ \cup {Top.id}]
  /\ procs' = [procs EXCEPT !.stack = Front(@)]
  /\ UNCHANGED <<env, past>>

-----------------------------------------------------------------------------
(* The operations.                                                          *)

Rules == << <<"rules">> >>
CursorDir == << <<".cursor">> >>
Commands == << <<"commands">> >>
Agents == << <<"agents">> >>
Skills == << <<"skills">> >>

Under(dir) == SelectSeq(env.files, LAMBDA f : IsStrictPrefix(dir, f))
Beyond(dir, f) == SubSeq(f, Len(dir) + 1, Len(f))
Markdown(name) == Last(name) = "md"

\* Directories that belong to one tool, and where each tool has its own.
Owner(name) == CASE name = <<".claude-plugin">> -> "claude" [] name = <<".codex">> -> "codex"
                 [] name = <<".cursor">> -> "cursor" [] name = <<".codebuddy">> -> "codebuddy" [] OTHER -> "all"
Root(target) == CASE target = "claude" -> << <<".claude">> >> [] target = "cursor" -> CursorDir
                  [] target = "antigravity" -> << <<".agent">> >> [] target = "codex" -> << <<".codex">> >>
                  [] target = "codebuddy" -> << <<".codebuddy">> >>

\* Mutant: the directories of other tools are not left out.
NoneForeign(path, target) == FALSE

\* What lies in a directory of another tool.
Foreign(path, target) == Owner(path[1]) \notin {"all", target}

\* What a tool takes: not what is another's, or only the paths it has use for.
Takes(target, path) ==
  IF target = "antigravity" THEN path[1] \in {<<"rules">>, <<"commands">>, <<"agents">>, <<"skills">>}
  ELSE ~Foreign(path, target)

Op(m, src, dst) == [mod |-> m, src |-> src, dst |-> dst]

\* A tool's own directory goes to its root, everything else below it.
Scaffold(m, path, target) ==
  LET own == Len(path) = 1 /\ Owner(path[1]) = target
  IN  <<Op(m, path, IF own THEN Root(target) ELSE Root(target) \o path)>>

\* Rules end up in one directory, their path in their name; for one tool the
\* ending changes and what only explains the rules stays away.
FlatRules(m, dir, target) ==
  LET Name(f) == FlattenSeq(Beyond(dir, f))
      Renamed(f) == IF target = "cursor" /\ Markdown(Name(f)) THEN Append(Front(Name(f)), "mdc") ELSE Name(f)
      kept == SelectSeq(Under(dir), LAMBDA f : target = "cursor" => Last(f) # <<"README", "md">>)
  IN  [i \in DOMAIN kept |-> Op(m, kept[i], Root(target) \o Append(Rules, Renamed(kept[i])))]

Children(dir) ==
  LET below == Under(dir)
  IN  Dedupe([i \in DOMAIN below |-> SubSeq(below[i], 1, Len(dir) + 1)])

\* One path of one module.
PathOps(m, path, target) ==
  CASE path = Rules /\ target \in {"cursor", "antigravity", "codebuddy"} -> FlatRules(m, Rules, target)
    [] path = CursorDir /\ target = "cursor" ->
         LET own == SelectSeq(Children(CursorDir), LAMBDA c : c[2] # <<"rules">>)
         IN  [i \in DOMAIN own |-> Op(m, own[i], own[i])] \o FlatRules(m, CursorDir \o Rules, target)
    [] path = Commands /\ target = "antigravity" -> <<Op(m, path, Root(target) \o << <<"workflows">> >>)>>
    [] path = Agents /\ target = "antigravity" -> <<Op(m, path, Root(target) \o Skills)>>
    [] OTHER -> Scaffold(m, path, target)

\* The paths of the selected modules in the order of the catalog.
Entries ==
  LET chosen == SelectSeq(env.order, LAMBDA m : m \in disk.selected)
      Of(m) == LET paths == SelectSeq(env.modules[m].paths, LAMBDA p : Takes(env.request.target, p))
               IN  [i \in DOMAIN paths |-> [mod |-> m, path |-> paths[i]]]
  IN  FlattenSeq([i \in DOMAIN chosen |-> Of(chosen[i])])

\* Mutant: the paths keep the order of the catalog.
InCatalogOrder(entries) == entries

\* The tool's own directory goes first, then the rules.
Prioritized(entries) ==
  SelectSeq(entries, LAMBDA e : e.path = CursorDir) \o SelectSeq(entries, LAMBDA e : e.path = Rules)
    \o SelectSeq(entries, LAMBDA e : e.path \notin {CursorDir, Rules})

\* Of the operations that would write the same place the first is kept.
Unique(ops) ==
  FoldLeft(LAMBDA kept, o : IF \E i \in DOMAIN kept : kept[i].dst = o.dst THEN kept ELSE Append(kept, o), <<>>, ops)

Ops(entries, target) ==
  FlattenSeq([i \in DOMAIN entries |-> PathOps(entries[i].mod, entries[i].path, target)])

Plan ==
  LET target == env.request.target
  IN  /\ At("resolve") /\ procs.stack = <<>> /\ procs.queue = <<>>
      /\ disk' = [disk EXCEPT !.ops = IF target = "cursor" THEN Unique(Ops(Prioritized(Entries), target))
                                      ELSE Ops(Entries, target)]
      /\ GoesTo("copy") /\ UNCHANGED <<env, past>>

-----------------------------------------------------------------------------
(* The files.                                                               *)

Ignored(path) == \E i \in DOMAIN path : path[i] \in {<<"node_modules">>, <<".git">>}
Generated(path) == Len(path) > 1 /\ Last(path) = <<"ecc-install-state", "json">>

\* All files below a directory, ignored ones aside.
Below(m, dir, dst) ==
  LET found == SelectSeq(Under(dir), LAMBDA f : ~Ignored(Beyond(dir, f)))
  IN  [i \in DOMAIN found |-> Op(m, found[i], dst \o Beyond(dir, found[i]))]

\* An operation stands for its file or for all below its directory.
Materialize(o) ==
  IF o.src \in ToSet(env.files)
  THEN IF Generated(o.src) THEN <<>> ELSE <<o>>
  ELSE SelectSeq(Below(o.mod, o.src, o.dst), LAMBDA c : ~Generated(c.src))

Copy ==
  /\ At("copy")
  /\ disk' = [disk EXCEPT !.copies = FlattenSeq([i \in DOMAIN disk.ops |-> Materialize(disk.ops[i])])]
  /\ GoesTo("done") /\ UNCHANGED <<env, past>>

\* The rules of one directory whose names begin with some words, put side by
\* side under names with others before them.
Matching(m, dir, dst, words, before) ==
  LET fits(n) == Markdown(n) /\ IsPrefix(words, n) /\ Len(n) > Len(words) + 1
      found == SelectSeq(Under(dir), LAMBDA f : Len(f) = Len(dir) + 1 /\ fits(Last(f)))
  IN  [i \in DOMAIN found |-> Op(m, found[i], Append(dst, before \o Last(found[i])))]

LegacyClaude(languages) ==
  LET Rule(l) == Below("legacy", Append(Rules, <<l>>), Root("claude") \o Append(Rules, <<l>>))
  IN  Rule("common") \o FlattenSeq([i \in DOMAIN languages |-> Rule(languages[i])])

LegacyCursor(languages) ==
  LET from == CursorDir \o Rules
      Rule(l) == Matching("legacy", from, from, <<l>>, <<>>)
      Whole(d) == Below("legacy", CursorDir \o d, CursorDir \o d)
      single == SelectSeq(env.files, LAMBDA f : f \in {Append(CursorDir, <<"hooks", "json">>), Append(CursorDir, <<"mcp", "json">>)})
  IN  Rule("common") \o FlattenSeq([i \in DOMAIN languages |-> Rule(languages[i])])
        \o Whole(Agents) \o Whole(Skills) \o Whole(Commands) \o Whole(<< <<"hooks">> >>)
        \o [i \in DOMAIN single |-> Op("legacy", single[i], single[i])]

LegacyAntigravity(languages) ==
  LET to == Root("antigravity")
      Rule(l) == Matching("legacy", Append(Rules, <<l>>), to \o Rules, <<>>, <<l>>)
  IN  Rule("common") \o FlattenSeq([i \in DOMAIN languages |-> Rule(languages[i])])
        \o Below("legacy", Commands, to \o << <<"workflows">> >>)
        \o Below("legacy", Agents, to \o Skills) \o Below("legacy", Skills, to \o Skills)

\* Without the catalog the files are named at once.
PlanFiles ==
  LET r == env.request
      well == SelectSeq(r.languages, LAMBDA l : l \in env.wellNamed)
  IN  /\ At("files")
      /\ IF r.target \notin {"claude", "cursor", "antigravity"} THEN GivesUp("unknown")
         ELSE /\ disk' = [disk EXCEPT !.copies =
                   CASE r.target = "claude" -> LegacyClaude(well)
                     [] r.target = "cursor" -> LegacyCursor(well)
                     [] r.target = "antigravity" -> LegacyAntigravity(well)]
              /\ GoesTo("done") /\ UNCHANGED <<env, past>>

-----------------------------------------------------------------------------
InitIn(e) ==
  /\ env = e
  /\ disk = [requested |-> <<>>, selected |-> {}, skipped |-> {}, ops |-> <<>>, copies |-> <<>>]
  /\ procs = [at |-> "request", queue |-> <<>>, stack |-> <<>>]
  /\ past = [why |-> "none"]

Next ==
  \/ Normalize \/ FromLanguages \/ Select
  \/ VisitRoot \/ VisitDependency \/ Resolved
  \/ Plan \/ Copy \/ PlanFiles

-----------------------------------------------------------------------------
(* Properties.                                                              *)

TypeOK ==
  /\ procs.at \in {"request", "languages", "select", "resolve", "copy", "files", "done", "refused"}
  /\ disk.selected \subseteq Known /\ disk.skipped \subseteq Known
  /\ \A i \in DOMAIN disk.copies : disk.copies[i].src \in ToSet(env.files)
  /\ past.why \in {"none", "unknown", "mixed", "nothing", "all excluded", "excluded", "cycle"}

Asked == ToSet(disk.requested)

\* A set of modules that could be installed together.
Installable(S) == \A m \in S : Supported(m, env.request.target) /\ m \notin Excluded /\ ToSet(Deps(m)) \subseteq S

\* All that a set of modules needs in the end.
Needs(S) ==
  LET Enough == {T \in SUBSET Known : S \cap Known \subseteq T /\ \A m \in T : ToSet(Deps(m)) \cap Known \subseteq T}
  IN  {m \in Known : \A T \in Enough : m \in T}

(* What is selected can be installed together and has no cycle; a module    *)
(* that was asked for is selected if some installable set has it and is     *)
(* reported as skipped otherwise; nothing is selected that no module asked  *)
(* for needs.  The planning gives up because of a cycle or an exclusion     *)
(* only if there is one, and a component that is not shown for a tool       *)
(* is never installed there in full.                                        *)
PlanClosed ==
  /\ At("copy") \/ (At("done") /\ ~env.request.direct) =>
       /\ Installable(disk.selected)
       /\ \A m \in disk.selected : m \notin Needs(ToSet(Deps(m)))
       /\ disk.selected \subseteq Needs(Asked)
       /\ \A m \in Asked : /\ m \in disk.selected <=> \E S \in SUBSET Known : m \in S /\ Installable(S)
                           /\ m \in disk.skipped <=> m \notin disk.selected
       /\ \A c \in ToSet(env.request.with) :
            env.request.target \notin ComponentTargets(c) => ~(ToSet(env.components[c]) \subseteq disk.selected)
  /\ past.why = "cycle" => \E m \in Needs(Asked) : m \in Needs(ToSet(Deps(m)))
  /\ past.why = "excluded" => Needs(Asked) \cap Excluded # {}

(* Every file that is copied lies below a path of the module it is copied   *)
(* for and goes below the tool's root, and none is another tool's.  Each    *)
(* path of a selected module that the tool takes is planned, or its place   *)
(* is taken by another one; for Cursor no two operations have one place,    *)
(* and what it has itself goes before what the kit would flatten into it.   *)
KitPlanned ==
  At("done") /\ ~env.request.direct =>
    LET target == env.request.target
        ops == ToSet(disk.ops)
    IN  /\ \A c \in ToSet(disk.copies) :
             /\ c.mod \in disk.selected /\ \E p \in ToSet(env.modules[c.mod].paths) : IsPrefix(p, c.src)
             /\ IsStrictPrefix(Root(target), c.dst) /\ Owner(c.src[1]) \in {"all", target}
        /\ \A e \in ToSet(Entries) : \A o \in ToSet(PathOps(e.mod, e.path, target)) : \E k \in ops : k.dst = o.dst
        /\ target = "cursor" =>
             /\ \A i, j \in DOMAIN disk.ops : disk.ops[i].dst = disk.ops[j].dst => i = j
             /\ \A e \in ToSet(Entries) : e.path = CursorDir =>
                  \A o \in ops : (\E k \in ToSet(PathOps(e.mod, e.path, target)) : k.dst = o.dst) => IsPrefix(CursorDir, o.src)
=============================================================================
