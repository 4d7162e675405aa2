------------------------------ MODULE MCTooling ------------------------------
(***************************************************************************)
(* The planning tools (gsd-core), the installer, hooks and stores of the   *)
(* editor kit and the orchestrator of tmux sessions, for TLC.  Each model  *)
(* is of one set of files and the processes that work on it, and the sets  *)
(* are disjoint: a behaviour chooses one model at its start and stays with *)
(* it, so that the states are those of the models one after the other.     *)
(* What a behaviour exposes its files to is an environment: the commands,  *)
(* the deaths, the writes that fail.                                       *)
(***************************************************************************)
EXTENDS Integers, Sequences, FiniteSets, TLC

VARIABLES
  tool,   \* the model this behaviour belongs to
  env,    \* what it exposes the files to
  disk,   \* the files
  procs,  \* the processes
  past    \* what happened before that the properties ask for

vars == <<tool, env, disk, procs, past>>

Three == {1, 2, 3}

-----------------------------------------------------------------------------
\* STATE.md: phase 1 has two plans.
State == INSTANCE PlanningState WITH Procs <- Three, Plans <- <<2, 1>>, KeepRecent <- 1

StateEnvs ==
  LET C(op, n) == [op |-> op, n |-> n]
      None == C("none", 1)
      Ops == {C(op, 1) : op \in {"update", "patch", "advance", "metric", "decision", "blocker",
                                 "resolve", "session", "progress", "begin", "planned",
                                 "complete", "switch", "prune", "sync", "waiting", "resume"}}
                \cup {C("begin", 2)}
      E(a, b, c, layout, kills, slow, finishes) ==
        [work |-> <<a, b, c>>, layout |-> layout, kills |-> kills, slow |-> slow,
         finishes |-> finishes, clears |-> 0]
  IN  {E(C("advance", 1), C("begin", 2), None, l, 0, FALSE, 1) : l \in {"fields", "position"}}
        \cup {[E(C("advance", 1), C(x, 1), None, l, 0, FALSE, 1) EXCEPT !.clears = 1] :
                x \in {"progress", "sync"}, l \in {"fields", "position"}}
        \cup {E(a, b, None, l, 0, FALSE, 0) : a \in Ops, b \in Ops, l \in {"fields", "position"}}
        \cup {E(C("begin", 2), C("prune", 1), x, "fields", 0, FALSE, 0) :
                x \in {C("prune", 1), C("decision", 1), C("blocker", 1)}}
        \cup {E(C("advance", 1), C("progress", 1), C("switch", 1), l, 0, FALSE, 1) :
                l \in {"fields", "position"}}
        \cup {E(C("decision", 1), C("blocker", 1), x, "fields", k, s, 0) :
                x \in {None, C("metric", 1)}, k \in {0, 1}, s \in BOOLEAN}
        \cup {E(C("begin", 2), C("prune", 1), None, "fields", 1, FALSE, 0)}

-----------------------------------------------------------------------------
\* Phases 1, 2, 2.1, 3 and the backlog.
Ledger == INSTANCE PhaseLedger WITH Procs <- Three, NewSlugs <- <<<<"new1">>, <<"new2", "more">>, <<"new3">>>>

LedgerEnvs ==
  LET C(op, n, k, force) == [op |-> op, id |-> [n |-> n, k |-> k], force |-> force]
      None == C("none", 1, 0, FALSE)
      Add == C("add", 1, 0, FALSE)
      Insert == C("insert", 2, 0, FALSE)
      Batch == C("batch", 1, 0, FALSE)
      Complete(n) == C("complete", n, 0, FALSE)
      Progress == C("progress", 1, 0, FALSE)
      Remove(n, k) == C("remove", n, k, FALSE)
      Ops == {Add, Batch, Insert, C("insert", 7, 0, FALSE), Remove(1, 0), Remove(2, 0), Remove(2, 1),
              Complete(1), Complete(2), Complete(3), Progress, C("annotate", 2, 0, FALSE),
              C("requirements", 1, 0, FALSE), C("milestone", 1, 0, FALSE),
              C("milestone", 1, 0, TRUE), C("clear", 1, 0, TRUE), C("remove", 1, 0, TRUE)}
      E(a, b, c, kills, slow, finishes, faults) ==
        [work |-> <<a, b, c>>, kills |-> kills, slow |-> slow, finishes |-> finishes,
         faults |-> faults]
  IN  {E(a, b, None, 0, FALSE, 0, 0) : a \in Ops, b \in Ops}
        \cup {E(Add, x, y, 0, FALSE, 0, 0) :
                x \in {Insert, Batch, Complete(1)},
                y \in {Progress, Remove(2, 0)}}
        \cup {E(Complete(1), x, None, 0, FALSE, 0, y) :
                x \in {Complete(2), Progress, None}, y \in 1..2}
        \cup {E(Add, Insert, Complete(1), k, s, 0, 0) : k \in 0..1, s \in BOOLEAN}
        \cup {E(Remove(1, 0), Progress, None, 0, FALSE, 1, 0)}

-----------------------------------------------------------------------------
\* A wave of two worktrees, the session that runs it and the next one.
Worktrees == INSTANCE WorktreeSafety
               WITH Procs <- {1, 2}, Trees <- {"a", "b"}, Wave <- <<"a", "b">>

WorktreeEnvs ==
  LET E(clash, drifted, deleters, unlocked, refusals, remote, rounds, kills, reaps) ==
        [clash |-> clash, drifted |-> drifted, deleters |-> deleters, unlocked |-> unlocked,
         refusals |-> refusals, remote |-> remote, rounds |-> rounds, kills |-> kills, reaps |-> reaps]
  IN  {E({}, {}, {}, {}, {}, FALSE, 1, 1, 1), E({"a"}, {}, {}, {"b"}, {<<"b", "branch">>}, TRUE, 2, 0, 0),
       E({}, {"b"}, {"a"}, {}, {}, TRUE, 1, 0, 0),
       E({}, {}, {}, {}, {<<"a", "copy">>, <<"a", "branch">>, <<"b", "remove">>}, FALSE, 1, 0, 0)}

-----------------------------------------------------------------------------
\* Commands of two sessions over a flat layout of two files.
Streams == INSTANCE Workstreams
             WITH Procs <- {"p1", "p2", "p3"}, Files <- {"state", "roadmap"},
                  Streams <- {"a", "b"}

StreamEnvs ==
  LET W(op, w) == [op |-> op, stream |-> w]
      E(a, b, c, stuck, kills, flat) ==
        [work |-> [p1 |-> a, p2 |-> b, p3 |-> c], slot |-> [p1 |-> "s", p2 |-> "s", p3 |-> "t"],
         stuck |-> stuck, jammed |-> {}, kills |-> kills, milestone |-> "a", flat |-> flat]
      Both == {"state", "roadmap"}
  IN  {E(W("create", "b"), x, W("read", "a"), st, k, Both) :
         x \in {W("create", "b"), W("complete", "a"), W("set", "a")},
         st \in {{}, {"state"}}, k \in {0, 1}}
        \cup {E(W("create", w), W("complete", "a"), x, st, k, {}) : w \in {"a", "b"},
                x \in {W("clear", "a"), W("create", "a"), W("complete", "b")},
                st \in {{}, {"state"}}, k \in {0, 1}}
        \cup {E(W("create", "a"), W("complete", "a"), W("complete", "b"), {}, 1, Both)}
        \cup {[E(W("create", "b"), W("complete", "a"), W("read", "a"), {"state"}, 1, flat)
                EXCEPT !.jammed = {"roadmap"}] : flat \in {Both, {}}}

-----------------------------------------------------------------------------
\* Three phases, in a chain, a fork or as two that a third one needs.
Manager == INSTANCE PhaseManager WITH Procs <- {1, 2}, Phases <- Three, Plans <- Three

ManagerEnvs ==
  LET Chain == <<{}, {1}, {2}>>
      Fork == <<{}, {1}, {1}>>
      Diamond == <<{}, {}, {1, 2}>>
      Ladder == <<{}, {1}, {1, 2}>>
      Circle == <<{2}, {1}, {}>>
      E(deps, after, wanted, ready, again, hand, starts) ==
        [deps |-> deps, after |-> after, wanted |-> wanted, ready |-> ready, again |-> again,
         hand |-> hand, starts |-> starts, loose |-> {}, gaps |-> FALSE, kills |-> 0,
         archived |-> FALSE]
  IN  {[E(d, Fork, {1, 2}, Three, FALSE, {}, 2) EXCEPT !.kills = 1] : d \in {Chain, Diamond}}
        \cup {[E(Fork, a, {1, 2}, {1}, FALSE, h, 2) EXCEPT !.gaps = TRUE, !.archived = TRUE] :
                a \in {Fork, Diamond}, h \in {{}, {1}}}
        \cup {[E(Chain, Ladder, Three, {1}, TRUE, {}, 2) EXCEPT !.loose = l] : l \in {{}, {3}}}
        \cup {[E(Diamond, Diamond, Three, {1}, TRUE, {}, 1) EXCEPT !.kills = 1]}
        \cup {E(Fork, Circle, Three, {2}, FALSE, {}, 2)}

-----------------------------------------------------------------------------
\* config.json of the root and of a workstream, with keys of older versions or of today.
Config == INSTANCE PlanningConfig WITH Procs <- Three

ConfigEnvs ==
  LET W(op, place, key, value) ==
        [op |-> op, place |-> place, key |-> key, value |-> value, valid |-> key # "depth"]
      None == W("none", "root", "docs", "own")
      Load(x) == W("load", x, "docs", "own")
      Migrate(x) == W("migrate", x, "docs", "own")
      Set(x, k, v) == W("set", x, k, v)
      Profile == W("profile", "root", "docs", "mine")
      New == W("new", "root", "docs", "own")
      Ensure == W("ensure", "stream", "docs", "own")
      Json(keys) == [is |-> "json", keys |-> keys]
      Missing == [is |-> "none", keys |-> Config!Blank]
      F(root, stream) == [root |-> root, stream |-> stream]
      Old == [Config!Blank EXCEPT !.strategyTop = "own", !.depth = "quick", !.multi = "own"]
      Older == [Config!Blank EXCEPT !.reposTop = "own", !.multi = "own", !.docsTop = "own"]
      Both == [Config!Blank EXCEPT !.strategyTop = "own", !.strategy = "default",
                                   !.depth = "quick", !.granularity = "fine", !.docs = "own"]
      New1 == [Config!Blank EXCEPT !.strategy = "own", !.repos = "own", !.nyquist = "off"]
      Plain == [Config!Blank EXCEPT !.strategy = "own", !.docs = "own"]
      E(a, b, c, files, defaults, subrepos, kills, spoils) ==
        [work |-> <<a, b, c>>, files |-> files, defaults |-> defaults, subrepos |-> subrepos,
         ignored |-> subrepos, kills |-> kills, spoils |-> spoils]
  IN  {E(a, b, c, F(Json(Plain), Json(Plain)), Config!Blank, s, k, FALSE) :
         a \in {Set("root", "docs", "mine"), Set("root", "depth", "own"), Profile},
         b \in {Set("root", "granularity", "mine"), Migrate("root")},
         c \in {Load("stream"), Set("root", "docs", "own"), Set("stream", "docsTop", "mine")},
         s \in BOOLEAN, k \in BOOLEAN}
        \cup {E(a, b, None, F(Json(x), y), Config!Blank, s, k, ~k) :
                a \in {Load("stream"), Migrate("root")},
                b \in {Load("root"), Migrate("stream"), Set("root", "docsTop", "mine")},
                x \in {Old, Older, Both, New1}, y \in {Missing, Json(Old), Json(Both), Json(New1)},
                s \in BOOLEAN, k \in BOOLEAN}
        \cup {E(a, b, Ensure, F(Missing, Missing), d, s, FALSE, FALSE) :
                a \in {New, Profile}, b \in {Set("root", "docs", "mine"), Load("stream")},
                d \in {Config!Blank, Older, Both, Old}, s \in BOOLEAN}

-----------------------------------------------------------------------------
\* Two milestones, the version of one starting the other's, and two health commands.
Health == INSTANCE PlanningHealth WITH Procs <- {1, 2}, Starts <- {<<"v1.1", "v1.10">>}

HealthEnvs ==
  LET M(v, phases) == [v |-> v, phases |-> phases]
      Two == <<M("v1.0", {1, 2}), M("v1.1", {3})>>
      Again == <<M("v1.1", {1}), M("v1.10", {1, 2})>>
      Short == <<M("v1.0", {1}), M("v1.1", {2}), M("v1.2", {3})>>
      Full == {"workflow", "nyquist", "ai"}
      E(ms, first, level, bullets, style, moves) ==
        [milestones |-> ms, first |-> first, level |-> level, bullets |-> bullets,
         planned |-> FALSE, style |-> style, moves |-> moves, lost |-> {}, back |-> FALSE,
         asked |-> {}, again |-> TRUE, keys |-> Full, other |-> {}]
  IN  {E(ms, f, 3, b, st, mv) : ms \in {Two, Again}, f \in {0, 3}, b \in BOOLEAN,
                                st \in {"details", "tick"}, mv \in BOOLEAN}
        \cup {[E(Two, 2, 2, b, st, TRUE) EXCEPT !.planned = TRUE, !.lost = {"state"}, !.asked = {1}] :
                b \in BOOLEAN, st \in {"details", "tick", "word"}}
        \cup {[E(SubSeq(Short, 1, 2), 3, 3, TRUE, "tick", FALSE) EXCEPT
                 !.lost = l, !.back = "state" \in l, !.other = {"W005"}, !.asked = {1, 2},
                 !.keys = {"workflow"}] : l \in {{"state", "spoiled"}, {"config"}}}
        \cup {[E(Short, 3, 3, FALSE, "details", TRUE) EXCEPT !.lost = {"registry"}, !.asked = a] :
                a \in {{1}, {1, 2}}}

-----------------------------------------------------------------------------
\* Two projects with the same learning in their notes, one of them twice; an
\* old file, one without a date and a torn one.
Learnings == INSTANCE LearningStore WITH Procs <- {1, 2}, MaxId <- 7, MaxNow <- 3

LearningsEnvs ==
  LET F(is, project, text, tags, date) == [is |-> is, project |-> project, text |-> text, tags |-> tags, date |-> date]
      R(op, project, text, tag, id, days) ==
        [op |-> op, project |-> project, text |-> text, tag |-> tag, id |-> id, days |-> days]
      Copied(project) == R("copy", project, "none", "none", 1, 0)
      Sec(tags, body) == [tags |-> tags, body |-> body]
      E(n, requests, starts, files, kills) ==
        [procs |-> n, requests |-> requests, starts |-> starts, files |-> files, now |-> 2, kills |-> kills,
         notes |-> [app |-> <<Sec({"lock"}, "a"), Sec({"none"}, "none"), Sec({"retry"}, "a")>>,
                    lib |-> <<Sec({"lock"}, "a"), Sec({"wait"}, "b")>>, bare |-> <<>>],
         hasNotes |-> [app |-> TRUE, lib |-> TRUE, bare |-> FALSE]]
      Old == F("record", "app", "a", {"lock"}, 0)
      NoDate == F("record", "lib", "b", {"wait"}, -1)
      Torn == F("broken", "none", "none", {}, -1)
  IN  {E({1, 2}, {Copied("app"), Copied("lib"), R("query", "none", "none", "lock", 1, 0)}, 2, <<>>, 1),
       E({1, 2}, {Copied("lib"), R("prune", "none", "none", "none", 1, 1), R("query", "none", "none", "none", 1, 0)}, 3, <<Torn, Old, NoDate>>, 0),
       E({1, 2}, {R("delete", "none", "none", "none", 1, 0), R("prune", "none", "none", "none", 1, 1),
                  R("write", "app", "a", "none", 1, 0), Copied("bare")}, 3, <<Old, NoDate>>, 0)}

-----------------------------------------------------------------------------
\* Three kinds of files, one entry of the first looked for; a file may be
\* missing, torn, old or without a date.
Intel == INSTANCE IntelIndex WITH
  Procs <- {1, 2}, Kinds <- <<"files", "apis", "deps">>, StaleAfter <- 1, Checked <- 1, MaxVersion <- 2

IntelEnvs ==
  LET En(key, words, flaws) == [key |-> key, words |-> words, flaws |-> flaws]
      F(entries, updated) == [is |-> "json", entries |-> entries, updated |-> updated, version |-> 0]
      None == [is |-> "gone", entries |-> <<>>, updated |-> -1, version |-> 0]
      Torn == [None EXCEPT !.is = "torn"]
      R(op, file, term, source) == [op |-> op, file |-> file, term |-> term, source |-> source]
      Do(op) == R(op, "files", "none", <<>>)
      S(is, names, first) == [is |-> is, names |-> names, first |-> first]
      Roles == F(<<En("a.js", {"login"}, {}), En("b.js", {"auth"}, {"spaced", "missing"})>>, 0)
      Api == F(<<En("login", {"auth"}, {})>>, 0)
      Deps == F(<<En("pg", {"db"}, {"version"})>>, -1)
      W(name, file) == [name |-> name, file |-> file]
      Sources == {<<S("module", {"x"}, FALSE), S("single", {"y"}, TRUE), S("module", {"z"}, FALSE)>>,
                  <<S("anonymous", {}, TRUE), S("declared", {"f", "K"}, TRUE), S("list", {"g"}, TRUE), S("single", {"h"}, FALSE)>>,
                  <<S("default", {"Main"}, TRUE), S("anonymous", {}, TRUE), S("single", {"y"}, TRUE)>>, <<>>}
      E(n, config, requests, starts, files, written, writes, kills, until) ==
        [until |-> until, procs |-> n, config |-> config, requests |-> requests, starts |-> starts, files |-> files,
         written |-> written, writes |-> writes, kills |-> kills]
      Now(roles, api, deps) == [files |-> roles, apis |-> api, deps |-> deps]
  IN  {E({1, 2}, "on", {Do("snapshot"), Do("diff")}, 3, Now(Roles, None, Torn),
         {W("files", None), W("apis", Api)}, 2, 0, 0),
       E({1, 2}, "on", {R("patch", "apis", "none", <<>>), R("patch", "deps", "none", <<>>), Do("surface")}, 2,
         Now(Roles, Api, Torn), {W("apis", F(<<En("logout", {}, {})>>, 0)), W("apis", None)}, 1, 1, 1),
       E({1}, "on", {R("query", "files", "auth", <<>>), R("query", "files", "a.js", <<>>), Do("surface"), Do("status")}, 1,
         Now(Roles, F(<<>>, 0), Deps), {W("apis", Api), W("files", Torn)}, 2, 0, 2)}
        \cup {E({1}, "torn", {R("exports", "files", "none", s), R("patch", "files", "none", <<>>), Do("validate")}, 2,
                Now(F(<<En("a.js", {"login"}, {})>>, 0), Api, Deps), {W("deps", F(<<>>, 0))}, 1, 0, 1) : s \in Sources}

-----------------------------------------------------------------------------
\* A repository of which a route, a barrel, a migration and files of known and
\* unknown directories are added; "api" is the beginning of "apis".
Drift == INSTANCE CodebaseDrift WITH DefaultThreshold <- 2, Part <- {<<"api", "apis">>}

DriftEnvs ==
  LET F(dir, name, ext) == [dir |-> dir, name |-> name, ext |-> ext]
      Home == F(<<"apps", "web", "src", "routes">>, "home", "ts")
      Index == F(<<"packages", "ui", "src">>, "index", "ts")
      First == F(<<"db", "migrations">>, "1", "sql")
      Util == F(<<"lib">>, "util", "js")
      Deep == F(<<"lib", "net">>, "tcp", "js")
      Api == F(<<"api">>, "server", "py")
      Guide == F(<<"docs", "apis">>, "guide", "md")
      Root == F(<<>>, "README", "md")
      C(adds, removes) == [adds |-> adds, removes |-> removes]
      E(tree, changes, commits, threshold, action, git, checks, maps, edits, rewrites) ==
        [tree |-> tree, changes |-> changes, commits |-> commits, threshold |-> threshold, action |-> action, git |-> git,
         checks |-> checks, maps |-> maps, edits |-> edits, rewrites |-> rewrites]
  IN  {E({Util, Guide}, {C({Home, Index}, {}), C({Deep, Api}, {Util}), C({First}, {})}, 3, 0, "auto-remap", TRUE, 2, 2, 0, 0),
       E({Util, Guide}, {C({Home, Index}, {}), C({Deep, Api}, {Util})}, 2, 2, "auto-remap", TRUE, 2, 1, 1, 1),
       E({Util}, {C({Root, Api}, {}), C({Index}, {Util})}, 3, 1, "warn", TRUE, 1, 1, 1, 0),
       E({Util}, {C({First}, {})}, 2, 1, "other", FALSE, 1, 1, 1, 0)}

-----------------------------------------------------------------------------
\* A graph with a chain of edges, two of them alike; what is built later has a
\* node more, another text or an edge less.
KGraph == INSTANCE KnowledgeGraph WITH Procs <- {1, 2}, MaxHops <- 2, NodeSize <- 1, EdgeSize <- 2, StaleAfter <- 1

KGraphEnvs ==
  LET N(id, words) == [id |-> id, words |-> words]
      D(source, target, label, relation, confidence) ==
        [source |-> source, target |-> target, label |-> label, relation |-> relation, confidence |-> confidence]
      G(nodes, edges, built) == [is |-> "graph", nodes |-> nodes, edges |-> edges, built |-> built, at |-> 0]
      Torn == [G(<<>>, <<>>, {}) EXCEPT !.is = "torn"]
      Wide == G(<<N("a", {"login"}), N("b", {}), N("c", {}), N("d", {"login"}), N("e", {})>>,
                <<D("a", "b", "uses", "none", "INFERRED"), D("a", "b", "uses", "calls", "EXTRACTED"), D("c", "b", "uses", "none", "AMBIGUOUS"),
                  D("c", "e", "uses", "none", "EXTRACTED"), D("d", "x", "cites", "none", "AMBIGUOUS"), D("a", "a", "is", "none", "none")>>, {1})
      First == G(<<N("a", {"login"}), N("b", {})>>, <<D("a", "b", "uses", "none", "INFERRED")>>, {1})
      Later == G(<<N("a", {"login", "auth"}), N("b", {}), N("c", {})>>, <<D("a", "b", "uses", "calls", "INFERRED"), D("b", "c", "uses", "none", "INFERRED")>>, {1})
      Fewer == G(<<N("a", {"login"}), N("b", {})>>, <<D("a", "b", "uses", "none", "EXTRACTED")>>, {})
      R(op, term, budget) == [op |-> op, term |-> term, budget |-> budget]
      Do(op) == R(op, "none", 0)
      E(config, n, graph, requests, starts, builds, auto, moves, forgets, until) ==
        [config |-> config, procs |-> n, graph |-> graph, graphs |-> {First, Later, Fewer}, requests |-> requests, starts |-> starts,
         builds |-> builds, auto |-> auto, moves |-> moves, forgets |-> forgets, until |-> until, head |-> {1},
         histories |-> {{1}, {1, 2}, {3}}, installed |-> auto, version |-> <<>>, packaged |-> <<0, 4, 23>>]
  IN  {E("on", {1}, Wide, {R("query", t, b) : t \in {"login", "none"}, b \in {0, 5, 8, 11, 14}}, 1, 0, FALSE, 0, FALSE, 0),
       E("on", {1, 2}, First, {Do("diff"), Do("keep"), Do("build")}, 3, 2, TRUE, 0, FALSE, 0),
       E("on", {1}, First, {Do("status")}, 2, 1, TRUE, 2, FALSE, 2),
       E("on", {1}, Fewer, {Do("status"), Do("build")}, 2, 1, TRUE, 1, TRUE, 0),
       E("torn", {1}, First, {Do("status"), Do("build")}, 1, 0, FALSE, 0, FALSE, 0),
       E("on", {1}, Torn, {Do("diff"), Do("build"), Do("keep")}, 2, 1, FALSE, 0, FALSE, 0)}

-----------------------------------------------------------------------------
\* Seven files, one of each kind, and up to three installers.
Migrations == INSTANCE InstallerMigrations
  WITH Procs <- Three,
       Paths <- {"hook", "json", "agent", "bundled", "old", "mine", "skill"},
       Kind <- [hook |-> "orphan_hook", json |-> "hooks_json", agent |-> "stale_agent",
                bundled |-> "bundled_hook", old |-> "legacy_dir", mine |-> "user_file",
                skill |-> "skill"]

MigrationEnvs ==
  LET F(hook, json, old, bundled, agent) ==
        [hook |-> hook, json |-> json, agent |-> agent, bundled |-> bundled, old |-> old,
         mine |-> "edited", skill |-> "none"]
      E(files, choice, runs, kills, faults, edits, baseline) ==
        [files |-> files, managed |-> {"hook", "old"}, choice |-> choice, runs |-> runs,
         kills |-> kills, faults |-> faults, edits |-> edits, installFails |-> TRUE,
         baseline |-> baseline]
  IN  {E(F(h, j, "edited", "none", a), c, {1}, 0, 1, 0, TRUE) :
         h \in {"shipped", "edited"}, j \in {"none", "edited"}, a \in {"none", "edited"},
         c \in {"none", "remove"}}
        \cup {E(F("shipped", "none", "edited", "none", "edited"), c, {1}, 0, 1, 1, TRUE) :
                c \in {"none", "remove"}}
        \cup {E([F("shipped", "shipped", "none", b, "none") EXCEPT !.skill = "edited"],
                c, {1}, 0, 2, 0, TRUE) : b \in {"shipped", "none"}, c \in {"none", "keep"}}
        \cup {E(F("shipped", "edited", "none", "none", a), "remove", {1, 2}, k, 1 - k, 0, TRUE) :
                a \in {"none", "edited"}, k \in 0..1}
        \cup {E(F("edited", "none", "none", "none", "none"), "none", Three, k, 0, 0, FALSE) :
                k \in 0..1}

-----------------------------------------------------------------------------
\* One destination of each kind, two that are copied.
Kit == INSTANCE KitInstallation
  WITH Procs <- Three, Dests <- {"rule", "hooks", "json", "page", "gone"}, Fitted <- {"hooks"},
       Kind <- [rule |-> "copy-file", hooks |-> "copy-file", json |-> "merge-json",
                page |-> "render-template", gone |-> "remove"]

KitEnvs ==
  LET None == [op |-> "none", select |-> {}]
      Install(s) == [op |-> "install", select |-> s]
      Repair == [op |-> "repair", select |-> {}]
      Uninstall == [op |-> "uninstall", select |-> {}]
      All == {"rule", "hooks"}
      F(rule, json, page, gone) ==
        [rule |-> rule, hooks |-> "none", json |-> json, page |-> page, gone |-> gone]
      Blank == F("none", "none", "none", "none")
      New == [is |-> "none", ops |-> {}, select |-> {}]
      Old == [is |-> "valid", ops |-> {"rule", "json", "page", "gone"}, select |-> {"rule"}]
      E(a, b, c, files, state, upgrade, faults, edits, previous) ==
        [work |-> <<a, b, c>>, files |-> files, state |-> state, shipped |-> All,
         upgrade |-> upgrade, faults |-> faults, edits |-> edits, previous |-> previous]
  IN  {E(Install(All), b, c, Blank, New, u, 0, 1, {}) :
         b \in {Repair, Uninstall}, c \in {None, Repair}, u \in {All, {"hooks"}}}
        \cup {E(Install(All), b, None, Blank, New, All, 1, 0, {}) :
                b \in {Install({"rule"}), Repair, Uninstall}}
        \cup {E(a, b, None, F("raw", j, g, "user"), Old, All, 0, 0, w) :
                a \in {Repair, Uninstall}, b \in {Repair, Uninstall}, j \in {"user", "both"},
                g \in {"raw", "none"}, w \in {{}, {"json", "page", "gone"}}}
        \cup {E(a, None, None, F("none", "raw", "user", n), Old, u, 1, 1, {}) :
                a \in {Repair, Uninstall}, n \in {"none", "user"}, u \in {All, {"hooks"}}}

-----------------------------------------------------------------------------
\* Two runs for the same session of two workers.
Tmux == INSTANCE TmuxOrchestrator WITH Procs <- {1, 2}, Workers <- {1, 2}

TmuxEnvs ==
  {[replace |-> r, squatted |-> s, seedless |-> d, faults |-> 1, old |-> o, session |-> x] :
     r \in {{}, {2}}, s \in {{}, {2}}, d \in {{}, {2}}, o \in {{}, {1}}, x \in BOOLEAN}

-----------------------------------------------------------------------------
\* Two servers, one reached by its address and one started as a process, and their hooks.
Mcp == INSTANCE McpHealth WITH Procs <- {1, 2}, Servers <- {"a", "b"}, Ttl <- 2, Base <- 1, MaxWait <- 3

McpEnvs ==
  LET I(event, s, code) == [event |-> event, explicit |-> s, named |-> "b", code |-> code,
                            cut |-> FALSE]
      Calls == {I("pre", s, FALSE) : s \in {"a", "none"}}
      Fails == {I("failure", "a", TRUE)}
      Odd == {[I("pre", "a", FALSE) EXCEPT !.cut = TRUE], I("failure", "a", FALSE),
              [I("pre", "none", FALSE) EXCEPT !.named = "none"]}
      F(a, b) == [a |-> a, b |-> b]
      E(configs, inputs, starts, horizon) ==
        [configs |-> configs, inputs |-> inputs, starts |-> starts, horizon |-> horizon,
         real |-> [a |-> "down", b |-> "down"], reconnects |-> FALSE, failOpen |-> FALSE,
         hooks |-> {1, 2}, kills |-> FALSE, changes |-> 1, conditions |-> {"ok"}]
      Usual == <<F("none", "text"), F("http", "command"), F("command", "http")>>
      Free == E(Usual, Calls \cup Fails, 2, 2)
      Alone(inputs, starts, horizon) == [E(Usual, inputs, starts, horizon) EXCEPT !.hooks = {1}]
  IN  {[Alone({I("pre", "a", FALSE), I("failure", "a", TRUE)}, 4, 5) EXCEPT !.real.b = "ok"]}
        \cup {[Alone(Calls \cup Fails \cup Odd, 3, 1) EXCEPT !.reconnects = TRUE, !.failOpen = o,
                 !.real.a = "busy", !.conditions = {"gated"}] : o \in BOOLEAN}
        \cup {[Free EXCEPT !.reconnects = TRUE, !.real.b = "ok", !.kills = k, !.changes = 0] : k \in BOOLEAN}
        \cup {[Free EXCEPT !.starts = 3, !.inputs = Calls, !.configs = <<c>>, !.horizon = 1] :
                c \in {F("command", "bad"), F("none", "http")}}

-----------------------------------------------------------------------------
Session == INSTANCE SessionNames WITH
  Procs <- {"p"}, Names <- {"api", "web", "list"}, Reserved <- {"list"},
  Dirs <- <<"session-data", "sessions">>, Files <- {"a.tmp", "b.tmp", "c.tmp"}

\* One file in both directories, one without an id, one on a day that does not exist.
SessionAbout == [f \in {"a.tmp", "b.tmp", "c.tmp"} |->
  [valid |-> f # "c.tmp", id |-> f # "b.tmp", day |-> IF f = "a.tmp" THEN 1 ELSE 2,
   words |-> IF f = "a.tmp" THEN {"a"} ELSE {}]]
SessionCommands ==
  {[op |-> "set", name |-> n, to |-> "none", of |-> s] :
     n \in {"api", "web", "list"}, s \in {<<1, "a.tmp">>, <<2, "b.tmp">>}}
  \cup {[op |-> o, name |-> n, to |-> "none", of |-> <<0, "none">>] :
     o \in {"delete", "title"}, n \in {"api", "web"}}
  \cup {[op |-> "rename", name |-> "api", to |-> n, of |-> <<0, "none">>] : n \in {"web", "list"}}
  \cup {[op |-> "clean", name |-> "none", to |-> "none", of |-> <<0, "none">>]}
SessionEnv(starts, faults, kills, writes) ==
  [commands |-> SessionCommands, starts |-> starts, faults |-> faults, kills |-> kills,
   writes |-> writes, days |-> {0, 1, 2}, words |-> {"none", "a"}, about |-> SessionAbout,
   time |-> <<[f \in {"a.tmp", "b.tmp", "c.tmp"} |-> IF f = "a.tmp" THEN 1 ELSE 0],
              [f \in {"a.tmp", "b.tmp", "c.tmp"} |->
                 CASE f = "a.tmp" -> 2 [] f = "b.tmp" -> 3 [] OTHER -> 4]>>,
   file |-> [kind |-> "whole", names |-> [n \in {"api", "web", "list"} |->
              [of |-> IF n = "api" THEN <<1, "a.tmp">> ELSE <<0, "none">>,
               made |-> IF n = "api" THEN 1 ELSE 0, titled |-> FALSE]]]]
SessionEnvs == {SessionEnv(2, 1, 0, 1), SessionEnv(2, 0, 1, 1), SessionEnv(0, 0, 0, 3)}

-----------------------------------------------------------------------------
\* Rows with and without a time; an installation without a version.
Store == INSTANCE StateStore WITH
  Procs <- {"p"}, Ids <- {1, 2, 3}, ActiveLimit <- 1, RunLimit <- 2, PendingLimit <- 1

StoreEnvs ==
  LET W(table, id, at, end, is) ==
        [table |-> table, id |-> id, valid |-> TRUE, row |-> [at |-> at, end |-> end, is |-> is]]
      E(rows, opens, writes, kills) ==
        [rows |-> rows, opens |-> opens, writes |-> writes, kills |-> kills]
      Runs == {W("skill_runs", i, 0, 1, o) : i \in {1, 2, 3}, o \in {"passed", "odd"}}
              \cup {W("skill_runs", 1, 9, 1, "error")}
      Sessions == {W("sessions", i, at, end, s) : i \in {1, 2}, at \in {1}, end \in {0, 4},
                                                  s \in {"running", "recorded"}}
      Events == {W("governance_events", i, 0, end, "asked") : i \in {1, 2}, end \in {0, 1}}
      Others == {W("skill_versions", 1, 1, 0, "v1"), W("install_state", 1, 0, 0, "none"),
                 W("install_state", 2, 0, 0, "v1"), W("decisions", 2, 0, 1, "kept"),
                 [W("decisions", 3, 0, 1, "kept") EXCEPT !.valid = FALSE]}
  IN  {E(Runs, 1, 3, 0), E(Sessions, 2, 3, 0), E(Events \cup Others, 2, 3, 0),
       E({W("sessions", 1, 1, 0, "running")} \cup Others, 3, 2, 2)}

-----------------------------------------------------------------------------
\* A skill in two places, and one that is only learned.
Skill == INSTANCE SkillVersions WITH
  Procs <- {"p"}, Skills <- {"plan", "test", "gone"}, Roots <- <<"curated", "learned">>, Now <- 40, Warn <- 1000

SkillEnvs ==
  LET Run(s, time, outcome) ==
        [skill |-> s, time |-> time, outcome |-> outcome,
         reason |-> IF outcome = "failure" THEN (IF time > 20 THEN "lint" ELSE "tests") ELSE "none"]
      Runs == {Run(s, t, o) : s \in {"plan"}, t \in {9, 10, 33, 40}, o \in {"success", "failure"}}
              \cup {Run("gone", 33, "partial"), Run("gone", 12, "mixed")}
      E(starts, kills, edits, runs) ==
        [starts |-> starts, kills |-> kills, edits |-> edits, runs |-> runs,
         executions |-> Runs,
         text |-> [k \in {<<r, s>> : r \in {1, 2}, s \in {"plan", "test", "gone"}} |->
                     IF k \in {<<1, "test">>} \/ k[2] = "gone" THEN 0 ELSE k[1]],
         origin |-> [k \in {<<r, s>> : r \in {1, 2}, s \in {"plan", "test", "gone"}} |->
                       IF k = <<2, "test">> THEN "odd" ELSE "none"]]
  IN  {E(3, 0, 0, 0), E(2, 1, 1, 0), E(0, 0, 0, 3), E(1, 0, 2, 0)}

-----------------------------------------------------------------------------
\* Two files, a file that is exempt, one that is protected, two commands; the
\* gate forgets after three ticks and keeps four keys.
Gate == INSTANCE FactGate WITH
  Procs <- {1, 2}, FileKeys <- {"a", "b", "c", "lint", "settings"},
  CommandKeys <- {"rm", "reset"}, Routine <- "bash", Exempt <- {"settings"}, Protected <- {"lint"},
  MaxChecked <- 4, MaxSession <- 2, Timeout <- 3, Heartbeat <- 1

GateEnvs ==
  LET C(keys, readOnly, truncated) == [keys |-> keys, readOnly |-> readOnly, truncated |-> truncated]
      Edit(k) == C(<<k>>, FALSE, FALSE)
      Multi == C(<<"a", "settings", "b">>, FALSE, FALSE)
      All == {"minimal", "standard", "strict"}
      E(calls, starts, n, kills, faults, clock, checked, file, disabled) ==
        [calls |-> calls, starts |-> starts, procs |-> 1..n, kills |-> kills, faults |-> faults,
         clock |-> clock, checked |-> checked, file |-> file, disabled |-> disabled,
         sessions |-> DOMAIN file,
         profile |-> "standard", profiles |-> [gate |-> All, protection |-> {"standard", "strict"}]]
      Own == [s1 |-> "f1", s2 |-> "f2"]
      One == [s1 |-> "f"]
      Shared == [s1 |-> "f", s2 |-> "f"]
  IN  {E({Multi, Edit("b")}, 3, 1, 0, 1, 4, <<>>, Own, {}),
       E({Multi, Edit("bash")}, 4, 1, 0, 0, 7, <<>>, One, {}),
       E({Multi, Edit("a"), C(<<"lint">>, FALSE, TRUE)}, 3, 2, 1, 1, 0, <<>>, Shared, {}),
       E({Edit("lint"), Edit("settings"), C(<<"bash">>, TRUE, FALSE)}, 2, 2, 0, 0, 0, <<>>, Own, {"gate"}),
       E({Edit("rm"), Edit("reset"), Edit("c"), Edit("a")}, 3, 1, 0, 0, 4,
         <<"bash", "a", "b", "rm">>, One, {})}

-----------------------------------------------------------------------------
\* Three sessions in two worktrees of one project; the last two share a note.
Notes == INSTANCE SessionNotes WITH
  Sessions <- {"s1", "s2", "s3"}, Files <- {"n1", "n2"}, Recent <- 1, Retention <- 2,
  MaxTasks <- 2, MaxInstincts <- 2, Threshold <- 70

NotesEnvs ==
  LET W(w) == [worktree |-> w, project |-> "app"]
      N(kind, header, w, seq) ==
        [kind |-> kind, header |-> header, started |-> IF header THEN seq ELSE 0, worktree |-> w,
         project |-> IF w = "none" THEN "none" ELSE "app", tasks |-> <<>>, user |-> {}, day |-> 0, seq |-> seq]
      Gone == [N("gone", FALSE, "none", 0) EXCEPT !.seq = 0]
      I(id, scope, confidence) == [id |-> id, scope |-> scope, confidence |-> confidence, action |-> id # "mute"]
      E(sessions, file, n1, n2, writes, starts, observers, kills, edits, messages, days) ==
        [sessions |-> sessions, at |-> [s1 |-> W("w1"), s2 |-> W("w2"), s3 |-> W("w1")], file |-> file,
         notes |-> [n1 |-> n1, n2 |-> n2], writes |-> writes, starts |-> starts, observers |-> observers,
         kills |-> kills, edits |-> edits, messages |-> messages, days |-> days,
         order |-> [lint |-> 1, mute |-> 2, test |-> 3, name |-> 4],
         instincts |-> <<I("lint", "global", 90), I("lint", "project", 80), I("test", "global", 80),
                         I("name", "project", -1), I("mute", "project", 90), I("none", "global", 90)>>]
      Own == [s1 |-> "n1", s2 |-> "n2", s3 |-> "n2"]
      One == [s1 |-> "n1", s2 |-> "n2", s3 |-> "n1"]
  IN  {E({"s1", "s2"}, Own, Gone, Gone, 4, 3, 0, 0, 0, 1, 2),
       E({"s2", "s3"}, Own, Gone, Gone, 4, 3, 0, 0, 0, 1, 0),
       E({"s1"}, One, N("plain", FALSE, "w1", 1), Gone, 5, 2, 0, 1, 2, 2, 1),
       E({"s2", "s3"}, One, N("blank", TRUE, "w2", 1), N("plain", TRUE, "w1", 2), 4, 2, 0, 0, 1, 1, 2),
       E({"s1", "s2"}, Own, Gone, Gone, 2, 3, 2, 1, 0, 0, 0)}

-----------------------------------------------------------------------------
\* Two projects, one of them without a formatter; compacting is suggested at
\* the second call.
Edits == INSTANCE EditLog WITH
  Procs <- {1, 2}, Files <- {"a.ts", "b.js", "c.ts", "d.md"}, Threshold <- 2, Interval <- 1,
  Budget <- 270, Spare <- 60

EditsEnvs ==
  LET C(by, fields, words) == [tool |-> by, fields |-> fields, words |-> words]
      Multi == C("MultiEdit", <<"a.ts", "b.js", "a.ts">>, <<>>)
      E(tools, calls, n, hooks, broken, stops, kills, timeouts, deletes) ==
        [tools |-> tools, calls |-> calls, procs |-> n, hooks |-> hooks, broken |-> broken, stops |-> stops,
         kills |-> kills, timeouts |-> timeouts, deletes |-> deletes, tracked |-> {"a.ts", "c.ts", "d.md"},
         kind |-> ("a.ts" :> "ts" @@ "b.js" :> "js" @@ "c.ts" :> "ts" @@ "d.md" :> "md"),
         root |-> ("a.ts" :> "app" @@ "b.js" :> "app" @@ "c.ts" :> "lib" @@ "d.md" :> "app"),
         tsconfig |-> ("a.ts" :> "app" @@ "b.js" :> "none" @@ "c.ts" :> "lib" @@ "d.md" :> "none"),
         configured |-> [app |-> {"biome", "prettier"}, lib |-> {"prettier"}]]
  IN  {E({Multi, C("Edit", <<"c.ts">>, <<>>), C("Write", <<"d.md">>, <<>>)}, 2, {1, 2}, {}, {}, 1, 0, 0, 0),
       E({Multi, C("Edit", <<"c.ts">>, <<>>), C("Bash", <<>>, <<"make", "http">>)}, 3, {1}, {"format", "fix"}, {}, 2, 0, 0, 0),
       E({Multi, C("Write", <<"b.js">>, <<>>), C("Read", <<"a.ts", "http">>, <<>>)}, 2, {1}, {"fix"}, {"lib"}, 2, 0, 1, 1),
       E({C("Edit", <<"c.ts">>, <<>>), C("Write", <<"b.js">>, <<>>)}, 2, {1, 2}, {}, {"app"}, 1, 1, 0, 1)}

-----------------------------------------------------------------------------
\* Three modules that may need one another in every way, and four whose files
\* are planned for each tool.
Planning == INSTANCE InstallPlan

PlanningEnvs ==
  LET Name(s) == <<s>>
      Md(s) == <<s, "md">>
      Cursor == Name(".cursor")
      Rule == Name("rules")
      Files == << <<Cursor, <<"hooks", "json">>>>, <<Cursor, Rule, <<"common", "style", "md">>>>, <<Cursor, Rule, <<"go", "style", "md">>>>,
                  <<Cursor, Name("skills"), Md("x")>>, <<Cursor, Name("skills"), Name("node_modules"), Md("y")>>,
                  <<Cursor, <<"ecc-install-state", "json">>>>, <<Name(".codex"), Md("conf")>>,
                  <<Name("agents"), Md("a")>>, <<Name("commands"), Md("c")>>,
                  <<Rule, Md("README")>>, <<Rule, Name("common"), Md("style")>>, <<Rule, Name("common"), Md("README")>>,
                  <<Rule, Name("go"), Md("style")>>, <<Name("skills"), Name("k"), Md("s")>> >>
      Tools == {"claude", "cursor", "antigravity", "codex", "codebuddy"}
      Module(deps, targets, paths) == [deps |-> deps, targets |-> targets, paths |-> paths]
      Ask(profile, modules, with, without, languages, target, direct) ==
        [profile |-> profile, modules |-> modules, with |-> with, without |-> without,
         languages |-> languages, target |-> target, direct |-> direct]
      E(modules, components, request) ==
        [modules |-> modules, order |-> SelectSeq(<<"m1", "m2", "m3", "m4">>, LAMBDA m : m \in DOMAIN modules), components |-> components, request |-> request,
         profiles |-> [all |-> <<"m1", "m2">>], base |-> [claude |-> <<"m1">>, cursor |-> <<"m1", "m2">>, antigravity |-> <<"m2">>],
         extra |-> [go |-> <<"m3">>, perl |-> <<>>], alias |-> [go |-> "go", golang |-> "go", perl |-> "perl"],
         wellNamed |-> {"go", "golang", "perl"}, targets |-> Tools, files |-> Files]
      D == [m1 |-> {<<>>, <<"m2">>, <<"m3">>, <<"m3", "m2">>}, m2 |-> {<<>>, <<"m3">>, <<"m1">>, <<"m3", "m1">>},
            m3 |-> {<<>>, <<"m1">>, <<"m2">>, <<"gone">>}]
      Some(on, m) == IF m \in on THEN {"claude"} ELSE {"codex"}
      Graphs == {[m1 |-> Module(d1, Some(on, "m1"), <<>>), m2 |-> Module(d2, Some(on, "m2"), <<>>), m3 |-> Module(d3, Some(on, "m3"), <<>>)] :
                   d1 \in D.m1, d2 \in D.m2, d3 \in D.m3, on \in {{"m1", "m2", "m3"}, {"m1", "m2"}, {"m1", "m3"}}}
      Parts == [c1 |-> <<"m1", "m2">>, c2 |-> <<"m3">>]
      Asks == {Ask("all", <<>>, <<>>, <<>>, <<>>, "claude", FALSE), Ask("none", <<"m1">>, <<"c1">>, <<"c2">>, <<>>, "claude", FALSE),
               Ask("none", <<>>, <<"c1">>, <<>>, <<>>, "claude", FALSE), Ask("none", <<>>, <<"c1">>, <<"c1">>, <<>>, "claude", FALSE)}
      Odd == {Ask("gone", <<>>, <<>>, <<>>, <<>>, "claude", FALSE), Ask("none", <<"gone">>, <<>>, <<>>, <<>>, "claude", FALSE),
              Ask("none", <<>>, <<>>, <<"c1">>, <<>>, "claude", FALSE), Ask("all", <<>>, <<>>, <<>>, <<"go">>, "claude", FALSE)}
      Whole(first) == [m1 |-> Module(<<>>, Tools, first), m2 |-> Module(<<"m1">>, Tools \ {"codex"}, << <<Rule>>, <<Name("agents")>>, <<Name("commands")>> >>),
                     m3 |-> Module(<<>>, Tools, << <<Cursor>>, <<Name(".codex")>> >>),
                     m4 |-> Module(<<>>, Tools, <<>>)]
      Firsts == {<< <<Name("skills")>> >>, << <<Name("skills"), Name("k")>>, <<Rule>> >>, << <<Cursor, Name("skills")>>, <<Name("agents"), Md("a")>> >>}
  IN  {E(g, Parts, a) : g \in Graphs, a \in Asks}
        \cup {E([m1 |-> Module(<<>>, Tools, <<>>), m2 |-> Module(<<>>, Tools, <<>>), m3 |-> Module(<<>>, Tools, <<>>)], Parts, a) : a \in Odd}
        \cup {E(Whole(f), Parts, Ask("all", <<"m4", "m3">>, <<>>, <<>>, <<>>, t, FALSE)) : f \in Firsts, t \in Tools}
        \cup {E(Whole(f), Parts, Ask("none", <<>>, <<>>, <<>>, l, t, d)) :
                f \in Firsts, t \in Tools, d \in BOOLEAN, l \in {<<"go">>, <<"golang", "perl">>, <<"odd!">>}}

-----------------------------------------------------------------------------
\* Four skills, two profiles, two clusters; the user has a skill and an agent
\* of his own, and one that is named like the kit's.
Surfaces == INSTANCE SkillSurface WITH
  Procs <- {1, 2}, Requires <- [help |-> {}, plan |-> {"phase"}, phase |-> {"help"}, audit |-> {"plan"}],
  Calls <- [help |-> {}, plan |-> {"planner"}, phase |-> {"planner", "gone"}, audit |-> {"auditor"}],
  Agents <- {"planner", "auditor"}, Profiles <- [core |-> {"phase", "missing"}, lean |-> {"help"}],
  Clusters <- [work |-> {"plan", "audit"}, basic |-> {"help", "phase"}]

SurfacesEnvs ==
  LET N(prefix, stem) == [prefix |-> prefix, stem |-> stem]
      R(base, disabled, adds, removes) == [base |-> base, disabled |-> disabled, adds |-> adds, removes |-> removes]
      None == R(<<>>, {}, {}, {})
      C(does, names) == [does |-> does, names |-> names]
      Own == {N("", "mine"), N("gsd-", "mine"), N("gsd-", "audit")}
      E(runtime, scope, marker, record, commands, limit, n, faults, stops) ==
        [runtime |-> runtime, scope |-> scope, marker |-> marker, record |-> record, commands |-> commands, limit |-> limit,
         procs |-> n, faults |-> faults, stops |-> stops, own |-> Own, before |-> {"help", "audit"}, source |-> "walk"]
      All == {C("profile", <<"core">>), C("profile", <<"lean", "odd">>), C("profile", <<"odd">>), C("disable", <<"work">>),
              C("disable", <<"none">>), C("enable", <<"work">>), C("reset", <<>>)}
      Runtimes == {<<"claude", "local">>, <<"claude", "global">>, <<"gemini", "global">>, <<"opencode", "global">>,
                   <<"hermes", "global">>, <<"cline", "global">>}
      Records == {None, R(<<"core">>, {}, {"audit"}, {}), R(<<"full">>, {"basic"}, {"plan"}, {"phase"}), R(<<"lean">>, {"work"}, {}, {"help"})}
  IN  {E(r[1], r[2], <<"core">>, None, All, 2, {1}, 0, 0) : r \in Runtimes}
        \cup {E("claude", "local", <<>>, rec, All, 2, {1}, 0, 0) : rec \in Records}
        \cup {E("cursor", "global", <<"full">>, rec, {C("disable", <<"work">>), C("enable", <<"work">>)}, 2, {1}, 1, 1) : rec \in Records}
        \cup {E("cursor", "global", <<"full">>, None, {C("profile", <<"core">>), C("reset", <<>>)}, 2, {1, 2}, 0, 0)}
        \cup {[E("cursor", "global", <<"full">>, None, All, 2, {1}, 0, 0) EXCEPT !.source = "none"]}

-----------------------------------------------------------------------------
Init ==
  \/ tool = "state" /\ \E e \in StateEnvs : State!InitIn(e)
  \/ tool = "ledger" /\ \E e \in LedgerEnvs : Ledger!InitIn(e)
  \/ tool = "worktrees" /\ \E e \in WorktreeEnvs : Worktrees!InitIn(e)
  \/ tool = "streams" /\ \E e \in StreamEnvs : Streams!InitIn(e)
  \/ tool = "manager" /\ \E e \in ManagerEnvs : Manager!InitIn(e)
  \/ tool = "config" /\ \E e \in ConfigEnvs : Config!InitIn(e)
  \/ tool = "health" /\ \E e \in HealthEnvs : Health!InitIn(e)
  \/ tool = "learnings" /\ \E e \in LearningsEnvs : Learnings!InitIn(e)
  \/ tool = "intel" /\ \E e \in IntelEnvs : Intel!InitIn(e)
  \/ tool = "drift" /\ \E e \in DriftEnvs : Drift!InitIn(e)
  \/ tool = "graph" /\ \E e \in KGraphEnvs : KGraph!InitIn(e)
  \/ tool = "migrations" /\ \E e \in MigrationEnvs : Migrations!InitIn(e)
  \/ tool = "kit" /\ \E e \in KitEnvs : Kit!InitIn(e)
  \/ tool = "tmux" /\ \E e \in TmuxEnvs : Tmux!InitIn(e)
  \/ tool = "mcp" /\ \E e \in McpEnvs : Mcp!InitIn(e)
  \/ tool = "names" /\ \E e \in SessionEnvs : Session!InitIn(e)
  \/ tool = "store" /\ \E e \in StoreEnvs : Store!InitIn(e)
  \/ tool = "skills" /\ \E e \in SkillEnvs : Skill!InitIn(e)
  \/ tool = "gate" /\ \E e \in GateEnvs : Gate!InitIn(e)
  \/ tool = "notes" /\ \E e \in NotesEnvs : Notes!InitIn(e)
  \/ tool = "edits" /\ \E e \in EditsEnvs : Edits!InitIn(e)
  \/ tool = "plan" /\ \E e \in PlanningEnvs : Planning!InitIn(e)
  \/ tool = "surface" /\ \E e \in SurfacesEnvs : Surfaces!InitIn(e)

Next ==
  /\ UNCHANGED tool
  /\ \/ tool = "state" /\ State!Next
     \/ tool = "ledger" /\ Ledger!Next
     \/ tool = "worktrees" /\ Worktrees!Next
     \/ tool = "streams" /\ Streams!Next
     \/ tool = "manager" /\ Manager!Next
     \/ tool = "config" /\ Config!Next
     \/ tool = "health" /\ Health!Next
     \/ tool = "learnings" /\ Learnings!Next
     \/ tool = "intel" /\ Intel!Next
     \/ tool = "drift" /\ Drift!Next
     \/ tool = "graph" /\ KGraph!Next
     \/ tool = "migrations" /\ Migrations!Next
     \/ tool = "kit" /\ Kit!Next
     \/ tool = "tmux" /\ Tmux!Next
     \/ tool = "mcp" /\ Mcp!Next
     \/ tool = "names" /\ Session!Next
     \/ tool = "store" /\ Store!Next
     \/ tool = "skills" /\ Skill!Next
     \/ tool = "gate" /\ Gate!Next
     \/ tool = "notes" /\ Notes!Next
     \/ tool = "edits" /\ Edits!Next
     \/ tool = "plan" /\ Planning!Next
     \/ tool = "surface" /\ Surfaces!Next

Spec == Init /\ [][Next]_vars

-----------------------------------------------------------------------------
(* The files and the processes keep their types.                           *)
TypeOK ==
  CASE tool = "state" -> State!TypeOK
    [] tool = "ledger" -> Ledger!TypeOK
    [] tool = "worktrees" -> Worktrees!TypeOK
    [] tool = "streams" -> Streams!TypeOK
    [] tool = "manager" -> Manager!TypeOK
    [] tool = "config" -> Config!TypeOK
    [] tool = "health" -> Health!TypeOK
    [] tool = "learnings" -> Learnings!TypeOK
    [] tool = "intel" -> Intel!TypeOK
    [] tool = "drift" -> Drift!TypeOK
    [] tool = "graph" -> KGraph!TypeOK
    [] tool = "migrations" -> Migrations!TypeOK
    [] tool = "kit" -> Kit!TypeOK
    [] tool = "tmux" -> Tmux!TypeOK
    [] tool = "mcp" -> Mcp!TypeOK
    [] tool = "names" -> Session!TypeOK
    [] tool = "store" -> Store!TypeOK
    [] tool = "skills" -> Skill!TypeOK
    [] tool = "gate" -> Gate!TypeOK
    [] tool = "notes" -> Notes!TypeOK
    [] tool = "edits" -> Edits!TypeOK
    [] tool = "plan" -> Planning!TypeOK
    [] tool = "surface" -> Surfaces!TypeOK

(* As long as no holder is slow, and no two processes wait for the lock of *)
(* a dead one, STATE.md is changed by one process at a time                *)
(* (acquireStateLock), and so is a configuration directory by one          *)
(* installer (acquireInstallMigrationLock); and no phase is executed along *)
(* with one it needs (cmdInitManager).                                     *)
OneInside ==
  CASE tool = "state" -> State!OneInside
    [] tool = "manager" -> Manager!ExecutorsApart
    [] tool = "migrations" -> Migrations!OneInside
    [] OTHER -> TRUE

(* What a person or an agent wrote stays, and the only ways to lose it are *)
(* those named here.                                                       *)
(* STATE.md (writeStateMd, cmdStatePrune), while its lock is trusted: an   *)
(*   entry is lost to a state sync that read before the lock, to a second  *)
(*   prune that appends to the archive, or to the death of a prune between *)
(*   its two files.                                                        *)
(* Worktrees (cmdWorktreeCleanupWave, cmdWorktreeReapOrphans), whatever    *)
(*   dies, clashes or is refused: commits never; a summary only with an    *)
(*   orphan that has no commit.                                            *)
(* Workstreams (migrateToWorkstreams, cmdWorkstreamComplete), with kills   *)
(*   and failing renames, one command at a time: a file only when a failed *)
(*   command could not move it back.                                       *)
(* config.json (setConfigValue): a key that was set, where a file has to be *)
(*   rewritten for its old keys or its repositories, or is edited by hand.  *)
(* The notes beside a repair (cmdValidateHealth): when they are put back   *)
(*   between the copy and the writing.                                     *)
(* Learnings (learningsCopyFromProject, learningsPrune): what was removed  *)
(*   while a copy was under way.                                           *)
(* The index and the mapped documents (intelPatchMeta, writeMappedCommit): *)
(*   what was written while a stamp was being set.                         *)
(* Migrations (applyInstallerMigrationPlan): a user's file is in its place *)
(*   or in a journal, unless a rollback could not put it back.             *)
(* The kit (executeUninstallOperation): the user's keys of a merged file   *)
(*   stay whatever overlaps or fails.                                      *)
(* Names of sessions (saveAliases), one command after another: a reader    *)
(*   finds the names of before or after a command, unless a step of one    *)
(*   failed.                                                               *)
(* The state store (saveToDisk), one opener after another: rows that were  *)
(*   written out, unless a process ended in the middle of writing.         *)
(* Versions of a skill (rollbackTo), one command after another: never.     *)
(* Notes of a session (session-end main), one hook at a time: a person's   *)
(*   words, until the note is removed for its age or a hook died writing.  *)
(* Skills and agents of a user (pruneSkillDirs): never, but for a file in  *)
(*   a directory of commands or an agent named like the kit's.             *)
NothingLost ==
  CASE tool = "state" -> State!EntriesKept
    [] tool = "worktrees" -> Worktrees!CommitsKept /\ Worktrees!SummariesKept
    [] tool = "streams" -> Streams!FilesKept /\ Streams!FilesHaveHomes
    [] tool = "config" -> Config!KeysKept
    [] tool = "health" -> Health!NotesKept
    [] tool = "learnings" -> Learnings!LearningsKept
    [] tool = "intel" -> Intel!WordsKept
    [] tool = "drift" -> Drift!TextKept
    [] tool = "migrations" -> Migrations!UsersFilesKept
    [] tool = "kit" -> Kit!UsersKeysKept
    [] tool = "names" -> Session!ReadersFindNames
    [] tool = "store" -> Store!RowsSurvive
    [] tool = "skills" -> Skill!VersionsKept
    [] tool = "notes" -> Notes!PersonsWordsKept
    [] tool = "surface" -> Surfaces!OwnSkillsStay
    [] OTHER -> TRUE

(* A command that fails half way leaves nothing half done.                 *)
(* The files of a completion (writePlanningFileSet): while no other        *)
(*   command is under way, none died and the undoing itself did not fail.  *)
(* The flat layout (migrateToWorkstreams): one command at a time and not   *)
(*   killed, but for the files that could not be moved back.               *)
(* config.json (platformWriteSync): a file that does not parse was saved   *)
(*   so by somebody, or its migration was killed.                          *)
(* A configuration directory (rollbackAppliedMigrationResult): one         *)
(*   installer ran, failed, and could put back every file.                 *)
(* Session, worktrees and branches (rollbackCreatedResources): runs that   *)
(*   do not overlap, but for a branch whose worktree had no place to go.   *)
(* The names of sessions (saveAliases and its backup), also when the       *)
(*   command was ended in the middle; one command after another.           *)
FailureRestores ==
  CASE tool = "ledger" -> Ledger!CompletionIsWhole
    [] tool = "streams" -> Streams!MovedWhole
    [] tool = "config" -> Config!FilesWhole
    [] tool = "migrations" -> Migrations!FailureRestores
    [] tool = "tmux" -> Tmux!FailureUndone
    [] tool = "names" -> Session!NamesAsReported
    [] OTHER -> TRUE

(* Two records of the same thing agree, each under the condition stated    *)
(* where it is defined.                                                    *)
(* The planning tools: headings and directories of phases                  *)
(* (cmdPhaseRemove), what the readers of the phases call finished and the  *)
(* order it was done in (cmdInitManager, computeDependencyLevels,          *)
(* determinePhaseStatus), what two readers of the configuration make of it *)
(* (loadConfig, cmdConfigGet), a repair and the check after it             *)
(* (cmdValidateHealth), the milestone shown and the one meant              *)
(* (extractCurrentMilestone), a learning and its hash                      *)
(* (learningsCopyFromProject), the index and the changes since it          *)
(* (intelDiff), the drift reported and the one there is (detectDrift), a   *)
(* graph and its status, its difference and what a search of it finds      *)
(* (graphifyStatus, graphifyDiff, seedAndExpand, applyBudget).             *)
(* The editor kit: the migrations recorded and those done                  *)
(* (runInstallerMigrations), the install state and the disk                *)
(* (writeInstallState, repairInstalledStates), a server's verdict and its  *)
(* probes (handlePreToolUse), a name listed and the session found          *)
(* (resolveAlias), the counts of the store and its rows (getStatus), a     *)
(* skill's history and its file (listVersions), what was asked of the      *)
(* agent and what it may do (gateguard run), the notes handed to the next  *)
(* session, calls and their log (session-activity-tracker), the modules of *)
(* a plan and their dependencies (resolveInstallPlan), the skills on disk  *)
(* and the profile on record (resolveSurface).                             *)
(* What was asked for and what is done: the gate asks once and lets the    *)
(* retry pass, where hooks do not overlap, no write fails, none dies and   *)
(* the file is not full (isChecked, markChecked); every edited file is     *)
(* formatted and checked when the answer ends, where no hook dies and no   *)
(* batch takes too long (stop-format-typecheck main); every file of a      *)
(* selected module has its operation (planOperations).                     *)
RecordsAgree ==
  CASE tool = "ledger" -> Ledger!LedgerAgrees
    [] tool = "manager" -> Manager!DependenciesFirst /\ Manager!ReadersAgree
    [] tool = "config" -> Config!ReadersAgree
    [] tool = "health" -> /\ Health!RepairConverges /\ Health!RegistryOnce
                          /\ Health!MilestoneFound /\ Health!NoFalseAlarm
    [] tool = "learnings" -> Learnings!StoredOnce
    [] tool = "intel" -> Intel!IndexTells
    [] tool = "drift" -> Drift!DriftTold
    [] tool = "graph" -> KGraph!GraphTold /\ KGraph!SearchReaches
    [] tool = "migrations" -> Migrations!AppliedIsDone
    [] tool = "kit" -> Kit!KitFilesRecorded /\ Kit!RepairConverges
    [] tool = "mcp" -> Mcp!VerdictsAreRecent /\ Mcp!BackOffKept
    [] tool = "names" -> Session!ListedIsFound
    [] tool = "store" -> Store!StatusTells
    [] tool = "skills" -> Skill!HistoryTells /\ Skill!HealthTells
    [] tool = "gate" -> Gate!AskedFirst /\ Gate!RetryPasses /\ Gate!FullKeepsLatest
    [] tool = "notes" -> Notes!HandedOver /\ Notes!InstinctsFit /\ Notes!ObserverServes
    [] tool = "edits" -> Edits!CallsAreLogged /\ Edits!EditedAreFormatted
    [] tool = "plan" -> Planning!PlanClosed /\ Planning!KitPlanned
    [] tool = "surface" -> Surfaces!ShownIsInstalled
    [] OTHER -> TRUE

(* The progress in the frontmatter of STATE.md falls at a milestone switch, *)
(* at a state sync that counted before it had the lock and once summaries  *)
(* were removed, and at no other step while the lock is trusted            *)
(* (syncStateFrontmatter).  Rewriting config.json changes no setting a     *)
(* reader sees (migrateOnDisk), but for the explicit migration of a        *)
(* project that lists several repositories itself.  As long as no run of   *)
(* the orchestrator is asked to replace what is there, a worktree or a     *)
(* branch goes only when the run that made it undoes its own failure, and  *)
(* never by the hand of another run (rollbackCreatedResources); the        *)
(* session and the notes are not covered: a run that lost a race takes     *)
(* those of the other one along.                                           *)
NoStepBack ==
  [][CASE tool = "state" -> State!ProgressStep
       [] tool = "tmux" -> Tmux!OthersKeptStep
       [] tool = "config" -> Config!MeaningKeptStep
       [] OTHER -> TRUE]_vars
=============================================================================
