---------------------------- MODULE KnowledgeGraph -----------------------------
(***************************************************************************)
(* The graph of what a project's documents say (gsd-core/bin/lib/          *)
(* graphify).  Another program builds it, by order or in the background    *)
(* after a commit; the commands ask for a build, search the graph from the *)
(* nodes that match and within a budget, tell how old it is, and compare   *)
(* it with what was kept of the last build.  Builds and commits go on      *)
(* between the reads of a command.                                         *)
(***************************************************************************)
EXTENDS Integers, FiniteSets, SequencesExt

CONSTANTS Procs,
          MaxHops,            \* how far a search goes from a match
          NodeSize, EdgeSize, \* what a node and an edge take of the budget
          StaleAfter

VARIABLES
  env,    \* the settings, the graphs that are built, the histories, the commands
  disk,   \* the graph, what is kept of one, the last build, the history, the time
  procs,  \* what each command is doing and what it has told
  past    \* how much has happened

vars == <<env, disk, procs, past>>

NoGraph == [is |-> "gone", nodes |-> <<>>, edges |-> <<>>, built |-> {}, at |-> 0]
NoAnswer == [nodes |-> <<>>, edges |-> <<>>]
NoStatus == [stale |-> FALSE, behind |-> "unknown"]
NoDiff == [nodes |-> <<0, 0, 0>>, edges |-> <<0, 0, 0>>]
Idle == [at |-> "idle", op |-> "none", term |-> "none", budget |-> 0, graph |-> NoGraph, kept |-> NoGraph,
         answer |-> NoAnswer, status |-> NoStatus, diff |-> NoDiff, now |-> 0, heads |-> {}, ran |-> FALSE, steady |-> TRUE]
Ended == {"idle", "done", "disabled", "refused", "killed"}
At(p, at) == procs[p].at = at
GoesTo(p, at) == procs' = [procs EXCEPT ![p].at = at]

-----------------------------------------------------------------------------
(* Searching.                                                               *)

Ids(nodes) == {nodes[i].id : i \in DOMAIN nodes}
Touches(edge, ids) == edge.source \in ids \/ edge.target \in ids

\* Mutant: edges lead one way only.
OneWay(graph, ids) == {graph.edges[i].target : i \in {j \in DOMAIN graph.edges : graph.edges[j].source \in ids}}

\* What lies one edge away, in either direction.
Neighbours(graph, ids) ==
  LET near == {j \in DOMAIN graph.edges : Touches(graph.edges[j], ids)}
  IN  {graph.edges[i].source : i \in near} \cup {graph.edges[i].target : i \in near}

Seeds(graph, term) == {n \in ToSet(graph.nodes) : term \in n.words}

\* Two edges between the same nodes with the same label are one: the first.
FirstOfKind(edges, i) ==
  \A j \in 1..(i - 1) : <<edges[j].source, edges[j].target, edges[j].label>>
                           # <<edges[i].source, edges[i].target, edges[i].label>>

Pick(seq, Wanted) == SelectSeq(seq, LAMBDA x : x \in Wanted)

\* From the matches one goes so many edges; the edges of the last step are
\* not followed, and what no node describes is not shown.
SeedAndExpand(graph, term) ==
  LET seeds == {n.id : n \in Seeds(graph, term)}
      hop[h \in 0..MaxHops] ==
        IF h = 0 THEN [visited |-> seeds, frontier |-> seeds]
        ELSE LET next == Neighbours(graph, hop[h - 1].frontier) \ hop[h - 1].visited
             IN  [visited |-> hop[h - 1].visited \cup next, frontier |-> next]
      near == hop[MaxHops - 1].visited
      shown == {i \in DOMAIN graph.edges : Touches(graph.edges[i], near) /\ FirstOfKind(graph.edges, i)}
  IN  [nodes |-> SelectSeq(graph.nodes, LAMBDA n : n.id \in hop[MaxHops].visited),
       edges |-> Pick(graph.edges, {graph.edges[i] : i \in shown})]

Tokens(nodes, edges) == NodeSize * Len(nodes) + EdgeSize * Len(edges)
Tiers == <<"AMBIGUOUS", "INFERRED", "EXTRACTED">>

\* Mutant: what the matches are is forgotten when edges go.
BudgetAlone(answer, seeds, budget) ==
  LET edges == FoldLeft(LAMBDA es, tier : IF Tokens(answer.nodes, es) <= budget THEN es
                                          ELSE SelectSeq(es, LAMBDA e : e.confidence # tier), answer.edges, Tiers)
  IN  [edges |-> edges, nodes |-> SelectSeq(answer.nodes, LAMBDA n : \E i \in DOMAIN edges : Touches(edges[i], {n.id}))]

\* The least certain edges go first, until the rest fits; a node that no edge
\* touches any more goes too, unless it matches.
ApplyBudget(answer, seeds, budget) ==
  LET edges == FoldLeft(LAMBDA es, tier : IF Tokens(answer.nodes, es) <= budget THEN es
                                          ELSE SelectSeq(es, LAMBDA e : e.confidence # tier), answer.edges, Tiers)
  IN  [edges |-> edges,
       nodes |-> SelectSeq(answer.nodes, LAMBDA n : n.id \in seeds \/ \E i \in DOMAIN edges : Touches(edges[i], {n.id}))]

-----------------------------------------------------------------------------
(* How old the graph is.                                                    *)

\* Commits of the history that are not in the graph; a history that does not
\* hold the graph's own commit any more cannot be counted.
CommitsBehind(built, head) == Cardinality(head \ built)

\* Mutant: a build under way does not make the graph old.
StaleIfFailed(graph, now, build) == now - graph.at > StaleAfter \/ build = "failed"

\* Mutant: what cannot be counted is not behind.
BehindOrNot(graph, head) == IF graph.built # {} /\ graph.built \subseteq disk.known /\ CommitsBehind(graph.built, head) > 0 THEN "yes" ELSE "no"

\* It is not known for a graph without a commit, or with one that is gone.
Behind(graph, head) ==
  IF graph.built = {} \/ head = {} \/ ~(graph.built \subseteq disk.known) THEN "unknown"
  ELSE IF CommitsBehind(graph.built, head) > 0 THEN "yes" ELSE "no"

\* A build that failed or is under way makes the graph old too.
Stale(graph, now, build) == now - graph.at > StaleAfter \/ build \in {"failed", "running"}

-----------------------------------------------------------------------------
(* What has changed.                                                        *)

\* The last of those with the same key counts.
ByKey(seq, key) == {i \in DOMAIN seq : \A j \in (i + 1)..Len(seq) : key[j] # key[i]}

Counts(now, before, nowKey, beforeKey) ==
  LET cur == ByKey(now, nowKey)
      old == ByKey(before, beforeKey)
  IN  <<Cardinality({i \in cur : \A j \in old : beforeKey[j] # nowKey[i]}),
        Cardinality({j \in old : \A i \in cur : nowKey[i] # beforeKey[j]}),
        Cardinality({i \in cur : \E j \in old : beforeKey[j] = nowKey[i] /\ before[j] # now[i]})>>

NodeKeys(g) == [i \in DOMAIN g.nodes |-> g.nodes[i].id]
EdgeKeys(g) == [i \in DOMAIN g.edges |->
  <<g.edges[i].source, g.edges[i].target, IF g.edges[i].relation = "none" THEN g.edges[i].label ELSE g.edges[i].relation>>]

\* Mutant: only what was added and removed is counted.
NoChanges(current, kept) ==
  LET n == Counts(current.nodes, kept.nodes, NodeKeys(current), NodeKeys(kept))
      e == Counts(current.edges, kept.edges, EdgeKeys(current), EdgeKeys(kept))
  IN  [nodes |-> [n EXCEPT ![3] = 0], edges |-> [e EXCEPT ![3] = 0]]

Diff(current, kept) ==
  [nodes |-> Counts(current.nodes, kept.nodes, NodeKeys(current), NodeKeys(kept)),
   edges |-> Counts(current.edges, kept.edges, EdgeKeys(current), EdgeKeys(kept))]

-----------------------------------------------------------------------------
(* The commands.                                                            *)

IsGraphifyEnabled == env.config = "on"

\* The program tells its version, or the package does; versions from 0.4 on
\* and below 1 are known to do.
Version == IF env.version # <<>> THEN env.version ELSE env.packaged
Compatible == Len(Version) >= 2 /\ Version[1] = 0 /\ Version[2] >= 4

Begin(p) ==
  /\ p \in env.procs /\ procs[p].at \in Ended /\ past.starts < env.starts
  /\ \E r \in env.requests :
       procs' = [procs EXCEPT ![p] =
         [Idle EXCEPT !.op = r.op, !.term = r.term, !.budget = r.budget,
            !.heads = {disk.head}, !.ran = disk.build = "running",
            !.at = IF ~IsGraphifyEnabled /\ r.op # "keep" THEN "disabled"
                   ELSE IF r.op # "build" THEN "read"
                   ELSE IF env.installed THEN "order" ELSE "refused"]]
  /\ past' = [past EXCEPT !.starts = @ + 1]
  /\ UNCHANGED <<env, disk>>

\* A build is left to an agent, whatever the version is.
Order(p) ==
  /\ At(p, "order") /\ past.builds < env.builds
  /\ disk' = [disk EXCEPT !.ordered = TRUE]
  /\ past' = [past EXCEPT !.warned = @ \/ ~Compatible]
  /\ GoesTo(p, "done") /\ UNCHANGED env

\* A graph that is missing or torn ends every command.
Read(p) ==
  LET g == disk.graph
  IN  /\ At(p, "read")
      /\ procs' = [procs EXCEPT ![p].graph = g, ![p].now = disk.now,
                     ![p].at = IF g.is # "graph" THEN "refused"
                               ELSE CASE procs[p].op = "status" -> "head"
                                      [] procs[p].op = "diff" -> "kept"
                                      [] procs[p].op = "keep" -> "keep" [] OTHER -> "answer"]
      /\ UNCHANGED <<env, disk, past>>

\* The answer to a search, within the budget if there is one.
Answer(p) ==
  LET w == procs[p]
      all == SeedAndExpand(w.graph, w.term)
      seeds == {n.id : n \in Seeds(w.graph, w.term)}
  IN  /\ At(p, "answer")
      /\ procs' = [procs EXCEPT ![p].at = "done",
                     ![p].answer = IF w.budget = 0 THEN all ELSE ApplyBudget(all, seeds, w.budget)]
      /\ UNCHANGED <<env, disk, past>>

ReadHead(p) ==
  /\ At(p, "head")
  /\ procs' = [procs EXCEPT ![p].at = "build", ![p].status.behind = Behind(procs[p].graph, disk.head)]
  /\ UNCHANGED <<env, disk, past>>

ReadBuild(p) ==
  /\ At(p, "build")
  /\ procs' = [procs EXCEPT ![p].at = "done", ![p].status.stale = Stale(procs[p].graph, procs[p].now, disk.build)]
  /\ UNCHANGED <<env, disk, past>>

\* What was kept is read after the graph.
ReadKept(p) ==
  /\ At(p, "kept")
  /\ procs' = [procs EXCEPT ![p].at = IF disk.kept.is = "graph" THEN "done" ELSE "refused",
                            ![p].kept = disk.kept, ![p].diff = Diff(procs[p].graph, disk.kept)]
  /\ UNCHANGED <<env, disk, past>>

\* Nodes and edges are kept as they were read, in one write.
WriteSnapshot(p) ==
  /\ At(p, "keep")
  /\ disk' = [disk EXCEPT !.kept = procs[p].graph]
  /\ GoesTo(p, "done") /\ UNCHANGED <<env, past>>

-----------------------------------------------------------------------------
(* The builder and the repository.                                          *)

BuildBegins ==
  /\ past.builds < env.builds /\ disk.build # "running"
  /\ disk.ordered \/ env.auto
  /\ disk' = [disk EXCEPT !.build = "running", !.ordered = FALSE, !.building = disk.head]
  /\ past' = [past EXCEPT !.builds = @ + 1]
  /\ UNCHANGED <<env, procs>>

\* Programs before a certain version do not write the commit.
BuildEnds ==
  /\ disk.build = "running"
  /\ \/ /\ \E g \in env.graphs :
             disk' = [disk EXCEPT !.build = "ok",
                        !.graph = [g EXCEPT !.built = IF @ = {} THEN {} ELSE disk.building, !.at = disk.now]]
     \/ disk' = [disk EXCEPT !.build = "failed"]
  /\ procs' = [p \in Procs |-> [procs[p] EXCEPT !.steady = FALSE]]
  /\ UNCHANGED <<env, past>>

\* A commit, another branch, or a history written anew.
MoveHead ==
  /\ past.moves < env.moves
  /\ \E h \in env.histories \ {disk.head} :
       disk' = [disk EXCEPT !.head = h, !.known = IF env.forgets THEN h ELSE @ \cup h]
  /\ procs' = [p \in Procs |-> IF procs[p].at \in Ended THEN procs[p]
                               ELSE [procs[p] EXCEPT !.heads = @ \cup {disk'.head}]]
  /\ past' = [past EXCEPT !.moves = @ + 1]
  /\ UNCHANGED env

Tick == disk.now < env.until /\ disk' = [disk EXCEPT !.now = @ + 1] /\ UNCHANGED <<env, procs, past>>

-----------------------------------------------------------------------------
InitIn(e) ==
  /\ env = e
  /\ disk = [graph |-> e.graph, kept |-> NoGraph, build |-> "none", building |-> {}, ordered |-> FALSE,
             head |-> e.head, known |-> e.head, now |-> 0]
  /\ procs = [p \in Procs |-> Idle]
  /\ past = [starts |-> 0, builds |-> 0, moves |-> 0, warned |-> FALSE]

Next ==
  \/ \E p \in Procs :
       Begin(p) \/ Order(p) \/ Read(p) \/ Answer(p) \/ ReadHead(p) \/ ReadBuild(p) \/ ReadKept(p) \/ WriteSnapshot(p)
  \/ BuildBegins \/ BuildEnds \/ MoveHead \/ Tick

-----------------------------------------------------------------------------
\* Nothing but a graph is kept, and only known builds are told.
TypeOK ==
  /\ disk.graph.is \in {"gone", "torn", "graph"} /\ disk.kept.is \in {"gone", "graph"}
  /\ disk.build \in {"none", "running", "ok", "failed"}
  /\ \A p \in Procs : procs[p].at \in Ended \cup {"order", "read", "answer", "head", "build", "kept", "keep"}

Near(g, a, b) == \E i \in DOMAIN g.edges : {a, b} = {g.edges[i].source, g.edges[i].target}

\* A search without a budget shows every node that is at most two edges from a
\* match, and one with a budget every match; where the budget does not let all
\* edges stay, an edge is left out only if all less certain ones are.
SearchReaches ==
  \A p \in Procs : LET w == procs[p] IN (w.op = "query" /\ At(p, "done")) =>
    LET g == w.graph
        match == {n.id : n \in {m \in ToSet(g.nodes) : w.term \in m.words}}
        one == match \cup {n \in Ids(g.nodes) \cup {e.source : e \in ToSet(g.edges)} \cup {e.target : e \in ToSet(g.edges)} :
                             \E s \in match : Near(g, n, s)}
        rank(e) == IF \E i \in DOMAIN Tiers : Tiers[i] = e.confidence THEN CHOOSE i \in DOMAIN Tiers : Tiers[i] = e.confidence ELSE 4
        about == {e \in ToSet(g.edges) : {e.source, e.target} \cap one # {}}
        kept == ToSet(w.answer.edges)
        dropped == {e \in about : \A f \in kept : <<f.source, f.target, f.label>> # <<e.source, e.target, e.label>>}
    IN  /\ match \subseteq Ids(w.answer.nodes)
        /\ w.budget = 0 => /\ dropped = {}
                           /\ Ids(w.answer.nodes) = {n \in Ids(g.nodes) : n \in one \/ \E s \in one : Near(g, n, s)}
        /\ \A e \in dropped, f \in kept : rank(e) <= 3 /\ rank(f) > rank(e)
        /\ dropped # {} => Tokens(w.answer.nodes, w.answer.edges) <= w.budget \/ \A f \in kept : rank(f) = 4

\* A graph told not to be behind holds all commits of a head there was at some
\* time of the question, one told to be behind lacks some; a build that was under
\* way all the time makes it old; and a comparison tells no change exactly if the
\* graph is what was kept.
GraphTold ==
  /\ \A p \in Procs : LET w == procs[p] IN (w.op = "status" /\ At(p, "done")) =>
       /\ w.status.behind = "no" => w.graph.built # {} /\ \E h \in w.heads : h \subseteq w.graph.built
       /\ w.status.behind = "yes" => \E h \in w.heads : ~(h \subseteq w.graph.built)
       /\ w.ran /\ w.steady => w.status.stale
  /\ \A p \in Procs : LET w == procs[p] IN (w.op = "diff" /\ At(p, "done")) =>
       LET same == ToSet(w.graph.nodes) = ToSet(w.kept.nodes) /\ ToSet(w.graph.edges) = ToSet(w.kept.edges)
       IN  same <=> w.diff = NoDiff
================================================================================
