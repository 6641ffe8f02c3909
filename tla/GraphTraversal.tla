---------------------------- MODULE GraphTraversal ----------------------------
(***************************************************************************)
(* The bounded walk over the code graph that answers a query               *)
(* (src/graph/retrieval.js and findGraphPath of src/store.js): the         *)
(* projects a caller may see, the nodes the query names, and the hops from *)
(* them that the budgets allow.                                            *)
(*                                                                         *)
(* A world is what the database holds: links between projects, nodes,      *)
(* edges, and what owners, sensitivities, validity and generations hide of *)
(* them.  A request has the caller's projects, the direction, the budgets  *)
(* and what its query matches.  A node stands for a generation and an      *)
(* identifier in it.                                                       *)
(*                                                                         *)
(* An edge's factor is the product of the weights of its relation, its     *)
(* provenance and its own, in sixteenths; the decay of a hop, 0.82 to the  *)
(* power of its depth, is a half to that power.  Scores are integers that  *)
(* these divide exactly up to depth three.                                 *)
(*                                                                         *)
(* A sorted list is the set of its members: what a cut leaves of it are    *)
(* those with few enough before them.                                      *)
(***************************************************************************)
EXTENDS Integers, FiniteSets, Sequences

CONSTANTS
  Nodes,
  ProjectOf,    \* The project of a node.
  Worlds,       \* [links, edges, hidden]; edges are [id, source, target, factor].
  Requests      \* [project, allowed, reach, direction, depth, maxVisited,
                \*  maxPaths, exact, lexical, identity, long, target]

\* Identifiers are compared, here as numbers.
ASSUME NodesAssumption == Nodes \subseteq Int /\ IsFiniteSet(Nodes)
ASSUME WorldsAssumption ==
  \A w \in Worlds :
    /\ \A link \in w.links : link = <<link[1], link[2]>>
    /\ IsFiniteSet(w.edges)
    /\ \A e \in w.edges : e.id \in Int /\ e.factor \in Nat

\* A query matches a node once; normalizeGraphBudgets refuses other depths.
ASSUME RequestsAssumption ==
  \A r \in Requests :
    /\ r.reach \in Nat /\ r.depth \in 0 .. 3
    /\ r.maxVisited \in Nat /\ r.maxPaths \in Nat
    /\ r.exact \subseteq Nodes /\ r.lexical \in Seq(Nodes)
    /\ \A i, j \in DOMAIN r.lexical : r.lexical[i] = r.lexical[j] => i = j

VARIABLES
  world,
  request,
  pc,           \* "scope", "seeds", "hop" or "done".
  scope,        \* The projects the caller may see.
  frontier,     \* The candidates found last.
  visited,      \* The best score of the nodes found.
  candidates,   \* What was found: node, exact, score, depth and path.
  hops,         \* The depth reached.
  answer        \* What the caller gets.

traversalVars == <<world, request, pc, scope, frontier, visited, candidates, hops, answer>>

Full == 262144

\* What divides the score of a hop, by its depth.
Decay == <<2, 4, 8>>

-----------------------------------------------------------------------------
(* Authorization.                                                          *)

\* A mutant of Linked, below: what is not allowed is left out at the end only.
LinkedThrough(reached) == {link[2] : link \in {k \in world.links : k[1] \in reached}}

\* The allowed projects one link further.
Linked(reached) ==
  {link[2] : link \in {k \in world.links : k[1] \in reached /\ k[2] \in request.allowed}}

\* A project and what it depends on, over so many links.
Within[n \in 0 .. request.reach] ==
  IF n = 0 THEN {request.project} ELSE Within[n - 1] \union Linked(Within[n - 1])

\* dependencies: what is within the reach.
Dependencies == Within[request.reach] \intersect request.allowed

\* nodePolicy
Shown(node) == ProjectOf[node] \in scope /\ node \notin world.hidden

\* A mutant of Authorized, below: the nodes are not looked at.
AuthorizedEdges ==
  {e \in world.edges : ProjectOf[e.source] \in scope /\ e.id \notin world.hidden}

\* authorizedGraphEdges: an edge is its source's generation's; the edge and
\* both of its nodes pass the policy.
Authorized == {e \in AuthorizedEdges : Shown(e.source) /\ Shown(e.target)}

-----------------------------------------------------------------------------
(* Seeds.                                                                  *)

\* stableCandidates: by score, depth and identifier.
Before(c, d) ==
  \/ c.score > d.score
  \/ c.score = d.score /\ c.depth < d.depth
  \/ c.score = d.score /\ c.depth = d.depth /\ c.node < d.node

\* The first of them, as many as there may be paths.
Cut(found) ==
  {c \in found : Cardinality({d \in found : Before(d, c)}) < request.maxPaths}

Seed(node, exact, score) ==
  [node |-> node, exact |-> exact, score |-> score, depth |-> 0, path |-> <<>>]

\* resolveGraphSeeds: what the query names; else, unless it names something,
\* what its words occur in, ever less.
Seeds ==
  LET exact == {n \in request.exact : Shown(n)}
      lexical == {i \in DOMAIN request.lexical : Shown(request.lexical[i])}
      rank(i) == Cardinality({j \in lexical : j <= i})
  IN  IF exact # {} THEN {Seed(n, TRUE, Full) : n \in exact}
      ELSE IF request.identity THEN {}
      ELSE {Seed(request.lexical[i], FALSE, Full \div (2 * rank(i))) : i \in lexical}

ScoreOf(found) ==
  [n \in {c.node : c \in found} |-> (CHOOSE c \in found : c.node = n).score]

Authorize ==
  /\ pc = "scope"
  /\ IF request.project \notin request.allowed
     THEN /\ pc' = "done"
          /\ answer' = [refused |-> TRUE]
          /\ UNCHANGED <<scope, frontier, visited, candidates>>
     ELSE /\ scope' = Dependencies
          /\ pc' = "seeds"
          /\ UNCHANGED <<frontier, visited, candidates, answer>>
  /\ UNCHANGED <<world, request, hops>>

\* The seeds, in the order of their identifiers, are themselves candidates.
PlaceSeeds ==
  /\ pc = "seeds"
  /\ LET nodes == {c.node : c \in Seeds}
     IN  frontier' = {c \in Seeds : Cardinality({n \in nodes : n < c.node}) < request.maxVisited}
  /\ visited' = ScoreOf(frontier')
  /\ candidates' = Cut(frontier')
  /\ pc' = "hop"
  /\ UNCHANGED <<world, request, scope, hops, answer>>

-----------------------------------------------------------------------------
(* Hops.                                                                   *)

\* neighborFromEdge
Neighbors(node, edge) ==
  {n \in Nodes \ {node} :
     \/ request.direction # "incoming" /\ edge.source = node /\ edge.target = n
     \/ request.direction # "outgoing" /\ edge.target = node /\ edge.source = n}

\* The score one hop further.
Decayed(score, edge, hop) == (score * edge.factor) \div (16 * Decay[hop])

\* A mutant of Improves, below: no node is found twice.
FirstVisit(node, score) == node \notin DOMAIN visited

\* A node found before counts again where the longer way is the better.
Improves(node, score) == node \in DOMAIN visited => score > visited[node]

Extended(c, e, n) ==
  [node |-> n, exact |-> c.exact, score |-> Decayed(c.score, e, hops + 1),
   depth |-> hops + 1, path |-> Append(c.path, e.id)]

Extensions ==
  UNION {{Extended(c, e, n) :
            n \in {k \in Neighbors(c.node, e) : Improves(k, Decayed(c.score, e, hops + 1))}} :
         c \in frontier, e \in Authorized}

\* Of two ways of one score, the one that cites the lesser edges.
PathBefore(s, t) ==
  \E i \in DOMAIN s : s[i] < t[i] /\ \A j \in 1 .. i - 1 : s[j] = t[j]

Beats(c, d) == c.score > d.score \/ (c.score = d.score /\ PathBefore(c.path, d.path))

\* nextByKey: the best way to each node.
BestExtensions ==
  LET ways(n) == {c \in Extensions : c.node = n}
  IN  {CHOOSE c \in ways(n) : \A d \in ways(n) : ~Beats(d, c) : n \in {c.node : c \in Extensions}}

Spent(nodes, found) ==
  Cardinality(nodes) >= request.maxVisited \/ Cardinality(found) >= request.maxPaths

\* Each is taken, in their order, unless those before it spend a budget.
Taken(best) ==
  {c \in best :
     LET earlier == {d \in best : Before(d, c)}
     IN  ~Spent(DOMAIN visited \union {d.node : d \in earlier}, candidates \union earlier)}

GoesOn == frontier # {} /\ hops < request.depth /\ ~Spent(DOMAIN visited, candidates)

Hop ==
  /\ pc = "hop"
  /\ GoesOn
  /\ frontier' = Taken(BestExtensions)
  /\ LET scores == ScoreOf(frontier')
     IN  visited' = [n \in DOMAIN visited \union DOMAIN scores |->
                       IF n \in DOMAIN scores THEN scores[n] ELSE visited[n]]
  /\ candidates' = candidates \union frontier'
  /\ hops' = hops + 1
  /\ UNCHANGED <<world, request, pc, scope, answer>>

\* evaluateGraphCoverage: why the graph's answer may not do.
FallbackReason ==
  LET paths == {c \in candidates : c.depth > 0}
      seeds == {c \in candidates : c.depth = 0}
  IN  IF seeds = {} THEN "no_seed"
      ELSE IF paths = {} THEN "insufficient_candidates"
      ELSE IF \A c \in paths : 5 * c.score < Full THEN "low_path_confidence"
      ELSE IF request.long /\ \A c \in seeds : ~c.exact THEN "conceptual_query"
      ELSE "none"

\* A mutant of Found, below: the candidate found first.
FoundFirst(found) ==
  LET ways == {c \in found : c.node = request.target}
  IN  {c \in ways : \A d \in ways : c.depth <= d.depth}

\* findGraphPath takes the first candidate at its target.
Found(found) ==
  LET ways == {c \in found : c.node = request.target}
  IN  {c \in ways : \A d \in ways : ~Before(d, c)}

Finish ==
  /\ pc = "hop"
  /\ ~GoesOn
  /\ LET found == Cut(candidates)
     IN  answer' = [refused |-> FALSE, found |-> found, target |-> Found(found),
                    reason |-> FallbackReason]
  /\ pc' = "done"
  /\ UNCHANGED <<world, request, scope, frontier, visited, candidates, hops>>

-----------------------------------------------------------------------------

InitWalk ==
  /\ world \in Worlds
  /\ request \in Requests
  /\ pc = "scope"
  /\ scope = {}
  /\ frontier = {}
  /\ visited = <<>>
  /\ candidates = {}
  /\ hops = 0
  /\ answer = [refused |-> TRUE]

NextWalk == Authorize \/ PlaceSeeds \/ Hop \/ Finish

SpecWalk == InitWalk /\ [][NextWalk]_traversalVars

-----------------------------------------------------------------------------
(* Properties.                                                             *)

\* Whether a way leads from the request's project to another over links
\* among allowed projects.
Reachable(project) ==
  \E way \in [1 .. request.reach + 1 -> request.allowed] :
    /\ way[1] = request.project
    /\ way[request.reach + 1] = project
    /\ \A i \in 1 .. request.reach : way[i] = way[i + 1] \/ <<way[i], way[i + 1]>> \in world.links

\* The edges a caller may see, said anew.
Visible ==
  {e \in world.edges : {e.id, e.source, e.target} \intersect world.hidden = {}
                       /\ \A n \in {e.source, e.target} : Reachable(ProjectOf[n])}

\* A walk, one hop further over an edge to a node.
Hopped(w, e, k, n) ==
  [node |-> k, score |-> Decayed(w.score, e, n), path |-> Append(w.path, e.id)]

Further(walks, n) ==
  UNION {{Hopped(w, e, k, n) : k \in Neighbors(w.node, e)} : w \in walks, e \in Visible}

\* The walks of a number of hops from the seeds, none dropped.
WalksOf[n \in 0 .. request.depth] ==
  IF n = 0 THEN {[node |-> c.node, score |-> c.score, path |-> <<>>] : c \in Seeds}
  ELSE Further(WalksOf[n - 1], n)

Walks == UNION {WalksOf[n] : n \in 0 .. request.depth}

\* What is answered was found within the budgets, over edges and nodes that
\* the policy shows, in projects that the caller reaches through projects it
\* is allowed; and its score is that of the path it cites.
PathsAuthorized ==
  pc = "done" /\ ~answer.refused =>
    /\ Cardinality(answer.found) <= request.maxPaths
    /\ \A c \in answer.found :
         /\ [node |-> c.node, score |-> c.score, path |-> c.path] \in Walks
         /\ Reachable(ProjectOf[c.node]) /\ c.node \notin world.hidden

\* As long as no budget is spent, the walk finds every node that any walk
\* within its depth reaches, and answers the best of the ways to its target:
\* dropping ways that are worse so far loses nothing.
BestPaths ==
  pc = "done" /\ ~answer.refused /\ ~Spent(DOMAIN visited, candidates) =>
    LET walks == Walks
    IN  /\ DOMAIN visited = {w.node : w \in walks}
        /\ \A w \in walks : w.score <= visited[w.node]
        /\ \A w \in walks : w.node = request.target =>
             answer.target # {} /\ \A c \in answer.target : w.score <= c.score
=============================================================================
