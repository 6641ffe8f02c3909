---------------------------- MODULE GraphPublish ----------------------------
(***************************************************************************)
(* The code graphs of a ContinuityDB vault: how processes build a graph    *)
(* generation from the HEAD of a repository and publish it                 *)
(* (src/graph/repository-graph.js, publishGraph and activeGraphProjection  *)
(* of src/store.js).                                                       *)
(*                                                                         *)
(* A build is no transaction.  It reads the committed tree, then the       *)
(* active generation, then that generation's projection, then the other    *)
(* projects' nodes; it compares HEAD with its commit; and only the last    *)
(* step, the publication, is atomic.  Commits, checkouts and other builds  *)
(* come in between, and a build may stop anywhere.                         *)
(*                                                                         *)
(* One tenant, owner, branch, sensitivity and extractor version; every     *)
(* project links to every other.  A file is a set of items, each of a kind *)
(* and a name: what it declares (a "declaration" or a "module"), what it   *)
(* only mentions (an import, an annotation: "mention"), a "dependency" of  *)
(* a build file and a "reference" (a node of provenance "resolved").       *)
(* Equal files are equal blobs.  Edges to nodes of the edge's own file     *)
(* that nothing can replace are left out, and so is expiry.                *)
(***************************************************************************)
EXTENDS Naturals, Sequences, FiniteSets

CONSTANTS
  Projects,
  Builders,      \* The processes that build.
  Files,         \* Numbers, in the order in which git lists the paths.
  Commits,       \* The commits of the repositories.
  CommitTime,    \* When each was made.
  Tree,          \* The files of a project at a commit, each with its content.
  Records,       \* The governed memories that cite a symbol.
  Citation,      \* The project, file, name and commit each cites.
  MaxMoves,      \* Bounds the moves of HEAD.
  MaxGenerations \* Bounds the generations published.

ASSUME FilesAssumption == Files \subseteq Nat /\ IsFiniteSet(Files)
ASSUME TimesAssumption == CommitTime \in [Commits -> Nat \ {0}]
ASSUME TreeAssumption ==
  \A p \in Projects : /\ DOMAIN Tree[p] \subseteq Commits
                      /\ \A c \in DOMAIN Tree[p] : DOMAIN Tree[p][c] \subseteq Files
ASSUME BoundsAssumption == MaxMoves \in Nat /\ MaxGenerations \in Nat

VARIABLES
  head,          \* The commit HEAD of each repository names.
  moves,         \* How often a HEAD moved; a clock for the properties.
  gens,          \* graph_generations with their rows, in order of insertion.
  status,        \* Each record: active or forgotten.
  build          \* What each builder is at.

vars == <<head, moves, gens, status, build>>

\* The node of an item of a file, its identity in graph_nodes.
Node(p, f, i) == [project |-> p, file |-> f, item |-> i]

\* The rows of an edge: from a file, for an item of it, to a node of a
\* generation, 0 when it is the edge's own.
Edge(f, i, node, g) == [file |-> f, item |-> i, to |-> node, gen |-> g]

\* The items whose edge resolution may lead elsewhere.
Links(items) == {i \in items : i.kind \in {"reference", "dependency"}}

Idle == [pc |-> "idle"]

Active(p) == {g \in DOMAIN gens : gens[g].project = p /\ gens[g].status = "active"}

ActiveOf(p) == IF Active(p) = {} THEN 0 ELSE CHOOSE g \in Active(p) : TRUE

-----------------------------------------------------------------------------
(* Reading the active generation.                                          *)

\* Edges show only while the generation of their target is active.
VisibleEdges(g) ==
  {e \in gens[g].edges : e.gen = 0 \/ gens[e.gen].status = "active"}

\* The nodes of a generation show while it is active.
VisibleNodes(g) == IF gens[g].status = "active" THEN gens[g].nodes ELSE {}

\* A mutant of ShownEvidence, below: what was published shows.
ShownAsPublished(p) == IF ActiveOf(p) = 0 THEN {} ELSE gens[ActiveOf(p)].evidence

\* Evidence shows while its record is active.
ShownEvidence(p) ==
  IF ActiveOf(p) = 0 THEN {} ELSE {r \in gens[ActiveOf(p)].evidence : status[r] = "active"}

\* The generation for a past time: of those whose window holds the time the
\* one of the latest commit, then the one activated last.
InWindow(p, t) ==
  {g \in DOMAIN gens : /\ gens[g].project = p
                       /\ gens[g].from <= t
                       /\ gens[g].to = 0 \/ gens[g].to > t}

Newer(g, h) == gens[g].from > gens[h].from \/ (gens[g].from = gens[h].from /\ g >= h)

AsOf(p, t) ==
  IF InWindow(p, t) = {} THEN 0
  ELSE CHOOSE g \in InWindow(p, t) : \A h \in InWindow(p, t) : Newer(g, h)

-----------------------------------------------------------------------------
(* Extraction and reuse.                                                   *)

TreeOf(b) == Tree[b.project][b.commit]

\* What the extractor makes of one file alone.
ExtractedNodes(b, f) == {Node(b.project, f, i) : i \in TreeOf(b)[f]}

ExtractedEdges(b, f) == {Edge(f, i, Node(b.project, f, i), 0) : i \in Links(TreeOf(b)[f])}

\* The files of the prior generation that a build finds gone or different.
Removed(b) == DOMAIN b.sources \ DOMAIN TreeOf(b)

Changed(b) ==
  {f \in DOMAIN TreeOf(b) : IF f \in DOMAIN b.sources THEN b.sources[f] # TreeOf(b)[f] ELSE TRUE}

\* A mutant of CrossGeneration, below: of the edges that show.
CrossGenerationVisible(b) == {e.file : e \in {x \in b.edges : x.gen # 0}}

\* The files with an edge into another generation; read from the generation's
\* edges, the hidden ones included.
CrossGeneration(b) ==
  IF b.prior = 0 THEN {} ELSE {e.file : e \in {x \in gens[b.prior].edges : x.gen # 0}}

\* The files that refer to a node of one of these.
Callers(b, files) ==
  {e.file : e \in {x \in b.edges : x.gen = 0 /\ x.to \in b.nodes /\ x.to.file \in files}}

\* What is reparsed for itself; a mutant of Affected, below: its callers are reused.
Stale(b) == Changed(b) \union CrossGeneration(b) \union Removed(b)

\* The fewest files that hold these and the callers of each of their own.
Affected(b) ==
  LET stale == Stale(b)
      closed == {S \in SUBSET Files : stale \union Callers(b, S) \subseteq S}
  IN  {f \in Files : \A S \in closed : f \in S}

Reparsed(b) == Affected(b) \intersect DOMAIN TreeOf(b)

Reused(b) == DOMAIN TreeOf(b) \ Reparsed(b)

GatheredNodes(b) ==
  LET reparsed == Reparsed(b)
      reused == Reused(b)
  IN  (UNION {ExtractedNodes(b, f) : f \in reparsed}) \union {v \in b.nodes : v.file \in reused}

GatheredEdges(b) ==
  LET reparsed == Reparsed(b)
      reused == Reused(b)
  IN  (UNION {ExtractedEdges(b, f) : f \in reparsed}) \union {e \in b.edges : e.file \in reused}

-----------------------------------------------------------------------------
(* Placeholders and dependencies, and what replaces them.                  *)

First(nodes) == CHOOSE v \in nodes : \A w \in nodes : v.file <= w.file

\* Of the nodes gathered, those of a name in the other files, declared there
\* or not: whatever is no reference.
Local(nodes, v) ==
  {w \in nodes : w.item.kind # "reference" /\ w.item.name = v.item.name /\ w.file # v.file}

\* The nodes of a name in the other projects' active generations, whatever
\* their kind; the first of them by project and id, which is a hash.
External(b, v) ==
  UNION {{g} \X {w \in gens[g].nodes : w.item.name = v.item.name} :
           g \in UNION {Active(p) : p \in Projects \ {b.project}}}

FirstExternal(b, v) == CHOOSE row \in External(b, v) : TRUE

ReplacedByLocal(nodes, v) == v.item.kind = "reference" /\ Local(nodes, v) # {}

\* A dependency, though no placeholder, gives way to a module.
ReplacedByExternal(b, nodes, v) ==
  /\ External(b, v) # {}
  /\ \/ v.item.kind = "reference" /\ Local(nodes, v) = {}
     \/ v.item.kind = "dependency" /\ FirstExternal(b, v)[2].item.kind = "module"

Replaced(b, nodes, v) == ReplacedByLocal(nodes, v) \/ ReplacedByExternal(b, nodes, v)

KeptNodes(b, nodes) == {v \in nodes : ~Replaced(b, nodes, v)}

\* Where an edge to a replaced node leads, in one step.
Target(b, nodes, e) ==
  IF ReplacedByLocal(nodes, e.to) THEN Edge(e.file, e.item, First(Local(nodes, e.to)), 0)
  ELSE Edge(e.file, e.item, FirstExternal(b, e.to)[2], FirstExternal(b, e.to)[1])

\* Edges whose target is neither kept nor active elsewhere are dropped: those
\* of references to a dependency that is itself replaced.
ResolvedEdges(b, nodes) ==
  LET kept == KeptNodes(b, nodes)
      moved == {IF e.to \in nodes /\ Replaced(b, nodes, e.to) THEN Target(b, nodes, e) ELSE e :
                 e \in GatheredEdges(b)}
      there(e) == {row[1] : row \in {x \in External(b, e.to) : x[2] = e.to}}
  IN  {IF e.to \in kept THEN [e EXCEPT !.gen = 0] ELSE [e EXCEPT !.gen = CHOOSE g \in there(e) : TRUE] :
         e \in {x \in moved : x.to \in kept \/ there(x) # {}}}

-----------------------------------------------------------------------------
(* The steps of a build.                                                   *)

\* readCommittedSnapshot; seen, the time, is for the properties.
Start(who, p) ==
  /\ build[who] = Idle
  /\ Len(gens) < MaxGenerations
  /\ build' = [build EXCEPT ![who] = [pc |-> "generation", project |-> p, commit |-> head[p], seen |-> moves]]
  /\ UNCHANGED <<head, moves, gens, status>>

\* activeProjection: the generation and its source states ...
ReadGeneration(who) ==
  LET b == build[who]
      g == ActiveOf(b.project)
  IN  /\ b.pc = "generation"
      /\ build' = [build EXCEPT ![who] =
                    [pc |-> "projection", project |-> b.project, commit |-> b.commit, seen |-> b.seen,
                     prior |-> g,
                     sources |-> IF g = 0 THEN <<>> ELSE Tree[b.project][gens[g].commit]]]
      /\ UNCHANGED <<head, moves, gens, status>>

\* ... and what shows of its nodes and edges.  The evidence is left behind.
ReadProjection(who) ==
  LET b == build[who]
  IN  /\ b.pc = "projection"
      /\ build' = [build EXCEPT ![who] =
                    [pc |-> "resolve", project |-> b.project, commit |-> b.commit, seen |-> b.seen,
                     prior |-> b.prior,
                     sources |-> b.sources,
                     nodes |-> IF b.prior = 0 THEN {} ELSE VisibleNodes(b.prior),
                     edges |-> IF b.prior = 0 \/ VisibleNodes(b.prior) = {} THEN {}
                               ELSE VisibleEdges(b.prior)]]
      /\ UNCHANGED <<head, moves, gens, status>>

\* A mutant of HeadUnchanged, below: no comparison.
HeadUnread(b) == TRUE

\* STALE_REPOSITORY_SNAPSHOT unless HEAD is the commit that was read.
HeadUnchanged(b) == head[b.project] = b.commit

\* A mutant of Evidence, below: whatever the commit.
EvidenceOfAnyCommit(b, nodes) ==
  {r \in Records : /\ status[r] = "active" /\ Citation[r].project = b.project
                   /\ \E v \in nodes : v.file = Citation[r].file /\ v.item.name = Citation[r].name}

\* addGraphMemoryEvidence: the active records that cite a node at the commit.
Evidence(b, nodes) ==
  {r \in Records : /\ status[r] = "active"
                   /\ Citation[r].project = b.project /\ Citation[r].commit = b.commit
                   /\ \E v \in nodes : v.file = Citation[r].file /\ v.item.name = Citation[r].name}

\* The rest of the build: extraction and resolution, which read the other
\* projects' nodes; the comparison of HEAD; the evidence.  What others do
\* between two of these reads they may as well do before or after them all.
\* For the properties, against is what was resolved against, and at the last
\* time the build knows HEAD to be its commit.
Resolve(who) ==
  LET b == build[who]
      gathered == GatheredNodes(b)
      nodes == KeptNodes(b, gathered)
  IN  /\ b.pc = "resolve"
      /\ build' = [build EXCEPT ![who] =
                    IF ~HeadUnchanged(b) THEN Idle
                    ELSE [pc |-> "publish", project |-> b.project, commit |-> b.commit, prior |-> b.prior,
                          nodes |-> nodes, edges |-> ResolvedEdges(b, gathered), evidence |-> Evidence(b, nodes),
                          against |-> UNION {Active(p) : p \in Projects \ {b.project}},
                          at |-> IF head[b.project] = b.commit THEN moves ELSE b.seen]]
      /\ UNCHANGED <<head, moves, gens, status>>

\* A mutant of PriorIsActive, below: no comparison.
PriorUnread(b) == TRUE

\* STALE_GRAPH_BUILD unless the generation read is the active one still.
PriorIsActive(b) == ActiveOf(b.project) = b.prior

EndpointsExist(b) ==
  \A e \in b.edges : IF e.gen = 0 THEN e.to \in b.nodes ELSE e.to \in gens[e.gen].nodes

\* A mutant of Superseded, below: any window ends there.
SupersededAlways(g, from) ==
  [gens[g] EXCEPT !.status = "superseded", !.to = IF gens[g].to = 0 THEN from ELSE gens[g].to]

\* The row of an active generation once another commit's takes its place: an
\* older window ends where the new one begins.
Superseded(g, from) ==
  [gens[g] EXCEPT !.status = "superseded",
                  !.to = IF gens[g].to = 0 /\ gens[g].from < from THEN from ELSE gens[g].to]

\* The new generation, activated.
Published(b) ==
  [project |-> b.project, commit |-> b.commit, status |-> "active",
   from |-> CommitTime[b.commit], to |-> 0,
   nodes |-> b.nodes, edges |-> b.edges, evidence |-> b.evidence, against |-> b.against, at |-> b.at]

Publish(who) ==
  LET b == build[who]
  IN  /\ b.pc = "publish"
      /\ Len(gens) < MaxGenerations
      /\ PriorIsActive(b)
      /\ EndpointsExist(b)
      /\ gens' = Append([g \in DOMAIN gens |->
                          IF g \in Active(b.project) THEN Superseded(g, CommitTime[b.commit]) ELSE gens[g]],
                        Published(b))
      /\ build' = [build EXCEPT ![who] = Idle]
      /\ UNCHANGED <<head, moves, status>>

\* The publication is refused.
Refuse(who) ==
  /\ build[who].pc = "publish"
  /\ ~PriorIsActive(build[who])
  /\ build' = [build EXCEPT ![who] = Idle]
  /\ UNCHANGED <<head, moves, gens, status>>

\* The process of a build is killed.
Kill(who) ==
  /\ build[who] # Idle
  /\ build' = [build EXCEPT ![who] = Idle]
  /\ UNCHANGED <<head, moves, gens, status>>

-----------------------------------------------------------------------------
(* The world around: git and the governed memories.                        *)

\* A commit or a checkout.
MoveHead(p, c) ==
  /\ moves < MaxMoves
  /\ c # head[p]
  /\ head' = [head EXCEPT ![p] = c]
  /\ moves' = moves + 1
  /\ UNCHANGED <<gens, status, build>>

Forget(r) ==
  /\ status[r] = "active"
  /\ status' = [status EXCEPT ![r] = "forgotten"]
  /\ UNCHANGED <<head, moves, gens, build>>

Init ==
  /\ head \in {h \in [Projects -> Commits] : \A p \in Projects : h[p] \in DOMAIN Tree[p]}
  /\ moves = 0
  /\ gens = <<>>
  /\ status = [r \in Records |-> "active"]
  /\ build = [who \in Builders |-> Idle]

Next ==
  \/ \E who \in Builders :
       \/ \E p \in Projects : Start(who, p)
       \/ ReadGeneration(who)
       \/ ReadProjection(who)
       \/ Resolve(who)
       \/ Publish(who)
       \/ Refuse(who)
       \/ Kill(who)
  \/ \E p \in Projects : \E c \in DOMAIN Tree[p] : MoveHead(p, c)
  \/ \E r \in Records : Forget(r)

Spec == Init /\ [][Next]_vars

-----------------------------------------------------------------------------
(* Properties.                                                             *)

\* The shape of the state.
TypeOK ==
  /\ head \in [Projects -> Commits]
  /\ moves \in 0..MaxMoves
  /\ Len(gens) <= MaxGenerations
  /\ \A g \in DOMAIN gens :
       /\ gens[g].project \in Projects /\ gens[g].commit \in Commits
       /\ gens[g].status \in {"active", "superseded"}
       /\ gens[g].evidence \subseteq Records
       /\ gens[g].at \in 0..moves
  /\ status \in [Records -> {"active", "forgotten"}]
  /\ DOMAIN build = Builders

\* However builds interleave with commits, checkouts and each other, the
\* generations of a project come in the order of HEAD: none replaces one built
\* from a later HEAD.  The active one, if any, is the one published last.
HeadOrder ==
  \A g \in DOMAIN gens, h \in DOMAIN gens :
    gens[g].project = gens[h].project =>
      /\ g <= h => gens[g].at <= gens[h].at
      /\ gens[g].status = "active" => h <= g

\* The other files of a tree with a name that is no reference there, and those
\* that depend on it.
Holding(tree, f, n) ==
  {w \in DOMAIN tree \ {f} : \E i \in tree[w] : i.kind # "reference" /\ i.name = n}

Depending(tree, f, n) ==
  {w \in DOMAIN tree \ {f} : \E i \in tree[w] : i.kind = "dependency" /\ i.name = n}

\* An edge of a generation, or of a build, leads where its commit says: to
\* another file that has the name; else to what was active elsewhere; else to
\* its own placeholder.  A dependency, and so a reference to one, may lead to
\* a module elsewhere.
Leads(r, e) ==
  LET tree == Tree[r.project][r.commit]
      n == e.item.name
      own == e.gen = 0 /\ e.to = Node(r.project, e.file, e.item)
      elsewhere == e.gen \in r.against /\ e.to \in gens[e.gen].nodes /\ e.to.item.name = n
      module == elsewhere /\ e.to.item.kind = "module"
  IN  IF e.item.kind = "dependency" THEN own \/ module
      ELSE IF Holding(tree, e.file, n) # {}
      THEN \/ e.gen = 0 /\ e.to.item.kind # "reference" /\ e.to.item.name = n /\ e.to.file # e.file
           \/ Depending(tree, e.file, n) # {} /\ module
      ELSE IF \E h \in r.against : \E v \in gens[h].nodes : v.item.name = n THEN elsewhere
      ELSE own

\* A reference lacks its edge only where, at one of the commits built so far,
\* another file depended on its name.
MayLackEdge(p, commits, f, i) ==
  i.kind = "reference" /\ \E c \in commits : Depending(Tree[p][c], f, i.name) # {}

EdgesResolved(r, commits) ==
  LET tree == Tree[r.project][r.commit]
  IN  /\ \A e \in r.edges : /\ e.file \in DOMAIN tree /\ e.item \in Links(tree[e.file])
                            /\ e.gen = 0 => e.to \in r.nodes
                            /\ Leads(r, e)
      /\ \A d, e \in r.edges : d.file = e.file /\ d.item = e.item => d = e
      /\ \A f \in DOMAIN tree : \A i \in Links(tree[f]) :
           (\E e \in r.edges : e.file = f /\ e.item = i) \/ MayLackEdge(r.project, commits, f, i)

\* Nothing of the commit is missing but references that were replaced, and
\* dependencies whose edge leads to their module.
NodesResolved(r) ==
  LET tree == Tree[r.project][r.commit]
  IN  /\ \A v \in r.nodes : /\ v.file \in DOMAIN tree /\ v.item \in tree[v.file]
                            /\ v = Node(r.project, v.file, v.item)
      /\ \A f \in DOMAIN tree : \A i \in tree[f] :
           \/ i.kind = "reference"
           \/ Node(r.project, f, i) \in r.nodes
           \/ i.kind = "dependency" /\ \E e \in r.edges : e.file = f /\ e.item = i /\ e.gen # 0

\* The commits of a project's generations up to one of them.
CommitsUpTo(g) ==
  {gens[h].commit : h \in {x \in DOMAIN gens : x <= g /\ gens[x].project = gens[g].project}}

\* Whichever facts a build reused, its generation is that of its commit: what
\* the files have, and an edge for each reference and dependency that leads
\* where it should.
ReferencesResolved ==
  \A g \in DOMAIN gens : NodesResolved(gens[g]) /\ EdgesResolved(gens[g], CommitsUpTo(g))

\* What a comment says of the reparsing of callers: an edge is resolved to the
\* active target or to a local placeholder, never dropped.
EdgesAreKept ==
  \A g \in DOMAIN gens :
    LET tree == Tree[gens[g].project][gens[g].commit]
    IN  \A f \in DOMAIN tree : \A i \in Links(tree[f]) :
          \E e \in gens[g].edges : e.file = f /\ e.item = i

\* What a comment says of resolution: a placeholder is replaced by a concrete
\* declaration of another file, where one exists.
DeclaredIsFound ==
  \A g \in DOMAIN gens : \A e \in gens[g].edges :
    LET tree == Tree[gens[g].project][gens[g].commit]
        declares(i) == i.kind \in {"declaration", "module"} /\ i.name = e.item.name
    IN  (/\ e.item.kind = "reference" /\ e.gen = 0
         /\ \E w \in DOMAIN tree \ {e.file} : \E i \in tree[w] : declares(i))
          => declares(e.to.item)

\* The windows of the generations hide none that a reader of the past should
\* get: as of a time the last commit made by then answers, even after a
\* checkout of an older one was published.
AsOfLatest ==
  \A p \in Projects, c \in Commits :
    LET t == CommitTime[c]
        made == {g \in DOMAIN gens : gens[g].project = p /\ gens[g].from <= t}
    IN  made # {} => AsOf(p, t) \in made /\ \A h \in made : Newer(AsOf(p, t), h)

\* Evidence of a record that was forgotten does not show, though it was
\* published because the record was still active when the build read it; nor
\* does evidence of another commit, whatever the build reused.
EvidenceCurrent ==
  \A p \in Projects : \A r \in ShownEvidence(p) :
    /\ status[r] = "active"
    /\ Citation[r].commit = gens[ActiveOf(p)].commit

=============================================================================
