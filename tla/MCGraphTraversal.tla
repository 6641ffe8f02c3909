--------------------------- MODULE MCGraphTraversal ---------------------------
(* The instance of GraphTraversal that TLC checks: four nodes in three     *)
(* projects, every graph over six pairs of them in full scope, and every   *)
(* scope over some graphs.                                                 *)
EXTENDS GraphTraversal

Strong == 16
Weak == 1

MCProjectOf == [n \in 1 .. 4 |-> CASE n <= 2 -> "p" [] n = 3 -> "q" [] n = 4 -> "r"]

\* Edges by their identifiers: where they lead.
Ends == <<<<1, 2>>, <<2, 3>>, <<1, 3>>, <<3, 4>>, <<4, 1>>, <<1, 2>>>>

GraphOver(ids) ==
  {{[id |-> i, source |-> Ends[i][1], target |-> Ends[i][2], factor |-> f[i]] :
      i \in {k \in ids : f[k] > 0}} :
   f \in [ids -> {0, Weak, Strong}]}

AllLinks == {<<"p", "q">>, <<"q", "r">>}

MCWorlds ==
  {[links |-> AllLinks, edges |-> g, hidden |-> {}] : g \in GraphOver(1 .. 6)}
    \union {[links |-> l, edges |-> g, hidden |-> h] :
              l \in SUBSET AllLinks,
              g \in {{[id |-> i, source |-> Ends[i][1], target |-> Ends[i][2], factor |-> Strong] : i \in s} :
                       s \in {{1, 2, 4}, {2, 3, 5}, {1, 2, 3, 4, 5}}},
              h \in {{}, {3}, {4}}}

Request(direction, depth, visits, paths, exact, lexical, allowed, reach) ==
  [project |-> "p", allowed |-> allowed, reach |-> reach, direction |-> direction,
   depth |-> depth, maxVisited |-> visits, maxPaths |-> paths, exact |-> exact,
   lexical |-> lexical, identity |-> exact # {}, long |-> lexical # <<>>, target |-> 3]

MCRequests ==
  {Request(d, n, 5, 6, e[1], e[2], {"p", "q", "r"}, 2) :
     d \in {"outgoing", "incoming", "both"}, n \in {1, 3},
     e \in {<<{1}, <<>>>>, <<{}, <<2, 1>>>>, <<{4}, <<1>>>>}}
    \union {Request("both", 3, b[1], b[2], {1}, <<>>, {"p", "q", "r"}, 2) : b \in {<<3, 6>>, <<5, 2>>}}
    \union {Request("both", 3, 5, 6, {1}, <<>>, a, r) :
              a \in SUBSET {"p", "q", "r"}, r \in {1, 2}}
=============================================================================
