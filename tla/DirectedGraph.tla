--------------------------- MODULE DirectedGraph ---------------------------
(***************************************************************************)
(* What <Misra/Std/Container/Graph.h> promises: a set of nodes and a set   *)
(* of directed edges, named by ids that are never given out twice, whose   *)
(* removals are requested first and take effect together at a commit.      *)
(***************************************************************************)
EXTENDS Integers, FiniteSets

CONSTANT Ids

VARIABLES
    nodes,    \* the ids that are alive
    edges,    \* pairs of ids
    marked,   \* the nodes the next commit removes
    doomed,   \* the edges the next commit removes
    issued,   \* every id ever given out
    visits,   \* a scratch counter for every id
    ret       \* what the last call returned: a status (0, 1), a count or Refused

content == <<nodes, edges, marked, doomed, issued, visits>>

Status(ok) == ret' = IF ok THEN 1 ELSE 0

Empty ==
    /\ nodes = {} /\ edges = {} /\ marked = {} /\ doomed = {} /\ issued = {}
    /\ visits = [id \in Ids |-> 0]

GraphInit == Empty /\ ret = 1

\* The calls that need memory, and only those, may refuse without a reason.
Refused == -1

Refuse ==
    /\ ret' = Refused
    /\ UNCHANGED content

AddNode(id) ==
    /\ id \notin issued
    /\ nodes' = nodes \cup {id} /\ issued' = issued \cup {id}
    /\ ret' = 1
    /\ UNCHANGED <<edges, marked, doomed, visits>>

AddEdge(e) ==
    /\ e \in (nodes \X nodes) \ edges
    /\ edges' = edges \cup {e}
    /\ ret' = 1
    /\ UNCHANGED <<nodes, marked, doomed, issued, visits>>

MarkNode(id) ==
    /\ marked' = marked \cup {id}
    /\ Status(id \notin marked)
    /\ UNCHANGED <<nodes, edges, doomed, issued, visits>>

UnmarkNode(id) ==
    /\ marked' = marked \ {id}
    /\ Status(id \in marked)
    /\ UNCHANGED <<nodes, edges, doomed, issued, visits>>

MarkEdge(e) ==
    /\ e \in edges \ doomed
    /\ doomed' = doomed \cup {e}
    /\ ret' = 1
    /\ UNCHANGED <<nodes, edges, marked, issued, visits>>

UnmarkEdge(e) ==
    /\ doomed' = doomed \ {e}
    /\ Status(e \in doomed)
    /\ UNCHANGED <<nodes, edges, marked, issued, visits>>

Visit(id, n) ==
    /\ visits' = [visits EXCEPT ![id] = n]
    /\ ret' = n
    /\ UNCHANGED <<nodes, edges, marked, doomed, issued>>

\* Everything requested happens: the marked nodes go with all their edges.
Commit ==
    /\ nodes' = nodes \ marked
    /\ edges' = (edges \ doomed) \cap (nodes' \X nodes')
    /\ visits' = [id \in Ids |-> IF id \in marked THEN 0 ELSE visits[id]]
    /\ marked' = {} /\ doomed' = {}
    /\ ret' = Cardinality(marked) + Cardinality(doomed)
    /\ UNCHANGED issued

Clear ==
    /\ nodes' = {} /\ edges' = {} /\ marked' = {} /\ doomed' = {}
    /\ visits' = [id \in Ids |-> 0]
    /\ ret' = 1
    /\ UNCHANGED issued

\* The graph ends, and another one begins in its place.
Deinit == Empty' /\ ret' = 1

Contains(id) == Status(id \in nodes) /\ UNCHANGED content
Reserve == ret' = 1 /\ UNCHANGED content

GraphNext ==
    \/ Refuse \/ Commit \/ Clear \/ Deinit \/ Reserve
    \/ \E id \in Ids : AddNode(id) \/ Contains(id)
    \/ \E id \in nodes : MarkNode(id) \/ UnmarkNode(id) \/ Visit(id, visits[id] + 1) \/ Visit(id, 0)
    \/ \E e \in nodes \X nodes : AddEdge(e) \/ MarkEdge(e) \/ UnmarkEdge(e)

GraphSpec == GraphInit /\ [][GraphNext]_<<content, ret>>
=============================================================================
