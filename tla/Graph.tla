------------------------------- MODULE Graph -------------------------------
(***************************************************************************)
(* Graph(T), the directed graph of Std/Container/Graph.c: nodes in slots   *)
(* that are reused under a new generation, every edge in two adjacency     *)
(* lists, removals that wait for a commit, and iterators that a structural *)
(* change makes useless.                                                   *)
(***************************************************************************)
EXTENDS Integers, FiniteSets, SequencesExt

CONSTANTS
    MaxSlots,         \* the callers' bound on the nodes alive at once
    MaxEdges,         \* and on the edges
    MaxVisits,        \* and on the visits counted
    MaxGeneration,    \* UINT32_MAX in the code, which ends the process there
    Requests,         \* the sizes callers reserve
    IndexGrowthFails  \* the list of free indices may be refused memory

ASSUME GraphAssumption ==
    /\ {MaxSlots, MaxGeneration} \subseteq Nat \ {0}
    /\ {MaxEdges, MaxVisits} \cup Requests \subseteq Nat
    /\ IndexGrowthFails \in BOOLEAN

VARIABLES
    graph,  \* the GenericGraph, payloads left out
    iter,   \* the caller's iterator, or NoIter
    ret     \* what the last call returned: a status (0, 1), a count or Refused

vars == <<graph, iter, ret>>

Indices == 1..MaxSlots
NodeIds == Indices \X (1..MaxGeneration)

FreeSlot(generation) ==
    [occupied |-> FALSE, marked |-> FALSE, generation |-> generation,
     visit_count |-> 0, out |-> <<>>, in |-> <<>>]
NewSlot(generation) == [FreeSlot(generation) EXCEPT !.occupied = TRUE]

\* aborted stands for the LOG_FATALs that only this file's own bookkeeping,
\* never the caller, can bring about.
EmptyGraph ==
    [slots |-> <<>>, free_indices |-> <<>>, pending_edge_removals |-> <<>>,
     live_count |-> 0, edge_count |-> 0, pending_delete_count |-> 0,
     slots_capacity |-> 0, free_capacity |-> 0, aborted |-> FALSE]

NoIter == [kind |-> "none"]

IdAt(g, i) == <<i, g.slots[i].generation>>
Occupied(g) == {i \in DOMAIN g.slots : g.slots[i].occupied}
Marked(g) == {i \in Occupied(g) : g.slots[i].marked}
LiveIds(g) == {IdAt(g, i) : i \in Occupied(g)}
IsLive(g, id) ==
    /\ id[1] \in DOMAIN g.slots
    /\ g.slots[id[1]].occupied /\ g.slots[id[1]].generation = id[2]
Slot(g, id) == g.slots[id[1]]

------------------------------------------------------------------------------
\* Vec: an append reserves a power of two as soon as the vector would be full.

Larger(a, b) == IF a > b THEN a ELSE b
NextPow2(n) ==
    LET n2[k \in 0..n] ==
            IF k = 0 THEN 1 ELSE IF n2[k - 1] < n THEN 2 * n2[k - 1] ELSE n2[k - 1]
    IN  n2[n]
AppendCapacity(length, capacity) ==
    IF length + 1 >= capacity THEN Larger(capacity, NextPow2(length + 1)) ELSE capacity

------------------------------------------------------------------------------
\* Slots and free indices.

\* Mutant: the slot keeps its generation.
ReleaseSameGeneration(g, i) == [g EXCEPT !.slots[i] = FreeSlot(g.slots[i].generation)]

graph_release_slot(g, i) == [g EXCEPT !.slots[i] = FreeSlot(@.generation + 1)]

graph_push_free_index(g, i) ==
    LET capacity == AppendCapacity(Len(g.free_indices), g.free_capacity)
    IN  IF IndexGrowthFails /\ capacity > g.free_capacity
        THEN [g EXCEPT !.aborted = TRUE]
        ELSE [g EXCEPT !.free_indices = Append(@, i), !.free_capacity = capacity]

\* A marked slot is given up; it must have lost its edges by then.
ReleaseMarked(g, i) ==
    LET h == graph_push_free_index(graph_release_slot(g, i), i)
    IN  IF i \notin Marked(g) THEN g
        ELSE [h EXCEPT !.live_count = @ - 1, !.pending_delete_count = @ - 1,
                       !.aborted = @ \/ g.slots[i].out # <<>> \/ g.slots[i].in # <<>>]

\* A sweep over the slots: after[i] is the graph when slot i has been seen to.
Sweep(step(_, _), g) ==
    LET after[i \in 0..Len(g.slots)] == IF i = 0 THEN g ELSE step(after[i - 1], i)
    IN  after[Len(g.slots)]

------------------------------------------------------------------------------
\* Edges.

TakeOut(g, e) == [g EXCEPT !.slots[e[1][1]].out = RemoveFirst(@, e[2])]
TakeIn(g, e) == [g EXCEPT !.slots[e[2][1]].in = RemoveFirst(@, e[1])]

graph_remove_edge_now(g, e) ==
    IF ~Contains(Slot(g, e[1]).out, e[2]) THEN g
    ELSE [TakeIn(TakeOut(g, e), e) EXCEPT
             !.edge_count = @ - 1, !.aborted = @ \/ ~Contains(Slot(g, e[2]).in, e[1])]

\* Those of the edges that are in S, one after the other.
RemoveEdges(g, edges, S) ==
    LET after[k \in 0..Len(edges)] ==
            IF k = 0 THEN g
            ELSE IF edges[k] \in S THEN graph_remove_edge_now(after[k - 1], edges[k])
            ELSE after[k - 1]
    IN  after[Len(edges)]

EdgesFrom(g, i, to) == [k \in DOMAIN to |-> <<IdAt(g, i), to[k]>>]

\* From the last neighbor to the first.
graph_remove_all_outgoing_edges(g, i) ==
    LET edges == EdgesFrom(g, i, Reverse(g.slots[i].out))
    IN  RemoveEdges(g, edges, Range(edges))

\* From the first neighbor on, those that are marked or gone.
graph_remove_marked_outgoing_edges(g, i) ==
    LET edges == EdgesFrom(g, i, g.slots[i].out)
    IN  RemoveEdges(g, edges, {e \in Range(edges) : ~IsLive(g, e[2]) \/ Slot(g, e[2]).marked})

UnlinkMarked(g, i) ==
    IF i \in Marked(g) THEN graph_remove_all_outgoing_edges(g, i) ELSE g
UnlinkLive(g, i) ==
    IF i \in Occupied(g) \ Marked(g) THEN graph_remove_marked_outgoing_edges(g, i) ELSE g

RemovePendingEdges(g) ==
    [RemoveEdges(g, g.pending_edge_removals, Range(g.pending_edge_removals))
        EXCEPT !.pending_edge_removals = <<>>]

CommitPending(g) ==
    Sweep(ReleaseMarked, Sweep(UnlinkLive, Sweep(UnlinkMarked, RemovePendingEdges(g))))

------------------------------------------------------------------------------
\* The calls.

\* A changed mutation_epoch makes the next step of an iterator abort: from
\* there on the caller has no iterator.
Call(n, g, bumps) ==
    /\ graph' = g
    /\ ret' = n
    /\ iter' = IF bumps THEN NoIter ELSE iter

Status(ok) == IF ok THEN 1 ELSE 0
Refused == -1  \* 0 or FALSE from a call that may lack memory

\* reserve_vec twice; failing names the array that is refused memory.
reserve_graph(g, n, failing) ==
    [g EXCEPT !.free_capacity = IF failing = "free_indices" THEN @ ELSE Larger(@, n),
              !.slots_capacity = IF failing \in {"free_indices", "slots"} THEN @ ELSE Larger(@, n)]

ReserveFailures(g, n) ==
    {"none"} \cup (IF n > g.free_capacity THEN {"free_indices"} ELSE {})
             \cup (IF n > g.slots_capacity THEN {"slots"} ELSE {})

GraphReserve(n) == \E failing \in ReserveFailures(graph, n) :
    LET g == reserve_graph(graph, n, failing)
    IN  Call(IF failing = "none" THEN 1 ELSE Refused, g, g.slots_capacity # graph.slots_capacity)

\* A freed slot is taken from the end of free_indices; when the payload cannot
\* be allocated or copied its index goes back.
ReuseSlot ==
    /\ graph.free_indices # <<>>
    /\ LET i == Last(graph.free_indices)
           taken == [graph EXCEPT !.free_indices = Front(@)]
       IN  \/ Call(1, [taken EXCEPT !.slots[i] = NewSlot(@.generation), !.live_count = @ + 1,
                                 !.aborted = @ \/ graph.slots[i].occupied], TRUE)
           \/ Call(Refused,
                   graph_push_free_index([taken EXCEPT !.slots[i] = FreeSlot(@.generation)], i), FALSE)

\* Otherwise a slot is appended; by the time the payload or the append fails
\* the arrays may have grown, which ends iterations.
AppendSlot ==
    /\ graph.free_indices = <<>> /\ Len(graph.slots) < MaxSlots
    /\ \E failing \in ReserveFailures(graph, Len(graph.slots) + 1) \cup {"payload", "append"} :
        LET g == reserve_graph(graph, Len(graph.slots) + 1, failing)
            capacity == AppendCapacity(Len(g.slots), g.slots_capacity)
        IN  /\ failing = "append" => capacity > g.slots_capacity
            /\ IF failing = "none"
               THEN Call(1, [g EXCEPT !.slots = Append(@, NewSlot(1)), !.slots_capacity = capacity,
                                   !.live_count = @ + 1], TRUE)
               ELSE Call(Refused, g, g.slots_capacity # graph.slots_capacity)

graph_push_node == ReuseSlot \/ AppendSlot

AddOut(g, e) == [g EXCEPT !.slots[e[1][1]].out = Append(@, e[2])]
AddIn(g, e) == [g EXCEPT !.slots[e[2][1]].in = Append(@, e[1])]

\* Mutant: the first entry stays when the second does not fit.
KeepOut(g, e) == g

TakeBackOut(g, e) == [g EXCEPT !.slots[e[1][1]].out = Front(@)]

\* Refused when the edge is there, or when one of its two entries does not fit:
\* the first is taken back when the second fails.
graph_add_edge(e) ==
    \/ Call(Refused, graph, FALSE)
    \/ /\ ~Contains(Slot(graph, e[1]).out, e[2]) /\ graph.edge_count < MaxEdges
       /\ \/ Call(Refused, TakeBackOut(AddOut(graph, e), e), FALSE)
          \/ Call(1, [AddIn(AddOut(graph, e), e) EXCEPT !.edge_count = @ + 1], TRUE)

VisitsCounted(g) == FoldLeft(LAMBDA n, s : n + s.visit_count, 0, g.slots)

GraphNodeVisit(id) ==
    /\ VisitsCounted(graph) < MaxVisits
    /\ Call(Slot(graph, id).visit_count + 1,
            [graph EXCEPT !.slots[id[1]].visit_count = @ + 1], FALSE)

GraphNodeUnvisit(id) ==
    Call(0, [graph EXCEPT !.slots[id[1]].visit_count = 0], FALSE)

GraphMarkNodeForDeletion(id) ==
    IF Slot(graph, id).marked THEN Call(0, graph, FALSE)
    ELSE Call(1, [graph EXCEPT !.slots[id[1]].marked = TRUE, !.pending_delete_count = @ + 1], FALSE)

GraphUnmarkNodeForDeletion(id) ==
    IF ~Slot(graph, id).marked THEN Call(0, graph, FALSE)
    ELSE Call(1, [graph EXCEPT !.slots[id[1]].marked = FALSE, !.pending_delete_count = @ - 1], FALSE)

\* Refused when the edge is absent, already marked, or the record does not fit.
graph_mark_edge_for_removal(e) ==
    \/ Call(Refused, graph, FALSE)
    \/ /\ Contains(Slot(graph, e[1]).out, e[2]) /\ ~Contains(graph.pending_edge_removals, e)
       /\ Call(1, [graph EXCEPT !.pending_edge_removals = Append(@, e)], FALSE)

graph_unmark_edge_for_removal(e) ==
    Call(Status(Contains(graph.pending_edge_removals, e)),
         [graph EXCEPT !.pending_edge_removals = RemoveFirst(@, e)], FALSE)

\* Mutant: removing edges alone leaves the mutation epoch.
BumpsForNodes(g) == g.pending_delete_count > 0

CommitBumps(g) == g.pending_delete_count > 0 \/ g.pending_edge_removals # <<>>

\* The code ends the process when a slot has used up its generations.
CanRelease(S) == \A i \in S : graph.slots[i].generation < MaxGeneration

graph_commit_changes ==
    /\ CanRelease(Marked(graph))
    /\ IF graph.pending_delete_count = 0 /\ graph.pending_edge_removals = <<>>
       THEN Call(0, graph, FALSE)
       ELSE Call(Cardinality(Marked(graph)) + Len(graph.pending_edge_removals),
                 CommitPending(graph), CommitBumps(graph))

\* Every slot is released or wiped, and every index is free again.
Cleared(g) ==
    Sweep(graph_push_free_index,
          [g EXCEPT !.slots = [i \in DOMAIN @ |-> FreeSlot(@[i].generation + Status(@[i].occupied))],
                    !.free_indices = <<>>, !.pending_edge_removals = <<>>,
                    !.live_count = 0, !.edge_count = 0, !.pending_delete_count = 0])

clear_graph == CanRelease(Occupied(graph)) /\ Call(1, Cleared(graph), TRUE)

\* The storage goes after everything in it has been cleared.
deinit_graph ==
    /\ CanRelease(Occupied(graph))
    /\ Call(1, IF Cleared(graph).aborted THEN Cleared(graph) ELSE EmptyGraph, TRUE)

graph_contains_node(id) == Call(Status(IsLive(graph, id)), graph, FALSE)

------------------------------------------------------------------------------
\* Iterators: at is how far the iterator has come, seen what it has returned.

BeginIter(kind, id) ==
    /\ iter' = [kind |-> kind, id |-> id, at |-> 0, seen |-> <<>>]
    /\ UNCHANGED <<graph, ret>>

graph_node_iter_begin == BeginIter("node", <<>>)
graph_neighbor_iter_begin(id) == BeginIter("out", id)
graph_predecessor_iter_begin(id) == BeginIter("in", id)

\* The node iterator skips free slots.
graph_node_iter_next ==
    /\ iter.kind = "node"
    /\ LET later == {i \in Occupied(graph) : i > iter.at}
       IN  IF later = {} THEN iter' = NoIter
           ELSE iter' = [iter EXCEPT !.at = Min(later), !.seen = Append(@, IdAt(graph, Min(later)))]
    /\ UNCHANGED <<graph, ret>>

AdjacencyIterNext(list) ==
    /\ iter' = IF iter.at >= Len(list) THEN NoIter
               ELSE [iter EXCEPT !.at = @ + 1, !.seen = Append(@, list[iter.at + 1])]
    /\ UNCHANGED <<graph, ret>>

graph_neighbor_iter_next == iter.kind = "out" /\ AdjacencyIterNext(Slot(graph, iter.id).out)
graph_predecessor_iter_next == iter.kind = "in" /\ AdjacencyIterNext(Slot(graph, iter.id).in)

------------------------------------------------------------------------------

Init == graph = EmptyGraph /\ iter = NoIter /\ ret = 1

Next ==
    /\ ~graph.aborted
    /\ \/ graph_push_node \/ graph_commit_changes \/ clear_graph \/ deinit_graph
       \/ \E n \in Requests : GraphReserve(n)
       \/ \E id \in NodeIds : graph_contains_node(id)
       \/ \E id \in LiveIds(graph) :
            \/ GraphNodeVisit(id) \/ GraphNodeUnvisit(id)
            \/ GraphMarkNodeForDeletion(id) \/ GraphUnmarkNodeForDeletion(id)
            \/ graph_neighbor_iter_begin(id) \/ graph_predecessor_iter_begin(id)
       \/ \E from, to \in LiveIds(graph) :
            \/ graph_add_edge(<<from, to>>)
            \/ graph_mark_edge_for_removal(<<from, to>>)
            \/ graph_unmark_edge_for_removal(<<from, to>>)
       \/ graph_node_iter_begin \/ graph_node_iter_next
       \/ graph_neighbor_iter_next \/ graph_predecessor_iter_next

Spec == Init /\ [][Next]_vars

------------------------------------------------------------------------------
\* Properties.

SlotType ==
    [occupied : BOOLEAN, marked : BOOLEAN, generation : 1..MaxGeneration,
     visit_count : Nat, out : Seq(NodeIds), in : Seq(NodeIds)]

\* Every field has its type; in particular no counter goes below zero.
GraphTypeOK ==
    /\ graph.slots \in Seq(SlotType)
    /\ graph.free_indices \in Seq(Indices)
    /\ graph.pending_edge_removals \in Seq(NodeIds \X NodeIds)
    /\ {graph.live_count, graph.edge_count, graph.pending_delete_count,
        graph.slots_capacity, graph.free_capacity} \subseteq Nat

OutEdges(g) == UNION {{IdAt(g, i)} \X Range(g.slots[i].out) : i \in Occupied(g)}
InEdges(g) == UNION {Range(g.slots[i].in) \X {IdAt(g, i)} : i \in Occupied(g)}

\* The two adjacency lists of an edge always mirror each other and name live
\* nodes once, free slots and free indices are the same, pending removals are
\* edges that exist, the counters count, and none of the aborts that guard
\* this happens: what validate_graph demands, after every call.
AdjacencyExact ==
    /\ GraphTypeOK
    /\ ~graph.aborted
    /\ OutEdges(graph) = InEdges(graph)
    /\ \A e \in OutEdges(graph) : IsLive(graph, e[2])
    /\ \A s \in Range(graph.slots) :
        /\ IsInjective(s.out) /\ IsInjective(s.in)
        /\ ~s.occupied => s = FreeSlot(s.generation)
    /\ IsInjective(graph.free_indices)
    /\ Range(graph.free_indices) = DOMAIN graph.slots \ Occupied(graph)
    /\ IsInjective(graph.pending_edge_removals)
    /\ Range(graph.pending_edge_removals) \subseteq OutEdges(graph)
    /\ graph.live_count = Cardinality(Occupied(graph))
    /\ graph.edge_count = Cardinality(OutEdges(graph))
    /\ graph.pending_delete_count = Cardinality(Marked(graph))

\* Whatever is marked, unmarked or visited while an iterator is in use, it has
\* returned each entry it went past exactly once, in order: graph_node_iter_next
\* and its siblings neither skip nor repeat.
IterationExact ==
    CASE iter.kind = "none" -> TRUE
      [] iter.kind = "node" ->
            /\ Range(iter.seen) = {IdAt(graph, i) : i \in {j \in Occupied(graph) : j <= iter.at}}
            /\ \A j, k \in DOMAIN iter.seen : j < k => iter.seen[j][1] < iter.seen[k][1]
      [] iter.kind = "out" ->
            IsLive(graph, iter.id) /\ IsPrefix(iter.seen, Slot(graph, iter.id).out)
      [] iter.kind = "in" ->
            IsLive(graph, iter.id) /\ IsPrefix(iter.seen, Slot(graph, iter.id).in)

\* Ids are issued generation by generation.
IssuedIds(g) ==
    {id \in NodeIds : id[1] \in DOMAIN g.slots /\ (id[2] < Slot(g, id).generation \/ IsLive(g, id))}

Contract == INSTANCE DirectedGraph WITH
    Ids <- NodeIds,
    nodes <- LiveIds(graph),
    edges <- OutEdges(graph),
    marked <- {IdAt(graph, i) : i \in Marked(graph)},
    doomed <- Range(graph.pending_edge_removals),
    issued <- IssuedIds(graph),
    visits <- [id \in NodeIds |-> IF IsLive(graph, id) THEN Slot(graph, id).visit_count ELSE 0]

\* Graph.c implements the directed graph of its header: a call that refuses
\* changes nothing, a commit removes exactly what was asked for and says how
\* much, and an id given out once never names another node.
ImplementsGraph == Contract!GraphSpec

\* GraphClear "cannot fail", and GraphCommitChanges aborts for an invalid graph
\* only: returning slots to the list of free indices never ends the process.
ReleaseReturns == ~graph.aborted
=============================================================================
