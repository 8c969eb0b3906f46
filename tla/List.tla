-------------------------------- MODULE List --------------------------------
(***************************************************************************)
(* Std/Container/List.c: nodes by address, 0 being NULL, two blocks for    *)
(* each (the node and its data), the links, and `length`.  An operation is *)
(* the set of its outcomes: any block may be refused, any copy may fail.   *)
(***************************************************************************)
EXTENDS Container, TLC

ListInit(copy_init, copy_deinit) ==
    [head |-> 0, tail |-> 0, length |-> 0, nodes |-> << >>, blocks |-> 0,
     copy_init |-> copy_init, copy_deinit |-> copy_deinit, alive |-> NoPayload]

ListNodeNext(l, node) == IF node = 0 THEN 0 ELSE l.nodes[node].next
ListNodePrev(l, node) == IF node = 0 THEN 0 ELSE l.nodes[node].prev

\* The node n links after `node`, or before it.
After(l, node, n) == LET at[k \in 0..n] == IF k = 0 THEN node ELSE ListNodeNext(l, at[k - 1]) IN at[n]
Before(l, node, n) == LET at[k \in 0..n] == IF k = 0 THEN node ELSE ListNodePrev(l, at[k - 1]) IN at[n]

node_at_list(l, idx) == After(l, l.head, idx)
item_ptr_at_list(l, idx) == l.nodes[node_at_list(l, idx)].data
NodeItems(l) == [i \in 1..l.length |-> item_ptr_at_list(l, i - 1)]

\* The links next to a node, or the ends of the list where there is none.
WithNext(l, node, to) == IF node = 0 THEN [l EXCEPT !.head = to] ELSE [l EXCEPT !.nodes[node].next = to]
WithPrev(l, node, to) == IF node = 0 THEN [l EXCEPT !.tail = to] ELSE [l EXCEPT !.nodes[node].prev = to]

\* Mutant: a node put in front of another does not become its `prev`.
OneWay(l, id, prev, next, x) ==
    WithNext([l EXCEPT !.nodes = (id :> [prev |-> prev, next |-> next, data |-> x]) @@ @], prev, id)

Linked(l, id, prev, next, x) ==
    LET t == [l EXCEPT !.nodes = (id :> [prev |-> prev, next |-> next, data |-> x]) @@ @]
    IN  WithPrev(WithNext(t, prev, id), next, id)

\* Blocks taken from the allocator, and given back.
Took(l, n) == [l EXCEPT !.blocks = @ + n]
Gave(l, n) == [l EXCEPT !.blocks = @ - n]

insert_into_list(l, x, idx) ==
    LET next == IF idx = l.length THEN 0 ELSE node_at_list(l, idx)
        prev == IF idx = l.length THEN l.tail ELSE l.nodes[next].prev
        id == Min((1..Cardinality(DOMAIN l.nodes) + 1) \ DOMAIN l.nodes)
        copied == IF l.copy_init THEN Gain(Took(l, 2), <<x>>) ELSE Took(l, 2)
    IN  IF idx > l.length THEN {Fatal(l)}
        ELSE {Refused(l), Refused(Gave(Took(l, 1), 1)),
              Done([Linked(copied, id, prev, next, x) EXCEPT !.length = @ + 1])}
             \cup IF l.copy_init THEN {Refused(Gave(Gave(Took(l, 2), 1), 1))} ELSE {}

\* First pass of a removal: the data goes to the caller, or to copy_deinit.
Drain(l, start, count) ==
    Gave(Lose(l, SubSeq(NodeItems(l), start + 1, start + count)), count)

\* Second pass: `count` nodes from `node` on are unlinked and freed.
RECURSIVE Unlink(_, _, _)
Unlink(l, node, count) ==
    IF node = 0 \/ count = 0 \/ l.length = 0 THEN l
    ELSE LET next == l.nodes[node].next
             t == WithPrev(WithNext(l, l.nodes[node].prev, next), next, l.nodes[node].prev)
             freed == [t EXCEPT !.nodes = [n \in DOMAIN @ \ {node} |-> @[n]], !.length = @ - 1]
         IN  Unlink(Gave(freed, 1), next, count - 1)

remove_range_list(l, start, count) ==
    CASE count = 0 -> Done(l)
      [] count # 0 /\ start + count > l.length -> Fatal(l)
      [] OTHER -> Done(Unlink(Drain(l, start, count), node_at_list(l, start), count))

clear_list(l) == remove_range_list(l, 0, l.length)
deinit_list(l) == Done([ListInit(l.copy_init, l.copy_deinit) EXCEPT !.alive = clear_list(l).self.alive,
                                                                    !.blocks = clear_list(l).self.blocks])

\* list_sort: through a buffer that may be refused.
list_sort(l) ==
    LET sorted == MemSort(NodeItems(l), l.length)
        back == [n \in DOMAIN l.nodes |->
                   [l.nodes[n] EXCEPT !.data = sorted[CHOOSE i \in 1..l.length : node_at_list(l, i - 1) = n]]]
    IN  IF l.length < 2 THEN {Done(l)}
        ELSE {Refused(l), Done(Gave([Took(l, 1) EXCEPT !.nodes = back], 1))}

swap_list(l, i, j) ==
    IF i >= l.length \/ j >= l.length THEN Fatal(l)
    ELSE LET n1 == node_at_list(l, i)
             n2 == node_at_list(l, j)
         IN  Done([l EXCEPT !.nodes[n1].data = l.nodes[n2].data, !.nodes[n2].data = l.nodes[n1].data])

reverse_list(l) ==
    LET turn[i \in 0..l.length \div 2] ==
            IF i = 0 THEN l ELSE LET k == l.length \div 2 - i
                                 IN  swap_list(turn[i - 1], k, l.length - (k + 1)).self
    IN  turn[l.length \div 2]

\* The rollback of push_arr_list and merge_list.
Undone(l, old_length) == remove_range_list(l, old_length, l.length - old_length).self

\* push_arr_list, and merge_list with the items of another list.
push_arr_list(l, items) ==
    LET Push(t) == LET done[k \in 0..Len(items)] ==
                           IF k = 0 THEN {Done(t)}
                           ELSE LET Next1(u) == insert_into_list(u, items[k], u.length) IN Then(done[k - 1], Next1)
                   IN  done[Len(items)]
    IN  {IF o.ok THEN o ELSE Refused(Undone(o.self, l.length)) : o \in Push(l)}
merge_list(l, other) == push_arr_list(l, NodeItems(other))

\* list_insert_one_l/_r and list_insert_range_l/_r; an L form takes over what
\* the items own.
TakenOver(l, items, os) ==
    {IF o.ok /\ ~l.copy_init THEN Done(Gain(o.self, items)) ELSE o : o \in os}
list_insert_one(l, x, idx, lvalue) ==
    {[o |-> o, source |-> SourceAfter(l, <<x>>, o.ok, lvalue)] : o \in TakenOver(l, <<x>>, insert_into_list(l, x, idx))}
list_insert_range(l, items, lvalue) ==
    {[o |-> o, source |-> SourceAfter(l, items, o.ok, lvalue)] : o \in TakenOver(l, items, push_arr_list(l, items))}

\* list_release_merged_source_on_success: cleared without copy_deinit.
ListReleased(dst, src) ==
    IF dst.copy_init \/ src.length = 0 THEN src
    ELSE [clear_list([Lose(src, NodeItems(src)) EXCEPT !.copy_deinit = FALSE]).self EXCEPT !.copy_deinit = src.copy_deinit]
\* list_merge_l and list_merge_r.
list_merge(dst, src, lvalue) ==
    IF src.length = 0 THEN {[o |-> Done(dst), source |-> src]}
    ELSE {[o |-> o, source |-> IF lvalue /\ o.ok THEN ListReleased(dst, src) ELSE src] :
            o \in TakenOver(dst, NodeItems(src), merge_list(dst, src))}

find_idx_list(l, x) ==
    LET hits == {i \in 0..l.length - 1 : item_ptr_at_list(l, i) = x} IN IF hits = {} THEN -1 ELSE Min(hits)

get_node_relative_to_list_node(l, node, ridx) ==
    IF ridx >= 0 THEN After(l, node, ridx) ELSE Before(l, node, -ridx)

\* The walk starts from the nearest of the node, the head and the tail.
FromEnds(l, target) ==
    IF target <= l.length - 1 - target THEN After(l, l.head, target)
    ELSE Before(l, l.tail, l.length - 1 - target)
get_node_random_access(l, node, nidx, ridx) ==
    LET target == nidx + ridx
        near == IF ridx < 0 THEN -ridx ELSE ridx
    IN  IF near <= target /\ near <= l.length - 1 - target THEN get_node_relative_to_list_node(l, node, ridx)
        ELSE FromEnds(l, target)
get_node_for_list_iteration(l, node, nidx, target) ==
    IF node = 0 THEN FromEnds(l, target) ELSE get_node_random_access(l, node, nidx, target - nidx)

\* The items the loops visit.  ListForeach and its Reverse, Ptr forms:
RECURSIVE Walk(_, _, _)
Walk(l, node, reverse) ==
    IF node = 0 THEN << >>
    ELSE <<l.nodes[node].data>> \o Walk(l, IF reverse THEN ListNodePrev(l, node) ELSE ListNodeNext(l, node), reverse)
ListForeach(l, reverse) == Walk(l, IF reverse THEN l.tail ELSE l.head, reverse)

\* ListForeachIdx: the next node is found from the last one.
ListForeachIdx(l, reverse) ==
    LET Idx(k) == IF reverse THEN l.length - k ELSE k - 1
        node[k \in 0..l.length] ==
            IF k = 0 THEN 0 ELSE get_node_for_list_iteration(l, node[k - 1], IF k = 1 THEN 0 ELSE Idx(k - 1), Idx(k))
    IN  [k \in 1..l.length |-> l.nodes[node[k]].data]
=============================================================================
