----------------------------- MODULE Containers -----------------------------
(***************************************************************************)
(* One container, a vec on the heap or on the stack or a list, under any   *)
(* legal sequence of calls, with every allocation and every copy allowed   *)
(* to fail.  `box` is the container, `said` the last call.                 *)
(***************************************************************************)
EXTENDS Vec, List

CONSTANTS
    Boxes,     \* the containers the caller starts with: [form, self]
    MostItems,      \* the most items it keeps, by form
    Given      \* the sequences of items it inserts

VARIABLES form, box, said
contents == <<form, box, said>>

IsVec == form # "list"
BoxItems == IF IsVec THEN Items(box) ELSE NodeItems(box)
Ref == INSTANCE Sequence WITH items <- BoxItems, call <- said

Called(op, i, n, given, taken, o, left) ==
    [op |-> IF o.abort THEN "abort" ELSE op, i |-> i, n |-> n, given |-> given,
     taken |-> taken, ok |-> o.ok, left |-> left]
Answer(op, i, n, given, taken, o, left) ==
    /\ box' = o.self
    /\ said' = Called(op, i, n, given, taken, o, left)
    /\ UNCHANGED form
Plain(op, i, n, outcomes) == \E o \in outcomes : Answer(op, i, n, << >>, FALSE, o, << >>)

Running == said.op # "abort"
Fits(items) == box.length + Len(items) <= MostItems[form]
\* The L forms take items over; without copy_init an owning container is
\* given nothing in an R form, which would leave two owners.
Forms == IF box.copy_deinit /\ ~box.copy_init THEN {TRUE} ELSE BOOLEAN
Takes(lvalue) == lvalue /\ ~box.copy_init

ContainersInit ==
    /\ \E b \in Boxes : form = b.form /\ box = b.self
    /\ said = Called("init", 0, 0, << >>, FALSE, Done(box), << >>)

\* VecInsertRange and VecInsertRangeFast, L and R.
VecInsert ==
    /\ Running /\ IsVec
    /\ \E items \in Given, idx \in 0..box.length, ordered \in BOOLEAN, lvalue \in Forms :
         /\ Fits(items)
         /\ \E r \in vec_insert_range(box, items, idx, ordered, lvalue) :
              Answer(IF ordered THEN "insert" ELSE "insert_fast", idx, 0, items, Takes(lvalue), r.o, r.source)

\* ListInsert at any index, ListPushArr at the end.  An owning list without
\* copy_init is given one item at a time (see Undone).
ListInsert ==
    /\ Running /\ ~IsVec
    /\ \E items \in Given, idx \in 0..box.length, lvalue \in Forms :
         /\ Fits(items)
         /\ \/ /\ Len(items) = 1
               /\ \E r \in list_insert_one(box, items[1], idx, lvalue) :
                    Answer("insert", idx, 0, items, Takes(lvalue), r.o, r.source)
            \/ /\ idx = box.length /\ (box.copy_deinit => box.copy_init)
               /\ \E r \in list_insert_range(box, items, lvalue) :
                    Answer(IF lvalue THEN "push" ELSE "insert", idx, 0, items, Takes(lvalue), r.o, r.source)

\* A container like this one that holds the items.
Filled(items) ==
    LET full == {r.o.self : r \in IF IsVec THEN vec_insert_range(VecInit(box.copy_init, box.copy_deinit), items, 0, TRUE, TRUE)
                                  ELSE list_insert_range(ListInit(box.copy_init, box.copy_deinit), items, TRUE)}
    IN  CHOOSE c \in full : c.length = Len(items)

\* VecMerge and ListMerge with another container, L and R.
Merge ==
    /\ Running
    /\ ~IsVec /\ box.copy_deinit => box.copy_init
    /\ \E items \in Given, lvalue \in Forms :
         /\ Fits(items)
         /\ \E r \in IF IsVec THEN vec_merge(box, Filled(items), lvalue) ELSE list_merge(box, Filled(items), lvalue) :
              Answer("merge", 0, 0, items, Takes(lvalue), r.o, IF IsVec THEN Items(r.source) ELSE NodeItems(r.source))

\* VecInitClone into an empty vec.
Clone ==
    /\ Running /\ form = "vec" /\ box = VecInit(box.copy_init, box.copy_deinit)
    /\ box.copy_deinit => box.copy_init
    /\ \E items \in Given : \E o \in clone_vec(box, Filled(items)) :
         Answer("clone", 0, 0, items, FALSE, o, items)

\* VecRemoveRange, VecRemoveRangeFast and ListRemoveRange, into a buffer of
\* the caller or not.
RemoveItems ==
    /\ Running
    /\ \E i \in 0..box.length - 1, out \in BOOLEAN : \E n \in 1..box.length - i, fast \in {FALSE, IsVec} :
         \E o \in IF ~IsVec THEN {remove_range_list(box, i, n)}
                  ELSE IF fast THEN fast_remove_range_vec(box, i, n, out) ELSE remove_range_vec(box, i, n, out) :
           Answer(IF fast THEN "remove_fast" ELSE "remove", i, n, << >>, out, o,
                  IF out THEN SubSeq(BoxItems, i + 1, i + n) ELSE << >>)

Sort == Running /\ Plain("sort", 0, 0, IF IsVec THEN {Done(vec_sort(box))} ELSE list_sort(box))
Swap ==
    /\ Running
    /\ \E i, j \in 0..box.length - 1 : Plain("swap", i, j, IF IsVec THEN swap_vec(box, i, j) ELSE {swap_list(box, i, j)})
ReverseItems == Running /\ Plain("reverse", 0, 0, {Done(IF IsVec THEN reverse_vec(box) ELSE reverse_list(box))})
Clear == Running /\ Plain("clear", 0, 0, IF IsVec THEN {Done(clear_vec(box))} ELSE {clear_list(box)})
Discard ==
    /\ Running
    /\ Plain("clear", 0, 0, IF IsVec THEN deinit_vec(box) ELSE {deinit_list(box)})

\* VecResize; an owning vec is only made shorter (see clear_vec).
Resize ==
    /\ Running /\ IsVec
    /\ \E n \in 0..IF box.copy_deinit THEN box.length ELSE MostItems[form] : Plain("resize", 0, n, resize_vec(box, n))
Reserve ==
    /\ Running /\ IsVec
    /\ \/ \E n \in 0..MostItems[form] : Plain("reserve", 0, 0, reserve_pow2_vec(box, n))
       \/ Plain("reserve", 0, 0, reduce_space_vec(box))

ContainersNext ==
    \/ VecInsert \/ ListInsert \/ Merge \/ Clone \/ RemoveItems \/ Sort \/ Swap
    \/ ReverseItems \/ Clear \/ Discard \/ Resize \/ Reserve

VecShape ==
    /\ ~box.wild /\ box.length <= box.capacity
    /\ Len(box.data) = IF box.data = << >> THEN box.capacity ELSE box.capacity + 1
    /\ box.data # << >> /\ ~box.copy_deinit => Span(box, box.length, 1) = <<0>>
    /\ \A x \in Values : find_idx_vec(box, x) = Ref!FirstIndex(Items(box), x)

\* Both chains hold every node, and a walk from any node finds any other.
ListShape ==
    /\ Cardinality(DOMAIN box.nodes) = box.length /\ box.blocks = 2 * box.length
    /\ ListForeach(box, FALSE) = NodeItems(box) /\ ListForeach(box, TRUE) = Ref!Turned(NodeItems(box))
    /\ ListForeachIdx(box, FALSE) = NodeItems(box) /\ ListForeachIdx(box, TRUE) = Ref!Turned(NodeItems(box))
    /\ \A i, j \in 0..box.length - 1 :
         get_node_random_access(box, node_at_list(box, i), i, j - i) = node_at_list(box, j)
    /\ \A x \in Values : find_idx_list(box, x) = Ref!FirstIndex(NodeItems(box), x)

\* After any calls and any failures the buffer or the chain is well formed,
\* nothing was written outside it, no block is lost, and a container that
\* releases its elements answers for one payload for each item it holds
\* (Vec.c and List.c, all their mutators).
ContainerSound ==
    /\ IF IsVec THEN VecShape ELSE ListShape
    /\ box.copy_deinit => \A x \in Values : box.alive[x] = CountOf(BoxItems, x)

\* Every call does to the items what its name says and hands the items of the
\* caller over exactly when it promises to; a refused call changes nothing,
\* but that a refused ListPushArrL may have pushed the first items is open
\* (Vec.c and List.c, all their mutators).
ImplementsSequence == Ref!SequenceInit /\ [][Ref!SequenceNext]_<<BoxItems, said>>
=============================================================================
