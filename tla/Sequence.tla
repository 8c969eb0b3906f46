------------------------------ MODULE Sequence ------------------------------
(***************************************************************************)
(* What the containers promise: a sequence of items.  `call` is the last   *)
(* call as its caller sees it: the operation, its numbers, the items given *)
(* or taken, its answer, and what is left in the buffer of the caller.     *)
(***************************************************************************)
EXTENDS Integers, Sequences, FiniteSets

VARIABLES items, call

InsertedAt(s, idx, new) == SubSeq(s, 1, idx) \o new \o SubSeq(s, idx + 1, Len(s))
RemovedAt(s, start, n) == SubSeq(s, 1, start) \o SubSeq(s, start + n + 1, Len(s))
Turned(s) == [i \in DOMAIN s |-> s[Len(s) + 1 - i]]
Exchanged(s, i, j) == [s EXCEPT ![i + 1] = s[j + 1], ![j + 1] = s[i + 1]]
Resized(s, n) == [i \in 1..n |-> IF i <= Len(s) THEN s[i] ELSE 0]

Occurrences(s, x) == Cardinality({i \in DOMAIN s : s[i] = x})
Elements(s) == {s[i] : i \in DOMAIN s}
SameItems(s, t) == \A x \in Elements(s) \cup Elements(t) : Occurrences(s, x) = Occurrences(t, x)
Ascending(s) == \A i \in 1..Len(s) - 1 : s[i] <= s[i + 1]
FirstIndex(s, x) ==
    IF x \in Elements(s) THEN (CHOOSE i \in DOMAIN s : s[i] = x /\ x \notin Elements(SubSeq(s, 1, i - 1))) - 1
    ELSE -1

\* A refused call leaves the sequence and the caller's items alone.  Of "push",
\* ListPushArrL, this is open: List/Insert.h says that the nodes inserted before
\* a refused one stay, so the first items may be there or not.
Failed == call'.op \in {"insert", "insert_fast", "push", "merge", "resize", "sort", "reserve"} /\ ~call'.ok
Fail ==
    /\ Failed
    /\ IF call'.op = "push" THEN \E n \in 0..Len(call'.given) - 1 : items' = items \o SubSeq(call'.given, 1, n)
       ELSE items' = items /\ call'.left = call'.given

\* Items taken over leave nothing behind.
GivenUp == call'.left = IF call'.taken THEN [i \in DOMAIN call'.given |-> 0] ELSE call'.given

Insert == call'.op \in {"insert", "push"} /\ items' = InsertedAt(items, call'.i, call'.given) /\ GivenUp
\* The fast forms keep what is before the index, and every item.
InsertFast ==
    /\ call'.op = "insert_fast" /\ GivenUp
    /\ SubSeq(items', 1, call'.i + Len(call'.given)) = SubSeq(items, 1, call'.i) \o call'.given
    /\ SameItems(items', items \o call'.given)

\* The items of another container, which is emptied if they are taken over.
Merge ==
    /\ call'.op = "merge" /\ items' = items \o call'.given
    /\ call'.left = IF call'.taken THEN << >> ELSE call'.given
\* A clone that fails has copied the first items.
Clone ==
    /\ call'.op = "clone" /\ items' = SubSeq(call'.given, 1, Len(items'))
    /\ call'.ok => Len(items') = Len(call'.given)

Removed == SubSeq(items, call'.i + 1, call'.i + call'.n)
Handed == call'.left = IF call'.taken THEN Removed ELSE << >>
Remove == call'.op = "remove" /\ items' = RemovedAt(items, call'.i, call'.n) /\ Handed
RemoveFast ==
    /\ call'.op = "remove_fast" /\ Handed
    /\ SubSeq(items', 1, call'.i) = SubSeq(items, 1, call'.i)
    /\ SameItems(items' \o Removed, items)

Sort == call'.op = "sort" /\ Ascending(items') /\ SameItems(items', items)
Swap == call'.op = "swap" /\ items' = Exchanged(items, call'.i, call'.n)
Reverse == call'.op = "reverse" /\ items' = Turned(items)
Resize == call'.op = "resize" /\ items' = Resized(items, call'.n)
Clear == call'.op = "clear" /\ items' = << >>
Reserve == call'.op = "reserve" /\ items' = items
Abort == call'.op = "abort" /\ items' = items

SequenceInit == items = << >>
SequenceNext ==
    \/ Fail
    \/ ~Failed /\ (\/ Insert \/ InsertFast \/ Merge \/ Clone \/ Remove \/ RemoveFast \/ Sort \/ Swap
                   \/ Reverse \/ Resize \/ Clear \/ Reserve \/ Abort)
SequenceSpec == SequenceInit /\ [][SequenceNext]_<<items, call>>
=============================================================================
