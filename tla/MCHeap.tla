------------------------------- MODULE MCHeap -------------------------------
(***************************************************************************)
(* Three pages at home in buckets that collide and wrap around the end of  *)
(* a table that grows 2 -> 4 -> 8; slots of one unit and of two; regions   *)
(* of one page and of two; arrays that grow at every free and at every     *)
(* second region, and a threshold low enough for the shrink policy to act. *)
(***************************************************************************)
EXTENDS Heap, TLC

MCPages == 0..2
MCHash == 0 :> 7 @@ 1 :> 7 @@ 2 :> 6
MCSlotSize == <<1, 2>>
=============================================================================
