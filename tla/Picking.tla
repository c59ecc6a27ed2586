------------------------------ MODULE Picking ------------------------------
(***************************************************************************)
(* The list comprehension [x for i, x in enumerate(items) if ...] of the   *)
(* loader, the generator and the publisher.  It is written with FlattenSeq *)
(* rather than SelectSeq, which the proof system cannot expand.            *)
(***************************************************************************)
EXTENDS SequencesExt

\* The items at these places, in their order.
Picked(items, places) ==
    FlattenSeq([ i \in DOMAIN items |->
                   IF i \in places THEN <<items[i]>> ELSE <<>> ])

=============================================================================
