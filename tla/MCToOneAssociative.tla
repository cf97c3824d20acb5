------------------------- MODULE MCToOneAssociative -------------------------
EXTENDS ToOneAssociative

CONSTANTS o1, o2, a1, a2, null

(* Two related objects and two associatives: a link, a second link, and   *)
(* unlinks naming the wrong object or the wrong associative.               *)
MCObjects == {o1, o2}
MCAssociatives == {a1, a2}
=============================================================================
