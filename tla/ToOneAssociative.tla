--------------------------- MODULE ToOneAssociative ---------------------------
(***************************************************************************)
(* transient::ToOneAssociative<Related, Associative>                       *)
(* (src/architecture/transient/include/transient/ToOneAssociative.hh):     *)
(* one end of a one-to-one associative relationship, holding the related   *)
(* object and the associative object linking them.  Pointers are model     *)
(* values or Null (a default-constructed ObjectPtr).  A call that throws   *)
(* SWA::ProgramError changes nothing.                                      *)
(***************************************************************************)
EXTENDS Naturals

CONSTANTS Objects, Associatives, Null

ASSUME Null \notin Objects \cup Associatives

VARIABLES related, assoc

vars == <<related, assoc>>

(* The ObjectPtr arguments a caller may pass.                              *)
RelatedArg == Objects \cup {Null}
AssocArg == Associatives \cup {Null}

(* navigate(), navigateAssociative(), correlate(rhs) and count().         *)
Navigate == related
NavigateAssociative == assoc
Correlate(rhs) == IF rhs = related THEN assoc ELSE Null
Count == IF related # Null THEN 1 ELSE 0

Init ==
  /\ related = Null /\ assoc = Null

(* link(rhs, associative): throws, changing nothing, if an object is      *)
(* related already; otherwise stores both pointers, null or not.          *)
Link(rhs, a) ==
  /\ related = Null
  /\ related' = rhs /\ assoc' = a

(* unlink(rhs, associative): throws, changing nothing, unless both are    *)
(* the ones linked; otherwise clears both.                                *)
Unlink(rhs, a) ==
  /\ related = rhs /\ assoc = a
  /\ related' = Null /\ assoc' = Null

Next ==
  \E rhs \in RelatedArg, a \in AssocArg : Link(rhs, a) \/ Unlink(rhs, a)

Spec == Init /\ [][Next]_vars

-----------------------------------------------------------------------------
TypeOK == related \in RelatedArg /\ assoc \in AssocArg

(* The relationship is either empty or a related object with its           *)
(* associative (spec 7: a relationship invariant violation fails fast):    *)
(* count() and navigateAssociative() agree, and correlate() gives an       *)
(* associative only for the object navigate() returns.                     *)
LinkComplete ==
  /\ (Count = 1) = (NavigateAssociative # Null)
  /\ \A rhs \in RelatedArg : Correlate(rhs) # Null => Count = 1 /\ rhs = Navigate
=============================================================================
