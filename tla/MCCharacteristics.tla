------------------------- MODULE MCCharacteristics -------------------------
(***************************************************************************)
(* Small instances of Characteristics for TLC: each Apple TV has one HAP   *)
(* session, named tv1, tv2.                                                *)
(***************************************************************************)
EXTENDS Characteristics, TLC

CONSTANTS tv1, tv2

MCOwner == (tv1 :> 1) @@ (tv2 :> 2)
=============================================================================
