-------------------------- MODULE MCTargetControl --------------------------
(***************************************************************************)
(* Small instances of TargetControl for TLC: each Apple TV has one HAP     *)
(* session, named tv1, tv2, ...                                            *)
(***************************************************************************)
EXTENDS TargetControl, TLC

CONSTANTS tv1, tv2

MCOwner == (tv1 :> 1) @@ (tv2 :> 2)

Symmetry == Permutations(Conn)
=============================================================================
