----------------------------- MODULE MCAssignments -----------------------------
(* Small instances of Assignments for TLC: tags 1 and 2, of which a global *)
(* assignment can only use tag 1 and 2 is of the merchant's namespace.     *)
EXTENDS Assignments

CONSTANT Merchant

AllPairs == {<<Global, 1>>, <<Merchant, 1>>, <<Merchant, 2>>}
(* Nothing assigned; everything, and a tag inactive or namespaced writes   *)
(* off.                                                                    *)
MCInitially ==
  {[rows |-> {}, active |-> Tags, enabled |-> TRUE],
   [rows |-> AllPairs, active |-> Tags \ {1}, enabled |-> TRUE],
   [rows |-> AllPairs, active |-> Tags, enabled |-> FALSE]}
=============================================================================
