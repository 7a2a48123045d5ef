------------------------- MODULE MCThreadSafeDeferred -------------------------
(***************************************************************************)
(* ThreadSafeDeferred for TLC: two calls, of any two methods.  Many        *)
(* methods of PulsarApi have equal contracts, and are then one and the     *)
(* same record.                                                            *)
(***************************************************************************)
EXTENDS ThreadSafeDeferred

MCAllMethods == AllMethods
=============================================================================
