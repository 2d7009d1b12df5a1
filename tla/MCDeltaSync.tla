---------------------------- MODULE MCDeltaSync ----------------------------
(* Instances of DeltaSync for TLC. *)
EXTENDS DeltaSync

EveryFault == FaultKinds
=============================================================================
