------------------------------ MODULE MCProcess ------------------------------
(***************************************************************************)
(* Thresholds below, inside and beyond what two bits hold.                 *)
(***************************************************************************)
EXTENDS Process

MCThresholds == {-1, 0, 1, 3, 4, 5}
=============================================================================
