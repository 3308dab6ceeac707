----------------------------- MODULE MCUniqueID -----------------------------
(***************************************************************************)
(* UniqueID on small instances: two or three threads, a clock of a few     *)
(* milliseconds.                                                            *)
(***************************************************************************)
EXTENDS UniqueIDInv, TLC

(* A clock that starts before CUSTOM_EPOCH.                                *)
BeforeEpoch == -2
=============================================================================
