---------------------------- MODULE MCStagedIso ----------------------------
(* Small instances of StagedIso for TLC: one operation and two firmware      *)
(* entries. Operations meet only in the mutex and in the free entries, which *)
(* Firmware also takes and gives back.                                       *)
EXTENDS StagedIso, TLC
=============================================================================
