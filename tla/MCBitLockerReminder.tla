------------------------ MODULE MCBitLockerReminder ------------------------
(* Small instances of BitLockerReminder for TLC.                             *)
EXTENDS BitLockerReminder, TLC
=============================================================================
