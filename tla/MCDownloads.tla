---------------------------- MODULE MCDownloads ----------------------------
(* A small instance of Downloads for TLC: two folders, every build.         *)
EXTENDS Downloads
=============================================================================
