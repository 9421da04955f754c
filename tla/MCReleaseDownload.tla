------------------------- MODULE MCReleaseDownload -------------------------
(* Small instances of ReleaseDownload for TLC. *)
EXTENDS ReleaseDownload, TLC

(* Names of sessions that are not in use are interchangeable: it is enough   *)
(* to follow the runs in which a new session takes the least of them.        *)
LeastToken ==
  \A t \in partial' \ partial : \A u \in {v \in Tokens : Fresh(v)} : t <= u
=============================================================================
