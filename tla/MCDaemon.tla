------------------------------ MODULE MCDaemon ------------------------------
(* One request to each listener, and one cache entry, which the last run      *)
(* left or not and which a sweep and a commit may take turns at.            *)
EXTENDS Daemon

CONSTANTS p1, a1, e1
=============================================================================
