----------------------------- MODULE MCDiskCache -----------------------------
(***************************************************************************)
(* Small instances of DiskCache for TLC.                                    *)
(***************************************************************************)
EXTENDS DiskCache, TLC

CONSTANTS d1

\* All entries hash into one shard directory: the most contended case.
MCDirOf == [k \in Key |-> d1]

\* Requests and staging names are interchangeable.
Perms == Permutations(Proc) \cup Permutations(Name)
=============================================================================
