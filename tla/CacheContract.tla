---------------------------- MODULE CacheContract ----------------------------
(***************************************************************************)
(* What the disk cache promises to the request path in package objects:     *)
(* a request that missed an entry may wait for somebody to publish it, and   *)
(* from the moment it is published until that request has opened it, the    *)
(* entry is there ("Re-open the freshly committed entry. This always hits", *)
(* objects/service.go:74).  How files, timestamps, the eviction sweeper and  *)
(* singleflight bring that about is the business of module DiskCache.       *)
(***************************************************************************)
CONSTANTS Key,      \* cache entries: (role, id, inner) triples
          Proc,     \* requests
          None      \* no entry

VARIABLES present,  \* the entries that can be opened
          asking    \* the entry each request missed and still has to open

vars == <<present, asking>>

Asking(k) == {p \in Proc : asking[p] = k}

Init == /\ present \in SUBSET Key
        /\ asking = [p \in Proc |-> None]

\* A request finds k absent and sets out to have it produced.
Miss(p, k) == /\ asking[p] = None
              /\ k \notin present
              /\ asking' = [asking EXCEPT ![p] = k]
              /\ UNCHANGED present

\* Somebody who asked for k puts it in place, or replaces it.
Publish(k) == /\ Asking(k) # {}
              /\ present' = present \cup {k}
              /\ UNCHANGED asking

\* A request opens the entry it asked for.
Serve(p) == /\ asking[p] \in present
            /\ asking' = [asking EXCEPT ![p] = None]
            /\ UNCHANGED present

\* A failed production sends every request that waited for it away.
GiveUp(S) == /\ S # {}
             /\ \A p \in S : asking[p] # None
             /\ asking' = [p \in Proc |-> IF p \in S THEN None ELSE asking[p]]
             /\ UNCHANGED present

\* Eviction: never an entry that a request still has to open.
Drop(k) == /\ k \in present
           /\ Asking(k) = {}
           /\ present' = present \ {k}
           /\ UNCHANGED asking

\* The daemon dies: its requests are gone, its entries are not.
Restart == /\ asking' = [p \in Proc |-> None]
           /\ UNCHANGED present

Next == \/ \E p \in Proc, k \in Key : Miss(p, k)
        \/ \E k \in Key : Publish(k) \/ Drop(k)
        \/ \E p \in Proc : Serve(p)
        \/ \E S \in SUBSET Proc : GiveUp(S)
        \/ Restart

Spec == Init /\ [][Next]_vars
=============================================================================
