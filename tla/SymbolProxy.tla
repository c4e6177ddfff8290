----------------------------- MODULE SymbolProxy -----------------------------
(***************************************************************************)
(* What a debugger is promised: every request is answered, with the        *)
(* object in the form it asked for if upstream has it, with 404 if it has  *)
(* not, and with 503 only if a backend failed or the form cannot be made.  *)
(* No cache, no coalescing, no eviction.                                   *)
(***************************************************************************)
CONSTANTS Obj,      \* objects a request can name: an identity and a filename
          Proc,     \* requests in progress
          None      \* nothing asked, nothing answered

VARIABLES upstream, \* what the resolver and the blob store hold of each object
          trouble,  \* what can go wrong around the proxy
          asked,    \* what each request wants
          answer    \* what it was told

vars == <<upstream, trouble, asked, answer>>

\* Whether the resolver, the blob store or the disk fail, and whether an entry
\* can be evicted under a request.
Trouble == {"faults", "early_eviction"}
CanFail == "faults" \in trouble
CanLose == "early_eviction" \in trouble

\* dangling: the resolver knows the object, the blob store has no such key.
\* unwrappable: its size or its name is one that no cabinet can have.
Missing  == {"absent", "dangling"}
Payload  == {"plain", "cab", "bundle", "unwrappable"}
Upstream == Missing \cup Payload

\* fetch: the object verbatim; compressed: a cabinet of it; source: one file
\* out of the source bundle it is.
Kind == {"fetch", "compressed", "source"}

Question == [kind : Kind, obj : Obj]

\* An answer names what was served, or a failure.
NotFound    == "not_found"
Unavailable == "unavailable"
Aborted     == "aborted"

\* The bytes that answer a kind of request for a payload.
Served(kind, u) ==
  CASE kind = "fetch"                            -> {u}
    [] kind = "compressed" /\ u = "cab"          -> {"cab"}
    [] kind = "compressed" /\ u = "unwrappable"    -> {Unavailable}
    [] kind = "compressed" /\ u \in {"plain", "bundle"} -> {"wrapped"}
    [] kind = "source" /\ u = "bundle"           -> {"source", NotFound, Unavailable}
    [] kind = "source" /\ u # "bundle"           -> {Unavailable}

Answers(q) ==
  LET u == upstream[q.obj]
  IN  (IF u \in Missing THEN {NotFound} ELSE Served(q.kind, u))
      \cup (IF CanFail THEN {Unavailable} ELSE {})
      \cup (IF CanLose THEN {NotFound, Unavailable, Aborted} ELSE {})

Init == /\ upstream \in [Obj -> Upstream]
        /\ trouble \in SUBSET Trouble
        /\ asked = [p \in Proc |-> None]
        /\ answer = [p \in Proc |-> None]

Ask(p) == /\ asked[p] = None
          /\ \E q \in Question : asked' = [asked EXCEPT ![p] = q]
          /\ UNCHANGED <<upstream, trouble, answer>>

Reply(p) == /\ asked[p] # None /\ answer[p] = None
            /\ \E a \in Answers(asked[p]) : answer' = [answer EXCEPT ![p] = a]
            /\ UNCHANGED <<upstream, trouble, asked>>

Leave(p) == /\ answer[p] # None
            /\ asked' = [asked EXCEPT ![p] = None]
            /\ answer' = [answer EXCEPT ![p] = None]
            /\ UNCHANGED <<upstream, trouble>>

Next == \E p \in Proc : Ask(p) \/ Reply(p) \/ Leave(p)

Spec == Init /\ [][Next]_vars

FairSpec == Spec /\ \A p \in Proc : WF_vars(Reply(p))
=============================================================================
