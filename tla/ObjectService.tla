---------------------------- MODULE ObjectService ----------------------------
(***************************************************************************)
(* Package objects: concurrent Fetch, FetchCompressed and SourceFile calls,  *)
(* the three roles of the cache, and singleflight, whose calls nest: the     *)
(* producer of a cabinet calls object(), which may lead or join a second     *)
(* flight.                                                                   *)
(*                                                                         *)
(* The disk cache is the one of CacheContract: entries appear atomically and *)
(* disappear by eviction, which spares an entry a request has missed and not *)
(* yet opened -- unless EvictInFlight, the case that arises when the         *)
(* eviction age is too short for DiskCache's timing argument.                *)
(***************************************************************************)
EXTENDS FiniteSets

CONSTANTS Obj,    \* objects: an identity, a file type and a filename
          Proc,   \* HTTP requests handled concurrently
          None    \* no entry, no content, no process

Objects       == "objects"
RawCompressed == "raw_compressed"
CabSynth      == "cab_synth"
Role  == {Objects, RawCompressed, CabSynth}
Entry == Role \X Obj

VARIABLES
  upstream,   \* what resolver and blob store hold of each object
  trouble,    \* what can go wrong around the service
  cache,      \* the content of each entry, or None
  flight,     \* singleflight: the process that runs each key's closure
  req,        \* where each request is
  gone        \* requests whose client has disconnected

vars == <<upstream, trouble, cache, flight, req, gone>>

world == <<upstream, trouble>>

-----------------------------------------------------------------------------
\* Backends and the disk can fail; eviction can hit an entry in use.
Trouble       == {"faults", "early_eviction"}
Faults        == "faults" \in trouble
EvictInFlight == "early_eviction" \in trouble

Missing  == {"absent", "dangling"}

\* What an object may be: a cabinet, a source bundle, a file that cab.Write turns
\* down, as too large for one cabinet folder or for its name, or any other.
Payload  == {"plain", "cab", "bundle", "unwrappable"}

\* wrapped: a cabinet synthesized around the payload.
Content == Payload \cup {"wrapped"}

\* Outcomes of a call that are not a file: objects.ErrNotFound, any other
\* error, and a nil file without an error.
NotFound    == "not_found"
Unavailable == "unavailable"
Aborted     == "aborted"
Failure     == {NotFound, Unavailable}

Kind == {"fetch", "compressed", "source"}

ASSUME NoneAssumption ==
  None \notin Proc \cup Obj \cup Content \cup Failure \cup {"source", Aborted}
                 \cup [kind : Kind, obj : Obj]

PC == {"idle",
       "raw_lookup", "cab_lookup",             \* lookupCompressed
       "cab_do", "cab_wait",                   \* FetchCompressed -> produceOnce
       "obj_lookup", "obj_do", "obj_wait",     \* object -> produceOnce
       "resolve", "stream", "obj_commit",      \* download
       "obj_failed", "obj_reopen",             \* back in object
       "synth", "cab_commit",                  \* synthesize
       "cab_failed",                           \* back in FetchCompressed
       "done"}

\* got: the file in hand, None for a nil one, or the outcome.
\* again: the second lookupCompressed, after the flight.
Idle == [pc |-> "idle", kind |-> None, obj |-> None, again |-> FALSE, got |-> None]

At(p, pc)     == req[p].pc = pc
ObjOf(p)      == req[p].obj
Goto(p, pc)   == req' = [req EXCEPT ![p].pc = pc]
Carry(p, pc, got) == req' = [req EXCEPT ![p] = [@ EXCEPT !.pc = pc, !.got = got]]
Finish(p, got)    == Carry(p, "done", got)

\* Mutant: the role is left out of the singleflight key.
FlightKeyNoRole(role, o) == <<Objects, o>>

\* flightKey namespaces a call by role and identity.
FlightKey(role, o) == <<role, o>>

FlightKeys == {FlightKey(r, o) : r \in {Objects, CabSynth}, o \in Obj}

Init == /\ upstream \in [Obj -> Missing \cup Payload]
        /\ trouble \in SUBSET Trouble
        /\ cache = [e \in Entry |-> None]
        /\ flight = [k \in FlightKeys |-> None]
        /\ req = [p \in Proc |-> Idle]
        /\ gone = {}

-----------------------------------------------------------------------------
(* singleflight.                                                           *)

WaitKey(p) == FlightKey(IF At(p, "cab_wait") THEN CabSynth ELSE Objects, ObjOf(p))
Waiting(p) == req[p].pc \in {"cab_wait", "obj_wait"}

\* group.Do: run the closure, or wait for whoever runs it.
Do(p, role, run, wait) ==
  LET k == FlightKey(role, ObjOf(p))
  IN  IF flight[k] = None
      THEN /\ flight' = [flight EXCEPT ![k] = p]
           /\ Goto(p, run)
      ELSE /\ Goto(p, wait)
           /\ UNCHANGED flight

\* The closure p ran has returned: everybody on the key gets the same outcome.
Land(p, role, pc, got, again) ==
  LET k == FlightKey(role, ObjOf(p))
  IN  /\ flight' = [flight EXCEPT ![k] = None]
      /\ req' = [q \in Proc |->
           IF q = p \/ (Waiting(q) /\ WaitKey(q) = k)
           THEN [req[q] EXCEPT !.pc = pc, !.got = got, !.again = again]
           ELSE req[q]]

\* context.WithoutCancel: no client can cancel the work its request started.
WorkCtxDone(p) == FALSE

Fails(p) == Faults \/ WorkCtxDone(p)

-----------------------------------------------------------------------------
(* Requests arrive, are dropped by their clients, and are answered.          *)

Ask(p) ==
  /\ At(p, "idle")
  /\ \E kind \in Kind, o \in Obj :
       req' = [req EXCEPT ![p] =
                 [Idle EXCEPT !.kind = kind, !.obj = o,
                    !.pc = IF kind = "compressed" THEN "raw_lookup"
                                                  ELSE "obj_lookup"]]
  /\ UNCHANGED <<world, cache, flight, gone>>

\* The handler goes on working for a client that has left.
Disconnect(p) ==
  /\ ~At(p, "idle") /\ p \notin gone
  /\ gone' = gone \cup {p}
  /\ UNCHANGED <<world, cache, flight, req>>

Leave(p) ==
  /\ At(p, "done")
  /\ req' = [req EXCEPT ![p] = Idle]
  /\ gone' = gone \ {p}
  /\ UNCHANGED <<world, cache, flight>>

-----------------------------------------------------------------------------
(* object: what it returns goes to the handler, to SourceFile, or to the     *)
(* synthesize call on whose behalf it ran.                                   *)

\* The zip of a source bundle has the path or has not, or its manifest or the
\* entry cannot be read; anything else is no zip; and info.Size() of a nil file
\* panics.
SourceAnswers(file) ==
  CASE file = "bundle"               -> {"source", NotFound, Unavailable}
    [] file \in Payload \ {"bundle"} -> {Unavailable}
    [] file = None                   -> {Aborted}

\* Mutant: the handlers take a nil file for a file.
FileUnchecked(file) == file

\* symstoreRoute and serveELF answer 404 for a nil file.
FileAnswer(file) == IF file = None THEN NotFound ELSE file

ReturnFile(p, file) ==
  \/ req[p].kind = "fetch" /\ Finish(p, FileAnswer(file))
  \/ req[p].kind = "source" /\ \E a \in SourceAnswers(file) : Finish(p, a)
  \/ req[p].kind = "compressed" /\ Carry(p, "synth", file)

ObjEntry(p) == <<Objects, ObjOf(p)>>

ObjLookup(p) ==
  /\ At(p, "obj_lookup")
  /\ IF cache[ObjEntry(p)] # None THEN ReturnFile(p, cache[ObjEntry(p)])
                                  ELSE Goto(p, "obj_do")
  /\ UNCHANGED <<world, cache, flight, gone>>

\* Mutant: object downloads without singleflight.
ObjDoAlone(p) ==
  /\ At(p, "obj_do")
  /\ flight' = [flight EXCEPT ![FlightKey(Objects, ObjOf(p))] = p]
  /\ Goto(p, "resolve")
  /\ UNCHANGED <<world, cache, gone>>

ObjDo(p) ==
  /\ At(p, "obj_do")
  /\ Do(p, Objects, "resolve", "obj_wait")
  /\ UNCHANGED <<world, cache, gone>>

\* Opening or statting an entry fails: the call returns an error.
LookupFails(p) ==
  /\ Faults
  /\ \/ req[p].pc \in {"obj_lookup", "obj_reopen"} /\ Carry(p, "obj_failed", Unavailable)
     \/ /\ req[p].pc \in {"raw_lookup", "cab_lookup"}
        /\ Finish(p, Unavailable)
  /\ UNCHANGED <<world, cache, flight, gone>>

\* The second Lookup of object, which returns whatever it finds.
ObjReopen(p) ==
  /\ At(p, "obj_reopen")
  /\ ReturnFile(p, cache[ObjEntry(p)])
  /\ UNCHANGED <<world, cache, flight, gone>>

-----------------------------------------------------------------------------
(* download, the closure of an object flight: the leader's steps.            *)

LandObject(p, got) ==
  Land(p, Objects, IF got \in Failure THEN "obj_failed" ELSE "obj_reopen",
       got, FALSE)

Resolve(p) ==
  /\ At(p, "resolve")
  /\ \/ /\ upstream[ObjOf(p)] = "absent"
        /\ LandObject(p, NotFound)
     \/ /\ Fails(p)
        /\ LandObject(p, Unavailable)
     \/ /\ upstream[ObjOf(p)] # "absent" /\ ~WorkCtxDone(p)
        /\ Goto(p, "stream")
        /\ UNCHANGED flight
  /\ UNCHANGED <<world, cache, gone>>

\* A key the blob store does not have is a miss, not a fault.
Stream(p) ==
  /\ At(p, "stream")
  /\ \/ /\ upstream[ObjOf(p)] \in Missing
        /\ LandObject(p, NotFound)
     \/ /\ Fails(p)
        /\ LandObject(p, Unavailable)
     \/ /\ upstream[ObjOf(p)] \in Payload /\ ~WorkCtxDone(p)
        /\ Carry(p, "obj_commit", upstream[ObjOf(p)])
        /\ UNCHANGED flight
  /\ UNCHANGED <<world, cache, gone>>

CommitObject(p) ==
  /\ At(p, "obj_commit")
  /\ \/ /\ cache' = [cache EXCEPT ![ObjEntry(p)] = req[p].got]
        /\ LandObject(p, None)
     \/ /\ Faults
        /\ LandObject(p, Unavailable)
        /\ UNCHANGED cache
  /\ UNCHANGED <<world, gone>>

\* The error reaches the handler, or ends the cabinet flight p leads.
ObjFailed(p) ==
  /\ At(p, "obj_failed")
  /\ IF req[p].kind = "compressed"
     THEN Land(p, CabSynth, "cab_failed", req[p].got, FALSE)
     ELSE Finish(p, req[p].got) /\ UNCHANGED flight
  /\ UNCHANGED <<world, cache, gone>>

-----------------------------------------------------------------------------
(* FetchCompressed.                                                        *)

\* lookupCompressed asks for the mirrored cabinet first ...
RawLookup(p) ==
  LET e == <<RawCompressed, ObjOf(p)>>
  IN  /\ At(p, "raw_lookup")
      /\ IF cache[e] # None THEN Finish(p, cache[e]) ELSE Goto(p, "cab_lookup")
      /\ UNCHANGED <<world, cache, flight, gone>>

\* ... and then for a synthesized one.  A miss starts the production the first
\* time; the second time it is a nil file.
CabLookup(p) ==
  LET e == <<CabSynth, ObjOf(p)>>
  IN  /\ At(p, "cab_lookup")
      /\ \/ cache[e] # None /\ Finish(p, cache[e])
         \/ cache[e] = None /\ ~req[p].again /\ Goto(p, "cab_do")
         \/ cache[e] = None /\ req[p].again /\ Finish(p, FileAnswer(None))
      /\ UNCHANGED <<world, cache, flight, gone>>

CabDo(p) ==
  /\ At(p, "cab_do")
  /\ Do(p, CabSynth, "obj_lookup", "cab_wait")
  /\ UNCHANGED <<world, cache, gone>>

\* The error of the cabinet flight is the answer of each caller on it.
CabFailed(p) ==
  /\ At(p, "cab_failed")
  /\ Finish(p, req[p].got)
  /\ UNCHANGED <<world, cache, flight, gone>>

\* synthesize sniffs the object: reading a nil file is an error, a cabinet is
\* mirrored, and anything else is wrapped unless cab.Write refuses it.
Synth(p) ==
  /\ At(p, "synth")
  /\ \/ /\ req[p].got \in {None, "unwrappable"} \/ Faults
        /\ Land(p, CabSynth, "cab_failed", Unavailable, FALSE)
     \/ /\ req[p].got \notin {None, "unwrappable"}
        /\ Carry(p, "cab_commit", IF req[p].got = "cab" THEN "cab" ELSE "wrapped")
        /\ UNCHANGED flight
  /\ UNCHANGED <<world, cache, gone>>

\* Mutant: the mirrored cabinet goes to the synthesized role as well, and the
\* wrapped one to the mirror.
SwappedRole(content) == IF content = "wrapped" THEN RawCompressed ELSE CabSynth

\* The role a cabinet is committed under.
CabRole(content) == IF content = "cab" THEN RawCompressed ELSE CabSynth

CommitCab(p) ==
  /\ At(p, "cab_commit")
  /\ \/ /\ cache' = [cache EXCEPT ![<<CabRole(req[p].got), ObjOf(p)>>] = req[p].got]
        /\ Land(p, CabSynth, "raw_lookup", None, TRUE)
     \/ /\ Faults
        /\ Land(p, CabSynth, "cab_failed", Unavailable, FALSE)
        /\ UNCHANGED cache
  /\ UNCHANGED <<world, gone>>

-----------------------------------------------------------------------------
(* Eviction, as CacheContract has it: its guard knows who asks for an entry,  *)
(* which the sweeper itself does not.                                       *)

\* object() has missed and not yet opened.
InObject == {"obj_do", "obj_wait", "resolve", "stream", "obj_commit", "obj_reopen"}

\* lookupCompressed has missed one role, or both.
InCompressed(p) == /\ req[p].kind = "compressed"
                   /\ req[p].pc \notin {"cab_failed", "done"}
                   /\ At(p, "raw_lookup") => req[p].again

\* CacheContract's asking, for the calls of p.
Asks(p, e) ==
  /\ ObjOf(p) = e[2]
  /\ CASE e[1] = Objects       -> req[p].pc \in InObject
       [] e[1] = RawCompressed -> InCompressed(p)
       [] e[1] = CabSynth      -> InCompressed(p) /\ (At(p, "cab_lookup") => req[p].again)

Evict(e) ==
  /\ cache[e] # None
  /\ EvictInFlight \/ \A p \in Proc : ~Asks(p, e)
  /\ cache' = [cache EXCEPT ![e] = None]
  /\ UNCHANGED <<world, flight, req, gone>>

-----------------------------------------------------------------------------
Work(p) == \/ ObjLookup(p) \/ ObjDo(p) \/ ObjReopen(p) \/ ObjFailed(p)
           \/ Resolve(p) \/ Stream(p) \/ CommitObject(p)
           \/ RawLookup(p) \/ CabLookup(p) \/ CabDo(p) \/ Synth(p) \/ CommitCab(p)
           \/ CabFailed(p)

Next == \/ \E p \in Proc : \/ Ask(p) \/ Work(p) \/ LookupFails(p)
                           \/ Disconnect(p) \/ Leave(p)
        \/ \E e \in Entry : Evict(e)

Spec == Init /\ [][Next]_vars

\* Handlers are goroutines, and the backends answer: resolver calls have a
\* timeout, and that a blob-store stream ends is an assumption of this model.
FairSpec == Spec /\ \A p \in Proc : WF_vars(Work(p))

-----------------------------------------------------------------------------
(* Properties.                                                             *)

Live(p) == req[p].pc \notin {"idle", "done"}

Proxy == INSTANCE SymbolProxy WITH
  asked   <- [p \in Proc |-> IF At(p, "idle") THEN None
                             ELSE [kind |-> req[p].kind, obj |-> ObjOf(p)]],
  answer  <- [p \in Proc |-> IF At(p, "done") THEN req[p].got ELSE None]

\* The abstract promise: whatever is cached, coalesced, evicted or dropped by
\* its client, every request gets the answer upstream warrants, in the form it
\* asked for, and 404 or 503 only for the reason they stand for
\* (objects/service.go:25, httpapi/handler.go:93).
ProxySpec == Proxy!Spec

\* And it gets it: nested flights never wait for each other in a circle, and no
\* follower is left behind.
ProxyLive == Proxy!FairSpec

\* Every variable has its type, and a request that is done has an answer.
TypeOK ==
  /\ upstream \in [Obj -> Missing \cup Payload]
  /\ trouble \subseteq Trouble
  /\ cache \in [Entry -> Content \cup {None}]
  /\ flight \in [FlightKeys -> Proc \cup {None}]
  /\ req \in [Proc -> [pc : PC, kind : Kind \cup {None}, obj : Obj \cup {None},
                      again : BOOLEAN,
                      got : Content \cup Failure \cup {None, "source", Aborted}]]
  /\ \A p \in Proc : At(p, "done") => req[p].got # None
  /\ gone \subseteq Proc

\* objects/synth.go:17-25: an entry of a role only ever holds that role's form
\* of what upstream has, so a lookup can serve it without looking at it.
RoleContents ==
  \A o \in Obj :
    /\ cache[<<Objects, o>>] \in {None, upstream[o]}
    /\ cache[<<RawCompressed, o>>] # None =>
         cache[<<RawCompressed, o>>] = "cab" /\ upstream[o] = "cab"
    /\ cache[<<CabSynth, o>>] # None =>
         cache[<<CabSynth, o>>] = "wrapped" /\ upstream[o] \in {"plain", "bundle"}

\* At most one download of an object, and one synthesis of its cabinet, is in
\* progress (objects/service.go:84), although a cabinet's producer may itself be
\* a follower of somebody else's download.
Downloading(p) == req[p].pc \in {"resolve", "stream", "obj_commit"}
Synthesizing(p) ==
  /\ req[p].kind = "compressed"
  /\ req[p].pc \in InObject \cup {"obj_lookup", "obj_failed", "synth", "cab_commit"}
OneProducer ==
  \A p, q \in Proc :
    p # q /\ ObjOf(p) = ObjOf(q) =>
      ~(Downloading(p) /\ Downloading(q)) /\ ~(Synthesizing(p) /\ Synthesizing(q))

\* httpapi/handler.go:93 "503 (with Retry-After) for a transient backend failure
\* so debuggers back off rather than give up": as long as nothing fails, no
\* request for a cabinet is told to come back later.
UnavailableMeansFault ==
  ~Faults => \A p \in Proc : At(p, "done") /\ req[p].kind = "compressed"
                               => req[p].got # Unavailable
=============================================================================
