------------------------ MODULE ObjectServiceProofs ------------------------
(***************************************************************************)
(* The object service keeps SymbolProxy's promise, for any number of requests *)
(* and objects: nobody downloads twice, no role holds another role's form,   *)
(* and whatever is coalesced, cached or evicted, every answer is one the     *)
(* abstract proxy may give.                                                 *)
(***************************************************************************)
EXTENDS ObjectService, TLAPS

ReqType == [pc : PC, kind : Kind \cup {None}, obj : Obj \cup {None}, again : BOOLEAN,
            got : Content \cup Failure \cup {None, "source", Aborted}]

Here(role, o) == cache[<<role, o>>] # None
Up(p) == upstream[ObjOf(p)]

CabOnly == {"raw_lookup", "cab_lookup", "cab_do", "cab_wait", "synth", "cab_commit",
            "cab_failed"}

\* A request that is being handled is about something.
Asked(p) == /\ ~At(p, "idle") => req[p].kind \in Kind /\ ObjOf(p) \in Obj
            /\ req[p].pc \in CabOnly => req[p].kind = "compressed"

\* Whoever runs the closure of a flight holds its key.
Leading(p) == /\ Downloading(p)  => flight[FlightKey(Objects, ObjOf(p))] = p
              /\ Synthesizing(p) => flight[FlightKey(CabSynth, ObjOf(p))] = p

\* What a request has in hand, and why it failed.
InHand(p) ==
  /\ At(p, "obj_commit") => req[p].got = Up(p) /\ Up(p) \in Payload
  /\ At(p, "synth") => \/ req[p].got = Up(p) /\ Up(p) \in Payload
                       \/ req[p].got = None /\ EvictInFlight
  /\ At(p, "cab_commit") => \/ req[p].got = "cab" /\ Up(p) = "cab"
                            \/ req[p].got = "wrapped" /\ Up(p) \in {"plain", "bundle"}
  /\ At(p, "obj_failed") => \/ req[p].got = NotFound /\ Up(p) \in Missing
                            \/ req[p].got = Unavailable /\ Faults
  /\ At(p, "cab_failed") => \/ req[p].got = NotFound /\ Up(p) \in Missing
                            \/ /\ req[p].got = Unavailable
                               /\ Faults \/ EvictInFlight \/ Up(p) = "unwrappable"
  /\ At(p, "done") => req[p].got # None

\* Unless it is evicted too early, what a flight has committed is still there
\* when those who waited for it come to open it.
Reopens(p) ==
  ~EvictInFlight =>
    /\ At(p, "obj_reopen") => Here(Objects, ObjOf(p))
    /\ At(p, "raw_lookup") /\ req[p].again =>
         Here(RawCompressed, ObjOf(p)) \/ Here(CabSynth, ObjOf(p))
    /\ At(p, "cab_lookup") /\ req[p].again => Here(CabSynth, ObjOf(p))

ReqInv(p) == Asked(p) /\ Leading(p) /\ InHand(p) /\ Reopens(p)

Inv == TypeOK /\ RoleContents /\ \A p \in Proc : ReqInv(p)

-----------------------------------------------------------------------------
\* A step is fine if it is for the requests it moves, takes no key from another
\* request, and no entry from the cache.
LEMMA Frame ==
  ASSUME Inv, NEW M \in SUBSET Proc,
         UNCHANGED world, gone' \subseteq Proc,
         req' \in [Proc -> ReqType], flight' \in [FlightKeys -> Proc \cup {None}],
         cache' \in [Entry -> Content \cup {None}],
         \A q \in Proc \ M : req'[q] = req[q],
         \A q \in Proc \ M : \A k \in FlightKeys : flight[k] = q => flight'[k] = q,
         \A e \in Entry : cache[e] # None => cache'[e] # None,
         RoleContents',
         \A q \in M : ReqInv(q)'
  PROVE  Inv'
<1>1. ASSUME NEW q \in Proc \ M PROVE ReqInv(q)'
  <2> USE DEF At, ObjOf, Up, Here, Faults, EvictInFlight, world
  <2>1. ReqInv(q) /\ req'[q] = req[q] /\ upstream' = upstream /\ trouble' = trouble
    BY <1>1 DEF Inv
  <2>2. Asked(q)' /\ InHand(q)'
    BY <2>1 DEF ReqInv, Asked, InHand
  <2>3. Leading(q)'
    <3>1. ObjOf(q) \in Obj => /\ FlightKey(Objects, ObjOf(q)) \in FlightKeys
                              /\ FlightKey(CabSynth, ObjOf(q)) \in FlightKeys
      BY DEF FlightKeys
    <3>2. (Downloading(q) \/ Synthesizing(q)) => ObjOf(q) \in Obj
      BY <2>1 DEF ReqInv, Asked, Downloading, Synthesizing, InObject
    <3> QED
      BY <1>1, <2>1, <3>1, <3>2 DEF ReqInv, Leading, Downloading, Synthesizing
  <2>4. Reopens(q)'
    <3>1. ASSUME NEW o \in Obj, NEW role \in Role PROVE Here(role, o) => Here(role, o)'
      BY DEF Entry
    <3>2. req[q].pc \in {"obj_reopen", "raw_lookup", "cab_lookup"} => ObjOf(q) \in Obj
      BY <2>1 DEF ReqInv, Asked
    <3> QED
      BY <2>1, <3>1, <3>2 DEF ReqInv, Reopens, Role
  <2> QED
    BY <2>2, <2>3, <2>4 DEF ReqInv
<1>2. \A q \in Proc : ReqInv(q)'
  BY <1>1
<1>3. TypeOK'
  BY <1>2 DEF Inv, TypeOK, ReqInv, InHand, ReqType, world
<1> QED
  BY <1>2, <1>3 DEF Inv

LEMMA Initially == Init => Inv
<1> SUFFICES ASSUME Init PROVE Inv
  OBVIOUS
<1>1. \A p \in Proc : req[p] = Idle
  BY DEF Init
<1>2. Idle \in ReqType
  BY DEF Idle, ReqType, PC
<1>3. TypeOK
  BY <1>1, <1>2 DEF Init, TypeOK, ReqType, At, Idle
<1>4. RoleContents
  BY DEF Init, RoleContents, Entry, Role
<1>5. \A p \in Proc : ReqInv(p)
  BY <1>1 DEF ReqInv, Asked, Leading, InHand, Reopens, Downloading, Synthesizing, At,
              Idle, InObject, CabOnly
<1> QED
  BY <1>3, <1>4, <1>5 DEF Inv

\* A step of p that touches only its own state.
LEMMA Alone ==
  ASSUME Inv, NEW p \in Proc, NEW r \in ReqType, req' = [req EXCEPT ![p] = r],
         UNCHANGED <<world, cache, flight>>, gone' \subseteq Proc, ReqInv(p)'
  PROVE  Inv'
<1>1. req' \in [Proc -> ReqType] /\ \A q \in Proc \ {p} : req'[q] = req[q]
  BY DEF Inv, TypeOK, ReqType
<1>2. RoleContents'
  BY DEF Inv, RoleContents, world
<1>3. /\ flight' \in [FlightKeys -> Proc \cup {None}] /\ cache' \in [Entry -> Content \cup {None}]
      /\ \A q \in Proc \ {p} : \A k \in FlightKeys : flight[k] = q => flight'[k] = q
      /\ \A e \in Entry : cache[e] # None => cache'[e] # None
  BY DEF Inv, TypeOK
<1>4. \A q \in {p} : ReqInv(q)'
  OBVIOUS
<1>5. {p} \in SUBSET Proc
  OBVIOUS
<1> QED
  BY ONLY Inv, UNCHANGED world, gone' \subseteq Proc, <1>1, <1>2, <1>3, <1>4, <1>5, Frame

Got == Content \cup Failure \cup {None, "source", Aborted}

\* The same, said of where the request goes and what it takes there.
LEMMA Move ==
  ASSUME Inv, NEW p \in Proc, NEW pc \in PC, NEW got \in Got, Carry(p, pc, got),
         UNCHANGED <<world, cache, flight, gone>>,
         ReqInv(p)'
  PROVE  Inv'
<1> DEFINE r == [req[p] EXCEPT !.pc = pc, !.got = got]
<1>1. r \in ReqType /\ req' = [req EXCEPT ![p] = r]
  BY DEF Carry, Inv, TypeOK, ReqType, Got
<1>2. gone' \subseteq Proc
  BY DEF Inv, TypeOK
<1> QED
  BY <1>1, <1>2, Alone

LEMMA Fields ==
  ASSUME Inv, NEW p \in Proc, NEW pc, NEW got, Carry(p, pc, got)
  PROVE  /\ req[p].pc \in PC /\ req[p].got \in Got
         /\ req'[p].pc = pc /\ req'[p].got = got /\ req'[p].again = req[p].again
         /\ req'[p].kind = req[p].kind /\ req'[p].obj = req[p].obj
  BY DEF Carry, Inv, TypeOK, Got

LEMMA GotoIsCarry ==
  ASSUME Inv, NEW p \in Proc, NEW pc, Goto(p, pc)
  PROVE  Carry(p, pc, req[p].got) /\ req[p].got \in Got
  BY DEF Goto, Carry, Inv, TypeOK, Got

\* An answer ends the request.
LEMMA Ends ==
  ASSUME Inv, NEW p \in Proc, NEW got \in Got \ {None}, Finish(p, got), ~At(p, "idle"),
         UNCHANGED <<world, cache, flight, gone>>
  PROVE  Inv'
<1>1. Carry(p, "done", got)
  BY DEF Finish
<1>2. req'[p].pc = "done" /\ req'[p].got = got /\ req'[p].kind = req[p].kind
      /\ req'[p].obj = req[p].obj
  BY <1>1, Fields
<1>3. ReqInv(p)'
  BY <1>2 DEF Inv, ReqInv, Asked, Leading, InHand, Reopens, Downloading, Synthesizing, At,
              ObjOf, InObject, CabOnly
<1>4. "done" \in PC
  BY DEF PC
<1> QED
  BY <1>1, <1>3, <1>4, Move

LEMMA AskStep == ASSUME Inv, NEW p \in Proc, Ask(p) PROVE Inv'
<1>1. PICK kind \in Kind, o \in Obj :
        req' = [req EXCEPT ![p] =
                 [Idle EXCEPT !.kind = kind, !.obj = o,
                    !.pc = IF kind = "compressed" THEN "raw_lookup" ELSE "obj_lookup"]]
  BY DEF Ask
<1> DEFINE pc == IF kind = "compressed" THEN "raw_lookup" ELSE "obj_lookup"
           r  == [Idle EXCEPT !.kind = kind, !.obj = o, !.pc = pc]
<1>2. /\ pc \in PC
      /\ pc \in {"raw_lookup", "obj_lookup"} /\ (pc = "raw_lookup" <=> kind = "compressed")
  BY DEF PC
<1> HIDE DEF pc
<1>3. Idle \in ReqType /\ ~Idle.again
  BY DEF Idle, ReqType, PC
<1>6. r \in ReqType /\ r.pc = pc /\ r.kind = kind /\ r.obj = o /\ ~r.again
  BY <1>2, <1>3 DEF ReqType
<1>7. req' = [req EXCEPT ![p] = r]
  BY <1>1, Zenon DEF pc
<1>8. req'[p] = r
  BY <1>7 DEF Inv, TypeOK
<1> HIDE DEF r
<1>4. ReqInv(p)'
  BY <1>2, <1>6, <1>8
     DEF ReqInv, Asked, Leading, InHand, Reopens, Downloading, Synthesizing, At, ObjOf,
         InObject, CabOnly, Kind
<1>5. gone' \subseteq Proc /\ UNCHANGED <<world, cache, flight>>
  BY DEF Ask, Inv, TypeOK
<1> QED
  BY <1>4, <1>5, <1>6, <1>7, Alone

LEMMA LeaveStep == ASSUME Inv, NEW p \in Proc, Leave(p) \/ Disconnect(p) PROVE Inv'
<1>1. CASE Leave(p)
  <2>1. Idle \in ReqType
    BY DEF Idle, ReqType, PC
  <2>2. req'[p] = Idle /\ gone' \subseteq Proc
    BY <1>1 DEF Leave, Inv, TypeOK
  <2>3. ReqInv(p)'
    BY <2>2 DEF Idle, ReqInv, Asked, Leading, InHand, Reopens, Downloading, Synthesizing, At,
                ObjOf, InObject, CabOnly
  <2> QED
    BY <1>1, <2>1, <2>2, <2>3, Alone DEF Leave
<1>2. CASE Disconnect(p)
  BY <1>2 DEF Disconnect, Inv, TypeOK, RoleContents, ReqInv, Asked, Leading, InHand, Reopens,
              Downloading, Synthesizing, At, ObjOf, Up, Here, Faults, EvictInFlight, world
<1> QED
  BY <1>1, <1>2

-----------------------------------------------------------------------------
\* Steps of one request among its own states.
LEMMA LookupFailsStep == ASSUME Inv, NEW p \in Proc, LookupFails(p) PROVE Inv'
<1> USE NoneAssumption DEF LookupFails
<1>1. Unavailable \in Got \ {None}
  BY DEF Got, Failure
<1>2. CASE req[p].pc \in {"obj_lookup", "obj_reopen"} /\ Carry(p, "obj_failed", Unavailable)
  <2>1. "obj_failed" \in PC
    BY DEF PC
  <2>2. ReqInv(p)'
    BY <1>1, <1>2, Fields
       DEF Inv, ReqInv, Asked, Leading, InHand, Reopens, Downloading, Synthesizing, At, ObjOf,
           Up, InObject, CabOnly, Faults, world
  <2> QED
    BY <1>1, <1>2, <2>1, <2>2, Move
<1>3. CASE req[p].pc \in {"raw_lookup", "cab_lookup"} /\ Finish(p, Unavailable)
  BY <1>1, <1>3, Ends DEF At
<1> QED
  BY <1>2, <1>3

\* What Lookup may hand to ReturnFile.
File(p, file) == \/ file = Up(p) /\ Up(p) \in Payload
                 \/ file = None /\ EvictInFlight

LEMMA ReturnStep ==
  ASSUME Inv, NEW p \in Proc, NEW file, File(p, file), req[p].pc \in {"obj_lookup", "obj_reopen"},
         ReturnFile(p, file), UNCHANGED <<world, cache, flight, gone>>
  PROVE  Inv'
<1>1. file \in Got
  BY DEF File, Got, Content
<1>2. CASE req[p].kind = "fetch" /\ Finish(p, FileAnswer(file))
  <2>1. FileAnswer(file) \in Got \ {None}
    BY <1>1, NoneAssumption DEF FileAnswer, Got, Failure
  <2> QED
    BY <1>2, <2>1, Ends DEF At
<1>3. CASE req[p].kind = "source" /\ \E a \in SourceAnswers(file) : Finish(p, a)
  <2>1. SourceAnswers(file) \subseteq Got \ {None}
    <3>1. Payload \cap {None} = {} /\ "bundle" \in Payload
      BY NoneAssumption DEF Content, Payload
    <3> QED
      BY <3>1, NoneAssumption DEF File, SourceAnswers, Got, Failure
  <2> QED
    BY <1>3, <2>1, Ends DEF At
<1>4. CASE req[p].kind = "compressed" /\ Carry(p, "synth", file)
  <2>1. "synth" \in PC
    BY DEF PC
  <2>2. ReqInv(p)'
    BY <1>1, <1>4, Fields
       DEF File, Inv, ReqInv, Asked, Leading, InHand, Reopens, Downloading, Synthesizing, At,
           ObjOf, Up, InObject, CabOnly, EvictInFlight, world
  <2> QED
    BY <1>1, <1>4, <2>1, <2>2, Move
<1> QED
  BY <1>2, <1>3, <1>4 DEF ReturnFile

\* An entry of the objects role is the object.
LEMMA ObjectEntry ==
  ASSUME Inv, NEW p \in Proc, ~At(p, "idle"), cache[ObjEntry(p)] # None
  PROVE  cache[ObjEntry(p)] = Up(p) /\ Up(p) \in Payload
<1>1. ObjOf(p) \in Obj
  BY DEF Inv, ReqInv, Asked
<1>2. cache[ObjEntry(p)] = Up(p)
  BY <1>1 DEF Inv, RoleContents, ObjEntry, Up
<1>3. cache[ObjEntry(p)] \in Content /\ Up(p) \in Missing \cup Payload
  BY <1>1 DEF Inv, TypeOK, ObjEntry, Entry, Role, Up
<1> QED
  BY <1>2, <1>3 DEF Content, Missing, Payload

LEMMA ObjLookupStep == ASSUME Inv, NEW p \in Proc, ObjLookup(p) PROVE Inv'
<1>1. CASE cache[ObjEntry(p)] # None
  <2>1. File(p, cache[ObjEntry(p)])
    BY <1>1, ObjectEntry DEF ObjLookup, File, At
  <2> QED
    BY <1>1, <2>1, ReturnStep DEF ObjLookup, At
<1>2. CASE cache[ObjEntry(p)] = None
  <2>1. Carry(p, "obj_do", req[p].got) /\ req[p].got \in Got /\ "obj_do" \in PC
    BY <1>2, GotoIsCarry DEF ObjLookup, PC
  <2>2. ReqInv(p)'
    BY <2>1, Fields
       DEF ObjLookup, Inv, ReqInv, Asked, Leading, InHand, Reopens, Downloading, Synthesizing,
           At, ObjOf, InObject, CabOnly
  <2> QED
    BY <2>1, <2>2, Move DEF ObjLookup
<1> QED
  BY <1>1, <1>2

LEMMA ObjReopenStep == ASSUME Inv, NEW p \in Proc, ObjReopen(p) PROVE Inv'
<1>1. At(p, "obj_reopen") /\ ReturnFile(p, cache[ObjEntry(p)])
  BY DEF ObjReopen
<1>2. cache[ObjEntry(p)] = None => EvictInFlight
  BY <1>1 DEF Inv, ReqInv, Reopens, Here, ObjEntry
<1>3. File(p, cache[ObjEntry(p)])
  BY <1>1, <1>2, ObjectEntry DEF File, At
<1> QED
  BY <1>1, <1>3, ReturnStep DEF ObjReopen, At

LEMMA RawLookupStep == ASSUME Inv, NEW p \in Proc, RawLookup(p) PROVE Inv'
<1> DEFINE e == <<RawCompressed, ObjOf(p)>>
<1>1. At(p, "raw_lookup") /\ ObjOf(p) \in Obj
  BY DEF RawLookup, Inv, ReqInv, Asked, At
<1>2. cache[e] \in Content \cup {None}
  BY <1>1 DEF Inv, TypeOK, Entry, Role
<1>3. CASE cache[e] # None
  <2>1. cache[e] \in Got \ {None} /\ Finish(p, cache[e])
    BY <1>2, <1>3 DEF RawLookup, Got
  <2> QED
    BY <1>1, <2>1, Ends DEF RawLookup, At
<1>4. CASE cache[e] = None
  <2>1. Carry(p, "cab_lookup", req[p].got) /\ req[p].got \in Got /\ "cab_lookup" \in PC
    BY <1>4, GotoIsCarry DEF RawLookup, PC
  <2>2. ReqInv(p)'
    BY <1>1, <1>4, <2>1, Fields
       DEF RawLookup, Inv, ReqInv, Asked, Leading, InHand, Reopens, Downloading, Synthesizing,
           At, ObjOf, InObject, CabOnly, Here, EvictInFlight, world
  <2> QED
    BY <2>1, <2>2, Move DEF RawLookup
<1> QED
  BY <1>3, <1>4

LEMMA CabLookupStep == ASSUME Inv, NEW p \in Proc, CabLookup(p) PROVE Inv'
<1> DEFINE e == <<CabSynth, ObjOf(p)>>
<1>1. At(p, "cab_lookup") /\ ObjOf(p) \in Obj
  BY DEF CabLookup, Inv, ReqInv, Asked, At
<1>2. cache[e] \in Content \cup {None}
  BY <1>1 DEF Inv, TypeOK, Entry, Role
<1>3. CASE cache[e] # None /\ Finish(p, cache[e])
  <2>1. cache[e] \in Got \ {None}
    BY <1>2, <1>3 DEF Got
  <2> QED
    BY <1>1, <1>3, <2>1, Ends DEF CabLookup, At
<1>4. CASE cache[e] = None /\ ~req[p].again /\ Goto(p, "cab_do")
  <2>1. Carry(p, "cab_do", req[p].got) /\ req[p].got \in Got /\ "cab_do" \in PC
    BY <1>4, GotoIsCarry DEF PC
  <2>2. ReqInv(p)'
    BY <1>1, <2>1, Fields
       DEF Inv, ReqInv, Asked, Leading, InHand, Reopens, Downloading, Synthesizing, At, ObjOf,
           InObject, CabOnly
  <2> QED
    BY <2>1, <2>2, Move DEF CabLookup
<1>5. CASE Finish(p, FileAnswer(None))
  <2>1. FileAnswer(None) \in Got \ {None}
    BY NoneAssumption DEF FileAnswer, Got, Failure
  <2> QED
    BY <1>1, <1>5, <2>1, Ends DEF CabLookup, At
<1> QED
  BY <1>3, <1>4, <1>5 DEF CabLookup

LEMMA CabFailedStep == ASSUME Inv, NEW p \in Proc, CabFailed(p) PROVE Inv'
<1>1. At(p, "cab_failed") /\ Finish(p, req[p].got)
  BY DEF CabFailed
<1>2. req[p].got \in Got \ {None}
  BY <1>1, NoneAssumption DEF Inv, ReqInv, InHand, Got, Failure
<1> QED
  BY <1>1, <1>2, Ends DEF CabFailed, At

-----------------------------------------------------------------------------
\* Flights.  Do either takes the free key of a flight, or waits.
LEMMA Waits ==
  ASSUME Inv, NEW p \in Proc, NEW pc \in {"cab_wait", "obj_wait"}, Goto(p, pc),
         req[p].pc = (IF pc = "cab_wait" THEN "cab_do" ELSE "obj_do"),
         UNCHANGED <<world, cache, flight, gone>>
  PROVE  Inv'
<1>1. Carry(p, pc, req[p].got) /\ req[p].got \in Got /\ pc \in PC
  BY GotoIsCarry DEF PC
<1>2. ReqInv(p)'
  BY <1>1, Fields
     DEF Inv, ReqInv, Asked, Leading, InHand, Reopens, Downloading, Synthesizing, At, ObjOf,
         InObject, CabOnly
<1> QED
  BY <1>1, <1>2, Move

LEMMA Takes ==
  ASSUME Inv, NEW p \in Proc, NEW k \in FlightKeys, flight[k] = None,
         flight' = [flight EXCEPT ![k] = p], NEW pc \in PC, Goto(p, pc),
         UNCHANGED <<world, cache, gone>>, ReqInv(p)'
  PROVE  Inv'
<1>1. /\ req' \in [Proc -> ReqType] /\ \A q \in Proc \ {p} : req'[q] = req[q]
      /\ gone' \subseteq Proc /\ UNCHANGED world
  BY DEF Goto, Inv, TypeOK, ReqType
<1>2. RoleContents'
  BY DEF Inv, RoleContents, world
<1>3. /\ flight' \in [FlightKeys -> Proc \cup {None}] /\ cache' \in [Entry -> Content \cup {None}]
      /\ \A q \in Proc \ {p} : \A j \in FlightKeys : flight[j] = q => flight'[j] = q
      /\ \A e \in Entry : cache[e] # None => cache'[e] # None
  BY NoneAssumption DEF Inv, TypeOK
<1>4. \A q \in {p} : ReqInv(q)'
  OBVIOUS
<1>5. {p} \in SUBSET Proc
  OBVIOUS
<1> QED
  BY ONLY Inv, <1>1, <1>2, <1>3, <1>4, <1>5, Frame

LEMMA ObjDoStep == ASSUME Inv, NEW p \in Proc, ObjDo(p) PROVE Inv'
<1> DEFINE k == FlightKey(Objects, ObjOf(p))
<1>1. At(p, "obj_do") /\ ObjOf(p) \in Obj
  BY DEF ObjDo, Inv, ReqInv, Asked, At
<1>2. k \in FlightKeys /\ k # FlightKey(CabSynth, ObjOf(p))
  BY <1>1 DEF FlightKeys, FlightKey, Objects, CabSynth
<1>3. CASE flight[k] = None
  <2>1. Goto(p, "resolve") /\ flight' = [flight EXCEPT ![k] = p] /\ "resolve" \in PC
    BY <1>3 DEF ObjDo, Do, PC
  <2>2. flight'[k] = p /\ \A j \in FlightKeys \ {k} : flight'[j] = flight[j]
    BY <1>2, <2>1 DEF Inv, TypeOK
  <2>3. FlightKey(CabSynth, ObjOf(p)) \in FlightKeys \ {k}
    BY <1>1, <1>2 DEF FlightKeys
  <2>4. ReqInv(p)'
    BY <1>1, <2>1, <2>2, <2>3, GotoIsCarry, Fields
       DEF Inv, ReqInv, Asked, Leading, InHand, Reopens, Downloading, Synthesizing, At, ObjOf,
           InObject, CabOnly
  <2> QED
    BY <1>2, <1>3, <2>1, <2>4, Takes DEF ObjDo
<1>4. CASE flight[k] # None
  BY <1>1, <1>4, Waits DEF ObjDo, Do, At
<1> QED
  BY <1>3, <1>4

LEMMA CabDoStep == ASSUME Inv, NEW p \in Proc, CabDo(p) PROVE Inv'
<1> DEFINE k == FlightKey(CabSynth, ObjOf(p))
<1>1. At(p, "cab_do") /\ ObjOf(p) \in Obj
  BY DEF CabDo, Inv, ReqInv, Asked, At
<1>2. k \in FlightKeys
  BY <1>1 DEF FlightKeys
<1>3. CASE flight[k] = None
  <2>1. Goto(p, "obj_lookup") /\ flight' = [flight EXCEPT ![k] = p] /\ "obj_lookup" \in PC
    BY <1>3 DEF CabDo, Do, PC
  <2>2. flight'[k] = p
    BY <1>2, <2>1 DEF Inv, TypeOK
  <2>3. ReqInv(p)'
    BY <1>1, <2>1, <2>2, GotoIsCarry, Fields
       DEF Inv, ReqInv, Asked, Leading, InHand, Reopens, Downloading, Synthesizing, At, ObjOf,
           InObject, CabOnly
  <2> QED
    BY <1>2, <1>3, <2>1, <2>3, Takes DEF CabDo
<1>4. CASE flight[k] # None
  BY <1>1, <1>4, Waits DEF CabDo, Do, At
<1> QED
  BY <1>3, <1>4

-----------------------------------------------------------------------------
\* Land moves p and whoever waits for it.
Moves(q, p, role) == q = p \/ (Waiting(q) /\ WaitKey(q) = FlightKey(role, ObjOf(p)))

\* What it makes of them is fine.
Suits(p, role, pc, got, again) ==
  \A q \in Proc :
    /\ Moves(q, p, role)
    /\ req'[q].pc = pc /\ req'[q].got = got /\ req'[q].again = again
    /\ req'[q].kind = req[q].kind /\ req'[q].obj = req[q].obj
    => ReqInv(q)'

CacheGrows == /\ UNCHANGED <<world, gone>>
              /\ cache' \in [Entry -> Content \cup {None}]
              /\ \A e \in Entry : cache[e] # None => cache'[e] # None
              /\ RoleContents'

LEMMA Lands ==
  ASSUME Inv, NEW p \in Proc, NEW role \in {Objects, CabSynth},
         NEW pc \in PC, NEW got \in Got, NEW again \in BOOLEAN,
         ObjOf(p) \in Obj, flight[FlightKey(role, ObjOf(p))] = p,
         Land(p, role, pc, got, again), CacheGrows,
         Suits(p, role, pc, got, again)
  PROVE  Inv'
<1> DEFINE k == FlightKey(role, ObjOf(p))
           M == {q \in Proc : Moves(q, p, role)}
<1>1. k \in FlightKeys
  BY DEF FlightKeys
<1>2. flight' = [flight EXCEPT ![k] = None]
  BY DEF Land
<1>3. \A q \in Proc : req'[q] = IF Moves(q, p, role)
                                THEN [req[q] EXCEPT !.pc = pc, !.got = got, !.again = again]
                                ELSE req[q]
  <2>1. req' = [q \in Proc |-> IF Moves(q, p, role)
                               THEN [req[q] EXCEPT !.pc = pc, !.got = got, !.again = again]
                               ELSE req[q]]
    BY ONLY Land(p, role, pc, got, again), Zenon DEF Land, Moves
  <2> QED
    BY ONLY <2>1, Zenon
<1>4. \A q \in Proc : req[q] \in ReqType
  BY DEF Inv, TypeOK, ReqType
<1>5. \A q \in M : /\ req'[q].pc = pc /\ req'[q].got = got /\ req'[q].again = again
                    /\ req'[q].kind = req[q].kind /\ req'[q].obj = req[q].obj
                    /\ req'[q] \in ReqType
  <2> SUFFICES ASSUME NEW q \in M
               PROVE  /\ req'[q].pc = pc /\ req'[q].got = got /\ req'[q].again = again
                      /\ req'[q].kind = req[q].kind /\ req'[q].obj = req[q].obj
                      /\ req'[q] \in ReqType
    OBVIOUS
  <2>1. /\ req[q] \in ReqType
        /\ req'[q] = [req[q] EXCEPT !.pc = pc, !.got = got, !.again = again]
    BY <1>3, <1>4
  <2> QED
    BY <2>1 DEF ReqType, Got
<1>6. \A q \in M : ReqInv(q)'
  BY <1>5 DEF Suits
<1>7. req' \in [Proc -> ReqType]
  <2>1. \A q \in Proc : req'[q] \in ReqType
    BY <1>3, <1>4, <1>5
  <2> QED
    BY <2>1 DEF Land
<1>8. /\ flight' \in [FlightKeys -> Proc \cup {None}]
      /\ \A q \in Proc \ M : \A j \in FlightKeys : flight[j] = q => flight'[j] = q
  <2>1. p \in M
    BY Zenon DEF Moves
  <2> QED
    BY <1>1, <1>2, <2>1 DEF Inv, TypeOK
<1>9. \A q \in Proc \ M : req'[q] = req[q]
  BY <1>3
<1>10. /\ M \in SUBSET Proc /\ gone' \subseteq Proc /\ UNCHANGED world /\ RoleContents'
       /\ cache' \in [Entry -> Content \cup {None}]
       /\ \A e \in Entry : cache[e] # None => cache'[e] # None
  BY DEF Inv, TypeOK, CacheGrows
<1> HIDE DEF M
<1> QED
  BY ONLY Inv, <1>6, <1>7, <1>8, <1>9, <1>10, Frame

\* Those an object flight carries along lead the cabinet flights they led.
LEMMA LandsObject ==
  ASSUME Inv, NEW p \in Proc, Downloading(p),
         NEW got \in {NotFound, Unavailable, None}, LandObject(p, got),
         CacheGrows,
         got = NotFound => Up(p) \in Missing,
         got = Unavailable => Faults,
         got = None => cache'[ObjEntry(p)] # None
  PROVE  Inv'
<1> DEFINE pc == IF got \in Failure THEN "obj_failed" ELSE "obj_reopen"
           k  == FlightKey(Objects, ObjOf(p))
<1>1. ObjOf(p) \in Obj /\ flight[k] = p
  BY DEF Inv, ReqInv, Asked, Leading, Downloading, At
<1>2. pc \in PC /\ got \in Got
  BY DEF PC, Got, Failure
<1>3. /\ got \in {NotFound, Unavailable} => pc = "obj_failed"
      /\ got = None => pc = "obj_reopen"
  BY NoneAssumption DEF Failure
<1>4. Land(p, Objects, pc, got, FALSE)
  BY DEF LandObject
<1> HIDE DEF pc
<1>5. ASSUME NEW q \in Proc, Moves(q, p, Objects),
             req'[q].pc = pc, req'[q].got = got, req'[q].again = FALSE,
             req'[q].kind = req[q].kind, req'[q].obj = req[q].obj
      PROVE  ReqInv(q)'
  <2>1. ObjOf(q) = ObjOf(p) /\ req[q].pc \in {"resolve", "stream", "obj_commit", "obj_wait"}
    BY <1>5 DEF Moves, Waiting, WaitKey, FlightKey, Objects, CabSynth, At, Downloading
  <2>2. ReqInv(q)
    BY DEF Inv
  <2>3. req'[q].pc \in {"obj_failed", "obj_reopen"}
    BY <1>3, <1>5
  <2>4. Asked(q)'
    BY <1>5, <2>1, <2>2, <2>3 DEF ReqInv, Asked, At, ObjOf, CabOnly
  <2>5. Leading(q)'
    <3>1. CASE req[q].kind = "compressed"
      <4>1. flight[FlightKey(CabSynth, ObjOf(q))] = q
        BY <2>1, <2>2, <3>1 DEF ReqInv, Leading, Synthesizing, InObject
      <4>2. FlightKey(CabSynth, ObjOf(q)) \in FlightKeys \ {k}
        BY <1>1, <2>1 DEF FlightKeys, FlightKey, Objects, CabSynth
      <4>3. flight'[FlightKey(CabSynth, ObjOf(q))] = q
        BY <1>4, <4>1, <4>2 DEF Land, Inv, TypeOK
      <4> QED
        BY <1>5, <2>3, <4>3 DEF Leading, Downloading, ObjOf
    <3>2. CASE req[q].kind # "compressed"
      BY <1>5, <2>3, <3>2 DEF Leading, Downloading, Synthesizing
    <3> QED
      BY <3>1, <3>2
  <2>6. InHand(q)'
    BY <1>3, <1>5, <2>1, <2>3 DEF InHand, At, ObjOf, Up, Faults, world, CacheGrows
  <2>7. Reopens(q)'
    BY <1>3, <1>5, <2>1, <2>3 DEF Reopens, At, ObjOf, Here, ObjEntry
  <2> QED
    BY <2>4, <2>5, <2>6, <2>7 DEF ReqInv
<1>6. Suits(p, Objects, pc, got, FALSE)
  BY <1>5 DEF Suits
<1>7. FALSE \in BOOLEAN /\ Objects \in {Objects, CabSynth}
  OBVIOUS
<1> QED
  BY <1>1, <1>2, <1>4, <1>6, <1>7, Lands

\* Those a cabinet flight carries along lead nothing any more.
LEMMA LandsCab ==
  ASSUME Inv, NEW p \in Proc, Synthesizing(p),
         NEW pc \in {"cab_failed", "raw_lookup"}, NEW got \in Got,
         Land(p, CabSynth, pc, got, pc = "raw_lookup"),
         CacheGrows,
         pc = "cab_failed" => \/ got = NotFound /\ Up(p) \in Missing
                              \/ /\ got = Unavailable
                                 /\ Faults \/ EvictInFlight \/ Up(p) = "unwrappable",
         pc = "raw_lookup" => \/ cache'[<<RawCompressed, ObjOf(p)>>] # None
                              \/ cache'[<<CabSynth, ObjOf(p)>>] # None
  PROVE  Inv'
<1>1. ObjOf(p) \in Obj /\ flight[FlightKey(CabSynth, ObjOf(p))] = p
  BY DEF Inv, ReqInv, Asked, Leading, Synthesizing, InObject, At
<1>2. pc \in PC /\ (pc = "raw_lookup") \in BOOLEAN
  BY DEF PC
<1>3. ASSUME NEW q \in Proc, Moves(q, p, CabSynth),
             req'[q].pc = pc, req'[q].got = got,
             req'[q].kind = req[q].kind, req'[q].obj = req[q].obj
      PROVE  ReqInv(q)'
  <2>1. ObjOf(q) = ObjOf(p) /\ req[q].kind = "compressed"
    BY <1>3 DEF Moves, Waiting, WaitKey, FlightKey, Objects, CabSynth, At, Synthesizing, Inv,
                ReqInv, Asked, CabOnly
  <2>2. Asked(q)' /\ Leading(q)'
    BY <1>1, <1>3, <2>1 DEF Asked, Leading, Downloading, Synthesizing, InObject, At, ObjOf,
                            CabOnly, Kind
  <2>3. InHand(q)'
    BY <1>3, <2>1 DEF InHand, At, ObjOf, Up, Faults, EvictInFlight, world, CacheGrows
  <2>4. Reopens(q)'
    BY <1>3, <2>1 DEF Reopens, At, ObjOf, Here
  <2> QED
    BY <2>2, <2>3, <2>4 DEF ReqInv
<1>4. Suits(p, CabSynth, pc, got, pc = "raw_lookup")
  BY <1>3 DEF Suits
<1>5. CabSynth \in {Objects, CabSynth}
  OBVIOUS
<1> QED
  BY <1>1, <1>2, <1>4, <1>5, Lands

\* The cache as it was.
LEMMA Unchanged == ASSUME Inv, UNCHANGED <<world, cache, gone>> PROVE CacheGrows
  BY DEF Inv, TypeOK, RoleContents, CacheGrows, world

\* A leader goes on to the next step of its download or synthesis.
LEMMA GoesOn ==
  ASSUME Inv, NEW p \in Proc, NEW pc \in {"stream", "obj_commit", "cab_commit"}, NEW got \in Got,
         Carry(p, pc, got), UNCHANGED <<world, cache, flight, gone>>,
         pc = "cab_commit" => At(p, "synth"),
         pc # "cab_commit" => Downloading(p),
         pc = "obj_commit" => got = Up(p) /\ Up(p) \in Payload,
         pc = "cab_commit" => \/ got = "cab" /\ Up(p) = "cab"
                              \/ got = "wrapped" /\ Up(p) \in {"plain", "bundle"}
  PROVE  Inv'
<1>1. pc \in PC
  BY DEF PC
<1>2. ReqInv(p)'
  BY Fields DEF Inv, ReqInv, Asked, Leading, InHand, Reopens, Downloading, Synthesizing, At,
                ObjOf, Up, InObject, CabOnly, world
<1> QED
  BY <1>1, <1>2, Move

LEMMA ResolveStep == ASSUME Inv, NEW p \in Proc, Resolve(p) \/ Stream(p) PROVE Inv'
<1>1. Downloading(p) /\ UNCHANGED <<world, cache, gone>>
  BY DEF Resolve, Stream, Downloading, At
<1>2. CASE LandObject(p, NotFound) /\ upstream[ObjOf(p)] \in Missing
  BY <1>1, <1>2, Unchanged, LandsObject, NoneAssumption DEF Up, NotFound, Unavailable, Failure
<1>3. CASE LandObject(p, Unavailable) /\ Faults
  BY <1>1, <1>3, Unchanged, LandsObject, NoneAssumption DEF NotFound, Unavailable, Failure
<1>4. CASE Goto(p, "stream") /\ UNCHANGED flight
  BY <1>1, <1>4, GotoIsCarry, GoesOn
<1>5. CASE Carry(p, "obj_commit", upstream[ObjOf(p)]) /\ UNCHANGED flight
           /\ upstream[ObjOf(p)] \in Payload
  BY <1>1, <1>5, GoesOn DEF Up, Got, Content
<1> QED
  BY <1>2, <1>3, <1>4, <1>5 DEF Resolve, Stream, Fails, WorkCtxDone, Missing

LEMMA CommitObjectStep == ASSUME Inv, NEW p \in Proc, CommitObject(p) PROVE Inv'
<1>1. Downloading(p) /\ UNCHANGED <<world, gone>> /\ ObjOf(p) \in Obj
      /\ req[p].got = Up(p) /\ Up(p) \in Payload
  BY DEF CommitObject, Downloading, At, Inv, ReqInv, Asked, InHand
<1>2. CASE cache' = [cache EXCEPT ![ObjEntry(p)] = req[p].got] /\ LandObject(p, None)
  <2>1. ObjEntry(p) \in Entry /\ req[p].got \in Content /\ req[p].got # None
    BY <1>1, NoneAssumption DEF ObjEntry, Entry, Role, Content
  <2>2. /\ cache' \in [Entry -> Content \cup {None}] /\ cache'[ObjEntry(p)] # None
        /\ \A e \in Entry : cache[e] # None => cache'[e] # None
    BY <1>2, <2>1 DEF Inv, TypeOK
  <2>3. RoleContents'
    BY <1>1, <1>2, <2>1
       DEF Inv, TypeOK, RoleContents, ObjEntry, Up, Objects, RawCompressed, CabSynth, world,
           Entry, Role
  <2> QED
    BY <1>1, <1>2, <2>2, <2>3, LandsObject, NoneAssumption DEF CacheGrows, Failure
<1>3. CASE Faults /\ LandObject(p, Unavailable) /\ UNCHANGED cache
  BY <1>1, <1>3, Unchanged, LandsObject, NoneAssumption DEF NotFound, Unavailable, Failure
<1> QED
  BY <1>2, <1>3 DEF CommitObject

LEMMA ObjFailedStep == ASSUME Inv, NEW p \in Proc, ObjFailed(p) PROVE Inv'
<1>1. At(p, "obj_failed") /\ UNCHANGED <<world, cache, gone>>
  BY DEF ObjFailed
<1>2. /\ \/ req[p].got = NotFound /\ Up(p) \in Missing
         \/ req[p].got = Unavailable /\ Faults
      /\ req[p].got \in Got \ {None}
  BY <1>1, NoneAssumption DEF Inv, ReqInv, InHand, Got, Failure
<1>3. CASE req[p].kind = "compressed"
  <2>1. Synthesizing(p)
    BY <1>1, <1>3 DEF Synthesizing, At
  <2>2. Land(p, CabSynth, "cab_failed", req[p].got, FALSE)
    BY <1>3 DEF ObjFailed
  <2>3. FALSE = ("cab_failed" = "raw_lookup")
    OBVIOUS
  <2> QED
    BY <1>1, <1>2, <2>1, <2>2, <2>3, Unchanged, LandsCab
<1>4. CASE req[p].kind # "compressed"
  BY <1>1, <1>2, <1>4, Ends DEF ObjFailed, At
<1> QED
  BY <1>3, <1>4

LEMMA SynthStep == ASSUME Inv, NEW p \in Proc, Synth(p) PROVE Inv'
<1>1. /\ At(p, "synth") /\ UNCHANGED <<world, cache, gone>> /\ req[p].kind = "compressed"
      /\ \/ req[p].got = Up(p) /\ Up(p) \in Payload
         \/ req[p].got = None /\ EvictInFlight
  BY DEF Synth, Inv, ReqInv, Asked, InHand, CabOnly, At
<1>2. CASE Land(p, CabSynth, "cab_failed", Unavailable, FALSE)
           /\ (req[p].got \in {None, "unwrappable"} \/ Faults)
  <2>1. Synthesizing(p) /\ Unavailable \in Got
    BY <1>1 DEF Synthesizing, At, Got, Failure
  <2>2. Faults \/ EvictInFlight \/ Up(p) = "unwrappable"
    BY <1>1, <1>2, NoneAssumption DEF Content
  <2>3. FALSE = ("cab_failed" = "raw_lookup")
    OBVIOUS
  <2> QED
    BY <1>1, <1>2, <2>1, <2>2, <2>3, Unchanged, LandsCab
<1>3. CASE /\ req[p].got \notin {None, "unwrappable"} /\ UNCHANGED flight
           /\ Carry(p, "cab_commit", IF req[p].got = "cab" THEN "cab" ELSE "wrapped")
  <2>1. req[p].got = Up(p) /\ Up(p) \in {"plain", "cab", "bundle"}
    BY <1>1, <1>3 DEF Payload
  <2>2. {"cab", "wrapped"} \subseteq Got
    BY DEF Got, Content, Payload
  <2> QED
    BY <1>1, <1>3, <2>1, <2>2, GoesOn
<1> QED
  BY <1>2, <1>3 DEF Synth

LEMMA CommitCabStep == ASSUME Inv, NEW p \in Proc, CommitCab(p) PROVE Inv'
<1> DEFINE e == <<CabRole(req[p].got), ObjOf(p)>>
<1>1. /\ At(p, "cab_commit") /\ UNCHANGED <<world, gone>> /\ ObjOf(p) \in Obj
      /\ \/ req[p].got = "cab" /\ Up(p) = "cab"
         \/ req[p].got = "wrapped" /\ Up(p) \in {"plain", "bundle"}
  BY DEF CommitCab, Inv, ReqInv, Asked, InHand, At
<1>2. Synthesizing(p)
  BY <1>1 DEF Inv, ReqInv, Asked, Synthesizing, At, CabOnly
<1>3. CASE cache' = [cache EXCEPT ![e] = req[p].got] /\ Land(p, CabSynth, "raw_lookup", None, TRUE)
  <2>1. /\ e \in Entry /\ req[p].got \in Content /\ req[p].got # None
        /\ e \in {<<RawCompressed, ObjOf(p)>>, <<CabSynth, ObjOf(p)>>}
    BY <1>1, NoneAssumption DEF CabRole, Entry, Role, Content, Payload
  <2>2. /\ cache' \in [Entry -> Content \cup {None}] /\ cache'[e] # None
        /\ \A d \in Entry : cache[d] # None => cache'[d] # None
    BY <1>3, <2>1 DEF Inv, TypeOK
  <2>3. RoleContents'
    BY <1>1, <1>3, <2>1
       DEF Inv, TypeOK, RoleContents, CabRole, Up, Objects, RawCompressed, CabSynth, world,
           Entry, Role
  <2>4. CacheGrows
    BY <1>1, <2>2, <2>3 DEF CacheGrows
  <2>5. \/ cache'[<<RawCompressed, ObjOf(p)>>] # None
        \/ cache'[<<CabSynth, ObjOf(p)>>] # None
    BY <2>1, <2>2
  <2>6. TRUE = ("raw_lookup" = "raw_lookup") /\ None \in Got
    BY DEF Got
  <2> QED
    BY <1>2, <1>3, <2>4, <2>5, <2>6, LandsCab
<1>4. CASE Faults /\ Land(p, CabSynth, "cab_failed", Unavailable, FALSE) /\ UNCHANGED cache
  <2>1. FALSE = ("cab_failed" = "raw_lookup") /\ Unavailable \in Got
    BY DEF Got, Failure
  <2> QED
    BY <1>1, <1>2, <1>4, <2>1, Unchanged, LandsCab
<1> QED
  BY <1>3, <1>4 DEF CommitCab

\* Eviction spares what Reopens counts on.
LEMMA EvictStep == ASSUME Inv, NEW e \in Entry, Evict(e) PROVE Inv'
<1>1. /\ UNCHANGED <<world, flight, req, gone>>
      /\ cache' \in [Entry -> Content \cup {None}]
      /\ \A d \in Entry : cache'[d] = IF d = e THEN None ELSE cache[d]
  BY DEF Evict, Inv, TypeOK
<1>2. RoleContents'
  BY <1>1 DEF Inv, RoleContents, world, Entry, Role
<1>3. ASSUME NEW q \in Proc PROVE ReqInv(q)'
  <2>1. ReqInv(q) /\ upstream' = upstream /\ trouble' = trouble
    BY <1>1 DEF Inv, world
  <2>2. Asked(q)' /\ Leading(q)' /\ InHand(q)'
    BY <1>1, <2>1 DEF ReqInv, Asked, Leading, InHand, Downloading, Synthesizing, At, ObjOf, Up,
                      Faults, EvictInFlight
  <2>3. Reopens(q)'
    <3>1. SUFFICES ASSUME ~EvictInFlight
                   PROVE  /\ At(q, "obj_reopen") => Here(Objects, ObjOf(q))'
                          /\ At(q, "raw_lookup") /\ req[q].again =>
                               Here(RawCompressed, ObjOf(q))' \/ Here(CabSynth, ObjOf(q))'
                          /\ At(q, "cab_lookup") /\ req[q].again => Here(CabSynth, ObjOf(q))'
      BY <1>1, <2>1 DEF Reopens, EvictInFlight, At
    <3>2. ~Asks(q, e)
      BY <3>1 DEF Evict
    <3>3. ASSUME NEW role \in Role, ObjOf(q) \in Obj, e # <<role, ObjOf(q)>>,
                 Here(role, ObjOf(q))
          PROVE  Here(role, ObjOf(q))'
      BY <1>1, <3>3 DEF Here, Entry, ObjOf
    <3>4. At(q, "obj_reopen") => Here(Objects, ObjOf(q))'
      <4>1. At(q, "obj_reopen") => e # <<Objects, ObjOf(q)>>
        <5>1. ASSUME At(q, "obj_reopen"), e = <<Objects, ObjOf(q)>> PROVE Asks(q, e)
          <6>1. e[1] = Objects /\ e[2] = ObjOf(q) /\ req[q].pc \in InObject
            BY <5>1 DEF InObject, At
          <6> QED
            BY <6>1 DEF Asks, Objects, RawCompressed, CabSynth
        <5> QED
          BY <3>2, <5>1
      <4> QED
        BY <2>1, <3>1, <3>3, <4>1 DEF ReqInv, Asked, Reopens, At, Role
    <3>5. ASSUME req[q].again, At(q, "raw_lookup") \/ At(q, "cab_lookup")
          PROVE  ObjOf(q) \in Obj /\ e # <<CabSynth, ObjOf(q)>> /\ e # <<RawCompressed, ObjOf(q)>>
      <4>1. InCompressed(q) /\ ObjOf(q) \in Obj
        BY <2>1, <3>5 DEF ReqInv, Asked, CabOnly, InCompressed, At
      <4>2. ASSUME NEW role \in {CabSynth, RawCompressed}, e = <<role, ObjOf(q)>> PROVE Asks(q, e)
        <5>1. e[1] = role /\ e[2] = ObjOf(q)
          BY <4>2
        <5> QED
          BY <3>5, <4>1, <5>1 DEF Asks, Objects, RawCompressed, CabSynth
      <4> QED
        BY <3>2, <4>1, <4>2
    <3>6. CASE req[q].again
      BY <2>1, <3>1, <3>3, <3>4, <3>5, <3>6 DEF ReqInv, Reopens, Role
    <3>7. CASE ~req[q].again
      BY <3>4, <3>7
    <3> QED
      BY <3>6, <3>7
  <2> QED
    BY <2>2, <2>3 DEF ReqInv
<1> QED
  BY <1>1, <1>2, <1>3 DEF Inv, TypeOK, world, At

LEMMA InvStep == ASSUME Inv, [Next]_vars PROVE Inv'
<1>1. ASSUME NEW p \in Proc, Work(p) PROVE Inv'
  BY <1>1, ObjLookupStep, ObjDoStep, ObjReopenStep, ObjFailedStep, ResolveStep,
     CommitObjectStep, RawLookupStep, CabLookupStep, CabDoStep, SynthStep, CommitCabStep,
     CabFailedStep DEF Work
<1>2. ASSUME NEW p \in Proc, Ask(p) \/ LookupFails(p) \/ Disconnect(p) \/ Leave(p) PROVE Inv'
  BY <1>2, AskStep, LookupFailsStep, LeaveStep
<1>3. ASSUME NEW e \in Entry, Evict(e) PROVE Inv'
  BY <1>3, EvictStep
<1>4. CASE UNCHANGED vars
  BY <1>4 DEF vars, Inv, TypeOK, RoleContents, ReqInv, Asked, Leading, InHand, Reopens,
              Downloading, Synthesizing, At, ObjOf, Up, Here, Faults, EvictInFlight
<1> QED
  BY <1>1, <1>2, <1>3, <1>4 DEF Next

LEMMA Invariance == Spec => []Inv
  BY Initially, InvStep, PTL DEF Spec

\* The types of a service, and that a request that is done has an answer.
THEOREM TypeCorrect == Spec => []TypeOK
<1>1. Inv => TypeOK
  BY DEF Inv
<1> QED
  BY <1>1, Invariance, PTL

\* An entry of a role holds only that role's form of what upstream has
\* (objects/synth.go:17-25), however many requests and evictions there are.
THEOREM RolesKept == Spec => []RoleContents
<1>1. Inv => RoleContents
  BY DEF Inv
<1> QED
  BY <1>1, Invariance, PTL

\* No object is downloaded, and no cabinet synthesized, twice at once
\* (objects/service.go:84).
THEOREM NobodyTwice == Spec => []OneProducer
<1>1. Inv => OneProducer
  BY DEF Inv, ReqInv, Leading, OneProducer
<1> QED
  BY <1>1, Invariance, PTL

-----------------------------------------------------------------------------
\* What the abstract proxy sees of a request.
Question(p) == IF At(p, "idle") THEN None ELSE [kind |-> req[p].kind, obj |-> ObjOf(p)]
Reply(p)    == IF At(p, "done") THEN req[p].got ELSE None

\* It sees neither a request on its way ...
Unseen(q) == \/ req'[q] = req[q]
             \/ /\ req[q].pc \notin {"idle", "done"} /\ req'[q].pc \notin {"idle", "done"}
                /\ req'[q].kind = req[q].kind /\ req'[q].obj = req[q].obj

LEMMA Stutters ==
  ASSUME UNCHANGED world, \A q \in Proc : Unseen(q)
  PROVE  UNCHANGED Proxy!vars
<1>1. \A q \in Proc : Question(q)' = Question(q) /\ Reply(q)' = Reply(q)
  BY DEF Unseen, Question, Reply, At, ObjOf
<1>2. /\ [p \in Proc |-> Question(p)]' = [p \in Proc |-> Question(p)]
      /\ [p \in Proc |-> Reply(p)]' = [p \in Proc |-> Reply(p)]
  BY <1>1
<1> QED
  BY <1>2 DEF Proxy!vars, Question, Reply, world

LEMMA CarryUnseen ==
  ASSUME Inv, NEW p \in Proc, NEW pc, NEW got, Carry(p, pc, got),
         pc \notin {"idle", "done"}, req[p].pc \notin {"idle", "done"}
  PROVE  \A q \in Proc : Unseen(q)
<1>1. \A q \in Proc \ {p} : req'[q] = req[q]
  BY DEF Carry, Inv, TypeOK
<1> QED
  BY <1>1, Fields DEF Unseen

LEMMA GotoUnseen ==
  ASSUME Inv, NEW p \in Proc, NEW pc, Goto(p, pc),
         pc \notin {"idle", "done"}, req[p].pc \notin {"idle", "done"}
  PROVE  \A q \in Proc : Unseen(q)
  BY GotoIsCarry, CarryUnseen

LEMMA LandUnseen ==
  ASSUME Inv, NEW p \in Proc, NEW role, NEW pc, NEW got, NEW again, Land(p, role, pc, got, again),
         pc \notin {"idle", "done"}, req[p].pc \notin {"idle", "done"}
  PROVE  \A q \in Proc : Unseen(q)
<1>1. \A q \in Proc : req'[q] = IF Moves(q, p, role)
                                THEN [req[q] EXCEPT !.pc = pc, !.got = got, !.again = again]
                                ELSE req[q]
  <2>1. req' = [q \in Proc |-> IF Moves(q, p, role)
                               THEN [req[q] EXCEPT !.pc = pc, !.got = got, !.again = again]
                               ELSE req[q]]
    BY ONLY Land(p, role, pc, got, again), Zenon DEF Land, Moves
  <2> QED
    BY ONLY <2>1, Zenon
<1>2. \A q \in Proc : req[q] \in ReqType
  BY DEF Inv, TypeOK, ReqType
<1>3. ASSUME NEW q \in Proc, Moves(q, p, role)
      PROVE  /\ req[q].pc \notin {"idle", "done"} /\ req'[q].pc = pc
             /\ req'[q].kind = req[q].kind /\ req'[q].obj = req[q].obj
  <2>1. req'[q] = [req[q] EXCEPT !.pc = pc, !.got = got, !.again = again]
    BY <1>1, <1>3, Zenon
  <2>2. req[q].pc \notin {"idle", "done"}
    BY <1>3 DEF Moves, Waiting
  <2> QED
    BY <1>2, <2>1, <2>2 DEF ReqType
<1> QED
  BY <1>1, <1>3 DEF Unseen

\* ... but its answer.
Warranted(p, got) == got \in Proxy!Answers([kind |-> req[p].kind, obj |-> ObjOf(p)])

LEMMA Replies ==
  ASSUME Inv, NEW p \in Proc, NEW got, Finish(p, got), Warranted(p, got), UNCHANGED world,
         req[p].pc \notin {"idle", "done"}
  PROVE  Proxy!Reply(p)
<1>1. /\ req'[p].pc = "done" /\ req'[p].got = got /\ req'[p].kind = req[p].kind
      /\ req'[p].obj = req[p].obj /\ \A q \in Proc \ {p} : req'[q] = req[q]
  <2>1. Carry(p, "done", got)
    BY DEF Finish
  <2>2. \A q \in Proc \ {p} : req'[q] = req[q]
    BY <2>1 DEF Carry, Inv, TypeOK
  <2> QED
    BY <2>1, <2>2, Fields
<1>2. \A q \in Proc : Question(q)' = Question(q)
  BY <1>1 DEF Question, At, ObjOf
<1>3. \A q \in Proc : Reply(q)' = IF q = p THEN got ELSE Reply(q)
  BY <1>1 DEF Reply, At
<1>4. [q \in Proc |-> Question(q)]' = [q \in Proc |-> Question(q)]
  BY <1>2
<1>5. [q \in Proc |-> Reply(q)]' = [[q \in Proc |-> Reply(q)] EXCEPT ![p] = got]
  BY <1>3
<1>6. /\ Question(p) = [kind |-> req[p].kind, obj |-> ObjOf(p)] /\ Question(p) # None
      /\ Reply(p) = None
  <2>1. req[p].kind \in Kind /\ ObjOf(p) \in Obj
    BY DEF Inv, ReqInv, Asked, At
  <2> QED
    BY <2>1, NoneAssumption DEF Question, Reply, At
<1>7. got \in Proxy!Answers([q \in Proc |-> Question(q)][p])
  BY <1>6 DEF Warranted
<1> QED
  BY <1>4, <1>5, <1>6, <1>7 DEF Proxy!Reply, Question, Reply, world

-----------------------------------------------------------------------------
\* Answers the proxy may give, each for its reason.
LEMMA Reasons ==
  ASSUME Inv, NEW p \in Proc, ~At(p, "idle")
  PROVE  /\ Up(p) \in Missing => Warranted(p, NotFound)
         /\ Faults => Warranted(p, Unavailable)
         /\ EvictInFlight => /\ Warranted(p, NotFound) /\ Warranted(p, Unavailable)
                             /\ Warranted(p, Aborted)
<1> USE DEF Warranted, Proxy!Answers, Proxy!CanFail, Proxy!CanLose, Proxy!NotFound,
            Proxy!Unavailable, Proxy!Aborted, Proxy!Missing, NotFound, Unavailable, Aborted,
            Faults, EvictInFlight, Missing, Up
<1> QED
  OBVIOUS

LEMMA ServedIsWarranted ==
  ASSUME NEW p \in Proc, Up(p) \in Payload, NEW got, got \in Proxy!Served(req[p].kind, Up(p))
  PROVE  Warranted(p, got)
  BY DEF Warranted, Proxy!Answers, Proxy!Missing, Payload, Up

LEMMA ReturnImplements ==
  ASSUME Inv, NEW p \in Proc, NEW file, File(p, file), req[p].pc \in {"obj_lookup", "obj_reopen"},
         ReturnFile(p, file), UNCHANGED world
  PROVE  Proxy!Reply(p) \/ UNCHANGED Proxy!vars
<1>1. ~At(p, "idle") /\ req[p].pc \notin {"idle", "done"}
  BY DEF At
<1>2. CASE req[p].kind = "fetch" /\ Finish(p, FileAnswer(file))
  <2>1. CASE file = Up(p) /\ Up(p) \in Payload
    <3>1. FileAnswer(file) = Up(p)
      BY <2>1, NoneAssumption DEF FileAnswer, Content
    <3>2. Up(p) \in Proxy!Served(req[p].kind, Up(p))
      BY <1>2 DEF Proxy!Served
    <3> QED
      BY <1>1, <1>2, <2>1, <3>1, <3>2, ServedIsWarranted, Replies
  <2>2. CASE file = None /\ EvictInFlight
    BY <1>1, <1>2, <2>2, Reasons, Replies DEF FileAnswer
  <2> QED
    BY <2>1, <2>2 DEF File
<1>3. CASE req[p].kind = "source" /\ \E a \in SourceAnswers(file) : Finish(p, a)
  <2>1. PICK a \in SourceAnswers(file) : Finish(p, a)
    BY <1>3
  <2>2. CASE file = Up(p) /\ Up(p) \in Payload
    <3>1. file # None
      BY <2>2, NoneAssumption DEF Content
    <3>2. a \in Proxy!Served(req[p].kind, Up(p))
      BY <1>3, <2>1, <2>2, <3>1
         DEF SourceAnswers, Proxy!Served, Payload, NotFound, Unavailable, Proxy!NotFound,
             Proxy!Unavailable
    <3> QED
      BY <1>1, <2>1, <2>2, <3>2, ServedIsWarranted, Replies
  <2>3. CASE file = None /\ EvictInFlight
    <3>1. a = Aborted
      BY <2>1, <2>3, NoneAssumption DEF SourceAnswers, Content, Payload
    <3> QED
      BY <1>1, <2>1, <2>3, <3>1, Reasons, Replies
  <2> QED
    BY <2>2, <2>3 DEF File
<1>4. CASE req[p].kind = "compressed" /\ Carry(p, "synth", file)
  BY <1>1, <1>4, CarryUnseen, Stutters
<1> QED
  BY <1>2, <1>3, <1>4 DEF ReturnFile

LEMMA ObjectImplements ==
  ASSUME Inv, NEW p \in Proc, ObjLookup(p) \/ ObjReopen(p)
  PROVE  Proxy!Reply(p) \/ UNCHANGED Proxy!vars
<1>1. req[p].pc \in {"obj_lookup", "obj_reopen"} /\ UNCHANGED world /\ ~At(p, "idle")
  BY DEF ObjLookup, ObjReopen, At
<1>2. CASE ReturnFile(p, cache[ObjEntry(p)]) /\ (cache[ObjEntry(p)] # None \/ At(p, "obj_reopen"))
  <2>1. cache[ObjEntry(p)] = None => EvictInFlight
    BY <1>2 DEF Inv, ReqInv, Reopens, Here, ObjEntry
  <2>2. File(p, cache[ObjEntry(p)])
    BY <1>1, <2>1, ObjectEntry DEF File
  <2> QED
    BY <1>1, <1>2, <2>2, ReturnImplements
<1>3. CASE Goto(p, "obj_do")
  BY <1>1, <1>3, GotoUnseen, Stutters
<1> QED
  BY <1>2, <1>3 DEF ObjLookup, ObjReopen

LEMMA CabImplements ==
  ASSUME Inv, NEW p \in Proc, RawLookup(p) \/ CabLookup(p) \/ CabFailed(p)
  PROVE  Proxy!Reply(p) \/ UNCHANGED Proxy!vars
<1>1. /\ req[p].pc \in {"raw_lookup", "cab_lookup", "cab_failed"} /\ UNCHANGED world
      /\ ~At(p, "idle") /\ req[p].kind = "compressed" /\ ObjOf(p) \in Obj
  BY DEF RawLookup, CabLookup, CabFailed, At, Inv, ReqInv, Asked, CabOnly
<1>2. CASE RawLookup(p)
  <2> DEFINE e == <<RawCompressed, ObjOf(p)>>
  <2>1. CASE cache[e] # None
    <3>1. cache[e] = "cab" /\ Up(p) = "cab"
      BY <1>1, <2>1 DEF Inv, RoleContents, Up
    <3>2. "cab" \in Proxy!Served(req[p].kind, Up(p)) /\ Up(p) \in Payload
      BY <1>1, <3>1 DEF Proxy!Served, Payload
    <3> QED
      BY <1>1, <1>2, <2>1, <3>1, <3>2, ServedIsWarranted, Replies DEF RawLookup
  <2>2. CASE cache[e] = None
    BY <1>1, <1>2, <2>2, GotoUnseen, Stutters DEF RawLookup
  <2> QED
    BY <2>1, <2>2
<1>3. CASE CabLookup(p)
  <2> DEFINE e == <<CabSynth, ObjOf(p)>>
  <2>1. CASE cache[e] # None /\ Finish(p, cache[e])
    <3>1. cache[e] = "wrapped" /\ Up(p) \in {"plain", "bundle"}
      BY <1>1, <2>1 DEF Inv, RoleContents, Up
    <3>2. "wrapped" \in Proxy!Served(req[p].kind, Up(p)) /\ Up(p) \in Payload
      BY <1>1, <3>1 DEF Proxy!Served, Payload
    <3> QED
      BY <1>1, <2>1, <3>1, <3>2, ServedIsWarranted, Replies
  <2>2. CASE Goto(p, "cab_do")
    BY <1>1, <2>2, GotoUnseen, Stutters
  <2>3. CASE cache[e] = None /\ req[p].again /\ Finish(p, FileAnswer(None))
    <3>1. EvictInFlight
      BY <1>3, <2>3 DEF CabLookup, Inv, ReqInv, Reopens, Here
    <3> QED
      BY <1>1, <2>3, <3>1, Reasons, Replies DEF FileAnswer
  <2> QED
    BY <1>3, <2>1, <2>2, <2>3 DEF CabLookup
<1>4. CASE CabFailed(p)
  <2>1. \/ req[p].got = NotFound /\ Up(p) \in Missing
        \/ /\ req[p].got = Unavailable
           /\ Faults \/ EvictInFlight \/ Up(p) = "unwrappable"
    BY <1>4 DEF CabFailed, Inv, ReqInv, InHand
  <2>2. CASE req[p].got = Unavailable /\ Up(p) = "unwrappable"
    <3>1. Unavailable \in Proxy!Served(req[p].kind, Up(p)) /\ Up(p) \in Payload
      BY <1>1, <2>2 DEF Proxy!Served, Payload, Unavailable, Proxy!Unavailable
    <3> QED
      BY <1>1, <1>4, <2>2, <3>1, ServedIsWarranted, Replies DEF CabFailed
  <2> QED
    BY <1>1, <1>4, <2>1, <2>2, Reasons, Replies DEF CabFailed
<1> QED
  BY <1>2, <1>3, <1>4

LEMMA FailureImplements ==
  ASSUME Inv, NEW p \in Proc, LookupFails(p) \/ ObjFailed(p)
  PROVE  Proxy!Reply(p) \/ UNCHANGED Proxy!vars
<1>1. /\ req[p].pc \in {"obj_lookup", "obj_reopen", "raw_lookup", "cab_lookup", "obj_failed"}
      /\ UNCHANGED world /\ ~At(p, "idle")
  BY DEF LookupFails, ObjFailed, At
<1>2. CASE LookupFails(p)
  <2>1. CASE Carry(p, "obj_failed", Unavailable)
    BY <1>1, <2>1, CarryUnseen, Stutters
  <2>2. CASE Finish(p, Unavailable)
    BY <1>1, <1>2, <2>2, Reasons, Replies DEF LookupFails
  <2> QED
    BY <1>2, <2>1, <2>2 DEF LookupFails
<1>3. CASE ObjFailed(p)
  <2>1. CASE Land(p, CabSynth, "cab_failed", req[p].got, FALSE)
    <3>1. ASSUME NEW again, Land(p, CabSynth, "cab_failed", req[p].got, again)
          PROVE  UNCHANGED Proxy!vars
      BY <1>1, <3>1, LandUnseen, Stutters
    <3> QED
      BY <2>1, <3>1
  <2>2. CASE Finish(p, req[p].got)
    <3>1. \/ req[p].got = NotFound /\ Up(p) \in Missing
          \/ req[p].got = Unavailable /\ Faults
      BY <1>3 DEF ObjFailed, Inv, ReqInv, InHand
    <3> QED
      BY <1>1, <2>2, <3>1, Reasons, Replies
  <2> QED
    BY <1>3, <2>1, <2>2 DEF ObjFailed
<1> QED
  BY <1>2, <1>3

\* Everything else the proxy does not see.
LEMMA WorkUnseen ==
  ASSUME Inv, NEW p \in Proc,
         \/ ObjDo(p) \/ Resolve(p) \/ Stream(p) \/ CommitObject(p)
         \/ CabDo(p) \/ Synth(p) \/ CommitCab(p)
  PROVE  UNCHANGED Proxy!vars
<1>1. req[p].pc \notin {"idle", "done"} /\ UNCHANGED world
  BY DEF ObjDo, Resolve, Stream, CommitObject, CabDo, Synth, CommitCab, At
<1>2. ASSUME NEW pc \in {"resolve", "obj_wait", "obj_lookup", "cab_wait", "stream"}, Goto(p, pc)
      PROVE  UNCHANGED Proxy!vars
  BY <1>1, <1>2, GotoUnseen, Stutters
<1>3. ASSUME NEW pc \in {"obj_commit", "cab_commit"}, NEW got, Carry(p, pc, got)
      PROVE  UNCHANGED Proxy!vars
  BY <1>1, <1>3, CarryUnseen, Stutters
<1>4. ASSUME NEW role, NEW pc \in {"obj_failed", "obj_reopen", "cab_failed", "raw_lookup"},
             NEW got, NEW again, Land(p, role, pc, got, again)
      PROVE  UNCHANGED Proxy!vars
  BY <1>1, <1>4, LandUnseen, Stutters
<1>5. CASE ObjDo(p) \/ CabDo(p)
  BY <1>2, <1>5 DEF ObjDo, CabDo, Do
<1>6. ASSUME NEW got, LandObject(p, got) PROVE UNCHANGED Proxy!vars
  BY <1>4, <1>6 DEF LandObject
<1>7. CASE Resolve(p) \/ Stream(p) \/ CommitObject(p)
  BY <1>2, <1>3, <1>6, <1>7 DEF Resolve, Stream, CommitObject
<1>8. CASE Synth(p) \/ CommitCab(p)
  BY <1>3, <1>4, <1>8 DEF Synth, CommitCab
<1> QED
  BY <1>5, <1>7, <1>8

LEMMA AskImplements == ASSUME Inv, NEW p \in Proc, Ask(p) PROVE Proxy!Ask(p)
<1>1. PICK kind \in Kind, o \in Obj :
        /\ At(p, "idle")
        /\ req' = [req EXCEPT ![p] =
                 [Idle EXCEPT !.kind = kind, !.obj = o,
                    !.pc = IF kind = "compressed" THEN "raw_lookup" ELSE "obj_lookup"]]
  BY DEF Ask
<1> DEFINE pc == IF kind = "compressed" THEN "raw_lookup" ELSE "obj_lookup"
           q  == [kind |-> kind, obj |-> o]
<1>2. pc \in {"raw_lookup", "obj_lookup"}
  OBVIOUS
<1>3. Idle \in ReqType
  BY DEF Idle, ReqType, PC
<1> HIDE DEF pc
<1>4. /\ req'[p].pc = pc /\ req'[p].kind = kind /\ req'[p].obj = o
      /\ \A r \in Proc \ {p} : req'[r] = req[r]
  <2>1. req' = [req EXCEPT ![p] = [Idle EXCEPT !.kind = kind, !.obj = o, !.pc = pc]]
    BY <1>1, Zenon DEF pc
  <2> QED
    BY <1>3, <2>1 DEF Inv, TypeOK, ReqType
<1>5. \A r \in Proc : Question(r)' = IF r = p THEN q ELSE Question(r)
  BY <1>2, <1>4 DEF Question, At, ObjOf
<1>6. \A r \in Proc : Reply(r)' = Reply(r)
  BY <1>1, <1>2, <1>4 DEF Reply, At
<1>7. /\ [r \in Proc |-> Question(r)]' = [[r \in Proc |-> Question(r)] EXCEPT ![p] = q]
      /\ [r \in Proc |-> Reply(r)]' = [r \in Proc |-> Reply(r)]
      /\ [r \in Proc |-> Question(r)][p] = None
  BY <1>1, <1>5, <1>6 DEF Question
<1>8. q \in Proxy!Question /\ UNCHANGED world
  BY DEF Ask, Proxy!Question, Proxy!Kind, Kind
<1> QED
  BY <1>7, <1>8 DEF Proxy!Ask, Question, Reply, world

LEMMA LeaveImplements == ASSUME Inv, NEW p \in Proc, Leave(p) PROVE Proxy!Leave(p)
<1>1. /\ At(p, "done") /\ req[p].got # None /\ UNCHANGED world
      /\ \A r \in Proc : req'[r] = IF r = p THEN Idle ELSE req[r]
  BY DEF Leave, Inv, TypeOK
<1>2. \A r \in Proc : /\ Question(r)' = IF r = p THEN None ELSE Question(r)
                      /\ Reply(r)' = IF r = p THEN None ELSE Reply(r)
  BY <1>1 DEF Question, Reply, At, ObjOf, Idle
<1>3. /\ [r \in Proc |-> Question(r)]' = [[r \in Proc |-> Question(r)] EXCEPT ![p] = None]
      /\ [r \in Proc |-> Reply(r)]' = [[r \in Proc |-> Reply(r)] EXCEPT ![p] = None]
      /\ [r \in Proc |-> Reply(r)][p] # None
  BY <1>1, <1>2 DEF Reply
<1> QED
  BY <1>1, <1>3 DEF Proxy!Leave, Question, Reply, world

LEMMA StepImplements == ASSUME Inv, [Next]_vars PROVE [Proxy!Next]_(Proxy!vars)
<1>1. ASSUME NEW p \in Proc, Ask(p) \/ Work(p) \/ LookupFails(p) \/ Leave(p)
      PROVE  [Proxy!Next]_(Proxy!vars)
  BY <1>1, AskImplements, LeaveImplements, ObjectImplements, CabImplements, FailureImplements,
     WorkUnseen DEF Work, Proxy!Next
<1>2. ASSUME req' = req, UNCHANGED world PROVE UNCHANGED Proxy!vars
  BY <1>2, Stutters DEF Unseen
<1>3. ASSUME NEW p \in Proc, Disconnect(p) PROVE UNCHANGED Proxy!vars
  BY <1>2, <1>3 DEF Disconnect
<1>4. ASSUME NEW e \in Entry, Evict(e) PROVE UNCHANGED Proxy!vars
  BY <1>2, <1>4 DEF Evict
<1>5. CASE UNCHANGED vars
  BY <1>2, <1>5 DEF vars, world
<1> QED
  BY <1>1, <1>3, <1>4, <1>5 DEF Next

\* Every behaviour of the service, with its cache, its flights and its evictions,
\* is one of the abstract proxy: each answer is one upstream warrants
\* (objects/service.go:25, httpapi/handler.go:93).
THEOREM ServiceIsProxy == Spec => ProxySpec
<1>1. Init => Proxy!Init
  BY NoneAssumption
     DEF Init, Proxy!Init, Proxy!Upstream, Proxy!Missing, Proxy!Payload, Proxy!Trouble, Missing,
         Payload, Trouble, At, Idle
<1> QED
  BY <1>1, Invariance, StepImplements, PTL DEF Spec, ProxySpec, Proxy!Spec
=============================================================================
