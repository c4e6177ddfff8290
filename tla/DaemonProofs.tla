---------------------------- MODULE DaemonProofs ----------------------------
(***************************************************************************)
(* The invariants of a daemon's life, for any number of requests and         *)
(* entries and any settings of the three countdowns that the assumptions of  *)
(* Daemon allow.                                                            *)
(***************************************************************************)
EXTENDS Daemon, FiniteSetTheorems, TLAPS

Free == [pc |-> "idle", new |-> 0]

\* Nothing is served yet.
Unserved == /\ listener = [l \in Listener |-> "off"]
            /\ req = [r \in Request |-> Free]

Early == {"load", "setup", "join"}

\* main waits for the seed before it serves.
SeedFirst == /\ pc \in Early => Unserved
             /\ seed.pc \in {"off", "walking"} => Unserved /\ pc \in Early \cup {"exited"}

AtStart == /\ seed = [pc |-> "off", todo |-> {}, counted |-> 0]
           /\ sweep = [pc |-> "off", todo |-> {}, freed |-> 0]
           /\ gauge = 0
           /\ left = [seed |-> SeedMax, ticker |-> Interval, drain |-> Grace]

\* While the seed walks, no sweep begins and the gauge is untouched.
Walked == /\ pc = "load" => AtStart
          /\ seed.pc = "walking" => /\ gauge = 0
                                    /\ sweep.pc # "sweeping"
                                    /\ left.seed < left.ticker
                                    /\ seed.todo \subseteq disk
                                    /\ seed.counted = Cardinality(disk \ seed.todo)

\* What has been done and not yet counted belongs to a sweep or commit under way.
Pending == /\ sweep.pc # "sweeping" => sweep.freed = 0
           /\ \A r \in Request : req[r].pc # "renamed" => req[r].new = 0

\* A listener reports once.
Told(l) == IF listener[l] = "reported" THEN 1 ELSE 0
Errors  == errc <= Told("public") + Told("admin")

\* Closed listeners bring no requests, and what a drain waited for stays away.
Shut(l) == listener[l] \in {"failed", "closed", "reported"}
Drained == /\ pc \in {"drain_public", "drain_admin"} => Shut("public")
           /\ pc \in {"serve", "drain_public", "drain_admin"} =>
                \A l \in Listener : listener[l] # "off"
           /\ pc = "drain_admin" =>
                Shut("admin") /\ (Active(Public) = {} \/ left.drain = 0)

Inv == TypeOK /\ SeedFirst /\ Walked /\ Pending /\ Errors /\ Drained

-----------------------------------------------------------------------------
LEMMA TypeStep == ASSUME TypeOK, Errors, SeedFirst, Next PROVE TypeOK'
<1> USE SeedAssumption, GraceAssumption DEF TypeOK, Settings, Mode, Listener,
        config, cache, servers, Exit, Running
<1>1. CASE Load
  <2>1. \A tok \in loadSecret(settings) : tok \in {"none", "file", "env"}
    BY DEF loadSecret, FromEnv
  <2>2. token' \in {"none", "file", "env"}
    BY <1>1, <2>1 DEF Load
  <2>3. /\ pc' \in Mode /\ result' \in {"none", "ok", "error", "killed"}
        /\ seed' \in [pc : {"off", "walking", "done", "failed"}, todo : SUBSET Entry,
                     counted : Nat]
        /\ sweep' \in [pc : {"off", "waiting", "sweeping"}, todo : SUBSET Entry, freed : Nat]
    BY <1>1 DEF Load
  <2>4. /\ settings' \in Settings /\ signalled' \in BOOLEAN
        /\ UNCHANGED <<disk, gauge, listener, errc, req, left>>
    BY <1>1 DEF Load
  <2> QED
    BY <2>2, <2>3, <2>4
<1>2. CASE Setup
  BY <1>2 DEF Setup
<1>3. CASE Serve
  BY <1>3 DEF Serve
<1>4. CASE Stop
  BY <1>4 DEF Stop, Close
<1>5. CASE DrainPublic
  BY <1>5 DEF DrainPublic, Close
<1>6. CASE DrainAdmin
  BY <1>6 DEF DrainAdmin
<1>7. CASE Signal
  BY <1>7 DEF Signal
<1>8. CASE SeedVisit
  <2>1. PICK e \in seed.todo :
          seed' = [seed EXCEPT !.todo = @ \ {e},
                               !.counted = @ + (IF e \in disk THEN 1 ELSE 0)]
    BY <1>8 DEF SeedVisit
  <2>2. seed.counted + (IF e \in disk THEN 1 ELSE 0) \in Nat
    OBVIOUS
  <2>3. seed' \in [pc : {"off", "walking", "done", "failed"}, todo : SUBSET Entry,
                   counted : Nat]
    BY <2>1, <2>2
  <2> QED
    BY <1>8, <2>3 DEF SeedVisit
<1>9. CASE SeedSet
  BY <1>9 DEF SeedSet
<1>10. CASE Tick
  BY <1>10 DEF Tick, Down
<1>11. CASE SweepBegin \/ SweepStop
  BY <1>11 DEF SweepBegin, SweepStop
<1>12. CASE SweepRemove
  <2>1. PICK e \in disk :
          /\ disk' = disk \ {e}
          /\ sweep' = [sweep EXCEPT !.todo = @ \ {e}, !.freed = @ + 1]
    BY <1>12 DEF SweepRemove
  <2>2. sweep' = [pc |-> sweep.pc, todo |-> sweep.todo \ {e}, freed |-> sweep.freed + 1]
    BY <2>1
  <2>3. sweep.todo \ {e} \in SUBSET Entry /\ sweep.freed + 1 \in Nat
    OBVIOUS
  <2> QED
    BY <1>12, <2>1, <2>2, <2>3 DEF SweepRemove
<1>13. CASE SweepEnd
  BY <1>13 DEF SweepEnd
<1>14. CASE \E l \in Listener : Bind(l) \/ Fail(l)
  BY <1>14 DEF Bind, Fail
<1>15. CASE \E l \in Listener : Report(l)
  BY <1>15 DEF Report, Reports, Errors, Told
<1>16. CASE \E r \in Request : Arrive(r) \/ Finish(r)
  BY <1>16 DEF Arrive, Finish
<1>17. CASE \E r \in Request : Rename(r)
  BY <1>17 DEF Rename
<1>18. CASE \E r \in Request : Account(r)
  BY <1>18 DEF Account
<1> QED
  BY <1>1, <1>2, <1>3, <1>4, <1>5, <1>6, <1>7, <1>8, <1>9, <1>10, <1>11, <1>12,
     <1>13, <1>14, <1>15, <1>16, <1>17, <1>18 DEF Next, Main

-----------------------------------------------------------------------------
\* What each group of steps may touch.
LEMMA MainOrder == ASSUME TypeOK, SeedFirst, Drained, Next PROVE SeedFirst'
<1> USE DEF TypeOK, SeedFirst, Unserved, Early, Mode, Listener, config, cache,
        servers, Exit, Running
<1>1. CASE Load \/ Setup
  BY <1>1 DEF Load, Setup
<1>2. CASE Serve
  BY <1>2 DEF Serve, Joined
<1>3. CASE Stop \/ DrainPublic \/ DrainAdmin
  BY <1>3 DEF Stop, DrainPublic, DrainAdmin
<1>4. CASE Signal \/ SeedVisit \/ SeedSet \/ Tick
  BY <1>4 DEF Signal, SeedVisit, SeedSet, Tick
<1>5. CASE SweepBegin \/ SweepRemove \/ SweepEnd \/ SweepStop
  BY <1>5 DEF SweepBegin, SweepRemove, SweepEnd, SweepStop
<1>6. CASE \E l \in Listener : Bind(l) \/ Fail(l) \/ Report(l)
  BY <1>6 DEF Bind, Fail, Report
<1>7. CASE \E r \in Request : Arrive(r) \/ Rename(r) \/ Account(r) \/ Finish(r)
  BY <1>7 DEF Arrive, Rename, Account, Finish, Free
<1> QED
  BY <1>1, <1>2, <1>3, <1>4, <1>5, <1>6, <1>7 DEF Next, Main

LEMMA WalkStep == ASSUME TypeOK, TypeOK', SeedFirst, Walked, Next PROVE Walked'
<1> USE SeedAssumption, FiniteAssumption
    DEF TypeOK, Walked, AtStart, Mode, config, cache, servers, Exit, Running
<1>1. CASE Load
  <2>1. disk \ disk = {} /\ Cardinality({}) = 0
    BY FS_EmptySet
  <2>2. CASE pc' = "setup"
    <3>1. seed' = [pc |-> "walking", todo |-> disk, counted |-> 0]
      <4>1. seed' = [seed EXCEPT !.pc = "walking", !.todo = disk]
        BY <1>1, <2>2 DEF Load
      <4>2. seed = [pc |-> "off", todo |-> {}, counted |-> 0]
        BY <1>1 DEF Load
      <4> QED
        BY ONLY <4>1, <4>2
    <3>2. gauge' = 0 /\ disk' = disk /\ left' = left /\ sweep'.pc = "waiting"
      BY <1>1, <2>2 DEF Load
    <3>3. left.seed < left.ticker
      BY <1>1 DEF Load
    <3>4. /\ seed'.pc = "walking" /\ seed'.todo = disk /\ seed'.counted = 0
      BY <3>1
    <3>5. disk' \ seed'.todo = {}
      BY <3>2, <3>4
    <3>6. Cardinality(disk' \ seed'.todo) = 0
      BY <2>1, <3>5
    <3> QED
      BY <2>2, <3>2, <3>3, <3>4, <3>6
  <2> QED
    BY <1>1, <2>2 DEF Load
<1>2. CASE Setup \/ Serve \/ Stop \/ DrainPublic \/ DrainAdmin \/ Signal
  BY <1>2 DEF Setup, Serve, Stop, DrainPublic, DrainAdmin, Signal
<1>3. CASE SeedVisit
  <2>1. PICK e \in seed.todo :
          seed' = [seed EXCEPT !.todo = @ \ {e},
                               !.counted = @ + (IF e \in disk THEN 1 ELSE 0)]
    BY <1>3 DEF SeedVisit
  <2>2. e \in disk /\ seed.todo \subseteq disk /\ seed.pc = "walking"
    BY <1>3, <2>1 DEF SeedVisit
  <2>3. disk \ (seed.todo \ {e}) = (disk \ seed.todo) \cup {e}
    BY <2>1, <2>2
  <2>4. IsFiniteSet(disk \ seed.todo) /\ e \notin disk \ seed.todo
    BY <2>1, FS_Subset
  <2>5. Cardinality(disk \ (seed.todo \ {e})) = Cardinality(disk \ seed.todo) + 1
    <3>1. Cardinality((disk \ seed.todo) \cup {e}) = Cardinality(disk \ seed.todo) + 1
      BY <2>4, FS_AddElement
    <3> QED
      BY <2>3, <3>1
  <2>6. seed'.pc = "walking" /\ seed'.todo = seed.todo \ {e} /\ seed'.counted = seed.counted + 1
    BY <2>1, <2>2
  <2>7. gauge' = gauge /\ sweep' = sweep /\ left' = left /\ disk' = disk /\ pc' = pc
    BY <1>3 DEF SeedVisit
  <2>8. pc # "load"
    BY <2>2
  <2> QED
    BY <2>2, <2>5, <2>6, <2>7, <2>8
<1>4. CASE SeedSet
  BY <1>4 DEF SeedSet, SeedFirst, Early
<1>5. CASE Tick
  BY <1>5 DEF Tick, Down
<1>6. CASE SweepBegin \/ SweepRemove \/ SweepEnd \/ SweepStop
  <2>1. CASE SweepBegin
    BY <1>6, <2>1 DEF SweepBegin
  <2>2. CASE SweepRemove
    <3>1. seed.pc # "walking" /\ pc # "load"
      BY <2>2 DEF SweepRemove
    <3>2. seed' = seed /\ pc' = pc
      BY <2>2 DEF SweepRemove
    <3> QED
      BY <3>1, <3>2
  <2>3. CASE SweepEnd
    BY <1>6, <2>3 DEF SweepEnd
  <2>4. CASE SweepStop
    BY <1>6, <2>4 DEF SweepStop
  <2> QED
    BY <1>6, <2>1, <2>2, <2>3, <2>4
<1>7. CASE \E l \in Listener : Bind(l) \/ Fail(l) \/ Report(l)
  BY <1>7 DEF Bind, Fail, Report
<1>8. CASE \E r \in Request : Arrive(r) \/ Rename(r) \/ Account(r) \/ Finish(r)
  BY <1>8 DEF Arrive, Rename, Account, Finish, SeedFirst, Unserved, Free, Listener, Early
<1> QED
  BY <1>1, <1>2, <1>3, <1>4, <1>5, <1>6, <1>7, <1>8 DEF Next, Main

LEMMA PendingStep == ASSUME TypeOK, TypeOK', Walked, Pending, Next PROVE Pending'
<1> USE DEF TypeOK, Pending, config, cache, servers, Exit, Running
<1>1. CASE Load
  BY <1>1 DEF Load, Walked, AtStart
<1>2. CASE Setup \/ Serve \/ Stop \/ DrainPublic \/ DrainAdmin \/ Signal
  BY <1>2 DEF Setup, Serve, Stop, DrainPublic, DrainAdmin, Signal
<1>3. CASE SeedVisit \/ SeedSet \/ Tick
  BY <1>3 DEF SeedVisit, SeedSet, Tick
<1>4. CASE SweepBegin \/ SweepEnd \/ SweepStop
  BY <1>4 DEF SweepBegin, SweepEnd, SweepStop
<1>7. CASE SweepRemove
  <2>1. sweep'.pc = "sweeping"
    BY <1>7 DEF SweepRemove
  <2> QED
    BY <1>7, <2>1 DEF SweepRemove
<1>5. CASE \E l \in Listener : Bind(l) \/ Fail(l) \/ Report(l)
  BY <1>5 DEF Bind, Fail, Report
<1>6. CASE \E r \in Request : Arrive(r) \/ Rename(r) \/ Account(r) \/ Finish(r)
  BY <1>6 DEF Arrive, Rename, Account, Finish
<1> QED
  BY <1>1, <1>2, <1>3, <1>4, <1>5, <1>6, <1>7 DEF Next, Main

LEMMA ErrorStep == ASSUME TypeOK, SeedFirst, Errors, Next PROVE Errors'
<1> USE DEF TypeOK, Errors, Told, Listener, config, cache, servers, Exit, Running
<1>1. CASE Load \/ Setup \/ DrainAdmin \/ Signal
  BY <1>1 DEF Load, Setup, DrainAdmin, Signal
<1>2. CASE Serve
  BY <1>2 DEF Serve, SeedFirst, Unserved, Early
<1>3. CASE Stop \/ DrainPublic
  BY <1>3 DEF Stop, DrainPublic, Close
<1>4. CASE SeedVisit \/ SeedSet \/ Tick \/ SweepBegin \/ SweepRemove \/ SweepEnd \/ SweepStop
  BY <1>4 DEF SeedVisit, SeedSet, Tick, SweepBegin, SweepRemove, SweepEnd, SweepStop
<1>5. CASE \E l \in Listener : Bind(l) \/ Fail(l) \/ Report(l)
  BY <1>5 DEF Bind, Fail, Report, Reports
<1>6. CASE \E r \in Request : Arrive(r) \/ Rename(r) \/ Account(r) \/ Finish(r)
  BY <1>6 DEF Arrive, Rename, Account, Finish
<1> QED
  BY <1>1, <1>2, <1>3, <1>4, <1>5, <1>6 DEF Next, Main

LEMMA DrainStep == ASSUME TypeOK, TypeOK', SeedFirst, Drained, Next PROVE Drained'
<1> USE RequestAssumption DEF TypeOK, Drained, Shut, Active, Listener, Request, config,
        cache, servers, Exit, Running
<1>1. CASE Load \/ Setup \/ DrainAdmin \/ Signal
  BY <1>1 DEF Load, Setup, DrainAdmin, Signal
<1>2. CASE Serve
  BY <1>2 DEF Serve
<1>3. CASE Stop
  BY <1>3 DEF Stop, Close
<1>4. CASE DrainPublic
  BY <1>4 DEF DrainPublic, Close, DeadlinePassed
<1>5. CASE Tick
  BY <1>5, GraceAssumption DEF Tick, Down
<1>6. CASE SeedVisit \/ SeedSet \/ SweepBegin \/ SweepRemove \/ SweepEnd \/ SweepStop
  BY <1>6 DEF SeedVisit, SeedSet, SweepBegin, SweepRemove, SweepEnd, SweepStop
<1>7. CASE \E l \in Listener : Bind(l) \/ Fail(l) \/ Report(l)
  BY <1>7 DEF Bind, Fail, Report
<1>8. CASE \E r \in Request : Arrive(r)
  BY <1>8 DEF Arrive
<1>9. CASE \E r \in Request : Rename(r) \/ Account(r) \/ Finish(r)
  BY <1>9 DEF Rename, Account, Finish
<1> QED
  BY <1>1, <1>2, <1>3, <1>4, <1>5, <1>6, <1>7, <1>8, <1>9 DEF Next, Main

LEMMA InvStep == ASSUME Inv, [Next]_vars PROVE Inv'
<1>1. CASE Next
  BY <1>1, TypeStep, MainOrder, WalkStep, PendingStep, ErrorStep, DrainStep DEF Inv
<1>2. CASE UNCHANGED vars
  BY <1>2 DEF Inv, vars, TypeOK, SeedFirst, Unserved, Walked, AtStart, Pending, Errors,
              Told, Drained, Shut, Active
<1> QED
  BY <1>1, <1>2

LEMMA InvStart == ASSUME Init PROVE Inv
<1> USE SeedAssumption, GraceAssumption DEF Init
<1>1. TypeOK
  <2>1. /\ seed \in [pc : {"off", "walking", "done", "failed"}, todo : SUBSET Entry, counted : Nat]
        /\ sweep \in [pc : {"off", "waiting", "sweeping"}, todo : SUBSET Entry, freed : Nat]
        /\ left \in [seed : 0..SeedMax, ticker : 0..Interval, drain : 0..Grace]
    OBVIOUS
  <2>2. req \in [Request -> [pc : {"idle", "work", "renamed"}, new : 0..1]]
    OBVIOUS
  <2>3. /\ settings \in Settings /\ token \in {"none", "file", "env"}
        /\ pc \in Mode /\ result \in {"none", "ok", "error", "killed"}
        /\ disk \in SUBSET Entry /\ gauge \in Int
    BY DEF Mode
  <2>4. signalled \in BOOLEAN
    BY Zenon
  <2>5. /\ errc \in 0..2
        /\ listener \in [Listener -> {"off", "binding", "open", "failed", "closed", "reported"}]
    OBVIOUS
  <2> QED
    BY ONLY <2>1, <2>2, <2>3, <2>4, <2>5 DEF TypeOK
<1>2. SeedFirst /\ Walked /\ Pending
  BY DEF SeedFirst, Unserved, Free, Early, Walked, AtStart, Pending
<1>3. Errors /\ Drained
  BY DEF Errors, Told, Drained, Listener
<1> QED
  BY <1>1, <1>2, <1>3 DEF Inv

\* The types of a daemon, and that neither listener's goroutine ever blocks on
\* the channel it reports to (server.go:67).
THEOREM TypeCorrect == Spec => []TypeOK
<1>1. Inv => TypeOK
  BY DEF Inv
<1> QED
  BY <1>1, InvStart, InvStep, PTL DEF Spec

-----------------------------------------------------------------------------
LEMMA UncountedFinite == ASSUME TypeOK PROVE IsFiniteSet(Uncounted) /\ IsFiniteSet(disk)
  BY FiniteAssumption, FS_Subset DEF TypeOK, Uncounted, Request

LEMMA GaugeStep == ASSUME Inv, Inv', GaugeExact, [Next]_vars PROVE GaugeExact'
<1> USE DEF Inv, TypeOK, GaugeExact, config, cache, servers, Exit, Running
<1> DEFINE Same == UNCHANGED <<seed, disk, gauge, sweep>> /\ Uncounted' = Uncounted
<1>1. ASSUME Same PROVE GaugeExact'
  BY <1>1
<1>2. CASE UNCHANGED vars
  BY <1>1, <1>2 DEF vars, Uncounted
<1>3. CASE Load
  <2>1. seed.pc = "off"
    BY <1>3 DEF Load, Walked, AtStart
  <2>2. seed'.pc # "done"
    BY <1>3, <2>1 DEF Load
  <2> QED
    BY <2>2
<1>4. CASE Setup \/ Serve \/ Stop \/ DrainPublic \/ DrainAdmin \/ Signal \/ Tick
  BY <1>1, <1>4 DEF Setup, Serve, Stop, DrainPublic, DrainAdmin, Signal, Tick, Uncounted
<1>5. CASE \E l \in Listener : Bind(l) \/ Fail(l) \/ Report(l)
  BY <1>1, <1>5 DEF Bind, Fail, Report, Uncounted
<1>6. CASE SeedVisit
  BY <1>6 DEF SeedVisit
<1>7. CASE SeedSet
  <2>1. CASE seed'.pc = "done"
    <3>1. seed.todo = {} /\ gauge' = seed.counted /\ seed.counted = Cardinality(disk \ {})
      BY <1>7, <2>1 DEF SeedSet, Walked
    <3>2. disk \ {} = disk /\ disk' = disk
      BY <1>7 DEF SeedSet
    <3>3. sweep'.freed = 0
      BY <1>7 DEF SeedSet, Walked, Pending
    <3>4. Uncounted' = {}
      BY <1>7 DEF SeedSet, SeedFirst, Unserved, Free, Uncounted
    <3>5. gauge' = Cardinality(disk') /\ Cardinality(Uncounted') = 0
      BY <3>1, <3>2, <3>4, FS_EmptySet
    <3>6. Cardinality(disk') \in Nat
      BY <3>2, UncountedFinite, FS_CardinalityType
    <3> QED
      BY <3>3, <3>5, <3>6
  <2> QED
    BY <2>1
<1>8. CASE SweepBegin \/ SweepStop
  <2>1. sweep'.freed = sweep.freed
    BY <1>8 DEF SweepBegin, SweepStop, Pending
  <2>2. Uncounted' = Uncounted
    BY <1>8 DEF SweepBegin, SweepStop, Uncounted
  <2>3. gauge' = gauge /\ disk' = disk /\ seed' = seed
    BY <1>8 DEF SweepBegin, SweepStop
  <2> QED
    BY <2>1, <2>2, <2>3
<1>9. CASE SweepRemove
  <2>1. PICK e \in disk : disk' = disk \ {e}
                          /\ sweep' = [sweep EXCEPT !.todo = @ \ {e}, !.freed = @ + 1]
    BY <1>9 DEF SweepRemove
  <2>2. sweep'.freed = sweep.freed + 1
    BY <2>1
  <2>3. /\ Cardinality(disk) \in Nat /\ Cardinality(Uncounted) \in Nat
        /\ Cardinality(disk') = Cardinality(disk) - 1
    BY <2>1, UncountedFinite, FS_RemoveElement, FS_CardinalityType
  <2>4. Uncounted' = Uncounted /\ gauge' = gauge /\ seed' = seed
    BY <1>9 DEF SweepRemove, Uncounted
  <2> QED
    BY <2>2, <2>3, <2>4
<1>10. CASE SweepEnd
  <2>1. /\ gauge' = gauge - sweep.freed /\ sweep'.freed = 0 /\ disk' = disk /\ seed' = seed
        /\ Uncounted' = Uncounted
    BY <1>10 DEF SweepEnd, Uncounted
  <2>2. Cardinality(disk) \in Nat /\ Cardinality(Uncounted) \in Nat /\ sweep.freed \in Nat
    BY UncountedFinite, FS_CardinalityType
  <2> QED
    BY <2>1, <2>2
<1>11. ASSUME NEW r \in Request, Arrive(r) \/ Finish(r) PROVE GaugeExact'
  <2>1. \A q \in Request : req'[q].new = req[q].new
    BY <1>11 DEF Arrive, Finish
  <2>2. Uncounted' = Uncounted
    BY <2>1 DEF Uncounted
  <2> QED
    BY <1>1, <1>11, <2>2 DEF Arrive, Finish
<1>12. ASSUME NEW r \in Request, Rename(r) PROVE GaugeExact'
  <2>1. PICK e \in Entry :
          /\ disk' = disk \cup {e}
          /\ req' = [req EXCEPT ![r] = [pc |-> "renamed", new |-> IF e \in disk THEN 0 ELSE 1]]
    BY <1>12 DEF Rename
  <2>2. r \notin Uncounted
    BY <1>12 DEF Rename, Pending, Uncounted
  <2>3. gauge' = gauge /\ sweep' = sweep /\ seed' = seed
    BY <1>12 DEF Rename
  <2>4. CASE e \in disk
    <3>1. disk' = disk /\ Uncounted' = Uncounted
      BY <2>1, <2>2, <2>4 DEF Uncounted
    <3> QED
      BY <1>1, <2>3, <3>1
  <2>5. CASE e \notin disk
    <3>1. Uncounted' = Uncounted \cup {r}
      BY <2>1, <2>5 DEF Uncounted
    <3>2. /\ Cardinality(disk) \in Nat /\ Cardinality(Uncounted) \in Nat
          /\ Cardinality(disk') = Cardinality(disk) + 1
          /\ Cardinality(Uncounted') = Cardinality(Uncounted) + 1
      BY <2>1, <2>2, <2>5, <3>1, UncountedFinite, FS_AddElement, FS_CardinalityType
    <3> QED
      BY <2>3, <3>2
  <2> QED
    BY <2>4, <2>5
<1>13. ASSUME NEW r \in Request, Account(r) PROVE GaugeExact'
  <2>1. gauge' = gauge + req[r].new /\ disk' = disk /\ sweep' = sweep /\ seed' = seed
    BY <1>13 DEF Account
  <2>2. Uncounted' = Uncounted \ {r}
    BY <1>13 DEF Account, Uncounted
  <2>3. Cardinality(disk) \in Nat /\ Cardinality(Uncounted) \in Nat
    BY UncountedFinite, FS_CardinalityType
  <2>4. CASE req[r].new = 1
    <3>1. Cardinality(Uncounted') = Cardinality(Uncounted) - 1
      <4>1. r \in Uncounted
        BY <2>4 DEF Uncounted
      <4> QED
        BY <2>2, <4>1, UncountedFinite, FS_RemoveElement
    <3>2. Cardinality(disk') = Cardinality(disk)
      BY <2>1
    <3> QED
      BY <2>1, <2>3, <2>4, <3>1, <3>2
  <2>5. CASE req[r].new = 0
    <3>1. Uncounted' = Uncounted
      BY <2>2, <2>5 DEF Uncounted
    <3> QED
      BY <2>1, <2>3, <2>5, <3>1
  <2> QED
    BY <2>4, <2>5
<1> QED
  BY <1>2, <1>3, <1>4, <1>5, <1>6, <1>7, <1>8, <1>9, <1>10, <1>11, <1>12, <1>13 DEF Next, Main

\* The seed overwrites no commit's and no sweep's change (main.go:51-54, 89-90).
THEOREM SeedIsSafe == Spec => []GaugeExact
<1>1. Init => GaugeExact
  BY DEF Init, GaugeExact
<1> QED
  BY <1>1, InvStart, InvStep, GaugeStep, PTL DEF Spec

-----------------------------------------------------------------------------
LEMMA GraceStep == ASSUME Inv, DrainGraceful, [Next]_vars PROVE DrainGraceful'
<1> USE DEF Inv, TypeOK, DrainGraceful, Active, Request, config, cache, servers, Exit, Running
<1>1. CASE UNCHANGED vars
  BY <1>1 DEF vars
<1>2. CASE Load \/ Setup \/ Signal
  <2>1. pc' = "exited" => req = [r \in Request |-> Free] /\ req' = req
    BY <1>2 DEF Load, Setup, Signal, SeedFirst, Early, Unserved
  <2>2. (pc' = "exited" /\ pc # "exited") => Active(Request)' = {}
    BY <2>1 DEF Free
  <2>3. pc # "exited"
    BY <1>2 DEF Load, Setup, Signal
  <2> QED
    BY <2>2, <2>3
<1>3. CASE DrainAdmin
  BY <1>3 DEF DrainAdmin, DeadlinePassed, Drained
<1>4. CASE Serve \/ Stop \/ DrainPublic
  BY <1>4 DEF Serve, Stop, DrainPublic
<1>5. CASE SeedVisit \/ SeedSet \/ Tick \/ SweepBegin \/ SweepRemove \/ SweepEnd \/ SweepStop
  BY <1>5 DEF SeedVisit, SeedSet, Tick, SweepBegin, SweepRemove, SweepEnd, SweepStop
<1>6. CASE \E l \in Listener : Bind(l) \/ Fail(l) \/ Report(l)
  BY <1>6 DEF Bind, Fail, Report
<1>7. CASE \E r \in Request : Arrive(r) \/ Rename(r) \/ Account(r) \/ Finish(r)
  BY <1>7 DEF Arrive, Rename, Account, Finish
<1> QED
  BY <1>1, <1>2, <1>3, <1>4, <1>5, <1>6, <1>7 DEF Next, Main

\* A process that exits before the grace is over leaves no request behind, to
\* whichever listener it came and whichever of the two was drained first
\* (server.go:82-87).
THEOREM DrainIsGraceful == Spec => []DrainGraceful
<1>1. Init => DrainGraceful
  BY DEF Init, DrainGraceful
<1> QED
  BY <1>1, InvStart, InvStep, GraceStep, PTL DEF Spec

-----------------------------------------------------------------------------
LEMMA TokenStep == ASSUME TypeOK, NeverUnauthenticated, [Next]_vars PROVE NeverUnauthenticated'
<1> USE DEF NeverUnauthenticated, config, Exit, Running
<1>1. CASE Load
  BY <1>1 DEF Load, loadSecret, validate, FromEnv, TypeOK, Settings
<1>2. CASE UNCHANGED config /\ (pc \in {"load", "exited"} => pc' \in {"load", "exited"})
  BY <1>2
<1>3. CASE UNCHANGED vars
  BY <1>3 DEF vars
<1>4. CASE Setup \/ Serve \/ Stop \/ DrainPublic \/ DrainAdmin \/ Signal
  BY <1>2, <1>4 DEF Setup, Serve, Stop, DrainPublic, DrainAdmin, Signal
<1>5. CASE SeedVisit \/ SeedSet \/ Tick \/ SweepBegin \/ SweepRemove \/ SweepEnd \/ SweepStop
  BY <1>2, <1>5 DEF SeedVisit, SeedSet, Tick, SweepBegin, SweepRemove, SweepEnd, SweepStop
<1>6. CASE \E l \in Listener : Bind(l) \/ Fail(l) \/ Report(l)
  BY <1>2, <1>6 DEF Bind, Fail, Report
<1>7. CASE \E r \in Request : Arrive(r) \/ Rename(r) \/ Account(r) \/ Finish(r)
  BY <1>2, <1>7 DEF Arrive, Rename, Account, Finish
<1> QED
  BY <1>1, <1>3, <1>4, <1>5, <1>6, <1>7 DEF Next, Main

\* However it is configured, the daemon runs on the secret file it was given and
\* asks Sentry with a token, or does not run (config.go:110-114).
THEOREM NeverRunsUnauthenticated == Spec => []NeverUnauthenticated
<1>1. Init => NeverUnauthenticated
  BY DEF Init, NeverUnauthenticated
<1>2. Inv => TypeOK
  BY DEF Inv
<1> QED
  BY <1>1, <1>2, InvStart, InvStep, TokenStep, PTL DEF Spec
=============================================================================
