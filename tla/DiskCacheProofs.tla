--------------------------- MODULE DiskCacheProofs ---------------------------
(***************************************************************************)
(* What TLAPS proves of DiskCache, for every set of entries, requests and   *)
(* staging names, every clock bound and every number of crashes.            *)
(***************************************************************************)
EXTENDS DiskCache, TLAPS

USE DEF Path, NoPrior, At, KeyOf, File0

\* What an idle request looks like, and that a reset request is one.
LEMMA IdleType == Idle \in Client /\ Idle.pc = "idle"
BY DEF Idle, Record, Client, PC, PostMiss, Leading

\* The steps at which a producer notes a name, a size or what os.Stat saw, and
\* that a request keeps its type when it does.
LEMMA LeadingPC == Leading \subseteq PC /\ {"fetch", "sync", "rename", "account"} \subseteq Leading
BY DEF PC, PostMiss, Leading

LEMMA FieldsType ==
  ASSUME NEW c \in Client, NEW pc \in Leading, NEW n \in Name \cup {None},
         NEW s \in Nat, NEW prior \in Nat \cup {NoPrior}
  PROVE  /\ [c EXCEPT !.pc = pc, !.name = n] \in Client
         /\ [c EXCEPT !.pc = pc, !.size = s] \in Client
         /\ [c EXCEPT !.pc = pc, !.prior = prior] \in Client
BY LeadingPC DEF Client

\* A sweeper at rest is well-typed.
LEMMA QuietType == MaxUnused \in Int => Quiet \in SweepType
BY DEF Quiet, SweepType

\* The empty cache is well-typed.
LEMMA TypeInit == Init => TypeOK
<1> SUFFICES ASSUME Init PROVE TypeOK
  OBVIOUS
<1>1. client \in [Proc -> Client]
  BY IdleType DEF Init
<1>2. sw \in SweepType
  BY DEF Init, Quiet, SweepType
<1> QED
  BY <1>1, <1>2 DEF Init, TypeOK

\* Ending a flight (produceOnce returns) keeps requests and flights well-typed.
LEMMA EndFlightType ==
  ASSUME TypeOK, NEW p \in Proc, NEW ok \in BOOLEAN,
         EndFlight(p, ok)
  PROVE  client' \in [Proc -> Client] /\ flight' \in [Key -> Proc \cup {None}]
<1>1. flight' \in [Key -> Proc \cup {None}]
  BY DEF TypeOK, EndFlight
<1>2. ASSUME NEW q \in Proc
      PROVE  Record("reopen", KeyOf(p), client[q].since, None) \in Client
  BY DEF TypeOK, Record, Client, PC, PostMiss
<1> QED
  BY <1>1, <1>2, IdleType DEF TypeOK, EndFlight

\* Moving one request to another step keeps the requests well-typed.
LEMMA StepType ==
  ASSUME TypeOK, NEW p \in Proc, NEW pc \in PC, Step(p, pc)
  PROVE  client' \in [Proc -> Client]
BY DEF TypeOK, Step, Client

\* The ways a step writes to the disk.
LEMMA WriteType ==
  ASSUME TypeOK, NEW x \in Path, NEW f \in File
  PROVE  With(x, f) \in [Path -> File \cup {None}]
BY DEF With, TypeOK

\* Removing a path keeps the disk well-typed.
LEMMA UnlinkType ==
  ASSUME TypeOK, NEW x
  PROVE  Without(x) \in [Path -> File \cup {None}]
BY DEF Without, TypeOK

\* So does touching one.
LEMMA TouchType ==
  ASSUME TypeOK, NEW x \in Path
  PROVE  Touched(x) \in [Path -> File \cup {None}]
<1>1. CASE Exists(x)
  <2>1. disk[x] \in File
    BY <1>1 DEF Exists, TypeOK
  <2>2. [disk[x] EXCEPT !.mtime = now] \in File
    BY <2>1 DEF File, TypeOK
  <2> QED
    BY <1>1, <2>2 DEF Touched, TypeOK
<1>2. CASE ~Exists(x)
  BY <1>2 DEF Touched, TypeOK
<1> QED
  BY <1>1, <1>2

\* What CreateTemp makes, and what a completed fetch leaves, are files.
LEMMA EmptyType ==
  ASSUME TypeOK
  PROVE  /\ Empty \in File
         /\ \A s \in Nat : [Empty EXCEPT !.size = s, !.whole = TRUE] \in File
BY DEF Empty, File, TypeOK

\* What os.Stat reports of an entry is a size, or that there is none.
LEMMA SeenType ==
  ASSUME TypeOK, NEW k \in Key
  PROVE  Seen(k) \subseteq Nat \cup {NoPrior}
<1>1. Exists(k) => disk[k] \in File
  BY DEF TypeOK, Exists
<1> QED
  BY <1>1 DEF Seen, File

\* The types and the shapes are inductive together.
TypeInv == TypeOK /\ Shapes

\* Every disjunct of Request(p), spelled out once for the proofs by cases.
LEMMA TypeRequest ==
  ASSUME TypeInv, NEW p \in Proc, Request(p)
  PROVE  TypeOK'
<1> USE DEF TypeInv, Shapes
<1>1. CASE \E k \in Key : LookupHit(p, k) \/ LookupMiss(p, k)
  <2>1. ASSUME NEW k \in Key, NEW pc \in {"touch", "missed"}
        PROVE  Record(pc, k, now, None) \in Client
    BY DEF TypeOK, Record, Client, PC, PostMiss
  <2> QED
    BY <1>1, <2>1 DEF LookupHit, LookupMiss, TypeOK
<1>2. CASE Touch(p)
  BY <1>2, IdleType, TouchType DEF Touch, TypeOK
<1>3. CASE Lead(p)
  BY <1>3, StepType DEF Lead, TypeOK, PC, PostMiss, Leading
<1>4. CASE Join(p)
  BY <1>4, StepType DEF Join, TypeOK, PC, PostMiss
<1>5. CASE ResolveFails(p)
  BY <1>5, EndFlightType DEF ResolveFails, TypeOK
<1>6. CASE NewTemp(p)
  <2>1. PICK n \in Name :
          /\ disk' = With(n, Empty)
          /\ client' = [client EXCEPT ![p] = [@ EXCEPT !.pc = "fetch", !.name = n]]
    BY <1>6 DEF NewTemp
  <2>2. [client[p] EXCEPT !.pc = "fetch", !.name = n] \in Client
    BY LeadingPC, FieldsType DEF TypeOK
  <2> QED
    BY <1>6, <2>1, <2>2, WriteType, EmptyType DEF NewTemp, TypeOK
<1>7. CASE FetchChunk(p)
  BY <1>7, TouchType DEF FetchChunk, TypeOK, Staging
<1>8. CASE FetchDone(p)
  <2>1. PICK s \in Sizes :
          /\ disk' = IF Exists(File0(p))
                     THEN With(File0(p), [Empty EXCEPT !.size = s, !.whole = TRUE])
                     ELSE disk
          /\ client' = [client EXCEPT ![p] = [@ EXCEPT !.pc = "sync", !.size = s]]
    BY <1>8 DEF FetchDone
  <2>2. s \in Nat /\ File0(p) \in Path
    BY <1>8, SizeAssumption DEF FetchDone, Staging
  <2>3. [client[p] EXCEPT !.pc = "sync", !.size = s] \in Client
    BY <2>2, LeadingPC, FieldsType DEF TypeOK
  <2>4. disk' \in [Path -> File \cup {None}]
    BY <2>1, <2>2, WriteType, EmptyType DEF TypeOK
  <2> QED
    BY <1>8, <2>1, <2>3, <2>4 DEF FetchDone, TypeOK
<1>9. CASE Sync(p)
  <2>1. disk' \in [Path -> File \cup {None}]
    <3>1. CASE Exists(File0(p))
      <4>1. disk[File0(p)] \in File
        BY <1>9, <3>1 DEF Sync, Exists, Staging, TypeOK
      <4>2. [disk[File0(p)] EXCEPT !.synced = TRUE] \in File
        BY <4>1 DEF File
      <4> QED
        BY <1>9, <3>1, <4>2 DEF Sync, TypeOK
    <3>2. CASE ~Exists(File0(p))
      BY <1>9, <3>2 DEF Sync, TypeOK
    <3> QED
      BY <3>1, <3>2
  <2> QED
    BY <1>9, <2>1, StepType DEF Sync, TypeOK, PC, PostMiss, Leading
<1>10. CASE MkdirAll(p)
  BY <1>10, StepType, DirAssumption
     DEF MkdirAll, At, TypeOK, PC, PostMiss, Leading
<1>11. CASE StatFinal(p)
  <2>1. PICK s \in Seen(KeyOf(p)) :
          client' = [client EXCEPT ![p] = [@ EXCEPT !.pc = "rename", !.prior = s]]
    BY <1>11 DEF StatFinal
  <2>2. KeyOf(p) \in Key
    BY <1>11 DEF StatFinal, PostMiss, Leading
  <2>3. [client[p] EXCEPT !.pc = "rename", !.prior = s] \in Client
    BY <2>2, SeenType, LeadingPC, FieldsType DEF TypeOK
  <2> QED
    BY <1>11, <2>1, <2>3 DEF StatFinal, TypeOK
<1>12. CASE Rename(p)
  <2>1. disk[File0(p)] \in File \cup {None}
    BY <1>12 DEF Rename, At, TypeOK, Staging
  <2>2. [client[p] EXCEPT !.pc = "account", !.name = None] \in Client
    BY LeadingPC, FieldsType DEF TypeOK
  <2> QED
    BY <1>12, <2>1, <2>2 DEF Rename, TypeOK
<1>13. CASE RenameFails(p)
  BY <1>13, StepType DEF RenameFails, TypeOK, PC, PostMiss, Leading
<1>14. CASE Account(p)
  BY <1>14, EndFlightType DEF Account, TypeOK
<1>15. CASE IoFails(p)
  BY <1>15, StepType DEF IoFails, TypeOK, PC, PostMiss, Leading
<1>16. CASE Cleanup(p)
  BY <1>16, EndFlightType, UnlinkType DEF Cleanup, Removed, TypeOK
<1>17. CASE ReopenHit(p)
  BY <1>17, StepType DEF ReopenHit, TypeOK, PC
<1>18. CASE ReopenMiss(p)
  BY <1>18, StepType DEF ReopenMiss, TypeOK, PC, PostMiss
<1>19. CASE Answer(p)
  BY <1>19, IdleType DEF Answer, TypeOK
<1>20. CASE ProbeStart(p)
  <2>1. PICK n \in Name :
          /\ disk' = With(n, Empty)
          /\ client' = [client EXCEPT ![p] = Record("probe", None, now, n)]
    BY <1>20 DEF ProbeStart
  <2>2. Record("probe", None, now, n) \in Client
    BY DEF TypeOK, Record, Client, PC
  <2> QED
    BY <1>20, <2>1, <2>2, WriteType, EmptyType DEF ProbeStart, TypeOK
<1>21. CASE ProbeEnd(p)
  BY <1>21, IdleType, UnlinkType DEF ProbeEnd, Removed, TypeOK
<1> QED
  BY <1>1, <1>2, <1>3, <1>4, <1>5, <1>6, <1>7, <1>8, <1>9, <1>10, <1>11, <1>12,
     <1>13, <1>14, <1>15, <1>16, <1>17, <1>18, <1>19, <1>20, <1>21
     DEF Request, Produce, Commit

\* The eviction sweeper preserves the types.
LEMMA TypeSweep ==
  ASSUME TypeInv, Sweep
  PROVE  TypeOK'
<1> USE TimeAssumption DEF TypeInv, SweepType
<1>1. CASE SweepBegin
  <2>1. [Quiet EXCEPT !.pc = "walk", !.cutoff = Cutoff, !.due = dirs \cup {Tmp}]
          \in SweepType
    <3>1. Cutoff \in Int /\ dirs \cup {Tmp} \in SUBSET (Dir \cup {Tmp})
      BY DEF Cutoff, TypeOK
    <3> QED
      BY <3>1, QuietType
  <2> QED
    BY <1>1, <2>1 DEF SweepBegin, TypeOK
<1>2. CASE \E d \in dirs \cup {Tmp} : SweepReadDir(d)
  <2>1. PICK d \in dirs \cup {Tmp} : SweepReadDir(d)
    BY <1>2
  <2>2. [sw EXCEPT !.names = {x \in Path : Exists(x) /\ Home(x) = d},
                   !.seen = @ \cup {d}] \in SweepType
    BY DEF TypeOK
  <2> QED
    BY <2>1, <2>2 DEF SweepReadDir, TypeOK
<1>3. CASE \E x \in Path : SweepVisit(x)
  <2>1. PICK x \in Path : SweepVisit(x)
    BY <1>3
  <2>2. Stale(x) => disk[x].size \in Nat
    BY DEF Stale, Exists, TypeOK, File
  <2> QED
    BY <2>1, <2>2 DEF SweepVisit, TypeOK
<1>4. CASE SweepRemove
  <2>1. sw' \in SweepType
    <3>1. /\ (IF Frees(sw.cand) THEN sw.freed + 1 ELSE sw.freed) \in Nat
          /\ (IF Frees(sw.cand) THEN sw.freedBytes + sw.candSize
              ELSE sw.freedBytes) \in Nat
      BY DEF TypeOK
    <3> QED
      BY <1>4, <3>1 DEF SweepRemove, TypeOK
  <2> QED
    BY <1>4, <2>1, UnlinkType DEF SweepRemove, TypeOK
<1>5. CASE SweepWalked
  BY <1>5 DEF SweepWalked, TypeOK
<1>6. CASE SweepWalkFails
  BY <1>6, QuietType DEF SweepWalkFails, TypeOK
<1>7. CASE \E d \in Dir : SweepPrune(d)
  BY <1>7 DEF SweepPrune, TypeOK
<1>8. CASE SweepEnd
  BY <1>8, QuietType DEF SweepEnd, TypeOK
<1>9. CASE SweepRemoveFails
  BY <1>9 DEF SweepRemoveFails, TypeOK
<1> QED
  BY <1>1, <1>2, <1>3, <1>4, <1>5, <1>6, <1>7, <1>8, <1>9 DEF Sweep

\* So do the clock, crashes and restarts.
LEMMA TypeRest ==
  ASSUME TypeInv, Tick \/ Crash \/ Boot \/ UNCHANGED vars
  PROVE  TypeOK'
<1> USE DEF TypeInv
<1>1. CASE Tick
  BY <1>1 DEF Tick, TypeOK
<1>2. CASE Crash
  <2>1. disk' \in [Path -> File \cup {None}]
    <3>1. PICK torn \in SUBSET {x \in Path : Exists(x) /\ ~disk[x].synced} :
            disk' = [x \in Path |-> IF x \in torn
                                    THEN [disk[x] EXCEPT !.whole = FALSE]
                                    ELSE disk[x]]
      BY <1>2 DEF Crash
    <3>2. ASSUME NEW x \in torn
          PROVE  [disk[x] EXCEPT !.whole = FALSE] \in File
      <4>1. disk[x] \in File
        BY DEF Exists, TypeOK
      <4> QED
        BY <4>1 DEF File
    <3> QED
      BY <3>1, <3>2 DEF TypeOK
  <2> QED
    <3>1. client' \in [Proc -> Client] /\ flight' \in [Key -> Proc \cup {None}]
      BY <1>2, IdleType DEF Crash
    <3>2. sw' \in SweepType /\ up' \in BOOLEAN
      BY <1>2, QuietType, TimeAssumption DEF Crash
    <3>3. now' \in Nat /\ dirs' \in SUBSET Dir /\ crashes' \in Nat
      BY <1>2 DEF Crash, TypeOK
    <3> QED
      BY <2>1, <3>1, <3>2, <3>3 DEF TypeOK
<1>3. CASE Boot
  BY <1>3 DEF Boot, TypeOK
<1>4. CASE UNCHANGED vars
  BY <1>4 DEF vars, TypeOK
<1> QED
  BY <1>1, <1>2, <1>3, <1>4

-----------------------------------------------------------------------------
(* How one step moves the requests.  Most steps move one request and leave   *)
(* its key and its start alone; the end of a flight moves all who are on it. *)

\* A step of one request changes nothing about it, or another, but where it is.
LEMMA StepEffect ==
  ASSUME TypeOK, NEW p \in Proc, NEW pc \in PC, Step(p, pc), NEW q \in Proc
  PROVE  /\ client'[q].key = client[q].key
         /\ client'[q].since = client[q].since
         /\ client'[q].name = client[q].name
         /\ client'[q].pc = IF q = p THEN pc ELSE client[q].pc
BY DEF TypeOK, Step, Client

\* The steps that do no more than that.
LEMMA MoveEffect ==
  ASSUME TypeOK, NEW p \in Proc, NEW q \in Proc,
         Lead(p) \/ Join(p) \/ Sync(p) \/ MkdirAll(p) \/ RenameFails(p)
           \/ IoFails(p) \/ ReopenHit(p) \/ ReopenMiss(p)
  PROVE  /\ now' = now
         /\ client'[q].key = client[q].key
         /\ client'[q].since = client[q].since
         /\ client'[q].name = client[q].name
         /\ q # p => client'[q].pc = client[q].pc
         /\ \/ client[p].pc = "missed" /\ client'[p].pc \in {"resolve", "wait"}
            \/ client[p].pc = "sync" /\ client'[p].pc = "mkdir"
            \/ client[p].pc = "mkdir" /\ client'[p].pc = "stat"
            \/ client[p].pc \in {"fetch", "sync", "mkdir", "rename"} /\ client'[p].pc = "cleanup"
            \/ client[p].pc = "reopen" /\ client'[p].pc \in {"touch", "nil"}
<1>1. CASE Lead(p) \/ Join(p)
  BY <1>1, StepEffect DEF Lead, Join, PC, PostMiss, Leading
<1>2. CASE Sync(p) \/ MkdirAll(p)
  BY <1>2, StepEffect DEF Sync, MkdirAll, PC, PostMiss, Leading
<1>3. CASE RenameFails(p) \/ IoFails(p)
  BY <1>3, StepEffect DEF RenameFails, IoFails, PC, PostMiss, Leading
<1>4. CASE ReopenHit(p) \/ ReopenMiss(p)
  BY <1>4, StepEffect DEF ReopenHit, ReopenMiss, PC, PostMiss, Leading
<1> QED
  BY <1>1, <1>2, <1>3, <1>4

\* The end of a flight sends its producer and followers to the re-open, or away,
\* and leaves the others where they are.
LEMMA EndFlightEffect ==
  ASSUME TypeOK, NEW p \in Proc, NEW ok \in BOOLEAN, EndFlight(p, ok),
         NEW q \in Proc
  PROVE  IF q \notin OnFlight(p) THEN client'[q] = client[q]
         ELSE IF ok THEN /\ client'[q].pc = "reopen"
                         /\ client'[q].key = KeyOf(p)
                         /\ client'[q].since = client[q].since
         ELSE client'[q].pc = "idle"
BY DEF EndFlight, Idle, Record

\* One request gets a new record.
LEMMA SetEffect ==
  ASSUME TypeOK, NEW p \in Proc, NEW c, client' = [client EXCEPT ![p] = c],
         NEW q \in Proc
  PROVE  client'[q] = IF q = p THEN c ELSE client[q]
BY DEF TypeOK

\* The steps that also note a name, a size or what os.Stat saw.
LEMMA FieldsEffect ==
  ASSUME TypeOK, NEW p \in Proc, NEW q \in Proc,
         NewTemp(p) \/ FetchDone(p) \/ StatFinal(p) \/ Rename(p)
  PROVE  /\ client'[q].key = client[q].key
         /\ client'[q].since = client[q].since
         /\ q # p => client'[q] = client[q]
         /\ NewTemp(p) => /\ client[p].pc = "resolve" /\ client'[p].pc = "fetch"
                          /\ client'[p].name \in Name
                          /\ FreeName(client'[p].name)
                          /\ disk' = With(client'[p].name, Empty)
         /\ FetchDone(p) => /\ client[p].pc = "fetch" /\ client'[p].pc = "sync"
                            /\ client'[p].name = File0(p)
         /\ StatFinal(p) => /\ client[p].pc = "stat" /\ client'[p].pc = "rename"
                            /\ client'[p].name = File0(p)
         /\ Rename(p) => client[p].pc = "rename" /\ client'[p].pc = "account"
<1>0. client[p] \in Client
  BY DEF TypeOK
<1>a. /\ NewTemp(p) => client[p].pc = "resolve"
      /\ FetchDone(p) => client[p].pc = "fetch"
      /\ StatFinal(p) => client[p].pc = "stat"
      /\ Rename(p) => client[p].pc = "rename"
  BY DEF NewTemp, FetchDone, StatFinal, Rename
<1>1. CASE NewTemp(p)
  <2>1. PICK n \in Name :
          /\ FreeName(n)
          /\ disk' = With(n, Empty)
          /\ client' = [client EXCEPT ![p] = [@ EXCEPT !.pc = "fetch", !.name = n]]
    BY <1>1 DEF NewTemp
  <2>2. LET c == [client[p] EXCEPT !.pc = "fetch", !.name = n]
        IN  c.pc = "fetch" /\ c.name = n /\ c.key = client[p].key
            /\ c.since = client[p].since
    BY <1>0 DEF Client
  <2>3. \A r \in Proc : client'[r] = IF r = p
          THEN [client[p] EXCEPT !.pc = "fetch", !.name = n] ELSE client[r]
    BY <2>1 DEF TypeOK
  <2> QED
    BY <1>a, <1>1, <2>1, <2>2, <2>3
<1>2. CASE FetchDone(p)
  <2>1. PICK s \in Sizes :
          client' = [client EXCEPT ![p] = [@ EXCEPT !.pc = "sync", !.size = s]]
    BY <1>2 DEF FetchDone
  <2>2. LET c == [client[p] EXCEPT !.pc = "sync", !.size = s]
        IN  c.pc = "sync" /\ c.name = client[p].name /\ c.key = client[p].key
            /\ c.since = client[p].since
    BY <1>0 DEF Client
  <2>3. \A r \in Proc : client'[r] = IF r = p
          THEN [client[p] EXCEPT !.pc = "sync", !.size = s] ELSE client[r]
    BY <2>1 DEF TypeOK
  <2> QED
    BY <1>a, <1>2, <2>1, <2>2, <2>3
<1>3. CASE StatFinal(p)
  <2>1. PICK s : client' = [client EXCEPT ![p] =
                              [@ EXCEPT !.pc = "rename", !.prior = s]]
    BY <1>3 DEF StatFinal
  <2>2. LET c == [client[p] EXCEPT !.pc = "rename", !.prior = s]
        IN  c.pc = "rename" /\ c.name = client[p].name /\ c.key = client[p].key
            /\ c.since = client[p].since
    BY <1>0 DEF Client
  <2>3. \A r \in Proc : client'[r] = IF r = p
          THEN [client[p] EXCEPT !.pc = "rename", !.prior = s] ELSE client[r]
    BY <2>1 DEF TypeOK
  <2> QED
    BY <1>a, <1>3, <2>1, <2>2, <2>3
<1>4. CASE Rename(p)
  <2>1. LET c == [client[p] EXCEPT !.pc = "account", !.name = None]
        IN  c.pc = "account" /\ c.key = client[p].key /\ c.since = client[p].since
    BY <1>0 DEF Client
  <2>2. client' = [client EXCEPT ![p] = [@ EXCEPT !.pc = "account", !.name = None]]
    BY <1>4 DEF Rename
  <2>3. \A r \in Proc : client'[r] = IF r = p
          THEN [client[p] EXCEPT !.pc = "account", !.name = None] ELSE client[r]
    BY <2>2 DEF TypeOK
  <2> QED
    BY <1>a, <1>4, <2>1, <2>2, <2>3
<1> QED
  BY <1>1, <1>2, <1>3, <1>4

\* A request that needs a key or a staging name has one: requests.
LEMMA ShapesRequest ==
  ASSUME TypeInv, NEW p \in Proc, Request(p)
  PROVE  Shapes'
<1> USE DEF TypeInv, Shapes, PostMiss, Leading, Staging
<1>1. CASE \E k \in Key : LookupHit(p, k) \/ LookupMiss(p, k)
  BY <1>1, SetEffect DEF LookupHit, LookupMiss, Record
<1>2. CASE Touch(p) \/ Answer(p) \/ ProbeEnd(p)
  BY <1>2, SetEffect, IdleType DEF Touch, Answer, ProbeEnd
<1>3. CASE Lead(p) \/ Join(p) \/ Sync(p) \/ MkdirAll(p) \/ RenameFails(p)
           \/ IoFails(p) \/ ReopenHit(p) \/ ReopenMiss(p)
  BY <1>3, MoveEffect
<1>4. CASE ResolveFails(p) \/ Account(p) \/ Cleanup(p)
  <2>0. PICK ok \in BOOLEAN : EndFlight(p, ok)
    BY <1>4 DEF ResolveFails, Account, Cleanup
  <2>1. client[p].pc \in Leading
    BY <1>4 DEF ResolveFails, Account, Cleanup
  <2>2. ASSUME NEW q \in Proc
        PROVE  \/ client'[q] = client[q]
               \/ client'[q].pc = "reopen" /\ client'[q].key = KeyOf(p)
               \/ client'[q].pc = "idle"
    BY <2>0, EndFlightEffect
  <2>3. KeyOf(p) \in Key
    BY <2>1
  <2>4. ASSUME NEW q \in Proc
        PROVE  /\ client'[q].pc \in PostMiss \cup {"touch"} => client'[q].key \in Key
               /\ client'[q].pc \in Staging => client'[q].name \in Name
    <3>1. CASE client'[q] = client[q]
      BY <3>1
    <3>2. CASE client'[q].pc = "reopen" /\ client'[q].key = KeyOf(p)
      BY <2>3, <3>2
    <3>3. CASE client'[q].pc = "idle"
      BY <3>3
    <3> QED
      BY <2>2, <3>1, <3>2, <3>3
  <2> QED
    BY <2>4
<1>5. CASE NewTemp(p) \/ FetchDone(p) \/ StatFinal(p) \/ Rename(p)
  BY <1>5, FieldsEffect
<1>7. CASE FetchChunk(p)
  BY <1>7 DEF FetchChunk
<1>6. CASE ProbeStart(p)
  BY <1>6, SetEffect DEF ProbeStart, Record
<1> QED
  BY <1>1, <1>2, <1>3, <1>4, <1>5, <1>6, <1>7 DEF Request, Produce, Commit

\* The same, for every other step.
LEMMA ShapesRest ==
  ASSUME TypeInv, Sweep \/ Tick \/ Crash \/ Boot \/ UNCHANGED vars
  PROVE  Shapes'
<1> USE DEF TypeInv, Shapes, PostMiss, Leading, Staging
<1>1. CASE Crash
  BY <1>1, IdleType DEF Crash
<1>2. ASSUME ~Crash
      PROVE  UNCHANGED client
  BY <1>2 DEF Sweep, SweepBegin, SweepReadDir, SweepVisit, SweepRemove, SweepRemoveFails,
     SweepWalked, SweepWalkFails, SweepPrune, SweepEnd, Tick, Boot, vars
<1> QED
  BY <1>1, <1>2

\* Whatever requests, sweeps, crashes and restarts do, every variable keeps its
\* type: no entry without a file, no producer that is not a request
\* (diskcache/cache.go:19-20 "all state lives on the filesystem").
THEOREM TypeCorrect == Spec => []TypeOK
<1>1. Init => TypeInv
  BY TypeInit, IdleType DEF Init, TypeInv, Shapes, PostMiss, Leading, Staging
<1>2. TypeInv /\ [Next]_vars => TypeInv'
  <2> SUFFICES ASSUME TypeInv, [Next]_vars PROVE TypeInv'
    OBVIOUS
  <2> QED
    BY TypeRequest, TypeSweep, TypeRest, ShapesRequest, ShapesRest
       DEF Next, TypeInv
<1>3. TypeInv => TypeOK
  BY DEF TypeInv
<1> QED
  BY <1>1, <1>2, <1>3, PTL DEF Spec

-----------------------------------------------------------------------------
(* The inductive invariant, one conjunct at a time.  IInv is assumed whole:  *)
(* the conjuncts lean on each other.                                        *)

\* The invariant holds of the empty cache.
LEMMA InitIInv == Init => IInv
<1> SUFFICES ASSUME Init PROVE IInv
  OBVIOUS
<1>1. \A p \in Proc : client[p].pc = "idle"
  BY IdleType DEF Init
<1>2. sw.pc = "sleep" /\ sw.cand = None
  BY DEF Init, Quiet
<1>3. \A k \in Key : flight[k] = None
  BY DEF Init
<1> QED
  BY <1>1, <1>2, <1>3, TypeInit
     DEF IInv, Shapes, Ages, CutoffPast, Owns, StagingFresh, MissFresh, Flights,
         CandThere, SweepSparesInUse, ReopenHits, Live, PostMiss, Leading, Staging

\* A request's own steps do not make it older than Hold.
LEMMA AgesRequest ==
  ASSUME IInv, NEW p \in Proc, Request(p)
  PROVE  Ages'
<1> USE TimeAssumption DEF IInv, Ages, Live
<1>0. TypeOK /\ now \in Nat /\ \A q \in Proc : client[q].since \in Nat
  BY DEF TypeOK, Client
<1>1. CASE \E k \in Key : LookupHit(p, k) \/ LookupMiss(p, k)
  BY <1>0, <1>1, SetEffect DEF LookupHit, LookupMiss, Record
<1>2. CASE Touch(p) \/ Answer(p) \/ ProbeEnd(p)
  <2>1. client' = [client EXCEPT ![p] = Idle] /\ now' = now
    BY <1>2 DEF Touch, Answer, ProbeEnd
  <2> QED
    BY <1>0, <2>1, SetEffect, IdleType
<1>3. CASE Lead(p) \/ Join(p) \/ Sync(p) \/ MkdirAll(p) \/ RenameFails(p)
           \/ IoFails(p) \/ ReopenHit(p) \/ ReopenMiss(p)
  BY <1>0, <1>3, MoveEffect
<1>4. CASE ResolveFails(p) \/ Account(p) \/ Cleanup(p)
  BY <1>0, <1>4, EndFlightEffect DEF ResolveFails, Account, Cleanup, OnFlight
<1>5. CASE NewTemp(p) \/ FetchDone(p) \/ StatFinal(p) \/ Rename(p)
  <2>1. now' = now
    BY <1>5 DEF FetchDone, StatFinal, Rename, NewTemp
  <2> QED
    BY <1>0, <1>5, <2>1, FieldsEffect
<1>6. CASE ProbeStart(p)
  BY <1>0, <1>6, SetEffect DEF ProbeStart, Record
<1>7. CASE FetchChunk(p)
  BY <1>7 DEF FetchChunk
<1> QED
  BY <1>1, <1>2, <1>3, <1>4, <1>5, <1>6, <1>7 DEF Request, Produce, Commit

\* A name that is not on the disk is not the staging file of a live request: it
\* may not come again, or the sweeper spares what is in use.
Apart == NamesRecur => LiveStagingKept

\* So CreateTemp hands out no name that is in use.
LEMMA TakenName ==
  ASSUME Apart, NEW n \in Name, FreeName(n), NEW q \in Proc, client[q].pc \in Staging
  PROVE  File0(q) # n
<1>1. CASE NamesRecur
  BY <1>1 DEF Apart, LiveStagingKept, FreeName
<1>2. CASE ~NamesRecur
  BY <1>2 DEF FreeName
<1> QED
  BY <1>1, <1>2

\* CreateTemp's fresh names keep staging files apart.
LEMMA OwnsRequest ==
  ASSUME TypeInv, Owns, Apart, NEW p \in Proc, Request(p)
  PROVE  Owns'
<1> USE DEF TypeInv, Owns, Staging
<1>1. CASE \E k \in Key : LookupHit(p, k) \/ LookupMiss(p, k)
  BY <1>1, SetEffect DEF LookupHit, LookupMiss, Record
<1>2. CASE Touch(p) \/ Answer(p) \/ ProbeEnd(p)
  BY <1>2, SetEffect, IdleType DEF Touch, Answer, ProbeEnd
<1>3. CASE Lead(p) \/ Join(p) \/ Sync(p) \/ MkdirAll(p) \/ RenameFails(p)
           \/ IoFails(p) \/ ReopenHit(p) \/ ReopenMiss(p)
  BY <1>3, MoveEffect
<1>4. CASE ResolveFails(p) \/ Account(p) \/ Cleanup(p)
  <2>1. PICK ok \in BOOLEAN : EndFlight(p, ok)
    BY <1>4 DEF ResolveFails, Account, Cleanup
  <2>2. \A q \in Proc : client'[q].pc \in Staging => client'[q] = client[q]
    BY <2>1, EndFlightEffect
  <2> QED
    BY <2>2
<1>5. CASE NewTemp(p)
  <2>1. /\ client'[p].name \in Name /\ FreeName(client'[p].name)
        /\ \A q \in Proc : q # p => client'[q] = client[q]
    BY <1>5, FieldsEffect
  <2>2. \A q \in Proc : client[q].pc \in Staging => File0(q) # client'[p].name
    BY <2>1, TakenName
  <2> QED
    BY <2>1, <2>2
<1>6. CASE FetchDone(p) \/ StatFinal(p) \/ Rename(p)
  <2>1. /\ client[p].pc \in Staging
        /\ client'[p].pc \in Staging => client'[p].name = client[p].name
        /\ \A q \in Proc : q # p => client'[q] = client[q]
    BY <1>6, FieldsEffect DEF FetchDone, StatFinal, Rename
  <2> QED
    BY <2>1
<1>7. CASE ProbeStart(p)
  <2>1. PICK n \in Name :
          FreeName(n) /\ client' = [client EXCEPT ![p] = Record("probe", None, now, n)]
    BY <1>7 DEF ProbeStart
  <2>2. \A q \in Proc : client[q].pc \in Staging => File0(q) # n
    BY <2>1, TakenName
  <2> QED
    BY <2>1, <2>2, SetEffect DEF Record
<1>8. CASE FetchChunk(p)
  BY <1>8 DEF FetchChunk
<1> QED
  BY <1>1, <1>2, <1>3, <1>4, <1>5, <1>6, <1>7, <1>8
     DEF Request, Produce, Commit

\* group.Do and its return keep one producer for each flight.
LEMMA FlightsRequest ==
  ASSUME TypeInv, Flights, NEW p \in Proc, Request(p)
  PROVE  Flights'
<1> USE ProcAssumption DEF TypeInv, Flights, Leading, Shapes, PostMiss
<1>1. CASE \E k \in Key : LookupHit(p, k) \/ LookupMiss(p, k)
  BY <1>1, SetEffect DEF LookupHit, LookupMiss, Record, TypeOK
<1>2. CASE Touch(p) \/ Answer(p) \/ ProbeEnd(p)
  BY <1>2, SetEffect, IdleType DEF Touch, Answer, ProbeEnd, TypeOK
<1>3. CASE Lead(p)
  BY <1>3, StepEffect DEF Lead, PC, TypeOK
<1>4. CASE Join(p) \/ Sync(p) \/ MkdirAll(p) \/ RenameFails(p)
           \/ IoFails(p) \/ ReopenHit(p) \/ ReopenMiss(p)
  <2>1. /\ UNCHANGED flight
        /\ client[p].pc = "missed" => client'[p].pc = "wait" /\ flight[KeyOf(p)] # None
    <3>1. CASE Join(p)
      BY <3>1, StepEffect DEF Join, PC
    <3>2. CASE ~Join(p)
      BY <1>4, <3>2 DEF Sync, MkdirAll, RenameFails, IoFails, ReopenHit, ReopenMiss
    <3> QED
      BY <3>1, <3>2
  <2>2. \A q \in Proc : /\ client'[q].key = client[q].key
                        /\ q # p => client'[q].pc = client[q].pc
    BY <1>4, MoveEffect
  <2>3. /\ client'[p].pc \in Leading <=> client[p].pc \in Leading
        /\ client'[p].pc = "wait" => client[p].pc = "missed"
    BY <1>4, <2>1, MoveEffect
  <2> QED
    BY <2>1, <2>2, <2>3 DEF TypeOK
<1>5. CASE ResolveFails(p) \/ Account(p) \/ Cleanup(p)
  <2>1. PICK ok \in BOOLEAN : EndFlight(p, ok)
    BY <1>5 DEF ResolveFails, Account, Cleanup
  <2>2. /\ client[p].pc \in Leading /\ KeyOf(p) \in Key
        /\ flight' = [flight EXCEPT ![KeyOf(p)] = None]
    BY <1>5, <2>1 DEF ResolveFails, Account, Cleanup, EndFlight
  <2> QED
    BY <2>1, <2>2, EndFlightEffect DEF OnFlight, TypeOK
<1>6. CASE NewTemp(p) \/ FetchDone(p) \/ StatFinal(p) \/ Rename(p)
  <2>1. /\ client[p].pc \in Leading /\ client'[p].pc \in Leading
        /\ client'[p].key = client[p].key
        /\ \A q \in Proc : q # p => client'[q] = client[q]
    BY <1>6, FieldsEffect
  <2>2. UNCHANGED flight
    BY <1>6 DEF FetchDone, StatFinal, Rename, NewTemp
  <2> QED
    BY <2>1, <2>2 DEF TypeOK
<1>7. CASE ProbeStart(p)
  BY <1>7, SetEffect DEF ProbeStart, Record, TypeOK
<1>8. CASE FetchChunk(p)
  BY <1>8 DEF FetchChunk
<1> QED
  BY <1>1, <1>2, <1>3, <1>4, <1>5, <1>6, <1>7, <1>8
     DEF Request, Produce, Commit

-----------------------------------------------------------------------------
(* What one step of a request does to the disk, and where a request comes    *)
(* from that is past a miss or owns a staging file.                         *)

\* A request moves neither the clock nor the sweeper.
LEMMA RequestFrame ==
  ASSUME NEW p \in Proc, Request(p)
  PROVE  UNCHANGED <<now, sw, up, crashes>>
BY DEF Request, Produce, Commit, LookupHit, LookupMiss, Touch, Lead, Join,
   ResolveFails, NewTemp, FetchChunk, FetchDone, Sync, MkdirAll, StatFinal,
   Rename, RenameFails, Account, IoFails, Cleanup, ReopenHit, ReopenMiss,
   Answer, ProbeStart, ProbeEnd

\* A file that exists is a File.
LEMMA ExistsType ==
  ASSUME TypeOK, NEW x \in Path, Exists(x)
  PROVE  disk[x] \in File /\ disk[x].mtime \in Nat
BY DEF TypeOK, Exists, File

\* Touching a file leaves it there, stamped with the time.
LEMMA TouchEffect ==
  ASSUME TypeOK, NEW x \in Path, NEW y \in Path, disk' = Touched(x)
  PROVE  /\ y # x => disk'[y] = disk[y]
         /\ Exists(x) => Exists(x)' /\ disk'[x].mtime = now
         /\ ~Exists(x) => disk'[x] = disk[x]
<1>1. CASE Exists(x)
  <2>1. disk'[x] = [disk[x] EXCEPT !.mtime = now] /\ (y # x => disk'[y] = disk[y])
    BY <1>1 DEF Touched, TypeOK
  <2>2. [disk[x] EXCEPT !.mtime = now] \in File
        /\ [disk[x] EXCEPT !.mtime = now].mtime = now
    BY <1>1, ExistsType DEF File, TypeOK
  <2> QED
    BY <1>1, <2>1, <2>2, FileAssumption DEF Exists
<1>2. CASE ~Exists(x)
  BY <1>2 DEF Touched
<1> QED
  BY <1>1, <1>2

\* A step of a request writes to its own staging file, to a new one, or to the
\* entry it works for, which it leaves in place and no older than Hold.
LEMMA DiskEffect ==
  ASSUME IInv, NEW p \in Proc, Request(p), NEW x \in Path
  PROVE  \/ disk'[x] = disk[x]
         \/ x \in Name /\ x = File0(p) /\ client[p].pc \in Staging
         \/ x \in Name /\ ~Exists(x)
         \/ x \in Key /\ Exists(x)' /\ disk'[x].mtime >= now - Hold
<1> USE TimeAssumption, PathAssumption DEF IInv, Staging
<1>0. TypeOK /\ now \in Nat /\ client[p].since \in Nat
  BY DEF TypeOK, Client
<1>1. CASE UNCHANGED disk
  BY <1>1
<1>2. CASE Touch(p)
  <2>1. KeyOf(p) \in Key /\ disk' = Touched(KeyOf(p))
    BY <1>2 DEF Touch, Shapes
  <2> QED
    BY <1>0, <2>1, TouchEffect
<1>3. CASE NewTemp(p) \/ ProbeStart(p)
  BY <1>0, <1>3 DEF NewTemp, ProbeStart, With, FreeName, TypeOK
<1>4. CASE FetchChunk(p)
  <2>1. File0(p) \in Name /\ disk' = Touched(File0(p))
    BY <1>4 DEF FetchChunk, Shapes
  <2> QED
    BY <1>0, <1>4, <2>1, TouchEffect DEF FetchChunk
<1>5. CASE FetchDone(p) \/ Sync(p)
  <2>1. File0(p) \in Name /\ client[p].pc \in Staging
    BY <1>5 DEF FetchDone, Sync, Shapes
  <2>2. x # File0(p) => disk'[x] = disk[x]
    BY <1>0, <1>5 DEF FetchDone, Sync, With, TypeOK
  <2> QED
    BY <2>1, <2>2
<1>6. CASE Rename(p)
  <2>1. /\ KeyOf(p) \in Key /\ File0(p) \in Name /\ client[p].pc \in Staging
        /\ Exists(File0(p)) /\ disk[File0(p)].mtime >= client[p].since
    BY <1>6 DEF Rename, Shapes, PostMiss, Leading, StagingFresh
  <2>2. /\ disk'[KeyOf(p)] = disk[File0(p)]
        /\ x \notin {KeyOf(p), File0(p)} => disk'[x] = disk[x]
    BY <1>0, <1>6, <2>1 DEF Rename, TypeOK
  <2>3. disk'[KeyOf(p)] # None
    BY <2>1, <2>2 DEF Exists
  <2>4. now - client[p].since <= Hold
    BY <1>6 DEF Ages, Live, Rename
  <2>5. disk[File0(p)].mtime \in Nat
    BY <1>0, <2>1, ExistsType
  <2>6. disk'[KeyOf(p)].mtime >= now - Hold
    BY <1>0, <2>1, <2>2, <2>4, <2>5
  <2> QED
    BY <2>1, <2>2, <2>3, <2>6 DEF Exists
<1>7. CASE Cleanup(p) \/ ProbeEnd(p)
  BY <1>0, <1>7 DEF Cleanup, ProbeEnd, Removed, Without, TypeOK, Shapes
<1> QED
  BY <1>1, <1>2, <1>3, <1>4, <1>5, <1>6, <1>7
     DEF Request, Produce, Commit, LookupHit, LookupMiss, Lead, Join,
         ResolveFails, MkdirAll, StatFinal, RenameFails, Account, IoFails,
         ReopenHit, ReopenMiss, Answer

\* Whoever is past a miss was so before, for the same entry, or has just missed.
LEMMA PostMissBefore ==
  ASSUME IInv, NEW p \in Proc, Request(p), NEW q \in Proc,
         client'[q].pc \in PostMiss
  PROVE  /\ client'[q].key \in Key
         /\ \/ /\ client[q].pc \in PostMiss
               /\ client'[q].key = client[q].key
               /\ client'[q].since = client[q].since
            \/ ~Exists(client'[q].key) /\ UNCHANGED disk
<1> USE DEF IInv, Shapes, PostMiss, Leading
<1>1. CASE \E k \in Key : LookupHit(p, k) \/ LookupMiss(p, k)
  BY <1>1, SetEffect DEF LookupHit, LookupMiss, Record
<1>2. CASE Touch(p) \/ Answer(p) \/ ProbeEnd(p)
  BY <1>2, SetEffect, IdleType DEF Touch, Answer, ProbeEnd
<1>3. CASE Lead(p) \/ Join(p) \/ Sync(p) \/ MkdirAll(p) \/ RenameFails(p)
           \/ IoFails(p) \/ ReopenHit(p) \/ ReopenMiss(p)
  BY <1>3, StepEffect DEF Lead, Join, Sync, MkdirAll, RenameFails, IoFails,
     ReopenHit, ReopenMiss, PC
<1>4. CASE ResolveFails(p) \/ Account(p) \/ Cleanup(p)
  <2>1. PICK ok \in BOOLEAN : EndFlight(p, ok)
    BY <1>4 DEF ResolveFails, Account, Cleanup
  <2>2. client[p].pc \in PostMiss /\ KeyOf(p) \in Key
    BY <1>4 DEF ResolveFails, Account, Cleanup
  <2> QED
    BY <2>1, <2>2, EndFlightEffect DEF OnFlight
<1>5. CASE NewTemp(p) \/ FetchDone(p) \/ StatFinal(p) \/ Rename(p)
  BY <1>5, FieldsEffect DEF FetchDone, StatFinal, Rename, NewTemp
<1>6. CASE ProbeStart(p)
  BY <1>6, SetEffect DEF ProbeStart, Record
<1>7. CASE FetchChunk(p)
  BY <1>7 DEF FetchChunk
<1> QED
  BY <1>1, <1>2, <1>3, <1>4, <1>5, <1>6, <1>7 DEF Request, Produce, Commit

\* Whoever owns a staging file owned it before, or has just created it.
LEMMA StagingBefore ==
  ASSUME IInv, NEW p \in Proc, Request(p), NEW q \in Proc,
         client'[q].pc \in Staging
  PROVE  /\ client'[q].name \in Name
         /\ \/ /\ client[q].pc \in Staging
               /\ client'[q].name = client[q].name
               /\ client'[q].since = client[q].since
            \/ /\ ~Exists(client'[q].name)
               /\ disk' = With(client'[q].name, Empty)
<1> USE DEF IInv, Shapes, Staging
<1>1. CASE \E k \in Key : LookupHit(p, k) \/ LookupMiss(p, k)
  BY <1>1, SetEffect DEF LookupHit, LookupMiss, Record
<1>2. CASE Touch(p) \/ Answer(p) \/ ProbeEnd(p)
  BY <1>2, SetEffect, IdleType DEF Touch, Answer, ProbeEnd
<1>3. CASE Lead(p) \/ Join(p) \/ Sync(p) \/ MkdirAll(p) \/ RenameFails(p)
           \/ IoFails(p) \/ ReopenHit(p) \/ ReopenMiss(p)
  BY <1>3, MoveEffect
<1>4. CASE ResolveFails(p) \/ Account(p) \/ Cleanup(p)
  <2>1. PICK ok \in BOOLEAN : EndFlight(p, ok)
    BY <1>4 DEF ResolveFails, Account, Cleanup
  <2> QED
    BY <2>1, EndFlightEffect
<1>5. CASE NewTemp(p)
  BY <1>5, FieldsEffect DEF FreeName
<1>6. CASE FetchDone(p) \/ StatFinal(p) \/ Rename(p)
  BY <1>6, FieldsEffect
<1>7. CASE ProbeStart(p)
  BY <1>7, SetEffect DEF ProbeStart, Record, FreeName
<1>8. CASE FetchChunk(p)
  BY <1>8 DEF FetchChunk
<1> QED
  BY <1>1, <1>2, <1>3, <1>4, <1>5, <1>6, <1>7, <1>8
     DEF Request, Produce, Commit

\* While a request keeps its staging file, the file stays and only gets younger.
LEMMA OwnStaging ==
  ASSUME IInv, NEW p \in Proc, Request(p),
         client[p].pc \in Staging, client'[p].pc \in Staging
  PROVE  disk'[File0(p)] # None /\ disk'[File0(p)].mtime >= client[p].since
<1> USE DEF IInv
<1>0. /\ TypeOK /\ now \in Nat /\ client[p].since \in Nat /\ client[p].since <= now
      /\ File0(p) \in Name /\ Exists(File0(p))
      /\ disk[File0(p)].mtime >= client[p].since
      /\ disk[File0(p)] \in File
  BY ExistsType DEF TypeOK, Client, Ages, Live, Staging, StagingFresh, Shapes
<1>1. CASE UNCHANGED disk
  BY <1>0, <1>1 DEF Exists
<1>2. CASE FetchChunk(p)
  BY <1>0, <1>2, TouchEffect DEF FetchChunk, Exists
<1>3. CASE FetchDone(p)
  <2>1. PICK s \in Sizes :
          disk' = With(File0(p), [Empty EXCEPT !.size = s, !.whole = TRUE])
    BY <1>0, <1>3 DEF FetchDone
  <2>2. /\ [Empty EXCEPT !.size = s, !.whole = TRUE] \in File
        /\ [Empty EXCEPT !.size = s, !.whole = TRUE].mtime = now
    BY <1>0, EmptyType, SizeAssumption DEF Empty
  <2>3. disk'[File0(p)] = [Empty EXCEPT !.size = s, !.whole = TRUE]
    BY <1>0, <2>1 DEF With, TypeOK
  <2> QED
    BY <1>0, <2>2, <2>3, FileAssumption
<1>4. CASE Sync(p)
  <2>1. disk'[File0(p)] = [disk[File0(p)] EXCEPT !.synced = TRUE]
    BY <1>0, <1>4 DEF Sync, TypeOK
  <2>2. /\ [disk[File0(p)] EXCEPT !.synced = TRUE] \in File
        /\ [disk[File0(p)] EXCEPT !.synced = TRUE].mtime = disk[File0(p)].mtime
    BY <1>0 DEF File
  <2> QED
    BY <1>0, <2>1, <2>2, FileAssumption
<1>5. CASE Rename(p)
  BY <1>0, <1>5, FieldsEffect DEF Staging
<1>6. CASE Cleanup(p)
  BY <1>0, <1>6, EndFlightEffect DEF Cleanup, Staging, OnFlight
<1>7. CASE Touch(p) \/ NewTemp(p) \/ ProbeStart(p) \/ ProbeEnd(p)
  BY <1>0, <1>7, SetEffect, IdleType
     DEF Touch, NewTemp, ProbeStart, ProbeEnd, Staging
<1> QED
  BY <1>1, <1>2, <1>3, <1>4, <1>5, <1>6, <1>7
     DEF Request, Produce, Commit, LookupHit, LookupMiss, Lead, Join,
         ResolveFails, MkdirAll, StatFinal, RenameFails, Account, IoFails,
         ReopenHit, ReopenMiss, Answer

-----------------------------------------------------------------------------
\* A staging file in use has been written since its request began.
LEMMA StagingFreshRequest ==
  ASSUME IInv, NEW p \in Proc, Request(p)
  PROVE  StagingFresh'
<1> SUFFICES ASSUME NEW q \in Proc, client'[q].pc \in Staging
             PROVE  /\ disk'[client'[q].name] # None
                    /\ disk'[client'[q].name].mtime >= client'[q].since
  BY DEF StagingFresh, Exists
<1>0. TypeOK /\ now \in Nat /\ TypeOK'
  BY TypeRequest DEF IInv, TypeInv, TypeOK
<1>1. /\ client'[q].since \in Nat
      /\ client'[q].since <= now
  BY <1>0, AgesRequest, RequestFrame DEF Ages, Live, Staging, TypeOK, Client
<1>2. CASE ~Exists(client'[q].name) /\ disk' = With(client'[q].name, Empty)
  <2>1. disk'[client'[q].name] = Empty
    BY <1>0, <1>2, StagingBefore DEF With, TypeOK
  <2> QED
    <3>1. Empty \in File
      BY <1>0, EmptyType
    <3>2. Empty.mtime = now
      BY DEF Empty
    <3> QED
      BY <1>0, <1>1, <2>1, <3>1, <3>2, FileAssumption
<1>3. CASE /\ client[q].pc \in Staging
           /\ client'[q].name = client[q].name
           /\ client'[q].since = client[q].since
  <2>1. CASE q = p
    BY <1>3, <2>1, OwnStaging
  <2>2. CASE q # p
    <3>1. client[q].name \in Name /\ Exists(client[q].name)
          /\ disk[client[q].name].mtime >= client[q].since
      BY <1>3 DEF IInv, Shapes, StagingFresh
    <3>2. disk'[client[q].name] = disk[client[q].name]
      BY <1>3, <2>2, <3>1, DiskEffect, PathAssumption DEF IInv, Owns
    <3> QED
      BY <1>3, <3>1, <3>2 DEF Exists
  <2> QED
    BY <2>1, <2>2
<1> QED
  BY <1>2, <1>3, StagingBefore

\* An entry a request waits for is no older than Hold before that request.
LEMMA MissFreshRequest ==
  ASSUME IInv, NEW p \in Proc, Request(p)
  PROVE  MissFresh'
<1> SUFFICES ASSUME NEW q \in Proc, client'[q].pc \in PostMiss,
                    disk'[client'[q].key] # None
             PROVE  disk'[client'[q].key].mtime >= client'[q].since - Hold
  BY DEF MissFresh, Exists
<1> DEFINE k == client'[q].key
<1>0. k \in Key /\ Hold \in Nat /\ now \in Nat
  BY PostMissBefore, TimeAssumption DEF IInv, TypeOK
<1>1. /\ client'[q].since \in Nat
      /\ client'[q].since <= now'
      /\ now' = now
  <2>1. TypeOK' /\ Ages'
    BY TypeRequest, AgesRequest DEF IInv, TypeInv
  <2>2. now' = now
    BY RequestFrame
  <2> QED
    BY <2>1, <2>2 DEF Ages, Live, PostMiss, Leading, TypeOK, Client
<1>2. CASE disk'[k] = disk[k]
  <2>1. /\ client[q].pc \in PostMiss
        /\ k = client[q].key
        /\ client'[q].since = client[q].since
    BY <1>2, PostMissBefore DEF Exists
  <2> QED
    BY <1>2, <2>1 DEF IInv, MissFresh, Exists
<1>3. CASE disk'[k].mtime >= now - Hold
  <2>1. disk'[k].mtime \in Nat
    BY <1>0, TypeRequest DEF IInv, TypeInv, TypeOK, File
  <2> QED
    BY <1>0, <1>1, <1>3, <2>1
<1> QED
  BY <1>0, <1>2, <1>3, DiskEffect, PathAssumption

\* No step of a request makes what the sweeper is about to remove needed.
LEMMA SparesRequest ==
  ASSUME IInv, NEW p \in Proc, Request(p)
  PROVE  CandThere' /\ SweepSparesInUse'
<1> USE DEF IInv, CandThere, SweepSparesInUse
<1> SUFFICES ASSUME sw.cand # None
             PROVE  CandThere' /\ SweepSparesInUse'
  BY RequestFrame
<1>0. sw' = sw /\ sw.cand \in Path /\ Exists(sw.cand)
  BY RequestFrame DEF TypeOK, SweepType
<1>1. disk'[sw.cand] # None
  <2>1. ~(sw.cand = File0(p) /\ client[p].pc \in Staging)
    OBVIOUS
  <2> QED
    BY <1>0, <2>1, DiskEffect DEF Exists
<1>2. ASSUME NEW q \in Proc, client'[q].pc \in PostMiss
      PROVE  client'[q].key # sw.cand
  BY <1>0, <1>2, PostMissBefore
<1>3. ASSUME NEW q \in Proc, client'[q].pc \in Staging
      PROVE  client'[q].name # sw.cand
  BY <1>0, <1>3, StagingBefore
<1> QED
  BY <1>0, <1>1, <1>2, <1>3 DEF Exists

\* From its commit on an entry is there for those who will re-open it.
LEMMA ReopenHitsRequest ==
  ASSUME IInv, NEW p \in Proc, Request(p)
  PROVE  ReopenHits'
<1> USE DEF IInv, ReopenHits
<1> SUFFICES ASSUME NEW q \in Proc
             PROVE  /\ client'[q].pc \in {"account", "reopen"} =>
                         disk'[client'[q].key] # None
                    /\ client'[q].pc # "nil"
  BY DEF Exists
<1>0. \A k \in Key : Exists(k) => disk'[k] # None
  BY DiskEffect, PathAssumption DEF Exists
<1>1. CASE client'[q].pc = client[q].pc /\ client'[q].key = client[q].key
  BY <1>0, <1>1 DEF Shapes, PostMiss, Leading
<1>2. CASE \E k \in Key : LookupHit(p, k) \/ LookupMiss(p, k)
  BY <1>1, <1>2, SetEffect DEF LookupHit, LookupMiss, Record
<1>3. CASE Touch(p) \/ Answer(p) \/ ProbeEnd(p)
  BY <1>1, <1>3, SetEffect, IdleType DEF Touch, Answer, ProbeEnd
<1>4. CASE Lead(p) \/ Join(p) \/ Sync(p) \/ MkdirAll(p) \/ RenameFails(p)
           \/ IoFails(p) \/ ReopenHit(p) \/ ReopenMiss(p)
  <2>1. client[p].pc = "reopen" => ReopenHit(p)
    BY <1>4 DEF Lead, Join, Sync, MkdirAll, RenameFails, IoFails, ReopenMiss
  <2>2. client'[p].pc \notin {"account", "reopen", "nil"}
    <3>1. CASE ReopenHit(p)
      BY <3>1, StepEffect DEF ReopenHit, PC
    <3>2. CASE ~ReopenHit(p)
      BY <1>4, <2>1, <3>2, MoveEffect
    <3> QED
      BY <3>1, <3>2
  <2> QED
    BY <1>1, <1>4, <2>2, MoveEffect
<1>5. CASE ResolveFails(p) \/ Cleanup(p)
  BY <1>1, <1>5, EndFlightEffect DEF ResolveFails, Cleanup
<1>6. CASE Account(p)
  <2>1. Exists(KeyOf(p)) /\ KeyOf(p) \in Key
    BY <1>6 DEF Account, Shapes, PostMiss, Leading
  <2> QED
    BY <1>0, <1>1, <1>6, <2>1, EndFlightEffect DEF Account
<1>7. CASE Rename(p)
  <2>1. /\ KeyOf(p) \in Key /\ File0(p) \in Name /\ Exists(File0(p))
        /\ disk' = [disk EXCEPT ![KeyOf(p)] = disk[File0(p)], ![File0(p)] = None]
    BY <1>7 DEF Rename, Shapes, PostMiss, Leading, Staging, CanRename
  <2>2. disk'[KeyOf(p)] # None
    BY <2>1, PathAssumption DEF TypeOK, Exists
  <2> QED
    BY <1>1, <1>7, <2>1, <2>2, FieldsEffect
<1>8. CASE NewTemp(p) \/ FetchDone(p) \/ StatFinal(p)
  BY <1>1, <1>8, FieldsEffect
<1>9. CASE ProbeStart(p)
  BY <1>1, <1>9, SetEffect DEF ProbeStart, Record
<1>10. CASE FetchChunk(p)
  BY <1>1, <1>10 DEF FetchChunk
<1> QED
  BY <1>2, <1>3, <1>4, <1>5, <1>6, <1>7, <1>8, <1>9, <1>10
     DEF Request, Produce, Commit

-----------------------------------------------------------------------------
(* The sweeper, the clock, crashes and restarts.                            *)

\* The one step that matters: with MaxUnused twice as long as any request, what
\* is past the cutoff is older than anything a request in progress relies on.
LEMMA SparesVisit ==
  ASSUME IInv, MaxUnused >= 2 * Hold, NEW x \in Path, SweepVisit(x)
  PROVE  CandThere' /\ SweepSparesInUse'
<1> USE DEF IInv
<1>0. /\ TypeOK /\ TimeAssumption
      /\ now \in Nat /\ sw.cutoff \in Int /\ sw.cutoff <= now - MaxUnused
      /\ UNCHANGED <<disk, client>>
      /\ sw'.cand = IF Stale(x) THEN x ELSE None
  BY TimeAssumption DEF SweepVisit, Walking, CutoffPast, TypeOK, SweepType
<1> SUFFICES ASSUME Stale(x)
             PROVE  CandThere' /\ SweepSparesInUse'
  BY <1>0 DEF CandThere, SweepSparesInUse
<1>1. Exists(x) /\ disk[x].mtime \in Nat /\ disk[x].mtime < sw.cutoff
  BY <1>0, ExistsType DEF Stale
<1>2. ASSUME NEW p \in Proc, client[p].pc \in PostMiss, client[p].key = x
      PROVE  FALSE
  <2>1. /\ client[p].since \in Nat
        /\ now - client[p].since <= Hold
        /\ disk[x].mtime >= client[p].since - Hold
    BY <1>0, <1>1, <1>2 DEF Ages, Live, PostMiss, Leading, MissFresh, TypeOK, Client
  <2> QED
    BY <1>0, <1>1, <2>1 DEF TimeAssumption
<1>3. ASSUME NEW p \in Proc, client[p].pc \in Staging, client[p].name = x
      PROVE  FALSE
  <2>1. /\ client[p].since \in Nat
        /\ now - client[p].since <= Hold
        /\ disk[x].mtime >= client[p].since
    BY <1>0, <1>1, <1>3 DEF Ages, Live, Staging, StagingFresh, TypeOK, Client
  <2> QED
    BY <1>0, <1>1, <2>1 DEF TimeAssumption
<1> QED
  BY <1>0, <1>1, <1>2, <1>3 DEF CandThere, SweepSparesInUse, Exists

\* The removal spares what is in use, so nothing relied on disappears.
LEMMA IInvRemove ==
  ASSUME IInv, SweepRemove, TypeOK', Shapes'
  PROVE  IInv'
<1> USE DEF IInv
<1>0. /\ UNCHANGED <<now, client, flight>>
      /\ sw.cand \in Path
      /\ sw'.pc = sw.pc /\ sw'.cutoff = sw.cutoff /\ sw'.cand = None
      /\ disk' = [disk EXCEPT ![sw.cand] = None]
  BY DEF SweepRemove, Without, TypeOK, SweepType
<1>1. Ages' /\ CutoffPast' /\ Owns' /\ Flights' /\ CandThere' /\ SweepSparesInUse'
  BY <1>0 DEF Ages, Live, CutoffPast, Owns, Flights, CandThere, SweepSparesInUse
<1>2. \A x \in Path : x # sw.cand => disk'[x] = disk[x]
  BY <1>0 DEF TypeOK
<1>3. disk'[sw.cand] = None
  BY <1>0 DEF TypeOK
<1>4. sw.cand # None
  BY DEF SweepRemove
<1>5. StagingFresh'
  BY <1>0, <1>2, <1>4 DEF StagingFresh, SweepSparesInUse, Exists, Shapes
<1>6. MissFresh'
  BY <1>0, <1>2, <1>4 DEF MissFresh, SweepSparesInUse, Exists, Shapes
<1>7. ReopenHits'
  BY <1>0, <1>2, <1>4
     DEF ReopenHits, SweepSparesInUse, Exists, Shapes, PostMiss, Leading
<1> QED
  BY <1>1, <1>5, <1>6, <1>7

\* Every other step of the sweeper leaves requests and files alone.
LEMMA IInvSweep ==
  ASSUME IInv, MaxUnused >= 2 * Hold, Sweep
  PROVE  IInv'
<1> USE DEF IInv
<1>0. TypeOK' /\ Shapes'
  BY TypeSweep, ShapesRest DEF TypeInv
<1>1. CASE SweepRemove
  BY <1>0, <1>1, IInvRemove
<1>2. ASSUME UNCHANGED <<now, disk, client, flight>>
      PROVE  /\ Ages' /\ Owns' /\ StagingFresh' /\ MissFresh' /\ Flights'
             /\ ReopenHits'
  BY <1>2 DEF Ages, Live, Owns, StagingFresh, MissFresh, Flights, ReopenHits, Exists
<1>3. CASE SweepBegin
  <2>1. sw'.cutoff = now - MaxUnused /\ sw'.cand = None
    BY <1>3 DEF SweepBegin, Quiet, Cutoff
  <2>2. CutoffPast' /\ CandThere' /\ SweepSparesInUse'
    BY <1>3, <2>1, TimeAssumption
       DEF SweepBegin, CutoffPast, CandThere, SweepSparesInUse, TypeOK
  <2> QED
    BY <1>0, <1>2, <1>3, <2>2 DEF SweepBegin
<1>4. CASE \E d \in dirs \cup {Tmp} : SweepReadDir(d)
  <2>1. UNCHANGED <<now, disk, client, flight>>
        /\ sw'.pc = sw.pc /\ sw'.cutoff = sw.cutoff /\ sw'.cand = sw.cand
    BY <1>4 DEF SweepReadDir, TypeOK, SweepType
  <2> QED
    BY <1>0, <1>2, <2>1 DEF CutoffPast, CandThere, SweepSparesInUse, Exists
<1>5. CASE \E x \in Path : SweepVisit(x)
  <2>1. CandThere' /\ SweepSparesInUse'
    BY <1>5, SparesVisit
  <2>2. UNCHANGED <<now, disk, client, flight>>
        /\ sw'.pc = sw.pc /\ sw'.cutoff = sw.cutoff
    BY <1>5 DEF SweepVisit, TypeOK, SweepType
  <2> QED
    BY <1>0, <1>2, <2>1, <2>2 DEF CutoffPast
<1>7. CASE SweepRemoveFails
  <2>1. /\ UNCHANGED <<now, disk, client, flight>>
        /\ sw'.pc = sw.pc /\ sw'.cutoff = sw.cutoff /\ sw'.cand = None
    BY <1>7 DEF SweepRemoveFails, TypeOK, SweepType
  <2> QED
    BY <1>0, <1>2, <2>1 DEF CutoffPast, CandThere, SweepSparesInUse
<1>6. CASE \/ SweepWalked \/ SweepWalkFails \/ SweepEnd
           \/ \E d \in Dir : SweepPrune(d)
  <2>1. /\ UNCHANGED <<now, disk, client, flight>>
        /\ sw'.pc # "walk" /\ sw'.cand \in {None, sw.cand}
    <3>1. CASE SweepWalkFails \/ SweepEnd
      BY <3>1 DEF SweepWalkFails, SweepEnd, Quiet
    <3>2. CASE SweepWalked
      BY <3>2 DEF SweepWalked, TypeOK, SweepType
    <3>3. CASE \E d \in Dir : SweepPrune(d)
      BY <3>3 DEF SweepPrune, TypeOK, SweepType
    <3> QED
      BY <1>6, <3>1, <3>2, <3>3
  <2> QED
    BY <1>0, <1>2, <2>1 DEF CutoffPast, CandThere, SweepSparesInUse, Exists
<1> QED
  BY <1>1, <1>3, <1>4, <1>5, <1>6, <1>7 DEF Sweep

\* Every step of a request preserves the invariant.
LEMMA IInvRequest ==
  ASSUME IInv, NEW p \in Proc, Request(p)
  PROVE  IInv'
<1>1. TypeOK' /\ Shapes'
  BY TypeRequest, ShapesRequest DEF IInv, TypeInv
<1>2. CutoffPast'
  BY RequestFrame DEF IInv, CutoffPast
<1>3. Apart
  BY DEF Apart, IInv, StagingFresh, LiveStagingKept
<1> QED
  BY <1>1, <1>2, <1>3, AgesRequest, OwnsRequest, StagingFreshRequest, MissFreshRequest,
     FlightsRequest, SparesRequest, ReopenHitsRequest DEF IInv, TypeInv

\* So do the clock, crashes, restarts and stuttering.
LEMMA IInvRest ==
  ASSUME IInv, Tick \/ Crash \/ Boot \/ UNCHANGED vars
  PROVE  IInv'
<1> USE DEF IInv
<1>0. TypeOK' /\ Shapes'
  BY TypeRest, ShapesRest DEF TypeInv
<1>1. CASE Tick
  <2>1. /\ UNCHANGED <<disk, client, flight, sw>>
        /\ now' = now + 1 /\ now \in Nat
        /\ \A p \in Proc : /\ client[p].since \in Nat
                           /\ Live(p) => now - client[p].since < Hold
    BY <1>1 DEF Tick, TypeOK, Client, Live
  <2>2. Ages'
    BY <2>1, TimeAssumption DEF Ages, Live
  <2>3. CutoffPast'
    BY <2>1, TimeAssumption DEF CutoffPast, TypeOK, SweepType
  <2>4. Owns' /\ StagingFresh' /\ MissFresh' /\ Flights' /\ CandThere'
        /\ SweepSparesInUse' /\ ReopenHits'
    BY <2>1 DEF Owns, StagingFresh, MissFresh, Flights, CandThere,
       SweepSparesInUse, ReopenHits, Exists
  <2> QED
    BY <1>0, <2>2, <2>3, <2>4
<1>2. CASE Crash
  <2>1. /\ \A p \in Proc : client'[p].pc = "idle"
        /\ \A k \in Key : flight'[k] = None
        /\ sw'.pc = "sleep" /\ sw'.cand = None
    BY <1>2, IdleType DEF Crash, Quiet
  <2> QED
    BY <1>0, <2>1
       DEF Ages, CutoffPast, Owns, StagingFresh, MissFresh, Flights, CandThere,
           SweepSparesInUse, ReopenHits, Live, PostMiss, Leading, Staging
<1>3. CASE Boot \/ UNCHANGED vars
  <2>1. UNCHANGED <<now, disk, client, flight, sw>>
    BY <1>3 DEF Boot, vars
  <2> QED
    BY <1>0, <2>1
       DEF Ages, CutoffPast, Owns, StagingFresh, MissFresh, Flights, CandThere,
           SweepSparesInUse, ReopenHits, Live, Exists
<1> QED
  BY <1>1, <1>2, <1>3

-----------------------------------------------------------------------------
\* The inductive invariant: ages of requests, of what they use and of the cutoff.
THEOREM TimingInvariant ==
  ASSUME MaxUnused >= 2 * Hold
  PROVE  Spec => []IInv
<1>1. IInv /\ [Next]_vars => IInv'
  BY IInvRequest, IInvSweep, IInvRest DEF Next
<1> QED
  BY InitIInv, <1>1, PTL DEF Spec

\* With an eviction age of at least twice the longest request, a re-open after a
\* commit always hits (objects/service.go:74), and what the sweeper has decided
\* to remove is never in use when it removes it.
THEOREM SweeperSparesRequests ==
  ASSUME MaxUnused >= 2 * Hold
  PROVE  Spec => [](ReopenHits /\ SweepSparesInUse)
<1>1. IInv => ReopenHits /\ SweepSparesInUse
  BY DEF IInv
<1> QED
  BY TimingInvariant, <1>1, PTL

\* Under the same assumption a staging file in use is never swept
\* (diskcache/eviction.go:20-68 takes tmp/ like any other directory).
THEOREM StagingSpared ==
  ASSUME MaxUnused >= 2 * Hold
  PROVE  Spec => []LiveStagingKept
<1>1. IInv => LiveStagingKept
  BY DEF IInv, StagingFresh, LiveStagingKept
<1> QED
  BY TimingInvariant, <1>1, PTL

-----------------------------------------------------------------------------
(* Whatever the timing.                                                     *)

\* The types, staging files of one's own, and one producer for each flight are
\* inductive together where no name comes again.
Singles == TypeInv /\ Owns /\ Flights

\* The empty cache has neither.
LEMMA SinglesInit == Init => Singles
BY InitIInv DEF IInv, TypeInv, Singles

\* Every step keeps them, as long as names are told apart.
LEMMA SinglesNext ==
  ASSUME Singles, Apart, [Next]_vars
  PROVE  Singles'
<1> USE DEF Singles
<1>1. TypeInv'
  BY TypeRequest, TypeSweep, TypeRest, ShapesRequest, ShapesRest
     DEF Next, TypeInv
<1>2. CASE \E p \in Proc : Request(p)
  BY <1>1, <1>2, OwnsRequest, FlightsRequest
<1>3. CASE Crash
  BY <1>1, <1>3, IdleType DEF Crash, Owns, Flights, Leading, Staging
<1>4. CASE Sweep \/ Tick \/ Boot \/ UNCHANGED vars
  <2>1. UNCHANGED <<client, flight>>
    BY <1>4 DEF Sweep, SweepBegin, SweepReadDir, SweepVisit, SweepRemove,
       SweepRemoveFails, SweepWalked, SweepWalkFails, SweepPrune, SweepEnd, Tick,
       Boot, vars
  <2> QED
    BY <1>1, <2>1 DEF Owns, Flights
<1> QED
  BY <1>1, <1>2, <1>3, <1>4 DEF Next

\* Names are told apart always: by the timing, or by assumption.
LEMMA AlwaysApart == Spec => []Apart
<1>1. CASE NamesRecur
  <2>1. MaxUnused >= 2 * Hold
    BY <1>1, NameAssumption
  <2>2. LiveStagingKept => Apart
    BY DEF Apart
  <2> QED
    BY <2>1, <2>2, StagingSpared, PTL
<1>2. CASE ~NamesRecur
  <2>1. Apart
    BY <1>2 DEF Apart
  <2> QED
    BY <2>1, PTL
<1> QED
  BY <1>1, <1>2

\* produceOnce and os.CreateTemp (objects/service.go:94-112,
\* diskcache/cache.go:68-75): whatever the eviction age and however long requests
\* take, an entry has one producer, followers wait on a live one, and no two
\* requests write the same staging file.
THEOREM SoleProducers == Spec => [](Owns /\ Flights)
<1>1. Singles /\ Apart /\ [Next]_vars => Singles'
  BY SinglesNext
<1>2. Singles => Owns /\ Flights
  BY DEF Singles
<1> QED
  BY SinglesInit, AlwaysApart, <1>1, <1>2, PTL DEF Spec

-----------------------------------------------------------------------------
(* The refinement: every step is a step of CacheContract or a stutter.       *)

AskOf(p) == IF client[p].pc \in PostMiss THEN client[p].key ELSE None
asking   == [p \in Proc |-> AskOf(p)]

\* Steps that neither publish nor remove an entry keep the set of entries.
LEMMA EntriesKept ==
  ASSUME \A k \in Key : (disk'[k] # None) <=> (disk[k] # None)
  PROVE  Entries' = Entries
BY DEF Entries, Exists

\* A step after which every request asks for what it asked for before.
LEMMA AskingKept ==
  ASSUME \A q \in Proc : AskOf(q)' = AskOf(q)
  PROVE  asking' = asking
BY DEF asking

\* A request past its flight finds the entry: no step answers with a nil file.
LEMMA ReopenNever ==
  ASSUME IInv, NEW p \in Proc
  PROVE  ~ReopenMiss(p)
BY DEF IInv, ReopenHits, ReopenMiss

\* Every step of a request is a step of the contract, or none.
LEMMA ContractRequest ==
  ASSUME IInv, NEW p \in Proc, Request(p)
  PROVE  Contract!Next \/ UNCHANGED <<Entries, asking>>
<1> USE PathAssumption, ProcAssumption DEF IInv
<1>0. \A k \in Key : disk[k] # None => disk'[k] # None
  BY DiskEffect DEF Exists
<1>1. CASE \E k \in Key : LookupMiss(p, k)
  <2>1. PICK k \in Key : LookupMiss(p, k)
    BY <1>1
  <2>2. Entries' = Entries /\ k \notin Entries
    BY <2>1 DEF LookupMiss, Entries, Exists
  <2>3. /\ client[p].pc = "idle"
        /\ client'[p].pc = "missed" /\ client'[p].key = k
        /\ \A q \in Proc \ {p} : client'[q] = client[q]
    <3>1. \A q \in Proc : client'[q] = IF q = p THEN Record("missed", k, now, None)
                                              ELSE client[q]
      BY <2>1 DEF LookupMiss, TypeOK
    <3> QED
      BY <2>1, <3>1 DEF LookupMiss, Record
  <2>4. /\ AskOf(p) = None
        /\ \A q \in Proc : AskOf(q)' = IF q = p THEN k ELSE AskOf(q)
    BY <2>3 DEF AskOf, PostMiss, Leading
  <2>5. asking[p] = None /\ asking' = [asking EXCEPT ![p] = k]
    BY <2>4 DEF asking
  <2> QED
    BY <2>2, <2>5 DEF Contract!Next, Contract!Miss, asking, AskOf
<1>2. CASE Rename(p)
  <2>1. KeyOf(p) \in Key /\ AskOf(p) = KeyOf(p) /\ File0(p) \in Name
    BY <1>2 DEF Rename, Shapes, AskOf, PostMiss, Leading, Staging
  <2>2. Entries' = Entries \cup {KeyOf(p)}
    BY <1>2, <2>1 DEF Rename, CanRename, Entries, Exists, TypeOK
  <2>3. /\ client[p].pc = "rename" /\ client'[p].pc = "account"
        /\ client'[p].key = client[p].key
        /\ \A q \in Proc \ {p} : client'[q] = client[q]
    BY <1>2, FieldsEffect DEF Rename
  <2>4. \A q \in Proc : AskOf(q)' = AskOf(q)
    BY <2>3 DEF AskOf, PostMiss, Leading
  <2>5. asking' = asking
    BY <2>4, AskingKept
  <2> QED
    BY <2>1, <2>2, <2>5
       DEF Contract!Next, Contract!Publish, Contract!Asking, asking, AskOf
<1>3. CASE ResolveFails(p) \/ Cleanup(p)
  <2>1. EndFlight(p, FALSE) /\ client[p].pc \in Leading
    BY <1>3 DEF ResolveFails, Cleanup, Leading
  <2>2. Entries' = Entries
    BY <1>3, <1>0, EntriesKept
       DEF ResolveFails, Cleanup, Removed, Without, Shapes, Staging, TypeOK
  <2>3. \A q \in Proc : AskOf(q)' = IF q \in OnFlight(p) THEN None ELSE AskOf(q)
    BY <2>1, EndFlightEffect DEF AskOf, PostMiss, Leading
  <2>4. \A q \in OnFlight(p) : q \in Proc /\ asking[q] # None
    BY <2>1 DEF OnFlight, asking, AskOf, Shapes, PostMiss
  <2>5. asking' = [q \in Proc |-> IF q \in OnFlight(p) THEN None ELSE asking[q]]
    BY <2>3 DEF asking
  <2>6. OnFlight(p) \in SUBSET Proc /\ OnFlight(p) # {}
    BY DEF OnFlight
  <2>7. PICK S \in SUBSET Proc : S = OnFlight(p)
    BY <2>6
  <2>8. Contract!GiveUp(S)
    BY <2>2, <2>4, <2>5, <2>6, <2>7 DEF Contract!GiveUp, asking, AskOf
  <2> QED
    BY <2>8 DEF Contract!Next
<1>4. CASE ReopenHit(p)
  <2>1. Entries' = Entries /\ KeyOf(p) \in Entries /\ AskOf(p) = KeyOf(p)
    BY <1>4 DEF ReopenHit, Entries, Exists, Shapes, AskOf, PostMiss
  <2>2. \A q \in Proc : AskOf(q)' = IF q = p THEN None ELSE AskOf(q)
    BY <1>4, StepEffect DEF ReopenHit, AskOf, PC, PostMiss, Leading
  <2>3. asking' = [asking EXCEPT ![p] = None] /\ asking[p] = KeyOf(p)
    BY <2>1, <2>2 DEF asking
  <2> QED
    BY <2>1, <2>3 DEF Contract!Next, Contract!Serve, asking, AskOf
<1>5. CASE Answer(p)
  <2>1. Entries' = Entries
    BY <1>5, EntriesKept DEF Answer
  <2>2. \A q \in Proc : client'[q] = IF q = p THEN Idle ELSE client[q]
    BY <1>5 DEF Answer, TypeOK
  <2>3. \A q \in Proc : AskOf(q)' = IF q \in {p} THEN None ELSE AskOf(q)
    BY <2>2, IdleType DEF AskOf, PostMiss, Leading
  <2>4. asking' = [q \in Proc |-> IF q \in {p} THEN None ELSE asking[q]]
    BY <2>3 DEF asking
  <2>5. asking[p] # None
    BY <1>5 DEF asking, AskOf, Answer, Shapes, PostMiss
  <2>6. Contract!GiveUp({p})
    BY <2>1, <2>4, <2>5 DEF Contract!GiveUp, asking, AskOf
  <2> QED
    BY <2>6 DEF Contract!Next
<1>6. CASE Account(p)
  <2>1. /\ EndFlight(p, TRUE) /\ client[p].pc = "account"
        /\ UNCHANGED disk
    BY <1>6 DEF Account
  <2>2. \A q \in Proc : \/ client'[q] = client[q]
                       \/ /\ client[q].pc \in {"account", "wait"}
                          /\ client'[q].pc = "reopen" /\ client'[q].key = client[q].key
    <3> SUFFICES ASSUME NEW q \in Proc
                 PROVE  \/ client'[q] = client[q]
                        \/ /\ client[q].pc \in {"account", "wait"}
                           /\ client'[q].pc = "reopen" /\ client'[q].key = client[q].key
      OBVIOUS
    <3>1. q \in OnFlight(p) => client[q].pc \in {"account", "wait"} /\ KeyOf(q) = KeyOf(p)
      BY <2>1 DEF OnFlight
    <3> QED
      BY <2>1, <3>1, EndFlightEffect
  <2>3. \A q \in Proc : AskOf(q)' = AskOf(q)
    BY <2>2 DEF AskOf, PostMiss, Leading
  <2> QED
    BY <2>1, <2>3, EntriesKept, AskingKept
<1>7. CASE Lead(p) \/ Join(p) \/ Sync(p) \/ MkdirAll(p) \/ RenameFails(p)
           \/ IoFails(p)
  <2>1. \A q \in Proc : AskOf(q)' = AskOf(q)
    <3>1. client[p].pc # "reopen"
      BY <1>7 DEF Lead, Join, Sync, MkdirAll, RenameFails, IoFails
    <3> QED
      BY <1>7, <3>1, MoveEffect DEF AskOf, PostMiss, Leading
  <2>2. Entries' = Entries
    BY <1>7, EntriesKept DEF Lead, Join, Sync, MkdirAll, RenameFails, IoFails,
       Shapes, Staging, TypeOK
  <2> QED
    BY <2>1, <2>2, AskingKept
<1>8. CASE NewTemp(p) \/ FetchDone(p) \/ StatFinal(p)
  <2>1. /\ client[p].pc \in PostMiss /\ client'[p].pc \in PostMiss
        /\ client'[p].key = client[p].key
        /\ \A q \in Proc \ {p} : client'[q] = client[q]
    BY <1>8, FieldsEffect DEF PostMiss, Leading
  <2>2. \A q \in Proc : AskOf(q)' = AskOf(q)
    BY <2>1 DEF AskOf
  <2>3. \/ UNCHANGED disk
        \/ \E x \in Name : \E f : disk' = With(x, f)
    <3>1. CASE NewTemp(p)
      BY <3>1, FieldsEffect
    <3>2. CASE FetchDone(p)
      <4>1. File0(p) \in Name
        BY <3>2, FieldsEffect DEF Shapes, Staging
      <4> QED
        BY <3>2, <4>1 DEF FetchDone
    <3>3. CASE StatFinal(p)
      BY <3>3 DEF StatFinal
    <3> QED
      BY <1>8, <3>1, <3>2, <3>3
  <2>4. Entries' = Entries
    BY <2>3, EntriesKept DEF With, TypeOK
  <2> QED
    BY <2>2, <2>4, AskingKept
<1>9. CASE (\E k \in Key : LookupHit(p, k)) \/ Touch(p) \/ ProbeStart(p) \/ ProbeEnd(p)
  <2>1. PICK c : /\ client' = [client EXCEPT ![p] = c]
                 /\ c.pc \notin PostMiss
    BY <1>9, IdleType
       DEF LookupHit, Touch, ProbeStart, ProbeEnd, Record, PostMiss, Leading
  <2>2. client[p].pc \notin PostMiss
    BY <1>9 DEF LookupHit, Touch, ProbeStart, ProbeEnd, PostMiss, Leading
  <2>3. \A q \in Proc : client'[q] = IF q = p THEN c ELSE client[q]
    BY <2>1 DEF TypeOK
  <2>4. \A q \in Proc : AskOf(q)' = AskOf(q)
    BY <2>1, <2>2, <2>3 DEF AskOf
  <2>5. Entries' = Entries
    <3>1. CASE Touch(p)
      BY <3>1, <1>0, TouchEffect, EntriesKept DEF Touch, Shapes, Exists
    <3>2. CASE ~Touch(p)
      BY <1>9, <3>2, EntriesKept
         DEF LookupHit, ProbeStart, ProbeEnd, Removed, With, Without, Shapes, Staging,
             TypeOK
    <3> QED
      BY <3>1, <3>2
  <2> QED
    BY <2>4, <2>5, AskingKept
<1>10. CASE FetchChunk(p)
  <2>1. Entries' = Entries
    BY <1>10, TouchEffect, EntriesKept DEF FetchChunk, Shapes, Staging
  <2>2. asking' = asking
    BY <1>10, AskingKept DEF FetchChunk, AskOf
  <2> QED
    BY <2>1, <2>2
<1> QED
  BY <1>1, <1>2, <1>3, <1>4, <1>5, <1>6, <1>7, <1>8, <1>9, <1>10, ReopenNever
     DEF Request, Produce, Commit

\* Every step of the sweeper is a Drop, or none.
LEMMA ContractSweep ==
  ASSUME IInv, Sweep
  PROVE  Contract!Next \/ UNCHANGED <<Entries, asking>>
<1> USE DEF IInv
<1>1. CASE SweepRemove
  <2>1. /\ sw.cand \in Path /\ sw.cand # None /\ Exists(sw.cand)
        /\ disk' = [disk EXCEPT ![sw.cand] = None]
        /\ UNCHANGED client
    BY <1>1 DEF SweepRemove, Without, TypeOK, SweepType, CandThere
  <2>2. asking' = asking
    BY <2>1, AskingKept DEF AskOf
  <2>3. CASE sw.cand \in Key
    <3>1. Entries' = Entries \ {sw.cand} /\ sw.cand \in Entries
      BY <2>1, <2>3 DEF Entries, Exists, TypeOK
    <3>2. \A p \in Proc : asking[p] # sw.cand
      BY <2>1 DEF asking, AskOf, SweepSparesInUse
    <3>3. Contract!Drop(sw.cand)
      BY <2>2, <3>1, <3>2
         DEF Contract!Drop, Contract!Asking, asking, AskOf
    <3> QED
      BY <2>3, <3>3 DEF Contract!Next
  <2>4. CASE sw.cand \notin Key
    <3>1. Entries' = Entries
      BY <2>1, <2>4, EntriesKept DEF TypeOK
    <3> QED
      BY <2>2, <3>1
  <2> QED
    BY <2>3, <2>4
<1>2. CASE ~SweepRemove
  <2>1. UNCHANGED <<disk, client>>
    BY <1>2 DEF Sweep, SweepBegin, SweepReadDir, SweepVisit, SweepRemoveFails, SweepWalked,
       SweepWalkFails, SweepPrune, SweepEnd
  <2> QED
    BY <2>1, EntriesKept, AskingKept DEF AskOf
<1> QED
  BY <1>1, <1>2

\* A crash is a Restart; clock and boot are invisible.
LEMMA ContractRest ==
  ASSUME IInv, Tick \/ Crash \/ Boot \/ UNCHANGED vars
  PROVE  Contract!Next \/ UNCHANGED <<Entries, asking>>
<1> USE DEF IInv
<1>1. CASE Crash
  <2>1. Entries' = Entries
    <3>1. PICK torn \in SUBSET {x \in Path : Exists(x) /\ ~disk[x].synced} :
            disk' = [x \in Path |-> IF x \in torn
                                    THEN [disk[x] EXCEPT !.whole = FALSE]
                                    ELSE disk[x]]
      BY <1>1 DEF Crash
    <3>2. ASSUME NEW x \in torn
          PROVE  [disk[x] EXCEPT !.whole = FALSE] # None
      <4>1. disk[x] \in File
        BY DEF Exists, TypeOK
      <4>2. [disk[x] EXCEPT !.whole = FALSE] \in File
        BY <4>1 DEF File
      <4> QED
        BY <4>2, FileAssumption
    <3> QED
      BY <3>1, <3>2, EntriesKept DEF Exists
  <2>2. asking' = [p \in Proc |-> None]
    BY <1>1, IdleType DEF Crash, asking, AskOf, PostMiss, Leading
  <2> QED
    BY <2>1, <2>2 DEF Contract!Next, Contract!Restart, asking, AskOf
<1>2. CASE Tick \/ Boot \/ UNCHANGED vars
  <2>1. UNCHANGED <<disk, client>>
    BY <1>2 DEF Tick, Boot, vars
  <2> QED
    BY <2>1, EntriesKept, AskingKept DEF AskOf
<1> QED
  BY <1>1, <1>2

\* Under the same condition the cache, with all its file-system calls, its
\* sweeper, crashes and restarts, implements CacheContract: the specification
\* of a cache that publishes entries atomically and never drops one that a
\* request which missed it still has to open.
THEOREM ContractHonoured ==
  ASSUME MaxUnused >= 2 * Hold
  PROVE  Spec => ContractSpec
<1>1. IInv /\ [Next]_vars => IInv'
  BY IInvRequest, IInvSweep, IInvRest DEF Next
<1>2. Init => Contract!Init
  BY IdleType DEF Init, Contract!Init, Entries, Exists, PostMiss, Leading
<1>3. IInv /\ [Next]_vars => [Contract!Next]_(Contract!vars)
  <2> SUFFICES ASSUME IInv, [Next]_vars
               PROVE  Contract!Next \/ UNCHANGED Contract!vars
    OBVIOUS
  <2>1. Contract!Next \/ UNCHANGED <<Entries, asking>>
    BY ContractRequest, ContractSweep, ContractRest DEF Next
  <2> QED
    BY <2>1 DEF Contract!vars, asking, AskOf
<1> QED
  BY InitIInv, <1>1, <1>2, <1>3, PTL DEF Spec, ContractSpec, Contract!Spec
=============================================================================
