--------------------------- MODULE DiskStateProofs ---------------------------
(***************************************************************************)
(* What is on the disk.  First, crash safety of Commit: an entry is whole,   *)
(* whatever is lost of the files that were not fsynced, however often the    *)
(* daemon dies, and whatever the eviction age.  Then, the gauges: they count *)
(* the entries and their bytes exactly, for any number of either.  Last, the *)
(* staging files: only a crash leaves one behind.                           *)
(***************************************************************************)
EXTENDS DiskCacheProofs, FiniteLemmas

USE DEF Path, NoPrior, At, KeyOf, File0

-----------------------------------------------------------------------------
(* Crash safety.                                                           *)

\* x has the content it had, or is gone.
Kept(x) == Exists(x)' => /\ Exists(x)
                         /\ disk'[x].whole = disk[x].whole
                         /\ disk'[x].synced = disk[x].synced

Packing == {"sync", "mkdir", "stat", "rename"}

\* Touching a file does not change what is in it.
LEMMA TouchKeeps ==
  ASSUME TypeOK, NEW x \in Path, NEW y \in Path, disk' = Touched(y)
  PROVE  Kept(x)
<1>1. CASE Exists(y) /\ x = y
  <2>1. disk'[y] = [disk[y] EXCEPT !.mtime = now]
    BY <1>1 DEF Touched, TypeOK
  <2>2. disk[y] \in File
    BY <1>1, ExistsType
  <2>3. disk'[y].whole = disk[y].whole /\ disk'[y].synced = disk[y].synced
    BY <2>1, <2>2 DEF File
  <2> QED
    BY <1>1, <2>3 DEF Kept
<1>2. CASE ~(Exists(y) /\ x = y)
  <2>1. disk'[x] = disk[x]
    BY <1>2 DEF Touched, TypeOK
  <2> QED
    BY <2>1 DEF Kept, Exists
<1> QED
  BY <1>1, <1>2

\* A step of a request leaves the content of every file alone but that of its own
\* staging file, of a new one, and of the entry it puts in place.
LEMMA ContentEffect ==
  ASSUME DurableInv, NEW p \in Proc, Request(p), NEW x \in Path
  PROVE  \/ Kept(x)
         \/ x = File0(p) /\ x \in Name /\ client[p].pc \in Staging
         \/ x \in Name /\ FreeName(x)
         \/ x \in Key /\ Durable(x)'
<1> USE PathAssumption DEF DurableInv, Staging
<1>1. CASE UNCHANGED disk
  BY <1>1 DEF Kept, Exists
<1>2. CASE Touch(p)
  <2>1. KeyOf(p) \in Path /\ disk' = Touched(KeyOf(p))
    BY <1>2 DEF Touch, Shapes, Path
  <2> QED
    BY <2>1, TouchKeeps
<1>3. CASE NewTemp(p) \/ ProbeStart(p)
  <2>1. PICK n \in Name : FreeName(n) /\ disk' = With(n, Empty)
    BY <1>3 DEF NewTemp, ProbeStart
  <2>2. CASE x = n
    BY <2>1, <2>2
  <2>3. CASE x # n
    <3>1. disk'[x] = disk[x]
      BY <2>1, <2>3 DEF With, TypeOK
    <3> QED
      BY <3>1 DEF Kept, Exists
  <2> QED
    BY <2>2, <2>3
<1>4. CASE FetchChunk(p) \/ FetchDone(p) \/ Sync(p)
  <2>1. File0(p) \in Name /\ client[p].pc \in Staging
    BY <1>4 DEF FetchChunk, FetchDone, Sync, Shapes
  <2>2. x # File0(p) => disk'[x] = disk[x]
    BY <1>4 DEF FetchChunk, FetchDone, Sync, With, Touched, TypeOK
  <2> QED
    BY <2>1, <2>2 DEF Kept, Exists
<1>5. CASE Rename(p)
  <2>1. /\ KeyOf(p) \in Key /\ File0(p) \in Name /\ client[p].pc \in Staging
        /\ Durable(File0(p))
    BY <1>5 DEF Rename, CanRename, Shapes, PostMiss, Leading, StagedWhole
  <2>2. /\ disk'[KeyOf(p)] = disk[File0(p)]
        /\ x \notin {KeyOf(p), File0(p)} => disk'[x] = disk[x]
    BY <1>5, <2>1 DEF Rename, TypeOK
  <2> QED
    BY <2>1, <2>2 DEF Kept, Exists, Durable
<1>6. CASE Cleanup(p) \/ ProbeEnd(p)
  <2>1. \/ disk' = disk
        \/ disk' = Without(File0(p))
    BY <1>6 DEF Cleanup, ProbeEnd, Removed
  <2>2. disk'[x] = disk[x] \/ disk'[x] = None
    BY <2>1 DEF Without, TypeOK
  <2> QED
    BY <2>2 DEF Kept, Exists
<1> QED
  BY <1>1, <1>2, <1>3, <1>4, <1>5, <1>6
     DEF Request, Produce, Commit, LookupHit, LookupMiss, Lead, Join,
         ResolveFails, MkdirAll, StatFinal, RenameFails, Account, IoFails,
         ReopenHit, ReopenMiss, Answer

\* Only its own steps take a request to a place in Commit.
LEMMA PackingBefore ==
  ASSUME TypeOK, NEW p \in Proc, Request(p), NEW q \in Proc,
         client'[q].pc \in Packing
  PROVE  /\ client'[q].name = client[q].name
         /\ q # p => client'[q].pc = client[q].pc
         /\ q = p => \/ UNCHANGED <<disk, client>>
                     \/ FetchDone(p) /\ client'[p].pc = "sync"
                     \/ Sync(p) /\ client'[p].pc = "mkdir"
                     \/ MkdirAll(p) /\ client'[p].pc = "stat"
                     \/ StatFinal(p) /\ client'[p].pc = "rename"
<1> USE DEF Packing
<1>1. CASE \E k \in Key : LookupHit(p, k) \/ LookupMiss(p, k)
  BY <1>1, SetEffect DEF LookupHit, LookupMiss, Record
<1>2. CASE Touch(p) \/ Answer(p) \/ ProbeEnd(p)
  BY <1>2, SetEffect, IdleType DEF Touch, Answer, ProbeEnd
<1>3. CASE Lead(p) \/ Join(p) \/ Sync(p) \/ MkdirAll(p) \/ RenameFails(p)
           \/ IoFails(p) \/ ReopenHit(p) \/ ReopenMiss(p)
  <2>1. /\ client'[q].name = client[q].name
        /\ q # p => client'[q].pc = client[q].pc
        /\ q = p => \/ client[p].pc = "sync" /\ client'[p].pc = "mkdir"
                    \/ client[p].pc = "mkdir" /\ client'[p].pc = "stat"
    BY <1>3, MoveEffect
  <2>2. CASE client[p].pc = "sync"
    <3>1. Sync(p) \/ IoFails(p)
      BY <1>3, <2>2 DEF Lead, Join, MkdirAll, RenameFails, ReopenHit, ReopenMiss
    <3>2. IoFails(p) => client'[p].pc = "cleanup"
      BY StepEffect DEF IoFails, PC, PostMiss, Leading
    <3> QED
      BY <2>1, <2>2, <3>1, <3>2
  <2>3. CASE client[p].pc = "mkdir"
    <3>1. MkdirAll(p) \/ IoFails(p)
      BY <1>3, <2>3 DEF Lead, Join, Sync, RenameFails, ReopenHit, ReopenMiss
    <3>2. IoFails(p) => client'[p].pc = "cleanup"
      BY StepEffect DEF IoFails, PC, PostMiss, Leading
    <3> QED
      BY <2>1, <2>3, <3>1, <3>2
  <2> QED
    BY <2>1, <2>2, <2>3
<1>4. CASE ResolveFails(p) \/ Account(p) \/ Cleanup(p)
  <2>1. PICK ok \in BOOLEAN : EndFlight(p, ok)
    BY <1>4 DEF ResolveFails, Account, Cleanup
  <2>2. q \notin OnFlight(p) /\ client'[q] = client[q]
    BY <2>1, EndFlightEffect
  <2> QED
    BY <2>2 DEF OnFlight
<1>5. CASE NewTemp(p) \/ FetchDone(p) \/ StatFinal(p) \/ Rename(p)
  BY <1>5, FieldsEffect
<1>6. CASE ProbeStart(p)
  BY <1>6, SetEffect DEF ProbeStart, Record
<1>7. CASE FetchChunk(p)
  BY <1>7 DEF FetchChunk
<1> QED
  BY <1>1, <1>2, <1>3, <1>4, <1>5, <1>6, <1>7 DEF Request, Produce, Commit

\* Every step of a request, Commit's fsync before its rename above all,
\* preserves the invariant.
LEMMA DurableRequest ==
  ASSUME DurableInv, Apart, NEW p \in Proc, Request(p)
  PROVE  DurableInv'
<1> USE PathAssumption
<1>1. TypeOK' /\ Shapes' /\ Owns'
  BY TypeRequest, ShapesRequest, OwnsRequest DEF DurableInv, TypeInv
<1>2. EntriesDurable'
  <2> SUFFICES ASSUME NEW k \in Key, Exists(k)' PROVE Durable(k)'
    BY DEF EntriesDurable, Entries
  <2>1. Kept(k) \/ Durable(k)'
    BY ContentEffect DEF Path
  <2> QED
    BY <2>1 DEF Kept, DurableInv, EntriesDurable, Entries, Durable
<1>3. StagedWhole'
  <2> SUFFICES ASSUME NEW q \in Proc, client'[q].pc \in Packing, Exists(File0(q))'
               PROVE  /\ client'[q].pc = "sync" => disk'[client'[q].name].whole
                      /\ client'[q].pc # "sync" => Durable(File0(q))'
    BY DEF StagedWhole, Packing
  <2>0. client'[q].name = client[q].name
    BY PackingBefore DEF DurableInv
  <2>1. CASE q # p
    <3>1. client[q].pc = client'[q].pc /\ client[q].pc \in Staging /\ File0(q) \in Name
      BY <2>1, PackingBefore DEF Packing, Staging, DurableInv, Shapes
    <3>2. Kept(File0(q))
      BY <2>1, <3>1, ContentEffect, TakenName DEF DurableInv, Owns, Path
    <3> QED
      BY <2>0, <3>1, <3>2 DEF Kept, DurableInv, StagedWhole, Durable, Packing
  <2>2. CASE q = p /\ UNCHANGED <<disk, client>>
    BY <2>2 DEF DurableInv, StagedWhole, Durable, Packing, Exists
  <2>3. CASE q = p /\ FetchDone(p) /\ client'[p].pc = "sync"
    <3>1. File0(p) \in Path /\ client'[p].name = File0(p)
      BY <2>0, <2>3 DEF FetchDone, DurableInv, Shapes, Staging, Path
    <3>2. Exists(File0(p))
      BY <2>3, <3>1 DEF FetchDone, Exists
    <3>3. PICK s \in Sizes : disk' = With(File0(p), [Empty EXCEPT !.size = s, !.whole = TRUE])
      BY <2>3, <3>2 DEF FetchDone
    <3>4. disk'[File0(p)].whole
      BY <3>1, <3>3 DEF With, Empty, DurableInv, TypeOK
    <3> QED
      BY <2>3, <3>1, <3>4
  <2>4. CASE q = p /\ Sync(p) /\ client'[p].pc = "mkdir"
    <3>1. File0(p) \in Path /\ client'[p].name = File0(p)
      BY <2>0, <2>4 DEF Sync, DurableInv, Shapes, Staging, Path
    <3>2. Exists(File0(p))
      BY <2>4, <3>1 DEF Sync, Exists
    <3>3. disk[File0(p)] \in File /\ disk[File0(p)].whole
      BY <2>4, <3>1, <3>2, ExistsType DEF Sync, DurableInv, StagedWhole
    <3>4. disk'[File0(p)] = [disk[File0(p)] EXCEPT !.synced = TRUE]
      BY <2>4, <3>1, <3>2 DEF Sync, DurableInv, TypeOK
    <3>5. disk'[File0(p)].whole /\ disk'[File0(p)].synced
      BY <3>3, <3>4 DEF File
    <3> QED
      BY <2>4, <3>1, <3>5 DEF Durable
  <2>5. CASE q = p /\ (MkdirAll(p) \/ StatFinal(p))
    <3>1. client[p].pc \in {"mkdir", "stat"} /\ UNCHANGED disk
      BY <2>5 DEF MkdirAll, StatFinal
    <3>2. client'[p].pc # "sync"
      BY <2>5, PackingBefore DEF DurableInv, MkdirAll, StatFinal, FetchDone, Sync
    <3> QED
      BY <2>0, <2>5, <3>1, <3>2 DEF DurableInv, StagedWhole, Durable, Exists
  <2> QED
    BY <2>1, <2>2, <2>3, <2>4, <2>5, PackingBefore DEF DurableInv
<1> QED
  BY <1>1, <1>2, <1>3 DEF DurableInv

\* So do the sweeper, the clock, crashes, which tear only what was not
\* fsynced, and restarts.
LEMMA DurableRest ==
  ASSUME DurableInv, Sweep \/ Tick \/ Crash \/ Boot \/ UNCHANGED vars
  PROVE  DurableInv'
<1>1. TypeOK' /\ Shapes'
  BY TypeSweep, TypeRest, ShapesRest DEF DurableInv, TypeInv
<1>2. CASE Crash
  <2>1. PICK torn \in SUBSET {x \in Path : Exists(x) /\ ~disk[x].synced} :
          disk' = [x \in Path |-> IF x \in torn
                                  THEN [disk[x] EXCEPT !.whole = FALSE]
                                  ELSE disk[x]]
    BY <1>2 DEF Crash
  <2>2. \A x \in Path \ torn : disk'[x] = disk[x]
    BY <2>1
  <2>3. ASSUME NEW k \in Key, Exists(k)' PROVE Durable(k)'
    <3>1. CASE k \in torn
      <4>1. disk[k] # None /\ ~disk[k].synced
        BY <3>1 DEF Exists
      <4> QED
        BY <4>1 DEF DurableInv, EntriesDurable, Entries, Durable, Exists
    <3>2. CASE k \notin torn
      BY <2>2, <2>3, <3>2 DEF DurableInv, EntriesDurable, Entries, Durable, Exists, Path
    <3> QED
      BY <3>1, <3>2
  <2>4. \A q \in Proc : client'[q].pc = "idle"
    BY <1>2, IdleType DEF Crash
  <2> QED
    BY <1>1, <2>3, <2>4
       DEF DurableInv, Owns, Staging, StagedWhole, EntriesDurable, Entries
<1>3. CASE ~Crash
  <2>1. UNCHANGED client
    BY <1>3 DEF Sweep, SweepBegin, SweepReadDir, SweepVisit, SweepRemove,
       SweepRemoveFails, SweepWalked, SweepWalkFails, SweepPrune, SweepEnd, Tick, Boot, vars
  <2>2. \A x \in Path : disk'[x] = disk[x] \/ disk'[x] = None
    <3>1. disk' = disk \/ disk' = Without(sw.cand)
      BY <1>3 DEF Sweep, SweepBegin, SweepReadDir, SweepVisit, SweepRemove,
         SweepRemoveFails, SweepWalked, SweepWalkFails, SweepPrune, SweepEnd, Tick, Boot, vars
    <3> QED
      BY <3>1 DEF Without, DurableInv, TypeOK
  <2>3. EntriesDurable'
    BY <2>2 DEF DurableInv, EntriesDurable, Entries, Durable, Exists, Path
  <2>4. StagedWhole'
    <3> SUFFICES ASSUME NEW q \in Proc, client[q].pc \in Packing, Exists(File0(q))'
                 PROVE  /\ client[q].pc = "sync" => disk'[client[q].name].whole
                        /\ client[q].pc # "sync" => Durable(File0(q))'
      BY <2>1 DEF StagedWhole, Packing
    <3>1. File0(q) \in Path /\ client'[q].name = File0(q)
      BY <2>1 DEF DurableInv, Shapes, Staging, Packing, Path
    <3>2. disk'[File0(q)] = disk[File0(q)] /\ Exists(File0(q))
      BY <2>2, <3>1 DEF Exists
    <3> QED
      BY <3>1, <3>2 DEF DurableInv, StagedWhole, Durable, Packing
  <2> QED
    BY <1>1, <2>1, <2>3, <2>4 DEF DurableInv, Owns
<1> QED
  BY <1>2, <1>3

\* Commit (diskcache/cache.go:100-144) fsyncs, then renames: whatever a power
\* loss leaves of files that were not fsynced, an entry under its final name has
\* all of its bytes, for any number of crashes, requests and sweeps, and whatever
\* the eviction age.
THEOREM EntriesSurviveCrashes == Spec => []EntriesWhole
<1>1. Init => DurableInv
  BY InitIInv, IdleType
  DEF IInv, DurableInv, Init, StagedWhole, EntriesDurable, Entries, Exists
<1>2. DurableInv /\ Apart /\ [Next]_vars => DurableInv'
  BY DurableRequest, DurableRest DEF Next
<1>3. DurableInv => EntriesWhole
  BY DEF DurableInv, EntriesDurable, EntriesWhole, Durable
<1> QED
  BY AlwaysApart, <1>1, <1>2, <1>3, PTL DEF Spec

-----------------------------------------------------------------------------
(* The gauges: how each step moves the sums they are compared with.         *)

\* No entry came or went, and none changed its size.
SameSizes == \A k \in Key : /\ Exists(k)' <=> Exists(k)
                            /\ Exists(k) => disk'[k].size = disk[k].size

\* No commit is newly between its rename and its gauge deltas, or out of it.
SameDue == \A q \in Proc : /\ At(q, "account")' <=> At(q, "account")
                           /\ At(q, "account") => client'[q] = client[q]

\* Then the disk counts the same, and as much is still to be added.
LEMMA CountedKept ==
  ASSUME SameSizes
  PROVE  Entries' = Entries /\ Sizing' = Sizing /\ Counted' = Counted
<1>1. Entries' = Entries
  BY DEF SameSizes, Entries
<1>2. Sizing' = Sizing
  BY <1>1 DEF SameSizes, Entries, Sizing
<1> QED
  BY <1>1, <1>2 DEF Counted

\* Deltas that nobody computes anew are the same deltas.
LEMMA DueKept ==
  ASSUME SameDue
  PROVE  /\ Uncounted' = Uncounted
         /\ EntriesDue' = EntriesDue /\ BytesDue' = BytesDue
<1>1. Uncounted' = Uncounted
  BY DEF SameDue, Uncounted
<1>2. \A q \in Uncounted : client'[q] = client[q]
  BY DEF SameDue, Uncounted
<1> QED
  BY <1>1, <1>2 DEF EntriesDue, BytesDue, NewEntries, NewBytes, OldSize

\* The deltas are integers.
LEMMA DueType ==
  ASSUME TypeOK, NEW p \in Proc
  PROVE  NewEntries(client[p]) \in Int /\ NewBytes(client[p]) \in Int
<1>1. client[p] \in Client
  BY DEF TypeOK
<1>2. client[p].size \in Nat /\ client[p].prior \in Nat \cup {-1}
  BY <1>1 DEF Client
<1> QED
  BY <1>2 DEF NewEntries, NewBytes, OldSize

\* So are the sums: of the entries still to be added,
LEMMA EntriesDueType ==
  ASSUME TypeOK, Finite
  PROVE  /\ DOMAIN EntriesDue = Uncounted /\ IsFiniteSet(DOMAIN EntriesDue)
         /\ \A p \in DOMAIN EntriesDue : EntriesDue[p] \in Int
         /\ SumFunction(EntriesDue) \in Int
<1>1. /\ DOMAIN EntriesDue = Uncounted /\ IsFiniteSet(DOMAIN EntriesDue)
      /\ \A p \in DOMAIN EntriesDue : EntriesDue[p] \in Int
  BY DueType DEF Finite, EntriesDue, Uncounted
<1> QED
  BY <1>1, SumType

\* of the bytes still to be added,
LEMMA BytesDueType ==
  ASSUME TypeOK, Finite
  PROVE  /\ DOMAIN BytesDue = Uncounted /\ IsFiniteSet(DOMAIN BytesDue)
         /\ \A p \in DOMAIN BytesDue : BytesDue[p] \in Int
         /\ SumFunction(BytesDue) \in Int
<1>1. /\ DOMAIN BytesDue = Uncounted /\ IsFiniteSet(DOMAIN BytesDue)
      /\ \A p \in DOMAIN BytesDue : BytesDue[p] \in Int
  BY DueType DEF Finite, BytesDue, Uncounted
<1> QED
  BY <1>1, SumType

\* and of the sizes on the disk.
LEMMA SizingType ==
  ASSUME TypeOK, Finite
  PROVE  /\ DOMAIN Sizing = Entries /\ IsFiniteSet(DOMAIN Sizing)
         /\ \A k \in DOMAIN Sizing : Sizing[k] \in Int
         /\ Counted.bytes = SumFunction(Sizing)
         /\ Counted.entries = Cardinality(Entries)
         /\ Counted.bytes \in Int /\ Counted.entries \in Int
<1>1. ASSUME NEW k \in Entries
      PROVE  disk[k].size \in Nat
  BY ExistsType DEF Entries, File
<1>2. /\ DOMAIN Sizing = Entries /\ IsFiniteSet(DOMAIN Sizing)
      /\ \A k \in DOMAIN Sizing : Sizing[k] \in Int
  BY <1>1 DEF Finite, Sizing
<1>3. SumFunction(Sizing) \in Int
  BY <1>2, SumType
<1>4. Cardinality(Entries) \in Nat
  BY FS_CardinalityType DEF Finite
<1> QED
  BY <1>2, <1>3, <1>4 DEF Counted

\* When nothing that is counted changes, the gauges stay exact.
LEMMA NothingCounts ==
  ASSUME GaugesExact, SameSizes, SameDue, up' => up,
         UNCHANGED gauge, sw'.freed = sw.freed, sw'.freedBytes = sw.freedBytes
  PROVE  GaugesExact'
BY CountedKept, DueKept DEF GaugesExact, PendingEntries, PendingBytes

-----------------------------------------------------------------------------
(* Requests.                                                               *)

\* The one step of a request that changes what entries there are is the rename.
LEMMA SizesKept ==
  ASSUME TypeOK, Shapes, NEW p \in Proc, Request(p), ~Rename(p)
  PROVE  SameSizes
<1> SUFFICES ASSUME NEW k \in Key
             PROVE  /\ Exists(k)' <=> Exists(k)
                    /\ Exists(k) => disk'[k].size = disk[k].size
  BY DEF SameSizes
<1> USE PathAssumption
<1>1. CASE UNCHANGED disk
  BY <1>1 DEF Exists
<1>2. CASE Touch(p)
  <2>1. KeyOf(p) \in Path /\ disk' = Touched(KeyOf(p))
    BY <1>2 DEF Touch, Shapes
  <2>2. CASE k = KeyOf(p) /\ Exists(k)
    <3>1. disk[k] \in File /\ disk'[k] = [disk[k] EXCEPT !.mtime = now]
      BY <2>1, <2>2, ExistsType DEF Touched, TypeOK
    <3>2. disk'[k].size = disk[k].size
      BY <3>1 DEF File
    <3> QED
      BY <2>1, <2>2, <3>2, TouchEffect
  <2>3. CASE ~(k = KeyOf(p) /\ Exists(k))
    <3>1. disk'[k] = disk[k]
      BY <2>1, <2>3, TouchEffect
    <3> QED
      BY <3>1 DEF Exists
  <2> QED
    BY <2>2, <2>3
<1>3. CASE \E x \in Name : \A y \in Path : y # x => disk'[y] = disk[y]
  BY <1>3 DEF Exists
<1>4. CASE NewTemp(p) \/ ProbeStart(p)
  <2>1. \E n \in Name : disk' = With(n, Empty)
    BY <1>4 DEF NewTemp, ProbeStart
  <2> QED
    BY <1>3, <2>1 DEF With, TypeOK
<1>5. CASE FetchChunk(p) \/ FetchDone(p) \/ Sync(p) \/ Cleanup(p) \/ ProbeEnd(p)
  <2>1. File0(p) \in Name
    BY <1>5 DEF FetchChunk, FetchDone, Sync, Cleanup, ProbeEnd, Shapes, Staging
  <2>2. \A y \in Path : y # File0(p) => disk'[y] = disk[y]
    BY <1>5 DEF FetchChunk, FetchDone, Sync, Cleanup, ProbeEnd, Removed, With,
       Without, Touched, TypeOK
  <2> QED
    BY <1>3, <2>1, <2>2
<1> QED
  BY <1>1, <1>2, <1>4, <1>5
     DEF Request, Produce, Commit, LookupHit, LookupMiss, Lead, Join,
         ResolveFails, MkdirAll, StatFinal, RenameFails, Account, IoFails,
         ReopenHit, ReopenMiss, Answer

\* A step of one request, but the end of a flight, leaves the others alone; the
\* end of a flight takes its producer and its followers out of the flight.
LEMMA OthersKept ==
  ASSUME TypeOK, NEW p \in Proc, Request(p), NEW q \in Proc
  PROVE  \/ client'[q] = client[q]
         \/ q = p /\ ~ (ResolveFails(p) \/ Account(p) \/ Cleanup(p))
         \/ /\ ResolveFails(p) \/ Account(p) \/ Cleanup(p)
            /\ q = p \/ client[q].pc = "wait"
            /\ client'[q].pc \in {"reopen", "idle"}
<1>1. CASE ResolveFails(p) \/ Account(p) \/ Cleanup(p)
  <2>1. PICK ok \in BOOLEAN : EndFlight(p, ok)
    BY <1>1 DEF ResolveFails, Account, Cleanup
  <2>2. CASE q \notin OnFlight(p)
    BY <2>1, <2>2, EndFlightEffect
  <2>3. CASE q \in OnFlight(p)
    <3>1. client'[q].pc \in {"reopen", "idle"}
      BY <2>1, <2>3, EndFlightEffect
    <3>2. q = p \/ client[q].pc = "wait"
      BY <2>3 DEF OnFlight
    <3> QED
      BY <1>1, <3>1, <3>2
  <2> QED
    BY <2>2, <2>3
<1>2. CASE ~(ResolveFails(p) \/ Account(p) \/ Cleanup(p))
  <2> SUFFICES ASSUME q # p
               PROVE  client'[q] = client[q]
    BY <1>2
  <2>1. CASE \E k \in Key : LookupHit(p, k) \/ LookupMiss(p, k)
    BY <2>1 DEF LookupHit, LookupMiss, TypeOK
  <2>2. CASE Touch(p) \/ Answer(p) \/ ProbeEnd(p) \/ ProbeStart(p)
    BY <2>2 DEF Touch, Answer, ProbeEnd, ProbeStart, TypeOK
  <2>3. CASE Lead(p) \/ Join(p) \/ Sync(p) \/ MkdirAll(p) \/ RenameFails(p)
             \/ IoFails(p) \/ ReopenHit(p) \/ ReopenMiss(p)
    BY <2>3 DEF Lead, Join, Sync, MkdirAll, RenameFails, IoFails, ReopenHit,
       ReopenMiss, Step, TypeOK
  <2>4. CASE NewTemp(p) \/ FetchDone(p) \/ StatFinal(p) \/ Rename(p)
    BY <2>4, FieldsEffect
  <2>5. CASE FetchChunk(p)
    BY <2>5 DEF FetchChunk
  <2> QED
    BY <1>2, <2>1, <2>2, <2>3, <2>4, <2>5 DEF Request, Produce, Commit
<1> QED
  BY <1>1, <1>2
\* Only a rename puts a request between its rename and its deltas, and only the
\* deltas take it out.
LEMMA DueStays ==
  ASSUME TypeOK, NEW p \in Proc, Request(p), ~Rename(p), ~Account(p)
  PROVE  SameDue
<1> SUFFICES ASSUME NEW q \in Proc
             PROVE  /\ At(q, "account")' <=> At(q, "account")
                    /\ At(q, "account") => client'[q] = client[q]
  BY DEF SameDue
<1>1. CASE client'[q] = client[q]
  BY <1>1
<1>2. CASE /\ ResolveFails(p) \/ Account(p) \/ Cleanup(p)
           /\ q = p \/ client[q].pc = "wait"
           /\ client'[q].pc \in {"reopen", "idle"}
  <2>1. client[p].pc \in {"resolve", "cleanup"}
    BY <1>2 DEF ResolveFails, Cleanup
  <2> QED
    BY <1>2, <2>1
<1>3. CASE q = p /\ ~ (ResolveFails(p) \/ Account(p) \/ Cleanup(p))
  <2> SUFFICES client[p].pc # "account" /\ client'[p].pc # "account"
    BY <1>3
  <2>1. CASE \E k \in Key : LookupHit(p, k) \/ LookupMiss(p, k)
    BY <2>1, SetEffect DEF LookupHit, LookupMiss, Record
  <2>2. CASE Touch(p) \/ Answer(p) \/ ProbeEnd(p)
    BY <2>2, SetEffect, IdleType DEF Touch, Answer, ProbeEnd
  <2>3. CASE ProbeStart(p)
    BY <2>3, SetEffect DEF ProbeStart, Record
  <2>4. CASE Lead(p) \/ Join(p) \/ Sync(p) \/ MkdirAll(p) \/ RenameFails(p)
             \/ IoFails(p) \/ ReopenHit(p) \/ ReopenMiss(p)
    BY <2>4, MoveEffect
  <2>5. CASE NewTemp(p) \/ FetchDone(p) \/ StatFinal(p)
    BY <2>5, FieldsEffect
  <2>6. CASE FetchChunk(p)
    BY <2>6 DEF FetchChunk
  <2> QED
    BY <1>3, <2>1, <2>2, <2>3, <2>4, <2>5, <2>6 DEF Request, Produce, Commit
<1> QED
  BY <1>1, <1>2, <1>3, OthersKept

\* The rename and what it will add: a new entry when os.Stat saw none, and the
\* bytes by which the file differs from what it replaces.
LEMMA RenameDisk ==
  ASSUME GaugeInv, NEW p \in Proc, Rename(p)
  PROVE  /\ KeyOf(p) \in Key
         /\ Entries' = Entries \cup {KeyOf(p)}
         /\ disk'[KeyOf(p)].size = client[p].size
         /\ \A k \in Key \ {KeyOf(p)} : disk'[k] = disk[k]
         /\ IF KeyOf(p) \in Entries THEN client[p].prior = disk[KeyOf(p)].size
                                    ELSE client[p].prior = NoPrior
<1> USE DEF GaugeInv, IInv
<1>1. /\ KeyOf(p) \in Key /\ File0(p) \in Name /\ client[p].pc = "rename"
      /\ Exists(File0(p))
  BY DEF Rename, CanRename, Shapes, PostMiss, Leading, Staging
<1>2. /\ disk'[KeyOf(p)] = disk[File0(p)]
      /\ \A k \in Key \ {KeyOf(p)} : disk'[k] = disk[k]
  BY <1>1, PathAssumption DEF Rename, TypeOK
<1>3. Entries' = Entries \cup {KeyOf(p)}
  BY <1>1, <1>2 DEF Entries, Exists
<1>4. disk[File0(p)].size = client[p].size
  BY <1>1 DEF StagedSized
<1>5. KeyOf(p) \in Entries <=> Exists(KeyOf(p))
  BY <1>1 DEF Entries
<1> QED
  BY <1>1, <1>2, <1>3, <1>4, <1>5 DEF PriorHolds

\* A rename adds to the disk what its commit still has to add to the gauges.
LEMMA RenameCounts ==
  ASSUME GaugeInv, NEW p \in Proc, Rename(p), TypeOK'
  PROVE  /\ Finite'
         /\ Counted'.entries = Counted.entries + NewEntries(client[p])
         /\ Counted'.bytes = Counted.bytes + NewBytes(client[p])
         /\ SumFunction(EntriesDue') = SumFunction(EntriesDue) + NewEntries(client[p])
         /\ SumFunction(BytesDue') = SumFunction(BytesDue) + NewBytes(client[p])
<1> DEFINE k == KeyOf(p)
<1>0. TypeOK /\ Finite
  BY DEF GaugeInv, IInv
<1>1. /\ k \in Key /\ Entries' = Entries \cup {k}
      /\ disk'[k].size = client[p].size
      /\ \A j \in Key \ {k} : disk'[j] = disk[j]
      /\ IF k \in Entries THEN client[p].prior = disk[k].size
                          ELSE client[p].prior = NoPrior
  BY RenameDisk
<1>2. /\ client[p] \in Client /\ client[p].size \in Nat
      /\ k \in Entries => disk[k].size \in Nat
  <2>1. k \in Entries => disk[k] \in File
    BY <1>0, <1>1, ExistsType DEF Entries
  <2> QED
    BY <1>0, <2>1 DEF TypeOK, Client, File
<1> HIDE DEF k
<1>3. Uncounted' = Uncounted \cup {p} /\ p \notin Uncounted
  <2>1. /\ client[p].pc = "rename" /\ client'[p].pc = "account"
        /\ \A q \in Proc \ {p} : client'[q] = client[q]
    BY <1>0, FieldsEffect
  <2> QED
    BY <2>1 DEF Uncounted
<1>4. /\ client'[p].size = client[p].size /\ client'[p].prior = client[p].prior
      /\ \A q \in Uncounted : client'[q] = client[q]
  <2>1. client'[p] = [client[p] EXCEPT !.pc = "account", !.name = None]
    BY <1>0 DEF Rename, TypeOK
  <2>2. \A q \in Uncounted : client'[q] = client[q]
    BY <1>0, <1>3, FieldsEffect DEF Uncounted
  <2> QED
    BY <1>2, <2>1, <2>2 DEF Client
<1>5. Finite'
  BY <1>0, <1>1, <1>3, FS_AddElement DEF Finite
<1>6. Counted'.entries = Counted.entries + NewEntries(client[p])
  <2>1. Cardinality(Entries') = IF k \in Entries THEN Cardinality(Entries)
                                ELSE Cardinality(Entries) + 1
    BY <1>0, <1>1, FS_AddElement DEF Finite
  <2>2. NewEntries(client[p]) = IF k \in Entries THEN 0 ELSE 1
    BY <1>1, <1>2 DEF NewEntries
  <2>3. Cardinality(Entries) \in Nat
    BY <1>0, FS_CardinalityType DEF Finite
  <2> QED
    BY <2>1, <2>2, <2>3 DEF Counted
<1>7. Counted'.bytes = Counted.bytes + NewBytes(client[p])
  <2> DEFINE f == Sizing
             e == Sizing'
  <2>1. /\ DOMAIN f = Entries /\ IsFiniteSet(DOMAIN f)
        /\ \A j \in DOMAIN f : f[j] \in Int
    BY <1>0, SizingType
  <2>2. DOMAIN e = DOMAIN f \cup {k} /\ e[k] = client[p].size
        /\ \A j \in DOMAIN f \ {k} : e[j] = f[j]
    <3>1. e = [j \in Entries' |-> disk'[j].size]
      BY DEF Sizing
    <3>2. f = [j \in Entries |-> disk[j].size]
      BY DEF Sizing
    <3> QED
      BY <1>1, <3>1, <3>2 DEF Entries
  <2>3. k \in Entries => f[k] = disk[k].size
    BY DEF Sizing
  <2> HIDE DEF f, e
  <2>4. CASE k \in Entries
    <3>1. SumFunction(e) = SumFunction(f) - f[k] + e[k]
      <4>1. DOMAIN e = DOMAIN f /\ k \in DOMAIN f /\ e[k] \in Int
        BY <1>2, <2>1, <2>2, <2>4
      <4> QED
        BY <2>1, <2>2, <4>1, SumChange
    <3>2. NewBytes(client[p]) = client[p].size - disk[k].size
      BY <1>1, <1>2, <2>4 DEF NewBytes, OldSize
    <3>3. SumFunction(f) \in Int
      BY <2>1, SumType
    <3> QED
      BY <1>2, <2>2, <2>3, <2>4, <3>1, <3>2, <3>3 DEF Counted, f, e
  <2>5. CASE k \notin Entries
    <3>1. SumFunction(e) = SumFunction(f) + e[k]
      <4>1. k \notin DOMAIN f /\ e[k] \in Int /\ \A j \in DOMAIN f : e[j] = f[j]
        BY <1>2, <2>1, <2>2, <2>5
      <4> QED
        BY <2>1, <2>2, <4>1, SumAdd
    <3>2. NewBytes(client[p]) = client[p].size
      BY <1>1, <1>2, <2>5 DEF NewBytes, OldSize
    <3> QED
      BY <2>2, <3>1, <3>2 DEF Counted, f, e
  <2> QED
    BY <2>4, <2>5
<1>8. SumFunction(EntriesDue') = SumFunction(EntriesDue) + NewEntries(client[p])
  <2> DEFINE f == EntriesDue
             e == EntriesDue'
  <2>1. /\ DOMAIN f = Uncounted /\ IsFiniteSet(DOMAIN f)
        /\ \A q \in DOMAIN f : f[q] \in Int
    BY <1>0, EntriesDueType
  <2>2. /\ DOMAIN e = DOMAIN f \cup {p} /\ e[p] = NewEntries(client[p])
        /\ \A q \in DOMAIN f : e[q] = f[q]
    BY <1>3, <1>4 DEF EntriesDue, NewEntries
  <2>3. p \notin DOMAIN f /\ e[p] \in Int
    BY <1>0, <1>3, <2>1, <2>2, DueType
  <2> HIDE DEF f, e
  <2>4. SumFunction(e) = SumFunction(f) + e[p]
    BY <2>1, <2>2, <2>3, SumAdd
  <2> QED
    BY <2>2, <2>4 DEF f, e
<1>9. SumFunction(BytesDue') = SumFunction(BytesDue) + NewBytes(client[p])
  <2> DEFINE f == BytesDue
             e == BytesDue'
  <2>1. /\ DOMAIN f = Uncounted /\ IsFiniteSet(DOMAIN f)
        /\ \A q \in DOMAIN f : f[q] \in Int
    BY <1>0, BytesDueType
  <2>2. /\ DOMAIN e = DOMAIN f \cup {p} /\ e[p] = NewBytes(client[p])
        /\ \A q \in DOMAIN f : e[q] = f[q]
    BY <1>3, <1>4 DEF BytesDue, NewBytes, OldSize
  <2>3. p \notin DOMAIN f /\ e[p] \in Int
    BY <1>0, <1>3, <2>1, <2>2, DueType
  <2> HIDE DEF f, e
  <2>4. SumFunction(e) = SumFunction(f) + e[p]
    BY <2>1, <2>2, <2>3, SumAdd
  <2> QED
    BY <2>2, <2>4 DEF f, e
<1> QED
  BY <1>5, <1>6, <1>7, <1>8, <1>9
\* The deltas: they move the gauges by what leaves the pending sums.
LEMMA AccountCounts ==
  ASSUME GaugeInv, NEW p \in Proc, Account(p)
  PROVE  /\ Finite' /\ Counted' = Counted
         /\ gauge'.entries = gauge.entries + NewEntries(client[p])
         /\ gauge'.bytes = gauge.bytes + NewBytes(client[p])
         /\ SumFunction(EntriesDue') = SumFunction(EntriesDue) - NewEntries(client[p])
         /\ SumFunction(BytesDue') = SumFunction(BytesDue) - NewBytes(client[p])
<1>0. TypeOK /\ Finite
  BY DEF GaugeInv, IInv
<1>1. Counted' = Counted /\ Entries' = Entries
  BY DEF Account, Counted, Entries, Exists, Sizing
<1>2. /\ p \in Uncounted
      /\ Uncounted' = Uncounted \ {p}
      /\ \A q \in Uncounted \ {p} : client'[q] = client[q]
  <2>1. client[p].pc = "account" /\ EndFlight(p, TRUE)
    BY DEF Account
  <2>2. \A q \in Proc : IF q = p \/ (client[q].pc = "wait" /\ client[q].key = KeyOf(p))
                        THEN client'[q].pc = "reopen" ELSE client'[q] = client[q]
    BY <1>0, <2>1, EndFlightEffect DEF OnFlight
  <2> QED
    BY <2>1, <2>2 DEF Uncounted
<1>3. Finite'
  BY <1>0, <1>1, <1>2, FS_RemoveElement DEF Finite
<1>4. SumFunction(EntriesDue') = SumFunction(EntriesDue) - NewEntries(client[p])
  <2> DEFINE f == EntriesDue
             e == EntriesDue'
  <2>1. /\ DOMAIN f = Uncounted /\ IsFiniteSet(DOMAIN f)
        /\ \A q \in DOMAIN f : f[q] \in Int
    BY <1>0, EntriesDueType
  <2>2. /\ p \in DOMAIN f /\ f[p] = NewEntries(client[p])
        /\ DOMAIN e = DOMAIN f \ {p} /\ \A q \in DOMAIN e : e[q] = f[q]
    BY <1>2 DEF EntriesDue, NewEntries
  <2> HIDE DEF f, e
  <2>3. SumFunction(e) = SumFunction(f) - f[p]
    BY <2>1, <2>2, SumDrop
  <2> QED
    BY <2>2, <2>3 DEF f, e
<1>5. SumFunction(BytesDue') = SumFunction(BytesDue) - NewBytes(client[p])
  <2> DEFINE f == BytesDue
             e == BytesDue'
  <2>1. /\ DOMAIN f = Uncounted /\ IsFiniteSet(DOMAIN f)
        /\ \A q \in DOMAIN f : f[q] \in Int
    BY <1>0, BytesDueType
  <2>2. /\ p \in DOMAIN f /\ f[p] = NewBytes(client[p])
        /\ DOMAIN e = DOMAIN f \ {p} /\ \A q \in DOMAIN e : e[q] = f[q]
    BY <1>2 DEF BytesDue, NewBytes, OldSize
  <2> HIDE DEF f, e
  <2>3. SumFunction(e) = SumFunction(f) - f[p]
    BY <2>1, <2>2, SumDrop
  <2> QED
    BY <2>2, <2>3 DEF f, e
<1>6. /\ gauge'.entries = gauge.entries + NewEntries(client[p])
      /\ gauge'.bytes = gauge.bytes + NewBytes(client[p])
  BY DEF Account
<1> QED
  BY <1>1, <1>3, <1>4, <1>5, <1>6

\* So every step of a request keeps the gauges exact.
LEMMA ExactRequest ==
  ASSUME GaugeInv, NEW p \in Proc, Request(p), TypeOK'
  PROVE  GaugesExact' /\ GaugeType' /\ Finite'
<1> USE DEF GaugeInv, IInv
<1>0. UNCHANGED <<sw, up>> /\ sw \in SweepType /\ sw.freed \in Int /\ sw.freedBytes \in Int
  BY RequestFrame DEF TypeOK, SweepType
<1>1. /\ Counted.bytes \in Int /\ Counted.entries \in Int
      /\ gauge.entries \in Int /\ gauge.bytes \in Int
      /\ SumFunction(EntriesDue) \in Int /\ SumFunction(BytesDue) \in Int
      /\ NewEntries(client[p]) \in Int /\ NewBytes(client[p]) \in Int
  BY SizingType, EntriesDueType, BytesDueType, DueType DEF GaugeType
<1>2. CASE Rename(p)
  <2>1. UNCHANGED gauge
    BY <1>2 DEF Rename
  <2>2. /\ Finite'
        /\ Counted'.entries = Counted.entries + NewEntries(client[p])
        /\ Counted'.bytes = Counted.bytes + NewBytes(client[p])
        /\ SumFunction(EntriesDue') = SumFunction(EntriesDue) + NewEntries(client[p])
        /\ SumFunction(BytesDue') = SumFunction(BytesDue) + NewBytes(client[p])
    BY <1>2, RenameCounts
  <2>3. GaugesExact'
    BY <1>0, <1>1, <2>1, <2>2 DEF GaugesExact, PendingEntries, PendingBytes
  <2> QED
    BY <2>1, <2>2, <2>3 DEF GaugeType
<1>3. CASE Account(p)
  <2>1. /\ Finite' /\ Counted' = Counted
        /\ gauge'.entries = gauge.entries + NewEntries(client[p])
        /\ gauge'.bytes = gauge.bytes + NewBytes(client[p])
        /\ SumFunction(EntriesDue') = SumFunction(EntriesDue) - NewEntries(client[p])
        /\ SumFunction(BytesDue') = SumFunction(BytesDue) - NewBytes(client[p])
    BY <1>3, AccountCounts
  <2>2. GaugesExact'
    BY <1>0, <1>1, <2>1 DEF GaugesExact, PendingEntries, PendingBytes
  <2>3. GaugeType'
    BY <1>1, <1>3 DEF Account, GaugeType
  <2> QED
    BY <2>1, <2>2, <2>3
<1>4. CASE ~Rename(p) /\ ~Account(p)
  <2>1. SameSizes /\ SameDue
    BY <1>4, SizesKept, DueStays
  <2>2. UNCHANGED gauge
    BY <1>4 DEF Request, Produce, Commit, LookupHit, LookupMiss, Touch, Lead, Join,
       ResolveFails, NewTemp, FetchChunk, FetchDone, Sync, MkdirAll, StatFinal,
       RenameFails, IoFails, Cleanup, ReopenHit, ReopenMiss, Answer, ProbeStart,
       ProbeEnd
  <2> QED
    BY <1>0, <2>1, <2>2, NothingCounts, CountedKept, DueKept DEF GaugeType, Finite
<1> QED
  BY <1>2, <1>3, <1>4

-----------------------------------------------------------------------------
(* What os.Stat saw, the size of the staging file and the size of the        *)
(* sweeper's candidate stay true: nobody else writes to those paths.        *)

\* A request's staging file.
LEMMA StagedKept ==
  ASSUME IInv, NEW p \in Proc, Request(p), NEW q \in Proc, q # p,
         client[q].pc \in Staging
  PROVE  disk'[File0(q)] = disk[File0(q)]
<1> USE DEF IInv
<1>1. File0(q) \in Name /\ Exists(File0(q))
  BY DEF Shapes, StagingFresh
<1>2. client[p].pc \in Staging => File0(q) # File0(p)
  BY DEF Owns
<1>3. File0(q) \in Path /\ File0(q) \notin Key
  BY <1>1, PathAssumption
<1> QED
  BY <1>1, <1>2, <1>3, DiskEffect

\* An entry is there or not, and as long as it was, unless it is renamed over.
LEMMA EntryKept ==
  ASSUME IInv, NEW p \in Proc, Request(p), NEW k \in Key,
         Rename(p) => k # KeyOf(p)
  PROVE  /\ Exists(k)' <=> Exists(k)
         /\ Exists(k) => disk'[k].size = disk[k].size
<1>1. CASE Rename(p)
  <2>1. /\ disk' = [disk EXCEPT ![KeyOf(p)] = disk[File0(p)], ![File0(p)] = None]
        /\ File0(p) \in Name /\ k # File0(p)
    BY <1>1, PathAssumption DEF Rename, IInv, Shapes, Staging
  <2>2. disk'[k] = disk[k]
    BY <1>1, <2>1 DEF IInv, TypeOK
  <2> QED
    BY <2>2 DEF Exists
<1>2. CASE ~Rename(p)
  BY <1>2, SizesKept DEF IInv, SameSizes
<1> QED
  BY <1>1, <1>2

\* Whoever is about to rename has just looked, or had the entry to itself since.
LEMMA PriorRequest ==
  ASSUME GaugeInv, "stat" \notin Faults, NEW p \in Proc, Request(p)
  PROVE  PriorHolds'
<1> USE DEF GaugeInv, IInv
<1> SUFFICES ASSUME NEW q \in Proc, client'[q].pc = "rename"
             PROVE  client'[q].prior = IF Exists(KeyOf(q))'
                                       THEN disk'[client'[q].key].size ELSE NoPrior
  BY DEF PriorHolds
<1>1. CASE client'[q] = client[q]
  <2>1. KeyOf(q) \in Key
    BY <1>1 DEF Shapes, PostMiss, Leading
  <2>2. Rename(p) => KeyOf(q) # KeyOf(p)
    <3> SUFFICES ASSUME Rename(p), KeyOf(q) = KeyOf(p)
                 PROVE  FALSE
      OBVIOUS
    <3>1. client[p].pc = "rename" /\ client'[p].pc = "account"
      BY FieldsEffect
    <3>2. q = p
      BY <1>1, <3>1 DEF Flights, Leading
    <3> QED
      BY <3>1, <3>2
  <2>3. /\ Exists(KeyOf(q))' <=> Exists(KeyOf(q))
        /\ Exists(KeyOf(q)) => disk'[KeyOf(q)].size = disk[KeyOf(q)].size
    BY <1>1, <2>1, <2>2, EntryKept DEF Exists
  <2>4. client[q].prior = IF Exists(KeyOf(q)) THEN disk[KeyOf(q)].size ELSE NoPrior
    BY <1>1 DEF PriorHolds
  <2> QED
    BY <1>1, <2>3, <2>4
<1>2. CASE q = p /\ client'[q] # client[q]
  <2>1. StatFinal(p)
    BY <1>2, PackingBefore DEF Packing
  <2>2. client[p] \in Client /\ UNCHANGED disk
    BY <2>1 DEF StatFinal, TypeOK
  <2>3. client'[p] = [client[p] EXCEPT !.pc = "rename",
                        !.prior = IF Exists(KeyOf(p)) THEN disk[KeyOf(p)].size
                                  ELSE NoPrior]
    BY <2>1 DEF StatFinal, Seen, TypeOK
  <2>4. client'[p].key = client[p].key
        /\ client'[p].prior = IF Exists(KeyOf(p)) THEN disk[KeyOf(p)].size ELSE NoPrior
    BY <2>2, <2>3 DEF Client
  <2> QED
    BY <1>2, <2>2, <2>4 DEF Exists
<1>3. CASE client'[q] # client[q] /\ q # p
  BY <1>3, OthersKept
<1> QED
  BY <1>1, <1>2, <1>3

\* A fetch notes the size of what it wrote, and Commit keeps both.
LEMMA SizedRequest ==
  ASSUME GaugeInv, NEW p \in Proc, Request(p)
  PROVE  StagedSized'
<1> USE DEF GaugeInv, IInv
<1> SUFFICES ASSUME NEW q \in Proc, client'[q].pc \in Packing, Exists(File0(q))'
             PROVE  disk'[client'[q].name].size = client'[q].size
  BY DEF StagedSized, Packing
<1>1. CASE q # p
  <2>1. client'[q] = client[q]
    BY <1>1, OthersKept DEF Packing
  <2>2. disk'[File0(q)] = disk[File0(q)]
    BY <1>1, <2>1, StagedKept DEF Packing, Staging
  <2> QED
    BY <2>1, <2>2 DEF StagedSized, Packing, Exists
<1>2. CASE q = p /\ UNCHANGED <<disk, client>>
  BY <1>2 DEF StagedSized, Packing, Exists
<1>3. CASE q = p /\ FetchDone(p)
  <2>1. /\ client[p] \in Client /\ File0(p) \in Path /\ Exists(File0(p))
    BY <1>3 DEF FetchDone, TypeOK, Shapes, Staging, StagingFresh
  <2>2. PICK s \in Sizes :
          /\ disk' = With(File0(p), [Empty EXCEPT !.size = s, !.whole = TRUE])
          /\ client' = [client EXCEPT ![p] = [@ EXCEPT !.pc = "sync", !.size = s]]
    BY <1>3, <2>1 DEF FetchDone
  <2>3. client'[p].size = s /\ client'[p].name = File0(p)
    <3>1. client'[p] = [client[p] EXCEPT !.pc = "sync", !.size = s]
      BY <2>2 DEF TypeOK
    <3> QED
      BY <2>1, <3>1 DEF Client
  <2>4. disk'[File0(p)].size = s
    BY <2>1, <2>2 DEF With, Empty, TypeOK
  <2> QED
    BY <1>3, <2>3, <2>4
<1>4. CASE q = p /\ Sync(p)
  <2>1. /\ client[p] \in Client /\ File0(p) \in Path /\ Exists(File0(p))
        /\ client[p].pc = "sync"
    BY <1>4 DEF Sync, TypeOK, Shapes, Staging, StagingFresh
  <2>2. client'[p].size = client[p].size /\ client'[p].name = File0(p)
    <3>1. client'[p] = [client[p] EXCEPT !.pc = "mkdir"]
      BY <1>4 DEF Sync, Step, TypeOK
    <3> QED
      BY <2>1, <3>1 DEF Client
  <2>3. disk'[File0(p)].size = disk[File0(p)].size
    <3>1. disk[File0(p)] \in File
      BY <2>1, ExistsType
    <3>2. disk'[File0(p)] = [disk[File0(p)] EXCEPT !.synced = TRUE]
      BY <1>4, <2>1 DEF Sync, TypeOK
    <3> QED
      BY <3>1, <3>2 DEF File
  <2> QED
    BY <1>4, <2>1, <2>2, <2>3 DEF StagedSized
<1>5. CASE q = p /\ (MkdirAll(p) \/ StatFinal(p))
  <2>1. /\ client[p] \in Client /\ UNCHANGED disk
        /\ client[p].pc \in {"mkdir", "stat"}
    BY <1>5 DEF MkdirAll, StatFinal, TypeOK
  <2>2. client'[p].size = client[p].size /\ client'[p].name = File0(p)
    <3>1. \/ client'[p] = [client[p] EXCEPT !.pc = "stat"]
          \/ \E s : client'[p] = [client[p] EXCEPT !.pc = "rename", !.prior = s]
      BY <1>5 DEF MkdirAll, StatFinal, Step, TypeOK
    <3> QED
      BY <2>1, <3>1 DEF Client
  <2> QED
    BY <1>5, <2>1, <2>2 DEF StagedSized, Exists
<1> QED
  BY <1>1, <1>2, <1>3, <1>4, <1>5, PackingBefore

\* The sweeper's candidate is nobody's to replace.
LEMMA CandRequest ==
  ASSUME GaugeInv, NEW p \in Proc, Request(p)
  PROVE  CandSized'
<1> USE DEF GaugeInv, IInv
<1> SUFFICES ASSUME sw.cand \in Key
             PROVE  disk'[sw.cand].size = sw.candSize
  BY RequestFrame DEF CandSized
<1>1. Exists(sw.cand) /\ sw.cand # None
  BY PathAssumption DEF CandThere
<1>2. Rename(p) => sw.cand # KeyOf(p)
  BY <1>1 DEF Rename, SweepSparesInUse, PostMiss, Leading
<1> QED
  BY <1>1, <1>2, EntryKept DEF CandSized

\* Nobody asks a daemon that is down.
LEMMA RestRequest ==
  ASSUME GaugeInv, NEW p \in Proc, Request(p)
  PROVE  AtRest'
<1>1. up
  <2> SUFFICES ASSUME ~up
               PROVE  FALSE
    OBVIOUS
  <2>1. client[p].pc = "idle"
    BY DEF GaugeInv, AtRest
  <2> QED
    BY <2>1 DEF Request, Produce, Commit, LookupHit, LookupMiss, Touch, Lead, Join,
       ResolveFails, NewTemp, FetchChunk, FetchDone, Sync, MkdirAll, StatFinal,
       Rename, RenameFails, Account, IoFails, Cleanup, ReopenHit, ReopenMiss,
       Answer, ProbeStart, ProbeEnd
<1> QED
  BY <1>1, RequestFrame DEF GaugeInv, AtRest

\* Together: a step of a request keeps the invariant.
LEMMA GaugeRequest ==
  ASSUME GaugeInv, "stat" \notin Faults, NEW p \in Proc, Request(p)
  PROVE  GaugeInv'
<1>1. IInv'
  BY IInvRequest DEF GaugeInv
<1> QED
  BY <1>1, ExactRequest, PriorRequest, SizedRequest, CandRequest, RestRequest
     DEF GaugeInv, IInv
-----------------------------------------------------------------------------
(* The sweeper, the clock, crashes and restarts.                            *)

\* A removal that frees an entry is what the sweep will subtract.
LEMMA RemoveCounts ==
  ASSUME GaugeInv, SweepRemove
  PROVE  GaugesExact' /\ Finite'
<1> USE DEF GaugeInv, IInv
<1> DEFINE x == sw.cand
<1>1. /\ x \in Path /\ x # None /\ Exists(x)
      /\ disk' = [disk EXCEPT ![x] = None]
      /\ UNCHANGED <<client, gauge, up>>
  BY DEF SweepRemove, Without, TypeOK, SweepType, CandThere
<1>2. /\ sw'.freed = IF x \in Key THEN sw.freed + 1 ELSE sw.freed
      /\ sw'.freedBytes = IF x \in Key THEN sw.freedBytes + sw.candSize
                          ELSE sw.freedBytes
      /\ sw.freed \in Int /\ sw.freedBytes \in Int /\ sw.candSize \in Int
  BY <1>1 DEF SweepRemove, Frees, TypeOK, SweepType
<1>3. SameDue
  BY <1>1 DEF SameDue
<1>4. Uncounted' = Uncounted /\ EntriesDue' = EntriesDue /\ BytesDue' = BytesDue
  BY <1>3, DueKept
<1> HIDE DEF x
<1>5. CASE x \notin Key
  <2>1. SameSizes
    BY <1>1, <1>5 DEF SameSizes, Exists, TypeOK
  <2>2. GaugesExact'
    BY <1>1, <1>2, <1>3, <1>5, <2>1, NothingCounts
  <2> QED
    BY <1>4, <2>1, <2>2, CountedKept DEF Finite
<1>6. CASE x \in Key
  <2>1. x \in Entries /\ Entries' = Entries \ {x}
    BY <1>1, <1>6 DEF Entries, Exists, TypeOK
  <2>2. \A k \in Entries \ {x} : disk'[k] = disk[k]
    BY <1>1 DEF Entries, TypeOK
  <2>3. disk[x].size = sw.candSize
    BY <1>6 DEF CandSized, x
  <2>4. Finite'
    BY <1>4, <2>1, FS_RemoveElement DEF Finite
  <2>5. Counted'.entries = Counted.entries - 1
    <3>1. Cardinality(Entries') = Cardinality(Entries) - 1
      BY <2>1, FS_RemoveElement DEF Finite
    <3> QED
      BY <3>1 DEF Counted
  <2>6. Counted'.bytes = Counted.bytes - sw.candSize
    <3> DEFINE f == Sizing
               e == Sizing'
    <3>1. /\ DOMAIN f = Entries /\ IsFiniteSet(DOMAIN f)
          /\ \A j \in DOMAIN f : f[j] \in Int
      BY SizingType
    <3>2. e = [j \in Entries' |-> disk'[j].size]
      BY DEF Sizing
    <3>3. /\ x \in DOMAIN f /\ f[x] = sw.candSize
          /\ DOMAIN e = DOMAIN f \ {x} /\ \A j \in DOMAIN e : e[j] = f[j]
      BY <2>1, <2>2, <2>3, <3>2 DEF Sizing
    <3> HIDE DEF f, e
    <3>4. SumFunction(e) = SumFunction(f) - f[x]
      BY <3>1, <3>3, SumDrop
    <3> QED
      BY <3>3, <3>4 DEF Counted, f, e
  <2>7. /\ Counted.bytes \in Int /\ Counted.entries \in Int
        /\ gauge.entries \in Int /\ gauge.bytes \in Int
        /\ SumFunction(EntriesDue) \in Int /\ SumFunction(BytesDue) \in Int
    BY SizingType, EntriesDueType, BytesDueType DEF GaugeType
  <2>8. GaugesExact'
    BY <1>1, <1>2, <1>4, <1>6, <2>5, <2>6, <2>7
       DEF GaugesExact, PendingEntries, PendingBytes
  <2> QED
    BY <2>4, <2>8
<1> QED
  BY <1>5, <1>6

\* A whole sweep keeps the gauges exact, provided its walk does not fail.
LEMMA GaugeSweep ==
  ASSUME GaugeInv, MaxUnused >= 2 * Hold, "walk" \notin Faults, Sweep
  PROVE  GaugeInv'
<1> USE DEF GaugeInv
<1>0. IInv' /\ TypeOK /\ sw \in SweepType
  BY IInvSweep DEF IInv, TypeOK
<1>1. CASE SweepRemove
  <2>1. /\ sw.cand \in Path
        /\ disk' = [disk EXCEPT ![sw.cand] = None]
        /\ UNCHANGED <<client, gauge, up>>
        /\ sw'.cand = None /\ sw'.pc = "walk" /\ sw.pc = "walk"
    BY <1>0, <1>1 DEF SweepRemove, Without, SweepType
  <2>2. ASSUME NEW y \in Path, y # sw.cand
        PROVE  disk'[y] = disk[y]
    BY <1>0, <2>1, <2>2 DEF TypeOK
  <2>3. sw.cand # None
    BY <1>1 DEF SweepRemove
  <2>4. PriorHolds'
    <3> SUFFICES ASSUME NEW p \in Proc, client[p].pc = "rename"
                 PROVE  disk'[KeyOf(p)] = disk[KeyOf(p)]
      BY <2>1 DEF PriorHolds, Exists
    <3> QED
      BY <2>2, <2>3 DEF IInv, Shapes, SweepSparesInUse, PostMiss, Leading
  <2>5. StagedSized'
    <3> SUFFICES ASSUME NEW p \in Proc, client[p].pc \in Packing
                 PROVE  disk'[File0(p)] = disk[File0(p)]
      BY <2>1 DEF StagedSized, Packing, Exists
    <3> QED
      BY <2>2, <2>3 DEF IInv, Shapes, SweepSparesInUse, Staging, Packing
  <2>6. CandSized' /\ AtRest' /\ GaugeType'
    BY <2>1, PathAssumption DEF CandSized, AtRest, GaugeType
  <2> QED
    BY <1>0, <1>1, <2>4, <2>5, <2>6, RemoveCounts
<1>2. ASSUME UNCHANGED <<disk, client, up>>
      PROVE  PriorHolds' /\ StagedSized' /\ Finite' /\ SameSizes /\ SameDue
  BY <1>2 DEF PriorHolds, StagedSized, Finite, SameSizes, SameDue, Exists, Entries,
     Uncounted
<1>3. CASE SweepBegin
  <2>1. /\ UNCHANGED <<disk, client, gauge, up>> /\ up /\ sw.pc = "sleep"
        /\ sw'.freed = 0 /\ sw'.freedBytes = 0 /\ sw'.pc = "walk" /\ sw'.cand = None
    BY <1>3 DEF SweepBegin, Quiet
  <2>2. CandSized' /\ AtRest' /\ GaugeType'
    BY <2>1, PathAssumption DEF CandSized, AtRest, GaugeType
  <2>3. GaugesExact'
    BY <1>2, <2>1, NothingCounts DEF AtRest
  <2> QED
    BY <1>0, <1>2, <2>1, <2>2, <2>3
<1>4. CASE \E x \in Path : SweepVisit(x)
  <2>1. PICK x \in Path : SweepVisit(x)
    BY <1>4
  <2>2. /\ UNCHANGED <<disk, client, gauge, up>>
        /\ sw'.freed = sw.freed /\ sw'.freedBytes = sw.freedBytes
        /\ sw'.pc = "walk" /\ sw.pc = "walk"
        /\ sw'.cand = IF Stale(x) THEN x ELSE None
        /\ sw'.candSize = IF Stale(x) THEN disk[x].size ELSE 0
    BY <1>0, <2>1 DEF SweepVisit, Walking, SweepType
  <2>3. CandSized' /\ AtRest' /\ GaugeType'
    BY <2>2, PathAssumption DEF CandSized, AtRest, GaugeType
  <2>4. GaugesExact'
    BY <1>2, <2>2, NothingCounts
  <2> QED
    BY <1>0, <1>2, <2>2, <2>3, <2>4
<1>5. CASE \/ \E d \in dirs \cup {Tmp} : SweepReadDir(d)
           \/ SweepWalked
           \/ \E d \in Dir : SweepPrune(d)
  <2>1. /\ UNCHANGED <<disk, client, gauge, up>>
        /\ sw'.freed = sw.freed /\ sw'.freedBytes = sw.freedBytes
        /\ sw'.cand = sw.cand /\ sw'.candSize = sw.candSize
        /\ sw'.pc # "sleep" /\ sw.pc # "sleep"
    <3>1. CASE \E d \in dirs \cup {Tmp} : SweepReadDir(d)
      BY <1>0, <3>1 DEF SweepReadDir, Walking, SweepType
    <3>2. CASE SweepWalked
      BY <1>0, <3>2 DEF SweepWalked, Walking, SweepType
    <3>3. CASE \E d \in Dir : SweepPrune(d)
      BY <1>0, <3>3 DEF SweepPrune, SweepType
    <3> QED
      BY <1>5, <3>1, <3>2, <3>3
  <2>2. CandSized' /\ AtRest' /\ GaugeType'
    BY <2>1 DEF CandSized, AtRest, GaugeType
  <2>3. GaugesExact'
    BY <1>2, <2>1, NothingCounts
  <2> QED
    BY <1>0, <1>2, <2>1, <2>2, <2>3
<1>6. CASE SweepEnd
  <2>1. /\ UNCHANGED <<disk, client, up>>
        /\ gauge' = [entries |-> gauge.entries - sw.freed,
                     bytes   |-> gauge.bytes - sw.freedBytes]
        /\ sw'.freed = 0 /\ sw'.freedBytes = 0 /\ sw'.pc = "sleep" /\ sw'.cand = None
        /\ sw.pc = "prune"
        /\ sw.freed \in Int /\ sw.freedBytes \in Int
        /\ gauge.entries \in Int /\ gauge.bytes \in Int
    BY <1>0, <1>6 DEF SweepEnd, Quiet, SweepType, GaugeType
  <2>2. CandSized' /\ AtRest' /\ GaugeType'
    BY <2>1, PathAssumption DEF CandSized, AtRest, GaugeType
  <2>3. /\ Counted' = Counted /\ EntriesDue' = EntriesDue /\ BytesDue' = BytesDue
    BY <1>2, <2>1, CountedKept, DueKept
  <2>4. /\ SumFunction(EntriesDue) \in Int /\ SumFunction(BytesDue) \in Int
        /\ gauge'.entries = gauge.entries - sw.freed
        /\ gauge'.bytes = gauge.bytes - sw.freedBytes
    BY <1>0, <2>1, EntriesDueType, BytesDueType
  <2>5. GaugesExact'
    BY <2>1, <2>3, <2>4 DEF GaugesExact, PendingEntries, PendingBytes
  <2> QED
    BY <1>0, <1>2, <2>1, <2>2, <2>5
<1>7. CASE SweepRemoveFails
  <2>1. /\ UNCHANGED <<disk, client, gauge, up>>
        /\ sw'.freed = sw.freed /\ sw'.freedBytes = sw.freedBytes
        /\ sw'.pc = "walk" /\ sw.pc = "walk" /\ sw'.cand = None
    BY <1>0, <1>7 DEF SweepRemoveFails, SweepType
  <2>2. CandSized' /\ AtRest' /\ GaugeType'
    BY <2>1, PathAssumption DEF CandSized, AtRest, GaugeType
  <2>3. GaugesExact'
    BY <1>2, <2>1, NothingCounts
  <2> QED
    BY <1>0, <1>2, <2>1, <2>2, <2>3
<1> QED
  BY <1>1, <1>3, <1>4, <1>5, <1>6, <1>7 DEF Sweep, SweepWalkFails

\* A crash forgets the gauges with everything else in memory, and the seeding
\* of the next run counts what is there.
LEMMA GaugeRest ==
  ASSUME GaugeInv, "walk" \notin Faults, Tick \/ Crash \/ Boot \/ UNCHANGED vars
  PROVE  GaugeInv'
<1> USE DEF GaugeInv
<1>0. IInv' /\ TypeOK
  BY IInvRest DEF IInv
<1>1. CASE Tick \/ UNCHANGED vars
  <2>1. UNCHANGED <<disk, client, gauge, sw, up>>
    BY <1>1 DEF Tick, vars
  <2>2. SameSizes /\ SameDue
    BY <2>1 DEF SameSizes, SameDue, Exists
  <2>3. GaugesExact'
    BY <2>1, <2>2, NothingCounts
  <2>4. PriorHolds' /\ StagedSized' /\ CandSized' /\ AtRest' /\ Finite' /\ GaugeType'
    BY <2>1, <2>2, CountedKept, DueKept
       DEF PriorHolds, StagedSized, CandSized, AtRest, Finite, GaugeType, Exists
  <2> QED
    BY <1>0, <2>3, <2>4
<1>2. CASE Crash
  <2>1. /\ \A p \in Proc : client'[p].pc = "idle"
        /\ sw' = Quiet /\ ~up' /\ gauge' = [entries |-> 0, bytes |-> 0]
    BY <1>2, IdleType DEF Crash
  <2>2. PICK torn \in SUBSET {x \in Path : Exists(x) /\ ~disk[x].synced} :
          disk' = [x \in Path |-> IF x \in torn
                                  THEN [disk[x] EXCEPT !.whole = FALSE]
                                  ELSE disk[x]]
    BY <1>2 DEF Crash
  <2>3. Entries' \subseteq Entries
    BY <2>2 DEF Entries, Exists
  <2>4. Uncounted' = {}
    BY <2>1 DEF Uncounted
  <2>5. Finite'
    BY <2>3, <2>4, FS_Subset, FS_EmptySet DEF Finite
  <2>6. PriorHolds' /\ StagedSized' /\ CandSized' /\ AtRest' /\ GaugeType'
        /\ GaugesExact'
    BY <2>1, PathAssumption
       DEF PriorHolds, StagedSized, CandSized, AtRest, GaugeType, GaugesExact, Quiet
  <2> QED
    BY <1>0, <2>5, <2>6
<1>3. CASE Boot
  <2>1. /\ UNCHANGED <<disk, client, sw>> /\ ~up /\ gauge' = Counted
    BY <1>3 DEF Boot
  <2>2. SameSizes /\ SameDue
    BY <2>1 DEF SameSizes, SameDue, Exists
  <2>3. Counted' = Counted /\ Uncounted' = Uncounted
        /\ EntriesDue' = EntriesDue /\ BytesDue' = BytesDue /\ Entries' = Entries
    BY <2>2, CountedKept, DueKept
  <2>4. sw.pc = "sleep" /\ sw.freed = 0 /\ sw.freedBytes = 0 /\ Uncounted = {}
    BY <2>1 DEF AtRest, Uncounted
  <2>5. SumFunction(EntriesDue) = 0 /\ SumFunction(BytesDue) = 0
    <3>1. DOMAIN EntriesDue = {} /\ DOMAIN BytesDue = {}
      BY <2>4 DEF EntriesDue, BytesDue
    <3> QED
      BY <3>1, SumEmpty
  <2>6. Counted.entries \in Int /\ Counted.bytes \in Int
    BY <1>0, SizingType
  <2>7. GaugesExact'
    BY <2>1, <2>3, <2>4, <2>5, <2>6 DEF GaugesExact, PendingEntries, PendingBytes
  <2>8. GaugeType'
    BY <2>1, <2>6 DEF GaugeType, Counted
  <2>9. PriorHolds' /\ StagedSized' /\ CandSized' /\ AtRest' /\ Finite'
    BY <2>1, <2>3, <2>4 DEF PriorHolds, StagedSized, CandSized, AtRest, Finite, Exists
  <2> QED
    BY <1>0, <2>7, <2>8, <2>9
<1> QED
  BY <1>1, <1>2, <1>3

\* An empty cache is counted right.
LEMMA GaugeInit == Init => GaugeInv
<1> SUFFICES ASSUME Init
             PROVE  GaugeInv
  OBVIOUS
<1>1. IInv
  BY InitIInv
<1>2. /\ \A p \in Proc : client[p].pc = "idle"
      /\ sw = Quiet /\ up /\ gauge = [entries |-> 0, bytes |-> 0]
      /\ \A x \in Path : disk[x] = None
  BY IdleType DEF Init
<1>3. Entries = {} /\ Uncounted = {}
  BY <1>2 DEF Entries, Exists, Uncounted
<1>4. Finite
  BY <1>3, FS_EmptySet DEF Finite
<1>5. Counted.entries = 0 /\ Counted.bytes = 0
  <2>1. DOMAIN Sizing = {}
    BY <1>3 DEF Sizing
  <2> QED
    BY <1>3, <2>1, SumEmpty, FS_EmptySet DEF Counted
<1>6. SumFunction(EntriesDue) = 0 /\ SumFunction(BytesDue) = 0
  <2>1. DOMAIN EntriesDue = {} /\ DOMAIN BytesDue = {}
    BY <1>3 DEF EntriesDue, BytesDue
  <2> QED
    BY <2>1, SumEmpty
<1>7. GaugesExact
  BY <1>2, <1>5, <1>6 DEF GaugesExact, PendingEntries, PendingBytes, Quiet
<1>8. PriorHolds /\ StagedSized /\ CandSized /\ AtRest /\ GaugeType
  BY <1>2, PathAssumption
     DEF PriorHolds, StagedSized, CandSized, AtRest, GaugeType, Quiet
<1> QED
  BY <1>1, <1>4, <1>7, <1>8 DEF GaugeInv

\* cache_entries and cache_size_bytes (metrics/metrics.go:73-85), together with
\* what commits and a sweep in progress have yet to add or subtract, are exactly
\* what is on the disk (diskcache/cache.go:117-143, eviction.go:56-86), for any
\* number of entries, sizes, requests and crashes, as long as the eviction age
\* is twice the longest request, no walk of the tree fails and no os.Stat of an
\* entry that is there.
THEOREM GaugesCountDisk ==
  ASSUME MaxUnused >= 2 * Hold, "walk" \notin Faults, "stat" \notin Faults
  PROVE  Spec => []GaugesExact
<1>1. GaugeInv /\ [Next]_vars => GaugeInv'
  BY GaugeRequest, GaugeSweep, GaugeRest DEF Next
<1>2. GaugeInv => GaugesExact
  BY DEF GaugeInv
<1> QED
  BY GaugeInit, <1>1, <1>2, PTL DEF Spec

-----------------------------------------------------------------------------
(* Orphans.                                                                *)

\* A step of a request leaves no staging file behind: it works on it from its
\* creation on, and stops when it has renamed or removed it.
LEMMA OrphanRequest ==
  ASSUME TypeInv, "cleanup" \notin Faults, NEW p \in Proc, Request(p),
         NEW n \in Name, Orphan(n)'
  PROVE  Orphan(n)
<1> USE PathAssumption DEF TypeInv
<1> SUFFICES /\ Exists(n)
             /\ \A q \in Proc : client[q].pc \in Staging => File0(q) # n
  BY DEF Orphan
<1>1. /\ disk'[n] # None
      /\ \A q \in Proc : client'[q].pc \in Staging => client'[q].name # n
  BY DEF Orphan, Exists
<1>2. Exists(n) /\ (client[p].pc \in Staging => File0(p) # n)
  <2>1. CASE \E k \in Key : LookupHit(p, k) \/ LookupMiss(p, k)
    BY <1>1, <2>1 DEF LookupHit, LookupMiss, Exists, Staging
  <2>2. CASE Touch(p)
    <3>1. KeyOf(p) \in Path /\ KeyOf(p) # n /\ disk' = Touched(KeyOf(p))
      BY <2>2 DEF Touch, Shapes
    <3>2. disk'[n] = disk[n]
      BY <3>1, TouchEffect
    <3> QED
      BY <1>1, <2>2, <3>2 DEF Touch, Exists, Staging
  <2>3. CASE \/ Lead(p) \/ Join(p) \/ ReopenHit(p) \/ ReopenMiss(p)
             \/ Answer(p) \/ ResolveFails(p) \/ Account(p)
    BY <1>1, <2>3 DEF Lead, Join, ReopenHit, ReopenMiss, Answer, ResolveFails,
       Account, Exists, Staging
  <2>4. CASE NewTemp(p)
    <3>1. /\ client[p].pc = "resolve" /\ client'[p].pc = "fetch"
          /\ client'[p].name \in Name /\ disk' = With(client'[p].name, Empty)
      BY <2>4, FieldsEffect
    <3>2. client'[p].name # n
      BY <1>1, <3>1 DEF Staging
    <3> QED
      BY <1>1, <3>1, <3>2 DEF With, TypeOK, Exists, Staging
  <2>5. CASE ProbeStart(p)
    <3>1. PICK m \in Name : /\ disk' = With(m, Empty)
                            /\ client' = [client EXCEPT ![p] = Record("probe", None, now, m)]
      BY <2>5 DEF ProbeStart
    <3>2. client'[p].pc = "probe" /\ client'[p].name = m
      <4>1. client'[p] = Record("probe", None, now, m)
        BY <3>1 DEF TypeOK
      <4> QED
        BY <4>1 DEF Record
    <3>3. m # n
      BY <1>1, <3>2 DEF Staging
    <3> QED
      BY <1>1, <2>5, <3>1, <3>3 DEF ProbeStart, With, TypeOK, Exists, Staging
  <2>6. CASE FetchChunk(p) \/ FetchDone(p) \/ StatFinal(p)
    <3>1. client'[p].pc \in Staging /\ client'[p].name = File0(p)
      BY <2>6, FieldsEffect DEF FetchChunk, Staging
    <3>2. File0(p) # n
      BY <1>1, <3>1
    <3>3. /\ \/ disk' = disk
             \/ disk' = Touched(File0(p))
             \/ \E f : disk' = With(File0(p), f)
          /\ client[p].pc \in {"fetch", "stat"}
      BY <2>6 DEF FetchChunk, FetchDone, StatFinal
    <3>4. disk'[n] = disk[n]
      <4>1. \A f : disk' = With(File0(p), f) => disk'[n] = disk[n]
        BY <3>2 DEF With, TypeOK
      <4>2. disk' = Touched(File0(p)) => disk'[n] = disk[n]
        BY <3>2, <3>3, TouchEffect DEF Shapes, Staging
      <4> QED
        BY <3>3, <4>1, <4>2
    <3> QED
      BY <1>1, <3>2, <3>4 DEF Exists
  <2>7. CASE Sync(p) \/ MkdirAll(p) \/ RenameFails(p) \/ IoFails(p)
    <3>1. client'[p].pc \in Staging /\ client'[p].name = File0(p)
      BY <2>7, MoveEffect DEF Sync, MkdirAll, RenameFails, IoFails, Staging
    <3>2. File0(p) # n
      BY <1>1, <3>1
    <3>3. disk'[n] = disk[n]
      BY <2>7, <3>2 DEF Sync, MkdirAll, RenameFails, IoFails, TypeOK
    <3> QED
      BY <1>1, <3>2, <3>3 DEF Exists
  <2>8. CASE Rename(p)
    <3>1. /\ KeyOf(p) \in Key /\ File0(p) \in Name
          /\ disk' = [disk EXCEPT ![KeyOf(p)] = disk[File0(p)], ![File0(p)] = None]
      BY <2>8 DEF Rename, Shapes, PostMiss, Leading, Staging
    <3>2. n # File0(p) /\ disk'[n] = disk[n]
      BY <1>1, <3>1 DEF TypeOK
    <3> QED
      BY <1>1, <3>2 DEF Exists
  <2>9. CASE Cleanup(p) \/ ProbeEnd(p)
    <3>1. disk' = Without(File0(p))
      BY <2>9 DEF Cleanup, ProbeEnd, Removed
    <3>2. n # File0(p) /\ disk'[n] = disk[n]
      BY <1>1, <3>1 DEF Without, TypeOK
    <3> QED
      BY <1>1, <3>2 DEF Exists
  <2> QED
    BY <2>1, <2>2, <2>3, <2>4, <2>5, <2>6, <2>7, <2>8, <2>9
       DEF Request, Produce, Commit
<1>3. ASSUME NEW q \in Proc, q # p, client[q].pc \in Staging
      PROVE  File0(q) # n
  <2>1. client'[q] = client[q]
    BY <1>3, OthersKept DEF Staging
  <2> QED
    BY <1>1, <1>3, <2>1
<1> QED
  BY <1>2, <1>3

\* download and Probe (objects/service.go:155-183, diskcache/cache.go:66-67) leave
\* no staging file behind: as long as its removal does not fail, only a crash
\* orphans one, whatever the sweeper takes meanwhile, whatever the eviction age.
THEOREM NoOrphans == Spec => CrashesAloneOrphan
<1> DEFINE Spared == \A n \in Name : "cleanup" \notin Faults /\ up' /\ Orphan(n)'
                                      => Orphan(n)
<1>1. TypeInv /\ Next => Spared
  <2> SUFFICES ASSUME TypeInv, Next, NEW n \in Name,
                      "cleanup" \notin Faults, up', Orphan(n)'
               PROVE  Orphan(n)
    OBVIOUS
  <2>1. CASE \E p \in Proc : Request(p)
    BY <2>1, OrphanRequest
  <2>2. CASE Sweep \/ Tick \/ Boot
    <3>1. UNCHANGED client
      BY <2>2 DEF Sweep, SweepBegin, SweepReadDir, SweepVisit, SweepRemove,
         SweepRemoveFails, SweepWalked, SweepWalkFails, SweepPrune, SweepEnd, Tick,
         Boot
    <3>2. disk' = disk \/ disk' = Without(sw.cand)
      BY <2>2 DEF Sweep, SweepBegin, SweepReadDir, SweepVisit, SweepRemove,
         SweepRemoveFails, SweepWalked, SweepWalkFails, SweepPrune, SweepEnd, Tick,
         Boot
    <3> QED
      BY <3>1, <3>2 DEF Orphan, Exists, Without, TypeInv, TypeOK
  <2>3. CASE Crash
    BY <2>3 DEF Crash
  <2> QED
    BY <2>1, <2>2, <2>3 DEF Next
<1>2. TypeInv /\ [Next]_vars => [Spared]_vars
  BY <1>1
<1> HIDE DEF Spared
<1>3. TypeInv /\ [Next]_vars => TypeInv'
  BY TypeRequest, TypeSweep, TypeRest, ShapesRequest, ShapesRest DEF Next, TypeInv
<1>4. Init => TypeInv
  BY InitIInv DEF IInv, TypeInv
<1>5. Spec => [][Spared]_vars
  BY <1>2, <1>3, <1>4, PTL DEF Spec
<1> QED
  BY <1>5 DEF CrashesAloneOrphan, Spared
=============================================================================
