------------------------------ MODULE DiskCache ------------------------------
(***************************************************************************)
(* Package diskcache at the granularity of its file-system calls, together  *)
(* with the request path that drives it (objects.object, produceOnce and    *)
(* download): look up, miss, produce under singleflight into a staging file, *)
(* commit by rename, re-open.  Beside the requests run the eviction sweeper  *)
(* and the readiness probe; the daemon may crash, or the host lose power,    *)
(* between any two steps.                                                   *)
(*                                                                         *)
(* All state of the cache is the disk: committed entries (Key) live in leaf *)
(* shard directories (Dir), staging files (Name) in the directory Tmp.      *)
(* Nothing tells the sweeper which entries are in use except their          *)
(* modification times, so time is part of the model.                        *)
(***************************************************************************)
EXTENDS Integers, FiniteSets, Functions

CONSTANTS
  Key,          \* cache entries: (role, id, inner) triples
  Name,         \* names os.CreateTemp can hand out
  Dir,          \* leaf shard directories
  DirOf,        \* the shard directory of each entry
  Tmp,          \* the staging directory
  Proc,         \* concurrent requests (and readiness probes)
  None,         \* no file, no entry, no process
  Sizes,        \* sizes a produced entry can have
  MaxUnused,    \* the eviction age, CACHE_MAX_UNUSED_FOR
  Hold,         \* environment: the longest a request takes, in ticks
  MaxTime,      \* bound on the clock
  MaxCrashes,   \* bound on the crashes
  Faults,       \* which calls may fail on a file that is there
  NamesRecur    \* whether a name still remembered may be handed out again

Path == Key \cup Name

ASSUME PathAssumption == Key \cap Name = {} /\ None \notin Path
ASSUME DirAssumption  == DirOf \in [Key -> Dir] /\ Tmp \notin Dir
ASSUME ProcAssumption == None \notin Proc
ASSUME TimeAssumption == MaxUnused \in Int /\ Hold \in Nat
ASSUME SizeAssumption == Sizes \subseteq Nat
ASSUME BoundAssumption == MaxTime \in Nat /\ MaxCrashes \in Nat

\* "walk": reading the cache tree (Evict and SeedMetrics); "stat": Commit's
\* os.Stat of the entry; "sweep": Evict's os.Remove; "cleanup": the os.Remove of
\* a staging file by the request that made it.
ASSUME FaultAssumption == Faults \subseteq {"walk", "stat", "sweep", "cleanup"}

\* A staging file that was swept while in use leaves a descriptor and a path that
\* may lead to two files, which this model does not tell apart: that the random
\* suffix does not come again is an assumption where live files can be swept.
ASSUME NameAssumption == /\ NamesRecur \in BOOLEAN
                         /\ NamesRecur => MaxUnused >= 2 * Hold

VARIABLES
  now,      \* the clock
  disk,     \* the file at each path, or None
  dirs,     \* the shard directories that exist
  client,   \* where each request is
  flight,   \* singleflight: who is producing each entry
  sw,       \* the eviction sweeper
  gauge,    \* cache_entries and cache_size_bytes
  up,       \* whether the daemon runs
  crashes   \* how often it crashed

vars == <<now, disk, dirs, client, flight, sw, gauge, up, crashes>>

-----------------------------------------------------------------------------
File == [mtime : Nat, size : Nat, whole : BOOLEAN, synced : BOOLEAN]

\* os.Stat / os.Open cannot return None: it is the model's "no such file".
ASSUME FileAssumption == None \notin File

Exists(x) == disk[x] # None

Entries == {k \in Key : Exists(k)}

Home(x) == IF x \in Name THEN Tmp ELSE DirOf[x]

\* Removing a path, writing a file to it, and touching one that is there.
Without(x)  == [disk EXCEPT ![x] = None]
With(x, f)  == [disk EXCEPT ![x] = f]
Touched(x)  == IF Exists(x) THEN [disk EXCEPT ![x].mtime = now] ELSE disk

-----------------------------------------------------------------------------
(* Requests.                                                               *)

\* touch: a lookup opened the entry and is about to update its timestamps.
\* missed .. reopen: the request missed; wait is a coalesced follower, and
\* resolve .. cleanup are the steps of the one producer.
Leading  == {"resolve", "fetch", "sync", "mkdir", "stat", "rename", "account",
             "cleanup"}
PostMiss == Leading \cup {"missed", "wait", "reopen", "nil"}
Staging  == {"fetch", "sync", "mkdir", "stat", "rename", "cleanup", "probe"}
PC       == PostMiss \cup {"idle", "touch", "probe"}

\* No earlier entry was seen at the final path by Commit's os.Stat.
NoPrior == -1

Client == [pc : PC, key : Key \cup {None}, since : Nat,
           name : Name \cup {None}, size : Nat, prior : Nat \cup {NoPrior}]

\* A request at pc that began at t, for entry k, with staging file n.
Record(pc, k, t, n) == [pc |-> pc, key |-> k, since |-> t, name |-> n,
                        size |-> 0, prior |-> NoPrior]

Idle == Record("idle", None, 0, None)

At(p, pc)   == client[p].pc = pc
KeyOf(p)    == client[p].key
File0(p)    == client[p].name
Step(p, pc) == client' = [client EXCEPT ![p].pc = pc]

Quiet == [pc |-> "sleep", cutoff |-> 0, due |-> {}, seen |-> {}, names |-> {},
          cand |-> None, candSize |-> 0, freed |-> 0, freedBytes |-> 0]

Init == /\ now = 0
        /\ disk = [x \in Path |-> None]
        /\ dirs = {}
        /\ client = [p \in Proc |-> Idle]
        /\ flight = [k \in Key |-> None]
        /\ sw = Quiet
        /\ gauge = [entries |-> 0, bytes |-> 0]
        /\ up = TRUE
        /\ crashes = 0

\* Cache.Lookup: os.Open hits, or misses with no error.
LookupHit(p, k) ==
  /\ up /\ At(p, "idle") /\ Exists(k)
  /\ client' = [client EXCEPT ![p] = Record("touch", k, now, None)]
  /\ UNCHANGED <<now, disk, dirs, flight, sw, gauge, up, crashes>>

LookupMiss(p, k) ==
  /\ up /\ At(p, "idle") /\ ~Exists(k)
  /\ client' = [client EXCEPT ![p] = Record("missed", k, now, None)]
  /\ UNCHANGED <<now, disk, dirs, flight, sw, gauge, up, crashes>>

\* os.Chtimes acts on the path, best effort: the entry opened a moment ago may
\* be gone, or another one may have taken its place.
Touch(p) ==
  /\ At(p, "touch")
  /\ disk' = Touched(KeyOf(p))
  /\ client' = [client EXCEPT ![p] = Idle]
  /\ UNCHANGED <<now, dirs, flight, sw, gauge, up, crashes>>

\* Mutant: a coalesced caller does not wait for the producer.
JoinNoWait(p) ==
  /\ At(p, "missed") /\ flight[KeyOf(p)] # None
  /\ Step(p, "reopen")
  /\ UNCHANGED <<now, disk, dirs, flight, sw, gauge, up, crashes>>

\* produceOnce: group.Do runs the closure of the first caller and makes the
\* others wait for its result.
Lead(p) ==
  /\ At(p, "missed") /\ flight[KeyOf(p)] = None
  /\ flight' = [flight EXCEPT ![KeyOf(p)] = p]
  /\ Step(p, "resolve")
  /\ UNCHANGED <<now, disk, dirs, sw, gauge, up, crashes>>

Join(p) ==
  /\ At(p, "missed") /\ flight[KeyOf(p)] # None
  /\ Step(p, "wait")
  /\ UNCHANGED <<now, disk, dirs, flight, sw, gauge, up, crashes>>

\* The end of the flight p leads: everybody on it gets the same outcome.
OnFlight(p) == {q \in Proc : q = p \/ (At(q, "wait") /\ KeyOf(q) = KeyOf(p))}

EndFlight(p, ok) ==
  /\ flight' = [flight EXCEPT ![KeyOf(p)] = None]
  /\ client' = [q \in Proc |->
       IF q \notin OnFlight(p) THEN client[q]
       ELSE IF ok THEN Record("reopen", KeyOf(p), client[q].since, None)
       ELSE Idle]

\* The resolver finds nothing or fails, or CreateTemp does: no staging file.
ResolveFails(p) ==
  /\ At(p, "resolve")
  /\ EndFlight(p, FALSE)
  /\ UNCHANGED <<now, disk, dirs, sw, gauge, up, crashes>>

\* os.CreateTemp opens with O_EXCL and a random suffix: a name no file has.
FreeName(n) == ~Exists(n) /\ (NamesRecur \/ \A q \in Proc : File0(q) # n)

Empty == [mtime |-> now, size |-> 0, whole |-> FALSE, synced |-> FALSE]

NewTemp(p) ==
  /\ At(p, "resolve")
  /\ \E n \in Name :
       /\ FreeName(n)
       /\ disk' = With(n, Empty)
       /\ client' = [client EXCEPT ![p] = [@ EXCEPT !.pc = "fetch", !.name = n]]
  /\ UNCHANGED <<now, dirs, flight, sw, gauge, up, crashes>>

\* A chunk arrives: the write moves the staging file's modification time.  The
\* descriptor stays writable when the sweeper has unlinked the file.
FetchChunk(p) ==
  /\ At(p, "fetch")
  /\ disk' = Touched(File0(p))
  /\ UNCHANGED <<now, dirs, client, flight, sw, gauge, up, crashes>>

\* The last chunk: the entry has its final size.
FetchDone(p) ==
  /\ At(p, "fetch")
  /\ \E s \in Sizes :
       /\ disk' = IF Exists(File0(p))
                  THEN With(File0(p), [Empty EXCEPT !.size = s, !.whole = TRUE])
                  ELSE disk
       /\ client' = [client EXCEPT ![p] = [@ EXCEPT !.pc = "sync", !.size = s]]
  /\ UNCHANGED <<now, dirs, flight, sw, gauge, up, crashes>>

-----------------------------------------------------------------------------
(* Cache.Commit, one file-system call at a time, and what download does     *)
(* when it fails.                                                           *)

\* Mutant: Commit renames without fsyncing first.
SyncDropped(p) ==
  /\ At(p, "sync")
  /\ Step(p, "mkdir")
  /\ UNCHANGED <<now, disk, dirs, flight, sw, gauge, up, crashes>>

Sync(p) ==
  /\ At(p, "sync")
  /\ disk' = IF Exists(File0(p)) THEN [disk EXCEPT ![File0(p)].synced = TRUE]
                                 ELSE disk
  /\ Step(p, "mkdir")
  /\ UNCHANGED <<now, dirs, flight, sw, gauge, up, crashes>>

MkdirAll(p) ==
  /\ At(p, "mkdir")
  /\ dirs' = dirs \cup {DirOf[KeyOf(p)]}
  /\ Step(p, "stat")
  /\ UNCHANGED <<now, disk, flight, sw, gauge, up, crashes>>

\* The sizes os.Stat may report of an entry: any error counts as no entry.
Seen(k) == {IF Exists(k) THEN disk[k].size ELSE NoPrior}
             \cup (IF "stat" \in Faults THEN {NoPrior} ELSE {})

\* existed and oldSize, read before the rename and used after it.
StatFinal(p) ==
  /\ At(p, "stat")
  /\ \E s \in Seen(KeyOf(p)) :
       client' = [client EXCEPT ![p] = [@ EXCEPT !.pc = "rename", !.prior = s]]
  /\ UNCHANGED <<now, disk, dirs, flight, sw, gauge, up, crashes>>

CanRename(p) == Exists(File0(p)) /\ DirOf[KeyOf(p)] \in dirs

\* os.Rename replaces the entry atomically and keeps the modification time.
Rename(p) ==
  /\ At(p, "rename") /\ CanRename(p)
  /\ disk' = [disk EXCEPT ![KeyOf(p)] = disk[File0(p)], ![File0(p)] = None]
  /\ client' = [client EXCEPT ![p] = [@ EXCEPT !.pc = "account", !.name = None]]
  /\ UNCHANGED <<now, dirs, flight, sw, gauge, up, crashes>>

\* Mutant: only a failed fetch, not a failed commit, removes the staging file.
RenameAbandons(p) ==
  /\ At(p, "rename") /\ ~CanRename(p)
  /\ EndFlight(p, FALSE)
  /\ UNCHANGED <<now, disk, dirs, sw, gauge, up, crashes>>

\* ENOENT: the sweeper took the staging file, or the shard directory.
RenameFails(p) ==
  /\ At(p, "rename") /\ ~CanRename(p)
  /\ Step(p, "cleanup")
  /\ UNCHANGED <<now, disk, dirs, flight, sw, gauge, up, crashes>>

\* The gauge deltas of one commit: both fields count from what os.Stat saw.
OldSize(c) == IF c.prior = NoPrior THEN 0 ELSE c.prior

\* Mutant: a replaced entry counts as a new one.
NewEntriesAlways(c) == 1

NewEntries(c) == IF c.prior = NoPrior THEN 1 ELSE 0
NewBytes(c)   == c.size - OldSize(c)

\* The gauges move, Commit returns nil, and the flight is over.
Account(p) ==
  /\ At(p, "account")
  /\ gauge' = [entries |-> gauge.entries + NewEntries(client[p]),
               bytes   |-> gauge.bytes + NewBytes(client[p])]
  /\ EndFlight(p, TRUE)
  /\ UNCHANGED <<now, disk, dirs, sw, up, crashes>>

\* The blob store has no such key or breaks off, the disk is full, a directory
\* cannot be made: any step before the rename has succeeded can fail.
IoFails(p) ==
  /\ client[p].pc \in {"fetch", "sync", "mkdir", "rename"}
  /\ Step(p, "cleanup")
  /\ UNCHANGED <<now, disk, dirs, flight, sw, gauge, up, crashes>>

\* The disk once a request has removed its staging file, or failed to: the error
\* is dropped, and the file stays behind.
Removed(n) == {Without(n)} \cup (IF "cleanup" \in Faults THEN {disk} ELSE {})

\* The deferred os.Remove of a staging file that was not committed.
Cleanup(p) ==
  /\ At(p, "cleanup")
  /\ disk' \in Removed(File0(p))
  /\ EndFlight(p, FALSE)
  /\ UNCHANGED <<now, dirs, sw, gauge, up, crashes>>

-----------------------------------------------------------------------------
(* The second Lookup of objects.object.                                    *)

ReopenHit(p) ==
  /\ At(p, "reopen") /\ Exists(KeyOf(p))
  /\ Step(p, "touch")
  /\ UNCHANGED <<now, disk, dirs, flight, sw, gauge, up, crashes>>

\* Lookup reports a miss, and object returns it as (nil, nil, nil).
ReopenMiss(p) ==
  /\ At(p, "reopen") /\ ~Exists(KeyOf(p))
  /\ Step(p, "nil")
  /\ UNCHANGED <<now, disk, dirs, flight, sw, gauge, up, crashes>>

\* Opening or statting the entry fails with an error of its own, or a caller
\* is handed a nil file: either way the request is answered.
Answer(p) ==
  /\ client[p].pc \in {"reopen", "nil"}
  /\ client' = [client EXCEPT ![p] = Idle]
  /\ UNCHANGED <<now, disk, dirs, flight, sw, gauge, up, crashes>>

\* Cache.Probe, behind /readyz: a staging file comes and goes.
ProbeStart(p) ==
  /\ up /\ At(p, "idle")
  /\ \E n \in Name :
       /\ FreeName(n)
       /\ disk' = With(n, Empty)
       /\ client' = [client EXCEPT ![p] = Record("probe", None, now, n)]
  /\ UNCHANGED <<now, dirs, flight, sw, gauge, up, crashes>>

ProbeEnd(p) ==
  /\ At(p, "probe")
  /\ disk' \in Removed(File0(p))
  /\ client' = [client EXCEPT ![p] = Idle]
  /\ UNCHANGED <<now, dirs, flight, sw, gauge, up, crashes>>

-----------------------------------------------------------------------------
(* Cache.Evict: WalkDir over the tree, then pruneEmptyDirs, then gauges.     *)

\* Mutant: the cutoff forgets maxUnused.
CutoffNow == now

Cutoff == now - MaxUnused

\* Mutant: only the shard directories are walked, not the staging files.
StagedSkipped ==
  /\ up /\ sw.pc = "sleep"
  /\ sw' = [Quiet EXCEPT !.pc = "walk", !.cutoff = Cutoff,
                         !.due = dirs, !.seen = {Tmp}]
  /\ UNCHANGED <<now, disk, dirs, client, flight, gauge, up, crashes>>

SweepBegin ==
  /\ up /\ sw.pc = "sleep"
  /\ sw' = [Quiet EXCEPT !.pc = "walk", !.cutoff = Cutoff,
                         !.due = dirs \cup {Tmp}]
  /\ UNCHANGED <<now, disk, dirs, client, flight, gauge, up, crashes>>

Walking == sw.pc = "walk" /\ sw.cand = None

\* WalkDir reads a whole directory, then hands out its names one by one.  A
\* directory made since the walk began may or may not be met.
SweepReadDir(d) ==
  /\ Walking /\ sw.names = {} /\ d \notin sw.seen
  /\ sw' = [sw EXCEPT !.names = {x \in Path : Exists(x) /\ Home(x) = d},
                      !.seen = @ \cup {d}]
  /\ UNCHANGED <<now, disk, dirs, client, flight, gauge, up, crashes>>

\* Mutant: a file exactly at the cutoff is swept as well.
StaleInclusive(x) == Exists(x) /\ disk[x].mtime <= sw.cutoff

\* info.ModTime().Before(cutoff)
Stale(x) == Exists(x) /\ disk[x].mtime < sw.cutoff

\* d.Info stats the file, which may have vanished, and the age is compared ...
SweepVisit(x) ==
  /\ Walking /\ x \in sw.names
  /\ sw' = [sw EXCEPT !.names = @ \ {x},
                      !.cand = IF Stale(x) THEN x ELSE None,
                      !.candSize = IF Stale(x) THEN disk[x].size ELSE 0]
  /\ UNCHANGED <<now, disk, dirs, client, flight, gauge, up, crashes>>

\* Mutant: staging files count as entries when they are swept.
FreesAny(x) == Exists(x)

\* Only the removal of a committed entry moves the gauges.
Frees(x) == Exists(x) /\ x \in Key

\* ... and the path is removed in a second call, whatever is there by then.
SweepRemove ==
  /\ sw.pc = "walk" /\ sw.cand # None
  /\ disk' = Without(sw.cand)
  /\ sw' = [sw EXCEPT !.cand = None, !.candSize = 0,
              !.freed = IF Frees(sw.cand) THEN @ + 1 ELSE @,
              !.freedBytes = IF Frees(sw.cand) THEN @ + sw.candSize ELSE @]
  /\ UNCHANGED <<now, dirs, client, flight, gauge, up, crashes>>

\* A removal, or d.Info before it, may fail on a file that is there: the file and
\* the counts stay as they are.
SweepRemoveFails ==
  /\ "sweep" \in Faults
  /\ sw.pc = "walk" /\ sw.cand # None
  /\ sw' = [sw EXCEPT !.cand = None, !.candSize = 0]
  /\ UNCHANGED <<now, disk, dirs, client, flight, gauge, up, crashes>>

SweepWalked ==
  /\ Walking /\ sw.names = {} /\ sw.due \subseteq sw.seen
  /\ sw' = [sw EXCEPT !.pc = "prune", !.due = {}, !.seen = @ \ {Tmp}]
  /\ UNCHANGED <<now, disk, dirs, client, flight, gauge, up, crashes>>

\* An error of the walk ends the sweep at once: what was removed so far is not
\* subtracted from the gauges, and nothing is pruned.
SweepWalkFails ==
  /\ "walk" \in Faults /\ Walking
  /\ sw' = Quiet
  /\ UNCHANGED <<now, disk, dirs, client, flight, gauge, up, crashes>>

\* pruneEmptyDirs: os.Remove of every directory the walk met; it only works on
\* an empty one.
SweepPrune(d) ==
  /\ sw.pc = "prune" /\ d \in sw.seen
  /\ sw' = [sw EXCEPT !.seen = @ \ {d}]
  /\ dirs' = IF \E k \in Entries : DirOf[k] = d THEN dirs ELSE dirs \ {d}
  /\ UNCHANGED <<now, disk, client, flight, gauge, up, crashes>>

SweepEnd ==
  /\ sw.pc = "prune" /\ sw.seen = {}
  /\ gauge' = [entries |-> gauge.entries - sw.freed,
               bytes   |-> gauge.bytes - sw.freedBytes]
  /\ sw' = Quiet
  /\ UNCHANGED <<now, disk, dirs, client, flight, up, crashes>>

-----------------------------------------------------------------------------
(* Time, crashes and restarts.                                             *)

\* Environment: no request is in the daemon for longer than Hold.
Tick ==
  /\ now < MaxTime
  /\ \A p \in Proc : ~At(p, "idle") => now - client[p].since < Hold
  /\ now' = now + 1
  /\ UNCHANGED <<disk, dirs, client, flight, sw, gauge, up, crashes>>

\* The process or the host dies.  Names survive; the content of a file that was
\* not fsynced may not.
Crash ==
  /\ up /\ crashes < MaxCrashes
  /\ \E torn \in SUBSET {x \in Path : Exists(x) /\ ~disk[x].synced} :
       disk' = [x \in Path |-> IF x \in torn
                               THEN [disk[x] EXCEPT !.whole = FALSE]
                               ELSE disk[x]]
  /\ client' = [p \in Proc |-> Idle]
  /\ flight' = [k \in Key |-> None]
  /\ sw' = Quiet
  /\ gauge' = [entries |-> 0, bytes |-> 0]
  /\ up' = FALSE
  /\ crashes' = crashes + 1
  /\ UNCHANGED <<now, dirs>>

Sizing == [k \in Entries |-> disk[k].size]

\* computeSize walks the tree the last run left.
Counted == [entries |-> Cardinality(Entries), bytes |-> SumFunction(Sizing)]

\* SeedMetrics; when its walk fails the gauges stay at zero.
Boot ==
  /\ ~up
  /\ up' = TRUE
  /\ \/ gauge' = Counted
     \/ "walk" \in Faults /\ UNCHANGED gauge
  /\ UNCHANGED <<now, disk, dirs, client, flight, sw, crashes>>

-----------------------------------------------------------------------------
Commit(p) == \/ Sync(p) \/ MkdirAll(p) \/ StatFinal(p)
             \/ Rename(p) \/ RenameFails(p) \/ Account(p)

Produce(p) == \/ ResolveFails(p) \/ NewTemp(p)
              \/ FetchChunk(p) \/ FetchDone(p)
              \/ Commit(p) \/ IoFails(p) \/ Cleanup(p)

Request(p) == \/ \E k \in Key : LookupHit(p, k) \/ LookupMiss(p, k)
              \/ Touch(p) \/ Lead(p) \/ Join(p)
              \/ Produce(p)
              \/ ReopenHit(p) \/ ReopenMiss(p) \/ Answer(p)
              \/ ProbeStart(p) \/ ProbeEnd(p)

Sweep == \/ SweepBegin
         \/ \E d \in dirs \cup {Tmp} : SweepReadDir(d)
         \/ \E x \in Path : SweepVisit(x)
         \/ SweepRemove \/ SweepRemoveFails
         \/ SweepWalked \/ SweepWalkFails
         \/ \E d \in Dir : SweepPrune(d)
         \/ SweepEnd

Next == \/ \E p \in Proc : Request(p)
        \/ Sweep
        \/ Tick \/ Crash \/ Boot

Spec == Init /\ [][Next]_vars

\* The ticker keeps firing and the supervisor restarts a dead daemon.
FairSpec == Spec /\ WF_vars(Sweep) /\ WF_vars(Boot)

Contract == INSTANCE CacheContract WITH
              present <- Entries,
              asking  <- [p \in Proc |-> IF client[p].pc \in PostMiss
                                         THEN client[p].key ELSE None]

-----------------------------------------------------------------------------
(* Properties.                                                             *)

SweepType == [pc : {"sleep", "walk", "prune"}, cutoff : Int,
              due : SUBSET (Dir \cup {Tmp}), seen : SUBSET (Dir \cup {Tmp}),
              names : SUBSET Path, cand : Path \cup {None}, candSize : Nat,
              freed : Nat, freedBytes : Nat]

\* Every variable has its type.  (What the gauges are is GaugesExact's business.)
TypeOK ==
  /\ now \in Nat
  /\ disk \in [Path -> File \cup {None}]
  /\ dirs \in SUBSET Dir
  /\ client \in [Proc -> Client]
  /\ flight \in [Key -> Proc \cup {None}]
  /\ sw \in SweepType
  /\ up \in BOOLEAN
  /\ crashes \in Nat

\* objects/service.go:74 "Re-open the freshly committed entry. This always
\* hits": from the commit on, the entry is there for the producer and for every
\* follower it releases, and nobody is handed a nil file.
ReopenHits ==
  \A p \in Proc : /\ client[p].pc \in {"account", "reopen"} => Exists(KeyOf(p))
                  /\ ~At(p, "nil")

\* The sweeper, which clears abandoned staging files by age alone, never takes
\* one that a download, a commit or a readiness probe still works on.
LiveStagingKept ==
  \A p \in Proc : client[p].pc \in Staging => Exists(File0(p))

\* What the sweeper has found stale and is about to remove is never an entry
\* some request still has to open nor the staging file of a live producer,
\* although its second call takes whatever is at the path by then.
SweepSparesInUse ==
  sw.cand # None =>
    \A p \in Proc : /\ client[p].pc \in PostMiss => client[p].key # sw.cand
                    /\ client[p].pc \in Staging => client[p].name # sw.cand

\* Commit fsyncs before it renames (cache.go:100): whatever the crash, an entry
\* under its final name has all of its bytes.
EntriesWhole == \A k \in Entries : disk[k].whole

\* A staging file nobody works on.
Orphan(n) == /\ Exists(n)
             /\ \A p \in Proc : client[p].pc \in Staging => File0(p) # n

\* NewTemp (diskcache/cache.go:66-67): a caller that does not commit its staging
\* file must remove it.  Wherever a download, a commit or a probe ends, beside a
\* sweep that may take its file or its shard directory, only a crash leaves an
\* orphan for the sweeper, unless the removal itself fails.
CrashesAloneOrphan ==
  [][\A n \in Name : "cleanup" \notin Faults /\ up' /\ Orphan(n)' => Orphan(n)]_vars

\* Bytes and entries that commits or a sweep in progress have put on or taken
\* off the disk without having moved the gauges yet.
Uncounted == {p \in Proc : At(p, "account")}
EntriesDue == [p \in Uncounted |-> NewEntries(client[p])]
BytesDue   == [p \in Uncounted |-> NewBytes(client[p])]
PendingEntries == SumFunction(EntriesDue) - sw.freed
PendingBytes   == SumFunction(BytesDue) - sw.freedBytes

\* cache_entries and cache_size_bytes (metrics/metrics.go:73-85) are never
\* adjusted by more or less than what changed on disk, although commits stat,
\* rename and count in separate steps beside a sweep that does the same.
GaugesExact ==
  up => /\ gauge.entries + PendingEntries = Counted.entries
        /\ gauge.bytes + PendingBytes = Counted.bytes

\* Evict (eviction.go:14-19): a file unused for longer than MaxUnused, abandoned
\* staging files included, is eventually swept (or used again).
Overdue(x) == Exists(x) /\ disk[x].mtime < now - MaxUnused
StaleSwept == \A x \in Path : Overdue(x) ~> ~Overdue(x)

\* eviction.go:79-80 "a non-empty (still-in-use) directory simply fails to
\* remove; that is the intended guard": the directory a commit has just made
\* sure of is there when it renames into it.
CommitFindsDir ==
  \A p \in Proc : client[p].pc \in {"stat", "rename"} =>
                    DirOf[KeyOf(p)] \in dirs

\* The promise to the request path, as a specification of its own.
ContractSpec == Contract!Spec

-----------------------------------------------------------------------------
(* The inductive invariant behind ReopenHits, LiveStagingKept and           *)
(* SweepSparesInUse.                                                        *)

Live(p) == ~At(p, "idle")

\* No request is older than Hold.
Ages == \A p \in Proc : Live(p) => /\ client[p].since <= now
                                   /\ now - client[p].since <= Hold

\* A sweep's cutoff lags the clock by at least MaxUnused.
CutoffPast == sw.pc = "walk" => sw.cutoff <= now - MaxUnused

\* A request that looked an entry up knows its key, one that writes a staging
\* file its name.
Shapes == \A p \in Proc :
            /\ client[p].pc \in PostMiss \cup {"touch"} => KeyOf(p) \in Key
            /\ client[p].pc \in Staging => File0(p) \in Name

\* No two requests use the same staging file.
Owns == \A p, q \in Proc : /\ p # q
                           /\ client[p].pc \in Staging
                           /\ client[q].pc \in Staging
                           => File0(p) # File0(q)

\* A staging file in use was written to during its request.
StagingFresh ==
  \A p \in Proc : client[p].pc \in Staging =>
                    /\ Exists(File0(p))
                    /\ disk[File0(p)].mtime >= client[p].since

\* An entry that has appeared since a request missed it was produced by a
\* request that was alive then.
MissFresh ==
  \A p \in Proc : client[p].pc \in PostMiss /\ Exists(KeyOf(p)) =>
                    disk[KeyOf(p)].mtime >= client[p].since - Hold

\* A flight has one producer, which is the process registered for it, and
\* followers only wait on a flight.
Flights ==
  /\ \A p \in Proc : client[p].pc \in Leading => flight[KeyOf(p)] = p
  /\ \A p \in Proc : At(p, "wait") => flight[KeyOf(p)] # None
  /\ \A k \in Key : flight[k] # None =>
       /\ client[flight[k]].pc \in Leading
       /\ KeyOf(flight[k]) = k

\* Nobody else removes what the sweeper has its eye on.
CandThere == sw.cand # None => Exists(sw.cand)

IInv == /\ TypeOK
        /\ Shapes /\ Ages /\ CutoffPast /\ Owns /\ StagingFresh /\ MissFresh /\ Flights
        /\ CandThere /\ SweepSparesInUse
        /\ ReopenHits

-----------------------------------------------------------------------------
(* The inductive invariant behind GaugesExact, beside IInv.                 *)

\* What os.Stat saw is still true when the rename replaces it.
PriorHolds ==
  \A p \in Proc : At(p, "rename") =>
    client[p].prior = IF Exists(KeyOf(p)) THEN disk[KeyOf(p)].size ELSE NoPrior

\* A commit adds the size of the very file it renames.
StagedSized ==
  \A p \in Proc : /\ client[p].pc \in {"sync", "mkdir", "stat", "rename"}
                  /\ Exists(File0(p))
                  => disk[File0(p)].size = client[p].size

\* The size of the entry the sweeper is about to remove is still its size.
CandSized == sw.cand \in Key => disk[sw.cand].size = sw.candSize

\* Between sweeps nothing is left to subtract, and while the daemon is down
\* nobody is under way in it.
AtRest == /\ sw.pc = "sleep" => sw.freed = 0 /\ sw.freedBytes = 0
          /\ ~up => sw.pc = "sleep" /\ \A p \in Proc : At(p, "idle")

\* Only so many entries and requests ever came about.
Finite == IsFiniteSet(Entries) /\ IsFiniteSet(Uncounted)

GaugeType == gauge \in [entries : Int, bytes : Int]

GaugeInv == /\ IInv
            /\ PriorHolds /\ StagedSized /\ CandSized
            /\ AtRest /\ Finite /\ GaugeType
            /\ GaugesExact

-----------------------------------------------------------------------------
(* The inductive invariant behind EntriesWhole.                             *)

\* Every byte is there, and on the disk.
Durable(x) == disk[x].whole /\ disk[x].synced

\* A staging file on its way to the rename is whole, and durable once fsynced.
StagedWhole ==
  \A p \in Proc :
    /\ At(p, "sync") /\ Exists(File0(p)) => disk[File0(p)].whole
    /\ client[p].pc \in {"mkdir", "stat", "rename"} /\ Exists(File0(p))
         => Durable(File0(p))

\* So what a crash can tear is never an entry.
EntriesDurable == \A k \in Entries : Durable(k)

DurableInv == /\ TypeOK /\ Shapes /\ Owns
              /\ StagedWhole /\ EntriesDurable
=============================================================================
