------------------------------- MODULE Daemon -------------------------------
(***************************************************************************)
(* main.go and httpapi/server.go: one life of the process, from its           *)
(* settings to its exit.  Beside main run the goroutine that seeds the cache *)
(* gauges, the eviction goroutine, two listeners, and the handlers.          *)
(*                                                                         *)
(* Time is three countdowns: to the end of the seed's walk, to the eviction  *)
(* ticker's next tick, and to the end of the drain.                          *)
(***************************************************************************)
EXTENDS Integers, FiniteSets

CONSTANTS Public,     \* requests to the public listener
          Admin,      \* requests to the admin listener
          Entry,      \* cache entries
          SeedMax,    \* the longest a seed's walk may take
          Interval,   \* evictionInterval
          Grace       \* shutdownGrace

\* The comment at main.go:53 "We join on it before serving (and well before the
\* first eviction sweep)": that the walk is shorter than the interval is not
\* enforced.
ASSUME SeedAssumption  == SeedMax \in Nat /\ Interval \in Nat /\ SeedMax < Interval
ASSUME GraceAssumption == Grace \in Nat \ {0}
ASSUME RequestAssumption == Public \cap Admin = {}
ASSUME FiniteAssumption == IsFiniteSet(Entry) /\ IsFiniteSet(Public \cup Admin)

\* file and env: SENTRY_AUTH_TOKEN_FILE and SENTRY_AUTH_TOKEN.  valid: every
\* other setting that validate looks at.
Settings == [file : {"unset", "readable", "blank", "unreadable"}, env : BOOLEAN,
             url : BOOLEAN, valid : BOOLEAN]

Request  == Public \cup Admin
Listener == {"public", "admin"}

VARIABLES
  settings,   \* flags and environment
  token,      \* where the Sentry token came from
  pc,         \* where main is
  result,     \* what run returns
  signalled,  \* ctx is cancelled
  seed,       \* the seed's walk: entries it still has to visit and has counted
  disk,       \* entries in the cache directory
  gauge,      \* cache_entries
  sweep,      \* the eviction goroutine, and what its sweep has removed
  listener,   \* the two listeners
  errc,       \* errors in the channel they report to
  req,        \* handlers
  left        \* the countdowns

vars == <<settings, token, pc, result, signalled, seed, disk, gauge, sweep,
          listener, errc, req, left>>

cache   == <<disk, gauge>>
servers == <<listener, errc>>
config  == <<settings, token>>

-----------------------------------------------------------------------------
(* config.Load.                                                             *)

FromEnv(s) == IF s.env THEN {"env"} ELSE {"none"}

\* Mutant: an unreadable secret file is treated like one that is not set.
SecretOrEnv(s) ==
  CASE s.file = "readable"   -> {"file"}
    [] s.file = "blank"      -> {"none"}
    [] s.file = "unset" \/ s.file = "unreadable" -> FromEnv(s)

\* No token at all, the empty set, stands for an error.
loadSecret(s) ==
  CASE s.file = "readable"   -> {"file"}
    [] s.file = "blank"      -> {"none"}
    [] s.file = "unreadable" -> {}
    [] s.file = "unset"      -> FromEnv(s)

validate(s, tok) == s.valid /\ (s.url => tok # "none")

-----------------------------------------------------------------------------
Running == pc # "exited"
Active(rs) == {r \in rs : req[r].pc # "idle"}

Init == /\ settings \in Settings
        /\ token = "none"
        /\ pc = "load" /\ result = "none"
        /\ signalled = FALSE
        /\ disk \in SUBSET Entry
        /\ gauge = 0
        /\ seed = [pc |-> "off", todo |-> {}, counted |-> 0]
        /\ sweep = [pc |-> "off", todo |-> {}, freed |-> 0]
        /\ listener = [l \in Listener |-> "off"]
        /\ errc = 0
        /\ req = [r \in Request |-> [pc |-> "idle", new |-> 0]]
        /\ left = [seed |-> SeedMax, ticker |-> Interval, drain |-> Grace]

-----------------------------------------------------------------------------
(* main.                                                                    *)

Exit(res) == pc' = "exited" /\ result' = res

\* Load, diskcache.New and the two goroutines started next; any of the calls
\* may fail.
Load ==
  /\ pc = "load"
  /\ \/ /\ \E tok \in loadSecret(settings) :
             validate(settings, tok) /\ token' = tok
        /\ pc' = "setup"
        /\ seed' = [seed EXCEPT !.pc = "walking", !.todo = disk]
        /\ sweep' = [sweep EXCEPT !.pc = "waiting"]
        /\ UNCHANGED result
     \/ /\ Exit("error")
        /\ UNCHANGED <<token, seed, sweep>>
  /\ UNCHANGED <<settings, signalled, cache, servers, req, left>>

\* storage.NewS3 and the constructors after it.
Setup ==
  /\ pc = "setup"
  /\ \/ pc' = "join" /\ UNCHANGED result
     \/ Exit("error")
  /\ UNCHANGED <<config, signalled, seed, cache, sweep, servers, req, left>>

\* Mutant: main does not wait for the seed.
Unjoined == TRUE

\* <-seeded
Joined == seed.pc \in {"done", "failed"}

Serve ==
  /\ pc = "join" /\ Joined
  /\ pc' = "serve"
  /\ listener' = [l \in Listener |-> "binding"]
  /\ UNCHANGED <<config, result, signalled, seed, cache, sweep, errc, req, left>>

\* Mutant: a listener whose failure is reported already is closed once more.
CloseAny(l) == listener' = [listener EXCEPT ![l] = "closed"]

\* Shutdown of a listener makes its goroutine report ErrServerClosed, unless it
\* has reported a failure before.
Close(l) == listener' = [listener EXCEPT ![l] = IF @ \in {"binding", "open"} THEN "closed" ELSE @]

\* The select of Server.Run, and the first Shutdown's closing of its listener.
Stop ==
  /\ pc = "serve"
  /\ \/ signalled /\ result' = "ok" /\ UNCHANGED errc
     \/ errc > 0 /\ errc' = errc - 1 /\ result' = "error"
  /\ pc' = "drain_public"
  /\ Close("public")
  /\ UNCHANGED <<config, signalled, seed, cache, sweep, req, left>>

\* Mutant: the drain's deadline is derived from the context that ended the run.
CancelledDeadline == left.drain = 0 \/ signalled

\* shutCtx drops ctx's cancellation: only its own timeout ends it.
DeadlinePassed == left.drain = 0

DrainPublic ==
  /\ pc = "drain_public"
  /\ Active(Public) = {} \/ DeadlinePassed
  /\ pc' = "drain_admin"
  /\ Close("admin")
  /\ UNCHANGED <<config, result, signalled, seed, cache, sweep, errc, req, left>>

DrainAdmin ==
  /\ pc = "drain_admin"
  /\ Active(Admin) = {} \/ DeadlinePassed
  /\ Exit(result)
  /\ UNCHANGED <<config, signalled, seed, cache, sweep, servers, req, left>>

Main == Load \/ Setup \/ Serve \/ Stop \/ DrainPublic \/ DrainAdmin

\* SIGTERM.  Before signal.NotifyContext it ends the process.
Signal ==
  /\ Running /\ ~signalled
  /\ signalled' = TRUE
  /\ IF pc = "load" THEN Exit("killed") ELSE UNCHANGED <<pc, result>>
  /\ UNCHANGED <<config, seed, cache, sweep, servers, req, left>>

-----------------------------------------------------------------------------
(* The seed: SeedMetrics walks the cache and sets the gauge from what it     *)
(* counted; an entry removed meanwhile is not.  When the walk fails it leaves  *)
(* the gauge alone.                                                        *)

SeedVisit ==
  /\ Running /\ seed.pc = "walking"
  /\ \E e \in seed.todo :
       seed' = [seed EXCEPT !.todo = @ \ {e},
                            !.counted = @ + (IF e \in disk THEN 1 ELSE 0)]
  /\ UNCHANGED <<config, pc, result, signalled, cache, sweep, servers, req, left>>

SeedSet ==
  /\ Running /\ seed.pc = "walking"
  /\ \/ seed.todo = {} /\ gauge' = seed.counted /\ seed' = [seed EXCEPT !.pc = "done"]
     \/ UNCHANGED gauge /\ seed' = [seed EXCEPT !.pc = "failed"]
  /\ UNCHANGED <<config, pc, result, signalled, disk, sweep, servers, req, left>>

-----------------------------------------------------------------------------
(* RunEviction.  A sweep whose walk fails is DiskCache's subject: here it     *)
(* always ends by adjusting the gauge, whatever it removed.                *)

SweepBegin ==
  /\ Running /\ sweep.pc = "waiting" /\ left.ticker = 0
  /\ sweep' = [pc |-> "sweeping", todo |-> Entry, freed |-> 0]
  /\ left' = [left EXCEPT !.ticker = Interval]
  /\ UNCHANGED <<config, pc, result, signalled, seed, cache, servers, req>>

\* The walk meets a path once.
SweepRemove ==
  /\ Running /\ sweep.pc = "sweeping"
  /\ \E e \in sweep.todo \cap disk :
       /\ disk' = disk \ {e}
       /\ sweep' = [sweep EXCEPT !.todo = @ \ {e}, !.freed = @ + 1]
  /\ UNCHANGED <<config, pc, result, signalled, seed, gauge, servers, req, left>>

SweepEnd ==
  /\ Running /\ sweep.pc = "sweeping"
  /\ gauge' = gauge - sweep.freed
  /\ sweep' = [pc |-> "waiting", todo |-> {}, freed |-> 0]
  /\ UNCHANGED <<config, pc, result, signalled, seed, disk, servers, req, left>>

\* A select with the tick and the cancellation ready takes either.
SweepStop ==
  /\ Running /\ sweep.pc = "waiting" /\ signalled
  /\ sweep' = [sweep EXCEPT !.pc = "off"]
  /\ UNCHANGED <<config, pc, result, signalled, seed, cache, servers, req, left>>

-----------------------------------------------------------------------------
(* Listeners and handlers.                                                  *)

Bind(l) ==
  /\ Running /\ listener[l] = "binding"
  /\ listener' = [listener EXCEPT ![l] = "open"]
  /\ UNCHANGED <<config, pc, result, signalled, seed, cache, sweep, errc, req, left>>

\* The address is taken, or accepting fails.
Fail(l) ==
  /\ Running /\ listener[l] \in {"binding", "open"}
  /\ listener' = [listener EXCEPT ![l] = "failed"]
  /\ UNCHANGED <<config, pc, result, signalled, seed, cache, sweep, errc, req, left>>

\* Mutant: the admin listener's result goes nowhere.
PublicOnly(l) == l = "public"

\* Both goroutines send what ListenAndServe returned.
Reports(l) == TRUE

\* A listener that was shut down reports it as well; nobody reads that.
Report(l) ==
  /\ Running /\ listener[l] \in {"failed", "closed"}
  /\ listener' = [listener EXCEPT ![l] = "reported"]
  /\ errc' = errc + (IF Reports(l) THEN 1 ELSE 0)
  /\ UNCHANGED <<config, pc, result, signalled, seed, cache, sweep, req, left>>

Arrive(r) ==
  /\ Running /\ req[r].pc = "idle"
  /\ listener[IF r \in Public THEN "public" ELSE "admin"] = "open"
  /\ req' = [req EXCEPT ![r].pc = "work"]
  /\ UNCHANGED <<config, pc, result, signalled, seed, cache, sweep, servers, left>>

\* Commit: the rename, then the gauge.
Rename(r) ==
  /\ Running /\ r \in Public /\ req[r].pc = "work"
  /\ \E e \in Entry : /\ disk' = disk \cup {e}
                      /\ req' = [req EXCEPT ![r] = [pc |-> "renamed",
                                                   new |-> IF e \in disk THEN 0 ELSE 1]]
  /\ UNCHANGED <<config, pc, result, signalled, seed, gauge, sweep, servers, left>>

Account(r) ==
  /\ Running /\ req[r].pc = "renamed"
  /\ gauge' = gauge + req[r].new
  /\ req' = [req EXCEPT ![r] = [pc |-> "work", new |-> 0]]
  /\ UNCHANGED <<config, pc, result, signalled, seed, disk, sweep, servers, left>>

Finish(r) ==
  /\ Running /\ req[r].pc = "work"
  /\ req' = [req EXCEPT ![r].pc = "idle"]
  /\ UNCHANGED <<config, pc, result, signalled, seed, cache, sweep, servers, left>>

-----------------------------------------------------------------------------
Down(n) == IF n = 0 THEN 0 ELSE n - 1

\* The walk is over by the time SeedMax has passed.
Tick ==
  /\ Running
  /\ seed.pc = "walking" => left.seed > 0
  /\ left' = [seed   |-> IF seed.pc = "walking" THEN Down(left.seed) ELSE left.seed,
              ticker |-> IF sweep.pc = "off" THEN left.ticker ELSE Down(left.ticker),
              drain  |-> IF pc \in {"drain_public", "drain_admin"}
                         THEN Down(left.drain) ELSE left.drain]
  /\ UNCHANGED <<config, pc, result, signalled, seed, cache, sweep, servers, req>>

Next == \/ Main \/ Signal \/ SeedVisit \/ SeedSet \/ Tick
        \/ SweepBegin \/ SweepRemove \/ SweepEnd \/ SweepStop
        \/ \E l \in Listener : Bind(l) \/ Fail(l) \/ Report(l)
        \/ \E r \in Request : Arrive(r) \/ Rename(r) \/ Account(r) \/ Finish(r)

Spec == Init /\ [][Next]_vars

\* Goroutines run and time passes; requests need not end, nor sweeps.
FairSpec ==
  /\ Spec
  /\ WF_vars(Main) /\ WF_vars(SeedVisit \/ SeedSet) /\ WF_vars(Tick)
  /\ \A l \in Listener : WF_vars(Report(l))
-----------------------------------------------------------------------------
(* Properties.                                                              *)

Mode == {"load", "setup", "join", "serve", "drain_public", "drain_admin", "exited"}

\* The type of every variable.  errc never holds more than the channel of two
\* (server.go:67), so that no listener's goroutine is left blocked on its send.
TypeOK ==
  /\ settings \in Settings /\ token \in {"none", "file", "env"}
  /\ pc \in Mode /\ result \in {"none", "ok", "error", "killed"}
  /\ signalled \in BOOLEAN
  /\ seed \in [pc : {"off", "walking", "done", "failed"}, todo : SUBSET Entry, counted : Nat]
  /\ disk \in SUBSET Entry /\ gauge \in Int
  /\ sweep \in [pc : {"off", "waiting", "sweeping"}, todo : SUBSET Entry, freed : Nat]
  /\ listener \in [Listener -> {"off", "binding", "open", "failed", "closed", "reported"}]
  /\ errc \in 0..2
  /\ req \in [Request -> [pc : {"idle", "work", "renamed"}, new : 0..1]]
  /\ left \in [seed : 0..SeedMax, ticker : 0..Interval, drain : 0..Grace]

\* Commits between their rename and their gauge.
Uncounted == {r \in Request : req[r].new = 1}

\* main.go:51-54, 89-90: the seed's Set overwrites no commit's and no sweep's
\* change, so from then on cache_entries is the number of entries, but for what
\* a commit or a sweep has yet to report.
GaugeExact ==
  seed.pc = "done" => gauge = Cardinality(disk) - Cardinality(Uncounted) + sweep.freed

\* server.go:82-87: the signal that starts the drain does not cut it short: a
\* process leaves a request of either listener behind only when the whole grace
\* has passed.
DrainGraceful ==
  pc = "exited" /\ left.drain > 0 => Active(Request) = {}

\* config.go:110-114: once a secret file is named, the process runs on that
\* file's secret or not at all, and it never asks Sentry without one.
NeverUnauthenticated ==
  pc \notin {"load", "exited"} =>
    /\ settings.file # "unset" => token # "env" /\ settings.file # "unreadable"
    /\ settings.url => token # "none"

\* server.go:64-65: "blocks until ctx is cancelled or a listener fails, then
\* shuts both down": a signal at any time, or one listener failing while the
\* other works, ends the process, requests that never finish notwithstanding.
Stops ==
  (signalled \/ \E l \in Listener : listener[l] = "failed") ~> ~Running
=============================================================================
