------------------------------- MODULE HttpApi -------------------------------
(***************************************************************************)
(* Package httpapi over the object service, seen from the debugger: what     *)
(* the path of a request asks for, what Sentry holds, and what is served.    *)
(*                                                                         *)
(* ObjectService has the calls in between step by step; here a production is *)
(* one step, so that what is asked, the key it is cached under, the choice   *)
(* among Sentry's candidates and the validators of the answer can be         *)
(* followed from end to end.                                                *)
(***************************************************************************)
EXTENDS Resolver, SourceBundle, Integers

CONSTANTS Client,       \* debuggers
          Worlds,       \* what the debuggers have loaded, and what Sentry and
                        \* the blob store hold
          SourcePath,   \* source paths a debugger may ask for
          MaxEntries,   \* bound on the entries cached at once
          MaxTime       \* bound on the clock

ASSUME BoundAssumption == MaxEntries \in Nat /\ MaxTime \in Nat

VARIABLES
  world,     \* the modules debuggers ask for; the project: whether Sentry knows
             \* it, its debug files, and which of them the blob store has
  cache,     \* entries: a key, a role, the file they hold or wrap, two times
  client,    \* where each debugger's request is
  witness,   \* some earlier answer, for the properties only
  now        \* seconds

vars == <<world, cache, client, witness, now>>

Loaded  == world.modules
catalog == world.files

-----------------------------------------------------------------------------
(* What a module is, and how a debugger may spell a request for it.         *)

Hex(head, tail) == [head |-> head, tail |-> tail, caps |-> FALSE, dashed |-> FALSE]

\* The identifiers Sentry lists a module's files under.
DebugOf(m) ==
  CASE m.kind = "windows" -> [uuid |-> m.head, order |-> "be", age |-> m.tail]
    [] m.kind = "elf"     -> IF m.head \in Uuid
                             THEN [uuid |-> m.head, order |-> "le", age |-> ""] ELSE None
    [] m.kind = "mach"    -> [uuid |-> m.head, order |-> "be", age |-> ""]

CodeOf(m) == IF m.kind = "windows" THEN Hex(m.stamp, "") ELSE Hex(m.head, m.tail)

\* f is a file of module m, on the side of the divide that type is on.
Belongs(f, m, type) ==
  /\ \/ type # FilePE /\ f.debug # None /\ f.debug = DebugOf(m)
     \/ (type = FilePE \/ m.kind # "windows") /\ f.code = CodeOf(m)
  /\ (f.manifest # None) = (type = FileSourceBundle)

TypesOf(m) ==
  CASE m.kind = "windows" -> {FilePDB, FilePE, FileSourceBundle}
    [] m.kind = "elf"     -> {FileELFCode, FileELFDebug, FileSourceBundle}
    [] m.kind = "mach"    -> {FileMachCode, FileMachDebug, FileSourceBundle}

\* An age may be padded with zeros, and left out when it is zero.
AgeSpellings(age) == IF age = "" THEN {"", "0", "00"} ELSE {"1", "01"}

PrefixesOf(m, type) ==
  {p \in {prefixELFDebug, prefixELFCode, prefixMachDebug, prefixMachCode} :
     TypeOfPrefix(p) \in IF type = FileSourceBundle THEN TypesOf(m) ELSE {type}}

\* Texts in capitals or not, with dashes or without where they are read.
Spellings(prefixes, head, tails, dashed) ==
  [prefix : prefixes,
   body   : [head : {head}, tail : tails, caps : BOOLEAN, dashed : dashed]]

Signatures(m, type) ==
  CASE type = FilePE -> Spellings({""}, m.stamp, {""}, {FALSE})
    [] m.kind = "windows" /\ type # FilePE ->
         Spellings({""}, m.head, AgeSpellings(m.tail), {FALSE})
    [] m.kind = "elf"  -> Spellings(PrefixesOf(m, type), m.head, {m.tail}, {FALSE})
    [] m.kind = "mach" -> Spellings(PrefixesOf(m, type), m.head, {""}, BOOLEAN)

ExtOf(type) ==
  CASE type = FilePDB -> "pd" [] type = FilePE -> "ex"
    [] type = FileSourceBundle -> "src" [] OTHER -> "other"

Placeholder(type) ==
  [stem |-> CASE type = FileELFDebug     -> "_.debug"
              [] type = FileELFCode      -> "_"
              [] type = FileSourceBundle -> "_",
   ext  |-> ExtOf(type), caps |-> FALSE, last |-> "lower"]

\* In either case, and in the compressed form where there is one.
NamesOf(m, type) ==
  {n \in Name : /\ n.stem = m.stem /\ n.ext = ExtOf(type)
                /\ \/ n.last = (IF n.caps THEN "upper" ELSE "lower")
                   \/ n.last = "_" /\ type \in {FilePDB, FilePE}}
  \cup IF m.kind = "elf" THEN {Placeholder(type)} ELSE {}

\* Build-ids have whole bytes; Sentry writes code ids in lower case.  No two
\* modules share a debug id, which a cache key has instead of the code id, and
\* files with one hash of full length are one file.
Module(m) ==
  /\ m.stem \in Stem
  /\ \/ m.kind = "windows" /\ m.head \in Uuid /\ m.tail \in {"", "1"}
                           /\ m.stamp \in Uuid \cup Short
     \/ m.kind = "elf" /\ m.head \in Uuid /\ m.tail \in {"", "00", "01"}
     \/ m.kind = "elf" /\ m.head \in Short /\ m.tail = ""
     \/ m.kind = "mach" /\ m.head \in Uuid /\ m.tail = ""

ASSUME WorldAssumption ==
  \A w \in Worlds :
    /\ \A m \in w.modules : Module(m)
    /\ \A m, n \in w.modules : DebugOf(m) # None /\ DebugOf(m) = DebugOf(n) => m = n
    /\ w.known \in BOOLEAN
    /\ \A f \in w.files : /\ f # None /\ f.sha \in Nat /\ f.stored \in BOOLEAN
                          /\ f.code \in CodeId \cup {None} /\ (f.code # None => ~f.code.caps)
    /\ \A f, g \in w.files : f.sha = g.sha => ~Hashed(f) \/ f = g

\* A path is a sequence of segments.
ASSUME PathAssumption ==
  /\ \A path \in SourcePath : path.segs \in Seq(STRING)
  /\ \A w \in Worlds : \A f \in w.files :
       f.manifest # None => \A e \in f.manifest : e.path.segs \in Seq(STRING)

-----------------------------------------------------------------------------
\* A request: what it is about (the module, the type and the name), as parsed,
\* its form, the source path, and the validator the debugger presents.
Idle == [pc |-> "idle", ask |-> None, req |-> None, form |-> None,
         path |-> None, since |-> None, got |-> None]

At(p, pc) == client[p].pc = pc

Answer(status, file, entry, modified, born) ==
  [status |-> status, file |-> file, entry |-> entry, modified |-> modified, born |-> born]
Refusal(status) == Answer(status, None, None, None, None)

\* An answer to a request for a file may be remembered.
Note(ask, answer) ==
  witness' \in {witness} \cup
    IF ask = None \/ answer.status = 503 THEN {} ELSE {[ask |-> ask, file |-> answer.file]}

Finish(p, answer) ==
  /\ client' = [client EXCEPT ![p] = [@ EXCEPT !.pc = "done", !.got = answer]]
  /\ Note(IF client[p].path = None THEN client[p].ask ELSE None, answer)

cacheKey(req) == <<IF req.debug # None THEN req.debug ELSE req.code, req.type, req.name>>

Init == /\ world \in Worlds
        /\ cache = {}
        /\ client = [p \in Client |-> Idle]
        /\ witness = None
        /\ now = 0

Start(p, ask, req, form, path) ==
  /\ client' = [client EXCEPT ![p] =
       [Idle EXCEPT !.pc = IF form = "cab" THEN "cab_lookup" ELSE "lookup",
          !.ask = ask, !.req = req, !.form = form, !.path = path]]
  /\ UNCHANGED witness

Refuse(p, ask, status) ==
  /\ client' = [client EXCEPT ![p] =
       [Idle EXCEPT !.pc = "done", !.ask = ask, !.got = Refusal(status)]]
  /\ Note(ask, Refusal(status))

Ask(m, type, name) == [module |-> m, type |-> type, stem |-> name.stem]

\* symstoreRoute, up to the call of the service.
symstoreRoute(p, ask, leading, sig, trailing) ==
  LET parsed == Parse(leading, sig, trailing)
  IN  IF ~SameFold(leading, trailing) THEN Refuse(p, ask, 400)
      ELSE IF parsed = None THEN Refuse(p, ask, 404)
      ELSE Start(p, ask, parsed.req, parsed.form, None)

Symstore(p) ==
  /\ At(p, "idle")
  /\ \E m \in Loaded : \E type \in TypesOf(m) :
       \E sig \in Signatures(m, type), trailing \in NamesOf(m, type) :
         LET leading == [trailing EXCEPT !.caps = FALSE]
         IN  symstoreRoute(p, Ask(m, type, trailing), leading, sig, trailing)
  /\ UNCHANGED <<world, cache, now>>

\* Leading and trailing names that differ, or a signature that is none.
Malformed(p) ==
  /\ At(p, "idle")
  /\ \E m \in Loaded : \E type \in TypesOf(m) :
       \E sig \in Signatures(m, type), leading, trailing \in NamesOf(m, type) :
         \/ symstoreRoute(p, None, [leading EXCEPT !.ext = "other"], sig, trailing)
         \/ /\ type # FilePE
            /\ symstoreRoute(p, None, trailing, [sig EXCEPT !.body.tail = "x"], trailing)
  /\ UNCHANGED <<world, cache, now>>

\* serveELF and debuginfodSource, up to the call of the service.  A request for
\* a source file that names none asks for nothing.
Debuginfod(p) ==
  /\ At(p, "idle")
  /\ \E m \in Loaded, caps \in BOOLEAN : \E type \in TypesOf(m) :
       \E path \in IF type = FileSourceBundle THEN SourcePath ELSE {None} :
         LET name == Placeholder(type)
             req  == ELFRequest([Hex(m.head, m.tail) EXCEPT !.caps = caps], name, type)
         IN  /\ m.kind = "elf"
             /\ IF path # None /\ Blank(path) THEN Refuse(p, None, 404)
                ELSE IF req = None THEN Refuse(p, Ask(m, type, name), 404)
                ELSE Start(p, Ask(m, type, name), req, "object", path)
  /\ UNCHANGED <<world, cache, now>>

\* The debugger asks again, and says which copy it has.
Revalidate(p) ==
  /\ At(p, "done") /\ client[p].got.modified # None
  /\ LET c == client[p]
     IN  client' = [client EXCEPT ![p] =
           [c EXCEPT !.pc = IF c.form = "cab" THEN "cab_lookup" ELSE "lookup", !.got = None,
              !.since = [modified |-> c.got.modified, born |-> c.got.born]]]
  /\ UNCHANGED <<world, cache, witness, now>>

Leave(p) ==
  /\ At(p, "done")
  /\ client' = [client EXCEPT ![p] = Idle]
  /\ UNCHANGED <<world, cache, witness, now>>

-----------------------------------------------------------------------------
(* The service.                                                             *)

KeyOf(p, role)    == [role |-> role, key |-> cacheKey(client[p].req)]
EntriesAt(k)      == {e \in cache : e.at = k}
Entry(k, f)       == [at |-> k, file |-> f, mtime |-> now, born |-> now]
Put(es)           == /\ cache' = {e \in cache : \A n \in es : e.at # n.at} \cup es
                     /\ Cardinality(cache') <= MaxEntries
Touch(e)          == [e EXCEPT !.mtime = now]

\* http.ServeContent: the validator is the time stat'ed before the hit's touch.
ServeContent(p, e) ==
  LET since == client[p].since
      fresh == since # None /\ e.mtime <= since.modified
  IN  Answer(IF fresh THEN 304 ELSE 200, e.file, None, e.mtime, e.born)

\* SourceFile on the object it got.  The zip, its manifest or the entry may be
\* unreadable, and the entry too large; what is no source bundle is no zip.
SourceAnswers(p, f) ==
  {Refusal(503)} \cup
    IF f.manifest = None THEN {}
    ELSE LET found == bundleEntry(f.manifest, client[p].path)
         IN  IF found = {} THEN {Refusal(404)}
             ELSE {Answer(200, f, e, None, None) : e \in found}

\* The object is at hand as entry e: it is served, searched or wrapped.  New
\* entries are e itself, when it has just been produced, and a cabinet, unless
\* the object cannot be wrapped.
Deliver(p, e) ==
  CASE client[p].path # None ->
         /\ \E a \in SourceAnswers(p, e.file) : Finish(p, a)
         /\ Put({Touch(e)})
    [] client[p].path = None /\ client[p].form # "cab" ->
         /\ Finish(p, ServeContent(p, e))
         /\ Put({Touch(e)})
    [] client[p].path = None /\ client[p].form = "cab" ->
         \/ LET cab == Entry(KeyOf(p, "cab"), e.file)
            IN  /\ Finish(p, ServeContent(p, cab))
                /\ Put({Touch(e), cab})
         \/ /\ Finish(p, Refusal(503))
            /\ Put({Touch(e)})

CabLookup(p) ==
  /\ At(p, "cab_lookup")
  /\ LET hits == EntriesAt(KeyOf(p, "cab"))
     IN  \/ \E e \in hits : /\ Finish(p, ServeContent(p, e))
                            /\ Put({Touch(e)})
         \/ /\ hits = {}
            /\ client' = [client EXCEPT ![p].pc = "lookup"]
            /\ UNCHANGED <<cache, witness>>
  /\ UNCHANGED <<world, now>>

Lookup(p) ==
  /\ At(p, "lookup")
  /\ LET hits == EntriesAt(KeyOf(p, "object"))
     IN  \/ \E e \in hits : Deliver(p, e)
         \/ /\ hits = {}
            /\ client' = [client EXCEPT ![p].pc = "resolve"]
            /\ UNCHANGED <<cache, witness>>
  /\ UNCHANGED <<world, now>>

\* download, when nothing fails: the file it streams, None for ErrNotFound.  The
\* blob store may miss a file that Sentry lists.
Downloaded(project, req) ==
  {IF f # None /\ f.stored THEN f ELSE None : f \in Located(project, req)}

\* Sentry lists the files that match, and whatever else its filter lets through.
Resolve(p) ==
  /\ At(p, "resolve")
  /\ \E found \in Downloaded(world, client[p].req) :
       IF found = None
       THEN Finish(p, Refusal(404)) /\ UNCHANGED cache
       ELSE Deliver(p, Entry(KeyOf(p, "object"), found))
  /\ UNCHANGED <<world, now>>

\* The disk, Sentry or the blob store fails.
Fails(p) ==
  /\ client[p].pc \in {"cab_lookup", "lookup", "resolve"}
  /\ Finish(p, Refusal(503))
  /\ UNCHANGED <<world, cache, now>>

-----------------------------------------------------------------------------
\* At whatever age: nothing here is in use between two steps.
Evict(e) ==
  /\ cache' = cache \ {e}
  /\ UNCHANGED <<world, client, witness, now>>

Tick == /\ now < MaxTime
        /\ now' = now + 1
        /\ UNCHANGED <<world, cache, client, witness>>

Next == \/ \E p \in Client : \/ Symstore(p) \/ Malformed(p) \/ Debuginfod(p)
                             \/ Revalidate(p) \/ Leave(p)
                             \/ CabLookup(p) \/ Lookup(p) \/ Resolve(p) \/ Fails(p)
        \/ \E e \in cache : Evict(e)
        \/ Tick

Spec == Init /\ [][Next]_vars

-----------------------------------------------------------------------------
(* Properties.                                                              *)

Answered(p) == At(p, "done") /\ client[p].ask # None /\ client[p].got.status # 503
Status(p)   == client[p].got.status
Sent(p)     == client[p].got.file

\* Every variable has its type; what is cached has a hash its storage key can be
\* made of (resolver/sentry.go:217-236 takes it apart) and was in the blob store,
\* and no key has two entries.
TypeOK ==
  /\ world \in Worlds
  /\ \A e \in cache : /\ e.file \in catalog /\ Hashed(e.file) /\ e.file.stored
                       /\ e.mtime \in 0 .. now /\ e.born \in 0 .. e.mtime
                       /\ EntriesAt(e.at) = {e}
  /\ \A p \in Client :
       /\ client[p].pc \in {"idle", "cab_lookup", "lookup", "resolve", "done"}
       /\ At(p, "done") => Status(p) \in {200, 304, 400, 404, 503}
  /\ now \in 0 .. MaxTime

\* resolver/sentry.go:154 "Never serve a source bundle as a binary or vice versa":
\* whatever is served, from whichever entry, is a file of the module asked for
\* and of the right side.
ServedMatches ==
  \A p \in Client :
    Answered(p) /\ Sent(p) # None =>
      /\ Sent(p) \in catalog
      /\ Belongs(Sent(p), client[p].ask.module, client[p].ask.type)

\* resolver/sentry.go:168-169 "equally-ranked candidates select deterministically
\* across requests and replicas": all requests for one file of one module have
\* one answer, however they spell its identifier and name, in whichever order
\* Sentry lists the candidates, and whatever was cached or evicted in between.
SpelledAlike ==
  \A p \in Client :
    /\ Answered(p) /\ client[p].path = None
    /\ witness # None /\ witness.ask = client[p].ask
    => witness.file = Sent(p)

Held(p) == {f \in catalog : Belongs(f, client[p].ask.module, client[p].ask.type)}

\* A file that Sentry lists can be fetched.
Usable(f) == Hashed(f) /\ f.stored

\* resolver/resolver.go:11 "ErrNotFound reports that no object matches the
\* request": of a project that Sentry knows, a file it holds is not answered with
\* 404, as long as the blob store has all there is of the module.
NotFoundMeansNone ==
  \A p \in Client :
    /\ Answered(p) /\ client[p].path = None
    /\ world.known /\ Held(p) # {} /\ \A f \in Held(p) : f.stored
    => Status(p) \in {200, 304}

\* objects/service.go:167-168 "A missing key is an upstream inconsistency", and
\* the 404s of resolver/sentry.go:115-128: a request for a file that Sentry holds,
\* in whichever way it is written, is answered with 404 only if Sentry does not
\* know the project, or lists a file of the module that has too short a hash or
\* is not in the blob store.
NotFoundHasReason ==
  \A p \in Client :
    Answered(p) /\ client[p].path = None /\ Status(p) \notin {200, 304} =>
      \/ ~world.known \/ Held(p) = {}
      \/ \E f \in Held(p) : ~Usable(f)

\* objects/sourcebundle.go:28-30 "the source file whose manifest path matches"
\* and "ErrNotFound if the bundle or the requested path is absent": what is served
\* is at the place asked for, and 404 says that Sentry has no bundle, or one that
\* cannot be fetched or has nothing there.
SourceRight ==
  \A p \in Client :
    Answered(p) /\ client[p].path # None =>
      LET there(f) == {e \in f.manifest : e.zipped /\ Leads(e.path) = Leads(client[p].path)}
      IN  /\ Status(p) = 200 => client[p].got.entry \in there(Sent(p))
          /\ Status(p) # 200 =>
               \/ ~world.known \/ Held(p) = {}
               \/ \E f \in Held(p) : ~Usable(f) \/ there(f) = {}

\* httpapi/handler.go:42-43 "http.ServeContent gives us HEAD, Range,
\* Content-Length, and conditional handling for free": a debugger whose copy is
\* of the very entry that answers it again is told 304.
UnchangedRevalidates ==
  \A p \in Client :
    /\ Answered(p) /\ client[p].since # None
    /\ client[p].got.born = client[p].since.born
    => Status(p) = 304
=============================================================================
