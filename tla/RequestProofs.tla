--------------------------- MODULE RequestProofs ---------------------------
(***************************************************************************)
(* What a request is answered with depends on what it names, not on how it   *)
(* is spelled nor on the order in which Sentry lists the candidates; and a    *)
(* source path names the place it leads to.                                 *)
(***************************************************************************)
EXTENDS Resolver, SourceBundle, FiniteLemmas, SequenceTheorems

\* Requests that differ only in how identifiers and names are written.
Alike(r, s) ==
  /\ r.debug = s.debug /\ r.type = s.type
  /\ (r.code = None) = (s.code = None)
  /\ r.code # None => EqualFold(r.code, s.code)
  /\ SameFold(r.name, s.name)

-----------------------------------------------------------------------------
(* The ranking.                                                             *)

LEMMA QualityType ==
  ASSUME NEW f, NEW req
  PROVE  quality(f, req) \in Nat
<1> DEFINE carries == IF \/ wantedFeature(req.type) = ""
                         \/ wantedFeature(req.type) \in f.features THEN 1 ELSE 2
           named == IF SameFold(f.name, req.name) THEN 1 ELSE 0
<1>1. carries \in {1, 2} /\ named \in {0, 1}
  OBVIOUS
<1>2. quality(f, req) = carries - named
  BY DEF quality
<1> HIDE DEF carries, named
<1> QED
  BY <1>1, <1>2

\* sort.SortFunc's result begins with a file unless nothing matches: for any
\* list Sentry may send, the comparison has a least element among the matches.
THEOREM SomethingPicked ==
  ASSUME NEW files, \A f \in files : f.sha \in Nat,
         NEW req, Matches(files, req) # {}
  PROVE  Picks(files, req) # {}
<1> DEFINE Ranks == {quality(f, req) : f \in Matches(files, req)}
<1>1. PICK rank \in Ranks : \A r \in Ranks : rank <= r
  <2>1. Ranks \subseteq Nat /\ Ranks # {}
    BY QualityType
  <2> QED
    BY <2>1, Least
<1> DEFINE Best   == {f \in Matches(files, req) : quality(f, req) = rank}
           Hashes == {f.sha : f \in Best}
<1>2. PICK sha \in Hashes : \A s \in Hashes : sha <= s
  <2>1. Hashes \subseteq Nat /\ Hashes # {}
    BY DEF Matches
  <2> QED
    BY <2>1, Least
<1>3. PICK f \in Best : f.sha = sha
  OBVIOUS
<1>4. ASSUME NEW g \in Matches(files, req)
      PROVE  NotAfter(f, g, req)
  <2>1. quality(g, req) \in Ranks /\ quality(f, req) = rank
    OBVIOUS
  <2>2. rank <= quality(g, req) /\ rank \in Nat /\ quality(g, req) \in Nat
    BY <1>1, <2>1, QualityType
  <2>3. CASE quality(g, req) = rank
    <3>1. g.sha \in Hashes
      BY <2>3
    <3> QED
      BY <1>2, <1>3, <2>1, <2>3, <3>1 DEF NotAfter
  <2>4. CASE quality(g, req) # rank
    BY <2>1, <2>2, <2>4 DEF NotAfter
  <2> QED
    BY <2>3, <2>4
<1> QED
  BY <1>3, <1>4 DEF Picks

\* Files that can both come first have one hash.
LEMMA PicksTie ==
  ASSUME NEW files, \A f \in files : f.sha \in Nat,
         NEW req, NEW f \in Picks(files, req), NEW g \in Picks(files, req)
  PROVE  f.sha = g.sha
<1>1. f \in files /\ g \in files /\ NotAfter(f, g, req) /\ NotAfter(g, f, req)
  BY DEF Picks, Matches
<1>2. quality(f, req) = quality(g, req)
  BY <1>1, QualityType DEF NotAfter
<1> QED
  BY <1>1, <1>2, QualityType DEF NotAfter

\* resolver/sentry.go:166-168: files are told apart by their hashes, so at most
\* one can come first, whatever the order they are listed and sorted in.
THEOREM OnePick ==
  ASSUME NEW files, \A f \in files : f.sha \in Nat,
         \A f, g \in files : f.sha = g.sha => f = g,
         NEW req, NEW f \in Picks(files, req), NEW g \in Picks(files, req)
  PROVE  f = g
<1>1. f \in files /\ g \in files
  BY DEF Picks, Matches
<1> QED
  BY <1>1, PicksTie

\* Requests that are alike have the same candidates, ranked the same way.
THEOREM AlikePicks ==
  ASSUME NEW project, NEW r, NEW s, Alike(r, s)
  PROVE  Located(project, r) = Located(project, s)
<1> DEFINE files == project.files
<1>1. ASSUME NEW f
      PROVE  /\ matchesIdentity(f, r) = matchesIdentity(f, s)
             /\ RightSide(f, r) = RightSide(f, s)
  BY DEF Alike, matchesIdentity, EqualFold, RightSide
<1>2. ASSUME NEW f
      PROVE  quality(f, r) = quality(f, s)
  <2>1. SameFold(f.name, r.name) = SameFold(f.name, s.name)
    BY DEF Alike, SameFold
  <2>2. wantedFeature(r.type) = wantedFeature(s.type)
    BY DEF Alike
  <2> QED
    BY <2>1, <2>2 DEF quality
<1>3. Matches(files, r) = Matches(files, s)
  BY <1>1 DEF Matches
<1>4. \A f, g : NotAfter(f, g, r) = NotAfter(f, g, s)
  BY <1>2 DEF NotAfter
<1>5. Picks(files, r) = Picks(files, s)
  BY <1>3, <1>4 DEF Picks
<1> QED
  BY <1>5 DEF Located

-----------------------------------------------------------------------------
(* The parser.                                                              *)

\* Signatures that differ in the case of their letters only or, for a Mach-O
\* UUID, in their dashes.
SameSignature(a, b) ==
  /\ a.prefix = b.prefix
  /\ a.body.head = b.body.head /\ a.body.tail = b.body.tail
  /\ a.prefix \notin {prefixMachDebug, prefixMachCode} => a.body.dashed = b.body.dashed

BothAlike(r, s) == (r = None) = (s = None) /\ (r # None => Alike(r, s))

LEMMA ElfAlike ==
  ASSUME NEW b \in Body, NEW c \in Body, EqualFold(b, c),
         NEW n \in Name, NEW m \in Name, SameFold(n, m), NEW type \in FileType
  PROVE  /\ elfRequest(b, n, type) \in Requests \cup {None}
         /\ BothAlike(elfRequest(b, n, type), elfRequest(c, m, type))
<1>1. isHex(b) = isHex(c) /\ elfDebugID(b) = elfDebugID(c)
  BY DEF EqualFold, isHex, elfDebugID
<1>2. Lower(b) \in Body /\ Lower(c) \in Body /\ EqualFold(Lower(b), Lower(c))
  BY DEF Lower, Body, EqualFold
<1>3. elfDebugID(b) \in DebugId \cup {None}
  BY DEF elfDebugID, DebugId
<1>4. Lower(b) # None /\ Lower(c) # None
  BY <1>2, NoneAssumption DEF CodeId
<1>5. /\ Request(elfDebugID(b), Lower(b), n, type) \in Requests
      /\ Request(elfDebugID(c), Lower(c), m, type) \in Requests
  BY <1>1, <1>2, <1>3 DEF Requests, Request, CodeId
<1>6. Alike(Request(elfDebugID(b), Lower(b), n, type), Request(elfDebugID(c), Lower(c), m, type))
  BY <1>1, <1>2, <1>4 DEF Alike, Request
<1> QED
  BY <1>1, <1>5, <1>6, NoneAssumption DEF elfRequest, BothAlike

LEMMA MachAlike ==
  ASSUME NEW b \in Body, NEW c \in Body, b.head = c.head, b.tail = c.tail,
         NEW n \in Name, NEW m \in Name, SameFold(n, m), NEW type \in FileType
  PROVE  /\ machRequest(b, n, type) \in Requests \cup {None}
         /\ BothAlike(machRequest(b, n, type), machRequest(c, m, type))
<1> DEFINE debug == [uuid |-> b.head, order |-> "be", age |-> ""]
           plain(x) == [Lower(x) EXCEPT !.dashed = FALSE]
<1>1. plain(b) \in Body /\ plain(c) = plain(b)
  BY DEF Body, Lower
<1>2. simpleUUID(c) = simpleUUID(b) /\ simpleUUID(b) \in {plain(b), None}
  BY <1>1 DEF simpleUUID
<1>3. simpleUUID(b) # None => debug \in DebugId
  BY DEF simpleUUID, DebugId
<1>4. CASE simpleUUID(b) = None
  BY <1>2, <1>4 DEF machRequest, BothAlike
<1>5. CASE simpleUUID(b) # None
  <2>1. /\ Request(debug, plain(b), n, type) \in Requests
        /\ Request(debug, plain(b), m, type) \in Requests
    BY <1>1, <1>3, <1>5 DEF Requests, Request, CodeId
  <2>2. Alike(Request(debug, plain(b), n, type), Request(debug, plain(b), m, type))
    BY DEF Alike, Request, EqualFold
  <2>3. /\ machRequest(b, n, type) = Request(debug, plain(b), n, type)
        /\ machRequest(c, m, type) = Request(debug, plain(b), m, type)
    BY <1>2, <1>5 DEF machRequest
  <2> QED
    BY <2>1, <2>2, <2>3, NoneAssumption DEF BothAlike
<1> QED
  BY <1>4, <1>5

LEMMA PdbAlike ==
  ASSUME NEW b \in Body, NEW c \in Body, EqualFold(b, c),
         NEW n \in Name, NEW m \in Name, SameFold(n, m)
  PROVE  /\ pdbRequest(b, n) \in Requests \cup {None}
         /\ BothAlike(pdbRequest(b, n), pdbRequest(c, m))
<1>1. normalizePDB(b) = normalizePDB(c)
  BY DEF normalizePDB, EqualFold
<1>2. normalizePDB(b) \in DebugId \cup {None}
  BY DEF normalizePDB, DebugId, TrimZeros
<1>3. CASE normalizePDB(b) = None
  BY <1>1, <1>3 DEF pdbRequest, BothAlike
<1>4. CASE normalizePDB(b) # None
  <2>1. /\ Request(normalizePDB(b), None, n, FilePDB) \in Requests
        /\ Request(normalizePDB(b), None, m, FilePDB) \in Requests
    BY <1>2, <1>4 DEF Requests, Request, FileType
  <2>2. Alike(Request(normalizePDB(b), None, n, FilePDB), Request(normalizePDB(b), None, m, FilePDB))
    BY DEF Alike, Request
  <2> QED
    BY <1>1, <1>4, <2>1, <2>2, NoneAssumption DEF pdbRequest, BothAlike
<1> QED
  BY <1>3, <1>4

LEMMA PeAlike ==
  ASSUME NEW b \in Body, NEW c \in Body, EqualFold(b, c),
         NEW n \in Name, NEW m \in Name, SameFold(n, m)
  PROVE  /\ peRequest(b, n) \in Requests \cup {None}
         /\ BothAlike(peRequest(b, n), peRequest(c, m))
<1>1. b # None /\ c # None
  BY NoneAssumption DEF CodeId
<1>2. /\ Request(None, b, n, FilePE) \in Requests
      /\ Request(None, c, m, FilePE) \in Requests
  BY DEF Requests, Request, CodeId, FileType
<1>3. Alike(Request(None, b, n, FilePE), Request(None, c, m, FilePE))
  BY <1>1 DEF Alike, Request
<1> QED
  BY <1>2, <1>3, NoneAssumption DEF peRequest, BothAlike, EqualFold

LEMMA BaseAlike ==
  ASSUME NEW a \in Signature, NEW b \in Signature, SameSignature(a, b),
         NEW n \in Name, NEW m \in Name, SameFold(n, m), NEW hint \in BOOLEAN
  PROVE  /\ baseIdentity(a, n, hint) \in Requests \cup {None}
         /\ BothAlike(baseIdentity(a, n, hint), baseIdentity(b, m, hint))
<1> DEFINE hits(sig) == {i \in DOMAIN PrefixOrder : HasPrefix(sig, PrefixOrder[i])}
           first(sig) == CHOOSE i \in hits(sig) : \A j \in hits(sig) : i <= j
           prefix == PrefixOrder[first(a)]
<1>1. hits(a) = hits(b)
  BY DEF HasPrefix, SameSignature
<1>2. first(a) = first(b)
  BY <1>1
<1>3. a.body \in Body /\ b.body \in Body
  BY DEF Signature
<1>4. CASE hits(a) = {}
  <2>1. a.prefix \notin {prefixMachDebug, prefixMachCode}
    <3>1. /\ 3 \in DOMAIN PrefixOrder /\ PrefixOrder[3] = prefixMachDebug
          /\ 4 \in DOMAIN PrefixOrder /\ PrefixOrder[4] = prefixMachCode
      BY DEF PrefixOrder
    <3> QED
      BY <1>4, <3>1 DEF HasPrefix
  <2>2. EqualFold(a.body, b.body)
    BY <2>1 DEF SameSignature, EqualFold
  <2>3. /\ baseIdentity(a, n, hint) = IF hint THEN pdbRequest(a.body, n) ELSE peRequest(a.body, n)
        /\ baseIdentity(b, m, hint) = IF hint THEN pdbRequest(b.body, m) ELSE peRequest(b.body, m)
    BY <1>1, <1>4 DEF baseIdentity
  <2> QED
    BY <1>3, <2>2, <2>3, PdbAlike, PeAlike
<1>5. CASE hits(a) # {}
  <2>1. /\ baseIdentity(a, n, hint) = prefixed(a, prefix, n)
        /\ baseIdentity(b, m, hint) = prefixed(b, prefix, m)
    BY <1>1, <1>2, <1>5 DEF baseIdentity
  <2>2. HasPrefix(a, prefix) /\ prefix \in {prefixELFDebug, prefixELFCode,
                                           prefixMachDebug, prefixMachCode}
    <3>1. PICK i \in hits(a) : \A j \in hits(a) : i <= j
      <4>1. hits(a) \subseteq Nat
        BY DEF PrefixOrder
      <4> QED
        BY <1>5, <4>1, Least
    <3>2. first(a) \in hits(a)
      BY <3>1
    <3> QED
      BY <3>2 DEF PrefixOrder
  <2> HIDE DEF prefix
  <2>3. Rest(a, prefix) \in Body /\ Rest(b, prefix) \in Body
    BY <1>3 DEF Rest, Body
  <2>4. /\ Rest(a, prefix).head = Rest(b, prefix).head
        /\ Rest(a, prefix).tail = Rest(b, prefix).tail
    BY <1>3 DEF Rest, SameSignature, Body
  <2>5. TypeOfPrefix(prefix) \in FileType
    BY <2>2 DEF TypeOfPrefix, FileType, prefixELFDebug, prefixELFCode,
                prefixMachDebug, prefixMachCode
  <2>6. CASE prefix \in {prefixELFDebug, prefixELFCode}
    <3>1. a.prefix \in {prefixELFDebug, prefixELFCode}
      BY <2>2, <2>6 DEF HasPrefix, prefixELFDebug, prefixELFCode, prefixMachDebug, prefixMachCode
    <3>2. a.body.dashed = b.body.dashed
      BY <3>1 DEF SameSignature, prefixELFDebug, prefixELFCode, prefixMachDebug, prefixMachCode
    <3>3. EqualFold(Rest(a, prefix), Rest(b, prefix))
      BY <1>3, <2>4, <3>2 DEF Rest, SameSignature, EqualFold, Body
    <3> QED
      BY <2>1, <2>3, <2>5, <2>6, <3>3, ElfAlike DEF prefixed
  <2>7. CASE prefix \notin {prefixELFDebug, prefixELFCode}
    BY <2>1, <2>3, <2>4, <2>5, <2>7, MachAlike DEF prefixed
  <2> QED
    BY <2>6, <2>7
<1> QED
  BY <1>4, <1>5

\* Taking off the mark of the compressed form leaves the rest of a name.
LEMMA UncompressedName ==
  ASSUME NEW t \in Name
  PROVE  /\ uncompressLeaf(t) \in Name /\ uncompressLeaf(t).last # "_"
         /\ uncompressLeaf(t).stem = t.stem /\ uncompressLeaf(t).ext = t.ext
<1>1. t.caps \in BOOLEAN
  BY DEF Name
<1>2. uncompressLeaf(t) \in Name
  BY <1>1 DEF uncompressLeaf, Name
<1>3. DOMAIN t = {"stem", "ext", "caps", "last"}
  BY DEF Name
<1> QED
  BY <1>2, <1>3 DEF uncompressLeaf

\* symstore/parse.go: paths that differ only in the case of their names and of
\* their signature's letters, or in a UUID's dashes, are parsed alike: both are
\* refused, or they are served in one form and ask for one thing.
THEOREM ParsedAlike ==
  ASSUME NEW l1 \in Name, NEW t1 \in Name, NEW l2 \in Name, NEW t2 \in Name,
         SameFold(l1, l2), SameFold(t1, t2),
         NEW a \in Signature, NEW b \in Signature, SameSignature(a, b)
  PROVE  LET p == Parse(l1, a, t1)
             q == Parse(l2, b, t2)
         IN  /\ (p = None) = (q = None)
             /\ p # None => p.form = q.form /\ Alike(p.req, q.req)
<1> DEFINE name(t) == IF isCompressed(t) THEN uncompressLeaf(t) ELSE t
           hint(l, t) == CASE isCompressed(t)   -> isPDB(name(t))
                           [] isSourceBundle(t) -> TRUE
                           [] OTHER             -> isPDB(l)
           base(l, sig, t) == baseIdentity(sig, name(t), hint(l, t))
           req(l, sig, t) == IF isSourceBundle(t)
                             THEN [base(l, sig, t) EXCEPT !.type = FileSourceBundle]
                             ELSE base(l, sig, t)
           form(t) == CASE isCompressed(t)   -> "cab"
                        [] isSourceBundle(t) -> "zip"
                        [] OTHER             -> "object"
<1>1. /\ isCompressed(t1) = isCompressed(t2) /\ isSourceBundle(t1) = isSourceBundle(t2)
      /\ isPDB(l1) = isPDB(l2)
  BY DEF isCompressed, isSourceBundle, isPDB, SameFold
<1>2. ASSUME NEW t \in Name
      PROVE  name(t) \in Name
  BY UncompressedName
<1>3. SameFold(name(t1), name(t2))
  <2>1. CASE isCompressed(t1)
    <3>1. name(t1) = uncompressLeaf(t1) /\ name(t2) = uncompressLeaf(t2)
      BY <1>1, <2>1
    <3> HIDE DEF name
    <3>2. SameFold(uncompressLeaf(t1), uncompressLeaf(t2))
      BY UncompressedName DEF SameFold
    <3> QED
      BY <3>1, <3>2
  <2>2. CASE ~isCompressed(t1)
    BY <1>1, <2>2
  <2> QED
    BY <2>1, <2>2
<1>4. hint(l1, t1) = hint(l2, t2) /\ hint(l1, t1) \in BOOLEAN
  <2>1. isPDB(name(t1)) = isPDB(name(t2))
    BY <1>3 DEF isPDB, SameFold
  <2> QED
    BY <1>1, <2>1 DEF isPDB
<1> HIDE DEF name, hint
<1>5. /\ base(l1, a, t1) \in Requests \cup {None}
      /\ BothAlike(base(l1, a, t1), base(l2, b, t2))
  BY <1>2, <1>3, <1>4, BaseAlike
<1>6. base(l2, b, t2) \in Requests \cup {None}
  BY <1>2, <1>4, BaseAlike DEF SameSignature, SameFold
<1>7. \A l, sig, t : Parse(l, sig, t) =
        IF base(l, sig, t) = None THEN None ELSE [req |-> req(l, sig, t), form |-> form(t)]
  BY DEF Parse, name, hint
<1> HIDE DEF base
<1>8. CASE base(l1, a, t1) = None
  BY <1>5, <1>7, <1>8 DEF BothAlike
<1>9. CASE base(l1, a, t1) # None
  <2>1. base(l1, a, t1) \in Requests /\ base(l2, b, t2) \in Requests
    BY <1>5, <1>6, <1>9 DEF BothAlike
  <2>2. Alike(req(l1, a, t1), req(l2, b, t2)) /\ form(t1) = form(t2)
    BY <1>1, <1>5, <1>9, <2>1 DEF BothAlike, Alike, Requests
  <2>3. \A t : form(t) \in {"cab", "zip", "object"}
    OBVIOUS
  <2>4. req(l1, a, t1) \in Requests /\ req(l2, b, t2) \in Requests
    BY <2>1 DEF Requests, FileType
  <2> HIDE DEF req, form
  <2>5. /\ [req |-> req(l1, a, t1), form |-> form(t1)] # None
        /\ [req |-> req(l2, b, t2), form |-> form(t2)] # None
    BY <2>3, <2>4, NoneAssumption
  <2>6. base(l2, b, t2) # None
    BY <2>1, NoneAssumption
  <2> QED
    BY <1>7, <1>9, <2>2, <2>5, <2>6
<1> QED
  BY <1>8, <1>9

-----------------------------------------------------------------------------
(* Numbering the elements of a set of numbers.                              *)

UpTo(K, i) == {j \in K : j <= i}

\* Each number up to the size of K is the rank of an element.
Ranked(K) == \A m \in 1 .. Cardinality(K) : \E i \in K : Cardinality(UpTo(K, i)) = m

\* Two elements differ in rank.
LEMMA RankTells ==
  ASSUME NEW K, K \subseteq Nat, IsFiniteSet(K), NEW i \in K, NEW j \in K,
         Cardinality(UpTo(K, i)) = Cardinality(UpTo(K, j))
  PROVE  i = j
<1>1. ASSUME NEW a \in K, NEW b \in K, a < b
      PROVE  Cardinality(UpTo(K, a)) # Cardinality(UpTo(K, b))
  <2>1. UpTo(K, a) \subseteq UpTo(K, b) /\ b \in UpTo(K, b) /\ b \notin UpTo(K, a)
    <3>1. a \in Nat /\ b \in Nat /\ \A k \in K : k \in Nat
      OBVIOUS
    <3>2. b <= b /\ ~ b <= a /\ \A k \in K : k <= a => k <= b
      BY <1>1, <3>1
    <3> QED
      BY <3>2 DEF UpTo
  <2>2. IsFiniteSet(UpTo(K, b))
    BY FS_Subset DEF UpTo
  <2> QED
    BY <2>1, <2>2, FS_Subset
<1>2. i \in Nat /\ j \in Nat
  OBVIOUS
<1>3. i < j \/ j < i \/ i = j
  BY <1>2
<1> QED
  BY <1>1, <1>3

\* So the m-th element is the one of rank m.
LEMMA NthOf ==
  ASSUME NEW K, K \subseteq Nat, IsFiniteSet(K), NEW i \in K
  PROVE  Nth(K, Cardinality(UpTo(K, i))) = i
<1> DEFINE m == Cardinality(UpTo(K, i))
<1>1. Nth(K, m) = CHOOSE k \in K : Cardinality(UpTo(K, k)) = m
  BY DEF Nth, UpTo
<1>2. \A k \in K : Cardinality(UpTo(K, k)) = m => k = i
  BY RankTells
<1>3. Cardinality(UpTo(K, i)) = m
  OBVIOUS
<1> HIDE DEF m
<1> QED
  BY <1>1, <1>2, <1>3

\* The largest element is the last, and without it the others are where they were.
LEMMA OnTop ==
  ASSUME NEW L, L \subseteq Nat, IsFiniteSet(L), NEW x \in L, \A i \in L : i <= x
  PROVE  LET K == L \ {x}
         IN  /\ Cardinality(K) \in Nat /\ Cardinality(L) = Cardinality(K) + 1
             /\ Nth(L, Cardinality(L)) = x
             /\ Ranked(K) <=> Ranked(L)
             /\ \A m \in 1 .. Cardinality(K) : Ranked(K) => Nth(L, m) = Nth(K, m)
<1> DEFINE K == L \ {x}
<1>1. K \subseteq L /\ x \notin K /\ L = K \cup {x} /\ K \subseteq Nat
  OBVIOUS
<1>2. IsFiniteSet(K) /\ Cardinality(K) \in Nat /\ Cardinality(L) = Cardinality(K) + 1
  BY OneLess
<1> HIDE DEF K
<1>3. UpTo(L, x) = L
  BY DEF UpTo
<1>4. ASSUME NEW i \in K
      PROVE  UpTo(L, i) = UpTo(K, i)
  <2>1. i \in Nat /\ x \in Nat /\ i <= x /\ i # x
    BY <1>1
  <2>2. ~ x <= i
    BY <2>1
  <2> QED
    BY <1>1, <2>2 DEF UpTo
<1>6. Nth(L, Cardinality(L)) = x
  <2>1. Nth(L, Cardinality(UpTo(L, x))) = x
    BY <1>1, NthOf
  <2> QED
    BY <1>3, <2>1
<1>7. Ranked(K) => Ranked(L)
  <2> SUFFICES ASSUME Ranked(K), NEW m \in 1 .. Cardinality(L)
               PROVE  \E i \in L : Cardinality(UpTo(L, i)) = m
    BY DEF Ranked
  <2>1. CASE m = Cardinality(L)
    BY <1>1, <1>3, <2>1
  <2>2. CASE m # Cardinality(L)
    <3>1. m \in 1 .. Cardinality(K)
      BY <1>2, <2>2
    <3> QED
      BY <1>1, <1>4, <3>1 DEF Ranked
  <2> QED
    BY <2>1, <2>2
<1>8. Ranked(L) => Ranked(K)
  <2> SUFFICES ASSUME Ranked(L), NEW m \in 1 .. Cardinality(K)
               PROVE  \E i \in K : Cardinality(UpTo(K, i)) = m
    BY DEF Ranked
  <2>1. m \in 1 .. Cardinality(L) /\ m # Cardinality(L)
    BY <1>2
  <2>2. PICK i \in L : Cardinality(UpTo(L, i)) = m
    BY <2>1 DEF Ranked
  <2>3. i # x
    BY <1>3, <2>1, <2>2
  <2>4. i \in K
    BY <1>1, <2>2, <2>3
  <2> QED
    BY <1>4, <2>2, <2>4
<1>9. ASSUME Ranked(K), NEW m \in 1 .. Cardinality(K)
      PROVE  Nth(L, m) = Nth(K, m)
  <2>1. PICK i \in K : Cardinality(UpTo(K, i)) = m
    BY <1>9 DEF Ranked
  <2>2. Nth(K, m) = i
    BY <1>1, <1>2, <2>1, NthOf
  <2>3. Nth(L, m) = i
    BY <1>1, <1>4, <2>1, NthOf
  <2> QED
    BY <2>2, <2>3
<1> QED
  BY <1>2, <1>6, <1>7, <1>8, <1>9 DEF K

\* The last of them.
LEMMA LastOf ==
  ASSUME NEW K, K \subseteq Nat, IsFiniteSet(K), Ranked(K), K # {}
  PROVE  \E x \in K : \A i \in K : i <= x
<1>1. Cardinality(K) \in 1 .. Cardinality(K)
  BY FS_CardinalityType, FS_EmptySet
<1>2. PICK x \in K : Cardinality(UpTo(K, x)) = Cardinality(K)
  BY <1>1 DEF Ranked
<1>3. UpTo(K, x) \subseteq K
  BY DEF UpTo
<1>4. UpTo(K, x) = K
  BY <1>2, <1>3, FS_Subset
<1> QED
  BY <1>4 DEF UpTo

-----------------------------------------------------------------------------
(* One segment more.                                                       *)

\* Each name that counts has as many after it as there are names left over.
Balanced(segs, n) ==
  \A i \in Kept(segs, n) :
    Names(segs, i, n) - Ups(segs, i, n) = Cardinality({j \in Kept(segs, n) : j > i})

\* There are finitely many of them.
LEMMA KeptType ==
  ASSUME NEW segs, NEW n \in Nat
  PROVE  /\ Kept(segs, n) \subseteq 1 .. n /\ Kept(segs, n) \subseteq Nat
         /\ IsFiniteSet(Kept(segs, n)) /\ Cardinality(Kept(segs, n)) \in Nat
<1>1. Kept(segs, n) \subseteq 1 .. n
  BY DEF Kept
<1>2. IsFiniteSet(1 .. n)
  BY FS_Interval
<1>3. IsFiniteSet(Kept(segs, n))
  BY <1>1, <1>2, FS_Subset
<1> QED
  BY <1>1, <1>3, FS_CardinalityType

\* One segment more is one ".." more, one name more, or neither.
LEMMA CountsStep ==
  ASSUME NEW segs, NEW i \in Nat, NEW n \in Nat, i <= n
  PROVE  /\ Ups(segs, i, n) \in Nat /\ Names(segs, i, n) \in Nat
         /\ i = n => Ups(segs, i, n) = 0 /\ Names(segs, i, n) = 0
         /\ Ups(segs, i, n + 1) = IF segs[n + 1] = Up THEN Ups(segs, i, n) + 1
                                                      ELSE Ups(segs, i, n)
         /\ Names(segs, i, n + 1) = IF IsName(segs[n + 1]) THEN Names(segs, i, n) + 1
                                                           ELSE Names(segs, i, n)
<1> DEFINE A == i + 1 .. n
           U == {k \in A : segs[k] = Up}
           N == {k \in A : IsName(segs[k])}
           U1 == {k \in i + 1 .. n + 1 : segs[k] = Up}
           N1 == {k \in i + 1 .. n + 1 : IsName(segs[k])}
<1>1. IsFiniteSet(U) /\ IsFiniteSet(N)
  <2>1. IsFiniteSet(A)
    BY FS_Interval
  <2> QED
    BY <2>1, FS_Subset
<1>2. Cardinality(U) \in Nat /\ Cardinality(N) \in Nat
  BY <1>1, FS_CardinalityType
<1>3. n + 1 \notin U /\ n + 1 \notin N
  OBVIOUS
<1>4. /\ U1 = IF segs[n + 1] = Up THEN U \cup {n + 1} ELSE U
      /\ N1 = IF IsName(segs[n + 1]) THEN N \cup {n + 1} ELSE N
  OBVIOUS
<1>5. i = n => U = {} /\ N = {}
  OBVIOUS
<1>6. /\ Ups(segs, i, n) = Cardinality(U) /\ Names(segs, i, n) = Cardinality(N)
      /\ Ups(segs, i, n + 1) = Cardinality(U1) /\ Names(segs, i, n + 1) = Cardinality(N1)
  BY DEF Ups, Names
<1> HIDE DEF U, N, U1, N1
<1>7. /\ Cardinality(U \cup {n + 1}) = Cardinality(U) + 1
      /\ Cardinality(N \cup {n + 1}) = Cardinality(N) + 1
  BY <1>1, <1>3, FS_AddElement
<1> QED
  BY <1>2, <1>4, <1>5, <1>6, <1>7, FS_EmptySet

\* A segment is one of three things.
LEMMA Segment ==
  ASSUME NEW seg
  PROVE  /\ IsName(seg) \/ seg \in Dot \/ seg = Up
         /\ IsName(seg) => seg \notin Dot /\ seg # Up
         /\ seg \in Dot => seg # Up
BY DEF IsName, Dot, Up

\* Which names count after one more segment.
LEMMA KeptStep ==
  ASSUME NEW segs, NEW n \in Nat
  PROVE  LET K == Kept(segs, n)
             L == Kept(segs, n + 1)
         IN  /\ n + 1 \in L <=> IsName(segs[n + 1])
             /\ \A i \in 1 .. n :
                  i \in L <=> i \in K /\ Ups(segs, i, n + 1) <= Names(segs, i, n + 1)
             /\ \A i \in K : Ups(segs, i, n) <= Names(segs, i, n)
<1>1. n + 1 \in Kept(segs, n + 1) <=> IsName(segs[n + 1])
  BY DEF Kept
<1>2. ASSUME NEW i \in 1 .. n
      PROVE  i \in Kept(segs, n + 1) <=>
               i \in Kept(segs, n) /\ Ups(segs, i, n + 1) <= Names(segs, i, n + 1)
  <2>1. i \in 1 .. n + 1 /\ i + 1 .. n + 1 = (i + 1 .. n) \cup {n + 1}
    OBVIOUS
  <2> QED
    BY <2>1 DEF Kept
<1>3. ASSUME NEW i \in Kept(segs, n)
      PROVE  Ups(segs, i, n) <= Names(segs, i, n)
  <2>1. i \in 1 .. n
    BY DEF Kept
  <2>2. CASE i = n
    <3>1. n \in Nat /\ n <= n
      OBVIOUS
    <3>2. Ups(segs, n, n) = 0 /\ Names(segs, n, n) = 0
      BY <3>1, CountsStep
    <3> QED
      BY <2>2, <3>2
  <2>3. CASE i # n
    <3>1. n \in i + 1 .. n
      BY <2>1, <2>3
    <3> QED
      BY <3>1 DEF Kept
  <2> QED
    BY <2>2, <2>3
<1> QED
  BY <1>1, <1>2, <1>3

\* A segment that says nothing changes nothing.
LEMMA DotStep ==
  ASSUME NEW segs, NEW n \in Nat, Balanced(segs, n), segs[n + 1] \in Dot
  PROVE  Kept(segs, n + 1) = Kept(segs, n) /\ Balanced(segs, n + 1)
<1> DEFINE K == Kept(segs, n)
           L == Kept(segs, n + 1)
<1>1. ~IsName(segs[n + 1]) /\ segs[n + 1] # Up
  BY Segment
<1>2. K \subseteq 1 .. n /\ L \subseteq 1 .. n + 1
  BY KeptType
<1>3. ASSUME NEW i \in 1 .. n
      PROVE  /\ Ups(segs, i, n + 1) = Ups(segs, i, n)
             /\ Names(segs, i, n + 1) = Names(segs, i, n)
  <2>1. i \in Nat /\ i <= n
    OBVIOUS
  <2> QED
    BY <1>1, <2>1, CountsStep
<1> HIDE DEF K, L
<1>4. L = K
  <2>1. /\ n + 1 \notin L
        /\ \A i \in 1 .. n : i \in L <=> i \in K /\ Ups(segs, i, n + 1) <= Names(segs, i, n + 1)
        /\ \A i \in K : Ups(segs, i, n) <= Names(segs, i, n)
    BY <1>1, KeptStep DEF K, L
  <2>2. \A i \in L : i \in 1 .. n
    BY <1>2, <2>1
  <2> QED
    BY <1>2, <1>3, <2>1, <2>2
<1>5. \A i \in L : Names(segs, i, n + 1) - Ups(segs, i, n + 1) = Cardinality({j \in L : j > i})
  <2>1. \A i \in K : Names(segs, i, n) - Ups(segs, i, n) = Cardinality({j \in K : j > i})
    BY DEF Balanced, K
  <2> QED
    BY <1>2, <1>3, <1>4, <2>1
<1> QED
  BY <1>4, <1>5 DEF Balanced, K, L

\* A name counts, and every name before it has one more after it.
LEMMA NameStep ==
  ASSUME NEW segs, NEW n \in Nat, Balanced(segs, n), IsName(segs[n + 1])
  PROVE  Kept(segs, n + 1) = Kept(segs, n) \cup {n + 1} /\ Balanced(segs, n + 1)
<1> DEFINE K == Kept(segs, n)
           L == Kept(segs, n + 1)
<1>1. segs[n + 1] # Up
  BY Segment
<1>2. K \subseteq 1 .. n /\ L \subseteq 1 .. n + 1 /\ IsFiniteSet(K)
  BY KeptType
<1>3. ASSUME NEW i \in 1 .. n + 1
      PROVE  /\ i <= n => /\ Ups(segs, i, n + 1) = Ups(segs, i, n)
                          /\ Names(segs, i, n + 1) = Names(segs, i, n) + 1
                          /\ Ups(segs, i, n) \in Nat /\ Names(segs, i, n) \in Nat
             /\ i = n + 1 => Ups(segs, i, n + 1) = 0 /\ Names(segs, i, n + 1) = 0
  <2>1. CASE i <= n
    <3>1. i \in Nat /\ i <= n /\ i # n + 1
      BY <2>1
    <3> QED
      BY <1>1, <3>1, CountsStep
  <2>2. CASE i = n + 1
    <3>1. i \in Nat /\ i <= i /\ ~ i <= n
      BY <2>2
    <3>2. Ups(segs, i, i) = 0 /\ Names(segs, i, i) = 0
      BY <3>1, CountsStep
    <3> QED
      BY <2>2, <3>1, <3>2
  <2> QED
    BY <2>1, <2>2
<1>5. \A i \in K : Names(segs, i, n) - Ups(segs, i, n) = Cardinality({j \in K : j > i})
  BY DEF Balanced
<1> HIDE DEF K, L
<1>4. L = K \cup {n + 1}
  <2>1. /\ n + 1 \in L
        /\ \A i \in 1 .. n : i \in L <=> i \in K /\ Ups(segs, i, n + 1) <= Names(segs, i, n + 1)
        /\ \A i \in K : Ups(segs, i, n) <= Names(segs, i, n)
    BY KeptStep DEF K, L
  <2>2. \A i \in K : i \in L
    BY <1>2, <1>3, <2>1
  <2>3. \A i \in L : i \in K \/ i = n + 1
    BY <1>2, <2>1
  <2> QED
    BY <2>1, <2>2, <2>3
<1>6. ASSUME NEW i \in L
      PROVE  Names(segs, i, n + 1) - Ups(segs, i, n + 1) = Cardinality({j \in L : j > i})
  <2>1. CASE i = n + 1
    <3>1. {j \in L : j > i} = {}
      <4>1. \A j \in L : ~ j > i
        BY <1>2, <2>1
      <4> QED
        BY <4>1
    <3> QED
      BY <1>3, <2>1, <3>1, FS_EmptySet
  <2>2. CASE i \in K
    <3> DEFINE A == {j \in K : j > i}
    <3>1. {j \in L : j > i} = A \cup {n + 1} /\ n + 1 \notin A
      BY <1>2, <1>4, <2>2
    <3>2. IsFiniteSet(A)
      BY <1>2, FS_Subset
    <3>3. Cardinality(A) = Names(segs, i, n) - Ups(segs, i, n)
      BY <1>5, <2>2
    <3> HIDE DEF A
    <3>4. Cardinality(A \cup {n + 1}) = Cardinality(A) + 1
      BY <3>1, <3>2, FS_AddElement
    <3>5. i \in 1 .. n
      BY <1>2, <2>2
    <3> QED
      BY <1>3, <3>1, <3>3, <3>4, <3>5
  <2> QED
    BY <1>4, <2>1, <2>2
<1> QED
  BY <1>4, <1>6 DEF Balanced, K, L

\* ".." goes back over the last name that counts, if there is one.
LEMMA UpStep ==
  ASSUME NEW segs, NEW n \in Nat, Balanced(segs, n), segs[n + 1] = Up,
         NEW x \in Kept(segs, n), \A i \in Kept(segs, n) : i <= x
  PROVE  Kept(segs, n + 1) = Kept(segs, n) \ {x} /\ Balanced(segs, n + 1)
<1> DEFINE K == Kept(segs, n)
           L == Kept(segs, n + 1)
           after(i) == {j \in K : j > i}
<1>1. /\ n + 1 \notin L
      /\ \A i \in 1 .. n : i \in L <=> i \in K /\ Ups(segs, i, n + 1) <= Names(segs, i, n + 1)
  BY Segment, KeptStep
<1>2. K \subseteq 1 .. n /\ L \subseteq 1 .. n + 1 /\ IsFiniteSet(K)
  BY KeptType
<1>3. ASSUME NEW i \in 1 .. n
      PROVE  /\ Ups(segs, i, n + 1) = Ups(segs, i, n) + 1
             /\ Names(segs, i, n + 1) = Names(segs, i, n)
             /\ Ups(segs, i, n) \in Nat /\ Names(segs, i, n) \in Nat
  <2>1. i \in Nat /\ i <= n /\ ~IsName(segs[n + 1])
    BY Segment
  <2> QED
    BY <2>1, CountsStep
<1>4. \A i \in K : Names(segs, i, n) - Ups(segs, i, n) = Cardinality(after(i))
  BY DEF Balanced
<1>5. x \in K /\ \A i \in K : i <= x
  OBVIOUS
<1> HIDE DEF K, L
<1>6. ASSUME NEW i \in K, i # x
      PROVE  /\ x \in after(i) /\ IsFiniteSet(after(i))
             /\ Cardinality(after(i) \ {x}) = Cardinality(after(i)) - 1
             /\ Cardinality(after(i) \ {x}) \in Nat
  <2>1. x \in after(i)
    BY <1>2, <1>5, <1>6
  <2>2. IsFiniteSet(after(i))
    BY <1>2, FS_Subset
  <2> HIDE DEF after
  <2>3. Cardinality(after(i)) = Cardinality(after(i) \ {x}) + 1 /\ Cardinality(after(i) \ {x}) \in Nat
    BY <2>1, <2>2, OneLess
  <2> QED
    BY <2>1, <2>2, <2>3
<1>7. Cardinality(after(x)) = 0
  <2>1. \A j \in K : ~ j > x
    BY <1>2, <1>5
  <2>2. after(x) = {}
    BY <2>1
  <2> QED
    BY <2>2, FS_EmptySet
<1> HIDE DEF after
<1>8. L = K \ {x}
  <2>1. x \notin L
    BY <1>1, <1>2, <1>3, <1>4, <1>5, <1>7
  <2>2. ASSUME NEW i \in K, i # x
        PROVE  i \in L
    <3>1. /\ i \in 1 .. n /\ Names(segs, i, n) - Ups(segs, i, n) = Cardinality(after(i))
          /\ Cardinality(after(i) \ {x}) = Cardinality(after(i)) - 1
          /\ Cardinality(after(i) \ {x}) \in Nat
      BY <1>2, <1>4, <1>6, <2>2
    <3>2. Ups(segs, i, n + 1) <= Names(segs, i, n + 1)
      BY <1>3, <3>1
    <3> QED
      BY <1>1, <3>1, <3>2
  <2>3. \A i \in L : i \in K
    BY <1>1, <1>2
  <2> QED
    BY <2>1, <2>2, <2>3
<1>9. ASSUME NEW i \in L
      PROVE  Names(segs, i, n + 1) - Ups(segs, i, n + 1) = Cardinality({j \in L : j > i})
  <2>1. i \in K /\ i # x /\ i \in 1 .. n
    BY <1>2, <1>8
  <2>2. {j \in L : j > i} = after(i) \ {x}
    BY <1>8 DEF after
  <2>3. Names(segs, i, n) - Ups(segs, i, n) = Cardinality(after(i))
    BY <1>4, <2>1
  <2> QED
    BY <1>3, <1>6, <2>1, <2>2, <2>3
<1> QED
  BY <1>8, <1>9 DEF Balanced, K, L

\* Nor is there anything to go back over if nothing counts.
LEMMA UpAtRoot ==
  ASSUME NEW segs, NEW n \in Nat, segs[n + 1] = Up, Kept(segs, n) = {}
  PROVE  Kept(segs, n + 1) = {} /\ Balanced(segs, n + 1)
<1>1. ~IsName(segs[n + 1])
  BY Segment
<1>2. /\ n + 1 \notin Kept(segs, n + 1)
      /\ \A i \in 1 .. n : i \in Kept(segs, n + 1) => i \in Kept(segs, n)
  BY <1>1, KeptStep
<1>3. \A i \in Kept(segs, n + 1) : i \in 1 .. n \/ i = n + 1
  BY KeptType
<1>4. Kept(segs, n + 1) = {}
  BY <1>2, <1>3
<1> QED
  BY <1>4 DEF Balanced

-----------------------------------------------------------------------------
(* The stack holds the names that count.                                    *)

\* What is true of the names that count after n segments.
Good(segs, n) == Balanced(segs, n) /\ Ranked(Kept(segs, n))

\* Where the first n segments lead is again a path, of the names that count.
LEMMA PlaceType ==
  ASSUME NEW segs \in Seq(STRING), NEW n \in 0 .. Len(segs), Good(segs, n)
  PROVE  /\ Place(segs, n) \in Seq(STRING)
         /\ Len(Place(segs, n)) = Cardinality(Kept(segs, n))
         /\ \A m \in 1 .. Cardinality(Kept(segs, n)) :
              Place(segs, n)[m] = segs[Nth(Kept(segs, n), m)]
<1> DEFINE K == Kept(segs, n)
<1>1. K \subseteq 1 .. n /\ K \subseteq Nat /\ IsFiniteSet(K) /\ Cardinality(K) \in Nat
  BY KeptType
<1>2. Ranked(K)
  BY DEF Good
<1>3. Place(segs, n) = [m \in 1 .. Cardinality(K) |-> segs[Nth(K, m)]]
  BY DEF Place
<1> HIDE DEF K
<1>4. ASSUME NEW m \in 1 .. Cardinality(K)
      PROVE  segs[Nth(K, m)] \in STRING
  <2>1. PICK i \in K : Cardinality(UpTo(K, i)) = m
    BY <1>2 DEF Ranked
  <2>2. Nth(K, m) = i
    BY <1>1, <2>1, NthOf
  <2>3. i \in 1 .. Len(segs)
    BY <1>1
  <2> QED
    BY <2>2, <2>3
<1>5. Place(segs, n) \in [1 .. Cardinality(K) -> STRING]
  BY <1>3, <1>4
<1>6. Place(segs, n) \in Seq(STRING) /\ Len(Place(segs, n)) = Cardinality(K)
  BY <1>1, <1>5
<1> QED
  BY <1>3, <1>6 DEF K

\* A sequence with one element more than another is that one with it appended.
LEMMA AppendIs ==
  ASSUME NEW S, NEW s \in Seq(S), NEW x \in S, NEW t \in Seq(S),
         Len(t) = Len(s) + 1, \A m \in 1 .. Len(s) : t[m] = s[m], t[Len(s) + 1] = x
  PROVE  t = Append(s, x)
<1>1. /\ Append(s, x) \in Seq(S) /\ Len(Append(s, x)) = Len(s) + 1
      /\ \A m \in 1 .. Len(s) : Append(s, x)[m] = s[m]
      /\ Append(s, x)[Len(s) + 1] = x
  BY AppendProperties
<1>2. Len(s) \in Nat
  OBVIOUS
<1>3. \A m \in 1 .. Len(t) : t[m] = Append(s, x)[m]
  BY <1>1, <1>2
<1> QED
  BY <1>1, <1>3, SeqEqual

\* The lines of Enter, on what the first n segments lead to.
LEMMA PlaceStep ==
  ASSUME NEW segs \in Seq(STRING), NEW n \in Nat, n + 1 \in 1 .. Len(segs), Good(segs, n)
  PROVE  /\ Good(segs, n + 1)
         /\ Place(segs, n + 1) = Enter(Place(segs, n), segs[n + 1])
<1> DEFINE K == Kept(segs, n)
           L == Kept(segs, n + 1)
           P == Place(segs, n)
           Q == Place(segs, n + 1)
           seg == segs[n + 1]
<1>1. /\ K \subseteq 1 .. n /\ K \subseteq Nat /\ IsFiniteSet(K) /\ Cardinality(K) \in Nat
      /\ L \subseteq Nat /\ IsFiniteSet(L)
  <2>1. n + 1 \in Nat
    OBVIOUS
  <2> QED
    BY <2>1, KeptType
<1>2. Balanced(segs, n) /\ Ranked(K) /\ seg \in STRING
  BY DEF Good
<1>3. /\ P \in Seq(STRING) /\ Len(P) = Cardinality(K)
      /\ \A m \in 1 .. Cardinality(K) : P[m] = segs[Nth(K, m)]
  <2>1. n \in 0 .. Len(segs)
    OBVIOUS
  <2> QED
    BY <2>1, PlaceType
<1>4. Good(segs, n + 1) =>
        /\ Q \in Seq(STRING) /\ Len(Q) = Cardinality(L)
        /\ \A m \in 1 .. Cardinality(L) : Q[m] = segs[Nth(L, m)]
  <2>1. n + 1 \in 0 .. Len(segs)
    OBVIOUS
  <2> QED
    BY <2>1, PlaceType
<1>5. CASE seg \in Dot
  <2>1. L = K /\ Good(segs, n + 1)
    BY <1>2, <1>5, DotStep DEF Good
  <2>2. Q = P
    BY <2>1 DEF Place
  <2>3. Enter(P, seg) = P
    BY <1>5, Segment DEF Enter
  <2> QED
    BY <2>1, <2>2, <2>3
<1>6. CASE IsName(seg)
  <2>1. L = K \cup {n + 1} /\ Balanced(segs, n + 1)
    BY <1>2, <1>6, NameStep
  <2>2. n + 1 \in Nat /\ \A i \in K : i < n + 1
    BY <1>1
  <2> HIDE DEF K, L, P, Q, seg
  <2>3. /\ Cardinality(L) = Cardinality(K) + 1 /\ Nth(L, Cardinality(L)) = n + 1
        /\ Ranked(L)
        /\ \A m \in 1 .. Cardinality(K) : Nth(L, m) = Nth(K, m)
    <3>1. PICK x \in L : x = n + 1
      BY <2>1
    <3>2. K = L \ {x}
      <4>1. n + 1 \notin K
        BY <2>2
      <4> QED
        BY <2>1, <3>1, <4>1
    <3>3. \A i \in L : i <= x
      BY <1>1, <2>1, <3>1
    <3>4. /\ Cardinality(L) = Cardinality(L \ {x}) + 1 /\ Nth(L, Cardinality(L)) = x
          /\ Ranked(L \ {x}) <=> Ranked(L)
          /\ \A m \in 1 .. Cardinality(L \ {x}) :
               Ranked(L \ {x}) => Nth(L, m) = Nth(L \ {x}, m)
      BY <1>1, <3>3, OnTop
    <3> QED
      BY <1>2, <3>1, <3>2, <3>4
  <2>4. Good(segs, n + 1)
    BY <2>1, <2>3 DEF Good, L
  <2>5. /\ Q \in Seq(STRING) /\ Len(Q) = Len(P) + 1
        /\ \A m \in 1 .. Len(P) : Q[m] = P[m]
        /\ Q[Len(P) + 1] = seg
    BY <1>1, <1>3, <1>4, <2>3, <2>4 DEF seg
  <2>7. Q = Append(P, seg)
    BY <1>2, <1>3, <2>5, AppendIs
  <2>8. Enter(P, seg) = Append(P, seg)
    BY <1>6, Segment DEF Enter
  <2> QED
    BY <2>4, <2>7, <2>8 DEF P, Q, seg
<1>7. CASE seg = Up
  <2>1. Enter(P, seg) = SubSeq(P, 1, Len(P) - 1)
    BY <1>7, Segment DEF Enter
  <2>2. CASE K = {}
    <3>1. L = {} /\ Balanced(segs, n + 1)
      BY <1>7, <2>2, UpAtRoot
    <3>2. Cardinality(L) = 0 /\ Cardinality(K) = 0
      BY <2>2, <3>1, FS_EmptySet
    <3>3. Good(segs, n + 1)
      BY <3>1, <3>2 DEF Good, Ranked
    <3> HIDE DEF K, L, P, Q, seg
    <3>4. SubSeq(P, 1, Len(P) - 1) = <<>>
      BY <1>3, <3>2, SubSeqEmpty
    <3>5. Q = <<>>
      BY <1>4, <3>2, <3>3, EmptySeq
    <3> QED
      BY <2>1, <3>3, <3>4, <3>5 DEF P, Q, seg
  <2>3. CASE K # {}
    <3> HIDE DEF P, Q, seg
    <3>1. PICK x \in K : \A i \in K : i <= x
      BY <1>1, <1>2, <2>3, LastOf
    <3>2. L = K \ {x} /\ Balanced(segs, n + 1)
      BY <1>2, <1>7, <3>1, UpStep DEF seg
    <3> HIDE DEF K, L
    <3>4. /\ Cardinality(L) \in Nat /\ Cardinality(K) = Cardinality(L) + 1 /\ Ranked(L)
          /\ \A m \in 1 .. Cardinality(L) : Nth(K, m) = Nth(L, m)
      <4>1. /\ Cardinality(K \ {x}) \in Nat /\ Cardinality(K) = Cardinality(K \ {x}) + 1
            /\ Ranked(K \ {x}) <=> Ranked(K)
            /\ \A m \in 1 .. Cardinality(K \ {x}) :
                 Ranked(K \ {x}) => Nth(K, m) = Nth(K \ {x}, m)
        BY <1>1, <3>1, OnTop
      <4> QED
        BY <1>2, <3>2, <4>1
    <3>5. Good(segs, n + 1)
      BY <3>2, <3>4 DEF Good, L
    <3>6. /\ Q \in Seq(STRING) /\ Len(Q) = Len(P) - 1
          /\ \A m \in 1 .. Len(P) - 1 : Q[m] = P[m]
      <4>1. /\ Q \in Seq(STRING) /\ Len(Q) = Cardinality(L)
            /\ \A m \in 1 .. Cardinality(L) : Q[m] = segs[Nth(L, m)]
        BY <1>4, <3>5
      <4>2. \A m \in 1 .. Cardinality(L) : P[m] = segs[Nth(K, m)]
        BY <1>3, <3>4
      <4> QED
        BY <1>3, <3>4, <4>1, <4>2
    <3>7. /\ SubSeq(P, 1, Len(P) - 1) \in Seq(STRING)
          /\ Len(SubSeq(P, 1, Len(P) - 1)) = Len(P) - 1
          /\ \A m \in 1 .. Len(P) - 1 : SubSeq(P, 1, Len(P) - 1)[m] = P[m]
      BY <1>3, <3>4, SubSeqProperties
    <3>8. Q = SubSeq(P, 1, Len(P) - 1)
      BY <3>6, <3>7, SeqEqual
    <3> QED
      BY <2>1, <3>5, <3>8 DEF P, Q, seg
  <2> QED
    BY <2>2, <2>3
<1> QED
  BY <1>5, <1>6, <1>7, Segment

\* objects/sourcebundle.go:133, path.Clean: what the stack holds at the end are the
\* names no ".." goes back over, in their order, for a path of any length.
THEOREM CleanLeads ==
  ASSUME NEW segs \in Seq(STRING)
  PROVE  Clean(segs) = Place(segs, Len(segs))
<1> DEFINE N == Len(segs)
<1>0. N \in Nat
  OBVIOUS
<1>1. Good(segs, 0) /\ Place(segs, 0) = <<>>
  <2>1. Kept(segs, 0) = {}
    BY DEF Kept
  <2>2. Cardinality(Kept(segs, 0)) = 0
    BY <2>1, FS_EmptySet
  <2>3. Good(segs, 0)
    BY <2>1, <2>2 DEF Good, Balanced, Ranked
  <2>4. Place(segs, 0) \in Seq(STRING) /\ Len(Place(segs, 0)) = 0
    BY <1>0, <2>2, <2>3, PlaceType
  <2> QED
    BY <2>3, <2>4, EmptySeq
<1>2. \A n \in 0 .. N : Good(segs, n)
  <2> DEFINE Bad == {n \in 0 .. N : ~Good(segs, n)}
  <2> SUFFICES ASSUME Bad # {}
               PROVE  FALSE
    OBVIOUS
  <2>1. PICK n \in Bad : \A m \in Bad : n <= m
    <3>1. Bad \subseteq Nat
      BY <1>0
    <3> HIDE DEF Bad
    <3> QED
      BY <3>1, Least
  <2>2. n \in 1 .. N /\ n - 1 \in Nat /\ (n - 1) + 1 = n /\ n - 1 \notin Bad
    BY <1>0, <1>1, <2>1
  <2>3. Good(segs, n - 1)
    BY <2>2
  <2>4. Good(segs, (n - 1) + 1)
    BY <2>2, <2>3, PlaceStep
  <2> QED
    BY <2>1, <2>2, <2>4
<1>3. \A n \in 1 .. N : Place(segs, n) = Enter(Place(segs, n - 1), segs[n])
  <2> SUFFICES ASSUME NEW n \in 1 .. N
               PROVE  Place(segs, n) = Enter(Place(segs, n - 1), segs[n])
    OBVIOUS
  <2>1. n - 1 \in Nat /\ (n - 1) + 1 = n /\ n - 1 \in 0 .. N
    BY <1>0
  <2>2. Place(segs, (n - 1) + 1) = Enter(Place(segs, n - 1), segs[(n - 1) + 1])
    BY <1>2, <2>1, PlaceStep
  <2> QED
    BY <2>1, <2>2
<1> DEFINE Stack(f) == f = [n \in 0 .. N |-> IF n = 0 THEN <<>> ELSE Enter(f[n - 1], segs[n])]
           place == [n \in 0 .. N |-> Place(segs, n)]
           stack == CHOOSE f : Stack(f)
<1>4. Stack(place)
  <2>1. \A n \in 1 .. N : n - 1 \in 0 .. N
    BY <1>0
  <2>2. \A n \in 0 .. N : place[n] = IF n = 0 THEN <<>> ELSE Enter(place[n - 1], segs[n])
    BY <1>0, <1>1, <1>3, <2>1
  <2> QED
    BY <2>2
<1>5. Stack(stack)
  <2> HIDE DEF Stack
  <2> QED
    BY <1>4
<1>6. Clean(segs) = stack[N]
  BY DEF Clean
<1> HIDE DEF stack, place
<1>7. \A n \in 0 .. N : stack[n] = Place(segs, n)
  <2> DEFINE Bad == {n \in 0 .. N : stack[n] # Place(segs, n)}
  <2> SUFFICES ASSUME Bad # {}
               PROVE  FALSE
    OBVIOUS
  <2>1. PICK n \in Bad : \A m \in Bad : n <= m
    <3>1. Bad \subseteq Nat
      BY <1>0
    <3> HIDE DEF Bad
    <3> QED
      BY <3>1, Least
  <2>2. n \in 0 .. N /\ stack[n] # Place(segs, n)
    BY <2>1
  <2>3. n # 0
    BY <1>0, <1>1, <1>5, <2>2
  <2>4. n \in 1 .. N /\ n - 1 \in 0 .. N /\ n - 1 \notin Bad
    BY <1>0, <2>1, <2>2, <2>3
  <2>5. stack[n] = Enter(Place(segs, n - 1), segs[n])
    BY <1>5, <2>3, <2>4
  <2> QED
    BY <1>3, <2>2, <2>4, <2>5
<1> QED
  BY <1>0, <1>6, <1>7
=============================================================================
