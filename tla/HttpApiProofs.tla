---------------------------- MODULE HttpApiProofs ----------------------------
(***************************************************************************)
(* For any catalog and any modules that WorldAssumption allows, each way to  *)
(* ask for a file leads to one answer: a file of the module asked for, if    *)
(* Sentry holds any; and each way to write a source path to what a bundle    *)
(* of the module has there.                                                 *)
(***************************************************************************)
EXTENDS HttpApi, RequestProofs

Asks(w) == [module : w.modules, type : FileType, stem : Stem \cup {"_", "_.debug"}]

GoodAsk(w, a) == a \in Asks(w) /\ a.type \in TypesOf(a.module)

PlainName(stem, type) == [stem |-> stem, ext |-> ExtOf(type), caps |-> FALSE, last |-> "lower"]

\* The identifiers a request for a file of this type should carry.
DebugAsked(m, type) == IF type = FilePE THEN None ELSE DebugOf(m)
CodeAsked(m, type)  == IF m.kind = "windows" /\ type # FilePE THEN None ELSE CodeOf(m)

\* What is meant by a question, in its plainest spelling.
Canon(a) == Request(DebugAsked(a.module, a.type), CodeAsked(a.module, a.type),
                    PlainName(a.stem, a.type), a.type)

Means(w, req, a) == GoodAsk(w, a) /\ Alike(req, Canon(a))

\* The answers to a question: one, as OneRight has it.
Right(w, a) == Downloaded(w, Canon(a))

-----------------------------------------------------------------------------
(* The paths a debugger asks for are understood.                            *)

LEMMA Distinct ==
  /\ FilePDB # FilePE /\ FilePDB # FileSourceBundle /\ FilePE # FileSourceBundle
  /\ FileELFCode \notin {FilePDB, FilePE, FileSourceBundle, FileELFDebug}
  /\ FileELFDebug \notin {FilePDB, FilePE, FileSourceBundle}
  /\ FileMachCode \notin {FilePDB, FilePE, FileSourceBundle}
  /\ FileMachDebug \notin {FilePDB, FilePE, FileSourceBundle}
BY DEF FilePDB, FilePE, FileELFCode, FileELFDebug, FileMachCode, FileMachDebug, FileSourceBundle

LEMMA ModuleTypes ==
  ASSUME NEW m, Module(m), NEW type \in TypesOf(m)
  PROVE  /\ type \in FileType
         /\ m.kind \in {"windows", "elf", "mach"}
         /\ type = FilePE => m.kind = "windows"
         /\ type = FilePDB => m.kind = "windows"
         /\ m.kind = "windows" => type \in {FilePDB, FilePE, FileSourceBundle}
         /\ m.kind = "elf" => type \in {FileELFCode, FileELFDebug, FileSourceBundle}
         /\ m.kind = "mach" => type \in {FileMachCode, FileMachDebug, FileSourceBundle}
BY Distinct DEF Module, TypesOf, FileType

\* The name a path asks for, without the mark of the compressed form.
Bare(name) == IF isCompressed(name) THEN uncompressLeaf(name) ELSE name

LEMMA NamesUnderstood ==
  ASSUME NEW m, Module(m), NEW type \in TypesOf(m), NEW n \in NamesOf(m, type)
  PROVE  /\ n \in Name /\ n.ext = ExtOf(type)
         /\ Bare(n) \in Name
         /\ SameFold(Bare(n), PlainName(n.stem, type))
         /\ n.last = "_" => isCompressed(n)
<1>1. CASE n \in Name /\ n.ext = ExtOf(type)
           /\ (n.last = "_" => type \in {FilePDB, FilePE})
  <2>1. n.last = "_" => isCompressed(n)
    BY <1>1, Distinct DEF isCompressed, ExtOf
  <2>2. Bare(n) \in Name
    BY <1>1 DEF Bare, uncompressLeaf, Name
  <2>3. SameFold(Bare(n), PlainName(n.stem, type))
    BY <1>1, <2>1 DEF Bare, uncompressLeaf, Name, SameFold, PlainName
  <2> QED
    BY <1>1, <2>1, <2>2, <2>3
<1>2. CASE m.kind = "elf" /\ n = Placeholder(type)
  <2>1. type \in {FileELFCode, FileELFDebug, FileSourceBundle}
    BY <1>2, ModuleTypes
  <2>2. PICK stem \in {"_", "_.debug"} :
          n = [stem |-> stem, ext |-> ExtOf(type), caps |-> FALSE, last |-> "lower"]
    BY <1>2, <2>1, Distinct DEF Placeholder
  <2>3. ExtOf(type) \in {"src", "other"}
    BY <2>1, Distinct DEF ExtOf
  <2>4. n \in Name
    BY <2>2, <2>3 DEF Name
  <2>5. ~isCompressed(n) /\ n.last # "_" /\ n.ext = ExtOf(type)
    BY <2>2, <2>3 DEF isCompressed
  <2>6. Bare(n) = n
    BY <2>5 DEF Bare
  <2>7. SameFold(n, PlainName(n.stem, type))
    BY <2>2 DEF SameFold, PlainName
  <2> QED
    BY <2>4, <2>5, <2>6, <2>7
<1>3. \/ n \in Name /\ n.ext = ExtOf(type) /\ (n.last = "_" => type \in {FilePDB, FilePE})
      \/ m.kind = "elf" /\ n = Placeholder(type)
  BY DEF NamesOf
<1> QED
  BY <1>1, <1>2, <1>3

\* A signature without a prefix is read as a debug id.
Hint(type) == IF type \in {FilePDB, FileSourceBundle} THEN TRUE ELSE FALSE

LEMMA ParseOf ==
  ASSUME NEW m, Module(m), NEW type \in TypesOf(m), NEW trailing \in NamesOf(m, type),
         NEW leading, SameFold(leading, trailing), NEW sig
  PROVE  LET base == baseIdentity(sig, Bare(trailing), Hint(type))
         IN  \E form \in {"cab", "zip", "object"} :
               Parse(leading, sig, trailing) =
                 IF base = None THEN None
                 ELSE [req  |-> IF type = FileSourceBundle
                                THEN [base EXCEPT !.type = FileSourceBundle] ELSE base,
                       form |-> form]
<1> DEFINE hint == CASE isCompressed(trailing)   -> isPDB(Bare(trailing))
                     [] isSourceBundle(trailing) -> TRUE
                     [] OTHER                    -> isPDB(leading)
           form == CASE isCompressed(trailing)   -> "cab"
                     [] isSourceBundle(trailing) -> "zip"
                     [] OTHER                    -> "object"
<1>1. trailing.ext = ExtOf(type) /\ (trailing.last = "_" => isCompressed(trailing))
  BY NamesUnderstood
<1>2. SameFold(Bare(trailing), PlainName(trailing.stem, type))
  BY NamesUnderstood
<1>3. isSourceBundle(trailing) = (type = FileSourceBundle)
  BY <1>1, Distinct DEF ExtOf, isSourceBundle
<1>4. isPDB(Bare(trailing)) = IF type = FilePDB THEN TRUE ELSE FALSE
  BY <1>2, Distinct DEF ExtOf, isPDB, SameFold, PlainName
<1>5. ~isCompressed(trailing) => isPDB(leading) = IF type = FilePDB THEN TRUE ELSE FALSE
  BY <1>1, Distinct DEF ExtOf, isPDB, SameFold
<1>6. isCompressed(trailing) => type # FileSourceBundle
  BY <1>1, Distinct DEF ExtOf, isCompressed
<1>7. hint = Hint(type)
  <2>1. CASE isCompressed(trailing)
    <3>1. ~isSourceBundle(trailing)
      BY <1>3, <1>6, <2>1 DEF isSourceBundle
    <3>2. hint = isPDB(Bare(trailing))
      BY <2>1, <3>1
    <3>3. Hint(type) = IF type = FilePDB THEN TRUE ELSE FALSE
      BY <1>6, <2>1 DEF Hint
    <3> QED
      BY <1>4, <3>2, <3>3
  <2>2. CASE ~isCompressed(trailing) /\ type = FileSourceBundle
    <3>1. hint = TRUE
      BY <1>3, <2>2
    <3> QED
      BY <2>2, <3>1 DEF Hint
  <2>3. CASE ~isCompressed(trailing) /\ type # FileSourceBundle
    <3>1. hint = isPDB(leading)
      BY <1>3, <2>3
    <3>2. Hint(type) = IF type = FilePDB THEN TRUE ELSE FALSE
      BY <2>3 DEF Hint
    <3>3. isPDB(leading) = IF type = FilePDB THEN TRUE ELSE FALSE
      BY <1>5, <2>3
    <3> QED
      BY <3>1, <3>2, <3>3
  <2> QED
    BY <2>1, <2>2, <2>3
<1>8. form \in {"cab", "zip", "object"}
  OBVIOUS
<1>9. Parse(leading, sig, trailing) =
        LET base == baseIdentity(sig, Bare(trailing), hint)
        IN  IF base = None THEN None
            ELSE [req  |-> IF isSourceBundle(trailing)
                           THEN [base EXCEPT !.type = FileSourceBundle] ELSE base,
                  form |-> form]
  BY DEF Parse, Bare
<1> HIDE DEF hint, form
<1> QED
  BY <1>3, <1>7, <1>8, <1>9

Prefixes == {prefixELFDebug, prefixELFCode, prefixMachDebug, prefixMachCode}

LEMMA Unprefixed ==
  ASSUME NEW sig, sig.prefix \notin Prefixes, NEW name, NEW hint \in BOOLEAN
  PROVE  baseIdentity(sig, name, hint) =
           IF hint THEN pdbRequest(sig.body, name) ELSE peRequest(sig.body, name)
<1>1. \A i \in DOMAIN PrefixOrder : PrefixOrder[i] \in Prefixes
  BY DEF PrefixOrder, Prefixes
<1>2. \A i \in DOMAIN PrefixOrder : ~HasPrefix(sig, PrefixOrder[i])
  BY <1>1 DEF HasPrefix, Prefixes
<1>3. {i \in DOMAIN PrefixOrder : HasPrefix(sig, PrefixOrder[i])} = {}
  BY <1>2
<1> QED
  BY <1>3 DEF baseIdentity

LEMMA Prefixed ==
  ASSUME NEW sig, NEW name, NEW hint, sig.prefix \in Prefixes
  PROVE  baseIdentity(sig, name, hint) =
           IF sig.prefix \in {prefixELFDebug, prefixELFCode}
           THEN elfRequest(sig.body, name, TypeOfPrefix(sig.prefix))
           ELSE machRequest(sig.body, name, TypeOfPrefix(sig.prefix))
<1> DEFINE hits == {i \in DOMAIN PrefixOrder : HasPrefix(sig, PrefixOrder[i])}
           first == CHOOSE i \in hits : \A j \in hits : i <= j
<1>1. PICK i \in 1 .. 4 : /\ PrefixOrder[i] = sig.prefix
                          /\ i \in hits /\ (\A j \in hits : i <= j) /\ hits \subseteq 1 .. 4
  BY DEF Prefixes, HasPrefix, PrefixOrder, prefixELFDebug, prefixELFCode, prefixMachDebug, prefixMachCode
<1>2. first \in hits /\ \A j \in hits : first <= j
  BY <1>1
<1>3. first = i
  BY <1>1, <1>2
<1>4. baseIdentity(sig, name, hint) = prefixed(sig, PrefixOrder[first], name)
  BY <1>1 DEF baseIdentity
<1> HIDE DEF hits, first
<1>5. baseIdentity(sig, name, hint) = prefixed(sig, sig.prefix, name)
  BY <1>1, <1>3, <1>4
<1> QED
  BY <1>5 DEF prefixed, Rest

\* base is what such a request is read as.  A source bundle is asked for by any
\* of the module's signatures.
Reads(base, m, type, name) ==
  \E code \in CodeId \cup {None}, T \in FileType :
    /\ base = Request(DebugAsked(m, type), code, name, T)
    /\ T = type \/ type = FileSourceBundle
    /\ IF CodeAsked(m, type) = None THEN code = None
       ELSE code # None /\ EqualFold(code, CodeAsked(m, type))

LEMMA ModuleIds ==
  ASSUME NEW m, Module(m)
  PROVE  /\ CodeOf(m) \in CodeId /\ CodeOf(m) # None
         /\ DebugOf(m) \in DebugId \cup {None}
         /\ CodeOf(m).caps = FALSE
         /\ m.kind = "windows" => DebugOf(m) \in DebugId
<1>1. CodeOf(m) \in CodeId /\ CodeOf(m).caps = FALSE
  BY DEF Module, CodeOf, Hex, CodeId, Body, Ending
<1>2. DebugOf(m) \in DebugId \cup {None} /\ (m.kind = "windows" => DebugOf(m) \in DebugId)
  BY DEF Module, DebugOf, DebugId
<1> QED
  BY <1>1, <1>2, NoneAssumption

LEMMA CodeSpelled ==
  ASSUME NEW m, Module(m), NEW c \in Body, EqualFold(c, CodeOf(m))
  PROVE  c \in CodeId /\ c # None /\ CodeOf(m) # None
BY ModuleIds, NoneAssumption DEF CodeId

LEMMA ElfReads ==
  ASSUME NEW m, Module(m), m.kind = "elf", NEW type \in TypesOf(m), NEW name,
         NEW T \in FileType, T = type \/ type = FileSourceBundle,
         NEW b \in Body, b.head = m.head, b.tail = m.tail, b.dashed = FALSE
  PROVE  Reads(elfRequest(b, name, T), m, type, name)
<1>1. type # FilePE
  BY ModuleTypes
<1>2. \/ m.head \in Uuid /\ m.tail \in {"", "00", "01"}
      \/ m.head \in Short /\ m.head \notin Uuid /\ m.tail = ""
  BY HeadAssumption DEF Module
<1>3. m.head # NonHex /\ m.head # ""
  BY <1>2, HeadAssumption
<1>4. isHex(b)
  BY <1>2, <1>3 DEF isHex
<1>5. elfDebugID(b) = DebugOf(m)
  BY <1>2, <1>4 DEF elfDebugID, DebugOf
<1>6. /\ Lower(b) \in Body /\ Lower(b).head = b.head
      /\ Lower(b).tail = b.tail /\ Lower(b).dashed = b.dashed
  BY DEF Lower, Body
<1>7. /\ CodeOf(m).head = m.head /\ CodeOf(m).tail = m.tail
      /\ CodeOf(m).dashed = FALSE
  BY DEF CodeOf, Hex
<1>8. EqualFold(Lower(b), CodeOf(m))
  BY <1>6, <1>7 DEF EqualFold
<1>9. elfRequest(b, name, T) = Request(DebugOf(m), Lower(b), name, T)
  BY <1>4, <1>5 DEF elfRequest
<1>10. DebugAsked(m, type) = DebugOf(m) /\ CodeAsked(m, type) = CodeOf(m)
  BY <1>1 DEF DebugAsked, CodeAsked
<1> QED
  BY <1>6, <1>8, <1>9, <1>10, CodeSpelled DEF Reads

LEMMA MachReads ==
  ASSUME NEW m, Module(m), m.kind = "mach", NEW type \in TypesOf(m), NEW name,
         NEW T \in FileType, T = type \/ type = FileSourceBundle,
         NEW b \in Body, b.head = m.head, b.tail = ""
  PROVE  Reads(machRequest(b, name, T), m, type, name)
<1> DEFINE plain == [Lower(b) EXCEPT !.dashed = FALSE]
<1>1. type # FilePE
  BY ModuleTypes
<1>2. m.head \in Uuid /\ m.tail = "" /\ m.head # NonHex /\ m.head # ""
  BY HeadAssumption DEF Module
<1>3. plain \in Body /\ plain.head = m.head /\ plain.tail = "" /\ plain.dashed = FALSE
  BY DEF Lower, Body
<1> HIDE DEF plain
<1>4. isHex(plain)
  <2>1. <<plain.head, plain.tail>> # <<"", "">>
    BY <1>2, <1>3
  <2> QED
    BY <1>2, <1>3, <2>1 DEF isHex
<1>5. simpleUUID(b) = plain
  BY <1>2, <1>4 DEF simpleUUID, plain
<1>6. EqualFold(plain, CodeOf(m))
  <2>1. /\ CodeOf(m).head = m.head /\ CodeOf(m).tail = m.tail
        /\ CodeOf(m).dashed = FALSE
    BY DEF CodeOf, Hex
  <2> QED
    BY <1>2, <1>3, <2>1 DEF EqualFold
<1>7. plain \in CodeId /\ plain # None /\ CodeOf(m) # None
  BY <1>3, <1>6, CodeSpelled
<1>8. machRequest(b, name, T) = Request(DebugOf(m), plain, name, T)
  BY <1>5, <1>7 DEF machRequest, DebugOf
<1>9. DebugAsked(m, type) = DebugOf(m) /\ CodeAsked(m, type) = CodeOf(m)
  BY <1>1 DEF DebugAsked, CodeAsked
<1> QED
  BY <1>6, <1>7, <1>8, <1>9 DEF Reads

LEMMA PdbReads ==
  ASSUME NEW m, Module(m), m.kind = "windows", NEW type \in {FilePDB, FileSourceBundle},
         NEW name, NEW b, b.head = m.head, b.tail \in AgeSpellings(m.tail), b.dashed = FALSE
  PROVE  Reads(pdbRequest(b, name), m, type, name)
<1>1. m.head \in Uuid /\ m.tail \in {"", "1"} /\ type # FilePE
  BY Distinct DEF Module
<1>2. b.tail # "x" /\ TrimZeros(b.tail) = m.tail
  BY <1>1 DEF AgeSpellings, TrimZeros
<1>3. normalizePDB(b) = [uuid |-> m.head, order |-> "be", age |-> m.tail]
  BY <1>1, <1>2 DEF normalizePDB
<1>4. normalizePDB(b) = DebugOf(m)
  BY <1>3 DEF DebugOf
<1>5. DebugOf(m) # None
  BY ModuleIds, NoneAssumption
<1>6. pdbRequest(b, name) = Request(DebugOf(m), None, name, FilePDB)
  BY <1>4, <1>5 DEF pdbRequest
<1>7. DebugAsked(m, type) = DebugOf(m) /\ CodeAsked(m, type) = None
  BY <1>1 DEF DebugAsked, CodeAsked
<1>8. FilePDB \in FileType /\ (FilePDB = type \/ type = FileSourceBundle)
  BY DEF FileType
<1> QED
  BY <1>6, <1>7, <1>8 DEF Reads

LEMMA PeReads ==
  ASSUME NEW m, Module(m), m.kind = "windows", NEW name,
         NEW b \in Body, b.head = m.stamp, b.tail = "", b.dashed = FALSE
  PROVE  Reads(peRequest(b, name), m, FilePE, name)
<1>1. m.stamp # ""
  BY HeadAssumption DEF Module
<1>2. EqualFold(b, CodeOf(m))
  <2>1. /\ CodeOf(m).head = m.stamp /\ CodeOf(m).tail = ""
        /\ CodeOf(m).dashed = FALSE
    BY DEF CodeOf, Hex
  <2> QED
    BY <2>1 DEF EqualFold
<1>3. peRequest(b, name) = Request(None, b, name, FilePE)
  BY <1>1 DEF peRequest
<1>4. DebugAsked(m, FilePE) = None /\ CodeAsked(m, FilePE) = CodeOf(m)
  BY DEF DebugAsked, CodeAsked
<1> QED
  BY <1>2, <1>3, <1>4, CodeSpelled DEF Reads, FileType

LEMMA NoPrefix == "" \notin Prefixes
BY DEF Prefixes, prefixELFDebug, prefixELFCode, prefixMachDebug, prefixMachCode

\* A prefix among those of a module's signatures tells its kind, and the type of
\* file unless that is told by the name.
LEMMA PrefixTells ==
  ASSUME NEW m, Module(m), NEW type \in TypesOf(m), NEW p \in PrefixesOf(m, type)
  PROVE  /\ p \in Prefixes
         /\ TypeOfPrefix(p) \in FileType
         /\ TypeOfPrefix(p) = type \/ type = FileSourceBundle
         /\ m.kind # "windows"
         /\ m.kind = "elf" => p \in {prefixELFDebug, prefixELFCode}
         /\ m.kind = "mach" => p \notin {prefixELFDebug, prefixELFCode}
<1>1. TypeOfPrefix(p) \in TypesOf(m) /\ (TypeOfPrefix(p) = type \/ type = FileSourceBundle)
  BY DEF PrefixesOf
<1>2. p \in Prefixes
  BY DEF PrefixesOf, Prefixes
<1>3. /\ p \in {prefixELFDebug, prefixELFCode} => TypeOfPrefix(p) \in {FileELFCode, FileELFDebug}
      /\ p \notin {prefixELFDebug, prefixELFCode} => TypeOfPrefix(p) \in {FileMachCode, FileMachDebug}
  BY <1>2 DEF Prefixes, TypeOfPrefix, prefixELFDebug, prefixELFCode,
              prefixMachDebug, prefixMachCode
<1>4. m.kind = "windows" => TypeOfPrefix(p) \in {FilePDB, FilePE, FileSourceBundle}
  BY <1>1, ModuleTypes
<1>5. m.kind = "elf" => TypeOfPrefix(p) \in {FileELFCode, FileELFDebug, FileSourceBundle}
  BY <1>1, ModuleTypes
<1>6. m.kind = "mach" => TypeOfPrefix(p) \in {FileMachCode, FileMachDebug, FileSourceBundle}
  BY <1>1, ModuleTypes
<1>7. TypeOfPrefix(p) \in FileType
  BY <1>1, ModuleTypes
<1> QED
  BY <1>1, <1>2, <1>3, <1>4, <1>5, <1>6, <1>7
     DEF FilePDB, FilePE, FileELFCode, FileELFDebug, FileMachCode, FileMachDebug, FileSourceBundle

\* Every way to write a module's signature is read as the module's identifiers.
LEMMA BaseReads ==
  ASSUME NEW m, Module(m), NEW type \in TypesOf(m), NEW sig \in Signatures(m, type), NEW name
  PROVE  Reads(baseIdentity(sig, name, Hint(type)), m, type, name)
<1> DEFINE base == baseIdentity(sig, name, Hint(type))
<1>1. Hint(type) \in BOOLEAN
  BY DEF Hint
<1>2. CASE type = FilePE
  <2>1. m.kind = "windows" /\ m.stamp \in Uuid \cup Short
    BY <1>2, ModuleTypes DEF Module
  <2>2. sig \in Spellings({""}, m.stamp, {""}, {FALSE})
    BY <1>2, <2>1 DEF Signatures
  <2>3. /\ sig.prefix \notin Prefixes /\ sig.body \in Body
        /\ sig.body.head = m.stamp /\ sig.body.tail = "" /\ sig.body.dashed = FALSE
    BY <2>1, <2>2, NoPrefix DEF Spellings, Body, Ending
  <2>4. Hint(type) = FALSE
    BY <1>2, Distinct DEF Hint
  <2>5. base = peRequest(sig.body, name)
    BY <1>1, <2>3, <2>4, Unprefixed
  <2> QED
    BY <1>2, <2>1, <2>3, <2>5, PeReads
<1>3. CASE m.kind = "windows" /\ type # FilePE
  <2>1. type \in {FilePDB, FileSourceBundle}
    BY <1>3, ModuleTypes
  <2>2. sig \in Spellings({""}, m.head, AgeSpellings(m.tail), {FALSE})
    BY <1>3 DEF Signatures
  <2>3. /\ sig.prefix \notin Prefixes
        /\ sig.body.head = m.head /\ sig.body.tail \in AgeSpellings(m.tail)
        /\ sig.body.dashed = FALSE
    BY <2>2, NoPrefix DEF Spellings
  <2>4. Hint(type) = TRUE
    BY <2>1 DEF Hint
  <2>5. base = pdbRequest(sig.body, name)
    BY <1>1, <2>3, <2>4, Unprefixed
  <2> QED
    BY <1>3, <2>1, <2>3, <2>5, PdbReads
<1>4. CASE m.kind = "elf"
  <2>1. type # FilePE /\ m.head \in Uuid \cup Short /\ m.tail \in Ending
    BY <1>4, ModuleTypes DEF Module, Ending
  <2>2. sig \in Spellings(PrefixesOf(m, type), m.head, {m.tail}, {FALSE})
    BY <1>4, <2>1 DEF Signatures
  <2>3. /\ sig.prefix \in PrefixesOf(m, type) /\ sig.body \in Body
        /\ sig.body.head = m.head /\ sig.body.tail = m.tail /\ sig.body.dashed = FALSE
    BY <2>1, <2>2 DEF Spellings, Body
  <2>4. base = elfRequest(sig.body, name, TypeOfPrefix(sig.prefix))
    BY <1>4, <2>3, Prefixed, PrefixTells
  <2>5. /\ TypeOfPrefix(sig.prefix) \in FileType
        /\ TypeOfPrefix(sig.prefix) = type \/ type = FileSourceBundle
    BY <2>3, PrefixTells
  <2> QED
    BY <1>4, <2>3, <2>4, <2>5, ElfReads
<1>5. CASE m.kind = "mach"
  <2>1. type # FilePE /\ m.head \in Uuid \cup Short /\ "" \in Ending
    BY <1>5, ModuleTypes DEF Module, Ending
  <2>2. sig \in Spellings(PrefixesOf(m, type), m.head, {""}, BOOLEAN)
    BY <1>5, <2>1 DEF Signatures
  <2>3. /\ sig.prefix \in PrefixesOf(m, type) /\ sig.body \in Body
        /\ sig.body.head = m.head /\ sig.body.tail = ""
    BY <2>1, <2>2 DEF Spellings, Body
  <2>4. base = machRequest(sig.body, name, TypeOfPrefix(sig.prefix))
    BY <1>5, <2>3, Prefixed, PrefixTells
  <2>5. /\ TypeOfPrefix(sig.prefix) \in FileType
        /\ TypeOfPrefix(sig.prefix) = type \/ type = FileSourceBundle
    BY <2>3, PrefixTells
  <2> QED
    BY <1>5, <2>3, <2>4, <2>5, MachReads
<1> QED
  BY <1>2, <1>3, <1>4, <1>5, ModuleTypes

Typed(base, type) ==
  IF type = FileSourceBundle THEN [base EXCEPT !.type = FileSourceBundle] ELSE base

\* A request read as it should be means what was asked.
LEMMA ReadsMeans ==
  ASSUME NEW w \in Worlds, NEW m \in w.modules, NEW type \in TypesOf(m), NEW base,
         NEW name \in Name, NEW stem \in Stem \cup {"_", "_.debug"},
         SameFold(name, PlainName(stem, type)), Reads(base, m, type, name)
  PROVE  LET ask == [module |-> m, type |-> type, stem |-> stem]
         IN  /\ base # None
             /\ Typed(base, type) \in Requests
             /\ Means(w, Typed(base, type), ask)
<1> DEFINE ask == [module |-> m, type |-> type, stem |-> stem]
           debug == DebugAsked(m, type)
           asked == CodeAsked(m, type)
<1>1. Module(m) /\ type \in FileType
  BY WorldAssumption, ModuleTypes
<1>2. PICK code \in CodeId \cup {None}, T \in FileType :
        /\ base = Request(debug, code, name, T)
        /\ T = type \/ type = FileSourceBundle
        /\ IF asked = None THEN code = None ELSE code # None /\ EqualFold(code, asked)
  BY DEF Reads
<1>3. debug \in DebugId \cup {None}
  BY <1>1, ModuleIds DEF DebugAsked
<1>4. base \in Requests
  BY <1>2, <1>3 DEF Request, Requests
<1>5. Typed(base, type) = Request(debug, code, name, type)
  BY <1>2 DEF Typed, Request
<1>6. Request(debug, code, name, type) \in Requests
  BY <1>1, <1>2, <1>3 DEF Request, Requests
<1>7. Canon(ask) = Request(debug, asked, PlainName(stem, type), type)
  BY DEF Canon
<1>8. Alike(Request(debug, code, name, type), Canon(ask))
  <2> HIDE DEF debug, asked, ask
  <2>1. (code = None) = (asked = None) /\ (code # None => EqualFold(code, asked))
    BY <1>2
  <2> DEFINE r == Request(debug, code, name, type)
  <2>2. r.debug = debug /\ r.code = code /\ r.name = name /\ r.type = type
    BY DEF Request
  <2>3. /\ Canon(ask).debug = debug /\ Canon(ask).code = asked
        /\ Canon(ask).name = PlainName(stem, type) /\ Canon(ask).type = type
    <3> DEFINE plain == PlainName(stem, type)
               s == Request(debug, asked, plain, type)
    <3> HIDE DEF plain
    <3>1. s.debug = debug /\ s.code = asked /\ s.name = plain /\ s.type = type
      BY DEF Request
    <3> HIDE DEF s
    <3>2. Canon(ask) = s
      BY <1>7 DEF s, plain
    <3> QED
      BY <3>1, <3>2 DEF plain
  <2> HIDE DEF r
  <2> QED
    BY <2>1, <2>2, <2>3 DEF Alike, r
<1>9. GoodAsk(w, ask)
  BY <1>1 DEF GoodAsk, Asks
<1> QED
  BY <1>4, <1>5, <1>6, <1>8, <1>9, NoneAssumption DEF Means

\* Every path Symstore makes is understood.
LEMMA Understood ==
  ASSUME NEW w \in Worlds, NEW m \in w.modules, NEW type \in TypesOf(m),
         NEW sig \in Signatures(m, type), NEW trailing \in NamesOf(m, type),
         NEW leading, SameFold(leading, trailing)
  PROVE  LET parsed == Parse(leading, sig, trailing)
         IN  /\ parsed # None
             /\ parsed.req \in Requests
             /\ Means(w, parsed.req, Ask(m, type, trailing))
<1> DEFINE base == baseIdentity(sig, Bare(trailing), Hint(type))
<1>1. Module(m)
  BY WorldAssumption
<1>2. PICK form \in {"cab", "zip", "object"} :
        Parse(leading, sig, trailing) =
          IF base = None THEN None ELSE [req |-> Typed(base, type), form |-> form]
  BY <1>1, ParseOf DEF Typed
<1>3. Reads(base, m, type, Bare(trailing))
  BY <1>1, BaseReads
<1>4. /\ Bare(trailing) \in Name /\ trailing.stem \in Stem \cup {"_", "_.debug"}
      /\ SameFold(Bare(trailing), PlainName(trailing.stem, type))
  <2>1. trailing \in Name
    BY <1>1, NamesUnderstood
  <2>2. trailing.stem \in Stem \cup {"_", "_.debug"}
    BY <2>1 DEF Name
  <2> QED
    BY <1>1, <2>2, NamesUnderstood
<1> HIDE DEF base
<1>5. /\ base # None /\ Typed(base, type) \in Requests
      /\ Means(w, Typed(base, type), Ask(m, type, trailing))
  BY <1>3, <1>4, ReadsMeans DEF Ask
<1>6. Parse(leading, sig, trailing) = [req |-> Typed(base, type), form |-> form]
  BY <1>2, <1>5
<1>7. [req |-> Typed(base, type), form |-> form] # None
  BY <1>5, NoneAssumption
<1> QED
  BY <1>5, <1>6, <1>7

\* Every build-id Debuginfod sends is understood.
LEMMA BuildIds ==
  ASSUME NEW w \in Worlds, NEW m \in w.modules, m.kind = "elf", NEW type \in TypesOf(m),
         NEW caps \in BOOLEAN
  PROVE  LET req == ELFRequest([Hex(m.head, m.tail) EXCEPT !.caps = caps],
                               Placeholder(type), type)
         IN  /\ req # None /\ req \in Requests
             /\ Means(w, req, Ask(m, type, Placeholder(type)))
<1> DEFINE b == [Hex(m.head, m.tail) EXCEPT !.caps = caps]
           n == Placeholder(type)
           req == ELFRequest(b, n, type)
<1>1. Module(m) /\ type \in FileType
  BY WorldAssumption, ModuleTypes
<1>2. n \in NamesOf(m, type)
  BY DEF NamesOf
<1>3. type \in {FileELFCode, FileELFDebug, FileSourceBundle}
  BY <1>1, ModuleTypes
<1>4. n.last # "_"
  BY <1>3 DEF Placeholder
<1>5. Bare(n) = n
  BY <1>4 DEF Bare, isCompressed
<1>6. n \in Name /\ SameFold(n, PlainName(n.stem, type)) /\ n.stem \in Stem \cup {"_", "_.debug"}
  <2>1. n \in Name /\ SameFold(n, PlainName(n.stem, type))
    BY <1>1, <1>2, <1>5, NamesUnderstood
  <2>2. n.stem \in Stem \cup {"_", "_.debug"}
    BY <2>1 DEF Name
  <2> QED
    BY <2>1, <2>2
<1>7. b \in Body /\ b.head = m.head /\ b.tail = m.tail /\ b.dashed = FALSE
  <2>1. m.head \in Uuid \cup Short /\ m.tail \in Ending
    BY <1>1 DEF Module, Ending
  <2>2. Hex(m.head, m.tail) \in Body
    BY <2>1 DEF Hex, Body
  <2> QED
    BY <2>2 DEF Hex, Body
<1> HIDE DEF b, n
<1>8. Reads(req, m, type, n)
  BY <1>1, <1>7, ElfReads DEF ELFRequest
<1>9. req # None /\ Typed(req, type) \in Requests
      /\ Means(w, Typed(req, type), Ask(m, type, n))
  BY <1>6, <1>8, ReadsMeans DEF Ask
<1>10. Typed(req, type) = req
  <2>1. req = Request(elfDebugID(b), Lower(b), n, type)
    BY <1>9 DEF ELFRequest, elfRequest
  <2> HIDE DEF req
  <2> QED
    BY <2>1 DEF Typed, Request
<1> HIDE DEF req
<1>11. req # None /\ req \in Requests /\ Means(w, req, Ask(m, type, n))
  BY <1>9, <1>10
<1> QED
  BY <1>11 DEF req, b, n

\* No path Malformed makes with a garbled signature is understood.
LEMMA Garbled ==
  ASSUME NEW w \in Worlds, NEW m \in w.modules, NEW type \in TypesOf(m), type # FilePE,
         NEW sig \in Signatures(m, type), NEW n \in NamesOf(m, type)
  PROVE  Parse(n, [sig EXCEPT !.body.tail = "x"], n) = None
<1> DEFINE bad  == [sig EXCEPT !.body.tail = "x"]
           base == baseIdentity(bad, Bare(n), Hint(type))
<1>1. Module(m) /\ SameFold(n, n) /\ Hint(type) \in BOOLEAN
  BY WorldAssumption DEF SameFold, Hint
<1>2. base = None => Parse(n, bad, n) = None
  BY <1>1, ParseOf
<1>3. CASE m.kind = "windows"
  <2>1. sig \in Spellings({""}, m.head, AgeSpellings(m.tail), {FALSE})
    BY <1>3 DEF Signatures
  <2>2. bad.prefix \notin Prefixes /\ bad.body.tail = "x"
    BY <2>1, NoPrefix DEF Spellings
  <2>3. Hint(type) = TRUE
    BY <1>1, <1>3, ModuleTypes DEF Hint
  <2> HIDE DEF bad
  <2>4. base = pdbRequest(bad.body, Bare(n))
    BY <1>1, <2>2, <2>3, Unprefixed
  <2>5. base = None
    BY <2>2, <2>4 DEF pdbRequest, normalizePDB
  <2> QED
    BY <1>2, <2>5 DEF bad
<1>4. CASE m.kind \in {"elf", "mach"}
  <2>1. \E tails, dashed : sig \in Spellings(PrefixesOf(m, type), m.head, tails, dashed)
    BY <1>4 DEF Signatures
  <2>2. sig.prefix \in Prefixes
    BY <1>1, <2>1, PrefixTells DEF Spellings
  <2>3. bad.prefix = sig.prefix /\ bad.body.tail = "x" /\ Lower(bad.body).tail = "x"
        /\ [Lower(bad.body) EXCEPT !.dashed = FALSE].tail = "x"
    BY <2>1 DEF Spellings, Lower
  <2> HIDE DEF bad
  <2>4. \/ base = elfRequest(bad.body, Bare(n), TypeOfPrefix(bad.prefix))
        \/ base = machRequest(bad.body, Bare(n), TypeOfPrefix(bad.prefix))
    BY <2>2, <2>3, Prefixed
  <2>5. base = None
    BY <2>3, <2>4 DEF elfRequest, machRequest, simpleUUID, isHex
  <2> QED
    BY <1>2, <2>5 DEF bad
<1> QED
  BY <1>1, <1>3, <1>4, ModuleTypes

-----------------------------------------------------------------------------
(* One answer to a question.                                                *)

\* The resolver answers what was meant, however it was spelled.
LEMMA MeantRight ==
  ASSUME NEW w, NEW req, NEW a, Means(w, req, a)
  PROVE  Downloaded(w, req) = Right(w, a)
BY AlikePicks DEF Means, Right, Downloaded

\* What is picked is the answer if it can be fetched.
LEMMA RightPicks ==
  ASSUME NEW w \in Worlds, NEW a
  PROVE  Right(w, a) =
           IF ~w.known \/ Picks(w.files, Canon(a)) = {} THEN {None}
           ELSE {IF Usable(f) THEN f ELSE None : f \in Picks(w.files, Canon(a))}
<1> DEFINE picks == Picks(w.files, Canon(a))
<1>1. CASE ~w.known \/ picks = {}
  <2>1. Located(w, Canon(a)) = {None}
    BY <1>1 DEF Located
  <2> QED
    BY <1>1, <2>1 DEF Right, Downloaded
<1>2. CASE w.known /\ picks # {}
  <2>1. Located(w, Canon(a)) = {IF Hashed(f) THEN f ELSE None : f \in picks}
    BY <1>2 DEF Located
  <2>2. \A f \in picks : f # None
    BY WorldAssumption DEF Picks, Matches
  <2> HIDE DEF picks
  <2>3. Right(w, a) = {IF Usable(f) THEN f ELSE None : f \in picks}
    BY <2>1, <2>2 DEF Right, Downloaded, Usable
  <2> QED
    BY <1>2, <2>3 DEF picks
<1> QED
  BY <1>1, <1>2, WorldAssumption

\* Files with one hash are one file, and files without one are not found.
LEMMA OneRight ==
  ASSUME NEW w \in Worlds, NEW a, NEW x \in Right(w, a), NEW y \in Right(w, a)
  PROVE  x = y
<1> DEFINE picks == Picks(w.files, Canon(a))
<1>1. CASE ~w.known \/ picks = {}
  BY <1>1, RightPicks
<1>2. CASE w.known /\ picks # {}
  <2>1. PICK f \in picks : x = IF Usable(f) THEN f ELSE None
    BY <1>2, RightPicks
  <2>2. PICK g \in picks : y = IF Usable(g) THEN g ELSE None
    BY <1>2, RightPicks
  <2>3. f \in w.files /\ g \in w.files
    BY DEF Picks, Matches
  <2>4. f.sha = g.sha
    BY WorldAssumption, PicksTie
  <2>5. f = g \/ (~Hashed(f) /\ ~Hashed(g))
    BY <2>3, <2>4, WorldAssumption DEF Hashed
  <2> HIDE DEF picks
  <2> QED
    BY <2>1, <2>2, <2>5 DEF Usable
<1> QED
  BY <1>1, <1>2

LEMMA RightExists ==
  ASSUME NEW w \in Worlds, NEW a
  PROVE  Right(w, a) # {}
BY RightPicks

\* Questions whose requests are cached under one key have one answer.
LEMMA KeyTells ==
  ASSUME NEW w \in Worlds, NEW r \in Requests, NEW s \in Requests, NEW a, NEW b,
         Means(w, r, a), Means(w, s, b), cacheKey(r) = cacheKey(s)
  PROVE  Right(w, a) = Right(w, b)
<1>1. r.type = s.type /\ r.name = s.name
      /\ (IF r.debug # None THEN r.debug ELSE r.code) = (IF s.debug # None THEN s.debug ELSE s.code)
  BY DEF cacheKey
<1>2. /\ r.debug \in DebugId \cup {None} /\ s.debug \in DebugId \cup {None}
      /\ r.code \in CodeId \cup {None} /\ s.code \in CodeId \cup {None}
  BY DEF Requests
<1>3. ASSUME NEW d \in DebugId, NEW c \in CodeId \cup {None}
      PROVE  d # c
  <2>1. d # None
    BY NoneAssumption
  <2>2. ASSUME c \in CodeId
        PROVE  d # c
    BY <2>2 DEF DebugId, CodeId, Body
  <2> QED
    BY <2>1, <2>2
<1>4. CASE r.debug # None
  <2>1. s.debug = r.debug
    BY <1>1, <1>2, <1>3, <1>4
  <2>2. /\ Canon(a).debug = DebugAsked(a.module, a.type) /\ Canon(a).type = a.type
        /\ Canon(b).debug = DebugAsked(b.module, b.type) /\ Canon(b).type = b.type
        /\ Canon(a).name.stem = a.stem /\ Canon(b).name.stem = b.stem
    BY DEF Canon, Request, PlainName
  <2>3. /\ a.type = b.type /\ a.stem = b.stem
        /\ DebugOf(a.module) # None /\ DebugOf(a.module) = DebugOf(b.module)
    BY <1>1, <1>4, <2>1, <2>2 DEF Means, Alike, SameFold, DebugAsked
  <2>4. a \in Asks(w) /\ b \in Asks(w)
    BY DEF Means, GoodAsk
  <2>5. a.module = b.module
    BY <2>3, <2>4, WorldAssumption DEF Asks
  <2>6. /\ a = [module |-> a.module, type |-> a.type, stem |-> a.stem]
        /\ b = [module |-> b.module, type |-> b.type, stem |-> b.stem]
    BY <2>4 DEF Asks
  <2>7. a = b
    BY <2>3, <2>5, <2>6
  <2> QED
    BY <2>7
<1>5. CASE r.debug = None
  <2>1. s.debug = None /\ r.code = s.code
    BY <1>1, <1>2, <1>3, <1>5
  <2>2. Alike(r, s)
    BY <1>1, <1>5, <2>1 DEF Alike, EqualFold, SameFold
  <2>3. Downloaded(w, r) = Downloaded(w, s)
    BY <2>2, AlikePicks DEF Downloaded
  <2> QED
    BY <2>3, MeantRight
<1> QED
  BY <1>4, <1>5

LEMMA CanonParts ==
  ASSUME NEW a
  PROVE  /\ Canon(a).debug = DebugAsked(a.module, a.type)
         /\ Canon(a).code = CodeAsked(a.module, a.type)
         /\ Canon(a).type = a.type
<1> DEFINE plain == PlainName(a.stem, a.type)
<1> HIDE DEF plain
<1>1. Canon(a) = Request(DebugAsked(a.module, a.type), CodeAsked(a.module, a.type), plain, a.type)
  BY DEF Canon, plain
<1> QED
  BY <1>1 DEF Request

\* Sentry's code ids are matched as text without case, and all in lower case.
LEMMA FoldedCode ==
  ASSUME NEW m, Module(m), NEW c \in CodeId, ~c.caps, EqualFold(c, CodeOf(m))
  PROVE  c = CodeOf(m)
<1> DEFINE code == CodeOf(m)
<1>1. code \in Body /\ code.caps = FALSE
  BY ModuleIds DEF CodeId
<1> HIDE DEF code
<1>2. c \in Body /\ c.caps = FALSE
  BY DEF CodeId, Body
<1>3. c.head = code.head /\ c.tail = code.tail /\ c.dashed = code.dashed
  BY DEF EqualFold, code
<1>4. /\ c = [head |-> c.head, tail |-> c.tail, caps |-> c.caps, dashed |-> c.dashed]
      /\ code = [head |-> code.head, tail |-> code.tail, caps |-> code.caps,
                 dashed |-> code.dashed]
  BY <1>1, <1>2 DEF Body
<1>5. c = code
  BY <1>1, <1>2, <1>3, <1>4
<1> QED
  BY <1>5 DEF code

\* What matches the plainest spelling is a file of the module asked for.
LEMMA MatchBelongs ==
  ASSUME NEW w \in Worlds, NEW a, GoodAsk(w, a), NEW f \in Matches(w.files, Canon(a))
  PROVE  f \in w.files /\ Belongs(f, a.module, a.type)
<1> DEFINE m == a.module
           type == a.type
<1>1. f \in w.files /\ matchesIdentity(f, Canon(a)) /\ RightSide(f, Canon(a))
  BY DEF Matches
<1>2. Module(m)
  BY WorldAssumption DEF GoodAsk, Asks
<1>3. f.code # None => f.code \in CodeId /\ ~f.code.caps
  BY <1>1, WorldAssumption
<1>4. (f.manifest # None) = (type = FileSourceBundle)
  BY <1>1, CanonParts DEF RightSide
<1>5. \/ type # FilePE /\ f.debug # None /\ f.debug = DebugOf(m)
      \/ (type = FilePE \/ m.kind # "windows") /\ f.code = CodeOf(m)
  <2>1. CASE DebugAsked(m, type) # None /\ f.debug = DebugAsked(m, type)
    BY <2>1 DEF DebugAsked
  <2>2. CASE /\ CodeAsked(m, type) # None /\ f.code # None
             /\ EqualFold(f.code, CodeAsked(m, type))
    <3>1. (type = FilePE \/ m.kind # "windows") /\ CodeAsked(m, type) = CodeOf(m)
      BY <2>2 DEF CodeAsked
    <3> QED
      BY <1>2, <1>3, <2>2, <3>1, FoldedCode
  <2> QED
    BY <1>1, <2>1, <2>2, CanonParts DEF matchesIdentity
<1> QED
  BY <1>1, <1>4, <1>5 DEF Belongs

LEMMA RightBelongs ==
  ASSUME NEW w \in Worlds, NEW a, GoodAsk(w, a), NEW f \in Right(w, a), f # None
  PROVE  f \in w.files /\ Belongs(f, a.module, a.type)
<1>1. f \in Matches(w.files, Canon(a))
  BY RightPicks DEF Picks
<1> QED
  BY <1>1, MatchBelongs

\* A file of the module asked for matches, so that some file is picked.
LEMMA HeldPicked ==
  ASSUME NEW w \in Worlds, NEW a, GoodAsk(w, a),
         NEW f \in w.files, Belongs(f, a.module, a.type)
  PROVE  Picks(w.files, Canon(a)) # {}
<1> DEFINE m == a.module
           type == a.type
<1>1. Module(m)
  BY WorldAssumption DEF GoodAsk, Asks
<1>2. matchesIdentity(f, Canon(a))
  <2>1. CASE type # FilePE /\ f.debug # None /\ f.debug = DebugOf(m)
    BY <2>1, CanonParts DEF matchesIdentity, DebugAsked
  <2>2. CASE (type = FilePE \/ m.kind # "windows") /\ f.code = CodeOf(m)
    BY <1>1, <2>2, CanonParts, ModuleIds DEF matchesIdentity, CodeAsked, EqualFold
  <2> QED
    BY <2>1, <2>2 DEF Belongs
<1>3. RightSide(f, Canon(a))
  BY CanonParts DEF Belongs, RightSide
<1>4. Matches(w.files, Canon(a)) # {}
  BY <1>2, <1>3 DEF Matches
<1> QED
  BY <1>4, SomethingPicked, WorldAssumption

\* What is picked is served unless it cannot be fetched.
LEMMA UnusableOnly ==
  ASSUME NEW w \in Worlds, NEW a, w.known, Picks(w.files, Canon(a)) # {},
         None \in Right(w, a)
  PROVE  \E f \in Picks(w.files, Canon(a)) : ~Usable(f)
<1>1. \A f \in Picks(w.files, Canon(a)) : f # None
  BY WorldAssumption DEF Picks, Matches
<1> QED
  BY <1>1, RightPicks

\* A file of the module is the reason for a 404, if the project has any.
LEMMA HeldReason ==
  ASSUME NEW w \in Worlds, w.known, NEW a, GoodAsk(w, a), None \in Right(w, a),
         NEW f \in w.files, Belongs(f, a.module, a.type)
  PROVE  \E g \in w.files : Belongs(g, a.module, a.type) /\ ~Usable(g)
<1>1. PICK g \in Picks(w.files, Canon(a)) : ~Usable(g)
  BY HeldPicked, UnusableOnly
<1>2. g \in w.files /\ Belongs(g, a.module, a.type)
  BY MatchBelongs DEF Picks
<1> QED
  BY <1>1, <1>2

-----------------------------------------------------------------------------
(* The inductive invariant.                                                 *)

Fields == {"pc", "ask", "req", "form", "path", "since", "got"}
Shape(c) == DOMAIN c = Fields

\* The request of a client means something, and what it asked if that is known.
Meant(w, c) ==
  /\ c.req \in Requests
  /\ \E a : Means(w, c.req, a)
  /\ c.ask # None => Means(w, c.req, c.ask)

GoodAnswer(w, c, got) ==
  got.status # 503 /\ c.ask # None =>
    /\ GoodAsk(w, c.ask)
    /\ got.file # None => got.file \in Right(w, c.ask)
    /\ c.path = None => /\ got.file \in Right(w, c.ask)
                        /\ got.file # None => got.status \in {200, 304}

\* A request that waits, or may be sent again, means something.
GoodClient(w, c) ==
  /\ Shape(c)
  /\ c.pc \in {"cab_lookup", "lookup", "resolve"} => Meant(w, c)
  /\ c.pc = "done" => GoodAnswer(w, c, c.got) /\ (c.got.modified # None => Meant(w, c))

\* An entry holds the answer to a question whose request has its key.
GoodEntry(w, e) ==
  /\ e.file # None
  /\ \E r \in Requests : \E a :
       Means(w, r, a) /\ e.at.key = cacheKey(r) /\ e.file \in Right(w, a)

GoodWitness(w, x) == x # None => GoodAsk(w, x.ask) /\ x.file \in Right(w, x.ask)

IInv ==
  /\ world \in Worlds
  /\ client = [p \in Client |-> client[p]]
  /\ \A p \in Client : GoodClient(world, client[p])
  /\ \A e \in cache : GoodEntry(world, e)
  /\ GoodWitness(world, witness)

LEMMA IdleParts ==
  /\ Shape(Idle) /\ Idle.pc = "idle" /\ Idle.ask = None /\ Idle.path = None
BY DEF Idle, Shape, Fields

LEMMA InitIInv == Init => IInv
<1> SUFFICES ASSUME Init PROVE IInv
  OBVIOUS
<1>1. GoodClient(world, Idle)
  BY IdleParts DEF GoodClient
<1>2. client = [p \in Client |-> client[p]] /\ \A p \in Client : client[p] = Idle
  BY DEF Init
<1> QED
  BY <1>1, <1>2 DEF Init, IInv, GoodWitness

\* A step of one client that leaves the cache alone.
LEMMA ClientStep ==
  ASSUME IInv, NEW p \in Client, NEW c, client' = [client EXCEPT ![p] = c],
         GoodClient(world, c), GoodWitness(world, witness'), UNCHANGED <<world, cache>>
  PROVE  IInv'
<1>1. client' = [q \in Client |-> client'[q]]
  BY DEF IInv
<1>2. \A q \in Client : client'[q] = IF q = p THEN c ELSE client[q]
  BY DEF IInv
<1>3. \A q \in Client : GoodClient(world, client'[q])
  BY <1>2 DEF IInv
<1> QED
  BY <1>1, <1>3 DEF IInv

LEMMA StartOK ==
  ASSUME IInv, NEW p \in Client, NEW ask, NEW req \in Requests, NEW form, NEW path,
         NEW a, Means(world, req, a), ask # None => Means(world, req, ask),
         Start(p, ask, req, form, path), UNCHANGED <<world, cache>>
  PROVE  IInv'
<1> DEFINE c == [Idle EXCEPT !.pc = IF form = "cab" THEN "cab_lookup" ELSE "lookup",
                             !.ask = ask, !.req = req, !.form = form, !.path = path]
<1>1. Shape(c) /\ c.pc \in {"cab_lookup", "lookup"} /\ c.ask = ask /\ c.req = req
  BY DEF Idle, Shape, Fields
<1>2. client' = [client EXCEPT ![p] = c] /\ witness' = witness
  BY DEF Start
<1> HIDE DEF c
<1>3. Meant(world, c)
  BY <1>1 DEF Meant
<1>4. GoodClient(world, c)
  BY <1>1, <1>3 DEF GoodClient
<1>5. GoodWitness(world, witness')
  BY <1>2 DEF IInv
<1> QED
  BY <1>2, <1>4, <1>5, ClientStep

LEMMA AnswerParts ==
  ASSUME NEW status, NEW file, NEW entry, NEW modified, NEW born
  PROVE  LET got == Answer(status, file, entry, modified, born)
         IN  /\ got.status = status /\ got.file = file
             /\ got.entry = entry /\ got.modified = modified
BY DEF Answer

LEMMA RefuseOK ==
  ASSUME IInv, NEW p \in Client, NEW status, Refuse(p, None, status), UNCHANGED <<world, cache>>
  PROVE  IInv'
<1> DEFINE c == [Idle EXCEPT !.pc = "done", !.ask = None, !.got = Refusal(status)]
<1>1. Shape(c) /\ c.pc = "done" /\ c.ask = None /\ c.got = Refusal(status)
  BY DEF Idle, Shape, Fields
<1>2. client' = [client EXCEPT ![p] = c] /\ witness' = witness
  BY DEF Refuse, Note
<1>3. Refusal(status).modified = None
  BY AnswerParts DEF Refusal
<1> HIDE DEF c
<1>4. GoodClient(world, c)
  BY <1>1, <1>3 DEF GoodClient, GoodAnswer
<1>5. GoodWitness(world, witness')
  BY <1>2 DEF IInv
<1> QED
  BY <1>2, <1>4, <1>5, ClientStep

\* Answering a client whose request means something, with what is right.
LEMMA FinishOK ==
  ASSUME IInv, NEW p \in Client, Meant(world, client[p]),
         NEW got, GoodAnswer(world, client[p], got),
         Finish(p, got), world' = world, \A e \in cache' : GoodEntry(world, e)
  PROVE  IInv'
<1> DEFINE old == client[p]
           c == [old EXCEPT !.pc = "done", !.got = got]
<1>1. client' = [client EXCEPT ![p] = c]
  BY DEF Finish, IInv
<1>2. Shape(old)
  BY DEF IInv, GoodClient
<1>3. /\ Shape(c) /\ c.pc = "done" /\ c.got = got
      /\ c.ask = old.ask /\ c.req = old.req /\ c.path = old.path
  BY <1>2 DEF Shape, Fields
<1>4. GoodClient(world, c)
  <2> HIDE DEF c
  <2>1. Meant(world, c) /\ GoodAnswer(world, c, got)
    BY <1>3 DEF Meant, GoodAnswer
  <2> QED
    BY <1>3, <2>1 DEF GoodClient
<1>5. GoodWitness(world, witness')
  <2>1. CASE witness' = witness
    BY <2>1 DEF IInv
  <2>2. CASE witness' # witness
    <3>1. /\ old.path = None /\ old.ask # None /\ got.status # 503
          /\ witness' = [ask |-> old.ask, file |-> got.file]
      BY <2>2 DEF Finish, Note
    <3>2. GoodAsk(world, old.ask) /\ got.file \in Right(world, old.ask)
      BY <3>1 DEF GoodAnswer
    <3> QED
      BY <3>1, <3>2 DEF GoodWitness
  <2> QED
    BY <2>1, <2>2
<1>6. /\ client' = [q \in Client |-> client'[q]]
      /\ \A q \in Client : client'[q] = IF q = p THEN c ELSE client[q]
  <2> HIDE DEF c
  <2> QED
    BY <1>1 DEF IInv
<1>7. \A q \in Client : GoodClient(world, client'[q])
  BY <1>4, <1>6 DEF IInv
<1> HIDE DEF c, old
<1> QED
  BY <1>5, <1>6, <1>7 DEF IInv

\* What answers each question a request may mean.
Fits(w, req, f) == \A a : Means(w, req, a) => f \in Right(w, a)

LEMMA FitsAnswer ==
  ASSUME NEW w, NEW c, Meant(w, c), NEW got,
         got.file # None => Fits(w, c.req, got.file),
         \/ c.path # None
         \/ got.file # None /\ got.status \in {200, 304}
         \/ got.file = None /\ Fits(w, c.req, None)
  PROVE  GoodAnswer(w, c, got)
BY DEF GoodAnswer, Fits, Meant, Means

LEMMA HitFits ==
  ASSUME IInv, NEW c, Meant(world, c),
         NEW e \in cache, e.at.key = cacheKey(c.req)
  PROVE  e.file # None /\ Fits(world, c.req, e.file)
<1>0. PICK r \in Requests :
        \E b : Means(world, r, b) /\ e.at.key = cacheKey(r) /\ e.file \in Right(world, b)
  BY DEF IInv, GoodEntry
<1>1. PICK b : Means(world, r, b) /\ e.at.key = cacheKey(r) /\ e.file \in Right(world, b)
  BY <1>0
<1>2. ASSUME NEW a, Means(world, c.req, a)
      PROVE  e.file \in Right(world, a)
  <2>1. c.req \in Requests /\ world \in Worlds /\ cacheKey(r) = cacheKey(c.req)
    BY <1>1 DEF IInv, Meant
  <2>2. Means(world, r, b) /\ Means(world, c.req, a)
    BY <1>1, <1>2
  <2>3. \A t \in Requests : Means(world, t, a) /\ cacheKey(r) = cacheKey(t)
                              => Right(world, b) = Right(world, a)
    BY <2>1, <2>2, KeyTells
  <2>4. Right(world, b) = Right(world, a)
    BY <2>1, <2>2, <2>3
  <2> QED
    BY <1>1, <2>4
<1> QED
  BY <1>2 DEF Fits, IInv, GoodEntry

LEMMA FitsEntry ==
  ASSUME NEW w, NEW c, Meant(w, c), NEW e, e.file # None, e.at.key = cacheKey(c.req),
         Fits(w, c.req, e.file)
  PROVE  GoodEntry(w, e)
BY DEF GoodEntry, Meant, Fits

LEMMA TouchParts ==
  ASSUME NEW e
  PROVE  Touch(e).file = e.file /\ Touch(e).at = e.at
BY DEF Touch

LEMMA ServeParts ==
  ASSUME NEW p, NEW e
  PROVE  /\ ServeContent(p, e).file = e.file
         /\ ServeContent(p, e).status \in {200, 304}
BY AnswerParts DEF ServeContent

LEMMA PutOK ==
  ASSUME IInv, NEW es, Put(es), \A e \in es : GoodEntry(world, e)
  PROVE  \A e \in cache' : GoodEntry(world, e)
BY DEF Put, IInv

\* Serving an object: what answers the request goes to the debugger, and into
\* the cache under the request's key.
LEMMA DeliverOK ==
  ASSUME IInv, NEW p \in Client, Meant(world, client[p]), NEW e, e.file # None,
         e.at.key = cacheKey(client[p].req), Fits(world, client[p].req, e.file),
         Deliver(p, e), world' = world
  PROVE  IInv'
<1> DEFINE c == client[p]
           cab == Entry(KeyOf(p, "cab"), e.file)
<1>1. GoodEntry(world, Touch(e))
  BY TouchParts, FitsEntry
<1>2. cab.file = e.file /\ cab.at.key = cacheKey(c.req)
  BY DEF Entry, KeyOf
<1>3. GoodEntry(world, cab)
  <2> HIDE DEF cab
  <2> QED
    BY <1>2, FitsEntry
<1>4. CASE c.path # None
  <2>1. PICK a \in SourceAnswers(p, e.file) : Finish(p, a)
    BY <1>4 DEF Deliver
  <2>2. Put({Touch(e)})
    BY <1>4 DEF Deliver
  <2>3. a.file \in {None, e.file}
    BY <2>1, AnswerParts DEF SourceAnswers, Refusal
  <2>4. GoodAnswer(world, c, a)
    BY <1>4, <2>3, FitsAnswer
  <2> QED
    BY <1>1, <2>1, <2>2, <2>4, PutOK, FinishOK
<1>5. CASE c.path = None /\ c.form # "cab"
  <2>1. Finish(p, ServeContent(p, e)) /\ Put({Touch(e)})
    BY <1>5 DEF Deliver
  <2>2. GoodAnswer(world, c, ServeContent(p, e))
    BY ServeParts, FitsAnswer
  <2> QED
    BY <1>1, <2>1, <2>2, PutOK, FinishOK
<1>6. CASE c.path = None /\ c.form = "cab"
  <2>1. \/ Finish(p, ServeContent(p, cab)) /\ Put({Touch(e), cab})
        \/ Finish(p, Refusal(503)) /\ Put({Touch(e)})
    BY <1>6 DEF Deliver
  <2> HIDE DEF cab
  <2>2. GoodAnswer(world, c, ServeContent(p, cab))
    BY <1>2, ServeParts, FitsAnswer
  <2>3. GoodAnswer(world, c, Refusal(503))
    BY AnswerParts DEF GoodAnswer, Refusal
  <2>4. ASSUME Finish(p, ServeContent(p, cab)), Put({Touch(e), cab})
        PROVE  IInv'
    BY <1>1, <1>3, <2>2, <2>4, PutOK, FinishOK
  <2>5. ASSUME Finish(p, Refusal(503)), Put({Touch(e)})
        PROVE  IInv'
    BY <1>1, <2>3, <2>5, PutOK, FinishOK
  <2> QED
    BY <2>1, <2>4, <2>5
<1> QED
  BY <1>4, <1>5, <1>6

-----------------------------------------------------------------------------
(* Each action keeps it.                                                    *)

LEMMA SymstoreOK ==
  ASSUME IInv, NEW p \in Client, Symstore(p)
  PROVE  IInv'
<1>1. PICK m \in world.modules : \E type \in TypesOf(m) :
        \E sig \in Signatures(m, type), trailing \in NamesOf(m, type) :
          symstoreRoute(p, Ask(m, type, trailing), [trailing EXCEPT !.caps = FALSE], sig, trailing)
  BY DEF Symstore, Loaded
<1>2. PICK type \in TypesOf(m) :
        \E sig \in Signatures(m, type), trailing \in NamesOf(m, type) :
          symstoreRoute(p, Ask(m, type, trailing), [trailing EXCEPT !.caps = FALSE], sig, trailing)
  BY <1>1
<1>3. PICK sig \in Signatures(m, type), trailing \in NamesOf(m, type) :
        symstoreRoute(p, Ask(m, type, trailing), [trailing EXCEPT !.caps = FALSE], sig, trailing)
  BY <1>2
<1> DEFINE leading == [trailing EXCEPT !.caps = FALSE]
           parsed == Parse(leading, sig, trailing)
           ask == Ask(m, type, trailing)
<1>4. world \in Worlds
  BY DEF IInv
<1>5. SameFold(leading, trailing)
  <2>1. trailing \in Name
    BY <1>4, WorldAssumption, NamesUnderstood
  <2> QED
    BY <2>1 DEF SameFold, Name
<1> HIDE DEF leading
<1>6. parsed # None /\ parsed.req \in Requests /\ Means(world, parsed.req, ask)
  BY <1>4, <1>5, Understood
<1>7. Start(p, ask, parsed.req, parsed.form, None)
  BY <1>5, <1>6, <1>3 DEF symstoreRoute, leading
<1> HIDE DEF parsed, ask
<1>8. UNCHANGED <<world, cache>>
  BY DEF Symstore
<1> QED
  BY <1>6, <1>7, <1>8, StartOK

LEMMA MalformedOK ==
  ASSUME IInv, NEW p \in Client, Malformed(p)
  PROVE  IInv'
<1>1. PICK m \in world.modules : \E type \in TypesOf(m) :
        \E sig \in Signatures(m, type), leading \in NamesOf(m, type), trailing \in NamesOf(m, type) :
          \/ symstoreRoute(p, None, [leading EXCEPT !.ext = "other"], sig, trailing)
          \/ /\ type # FilePE
             /\ symstoreRoute(p, None, trailing, [sig EXCEPT !.body.tail = "x"], trailing)
  BY DEF Malformed, Loaded
<1>2. PICK type \in TypesOf(m) :
        \E sig \in Signatures(m, type), leading \in NamesOf(m, type), trailing \in NamesOf(m, type) :
          \/ symstoreRoute(p, None, [leading EXCEPT !.ext = "other"], sig, trailing)
          \/ /\ type # FilePE
             /\ symstoreRoute(p, None, trailing, [sig EXCEPT !.body.tail = "x"], trailing)
  BY <1>1
<1>3. PICK sig \in Signatures(m, type), leading \in NamesOf(m, type), trailing \in NamesOf(m, type) :
        \/ symstoreRoute(p, None, [leading EXCEPT !.ext = "other"], sig, trailing)
        \/ /\ type # FilePE
           /\ symstoreRoute(p, None, trailing, [sig EXCEPT !.body.tail = "x"], trailing)
  BY <1>2
<1>4. world \in Worlds /\ UNCHANGED <<world, cache>>
  BY DEF IInv, Malformed
<1>5. CASE symstoreRoute(p, None, [leading EXCEPT !.ext = "other"], sig, trailing)
  <2> DEFINE other == [leading EXCEPT !.ext = "other"]
             parsed == Parse(other, sig, trailing)
  <2> HIDE DEF other
  <2>1. CASE SameFold(other, trailing)
    <3>1. parsed # None /\ parsed.req \in Requests
          /\ Means(world, parsed.req, Ask(m, type, trailing))
      BY <1>4, <2>1, Understood
    <3>2. Start(p, None, parsed.req, parsed.form, None)
      BY <1>5, <2>1, <3>1 DEF symstoreRoute, other
    <3> HIDE DEF parsed
    <3> QED
      BY <1>4, <3>1, <3>2, StartOK
  <2>2. CASE ~SameFold(other, trailing)
    <3>1. Refuse(p, None, 400)
      BY <1>5, <2>2 DEF symstoreRoute, other
    <3> QED
      BY <1>4, <3>1, RefuseOK
  <2> QED
    BY <2>1, <2>2
<1>6. CASE /\ type # FilePE
           /\ symstoreRoute(p, None, trailing, [sig EXCEPT !.body.tail = "x"], trailing)
  <2>1. Parse(trailing, [sig EXCEPT !.body.tail = "x"], trailing) = None
    BY <1>4, <1>6, Garbled
  <2>2. Refuse(p, None, 404)
    BY <1>6, <2>1 DEF symstoreRoute, SameFold
  <2> QED
    BY <1>4, <2>2, RefuseOK
<1> QED
  BY <1>5, <1>6, <1>3

LEMMA DebuginfodOK ==
  ASSUME IInv, NEW p \in Client, Debuginfod(p)
  PROVE  IInv'
<1> DEFINE req(m, caps, type) ==
      ELFRequest([Hex(m.head, m.tail) EXCEPT !.caps = caps], Placeholder(type), type)
<1>1. PICK m \in world.modules, caps \in BOOLEAN : \E type \in TypesOf(m) :
        \E path \in IF type = FileSourceBundle THEN SourcePath ELSE {None} :
          /\ m.kind = "elf"
          /\ IF path # None /\ Blank(path) THEN Refuse(p, None, 404)
             ELSE IF req(m, caps, type) = None THEN
                    Refuse(p, Ask(m, type, Placeholder(type)), 404)
             ELSE Start(p, Ask(m, type, Placeholder(type)), req(m, caps, type), "object", path)
  BY DEF Debuginfod, Loaded
<1>2. PICK type \in TypesOf(m),
           path \in {None} \cup SourcePath :
          /\ m.kind = "elf"
          /\ IF path # None /\ Blank(path) THEN Refuse(p, None, 404)
             ELSE IF req(m, caps, type) = None THEN
                    Refuse(p, Ask(m, type, Placeholder(type)), 404)
             ELSE Start(p, Ask(m, type, Placeholder(type)), req(m, caps, type), "object", path)
  BY <1>1
<1>3. world \in Worlds /\ UNCHANGED <<world, cache>>
  BY DEF IInv, Debuginfod
<1>4. /\ req(m, caps, type) # None /\ req(m, caps, type) \in Requests
      /\ Means(world, req(m, caps, type), Ask(m, type, Placeholder(type)))
  BY <1>2, <1>3, BuildIds
<1> HIDE DEF req
<1>5. \/ Refuse(p, None, 404)
      \/ Start(p, Ask(m, type, Placeholder(type)), req(m, caps, type), "object", path)
  BY <1>2, <1>4
<1> QED
  BY <1>3, <1>4, <1>5, StartOK, RefuseOK

LEMMA RevalidateOK ==
  ASSUME IInv, NEW p \in Client, Revalidate(p)
  PROVE  IInv'
<1> DEFINE old == client[p]
           c == [old EXCEPT !.pc = IF old.form = "cab" THEN "cab_lookup" ELSE "lookup", !.got = None,
                            !.since = [modified |-> old.got.modified, born |-> old.got.born]]
<1>1. client' = [client EXCEPT ![p] = c] /\ UNCHANGED <<world, cache, witness>>
  BY DEF Revalidate
<1>2. Shape(old) /\ Meant(world, old)
  BY DEF Revalidate, At, IInv, GoodClient
<1>3. Shape(c) /\ c.pc \in {"cab_lookup", "lookup"} /\ c.ask = old.ask /\ c.req = old.req
  BY <1>2 DEF Shape, Fields
<1> HIDE DEF c
<1>4. GoodClient(world, c)
  BY <1>2, <1>3 DEF GoodClient, Meant
<1>5. GoodWitness(world, witness')
  BY <1>1 DEF IInv
<1> QED
  BY <1>1, <1>4, <1>5, ClientStep

LEMMA LeaveOK ==
  ASSUME IInv, NEW p \in Client, Leave(p)
  PROVE  IInv'
<1>1. client' = [client EXCEPT ![p] = Idle] /\ UNCHANGED <<world, cache, witness>>
  BY DEF Leave
<1>2. GoodClient(world, Idle)
  BY IdleParts DEF GoodClient
<1>3. GoodWitness(world, witness')
  BY <1>1 DEF IInv
<1> QED
  BY <1>1, <1>2, <1>3, ClientStep

LEMMA MissOK ==
  ASSUME IInv, NEW p \in Client, Meant(world, client[p]),
         NEW pc \in {"lookup", "resolve"}, client' = [client EXCEPT ![p].pc = pc],
         UNCHANGED <<world, cache, witness>>
  PROVE  IInv'
<1> DEFINE old == client[p]
           c == [old EXCEPT !.pc = pc]
<1>1. client' = [client EXCEPT ![p] = c]
  OBVIOUS
<1>2. Shape(old)
  BY DEF IInv, GoodClient
<1>3. Shape(c) /\ c.pc = pc /\ c.ask = old.ask /\ c.req = old.req
  BY <1>2 DEF Shape, Fields
<1> HIDE DEF c
<1>4. GoodClient(world, c)
  BY <1>3 DEF GoodClient, Meant
<1>5. GoodWitness(world, witness')
  BY DEF IInv
<1> QED
  BY <1>1, <1>4, <1>5, ClientStep

LEMMA CabLookupOK ==
  ASSUME IInv, NEW p \in Client, CabLookup(p)
  PROVE  IInv'
<1>1. Meant(world, client[p]) /\ world' = world
  BY DEF CabLookup, At, IInv, GoodClient
<1>2. ASSUME NEW e \in EntriesAt(KeyOf(p, "cab")), Finish(p, ServeContent(p, e)), Put({Touch(e)})
      PROVE  IInv'
  <2>1. e \in cache /\ e.at.key = cacheKey(client[p].req)
    BY DEF EntriesAt, KeyOf
  <2>2. e.file # None /\ Fits(world, client[p].req, e.file)
    BY <1>1, <2>1, HitFits
  <2>3. GoodEntry(world, Touch(e))
    BY <1>1, <2>1, <2>2, TouchParts, FitsEntry
  <2>4. GoodAnswer(world, client[p], ServeContent(p, e))
    BY <1>1, <2>2, ServeParts, FitsAnswer
  <2> QED
    BY <1>1, <1>2, <2>3, <2>4, PutOK, FinishOK
<1>3. ASSUME client' = [client EXCEPT ![p].pc = "lookup"], UNCHANGED <<cache, witness>>
      PROVE  IInv'
  BY <1>1, <1>3, MissOK
<1> QED
  BY <1>2, <1>3 DEF CabLookup

LEMMA LookupOK ==
  ASSUME IInv, NEW p \in Client, Lookup(p)
  PROVE  IInv'
<1>1. Meant(world, client[p]) /\ world' = world
  BY DEF Lookup, At, IInv, GoodClient
<1>2. ASSUME NEW e \in EntriesAt(KeyOf(p, "object")), Deliver(p, e)
      PROVE  IInv'
  <2>1. e \in cache /\ e.at.key = cacheKey(client[p].req)
    BY DEF EntriesAt, KeyOf
  <2>2. e.file # None /\ Fits(world, client[p].req, e.file)
    BY <1>1, <2>1, HitFits
  <2> QED
    BY <1>1, <1>2, <2>1, <2>2, DeliverOK
<1>3. ASSUME client' = [client EXCEPT ![p].pc = "resolve"], UNCHANGED <<cache, witness>>
      PROVE  IInv'
  BY <1>1, <1>3, MissOK
<1> QED
  BY <1>2, <1>3 DEF Lookup

LEMMA ResolveOK ==
  ASSUME IInv, NEW p \in Client, Resolve(p)
  PROVE  IInv'
<1> DEFINE req == client[p].req
<1>1. Meant(world, client[p]) /\ world' = world
  BY DEF Resolve, At, IInv, GoodClient
<1>2. PICK found \in Downloaded(world, req) :
        IF found = None THEN Finish(p, Refusal(404)) /\ UNCHANGED cache
        ELSE Deliver(p, Entry(KeyOf(p, "object"), found))
  BY DEF Resolve
<1>3. Fits(world, req, found)
  BY <1>2, MeantRight DEF Fits
<1>4. CASE found = None
  <2>1. GoodAnswer(world, client[p], Refusal(404))
    BY <1>1, <1>3, <1>4, AnswerParts, FitsAnswer DEF Refusal
  <2>2. \A e \in cache' : GoodEntry(world, e)
    BY <1>2, <1>4 DEF IInv
  <2> QED
    BY <1>1, <1>2, <1>4, <2>1, <2>2, FinishOK
<1>5. CASE found # None
  <2> DEFINE e == Entry(KeyOf(p, "object"), found)
  <2>1. e.file = found /\ e.at.key = cacheKey(req)
    BY DEF Entry, KeyOf
  <2>2. Deliver(p, e)
    BY <1>2, <1>5
  <2> HIDE DEF e
  <2> QED
    BY <1>1, <1>3, <1>5, <2>1, <2>2, DeliverOK
<1> QED
  BY <1>4, <1>5

LEMMA FailsOK ==
  ASSUME IInv, NEW p \in Client, Fails(p)
  PROVE  IInv'
<1>1. Meant(world, client[p]) /\ world' = world
  BY DEF Fails, At, IInv, GoodClient
<1>2. GoodAnswer(world, client[p], Refusal(503))
  BY AnswerParts DEF Refusal, GoodAnswer
<1>3. Finish(p, Refusal(503)) /\ \A e \in cache' : GoodEntry(world, e)
  BY DEF Fails, IInv
<1> QED
  BY <1>1, <1>2, <1>3, FinishOK

LEMMA NextIInv == IInv /\ [Next]_vars => IInv'
<1> SUFFICES ASSUME IInv, [Next]_vars PROVE IInv'
  OBVIOUS
<1>1. ASSUME NEW p \in Client,
             \/ Symstore(p) \/ Malformed(p) \/ Debuginfod(p) \/ Revalidate(p) \/ Leave(p)
             \/ CabLookup(p) \/ Lookup(p) \/ Resolve(p) \/ Fails(p)
      PROVE  IInv'
  BY <1>1, SymstoreOK, MalformedOK, DebuginfodOK, RevalidateOK, LeaveOK,
     CabLookupOK, LookupOK, ResolveOK, FailsOK
<1>2. ASSUME NEW e \in cache, Evict(e)
      PROVE  IInv'
  BY <1>2 DEF Evict, IInv
<1>3. CASE Tick \/ UNCHANGED vars
  BY <1>3 DEF Tick, vars, IInv
<1> QED
  BY <1>1, <1>2, <1>3 DEF Next

LEMMA Invariance == Spec => []IInv
BY InitIInv, NextIInv, PTL DEF Spec

-----------------------------------------------------------------------------
(* Types.                                                                   *)

Pcs == {"idle", "cab_lookup", "lookup", "resolve", "done"}
Codes == {200, 304, 400, 404, 503}

TypedClient(c) == c.pc \in Pcs /\ (c.pc = "done" => c.got.status \in Codes)

TypedEntry(e, t) == /\ DOMAIN e = {"at", "file", "mtime", "born"}
                    /\ e.mtime \in 0 .. t /\ e.born \in 0 .. e.mtime

OneEach(es) == \A d, e \in es : d.at = e.at => d = e

TInv == /\ now \in 0 .. MaxTime
        /\ \A p \in Client : TypedClient(client[p])
        /\ \A e \in cache : TypedEntry(e, now)
        /\ OneEach(cache)

LEMMA TypedStep ==
  ASSUME IInv, TInv, NEW p \in Client, NEW c, client' = [client EXCEPT ![p] = c], TypedClient(c)
  PROVE  \A q \in Client : TypedClient(client'[q])
<1>1. \A q \in Client : client'[q] = IF q = p THEN c ELSE client[q]
  BY DEF IInv
<1> QED
  BY <1>1 DEF TInv

LEMMA TypedFinish ==
  ASSUME IInv, TInv, NEW p \in Client, NEW got, got.status \in Codes, Finish(p, got)
  PROVE  \A q \in Client : TypedClient(client'[q])
<1> DEFINE old == client[p]
           c == [old EXCEPT !.pc = "done", !.got = got]
<1>1. client' = [client EXCEPT ![p] = c]
  BY DEF Finish, IInv
<1>2. c.pc = "done" /\ c.got = got
  BY DEF IInv, GoodClient, Shape, Fields
<1> HIDE DEF c
<1>3. TypedClient(c)
  BY <1>2 DEF TypedClient, Pcs
<1> QED
  BY <1>1, <1>3, TypedStep

LEMMA TypedTouch ==
  ASSUME TInv, NEW e, TypedEntry(e, now)
  PROVE  TypedEntry(Touch(e), now)
<1>1. now \in Nat /\ e.mtime \in 0 .. now /\ e.born \in 0 .. e.mtime
  BY BoundAssumption DEF TInv, TypedEntry
<1>2. /\ DOMAIN Touch(e) = {"at", "file", "mtime", "born"}
      /\ Touch(e).mtime = now /\ Touch(e).born = e.born
  BY DEF Touch, TypedEntry
<1> QED
  BY <1>1, <1>2 DEF TypedEntry

LEMMA TypedNew ==
  ASSUME TInv, NEW k, NEW f
  PROVE  TypedEntry(Entry(k, f), now) /\ Entry(k, f).at = k
<1>1. now \in Nat
  BY BoundAssumption DEF TInv
<1> QED
  BY <1>1 DEF Entry, TypedEntry

LEMMA TypedPut ==
  ASSUME TInv, NEW es, Put(es), now' = now, OneEach(es), \A e \in es : TypedEntry(e, now)
  PROVE  now' \in 0 .. MaxTime /\ (\A e \in cache' : TypedEntry(e, now')) /\ OneEach(cache')
BY DEF TInv, Put, OneEach

LEMMA TypedDeliver ==
  ASSUME IInv, TInv, NEW p \in Client, NEW e, TypedEntry(e, now),
         e.at = KeyOf(p, "object"), Deliver(p, e), now' = now
  PROVE  TInv'
<1> DEFINE cab == Entry(KeyOf(p, "cab"), e.file)
<1>1. ASSUME NEW got, Finish(p, got), got.status \in Codes,
             \/ Put({Touch(e)})
             \/ Put({Touch(e), cab})
      PROVE  TInv'
  <2>1. TypedEntry(Touch(e), now) /\ TypedEntry(cab, now) /\ cab.at = KeyOf(p, "cab")
    BY TypedTouch, TypedNew
  <2>2. Touch(e).at = e.at
    BY TouchParts
  <2>3. KeyOf(p, "object") # KeyOf(p, "cab")
    <3>1. KeyOf(p, "object").role = "object" /\ KeyOf(p, "cab").role = "cab"
      BY DEF KeyOf
    <3> QED
      BY <3>1
  <2> HIDE DEF cab
  <2>4. OneEach({Touch(e)}) /\ OneEach({Touch(e), cab})
    BY <2>1, <2>2, <2>3 DEF OneEach
  <2>5. now' \in 0 .. MaxTime /\ (\A d \in cache' : TypedEntry(d, now')) /\ OneEach(cache')
    BY <1>1, <2>1, <2>4, TypedPut
  <2> QED
    BY <1>1, <2>5, TypedFinish DEF TInv
<1>2. CASE client[p].path # None
  <2>1. PICK a \in SourceAnswers(p, e.file) : Finish(p, a) /\ Put({Touch(e)})
    BY <1>2 DEF Deliver
  <2>2. a.status \in Codes
    BY <2>1, AnswerParts DEF SourceAnswers, Refusal, Codes
  <2> QED
    BY <1>1, <2>1, <2>2
<1>3. CASE client[p].path = None /\ client[p].form # "cab"
  <2>1. Finish(p, ServeContent(p, e)) /\ Put({Touch(e)})
    BY <1>3 DEF Deliver
  <2> QED
    BY <1>1, <2>1, ServeParts DEF Codes
<1>4. CASE client[p].path = None /\ client[p].form = "cab"
  <2>1. \/ Finish(p, ServeContent(p, cab)) /\ Put({Touch(e), cab})
        \/ Finish(p, Refusal(503)) /\ Put({Touch(e)})
    BY <1>4 DEF Deliver
  <2>2. Refusal(503).status \in Codes
    BY AnswerParts DEF Refusal, Codes
  <2> HIDE DEF cab
  <2> QED
    BY <1>1, <2>1, <2>2, ServeParts DEF Codes
<1> QED
  BY <1>2, <1>3, <1>4

\* A route starts a request or refuses it.
LEMMA TypedAsking ==
  ASSUME IInv, TInv, NEW p \in Client, Symstore(p) \/ Malformed(p) \/ Debuginfod(p)
  PROVE  TInv'
<1>1. UNCHANGED <<cache, now>>
  BY DEF Symstore, Malformed, Debuginfod
<1>2. \/ \E ask, req, form, path : Start(p, ask, req, form, path)
      \/ \E ask : \E status \in {400, 404} : Refuse(p, ask, status)
  <2>1. ASSUME NEW ask, NEW l, NEW sig, NEW t, symstoreRoute(p, ask, l, sig, t)
        PROVE  \/ \E req, form, path : Start(p, ask, req, form, path)
               \/ \E status \in {400, 404} : Refuse(p, ask, status)
    BY <2>1 DEF symstoreRoute
  <2>2. CASE Symstore(p)
    BY <2>1, <2>2 DEF Symstore
  <2>3. CASE Malformed(p)
    BY <2>1, <2>3 DEF Malformed
  <2>4. CASE Debuginfod(p)
    BY <2>4 DEF Debuginfod
  <2> QED
    BY <2>2, <2>3, <2>4
<1>3. CASE \E ask, req, form, path : Start(p, ask, req, form, path)
  <2>0. PICK ask, req, form, path : Start(p, ask, req, form, path)
    BY <1>3
  <2> DEFINE c == [Idle EXCEPT !.pc = IF form = "cab" THEN "cab_lookup" ELSE "lookup",
                               !.ask = ask, !.req = req, !.form = form, !.path = path]
  <2>1. client' = [client EXCEPT ![p] = c]
    BY <2>0 DEF Start
  <2>2. c.pc \in {"cab_lookup", "lookup"}
    BY DEF Idle
  <2> HIDE DEF c
  <2>3. \A q \in Client : TypedClient(client'[q])
    BY <2>1, <2>2, TypedStep DEF TypedClient, Pcs
  <2> QED
    BY <1>1, <2>3 DEF TInv
<1>4. CASE \E ask : \E status \in {400, 404} : Refuse(p, ask, status)
  <2>0. PICK ask, status : status \in {400, 404} /\ Refuse(p, ask, status)
    BY <1>4
  <2> DEFINE c == [Idle EXCEPT !.pc = "done", !.ask = ask, !.got = Refusal(status)]
  <2>1. client' = [client EXCEPT ![p] = c]
    BY <2>0 DEF Refuse
  <2>2. c.pc = "done" /\ c.got.status \in Codes
    BY <2>0, AnswerParts DEF Idle, Refusal, Codes
  <2> HIDE DEF c
  <2>3. \A q \in Client : TypedClient(client'[q])
    BY <2>1, <2>2, TypedStep DEF TypedClient, Pcs
  <2> QED
    BY <1>1, <2>3 DEF TInv
<1> QED
  BY <1>2, <1>3, <1>4

LEMMA TypedWaiting ==
  ASSUME IInv, TInv, NEW p \in Client, Revalidate(p) \/ Leave(p)
  PROVE  TInv'
<1>1. UNCHANGED <<cache, now>>
  BY DEF Revalidate, Leave
<1>2. CASE Revalidate(p)
  <2> DEFINE old == client[p]
             c == [old EXCEPT !.pc = IF old.form = "cab" THEN "cab_lookup" ELSE "lookup", !.got = None,
                              !.since = [modified |-> old.got.modified, born |-> old.got.born]]
  <2>1. client' = [client EXCEPT ![p] = c]
    BY <1>2 DEF Revalidate
  <2>2. c.pc \in {"cab_lookup", "lookup"}
    BY DEF IInv, GoodClient, Shape, Fields
  <2> HIDE DEF c
  <2> QED
    BY <1>1, <2>1, <2>2, TypedStep DEF TypedClient, Pcs, TInv
<1>3. CASE Leave(p)
  BY <1>1, <1>3, TypedStep, IdleParts DEF Leave, TypedClient, Pcs, TInv
<1> QED
  BY <1>2, <1>3

LEMMA TypedMiss ==
  ASSUME IInv, TInv, NEW p \in Client, NEW pc \in {"lookup", "resolve"},
         client' = [client EXCEPT ![p].pc = pc], UNCHANGED <<cache, now>>
  PROVE  TInv'
<1> DEFINE c == [client[p] EXCEPT !.pc = pc]
<1>1. c.pc = pc
  BY DEF IInv, GoodClient, Shape, Fields
<1>2. client' = [client EXCEPT ![p] = c]
  OBVIOUS
<1> HIDE DEF c
<1> QED
  BY <1>1, <1>2, TypedStep DEF TypedClient, Pcs, TInv

LEMMA TypedService ==
  ASSUME IInv, TInv, NEW p \in Client,
         CabLookup(p) \/ Lookup(p) \/ Resolve(p) \/ Fails(p)
  PROVE  TInv'
<1>1. now' = now
  BY DEF CabLookup, Lookup, Resolve, Fails
<1>2. CASE CabLookup(p)
  <2>1. ASSUME NEW e \in EntriesAt(KeyOf(p, "cab")), Finish(p, ServeContent(p, e)), Put({Touch(e)})
        PROVE  TInv'
    <3>1. TypedEntry(Touch(e), now) /\ OneEach({Touch(e)})
      BY TypedTouch DEF EntriesAt, TInv, OneEach
    <3>2. now' \in 0 .. MaxTime /\ (\A d \in cache' : TypedEntry(d, now')) /\ OneEach(cache')
      BY <1>1, <2>1, <3>1, TypedPut
    <3>3. ServeContent(p, e).status \in Codes
      BY ServeParts DEF Codes
    <3> QED
      BY <2>1, <3>2, <3>3, TypedFinish DEF TInv
  <2> QED
    BY <1>1, <1>2, <2>1, TypedMiss DEF CabLookup
<1>3. CASE Lookup(p)
  <2>1. ASSUME NEW e \in EntriesAt(KeyOf(p, "object")), Deliver(p, e)
        PROVE  TInv'
    BY <1>1, <2>1, TypedDeliver DEF EntriesAt, TInv
  <2> QED
    BY <1>1, <1>3, <2>1, TypedMiss DEF Lookup
<1>4. ASSUME NEW status \in {404, 503}, Finish(p, Refusal(status)), UNCHANGED cache
      PROVE  TInv'
  <2>1. Refusal(status).status \in Codes
    BY AnswerParts DEF Refusal, Codes
  <2> QED
    BY <1>1, <1>4, <2>1, TypedFinish DEF TInv
<1>5. CASE Resolve(p)
  <2>1. ASSUME NEW found, Deliver(p, Entry(KeyOf(p, "object"), found))
        PROVE  TInv'
    BY <1>1, <2>1, TypedNew, TypedDeliver
  <2> QED
    BY <1>4, <1>5, <2>1 DEF Resolve
<1>6. CASE Fails(p)
  BY <1>4, <1>6 DEF Fails
<1> QED
  BY <1>2, <1>3, <1>5, <1>6

LEMMA InitTInv == Init => TInv
<1> SUFFICES ASSUME Init PROVE TInv
  OBVIOUS
<1>1. TypedClient(Idle)
  BY IdleParts DEF TypedClient, Pcs
<1> QED
  BY <1>1, BoundAssumption DEF Init, TInv, OneEach

LEMMA NextTInv == IInv /\ TInv /\ [Next]_vars => TInv'
<1> SUFFICES ASSUME IInv, TInv, [Next]_vars PROVE TInv'
  OBVIOUS
<1>1. ASSUME NEW p \in Client,
             \/ Symstore(p) \/ Malformed(p) \/ Debuginfod(p) \/ Revalidate(p) \/ Leave(p)
             \/ CabLookup(p) \/ Lookup(p) \/ Resolve(p) \/ Fails(p)
      PROVE  TInv'
  BY <1>1, TypedAsking, TypedWaiting, TypedService
<1>2. ASSUME NEW e \in cache, Evict(e)
      PROVE  TInv'
  BY <1>2 DEF Evict, TInv, OneEach
<1>3. CASE Tick
  <2>1. now' \in 0 .. MaxTime /\ now \in Nat /\ now' = now + 1
    BY <1>3, BoundAssumption DEF Tick, TInv
  <2>2. \A e \in cache : TypedEntry(e, now')
    BY <2>1 DEF TInv, TypedEntry
  <2> QED
    BY <1>3, <2>1, <2>2 DEF Tick, TInv
<1>4. CASE UNCHANGED vars
  BY <1>4 DEF vars, TInv
<1> QED
  BY <1>1, <1>2, <1>3, <1>4 DEF Next

-----------------------------------------------------------------------------
(* The files of source bundles.                                             *)

\* What the search finds is what the manifest has at the place asked for.
LEMMA FoundIsThere ==
  ASSUME NEW path, path.segs \in Seq(STRING),
         NEW manifest, \A e \in manifest : e.path.segs \in Seq(STRING)
  PROVE  bundleEntry(manifest, path) =
           {e \in manifest : e.zipped /\ Leads(e.path) = Leads(path)}
<1> DEFINE norm(segs) == [rooted |-> TRUE, sep |-> "/", segs |-> segs]
<1>1. \A x, y : norm(x) = norm(y) <=> x = y
  <2> SUFFICES ASSUME NEW x, NEW y, norm(x) = norm(y) PROVE x = y
    OBVIOUS
  <2>1. norm(x).segs = x /\ norm(y).segs = y
    OBVIOUS
  <2> HIDE DEF norm
  <2> QED
    BY <2>1
<1>2. normalizeSourcePath(path) = norm(Leads(path))
  BY CleanLeads DEF normalizeSourcePath, Leads
<1>3. \A e \in manifest : normalizeSourcePath(e.path) = norm(Leads(e.path))
  BY CleanLeads DEF normalizeSourcePath, Leads
<1> HIDE DEF norm
<1>4. \A e \in manifest : normalizeSourcePath(e.path) = normalizeSourcePath(path)
                            <=> Leads(e.path) = Leads(path)
  BY <1>1, <1>2, <1>3
<1> QED
  BY <1>4 DEF bundleEntry

\* A file of the bundle that is right, or the reason there is none.
SourceAnswer(w, c, got) ==
  c.ask # None =>
    /\ got.status = 200 =>
         /\ got.file # None /\ got.file \in Right(w, c.ask) /\ got.file.manifest # None
         /\ got.entry \in bundleEntry(got.file.manifest, c.path)
    /\ got.status \notin {200, 503} =>
         \/ None \in Right(w, c.ask)
         \/ \E f \in Right(w, c.ask) : /\ f # None /\ f.manifest # None
                                       /\ bundleEntry(f.manifest, c.path) = {}

SourceClient(w, c) ==
  c.path # None =>
    /\ c.path \in SourcePath /\ c.form # "cab" /\ c.pc # "cab_lookup"
    /\ c.pc = "done" => SourceAnswer(w, c, c.got)

SInv == \A p \in Client : SourceClient(world, client[p])

LEMMA SourceStep ==
  ASSUME IInv, SInv, NEW p \in Client, NEW c, client' = [client EXCEPT ![p] = c],
         SourceClient(world, c), world' = world
  PROVE  SInv'
<1>1. \A q \in Client : client'[q] = IF q = p THEN c ELSE client[q]
  BY DEF IInv
<1> QED
  BY <1>1 DEF SInv

LEMMA SourceFinish ==
  ASSUME IInv, SInv, NEW p \in Client, NEW got, Finish(p, got), world' = world,
         client[p].path # None => SourceAnswer(world, client[p], got)
  PROVE  SInv'
<1> DEFINE old == client[p]
           c == [old EXCEPT !.pc = "done", !.got = got]
<1>1. client' = [client EXCEPT ![p] = c]
  BY DEF Finish, IInv
<1>2. /\ c.pc = "done" /\ c.got = got /\ c.path = old.path
      /\ c.form = old.form /\ c.ask = old.ask
  BY DEF IInv, GoodClient, Shape, Fields
<1> HIDE DEF c
<1>3. SourceClient(world, c)
  BY <1>2 DEF SourceClient, SourceAnswer, SInv
<1> QED
  BY <1>1, <1>3, SourceStep

\* A bundle is searched for what was asked, and is the one that is right.
LEMMA SourceDeliver ==
  ASSUME IInv, SInv, NEW p \in Client, Meant(world, client[p]), NEW e, e.file # None,
         Fits(world, client[p].req, e.file), Deliver(p, e), world' = world
  PROVE  SInv'
<1> DEFINE c == client[p]
<1>1. CASE c.path # None
  <2>1. PICK a \in SourceAnswers(p, e.file) : Finish(p, a)
    BY <1>1 DEF Deliver
  <2>2. c.ask # None => e.file \in Right(world, c.ask)
    BY DEF Meant, Fits
  <2>3. \/ a.status = 503
        \/ /\ e.file.manifest # None
           /\ \/ a.status = 404 /\ bundleEntry(e.file.manifest, c.path) = {}
              \/ /\ a.status = 200 /\ a.file = e.file
                 /\ a.entry \in bundleEntry(e.file.manifest, c.path)
    BY <2>1, AnswerParts DEF SourceAnswers, Refusal
  <2>4. SourceAnswer(world, c, a)
    BY <2>2, <2>3 DEF SourceAnswer
  <2> QED
    BY <2>1, <2>4, SourceFinish
<1>2. CASE c.path = None
  <2>1. \E got : Finish(p, got)
    BY <1>2 DEF Deliver
  <2> QED
    BY <1>2, <2>1, SourceFinish
<1> QED
  BY <1>1, <1>2

LEMMA SourceAsking ==
  ASSUME IInv, SInv, NEW p \in Client, Symstore(p) \/ Malformed(p) \/ Debuginfod(p)
  PROVE  SInv'
<1>1. world' = world
  BY DEF Symstore, Malformed, Debuginfod
<1> DEFINE starts == \E ask, req, form, path :
               /\ Start(p, ask, req, form, path)
               /\ path # None => path \in SourcePath /\ form = "object"
<1>2. starts \/ \E ask, status : Refuse(p, ask, status)
  <2>1. ASSUME NEW ask, NEW l, NEW sig, NEW t, symstoreRoute(p, ask, l, sig, t)
        PROVE  starts \/ \E a, status : Refuse(p, a, status)
    <3>1. \/ \E req, form : Start(p, ask, req, form, None)
          \/ \E status : Refuse(p, ask, status)
      BY <2>1 DEF symstoreRoute
    <3> QED
      BY <3>1
  <2>2. CASE Symstore(p)
    <3> HIDE DEF starts
    <3> QED
      BY <2>1, <2>2 DEF Symstore
  <2>3. CASE Malformed(p)
    <3> HIDE DEF starts
    <3> QED
      BY <2>1, <2>3 DEF Malformed
  <2>4. CASE Debuginfod(p)
    BY <2>4 DEF Debuginfod
  <2> QED
    BY <2>2, <2>3, <2>4
<1>3. CASE starts
  <2>0. PICK ask, req, form, path :
          /\ Start(p, ask, req, form, path)
          /\ path # None => path \in SourcePath /\ form = "object"
    BY <1>3
  <2> DEFINE c == [Idle EXCEPT !.pc = IF form = "cab" THEN "cab_lookup" ELSE "lookup",
                               !.ask = ask, !.req = req, !.form = form, !.path = path]
  <2>1. client' = [client EXCEPT ![p] = c]
    BY <2>0 DEF Start
  <2>2. c.path = path /\ c.form = form /\ c.pc = IF form = "cab" THEN "cab_lookup" ELSE "lookup"
    BY DEF Idle
  <2> HIDE DEF c
  <2>3. SourceClient(world, c)
    BY <2>0, <2>2 DEF SourceClient
  <2> QED
    BY <1>1, <2>1, <2>3, SourceStep
<1>4. CASE \E ask, status : Refuse(p, ask, status)
  <2>0. PICK ask, status : Refuse(p, ask, status)
    BY <1>4
  <2> DEFINE c == [Idle EXCEPT !.pc = "done", !.ask = ask, !.got = Refusal(status)]
  <2>1. client' = [client EXCEPT ![p] = c]
    BY <2>0 DEF Refuse
  <2>2. c.path = None
    BY DEF Idle
  <2> HIDE DEF c
  <2> QED
    BY <1>1, <2>1, <2>2, SourceStep DEF SourceClient
<1> QED
  BY <1>2, <1>3, <1>4

LEMMA SourceWaiting ==
  ASSUME IInv, SInv, NEW p \in Client, Revalidate(p) \/ Leave(p)
  PROVE  SInv'
<1>1. CASE Revalidate(p)
  <2> DEFINE old == client[p]
             c == [old EXCEPT !.pc = IF old.form = "cab" THEN "cab_lookup" ELSE "lookup", !.got = None,
                              !.since = [modified |-> old.got.modified, born |-> old.got.born]]
  <2>1. client' = [client EXCEPT ![p] = c] /\ world' = world
    BY <1>1 DEF Revalidate
  <2>2. /\ c.path = old.path /\ c.form = old.form
        /\ c.pc = IF old.form = "cab" THEN "cab_lookup" ELSE "lookup"
    BY DEF IInv, GoodClient, Shape, Fields
  <2> HIDE DEF c
  <2>3. SourceClient(world, c)
    BY <2>2 DEF SourceClient, SInv
  <2> QED
    BY <2>1, <2>3, SourceStep
<1>2. CASE Leave(p)
  <2>1. client' = [client EXCEPT ![p] = Idle] /\ world' = world
    BY <1>2 DEF Leave
  <2>2. SourceClient(world, Idle)
    BY IdleParts DEF SourceClient
  <2> QED
    BY <2>1, <2>2, SourceStep
<1> QED
  BY <1>1, <1>2

LEMMA SourceMiss ==
  ASSUME IInv, SInv, NEW p \in Client, NEW pc \in {"lookup", "resolve"},
         client' = [client EXCEPT ![p].pc = pc], world' = world
  PROVE  SInv'
<1> DEFINE old == client[p]
           c == [old EXCEPT !.pc = pc]
<1>1. c.pc = pc /\ c.path = old.path /\ c.form = old.form
  BY DEF IInv, GoodClient, Shape, Fields
<1>2. client' = [client EXCEPT ![p] = c]
  OBVIOUS
<1> HIDE DEF c
<1>3. SourceClient(world, c)
  BY <1>1 DEF SourceClient, SInv
<1> QED
  BY <1>2, <1>3, SourceStep

LEMMA SourceService ==
  ASSUME IInv, SInv, NEW p \in Client,
         CabLookup(p) \/ Lookup(p) \/ Resolve(p) \/ Fails(p)
  PROVE  SInv'
<1>1. world' = world
  BY DEF CabLookup, Lookup, Resolve, Fails
<1>2. Meant(world, client[p])
  BY DEF CabLookup, Lookup, Resolve, Fails, At, IInv, GoodClient
<1>3. CASE CabLookup(p)
  <2>1. client[p].path = None
    BY <1>3 DEF CabLookup, At, SInv, SourceClient
  <2>2. \/ \E got : Finish(p, got)
        \/ client' = [client EXCEPT ![p].pc = "lookup"]
    BY <1>3 DEF CabLookup
  <2> QED
    BY <1>1, <2>1, <2>2, SourceFinish, SourceMiss
<1>4. CASE Lookup(p)
  <2>1. ASSUME NEW e \in EntriesAt(KeyOf(p, "object")), Deliver(p, e)
        PROVE  SInv'
    <3>1. e \in cache /\ e.at.key = cacheKey(client[p].req)
      BY DEF EntriesAt, KeyOf
    <3>2. e.file # None /\ Fits(world, client[p].req, e.file)
      BY <1>2, <3>1, HitFits
    <3> QED
      BY <1>1, <1>2, <2>1, <3>2, SourceDeliver
  <2> QED
    BY <1>1, <1>4, <2>1, SourceMiss DEF Lookup
<1>5. CASE Resolve(p)
  <2>1. PICK found \in Downloaded(world, client[p].req) :
          IF found = None THEN Finish(p, Refusal(404)) /\ UNCHANGED cache
          ELSE Deliver(p, Entry(KeyOf(p, "object"), found))
    BY <1>5 DEF Resolve
  <2>2. Fits(world, client[p].req, found)
    BY <2>1, MeantRight DEF Fits
  <2>3. CASE found = None
    <3>1. SourceAnswer(world, client[p], Refusal(404))
      BY <1>2, <2>2, <2>3, AnswerParts DEF SourceAnswer, Refusal, Meant, Fits
    <3> QED
      BY <1>1, <2>1, <2>3, <3>1, SourceFinish
  <2>4. CASE found # None
    <3> DEFINE e == Entry(KeyOf(p, "object"), found)
    <3>1. e.file = found
      BY DEF Entry
    <3>2. Deliver(p, e)
      BY <2>1, <2>4
    <3> HIDE DEF e
    <3> QED
      BY <1>1, <1>2, <2>2, <2>4, <3>1, <3>2, SourceDeliver
  <2> QED
    BY <2>3, <2>4
<1>6. CASE Fails(p)
  <2>1. SourceAnswer(world, client[p], Refusal(503))
    BY AnswerParts DEF SourceAnswer, Refusal
  <2> QED
    BY <1>1, <1>6, <2>1, SourceFinish DEF Fails
<1> QED
  BY <1>3, <1>4, <1>5, <1>6

LEMMA InitSInv == Init => SInv
BY IdleParts DEF Init, SInv, SourceClient

LEMMA NextSInv == IInv /\ SInv /\ [Next]_vars => SInv'
<1> SUFFICES ASSUME IInv, SInv, [Next]_vars PROVE SInv'
  OBVIOUS
<1>1. ASSUME NEW p \in Client,
             \/ Symstore(p) \/ Malformed(p) \/ Debuginfod(p) \/ Revalidate(p) \/ Leave(p)
             \/ CabLookup(p) \/ Lookup(p) \/ Resolve(p) \/ Fails(p)
      PROVE  SInv'
  BY <1>1, SourceAsking, SourceWaiting, SourceService
<1>2. ASSUME UNCHANGED <<world, client>>
      PROVE  SInv'
  BY <1>2 DEF SInv
<1> QED
  BY <1>1, <1>2 DEF Next, Evict, Tick, vars

-----------------------------------------------------------------------------
(* The theorems.                                                            *)

\* resolver/sentry.go:168-169: all requests for one file of one module have one
\* answer, however they spell it, whatever Sentry holds, in whichever order it
\* lists the candidates, and whatever was cached, shared or evicted in between.
THEOREM AlikeServedAlike == Spec => []SpelledAlike
<1>1. IInv => SpelledAlike
  <2> SUFFICES ASSUME IInv, NEW p \in Client, Answered(p), client[p].path = None,
                      witness # None, witness.ask = client[p].ask
               PROVE  witness.file = Sent(p)
    BY DEF SpelledAlike
  <2>1. Sent(p) \in Right(world, client[p].ask)
    BY DEF IInv, GoodClient, GoodAnswer, Answered, At, Sent
  <2>2. witness.file \in Right(world, client[p].ask)
    BY DEF IInv, GoodWitness
  <2> QED
    BY <2>1, <2>2, OneRight DEF IInv
<1> QED
  BY <1>1, Invariance, PTL

\* resolver/sentry.go:154: what is served, from whichever entry, is a file of the
\* module asked for and of the right side of the divide.
THEOREM RightFileServed == Spec => []ServedMatches
<1>1. IInv => ServedMatches
  <2> SUFFICES ASSUME IInv, NEW p \in Client, Answered(p), Sent(p) # None
               PROVE  /\ Sent(p) \in catalog
                      /\ Belongs(Sent(p), client[p].ask.module, client[p].ask.type)
    BY DEF ServedMatches
  <2>1. GoodAsk(world, client[p].ask) /\ Sent(p) \in Right(world, client[p].ask)
    BY DEF IInv, GoodClient, GoodAnswer, Answered, At, Sent
  <2> QED
    BY <2>1, RightBelongs DEF IInv, catalog
<1> QED
  BY <1>1, Invariance, PTL

\* objects/service.go:167-168, resolver/sentry.go:115-128: no request for a file
\* Sentry holds is refused, in whichever way it is written, unless Sentry does not
\* know the project or some file of the module cannot be fetched.
THEOREM HeldIsServed == Spec => []NotFoundHasReason
<1>1. IInv => NotFoundHasReason
  <2> SUFFICES ASSUME IInv, NEW p \in Client, Answered(p), client[p].path = None,
                      Status(p) \notin {200, 304}, world.known, Held(p) # {}
               PROVE  \E f \in Held(p) : ~Usable(f)
    BY DEF NotFoundHasReason
  <2>1. /\ GoodAsk(world, client[p].ask) /\ Sent(p) \in Right(world, client[p].ask)
        /\ Sent(p) # None => Status(p) \in {200, 304}
    BY DEF IInv, GoodClient, GoodAnswer, Answered, At, Sent, Status
  <2>2. PICK f \in world.files : Belongs(f, client[p].ask.module, client[p].ask.type)
    BY DEF Held, catalog
  <2>3. None \in Right(world, client[p].ask)
    BY <2>1
  <2> QED
    BY <2>1, <2>2, <2>3, HeldReason DEF IInv, Held, catalog
<1> QED
  BY <1>1, Invariance, PTL

\* objects/sourcebundle.go:28-30: the source file that is served is at the place
\* asked for, however the path and the manifest spell it, and 404 says that Sentry
\* does not know the project, or has a bundle of the module that cannot be fetched
\* or has nothing there, or none.
THEOREM SourceIsRight == Spec => []SourceRight
<1>1. IInv /\ SInv => SourceRight
  <2> DEFINE there(p, f) == {e \in f.manifest : e.zipped /\ Leads(e.path) = Leads(client[p].path)}
  <2> SUFFICES ASSUME IInv, SInv, NEW p \in Client, Answered(p), client[p].path # None
               PROVE  /\ Status(p) = 200 => client[p].got.entry \in there(p, Sent(p))
                      /\ Status(p) # 200 /\ world.known /\ Held(p) # {} =>
                           \E f \in Held(p) : ~Usable(f) \/ there(p, f) = {}
    BY DEF SourceRight
  <2> DEFINE c == client[p]
  <2>1. GoodAsk(world, c.ask) /\ SourceAnswer(world, c, c.got) /\ c.path \in SourcePath
    BY DEF IInv, SInv, GoodClient, GoodAnswer, SourceClient, Answered, At, Status
  <2>2. ASSUME NEW f \in Right(world, c.ask), f # None
        PROVE  /\ f \in Held(p)
               /\ f.manifest # None => bundleEntry(f.manifest, c.path) = there(p, f)
    <3>1. world \in Worlds /\ f \in world.files /\ Belongs(f, c.ask.module, c.ask.type)
      BY <2>1, <2>2, RightBelongs DEF IInv
    <3>2. f.manifest # None => bundleEntry(f.manifest, c.path) = there(p, f)
      BY <2>1, <3>1, FoundIsThere, PathAssumption
    <3> QED
      BY <3>1, <3>2 DEF Held, catalog
  <2>3. Status(p) = 200 => c.got.entry \in there(p, Sent(p))
    <3> HIDE DEF there
    <3> QED
      BY <2>1, <2>2 DEF SourceAnswer, Answered, Status, Sent
  <2>4. ASSUME None \in Right(world, c.ask), world.known, Held(p) # {}
        PROVE  \E f \in Held(p) : ~Usable(f)
    BY <2>1, <2>4, HeldReason DEF IInv, Held, catalog
  <2>5. ASSUME Status(p) # 200, world.known, Held(p) # {}
        PROVE  \E f \in Held(p) : ~Usable(f) \/ there(p, f) = {}
    <3> HIDE DEF there
    <3>1. Status(p) \notin {200, 503} /\ Status(p) = c.got.status
      BY <2>5 DEF Answered, Status
    <3> QED
      BY <2>1, <2>2, <2>4, <2>5, <3>1 DEF SourceAnswer, Answered
  <2> QED
    BY <2>3, <2>5
<1> QED
  BY <1>1, InitSInv, NextSInv, InitIInv, NextIInv, PTL DEF Spec

\* Every variable has its type: what is cached has a hash its storage key was made
\* of (resolver/sentry.go:217-236) and was in the blob store, and a key has one
\* entry.
THEOREM TypeCorrect == Spec => []TypeOK
<1>1. IInv /\ TInv => TypeOK
  <2> SUFFICES ASSUME IInv, TInv PROVE TypeOK
    OBVIOUS
  <2>1. ASSUME NEW e \in cache
        PROVE  e.file \in catalog /\ Hashed(e.file) /\ e.file.stored
    <3>1. PICK a : GoodAsk(world, a) /\ e.file \in Right(world, a) /\ e.file # None
      BY DEF IInv, GoodEntry, Means
    <3>2. e.file \in Picks(world.files, Canon(a)) /\ Usable(e.file)
      BY <3>1, RightPicks DEF IInv
    <3> QED
      BY <3>2 DEF Picks, Matches, catalog, Usable
  <2>2. ASSUME NEW e \in cache
        PROVE  EntriesAt(e.at) = {e}
    BY DEF EntriesAt, TInv, OneEach
  <2> QED
    BY <2>1, <2>2 DEF TypeOK, IInv, TInv, TypedEntry, TypedClient, Pcs, Codes, At, Status
<1> QED
  BY <1>1, InitTInv, NextTInv, InitIInv, NextIInv, PTL DEF Spec
=============================================================================
