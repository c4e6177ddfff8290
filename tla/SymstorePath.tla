---------------------------- MODULE SymstorePath ----------------------------
(***************************************************************************)
(* Package symstore: what a symbol-server path asks for.                    *)
(*                                                                         *)
(* A text is abstracted to what the parser tells apart.  A file name is a    *)
(* stem, an extension without its last character, that character, and the    *)
(* case of the rest; a signature is a prefix, the first 32 hex digits (or    *)
(* fewer), what follows them, the case of its letters, and whether it is     *)
(* written with dashes.                                                     *)
(***************************************************************************)
EXTENDS Naturals

CONSTANTS Stem,    \* file names without their extensions
          Uuid,    \* values of 32 hex digits
          Short,   \* values of fewer, of an even number: PE code ids, short build-ids
          None     \* no identifier, no request

NonHex == "sym-"   \* a text that is no hex number
Ending   == {"", "0", "00", "1", "01", "x"}

ASSUME HeadAssumption == Uuid \cap Short = {} /\ (Uuid \cup Short) \cap {"", NonHex} = {}

\* ext: pd, dl, ex, src (for .src.zip) or none of these.
\* "_" and "_.debug" stand for a name that is not known.
\* last: the extension's last character, "_" or a letter of either case.
Name == [stem : Stem \cup {"_", "_.debug"}, ext : {"pd", "dl", "ex", "src", "other"},
         caps : BOOLEAN, last : {"_", "lower", "upper"}]

Body == [head : Uuid \cup Short \cup {"", NonHex}, tail : Ending,
         caps : BOOLEAN, dashed : BOOLEAN]

prefixELFDebug  == "elf-buildid-sym-"
prefixELFCode   == "elf-buildid-"
prefixMachDebug == "mach-uuid-sym-"
prefixMachCode  == "mach-uuid-"

Signature == [prefix : {"", prefixELFDebug, prefixELFCode, prefixMachDebug, prefixMachCode},
              body : Body]

FilePDB          == "pdb"
FilePE           == "pe"
FileELFCode      == "elf_code"
FileELFDebug     == "elf_debug"
FileMachCode     == "mach_code"
FileMachDebug    == "mach_debug"
FileSourceBundle == "sourcebundle"
FileType == {FilePDB, FilePE, FileELFCode, FileELFDebug,
             FileMachCode, FileMachDebug, FileSourceBundle}

\* A debug id in display form; order tells a GUID read as little-endian bytes.
DebugId == [uuid : Uuid, order : {"be", "le"}, age : {"", "1"}]
CodeId  == Body

Requests == [debug : DebugId \cup {None}, code : CodeId \cup {None},
             name : Name, type : FileType]

ASSUME NoneAssumption == None \notin DebugId \cup CodeId \cup Requests
                                      \cup [req : Requests, form : {"cab", "zip", "object"}]

-----------------------------------------------------------------------------
(* debugid.go.                                                              *)

isHex(b) == /\ ~b.dashed
            /\ b.head # NonHex /\ b.tail # "x"
            /\ <<b.head, b.tail>> # <<"", "">>

Lower(b) == [b EXCEPT !.caps = FALSE]

TrimZeros(age) == IF age \in {"1", "01"} THEN "1" ELSE ""

\* The GUID is in display order already; an age of zero is left out.
normalizePDB(b) ==
  IF b.head \in Uuid /\ ~b.dashed /\ b.tail # "x"
  THEN [uuid |-> b.head, order |-> "be", age |-> TrimZeros(b.tail)]
  ELSE None

\* The first 16 bytes of a build-id of a whole number of bytes.
elfDebugID(b) ==
  IF isHex(b) /\ b.head \in Uuid /\ b.tail \in {"", "00", "01"}
  THEN [uuid |-> b.head, order |-> "le", age |-> ""]
  ELSE None

\* normalizeUUID: 32 hex digits once the dashes are gone, in simple form.
simpleUUID(b) ==
  LET simple == [Lower(b) EXCEPT !.dashed = FALSE]
  IN  IF isHex(simple) /\ b.head \in Uuid /\ b.tail = "" THEN simple ELSE None

-----------------------------------------------------------------------------
(* parse.go.                                                                *)

Request(debug, code, name, type) ==
  [debug |-> debug, code |-> code, name |-> name, type |-> type]

elfRequest(b, name, type) ==
  IF isHex(b) THEN Request(elfDebugID(b), Lower(b), name, type) ELSE None

ELFRequest(b, name, type) == elfRequest(b, name, type)

machRequest(b, name, type) ==
  LET simple == simpleUUID(b)
  IN  IF simple = None THEN None
      ELSE Request([uuid |-> b.head, order |-> "be", age |-> ""], simple, name, type)

pdbRequest(b, name) ==
  LET debug == normalizePDB(b)
  IN  IF debug = None THEN None ELSE Request(debug, None, name, FilePDB)

peRequest(b, name) ==
  IF <<b.head, b.tail>> = <<"", "">> THEN None ELSE Request(None, b, name, FilePE)

\* strings.HasPrefix: a debug prefix begins like the code prefix.
HasPrefix(sig, prefix) ==
  \/ sig.prefix = prefix
  \/ sig.prefix = prefixELFDebug /\ prefix = prefixELFCode
  \/ sig.prefix = prefixMachDebug /\ prefix = prefixMachCode

\* What is left of sig without prefix, which may begin with "sym-".
Rest(sig, prefix) ==
  IF sig.prefix = prefix THEN sig.body ELSE [sig.body EXCEPT !.head = NonHex]

\* Mutant: the code prefix is tried before the debug prefix it begins.
CodePrefixFirst == <<prefixELFCode, prefixELFDebug, prefixMachDebug, prefixMachCode>>

\* The order in which the prefixes are tried.
PrefixOrder == <<prefixELFDebug, prefixELFCode, prefixMachDebug, prefixMachCode>>

TypeOfPrefix(prefix) ==
  CASE prefix = prefixELFDebug  -> FileELFDebug
    [] prefix = prefixELFCode   -> FileELFCode
    [] prefix = prefixMachDebug -> FileMachDebug
    [] prefix = prefixMachCode  -> FileMachCode

prefixed(sig, prefix, name) ==
  IF prefix \in {prefixELFDebug, prefixELFCode}
  THEN elfRequest(Rest(sig, prefix), name, TypeOfPrefix(prefix))
  ELSE machRequest(Rest(sig, prefix), name, TypeOfPrefix(prefix))

baseIdentity(sig, name, pdbHint) ==
  LET hits == {i \in DOMAIN PrefixOrder : HasPrefix(sig, PrefixOrder[i])}
  IN  IF hits # {}
      THEN LET first == CHOOSE i \in hits : \A j \in hits : i <= j
           IN  prefixed(sig, PrefixOrder[first], name)
      ELSE IF pdbHint THEN pdbRequest(sig.body, name) ELSE peRequest(sig.body, name)

isPDB(name)          == name.ext = "pd" /\ name.last # "_"
isSourceBundle(name) == name.ext = "src"
isCompressed(name)   == name.ext \in {"pd", "dl", "ex"} /\ name.last = "_"

\* The letter that stands for the underscore is a capital only after capitals.
uncompressLeaf(name) == [name EXCEPT !.last = IF name.caps THEN "upper" ELSE "lower"]

\* What a path asks for, and in which form it is served; None if it is refused.
Parse(leading, sig, trailing) ==
  LET name == IF isCompressed(trailing) THEN uncompressLeaf(trailing) ELSE trailing
      hint == CASE isCompressed(trailing)   -> isPDB(name)
                [] isSourceBundle(trailing) -> TRUE
                [] OTHER                    -> isPDB(leading)
      base == baseIdentity(sig, name, hint)
  IN  IF base = None THEN None
      ELSE [req  |-> IF isSourceBundle(trailing)
                     THEN [base EXCEPT !.type = FileSourceBundle] ELSE base,
            form |-> CASE isCompressed(trailing)   -> "cab"
                       [] isSourceBundle(trailing) -> "zip"
                       [] OTHER                    -> "object"]

\* strings.EqualFold on names.
SameFold(a, b) ==
  a.stem = b.stem /\ a.ext = b.ext /\ (a.last = "_" <=> b.last = "_")
=============================================================================
