------------------------------ MODULE Resolver ------------------------------
(***************************************************************************)
(* Package resolver: which of the debug files Sentry lists answers a         *)
(* request.  The list is a set: its order is Sentry's.                       *)
(*                                                                         *)
(* A project is known to Sentry or not, and has files.  A debug file has     *)
(* identifiers, a name, features, a content hash and, if it is a source      *)
(* bundle, its manifest.  Hashes are numbered in the order strings.Compare   *)
(* has them in, the empty one first.                                        *)
(***************************************************************************)
EXTENDS SymstorePath

CONSTANT ShortHash  \* the hashes shorter than minSHA1Len, wherever they sort

ASSUME HashAssumption == ShortHash \subseteq Nat /\ 0 \in ShortHash

\* A storage key can be made of the file's hash.
Hashed(f) == f.sha \notin ShortHash

\* Sentry's identifiers, read as case-insensitive text.
EqualFold(a, b) == a.head = b.head /\ a.tail = b.tail /\ a.dashed = b.dashed

matchesIdentity(f, req) ==
  \/ req.debug # None /\ f.debug = req.debug
  \/ req.code # None /\ f.code # None /\ EqualFold(f.code, req.code)

\* Mutant: the binaries of an identity are not told from its source bundle.
AnySide(f, req) == TRUE

RightSide(f, req) == (f.manifest # None) = (req.type = FileSourceBundle)

wantedFeature(type) ==
  CASE type \in {FilePDB, FileELFDebug, FileMachDebug} -> "debug"
    [] type \in {FilePE, FileELFCode, FileMachCode}    -> "unwind"
    [] OTHER                                           -> ""

\* Lower is better.
quality(f, req) ==
  LET feat == wantedFeature(req.type)
  IN  (IF feat = "" \/ feat \in f.features THEN 1 ELSE 2)
        - (IF SameFold(f.name, req.name) THEN 1 ELSE 0)

Matches(files, req) == {f \in files : matchesIdentity(f, req) /\ RightSide(f, req)}

\* Mutant: equally ranked files stay in the order Sentry lists them in.
RankOnly(f, g, req) == quality(f, req) <= quality(g, req)

\* The comparison the matches are sorted by.
NotAfter(f, g, req) ==
  \/ quality(f, req) < quality(g, req)
  \/ quality(f, req) = quality(g, req) /\ f.sha <= g.sha

\* The files that can come first once the matches are sorted.
Picks(files, req) ==
  {f \in Matches(files, req) : \A g \in Matches(files, req) : NotAfter(f, g, req)}

\* Mutant: a storage key is made of a hash too short to be taken apart.
HashUnchecked(project, req) ==
  LET picks == Picks(project.files, req)
  IN  IF ~project.known \/ picks = {} THEN {None} ELSE picks

\* Lookup, when Sentry replies: the file to stream, None for ErrNotFound.  Of a
\* project it does not know Sentry says 404 itself.
Located(project, req) ==
  LET picks == Picks(project.files, req)
  IN  IF ~project.known \/ picks = {} THEN {None}
      ELSE {IF Hashed(f) THEN f ELSE None : f \in picks}
=============================================================================
