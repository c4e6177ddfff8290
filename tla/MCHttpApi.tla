----------------------------- MODULE MCHttpApi -----------------------------
(***************************************************************************)
(* Small instances of HttpApi for TLC: a module of each kind, and the files  *)
(* Sentry may hold of it.                                                   *)
(***************************************************************************)
EXTENDS HttpApi, TLC

CONSTANT Kinds

Perms == Permutations(Client)

Windows == [kind |-> "windows", head |-> "u1", tail |-> "1", stamp |-> "c1", stem |-> "foo"]
Ageless == [Windows EXCEPT !.head = "u2", !.tail = ""]
Elf     == [kind |-> "elf", head |-> "u1", tail |-> "01", stamp |-> "", stem |-> "foo"]
Brief   == [Elf EXCEPT !.head = "c1", !.tail = ""]
Mach    == [kind |-> "mach", head |-> "u1", tail |-> "", stamp |-> "", stem |-> "foo"]

Modules == {m \in {Windows, Ageless, Elf, Brief, Mach} : m.kind \in Kinds}

FileName(stem, ext) == [stem |-> stem, ext |-> ext, caps |-> FALSE, last |-> "lower"]

SrcPath(rooted, sep, segs) == [rooted |-> rooted, sep |-> sep, segs |-> segs]

\* Two files of one directory, the second recorded with a detour and with
\* backslashes, and one that the zip does not have.
Manifest ==
  {[path |-> SrcPath(TRUE, "/", <<"d", "a">>), zipped |-> TRUE],
   [path |-> SrcPath(FALSE, "\\", <<"d", "x", "..", ".", "b">>), zipped |-> TRUE],
   [path |-> SrcPath(TRUE, "/", <<"d">>), zipped |-> FALSE]}

DebugFile(m, stem, features, sha) ==
  [debug |-> DebugOf(m), code |-> IF m.kind = "windows" THEN None ELSE CodeOf(m),
   name |-> FileName(stem, IF m.kind = "windows" THEN "pd" ELSE "other"),
   features |-> features, manifest |-> None, sha |-> sha, stored |-> TRUE]

CodeFile(m, features, sha) ==
  [debug |-> DebugOf(m), code |-> CodeOf(m),
   name |-> FileName(m.stem, IF m.kind = "windows" THEN "ex" ELSE "other"),
   features |-> features, manifest |-> None, sha |-> sha, stored |-> TRUE]

BundleFile(m, sha) ==
  [debug |-> DebugOf(m), code |-> IF m.kind = "windows" THEN None ELSE CodeOf(m),
   name |-> FileName(m.stem, "src"), features |-> {}, manifest |-> Manifest, sha |-> sha,
   stored |-> TRUE]

\* Two debug files of which either may be listed first, one under another name,
\* one without a hash, one with a short hash that sorts last; the code file; a
\* bundle; and a file of another module.  Two of the modules are there for the
\* way their identifiers are written.
Debug2(m) == DebugFile(m, m.stem, {"debug"}, 2)
Debug3(m) == DebugFile(m, m.stem, {"debug"}, 3)
Misnamed(m) == DebugFile(m, "bar", {"debug"}, 1)
Hashless(m) == DebugFile(m, m.stem, {"debug"}, 0)
Stub(m)     == DebugFile(m, m.stem, {"debug"}, 9)
Code(m)   == CodeFile(m, {"unwind"}, 4)
Bundle(m) == BundleFile(m, 5)
Other(m)  == CodeFile([m EXCEPT !.head = "u3", !.stamp = "c3"], {"unwind"}, 6)

Missing(f) == [f EXCEPT !.stored = FALSE]

\* Files of which the blob store misses some.
HolesOf(m) == {{Missing(Debug2(m)), Debug3(m)}, {Code(m), Missing(Bundle(m))}}

CatalogsOf(m) ==
  {{Debug2(m), Debug3(m)} \cup IF m \in {Elf, Mach} THEN {Code(m)} ELSE {}}
  \cup (IF m \in {Windows, Elf}
        THEN {{Hashless(m), Debug2(m)}, {Bundle(m), Other(m)}} ELSE {})
  \cup (IF m = Windows THEN {{Code(m), Debug2(m)}, {Misnamed(m), Debug2(m)}} ELSE {})
  \cup (IF m = Mach THEN {{Code(m), Bundle(m), Other(m)}} ELSE {})
  \cup (IF m = Elf THEN {{Other(m)}, {Stub(m), Debug2(m)}} \cup HolesOf(m) ELSE {})

World(modules, files, known) == [modules |-> modules, files |-> files, known |-> known]

\* Each module by itself, two whose files differ in nothing but the debug id, and
\* a project Sentry does not know.
MCWorlds ==
  UNION {{World({m}, c, TRUE) : c \in CatalogsOf(m)} : m \in Modules}
  \cup {World({m}, {Debug2(m), Bundle(m)}, FALSE) : m \in {Elf} \cap Modules}
  \cup IF {Windows, Ageless} \subseteq Modules
       THEN {World({Windows, Ageless},
                   {Debug2(Windows), DebugFile(Ageless, "foo", {"debug"}, 7)}, TRUE)}
       ELSE {}

\* The places of the manifest and others, each written in some way.
MCSourcePath ==
  {SrcPath(r, s, segs) : r \in {TRUE}, s \in {"/"},
     segs \in {<<"d", "a">>, <<"..", "d", ".", "b">>, <<"d", "a", "..", "..", "d", "b">>,
               <<"d">>, <<"a">>}}
  \cup {SrcPath(FALSE, "\\", <<"d", "b">>), SrcPath(FALSE, "/", <<"d", "", "a">>),
        SrcPath(FALSE, "/", <<>>)}

\* The search agrees with where a path leads, for every path of up to five
\* segments.
ASSUME CleanAssumption ==
  \A segs \in UNION {[1 .. n -> {"a", "b", "..", "."}] : n \in 0 .. 5} :
    Clean(segs) = Leads([segs |-> segs])
=============================================================================
