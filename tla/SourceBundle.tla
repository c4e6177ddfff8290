---------------------------- MODULE SourceBundle ----------------------------
(***************************************************************************)
(* objects/sourcebundle.go: the search of a source bundle for a path.       *)
(*                                                                         *)
(* A path is a sequence of segments with or without a leading slash, its     *)
(* separators slashes or backslashes.  A bundle's manifest maps entry names  *)
(* to paths; it is a Go map, so its order is arbitrary.  A bundle without a  *)
(* manifest.json is one whose manifest is empty: nothing is found in either. *)
(***************************************************************************)
EXTENDS Integers, Sequences, FiniteSets

Up  == ".."
Dot == {".", ""}   \* an empty segment comes from a doubled or final slash

IsName(seg) == seg \notin Dot \cup {Up}

\* path.Clean on a rooted path: one pass with a stack.
Enter(stack, seg) ==
  CASE IsName(seg) -> Append(stack, seg)
    [] seg \in Dot -> stack
    [] seg = Up    -> SubSeq(stack, 1, Len(stack) - 1)

Clean(segs) ==
  LET stack[n \in 0 .. Len(segs)] ==
        IF n = 0 THEN <<>> ELSE Enter(stack[n - 1], segs[n])
  IN  stack[Len(segs)]

\* Mutant: a path without a leading slash is compared as it is.
LeftUnrooted(path) == [path EXCEPT !.segs = Clean(@), !.sep = "/"]

\* A path that is the empty text.
Blank(path) == ~path.rooted /\ path.segs = <<>>

normalizeSourcePath(path) ==
  [rooted |-> TRUE, sep |-> "/", segs |-> Clean(path.segs)]

\* The entries the loop over the manifest can return: at the path asked for,
\* and in the zip.
bundleEntry(manifest, sourcePath) ==
  LET want == normalizeSourcePath(sourcePath)
  IN  {e \in manifest : normalizeSourcePath(e.path) = want /\ e.zipped}

-----------------------------------------------------------------------------
(* Where a path leads, said without a stack: a name counts unless some ".."  *)
(* further on goes back over it.                                            *)

Ups(segs, i, j)   == Cardinality({k \in i + 1 .. j : segs[k] = Up})
Names(segs, i, j) == Cardinality({k \in i + 1 .. j : IsName(segs[k])})

\* The names that count when the path ends after n segments.
Kept(segs, n) ==
  {i \in 1 .. n : /\ IsName(segs[i])
                  /\ \A j \in i + 1 .. n : Ups(segs, i, j) <= Names(segs, i, j)}

\* The n-th number of a set.
Nth(K, n) == CHOOSE i \in K : Cardinality({j \in K : j <= i}) = n

Place(segs, n) ==
  [m \in 1 .. Cardinality(Kept(segs, n)) |-> segs[Nth(Kept(segs, n), m)]]

Leads(path) == Place(path.segs, Len(path.segs))
=============================================================================
