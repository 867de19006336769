-------------------------------- MODULE Path --------------------------------
(***************************************************************************)
(* The path library, os.js/os/usr/lib/path.ts, without file extensions.    *)
(*                                                                         *)
(* A path is the non-empty sequence of what stands between its slashes:    *)
(* "/a/b/" is <<"", "a", "b", "">>, "" is <<"">> and "/" is <<"", "">>.    *)
(* Appending '/' and then s to a path is concatenation with s.             *)
(***************************************************************************)
EXTENDS Integers, Sequences, SequencesExt, FiniteSetsExt

CONSTANTS
  Names,     \* names of files and directories
  MaxParts   \* bound: parts of a path

ASSUME PathAssumption == Names \cap {"", ".", ".."} = {} /\ MaxParts \in Nat

Parts == Names \cup {"", ".", ".."}
Paths == UNION {[1 .. n -> Parts] : n \in 1 .. MaxParts}

EmptyPath == <<"">>
Root == <<"", "">>
Here == <<".">>

IsAbsolute(path) == Len(path) > 1 /\ path[1] = ""

\* parts.join('/')
Joined(parts) == IF parts = <<>> THEN EmptyPath ELSE parts

\* Mutant: ".." also takes a ".." away.
NormalizeArrayPopsAll(parts, allowAboveRoot) ==
  FoldLeft(LAMBDA res, p :
             IF p \in {"", "."} THEN res
             ELSE IF p # ".." THEN Append(res, p)
             ELSE IF res # <<>> THEN Front(res)
             ELSE IF allowAboveRoot THEN Append(res, p)
             ELSE res,
           <<>>, parts)

NormalizeArray(parts, allowAboveRoot) ==
  FoldLeft(LAMBDA res, p :
             IF p \in {"", "."} THEN res
             ELSE IF p # ".." THEN Append(res, p)
             ELSE IF res # <<>> /\ Last(res) # ".." THEN Front(res)
             ELSE IF allowAboveRoot THEN Append(res, p)
             ELSE res,
           <<>>, parts)

\* From the last segment back, until the path is absolute; the working directory
\* is always '/'.
Resolve(segments) ==
  LET Prepend(segment, acc) ==
        IF acc.absolute \/ segment = EmptyPath THEN acc
        ELSE [path |-> segment \o acc.path, absolute |-> IsAbsolute(segment)]
      all == FoldRight(Prepend, <<Root>> \o segments,
                       [path |-> EmptyPath, absolute |-> FALSE])
  IN  <<"">> \o Joined(NormalizeArray(all.path, FALSE))

Normalize(path) ==
  LET absolute == IsAbsolute(path)
      parts == NormalizeArray(path, ~absolute)
      relative == IF parts = <<>> THEN (IF absolute THEN EmptyPath ELSE Here)
                  ELSE parts
      trailing == IF path # EmptyPath /\ Last(path) = "" /\ relative # EmptyPath
                    THEN relative \o <<"">> ELSE relative
  IN  IF absolute THEN <<"">> \o trailing ELSE trailing

Join(segments) ==
  Normalize(Joined(FoldLeft(LAMBDA path, segment :
                              IF segment = EmptyPath THEN path ELSE path \o segment,
                            <<>>, segments)))

\* Mutant: the loop goes on behind the first difference.
SharedNoBreak(from, to) ==
  LET length == Min({Len(from), Len(to)})
      apart == {i \in 1 .. length : from[i] # to[i]}
  IN  IF apart = {} THEN length ELSE Max(apart) - 1

\* samePartsLength: the common beginning of two lists of parts.
Shared(from, to) == Len(LongestCommonPrefix({from, to}))

Relative(from, to) ==
  LET Trimmed(path) == LET parts == Tail(Resolve(<<path>>))
                       IN  IF parts = EmptyPath THEN <<>> ELSE parts
      f == Trimmed(from)
      t == Trimmed(to)
      same == Shared(f, t)
  IN  Joined([i \in 1 .. Len(f) - same |-> ".."] \o SubSeq(t, same + 1, Len(t)))

\* posixSplitPath without the extension: slashes at the end belong to nothing,
\* dir ends with a slash unless it is empty.
SplitPath(path) ==
  LET rest == IF IsAbsolute(path) THEN Tail(path) ELSE path
      last == Max({0} \cup {i \in DOMAIN rest : rest[i] # ""})
  IN  [root |-> IsAbsolute(path),
       dir  |-> SubSeq(rest, 1, last - 1),
       base |-> IF last = 0 THEN "" ELSE rest[last]]

Dirname(path) ==
  LET split == SplitPath(path)
  IN  IF ~split.root /\ split.dir = <<>> THEN Here
      ELSE IF split.root THEN <<"">> \o Joined(split.dir)
      ELSE split.dir

Basename(path) == <<SplitPath(path).base>>

-----------------------------------------------------------------------------
(* What a path means: where one gets to by it in a tree of directories     *)
(* whose root is its own parent.                                           *)

Walk(place, path) ==
  FoldLeft(LAMBDA at, p : CASE p \in {"", "."} -> at
                            [] p = ".." -> IF at = <<>> THEN at ELSE Front(at)
                            [] OTHER -> Append(at, p),
           IF IsAbsolute(path) THEN <<>> ELSE place, path)

Place(path) == Walk(<<>>, path)

-----------------------------------------------------------------------------
(* The library is a set of functions: the two paths are their inputs.      *)

VARIABLES one, other

pathVars == <<one, other>>

PathInit == one \in Paths /\ other \in Paths

PathNext == UNCHANGED pathVars

PathSpec == PathInit /\ [][PathNext]_pathVars

-----------------------------------------------------------------------------
(* Properties.                                                             *)

\* resolve() names, without '.', '..' or empty parts, the place one gets to by
\* its segments in turn, and relative(from, to) leads from the one to the other,
\* wherever they part.
PathsLead ==
  LET r == Resolve(<<one, other>>)
  IN  /\ Place(r) = Walk(Place(one), other)
      /\ r = <<"">> \o Joined(Place(r))
      /\ Walk(Place(one), Relative(one, other)) = Place(other)

\* normalize(), join() and the split into dirname() and basename() keep what a
\* path means from every place, normalising twice is normalising once, and a
\* path stays absolute or relative.
RewritingKeepsMeaning ==
  \A place \in {[i \in 1 .. n |-> name] : n \in 0 .. MaxParts, name \in Names} :
    /\ Walk(place, Normalize(one)) = Walk(place, one)
    /\ Normalize(Normalize(one)) = Normalize(one)
    /\ IsAbsolute(Normalize(one)) = IsAbsolute(one)
    /\ Walk(place, Join(<<Dirname(one), Basename(one)>>)) = Walk(place, one)
    /\ ~IsAbsolute(other) =>
         Walk(place, Join(<<one, other>>)) = Walk(Walk(place, one), other)
=============================================================================
