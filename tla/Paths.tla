-------------------------------- MODULE Paths --------------------------------
(***************************************************************************)
(* Path arithmetic: src/wcl/filepath.h and make_relative of                *)
(* src/runtime/sources.cpp.                                                *)
(*                                                                         *)
(* A path is [abs, parts]: whether it starts with a slash, and what stands *)
(* between its slashes.  A part is a name, "." , ".." or "" (two slashes   *)
(* in a row, or one at the end).  "." is the relative path without parts   *)
(* once it is canonical, "/" the absolute one.                             *)
(***************************************************************************)
EXTENDS Integers, Sequences, SequencesExt

Abs(parts) == [abs |-> TRUE, parts |-> parts]
Rel(parts) == [abs |-> FALSE, parts |-> parts]

\* make_canonical: ".." takes back a name; with no name left it is kept at
\* the front of a relative path and dropped from an absolute one.
make_canonical(x) ==
  LET step[i \in 0..Len(x.parts)] ==
        IF i = 0 THEN [ups |-> 0, tokens |-> <<>>]
        ELSE LET p == step[i - 1]
                 t == x.parts[i]
             IN  CASE t = ".." /\ p.tokens # <<>> -> [p EXCEPT !.tokens = Front(@)]
                   [] t = ".." /\ p.tokens = <<>> -> [p EXCEPT !.ups = IF x.abs THEN @ ELSE @ + 1]
                   [] t \in {"", "."} -> p
                   [] OTHER -> [p EXCEPT !.tokens = Append(@, t)]
      end == step[Len(x.parts)]
  IN  [abs |-> x.abs, parts |-> [i \in 1..end.ups |-> ".."] \o end.tokens]

\* join_paths: b is taken as relative to a, a leading slash of b included.
join_paths(a, b) == make_canonical([abs |-> a.abs, parts |-> a.parts \o b.parts])

\* How many leading parts two paths share.
Shared(a, b) ==
  LET agree == {n \in 0..Len(a) : n <= Len(b) /\ SubSeq(a, 1, n) = SubSeq(b, 1, n)}
  IN  CHOOSE n \in agree : \A m \in agree : m <= n

\* (mutant of Climb) One ".." too few when dir has left the shared part.
ClimbShort(dir, path) ==
  LET n == Shared(dir, path)
  IN  [i \in 1..(Len(dir) - n - (IF n > 0 THEN 1 ELSE 0)) |-> ".."] \o SubSeq(path, n + 1, Len(path))

\* Up from dir to the shared part, then down to path.
Climb(dir, path) ==
  LET n == Shared(dir, path)
  IN  [i \in 1..(Len(dir) - n) |-> ".."] \o SubSeq(path, n + 1, Len(path))

\* make_relative: both canonical.  A path that is not of the same kind as dir
\* is returned as it is.
make_relative(dir, path) ==
  IF dir.abs # path.abs THEN path ELSE Rel(Climb(dir.parts, path.parts))
=============================================================================
