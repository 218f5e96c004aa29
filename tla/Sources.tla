------------------------------- MODULE Sources -------------------------------
(***************************************************************************)
(* The list of source files a build may name: find_all_sources,            *)
(* prim_sources and prim_add_sources of src/runtime/sources.cpp.           *)
(*                                                                         *)
(* The list is searched by bisection between two strings made from a       *)
(* directory's name, so the order of the characters matters and a path is  *)
(* a sequence of character codes here.                                     *)
(***************************************************************************)
EXTENDS Integers, Sequences, SequencesExt

CONSTANT Slash     \* the code of '/'; the code after it is that of '0'

\* String comparison: the first difference decides, a prefix is smaller.
Less(a, b) ==
  \/ \E n \in DOMAIN a : n <= Len(b) /\ a[n] < b[n] /\ \A m \in 1..(n - 1) : a[m] = b[m]
  \/ Len(a) < Len(b) /\ SubSeq(b, 1, Len(a)) = a

\* std::sort
Sort(s) == SortSeq(s, Less)

\* find_all_sources: what git lists, sorted; nothing without a git directory.
find_all_sources(git) == Sort(git)

\* std::lower_bound by bisection over list[low+1 .. high].
lower_bound(list, low, high, key) ==
  LET find[l \in low..high, h \in low..high] ==
        IF l >= h THEN l
        ELSE LET mid == (l + h) \div 2
             IN  IF Less(list[mid + 1], key) THEN find[mid + 1, h] ELSE find[l, mid]
  IN  find[low, high]

\* prim_sources under a canonical root (<<>> stands for "."), every file
\* matching the expression.
prim_sources(list, root) ==
  LET low == lower_bound(list, 0, Len(list), Append(root, Slash))
      high == lower_bound(list, low, Len(list), Append(root, Slash + 1))
  IN  IF root = <<>> THEN list ELSE SubSeq(list, low + 1, high)

Distinct(s) ==
  LET out[n \in 0..Len(s)] ==
        IF n = 0 THEN <<>>
        ELSE IF n > 1 /\ s[n] = s[n - 1] THEN out[n - 1] ELSE Append(out[n - 1], s[n])
  IN  out[Len(s)]

\* prim_add_sources: the new names are merged in by sorting everything, and
\* the result is made distinct.
prim_add_sources(list, more) == Distinct(Sort(list \o more))

-----------------------------------------------------------------------------
\* What a search under root should return.
PromisedSources(list, root) ==
  {f \in Range(list) : root = <<>> \/ IsPrefix(Append(root, Slash), f)}
=============================================================================
