------------------------------ MODULE Wakefiles ------------------------------
(***************************************************************************)
(* Which wake files a build reads: src/parser/wakefiles.cpp, and the       *)
(* default package main() of tools/wake chooses while it reads them.       *)
(*                                                                         *)
(* A file is a sequence of names.  Order is the order of the path strings, *)
(* given as the sequence of all files.  `ignore` gives the rules of the    *)
(* .wakeignore of a directory, in the order of its lines: a rule is a glob *)
(* and whether the line starts with "!".  A glob is a sequence of names,   *)
(* "*" (anything without a slash) and "**".                                *)
(***************************************************************************)
EXTENDS Integers, Sequences, SequencesExt

CONSTANT Order     \* every file there may be, sorted as strings

Sorted(S) == SelectSeq(Order, LAMBDA f : f \in S)
Position(f) == CHOOSE i \in DOMAIN Order : Order[i] = f

\* Directories a file lies in, the top ("" in the code) included.
Above(f) == {SubSeq(f, 1, n) : n \in 0..(Len(f) - 1)}

\* push_files from the top of the workspace: everything below directories
\* that can be read, but for three of the top level.  The second part says
\* whether a directory could not be read; the search goes on regardless.
push_files(files, unreadable) ==
  LET reached == {f \in files : f[1] \notin {".build", ".fuse", ".git"}}
  IN  [files |-> {f \in reached : Above(f) \cap unreadable = {}},
       failed |-> \E d \in unreadable : d = <<>> \/ d[1] \notin {".build", ".fuse", ".git"}]

\* The regular expression of glob2regexp, fully matched: "*" and "**" alone
\* stand for one name, a leading or inner "**" for any number of directories,
\* a trailing one for everything inside.
GlobMatches(glob, path) ==
  LET g == Len(glob)
      n == Len(path)
      match[i \in 1..(g + 1), j \in 1..(n + 1)] ==
        IF i > g THEN j > n
        ELSE IF glob[i] = "**" /\ g > 1
             THEN IF i = g THEN j <= n
                  ELSE match[i + 1, j] \/ (j <= n /\ match[i, j + 1])
             ELSE j <= n /\ glob[i] \in {"*", "**", path[j]} /\ match[i + 1, j + 1]
  IN  match[1, 1]

\* process_ignorefile: the rules of a directory, each with the number of
\* leading names it does not look at.
process_ignorefile(dir, ignore) ==
  LET rules == IF dir \in DOMAIN ignore THEN ignore[dir] ELSE <<>>
  IN  [i \in DOMAIN rules |->
         [prefix |-> Len(dir), allow |-> rules[i].allow, glob |-> rules[i].glob]]

\* Leave directories the next file is not in.
Unwind(curdir, f) ==
  LET common == {n \in 0..Len(curdir) : n < Len(f) /\ SubSeq(curdir, 1, n) = SubSeq(f, 1, n)}
  IN  SubSeq(curdir, 1, CHOOSE n \in common : \A m \in common : m <= n)

\* (mutant of Expire) Patterns of a directory that was left stay in force
\* when the new directory is as deep.
ExpireDeeper(filters, curdir) ==
  SelectSeq(filters, LAMBDA r : r.prefix <= Len(curdir) + 1)

\* Expire the patterns of the directories we have left.
Expire(filters, curdir) ==
  SelectSeq(filters, LAMBDA r : r.prefix <= Len(curdir))

\* Descend to the directory of f, reading each .wakeignore on the way.
Descend(filters, curdir, f, ignore) ==
  LET down[n \in Len(curdir)..(Len(f) - 1)] ==
        IF n = Len(curdir) THEN filters
        ELSE down[n - 1] \o process_ignorefile(SubSeq(f, 1, n), ignore)
  IN  down[Len(f) - 1]

\* Each rule that matches turns the verdict to its own side.
Skipped(filters, f) ==
  LET verdict[i \in 0..Len(filters)] ==
        IF i = 0 THEN FALSE
        ELSE LET r == filters[i]
                 skip == verdict[i - 1]
             IN  IF skip = r.allow /\ GlobMatches(r.glob, SubSeq(f, r.prefix + 1, Len(f)))
                 THEN ~r.allow ELSE skip
  IN  verdict[Len(filters)]

\* One file of filter_wakefiles.
FilterOne(s, f, ignore) ==
  LET up == Unwind(s.curdir, f)
      filters == Descend(Expire(s.filters, up), up, f, ignore)
  IN  [curdir |-> Front(f), filters |-> filters,
       output |-> IF Skipped(filters, f) THEN s.output ELSE Append(s.output, f)]

filter_wakefiles(wakefiles, ignore) ==
  LET loop[i \in 0..Len(wakefiles)] ==
        IF i = 0
        THEN [curdir |-> <<>>, filters |-> process_ignorefile(<<>>, ignore), output |-> <<>>]
        ELSE FilterOne(loop[i - 1], wakefiles[i], ignore)
  IN  loop[Len(wakefiles)].output

\* find_workspace_wakefiles_via_manifest: the lines as they stand, without
\* those that cannot be read.
via_manifest(manifest, files) == SelectSeq(manifest, LAMBDA f : f \in files)

via_search(tree) ==
  filter_wakefiles(Sorted(push_files(tree.files, tree.unreadable).files), tree.ignore)

\* std::merge: from the second sequence only what is strictly smaller.
Merge(a, b) ==
  LET take[i \in 0..Len(a), j \in 0..Len(b)] ==
        IF i = Len(a) THEN SubSeq(b, j + 1, Len(b))
        ELSE IF j = Len(b) THEN SubSeq(a, i + 1, Len(a))
        ELSE IF Position(b[j + 1]) < Position(a[i + 1])
             THEN <<b[j + 1]>> \o take[i, j + 1]
             ELSE <<a[i + 1]>> \o take[i + 1, j]
  IN  take[0, 0]

\* std::unique drops what equals its predecessor.
Unique(s) ==
  LET kept == {i \in DOMAIN s : i = 1 \/ s[i] # s[i - 1]}
      out[n \in 0..Len(s)] ==
        IF n = 0 THEN <<>> ELSE IF n \in kept THEN Append(out[n - 1], s[n]) ELSE out[n - 1]
  IN  out[Len(s)]

\* find_all_wakefiles.  The standard library comes from the installation
\* unless the workspace holds it.
find_all_wakefiles(workspace, tree, lib) ==
  LET libfiles == IF workspace /\ tree.stdlib THEN <<>> ELSE Sorted(lib)
      workfiles == IF tree.manifest # <<>> THEN via_manifest(tree.manifest, tree.files)
                   ELSE via_search(tree)
  IN  IF ~workspace THEN libfiles ELSE Unique(Merge(libfiles, workfiles))

-----------------------------------------------------------------------------
(***************************************************************************)
(* The default package: that of the deepest directory on the way to        *)
(* src_dir that holds a wake file, unless its files disagree.              *)
(***************************************************************************)
NoPackage == "none"
NothingChosen == [longest |-> -1, package |-> NoPackage, warned |-> FALSE]

\* (mutant of ChoosePackage) A conflict further up hides one further down.
ChoosePackageWarnedOnce(c, f, package, src_dir) ==
  LET dir == Front(f)
  IN  IF ~IsPrefix(dir, src_dir) THEN c
      ELSE IF Len(dir) > c.longest
           THEN [c EXCEPT !.longest = Len(dir), !.package = package]
      ELSE IF Len(dir) = c.longest /\ c.package # package /\ ~c.warned
           THEN [c EXCEPT !.package = NoPackage, !.warned = TRUE]
      ELSE c

\* One turn of the loop over the wake files.
ChoosePackage(c, f, package, src_dir) ==
  LET dir == Front(f)
  IN  IF ~IsPrefix(dir, src_dir) THEN c
      ELSE IF Len(dir) > c.longest
           THEN [longest |-> Len(dir), package |-> package, warned |-> FALSE]
      ELSE IF Len(dir) = c.longest /\ c.package # package /\ ~c.warned
           THEN [c EXCEPT !.package = NoPackage, !.warned = TRUE]
      ELSE c

-----------------------------------------------------------------------------
(***************************************************************************)
(* What the search and the choice should come to, file by file.            *)
(***************************************************************************)
\* The rules that concern f, from the top down; the last one that matches
\* decides.
RulesFor(f, ignore) ==
  LET from[n \in 0..(Len(f) - 1)] ==
        IF n = 0 THEN process_ignorefile(<<>>, ignore)
        ELSE from[n - 1] \o process_ignorefile(SubSeq(f, 1, n), ignore)
  IN  from[Len(f) - 1]

Ignored(f, ignore) ==
  LET rules == RulesFor(f, ignore)
      hits == {i \in DOMAIN rules : GlobMatches(rules[i].glob, SubSeq(f, rules[i].prefix + 1, Len(f)))}
  IN  \E i \in hits : ~rules[i].allow /\ \A j \in hits : j <= i

PromisedFiles(tree) ==
  {f \in push_files(tree.files, tree.unreadable).files : ~Ignored(f, tree.ignore)}

PromisedPackage(files, package, src_dir) ==
  LET near == {f \in files : IsPrefix(Front(f), src_dir)}
      deepest == {f \in near : \A g \in near : Len(g) <= Len(f)}
      names == {package[f] : f \in deepest}
  IN  IF \E p \in names : names = {p} THEN CHOOSE p \in names : TRUE ELSE NoPackage
=============================================================================
