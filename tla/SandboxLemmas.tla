--------------------------- MODULE SandboxLemmas ---------------------------
(***************************************************************************)
(* What a job does in its sandbox, for any number of jobs, paths and       *)
(* descriptors: the invariant of the file operations of fuse-waked, and    *)
(* what staging, removing and renaming do to it.  SandboxProofs takes the  *)
(* steps of FuseView from here.                                            *)
(*                                                                         *)
(* The three lists of a job name the same paths (Lists).  Every staged     *)
(* item has a backing object of its own, and it is there until the job has *)
(* reported (Sole, Kept).  While the job lives, nothing it made is at or   *)
(* above a path it was shown (Apart), it read only what it was shown or    *)
(* made (ReadKnown), an open file has the name of a staged file or of a    *)
(* visible one (Named), and until a rename replaces a directory that is    *)
(* not empty, everything above a name of the view is a directory of the    *)
(* view (Tree).                                                            *)
(***************************************************************************)
EXTENDS FuseView, SequenceTheorems, TLAPS

ItemKinds == {"file", "symlink", "directory", "special"}

IsEntry(J) ==
  J = [visible |-> J.visible, read |-> J.read, wrote |-> J.wrote, paths |-> J.paths,
       staged |-> J.staged]

\* files_wrote, staged_paths and g_staged_files name the same paths.
Lists(J) ==
  /\ IsEntry(J)
  /\ J.wrote = DOMAIN J.staged /\ J.paths = DOMAIN J.staged
  /\ DOMAIN J.staged \subseteq Paths
  /\ \A p \in DOMAIN J.staged : J.staged[p].kind \in ItemKinds

\* Nothing staged is at or above a visible path.
Apart(J) == \A p \in DOMAIN J.staged : ~is_visible(J, p)

ReadKnown(J) == J.read \subseteq DOMAIN J.staged \cup DOMAIN J.visible

InView(J) == DOMAIN J.staged \cup DOMAIN J.visible

IsDir(J, d) ==
  \/ d \in DOMAIN J.staged /\ J.staged[d].kind = "directory"
  \/ d \in DOMAIN J.visible /\ J.visible[d] = "directory"

Walked(J, q) == \A d \in Paths : IsStrictPrefix(d, q) => IsDir(J, d)

Tree(J) == \A q \in InView(J) : Walked(J, q)

\* What an open descriptor is of: a visible path, or a staged file.
NamedIn(J, fd) ==
  /\ Walked(J, fd.path)
  /\ \/ fd.what = Blob /\ fd.path \in DOMAIN J.visible
     \/ fd.what # Blob /\ fd.path \in DOMAIN J.staged /\ J.staged[fd.path].kind = "file"

Idle(j) == phase[j] \in {"none", "attached", "gone"} => job[j] = EmptyJob

Shown(j) == Running(j) => job[j].visible = Parse(Input[j])

\* No two staged items, of whatever jobs, share a backing object.
Sole(j, p) ==
  /\ Backing(job[j].staged[p]) \subseteq 1..counter
  /\ \A k \in Job : \A q \in DOMAIN job[k].staged :
       (j = k /\ p = q) \/ Backing(job[j].staged[p]) \cap Backing(job[k].staged[q]) = {}

\* The staging files of a running job are there, and nobody else has them.
Kept(j) ==
  phase[j] = "running" => \A p \in DOMAIN job[j].staged :
    /\ Backing(job[j].staged[p]) \subseteq disk
    /\ \A k \in Job : Backing(job[j].staged[p]) \cap handed[k] = {}

Served(j) ==
  /\ phase[j] \in {"none", "attached"} => served[j] = {}
  /\ phase[j] = "running" => served[j] \subseteq job[j].read \cap DOMAIN job[j].visible

Named(i) ==
  fds[i] # NULL =>
    /\ fds[i] = [job |-> fds[i].job, path |-> fds[i].path, what |-> fds[i].what]
    /\ fds[i].job \in Job /\ phase[fds[i].job] \notin {"none", "attached"}
    /\ fds[i].path # NULL /\ Running(fds[i].job) => NamedIn(job[fds[i].job], fds[i])

Seen(j) ==
  Running(j) =>
    /\ Apart(job[j]) /\ ReadKnown(job[j])
    /\ ~merged[j] => Tree(job[j])

Phases == {"none", "attached", "running", "reported", "gone"}

Shape ==
  /\ phase \in [Job -> Phases] /\ counter \in Nat
  /\ DOMAIN job = Job /\ DOMAIN fds = Slots
  /\ DOMAIN served = Job /\ handed \in [Job -> SUBSET (1..counter)] /\ DOMAIN merged = Job

ViewInv ==
  /\ Shape
  /\ \A j \in Job : Lists(job[j]) /\ Idle(j) /\ Shown(j) /\ Kept(j) /\ Served(j) /\ Seen(j)
  /\ \A j \in Job : \A p \in DOMAIN job[j].staged : Sole(j, p)
  /\ \A i \in Slots : Named(i)

-----------------------------------------------------------------------------
(* Paths *)

\* A strict prefix is shorter and agrees as far as it goes.
LEMMA PrefixIs ==
  ASSUME NEW d \in Seq(STRING), NEW p \in Seq(STRING)
  PROVE  IsStrictPrefix(d, p) <=> Len(d) < Len(p) /\ \A i \in 1..Len(d) : d[i] = p[i]
<1>1. CASE Len(d) < Len(p)
  <2>1. /\ SubSeq(p, 1, Len(d)) \in Seq(STRING) /\ Len(SubSeq(p, 1, Len(d))) = Len(d)
        /\ \A i \in 1..Len(d) : SubSeq(p, 1, Len(d))[i] = p[i]
    BY <1>1, SubSeqProperties
  <2> QED
    BY <1>1, <2>1, SeqEqual DEF IsStrictPrefix
<1>2. CASE ~(Len(d) < Len(p))
  BY <1>2 DEF IsStrictPrefix
<1> QED
  BY <1>1, <1>2

\* What is above a path that is above p is above p.
LEMMA PrefixTrans ==
  ASSUME NEW d \in Seq(STRING), NEW e \in Seq(STRING), NEW p \in Seq(STRING),
         IsStrictPrefix(d, e), IsStrictPrefix(e, p)
  PROVE  IsStrictPrefix(d, p)
  BY PrefixIs

\* Nothing is above itself, nor above what is above it.
LEMMA PrefixAsym ==
  ASSUME NEW d \in Seq(STRING), NEW p \in Seq(STRING), IsStrictPrefix(d, p)
  PROVE  d # p /\ ~IsStrictPrefix(p, d)
  BY PrefixIs

\* The parent of a path, and what is above a path.
LEMMA ParentIs ==
  ASSUME NEW p \in Seq(STRING), p # << >>
  PROVE  /\ Parent(p) \in Seq(STRING) /\ Len(Parent(p)) = Len(p) - 1
         /\ \A i \in 1..Len(p) - 1 : Parent(p)[i] = p[i]
         /\ IsStrictPrefix(Parent(p), p)
         /\ \A d \in Seq(STRING) :
              IsStrictPrefix(d, p) <=> d = Parent(p) \/ IsStrictPrefix(d, Parent(p))
<1>1. Len(p) \in Nat /\ Len(p) >= 1
  BY EmptySeq
<1>2. /\ Parent(p) \in Seq(STRING) /\ Len(Parent(p)) = Len(p) - 1
      /\ \A i \in 1..Len(p) - 1 : Parent(p)[i] = p[i]
  <2> DEFINE n == Len(p) - 1
  <2>1. n \in Nat /\ Len(p) = n + 1 /\ Parent(p) = SubSeq(p, 1, n)
    BY <1>1 DEF Parent
  <2> HIDE DEF n
  <2>2. /\ SubSeq(p, 1, n) \in Seq(STRING) /\ Len(SubSeq(p, 1, n)) = n
        /\ \A i \in 1..n : SubSeq(p, 1, n)[i] = p[i]
    BY <2>1, SubSeqProperties
  <2> QED
    BY <2>1, <2>2
<1>3. IsStrictPrefix(Parent(p), p)
  BY <1>1, <1>2, PrefixIs
<1>4. ASSUME NEW d \in Seq(STRING), IsStrictPrefix(d, p)
      PROVE  d = Parent(p) \/ IsStrictPrefix(d, Parent(p))
  <2>1. Len(d) \in Nat /\ Len(d) < Len(p) /\ \A i \in 1..Len(d) : d[i] = p[i]
    BY <1>4, PrefixIs
  <2>2. CASE Len(d) = Len(p) - 1
    BY <1>1, <1>2, <2>1, <2>2, SeqEqual
  <2>3. CASE Len(d) < Len(p) - 1
    BY <1>1, <1>2, <2>1, <2>3, PrefixIs
  <2> QED
    BY <1>1, <2>1, <2>2, <2>3
<1>5. ASSUME NEW d \in Seq(STRING), IsStrictPrefix(d, Parent(p))
      PROVE  IsStrictPrefix(d, p)
  BY <1>2, <1>3, <1>5, PrefixTrans
<1> QED
  BY <1>2, <1>3, <1>4, <1>5

\* Two paths with the same name and the same parent are one.
LEMMA SameName ==
  ASSUME NEW p \in Seq(STRING), p # << >>, NEW q \in Seq(STRING),
         IsStrictPrefix(Parent(p), q), q[Len(Parent(p)) + 1] = Last(p)
  PROVE  p = q \/ IsStrictPrefix(p, q)
<1>1. Len(p) \in Nat /\ Len(p) >= 1 /\ Len(q) \in Nat
  BY EmptySeq
<1>2. Len(Parent(p)) < Len(q) /\ \A i \in 1..Len(Parent(p)) : Parent(p)[i] = q[i]
  BY ParentIs, PrefixIs
<1>3. Len(p) <= Len(q)
  BY <1>1, <1>2, ParentIs
<1>4. \A i \in 1..Len(p) : p[i] = q[i]
  <2> TAKE i \in 1..Len(p)
  <2>1. CASE i = Len(p)
    BY <1>1, <2>1, ParentIs DEF Last
  <2>2. CASE i # Len(p)
    <3>1. i \in 1..Len(p) - 1 /\ i \in 1..Len(Parent(p))
      BY <1>1, <2>2, ParentIs
    <3>2. Parent(p)[i] = p[i]
      BY <3>1, ParentIs
    <3> QED
      BY <1>2, <3>1, <3>2
  <2> QED
    BY <2>1, <2>2
<1>5. CASE Len(p) = Len(q)
  BY <1>4, <1>5, SeqEqual
<1>6. CASE Len(p) < Len(q)
  BY <1>4, <1>6, PrefixIs
<1> QED
  BY <1>1, <1>3, <1>5, <1>6

\* Where a path below d is once d was renamed to e.
LEMMA MovedIs ==
  ASSUME NEW p \in Seq(STRING), NEW d \in Seq(STRING), NEW e \in Seq(STRING),
         IsStrictPrefix(d, p)
  PROVE  /\ Moved(p, d, e) \in Seq(STRING)
         /\ Len(Moved(p, d, e)) = Len(e) + (Len(p) - Len(d))
         /\ \A i \in 1..Len(e) : Moved(p, d, e)[i] = e[i]
         /\ \A i \in 1..Len(p) - Len(d) : Moved(p, d, e)[Len(e) + i] = p[Len(d) + i]
<1> DEFINE s == SubSeq(p, Len(d) + 1, Len(p))
<1>1. Len(d) \in Nat /\ Len(p) \in Nat /\ Len(e) \in Nat /\ Len(d) < Len(p)
  BY PrefixIs
<1>2. /\ s \in Seq(STRING) /\ Len(s) = Len(p) - Len(d)
      /\ \A i \in 1..Len(p) - Len(d) : s[i] = p[Len(d) + i]
  BY <1>1, SubSeqProperties
<1> HIDE DEF s
<1>3. /\ e \o s \in Seq(STRING) /\ Len(e \o s) = Len(e) + Len(s)
      /\ \A i \in 1..Len(e) + Len(s) : (e \o s)[i] = IF i <= Len(e) THEN e[i] ELSE s[i - Len(e)]
  BY <1>2, ConcatProperties, ZenonT(30)
<1>4. Moved(p, d, e) = e \o s
  BY DEF Moved, s
<1> QED
  BY <1>1, <1>2, <1>3, <1>4

\* It is below e, and two paths do not come to the same place.
LEMMA MovedBelow ==
  ASSUME NEW p \in Seq(STRING), NEW d \in Seq(STRING), NEW e \in Seq(STRING),
         IsStrictPrefix(d, p)
  PROVE  /\ Moved(p, d, e) \in Seq(STRING)
         /\ IsStrictPrefix(e, Moved(p, d, e))
         /\ \A q \in Seq(STRING) :
              IsStrictPrefix(d, q) /\ Moved(q, d, e) = Moved(p, d, e) => q = p
<1>1. Len(d) \in Nat /\ Len(p) \in Nat /\ Len(e) \in Nat /\ Len(d) < Len(p)
  BY PrefixIs
<1>m. /\ Moved(p, d, e) \in Seq(STRING)
      /\ Len(Moved(p, d, e)) = Len(e) + (Len(p) - Len(d))
      /\ \A i \in 1..Len(e) : Moved(p, d, e)[i] = e[i]
      /\ \A i \in 1..Len(p) - Len(d) : Moved(p, d, e)[Len(e) + i] = p[Len(d) + i]
  BY MovedIs, ZenonT(30)
<1>2. IsStrictPrefix(e, Moved(p, d, e))
  <2>1. Len(e) < Len(Moved(p, d, e))
    BY <1>1, <1>m
  <2> QED
    BY <1>m, <2>1, PrefixIs, ZenonT(30)
<1>3. ASSUME NEW q \in Seq(STRING), IsStrictPrefix(d, q), Moved(q, d, e) = Moved(p, d, e)
      PROVE  q = p
  <2>1. Len(q) \in Nat /\ Len(d) < Len(q)
    BY <1>3, PrefixIs
  <2>m. /\ Len(Moved(q, d, e)) = Len(e) + (Len(q) - Len(d))
        /\ \A i \in 1..Len(q) - Len(d) : Moved(q, d, e)[Len(e) + i] = q[Len(d) + i]
    BY <1>3, MovedIs, ZenonT(30)
  <2>2. Len(q) = Len(p)
    BY <1>1, <1>3, <1>m, <2>1, <2>m
  <2>3. \A i \in 1..Len(q) : q[i] = p[i]
    <3> TAKE i \in 1..Len(q)
    <3>1. CASE i <= Len(d)
      BY <1>1, <1>3, <2>1, <3>1, PrefixIs
    <3>2. CASE i > Len(d)
      <4>1. i - Len(d) \in 1..Len(p) - Len(d) /\ i = Len(d) + (i - Len(d))
        BY <1>1, <2>1, <2>2, <3>2
      <4>2. q[Len(d) + (i - Len(d))] = p[Len(d) + (i - Len(d))]
        BY <1>3, <1>m, <2>2, <2>m, <4>1, ZenonT(30)
      <4> QED
        BY <4>1, <4>2
    <3> QED
      BY <1>1, <3>1, <3>2
  <2> QED
    BY <2>2, <2>3, SeqEqual
<1> QED
  BY <1>2, <1>3, <1>m

\* What is above a moved path is at or above e, or was moved with it.
LEMMA AboveMoved ==
  ASSUME NEW p \in Seq(STRING), NEW d \in Seq(STRING), NEW e \in Seq(STRING),
         IsStrictPrefix(d, p), NEW a \in Seq(STRING), IsStrictPrefix(a, Moved(p, d, e)),
         a # e, ~IsStrictPrefix(a, e)
  PROVE  \E n \in 1..Len(p) : LET r == SubSeq(p, 1, n) IN
           r \in Seq(STRING) /\ IsStrictPrefix(d, r) /\ IsStrictPrefix(r, p) /\ a = Moved(r, d, e)
<1>1. Len(d) \in Nat /\ Len(p) \in Nat /\ Len(e) \in Nat /\ Len(a) \in Nat /\ Len(d) < Len(p)
  BY PrefixIs
<1>m. /\ Moved(p, d, e) \in Seq(STRING)
      /\ Len(Moved(p, d, e)) = Len(e) + (Len(p) - Len(d))
      /\ \A i \in 1..Len(e) : Moved(p, d, e)[i] = e[i]
      /\ \A i \in 1..Len(p) - Len(d) : Moved(p, d, e)[Len(e) + i] = p[Len(d) + i]
  BY MovedIs, ZenonT(30)
<1>2. /\ Len(a) < Len(e) + (Len(p) - Len(d))
      /\ \A i \in 1..Len(a) : a[i] = Moved(p, d, e)[i]
  BY <1>m, PrefixIs
<1>3. Len(a) > Len(e)
  <2>1. CASE Len(a) = Len(e)
    BY <1>1, <1>2, <1>m, <2>1, SeqEqual
  <2>2. CASE Len(a) < Len(e)
    <3>1. \A i \in 1..Len(a) : a[i] = e[i]
      BY <1>1, <1>2, <1>m, <2>2
    <3> QED
      BY <2>2, <3>1, PrefixIs
  <2> QED
    BY <1>1, <2>1, <2>2
<1> DEFINE n == Len(d) + (Len(a) - Len(e))
           r == SubSeq(p, 1, n)
<1>4. n \in 1..Len(p) /\ n < Len(p) /\ n > Len(d)
  BY <1>1, <1>2, <1>3
<1>5. r \in Seq(STRING) /\ Len(r) = n /\ \A i \in 1..n : r[i] = p[i]
  <2> HIDE DEF n
  <2>1. p \in Seq(STRING)
    OBVIOUS
  <2>2. n \in Nat /\ n <= Len(p)
    BY ONLY <1>1, <1>4
  <2> QED
    BY ONLY <1>1, <1>4, <2>1, <2>2, SubSeqProperties
<1>5a. n = Len(d) + (Len(a) - Len(e))
  OBVIOUS
<1> HIDE DEF r, n
<1>6. IsStrictPrefix(r, p)
  BY <1>1, <1>4, <1>5, PrefixIs, ZenonT(30)
<1>7. IsStrictPrefix(d, r)
  <2>1. \A i \in 1..Len(d) : d[i] = p[i]
    BY PrefixIs
  <2> QED
    <3>1. \A i \in 1..Len(d) : d[i] = r[i]
      BY ONLY <1>1, <1>4, <1>5, <2>1
    <3>2. Len(d) < Len(r)
      BY <1>4, <1>5
    <3> QED
      BY <1>5, <3>1, <3>2, PrefixIs
<1>8. a = Moved(r, d, e)
  <2> r \in Seq(STRING)
    BY <1>5
  <2>m. /\ Moved(r, d, e) \in Seq(STRING)
        /\ Len(Moved(r, d, e)) = Len(e) + (Len(r) - Len(d))
        /\ \A i \in 1..Len(e) : Moved(r, d, e)[i] = e[i]
        /\ \A i \in 1..Len(r) - Len(d) : Moved(r, d, e)[Len(e) + i] = r[Len(d) + i]
    BY ONLY r \in Seq(STRING), d \in Seq(STRING), e \in Seq(STRING), <1>7, MovedIs, ZenonT(30)
  <2>1. Moved(r, d, e) \in Seq(STRING) /\ Len(Moved(r, d, e)) = Len(a)
    BY <1>1, <1>4, <1>5, <1>5a, <2>m
  <2>2. \A i \in 1..Len(a) : a[i] = Moved(r, d, e)[i]
    <3> TAKE i \in 1..Len(a)
    <3>1. CASE i <= Len(e)
      BY <1>1, <1>2, <1>m, <2>m, <3>1
    <3>2. CASE i > Len(e)
      <4> DEFINE k == i - Len(e)
      <4>1. k \in 1..Len(p) - Len(d) /\ k \in 1..Len(r) - Len(d) /\ i = Len(e) + k
            /\ Len(d) + k \in 1..n
        <5>1. i \in 1..Len(a)
          OBVIOUS
        <5> QED
          BY ONLY <1>1, <1>2, <1>4, <1>5, <1>5a, <3>2, <5>1
      <4> HIDE DEF k
      <4>2. Moved(p, d, e)[Len(e) + k] = p[Len(d) + k]
        BY <4>1, <1>m
      <4>3. Moved(r, d, e)[Len(e) + k] = r[Len(d) + k]
        BY <4>1, <2>m
      <4> QED
        BY <1>2, <1>5, <4>1, <4>2, <4>3
    <3> QED
      BY <1>1, <3>1, <3>2
  <2> QED
    BY <2>1, <2>2, SeqEqual
<1> QED
  BY <1>4, <1>5, <1>6, <1>7, <1>8 DEF r

\* What the assumption says of the paths.
LEMMA PathsAre ==
  /\ Paths \subseteq Seq(STRING) /\ << >> \notin Paths /\ NULL \notin Paths
  /\ \A p \in Paths, d \in Seq(STRING) : IsStrictPrefix(d, p) /\ d # << >> => d \in Paths
<1>1. Paths \subseteq Seq(STRING) /\ << >> \notin Paths /\ NULL \notin Paths
  BY ViewAssumption
<1>2. ASSUME NEW p \in Paths, NEW d \in Seq(STRING), IsStrictPrefix(d, p), d # << >>
      PROVE  d \in Paths
  <2>1. p \in Seq(STRING) /\ Len(p) \in Nat /\ Len(d) \in 1..Len(p)
    BY <1>1, <1>2, EmptySeq, PrefixIs
  <2>2. \A i \in 1..Len(d) : d[i] = p[i]
    BY <1>2, <2>1, PrefixIs
  <2>3. /\ SubSeq(p, 1, Len(d)) \in Seq(STRING) /\ Len(SubSeq(p, 1, Len(d))) = Len(d)
        /\ \A i \in 1..Len(d) : SubSeq(p, 1, Len(d))[i] = p[i]
    BY <2>1, SubSeqProperties
  <2>4. SubSeq(p, 1, Len(d)) = d
    BY <2>2, <2>3, SeqEqual
  <2> QED
    BY <2>1, <2>4, ViewAssumption, ZenonT(30)
<1> QED
  BY <1>1, <1>2

\* Under, as a relation.
LEMMA UnderIs ==
  ASSUME NEW d \in Paths \cup {<< >>}, NEW p
  PROVE  Under(p, d) <=> p \in Paths /\ IsStrictPrefix(d, p)
  BY DEF Under, Below

\* The parent of a path is the root or a path; the hidden name has the same one.
LEMMA ParentInPaths ==
  ASSUME NEW p \in Paths
  PROVE  Parent(p) = << >> \/ Parent(p) \in Paths
<1>1. p \in Seq(STRING) /\ p # << >>
  BY PathsAre
<1>2. Parent(p) \in Seq(STRING) /\ IsStrictPrefix(Parent(p), p)
  BY <1>1, ParentIs
<1> QED
  BY <1>2, PathsAre

\* The hidden name of a path is beside it.
LEMMA HiddenIs ==
  ASSUME NEW p \in Paths, HiddenIn(p) \in Paths
  PROVE  /\ ~IsStrictPrefix(HiddenIn(p), p)
         /\ \A d \in Paths : IsStrictPrefix(d, HiddenIn(p)) <=> IsStrictPrefix(d, p)
<1> DEFINE h == HiddenIn(p)
           s == Parent(p)
<1>1. p \in Seq(STRING) /\ p # << >> /\ h \in Seq(STRING)
  BY PathsAre
<1>2. s \in Seq(STRING) /\ Len(s) = Len(p) - 1 /\ \A i \in 1..Len(p) - 1 : s[i] = p[i]
  BY <1>1, ParentIs
<1>3. h = Append(s, Hidden)
  BY DEF HiddenIn
<1>4. Len(p) \in Nat /\ Len(h) \in Nat
  BY <1>1
<1> HIDE DEF h, s
<1>5. Len(h) = Len(p) /\ \A i \in 1..Len(p) - 1 : h[i] = p[i]
  BY <1>2, <1>3, <1>4
<1>6. ~IsStrictPrefix(h, p)
  BY <1>1, <1>4, <1>5, PrefixIs
<1>7. ASSUME NEW d \in Paths
      PROVE  IsStrictPrefix(d, h) <=> IsStrictPrefix(d, p)
  <2>1. d \in Seq(STRING) /\ Len(d) \in Nat
    BY PathsAre
  <2>2. /\ IsStrictPrefix(d, h) <=> Len(d) < Len(h) /\ \A i \in 1..Len(d) : d[i] = h[i]
        /\ IsStrictPrefix(d, p) <=> Len(d) < Len(p) /\ \A i \in 1..Len(d) : d[i] = p[i]
    BY <1>1, <2>1, PrefixIs
  <2> QED
    BY ONLY <1>4, <1>5, <2>1, <2>2
<1> QED
  BY <1>6, <1>7 DEF h

-----------------------------------------------------------------------------
(* What a job is shown *)

\* Visible entries are paths, and what is above one is a visible directory.
Entries(J) ==
  /\ DOMAIN J.visible \subseteq Paths
  /\ \A q \in DOMAIN J.visible :
       /\ J.visible[q] \in {"file", "symlink", "directory"}
       /\ \A d \in Paths : IsStrictPrefix(d, q) =>
            d \in DOMAIN J.visible /\ J.visible[d] = "directory"

\* Job::parse adds every directory that the entries lack.
LEMMA ParseIsClosed ==
  ASSUME NEW j \in Job, NEW J, J.visible = Parse(Input[j])
  PROVE  Entries(J)
<1> DEFINE E == Input[j]
           A == {d \in Paths : \E p \in DOMAIN E : Under(p, d)}
<1>1. /\ DOMAIN J.visible = DOMAIN E \cup A
      /\ \A p \in DOMAIN E : J.visible[p] = E[p]
      /\ \A p \in A \ DOMAIN E : J.visible[p] = "directory"
  BY DEF Parse
<1>2. /\ DOMAIN E \subseteq Paths
      /\ \A p \in DOMAIN E : E[p] \in {"file", "symlink", "directory"}
      /\ \A p, d \in DOMAIN E : IsStrictPrefix(d, p) => E[d] = "directory"
  BY ViewAssumption
<1>3. \A d \in A : \E p \in DOMAIN E : IsStrictPrefix(d, p)
  BY UnderIs
<1>4. \A d \in Paths, p \in DOMAIN E : IsStrictPrefix(d, p) => d \in A
  BY <1>2, UnderIs
<1> HIDE DEF E, A
<1>5. A \subseteq Paths
  BY DEF A
<1>6. \A q \in DOMAIN J.visible, d \in Paths : IsStrictPrefix(d, q) =>
        \E p \in DOMAIN E : IsStrictPrefix(d, p)
  <2> TAKE q \in DOMAIN J.visible, d \in Paths
  <2>1. CASE q \in DOMAIN E
    BY <2>1
  <2>2. CASE q \in A
    <3> PICK p \in DOMAIN E : IsStrictPrefix(q, p)
      BY <1>3, <2>2
    <3> QED
      BY <1>2, <1>5, <2>2, PathsAre, PrefixTrans
  <2> QED
    BY <1>1, <2>1, <2>2
<1>7. \A q \in DOMAIN J.visible, d \in Paths : IsStrictPrefix(d, q) =>
        d \in DOMAIN J.visible /\ J.visible[d] = "directory"
  BY <1>1, <1>2, <1>4, <1>6
<1> QED
  BY <1>1, <1>2, <1>5, <1>7 DEF Entries

\* is_visible asks the same of a path as the table of entries.
LEMMA VisibleIs ==
  ASSUME NEW J, Entries(J), NEW p \in Paths
  PROVE  is_visible(J, p) <=> p \in DOMAIN J.visible
  BY UnderIs DEF Entries, is_visible

\* Nothing visible is below a path that is not.
LEMMA NotBelow ==
  ASSUME NEW J, Entries(J), NEW p \in Paths, ~is_visible(J, p), NEW q \in DOMAIN J.visible
  PROVE  p # q /\ ~IsStrictPrefix(p, q)
  BY VisibleIs DEF Entries

-----------------------------------------------------------------------------
(* The entry of a job after an operation *)

\* What Stage does to each list.
LEMMA StageIs ==
  ASSUME NEW J, IsEntry(J), NEW p, NEW item
  PROVE  LET K == Stage(J, p, item) IN
         /\ IsEntry(K) /\ K.visible = J.visible /\ K.read = J.read
         /\ K.wrote = J.wrote \cup {p} /\ K.paths = J.paths \cup {p}
         /\ DOMAIN K.staged = DOMAIN J.staged \cup {p}
         /\ K.staged[p] = item
         /\ \A q \in DOMAIN J.staged \ {p} : K.staged[q] = J.staged[q]
<1> DEFINE S == [q \in DOMAIN J.staged \cup {p} |-> IF q = p THEN item ELSE J.staged[q]]
<1>1. PICK v, r, w, a, s : J = [visible |-> v, read |-> r, wrote |-> w, paths |-> a, staged |-> s]
  BY DEF IsEntry
<1>2. J.visible = v /\ J.read = r /\ J.wrote = w /\ J.paths = a
  BY ONLY <1>1
<1>3. /\ DOMAIN S = DOMAIN J.staged \cup {p} /\ S[p] = item
      /\ \A q \in DOMAIN J.staged \ {p} : S[q] = J.staged[q]
  OBVIOUS
<1>4. Stage(J, p, item) = [J EXCEPT !.staged = S, !.paths = @ \cup {p}, !.wrote = @ \cup {p}]
  BY DEF Stage
<1> HIDE DEF S
<1>5. Stage(J, p, item) = [visible |-> v, read |-> r, wrote |-> w \cup {p}, paths |-> a \cup {p}, staged |-> S]
  BY ONLY <1>1, <1>4, ZenonT(30)
<1> QED
  BY ONLY <1>2, <1>3, <1>5 DEF IsEntry

\* What Unstage does to each list.
LEMMA UnstageIs ==
  ASSUME NEW J, IsEntry(J), NEW p
  PROVE  LET K == Unstage(J, p) IN
         /\ IsEntry(K) /\ K.visible = J.visible /\ K.read = J.read \ {p}
         /\ K.wrote = J.wrote \ {p} /\ K.paths = J.paths \ {p}
         /\ DOMAIN K.staged = DOMAIN J.staged \ {p}
         /\ \A q \in DOMAIN J.staged \ {p} : K.staged[q] = J.staged[q]
<1> DEFINE S == Drop(J.staged, {p})
<1>1. PICK v, r, w, a, s : J = [visible |-> v, read |-> r, wrote |-> w, paths |-> a, staged |-> s]
  BY DEF IsEntry
<1>2. J.visible = v /\ J.read = r /\ J.wrote = w /\ J.paths = a
  BY ONLY <1>1
<1>3. /\ DOMAIN S = DOMAIN J.staged \ {p}
      /\ \A q \in DOMAIN J.staged \ {p} : S[q] = J.staged[q]
  BY DEF Drop, Restrict
<1>4. Unstage(J, p) = [J EXCEPT !.staged = S, !.paths = @ \ {p}, !.wrote = @ \ {p}, !.read = @ \ {p}]
  BY DEF Unstage
<1> HIDE DEF S
<1>5. Unstage(J, p) = [visible |-> v, read |-> r \ {p}, wrote |-> w \ {p}, paths |-> a \ {p}, staged |-> S]
  BY ONLY <1>1, <1>4, ZenonT(30)
<1> QED
  BY ONLY <1>2, <1>3, <1>5 DEF IsEntry

\* Where a path is once f was renamed to t.
Goes(J, q, f, t) ==
  IF q = f THEN t
  ELSE IF J.staged[f].kind = "directory" /\ Under(q, f) THEN Moved(q, f, t) ELSE q

\* A rename the kernel may ask for, within the bound on the depth.
MayMove(J, f, t) ==
  /\ f \in DOMAIN J.staged /\ t \in Paths /\ f # t /\ ~IsStrictPrefix(f, t)
  /\ J.staged[f].kind = "directory" =>
       \A q \in DOMAIN J.staged : IsStrictPrefix(f, q) => Moved(q, f, t) \in Paths

\* What Rename does to each list: every path goes to its place, over what was there.
RenameDone(J, K, f, t) ==
  /\ IsEntry(K) /\ K.visible = J.visible
  /\ DOMAIN K.staged = {Goes(J, q, f, t) : q \in DOMAIN J.staged}
  /\ K.wrote = DOMAIN K.staged /\ K.paths = DOMAIN K.staged
  /\ K.read \subseteq {Goes(J, q, f, t) : q \in J.read \ {f}}
  /\ \A q \in J.read \ {f} : Goes(J, q, f, t) \in K.read
  /\ K.staged[t] = J.staged[f]
  /\ \A q \in DOMAIN J.staged : J.staged[f].kind = "directory" /\ IsStrictPrefix(f, q) =>
       K.staged[Moved(q, f, t)] = J.staged[q]
  /\ \A q \in DOMAIN J.staged \ {f, t} :
       Goes(J, q, f, t) = q /\ ~IsStrictPrefix(t, q) => K.staged[q] = J.staged[q]
  /\ \A r \in DOMAIN K.staged : \E q \in DOMAIN J.staged \ {t} :
       r = Goes(J, q, f, t) /\ K.staged[r] = J.staged[q]

\* The lists once the renamed item itself has moved.
OwnDone(J, O, f, t) ==
  /\ IsEntry(O) /\ O.visible = J.visible /\ O.read = J.read \ {f}
  /\ DOMAIN O.staged = (DOMAIN J.staged \ {f}) \cup {t}
  /\ O.wrote = DOMAIN O.staged /\ O.paths = DOMAIN O.staged
  /\ O.staged[t] = J.staged[f]
  /\ \A q \in DOMAIN J.staged \ {f, t} : O.staged[q] = J.staged[q]

\* The renamed item is unstaged and staged again at its new place.
LEMMA OwnIs ==
  ASSUME NEW J, Lists(J), NEW f \in DOMAIN J.staged, NEW t, f # t
  PROVE  OwnDone(J, Stage(Unstage(J, f), t, J.staged[f]), f, t)
<1> DEFINE U == Unstage(J, f)
<1>1. /\ IsEntry(U) /\ U.visible = J.visible /\ U.read = J.read \ {f}
      /\ U.wrote = DOMAIN J.staged \ {f} /\ U.paths = DOMAIN J.staged \ {f}
      /\ DOMAIN U.staged = DOMAIN J.staged \ {f}
      /\ \A q \in DOMAIN J.staged \ {f} : U.staged[q] = J.staged[q]
  BY UnstageIs DEF Lists
<1> HIDE DEF U
<1> DEFINE O == Stage(U, t, J.staged[f])
<1>2. /\ IsEntry(O) /\ O.visible = U.visible /\ O.read = U.read
      /\ O.wrote = U.wrote \cup {t} /\ O.paths = U.paths \cup {t}
      /\ DOMAIN O.staged = DOMAIN U.staged \cup {t}
      /\ O.staged[t] = J.staged[f]
      /\ \A q \in DOMAIN U.staged \ {t} : O.staged[q] = U.staged[q]
  BY <1>1, StageIs
<1> HIDE DEF O
<1>3. /\ IsEntry(O) /\ O.visible = J.visible /\ O.read = J.read \ {f}
      /\ DOMAIN O.staged = (DOMAIN J.staged \ {f}) \cup {t}
      /\ O.wrote = DOMAIN O.staged /\ O.paths = DOMAIN O.staged
      /\ O.staged[t] = J.staged[f]
      /\ \A q \in DOMAIN J.staged \ {f, t} : O.staged[q] = J.staged[q]
  BY ONLY <1>1, <1>2
<1> QED
  BY <1>3 DEF OwnDone, O, U

\* What was below f is below t, over what was there.
ChildrenDone(staged, S, f, t) ==
  LET M == {q \in DOMAIN staged : IsStrictPrefix(f, q)}
  IN  /\ DOMAIN S = (DOMAIN staged \ M) \cup {Moved(q, f, t) : q \in M}
      /\ move_members(DOMAIN staged, f, t) = DOMAIN S
      /\ \A q \in M : S[Moved(q, f, t)] = staged[q]
      /\ \A q \in DOMAIN staged \ M : ~IsStrictPrefix(t, q) => S[q] = staged[q]
      /\ \A r \in DOMAIN S :
           \/ r \in DOMAIN staged \ M /\ S[r] = staged[r]
           \/ \E q \in M : r = Moved(q, f, t) /\ S[r] = staged[q]

\* move_staged_children and move_members take the paths below f to the same places.
LEMMA ChildrenMove ==
  ASSUME NEW f \in Paths, NEW t \in Paths, ~IsStrictPrefix(f, t),
         NEW staged, DOMAIN staged \subseteq Paths
  PROVE  ChildrenDone(staged, move_staged_children(staged, f, t), f, t)
<1> DEFINE M == {q \in DOMAIN staged : IsStrictPrefix(f, q)}
           P == {Moved(q, f, t) : q \in M}
           S == move_staged_children(staged, f, t)
<1>1. {q \in DOMAIN staged : Under(q, f)} = M
  BY UnderIs
<1>2. /\ DOMAIN S = (DOMAIN staged \ M) \cup P
      /\ \A r \in P : S[r] = staged[CHOOSE q \in M : Moved(q, f, t) = r]
      /\ \A r \in DOMAIN staged \ M : r \notin P => S[r] = staged[r]
  BY <1>1, ZenonT(30) DEF move_staged_children, Drop, Restrict
<1>3. move_members(DOMAIN staged, f, t) = (DOMAIN staged \ M) \cup P
  BY <1>1 DEF move_members
<1>4. \A q \in M : Moved(q, f, t) \in Seq(STRING) /\ IsStrictPrefix(t, Moved(q, f, t))
  BY MovedBelow, PathsAre
<1>5. \A q, r \in M : Moved(q, f, t) = Moved(r, f, t) => q = r
  BY MovedBelow, PathsAre
<1>6. \A q \in M : (CHOOSE r \in M : Moved(r, f, t) = Moved(q, f, t)) = q
  BY <1>5
<1>7. \A q \in M : Moved(q, f, t) \in P
  OBVIOUS
<1>8. \A r \in P : \E q \in M : r = Moved(q, f, t)
  OBVIOUS
<1> HIDE DEF M, P, S
<1>9. \A q \in M : S[Moved(q, f, t)] = staged[q]
  BY <1>2, <1>6, <1>7
<1>10. \A q \in DOMAIN staged \ M : ~IsStrictPrefix(t, q) => S[q] = staged[q]
  BY <1>2, <1>4, <1>8
<1>11. \A r \in DOMAIN S :
         \/ r \in DOMAIN staged \ M /\ S[r] = staged[r]
         \/ \E q \in M : r = Moved(q, f, t) /\ S[r] = staged[q]
  BY <1>2, <1>8, <1>9
<1> QED
  BY <1>2, <1>3, <1>9, <1>10, <1>11, ZenonT(30) DEF ChildrenDone, M, P, S

\* Rename does what RenameDone says.
LEMMA RenameIs ==
  ASSUME NEW J, Lists(J), NEW f, NEW t, MayMove(J, f, t)
  PROVE  RenameDone(J, Rename(J, f, t), f, t)
<1> DEFINE O == Stage(Unstage(J, f), t, J.staged[f])
           K == Rename(J, f, t)
<1>1. f \in Paths /\ f \in DOMAIN J.staged /\ t \in Paths /\ f # t /\ ~IsStrictPrefix(f, t)
  BY DEF MayMove, Lists
<1>2. /\ IsEntry(O) /\ O.visible = J.visible /\ O.read = J.read \ {f}
      /\ DOMAIN O.staged = (DOMAIN J.staged \ {f}) \cup {t}
      /\ O.wrote = DOMAIN O.staged /\ O.paths = DOMAIN O.staged
      /\ O.staged[t] = J.staged[f]
      /\ \A q \in DOMAIN J.staged \ {f, t} : O.staged[q] = J.staged[q]
  <2>1. OwnDone(J, O, f, t)
    BY <1>1, OwnIs
  <2> HIDE DEF O
  <2> QED
    BY ONLY <2>1 DEF OwnDone
<1>3. K = IF J.staged[f].kind # "directory" THEN O
          ELSE [O EXCEPT !.staged = move_staged_children(O.staged, f, t),
                         !.paths = move_members(O.paths, f, t),
                         !.wrote = move_members(O.wrote, f, t),
                         !.read = move_members(O.read, f, t)]
  BY DEF Rename
<1>4. DOMAIN J.staged \subseteq Paths
  BY DEF Lists
<1> HIDE DEF O, K
<1>5. ASSUME J.staged[f].kind # "directory" PROVE RenameDone(J, K, f, t)
  <2>1. K = O
    BY ONLY <1>3, <1>5
  <2>2. \A q : Goes(J, q, f, t) = IF q = f THEN t ELSE q
    BY ONLY <1>5 DEF Goes
  <2>3. DOMAIN K.staged = {Goes(J, q, f, t) : q \in DOMAIN J.staged}
    BY ONLY <1>1, <1>2, <2>1, <2>2
  <2>4. K.read \subseteq {Goes(J, q, f, t) : q \in J.read \ {f}} /\ \A q \in J.read \ {f} : Goes(J, q, f, t) \in K.read
    BY ONLY <1>2, <2>1, <2>2
  <2>5. \A r \in DOMAIN K.staged : \E q \in DOMAIN J.staged \ {t} :
          r = Goes(J, q, f, t) /\ K.staged[r] = J.staged[q]
    BY ONLY <1>1, <1>2, <2>1, <2>2
  <2>6. /\ IsEntry(K) /\ K.visible = J.visible
        /\ K.wrote = DOMAIN K.staged /\ K.paths = DOMAIN K.staged /\ K.staged[t] = J.staged[f]
    BY ONLY <1>2, <2>1
  <2>7. \A q \in DOMAIN J.staged \ {f, t} :
          Goes(J, q, f, t) = q /\ ~IsStrictPrefix(t, q) => K.staged[q] = J.staged[q]
    BY ONLY <1>2, <2>1
  <2>8. \A q \in DOMAIN J.staged : J.staged[f].kind = "directory" /\ IsStrictPrefix(f, q) =>
          K.staged[Moved(q, f, t)] = J.staged[q]
    BY ONLY <1>5
  <2> QED
    BY ONLY <2>3, <2>4, <2>5, <2>6, <2>7, <2>8 DEF RenameDone
<1>6. ASSUME J.staged[f].kind = "directory" PROVE RenameDone(J, K, f, t)
  <2> DEFINE S == move_staged_children(O.staged, f, t)
             M == {q \in DOMAIN O.staged : IsStrictPrefix(f, q)}
             R == move_members(O.read, f, t)
  <2>1. /\ DOMAIN S = (DOMAIN O.staged \ M) \cup {Moved(q, f, t) : q \in M}
        /\ move_members(DOMAIN O.staged, f, t) = DOMAIN S
        /\ \A q \in M : S[Moved(q, f, t)] = O.staged[q]
        /\ \A q \in DOMAIN O.staged \ M : ~IsStrictPrefix(t, q) => S[q] = O.staged[q]
        /\ \A r \in DOMAIN S :
             \/ r \in DOMAIN O.staged \ M /\ S[r] = O.staged[r]
             \/ \E q \in M : r = Moved(q, f, t) /\ S[r] = O.staged[q]
    <3>1. DOMAIN O.staged \subseteq Paths
      BY ONLY <1>1, <1>2, <1>4
    <3>2. ChildrenDone(O.staged, S, f, t)
      BY ONLY <1>1, <3>1, ChildrenMove
    <3> HIDE DEF S
    <3> QED
      BY ONLY <3>2 DEF ChildrenDone
  <2>2. \A q : Goes(J, q, f, t) = IF q = f THEN t ELSE IF Under(q, f) THEN Moved(q, f, t) ELSE q
    BY ONLY <1>6 DEF Goes
  <2>3. \A q : Under(q, f) <=> q \in Paths /\ IsStrictPrefix(f, q)
    BY <1>1, UnderIs
  <2>4. ~IsStrictPrefix(f, f) /\ ~IsStrictPrefix(t, t)
    BY <1>1, PathsAre, PrefixAsym
  <2>5. M = {q \in DOMAIN J.staged : IsStrictPrefix(f, q)} /\ f \notin M /\ t \notin M
    BY ONLY <1>1, <1>2, <2>4
  <2>6. R = {Goes(J, q, f, t) : q \in J.read \ {f}}
    BY ONLY <1>2, <2>2 DEF move_members
  <2>7. K = [visible |-> J.visible, read |-> R, wrote |-> DOMAIN S, paths |-> DOMAIN S, staged |-> S]
    BY ONLY <1>2, <1>3, <1>6, <2>1, ZenonT(30) DEF IsEntry
  <2> HIDE DEF S, M, R
  <2>8. IsEntry(K) /\ K.visible = J.visible /\ K.read = R /\ K.wrote = DOMAIN S /\ K.paths = DOMAIN S /\ K.staged = S
    BY ONLY <2>7 DEF IsEntry
  <2>9. DOMAIN S = {Goes(J, q, f, t) : q \in DOMAIN J.staged}
    BY ONLY <1>1, <1>2, <1>4, <2>1, <2>2, <2>3, <2>5
  <2>10. S[t] = J.staged[f]
    BY ONLY <1>2, <2>1, <2>4, <2>5
  <2>11. \A q \in DOMAIN J.staged : IsStrictPrefix(f, q) => S[Moved(q, f, t)] = J.staged[q]
    BY ONLY <1>2, <2>1, <2>5
  <2>12. \A q \in DOMAIN J.staged \ {f, t} :
           Goes(J, q, f, t) = q /\ ~IsStrictPrefix(t, q) => S[q] = J.staged[q]
    <3> SUFFICES ASSUME NEW q \in DOMAIN J.staged \ {f, t}, Goes(J, q, f, t) = q, ~IsStrictPrefix(t, q)
                 PROVE  S[q] = J.staged[q]
      OBVIOUS
    <3>1. CASE q \in M
      BY ONLY <1>2, <1>4, <2>1, <2>2, <2>3, <2>5, <3>1, q \in DOMAIN J.staged \ {f, t}, Goes(J, q, f, t) = q
    <3>2. CASE q \notin M
      BY ONLY <1>2, <2>1, <3>2, q \in DOMAIN J.staged \ {f, t}, ~IsStrictPrefix(t, q)
    <3> QED
      BY <3>1, <3>2
  <2>13. \A r \in DOMAIN S : \E q \in DOMAIN J.staged \ {t} : r = Goes(J, q, f, t) /\ S[r] = J.staged[q]
    <3> TAKE r \in DOMAIN S
    <3>1. CASE r = t
      BY ONLY <1>1, <2>2, <2>10, <3>1
    <3>2. CASE r # t /\ r \in DOMAIN O.staged \ M /\ S[r] = O.staged[r]
      <4>1. r \in DOMAIN J.staged \ {f, t} /\ ~Under(r, f)
        BY ONLY <1>2, <1>4, <2>3, <2>5, <3>2
      <4> QED
        BY ONLY <1>2, <2>2, <3>2, <4>1
    <3>3. CASE \E q \in M : r = Moved(q, f, t) /\ S[r] = O.staged[q]
      <4> PICK q \in M : r = Moved(q, f, t) /\ S[r] = O.staged[q]
        BY <3>3
      <4>1. q \in DOMAIN J.staged \ {f, t} /\ Under(q, f)
        BY ONLY <1>4, <2>3, <2>5, q \in M
      <4> QED
        BY ONLY <1>2, <2>2, <4>1, r = Moved(q, f, t), S[r] = O.staged[q]
    <3> QED
      BY ONLY <2>1, <3>1, <3>2, <3>3
  <2>14. /\ IsEntry(K) /\ K.visible = J.visible
         /\ K.wrote = DOMAIN K.staged /\ K.paths = DOMAIN K.staged
         /\ K.read \subseteq {Goes(J, q, f, t) : q \in J.read \ {f}}
         /\ \A q \in J.read \ {f} : Goes(J, q, f, t) \in K.read
    BY ONLY <2>6, <2>8
  <2>15. K.staged = S
    BY ONLY <2>8
  <2>16. /\ DOMAIN K.staged = {Goes(J, q, f, t) : q \in DOMAIN J.staged}
         /\ K.staged[t] = J.staged[f]
         /\ \A q \in DOMAIN J.staged : J.staged[f].kind = "directory" /\ IsStrictPrefix(f, q) =>
              K.staged[Moved(q, f, t)] = J.staged[q]
    BY ONLY <2>9, <2>10, <2>11, <2>15
  <2>17. \A q \in DOMAIN J.staged \ {f, t} :
           Goes(J, q, f, t) = q /\ ~IsStrictPrefix(t, q) => K.staged[q] = J.staged[q]
    BY ONLY <2>12, <2>15
  <2>18. \A r \in DOMAIN K.staged : \E q \in DOMAIN J.staged \ {t} :
           r = Goes(J, q, f, t) /\ K.staged[r] = J.staged[q]
    BY ONLY <2>13, <2>15
  <2> QED
    BY ONLY <2>14, <2>16, <2>17, <2>18 DEF RenameDone
<1> QED
  BY <1>5, <1>6 DEF K

-----------------------------------------------------------------------------
(* What an operation keeps *)

\* No operation changes what is visible.
LEMMA SameVisible ==
  ASSUME NEW J, NEW K, K.visible = J.visible
  PROVE  /\ \A p : is_visible(K, p) <=> is_visible(J, p)
         /\ Entries(J) => Entries(K)
  BY DEF is_visible, Entries

\* An item that gets a new name.
LEMMA StageKeeps ==
  ASSUME NEW J, Lists(J), NEW p \in Paths, NEW item, item.kind \in ItemKinds
  PROVE  /\ Lists(Stage(J, p, item))
         /\ Apart(J) /\ ~is_visible(J, p) => Apart(Stage(J, p, item))
         /\ ReadKnown(J) => ReadKnown(Stage(J, p, item))
<1> DEFINE K == Stage(J, p, item)
<1>1. /\ IsEntry(K) /\ K.visible = J.visible /\ K.read = J.read
      /\ K.wrote = J.wrote \cup {p} /\ K.paths = J.paths \cup {p}
      /\ DOMAIN K.staged = DOMAIN J.staged \cup {p}
      /\ K.staged[p] = item
      /\ \A q \in DOMAIN J.staged \ {p} : K.staged[q] = J.staged[q]
  BY StageIs DEF Lists
<1>2. \A q : is_visible(K, q) <=> is_visible(J, q)
  BY <1>1, SameVisible
<1> HIDE DEF K
<1>3. Lists(K)
  BY <1>1 DEF Lists
<1>4. Apart(J) /\ ~is_visible(J, p) => Apart(K)
  BY <1>1, <1>2 DEF Apart
<1>5. ReadKnown(J) => ReadKnown(K)
  BY <1>1 DEF ReadKnown
<1> QED
  BY <1>3, <1>4, <1>5 DEF K

\* A new name takes no directory away.
LEMMA StageWalked ==
  ASSUME NEW J, Lists(J), NEW p, NEW item, ~IsDir(J, p), NEW q, Walked(J, q)
  PROVE  Walked(Stage(J, p, item), q)
<1> DEFINE K == Stage(J, p, item)
<1>1. /\ K.visible = J.visible /\ DOMAIN K.staged = DOMAIN J.staged \cup {p}
      /\ \A r \in DOMAIN J.staged \ {p} : K.staged[r] = J.staged[r]
  BY StageIs DEF Lists
<1> HIDE DEF K
<1>2. \A d : IsDir(J, d) => IsDir(K, d)
  BY <1>1 DEF IsDir
<1> QED
  BY <1>2 DEF Walked, K

\* A new name that can be walked to keeps the view a tree.
LEMMA StageTree ==
  ASSUME NEW J, Lists(J), Tree(J), NEW p, NEW item, ~IsDir(J, p), Walked(J, p)
  PROVE  Tree(Stage(J, p, item))
<1> DEFINE K == Stage(J, p, item)
<1>1. K.visible = J.visible /\ DOMAIN K.staged = DOMAIN J.staged \cup {p}
  BY StageIs DEF Lists
<1>2. \A q : Walked(J, q) => Walked(K, q)
  BY StageWalked
<1> HIDE DEF K
<1>3. Tree(K)
  BY <1>1, <1>2 DEF Tree, InView
<1> QED
  BY <1>3 DEF K

\* An item that loses its name.
LEMMA UnstageKeeps ==
  ASSUME NEW J, Lists(J), NEW p
  PROVE  /\ Lists(Unstage(J, p))
         /\ Apart(J) => Apart(Unstage(J, p))
         /\ ReadKnown(J) => ReadKnown(Unstage(J, p))
         /\ p \notin DOMAIN J.visible => J.read \cap DOMAIN J.visible \subseteq Unstage(J, p).read
         /\ \A q : Walked(J, q) /\ ~IsStrictPrefix(p, q) => Walked(Unstage(J, p), q)
         /\ Tree(J) /\ (\A q \in InView(J) : ~IsStrictPrefix(p, q)) => Tree(Unstage(J, p))
<1> DEFINE K == Unstage(J, p)
<1>1. /\ IsEntry(K) /\ K.visible = J.visible /\ K.read = J.read \ {p}
      /\ K.wrote = J.wrote \ {p} /\ K.paths = J.paths \ {p}
      /\ DOMAIN K.staged = DOMAIN J.staged \ {p}
      /\ \A q \in DOMAIN J.staged \ {p} : K.staged[q] = J.staged[q]
  BY UnstageIs DEF Lists
<1>2. \A q : is_visible(K, q) <=> is_visible(J, q)
  BY <1>1, SameVisible
<1> HIDE DEF K
<1>3. Lists(K)
  BY <1>1 DEF Lists
<1>4. Apart(J) => Apart(K)
  BY <1>1, <1>2 DEF Apart
<1>5. ReadKnown(J) => ReadKnown(K)
  BY <1>1 DEF ReadKnown
<1>6. \A q : Walked(J, q) /\ ~IsStrictPrefix(p, q) => Walked(K, q)
  <2>1. \A d : IsDir(J, d) /\ d # p => IsDir(K, d)
    BY <1>1 DEF IsDir
  <2> QED
    BY <2>1 DEF Walked
<1>7. ASSUME Tree(J), \A q \in InView(J) : ~IsStrictPrefix(p, q)
      PROVE  Tree(K)
  <2>1. InView(K) \subseteq InView(J)
    BY <1>1 DEF InView
  <2> QED
    BY <1>6, <1>7, <2>1 DEF Tree
<1>8. p \notin DOMAIN J.visible => J.read \cap DOMAIN J.visible \subseteq K.read
  BY <1>1
<1> QED
  BY <1>3, <1>4, <1>5, <1>6, <1>7, <1>8 DEF K

\* A rename keeps the lists together, and apart from what is visible.
LEMMA RenameKeeps ==
  ASSUME NEW J, Lists(J), NEW f, NEW t, MayMove(J, f, t)
  PROVE  LET K == Rename(J, f, t) IN
         /\ Lists(K) /\ K.visible = J.visible
         /\ Entries(J) /\ Apart(J) /\ ~is_visible(J, t) => Apart(K)
         /\ Entries(J) /\ Apart(J) /\ ReadKnown(J) => ReadKnown(K)
         /\ Entries(J) /\ Apart(J) => J.read \cap DOMAIN J.visible \subseteq K.read
<1> DEFINE K == Rename(J, f, t)
<1>1. RenameDone(J, K, f, t)
  BY RenameIs
<1> HIDE DEF K
<1>2. /\ IsEntry(K) /\ K.visible = J.visible
      /\ DOMAIN K.staged = {Goes(J, q, f, t) : q \in DOMAIN J.staged}
      /\ K.wrote = DOMAIN K.staged /\ K.paths = DOMAIN K.staged
      /\ K.read \subseteq {Goes(J, q, f, t) : q \in J.read \ {f}}
      /\ \A q \in J.read \ {f} : Goes(J, q, f, t) \in K.read
      /\ \A r \in DOMAIN K.staged : \E q \in DOMAIN J.staged \ {t} :
           r = Goes(J, q, f, t) /\ K.staged[r] = J.staged[q]
  BY ONLY <1>1 DEF RenameDone
<1>3. f \in DOMAIN J.staged /\ f \in Paths /\ t \in Paths /\ DOMAIN J.staged \subseteq Paths
  BY DEF MayMove, Lists
<1>4. \A q : Under(q, f) <=> q \in Paths /\ IsStrictPrefix(f, q)
  BY <1>3, UnderIs
<1>5. \A q \in DOMAIN J.staged :
        \/ Goes(J, q, f, t) = t
        \/ Goes(J, q, f, t) \in Paths /\ IsStrictPrefix(t, Goes(J, q, f, t))
        \/ Goes(J, q, f, t) = q
  <2> TAKE q \in DOMAIN J.staged
  <2>1. CASE q # f /\ J.staged[f].kind = "directory" /\ Under(q, f)
    <3>1. Goes(J, q, f, t) = Moved(q, f, t) /\ IsStrictPrefix(f, q)
      BY <1>4, <2>1 DEF Goes
    <3>2. Moved(q, f, t) \in Paths
      BY <2>1, <3>1 DEF MayMove
    <3>3. IsStrictPrefix(t, Moved(q, f, t))
      BY <1>3, <3>1, MovedBelow, PathsAre
    <3> QED
      BY <3>1, <3>2, <3>3
  <2>2. CASE ~(q # f /\ J.staged[f].kind = "directory" /\ Under(q, f))
    BY <2>2 DEF Goes
  <2> QED
    BY <2>1, <2>2
<1>6. Lists(K)
  <2>1. DOMAIN K.staged \subseteq Paths
    BY ONLY <1>2, <1>3, <1>5
  <2>2. \A p \in DOMAIN K.staged : K.staged[p].kind \in ItemKinds
    BY ONLY <1>2, Lists(J) DEF Lists
  <2> QED
    BY ONLY <1>2, <2>1, <2>2 DEF Lists
<1>7. ASSUME Entries(J), Apart(J), ~is_visible(J, t)
      PROVE  Apart(K)
  <2>1. \A r \in Paths : IsStrictPrefix(t, r) => ~is_visible(J, r)
    BY <1>3, <1>7, NotBelow, VisibleIs
  <2>2. \A r : is_visible(K, r) <=> is_visible(J, r)
    BY <1>2, SameVisible
  <2> QED
    BY ONLY <1>2, <1>5, <1>7, <2>1, <2>2 DEF Apart
<1>8. ASSUME Entries(J), Apart(J)
      PROVE  (ReadKnown(J) => ReadKnown(K)) /\ J.read \cap DOMAIN J.visible \subseteq K.read
  <2>1. \A q \in DOMAIN J.visible : q # f /\ ~IsStrictPrefix(f, q)
    BY <1>3, <1>8, NotBelow DEF Apart
  <2>2. \A q \in DOMAIN J.visible : Goes(J, q, f, t) = q
    BY <1>4, <2>1 DEF Goes
  <2>3. ReadKnown(J) => ReadKnown(K)
    BY ONLY <1>2, <2>2 DEF ReadKnown
  <2>4. J.read \cap DOMAIN J.visible \subseteq K.read
    BY ONLY <1>2, <2>1, <2>2
  <2> QED
    BY <2>3, <2>4
<1> QED
  BY <1>2, <1>6, <1>7, <1>8, ZenonT(30) DEF K

\* A path the kernel can walk to can be walked to in its new place, unless the
\* rename put something else above it.
LEMMA RenameWalked ==
  ASSUME NEW J, Lists(J), Entries(J), Apart(J), NEW f, NEW t, MayMove(J, f, t),
         ~is_visible(J, t), Walked(J, t), NEW q \in Paths, Walked(J, q)
  PROVE  LET K == Rename(J, f, t) IN
         /\ Walked(K, t)
         /\ IsStrictPrefix(f, q) => J.staged[f].kind = "directory" /\ Walked(K, Moved(q, f, t))
         /\ ~IsStrictPrefix(f, q) /\ ~IsStrictPrefix(t, q) => Walked(K, q)
<1> DEFINE K == Rename(J, f, t)
<1>1. RenameDone(J, K, f, t)
  BY RenameIs
<1> HIDE DEF K
<1>2. /\ K.visible = J.visible /\ K.staged[t] = J.staged[f]
      /\ DOMAIN K.staged = {Goes(J, r, f, t) : r \in DOMAIN J.staged}
      /\ \A r \in DOMAIN J.staged : J.staged[f].kind = "directory" /\ IsStrictPrefix(f, r) =>
           K.staged[Moved(r, f, t)] = J.staged[r]
      /\ \A r \in DOMAIN J.staged \ {f, t} :
           Goes(J, r, f, t) = r /\ ~IsStrictPrefix(t, r) => K.staged[r] = J.staged[r]
  BY ONLY <1>1 DEF RenameDone
<1>3. /\ f \in DOMAIN J.staged /\ f \in Paths /\ t \in Paths /\ DOMAIN J.staged \subseteq Paths
      /\ f # t /\ ~IsStrictPrefix(f, t)
      /\ f \in Seq(STRING) /\ t \in Seq(STRING) /\ q \in Seq(STRING)
  BY PathsAre DEF MayMove, Lists
<1>4. \A r : Under(r, f) <=> r \in Paths /\ IsStrictPrefix(f, r)
  BY <1>3, UnderIs
<1>5. \A r \in DOMAIN J.visible : r # f /\ ~IsStrictPrefix(f, r)
  BY <1>3, NotBelow DEF Apart
<1>6. \A a, b, c \in Paths : IsStrictPrefix(a, b) /\ IsStrictPrefix(b, c) => IsStrictPrefix(a, c)
  BY PathsAre, PrefixTrans
<1>7. \A a, b \in Paths : IsStrictPrefix(a, b) => a # b /\ ~IsStrictPrefix(b, a)
  BY PathsAre, PrefixAsym
<1>8. ASSUME NEW d \in Paths, IsDir(J, d), d # f, ~IsStrictPrefix(f, d), d # t, ~IsStrictPrefix(t, d)
      PROVE  IsDir(K, d)
  <2>1. Goes(J, d, f, t) = d
    BY <1>4, <1>8 DEF Goes
  <2> QED
    BY <1>2, <1>8, <2>1 DEF IsDir
<1>9. ASSUME NEW d \in Paths, IsStrictPrefix(d, t)
      PROVE  IsDir(K, d)
  <2>1. IsDir(J, d)
    BY <1>9 DEF Walked
  <2>2. d # f /\ ~IsStrictPrefix(f, d) /\ d # t /\ ~IsStrictPrefix(t, d)
    BY <1>3, <1>6, <1>7, <1>9
  <2> QED
    BY <1>8, <2>1, <2>2
<1>10. Walked(K, t)
  BY <1>9 DEF Walked
<1>11. ASSUME ~IsStrictPrefix(f, q), ~IsStrictPrefix(t, q)
       PROVE  Walked(K, q)
  <2> SUFFICES ASSUME NEW d \in Paths, IsStrictPrefix(d, q) PROVE IsDir(K, d)
    BY DEF Walked
  <2>1. IsDir(J, d)
    BY DEF Walked
  <2>2. d # f /\ ~IsStrictPrefix(f, d) /\ d # t /\ ~IsStrictPrefix(t, d)
    BY <1>3, <1>6, <1>11
  <2> QED
    BY <1>8, <2>1, <2>2
<1>12. ASSUME IsStrictPrefix(f, q)
       PROVE  J.staged[f].kind = "directory" /\ Walked(K, Moved(q, f, t))
  <2>1. J.staged[f].kind = "directory"
    BY <1>3, <1>5, <1>12 DEF Walked, IsDir
  <2> SUFFICES ASSUME NEW d \in Paths, IsStrictPrefix(d, Moved(q, f, t)) PROVE IsDir(K, d)
    BY <2>1 DEF Walked
  <2>2. CASE IsStrictPrefix(d, t)
    BY <1>9, <2>2
  <2>3. CASE d = t
    <3>1. t \in DOMAIN K.staged
      BY <1>2, <1>3, ZenonT(30) DEF Goes
    <3> QED
      BY <1>2, <2>1, <2>3, <3>1 DEF IsDir
  <2>4. CASE d # t /\ ~IsStrictPrefix(d, t)
    <3>1. d \in Seq(STRING)
      BY PathsAre
    <3> PICK n \in 1..Len(q) :
               /\ SubSeq(q, 1, n) \in Seq(STRING) /\ IsStrictPrefix(f, SubSeq(q, 1, n))
               /\ IsStrictPrefix(SubSeq(q, 1, n), q) /\ d = Moved(SubSeq(q, 1, n), f, t)
      BY <1>3, <1>12, <2>4, <3>1, AboveMoved
    <3> DEFINE r == SubSeq(q, 1, n)
    <3>2. r \in Seq(STRING) /\ IsStrictPrefix(f, r) /\ IsStrictPrefix(r, q) /\ d = Moved(r, f, t)
      OBVIOUS
    <3> HIDE DEF r
    <3>3. r # << >>
      BY <1>3, <3>2, EmptySeq, PrefixIs
    <3>4. r \in Paths
      BY <1>3, <3>2, <3>3, PathsAre
    <3>5. r \in DOMAIN J.staged /\ J.staged[r].kind = "directory"
      BY <1>5, <3>2, <3>4 DEF Walked, IsDir
    <3>6. d \in DOMAIN K.staged
      <4>1. r # f
        BY <1>3, <1>7, <3>2
      <4>2. Goes(J, r, f, t) = d
        BY <1>4, <2>1, <3>2, <3>4, <4>1 DEF Goes
      <4> QED
        BY <1>2, <3>5, <4>2, ZenonT(30)
    <3> QED
      BY <1>2, <2>1, <3>2, <3>5, <3>6, ZenonT(30) DEF IsDir
  <2> QED
    BY <2>2, <2>3, <2>4
<1> QED
  BY <1>10, <1>11, <1>12, ZenonT(30) DEF K

\* A rename onto a name with nothing below it keeps the view a tree.
LEMMA RenameTree ==
  ASSUME NEW J, Lists(J), Entries(J), Apart(J), Tree(J), NEW f, NEW t, MayMove(J, f, t),
         ~is_visible(J, t), Walked(J, t), \A q \in DOMAIN J.staged : ~IsStrictPrefix(t, q)
  PROVE  Tree(Rename(J, f, t))
<1> DEFINE K == Rename(J, f, t)
<1>1. RenameDone(J, K, f, t)
  BY RenameIs
<1>2. \A q \in Paths : Walked(J, q) =>
         /\ Walked(K, t)
         /\ IsStrictPrefix(f, q) => J.staged[f].kind = "directory" /\ Walked(K, Moved(q, f, t))
         /\ ~IsStrictPrefix(f, q) /\ ~IsStrictPrefix(t, q) => Walked(K, q)
  BY RenameWalked, ZenonT(30)
<1> HIDE DEF K
<1>3. K.visible = J.visible /\ DOMAIN K.staged = {Goes(J, q, f, t) : q \in DOMAIN J.staged}
  BY ONLY <1>1 DEF RenameDone
<1>4. f \in DOMAIN J.staged /\ f \in Paths /\ t \in Paths /\ DOMAIN J.staged \subseteq Paths
  BY DEF MayMove, Lists
<1>5. \A q : Under(q, f) <=> q \in Paths /\ IsStrictPrefix(f, q)
  BY <1>4, UnderIs
<1>6. \A q \in DOMAIN J.visible : ~IsStrictPrefix(f, q) /\ ~IsStrictPrefix(t, q) /\ q \in Paths
  BY <1>4, NotBelow DEF Apart, Entries
<1>7. \A q \in DOMAIN J.visible : Walked(K, q)
  BY <1>2, <1>6 DEF Tree, InView
<1>8. ASSUME NEW r \in DOMAIN K.staged
      PROVE  Walked(K, r)
  <2> PICK q \in DOMAIN J.staged : r = Goes(J, q, f, t)
    BY <1>3
  <2>1. Walked(J, q) /\ q \in Paths
    BY <1>4 DEF Tree, InView
  <2>2. CASE q = f
    BY <1>2, <2>1, <2>2 DEF Goes
  <2>3. CASE q # f /\ IsStrictPrefix(f, q)
    <3>1. r = Moved(q, f, t)
      BY <1>2, <1>5, <2>1, <2>3, ZenonT(30) DEF Goes
    <3> QED
      BY <1>2, <2>1, <2>3, <3>1
  <2>4. CASE q # f /\ ~IsStrictPrefix(f, q)
    <3>1. r = q
      BY <1>5, <2>4, ZenonT(30) DEF Goes
    <3> QED
      BY <1>2, <2>1, <2>4, <3>1
  <2> QED
    BY <2>2, <2>3, <2>4
<1>9. Tree(K)
  BY <1>3, <1>7, <1>8, ZenonT(30) DEF Tree, InView
<1> QED
  BY <1>9 DEF K

Disjoint(J) ==
  \A p, q \in DOMAIN J.staged : p = q \/ Backing(J.staged[p]) \cap Backing(J.staged[q]) = {}

\* Job entry J has backing object n.
Has(J, n) == \E q \in DOMAIN J.staged : n \in Backing(J.staged[q])

\* Items keep their backing objects when they are renamed, and what t had is gone.
LEMMA RenameBacks ==
  ASSUME NEW J, Lists(J), Disjoint(J), NEW f, NEW t, MayMove(J, f, t)
  PROVE  LET K == Rename(J, f, t) IN
         /\ Disjoint(K)
         /\ \A n : Has(K, n) => Has(J, n) /\ (t \in DOMAIN J.staged => n \notin Backing(J.staged[t]))
<1> DEFINE K == Rename(J, f, t)
<1>1. RenameDone(J, K, f, t)
  BY RenameIs
<1> HIDE DEF K
<1>2. \A r \in DOMAIN K.staged : \E q \in DOMAIN J.staged \ {t} :
        r = Goes(J, q, f, t) /\ K.staged[r] = J.staged[q]
  BY ONLY <1>1 DEF RenameDone
<1>3. Disjoint(K)
  BY ONLY <1>2, Disjoint(J) DEF Disjoint
<1>4. \A n : Has(K, n) => Has(J, n) /\ (t \in DOMAIN J.staged => n \notin Backing(J.staged[t]))
  BY ONLY <1>2, Disjoint(J) DEF Disjoint, Has
<1> QED
  BY <1>3, <1>4 DEF K

\* A descriptor follows the file it is of.
LEMMA RenameNamed ==
  ASSUME NEW J, Lists(J), Entries(J), Apart(J), NEW f, NEW t, MayMove(J, f, t),
         ~is_visible(J, t), Walked(J, t),
         NEW x, x = [job |-> x.job, path |-> x.path, what |-> x.what], NamedIn(J, x)
  PROVE  LET K == Rename(J, f, t) IN
         /\ x.path = f => NamedIn(K, [x EXCEPT !.path = t])
         /\ IsStrictPrefix(f, x.path) => NamedIn(K, [x EXCEPT !.path = Moved(x.path, f, t)])
         /\ x.path \notin {f, t} /\ ~IsStrictPrefix(f, x.path) /\ ~IsStrictPrefix(t, x.path)
              => NamedIn(K, x)
<1> DEFINE K == Rename(J, f, t)
           p == x.path
           o == x.what
<1>1. RenameDone(J, K, f, t)
  BY RenameIs
<1>2. /\ f \in DOMAIN J.staged /\ f \in Paths /\ t \in Paths
      /\ DOMAIN J.staged \subseteq Paths /\ DOMAIN J.visible \subseteq Paths
  BY DEF MayMove, Lists, Entries
<1>3. /\ Walked(J, p)
      /\ \/ o = Blob /\ p \in DOMAIN J.visible
         \/ o # Blob /\ p \in DOMAIN J.staged /\ J.staged[p].kind = "file"
  BY DEF NamedIn
<1>4. p \in Paths
  BY <1>2, <1>3
<1>5. /\ Walked(K, t)
      /\ IsStrictPrefix(f, p) => J.staged[f].kind = "directory" /\ Walked(K, Moved(p, f, t))
      /\ ~IsStrictPrefix(f, p) /\ ~IsStrictPrefix(t, p) => Walked(K, p)
  BY <1>3, <1>4, RenameWalked
<1>6. \A q \in DOMAIN J.visible : q # f /\ ~IsStrictPrefix(f, q)
  BY <1>2, NotBelow DEF Apart
<1>7. Under(p, f) <=> IsStrictPrefix(f, p)
  BY <1>2, <1>4, UnderIs
<1> HIDE DEF K, p, o
<1>8. /\ K.visible = J.visible /\ K.staged[t] = J.staged[f]
      /\ \A q \in DOMAIN J.staged : Goes(J, q, f, t) \in DOMAIN K.staged
      /\ J.staged[f].kind = "directory" /\ IsStrictPrefix(f, p) /\ p \in DOMAIN J.staged =>
           K.staged[Moved(p, f, t)] = J.staged[p]
      /\ p \in DOMAIN J.staged \ {f, t} /\ Goes(J, p, f, t) = p /\ ~IsStrictPrefix(t, p) =>
           K.staged[p] = J.staged[p]
  BY ONLY <1>1, ZenonT(30) DEF RenameDone
<1>9. \A q : LET y == [job |-> x.job, path |-> q, what |-> o] IN y.path = q /\ y.what = o
  OBVIOUS
<1>10. \A q : [x EXCEPT !.path = q] = [job |-> x.job, path |-> q, what |-> o]
  BY DEF o
<1>11. x = [job |-> x.job, path |-> p, what |-> o]
  BY DEF p, o
<1>12. \A q : NamedIn(K, [job |-> x.job, path |-> q, what |-> o]) <=>
         /\ Walked(K, q)
         /\ \/ o = Blob /\ q \in DOMAIN K.visible
            \/ o # Blob /\ q \in DOMAIN K.staged /\ K.staged[q].kind = "file"
  BY ONLY <1>9 DEF NamedIn
<1>13. CASE p = f
  <2>1. Goes(J, f, f, t) = t /\ t \in DOMAIN K.staged
    BY ONLY <1>2, <1>8 DEF Goes
  <2>2. NamedIn(K, [job |-> x.job, path |-> t, what |-> o])
    BY ONLY <1>3, <1>5, <1>6, <1>8, <1>12, <1>13, <2>1, ZenonT(30)
  <2>3. ~IsStrictPrefix(f, p)
    BY <1>2, <1>13, PathsAre, PrefixAsym
  <2> QED
    BY ONLY <1>10, <1>13, <2>2, <2>3 DEF p, K
<1>14. CASE IsStrictPrefix(f, p) /\ p # f
  <2>1. Goes(J, p, f, t) = Moved(p, f, t)
    BY ONLY <1>5, <1>7, <1>14, ZenonT(30) DEF Goes
  <2>2. NamedIn(K, [job |-> x.job, path |-> Moved(p, f, t), what |-> o])
    BY ONLY <1>3, <1>5, <1>6, <1>8, <1>12, <1>14, <2>1, ZenonT(30)
  <2> QED
    BY ONLY <1>10, <1>14, <2>2 DEF p, K
<1>15. CASE p \notin {f, t} /\ ~IsStrictPrefix(f, p) /\ ~IsStrictPrefix(t, p)
  <2>1. Goes(J, p, f, t) = p
    BY ONLY <1>7, <1>15 DEF Goes
  <2>2. NamedIn(K, [job |-> x.job, path |-> p, what |-> o])
    BY ONLY <1>3, <1>5, <1>8, <1>12, <1>15, <2>1, ZenonT(30)
  <2> QED
    BY ONLY <1>11, <1>15, <2>2 DEF p, K
<1> QED
  BY ONLY <1>13, <1>14, <1>15 DEF p, K

-----------------------------------------------------------------------------
(* What the kernel finds *)

\* The entry of a job that lives.
LEMMA RunningIs ==
  ASSUME ViewInv, NEW j \in Job, Running(j)
  PROVE  /\ Lists(job[j]) /\ Entries(job[j]) /\ Apart(job[j]) /\ ReadKnown(job[j]) /\ Disjoint(job[j])
         /\ ~merged[j] => Tree(job[j])
<1>1. Lists(job[j]) /\ Shown(j) /\ Seen(j) /\ \A p \in DOMAIN job[j].staged : Sole(j, p)
  BY DEF ViewInv
<1>2. job[j].visible = Parse(Input[j])
  BY <1>1 DEF Shown
<1>3. Entries(job[j])
  BY <1>2, ParseIsClosed
<1>4. Disjoint(job[j])
  BY <1>1 DEF Disjoint, Sole
<1> QED
  BY <1>1, <1>3, <1>4, ZenonT(30) DEF Seen

\* What getattr answers.
LEMMA GetattrIs ==
  ASSUME ViewInv, NEW j \in Job, Running(j), NEW p \in Paths
  PROVE  getattr(job[j], p) =
           IF p \in DOMAIN job[j].staged
           THEN IF Backing(job[j].staged[p]) \subseteq disk THEN job[j].staged[p].kind ELSE "ENOENT"
           ELSE IF p \in DOMAIN job[j].visible THEN job[j].visible[p] ELSE "ENOENT"
<1> DEFINE J == job[j]
<1>1. Lists(J) /\ Entries(J)
  BY RunningIs, ZenonT(30)
<1>3. p # << >>
  BY PathsAre
<1>4. is_visible(J, p) <=> p \in DOMAIN J.visible
  BY <1>1, VisibleIs
<1>5. is_readable(J, p) <=> p \in DOMAIN J.visible \/ p \in DOMAIN J.staged
  BY <1>1, <1>4, ZenonT(30) DEF is_readable, is_writeable, Lists
<1> HIDE DEF J
<1>6. CASE p \in DOMAIN J.staged
  BY <1>3, <1>5, <1>6 DEF getattr, J
<1>7. CASE p \notin DOMAIN J.staged /\ is_readable(J, p)
  BY <1>3, <1>5, <1>7 DEF getattr, J
<1>8. CASE p \notin DOMAIN J.staged /\ ~is_readable(J, p)
  BY <1>3, <1>5, <1>8 DEF getattr, J
<1> QED
  BY <1>6, <1>7, <1>8, ZenonT(30)

\* The kernel finds what is in the view, and directories as directories; until
\* the job has reported it finds all of the view.
LEMMA ExistsIs ==
  ASSUME ViewInv, NEW j \in Job, Running(j), NEW p \in Paths
  PROVE  /\ Exists(job[j], p) => p \in InView(job[j])
         /\ phase[j] = "running" /\ p \in InView(job[j]) => Exists(job[j], p)
         /\ ~Exists(job[j], p) => p \notin DOMAIN job[j].visible /\ ~IsDir(job[j], p)
         /\ getattr(job[j], p) = "directory" <=> IsDir(job[j], p)
<1> DEFINE J == job[j]
<1>1. getattr(J, p) = IF p \in DOMAIN J.staged
                      THEN IF Backing(J.staged[p]) \subseteq disk THEN J.staged[p].kind ELSE "ENOENT"
                      ELSE IF p \in DOMAIN J.visible THEN J.visible[p] ELSE "ENOENT"
  BY GetattrIs
<1>2. Lists(J) /\ Entries(J) /\ Apart(J)
  BY RunningIs
<1>3. p \in DOMAIN J.staged => p \notin DOMAIN J.visible
  BY <1>2, VisibleIs DEF Apart
<1>4. p \in DOMAIN J.staged => J.staged[p].kind \in ItemKinds
  BY <1>2 DEF Lists
<1>5. p \in DOMAIN J.visible => J.visible[p] \in {"file", "symlink", "directory"}
  BY <1>2 DEF Entries
<1>6. phase[j] = "running" /\ p \in DOMAIN J.staged => Backing(J.staged[p]) \subseteq disk
  BY DEF ViewInv, Kept
<1>7. J.staged[p].kind = "directory" => Backing(J.staged[p]) = {}
  BY DEF Backing
<1> HIDE DEF J
<1>8. (Exists(J, p) => p \in InView(J)) /\ (phase[j] = "running" /\ p \in InView(J) => Exists(J, p))
  BY <1>1, <1>4, <1>5, <1>6 DEF Exists, InView, ItemKinds
<1>9. ~Exists(J, p) => p \notin DOMAIN J.visible /\ ~IsDir(J, p)
  BY <1>1, <1>3, <1>5, <1>7 DEF Exists, IsDir
<1>10. getattr(J, p) = "directory" <=> IsDir(J, p)
  BY <1>1, <1>3, <1>7 DEF IsDir
<1> QED
  BY <1>8, <1>9, <1>10, ZenonT(30) DEF J

\* A path the kernel reached can be walked to.
LEMMA ReachedIs ==
  ASSUME ViewInv, NEW j \in Job, Running(j), NEW p \in Paths, Reached(job[j], p)
  PROVE  Walked(job[j], p)
<1> SUFFICES ASSUME NEW d \in Paths, IsStrictPrefix(d, p) PROVE IsDir(job[j], d)
  BY DEF Walked
<1>1. getattr(job[j], d) = "directory"
  BY UnderIs DEF Reached
<1> QED
  BY <1>1, ExistsIs

\* An operation that succeeds on what it must own works on a staged item.
LEMMA OwnedIs ==
  ASSUME NEW J, NEW p, NEW onStaged
  PROVE  Owned(J, p, onStaged) = "OK" =>
           p \in DOMAIN J.staged /\ onStaged[J.staged[p].kind] = "OK"
<1>1. CASE ~is_readable(J, p)
  BY <1>1 DEF Owned, is_readable
<1>2. CASE is_readable(J, p) /\ ~is_writeable(J, p)
  BY <1>2 DEF Owned
<1>3. CASE is_writeable(J, p) /\ p \in DOMAIN J.staged
  BY <1>3 DEF Owned, is_readable
<1>4. CASE is_writeable(J, p) /\ p \notin DOMAIN J.staged
  BY <1>4 DEF Owned, is_readable
<1> QED
  BY <1>1, <1>2, <1>3, <1>4

\* rmdir succeeds on a staged directory with nothing staged below it.
LEMMA RmdirIs ==
  ASSUME NEW J, NEW p, rmdir(J, p) = "OK"
  PROVE  p \in DOMAIN J.staged /\ J.staged[p].kind = "directory" /\ ~has_children(J, p)
<1>1. CASE p \in DOMAIN J.staged /\ J.staged[p].kind = "directory"
  <2> DEFINE F == [AnyKind EXCEPT !["directory"] = IF has_children(J, p) THEN "ENOTEMPTY" ELSE "OK"]
  <2>1. Owned(J, p, F) = "OK"
    BY <1>1 DEF rmdir
  <2>2. F["directory"] = IF has_children(J, p) THEN "ENOTEMPTY" ELSE "OK"
    BY DEF AnyKind
  <2> HIDE DEF F
  <2>3. F[J.staged[p].kind] = "OK"
    BY ONLY <2>1, OwnedIs
  <2> QED
    BY ONLY <1>1, <2>2, <2>3
<1>2. CASE ~(p \in DOMAIN J.staged /\ J.staged[p].kind = "directory")
  BY <1>2 DEF rmdir
<1> QED
  BY <1>1, <1>2

-----------------------------------------------------------------------------
(* Steps of one job *)

\* A step that turns the entry of j into K: its items have the backing objects
\* they had or new ones, and nobody else's are removed.
Work(j, K) ==
  /\ job' = [job EXCEPT ![j] = K] /\ phase' = phase /\ handed' = handed
  /\ Running(j) \/ K = job[j]
  /\ counter' \in Nat /\ counter' >= counter
  /\ Lists(K) /\ K.visible = job[j].visible
  /\ \A n : Has(K, n) => Has(job[j], n) \/ n \in counter + 1..counter'
  /\ Disjoint(K)
  /\ \A n \in disk : n \in disk' \/ Has(job[j], n)
  /\ phase[j] = "running" => \A n : Has(K, n) => n \in disk'

\* What the step leaves of the view of j and of its descriptors.
Looks(j, K) ==
  /\ Running(j) => Apart(K) /\ ReadKnown(K) /\ (~merged'[j] => Tree(K))
  /\ phase[j] = "running" => served'[j] \subseteq K.read \cap DOMAIN K.visible
  /\ ~Running(j) => served'[j] = served[j]
  /\ DOMAIN served' = Job /\ DOMAIN merged' = Job
  /\ \A k \in Job \ {j} : served'[k] = served[k] /\ merged'[k] = merged[k]

\* The descriptors of j follow, those of other jobs stay.
Holds(j, K) ==
  /\ DOMAIN fds' = Slots
  /\ \A i \in Slots : fds'[i] # NULL =>
       \/ fds[i] # NULL /\ fds[i].job # j /\ fds'[i] = fds[i]
       \/ /\ fds'[i] = [job |-> j, path |-> fds'[i].path, what |-> fds'[i].what]
          /\ phase[j] \notin {"none", "attached"}
          /\ fds'[i].path # NULL /\ Running(j) => NamedIn(K, fds'[i])

\* Such a step keeps the backing objects apart, and those of running jobs there.
LEMMA WorkKeeps ==
  ASSUME ViewInv, NEW j \in Job, NEW K, Work(j, K), NEW k \in Job
  PROVE  /\ Kept(k)'
         /\ \A p \in DOMAIN job'[k].staged : Sole(k, p)'
<1>1. /\ counter \in Nat /\ counter' \in Nat /\ counter' >= counter /\ phase' = phase /\ handed' = handed
      /\ \A l \in Job : handed[l] \subseteq 1..counter
      /\ job'[j] = K /\ \A l \in Job \ {j} : job'[l] = job[l]
  BY ZenonT(30) DEF ViewInv, Shape, Work
<1>2. \A l \in Job : \A p \in DOMAIN job[l].staged : Sole(l, p)
  BY DEF ViewInv
<1>3. \A n : Has(job[j], n) => /\ n \in 1..counter
                               /\ \A l \in Job \ {j} : \A q \in DOMAIN job[l].staged :
                                    n \notin Backing(job[l].staged[q])
  BY <1>2 DEF Has, Sole
<1>4. /\ \A p \in DOMAIN K.staged : \A n \in Backing(K.staged[p]) :
           Has(job[j], n) \/ n \in counter + 1..counter'
      /\ \A p, q \in DOMAIN K.staged : p = q \/ Backing(K.staged[p]) \cap Backing(K.staged[q]) = {}
      /\ \A n \in disk : n \in disk' \/ Has(job[j], n)
      /\ phase[j] = "running" => \A p \in DOMAIN K.staged : Backing(K.staged[p]) \subseteq disk'
  BY DEF Work, Has, Disjoint
<1>5. \A p \in DOMAIN K.staged : \A n \in Backing(K.staged[p]) :
        /\ n \in 1..counter'
        /\ \A l \in Job \ {j} : \A q \in DOMAIN job[l].staged : n \notin Backing(job[l].staged[q])
  <2> SUFFICES ASSUME NEW p \in DOMAIN K.staged, NEW n \in Backing(K.staged[p])
               PROVE  /\ n \in 1..counter'
                      /\ \A l \in Job \ {j} : \A q \in DOMAIN job[l].staged : n \notin Backing(job[l].staged[q])
    OBVIOUS
  <2>1. CASE Has(job[j], n)
    BY <1>1, <1>3, <2>1
  <2>2. CASE n \in counter + 1..counter'
    <3>1. n \notin 1..counter /\ n \in 1..counter'
      BY <1>1, <2>2
    <3> QED
      BY <1>2, <3>1 DEF Sole
  <2> QED
    BY <1>4, <2>1, <2>2, ZenonT(30)
<1>6. CASE k # j
  <2>1. job'[k] = job[k] /\ Kept(k)
    BY <1>1, <1>6, ZenonT(30) DEF ViewInv
  <2>2. Kept(k)'
    BY <1>1, <1>3, <1>4, <1>6, <2>1, ZenonT(30) DEF Kept
  <2>3. ASSUME NEW p \in DOMAIN job[k].staged
        PROVE  Sole(k, p)'
    <3>1. Sole(k, p)
      BY <1>2
    <3>2. Backing(job[k].staged[p]) \subseteq 1..counter'
      BY <1>1, <3>1 DEF Sole
    <3>3. \A l \in Job : \A q \in DOMAIN job'[l].staged :
            (k = l /\ p = q) \/ Backing(job[k].staged[p]) \cap Backing(job'[l].staged[q]) = {}
      <4> TAKE l \in Job
      <4>1. CASE l = j
        BY <1>1, <1>5, <1>6, <4>1
      <4>2. CASE l # j
        BY <1>1, <3>1, <4>2 DEF Sole
      <4> QED
        BY <4>1, <4>2
    <3> QED
      BY <2>1, <3>2, <3>3 DEF Sole
  <2> QED
    BY <2>1, <2>2, <2>3
<1>7. CASE k = j
  <2>1. Kept(k)'
    <3>1. \A n : Has(job[j], n) /\ phase[j] = "running" => \A l \in Job : n \notin handed[l]
      BY ZenonT(30) DEF ViewInv, Kept, Has
    <3>2. \A n \in counter + 1..counter', l \in Job : n \notin handed[l]
      BY <1>1
    <3> QED
      BY <1>1, <1>4, <1>7, <3>1, <3>2, ZenonT(30) DEF Kept
  <2>2. ASSUME NEW p \in DOMAIN K.staged
        PROVE  Sole(k, p)'
    <3>1. Backing(K.staged[p]) \subseteq 1..counter'
      BY <1>5
    <3>2. \A l \in Job : \A q \in DOMAIN job'[l].staged :
            (j = l /\ p = q) \/ Backing(K.staged[p]) \cap Backing(job'[l].staged[q]) = {}
      <4> TAKE l \in Job
      <4>1. CASE l = j
        BY <1>1, <1>4, <4>1, ZenonT(30)
      <4>2. CASE l # j
        BY <1>1, <1>5, <4>2
      <4> QED
        BY <4>1, <4>2
    <3> QED
      BY <1>1, <1>7, <3>1, <3>2, ZenonT(30) DEF Sole
  <2> QED
    BY <1>1, <1>7, <2>1, <2>2
<1> QED
  BY <1>6, <1>7

\* Such a step keeps the invariant.
LEMMA WorkInv ==
  ASSUME ViewInv, NEW j \in Job, NEW K, Work(j, K), Looks(j, K), Holds(j, K)
  PROVE  ViewInv'
<1>1. /\ Shape /\ phase' = phase /\ handed' = handed /\ counter' \in Nat /\ counter' >= counter
      /\ DOMAIN job' = Job /\ job'[j] = K /\ \A l \in Job \ {j} : job'[l] = job[l]
  BY ZenonT(30) DEF ViewInv, Shape, Work
<1>2. Shape'
  <2>1. counter \in Nat /\ handed \in [Job -> SUBSET (1..counter)]
    BY <1>1, ZenonT(30) DEF Shape
  <2>2. handed \in [Job -> SUBSET (1..counter')]
    BY <1>1, <2>1
  <2> QED
    BY <1>1, <2>2, ZenonT(30) DEF Shape, Looks, Holds
<1>3. ASSUME NEW k \in Job
      PROVE  Lists(job'[k]) /\ Idle(k)' /\ Shown(k)' /\ Served(k)' /\ Seen(k)'
  <2>1. Lists(job[k]) /\ Idle(k) /\ Shown(k) /\ Served(k) /\ Seen(k)
    BY DEF ViewInv
  <2>2. CASE k # j
    <3>1. job'[k] = job[k] /\ served'[k] = served[k] /\ merged'[k] = merged[k]
      BY <1>1, <2>2, ZenonT(30) DEF Looks
    <3> QED
      BY ONLY <1>1, <2>1, <3>1 DEF Idle, Shown, Served, Seen, Running
  <2>3. CASE k = j
    <3>1. Lists(K) /\ K.visible = job[j].visible /\ (Running(j) \/ K = job[j])
      BY DEF Work
    <3>2. Idle(k)'
      BY <1>1, <2>1, <2>3, <3>1, ZenonT(30) DEF Idle, Running
    <3>3. Shown(k)'
      BY <1>1, <2>1, <2>3, <3>1, ZenonT(30) DEF Shown, Running
    <3>4. Served(k)'
      BY <1>1, <2>1, <2>3, ZenonT(30) DEF Served, Looks, Running
    <3>5. Seen(k)'
      BY <1>1, <2>3, ZenonT(30) DEF Seen, Looks, Running
    <3> QED
      BY <1>1, <2>3, <3>1, <3>2, <3>3, <3>4, <3>5, ZenonT(30)
  <2> QED
    BY <2>2, <2>3
<1>4. ASSUME NEW i \in Slots
      PROVE  Named(i)'
  <2>1. CASE fds'[i] = NULL
    BY <2>1, ZenonT(30) DEF Named, Running
  <2>2. CASE fds'[i] # NULL /\ fds[i] # NULL /\ fds[i].job # j /\ fds'[i] = fds[i]
    <3>1. Named(i)
      BY DEF ViewInv
    <3> QED
      BY ONLY <1>1, <2>2, <3>1, ZenonT(30) DEF Named, Running
  <2>3. CASE /\ fds'[i] # NULL
             /\ fds'[i] = [job |-> j, path |-> fds'[i].path, what |-> fds'[i].what]
             /\ phase[j] \notin {"none", "attached"}
             /\ fds'[i].path # NULL /\ Running(j) => NamedIn(K, fds'[i])
    <3> DEFINE Fd(x, y) == [job |-> j, path |-> x, what |-> y]
    <3>0. \A x, y : Fd(x, y).job = j
      OBVIOUS
    <3>1. fds'[i].job = j
      <4>1. fds'[i] = Fd(fds'[i].path, fds'[i].what)
        BY ONLY <2>3
      <4> HIDE DEF Fd
      <4> QED
        BY ONLY <3>0, <4>1
    <3> QED
      BY ONLY j \in Job, <1>1, <2>3, <3>1, ZenonT(30) DEF Named, Running
  <2> QED
    BY <2>1, <2>2, <2>3, ZenonT(30) DEF Holds
<1> QED
  BY <1>2, <1>3, <1>4, WorkKeeps, ZenonT(30) DEF ViewInv

\* A step that only opens or closes files.
LEMMA FdsInv ==
  ASSUME ViewInv, UNCHANGED <<phase, job, disk, counter, handed, served, merged>>,
         DOMAIN fds' = Slots, \A i \in Slots : Named(i)'
  PROVE  ViewInv'
<1>1. Shape'
  BY ZenonT(30) DEF ViewInv, Shape
<1>2. ASSUME NEW j \in Job
      PROVE  (Lists(job[j]) /\ Idle(j) /\ Shown(j) /\ Kept(j) /\ Served(j) /\ Seen(j))'
  <2>1. Lists(job[j]) /\ Idle(j) /\ Shown(j) /\ Kept(j) /\ Served(j) /\ Seen(j)
    BY DEF ViewInv
  <2> QED
    BY <2>1, ZenonT(30) DEF Idle, Shown, Kept, Served, Seen, Running
<1>3. \A j \in Job : \A p \in DOMAIN job'[j].staged : Sole(j, p)'
  BY DEF ViewInv, Sole
<1> QED
  BY <1>1, <1>2, <1>3 DEF ViewInv

\* What the invariant says of an open file.
LEMMA FdIs ==
  ASSUME ViewInv, NEW i \in Slots, fds[i] # NULL
  PROVE  /\ fds[i] = [job |-> fds[i].job, path |-> fds[i].path, what |-> fds[i].what]
         /\ fds[i].job \in Job /\ phase[fds[i].job] \notin {"none", "attached"}
         /\ fds[i].path # NULL /\ Running(fds[i].job) =>
              NamedIn(job[fds[i].job], fds[i]) /\ fds[i].path \in InView(job[fds[i].job])
                /\ fds[i].path \in Paths
<1>1. Named(i)
  BY DEF ViewInv
<1>2. fds[i].path # NULL /\ Running(fds[i].job) =>
        NamedIn(job[fds[i].job], fds[i]) /\ fds[i].path \in InView(job[fds[i].job])
  BY <1>1, ZenonT(30) DEF Named, NamedIn, InView
<1>3. fds[i].job \in Job /\ Running(fds[i].job) => InView(job[fds[i].job]) \subseteq Paths
  BY RunningIs, ZenonT(30) DEF Lists, Entries, InView
<1> QED
  BY <1>1, <1>2, <1>3, ZenonT(30) DEF Named

\* A step that makes no backing object and takes nothing from what a job read.
LEMMA MoveInv ==
  ASSUME ViewInv, NEW j \in Job, Running(j), NEW K,
         job' = [job EXCEPT ![j] = K], UNCHANGED <<phase, counter, handed, served>>,
         DOMAIN merged' = Job, \A k \in Job \ {j} : merged'[k] = merged[k],
         Lists(K), K.visible = job[j].visible, Apart(K), ReadKnown(K), ~merged'[j] => Tree(K),
         job[j].read \cap DOMAIN job[j].visible \subseteq K.read,
         Disjoint(K), \A n : Has(K, n) => Has(job[j], n) /\ (n \in disk => n \in disk'),
         \A n \in disk : n \in disk' \/ Has(job[j], n),
         Holds(j, K)
  PROVE  ViewInv'
<1>1. Work(j, K)
  <2>1. phase[j] = "running" => \A n : Has(job[j], n) => n \in disk
    BY ZenonT(30) DEF ViewInv, Kept, Has
  <2>2. counter \in Nat
    BY ZenonT(30) DEF ViewInv, Shape
  <2>3. counter' = counter
    BY ZenonT(30)
  <2>4. counter' \in Nat /\ counter' >= counter
    BY ONLY <2>2, <2>3
  <2> QED
    BY <2>1, <2>4, ZenonT(30) DEF Work
<1>2. Looks(j, K)
  <2>1. DOMAIN served = Job /\ Served(j)
    BY ZenonT(30) DEF ViewInv, Shape
  <2> QED
    BY <2>1, ZenonT(30) DEF Looks, Served
<1> QED
  BY <1>1, <1>2, WorkInv, ZenonT(30)

\* A step that gives a new name.
LEMMA StageInv ==
  ASSUME ViewInv, NEW j \in Job, Running(j), NEW p \in Paths, NEW item, item.kind \in ItemKinds,
         Reached(job[j], p), ~Exists(job[j], p), ~is_visible(job[j], p),
         p \in DOMAIN job[j].staged => item.kind = "file",
         job' = [job EXCEPT ![j] = Stage(job[j], p, item)],
         UNCHANGED <<phase, handed, served, merged>>,
         \/ counter' = counter /\ Backing(item) = {}
         \/ counter' = counter + 1 /\ Backing(item) = {counter'},
         Backing(item) \subseteq disk',
         \A n \in disk : n \in disk' \/ (p \in DOMAIN job[j].staged /\ n \in Backing(job[j].staged[p])),
         \/ fds' = fds
         \/ /\ item.kind = "file" /\ counter' = counter + 1
            /\ \E i \in Slots : fds' = [fds EXCEPT ![i] = [job |-> j, path |-> p, what |-> counter']]
  PROVE  ViewInv'
<1> DEFINE J == job[j]
           K == Stage(J, p, item)
<1>1. Lists(J) /\ Entries(J) /\ Apart(J) /\ ReadKnown(J) /\ Disjoint(J) /\ (~merged[j] => Tree(J))
  BY RunningIs, ZenonT(30)
<1>2. Walked(J, p)
  BY ReachedIs, ZenonT(30)
<1>3. ~IsDir(J, p) /\ p \notin DOMAIN J.visible
  BY ExistsIs, ZenonT(30)
<1>4. /\ K.visible = J.visible /\ K.read = J.read
      /\ DOMAIN K.staged = DOMAIN J.staged \cup {p} /\ K.staged[p] = item
      /\ \A q \in DOMAIN J.staged \ {p} : K.staged[q] = J.staged[q]
  <2>1. IsEntry(J)
    BY <1>1, ZenonT(30) DEF Lists
  <2> QED
    BY ONLY <2>1, StageIs
<1>5. Lists(K) /\ Apart(K) /\ ReadKnown(K)
  BY <1>1, StageKeeps, ZenonT(30)
<1>6. ~merged[j] => Tree(K)
  BY <1>1, <1>2, <1>3, StageTree, ZenonT(30)
<1>7. \A q : Walked(J, q) => Walked(K, q)
  BY <1>1, <1>3, StageWalked, ZenonT(30)
<1>8. /\ counter \in Nat /\ DOMAIN served = Job /\ DOMAIN merged = Job /\ DOMAIN fds = Slots
      /\ Served(j) /\ \A q \in DOMAIN J.staged : Sole(j, q)
  BY ZenonT(30) DEF ViewInv, Shape
<1>9. \A n : Has(J, n) => n \in 1..counter
  BY <1>8, ZenonT(30) DEF Has, Sole
<1>10. phase[j] = "running" => \A n : Has(J, n) => n \in disk
  BY ZenonT(30) DEF ViewInv, Kept, Has
<1> HIDE DEF J, K
<1>11. Work(j, K)
  <2>1. \A n : Has(K, n) => n \in Backing(item) \/ \E q \in DOMAIN J.staged \ {p} : n \in Backing(J.staged[q])
    BY ONLY <1>4 DEF Has
  <2>0. /\ counter \in Nat
        /\ \/ counter' = counter /\ Backing(item) = {}
           \/ counter' = counter + 1 /\ Backing(item) = {counter'}
    BY <1>8, ZenonT(30)
  <2>2. \A n \in Backing(item) : n \in counter + 1..counter'
    BY ONLY <2>0
  <2>3. \A n : Has(K, n) => Has(J, n) \/ n \in counter + 1..counter'
    BY ONLY <2>1, <2>2 DEF Has
  <2>4. \A n \in Backing(item) : ~Has(J, n)
    BY ONLY <1>9, <2>0
  <2>5. Disjoint(K)
    BY ONLY <1>1, <1>4, <2>4, ZenonT(30) DEF Disjoint, Has
  <2>6. ASSUME phase[j] = "running", NEW n, Has(K, n)
        PROVE  n \in disk'
    <3>1. CASE n \in Backing(item)
      BY <3>1, ZenonT(30)
    <3>2. CASE \E q \in DOMAIN J.staged \ {p} : n \in Backing(J.staged[q])
      <4>1. n \in disk
        BY ONLY <1>10, <2>6, <3>2 DEF Has
      <4>2. p \in DOMAIN J.staged => n \notin Backing(J.staged[p])
        BY ONLY <1>1, <3>2 DEF Disjoint
      <4> QED
        BY <4>1, <4>2, ZenonT(30) DEF J
    <3> QED
      BY <2>1, <2>6, <3>1, <3>2, ZenonT(30)
  <2>7. \A n \in disk : n \in disk' \/ Has(J, n)
    BY ZenonT(30) DEF J, Has
  <2>8. counter' \in Nat /\ counter' >= counter
    BY ONLY <2>0
  <2> QED
    BY <1>4, <1>5, <2>3, <2>5, <2>6, <2>7, <2>8, ZenonT(30) DEF Work, J, K
<1>12. Looks(j, K)
  BY <1>4, <1>5, <1>6, <1>8, ZenonT(30) DEF Looks, Served, J
<1>13. \A x : x.path # NULL /\ NamedIn(J, x) => NamedIn(K, x)
  BY <1>4, <1>7, ZenonT(30) DEF NamedIn, J
<1>14. ASSUME NEW i \in Slots, fds[i] # NULL
       PROVE  \/ fds[i].job # j
              \/ /\ fds[i] = [job |-> j, path |-> fds[i].path, what |-> fds[i].what]
                 /\ phase[j] \notin {"none", "attached"}
                 /\ fds[i].path # NULL => NamedIn(K, fds[i])
  BY <1>13, <1>14, FdIs, ZenonT(30) DEF J
<1>15. CASE fds' = fds
  <2>1. Holds(j, K)
    BY <1>8, <1>14, <1>15, ZenonT(30) DEF Holds
  <2> QED
    BY <1>11, <1>12, <2>1, WorkInv, ZenonT(30)
<1>16. CASE /\ item.kind = "file" /\ counter' = counter + 1
            /\ \E i \in Slots : fds' = [fds EXCEPT ![i] = [job |-> j, path |-> p, what |-> counter']]
  <2> PICK s \in Slots : fds' = [fds EXCEPT ![s] = [job |-> j, path |-> p, what |-> counter']]
    BY <1>16, ZenonT(30)
  <2> DEFINE x == [job |-> j, path |-> p, what |-> counter']
  <2>1. DOMAIN fds' = Slots /\ fds'[s] = x /\ \A i \in Slots \ {s} : fds'[i] = fds[i]
    BY <1>8, ZenonT(30)
  <2>2. x.path = p /\ x.what = counter' /\ counter' # Blob /\ x = [job |-> j, path |-> x.path, what |-> x.what]
    <3>1. counter' # Blob
      <4>1. counter \in Nat /\ counter' = counter + 1
        BY <1>8, <1>16, ZenonT(30)
      <4> QED
        BY ONLY <4>1 DEF Blob
    <3>2. x.path = p /\ x.what = counter'
      BY ONLY TRUE
    <3> QED
      BY ONLY <3>1, <3>2
  <2> HIDE DEF x
  <2>3. NamedIn(K, x)
    BY ONLY <1>2, <1>4, <1>7, <1>16, <2>2 DEF NamedIn
  <2>4. phase[j] \notin {"none", "attached"}
    BY ZenonT(30) DEF Running
  <2>5. Holds(j, K)
    BY ONLY <1>14, <2>1, <2>2, <2>3, <2>4, ZenonT(30) DEF Holds
  <2> QED
    BY <1>11, <1>12, <2>5, WorkInv, ZenonT(30)
<1> QED
  BY <1>15, <1>16, ZenonT(30)

\* Nothing that can be walked to is below a staged item that is no directory.
LEMMA NotAbove ==
  ASSUME ViewInv, NEW j \in Job, Running(j), NEW p \in DOMAIN job[j].staged,
         job[j].staged[p].kind # "directory", NEW q, Walked(job[j], q)
  PROVE  ~IsStrictPrefix(p, q)
<1>1. p \in Paths /\ p \notin DOMAIN job[j].visible
  BY RunningIs, VisibleIs, ZenonT(30) DEF Lists, Apart
<1> QED
  BY <1>1 DEF Walked, IsDir

\* A step that takes a name away from an item with nothing below it.
LEMMA UnstageInv ==
  ASSUME ViewInv, NEW j \in Job, Running(j), NEW p \in DOMAIN job[j].staged,
         \A q \in InView(job[j]) : Walked(job[j], q) => ~IsStrictPrefix(p, q),
         job' = [job EXCEPT ![j] = Unstage(job[j], p)],
         UNCHANGED <<phase, counter, handed, served, merged>>,
         disk' = disk \ Backing(job[j].staged[p]),
         DOMAIN fds' = Slots,
         \A i \in Slots : fds'[i] # NULL => fds'[i] = fds[i] /\ ~(fds[i].job = j /\ fds[i].path = p)
  PROVE  ViewInv'
<1> DEFINE J == job[j]
           K == Unstage(J, p)
<1>1. Lists(J) /\ Entries(J) /\ Apart(J) /\ ReadKnown(J) /\ Disjoint(J) /\ (~merged[j] => Tree(J))
  BY RunningIs, ZenonT(30)
<1>2. p \in Paths /\ p \notin DOMAIN J.visible
  BY <1>1, VisibleIs, ZenonT(30) DEF Lists, Apart
<1>3. /\ K.visible = J.visible /\ DOMAIN K.staged = DOMAIN J.staged \ {p}
      /\ \A q \in DOMAIN J.staged \ {p} : K.staged[q] = J.staged[q]
  <2>1. IsEntry(J)
    BY <1>1, ZenonT(30) DEF Lists
  <2> QED
    BY ONLY <2>1, UnstageIs
<1>4. /\ Lists(K) /\ Apart(K) /\ ReadKnown(K) /\ J.read \cap DOMAIN J.visible \subseteq K.read
      /\ \A q : Walked(J, q) /\ ~IsStrictPrefix(p, q) => Walked(K, q)
      /\ Tree(J) /\ (\A q \in InView(J) : ~IsStrictPrefix(p, q)) => Tree(K)
  BY <1>1, <1>2, UnstageKeeps, ZenonT(30)
<1>5. ~merged[j] => Tree(K)
  BY <1>1, <1>4, ZenonT(30) DEF Tree
<1>6. DOMAIN merged = Job
  BY ZenonT(30) DEF ViewInv, Shape
<1> HIDE DEF K
<1>7. Disjoint(K) /\ \A n : Has(K, n) => Has(J, n) /\ n \notin Backing(J.staged[p])
  BY ONLY <1>1, <1>3, p \in DOMAIN job[j].staged, ZenonT(30) DEF Disjoint, Has
<1>8. \A n \in disk : n \in disk' \/ Has(J, n)
  BY ZenonT(30) DEF Has
<1>9. Holds(j, K)
  <2> SUFFICES ASSUME NEW i \in Slots, fds'[i] # NULL, fds[i].job = j
               PROVE  /\ fds[i] = [job |-> j, path |-> fds[i].path, what |-> fds[i].what]
                      /\ phase[j] \notin {"none", "attached"}
                      /\ fds[i].path # NULL => NamedIn(K, fds[i])
    BY ZenonT(30) DEF Holds
  <2>1. fds[i] # NULL /\ fds[i].path # p
    BY ZenonT(30)
  <2>2. /\ fds[i] = [job |-> j, path |-> fds[i].path, what |-> fds[i].what]
        /\ phase[j] \notin {"none", "attached"}
        /\ fds[i].path # NULL => NamedIn(J, fds[i]) /\ fds[i].path \in InView(J)
    BY <2>1, FdIs, ZenonT(30)
  <2>3. ASSUME fds[i].path # NULL PROVE NamedIn(K, fds[i])
    <3>1. Walked(J, fds[i].path) /\ ~IsStrictPrefix(p, fds[i].path)
      BY <2>2, <2>3, ZenonT(30) DEF NamedIn
    <3> QED
      BY <1>3, <1>4, <2>1, <2>2, <2>3, <3>1, ZenonT(30) DEF NamedIn
  <2> QED
    BY <2>2, <2>3, ZenonT(30)
<1> QED
  BY <1>3, <1>4, <1>5, <1>6, <1>7, <1>8, <1>9, MoveInv, ZenonT(30) DEF K

\* The name a descriptor of p has once f was renamed to t.
NewName(p, f, t) ==
  IF p = f THEN t
  ELSE IF Under(p, f) THEN Moved(p, f, t)
  ELSE IF Under(p, t) THEN NULL ELSE p

\* A descriptor that keeps a name keeps its file.
LEMMA FollowNamed ==
  ASSUME NEW J, Lists(J), Entries(J), Apart(J), NEW f, NEW t, MayMove(J, f, t),
         ~is_visible(J, t), Walked(J, t),
         NEW x, x = [job |-> x.job, path |-> x.path, what |-> x.what], NamedIn(J, x),
         x.path \in Paths, x.path # t, NewName(x.path, f, t) # NULL
  PROVE  NamedIn(Rename(J, f, t), [x EXCEPT !.path = NewName(x.path, f, t)])
<1> DEFINE K == Rename(J, f, t)
<1>1. f \in Paths /\ t \in Paths
  BY DEF MayMove, Lists
<1>2. (Under(x.path, f) <=> IsStrictPrefix(f, x.path)) /\ (Under(x.path, t) <=> IsStrictPrefix(t, x.path))
  BY <1>1, UnderIs
<1>3. /\ x.path = f => NamedIn(K, [x EXCEPT !.path = t])
      /\ IsStrictPrefix(f, x.path) => NamedIn(K, [x EXCEPT !.path = Moved(x.path, f, t)])
      /\ x.path \notin {f, t} /\ ~IsStrictPrefix(f, x.path) /\ ~IsStrictPrefix(t, x.path)
           => NamedIn(K, x)
  BY RenameNamed
<1> HIDE DEF K
<1>4. CASE x.path = f
  BY <1>3, <1>4 DEF NewName, K
<1>5. CASE x.path # f /\ IsStrictPrefix(f, x.path)
  BY <1>2, <1>3, <1>5 DEF NewName, K
<1>6. CASE x.path # f /\ ~IsStrictPrefix(f, x.path)
  <2>1. NewName(x.path, f, t) = x.path /\ ~IsStrictPrefix(t, x.path)
    BY <1>2, <1>6 DEF NewName
  <2>2. [x EXCEPT !.path = x.path] = x
    OBVIOUS
  <2> QED
    BY <1>3, <1>6, <2>1, <2>2 DEF K
<1> QED
  BY <1>4, <1>5, <1>6

\* What Follow makes of one descriptor.
LEMMA FollowIs ==
  ASSUME ViewInv, NEW j, NEW f, NEW t, NEW i \in Slots
  PROVE  /\ fds[i] = NULL => Follow(j, f, t)[i] = NULL
         /\ fds[i] # NULL /\ (fds[i].job # j \/ fds[i].path = NULL) => Follow(j, f, t)[i] = fds[i]
         /\ fds[i] # NULL /\ fds[i].job = j /\ fds[i].path # NULL =>
              Follow(j, f, t)[i] = [fds[i] EXCEPT !.path = NewName(fds[i].path, f, t)]
  BY DEF Follow, NewName

\* A descriptor of j after a step that renamed its file to e.
LEMMA HeldIs ==
  ASSUME NEW j, NEW K, NEW x, x = [job |-> j, path |-> x.path, what |-> x.what], NEW e,
         e # NULL => NamedIn(K, [x EXCEPT !.path = e])
  PROVE  LET y == [x EXCEPT !.path = e] IN
         /\ y = [job |-> j, path |-> y.path, what |-> y.what]
         /\ y.path # NULL => NamedIn(K, y)
<1> DEFINE y == [x EXCEPT !.path = e]
<1>1. y = [job |-> j, path |-> e, what |-> x.what]
  OBVIOUS
<1>2. y.path = e /\ y.what = x.what
  BY <1>1
<1> QED
  BY <1>1, <1>2

\* Where the descriptors are after a rename to a name that is not open.
LEMMA HoldsRename ==
  ASSUME ViewInv, NEW j \in Job, Running(j), NEW f, NEW t, MayMove(job[j], f, t),
         ~is_visible(job[j], t), Walked(job[j], t), OpenOn(j, t) = {}, fds' = Follow(j, f, t)
  PROVE  Holds(j, Rename(job[j], f, t))
<1> DEFINE J == job[j]
           K == Rename(J, f, t)
<1>1. Lists(J) /\ Entries(J) /\ Apart(J)
  BY RunningIs, ZenonT(30)
<1>2. DOMAIN fds' = Slots
  BY DEF Follow
<1> SUFFICES ASSUME NEW i \in Slots, fds'[i] # NULL
             PROVE  \/ fds[i] # NULL /\ fds[i].job # j /\ fds'[i] = fds[i]
                    \/ /\ fds'[i] = [job |-> j, path |-> fds'[i].path, what |-> fds'[i].what]
                       /\ phase[j] \notin {"none", "attached"}
                       /\ fds'[i].path # NULL => NamedIn(K, fds'[i])
  BY <1>2, ZenonT(30) DEF Holds
<1> DEFINE x == fds[i]
<1>3. /\ x # NULL
      /\ x.job # j \/ x.path = NULL => fds'[i] = x
      /\ x.job = j /\ x.path # NULL => fds'[i] = [x EXCEPT !.path = NewName(x.path, f, t)]
  BY FollowIs
<1>4. CASE x.job # j
  BY <1>3, <1>4
<1>5. CASE x.job = j
  <2>1. /\ x = [job |-> j, path |-> x.path, what |-> x.what]
        /\ phase[j] \notin {"none", "attached"}
        /\ x.path # NULL => NamedIn(J, x) /\ x.path \in Paths
    BY <1>3, <1>5, FdIs
  <2>2. CASE x.path = NULL
    BY <1>3, <2>1, <2>2
  <2>3. CASE x.path # NULL
    <3>1. x.path # t
      BY <1>3, <1>5 DEF OpenOn
    <3>2. NewName(x.path, f, t) # NULL => NamedIn(K, [x EXCEPT !.path = NewName(x.path, f, t)])
      BY <1>1, <1>5, <2>1, <2>3, <3>1, FollowNamed
    <3> HIDE DEF x, K
    <3> QED
      BY <1>3, <1>5, <2>1, <2>3, <3>2, HeldIs
  <2> QED
    BY <2>2, <2>3, ZenonT(30)
<1> QED
  BY <1>4, <1>5, ZenonT(30)

\* An open file goes to its hidden name.
LEMMA HideIs ==
  ASSUME ViewInv, NEW j \in Job, Running(j), NEW p \in DOMAIN job[j].staged,
         job[j].staged[p].kind # "directory", Walked(job[j], p), MayHide(job[j], p)
  PROVE  LET h == HiddenIn(p) IN
         /\ h \in Paths /\ h \notin InView(job[j]) /\ MayMove(job[j], p, h)
         /\ ~is_visible(job[j], h) /\ Walked(job[j], h)
         /\ \A q : Walked(job[j], q) => ~IsStrictPrefix(h, q)
<1> DEFINE J == job[j]
           h == HiddenIn(p)
<1>1. Lists(J) /\ Entries(J) /\ Apart(J)
  BY RunningIs, ZenonT(30)
<1>2. p \in Paths /\ h \in Paths /\ h \notin InView(J)
  BY <1>1, ZenonT(30) DEF Lists, MayHide, InView
<1>3. \A d \in Paths : IsStrictPrefix(d, h) <=> IsStrictPrefix(d, p)
  BY <1>2, HiddenIs
<1>4. ~IsStrictPrefix(p, h)
  BY <1>2, <1>3, PathsAre, PrefixAsym
<1> HIDE DEF h
<1>5. p # h
  BY <1>2 DEF InView
<1>6. MayMove(J, p, h)
  BY <1>2, <1>4, <1>5 DEF MayMove
<1>7. ~is_visible(J, h)
  BY <1>1, <1>2, VisibleIs, ZenonT(30) DEF InView
<1>8. Walked(J, h)
  BY <1>3 DEF Walked
<1>9. \A q : Walked(J, q) => ~IsStrictPrefix(h, q)
  BY <1>2 DEF Walked, IsDir, InView
<1> QED
  BY <1>2, <1>6, <1>7, <1>8, <1>9, ZenonT(30) DEF h

\* Unlink of an open file.
LEMMA HideInv ==
  ASSUME ViewInv, NEW j \in Job, Running(j), NEW p \in DOMAIN job[j].staged,
         job[j].staged[p].kind # "directory", Walked(job[j], p), MayHide(job[j], p),
         job' = [job EXCEPT ![j] = Rename(job[j], p, HiddenIn(p))], fds' = Follow(j, p, HiddenIn(p)),
         UNCHANGED <<phase, disk, counter, handed, served, merged>>
  PROVE  ViewInv'
<1> DEFINE J == job[j]
           h == HiddenIn(p)
           K == Rename(J, p, h)
<1>1. Lists(J) /\ Entries(J) /\ Apart(J) /\ ReadKnown(J) /\ Disjoint(J) /\ (~merged[j] => Tree(J))
  BY RunningIs, ZenonT(30)
<1>2. /\ h \in Paths /\ h \notin InView(J) /\ MayMove(J, p, h) /\ ~is_visible(J, h) /\ Walked(J, h)
      /\ \A q : Walked(J, q) => ~IsStrictPrefix(h, q)
  BY HideIs, ZenonT(30)
<1>3. OpenOn(j, h) = {}
  <2>1. h # NULL
    BY <1>2, PathsAre, ZenonT(30)
  <2> QED
    BY <1>2, <2>1, FdIs, ZenonT(30) DEF OpenOn
<1>4. Holds(j, K)
  BY <1>2, <1>3, HoldsRename, ZenonT(30)
<1>5. /\ Lists(K) /\ K.visible = J.visible /\ Apart(K) /\ ReadKnown(K)
      /\ J.read \cap DOMAIN J.visible \subseteq K.read
  BY <1>1, <1>2, RenameKeeps, ZenonT(30)
<1>6. ~merged[j] => Tree(K)
  <2>1. ~merged[j] => \A q \in DOMAIN J.staged : ~IsStrictPrefix(h, q)
    BY <1>1, <1>2, ZenonT(30) DEF Tree, InView
  <2> QED
    BY <1>1, <1>2, <2>1, RenameTree, ZenonT(30)
<1>7. Disjoint(K) /\ \A n : Has(K, n) => Has(J, n)
  BY <1>1, <1>2, RenameBacks, ZenonT(30)
<1>8. DOMAIN merged = Job
  BY ZenonT(30) DEF ViewInv, Shape
<1> HIDE DEF K
<1> QED
  BY <1>4, <1>5, <1>6, <1>7, <1>8, MoveInv, ZenonT(30) DEF K

\* What the kernel may ask of rename, within the bound on the depth.
LEMMA RequestIs ==
  ASSUME ViewInv, NEW j \in Job, NEW f, NEW t \in Paths, Running(j), f # t, ~Under(t, f),
         rename(job[j], f, t) = "OK", move_members(job[j].wrote, f, t) \subseteq Paths
  PROVE  MayMove(job[j], f, t) /\ ~is_visible(job[j], t)
<1> DEFINE J == job[j]
<1>1. Lists(J)
  BY RunningIs
<1>2. Owned(J, f, AnyKind) = "OK" /\ ~is_visible(J, t)
  BY DEF rename
<1>3. f \in DOMAIN J.staged
  BY <1>2, OwnedIs
<1>4. f \in Paths /\ DOMAIN J.staged \subseteq Paths /\ J.wrote = DOMAIN J.staged
  BY <1>1, <1>3, ZenonT(30) DEF Lists
<1>5. \A q : Under(q, f) <=> q \in Paths /\ IsStrictPrefix(f, q)
  BY <1>4, UnderIs
<1>6. \A q \in DOMAIN J.staged : IsStrictPrefix(f, q) => Moved(q, f, t) \in Paths
  BY <1>4, <1>5 DEF move_members
<1> QED
  BY <1>2, <1>3, <1>5, <1>6, ZenonT(30) DEF MayMove

\* A rename to a name that is not open.
LEMMA PlainRenameInv ==
  ASSUME ViewInv, NEW j \in Job, Running(j), NEW f, NEW t, MayMove(job[j], f, t),
         ~is_visible(job[j], t), Walked(job[j], t), OpenOn(j, t) = {},
         job' = [job EXCEPT ![j] = Rename(job[j], f, t)], fds' = Follow(j, f, t),
         disk' = disk \ Replaced(job[j], t),
         merged' = [merged EXCEPT ![j] = @ \/ has_children(job[j], t)],
         UNCHANGED <<phase, counter, handed, served>>
  PROVE  ViewInv'
<1> DEFINE J == job[j]
           K == Rename(J, f, t)
<1>1. Lists(J) /\ Entries(J) /\ Apart(J) /\ ReadKnown(J) /\ Disjoint(J) /\ (~merged[j] => Tree(J))
  BY RunningIs
<1>2. Holds(j, K)
  BY HoldsRename
<1>3. /\ Lists(K) /\ K.visible = J.visible /\ Apart(K) /\ ReadKnown(K)
      /\ J.read \cap DOMAIN J.visible \subseteq K.read
  BY <1>1, RenameKeeps, ZenonT(30)
<1>4. DOMAIN merged = Job
  BY ZenonT(30) DEF ViewInv, Shape
<1>5. DOMAIN merged' = Job /\ \A k \in Job \ {j} : merged'[k] = merged[k]
  BY <1>4
<1>6. ~merged'[j] => ~merged[j] /\ ~has_children(J, t)
  BY <1>4, ZenonT(30)
<1>7. ~has_children(J, t) => \A q \in DOMAIN J.staged : ~IsStrictPrefix(t, q)
  BY <1>1, UnderIs, ZenonT(30) DEF has_children, Lists, MayMove
<1>8. ~merged'[j] => Tree(K)
  BY <1>1, <1>6, <1>7, RenameTree, ZenonT(30)
<1>9. /\ Disjoint(K)
      /\ \A n : Has(K, n) => Has(J, n) /\ (t \in DOMAIN J.staged => n \notin Backing(J.staged[t]))
  BY <1>1, RenameBacks, ZenonT(30)
<1> HIDE DEF K
<1>10. \A n : Has(K, n) => Has(J, n) /\ (n \in disk => n \in disk')
  BY <1>9 DEF Replaced
<1>11. \A n \in disk : n \in disk' \/ Has(J, n)
  BY DEF Replaced, Has
<1> QED
  BY <1>2, <1>3, <1>5, <1>8, <1>9, <1>10, <1>11, MoveInv, ZenonT(30) DEF K
=============================================================================
