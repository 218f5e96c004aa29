--------------------------- MODULE SandboxProofs ---------------------------
(***************************************************************************)
(* What a job does in its sandbox, and what is reported of it: every step  *)
(* of FuseView keeps the invariant of SandboxLemmas, and the properties of *)
(* FuseView follow from it, for any number of jobs, paths and descriptors. *)
(***************************************************************************)
EXTENDS SandboxLemmas

-----------------------------------------------------------------------------
(* A rename whose target is open *)

\* The first half of a rename to a name that is open: the target is hidden.
HiddenFirst(J, I, f, t, h) ==
  /\ Lists(I) /\ Entries(I) /\ Apart(I) /\ ReadKnown(I) /\ Disjoint(I) /\ I.visible = J.visible
  /\ J.read \cap DOMAIN J.visible \subseteq I.read
  /\ \A n : Has(I, n) => Has(J, n)
  /\ MayMove(I, f, t) /\ ~is_visible(I, t) /\ Walked(I, t)
  /\ Tree(J) => Tree(I)
  /\ (\A q \in DOMAIN J.staged : ~IsStrictPrefix(t, q)) => \A q \in DOMAIN I.staged : ~IsStrictPrefix(t, q)

\* Hiding an open target leaves a view in which the rename may go on.
LEMMA HiddenFirstIs ==
  ASSUME ViewInv, NEW j \in Job, Running(j), NEW f, NEW t, MayMove(job[j], f, t),
         ~is_visible(job[j], t), Walked(job[j], t), Walked(job[j], f),
         t \in DOMAIN job[j].staged, job[j].staged[t].kind = "file", MayHide(job[j], t)
  PROVE  HiddenFirst(job[j], Rename(job[j], t, HiddenIn(t)), f, t, HiddenIn(t))
<1> DEFINE J == job[j]
           h == HiddenIn(t)
           I == Rename(J, t, h)
<1>1. Lists(J) /\ Entries(J) /\ Apart(J) /\ ReadKnown(J) /\ Disjoint(J)
  BY RunningIs
<1>2. /\ h \in Paths /\ h \notin InView(J) /\ MayMove(J, t, h) /\ ~is_visible(J, h) /\ Walked(J, h)
      /\ \A q : Walked(J, q) => ~IsStrictPrefix(h, q)
  BY HideIs
<1>3. /\ t \in Paths /\ f \in Paths /\ f \in DOMAIN J.staged /\ f # t /\ ~IsStrictPrefix(f, t)
      /\ ~IsStrictPrefix(t, t)
  BY <1>1, PathsAre, PrefixAsym DEF MayMove, Lists
<1>4. ~IsStrictPrefix(h, t) /\ \A d \in Paths : IsStrictPrefix(d, h) <=> IsStrictPrefix(d, t)
  BY <1>2, <1>3, HiddenIs
<1>5. /\ Lists(I) /\ I.visible = J.visible /\ Apart(I) /\ ReadKnown(I)
      /\ J.read \cap DOMAIN J.visible \subseteq I.read
  BY <1>1, <1>2, RenameKeeps
<1>6. Entries(I) /\ ~is_visible(I, t)
  BY <1>1, <1>5, SameVisible
<1>7. Disjoint(I) /\ \A n : Has(I, n) => Has(J, n)
  BY <1>1, <1>2, RenameBacks
<1>8. Walked(I, t)
  BY <1>1, <1>2, <1>3, <1>4, RenameWalked
<1>9. RenameDone(J, I, t, h)
  BY <1>1, <1>2, RenameIs
<1>10. Tree(J) => Tree(I)
  <2>1. Tree(J) => \A q \in DOMAIN J.staged : ~IsStrictPrefix(h, q)
    BY <1>2 DEF Tree, InView
  <2> QED
    BY <1>1, <1>2, <2>1, RenameTree
<1> HIDE DEF I, h
<1>11. \A q : Goes(J, q, t, h) = IF q = t THEN h ELSE q
  BY DEF Goes
<1>12. DOMAIN I.staged = (DOMAIN J.staged \ {t}) \cup {h}
  BY ONLY <1>9, <1>11, t \in DOMAIN job[j].staged DEF RenameDone
<1>13. \A q \in DOMAIN J.staged \ {t, h} : ~IsStrictPrefix(h, q) => I.staged[q] = J.staged[q]
  BY ONLY <1>9, <1>11 DEF RenameDone
<1>14. f \in DOMAIN I.staged /\ I.staged[f] = J.staged[f]
  BY <1>2, <1>3, <1>12, <1>13 DEF InView
<1>15. MayMove(I, f, t)
  <2>1. \A q \in DOMAIN I.staged : IsStrictPrefix(f, q) => q \in DOMAIN J.staged
    BY <1>3, <1>4, <1>12
  <2>2. J.staged[f].kind = "directory" =>
          \A q \in DOMAIN J.staged : IsStrictPrefix(f, q) => Moved(q, f, t) \in Paths
    BY DEF MayMove
  <2> QED
    BY ONLY <1>3, <1>14, <2>1, <2>2 DEF MayMove
<1>16. (\A q \in DOMAIN J.staged : ~IsStrictPrefix(t, q)) => \A q \in DOMAIN I.staged : ~IsStrictPrefix(t, q)
  BY <1>3, <1>4, <1>12
<1> QED
  BY <1>5, <1>6, <1>7, <1>8, <1>10, <1>15, <1>16 DEF HiddenFirst, I, h

\* A rename to a name that is open.
LEMMA HiddenRenameInv ==
  ASSUME ViewInv, NEW j \in Job, Running(j), NEW f, NEW t, MayMove(job[j], f, t),
         ~is_visible(job[j], t), Walked(job[j], t), Walked(job[j], f),
         OpenOn(j, t) # {}, MayHide(job[j], t),
         job' = [job EXCEPT ![j] = Rename(Rename(job[j], t, HiddenIn(t)), f, t)],
         fds' = [i \in Slots |-> IF i \in OpenOn(j, t) THEN [fds[i] EXCEPT !.path = HiddenIn(t)]
                                 ELSE Follow(j, f, t)[i]],
         merged' = [merged EXCEPT ![j] = @ \/ has_children(job[j], t)],
         UNCHANGED <<phase, disk, counter, handed, served>>
  PROVE  ViewInv'
<1> DEFINE J == job[j]
           h == HiddenIn(t)
           I == Rename(J, t, h)
           K == Rename(I, f, t)
<1>1. Lists(J) /\ Entries(J) /\ Apart(J) /\ (~merged[j] => Tree(J))
  BY RunningIs
<1>2. t \in Paths /\ f \in Paths /\ f \in DOMAIN J.staged /\ t # NULL
  BY <1>1, PathsAre DEF MayMove, Lists
<1>3. t \in DOMAIN J.staged /\ J.staged[t].kind = "file"
  <2>1. PICK i \in Slots : fds[i] # NULL /\ fds[i].job = j /\ fds[i].path = t
    BY DEF OpenOn
  <2>2. NamedIn(J, fds[i])
    BY <1>2, <2>1, FdIs, ZenonT(30)
  <2> QED
    BY <1>1, <1>2, <2>1, <2>2, VisibleIs DEF NamedIn
<1>4. /\ h \in Paths /\ h \notin InView(J) /\ MayMove(J, t, h) /\ ~is_visible(J, h) /\ Walked(J, h)
      /\ \A q : Walked(J, q) => ~IsStrictPrefix(h, q)
  BY <1>3, HideIs
<1>5. HiddenFirst(J, I, f, t, h)
  BY <1>3, HiddenFirstIs, ZenonT(30)
<1> HIDE DEF I
<1>6. /\ Lists(I) /\ Entries(I) /\ Apart(I) /\ ReadKnown(I) /\ Disjoint(I) /\ I.visible = J.visible
      /\ J.read \cap DOMAIN J.visible \subseteq I.read
      /\ \A n : Has(I, n) => Has(J, n)
      /\ MayMove(I, f, t) /\ ~is_visible(I, t) /\ Walked(I, t)
      /\ Tree(J) => Tree(I)
      /\ (\A q \in DOMAIN J.staged : ~IsStrictPrefix(t, q)) => \A q \in DOMAIN I.staged : ~IsStrictPrefix(t, q)
  BY ONLY <1>5 DEF HiddenFirst
<1>7. /\ Lists(K) /\ K.visible = I.visible /\ Apart(K) /\ ReadKnown(K)
      /\ I.read \cap DOMAIN I.visible \subseteq K.read
  BY ONLY <1>6, RenameKeeps
<1>8. DOMAIN merged = Job
  BY DEF ViewInv, Shape
<1>9. DOMAIN merged' = Job /\ \A k \in Job \ {j} : merged'[k] = merged[k]
  BY <1>8
<1>10. ~merged'[j] => ~merged[j] /\ ~has_children(J, t)
  BY <1>8, ZenonT(30)
<1>11. ~has_children(J, t) => \A q \in DOMAIN J.staged : ~IsStrictPrefix(t, q)
  BY <1>1, <1>2, UnderIs DEF has_children, Lists
<1>12. ~merged'[j] => Tree(K)
  <2>1. ~merged'[j] => Tree(I) /\ \A q \in DOMAIN I.staged : ~IsStrictPrefix(t, q)
    BY ONLY <1>1, <1>6, <1>10, <1>11
  <2> QED
    BY ONLY <1>6, <2>1, RenameTree
<1>13. Disjoint(K) /\ \A n : Has(K, n) => Has(I, n)
  BY ONLY <1>6, RenameBacks
<1>14. ASSUME NEW x, x = [job |-> j, path |-> x.path, what |-> x.what], NamedIn(J, x), x.path \in Paths
       PROVE  /\ x.path = t => NamedIn(K, [x EXCEPT !.path = h])
              /\ x.path # t /\ NewName(x.path, f, t) # NULL =>
                   NamedIn(K, [x EXCEPT !.path = NewName(x.path, f, t)])
  <2>1. Walked(J, x.path) /\ x.path \in InView(J)
    BY <1>14 DEF NamedIn, InView
  <2>2. ~IsStrictPrefix(t, x.path) /\ ~IsStrictPrefix(h, x.path) /\ x.path # h
    BY <1>3, <1>4, <2>1, NotAbove
  <2>3. /\ x.path = t => NamedIn(I, [x EXCEPT !.path = h])
        /\ x.path \notin {t, h} /\ ~IsStrictPrefix(t, x.path) /\ ~IsStrictPrefix(h, x.path) => NamedIn(I, x)
    <3>1. x = [job |-> x.job, path |-> x.path, what |-> x.what]
      BY <1>14
    <3> QED
      BY <1>1, <1>4, <1>14, <3>1, RenameNamed, ZenonT(30) DEF I
  <2>4. ASSUME x.path = t
        PROVE  NamedIn(K, [x EXCEPT !.path = h])
    <3> DEFINE y == [x EXCEPT !.path = h]
    <3>1. NamedIn(I, y)
      BY <2>3, <2>4
    <3>2. y = [job |-> j, path |-> h, what |-> x.what]
      BY <1>14
    <3> HIDE DEF y
    <3>3. y.path = h /\ y = [job |-> y.job, path |-> y.path, what |-> y.what]
      BY ONLY <3>2
    <3>4. h # f /\ h # t /\ h # NULL
      BY <1>2, <1>3, <1>4, PathsAre DEF InView
    <3>5. ~IsStrictPrefix(f, t) /\ ~IsStrictPrefix(t, t)
      BY <1>2, PathsAre, PrefixAsym DEF MayMove
    <3>6. ~IsStrictPrefix(f, h) /\ ~IsStrictPrefix(t, h)
      BY <1>2, <1>4, <3>5, HiddenIs
    <3>7. /\ y.path \notin {f, t} /\ ~IsStrictPrefix(f, y.path) /\ ~IsStrictPrefix(t, y.path) => NamedIn(K, y)
      BY ONLY <1>6, <3>1, <3>3, RenameNamed, ZenonT(30)
    <3> QED
      BY <3>3, <3>4, <3>6, <3>7 DEF y
  <2>5. ASSUME x.path # t, NewName(x.path, f, t) # NULL
        PROVE  NamedIn(K, [x EXCEPT !.path = NewName(x.path, f, t)])
    <3>1. NamedIn(I, x)
      BY <2>2, <2>3, <2>5
    <3>2. x = [job |-> x.job, path |-> x.path, what |-> x.what]
      BY <1>14
    <3> QED
      BY <1>6, <1>14, <2>5, <3>1, <3>2, FollowNamed
  <2> QED
    BY <2>4, <2>5
<1> HIDE DEF K, h, J
<1>15. Holds(j, K)
  <2>1. DOMAIN fds' = Slots
    OBVIOUS
  <2> SUFFICES ASSUME NEW i \in Slots, fds'[i] # NULL
               PROVE  \/ fds[i] # NULL /\ fds[i].job # j /\ fds'[i] = fds[i]
                      \/ /\ fds'[i] = [job |-> j, path |-> fds'[i].path, what |-> fds'[i].what]
                         /\ phase[j] \notin {"none", "attached"}
                         /\ fds'[i].path # NULL => NamedIn(K, fds'[i])
    BY <2>1 DEF Holds
  <2> DEFINE x == fds[i]
  <2>2. i \in OpenOn(j, t) <=> x # NULL /\ x.job = j /\ x.path = t
    BY DEF OpenOn
  <2>3. fds'[i] = IF i \in OpenOn(j, t) THEN [x EXCEPT !.path = h] ELSE Follow(j, f, t)[i]
    BY DEF h
  <2>4. /\ x # NULL
        /\ x.job # j \/ x.path = NULL => fds'[i] = x
        /\ x.job = j /\ x.path # NULL /\ x.path # t =>
             fds'[i] = [x EXCEPT !.path = NewName(x.path, f, t)]
    <3>1. /\ x = NULL => Follow(j, f, t)[i] = NULL
          /\ x # NULL /\ (x.job # j \/ x.path = NULL) => Follow(j, f, t)[i] = x
          /\ x # NULL /\ x.job = j /\ x.path # NULL =>
               Follow(j, f, t)[i] = [x EXCEPT !.path = NewName(x.path, f, t)]
      BY FollowIs
    <3> HIDE DEF x
    <3> QED
      BY ONLY fds'[i] # NULL, <1>2, <2>2, <2>3, <3>1
  <2>5. CASE x.job # j
    BY <2>4, <2>5
  <2>6. CASE x.job = j
    <3>1. /\ x = [job |-> j, path |-> x.path, what |-> x.what]
          /\ phase[j] \notin {"none", "attached"}
          /\ x.path # NULL => NamedIn(J, x) /\ x.path \in Paths
      BY <2>4, <2>6, FdIs, ZenonT(30) DEF J
    <3>2. CASE x.path = NULL
      BY <2>4, <3>1, <3>2
    <3>3. CASE x.path = t
      <4>1. NamedIn(K, [x EXCEPT !.path = h])
        BY <1>2, <1>14, <3>1, <3>3, ZenonT(30)
      <4>2. fds'[i] = [x EXCEPT !.path = h]
        BY <2>2, <2>3, <2>4, <2>6, <3>3
      <4> HIDE DEF x
      <4> QED
        BY <3>1, <4>1, <4>2, HeldIs
    <3>4. CASE x.path # NULL /\ x.path # t
      <4>1. NewName(x.path, f, t) # NULL => NamedIn(K, [x EXCEPT !.path = NewName(x.path, f, t)])
        BY <1>14, <3>1, <3>4, ZenonT(30)
      <4> HIDE DEF x
      <4> QED
        BY <2>4, <2>6, <3>1, <3>4, <4>1, HeldIs
    <3> QED
      BY <3>2, <3>3, <3>4
  <2> QED
    BY <2>5, <2>6
<1>16. \A n : Has(K, n) => Has(J, n)
  BY <1>6, <1>13
<1>17. K.visible = J.visible /\ J.read \cap DOMAIN J.visible \subseteq K.read
  BY <1>6, <1>7
<1>18. job' = [job EXCEPT ![j] = K]
  BY DEF K, I, h, J
<1> QED
  BY <1>7, <1>9, <1>12, <1>13, <1>15, <1>16, <1>17, <1>18, MoveInv, ZenonT(30) DEF J

-----------------------------------------------------------------------------
(* Every step *)

\* create, mknod, mkdir, symlink and link.
LEMMA CreateStep ==
  ASSUME ViewInv, NEW j \in Job, NEW p \in Paths, NEW i \in Slots, MayCreate(j, p), Create(j, p, i)
  PROVE  ViewInv'
<1> DEFINE item == [kind |-> "file", back |-> counter']
<1>1. item.kind = "file" /\ Backing(item) = {counter'}
  BY DEF Backing
<1>2. job' = [job EXCEPT ![j] = Stage(job[j], p, item)]
  BY DEF Create
<1>3. /\ Running(j) /\ Reached(job[j], p) /\ ~Exists(job[j], p) /\ ~is_visible(job[j], p)
      /\ counter' = counter + 1 /\ UNCHANGED <<phase, handed, served, merged>>
      /\ fds' = [fds EXCEPT ![i] = [job |-> j, path |-> p, what |-> counter']]
  BY DEF MayCreate, Create
<1>4. /\ counter' \in disk'
      /\ \A n \in disk : n \in disk' \/ (p \in DOMAIN job[j].staged /\ n \in Backing(job[j].staged[p]))
  BY DEF Create
<1> HIDE DEF item
<1>5. item.kind \in ItemKinds
  BY <1>1 DEF ItemKinds
<1> QED
  BY ONLY ViewInv, j \in Job, p \in Paths, i \in Slots, <1>1, <1>2, <1>3, <1>4, <1>5, StageInv, ZenonT(30)

\* mkdir, symlink and mknod stage one item.
LEMMA MakeNodeStep ==
  ASSUME ViewInv, NEW j \in Job, NEW p \in Paths, NEW k \in ItemKinds, MayCreate(j, p), MakeNode(j, p, k)
  PROVE  ViewInv'
<1>1. /\ Running(j) /\ Reached(job[j], p) /\ ~Exists(job[j], p)
      /\ ~is_visible(job[j], p) /\ ~is_writeable(job[j], p)
      /\ UNCHANGED <<phase, fds, handed, served, merged>>
  BY DEF MayCreate, MakeNode
<1>2. p \notin DOMAIN job[j].staged
  BY <1>1, RunningIs DEF is_writeable, Lists
<1>3. CASE k \in {"file", "special"}
  <2> DEFINE item == [kind |-> k, back |-> counter']
  <2>1. item.kind = k /\ Backing(item) = {counter'}
    BY <1>3 DEF Backing
  <2>2. /\ job' = [job EXCEPT ![j] = Stage(job[j], p, item)]
        /\ counter' = counter + 1 /\ disk' = disk \cup {counter'}
    BY <1>3 DEF MakeNode
  <2> HIDE DEF item
  <2> QED
    BY ONLY ViewInv, j \in Job, p \in Paths, k \in ItemKinds, <1>1, <1>2, <2>1, <2>2, StageInv, ZenonT(30)
<1>4. CASE k \notin {"file", "special"}
  <2> DEFINE item == [kind |-> k]
  <2>1. item.kind = k /\ Backing(item) = {}
    BY <1>4 DEF Backing
  <2>2. job' = [job EXCEPT ![j] = Stage(job[j], p, item)] /\ counter' = counter /\ disk' = disk
    BY <1>4 DEF MakeNode
  <2> HIDE DEF item
  <2> QED
    BY ONLY ViewInv, j \in Job, p \in Paths, k \in ItemKinds, <1>1, <1>2, <2>1, <2>2, StageInv, ZenonT(30)
<1> QED
  BY <1>3, <1>4

\* link gives the new name a file of its own.
LEMMA LinkStep ==
  ASSUME ViewInv, NEW j \in Job, NEW f, NEW t \in Paths, Link(j, f, t)
  PROVE  ViewInv'
<1> DEFINE item == [kind |-> "file", back |-> counter']
<1>1. item.kind = "file" /\ Backing(item) = {counter'}
  BY DEF Backing
<1>2. job' = [job EXCEPT ![j] = Stage(job[j], t, item)]
  BY DEF Link
<1>3. /\ Running(j) /\ Reached(job[j], t) /\ ~Exists(job[j], t) /\ ~is_visible(job[j], t)
      /\ counter' = counter + 1 /\ disk' = disk \cup {counter'}
      /\ UNCHANGED <<phase, fds, handed, served, merged>>
  BY DEF MayCreate, Link
<1> HIDE DEF item
<1>4. item.kind \in ItemKinds
  BY <1>1 DEF ItemKinds
<1> QED
  BY ONLY ViewInv, j \in Job, t \in Paths, <1>1, <1>2, <1>3, <1>4, StageInv, ZenonT(30)

\* What recording a read does to each list.
LEMMA ReadIs ==
  ASSUME NEW J, IsEntry(J), NEW p
  PROVE  LET K == [J EXCEPT !.read = @ \cup {p}] IN
         /\ K.visible = J.visible /\ K.read = J.read \cup {p} /\ K.staged = J.staged
         /\ K.wrote = J.wrote /\ K.paths = J.paths /\ IsEntry(K)
<1>1. PICK v, r, w, a, s : J = [visible |-> v, read |-> r, wrote |-> w, paths |-> a, staged |-> s]
  BY DEF IsEntry
<1>2. J.visible = v /\ J.read = r /\ J.wrote = w /\ J.paths = a /\ J.staged = s
  BY ONLY <1>1
<1> DEFINE K == [J EXCEPT !.read = @ \cup {p}]
<1>3. K = [visible |-> v, read |-> r \cup {p}, wrote |-> w, paths |-> a, staged |-> s]
  BY ONLY <1>1
<1> HIDE DEF K
<1>4. /\ K.visible = J.visible /\ K.read = J.read \cup {p} /\ K.staged = J.staged
      /\ K.wrote = J.wrote /\ K.paths = J.paths /\ IsEntry(K)
  BY ONLY <1>2, <1>3 DEF IsEntry
<1> QED
  BY <1>4 DEF K

\* read and readlink record the name.
LEMMA ReadInv ==
  ASSUME ViewInv, NEW j \in Job, Running(j), NEW p \in InView(job[j]),
         job' = [job EXCEPT ![j].read = @ \cup {p}],
         UNCHANGED <<phase, fds, disk, counter, handed, merged>>,
         DOMAIN served' = Job, \A k \in Job \ {j} : served'[k] = served[k],
         phase[j] = "running" =>
           served'[j] = served[j] \/ (served'[j] = served[j] \cup {p} /\ p \in DOMAIN job[j].visible)
  PROVE  ViewInv'
<1> DEFINE J == job[j]
           K == [J EXCEPT !.read = @ \cup {p}]
<1>1. Lists(J) /\ Entries(J) /\ Apart(J) /\ ReadKnown(J) /\ Disjoint(J) /\ (~merged[j] => Tree(J))
  BY RunningIs
<1>2. /\ K.visible = J.visible /\ K.read = J.read \cup {p} /\ K.staged = J.staged
      /\ K.wrote = J.wrote /\ K.paths = J.paths /\ IsEntry(K)
  BY <1>1, ReadIs DEF Lists
<1>3. job' = [job EXCEPT ![j] = K]
  OBVIOUS
<1>4. /\ counter \in Nat /\ DOMAIN merged = Job /\ DOMAIN fds = Slots /\ Served(j)
      /\ phase[j] = "running" => \A n : Has(J, n) => n \in disk
  BY DEF ViewInv, Shape, Kept, Has
<1> HIDE DEF K
<1>6. Lists(K) /\ Apart(K) /\ ReadKnown(K) /\ Disjoint(K)
  <2>1. \A q : is_visible(K, q) <=> is_visible(J, q)
    BY <1>2, SameVisible
  <2> QED
    BY ONLY p \in InView(job[j]), <1>1, <1>2, <2>1 DEF Lists, Apart, ReadKnown, Disjoint, InView
<1>7. \A q : Walked(J, q) => Walked(K, q)
  BY ONLY <1>2 DEF Walked, IsDir
<1>8. ~merged[j] => Tree(K)
  BY ONLY <1>1, <1>2, <1>7 DEF Tree, InView
<1>9. \A n : Has(K, n) <=> Has(J, n)
  BY ONLY <1>2 DEF Has
<1>10. Work(j, K)
  BY ONLY Running(j), UNCHANGED <<phase, disk, counter, handed>>, <1>3, <1>4, <1>2, <1>6, <1>9 DEF Work
<1>11. Looks(j, K)
  BY <1>4, <1>2, <1>6, <1>8 DEF Looks, Served
<1>12. \A x : NamedIn(J, x) => NamedIn(K, x)
  BY ONLY <1>2, <1>7 DEF NamedIn
<1>13. Holds(j, K)
  <2>1. ASSUME NEW i \in Slots, fds[i] # NULL, fds[i].job = j
        PROVE  /\ fds[i] = [job |-> j, path |-> fds[i].path, what |-> fds[i].what]
               /\ phase[j] \notin {"none", "attached"}
               /\ fds[i].path # NULL => NamedIn(K, fds[i])
    BY <1>12, <2>1, FdIs
  <2> QED
    BY <1>4, <2>1 DEF Holds
<1> QED
  BY <1>10, <1>11, <1>13, WorkInv

\* read records the name the file has now, if it has one.
LEMMA ReadStep ==
  ASSUME ViewInv, NEW i \in Slots, Read(i)
  PROVE  ViewInv'
<1> DEFINE j == fds[i].job
           p == fds[i].path
<1>1. /\ fds[i] # NULL /\ p # NULL /\ Running(j)
      /\ job' = [job EXCEPT ![j].read = @ \cup {p}]
      /\ served' = [served EXCEPT ![j] = IF fds[i].what = Blob /\ phase[j] = "running" THEN @ \cup {p} ELSE @]
      /\ UNCHANGED <<phase, fds, disk, counter, handed, merged>>
  BY DEF Read
<1>2. j \in Job /\ NamedIn(job[j], fds[i]) /\ p \in InView(job[j])
  BY <1>1, FdIs, ZenonT(30)
<1>3. fds[i].what = Blob => p \in DOMAIN job[j].visible
  BY <1>2 DEF NamedIn
<1>4. DOMAIN served = Job
  BY DEF ViewInv, Shape
<1> HIDE DEF j, p
<1>5. /\ DOMAIN served' = Job /\ \A k \in Job \ {j} : served'[k] = served[k]
      /\ served'[j] = served[j] \/ (served'[j] = served[j] \cup {p} /\ p \in DOMAIN job[j].visible)
  BY <1>1, <1>2, <1>3, <1>4
<1> QED
  BY <1>1, <1>2, <1>5, ReadInv, ZenonT(30)

\* readlink records the name.
LEMMA ReadlinkStep ==
  ASSUME ViewInv, NEW j \in Job, NEW p \in Paths, Readlink(j, p)
  PROVE  ViewInv'
<1>1. /\ Running(j) /\ getattr(job[j], p) = "symlink"
      /\ job' = [job EXCEPT ![j].read = @ \cup {p}]
      /\ served' = [served EXCEPT ![j] =
           IF p \notin DOMAIN job[j].staged /\ phase[j] = "running" THEN @ \cup {p} ELSE @]
      /\ UNCHANGED <<phase, fds, disk, counter, handed, merged>>
  BY DEF Readlink
<1>2. p \in InView(job[j])
  BY <1>1, ExistsIs DEF Exists
<1>3. p \notin DOMAIN job[j].staged => p \in DOMAIN job[j].visible
  BY <1>2 DEF InView
<1>4. DOMAIN served = Job
  BY DEF ViewInv, Shape
<1>5. /\ DOMAIN served' = Job /\ \A k \in Job \ {j} : served'[k] = served[k]
      /\ served'[j] = served[j] \/ (served'[j] = served[j] \cup {p} /\ p \in DOMAIN job[j].visible)
  BY <1>1, <1>3, <1>4
<1> QED
  BY <1>1, <1>2, <1>5, ReadInv, ZenonT(30)

\* open
LEMMA OpenStep ==
  ASSUME ViewInv, NEW j \in Job, NEW p \in Paths, NEW i \in Slots, Open(j, p, i)
  PROVE  ViewInv'
<1> DEFINE J == job[j]
           o == IF open(J, p) = "staged" THEN J.staged[p].back ELSE Blob
           x == [job |-> j, path |-> p, what |-> o]
<1>1. /\ Running(j) /\ Reached(J, p) /\ open(J, p) \in {"staged", "blob"}
      /\ fds' = [fds EXCEPT ![i] = x] /\ UNCHANGED <<phase, job, disk, counter, handed, served, merged>>
  BY DEF Open
<1>2. Walked(J, p)
  BY <1>1, ReachedIs
<1>3. Lists(J)
  BY <1>1, RunningIs
<1>4. /\ open(J, p) = "staged" => p \in DOMAIN J.staged /\ J.staged[p].kind = "file"
      /\ open(J, p) = "blob" => p \in DOMAIN J.visible
  BY <1>3 DEF open, Lists, ItemKinds
<1>5. open(J, p) = "staged" => J.staged[p].back # Blob
  <2>1. open(J, p) = "staged" => Backing(J.staged[p]) = {J.staged[p].back}
    BY <1>4 DEF Backing
  <2>2. p \in DOMAIN J.staged => Backing(J.staged[p]) \subseteq 1..counter
    BY DEF ViewInv, Sole
  <2>3. 0 \notin 1..counter
    BY DEF ViewInv, Shape
  <2> QED
    BY <1>4, <2>1, <2>2, <2>3 DEF Blob
<1>6. NamedIn(J, x)
  BY <1>1, <1>2, <1>4, <1>5, ZenonT(30) DEF NamedIn
<1>7. DOMAIN fds = Slots /\ \A l \in Slots : Named(l)
  BY DEF ViewInv, Shape
<1>8. x.job = j /\ x.path = p /\ x = [job |-> x.job, path |-> x.path, what |-> x.what]
  OBVIOUS
<1> HIDE DEF x
<1>9. DOMAIN fds' = Slots /\ fds'[i] = x /\ \A l \in Slots \ {i} : fds'[l] = fds[l]
  BY <1>1, <1>7
<1>10. ASSUME NEW l \in Slots PROVE Named(l)'
  <2>1. CASE l = i
    BY <1>1, <1>6, <1>8, <1>9, <2>1 DEF Named, Running
  <2>2. CASE l # i
    <3>1. fds'[l] = fds[l] /\ Named(l) /\ phase' = phase /\ job' = job
      BY <1>1, <1>7, <1>9, <2>2
    <3> QED
      BY ONLY <3>1 DEF Named, Running
  <2> QED
    BY <2>1, <2>2
<1> QED
  BY <1>1, <1>9, <1>10, FdsInv

\* unlink
LEMMA UnlinkStep ==
  ASSUME ViewInv, NEW j \in Job, NEW p \in Paths, Unlink(j, p)
  PROVE  ViewInv'
<1> DEFINE J == job[j]
<1>1. /\ Running(j) /\ Reached(J, p) /\ getattr(J, p) # "directory" /\ unlink(J, p) = "OK"
      /\ UNCHANGED <<phase, counter, handed, served, merged>>
  BY DEF Unlink
<1>2. p \in DOMAIN J.staged /\ Walked(J, p)
  BY <1>1, OwnedIs, ReachedIs DEF unlink
<1>3. J.staged[p].kind # "directory"
  BY <1>1, <1>2, ExistsIs DEF IsDir
<1>4. CASE OpenOn(j, p) # {}
  <2>1. /\ MayHide(J, p) /\ job' = [job EXCEPT ![j] = Rename(J, p, HiddenIn(p))]
        /\ fds' = Follow(j, p, HiddenIn(p)) /\ UNCHANGED disk
    BY <1>4 DEF Unlink
  <2> QED
    BY <1>1, <1>2, <1>3, <2>1, HideInv, ZenonT(30)
<1>5. CASE OpenOn(j, p) = {}
  <2>1. /\ job' = [job EXCEPT ![j] = Unstage(J, p)] /\ disk' = disk \ Backing(J.staged[p])
        /\ UNCHANGED fds
    BY <1>5 DEF Unlink
  <2>2. \A q \in InView(J) : Walked(J, q) => ~IsStrictPrefix(p, q)
    BY <1>1, <1>2, <1>3, NotAbove
  <2>3. DOMAIN fds' = Slots
    BY <2>1 DEF ViewInv, Shape
  <2>4. \A i \in Slots : fds'[i] # NULL => fds'[i] = fds[i] /\ ~(fds[i].job = j /\ fds[i].path = p)
    BY <1>5, <2>1 DEF OpenOn
  <2> QED
    BY <1>1, <1>2, <2>1, <2>2, <2>3, <2>4, UnstageInv, ZenonT(30)
<1> QED
  BY <1>4, <1>5

\* rmdir
LEMMA RmdirStep ==
  ASSUME ViewInv, NEW j \in Job, NEW p \in Paths, Rmdir(j, p)
  PROVE  ViewInv'
<1> DEFINE J == job[j]
<1>1. /\ Running(j) /\ rmdir(J, p) = "OK" /\ job' = [job EXCEPT ![j] = Unstage(J, p)]
      /\ UNCHANGED <<phase, fds, disk, counter, handed, served, merged>>
  BY DEF Rmdir
<1>2. p \in DOMAIN J.staged /\ J.staged[p].kind = "directory" /\ ~has_children(J, p)
  BY <1>1, RmdirIs
<1>3. Lists(J) /\ Entries(J) /\ Apart(J)
  BY <1>1, RunningIs
<1>4. \A q \in InView(J) : ~IsStrictPrefix(p, q)
  BY <1>2, <1>3, NotBelow, UnderIs DEF InView, Lists, Apart, has_children
<1>5. disk' = disk \ Backing(J.staged[p])
  BY <1>1, <1>2 DEF Backing
<1>6. p \notin DOMAIN J.visible
  BY <1>2, <1>3, VisibleIs DEF Apart
<1>7. p # NULL
  BY PathsAre
<1>8. \A i \in Slots : fds'[i] # NULL => fds'[i] = fds[i] /\ ~(fds[i].job = j /\ fds[i].path = p)
  BY <1>1, <1>2, <1>6, <1>7, FdIs, ZenonT(30) DEF NamedIn
<1>9. DOMAIN fds' = Slots
  BY <1>1 DEF ViewInv, Shape
<1> QED
  BY <1>1, <1>2, <1>4, <1>5, <1>8, <1>9, UnstageInv, ZenonT(30)

\* rename
LEMMA RenameStep ==
  ASSUME ViewInv, NEW j \in Job, NEW f \in job[j].wrote, NEW t \in Paths, RenameRequest(j, f, t)
  PROVE  ViewInv'
<1> DEFINE J == job[j]
<1>1. /\ Running(j) /\ f # t /\ ~Under(t, f) /\ Reached(J, f) /\ Reached(J, t)
      /\ rename(J, f, t) = "OK" /\ move_members(J.wrote, f, t) \subseteq Paths
      /\ merged' = [merged EXCEPT ![j] = @ \/ has_children(J, t)]
      /\ UNCHANGED <<phase, counter, handed, served>>
  BY DEF RenameRequest
<1>2. MayMove(J, f, t) /\ ~is_visible(J, t)
  BY <1>1, RequestIs, ZenonT(30)
<1>3. f \in Paths
  BY <1>1, <1>2, RunningIs, ZenonT(30) DEF MayMove, Lists
<1>4. Walked(J, f) /\ Walked(J, t)
  BY <1>1, <1>3, ReachedIs
<1>5. CASE OpenOn(j, t) # {}
  <2>1. /\ MayHide(J, t) /\ job' = [job EXCEPT ![j] = Rename(Rename(J, t, HiddenIn(t)), f, t)]
        /\ fds' = [i \in Slots |-> IF i \in OpenOn(j, t) THEN [fds[i] EXCEPT !.path = HiddenIn(t)]
                                   ELSE Follow(j, f, t)[i]]
        /\ UNCHANGED disk
    BY <1>5 DEF RenameRequest
  <2> QED
    BY <1>1, <1>2, <1>4, <1>5, <2>1, HiddenRenameInv, ZenonT(30)
<1>6. CASE OpenOn(j, t) = {}
  <2>1. /\ job' = [job EXCEPT ![j] = Rename(J, f, t)] /\ fds' = Follow(j, f, t)
        /\ disk' = disk \ Replaced(J, t)
    BY <1>6 DEF RenameRequest
  <2> QED
    BY <1>1, <1>2, <1>4, <1>6, <2>1, PlainRenameInv, ZenonT(30)
<1> QED
  BY <1>5, <1>6

\* release
LEMMA ReleaseStep ==
  ASSUME ViewInv, NEW i \in Slots, Release(i)
  PROVE  ViewInv'
<1> DEFINE j == fds[i].job
           p == fds[i].path
           Final == /\ p # NULL /\ IsHidden(p) /\ OpenOn(j, p) = {i}
                   /\ Running(j) /\ Exists(job[j], p) /\ unlink(job[j], p) = "OK"
<1>1. /\ fds[i] # NULL /\ fds' = [fds EXCEPT ![i] = NULL]
      /\ UNCHANGED <<phase, counter, handed, served, merged>>
  BY DEF Release
<1>2. DOMAIN fds = Slots /\ \A l \in Slots : Named(l)
  BY DEF ViewInv, Shape
<1>3. DOMAIN fds' = Slots /\ fds'[i] = NULL /\ \A l \in Slots \ {i} : fds'[l] = fds[l]
  BY <1>1, <1>2
<1>4. CASE Final
  <2>1. disk' = disk \ Backing(job[j].staged[p]) /\ job' = [job EXCEPT ![j] = Unstage(job[j], p)]
    BY <1>4, ZenonT(30) DEF Release
  <2>2. j \in Job /\ NamedIn(job[j], fds[i])
    BY <1>1, <1>4, FdIs, ZenonT(30)
  <2>3. p \in DOMAIN job[j].staged
    BY <1>4, OwnedIs DEF unlink
  <2>4. p \notin DOMAIN job[j].visible
    <3>1. Lists(job[j]) /\ Entries(job[j]) /\ Apart(job[j])
      BY <1>4, <2>2, RunningIs
    <3>2. p \in Paths /\ ~is_visible(job[j], p)
      BY <2>3, <3>1, ZenonT(30) DEF Lists, Apart
    <3> QED
      BY <3>1, <3>2, VisibleIs
  <2>5. job[j].staged[p].kind # "directory"
    BY <2>2, <2>4, ZenonT(30) DEF NamedIn
  <2>6. \A q \in InView(job[j]) : Walked(job[j], q) => ~IsStrictPrefix(p, q)
    BY <1>4, <2>2, <2>3, <2>5, NotAbove, ZenonT(30)
  <2>7. \A l \in Slots : fds'[l] # NULL => fds'[l] = fds[l] /\ ~(fds[l].job = j /\ fds[l].path = p)
    BY <1>3, <1>4 DEF OpenOn
  <2>8. Running(j) /\ UNCHANGED <<phase, counter, handed, served, merged>>
    BY ONLY <1>1, <1>4
  <2> HIDE DEF j, p
  <2> QED
    BY ONLY ViewInv, <1>3, <2>1, <2>2, <2>3, <2>6, <2>7, <2>8, UnstageInv, ZenonT(30)
<1>5. CASE ~Final
  <2>1. UNCHANGED <<disk, job>>
    BY <1>5 DEF Release
  <2>2. ASSUME NEW l \in Slots PROVE Named(l)'
    <3>1. CASE l = i
      BY <1>3, <3>1 DEF Named
    <3>2. CASE l # i
      <4>1. fds'[l] = fds[l] /\ Named(l) /\ phase' = phase /\ job' = job
        BY <1>1, <1>2, <1>3, <2>1, <3>2
      <4> QED
        BY ONLY <4>1, ZenonT(30) DEF Named, Running
    <3> QED
      BY <3>1, <3>2
  <2> QED
    BY <1>1, <1>3, <2>1, <2>2, FdsInv
<1> QED
  BY <1>4, <1>5

\* The entry a job starts with.
LEMMA EmptyIs ==
  Lists(EmptyJob) /\ DOMAIN EmptyJob.staged = {} /\ DOMAIN EmptyJob.visible = {} /\ EmptyJob.read = {}
<1>1. DOMAIN None = {}
  BY DEF None
<1>2. /\ EmptyJob.visible = None /\ EmptyJob.read = {} /\ EmptyJob.wrote = {} /\ EmptyJob.paths = {}
      /\ EmptyJob.staged = None /\ IsEntry(EmptyJob)
  BY ZenonT(30) DEF EmptyJob, IsEntry
<1> HIDE DEF EmptyJob
<1> QED
  BY <1>1, <1>2 DEF Lists

\* A step of the job's wakebox: the entry of j becomes K, whose items it had
\* before, and its phase s; nobody else loses a backing object.
LEMMA PhaseInv ==
  ASSUME ViewInv, NEW j \in Job, NEW K, NEW s \in Phases,
         job' = [job EXCEPT ![j] = K], phase' = [phase EXCEPT ![j] = s],
         UNCHANGED <<fds, counter, served, merged>>,
         Lists(K), \A p \in DOMAIN K.staged : p \in DOMAIN job[j].staged /\ K.staged[p] = job[j].staged[p],
         handed' \in [Job -> SUBSET (1..counter)], \A k \in Job \ {j} : handed'[k] = handed[k],
         \A n \in handed'[j] : n \in handed[j] \/ Has(job[j], n),
         \A n \in disk : n \in disk' \/ Has(job[j], n),
         s = "running" => K.staged = None,
         (Idle(j) /\ Shown(j) /\ Served(j) /\ Seen(j))',
         \A i \in Slots : fds[i] # NULL /\ fds[i].job = j => Named(i)'
  PROVE  ViewInv'
<1>1. /\ Shape /\ phase'[j] = s /\ DOMAIN job' = Job /\ job'[j] = K
      /\ \A l \in Job \ {j} : job'[l] = job[l] /\ phase'[l] = phase[l]
  BY ZenonT(30) DEF ViewInv, Shape
<1>2. Shape'
  BY <1>1, ZenonT(30) DEF Shape
<1>3. \A n : Has(job[j], n) => \A l \in Job \ {j} : \A q \in DOMAIN job[l].staged : n \notin Backing(job[l].staged[q])
  BY ZenonT(30) DEF ViewInv, Sole, Has
<1>4. ASSUME NEW k \in Job
      PROVE  Lists(job'[k]) /\ Idle(k)' /\ Shown(k)' /\ Kept(k)' /\ Served(k)' /\ Seen(k)'
  <2>1. CASE k = j
    <3>1. Kept(k)'
      BY <1>1, <2>1 DEF Kept, None
    <3> QED
      BY <1>1, <2>1, <3>1
  <2>2. CASE k # j
    <3>1. Lists(job[k]) /\ Idle(k) /\ Shown(k) /\ Kept(k) /\ Served(k) /\ Seen(k)
      BY DEF ViewInv
    <3>2. job'[k] = job[k] /\ phase'[k] = phase[k] /\ served'[k] = served[k] /\ merged'[k] = merged[k]
      BY <1>1, <2>2
    <3>3. Lists(job'[k]) /\ Idle(k)' /\ Shown(k)' /\ Served(k)' /\ Seen(k)'
      BY ONLY <3>1, <3>2, ZenonT(30) DEF Idle, Shown, Served, Seen, Running
    <3>4. Kept(k)'
      <4> SUFFICES ASSUME phase[k] = "running", NEW p \in DOMAIN job[k].staged
                   PROVE  /\ Backing(job[k].staged[p]) \subseteq disk'
                          /\ \A l \in Job : Backing(job[k].staged[p]) \cap handed'[l] = {}
        BY <3>2, ZenonT(30) DEF Kept
      <4>1. /\ Backing(job[k].staged[p]) \subseteq disk
            /\ \A l \in Job : Backing(job[k].staged[p]) \cap handed[l] = {}
        BY <3>1, ZenonT(30) DEF Kept
      <4>2. \A n \in Backing(job[k].staged[p]) : ~Has(job[j], n)
        BY <1>3, <2>2
      <4> QED
        BY <4>1, <4>2, ZenonT(30)
    <3> QED
      BY <3>3, <3>4
  <2> QED
    BY <2>1, <2>2
<1>5. ASSUME NEW k \in Job, NEW p \in DOMAIN job'[k].staged
      PROVE  Sole(k, p)'
  <2>1. \A l \in Job : \A q \in DOMAIN job'[l].staged :
          q \in DOMAIN job[l].staged /\ job'[l].staged[q] = job[l].staged[q]
    <3> SUFFICES ASSUME NEW l \in Job
                 PROVE  \A q \in DOMAIN job'[l].staged :
                          q \in DOMAIN job[l].staged /\ job'[l].staged[q] = job[l].staged[q]
      BY ZenonT(30)
    <3>1. CASE l = j
      BY <1>1, <3>1, ZenonT(30)
    <3>2. CASE l # j
      BY <1>1, <3>2, ZenonT(30)
    <3> QED
      BY <3>1, <3>2, ZenonT(30)
  <2>2. Sole(k, p)
    BY <2>1, ZenonT(30) DEF ViewInv
  <2>3. counter' = counter
    BY ZenonT(30)
  <2> QED
    BY ONLY <1>5, <2>1, <2>2, <2>3, ZenonT(30) DEF Sole
<1>6. ASSUME NEW i \in Slots
      PROVE  Named(i)'
  <2>1. CASE fds[i] = NULL
    BY <2>1, ZenonT(30) DEF Named
  <2>2. CASE fds[i] # NULL /\ fds[i].job = j
    BY <2>2, ZenonT(30)
  <2>3. CASE fds[i] # NULL /\ fds[i].job # j
    <3>1. Named(i)
      BY ZenonT(30) DEF ViewInv
    <3>2. fds[i].job \in Job
      BY <2>3, <3>1, ZenonT(30) DEF Named
    <3>3. job'[fds[i].job] = job[fds[i].job] /\ phase'[fds[i].job] = phase[fds[i].job] /\ fds' = fds
      BY <1>1, <2>3, <3>2, ZenonT(30)
    <3> QED
      BY ONLY <3>1, <3>3, ZenonT(30) DEF Named, Running
  <2> QED
    BY <2>1, <2>2, <2>3, ZenonT(30)
<1> QED
  BY <1>2, <1>4, <1>5, <1>6, ZenonT(30) DEF ViewInv

\* wakebox opens the live file.
LEMMA AttachStep ==
  ASSUME ViewInv, NEW j \in Job, Attach(j)
  PROVE  ViewInv'
<1>1. /\ phase[j] = "none" /\ phase' = [phase EXCEPT ![j] = "attached"]
      /\ job' = [job EXCEPT ![j] = EmptyJob]
      /\ UNCHANGED <<fds, disk, counter, handed, served, merged>>
  BY DEF Attach
<1>2. /\ Shape /\ Served(j) /\ \A i \in Slots : Named(i)
  BY DEF ViewInv
<1>3. phase'[j] = "attached" /\ job'[j] = EmptyJob
  BY <1>1, <1>2 DEF Shape
<1>4. (Idle(j) /\ Shown(j) /\ Served(j) /\ Seen(j))'
  BY <1>1, <1>2, <1>3, ZenonT(30) DEF Idle, Shown, Served, Seen, Running
<1>5. \A i \in Slots : fds[i] # NULL => fds[i].job # j
  BY <1>1, <1>2, ZenonT(30) DEF Named
<1>6. handed' \in [Job -> SUBSET (1..counter)]
  BY <1>1, <1>2 DEF Shape
<1> QED
  BY <1>1, <1>4, <1>5, <1>6, EmptyIs, PhaseInv, ZenonT(30) DEF Phases

\* wakebox sends the visible entries.
LEMMA SendInputStep ==
  ASSUME ViewInv, NEW j \in Job, SendInput(j)
  PROVE  ViewInv'
<1> DEFINE K == [EmptyJob EXCEPT !.visible = Parse(Input[j])]
<1>1. /\ phase[j] = "attached" /\ phase' = [phase EXCEPT ![j] = "running"]
      /\ job' = [job EXCEPT ![j].visible = Parse(Input[j])]
      /\ UNCHANGED <<fds, disk, counter, handed, served, merged>>
  BY DEF SendInput
<1>2. /\ Shape /\ Idle(j) /\ Served(j) /\ \A i \in Slots : Named(i)
  BY DEF ViewInv
<1>3. job[j] = EmptyJob
  BY <1>1, <1>2 DEF Idle
<1>4. job' = [job EXCEPT ![j] = K]
  BY <1>1, <1>3
<1>5. /\ K.visible = Parse(Input[j]) /\ K.read = {} /\ K.wrote = {} /\ K.paths = {} /\ K.staged = None
      /\ IsEntry(K)
  BY DEF EmptyJob, IsEntry
<1>6. DOMAIN None = {}
  BY DEF None
<1> HIDE DEF K
<1>7. phase'[j] = "running" /\ job'[j] = K /\ served'[j] = {}
  BY <1>1, <1>2, <1>4 DEF Shape, Served
<1>8. Lists(K) /\ Apart(K) /\ ReadKnown(K)
  BY <1>5, <1>6 DEF Lists, Apart, ReadKnown
<1>9. Entries(K)
  BY <1>5, ParseIsClosed
<1>10. Tree(K)
  BY <1>5, <1>6, <1>9 DEF Tree, InView, Walked, IsDir, Entries
<1>11. (Idle(j) /\ Shown(j) /\ Served(j) /\ Seen(j))'
  BY <1>5, <1>7, <1>8, <1>10, ZenonT(30) DEF Idle, Shown, Served, Seen, Running
<1>12. \A i \in Slots : fds[i] # NULL => fds[i].job # j
  BY <1>1, <1>2, ZenonT(30) DEF Named
<1>13. handed' \in [Job -> SUBSET (1..counter)]
  BY <1>1, <1>2 DEF Shape
<1> QED
  BY <1>1, <1>4, <1>5, <1>6, <1>8, <1>11, <1>12, <1>13, PhaseInv, ZenonT(30) DEF Phases

\* What Job::dump reports of the staged items.
LEMMA ReportIs ==
  ASSUME NEW J
  PROVE  LET R == Report(J)
             S == {p \in DOMAIN J.staged : ~IsHidden(p) /\ J.staged[p].kind # "special"}
         IN  /\ R.inputs = J.read \ J.wrote
             /\ R.outputs = {p \in J.wrote : ~IsHidden(p) /\
                               ~(p \in DOMAIN J.staged /\ J.staged[p].kind = "special")}
             /\ DOMAIN R.staging = S /\ \A p \in S : R.staging[p] = J.staged[p]
  BY ZenonT(30) DEF Report, Restrict

\* wakebox asks for the report.
LEMMA DumpStep ==
  ASSUME ViewInv, NEW j \in Job, Dump(j)
  PROVE  ViewInv'
<1> DEFINE J == job[j]
           K == [J EXCEPT !.read = @ \ J.wrote]
           H == UNION {Backing(x) : x \in Range(Report(J).staging)}
<1>1. /\ phase[j] = "running" /\ phase' = [phase EXCEPT ![j] = "reported"]
      /\ handed' = [handed EXCEPT ![j] = H] /\ job' = [job EXCEPT ![j] = K]
      /\ UNCHANGED <<fds, disk, counter, served, merged>>
  BY DEF Dump
<1>2. /\ Shape /\ Idle(j) /\ Shown(j) /\ \A i \in Slots : Named(i)
      /\ \A p \in DOMAIN J.staged : Sole(j, p)
  BY DEF ViewInv
<1>3. Running(j)
  BY <1>1 DEF Running
<1>4. Lists(J) /\ Apart(J) /\ ReadKnown(J) /\ (~merged[j] => Tree(J))
  BY <1>3, RunningIs, ZenonT(30)
<1>5. K = [visible |-> J.visible, read |-> J.read \ J.wrote, wrote |-> J.wrote, paths |-> J.paths,
           staged |-> J.staged]
  BY <1>4 DEF Lists, IsEntry
<1>6. \A n \in H : Has(J, n)
  BY ReportIs DEF Range, Has
<1> HIDE DEF K, H
<1>7. /\ K.visible = J.visible /\ K.read = J.read \ J.wrote /\ K.staged = J.staged
      /\ K.wrote = J.wrote /\ K.paths = J.paths /\ IsEntry(K)
  BY ONLY <1>5 DEF IsEntry
<1>8. phase'[j] = "reported" /\ job'[j] = K
  BY <1>1, <1>2 DEF Shape
<1>9. Lists(K) /\ Apart(K) /\ ReadKnown(K)
  <2>1. \A q : is_visible(K, q) <=> is_visible(J, q)
    BY <1>7, SameVisible
  <2> QED
    BY ONLY <1>4, <1>7, <2>1 DEF Lists, Apart, ReadKnown
<1>10. \A q : Walked(J, q) => Walked(K, q)
  BY ONLY <1>7 DEF Walked, IsDir
<1>11. ~merged[j] => Tree(K)
  BY ONLY <1>4, <1>7, <1>10 DEF Tree, InView
<1>12. (Idle(j) /\ Shown(j) /\ Served(j) /\ Seen(j))'
  <2>1. J.visible = Parse(Input[j])
    BY <1>2, <1>3 DEF Shown
  <2> QED
    BY <1>1, <1>7, <1>8, <1>9, <1>11, <2>1, ZenonT(30) DEF Idle, Shown, Served, Seen
<1>13. \A x : NamedIn(J, x) => NamedIn(K, x)
  BY ONLY <1>7, <1>10 DEF NamedIn
<1>14. ASSUME NEW i \in Slots, fds[i] # NULL, fds[i].job = j
       PROVE  Named(i)'
  <2>1. /\ fds[i] = [job |-> fds[i].job, path |-> fds[i].path, what |-> fds[i].what]
        /\ fds[i].path # NULL => NamedIn(J, fds[i])
    BY <1>3, <1>14, FdIs, ZenonT(30)
  <2> QED
    BY <1>1, <1>8, <1>13, <1>14, <2>1 DEF Named
<1>15. \A n : Has(J, n) => n \in 1..counter
  BY <1>2 DEF Sole, Has
<1>16. handed' \in [Job -> SUBSET (1..counter)] /\ handed'[j] = H /\ \A k \in Job \ {j} : handed'[k] = handed[k]
  BY <1>1, <1>2, <1>6, <1>15, ZenonT(30) DEF Shape
<1> QED
  BY <1>1, <1>6, <1>7, <1>9, <1>12, <1>14, <1>16, PhaseInv, ZenonT(30) DEF Phases

\* wakebox closes the live file.
LEMMA DetachStep ==
  ASSUME ViewInv, NEW j \in Job, Detach(j)
  PROVE  ViewInv'
<1>1. /\ phase[j] \in {"attached", "running", "reported"} /\ phase' = [phase EXCEPT ![j] = "gone"]
      /\ job' = [job EXCEPT ![j] = EmptyJob] /\ UNCHANGED <<fds, counter, handed, served, merged>>
  BY ZenonT(30) DEF Detach
<1>2. /\ Shape /\ \A i \in Slots : Named(i)
  BY DEF ViewInv
<1>3. phase'[j] = "gone" /\ job'[j] = EmptyJob
  BY <1>1, <1>2 DEF Shape
<1>4. (Idle(j) /\ Shown(j) /\ Served(j) /\ Seen(j))'
  BY <1>3 DEF Idle, Shown, Served, Seen, Running
<1>5. ASSUME NEW i \in Slots, fds[i] # NULL, fds[i].job = j
      PROVE  Named(i)'
  BY <1>1, <1>2, <1>3, <1>5, ZenonT(30) DEF Named, Running
<1>6. \A n \in disk : n \in disk' \/ Has(job[j], n)
  BY DEF Detach, Has
<1>7. handed' \in [Job -> SUBSET (1..counter)]
  BY <1>1, <1>2 DEF Shape
<1> QED
  BY <1>1, <1>4, <1>5, <1>6, <1>7, EmptyIs, PhaseInv, ZenonT(30) DEF Phases

\* wake takes a reported file into the store.
LEMMA IngestStep ==
  ASSUME ViewInv, NEW j \in Job, NEW n, Ingest(j, n)
  PROVE  ViewInv'
<1>1. /\ n \in handed[j] /\ disk' = disk \ {n}
      /\ UNCHANGED <<phase, job, fds, counter, handed, served, merged>>
  BY DEF Ingest
<1>2. \A k \in Job : Kept(k)'
  BY <1>1, ZenonT(30) DEF ViewInv, Kept
<1>3. Shape /\ \A i \in Slots : Named(i)
  BY DEF ViewInv
<1>4. Shape' /\ \A i \in Slots : Named(i)'
  BY ONLY <1>1, <1>3, ZenonT(30) DEF Shape, Named, Running
<1>5. ASSUME NEW k \in Job
      PROVE  /\ Lists(job'[k]) /\ Idle(k)' /\ Shown(k)' /\ Served(k)' /\ Seen(k)'
             /\ \A p \in DOMAIN job'[k].staged : Sole(k, p)'
  <2>1. /\ Lists(job[k]) /\ Idle(k) /\ Shown(k) /\ Served(k) /\ Seen(k)
        /\ \A p \in DOMAIN job[k].staged : Sole(k, p)
    BY DEF ViewInv
  <2> QED
    BY ONLY <1>1, <2>1, ZenonT(30) DEF Idle, Shown, Served, Seen, Sole, Running
<1> QED
  BY <1>2, <1>4, <1>5, ZenonT(30) DEF ViewInv

-----------------------------------------------------------------------------
(* Theorems *)

\* It holds at first, when no job has an entry.
LEMMA ViewInvInit == Init => ViewInv
<1> SUFFICES ASSUME Init PROVE ViewInv
  OBVIOUS
<1>1. Shape
  BY DEF Init, Shape, Phases
<1>2. \A j \in Job : job[j] = EmptyJob /\ phase[j] = "none" /\ served[j] = {}
  BY DEF Init
<1>3. \A j \in Job : Lists(job[j]) /\ Idle(j) /\ Shown(j) /\ Kept(j) /\ Served(j) /\ Seen(j)
  BY <1>2, EmptyIs, ZenonT(30) DEF Idle, Shown, Kept, Served, Seen, Running
<1>4. \A j \in Job : \A p \in DOMAIN job[j].staged : Sole(j, p)
  BY <1>2, EmptyIs, ZenonT(30)
<1>5. \A i \in Slots : Named(i)
  BY DEF Init, Named
<1> QED
  BY <1>1, <1>3, <1>4, <1>5 DEF ViewInv

\* Every step keeps it.
LEMMA ViewInvNext == ViewInv /\ [Next]_vars => ViewInv'
<1> SUFFICES ASSUME ViewInv, [Next]_vars PROVE ViewInv'
  OBVIOUS
<1>1. CASE UNCHANGED vars
  <2>1. \A i \in Slots : Named(i)'
    BY <1>1, ZenonT(30) DEF vars, ViewInv, Named, Running
  <2> QED
    BY <1>1, <2>1, FdsInv, ZenonT(30) DEF vars, ViewInv, Shape
<1>2. CASE \E j \in Job : Attach(j) \/ SendInput(j) \/ Dump(j) \/ Detach(j)
  BY <1>2, AttachStep, SendInputStep, DumpStep, DetachStep
<1>3. ASSUME NEW j \in Job, NEW p \in Paths, MayCreate(j, p),
             \/ Mknod(j, p) \/ Mkdir(j, p) \/ Symlink(j, p)
             \/ \E i \in Slots : Create(j, p, i)
      PROVE  ViewInv'
  <2>1. ASSUME NEW k \in ItemKinds, MakeNode(j, p, k) PROVE ViewInv'
    BY <1>3, <2>1, MakeNodeStep
  <2>2. CASE Mknod(j, p) \/ Mkdir(j, p) \/ Symlink(j, p)
    BY <2>1, <2>2 DEF Mknod, Mkdir, Symlink, ItemKinds
  <2>3. CASE \E i \in Slots : Create(j, p, i)
    BY <1>3, <2>3, CreateStep
  <2> QED
    BY <1>3, <2>2, <2>3
<1>4. ASSUME NEW j \in Job, NEW p \in Paths,
             \/ Readlink(j, p) \/ Unlink(j, p) \/ Rmdir(j, p)
             \/ \E i \in Slots : Open(j, p, i)
      PROVE  ViewInv'
  BY <1>4, ReadlinkStep, UnlinkStep, RmdirStep, OpenStep
<1>5. ASSUME NEW j \in Job, NEW f \in job[j].wrote, NEW t \in Paths, Link(j, f, t) \/ RenameRequest(j, f, t)
      PROVE  ViewInv'
  BY <1>5, LinkStep, RenameStep
<1>6. CASE \E i \in Slots : Read(i) \/ Release(i)
  BY <1>6, ReadStep, ReleaseStep
<1>7. CASE \E j \in Job, n \in 1..MaxStaging : Ingest(j, n)
  BY <1>7, IngestStep
<1> QED
  BY <1>1, <1>2, <1>3, <1>4, <1>5, <1>6, <1>7, ZenonT(30) DEF Next

\* ViewInv holds throughout.
LEMMA ViewInvHolds == Spec => []ViewInv
  BY ViewInvInit, ViewInvNext, PTL DEF Spec

\* Whatever a job may change is staged: no operation of fuse-waked takes the
\* branch that works in the real workspace, for any jobs, paths and renames.
THEOREM WorkspaceStaysUntouched == Spec => []WorkspaceIsUntouched
<1>1. ViewInv => WorkspaceIsUntouched
  <2> SUFFICES ASSUME ViewInv, NEW j \in Job, NEW p \in job[j].wrote
               PROVE  /\ "workspace" \notin {chmod(job[j], p), chown(job[j], p), utimens(job[j], p),
                                             truncate(job[j], p), fallocate(job[j], p), unlink(job[j], p)}
                      /\ getattr(job[j], p) = "directory" => rmdir(job[j], p) # "workspace"
                      /\ \A t \in Paths : rename(job[j], p, t) # "workspace"
    BY DEF WorkspaceIsUntouched
  <2> DEFINE J == job[j]
  <2>1. Lists(J)
    BY DEF ViewInv
  <2>2. p \in DOMAIN J.staged /\ is_writeable(J, p) /\ is_readable(J, p) /\ J.staged[p].kind \in ItemKinds
    BY <2>1 DEF Lists, is_writeable, is_readable
  <2>3. p # << >>
    BY <2>1, <2>2, PathsAre DEF Lists
  <2> HIDE DEF J
  <2>4. \A F : Owned(J, p, F) = F[J.staged[p].kind]
    BY <2>2 DEF Owned
  <2>5. Owned(J, p, AnyKind) = "OK" /\ Owned(J, p, FileOnly) \in {"OK", "EISDIR", "EINVAL"}
    BY <2>2, <2>4 DEF AnyKind, FileOnly, ItemKinds
  <2>6. "workspace" \notin {chmod(J, p), chown(J, p), utimens(J, p), truncate(J, p), fallocate(J, p), unlink(J, p)}
    BY <2>5 DEF chmod, chown, utimens, truncate, fallocate, unlink
  <2>7. getattr(J, p) = "directory" => J.staged[p].kind = "directory"
    BY <2>2, <2>3 DEF getattr
  <2>8. J.staged[p].kind = "directory" => rmdir(J, p) # "workspace"
    BY <2>2, <2>4 DEF rmdir, AnyKind
  <2>9. \A t \in Paths : rename(J, p, t) # "workspace"
    BY <2>5 DEF rename
  <2> QED
    BY <2>6, <2>7, <2>8, <2>9 DEF J
<1> QED
  BY <1>1, ViewInvHolds, PTL

\* While a job runs its view is one tree: a directory lists what getattr finds
\* and access accepts, and nothing the job made covers what it was shown, at any
\* depth, until a rename replaces a directory that is not empty.
THEOREM ViewStaysCoherent == Spec => []ViewIsCoherent
<1>1. ViewInv => ViewIsCoherent
  <2> SUFFICES ASSUME ViewInv, NEW j \in Job, phase[j] = "running"
               PROVE  /\ \A p \in Paths :
                           /\ ~merged[j] => Exists(job[j], p) =
                                              /\ getattr(job[j], Parent(p)) = "directory"
                                              /\ Last(p) \in readdir(job[j], Parent(p))
                           /\ Exists(job[j], p) = (access(job[j], p, "R") = "OK")
                      /\ \A p \in DOMAIN job[j].staged : ~is_visible(job[j], p)
    BY ZenonT(30) DEF ViewIsCoherent
  <2> DEFINE J == job[j]
  <2>0. Running(j)
    BY DEF Running
  <2>1. Lists(J) /\ Entries(J) /\ Apart(J) /\ (~merged[j] => Tree(J))
    BY <2>0, RunningIs
  <2>2. \A q \in Paths : (Exists(J, q) <=> q \in InView(J)) /\ (getattr(J, q) = "directory" <=> IsDir(J, q))
    BY <2>0, ExistsIs
  <2>3. DOMAIN J.staged \subseteq Paths /\ DOMAIN J.visible \subseteq Paths /\ J.wrote = DOMAIN J.staged
    BY <2>1 DEF Lists, Entries
  <2>4. \A q \in DOMAIN J.staged : Backing(J.staged[q]) \subseteq disk
    BY DEF ViewInv, Kept
  <2>5. getattr(J, << >>) = "directory"
    BY PathsAre DEF getattr
  <2> HIDE DEF J
  <2>6. ASSUME NEW p \in Paths, ~merged[j]
        PROVE  Exists(J, p) <=> getattr(J, Parent(p)) = "directory" /\ Last(p) \in readdir(J, Parent(p))
    <3> DEFINE d == Parent(p)
    <3>1. p \in Seq(STRING) /\ p # << >> /\ (d = << >> \/ d \in Paths)
      BY PathsAre, ParentInPaths
    <3>2. /\ d \in Seq(STRING) /\ IsStrictPrefix(d, p) /\ Len(d) = Len(p) - 1 /\ Last(p) = p[Len(d) + 1]
      <4>1. d \in Seq(STRING) /\ Len(d) = Len(p) - 1 /\ IsStrictPrefix(d, p)
        BY <3>1, ParentIs
      <4>2. Len(p) \in Nat /\ Last(p) = p[Len(p)]
        BY <3>1 DEF Last
      <4> HIDE DEF d
      <4> QED
        BY ONLY <4>1, <4>2
    <3> HIDE DEF d
    <3>3. \A q : Under(q, d) <=> q \in Paths /\ IsStrictPrefix(d, q)
      BY <3>1, UnderIs, ZenonT(30)
    <3>4. \A n : n \in readdir(J, d) <=> \E q \in InView(J) : IsStrictPrefix(d, q) /\ n = q[Len(d) + 1]
      BY <2>3, <3>3 DEF readdir, InView
    <3>5. ASSUME Exists(J, p)
          PROVE  getattr(J, d) = "directory" /\ Last(p) \in readdir(J, d)
      <4>1. p \in InView(J) /\ Walked(J, p)
        BY <2>1, <2>2, <2>6, <3>5 DEF Tree
      <4>2. d \in Paths => IsDir(J, d)
        BY <3>2, <4>1 DEF Walked
      <4> QED
        BY <2>2, <2>5, <3>1, <3>2, <3>4, <4>1, <4>2
    <3>6. ASSUME getattr(J, d) = "directory", Last(p) \in readdir(J, d)
          PROVE  Exists(J, p)
      <4> PICK q \in InView(J) : IsStrictPrefix(d, q) /\ Last(p) = q[Len(d) + 1]
        BY <3>4, <3>6
      <4>1. q \in Paths /\ q \in Seq(STRING) /\ Walked(J, q)
        BY <2>1, <2>3, <2>6, PathsAre DEF InView, Tree
      <4>2. p = q \/ IsStrictPrefix(p, q)
        BY <3>1, <3>2, <4>1, SameName DEF d
      <4>3. p \in InView(J)
        BY <4>1, <4>2 DEF Walked, IsDir, InView
      <4> QED
        BY <2>2, <4>3
    <3> QED
      BY <3>5, <3>6 DEF d
  <2>7. ASSUME NEW p \in Paths
        PROVE  Exists(J, p) <=> access(J, p, "R") = "OK"
    <3>1. is_visible(J, p) <=> p \in DOMAIN J.visible
      BY <2>1, VisibleIs
    <3>2. is_readable(J, p) <=> p \in DOMAIN J.visible \/ p \in DOMAIN J.staged
      BY <2>1, <3>1 DEF is_readable, is_writeable, Lists
    <3>3. p \in DOMAIN J.staged /\ J.staged[p].kind \in {"file", "special"} => Backing(J.staged[p]) \cap disk # {}
      BY <2>4 DEF Backing
    <3>4. CASE ~is_readable(J, p)
      BY <2>2, <3>2, <3>4 DEF access, InView
    <3>5. CASE is_readable(J, p) /\ p \in DOMAIN J.staged
      BY <2>2, <3>3, <3>5 DEF access, InView
    <3>6. CASE is_readable(J, p) /\ p \notin DOMAIN J.staged
      BY <2>2, <3>2, <3>6 DEF access, InView
    <3> QED
      BY <3>4, <3>5, <3>6
  <2>8. \A p \in DOMAIN J.staged : ~is_visible(J, p)
    BY <2>1 DEF Apart
  <2>9. \A p \in Paths : Exists(J, p) \in BOOLEAN
    BY DEF Exists
  <2> QED
    BY <2>6, <2>7, <2>8, <2>9, ZenonT(30) DEF J
<1> QED
  BY <1>1, ViewInvHolds, PTL

\* Whenever Job::dump makes the report, its outputs are what it describes, each
\* with a staging file of its own that exists, and its inputs are visible paths
\* with every one whose bytes the job was given.
THEOREM ReportsAreFaithful == Spec => []ReportIsFaithful
<1>1. ViewInv => ReportIsFaithful
  <2> SUFFICES ASSUME ViewInv, NEW j \in Job, phase[j] = "running"
               PROVE  LET R == Report(job[j]) IN
                      /\ R.outputs = DOMAIN R.staging
                      /\ \A p \in R.outputs :
                           /\ Backing(R.staging[p]) \subseteq disk
                           /\ \A q \in R.outputs : p = q \/ Backing(R.staging[p]) \cap Backing(R.staging[q]) = {}
                      /\ served[j] \subseteq R.inputs
                      /\ R.inputs \subseteq DOMAIN job[j].visible \ R.outputs
    BY ZenonT(30) DEF ReportIsFaithful
  <2> DEFINE J == job[j]
             R == Report(J)
             S == {p \in DOMAIN J.staged : ~IsHidden(p) /\ J.staged[p].kind # "special"}
  <2>1. Running(j)
    BY DEF Running
  <2>2. Lists(J) /\ Entries(J) /\ Apart(J) /\ ReadKnown(J) /\ Disjoint(J)
    BY <2>1, RunningIs
  <2>3. J.wrote = DOMAIN J.staged /\ DOMAIN J.staged \subseteq Paths
    BY <2>2 DEF Lists
  <2>4. /\ R.inputs = J.read \ J.wrote
        /\ R.outputs = {p \in J.wrote : ~IsHidden(p) /\
                          ~(p \in DOMAIN J.staged /\ J.staged[p].kind = "special")}
        /\ DOMAIN R.staging = S /\ \A p \in S : R.staging[p] = J.staged[p]
    BY ReportIs
  <2>5. R.outputs = S
    BY ONLY <2>3, <2>4
  <2>6. \A p \in DOMAIN J.staged : Backing(J.staged[p]) \subseteq disk
    BY DEF ViewInv, Kept
  <2>7. served[j] \subseteq J.read \cap DOMAIN J.visible
    BY ZenonT(30) DEF ViewInv, Served
  <2>8. \A p \in DOMAIN J.staged : p \notin DOMAIN J.visible
    BY <2>2, <2>3, VisibleIs, ZenonT(30) DEF Apart
  <2>9. \A p \in S : p \in DOMAIN J.staged
    OBVIOUS
  <2> HIDE DEF R, S
  <2>10. R.outputs = DOMAIN R.staging
    BY <2>4, <2>5
  <2>11. \A p \in R.outputs :
           /\ Backing(R.staging[p]) \subseteq disk
           /\ \A q \in R.outputs : p = q \/ Backing(R.staging[p]) \cap Backing(R.staging[q]) = {}
    BY <2>2, <2>4, <2>5, <2>6, <2>9, ZenonT(30) DEF Disjoint
  <2>12. served[j] \subseteq R.inputs
    BY <2>3, <2>4, <2>7, <2>8
  <2>13. R.inputs \subseteq DOMAIN J.visible \ R.outputs
    BY <2>2, <2>3, <2>4, <2>5, <2>9 DEF ReadKnown
  <2> QED
    BY <2>10, <2>11, <2>12, <2>13, ZenonT(30) DEF R
<1> QED
  BY <1>1, ViewInvHolds, PTL

\* A file that a job has open stays writable through every rename and removal:
\* files_wrote has the name that write asks for.
THEOREM OpenFilesAlwaysWritable == Spec => []OpenFilesStayWritable
<1>1. ViewInv => OpenFilesStayWritable
  <2> SUFFICES ASSUME ViewInv, NEW i \in Slots, fds[i] # NULL, fds[i].path # NULL, fds[i].what # Blob,
                      phase[fds[i].job] = "running"
               PROVE  write(job[fds[i].job], fds[i].path) = "OK"
    BY DEF OpenFilesStayWritable
  <2>1. fds[i].job \in Job /\ NamedIn(job[fds[i].job], fds[i])
    BY FdIs, ZenonT(30) DEF Running
  <2>2. Lists(job[fds[i].job])
    BY <2>1, ZenonT(30) DEF ViewInv
  <2> QED
    BY <2>1, <2>2, ZenonT(30) DEF NamedIn, Lists, write, is_writeable
<1> QED
  BY <1>1, ViewInvHolds, PTL
=============================================================================
