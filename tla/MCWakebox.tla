----------------------------- MODULE MCWakebox -----------------------------
(* Specs with and without a timeout, a namespace and a new root. *)
EXTENDS Wakebox

Op(type, source, dest) == [type |-> type, source |-> source, dest |-> dest]
W == <<"w">>
SomeOps ==
  { << >>,
    <<Op("workspace", NULL, W)>>,
    <<Op("tmpfs", NULL, <<"t">>), Op("workspace", NULL, <<"t", "w">>), Op("bind", W, W)>>,
    <<Op("squashfs", W, << >>), Op("create-dir", NULL, W), Op("workspace", NULL, W)>>,
    <<Op("workspace", NULL, W), Op("bind", <<"t">>, << >>), Op("squashfs", W, NULL)>> }
SomeVisible ==
  { << >>, <<[type |-> "regular", hash |-> TRUE], [type |-> "directory", hash |-> FALSE]>>,
    <<[type |-> "fifo", hash |-> TRUE]>>, <<[type |-> "symlink", hash |-> FALSE]>> }
SomeSpecs ==
  [command : {TRUE}, timeout : {NULL, 1}, pids : BOOLEAN, isolate : BOOLEAN,
   ops : SomeOps, visible : {<<[type |-> "regular", hash |-> TRUE]>>}]
  \cup [command : BOOLEAN, timeout : {NULL, 0}, pids : {TRUE}, isolate : {TRUE},
        ops : {<< >>}, visible : SomeVisible]
SomeToolchain == <<"t">>
SomeStatuses == {[code |-> 0, sig |-> 0], [code |-> 3, sig |-> 0], [code |-> 0, sig |-> 9]}
=============================================================================
