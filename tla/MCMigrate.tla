---------------------------- MODULE MCMigrate ----------------------------
(***************************************************************************)
(* wake-migrate on databases of every version from 5 to 17 with two jobs,  *)
(* three files and one wake beside it.                                     *)
(***************************************************************************)
EXTENDS Migrate

Row(j, f, a) == [job |-> j, file |-> f, access |-> a]

\* ok reads the source and writes the directory, bad reads the directory and
\* only sees the link.
TreeRows == {Row("ok", "src", 1), Row("ok", "dir", 2), Row("bad", "dir", 1), Row("bad", "link", 0)}

Status(v, failed) == IF v < 9 THEN (IF failed /\ v > 6 THEN 1 ELSE 0)
                     ELSE IF failed THEN NumericReturnCode(1) ELSE NULL

FileKind == ("src" :> "file") @@ ("dir" :> "directory") @@ ("link" :> "symlink")

FileRow(v, f) == [type |-> IF v < 10 THEN "" ELSE FileKind[f], dirhash |-> f = "dir",
                  modified |-> IF v < 13 THEN 2 ELSE 0]

Database(v) ==
  [user_version |-> IF v < 9 THEN 0 ELSE v, schema |-> {v},
   jobs |-> ("ok" :> Status(v, FALSE)) @@ ("bad" :> Status(v, TRUE)),
   files |-> [f \in DOMAIN FileKind |-> FileRow(v, f)],
   tree |-> [r \in TreeRows |-> IF v < 13 THEN 0 ELSE 2],
   log |-> {"ok", "bad"}, tags |-> {"bad"}, unhashed |-> {"ok"}]

Empty == [user_version |-> 0, schema |-> {}, jobs |-> <<>>, files |-> <<>>, tree |-> <<>>,
          log |-> {}, tags |-> {}, unhashed |-> {}]

SomeFound == {Database(v) : v \in 5 .. 17} \union {Empty}

SomeWorkspaces == {[f \in {"src", "dir", "link", "new"} |->
                      IF f \in gone \union {"new"} THEN "gone" ELSE FileKind[f]]
                   : gone \in SUBSET {"src", "dir", "link"}}
=============================================================================
