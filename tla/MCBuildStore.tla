---------------------------- MODULE MCBuildStore ----------------------------
(* Small workspaces for BuildStore. *)
EXTENDS BuildStore, TLC

CONSTANTS p1, p2, h1, h2, k1, k2

\* Two jobs that write the same path with contents of their own; the second
\* reads the path too.
ClashOutcomes == k1 :> {{<<p1, h1>>}} @@ k2 :> {{<<p1, h2>>}}
ClashVisible == k1 :> {} @@ k2 :> {p1}
ClashReads == k1 :> {} @@ k2 :> {p1}
OwnCommand == k1 :> k1 @@ k2 :> k2

\* Two jobs that write the same file.
SameOutcomes == k1 :> {{<<p1, h1>>}} @@ k2 :> {{<<p1, h1>>}}
NoReads == k1 :> {} @@ k2 :> {}
=============================================================================
