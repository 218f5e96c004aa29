----------------------------- MODULE MCFuseView -----------------------------
(* A visible directory with a file, and two directories a job may make. *)
EXTENDS FuseView, TLC

CONSTANT j1

Names == {"a", "d", "e"}
SomePaths ==
  {<<n>> : n \in Names} \cup {<<n, "x">> : n \in Names}
  \cup {<<"d", Hidden>>, <<"e", Hidden>>}
SomeInput == [j \in Job |-> <<"a", "x">> :> "file"]
=============================================================================
