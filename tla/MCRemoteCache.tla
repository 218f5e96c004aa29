--------------------------- MODULE MCRemoteCache ---------------------------
(***************************************************************************)
(* Two jobs of one invocation with one key: one that only pushes and one   *)
(* that does both.                                                         *)
(***************************************************************************)
EXTENDS RemoteCache, TLC

CONSTANTS j1, j2

MCJobs == {j1, j2}
MCKey == [j \in MCJobs |-> "key"]
MCPolicy == (j1 :> "push") @@ (j2 :> "pushpull")
MCInvocation == [j \in MCJobs |-> "wake"]
=============================================================================
