------------------------------ MODULE MCDeploy ------------------------------
(* Three clients that share a binary, one of them on a dry run; or one with  *)
(* that binary beside one that has none for this host and one whose binary   *)
(* is stale or older than the handshake.                                     *)
EXTENDS Deploy, TLC

CONSTANTS c1, c2, c3, current, stale, old

MCCarried ==
  {[c \in Clients |-> current]} \cup
  {(c1 :> current @@ c2 :> None @@ c3 :> b) : b \in {stale, old}}
MCClientVersion == [c \in Clients |-> 2]
MCServerVersion == (current :> 2 @@ stale :> 1 @@ old :> 0)
=============================================================================
