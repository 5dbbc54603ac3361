-------------------------- MODULE MCMessageChannel --------------------------
(***************************************************************************)
(* Instances of MessageChannel.                                            *)
(***************************************************************************)
EXTENDS MessageChannel

CONSTANTS m1, m2

TwoMessages == {m1, m2}
=============================================================================
