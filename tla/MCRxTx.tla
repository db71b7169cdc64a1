------------------------------- MODULE MCRxTx -------------------------------
(***************************************************************************)
(* Instances of RxTx: two hosts share the one entry of the address table,  *)
(* and one task sends besides the reception task.                          *)
(***************************************************************************)
EXTENDS RxTx, TLC

CONSTANTS h1, h2, a1, a2
MCOwns == (h1 :> {a1}) @@ (h2 :> {a2})
=============================================================================
