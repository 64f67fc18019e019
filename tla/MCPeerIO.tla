------------------------------ MODULE MCPeerIO ------------------------------
(***************************************************************************)
(* Two peers for PeerIO, one inbound (p) and one outbound (q).  The main   *)
(* thread announces a block, m.  q asks for something and is answered; p   *)
(* brings an item that the node announces, n, and does not answer.         *)
(***************************************************************************)
EXTENDS PeerIO, TLC

CONSTANTS p, q, m, n, ask, item

MCFrom == (ask :> q) @@ (item :> p)
MCSays == (ask :> <<>>) @@ (item :> <<<<n, p>>, <<n, q>>>>)
=============================================================================
