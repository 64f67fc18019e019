------------------------- MODULE MCConnectionManager -------------------------
(***************************************************************************)
(* Three nodes for ConnectionManager: h is in the configuration of the     *)
(* others; n has little room for outbound peers, h little for inbound ones.*)
(***************************************************************************)
EXTENDS ConnectionManager, TLC

CONSTANTS h, n, p

MCNode == {h, n, p}

MCBootstrap == (h :> {<<>>}) @@ (n :> {<<h>>, <<h, p>>}) @@ (p :> {<<h>>, <<h, n>>})
MCInboundLimit == [m \in MCNode |-> 2]
MCOutboundLimit == [m \in MCNode |-> IF m = n THEN 1 ELSE 2]
MCLives == [m \in MCNode |-> IF m = n THEN 0 ELSE 1]
=============================================================================
