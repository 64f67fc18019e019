----------------------------- MODULE MCMemPool -----------------------------
(***************************************************************************)
(* Small pools for MemPool.  t1 and t2 pay the same amount to one key (k2), *)
(* and so do t2 and t3 (k3); t2 and t4 spend the same output; t5 pays two   *)
(* equal outputs.                                                          *)
(***************************************************************************)
EXTENDS MemPool

MCTx == {"t1", "t2", "t3", "t4", "t5"}

MCFee == [t \in Tx |-> IF t \in {"t1", "t4"} THEN 2 ELSE 1]
MCOutKey == {"k1", "k2", "k3", "k4", "k5"}
MCPays == [t \in Tx |-> CASE t = "t1" -> <<"k1", "k2">>
                          [] t = "t2" -> <<"k2", "k3">>
                          [] t = "t3" -> <<"k3">>
                          [] t = "t4" -> <<"k4">>
                          [] t = "t5" -> <<"k5", "k5">>]
MCOutPoint == {"o1", "o2", "o3", "o5"}
MCInputs == [t \in Tx |-> CASE t = "t1" -> {"o1"}
                            [] t \in {"t2", "t4"} -> {"o2"}
                            [] t = "t3" -> {"o3"}
                            [] t = "t5" -> {"o5"}]

\* Blocks of one or two transactions, in either order.
MCBodies == {<<t>> : t \in Tx}
            \cup {<<p[1], p[2]>> : p \in {q \in Tx \X Tx : q[1] # q[2]}}
=============================================================================
