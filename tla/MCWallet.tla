------------------------------ MODULE MCWallet ------------------------------
(***************************************************************************)
(* Two deposits and two requests for Wallet: one is covered by either      *)
(* deposit, and has change from the larger; all takes the larger or both.  *)
(***************************************************************************)
EXTENDS Wallet, TLC

CONSTANTS one, all, d, e

MCNeed == (one :> 1) @@ (all :> 2)
MCWorth == (d :> 2) @@ (e :> 1)
=============================================================================
