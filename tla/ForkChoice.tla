----------------------------- MODULE ForkChoice -----------------------------
(***************************************************************************)
(* What the chain manager promises to the rest of a node: one chain from   *)
(* genesis, valid as a ledger, which changes only to a heavier such chain. *)
(* A change that an exception breaks off leaves the first part of the      *)
(* chain; the total difficulty is wrong from then on, and the chain that   *)
(* comes next need not be a heavier one.                                   *)
(***************************************************************************)
EXTENDS BlockTree

VARIABLES chain, broken

Init == chain = <<Genesis>> /\ broken = FALSE

\* The chain is extended, or replaced from some block on.
Adopt == /\ ValidChain(chain')
         /\ broken \/ Len(chain') > Len(chain)
         /\ UNCHANGED broken

\* The chain is being replaced, and what was to follow does not fit.
BreakOff == /\ IsPrefix(chain', chain)
            /\ chain' # <<>>
            /\ broken' = TRUE

Spec == Init /\ [][Adopt \/ BreakOff]_<<chain, broken>>
=============================================================================
