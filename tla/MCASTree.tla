------------------------------ MODULE MCASTree ------------------------------
(***************************************************************************)
(* Plaintexts for ASTree: different primes, so that an operand lost or in  *)
(* another place shows in the result.                                      *)
(***************************************************************************)
EXTENDS ASTreeMeaning

MCPlain == <<3, 5, 7, 11, 13, 17, 19>>
=============================================================================
