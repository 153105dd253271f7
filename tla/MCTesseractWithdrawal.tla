------------------------ MODULE MCTesseractWithdrawal ------------------------
(* The periodic task and the command line, with fees for three withdrawals. *)
EXTENDS TesseractWithdrawal

ASSUME WithdrawalConstants
=============================================================================
