------------------------ MODULE MCInviteTransactions ------------------------
(* InviteTransactions on small instances: two devices of the creator, and  *)
(* one person or nobody answering.                                         *)
EXTENDS InviteTransactions
=============================================================================
