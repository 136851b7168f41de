---------------------------- MODULE MCFulfillment ----------------------------
(* Fulfillment on a small instance: one promise between two people, with   *)
(* windows of one or two days where the program has seven.                 *)
EXTENDS Fulfillment, TLC
=============================================================================
