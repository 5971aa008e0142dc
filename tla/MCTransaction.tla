------------------------------ MODULE MCTransaction ------------------------------
(***************************************************************************)
(* A request and a response that come in up to two and three pieces, and a *)
(* tunnel with two bytes one way and one the other.                        *)
(***************************************************************************)
EXTENDS TransactionProperties

MCMaxBytes == [ request |-> 2, response |-> 3, up |-> 2, down |-> 1 ]
================================================================================
