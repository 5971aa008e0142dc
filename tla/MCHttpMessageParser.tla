--------------------------- MODULE MCHttpMessageParser ---------------------------
(***************************************************************************)
(* The parser with a small counter: a chunk's length has up to three       *)
(* digits of radix 2 and remaining_ counts modulo 4, so that some lengths  *)
(* wrap and some, with leading zeroes, do not.                             *)
(***************************************************************************)
EXTENDS HttpMessageParser

================================================================================
