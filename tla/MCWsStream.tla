------------------------------ MODULE MCWsStream ------------------------------
(* Instances of WsStream for TLC. *)
EXTENDS WsStream, Bitwise

BitXor(a, b) == a ^^ b

TwoBytes == <<9, 14>>
===============================================================================
