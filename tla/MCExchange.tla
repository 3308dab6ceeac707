----------------------------- MODULE MCExchange -----------------------------
(***************************************************************************)
(* Exchange for the pairs of programs that meet on a port of one host, and *)
(* for those that meet on a port the docker-compose files publish.         *)
(***************************************************************************)
EXTENDS Exchange

AnyPair == OnOneHost \cup Published
=============================================================================
