----------------------------- MODULE MCRpcStubs -----------------------------
(***************************************************************************)
(* RpcStubs with three threads that share one connection.                  *)
(***************************************************************************)
EXTENDS RpcStubs
=============================================================================
