----------------------------- MODULE RpcClientMC -----------------------------
(* RpcClient for TLC: two channels, one or two functors queued at a time. *)
EXTENDS RpcClient
=============================================================================
