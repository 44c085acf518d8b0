---------------------------- MODULE MCPtyDriver ----------------------------
(* One run of either kind: a transfer's two questions or an unstake's.      *)
EXTENDS PtyDriver
=============================================================================
