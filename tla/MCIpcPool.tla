----------------------------- MODULE MCIpcPool ------------------------------
(* IpcPool with a few callers and connections.                            *)
EXTENDS IpcPool
=============================================================================
