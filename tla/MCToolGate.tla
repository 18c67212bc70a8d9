----------------------------- MODULE MCToolGate -----------------------------
(***************************************************************************)
(* Small instances of ToolGate for TLC.                                    *)
(***************************************************************************)
EXTENDS ToolGateProps
============================================================================
