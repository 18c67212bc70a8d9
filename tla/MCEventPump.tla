---------------------------- MODULE MCEventPump ----------------------------
(***************************************************************************)
(* Small instances of EventPump for TLC.                                   *)
(***************************************************************************)
EXTENDS EventPumpProps
============================================================================
