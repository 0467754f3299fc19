------------------------------ MODULE MCBridge ------------------------------
(* A built-in tool b, and plugins that may bring tools of its name or of another. *)
EXTENDS Bridge

CONSTANTS b, p

OneBuiltin == <<b>>
=============================================================================
