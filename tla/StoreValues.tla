---------------------------- MODULE StoreValues ----------------------------
(***************************************************************************)
(* What the modules of the stores share.                                   *)
(***************************************************************************)
CONSTANT
    None            \* Python's None
=============================================================================
