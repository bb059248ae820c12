------------------------------ MODULE MCNative ------------------------------
(***************************************************************************)
(* Small instances of NativeRecovery.                                      *)
(***************************************************************************)
EXTENDS NativeRecovery

=============================================================================
