---------------------------- MODULE MCIdentityOps ----------------------------
(* Small instances of IdentityOps for TLC.                                  *)
EXTENDS IdentityOps
==============================================================================
