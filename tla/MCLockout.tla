------------------------------- MODULE MCLockout -------------------------------
(* Small instances of Lockout for TLC.                                         *)
EXTENDS Lockout
===============================================================================
