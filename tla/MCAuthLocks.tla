------------------------------ MODULE MCAuthLocks ------------------------------
(* Small instances of AuthLocks for TLC.                                       *)
EXTENDS AuthLocks
===============================================================================
