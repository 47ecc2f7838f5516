----------------------------- MODULE MCEnrollment -----------------------------
(***************************************************************************)
(* Instances of Enrollment: two connections, one device name and one       *)
(* device key, against an operator with a few edits.                       *)
(***************************************************************************)
EXTENDS Enrollment, TLC

(* The connections are interchangeable.                                      *)
Connections == Permutations(Task)
===============================================================================
