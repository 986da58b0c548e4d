---------------------------- MODULE HandleNumbers ----------------------------
(***************************************************************************)
(* The number the allocation query of insertAtNextHandle computes: of the  *)
(* series from 1 to one past the highest number in use, the lowest that is *)
(* not in use.                                                             *)
(***************************************************************************)
EXTENDS Naturals

IsNextHandle(n, used) ==
  /\ n \notin used
  /\ \A m \in 1 .. (n - 1) : m \in used

=============================================================================
