------------------------------ MODULE MCSched ------------------------------
(***************************************************************************)
(* Sched for TLC: pages are interchangeable.                               *)
(***************************************************************************)
EXTENDS Sched, TLC

PageSymmetry == Permutations(Pages)
=============================================================================
