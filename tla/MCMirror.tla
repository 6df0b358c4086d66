------------------------------- MODULE MCMirror -------------------------------
(***************************************************************************)
(* A small instance of Mirror: two orders of one second each around a      *)
(* clock of a few seconds.                                                 *)
(***************************************************************************)
EXTENDS Mirror

CONSTANTS o1, o2, l1, l2

MCOrderDate == [o \in Orders |-> IF o = o1 THEN 1 ELSE 2]
MCTimes == 0..2
==============================================================================
