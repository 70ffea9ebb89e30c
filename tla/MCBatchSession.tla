---------------------------- MODULE MCBatchSession ----------------------------
(* Instances of BatchSession.                                              *)
EXTENDS BatchSession, TLC

CONSTANTS d1, d2, p1, p2, r1
===============================================================================
