---------------------------- MODULE MCWebRelation ----------------------------
(* Instances of WebRelation.                                               *)
EXTENDS WebRelation, TLC

CONSTANTS a1, a2, w1, w2, c1, c2

\* a1 is a JEUS domain with connector c1, a2 another with c2.  A connector
\* names the address of w2, which is part of a VIP of w1 (vip_address is
\* matched with LIKE), or it is local on the host of w1.
MCOwner == c1 :> a1 @@ c2 :> a2
MCConfs == {[to |-> {w1, w2}, near |-> {w2}], [to |-> {w1}, near |-> {w1, w2}]}
==============================================================================
