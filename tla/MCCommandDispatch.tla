-------------------------- MODULE MCCommandDispatch --------------------------
(* Small instances of CommandDispatch.                                     *)
EXTENDS CommandDispatch, TLC

CONSTANTS a1, c1, c2

\* One agent: c1 is pushed, c2 is a periodic command.
MCTargets == [c \in {c1, c2} |-> {a1}]
OnePath == [c \in {c1, c2} |-> [a \in {a1} |-> 1]]

\* One agent and the pushed command.
OnlyC1 == c1 :> {a1}
PathOfC1 == c1 :> (a1 :> 1)
=============================================================================
