-------------------------- MODULE MCCommandScheduler --------------------------
(* Small instances of CommandScheduler.                                    *)
EXTENDS CommandScheduler, TLC

CONSTANTS once, cyclic, batch

\* A PERIODIC agent command at 1 and 2, and an IMMEDIATE batch function.
CyclicKind == cyclic :> "PERIODIC" @@ batch :> "IMMEDIATE"
CyclicExe == cyclic :> 1 @@ batch :> 0
CyclicStop == cyclic :> 2 @@ batch :> 0

\* Bounds: the batch function is entered in the first tick and not deleted,
\* and at most one edit is in force, not a cancel_yn that changes nothing.
BatchFirst == now > 0 => batch \in rows \/ tx[batch] = "over"
BatchStays == tx[batch] # "delete"
OneEdit == Cardinality(mqtt) + Cardinality(withdrawn) <= 1 /\ batch \notin withdrawn

\* A ONETIME agent command due at 1.
OnceKind == once :> "ONETIME"
OnceExe == once :> 1
OnceStop == once :> 0
=============================================================================
