----------------------------- MODULE CommandLedger -----------------------------
(***************************************************************************)
(* What the command tables promise, whatever happens to the requests that  *)
(* work on them: the abstract view of ag_command_detail.                   *)
(*                                                                         *)
(* A lane is the sequence of the details of one command for one agent.  A  *)
(* run adds the next rows of some lanes at once; it never adds to a lane   *)
(* in which a row still waits.  A row that waits is handed out or          *)
(* finished, a row that was handed out is finished, and nothing is undone. *)
(***************************************************************************)
EXTENDS Integers

CONSTANTS Commands, Agents, MaxSeq

VARIABLE stage    \* the stage of every row (command, agent, repetition_seq)

Row == Commands \X Agents \X (1..MaxSeq)

SameLane(r, s) == r[1] = s[1] /\ r[2] = s[2]
Waits(r) == \E s \in Row : SameLane(r, s) /\ stage[s] = "waiting"

LedgerInit == stage = [r \in Row |-> "absent"]

\* The rows of a run: absent, in lanes where nothing waits, and gapless.
Fits(run) ==
    /\ \A r \in run : stage[r] = "absent" /\ ~Waits(r)
    /\ \A r \in run, s \in Row :
          SameLane(r, s) /\ s[3] < r[3] => stage[s] # "absent" \/ s \in run

Issue ==
    \E run \in SUBSET Row :
        /\ Fits(run)
        /\ stage' = [r \in Row |-> IF r \in run THEN "waiting" ELSE stage[r]]

HandOut ==
    \E rows \in SUBSET Row :
        /\ \A r \in rows : stage[r] = "waiting"
        /\ stage' = [r \in Row |-> IF r \in rows THEN "handed" ELSE stage[r]]

Finish ==
    \E r \in Row :
        /\ stage[r] \in {"waiting", "handed"}
        /\ stage' = [stage EXCEPT ![r] = "finished"]

LedgerNext == Issue \/ HandOut \/ Finish

LedgerSpec == LedgerInit /\ [][LedgerNext]_stage
=============================================================================
