----------------------------- MODULE CommandLife -----------------------------
(***************************************************************************)
(* What an operator is promised of a scheduled command: it is entered,     *)
(* its runs begin inside its period and in their order, and it ends when   *)
(* nothing is left to run or somebody withdraws it, for good.  There is no *)
(* job store, no start of the server and no scheduler thread, so nothing   *)
(* here says that the row of a command and its job are stored apart.       *)
(***************************************************************************)
EXTENDS Integers

CONSTANTS Commands, Kind, ExeAt, StopAt, Grace, Workers

VARIABLES
    now,
    rows,        \* stored commands
    gone,        \* deleted, or never stored
    finished,
    mqtt,        \* edited to be IMMEDIATE
    off,         \* cancelled, and the cancel reached the job
    again,       \* the server died while it began a run
    fires        \* <<run time, worker>> of the runs that began

lifeVars == <<now, rows, gone, finished, mqtt, off, again, fires>>

Single(c) == Kind[c] # "PERIODIC"

\* Nothing of c is left to begin.
Spent(c) ==
    \/ Kind[c] = "ONETIME" /\ ExeAt[c] < now
    \/ Kind[c] = "PERIODIC" /\ StopAt[c] < now
    \/ (c \in mqtt \/ Kind[c] = "IMMEDIATE") /\ fires[c] # {}

Enter(c) ==
    /\ c \notin rows \union gone
    /\ rows' = rows \union {c}
    /\ UNCHANGED <<now, gone, finished, mqtt, off, again, fires>>

Delete(c) ==
    /\ c \in rows
    /\ rows' = rows \ {c} /\ gone' = gone \union {c}
    /\ UNCHANGED <<now, finished, mqtt, off, again, fires>>

Edit(c) ==
    /\ c \in rows \ finished
    /\ mqtt' = mqtt \union {c}
    /\ UNCHANGED <<now, rows, gone, finished, off, again, fires>>

Cancel(c) ==
    /\ c \in rows
    /\ finished' = finished \union {c}
    /\ off' \in {off, off \union {c}}
    /\ UNCHANGED <<now, rows, gone, mqtt, again, fires>>

Finish ==
    /\ \E S \in SUBSET {c \in rows \ finished : Spent(c)} : finished' = finished \union S
    /\ UNCHANGED <<now, rows, gone, mqtt, off, again, fires>>

\* A run begins at its time or within the grace after it.  The time of a
\* run is not before those of earlier ones, and there is one only unless
\* the command is periodic.
Begin(c, w) ==
    /\ c \notin off
    /\ \E t \in ExeAt[c]..now :
          /\ now - t <= Grace
          /\ IF Single(c) THEN fires[c] = {} \/ c \in again
                          ELSE t <= StopAt[c]
          /\ \A f \in fires[c] : f[1] <= t
          /\ fires' = [fires EXCEPT ![c] = @ \union {<<t, w>>}]
    /\ UNCHANGED <<now, rows, gone, finished, mqtt, off, again>>

\* The server dies, with inserts that were not committed.
Die ==
    /\ \E lost \in SUBSET (Commands \ rows) : gone' = gone \union lost
    /\ \E begun \in SUBSET Commands : again' = again \union begun
    /\ UNCHANGED <<now, rows, finished, mqtt, off, fires>>

Pass ==
    /\ now' = now + 1
    /\ UNCHANGED <<rows, gone, finished, mqtt, off, again, fires>>

LifeInit ==
    /\ now = 0 /\ rows = {} /\ gone = {} /\ finished = {} /\ mqtt = {} /\ off = {}
    /\ again = {} /\ fires = [c \in Commands |-> {}]

LifeNext ==
    \/ \E c \in Commands : Enter(c) \/ Delete(c) \/ Edit(c) \/ Cancel(c)
    \/ \E c \in Commands, w \in Workers : Begin(c, w)
    \/ Finish \/ Die \/ Pass

LifeSpec == LifeInit /\ [][LifeNext]_lifeVars
=============================================================================
