---------------------------- MODULE AgentLifecycle ----------------------------
(***************************************************************************)
(* Registration and approval of an agent, and the refresh of its token.    *)
(*                                                                         *)
(* A cron job issues a GetRefreshToken command to every agent whose token  *)
(* is close to its end; the agent gets it with a poll and fetches a new    *)
(* token.  Each of these calls may fail or lose its response, and none is  *)
(* repeated: what was lost is made good by the job's next run.             *)
(*                                                                         *)
(* A tick is the period of the job, half a day.  Times are kept as what is *)
(* left of them, so no clock is needed.                                    *)
(***************************************************************************)
EXTENDS Integers

CONSTANTS
    Agents,
    Life,      \* ticks a fetched token is valid: 15 days
    Ahead,     \* ticks before its end the job begins to issue commands: 3 days
    First      \* ticks the token of an installation is valid

ASSUME LifeAssumption  == Life \in Nat /\ Ahead \in Nat /\ 0 < Ahead /\ Ahead < Life
ASSUME FirstAssumption == First \in Nat /\ Ahead <= First

NoDate == -1

VARIABLES
    \* the server
    reg,       \* "none", "new" (registered), "approved"
    left,      \* ticks to token_expiration_date, NoDate when it is null
    waiting,   \* GetRefreshToken rows in CREATE
    job,       \* the job in this tick: "due", "reading", "done", "failed"
    chosen,    \* agents the job has selected
    \* the agents
    held,      \* ticks the token of the agent is valid
    asked,     \* agents that have the command and not fetched yet
    \* what happened
    polled,    \* agents a response reached since the job of this tick
    spoiled,   \* agents the job of this tick did not see, or that failed since
    idle,      \* ticks in a row without a complete refresh, up to Ahead
    lost       \* the response with the last token did not reach the agent

server == <<reg, left, waiting, job, chosen>>
vars == <<server, held, asked, polled, spoiled, idle, lost>>

TypeOK ==
    /\ reg \in [Agents -> {"none", "new", "approved"}]
    /\ left \in [Agents -> {NoDate} \union 0..Life]
    /\ waiting \in [Agents -> Nat]
    /\ job \in {"due", "reading", "done", "failed"}
    /\ chosen \in SUBSET Agents
    /\ held \in [Agents -> Nat]
    /\ asked \in SUBSET Agents
    /\ polled \in SUBSET Agents /\ spoiled \in SUBSET Agents
    /\ idle \in [Agents -> 0..Ahead]
    /\ lost \in SUBSET Agents

Init ==
    /\ reg = [a \in Agents |-> "none"]
    /\ left = [a \in Agents |-> NoDate]
    /\ waiting = [a \in Agents |-> 0]
    /\ job = "due" /\ chosen = {}
    /\ held = [a \in Agents |-> First]
    /\ asked = {} /\ polled = {} /\ spoiled = {} /\ lost = {}
    /\ idle = [a \in Agents |-> 0]

-----------------------------------------------------------------------------
\* add_agent, and the edit form that approves or no longer approves it.
Register(a) ==
    /\ reg[a] = "none" /\ held[a] > 0
    /\ reg' = [reg EXCEPT ![a] = "new"]
    /\ UNCHANGED <<left, waiting, job, chosen, held, asked, polled, spoiled, idle, lost>>

Approve(a) ==
    /\ reg[a] # "none"
    /\ reg' = [reg EXCEPT ![a] = IF @ = "new" THEN "approved" ELSE "new"]
    /\ UNCHANGED <<left, waiting, job, chosen, held, asked, polled, spoiled, idle, lost>>

-----------------------------------------------------------------------------
(* get_closeto_token_expiry_bysch: agents without a row that waits and     *)
(* with a date that is near, or none.  Approved or not.                    *)
NearTooLate(a) == reg[a] # "none" /\ waiting[a] = 0 /\ left[a] < Ahead      \* mutant
NearAgain(a)   == reg[a] # "none" /\ left[a] <= Ahead                       \* mutant
Near(a)        == reg[a] # "none" /\ waiting[a] = 0 /\ left[a] <= Ahead

JobRead ==
    /\ job = "due"
    /\ job' = "reading"
    /\ chosen' = {a \in Agents : Near(a)}
    /\ spoiled' = {a \in Agents : reg[a] = "none"}
    /\ UNCHANGED <<reg, left, waiting, held, asked, polled, idle, lost>>

JobCommit ==
    /\ job = "reading"
    /\ job' = "done"
    /\ waiting' = [a \in Agents |-> IF a \in chosen THEN waiting[a] + 1 ELSE waiting[a]]
    /\ chosen' = {} /\ polled' = {}
    /\ UNCHANGED <<reg, left, held, asked, spoiled, idle, lost>>

\* One error loses the rows of all agents; so does a server that is down.
JobFails ==
    /\ job \in {"due", "reading"}
    /\ job' = "failed" /\ chosen' = {}
    /\ UNCHANGED <<reg, left, waiting, held, asked, polled, spoiled, idle, lost>>

-----------------------------------------------------------------------------
(* check_agent_approved and send_commands: every row that waits becomes    *)
(* SENDED.  The token of the agent has to be valid.                        *)
Admitted(a) == reg[a] = "approved" /\ held[a] > 0

Poll(a) ==
    /\ Admitted(a)
    /\ waiting' = [waiting EXCEPT ![a] = 0]
    /\ asked' = IF waiting[a] > 0 THEN asked \union {a} ELSE asked
    /\ polled' = polled \union {a}
    /\ UNCHANGED <<reg, left, job, chosen, held, spoiled, idle, lost>>

PollReplyLost(a) ==
    /\ Admitted(a) /\ waiting[a] > 0
    /\ waiting' = [waiting EXCEPT ![a] = 0]
    /\ spoiled' = spoiled \union {a}
    /\ UNCHANGED <<reg, left, job, chosen, held, asked, polled, idle, lost>>

\* getRefreshToken: the token, and the date update_expiration stores.
DateOffByOne == Life + 1                                                    \* mutant
DateOfToken == Life
Fetch(a) ==
    /\ a \in asked /\ held[a] > 0
    /\ left' = [left EXCEPT ![a] = DateOfToken]
    /\ held' = [held EXCEPT ![a] = Life]
    /\ asked' = asked \ {a} /\ lost' = lost \ {a}
    /\ UNCHANGED <<reg, waiting, job, chosen, polled, spoiled, idle>>

\* The agent gives up or tries again.
FetchReplyLost(a) ==
    /\ a \in asked /\ held[a] > 0
    /\ left' = [left EXCEPT ![a] = DateOfToken]
    /\ asked' \in {asked, asked \ {a}}
    /\ lost' = lost \union {a} /\ spoiled' = spoiled \union {a}
    /\ UNCHANGED <<reg, waiting, job, chosen, held, polled, idle>>

FetchFails(a) ==
    /\ a \in asked
    /\ asked' = asked \ {a}
    /\ spoiled' = spoiled \union {a}
    /\ UNCHANGED <<server, held, polled, idle, lost>>

\* An agent whose token has ended is installed again by hand.
Reinstall(a) ==
    /\ held[a] = 0
    /\ held' = [held EXCEPT ![a] = First]
    /\ asked' = asked \ {a}
    /\ UNCHANGED <<server, polled, spoiled, idle, lost>>

-----------------------------------------------------------------------------
Less(n) == IF n > 0 THEN n - 1 ELSE n

\* The job ran, a poll after it got through, and a command that came with
\* it was carried out.
Complete(a) == job = "done" /\ a \in polled /\ a \notin asked \union spoiled

Tick ==
    /\ job \in {"done", "failed"}
    /\ job' = "due"
    /\ left' = [a \in Agents |-> Less(left[a])]
    /\ held' = [a \in Agents |-> Less(held[a])]
    /\ idle' = [a \in Agents |-> IF Complete(a) THEN 0
                                 ELSE IF idle[a] < Ahead THEN idle[a] + 1 ELSE Ahead]
    /\ UNCHANGED <<reg, waiting, chosen, asked, polled, spoiled, lost>>

Request(a) ==
    \/ Register(a) \/ Approve(a)
    \/ Poll(a) \/ PollReplyLost(a)
    \/ Fetch(a) \/ FetchReplyLost(a) \/ FetchFails(a)
    \/ Reinstall(a)

Next ==
    \/ \E a \in Agents : Request(a)
    \/ JobRead \/ JobCommit \/ JobFails \/ Tick

Spec == Init /\ [][Next]_vars
-----------------------------------------------------------------------------
(* The token of an agent ends only after the refresh was prevented in each *)
(* of the last Ahead ticks (six in the code: 3 days, every 12 hours), or   *)
(* after a response with a token was lost (jobs.py:18, agent.py:693-752).  *)
TokenOutlastsFailures ==
    \A a \in Agents : held[a] = 0 => a \in lost \/ idle[a] = Ahead

(* The date in the database, which decides when the job acts and what the  *)
(* list shows, is not later than the end of the token the agent has,       *)
(* unless a response with a token was lost (agent_api.py:229-234).         *)
DateNotLater ==
    \A a \in Agents \ lost : left[a] <= held[a]

(* However long an agent is away, one refresh command waits for it.        *)
OneRefreshWaits == \A a \in Agents : waiting[a] + (IF a \in chosen THEN 1 ELSE 0) <= 1

(* After a lost response, or whatever else, the job acts again before the  *)
(* date it has stored: a date only ends when the last Ahead runs of the    *)
(* job or the polls after them failed.                                     *)
DateOutlastsFailures ==
    \A a \in Agents : left[a] = 0 => idle[a] = Ahead
=============================================================================
