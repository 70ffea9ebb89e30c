------------------------- MODULE AgentLifecycle_proofs -------------------------
(***************************************************************************)
(* For every set of agents and all values of Life, Ahead and First: the    *)
(* date of the server is not later than the end of the token, one refresh  *)
(* command waits at a time, and a date or a token only ends when the       *)
(* refresh was prevented in each of the last Ahead ticks.                  *)
(*                                                                         *)
(* The argument: what the job has seen and what did not fail since is on   *)
(* its way to the agent (Offered), and was fetched or is with the agent    *)
(* once a poll followed the job (Given).  So a complete refresh leaves a   *)
(* date beyond Ahead, and the ticks since then and the ticks left always   *)
(* make up Ahead (DateKept, TokenKept).                                    *)
(***************************************************************************)
EXTENDS AgentLifecycle, TLAPS

ChosenWhileReading == job # "reading" => chosen = {}

Offered ==
    \A a \in Agents \ spoiled : job \in {"reading", "done"} =>
        \/ left[a] > Ahead \/ waiting[a] > 0 \/ a \in chosen
        \/ a \in asked /\ held[a] > 0

Given ==
    \A a \in polled \ spoiled : job = "done" =>
        held[a] > 0 /\ (left[a] > Ahead \/ a \in asked)

DateKept == \A a \in Agents : left[a] # NoDate => left[a] + idle[a] >= Ahead

TokenKept == \A a \in Agents \ lost : held[a] + idle[a] >= Ahead

Step == [Next]_vars
-----------------------------------------------------------------------------
(* TypeOK: every variable keeps its type, whatever is lost or fails. *)
LEMMA InitType == Init => TypeOK
  BY LifeAssumption, FirstAssumption DEF Init, TypeOK, NoDate

LEMMA RequestType ==
  ASSUME TypeOK, NEW a \in Agents, Request(a)
  PROVE  TypeOK'
<1> USE LifeAssumption, FirstAssumption DEF TypeOK, NoDate
<1>1. CASE Register(a)
  BY <1>1 DEF Register
<1>2. CASE Approve(a)
  BY <1>2 DEF Approve
<1>3. CASE Poll(a)
  BY <1>3 DEF Poll
<1>4. CASE PollReplyLost(a)
  BY <1>4 DEF PollReplyLost
<1>5. CASE Fetch(a)
  BY <1>5 DEF Fetch, DateOfToken
<1>6. CASE FetchReplyLost(a)
  BY <1>6 DEF FetchReplyLost, DateOfToken
<1>7. CASE FetchFails(a)
  BY <1>7 DEF FetchFails, server
<1>8. CASE Reinstall(a)
  BY <1>8 DEF Reinstall, server
<1>9. QED
  BY <1>1, <1>2, <1>3, <1>4, <1>5, <1>6, <1>7, <1>8 DEF Request

LEMMA TickType ==
  ASSUME TypeOK, Tick
  PROVE  TypeOK'
<1> USE LifeAssumption DEF TypeOK, NoDate, Less
<1>1. left' \in [Agents -> {NoDate} \union 0..Life]
  BY DEF Tick
<1>2. held' \in [Agents -> Nat]
  BY DEF Tick
<1>3. idle' \in [Agents -> 0..Ahead]
  BY DEF Tick
<1>4. QED
  BY <1>1, <1>2, <1>3 DEF Tick

LEMMA StepType ==
  ASSUME TypeOK, Step
  PROVE  TypeOK'
<1>1. CASE \E a \in Agents : Request(a)
  BY <1>1, RequestType
<1>2. CASE JobRead
  BY <1>2 DEF JobRead, TypeOK
<1>3. CASE JobCommit
  BY <1>3 DEF JobCommit, TypeOK
<1>4. CASE JobFails
  BY <1>4 DEF JobFails, TypeOK
<1>5. CASE Tick
  BY <1>5, TickType
<1>6. CASE UNCHANGED vars
  BY <1>6 DEF vars, server, TypeOK
<1>7. QED
  BY <1>1, <1>2, <1>3, <1>4, <1>5, <1>6 DEF Step, Next

THEOREM TypeCorrect == Spec => []TypeOK
<1>1. TypeOK /\ [Next]_vars => TypeOK'
  BY StepType DEF Step
<1>2. QED
  BY InitType, <1>1, PTL DEF Spec
-----------------------------------------------------------------------------
(* DateNotLater: every step that moves the date of the server moves the    *)
(* token with it, or loses the token (agent_api.py:225-234).               *)
LEMMA StepDateNotLater ==
  ASSUME TypeOK, DateNotLater, Step
  PROVE  DateNotLater'
<1> USE LifeAssumption, FirstAssumption DEF TypeOK, DateNotLater
<1>1. ASSUME NEW a \in Agents, Request(a)
      PROVE  DateNotLater'
  <2>1. CASE Register(a) \/ Approve(a) \/ Poll(a) \/ PollReplyLost(a) \/ FetchFails(a)
    BY <2>1 DEF Register, Approve, Poll, PollReplyLost, FetchFails, server
  <2>2. CASE Fetch(a)
    BY <2>2 DEF Fetch, DateOfToken
  <2>3. CASE FetchReplyLost(a)
    BY <2>3 DEF FetchReplyLost, DateOfToken
  <2>4. CASE Reinstall(a)
    BY <2>4 DEF Reinstall, server, NoDate
  <2>5. QED
    BY <1>1, <2>1, <2>2, <2>3, <2>4 DEF Request
<1>2. CASE JobRead \/ JobCommit \/ JobFails
  BY <1>2 DEF JobRead, JobCommit, JobFails
<1>3. CASE Tick
  BY <1>3 DEF Tick, Less, NoDate
<1>4. CASE UNCHANGED vars
  BY <1>4 DEF vars, server
<1>5. QED
  BY <1>1, <1>2, <1>3, <1>4 DEF Step, Next

THEOREM DateNeverLater == Spec => []DateNotLater
<1>1. Init => DateNotLater
  <2>1. ASSUME Init, NEW a \in Agents \ lost
        PROVE  left[a] <= held[a]
    <3>1. left[a] = NoDate /\ held[a] = First
      BY <2>1 DEF Init
    <3>2. QED
      BY <3>1, FirstAssumption DEF NoDate
  <2>2. QED
    BY <2>1 DEF DateNotLater
<1>2. TypeOK /\ DateNotLater /\ [Next]_vars => DateNotLater'
  BY StepDateNotLater DEF Step
<1>3. QED
  BY <1>1, <1>2, TypeCorrect, PTL DEF Spec
-----------------------------------------------------------------------------
(* OneRefreshWaits: the job passes over an agent a command waits for, and  *)
(* only the job adds one (agent.py:695-704).                               *)
LEMMA StepOneRefreshWaits ==
  ASSUME TypeOK, OneRefreshWaits, Step
  PROVE  OneRefreshWaits'
<1> USE DEF TypeOK, OneRefreshWaits
<1>1. ASSUME NEW a \in Agents, Request(a)
      PROVE  OneRefreshWaits'
  <2>1. CASE Poll(a) \/ PollReplyLost(a)
    BY <2>1 DEF Poll, PollReplyLost
  <2>2. CASE UNCHANGED <<waiting, chosen>>
    BY <2>2
  <2>3. QED
    BY <1>1, <2>1, <2>2 DEF Request, Register, Approve, Fetch, FetchReplyLost,
                            FetchFails, Reinstall, server
<1>2. CASE JobRead
  BY <1>2 DEF JobRead, Near
<1>3. CASE JobCommit
  BY <1>3 DEF JobCommit
<1>4. CASE JobFails
  BY <1>4 DEF JobFails
<1>5. CASE Tick \/ UNCHANGED vars
  BY <1>5 DEF Tick, vars, server
<1>6. QED
  BY <1>1, <1>2, <1>3, <1>4, <1>5 DEF Step, Next

THEOREM OneRefreshAtATime == Spec => []OneRefreshWaits
<1>1. Init => OneRefreshWaits
  <2>1. ASSUME Init, NEW a \in Agents
        PROVE  waiting[a] + (IF a \in chosen THEN 1 ELSE 0) <= 1
    <3>1. waiting[a] = 0 /\ a \notin chosen
      BY <2>1 DEF Init
    <3>2. QED
      BY <3>1
  <2>2. QED
    BY <2>1 DEF OneRefreshWaits
<1>2. TypeOK /\ OneRefreshWaits /\ [Next]_vars => OneRefreshWaits'
  BY StepOneRefreshWaits DEF Step
<1>3. QED
  BY <1>1, <1>2, TypeCorrect, PTL DEF Spec
-----------------------------------------------------------------------------
(* What the job has seen is on its way. *)
LEMMA StepChosen ==
  ASSUME ChosenWhileReading, Step
  PROVE  ChosenWhileReading'
  BY DEF ChosenWhileReading, Step, Next, Request, Register, Approve, Poll, PollReplyLost,
         Fetch, FetchReplyLost, FetchFails, Reinstall, JobRead, JobCommit, JobFails, Tick,
         vars, server

LEMMA StepOffered ==
  ASSUME TypeOK, ChosenWhileReading, Offered, Step
  PROVE  Offered'
<1> USE LifeAssumption DEF TypeOK, Offered
<1>1. ASSUME NEW a \in Agents, Request(a)
      PROVE  Offered'
  <2>1. CASE Register(a) \/ Approve(a) \/ FetchFails(a)
    BY <2>1 DEF Register, Approve, FetchFails, server
  <2>2. CASE Poll(a)
    BY <2>2 DEF Poll, Admitted
  <2>3. CASE PollReplyLost(a)
    BY <2>3 DEF PollReplyLost
  <2>4. CASE Fetch(a)
    BY <2>4 DEF Fetch, DateOfToken
  <2>5. CASE FetchReplyLost(a)
    BY <2>5 DEF FetchReplyLost
  <2>6. CASE Reinstall(a)
    BY <2>6 DEF Reinstall, server
  <2>7. QED
    BY <1>1, <2>1, <2>2, <2>3, <2>4, <2>5, <2>6 DEF Request
<1>2. CASE JobRead
  BY <1>2 DEF JobRead, Near, NoDate
<1>3. CASE JobCommit
  BY <1>3 DEF JobCommit
<1>4. CASE JobFails \/ Tick
  BY <1>4 DEF JobFails, Tick
<1>5. CASE UNCHANGED vars
  BY <1>5 DEF vars, server
<1>6. QED
  BY <1>1, <1>2, <1>3, <1>4, <1>5 DEF Step, Next

LEMMA StepGiven ==
  ASSUME TypeOK, ChosenWhileReading, Offered, Given, Step
  PROVE  Given'
<1> USE LifeAssumption DEF TypeOK, Given
<1>1. ASSUME NEW a \in Agents, Request(a)
      PROVE  Given'
  <2>1. CASE Register(a) \/ Approve(a) \/ FetchFails(a) \/ PollReplyLost(a)
    BY <2>1 DEF Register, Approve, FetchFails, PollReplyLost, server
  <2>2. CASE Poll(a)
    BY <2>2 DEF Poll, Admitted, Offered, ChosenWhileReading
  <2>3. CASE Fetch(a)
    BY <2>3 DEF Fetch, DateOfToken
  <2>4. CASE FetchReplyLost(a)
    BY <2>4 DEF FetchReplyLost
  <2>5. CASE Reinstall(a)
    BY <2>5, FirstAssumption DEF Reinstall, server
  <2>6. QED
    BY <1>1, <2>1, <2>2, <2>3, <2>4, <2>5 DEF Request
<1>2. CASE JobRead \/ JobCommit \/ JobFails \/ Tick
  BY <1>2 DEF JobRead, JobCommit, JobFails, Tick
<1>3. CASE UNCHANGED vars
  BY <1>3 DEF vars, server
<1>4. QED
  BY <1>1, <1>2, <1>3 DEF Step, Next

\* A complete refresh leaves a date beyond Ahead.
LEMMA CompleteIsFar ==
  ASSUME TypeOK, Given, NEW a \in Agents, Complete(a)
  PROVE  left[a] > Ahead
  BY DEF TypeOK, Given, Complete

LEMMA StepDateKept ==
  ASSUME TypeOK, Given, DateKept, Step
  PROVE  DateKept'
<1> USE LifeAssumption DEF TypeOK, DateKept
<1>1. ASSUME NEW a \in Agents, Request(a)
      PROVE  DateKept'
  <2>1. CASE Fetch(a) \/ FetchReplyLost(a)
    BY <2>1 DEF Fetch, FetchReplyLost, DateOfToken
  <2>2. CASE UNCHANGED <<left, idle>>
    BY <2>2
  <2>3. QED
    BY <1>1, <2>1, <2>2 DEF Request, Register, Approve, Poll, PollReplyLost, FetchFails,
                            Reinstall, server
<1>2. CASE JobRead \/ JobCommit \/ JobFails \/ UNCHANGED vars
  BY <1>2 DEF JobRead, JobCommit, JobFails, vars, server
<1>3. ASSUME Tick, NEW a \in Agents, left'[a] # NoDate
      PROVE  left'[a] + idle'[a] >= Ahead
  <2>1. left'[a] = Less(left[a])
    BY <1>3 DEF Tick
  <2>2. CASE Complete(a)
    <3>1. left[a] > Ahead
      BY <1>3, <2>2, CompleteIsFar
    <3>2. idle'[a] = 0
      BY <1>3, <2>2 DEF Tick
    <3>3. QED
      BY <2>1, <3>1, <3>2 DEF Less, NoDate
  <2>3. CASE ~Complete(a)
    <3>1. idle'[a] = IF idle[a] < Ahead THEN idle[a] + 1 ELSE Ahead
      BY <1>3, <2>3 DEF Tick
    <3>2. QED
      BY <1>3, <2>1, <3>1 DEF Less, NoDate
  <2>4. QED
    BY <2>2, <2>3
<1>4. QED
  BY <1>1, <1>2, <1>3 DEF Step, Next

LEMMA StepTokenKept ==
  ASSUME TypeOK, Given, DateNotLater, TokenKept, Step
  PROVE  TokenKept'
<1> USE LifeAssumption, FirstAssumption DEF TypeOK, TokenKept
<1>1. ASSUME NEW a \in Agents, Request(a)
      PROVE  TokenKept'
  <2>1. CASE Fetch(a)
    BY <2>1 DEF Fetch
  <2>2. CASE FetchReplyLost(a)
    BY <2>2 DEF FetchReplyLost
  <2>3. CASE Reinstall(a)
    BY <2>3 DEF Reinstall, server
  <2>4. CASE UNCHANGED <<held, idle, lost>>
    BY <2>4
  <2>5. QED
    BY <1>1, <2>1, <2>2, <2>3, <2>4 DEF Request, Register, Approve, Poll, PollReplyLost,
                                        FetchFails
<1>2. CASE JobRead \/ JobCommit \/ JobFails \/ UNCHANGED vars
  BY <1>2 DEF JobRead, JobCommit, JobFails, vars, server
<1>3. ASSUME Tick, NEW a \in Agents \ lost
      PROVE  held'[a] + idle'[a] >= Ahead
  <2>1. held'[a] = Less(held[a])
    BY <1>3 DEF Tick
  <2>2. CASE Complete(a)
    <3>1. held[a] > Ahead
      <4>1. a \in Agents /\ left[a] > Ahead
        BY <1>3, <2>2, CompleteIsFar
      <4>2. QED
        BY <1>3, <4>1 DEF DateNotLater, NoDate
    <3>2. QED
      BY <1>3, <2>1, <3>1 DEF Tick, Less
  <2>3. CASE ~Complete(a)
    <3>1. idle'[a] = IF idle[a] < Ahead THEN idle[a] + 1 ELSE Ahead
      BY <1>3, <2>3 DEF Tick
    <3>2. QED
      BY <1>3, <2>1, <3>1 DEF Less
  <2>4. QED
    BY <2>2, <2>3
<1>4. lost' = lost /\ (\A a \in Agents \ lost : held'[a] + idle'[a] >= Ahead) => TokenKept'
  OBVIOUS
<1>5. QED
  BY <1>1, <1>2, <1>3, <1>4 DEF Step, Next, Tick
-----------------------------------------------------------------------------
IInv ==
    /\ TypeOK /\ DateNotLater
    /\ ChosenWhileReading /\ Offered /\ Given
    /\ DateKept /\ TokenKept

LEMMA Inductive == Spec => []IInv
<1>1. Init => IInv
  <2>1. Init => ChosenWhileReading /\ Offered /\ Given
    BY DEF Init, ChosenWhileReading, Offered, Given
  <2>2. Init => DateKept /\ TokenKept /\ DateNotLater
    BY FirstAssumption, LifeAssumption DEF Init, DateKept, TokenKept, DateNotLater, NoDate
  <2>3. QED
    BY InitType, <2>1, <2>2 DEF IInv
<1>2. IInv /\ [Next]_vars => IInv'
  BY StepType, StepDateNotLater, StepChosen, StepOffered, StepGiven, StepDateKept,
     StepTokenKept DEF IInv, Step
<1>3. QED
  BY <1>1, <1>2, PTL DEF Spec

(* TokenOutlastsFailures: an agent whose token ended was prevented from a  *)
(* refresh in each of the last Ahead ticks, or lost a token it was sent.   *)
THEOREM TokenOutlasts == Spec => []TokenOutlastsFailures
<1>1. IInv => TokenOutlastsFailures
  BY LifeAssumption DEF IInv, TypeOK, TokenKept, TokenOutlastsFailures
<1>2. QED
  BY <1>1, Inductive, PTL

(* DateOutlastsFailures: the same of the date the server stores, a token   *)
(* lost or not.                                                            *)
THEOREM DateOutlasts == Spec => []DateOutlastsFailures
<1>1. IInv => DateOutlastsFailures
  BY LifeAssumption DEF IInv, TypeOK, DateKept, DateOutlastsFailures, NoDate
<1>2. QED
  BY <1>1, Inductive, PTL
=============================================================================
