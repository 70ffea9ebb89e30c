--------------------------- MODULE CommandDispatch ---------------------------
(***************************************************************************)
(* How one command reaches the agents and how its result comes back.       *)
(*                                                                         *)
(* A command master (AgCommandMaster) names target agents.  One            *)
(* transaction (create_command_detail) writes a detail row per agent and   *)
(* per target file path; after its commit the rows of an MQTT command are  *)
(* pushed through the broker and marked MQTT by a second transaction       *)
(* (flush_mqtt_pending).  Whatever is still CREATE is handed to the agent  *)
(* when it polls (send_commands), which marks it SENDED.  The agent posts  *)
(* its result over REST (add_result).                                      *)
(*                                                                         *)
(* The database runs at READ COMMITTED: a statement sees the rows that are *)
(* committed when it starts, and an UPDATE waits for the row locks of      *)
(* other open transactions.  Every window between two statements in which  *)
(* another request can run is a pair of actions here.                      *)
(***************************************************************************)
EXTENDS Integers, FiniteSets, FiniteSetsExt

CONSTANTS
    Agents,       \* agents that are registered and approved
    Commands,     \* command masters
    Mqtt,         \* the commands with command_sender = MQTT
    Scheduled,    \* PERIODIC commands, created again and again by a job
    Targets,      \* Targets[c]: the agents a run of c can resolve to
    Paths,        \* Paths[c][a]: target file paths of c on a; 0 = no helper row
    MaxSeq,       \* bound: the repetition_seq of a detail
    Requests,     \* polls one agent can have open in the server at a time
    ResultKeys,   \* the (host, key_value1, key_value2) a result is filed under
    MaxCrash      \* bound: crashes of the server process

ASSUME MqttAssumption      == Mqtt \subseteq Commands /\ Scheduled \subseteq Commands
                                                      \* D11: MQTT forces IMMEDIATE
                              /\ Mqtt \intersect Scheduled = {}
ASSUME TargetsAssumption   == Targets \in [Commands -> SUBSET Agents]
ASSUME PathsAssumption     == Paths \in [Commands -> [Agents -> Nat]]
ASSUME MaxSeqAssumption    == MaxSeq \in Nat
ASSUME MaxCrashAssumption  == MaxCrash \in Nat
ASSUME RequestsAssumption  == IsFiniteSet(Requests)

Key == Commands \X Agents \X (1..MaxSeq)   \* (command_id, agent_id, repetition_seq)
Poll == Agents \X Requests                 \* one GET /command/<agent_id>/... in progress

CommandOf(k) == k[1]
AgentOf(k) == k[2]
SeqOf(k) == k[3]
RowsOf(a) == {k \in Key : AgentOf(k) = a}
RunsOf(c, a) == {k \in Key : CommandOf(k) = c /\ AgentOf(k) = a}

Statuses == {"ABSENT", "CREATE", "SENDED", "MQTT", "COMPLITED", "FAILED"}
Finished == {"COMPLITED", "FAILED"}
Outstanding == {"CREATE", "MQTT"}          \* KAFKA needs a producer, which is None

VARIABLES
    \* the database, as committed
    status,      \* command_status of every detail row, ABSENT when there is none
    master,      \* the commands whose master row exists
    results,     \* the result rows of a detail, by result key
    \* a run of create_command_detail and of the flush after its commit
    phase,       \* "idle", "insert", "publish"
    todo,        \* targets the loop has not reached
    staged,      \* rows inserted by the open transaction
    pending,     \* session.info['mqtt_pending']
    delivered,   \* pushed by this flush, not yet marked MQTT
    \* the MQTT client, the broker and the agents
    outbox,      \* messages the client library keeps until they are acknowledged
    broker,      \* messages the broker holds for an agent's session
    pushed,      \* cmdIds an agent received over MQTT
    polled,      \* how many poll responses with this row an agent received
    \* the polls
    poll,        \* "idle", "read", "updated", "reply"
    snapshot,    \* rows the SELECT returned: the response
    marked,      \* rows the UPDATE set to SENDED, locked until the commit
    answered,    \* rows in the response of a committed poll, ever
    late,        \* rows committed between the SELECT and the UPDATE of a poll
    crashes

creatorVars == <<phase, todo, staged, pending, delivered>>
pollVars == <<poll, snapshot, marked>>
networkVars == <<outbox, broker, pushed, polled>>
historyVars == <<answered, late>>
vars == <<status, master, results, creatorVars, networkVars, pollVars, historyVars, crashes>>

TypeOK ==
    /\ status \in [Key -> Statuses]
    /\ master \in SUBSET Commands
    /\ results \in [Key -> SUBSET ResultKeys]
    /\ phase \in [Commands -> {"idle", "insert", "publish"}]
    /\ todo \in [Commands -> SUBSET Agents]
    /\ staged \in [Commands -> SUBSET Key]
    /\ pending \in [Commands -> SUBSET Key]
    /\ delivered \in [Commands -> SUBSET Key]
    /\ outbox \in SUBSET Key
    /\ broker \in SUBSET Key
    /\ pushed \in SUBSET Key
    /\ polled \in [Key -> Nat]
    /\ poll \in [Poll -> {"idle", "read", "updated", "reply"}]
    /\ snapshot \in [Poll -> SUBSET Key]
    /\ marked \in [Poll -> SUBSET Key]
    /\ answered \in SUBSET Key
    /\ late \in SUBSET Key
    /\ crashes \in 0..MaxCrash

Init ==
    /\ status = [k \in Key |-> "ABSENT"]
    /\ master = Scheduled
    /\ results = [k \in Key |-> {}]
    /\ phase = [c \in Commands |-> "idle"]
    /\ todo = [c \in Commands |-> {}]
    /\ staged = [c \in Commands |-> {}]
    /\ pending = [c \in Commands |-> {}]
    /\ delivered = [c \in Commands |-> {}]
    /\ outbox = {} /\ broker = {} /\ pushed = {}
    /\ polled = [k \in Key |-> 0]
    /\ poll = [p \in Poll |-> "idle"]
    /\ snapshot = [p \in Poll |-> {}]
    /\ marked = [p \in Poll |-> {}]
    /\ answered = {} /\ late = {}
    /\ crashes = 0

-----------------------------------------------------------------------------
(* Row locks: rows an open transaction has updated.                        *)
Locked == UNION {marked[p] : p \in Poll}

(***************************************************************************)
(* create_command_detail.  One run per command at a time: an IMMEDIATE     *)
(* command is created by the transaction that inserts its master, a        *)
(* scheduled one by a job with a unique id and max_instances 1.            *)
(***************************************************************************)
LastSeq(c, a) == Max({0} \union {SeqOf(k) : k \in {r \in RunsOf(c, a) : status[r] # "ABSENT"}})

\* The rows the loop inserts for one agent: one per target file path.
NewRows(c, a) ==
    {k \in RunsOf(c, a) : SeqOf(k) \in LastSeq(c, a) + 1 .. LastSeq(c, a) + Paths[c][a]}

IgnoresOutstanding(c, a) == FALSE          \* mutant: the check is dropped
HasOutstanding(c, a) == \E k \in RunsOf(c, a) : status[k] \in Outstanding

\* The targets are resolved first: any subset, for the callbacks and groups
\* may yield other agents at every run (none, if the callback is unknown).
CreateBegin(c) ==
    /\ phase[c] = "idle"
    /\ c \in Scheduled \/ c \notin master
    /\ \E ags \in SUBSET Targets[c] : todo' = [todo EXCEPT ![c] = ags]
    /\ phase' = [phase EXCEPT ![c] = "insert"]
    /\ UNCHANGED <<status, master, results, staged, pending, delivered,
                   networkVars, pollVars, historyVars, crashes>>

\* One turn of the loop over set(ags).
CreateAgent(c, a) ==
    /\ phase[c] = "insert"
    /\ a \in todo[c]
    /\ LastSeq(c, a) + Paths[c][a] <= MaxSeq
    /\ todo' = [todo EXCEPT ![c] = @ \ {a}]
    /\ IF HasOutstanding(c, a)
       THEN UNCHANGED <<staged, pending>>
       ELSE /\ staged' = [staged EXCEPT ![c] = @ \union NewRows(c, a)]
            /\ pending' = IF c \in Mqtt
                          THEN [pending EXCEPT ![c] = @ \union NewRows(c, a)]
                          ELSE pending
    /\ UNCHANGED <<status, master, results, phase, delivered,
                   networkVars, pollVars, historyVars, crashes>>

\* The commit makes the rows visible; the after_commit hook starts the flush.
CreateCommit(c) ==
    /\ phase[c] = "insert"
    /\ todo[c] = {}
    /\ status' = [k \in Key |-> IF k \in staged[c] THEN "CREATE" ELSE status[k]]
    /\ master' = master \union {c}
    /\ staged' = [staged EXCEPT ![c] = {}]
    /\ phase' = [phase EXCEPT ![c] = IF pending[c] = {} THEN "idle" ELSE "publish"]
    /\ late' = late \union {k \in staged[c] :
                               \E p \in Poll : p[1] = AgentOf(k) /\ poll[p] = "read"}
    /\ UNCHANGED <<results, todo, pending, delivered, networkVars, pollVars,
                   answered, crashes>>

\* Any exception: everything this run inserted is gone, and nothing is pushed.
CreateRollback(c) ==
    /\ phase[c] = "insert"
    /\ phase' = [phase EXCEPT ![c] = "idle"]
    /\ todo' = [todo EXCEPT ![c] = {}]
    /\ staged' = [staged EXCEPT ![c] = {}]
    /\ pending' = [pending EXCEPT ![c] = {}]
    /\ UNCHANGED <<status, master, results, delivered, networkVars, pollVars,
                   historyVars, crashes>>

-----------------------------------------------------------------------------
(***************************************************************************)
(* flush_mqtt_pending and the outcomes of send_message (QoS 1).            *)
(***************************************************************************)
PublishingBeforeCommit(c, k) ==            \* mutant: the order of the Kafka branch
    /\ phase[c] \in {"insert", "publish"}
    /\ k \in pending[c]
    /\ pending' = [pending EXCEPT ![c] = @ \ {k}]
Publishing(c, k) ==
    /\ phase[c] = "publish"
    /\ k \in pending[c]
    /\ pending' = [pending EXCEPT ![c] = @ \ {k}]

\* PUBACK Success: the agent's session exists and the broker queued it.
PublishAcked(c, k) ==
    /\ Publishing(c, k)
    /\ delivered' = [delivered EXCEPT ![c] = @ \union {k}]
    /\ broker' = broker \union {k}
    /\ UNCHANGED <<status, master, results, phase, todo, staged, outbox, pushed, polled,
                   pollVars, historyVars, crashes>>

\* No matching subscribers (0), refused by the ACL or an exception (-1):
\* no publisher at all has the same effect on every item.
PublishRefused(c, k) ==
    /\ Publishing(c, k)
    /\ UNCHANGED <<status, master, results, phase, todo, staged, delivered, networkVars,
                   pollVars, historyVars, crashes>>

\* Not connected (-1): the caller falls back to polling, the client keeps
\* the QoS 1 message and sends it once it is connected again.
PublishOffline(c, k) ==
    /\ Publishing(c, k)
    /\ outbox' = outbox \union {k}
    /\ UNCHANGED <<status, master, results, phase, todo, staged, delivered, broker,
                   pushed, polled, pollVars, historyVars, crashes>>

\* wait_for_publish timed out: no reason code, and send_message returns 1.
PublishTimeout(c, k) ==
    /\ Publishing(c, k)
    /\ delivered' = [delivered EXCEPT ![c] = @ \union {k}]
    /\ outbox' = outbox \union {k}
    /\ UNCHANGED <<status, master, results, phase, todo, staged, broker,
                   pushed, polled, pollVars, historyVars, crashes>>

\* The second transaction: UPDATE ... SET MQTT WHERE command_status = CREATE.
MarksEverything(c) == delivered[c]         \* mutant: no command_status filter
Markable(c) == {k \in delivered[c] : status[k] = "CREATE"}

FlushMark(c) ==
    /\ phase[c] = "publish"
    /\ pending[c] = {}
    /\ delivered[c] \intersect Locked = {}
    /\ status' = [k \in Key |-> IF k \in Markable(c) THEN "MQTT" ELSE status[k]]
    /\ phase' = [phase EXCEPT ![c] = "idle"]
    /\ delivered' = [delivered EXCEPT ![c] = {}]
    /\ UNCHANGED <<master, results, todo, staged, pending, networkVars, pollVars,
                   historyVars, crashes>>

\* The second transaction fails: pushed rows stay CREATE.
FlushMarkFails(c) ==
    /\ phase[c] = "publish"
    /\ pending[c] = {}
    /\ phase' = [phase EXCEPT ![c] = "idle"]
    /\ delivered' = [delivered EXCEPT ![c] = {}]
    /\ UNCHANGED <<status, master, results, todo, staged, pending, networkVars, pollVars,
                   historyVars, crashes>>

-----------------------------------------------------------------------------
(***************************************************************************)
(* send_commands: SELECT the CREATE rows and build the response, UPDATE    *)
(* every CREATE row to SENDED, commit, answer.                             *)
(***************************************************************************)
SkipsLockedRows(a) ==                                         \* mutant: SKIP LOCKED
    {k \in RowsOf(a) : status[k] = "CREATE" /\ k \notin Locked}
SelectedRows(a) == {k \in RowsOf(a) : status[k] = "CREATE"}

UpdatesNothing(a) == {}                                       \* mutant: no UPDATE
UpdatedRows(a) == {k \in RowsOf(a) : status[k] = "CREATE"}

PollSelect(p) ==
    /\ poll[p] = "idle"
    /\ snapshot' = [snapshot EXCEPT ![p] = SelectedRows(p[1])]
    /\ poll' = [poll EXCEPT ![p] = "read"]
    /\ UNCHANGED <<status, master, results, creatorVars, networkVars, marked,
                   historyVars, crashes>>

PollUpdate(p) ==
    /\ poll[p] = "read"
    /\ UpdatedRows(p[1]) \intersect Locked = {}
    /\ marked' = [marked EXCEPT ![p] = UpdatedRows(p[1])]
    /\ poll' = [poll EXCEPT ![p] = "updated"]
    /\ UNCHANGED <<status, master, results, creatorVars, networkVars, snapshot,
                   historyVars, crashes>>

PollCommit(p) ==
    /\ poll[p] = "updated"
    /\ status' = [k \in Key |-> IF k \in marked[p] THEN "SENDED" ELSE status[k]]
    /\ marked' = [marked EXCEPT ![p] = {}]
    /\ answered' = answered \union snapshot[p]
    /\ poll' = [poll EXCEPT ![p] = "reply"]
    /\ UNCHANGED <<master, results, creatorVars, networkVars, snapshot, late, crashes>>

FailsKeepingLocks(p) ==                                       \* mutant: no rollback
    /\ poll[p] \in {"read", "updated"}
    /\ poll' = [poll EXCEPT ![p] = "idle"]
    /\ snapshot' = [snapshot EXCEPT ![p] = {}]
    /\ UNCHANGED <<status, master, results, creatorVars, networkVars, marked,
                   historyVars, crashes>>
\* The request fails before its commit.
PollFails(p) ==
    /\ poll[p] \in {"read", "updated"}
    /\ poll' = [poll EXCEPT ![p] = "idle"]
    /\ snapshot' = [snapshot EXCEPT ![p] = {}]
    /\ marked' = [marked EXCEPT ![p] = {}]
    /\ UNCHANGED <<status, master, results, creatorVars, networkVars, historyVars, crashes>>

\* The response arrives and the agent runs every command in it ...
PollReply(p) ==
    /\ poll[p] = "reply"
    /\ polled' = [k \in Key |-> IF k \in snapshot[p] THEN polled[k] + 1 ELSE polled[k]]
    /\ poll' = [poll EXCEPT ![p] = "idle"]
    /\ snapshot' = [snapshot EXCEPT ![p] = {}]
    /\ UNCHANGED <<status, master, results, creatorVars, outbox, broker, pushed,
                   marked, historyVars, crashes>>

\* ... or the connection breaks after the commit.
PollReplyLost(p) ==
    /\ poll[p] = "reply"
    /\ poll' = [poll EXCEPT ![p] = "idle"]
    /\ snapshot' = [snapshot EXCEPT ![p] = {}]
    /\ UNCHANGED <<status, master, results, creatorVars, networkVars, marked,
                   historyVars, crashes>>

-----------------------------------------------------------------------------
(***************************************************************************)
(* The network.  The client resends its outbox after a reconnect; the      *)
(* broker may or may not have a session for the agent.                     *)
(***************************************************************************)
OutboxSend(k) ==
    /\ k \in outbox
    /\ outbox' = outbox \ {k}
    /\ \/ broker' = broker \union {k}
       \/ UNCHANGED broker
    /\ UNCHANGED <<status, master, results, creatorVars, pushed, polled, pollVars,
                   historyVars, crashes>>

\* At least once: the copy may stay and be delivered again.  The agent
\* ignores a cmdId it has seen.
BrokerDeliver(k) ==
    /\ k \in broker
    /\ pushed' = pushed \union {k}
    /\ UNCHANGED <<status, master, results, creatorVars, outbox, broker, polled,
                   pollVars, historyVars, crashes>>

\* Acknowledged by the agent, expired, or pushed out of a full session queue.
BrokerDrop(k) ==
    /\ k \in broker
    /\ broker' = broker \ {k}
    /\ UNCHANGED <<status, master, results, creatorVars, outbox, pushed, polled,
                   pollVars, historyVars, crashes>>

(***************************************************************************)
(* POST /command/result: add_result and its commit.  The insert fails for  *)
(* a key that is already filed, and then nothing changes.                  *)
(***************************************************************************)
Received(k) == k \in pushed \/ polled[k] > 0

PostResult(k, rk, outcome) ==
    /\ Received(k)
    /\ rk \notin results[k]
    /\ status[k] # "ABSENT"                \* the foreign key of ag_result
    /\ k \notin Locked
    /\ results' = [results EXCEPT ![k] = @ \union {rk}]
    /\ status' = [status EXCEPT ![k] = outcome]
    /\ UNCHANGED <<master, creatorVars, networkVars, pollVars, historyVars, crashes>>

(* The server process dies: open transactions, the pending list and the    *)
(* client's outbox are gone.  Responses not yet sent are lost.             *)
Crash ==
    /\ crashes < MaxCrash
    /\ crashes' = crashes + 1
    /\ phase' = [c \in Commands |-> "idle"]
    /\ todo' = [c \in Commands |-> {}]
    /\ staged' = [c \in Commands |-> {}]
    /\ pending' = [c \in Commands |-> {}]
    /\ delivered' = [c \in Commands |-> {}]
    /\ outbox' = {}
    /\ poll' = [p \in Poll |-> "idle"]
    /\ snapshot' = [p \in Poll |-> {}]
    /\ marked' = [p \in Poll |-> {}]
    /\ UNCHANGED <<status, master, results, broker, pushed, polled, historyVars>>

Create(c) ==
    \/ CreateBegin(c) \/ CreateCommit(c) \/ CreateRollback(c)
    \/ \E a \in Agents : CreateAgent(c, a)

Flush(c) ==
    \/ \E k \in Key : \/ PublishAcked(c, k) \/ PublishRefused(c, k)
                      \/ PublishOffline(c, k) \/ PublishTimeout(c, k)
    \/ FlushMark(c) \/ FlushMarkFails(c)

PollStep(p) ==
    \/ PollSelect(p) \/ PollUpdate(p) \/ PollCommit(p)
    \/ PollFails(p) \/ PollReply(p) \/ PollReplyLost(p)

Network(k) == OutboxSend(k) \/ BrokerDeliver(k) \/ BrokerDrop(k)

Result(k) == \E rk \in ResultKeys, outcome \in Finished : PostResult(k, rk, outcome)

Next ==
    \/ \E c \in Commands : Create(c) \/ Flush(c)
    \/ \E p \in Poll : PollStep(p)
    \/ \E k \in Key : Network(k) \/ Result(k)
    \/ Crash

Spec == Init /\ [][Next]_vars

(***************************************************************************)
(* An agent polls for as long as it lives, and not every request of its    *)
(* fails; a run of create_command_detail and of the flush finishes.        *)
(***************************************************************************)
Fairness ==
    /\ \A p \in Poll : /\ WF_vars(PollSelect(p))
                       /\ SF_vars(PollUpdate(p))
                       /\ SF_vars(PollCommit(p))
                       /\ WF_vars(PollReply(p) \/ PollReplyLost(p))
    /\ \A c \in Commands : WF_vars(Flush(c))

FairSpec == Spec /\ Fairness
-----------------------------------------------------------------------------
(* A message exists only for a committed row: the push happens after the   *)
(* commit (agent.py:400-406), so that a result posted at once finds its    *)
(* detail row and no rolled-back run is ever executed.                     *)
PushedAreCommitted ==
    \A k \in outbox \union broker \union pushed \union answered : status[k] # "ABSENT"

(* A detail is COMPLITED or FAILED exactly when a result of it is filed:   *)
(* neither the late MQTT update of a flush nor the SENDED update of a poll *)
(* takes back what a fast agent has already reported.                      *)
FinishedIffReported ==
    \A k \in Key : status[k] \in Finished <=> results[k] # {}

(* A row that is SENDED was in the response of a committed poll, unless it *)
(* was committed between the SELECT and the UPDATE of a poll of its agent: *)
(* send_commands loses commands in that window and in no other way.        *)
LostOnlyInWindow ==
    \A k \in Key : status[k] = "SENDED" => k \in answered \union late

(* While a row waits to be taken or to be answered over MQTT, no row of a  *)
(* later run exists for its command and agent: runs do not pile up on an   *)
(* agent that is away (agent.py:514-526).                                  *)
NoRunBehindOutstanding ==
    \A k, l \in Key :
        /\ CommandOf(k) = CommandOf(l) /\ AgentOf(k) = AgentOf(l)
        /\ status[k] \in Outstanding
        /\ SeqOf(l) >= SeqOf(k) + Paths[CommandOf(k)][AgentOf(k)]
        => status[l] = "ABSENT"

(* An agent gets a command in at most as many poll responses as it has     *)
(* polls open at a time - once, when it waits for an answer before it asks *)
(* again - whatever the server pushes, loses or repeats meanwhile.  A      *)
(* command that agents must run once depends on that single outstanding    *)
(* poll: the SELECTs of overlapping polls read the same rows.              *)
PolledOncePerRequest == \A k \in Key : polled[k] <= Cardinality(Requests)

(* A row only moves forward: CREATE, then SENDED or MQTT, then finished.   *)
(* In particular a row a poll took is not claimed by the flush afterwards, *)
(* and no step makes a row CREATE again, so nothing is handed out twice by *)
(* a retry of the server.                                                  *)
Successors(s) ==
    CASE s = "ABSENT" -> {"CREATE"}
      [] s = "CREATE" -> {"SENDED", "MQTT"} \union Finished
      [] s \in {"SENDED", "MQTT"} -> Finished
      [] s \in Finished -> Finished

OnlyForward ==
    [][\A k \in Key : status'[k] # status[k] => status'[k] \in Successors(status[k])]_status

(* An agent that keeps polling takes every row that waits for it, or the   *)
(* flush or a result takes it first: nothing stays CREATE for ever.        *)
CreateIsTaken == \A k \in Key : status[k] = "CREATE" ~> status[k] # "CREATE"

(* What agent_command_system.md:128 says: the rows of the response are the *)
(* ones that become SENDED.                                                *)
SentWasAnswered == \A k \in Key : status[k] = "SENDED" => k \in answered
-----------------------------------------------------------------------------
(* The inductive invariant behind the safety properties.                   *)

\* What a creator holds in memory, by phase.
CreatorInv ==
    \A c \in Commands :
        /\ phase[c] = "idle" => staged[c] = {} /\ pending[c] = {}
        /\ phase[c] = "insert" => pending[c] \subseteq staged[c]
        /\ phase[c] = "publish" => /\ staged[c] = {}
                                   /\ \A k \in pending[c] : status[k] # "ABSENT"
        /\ phase[c] # "publish" => delivered[c] = {}
        /\ phase[c] # "insert" => todo[c] = {}
        /\ \A k \in delivered[c] : status[k] # "ABSENT"

\* The rows of a lane are numbered 1, 2, ... without a gap.
Gapless ==
    \A c \in Commands, a \in Agents : \E n \in 0..MaxSeq :
        \A s \in 1..MaxSeq : status[<<c, a, s>>] # "ABSENT" <=> s <= n

\* The rows an open run has inserted are still the next ones of their lane.
StagedInv ==
    \A c \in Commands : \A k \in staged[c] :
        /\ k \in NewRows(c, AgentOf(k))
        /\ NewRows(c, AgentOf(k)) \subseteq staged[c]
        /\ AgentOf(k) \notin todo[c]
        /\ ~HasOutstanding(c, AgentOf(k))

\* A row is locked by one poll at most, and stays CREATE until its commit.
LockInv ==
    /\ \A p \in Poll : poll[p] # "updated" => marked[p] = {}
    /\ \A p \in Poll : \A k \in marked[p] : status[k] = "CREATE"
    /\ \A p, q \in Poll : p # q => marked[p] \intersect marked[q] = {}

\* A poll only answers rows that exist; a row it marked without reading it
\* was committed inside its window.
SnapshotInv ==
    \A p \in Poll :
        /\ \A k \in snapshot[p] : status[k] # "ABSENT"
        /\ poll[p] = "read" =>
               \A k \in RowsOf(p[1]) : status[k] = "CREATE" => k \in snapshot[p] \union late
        /\ marked[p] \subseteq snapshot[p] \union late

\* A poll answers rows of its own agent, holds its locks on all the CREATE
\* rows it read, and after its commit none of them is CREATE.
PollInv ==
    \A p \in Poll :
        /\ poll[p] = "idle" => snapshot[p] = {}
        /\ \A k \in snapshot[p] :
               /\ AgentOf(k) = p[1]
               /\ poll[p] = "updated" /\ status[k] = "CREATE" => k \in marked[p]
               /\ poll[p] = "reply" => status[k] # "CREATE"

\* The requests that have handed the row out are as many as the responses,
\* and none of them holds it again: it will never be CREATE.
Spent(k, used) ==
    /\ Cardinality(used) = polled[k]
    /\ \A r \in used : k \notin snapshot[<<AgentOf(k), r>>]
    /\ used # {} => status[k] \notin {"ABSENT", "CREATE"}
SpentInv == \A k \in Key : \E used \in SUBSET Requests : Spent(k, used)

IInv == /\ TypeOK /\ CreatorInv /\ Gapless /\ StagedInv /\ LockInv /\ SnapshotInv
        /\ PushedAreCommitted /\ FinishedIffReported /\ LostOnlyInWindow
        /\ NoRunBehindOutstanding

-----------------------------------------------------------------------------
(* The tables implement the ledger of CommandLedger.tla: runs of create,   *)
(* flush, poll and result, however they interleave and wherever the server *)
(* crashes, are steps of the ledger or leave it as it is.                  *)
StageOf(s) ==
    CASE s = "ABSENT" -> "absent"
      [] s = "CREATE" -> "waiting"
      [] s \in {"SENDED", "MQTT"} -> "handed"
      [] s \in Finished -> "finished"

Ledger == INSTANCE CommandLedger WITH stage <- [k \in Key |-> StageOf(status[k])]

ImplementsLedger == Ledger!LedgerSpec
=============================================================================
