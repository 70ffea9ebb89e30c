----------------------- MODULE CommandDispatch_proofs -----------------------
(***************************************************************************)
(* Proofs about CommandDispatch, for every value of its constants.         *)
(***************************************************************************)
EXTENDS CommandDispatch, FiniteSetTheorems, TLAPS

(* Every variable keeps its type: in particular a detail only ever has one *)
(* of the statuses of CommandStatusEnum that this code can reach.          *)
THEOREM TypeCorrect == Spec => []TypeOK
<1> USE DEF TypeOK, Statuses, Finished
<1>1. Init => TypeOK
  BY MqttAssumption, MaxCrashAssumption DEF Init
<1>2. TypeOK /\ [Next]_vars => TypeOK'
  <2> SUFFICES ASSUME TypeOK, [Next]_vars
               PROVE  TypeOK'
    OBVIOUS
  <2> USE DEF creatorVars, pollVars, networkVars, historyVars
  <2>1. ASSUME NEW c \in Commands, CreateBegin(c) PROVE TypeOK'
    <3>1. PICK ags \in SUBSET Targets[c] : todo' = [todo EXCEPT ![c] = ags]
      BY <2>1 DEF CreateBegin
    <3>2. todo' \in [Commands -> SUBSET Agents]
      BY <3>1, TargetsAssumption
    <3>3. phase' \in [Commands -> {"idle", "insert", "publish"}]
      BY <2>1 DEF CreateBegin
    <3>4. QED
      BY <2>1, <3>2, <3>3 DEF CreateBegin
  <2>2. ASSUME NEW c \in Commands, NEW a \in Agents, CreateAgent(c, a) PROVE TypeOK'
    BY <2>2 DEF CreateAgent, NewRows, RunsOf
  <2>3. ASSUME NEW c \in Commands, CreateCommit(c) PROVE TypeOK'
    BY <2>3 DEF CreateCommit
  <2>4. ASSUME NEW c \in Commands, CreateRollback(c) PROVE TypeOK'
    BY <2>4 DEF CreateRollback
  <2>5. ASSUME NEW c \in Commands, NEW k \in Key, PublishAcked(c, k) PROVE TypeOK'
    BY <2>5 DEF PublishAcked, Publishing
  <2>6. ASSUME NEW c \in Commands, NEW k \in Key, PublishRefused(c, k) PROVE TypeOK'
    BY <2>6 DEF PublishRefused, Publishing
  <2>7. ASSUME NEW c \in Commands, NEW k \in Key, PublishOffline(c, k) PROVE TypeOK'
    BY <2>7 DEF PublishOffline, Publishing
  <2>8. ASSUME NEW c \in Commands, NEW k \in Key, PublishTimeout(c, k) PROVE TypeOK'
    BY <2>8 DEF PublishTimeout, Publishing
  <2>9. ASSUME NEW c \in Commands, FlushMark(c) PROVE TypeOK'
    BY <2>9 DEF FlushMark
  <2>10. ASSUME NEW c \in Commands, FlushMarkFails(c) PROVE TypeOK'
    BY <2>10 DEF FlushMarkFails
  <2>11. ASSUME NEW p \in Poll, PollSelect(p) PROVE TypeOK'
    BY <2>11 DEF PollSelect, SelectedRows, RowsOf
  <2>12. ASSUME NEW p \in Poll, PollUpdate(p) PROVE TypeOK'
    BY <2>12 DEF PollUpdate, UpdatedRows, RowsOf
  <2>13. ASSUME NEW p \in Poll, PollCommit(p) PROVE TypeOK'
    BY <2>13 DEF PollCommit
  <2>14. ASSUME NEW p \in Poll, PollFails(p) PROVE TypeOK'
    BY <2>14 DEF PollFails
  <2>15. ASSUME NEW p \in Poll, PollReply(p) PROVE TypeOK'
    BY <2>15 DEF PollReply
  <2>16. ASSUME NEW p \in Poll, PollReplyLost(p) PROVE TypeOK'
    BY <2>16 DEF PollReplyLost
  <2>17. ASSUME NEW k \in Key, Network(k) PROVE TypeOK'
    BY <2>17 DEF Network, OutboxSend, BrokerDeliver, BrokerDrop
  <2>18. ASSUME NEW k \in Key, NEW rk \in ResultKeys, NEW o \in Finished,
                PostResult(k, rk, o)
         PROVE  TypeOK'
    BY <2>18 DEF PostResult
  <2>19. CASE Crash
    BY <2>19, MaxCrashAssumption DEF Crash
  <2>20. CASE UNCHANGED vars
    BY <2>20 DEF vars
  <2>21. QED
    BY <2>1, <2>2, <2>3, <2>4, <2>5, <2>6, <2>7, <2>8, <2>9, <2>10, <2>11, <2>12, <2>13,
       <2>14, <2>15, <2>16, <2>17, <2>18, <2>19, <2>20
       DEF Next, Create, Flush, PollStep, Result
<1>3. QED
  BY <1>1, <1>2, PTL DEF Spec
-----------------------------------------------------------------------------
(* Rows and lanes.                                                         *)
LEMMA RowFields ==
    ASSUME NEW k \in Key
    PROVE  /\ CommandOf(k) \in Commands /\ AgentOf(k) \in Agents
           /\ SeqOf(k) \in 1..MaxSeq
           /\ k = <<CommandOf(k), AgentOf(k), SeqOf(k)>>
  BY DEF Key, CommandOf, AgentOf, SeqOf

\* In a lane without gaps the last number is the n of Gapless.
LEMMA LastSeqIsLength ==
    ASSUME NEW c \in Commands, NEW a \in Agents, NEW n \in 0..MaxSeq,
           \A s \in 1..MaxSeq : status[<<c, a, s>>] # "ABSENT" <=> s <= n
    PROVE  LastSeq(c, a) = n
<1> DEFINE S == {0} \union {SeqOf(k) : k \in {r \in RunsOf(c, a) : status[r] # "ABSENT"}}
<1>1. S = 0..n
  <2>1. ASSUME NEW x \in S PROVE x \in 0..n
    BY <2>1, MaxSeqAssumption, RowFields DEF RunsOf, CommandOf, AgentOf, SeqOf, Key
  <2>2. ASSUME NEW x \in 0..n PROVE x \in S
    <3>1. CASE x = 0
      BY <3>1
    <3>2. CASE x # 0
      <4>1. x \in 1..MaxSeq /\ <<c, a, x>> \in RunsOf(c, a)
        BY <3>2, MaxSeqAssumption DEF RunsOf, Key, CommandOf, AgentOf
      <4>2. status[<<c, a, x>>] # "ABSENT" /\ SeqOf(<<c, a, x>>) = x
        BY <4>1, <2>2 DEF SeqOf
      <4>3. QED
        BY <4>1, <4>2
    <3>3. QED
      BY <3>1, <3>2
  <2>3. QED
    BY <2>1, <2>2
<1>2. n \in S /\ \A y \in S : n >= y
  BY <1>1, MaxSeqAssumption
<1>3. \A x \in S : (\A y \in S : x >= y) => x = n
  BY <1>1, <1>2, MaxSeqAssumption
<1>4. Max(S) = n
  BY <1>2, <1>3 DEF Max
<1>5. QED
  BY <1>4 DEF LastSeq

\* Rows of a lane that keep their presence keep what the next run will insert.
LEMMA LaneKept ==
    ASSUME NEW c \in Commands, NEW a \in Agents,
           \A k \in RunsOf(c, a) : status'[k] # "ABSENT" <=> status[k] # "ABSENT"
    PROVE  NewRows(c, a)' = NewRows(c, a)
<1>1. {r \in RunsOf(c, a) : status'[r] # "ABSENT"} = {r \in RunsOf(c, a) : status[r] # "ABSENT"}
  OBVIOUS
<1>2. LastSeq(c, a)' = LastSeq(c, a)
  BY <1>1 DEF LastSeq, RunsOf, CommandOf, AgentOf, SeqOf
<1>3. QED
  BY <1>2 DEF NewRows, RunsOf, CommandOf, AgentOf, SeqOf

\* The rows a run has staged do not exist yet.
LEMMA StagedAbsent ==
    ASSUME TypeOK, Gapless, StagedInv, NEW c \in Commands, NEW k \in staged[c]
    PROVE  k \in Key /\ CommandOf(k) = c /\ status[k] = "ABSENT"
<1>1. k \in NewRows(c, AgentOf(k))
  BY DEF StagedInv
<1>2. k \in Key /\ CommandOf(k) = c /\ AgentOf(k) \in Agents
  BY <1>1, RowFields DEF NewRows, RunsOf
<1>3. PICK n \in 0..MaxSeq :
          \A s \in 1..MaxSeq : status[<<c, AgentOf(k), s>>] # "ABSENT" <=> s <= n
  BY <1>2 DEF Gapless
<1>4. LastSeq(c, AgentOf(k)) = n
  BY <1>2, <1>3, LastSeqIsLength
<1>5. SeqOf(k) \in 1..MaxSeq /\ ~(SeqOf(k) <= n)
  BY <1>1, <1>2, <1>4, RowFields, PathsAssumption, MaxSeqAssumption DEF NewRows
<1>6. QED
  BY <1>2, <1>3, <1>5, RowFields

\* Steps that move rows forward without adding any keep what is said of lanes.
LEMMA ForwardKeepsLanes ==
    ASSUME Gapless, StagedInv, NoRunBehindOutstanding,
           TypeOK, UNCHANGED <<staged, todo>>,
           \A k \in Key : status'[k] # "ABSENT" <=> status[k] # "ABSENT",
           \A k \in Key : status'[k] \in Outstanding => status[k] \in Outstanding
    PROVE  Gapless' /\ StagedInv' /\ NoRunBehindOutstanding'
<1>1. \A c \in Commands, a \in Agents, s \in 1..MaxSeq : <<c, a, s>> \in Key
  BY DEF Key
<1>2. Gapless'
  <2> SUFFICES ASSUME NEW c \in Commands, NEW a \in Agents
               PROVE  \E n \in 0..MaxSeq :
                        \A s \in 1..MaxSeq : status'[<<c, a, s>>] # "ABSENT" <=> s <= n
    BY DEF Gapless
  <2>1. PICK n \in 0..MaxSeq :
            \A s \in 1..MaxSeq : status[<<c, a, s>>] # "ABSENT" <=> s <= n
    BY DEF Gapless
  <2>2. QED
    BY <1>1, <2>1
<1>3. StagedInv'
  <2> SUFFICES ASSUME NEW c \in Commands, NEW k \in staged[c]
               PROVE  /\ k \in NewRows(c, AgentOf(k))'
                      /\ NewRows(c, AgentOf(k))' \subseteq staged[c]
                      /\ AgentOf(k) \notin todo[c]
                      /\ ~HasOutstanding(c, AgentOf(k))'
    BY DEF StagedInv, AgentOf
  <2>1. k \in Key /\ AgentOf(k) \in Agents
    BY RowFields DEF TypeOK
  <2>2. NewRows(c, AgentOf(k))' = NewRows(c, AgentOf(k))
    BY <2>1, LaneKept DEF RunsOf
  <2>3. ~HasOutstanding(c, AgentOf(k))'
    BY <2>1 DEF StagedInv, HasOutstanding, RunsOf, CommandOf, AgentOf
  <2>4. QED
    BY <2>2, <2>3 DEF StagedInv
<1>4. NoRunBehindOutstanding'
  BY DEF NoRunBehindOutstanding, CommandOf, AgentOf, SeqOf
<1>5. QED
  BY <1>2, <1>3, <1>4
-----------------------------------------------------------------------------
(* Steps that leave the detail table alone.                                *)
LEMMA TableKept ==
    ASSUME Gapless, NoRunBehindOutstanding, FinishedIffReported, StagedInv, TypeOK,
           UNCHANGED <<status, results>>
    PROVE  /\ Gapless' /\ NoRunBehindOutstanding' /\ FinishedIffReported'
           /\ UNCHANGED <<staged, todo>> => StagedInv'
<1>1. Gapless' /\ NoRunBehindOutstanding' /\ FinishedIffReported'
  BY DEF Gapless, NoRunBehindOutstanding, FinishedIffReported, CommandOf, AgentOf, SeqOf
<1>2. ASSUME UNCHANGED <<staged, todo>> PROVE StagedInv'
  BY <1>1, <1>2, ForwardKeepsLanes
<1>3. QED
  BY <1>1, <1>2

LEMMA CreateBeginInv ==
    ASSUME IInv, TypeOK', NEW c \in Commands, CreateBegin(c)
    PROVE  IInv'
<1> USE DEF IInv, CreateBegin, networkVars, pollVars, historyVars
<1>1. CreatorInv'
  BY DEF CreatorInv, TypeOK
<1>2. Gapless' /\ NoRunBehindOutstanding' /\ FinishedIffReported'
  BY TableKept
<1>3. StagedInv'
  <2> SUFFICES ASSUME NEW d \in Commands, NEW k \in staged[d]
               PROVE  /\ k \in NewRows(d, AgentOf(k))'
                      /\ NewRows(d, AgentOf(k))' \subseteq staged[d]
                      /\ AgentOf(k) \notin todo'[d]
                      /\ ~HasOutstanding(d, AgentOf(k))'
    BY DEF StagedInv, AgentOf
  <2>1. d # c
    BY DEF CreatorInv
  <2>2. AgentOf(k) \in Agents
    BY RowFields DEF TypeOK
  <2>3. NewRows(d, AgentOf(k))' = NewRows(d, AgentOf(k))
    BY <2>2, LaneKept
  <2>4. QED
    BY <2>1, <2>3 DEF StagedInv, TypeOK, HasOutstanding, RunsOf, CommandOf, AgentOf
<1>4. LockInv' /\ SnapshotInv'
  BY DEF LockInv, SnapshotInv, RowsOf, AgentOf
<1>5. PushedAreCommitted' /\ LostOnlyInWindow'
  BY DEF PushedAreCommitted, LostOnlyInWindow
<1>6. QED
  BY <1>1, <1>2, <1>3, <1>4, <1>5

LEMMA CreateAgentInv ==
    ASSUME IInv, TypeOK', NEW c \in Commands, NEW a \in Agents, CreateAgent(c, a)
    PROVE  IInv'
<1> USE DEF IInv, CreateAgent, networkVars, pollVars, historyVars
<1>1. CreatorInv'
  BY DEF CreatorInv, TypeOK
<1>2. Gapless' /\ NoRunBehindOutstanding' /\ FinishedIffReported'
  BY TableKept
<1>3. StagedInv'
  <2> SUFFICES ASSUME NEW d \in Commands, NEW k \in staged'[d]
               PROVE  /\ k \in NewRows(d, AgentOf(k))'
                      /\ NewRows(d, AgentOf(k))' \subseteq staged'[d]
                      /\ AgentOf(k) \notin todo'[d]
                      /\ ~HasOutstanding(d, AgentOf(k))'
    BY DEF StagedInv, AgentOf
  <2>1. k \in Key /\ AgentOf(k) \in Agents
    BY RowFields DEF TypeOK
  <2>2. NewRows(d, AgentOf(k))' = NewRows(d, AgentOf(k))
    BY <2>1, LaneKept
  <2>3. HasOutstanding(d, AgentOf(k))' <=> HasOutstanding(d, AgentOf(k))
    BY DEF HasOutstanding, RunsOf, CommandOf, AgentOf
  <2>4. CASE k \in staged[d]
    BY <2>2, <2>3, <2>4 DEF StagedInv, TypeOK
  <2>5. CASE k \notin staged[d]
    <3>1. d = c /\ ~HasOutstanding(c, a) /\ k \in NewRows(c, a)
      BY <2>5 DEF TypeOK
    <3>2. AgentOf(k) = a
      BY <3>1 DEF NewRows, RunsOf
    <3>3. NewRows(c, a) \subseteq staged'[c] /\ a \notin todo'[c]
      BY <3>1 DEF TypeOK
    <3>4. QED
      BY <2>2, <2>3, <3>1, <3>2, <3>3
  <2>6. QED
    BY <2>4, <2>5
<1>4. LockInv' /\ SnapshotInv'
  BY DEF LockInv, SnapshotInv, RowsOf, AgentOf
<1>5. PushedAreCommitted' /\ LostOnlyInWindow'
  BY DEF PushedAreCommitted, LostOnlyInWindow
<1>6. QED
  BY <1>1, <1>2, <1>3, <1>4, <1>5

LEMMA CreateRollbackInv ==
    ASSUME IInv, TypeOK', NEW c \in Commands, CreateRollback(c)
    PROVE  IInv'
<1> USE DEF IInv, CreateRollback, networkVars, pollVars, historyVars
<1>1. CreatorInv'
  BY DEF CreatorInv, TypeOK
<1>2. Gapless' /\ NoRunBehindOutstanding' /\ FinishedIffReported'
  BY TableKept
<1>3. StagedInv'
  <2> SUFFICES ASSUME NEW d \in Commands, NEW k \in staged'[d]
               PROVE  /\ k \in NewRows(d, AgentOf(k))'
                      /\ NewRows(d, AgentOf(k))' \subseteq staged'[d]
                      /\ AgentOf(k) \notin todo'[d]
                      /\ ~HasOutstanding(d, AgentOf(k))'
    BY DEF StagedInv, AgentOf
  <2>1. d # c /\ k \in staged[d] /\ AgentOf(k) \in Agents
    BY RowFields DEF TypeOK
  <2>2. NewRows(d, AgentOf(k))' = NewRows(d, AgentOf(k))
    BY <2>1, LaneKept
  <2>3. QED
    BY <2>1, <2>2 DEF StagedInv, TypeOK, HasOutstanding, RunsOf, CommandOf, AgentOf
<1>4. LockInv' /\ SnapshotInv'
  BY DEF LockInv, SnapshotInv, RowsOf, AgentOf
<1>5. PushedAreCommitted' /\ LostOnlyInWindow'
  BY DEF PushedAreCommitted, LostOnlyInWindow
<1>6. QED
  BY <1>1, <1>2, <1>3, <1>4, <1>5

\* The staged rows of a lane follow its last row, one per target path.
LEMMA StagedLane ==
    ASSUME TypeOK, Gapless, StagedInv, NEW c \in Commands, NEW k \in staged[c],
           NEW n \in 0..MaxSeq,
           \A s \in 1..MaxSeq : status[<<c, AgentOf(k), s>>] # "ABSENT" <=> s <= n
    PROVE  \A s \in 1..MaxSeq : <<c, AgentOf(k), s>> \in staged[c]
                                  <=> n < s /\ s <= n + Paths[c][AgentOf(k)]
<1> DEFINE a == AgentOf(k)
<1>1. k \in Key /\ CommandOf(k) = c /\ a \in Agents
  BY StagedAbsent, RowFields
<1>2. LastSeq(c, a) = n
  BY <1>1, LastSeqIsLength
<1>3. Paths[c][a] \in Nat
  BY <1>1, PathsAssumption
<1>4. \A l \in Key : l \in NewRows(c, a) <=>
          CommandOf(l) = c /\ AgentOf(l) = a /\ n < SeqOf(l) /\ SeqOf(l) <= n + Paths[c][a]
  BY <1>2, <1>3, MaxSeqAssumption, RowFields DEF NewRows, RunsOf
<1>5. NewRows(c, a) \subseteq staged[c]
  BY DEF StagedInv
<1>6. \A l \in staged[c] : AgentOf(l) = a => l \in NewRows(c, a)
  BY DEF StagedInv
<1>7. \A s \in 1..MaxSeq : /\ <<c, a, s>> \in Key
                           /\ CommandOf(<<c, a, s>>) = c
                           /\ AgentOf(<<c, a, s>>) = a
                           /\ SeqOf(<<c, a, s>>) = s
  BY <1>1 DEF Key, CommandOf, AgentOf, SeqOf
<1>8. QED
  BY <1>4, <1>5, <1>6, <1>7

LEMMA CreateCommitInv ==
    ASSUME IInv, TypeOK', NEW c \in Commands, CreateCommit(c)
    PROVE  IInv'
<1> USE DEF IInv, CreateCommit, networkVars, pollVars
<1>1. \A k \in staged[c] : k \in Key /\ CommandOf(k) = c /\ status[k] = "ABSENT"
  BY StagedAbsent
<1>2. \A k \in Key : /\ k \in staged[c] => status'[k] = "CREATE"
                     /\ k \notin staged[c] => status'[k] = status[k]
  OBVIOUS
<1>3. CreatorInv'
  BY <1>1, <1>2 DEF CreatorInv, TypeOK
<1>4. Gapless'
  <2> SUFFICES ASSUME NEW d \in Commands, NEW a \in Agents
               PROVE  \E n \in 0..MaxSeq :
                        \A s \in 1..MaxSeq : status'[<<d, a, s>>] # "ABSENT" <=> s <= n
    BY DEF Gapless
  <2>1. PICK n \in 0..MaxSeq :
            \A s \in 1..MaxSeq : status[<<d, a, s>>] # "ABSENT" <=> s <= n
    BY DEF Gapless
  <2>2. \A s \in 1..MaxSeq : <<d, a, s>> \in Key
    BY DEF Key
  <2>3. CASE \A s \in 1..MaxSeq : <<d, a, s>> \notin staged[c]
    BY <1>2, <2>1, <2>2, <2>3
  <2>4. CASE \E s \in 1..MaxSeq : <<d, a, s>> \in staged[c]
    <3>1. PICK t \in 1..MaxSeq : <<d, a, t>> \in staged[c]
      BY <2>4
    <3>2. d = c /\ AgentOf(<<d, a, t>>) = a
      BY <1>1, <3>1 DEF CommandOf, AgentOf
    <3>3. \A s \in 1..MaxSeq : <<c, a, s>> \in staged[c]
                                 <=> n < s /\ s <= n + Paths[c][a]
      BY <2>1, <3>1, <3>2, StagedLane
    <3>4. Paths[c][a] \in Nat
      BY PathsAssumption
    <3> DEFINE m == IF n + Paths[c][a] <= MaxSeq THEN n + Paths[c][a] ELSE MaxSeq
    <3>5. m \in 0..MaxSeq
      BY <3>4, MaxSeqAssumption
    <3>6. \A s \in 1..MaxSeq : status'[<<d, a, s>>] # "ABSENT" <=> s <= m
      BY <1>2, <2>1, <2>2, <3>2, <3>3, <3>4, MaxSeqAssumption
    <3>7. QED
      BY <3>5, <3>6
  <2>5. QED
    BY <2>3, <2>4
<1>5. StagedInv'
  <2> SUFFICES ASSUME NEW d \in Commands, NEW k \in staged'[d]
               PROVE  /\ k \in NewRows(d, AgentOf(k))'
                      /\ NewRows(d, AgentOf(k))' \subseteq staged'[d]
                      /\ AgentOf(k) \notin todo'[d]
                      /\ ~HasOutstanding(d, AgentOf(k))'
    BY DEF StagedInv, AgentOf
  <2>1. d # c /\ k \in staged[d] /\ staged'[d] = staged[d] /\ AgentOf(k) \in Agents
    BY RowFields DEF TypeOK
  <2>2. \A r \in RunsOf(d, AgentOf(k)) : status'[r] = status[r]
    BY <1>1, <1>2, <2>1 DEF RunsOf
  <2>3. NewRows(d, AgentOf(k))' = NewRows(d, AgentOf(k))
    BY <2>1, <2>2, LaneKept
  <2>4. ~HasOutstanding(d, AgentOf(k))'
    BY <2>1, <2>2 DEF StagedInv, HasOutstanding, RunsOf, CommandOf, AgentOf
  <2>5. QED
    BY <2>1, <2>3, <2>4 DEF StagedInv
<1>6. LockInv'
  BY <1>1, <1>2 DEF LockInv, TypeOK
<1>7. SnapshotInv'
  <2> SUFFICES ASSUME NEW p \in Poll
               PROVE  /\ \A k \in snapshot[p] : status'[k] # "ABSENT"
                      /\ poll[p] = "read" => \A k \in RowsOf(p[1]) :
                           status'[k] = "CREATE" => k \in snapshot[p] \union late'
                      /\ marked[p] \subseteq snapshot[p] \union late'
    BY DEF SnapshotInv, RowsOf, AgentOf
  <2>1. \A k \in snapshot[p] : status'[k] # "ABSENT"
    BY <1>2 DEF SnapshotInv, TypeOK
  <2>2. ASSUME poll[p] = "read", NEW k \in RowsOf(p[1]), status'[k] = "CREATE"
        PROVE  k \in snapshot[p] \union late'
    <3>1. k \in Key /\ AgentOf(k) = p[1]
      BY DEF RowsOf
    <3>2. CASE k \in staged[c]
      BY <2>2, <3>1, <3>2
    <3>3. CASE k \notin staged[c]
      BY <1>2, <2>2, <3>1, <3>3 DEF SnapshotInv
    <3>4. QED
      BY <3>2, <3>3
  <2>3. marked[p] \subseteq snapshot[p] \union late'
    BY DEF SnapshotInv
  <2>4. QED
    BY <2>1, <2>2, <2>3
<1>8. PushedAreCommitted'
  BY <1>2 DEF PushedAreCommitted, TypeOK
<1>9. FinishedIffReported'
  BY <1>1, <1>2 DEF FinishedIffReported, Finished
<1>10. LostOnlyInWindow'
  BY <1>2 DEF LostOnlyInWindow
<1>11. NoRunBehindOutstanding'
  <2> SUFFICES ASSUME NEW k \in Key, NEW l \in Key,
                      CommandOf(k) = CommandOf(l), AgentOf(k) = AgentOf(l),
                      status'[k] \in Outstanding,
                      SeqOf(l) >= SeqOf(k) + Paths[CommandOf(k)][AgentOf(k)]
               PROVE  status'[l] = "ABSENT"
    BY DEF NoRunBehindOutstanding, CommandOf, AgentOf, SeqOf
  <2>1. CASE k \in staged[c]
    <3>1. CommandOf(k) = c /\ AgentOf(k) \in Agents /\ SeqOf(k) \in 1..MaxSeq
          /\ SeqOf(l) \in 1..MaxSeq /\ k = <<c, AgentOf(k), SeqOf(k)>>
          /\ l = <<c, AgentOf(k), SeqOf(l)>> /\ Paths[c][AgentOf(k)] \in Nat
      BY <1>1, <2>1, RowFields, PathsAssumption
    <3>2. PICK n \in 0..MaxSeq :
              \A s \in 1..MaxSeq : status[<<c, AgentOf(k), s>>] # "ABSENT" <=> s <= n
      BY <3>1 DEF Gapless
    <3>3. \A s \in 1..MaxSeq : <<c, AgentOf(k), s>> \in staged[c]
                                 <=> n < s /\ s <= n + Paths[c][AgentOf(k)]
      BY <2>1, <3>2, StagedLane
    <3>4. n < SeqOf(k)
      BY <2>1, <3>1, <3>3
    <3>5. l \notin staged[c] /\ status[l] = "ABSENT"
      BY <3>1, <3>2, <3>3, <3>4, MaxSeqAssumption
    <3>6. QED
      BY <1>2, <3>5
  <2>2. CASE k \notin staged[c]
    <3>1. status[k] \in Outstanding /\ status[l] = "ABSENT"
      BY <1>2, <2>2 DEF NoRunBehindOutstanding
    <3>2. l \notin staged[c]
      BY <1>1, <3>1 DEF StagedInv, HasOutstanding, RunsOf
    <3>3. QED
      BY <1>2, <3>1, <3>2
  <2>3. QED
    BY <2>1, <2>2
<1>12. QED
  BY <1>3, <1>4, <1>5, <1>6, <1>7, <1>8, <1>9, <1>10, <1>11
-----------------------------------------------------------------------------
(* Steps that leave the table, the creators' rows and the polls alone, and *)
(* put only committed rows on the way to an agent.                         *)
LEMMA PublishInv ==
    ASSUME IInv, TypeOK', NEW c \in Commands, NEW k \in Key, Publishing(c, k),
           UNCHANGED <<status, results, phase, todo, staged, pollVars, historyVars, pushed>>,
           \/ delivered' = [delivered EXCEPT ![c] = @ \union {k}]
           \/ UNCHANGED delivered,
           outbox' \in {outbox, outbox \union {k}},
           broker' \in {broker, broker \union {k}}
    PROVE  IInv'
<1> USE DEF IInv, Publishing, pollVars, historyVars
<1>1. status[k] # "ABSENT"
  BY DEF CreatorInv
<1>2. CreatorInv'
  BY <1>1 DEF CreatorInv, TypeOK
<1>3. Gapless' /\ NoRunBehindOutstanding' /\ FinishedIffReported' /\ StagedInv'
  BY TableKept
<1>4. LockInv' /\ SnapshotInv'
  BY DEF LockInv, SnapshotInv, RowsOf, AgentOf
<1>5. PushedAreCommitted'
  BY <1>1 DEF PushedAreCommitted
<1>6. LostOnlyInWindow'
  BY DEF LostOnlyInWindow
<1>7. QED
  BY <1>2, <1>3, <1>4, <1>5, <1>6

LEMMA FlushMarkInv ==
    ASSUME IInv, TypeOK', NEW c \in Commands, FlushMark(c)
    PROVE  IInv'
<1> USE DEF IInv, FlushMark, networkVars, pollVars, historyVars
<1>1. \A k \in Key : /\ k \in Markable(c) => status[k] = "CREATE" /\ status'[k] = "MQTT"
                     /\ k \notin Markable(c) => status'[k] = status[k]
  BY DEF Markable
<1>2. Gapless' /\ StagedInv' /\ NoRunBehindOutstanding'
  BY <1>1, ForwardKeepsLanes DEF Outstanding
<1>3. CreatorInv'
  BY <1>1 DEF CreatorInv, TypeOK
<1>4. LockInv'
  <2>1. \A p \in Poll : \A k \in marked[p] : k \notin Markable(c)
    BY DEF Locked, Markable
  <2>2. QED
    BY <1>1, <2>1 DEF LockInv, TypeOK
<1>5. SnapshotInv'
  BY <1>1 DEF SnapshotInv, RowsOf, AgentOf, TypeOK
<1>6. PushedAreCommitted' /\ LostOnlyInWindow'
  BY <1>1 DEF PushedAreCommitted, LostOnlyInWindow, TypeOK
<1>7. FinishedIffReported'
  BY <1>1 DEF FinishedIffReported, Finished
<1>8. QED
  BY <1>2, <1>3, <1>4, <1>5, <1>6, <1>7

LEMMA FlushMarkFailsInv ==
    ASSUME IInv, TypeOK', NEW c \in Commands, FlushMarkFails(c)
    PROVE  IInv'
<1> USE DEF IInv, FlushMarkFails, networkVars, pollVars, historyVars
<1>1. CreatorInv'
  BY DEF CreatorInv, TypeOK
<1>2. Gapless' /\ NoRunBehindOutstanding' /\ FinishedIffReported' /\ StagedInv'
  BY TableKept
<1>3. LockInv' /\ SnapshotInv'
  BY DEF LockInv, SnapshotInv, RowsOf, AgentOf
<1>4. PushedAreCommitted' /\ LostOnlyInWindow'
  BY DEF PushedAreCommitted, LostOnlyInWindow
<1>5. QED
  BY <1>1, <1>2, <1>3, <1>4
-----------------------------------------------------------------------------
(* The polls.                                                              *)
LEMMA PollSelectInv ==
    ASSUME IInv, TypeOK', NEW p \in Poll, PollSelect(p)
    PROVE  IInv'
<1> USE DEF IInv, PollSelect, creatorVars, networkVars, historyVars
<1>1. CreatorInv'
  BY DEF CreatorInv
<1>2. Gapless' /\ NoRunBehindOutstanding' /\ FinishedIffReported' /\ StagedInv'
  BY TableKept
<1>3. LockInv'
  BY DEF LockInv, TypeOK
<1>4. SnapshotInv'
  BY DEF SnapshotInv, LockInv, SelectedRows, RowsOf, AgentOf, TypeOK
<1>5. PushedAreCommitted' /\ LostOnlyInWindow'
  BY DEF PushedAreCommitted, LostOnlyInWindow
<1>6. QED
  BY <1>1, <1>2, <1>3, <1>4, <1>5

LEMMA PollUpdateInv ==
    ASSUME IInv, TypeOK', NEW p \in Poll, PollUpdate(p)
    PROVE  IInv'
<1> USE DEF IInv, PollUpdate, creatorVars, networkVars, historyVars
<1>1. CreatorInv'
  BY DEF CreatorInv
<1>2. Gapless' /\ NoRunBehindOutstanding' /\ FinishedIffReported' /\ StagedInv'
  BY TableKept
<1>3. LockInv'
  BY DEF LockInv, Locked, UpdatedRows, TypeOK
<1>4. SnapshotInv'
  BY DEF SnapshotInv, UpdatedRows, RowsOf, AgentOf, TypeOK
<1>5. PushedAreCommitted' /\ LostOnlyInWindow'
  BY DEF PushedAreCommitted, LostOnlyInWindow
<1>6. QED
  BY <1>1, <1>2, <1>3, <1>4, <1>5

LEMMA PollCommitInv ==
    ASSUME IInv, TypeOK', NEW p \in Poll, PollCommit(p)
    PROVE  IInv'
<1> USE DEF IInv, PollCommit, creatorVars, networkVars
<1>1. \A k \in Key : /\ k \in marked[p] => status[k] = "CREATE" /\ status'[k] = "SENDED"
                     /\ k \notin marked[p] => status'[k] = status[k]
  BY DEF LockInv
<1>2. Gapless' /\ StagedInv' /\ NoRunBehindOutstanding'
  BY <1>1, ForwardKeepsLanes DEF Outstanding
<1>3. CreatorInv'
  BY <1>1 DEF CreatorInv, TypeOK
<1>4. LockInv'
  BY <1>1 DEF LockInv, TypeOK
<1>5. SnapshotInv'
  BY <1>1 DEF SnapshotInv, RowsOf, AgentOf, TypeOK
<1>6. PushedAreCommitted'
  BY <1>1 DEF PushedAreCommitted, SnapshotInv, TypeOK
<1>7. LostOnlyInWindow'
  BY <1>1 DEF LostOnlyInWindow, SnapshotInv
<1>8. FinishedIffReported'
  BY <1>1 DEF FinishedIffReported, Finished
<1>9. QED
  BY <1>2, <1>3, <1>4, <1>5, <1>6, <1>7, <1>8

\* The ends of a poll: it fails, or its response arrives or is lost.
LEMMA PollEndInv ==
    ASSUME IInv, TypeOK', NEW p \in Poll,
           UNCHANGED <<status, results, creatorVars, outbox, broker, pushed, historyVars>>,
           poll' = [poll EXCEPT ![p] = "idle"],
           snapshot' = [snapshot EXCEPT ![p] = {}],
           marked' = [marked EXCEPT ![p] = {}]
    PROVE  IInv'
<1> USE DEF IInv, creatorVars, historyVars
<1>1. CreatorInv'
  BY DEF CreatorInv
<1>2. Gapless' /\ NoRunBehindOutstanding' /\ FinishedIffReported' /\ StagedInv'
  BY TableKept
<1>3. LockInv'
  BY DEF LockInv, TypeOK
<1>4. SnapshotInv'
  BY DEF SnapshotInv, RowsOf, AgentOf, TypeOK
<1>5. PushedAreCommitted' /\ LostOnlyInWindow'
  BY DEF PushedAreCommitted, LostOnlyInWindow
<1>6. QED
  BY <1>1, <1>2, <1>3, <1>4, <1>5

LEMMA PollReplyInv ==
    ASSUME IInv, TypeOK', NEW p \in Poll, PollReply(p) \/ PollReplyLost(p)
    PROVE  IInv'
<1>1. poll[p] = "reply" /\ marked' = marked
  BY DEF PollReply, PollReplyLost
<1>2. marked[p] = {} /\ marked \in [Poll -> SUBSET Key]
  BY <1>1 DEF IInv, LockInv, TypeOK
<1>3. marked' = [marked EXCEPT ![p] = {}]
  BY <1>1, <1>2
<1>4. QED
  BY <1>3, PollEndInv DEF PollReply, PollReplyLost, networkVars
-----------------------------------------------------------------------------
(* The network, the results and a crash.                                   *)
LEMMA NetworkInv ==
    ASSUME IInv, TypeOK', NEW k \in Key, Network(k)
    PROVE  IInv'
<1>1. /\ UNCHANGED <<status, results, creatorVars, pollVars, historyVars>>
      /\ (outbox \union broker \union pushed)' \subseteq outbox \union broker \union pushed
  BY DEF Network, OutboxSend, BrokerDeliver, BrokerDrop
<1> USE <1>1 DEF IInv, creatorVars, pollVars, historyVars
<1>2. CreatorInv'
  BY DEF CreatorInv
<1>3. Gapless' /\ NoRunBehindOutstanding' /\ FinishedIffReported' /\ StagedInv'
  BY TableKept
<1>4. LockInv' /\ SnapshotInv'
  BY DEF LockInv, SnapshotInv, RowsOf, AgentOf
<1>5. PushedAreCommitted' /\ LostOnlyInWindow'
  BY DEF PushedAreCommitted, LostOnlyInWindow
<1>6. QED
  BY <1>2, <1>3, <1>4, <1>5

LEMMA PostResultInv ==
    ASSUME IInv, TypeOK', NEW k \in Key, NEW rk \in ResultKeys, NEW o \in Finished,
           PostResult(k, rk, o)
    PROVE  IInv'
<1> USE DEF IInv, PostResult, creatorVars, networkVars, pollVars, historyVars
<1>1. /\ status[k] # "ABSENT" /\ status'[k] = o
      /\ \A l \in Key : l # k => status'[l] = status[l]
  BY DEF TypeOK
<1>2. Gapless' /\ StagedInv' /\ NoRunBehindOutstanding'
  BY <1>1, ForwardKeepsLanes DEF Outstanding, Finished
<1>3. CreatorInv'
  BY <1>1 DEF CreatorInv, TypeOK, Finished
<1>4. LockInv'
  BY <1>1 DEF LockInv, Locked, TypeOK
<1>5. SnapshotInv'
  BY <1>1 DEF SnapshotInv, RowsOf, AgentOf, TypeOK, Finished
<1>6. PushedAreCommitted' /\ LostOnlyInWindow'
  BY <1>1 DEF PushedAreCommitted, LostOnlyInWindow, TypeOK, Finished
<1>7. FinishedIffReported'
  BY <1>1 DEF FinishedIffReported, TypeOK
<1>8. QED
  BY <1>2, <1>3, <1>4, <1>5, <1>6, <1>7

LEMMA CrashInv ==
    ASSUME IInv, TypeOK', Crash
    PROVE  IInv'
<1> USE DEF IInv, Crash, historyVars
<1>1. CreatorInv'
  BY DEF CreatorInv
<1>2. Gapless' /\ NoRunBehindOutstanding' /\ FinishedIffReported'
  BY TableKept
<1>3. StagedInv'
  BY DEF StagedInv
<1>4. LockInv' /\ SnapshotInv'
  BY DEF LockInv, SnapshotInv
<1>5. PushedAreCommitted' /\ LostOnlyInWindow'
  BY DEF PushedAreCommitted, LostOnlyInWindow
<1>6. QED
  BY <1>1, <1>2, <1>3, <1>4, <1>5
-----------------------------------------------------------------------------
LEMMA InitInv == Init => IInv
<1> SUFFICES ASSUME Init PROVE IInv
  OBVIOUS
<1> USE DEF Init
<1>1. TypeOK
  BY MqttAssumption, MaxCrashAssumption DEF TypeOK, Statuses
<1>2. CreatorInv /\ StagedInv
  BY DEF CreatorInv, StagedInv
<1>3. Gapless
  <2> SUFFICES ASSUME NEW c \in Commands, NEW a \in Agents
               PROVE  \E n \in 0..MaxSeq :
                        \A s \in 1..MaxSeq : status[<<c, a, s>>] # "ABSENT" <=> s <= n
    BY DEF Gapless
  <2>1. 0 \in 0..MaxSeq /\ \A s \in 1..MaxSeq : ~(s <= 0) /\ <<c, a, s>> \in Key
    BY MaxSeqAssumption DEF Key
  <2>2. QED
    BY <2>1
<1>4. LockInv /\ SnapshotInv
  BY DEF LockInv, SnapshotInv, RowsOf
<1>5. PushedAreCommitted /\ LostOnlyInWindow /\ NoRunBehindOutstanding
  BY DEF PushedAreCommitted, LostOnlyInWindow, NoRunBehindOutstanding, Outstanding
<1>6. FinishedIffReported
  BY DEF FinishedIffReported, Finished
<1>7. QED
  BY <1>1, <1>2, <1>3, <1>4, <1>5, <1>6 DEF IInv

LEMMA StepInv ==
    ASSUME IInv, TypeOK', [Next]_vars
    PROVE  IInv'
<1>1. ASSUME NEW c \in Commands, Create(c) PROVE IInv'
  BY <1>1, CreateBeginInv, CreateAgentInv, CreateCommitInv, CreateRollbackInv DEF Create
<1>2. ASSUME NEW c \in Commands, Flush(c) PROVE IInv'
  <2>1. ASSUME NEW k \in Key,
               \/ PublishAcked(c, k) \/ PublishRefused(c, k)
               \/ PublishOffline(c, k) \/ PublishTimeout(c, k)
        PROVE  IInv'
    BY <2>1, PublishInv
       DEF PublishAcked, PublishRefused, PublishOffline, PublishTimeout, Publishing, networkVars
  <2>2. QED
    BY <1>2, <2>1, FlushMarkInv, FlushMarkFailsInv DEF Flush
<1>3. ASSUME NEW p \in Poll, PollStep(p) PROVE IInv'
  <2>1. CASE PollFails(p)
    BY <2>1, PollEndInv DEF PollFails, networkVars
  <2>2. CASE PollReply(p) \/ PollReplyLost(p)
    BY <2>2, PollReplyInv
  <2>3. QED
    BY <1>3, <2>1, <2>2, PollSelectInv, PollUpdateInv, PollCommitInv DEF PollStep
<1>4. ASSUME NEW k \in Key, Network(k) \/ Result(k) PROVE IInv'
  BY <1>4, NetworkInv, PostResultInv DEF Result
<1>5. CASE UNCHANGED vars
  <2> USE <1>5 DEF vars, creatorVars, networkVars, pollVars, historyVars, IInv
  <2>1. Gapless' /\ NoRunBehindOutstanding' /\ FinishedIffReported' /\ StagedInv'
    BY TableKept
  <2>2. CreatorInv' /\ LockInv' /\ SnapshotInv'
    BY DEF CreatorInv, LockInv, SnapshotInv, RowsOf, AgentOf
  <2>3. PushedAreCommitted' /\ LostOnlyInWindow'
    BY DEF PushedAreCommitted, LostOnlyInWindow
  <2>4. QED
    BY <2>1, <2>2, <2>3
<1>6. QED
  BY <1>1, <1>2, <1>3, <1>4, <1>5, CrashInv DEF Next

(* The invariant every safety theorem below is read off from.              *)
THEOREM Inductive == Spec => []IInv
<1>1. IInv /\ TypeOK' /\ [Next]_vars => IInv'
  BY StepInv
<1>2. QED
  BY <1>1, InitInv, TypeCorrect, PTL DEF Spec

(* No message about a row that is not committed ever exists (the hooks     *)
(* views/agent.py:107-118 push after the commit only).                     *)
THEOREM PushSafe == Spec => []PushedAreCommitted
<1>1. IInv => PushedAreCommitted
  BY DEF IInv
<1>2. QED
  BY <1>1, Inductive, PTL

(* A detail is finished exactly when a result of it is filed (add_result,  *)
(* agent.py:899-947), whatever flushes and polls run at the same time.     *)
THEOREM ResultSafe == Spec => []FinishedIffReported
<1>1. IInv => FinishedIffReported
  BY DEF IInv
<1>2. QED
  BY <1>1, Inductive, PTL

(* send_commands (agent.py:833-873) loses a command only when it is        *)
(* committed between its SELECT and its UPDATE.                            *)
THEOREM LossSafe == Spec => []LostOnlyInWindow
<1>1. IInv => LostOnlyInWindow
  BY DEF IInv
<1>2. QED
  BY <1>1, Inductive, PTL

(* create_command_detail (agent.py:458-626) adds no run behind one that    *)
(* still waits.                                                            *)
THEOREM LaneSafe == Spec => []NoRunBehindOutstanding
<1>1. IInv => NoRunBehindOutstanding
  BY DEF IInv
<1>2. QED
  BY <1>1, Inductive, PTL
-----------------------------------------------------------------------------
(* What one step does to the detail table.                                 *)
\* PollCommit is the only step that hands rows out by poll, FlushMark the only
\* one that claims them for MQTT, PostResult the only one that finishes one.
TableStep ==
    \/ UNCHANGED status
    \/ \E c \in Commands : CreateCommit(c)
    \/ \E rows \in SUBSET Key, s \in {"SENDED", "MQTT"} :
          /\ \A k \in rows : status[k] = "CREATE"
          /\ status' = [k \in Key |-> IF k \in rows THEN s ELSE status[k]]
    \/ \E k \in Key, o \in Finished :
          /\ status[k] # "ABSENT"
          /\ status' = [status EXCEPT ![k] = o]

LEMMA StepOfTable ==
    ASSUME IInv, [Next]_vars
    PROVE  TableStep
<1>1. ASSUME NEW c \in Commands, Create(c) PROVE TableStep
  BY <1>1 DEF Create, CreateBegin, CreateAgent, CreateRollback, TableStep
<1>2. ASSUME NEW c \in Commands, Flush(c) PROVE TableStep
  <2>1. CASE FlushMark(c)
    <3>1. Markable(c) \in SUBSET Key /\ \A k \in Markable(c) : status[k] = "CREATE"
      BY DEF Markable, IInv, TypeOK
    <3>2. status' = [k \in Key |-> IF k \in Markable(c) THEN "MQTT" ELSE status[k]]
      BY <2>1 DEF FlushMark
    <3>3. QED
      BY <3>1, <3>2 DEF TableStep
  <2>2. QED
    BY <1>2, <2>1 DEF Flush, PublishAcked, PublishRefused, PublishOffline, PublishTimeout,
       FlushMarkFails, TableStep
<1>3. ASSUME NEW p \in Poll, PollStep(p) PROVE TableStep
  <2>1. CASE PollCommit(p)
    <3>1. marked[p] \in SUBSET Key /\ \A k \in marked[p] : status[k] = "CREATE"
      BY DEF LockInv, IInv, TypeOK
    <3>2. status' = [k \in Key |-> IF k \in marked[p] THEN "SENDED" ELSE status[k]]
      BY <2>1 DEF PollCommit
    <3>3. QED
      BY <3>1, <3>2 DEF TableStep
  <2>2. QED
    BY <1>3, <2>1 DEF PollStep, PollSelect, PollUpdate, PollFails, PollReply, PollReplyLost,
       TableStep
<1>4. ASSUME NEW k \in Key, Network(k) PROVE TableStep
  BY <1>4 DEF Network, OutboxSend, BrokerDeliver, BrokerDrop, TableStep
<1>5. ASSUME NEW k \in Key, Result(k) PROVE TableStep
  BY <1>5 DEF Result, PostResult, TableStep
<1>6. CASE Crash \/ UNCHANGED vars
  BY <1>6 DEF Crash, vars, TableStep
<1>7. QED
  BY <1>1, <1>2, <1>3, <1>4, <1>5, <1>6 DEF Next

\* The value of the case distinction, arm by arm.
LEMMA SuccessorsValue ==
    /\ Successors("ABSENT") = {"CREATE"}
    /\ Successors("CREATE") = {"SENDED", "MQTT"} \union Finished
    /\ \A s \in Statuses : s # "ABSENT" => Finished \subseteq Successors(s)
<1>1. "ABSENT" \notin Finished /\ "CREATE" \notin Finished
  BY DEF Finished
<1>2. Successors("ABSENT") = {"CREATE"}
  BY <1>1 DEF Successors
<1>3. Successors("CREATE") = {"SENDED", "MQTT"} \union Finished
  BY <1>1 DEF Successors
<1>4. Successors("SENDED") = Finished /\ Successors("MQTT") = Finished
  BY DEF Successors, Finished
<1>5. Successors("COMPLITED") = Finished /\ Successors("FAILED") = Finished
  BY DEF Successors, Finished
<1>6. QED
  BY <1>2, <1>3, <1>4, <1>5 DEF Statuses

(* A row never moves back: no flush claims a row a poll took, no poll hands *)
(* a row out again, no step undoes a result.                               *)
THEOREM ForwardSafe == Spec => OnlyForward
<1> DEFINE Forward ==
      \A k \in Key : status'[k] # status[k] => status'[k] \in Successors(status[k])
<1>1. ASSUME IInv, [Next]_vars PROVE [Forward]_status
  <2> SUFFICES ASSUME NEW k \in Key, status'[k] # status[k]
               PROVE  status'[k] \in Successors(status[k])
    OBVIOUS
  <2>1. TableStep /\ status[k] \in Statuses
    BY <1>1, StepOfTable DEF IInv, TypeOK
  <2>2. ASSUME NEW c \in Commands, CreateCommit(c)
        PROVE  status'[k] \in Successors(status[k])
    BY <1>1, <2>2, StagedAbsent, SuccessorsValue DEF CreateCommit, IInv
  <2>3. ASSUME NEW rows \in SUBSET Key, NEW s \in {"SENDED", "MQTT"},
               \A l \in rows : status[l] = "CREATE",
               status' = [l \in Key |-> IF l \in rows THEN s ELSE status[l]]
        PROVE  status'[k] \in Successors(status[k])
    <3>1. status[k] = "CREATE" /\ status'[k] = s
      BY <2>3
    <3>2. QED
      BY <3>1, SuccessorsValue
  <2>4. ASSUME NEW l \in Key, NEW o \in Finished, status[l] # "ABSENT",
               status' = [status EXCEPT ![l] = o]
        PROVE  status'[k] \in Successors(status[k])
    <3>1. status[k] # "ABSENT" /\ status'[k] = o
      BY <1>1, <2>4 DEF IInv, TypeOK
    <3>2. QED
      BY <2>1, <3>1, SuccessorsValue
  <2>5. QED
    BY <2>1, <2>2, <2>3, <2>4 DEF TableStep
<1>2. QED
  BY <1>1, Inductive, PTL DEF Spec, OnlyForward
-----------------------------------------------------------------------------
(* The refinement of CommandLedger.                                        *)
Stage == [k \in Key |-> StageOf(status[k])]

LEMMA StageValue ==
    /\ StageOf("ABSENT") = "absent" /\ StageOf("CREATE") = "waiting"
    /\ StageOf("SENDED") = "handed" /\ StageOf("MQTT") = "handed"
    /\ StageOf("COMPLITED") = "finished" /\ StageOf("FAILED") = "finished"
<1>1. StageOf("ABSENT") = "absent"
  BY DEF StageOf, Finished
<1>2. StageOf("CREATE") = "waiting"
  BY DEF StageOf, Finished
<1>3. StageOf("SENDED") = "handed" /\ StageOf("MQTT") = "handed"
  BY DEF StageOf, Finished
<1>4. StageOf("COMPLITED") = "finished" /\ StageOf("FAILED") = "finished"
  BY DEF StageOf, Finished
<1>5. QED
  BY <1>1, <1>2, <1>3, <1>4

\* The committed rows of a run fit the ledger.
LEMMA RunFits ==
    ASSUME IInv, NEW c \in Commands
    PROVE  staged[c] \in SUBSET Key /\ Ledger!Fits(staged[c])
<1> USE DEF IInv
<1>1. \A k \in staged[c] : k \in Key /\ CommandOf(k) = c /\ status[k] = "ABSENT"
  BY StagedAbsent
<1>2. Ledger!Row = Key
  BY DEF Ledger!Row, Key
<1>3. ASSUME NEW k \in staged[c] PROVE Stage[k] = "absent" /\ ~Ledger!Waits(k)
  <2>1. Stage[k] = "absent"
    BY <1>1, StageValue DEF Stage
  <2>2. ASSUME NEW l \in Key, Ledger!SameLane(k, l) PROVE Stage[l] # "waiting"
    <3>1. l \in RunsOf(c, AgentOf(k))
      BY <1>1, <2>2 DEF Ledger!SameLane, RunsOf, CommandOf, AgentOf
    <3>2. status[l] # "CREATE" /\ status[l] \in Statuses
      BY <3>1 DEF StagedInv, HasOutstanding, Outstanding, TypeOK
    <3>3. QED
      BY <3>2, StageValue DEF Stage, Statuses
  <2>3. QED
    BY <1>2, <2>1, <2>2 DEF Ledger!Waits, Stage
<1>4. ASSUME NEW k \in staged[c], NEW l \in Key, Ledger!SameLane(k, l), l[3] < k[3]
      PROVE  Stage[l] # "absent" \/ l \in staged[c]
  <2>1. /\ k = <<c, AgentOf(k), SeqOf(k)>> /\ l = <<c, AgentOf(k), SeqOf(l)>>
        /\ AgentOf(k) \in Agents /\ SeqOf(k) \in 1..MaxSeq /\ SeqOf(l) \in 1..MaxSeq
        /\ SeqOf(l) < SeqOf(k)
    BY <1>1, <1>4, RowFields DEF Ledger!SameLane, CommandOf, AgentOf, SeqOf
  <2>2. PICK n \in 0..MaxSeq :
            \A s \in 1..MaxSeq : status[<<c, AgentOf(k), s>>] # "ABSENT" <=> s <= n
    BY <2>1 DEF Gapless
  <2>3. \A s \in 1..MaxSeq : <<c, AgentOf(k), s>> \in staged[c]
                               <=> n < s /\ s <= n + Paths[c][AgentOf(k)]
    BY <2>2, StagedLane
  <2>4. SeqOf(k) <= n + Paths[c][AgentOf(k)] /\ Paths[c][AgentOf(k)] \in Nat
    BY <2>1, <2>3, PathsAssumption
  <2>5. CASE SeqOf(l) <= n
    <3>1. status[l] # "ABSENT" /\ status[l] \in Statuses
      BY <2>1, <2>2, <2>5 DEF TypeOK
    <3>2. QED
      BY <3>1, StageValue DEF Stage, Statuses
  <2>6. CASE ~(SeqOf(l) <= n)
    BY <2>1, <2>3, <2>4, <2>6, MaxSeqAssumption
  <2>7. QED
    BY <2>5, <2>6
<1>5. staged[c] \in SUBSET Key
  BY <1>1
<1>6. QED
  BY <1>2, <1>3, <1>4, <1>5 DEF Ledger!Fits, Stage

(* create_command_detail, flush_mqtt_pending, send_commands and add_result, *)
(* interleaved and crashed in any way, implement the ledger of runs.       *)
THEOREM Refinement == Spec => ImplementsLedger
<1> USE DEF Stage
<1>1. Init => Ledger!LedgerInit
  BY StageValue DEF Init, Ledger!LedgerInit, Ledger!Row, Key
<1>2. ASSUME IInv, [Next]_vars PROVE [Ledger!LedgerNext]_Stage
  <2>1. TableStep /\ status \in [Key -> Statuses] /\ Ledger!Row = Key
    BY <1>2, StepOfTable DEF IInv, TypeOK, Ledger!Row, Key
  <2>2. ASSUME NEW c \in Commands, CreateCommit(c) PROVE [Ledger!LedgerNext]_Stage
    <3>1. Stage' = [k \in Key |-> IF k \in staged[c] THEN "waiting" ELSE Stage[k]]
      BY <2>2, StageValue DEF CreateCommit
    <3>2. Ledger!Issue
      BY <1>2, <2>1, <3>1, RunFits DEF Ledger!Issue
    <3>3. QED
      BY <3>2 DEF Ledger!LedgerNext
  <2>3. ASSUME NEW rows \in SUBSET Key, NEW s \in {"SENDED", "MQTT"},
               \A l \in rows : status[l] = "CREATE",
               status' = [l \in Key |-> IF l \in rows THEN s ELSE status[l]]
        PROVE  [Ledger!LedgerNext]_Stage
    <3>1. Stage' = [k \in Key |-> IF k \in rows THEN "handed" ELSE Stage[k]]
      BY <2>3, StageValue
    <3>2. \A l \in rows : Stage[l] = "waiting"
      BY <2>3, StageValue
    <3>3. Ledger!HandOut
      BY <2>1, <3>1, <3>2 DEF Ledger!HandOut
    <3>4. QED
      BY <3>3 DEF Ledger!LedgerNext
  <2>4. ASSUME NEW l \in Key, NEW o \in Finished, status[l] # "ABSENT",
               status' = [status EXCEPT ![l] = o]
        PROVE  [Ledger!LedgerNext]_Stage
    <3>1. Stage' = [Stage EXCEPT ![l] = "finished"]
      BY <2>1, <2>4, StageValue DEF Finished
    <3>2. CASE status[l] \in Finished
      <4>1. Stage[l] = "finished"
        BY <3>2, StageValue DEF Finished
      <4>2. Stage' = Stage
        BY <3>1, <4>1
      <4>3. QED
        BY <4>2
    <3>3. CASE status[l] \notin Finished
      <4>1. Stage[l] \in {"waiting", "handed"}
        BY <2>1, <2>4, <3>3, StageValue DEF Finished, Statuses
      <4>2. Ledger!Finish
        BY <2>1, <3>1, <4>1 DEF Ledger!Finish
      <4>3. QED
        BY <4>2 DEF Ledger!LedgerNext
    <3>4. QED
      BY <3>2, <3>3
  <2>5. CASE UNCHANGED status
    BY <2>5
  <2>6. QED
    BY <2>1, <2>2, <2>3, <2>4, <2>5 DEF TableStep
<1>3. QED
  BY <1>1, <1>2, Inductive, PTL DEF Spec, ImplementsLedger, Ledger!LedgerSpec
-----------------------------------------------------------------------------
(* How often a poll hands a row out.                                       *)

\* A step of the table makes no old row CREATE.
LEMMA NoneWaitsAgain ==
    ASSUME IInv, [Next]_vars, NEW k \in Key
    PROVE  /\ status[k] # "ABSENT" => status'[k] # "ABSENT"
           /\ status'[k] = "CREATE" => status[k] \in {"ABSENT", "CREATE"}
<1>1. TableStep /\ status \in [Key -> Statuses]
  BY StepOfTable DEF IInv, TypeOK
<1>2. \A c \in Commands : \A l \in staged[c] : status[l] = "ABSENT"
  BY StagedAbsent DEF IInv
<1>3. QED
  BY <1>1, <1>2 DEF TableStep, CreateCommit, Finished, Statuses

\* Steps of other actors leave the polls and what they have handed out alone.
LEMMA PollsKept ==
    ASSUME IInv, PollInv, SpentInv, [Next]_vars,
           UNCHANGED <<poll, snapshot, marked, polled>>
    PROVE  PollInv' /\ SpentInv'
<1>1. \A p \in Poll : \A k \in snapshot[p] : k \in Key /\ status[k] # "ABSENT"
  BY DEF IInv, TypeOK, SnapshotInv
<1>2. PollInv'
  BY <1>1, NoneWaitsAgain DEF PollInv, AgentOf
<1>3. SpentInv'
  <2> SUFFICES ASSUME NEW k \in Key
               PROVE  \E used \in SUBSET Requests : Spent(k, used)'
    BY DEF SpentInv
  <2>1. PICK used \in SUBSET Requests : Spent(k, used)
    BY DEF SpentInv
  <2>2. Spent(k, used)'
    BY <2>1, NoneWaitsAgain DEF Spent, AgentOf
  <2>3. QED
    BY <2>2
<1>4. QED
  BY <1>2, <1>3

\* A poll that is dropped, or loses its response, hands nothing out.
LEMMA PollDropped ==
    ASSUME IInv, PollInv, SpentInv, NEW p \in Poll, PollFails(p) \/ PollReplyLost(p)
    PROVE  PollInv' /\ SpentInv'
<1>1. UNCHANGED <<status, polled>> /\ snapshot' = [snapshot EXCEPT ![p] = {}]
  BY DEF PollFails, PollReplyLost, networkVars
<1>2. \A q \in Poll : /\ snapshot'[q] \subseteq snapshot[q]
                      /\ q = p => snapshot'[q] = {}
                      /\ q # p => poll'[q] = poll[q] /\ marked'[q] = marked[q]
  BY <1>1 DEF PollFails, PollReplyLost, IInv, TypeOK
<1>3. PollInv'
  BY <1>1, <1>2 DEF PollInv, AgentOf
<1>4. SpentInv'
  <2> SUFFICES ASSUME NEW k \in Key
               PROVE  \E used \in SUBSET Requests : Spent(k, used)'
    BY DEF SpentInv
  <2>1. PICK used \in SUBSET Requests : Spent(k, used)
    BY DEF SpentInv
  <2>2. \A r \in used : <<AgentOf(k), r>> \in Poll
    BY <2>1, RowFields DEF Poll
  <2>3. Spent(k, used)'
    BY <1>1, <1>2, <2>1, <2>2 DEF Spent, AgentOf
  <2>4. QED
    BY <2>3
<1>5. QED
  BY <1>3, <1>4

\* A request that has handed the row out does not read it again.
LEMMA PollSelectSpent ==
    ASSUME IInv, PollInv, SpentInv, NEW p \in Poll, PollSelect(p)
    PROVE  PollInv' /\ SpentInv'
<1>1. UNCHANGED <<status, polled, marked>>
  BY DEF PollSelect, networkVars
<1>2. \A q \in Poll : /\ q # p => snapshot'[q] = snapshot[q] /\ poll'[q] = poll[q]
                      /\ q = p => poll'[q] = "read"
  BY DEF PollSelect, IInv, TypeOK
<1>3. \A k \in snapshot'[p] : status[k] = "CREATE" /\ AgentOf(k) = p[1]
  BY DEF PollSelect, SelectedRows, RowsOf, IInv, TypeOK
<1>4. PollInv'
  BY <1>1, <1>2, <1>3 DEF PollInv, AgentOf
<1>5. SpentInv'
  <2> SUFFICES ASSUME NEW k \in Key
               PROVE  \E used \in SUBSET Requests : Spent(k, used)'
    BY DEF SpentInv
  <2>1. PICK used \in SUBSET Requests : Spent(k, used)
    BY DEF SpentInv
  <2>2. \A r \in used : <<AgentOf(k), r>> \in Poll /\ status[k] # "CREATE"
    BY <2>1, RowFields DEF Poll, Spent
  <2>3. Spent(k, used)'
    BY <1>1, <1>2, <1>3, <2>1, <2>2 DEF Spent, AgentOf
  <2>4. QED
    BY <2>3
<1>6. QED
  BY <1>4, <1>5

\* The UPDATE locks every CREATE row the poll has read; its commit ends them.
LEMMA PollMarkSpent ==
    ASSUME IInv, PollInv, SpentInv, [Next]_vars, NEW p \in Poll,
           PollUpdate(p) \/ PollCommit(p)
    PROVE  PollInv' /\ SpentInv'
<1>1. UNCHANGED <<snapshot, polled>>
  BY DEF PollUpdate, PollCommit, networkVars
<1>2. \A q \in Poll : q # p => poll'[q] = poll[q] /\ marked'[q] = marked[q]
  BY DEF PollUpdate, PollCommit, IInv, TypeOK
<1>3. \A q \in Poll : \A k \in snapshot[q] : k \in Key /\ status[k] # "ABSENT"
  BY DEF IInv, TypeOK, SnapshotInv
<1>4. PollInv'
  <2> SUFFICES ASSUME NEW q \in Poll
               PROVE  /\ poll'[q] = "idle" => snapshot[q] = {}
                      /\ \A k \in snapshot[q] :
                           /\ AgentOf(k) = q[1]
                           /\ poll'[q] = "updated" /\ status'[k] = "CREATE" => k \in marked'[q]
                           /\ poll'[q] = "reply" => status'[k] # "CREATE"
    BY <1>1 DEF PollInv, AgentOf
  <2>1. CASE q # p
    BY <1>2, <1>3, <2>1, NoneWaitsAgain DEF PollInv
  <2>2. CASE q = p /\ PollUpdate(p)
    <3>1. poll'[p] = "updated" /\ marked'[p] = UpdatedRows(p[1]) /\ UNCHANGED status
      BY <2>2 DEF PollUpdate, IInv, TypeOK
    <3>2. \A k \in snapshot[p] : AgentOf(k) = p[1]
      BY DEF PollInv
    <3>3. QED
      BY <1>3, <2>2, <3>1, <3>2 DEF UpdatedRows, RowsOf
  <2>3. CASE q = p /\ PollCommit(p)
    <3>1. poll[p] = "updated" /\ poll'[p] = "reply"
      BY <2>3 DEF PollCommit, IInv, TypeOK
    <3>2. \A k \in Key : status'[k] = IF k \in marked[p] THEN "SENDED" ELSE status[k]
      BY <2>3 DEF PollCommit
    <3>3. QED
      BY <1>3, <2>3, <3>1, <3>2 DEF PollInv
  <2>4. QED
    BY <2>1, <2>2, <2>3
<1>5. SpentInv'
  <2> SUFFICES ASSUME NEW k \in Key
               PROVE  \E used \in SUBSET Requests : Spent(k, used)'
    BY DEF SpentInv
  <2>1. PICK used \in SUBSET Requests : Spent(k, used)
    BY DEF SpentInv
  <2>2. Spent(k, used)'
    BY <1>1, <2>1, NoneWaitsAgain DEF Spent, AgentOf
  <2>3. QED
    BY <2>2
<1>6. QED
  BY <1>4, <1>5

\* The response arrives: its request is spent for every row in it.
LEMMA PollReplySpent ==
    ASSUME IInv, PollInv, SpentInv, NEW p \in Poll, PollReply(p)
    PROVE  PollInv' /\ SpentInv'
<1>1. UNCHANGED <<status, marked>> /\ poll[p] = "reply" /\ snapshot'[p] = {}
  BY DEF PollReply, IInv, TypeOK
<1>2. \A q \in Poll : /\ q # p => snapshot'[q] = snapshot[q] /\ poll'[q] = poll[q]
                      /\ snapshot'[q] \subseteq snapshot[q]
  BY DEF PollReply, IInv, TypeOK
<1>3. PollInv'
  BY <1>1, <1>2 DEF PollInv, AgentOf
<1>4. SpentInv'
  <2> SUFFICES ASSUME NEW k \in Key
               PROVE  \E used \in SUBSET Requests : Spent(k, used)'
    BY DEF SpentInv
  <2>1. PICK used \in SUBSET Requests : Spent(k, used)
    BY DEF SpentInv
  <2>2. \A r \in Requests : <<AgentOf(k), r>> \in Poll
    BY RowFields DEF Poll
  <2>3. CASE k \notin snapshot[p]
    <3>1. polled'[k] = polled[k]
      BY <2>3 DEF PollReply
    <3>2. Spent(k, used)'
      BY <1>1, <1>2, <2>1, <2>2, <3>1 DEF Spent, AgentOf
    <3>3. QED
      BY <3>2
  <2>4. CASE k \in snapshot[p]
    <3> DEFINE more == used \union {p[2]}
    <3>1. polled'[k] = polled[k] + 1
      BY <2>4 DEF PollReply
    <3>2. /\ AgentOf(k) = p[1] /\ p[2] \in Requests /\ p = <<AgentOf(k), p[2]>>
          /\ status[k] \notin {"ABSENT", "CREATE"}
      BY <1>1, <2>4 DEF PollInv, Poll, SnapshotInv, IInv
    <3>3. p[2] \notin used
      BY <2>1, <2>4, <3>2 DEF Spent
    <3>4. IsFiniteSet(used)
      BY <2>1, RequestsAssumption, FS_Subset
    <3>5. Cardinality(more) = Cardinality(used) + 1
      BY <3>3, <3>4, FS_AddElement
    <3>6. \A r \in more : k \notin snapshot'[<<AgentOf(k), r>>]
      BY <1>1, <1>2, <2>1, <2>2, <3>2 DEF Spent
    <3>7. Spent(k, more)'
      BY <1>1, <2>1, <3>1, <3>2, <3>5, <3>6 DEF Spent, AgentOf
    <3>8. more \in SUBSET Requests
      BY <2>1, <3>2
    <3>9. QED
      BY <3>7, <3>8
  <2>5. QED
    BY <2>3, <2>4
<1>5. QED
  BY <1>3, <1>4

\* The process dies: every response that was not sent is lost.
LEMMA CrashSpent ==
    ASSUME IInv, PollInv, SpentInv, Crash
    PROVE  PollInv' /\ SpentInv'
<1>1. UNCHANGED <<status, polled>> /\ snapshot' = [p \in Poll |-> {}]
  BY DEF Crash
<1>2. PollInv'
  BY <1>1 DEF PollInv
<1>3. SpentInv'
  <2> SUFFICES ASSUME NEW k \in Key
               PROVE  \E used \in SUBSET Requests : Spent(k, used)'
    BY DEF SpentInv
  <2>1. PICK used \in SUBSET Requests : Spent(k, used)
    BY DEF SpentInv
  <2>2. \A r \in used : <<AgentOf(k), r>> \in Poll
    BY <2>1, RowFields DEF Poll
  <2>3. Spent(k, used)'
    BY <1>1, <2>1, <2>2 DEF Spent, AgentOf
  <2>4. QED
    BY <2>3
<1>4. QED
  BY <1>2, <1>3

(* An agent receives a command in no more poll responses than it has polls *)
(* open: send_commands commits SENDED before it answers, and no flush,     *)
(* retry, late run, result or crash makes the row CREATE again.            *)
THEOREM PolledSafe == Spec => []PolledOncePerRequest
<1>1. Init => PollInv /\ SpentInv
  <2> SUFFICES ASSUME Init PROVE PollInv /\ SpentInv
    OBVIOUS
  <2>1. PollInv
    BY DEF Init, PollInv
  <2>2. \A k \in Key : Spent(k, {})
    BY FS_EmptySet DEF Init, Spent
  <2>3. QED
    BY <2>1, <2>2 DEF SpentInv
<1>2. ASSUME IInv, PollInv, SpentInv, [Next]_vars PROVE PollInv' /\ SpentInv'
  <2> USE <1>2
  <2>1. ASSUME NEW c \in Commands, Create(c) \/ Flush(c) PROVE PollInv' /\ SpentInv'
    <3>1. UNCHANGED <<poll, snapshot, marked, polled>>
      BY <2>1 DEF Create, Flush, CreateBegin, CreateAgent, CreateCommit, CreateRollback,
         PublishAcked, PublishRefused, PublishOffline, PublishTimeout, FlushMark,
         FlushMarkFails, networkVars, pollVars
    <3>2. QED
      BY <3>1, PollsKept
  <2>2. ASSUME NEW p \in Poll, PollStep(p) PROVE PollInv' /\ SpentInv'
    BY <2>2, PollDropped, PollSelectSpent, PollMarkSpent, PollReplySpent DEF PollStep
  <2>3. ASSUME NEW k \in Key, Network(k) \/ Result(k) PROVE PollInv' /\ SpentInv'
    <3>1. UNCHANGED <<poll, snapshot, marked, polled>>
      BY <2>3 DEF Network, Result, OutboxSend, BrokerDeliver, BrokerDrop, PostResult,
         networkVars, pollVars
    <3>2. QED
      BY <3>1, PollsKept
  <2>4. CASE Crash
    BY <2>4, CrashSpent
  <2>5. CASE UNCHANGED vars
    <3>1. UNCHANGED <<poll, snapshot, marked, polled>>
      BY <2>5 DEF vars, pollVars, networkVars
    <3>2. QED
      BY <3>1, PollsKept
  <2>6. QED
    BY <2>1, <2>2, <2>3, <2>4, <2>5 DEF Next
<1>3. SpentInv => PolledOncePerRequest
  <2> SUFFICES ASSUME SpentInv, NEW k \in Key
               PROVE  polled[k] <= Cardinality(Requests)
    BY DEF PolledOncePerRequest
  <2>1. PICK used \in SUBSET Requests : Cardinality(used) = polled[k]
    BY DEF SpentInv, Spent
  <2>2. QED
    BY <2>1, RequestsAssumption, FS_Subset
<1>4. QED
  BY <1>1, <1>2, <1>3, Inductive, PTL DEF Spec
=============================================================================
