----------------------- MODULE DomainRegistration_proofs -----------------------
(***************************************************************************)
(* Proofs about DomainRegistration.  The argument is the row lock: a       *)
(* handler between its upsert of mw_was and its commit holds the lock, so  *)
(* no other handler commits in between, and the instances its DELETE found *)
(* are still exactly the ones the new configuration does not name.         *)
(***************************************************************************)
EXTENDS DomainRegistration, TLAPS

Writing == {"upserted", "pruned"}

\* The types the argument needs.
Shape ==
    /\ pc \in [Handlers -> {"idle", "begun", "same", "changed", "upserted", "pruned"}]
    /\ job \in [Handlers -> Jobs \union {NoJob}]
    /\ \A h \in Handlers : pc[h] # "idle" => job[h] \in Jobs
    /\ doomed \in [Handlers -> SUBSET Instances]
    /\ instances \in SUBSET Instances

\* Only the holder of the row writes.
Exclusive == \A h \in Handlers : pc[h] \in Writing => lock = h

\* What the holder found is still all there is to delete.
Fresh == \A h \in Handlers : pc[h] = "pruned" => doomed[h] = Removed(job[h].version)

\* A row to follow, or none, and the host it names.
Followed == stored \in Versions \union {NoVersion} /\ located \in SUBSET Hosts

IInv == Shape /\ Exclusive /\ Fresh /\ Followed /\ InstancesFollow /\ NoOrphans

-----------------------------------------------------------------------------
(* The servers of a configuration are instances.                           *)
LEMMA ServersAreInstances ==
    ASSUME NEW v \in Versions PROVE ServersOf(v) \subseteq Instances
BY ConfigAssumption DEF ServersOf, Configs

(* A job carries a version and a host.                                     *)
LEMMA JobVersion ==
    ASSUME NEW j \in Jobs PROVE j.version \in Versions /\ j.host \in Hosts
BY DEF Jobs

LEMMA InitIInv == Init => IInv
BY DEF Init, IInv, Shape, Exclusive, Fresh, Followed, InstancesFollow, NoOrphans, Writing

(* A handler that takes up a job touches nothing.                          *)
LEMMA BeginIInv ==
    ASSUME IInv, NEW h \in Handlers, NEW j \in Jobs, Begin(h, j)
    PROVE  IInv'
<1>1. UNCHANGED <<stored, located, instances, dsLinks, appLinks, conns, lock, doomed>>
    BY DEF Begin, domain
<1>2. Shape'
    BY <1>1 DEF IInv, Shape, Begin
<1>3. Exclusive' /\ Fresh'
    BY <1>1 DEF IInv, Shape, Exclusive, Fresh, Begin, Writing, Removed, ServersOf
<1>4. Followed' /\ InstancesFollow' /\ NoOrphans'
    BY <1>1 DEF IInv, Followed, InstancesFollow, NoOrphans, ServersOf
<1> QED BY <1>2, <1>3, <1>4 DEF IInv

(* A handler that ends without touching the tables gives up only its own   *)
(* lock.                                                                   *)
LEMMA EndIInv ==
    ASSUME IInv, NEW h \in Handlers, End(h), UNCHANGED domain
    PROVE  IInv'
<1>1. UNCHANGED <<stored, located, instances, dsLinks, appLinks, conns>>
    BY DEF domain
<1>2. Shape'
    BY <1>1 DEF IInv, Shape, End
<1>3. Exclusive' /\ Fresh'
    BY <1>1 DEF IInv, Shape, Exclusive, Fresh, End, Writing, Removed, ServersOf
<1>4. Followed' /\ InstancesFollow' /\ NoOrphans'
    BY <1>1 DEF IInv, Followed, InstancesFollow, NoOrphans, ServersOf
<1> QED BY <1>2, <1>3, <1>4 DEF IInv

(* A failure releases the lock of the handler that held it.                *)
LEMMA FailIInv ==
    ASSUME IInv, NEW h \in Handlers, Fail(h)
    PROVE  IInv'
<1>1. UNCHANGED <<stored, located, instances, dsLinks, appLinks, conns>>
    BY DEF Fail, domain
<1>2. Shape'
    BY <1>1 DEF IInv, Shape, Fail
<1>3. Exclusive' /\ Fresh'
    BY <1>1 DEF IInv, Shape, Exclusive, Fresh, Fail, LockAfterFailure, Writing, Removed, ServersOf
<1>4. Followed' /\ InstancesFollow' /\ NoOrphans'
    BY <1>1 DEF IInv, Followed, InstancesFollow, NoOrphans, ServersOf
<1> QED BY <1>2, <1>3, <1>4 DEF IInv

(* The comparison locks the row for a re-registration, and only when       *)
(* nobody holds it.                                                        *)
LEMMA CompareIInv ==
    ASSUME IInv, NEW h \in Handlers, Compare(h)
    PROVE  IInv'
<1>1. UNCHANGED <<stored, located, instances, dsLinks, appLinks, conns, job, doomed>>
    BY DEF Compare, domain
<1>2. Shape'
    BY <1>1 DEF IInv, Shape, Compare
<1>3. Exclusive' /\ Fresh'
    BY <1>1, NoneAssumption
    DEF IInv, Shape, Exclusive, Fresh, Compare, LockFree, Writing, Removed, ServersOf
<1>4. Followed' /\ InstancesFollow' /\ NoOrphans'
    BY <1>1 DEF IInv, Followed, InstancesFollow, NoOrphans, ServersOf
<1> QED BY <1>2, <1>3, <1>4 DEF IInv

(* The upsert of mw_was waits for the row, so no other handler is writing. *)
LEMMA UpsertIInv ==
    ASSUME IInv, NEW h \in Handlers, Upsert(h)
    PROVE  IInv'
<1>1. UNCHANGED <<stored, located, instances, dsLinks, appLinks, conns, job, doomed>>
    BY DEF Upsert, domain
<1>2. Shape'
    BY <1>1 DEF IInv, Shape, Upsert
<1>3. Exclusive' /\ Fresh'
    BY <1>1, NoneAssumption
    DEF IInv, Shape, Exclusive, Fresh, Upsert, RowFree, LockFree, Writing, Removed, ServersOf
<1>4. Followed' /\ InstancesFollow' /\ NoOrphans'
    BY <1>1 DEF IInv, Followed, InstancesFollow, NoOrphans, ServersOf
<1> QED BY <1>2, <1>3, <1>4 DEF IInv

(* The DELETE finds the instances of the moment.                           *)
LEMMA PruneIInv ==
    ASSUME IInv, NEW h \in Handlers, Prune(h)
    PROVE  IInv'
<1>1. UNCHANGED <<stored, located, instances, dsLinks, appLinks, conns, job, lock>>
    BY DEF Prune, domain
<1>2. Shape'
    BY <1>1 DEF IInv, Shape, Prune, Removed
<1>3. Exclusive' /\ Fresh'
    BY <1>1 DEF IInv, Shape, Exclusive, Fresh, Prune, Writing, Removed, ServersOf
<1>4. Followed' /\ InstancesFollow' /\ NoOrphans'
    BY <1>1 DEF IInv, Followed, InstancesFollow, NoOrphans, ServersOf
<1> QED BY <1>2, <1>3, <1>4 DEF IInv

(* The commit of the holder: the instances become the servers it names,    *)
(* and whatever hung on the others is gone.                                *)
LEMMA CommitIInv ==
    ASSUME IInv, NEW h \in Handlers, Commit(h)
    PROVE  IInv'
<1> DEFINE v == job[h].version
<1>1. v \in Versions /\ ServersOf(v) \subseteq Instances
    BY ServersAreInstances, JobVersion DEF IInv, Shape, Commit
<1>2. doomed[h] = instances \ ServersOf(v)
    BY DEF IInv, Fresh, Commit, Removed
<1>3. stored' = v /\ instances' = ServersOf(v) /\ located' \in SUBSET Hosts
    BY <1>1, <1>2, JobVersion DEF IInv, Shape, Commit
<1>4. \A g \in Handlers \ {h} : pc[g] \notin Writing
    BY DEF IInv, Exclusive, Commit, Writing
<1>5. /\ pc' = [pc EXCEPT ![h] = "idle"]
      /\ job' = [job EXCEPT ![h] = NoJob]
      /\ doomed' = [doomed EXCEPT ![h] = {}]
    BY DEF Commit, End
<1>6. Shape'
    BY <1>1, <1>3, <1>5 DEF IInv, Shape
<1>7. Exclusive' /\ Fresh'
    BY <1>4, <1>5 DEF IInv, Shape, Exclusive, Fresh, Writing
<1>8. Followed' /\ InstancesFollow'
    BY <1>1, <1>3 DEF Followed, InstancesFollow, ServersOf
<1>9. NoOrphans'
  <2> SUFFICES ASSUME NEW i \in Instances, i \notin instances'
               PROVE  dsLinks'[i] = {} /\ appLinks'[i] = {} /\ conns'[i] = {}
      BY DEF NoOrphans
  <2>1. i \notin ServersOf(v) /\ i \notin (instances \ doomed[h]) \union ServersOf(v)
      BY <1>2, <1>3
  <2> QED BY <2>1 DEF Commit, Cascades
<1> QED BY <1>6, <1>7, <1>8, <1>9 DEF IInv

(* A connector of WEBMain.xml hangs on an instance that is there.          *)
LEMMA WebMainIInv ==
    ASSUME IInv, NEW i \in Instances, NEW c \in Conns, WebMain(i, c)
    PROVE  IInv'
<1>1. UNCHANGED <<stored, located, instances, dsLinks, appLinks, lock, pc, job, doomed>>
    BY DEF WebMain, handler
<1>2. Shape'
    BY <1>1 DEF IInv, Shape
<1>3. Exclusive' /\ Fresh'
    BY <1>1 DEF IInv, Exclusive, Fresh, Removed, ServersOf
<1>4. Followed' /\ InstancesFollow'
    BY <1>1 DEF IInv, Followed, InstancesFollow, ServersOf
<1>5. NoOrphans'
    BY <1>1 DEF IInv, NoOrphans, WebMain
<1> QED BY <1>2, <1>3, <1>4, <1>5 DEF IInv

(* What leaves the tables and the handlers alone keeps the invariant.      *)
LEMMA StutterIInv ==
    ASSUME IInv, UNCHANGED domain, UNCHANGED handler
    PROVE  IInv'
<1>1. UNCHANGED <<stored, located, instances, dsLinks, appLinks, conns, lock, pc, job, doomed>>
    BY DEF domain, handler
<1> QED BY <1>1 DEF IInv, Shape, Exclusive, Fresh, Followed, InstancesFollow, NoOrphans,
                    Removed, ServersOf
-----------------------------------------------------------------------------
(* The jobs that handlers take up are jobs.                                *)
LEMMA ResultJob ==
    ASSUME NEW r \in Results, NEW m \in {"auto", "manual", "api"}
    PROVE  [mode |-> m, result |-> r, version |-> Sent[r], host |-> From[r]] \in Jobs
BY ResultAssumption DEF Jobs

LEMMA NextIInv == IInv /\ [Next]_vars => IInv'
<1> SUFFICES ASSUME IInv, [Next]_vars PROVE IInv'
    OBVIOUS
<1>1. ASSUME NEW h \in Handlers, ReRegister(h) PROVE IInv'
  <2>1. PICK x \in located : Begin(h, [mode |-> "text", version |-> stored, host |-> x])
      BY <1>1 DEF ReRegister
  <2>2. [mode |-> "text", version |-> stored, host |-> x] \in Jobs
      BY <1>1, <2>1 DEF ReRegister, Jobs, IInv, Followed
  <2> QED BY <2>1, <2>2, BeginIInv
<1>2. ASSUME NEW h \in Handlers, Run(h) PROVE IInv'
  <2>1. CASE NoAutorun(h)
      BY <2>1, EndIInv DEF NoAutorun
  <2>2. CASE Compare(h)
      BY <2>2, CompareIInv
  <2>3. CASE NotChanged(h)
      BY <2>3, EndIInv DEF NotChanged
  <2>4. CASE Refuse(h)
      BY <2>4, EndIInv DEF Refuse
  <2>5. CASE Upsert(h)
      BY <2>5, UpsertIInv
  <2>6. CASE Prune(h)
      BY <2>6, PruneIInv
  <2>7. CASE Commit(h)
      BY <2>7, CommitIInv
  <2> QED BY <1>2, <2>1, <2>2, <2>3, <2>4, <2>5, <2>6, <2>7 DEF Run
<1>3. ASSUME NEW h \in Handlers, Fail(h) PROVE IInv'
    BY <1>3, FailIInv
<1>4. ASSUME NEW h \in Handlers, Abort(h) PROVE IInv'
    BY <1>4, EndIInv DEF Abort
<1>5. ASSUME NEW h \in Handlers, NEW r \in Results, Receive(h, r) PROVE IInv'
  <2>1. CASE Begin(h, [mode |-> "auto", result |-> r, version |-> Sent[r], host |-> From[r]])
      BY <2>1, BeginIInv, ResultJob
  <2>2. CASE UNCHANGED domain /\ UNCHANGED handler
      BY <2>2, StutterIInv
  <2> QED BY <1>5, <2>1, <2>2 DEF Receive
<1>6. ASSUME NEW h \in Handlers, NEW r \in Results, UpdateConfig(h, r) PROVE IInv'
    BY <1>6, BeginIInv, ResultJob DEF UpdateConfig
<1>7. ASSUME NEW h \in Handlers, NEW r \in Results, PostConfig(h, r) PROVE IInv'
    BY <1>7, BeginIInv, ResultJob DEF PostConfig
<1>8. ASSUME NEW x \in Hosts, RegisterHost(x) \/ RemoveHost(x) PROVE IInv'
    BY <1>8, StutterIInv DEF RegisterHost, RemoveHost
<1>9. ASSUME NEW i \in Instances, NEW c \in Conns, WebMain(i, c) PROVE IInv'
    BY <1>9, WebMainIInv
<1>10. CASE UNCHANGED vars
    BY <1>10, StutterIInv DEF vars
<1> QED
    BY <1>1, <1>2, <1>3, <1>4, <1>5, <1>6, <1>7, <1>8, <1>9, <1>10 DEF Next

(* In every reachable state the holder of the mw_was row alone writes, and *)
(* what it found is what is there.                                         *)
THEOREM Inductive == Spec => []IInv
<1> QED BY InitIInv, NextIInv, PTL DEF Spec

(* Whatever registrations run next to each other, the instances in the     *)
(* database are the servers of the configuration stored last               *)
(* (upsertJeusDomain, jeus_dml.py:133-151).                                *)
THEOREM InstancesSafe == Spec => []InstancesFollow
<1>1. IInv => InstancesFollow
    BY DEF IInv
<1> QED BY <1>1, Inductive, PTL

(* No link and no connector is left on an instance that is gone.           *)
THEOREM OrphansSafe == Spec => []NoOrphans
<1>1. IInv => NoOrphans
    BY DEF IInv
<1> QED BY <1>1, Inductive, PTL
-----------------------------------------------------------------------------
(* The second argument: a result that only one handler works on is open.   *)

Works(h, r) == pc[h] # "idle" /\ job[h].mode \in {"auto", "manual"} /\ job[h].result = r

Open == {"CREATE", "ERROR"}

Owned ==
    \A h \in Handlers, r \in Results \ twice :
        Works(h, r) => status[r] \in Open /\ \A g \in Handlers \ {h} : ~Works(g, r)

OInv == Shape /\ Owned /\ status \in [Results -> Statuses \union {"none"}]

\* What a step may do to the result r.
SettledStep(r) ==
    status[r] \in {"COMPLITED", "NOCHANGE", "FAILED"} => status'[r] = status[r]

(* The result of a job that has one.                                       *)
LEMMA WorksResult ==
    ASSUME Shape, NEW h \in Handlers, pc[h] # "idle", job[h].mode \in {"auto", "manual"}
    PROVE  job[h].result \in Results /\ Works(h, job[h].result)
<1>1. job[h] \in Jobs
    BY DEF Shape
<1>2. job[h].result \in Results
    BY <1>1 DEF Jobs
<1> QED BY <1>2 DEF Works

(* A handler that ends with a status for its result changes an open one.   *)
LEMMA EndOwned ==
    ASSUME OInv, NEW h \in Handlers, pc[h] # "idle",
           NEW s \in Statuses, Outcome(h, s) \/ UNCHANGED status,
           pc' = [pc EXCEPT ![h] = "idle"], job' = [job EXCEPT ![h] = NoJob],
           UNCHANGED twice
    PROVE  /\ Owned' /\ status' \in [Results -> Statuses \union {"none"}]
           /\ \A r \in Results \ twice : SettledStep(r)
<1>1. status' \in [Results -> Statuses \union {"none"}]
    BY DEF OInv, Outcome
<1>2. ASSUME NEW r \in Results PROVE status'[r] = status[r] \/ Works(h, r)
    BY WorksResult DEF OInv, Outcome, Works
<1>3. ASSUME NEW g \in Handlers, NEW r \in Results, Works(g, r)'
      PROVE  g # h /\ Works(g, r)
    BY <1>3 DEF OInv, Shape, Works
<1>4. Owned'
    BY <1>2, <1>3 DEF OInv, Owned
<1>5. ASSUME NEW r \in Results \ twice PROVE SettledStep(r)
    BY <1>2 DEF OInv, Owned, SettledStep, Open
<1> QED BY <1>1, <1>4, <1>5

(* A handler that goes on leaves every result alone.                       *)
LEMMA GoesOnOwned ==
    ASSUME OInv, NEW h \in Handlers, pc[h] # "idle", NEW p, pc' = [pc EXCEPT ![h] = p],
           UNCHANGED <<job, status, twice>>
    PROVE  /\ Owned' /\ status' \in [Results -> Statuses \union {"none"}]
           /\ \A r \in Results \ twice : SettledStep(r)
<1>1. ASSUME NEW g \in Handlers, NEW r \in Results, Works(g, r)' PROVE Works(g, r)
    BY <1>1 DEF OInv, Shape, Works
<1> QED BY <1>1 DEF OInv, Owned, SettledStep

(* Taking up a job of a result: nobody works on it, or it is marked.       *)
LEMMA BeginOwned ==
    ASSUME OInv, NEW h \in Handlers, NEW j \in Jobs, Begin(h, j),
           twice \subseteq twice',
           status' \in [Results -> Statuses \union {"none"}],
           \A r \in Results \ twice : status'[r] = status[r] \/ status[r] = "none",
           j.mode \in {"auto", "manual"} =>
              \/ j.result \in twice'
              \/ status'[j.result] \in Open /\ \A g \in Handlers : ~Works(g, j.result)
    PROVE  Owned' /\ \A r \in Results \ twice : SettledStep(r)
<1>1. pc[h] = "idle" /\ pc' = [pc EXCEPT ![h] = "begun"] /\ job' = [job EXCEPT ![h] = j]
    BY DEF Begin
<1>2. ASSUME NEW g \in Handlers \ {h}, NEW r \in Results
      PROVE  Works(g, r)' <=> Works(g, r)
    BY <1>1 DEF OInv, Shape, Works
<1>3. ASSUME NEW r \in Results, Works(h, r)'
      PROVE  j.mode \in {"auto", "manual"} /\ j.result = r
    BY <1>1, <1>3 DEF OInv, Shape, Works
<1>4. ASSUME NEW g \in Handlers, NEW r \in Results \ twice', Works(g, r)'
      PROVE  status'[r] \in Open /\ \A f \in Handlers \ {g} : ~Works(f, r)'
  <2>1. CASE g = h
      BY <1>2, <1>3, <1>4, <2>1
  <2>2. CASE g # h
    <3>1. Works(g, r) /\ r \notin twice
        BY <1>2, <1>4, <2>2
    <3>2. status[r] \in Open /\ \A f \in Handlers \ {g} : ~Works(f, r)
        BY <3>1 DEF OInv, Owned
    <3>3. status'[r] = status[r]
        BY <3>1, <3>2 DEF Open
    <3>4. ~Works(h, r)'
        BY <1>3, <1>4, <3>1
    <3> QED BY <1>2, <3>2, <3>3, <3>4
  <2> QED BY <2>1, <2>2
<1>5. ASSUME NEW r \in Results \ twice PROVE SettledStep(r)
    BY DEF SettledStep
<1> QED BY <1>4, <1>5 DEF Owned

LEMMA InitOInv == Init => OInv
BY DEF Init, OInv, Shape, Owned, Works, Statuses

(* Settling a result at its arrival: nobody works on it.                   *)
LEMMA ArriveOwned ==
    ASSUME OInv, NEW r \in Results, status[r] = "none",
           NEW s \in Statuses, status' = [status EXCEPT ![r] = s],
           UNCHANGED <<pc, job, twice>>
    PROVE  /\ Owned' /\ status' \in [Results -> Statuses \union {"none"}]
           /\ \A x \in Results \ twice : SettledStep(x)
<1>1. \A g \in Handlers, x \in Results : Works(g, x)' <=> Works(g, x)
    BY DEF Works
<1>2. ASSUME NEW g \in Handlers, Works(g, r) PROVE r \in twice
    BY <1>2 DEF OInv, Owned, Open
<1> QED BY <1>1, <1>2 DEF OInv, Owned, SettledStep

LEMMA NextOwned ==
    ASSUME OInv, [Next]_vars, IInv
    PROVE  /\ Owned' /\ status' \in [Results -> Statuses \union {"none"}]
           /\ \A r \in Results \ twice : SettledStep(r)
<1> DEFINE G == /\ Owned' /\ status' \in [Results -> Statuses \union {"none"}]
                /\ \A r \in Results \ twice : SettledStep(r)
<1>1. ASSUME NEW h \in Handlers, ReRegister(h) PROVE G
  <2>1. PICK x \in located : Begin(h, [mode |-> "text", version |-> stored, host |-> x])
      BY <1>1 DEF ReRegister
  <2>2. [mode |-> "text", version |-> stored, host |-> x] \in Jobs
      BY <1>1, <2>1 DEF ReRegister, Jobs, IInv, Followed
  <2> QED BY <1>1, <2>1, <2>2, BeginOwned DEF ReRegister, OInv
<1>2. ASSUME NEW h \in Handlers, NEW r \in Results, PostConfig(h, r) PROVE G
    BY <1>2, BeginOwned, ResultJob DEF PostConfig, OInv
<1>3. ASSUME NEW h \in Handlers, NEW r \in Results, UpdateConfig(h, r) PROVE G
  <2> DEFINE j == [mode |-> "manual", result |-> r, version |-> Sent[r], host |-> From[r]]
  <2>1. j \in Jobs /\ Begin(h, j) /\ twice \subseteq twice' /\ status' = status
      BY <1>3, ResultJob DEF UpdateConfig
  <2>2. r \in twice' \/ (status'[r] \in Open /\ \A g \in Handlers : ~Works(g, r))
      BY <1>3 DEF UpdateConfig, Rerunnable, WorkedOn, Active, Works, Open
  <2> QED BY <2>1, <2>2, BeginOwned DEF OInv
<1>4. ASSUME NEW h \in Handlers, NEW r \in Results, Receive(h, r) PROVE G
  <2>1. CASE /\ status' = [status EXCEPT ![r] = "CREATE"]
             /\ Begin(h, [mode |-> "auto", result |-> r, version |-> Sent[r], host |-> From[r]])
    <3>1. status[r] = "none" /\ twice' = twice
        BY <1>4 DEF Receive
    <3>2. ASSUME NEW g \in Handlers, Works(g, r) PROVE r \in twice'
        BY <3>1, <3>2 DEF OInv, Owned, Open
    <3>3. status' \in [Results -> Statuses \union {"none"}] /\ status'[r] \in Open
        BY <2>1 DEF OInv, Statuses, Open
    <3>4. \A x \in Results \ twice : status'[x] = status[x] \/ status[x] = "none"
        BY <2>1, <3>1 DEF OInv
    <3> QED BY <2>1, <3>1, <3>2, <3>3, <3>4, ResultJob, BeginOwned
  <2>2. CASE /\ \E s \in {"FAILED", "NOCHANGE"} : status' = [status EXCEPT ![r] = s]
             /\ UNCHANGED handler
    <3>1. PICK s \in {"FAILED", "NOCHANGE"} : status' = [status EXCEPT ![r] = s]
        BY <2>2
    <3>2. status[r] = "none" /\ UNCHANGED <<pc, job, twice>> /\ s \in Statuses
        BY <1>4, <2>2 DEF Receive, handler, Statuses
    <3> QED BY <3>1, <3>2, ArriveOwned
  <2> QED BY <1>4, <2>1, <2>2 DEF Receive
<1>5. ASSUME NEW h \in Handlers, Compare(h) \/ Upsert(h) \/ Prune(h) PROVE G
  <2>1. PICK p : pc' = [pc EXCEPT ![h] = p]
      BY <1>5 DEF Compare, Upsert, Prune
  <2>2. pc[h] # "idle" /\ UNCHANGED <<job, status, twice>>
      BY <1>5 DEF Compare, Upsert, Prune
  <2> QED BY <2>1, <2>2, GoesOnOwned
<1>6. ASSUME NEW h \in Handlers,
             NoAutorun(h) \/ NotChanged(h) \/ Refuse(h) \/ Commit(h) \/ Fail(h) \/ Abort(h)
      PROVE  G
  <2>1. pc[h] # "idle" /\ UNCHANGED twice
      BY <1>6 DEF NoAutorun, NotChanged, Refuse, Commit, Fail, Abort
  <2>2. pc' = [pc EXCEPT ![h] = "idle"] /\ job' = [job EXCEPT ![h] = NoJob]
      BY <1>6 DEF NoAutorun, NotChanged, Refuse, Commit, Fail, Abort, End
  <2>3. \E s \in Statuses : Outcome(h, s) \/ UNCHANGED status
      BY <1>6 DEF NoAutorun, NotChanged, Refuse, RefusedStatus, Commit, Fail, Abort, Statuses
  <2> QED BY <2>1, <2>2, <2>3, EndOwned
<1>7. CASE UNCHANGED <<pc, job, status, twice>>
    BY <1>7 DEF OInv, Owned, Works, SettledStep
<1>8. ASSUME NEW x \in Hosts, RegisterHost(x) \/ RemoveHost(x) PROVE G
    BY <1>7, <1>8 DEF RegisterHost, RemoveHost, handler
<1>9. ASSUME NEW i \in Instances, NEW c \in Conns, WebMain(i, c) PROVE G
    BY <1>7, <1>9 DEF WebMain, handler
<1>10. CASE UNCHANGED vars
    BY <1>7, <1>10 DEF vars, handler
<1> QED
    BY <1>1, <1>2, <1>3, <1>4, <1>5, <1>6, <1>8, <1>9, <1>10 DEF Next, Run

(* A result that is settled stays as it is, unless two handlers were let   *)
(* in at once (views/agent.py:287 checks the status before, not under a    *)
(* lock).                                                                  *)
THEOREM SettledSafe == Spec => SettledStays
<1>1. OInv /\ IInv /\ [Next]_vars => OInv'
    BY NextOwned, NextIInv DEF OInv, IInv
<1>2. OInv /\ IInv /\ [Next]_vars
        => [\A r \in Results \ twice :
              status[r] \in {"COMPLITED", "NOCHANGE", "FAILED"} => status'[r] = status[r]]_vars
    BY NextOwned DEF SettledStep
<1>3. Spec => []OInv
    BY <1>1, InitOInv, Inductive, PTL DEF Spec
<1> QED BY <1>2, <1>3, Inductive, PTL DEF Spec, SettledStays
=============================================================================
