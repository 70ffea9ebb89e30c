-------------------------- MODULE DomainHistory_proofs --------------------------
(***************************************************************************)
(* What DomainRegistration records, for every value of the constants: the  *)
(* change history, the statuses of the results and the links of the        *)
(* instances tell what was stored.                                         *)
(*                                                                         *)
(* The argument: the stored version is the last of the chain (LastStored), *)
(* and what a handler compared with is somewhere in the chain (OldStored), *)
(* so the row it files names a version that was stored, and the one it     *)
(* replaces unless another commit came between.                            *)
(***************************************************************************)
EXTENDS DomainRegistration_proofs, FiniteSetTheorems

\* The host of a handler that writes stays registered (the foreign key).
Hosted == \A h \in Handlers : pc[h] \in Writing => job[h].host \in registered

Bounded == Len(chain) + Cardinality(Active) <= MaxChain

LastStored ==
    /\ stored = NoVersion <=> chain = <<>>
    /\ chain # <<>> => stored = chain[Len(chain)]

InChain(v) == \E k \in 1..Len(chain) : chain[k] = v

OldStored == \A h \in Handlers : old[h] # NoVersion => InChain(old[h])

JobSent ==
    \A h \in Handlers : pc[h] # "idle" /\ job[h].mode \in {"auto", "manual"} =>
        job[h].result \in Results /\ job[h].version = Sent[job[h].result]

Records == HistoryComplete /\ HistoryOfStored /\ CompletedWasStored

HInv == TypeOK /\ Hosted /\ Bounded /\ LastStored /\ OldStored /\ JobSent /\ LinksFollow /\ Records

SentJob(j) == j.mode \in {"auto", "manual"} => j.result \in Results /\ j.version = Sent[j.result]
-----------------------------------------------------------------------------
(* The number of handlers at work.                                         *)
LEMMA ActiveFinite == IsFiniteSet(Active) /\ Cardinality(Active) \in Nat
<1>1. Active \in SUBSET Handlers
    BY DEF Active
<1>2. IsFiniteSet(Active)
    BY <1>1, BoundAssumption, FS_Subset
<1> QED BY <1>2, FS_CardinalityType

LEMMA ActiveGrows ==
    ASSUME NEW h \in Handlers, TypeOK, pc[h] = "idle",
           pc' = [pc EXCEPT ![h] = "begun"]
    PROVE  Cardinality(Active') = Cardinality(Active) + 1
<1>1. Active' = Active \union {h} /\ h \notin Active
    BY DEF Active, TypeOK
<1> QED BY <1>1, ActiveFinite, FS_AddElement

LEMMA ActiveShrinks ==
    ASSUME NEW h \in Handlers, TypeOK, pc[h] # "idle",
           pc' = [pc EXCEPT ![h] = "idle"]
    PROVE  Cardinality(Active') = Cardinality(Active) - 1
<1>1. Active' = Active \ {h} /\ h \in Active
    BY DEF Active, TypeOK
<1> QED BY <1>1, ActiveFinite, FS_RemoveElement

LEMMA ActiveSame ==
    ASSUME NEW h \in Handlers, TypeOK, pc[h] # "idle",
           NEW p, p # "idle", pc' = [pc EXCEPT ![h] = p]
    PROVE  Active' = Active
BY DEF Active, TypeOK

LEMMA InitHInv == Init => HInv
<1> SUFFICES ASSUME Init PROVE HInv
    OBVIOUS
<1>1. Active = {}
    BY DEF Init, Active
<1>2. Bounded
    BY <1>1, FS_EmptySet, BoundAssumption DEF Init, Bounded
<1>3. TypeOK
    BY DEF Init, TypeOK
<1> QED BY <1>2, <1>3
    DEF Init, HInv, Hosted, LastStored, OldStored, JobSent, LinksFollow, Records, HistoryComplete,
        HistoryOfStored, CompletedWasStored, Writing

(* A handler that takes up a job.  No result is completed by that.         *)
LEMMA BeginHInv ==
    ASSUME HInv, NEW h \in Handlers, NEW j \in Jobs, SentJob(j), Begin(h, j),
           status' \in [Results -> Statuses \union {"none"}], twice' \in SUBSET Results,
           \A r \in Results : status'[r] = "COMPLITED" => status[r] = "COMPLITED"
    PROVE  HInv'
<1> USE DEF HInv
<1>1. UNCHANGED <<registered, history, stored, located, instances, databases, apps, dsLinks,
                  appLinks, conns, lock, old, doomed, chain, holes, refused>>
    BY DEF Begin, domain
<1>2. TypeOK'
    BY <1>1 DEF Begin, TypeOK
<1>3. Bounded'
  <2>1. Cardinality(Active') = Cardinality(Active) + 1
      BY ActiveGrows DEF Begin
  <2>2. Len(chain) \in Nat
      BY DEF TypeOK
  <2> QED BY <1>1, <2>1, <2>2, ActiveFinite, BoundAssumption DEF Begin, Room, Bounded
<1>4. Hosted' /\ JobSent'
    BY <1>1 DEF Hosted, JobSent, SentJob, Begin, Writing, TypeOK
<1>5. LastStored' /\ OldStored'
    BY <1>1 DEF LastStored, OldStored, InChain
<1>6. LinksFollow' /\ Records'
    BY <1>1 DEF LinksFollow, UsedBy, AppsOn, ConnsOf, Records, HistoryComplete, HistoryOfStored,
       CompletedWasStored
<1> QED BY <1>2, <1>3, <1>4, <1>5, <1>6

(* A handler that ends without touching the tables, with a row it filed    *)
(* for a version from an unregistered host.                                *)
LEMMA EndHInv ==
    ASSUME HInv, NEW h \in Handlers, pc[h] # "idle",
           pc' = [pc EXCEPT ![h] = "idle"], job' = [job EXCEPT ![h] = NoJob],
           old' = [old EXCEPT ![h] = NoVersion], doomed' = [doomed EXCEPT ![h] = {}],
           lock' \in {NoOne, lock},
           UNCHANGED <<registered, domain, chain, holes, twice>>,
           status' \in [Results -> Statuses \union {"none"}],
           \A r \in Results : status'[r] = "COMPLITED" => status[r] = "COMPLITED",
           \/ UNCHANGED <<history, refused>>
           \/ /\ history' = Noted(h) /\ job[h] \in Jobs
              /\ refused' = refused \union {job[h].version}
    PROVE  HInv'
<1> USE DEF HInv
<1>1. UNCHANGED <<stored, located, instances, databases, apps, dsLinks, appLinks, conns>>
    BY DEF domain
<1>2. /\ history \subseteq history' /\ refused \subseteq refused'
      /\ \A row \in history' : \/ row \in history
                               \/ /\ row = <<old[h], job[h].version>>
                                  /\ job[h] \in Jobs /\ old[h] # NoVersion
                                  /\ job[h].version \in refused'
    BY DEF Noted
<1>3. TypeOK'
  <2>1. \A j \in Jobs : j.version \in Versions
      BY JobVersion
  <2>2. history' \in SUBSET (Versions \X Versions) /\ refused' \in SUBSET Versions
      BY <2>1, <1>2 DEF TypeOK
  <2>3. pc' \in [Handlers -> {"idle", "begun", "same", "changed", "upserted", "pruned"}]
        /\ job' \in [Handlers -> Jobs \union {NoJob}]
        /\ old' \in [Handlers -> Versions \union {NoVersion}]
        /\ doomed' \in [Handlers -> SUBSET Instances]
      BY DEF TypeOK
  <2> QED BY <1>1, <2>2, <2>3 DEF TypeOK
<1>4. Bounded'
  <2>1. Cardinality(Active') = Cardinality(Active) - 1
      BY ActiveShrinks
  <2>2. Len(chain) \in Nat
      BY DEF TypeOK
  <2> QED BY <2>1, <2>2, ActiveFinite, BoundAssumption DEF Bounded
<1>5. Hosted' /\ JobSent'
    BY DEF Hosted, JobSent, Writing, TypeOK
<1>6. LastStored' /\ OldStored'
    BY <1>1 DEF LastStored, OldStored, InChain, TypeOK
<1>7. LinksFollow' /\ HistoryComplete' /\ CompletedWasStored'
    BY <1>1, <1>2 DEF LinksFollow, UsedBy, AppsOn, ConnsOf, Records, HistoryComplete,
       CompletedWasStored
<1>8. HistoryOfStored'
  <2>1. ASSUME NEW row \in history'
        PROVE  \E k \in 1..Len(chain) :
                  /\ chain[k] = row[1]
                  /\ row[2] \in refused' \/ \E m \in k + 1..Len(chain) : chain[m] = row[2]
    <3>1. CASE row \in history
        BY <1>2, <3>1 DEF Records, HistoryOfStored
    <3>2. CASE row = <<old[h], job[h].version>> /\ old[h] # NoVersion
               /\ job[h].version \in refused'
        BY <3>2 DEF OldStored, InChain
    <3> QED BY <1>2, <2>1, <3>1, <3>2
  <2> QED BY <2>1 DEF HistoryOfStored
<1> QED BY <1>3, <1>4, <1>5, <1>6, <1>7, <1>8 DEF Records

(* A handler that goes on.  It compares with what is stored, and its upsert *)
(* finds its host registered.                                               *)
LEMMA GoesOnHInv ==
    ASSUME HInv, IInv, NEW h \in Handlers, Compare(h) \/ Upsert(h) \/ Prune(h)
    PROVE  HInv'
<1> USE DEF HInv
<1>1. UNCHANGED <<status, registered, history, stored, located, instances, databases, apps,
                  dsLinks, appLinks, conns, job, chain, holes, refused, twice>>
    BY DEF Compare, Upsert, Prune, domain
<1>2. PICK p \in {"same", "changed", "upserted", "pruned"} : pc' = [pc EXCEPT ![h] = p]
    BY DEF Compare, Upsert, Prune
<1>3. /\ old' \in {old, [old EXCEPT ![h] = stored]} /\ lock' \in Handlers \union {NoOne}
      /\ doomed' \in {doomed, [doomed EXCEPT ![h] = Removed(job[h].version)]}
    BY DEF Compare, Upsert, Prune, TypeOK
<1>4. pc[h] # "idle" /\ (p \in Writing => pc[h] \in Writing \/ job[h].host \in registered)
    BY <1>2 DEF Compare, Upsert, Prune, Writing, TypeOK
<1>5. TypeOK'
  <2>1. Removed(job[h].version) \subseteq Instances
      BY DEF Removed, TypeOK
  <2>2. /\ pc' \in [Handlers -> {"idle", "begun", "same", "changed", "upserted", "pruned"}]
        /\ old' \in [Handlers -> Versions \union {NoVersion}]
        /\ doomed' \in [Handlers -> SUBSET Instances]
      BY <1>2, <1>3, <2>1 DEF TypeOK
  <2> QED BY <1>1, <1>3, <2>2 DEF TypeOK
<1>6. Bounded'
    BY <1>1, <1>2, <1>4, ActiveSame DEF Bounded
<1>7. Hosted' /\ JobSent'
    BY <1>1, <1>2, <1>4 DEF Hosted, JobSent, TypeOK
<1>8. LastStored' /\ OldStored'
  <2>1. stored # NoVersion => InChain(stored)
      BY DEF LastStored, InChain, TypeOK
  <2> QED BY <1>1, <1>3, <2>1 DEF LastStored, OldStored, InChain, TypeOK
<1>9. LinksFollow' /\ Records'
    BY <1>1 DEF LinksFollow, UsedBy, AppsOn, ConnsOf, Records, HistoryComplete, HistoryOfStored,
       CompletedWasStored
<1> QED BY <1>5, <1>6, <1>7, <1>8, <1>9

(* The commit: the version is the last of the chain, the row of the one it *)
(* replaces is in the history, and the links are those it gives.           *)
LEMMA CommitHInv ==
    ASSUME HInv, IInv, IInv', NEW h \in Handlers, Commit(h)
    PROVE  HInv'
<1> USE DEF HInv
<1> DEFINE v == job[h].version
           n == Len(chain) + 1
<1>1. pc[h] = "pruned" /\ job[h] \in Jobs /\ v \in Versions /\ job[h].host \in registered
    BY JobVersion DEF Commit, IInv, Shape, Hosted, Writing
<1>2. /\ stored' = v /\ located' = {job[h].host} /\ history' = Noted(h)
      /\ databases' = databases \union Config[v].databases
      /\ apps' = apps \union Config[v].apps
      /\ chain' = Append(chain, v)
      /\ Outcome(h, "COMPLITED") /\ End(h)
      /\ UNCHANGED <<registered, refused, twice>>
    BY DEF Commit
<1>3. /\ chain \in Seq(Versions) /\ chain' \in Seq(Versions) /\ Len(chain') = n /\ n \in Nat \ {0}
      /\ chain'[n] = v /\ \A k \in 1..Len(chain) : chain'[k] = chain[k]
    BY <1>1, <1>2 DEF TypeOK
<1>4. ServersOf(v) \subseteq Instances /\ instances' = ServersOf(v)
    BY <1>1, <1>2, NoneAssumption, ServersAreInstances DEF IInv, InstancesFollow
<1>5. Bounded' /\ n \in 1..MaxChain
  <2>1. Cardinality(Active') = Cardinality(Active) - 1 /\ Cardinality(Active) \in Nat
      BY <1>1, <1>2, ActiveShrinks, ActiveFinite DEF End
  <2>2. Cardinality(Active') \in Nat
    <3>1. Active' = Active \ {h}
        BY <1>1, <1>2 DEF Active, End, TypeOK
    <3> QED BY <3>1, ActiveFinite, FS_RemoveElement, FS_CardinalityType
  <2> QED BY <1>3, <2>1, <2>2, BoundAssumption DEF Bounded
<1>6. /\ history \subseteq history'
      /\ \A row \in history' : row \in history \/ (row = <<old[h], v>> /\ old[h] # NoVersion)
    BY <1>2 DEF Noted
<1>7. holes \subseteq holes' /\ holes' \subseteq holes \union {n}
    BY DEF Commit
<1>8. ASSUME NEW r \in Results
      PROVE  status'[r] = status[r] \/ (status'[r] = "COMPLITED" /\ v = Sent[r])
  <2>1. CASE job[h].mode \in {"auto", "manual"}
    <3>1. status' = [status EXCEPT ![job[h].result] = "COMPLITED"] /\ v = Sent[job[h].result]
        BY <1>1, <1>2, <2>1 DEF Outcome, JobSent
    <3> QED BY <3>1 DEF TypeOK
  <2>2. CASE job[h].mode \notin {"auto", "manual"}
      BY <1>2, <2>2 DEF Outcome
  <2> QED BY <2>1, <2>2
<1>9. /\ dsLinks' \in [Instances -> SUBSET Sources] /\ appLinks' \in [Instances -> SUBSET Apps]
      /\ conns' \in [Instances -> SUBSET Conns]
      /\ \A i \in ServersOf(v) :
            /\ UsedBy(v, i) # {} => dsLinks'[i] = UsedBy(v, i) \intersect databases'
            /\ AppsOn(v, i) # {} => appLinks'[i] = AppsOn(v, i)
            /\ ConnsOf(v, i) \subseteq conns'[i]
  <2>1. /\ Config[v].apps \subseteq Apps /\ Config[v].databases \subseteq Sources
        /\ \A i \in Instances : Config[v].uses[i] \subseteq Sources /\ ConnsOf(v, i) \subseteq Conns
      BY <1>1, ConfigAssumption DEF Configs, ConnsOf
  <2>2. \A i \in Instances : AppsOn(v, i) \subseteq Apps
      BY <2>1 DEF AppsOn
  <2>3. \A i \in Instances : UsedBy(v, i) \subseteq Sources
      BY <2>1 DEF UsedBy
  <2>4. \A i \in Instances : /\ DsLinksOf(v, i) \subseteq Sources
                             /\ AppLinksOf(v, i) \subseteq Apps
      BY <2>2, <2>3 DEF DsLinksOf, AppLinksOf, TypeOK
  <2>5. /\ dsLinks' = [i \in Instances |->
                          IF i \in ServersOf(v) THEN DsLinksOf(v, i)
                          ELSE Cascades(i, instances', dsLinks[i])]
        /\ appLinks' = [i \in Instances |->
                           IF i \in ServersOf(v) THEN AppLinksOf(v, i)
                           ELSE Cascades(i, instances', appLinks[i])]
        /\ conns' = [i \in Instances |->
                        IF i \in ServersOf(v) THEN conns[i] \union ConnsOf(v, i)
                        ELSE Cascades(i, instances', conns[i])]
      BY DEF Commit
  <2>6. /\ dsLinks' \in [Instances -> SUBSET Sources]
        /\ appLinks' \in [Instances -> SUBSET Apps]
        /\ conns' \in [Instances -> SUBSET Conns]
      BY <2>1, <2>4, <2>5 DEF Cascades, TypeOK
  <2>7. ASSUME NEW i \in ServersOf(v)
        PROVE  /\ UsedBy(v, i) # {} => dsLinks'[i] = UsedBy(v, i) \intersect databases'
               /\ AppsOn(v, i) # {} => appLinks'[i] = AppsOn(v, i)
               /\ ConnsOf(v, i) \subseteq conns'[i]
    <3>1. /\ dsLinks'[i] = DsLinksOf(v, i) /\ appLinks'[i] = AppLinksOf(v, i)
          /\ conns'[i] = conns[i] \union ConnsOf(v, i)
        BY <1>4, <2>5
    <3> QED BY <1>2, <3>1 DEF DsLinksOf, AppLinksOf
  <2> QED BY <2>6, <2>7
<1>10. TypeOK'
  <2>1. status' \in [Results -> Statuses \union {"none"}]
      BY <1>2 DEF Outcome, TypeOK, Statuses
  <2>2. history' \in SUBSET (Versions \X Versions)
      BY <1>1, <1>6 DEF TypeOK
  <2>3. holes' \in SUBSET (1..MaxChain)
      BY <1>5, <1>7 DEF TypeOK
  <2>4. databases' \subseteq Sources /\ apps' \subseteq Apps
      BY <1>1, <1>2, ConfigAssumption DEF Configs, TypeOK
  <2>5. /\ pc' \in [Handlers -> {"idle", "begun", "same", "changed", "upserted", "pruned"}]
        /\ job' \in [Handlers -> Jobs \union {NoJob}]
        /\ old' \in [Handlers -> Versions \union {NoVersion}]
        /\ doomed' \in [Handlers -> SUBSET Instances]
        /\ lock' \in Handlers \union {NoOne}
      BY <1>2 DEF End, TypeOK
  <2>6. /\ registered' \in SUBSET Hosts /\ located' \in SUBSET registered'
        /\ stored' \in Versions /\ located' # {} /\ stored' # NoVersion
        /\ refused' \in SUBSET Versions /\ twice' \in SUBSET Results
      BY <1>1, <1>2, NoneAssumption DEF TypeOK
  <2> QED BY <1>3, <1>4, <1>9, <2>1, <2>2, <2>3, <2>4, <2>5, <2>6 DEF TypeOK
<1>11. Hosted' /\ JobSent'
    BY <1>2 DEF Hosted, JobSent, End, Writing, TypeOK
<1>12. LastStored'
    BY <1>1, <1>2, <1>3, NoneAssumption DEF LastStored
<1>13. OldStored'
  <2>1. \A g \in Handlers : old'[g] = NoVersion \/ old'[g] = old[g]
      BY <1>2 DEF End, TypeOK
  <2> QED BY <1>3, <2>1 DEF OldStored, InChain
<1>14. LinksFollow'
  <2> DEFINE F(w) == \A i \in instances' :
                        /\ UsedBy(w, i) # {} => dsLinks'[i] = UsedBy(w, i) \intersect databases'
                        /\ AppsOn(w, i) # {} => appLinks'[i] = AppsOn(w, i)
                        /\ ConnsOf(w, i) \subseteq conns'[i]
  <2>1. F(v)
      BY <1>4, <1>9
  <2>2. F(stored')
      BY <1>2, <2>1
  <2> QED BY <2>2 DEF LinksFollow, UsedBy, AppsOn, ConnsOf
<1>15. HistoryComplete'
  <2>1. ASSUME NEW k \in 2..n, k = n
        PROVE  k \in holes' \/ chain'[k] = chain'[k - 1] \/ <<chain'[k - 1], chain'[k]>> \in history'
    <3>1. chain # <<>> /\ k - 1 = Len(chain) /\ chain'[k - 1] = stored /\ chain'[k] = v
        BY <1>3, <2>1 DEF LastStored
    <3>2. stored # NoVersion
        BY <3>1 DEF LastStored
    <3>3. CASE old[h] = stored /\ (job[h].mode = "text" => stored = v)
        BY <1>2, <3>1, <3>2, <3>3 DEF Noted
    <3>4. CASE ~(old[h] = stored /\ (job[h].mode = "text" => stored = v))
        BY <2>1, <3>2, <3>4 DEF Commit
    <3> QED BY <3>3, <3>4
  <2>2. ASSUME NEW k \in 2..n, k # n
        PROVE  k \in holes' \/ chain'[k] = chain'[k - 1] \/ <<chain'[k - 1], chain'[k]>> \in history'
    <3>1. k \in 2..Len(chain) /\ chain'[k] = chain[k] /\ chain'[k - 1] = chain[k - 1]
        BY <1>3, <2>2
    <3> QED BY <1>6, <1>7, <3>1 DEF Records, HistoryComplete
  <2> QED BY <1>3, <2>1, <2>2 DEF HistoryComplete
<1>16. HistoryOfStored'
  <2>1. ASSUME NEW row \in history'
        PROVE  \E k \in 1..n :
                  /\ chain'[k] = row[1]
                  /\ row[2] \in refused' \/ \E m \in k + 1..n : chain'[m] = row[2]
    <3>1. CASE row \in history
      <4>1. PICK k \in 1..Len(chain) :
               /\ chain[k] = row[1]
               /\ row[2] \in refused \/ \E m \in k + 1..Len(chain) : chain[m] = row[2]
          BY <3>1 DEF Records, HistoryOfStored
      <4>2. k \in 1..n /\ chain'[k] = row[1]
          BY <1>3, <4>1
      <4>3. CASE row[2] \in refused
          BY <1>2, <4>2, <4>3
      <4>4. CASE \E m \in k + 1..Len(chain) : chain[m] = row[2]
        <5>1. PICK m \in k + 1..Len(chain) : chain[m] = row[2]
            BY <4>4
        <5>2. m \in k + 1..n /\ m \in 1..Len(chain)
            BY <1>3, <4>1, <5>1
        <5> QED BY <1>3, <4>2, <5>1, <5>2
      <4> QED BY <4>1, <4>3, <4>4
    <3>2. CASE row = <<old[h], v>> /\ old[h] # NoVersion
      <4>1. PICK k \in 1..Len(chain) : chain[k] = old[h]
          BY <3>2 DEF OldStored, InChain
      <4>2. k \in 1..n /\ n \in k + 1..n /\ chain'[k] = row[1] /\ chain'[n] = row[2]
          BY <1>3, <3>2, <4>1
      <4> QED BY <4>2
    <3> QED BY <1>6, <2>1, <3>1, <3>2
  <2> QED BY <1>3, <2>1 DEF HistoryOfStored
<1>17. CompletedWasStored'
  <2>1. ASSUME NEW r \in Results, status'[r] = "COMPLITED"
        PROVE  \E k \in 1..n : chain'[k] = Sent[r]
    <3>1. CASE status'[r] = status[r]
      <4>1. PICK k \in 1..Len(chain) : chain[k] = Sent[r]
          BY <2>1, <3>1 DEF Records, CompletedWasStored
      <4> QED BY <1>3, <4>1
    <3>2. CASE v = Sent[r]
        BY <1>3, <3>2
    <3> QED BY <1>8, <3>1, <3>2
  <2> QED BY <1>3, <2>1 DEF CompletedWasStored
<1> QED BY <1>5, <1>10, <1>11, <1>12, <1>13, <1>14, <1>15, <1>16, <1>17 DEF Records

(* Connectors and hosts change next to the registrations.                  *)
LEMMA OutsideHInv ==
    ASSUME HInv,
           \/ \E i \in Instances, c \in Conns : WebMain(i, c)
           \/ \E x \in Hosts : RegisterHost(x) \/ RemoveHost(x)
           \/ UNCHANGED vars
    PROVE  HInv'
<1> USE DEF HInv
<1>1. UNCHANGED <<status, history, stored, located, instances, databases, apps, dsLinks, appLinks,
                  lock, pc, job, old, doomed, chain, holes, refused, twice>>
    BY DEF WebMain, RegisterHost, RemoveHost, vars, domain, handler
<1>2. /\ conns' \in [Instances -> SUBSET Conns]
      /\ \A i \in Instances : conns[i] \subseteq conns'[i]
  <2>1. ASSUME NEW i \in Instances, NEW c \in Conns, WebMain(i, c)
        PROVE  conns' = [conns EXCEPT ![i] = @ \union {c}]
      BY <2>1 DEF WebMain
  <2>2. CASE conns' = conns
      BY <2>2 DEF TypeOK
  <2>3. CASE \E i \in Instances, c \in Conns : conns' = [conns EXCEPT ![i] = @ \union {c}]
      BY <2>3 DEF TypeOK
  <2> QED BY <2>1, <2>2, <2>3 DEF RegisterHost, RemoveHost, vars, domain
<1>3. /\ registered' \in SUBSET Hosts /\ located \subseteq registered'
      /\ Hosted'
  <2>1. CASE registered \subseteq registered'
      BY <1>1, <2>1 DEF Hosted, WebMain, RegisterHost, RemoveHost, vars, TypeOK
  <2>2. CASE \E x \in Hosts : RemoveHost(x)
      BY <1>1, <2>2 DEF RemoveHost, Unused, Hosted, Active, Writing, TypeOK
  <2> QED BY <2>1, <2>2 DEF WebMain, RegisterHost, vars
<1>4. TypeOK'
    BY <1>1, <1>2, <1>3 DEF TypeOK
<1>5. Bounded' /\ LastStored' /\ OldStored' /\ JobSent'
    BY <1>1 DEF Bounded, Active, LastStored, OldStored, InChain, JobSent
<1>6. Records'
    BY <1>1 DEF Records, HistoryComplete, HistoryOfStored, CompletedWasStored
<1>7. LinksFollow'
    BY <1>1, <1>2 DEF LinksFollow, UsedBy, AppsOn, ConnsOf, TypeOK
<1> QED BY <1>3, <1>4, <1>5, <1>6, <1>7

LEMMA NextHInv == HInv /\ IInv /\ [Next]_vars => HInv'
<1> SUFFICES ASSUME HInv, IInv, [Next]_vars PROVE HInv'
    OBVIOUS
<1>1. IInv'
    BY NextIInv
<1> USE DEF HInv
<1>2. ASSUME NEW h \in Handlers, ReRegister(h) PROVE HInv'
  <2>1. PICK x \in located : Begin(h, [mode |-> "text", version |-> stored, host |-> x])
      BY <1>2 DEF ReRegister
  <2> DEFINE j == [mode |-> "text", version |-> stored, host |-> x]
  <2>2. j \in Jobs /\ SentJob(j)
      BY <1>2, <2>1 DEF ReRegister, Jobs, IInv, Followed, SentJob
  <2>3. status' = status /\ twice' = twice
      BY <1>2 DEF ReRegister
  <2> HIDE DEF j
  <2> QED BY <2>1, <2>2, <2>3, BeginHInv DEF TypeOK, j
<1>3. ASSUME NEW h \in Handlers, NEW r \in Results, NEW m \in {"auto", "manual", "api"},
             Begin(h, [mode |-> m, result |-> r, version |-> Sent[r], host |-> From[r]]),
             status' \in {status, [status EXCEPT ![r] = "CREATE"]},
             twice' \in {twice, twice \union {r}}
      PROVE  HInv'
  <2> DEFINE j == [mode |-> m, result |-> r, version |-> Sent[r], host |-> From[r]]
  <2>1. j \in Jobs /\ SentJob(j)
      BY ResultJob DEF SentJob
  <2>2. /\ status' \in [Results -> Statuses \union {"none"}] /\ twice' \in SUBSET Results
        /\ \A q \in Results : status'[q] = "COMPLITED" => status[q] = "COMPLITED"
      BY <1>3 DEF TypeOK, Statuses
  <2> HIDE DEF j
  <2> QED BY <1>3, <2>1, <2>2, BeginHInv DEF j
<1>4. ASSUME NEW h \in Handlers, NEW r \in Results, UpdateConfig(h, r) \/ PostConfig(h, r)
      PROVE  HInv'
    BY <1>3, <1>4 DEF UpdateConfig, PostConfig
<1>5. ASSUME NEW h \in Handlers, NEW r \in Results, Receive(h, r) PROVE HInv'
  <2>1. CASE /\ status' = [status EXCEPT ![r] = "CREATE"]
             /\ Begin(h, [mode |-> "auto", result |-> r, version |-> Sent[r], host |-> From[r]])
      BY <1>3, <1>5, <2>1 DEF Receive
  <2>2. CASE /\ \E s \in {"FAILED", "NOCHANGE"} : status' = [status EXCEPT ![r] = s]
             /\ UNCHANGED <<registered, history, domain, handler, chain, holes, refused>>
    <3>1. /\ status' \in [Results -> Statuses \union {"none"}] /\ twice' = twice
          /\ \A q \in Results : status'[q] = "COMPLITED" => status[q] = "COMPLITED"
        BY <1>5, <2>2 DEF Receive, TypeOK, Statuses
    <3>2. TypeOK'
        BY <2>2, <3>1 DEF domain, handler, TypeOK
    <3>3. Hosted' /\ Bounded' /\ LastStored' /\ OldStored' /\ JobSent'
        BY <2>2 DEF domain, handler, Hosted, Bounded, Active, LastStored, OldStored, InChain, JobSent
    <3>4. LinksFollow' /\ Records'
        BY <2>2, <3>1 DEF domain, LinksFollow, UsedBy, AppsOn, ConnsOf, Records, HistoryComplete,
           HistoryOfStored, CompletedWasStored
    <3> QED BY <3>2, <3>3, <3>4
  <2> QED BY <1>5, <2>1, <2>2 DEF Receive
<1>6. ASSUME NEW h \in Handlers,
             NoAutorun(h) \/ NotChanged(h) \/ Refuse(h) \/ Fail(h) \/ Abort(h)
      PROVE  HInv'
  <2>1. /\ pc[h] # "idle"
        /\ pc' = [pc EXCEPT ![h] = "idle"] /\ job' = [job EXCEPT ![h] = NoJob]
        /\ old' = [old EXCEPT ![h] = NoVersion] /\ doomed' = [doomed EXCEPT ![h] = {}]
        /\ lock' \in {NoOne, lock}
        /\ UNCHANGED <<registered, domain, chain, holes, twice>>
      BY <1>6 DEF NoAutorun, NotChanged, Refuse, Fail, Abort, End, LockAfterFailure
  <2>2. \E s \in {"ERROR", "NOCHANGE"} : UNCHANGED status \/ Outcome(h, s)
      BY <1>6 DEF NoAutorun, NotChanged, Refuse, RefusedStatus, Fail, Abort
  <2>3. /\ status' \in [Results -> Statuses \union {"none"}]
        /\ \A q \in Results : status'[q] = "COMPLITED" => status[q] = "COMPLITED"
      BY <2>2 DEF Outcome, TypeOK, Statuses
  <2>4. job[h] \in Jobs
      BY <2>1 DEF IInv, Shape
  <2>5. \/ UNCHANGED <<history, refused>>
        \/ /\ history' = Noted(h) /\ job[h] \in Jobs
           /\ refused' = refused \union {job[h].version}
      BY <1>6, <2>4 DEF NoAutorun, NotChanged, Refuse, Fail, KeptOnFailure, Abort
  <2> QED BY <2>1, <2>3, <2>5, EndHInv
<1>7. ASSUME NEW h \in Handlers, Compare(h) \/ Upsert(h) \/ Prune(h) PROVE HInv'
    BY <1>7, GoesOnHInv
<1>8. ASSUME NEW h \in Handlers, Commit(h) PROVE HInv'
    BY <1>1, <1>8, CommitHInv
<1>9. ASSUME NEW x \in Hosts, RegisterHost(x) \/ RemoveHost(x) PROVE HInv'
    BY <1>9, OutsideHInv
<1>10. ASSUME NEW i \in Instances, NEW c \in Conns, WebMain(i, c) PROVE HInv'
    BY <1>10, OutsideHInv
<1>11. CASE UNCHANGED vars
    BY <1>11, OutsideHInv
<1> QED
    BY <1>2, <1>4, <1>5, <1>6, <1>7, <1>8, <1>9, <1>10, <1>11 DEF Next, Run

THEOREM RecordsInductive == Spec => []HInv
<1> QED BY InitHInv, NextHInv, Inductive, PTL DEF Spec
-----------------------------------------------------------------------------
(* TypeOK: every variable keeps its type, and the host the domain names is *)
(* registered.                                                             *)
THEOREM TypeCorrect == Spec => []TypeOK
<1>1. HInv => TypeOK
    BY DEF HInv
<1> QED BY <1>1, RecordsInductive, PTL

(* The instances are linked to what the stored configuration gives them    *)
(* (jeus_dml.py:153 and after), with any number of handlers.               *)
THEOREM LinksSafe == Spec => []LinksFollow
<1>1. HInv => LinksFollow
    BY DEF HInv
<1> QED BY <1>1, RecordsInductive, PTL

(* Every gap of the change history has one of the two named reasons.       *)
THEOREM CompleteSafe == Spec => []HistoryComplete
<1>1. HInv => HistoryComplete
    BY DEF HInv, Records
<1> QED BY <1>1, RecordsInductive, PTL

(* The change history tells of nothing that was not stored.                *)
THEOREM HistorySafe == Spec => []HistoryOfStored
<1>1. HInv => HistoryOfStored
    BY DEF HInv, Records
<1> QED BY <1>1, RecordsInductive, PTL

(* A result that reads COMPLITED was stored, whoever ran it and however    *)
(* often.                                                                  *)
THEOREM CompletedSafe == Spec => []CompletedWasStored
<1>1. HInv => CompletedWasStored
    BY DEF HInv, Records
<1> QED BY <1>1, RecordsInductive, PTL
-----------------------------------------------------------------------------
(* The refinement of SerialRegistration.  At its commit a handler writes   *)
(* what a registration alone would have written: the row lock keeps the    *)
(* tables as its DELETE saw them.                                          *)

Past == {chain[k] : k \in 1..Len(chain)}

\* A link leads to a datasource that exists.
LinksExist == \A i \in Instances : dsLinks[i] \subseteq databases

\* What is found unchanged equals what it was compared with.
SameStored == \A h \in Handlers : pc[h] = "same" => job[h].version = old[h]

SInv == LinksExist /\ SameStored

SerialStep == [Serial!SerialNext]_(Serial!serialVars)

\* The tables of the serial registration, and what a stutter leaves alone.
LEMMA SerialTables ==
    ASSUME UNCHANGED <<domain, chain>>
    PROVE  UNCHANGED Serial!tables
BY DEF domain, Serial!tables

LEMMA SerialStutter ==
    ASSUME UNCHANGED <<status, registered, history, domain, chain>>
    PROVE  SerialStep
BY SerialTables DEF SerialStep, Serial!serialVars

LEMMA InPast ==
    ASSUME HInv
    PROVE  /\ \A v : v \in Past <=> InChain(v)
           /\ \A h \in Handlers : old[h] # NoVersion => old[h] \in Past
BY DEF Past, InChain, HInv, OldStored

\* A row that a handler files names a version that was stored.
LEMMA FilesNoted ==
    ASSUME HInv, NEW h \in Handlers, history' = Noted(h)
    PROVE  Serial!Files(job[h].version)
BY InPast DEF Noted, Serial!Files, Past

\* The status a handler writes is the one of the result it was sent with.
LEMMA OutcomeSettles ==
    ASSUME HInv, NEW h \in Handlers, pc[h] # "idle", NEW s, Outcome(h, s)
    PROVE  \/ UNCHANGED status
           \/ \E r \in Results : Sent[r] = job[h].version /\ Serial!Settles(r, s)
BY DEF Outcome, HInv, JobSent, Serial!Settles

\* The commit is a registration of its own.
LEMMA CommitSerial ==
    ASSUME HInv, IInv, IInv', SInv, NEW h \in Handlers, Commit(h)
    PROVE  SInv' /\ SerialStep
<1>job. job[h].version \in Versions /\ job[h].host \in Hosts
    BY JobVersion DEF Commit, IInv, Shape
<1>0. PICK v \in Versions, x \in Hosts : v = job[h].version /\ x = job[h].host
    BY <1>job
<1>1. pc[h] = "pruned" /\ x \in registered
    BY <1>0 DEF Commit, HInv, Hosted, Writing
<1>2. /\ stored' = v /\ located' = {x} /\ history' = Noted(h)
      /\ databases' = databases \union Config[v].databases
      /\ apps' = apps \union Config[v].apps
      /\ chain' = Append(chain, v)
      /\ Outcome(h, "COMPLITED") /\ UNCHANGED registered
    BY <1>0 DEF Commit
<1>3. instances' = ServersOf(v) /\ ServersOf(v) \subseteq Instances
    BY <1>1, <1>2, NoneAssumption, ServersAreInstances DEF IInv, InstancesFollow
<1>4. Past' = Past \union {v}
  <2>1. chain \in Seq(Versions)
      BY DEF HInv, TypeOK
  <2>2. Len(chain') = Len(chain) + 1 /\ Len(chain) \in Nat /\ chain'[Len(chain) + 1] = v
        /\ \A k \in 1..Len(chain) : chain'[k] = chain[k]
      BY <1>1, <1>2, <2>1
  <2>3. 1..Len(chain') = 1..Len(chain) \union {Len(chain) + 1}
      BY <2>2
  <2> QED BY <2>2, <2>3 DEF Past
<1>5. doomed[h] = instances \ ServersOf(v)
    BY <1>0 DEF IInv, Fresh, Commit, Removed
<1>6. \A i \in Instances : i \notin ServersOf(v) => i \notin (instances \ doomed[h]) \union ServersOf(v)
    BY <1>5
<1>7. dsLinks' = [i \in Instances |->
                     databases' \intersect Serial!After(v, i, Serial!UsedBy(v, i), dsLinks[i])]
  <2>1. dsLinks' = [i \in Instances |->
                       IF i \in ServersOf(v) THEN DsLinksOf(v, i)
                       ELSE Cascades(i, (instances \ doomed[h]) \union ServersOf(v), dsLinks[i])]
      BY <1>0 DEF Commit
  <2>2. ASSUME NEW i \in Instances
        PROVE  (IF i \in ServersOf(v) THEN DsLinksOf(v, i)
                ELSE Cascades(i, (instances \ doomed[h]) \union ServersOf(v), dsLinks[i]))
               = databases' \intersect Serial!After(v, i, Serial!UsedBy(v, i), dsLinks[i])
    <3>1. dsLinks[i] \subseteq databases
        BY DEF SInv, LinksExist
    <3>2. Serial!UsedBy(v, i) = UsedBy(v, i) /\ Serial!ServersOf(v) = ServersOf(v)
        BY DEF Serial!UsedBy, UsedBy, Serial!ServersOf, ServersOf
    <3> QED BY <1>2, <1>6, <3>1, <3>2 DEF Serial!After, DsLinksOf, Cascades
  <2> QED BY <2>1, <2>2
<1>8. appLinks' = [i \in Instances |-> Serial!After(v, i, Serial!AppsOn(v, i), appLinks[i])]
  <2>1. appLinks' = [i \in Instances |->
                        IF i \in ServersOf(v) THEN AppLinksOf(v, i)
                        ELSE Cascades(i, (instances \ doomed[h]) \union ServersOf(v), appLinks[i])]
      BY <1>0 DEF Commit
  <2>2. \A i \in Instances : Serial!AppsOn(v, i) = AppsOn(v, i)
      BY DEF Serial!AppsOn, AppsOn
  <2>3. Serial!ServersOf(v) = ServersOf(v)
      BY DEF Serial!ServersOf, ServersOf
  <2> QED BY <1>6, <2>1, <2>2, <2>3 DEF Serial!After, AppLinksOf, Cascades
<1>9. conns' = [i \in Instances |->
                   Serial!After(v, i, conns[i] \union Serial!ConnsOf(v, i), conns[i])]
  <2>1. conns' = [i \in Instances |->
                     IF i \in ServersOf(v) THEN conns[i] \union ConnsOf(v, i)
                     ELSE Cascades(i, (instances \ doomed[h]) \union ServersOf(v), conns[i])]
      BY <1>0 DEF Commit
  <2>2. \A i \in Instances : Serial!ConnsOf(v, i) = ConnsOf(v, i)
      BY DEF Serial!ConnsOf, ConnsOf
  <2>3. Serial!ServersOf(v) = ServersOf(v)
      BY DEF Serial!ServersOf, ServersOf
  <2> QED BY <1>6, <2>1, <2>2, <2>3 DEF Serial!After, Cascades
<1>10. Serial!Rewrite(v, x)
    BY <1>2, <1>3, <1>4, <1>7, <1>8, <1>9 DEF Serial!Rewrite, Past, Serial!ServersOf, ServersOf
<1>11. Serial!Files(v)
    BY <1>0, <1>2, FilesNoted
<1>12. UNCHANGED status \/ \E r \in Results : Sent[r] = v /\ Serial!Settles(r, "COMPLITED")
    BY <1>0, <1>1, <1>2, OutcomeSettles
<1>13. SerialStep
  <2>1. Serial!Register(v, x)
      BY <1>1, <1>2, <1>10, <1>11, <1>12 DEF Serial!Register
  <2> QED BY <2>1 DEF Serial!SerialNext, SerialStep
<1>14. LinksExist'
    BY <1>7 DEF LinksExist
<1>15. SameStored'
    BY DEF Commit, End, SInv, SameStored, HInv, TypeOK
<1> QED BY <1>13, <1>14, <1>15 DEF SInv

\* A handler that goes on changes nothing anybody sees.
LEMMA GoesOnSerial ==
    ASSUME HInv, SInv, NEW h \in Handlers, Compare(h) \/ Upsert(h) \/ Prune(h)
    PROVE  SInv' /\ SerialStep
<1>1. UNCHANGED <<status, registered, history, domain, chain, job>>
    BY DEF Compare, Upsert, Prune
<1>2. LinksExist'
    BY <1>1 DEF SInv, LinksExist, domain
<1>3. SameStored'
    BY <1>1 DEF SInv, SameStored, HInv, TypeOK, Compare, Upsert, Prune
<1> QED BY <1>1, <1>2, <1>3, SerialStutter DEF SInv

\* A handler that ends without a commit settles its result, and a refused
\* configuration leaves its row in the history.
LEMMA EndsSerial ==
    ASSUME HInv, IInv, SInv, NEW h \in Handlers,
           NoAutorun(h) \/ NotChanged(h) \/ Refuse(h) \/ Fail(h) \/ Abort(h)
    PROVE  SInv' /\ SerialStep
<1>1. UNCHANGED <<registered, domain, chain>> /\ pc[h] # "idle"
    BY DEF NoAutorun, NotChanged, Refuse, Fail, Abort
<1>2. UNCHANGED Serial!tables
    BY <1>1, SerialTables
<1>3. SInv'
  <2>1. pc' = [pc EXCEPT ![h] = "idle"] /\ job' = [job EXCEPT ![h] = NoJob]
        /\ old' = [old EXCEPT ![h] = NoVersion]
      BY DEF NoAutorun, NotChanged, Refuse, Fail, Abort, End
  <2> QED BY <1>1, <2>1 DEF SInv, LinksExist, SameStored, domain, HInv, TypeOK
<1>4. ASSUME UNCHANGED history, Outcome(h, "ERROR") PROVE SerialStep
  <2>1. CASE UNCHANGED status
      BY <1>1, <1>4, <2>1, SerialStutter
  <2>2. CASE \E r \in Results : Serial!Settles(r, "ERROR")
      BY <1>1, <1>2, <1>4, <2>2 DEF Serial!Ends, Serial!SerialNext, SerialStep
  <2> QED BY <1>1, <1>4, <2>1, <2>2, OutcomeSettles
<1>5. ASSUME UNCHANGED history, UNCHANGED status PROVE SerialStep
    BY <1>1, <1>5, SerialStutter
<1>6. CASE NoAutorun(h) \/ Fail(h) \/ Abort(h)
  <2>1. UNCHANGED history
      BY <1>6 DEF NoAutorun, Fail, KeptOnFailure, Abort
  <2>2. UNCHANGED status \/ Outcome(h, "ERROR")
      BY <1>6 DEF NoAutorun, Fail, Abort
  <2> QED BY <1>3, <1>4, <1>5, <2>1, <2>2
<1>7. CASE NotChanged(h)
  <2>1. job[h].version \in Past
    <3>1. job[h].version = old[h] /\ job[h].version \in Versions
        BY <1>7, JobVersion DEF NotChanged, SInv, SameStored, IInv, Shape
    <3> QED BY <3>1, InPast, NoneAssumption
  <2>2. CASE UNCHANGED status
    <3>1. UNCHANGED history
        BY <1>7 DEF NotChanged
    <3> QED BY <1>3, <1>5, <2>2, <3>1
  <2>3. CASE \E r \in Results : Sent[r] = job[h].version /\ Serial!Settles(r, "NOCHANGE")
    <3>1. PICK r \in Results : Sent[r] = job[h].version /\ Serial!Settles(r, "NOCHANGE")
        BY <2>3
    <3>2. Serial!Ends(r)
        BY <1>1, <1>2, <1>7, <2>1, <3>1 DEF NotChanged, Serial!Ends, Past
    <3> QED BY <1>3, <3>2 DEF Serial!SerialNext, SerialStep
  <2> QED BY <1>1, <1>7, <2>2, <2>3, OutcomeSettles DEF NotChanged
<1>8. CASE Refuse(h)
  <2> DEFINE v == job[h].version
             x == job[h].host
  <2>1. v \in Versions /\ x \in Hosts /\ x \notin registered
      BY <1>1, <1>8, JobVersion DEF Refuse, IInv, Shape
  <2>2. Serial!Files(v)
      BY <1>8, FilesNoted DEF Refuse
  <2>3. UNCHANGED status \/ \E r \in Results : Sent[r] = v /\ Serial!Settles(r, "ERROR")
      BY <1>1, <1>8, OutcomeSettles DEF Refuse, RefusedStatus
  <2>4. Serial!Refuse(v, x)
      BY <1>1, <1>2, <2>1, <2>2, <2>3 DEF Serial!Refuse
  <2> HIDE DEF v, x
  <2> QED BY <1>3, <2>1, <2>4 DEF Serial!SerialNext, SerialStep
<1> QED BY <1>3, <1>6, <1>7, <1>8

\* A handler that takes up a job.
LEMMA BeginSerial ==
    ASSUME HInv, SInv, NEW h \in Handlers, NEW j, Begin(h, j)
    PROVE  SInv' /\ UNCHANGED <<registered, history, domain, chain>>
BY DEF Begin, SInv, LinksExist, SameStored, domain, HInv, TypeOK

\* Hosts and connectors change next to the registrations.
LEMMA OutsideSerial ==
    ASSUME HInv, SInv,
           \/ \E i \in Instances, c \in Conns : WebMain(i, c)
           \/ \E x \in Hosts : RegisterHost(x) \/ RemoveHost(x)
    PROVE  SInv' /\ SerialStep
<1>1. SInv'
    BY DEF SInv, LinksExist, SameStored, WebMain, RegisterHost, RemoveHost, domain, handler
<1>2. ASSUME NEW i \in Instances, NEW c \in Conns, WebMain(i, c) PROVE SerialStep
  <2>1. Serial!Connect(i, c)
      BY <1>2 DEF WebMain, Serial!Connect
  <2> QED BY <2>1 DEF Serial!SerialNext, SerialStep
<1>3. ASSUME NEW x \in Hosts, RegisterHost(x) \/ RemoveHost(x) PROVE SerialStep
  <2>1. UNCHANGED <<status, history, domain, chain>>
      BY <1>3 DEF RegisterHost, RemoveHost
  <2>2. registered' \in SUBSET Hosts /\ located \subseteq registered'
      BY <1>3 DEF RegisterHost, RemoveHost, Unused, HInv, TypeOK
  <2>3. Serial!HostsChange
      BY <2>1, <2>2, SerialTables DEF Serial!HostsChange
  <2> QED BY <2>3 DEF Serial!SerialNext, SerialStep
<1> QED BY <1>1, <1>2, <1>3

LEMMA NextSerial == HInv /\ IInv /\ SInv /\ [Next]_vars => SInv' /\ SerialStep
<1> SUFFICES ASSUME HInv, IInv, SInv, [Next]_vars PROVE SInv' /\ SerialStep
    OBVIOUS
<1>1. IInv'
    BY NextIInv
<1>2. ASSUME NEW h \in Handlers,
             ReRegister(h) \/ \E r \in Results : UpdateConfig(h, r) \/ PostConfig(h, r)
      PROVE  SInv' /\ SerialStep
    BY <1>2, BeginSerial, SerialStutter DEF ReRegister, UpdateConfig, PostConfig
<1>3. ASSUME NEW h \in Handlers, NEW r \in Results, Receive(h, r) PROVE SInv' /\ SerialStep
  <2>1. SInv' /\ UNCHANGED <<registered, history, domain, chain>>
    <3>1. CASE UNCHANGED <<registered, history, domain, handler, chain, holes, refused>>
        BY <3>1 DEF SInv, LinksExist, SameStored, domain, handler
    <3> QED BY <1>3, <3>1, BeginSerial DEF Receive
  <2>2. \E s \in {"CREATE", "FAILED", "NOCHANGE"} : Serial!Settles(r, s)
      BY <1>3 DEF Receive, Serial!Settles
  <2>3. Serial!Arrive(r)
      BY <1>3, <2>1, <2>2, SerialTables DEF Receive, Serial!Arrive
  <2> QED BY <2>1, <2>3 DEF Serial!SerialNext, SerialStep
<1>4. ASSUME NEW h \in Handlers, Run(h) \/ Fail(h) \/ Abort(h) PROVE SInv' /\ SerialStep
    BY <1>1, <1>4, GoesOnSerial, EndsSerial, CommitSerial DEF Run
<1>5. ASSUME \/ \E i \in Instances, c \in Conns : WebMain(i, c)
             \/ \E x \in Hosts : RegisterHost(x) \/ RemoveHost(x)
      PROVE  SInv' /\ SerialStep
    BY <1>5, OutsideSerial
<1>6. CASE UNCHANGED vars
  <2>1. UNCHANGED <<status, registered, history, domain, chain, pc, job, old>>
      BY <1>6 DEF vars, handler
  <2> QED BY <2>1, SerialStutter DEF SInv, LinksExist, SameStored, domain
<1> QED BY <1>2, <1>3, <1>4, <1>5, <1>6 DEF Next

(* Registrations of one domain that overlap, wait, fail or die have the    *)
(* effect of registrations that run one after the other in the order of    *)
(* their commits, for any number of handlers, hosts and versions.          *)
THEOREM SerialSafe == Spec => ImplementsSerial
<1>1. Init => Serial!SerialInit /\ SInv
  <2> SUFFICES ASSUME Init PROVE Serial!SerialInit /\ SInv
      OBVIOUS
  <2>1. Past = {}
      BY DEF Init, Past
  <2> QED BY <2>1 DEF Init, Serial!SerialInit, Past, SInv, LinksExist, SameStored
<1>2. Spec => []SInv
    BY <1>1, NextSerial, Inductive, RecordsInductive, PTL DEF Spec
<1>3. HInv /\ IInv /\ SInv /\ [Next]_vars => [Serial!SerialNext]_(Serial!serialVars)
    BY NextSerial DEF SerialStep
<1> QED
    BY <1>1, <1>2, <1>3, Inductive, RecordsInductive, PTL
    DEF Spec, ImplementsSerial, Serial!SerialSpec
=============================================================================
