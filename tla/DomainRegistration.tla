-------------------------- MODULE DomainRegistration --------------------------
(***************************************************************************)
(* How the database follows the configuration of a JEUS domain: agents     *)
(* report domain.xml / JEUSMain.xml as results, the server compares them   *)
(* with the stored configuration, files the old one in the change history  *)
(* and rewrites the instances, datasources, applications and connectors.   *)
(* Results can be run again by hand, a configuration can be posted to the  *)
(* REST API, and the stored text can be registered once more.              *)
(*                                                                         *)
(* The module is about one domain (one row of mw_was).  A request is one   *)
(* READ COMMITTED transaction; the comparison reads without a lock, and    *)
(* the upsert of mw_was is the lock under which the other tables are       *)
(* rewritten.  A JEUSMain.xml is taken to come from the node it names.     *)
(***************************************************************************)
EXTENDS DomainConfig, Naturals, Sequences, FiniteSets

CONSTANTS
    Results,      \* results that carry a configuration of this domain
    Sent,         \* Sent[r]: the version of the configuration in r
    From,         \* From[r]: the host r was reported by
    Hosts,
    Handlers,     \* request and job threads
    MaxChain,     \* bound: registrations
    NoVersion, NoOne

ASSUME ResultAssumption == Sent \in [Results -> Versions] /\ From \in [Results -> Hosts]
ASSUME BoundAssumption  == MaxChain \in Nat /\ IsFiniteSet(Handlers)
ASSUME NoneAssumption   == NoVersion \notin Versions /\ NoOne \notin Handlers

VARIABLES
    status,       \* result_status of the results, "none" before they arrive
    registered,   \* hosts in mw_server
    stored,       \* version in mw_was, NoVersion when there is no row
    located,      \* hosts that the mw_was row names, a set of at most one
    history,      \* mw_was_change_history: <<old version, new version>>
    instances, databases, apps,              \* rows of the domain's tables
    dsLinks, appLinks, conns,                \* rows that hang on an instance
    lock,         \* the transaction that holds the mw_was row
    pc, job,      \* of each handler: where it is and what it registers
    old,          \* the version it compared with
    doomed,       \* the instances its DELETE found
    chain,        \* history variable: the versions in the order they were stored
    holes,        \* positions of chain whose writer compared with something older
    refused,      \* versions that came from an unregistered host
    twice         \* results two handlers have worked on at once

domain == <<stored, located, instances, databases, apps, dsLinks, appLinks, conns>>
handler == <<lock, pc, job, old, doomed>>
vars == <<status, registered, history, domain, handler, chain, holes, refused, twice>>

Statuses == {"CREATE", "COMPLITED", "NOCHANGE", "ERROR", "FAILED"}
Jobs == [mode : {"auto", "manual", "api"}, result : Results, version : Versions, host : Hosts]
        \union [mode : {"text"}, version : Versions, host : Hosts]
NoJob == <<>>

TypeOK ==
    /\ status \in [Results -> Statuses \union {"none"}]
    /\ registered \in SUBSET Hosts
    /\ stored \in Versions \union {NoVersion}
    /\ located \in SUBSET registered /\ (stored = NoVersion <=> located = {})
    /\ history \in SUBSET (Versions \X Versions)
    /\ instances \in SUBSET Instances /\ databases \in SUBSET Sources /\ apps \in SUBSET Apps
    /\ dsLinks \in [Instances -> SUBSET Sources]
    /\ appLinks \in [Instances -> SUBSET Apps]
    /\ conns \in [Instances -> SUBSET Conns]
    /\ lock \in Handlers \union {NoOne}
    /\ pc \in [Handlers -> {"idle", "begun", "same", "changed", "upserted", "pruned"}]
    /\ job \in [Handlers -> Jobs \union {NoJob}]
    /\ old \in [Handlers -> Versions \union {NoVersion}]
    /\ doomed \in [Handlers -> SUBSET Instances]
    /\ chain \in Seq(Versions)
    /\ holes \in SUBSET (1..MaxChain) /\ refused \in SUBSET Versions /\ twice \in SUBSET Results

Init ==
    /\ status = [r \in Results |-> "none"]
    /\ registered = Hosts
    /\ stored = NoVersion /\ located = {} /\ history = {}
    /\ instances = {} /\ databases = {} /\ apps = {}
    /\ dsLinks = [i \in Instances |-> {}]
    /\ appLinks = [i \in Instances |-> {}]
    /\ conns = [i \in Instances |-> {}]
    /\ lock = NoOne
    /\ pc = [h \in Handlers |-> "idle"] /\ job = [h \in Handlers |-> NoJob]
    /\ old = [h \in Handlers |-> NoVersion] /\ doomed = [h \in Handlers |-> {}]
    /\ chain = <<>> /\ holes = {} /\ refused = {} /\ twice = {}

-----------------------------------------------------------------------------
Active == {h \in Handlers : pc[h] # "idle"}
Room == Len(chain) + Cardinality(Active) < MaxChain
LockFree(h) == lock \in {NoOne, h}
WorkedOn(r) == \E h \in Active : job[h].mode \in {"auto", "manual"} /\ job[h].result = r

Begin(h, j) ==
    /\ pc[h] = "idle" /\ Room
    /\ pc' = [pc EXCEPT ![h] = "begun"]
    /\ job' = [job EXCEPT ![h] = j]
    /\ UNCHANGED <<registered, history, domain, lock, old, doomed, chain, holes, refused>>

End(h) ==
    /\ pc' = [pc EXCEPT ![h] = "idle"]
    /\ job' = [job EXCEPT ![h] = NoJob]
    /\ old' = [old EXCEPT ![h] = NoVersion]
    /\ doomed' = [doomed EXCEPT ![h] = {}]
    /\ lock' = IF lock = h THEN NoOne ELSE lock

\* The status of the result, where the job has one.
Outcome(h, s) ==
    status' = IF job[h].mode \in {"auto", "manual"}
              THEN [status EXCEPT ![job[h].result] = s] ELSE status

-----------------------------------------------------------------------------
(* The four ways a configuration arrives.                                  *)

\* POST /result: the row is committed first.  A failed run of the agent and
\* the text "NO CHANGE" settle the result at once.
Receive(h, r) ==
    /\ status[r] = "none"
    /\ \/ /\ status' = [status EXCEPT ![r] = "CREATE"]
          /\ Begin(h, [mode |-> "auto", result |-> r, version |-> Sent[r], host |-> From[r]])
       \/ /\ pc[h] = "idle"
          /\ \E s \in {"FAILED", "NOCHANGE"} : status' = [status EXCEPT ![r] = s]
          /\ UNCHANGED <<registered, history, domain, handler, chain, holes, refused>>
    /\ UNCHANGED twice

RerunsAnything(r) == status[r] # "none"                       \* mutant: no check
Rerunnable(r) == status[r] \in {"CREATE", "ERROR"}

\* The action "Update Config" on a selected result.
UpdateConfig(h, r) ==
    /\ Rerunnable(r)
    /\ Begin(h, [mode |-> "manual", result |-> r, version |-> Sent[r], host |-> From[r]])
    /\ twice' = IF WorkedOn(r) THEN twice \union {r} ELSE twice
    /\ UNCHANGED status

\* POST /config/jeusdomain with the same content.
PostConfig(h, r) ==
    /\ Begin(h, [mode |-> "api", result |-> r, version |-> Sent[r], host |-> From[r]])
    /\ UNCHANGED <<status, twice>>

\* "Text based re-registration": the stored text is read without a lock.
ReRegister(h) ==
    /\ stored # NoVersion
    /\ \E x \in located : Begin(h, [mode |-> "text", version |-> stored, host |-> x])
    /\ UNCHANGED <<status, twice>>

-----------------------------------------------------------------------------
(* One run of AutorunResult.update_domain.                                 *)

\* No function is mapped to the file name, or the mapped one does not exist.
NoAutorun(h) ==
    /\ pc[h] = "begun" /\ job[h].mode \in {"auto", "manual"}
    /\ \/ UNCHANGED status
       \/ job[h].mode = "manual" /\ Outcome(h, "ERROR")
    /\ End(h)
    /\ UNCHANGED <<registered, history, domain, chain, holes, refused, twice>>

\* The comparison.  A re-registration has changed create_on of the row, and
\* so holds its lock, before it gets here.
Compare(h) ==
    /\ pc[h] = "begun"
    /\ job[h].mode = "text" => LockFree(h)
    /\ lock' = IF job[h].mode = "text" THEN h ELSE lock
    /\ old' = [old EXCEPT ![h] = stored]
    /\ pc' = [pc EXCEPT ![h] = IF job[h].mode # "text" /\ stored = job[h].version
                               THEN "same" ELSE "changed"]
    /\ UNCHANGED <<status, registered, history, domain, job, doomed, chain, holes, refused, twice>>

\* Only create_on is written.
NotChanged(h) ==
    /\ pc[h] = "same" /\ LockFree(h)
    /\ Outcome(h, "NOCHANGE")
    /\ End(h)
    /\ UNCHANGED <<registered, history, domain, chain, holes, refused, twice>>

NotesNothing(h) == history                          \* mutant: the row is forgotten
Noted(h) ==
    IF job[h].mode = "text" \/ old[h] = NoVersion THEN history
    ELSE history \union {<<old[h], job[h].version>>}

RefusedAsDone == "COMPLITED"                        \* mutant: -10 taken for a success
RefusedStatus == "ERROR"

\* The host is not in mw_server: nothing is registered, but the history row
\* was inserted before and is committed with the status.
Refuse(h) ==
    /\ pc[h] = "changed" /\ job[h].host \notin registered
    /\ history' = Noted(h)
    /\ Outcome(h, RefusedStatus)
    /\ refused' = refused \union {job[h].version}
    /\ End(h)
    /\ UNCHANGED <<registered, domain, chain, holes, twice>>

UpsertsUnlocked(h) == TRUE                          \* mutant: nobody waits
RowFree(h) == LockFree(h)

Upsert(h) ==
    /\ pc[h] = "changed" /\ job[h].host \in registered /\ RowFree(h)
    /\ lock' = h
    /\ pc' = [pc EXCEPT ![h] = "upserted"]
    /\ UNCHANGED <<status, registered, history, domain, job, old, doomed, chain, holes, refused, twice>>

Removed(v) == instances \ ServersOf(v)

Prune(h) ==
    /\ pc[h] = "upserted"
    /\ doomed' = [doomed EXCEPT ![h] = Removed(job[h].version)]
    /\ pc' = [pc EXCEPT ![h] = "pruned"]
    /\ UNCHANGED <<status, registered, history, domain, lock, job, old, chain, holes, refused, twice>>

\* Rows of an instance go with it.  A server that names no datasource, and
\* one that no application is deployed on, is passed over: its old links stay.
LinksAppended(v, i) ==                              \* mutant: append, not assign
    dsLinks[i] \union (UsedBy(v, i) \intersect (databases \union Config[v].databases))
DsLinksOf(v, i) ==
    IF UsedBy(v, i) = {} THEN dsLinks[i]
    ELSE UsedBy(v, i) \intersect (databases \union Config[v].databases)
AppLinksOf(v, i) == IF AppsOn(v, i) = {} THEN appLinks[i] ELSE AppsOn(v, i)

\* Foreign keys with ON DELETE CASCADE.
KeepsLinks(i, rows, links) == links                 \* mutant: no cascade
Cascades(i, rows, links) == IF i \in rows THEN links ELSE {}

Commit(h) ==
    LET v == job[h].version
        rows == (instances \ doomed[h]) \union ServersOf(v)
        Kept(i, links) == Cascades(i, rows, links)
    IN
    /\ pc[h] = "pruned"
    /\ stored' = v /\ located' = {job[h].host}
    /\ history' = Noted(h)
    /\ databases' = databases \union Config[v].databases
    /\ apps' = apps \union Config[v].apps
    /\ instances' = rows
    /\ dsLinks' = [i \in Instances |->
                      IF i \in ServersOf(v) THEN DsLinksOf(v, i) ELSE Kept(i, dsLinks[i])]
    /\ appLinks' = [i \in Instances |->
                       IF i \in ServersOf(v) THEN AppLinksOf(v, i) ELSE Kept(i, appLinks[i])]
    /\ conns' = [i \in Instances |->
                    IF i \in ServersOf(v) THEN conns[i] \union ConnsOf(v, i)
                    ELSE Kept(i, conns[i])]
    /\ chain' = Append(chain, v)
    /\ holes' = IF stored # NoVersion /\ (old[h] # stored \/ (job[h].mode = "text" /\ stored # v))
                THEN holes \union {Len(chain) + 1} ELSE holes
    /\ Outcome(h, "COMPLITED")
    /\ End(h)
    /\ UNCHANGED <<registered, refused, twice>>

\* An exception: the transaction is rolled back, then the status is written.
FailsKeepingRows(h) == Noted(h)                     \* mutant: no rollback
KeptOnFailure(h) == history
FailsKeepingLock(h) == lock                         \* mutant: the session stays open
LockAfterFailure(h) == IF lock = h THEN NoOne ELSE lock

Fail(h) ==
    /\ pc[h] \in {"begun", "changed", "upserted", "pruned"}
    /\ history' = KeptOnFailure(h)
    /\ Outcome(h, "ERROR")
    /\ pc' = [pc EXCEPT ![h] = "idle"]
    /\ job' = [job EXCEPT ![h] = NoJob]
    /\ old' = [old EXCEPT ![h] = NoVersion]
    /\ doomed' = [doomed EXCEPT ![h] = {}]
    /\ lock' = LockAfterFailure(h)
    /\ UNCHANGED <<registered, domain, chain, holes, refused, twice>>

\* The process dies or its commit fails: the result keeps its status.
Abort(h) ==
    /\ pc[h] # "idle"
    /\ End(h)
    /\ UNCHANGED <<status, registered, history, domain, chain, holes, refused, twice>>

-----------------------------------------------------------------------------
\* WEBMain.xml of an instance: connectors are added, without the mw_was row.
WebMain(i, c) ==
    /\ i \in instances /\ \A h \in Handlers : i \notin doomed[h]
    /\ stored # NoVersion /\ ~Config[stored].new
    /\ c \notin conns[i]
    /\ conns' = [conns EXCEPT ![i] = @ \union {c}]
    /\ UNCHANGED <<status, registered, history, stored, located, instances, databases, apps,
                   dsLinks, appLinks, handler, chain, holes, refused, twice>>

\* Hosts are kept by hand; a foreign key protects the one that is in use.
RegisterHost(x) ==
    /\ x \notin registered
    /\ registered' = registered \union {x}
    /\ UNCHANGED <<status, history, domain, handler, chain, holes, refused, twice>>

Unused(x) ==
    /\ x \notin located
    /\ \A h \in Active : pc[h] \in {"upserted", "pruned"} => job[h].host # x

RemoveHost(x) ==
    /\ x \in registered /\ Unused(x)
    /\ registered' = registered \ {x}
    /\ UNCHANGED <<status, history, domain, handler, chain, holes, refused, twice>>

Run(h) ==
    \/ NoAutorun(h) \/ Compare(h) \/ NotChanged(h) \/ Refuse(h)
    \/ Upsert(h) \/ Prune(h) \/ Commit(h)

Next ==
    \/ \E h \in Handlers :
          \/ ReRegister(h) \/ Run(h) \/ Fail(h) \/ Abort(h)
          \/ \E r \in Results : Receive(h, r) \/ UpdateConfig(h, r) \/ PostConfig(h, r)
    \/ \E x \in Hosts : RegisterHost(x) \/ RemoveHost(x)
    \/ \E i \in Instances, c \in Conns : WebMain(i, c)

Spec == Init /\ [][Next]_vars

(* A handler goes on; PostgreSQL serves the waiters of a row lock in turn. *)
FairSpec == Spec /\ \A h \in Handlers : SF_vars(Run(h))
-----------------------------------------------------------------------------
(* The instances in the database are exactly the servers of the stored     *)
(* configuration, whatever registrations ran next to each other            *)
(* (the DELETE at jeus_dml.py:134-139 sees only committed rows).           *)
InstancesFollow == stored # NoVersion => instances = ServersOf(stored)

(* A server is linked to the datasources and applications that the stored  *)
(* configuration gives it; one it gives none to may keep older links.      *)
LinksFollow ==
    \A i \in instances :
        /\ UsedBy(stored, i) # {} => dsLinks[i] = UsedBy(stored, i) \intersect databases
        /\ AppsOn(stored, i) # {} => appLinks[i] = AppsOn(stored, i)
        /\ ConnsOf(stored, i) \subseteq conns[i]

(* Nothing hangs on an instance that is gone.                              *)
NoOrphans == \A i \in Instances \ instances : dsLinks[i] = {} /\ appLinks[i] = {} /\ conns[i] = {}

(* A configuration that was replaced is in the change history with the one *)
(* that replaced it, unless its successor was compared with an older one   *)
(* or was a re-registration that had read an older text.                   *)
HistoryComplete ==
    \A k \in 2..Len(chain) :
        k \in holes \/ chain[k] = chain[k - 1] \/ <<chain[k - 1], chain[k]>> \in history

(* Every history row tells of a configuration that was stored and of one   *)
(* that was stored after it or came from an unregistered host.             *)
HistoryOfStored ==
    \A row \in history :
        \E k \in 1..Len(chain) :
            /\ chain[k] = row[1]
            /\ row[2] \in refused \/ \E m \in k + 1..Len(chain) : chain[m] = row[2]

(* A result that reads COMPLITED has been registered.                      *)
CompletedWasStored ==
    \A r \in Results : status[r] = "COMPLITED" => \E k \in 1..Len(chain) : chain[k] = Sent[r]

(* A settled result stays as it is, unless two handlers ran it at once.    *)
SettledStays ==
    [][\A r \in Results \ twice :
          status[r] \in {"COMPLITED", "NOCHANGE", "FAILED"} => status'[r] = status[r]]_vars

(* A run ends, also when it waits for the row of another one.              *)
RunEnds == \A h \in Handlers : pc[h] # "idle" ~> pc[h] = "idle"
-----------------------------------------------------------------------------
(* The requests on one domain, however they overlap, wait for each other,  *)
(* fail or die, are steps of SerialRegistration.tla: an overlap shows in   *)
(* the change history and in nothing else.                                 *)
Serial == INSTANCE SerialRegistration WITH past <- {chain[k] : k \in 1..Len(chain)}

ImplementsSerial == Serial!SerialSpec
=============================================================================
