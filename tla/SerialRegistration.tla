-------------------------- MODULE SerialRegistration --------------------------
(***************************************************************************)
(* What the registration of a JEUS domain promises: the tables of the      *)
(* domain change as if one registration ran at a time, in the order of the *)
(* commits, each of them computed from the tables the one before it left.  *)
(*                                                                         *)
(* There are no transactions, locks, threads or retries here.  The one     *)
(* thing a serial registration is not held to is the change history: the   *)
(* comparison reads without a lock, so the row it files may name any       *)
(* version that was stored before.                                         *)
(***************************************************************************)
EXTENDS DomainConfig

CONSTANTS Results, Sent, Hosts, NoVersion

VARIABLES
    status,                                  \* of each result
    registered,                              \* hosts in mw_server
    stored, located,                         \* the row of mw_was
    history,                                 \* mw_was_change_history
    past,                                    \* versions that were ever stored
    instances, databases, apps, dsLinks, appLinks, conns

tables == <<stored, located, past, instances, databases, apps, dsLinks, appLinks, conns>>
serialVars == <<status, registered, history, tables>>

SerialInit ==
    /\ status = [r \in Results |-> "none"]
    /\ registered = Hosts
    /\ stored = NoVersion /\ located = {} /\ history = {} /\ past = {}
    /\ instances = {} /\ databases = {} /\ apps = {}
    /\ dsLinks = [i \in Instances |-> {}]
    /\ appLinks = [i \in Instances |-> {}]
    /\ conns = [i \in Instances |-> {}]

\* What hangs on instance i afterwards: what v names for a server, the old
\* rows of a server it names nothing for, and nothing for the others.
After(v, i, named, before) ==
    IF i \notin ServersOf(v) THEN {} ELSE IF named = {} THEN before ELSE named

Rewrite(v, x) ==
    /\ stored' = v /\ located' = {x} /\ past' = past \union {v}
    /\ instances' = ServersOf(v)
    /\ databases' = databases \union Config[v].databases
    /\ apps' = apps \union Config[v].apps
    /\ dsLinks' = [i \in Instances |-> databases' \intersect After(v, i, UsedBy(v, i), dsLinks[i])]
    /\ appLinks' = [i \in Instances |-> After(v, i, AppsOn(v, i), appLinks[i])]
    /\ conns' = [i \in Instances |-> After(v, i, conns[i] \union ConnsOf(v, i), conns[i])]

\* At most one row is filed, about a version that was stored before.
Files(v) == history' = history \/ \E u \in past : history' = history \union {<<u, v>>}

\* At most one result is settled.
Settles(r, s) == status' = [status EXCEPT ![r] = s]

Register(v, x) ==
    /\ x \in registered
    /\ Rewrite(v, x)
    /\ Files(v)
    /\ UNCHANGED status \/ \E r \in Results : Sent[r] = v /\ Settles(r, "COMPLITED")
    /\ UNCHANGED registered

\* A configuration from a host nobody knows changes no table, but it leaves
\* its row in the history.
Refuse(v, x) ==
    /\ x \notin registered
    /\ Files(v)
    /\ UNCHANGED status \/ \E r \in Results : Sent[r] = v /\ Settles(r, "ERROR")
    /\ UNCHANGED <<registered, tables>>

Arrive(r) ==
    /\ status[r] = "none"
    /\ \E s \in {"CREATE", "FAILED", "NOCHANGE"} : Settles(r, s)
    /\ UNCHANGED <<registered, history, tables>>

\* It fails, or it is one that was stored already.
Ends(r) ==
    /\ Settles(r, "ERROR") \/ (Sent[r] \in past /\ Settles(r, "NOCHANGE"))
    /\ UNCHANGED <<registered, history, tables>>

\* WEBMain.xml adds a connector to a server of a JEUSMain.xml.
Connect(i, c) ==
    /\ i \in instances /\ stored # NoVersion /\ ~Config[stored].new
    /\ conns' = [conns EXCEPT ![i] = @ \union {c}]
    /\ UNCHANGED <<status, registered, history, stored, located, past, instances, databases,
                   apps, dsLinks, appLinks>>

HostsChange ==
    /\ registered' \in SUBSET Hosts /\ located \subseteq registered'
    /\ UNCHANGED <<status, history, tables>>

SerialNext ==
    \/ \E v \in Versions, x \in Hosts : Register(v, x) \/ Refuse(v, x)
    \/ \E r \in Results : Arrive(r) \/ Ends(r)
    \/ \E i \in Instances, c \in Conns : Connect(i, c)
    \/ HostsChange

SerialSpec == SerialInit /\ [][SerialNext]_serialVars
=============================================================================
