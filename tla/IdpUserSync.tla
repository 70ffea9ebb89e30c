----------------------------- MODULE IdpUserSync -----------------------------
(***************************************************************************)
(* The IDP copies its users from an external database.  One request runs   *)
(* through the external rows in one transaction, updates or creates a user *)
(* for each, deactivates the synced users whose row is gone, commits and   *)
(* answers with what it did.  The IDP server is one process with one       *)
(* thread, so no other request runs between the steps of a sync; users are *)
(* also created, changed and deactivated over the API.  A PUT may write    *)
(* any column: it also makes a user the user of an external row, or a      *)
(* local one.  Local stands for no source and for any other source; a user *)
(* of the source without an id is the user of an id that has no row.       *)
(***************************************************************************)
EXTENDS Naturals, FiniteSets

CONSTANTS
    Ids,          \* primary keys of the external table
    Names, Emails,
    Slots,        \* bound: rows of idp_user
    MaxMoved,     \* bound: users whose origin the API changes
    NoEmail, NoUser, NoRow, Local

ASSUME MovedAssumption == MaxMoved \in Nat
ASSUME NoneAssumption ==
    NoEmail \notin Emails /\ Local \notin Ids
    /\ NoRow \notin [name : Names, email : Emails \union {NoEmail}]
    /\ NoUser \notin [name : Names, email : Emails, origin : Ids \union {Local},
                      active : BOOLEAN]

Rows == [name : Names, email : Emails \union {NoEmail}]
Users == [name : Names, email : Emails, origin : Ids \union {Local}, active : BOOLEAN]

VARIABLES
    external,     \* the rows of the source that its filter lets through
    users,        \* idp_user, as committed
    view,         \* what the session of the sync sees
    phase,        \* "idle", "rows", "rest"
    todo,         \* rows the loop has not reached
    broken,       \* a flush failed and nobody rolled the session back
    report,       \* the counts of the result, as sets of row ids
    moved         \* history: users whose origin a PUT has changed

session == <<view, phase, todo, broken>>
vars == <<external, users, session, report, moved>>

NoReport == [created |-> {}, updated |-> {}, errors |-> {}, deactivated |-> {},
             kind |-> "none"]

TypeOK ==
    /\ external \in [Ids -> Rows \union {NoRow}]
    /\ users \in [Slots -> Users \union {NoUser}]
    /\ view \in [Slots -> Users \union {NoUser}]
    /\ phase \in {"idle", "rows", "rest"} /\ todo \in SUBSET Ids /\ broken \in BOOLEAN
    /\ report \in [created : SUBSET Ids, updated : SUBSET Ids, errors : SUBSET Ids,
                   deactivated : SUBSET Ids, kind : {"none", "running", "done", "failed"}]
    /\ moved \in SUBSET Slots

Init ==
    /\ external \in [Ids -> Rows \union {NoRow}]
    /\ users = [s \in Slots |-> NoUser]
    /\ view = users /\ phase = "idle" /\ todo = {} /\ broken = FALSE
    /\ report = NoReport /\ moved = {}

-----------------------------------------------------------------------------
Live(t) == {s \in Slots : t[s] # NoUser}
Present == {i \in Ids : external[i] # NoRow}
SyncedBy(t, i) == {s \in Live(t) : t[s].origin = i}
NameTaken(t, n, s) == \E o \in Live(t) \ {s} : t[o].name = n
EmailTaken(t, e, s) == \E o \in Live(t) \ {s} : t[o].email = e

\* The unique and the NOT NULL columns of idp_user.
StorableByName(t, n, e, s) ==                       \* mutant: addresses not unique
    ~NameTaken(t, n, s) /\ e # NoEmail
Storable(t, n, e, s) == ~NameTaken(t, n, s) /\ ~EmailTaken(t, e, s) /\ e # NoEmail

UserOf(i) == [name |-> external[i].name, email |-> external[i].email,
              origin |-> i, active |-> TRUE]

-----------------------------------------------------------------------------
(* The API, between syncs.                                                 *)

Edited == phase = "idle" /\ report' = NoReport /\ UNCHANGED <<phase, todo, broken>>

CreateUser(s, n, e) ==
    /\ Edited
    /\ users[s] = NoUser /\ Storable(users, n, e, s)
    /\ users' = [users EXCEPT ![s] = [name |-> n, email |-> e, origin |-> Local,
                                      active |-> TRUE]]
    /\ view' = users'
    /\ UNCHANGED <<external, moved>>

\* The body of the PUT is stored as it is; only the username and the address
\* are checked.
UpdateUser(s, n, e, o, a) ==
    /\ Edited
    /\ users[s] # NoUser /\ Storable(users, n, e, s)
    /\ users' = [users EXCEPT ![s] = [name |-> n, email |-> e, origin |-> o, active |-> a]]
    /\ view' = users'
    /\ moved' = IF o # users[s].origin THEN moved \union {s} ELSE moved
    /\ Cardinality(moved') <= MaxMoved
    /\ UNCHANGED external

\* Deletion is logical.
DeleteUser(s) ==
    /\ Edited
    /\ users[s] # NoUser /\ users[s].active
    /\ users' = [users EXCEPT ![s].active = FALSE]
    /\ view' = users'
    /\ UNCHANGED <<external, moved>>

ExternalEdit(i, row) ==
    /\ Edited
    /\ external' = [external EXCEPT ![i] = row]
    /\ UNCHANGED <<users, view, moved>>

-----------------------------------------------------------------------------
(* SyncService.sync_users.                                                 *)

SyncBegin ==
    /\ phase = "idle"
    /\ phase' = "rows" /\ todo' = Present
    /\ report' = [NoReport EXCEPT !.kind = "running"]
    /\ UNCHANGED <<external, users, view, broken, moved>>

Done(i) ==
    /\ phase = "rows" /\ i \in todo
    /\ todo' = todo \ {i}
    /\ UNCHANGED <<external, users, phase, moved>>

LogsOnly(i) == report' = report                     \* mutant: not in the result
Erred(i) == report' = [report EXCEPT !.errors = @ \union {i}]

\* Every query of a session whose flush failed raises, and the row's error
\* handler goes on to the next row.
RowOnBroken(i) ==
    /\ Done(i) /\ broken
    /\ Erred(i)
    /\ UNCHANGED <<view, broken>>

\* The row has a user, any one of them if a PUT gave it more.  Only a taken
\* username is looked for; another column that cannot be stored makes the
\* flush fail.
NameConflict(i, s) == NameTaken(view, external[i].name, s)

UpdatesAnyway(i, s) ==                              \* mutant: address set before the check
    /\ Done(i) /\ ~broken /\ s \in SyncedBy(view, i)
    /\ view' = [view EXCEPT ![s].email = external[i].email]
    /\ Erred(i)
    /\ UNCHANGED broken

RowUpdates(i, s) ==
    /\ Done(i) /\ ~broken /\ s \in SyncedBy(view, i)
    /\ \/ /\ NameConflict(i, s)
          /\ Erred(i)
          /\ UNCHANGED <<view, broken>>
       \/ /\ ~NameConflict(i, s) /\ Storable(view, external[i].name, external[i].email, s)
          /\ view' = [view EXCEPT ![s] = UserOf(i)]
          /\ report' = [report EXCEPT !.updated = @ \union {i}]
          /\ UNCHANGED broken
       \/ /\ ~NameConflict(i, s) /\ ~Storable(view, external[i].name, external[i].email, s)
          /\ broken' = TRUE
          /\ Erred(i)
          /\ UNCHANGED view

UnknownOrGone(i) ==                                 \* mutant: looks for active users
    \A s \in SyncedBy(view, i) : ~view[s].active
Unknown(i) == SyncedBy(view, i) = {}

\* The row is new.  A conflict, or a row beyond Slots that the database
\* refuses, leaves the savepoint, and then the handler rolls back the
\* session: everything this sync has done so far.
RowCreates(i, s) ==
    /\ Done(i) /\ ~broken /\ Unknown(i)
    /\ \/ /\ view[s] = NoUser
          /\ Storable(view, external[i].name, external[i].email, s)
          /\ view' = [view EXCEPT ![s] = UserOf(i)]
          /\ report' = [report EXCEPT !.created = @ \union {i}]
       \/ /\ \A o \in Slots : view[o] = NoUser =>
                ~Storable(view, external[i].name, external[i].email, o)
          /\ view' = users
          /\ Erred(i)
    /\ UNCHANGED broken

RowsDone ==
    /\ phase = "rows" /\ todo = {}
    /\ phase' = "rest"
    /\ UNCHANGED <<external, users, view, todo, broken, report, moved>>

\* Users of the source that no row names any more.
GoneUnlessSynced == Ids \ (report.created \union report.updated)  \* mutant: ids of successes
GoneIds == Ids \ Present

SyncCommit ==
    /\ phase = "rest" /\ ~broken
    /\ LET gone == {s \in Live(view) : view[s].origin \in GoneIds /\ view[s].active} IN
        /\ users' = [s \in Slots |-> IF s \in gone THEN [view[s] EXCEPT !.active = FALSE]
                                     ELSE view[s]]
        /\ report' = [report EXCEPT !.deactivated = {view[s].origin : s \in gone},
                                    !.kind = "done"]
    /\ view' = users' /\ phase' = "idle"
    /\ UNCHANGED <<external, todo, broken, moved>>

\* The query for the users of the source raises; the request ends with 500
\* and its transaction is rolled back.
SyncFails ==
    /\ phase = "rest" /\ broken
    /\ view' = users
    /\ phase' = "idle" /\ broken' = FALSE
    /\ report' = [report EXCEPT !.kind = "failed"]
    /\ UNCHANGED <<external, users, todo, moved>>

Sync ==
    \/ SyncBegin \/ RowsDone \/ SyncCommit \/ SyncFails
    \/ \E i \in Ids : \/ RowOnBroken(i)
                      \/ \E s \in Slots : RowUpdates(i, s) \/ RowCreates(i, s)

Next ==
    \/ Sync
    \/ \E s \in Slots : DeleteUser(s)
    \/ \E s \in Slots, n \in Names, e \in Emails :
          \/ CreateUser(s, n, e)
          \/ \E o \in Ids \union {Local}, a \in BOOLEAN : UpdateUser(s, n, e, o, a)
    \/ \E i \in Ids : \E row \in Rows \union {NoRow} : ExternalEdit(i, row)

Spec == Init /\ [][Next]_vars
-----------------------------------------------------------------------------
Stored(i) == \E s \in Slots : users[s] = UserOf(i)

(* A sync that reports no error has made the synced users the image of the *)
(* external rows: each row has its user, up to date and active, and the    *)
(* users of other rows are not active.                                     *)
CleanSyncMirrors ==
    report.kind = "done" /\ report.errors = {} =>
        /\ \A i \in Present : Stored(i)
        /\ \A s \in Live(users) :
              users[s].origin \in Ids \ Present => ~users[s].active

(* An external row has two users only if a PUT gave one of them that row   *)
(* or another one: a sync never does, also when the user was deactivated,  *)
(* renamed or made local, the row was gone for a while or a conflict undid *)
(* a sync.  No key of the table says so (idp/app/models.py:24-25).  It     *)
(* holds of what a sync sees, hence of what it commits.                    *)
OneUserPerRow ==
    \A s, o \in Live(view) :
        view[s].origin = view[o].origin /\ view[s].origin # Local =>
            s = o \/ s \in moved \/ o \in moved

(* A sync deactivates only users whose row is gone: a row that could not   *)
(* be stored keeps its user.                                               *)
DeactivatesOnlyGone ==
    [][phase = "rest" => \A s \in Live(users) :
          users[s].active /\ users[s].origin \in Present => users'[s].active]_vars

(* A sync leaves the users alone that are not of its source, and the users *)
(* whose row it reports as refused, whatever names and addresses the rows  *)
(* carry and whatever rollbacks come before or after the refusal           *)
(* (sync_service.py:152-160, 181-190).                                     *)
RefusedUntouched ==
    [][phase # "idle" => \A s \in Live(users) :
          users[s].origin \in {Local} \union report.errors => users'[s] = users[s]]_vars

(* What the comment at sync_service.py:183 says: a conflict undoes the     *)
(* work on its own row alone, so what the result counts as created or      *)
(* updated is stored.                                                      *)
ReportedIsStored ==
    report.kind = "done" => \A i \in report.created \union report.updated : Stored(i)
-----------------------------------------------------------------------------
(* A sync, with its flushes, savepoints and rollbacks, is one step of      *)
(* AtomicSync.tla, taken by its commit: no conflict, no failed flush and   *)
(* no order of the rows changes a user in another way.                     *)
Atomic == INSTANCE AtomicSync

ImplementsAtomic == Atomic!AtomicSpec
=============================================================================
