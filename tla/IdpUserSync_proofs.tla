-------------------------- MODULE IdpUserSync_proofs --------------------------
(***************************************************************************)
(* Proofs about IdpUserSync.  What the session of a sync sees differs from *)
(* the committed users in synced users only, and neither has a second user *)
(* of an external row that no PUT gave it; a rollback and a commit go from *)
(* one to the other.                                                       *)
(***************************************************************************)
EXTENDS IdpUserSync, TLAPS

Tables == [Slots -> Users \union {NoUser}]

\* Two users of one row: one of them is in m.
Unique(t, m) ==
    \A s, o \in Live(t) :
        t[s].origin = t[o].origin /\ t[s].origin # Local => s = o \/ s \in m \/ o \in m

\* The local users of the committed table are in the session's as they are.
SameLocals(t, u) == \A s \in Live(t) : t[s].origin = Local => u[s] = t[s]

IInv ==
    /\ users \in Tables /\ view \in Tables
    /\ external \in [Ids -> Rows \union {NoRow}]
    /\ Unique(users, moved) /\ Unique(view, moved)
    /\ SameLocals(users, view)
    /\ phase = "idle" => view = users
    /\ todo \subseteq Present /\ (phase # "rows" => todo = {})

-----------------------------------------------------------------------------
(* A user that can be stored for an external row is a user.                *)
LEMMA RowUser ==
    ASSUME external \in [Ids -> Rows \union {NoRow}], NEW i \in Present,
           external[i].email # NoEmail
    PROVE  /\ UserOf(i) \in Users /\ UserOf(i).origin = i
           /\ i # Local /\ UserOf(i) # NoUser
<1>1. i \in Ids /\ external[i] \in Rows
    BY DEF Present
<1>2. external[i].name \in Names /\ external[i].email \in Emails
    BY <1>1 DEF Rows
<1>3. UserOf(i) \in Users /\ UserOf(i).origin = i
    BY <1>1, <1>2 DEF UserOf, Users
<1> QED BY <1>1, <1>3, NoneAssumption DEF Users

LEMMA InitIInv == Init => IInv
BY DEF Init, IInv, Tables, Unique, SameLocals, Live

(* Storing an external row in a free slot when it has no user, or in the   *)
(* slot of a user of it, keeps the rows apart and the local users as they  *)
(* are.                                                                    *)
LEMMA StoreRow ==
    ASSUME NEW t \in Tables, NEW c \in Tables, NEW m, Unique(t, m), SameLocals(c, t),
           NEW u \in Users, u.origin # Local, u # NoUser, NEW s \in Slots,
           \/ \A o \in Live(t) : t[o].origin # u.origin
           \/ s \in Live(t) /\ t[s].origin = u.origin,
           t[s] # NoUser => t[s].origin # Local
    PROVE  /\ [t EXCEPT ![s] = u] \in Tables
           /\ Unique([t EXCEPT ![s] = u], m)
           /\ SameLocals(c, [t EXCEPT ![s] = u])
<1> DEFINE n == [t EXCEPT ![s] = u]
<1>1. n \in Tables /\ n[s] = u /\ \A o \in Slots \ {s} : n[o] = t[o]
    BY DEF Tables
<1>2. Unique(n, m)
    BY <1>1 DEF Unique, Live
<1>3. SameLocals(c, n)
    BY <1>1 DEF SameLocals, Live
<1> QED BY <1>1, <1>2, <1>3

LEMMA SyncIInv == IInv /\ Sync => IInv' /\ SameLocals(users, users')
<1> SUFFICES ASSUME IInv, Sync PROVE IInv' /\ SameLocals(users, users')
    OBVIOUS
<1>1. SameLocals(users, users)
    BY DEF SameLocals
<1>2. CASE SyncBegin \/ RowsDone \/ SyncFails
  <2>1. UNCHANGED <<external, users, moved>> /\ view' \in {view, users} /\ (phase' = "idle" => view' = users)
      BY <1>2 DEF SyncBegin, RowsDone, SyncFails
  <2>2. todo' \subseteq Present /\ (phase' # "rows" => todo' = {})
      BY <1>2 DEF IInv, SyncBegin, RowsDone, SyncFails
  <2> QED BY <1>1, <2>1, <2>2 DEF IInv, Unique, SameLocals, Live, Present
<1>3. CASE SyncCommit
  <2>1. /\ UNCHANGED <<external, moved>> /\ view' = users' /\ todo' = todo /\ phase = "rest"
        /\ users' \in Tables
        /\ \A s \in Slots : \/ users'[s] = view[s]
                            \/ /\ s \in Live(view) /\ view[s].origin \in Ids
                               /\ users'[s] = [view[s] EXCEPT !.active = FALSE]
    <3>1. \A s \in Live(view) : view[s] \in Users /\ [view[s] EXCEPT !.active = FALSE] \in Users
        BY DEF IInv, Tables, Live, Users
    <3> QED BY <1>3, <3>1 DEF SyncCommit, IInv, Tables, GoneIds, Live
  <2>2. \A s \in Slots : (users'[s] = NoUser <=> view[s] = NoUser)
                         /\ (view[s] # NoUser => users'[s].origin = view[s].origin)
    <3> SUFFICES ASSUME NEW s \in Slots
                 PROVE  /\ users'[s] = NoUser <=> view[s] = NoUser
                        /\ view[s] # NoUser => users'[s].origin = view[s].origin
        OBVIOUS
    <3>1. CASE users'[s] = view[s]
        BY <3>1
    <3>2. CASE s \in Live(view) /\ users'[s] = [view[s] EXCEPT !.active = FALSE]
      <4>1. view[s] \in Users /\ view[s] # NoUser
          BY <3>2 DEF IInv, Tables, Live
      <4>2. users'[s] \in Users /\ users'[s].origin = view[s].origin
          BY <3>2, <4>1 DEF Users
      <4>3. users'[s] # NoUser
          BY <4>2, NoneAssumption DEF Users
      <4> QED BY <4>1, <4>2, <4>3
    <3> QED BY <2>1, <3>1, <3>2
  <2>3. Unique(users', moved')
      BY <2>1, <2>2 DEF IInv, Unique, Live
  <2>4. SameLocals(users, users')
    <3> SUFFICES ASSUME NEW s \in Live(users), users[s].origin = Local
                 PROVE  users'[s] = users[s]
        BY DEF SameLocals
    <3>1. view[s] = users[s] /\ s \in Slots
        BY DEF IInv, SameLocals, Live
    <3>2. view[s].origin \notin Ids
        BY <3>1, NoneAssumption
    <3> QED BY <2>1, <3>1, <3>2
  <2>5. SameLocals(users', view')
      BY <2>1 DEF SameLocals
  <2> QED BY <2>1, <2>3, <2>4, <2>5 DEF IInv, Unique, SameLocals, Live, Present
<1>4. ASSUME NEW i \in Ids, RowOnBroken(i) PROVE IInv' /\ SameLocals(users, users')
    BY <1>1, <1>4 DEF RowOnBroken, Done, IInv, Unique, SameLocals, Live, Present
<1>5. ASSUME NEW i \in Ids, NEW s \in Slots, RowUpdates(i, s) \/ RowCreates(i, s)
      PROVE  IInv' /\ SameLocals(users, users')
  <2>1. /\ UNCHANGED <<external, users, phase, moved>> /\ phase = "rows" /\ i \in Present
        /\ todo' \subseteq Present
      BY <1>5 DEF RowUpdates, RowCreates, Unknown, Done, IInv
  <2>2. CASE view' = view \/ view' = users
      BY <1>1, <2>1, <2>2 DEF IInv, Unique, SameLocals, Live, Present
  <2>3. CASE /\ view' = [view EXCEPT ![s] = UserOf(i)]
             /\ Storable(view, external[i].name, external[i].email, s)
             /\ \/ s \in SyncedBy(view, i)
                \/ view[s] = NoUser /\ SyncedBy(view, i) = {}
    <3>1. /\ UserOf(i) \in Users /\ UserOf(i).origin = i /\ i # Local /\ UserOf(i) # NoUser
        BY <2>1, <2>3, RowUser DEF IInv, Storable
    <3>2. \/ \A o \in Live(view) : view[o].origin # i
          \/ s \in Live(view) /\ view[s].origin = i
        BY <2>3 DEF SyncedBy
    <3>3. view[s] # NoUser => view[s].origin # Local
        BY <2>3, <3>1 DEF SyncedBy
    <3>4. view' \in Tables /\ Unique(view', moved) /\ SameLocals(users, view')
        BY <2>3, <3>1, <3>2, <3>3, StoreRow DEF IInv
    <3> QED BY <1>1, <2>1, <3>4 DEF IInv, Unique, SameLocals, Live, Present
  <2>4. view' = view \/ view' = users
        \/ /\ view' = [view EXCEPT ![s] = UserOf(i)]
           /\ Storable(view, external[i].name, external[i].email, s)
           /\ \/ s \in SyncedBy(view, i)
              \/ view[s] = NoUser /\ SyncedBy(view, i) = {}
      BY <1>5 DEF RowUpdates, RowCreates, Unknown
  <2> QED BY <2>2, <2>3, <2>4
<1> QED BY <1>2, <1>3, <1>4, <1>5 DEF Sync


(* The API works on one user, or adds a local one.                         *)
LEMMA ApiIInv ==
    ASSUME IInv, NEW s \in Slots, Edited, UNCHANGED external, view' = users',
           NEW u \in Users, users' = [users EXCEPT ![s] = u],
           moved \subseteq moved',
           \/ u.origin = Local \/ s \in moved'
           \/ users[s] # NoUser /\ u.origin = users[s].origin
    PROVE  IInv'
<1>1. /\ users' \in Tables /\ users'[s] = u
      /\ \A o \in Slots \ {s} : users'[o] = users[o]
    BY DEF IInv, Tables
<1>2. Unique(users', moved')
    BY <1>1 DEF IInv, Unique, Live
<1> QED BY <1>1, <1>2 DEF IInv, Edited, Unique, SameLocals, Live, Present

LEMMA NextIInv == IInv /\ [Next]_vars => IInv'
<1> SUFFICES ASSUME IInv, [Next]_vars PROVE IInv'
    OBVIOUS
<1>1. CASE Sync
    BY <1>1, SyncIInv
<1>2. ASSUME NEW s \in Slots, DeleteUser(s) PROVE IInv'
  <2>1. /\ users[s] \in Users /\ users[s] # NoUser
        /\ users' = [users EXCEPT ![s] = [users[s] EXCEPT !.active = FALSE]]
      BY <1>2 DEF DeleteUser, IInv, Tables
  <2>2. /\ [users[s] EXCEPT !.active = FALSE] \in Users
        /\ [users[s] EXCEPT !.active = FALSE].origin = users[s].origin
      BY <2>1 DEF Users
  <2> QED BY <1>2, <2>1, <2>2, ApiIInv DEF DeleteUser
<1>3. ASSUME NEW s \in Slots, NEW n \in Names, NEW e \in Emails, CreateUser(s, n, e)
      PROVE  IInv'
  <2> DEFINE u == [name |-> n, email |-> e, origin |-> Local, active |-> TRUE]
  <2>1. u \in Users /\ u.origin = Local
      BY DEF Users
  <2> HIDE DEF u
  <2> QED BY <1>3, <2>1, ApiIInv DEF CreateUser, u
<1>4. ASSUME NEW s \in Slots, NEW n \in Names, NEW e \in Emails,
             NEW o \in Ids \union {Local}, NEW a \in BOOLEAN, UpdateUser(s, n, e, o, a)
      PROVE  IInv'
  <2> DEFINE u == [name |-> n, email |-> e, origin |-> o, active |-> a]
  <2>1. u \in Users /\ u.origin = o
      BY DEF Users
  <2>2. /\ users[s] # NoUser /\ users' = [users EXCEPT ![s] = u] /\ moved \subseteq moved'
        /\ o = users[s].origin \/ s \in moved'
        /\ Edited /\ UNCHANGED external /\ view' = users'
      BY <1>4 DEF UpdateUser
  <2> HIDE DEF u
  <2> QED BY <2>1, <2>2, ApiIInv
<1>5. ASSUME NEW i \in Ids, NEW row \in Rows \union {NoRow}, ExternalEdit(i, row)
      PROVE  IInv'
  <2>1. /\ UNCHANGED <<users, view, phase, todo, moved>> /\ phase = "idle"
        /\ external' \in [Ids -> Rows \union {NoRow}]
      BY <1>5 DEF ExternalEdit, Edited, IInv
  <2> QED BY <2>1 DEF IInv, Unique, SameLocals, Live, Present
<1>6. CASE UNCHANGED vars
    BY <1>6 DEF vars, session, IInv, Unique, SameLocals, Live, Present
<1> QED BY <1>1, <1>2, <1>3, <1>4, <1>5, <1>6 DEF Next

(* Neither the committed users nor what a sync sees has two users of one   *)
(* row that no PUT changed the origin of, and they agree on the local      *)
(* users.                                                                  *)
THEOREM Inductive == Spec => []IInv
<1> QED BY InitIInv, NextIInv, PTL DEF Spec

(* Only a PUT gives an external row a second user, for any number of rows, *)
(* names and slots: syncs do not, after any other requests.                *)
THEOREM OneUserSafe == Spec => []OneUserPerRow
<1>1. IInv => OneUserPerRow
    BY DEF IInv, Unique, OneUserPerRow
<1> QED BY <1>1, Inductive, PTL
-----------------------------------------------------------------------------
(* Rows and users at the end of a sync.  Without an error so far, each row *)
(* the loop has left has its user in the session; and a row that is        *)
(* present keeps an active user active, with or without errors.            *)
Image(i) == \E s \in Live(view) : view[s] = UserOf(i)

RunningInv ==
    /\ phase = "idle" <=> report.kind # "running"
    /\ phase = "idle" => ~broken
    /\ phase # "idle" /\ report.errors = {} =>
          ~broken /\ \A i \in Present \ todo : Image(i)

ActiveKept ==
    \A s \in Live(users) : users[s].active /\ users[s].origin \in Present =>
        s \in Live(view) /\ view[s].active /\ view[s].origin = users[s].origin

MInv == IInv /\ TypeOK /\ RunningInv /\ ActiveKept /\ CleanSyncMirrors

LEMMA InitMInv == Init => MInv
<1> SUFFICES ASSUME Init PROVE MInv
    OBVIOUS
<1>1. IInv
    BY InitIInv
<1>2. TypeOK
  <2>1. report \in [created : SUBSET Ids, updated : SUBSET Ids, errors : SUBSET Ids,
                    deactivated : SUBSET Ids, kind : {"none", "running", "done", "failed"}]
      BY DEF Init, NoReport
  <2>2. moved \in SUBSET Slots
      BY DEF Init
  <2>3. users \in [Slots -> Users \union {NoUser}]
      BY DEF Init
  <2> QED BY <2>1, <2>2, <2>3 DEF Init, TypeOK
<1> QED BY <1>1, <1>2 DEF Init, MInv, RunningInv, ActiveKept, CleanSyncMirrors, NoReport, Live

(* The rows of the loop.                                                   *)
LEMMA RowMInv ==
    ASSUME MInv, IInv', NEW i \in Ids, NEW s \in Slots,
           RowOnBroken(i) \/ RowUpdates(i, s) \/ RowCreates(i, s)
    PROVE  MInv'
<1> USE DEF MInv
<1>1. /\ UNCHANGED <<external, users, phase, moved>> /\ phase = "rows" /\ i \in Present
      /\ todo' = todo \ {i} /\ report.kind = "running"
    BY DEF RowOnBroken, RowUpdates, RowCreates, Unknown, Done, IInv, RunningInv
<1>2. CASE Erred(i) /\ view' \in {view, users} /\ broken' \in BOOLEAN
  <2>1. report' \in [created : SUBSET Ids, updated : SUBSET Ids, errors : SUBSET Ids,
                     deactivated : SUBSET Ids, kind : {"none", "running", "done", "failed"}]
        /\ report'.errors # {} /\ report'.kind = "running"
      BY <1>1, <1>2 DEF Erred, TypeOK
  <2>2. TypeOK'
      BY <1>1, <1>2, <2>1 DEF TypeOK
  <2> QED BY <1>1, <1>2, <2>1, <2>2
          DEF RunningInv, ActiveKept, CleanSyncMirrors, Live, Present
<1>3. CASE /\ view' = [view EXCEPT ![s] = UserOf(i)] /\ UNCHANGED broken /\ ~broken
           /\ \/ report' = [report EXCEPT !.updated = @ \union {i}]
              \/ report' = [report EXCEPT !.created = @ \union {i}]
           /\ Storable(view, external[i].name, external[i].email, s)
           /\ s \in SyncedBy(view, i) \/ (view[s] = NoUser /\ SyncedBy(view, i) = {})
  <2>1. /\ UserOf(i) \in Users /\ UserOf(i).origin = i /\ UserOf(i) # NoUser
        /\ UserOf(i).active /\ i # Local
      BY <1>1, <1>3, RowUser DEF IInv, Storable, UserOf
  <2>2. view' \in Tables /\ view'[s] = UserOf(i) /\ \A o \in Slots \ {s} : view'[o] = view[o]
      BY <1>3, <2>1 DEF IInv, Tables
  <2>3. /\ report' \in [created : SUBSET Ids, updated : SUBSET Ids, errors : SUBSET Ids,
                        deactivated : SUBSET Ids, kind : {"none", "running", "done", "failed"}]
        /\ report'.errors = report.errors /\ report'.kind = report.kind
      BY <1>3 DEF TypeOK
  <2>4. TypeOK'
      BY <1>1, <1>3, <2>2, <2>3 DEF TypeOK, Tables
  <2>5. \A j \in Ids : UserOf(j)' = UserOf(j) /\ UserOf(j).origin = j
      BY <1>1 DEF UserOf
  <2>6. ASSUME NEW j \in Present, j # i, Image(j)
        PROVE  Image(j)'
    <3>1. PICK o \in Live(view) : view[o] = UserOf(j)
        BY <2>6 DEF Image
    <3>2. o # s
        BY <1>3, <2>5, <2>6, <3>1 DEF SyncedBy, Present, Live
    <3> QED BY <2>2, <2>5, <3>1, <3>2 DEF Image, Live, Present
  <2>7. Image(i)'
      BY <2>1, <2>2, <2>5 DEF Image, Live
  <2>8. RunningInv'
      BY <1>1, <1>3, <2>3, <2>6, <2>7 DEF RunningInv, Present
  <2>9. ActiveKept'
      BY <1>1, <1>3, <2>1, <2>2 DEF ActiveKept, SyncedBy, Live, Present
  <2> QED BY <1>1, <2>3, <2>4, <2>8, <2>9 DEF CleanSyncMirrors
<1>4. CASE RowOnBroken(i)
    BY <1>2, <1>4 DEF RowOnBroken, TypeOK
<1>5. CASE RowUpdates(i, s)
    BY <1>2, <1>3, <1>5 DEF RowUpdates, TypeOK
<1>6. CASE RowCreates(i, s)
    BY <1>2, <1>3, <1>6 DEF RowCreates, Unknown, TypeOK
<1> QED BY <1>4, <1>5, <1>6

(* The commit turns the session's rows into the table, and switches off    *)
(* the users of rows that are gone.                                        *)
LEMMA CommitMInv ==
    ASSUME MInv, IInv', SyncCommit
    PROVE  /\ MInv'
           /\ \A s \in Live(users) :
                 users[s].active /\ users[s].origin \in Present => users'[s].active
<1> USE DEF MInv
<1> DEFINE gone == {s \in Live(view) : view[s].origin \in GoneIds /\ view[s].active}
<1>1. /\ UNCHANGED <<external, todo, broken, moved>> /\ phase = "rest" /\ phase' = "idle"
      /\ ~broken /\ view' = users' /\ report.kind = "running" /\ todo = {}
    BY DEF SyncCommit, IInv, RunningInv
<1>2. \A s \in Slots :
         users'[s] = IF s \in gone THEN [view[s] EXCEPT !.active = FALSE] ELSE view[s]
    BY DEF SyncCommit
<1>3. \A s \in Live(view) : view[s] \in Users
    BY DEF IInv, Tables, Live
<1>4. \A s \in gone : view[s].origin \in Ids /\ view[s].origin \notin Present
                      /\ ~users'[s].active /\ users'[s].origin = view[s].origin
    BY <1>2, <1>3 DEF GoneIds, Users, Live
<1>5. /\ report' \in [created : SUBSET Ids, updated : SUBSET Ids, errors : SUBSET Ids,
                      deactivated : SUBSET Ids, kind : {"none", "running", "done", "failed"}]
      /\ report'.errors = report.errors /\ report'.kind = "done"
  <2>1. {view[s].origin : s \in gone} \subseteq Ids
      BY <1>4
  <2>2. report' = [report EXCEPT !.deactivated = {view[s].origin : s \in gone}, !.kind = "done"]
      BY DEF SyncCommit
  <2> HIDE DEF gone
  <2> QED BY <2>1, <2>2 DEF TypeOK
<1>6. TypeOK'
    BY <1>1, <1>5 DEF TypeOK, IInv, Tables
<1>7. ASSUME NEW i \in Present, report.errors = {}
      PROVE  Stored(i)'
  <2>1. PICK s \in Live(view) : view[s] = UserOf(i)
      BY <1>1, <1>7 DEF RunningInv, Image
  <2>2. s \notin gone
      BY <1>4, <2>1 DEF UserOf
  <2> QED BY <1>1, <1>2, <2>1, <2>2 DEF Stored, UserOf, Live
<1>8. ASSUME NEW s \in Live(users)', users'[s].origin \in Ids \ Present
      PROVE  ~users'[s].active
  <2>1. CASE s \in gone
      BY <1>4, <2>1
  <2>2. CASE s \notin gone
    <3>1. users'[s] = view[s] /\ s \in Live(view)
        BY <1>2, <1>8, <2>2 DEF Live
    <3> QED BY <1>3, <1>8, <2>2, <3>1 DEF GoneIds, Users
  <2> QED BY <2>1, <2>2
<1>9. CleanSyncMirrors'
    BY <1>1, <1>5, <1>7, <1>8 DEF CleanSyncMirrors, Present
<1>10. RunningInv' /\ ActiveKept'
    BY <1>1, <1>5 DEF RunningInv, ActiveKept, Live
<1>11. \A s \in Live(users) :
          users[s].active /\ users[s].origin \in Present => users'[s].active
    BY <1>2, <1>4 DEF ActiveKept, Live
<1> QED BY <1>6, <1>9, <1>10, <1>11

LEMMA NextMInv == MInv /\ [Next]_vars => MInv'
<1> SUFFICES ASSUME MInv, [Next]_vars PROVE MInv'
    OBVIOUS
<1>1. IInv'
    BY NextIInv DEF MInv
<1> USE DEF MInv
<1>2. CASE SyncBegin
  <2>1. TypeOK'
      BY <1>2 DEF SyncBegin, TypeOK, NoReport, Present
  <2> QED BY <1>1, <1>2, <2>1
          DEF SyncBegin, IInv, RunningInv, ActiveKept, CleanSyncMirrors, NoReport, Live, Present
<1>3. CASE RowsDone
    BY <1>1, <1>3 DEF RowsDone, TypeOK, RunningInv, ActiveKept, CleanSyncMirrors, Live, Present,
       Image, UserOf, Stored
<1>4. CASE SyncFails
  <2>1. TypeOK' /\ report'.kind = "failed"
      BY <1>4 DEF SyncFails, TypeOK
  <2> QED BY <1>1, <1>4, <2>1 DEF SyncFails, RunningInv, ActiveKept, CleanSyncMirrors, Live, Present
<1>5. CASE SyncCommit
    BY <1>1, <1>5, CommitMInv
<1>6. ASSUME NEW i \in Ids, RowOnBroken(i)
      PROVE  MInv'
  <2>1. CASE Slots = {}
      BY <1>1, <1>6, <2>1 DEF RowOnBroken, Done, Erred, TypeOK, RunningInv, ActiveKept,
         CleanSyncMirrors, Live, Present
  <2>2. CASE Slots # {}
      BY <1>1, <1>6, <2>2, RowMInv
  <2> QED BY <2>1, <2>2
<1>7. ASSUME NEW i \in Ids, NEW s \in Slots, RowUpdates(i, s) \/ RowCreates(i, s)
      PROVE  MInv'
    BY <1>1, <1>7, RowMInv
<1>8. ASSUME Edited, view' = users', external' \in [Ids -> Rows \union {NoRow}],
             moved' \in SUBSET Slots
      PROVE  MInv'
  <2>1. TypeOK'
      BY <1>1, <1>8 DEF Edited, TypeOK, IInv, Tables, NoReport
  <2> QED BY <1>1, <1>8, <2>1
          DEF Edited, RunningInv, ActiveKept, CleanSyncMirrors, NoReport, Live
<1>9. CASE \E s \in Slots :
              \/ DeleteUser(s)
              \/ \E n \in Names, e \in Emails :
                    \/ CreateUser(s, n, e)
                    \/ \E o \in Ids \union {Local}, a \in BOOLEAN : UpdateUser(s, n, e, o, a)
    BY <1>8, <1>9 DEF DeleteUser, CreateUser, UpdateUser, TypeOK
<1>10. ASSUME NEW i \in Ids, NEW row \in Rows \union {NoRow}, ExternalEdit(i, row)
       PROVE  MInv'
  <2>1. /\ view' = users' /\ external' \in [Ids -> Rows \union {NoRow}]
        /\ moved' \in SUBSET Slots
      BY <1>10 DEF ExternalEdit, Edited, IInv, TypeOK
  <2> QED BY <1>8, <1>10, <2>1 DEF ExternalEdit
<1>11. CASE UNCHANGED vars
    BY <1>1, <1>11 DEF vars, session, TypeOK, RunningInv, ActiveKept, CleanSyncMirrors, Live,
       Present, Image, UserOf, Stored
<1> QED BY <1>2, <1>3, <1>4, <1>5, <1>6, <1>7, <1>9, <1>10, <1>11 DEF Next, Sync

THEOREM MirrorInductive == Spec => []MInv
<1> QED BY InitMInv, NextMInv, PTL DEF Spec

(* TypeOK: every variable keeps its type.                                  *)
THEOREM TypeCorrect == Spec => []TypeOK
<1>1. MInv => TypeOK
    BY DEF MInv
<1> QED BY <1>1, MirrorInductive, PTL

(* A sync without errors leaves the image of the external rows, whatever   *)
(* order the rows came in and whatever syncs failed before.                *)
THEOREM MirrorSafe == Spec => []CleanSyncMirrors
<1>1. MInv => CleanSyncMirrors
    BY DEF MInv
<1> QED BY <1>1, MirrorInductive, PTL

(* Only the users of rows that are gone are deactivated, also by a sync    *)
(* that could not store all rows.                                          *)
THEOREM DeactivateSafe == Spec => DeactivatesOnlyGone
<1>1. MInv /\ [Next]_vars
        => [phase = "rest" => \A s \in Live(users) :
              users[s].active /\ users[s].origin \in Present => users'[s].active]_vars
  <2> SUFFICES ASSUME MInv, Next, phase = "rest", NEW s \in Live(users),
                      users[s].active, users[s].origin \in Present
               PROVE  users'[s].active
      OBVIOUS
  <2>1. SyncCommit \/ UNCHANGED users
      BY DEF Next, Sync, SyncBegin, RowsDone, SyncFails, RowOnBroken, RowUpdates, RowCreates, Unknown, Done,
         DeleteUser, CreateUser, UpdateUser, ExternalEdit, Edited
  <2>2. IInv'
      BY NextIInv DEF MInv
  <2> QED BY <2>1, <2>2, CommitMInv
<1> QED BY <1>1, MirrorInductive, PTL DEF Spec, DeactivatesOnlyGone
-----------------------------------------------------------------------------
(* A user whose row the loop has not reached, or has refused, is in the    *)
(* session as it is in the table.                                          *)
RefusedInv ==
    /\ phase # "idle" => report.errors \subseteq Present \ todo
    /\ \A s \in Live(users) :
          users[s].origin \in todo \union report.errors => view[s] = users[s]

LEMMA NextRefused == MInv /\ RefusedInv /\ [Next]_vars => RefusedInv'
<1> SUFFICES ASSUME MInv, RefusedInv, [Next]_vars PROVE RefusedInv'
    OBVIOUS
<1> USE DEF MInv
<1>1. IInv'
    BY NextIInv
<1>2. CASE phase' = "idle"
  <2>1. view' = users'
      BY <1>1, <1>2 DEF IInv
  <2> QED BY <1>2, <2>1 DEF RefusedInv
<1>3. CASE UNCHANGED vars
    BY <1>3 DEF vars, session, RefusedInv, Live, Present
<1>4. CASE SyncBegin
    BY <1>4 DEF SyncBegin, NoReport, RefusedInv, IInv, Live, Present
<1>5. CASE RowsDone
    BY <1>5 DEF RowsDone, RefusedInv, Live, Present
<1>6. ASSUME NEW i \in Ids, RowOnBroken(i) \/ \E s \in Slots : RowUpdates(i, s) \/ RowCreates(i, s)
      PROVE  RefusedInv'
  <2>1. /\ UNCHANGED <<external, users, phase>> /\ phase = "rows" /\ i \in Present /\ i \in todo
        /\ todo' = todo \ {i}
      BY <1>6 DEF RowOnBroken, RowUpdates, RowCreates, Unknown, Done, IInv
  <2>2. CASE Erred(i) /\ view' \in {view, users}
    <3>1. report'.errors = report.errors \union {i}
        BY <2>2 DEF Erred, TypeOK
    <3> QED BY <2>1, <2>2, <3>1 DEF RefusedInv, Live, Present
  <2>3. ASSUME NEW s \in Slots, view' = [view EXCEPT ![s] = UserOf(i)],
               s \in SyncedBy(view, i) \/ view[s] = NoUser,
               report'.errors = report.errors
        PROVE  RefusedInv'
    <3>1. \A o \in Slots \ {s} : view'[o] = view[o]
        BY <2>3 DEF IInv, Tables
    <3>2. s \in Live(users) => users[s].origin \notin todo' \union report'.errors
      <4> SUFFICES ASSUME s \in Live(users), users[s].origin \in todo' \union report.errors
                   PROVE  FALSE
          BY <2>3
      <4>1. view[s] = users[s] /\ users[s] # NoUser
          BY <2>1 DEF RefusedInv, Live
      <4>2. users[s].origin = i
          BY <2>3, <4>1 DEF SyncedBy
      <4> QED BY <2>1, <4>2 DEF RefusedInv
    <3> QED BY <2>1, <2>3, <3>1, <3>2 DEF RefusedInv, Live, Present
  <2>4. \/ Erred(i) /\ view' \in {view, users}
        \/ \E s \in Slots : /\ view' = [view EXCEPT ![s] = UserOf(i)]
                            /\ s \in SyncedBy(view, i) \/ view[s] = NoUser
                            /\ report'.errors = report.errors
      BY <1>6 DEF RowOnBroken, RowUpdates, RowCreates, Unknown, TypeOK
  <2> QED BY <2>2, <2>3, <2>4
<1> QED BY <1>2, <1>3, <1>4, <1>5, <1>6
        DEF Next, Sync, SyncCommit, SyncFails, DeleteUser, CreateUser, UpdateUser, ExternalEdit,
            Edited, IInv

(* A sync leaves the users alone that are not of its source                *)
(* (sync_service.py:150 looks users up by source and id, never by name),   *)
(* and the users whose rows it refuses, whatever is rolled back.           *)
THEOREM RefusedSafe == Spec => RefusedUntouched
<1>1. Init => RefusedInv
    BY DEF Init, RefusedInv, NoReport, Live
<1>2. Spec => []RefusedInv
    BY <1>1, NextRefused, MirrorInductive, PTL DEF Spec
<1>3. MInv /\ RefusedInv /\ [Next]_vars
        => [phase # "idle" => \A s \in Live(users) :
              users[s].origin \in {Local} \union report.errors => users'[s] = users[s]]_vars
  <2> SUFFICES ASSUME MInv, RefusedInv, Next, phase # "idle", NEW s \in Live(users),
                      users[s].origin \in {Local} \union report.errors
               PROVE  users'[s] = users[s]
      OBVIOUS
  <2>1. Sync
      BY DEF Next, DeleteUser, CreateUser, UpdateUser, ExternalEdit, Edited
  <2>2. CASE users[s].origin = Local
      BY <2>1, <2>2, SyncIInv DEF MInv, SameLocals
  <2>3. CASE users[s].origin \in report.errors /\ SyncCommit
    <3>1. view[s] = users[s] /\ s \in Slots /\ view[s].origin \in Present
        BY <2>3 DEF RefusedInv, Live
    <3> QED BY <2>3, <3>1 DEF SyncCommit, GoneIds
  <2>4. CASE UNCHANGED users
      BY <2>4
  <2> QED BY <2>1, <2>2, <2>3, <2>4
          DEF Sync, SyncBegin, RowsDone, SyncFails, RowOnBroken, RowUpdates, RowCreates, Unknown, Done
<1> QED BY <1>2, <1>3, MirrorInductive, PTL DEF Spec, RefusedUntouched
-----------------------------------------------------------------------------
(* The refinement of AtomicSync.  At any point of a sync, what the session *)
(* sees is what the committed table would be with some of the rows stored: *)
(* each user as it was or as its row has it, and new users only for rows   *)
(* that had none, one for each.                                            *)
DistinctTable(t) ==
    \A s, o \in Live(t) : t[s].name = t[o].name \/ t[s].email = t[o].email => s = o

OldSlots ==
    \A s \in Live(users) :
        /\ s \in Live(view)
        /\ \/ view[s] = users[s]
           \/ users[s].origin \in Present /\ view[s] = UserOf(users[s].origin)

NewSlots ==
    \A s \in Slots \ Live(users) :
        \/ view[s] = NoUser
        \/ \E i \in Present : view[s] = UserOf(i) /\ SyncedBy(users, i) = {}

NewAlone ==
    \A s \in Live(view) \ Live(users), o \in Live(view) :
        view[o].origin = view[s].origin => o = s

AInv == DistinctTable(users) /\ DistinctTable(view) /\ OldSlots /\ NewSlots /\ NewAlone

AtomicStep == [Atomic!AtomicNext]_(Atomic!atomicVars)

LEMMA Untouched ==
    ASSUME AInv, UNCHANGED <<external, users, view>>
    PROVE  AInv' /\ AtomicStep
BY DEF AInv, DistinctTable, OldSlots, NewSlots, NewAlone, Live, Present, UserOf, SyncedBy, AtomicStep,
       Atomic!atomicVars

\* A sync that gives up its changes.
LEMMA GivenUp ==
    ASSUME IInv', AInv, UNCHANGED <<external, users>>, view' = users
    PROVE  AInv' /\ AtomicStep
<1>1. AInv'
    BY DEF AInv, DistinctTable, OldSlots, NewSlots, NewAlone, Live
<1> QED BY <1>1 DEF AtomicStep, Atomic!atomicVars

\* A row is stored in the session.
LEMMA RowStored ==
    ASSUME IInv, AInv, NEW i \in Present, NEW s \in Slots,
           UNCHANGED <<external, users>>, view' = [view EXCEPT ![s] = UserOf(i)],
           Storable(view, external[i].name, external[i].email, s),
           s \in SyncedBy(view, i) \/ (view[s] = NoUser /\ SyncedBy(view, i) = {})
    PROVE  AInv' /\ AtomicStep
<1>1. /\ UserOf(i) \in Users /\ UserOf(i).origin = i /\ i # Local /\ UserOf(i) # NoUser
      /\ UserOf(i).name = external[i].name /\ UserOf(i).email = external[i].email
    BY RowUser DEF IInv, Storable, UserOf
<1>2. view'[s] = UserOf(i) /\ \A o \in Slots \ {s} : view'[o] = view[o]
    BY DEF IInv, Tables
<1>3. \A j \in Present : UserOf(j)' = UserOf(j) /\ UserOf(j).origin = j
    BY DEF UserOf
<1>4. DistinctTable(view)'
  <2>1. \A o \in Live(view) \ {s} :
            view[o].name # external[i].name /\ view[o].email # external[i].email
      BY DEF Storable, NameTaken, EmailTaken
  <2> QED BY <1>1, <1>2, <2>1 DEF AInv, DistinctTable, Live
<1>5. \A o \in Live(users) : view[o].origin = users[o].origin
    BY <1>3 DEF AInv, OldSlots
<1>6. OldSlots'
  <2>1. s \in Live(users) => users[s].origin = i
      BY <1>5 DEF AInv, OldSlots, SyncedBy, Live
  <2> QED BY <1>1, <1>2, <1>3, <2>1 DEF AInv, OldSlots, Live, Present
<1>7. NewSlots'
  <2>1. ASSUME s \notin Live(users)
        PROVE  SyncedBy(users, i) = {}
    <3>1. CASE s \in SyncedBy(view, i)
      <4>1. PICK j \in Present : view[s] = UserOf(j) /\ SyncedBy(users, j) = {}
          BY <2>1, <3>1 DEF AInv, NewSlots, SyncedBy, Live
      <4>2. j = i
          BY <1>3, <3>1, <4>1 DEF SyncedBy
      <4> QED BY <4>1, <4>2
    <3>2. CASE SyncedBy(view, i) = {}
        BY <1>5, <3>2 DEF AInv, OldSlots, SyncedBy
    <3> QED BY <3>1, <3>2
  <2>2. \A j \in Present : SyncedBy(users, j)' = SyncedBy(users, j)
      BY DEF SyncedBy, Live
  <2> QED BY <1>2, <1>3, <2>1, <2>2 DEF AInv, NewSlots, Live, Present
<1>8. DistinctTable(users)'
    BY DEF AInv, DistinctTable, Live
<1>9. NewAlone'
  <2>1. s \notin Live(users) => \A o \in Live(view) \ {s} : view[o].origin # i
      BY DEF AInv, NewAlone, SyncedBy, Live
  <2>2. s \in Live(users) => s \in Live(view) /\ view[s].origin = i
      BY DEF AInv, OldSlots, SyncedBy, Live
  <2> QED BY <1>1, <1>2, <2>1, <2>2 DEF AInv, NewAlone, Live
<1> QED BY <1>4, <1>6, <1>7, <1>8, <1>9 DEF AInv, AtomicStep, Atomic!atomicVars

\* A table without two users of a name or an address.
LEMMA DistinctNext ==
    ASSUME DistinctTable(users)'
    PROVE  Atomic!Distinct
BY DEF DistinctTable, Live, Atomic!Distinct, Atomic!GivenNext

\* The commit is the one step of the sync.
LEMMA CommitAtomic ==
    ASSUME IInv, IInv', AInv, SyncCommit
    PROVE  AInv' /\ AtomicStep
<1> DEFINE gone == {s \in Live(view) : view[s].origin \in GoneIds /\ view[s].active}
<1>1. UNCHANGED external /\ view' = users'
    BY DEF SyncCommit
<1>2. \A s \in Slots :
         users'[s] = IF s \in gone THEN [view[s] EXCEPT !.active = FALSE] ELSE view[s]
    BY DEF SyncCommit
<1>3. \A s \in Live(view) : view[s] \in Users /\ s \in Slots
    BY DEF IInv, Tables, Live
<1>4. \A s \in Live(view) : /\ users'[s] \in Users /\ users'[s] # NoUser
                            /\ users'[s].name = view[s].name
                            /\ users'[s].email = view[s].email
                            /\ users'[s].origin = view[s].origin
  <2> SUFFICES ASSUME NEW s \in Live(view)
               PROVE  /\ users'[s] \in Users
                      /\ users'[s].name = view[s].name /\ users'[s].email = view[s].email
                      /\ users'[s].origin = view[s].origin
      BY NoneAssumption DEF Users
  <2>1. view[s] \in Users /\ users'[s] \in {view[s], [view[s] EXCEPT !.active = FALSE]}
      BY <1>2, <1>3
  <2> QED BY <2>1 DEF Users
<1>5. \A s \in Slots : s \notin Live(view) => users'[s] = NoUser
    BY <1>2 DEF Live
<1>6. DistinctTable(users')
    BY <1>4, <1>5 DEF AInv, DistinctTable, Live
<1>7. AInv'
    BY <1>1, <1>6 DEF AInv, DistinctTable, OldSlots, NewSlots, NewAlone, Live
<1>8. GoneIds = Ids \ Present /\ Atomic!There = Present /\ Atomic!Given = Live(users)
    BY DEF GoneIds, Atomic!There, Present, Atomic!Given, Live
<1>9. \A i \in Present : Atomic!ImageOf(i) = UserOf(i) /\ UserOf(i).origin = i
    BY DEF Atomic!ImageOf, UserOf
<1>10. Atomic!AddedAlone
  <2>1. \A s \in Atomic!GivenNext : s \in Live(view) /\ users'[s].origin = view[s].origin
      BY <1>4, <1>5 DEF Atomic!GivenNext
  <2> QED BY <1>8, <2>1 DEF AInv, NewAlone, Atomic!AddedAlone
<1>11. ASSUME NEW s \in Live(users)
       PROVE  Atomic!Keeps(s) \/ Atomic!SwitchesOff(s) \/ Atomic!Refreshes(s)
  <2>1. s \in Live(view) /\ s \in Slots
      BY DEF AInv, OldSlots, Live
  <2>2. CASE view[s] = users[s]
    <3>1. CASE s \in gone
        BY <1>2, <1>8, <2>1, <2>2, <3>1 DEF Atomic!SwitchesOff
    <3>2. CASE s \notin gone
        BY <1>2, <2>1, <2>2, <3>2 DEF Atomic!Keeps
    <3> QED BY <3>1, <3>2
  <2>3. CASE users[s].origin \in Present /\ view[s] = UserOf(users[s].origin)
    <3>1. s \notin gone
        BY <1>8, <1>9, <2>3
    <3> QED BY <1>2, <1>8, <1>9, <2>1, <2>3, <3>1 DEF Atomic!Refreshes
  <2> QED BY <2>2, <2>3 DEF AInv, OldSlots
<1>12. ASSUME NEW s \in Slots \ Live(users)
       PROVE  Atomic!Keeps(s) \/ Atomic!Fills(s)
  <2>1. CASE view[s] = NoUser
      BY <1>5, <2>1 DEF Atomic!Keeps, Live
  <2>2. CASE \E i \in Present : view[s] = UserOf(i) /\ SyncedBy(users, i) = {}
    <3>1. PICK i \in Present : view[s] = UserOf(i) /\ SyncedBy(users, i) = {}
        BY <2>2
    <3>2. s \notin gone
        BY <1>8, <1>9, <3>1
    <3> QED BY <1>2, <1>8, <1>9, <3>1, <3>2 DEF Atomic!Fills
  <2> QED BY <2>1, <2>2 DEF AInv, NewSlots
<1>13. ASSUME NEW s \in Atomic!GivenNext, users'[s].origin \in Ids \ Present
       PROVE  ~users'[s].active
  <2>1. s \in Live(view) /\ s \in Slots
      BY <1>5 DEF Atomic!GivenNext
  <2>2. CASE s \in gone
      BY <1>2, <1>3, <2>1, <2>2 DEF Users
  <2>3. CASE s \notin gone
      BY <1>2, <1>8, <1>13, <2>1, <2>3, <1>3 DEF Users
  <2> QED BY <2>2, <2>3
<1>14. Atomic!Distinct
    BY <1>7, DistinctNext DEF AInv
<1>15. Atomic!Synchronise
    BY <1>1, <1>8, <1>11, <1>12, <1>13, <1>14, <1>10 DEF Atomic!Synchronise, Live
<1> QED BY <1>7, <1>15 DEF AtomicStep, Atomic!AtomicNext

\* One user is written over the API.
LEMMA ApiAtomic ==
    ASSUME IInv, AInv, NEW s \in Slots, view' = users', UNCHANGED external,
           NEW u \in Users, users' = [users EXCEPT ![s] = u],
           \A o \in Live(users) \ {s} : users[o].name # u.name /\ users[o].email # u.email,
           Atomic!Writes(s) \/ Atomic!Deactivates(s)
    PROVE  AInv' /\ AtomicStep
<1>1. users'[s] = u /\ \A o \in Slots \ {s} : users'[o] = users[o]
    BY DEF IInv, Tables
<1>2. DistinctTable(users)'
    BY <1>1 DEF AInv, DistinctTable, Live
<1>3. AInv'
    BY <1>2 DEF AInv, DistinctTable, OldSlots, NewSlots, NewAlone, Live
<1>4. Atomic!ByApi(s)
    BY <1>1, <1>2, DistinctNext DEF Atomic!ByApi
<1> QED BY <1>3, <1>4 DEF AtomicStep, Atomic!AtomicNext

LEMMA NextAtomic == IInv /\ AInv /\ [Next]_vars => AInv' /\ AtomicStep
<1> SUFFICES ASSUME IInv, AInv, [Next]_vars PROVE AInv' /\ AtomicStep
    OBVIOUS
<1>1. IInv'
    BY NextIInv
<1>2. CASE SyncBegin \/ RowsDone \/ \E i \in Ids : RowOnBroken(i)
    BY <1>2, Untouched DEF SyncBegin, RowsDone, RowOnBroken, Done
<1>3. CASE SyncFails
    BY <1>1, <1>3, GivenUp DEF SyncFails
<1>4. CASE SyncCommit
    BY <1>1, <1>4, CommitAtomic
<1>5. ASSUME NEW i \in Ids, NEW s \in Slots, RowUpdates(i, s) \/ RowCreates(i, s)
      PROVE  AInv' /\ AtomicStep
  <2>1. UNCHANGED <<external, users>> /\ i \in Present
      BY <1>5 DEF RowUpdates, RowCreates, Unknown, Done, IInv
  <2>2. \/ UNCHANGED view
        \/ view' = users
        \/ /\ view' = [view EXCEPT ![s] = UserOf(i)]
           /\ Storable(view, external[i].name, external[i].email, s)
           /\ s \in SyncedBy(view, i) \/ (view[s] = NoUser /\ SyncedBy(view, i) = {})
      BY <1>5 DEF RowUpdates, RowCreates, Unknown
  <2> QED BY <1>1, <2>1, <2>2, Untouched, GivenUp, RowStored
<1>6. ASSUME NEW s \in Slots, NEW n \in Names, NEW e \in Emails, CreateUser(s, n, e)
      PROVE  AInv' /\ AtomicStep
  <2> DEFINE u == [name |-> n, email |-> e, origin |-> Local, active |-> TRUE]
  <2>1. /\ u \in Users /\ u \in Atomic!Accounts
        /\ u.name = n /\ u.email = e /\ u.origin = Local /\ u.active
      BY DEF Users, Atomic!Accounts
  <2>2. users' = [users EXCEPT ![s] = u] /\ Storable(users, n, e, s)
        /\ view' = users' /\ UNCHANGED external
      BY <1>6 DEF CreateUser
  <2> HIDE DEF u
  <2>3. Atomic!Writes(s)
      BY <2>1, <2>2 DEF Atomic!Writes, IInv, Tables
  <2> QED BY <2>1, <2>2, <2>3, ApiAtomic DEF Storable, NameTaken, EmailTaken
<1>7. ASSUME NEW s \in Slots, NEW n \in Names, NEW e \in Emails,
             NEW o \in Ids \union {Local}, NEW a \in BOOLEAN, UpdateUser(s, n, e, o, a)
      PROVE  AInv' /\ AtomicStep
  <2> DEFINE u == [name |-> n, email |-> e, origin |-> o, active |-> a]
  <2>1. u \in Users /\ u \in Atomic!Accounts /\ u.name = n /\ u.email = e
      BY DEF Users, Atomic!Accounts
  <2>2. users[s] # NoUser /\ users' = [users EXCEPT ![s] = u]
        /\ Storable(users, n, e, s) /\ view' = users' /\ UNCHANGED external
      BY <1>7 DEF UpdateUser
  <2> HIDE DEF u
  <2>3. Atomic!Writes(s)
      BY <2>1, <2>2 DEF Atomic!Writes, IInv, Tables
  <2> QED BY <2>1, <2>2, <2>3, ApiAtomic DEF Storable, NameTaken, EmailTaken
<1>8. ASSUME NEW s \in Slots, DeleteUser(s) PROVE AInv' /\ AtomicStep
  <2> DEFINE u == [users[s] EXCEPT !.active = FALSE]
  <2>1. users[s] \in Users /\ s \in Live(users) /\ users' = [users EXCEPT ![s] = u]
        /\ view' = users' /\ UNCHANGED external
      BY <1>8 DEF DeleteUser, IInv, Tables, Live
  <2>2. u \in Users /\ u.name = users[s].name /\ u.email = users[s].email
      BY <2>1 DEF Users
  <2>3. Atomic!Deactivates(s)
      BY <1>8, <2>1 DEF DeleteUser, Atomic!Deactivates, IInv, Tables
  <2>4. \A o \in Live(users) \ {s} : users[o].name # u.name /\ users[o].email # u.email
      BY <2>1, <2>2 DEF AInv, DistinctTable
  <2> HIDE DEF u
  <2> QED BY <2>1, <2>2, <2>3, <2>4, ApiAtomic
<1>9. ASSUME NEW i \in Ids, NEW row \in Rows \union {NoRow}, ExternalEdit(i, row)
      PROVE  AInv' /\ AtomicStep
  <2>1. UNCHANGED <<users, view>> /\ view = users /\ external' = [external EXCEPT ![i] = row]
      BY <1>9 DEF ExternalEdit, Edited, IInv
  <2>2. AInv'
      BY <2>1 DEF AInv, DistinctTable, OldSlots, NewSlots, NewAlone, Live
  <2>3. Atomic!BySource
      BY <2>1 DEF Atomic!BySource, Atomic!Images, Rows, IInv
  <2> QED BY <2>2, <2>3 DEF AtomicStep, Atomic!AtomicNext
<1>10. CASE UNCHANGED vars
    BY <1>10, Untouched DEF vars, session
<1> QED BY <1>2, <1>3, <1>4, <1>5, <1>6, <1>7, <1>8, <1>9, <1>10 DEF Next, Sync

(* A sync with its flushes, savepoints and rollbacks is one step of        *)
(* AtomicSync at its commit, for any number of rows and users.             *)
THEOREM AtomicSafe == Spec => ImplementsAtomic
<1>1. Init => Atomic!AtomicInit /\ AInv
    BY DEF Init, Atomic!AtomicInit, Atomic!Images, Rows, AInv, DistinctTable, OldSlots, NewSlots, NewAlone, Live
<1>2. Spec => []AInv
    BY <1>1, NextAtomic, Inductive, PTL DEF Spec
<1>3. IInv /\ AInv /\ [Next]_vars => [Atomic!AtomicNext]_(Atomic!atomicVars)
    BY NextAtomic DEF AtomicStep
<1> QED
    BY <1>1, <1>2, <1>3, Inductive, PTL DEF Spec, ImplementsAtomic, Atomic!AtomicSpec
=============================================================================
