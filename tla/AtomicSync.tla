------------------------------ MODULE AtomicSync ------------------------------
(***************************************************************************)
(* What the IDP promises of its users: a sync with the external table is   *)
(* one step that changes users only in the ways named here, and the API    *)
(* changes one user at a time, in any column.  There are no sessions,      *)
(* flushes, savepoints or rollbacks, and no order of the external rows.    *)
(*                                                                         *)
(* A sync may store fewer rows than there are (names or addresses may be   *)
(* taken), so which rows it stores is open.  What it may not do is change  *)
(* a user in any other way.                                                *)
(***************************************************************************)

CONSTANTS Ids, Names, Emails, Slots, NoEmail, NoUser, NoRow, Local

VARIABLES
    external,     \* the rows of the source
    users         \* idp_user

Images == [name : Names, email : Emails \union {NoEmail}]   \* of a row
atomicVars == <<external, users>>

Given == {s \in Slots : users[s] # NoUser}
GivenNext == {s \in Slots : users'[s] # NoUser}
There == {i \in Ids : external[i] # NoRow}

\* The user of row i as the source has it.
ImageOf(i) == [name |-> external[i].name, email |-> external[i].email,
               origin |-> i, active |-> TRUE]

\* No two users afterwards share a name or an address.
Distinct ==
    \A s, o \in GivenNext :
        users'[s].name = users'[o].name \/ users'[s].email = users'[o].email => s = o

-----------------------------------------------------------------------------
(* What a sync does to the user in slot s.                                 *)
Keeps(s) == users'[s] = users[s]
SwitchesOff(s) ==
    /\ users[s].origin \in Ids \ There
    /\ users'[s] = [users[s] EXCEPT !.active = FALSE]
Refreshes(s) ==
    /\ users[s].origin \in There
    /\ users'[s] = ImageOf(users[s].origin)

\* A free slot stays free or takes the user of a row.
Fills(s) == \E i \in There : users'[s] = ImageOf(i)

\* A user that a sync adds is the only one of its row.
AddedAlone ==
    \A s \in GivenNext \ Given, o \in GivenNext :
        users'[o].origin = users'[s].origin => o = s

Synchronise ==
    /\ \A s \in Slots :
          IF s \in Given THEN Keeps(s) \/ SwitchesOff(s) \/ Refreshes(s)
                         ELSE Keeps(s) \/ Fills(s)
    /\ \A s \in GivenNext : users'[s].origin \in Ids \ There => ~users'[s].active
    /\ Distinct /\ AddedAlone
    /\ UNCHANGED external

(* What the API does: a new user is local and active.                      *)
Accounts == [name : Names, email : Emails, origin : Ids \union {Local}, active : BOOLEAN]

Writes(s) ==
    /\ users'[s] \in Accounts
    /\ users[s] = NoUser => users'[s].origin = Local /\ users'[s].active
Deactivates(s) == users[s] # NoUser /\ users'[s] = [users[s] EXCEPT !.active = FALSE]

ByApi(s) ==
    /\ Writes(s) \/ Deactivates(s)
    /\ users' = [users EXCEPT ![s] = users'[s]]
    /\ Distinct /\ UNCHANGED external

BySource ==
    \E i \in Ids : /\ external'[i] \in Images \union {NoRow}
                   /\ external' = [external EXCEPT ![i] = external'[i]]
                   /\ UNCHANGED users

AtomicInit ==
    /\ external \in [Ids -> Images \union {NoRow}]
    /\ users = [s \in Slots |-> NoUser]

AtomicNext == Synchronise \/ (\E s \in Slots : ByApi(s)) \/ BySource

AtomicSpec == AtomicInit /\ [][AtomicNext]_atomicVars
=============================================================================
