------------------------------ MODULE BatchSession ------------------------------
(***************************************************************************)
(* Re-registration of the stored configurations, and the database session  *)
(* of the thread it runs in.                                               *)
(*                                                                         *)
(* A batch function reads the stored text of every domain (or web) and     *)
(* registers it again, one after the other, in one transaction.  Agents    *)
(* register new texts meanwhile.  The functions run in the threads of the  *)
(* scheduler's pool, whose sessions are never closed: what a function that *)
(* raises leaves open is there when the next job of the thread begins.     *)
(* They run in requests too, whose session ends with the request.          *)
(*                                                                         *)
(* A text is the number of the registration it came with.                  *)
(***************************************************************************)
EXTENDS Naturals, FiniteSets

CONSTANTS
    Domains,      \* rows of mw_was, or of mw_web
    Pool,         \* threads of the scheduler
    Requests,     \* threads of the server
    None,         \* no domain
    MaxText,      \* bound: registrations of a domain
    MaxRuns       \* bound: batch functions

ASSUME ThreadAssumption == Pool \intersect Requests = {}
ASSUME NoneAssumption   == None \notin Domains
ASSUME BoundAssumption  == MaxText \in Nat /\ MaxRuns \in Nat

Threads == Pool \union Requests
NoText == [d \in {} |-> 0]

VARIABLES
    text,      \* was_text, as committed
    \* a thread and its session
    phase,     \* "idle", "run", or "over": the function of a request returned
    todo,      \* domains the function has not come to
    cur,       \* the domain it is at
    mem,       \* texts of the objects the session holds
    put,       \* texts it has written and not committed
    locks,     \* rows it has written, hence locked
    dirty,     \* objects changed by a function that raised before their UPDATE
    broken,    \* a failed flush: every statement is refused until a rollback
    counted,   \* domains the function counts as succeeded
    undone,    \* domains counted before the last upsert of the run that failed
    \* bounds and what happened
    runs,
    newest,    \* the last text an agent registered
    window     \* domains registered while a run had their text and had not
               \* come to them

session == <<phase, todo, cur, mem, put, locks, dirty, broken, counted, undone>>
vars == <<text, session, runs, newest, window>>

Texts == 0..MaxText
Partial == UNION {[D -> Texts] : D \in SUBSET Domains}

TypeOK ==
    /\ text \in [Domains -> Texts] /\ newest \in [Domains -> Texts]
    /\ phase \in [Threads -> {"idle", "run", "over"}]
    /\ todo \in [Threads -> SUBSET Domains]
    /\ cur \in [Threads -> Domains \union {None}]
    /\ mem \in [Threads -> Partial] /\ put \in [Threads -> Partial]
    /\ locks \in [Threads -> SUBSET Domains] /\ dirty \in [Threads -> SUBSET Domains]
    /\ broken \in [Threads -> BOOLEAN] /\ undone \in [Threads -> SUBSET Domains]
    /\ counted \in [Threads -> SUBSET Domains]
    /\ runs \in 0..MaxRuns /\ window \in SUBSET Domains
    /\ \A t \in Threads : /\ DOMAIN put[t] \subseteq locks[t]
                          /\ phase[t] # "run" => mem[t] = NoText /\ counted[t] = {}

Init ==
    /\ text = [d \in Domains |-> 0] /\ newest = text
    /\ phase = [t \in Threads |-> "idle"]
    /\ todo = [t \in Threads |-> {}] /\ cur = [t \in Threads |-> None]
    /\ mem = [t \in Threads |-> NoText] /\ put = [t \in Threads |-> NoText]
    /\ locks = [t \in Threads |-> {}] /\ dirty = [t \in Threads |-> {}]
    /\ broken = [t \in Threads |-> FALSE] /\ undone = [t \in Threads |-> {}]
    /\ counted = [t \in Threads |-> {}]
    /\ runs = 0 /\ window = {}

-----------------------------------------------------------------------------
\* What a statement of the session sees, and what an object holds: the
\* identity map keeps the attributes of an object it has.
Seen(t, d)   == IF d \in DOMAIN put[t] THEN put[t][d] ELSE text[d]
Loaded(t, d) == IF d \in DOMAIN mem[t] THEN mem[t][d] ELSE Seen(t, d)
Loads(t, D)  == [d \in DOMAIN mem[t] \union D |-> Loaded(t, d)]

LockFree(t, d) == \A u \in Threads \ {t} : d \notin locks[u]
Stored(t) == [d \in Domains |-> Seen(t, d)]

\* The objects are gone when the function returns, and expire with the
\* transaction.
Remembered(t) == mem[t]                                                  \* mutant
Forgotten(t)  == NoText

\* The function has returned, and does not hold its objects any more.
Leaves(t) ==
    /\ phase' = [phase EXCEPT ![t] = IF t \in Pool THEN "idle" ELSE "over"]
    /\ todo' = [todo EXCEPT ![t] = {}] /\ cur' = [cur EXCEPT ![t] = None]
    /\ mem' = [mem EXCEPT ![t] = Forgotten(t)]
    /\ counted' = [counted EXCEPT ![t] = {}] /\ undone' = [undone EXCEPT ![t] = {}]

\* The transaction of the thread is over.
Ends(t) ==
    /\ put' = [put EXCEPT ![t] = NoText]
    /\ locks' = [locks EXCEPT ![t] = {}] /\ dirty' = [dirty EXCEPT ![t] = {}]

-----------------------------------------------------------------------------
\* update_jeus_domain with the configuration an agent has sent.  Its upsert
\* waits for the row.
Register(d) ==
    /\ newest[d] < MaxText
    /\ \A t \in Threads : d \notin locks[t]
    /\ text' = [text EXCEPT ![d] = newest[d] + 1]
    /\ newest' = [newest EXCEPT ![d] = @ + 1]
    /\ window' = IF \E t \in Threads : d \in todo[t] \intersect DOMAIN mem[t]
                                       \/ (d = cur[t] /\ d \in DOMAIN mem[t])
                 THEN window \union {d} ELSE window \ {d}
    /\ UNCHANGED <<session, runs>>

-----------------------------------------------------------------------------
\* re_register_all_was_from_text, or re_register_was_from_text for one.  On
\* a broken session it returns at its first statement.
RunBegin(t, D) ==
    /\ phase[t] = "idle" /\ ~broken[t] /\ dirty[t] = {}
    /\ runs < MaxRuns
    /\ runs' = runs + 1
    /\ phase' = [phase EXCEPT ![t] = "run"]
    /\ todo' = [todo EXCEPT ![t] = D]
    /\ mem' = [mem EXCEPT ![t] = Loads(t, D)]
    /\ UNCHANGED <<text, cur, put, locks, dirty, broken, counted, undone, newest, window>>

\* The loop comes to a domain; an expired object is loaded again.
Item(t, d) ==
    /\ phase[t] = "run" /\ cur[t] = None /\ d \in todo[t]
    /\ cur' = [cur EXCEPT ![t] = d]
    /\ todo' = [todo EXCEPT ![t] = @ \ {d}]
    /\ mem' = [mem EXCEPT ![t] = Loads(t, {d})]
    /\ UNCHANGED <<text, phase, put, locks, dirty, broken, counted, undone, runs, newest, window>>

\* create_on is written first and waits for the row; then the text is
\* upserted, or refused as there is none or its host is not registered.
CountsAll(t, done) == counted[t] \union {cur[t]}                         \* mutant
Counted(t, done)   == IF done THEN counted[t] \union {cur[t]} ELSE counted[t]
Writes(t, done) ==
    /\ cur[t] # None /\ LockFree(t, cur[t])
    /\ locks' = [locks EXCEPT ![t] = @ \union {cur[t]}]
    /\ put' = IF done THEN [put EXCEPT ![t] = [d \in DOMAIN @ \union {cur[t]} |->
                                                  IF d = cur[t] THEN mem[t][d] ELSE @[d]]]
                      ELSE put
    /\ counted' = [counted EXCEPT ![t] = Counted(t, done)]
    /\ cur' = [cur EXCEPT ![t] = None]
    /\ UNCHANGED <<text, phase, todo, mem, dirty, broken, undone, runs, newest, window>>

\* An error in the upsert is caught there, with a rollback of everything
\* the session has written; the loop goes on.
UpsertFails(t) ==
    /\ cur[t] # None
    /\ Ends(t)
    /\ mem' = [mem EXCEPT ![t] = NoText]
    /\ cur' = [cur EXCEPT ![t] = None]
    /\ undone' = [undone EXCEPT ![t] = counted[t]]
    /\ UNCHANGED <<text, phase, todo, broken, counted, runs, newest, window>>

\* An error elsewhere ends the function; the wrapper logs it.  What has
\* been written stays in the transaction.  After a text that cannot be
\* parsed, create_on is still to be written, by whatever statement the
\* session executes next.
Raises(t) ==
    /\ cur[t] # None
    /\ Leaves(t)
    /\ \/ /\ LockFree(t, cur[t])
          /\ locks' = [locks EXCEPT ![t] = @ \union {cur[t]}]
          /\ UNCHANGED dirty
       \/ /\ dirty' = [dirty EXCEPT ![t] = @ \union {cur[t]}]
          /\ UNCHANGED locks
    /\ UNCHANGED <<text, put, broken, runs, newest, window>>

\* So does a statement that fails, be it by a deadlock or a connection that
\* is lost; the database has rolled back then.  A job, or the action of a
\* view, meets it when it has to write what a function has left.
Breaks(t) ==
    /\ \/ cur[t] # None /\ Leaves(t)
       \/ dirty[t] # {} /\ UNCHANGED <<phase, todo, cur, mem, counted, undone>>
    /\ Ends(t)
    /\ broken' = [broken EXCEPT ![t] = TRUE]
    /\ UNCHANGED <<text, runs, newest, window>>

StatementFails(t) == Breaks(t)

WaitingFor(S) ==
    \A t \in S : ({cur[t]} \union dirty[t]) \intersect UNION {locks[u] : u \in S \ {t}} # {}
Deadlock(t) ==
    /\ \E S \in SUBSET Threads : t \in S /\ WaitingFor(S)
    /\ Breaks(t)

\* finish_commands and the commit of the wrapper.
RunCommits(t) ==
    /\ phase[t] = "run" /\ cur[t] = None /\ todo[t] = {}
    /\ text' = Stored(t)
    /\ Leaves(t) /\ Ends(t)
    /\ UNCHANGED <<broken, runs, newest, window>>

-----------------------------------------------------------------------------
\* The next statement of the session writes what is left to write, and
\* waits for the row.
DirtyFlushes(t) ==
    /\ ~broken[t] /\ dirty[t] # {}
    /\ \A d \in dirty[t] : LockFree(t, d)
    /\ locks' = [locks EXCEPT ![t] = @ \union dirty[t]]
    /\ dirty' = [dirty EXCEPT ![t] = {}]
    /\ UNCHANGED <<text, phase, todo, cur, mem, put, broken, counted, undone, runs, newest,
                   window>>

\* Another job of the thread commits: the finish job every minute, the run
\* of an agent command.
JobFlushes(t) == phase[t] = "idle" /\ UNCHANGED vars                     \* mutant
JobCommits(t) ==
    /\ t \in Pool /\ phase[t] = "idle" /\ ~broken[t] /\ dirty[t] = {}
    /\ text' = Stored(t)
    /\ Ends(t)
    /\ UNCHANGED <<phase, todo, cur, mem, broken, counted, undone, runs, newest, window>>

\* The run of an agent command fails, as it does on a broken session, and
\* rolls back.
AgentJobFails(t) ==
    /\ t \in Pool /\ phase[t] = "idle"
    /\ Ends(t)
    /\ broken' = [broken EXCEPT ![t] = FALSE]
    /\ UNCHANGED <<text, phase, todo, cur, mem, counted, undone, runs, newest, window>>

\* The action of a list view commits, whatever the function returned.
ViewCommits(t) ==
    /\ phase[t] = "over" /\ ~broken[t] /\ dirty[t] = {} /\ locks[t] # {}
    /\ text' = Stored(t)
    /\ Ends(t)
    /\ UNCHANGED <<phase, todo, cur, mem, broken, counted, undone, runs, newest, window>>

\* The request ends, and its session with it.
Teardown(t) ==
    /\ phase[t] = "over"
    /\ phase' = [phase EXCEPT ![t] = "idle"]
    /\ Ends(t)
    /\ broken' = [broken EXCEPT ![t] = FALSE]
    /\ UNCHANGED <<text, todo, cur, mem, counted, undone, runs, newest, window>>

\* The server is restarted: every transaction is rolled back.
Restart ==
    /\ phase' = [t \in Threads |-> "idle"]
    /\ todo' = [t \in Threads |-> {}] /\ cur' = [t \in Threads |-> None]
    /\ mem' = [t \in Threads |-> NoText] /\ put' = [t \in Threads |-> NoText]
    /\ locks' = [t \in Threads |-> {}] /\ dirty' = [t \in Threads |-> {}]
    /\ broken' = [t \in Threads |-> FALSE] /\ undone' = [t \in Threads |-> {}]
    /\ counted' = [t \in Threads |-> {}]
    /\ UNCHANGED <<text, runs, newest, window>>

-----------------------------------------------------------------------------
Run(t) ==
    \/ \E D \in {Domains} \union {{d} : d \in Domains} : RunBegin(t, D)
    \/ \E d \in Domains : Item(t, d)
    \/ Writes(t, TRUE) \/ Writes(t, FALSE) \/ UpsertFails(t)
    \/ Raises(t) \/ StatementFails(t) \/ Deadlock(t) \/ RunCommits(t)

Other(t) == DirtyFlushes(t) \/ JobCommits(t) \/ AgentJobFails(t) \/ ViewCommits(t) \/ Teardown(t)

Next ==
    \/ \E d \in Domains : Register(d)
    \/ \E t \in Threads : Run(t) \/ Other(t)
    \/ Restart

Spec == Init /\ [][Next]_vars

(* The loop goes on, a row that comes free again and again is locked, a    *)
(* deadlock is detected, requests end, and each thread of the pool gets    *)
(* the finish job time after time.                                         *)
Fairness ==
    /\ WF_vars(\E t \in Threads : Deadlock(t))
    /\ \A t \in Threads :
          /\ WF_vars(\E d \in Domains : Item(t, d))
          /\ SF_vars(Writes(t, TRUE) \/ Writes(t, FALSE))
          /\ WF_vars(RunCommits(t))
    /\ \A t \in Requests : WF_vars(Teardown(t))
    /\ \A t \in Pool : SF_vars(DirtyFlushes(t) \/ JobCommits(t))

FairSpec == Spec /\ Fairness
-----------------------------------------------------------------------------
(* The stored text is the last one an agent registered, unless that        *)
(* registration fell between a run's reading of the text and its coming to *)
(* the domain: then the run puts the old text back, and the history does   *)
(* not tell (batch.py:285-300, agent_dml.py:143).  However late a commit   *)
(* of another job stores what a failed run has left, nothing newer is lost *)
(* by it.                                                                  *)
RevertsOnlyInWindow == \A d \in Domains : text[d] # newest[d] => d \in window

(* What a run reports as succeeded and will not store are exactly the      *)
(* domains it had counted when the last upsert failed: its rollback takes  *)
(* all of them along, and the summary still counts them, whatever the      *)
(* session held before and whatever comes after (batch.py:292-296,         *)
(* jeus_dml.py:190).                                                       *)
ReportIsStored ==
    \A t \in Threads : phase[t] = "run" => counted[t] \ DOMAIN put[t] = undone[t]

(* No row stays locked: neither by runs that wait for each other, nor by   *)
(* what a failed function has left in its session, so the agents can       *)
(* register the domain again (batch.py:44, agent.py:396).                  *)
LockedIsReleased ==
    \A d \in Domains : (\E t \in Threads : d \in locks[t]) ~> (\A t \in Threads : d \notin locks[t])
=============================================================================
