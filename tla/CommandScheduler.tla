--------------------------- MODULE CommandScheduler ---------------------------
(***************************************************************************)
(* The life of a scheduled command: the master row, its job in the         *)
(* persistent job store, and the three flags that end it.                  *)
(*                                                                         *)
(* The job store commits on its own: adding or removing a job is not part  *)
(* of the transaction that inserts, cancels or deletes the master.  A job  *)
(* is submitted to a thread first and moved to its next run time (or       *)
(* removed) after that.  After a start a job of its own reads the commands *)
(* that should have a job and then creates the missing ones, next to the   *)
(* requests the server takes already.                                      *)
(*                                                                         *)
(* Time is counted in ticks, of the order of the minutes that the finish   *)
(* job and the misfire grace time use.                                     *)
(***************************************************************************)
EXTENDS Integers, FiniteSets

CONSTANTS
    Commands,     \* scheduled command masters, agent commands and ServerFunc
    Server,       \* the commands whose type is ServerFunc
    Kind,         \* Kind[c]: IMMEDIATE (ServerFunc only), ONETIME or PERIODIC
    ExeAt,        \* time_to_exe
    StopAt,       \* time_to_stop; after MaxTime when there is none
    Cycle,        \* cycle_to_exe of a periodic command
    Grace,        \* misfire_grace_time
    Workers,      \* server processes, each with its own scheduler thread
    MaxTime,      \* bound: the clock
    MaxCrash      \* bound: restarts of the server

ASSUME ServerAssumption == Server \subseteq Commands
ASSUME KindAssumption   == Kind \in [Commands -> {"IMMEDIATE", "ONETIME", "PERIODIC"}]
                           /\ \A c \in Commands : Kind[c] = "IMMEDIATE" => c \in Server
ASSUME TimeAssumption   == /\ ExeAt \in [Commands -> Nat] /\ StopAt \in [Commands -> Nat]
                           /\ Cycle \in Nat \ {0} /\ Grace \in Nat
                           /\ MaxTime \in Nat /\ MaxCrash \in Nat

NoJob == -1
Never == -1
NoClaim == <<>>

VARIABLES
    now, up, crashes,
    \* the database
    rows,        \* committed masters
    published,   \* publish_yn = YES
    finished,    \* finished_yn = YES
    mqtt,        \* edited to command_sender = MQTT, hence IMMEDIATE
    withdrawn,   \* cancel_yn = YES
    lastRun,     \* create_on of the last detail rows
    job,         \* next run time of the job, NoJob when there is none
    \* the processes
    tx,          \* the open request: "none", "insert", "cancel", "delete", "over"
    claimed,     \* job submitted by a scheduler thread and not yet moved on
    running,     \* jobs a worker thread is executing
    booting,     \* started, and job_ag_start_jobs has not read the commands
    toStart,     \* commands job_ag_start_jobs has read and not reached
    \* what happened
    fires,       \* <<run time, worker>> of the jobs that were submitted to run
    runs,        \* runs that committed
    missed,      \* run times that misfired
    cancelled,   \* committed cancels
    torn,        \* job lost by a request or a start that failed, until a start reads
                 \* the row
    raced,       \* cancelled while a start was reading or about to create the job
    halfway      \* the server died between submitting a job and moving it on

store == <<rows, published, finished, mqtt, withdrawn, lastRun>>
process == <<tx, claimed, running, booting, toStart>>
history == <<fires, runs, missed, cancelled, torn, raced, halfway>>
vars == <<now, up, crashes, store, job, process, history>>

Times == 0..MaxTime
TypeOK ==
    /\ now \in Times /\ up \in BOOLEAN /\ crashes \in 0..MaxCrash
    /\ rows \in SUBSET Commands /\ published \in SUBSET Commands
    /\ finished \in SUBSET Commands /\ mqtt \in SUBSET Commands
    /\ withdrawn \in SUBSET Commands /\ booting \in BOOLEAN
    /\ lastRun \in [Commands -> Times \union {Never}]
    /\ job \in [Commands -> Nat \union {NoJob}]
    /\ tx \in [Commands -> {"none", "insert", "cancel", "delete", "over"}]
    /\ claimed \in [Workers -> {NoClaim} \union (Commands \X Nat)]
    /\ running \in SUBSET (Workers \X Commands)
    /\ toStart \in SUBSET Commands
    /\ fires \in [Commands -> SUBSET (Nat \X Workers)]
    /\ runs \in [Commands -> Nat]
    /\ missed \in SUBSET Commands /\ cancelled \in SUBSET Commands
    /\ torn \in SUBSET Commands /\ raced \in SUBSET Commands
    /\ halfway \in SUBSET Commands
    /\ \A c \in Commands : Kind[c] = "PERIODIC" => job[c] <= StopAt[c]

Init ==
    /\ now = 0 /\ up = TRUE /\ crashes = 0
    /\ rows = {} /\ published = {} /\ finished = {} /\ mqtt = {} /\ withdrawn = {}
    /\ lastRun = [c \in Commands |-> Never]
    /\ job = [c \in Commands |-> NoJob]
    /\ tx = [c \in Commands |-> "none"]
    /\ claimed = [w \in Workers |-> NoClaim]
    /\ running = {} /\ booting = FALSE /\ toStart = {}
    /\ fires = [c \in Commands |-> {}]
    /\ runs = [c \in Commands |-> 0]
    /\ missed = {} /\ cancelled = {} /\ torn = {} /\ raced = {} /\ halfway = {}

PeriodicType(c) == IF c \in mqtt THEN "IMMEDIATE" ELSE Kind[c]
Later(s, t) == IF s > t THEN s ELSE t

-----------------------------------------------------------------------------
(* job_ag_create_job: a start time in the past becomes "in 5 seconds", a   *)
(* periodic command continues its cycle, and a job that exists is kept.    *)
StartTime(c) ==
    IF Kind[c] = "PERIODIC" /\ lastRun[c] # Never
    THEN Later(Later(now, ExeAt[c]), lastRun[c] + Cycle)
    ELSE Later(now, ExeAt[c])

JobOnlyAhead(c) ==                    \* mutant: no normalisation of a past start
    [job EXCEPT ![c] = IF @ # NoJob THEN @ ELSE IF ExeAt[c] >= now THEN ExeAt[c] ELSE NoJob]
WithJob(c) ==
    [job EXCEPT ![c] = IF @ # NoJob THEN @
                       ELSE IF Kind[c] = "PERIODIC" /\ StartTime(c) > StopAt[c] THEN NoJob
                       ELSE StartTime(c)]

\* The job store of a process is locked while its scheduler handles a job.
StoreFree == \E w \in Workers : claimed[w] = NoClaim

\* The flush of a new master: the after_insert hook creates the job at once.
InsertFlush(c) ==
    /\ up /\ tx[c] = "none" /\ c \notin rows /\ StoreFree
    /\ tx' = [tx EXCEPT ![c] = "insert"]
    /\ job' = WithJob(c)
    /\ UNCHANGED <<now, up, crashes, store, claimed, running, booting, toStart, history>>

InsertCommit(c) ==
    /\ tx[c] = "insert"
    /\ rows' = rows \union {c}
    /\ tx' = [tx EXCEPT ![c] = "none"]
    /\ UNCHANGED <<now, up, crashes, published, finished, mqtt, withdrawn, lastRun, job,
                   claimed, running, booting, toStart, history>>

\* The transaction fails; command_id is not used again, its job remains.
InsertFails(c) ==
    /\ tx[c] = "insert"
    /\ tx' = [tx EXCEPT ![c] = "over"]
    /\ UNCHANGED <<now, up, crashes, store, job, claimed, running, booting, toStart, history>>

\* The edit form with command_sender = MQTT: the before_update hook makes
\* the row IMMEDIATE; the job stays as it is.
EditToMqtt(c) ==
    /\ up /\ tx[c] = "none" /\ c \in rows \ (finished \union mqtt)
    /\ mqtt' = mqtt \union {c}
    /\ UNCHANGED <<now, up, crashes, rows, published, finished, withdrawn, lastRun, job,
                   process, history>>

\* The edit form with another cancel_yn, which only a start looks at.
EditCancelYn(c) ==
    /\ up /\ tx[c] = "none" /\ c \in rows \ finished
    /\ withdrawn' \in {withdrawn \union {c}, withdrawn \ {c}}
    /\ UNCHANGED <<now, up, crashes, rows, published, finished, mqtt, lastRun, job,
                   process, history>>

\* CommandMasterAliveView.cancel_commands removes the job of an agent
\* command first ...
CancelRemove(c) ==
    /\ up /\ tx[c] = "none" /\ c \in rows \ finished /\ StoreFree
    /\ tx' = [tx EXCEPT ![c] = "cancel"]
    /\ job' = IF c \in Server THEN job ELSE [job EXCEPT ![c] = NoJob]
    /\ raced' = raced \union ({c} \intersect toStart)
    /\ UNCHANGED <<now, up, crashes, store, claimed, running, booting, toStart,
                   fires, runs, missed, cancelled, torn, halfway>>

\* ... and then commits finished_yn = YES.
CancelCommit(c) ==
    /\ tx[c] = "cancel"
    /\ finished' = finished \union {c}
    /\ cancelled' = cancelled \union {c}
    /\ tx' = [tx EXCEPT ![c] = "none"]
    /\ UNCHANGED <<now, up, crashes, rows, published, mqtt, withdrawn, lastRun, job, claimed,
                   running, booting, toStart, fires, runs, missed, torn, raced, halfway>>

\* A master without detail rows is deleted; after_delete removes both jobs.
DeleteFlush(c) ==
    /\ up /\ tx[c] = "none" /\ c \in rows /\ lastRun[c] = Never /\ StoreFree
    /\ tx' = [tx EXCEPT ![c] = "delete"]
    /\ job' = [job EXCEPT ![c] = NoJob]
    /\ UNCHANGED <<now, up, crashes, store, claimed, running, booting, toStart, history>>

DeleteCommit(c) ==
    /\ tx[c] = "delete"
    /\ rows' = rows \ {c}
    /\ tx' = [tx EXCEPT ![c] = "over"]
    /\ UNCHANGED <<now, up, crashes, published, finished, mqtt, withdrawn, lastRun, job,
                   claimed, running, booting, toStart, history>>

\* The commit of a cancel or a delete fails after its job was removed.
RemoveFails(c) ==
    /\ tx[c] \in {"cancel", "delete"}
    /\ tx' = [tx EXCEPT ![c] = "none"]
    /\ torn' = torn \union {c}
    /\ UNCHANGED <<now, up, crashes, store, job, claimed, running, booting, toStart,
                   fires, runs, missed, cancelled, raced, halfway>>

-----------------------------------------------------------------------------
(***************************************************************************)
(* The scheduler thread of a process (APScheduler): due jobs are read      *)
(* without a lock on their rows, submitted, and moved to their next time.  *)
(* Missed run times of an interval are coalesced into the last one.        *)
(***************************************************************************)
Due(c) == job[c] # NoJob /\ job[c] <= now

LastBefore(c, t) == job[c] + ((t - job[c]) \div Cycle) * Cycle
RunTime(c) ==
    IF Kind[c] = "PERIODIC" THEN LastBefore(c, IF now < StopAt[c] THEN now ELSE StopAt[c])
                            ELSE job[c]

NextRun(c, t) == IF Kind[c] = "PERIODIC" /\ t + Cycle <= StopAt[c] THEN t + Cycle ELSE NoJob

Submit(w, c) ==
    /\ up /\ claimed[w] = NoClaim /\ Due(c)
    /\ claimed' = [claimed EXCEPT ![w] = <<c, RunTime(c)>>]
    /\ IF now - RunTime(c) > Grace
       THEN missed' = missed \union {c} /\ UNCHANGED <<running, fires>>
       ELSE IF <<w, c>> \in running        \* max_instances = 1
       THEN UNCHANGED <<missed, running, fires>>
       ELSE /\ running' = running \union {<<w, c>>}
            /\ fires' = [fires EXCEPT ![c] = @ \union {<<RunTime(c), w>>}]
            /\ UNCHANGED missed
    /\ UNCHANGED <<now, up, crashes, store, job, tx, booting, toStart, runs, cancelled, torn, raced, halfway>>

Advance(w) ==
    /\ claimed[w] # NoClaim
    /\ LET c == claimed[w][1] IN
       job' = [job EXCEPT ![c] = IF @ = NoJob THEN @ ELSE NextRun(c, claimed[w][2])]
    /\ claimed' = [claimed EXCEPT ![w] = NoClaim]
    /\ UNCHANGED <<now, up, crashes, store, tx, running, booting, toStart, history>>

\* create_command_detail_by_sch or a batch function, and its commit.  An
\* agent command needs its master row.
RunCommits(w, c) ==
    /\ <<w, c>> \in running
    /\ c \in Server \union rows
    /\ running' = running \ {<<w, c>>}
    /\ runs' = [runs EXCEPT ![c] = @ + 1]
    /\ published' = published \union ({c} \intersect rows)
    /\ \E t \in {lastRun[c], now} :      \* no detail row while one is outstanding
          lastRun' = IF c \in Server THEN lastRun ELSE [lastRun EXCEPT ![c] = t]
    /\ UNCHANGED <<now, up, crashes, rows, finished, mqtt, withdrawn, job, tx, claimed, booting, toStart,
                   fires, missed, cancelled, torn, raced, halfway>>

\* Any exception is caught and nothing is committed.
RunFails(w, c) ==
    /\ <<w, c>> \in running
    /\ running' = running \ {<<w, c>>}
    /\ UNCHANGED <<now, up, crashes, store, job, tx, claimed, booting, toStart, history>>

\* finish_commands_by_scheduler, every minute.
FinishesEarly == {c \in rows \ finished :            \* mutant: time_to_stop ignored
    \/ PeriodicType(c) = "IMMEDIATE" /\ c \in published
    \/ PeriodicType(c) = "ONETIME" /\ ExeAt[c] < now
    \/ PeriodicType(c) = "PERIODIC"}
FinishesAtStop == {c \in rows \ finished :           \* mutant: <= for <
    \/ PeriodicType(c) = "IMMEDIATE" /\ c \in published
    \/ PeriodicType(c) = "ONETIME" /\ ExeAt[c] <= now
    \/ PeriodicType(c) = "PERIODIC" /\ StopAt[c] <= now}
ToFinish == {c \in rows \ finished :
    \/ PeriodicType(c) = "IMMEDIATE" /\ c \in published
    \/ PeriodicType(c) = "ONETIME" /\ ExeAt[c] < now
    \/ PeriodicType(c) = "PERIODIC" /\ StopAt[c] < now}

FinishCommands ==
    /\ up
    /\ ToFinish # {}
    /\ finished' = finished \union ToFinish
    /\ UNCHANGED <<now, up, crashes, rows, published, mqtt, withdrawn, lastRun, job, process, history>>

-----------------------------------------------------------------------------
(* The server process.                                                     *)
Crash ==
    /\ up /\ crashes < MaxCrash
    /\ up' = FALSE /\ crashes' = crashes + 1
    /\ torn' = torn \union {c \in Commands : tx[c] \in {"cancel", "delete"}}
                    \union {c \in toStart : job[c] = NoJob}
    /\ tx' = [c \in Commands |-> IF tx[c] \in {"insert", "over"} THEN "over" ELSE "none"]
    /\ halfway' = halfway \union {c \in Commands : \E w \in Workers :
                                     claimed[w] # NoClaim /\ claimed[w][1] = c}
    /\ claimed' = [w \in Workers |-> NoClaim]
    /\ running' = {} /\ booting' = FALSE /\ toStart' = {}
    /\ UNCHANGED <<now, store, job, fires, runs, missed, cancelled, raced>>

\* A run of c is still to come.
Ahead(c) == \/ Kind[c] = "ONETIME" /\ now < ExeAt[c]
            \/ Kind[c] = "PERIODIC" /\ ExeAt[c] <= StopAt[c] /\ now + Cycle <= StopAt[c]

StartsFinished == {c \in rows \ withdrawn :          \* mutant: finished_yn ignored
    \/ PeriodicType(c) = "ONETIME" /\ ExeAt[c] > now
    \/ PeriodicType(c) = "PERIODIC" /\ StopAt[c] > now}
StartsPastOnetime ==                                 \* mutant: time_to_exe ignored
    {c \in rows \ (finished \union withdrawn) :
        \/ PeriodicType(c) = "ONETIME"
        \/ PeriodicType(c) = "PERIODIC" /\ StopAt[c] > now}
StartsOnetimeOnly ==                                 \* mutant: PERIODIC forgotten
    {c \in rows \ (finished \union withdrawn) : PeriodicType(c) = "ONETIME" /\ ExeAt[c] > now}
\* get_commands: what job_ag_start_jobs reads.
Unfinished == {c \in rows \ (finished \union withdrawn) :
    \/ PeriodicType(c) = "ONETIME" /\ ExeAt[c] > now
    \/ PeriodicType(c) = "PERIODIC" /\ StopAt[c] > now}

Start ==
    /\ ~up
    /\ up' = TRUE /\ booting' = TRUE
    /\ UNCHANGED <<now, crashes, store, job, tx, claimed, running, toStart, history>>

StartReads ==
    /\ booting
    /\ booting' = FALSE /\ toStart' = Unfinished
    /\ torn' = {c \in torn : c \in withdrawn \/ ~Ahead(c)}
    /\ raced' = raced \union {c \in Unfinished : tx[c] = "cancel"}
    /\ UNCHANGED <<now, up, crashes, store, job, tx, claimed, running,
                   fires, runs, missed, cancelled, halfway>>

StartJob(c) ==
    /\ up /\ c \in toStart /\ StoreFree
    /\ toStart' = toStart \ {c}
    /\ job' = WithJob(c)
    /\ UNCHANGED <<now, up, crashes, store, tx, claimed, running, booting, history>>

\* A job that cannot be created ends the loop: nothing catches the error.
StartFails ==
    /\ toStart # {}
    /\ toStart' = {}
    /\ torn' = torn \union {c \in toStart : job[c] = NoJob}
    /\ UNCHANGED <<now, up, crashes, store, job, tx, claimed, running, booting,
                   fires, runs, missed, cancelled, raced, halfway>>

\* A request, a start and the scheduler's handling of the due jobs take
\* less than a tick; a running job may take longer.
Tick ==
    /\ now < MaxTime
    /\ \A c \in Commands : tx[c] \in {"none", "over"}
    /\ \A w \in Workers : claimed[w] = NoClaim
    /\ up => ~booting /\ toStart = {} /\ \A c \in Commands : ~Due(c)
    /\ now' = now + 1
    /\ UNCHANGED <<up, crashes, store, job, process, history>>

Request(c) ==
    \/ InsertFlush(c) \/ InsertCommit(c) \/ InsertFails(c) \/ EditToMqtt(c) \/ EditCancelYn(c)
    \/ CancelRemove(c) \/ CancelCommit(c) \/ DeleteFlush(c) \/ DeleteCommit(c)
    \/ RemoveFails(c)

Scheduler(w) ==
    \/ Advance(w)
    \/ \E c \in Commands : Submit(w, c) \/ RunCommits(w, c) \/ RunFails(w, c)

Next ==
    \/ \E c \in Commands : Request(c) \/ StartJob(c)
    \/ \E w \in Workers : Scheduler(w)
    \/ FinishCommands \/ Crash \/ Start \/ StartReads \/ StartFails \/ Tick

Spec == Init /\ [][Next]_vars

(* A request that has begun ends, the server is restarted, its scheduler   *)
(* and the cron job run, and time passes.                                  *)
Fairness ==
    /\ WF_vars(Tick) /\ WF_vars(Start) /\ WF_vars(StartReads) /\ WF_vars(FinishCommands)
    /\ \A c \in Commands :
          /\ WF_vars(StartJob(c))
          /\ WF_vars(InsertCommit(c) \/ InsertFails(c) \/ CancelCommit(c)
                     \/ DeleteCommit(c) \/ RemoveFails(c))
    /\ \A w \in Workers :
          /\ WF_vars(Advance(w))
          /\ \A c \in Commands : /\ WF_vars(Submit(w, c))
                                 /\ WF_vars(RunCommits(w, c) \/ RunFails(w, c))

FairSpec == Spec /\ Fairness
-----------------------------------------------------------------------------
(* A finished command has no run ahead: neither the finish job nor a       *)
(* cancel flags a command whose job will fire again.  The exceptions are   *)
(* the code's: cancel_commands does not remove the job of a ServerFunc     *)
(* command (views/agent.py:396), a command edited to MQTT keeps its old    *)
(* job, and a start may create the job of a command that is cancelled      *)
(* just then.                                                              *)
FinishedIsOver ==
    \A c \in finished \ (mqtt \union raced \union (Server \intersect cancelled)) :
        job[c] = NoJob \/ job[c] <= now

(* After a committed cancel of an agent command no run of it begins, over  *)
(* restarts of the server too.                                             *)
CancelIsFinal ==
    [][\A c \in cancelled \ (Server \union raced) : fires'[c] = fires[c]]_vars

(* A ONETIME command runs once, unless the server died while its scheduler *)
(* was between submitting the job and removing it.                         *)
OnceUnlessHalfway ==
    \A c \in Commands \ halfway : Kind[c] = "ONETIME" => runs[c] <= 1

(* Every command that still has runs ahead has a job once the server has   *)
(* started and read it, unless the commit of a cancel or a delete, or the  *)
(* start itself, has failed since.                                         *)
AheadHasJob ==
    \A c \in rows \ (finished \union mqtt \union torn \union toStart) :
        up /\ tx[c] = "none" /\ Ahead(c) => job[c] # NoJob

(* A ONETIME command fires or misses its time, whatever restarts happen;   *)
(* only a delete, a cancel, a failed one of these, a failed start or an    *)
(* edit prevent it.                                                        *)
OnetimeFires ==
    \A c \in Commands :
        Kind[c] = "ONETIME" /\ c \in rows
          ~> \/ fires[c] # {} \/ c \in missed \union cancelled \union torn \union mqtt
             \/ c \notin rows

(* Runs begin inside a command's period and in their order, one only       *)
(* unless it is periodic, none after a cancel, and a command ends for good *)
(* and only when nothing is left to begin: however jobs are removed, put   *)
(* back at a start, misfired and coalesced, every step is one of           *)
(* CommandLife.  It takes one scheduler process.                           *)
Life == INSTANCE CommandLife
            WITH gone <- {c \in Commands : tx[c] = "over"},
                 off <- cancelled \ (Server \union raced), again <- halfway
ImplementsLife == Life!LifeSpec
=============================================================================
