------------------------ MODULE CommandScheduler_proofs ------------------------
(***************************************************************************)
(* For every set of commands with any times, cycle and grace, any number   *)
(* of workers and restarts: a finished or cancelled command does not run   *)
(* again and a command with runs ahead has a job.  With one worker a       *)
(* ONETIME command runs once, and every step is one of CommandLife.        *)
(*                                                                         *)
(* The argument: a job is put back for a command the start has read only,  *)
(* and within the tick it was read in, so it is one with a run ahead       *)
(* (StartAhead); cancel and finish leave no such command without a trace   *)
(* (CancelledIsOut, FinishedWhy).                                          *)
(***************************************************************************)
EXTENDS CommandScheduler, TLAPS

\* Nothing is left of the process while it is down, and a start has no
\* command to go through before it has read them.
DownInv ==
    /\ ~up => /\ ~booting /\ running = {}
              /\ \A w \in Workers : claimed[w] = NoClaim
              /\ \A c \in Commands : tx[c] \in {"none", "over"}
    /\ ~up \/ booting => toStart = {}

\* Where the row is while a request is open, and after it.
RowInv ==
    /\ published \subseteq rows \union {c \in Commands : tx[c] = "over"}
    /\ \A c \in Commands :
          /\ tx[c] \in {"insert", "over"} => c \notin rows
          /\ tx[c] \in {"cancel", "delete"} => c \in rows
          /\ c \in finished \union cancelled \union torn \union toStart =>
                c \in rows \/ tx[c] = "over"
          /\ lastRun[c] <= now

\* A command that was never inserted has left no trace.
Fresh ==
    \A c \in Commands \ rows : tx[c] = "none" =>
        /\ job[c] = NoJob /\ c \notin toStart /\ lastRun[c] = Never /\ runs[c] = 0
        /\ \A w \in Workers : /\ <<w, c>> \notin running
                              /\ claimed[w] = NoClaim \/ claimed[w][1] # c

\* What a scheduler has submitted was due.
ClaimInv ==
    \A w \in Workers : claimed[w] # NoClaim =>
        LET c == claimed[w][1] IN
        /\ claimed[w][2] <= now
        /\ Kind[c] = "ONETIME" => ExeAt[c] <= now
        /\ Kind[c] = "PERIODIC" => claimed[w][2] <= StopAt[c]

\* A job that is not periodic starts at the command's time, or at once.
JobInv ==
    \A c \in Commands : job[c] # NoJob /\ Kind[c] # "PERIODIC" =>
        job[c] >= ExeAt[c] /\ (job[c] <= ExeAt[c] \/ job[c] <= now)

StartAhead ==
    \A c \in toStart : \/ Kind[c] = "ONETIME" /\ ExeAt[c] > now
                       \/ Kind[c] = "PERIODIC" /\ StopAt[c] > now

\* An IMMEDIATE command that was submitted has no run ahead.
ImmediateInv ==
    \A c \in Commands : Kind[c] = "IMMEDIATE" =>
        /\ c \in published => job[c] = NoJob \/ job[c] <= now
        /\ \A w \in Workers : <<w, c>> \in running => job[c] = NoJob \/ job[c] <= now

\* A cancelled agent command has no job and gets none.
CancelledIsOut ==
    /\ cancelled \subseteq finished
    /\ \A c \in Commands \ (Server \union raced) : c \in cancelled \/ tx[c] = "cancel" =>
          job[c] = NoJob /\ c \notin toStart

FinishedWhy ==
    \A c \in finished \ (mqtt \union raced \union cancelled) :
        \/ Kind[c] = "IMMEDIATE" /\ c \in published
        \/ Kind[c] = "ONETIME" /\ ExeAt[c] < now
        \/ Kind[c] = "PERIODIC" /\ StopAt[c] < now

\* AheadHasJob, while the server is down too, and the same of a row not yet
\* committed.
AheadInv ==
    \A c \in Commands \ (finished \union mqtt \union torn \union toStart) :
        (c \in rows /\ tx[c] = "none") \/ tx[c] = "insert" => (Ahead(c) => job[c] # NoJob)

IInv ==
    /\ TypeOK /\ DownInv /\ RowInv /\ Fresh /\ ClaimInv /\ JobInv /\ StartAhead
    /\ ImmediateInv /\ CancelledIsOut /\ FinishedWhy /\ AheadInv

\* A ONETIME command that was submitted has no job, or is being moved on.
OnceInv ==
    \A c \in Commands \ halfway : Kind[c] = "ONETIME" =>
        \A w \in Workers :
            /\ runs[c] > 0 \/ <<w, c>> \in running =>
                  /\ ExeAt[c] <= now
                  /\ job[c] = NoJob \/ (claimed[w] # NoClaim /\ claimed[w][1] = c)
            /\ <<w, c>> \in running => runs[c] = 0
            /\ runs[c] <= 1

Step == [Next]_vars
-----------------------------------------------------------------------------
(* Run times and start times. *)
LEMMA DivIs ==
  ASSUME NEW n \in Nat, NEW k \in Nat \ {0}
  PROVE  (n \div k) * k \in Nat /\ (n \div k) * k <= n
<1>1. n = k * (n \div k) + (n % k) /\ n % k \in 0..(k - 1) /\ n \div k \in Nat
  BY Z3
<1>2. DEFINE q == n \div k
<1>3. q \in Nat /\ q * k \in Nat
  BY <1>1
<1>4. k * q = q * k
  BY <1>3
<1>5. QED
  BY <1>1, <1>3, <1>4

\* A due job is run for its own time, or for a later one of its interval,
\* not after now and not after the end of the interval.
LEMMA RunTimeIs ==
  ASSUME TypeOK, NEW c \in Commands, Due(c)
  PROVE  /\ RunTime(c) \in Nat /\ RunTime(c) <= now
         /\ Kind[c] = "PERIODIC" => RunTime(c) <= StopAt[c]
         /\ Kind[c] # "PERIODIC" => RunTime(c) = job[c]
<1>1. job[c] \in Nat /\ job[c] <= now /\ now \in Nat /\ StopAt[c] \in Nat
  BY TimeAssumption DEF TypeOK, Due, Times
<1>2. CASE Kind[c] # "PERIODIC"
  BY <1>1, <1>2 DEF RunTime
<1>3. CASE Kind[c] = "PERIODIC"
  <2> DEFINE t == IF now < StopAt[c] THEN now ELSE StopAt[c]
             n == t - job[c]
  <2>1. job[c] <= StopAt[c]
    BY <1>3 DEF TypeOK
  <2>2. n \in Nat /\ t <= now /\ t <= StopAt[c] /\ t = job[c] + n
    BY <1>1, <2>1
  <2>3. (n \div Cycle) * Cycle \in Nat /\ (n \div Cycle) * Cycle <= n
    BY <2>2, DivIs, TimeAssumption
  <2>4. RunTime(c) = job[c] + (n \div Cycle) * Cycle
    BY <1>3 DEF RunTime, LastBefore
  <2> HIDE DEF n, t
  <2>5. QED
    BY <1>1, <1>3, <2>2, <2>3, <2>4
<1>4. QED
  BY <1>2, <1>3

\* job_ag_create_job keeps a job that is there; one it makes is not in the
\* past, and it makes one for every command that has a run ahead.
LEMMA WithJobIs ==
  ASSUME TypeOK, RowInv, NEW c \in Commands
  PROVE  /\ WithJob(c) \in [Commands -> Nat \union {NoJob}]
         /\ \A d \in Commands \ {c} : WithJob(c)[d] = job[d]
         /\ job[c] # NoJob => WithJob(c)[c] = job[c]
         /\ job[c] = NoJob =>
               \/ WithJob(c)[c] = NoJob /\ ~Ahead(c)
               \/ /\ WithJob(c)[c] \in Nat
                  /\ Kind[c] = "PERIODIC" => WithJob(c)[c] <= StopAt[c]
                  /\ Kind[c] # "PERIODIC" =>
                        /\ WithJob(c)[c] >= ExeAt[c]
                        /\ WithJob(c)[c] = ExeAt[c] \/ WithJob(c)[c] = now
<1>1. /\ now \in Nat /\ StopAt[c] \in Nat /\ ExeAt[c] \in Nat /\ Cycle \in Nat
      /\ lastRun[c] \in Nat \union {Never} /\ lastRun[c] <= now
  BY TimeAssumption DEF TypeOK, Times, RowInv
<1>2. /\ StartTime(c) \in Nat
      /\ Kind[c] # "PERIODIC" => /\ StartTime(c) >= ExeAt[c]
                                 /\ StartTime(c) = ExeAt[c] \/ StartTime(c) = now
      /\ Kind[c] = "PERIODIC" /\ Ahead(c) => StartTime(c) <= StopAt[c]
  BY <1>1 DEF StartTime, Later, Ahead, Never
<1>3. /\ WithJob(c) \in [Commands -> Nat \union {NoJob}]
      /\ \A d \in Commands \ {c} : WithJob(c)[d] = job[d]
      /\ WithJob(c)[c] = IF job[c] # NoJob THEN job[c]
                         ELSE IF Kind[c] = "PERIODIC" /\ StartTime(c) > StopAt[c] THEN NoJob
                         ELSE StartTime(c)
  BY <1>2 DEF WithJob, TypeOK
<1>4. Kind[c] # "PERIODIC" => StartTime(c) # NoJob
  BY <1>2 DEF NoJob
<1>5. QED
  BY <1>1, <1>2, <1>3, <1>4

\* A job that is removed leaves no time behind.
LEMMA RemovedIs ==
  ASSUME TypeOK, NEW c \in Commands, job' \in {job, [job EXCEPT ![c] = NoJob]}
  PROVE  /\ job' \in [Commands -> Nat \union {NoJob}]
         /\ \A d \in Commands : job'[d] = job[d] \/ job'[d] = NoJob
         /\ \A d \in Commands : Kind[d] = "PERIODIC" => job'[d] <= StopAt[d]
<1>1. \A d \in Commands : NoJob <= StopAt[d]
  BY TimeAssumption DEF NoJob
<1>2. QED
  BY <1>1 DEF TypeOK

-----------------------------------------------------------------------------
(* The steps of a request, of a start and of the scheduler; in each, first *)
(* the conjuncts it disturbs, then those it leaves as they are.            *)
LEMMA InsertCommitInv ==
  ASSUME IInv, NEW c \in Commands, InsertCommit(c)
  PROVE  IInv'
<1> USE DEF IInv
<1>1. AheadInv'
  BY TimeAssumption, KindAssumption DEF AheadInv, Ahead, NoJob, InsertCommit,
       store, process, history
<1>2. /\ TypeOK' /\ DownInv' /\ RowInv' /\ Fresh' /\ ClaimInv' /\ JobInv'
      /\ StartAhead' /\ ImmediateInv' /\ CancelledIsOut' /\ FinishedWhy'
  BY DEF TypeOK, DownInv, RowInv, Fresh, ClaimInv, JobInv, StartAhead,
       ImmediateInv, CancelledIsOut, FinishedWhy, InsertCommit, store,
       process, history
<1>3. QED
  BY <1>1, <1>2

LEMMA InsertFailsInv ==
  ASSUME IInv, NEW c \in Commands, InsertFails(c)
  PROVE  IInv'
<1> USE DEF IInv
<1>1. AheadInv'
  BY TimeAssumption, KindAssumption DEF AheadInv, Ahead, NoJob, InsertFails,
       store, process, history
<1>2. /\ TypeOK' /\ DownInv' /\ RowInv' /\ Fresh' /\ ClaimInv' /\ JobInv'
      /\ StartAhead' /\ ImmediateInv' /\ CancelledIsOut' /\ FinishedWhy'
  BY DEF TypeOK, DownInv, RowInv, Fresh, ClaimInv, JobInv, StartAhead,
       ImmediateInv, CancelledIsOut, FinishedWhy, InsertFails, store, process,
       history
<1>3. QED
  BY <1>1, <1>2

LEMMA EditToMqttInv ==
  ASSUME IInv, NEW c \in Commands, EditToMqtt(c)
  PROVE  IInv'
<1> USE DEF IInv
<1>1. AheadInv'
  BY TimeAssumption, KindAssumption DEF AheadInv, Ahead, NoJob, EditToMqtt,
       store, process, history
<1>2. /\ TypeOK' /\ DownInv' /\ RowInv' /\ Fresh' /\ ClaimInv' /\ JobInv'
      /\ StartAhead' /\ ImmediateInv' /\ CancelledIsOut' /\ FinishedWhy'
  BY DEF TypeOK, DownInv, RowInv, Fresh, ClaimInv, JobInv, StartAhead,
       ImmediateInv, CancelledIsOut, FinishedWhy, EditToMqtt, store, process,
       history
<1>3. QED
  BY <1>1, <1>2

LEMMA EditCancelYnInv ==
  ASSUME IInv, NEW c \in Commands, EditCancelYn(c)
  PROVE  IInv'
<1> USE DEF IInv
<1>1. AheadInv'
  BY TimeAssumption, KindAssumption DEF AheadInv, Ahead, NoJob, EditCancelYn,
       store, process, history
<1>2. /\ TypeOK' /\ DownInv' /\ RowInv' /\ Fresh' /\ ClaimInv' /\ JobInv'
      /\ StartAhead' /\ ImmediateInv' /\ CancelledIsOut' /\ FinishedWhy'
  BY DEF TypeOK, DownInv, RowInv, Fresh, ClaimInv, JobInv, StartAhead,
       ImmediateInv, CancelledIsOut, FinishedWhy, EditCancelYn, store, process,
       history
<1>3. QED
  BY <1>1, <1>2

LEMMA CancelRemoveInv ==
  ASSUME IInv, NEW c \in Commands, CancelRemove(c)
  PROVE  IInv'
<1> USE DEF IInv
<1>1. job' \in {job, [job EXCEPT ![c] = NoJob]}
  BY DEF CancelRemove
<1>2. TypeOK'
  BY <1>1, RemovedIs DEF TypeOK, CancelRemove, store, process, history
<1>3. AheadInv'
  BY DEF AheadInv, Ahead, TypeOK, CancelRemove, store, process, history
<1>4. /\ DownInv' /\ RowInv' /\ Fresh' /\ ClaimInv' /\ JobInv'
      /\ StartAhead' /\ ImmediateInv' /\ CancelledIsOut' /\ FinishedWhy'
  BY DEF DownInv, RowInv, Fresh, ClaimInv, JobInv, StartAhead, ImmediateInv,
       CancelledIsOut, FinishedWhy, TypeOK, CancelRemove, store, process,
       history
<1>5. QED
  BY <1>2, <1>3, <1>4

LEMMA CancelCommitInv ==
  ASSUME IInv, NEW c \in Commands, CancelCommit(c)
  PROVE  IInv'
<1> USE DEF IInv
<1>1. Fresh'
  BY DEF Fresh, RowInv, TypeOK, CancelCommit, store, process, history
<1>2. AheadInv'
  BY TimeAssumption, KindAssumption DEF AheadInv, Ahead, NoJob, CancelCommit,
       store, process, history
<1>3. /\ TypeOK' /\ DownInv' /\ RowInv' /\ ClaimInv' /\ JobInv'
      /\ StartAhead' /\ ImmediateInv' /\ CancelledIsOut' /\ FinishedWhy'
  BY DEF TypeOK, DownInv, RowInv, ClaimInv, JobInv, StartAhead, ImmediateInv,
       CancelledIsOut, FinishedWhy, CancelCommit, store, process, history
<1>4. QED
  BY <1>1, <1>2, <1>3

LEMMA DeleteFlushInv ==
  ASSUME IInv, NEW c \in Commands, DeleteFlush(c)
  PROVE  IInv'
<1> USE DEF IInv
<1>1. job' \in {job, [job EXCEPT ![c] = NoJob]}
  BY DEF DeleteFlush
<1>2. TypeOK'
  BY <1>1, RemovedIs DEF TypeOK, DeleteFlush, store, process, history
<1>3. AheadInv'
  BY DEF AheadInv, Ahead, TypeOK, DeleteFlush, store, process, history
<1>4. /\ DownInv' /\ RowInv' /\ Fresh' /\ ClaimInv' /\ JobInv'
      /\ StartAhead' /\ ImmediateInv' /\ CancelledIsOut' /\ FinishedWhy'
  BY DEF DownInv, RowInv, Fresh, ClaimInv, JobInv, StartAhead, ImmediateInv,
       CancelledIsOut, FinishedWhy, TypeOK, DeleteFlush, store, process,
       history
<1>5. QED
  BY <1>2, <1>3, <1>4

LEMMA DeleteCommitInv ==
  ASSUME IInv, NEW c \in Commands, DeleteCommit(c)
  PROVE  IInv'
<1> USE DEF IInv
<1>1. AheadInv'
  BY TimeAssumption, KindAssumption DEF AheadInv, Ahead, NoJob, DeleteCommit,
       store, process, history
<1>2. /\ TypeOK' /\ DownInv' /\ RowInv' /\ Fresh' /\ ClaimInv' /\ JobInv'
      /\ StartAhead' /\ ImmediateInv' /\ CancelledIsOut' /\ FinishedWhy'
  BY DEF TypeOK, DownInv, RowInv, Fresh, ClaimInv, JobInv, StartAhead,
       ImmediateInv, CancelledIsOut, FinishedWhy, DeleteCommit, store,
       process, history
<1>3. QED
  BY <1>1, <1>2

LEMMA RemoveFailsInv ==
  ASSUME IInv, NEW c \in Commands, RemoveFails(c)
  PROVE  IInv'
<1> USE DEF IInv
<1>1. Fresh'
  BY DEF Fresh, RowInv, TypeOK, RemoveFails, store, process, history
<1>2. AheadInv'
  BY TimeAssumption, KindAssumption DEF AheadInv, Ahead, NoJob, RemoveFails,
       store, process, history
<1>3. /\ TypeOK' /\ DownInv' /\ RowInv' /\ ClaimInv' /\ JobInv'
      /\ StartAhead' /\ ImmediateInv' /\ CancelledIsOut' /\ FinishedWhy'
  BY DEF TypeOK, DownInv, RowInv, ClaimInv, JobInv, StartAhead, ImmediateInv,
       CancelledIsOut, FinishedWhy, RemoveFails, store, process, history
<1>4. QED
  BY <1>1, <1>2, <1>3

LEMMA InsertFlushInv ==
  ASSUME IInv, NEW c \in Commands, InsertFlush(c)
  PROVE  IInv'
<1> USE DEF IInv
<1>1. job' = WithJob(c)
  BY DEF InsertFlush
<1>2. /\ job' \in [Commands -> Nat \union {NoJob}]
      /\ \A d \in Commands \ {c} : job'[d] = job[d]
      /\ job[c] # NoJob => job'[c] = job[c]
      /\ job[c] = NoJob =>
            \/ job'[c] = NoJob /\ ~Ahead(c)
            \/ /\ job'[c] \in Nat
               /\ Kind[c] = "PERIODIC" => job'[c] <= StopAt[c]
               /\ Kind[c] # "PERIODIC" =>
                     /\ job'[c] >= ExeAt[c]
                     /\ job'[c] = ExeAt[c] \/ job'[c] = now
  BY <1>1, WithJobIs
<1>3. \A d \in Commands : Ahead(d)' <=> Ahead(d)
  BY DEF Ahead, InsertFlush
<1>4. TypeOK'
  BY <1>2, TimeAssumption, KindAssumption DEF TypeOK, NoJob, InsertFlush,
       store, process, history
<1>5. ImmediateInv'
  BY <1>2 DEF ImmediateInv, RowInv, Fresh, TypeOK, InsertFlush, store,
       process, history
<1>6. CancelledIsOut'
  BY <1>2 DEF CancelledIsOut, RowInv, Fresh, TypeOK, InsertFlush, store,
       process, history
<1>7. AheadInv'
  BY <1>2, <1>3 DEF AheadInv, Fresh, TypeOK, NoJob, InsertFlush, store,
       process, history
<1>8. DownInv' /\ RowInv' /\ Fresh' /\ ClaimInv' /\ JobInv' /\ StartAhead' /\ FinishedWhy'
  BY <1>2 DEF DownInv, RowInv, Fresh, ClaimInv, JobInv, StartAhead,
       FinishedWhy, TypeOK, InsertFlush, store, process, history
<1>9. QED
  BY <1>4, <1>5, <1>6, <1>7, <1>8

LEMMA StartJobInv ==
  ASSUME IInv, NEW c \in Commands, StartJob(c)
  PROVE  IInv'
<1> USE DEF IInv
<1>1. job' = WithJob(c)
  BY DEF StartJob
<1>2. /\ job' \in [Commands -> Nat \union {NoJob}]
      /\ \A d \in Commands \ {c} : job'[d] = job[d]
      /\ job[c] # NoJob => job'[c] = job[c]
      /\ job[c] = NoJob =>
            \/ job'[c] = NoJob /\ ~Ahead(c)
            \/ /\ job'[c] \in Nat
               /\ Kind[c] = "PERIODIC" => job'[c] <= StopAt[c]
               /\ Kind[c] # "PERIODIC" =>
                     /\ job'[c] >= ExeAt[c]
                     /\ job'[c] = ExeAt[c] \/ job'[c] = now
  BY <1>1, WithJobIs
<1>3. \A d \in Commands : Ahead(d)' <=> Ahead(d)
  BY DEF Ahead, StartJob
<1>4. TypeOK'
  BY <1>2, TimeAssumption, KindAssumption DEF TypeOK, NoJob, StartJob, store,
       process, history
<1>5. ImmediateInv'
  BY <1>2 DEF ImmediateInv, StartAhead, TypeOK, StartJob, store, process,
       history
<1>6. AheadInv'
  BY <1>2, <1>3 DEF AheadInv, Fresh, TypeOK, NoJob, StartJob, store, process,
       history
<1>7. /\ DownInv' /\ RowInv' /\ Fresh' /\ ClaimInv' /\ JobInv'
      /\ StartAhead' /\ CancelledIsOut' /\ FinishedWhy'
  BY <1>2 DEF DownInv, RowInv, Fresh, ClaimInv, JobInv, StartAhead,
       CancelledIsOut, FinishedWhy, TypeOK, StartJob, store, process, history
<1>8. QED
  BY <1>4, <1>5, <1>6, <1>7

LEMMA SubmitInv ==
  ASSUME IInv, NEW w \in Workers, NEW c \in Commands, Submit(w, c)
  PROVE  IInv'
<1> USE DEF IInv
<1>1. /\ RunTime(c) \in Nat /\ RunTime(c) <= now
      /\ Kind[c] = "PERIODIC" => RunTime(c) <= StopAt[c]
      /\ Kind[c] # "PERIODIC" => RunTime(c) = job[c]
  BY RunTimeIs DEF Submit
<1>2. /\ claimed' \in [Workers -> {NoClaim} \union (Commands \X Nat)]
      /\ claimed'[w] = <<c, RunTime(c)>>
      /\ \A u \in Workers \ {w} : claimed'[u] = claimed[u]
  BY <1>1 DEF Submit, TypeOK
<1>3. job[c] # NoJob /\ job[c] <= now /\ now \in Nat
  BY TimeAssumption DEF Submit, Due, TypeOK, Times
<1>4. /\ running' \in {running, running \union {<<w, c>>}}
      /\ fires' \in {fires, [fires EXCEPT ![c] = @ \union {<<RunTime(c), w>>}]}
      /\ missed' \in {missed, missed \union {c}}
  BY DEF Submit
<1>5. TypeOK'
  BY <1>1, <1>2, <1>4 DEF TypeOK, Submit, store, process, history
<1>6. Fresh'
  BY <1>2, <1>3, <1>4 DEF Fresh, TypeOK, Submit, store, process, history
<1>7. ClaimInv'
  BY <1>1, <1>2, <1>3, TimeAssumption, KindAssumption DEF ClaimInv, JobInv,
       TypeOK, Submit, store, process, history
<1>8. ImmediateInv'
  BY <1>3, <1>4 DEF ImmediateInv, TypeOK, Submit, store, process, history
<1>9. AheadInv'
  BY DEF AheadInv, Ahead, TypeOK, Submit, store, process, history
<1>10. DownInv' /\ RowInv' /\ JobInv' /\ StartAhead' /\ CancelledIsOut' /\ FinishedWhy'
  BY <1>2, <1>3, <1>4 DEF DownInv, RowInv, JobInv, StartAhead, CancelledIsOut,
       FinishedWhy, TypeOK, Submit, store, process, history
<1>11. QED
  BY <1>5, <1>6, <1>7, <1>8, <1>9, <1>10

LEMMA AdvanceInv ==
  ASSUME IInv, NEW w \in Workers, Advance(w)
  PROVE  IInv'
<1> USE DEF IInv
<1> DEFINE c == claimed[w][1]
           t == claimed[w][2]
<1>1. claimed[w] # NoClaim /\ c \in Commands /\ t \in Nat
  BY DEF Advance, TypeOK
<1>2. /\ t <= now /\ now \in Nat
      /\ Kind[c] = "ONETIME" => ExeAt[c] <= now
  BY <1>1, TimeAssumption DEF ClaimInv, TypeOK, Times
<1>3. /\ NextRun(c, t) \in Nat \union {NoJob}
      /\ Kind[c] = "PERIODIC" => NextRun(c, t) <= StopAt[c]
      /\ Kind[c] # "PERIODIC" => NextRun(c, t) = NoJob
      /\ Ahead(c) => NextRun(c, t) # NoJob
  BY <1>1, <1>2, TimeAssumption DEF NextRun, NoJob, Ahead
<1>4. /\ job' \in [Commands -> Nat \union {NoJob}]
      /\ \A d \in Commands \ {c} : job'[d] = job[d]
      /\ job'[c] = IF job[c] = NoJob THEN NoJob ELSE NextRun(c, t)
  BY <1>1, <1>3 DEF Advance, TypeOK
<1>5. /\ claimed' \in [Workers -> {NoClaim} \union (Commands \X Nat)]
      /\ claimed'[w] = NoClaim
      /\ \A u \in Workers \ {w} : claimed'[u] = claimed[u]
  BY DEF Advance, TypeOK
<1> HIDE DEF c, t
<1>6. TypeOK'
  BY <1>1, <1>3, <1>4, <1>5, TimeAssumption DEF TypeOK, NoJob, Advance, store,
       process, history
<1>7. JobInv'
  BY <1>1, <1>3, <1>4 DEF JobInv, Advance, store, process, history
<1>8. ImmediateInv'
  BY <1>1, <1>3, <1>4 DEF ImmediateInv, TypeOK, Advance, store, process,
       history
<1>9. AheadInv'
  BY <1>1, <1>3, <1>4 DEF AheadInv, Ahead, TypeOK, Advance, store, process,
       history
<1>10. /\ DownInv' /\ RowInv' /\ Fresh' /\ ClaimInv' /\ StartAhead'
       /\ CancelledIsOut' /\ FinishedWhy'
  BY <1>1, <1>4, <1>5 DEF DownInv, RowInv, Fresh, ClaimInv, StartAhead,
       CancelledIsOut, FinishedWhy, TypeOK, Advance, store, process, history
<1>11. QED
  BY <1>6, <1>7, <1>8, <1>9, <1>10

LEMMA RunCommitsInv ==
  ASSUME IInv, NEW w \in Workers, NEW c \in Commands, RunCommits(w, c)
  PROVE  IInv'
<1> USE DEF IInv
<1>1. now \in Nat /\ \A d \in Commands : lastRun'[d] \in {lastRun[d], now}
  BY TimeAssumption DEF RunCommits, TypeOK, Times
<1>2. RowInv'
  BY <1>1 DEF RowInv, TypeOK, RunCommits, store, process, history
<1>3. AheadInv'
  BY DEF AheadInv, Ahead, TypeOK, RunCommits, store, process, history
<1>4. /\ TypeOK' /\ DownInv' /\ Fresh' /\ ClaimInv' /\ JobInv'
      /\ StartAhead' /\ ImmediateInv' /\ CancelledIsOut' /\ FinishedWhy'
  BY DEF TypeOK, DownInv, Fresh, ClaimInv, JobInv, StartAhead, ImmediateInv,
       CancelledIsOut, FinishedWhy, RunCommits, store, process, history
<1>5. QED
  BY <1>2, <1>3, <1>4

LEMMA RunFailsInv ==
  ASSUME IInv, NEW w \in Workers, NEW c \in Commands, RunFails(w, c)
  PROVE  IInv'
<1> USE DEF IInv
<1>1. AheadInv'
  BY DEF AheadInv, Ahead, TypeOK, RunFails, store, process, history
<1>2. /\ TypeOK' /\ DownInv' /\ RowInv' /\ Fresh' /\ ClaimInv' /\ JobInv'
      /\ StartAhead' /\ ImmediateInv' /\ CancelledIsOut' /\ FinishedWhy'
  BY DEF TypeOK, DownInv, RowInv, Fresh, ClaimInv, JobInv, StartAhead,
       ImmediateInv, CancelledIsOut, FinishedWhy, RunFails, store, process,
       history
<1>3. QED
  BY <1>1, <1>2

LEMMA FinishCommandsInv ==
  ASSUME IInv, FinishCommands
  PROVE  IInv'
<1> USE DEF IInv
<1>1. ToFinish \subseteq rows \ finished
  BY DEF ToFinish
<1>2. TypeOK'
  BY <1>1 DEF TypeOK, FinishCommands, store, process, history
<1>3. RowInv'
  BY <1>1 DEF RowInv, TypeOK, FinishCommands, store, process, history
<1>4. FinishedWhy'
  BY KindAssumption DEF FinishedWhy, ToFinish, PeriodicType, TypeOK,
       FinishCommands, store, process, history
<1>5. AheadInv'
  BY DEF AheadInv, Ahead, TypeOK, FinishCommands, store, process, history
<1>6. /\ DownInv' /\ Fresh' /\ ClaimInv' /\ JobInv' /\ StartAhead'
      /\ ImmediateInv' /\ CancelledIsOut'
  BY <1>1 DEF DownInv, Fresh, ClaimInv, JobInv, StartAhead, ImmediateInv,
       CancelledIsOut, TypeOK, FinishCommands, store, process, history
<1>7. QED
  BY <1>2, <1>3, <1>4, <1>5, <1>6

LEMMA CrashInv ==
  ASSUME IInv, Crash
  PROVE  IInv'
<1> USE DEF IInv
<1>1. crashes + 1 \in 0..MaxCrash
  BY TimeAssumption DEF Crash, TypeOK
<1>2. /\ tx' \in [Commands -> {"none", "over"}]
      /\ \A c \in Commands : tx'[c] = "over" <=> tx[c] \in {"insert", "over"}
  BY DEF Crash, TypeOK
<1>3. halfway' \subseteq Commands /\ torn' \subseteq Commands
  BY DEF Crash, TypeOK
<1>4. TypeOK'
  BY <1>1, <1>2, <1>3 DEF TypeOK, Crash, store, process, history
<1>5. Fresh'
  BY <1>2 DEF Fresh, RowInv, TypeOK, Crash, store, process, history
<1>6. RowInv'
  BY <1>2 DEF RowInv, TypeOK, Crash, store, process, history
<1>7. AheadInv'
  BY <1>2 DEF AheadInv, Ahead, TypeOK, Crash, store, process, history
<1>8. /\ DownInv' /\ ClaimInv' /\ JobInv' /\ StartAhead'
      /\ ImmediateInv' /\ CancelledIsOut' /\ FinishedWhy'
  BY <1>2 DEF DownInv, ClaimInv, JobInv, StartAhead, ImmediateInv,
       CancelledIsOut, FinishedWhy, TypeOK, Crash, store, process, history
<1>9. QED
  BY <1>4, <1>5, <1>6, <1>7, <1>8

LEMMA StartInv ==
  ASSUME IInv, Start
  PROVE  IInv'
<1> USE DEF IInv
<1>1. AheadInv'
  BY DEF AheadInv, Ahead, Start, store, process, history
<1>2. /\ TypeOK' /\ DownInv' /\ RowInv' /\ Fresh' /\ ClaimInv' /\ JobInv'
      /\ StartAhead' /\ ImmediateInv' /\ CancelledIsOut' /\ FinishedWhy'
  BY DEF TypeOK, DownInv, RowInv, Fresh, ClaimInv, JobInv, StartAhead,
       ImmediateInv, CancelledIsOut, FinishedWhy, Start, store, process, history
<1>3. QED
  BY <1>1, <1>2

\* A start reads unfinished commands with a run ahead only, and all of them
\* that are not withdrawn.
LEMMA UnfinishedIs ==
  ASSUME TypeOK
  PROVE  /\ Unfinished \subseteq rows \ finished
         /\ \A c \in Unfinished : \/ Kind[c] = "ONETIME" /\ ExeAt[c] > now
                                  \/ Kind[c] = "PERIODIC" /\ StopAt[c] > now
         /\ \A c \in rows \ (finished \union mqtt \union withdrawn) :
               Ahead(c) => c \in Unfinished
<1>1. \A c \in Commands : Ahead(c) => \/ Kind[c] = "ONETIME" /\ ExeAt[c] > now
                                      \/ Kind[c] = "PERIODIC" /\ StopAt[c] > now
  BY TimeAssumption DEF Ahead, TypeOK, Times
<1>2. \A c \in Commands : PeriodicType(c) = IF c \in mqtt THEN "IMMEDIATE" ELSE Kind[c]
  BY DEF PeriodicType
<1>3. \A c \in Unfinished : \/ Kind[c] = "ONETIME" /\ ExeAt[c] > now
                            \/ Kind[c] = "PERIODIC" /\ StopAt[c] > now
  BY <1>2 DEF Unfinished, TypeOK
<1>4. ASSUME NEW c \in rows \ (finished \union mqtt \union withdrawn), Ahead(c)
      PROVE  c \in Unfinished
  <2>1. c \in Commands /\ PeriodicType(c) = Kind[c]
    BY <1>2 DEF TypeOK
  <2>2. QED
    BY <1>1, <1>4, <2>1 DEF Unfinished
<1>5. QED
  BY <1>3, <1>4 DEF Unfinished

LEMMA StartReadsInv ==
  ASSUME IInv, StartReads
  PROVE  IInv'
<1> USE DEF IInv
<1>1. TypeOK'
  BY UnfinishedIs DEF TypeOK, StartReads, store, process, history
<1>2. Fresh'
  BY UnfinishedIs DEF Fresh, TypeOK, StartReads, store, process, history
<1>3. StartAhead'
  BY UnfinishedIs DEF StartAhead, StartReads, store, process, history
<1>4. CancelledIsOut'
  BY UnfinishedIs DEF CancelledIsOut, StartReads, store, process, history
<1>5. AheadInv'
  <2>1. /\ UNCHANGED <<now, rows, finished, mqtt, tx, job>> /\ toStart' = Unfinished
        /\ torn' = {c \in torn : c \in withdrawn \/ ~Ahead(c)}
    BY DEF StartReads, store
  <2>2. \A c \in Commands : Ahead(c)' <=> Ahead(c)
    BY <2>1 DEF Ahead
  <2>3. SUFFICES ASSUME NEW c \in Commands, Ahead(c), c \notin finished \union mqtt,
                        c \notin torn' \union Unfinished,
                        (c \in rows /\ tx[c] = "none") \/ tx[c] = "insert"
                 PROVE  job[c] # NoJob
    BY <2>1, <2>2 DEF AheadInv
  <2>4. c \notin toStart
    BY DEF StartReads, DownInv
  <2>5. c \notin torn
    BY <2>1, <2>3, UnfinishedIs DEF RowInv
  <2>6. QED
    BY <2>3, <2>4, <2>5 DEF AheadInv
<1>6. RowInv'
  BY UnfinishedIs DEF RowInv, StartReads, store, process, history
<1>7. DownInv' /\ ClaimInv' /\ JobInv' /\ ImmediateInv' /\ FinishedWhy'
  BY DEF DownInv, ClaimInv, JobInv, ImmediateInv, FinishedWhy, StartReads, store, process,
       history
<1>8. QED
  BY <1>1, <1>2, <1>3, <1>4, <1>5, <1>6, <1>7

LEMMA StartFailsInv ==
  ASSUME IInv, StartFails
  PROVE  IInv'
<1> USE DEF IInv
<1>1. TypeOK' /\ RowInv' /\ Fresh'
  BY DEF TypeOK, RowInv, Fresh, StartFails, store, process, history
<1>2. AheadInv'
  BY DEF AheadInv, Ahead, StartFails, store, process, history
<1>3. /\ DownInv' /\ ClaimInv' /\ JobInv' /\ StartAhead'
      /\ ImmediateInv' /\ CancelledIsOut' /\ FinishedWhy'
  BY DEF DownInv, ClaimInv, JobInv, StartAhead, ImmediateInv, CancelledIsOut, FinishedWhy,
       StartFails, store, process, history
<1>4. QED
  BY <1>1, <1>2, <1>3

LEMMA TickInv ==
  ASSUME IInv, Tick
  PROVE  IInv'
<1> USE DEF IInv
<1>1. now \in Nat /\ now' = now + 1 /\ now' \in Times
  BY TimeAssumption DEF Tick, TypeOK, Times
<1>2. TypeOK'
  BY <1>1 DEF TypeOK, Tick, store, process, history
<1>3. RowInv'
  BY <1>1, TimeAssumption, KindAssumption DEF RowInv, TypeOK, Times, Never,
       Tick, store, process, history
<1>4. ClaimInv'
  BY DEF ClaimInv, TypeOK, Tick, store, process, history
<1>5. JobInv'
  BY <1>1, TimeAssumption, KindAssumption DEF JobInv, TypeOK, NoJob, Tick,
       store, process, history
<1>6. StartAhead'
  BY DEF StartAhead, DownInv, Tick, store, process, history
<1>7. ImmediateInv'
  BY <1>1 DEF ImmediateInv, TypeOK, NoJob, Tick, store, process, history
<1>8. FinishedWhy'
  BY <1>1, TimeAssumption, KindAssumption DEF FinishedWhy, TypeOK, Tick,
       store, process, history
<1>9. AheadInv'
  BY <1>1, TimeAssumption, KindAssumption DEF AheadInv, Ahead, TypeOK, Tick,
       store, process, history
<1>10. DownInv' /\ Fresh' /\ CancelledIsOut'
  BY <1>1 DEF DownInv, Fresh, CancelledIsOut, TypeOK, Tick, store, process,
       history
<1>11. QED
  BY <1>2, <1>3, <1>4, <1>5, <1>6, <1>7, <1>8, <1>9, <1>10

LEMMA StepInv ==
  ASSUME IInv, Step
  PROVE  IInv'
<1>1. CASE \E c \in Commands : Request(c)
  BY <1>1, InsertFlushInv, InsertCommitInv, InsertFailsInv, EditToMqttInv, EditCancelYnInv,
     CancelRemoveInv, CancelCommitInv, DeleteFlushInv, DeleteCommitInv, RemoveFailsInv DEF Request
<1>2. CASE \E c \in Commands : StartJob(c)
  BY <1>2, StartJobInv
<1>3. CASE \E w \in Workers : Scheduler(w)
  BY <1>3, AdvanceInv, SubmitInv, RunCommitsInv, RunFailsInv DEF Scheduler
<1>4. CASE FinishCommands \/ Crash \/ Start \/ StartReads \/ StartFails \/ Tick
  BY <1>4, FinishCommandsInv, CrashInv, StartInv, StartReadsInv, StartFailsInv, TickInv
<1>5. CASE UNCHANGED vars
  BY <1>5 DEF vars, store, process, history, IInv, TypeOK, DownInv, RowInv, Fresh, ClaimInv,
       JobInv, StartAhead, ImmediateInv, CancelledIsOut, FinishedWhy, AheadInv, Ahead
<1>6. QED
  BY <1>1, <1>2, <1>3, <1>4, <1>5 DEF Step, Next

LEMMA InitInv == Init => IInv
<1> SUFFICES ASSUME Init PROVE IInv
  OBVIOUS
<1> USE DEF Init
<1>1. TypeOK
  <2>1. \A c \in Commands : Kind[c] = "PERIODIC" => job[c] <= StopAt[c]
    BY TimeAssumption DEF NoJob
  <2>2. now \in Times /\ crashes \in 0..MaxCrash
    BY TimeAssumption DEF Times
  <2>3. QED
    BY <2>1, <2>2 DEF TypeOK, NoJob, Never
<1>2. DownInv /\ Fresh /\ ClaimInv /\ JobInv /\ StartAhead
  BY DEF DownInv, Fresh, ClaimInv, JobInv, StartAhead
<1>3. RowInv /\ ImmediateInv /\ CancelledIsOut /\ FinishedWhy /\ AheadInv
  BY DEF RowInv, ImmediateInv, CancelledIsOut, FinishedWhy, AheadInv, Never
<1>4. QED
  BY <1>1, <1>2, <1>3 DEF IInv

THEOREM Inductive == Spec => []IInv
<1>1. IInv /\ [Next]_vars => IInv'
  BY StepInv DEF Step
<1>2. QED
  BY InitInv, <1>1, PTL DEF Spec
-----------------------------------------------------------------------------
(* TypeOK: every variable keeps its type, and the job of a periodic        *)
(* command never lies after its end.                                       *)
THEOREM TypeCorrect == Spec => []TypeOK
<1>1. IInv => TypeOK
  BY DEF IInv
<1>2. QED
  BY Inductive, <1>1, PTL

(* FinishedIsOver: neither the finish job nor a cancel flags a command     *)
(* whose job fires again, with the exceptions the definition names.        *)
THEOREM FinishedSafe == Spec => []FinishedIsOver
<1>1. IInv => FinishedIsOver
  <2>1. SUFFICES ASSUME IInv, NEW c \in finished, c \notin mqtt \union raced,
                        c \notin Server \/ c \notin cancelled
                 PROVE  job[c] = NoJob \/ job[c] <= now
    BY DEF FinishedIsOver
  <2>2. c \in Commands /\ now \in Nat /\ job[c] \in Nat \union {NoJob}
        /\ ExeAt[c] \in Nat /\ StopAt[c] \in Nat
    BY <2>1, TimeAssumption DEF IInv, TypeOK, Times
  <2>3. CASE c \in cancelled
    BY <2>1, <2>2, <2>3 DEF IInv, CancelledIsOut
  <2>4. CASE Kind[c] = "IMMEDIATE" /\ c \in published
    BY <2>1, <2>2, <2>4 DEF IInv, ImmediateInv
  <2>5. CASE Kind[c] = "ONETIME" /\ ExeAt[c] < now
    BY <2>1, <2>2, <2>5 DEF IInv, JobInv
  <2>6. CASE Kind[c] = "PERIODIC" /\ StopAt[c] < now
    BY <2>1, <2>2, <2>6 DEF IInv, TypeOK
  <2>7. QED
    BY <2>1, <2>3, <2>4, <2>5, <2>6 DEF IInv, FinishedWhy
<1>2. QED
  BY Inductive, <1>1, PTL

(* AheadHasJob: a command with runs ahead has its job once the server has  *)
(* started, whatever restarts happened.                                    *)
THEOREM AheadSafe == Spec => []AheadHasJob
<1>1. IInv => AheadHasJob
  BY DEF IInv, AheadInv, AheadHasJob, TypeOK
<1>2. QED
  BY Inductive, <1>1, PTL

(* CancelIsFinal: after the commit of a cancel no run of an agent command  *)
(* begins, unless a start was about to create its job.                     *)
THEOREM CancelSafe == Spec => CancelIsFinal
<1> DEFINE Kept == \A c \in cancelled \ (Server \union raced) : fires'[c] = fires[c]
<1>1. ASSUME IInv, Step
      PROVE  Kept
  <2>1. ASSUME NEW c \in cancelled \ (Server \union raced), NEW w \in Workers,
               NEW d \in Commands, Submit(w, d)
        PROVE  fires'[c] = fires[c]
    <3>1. c \in Commands /\ job[c] = NoJob
      BY <1>1, <2>1 DEF IInv, TypeOK, CancelledIsOut
    <3>2. c # d
      BY <2>1, <3>1 DEF Submit, Due
    <3>3. QED
      BY <1>1, <2>1, <3>1, <3>2 DEF Submit, IInv, TypeOK
  <2>2. (\E w \in Workers, d \in Commands : Submit(w, d)) \/ fires' = fires
    BY <1>1 DEF Step, Next, Request, InsertFlush, InsertCommit, InsertFails, EditToMqtt,
         EditCancelYn, CancelRemove, CancelCommit, DeleteFlush, DeleteCommit, RemoveFails, StartJob,
         Scheduler, Advance, RunCommits, RunFails, FinishCommands, Crash, Start, StartReads,
         StartFails, Tick, vars, history
  <2>3. QED
    BY <2>1, <2>2
<1>2. IInv /\ [Next]_vars => [Kept]_vars
  BY <1>1 DEF Step
<1>3. QED
  BY Inductive, <1>2, PTL DEF CancelIsFinal, Spec
-----------------------------------------------------------------------------
(* A ONETIME command runs once, when one process schedules. *)
LEMMA OnceStep ==
  ASSUME NEW w, Workers = {w}, IInv, OnceInv, Step
  PROVE  OnceInv'
<1> USE DEF OnceInv, IInv
<1>1. ASSUME NEW c \in Commands, InsertFlush(c)
      PROVE  OnceInv'
  BY <1>1, WithJobIs DEF InsertFlush, TypeOK, Fresh, store, history
<1>2. ASSUME NEW c \in Commands, StartJob(c)
      PROVE  OnceInv'
  BY <1>2, WithJobIs, TimeAssumption DEF StartJob, StartAhead, TypeOK, Times, store, history
<1>3. ASSUME NEW c \in Commands, CancelRemove(c) \/ DeleteFlush(c)
      PROVE  OnceInv'
  BY <1>3 DEF CancelRemove, DeleteFlush, TypeOK, store, history
<1>4. ASSUME NEW c \in Commands, \/ InsertCommit(c) \/ InsertFails(c) \/ EditToMqtt(c)
                                 \/ EditCancelYn(c) \/ CancelCommit(c) \/ DeleteCommit(c) \/ RemoveFails(c)
      PROVE  OnceInv'
  BY <1>4 DEF InsertCommit, InsertFails, EditToMqtt, EditCancelYn, CancelCommit, DeleteCommit, RemoveFails,
       process, store, history
<1>5. ASSUME NEW c \in Commands, Submit(w, c)
      PROVE  OnceInv'
  <2>1. job[c] # NoJob /\ job[c] <= now /\ claimed[w] = NoClaim
    BY <1>5 DEF Submit, Due
  <2>2. Kind[c] = "ONETIME" => ExeAt[c] <= now
    BY <2>1, TimeAssumption DEF JobInv, TypeOK, Times
  <2>3. /\ claimed' = [claimed EXCEPT ![w] = <<c, RunTime(c)>>]
        /\ running' \in {running, running \union {<<w, c>>}}
        /\ now' = now /\ job' = job /\ runs' = runs /\ halfway' = halfway
    BY <1>5 DEF Submit
  <2>4. claimed'[w] # NoClaim /\ claimed'[w][1] = c
    BY <2>3 DEF TypeOK, NoClaim
  <2>5. c \notin halfway /\ Kind[c] = "ONETIME" => runs[c] = 0 /\ <<w, c>> \notin running
    BY <2>1 DEF TypeOK
  <2>6. QED
    BY <2>1, <2>2, <2>3, <2>4, <2>5
<1>6. CASE Advance(w)
  BY <1>6 DEF Advance, NextRun, TypeOK, store, history
<1>7. ASSUME NEW c \in Commands, RunCommits(w, c) \/ RunFails(w, c)
      PROVE  OnceInv'
  BY <1>7 DEF RunCommits, RunFails, TypeOK, store, history
<1>8. CASE Crash
  BY <1>8 DEF Crash, TypeOK, store
<1>9. CASE FinishCommands \/ Start \/ StartReads \/ StartFails \/ UNCHANGED vars
  BY <1>9 DEF FinishCommands, Start, StartReads, StartFails, vars, process, store, history
<1>10. CASE Tick
  BY <1>10, TimeAssumption DEF Tick, TypeOK, Times, process, store, history
<1>11. QED
  BY <1>1, <1>2, <1>3, <1>4, <1>5, <1>6, <1>7, <1>8, <1>9, <1>10
     DEF Step, Next, Request, Scheduler

(* OnceUnlessHalfway: with one process (the deployed default), a ONETIME   *)
(* command runs once unless the server died between submitting its job and *)
(* moving it on.                                                           *)
THEOREM OnceSafe ==
  ASSUME NEW w, Workers = {w}
  PROVE  Spec => []OnceUnlessHalfway
<1>1. Init => OnceInv
  BY DEF Init, OnceInv
<1>2. IInv /\ OnceInv /\ [Next]_vars => OnceInv'
  BY OnceStep DEF Step
<1>3. OnceInv => OnceUnlessHalfway
  BY DEF OnceInv, OnceUnlessHalfway
<1>4. QED
  BY Inductive, <1>1, <1>2, <1>3, PTL DEF Spec
-----------------------------------------------------------------------------
(* ImplementsLife, for one process.  The order of the run times needs the  *)
(* most: after a crash a job may be due at a time before that of a run     *)
(* which has begun, but what it will be run for is not before it.          *)
RunsInOrder ==
    \A c \in Commands : \A f \in fires[c] :
        /\ f[1] <= now
        /\ Due(c) => f[1] <= RunTime(c)
        /\ \A w \in Workers : claimed[w] # NoClaim /\ claimed[w][1] = c => f[1] <= claimed[w][2]

NotBefore ==
    \A c \in Commands :
        /\ job[c] # NoJob => ExeAt[c] <= job[c]
        /\ \A w \in Workers : claimed[w] # NoClaim /\ claimed[w][1] = c => ExeAt[c] <= claimed[w][2]

OnceBegun ==
    \A c \in Commands \ halfway : Kind[c] # "PERIODIC" /\ fires[c] # {} =>
        /\ ExeAt[c] <= now
        /\ \A w \in Workers : job[c] = NoJob \/ (claimed[w] # NoClaim /\ claimed[w][1] = c)

\* What is not stored yet has not run, and what was published has.
BegunBy ==
    \A c \in Commands :
        /\ c \notin rows /\ tx[c] = "none" => fires[c] = {}
        /\ c \in published \/ (\E w \in Workers : <<w, c>> \in running) => fires[c] # {}

LifeInv == RunsInOrder /\ NotBefore /\ OnceBegun /\ BegunBy
LifeStep == [Life!LifeNext]_(Life!lifeVars)

LEMMA DivMono ==
  ASSUME NEW m \in Nat, NEW n \in Nat, NEW k \in Nat \ {0}, m <= n
  PROVE  (m \div k) * k <= (n \div k) * k
<1> DEFINE p == m \div k
           q == n \div k
<1>1. /\ p \in Nat /\ q \in Nat /\ m = k * p + (m % k) /\ n = k * q + (n % k)
      /\ m % k \in 0..(k - 1) /\ n % k \in 0..(k - 1)
  BY Z3
<1> HIDE DEF p, q
<1>2. SUFFICES ASSUME q < p PROVE FALSE
  <2>1. CASE p <= q
    <3>1. p * k <= q * k
      BY <1>1, <2>1, Z3
    <3>2. QED
      BY <3>1 DEF p, q
  <2>2. QED
    BY <1>1, <1>2, <2>1
<1>3. k * (q + 1) <= k * p /\ k * (q + 1) = k * q + k
  BY <1>1, <1>2, Z3
<1>4. k * q \in Nat /\ k * p \in Nat
  BY <1>1
<1>5. QED
  BY <1>1, <1>3, <1>4

\* A job that is made is not in the past and not before its command's time.
LEMMA MadeIs ==
  ASSUME TypeOK, RowInv, NEW c \in Commands
  PROVE  /\ \A d \in Commands \ {c} : WithJob(c)[d] = job[d]
         /\ \/ WithJob(c)[c] = job[c]
            \/ job[c] = NoJob /\ WithJob(c)[c] \in Nat
               /\ now <= WithJob(c)[c] /\ ExeAt[c] <= WithJob(c)[c]
<1>1. /\ now \in Nat /\ StopAt[c] \in Nat /\ ExeAt[c] \in Nat /\ Cycle \in Nat
      /\ lastRun[c] \in Nat \union {Never}
  BY TimeAssumption DEF TypeOK, Times
<1>2. StartTime(c) \in Nat /\ now <= StartTime(c) /\ ExeAt[c] <= StartTime(c)
  BY <1>1 DEF StartTime, Later, Never
<1>3. QED
  BY <1>2 DEF WithJob, TypeOK

\* The time a due job is run for is not before the job, and moves ahead only.
LEMMA RunTimeAhead ==
  ASSUME TypeOK, NEW c \in Commands, Due(c)
  PROVE  job[c] <= RunTime(c)
<1>1. CASE Kind[c] # "PERIODIC"
  BY <1>1 DEF RunTime, TypeOK, NoJob
<1>2. CASE Kind[c] = "PERIODIC"
  <2> DEFINE t == IF now < StopAt[c] THEN now ELSE StopAt[c]
             n == t - job[c]
  <2>1. job[c] \in Nat /\ n \in Nat
    BY <1>2, TimeAssumption DEF TypeOK, Due, Times
  <2>2. (n \div Cycle) * Cycle \in Nat
    BY <2>1, DivIs, TimeAssumption
  <2>3. RunTime(c) = job[c] + (n \div Cycle) * Cycle
    BY <1>2 DEF RunTime, LastBefore
  <2> HIDE DEF n, t
  <2>4. QED
    BY <2>1, <2>2, <2>3
<1>3. QED
  BY <1>1, <1>2

LEMMA RunTimeTick ==
  ASSUME TypeOK, Tick, NEW c \in Commands, Due(c)'
  PROVE  /\ RunTime(c)' \in Nat /\ job[c] <= RunTime(c)'
         /\ Due(c) => RunTime(c) <= RunTime(c)'
<1>1. now \in Nat /\ now' = now + 1 /\ job' = job /\ job[c] \in Nat /\ job[c] <= now + 1
      /\ StopAt[c] \in Nat
  BY TimeAssumption DEF TypeOK, Due, Times, Tick
<1>2. CASE Kind[c] # "PERIODIC"
  BY <1>1, <1>2 DEF RunTime
<1>3. CASE Kind[c] = "PERIODIC"
  <2> DEFINE t == IF now < StopAt[c] THEN now ELSE StopAt[c]
             u == IF now + 1 < StopAt[c] THEN now + 1 ELSE StopAt[c]
             m == t - job[c]
             n == u - job[c]
  <2>1. job[c] <= StopAt[c]
    BY <1>3 DEF TypeOK
  <2>2. n \in Nat /\ (Due(c) => m \in Nat /\ m <= n)
    BY <1>1, <2>1 DEF Due
  <2>3. (n \div Cycle) * Cycle \in Nat
    BY <2>2, DivIs, TimeAssumption
  <2>4. RunTime(c)' = job[c] + (n \div Cycle) * Cycle
    BY <1>1, <1>3 DEF RunTime, LastBefore
  <2>5. Due(c) => RunTime(c) <= RunTime(c)'
    <3>1. SUFFICES ASSUME Due(c) PROVE RunTime(c) <= RunTime(c)'
      OBVIOUS
    <3>2. (m \div Cycle) * Cycle <= (n \div Cycle) * Cycle /\ (m \div Cycle) * Cycle \in Nat
      BY <2>2, <3>1, DivMono, DivIs, TimeAssumption
    <3>3. RunTime(c) = job[c] + (m \div Cycle) * Cycle
      BY <1>3 DEF RunTime, LastBefore
    <3> HIDE DEF m, n, t, u
    <3>4. QED
      BY <1>1, <2>3, <2>4, <3>2, <3>3
  <2> HIDE DEF m, n, t, u
  <2>6. QED
    BY <1>1, <2>3, <2>4, <2>5
<1>4. QED
  BY <1>2, <1>3

\* The steps that begin no run and make no job.
LEMMA QuietLife ==
  ASSUME IInv, LifeInv, UNCHANGED <<fires, now, published, halfway, claimed>>,
         running' \subseteq running,
         \A c \in Commands :
            /\ job'[c] = job[c] \/ job'[c] = NoJob
            /\ c \notin rows' /\ tx'[c] = "none" => c \notin rows /\ tx[c] = "none"
  PROVE  LifeInv'
<1>1. \A c \in Commands : Due(c)' => Due(c) /\ RunTime(c)' = RunTime(c)
  BY DEF Due, RunTime, LastBefore
<1>2. RunsInOrder'
  BY <1>1 DEF LifeInv, RunsInOrder
<1>3. NotBefore'
  BY DEF LifeInv, NotBefore
<1>4. OnceBegun'
  BY DEF LifeInv, OnceBegun
<1>5. BegunBy'
  BY DEF LifeInv, BegunBy
<1>6. QED
  BY <1>2, <1>3, <1>4, <1>5 DEF LifeInv

\* A job made by an insert or a start.
LEMMA MadeLife ==
  ASSUME IInv, IInv', LifeInv, NEW c \in Commands, job' = WithJob(c),
         UNCHANGED <<fires, now, published, halfway, running, claimed, rows>>,
         \A d \in Commands : tx'[d] = "none" => tx[d] = "none",
         Kind[c] = "PERIODIC" \/ ExeAt[c] > now \/ fires[c] = {}
  PROVE  LifeInv'
<1>1. /\ \A d \in Commands \ {c} : job'[d] = job[d]
      /\ \/ job'[c] = job[c]
         \/ job[c] = NoJob /\ job'[c] \in Nat /\ now <= job'[c] /\ ExeAt[c] <= job'[c]
  BY MadeIs DEF IInv
<1>2. /\ now \in Nat /\ ExeAt[c] \in Nat
      /\ \A d \in Commands : \A f \in fires[d] : f[1] \in Nat
  BY TimeAssumption DEF IInv, TypeOK, Times
<1>3. RunsInOrder'
  <2>1. SUFFICES ASSUME NEW d \in Commands, NEW f \in fires[d], Due(d)'
                 PROVE  f[1] <= RunTime(d)'
    BY DEF LifeInv, RunsInOrder
  <2>2. CASE job'[d] = job[d]
    BY <2>1, <2>2 DEF LifeInv, RunsInOrder, Due, RunTime, LastBefore
  <2>3. CASE job'[d] # job[d]
    <3>1. f[1] <= now /\ now <= job'[d] /\ job'[d] \in Nat
      BY <1>1, <2>1, <2>3 DEF LifeInv, RunsInOrder
    <3>2. job'[d] = now /\ (Kind[d] = "PERIODIC" => job'[d] <= StopAt[d])
      BY <1>2, <2>1, <3>1 DEF Due, IInv, TypeOK
    <3>3. RunTime(d)' = now
      <4>1. StopAt[d] \in Nat /\ now' = now
        BY TimeAssumption
      <4>2. CASE Kind[d] # "PERIODIC"
        BY <3>2, <4>2 DEF RunTime
      <4>3. CASE Kind[d] = "PERIODIC"
        <5>1. RunTime(d)' = now + ((now - now) \div Cycle) * Cycle
          BY <1>2, <3>2, <4>1, <4>3 DEF RunTime, LastBefore
        <5>2. (0 \div Cycle) * Cycle \in Nat /\ (0 \div Cycle) * Cycle <= 0
          BY DivIs, TimeAssumption
        <5>3. now - now = 0
          BY <1>2
        <5>4. QED
          BY <1>2, <5>1, <5>2, <5>3
      <4>4. QED
        BY <4>2, <4>3
    <3>4. QED
      BY <3>1, <3>3
  <2>4. QED
    BY <2>2, <2>3
<1>4. NotBefore' /\ OnceBegun' /\ BegunBy'
  BY <1>1, <1>2 DEF LifeInv, NotBefore, OnceBegun, BegunBy
<1>5. QED
  BY <1>3, <1>4 DEF LifeInv

LEMMA SubmitLife ==
  ASSUME NEW w, Workers = {w}, IInv, LifeInv, NEW c \in Commands, Submit(w, c)
  PROVE  LifeInv' /\ LifeStep
<1>1. /\ RunTime(c) \in Nat /\ RunTime(c) <= now /\ job[c] <= RunTime(c)
      /\ Kind[c] = "PERIODIC" => RunTime(c) <= StopAt[c]
  BY RunTimeIs, RunTimeAhead DEF IInv, Submit
<1>2. /\ now \in Nat /\ ExeAt[c] \in Nat /\ job[c] \in Nat /\ claimed[w] = NoClaim
      /\ job[c] <= now /\ \A d \in Commands : \A f \in fires[d] : f[1] \in Nat
  BY TimeAssumption DEF IInv, TypeOK, Times, Submit, Due, NoJob
<1>3. \A f \in fires[c] : f[1] <= RunTime(c)
  BY DEF LifeInv, RunsInOrder, Submit
<1>4. ExeAt[c] <= RunTime(c)
  BY <1>1, <1>2 DEF LifeInv, NotBefore, NoJob
<1>5. claimed'[w] = <<c, RunTime(c)>> /\ claimed'[w] # NoClaim
  BY DEF Submit, IInv, TypeOK, NoClaim
<1>6. /\ UNCHANGED <<now, rows, finished, published, mqtt, job, tx, cancelled, raced, halfway>>
      /\ \/ UNCHANGED <<running, fires>>
         \/ /\ now - RunTime(c) <= Grace
            /\ running' = running \union {<<w, c>>}
            /\ fires' = [fires EXCEPT ![c] = @ \union {<<RunTime(c), w>>}]
  BY <1>1, <1>2, TimeAssumption DEF Submit, store
<1>7. \A d \in Commands : /\ Due(d)' <=> Due(d)
                          /\ RunTime(d)' = RunTime(d)
  BY <1>6 DEF Due, RunTime, LastBefore
<1>8. fires \in [Commands -> SUBSET (Nat \X Workers)]
  BY DEF IInv, TypeOK
<1>9. RunsInOrder'
  BY <1>1, <1>2, <1>3, <1>5, <1>6, <1>7, <1>8 DEF LifeInv, RunsInOrder
<1>10. NotBefore'
  BY <1>4, <1>5, <1>6 DEF LifeInv, NotBefore
<1>11. OnceBegun'
  BY <1>2, <1>4, <1>5, <1>6, <1>8 DEF LifeInv, NotBefore, OnceBegun, NoJob
<1>12. BegunBy'
  <2>1. job[c] # NoJob /\ Fresh
    BY DEF Submit, Due, IInv
  <2>2. c \in rows \/ tx[c] # "none"
    BY <2>1 DEF Fresh
  <2>3. QED
    BY <1>6, <1>8, <2>2 DEF LifeInv, BegunBy
<1>13. LifeStep
  <2>1. CASE UNCHANGED fires
    BY <1>6, <2>1 DEF LifeStep, Life!lifeVars
  <2>2. CASE ~UNCHANGED fires
    <3>1. RunTime(c) \in ExeAt[c]..now
      BY <1>1, <1>2, <1>4
    <3>2. c \notin cancelled \ (Server \union raced)
      BY <1>2 DEF IInv, CancelledIsOut, NoJob
    <3>3. IF Kind[c] # "PERIODIC" THEN fires[c] = {} \/ c \in halfway
                                  ELSE RunTime(c) <= StopAt[c]
      BY <1>1, <1>2 DEF LifeInv, OnceBegun, NoJob
    <3>4. Life!Begin(c, w)
      BY <1>3, <1>6, <2>2, <3>1, <3>2, <3>3 DEF Life!Begin, Life!Single
    <3>5. QED
      BY <3>4 DEF LifeStep, Life!LifeNext
  <2>3. QED
    BY <2>1, <2>2
<1>14. QED
  BY <1>9, <1>10, <1>11, <1>12, <1>13 DEF LifeInv

LEMMA AdvanceLife ==
  ASSUME NEW w, Workers = {w}, IInv, LifeInv, Advance(w)
  PROVE  LifeInv' /\ LifeStep
<1>0. PICK c \in Commands, t \in Nat : claimed[w] = <<c, t>>
  BY DEF IInv, TypeOK, Advance
<1>1. /\ claimed[w] # NoClaim /\ claimed[w][1] = c /\ claimed[w][2] = t
      /\ claimed' = [claimed EXCEPT ![w] = NoClaim]
  BY <1>0 DEF Advance
<1> now \in Nat /\ ExeAt[c] \in Nat /\ Cycle \in Nat
    /\ \A d \in Commands : \A f \in fires[d] : f[1] \in Nat
  BY TimeAssumption DEF IInv, TypeOK, Times
<1>2. job' = [job EXCEPT ![c] = IF @ = NoJob THEN @ ELSE NextRun(c, t)]
      /\ UNCHANGED <<now, fires, rows, tx, published, running, halfway, finished, mqtt,
                     cancelled, raced>>
  BY <1>0 DEF Advance, store, history
<1>3. claimed'[w] = NoClaim /\ \A f \in fires[c] : f[1] <= t
  BY <1>0, <1>1 DEF IInv, TypeOK, LifeInv, RunsInOrder
<1>4. ExeAt[c] <= t
  BY <1>0, <1>1 DEF LifeInv, NotBefore
<1>5. /\ \A d \in Commands \ {c} : job'[d] = job[d]
      /\ \/ job'[c] = NoJob
         \/ Kind[c] = "PERIODIC" /\ job'[c] = t + Cycle /\ job'[c] <= StopAt[c]
  BY <1>1, <1>2 DEF NextRun, IInv, TypeOK
<1>6. RunsInOrder'
  <2>1. SUFFICES ASSUME NEW d \in Commands, NEW f \in fires[d], Due(d)'
                 PROVE  f[1] <= RunTime(d)'
    BY <1>2, <1>3 DEF LifeInv, RunsInOrder
  <2>2. CASE d # c
    BY <1>2, <1>5, <2>1, <2>2 DEF LifeInv, RunsInOrder, Due, RunTime, LastBefore
  <2>3. CASE d = c
    <3> DEFINE u == IF now < StopAt[c] THEN now ELSE StopAt[c]
               n == u - job'[c]
    <3>1. Kind[c] = "PERIODIC" /\ job'[c] = t + Cycle /\ job'[c] <= StopAt[c] /\ job'[c] <= now
      BY <1>2, <1>5, <2>1, <2>3 DEF Due
    <3>2. n \in Nat
      BY <1>1, <3>1, TimeAssumption
    <3>3. (n \div Cycle) * Cycle \in Nat
      BY <3>2, DivIs, TimeAssumption
    <3>4. RunTime(c)' = job'[c] + (n \div Cycle) * Cycle
      BY <1>2, <3>1 DEF RunTime, LastBefore
    <3> HIDE DEF n, u
    <3>5. QED
      BY <1>1, <1>3, <2>1, <2>3, <3>1, <3>3, <3>4
  <2>4. QED
    BY <2>2, <2>3
<1>7. NotBefore'
  BY <1>1, <1>2, <1>3, <1>4, <1>5 DEF LifeInv, NotBefore
<1>8. OnceBegun'
  BY <1>0, <1>1, <1>2, <1>5 DEF LifeInv, OnceBegun
<1>9. BegunBy'
  BY <1>2 DEF LifeInv, BegunBy
<1>10. LifeStep
  BY <1>2 DEF LifeStep, Life!lifeVars
<1>11. QED
  BY <1>6, <1>7, <1>8, <1>9, <1>10 DEF LifeInv

LEMMA RunLife ==
  ASSUME IInv, LifeInv, NEW w \in Workers, NEW c \in Commands,
         RunCommits(w, c) \/ RunFails(w, c)
  PROVE  LifeInv' /\ LifeStep
<1>1. /\ UNCHANGED <<now, rows, finished, mqtt, job, tx, claimed, fires, cancelled, raced, halfway>>
      /\ running' \subseteq running /\ published' \subseteq published \union {c}
  BY DEF RunCommits, RunFails, store, history
<1>2. <<w, c>> \in running
  BY DEF RunCommits, RunFails
<1>3. \A d \in Commands : Due(d)' = Due(d) /\ RunTime(d)' = RunTime(d)
  BY <1>1 DEF Due, RunTime, LastBefore
<1>4. RunsInOrder'
  BY <1>1, <1>3 DEF LifeInv, RunsInOrder
<1>5. NotBefore' /\ OnceBegun' /\ BegunBy'
  BY <1>1, <1>2 DEF LifeInv, NotBefore, OnceBegun, BegunBy
<1>6. LifeStep
  BY <1>1 DEF LifeStep, Life!lifeVars
<1>7. QED
  BY <1>4, <1>5, <1>6 DEF LifeInv

LEMMA TickLife ==
  ASSUME NEW w, Workers = {w}, IInv, LifeInv, Tick
  PROVE  LifeInv' /\ LifeStep
<1>1. /\ now \in Nat /\ now' = now + 1 /\ claimed[w] = NoClaim
      /\ UNCHANGED <<rows, finished, published, mqtt, job, tx, claimed, running, fires, cancelled,
                     raced, halfway>>
      /\ \A d \in Commands : ExeAt[d] \in Nat /\ \A f \in fires[d] : f[1] \in Nat
  BY TimeAssumption DEF IInv, TypeOK, Times, Tick, store, process, history
<1>2. RunsInOrder'
  <2>1. SUFFICES ASSUME NEW d \in Commands, NEW f \in fires[d], Due(d)'
                 PROVE  f[1] <= RunTime(d)'
    BY <1>1 DEF LifeInv, RunsInOrder
  <2>2. f[1] <= now /\ job[d] \in Nat /\ f[1] \in Nat
    BY <1>1, <2>1 DEF LifeInv, RunsInOrder, IInv, TypeOK, Due
  <2>3. CASE Due(d)
    <3>1. RunTime(d) <= RunTime(d)' /\ f[1] <= RunTime(d)
      BY <2>1, <2>3, RunTimeTick DEF IInv, LifeInv, RunsInOrder
    <3>2. RunTime(d) \in Nat /\ RunTime(d)' \in Nat
      BY <2>1, <2>3, RunTimeIs, RunTimeTick DEF IInv
    <3>3. QED
      BY <2>2, <3>1, <3>2
  <2>4. CASE ~Due(d)
    <3>1. job[d] <= RunTime(d)' /\ RunTime(d)' \in Nat
      BY <2>1, RunTimeTick DEF IInv
    <3>2. now < job[d]
      BY <1>1, <2>2, <2>4 DEF Due, NoJob
    <3>3. QED
      BY <1>1, <2>2, <3>1, <3>2
  <2>5. QED
    BY <2>3, <2>4
<1>3. NotBefore' /\ BegunBy'
  BY <1>1 DEF LifeInv, NotBefore, BegunBy
<1>4. OnceBegun'
  BY <1>1 DEF LifeInv, OnceBegun
<1>5. Life!Pass
  BY <1>1 DEF Life!Pass
<1>6. QED
  BY <1>2, <1>3, <1>4, <1>5 DEF LifeInv, LifeStep, Life!LifeNext

LEMMA CrashLife ==
  ASSUME NEW w, Workers = {w}, IInv, LifeInv, Crash
  PROVE  LifeInv' /\ LifeStep
<1>1. /\ UNCHANGED <<now, rows, finished, published, mqtt, job, fires, cancelled, raced>>
      /\ running' = {} /\ claimed'[w] = NoClaim
      /\ halfway' = halfway \union {c \in Commands : claimed[w] # NoClaim /\ claimed[w][1] = c}
      /\ tx' = [c \in Commands |-> IF tx[c] \in {"insert", "over"} THEN "over" ELSE "none"]
  BY DEF Crash, store
<1>2. \A d \in Commands : Due(d)' = Due(d) /\ RunTime(d)' = RunTime(d)
  BY <1>1 DEF Due, RunTime, LastBefore
<1>3. RunsInOrder'
  BY <1>1, <1>2 DEF LifeInv, RunsInOrder
<1>4. NotBefore' /\ OnceBegun'
  BY <1>1 DEF LifeInv, NotBefore, OnceBegun
<1>5. BegunBy'
  BY <1>1 DEF LifeInv, BegunBy, IInv, RowInv, TypeOK
<1>6. Life!Die
  <2> DEFINE lost == {c \in Commands : tx[c] = "insert"}
             begun == {c \in Commands : claimed[w] # NoClaim /\ claimed[w][1] = c}
  <2>1. lost \in SUBSET (Commands \ rows)
        /\ {c \in Commands : tx'[c] = "over"} = {c \in Commands : tx[c] = "over"} \union lost
    BY <1>1 DEF IInv, RowInv
  <2>2. begun \in SUBSET Commands /\ halfway' = halfway \union begun
    BY <1>1
  <2> HIDE DEF lost, begun
  <2>3. QED
    BY <1>1, <2>1, <2>2 DEF Life!Die
<1>7. QED
  BY <1>3, <1>4, <1>5, <1>6 DEF LifeInv, LifeStep, Life!LifeNext

(* The steps of a request. *)
LEMMA RequestLife ==
  ASSUME IInv, IInv', LifeInv, NEW c \in Commands, Request(c)
  PROVE  LifeInv' /\ LifeStep
<1> DEFINE gone == {d \in Commands : tx[d] = "over"}
           off == cancelled \ (Server \union raced)
<1>1. CASE InsertFlush(c)
  <2>1. LifeInv'
    BY <1>1, MadeLife DEF InsertFlush, LifeInv, BegunBy, store, history, IInv, TypeOK
  <2>2. UNCHANGED <<now, rows, finished, mqtt, fires, cancelled, raced, halfway>> /\ gone' = gone
    BY <1>1 DEF InsertFlush, store, history, IInv, TypeOK
  <2>3. QED
    BY <2>1, <2>2 DEF LifeStep, Life!lifeVars
<1>2. CASE InsertCommit(c)
  <2>1. LifeInv'
    BY <1>2, QuietLife DEF InsertCommit, store, history, IInv, TypeOK
  <2>2. c \notin rows \union gone /\ gone' = gone
    BY <1>2 DEF InsertCommit, IInv, RowInv, TypeOK
  <2>3. Life!Enter(c)
    BY <1>2, <2>2 DEF Life!Enter, InsertCommit, history
  <2>4. QED
    BY <2>1, <2>3 DEF LifeStep, Life!LifeNext
<1>3. CASE InsertFails(c)
  <2>1. LifeInv'
    BY <1>3, QuietLife DEF InsertFails, store, history, IInv, TypeOK
  <2>2. {c} \in SUBSET (Commands \ rows) /\ gone' = gone \union {c}
        /\ halfway' = halfway \union {}
    BY <1>3 DEF InsertFails, IInv, RowInv, TypeOK, history
  <2>3. Life!Die
    BY <1>3, <2>2 DEF Life!Die, InsertFails, store, history
  <2>4. QED
    BY <2>1, <2>3 DEF LifeStep, Life!LifeNext
<1>4. CASE EditToMqtt(c)
  <2>1. LifeInv'
    BY <1>4, QuietLife DEF EditToMqtt, process, history, IInv, TypeOK
  <2>2. Life!Edit(c)
    BY <1>4 DEF Life!Edit, EditToMqtt, process, history
  <2>3. QED
    BY <2>1, <2>2 DEF LifeStep, Life!LifeNext
<1>5. CASE CancelRemove(c)
  <2>1. LifeInv'
    BY <1>5, QuietLife DEF CancelRemove, store, IInv, TypeOK
  <2>2. UNCHANGED <<now, rows, finished, mqtt, fires, halfway>> /\ gone' = gone
    BY <1>5 DEF CancelRemove, store, IInv, TypeOK
  <2>3. off' = off
    BY <1>5 DEF CancelRemove, IInv, CancelledIsOut
  <2>4. QED
    BY <2>1, <2>2, <2>3 DEF LifeStep, Life!lifeVars
<1>6. CASE CancelCommit(c)
  <2>1. LifeInv'
    BY <1>6, QuietLife DEF CancelCommit, IInv, TypeOK, RowInv
  <2>2. c \in rows /\ gone' = gone /\ off' \in {off, off \union {c}}
    BY <1>6 DEF CancelCommit, IInv, RowInv, TypeOK
  <2>3. Life!Cancel(c)
    BY <1>6, <2>2 DEF Life!Cancel, CancelCommit
  <2>4. QED
    BY <2>1, <2>3 DEF LifeStep, Life!LifeNext
<1>7. CASE DeleteFlush(c)
  <2>1. LifeInv'
    BY <1>7, QuietLife DEF DeleteFlush, store, history, IInv, TypeOK
  <2>2. UNCHANGED <<now, rows, finished, mqtt, fires, cancelled, raced, halfway>> /\ gone' = gone
    BY <1>7 DEF DeleteFlush, store, history, IInv, TypeOK
  <2>3. QED
    BY <2>1, <2>2 DEF LifeStep, Life!lifeVars
<1>8. CASE DeleteCommit(c)
  <2>1. LifeInv'
    BY <1>8, QuietLife DEF DeleteCommit, store, history, IInv, TypeOK
  <2>2. c \in rows /\ gone' = gone \union {c}
    BY <1>8 DEF DeleteCommit, IInv, RowInv, TypeOK
  <2>3. Life!Delete(c)
    BY <1>8, <2>2 DEF Life!Delete, DeleteCommit, history
  <2>4. QED
    BY <2>1, <2>3 DEF LifeStep, Life!LifeNext
<1>9. CASE RemoveFails(c)
  <2>1. LifeInv'
    BY <1>9, QuietLife DEF RemoveFails, store, IInv, TypeOK, RowInv
  <2>2. UNCHANGED <<now, rows, finished, mqtt, fires, cancelled, raced, halfway>> /\ gone' = gone
    BY <1>9 DEF RemoveFails, store, IInv, TypeOK
  <2>3. QED
    BY <2>1, <2>2 DEF LifeStep, Life!lifeVars
<1>10. CASE EditCancelYn(c)
  <2>1. LifeInv'
    BY <1>10, QuietLife DEF EditCancelYn, process, history, IInv, TypeOK
  <2>2. UNCHANGED <<now, rows, finished, mqtt, fires, cancelled, raced, halfway>> /\ gone' = gone
    BY <1>10 DEF EditCancelYn, process, history, IInv, TypeOK
  <2>3. QED
    BY <2>1, <2>2 DEF LifeStep, Life!lifeVars
<1>11. QED
  BY <1>1, <1>2, <1>3, <1>4, <1>5, <1>6, <1>7, <1>8, <1>9, <1>10 DEF Request

(* The finish job and a start. *)
LEMMA ServerLife ==
  ASSUME IInv, IInv', LifeInv,
         \/ FinishCommands \/ Start \/ StartReads \/ StartFails
         \/ \E c \in Commands : StartJob(c)
  PROVE  LifeInv' /\ LifeStep
<1>1. CASE FinishCommands
  <2>1. LifeInv'
    BY <1>1, QuietLife DEF FinishCommands, process, history
  <2>2. ToFinish \in SUBSET {c \in rows \ finished : Life!Spent(c)}
    BY DEF ToFinish, Life!Spent, PeriodicType, LifeInv, BegunBy, IInv, TypeOK
  <2>3. Life!Finish
    BY <1>1, <2>2 DEF Life!Finish, FinishCommands, process, history
  <2>4. QED
    BY <2>1, <2>3 DEF LifeStep, Life!LifeNext
<1>2. CASE Start
  <2>1. LifeInv'
    BY <1>2, QuietLife DEF Start, store, history
  <2>2. QED
    BY <1>2, <2>1 DEF LifeStep, Life!lifeVars, Start, store, history
<1>3. CASE StartReads
  <2>1. LifeInv'
    BY <1>3, QuietLife DEF StartReads, store
  <2>2. UNCHANGED <<now, rows, finished, mqtt, fires, halfway, tx>>
    BY <1>3 DEF StartReads, store
  <2>3. cancelled' \ (Server \union raced') = cancelled \ (Server \union raced)
    BY <1>3, UnfinishedIs DEF StartReads, IInv, CancelledIsOut
  <2>4. QED
    BY <2>1, <2>2, <2>3 DEF LifeStep, Life!lifeVars
<1>4. CASE StartFails
  <2>1. LifeInv'
    BY <1>4, QuietLife DEF StartFails, store
  <2>2. QED
    BY <1>4, <2>1 DEF LifeStep, Life!lifeVars, StartFails, store
<1>5. ASSUME NEW c \in Commands, StartJob(c)
      PROVE  LifeInv' /\ LifeStep
  <2>1. Kind[c] = "PERIODIC" \/ ExeAt[c] > now
    BY <1>5 DEF StartJob, IInv, StartAhead
  <2>2. LifeInv'
    BY <1>5, <2>1, MadeLife DEF StartJob, store, history
  <2>3. QED
    BY <1>5, <2>2 DEF LifeStep, Life!lifeVars, StartJob, store, history
<1>6. QED
  BY <1>1, <1>2, <1>3, <1>4, <1>5

(* ImplementsLife: with one process, whatever restarts, misfires and       *)
(* failed commits do to the jobs, every step is a step of CommandLife.     *)
THEOREM LifeSafe ==
  ASSUME NEW w, Workers = {w}
  PROVE  Spec => ImplementsLife
<1>1. Init => LifeInv /\ Life!LifeInit
  BY DEF Init, LifeInv, RunsInOrder, NotBefore, OnceBegun, BegunBy, Life!LifeInit
<1>2. ASSUME IInv, IInv', LifeInv, [Next]_vars
      PROVE  LifeInv' /\ LifeStep
  <2>1. CASE UNCHANGED vars
    <3>1. LifeInv'
      BY <1>2, <2>1, QuietLife DEF vars, store, process, history
    <3>2. QED
      BY <2>1, <3>1 DEF LifeStep, Life!lifeVars, vars, store, process, history
  <2>2. CASE Next
    BY <1>2, <2>2, RequestLife, ServerLife, SubmitLife, AdvanceLife, RunLife, TickLife, CrashLife
       DEF Next, Scheduler
  <2>3. QED
    BY <1>2, <2>1, <2>2
<1>3. IInv /\ IInv' /\ LifeInv /\ [Next]_vars => LifeInv' /\ [Life!LifeNext]_(Life!lifeVars)
  BY <1>2 DEF LifeStep
<1>4. QED
  BY Inductive, <1>1, <1>3, PTL DEF Spec, ImplementsLife, Life!LifeSpec
=============================================================================
