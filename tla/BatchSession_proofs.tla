-------------------------- MODULE BatchSession_proofs --------------------------
(***************************************************************************)
(* Proofs about BatchSession: what a run may put back, and what it         *)
(* reports.                                                                *)
(***************************************************************************)
EXTENDS BatchSession, TLAPS

-----------------------------------------------------------------------------
(* The inductive invariant.  A text a thread holds or has written is the   *)
(* newest one, unless the domain is in the window; a domain whose text is  *)
(* held has been locked since the run came to it, or is still to come.     *)

LocksApart == \A t, u \in Threads : t # u => locks[t] \intersect locks[u] = {}

Handled == \A t \in Threads : DOMAIN mem[t] \subseteq todo[t] \union {cur[t]} \union locks[t]

PutFresh == \A t \in Threads : \A d \in DOMAIN put[t] : put[t][d] # newest[d] => d \in window

MemFresh == \A t \in Threads : \A d \in DOMAIN mem[t] : mem[t][d] # newest[d] => d \in window

CurLoaded == \A t \in Threads : cur[t] # None => phase[t] = "run" /\ cur[t] \in DOMAIN mem[t]

\* A run comes to each domain once, and has counted what it lost.
CountedPast ==
    \A t \in Threads : /\ cur[t] \notin todo[t]
                       /\ counted[t] \intersect (todo[t] \union {cur[t]}) = {}
                       /\ undone[t] \subseteq counted[t]

\* Only a function that has returned leaves something to write.
DirtyIdle == \A t \in Threads : dirty[t] # {} => phase[t] # "run"

IInv ==
    /\ TypeOK /\ DirtyIdle /\ CountedPast
    /\ LocksApart /\ Handled /\ CurLoaded
    /\ RevertsOnlyInWindow /\ PutFresh /\ MemFresh
    /\ ReportIsStored

Step == [Next]_vars
-----------------------------------------------------------------------------
(* Partial functions on the domains, as the sessions hold them.            *)
LEMMA PartialIs ==
  ASSUME NEW f \in Partial
  PROVE  DOMAIN f \subseteq Domains /\ \A d \in DOMAIN f : f[d] \in Texts
  BY DEF Partial

LEMMA PartialMake ==
  ASSUME NEW D \in SUBSET Domains, NEW f \in [D -> Texts]
  PROVE  f \in Partial
  BY DEF Partial

LEMMA EmptyIs == NoText \in Partial /\ DOMAIN NoText = {}
<1>1. NoText \in [{} -> Texts]
  BY DEF NoText
<1>2. QED
  BY <1>1, PartialMake DEF NoText

LEMMA LoadsIs ==
  ASSUME TypeOK, NEW t \in Threads, NEW D \in SUBSET Domains
  PROVE  /\ Loads(t, D) \in Partial
         /\ DOMAIN Loads(t, D) = DOMAIN mem[t] \union D
         /\ \A d \in DOMAIN Loads(t, D) :
               \/ d \in DOMAIN mem[t] /\ Loads(t, D)[d] = mem[t][d]
               \/ d \in DOMAIN put[t] /\ Loads(t, D)[d] = put[t][d]
               \/ Loads(t, D)[d] = text[d]
<1>1. mem[t] \in Partial /\ put[t] \in Partial /\ text \in [Domains -> Texts]
  BY DEF TypeOK
<1>2. DOMAIN mem[t] \union D \in SUBSET Domains
  BY <1>1, PartialIs
<1>3. \A d \in DOMAIN mem[t] \union D : Loaded(t, d) \in Texts
  BY <1>1, <1>2, PartialIs DEF Loaded, Seen
<1>4. Loads(t, D) \in [DOMAIN mem[t] \union D -> Texts]
  BY <1>3 DEF Loads
<1>5. Loads(t, D) \in Partial
  BY <1>2, <1>4, PartialMake
<1>6. QED
  BY <1>4, <1>5 DEF Loads, Loaded, Seen

LEMMA StoredIs ==
  ASSUME TypeOK, NEW t \in Threads
  PROVE  /\ Stored(t) \in [Domains -> Texts]
         /\ \A d \in Domains : \/ d \in DOMAIN put[t] /\ Stored(t)[d] = put[t][d]
                               \/ Stored(t)[d] = text[d]
<1>1. put[t] \in Partial /\ text \in [Domains -> Texts]
  BY DEF TypeOK
<1>2. \A d \in Domains : Seen(t, d) \in Texts
  BY <1>1, PartialIs DEF Seen
<1>3. QED
  BY <1>2 DEF Stored, Seen
-----------------------------------------------------------------------------
LEMMA InitInv == Init => IInv
<1>1. SUFFICES ASSUME Init PROVE IInv
  OBVIOUS
<1>2. 0 \in Texts /\ 0 \in 0..MaxRuns
  BY BoundAssumption DEF Texts
<1>3. TypeOK
  BY <1>1, <1>2, EmptyIs DEF Init, TypeOK
<1>4. QED
  BY <1>1, <1>3, EmptyIs, NoneAssumption DEF Init, IInv, LocksApart, Handled, CurLoaded, DirtyIdle, CountedPast, PutFresh, MemFresh,
       RevertsOnlyInWindow, ReportIsStored

(* An agent registers: what was held of this domain and not come to puts   *)
(* it into the window, and nothing of it is written but not committed.     *)
LEMMA RegisterInv ==
  ASSUME IInv, NEW d \in Domains, Register(d)
  PROVE  IInv'
<1> USE DEF IInv
<1>1. newest[d] \in Texts /\ newest[d] + 1 \in Texts
  BY BoundAssumption DEF Register, TypeOK, Texts
<1>2. TypeOK'
  BY <1>1 DEF Register, TypeOK, session
<1>3. \A e \in Domains \ {d} :
         text'[e] = text[e] /\ newest'[e] = newest[e] /\ (e \in window <=> e \in window')
  BY DEF Register, TypeOK
<1>4. text'[d] = newest'[d]
  BY DEF Register, TypeOK
<1>5. RevertsOnlyInWindow'
  BY <1>3, <1>4 DEF RevertsOnlyInWindow
<1>6. PutFresh'
  <2>1. SUFFICES ASSUME NEW t \in Threads, NEW e \in DOMAIN put[t], put[t][e] # newest'[e]
                 PROVE  e \in window'
    BY DEF PutFresh, Register, session
  <2>2. e \in locks[t] /\ e \in Domains
    BY PartialIs DEF TypeOK
  <2>3. e # d
    BY <2>2 DEF Register
  <2>4. QED
    BY <1>3, <2>1, <2>2, <2>3 DEF PutFresh
<1>7. MemFresh'
  <2>1. SUFFICES ASSUME NEW t \in Threads, NEW e \in DOMAIN mem[t], mem[t][e] # newest'[e]
                 PROVE  e \in window'
    BY DEF MemFresh, Register, session
  <2>2. e \in Domains
    BY PartialIs DEF TypeOK
  <2>3. CASE e # d
    BY <1>3, <2>1, <2>2, <2>3 DEF MemFresh
  <2>4. CASE e = d
    <3>1. d \in todo[t] \/ d = cur[t]
      BY <2>4 DEF Handled, Register
    <3>2. QED
      BY <2>4, <3>1 DEF Register
  <2>5. QED
    BY <2>3, <2>4
<1>8. QED
  BY <1>2, <1>5, <1>6, <1>7 DEF Register, session, LocksApart, Handled, CurLoaded, DirtyIdle, CountedPast,
       ReportIsStored
-----------------------------------------------------------------------------
(* A run: begin, and coming to a domain. *)
LEMMA RunBeginInv ==
  ASSUME IInv, NEW t \in Threads, NEW D \in SUBSET Domains, RunBegin(t, D)
  PROVE  IInv'
<1> USE DEF IInv
<1>1. mem[t] = NoText
  BY DEF RunBegin, TypeOK
<1>2. runs' \in 0..MaxRuns
  BY BoundAssumption DEF RunBegin, TypeOK
<1>3. TypeOK'
  BY <1>2, LoadsIs DEF RunBegin, TypeOK
<1>4. mem'[t] = Loads(t, D) /\ \A u \in Threads \ {t} : mem'[u] = mem[u]
  BY DEF RunBegin, TypeOK
<1>4a. /\ DOMAIN mem'[t] = DOMAIN mem[t] \union D
       /\ \A e \in DOMAIN mem'[t] :
              \/ e \in DOMAIN mem[t] /\ mem'[t][e] = mem[t][e]
              \/ e \in DOMAIN put[t] /\ mem'[t][e] = put[t][e]
              \/ mem'[t][e] = text[e]
  <2>1. /\ DOMAIN Loads(t, D) = DOMAIN mem[t] \union D
        /\ \A e \in DOMAIN Loads(t, D) :
              \/ e \in DOMAIN mem[t] /\ Loads(t, D)[e] = mem[t][e]
              \/ e \in DOMAIN put[t] /\ Loads(t, D)[e] = put[t][e]
              \/ Loads(t, D)[e] = text[e]
    BY LoadsIs
  <2>2. QED
    BY <1>4, <2>1
<1>5. DOMAIN mem'[t] = D /\ todo'[t] = D
  <2>1. todo'[t] = D
    BY DEF RunBegin, TypeOK
  <2>2. QED
    BY <1>1, <1>4a, <2>1, EmptyIs
<1>6. Handled'
  BY <1>4, <1>5 DEF Handled, RunBegin, TypeOK
<1>7. MemFresh'
  <2>1. \A e \in DOMAIN mem'[t] : mem'[t][e] # newest[e] => e \in window
    BY <1>4a, <1>5 DEF MemFresh, PutFresh, RevertsOnlyInWindow
  <2>2. QED
    BY <1>4, <2>1 DEF MemFresh, RunBegin
<1>8. CurLoaded'
  BY <1>4 DEF CurLoaded, RunBegin, TypeOK
<1>9. ReportIsStored'
  BY DEF ReportIsStored, CountedPast, RunBegin, TypeOK
<1>10. DirtyIdle'
  BY DEF DirtyIdle, RunBegin, TypeOK
<1>11. CountedPast'
  BY NoneAssumption DEF CountedPast, RunBegin, CurLoaded, TypeOK
<1>12. QED
  BY <1>3, <1>6, <1>7, <1>8, <1>9, <1>10, <1>11
     DEF RunBegin, LocksApart, PutFresh, RevertsOnlyInWindow

LEMMA ItemInv ==
  ASSUME IInv, NEW t \in Threads, NEW d \in Domains, Item(t, d)
  PROVE  IInv'
<1> USE DEF IInv
<1>1. mem'[t] = Loads(t, {d}) /\ \A u \in Threads \ {t} : mem'[u] = mem[u]
  BY DEF Item, TypeOK
<1>2. TypeOK'
  <2>1. Loads(t, {d}) \in Partial
    BY LoadsIs
  <2>2. mem' \in [Threads -> Partial]
    BY <2>1 DEF Item, TypeOK
  <2>3. phase[t] = "run" /\ phase' = phase
    BY DEF Item
  <2>4. \A u \in Threads : phase'[u] # "run" => mem'[u] = NoText
    BY <1>1, <2>3 DEF TypeOK
  <2>5. QED
    BY <2>2, <2>4 DEF Item, TypeOK
<1>3. /\ DOMAIN mem'[t] = DOMAIN mem[t] \union {d}
      /\ \A e \in DOMAIN mem'[t] :
            \/ e \in DOMAIN mem[t] /\ mem'[t][e] = mem[t][e]
            \/ e \in DOMAIN put[t] /\ mem'[t][e] = put[t][e]
            \/ mem'[t][e] = text[e]
  <2>1. {d} \in SUBSET Domains
    OBVIOUS
  <2>2. /\ DOMAIN Loads(t, {d}) = DOMAIN mem[t] \union {d}
        /\ \A e \in DOMAIN Loads(t, {d}) :
              \/ e \in DOMAIN mem[t] /\ Loads(t, {d})[e] = mem[t][e]
              \/ e \in DOMAIN put[t] /\ Loads(t, {d})[e] = put[t][e]
              \/ Loads(t, {d})[e] = text[e]
    BY <2>1, LoadsIs
  <2>3. QED
    BY <1>1, <2>2
<1>4. Handled'
  <2>1. DOMAIN mem[t] \subseteq Domains
    BY PartialIs DEF TypeOK
  <2>2. DOMAIN mem[t] \subseteq todo[t] \union locks[t]
    BY <2>1, NoneAssumption DEF Handled, Item
  <2>3. DOMAIN mem'[t] \subseteq todo'[t] \union {cur'[t]} \union locks'[t]
    BY <1>3, <2>2 DEF Item, TypeOK
  <2>4. QED
    BY <1>1, <2>3 DEF Handled, Item, TypeOK
<1>5. MemFresh'
  <2>1. \A e \in DOMAIN mem'[t] : mem'[t][e] # newest[e] => e \in window
    <3>1. \A e \in DOMAIN mem'[t] : e \in Domains
      BY <1>2, PartialIs DEF TypeOK
    <3>2. QED
      BY <1>3, <3>1 DEF MemFresh, PutFresh, RevertsOnlyInWindow
  <2>2. QED
    BY <1>1, <2>1 DEF MemFresh, Item
<1>6. CurLoaded'
  BY <1>1, <1>3 DEF CurLoaded, Item, TypeOK
<1>7. ReportIsStored'
  BY DEF ReportIsStored, Item
<1>8. CountedPast'
  BY DEF CountedPast, Item, TypeOK
<1>9. QED
  BY <1>2, <1>4, <1>5, <1>6, <1>7, <1>8
     DEF Item, DirtyIdle, LocksApart, PutFresh, RevertsOnlyInWindow

(* What is written is what was held, under the lock of the row. *)
LEMMA WritesInv ==
  ASSUME IInv, NEW t \in Threads, NEW done \in BOOLEAN, Writes(t, done)
  PROVE  IInv'
<1> USE DEF IInv
<1>1. cur[t] \in Domains /\ cur[t] \in DOMAIN mem[t] /\ phase[t] = "run"
  BY DEF Writes, TypeOK, CurLoaded
<1>2. /\ mem[t] \in Partial /\ put[t] \in Partial
      /\ DOMAIN put[t] \subseteq locks[t]
  BY DEF TypeOK
<1> DEFINE new == [d \in DOMAIN put[t] \union {cur[t]} |->
                      IF d = cur[t] THEN mem[t][d] ELSE put[t][d]]
<1>3. new \in Partial
  <2>1. DOMAIN put[t] \union {cur[t]} \in SUBSET Domains
    BY <1>1, <1>2, PartialIs
  <2>2. new \in [DOMAIN put[t] \union {cur[t]} -> Texts]
    BY <1>1, <1>2, PartialIs
  <2>3. QED
    BY <2>1, <2>2, PartialMake
<1>4. put'[t] = (IF done THEN new ELSE put[t]) /\ \A u \in Threads \ {t} : put'[u] = put[u]
  BY DEF Writes, TypeOK
<1>5. put' \in [Threads -> Partial]
  BY <1>2, <1>3 DEF Writes, TypeOK
<1>6. DOMAIN put'[t] \subseteq locks'[t]
  BY <1>1, <1>2, <1>4 DEF Writes, TypeOK
<1>7. TypeOK'
  BY <1>1, <1>4, <1>5, <1>6 DEF Writes, TypeOK, Counted
<1>8. LocksApart'
  BY DEF LocksApart, Writes, LockFree, TypeOK
<1>9. Handled'
  BY <1>1 DEF Handled, Writes, TypeOK
<1>10. PutFresh'
  <2>1. \A d \in DOMAIN put'[t] : put'[t][d] # newest[d] => d \in window
    BY <1>1, <1>4 DEF PutFresh, MemFresh
  <2>2. QED
    BY <1>4, <2>1 DEF PutFresh, Writes
<1>11. ReportIsStored'
  <2>1. counted'[t] = Counted(t, done) /\ \A u \in Threads \ {t} : counted'[u] = counted[u]
    BY DEF Writes, TypeOK
  <2>2. counted[t] \ DOMAIN put[t] = undone[t] /\ cur[t] \notin counted[t]
    BY <1>1 DEF ReportIsStored, CountedPast
  <2>3. counted'[t] \ DOMAIN put'[t] = undone[t]
    BY <1>4, <2>1, <2>2 DEF Counted
  <2>4. QED
    BY <1>4, <2>1, <2>3 DEF ReportIsStored, Writes
<1>12. CountedPast'
  BY <1>1, NoneAssumption DEF CountedPast, Writes, Counted, TypeOK
<1>13. QED
  BY <1>7, <1>8, <1>9, <1>10, <1>11, <1>12
     DEF Writes, DirtyIdle, CurLoaded, MemFresh, RevertsOnlyInWindow, TypeOK
-----------------------------------------------------------------------------
(* What a function that ends, and a transaction that ends, leaves.         *)
LEMMA LeavesType ==
  ASSUME TypeOK, NEW t \in Threads, Leaves(t)
  PROVE  /\ phase' \in [Threads -> {"idle", "run", "over"}]
         /\ todo' \in [Threads -> SUBSET Domains]
         /\ cur' \in [Threads -> Domains \union {None}]
         /\ mem' \in [Threads -> Partial]
         /\ counted' \in [Threads -> SUBSET Domains] /\ undone' \in [Threads -> SUBSET Domains]
         /\ \A u \in Threads : phase'[u] # "run" => mem'[u] = NoText /\ counted'[u] = {}
  BY EmptyIs DEF Leaves, TypeOK, Forgotten

LEMMA LeavesOthers ==
  ASSUME TypeOK, NEW t \in Threads, Leaves(t)
  PROVE  /\ phase'[t] # "run" /\ mem'[t] = NoText /\ cur'[t] = None /\ counted'[t] = {}
         /\ \A u \in Threads \ {t} :
              /\ phase'[u] = phase[u] /\ todo'[u] = todo[u] /\ cur'[u] = cur[u]
              /\ mem'[u] = mem[u] /\ counted'[u] = counted[u] /\ undone'[u] = undone[u]
  BY DEF Leaves, TypeOK, Forgotten

LEMMA EndsType ==
  ASSUME TypeOK, NEW t \in Threads, Ends(t)
  PROVE  /\ put' \in [Threads -> Partial] /\ locks' \in [Threads -> SUBSET Domains]
         /\ dirty' \in [Threads -> SUBSET Domains]
         /\ put'[t] = NoText /\ locks'[t] = {}
         /\ \A u \in Threads \ {t} : put'[u] = put[u] /\ locks'[u] = locks[u]
         /\ \A u \in Threads : DOMAIN put'[u] \subseteq locks'[u]
  BY EmptyIs DEF Ends, TypeOK

LEMMA UpsertFailsInv ==
  ASSUME IInv, NEW t \in Threads, UpsertFails(t)
  PROVE  IInv'
<1> USE DEF IInv
<1>1. Ends(t)
  BY DEF UpsertFails
<1>2. mem'[t] = NoText /\ \A u \in Threads \ {t} : mem'[u] = mem[u]
  BY DEF UpsertFails, TypeOK
<1>3. phase[t] = "run"
  BY DEF UpsertFails, CurLoaded
<1>4. TypeOK'
  BY <1>1, <1>3, EndsType, EmptyIs DEF UpsertFails, TypeOK
<1>5. LocksApart'
  BY <1>1, EndsType DEF LocksApart
<1>6. Handled'
  BY <1>1, <1>2, EndsType, EmptyIs DEF Handled, UpsertFails, TypeOK
<1>7. CurLoaded'
  BY <1>2 DEF CurLoaded, UpsertFails, TypeOK
<1>8. PutFresh' /\ MemFresh' /\ RevertsOnlyInWindow'
  BY <1>1, <1>2, EndsType, EmptyIs
     DEF PutFresh, MemFresh, RevertsOnlyInWindow, UpsertFails
<1>9. ReportIsStored'
  BY <1>1, EndsType, EmptyIs DEF ReportIsStored, UpsertFails, TypeOK
<1>10. DirtyIdle'
  BY DEF DirtyIdle, UpsertFails, Ends, TypeOK
<1>11. CountedPast'
  BY NoneAssumption DEF CountedPast, UpsertFails, TypeOK
<1>12. QED
  BY <1>4, <1>5, <1>6, <1>7, <1>8, <1>9, <1>10, <1>11

LEMMA RaisesInv ==
  ASSUME IInv, NEW t \in Threads, Raises(t)
  PROVE  IInv'
<1> USE DEF IInv
<1>1. Leaves(t)
  BY DEF Raises
<1>2. cur[t] \in Domains
  BY DEF Raises, TypeOK
<1>3. /\ locks' \in [Threads -> SUBSET Domains]
      /\ \A u \in Threads : locks[u] \subseteq locks'[u]
      /\ \A u \in Threads \ {t} : locks'[u] = locks[u]
      /\ locks'[t] = locks[t] \/ (LockFree(t, cur[t]) /\ locks'[t] = locks[t] \union {cur[t]})
      /\ dirty' \in [Threads -> SUBSET Domains]
  BY <1>2 DEF Raises, TypeOK
<1>4. TypeOK'
  <2>1. \A u \in Threads : DOMAIN put'[u] \subseteq locks'[u]
    BY <1>3 DEF Raises, TypeOK
  <2>2. QED
    BY <1>1, <1>3, <2>1, LeavesType DEF Raises, TypeOK
<1>5. LocksApart'
  BY <1>3 DEF LocksApart, LockFree
<1>6. Handled'
  BY <1>1, <1>3, LeavesOthers, EmptyIs DEF Handled
<1>7. CurLoaded'
  BY <1>1, LeavesOthers DEF CurLoaded
<1>8. PutFresh' /\ MemFresh' /\ RevertsOnlyInWindow'
  BY <1>1, LeavesOthers, EmptyIs DEF PutFresh, MemFresh, RevertsOnlyInWindow, Raises
<1>9. ReportIsStored'
  BY <1>1, LeavesOthers DEF ReportIsStored, Raises
<1>10. DirtyIdle'
  BY <1>1, LeavesOthers DEF DirtyIdle, Raises, TypeOK
<1>11. CountedPast'
  BY <1>1, NoneAssumption DEF CountedPast, Leaves, TypeOK
<1>12. QED
  BY <1>4, <1>5, <1>6, <1>7, <1>8, <1>9, <1>10, <1>11

LEMMA BreaksInv ==
  ASSUME IInv, NEW t \in Threads, Breaks(t)
  PROVE  IInv'
<1> USE DEF IInv
<1>1. Ends(t)
  BY DEF Breaks
<1>2. \/ Leaves(t)
      \/ phase[t] # "run" /\ UNCHANGED <<phase, todo, cur, mem, counted, undone>>
  BY DEF Breaks, DirtyIdle
<1>3. TypeOK'
  <2>1. CASE Leaves(t)
    BY <1>1, <2>1, LeavesType, EndsType DEF Breaks, TypeOK
  <2>2. CASE phase[t] # "run" /\ UNCHANGED <<phase, todo, cur, mem, counted, undone>>
    BY <1>1, <2>2, EndsType DEF Breaks, TypeOK
  <2>3. QED
    BY <1>2, <2>1, <2>2
<1>4. /\ phase'[t] # "run" /\ mem'[t] = NoText /\ cur'[t] = None
      /\ \A u \in Threads \ {t} :
            /\ phase'[u] = phase[u] /\ todo'[u] = todo[u] /\ cur'[u] = cur[u]
            /\ mem'[u] = mem[u] /\ counted'[u] = counted[u] /\ undone'[u] = undone[u]
  <2>1. CASE Leaves(t)
    BY <2>1, LeavesOthers
  <2>2. CASE phase[t] # "run" /\ UNCHANGED <<phase, todo, cur, mem, counted, undone>>
    BY <2>2 DEF TypeOK, CurLoaded
  <2>3. QED
    BY <1>2, <2>1, <2>2
<1>5. LocksApart'
  BY <1>1, EndsType DEF LocksApart
<1>6. Handled' /\ CurLoaded'
  BY <1>1, <1>4, EndsType, EmptyIs DEF Handled, CurLoaded
<1>7. PutFresh' /\ MemFresh' /\ RevertsOnlyInWindow'
  BY <1>1, <1>4, EndsType, EmptyIs DEF PutFresh, MemFresh, RevertsOnlyInWindow, Breaks
<1>8. ReportIsStored' /\ DirtyIdle'
  BY <1>1, <1>4, EndsType DEF ReportIsStored, DirtyIdle, Ends, TypeOK
<1>9. CountedPast'
  BY NoneAssumption DEF CountedPast, Breaks, Leaves, TypeOK
<1>10. QED
  BY <1>3, <1>5, <1>6, <1>7, <1>8, <1>9

(* What a function has left to write is locked and written.               *)
LEMMA DirtyFlushesInv ==
  ASSUME IInv, NEW t \in Threads, DirtyFlushes(t)
  PROVE  IInv'
<1> USE DEF IInv
<1>1. TypeOK'
  BY DEF DirtyFlushes, TypeOK
<1>2. LocksApart'
  BY DEF LocksApart, DirtyFlushes, LockFree, TypeOK
<1>3. Handled'
  BY DEF Handled, DirtyFlushes, TypeOK
<1>4. QED
  BY <1>1, <1>2, <1>3 DEF DirtyFlushes, DirtyIdle, CountedPast, CurLoaded, PutFresh, MemFresh,
       RevertsOnlyInWindow, ReportIsStored, TypeOK
-----------------------------------------------------------------------------
(* A commit stores what was written, and that was fresh. *)
LEMMA StoredFresh ==
  ASSUME TypeOK, RevertsOnlyInWindow, PutFresh, NEW t \in Threads
  PROVE  \A d \in Domains : Stored(t)[d] # newest[d] => d \in window
  BY StoredIs DEF RevertsOnlyInWindow, PutFresh

LEMMA RunCommitsInv ==
  ASSUME IInv, NEW t \in Threads, RunCommits(t)
  PROVE  IInv'
<1> USE DEF IInv
<1>1. Leaves(t) /\ Ends(t)
  BY DEF RunCommits
<1>2. text' \in [Domains -> Texts]
  BY StoredIs DEF RunCommits
<1>3. TypeOK'
  BY <1>1, <1>2, LeavesType, EndsType DEF RunCommits, TypeOK
<1>4. LocksApart'
  BY <1>1, EndsType DEF LocksApart
<1>5. Handled' /\ CurLoaded'
  BY <1>1, LeavesOthers, EndsType, EmptyIs DEF Handled, CurLoaded
<1>6. PutFresh' /\ MemFresh'
  BY <1>1, LeavesOthers, EndsType, EmptyIs DEF PutFresh, MemFresh, RunCommits
<1>7. RevertsOnlyInWindow'
  BY StoredFresh DEF RevertsOnlyInWindow, RunCommits
<1>8. ReportIsStored'
  BY <1>1, LeavesOthers, EndsType DEF ReportIsStored
<1>9. DirtyIdle'
  BY <1>1, LeavesOthers DEF DirtyIdle, Ends, TypeOK
<1>10. CountedPast'
  BY <1>1, NoneAssumption DEF CountedPast, Leaves, TypeOK
<1>11. QED
  BY <1>3, <1>4, <1>5, <1>6, <1>7, <1>8, <1>9, <1>10

(* The steps of a thread that runs no function end its transaction and no  *)
(* more.                                                                   *)
LEMMA OtherInv ==
  ASSUME IInv, NEW t \in Threads, Other(t), ~DirtyFlushes(t)
  PROVE  IInv'
<1> USE DEF IInv
<1>1. phase[t] # "run" /\ Ends(t)
  BY DEF Other, JobCommits, AgentJobFails, ViewCommits, Teardown
<1>2. /\ text' = text \/ text' = Stored(t)
      /\ \A u \in Threads : phase'[u] = phase[u] \/ (u = t /\ phase'[u] = "idle")
      /\ phase' \in [Threads -> {"idle", "run", "over"}]
      /\ broken' \in [Threads -> BOOLEAN]
      /\ UNCHANGED <<todo, cur, mem, counted, undone, runs, newest, window>>
  BY DEF Other, JobCommits, AgentJobFails, ViewCommits, Teardown, TypeOK
<1>3. text' \in [Domains -> Texts]
  BY <1>2, StoredIs DEF TypeOK
<1>4. mem[t] = NoText /\ counted[t] = {} /\ cur[t] = None
  BY <1>1 DEF TypeOK, CurLoaded
<1>5. TypeOK'
  <2>1. \A u \in Threads : phase'[u] # "run" => mem'[u] = NoText /\ counted'[u] = {}
    BY <1>2, <1>4 DEF TypeOK
  <2>2. QED
    BY <1>1, <1>2, <1>3, <2>1, EndsType DEF TypeOK
<1>6. LocksApart'
  BY <1>1, EndsType DEF LocksApart
<1>7. Handled'
  BY <1>1, <1>2, <1>4, EndsType, EmptyIs DEF Handled
<1>8. CurLoaded'
  BY <1>2, <1>4 DEF CurLoaded
<1>9. PutFresh' /\ MemFresh'
  BY <1>1, <1>2, EndsType, EmptyIs DEF PutFresh, MemFresh
<1>10. RevertsOnlyInWindow'
  BY <1>2, StoredFresh DEF RevertsOnlyInWindow
<1>11. ReportIsStored'
  BY <1>1, <1>2, <1>4, EndsType DEF ReportIsStored
<1>12. DirtyIdle'
  BY <1>1, <1>2 DEF DirtyIdle, Ends, TypeOK
<1>13. CountedPast'
  BY <1>2 DEF CountedPast
<1>14. QED
  BY <1>5, <1>6, <1>7, <1>8, <1>9, <1>10, <1>11, <1>12, <1>13

LEMMA RestartInv ==
  ASSUME IInv, Restart
  PROVE  IInv'
<1> USE DEF IInv
<1>1. TypeOK'
  BY EmptyIs DEF Restart, TypeOK
<1>2. QED
  BY <1>1, EmptyIs DEF Restart, DirtyIdle, CountedPast, LocksApart, Handled, CurLoaded, PutFresh, MemFresh,
       RevertsOnlyInWindow, ReportIsStored

LEMMA RunInv ==
  ASSUME IInv, NEW t \in Threads, Run(t)
  PROVE  IInv'
<1>1. CASE \E D \in {Domains} \union {{d} : d \in Domains} : RunBegin(t, D)
  <2>1. PICK D \in {Domains} \union {{d} : d \in Domains} : RunBegin(t, D)
    BY <1>1
  <2>2. D \in SUBSET Domains
    OBVIOUS
  <2>3. QED
    BY <2>1, <2>2, RunBeginInv
<1>2. CASE \E d \in Domains : Item(t, d)
  BY <1>2, ItemInv
<1>3. CASE Writes(t, TRUE) \/ Writes(t, FALSE)
  BY <1>3, WritesInv
<1>4. CASE UpsertFails(t)
  BY <1>4, UpsertFailsInv
<1>5. CASE Raises(t)
  BY <1>5, RaisesInv
<1>6. CASE StatementFails(t) \/ Deadlock(t)
  BY <1>6, BreaksInv DEF StatementFails, Deadlock
<1>7. CASE RunCommits(t)
  BY <1>7, RunCommitsInv
<1>8. QED
  BY <1>1, <1>2, <1>3, <1>4, <1>5, <1>6, <1>7 DEF Run

LEMMA StepInv ==
  ASSUME IInv, Step
  PROVE  IInv'
<1>1. CASE \E d \in Domains : Register(d)
  BY <1>1, RegisterInv
<1>2. CASE \E t \in Threads : Run(t)
  BY <1>2, RunInv
<1>3. CASE \E t \in Threads : Other(t)
  BY <1>3, OtherInv, DirtyFlushesInv
<1>4. CASE Restart
  BY <1>4, RestartInv
<1>5. CASE UNCHANGED vars
  BY <1>5 DEF vars, session, IInv, TypeOK, LocksApart, Handled, CurLoaded, DirtyIdle, CountedPast, PutFresh, MemFresh,
       RevertsOnlyInWindow, ReportIsStored
<1>6. QED
  BY <1>1, <1>2, <1>3, <1>4, <1>5 DEF Step, Next

THEOREM Inductive == Spec => []IInv
<1>1. IInv /\ [Next]_vars => IInv'
  BY StepInv DEF Step
<1>2. QED
  BY InitInv, <1>1, PTL DEF Spec
-----------------------------------------------------------------------------
(* TypeOK: every variable keeps its type, what is written is locked, and a *)
(* thread that runs no function holds no text.                             *)
THEOREM TypeCorrect == Spec => []TypeOK
<1>1. IInv => TypeOK
  BY DEF IInv
<1>2. QED
  BY Inductive, <1>1, PTL

(* RevertsOnlyInWindow: only a registration between a run's reading of the *)
(* text and its coming to the domain is put back, for any number of        *)
(* threads, runs and failures.                                             *)
THEOREM RevertSafe == Spec => []RevertsOnlyInWindow
<1>1. IInv => RevertsOnlyInWindow
  BY DEF IInv
<1>2. QED
  BY Inductive, <1>1, PTL

(* ReportIsStored: the domains a run counts and will not commit are those  *)
(* it had counted when its last upsert failed, no more and no fewer.       *)
THEOREM ReportSafe == Spec => []ReportIsStored
<1>1. IInv => ReportIsStored
  BY DEF IInv
<1>2. QED
  BY Inductive, <1>1, PTL
=============================================================================
