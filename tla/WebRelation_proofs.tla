-------------------------- MODULE WebRelation_proofs --------------------------
(***************************************************************************)
(* Proofs about WebRelation: what a refresh leaves in the tables when it   *)
(* runs by itself, and what overlapping ones may double.                   *)
(***************************************************************************)
EXTENDS WebRelation, TLAPS

-----------------------------------------------------------------------------
(* The inductive invariant.  A transaction is sole while nothing else has  *)
(* happened since it began; what it has read is then what is committed.    *)

Sole(t) == t \in Open /\ alone[t]
Found(t) == pc[t] \in {"flush", "load", "read", "write"}
Storing(t) == pc[t] \in {"read", "write"}
Ours(t, w) == t = w \/ t = Sync                   \* webs whose rows t refreshes
Has(t, c, w) == link[<<c, w>>] > 0 /\ Row(t, w).svr

\* What a transaction holds in each phase.
Phase(t) ==
    /\ pc[t] = "idle" => DOMAIN mem[t] = {} /\ DOMAIN put[t] = {}
    /\ pc[t] = "upsert" => t # Sync /\ DOMAIN put[t] = {}
    /\ pc[t] = "load" => t = Sync
    /\ t # Sync => /\ pc[t] # "idle" => DOMAIN mem[t] = {t} /\ todo[t] \subseteq {t}
                   /\ pc[t] \in {"upsert", "conns", "flush"} => todo[t] = {t}
                   /\ pc[t] \notin {"idle", "upsert"} => DOMAIN put[t] = {t}
    /\ t = Sync => /\ ~Storing(t) => DOMAIN mem[t] = {} /\ DOMAIN put[t] = {}
                   /\ Storing(t) => DOMAIN mem[t] = Webs
    /\ ~Found(t) => ins[t] = {} /\ del[t] = {}
    /\ ~Storing(t) => rins[t] = {} /\ rdel[t] = {}
    /\ pc[t] = "write" => cur[t] \in todo[t]

PhaseInv == \A t \in Txs : Phase(t)

SoleInv == \A t \in Txs : Sole(t) => Open = {t}

\* Rows a transaction adds are not there, unless two have been open.
OneInv ==
    overlapped \/
        /\ \A t, u \in Open : t = u
        /\ \A p \in Pairs : link[p] <= 1
        /\ \A q \in Was \X Webs : rel[q] <= 1
        /\ \A t \in Txs : /\ \A p \in ins[t] : link[p] = 0
                          /\ \A q \in rins[t] : rel[q] = 0 \/ q \in rdel[t]

\* The rows in memory are the committed ones.
MemKept(t) == \A w \in DOMAIN mem[t] : mem[t][w] = web[w]

\* What is written differs from them by the upsert and the flags.
PutKept(t) ==
    \A w \in DOMAIN put[t] :
        /\ put[t][w].used = web[w].used
        /\ t = Sync => /\ put[t][w].svr = web[w].svr /\ put[t][w].home = web[w].home
                       /\ w \notin todo[t]
        /\ t = w /\ w \in todo[t] =>
              /\ put[t][w].built = BuiltAtUpsert(web[w].built, put[t][w].home)
              /\ put[t][w].newgen = web[w].newgen
        /\ web[w].built = "Isolated" => put[t][w].built = "Isolated" \/ (t = w /\ put[t][w].home)

\* The links to add and to remove are those that are missing and too many.
LinksKept(t) ==
    Found(t) => \A c \in Conns, w \in Webs :
        /\ <<c, w>> \in ins[t] <=> c \in Candidates(t) /\ Reaches(Rows(t), c, w) /\ ~Has(t, c, w)
        /\ <<c, w>> \in del[t] <=> c \in Candidates(t) /\ ~Reaches(Rows(t), c, w) /\ Has(t, c, w)

\* So are the domains of the webs that are done, and only of these.
RelKept(t) ==
    Storing(t) =>
        /\ \A w \in Webs : w \in todo[t] \/ ~Ours(t, w) =>
              \A a \in Was : <<a, w>> \notin rins[t] /\ <<a, w>> \notin rdel[t]
        /\ \A w \in Webs : w \notin todo[t] /\ Ours(t, w) =>
              SeenRel(t, w) = Serves(Rows(t), SeenLinks(t), w)
        /\ pc[t] = "write" => linked[t] = Serves(Rows(t), SeenLinks(t), cur[t])

\* Their flags follow, unless the home has changed.
FlagsKept(t) ==
    Storing(t) => \A w \in Webs :
        w \notin todo[t] /\ Ours(t, w) /\ Row(t, w).used /\ Row(t, w).home = web[w].home =>
            /\ Row(t, w).built \in {"Isolated", BuiltBy(Row(t, w).home, SeenRel(t, w))}
            /\ Row(t, w).newgen = NewgenBy(SeenRel(t, w))

Kept(t) == MemKept(t) /\ PutKept(t) /\ LinksKept(t) /\ RelKept(t) /\ FlagsKept(t)

KeptInv == \A t \in Txs : Sole(t) => Kept(t)

IInv ==
    /\ TypeOK /\ PhaseInv /\ SoleInv /\ OneInv /\ KeptInv
    /\ SyncedIsExact /\ SyncedFlags /\ FreshIsLinked
-----------------------------------------------------------------------------
(* Rows: partial functions on the webs, and what a transaction sees.       *)
LEMMA PartialIs ==
  ASSUME NEW f \in PartialRows
  PROVE  DOMAIN f \subseteq Webs /\ \A w \in DOMAIN f : f[w] \in Columns
  BY DEF PartialRows

LEMMA PartialMake ==
  ASSUME NEW D \in SUBSET Webs, NEW f \in [D -> Columns]
  PROVE  f \in PartialRows
  BY DEF PartialRows

LEMMA NoRowIs == NoRow \in PartialRows /\ DOMAIN NoRow = {}
<1>1. NoRow \in [{} -> Columns]
  BY DEF NoRow
<1>2. QED
  BY <1>1, PartialMake DEF NoRow

LEMMA RowIs ==
  ASSUME TypeOK, NEW t \in Txs, NEW w \in Webs
  PROVE  Row(t, w) \in Columns
<1>1. put[t] \in PartialRows /\ web \in [Webs -> Columns]
  BY DEF TypeOK
<1>2. QED
  BY <1>1, PartialIs DEF Row

LEMMA RowsIs ==
  ASSUME TypeOK, NEW t \in Txs
  PROVE  Rows(t) \in [Webs -> Columns] /\ \A w \in Webs : Rows(t)[w] = Row(t, w)
  BY RowIs DEF Rows

LEMMA WebIs == \A w \in Webs : w \in Txs /\ w # Sync
  BY SyncAssumption DEF Txs
-----------------------------------------------------------------------------
LEMMA TypeInit == Init => TypeOK
<1>1. SUFFICES ASSUME Init PROVE TypeOK
  OBVIOUS
<1>2. 0 \in 0..MaxTx /\ 0 \in 0..MaxEdits
  BY BoundAssumption
<1>3. conf \in [Conns -> Confs \union {Gone}] /\ usedWas \in SUBSET Was /\ web \in [Webs -> Columns]
  BY <1>1 DEF Init
<1>4. link \in [Pairs -> Nat] /\ rel \in [Was \X Webs -> Nat]
  BY <1>1 DEF Init
<1>5. mem \in [Txs -> PartialRows] /\ put \in [Txs -> PartialRows]
  BY <1>1, NoRowIs DEF Init
<1>6. pc \in [Txs -> {"idle", "upsert", "conns", "flush", "load", "read", "write"}]
      /\ alone \in [Txs -> BOOLEAN] /\ cur \in [Txs -> Txs] /\ todo \in [Txs -> SUBSET Webs]
  BY <1>1 DEF Init
<1>7. ins \in [Txs -> SUBSET Pairs] /\ del \in [Txs -> SUBSET Pairs]
      /\ linked \in [Txs -> SUBSET Was]
      /\ rins \in [Txs -> SUBSET (Was \X Webs)] /\ rdel \in [Txs -> SUBSET (Was \X Webs)]
  BY <1>1 DEF Init
<1>8. QED
  BY <1>1, <1>2, <1>3, <1>4, <1>5, <1>6, <1>7 DEF Init, TypeOK

LEMMA ResetTypes ==
  ASSUME TypeOK, NEW t \in Txs, Reset(t)
  PROVE  /\ pc' \in [Txs -> {"idle", "upsert", "conns", "flush", "load", "read", "write"}]
         /\ alone' \in [Txs -> BOOLEAN]
         /\ mem' \in [Txs -> PartialRows] /\ put' \in [Txs -> PartialRows]
         /\ ins' \in [Txs -> SUBSET Pairs] /\ del' \in [Txs -> SUBSET Pairs]
         /\ todo' \in [Txs -> SUBSET Webs] /\ cur' \in [Txs -> Txs]
         /\ linked' \in [Txs -> SUBSET Was]
         /\ rins' \in [Txs -> SUBSET (Was \X Webs)] /\ rdel' \in [Txs -> SUBSET (Was \X Webs)]
<1>1. mem' \in [Txs -> PartialRows] /\ put' \in [Txs -> PartialRows]
  BY NoRowIs DEF TypeOK, Reset
<1>2. QED
  BY <1>1 DEF TypeOK, Reset

LEMMA BeginsTypes ==
  ASSUME TypeOK, NEW t \in Txs, Begins(t)
  PROVE  begun' \in 0..MaxTx /\ alone' \in [Txs -> BOOLEAN] /\ overlapped' \in BOOLEAN
<1>1. begun' \in 0..MaxTx
  BY BoundAssumption DEF TypeOK, Begins
<1>2. alone' \in [Txs -> BOOLEAN]
  BY DEF TypeOK, Begins
<1>3. QED
  BY <1>1, <1>2 DEF TypeOK, Begins

LEMMA RegisterReadTypes ==
  ASSUME TypeOK, NEW w \in Webs, RegisterRead(w)
  PROVE  TypeOK'
<1>1. [x \in {w} |-> web[w]] \in PartialRows
  <2>1. [x \in {w} |-> web[w]] \in [{w} -> Columns]
    BY DEF TypeOK
  <2>2. QED
    BY <2>1, PartialMake
<1>2. begun' \in 0..MaxTx /\ alone' \in [Txs -> BOOLEAN] /\ overlapped' \in BOOLEAN
  BY WebIs, BeginsTypes DEF RegisterRead
<1>3. mem' \in [Txs -> PartialRows]
  BY <1>1 DEF RegisterRead, TypeOK
<1>4. QED
  BY <1>2, <1>3, WebIs DEF RegisterRead, TypeOK, tables

LEMMA RegisterUpsertTypes ==
  ASSUME TypeOK, NEW w \in Webs, RegisterUpsert(w)
  PROVE  TypeOK'
<1>1. PICK svr \in BOOLEAN, home \in BOOLEAN :
         put' = [put EXCEPT ![w] = [x \in {w} |->
                    [web[w] EXCEPT !.svr = svr, !.home = home,
                                   !.built = BuiltAtUpsert(@, home)]]]
  BY DEF RegisterUpsert
<1> DEFINE row == [web[w] EXCEPT !.svr = svr, !.home = home, !.built = BuiltAtUpsert(@, home)]
<1>2. row \in Columns
  <2>1. web[w] \in Columns
    BY DEF TypeOK
  <2>2. BuiltAtUpsert(web[w].built, home) \in Built
    BY <2>1 DEF Columns, BuiltAtUpsert, Built
  <2>3. QED
    BY <2>1, <2>2 DEF Columns
<1>3. [x \in {w} |-> row] \in [{w} -> Columns]
  BY <1>2
<1>4. [x \in {w} |-> row] \in PartialRows
  BY <1>3, PartialMake
<1>5. put' \in [Txs -> PartialRows]
  BY <1>1, <1>4 DEF TypeOK
<1>6. QED
  BY <1>5, WebIs DEF RegisterUpsert, TypeOK, tables, ghosts

LEMMA ConnsReadTypes ==
  ASSUME TypeOK, NEW t \in Txs, ConnsRead(t)
  PROVE  TypeOK'
<1>1. Candidates(t) \subseteq Conns
  BY DEF Candidates
<1>2. {p \in Candidates(t) \X Webs : p[2] \in ToAdd(t, p[1])} \in SUBSET Pairs
      /\ {p \in Candidates(t) \X Webs : p[2] \in ToRemove(t, p[1])} \in SUBSET Pairs
  BY <1>1 DEF Pairs
<1>3. ins' \in [Txs -> SUBSET Pairs] /\ del' \in [Txs -> SUBSET Pairs]
  BY <1>2 DEF TypeOK, ConnsRead
<1>4. QED
  BY <1>3 DEF TypeOK, ConnsRead, tables, ghosts

LEMMA FlaggedIs ==
  ASSUME TypeOK, NEW t \in Txs, NEW w \in Webs
  PROVE  /\ Flagged(t, w) \in Columns
         /\ Flagged(t, w).svr = Row(t, w).svr /\ Flagged(t, w).home = Row(t, w).home
         /\ Flagged(t, w).used = Row(t, w).used
         /\ Flagged(t, w).built = IF NewBuilt(t, w) = mem[t][w].built THEN Row(t, w).built
                                                                      ELSE NewBuilt(t, w)
         /\ Flagged(t, w).newgen = IF NewNewgen(t, w) = mem[t][w].newgen THEN Row(t, w).newgen
                                                                         ELSE NewNewgen(t, w)
<1>1. Row(t, w) \in Columns
  BY RowIs
<1>2. NewBuilt(t, w) \in Built /\ NewNewgen(t, w) \in BOOLEAN
  BY DEF NewBuilt, NewNewgen, BuiltBy, NewgenBy, Built
<1>3. QED
  BY <1>1, <1>2 DEF Flagged, Columns

LEMMA WebWriteTypes ==
  ASSUME TypeOK, PhaseInv, NEW t \in Txs, WebWrite(t)
  PROVE  TypeOK'
<1> DEFINE w == cur[t]
           rows == [x \in DOMAIN put[t] \union {w} |-> IF x = w THEN Flagged(t, w) ELSE put[t][x]]
<1>1. w \in Webs
  BY DEF PhaseInv, Phase, WebWrite, TypeOK
<1>2. put[t] \in PartialRows
  BY DEF TypeOK
<1>3. DOMAIN put[t] \union {w} \in SUBSET Webs /\ rows \in [DOMAIN put[t] \union {w} -> Columns]
  BY <1>1, <1>2, FlaggedIs, PartialIs
<1>4. rows \in PartialRows
  BY <1>3, PartialMake
<1>5. put' \in [Txs -> PartialRows]
  BY <1>4 DEF WebWrite, TypeOK
<1>6. SeenRel(t, w) \subseteq Was /\ linked[t] \subseteq Was
  BY DEF SeenRel, TypeOK
<1>7. rins' \in [Txs -> SUBSET (Was \X Webs)]
  BY <1>1, <1>6 DEF WebWrite, TypeOK
<1>8. rdel' \in [Txs -> SUBSET (Was \X Webs)]
  BY <1>1, <1>6 DEF WebWrite, TypeOK
<1>9. QED
  BY <1>5, <1>7, <1>8 DEF WebWrite, TypeOK, tables, ghosts

LEMMA CommitTypes ==
  ASSUME TypeOK, NEW t \in Txs, Commit(t)
  PROVE  TypeOK'
<1>1. web' \in [Webs -> Columns]
  BY RowsIs DEF Commit
<1>2. link' \in [Pairs -> Nat]
  BY DEF Commit, TypeOK
<1>3. rel' \in [Was \X Webs -> Nat]
  BY DEF Commit, TypeOK
<1>4. fresh' \in SUBSET Webs /\ rehomed' \in SUBSET Webs /\ synced' \in BOOLEAN
  <2>1. alone[t] \in BOOLEAN /\ synced \in BOOLEAN
    BY DEF TypeOK
  <2>2. QED
    BY <2>1 DEF Commit, TypeOK, Txs, Hidden
<1>5. Reset(t)
  BY DEF Commit
<1>6. QED
  BY <1>1, <1>2, <1>3, <1>4, <1>5, ResetTypes DEF Commit, TypeOK

LEMMA EditTypes ==
  ASSUME TypeOK, Edit
  PROVE  TypeOK'
<1>1. \A e \in 0..MaxEdits : e < MaxEdits => e + 1 \in 0..MaxEdits
  BY BoundAssumption
<1>2. Disturbs => edits' \in 0..MaxEdits /\ alone' \in [Txs -> BOOLEAN]
  BY <1>1 DEF Disturbs, TypeOK
<1>3. ASSUME NEW a \in Was, DomainRegister(a) PROVE TypeOK'
  <2>1. PICK k \in [{c \in Conns : Owner[c] = a} -> Confs \union {Gone}] :
           /\ conf' = [c \in Conns |-> IF Owner[c] = a THEN k[c] ELSE conf[c]]
           /\ link' = [p \in Pairs |-> IF p[1] \in DOMAIN k /\ k[p[1]] = Gone THEN 0 ELSE link[p]]
    BY <1>3 DEF DomainRegister
  <2>2. conf' \in [Conns -> Confs \union {Gone}] /\ link' \in [Pairs -> Nat]
    BY <2>1 DEF TypeOK
  <2>3. QED
    BY <1>2, <1>3, <2>2 DEF DomainRegister, Disturbs, TypeOK
<1>4. ASSUME NEW a \in Was, UseWas(a) PROVE TypeOK'
  BY <1>2, <1>4 DEF UseWas, Disturbs, TypeOK
<1>5. ASSUME NEW w \in Webs, UseWeb(w) PROVE TypeOK'
  <2>1. web' \in [Webs -> Columns]
    <3>1. web[w] \in Columns
      BY DEF TypeOK
    <3>2. [web[w] EXCEPT !.used = ~@] \in Columns
      BY <3>1 DEF Columns
    <3>3. web' = [web EXCEPT ![w] = [web[w] EXCEPT !.used = ~@]]
      BY <1>5 DEF UseWeb
    <3>4. QED
      BY <3>2, <3>3 DEF TypeOK
  <2>2. QED
    BY <1>2, <1>5, <2>1 DEF UseWeb, Disturbs, TypeOK
<1>6. ASSUME NEW w \in Webs, Isolate(w) PROVE TypeOK'
  <2>1. web' \in [Webs -> Columns]
    <3>1. web[w] \in Columns
      BY DEF TypeOK
    <3>2. [web[w] EXCEPT !.built = "Isolated"] \in Columns
      BY <3>1 DEF Columns, Built
    <3>3. web' = [web EXCEPT ![w] = [web[w] EXCEPT !.built = "Isolated"]]
      BY <1>6 DEF Isolate
    <3>4. QED
      BY <3>2, <3>3 DEF TypeOK
  <2>2. QED
    BY <1>2, <1>6, <2>1 DEF Isolate, Disturbs, TypeOK
<1>7. QED
  BY <1>3, <1>4, <1>5, <1>6 DEF Edit

LEMMA TypeStep ==
  ASSUME TypeOK, PhaseInv, [Next]_vars
  PROVE  TypeOK'
<1>1. ASSUME NEW w \in Webs, RegisterRead(w) \/ RegisterUpsert(w) PROVE TypeOK'
  BY <1>1, RegisterReadTypes, RegisterUpsertTypes
<1>2. Sync \in Txs
  BY DEF Txs
<1>3. ASSUME SyncBegin PROVE TypeOK'
  <2>1. begun' \in 0..MaxTx /\ alone' \in [Txs -> BOOLEAN] /\ overlapped' \in BOOLEAN
    BY <1>2, <1>3, BeginsTypes DEF SyncBegin
  <2>2. QED
    BY <1>3, <2>1 DEF SyncBegin, TypeOK, tables
<1>4. ASSUME SyncLoad PROVE TypeOK'
  <2>1. web \in PartialRows
    BY PartialMake DEF TypeOK
  <2>2. mem' \in [Txs -> PartialRows]
    BY <1>4, <2>1 DEF SyncLoad, TypeOK
  <2>3. QED
    BY <1>4, <2>2 DEF SyncLoad, TypeOK, tables, ghosts
<1>5. ASSUME NEW t \in Txs, Step(t) PROVE TypeOK'
  <2>1. ASSUME ConnsFlush(t) PROVE TypeOK'
    BY <2>1 DEF ConnsFlush, TypeOK, tables, ghosts
  <2>2. ASSUME Fail(t) PROVE TypeOK'
    BY <2>2, ResetTypes DEF Fail, TypeOK, tables, ghosts
  <2>3. ASSUME NEW w \in Webs, WebRead(t, w) PROVE TypeOK'
    <3>1. Serves(mem[t], SeenLinks(t), w) \subseteq Was
      BY DEF Serves, TypeOK
    <3>2. linked' \in [Txs -> SUBSET Was] /\ cur' \in [Txs -> Txs]
      BY <2>3, <3>1, WebIs DEF WebRead, TypeOK
    <3>3. QED
      BY <2>3, <3>2 DEF WebRead, TypeOK, tables, ghosts
  <2>4. QED
    BY <1>5, <2>1, <2>2, <2>3, ConnsReadTypes, WebWriteTypes, CommitTypes DEF Step
<1>6. ASSUME UNCHANGED vars PROVE TypeOK'
  BY <1>6 DEF vars, tables, tx, ghosts, TypeOK
<1>7. QED
  BY <1>1, <1>3, <1>4, <1>5, <1>6, EditTypes DEF Next
-----------------------------------------------------------------------------
(* What a step leaves of the transactions other than its own.              *)
Others(t) ==
    \A u \in Txs \ {t} :
        /\ pc'[u] = pc[u] /\ mem'[u] = mem[u] /\ put'[u] = put[u]
        /\ ins'[u] = ins[u] /\ del'[u] = del[u] /\ todo'[u] = todo[u]
        /\ cur'[u] = cur[u] /\ linked'[u] = linked[u]
        /\ rins'[u] = rins[u] /\ rdel'[u] = rdel[u]

LEMMA ResetIs ==
  ASSUME TypeOK, NEW t \in Txs, Reset(t)
  PROVE  /\ Others(t)
         /\ pc'[t] = "idle" /\ alone'[t] = TRUE
         /\ \A u \in Txs \ {t} : alone'[u] = alone[u]
         /\ DOMAIN mem'[t] = {} /\ DOMAIN put'[t] = {}
         /\ ins'[t] = {} /\ del'[t] = {} /\ rins'[t] = {} /\ rdel'[t] = {} /\ todo'[t] = {}
  BY NoRowIs DEF Reset, TypeOK, Others

LEMMA PhaseFrame ==
  ASSUME PhaseInv, NEW t \in Txs, Others(t), Phase(t)'
  PROVE  PhaseInv'
<1>1. ASSUME NEW u \in Txs, u # t PROVE Phase(u)'
  BY <1>1 DEF PhaseInv, Phase, Others, Storing, Found
<1>2. QED
  BY <1>1 DEF PhaseInv, Txs

\* A step of an open transaction that writes no table.
Works(t) ==
    /\ pc[t] # "idle" /\ pc'[t] # "idle" /\ Others(t)
    /\ conf' = conf /\ usedWas' = usedWas /\ web' = web /\ link' = link /\ rel' = rel
    /\ begun' = begun /\ edits' = edits /\ synced' = synced /\ fresh' = fresh
    /\ rehomed' = rehomed /\ overlapped' = overlapped /\ alone' = alone

LEMMA WorksIs ==
  ASSUME TypeOK, NEW t \in Txs,
         \/ t \in Webs /\ RegisterUpsert(t)
         \/ ConnsRead(t) \/ ConnsFlush(t)
         \/ t = Sync /\ SyncLoad
         \/ (\E w \in Webs : WebRead(t, w)) \/ WebWrite(t)
  PROVE  Works(t)
<1> USE DEF Works, Others, TypeOK, tables, ghosts
<1>1. CASE t \in Webs /\ RegisterUpsert(t)
  <2>1. PICK row : put' = [put EXCEPT ![t] = row]
    BY <1>1 DEF RegisterUpsert
  <2>2. QED
    BY <1>1, <2>1 DEF RegisterUpsert
<1>2. CASE ConnsRead(t)
  BY <1>2 DEF ConnsRead
<1>3. CASE ConnsFlush(t)
  BY <1>3 DEF ConnsFlush
<1>4. CASE t = Sync /\ SyncLoad
  BY <1>4 DEF SyncLoad
<1>5. CASE \E w \in Webs : WebRead(t, w)
  BY <1>5 DEF WebRead
<1>6. CASE WebWrite(t)
  BY <1>6 DEF WebWrite
<1>7. QED
  BY <1>1, <1>2, <1>3, <1>4, <1>5, <1>6

LEMMA OpenSame ==
  ASSUME NEW t \in Txs, Works(t)
  PROVE  Open' = Open /\ \A u \in Txs : Sole(u)' <=> Sole(u)
<1>1. Open' = Open
  BY DEF Open, Works, Others
<1>2. QED
  BY <1>1 DEF Sole, Works

\* What is said of the tables stays true while they stay.
LEMMA TablesSame ==
  ASSUME conf' = conf, usedWas' = usedWas, web' = web, link' = link, rel' = rel,
         synced' = synced, fresh' = fresh, rehomed' = rehomed, fresh \subseteq Webs,
         SyncedIsExact, SyncedFlags, FreshIsLinked
  PROVE  (SyncedIsExact /\ SyncedFlags /\ FreshIsLinked)'
<1>1. Linked' = Linked /\ \A w \in Webs : Related(w)' = Related(w)
  BY DEF Linked, Related
<1>2. \A c \in Conns, w \in Webs : Reaches(web, c, w)' <=> Reaches(web, c, w)
  BY DEF Reaches
<1>3. \A w \in Webs : Serves(web, Linked, w)' = Serves(web, Linked, w)
  BY <1>1 DEF Serves
<1>4. SyncedIsExact'
  BY <1>1, <1>2, <1>3 DEF SyncedIsExact, LinksExact, RelExact
<1>5. SyncedFlags'
  BY <1>1 DEF SyncedFlags
<1>6. FreshIsLinked'
  BY <1>1, <1>2 DEF FreshIsLinked
<1>7. QED
  BY <1>4, <1>5, <1>6

LEMMA WorkFrame ==
  ASSUME IInv, NEW t \in Txs, Works(t), TypeOK', Phase(t)',
         overlapped \/ (/\ \A p \in ins'[t] : link[p] = 0
                       /\ \A q \in rins'[t] : rel[q] = 0 \/ q \in rdel'[t]),
         Sole(t) => Kept(t)'
  PROVE  IInv'
<1>1. PhaseInv'
  BY PhaseFrame DEF IInv, Works
<1>2. SoleInv'
  BY OpenSame DEF IInv, SoleInv
<1>3. OneInv'
  BY OpenSame DEF IInv, OneInv, Works, Others
<1>4. KeptInv'
  <2>1. SUFFICES ASSUME NEW u \in Txs, Sole(u)' PROVE Kept(u)'
    BY DEF KeptInv
  <2>2. Sole(u) /\ t \in Open
    BY <2>1, OpenSame DEF Open, Works
  <2>3. u = t
    BY <2>2 DEF IInv, SoleInv
  <2>4. QED
    BY <2>2, <2>3
<1>5. fresh \subseteq Webs
  BY DEF IInv, TypeOK
<1>6. (SyncedIsExact /\ SyncedFlags /\ FreshIsLinked)'
  BY <1>5, TablesSame DEF IInv, Works
<1>7. QED
  BY <1>1, <1>2, <1>3, <1>4, <1>6 DEF IInv
-----------------------------------------------------------------------------
(* Beginning and ending.                                                   *)
LEMMA BeginFrame ==
  ASSUME IInv, NEW t \in Txs, Begins(t), Others(t), TypeOK', Phase(t)', pc'[t] # "idle",
         conf' = conf, usedWas' = usedWas, web' = web, link' = link, rel' = rel,
         synced' = synced, fresh' = fresh, rehomed' = rehomed,
         ins'[t] = {}, rins'[t] = {}, Kept(t)'
  PROVE  IInv'
<1> USE DEF IInv
<1>1. PhaseInv'
  BY PhaseFrame
<1>2. Open' = Open \union {t} /\ t \notin Open
  BY DEF Open, Others, Begins
<1>3. \A u \in Txs : Sole(u)' => u = t /\ Open = {}
  BY <1>2 DEF Sole, Begins, TypeOK
<1>4. SoleInv'
  BY <1>2, <1>3 DEF SoleInv
<1>5. OneInv'
  <2>1. SUFFICES ASSUME ~overlapped' PROVE OneInv'
    BY DEF OneInv
  <2>2. Open = {} /\ ~overlapped
    BY <2>1 DEF Begins
  <2>3. \A u \in Txs : ins'[u] = {} /\ rins'[u] = {}
    BY <2>2 DEF PhaseInv, Phase, Found, Storing, Open, Others
  <2>4. QED
    BY <1>2, <2>2, <2>3 DEF OneInv
<1>6. KeptInv'
  BY <1>3 DEF KeptInv
<1>7. fresh \subseteq Webs
  BY DEF TypeOK
<1>8. (SyncedIsExact /\ SyncedFlags /\ FreshIsLinked)'
  BY <1>7, TablesSame
<1>9. QED
  BY <1>1, <1>4, <1>5, <1>6, <1>8

LEMMA RegisterReadInv ==
  ASSUME IInv, NEW w \in Webs, RegisterRead(w)
  PROVE  IInv'
<1> USE DEF IInv
<1>1. w \in Txs /\ w # Sync
  BY WebIs
<1>2. TypeOK'
  BY RegisterReadTypes
<1>3. Begins(w) /\ Others(w) /\ pc'[w] = "upsert" /\ mem'[w] = [x \in {w} |-> web[w]]
      /\ todo'[w] = {w}
  BY <1>1 DEF RegisterRead, Others, TypeOK
<1>4. /\ DOMAIN put'[w] = {} /\ ins'[w] = {} /\ del'[w] = {} /\ rins'[w] = {} /\ rdel'[w] = {}
      /\ cur'[w] = cur[w]
  BY <1>1 DEF RegisterRead, PhaseInv, Phase, Begins, Found, Storing
<1>5. Phase(w)'
  BY <1>1, <1>3, <1>4 DEF Phase, Found, Storing
<1>6. Kept(w)'
  <2>1. web' = web
    BY DEF RegisterRead, tables
  <2>2. MemKept(w)'
    BY <1>3, <2>1 DEF MemKept
  <2>3. QED
    BY <1>3, <1>4, <2>2 DEF Kept, PutKept, LinksKept, RelKept, FlagsKept, Found, Storing
<1>7. QED
  BY <1>1, <1>2, <1>3, <1>4, <1>5, <1>6, BeginFrame DEF RegisterRead, tables

LEMMA SyncBeginInv ==
  ASSUME IInv, SyncBegin
  PROVE  IInv'
<1> USE DEF IInv
<1>1. Sync \in Txs
  BY DEF Txs
<1>2. TypeOK'
  BY TypeStep DEF Next
<1>3. Begins(Sync) /\ Others(Sync) /\ pc'[Sync] = "conns"
  BY <1>1 DEF SyncBegin, Others, TypeOK
<1>4. /\ DOMAIN put'[Sync] = {} /\ DOMAIN mem'[Sync] = {} /\ ins'[Sync] = {} /\ del'[Sync] = {}
      /\ rins'[Sync] = {} /\ rdel'[Sync] = {}
  BY <1>1 DEF SyncBegin, PhaseInv, Phase, Begins, Found, Storing
<1>5. Phase(Sync)'
  BY <1>1, <1>3, <1>4 DEF Phase, Found, Storing
<1>6. Kept(Sync)'
  BY <1>3, <1>4 DEF Kept, MemKept, PutKept, LinksKept, RelKept, FlagsKept, Found, Storing
<1>7. QED
  BY <1>1, <1>2, <1>3, <1>4, <1>5, <1>6, BeginFrame DEF SyncBegin, tables

LEMMA FailInv ==
  ASSUME IInv, NEW t \in Txs, Fail(t)
  PROVE  IInv'
<1> USE DEF IInv
<1>1. TypeOK'
  BY TypeStep DEF Next, Step
<1>2. /\ Others(t) /\ pc'[t] = "idle" /\ \A u \in Txs \ {t} : alone'[u] = alone[u]
      /\ DOMAIN mem'[t] = {} /\ DOMAIN put'[t] = {}
      /\ ins'[t] = {} /\ del'[t] = {} /\ rins'[t] = {} /\ rdel'[t] = {} /\ todo'[t] = {}
  BY ResetIs DEF Fail
<1>3. Phase(t)'
  BY <1>2 DEF Phase, Found, Storing
<1>4. PhaseInv'
  BY <1>2, <1>3, PhaseFrame
<1>5. t \in Open /\ Open' = Open \ {t}
  BY <1>2 DEF Open, Others, Fail
<1>6. \A u \in Txs : ~Sole(u)'
  BY <1>2, <1>5 DEF SoleInv, Sole
<1>7. SoleInv' /\ KeptInv'
  BY <1>6 DEF SoleInv, KeptInv
<1>8. OneInv'
  BY <1>2, <1>5 DEF OneInv, Fail, tables, ghosts, Others
<1>9. fresh \subseteq Webs
  BY DEF TypeOK
<1>10. (SyncedIsExact /\ SyncedFlags /\ FreshIsLinked)'
  BY <1>9, TablesSame DEF Fail, tables, ghosts
<1>11. QED
  BY <1>1, <1>4, <1>7, <1>8, <1>10
-----------------------------------------------------------------------------
(* What a transaction sees, element by element.                            *)
LEMMA SeenIs ==
  ASSUME NEW t \in Txs, NEW c \in Conns, NEW w \in Webs
  PROVE  <<c, w>> \in SeenLinks(t) <=>
            /\ Row(t, w).svr
            /\ \/ link[<<c, w>>] > 0 /\ <<c, w>> \notin del[t]
               \/ Written(t) /\ <<c, w>> \in ins[t]
<1>1. <<c, w>> \in Pairs
  BY DEF Pairs
<1>2. QED
  BY <1>1 DEF SeenLinks, Linked

LEMMA ReachesIs ==
  ASSUME TypeOK, NEW t \in Txs, NEW c \in Conns, NEW w \in Webs
  PROVE  Reaches(Rows(t), c, w) <=> /\ w \in conf[c].to /\ Owner[c] \in usedWas
                                   /\ Row(t, w).svr /\ Row(t, w).used
  BY RowsIs DEF Reaches

\* A step that leaves the tables and what t has written leaves its view.
LEMMA ViewSame ==
  ASSUME NEW t \in Txs, Works(t), put'[t] = put[t]
  PROVE  /\ \A w : Row(t, w)' = Row(t, w)
         /\ Rows(t)' = Rows(t) /\ Candidates(t)' = Candidates(t)
         /\ \A c, w : Has(t, c, w)' <=> Has(t, c, w)
         /\ \A c \in Conns, w \in Webs : Reaches(Rows(t), c, w)' <=> Reaches(Rows(t), c, w)
<1>1. \A w : Row(t, w)' = Row(t, w)
  BY DEF Row, Works
<1>2. Rows(t)' = Rows(t)
  BY <1>1 DEF Rows
<1>3. Candidates(t)' = Candidates(t)
  BY DEF Candidates, Works
<1>4. QED
  BY <1>1, <1>2, <1>3 DEF Has, Reaches, Works

LEMMA RegisterUpsertInv ==
  ASSUME IInv, NEW w \in Webs, RegisterUpsert(w)
  PROVE  IInv'
<1> USE DEF IInv
<1>1. w \in Txs /\ w # Sync
  BY WebIs
<1>2. TypeOK' /\ Works(w)
  BY <1>1, RegisterUpsertTypes, WorksIs
<1>3. PICK svr \in BOOLEAN, home \in BOOLEAN :
         put' = [put EXCEPT ![w] = [x \in {w} |->
                    [web[w] EXCEPT !.svr = svr, !.home = home,
                                   !.built = BuiltAtUpsert(@, home)]]]
  BY DEF RegisterUpsert
<1>4. /\ pc[w] = "upsert" /\ pc'[w] = "conns" /\ mem' = mem /\ todo' = todo /\ ins' = ins
      /\ del' = del /\ rins' = rins /\ rdel' = rdel /\ web' = web
  BY <1>1 DEF RegisterUpsert, TypeOK, tables
<1>5. /\ DOMAIN put'[w] = {w}
      /\ put'[w][w] = [web[w] EXCEPT !.svr = svr, !.home = home, !.built = BuiltAtUpsert(@, home)]
  BY <1>1, <1>3 DEF TypeOK
<1>6. /\ put'[w][w].used = web[w].used /\ put'[w][w].home = home
      /\ put'[w][w].built = BuiltAtUpsert(web[w].built, home) /\ put'[w][w].newgen = web[w].newgen
  BY <1>5 DEF TypeOK, Columns
<1>7. /\ DOMAIN mem[w] = {w} /\ todo[w] = {w} /\ ins[w] = {} /\ del[w] = {}
      /\ rins[w] = {} /\ rdel[w] = {}
  BY <1>1, <1>4 DEF PhaseInv, Phase, Found, Storing
<1>8. Phase(w)'
  BY <1>1, <1>4, <1>5, <1>7 DEF Phase, Found, Storing
<1>9. Sole(w) => Kept(w)'
  <2>1. SUFFICES ASSUME Sole(w) PROVE Kept(w)'
    OBVIOUS
  <2>2. MemKept(w)'
    BY <1>1, <1>4, <2>1 DEF KeptInv, Kept, MemKept
  <2>3. PutKept(w)'
    BY <1>1, <1>4, <1>5, <1>6, <1>7 DEF PutKept, BuiltAtUpsert
  <2>4. QED
    BY <1>4, <2>2, <2>3 DEF Kept, LinksKept, RelKept, FlagsKept, Found, Storing
<1>10. QED
  BY <1>1, <1>2, <1>4, <1>7, <1>8, <1>9, WorkFrame

LEMMA ConnsReadInv ==
  ASSUME IInv, NEW t \in Txs, ConnsRead(t)
  PROVE  IInv'
<1> USE DEF IInv
<1>1. TypeOK' /\ Works(t)
  BY ConnsReadTypes, WorksIs
<1>2. /\ pc[t] = "conns" /\ pc'[t] = "flush" /\ mem' = mem /\ todo' = todo /\ put' = put
      /\ rins' = rins /\ rdel' = rdel /\ web' = web /\ link' = link
      /\ ins'[t] = {p \in Candidates(t) \X Webs : p[2] \in ToAdd(t, p[1])}
      /\ del'[t] = {p \in Candidates(t) \X Webs : p[2] \in ToRemove(t, p[1])}
  BY DEF ConnsRead, TypeOK, tables
<1>3. /\ del[t] = {} /\ rins[t] = {} /\ rdel[t] = {} /\ ins[t] = {}
      /\ (t # Sync => todo[t] = {t} /\ DOMAIN mem[t] = {t} /\ DOMAIN put[t] = {t})
      /\ (t = Sync => DOMAIN mem[t] = {} /\ DOMAIN put[t] = {})
  BY <1>2 DEF PhaseInv, Phase, Found, Storing
<1>4. Phase(t)'
  BY <1>2, <1>3 DEF Phase, Found, Storing
<1>5. \A c \in Conns, w \in Webs :
         /\ <<c, w>> \in ins'[t] <=> c \in Candidates(t) /\ Reaches(Rows(t), c, w) /\ ~Has(t, c, w)
         /\ <<c, w>> \in del'[t] <=> c \in Candidates(t) /\ ~Reaches(Rows(t), c, w) /\ Has(t, c, w)
  <2>1. SUFFICES ASSUME NEW c \in Conns, NEW w \in Webs
        PROVE  /\ <<c, w>> \in ins'[t] <=>
                     c \in Candidates(t) /\ Reaches(Rows(t), c, w) /\ ~Has(t, c, w)
               /\ <<c, w>> \in del'[t] <=>
                     c \in Candidates(t) /\ ~Reaches(Rows(t), c, w) /\ Has(t, c, w)
    OBVIOUS
  <2>2. <<c, w>> \in SeenLinks(t) <=> Has(t, c, w)
    BY <1>2, <1>3, SeenIs DEF Has
  <2>3. QED
    BY <1>2, <2>2 DEF ToAdd, ToRemove
<1>6. \A p \in ins'[t] : link[p] = 0
  <2>1. SUFFICES ASSUME NEW p \in ins'[t] PROVE link[p] = 0
    OBVIOUS
  <2>2. PICK c \in Conns, w \in Webs : p = <<c, w>>
    BY <1>2 DEF Candidates
  <2>3. Reaches(Rows(t), c, w) /\ ~Has(t, c, w)
    BY <1>5, <2>2
  <2>4. ~(link[<<c, w>>] > 0)
    BY <2>3, ReachesIs DEF Has
  <2>5. link[<<c, w>>] \in Nat
    BY DEF TypeOK, Pairs
  <2>6. QED
    BY <2>2, <2>4, <2>5
<1>7. Sole(t) => Kept(t)'
  <2>1. SUFFICES ASSUME Sole(t) PROVE Kept(t)'
    OBVIOUS
  <2>2. MemKept(t)' /\ PutKept(t)'
    BY <1>2, <2>1 DEF KeptInv, Kept, MemKept, PutKept
  <2>3. LinksKept(t)'
    <3>1. Candidates(t)' = Candidates(t)
      BY <1>1, <1>2, ViewSame
    <3>2. \A c \in Conns, w \in Webs :
             /\ Reaches(Rows(t), c, w)' <=> Reaches(Rows(t), c, w)
             /\ Has(t, c, w)' <=> Has(t, c, w)
      BY <1>1, <1>2, ViewSame
    <3>3. QED
      BY <1>5, <3>1, <3>2 DEF LinksKept
  <2>4. QED
    BY <1>2, <2>2, <2>3 DEF Kept, RelKept, FlagsKept, Storing
<1>8. QED
  BY <1>1, <1>2, <1>3, <1>4, <1>6, <1>7, WorkFrame

LEMMA ConnsFlushInv ==
  ASSUME IInv, NEW t \in Txs, ConnsFlush(t)
  PROVE  IInv'
<1> USE DEF IInv
<1>1. TypeOK' /\ Works(t)
  BY TypeStep, WorksIs DEF Next, Step
<1>2. /\ pc[t] = "flush" /\ pc'[t] = (IF t = Sync THEN "load" ELSE "read")
      /\ mem' = mem /\ todo' = todo /\ put' = put /\ ins' = ins /\ del' = del
      /\ rins' = rins /\ rdel' = rdel /\ web' = web /\ link' = link
  BY DEF ConnsFlush, TypeOK, tables
<1>3. /\ rins[t] = {} /\ rdel[t] = {}
      /\ (t # Sync => todo[t] = {t} /\ DOMAIN mem[t] = {t} /\ DOMAIN put[t] = {t})
      /\ (t = Sync => DOMAIN mem[t] = {} /\ DOMAIN put[t] = {})
  BY <1>2 DEF PhaseInv, Phase, Found, Storing
<1>4. Phase(t)'
  BY <1>2, <1>3 DEF Phase, Found, Storing
<1>5. Sole(t) => Kept(t)'
  <2>1. SUFFICES ASSUME Sole(t) PROVE Kept(t)'
    OBVIOUS
  <2>2. MemKept(t)' /\ PutKept(t)'
    BY <1>2, <2>1 DEF KeptInv, Kept, MemKept, PutKept
  <2>3. LinksKept(t)'
    BY <1>1, <1>2, <2>1, ViewSame DEF LinksKept, KeptInv, Kept, Found
  <2>4. RelKept(t)'
    BY <1>2, <1>3 DEF RelKept, Storing, Ours
  <2>5. FlagsKept(t)'
    BY <1>2, <1>3 DEF FlagsKept, Storing, Ours
  <2>6. QED
    BY <2>2, <2>3, <2>4, <2>5 DEF Kept
<1>6. QED
  BY <1>1, <1>2, <1>3, <1>4, <1>5, WorkFrame DEF OneInv

LEMMA SyncLoadInv ==
  ASSUME IInv, SyncLoad
  PROVE  IInv'
<1> USE DEF IInv
<1>1. Sync \in Txs
  BY DEF Txs
<1>2. TypeOK' /\ Works(Sync)
  BY <1>1, TypeStep, WorksIs DEF Next
<1>3. /\ pc[Sync] = "load" /\ pc'[Sync] = "read"
      /\ mem'[Sync] = web /\ todo'[Sync] = Webs /\ put' = put /\ ins' = ins /\ del' = del
      /\ rins' = rins /\ rdel' = rdel /\ web' = web /\ link' = link
  BY <1>1 DEF SyncLoad, TypeOK, tables
<1>4. rins[Sync] = {} /\ rdel[Sync] = {} /\ DOMAIN put[Sync] = {} /\ DOMAIN web = Webs
  BY <1>1, <1>3 DEF PhaseInv, Phase, Found, Storing, TypeOK
<1>5. Phase(Sync)'
  BY <1>3, <1>4 DEF Phase, Found, Storing
<1>6. Sole(Sync) => Kept(Sync)'
  <2>1. SUFFICES ASSUME Sole(Sync) PROVE Kept(Sync)'
    OBVIOUS
  <2>2. MemKept(Sync)' /\ PutKept(Sync)'
    BY <1>3, <1>4 DEF MemKept, PutKept
  <2>3. LinksKept(Sync)'
    <3>1. Candidates(Sync)' = Candidates(Sync)
      BY <1>2 DEF Candidates, Works
    <3>2. \A c \in Conns, w \in Webs :
             /\ Reaches(Rows(Sync), c, w)' <=> Reaches(Rows(Sync), c, w)
             /\ Has(Sync, c, w)' <=> Has(Sync, c, w)
      BY <1>1, <1>2, <1>3, ViewSame
    <3>3. LinksKept(Sync)
      BY <1>1, <2>1 DEF KeptInv, Kept
    <3>4. Found(Sync)
      BY <1>3 DEF Found
    <3>5. QED
      BY <1>3, <3>1, <3>2, <3>3, <3>4 DEF LinksKept
  <2>4. RelKept(Sync)'
    BY <1>3, <1>4 DEF RelKept, Storing, Ours
  <2>5. FlagsKept(Sync)'
    BY <1>3, <1>4 DEF FlagsKept, Storing, Ours
  <2>6. QED
    BY <2>2, <2>3, <2>4, <2>5 DEF Kept
<1>7. QED
  BY <1>1, <1>2, <1>3, <1>4, <1>5, <1>6, WorkFrame DEF OneInv

\* While a transaction runs the second part, its links stay.
LEMMA LinksSame ==
  ASSUME TypeOK, NEW t \in Txs, Works(t), Storing(t), Storing(t)',
         ins'[t] = ins[t], del'[t] = del[t],
         \A w \in Webs : Row(t, w)'.svr = Row(t, w).svr /\ Row(t, w)'.used = Row(t, w).used,
         TypeOK'
  PROVE  /\ SeenLinks(t)' = SeenLinks(t)
         /\ \A w \in Webs : Serves(Rows(t), SeenLinks(t), w)' = Serves(Rows(t), SeenLinks(t), w)
         /\ LinksKept(t) => LinksKept(t)'
<1>1. Written(t) /\ Written(t)' /\ Found(t) /\ Found(t)'
  BY DEF Written, Found, Storing
<1>2. SeenLinks(t)' = SeenLinks(t)
  <2>1. \A p \in Pairs : p[2] \in Webs
    BY DEF Pairs
  <2>2. Linked' = Linked /\ Linked \subseteq Pairs /\ ins[t] \subseteq Pairs
    BY DEF Linked, Works, TypeOK
  <2>3. QED
    BY <1>1, <2>1, <2>2 DEF SeenLinks
<1>3. \A w \in Webs : Rows(t)'[w].used = Rows(t)[w].used /\ Rows(t)'[w].svr = Rows(t)[w].svr
  BY DEF Rows
<1>4. \A w \in Webs : Serves(Rows(t), SeenLinks(t), w)' = Serves(Rows(t), SeenLinks(t), w)
  BY <1>2, <1>3 DEF Serves, Works
<1>5. \A c \in Conns, w \in Webs : /\ Reaches(Rows(t), c, w)' <=> Reaches(Rows(t), c, w)
                                   /\ Has(t, c, w)' <=> Has(t, c, w)
  BY <1>3 DEF Reaches, Has, Works
<1>6. Candidates(t)' = Candidates(t)
  BY DEF Candidates, Works
<1>7. LinksKept(t) => LinksKept(t)'
  BY <1>1, <1>5, <1>6 DEF LinksKept
<1>8. QED
  BY <1>2, <1>4, <1>7

LEMMA WebReadInv ==
  ASSUME IInv, NEW t \in Txs, NEW w \in Webs, WebRead(t, w)
  PROVE  IInv'
<1> USE DEF IInv
<1>1. TypeOK' /\ Works(t)
  BY TypeStep, WorksIs DEF Next, Step
<1>2. /\ pc[t] = "read" /\ pc'[t] = "write" /\ w \in todo[t] /\ cur'[t] = w
      /\ linked'[t] = Serves(mem[t], SeenLinks(t), w)
      /\ mem' = mem /\ todo' = todo /\ put' = put /\ ins' = ins /\ del' = del
      /\ rins' = rins /\ rdel' = rdel /\ web' = web /\ link' = link /\ rel' = rel
  BY DEF WebRead, TypeOK, tables
<1>3. Phase(t)'
  BY <1>2 DEF PhaseInv, Phase, Found, Storing
<1>4. Storing(t) /\ Storing(t)'
  BY <1>2 DEF Storing
<1>5. \A x : Row(t, x)' = Row(t, x)
  BY <1>1, <1>2, ViewSame
<1>6. /\ SeenLinks(t)' = SeenLinks(t)
      /\ \A x \in Webs : Serves(Rows(t), SeenLinks(t), x)' = Serves(Rows(t), SeenLinks(t), x)
      /\ LinksKept(t) => LinksKept(t)'
  BY <1>1, <1>2, <1>4, <1>5, LinksSame
<1>7. \A x : SeenRel(t, x)' = SeenRel(t, x)
  BY <1>2 DEF SeenRel
<1>8. Sole(t) => Kept(t)'
  <2>1. SUFFICES ASSUME Sole(t) PROVE Kept(t)'
    OBVIOUS
  <2>2. Kept(t)
    BY <2>1 DEF KeptInv
  <2>3. MemKept(t)' /\ PutKept(t)'
    BY <1>2, <2>2 DEF Kept, MemKept, PutKept
  <2>4. w \in DOMAIN mem[t]
    BY <1>2, <1>4 DEF PhaseInv, Phase
  <2>5. mem[t][w].used = Rows(t)[w].used
    BY <2>2, <2>4 DEF Kept, MemKept, PutKept, Rows, Row
  <2>6. linked'[t] = Serves(Rows(t), SeenLinks(t), w)
    BY <1>2, <2>5 DEF Serves
  <2>7. RelKept(t)'
    BY <1>2, <1>4, <1>6, <1>7, <2>2, <2>6 DEF Kept, RelKept
  <2>8. FlagsKept(t)'
    BY <1>2, <1>4, <1>5, <1>7, <2>2 DEF Kept, FlagsKept
  <2>9. QED
    BY <1>6, <2>2, <2>3, <2>7, <2>8 DEF Kept
<1>9. QED
  BY <1>1, <1>2, <1>3, <1>8, WorkFrame DEF OneInv

\* What the flags of a web become, by the row in memory.
LEMMA FlagsAre ==
  ASSUME TypeOK, NEW t \in Txs, NEW w \in Webs, Sole(t), Kept(t),
         w \in DOMAIN mem[t], w \in todo[t], Ours(t, w), web[w].used,
         Row(t, w).home = web[w].home,
         NEW row, row = (IF FlagsDiffer(t, w) THEN Flagged(t, w) ELSE Row(t, w))
  PROVE  /\ row.built \in {"Isolated", BuiltBy(row.home, linked[t])}
         /\ row.newgen = NewgenBy(linked[t])
<1>1. mem[t][w] = web[w]
  BY DEF Kept, MemKept
<1>2. Row(t, w).newgen = web[w].newgen
      /\ Row(t, w).built = IF t = w /\ w \in DOMAIN put[t]
                           THEN BuiltAtUpsert(web[w].built, web[w].home) ELSE web[w].built
  <2>1. CASE w \in DOMAIN put[t]
    BY <2>1 DEF Kept, PutKept, Row, Ours
  <2>2. CASE w \notin DOMAIN put[t]
    BY <2>2 DEF Row
  <2>3. QED
    BY <2>1, <2>2
<1>3. row.home = web[w].home /\ web[w].home \in BOOLEAN
  BY FlaggedIs DEF TypeOK, Columns
<1>4. NewBuilt(t, w) \in {"Isolated", BuiltBy(web[w].home, linked[t])}
      /\ NewNewgen(t, w) = NewgenBy(linked[t])
  BY <1>1 DEF NewBuilt, NewNewgen
<1>5. (Row(t, w).built = "Internal" /\ web[w].home) \/ Row(t, w).built = web[w].built
  BY <1>2 DEF BuiltAtUpsert
<1>6. web[w].home => BuiltBy(web[w].home, linked[t]) = "Internal"
  BY DEF BuiltBy
<1>7. CASE FlagsDiffer(t, w)
  BY <1>1, <1>2, <1>3, <1>4, <1>5, <1>6, <1>7, FlaggedIs
<1>8. CASE ~FlagsDiffer(t, w)
  <2>1. NewBuilt(t, w) = web[w].built /\ NewNewgen(t, w) = web[w].newgen
    BY <1>1, <1>8 DEF FlagsDiffer
  <2>2. QED
    BY <1>2, <1>3, <1>4, <1>5, <1>6, <1>8, <2>1
<1>9. QED
  BY <1>7, <1>8

LEMMA WebWriteInv ==
  ASSUME IInv, NEW t \in Txs, WebWrite(t)
  PROVE  IInv'
<1> USE DEF IInv
<1>0. PICK w \in Webs : w = cur[t]
  BY DEF PhaseInv, Phase, WebWrite, TypeOK
<1>1. TypeOK' /\ Works(t)
  BY WebWriteTypes, WorksIs
<1>2. w \in todo[t] /\ w \in Webs /\ Ours(t, w) /\ w \in DOMAIN mem[t] /\ Storing(t)
      /\ (t # Sync => w = t)
  <2>1. pc[t] = "write" /\ Storing(t)
    BY DEF WebWrite, Storing
  <2>2. Phase(t)
    BY DEF PhaseInv
  <2>3. w \in todo[t] /\ todo[t] \subseteq DOMAIN mem[t]
    BY <1>0, <2>1, <2>2 DEF Phase, Storing, TypeOK
  <2>4. t # Sync => w = t
    BY <1>0, <2>1, <2>2, <2>3 DEF Phase, Storing
  <2>5. QED
    BY <2>1, <2>3, <2>4 DEF Ours
<1>3. /\ pc[t] = "write" /\ pc'[t] = "read" /\ todo'[t] = todo[t] \ {w}
      /\ mem' = mem /\ ins' = ins /\ del' = del /\ linked' = linked /\ cur' = cur
      /\ rdel'[t] = rdel[t] \union {<<a, w>> : a \in SeenRel(t, w) \ linked[t]}
      /\ rins'[t] = rins[t] \union {<<a, w>> : a \in linked[t] \ SeenRel(t, w)}
      /\ web' = web /\ link' = link /\ rel' = rel
  BY <1>0 DEF WebWrite, TypeOK, tables
<1>4. /\ DOMAIN put'[t] = IF FlagsDiffer(t, w) THEN DOMAIN put[t] \union {w} ELSE DOMAIN put[t]
      /\ \A x \in DOMAIN put'[t] : put'[t][x] = IF FlagsDiffer(t, w) /\ x = w
                                                THEN Flagged(t, w) ELSE put[t][x]
  BY <1>0 DEF WebWrite, TypeOK
<1>5. Row(t, w)' = (IF FlagsDiffer(t, w) THEN Flagged(t, w) ELSE Row(t, w))
      /\ \A x \in Webs \ {w} : Row(t, x)' = Row(t, x)
  BY <1>3, <1>4 DEF Row
<1>6. \A x \in Webs : Row(t, x)'.svr = Row(t, x).svr /\ Row(t, x)'.used = Row(t, x).used
                      /\ Row(t, x)'.home = Row(t, x).home
  <2>1. /\ Flagged(t, w).svr = Row(t, w).svr /\ Flagged(t, w).used = Row(t, w).used
        /\ Flagged(t, w).home = Row(t, w).home
    BY FlaggedIs
  <2>2. QED
    BY <1>5, <2>1
<1>7. Phase(t)'
  BY <1>2, <1>3, <1>4 DEF PhaseInv, Phase, Found, Storing
<1>8. Storing(t)'
  BY <1>3 DEF Storing
<1>9. /\ SeenLinks(t)' = SeenLinks(t)
      /\ \A x \in Webs : Serves(Rows(t), SeenLinks(t), x)' = Serves(Rows(t), SeenLinks(t), x)
      /\ LinksKept(t) => LinksKept(t)'
  BY <1>1, <1>2, <1>3, <1>6, <1>8, LinksSame
<1>10. \A q \in rins'[t] : q \in rins[t] \/ rel[q] = 0 \/ q \in rdel'[t]
  <2>1. SUFFICES ASSUME NEW a \in linked[t] \ SeenRel(t, w)
        PROVE  rel[<<a, w>>] = 0 \/ <<a, w>> \in rdel'[t]
    BY <1>3
  <2>2. a \in Was /\ rel[<<a, w>>] \in Nat
    BY <1>2 DEF TypeOK
  <2>3. QED
    BY <1>3, <2>1, <2>2 DEF SeenRel
<1>11. \A x \in Webs \ {w} : SeenRel(t, x)' = SeenRel(t, x)
  BY <1>3 DEF SeenRel
<1>12. Sole(t) => Kept(t)'
  <2>1. SUFFICES ASSUME Sole(t) PROVE Kept(t)'
    OBVIOUS
  <2>2. Kept(t)
    BY <2>1 DEF KeptInv
  <2>3. SeenRel(t, w)' = linked[t]
    <3>1. \A a \in Was : <<a, w>> \notin rins[t] /\ <<a, w>> \notin rdel[t]
      BY <1>2, <2>2 DEF Kept, RelKept
    <3>2. linked[t] \subseteq Was
      BY DEF TypeOK
    <3>3. \A a \in Was : a \in SeenRel(t, w)' <=> a \in linked[t]
      BY <1>3, <3>1 DEF SeenRel
    <3>4. SeenRel(t, w)' \subseteq Was
      BY DEF SeenRel
    <3>5. QED
      BY <3>2, <3>3, <3>4
  <2>4. MemKept(t)'
    BY <1>3, <2>2 DEF Kept, MemKept
  <2>5. PutKept(t)'
    <3>1. SUFFICES ASSUME NEW x \in DOMAIN put'[t]
          PROVE  /\ put'[t][x].used = web[x].used
                 /\ t = Sync => /\ put'[t][x].svr = web[x].svr /\ put'[t][x].home = web[x].home
                                /\ x \notin todo'[t]
                 /\ t = x /\ x \in todo'[t] =>
                       /\ put'[t][x].built = BuiltAtUpsert(web[x].built, put'[t][x].home)
                       /\ put'[t][x].newgen = web[x].newgen
                 /\ web[x].built = "Isolated" =>
                       put'[t][x].built = "Isolated" \/ (t = x /\ put'[t][x].home)
      BY <1>3 DEF PutKept
    <3>2. CASE ~(FlagsDiffer(t, w) /\ x = w)
      BY <1>3, <1>4, <2>2, <3>2 DEF Kept, PutKept
    <3>3. CASE FlagsDiffer(t, w) /\ x = w
      <4>1. put'[t][x] = Flagged(t, w) /\ x \notin todo'[t] /\ mem[t][w] = web[w]
        BY <1>2, <1>3, <1>4, <2>2, <3>3 DEF Kept, MemKept
      <4>2. /\ Row(t, w).used = web[w].used
            /\ t = Sync => Row(t, w).svr = web[w].svr /\ Row(t, w).home = web[w].home
            /\ web[w].built = "Isolated" =>
                  Row(t, w).built = "Isolated" \/ (t = w /\ Row(t, w).home)
        BY <2>2 DEF Kept, PutKept, Row
      <4>3. web[w].built = "Isolated" => NewBuilt(t, w) = mem[t][w].built
        BY <4>1 DEF NewBuilt
      <4>4. QED
        BY <1>2, <3>3, <4>1, <4>2, <4>3, FlaggedIs
    <3>4. QED
      BY <3>2, <3>3
  <2>6. RelKept(t)'
    <3>1. \A x \in Webs : x \in todo'[t] \/ ~Ours(t, x) =>
             \A a \in Was : <<a, x>> \notin rins'[t] /\ <<a, x>> \notin rdel'[t]
      BY <1>2, <1>3, <2>2 DEF Kept, RelKept
    <3>2. \A x \in Webs : x \notin todo'[t] /\ Ours(t, x) =>
             SeenRel(t, x)' = Serves(Rows(t), SeenLinks(t), x)
      BY <1>0, <1>2, <1>3, <1>11, <2>2, <2>3 DEF Kept, RelKept
    <3>3. QED
      BY <1>3, <1>9, <3>1, <3>2 DEF RelKept, Ours
  <2>7. FlagsKept(t)'
    <3>1. SUFFICES ASSUME NEW x \in Webs, x \notin todo'[t], Ours(t, x), Row(t, x)'.used,
                          Row(t, x)'.home = web[x].home
          PROVE  /\ Row(t, x)'.built \in {"Isolated", BuiltBy(Row(t, x)'.home, SeenRel(t, x)')}
                 /\ Row(t, x)'.newgen = NewgenBy(SeenRel(t, x)')
      BY <1>3 DEF FlagsKept, Ours, BuiltBy, NewgenBy
    <3>2. CASE x = w
      <4>1. web[w].used /\ Row(t, w).home = web[w].home
        BY <1>2, <1>6, <2>2, <3>1, <3>2 DEF Kept, PutKept, Row
      <4>2. PICK row : row = (IF FlagsDiffer(t, w) THEN Flagged(t, w) ELSE Row(t, w))
        OBVIOUS
      <4>3. row.built \in {"Isolated", BuiltBy(row.home, linked[t])} /\ row.newgen = NewgenBy(linked[t])
        BY <1>2, <2>1, <2>2, <4>1, <4>2, FlagsAre
      <4>4. Row(t, w)' = row
        BY <1>5, <4>2
      <4>5. QED
        BY <2>3, <3>2, <4>3, <4>4
    <3>3. CASE x # w
      BY <1>2, <1>3, <1>5, <1>11, <2>2, <3>1, <3>3 DEF Kept, FlagsKept
    <3>4. QED
      BY <3>2, <3>3
  <2>8. QED
    BY <1>9, <2>2, <2>4, <2>5, <2>6, <2>7 DEF Kept
<1>13. overlapped \/ (/\ \A p \in ins'[t] : link[p] = 0
                    /\ \A q \in rins'[t] : rel[q] = 0 \/ q \in rdel'[t])
  BY <1>3, <1>10 DEF OneInv
<1>14. QED
  BY <1>1, <1>7, <1>12, <1>13, WorkFrame
-----------------------------------------------------------------------------
(* Edits and registrations of domains: nothing is sole after one.          *)
LEMMA EditInv ==
  ASSUME IInv, Edit
  PROVE  IInv'
<1> USE DEF IInv
<1>1. TypeOK'
  BY EditTypes
<1>2. Disturbs
  BY DEF Edit, DomainRegister, UseWas, UseWeb, Isolate
<1>3. PhaseInv'
  BY <1>2 DEF Disturbs, PhaseInv, Phase, Found, Storing
<1>4. Open' = Open /\ \A t \in Txs : ~Sole(t)'
  BY <1>2 DEF Disturbs, Open, Sole, TypeOK
<1>5. SoleInv' /\ KeptInv'
  BY <1>4 DEF SoleInv, KeptInv
<1>6. \A p \in Pairs : link'[p] <= link[p] /\ link'[p] \in Nat
  <2>1. ASSUME NEW a \in Was, DomainRegister(a), NEW p \in Pairs
        PROVE  link'[p] <= link[p] /\ link'[p] \in Nat
    <3>1. link'[p] = 0 \/ link'[p] = link[p]
      BY <2>1 DEF DomainRegister
    <3>2. QED
      BY <3>1 DEF TypeOK
  <2>2. CASE link' = link
    BY <2>2 DEF TypeOK
  <2>3. QED
    BY <2>1, <2>2 DEF Edit, UseWas, UseWeb, Isolate
<1>7. rel' = rel
  BY DEF Edit, DomainRegister, UseWas, UseWeb, Isolate
<1>8. OneInv'
  <2>1. SUFFICES ASSUME ~overlapped' PROVE OneInv'
    BY DEF OneInv
  <2>2. ~overlapped /\ ins' = ins /\ rins' = rins /\ rdel' = rdel
    BY <1>2, <2>1 DEF Disturbs
  <2>3. \A p \in Pairs : link'[p] <= 1
    BY <1>6, <2>2 DEF OneInv, TypeOK
  <2>4. \A t \in Txs : \A p \in ins'[t] : link'[p] = 0
    <3>1. \A t \in Txs : \A p \in ins[t] : p \in Pairs /\ link[p] = 0
      BY <2>2 DEF OneInv, TypeOK
    <3>2. QED
      BY <1>6, <2>2, <3>1
  <2>5. QED
    BY <1>4, <1>7, <2>2, <2>3, <2>4 DEF OneInv
<1>9. (SyncedIsExact /\ SyncedFlags /\ FreshIsLinked)'
  <2>1. CASE synced' = FALSE /\ fresh' = {}
    BY <2>1 DEF SyncedIsExact, SyncedFlags, FreshIsLinked
  <2>2. ASSUME NEW w \in Webs, Isolate(w)
        PROVE  (SyncedIsExact /\ SyncedFlags /\ FreshIsLinked)'
    <3>1. /\ conf' = conf /\ usedWas' = usedWas /\ link' = link /\ rel' = rel
          /\ synced' = synced /\ fresh' = fresh /\ rehomed' = rehomed
          /\ web' = [web EXCEPT ![w].built = "Isolated"]
      BY <2>2 DEF Isolate, Disturbs
    <3>2. \A x \in Webs : /\ web'[x].used = web[x].used /\ web'[x].svr = web[x].svr
                          /\ web'[x].home = web[x].home /\ web'[x].newgen = web[x].newgen
                          /\ web'[x].built \in {"Isolated", web[x].built}
      BY <3>1 DEF TypeOK, Columns
    <3>3. Linked' = Linked /\ \A x \in Webs : Related(x)' = Related(x)
      BY <3>1 DEF Linked, Related
    <3>4. \A c \in Conns, x \in Webs : Reaches(web, c, x)' <=> Reaches(web, c, x)
      BY <3>1, <3>2 DEF Reaches
    <3>5. \A x \in Webs : Serves(web, Linked, x)' = Serves(web, Linked, x)
      BY <3>1, <3>2, <3>3 DEF Serves
    <3>6. SyncedIsExact'
      BY <3>1, <3>3, <3>4, <3>5 DEF SyncedIsExact, LinksExact, RelExact
    <3>7. SyncedFlags'
      BY <3>1, <3>2, <3>3 DEF SyncedFlags
    <3>8. FreshIsLinked'
      <4>1. fresh \subseteq Webs
        BY DEF TypeOK
      <4>2. QED
        BY <3>1, <3>3, <3>4, <4>1 DEF FreshIsLinked
    <3>9. QED
      BY <3>6, <3>7, <3>8
  <2>3. QED
    BY <2>1, <2>2 DEF Edit, DomainRegister, UseWas, UseWeb
<1>10. QED
  BY <1>1, <1>3, <1>5, <1>8, <1>9
-----------------------------------------------------------------------------
(* A commit makes what the transaction sees the tables.                    *)
LEMMA CommitIs ==
  ASSUME TypeOK, NEW t \in Txs, Commit(t)
  PROVE  /\ conf' = conf /\ usedWas' = usedWas
         /\ \A w \in Webs : web'[w] = Row(t, w)
         /\ \A c \in Conns, w \in Webs :
               <<c, w>> \in Linked' <=>
                  /\ Row(t, w).svr
                  /\ \/ link[<<c, w>>] > 0 /\ <<c, w>> \notin del[t]
                     \/ <<c, w>> \in ins[t]
         /\ Linked' = SeenLinks(t)
         /\ \A w \in Webs : Related(w)' = SeenRel(t, w)
<1>1. conf' = conf /\ usedWas' = usedWas /\ \A w \in Webs : web'[w] = Row(t, w)
  BY DEF Commit, Rows
<1>2. \A c \in Conns, w \in Webs :
         <<c, w>> \in Linked' <=>
            /\ Row(t, w).svr
            /\ \/ link[<<c, w>>] > 0 /\ <<c, w>> \notin del[t]
               \/ <<c, w>> \in ins[t]
  <2>1. SUFFICES ASSUME NEW c \in Conns, NEW w \in Webs
        PROVE  link'[<<c, w>>] > 0 <=>
                  /\ Row(t, w).svr
                  /\ \/ link[<<c, w>>] > 0 /\ <<c, w>> \notin del[t]
                     \/ <<c, w>> \in ins[t]
    BY DEF Linked, Pairs
  <2>2. <<c, w>> \in Pairs /\ link[<<c, w>>] \in Nat
    BY DEF Pairs, TypeOK
  <2>3. link'[<<c, w>>] = IF ~Row(t, w).svr THEN 0
                          ELSE (IF <<c, w>> \in del[t] THEN 0 ELSE link[<<c, w>>])
                               + (IF <<c, w>> \in ins[t] THEN 1 ELSE 0)
    BY <2>2 DEF Commit
  <2>4. QED
    BY <2>2, <2>3
<1>3. Linked' = SeenLinks(t)
  <2>1. Written(t)
    BY DEF Commit, Written
  <2>2. \A c \in Conns, w \in Webs : <<c, w>> \in Linked' <=> <<c, w>> \in SeenLinks(t)
    BY <1>2, <2>1, SeenIs
  <2>3. Linked' \subseteq Pairs /\ SeenLinks(t) \subseteq Pairs
    BY DEF Linked, SeenLinks, TypeOK
  <2>4. \A p \in Pairs : \E c \in Conns, w \in Webs : p = <<c, w>>
    BY DEF Pairs
  <2>5. QED
    BY <2>2, <2>3, <2>4
<1>4. \A w \in Webs : Related(w)' = SeenRel(t, w)
  <2>1. SUFFICES ASSUME NEW w \in Webs, NEW a \in Was
        PROVE  rel'[<<a, w>>] > 0 <=> \/ rel[<<a, w>>] > 0 /\ <<a, w>> \notin rdel[t]
                                      \/ <<a, w>> \in rins[t]
    BY DEF Related, SeenRel
  <2>2. rel[<<a, w>>] \in Nat
    BY DEF TypeOK
  <2>3. rel'[<<a, w>>] = (IF <<a, w>> \in rdel[t] THEN 0 ELSE rel[<<a, w>>])
                         + (IF <<a, w>> \in rins[t] THEN 1 ELSE 0)
    BY DEF Commit
  <2>4. QED
    BY <2>2, <2>3
<1>5. QED
  BY <1>1, <1>2, <1>3, <1>4

\* A transaction that was sole leaves the links of its candidates and the
\* domains of its webs as they should be, and what it did not look at.
LEMMA CommitSole ==
  ASSUME IInv, NEW t \in Txs, Commit(t), Sole(t)
  PROVE  /\ \A c \in Candidates(t), w \in Webs : <<c, w>> \in Linked' <=> Reaches(web, c, w)'
         /\ \A c \in Conns \ Candidates(t), w \in Webs :
               <<c, w>> \in Linked' <=> web'[w].svr /\ <<c, w>> \in Linked
         /\ \A w \in Webs : Ours(t, w) => Related(w)' = Serves(web, Linked, w)'
         /\ \A w \in Webs : ~Ours(t, w) => web'[w] = web[w] /\ Related(w)' = Related(w)
<1> USE DEF IInv
<1>1. Kept(t) /\ Storing(t) /\ Found(t) /\ todo[t] = {}
  BY DEF KeptInv, Commit, Storing, Found
<1>2. \A c \in Conns, w \in Webs : Reaches(web, c, w)' <=> Reaches(Rows(t), c, w)
  BY CommitIs, RowsIs DEF Reaches
<1>3. ASSUME NEW c \in Conns, NEW w \in Webs
      PROVE  /\ c \in Candidates(t) => (<<c, w>> \in Linked' <=> Reaches(web, c, w)')
             /\ c \notin Candidates(t) => (<<c, w>> \in Linked' <=> web'[w].svr /\ <<c, w>> \in Linked)
  <2>1. <<c, w>> \in Linked' <=> /\ Row(t, w).svr
                               /\ \/ link[<<c, w>>] > 0 /\ <<c, w>> \notin del[t]
                                  \/ <<c, w>> \in ins[t]
    BY CommitIs
  <2>2. <<c, w>> \in Linked <=> link[<<c, w>>] > 0
    BY DEF Linked, Pairs
  <2>3. /\ <<c, w>> \in ins[t] <=> c \in Candidates(t) /\ Reaches(Rows(t), c, w) /\ ~Has(t, c, w)
        /\ <<c, w>> \in del[t] <=> c \in Candidates(t) /\ ~Reaches(Rows(t), c, w) /\ Has(t, c, w)
    BY <1>1 DEF Kept, LinksKept
  <2>4. Reaches(Rows(t), c, w) => Row(t, w).svr
    BY ReachesIs
  <2>5. web'[w] = Row(t, w)
    BY CommitIs
  <2>6. QED
    BY <1>2, <2>1, <2>2, <2>3, <2>4, <2>5 DEF Has
<1>4. Candidates(t) \subseteq Conns
  BY DEF Candidates
<1>5. ASSUME NEW w \in Webs, Ours(t, w)
      PROVE  Related(w)' = Serves(web, Linked, w)'
  <2>1. Related(w)' = Serves(Rows(t), SeenLinks(t), w)
    BY <1>1, <1>5, CommitIs DEF Kept, RelKept
  <2>2. web'[w].used = Rows(t)[w].used /\ Linked' = SeenLinks(t) /\ usedWas' = usedWas
    BY CommitIs, RowsIs
  <2>3. Serves(web, Linked, w)' = Serves(Rows(t), SeenLinks(t), w)
    BY <2>2 DEF Serves
  <2>4. QED
    BY <2>1, <2>3
<1>6. ASSUME NEW w \in Webs, ~Ours(t, w)
      PROVE  web'[w] = web[w] /\ Related(w)' = Related(w)
  <2>1. w \notin DOMAIN put[t]
    BY <1>1, <1>6 DEF PhaseInv, Phase, Ours, Storing
  <2>2. \A a \in Was : <<a, w>> \notin rins[t] /\ <<a, w>> \notin rdel[t]
    BY <1>1, <1>6 DEF Kept, RelKept
  <2>3. SeenRel(t, w) = Related(w)
    BY <2>2 DEF SeenRel, Related
  <2>4. QED
    BY <2>1, <2>3, CommitIs DEF Row
<1>7. QED
  BY <1>3, <1>4, <1>5, <1>6

\* After a sync by itself everything is exact; the registration of a web
\* that is not hidden keeps it so.
LEMMA CommitExact ==
  ASSUME IInv, NEW t \in Txs, Commit(t), Sole(t), synced'
  PROVE  LinksExact' /\ RelExact'
<1> USE DEF IInv
<1>1. CASE t = Sync
  <2>1. Candidates(t) = Conns /\ \A w \in Webs : Ours(t, w)
    BY <1>1 DEF Candidates, Ours
  <2>2. QED
    BY <2>1, CommitSole DEF LinksExact, RelExact
<1>2. CASE t # Sync
  <2>1. LinksExact /\ RelExact /\ ~Hidden(t)
    BY <1>2 DEF Commit, SyncedIsExact
  <2>2. \A c \in Conns \ Candidates(t) : t \notin conf[c].to
    BY <1>2, <2>1 DEF Hidden, Candidates
  <2>3. \A w \in Webs : ~Ours(t, w) <=> w # t
    BY <1>2 DEF Ours
  <2>4. \A c \in Conns, w \in Webs : w # t => (Reaches(web, c, w)' <=> Reaches(web, c, w))
    BY <2>3, CommitSole, CommitIs DEF Reaches
  <2>5. ASSUME NEW c \in Conns, NEW w \in Webs
        PROVE  <<c, w>> \in Linked' <=> Reaches(web, c, w)'
    <3>1. CASE c \in Candidates(t)
      BY <3>1, CommitSole
    <3>2. CASE c \notin Candidates(t) /\ w = t
      <4>1. ~Reaches(web, c, w) /\ ~Reaches(web, c, w)'
        BY <2>2, <3>2, CommitIs DEF Reaches
      <4>2. <<c, w>> \notin Linked
        BY <2>1, <4>1 DEF LinksExact
      <4>3. QED
        BY <3>2, <4>1, <4>2, CommitSole
    <3>3. CASE c \notin Candidates(t) /\ w # t
      <4>1. <<c, w>> \in Linked <=> Reaches(web, c, w)
        BY <2>1 DEF LinksExact
      <4>2. Reaches(web, c, w) => web'[w].svr
        BY <2>3, <3>3, CommitSole DEF Reaches
      <4>3. QED
        BY <2>4, <3>3, <4>1, <4>2, CommitSole
    <3>4. QED
      BY <3>1, <3>2, <3>3
  <2>6. ASSUME NEW w \in Webs PROVE Related(w)' = Serves(web, Linked, w)'
    <3>1. CASE w = t
      BY <2>3, <3>1, CommitSole
    <3>2. CASE w # t
      <4>1. Related(w)' = Related(w) /\ Related(w) = Serves(web, Linked, w) /\ web'[w] = web[w]
        BY <2>1, <2>3, <3>2, CommitSole DEF RelExact
      <4>2. \A c \in Conns : <<c, w>> \in Linked' <=> <<c, w>> \in Linked
        BY <2>1, <2>4, <2>5, <3>2 DEF LinksExact
      <4>3. Serves(web, Linked, w)' = Serves(web, Linked, w)
        BY <4>1, <4>2, CommitIs DEF Serves
      <4>4. QED
        BY <4>1, <4>3
    <3>3. QED
      BY <3>1, <3>2
  <2>7. QED
    BY <2>5, <2>6 DEF LinksExact, RelExact
<1>3. QED
  BY <1>1, <1>2

LEMMA CommitFlags ==
  ASSUME IInv, NEW t \in Txs, Commit(t), Sole(t), synced'
  PROVE  SyncedFlags'
<1> USE DEF IInv
<1>1. Kept(t) /\ Storing(t) /\ todo[t] = {} /\ alone[t]
  BY DEF KeptInv, Commit, Storing, Sole
<1>2. SUFFICES ASSUME NEW w \in Webs, w \notin rehomed', web'[w].used
      PROVE  /\ web'[w].built \in {"Isolated", BuiltBy(web'[w].home, Related(w)')}
             /\ web'[w].newgen = NewgenBy(Related(w)')
  BY DEF SyncedFlags, BuiltBy, NewgenBy
<1>3. web'[w] = Row(t, w) /\ Related(w)' = SeenRel(t, w)
  BY CommitIs
<1>4. CASE Ours(t, w)
  <2>1. Row(t, w).home = web[w].home
    <3>1. CASE t = Sync
      BY <1>1, <3>1 DEF Kept, PutKept, Row
    <3>2. CASE t # Sync
      <4>1. t = w /\ w \in DOMAIN put[t] /\ w \in DOMAIN mem[t]
        BY <1>1, <1>4, <3>2 DEF Ours, PhaseInv, Phase, Storing
      <4>2. put[t][t].home = mem[t][t].home
        BY <1>1, <1>2, <3>2, <4>1 DEF Commit
      <4>3. QED
        BY <1>1, <4>1, <4>2 DEF Kept, MemKept, Row
    <3>3. QED
      BY <3>1, <3>2
  <2>2. QED
    BY <1>1, <1>2, <1>3, <1>4, <2>1 DEF Kept, FlagsKept
<1>5. CASE ~Ours(t, w)
  <2>1. synced /\ w \notin rehomed
    BY <1>1, <1>2, <1>5 DEF Commit, Ours
  <2>2. web'[w] = web[w] /\ Related(w)' = Related(w)
    BY <1>5, CommitSole
  <2>3. QED
    BY <1>2, <2>1, <2>2 DEF SyncedFlags
<1>6. QED
  BY <1>4, <1>5

LEMMA CommitFresh ==
  ASSUME IInv, NEW t \in Txs, Commit(t), Sole(t)
  PROVE  FreshIsLinked'
<1> USE DEF IInv
<1>1. SUFFICES ASSUME NEW w \in Webs, w \in fresh', NEW c \in Conns, w \in conf[c].near
      PROVE  /\ <<c, w>> \in Linked' <=> Reaches(web, c, w)'
             /\ Reaches(web, c, w)' => Owner[c] \in Related(w)'
  <2>1. fresh' \subseteq Webs
    BY TypeStep DEF TypeOK, Next, Step
  <2>2. QED
    BY <2>1, CommitIs DEF FreshIsLinked
<1>2. CASE Ours(t, w)
  <2>1. c \in Candidates(t)
    BY <1>1, <1>2 DEF Ours, Candidates
  <2>2. <<c, w>> \in Linked' <=> Reaches(web, c, w)'
    BY <2>1, CommitSole
  <2>3. ASSUME Reaches(web, c, w)' PROVE Owner[c] \in Serves(web, Linked, w)'
    BY <2>2, <2>3 DEF Reaches, Serves
  <2>4. QED
    BY <1>2, <2>2, <2>3, CommitSole
<1>3. CASE ~Ours(t, w)
  <2>1. w \in fresh /\ w # t
    BY <1>1, <1>3 DEF Commit, Ours, Sole
  <2>2. web'[w] = web[w] /\ Related(w)' = Related(w)
    BY <1>3, CommitSole
  <2>3. Reaches(web, c, w)' <=> Reaches(web, c, w)
    BY <2>2, CommitIs DEF Reaches
  <2>4. <<c, w>> \in Linked <=> Reaches(web, c, w)
    BY <1>1, <2>1 DEF FreshIsLinked
  <2>5. Reaches(web, c, w) => Owner[c] \in Related(w)
    BY <1>1, <2>1 DEF FreshIsLinked
  <2>6. Reaches(web, c, w) => web'[w].svr
    BY <2>2 DEF Reaches
  <2>7. <<c, w>> \in Linked' <=> Reaches(web, c, w)'
    BY <2>3, <2>4, <2>6, CommitSole
  <2>8. QED
    BY <2>2, <2>3, <2>5, <2>7
<1>4. QED
  BY <1>2, <1>3

LEMMA CommitOnce ==
  ASSUME IInv, NEW t \in Txs, Commit(t)
  PROVE  OneInv'
<1> USE DEF IInv
<1>1. SUFFICES ASSUME ~overlapped PROVE OneInv'
  BY DEF OneInv, Commit
<1>2. Others(t) /\ pc'[t] = "idle" /\ ins'[t] = {} /\ rins'[t] = {}
  BY ResetIs DEF Commit
<1>3. t \in Open /\ \A u \in Open : u = t
  BY <1>1 DEF OneInv, Open, Commit
<1>4. Open' = {}
  BY <1>2, <1>3 DEF Open, Others
<1>5. \A u \in Txs : ins'[u] = {} /\ rins'[u] = {}
  BY <1>2, <1>3 DEF PhaseInv, Phase, Found, Storing, Open, Others
<1>6. ASSUME NEW p \in Pairs PROVE link'[p] <= 1
  <2>1. link[p] \in Nat /\ link[p] <= 1 /\ (p \in ins[t] => link[p] = 0)
    BY <1>1 DEF OneInv, TypeOK
  <2>2. \/ link'[p] = 0
        \/ link'[p] = (IF p \in del[t] THEN 0 ELSE link[p]) + (IF p \in ins[t] THEN 1 ELSE 0)
    BY DEF Commit
  <2>3. QED
    BY <2>1, <2>2
<1>7. ASSUME NEW q \in Was \X Webs PROVE rel'[q] <= 1
  <2>1. rel[q] \in Nat /\ rel[q] <= 1 /\ (q \in rins[t] => rel[q] = 0 \/ q \in rdel[t])
    BY <1>1 DEF OneInv, TypeOK
  <2>2. rel'[q] = (IF q \in rdel[t] THEN 0 ELSE rel[q]) + (IF q \in rins[t] THEN 1 ELSE 0)
    BY DEF Commit
  <2>3. QED
    BY <2>1, <2>2
<1>8. QED
  BY <1>4, <1>5, <1>6, <1>7 DEF OneInv

LEMMA CommitInv ==
  ASSUME IInv, NEW t \in Txs, Commit(t)
  PROVE  IInv'
<1>1. TypeOK' /\ OneInv'
  BY CommitTypes, CommitOnce DEF IInv
<1>2. /\ Others(t) /\ pc'[t] = "idle" /\ \A u \in Txs \ {t} : alone'[u] = alone[u]
      /\ DOMAIN mem'[t] = {} /\ DOMAIN put'[t] = {}
      /\ ins'[t] = {} /\ del'[t] = {} /\ rins'[t] = {} /\ rdel'[t] = {} /\ todo'[t] = {}
  BY ResetIs DEF Commit, IInv
<1>3. Phase(t)'
  BY <1>2 DEF Phase, Found, Storing
<1>4. PhaseInv'
  BY <1>2, <1>3, PhaseFrame DEF IInv
<1>5. t \in Open /\ Open' = Open \ {t}
  BY <1>2 DEF Open, Others, Commit
<1>6. \A u \in Txs : ~Sole(u)'
  BY <1>2, <1>5 DEF SoleInv, Sole, IInv
<1>7. SoleInv' /\ KeptInv'
  BY <1>6 DEF SoleInv, KeptInv
<1>8. (SyncedIsExact /\ SyncedFlags /\ FreshIsLinked)'
  <2>1. CASE Sole(t)
    <3>1. SyncedIsExact'
      BY <2>1, CommitExact DEF SyncedIsExact
    <3>2. SyncedFlags'
      BY <2>1, CommitFlags DEF SyncedFlags
    <3>3. QED
      BY <2>1, <3>1, <3>2, CommitFresh
  <2>2. CASE ~Sole(t)
    <3>1. synced' = FALSE /\ fresh' = {}
      BY <1>5, <2>2 DEF Commit, Sole, IInv, TypeOK
    <3>2. QED
      BY <3>1 DEF SyncedIsExact, SyncedFlags, FreshIsLinked
  <2>3. QED
    BY <2>1, <2>2
<1>9. QED
  BY <1>1, <1>4, <1>7, <1>8 DEF IInv
-----------------------------------------------------------------------------
LEMMA InitInv == Init => IInv
<1>1. SUFFICES ASSUME Init PROVE IInv
  OBVIOUS
<1>2. TypeOK
  BY <1>1, TypeInit
<1>3. /\ \A t \in Txs : /\ pc[t] = "idle" /\ DOMAIN mem[t] = {} /\ DOMAIN put[t] = {} /\ ins[t] = {}
                        /\ del[t] = {} /\ rins[t] = {} /\ rdel[t] = {} /\ todo[t] = {}
      /\ Open = {}
  BY <1>1, NoRowIs DEF Init, Open
<1>4. PhaseInv /\ SoleInv /\ KeptInv
  BY <1>3 DEF PhaseInv, Phase, Found, Storing, SoleInv, KeptInv, Sole
<1>5. OneInv
  <2>1. (\A p \in Pairs : link[p] <= 1) /\ (\A q \in Was \X Webs : rel[q] <= 1)
    BY <1>1 DEF Init
  <2>2. QED
    BY <1>3, <2>1 DEF OneInv
<1>6. LinksExact
  <2>1. SUFFICES ASSUME NEW c \in Conns, NEW w \in Webs
        PROVE  <<c, w>> \in Linked <=> Reaches(web, c, w)
    BY DEF LinksExact
  <2>2. <<c, w>> \in Pairs /\ link[<<c, w>>] = IF Reaches(web, c, w) THEN 1 ELSE 0
    BY <1>1 DEF Init, Pairs
  <2>3. QED
    BY <2>2 DEF Linked
<1>7. RelExact
  <2>1. SUFFICES ASSUME NEW w \in Webs PROVE Related(w) = Serves(web, Linked, w)
    BY DEF RelExact
  <2>2. \A a \in Was : rel[<<a, w>>] = IF a \in Serves(web, Linked, w) THEN 1 ELSE 0
    BY <1>1 DEF Init
  <2>3. \A a \in Was : a \in Related(w) <=> a \in Serves(web, Linked, w)
    BY <2>2 DEF Related
  <2>4. Related(w) \subseteq Was /\ Serves(web, Linked, w) \subseteq Was
    BY <1>2 DEF Related, Serves, TypeOK
  <2>5. QED
    BY <2>3, <2>4
<1>8. SyncedFlags /\ FreshIsLinked
  BY <1>1 DEF Init, SyncedFlags, FreshIsLinked
<1>9. QED
  BY <1>2, <1>4, <1>5, <1>6, <1>7, <1>8 DEF IInv, SyncedIsExact

LEMMA NextInv == IInv /\ [Next]_vars => IInv'
<1>1. SUFFICES ASSUME IInv, [Next]_vars PROVE IInv'
  OBVIOUS
<1>2. ASSUME NEW w \in Webs, RegisterRead(w) \/ RegisterUpsert(w) PROVE IInv'
  BY <1>1, <1>2, RegisterReadInv, RegisterUpsertInv
<1>3. ASSUME SyncBegin \/ SyncLoad PROVE IInv'
  BY <1>1, <1>3, SyncBeginInv, SyncLoadInv
<1>4. ASSUME NEW t \in Txs, Step(t) PROVE IInv'
  BY <1>1, <1>4, ConnsReadInv, ConnsFlushInv, WebReadInv, WebWriteInv, CommitInv, FailInv DEF Step
<1>5. ASSUME Edit PROVE IInv'
  BY <1>1, <1>5, EditInv
<1>6. ASSUME UNCHANGED vars PROVE IInv'
  <2>1. TypeOK'
    BY <1>1, TypeStep DEF IInv
  <2>2. PhaseInv' /\ SoleInv' /\ OneInv'
    BY <1>1, <1>6 DEF IInv, vars, tables, tx, ghosts, PhaseInv, Phase, Found, Storing, SoleInv,
         Sole, Open, OneInv
  <2>3. ASSUME NEW t \in Txs, Sole(t)' PROVE Kept(t)'
    <3>1. Kept(t)
      BY <1>1, <1>6, <2>3 DEF IInv, KeptInv, Sole, Open, vars, tx
    <3>2. \A w : Row(t, w)' = Row(t, w) /\ SeenRel(t, w)' = SeenRel(t, w)
      BY <1>6 DEF Row, SeenRel, vars, tables, tx
    <3>3. /\ Rows(t)' = Rows(t) /\ SeenLinks(t)' = SeenLinks(t) /\ Candidates(t)' = Candidates(t)
          /\ usedWas' = usedWas
      BY <1>6 DEF Rows, Row, SeenLinks, Linked, Written, Candidates, vars, tables, tx
    <3>4. \A w : Serves(Rows(t), SeenLinks(t), w)' = Serves(Rows(t), SeenLinks(t), w)
      BY <3>3 DEF Serves
    <3>5. \A c, w : /\ Reaches(Rows(t), c, w)' <=> Reaches(Rows(t), c, w)
                    /\ Has(t, c, w)' <=> Has(t, c, w)
      BY <1>6, <3>2, <3>3 DEF Reaches, Has, vars, tables
    <3>6. MemKept(t)' /\ PutKept(t)'
      BY <1>6, <3>1 DEF Kept, MemKept, PutKept, vars, tables, tx
    <3>7. LinksKept(t)'
      BY <1>6, <3>1, <3>3, <3>5 DEF Kept, LinksKept, Found, vars, tx
    <3>8. RelKept(t)'
      BY <1>6, <3>1, <3>2, <3>4 DEF Kept, RelKept, Storing, Ours, vars, tx
    <3>9. FlagsKept(t)'
      BY <1>6, <3>1, <3>2 DEF Kept, FlagsKept, Storing, Ours, BuiltBy, NewgenBy, vars, tables, tx
    <3>10. QED
      BY <3>6, <3>7, <3>8, <3>9 DEF Kept
  <2>4. KeptInv'
    BY <2>3 DEF KeptInv
  <2>5. fresh \subseteq Webs
    BY <1>1 DEF IInv, TypeOK
  <2>6. (SyncedIsExact /\ SyncedFlags /\ FreshIsLinked)'
    BY <1>1, <1>6, <2>5, TablesSame DEF IInv, vars, tables, ghosts
  <2>7. QED
    BY <2>1, <2>2, <2>4, <2>6 DEF IInv
<1>7. QED
  BY <1>1, <1>2, <1>3, <1>4, <1>5, <1>6 DEF Next

THEOREM Inductive == Spec => []IInv
BY InitInv, NextInv, PTL DEF Spec

(* Every variable keeps its type, whatever overlaps.                       *)
THEOREM TypeCorrect == Spec => []TypeOK
<1>1. IInv => TypeOK
  BY DEF IInv
<1>2. QED
  BY <1>1, Inductive, PTL

(* SyncedIsExact: for any webs, domains and connectors, what a sync or a   *)
(* registration leaves when it runs by itself is what the connectors say.  *)
THEOREM SyncSafe == Spec => []SyncedIsExact
<1>1. IInv => SyncedIsExact
  BY DEF IInv
<1>2. QED
  BY <1>1, Inductive, PTL

(* SyncedFlags: the flags then follow from the domains, unless the kind of *)
(* web_home changed with the registration.                                 *)
THEOREM FlagsSafe == Spec => []SyncedFlags
<1>1. IInv => SyncedFlags
  BY DEF IInv
<1>2. QED
  BY <1>1, Inductive, PTL

(* FreshIsLinked: a web registered by itself has the links and domains of  *)
(* the connectors that name its host, also after other webs registered.    *)
THEOREM FreshSafe == Spec => []FreshIsLinked
<1>1. IInv => FreshIsLinked
  BY DEF IInv
<1>2. QED
  BY <1>1, Inductive, PTL

(* StoredOnce: only transactions that overlap double a row.                *)
THEOREM OnceSafe == Spec => []StoredOnce
<1>1. IInv => StoredOnce
  BY DEF IInv, OneInv, StoredOnce, TypeOK
<1>2. QED
  BY <1>1, Inductive, PTL

(* IsolatedStays: only a transaction that overlapped something, or the     *)
(* registration with a "webserver" home, takes Isolated away.              *)
THEOREM IsolatedSafe == Spec => IsolatedStays
<1> DEFINE Kind(w) == web[w].built = "Isolated" /\ web'[w].built # "Isolated"
           Allowed(w) == \E t \in Open : t \notin Open' /\ (~alone[t] \/ (t = w /\ put[w][w].home))
<1>1. ASSUME IInv, [Next]_vars, NEW w \in Webs, Kind(w) PROVE Allowed(w)
  <2>1. ASSUME NEW t \in Txs, Commit(t) PROVE Allowed(w)
    <3>1. t \in Open /\ t \notin Open'
      BY <1>1, <2>1 DEF Commit, Open, Reset, IInv, TypeOK
    <3>2. ASSUME alone[t] PROVE t = w /\ put[w][w].home
      <4>1. Kept(t)
        BY <1>1, <3>1, <3>2 DEF IInv, KeptInv, Sole
      <4>2. web'[w] = Row(t, w)
        BY <1>1, <2>1, CommitIs DEF IInv
      <4>3. w \in DOMAIN put[t] /\ put[t][w].built # "Isolated"
        BY <1>1, <4>2 DEF Row
      <4>4. QED
        BY <1>1, <4>1, <4>3 DEF Kept, PutKept
    <3>3. QED
      BY <3>1, <3>2
  <2>2. web' = web \/ (\E t \in Txs : Commit(t)) \/ (\E x \in Webs : UseWeb(x) \/ Isolate(x))
    BY <1>1 DEF Next, Edit, Step, RegisterRead, RegisterUpsert, SyncBegin, SyncLoad, ConnsRead,
         ConnsFlush, WebRead, WebWrite, Fail, DomainRegister, UseWas, vars, tables
  <2>3. ASSUME NEW x \in Webs, UseWeb(x) \/ Isolate(x) PROVE FALSE
    <3>1. web \in [Webs -> Columns]
      BY <1>1 DEF IInv, TypeOK
    <3>2. web' = [web EXCEPT ![x].used = ~@] \/ web' = [web EXCEPT ![x].built = "Isolated"]
      BY <2>3 DEF UseWeb, Isolate
    <3>3. web'[w].built = web[w].built \/ web'[w].built = "Isolated"
      BY <3>1, <3>2 DEF Columns
    <3>4. QED
      BY <1>1, <3>3
  <2>4. QED
    BY <1>1, <2>1, <2>2, <2>3
<1>2. IInv /\ [Next]_vars => [\A w \in Webs : Kind(w) => Allowed(w)]_vars
  BY <1>1
<1>3. QED
  BY <1>2, Inductive, PTL DEF IsolatedStays, Spec
=============================================================================
