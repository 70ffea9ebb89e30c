------------------------------ MODULE WebRelation ------------------------------
(***************************************************************************)
(* Which WAS domains a web server serves: the links between webtob         *)
(* connectors and the JSV servers of webs, the table mw_was_web derived    *)
(* from them, and the two flags of a web derived from that.                *)
(*                                                                         *)
(* The registration of a web refreshes its own part, the batch function    *)
(* sync_was_web_relationship all of it, the registration of a WAS domain   *)
(* none.  The transactions run at READ COMMITTED: each sees what the       *)
(* others have committed at the time of the statement, while the ORM keeps *)
(* the rows it has loaded (mem) as they were.                              *)
(*                                                                         *)
(* What a connector reaches is given by its configuration: "to" are the    *)
(* webs whose host, JSV id and port or home it matches (get_web_servers),  *)
(* "near" the webs whose registration looks at it (web_host_id names the   *)
(* host, or is local).                                                     *)
(***************************************************************************)
EXTENDS Naturals, FiniteSets

CONSTANTS
    Was,          \* domains
    Jeus,         \* those whose was_id starts with "jeus"
    Webs,         \* host and port of a web
    Conns,        \* webtob connectors
    Owner,        \* Owner[c]: the domain whose instance has connector c
    Confs,        \* configurations of a connector
    Sync,         \* the transaction of sync_was_web_relationship
    MaxTx,        \* bound: registrations of a web and syncs
    MaxEdits      \* bound: registrations of a domain and edits of a user

ASSUME WasAssumption  == Jeus \subseteq Was /\ Owner \in [Conns -> Was]
ASSUME ConfAssumption == Confs \subseteq [to : SUBSET Webs, near : SUBSET Webs]
ASSUME SyncAssumption == Sync \notin Webs
ASSUME BoundAssumption == MaxTx \in Nat /\ MaxEdits \in Nat

Gone == [to |-> {}, near |-> {}]      \* no such connector, or one to nowhere
Txs == Webs \union {Sync}
Pairs == Conns \X Webs
Built == {"none", "Internal", "External", "Isolated"}
Columns == [svr : BOOLEAN,            \* has the JSV server
            home : BOOLEAN,           \* "webserver" is part of web_home
            used : BOOLEAN,           \* use_yn
            built : Built,            \* built_type
            newgen : BOOLEAN]         \* newgeneration_yn

VARIABLES
    \* the database
    conf,         \* connectors, with what they reach
    usedWas,      \* domains with use_yn = YES
    web,          \* rows of mw_web
    link,         \* rows of mw_webtobconn_webserver, counted
    rel,          \* rows of mw_was_web, counted
    \* the transactions
    pc, alone, mem, ins, del, todo, cur, linked, rins, rdel, put,
    \* bounds and what happened
    begun, edits,
    synced,       \* a sync committed by itself and nothing has disturbed it
    fresh,        \* webs registered by themselves since the last disturbance
    rehomed,      \* registered with another kind of web_home than before
    overlapped    \* two transactions have been open at a time

tables == <<conf, usedWas, web, link, rel>>
tx == <<pc, alone, mem, ins, del, todo, cur, linked, rins, rdel, put>>
ghosts == <<begun, edits, synced, fresh, rehomed, overlapped>>
vars == <<tables, tx, ghosts>>

NoRow == [w \in {} |-> {}]
Open == {t \in Txs : pc[t] # "idle"}
Written(t) == pc[t] \in {"load", "read", "write"}    \* links are flushed

-----------------------------------------------------------------------------
(* What the tables should be for the connectors and webs that exist.       *)
Reaches(rows, c, w) ==
    /\ w \in conf[c].to /\ Owner[c] \in usedWas
    /\ rows[w].svr /\ rows[w].used
Serves(rows, links, w) ==
    IF rows[w].used THEN {a \in usedWas : \E c \in Conns : Owner[c] = a /\ <<c, w>> \in links}
                    ELSE {}
BuiltBy(home, was) == IF home \/ was \intersect Jeus # {} THEN "Internal" ELSE "External"
NewgenBy(was) == was \intersect Jeus = {}

Linked == {p \in Pairs : link[p] > 0}
Related(w) == {a \in Was : rel[<<a, w>>] > 0}

LinksExact == \A c \in Conns, w \in Webs : <<c, w>> \in Linked <=> Reaches(web, c, w)
RelExact   == \A w \in Webs : Related(w) = Serves(web, Linked, w)

PartialRows == UNION {[D -> Columns] : D \in SUBSET Webs}

TypeOK ==
    /\ conf \in [Conns -> Confs \union {Gone}]
    /\ usedWas \in SUBSET Was
    /\ web \in [Webs -> Columns]
    /\ link \in [Pairs -> Nat] /\ rel \in [Was \X Webs -> Nat]
    /\ pc \in [Txs -> {"idle", "upsert", "conns", "flush", "load", "read", "write"}]
    /\ alone \in [Txs -> BOOLEAN]
    /\ mem \in [Txs -> PartialRows] /\ put \in [Txs -> PartialRows]
    /\ ins \in [Txs -> SUBSET Pairs] /\ del \in [Txs -> SUBSET Pairs]
    /\ todo \in [Txs -> SUBSET Webs] /\ cur \in [Txs -> Txs]
    /\ linked \in [Txs -> SUBSET Was]
    /\ rins \in [Txs -> SUBSET (Was \X Webs)] /\ rdel \in [Txs -> SUBSET (Was \X Webs)]
    /\ begun \in 0..MaxTx /\ edits \in 0..MaxEdits
    /\ synced \in BOOLEAN /\ overlapped \in BOOLEAN
    /\ fresh \in SUBSET Webs /\ rehomed \in SUBSET Webs

(* A database as a sync leaves it.                                         *)
Init ==
    /\ conf \in [Conns -> Confs \union {Gone}] /\ usedWas = Was
    /\ web \in [Webs -> Columns] /\ \A w \in Webs : web[w].used /\ web[w].svr
    /\ link = [p \in Pairs |-> IF Reaches(web, p[1], p[2]) THEN 1 ELSE 0]
    /\ rel = [q \in Was \X Webs |-> IF q[1] \in Serves(web, Linked, q[2]) THEN 1 ELSE 0]
    /\ \A w \in Webs : /\ web[w].built = BuiltBy(web[w].home, Related(w))
                       /\ web[w].newgen = NewgenBy(Related(w))
    /\ pc = [t \in Txs |-> "idle"] /\ alone = [t \in Txs |-> TRUE]
    /\ mem = [t \in Txs |-> NoRow] /\ put = [t \in Txs |-> NoRow]
    /\ ins = [t \in Txs |-> {}] /\ del = [t \in Txs |-> {}]
    /\ todo = [t \in Txs |-> {}] /\ cur = [t \in Txs |-> t]
    /\ linked = [t \in Txs |-> {}]
    /\ rins = [t \in Txs |-> {}] /\ rdel = [t \in Txs |-> {}]
    /\ begun = 0 /\ edits = 0 /\ synced = TRUE /\ fresh = {} /\ rehomed = {}
    /\ overlapped = FALSE

-----------------------------------------------------------------------------
(* The view of a transaction: what is committed and what it wrote itself.  *)
Row(t, w) == IF w \in DOMAIN put[t] THEN put[t][w] ELSE web[w]
Rows(t) == [w \in Webs |-> Row(t, w)]
\* Rows hang on their server: deleting it deletes them (ON DELETE CASCADE).
SeenLinks(t) == {p \in (Linked \ del[t]) \union (IF Written(t) THEN ins[t] ELSE {}) :
                    Row(t, p[2]).svr}
SeenRel(t, w) == {a \in Was : \/ rel[<<a, w>>] > 0 /\ <<a, w>> \notin rdel[t]
                              \/ <<a, w>> \in rins[t]}

\* The row of a web is locked by the transaction that wrote it.
RowFree(t, w) == \A u \in Txs \ {t} : w \notin DOMAIN put[u]
DropsServer(t, w) == w \in DOMAIN put[t] /\ web[w].svr /\ ~put[t][w].svr

Reset(t) ==
    /\ pc' = [pc EXCEPT ![t] = "idle"]
    /\ mem' = [mem EXCEPT ![t] = NoRow] /\ put' = [put EXCEPT ![t] = NoRow]
    /\ ins' = [ins EXCEPT ![t] = {}] /\ del' = [del EXCEPT ![t] = {}]
    /\ rins' = [rins EXCEPT ![t] = {}] /\ rdel' = [rdel EXCEPT ![t] = {}]
    /\ todo' = [todo EXCEPT ![t] = {}] /\ linked' = [linked EXCEPT ![t] = {}]
    /\ alone' = [alone EXCEPT ![t] = TRUE]
    /\ cur' = [cur EXCEPT ![t] = t]

Begins(t) ==
    /\ pc[t] = "idle" /\ begun < MaxTx
    /\ begun' = begun + 1
    /\ alone' = [u \in Txs |-> IF u = t THEN Open = {} ELSE alone[u] /\ u \notin Open]
    /\ overlapped' = (overlapped \/ Open # {})

\* upsertWebtobHttpm loads the row, to look for Isolated ...
RegisterRead(w) ==
    /\ Begins(w)
    /\ pc' = [pc EXCEPT ![w] = "upsert"]
    /\ mem' = [mem EXCEPT ![w] = [x \in {w} |-> web[w]]]
    /\ todo' = [todo EXCEPT ![w] = {w}]
    /\ UNCHANGED <<tables, ins, del, cur, linked, rins, rdel, put, edits, synced,
                   fresh, rehomed>>

\* ... and upserts it and its servers.  The dictionary it writes has a
\* built_type for a "webserver" home only, so the protection of an Isolated
\* row, which looks for External there, never applies.
BuiltAtUpsert(old, home) == IF home THEN "Internal" ELSE old
RegisterUpsert(w) ==
    /\ pc[w] = "upsert" /\ RowFree(w, w)
    /\ \E svr \in BOOLEAN, home \in BOOLEAN :
          /\ ~svr => \A u \in Open \ {w}, c \in Conns : ~(Written(u) /\ <<c, w>> \in ins[u])
          /\ put' = [put EXCEPT ![w] = [x \in {w} |->
                        [web[w] EXCEPT !.svr = svr, !.home = home,
                                       !.built = BuiltAtUpsert(@, home)]]]
    /\ pc' = [pc EXCEPT ![w] = "conns"]
    /\ UNCHANGED <<tables, alone, mem, ins, del, todo, cur, linked, rins, rdel, ghosts>>

\* sync_was_web_relationship starts with the connectors.
SyncBegin ==
    /\ Begins(Sync)
    /\ pc' = [pc EXCEPT ![Sync] = "conns"]
    /\ UNCHANGED <<tables, mem, ins, del, todo, cur, linked, rins, rdel, put, edits,
                   synced, fresh, rehomed>>

(* update_was_web_relation, step 1: the candidates get the servers they    *)
(* reach; the ORM compares with the rows it loads ...                      *)
LocalsForgotten(t) == IF t = Sync THEN Conns                             \* mutant
                      ELSE {c \in Conns : conf[c].near = {t}}
Candidates(t) == IF t = Sync THEN Conns ELSE {c \in Conns : t \in conf[c].near}
AddsAgain(t, c) == {w \in Webs : Reaches(Rows(t), c, w)}                 \* mutant
ToAdd(t, c)     == {w \in Webs : Reaches(Rows(t), c, w) /\ <<c, w>> \notin SeenLinks(t)}
RemovesNone(t, c) == {}                                                  \* mutant
ToRemove(t, c)  == {w \in Webs : ~Reaches(Rows(t), c, w) /\ <<c, w>> \in SeenLinks(t)}
ConnsRead(t) ==
    /\ pc[t] = "conns"
    /\ ins' = [ins EXCEPT ![t] = {p \in Candidates(t) \X Webs : p[2] \in ToAdd(t, p[1])}]
    /\ del' = [del EXCEPT ![t] = {p \in Candidates(t) \X Webs : p[2] \in ToRemove(t, p[1])}]
    /\ pc' = [pc EXCEPT ![t] = "flush"]
    /\ UNCHANGED <<tables, alone, mem, todo, cur, linked, rins, rdel, put, ghosts>>

\* ... and writes the difference.  A row another transaction is deleting is
\* waited for, and so is a server; a delete that matches another number of
\* rows than one, and a missing server, are errors.
ConnsFlush(t) ==
    /\ pc[t] = "flush"
    /\ \A u \in Open \ {t} :
          /\ Written(u) => del[t] \intersect del[u] = {}
          /\ \A p \in ins[t] : ~DropsServer(u, p[2])
    /\ \A p \in del[t] : link[p] = 1
    /\ \A p \in ins[t] : conf[p[1]] # Gone /\ Row(t, p[2]).svr
    /\ pc' = [pc EXCEPT ![t] = IF t = Sync THEN "load" ELSE "read"]
    /\ UNCHANGED <<tables, alone, mem, ins, del, todo, cur, linked, rins, rdel, put, ghosts>>

\* Step 2: the webs to update.  A registration has its row in memory.
SyncLoad ==
    /\ pc[Sync] = "load"
    /\ mem' = [mem EXCEPT ![Sync] = web]
    /\ todo' = [todo EXCEPT ![Sync] = Webs]
    /\ pc' = [pc EXCEPT ![Sync] = "read"]
    /\ UNCHANGED <<tables, alone, ins, del, cur, linked, rins, rdel, put, ghosts>>

\* Step 3: the domains of one web are read ...
WebRead(t, w) ==
    /\ pc[t] = "read" /\ w \in todo[t]
    /\ cur' = [cur EXCEPT ![t] = w]
    /\ linked' = [linked EXCEPT ![t] = Serves(mem[t], SeenLinks(t), w)]
    /\ pc' = [pc EXCEPT ![t] = "write"]
    /\ UNCHANGED <<tables, alone, mem, ins, del, todo, rins, rdel, put, ghosts>>

\* ... and stored, with the flags.  Of the flags the ORM writes those that
\* differ from what it had loaded.
IsolatedToo(t, w) == BuiltBy(mem[t][w].home, linked[t])                  \* mutant
NewBuilt(t, w)  == IF mem[t][w].built = "Isolated" THEN "Isolated"
                                                   ELSE BuiltBy(mem[t][w].home, linked[t])
NewgenOfOld(t, w) == NewgenBy(SeenRel(t, w))                             \* mutant
NewNewgen(t, w) == NewgenBy(linked[t])
FlagsDiffer(t, w) == /\ mem[t][w].used
                     /\ \/ NewBuilt(t, w) # mem[t][w].built
                        \/ NewNewgen(t, w) # mem[t][w].newgen
Flagged(t, w) ==
    [Row(t, w) EXCEPT !.built  = IF NewBuilt(t, w) = mem[t][w].built THEN @ ELSE NewBuilt(t, w),
                      !.newgen = IF NewNewgen(t, w) = mem[t][w].newgen THEN @ ELSE NewNewgen(t, w)]
WebWrite(t) ==
    LET w == cur[t]
        gone == SeenRel(t, w) \ linked[t]
    IN
    /\ pc[t] = "write"
    /\ \A a \in gone : rel[<<a, w>>] = 1 /\ \A u \in Open \ {t} : <<a, w>> \notin rdel[u]
    /\ rdel' = [rdel EXCEPT ![t] = @ \union {<<a, w>> : a \in gone}]
    /\ rins' = [rins EXCEPT ![t] = @ \union {<<a, w>> : a \in linked[t] \ SeenRel(t, w)}]
    /\ FlagsDiffer(t, w) => RowFree(t, w)
    /\ put' = IF FlagsDiffer(t, w)
              THEN [put EXCEPT ![t] = [x \in DOMAIN @ \union {w} |->
                                          IF x = w THEN Flagged(t, w) ELSE @[x]]]
              ELSE put
    /\ todo' = [todo EXCEPT ![t] = @ \ {w}]
    /\ pc' = [pc EXCEPT ![t] = "read"]
    /\ UNCHANGED <<tables, alone, mem, ins, del, cur, linked, ghosts>>

\* A web some connector reaches without naming its host is not refreshed
\* by its own registration.
Hidden(w) == \E c \in Conns : w \in conf[c].to \ conf[c].near

Commit(t) ==
    /\ pc[t] = "read" /\ todo[t] = {}
    /\ web' = Rows(t)
    /\ link' = [p \in Pairs |->
                   IF ~Row(t, p[2]).svr THEN 0
                   ELSE (IF p \in del[t] THEN 0 ELSE link[p]) + (IF p \in ins[t] THEN 1 ELSE 0)]
    /\ rel' = [q \in Was \X Webs |->
                   (IF q \in rdel[t] THEN 0 ELSE rel[q]) + (IF q \in rins[t] THEN 1 ELSE 0)]
    /\ synced' = (alone[t] /\ (t = Sync \/ (synced /\ ~Hidden(t))))
    /\ fresh' = IF ~alone[t] THEN {} ELSE IF t = Sync THEN Webs ELSE fresh \union {t}
    /\ rehomed' = IF t = Sync THEN (IF alone[t] THEN {} ELSE rehomed)
                  ELSE IF alone[t] /\ put[t][t].home = mem[t][t].home
                       THEN rehomed \ {t} ELSE rehomed \union {t}
    /\ Reset(t)
    /\ UNCHANGED <<conf, usedWas, begun, edits, overlapped>>

\* An error, a deadlock or the end of the process: all of it is undone.
Fail(t) ==
    /\ pc[t] # "idle"
    /\ Reset(t)
    /\ UNCHANGED <<tables, ghosts>>

-----------------------------------------------------------------------------
Disturbs ==
    /\ edits < MaxEdits
    /\ edits' = edits + 1
    /\ alone' = [t \in Txs |-> alone[t] /\ t \notin Open]
    /\ UNCHANGED <<pc, mem, ins, del, todo, cur, linked, rins, rdel, put, begun,
                   rehomed, overlapped>>

\* A domain is registered with other connectors.  Those it no longer has
\* are deleted, and their links with them.
DomainRegister(a) ==
    /\ Disturbs
    /\ \E k \in [{c \in Conns : Owner[c] = a} -> Confs \union {Gone}] :
          /\ conf' = [c \in Conns |-> IF Owner[c] = a THEN k[c] ELSE conf[c]]
          /\ \A c \in DOMAIN k, t \in Open : k[c] = Gone /\ Written(t) =>
                \A w \in Webs : <<c, w>> \notin ins[t] \union del[t]
          /\ link' = [p \in Pairs |-> IF p[1] \in DOMAIN k /\ k[p[1]] = Gone THEN 0 ELSE link[p]]
    /\ synced' = FALSE /\ fresh' = {}
    /\ UNCHANGED <<usedWas, web, rel>>

\* The edit forms of a domain and a web.
UseWas(a) ==
    /\ Disturbs
    /\ usedWas' = IF a \in usedWas THEN usedWas \ {a} ELSE usedWas \union {a}
    /\ synced' = FALSE /\ fresh' = {}
    /\ UNCHANGED <<conf, web, link, rel>>

UseWeb(w) ==
    /\ Disturbs /\ \A t \in Txs : w \notin DOMAIN put[t]
    /\ web' = [web EXCEPT ![w].used = ~@]
    /\ synced' = FALSE /\ fresh' = {}
    /\ UNCHANGED <<conf, usedWas, link, rel>>

Isolate(w) ==
    /\ Disturbs /\ \A t \in Txs : w \notin DOMAIN put[t]
    /\ web' = [web EXCEPT ![w].built = "Isolated"]
    /\ UNCHANGED <<conf, usedWas, link, rel, synced, fresh>>

Step(t) ==
    \/ ConnsRead(t) \/ ConnsFlush(t) \/ WebWrite(t) \/ Commit(t) \/ Fail(t)
    \/ \E w \in Webs : WebRead(t, w)

Edit ==
    \/ \E a \in Was : DomainRegister(a) \/ UseWas(a)
    \/ \E w \in Webs : UseWeb(w) \/ Isolate(w)

Next ==
    \/ \E w \in Webs : RegisterRead(w) \/ RegisterUpsert(w)
    \/ SyncBegin \/ SyncLoad
    \/ \E t \in Txs : Step(t)
    \/ Edit

Spec == Init /\ [][Next]_vars
-----------------------------------------------------------------------------
(* A sync makes both tables name the right pairs, whatever they were, and  *)
(* registrations of webs keep them so, until a domain is registered, a     *)
(* use_yn is edited or transactions overlap (relationship.py:383-475).     *)
SyncedIsExact == synced => LinksExact /\ RelExact

(* The flags then follow from the tables; the exception is a web that was  *)
(* registered with another kind of web_home since, for update_was_web_     *)
(* relation decides by the home it had before (relationship.py:457).       *)
SyncedFlags ==
    synced => \A w \in Webs \ rehomed : web[w].used =>
        /\ web[w].built \in {"Isolated", BuiltBy(web[w].home, Related(w))}
        /\ web[w].newgen = NewgenBy(Related(w))

(* A web registered by itself has the links of the connectors that name    *)
(* its host, and no other link of theirs, and the domains of these.  What  *)
(* is left out are connectors its registration does not look at: those     *)
(* pointed elsewhere since, and those that reach it by a part of its VIP.  *)
FreshIsLinked ==
    \A w \in fresh, c \in Conns : w \in conf[c].near =>
        /\ <<c, w>> \in Linked <=> Reaches(web, c, w)
        /\ Reaches(web, c, w) => Owner[c] \in Related(w)

(* The association tables have no unique key: a row is doubled only where  *)
(* two transactions were open at a time (models/was.py:235, 430).          *)
StoredOnce ==
    overlapped \/ ((\A p \in Pairs : link[p] <= 1) /\ (\A q \in DOMAIN rel : rel[q] <= 1))

(* A web a user has set to Isolated is left so by a sync or a registration *)
(* that began after, unless it is registered with a "webserver" home       *)
(* (webtob_dml.py:82, relationship.py:461).                                *)
IsolatedStays ==
    [][\A w \in Webs : web[w].built = "Isolated" /\ web'[w].built # "Isolated" =>
          \E t \in Open : t \notin Open' /\ (~alone[t] \/ (t = w /\ put[w][w].home))]_vars
=============================================================================
