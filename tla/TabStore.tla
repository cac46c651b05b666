-------------------------------- MODULE TabStore --------------------------------
(***************************************************************************)
(* The database of each tab and its image in IndexedDB (openWebSqlite.ts,  *)
(* db/index.ts) under the election of TabLock.                             *)
(*                                                                         *)
(* A tab opens the image into memory, exports the whole database after a   *)
(* commit and puts it later.  A put carries the generation and the nonce   *)
(* its executor was opened with, and is refused when they are older than   *)
(* the image's.  A tab that takes over seals the image with a new          *)
(* generation and opens it again; a tab that yields puts once more.        *)
(***************************************************************************)
EXTENDS TabLock

CONSTANTS
    Rows,        \* what the tabs write, each row once
    StoreFaults  \* what may happen, see StoreFaultNames

StoreFaultNames ==
    {"focus",     \* a readonly tab reads the image again
     "rollback",  \* transactions are rolled back
     "opening",   \* a tab yields while its database is still opening
     "recall",    \* a tab asks for the lock again while it is yielding
     "unsealed"}  \* a tab yields before it has sealed and refreshed

ASSUME StoreAssumption == StoreFaults \subseteq StoreFaultNames

VARIABLES
    db,       \* the database of each tab
    image,    \* what IndexedDB holds
    written   \* history: the rows committed by any tab

storeVars == <<db, image, written>>
allVars == <<lockVars, storeVars>>

(* A nonce is random: its rank decides against another tab's.               *)
Nonces == (0 .. 1) \X Nat \X (Tabs \cup {None})
FreshNonces(t, n) == {<<r, n, t>> : r \in 0 .. 1}

NoSeal == [rows |-> {}, gen |-> 0, non |-> <<0, 0, None>>]

FreshDb(t, n) ==
    [gen |-> 1, non |-> <<0, n, t>>, \* persistGeneration, persistNonce
     bumps |-> n,
     open |-> "idle",                \* getDb: idle, read or flush
     refreshing |-> FALSE,
     has |-> FALSE,                  \* an executor exists
     rows |-> {}, exgen |-> 0, exnon |-> <<0, 0, None>>,
     rolled |-> FALSE, err |-> FALSE,
     chain |-> <<>>,                 \* its puts, oldest first
     late |-> <<>>,                  \* the puts of discarded executors
     await |-> {},                   \* what the flushes that run wait for
     seal |-> NoSeal, sealing |-> "idle"]

Ready(d) == d.has /\ d.open = "idle"

-----------------------------------------------------------------------------
(* compareSnapshotMeta: the generation decides, then the nonce.              *)
NonceBelow(x, y) ==
    x[1] < y[1] \/ (x[1] = y[1] /\ x[2] < y[2])

Newer(x, y) == x.gen > y.gen \/ (x.gen = y.gen /\ NonceBelow(y.non, x.non))

(* isStalePut: against the tab's own generation, then against the image.     *)
Stale(put, d) == put.gen < d.gen \/ Newer(image, put)

Adopted(gen) == IF image.gen > gen THEN image.gen ELSE gen

(* persistNow, after the checks of its callers.                              *)
Export(d) == [rows |-> d.rows, gen |-> d.exgen, non |-> d.exnon]
Persist(d) == IF d.rolled THEN d ELSE [d EXCEPT !.chain = Append(@, Export(d))]

(* discardClose and a new getDb: what the old executor put is still on its way, *)
(* and who waited for it waits for it there.                                 *)
Reopen(d) ==
    [d EXCEPT !.has = FALSE, !.open = "read", !.late = @ \o d.chain, !.chain = <<>>,
              !.await = IF "chain" \in @ THEN {"late"} ELSE @]

StoreInit ==
    /\ LockInit
    /\ db = [t \in Tabs |-> FreshDb(t, 0)]
    /\ image = NoSeal
    /\ written = {}

SetDb(t, d) == db' = [db EXCEPT ![t] = d]

-----------------------------------------------------------------------------
(* The steps of the election.  beforeYield runs as soon as a flush starts:   *)
(* it exports the database if the tab still counts as the writer, and waits  *)
(* for the puts of the executor that it found, if it found one.              *)
Flushed(t) ==
    IF tab'[t].flush \ tab[t].flush # {} /\ Ready(db[t])
    THEN [(IF tab'[t].mode = "writer" THEN Persist(db[t]) ELSE db[t]) EXCEPT !.await = @ \cup {"chain"}]
    ELSE db[t]

Yields(t) == "own" \in tab'[t].flush \ tab[t].flush

Lock(t) ==
    /\ TabStep(t)
    /\ Yields(t) => /\ "unsealed" \in StoreFaults \/ tab[t].surface
                    /\ "opening" \in StoreFaults \/ Ready(db[t])
    /\ "recall" \in StoreFaults \/ tab[t].flush = {} \/ takeovers' = takeovers
    /\ db' = [u \in Tabs |-> Flushed(u)]
    /\ UNCHANGED <<image, written>>

(* The page loads: initTabLock, then getDb.                                  *)
OpenTab(t) ==
    /\ \E s \in Slots : Boot(t, s)
    /\ \E n \in FreshNonces(t, db[t].bumps + 1) :
         SetDb(t, [FreshDb(t, db[t].bumps + 1) EXCEPT !.open = "read", !.non = n])
    /\ UNCHANGED <<image, written>>

FlushOver(t) ==
    /\ \E k \in Flushes : FlushEnd(t, k)
    /\ SetDb(t, [db[t] EXCEPT !.await = IF tab'[t].flush = {} THEN {} ELSE @])
    /\ UNCHANGED <<image, written>>

EndFlushAtOnce(t) == FlushOver(t)   \* mutant: beforeYield does not wait for its put

EndFlush(t) ==
    /\ "chain" \in db[t].await => db[t].chain = <<>>
    /\ "late" \in db[t].await => db[t].late = <<>>
    /\ FlushOver(t)

(* The page goes: what was not yet put is lost.                              *)
CloseTab(t) ==
    /\ Gone(t)
    /\ SetDb(t, FreshDb(t, db[t].bumps))
    /\ UNCHANGED <<image, written>>

-----------------------------------------------------------------------------
(* openIdbSnapshotVfs and getDb: a writer takes a new generation, and its    *)
(* first write (mesh_peers) puts the image at once.  It waits for that put,  *)
(* and what follows on the put is of one piece with its end.                 *)
OpenRead(t) ==
    LET d == db[t]
        read == [d EXCEPT !.has = TRUE, !.rows = image.rows, !.rolled = FALSE, !.err = FALSE]
    IN  /\ d.open = "read"
        /\ tab[t].up /\ \A s \in Slots : tab[t].ph[s] # "boot"
        /\ IF IsWriter(tab[t])
           THEN \E n \in FreshNonces(t, d.bumps + 1) :
                  SetDb(t, Persist([read EXCEPT !.gen = Adopted(@) + 1, !.exgen = Adopted(d.gen) + 1,
                                                !.non = n, !.exnon = n, !.bumps = @ + 1,
                                                !.open = "flush"]))
           ELSE SetDb(t, [read EXCEPT !.gen = Adopted(@), !.exgen = Adopted(d.gen),
                                      !.exnon = d.non, !.refreshing = FALSE, !.open = "idle"])
        /\ UNCHANGED <<lockVars, image, written>>

(* flushPersist: a refused put fails the open, and the next getDb retries.   *)
Opened(d) ==
    IF d.open = "flush" /\ d.chain = <<>>
    THEN [d EXCEPT !.open = "idle", !.refreshing = FALSE, !.has = ~d.err] ELSE d

OpenAgain(t) ==
    /\ tab[t].up /\ ~db[t].has /\ db[t].open = "idle"
    /\ SetDb(t, Reopen(db[t]))
    /\ UNCHANGED <<lockVars, image, written>>

(* refreshReadonlySnapshot on focus.                                         *)
FocusRefresh(t) ==
    /\ "focus" \in StoreFaults
    /\ tab[t].up /\ tab[t].mode = "readonly" /\ ~db[t].refreshing
    /\ SetDb(t, [Reopen(db[t]) EXCEPT !.refreshing = TRUE])
    /\ UNCHANGED <<lockVars, image, written>>

-----------------------------------------------------------------------------
(* A put reaches IndexedDB: the comparison and the write are one transaction. *)
PutNext(t) ==
    LET d == db[t]
        put == Head(d.chain)
        popped == [d EXCEPT !.chain = Tail(@)]
    IN  /\ d.chain # <<>>
        /\ IF Stale(put, d)
           THEN /\ SetDb(t, Opened([popped EXCEPT !.err = @ \/ IsWriter(tab[t])]))
                /\ UNCHANGED image
           ELSE /\ image' = put
                /\ SetDb(t, Opened([popped EXCEPT !.err = FALSE]))
        /\ UNCHANGED <<lockVars, written>>

PutLate(t) ==
    LET d == db[t]
    IN  /\ d.late # <<>>
        /\ image' = IF Stale(Head(d.late), d) THEN image ELSE Head(d.late)
        /\ SetDb(t, [d EXCEPT !.late = Tail(@)])
        /\ UNCHANGED <<lockVars, written>>

(* guardMutations, executeSync: a commit of the writer.                      *)
MayWrite(t) == IsWriter(tab[t]) /\ tab[t].surface /\ Ready(db[t]) /\ ~db[t].err

Write(t, w, begins) ==
    /\ MayWrite(t) /\ w \notin written
    /\ SetDb(t, Persist([db[t] EXCEPT !.rows = @ \cup {w}, !.rolled = @ /\ ~begins]))
    /\ written' = written \cup {w}
    /\ UNCHANGED <<lockVars, image>>

Rollback(t) ==
    /\ "rollback" \in StoreFaults
    /\ MayWrite(t)
    /\ SetDb(t, [db[t] EXCEPT !.rolled = TRUE])
    /\ UNCHANGED <<lockVars, image, written>>

-----------------------------------------------------------------------------
(* The subscriber of db/index.ts after a takeover: sealPersistGenerationInIdb *)
(* reads the image, puts it back with a new generation, and the tab opens it. *)
SealReadOwn(t) ==   \* mutant: the tab seals its own copy
    LET d == db[t]
    IN  /\ tab[t].refresh /\ d.sealing = "idle"
        /\ \E n \in FreshNonces(t, d.bumps + 1) :
             SetDb(t, [d EXCEPT !.gen = Adopted(@) + 1, !.non = n, !.bumps = @ + 1,
                                !.sealing = "put",
                                !.seal = [rows |-> d.rows, gen |-> Adopted(d.gen) + 1, non |-> n]])
        /\ UNCHANGED <<lockVars, image, written>>

SealRead(t) ==
    LET d == db[t]
    IN  /\ tab[t].refresh /\ d.sealing = "idle"
        /\ \E n \in FreshNonces(t, d.bumps + 1) :
             SetDb(t, [d EXCEPT !.gen = Adopted(@) + 1, !.non = n, !.bumps = @ + 1,
                                !.sealing = "put",
                                !.seal = [rows |-> image.rows, gen |-> Adopted(d.gen) + 1, non |-> n]])
        /\ UNCHANGED <<lockVars, image, written>>

SealPutOnly(t) ==   \* mutant: the sealed image is not opened again
    /\ db[t].sealing = "put"
    /\ image' = IF Stale(db[t].seal, db[t]) THEN image ELSE db[t].seal
    /\ SetDb(t, [db[t] EXCEPT !.sealing = "idle", !.seal = NoSeal])
    /\ Refreshed(t)
    /\ UNCHANGED written

SealPut(t) ==
    LET d == [db[t] EXCEPT !.seal = NoSeal]
        fails == Stale(db[t].seal, d)
    IN  /\ d.sealing = "put"
        /\ image' = IF fails THEN image ELSE db[t].seal
        /\ IF fails \/ d.refreshing
           THEN /\ SetDb(t, [d EXCEPT !.sealing = "idle"])
                /\ Refreshed(t)
           ELSE /\ SetDb(t, [Reopen(d) EXCEPT !.refreshing = TRUE, !.sealing = "refresh"])
                /\ UNCHANGED lockVars
        /\ UNCHANGED written

SealDone(t) ==
    /\ db[t].sealing = "refresh" /\ ~db[t].refreshing
    /\ SetDb(t, [db[t] EXCEPT !.sealing = "idle"])
    /\ Refreshed(t)
    /\ UNCHANGED <<image, written>>

StoreNext ==
    \E t \in Tabs :
        \/ Lock(t) \/ OpenTab(t) \/ EndFlush(t) \/ CloseTab(t)
        \/ OpenRead(t) \/ OpenAgain(t) \/ FocusRefresh(t)
        \/ PutNext(t) \/ PutLate(t)
        \/ \E w \in Rows, begins \in BOOLEAN : Write(t, w, begins)
        \/ Rollback(t)
        \/ SealRead(t) \/ SealPut(t) \/ SealDone(t)

StoreSpec == StoreInit /\ [][StoreNext]_allVars

-----------------------------------------------------------------------------
(* Every variable has its type.                                              *)
Puts == [rows : SUBSET Rows, gen : Nat, non : Nonces]

DbType ==
    [gen : Nat, non : Nonces, bumps : Nat,
     open : {"idle", "read", "flush"}, refreshing : BOOLEAN, has : BOOLEAN,
     rows : SUBSET Rows, exgen : Nat, exnon : Nonces, rolled : BOOLEAN, err : BOOLEAN,
     chain : Seq(Puts), late : Seq(Puts), await : SUBSET {"chain", "late"},
     seal : Puts, sealing : {"idle", "put", "refresh"}]

StoreTypeOK ==
    /\ LockTypeOK
    /\ db \in [Tabs -> DbType]
    /\ image \in Puts
    /\ written \subseteq Rows

(* "generation guard refuses a late stale put" (tabLock.ts): the image never *)
(* loses a row another put had brought.                                      *)
NothingLost == [][image.rows \subseteq image'.rows]_allVars

(* "Writer tabs persist on close" (db/index.ts): a tab that gives the lock up *)
(* has put every row it committed, unless it had rolled back before or its   *)
(* executor is of an older generation than its tab.                          *)
HandedOver ==
    [][\A t \in Tabs :
         Owns(t) /\ owner' = None /\ tab'[t].up /\ Ready(db[t])
         /\ ~db[t].rolled /\ db[t].exgen = db[t].gen
         => db[t].rows \subseteq image.rows]_allVars

(* A tab that may write has opened an image with every row put before.       *)
WriterIsCurrent == \A t \in Tabs : MayWrite(t) => image.rows \subseteq db[t].rows

=============================================================================
