---------------------------- MODULE InboundProofs ----------------------------
(***************************************************************************)
(* Proofs about Inbound.                                                    *)
(***************************************************************************)
EXTENDS Inbound, FiniteSetTheorems, WellFoundedInduction, TLAPS

-------------------------------------------------------------------------------
(* A set of naturals that is not empty has a least member                    *)

Below == {ss \in Nat \X Nat : ss[1] < ss[2]}

(* The order of the naturals is well-founded.                                *)
LEMMA BelowWellFounded == IsWellFoundedOn(Below, Nat)
<1>1. IsWellFoundedOn(OpToRel(<, Nat), Nat)
  BY NatLessThanWellFounded
<1>2. OpToRel(<, Nat) = Below
  BY DEF OpToRel, Below
<1> QED BY <1>1, <1>2

(* The item the loop is at is one of those it still has to do.               *)
LEMMA MinIsMember ==
    ASSUME NEW S \in SUBSET Nat, S # {}
    PROVE  Min(S) \in S
<1>1. PICK x \in S : \A y \in S : ~ (<<y, x>> \in Below)
  BY BelowWellFounded, WFMin
<1>2. ASSUME NEW y \in S PROVE x <= y
  <2>1. x \in Nat /\ y \in Nat
    OBVIOUS
  <2>2. ~ (<<y, x>> \in Below)
    BY <1>1
  <2> QED BY <2>1, <2>2 DEF Below
<1> QED BY <1>2 DEF Min

-------------------------------------------------------------------------------
(* Types                                                                     *)

Reqs == {"none", "pending", "accepted", "declined"}
ItemRow == [m : Nat, done : BOOLEAN, clear : BOOLEAN, failed : BOOLEAN]
MessageRow == [kind : {"text", "attach"}, by : {"me", "peer"}, gone : BOOLEAN,
               state : {"sent", "delivered", "read", "unsent"}]
Call == [pc : Points, prior : BOOLEAN, req : Reqs, out : {"idle", "handshaking", "ready"},
         next : {"return", "receive", "keep", "snap"}, work : SUBSET Nat,
         waits : BOOLEAN, applied : BOOLEAN, got : BOOLEAN, fetched : Nat]

(* The points at which an item is handled.                                   *)
Handling == {"saved", "fresh", "owed", "row", "wipe", "mark"}

IWire ==
    /\ script \in Scripts
    /\ link \in {"none", "shaking", "open"} /\ req \in Reqs
    /\ wire \in [got : Nat, saved : Nat] /\ wire.saved <= wire.got /\ wire.got <= Len(script)
    /\ used \in [reload : Nat, error : Nat, declined : BOOLEAN, torn : BOOLEAN]

IItems == items \in Seq(ItemRow) /\ \A i \in DOMAIN items : items[i].m \in DOMAIN script

IDb ==
    /\ db = [rows |-> db.rows, files |-> db.files, keys |-> db.keys, wipes |-> db.wipes,
             tags |-> db.tags, late |-> db.late, told |-> db.told]
    /\ db.rows \in [DOMAIN db.rows -> MessageRow]
    /\ \A id \in DOMAIN db.rows : db.rows[id].by = "me" <=> id \in Mine

ICall ==
    /\ at \in Call /\ at.work \subseteq DOMAIN items
    /\ at.pc \in Handling => at.work # {}
    /\ at.pc \notin Handling \cup {"route"} => at.work = {}
    /\ at.pc \in Handling \cup {"route"} => at.next # "keep"
    /\ at.pc = "store" => at.fetched \in 1 .. wire.got

Typed == IWire /\ IItems /\ IDb /\ ICall

(* The initial state.                                                        *)
LEMMA InitTyped == Init => Typed
<1> SUFFICES ASSUME Init PROVE Typed
  OBVIOUS
<1> USE InboundAssumption DEF Init
<1>1. IWire
  BY DEF IWire, Reqs
<1>2. IItems
  BY DEF IItems
<1>3. IDb
  BY DEF IDb
<1>4. ICall
  BY DEF ICall, Call, Idle, Points, Handling, Reqs
<1> QED BY <1>1, <1>2, <1>3, <1>4 DEF Typed

-------------------------------------------------------------------------------
(* What a step of the routing does                                           *)

(* The message the loop is at.                                               *)
LEMMA CurrentItem ==
    ASSUME Typed, at.work # {}
    PROVE  /\ Current \in at.work /\ Current \in DOMAIN items
           /\ items[Current].m \in DOMAIN script /\ Msg.id \notin Mine /\ Msg.kind \in Kinds
<1>1. at.work \in SUBSET Nat
  BY DEF Typed, ICall, Call
<1>2. Current \in at.work
  BY <1>1, MinIsMember DEF Current
<1>3. items[Current].m \in DOMAIN script
  BY <1>2 DEF Typed, ICall, IItems
<1> QED BY <1>2, <1>3, InboundAssumption DEF Typed, ICall, IWire, Msg

(* What the routing leaves of the stream: the same messages, and nothing it  *)
(* redacted becomes readable.                                                *)
SameStream ==
    /\ items' \in Seq(ItemRow) /\ DOMAIN items' = DOMAIN items
    /\ \A i \in DOMAIN items : items'[i].m = items[i].m /\ (items'[i].clear => items[i].clear)

LEMMA ProcessedKeeps ==
    ASSUME Typed, NEW failed \in BOOLEAN, items' = Processed(failed)
    PROVE  SameStream
<1>1. items \in Seq(ItemRow)
  BY DEF Typed, IItems
<1> DEFINE c == Current
           row == [items[c] EXCEPT !.done = TRUE, !.failed = failed]
<1>2. items' = [items EXCEPT ![c] = row]
  BY DEF Processed
<1>3. ASSUME c \in DOMAIN items
      PROVE  row \in ItemRow /\ row.m = items[c].m /\ row.clear = items[c].clear
  <2>1. items[c] \in ItemRow
    BY <1>1, <1>3
  <2> HIDE DEF c
  <2> QED BY <2>1 DEF ItemRow
<1> HIDE DEF c, row
<1>4. DOMAIN items' = DOMAIN items
  BY <1>2
<1>5. items' \in Seq(ItemRow)
  <2>1. items \in [1 .. Len(items) -> ItemRow] /\ Len(items) \in Nat
    BY <1>1
  <2>2. items' \in [1 .. Len(items) -> ItemRow]
    BY <2>1, <1>2, <1>3
  <2> QED BY <2>1, <2>2
<1>6. ASSUME NEW i \in DOMAIN items
      PROVE  items'[i].m = items[i].m /\ (items'[i].clear => items[i].clear)
  BY <1>1, <1>2, <1>3
<1> QED BY <1>4, <1>5, <1>6 DEF SameStream

LEMMA RedactedKeeps ==
    ASSUME Typed, NEW id, items' = Redacted(id)
    PROVE  /\ SameStream
           /\ \A i \in DOMAIN items : script[items[i].m].id = id => ~items'[i].clear
<1>1. items \in Seq(ItemRow) /\ DOMAIN items = 1 .. Len(items) /\ Len(items) \in Nat
  BY DEF Typed, IItems
<1> DEFINE cleared(i) == [items[i] EXCEPT !.clear = FALSE]
<1>2. ASSUME NEW i \in DOMAIN items
      PROVE  cleared(i) \in ItemRow /\ cleared(i).m = items[i].m /\ ~cleared(i).clear
  <2>1. items[i] \in ItemRow
    BY <1>1, <1>2
  <2> QED BY <2>1 DEF ItemRow
<1>3. items' = [i \in DOMAIN items |-> IF script[items[i].m].id = id THEN cleared(i) ELSE items[i]]
  BY DEF Redacted
<1> HIDE DEF cleared
<1>4. DOMAIN items' = DOMAIN items
  BY <1>3
<1>5. items' \in Seq(ItemRow)
  BY <1>1, <1>2, <1>3
<1>6. ASSUME NEW i \in DOMAIN items
      PROVE  /\ items'[i].m = items[i].m /\ (items'[i].clear => items[i].clear)
             /\ script[items[i].m].id = id => ~items'[i].clear
  BY <1>1, <1>2, <1>3
<1> QED BY <1>4, <1>5, <1>6 DEF SameStream

-------------------------------------------------------------------------------
(* What the writes of the database do                                        *)

(* What is not a row, a file, a key or a wipe.                               *)
Others(d) == <<d.tags, d.late, d.told>>

LEMMA AddRowAdds ==
    ASSUME IDb, NEW id, NEW kind \in {"text", "attach"}, NEW by \in {"me", "peer"},
           db' = AddRow(id, kind, by), by = "me" <=> id \in Mine
    PROVE  /\ IDb' /\ DOMAIN db'.rows = DOMAIN db.rows \cup {id} /\ ~db'.rows[id].gone
           /\ \A x \in DOMAIN db.rows \ {id} : db'.rows[x] = db.rows[x]
           /\ db'.files = db.files /\ db'.keys = db.keys /\ db'.wipes = db.wipes
           /\ db'.tags = db.tags
<1> DEFINE rows == [x \in DOMAIN db.rows \cup {id} |-> IF x = id THEN Row(kind, by) ELSE db.rows[x]]
<1>1. db' = [db EXCEPT !.rows = rows]
  BY DEF AddRow
<1>2. Row(kind, by) \in MessageRow /\ Row(kind, by).by = by /\ ~Row(kind, by).gone
  BY DEF Row, MessageRow
<1>3. /\ rows \in [DOMAIN db.rows \cup {id} -> MessageRow] /\ ~rows[id].gone /\ rows[id].by = by
      /\ \A x \in DOMAIN db.rows \ {id} : rows[x] = db.rows[x]
  BY <1>2 DEF IDb
<1> HIDE DEF rows
<1>4. db' = [rows |-> rows, files |-> db.files, keys |-> db.keys, wipes |-> db.wipes,
             tags |-> db.tags, late |-> db.late, told |-> db.told]
  BY <1>1 DEF IDb
<1>5. \A x \in DOMAIN rows : rows[x].by = "me" <=> x \in Mine
  BY <1>3 DEF IDb
<1>6. IDb'
  BY <1>3, <1>4, <1>5 DEF IDb
<1> QED BY <1>3, <1>4, <1>6

LEMMA TombstonedMarks ==
    ASSUME IDb, NEW id \in DOMAIN db.rows, db' = Tombstoned(id)
    PROVE  /\ IDb' /\ DOMAIN db'.rows = DOMAIN db.rows /\ db'.rows[id].gone
           /\ \A x \in DOMAIN db.rows \ {id} : db'.rows[x] = db.rows[x]
           /\ db'.files = db.files /\ db'.keys = db.keys /\ db'.tags = db.tags
           /\ db.wipes \subseteq db'.wipes /\ (id \in db.files => id \in db'.wipes)
<1> DEFINE row == Tombstone(db.rows[id])
           rows == [db.rows EXCEPT ![id] = row]
           wipes == IF id \in db.files THEN db.wipes \cup {id} ELSE db.wipes
<1>1. db' = [db EXCEPT !.rows = rows, !.wipes = wipes]
  BY DEF Tombstoned
<1>2. row \in MessageRow /\ row.by = db.rows[id].by /\ row.gone
  <2>1. db.rows[id] \in MessageRow
    BY DEF IDb
  <2> QED BY <2>1 DEF Tombstone, MessageRow
<1> HIDE DEF row
<1>3. /\ rows \in [DOMAIN db.rows -> MessageRow] /\ rows[id] = row
      /\ \A x \in DOMAIN db.rows \ {id} : rows[x] = db.rows[x]
  BY <1>2 DEF IDb
<1> HIDE DEF rows
<1>4. db.wipes \subseteq wipes /\ (id \in db.files => id \in wipes)
  OBVIOUS
<1> HIDE DEF wipes
<1>5. db' = [rows |-> rows, files |-> db.files, keys |-> db.keys, wipes |-> wipes,
             tags |-> db.tags, late |-> db.late, told |-> db.told]
  BY <1>1 DEF IDb
<1>6. \A x \in DOMAIN rows : rows[x].by = "me" <=> x \in Mine
  BY <1>2, <1>3 DEF IDb
<1>7. IDb'
  BY <1>3, <1>5, <1>6 DEF IDb
<1> QED BY <1>2, <1>3, <1>4, <1>5, <1>7

(* A receipt upgrades the state of a row and nothing else.                   *)
LEMMA UpgradedKeeps ==
    ASSUME IDb, NEW id \in DOMAIN db.rows, NEW next \in {"delivered", "read"}, db' = Upgraded(id, next)
    PROVE  /\ IDb' /\ DOMAIN db'.rows = DOMAIN db.rows
           /\ \A x \in DOMAIN db.rows : db'.rows[x].gone = db.rows[x].gone
           /\ db'.files = db.files /\ db'.keys = db.keys /\ db'.wipes = db.wipes
           /\ db'.tags = db.tags
<1> DEFINE row == [db.rows[id] EXCEPT !.state = next]
           rows == [db.rows EXCEPT ![id] = row]
<1>1. db' = db \/ db' = [db EXCEPT !.rows = rows]
  BY DEF Upgraded
<1>2. row \in MessageRow /\ row.by = db.rows[id].by /\ row.gone = db.rows[id].gone
  <2>1. db.rows[id] \in MessageRow
    BY DEF IDb
  <2> QED BY <2>1 DEF MessageRow
<1> HIDE DEF row
<1>3. /\ rows \in [DOMAIN db.rows -> MessageRow] /\ rows[id] = row
      /\ \A x \in DOMAIN db.rows \ {id} : rows[x] = db.rows[x]
  BY <1>2 DEF IDb
<1> HIDE DEF rows
<1>4. CASE db' = db
  BY <1>4 DEF IDb
<1>5. CASE db' = [db EXCEPT !.rows = rows]
  <2>1. db' = [rows |-> rows, files |-> db.files, keys |-> db.keys, wipes |-> db.wipes,
               tags |-> db.tags, late |-> db.late, told |-> db.told]
    BY <1>5 DEF IDb
  <2>2. \A x \in DOMAIN rows : rows[x].by = "me" <=> x \in Mine
    BY <1>2, <1>3 DEF IDb
  <2>3. IDb'
    BY <1>3, <2>1, <2>2 DEF IDb
  <2> QED BY <1>2, <1>3, <2>1, <2>3
<1> QED BY <1>1, <1>4, <1>5

(* The rows stay.                                                            *)
LEMMA SameRows ==
    ASSUME IDb, NEW files, NEW keys, NEW wipes, NEW tags, NEW late, NEW told,
           db' = [rows |-> db.rows, files |-> files, keys |-> keys, wipes |-> wipes,
                  tags |-> tags, late |-> late, told |-> told]
    PROVE  /\ IDb' /\ db'.rows = db.rows /\ db'.files = files /\ db'.keys = keys
           /\ db'.wipes = wipes /\ db'.tags = tags
BY DEF IDb
LEMMA UnprocessedItems ==
    ASSUME NEW its \in Seq(ItemRow)
    PROVE  Unprocessed(its) \in SUBSET Nat /\ Unprocessed(its) \subseteq DOMAIN its
BY DEF Unprocessed

LEMMA Appended ==
    ASSUME NEW s \in Seq(ItemRow), NEW t \in Seq(ItemRow)
    PROVE  /\ s \o t \in Seq(ItemRow) /\ Len(s \o t) = Len(s) + Len(t)
           /\ \A i \in 1 .. Len(s \o t) :
                 (s \o t)[i] = IF i <= Len(s) THEN s[i] ELSE t[i - Len(s)]
OBVIOUS

(* The messages a receive brought are stored behind what there is, each once. *)
LEMMA StoredItems ==
    ASSUME Typed, Store
    PROVE  /\ items' \in Seq(ItemRow) /\ DOMAIN items \subseteq DOMAIN items'
           /\ \A i \in DOMAIN items : items'[i] = items[i]
           /\ \A i \in DOMAIN items' \ DOMAIN items : items'[i].m \in Kept /\ items'[i].clear
           /\ \A n \in Kept : \E i \in DOMAIN items' \ DOMAIN items : items'[i].m = n
           /\ Kept \subseteq DOMAIN script
<1>1. PICK q \in InOrder(Kept) : items' = items \o [i \in DOMAIN q |-> Item(q[i])]
  BY DEF Store
<1>2. Kept \subseteq DOMAIN script
  BY InboundAssumption DEF Kept, Store, Typed, IWire, ICall, Call
<1>3. /\ q \in [1 .. Cardinality(Kept) -> Kept] /\ \A n \in Kept : \E i \in DOMAIN q : q[i] = n
  BY <1>1 DEF InOrder, Bijection, Surjection, Injection
<1>4. Cardinality(Kept) \in Nat
  <2>1. wire.got - at.fetched + 1 \in Int /\ wire.got \in Int
    BY DEF Typed, IWire, ICall, Call
  <2>2. IsFiniteSet(wire.got - at.fetched + 1 .. wire.got)
    BY <2>1, FS_Interval
  <2>3. IsFiniteSet(Kept)
    BY <2>2, FS_Subset DEF Kept
  <2> QED BY <2>3, FS_CardinalityType
<1> DEFINE new == [i \in DOMAIN q |-> Item(q[i])]
           c == Cardinality(Kept)
<1>5. \A n \in Kept : Item(n) \in ItemRow /\ Item(n).m = n /\ Item(n).clear
  BY <1>2, InboundAssumption DEF Item, ItemRow, Typed, IWire
<1> HIDE DEF c
<1>6. /\ new \in Seq(ItemRow) /\ DOMAIN new = 1 .. c /\ Len(new) = c
      /\ \A i \in 1 .. c : new[i].m = q[i] /\ new[i].clear /\ q[i] \in Kept
  BY <1>3, <1>4, <1>5 DEF c
<1> HIDE DEF new
<1>7. items' = items \o new /\ items \in Seq(ItemRow) /\ Len(items) \in Nat
  BY <1>1 DEF new, Typed, IItems
<1>8. /\ items' \in Seq(ItemRow) /\ Len(items') = Len(items) + c /\ c \in Nat
      /\ \A i \in 1 .. Len(items') :
            items'[i] = IF i <= Len(items) THEN items[i] ELSE new[i - Len(items)]
  BY <1>4, <1>6, <1>7, Appended DEF c
<1>9. \A i \in DOMAIN items' \ DOMAIN items : items'[i].m \in Kept /\ items'[i].clear
  BY <1>6, <1>7, <1>8
<1>10. ASSUME NEW n \in Kept
       PROVE  \E i \in DOMAIN items' \ DOMAIN items : items'[i].m = n
  <2>1. PICK j \in 1 .. c : q[j] = n
    BY <1>3, <1>6 DEF c
  <2>2. /\ Len(items) + j \in DOMAIN items' \ DOMAIN items
        /\ items'[Len(items) + j] = new[j]
    BY <1>6, <1>7, <1>8, <2>1
  <2> QED BY <1>6, <2>1, <2>2
<1>11. DOMAIN items \subseteq DOMAIN items' /\ \A i \in DOMAIN items : items'[i] = items[i]
  BY <1>7, <1>8
<1> QED BY <1>2, <1>8, <1>9, <1>10, <1>11

-------------------------------------------------------------------------------
(* Types are kept                                                            *)

LEMMA SyncStartTyped == ASSUME Typed, SyncStart PROVE Typed'
<1> USE InboundAssumption DEF Typed
<1>1. IWire'
  BY DEF SyncStart, Entered, IWire, Reqs, ICall, Call, Idle
<1>2. IItems'
  BY DEF SyncStart, Entered, IItems
<1>3. IDb'
  BY DEF SyncStart, Entered, IDb
<1>4. ICall'
  <2>1. CASE at' = at
    BY <2>1 DEF SyncStart, ICall, IItems, IWire
  <2>2. CASE at' = Entered(req)
    <3>1. at' = [pc |-> "ensure", prior |-> link # "none", req |-> req, out |-> "idle",
                 next |-> "return", work |-> {}, waits |-> FALSE, applied |-> FALSE,
                 got |-> FALSE, fetched |-> 0]
      BY <2>2 DEF Entered, Idle
    <3> HIDE DEF SyncStart
    <3>2. at' \in Call
      BY <3>1 DEF Call, Points, Reqs, IWire
    <3>3. at'.pc = "ensure" /\ at'.work = {}
      BY <3>1
    <3> QED BY <3>2, <3>3 DEF ICall, Handling
  <2> QED BY <2>1, <2>2 DEF SyncStart
<1> QED BY <1>1, <1>2, <1>3, <1>4

LEMMA EnsureWaitsTyped == ASSUME Typed, EnsureWaits PROVE Typed'
<1> USE InboundAssumption DEF Typed
<1>1. IWire'
  BY DEF EnsureWaits, IWire, Reqs, ICall, Call, Idle
<1>2. IItems'
  BY DEF EnsureWaits, IItems
<1>3. IDb'
  BY DEF EnsureWaits, IDb
<1>4. ICall'
  BY DEF EnsureWaits, ICall, Call, Idle, Points, Handling, Reqs, IItems, IWire
<1> QED BY <1>1, <1>2, <1>3, <1>4

LEMMA EnsureReadyTyped == ASSUME Typed, EnsureReady PROVE Typed'
<1> USE InboundAssumption DEF Typed
<1>1. IWire'
  BY DEF EnsureReady, IWire, Reqs, ICall, Call, Idle
<1>2. IItems'
  BY DEF EnsureReady, IItems
<1>3. IDb'
  BY DEF EnsureReady, IDb
<1>4. ICall'
  BY DEF EnsureReady, ICall, Call, Idle, Points, Handling, Reqs, IItems, IWire
<1> QED BY <1>1, <1>2, <1>3, <1>4

LEMMA GateTyped == ASSUME Typed, Gate PROVE Typed'
<1> USE InboundAssumption DEF Typed
<1>1. IWire'
  BY DEF Gate, Hold, Route, Unprocessed, Return, IWire, Reqs, ICall, Call, Idle
<1>2. IItems'
  BY DEF Gate, Hold, Route, Unprocessed, Return, IItems
<1>3. IDb'
  BY DEF Gate, Hold, Route, Unprocessed, Return, IDb
<1>4. ICall'
  <2>1. Unprocessed(items) \in SUBSET Nat /\ Unprocessed(items) \subseteq DOMAIN items
    BY UnprocessedItems DEF IItems
  <2>2. items' = items /\ wire' = wire
    BY DEF Gate
  <2>3. CASE at' = Idle
    BY <2>2, <2>3 DEF ICall, Call, Idle, Points, Handling, Reqs
  <2>4. CASE Hold
    BY <2>2, <2>4 DEF Gate, Hold, ICall, Call, Points, Handling
  <2>5. ASSUME NEW next \in {"receive", "return"}, Route(items, next) PROVE ICall'
    BY <2>1, <2>2, <2>5 DEF Gate, Route, ICall, Call, Points, Handling
  <2> QED BY <2>3, <2>4, <2>5 DEF Gate
<1> QED BY <1>1, <1>2, <1>3, <1>4

LEMMA ReceiveTyped == ASSUME Typed, Receive PROVE Typed'
<1> USE InboundAssumption DEF Typed
<1>1. IWire'
  <2>1. PICK n \in 0 .. MaxBatch :
           wire.got + n <= Len(script) /\ wire' = [wire EXCEPT !.got = @ + n]
    BY DEF Receive
  <2>2. wire' \in [got : Nat, saved : Nat] /\ wire'.got = wire.got + n /\ wire'.saved = wire.saved
    BY <2>1 DEF IWire
  <2> QED BY <2>1, <2>2 DEF Receive, IWire
<1>2. IItems'
  BY DEF Receive, IItems
<1>3. IDb'
  BY DEF Receive, IDb
<1>4. ICall'
  <2>1. PICK n \in 0 .. MaxBatch :
           /\ wire' = [wire EXCEPT !.got = @ + n]
           /\ at' = IF n = 0 THEN Idle ELSE [at EXCEPT !.pc = "store", !.fetched = n]
    BY DEF Receive
  <2>2. n \in Nat /\ wire'.got = wire.got + n /\ items' = items /\ at.pc = "receive"
    BY <2>1 DEF Receive, IWire
  <2>3. CASE n = 0
    BY <2>1, <2>2, <2>3 DEF ICall, Call, Idle, Points, Handling, Reqs
  <2>4. CASE n # 0
    <3>1. at' = [at EXCEPT !.pc = "store", !.fetched = n]
      BY <2>1, <2>4
    <3>2. n \in 1 .. wire'.got
      BY <2>2, <2>4 DEF IWire
    <3> QED BY <2>2, <3>1, <3>2 DEF ICall, Call, Points, Handling
  <2> QED BY <2>3, <2>4
<1> QED BY <1>1, <1>2, <1>3, <1>4

LEMMA StoreTyped == ASSUME Typed, Store PROVE Typed'
<1> USE InboundAssumption DEF Typed
<1>1. IWire'
  BY DEF Store, Route, Unprocessed, Goto, IWire, Reqs, ICall, Call, Idle
<1>2. IItems'
  BY StoredItems DEF Store, IItems
<1>3. IDb'
  BY DEF Store, Route, Unprocessed, Goto, IDb
<1>4. ICall'
  <2>1. items' \in Seq(ItemRow) /\ DOMAIN items \subseteq DOMAIN items'
    BY StoredItems
  <2>2. Unprocessed(items') \in SUBSET Nat /\ Unprocessed(items') \subseteq DOMAIN items'
    BY <2>1, UnprocessedItems
  <2>3. CASE Goto("snap")
    BY <2>1, <2>3 DEF Store, Goto, ICall, Call, Points, Handling
  <2>4. CASE Route(items', "snap")
    BY <2>1, <2>2, <2>4 DEF Store, Route, ICall, Call, Points, Handling
  <2> QED BY <2>3, <2>4 DEF Store
<1> QED BY <1>1, <1>2, <1>3, <1>4

LEMMA SnapshotTyped == ASSUME Typed, Snapshot PROVE Typed'
<1> USE InboundAssumption DEF Typed
<1>1. IWire'
  BY DEF Snapshot, Return, IWire, Reqs, ICall, Call, Idle
<1>2. IItems'
  BY DEF Snapshot, Return, IItems
<1>3. IDb'
  BY DEF Snapshot, Return, IDb
<1>4. ICall'
  BY DEF Snapshot, Return, ICall, Call, Idle, Points, Handling, Reqs, IItems, IWire
<1> QED BY <1>1, <1>2, <1>3, <1>4

LEMMA RouteUnknownTyped == ASSUME Typed, RouteUnknown PROVE Typed'
<1> USE InboundAssumption DEF Typed
<1>1. IWire'
  BY DEF RouteUnknown, Routing, NextItem, IWire, Reqs, ICall, Call, Idle
<1>2. IItems'
  BY DEF RouteUnknown, Routing, NextItem, IItems
<1>3. IDb'
  BY DEF RouteUnknown, Routing, NextItem, IDb
<1>4. ICall'
  BY DEF RouteUnknown, Routing, NextItem, ICall, Call, Idle, Points, Handling, Reqs, IItems, IWire
<1> QED BY <1>1, <1>2, <1>3, <1>4

LEMMA RouteQuietTyped == ASSUME Typed, RouteQuiet PROVE Typed'
<1> USE InboundAssumption DEF Typed
<1>1. IWire'
  BY DEF RouteQuiet, Routing, Goto, OnlyItems, IWire, Reqs, ICall, Call, Idle
<1>2. IItems'
  BY DEF RouteQuiet, Routing, Goto, OnlyItems, IItems
<1>3. IDb'
  BY DEF RouteQuiet, Routing, Goto, OnlyItems, IDb
<1>4. ICall'
  BY DEF RouteQuiet, Routing, Goto, OnlyItems, ICall, Call, Idle, Points, Handling, Reqs, IItems, IWire
<1> QED BY <1>1, <1>2, <1>3, <1>4

LEMMA RouteTextTyped == ASSUME Typed, RouteText PROVE Typed'
<1> USE InboundAssumption DEF Typed
<1>1. IWire'
  BY DEF RouteText, Routing, Goto, OnlyDb, IWire, Reqs, ICall, Call, Idle
<1>2. IItems'
  BY DEF RouteText, Routing, Goto, OnlyDb, IItems
<1>3. IDb'
  <2>1. CASE UNCHANGED db
    BY <2>1 DEF IDb
  <2>2. CASE db' = AddRow(Msg.id, "text", "peer")
    BY <2>2, CurrentItem, AddRowAdds DEF RouteText, Routing
  <2> QED BY <2>1, <2>2 DEF RouteText
<1>4. ICall'
  <2>1. PICK pc \in {"mark", "saved"} : at' = [at EXCEPT !.pc = pc]
    BY DEF RouteText, Goto
  <2> QED BY <2>1 DEF RouteText, Routing, OnlyDb, ICall, Call, Points, Handling
<1> QED BY <1>1, <1>2, <1>3, <1>4

LEMMA MarkTextTyped == ASSUME Typed, MarkText PROVE Typed'
<1> USE InboundAssumption DEF Typed
<1>1. IWire'
  BY DEF MarkText, OnlyItems, IWire, Reqs, ICall, Call, Idle
<1>2. IItems'
  BY ProcessedKeeps DEF MarkText, OnlyItems, IItems, SameStream
<1>3. IDb'
  BY DEF MarkText, OnlyItems, IDb
<1>4. ICall'
  <2>1. DOMAIN items' = DOMAIN items
    BY ProcessedKeeps DEF MarkText, SameStream
  <2> QED BY <2>1 DEF MarkText, OnlyItems, ICall, Call, Points, Handling
<1> QED BY <1>1, <1>2, <1>3, <1>4

LEMMA ReplayTagsTyped == ASSUME Typed, ReplayTags PROVE Typed'
<1> USE InboundAssumption DEF Typed
<1>1. IWire'
  BY DEF ReplayTags, Goto, OnlyDb, IWire, Reqs, ICall, Call, Idle
<1>2. IItems'
  BY DEF ReplayTags, Goto, OnlyDb, IItems
<1>3. IDb'
  BY SameRows DEF ReplayTags, Replayed, IDb
<1>4. ICall'
  BY DEF ReplayTags, Goto, OnlyDb, ICall, Call, Idle, Points, Handling, Reqs, IItems, IWire
<1> QED BY <1>1, <1>2, <1>3, <1>4

LEMMA OweReceiptTyped == ASSUME Typed, OweReceipt PROVE Typed'
<1> USE InboundAssumption DEF Typed
<1>1. IWire'
  BY DEF OweReceipt, NextItem, OnlyDb, IWire, Reqs, ICall, Call, Idle
<1>2. IItems'
  BY DEF OweReceipt, NextItem, OnlyDb, IItems
<1>3. IDb'
  BY DEF OweReceipt, NextItem, OnlyDb, IDb
<1>4. ICall'
  BY DEF OweReceipt, NextItem, OnlyDb, ICall, Call, Idle, Points, Handling, Reqs, IItems, IWire
<1> QED BY <1>1, <1>2, <1>3, <1>4

LEMMA RouteAttachmentTyped == ASSUME Typed, RouteAttachment PROVE Typed'
<1> USE InboundAssumption DEF Typed
<1>1. IWire'
  BY DEF RouteAttachment, Routing, Goto, OnlyDb, IWire, Reqs, ICall, Call, Idle
<1>2. IItems'
  BY DEF RouteAttachment, Routing, Goto, OnlyDb, IItems
<1>3. IDb'
  BY DEF RouteAttachment, Routing, Goto, OnlyDb, IDb
<1>4. ICall'
  <2>1. PICK pc \in {"mark", "row"} : at' = [at EXCEPT !.pc = pc]
    BY DEF RouteAttachment, Goto
  <2> QED BY <2>1 DEF RouteAttachment, Routing, OnlyDb, ICall, Call, Points, Handling
<1> QED BY <1>1, <1>2, <1>3, <1>4

LEMMA SaveAttachmentRowTyped == ASSUME Typed, SaveAttachmentRow PROVE Typed'
<1> USE InboundAssumption DEF Typed
<1>1. IWire'
  BY DEF SaveAttachmentRow, OnlyDb, IWire, Reqs, ICall, Call, Idle
<1>2. IItems'
  BY DEF SaveAttachmentRow, OnlyDb, IItems
<1>3. IDb'
  <2>1. at.work # {}
    BY DEF SaveAttachmentRow, ICall, Handling
  <2> QED BY <2>1, CurrentItem, AddRowAdds DEF SaveAttachmentRow
<1>4. ICall'
  BY DEF SaveAttachmentRow, OnlyDb, ICall, Call, Idle, Points, Handling, Reqs, IItems, IWire
<1> QED BY <1>1, <1>2, <1>3, <1>4

LEMMA RouteTagTyped == ASSUME Typed, RouteTag PROVE Typed'
<1> USE InboundAssumption DEF Typed
<1>1. IWire'
  BY DEF RouteTag, Routing, Goto, OnlyDb, IWire, Reqs, ICall, Call, Idle
<1>2. IItems'
  BY DEF RouteTag, Routing, Goto, OnlyDb, IItems
<1>3. IDb'
  <2>1. CASE UNCHANGED db
    BY <2>1 DEF IDb
  <2>2. CASE db' = Wait(Msg)
    BY <2>2, SameRows DEF Wait, IDb
  <2>3. CASE db' = [db EXCEPT !.tags = Tagged(@, Msg)]
    BY <2>3, SameRows DEF IDb
  <2> QED BY <2>1, <2>2, <2>3 DEF RouteTag
<1>4. ICall'
  BY DEF RouteTag, Routing, Goto, OnlyDb, ICall, Call, Idle, Points, Handling, Reqs, IItems, IWire
<1> QED BY <1>1, <1>2, <1>3, <1>4

LEMMA RouteReceiptTyped == ASSUME Typed, RouteReceipt PROVE Typed'
<1> USE InboundAssumption DEF Typed
<1>1. IWire'
  BY DEF RouteReceipt, Routing, Goto, OnlyDb, IWire, Reqs, ICall, Call, Idle
<1>2. IItems'
  BY DEF RouteReceipt, Routing, Goto, OnlyDb, IItems
<1>3. IDb'
  <2>1. CASE UNCHANGED db
    BY <2>1 DEF IDb
  <2>2. ASSUME HasRow(Msg.on), NEW next \in {"delivered", "read"}, db' = Upgraded(Msg.on, next)
        PROVE  IDb'
    BY <2>2, UpgradedKeeps DEF HasRow
  <2> QED BY <2>1, <2>2 DEF RouteReceipt
<1>4. ICall'
  BY DEF RouteReceipt, Routing, Goto, OnlyDb, ICall, Call, Idle, Points, Handling, Reqs, IItems, IWire
<1> QED BY <1>1, <1>2, <1>3, <1>4

LEMMA RouteDeleteEarlyTyped == ASSUME Typed, RouteDeleteEarly PROVE Typed'
<1> USE InboundAssumption DEF Typed
<1>1. IWire'
  BY DEF RouteDeleteEarly, Routing, Goto, IWire, Reqs, ICall, Call, Idle
<1>2. IItems'
  BY DEF RouteDeleteEarly, Routing, Goto, IItems
<1>3. IDb'
  BY DEF RouteDeleteEarly, Routing, Goto, IDb
<1>4. ICall'
  <2>1. CASE at' = [at EXCEPT !.work = @ \ {Current}, !.waits = TRUE]
    BY <2>1 DEF RouteDeleteEarly, Routing, ICall, Call, Points, Handling
  <2>2. CASE Goto("mark")
    BY <2>2 DEF RouteDeleteEarly, Routing, Goto, ICall, Call, Points, Handling
  <2> QED BY <2>1, <2>2 DEF RouteDeleteEarly
<1> QED BY <1>1, <1>2, <1>3, <1>4

LEMMA RouteDeleteTyped == ASSUME Typed, RouteDelete PROVE Typed'
<1> USE InboundAssumption DEF Typed
<1>1. IWire'
  BY DEF RouteDelete, Routing, Goto, IWire, Reqs, ICall, Call, Idle
<1>2. IItems'
  <2>1. CASE UNCHANGED items
    BY <2>1 DEF RouteDelete, IItems
  <2>2. CASE items' = Redacted(Msg.on)
    BY <2>2, RedactedKeeps DEF RouteDelete, IItems, SameStream
  <2> QED BY <2>1, <2>2 DEF RouteDelete
<1>3. IDb'
  <2>1. CASE UNCHANGED db
    BY <2>1 DEF IDb
  <2>2. CASE db' = Tombstoned(Msg.on)
    BY <2>2, TombstonedMarks DEF RouteDelete, HasRow
  <2> QED BY <2>1, <2>2 DEF RouteDelete
<1>4. ICall'
  <2>1. DOMAIN items' = DOMAIN items
    BY RedactedKeeps DEF RouteDelete, SameStream
  <2>2. CASE at' = [at EXCEPT !.pc = "wipe", !.applied = TRUE]
    BY <2>1, <2>2 DEF RouteDelete, Routing, ICall, Call, Points, Handling
  <2>3. CASE Goto("mark")
    BY <2>1, <2>3 DEF RouteDelete, Routing, Goto, ICall, Call, Points, Handling
  <2> QED BY <2>2, <2>3 DEF RouteDelete
<1> QED BY <1>1, <1>2, <1>3, <1>4

LEMMA WipeKeyTyped == ASSUME Typed, WipeKey PROVE Typed'
<1> USE InboundAssumption DEF Typed
<1>1. IWire'
  BY DEF WipeKey, Goto, OnlyDb, IWire, Reqs, ICall, Call, Idle
<1>2. IItems'
  BY DEF WipeKey, Goto, OnlyDb, IItems
<1>3. IDb'
  BY DEF WipeKey, Goto, OnlyDb, IDb
<1>4. ICall'
  BY DEF WipeKey, Goto, OnlyDb, ICall, Call, Idle, Points, Handling, Reqs, IItems, IWire
<1> QED BY <1>1, <1>2, <1>3, <1>4

LEMMA MarkTyped == ASSUME Typed, Mark PROVE Typed'
<1> USE InboundAssumption DEF Typed
<1>1. IWire'
  BY DEF Mark, NextItem, OnlyItems, IWire, Reqs, ICall, Call, Idle
<1>2. IItems'
  BY ProcessedKeeps DEF Mark, OnlyItems, IItems, SameStream
<1>3. IDb'
  BY DEF Mark, NextItem, OnlyItems, IDb
<1>4. ICall'
  <2>1. DOMAIN items' = DOMAIN items
    BY ProcessedKeeps DEF Mark, SameStream
  <2> QED BY <2>1 DEF Mark, NextItem, OnlyItems, ICall, Call, Points, Handling
<1> QED BY <1>1, <1>2, <1>3, <1>4

LEMMA RouteEndTyped == ASSUME Typed, RouteEnd PROVE Typed'
<1> USE InboundAssumption DEF Typed
<1>1. IWire'
  BY DEF RouteEnd, Route, Unprocessed, Return, Goto, IWire, Reqs, ICall, Call, Idle
<1>2. IItems'
  BY DEF RouteEnd, Route, Unprocessed, Return, Goto, IItems
<1>3. IDb'
  BY DEF RouteEnd, Route, Unprocessed, Return, Goto, IDb
<1>4. ICall'
  <2>1. Unprocessed(items) \in SUBSET Nat /\ Unprocessed(items) \subseteq DOMAIN items
    BY UnprocessedItems DEF IItems
  <2>2. items' = items /\ wire' = wire /\ at.fetched \in Nat
    BY DEF RouteEnd, ICall, Call
  <2>3. CASE at' = Idle
    BY <2>2, <2>3 DEF ICall, Call, Idle, Points, Handling, Reqs
  <2>4. CASE Route(items, at.next)
    BY <2>1, <2>2, <2>4 DEF RouteEnd, Route, ICall, Call, Points, Handling
  <2>5. CASE Goto(at.next) /\ at.next # "return"
    BY <2>2, <2>5 DEF RouteEnd, Goto, ICall, Call, Points, Handling
  <2> QED BY <2>3, <2>4, <2>5 DEF RouteEnd, Return
<1> QED BY <1>1, <1>2, <1>3, <1>4

LEMMA DeclineStartTyped == ASSUME Typed, DeclineStart PROVE Typed'
<1> USE InboundAssumption DEF Typed
<1>1. IWire'
  BY DEF DeclineStart, Goto, IWire, Reqs, ICall, Call, Idle
<1>2. IItems'
  BY DEF DeclineStart, Goto, IItems
<1>3. IDb'
  BY DEF DeclineStart, Goto, IDb
<1>4. ICall'
  BY DEF DeclineStart, Goto, ICall, Call, Idle, Points, Handling, Reqs, IItems, IWire
<1> QED BY <1>1, <1>2, <1>3, <1>4

LEMMA DropItemsTyped == ASSUME Typed, DropItems PROVE Typed'
<1> USE InboundAssumption DEF Typed
<1>1. IWire'
  BY DEF DropItems, Goto, IWire, Reqs, ICall, Call, Idle
<1>2. IItems'
  BY DEF DropItems, Goto, IItems
<1>3. IDb'
  BY DEF DropItems, Goto, IDb
<1>4. ICall'
  <2>1. items' = <<>> /\ at' = [at EXCEPT !.pc = "clear"]
    BY DEF DropItems, Goto
  <2> QED BY <2>1 DEF DropItems, ICall, Call, Points, Handling
<1> QED BY <1>1, <1>2, <1>3, <1>4

LEMMA DropMessagesTyped == ASSUME Typed, DropMessages PROVE Typed'
<1> USE InboundAssumption DEF Typed
<1>1. IWire'
  BY DEF DropMessages, Goto, IWire, Reqs, ICall, Call, Idle
<1>2. IItems'
  BY DEF DropMessages, Goto, IItems
<1>3. IDb'
  BY DEF DropMessages, Goto, IDb
<1>4. ICall'
  BY DEF DropMessages, Goto, ICall, Call, Idle, Points, Handling, Reqs, IItems, IWire
<1> QED BY <1>1, <1>2, <1>3, <1>4

LEMMA DeclinedTyped == ASSUME Typed, Declined PROVE Typed'
<1> USE InboundAssumption DEF Typed
<1>1. IWire'
  BY DEF Declined, Return, IWire, Reqs, ICall, Call, Idle
<1>2. IItems'
  BY DEF Declined, Return, IItems
<1>3. IDb'
  BY DEF Declined, Return, IDb
<1>4. ICall'
  BY DEF Declined, Return, ICall, Call, Idle, Points, Handling, Reqs, IItems, IWire
<1> QED BY <1>1, <1>2, <1>3, <1>4

LEMMA AcceptRequestTyped == ASSUME Typed, AcceptRequest PROVE Typed'
<1> USE InboundAssumption DEF Typed
<1>1. IWire'
  BY DEF AcceptRequest, Entered, IWire, Reqs, ICall, Call, Idle
<1>2. IItems'
  BY DEF AcceptRequest, Entered, IItems
<1>3. IDb'
  BY DEF AcceptRequest, Entered, IDb
<1>4. ICall'
  BY DEF AcceptRequest, Entered, ICall, Call, Idle, Points, Handling, Reqs, IItems, IWire
<1> QED BY <1>1, <1>2, <1>3, <1>4

LEMMA SendDmTyped == ASSUME Typed, NEW id \in Mine, SendDm(id) PROVE Typed'
<1> USE InboundAssumption DEF Typed
<1>1. IWire'
  BY DEF SendDm, IWire, Reqs, ICall, Call, Idle
<1>2. IItems'
  BY DEF SendDm, IItems
<1>3. IDb'
  BY AddRowAdds DEF SendDm
<1>4. ICall'
  BY DEF SendDm, ICall, Call, Idle, Points, Handling, Reqs, IItems, IWire
<1> QED BY <1>1, <1>2, <1>3, <1>4

LEMMA UnsendDmTyped == ASSUME Typed, NEW id \in Mine, UnsendDm(id) PROVE Typed'
<1> USE InboundAssumption DEF Typed
<1>1. IWire'
  BY DEF UnsendDm, IWire, Reqs, ICall, Call, Idle
<1>2. IItems'
  BY DEF UnsendDm, IItems
<1>3. IDb'
  BY TombstonedMarks DEF UnsendDm, HasRow
<1>4. ICall'
  BY DEF UnsendDm, ICall, Call, Idle, Points, Handling, Reqs, IItems, IWire
<1> QED BY <1>1, <1>2, <1>3, <1>4

LEMMA CleanupTyped == ASSUME Typed, NEW id, Cleanup(id) PROVE Typed'
<1> USE InboundAssumption DEF Typed
<1>1. IWire'
  BY DEF Cleanup, IWire, Reqs, ICall, Call, Idle
<1>2. IItems'
  BY DEF Cleanup, IItems
<1>3. IDb'
  BY DEF Cleanup, IDb
<1>4. ICall'
  BY DEF Cleanup, ICall, Call, Idle, Points, Handling, Reqs, IItems, IWire
<1> QED BY <1>1, <1>2, <1>3, <1>4

LEMMA HandlerFailsTyped == ASSUME Typed, HandlerFails PROVE Typed'
<1> USE InboundAssumption DEF Typed
<1>1. IWire'
  BY DEF HandlerFails, Routing, NextItem, IWire, Reqs, ICall, Call, Idle
<1>2. IItems'
  BY ProcessedKeeps DEF HandlerFails, IItems, SameStream
<1>3. IDb'
  BY DEF HandlerFails, Routing, NextItem, IDb
<1>4. ICall'
  <2>1. DOMAIN items' = DOMAIN items
    BY ProcessedKeeps DEF HandlerFails, SameStream
  <2> QED BY <2>1 DEF HandlerFails, Routing, NextItem, ICall, Call, Points, Handling
<1> QED BY <1>1, <1>2, <1>3, <1>4

LEMMA ReloadTyped == ASSUME Typed, Reload PROVE Typed'
<1> USE InboundAssumption DEF Typed
<1>0. used' \in [reload : Nat, error : Nat, declined : BOOLEAN, torn : BOOLEAN]
  <2> DEFINE t == used.torn \/ Ungated
  <2>1. used' = [used EXCEPT !.reload = @ + 1, !.torn = t]
    BY DEF Reload
  <2>3. t \in BOOLEAN
    OBVIOUS
  <2> HIDE DEF t
  <2>2. used \in [reload : Nat, error : Nat, declined : BOOLEAN, torn : BOOLEAN]
    BY DEF IWire
  <2>4. PICK n \in Nat : n = used.reload + 1
    BY <2>2
  <2>5. [used EXCEPT !.reload = n, !.torn = t] \in
           [reload : Nat, error : Nat, declined : BOOLEAN, torn : BOOLEAN]
    BY <2>2, <2>3, Zenon
  <2>6. used' = [used EXCEPT !.reload = n, !.torn = t]
    BY <2>1, <2>4
  <2> QED BY <2>5, <2>6, Zenon
<1>1. IWire'
  <2>1. /\ script' = script /\ link' = link /\ req' = req
        /\ wire' = [wire EXCEPT !.got = wire.saved]
    BY DEF Reload
  <2>2. wire' \in [got : Nat, saved : Nat] /\ wire'.saved = wire.saved /\ wire'.got = wire.saved
    BY <2>1 DEF IWire
  <2>3. wire.saved <= Len(script)
    BY DEF IWire
  <2> QED BY <1>0, <2>1, <2>2, <2>3 DEF IWire
<1>2. IItems'
  BY DEF Reload, Return, IItems
<1>3. IDb'
  BY DEF Reload, Return, IDb
<1>4. ICall'
  BY DEF Reload, Return, ICall, Call, Idle, Points, Handling, Reqs, IItems, IWire
<1> QED BY <1>1, <1>2, <1>3, <1>4

LEMMA TypeStep == Typed /\ [Next]_inVars => Typed'
<1> SUFFICES ASSUME Typed, [Next]_inVars PROVE Typed'
  OBVIOUS
<1>1. CASE UNCHANGED inVars
  BY <1>1 DEF inVars, Typed, IWire, IItems, IDb, ICall
<1>2. CASE SyncStart \/ Sync \/ Decline \/ User
  BY <1>2, SyncStartTyped, EnsureWaitsTyped, EnsureReadyTyped, GateTyped, ReceiveTyped, StoreTyped,
     SnapshotTyped, DeclineStartTyped, DropItemsTyped, DropMessagesTyped, DeclinedTyped,
     AcceptRequestTyped, SendDmTyped, UnsendDmTyped DEF Sync, Decline, User
<1>3. CASE Handle
  BY <1>3, RouteUnknownTyped, RouteQuietTyped, RouteTextTyped, MarkTextTyped, ReplayTagsTyped,
     OweReceiptTyped, RouteAttachmentTyped, SaveAttachmentRowTyped, RouteTagTyped, RouteReceiptTyped,
     RouteDeleteEarlyTyped, RouteDeleteTyped, WipeKeyTyped, MarkTyped, RouteEndTyped DEF Handle
<1>4. CASE (\E id \in Ids : Cleanup(id)) \/ HandlerFails \/ Reload
  BY <1>4, CleanupTyped, HandlerFailsTyped, ReloadTyped
<1> QED BY <1>1, <1>2, <1>3, <1>4 DEF Next

(* The rows, the stream, the work of the routing loop and the call under the   *)
(* queue of the peer are well typed, for any scripts, batches and reloads.     *)
THEOREM InboundTyped == InSpec => []Typed
<1> QED BY InitTyped, TypeStep, PTL DEF InSpec

-------------------------------------------------------------------------------
(* A step of the routing                                                     *)

(* It leaves the ratchet, the request and the stream alone, and brings no    *)
(* row of the user's and no key.                                             *)
Routes ==
    /\ SameStream /\ UNCHANGED <<script, link, req, wire>>
    /\ at.pc \in Handling \cup {"route"}
    /\ \/ at'.pc \in Handling \cup {"route"} /\ at'.next = at.next
       \/ at'.pc = "idle"
       \/ at'.pc \in {"receive", "snap"} /\ at'.pc = at.next /\ at'.next = at.next
    /\ db'.keys \subseteq db.keys /\ db.files \subseteq db'.files
    /\ db'.rows # db.rows \/ db'.files # db.files \/ db'.tags # db.tags => at.work # {}
    /\ DOMAIN db.rows \subseteq DOMAIN db'.rows
    /\ DOMAIN db'.rows \cap Mine = DOMAIN db.rows \cap Mine
    /\ used'.reload = used.reload /\ used'.declined = used.declined /\ used'.torn = used.torn

LEMMA RouteUnknownRoutes == ASSUME Typed, RouteUnknown PROVE Routes
<1>1. SameStream
  BY DEF RouteUnknown, Routing, NextItem, SameStream, Typed, IItems
<1>2. UNCHANGED <<script, link, req, wire>> /\ at.pc \in Handling \cup {"route"}
  BY DEF RouteUnknown, Routing, NextItem, Handling
<1>3. \/ at'.pc \in Handling \cup {"route"} /\ at'.next = at.next
      \/ at'.pc = "idle"
      \/ at'.pc \in {"receive", "snap"} /\ at'.pc = at.next /\ at'.next = at.next
  BY DEF RouteUnknown, Routing, NextItem, Handling, Typed, ICall, Call
<1>4. /\ db'.keys \subseteq db.keys /\ db.files \subseteq db'.files
      /\ DOMAIN db.rows \subseteq DOMAIN db'.rows
      /\ DOMAIN db'.rows \cap Mine = DOMAIN db.rows \cap Mine
  BY DEF RouteUnknown, Routing, NextItem, Typed, IDb
<1>5. db'.rows # db.rows \/ db'.files # db.files \/ db'.tags # db.tags => at.work # {}
  BY DEF RouteUnknown, Routing, NextItem, Typed, ICall, Handling
<1>6. used'.reload = used.reload /\ used'.declined = used.declined /\ used'.torn = used.torn
  BY DEF RouteUnknown, Routing, NextItem, Typed, IWire
<1> QED BY <1>1, <1>2, <1>3, <1>4, <1>5, <1>6 DEF Routes

LEMMA RouteQuietRoutes == ASSUME Typed, RouteQuiet PROVE Routes
<1>1. SameStream
  BY DEF RouteQuiet, Routing, Goto, OnlyItems, SameStream, Typed, IItems
<1>2. UNCHANGED <<script, link, req, wire>> /\ at.pc \in Handling \cup {"route"}
  BY DEF RouteQuiet, Routing, Goto, OnlyItems, Handling
<1>3. \/ at'.pc \in Handling \cup {"route"} /\ at'.next = at.next
      \/ at'.pc = "idle"
      \/ at'.pc \in {"receive", "snap"} /\ at'.pc = at.next /\ at'.next = at.next
  BY DEF RouteQuiet, Routing, Goto, OnlyItems, Handling, Typed, ICall, Call
<1>4. /\ db'.keys \subseteq db.keys /\ db.files \subseteq db'.files
      /\ DOMAIN db.rows \subseteq DOMAIN db'.rows
      /\ DOMAIN db'.rows \cap Mine = DOMAIN db.rows \cap Mine
  BY DEF RouteQuiet, Routing, Goto, OnlyItems, Typed, IDb
<1>5. db'.rows # db.rows \/ db'.files # db.files \/ db'.tags # db.tags => at.work # {}
  BY DEF RouteQuiet, Routing, Goto, OnlyItems, Typed, ICall, Handling
<1>6. used'.reload = used.reload /\ used'.declined = used.declined /\ used'.torn = used.torn
  BY DEF RouteQuiet, Routing, Goto, OnlyItems, Typed, IWire
<1> QED BY <1>1, <1>2, <1>3, <1>4, <1>5, <1>6 DEF Routes

LEMMA RouteTextRoutes == ASSUME Typed, RouteText PROVE Routes
<1>1. SameStream
  BY DEF RouteText, Routing, Goto, OnlyDb, SameStream, Typed, IItems
<1>2. UNCHANGED <<script, link, req, wire>> /\ at.pc \in Handling \cup {"route"}
  BY DEF RouteText, Routing, Goto, OnlyDb, Handling
<1>3. \/ at'.pc \in Handling \cup {"route"} /\ at'.next = at.next
      \/ at'.pc = "idle"
      \/ at'.pc \in {"receive", "snap"} /\ at'.pc = at.next /\ at'.next = at.next
  BY DEF RouteText, Routing, Goto, OnlyDb, Handling, Typed, ICall, Call
<1>4. /\ db'.keys \subseteq db.keys /\ db.files \subseteq db'.files
      /\ DOMAIN db.rows \subseteq DOMAIN db'.rows
      /\ DOMAIN db'.rows \cap Mine = DOMAIN db.rows \cap Mine
  <2>1. CASE UNCHANGED db
    BY <2>1
  <2>2. CASE db' = AddRow(Msg.id, "text", "peer")
    BY <2>2, CurrentItem, AddRowAdds DEF RouteText, Routing, Typed
  <2> QED BY <2>1, <2>2 DEF RouteText
<1>5. db'.rows # db.rows \/ db'.files # db.files \/ db'.tags # db.tags => at.work # {}
  BY DEF RouteText, Routing, Goto, OnlyDb, Typed, ICall, Handling
<1>6. used'.reload = used.reload /\ used'.declined = used.declined /\ used'.torn = used.torn
  BY DEF RouteText, Routing, Goto, OnlyDb, Typed, IWire
<1> QED BY <1>1, <1>2, <1>3, <1>4, <1>5, <1>6 DEF Routes

LEMMA MarkTextRoutes == ASSUME Typed, MarkText PROVE Routes
<1>1. SameStream
  BY ProcessedKeeps DEF MarkText
<1>2. UNCHANGED <<script, link, req, wire>> /\ at.pc \in Handling \cup {"route"}
  BY DEF MarkText, OnlyItems, Handling
<1>3. \/ at'.pc \in Handling \cup {"route"} /\ at'.next = at.next
      \/ at'.pc = "idle"
      \/ at'.pc \in {"receive", "snap"} /\ at'.pc = at.next /\ at'.next = at.next
  BY DEF MarkText, OnlyItems, Handling, Typed, ICall, Call
<1>4. /\ db'.keys \subseteq db.keys /\ db.files \subseteq db'.files
      /\ DOMAIN db.rows \subseteq DOMAIN db'.rows
      /\ DOMAIN db'.rows \cap Mine = DOMAIN db.rows \cap Mine
  BY DEF MarkText, OnlyItems, Typed, IDb
<1>5. db'.rows # db.rows \/ db'.files # db.files \/ db'.tags # db.tags => at.work # {}
  BY DEF MarkText, OnlyItems, Typed, ICall, Handling
<1>6. used'.reload = used.reload /\ used'.declined = used.declined /\ used'.torn = used.torn
  BY DEF MarkText, OnlyItems, Typed, IWire
<1> QED BY <1>1, <1>2, <1>3, <1>4, <1>5, <1>6 DEF Routes

LEMMA ReplayTagsRoutes == ASSUME Typed, ReplayTags PROVE Routes
<1>1. SameStream
  BY DEF ReplayTags, Goto, OnlyDb, SameStream, Typed, IItems
<1>2. UNCHANGED <<script, link, req, wire>> /\ at.pc \in Handling \cup {"route"}
  BY DEF ReplayTags, Goto, OnlyDb, Handling
<1>3. \/ at'.pc \in Handling \cup {"route"} /\ at'.next = at.next
      \/ at'.pc = "idle"
      \/ at'.pc \in {"receive", "snap"} /\ at'.pc = at.next /\ at'.next = at.next
  BY DEF ReplayTags, Goto, OnlyDb, Handling, Typed, ICall, Call
<1>4. /\ db'.keys \subseteq db.keys /\ db.files \subseteq db'.files
      /\ DOMAIN db.rows \subseteq DOMAIN db'.rows
      /\ DOMAIN db'.rows \cap Mine = DOMAIN db.rows \cap Mine
  BY SameRows DEF ReplayTags, Replayed, Typed, IDb
<1>5. db'.rows # db.rows \/ db'.files # db.files \/ db'.tags # db.tags => at.work # {}
  BY DEF ReplayTags, Goto, OnlyDb, Typed, ICall, Handling
<1>6. used'.reload = used.reload /\ used'.declined = used.declined /\ used'.torn = used.torn
  BY DEF ReplayTags, Goto, OnlyDb, Typed, IWire
<1> QED BY <1>1, <1>2, <1>3, <1>4, <1>5, <1>6 DEF Routes

LEMMA OweReceiptRoutes == ASSUME Typed, OweReceipt PROVE Routes
<1>1. SameStream
  BY DEF OweReceipt, NextItem, OnlyDb, SameStream, Typed, IItems
<1>2. UNCHANGED <<script, link, req, wire>> /\ at.pc \in Handling \cup {"route"}
  BY DEF OweReceipt, NextItem, OnlyDb, Handling
<1>3. \/ at'.pc \in Handling \cup {"route"} /\ at'.next = at.next
      \/ at'.pc = "idle"
      \/ at'.pc \in {"receive", "snap"} /\ at'.pc = at.next /\ at'.next = at.next
  BY DEF OweReceipt, NextItem, OnlyDb, Handling, Typed, ICall, Call
<1>4. /\ db'.keys \subseteq db.keys /\ db.files \subseteq db'.files
      /\ DOMAIN db.rows \subseteq DOMAIN db'.rows
      /\ DOMAIN db'.rows \cap Mine = DOMAIN db.rows \cap Mine
  BY DEF OweReceipt, NextItem, OnlyDb, Typed, IDb
<1>5. db'.rows # db.rows \/ db'.files # db.files \/ db'.tags # db.tags => at.work # {}
  BY DEF OweReceipt, NextItem, OnlyDb, Typed, ICall, Handling
<1>6. used'.reload = used.reload /\ used'.declined = used.declined /\ used'.torn = used.torn
  BY DEF OweReceipt, NextItem, OnlyDb, Typed, IWire
<1> QED BY <1>1, <1>2, <1>3, <1>4, <1>5, <1>6 DEF Routes

LEMMA RouteAttachmentRoutes == ASSUME Typed, RouteAttachment PROVE Routes
<1>1. SameStream
  BY DEF RouteAttachment, Routing, Goto, OnlyDb, SameStream, Typed, IItems
<1>2. UNCHANGED <<script, link, req, wire>> /\ at.pc \in Handling \cup {"route"}
  BY DEF RouteAttachment, Routing, Goto, OnlyDb, Handling
<1>3. \/ at'.pc \in Handling \cup {"route"} /\ at'.next = at.next
      \/ at'.pc = "idle"
      \/ at'.pc \in {"receive", "snap"} /\ at'.pc = at.next /\ at'.next = at.next
  BY DEF RouteAttachment, Routing, Goto, OnlyDb, Handling, Typed, ICall, Call
<1>4. /\ db'.keys \subseteq db.keys /\ db.files \subseteq db'.files
      /\ DOMAIN db.rows \subseteq DOMAIN db'.rows
      /\ DOMAIN db'.rows \cap Mine = DOMAIN db.rows \cap Mine
  BY DEF RouteAttachment, Routing, Goto, OnlyDb, Typed, IDb
<1>5. db'.rows # db.rows \/ db'.files # db.files \/ db'.tags # db.tags => at.work # {}
  BY DEF RouteAttachment, Routing, Goto, OnlyDb, Typed, ICall, Handling
<1>6. used'.reload = used.reload /\ used'.declined = used.declined /\ used'.torn = used.torn
  BY DEF RouteAttachment, Routing, Goto, OnlyDb, Typed, IWire
<1> QED BY <1>1, <1>2, <1>3, <1>4, <1>5, <1>6 DEF Routes

LEMMA SaveAttachmentRowRoutes == ASSUME Typed, SaveAttachmentRow PROVE Routes
<1>1. SameStream
  BY DEF SaveAttachmentRow, OnlyDb, SameStream, Typed, IItems
<1>2. UNCHANGED <<script, link, req, wire>> /\ at.pc \in Handling \cup {"route"}
  BY DEF SaveAttachmentRow, OnlyDb, Handling
<1>3. \/ at'.pc \in Handling \cup {"route"} /\ at'.next = at.next
      \/ at'.pc = "idle"
      \/ at'.pc \in {"receive", "snap"} /\ at'.pc = at.next /\ at'.next = at.next
  BY DEF SaveAttachmentRow, OnlyDb, Handling, Typed, ICall, Call
<1>4. /\ db'.keys \subseteq db.keys /\ db.files \subseteq db'.files
      /\ DOMAIN db.rows \subseteq DOMAIN db'.rows
      /\ DOMAIN db'.rows \cap Mine = DOMAIN db.rows \cap Mine
  <2>1. at.work # {}
    BY DEF SaveAttachmentRow, Typed, ICall, Handling
  <2> QED BY <2>1, CurrentItem, AddRowAdds DEF SaveAttachmentRow, Typed
<1>5. db'.rows # db.rows \/ db'.files # db.files \/ db'.tags # db.tags => at.work # {}
  BY DEF SaveAttachmentRow, OnlyDb, Typed, ICall, Handling
<1>6. used'.reload = used.reload /\ used'.declined = used.declined /\ used'.torn = used.torn
  BY DEF SaveAttachmentRow, OnlyDb, Typed, IWire
<1> QED BY <1>1, <1>2, <1>3, <1>4, <1>5, <1>6 DEF Routes

LEMMA RouteTagRoutes == ASSUME Typed, RouteTag PROVE Routes
<1>1. SameStream
  BY DEF RouteTag, Routing, Goto, OnlyDb, SameStream, Typed, IItems
<1>2. UNCHANGED <<script, link, req, wire>> /\ at.pc \in Handling \cup {"route"}
  BY DEF RouteTag, Routing, Goto, OnlyDb, Handling
<1>3. \/ at'.pc \in Handling \cup {"route"} /\ at'.next = at.next
      \/ at'.pc = "idle"
      \/ at'.pc \in {"receive", "snap"} /\ at'.pc = at.next /\ at'.next = at.next
  BY DEF RouteTag, Routing, Goto, OnlyDb, Handling, Typed, ICall, Call
<1>4. /\ db'.keys \subseteq db.keys /\ db.files \subseteq db'.files
      /\ DOMAIN db.rows \subseteq DOMAIN db'.rows
      /\ DOMAIN db'.rows \cap Mine = DOMAIN db.rows \cap Mine
  <2>1. CASE UNCHANGED db
    BY <2>1
  <2>2. CASE db' = Wait(Msg)
    BY <2>2, SameRows DEF Wait, Typed, IDb
  <2>3. CASE db' = [db EXCEPT !.tags = Tagged(@, Msg)]
    BY <2>3, SameRows DEF Typed, IDb
  <2> QED BY <2>1, <2>2, <2>3 DEF RouteTag
<1>5. db'.rows # db.rows \/ db'.files # db.files \/ db'.tags # db.tags => at.work # {}
  BY DEF RouteTag, Routing, Goto, OnlyDb, Typed, ICall, Handling
<1>6. used'.reload = used.reload /\ used'.declined = used.declined /\ used'.torn = used.torn
  BY DEF RouteTag, Routing, Goto, OnlyDb, Typed, IWire
<1> QED BY <1>1, <1>2, <1>3, <1>4, <1>5, <1>6 DEF Routes

LEMMA RouteReceiptRoutes == ASSUME Typed, RouteReceipt PROVE Routes
<1>1. SameStream
  BY DEF RouteReceipt, Routing, Goto, OnlyDb, SameStream, Typed, IItems
<1>2. UNCHANGED <<script, link, req, wire>> /\ at.pc \in Handling \cup {"route"}
  BY DEF RouteReceipt, Routing, Goto, OnlyDb, Handling
<1>3. \/ at'.pc \in Handling \cup {"route"} /\ at'.next = at.next
      \/ at'.pc = "idle"
      \/ at'.pc \in {"receive", "snap"} /\ at'.pc = at.next /\ at'.next = at.next
  BY DEF RouteReceipt, Routing, Goto, OnlyDb, Handling, Typed, ICall, Call
<1>4. /\ db'.keys \subseteq db.keys /\ db.files \subseteq db'.files
      /\ DOMAIN db.rows \subseteq DOMAIN db'.rows
      /\ DOMAIN db'.rows \cap Mine = DOMAIN db.rows \cap Mine
  <2>1. CASE UNCHANGED db
    BY <2>1
  <2>2. ASSUME HasRow(Msg.on), NEW next \in {"delivered", "read"}, db' = Upgraded(Msg.on, next)
        PROVE  /\ db'.keys = db.keys /\ db'.files = db.files /\ DOMAIN db'.rows = DOMAIN db.rows
    BY <2>2, UpgradedKeeps DEF HasRow, Typed
  <2> QED BY <2>1, <2>2 DEF RouteReceipt
<1>5. db'.rows # db.rows \/ db'.files # db.files \/ db'.tags # db.tags => at.work # {}
  BY DEF RouteReceipt, Routing, Goto, OnlyDb, Typed, ICall, Handling
<1>6. used'.reload = used.reload /\ used'.declined = used.declined /\ used'.torn = used.torn
  BY DEF RouteReceipt, Routing, Goto, OnlyDb, Typed, IWire
<1> QED BY <1>1, <1>2, <1>3, <1>4, <1>5, <1>6 DEF Routes

LEMMA RouteDeleteEarlyRoutes == ASSUME Typed, RouteDeleteEarly PROVE Routes
<1>1. SameStream
  BY DEF RouteDeleteEarly, Routing, Goto, SameStream, Typed, IItems
<1>2. UNCHANGED <<script, link, req, wire>> /\ at.pc \in Handling \cup {"route"}
  BY DEF RouteDeleteEarly, Routing, Goto, Handling
<1>3. \/ at'.pc \in Handling \cup {"route"} /\ at'.next = at.next
      \/ at'.pc = "idle"
      \/ at'.pc \in {"receive", "snap"} /\ at'.pc = at.next /\ at'.next = at.next
  BY DEF RouteDeleteEarly, Routing, Goto, Handling, Typed, ICall, Call
<1>4. /\ db'.keys \subseteq db.keys /\ db.files \subseteq db'.files
      /\ DOMAIN db.rows \subseteq DOMAIN db'.rows
      /\ DOMAIN db'.rows \cap Mine = DOMAIN db.rows \cap Mine
  BY DEF RouteDeleteEarly, Routing, Goto, Typed, IDb
<1>5. db'.rows # db.rows \/ db'.files # db.files \/ db'.tags # db.tags => at.work # {}
  BY DEF RouteDeleteEarly, Routing, Goto, Typed, ICall, Handling
<1>6. used'.reload = used.reload /\ used'.declined = used.declined /\ used'.torn = used.torn
  BY DEF RouteDeleteEarly, Routing, Goto, Typed, IWire
<1> QED BY <1>1, <1>2, <1>3, <1>4, <1>5, <1>6 DEF Routes

LEMMA RouteDeleteRoutes == ASSUME Typed, RouteDelete PROVE Routes
<1>1. SameStream
  <2>1. CASE UNCHANGED items
    BY <2>1 DEF SameStream, Typed, IItems
  <2>2. CASE items' = Redacted(Msg.on)
    BY <2>2, RedactedKeeps
  <2> QED BY <2>1, <2>2 DEF RouteDelete
<1>2. UNCHANGED <<script, link, req, wire>> /\ at.pc \in Handling \cup {"route"}
  BY DEF RouteDelete, Routing, Goto, Handling
<1>3. \/ at'.pc \in Handling \cup {"route"} /\ at'.next = at.next
      \/ at'.pc = "idle"
      \/ at'.pc \in {"receive", "snap"} /\ at'.pc = at.next /\ at'.next = at.next
  BY DEF RouteDelete, Routing, Goto, Handling, Typed, ICall, Call
<1>4. /\ db'.keys \subseteq db.keys /\ db.files \subseteq db'.files
      /\ DOMAIN db.rows \subseteq DOMAIN db'.rows
      /\ DOMAIN db'.rows \cap Mine = DOMAIN db.rows \cap Mine
  <2>1. CASE UNCHANGED db
    BY <2>1
  <2>2. CASE db' = Tombstoned(Msg.on)
    BY <2>2, TombstonedMarks DEF RouteDelete, HasRow, Typed
  <2> QED BY <2>1, <2>2 DEF RouteDelete
<1>5. db'.rows # db.rows \/ db'.files # db.files \/ db'.tags # db.tags => at.work # {}
  BY DEF RouteDelete, Routing, Goto, Typed, ICall, Handling
<1>6. used'.reload = used.reload /\ used'.declined = used.declined /\ used'.torn = used.torn
  BY DEF RouteDelete, Routing, Goto, Typed, IWire
<1> QED BY <1>1, <1>2, <1>3, <1>4, <1>5, <1>6 DEF Routes

LEMMA WipeKeyRoutes == ASSUME Typed, WipeKey PROVE Routes
<1>1. SameStream
  BY DEF WipeKey, Goto, OnlyDb, SameStream, Typed, IItems
<1>2. UNCHANGED <<script, link, req, wire>> /\ at.pc \in Handling \cup {"route"}
  BY DEF WipeKey, Goto, OnlyDb, Handling
<1>3. \/ at'.pc \in Handling \cup {"route"} /\ at'.next = at.next
      \/ at'.pc = "idle"
      \/ at'.pc \in {"receive", "snap"} /\ at'.pc = at.next /\ at'.next = at.next
  BY DEF WipeKey, Goto, OnlyDb, Handling, Typed, ICall, Call
<1>4. /\ db'.keys \subseteq db.keys /\ db.files \subseteq db'.files
      /\ DOMAIN db.rows \subseteq DOMAIN db'.rows
      /\ DOMAIN db'.rows \cap Mine = DOMAIN db.rows \cap Mine
  BY DEF WipeKey, Goto, OnlyDb, Typed, IDb
<1>5. db'.rows # db.rows \/ db'.files # db.files \/ db'.tags # db.tags => at.work # {}
  BY DEF WipeKey, Goto, OnlyDb, Typed, ICall, Handling
<1>6. used'.reload = used.reload /\ used'.declined = used.declined /\ used'.torn = used.torn
  BY DEF WipeKey, Goto, OnlyDb, Typed, IWire
<1> QED BY <1>1, <1>2, <1>3, <1>4, <1>5, <1>6 DEF Routes

LEMMA MarkRoutes == ASSUME Typed, Mark PROVE Routes
<1>1. SameStream
  BY ProcessedKeeps DEF Mark
<1>2. UNCHANGED <<script, link, req, wire>> /\ at.pc \in Handling \cup {"route"}
  BY DEF Mark, NextItem, OnlyItems, Handling
<1>3. \/ at'.pc \in Handling \cup {"route"} /\ at'.next = at.next
      \/ at'.pc = "idle"
      \/ at'.pc \in {"receive", "snap"} /\ at'.pc = at.next /\ at'.next = at.next
  BY DEF Mark, NextItem, OnlyItems, Handling, Typed, ICall, Call
<1>4. /\ db'.keys \subseteq db.keys /\ db.files \subseteq db'.files
      /\ DOMAIN db.rows \subseteq DOMAIN db'.rows
      /\ DOMAIN db'.rows \cap Mine = DOMAIN db.rows \cap Mine
  BY DEF Mark, NextItem, OnlyItems, Typed, IDb
<1>5. db'.rows # db.rows \/ db'.files # db.files \/ db'.tags # db.tags => at.work # {}
  BY DEF Mark, NextItem, OnlyItems, Typed, ICall, Handling
<1>6. used'.reload = used.reload /\ used'.declined = used.declined /\ used'.torn = used.torn
  BY DEF Mark, NextItem, OnlyItems, Typed, IWire
<1> QED BY <1>1, <1>2, <1>3, <1>4, <1>5, <1>6 DEF Routes

LEMMA RouteEndRoutes == ASSUME Typed, RouteEnd PROVE Routes
<1>1. SameStream
  BY DEF RouteEnd, Route, Return, Goto, Idle, SameStream, Typed, IItems
<1>2. UNCHANGED <<script, link, req, wire>> /\ at.pc \in Handling \cup {"route"}
  BY DEF RouteEnd, Route, Return, Goto, Idle, Handling
<1>3. \/ at'.pc \in Handling \cup {"route"} /\ at'.next = at.next
      \/ at'.pc = "idle"
      \/ at'.pc \in {"receive", "snap"} /\ at'.pc = at.next /\ at'.next = at.next
  <2>1. at \in Call /\ at.next # "keep"
    BY DEF RouteEnd, Typed, ICall
  <2>2. CASE Route(items, at.next)
    BY <2>1, <2>2 DEF Route, Call
  <2>3. CASE at' = Idle
    BY <2>3 DEF Idle
  <2>4. CASE Goto(at.next) /\ at.next # "return"
    BY <2>1, <2>4 DEF Goto, Call
  <2> QED BY <2>2, <2>3, <2>4 DEF RouteEnd, Return
<1>4. /\ db'.keys \subseteq db.keys /\ db.files \subseteq db'.files
      /\ DOMAIN db.rows \subseteq DOMAIN db'.rows
      /\ DOMAIN db'.rows \cap Mine = DOMAIN db.rows \cap Mine
  BY DEF RouteEnd, Route, Return, Goto, Idle, Typed, IDb
<1>5. db'.rows # db.rows \/ db'.files # db.files \/ db'.tags # db.tags => at.work # {}
  BY DEF RouteEnd, Route, Return, Goto, Idle, Typed, ICall, Handling
<1>6. used'.reload = used.reload /\ used'.declined = used.declined /\ used'.torn = used.torn
  BY DEF RouteEnd, Route, Return, Goto, Idle, Typed, IWire
<1> QED BY <1>1, <1>2, <1>3, <1>4, <1>5, <1>6 DEF Routes

LEMMA HandlerFailsRoutes == ASSUME Typed, HandlerFails PROVE Routes
<1>1. SameStream
  BY ProcessedKeeps DEF HandlerFails
<1>2. UNCHANGED <<script, link, req, wire>> /\ at.pc \in Handling \cup {"route"}
  BY DEF HandlerFails, Routing, NextItem, Handling
<1>3. \/ at'.pc \in Handling \cup {"route"} /\ at'.next = at.next
      \/ at'.pc = "idle"
      \/ at'.pc \in {"receive", "snap"} /\ at'.pc = at.next /\ at'.next = at.next
  BY DEF HandlerFails, Routing, NextItem, Handling, Typed, ICall, Call
<1>4. /\ db'.keys \subseteq db.keys /\ db.files \subseteq db'.files
      /\ DOMAIN db.rows \subseteq DOMAIN db'.rows
      /\ DOMAIN db'.rows \cap Mine = DOMAIN db.rows \cap Mine
  BY DEF HandlerFails, Routing, NextItem, Typed, IDb
<1>5. db'.rows # db.rows \/ db'.files # db.files \/ db'.tags # db.tags => at.work # {}
  BY DEF HandlerFails, Routing, NextItem, Typed, ICall, Handling
<1>6. used'.reload = used.reload /\ used'.declined = used.declined /\ used'.torn = used.torn
  BY DEF HandlerFails, Routing, NextItem, Typed, IWire
<1> QED BY <1>1, <1>2, <1>3, <1>4, <1>5, <1>6 DEF Routes

LEMMA HandlingRoutes == ASSUME Typed, Handle \/ HandlerFails PROVE Routes
BY RouteUnknownRoutes, RouteQuietRoutes, RouteTextRoutes, MarkTextRoutes, ReplayTagsRoutes,
   OweReceiptRoutes, RouteAttachmentRoutes, SaveAttachmentRowRoutes, RouteTagRoutes,
   RouteReceiptRoutes, RouteDeleteEarlyRoutes, RouteDeleteRoutes, WipeKeyRoutes, MarkRoutes,
   RouteEndRoutes, HandlerFailsRoutes DEF Handle

-------------------------------------------------------------------------------
(* Strangers                                                                 *)

Stranger == req = "none" /\ DOMAIN db.rows \cap Mine = {}
Hidden == DOMAIN db.rows \subseteq Mine /\ db.files = {} /\ db.tags = {}

(* Of a peer nobody wrote to there is no link and nothing in the stream      *)
(* until the gate has made a request of it, unless a reload tore the two.    *)
IStranger ==
    Stranger /\ ~used.torn =>
        /\ Hidden /\ items = <<>>
        /\ at.pc \in {"idle", "ensure", "gate", "route"}
        /\ link = "none" \/ (at.pc = "gate" /\ at.out # "idle")
        /\ at.pc \in {"ensure", "gate"} => ~at.prior
        /\ at.pc = "route" => at.next = "return"

(* A request that is open has only held items.                               *)
IPending ==
    req = "pending" =>
        /\ Hidden /\ DOMAIN db.rows = {}
        /\ at.pc \notin Handling \cup {"route"}
        /\ at.pc \in {"receive", "store"} => at.next = "keep"

(* The call under way knows the request, and a decline has dropped what it   *)
(* went past.                                                                *)
IRequest ==
    /\ at.pc \in {"ensure", "gate"} => at.req = req /\ req # "declined"
    /\ at.pc \in {"drop", "clear", "decline"} => req = "pending" /\ used.declined
    /\ at.pc \in {"clear", "decline"} => items = <<>>
    /\ req = "declined" => at.pc = "idle" /\ Hidden /\ items = <<>>

(* Once torn, the peer has a link and never becomes a request.               *)
ITorn ==
    /\ at.pc = "gate" /\ at.out # "idle" => link # "none"
    /\ used.torn => /\ req = "none" /\ link # "none"
                    /\ at.pc \in {"ensure", "gate"} => at.prior

IGate == IStranger /\ IPending /\ IRequest /\ ITorn

LEMMA InitGate == Init => IGate
BY DEF Init, Idle, IGate, IStranger, IPending, IRequest, ITorn, Hidden

(* A step of the routing shows nothing of a stranger, whose stream is empty. *)
LEMMA RoutesGate == ASSUME Typed, Typed', IGate, Routes PROVE IGate'
<1>1. req = "accepted" \/ (req = "none" /\ (Stranger <=> Stranger'))
  BY DEF Routes, IGate, IPending, IRequest, Stranger, Typed, IWire, Reqs, Handling
<1>2. ASSUME Stranger, ~used.torn
      PROVE  /\ items' = <<>> /\ Hidden' /\ link' = "none" /\ at'.pc \in {"idle", "route"}
             /\ at'.pc = "route" => at'.next = "return"
  <2>1. items = <<>> /\ at.pc = "route" /\ at.next = "return" /\ link = "none" /\ Hidden
    BY <1>2 DEF Routes, IGate, IStranger, Handling
  <2>2. at.work = {}
    BY <2>1 DEF Typed, ICall
  <2>3. items' = <<>>
    <3>1. items' \in Seq(ItemRow) /\ DOMAIN items' = {}
      BY <2>1 DEF Routes, SameStream
    <3> QED BY <3>1
  <2>4. at'.pc \notin Handling
    BY <2>3 DEF Typed, ICall
  <2>5. Hidden'
    BY <2>1, <2>2 DEF Routes, Hidden
  <2>6. at'.pc \in {"idle", "route"} /\ (at'.pc = "route" => at'.next = "return")
    BY <2>1, <2>4 DEF Routes
  <2> QED BY <2>1, <2>3, <2>5, <2>6 DEF Routes
<1>3. at'.pc \in Handling \cup {"idle", "route", "receive", "snap"} /\ req' = req
  BY DEF Routes, Typed, ICall
<1>4. IStranger'
  BY <1>1, <1>2, <1>3 DEF IStranger, Stranger, Routes
<1>5. IPending'
  BY <1>1, <1>3 DEF IPending
<1>6. IRequest'
  BY <1>1, <1>3 DEF IRequest, Handling
<1>7. ITorn'
  BY <1>3 DEF IGate, ITorn, Routes, Handling
<1> QED BY <1>4, <1>5, <1>6, <1>7 DEF IGate

LEMMA GateGate == ASSUME Typed, IGate, Gate PROVE IGate'
<1> USE DEF IGate
<1>1. /\ at.pc = "gate" /\ at.req = req /\ req # "declined" /\ at \in Call /\ at.next \in {"return", "receive", "keep", "snap"}
      /\ UNCHANGED <<script, link, wire, items, db, used>>
  BY DEF Gate, IRequest, Typed, ICall, Call
<1>2. CASE NewInbound /\ at.req # "accepted"
  <2>1. req' = "pending" /\ Hold /\ DOMAIN db.rows = {}
    BY <1>1, <1>2 DEF Gate, NewInbound
  <2>0. ~used.torn
    BY <1>1, <1>2 DEF ITorn, NewInbound
  <2>2. Hidden
    BY <1>1, <1>2, <2>0, <2>1 DEF IStranger, IPending, Stranger, Typed, IWire, Reqs
  <2>3. at'.pc \in {"receive", "idle"} /\ at'.next = "keep"
    BY <1>1, <2>1 DEF Hold, Call
  <2> QED BY <1>1, <2>0, <2>1, <2>2, <2>3 DEF IStranger, IPending, IRequest, ITorn, Stranger, Hidden, Handling
<1>3. CASE ~(NewInbound /\ at.req # "accepted") /\ at.req = "pending"
  <2>1. req' = req /\ Hold
    BY <1>1, <1>3 DEF Gate
  <2>2. at'.pc \in {"receive", "idle"} /\ at'.next = "keep"
    BY <1>1, <2>1 DEF Hold, Call
  <2> QED BY <1>1, <1>3, <2>1, <2>2 DEF IStranger, IPending, IRequest, ITorn, Stranger, Hidden, Handling
<1>4. CASE ~(NewInbound /\ at.req # "accepted") /\ at.req # "pending"
  <2>1. req' = req /\ Route(items, IF at.out = "ready" THEN "receive" ELSE "return")
    BY <1>1, <1>4 DEF Gate
  <2>2. at'.pc = "route" /\ at'.next = (IF at.out = "ready" THEN "receive" ELSE "return")
    BY <1>1, <2>1 DEF Route, Call
  <2>3. ASSUME Stranger, ~used.torn
        PROVE  at.out = "idle" /\ link = "none" /\ items = <<>> /\ Hidden
    <3>1. DOMAIN db.rows = {} /\ ~at.prior /\ items = <<>> /\ Hidden
      BY <1>1, <2>3 DEF IStranger, Stranger, Hidden
    <3>2. at.out = "idle"
      BY <1>1, <1>4, <2>3, <3>1 DEF NewInbound, Stranger
    <3> QED BY <1>1, <2>3, <3>1, <3>2 DEF IStranger
  <2> QED BY <1>1, <1>4, <2>1, <2>2, <2>3 DEF IStranger, IPending, IRequest, ITorn, Stranger, Hidden, Handling
<1> QED BY <1>2, <1>3, <1>4

(* A page load may come anywhere; between the link of a stranger and its     *)
(* request it is remembered.                                                 *)
LEMMA GateStep ==
    ASSUME Typed, Typed', IGate, [Next]_inVars
    PROVE  IGate'
<1> USE DEF IGate
<1> DEFINE Same == Stranger' = Stranger /\ Hidden' = Hidden
<1>1. CASE UNCHANGED inVars
  BY <1>1 DEF inVars, IStranger, IPending, IRequest, ITorn, Stranger, Hidden
<1>2. CASE SyncStart
  <2>1. CASE req = "declined"
    BY <1>2, <2>1 DEF SyncStart, IStranger, IPending, IRequest, ITorn, Stranger, Hidden
  <2>2. CASE req # "declined"
    <3>1. at' = Entered(req) /\ at.pc = "idle" /\ UNCHANGED <<link, req, items, db, used>>
      BY <1>2, <2>2 DEF SyncStart
    <3>2. at'.pc = "ensure" /\ at'.req = req /\ at'.prior = (link # "none")
      BY <3>1 DEF Entered, Idle
    <3> QED BY <2>2, <3>1, <3>2 DEF IStranger, IPending, IRequest, ITorn, Stranger, Hidden, Handling
  <2> QED BY <2>1, <2>2
<1>3. CASE EnsureWaits
  <2>1. /\ at.pc = "ensure" /\ UNCHANGED <<req, items, db, used>>
        /\ at'.pc = "gate" /\ at'.prior = at.prior /\ at'.req = at.req
        /\ at'.out = IF link' = "none" THEN "idle" ELSE "handshaking"
        /\ link # "none" => link' = link
    BY <1>3 DEF EnsureWaits, Typed, ICall, Call
  <2> QED BY <2>1 DEF IStranger, IPending, IRequest, ITorn, Stranger, Hidden, Handling
<1>4. CASE EnsureReady
  <2>1. /\ at.pc = "ensure" /\ link # "none" /\ UNCHANGED <<req, items, db, used>>
        /\ at'.pc = "gate" /\ at'.prior = at.prior /\ at'.req = at.req
        /\ link' = "open"
    BY <1>4 DEF EnsureReady, Typed, ICall, Call
  <2> QED BY <2>1 DEF IStranger, IPending, IRequest, ITorn, Stranger, Hidden, Handling
<1>5. CASE Gate
  BY <1>5, GateGate
<1>6. CASE Receive
  <2>1. /\ at.pc = "receive" /\ UNCHANGED <<link, req, items, used>>
        /\ db'.rows = db.rows /\ db'.files = db.files /\ db'.tags = db.tags
        /\ at'.pc = "idle" \/ (at'.pc = "store" /\ at'.next = at.next)
    BY <1>6 DEF Receive, Typed, ICall, Call, IDb, Idle
  <2> QED BY <2>1 DEF IStranger, IPending, IRequest, ITorn, Stranger, Hidden, Handling
<1>7. CASE Store
  <2>1. /\ at.pc = "store" /\ UNCHANGED <<link, req, db, used>>
        /\ at'.pc = "snap" \/ (at'.pc = "route" /\ at.next # "keep")
    BY <1>7 DEF Store, Goto, Route, Typed, ICall, Call
  <2> QED BY <2>1 DEF IStranger, IPending, IRequest, ITorn, Stranger, Hidden, Handling
<1>8. CASE Snapshot
  BY <1>8 DEF Snapshot, Return, Idle, IStranger, IPending, IRequest, ITorn, Stranger, Hidden, Handling
<1>9. CASE Handle \/ HandlerFails
  BY <1>9, HandlingRoutes, RoutesGate
<1>10. CASE DeclineStart
  <2>1. /\ at.pc = "idle" /\ at'.pc = "drop" /\ req = "pending" /\ used'.declined
        /\ used'.torn = used.torn /\ UNCHANGED <<req, items, db>>
    BY <1>10 DEF DeclineStart, Goto, Typed, ICall, Call, IWire
  <2> QED BY <2>1 DEF IStranger, IPending, IRequest, ITorn, Stranger, Hidden, Handling
<1>11. CASE DropItems
  <2>1. /\ at.pc = "drop" /\ at'.pc = "clear" /\ items' = <<>> /\ UNCHANGED <<link, req, used>>
        /\ db'.rows = db.rows /\ db'.files = db.files /\ db'.tags = db.tags
    BY <1>11 DEF DropItems, Goto, Typed, ICall, Call, IDb
  <2> QED BY <2>1 DEF IStranger, IPending, IRequest, ITorn, Stranger, Hidden, Handling
<1>12. CASE DropMessages
  <2>1. /\ at.pc = "clear" /\ at'.pc = "decline" /\ UNCHANGED <<link, req, items, used>>
        /\ DOMAIN db'.rows = {} /\ db'.files = db.files /\ db'.tags = db.tags
    BY <1>12 DEF DropMessages, Goto, Typed, ICall, Call, IDb
  <2> QED BY <2>1 DEF IStranger, IPending, IRequest, ITorn, Stranger, Hidden, Handling
<1>13. CASE Declined
  BY <1>13 DEF Declined, Return, Idle, IStranger, IPending, IRequest, ITorn, Stranger, Hidden, Handling
<1>14. CASE AcceptRequest
  <2>1. req = "pending" /\ req' = "accepted" /\ at'.pc = "ensure" /\ at'.req = "accepted" /\ used' = used
    BY <1>14 DEF AcceptRequest, Entered, Idle
  <2> QED BY <2>1 DEF IStranger, IPending, IRequest, ITorn, Stranger
<1>15. ASSUME NEW id \in Mine, SendDm(id) PROVE IGate'
  <2>1. /\ at.pc = "idle" /\ UNCHANGED <<items, at, used>>
        /\ req' = IF req = "pending" THEN "accepted" ELSE req
        /\ link # "none" => link' = link
        /\ DOMAIN db'.rows = DOMAIN db.rows \cup {id} /\ db'.files = db.files /\ db'.tags = db.tags
    BY <1>15, AddRowAdds DEF SendDm, Typed
  <2> QED BY <2>1 DEF IStranger, IPending, IRequest, ITorn, Stranger, Hidden, Handling
<1>16. ASSUME NEW id \in Mine, UnsendDm(id) PROVE IGate'
  <2>1. /\ at.pc = "idle" /\ UNCHANGED <<link, req, items, at, used>>
        /\ DOMAIN db'.rows = DOMAIN db.rows /\ db'.files = db.files /\ db'.tags = db.tags
    BY <1>16, TombstonedMarks DEF UnsendDm, HasRow, Typed
  <2> QED BY <2>1 DEF IStranger, IPending, IRequest, ITorn, Stranger, Hidden
<1>17. ASSUME NEW id, Cleanup(id) PROVE IGate'
  <2>1. /\ UNCHANGED <<link, req, items, at, used>>
        /\ db'.rows = db.rows /\ db'.files = db.files /\ db'.tags = db.tags
    BY <1>17 DEF Cleanup, Typed, IDb
  <2> QED BY <2>1 DEF IStranger, IPending, IRequest, ITorn, Stranger, Hidden
<1>18. CASE Reload
  <2>1. /\ at'.pc = "idle" /\ used'.declined = used.declined /\ UNCHANGED <<link, req, items, db>>
        /\ used'.torn = (used.torn \/ Ungated)
    BY <1>18 DEF Reload, Return, Idle, Typed, IWire
  <2>2. Ungated => req = "none" /\ link # "none"
    BY DEF Ungated, NewInbound, ITorn
  <2>3. Stranger /\ ~Ungated /\ ~used.torn /\ at.pc = "gate" => at.out = "idle"
    BY DEF Ungated, NewInbound, IStranger, Stranger, Hidden
  <2> QED BY <2>1, <2>2, <2>3 DEF IStranger, IPending, IRequest, ITorn, Stranger, Hidden, Handling
<1> QED BY <1>1, <1>2, <1>3, <1>4, <1>5, <1>6, <1>7, <1>8, <1>9, <1>10, <1>11, <1>12, <1>13, <1>14,
           <1>15, <1>16, <1>17, <1>18 DEF Next, Sync, Decline, User

(* Wherever a reload falls, nothing of a stranger is shown before the user   *)
(* accepted the request or wrote to the peer, but after a reload between the *)
(* link of the stranger and its request.                                     *)
THEOREM StrangersStayHidden == InSpec => []NoStrangerShown
<1>1. Init => Typed /\ IGate
  BY InitTyped, InitGate
<1>2. Typed /\ IGate /\ [Next]_inVars => Typed' /\ IGate'
  BY TypeStep, GateStep
<1>3. Typed /\ IGate => NoStrangerShown
  BY DEF Typed, IGate, IStranger, IPending, IRequest, IDb, IWire, Reqs, MessageRow, Stranger, Hidden,
         NoStrangerShown, NoStrangerEver, Shown, Consented
<1> QED BY <1>1, <1>2, <1>3, PTL DEF InSpec

(* A declined peer leaves neither rows nor held items, wherever a page load  *)
(* interrupts the decline or the gate before it.                             *)
THEOREM DeclinedPeerIsGone == InSpec => []DeclineLeavesNothing
<1>1. Init => Typed /\ IGate
  BY InitTyped, InitGate
<1>2. Typed /\ IGate /\ [Next]_inVars => Typed' /\ IGate'
  BY TypeStep, GateStep
<1>3. Typed /\ IGate => DeclineLeavesNothing
  BY DEF Typed, IGate, IRequest, IDb, Hidden, DeclineLeavesNothing, FromPeer, HasRow
<1> QED BY <1>1, <1>2, <1>3, PTL DEF InSpec

-------------------------------------------------------------------------------
(* The checkpoint                                                            *)

(* How far into the ratchet the stream goes.                                 *)
Stored == IF at.pc = "store" THEN wire.got - at.fetched ELSE wire.got
InStream(n) == script[n].kind = "drop" \/ \E i \in DOMAIN items : items[i].m = n

ICovered ==
    /\ wire.saved <= Stored
    /\ at.pc \in {"drop", "clear", "decline"} => used.declined
    /\ ~used.declined => \A n \in 1 .. Stored : InStream(n)

(* What no step but a receive, a checkpoint and a reload touches.            *)
LEMMA StreamOnly ==
    ASSUME Typed, ICovered, UNCHANGED <<script, wire>>, used'.declined = used.declined,
           at.pc # "store", at'.pc # "store",
           at'.pc \in {"drop", "clear", "decline"} => at.pc \in {"drop", "clear", "decline"},
           ~used.declined => /\ DOMAIN items \subseteq DOMAIN items'
                             /\ \A i \in DOMAIN items : items'[i].m = items[i].m
    PROVE  ICovered'
<1>1. Stored' = Stored
  BY DEF Stored
<1>2. ASSUME ~used.declined, NEW n \in 1 .. Stored PROVE InStream(n)'
  BY <1>2 DEF ICovered, InStream
<1> QED BY <1>1, <1>2 DEF ICovered

LEMMA CoveredStep == ASSUME Typed, ICovered, [Next]_inVars PROVE ICovered'
<1>1. CASE UNCHANGED inVars
  BY <1>1 DEF inVars, ICovered, Stored, InStream
<1>2. CASE SyncStart
  <2>1. at'.pc \in {"idle", "ensure"} /\ at.pc = "idle" /\ UNCHANGED <<script, wire, used, items>>
    BY <1>2 DEF SyncStart, Entered, Idle
  <2> QED BY <2>1, StreamOnly
<1>3. CASE EnsureWaits \/ EnsureReady
  <2>1. at'.pc = "gate" /\ at.pc = "ensure" /\ UNCHANGED <<script, wire, used, items>>
    BY <1>3 DEF EnsureWaits, EnsureReady, Typed, ICall, Call
  <2> QED BY <2>1, StreamOnly
<1>4. CASE Gate
  <2>1. at'.pc \in {"receive", "idle", "route"} /\ at.pc = "gate" /\ UNCHANGED <<script, wire, used, items>>
    BY <1>4 DEF Gate, Hold, Route, Return, Idle, Typed, ICall, Call
  <2> QED BY <2>1, StreamOnly
<1>5. CASE Receive
  <2>1. PICK n \in 0 .. MaxBatch :
           /\ wire' = [wire EXCEPT !.got = @ + n]
           /\ at' = IF n = 0 THEN Idle ELSE [at EXCEPT !.pc = "store", !.fetched = n]
    BY <1>5 DEF Receive
  <2>2. n \in Nat /\ wire.got \in Nat /\ wire'.got = wire.got + n /\ wire'.saved = wire.saved
    BY <2>1, InboundAssumption DEF Typed, IWire
  <2>3. at'.pc = (IF n = 0 THEN "idle" ELSE "store") /\ (n # 0 => at'.fetched = n)
    BY <2>1 DEF Idle, Typed, ICall, Call
  <2>4. Stored = wire.got /\ Stored' = wire.got
    BY <1>5, <2>2, <2>3 DEF Receive, Stored
  <2>5. UNCHANGED <<script, used, items>>
    BY <1>5 DEF Receive
  <2> QED BY <2>2, <2>3, <2>4, <2>5 DEF ICovered, InStream
<1>6. CASE Store
  <2>1. at.pc = "store" /\ at'.pc \in {"snap", "route"} /\ UNCHANGED <<script, wire, used>>
    BY <1>6 DEF Store, Goto, Route, Typed, ICall, Call
  <2>2. Stored' = wire.got /\ Stored = wire.got - at.fetched /\ wire.got \in Nat /\ at.fetched \in Nat
    BY <2>1 DEF Stored, Typed, IWire, ICall, Call
  <2>3. ASSUME ~used.declined, NEW n \in 1 .. wire.got PROVE InStream(n)'
    <3>1. CASE n <= Stored
      <4>1. n \in 1 .. Stored /\ InStream(n)
        BY <2>2, <2>3, <3>1 DEF ICovered
      <4> QED BY <1>6, <2>1, <4>1, StoredItems DEF InStream
    <3>2. CASE ~(n <= Stored)
      <4>1. n \in wire.got - at.fetched + 1 .. wire.got
        BY <2>2, <3>2
      <4>2. script[n].kind = "drop" \/ n \in Kept
        BY <4>1 DEF Kept
      <4> QED BY <1>6, <2>1, <4>2, StoredItems DEF InStream
    <3> QED BY <3>1, <3>2
  <2>4. wire.saved <= wire.got
    BY DEF Typed, IWire
  <2> QED BY <2>1, <2>2, <2>3, <2>4 DEF ICovered
<1>7. CASE Snapshot
  <2>1. /\ at.pc = "snap" /\ at'.pc = "idle" /\ UNCHANGED <<script, used, items>>
        /\ wire'.got = wire.got /\ wire'.saved = wire.got /\ wire.got \in Nat
    BY <1>7 DEF Snapshot, Return, Idle, Typed, IWire
  <2>2. Stored' = wire.got /\ Stored = wire.got
    BY <2>1 DEF Stored
  <2> QED BY <2>1, <2>2 DEF ICovered, InStream
<1>8. CASE Handle \/ HandlerFails
  <2>1. Routes
    BY <1>8, HandlingRoutes
  <2> QED BY <2>1, StreamOnly DEF Routes, SameStream, Handling
<1>9. CASE DeclineStart
  <2>1. /\ at.pc = "idle" /\ at'.pc = "drop" /\ used'.declined /\ UNCHANGED <<script, wire>>
    BY <1>9 DEF DeclineStart, Goto, Typed, ICall, Call, IWire
  <2> QED BY <2>1 DEF ICovered, Stored
<1>10. CASE DropItems \/ DropMessages
  <2>1. /\ at.pc \in {"drop", "clear"} /\ at'.pc \in {"clear", "decline"} /\ used.declined
        /\ UNCHANGED <<script, wire, used>>
    BY <1>10 DEF DropItems, DropMessages, Goto, Typed, ICall, Call, ICovered
  <2> QED BY <2>1, StreamOnly
<1>11. CASE Declined \/ AcceptRequest
  <2>1. CASE Declined
    <3>1. at.pc = "decline" /\ at'.pc = "idle" /\ UNCHANGED <<script, wire, items, used>>
      BY <2>1 DEF Declined, Return, Idle
    <3> QED BY <3>1, StreamOnly
  <2>2. CASE AcceptRequest
    <3>1. at.pc = "idle" /\ at'.pc = "ensure" /\ UNCHANGED <<script, wire, items, used>>
      BY <2>2 DEF AcceptRequest, Entered, Idle
    <3> QED BY <3>1, StreamOnly
  <2> QED BY <1>11, <2>1, <2>2
<1>12. CASE (\E id \in Mine : SendDm(id) \/ UnsendDm(id)) \/ \E id \in Ids : Cleanup(id)
  <2>1. UNCHANGED <<script, wire, items, used, at>>
    BY <1>12 DEF SendDm, UnsendDm, Cleanup
  <2> QED BY <2>1 DEF ICovered, Stored, InStream
<1>13. CASE Reload
  <2>1. /\ at'.pc = "idle" /\ used'.declined = used.declined /\ UNCHANGED <<script, items>>
        /\ wire'.got = wire.saved /\ wire'.saved = wire.saved /\ wire.saved \in Nat
    BY <1>13 DEF Reload, Return, Idle, Typed, IWire
  <2>2. Stored' = wire.saved /\ wire.saved <= Stored /\ Stored \in Int
    BY <2>1 DEF Stored, ICovered, Typed, IWire, ICall, Call
  <2> QED BY <2>1, <2>2 DEF ICovered, InStream
<1> QED BY <1>1, <1>2, <1>3, <1>4, <1>5, <1>6, <1>7, <1>8, <1>9, <1>10, <1>11, <1>12, <1>13
        DEF Next, Sync, Decline, User

(* What a restored ratchet will not give again is in the stream: the items   *)
(* are stored before the checkpoint, in the routed and in the held path, and *)
(* only a decline drops them.                                                *)
THEOREM CheckpointsAreCovered == InSpec => []CheckpointCovered
<1>1. Init => Typed /\ ICovered
  <2>1. Init => ICovered
    BY DEF Init, Idle, ICovered, Stored, InStream
  <2> QED BY <2>1, InitTyped
<1>2. Typed /\ ICovered /\ [Next]_inVars => Typed' /\ ICovered'
  BY TypeStep, CoveredStep
<1>3. Typed /\ ICovered => CheckpointCovered
  <2> SUFFICES ASSUME Typed, ICovered, ~used.declined, NEW n \in 1 .. wire.saved PROVE InStream(n)
    BY DEF CheckpointCovered, InStream
  <2>1. n \in 1 .. Stored
    BY DEF Typed, IWire, ICall, Call, ICovered, Stored
  <2> QED BY <2>1 DEF ICovered
<1> QED BY <1>1, <1>2, <1>3, PTL DEF InSpec

-------------------------------------------------------------------------------
(* Messages the peer unsent                                                  *)

(* An attachment is saved before its row, and only once.                     *)
IRow == at.pc = "row" => Msg.kind = "attach" /\ ~FromPeer(Msg.id) /\ Msg.id \in db.files

LEMMA RowStep == ASSUME Typed, IRow, [Next]_inVars PROVE IRow'
<1>1. CASE UNCHANGED inVars
  BY <1>1 DEF inVars, IRow, Msg, Current, FromPeer, HasRow
<1>2. CASE SyncStart
  BY <1>2 DEF SyncStart, Entered, Idle, IRow
<1>3. CASE EnsureWaits \/ EnsureReady \/ Gate
  BY <1>3 DEF EnsureWaits, EnsureReady, Gate, Hold, Route, Return, Idle, Typed, ICall, Call, IRow
<1>4. CASE Receive \/ Store \/ Snapshot
  <2>1. CASE Receive
    BY <2>1 DEF Receive, Idle, Typed, ICall, Call, IRow
  <2>2. CASE Store
    BY <2>2 DEF Store, Goto, Route, Typed, ICall, Call, IRow
  <2>3. CASE Snapshot
    BY <2>3 DEF Snapshot, Return, Idle, IRow
  <2> QED BY <1>4, <2>1, <2>2, <2>3
<1>5. CASE RouteUnknown \/ RouteQuiet \/ RouteText \/ MarkText \/ ReplayTags \/ OweReceipt
  BY <1>5 DEF RouteUnknown, RouteQuiet, RouteText, MarkText, ReplayTags, OweReceipt, NextItem, Goto,
              Routing, Typed, ICall, Call, IRow
<1>6. CASE RouteAttachment
  <2>1. CASE Goto("mark")
    BY <2>1 DEF Goto, Typed, ICall, Call, IRow
  <2>2. CASE ~(FromPeer(Msg.id) \/ Msg.id \in db.files) /\ db' = [db EXCEPT !.files = @ \cup {Msg.id}] /\ Goto("row")
    <3>1. at'.work = at.work /\ UNCHANGED <<script, items>>
      BY <1>6, <2>2 DEF RouteAttachment, Goto, OnlyDb, Typed, ICall, Call
    <3>2. Msg' = Msg /\ Msg.kind = "attach"
      BY <1>6, <3>1 DEF RouteAttachment, Routing, Msg, Current
    <3>3. db'.rows = db.rows /\ Msg.id \in db'.files
      BY <2>2 DEF Typed, IDb
    <3> QED BY <2>2, <3>2, <3>3 DEF IRow, FromPeer, HasRow
  <2> QED BY <1>6, <2>1, <2>2 DEF RouteAttachment
<1>7. CASE SaveAttachmentRow \/ RouteTag \/ RouteReceipt \/ RouteDeleteEarly \/ WipeKey \/ Mark
  BY <1>7 DEF SaveAttachmentRow, RouteTag, RouteReceipt, RouteDeleteEarly, WipeKey, Mark, NextItem,
              Goto, Routing, Typed, ICall, Call, IRow
<1>8. CASE RouteDelete
  BY <1>8 DEF RouteDelete, Goto, Typed, ICall, Call, IRow
<1>9. CASE RouteEnd
  <2>1. CASE Route(items, at.next)
    BY <2>1 DEF Route, Typed, ICall, Call, IRow
  <2>2. CASE at' = Idle
    BY <2>2 DEF Idle, IRow
  <2>3. CASE Goto(at.next)
    BY <2>3 DEF Goto, Typed, ICall, Call, IRow
  <2> QED BY <1>9, <2>1, <2>2, <2>3 DEF RouteEnd, Return
<1>10. CASE Decline
  BY <1>10 DEF Decline, DeclineStart, DropItems, DropMessages, Declined, Goto, Return, Idle, Typed,
               ICall, Call, IRow
<1>11. CASE AcceptRequest
  BY <1>11 DEF AcceptRequest, Entered, Idle, IRow
<1>12. CASE \E id \in Mine : SendDm(id) \/ UnsendDm(id)
  BY <1>12 DEF SendDm, UnsendDm, IRow
<1>13. CASE \E id \in Ids : Cleanup(id)
  <2>1. UNCHANGED <<script, items, at>> /\ db'.rows = db.rows /\ db'.files = db.files
    BY <1>13 DEF Cleanup, Typed, IDb
  <2> QED BY <2>1 DEF IRow, Msg, Current, FromPeer, HasRow
<1>14. CASE HandlerFails \/ Reload
  <2>1. CASE HandlerFails
    BY <2>1 DEF HandlerFails, NextItem, Typed, ICall, Call, IRow
  <2>2. CASE Reload
    BY <2>2 DEF Reload, Return, Idle, IRow
  <2> QED BY <1>14, <2>1, <2>2
<1> QED BY <1>1, <1>2, <1>3, <1>4, <1>5, <1>6, <1>7, <1>8, <1>9, <1>10, <1>11, <1>12, <1>13, <1>14
        DEF Next, Sync, Handle, User

(* What a step does to the rows there are: it brings them back from no       *)
(* tombstone.                                                                *)
RowsKept(d, e) ==
    \A id \in DOMAIN d.rows : id \in DOMAIN e.rows => (d.rows[id].gone => e.rows[id].gone)

LEMMA StepKeepsRows == ASSUME Typed, IRow, [Next]_inVars PROVE RowsKept(db, db')
<1>1. CASE UNCHANGED db
  BY <1>1 DEF RowsKept
<1>2. CASE Receive \/ ReplayTags \/ OweReceipt \/ RouteAttachment \/ WipeKey \/ DropItems
           \/ \E id \in Ids : Cleanup(id)
  <2>1. db'.rows = db.rows
    BY <1>2 DEF Receive, ReplayTags, Replayed, OweReceipt, RouteAttachment, WipeKey, DropItems,
                Cleanup, Typed, IDb
  <2> QED BY <2>1 DEF RowsKept
<1>3. CASE DropMessages
  <2>1. DOMAIN db'.rows = {}
    BY <1>3 DEF DropMessages, Typed, IDb
  <2> QED BY <2>1 DEF RowsKept
<1>4. ASSUME NEW id \in Mine, SendDm(id) PROVE RowsKept(db, db')
  BY <1>4, AddRowAdds DEF SendDm, HasRow, RowsKept, Typed
<1>5. ASSUME NEW id \in Mine, UnsendDm(id) PROVE RowsKept(db, db')
  BY <1>5, TombstonedMarks DEF UnsendDm, HasRow, RowsKept, Typed
<1>6. CASE RouteText
  <2>1. CASE db' = AddRow(Msg.id, "text", "peer") /\ ~FromPeer(Msg.id)
    <3>1. Msg.id \notin DOMAIN db.rows
      BY <1>6, <2>1, CurrentItem DEF RouteText, Routing, FromPeer, HasRow, Typed, IDb, MessageRow
    <3> QED BY <1>6, <2>1, <3>1, CurrentItem, AddRowAdds DEF RouteText, Routing, RowsKept, Typed
  <2> QED BY <1>1, <1>6, <2>1 DEF RouteText
<1>7. CASE SaveAttachmentRow
  <2>1. at.work # {} /\ ~FromPeer(Msg.id)
    BY <1>7 DEF SaveAttachmentRow, IRow, Typed, ICall, Handling
  <2>2. Msg.id \notin DOMAIN db.rows
    BY <2>1, CurrentItem DEF FromPeer, HasRow, Typed, IDb, MessageRow
  <2> QED BY <1>7, <2>1, <2>2, CurrentItem, AddRowAdds DEF SaveAttachmentRow, RowsKept, Typed
<1>8. CASE RouteTag
  <2>1. CASE db' = Wait(Msg)
    BY <2>1 DEF Wait, Typed, IDb, RowsKept
  <2>2. CASE db' = [db EXCEPT !.tags = Tagged(@, Msg)]
    BY <2>2 DEF Typed, IDb, RowsKept
  <2> QED BY <1>1, <1>8, <2>1, <2>2 DEF RouteTag
<1>9. CASE RouteReceipt
  <2>1. ASSUME HasRow(Msg.on), NEW next \in {"delivered", "read"}, db' = Upgraded(Msg.on, next)
        PROVE  RowsKept(db, db')
    BY <2>1, UpgradedKeeps DEF HasRow, RowsKept, Typed
  <2> QED BY <1>1, <1>9, <2>1 DEF RouteReceipt
<1>10. CASE RouteDelete
  <2>1. CASE db' = Tombstoned(Msg.on)
    BY <1>10, <2>1, TombstonedMarks DEF RouteDelete, HasRow, RowsKept, Typed
  <2> QED BY <1>1, <1>10, <2>1 DEF RouteDelete
<1>11. CASE \/ SyncStart \/ EnsureWaits \/ EnsureReady \/ Gate \/ Store \/ Snapshot
            \/ RouteUnknown \/ RouteQuiet \/ MarkText \/ RouteDeleteEarly \/ Mark \/ RouteEnd
            \/ DeclineStart \/ Declined \/ AcceptRequest \/ HandlerFails \/ Reload \/ UNCHANGED inVars
  <2>1. UNCHANGED db
    BY <1>11 DEF SyncStart, EnsureWaits, EnsureReady, Gate, Store, Snapshot, RouteUnknown, RouteQuiet,
                 MarkText, RouteDeleteEarly, Mark, RouteEnd, DeclineStart, Declined, AcceptRequest,
                 HandlerFails, Reload, OnlyItems, inVars
  <2> QED BY <1>1, <2>1
<1> QED BY <1>2, <1>3, <1>4, <1>5, <1>6, <1>7, <1>8, <1>9, <1>10, <1>11
        DEF Next, Sync, Handle, Decline, User

(* A row that was unsent is never shown again: neither a message that is     *)
(* received a second time nor a receipt takes the tombstone away.            *)
THEOREM UnsentNeverReturns == InSpec => UnsentStays
<1>1. Init => Typed /\ IRow
  <2>1. Init => IRow
    BY DEF Init, Idle, IRow
  <2> QED BY <2>1, InitTyped
<1>2. Typed /\ IRow /\ [Next]_inVars => Typed' /\ IRow'
  BY TypeStep, RowStep
<1>3. Typed /\ IRow /\ [Next]_inVars
      => [\A id \in DOMAIN db.rows :
             db.rows[id].gone => id \notin DOMAIN db'.rows \/ db'.rows[id].gone]_inVars
  BY StepKeepsRows DEF RowsKept
<1> QED BY <1>1, <1>2, <1>3, PTL DEF InSpec, UnsentStays

-------------------------------------------------------------------------------
(* The wipe of what was unsent                                               *)

(* Two messages of a peer have two event ids.                                *)
EventIdsDiffer == \A s \in Scripts : \A i, j \in DOMAIN s : s[i].id = s[j].id => i = j

IsFile(n) == script[n].kind = "attach"
FileId(id) == \E n \in DOMAIN script : script[n].id = id /\ IsFile(n)
IdAt(i) == script[items[i].m].id
Twice(id) == \E i, j \in DOMAIN items : i # j /\ IdAt(i) = id /\ IdAt(j) = id
(* A receive after a reload brought the attachment once more.                *)
Again(id) ==
    /\ at.pc = "store" /\ used.reload >= 1
    /\ \E n \in Kept : script[n].id = id

(* A row of the peer comes from the stream; a tombstone redacted the copies  *)
(* there were, and put the key in the journal.                               *)
RowOK(id) ==
    /\ \E i \in DOMAIN items : IdAt(i) = id
    /\ FileId(id) => id \in db.files
    /\ db.rows[id].gone =>
          /\ \E i \in DOMAIN items : IdAt(i) = id /\ ~items[i].clear
          /\ id \in db.keys \ db.wipes => Twice(id) \/ Again(id)

IWipe ==
    /\ \A id \in DOMAIN db.rows \ Mine : RowOK(id)
    /\ \A id \in db.keys : FileId(id)
    /\ used.reload = 0 => \A i \in DOMAIN items : items[i].m <= Stored

(* The stream only grows, and stays redacted.                                *)
Grows ==
    /\ UNCHANGED script /\ DOMAIN items \subseteq DOMAIN items'
    /\ \A i \in DOMAIN items : items'[i].m = items[i].m /\ (items'[i].clear => items[i].clear)

LEMMA RowStays ==
    ASSUME NEW id, RowOK(id), Grows, db.files \subseteq db'.files,
           db'.rows[id].gone => db.rows[id].gone,
           id \in db'.keys \ db'.wipes => id \in db.keys \ db.wipes,
           Again(id) => Again(id)' \/ Twice(id)'
    PROVE  RowOK(id)'
<1>1. \A i \in DOMAIN items : i \in DOMAIN items' /\ IdAt(i)' = IdAt(i)
  BY DEF Grows, IdAt
<1>2. Twice(id) => Twice(id)'
  BY <1>1 DEF Twice
<1>3. FileId(id)' <=> FileId(id)
  BY DEF FileId, IsFile, Grows
<1>4. (\E i \in DOMAIN items : IdAt(i) = id) => (\E i \in DOMAIN items' : IdAt(i)' = id)
  BY <1>1
<1>5. (\E i \in DOMAIN items : IdAt(i) = id /\ ~items[i].clear)
      => (\E i \in DOMAIN items' : IdAt(i)' = id /\ ~items'[i].clear)
  BY <1>1 DEF Grows
<1> QED BY <1>2, <1>3, <1>4, <1>5 DEF RowOK

(* A step that brings no row, no key and nothing of the ratchet.             *)
LEMMA WipeStays ==
    ASSUME Typed, IWipe, Grows, db.files \subseteq db'.files,
           UNCHANGED wire, used'.reload = used.reload,
           at'.pc # "store", at.pc # "store", DOMAIN items' = DOMAIN items,
           db'.keys \subseteq db.keys,
           \A id \in db'.keys \ db'.wipes : id \in db.keys \ db.wipes,
           \A id \in DOMAIN db'.rows \ Mine : id \in DOMAIN db.rows,
           \A id \in DOMAIN db'.rows \ Mine : db'.rows[id].gone => db.rows[id].gone
    PROVE  IWipe'
<1>1. ASSUME NEW id \in DOMAIN db'.rows \ Mine PROVE RowOK(id)'
  BY <1>1, RowStays DEF IWipe, Again
<1>2. \A id : FileId(id)' <=> FileId(id)
  BY DEF FileId, IsFile, Grows
<1>3. Stored' = Stored
  BY DEF Stored
<1> QED BY <1>1, <1>2, <1>3 DEF IWipe, Grows

LEMMA WipeReceive == ASSUME EventIdsDiffer, Typed, IWipe, Receive PROVE IWipe'
<1>1. PICK n \in 0 .. MaxBatch :
         LET new == wire.got + 1 .. wire.got + n IN
         /\ wire.got + n <= Len(script)
         /\ wire' = [wire EXCEPT !.got = @ + n]
         /\ db' = [db EXCEPT !.keys = @ \cup {script[i].id : i \in {j \in new : script[j].kind = "attach"}}]
         /\ at' = IF n = 0 THEN Idle ELSE [at EXCEPT !.pc = "store", !.fetched = n]
  BY DEF Receive
<1> DEFINE new == wire.got + 1 .. wire.got + n
           ids == {script[i].id : i \in {j \in new : script[j].kind = "attach"}}
<1>2. n \in Nat /\ wire.got \in Nat /\ wire'.got = wire.got + n /\ wire'.got <= Len(script)
  BY <1>1, InboundAssumption DEF Typed, IWire
<1>3. at'.pc = (IF n = 0 THEN "idle" ELSE "store") /\ (n # 0 => at'.fetched = n)
  BY <1>1 DEF Idle, Typed, ICall, Call
<1>4. Stored = wire.got /\ Stored' = wire.got /\ at.pc = "receive"
  BY <1>2, <1>3 DEF Receive, Stored
<1>5. UNCHANGED <<script, used, items>> /\ Grows
  BY DEF Receive, Grows
<1>6. new \subseteq DOMAIN script /\ script \in Scripts
  BY <1>2, InboundAssumption DEF Typed, IWire
<1>7. /\ db'.rows = db.rows /\ db'.files = db.files /\ db'.wipes = db.wipes
      /\ db'.keys = db.keys \cup ids
  BY <1>1 DEF Typed, IDb
<1>8. \A id \in ids : \E i \in new : script[i].id = id /\ IsFile(i)
  BY DEF IsFile
<1> HIDE DEF ids
<1>9. \A id \in db'.keys : FileId(id)'
  BY <1>5, <1>6, <1>7, <1>8 DEF IWipe, FileId, IsFile
<1>10. Kept' = {i \in new : script[i].kind # "drop"} \/ n = 0
  <2>1. ASSUME n # 0 PROVE wire'.got - at'.fetched + 1 .. wire'.got = new
    BY <1>2, <1>3, <2>1
  <2> QED BY <1>5, <2>1 DEF Kept
<1> HIDE DEF new
<1>11. ASSUME NEW id \in DOMAIN db'.rows \ Mine PROVE RowOK(id)'
  <2>1. id \in DOMAIN db.rows \ Mine /\ RowOK(id)
    BY <1>7, <1>11 DEF IWipe
  <2>2. CASE id \in db.keys
    <3>1. ~Again(id)
      BY <1>4 DEF Again
    <3> QED BY <1>5, <1>7, <2>1, <2>2, <3>1, RowStays
  <2>3. CASE id \notin db.keys /\ id \notin ids
    <3>1. ~Again(id)
      BY <1>4 DEF Again
    <3> QED BY <1>5, <1>7, <2>1, <2>3, <3>1, RowStays
  <2>4. CASE id \in ids
    <3>1. PICK i \in new : script[i].id = id /\ IsFile(i)
      BY <1>8, <2>4
    <3>2. PICK j \in DOMAIN items : IdAt(j) = id
      BY <2>1 DEF RowOK
    <3>3. used.reload # 0
      <4>1. items[j].m \in DOMAIN script /\ script[items[j].m].id = id
        BY <3>2 DEF IdAt, Typed, IItems
      <4>2. items[j].m = i
        BY <1>6, <3>1, <4>1 DEF EventIdsDiffer
      <4>3. i > wire.got
        BY <1>2 DEF new
      <4>4. ~(items[j].m <= wire.got)
        BY <1>2, <1>6, <4>2, <4>3, <4>1, InboundAssumption
      <4> QED BY <1>4, <3>2, <4>4 DEF IWipe
    <3>4. used.reload >= 1
      BY <3>3 DEF Typed, IWire
    <3>5. n # 0
      BY <1>2, <3>1 DEF new
    <3>6. i \in Kept'
      BY <1>10, <3>1, <3>5 DEF IsFile
    <3>7. Again(id)'
      BY <1>3, <1>5, <3>1, <3>4, <3>5, <3>6 DEF Again
    <3>8. RowOK(id)' <=> /\ \E k \in DOMAIN items : IdAt(k) = id
                         /\ FileId(id) => id \in db.files
                         /\ db.rows[id].gone => \E k \in DOMAIN items : IdAt(k) = id /\ ~items[k].clear
      BY <1>5, <1>7, <3>7 DEF RowOK, IdAt, FileId, IsFile
    <3> QED BY <2>1, <3>8 DEF RowOK
  <2> QED BY <2>2, <2>3, <2>4
<1> QED BY <1>4, <1>5, <1>9, <1>11 DEF IWipe

LEMMA WipeStore == ASSUME Typed, IWipe, Store PROVE IWipe'
<1>1. at.pc = "store" /\ at'.pc \in {"snap", "route"} /\ UNCHANGED <<script, wire, used, db>>
  BY DEF Store, Goto, Route, Typed, ICall, Call
<1>2. Stored' = wire.got /\ Stored = wire.got - at.fetched /\ wire.got \in Nat /\ at.fetched \in Nat
  BY <1>1 DEF Stored, Typed, IWire, ICall, Call
<1>3. Grows
  BY <1>1, StoredItems DEF Grows
<1>4. ASSUME NEW id \in DOMAIN db.rows \ Mine PROVE RowOK(id)'
  <2>1. RowOK(id)
    BY DEF IWipe
  <2>2. ASSUME Again(id) PROVE Twice(id)'
    <3>1. PICK n \in Kept : script[n].id = id
      BY <2>2 DEF Again
    <3>2. PICK i \in DOMAIN items' \ DOMAIN items : items'[i].m = n
      BY <3>1, StoredItems
    <3>3. PICK j \in DOMAIN items : IdAt(j) = id
      BY <2>1 DEF RowOK
    <3>4. j \in DOMAIN items' /\ IdAt(j)' = id /\ IdAt(i)' = id /\ i # j
      BY <1>3, <3>1, <3>2, <3>3 DEF Grows, IdAt
    <3> QED BY <3>2, <3>4 DEF Twice
  <2> QED BY <1>1, <1>3, <2>1, <2>2, RowStays
<1>5. ASSUME used.reload = 0, NEW i \in DOMAIN items' PROVE items'[i].m <= wire.got
  <2>1. CASE i \in DOMAIN items
    <3>1. items'[i].m = items[i].m
      BY <1>3, <2>1 DEF Grows
    <3>2. items[i].m <= Stored
      BY <1>5, <2>1 DEF IWipe
    <3>3. items[i] \in ItemRow
      BY <2>1 DEF Typed, IItems
    <3>4. items[i].m \in Nat
      BY <3>3 DEF ItemRow
    <3> QED BY <1>2, <3>1, <3>2, <3>4
  <2>2. CASE i \notin DOMAIN items
    BY <1>5, <2>2, StoredItems DEF Kept
  <2> QED BY <2>1, <2>2
<1>6. \A id : FileId(id)' <=> FileId(id)
  BY <1>1 DEF FileId, IsFile
<1> QED BY <1>1, <1>2, <1>4, <1>5, <1>6 DEF IWipe

(* A row that is new is not unsent, and an attachment is saved before it.    *)
LEMMA WipeNewRow ==
    ASSUME Typed, IWipe, NEW id, id \notin Mine, id \notin DOMAIN db.rows,
           UNCHANGED <<script, wire, items>>, used'.reload = used.reload,
           at.pc # "store", at'.pc # "store",
           \E i \in DOMAIN items : IdAt(i) = id,
           FileId(id) => id \in db.files,
           DOMAIN db'.rows = DOMAIN db.rows \cup {id}, ~db'.rows[id].gone,
           \A x \in DOMAIN db.rows \ {id} : db'.rows[x] = db.rows[x],
           db'.files = db.files, db'.keys = db.keys, db'.wipes = db.wipes
    PROVE  IWipe'
<1>1. Grows
  BY DEF Grows, Typed, IItems
<1>2. ASSUME NEW x \in DOMAIN db'.rows \ Mine PROVE RowOK(x)'
  <2>1. CASE x = id
    BY <2>1 DEF RowOK, FileId, IsFile, IdAt
  <2>2. CASE x # id
    <3>1. x \in DOMAIN db.rows \ Mine /\ db'.rows[x] = db.rows[x]
      BY <2>2
    <3> QED BY <1>1, <3>1, RowStays DEF IWipe, Again
  <2> QED BY <2>1, <2>2
<1>3. Stored' = Stored
  BY DEF Stored
<1>4. \A x : FileId(x)' <=> FileId(x)
  BY DEF FileId, IsFile
<1> QED BY <1>2, <1>3, <1>4 DEF IWipe

LEMMA WipeText == ASSUME EventIdsDiffer, Typed, IWipe, RouteText PROVE IWipe'
<1>1. /\ at.pc = "route" /\ at'.pc \in {"mark", "saved"} /\ UNCHANGED <<script, wire, items, used>>
      /\ at.work # {} /\ Msg.kind = "text"
  BY DEF RouteText, Routing, Goto, OnlyDb, Typed, ICall, Call
<1>2. Current \in DOMAIN items /\ items[Current].m \in DOMAIN script /\ Msg.id \notin Mine
  BY <1>1, CurrentItem
<1>3. CASE UNCHANGED db
  <2>1. Grows
    BY <1>1 DEF Grows
  <2> QED BY <1>1, <1>3, <2>1, WipeStays
<1>4. CASE db' = AddRow(Msg.id, "text", "peer") /\ ~FromPeer(Msg.id)
  <2>1. Msg.id \notin DOMAIN db.rows
    BY <1>2, <1>4 DEF FromPeer, HasRow, Typed, IDb, MessageRow
  <2>2. IdAt(Current) = Msg.id
    BY DEF IdAt, Msg
  <2>3. ~FileId(Msg.id)
    <3>1. SUFFICES ASSUME NEW n \in DOMAIN script, script[n].id = Msg.id, IsFile(n) PROVE FALSE
      BY DEF FileId
    <3>2. n = items[Current].m
      BY <1>2, <3>1 DEF EventIdsDiffer, Msg, Typed, IWire
    <3> QED BY <1>1, <3>1, <3>2 DEF IsFile, Msg
  <2> QED BY <1>1, <1>2, <1>4, <2>1, <2>2, <2>3, AddRowAdds, WipeNewRow DEF Typed
<1> QED BY <1>3, <1>4 DEF RouteText

LEMMA WipeAttachmentRow == ASSUME Typed, IRow, IWipe, SaveAttachmentRow PROVE IWipe'
<1>1. /\ at.pc = "row" /\ at'.pc = "mark" /\ UNCHANGED <<script, wire, items, used>> /\ at.work # {}
      /\ db' = AddRow(Msg.id, "attach", "peer") /\ ~FromPeer(Msg.id) /\ Msg.id \in db.files
  BY DEF SaveAttachmentRow, OnlyDb, IRow, Typed, ICall, Call, Handling
<1>2. Current \in DOMAIN items /\ Msg.id \notin Mine
  BY <1>1, CurrentItem
<1>3. Msg.id \notin DOMAIN db.rows
  BY <1>1, <1>2 DEF FromPeer, HasRow, Typed, IDb, MessageRow
<1>4. IdAt(Current) = Msg.id
  BY DEF IdAt, Msg
<1> QED BY <1>1, <1>2, <1>3, <1>4, AddRowAdds, WipeNewRow DEF Typed

(* The tombstone redacts every copy there is, and its key is in the journal  *)
(* when it is in the key store.                                              *)
LEMMA WipeDelete == ASSUME Typed, IWipe, RouteDelete PROVE IWipe'
<1>1. /\ at.pc = "route" /\ at'.pc \in {"mark", "wipe"} /\ UNCHANGED <<script, wire, used>>
      /\ HasRow(Msg.on)
  BY DEF RouteDelete, Routing, Goto, Typed, ICall, Call
<1>2. CASE UNCHANGED <<db, items>>
  <2>1. Grows
    BY <1>1, <1>2 DEF Grows
  <2> QED BY <1>1, <1>2, <2>1, WipeStays
<1>3. CASE db' = Tombstoned(Msg.on) /\ items' = Redacted(Msg.on)
  <2> DEFINE id == Msg.on
  <2>1. /\ SameStream /\ \A i \in DOMAIN items : IdAt(i) = id => ~items'[i].clear
    BY <1>3, RedactedKeeps DEF IdAt
  <2>2. /\ DOMAIN db'.rows = DOMAIN db.rows /\ id \in DOMAIN db.rows
        /\ \A x \in DOMAIN db.rows \ {id} : db'.rows[x] = db.rows[x]
        /\ db'.files = db.files /\ db'.keys = db.keys /\ db.wipes \subseteq db'.wipes
        /\ id \in db.files => id \in db'.wipes
    BY <1>1, <1>3, TombstonedMarks DEF HasRow, Typed
  <2> HIDE DEF id
  <2>3. Grows /\ DOMAIN items' = DOMAIN items /\ \A i \in DOMAIN items : IdAt(i)' = IdAt(i)
    BY <1>1, <2>1 DEF Grows, SameStream, IdAt
  <2>4. \A x : FileId(x)' <=> FileId(x)
    BY <1>1 DEF FileId, IsFile
  <2>5. ASSUME NEW x \in DOMAIN db'.rows \ Mine PROVE RowOK(x)'
    <3>1. RowOK(x) /\ x \in DOMAIN db.rows
      BY <2>2, <2>5 DEF IWipe
    <3>2. CASE x # id
      BY <1>1, <2>2, <2>3, <3>1, <3>2, RowStays DEF Again
    <3>3. CASE x = id
      <4>1. \E i \in DOMAIN items' : IdAt(i)' = id /\ ~items'[i].clear
        BY <2>1, <2>3, <3>1, <3>3 DEF RowOK
      <4>2. id \notin db'.keys \ db'.wipes
        BY <2>2, <3>1, <3>3 DEF IWipe, RowOK
      <4> QED BY <2>2, <2>4, <3>1, <3>3, <4>1, <4>2 DEF RowOK
    <3> QED BY <3>2, <3>3
  <2>6. Stored' = Stored
    BY <1>1 DEF Stored
  <2> QED BY <1>1, <2>2, <2>3, <2>4, <2>5, <2>6 DEF IWipe, Grows
<1> QED BY <1>2, <1>3 DEF RouteDelete

(* The handlers that bring neither a row nor a tombstone.                    *)
LEMMA WipeOtherHandlers ==
    ASSUME Typed, IRow, IWipe, [Next]_inVars, Handle \/ HandlerFails,
           \/ RouteUnknown \/ RouteQuiet \/ MarkText \/ ReplayTags \/ OweReceipt \/ RouteAttachment
           \/ RouteTag \/ RouteReceipt \/ RouteDeleteEarly \/ WipeKey \/ Mark \/ RouteEnd \/ HandlerFails
    PROVE  IWipe'
<1>1. Routes
  BY HandlingRoutes
<1>2. RowsKept(db, db')
  BY StepKeepsRows
<1>3. Grows /\ DOMAIN items' = DOMAIN items /\ UNCHANGED wire /\ used'.reload = used.reload
  BY <1>1 DEF Routes, SameStream, Grows
<1>4. at.pc # "store" /\ at'.pc # "store"
  BY <1>1 DEF Routes, Handling
<1>5. CASE \/ RouteUnknown \/ RouteQuiet \/ MarkText \/ RouteDeleteEarly \/ Mark \/ RouteEnd \/ HandlerFails
  <2>1. UNCHANGED db
    BY <1>5 DEF RouteUnknown, RouteQuiet, MarkText, RouteDeleteEarly, Mark, RouteEnd, HandlerFails, OnlyItems
  <2> QED BY <1>3, <1>4, <2>1, WipeStays
<1>6. CASE ReplayTags \/ OweReceipt \/ RouteAttachment \/ RouteTag
  <2>1. db'.rows = db.rows /\ db.files \subseteq db'.files /\ db'.keys = db.keys /\ db'.wipes = db.wipes
    <3>1. CASE ReplayTags
      BY <3>1 DEF ReplayTags, Replayed, Typed, IDb
    <3>2. CASE OweReceipt
      BY <3>2 DEF OweReceipt, Typed, IDb
    <3>3. CASE RouteAttachment
      BY <3>3 DEF RouteAttachment, Typed, IDb
    <3>4. CASE RouteTag
      <4>1. CASE db' = Wait(Msg)
        BY <4>1 DEF Wait, Typed, IDb
      <4>2. CASE db' = [db EXCEPT !.tags = Tagged(@, Msg)]
        BY <4>2 DEF Typed, IDb
      <4> QED BY <3>4, <4>1, <4>2 DEF RouteTag
    <3> QED BY <1>6, <3>1, <3>2, <3>3, <3>4
  <2> QED BY <1>3, <1>4, <2>1, WipeStays
<1>7. CASE WipeKey
  <2>1. \/ UNCHANGED db
        \/ /\ db'.rows = db.rows /\ db'.files = db.files
           /\ db'.keys = db.keys \ ({Msg.on} \cap db.wipes) /\ db'.wipes = db.wipes \ {Msg.on}
    BY <1>7 DEF WipeKey, Typed, IDb
  <2> QED BY <1>3, <1>4, <2>1, WipeStays
<1>8. CASE RouteReceipt
  <2>1. ASSUME HasRow(Msg.on), NEW next \in {"delivered", "read"}, db' = Upgraded(Msg.on, next)
        PROVE  IWipe'
    <3>1. /\ DOMAIN db'.rows = DOMAIN db.rows /\ \A x \in DOMAIN db.rows : db'.rows[x].gone = db.rows[x].gone
          /\ db'.files = db.files /\ db'.keys = db.keys /\ db'.wipes = db.wipes
      BY <2>1, UpgradedKeeps DEF HasRow, Typed
    <3> QED BY <1>3, <1>4, <3>1, WipeStays
  <2>2. CASE UNCHANGED db
    BY <1>3, <1>4, <2>2, WipeStays
  <2> QED BY <1>8, <2>1, <2>2 DEF RouteReceipt
<1> QED BY <1>5, <1>6, <1>7, <1>8

LEMMA WipeStep ==
    ASSUME EventIdsDiffer, "store" \notin ReloadAt \/ MaxReload <= 1,
           Typed, IGate, IRow, IWipe, [Next]_inVars
    PROVE  IWipe'
<1>1. CASE UNCHANGED inVars
  <2>1. Grows
    BY <1>1 DEF inVars, Grows
  <2>2. \A id : RowOK(id)' <=> RowOK(id)
    BY <1>1 DEF inVars, RowOK, IdAt, FileId, IsFile, Twice, Again, Kept
  <2> QED BY <1>1, <2>2 DEF inVars, IWipe, FileId, IsFile, Stored
<1>2. CASE SyncStart \/ EnsureWaits \/ EnsureReady \/ Gate \/ AcceptRequest \/ Declined \/ DeclineStart
  <2>1. UNCHANGED <<script, wire, items, db>>
    BY <1>2 DEF SyncStart, EnsureWaits, EnsureReady, Gate, AcceptRequest, Declined, DeclineStart
  <2>2. used'.reload = used.reload
    BY <1>2 DEF SyncStart, EnsureWaits, EnsureReady, Gate, AcceptRequest, Declined, DeclineStart, Typed, IWire
  <2>3. at.pc # "store"
    BY <1>2 DEF SyncStart, EnsureWaits, EnsureReady, Gate, AcceptRequest, Declined, DeclineStart
  <2>4. at'.pc # "store"
    <3>1. CASE SyncStart \/ AcceptRequest
      BY <2>3, <3>1 DEF SyncStart, AcceptRequest, Entered, Idle
    <3>2. CASE EnsureWaits \/ EnsureReady \/ DeclineStart
      BY <3>2 DEF EnsureWaits, EnsureReady, DeclineStart, Goto, Typed, ICall, Call
    <3>3. CASE Gate
      BY <3>3 DEF Gate, Hold, Route, Return, Idle, Typed, ICall, Call
    <3>4. CASE Declined
      BY <3>4 DEF Declined, Return, Idle
    <3> QED BY <1>2, <3>1, <3>2, <3>3, <3>4
  <2>5. Grows
    BY <2>1 DEF Grows
  <2> QED BY <2>1, <2>2, <2>3, <2>4, <2>5, WipeStays
<1>3. CASE Receive
  BY <1>3, WipeReceive
<1>4. CASE Store
  BY <1>4, WipeStore
<1>5. CASE Snapshot
  <2>1. /\ at.pc = "snap" /\ at'.pc = "idle" /\ UNCHANGED <<script, items, db, used>> /\ wire'.got = wire.got
    BY <1>5 DEF Snapshot, Return, Idle, Typed, IWire
  <2>2. Grows /\ Stored' = Stored
    BY <2>1 DEF Grows, Stored
  <2>3. \A id \in DOMAIN db.rows \ Mine : RowOK(id)'
    BY <2>1, <2>2, RowStays DEF IWipe, Again
  <2> QED BY <2>1, <2>2, <2>3 DEF IWipe, FileId, IsFile
<1>6. CASE Handle \/ HandlerFails
  BY <1>6, WipeText, WipeAttachmentRow, WipeDelete, WipeOtherHandlers DEF Handle
<1>7. CASE DropItems \/ DropMessages
  <2>1. /\ req = "pending" /\ UNCHANGED <<script, wire, used>> /\ at.pc # "store" /\ at'.pc # "store"
        /\ DOMAIN db.rows = {}
    BY <1>7 DEF DropItems, DropMessages, Goto, IGate, IRequest, IPending, Typed, ICall, Call
  <2>2. DOMAIN db'.rows = {} /\ db'.keys \subseteq db.keys
    BY <1>7, <2>1 DEF DropItems, DropMessages, Typed, IDb
  <2>3. items' = items \/ DOMAIN items' = {}
    BY <1>7 DEF DropItems, DropMessages
  <2>4. Stored' = Stored
    BY <2>1 DEF Stored
  <2> QED BY <2>1, <2>2, <2>3, <2>4 DEF IWipe, FileId, IsFile
<1>8. ASSUME NEW id \in Mine, SendDm(id) PROVE IWipe'
  <2>1. /\ at.pc = "idle" /\ UNCHANGED <<script, wire, items, at, used>>
        /\ DOMAIN db'.rows = DOMAIN db.rows \cup {id} /\ db'.files = db.files
        /\ \A x \in DOMAIN db.rows \ {id} : db'.rows[x] = db.rows[x]
        /\ db'.keys = db.keys /\ db'.wipes = db.wipes
    BY <1>8, AddRowAdds DEF SendDm, Typed
  <2>2. Grows
    BY <2>1 DEF Grows
  <2> QED BY <2>1, <2>2, WipeStays
<1>9. ASSUME NEW id \in Mine, UnsendDm(id) PROVE IWipe'
  <2>1. /\ at.pc = "idle" /\ UNCHANGED <<script, wire, items, at, used>>
        /\ DOMAIN db'.rows = DOMAIN db.rows /\ db'.files = db.files
        /\ \A x \in DOMAIN db.rows \ {id} : db'.rows[x] = db.rows[x]
        /\ db'.keys = db.keys /\ db.wipes \subseteq db'.wipes
    BY <1>9, TombstonedMarks DEF UnsendDm, HasRow, Typed
  <2>2. Grows
    BY <2>1 DEF Grows
  <2> QED BY <2>1, <2>2, WipeStays
<1>10. ASSUME NEW id, Cleanup(id) PROVE IWipe'
  <2>1. /\ UNCHANGED <<script, wire, items, at, used>> /\ db'.rows = db.rows /\ db'.files = db.files
        /\ db'.keys = db.keys \ {id} /\ db'.wipes = db.wipes \ {id}
    BY <1>10 DEF Cleanup, Typed, IDb
  <2>2. Grows
    BY <2>1 DEF Grows
  <2>3. ASSUME NEW x \in DOMAIN db'.rows \ Mine PROVE RowOK(x)'
    <3>1. Again(x) => Again(x)'
      BY <2>1 DEF Again, Kept
    <3> QED BY <2>1, <2>2, <2>3, <3>1, RowStays DEF IWipe
  <2>4. Stored' = Stored
    BY <2>1 DEF Stored
  <2> QED BY <2>1, <2>3, <2>4 DEF IWipe, FileId, IsFile
<1>11. CASE Reload
  <2>1. /\ at'.pc = "idle" /\ UNCHANGED <<script, items, db>> /\ used'.reload = used.reload + 1
        /\ at.pc \in ReloadAt /\ used.reload < MaxReload /\ used.reload \in Nat
    BY <1>11 DEF Reload, Return, Idle, Typed, IWire
  <2>2. ~(at.pc = "store" /\ used.reload >= 1)
    BY <2>1, InboundAssumption
  <2>3. Grows
    BY <2>1 DEF Grows
  <2>4. \A id \in DOMAIN db.rows \ Mine : RowOK(id)'
    BY <2>1, <2>2, <2>3, RowStays DEF IWipe, Again
  <2>5. used'.reload # 0
    BY <2>1
  <2> QED BY <2>1, <2>4, <2>5 DEF IWipe, FileId, IsFile
<1> QED BY <1>1, <1>2, <1>3, <1>4, <1>5, <1>6, <1>7, <1>8, <1>9, <1>10, <1>11
        DEF Next, Sync, Decline, User

(* What the peer unsent leaves no plaintext in the stream and no key outside *)
(* of the journal of wipes, whatever step of the tombstone is interrupted:   *)
(* with the event ids of a peer different, and while no second reload falls  *)
(* between the receive of an attachment and its row in the stream.           *)
THEOREM UnsentIsWiped ==
    ASSUME EventIdsDiffer, "store" \notin ReloadAt \/ MaxReload <= 1
    PROVE  InSpec => []UnsentWiped
<1>1. Init => Typed /\ IGate /\ IRow /\ IWipe
  <2>1. Init => IRow /\ IWipe
    BY DEF Init, Idle, IRow, IWipe
  <2> QED BY <2>1, InitTyped, InitGate
<1>2. Typed /\ IGate /\ IRow /\ IWipe /\ [Next]_inVars => Typed' /\ IGate' /\ IRow' /\ IWipe'
  BY TypeStep, GateStep, RowStep, WipeStep
<1>3. Typed /\ IWipe => UnsentWiped
  <2> SUFFICES ASSUME Typed, IWipe, at.pc = "idle", NEW id \in DOMAIN db.rows, Unsent(id),
                      Cardinality(Copies(id)) = 1
               PROVE  Wiped(id)
    BY DEF UnsentWiped
  <2>1. id \notin Mine /\ db.rows[id].gone /\ RowOK(id)
    BY DEF Unsent, FromPeer, Typed, IDb, MessageRow, IWipe
  <2>2. IsFiniteSet(Copies(id))
    <3>1. DOMAIN items = 1 .. Len(items) /\ Len(items) \in Nat
      BY DEF Typed, IItems
    <3>2. IsFiniteSet(DOMAIN items)
      BY <3>1, FS_Interval
    <3> QED BY <3>2, FS_Subset DEF Copies
  <2>3. PICK c : Copies(id) = {c}
    BY <2>2, FS_Singleton
  <2>4. ~items[c].clear
    BY <2>1, <2>3 DEF RowOK, Copies, IdAt
  <2>5. ~Twice(id) /\ ~Again(id)
    BY <2>3 DEF Twice, Again, Copies, IdAt
  <2> QED BY <2>1, <2>3, <2>4, <2>5 DEF RowOK, Wiped, Copies
<1> QED BY <1>1, <1>2, <1>3, PTL DEF InSpec
===============================================================================
