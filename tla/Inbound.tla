-------------------------------- MODULE Inbound --------------------------------
(***************************************************************************)
(* The inbound half of a link to one peer: syncPeerLocked of LinkService.ts *)
(* (gate, receive, store, route, checkpoint), the message request the user  *)
(* accepts or declines, and the handlers of the direct-message kinds.       *)
(*                                                                         *)
(* Every call of this module runs under the queue of the peer, so a call    *)
(* is never interleaved with another one; what may come between two awaits  *)
(* is a reload of the tab, which loses the live ratchet and keeps the       *)
(* database and the key store.                                              *)
(***************************************************************************)
EXTENDS Naturals, Sequences, FiniteSets, SequencesExt

CONSTANTS
    Scripts,    \* what the peer may send, in the order of its ratchet
    Mine,       \* event ids of the messages the user may send
    Faults,     \* what may fail, see FaultNames
    ReloadAt,   \* the points at which the tab may be reloaded
    MaxBatch,   \* messages one receive may return
    MaxReload, MaxError \* the bounds of a run

(* The error of a handler, a wipe the key store refuses, a tag over the rate *)
(* and a deferred delete past its TTL.                                       *)
FaultNames == {"error", "wipe", "rate", "late"}
Kinds == {"text", "attach", "tag", "untag", "delete", "receipt", "read", "quiet", "junk", "drop"}

ASSUME InboundAssumption ==
    /\ Faults \subseteq FaultNames
    /\ MaxBatch \in Nat \ {0} /\ MaxReload \in Nat
    /\ \A s \in Scripts : Len(s) \in Nat /\ DOMAIN s = 1 .. Len(s)
    /\ \A s \in Scripts : \A i \in DOMAIN s : s[i].kind \in Kinds
    /\ \A s \in Scripts : \A i \in DOMAIN s : s[i].id \notin Mine   \* event ids are UUIDs

VARIABLES
    script, \* what this peer sends
    link,   \* the row of the link
    req,    \* the message request
    wire,   \* the ratchet: messages taken live, and in the stored snapshot
    items,  \* link_stream_items
    db,     \* the tables the handlers write, and the key store
    at,     \* where the call under the queue is
    used    \* what the bounds have counted

inVars == <<script, link, req, wire, items, db, at, used>>

Points == {"idle", "ensure", "gate", "route", "saved", "fresh", "owed", "row",
           "wipe", "mark", "receive", "store", "snap", "drop", "clear", "decline"}

Idle == [pc |-> "idle", prior |-> FALSE, req |-> "none", out |-> "idle", next |-> "return",
         work |-> {}, waits |-> FALSE, applied |-> FALSE, got |-> FALSE, fetched |-> 0]

Ids == UNION {{s[i].id : i \in DOMAIN s} : s \in Scripts}

-------------------------------------------------------------------------------
(* The rows                                                                  *)

Row(kind, by) == [kind |-> kind, by |-> by, gone |-> FALSE,
                  state |-> IF by = "me" THEN "sent" ELSE "delivered"]

HasRow(id) == id \in DOMAIN db.rows
FromPeer(id) == HasRow(id) /\ db.rows[id].by = "peer"

AddRow(id, kind, by) ==
    [db EXCEPT !.rows = [x \in DOMAIN db.rows \cup {id} |->
                            IF x = id THEN Row(kind, by) ELSE db.rows[x]]]

(* saveLinkStreamItems gives every item an id of its own, so a message that  *)
(* is received again is a second item.                                       *)
Item(m) == [m |-> m, done |-> FALSE, clear |-> TRUE, failed |-> FALSE]

(* getUnprocessedLinkStreamItems                                             *)
Unprocessed(its) == {i \in DOMAIN its : ~its[i].done}

(* The item the routing loop is at: the oldest of those it still has to do.  *)
Current == Min(at.work)
Msg == script[items[Current].m]
Processed(failed) ==
    [items EXCEPT ![Current] = [items[Current] EXCEPT !.done = TRUE, !.failed = failed]]

(* tombstoneLinkMessage: the row, every copy of the message in the stream    *)
(* and the journal of the wipe, in one transaction.                          *)
Tombstone(row) == [row EXCEPT !.gone = TRUE, !.state = "unsent"]
Tombstoned(id) ==
    [db EXCEPT !.rows = [db.rows EXCEPT ![id] = Tombstone(db.rows[id])],
               !.wipes = IF id \in db.files THEN @ \cup {id} ELSE @]
Redacted(id) ==
    [i \in DOMAIN items |->
        IF script[items[i].m].id = id THEN [items[i] EXCEPT !.clear = FALSE] ELSE items[i]]

(* A tag on a direct message, and the replay of the tags that waited for     *)
(* their target, in the order of their arrival.                              *)
Tagged(tags, m) == IF m.kind = "tag" THEN tags \cup {m.on} ELSE tags \ {m.on}
ReplayedTags == FoldLeft(Tagged, db.tags, SelectSeq(db.late, LAMBDA m : HasRow(m.on)))
StillLate == SelectSeq(db.late, LAMBDA m : ~HasRow(m.on))
Replayed == [db EXCEPT !.tags = ReplayedTags, !.late = StillLate]

(* deferChatTag                                                              *)
Wait(m) == [db EXCEPT !.late = IF m \in ToSet(@) THEN @ ELSE Append(@, m)]

(* upgradeMessageDelivery                                                    *)
Upgraded(id, next) ==
    IF \/ db.rows[id].gone
       \/ db.rows[id].state = "read"
       \/ db.rows[id].state = next
    THEN db
    ELSE [db EXCEPT !.rows = [db.rows EXCEPT ![id] = [db.rows[id] EXCEPT !.state = next]]]

-------------------------------------------------------------------------------
(* Calls that begin                                                          *)

Init ==
    /\ script \in Scripts
    /\ link = "none" /\ req = "none"
    /\ wire = [got |-> 0, saved |-> 0]
    /\ items = <<>>
    /\ db = [rows |-> <<>>, files |-> {}, keys |-> {}, wipes |-> {},
             tags |-> {}, late |-> <<>>, told |-> {}]
    /\ at = Idle
    /\ used = [reload |-> 0, error |-> 0, declined |-> FALSE, torn |-> FALSE]

Goto(pc) == at' = [at EXCEPT !.pc = pc]
Return == at' = Idle

(* syncPeerLocked reads the link and the request before anything else.       *)
Entered(r) == [Idle EXCEPT !.pc = "ensure", !.prior = link # "none", !.req = r]

SyncStart ==
    /\ at.pc = "idle"
    /\ IF req = "declined"
       THEN link' = "none" /\ at' = at
       ELSE at' = Entered(req) /\ UNCHANGED link
    /\ UNCHANGED <<script, req, wire, items, db, used>>

AcceptRequest ==
    /\ at.pc = "idle" /\ req = "pending"
    /\ req' = "accepted"
    /\ at' = Entered("accepted")
    /\ UNCHANGED <<script, link, wire, items, db, used>>

(* sendDm answers a pending request; the send itself is SendPath.            *)
SendDm(id) ==
    /\ at.pc = "idle" /\ ~HasRow(id)
    /\ link' = IF link = "none" THEN "shaking" ELSE link
    /\ req' = IF req = "pending" THEN "accepted" ELSE req
    /\ db' = AddRow(id, "text", "me")
    /\ UNCHANGED <<script, wire, items, at, used>>

UnsendDm(id) ==
    /\ at.pc = "idle" /\ HasRow(id) /\ ~db.rows[id].gone
    /\ db' = Tombstoned(id)
    /\ UNCHANGED <<script, link, req, wire, items, at, used>>

(* Mutant: the request is declined before its rows are dropped.              *)
DeclineFirst ==
    /\ at.pc = "idle" /\ req = "pending"
    /\ link' = "none" /\ req' = "declined"
    /\ Goto("drop")
    /\ used' = [used EXCEPT !.declined = TRUE]
    /\ UNCHANGED <<script, wire, items, db>>

(* declineMessageRequest, one write after the other.                         *)
DeclineStart ==
    /\ at.pc = "idle" /\ req = "pending"
    /\ link' = "none"
    /\ Goto("drop")
    /\ used' = [used EXCEPT !.declined = TRUE]
    /\ UNCHANGED <<script, req, wire, items, db>>

DropItems ==
    /\ at.pc = "drop"
    /\ db' = [db EXCEPT !.keys = @ \ {script[items[i].m].id : i \in DOMAIN items}]
    /\ items' = <<>>
    /\ Goto("clear")
    /\ UNCHANGED <<script, link, req, wire, used>>

DropMessages ==
    /\ at.pc = "clear"
    /\ db' = [db EXCEPT !.rows = <<>>]
    /\ Goto("decline")
    /\ UNCHANGED <<script, link, req, wire, items, used>>

Declined ==
    /\ at.pc = "decline"
    /\ req' = "declined"
    /\ Return
    /\ UNCHANGED <<script, link, wire, items, db, used>>

-------------------------------------------------------------------------------
(* syncPeerLocked                                                            *)

(* ensureLinkLocked writes the row before its last awaits; its own steps are *)
(* those of Handshake.                                                       *)
EnsureWaits ==
    /\ at.pc = "ensure"
    /\ \/ link = "none" /\ link' \in {"none", "shaking"}
       \/ link = "shaking" /\ link' = link
    /\ at' = [at EXCEPT !.pc = "gate",
                        !.out = IF link' = "none" THEN "idle" ELSE "handshaking"]
    /\ UNCHANGED <<script, req, wire, items, db, used>>

(* Mutant: only a finished handshake counts as new.                          *)
NewWhenReady == ~at.prior /\ DOMAIN db.rows = {} /\ at.out = "ready"

EnsureReady ==
    /\ at.pc = "ensure" /\ link # "none"
    /\ link' = "open"
    /\ at' = [at EXCEPT !.pc = "gate", !.out = "ready"]
    /\ UNCHANGED <<script, req, wire, items, db, used>>

NewInbound == ~at.prior /\ DOMAIN db.rows = {} /\ at.out # "idle"

(* What a decision leads to: the keep of a held peer, or the routing.        *)
Hold == at' = [at EXCEPT !.pc = IF at.out = "ready" THEN "receive" ELSE "idle", !.next = "keep"]
Route(its, next) ==
    at' = [at EXCEPT !.pc = "route", !.work = Unprocessed(its), !.next = next,
                     !.waits = FALSE, !.applied = FALSE, !.got = FALSE]

(* Mutant: the items of an earlier call are not swept.                       *)
GateNoSweep ==
    /\ at.pc = "gate"
    /\ IF NewInbound /\ at.req # "accepted"
       THEN req' = (IF req = "declined" THEN req ELSE "pending") /\ Hold
       ELSE /\ UNCHANGED req
            /\ IF at.req = "pending" THEN Hold
               ELSE IF at.out = "ready" THEN at' = [at EXCEPT !.pc = "receive", !.next = "receive"]
               ELSE Return
    /\ UNCHANGED <<script, link, wire, items, db, used>>

Gate ==
    /\ at.pc = "gate"
    /\ IF NewInbound /\ at.req # "accepted"
       THEN req' = (IF req = "declined" THEN req ELSE "pending") /\ Hold
       ELSE /\ UNCHANGED req
            /\ IF at.req = "pending" THEN Hold
               ELSE Route(items, IF at.out = "ready" THEN "receive" ELSE "return")
    /\ UNCHANGED <<script, link, wire, items, db, used>>

(* Mutant: the snapshot is stored before the items.                          *)
ReceiveCheckpoints ==
    /\ at.pc = "receive"
    /\ \E n \in 0 .. MaxBatch :
         /\ wire.got + n <= Len(script)
         /\ wire' = [got |-> wire.got + n, saved |-> wire.got + n]
         /\ at' = IF n = 0 THEN Idle ELSE [at EXCEPT !.pc = "store", !.fetched = n]
    /\ UNCHANGED <<script, link, req, items, db, used>>

(* receivePrivateMessages moves the live ratchet; prepareInboundStreamItems  *)
(* puts the keys of the attachments in the key store.                        *)
Receive ==
    /\ at.pc = "receive"
    /\ \E n \in 0 .. MaxBatch :
         LET new == wire.got + 1 .. wire.got + n IN
         /\ wire.got + n <= Len(script)
         /\ wire' = [wire EXCEPT !.got = @ + n]
         /\ db' = [db EXCEPT !.keys = @ \cup
                     {script[i].id : i \in {j \in new : script[j].kind = "attach"}}]
         /\ at' = IF n = 0 THEN Idle ELSE [at EXCEPT !.pc = "store", !.fetched = n]
    /\ UNCHANGED <<script, link, req, items, used>>

(* The messages a receive brought that are kept, and a set of them in order. *)
Kept == {n \in wire.got - at.fetched + 1 .. wire.got : script[n].kind # "drop"}
InOrder(S) ==
    {q \in Bijection(1 .. Cardinality(S), S) : \A i, j \in DOMAIN q : i < j => q[i] < q[j]}

(* saveLinkStreamItems is one transaction; what a held peer sent goes no     *)
(* further than this.  An oversized message of a known kind, or an           *)
(* attachment that is not the sender's, is dropped on arrival.               *)
Store ==
    /\ at.pc = "store"
    /\ \E q \in InOrder(Kept) : items' = items \o [i \in DOMAIN q |-> Item(q[i])]
    /\ IF at.next = "keep" THEN Goto("snap") ELSE Route(items', "snap")
    /\ UNCHANGED <<script, link, req, wire, db, used>>

(* updateLinkSnapshot                                                        *)
Snapshot ==
    /\ at.pc = "snap"
    /\ wire' = [wire EXCEPT !.saved = wire.got]
    /\ Return
    /\ UNCHANGED <<script, link, req, items, db, used>>

-------------------------------------------------------------------------------
(* routeUnprocessedStreamItems                                               *)

NextItem == at' = [at EXCEPT !.pc = "route", !.work = @ \ {Current}]
Routing(kinds) == at.pc = "route" /\ at.work # {} /\ Msg.kind \in kinds
OnlyDb == UNCHANGED <<script, link, req, wire, items, used>>
OnlyItems == UNCHANGED <<script, link, req, wire, db, used>>

(* A pass that left a delete waiting and brought a row goes over the stream  *)
(* again.                                                                    *)
RouteEnd ==
    /\ at.pc = "route" /\ at.work = {}
    /\ IF at.waits /\ at.got THEN Route(items, at.next)
       ELSE IF at.next = "return" THEN Return
       ELSE Goto(at.next)
    /\ UNCHANGED <<script, link, req, wire, items, db, used>>

Mark ==
    /\ at.pc = "mark"
    /\ items' = Processed(FALSE)
    /\ NextItem
    /\ OnlyItems

(* A kind this build does not know stays in the stream.                      *)
RouteUnknown ==
    /\ Routing({"junk"})
    /\ NextItem
    /\ UNCHANGED <<script, link, req, wire, items, db, used>>

(* Typing, edits, pins and invites are only consumed.                        *)
RouteQuiet ==
    /\ Routing({"quiet"})
    /\ Goto("mark")
    /\ OnlyItems /\ UNCHANGED items

RouteText ==
    /\ Routing({"text"})
    /\ IF FromPeer(Msg.id) THEN Goto("mark") /\ UNCHANGED db
       ELSE db' = AddRow(Msg.id, "text", "peer") /\ Goto("saved")
    /\ OnlyDb

MarkText ==
    /\ at.pc = "saved"
    /\ items' = Processed(FALSE)
    /\ at' = [at EXCEPT !.pc = "fresh", !.got = TRUE]
    /\ OnlyItems

ReplayTags ==
    /\ at.pc = "fresh"
    /\ db' = Replayed
    /\ Goto("owed")
    /\ OnlyDb

(* emitReceiptsToAuthor: no receipt to an author who is not accepted.        *)
OweReceipt ==
    /\ at.pc = "owed"
    /\ db' = IF req \in {"none", "accepted"} THEN [db EXCEPT !.told = @ \cup {Msg.id}] ELSE db
    /\ NextItem
    /\ OnlyDb

(* persistDmAttachment: the attachment first, then the row that shows it.    *)
RouteAttachment ==
    /\ Routing({"attach"})
    /\ IF FromPeer(Msg.id) \/ Msg.id \in db.files THEN Goto("mark") /\ UNCHANGED db
       ELSE db' = [db EXCEPT !.files = @ \cup {Msg.id}] /\ Goto("row")
    /\ OnlyDb

SaveAttachmentRow ==
    /\ at.pc = "row"
    /\ db' = AddRow(Msg.id, "attach", "peer")
    /\ at' = [at EXCEPT !.pc = "mark", !.got = TRUE]
    /\ OnlyDb

(* applyTagEnvelope                                                          *)
RouteTag ==
    /\ Routing({"tag", "untag"})
    /\ \/ ~HasRow(Msg.on) /\ db' = Wait(Msg)
       \/ HasRow(Msg.on) /\ db' = [db EXCEPT !.tags = Tagged(@, Msg)]
       \/ HasRow(Msg.on) /\ Msg.kind = "tag" /\ "rate" \in Faults /\ UNCHANGED db
    /\ Goto("mark")
    /\ OnlyDb

(* applyReceiptEnvelope: only the user's own rows are upgraded.              *)
RouteReceipt ==
    /\ Routing({"receipt", "read"})
    /\ db' = IF HasRow(Msg.on) /\ db.rows[Msg.on].by = "me"
             THEN Upgraded(Msg.on, IF Msg.kind = "read" THEN "read" ELSE "delivered") ELSE db
    /\ Goto("mark")
    /\ OnlyDb

(* applyDeleteEnvelope: without its target a delete waits in the stream      *)
(* until its TTL.                                                            *)
RouteDeleteEarly ==
    /\ Routing({"delete"}) /\ ~HasRow(Msg.on)
    /\ \/ at' = [at EXCEPT !.work = @ \ {Current}, !.waits = TRUE]
       \/ "late" \in Faults /\ Goto("mark")
    /\ UNCHANGED <<script, link, req, wire, items, db, used>>

RouteDelete ==
    /\ Routing({"delete"}) /\ HasRow(Msg.on)
    /\ IF FromPeer(Msg.on) /\ ~db.rows[Msg.on].gone
       THEN /\ db' = Tombstoned(Msg.on) /\ items' = Redacted(Msg.on)
            /\ at' = [at EXCEPT !.pc = "wipe", !.applied = TRUE]
       ELSE Goto("mark") /\ UNCHANGED <<db, items>>
    /\ UNCHANGED <<script, link, req, wire, used>>

(* Mutant: the journal forgets a wipe that failed.                           *)
WipeForgotten ==
    /\ at.pc = "wipe"
    /\ \/ db' = [db EXCEPT !.keys = @ \ ({Msg.on} \cap db.wipes), !.wipes = @ \ {Msg.on}]
       \/ "wipe" \in Faults /\ db' = [db EXCEPT !.wipes = @ \ {Msg.on}]
    /\ Goto("mark")
    /\ OnlyDb

(* The key of an unsent attachment; a wipe that fails stays in the journal.  *)
WipeKey ==
    /\ at.pc = "wipe"
    /\ \/ db' = [db EXCEPT !.keys = @ \ ({Msg.on} \cap db.wipes), !.wipes = @ \ {Msg.on}]
       \/ "wipe" \in Faults /\ UNCHANGED db
    /\ Goto("mark")
    /\ OnlyDb

(* retryPendingCleanup, which runs when a session is restored.               *)
Cleanup(id) ==
    /\ id \in db.wipes
    /\ db' = [db EXCEPT !.keys = @ \ {id}, !.wipes = @ \ {id}]
    /\ UNCHANGED <<script, link, req, wire, items, at, used>>

(* The catch of the loop: an error of a handler is written on its item.      *)
HandlerFails ==
    /\ "error" \in Faults /\ used.error < MaxError
    /\ \/ Routing(Kinds \ {"junk"})
       \/ at.pc \in {"saved", "fresh", "owed", "row"}
    /\ items' = Processed(TRUE)
    /\ NextItem
    /\ used' = [used EXCEPT !.error = @ + 1]
    /\ UNCHANGED <<script, link, req, wire, db>>

(* The link of a peer nobody wrote to is stored, its request is not yet.     *)
Ungated == at.pc = "gate" /\ NewInbound /\ req = "none"

(* A reload, or an error of the wasm that ends the call: the handle is       *)
(* restored from the snapshot the next time.  The field torn is history: a   *)
(* reload came before the gate had made a request of a stranger.             *)
Reload ==
    /\ at.pc \in ReloadAt /\ used.reload < MaxReload
    /\ wire' = [wire EXCEPT !.got = wire.saved]
    /\ Return
    /\ used' = [used EXCEPT !.reload = @ + 1, !.torn = @ \/ Ungated]
    /\ UNCHANGED <<script, link, req, items, db>>

-------------------------------------------------------------------------------
Sync == EnsureWaits \/ EnsureReady \/ Gate \/ Receive \/ Store \/ Snapshot
Decline == DeclineStart \/ DropItems \/ DropMessages \/ Declined
Handle == \/ RouteUnknown \/ RouteQuiet \/ RouteText \/ MarkText \/ ReplayTags \/ OweReceipt
          \/ RouteAttachment \/ SaveAttachmentRow \/ RouteTag \/ RouteReceipt
          \/ RouteDeleteEarly \/ RouteDelete \/ WipeKey \/ Mark \/ RouteEnd
User == AcceptRequest \/ \E id \in Mine : SendDm(id) \/ UnsendDm(id)

Next ==
    \/ SyncStart \/ Sync \/ Handle \/ Decline \/ User
    \/ \E id \in Ids : Cleanup(id)
    \/ HandlerFails \/ Reload

InSpec == Init /\ [][Next]_inVars

(* The inbox is polled, every step of a call returns, and a peer that waits  *)
(* for the user's half of the handshake ends it sooner or later.             *)
InFairSpec ==
    /\ InSpec
    /\ WF_inVars(SyncStart) /\ WF_inVars(Sync) /\ WF_inVars(Handle)
    /\ WF_inVars(DropItems \/ DropMessages \/ Declined)
    /\ SF_inVars(EnsureReady)
    /\ SF_inVars(Receive /\ at'.pc = "store")

(* Properties                                                                *)

InTypeOK ==
    /\ link \in {"none", "shaking", "open"}
    /\ req \in {"none", "pending", "accepted", "declined"}
    /\ wire.saved <= wire.got /\ wire.got <= Len(script)
    /\ \A i \in DOMAIN items : items[i].m \in 1 .. wire.got \cup 1 .. Len(script)
    /\ DOMAIN db.rows \subseteq Ids \cup Mine /\ db.files \cup db.keys \subseteq Ids
    /\ db.wipes \subseteq db.files
    /\ at.pc \in Points /\ used.reload \in 0 .. MaxReload

(* A stranger's first message never opens a conversation (wotGate.ts:13):     *)
(* nothing the peer sent is shown before the user accepted it or wrote to it, *)
(* although a reload may fall between any two writes.  The one exception is   *)
(* a reload, or an error, after ensureLinkLocked stored the link and before   *)
(* holdAsMessageRequest stored the request: the next sync finds a link and    *)
(* passes the gate (LinkService.ts:2446), so that NoStrangerEver is false.    *)
Consented == req = "accepted" \/ \E id \in DOMAIN db.rows : db.rows[id].by = "me"
Shown == (\E id \in DOMAIN db.rows : db.rows[id].by = "peer") \/ db.files # {} \/ db.tags # {}
NoStrangerEver == Shown => Consented
NoStrangerShown == NoStrangerEver \/ used.torn

(* The stored snapshot never runs ahead of the stream: what a restored        *)
(* ratchet will not give again has been stored (saveLinkStreamItems before    *)
(* updateLinkSnapshot, in the routed and in the held path).                   *)
CheckpointCovered ==
    ~used.declined =>
        \A n \in 1 .. wire.saved :
            script[n].kind = "drop" \/ \E i \in DOMAIN items : items[i].m = n

(* What the peer unsent leaves no plaintext in the stream, and no key that    *)
(* is not in the journal of wipes, whatever step of the tombstone a reload or *)
(* the key store interrupts.                                                  *)
Unsent(id) == FromPeer(id) /\ db.rows[id].gone
Wiped(id) ==
    /\ id \notin db.keys \ db.wipes
    /\ \A i \in DOMAIN items : script[items[i].m].id = id => ~items[i].clear
Copies(id) == {i \in DOMAIN items : script[items[i].m].id = id}
UnsentWiped ==
    at.pc = "idle" =>
        \A id \in DOMAIN db.rows : Unsent(id) /\ Cardinality(Copies(id)) = 1 => Wiped(id)

(* The same of a message the peer's ratchet gave twice (docs/chat/kinds-v1.md *)
(* asks it of every stream row of the target).                                *)
UnsentStaysWiped == at.pc = "idle" => \A id \in DOMAIN db.rows : Unsent(id) => Wiped(id)

(* A declined peer leaves neither rows nor held items, although the decline   *)
(* is five writes and a reload may fall between any two of them.              *)
DeclineLeavesNothing ==
    req = "declined" => items = <<>> /\ ~\E id \in DOMAIN db.rows : FromPeer(id)

(* A row that was unsent is never shown again, although its message may be    *)
(* received and routed a second time.                                         *)
UnsentStays ==
    [][\A id \in DOMAIN db.rows :
          db.rows[id].gone => id \notin DOMAIN db'.rows \/ db'.rows[id].gone]_inVars

(* Every text of an accepted peer is shown in the end, also what was held     *)
(* before the user accepted and what a reload interrupted, unless its handler *)
(* failed and the stream says so.                                             *)
Failed(id) == \E i \in Copies(id) : items[i].failed
Arrives ==
    \A id \in Ids :
        (/\ \E n \in DOMAIN script : script[n].id = id /\ script[n].kind = "text"
         /\ req = "accepted" /\ ~used.declined)
        ~> (HasRow(id) \/ Failed(id))

===============================================================================
