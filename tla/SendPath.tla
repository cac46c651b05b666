------------------------------- MODULE SendPath -------------------------------
(***************************************************************************)
(* The outbound path of one Encrypted Link: everything LinkService writes  *)
(* to one peer for one owner.  Every write is a row of delivery_queue      *)
(* first; it is encrypted at the link's current Noise position, put to the *)
(* homeserver slot of that position and, once the put is confirmed,        *)
(* finalized in one SQL transaction.  A put whose answer is lost may have  *)
(* committed although the ratchet did not advance.                         *)
(*                                                                         *)
(* One mutex per peer (withQueue) serializes direct messages, fan-out      *)
(* sends, queue deliveries, unsend, heal, reset and the inbound sync that  *)
(* applies receipts; control messages are dispatched outside it.           *)
(***************************************************************************)
EXTENDS Integers, Sequences, FiniteSets

CONSTANTS
    Dms,          \* direct messages this device composes
    Fanouts,      \* group messages queued for this peer
    SlowFanouts,  \* the fan-outs that await a key fingerprint between their
                  \* time stamp and their insertion (attachments)
    Controls,     \* control messages: receipts, tags, deletes
    Restored,     \* the direct messages that a backup may bring back as `sending`
    Faults,       \* the events of the environment that may happen
    MaxAttempts,  \* RetryQueue.MAX_ATTEMPTS
    MaxNonce,     \* bound: Noise positions used per epoch
    MaxEpoch,     \* bound: number of link re-keys
    MaxPasses,    \* bound: deliveries of one item waiting for the mutex
    MaxCrash      \* bound: restarts

Msg == Dms \cup Fanouts \cup Controls
NoMsg == "empty"

FaultNames == {"tail_loss", "finalize_fails", "receipt", "control", "unsend", "reset", "heal",
               "age", "rekey", "claim_expires"}

ASSUME KindsAssumption ==
    /\ NoMsg \notin Msg
    /\ Dms \cap Fanouts = {}
    /\ Dms \cap Controls = {}
    /\ Fanouts \cap Controls = {}
    /\ SlowFanouts \subseteq Fanouts
    /\ Restored \subseteq Dms
    /\ Faults \subseteq FaultNames

ASSUME BoundsAssumption ==
    /\ MaxAttempts \in Nat \ {0}
    /\ MaxNonce \in Nat
    /\ MaxEpoch \in Nat
    /\ MaxPasses \in Nat
    /\ MaxCrash \in Nat

Pos == (0 .. MaxEpoch) \X (0 .. MaxNonce)   \* epoch of the link, Noise nonce
NoPos == <<-1, 0>>
RowStates == {"none", "sending", "failed", "sent", "delivered", "unsent"}
Next1(p) == <<p[1], p[2] + 1>>

VARIABLES
    row,       \* link_messages / group_messages: delivery_state
    queue,     \* delivery_queue: the messages that have an item
    attempts,  \* delivery_queue.attempts
    snap,      \* links.snapshot: the persisted position
    disk,      \* the image of these four that IndexedDB holds
    stamp,     \* delivery_queue.created_at
    clock,     \* the next time stamp
    aged,      \* items older than MAX_AGE_MS
    live,      \* the in-memory link handle: its position
    epoch,     \* the last Noise session established with the peer
    stack,     \* the delivery that holds the mutex; nested deliveries on top
    claims,    \* drainItemClaims
    waiting,   \* claimed deliveries that wait for the mutex
    pending,   \* fan-outs stamped but not inserted, or inserted but not tried
    healing,   \* messages the heal listed as owed and has not yet looked up
    ctl,       \* control messages dispatched outside the mutex
    wrote,     \* history: the plaintexts encrypted at each position
    hs,        \* the homeserver slots the peer reads
    crashes

dbVars   == <<row, queue, attempts, snap>>
timeVars == <<stamp, clock, aged>>
linkVars == <<live, epoch>>
passVars == <<claims, waiting>>
laterVars == <<pending, healing>>
netVars  == <<wrote, hs>>
vars == <<dbVars, disk, timeVars, linkVars, stack, passVars, laterVars, ctl,
          netVars, crashes>>

Db == [row |-> row, queue |-> queue, attempts |-> attempts, snap |-> snap]

-----------------------------------------------------------------------------
(* compareQueueItemAge.  Stamps are distinct: the random id that breaks a   *)
(* tie of two Date.now() values is not modelled.                            *)
OlderNotFailed(m) ==
    {x \in queue : stamp[x] < stamp[m] /\ row[x] # "failed"}
Older(m) == {x \in queue : stamp[x] < stamp[m]}
IsOldest(x, S) == x \in S /\ \A y \in S : stamp[x] <= stamp[y]

Frame(k, m, ph, todo) ==
    [k |-> k, m |-> m, ph |-> ph, todo |-> todo, pos |-> <<0, 0>>]
Top  == stack[1]
Base == stack[Len(stack)]
Free == stack = <<>>
Replace(s, f) == [s EXCEPT ![1] = f]
To(ph, todo) == Replace(stack, [Top EXCEPT !.ph = ph, !.todo = todo])

(* requireEstablishedHandle: the handle is taken before the last re-scan.   *)
WithHandle(p, todo) ==
    Replace(stack, [Top EXCEPT !.ph = "drain2", !.todo = todo, !.pos = p])

(* Mutants of Settled: `failed` taken for settled; the direct arm without    *)
(* its re-check; unsent taken for owed; a fan-out whose item left the       *)
(* queue taken for owed.                                                    *)
FanoutSettled(m) ==
    m \in Fanouts /\ (row[m] \in {"none", "sent", "delivered"} \/ m \notin queue)
SettledWhenFailed(m) == (m \in Dms /\ row[m] # "sending") \/ FanoutSettled(m)
SettledFanoutOnly(m) == FanoutSettled(m)

(* isDeliveryOwed and the sent-state re-checks of the two payload kinds.    *)
Settled(m) ==
    \/ m \in Dms /\ row[m] \notin {"sending", "failed"}
    \/ FanoutSettled(m)

(* The claims a finished delivery releases (the finally blocks).            *)
HeldClaims == {stack[i].m : i \in {j \in DOMAIN stack : stack[j].k = "deliver"}}

(* markFailed: a group row fails only when no other recipient is owed.      *)
FailedRows(m) ==
    IF m \in Dms THEN {[row EXCEPT ![m] = "failed"]}
    ELSE IF m \in Fanouts /\ row[m] \notin {"sent", "delivered"}
         THEN {row, [row EXCEPT ![m] = "failed"]}
         ELSE {row}

(* The caller of an unsuccessful drain: a live send shows its row failed,   *)
(* every other caller leaves its own item for a later pass.                 *)
BlockedRow(r) == IF Base.k = "send" THEN [r EXCEPT ![Base.m] = "failed"] ELSE r

Unwind(r) ==
    /\ row' = IF Len(stack) > 1 THEN BlockedRow(r) ELSE r
    /\ stack' = <<>>
    /\ claims' = claims \ HeldClaims

Pop(m) ==
    /\ stack' = IF Len(stack) = 1 THEN <<>>
                ELSE Replace(Tail(stack), [stack[2] EXCEPT !.todo = @ \ {m}])
    /\ claims' = IF Top.k = "deliver" THEN claims \ {m} ELSE claims

Insert(m) ==
    /\ queue' = queue \cup {m}
    /\ stamp' = [stamp EXCEPT ![m] = clock]
    /\ clock' = clock + 1

-----------------------------------------------------------------------------
Init ==
    /\ row = [m \in Msg |-> "none"]
    /\ queue = {}
    /\ attempts = [m \in Msg |-> 0]
    /\ snap = <<0, 0>>
    /\ disk = Db
    /\ stamp = [m \in Msg |-> 0]
    /\ clock = 1
    /\ aged = {}
    /\ live = NoPos
    /\ epoch = 0
    /\ stack = <<>>
    /\ claims = {}
    /\ waiting = [m \in Msg |-> 0]
    /\ pending = {}
    /\ healing = {}
    /\ ctl = [c \in Controls |-> Frame("idle", c, "idle", {})]
    /\ wrote = {}
    /\ hs = [p \in Pos |-> NoMsg]
    /\ crashes = 0

-----------------------------------------------------------------------------
(* ensureLinkLocked answering `ready`: the live handle, a restore from the  *)
(* persisted snapshot, or a new Noise session (first handshake after a      *)
(* reset, or an adopted re-key).                                            *)
LinkReadyKeepsHandle ==   \* mutant: an adopted re-key leaves the old handle live
    \/ live # NoPos /\ UNCHANGED <<live, epoch, snap>>
    \/ live = NoPos /\ snap # NoPos /\ live' = snap /\ UNCHANGED <<epoch, snap>>
    \/ /\ snap = NoPos \/ "rekey" \in Faults
       /\ epoch < MaxEpoch
       /\ epoch' = epoch + 1
       /\ live' = IF live = NoPos THEN <<epoch + 1, 0>> ELSE live
       /\ snap' = <<epoch + 1, 0>>

LinkReady ==
    \/ live # NoPos /\ UNCHANGED <<live, epoch, snap>>
    \/ live = NoPos /\ snap # NoPos /\ live' = snap /\ UNCHANGED <<epoch, snap>>
    \/ /\ snap = NoPos \/ "rekey" \in Faults
       /\ epoch < MaxEpoch
       /\ epoch' = epoch + 1
       /\ live' = <<epoch + 1, 0>>
       /\ snap' = <<epoch + 1, 0>>

(* sendDm and sendPreparedMessage enter the mutex.                          *)
SendStart(m) ==
    /\ Free
    /\ m \in Dms
    /\ row[m] = "none"
    /\ stack' = <<Frame("send", m, "ensure", {})>>
    /\ UNCHANGED <<dbVars, disk, timeVars, linkVars, passVars, laterVars, ctl, netVars, crashes>>

(* The link decides: not sendable (the call throws, nothing is persisted),  *)
(* still handshaking (persisted for a later pass), or ready.                *)
SendEnsure ==
    /\ ~Free /\ Top.k = "send" /\ Top.ph = "ensure"
    /\ \/ /\ stack' = <<>>
          /\ UNCHANGED <<row, queue, snap, stamp, clock, linkVars>>
       \/ /\ row' = [row EXCEPT ![Top.m] = "sending"]
          /\ Insert(Top.m)
          /\ stack' = <<>>
          /\ UNCHANGED <<snap, linkVars>>
       \/ /\ LinkReady
          /\ stack' = To("persist", {})
          /\ UNCHANGED <<row, queue, stamp, clock>>
    /\ UNCHANGED <<attempts, disk, aged, passVars, laterVars, ctl, netVars, crashes>>

(* persistLinkSendIntent: the row and its queue item in one transaction.    *)
SendPersist ==
    /\ ~Free /\ Top.ph = "persist"
    /\ row' = [row EXCEPT ![Top.m] = "sending"]
    /\ Insert(Top.m)
    /\ stack' = To("drain1", queue)
    /\ UNCHANGED <<attempts, snap, disk, aged, linkVars, passVars, laterVars, ctl, netVars, crashes>>

(* Group fan-out: the queue item is stamped and inserted outside the mutex, *)
(* then sendPersistedLinkJson enters it.                                    *)
FanoutPersist(m) ==
    /\ m \in Fanouts \ SlowFanouts
    /\ row[m] = "none"
    /\ row' = [row EXCEPT ![m] = "sending"]
    /\ Insert(m)
    /\ pending' = pending \cup {m}
    /\ UNCHANGED healing
    /\ UNCHANGED <<attempts, snap, disk, aged, linkVars, stack, passVars, ctl, netVars, crashes>>

FanoutStamp(m) ==
    /\ m \in SlowFanouts \ pending
    /\ row[m] = "none"
    /\ stamp' = [stamp EXCEPT ![m] = clock]
    /\ clock' = clock + 1
    /\ pending' = pending \cup {m}
    /\ UNCHANGED healing
    /\ UNCHANGED <<dbVars, disk, aged, linkVars, stack, passVars, ctl, netVars, crashes>>

FanoutInsert(m) ==
    /\ m \in SlowFanouts \cap pending
    /\ row[m] = "none"
    /\ row' = [row EXCEPT ![m] = "sending"]
    /\ queue' = queue \cup {m}
    /\ UNCHANGED <<attempts, snap, disk, timeVars, linkVars, stack, passVars, laterVars, ctl,
                   netVars, crashes>>

AttemptStart(m) ==
    /\ Free
    /\ m \in pending
    /\ row[m] # "none"
    /\ pending' = pending \ {m}
    /\ UNCHANGED healing
    /\ stack' = <<Frame("attempt", m, "ensure", {})>>
    /\ UNCHANGED <<dbVars, disk, timeVars, linkVars, passVars, ctl, netVars, crashes>>

(* deliverQueuedPayload of a drain or recover pass: claim the item, then    *)
(* wait for the mutex.  The pass works on a list it read earlier, so the    *)
(* item may have left the queue; passes visit it oldest first, the model in *)
(* any order.                                                               *)
Listed(m) == m \in queue \/ (stamp[m] > 0 /\ (m \in Controls \/ row[m] # "none"))

Claim(m) ==
    /\ Listed(m)
    /\ m \notin claims
    /\ waiting[m] < MaxPasses
    /\ claims' = claims \cup {m}
    /\ waiting' = [waiting EXCEPT ![m] = @ + 1]
    /\ UNCHANGED <<dbVars, disk, timeVars, linkVars, stack, laterVars, ctl, netVars, crashes>>

(* DRAIN_CLAIM_TTL_MS passes: the claim can be taken again.                 *)
ClaimExpires(m) ==
    /\ "claim_expires" \in Faults
    /\ m \in claims
    /\ claims' = claims \ {m}
    /\ UNCHANGED <<dbVars, disk, timeVars, linkVars, stack, waiting, laterVars, ctl, netVars,
                   crashes>>

DeliverStart(m) ==
    /\ Free
    /\ waiting[m] > 0
    /\ waiting' = [waiting EXCEPT ![m] = @ - 1]
    /\ stack' = <<Frame("deliver", m, "drain1", Older(m))>>
    /\ UNCHANGED <<dbVars, disk, timeVars, linkVars, claims, laterVars, ctl, netVars, crashes>>

-----------------------------------------------------------------------------
(* drainOwedSamePeerWritesLocked: deliver the listed older items, oldest    *)
(* first; one that is claimed elsewhere blocks the caller.                  *)
Draining == ~Free /\ Top.ph \in {"drain1", "drain2"}

DrainOlder ==
    /\ Draining
    /\ \E x \in Msg \ claims :
        /\ IsOldest(x, Top.todo)
        /\ claims' = claims \cup {x}
        /\ stack' = <<Frame("deliver", x, "drain1", Older(x))>> \o stack
    /\ UNCHANGED <<dbVars, disk, timeVars, linkVars, waiting, laterVars, ctl, netVars, crashes>>

DrainBlockedLeaks ==   \* mutant: the claims of the blocked deliveries stay
    /\ Draining
    /\ \E x \in claims : IsOldest(x, Top.todo)
    /\ row' = BlockedRow(row)
    /\ stack' = <<>>
    /\ UNCHANGED <<queue, attempts, snap, disk, timeVars, linkVars, passVars, laterVars, ctl,
                   netVars, crashes>>

DrainBlocked ==
    /\ Draining
    /\ \E x \in claims : IsOldest(x, Top.todo)
    /\ row' = BlockedRow(row)
    /\ stack' = <<>>
    /\ claims' = claims \ HeldClaims
    /\ UNCHANGED <<queue, attempts, snap, disk, timeVars, linkVars, waiting, laterVars, ctl,
                   netVars, crashes>>

(* A live send re-scans right before the encrypt.                           *)
Rescan ==
    /\ Draining /\ Top.ph = "drain1" /\ Top.todo = {}
    /\ Top.k \in {"send", "attempt"}
    /\ live # NoPos
    /\ stack' = WithHandle(live, Older(Top.m))
    /\ UNCHANGED <<dbVars, disk, timeVars, linkVars, passVars, laterVars, ctl, netVars, crashes>>

(* deliverQueuedPayloadLocked after its own drain: settle, retire, go on.   *)
Checking == Draining /\ Top.ph = "drain1" /\ Top.todo = {} /\ Top.k = "deliver"

Settle ==
    /\ Checking
    /\ Settled(Top.m)
    /\ queue' = queue \ {Top.m}
    /\ Pop(Top.m)
    /\ UNCHANGED <<row, attempts, snap, disk, timeVars, linkVars, waiting, laterVars, ctl,
                   netVars, crashes>>

Retire ==
    /\ Checking
    /\ ~Settled(Top.m)
    /\ Top.m \in aged \ Controls
    /\ \E r \in FailedRows(Top.m) : Unwind(r)
    /\ UNCHANGED <<queue, attempts, snap, disk, timeVars, linkVars, waiting, laterVars, ctl,
                   netVars, crashes>>

Proceed ==
    /\ Checking
    /\ ~Settled(Top.m)
    /\ Top.m \notin aged \ Controls
    /\ stack' = To("ensure", {})
    /\ UNCHANGED <<dbVars, disk, timeVars, linkVars, passVars, laterVars, ctl, netVars, crashes>>

Ensuring == ~Free /\ Top.ph = "ensure" /\ Top.k # "send"

EnsureReady ==
    /\ Ensuring
    /\ LinkReady
    /\ \/ Top.k = "deliver" /\ stack' = WithHandle(live', Older(Top.m))
       \/ Top.k = "direct" /\ stack' = WithHandle(live', {})
       \/ Top.k = "attempt" /\ Top.m \in queue /\ stack' = To("drain1", Older(Top.m))
       \/ Top.k = "attempt" /\ Top.m \notin queue /\ stack' = <<>>
    /\ UNCHANGED <<row, queue, attempts, disk, timeVars, passVars, laterVars, ctl, netVars, crashes>>

(* Any other outcome; markReconnectRequired also closes the live handle.    *)
EnsureNotReady ==
    /\ Ensuring
    /\ live' \in {live, NoPos}
    /\ Unwind(row)
    /\ UNCHANGED <<queue, attempts, snap, disk, timeVars, epoch, waiting, laterVars, ctl,
                   netVars, crashes>>

(* ensureLinkWith and the inbox sync run ensureLinkLocked too: the link     *)
(* becomes ready, its handle is closed, or a link that never got ready is   *)
(* retired (shouldAgeOutNonReadyLink), which fails every row in flight.     *)
Abandon(r) == [m \in Msg |-> IF m \in Dms /\ r[m] = "sending" THEN "failed" ELSE r[m]]

EnsureLink ==
    /\ Free
    /\ \/ LinkReady /\ UNCHANGED row
       \/ live' = NoPos /\ UNCHANGED <<epoch, snap, row>>
       \/ snap = NoPos /\ row' = Abandon(row) /\ UNCHANGED <<linkVars, snap>>
    /\ UNCHANGED <<queue, attempts, disk, timeVars, stack, passVars, laterVars, ctl, netVars, crashes>>

-----------------------------------------------------------------------------
(* PaykitLinkWeb.sendPrivateMessageJson: withLinkOp allows one operation on *)
(* the handle; the encryption uses the position the handle has now.         *)
LinkOpFree ==
    /\ ~Free => Top.ph # "putting"
    /\ \A c \in Controls : ctl[c].ph # "putting"

Encrypt ==
    /\ Draining /\ Top.ph = "drain2" /\ Top.todo = {}
    /\ live[1] = Top.pos[1]
    /\ live[2] < MaxNonce
    /\ LinkOpFree
    /\ wrote' = wrote \cup {<<live, Top.m>>}
    /\ stack' = Replace(stack, [Top EXCEPT !.ph = "putting", !.pos = live])
    /\ UNCHANGED <<dbVars, disk, timeVars, linkVars, passVars, laterVars, ctl, hs, crashes>>

(* The put is confirmed: only now does the ratchet advance.                 *)
PutOk ==
    /\ ~Free /\ Top.ph = "putting"
    /\ hs' = [hs EXCEPT ![Top.pos] = Top.m]
    /\ live' = IF live = Top.pos THEN Next1(live) ELSE live
    /\ stack' = To("fin", {})
    /\ UNCHANGED <<dbVars, disk, timeVars, epoch, passVars, laterVars, ctl, wrote, crashes>>

(* The put fails, or its answer is lost after the slot was written.         *)
PutOutcomes(p, m) == {hs, [hs EXCEPT ![p] = m]}

(* A transient error (`unavailable`, `network`) leaves the item for later.  *)
PutTransient ==
    /\ ~Free /\ Top.ph = "putting"
    /\ hs' \in PutOutcomes(Top.pos, Top.m)
    /\ Unwind(row)
    /\ UNCHANGED <<queue, attempts, snap, disk, timeVars, linkVars, waiting, laterVars, ctl,
                   wrote, crashes>>

(* Any other error counts an attempt (RetryQueue.recordFailure parks at the *)
(* cap and the row fails); a control message is held instead, and a         *)
(* protocol error then drops the live handle (holdControlPam).              *)
RecordFailure(m) ==
    IF attempts[m] + 1 >= MaxAttempts
    THEN UNCHANGED attempts /\ \E r \in FailedRows(m) : Unwind(r)
    ELSE attempts' = [attempts EXCEPT ![m] = @ + 1] /\ Unwind(row)

FailTop ==
    \/ Top.k = "deliver" /\ Top.m \notin Controls /\ RecordFailure(Top.m)
    \/ Top.k = "send" /\ UNCHANGED attempts /\ Unwind([row EXCEPT ![Top.m] = "failed"])
    \/ /\ Top.k \in {"attempt", "direct"} \/ Top.m \in Controls
       /\ UNCHANGED attempts
       /\ Unwind(row)

PutRejectedDrops ==   \* mutant: an item at its cap leaves the queue
    /\ ~Free /\ Top.ph = "putting"
    /\ hs' \in PutOutcomes(Top.pos, Top.m)
    /\ FailTop
    /\ live' \in IF Top.m \in Controls THEN {live, NoPos} ELSE {live}
    /\ queue' = IF Top.k = "deliver" /\ attempts' = attempts THEN queue \ {Top.m} ELSE queue
    /\ UNCHANGED <<snap, disk, timeVars, epoch, waiting, laterVars, ctl, wrote, crashes>>

PutRejected ==
    /\ ~Free /\ Top.ph = "putting"
    /\ hs' \in PutOutcomes(Top.pos, Top.m)
    /\ FailTop
    /\ live' \in IF Top.m \in Controls THEN {live, NoPos} ELSE {live}
    /\ UNCHANGED <<queue, snap, disk, timeVars, epoch, waiting, laterVars, ctl, wrote, crashes>>

(* ensureLinkLocked throws, there is no handle, or the handle taken before  *)
(* the re-scan was closed by a re-key.                                      *)
EnsureFailed ==
    /\ \/ Ensuring
       \/ Draining /\ Top.todo = {} /\ Top.ph = "drain1" /\ Top.k # "deliver" /\ live = NoPos
       \/ Draining /\ Top.todo = {} /\ Top.ph = "drain2" /\ live[1] # Top.pos[1]
    /\ FailTop
    /\ live' \in {live, NoPos}
    /\ UNCHANGED <<queue, snap, disk, timeVars, epoch, waiting, laterVars, ctl, netVars, crashes>>

(* UPDATE links SET snapshot: no row, no effect.                            *)
CheckpointEarly(p) == IF snap = NoPos THEN NoPos ELSE p   \* mutant: taken before the put
Checkpoint(p) == IF snap = NoPos THEN NoPos ELSE Next1(p)

(* finalizeLinkSend, finalizeGroupFanoutSend, finalizeControlSend: the new  *)
(* snapshot, the row and the dequeue in one transaction.  A group row       *)
(* becomes `sent` only when this was its last recipient.                    *)
Finalize ==
    /\ ~Free /\ Top.ph = "fin"
    /\ snap' = Checkpoint(Top.pos)
    /\ queue' = queue \ {Top.m}
    /\ row' \in IF Top.m \in Dms THEN {[row EXCEPT ![Top.m] = "sent"]}
                ELSE IF Top.m \in Fanouts THEN {row, [row EXCEPT ![Top.m] = "sent"]}
                ELSE {row}
    /\ Pop(Top.m)
    /\ UNCHANGED <<attempts, disk, timeVars, linkVars, waiting, laterVars, ctl, netVars, crashes>>

(* The transaction is refused (persist failure, stand-down): the error is   *)
(* recorded like any other, unless that write is refused too.               *)
FinalizeFailsLeaks ==   \* mutant: the claims stay when the failure is not recorded
    /\ "finalize_fails" \in Faults
    /\ ~Free /\ Top.ph = "fin"
    /\ \/ FailTop
       \/ stack' = <<>> /\ UNCHANGED <<row, attempts, claims>>
    /\ UNCHANGED <<queue, snap, disk, timeVars, linkVars, waiting, laterVars, ctl, netVars, crashes>>

FinalizeFails ==
    /\ "finalize_fails" \in Faults
    /\ ~Free /\ Top.ph = "fin"
    /\ \/ FailTop
       \/ stack' = <<>> /\ claims' = claims \ HeldClaims /\ UNCHANGED <<row, attempts>>
    /\ UNCHANGED <<queue, snap, disk, timeVars, linkVars, waiting, laterVars, ctl, netVars, crashes>>

-----------------------------------------------------------------------------
(* Control messages: enqueueControlPam, then dispatchPersistedControlPam    *)
(* without the mutex and without the older-owed drain.                      *)
ControlStart(c) ==
    /\ "control" \in Faults
    /\ c \in Controls \ queue
    /\ stamp[c] = 0
    /\ ctl[c].ph = "idle"
    /\ Insert(c)
    /\ ctl' = [ctl EXCEPT ![c].ph = "ensure"]
    /\ UNCHANGED <<row, attempts, snap, disk, aged, linkVars, stack, passVars, laterVars, netVars,
                   crashes>>

ControlReady(c) ==
    /\ ctl[c].ph = "ensure"
    /\ LinkReady
    /\ ctl' = [ctl EXCEPT ![c].ph = "drain2"]
    /\ UNCHANGED <<row, queue, attempts, disk, timeVars, stack, passVars, laterVars, netVars, crashes>>

ControlEncryptAdvances(c) ==   \* mutant: the ratchet advances before the put is confirmed
    /\ ctl[c].ph = "drain2"
    /\ live # NoPos
    /\ live[2] < MaxNonce
    /\ LinkOpFree
    /\ wrote' = wrote \cup {<<live, c>>}
    /\ ctl' = [ctl EXCEPT ![c].ph = "putting", ![c].pos = live]
    /\ live' = Next1(live)
    /\ UNCHANGED <<dbVars, disk, timeVars, epoch, stack, passVars, laterVars, hs, crashes>>

ControlEncrypt(c) ==
    /\ ctl[c].ph = "drain2"
    /\ live # NoPos
    /\ live[2] < MaxNonce
    /\ LinkOpFree
    /\ wrote' = wrote \cup {<<live, c>>}
    /\ ctl' = [ctl EXCEPT ![c].ph = "putting", ![c].pos = live]
    /\ UNCHANGED <<dbVars, disk, timeVars, linkVars, stack, passVars, laterVars, hs, crashes>>

ControlPutOk(c) ==
    /\ ctl[c].ph = "putting"
    /\ hs' = [hs EXCEPT ![ctl[c].pos] = c]
    /\ live' = IF live = ctl[c].pos THEN Next1(live) ELSE live
    /\ ctl' = [ctl EXCEPT ![c].ph = "fin"]
    /\ UNCHANGED <<dbVars, disk, timeVars, epoch, stack, passVars, laterVars, wrote, crashes>>

(* holdControlPam: the item stays; a protocol error drops the live handle.  *)
ControlHold(c) ==
    /\ \/ /\ ctl[c].ph \in {"ensure", "drain2"}
          /\ UNCHANGED <<hs, live>>
       \/ /\ ctl[c].ph = "putting"
          /\ hs' \in PutOutcomes(ctl[c].pos, c)
          /\ live' \in {live, NoPos}
       \/ /\ "finalize_fails" \in Faults
          /\ ctl[c].ph = "fin"
          /\ UNCHANGED <<hs, live>>
    /\ ctl' = [ctl EXCEPT ![c].ph = "idle"]
    /\ UNCHANGED <<dbVars, disk, timeVars, epoch, stack, passVars, laterVars, wrote, crashes>>

ControlFinalize(c) ==
    /\ ctl[c].ph = "fin"
    /\ snap' = Checkpoint(ctl[c].pos)
    /\ queue' = queue \ {c}
    /\ ctl' = [ctl EXCEPT ![c].ph = "idle"]
    /\ UNCHANGED <<row, attempts, disk, timeVars, linkVars, stack, passVars, laterVars, netVars,
                   crashes>>

-----------------------------------------------------------------------------
(* unsendDm: tombstone, drop the message's own item, enqueue the delete and *)
(* dispatch it under the mutex, without the older-owed drain.               *)
Unsend(m, c) ==
    /\ "unsend" \in Faults
    /\ Free
    /\ m \in Dms /\ row[m] \notin {"none", "unsent"}
    /\ c \in Controls \ queue /\ stamp[c] = 0 /\ ctl[c].ph = "idle"
    /\ row' = [row EXCEPT ![m] = "unsent"]
    /\ queue' = (queue \ {m}) \cup {c}
    /\ stamp' = [stamp EXCEPT ![c] = clock]
    /\ clock' = clock + 1
    /\ stack' = <<Frame("direct", c, "ensure", {})>>
    /\ UNCHANGED <<attempts, snap, disk, aged, linkVars, passVars, laterVars, ctl, netVars, crashes>>

(* A delivered receipt: from this peer once the slot holds the message, for *)
(* a group message from any other member at any time.                       *)
Receipt(m) ==
    /\ "receipt" \in Faults
    /\ row[m] \in {"sending", "failed", "sent"}
    /\ \/ m \in Dms /\ Free /\ \E p \in Pos : hs[p] = m
       \/ m \in Fanouts
    /\ row' = [row EXCEPT ![m] = "delivered"]
    /\ UNCHANGED <<queue, attempts, snap, disk, timeVars, linkVars, stack, passVars, laterVars, ctl,
                   netVars, crashes>>

(* A backup brings back a `sending` row without a queue item: a message of   *)
(* an earlier life of the owner, not one this device is composing.          *)
RestoreBackup(m) ==
    /\ m \in Restored
    /\ row[m] = "none" /\ stamp[m] = 0
    /\ \A i \in DOMAIN stack : stack[i].m # m
    /\ row' = [row EXCEPT ![m] = "sending"]
    /\ UNCHANGED <<queue, attempts, snap, disk, timeVars, linkVars, stack, passVars, laterVars, ctl,
                   netVars, crashes>>

(* reconcileLostOwedDeliveries lists the `sending` rows; later, under the    *)
(* mutex, it looks only for an item, not at the row again, and re-enqueues   *)
(* a message that has none at its original time.                            *)
HealList(m) ==
    /\ "heal" \in Faults
    /\ m \in Dms
    /\ row[m] = "sending"
    /\ healing' = healing \cup {m}
    /\ UNCHANGED <<dbVars, disk, timeVars, linkVars, stack, passVars, pending, ctl, netVars, crashes>>

Heal(m) ==
    /\ Free
    /\ m \in healing
    /\ healing' = healing \ {m}
    /\ queue' = queue \cup {m}
    /\ attempts' = IF m \in queue THEN attempts ELSE [attempts EXCEPT ![m] = 0]
    /\ UNCHANGED <<row, snap, disk, timeVars, linkVars, stack, passVars, pending, ctl, netVars,
                   crashes>>

(* resetEncryptedLink: retireLocalLinkState when there is a link, then drop *)
(* the queue and abandon the owed rows in one transaction.  A group row     *)
(* fails unless another recipient is still owed.                            *)
ResetRetire ==
    /\ "reset" \in Faults
    /\ Free
    /\ IF snap = NoPos THEN UNCHANGED <<live, snap, row>>
       ELSE live' = NoPos /\ snap' = NoPos /\ row' = Abandon(row)
    /\ stack' = <<Frame("reset", NoMsg, "drop", {})>>
    /\ UNCHANGED <<queue, attempts, disk, timeVars, epoch, passVars, laterVars, ctl, netVars, crashes>>

ResetDropRowsLeft ==   \* mutant: the rows of the dropped items stay as they are
    /\ ~Free /\ Top.k = "reset"
    /\ queue' = {}
    /\ stack' = <<>>
    /\ UNCHANGED <<row, attempts, snap, disk, timeVars, linkVars, passVars, laterVars, ctl, netVars,
                   crashes>>

ResetDrop ==
    /\ ~Free /\ Top.k = "reset"
    /\ queue' = {}
    /\ \E settled \in SUBSET (Fanouts \cap queue) :
        row' = [m \in Msg |-> IF m \in settled /\ row[m] = "sending" THEN "failed"
                              ELSE Abandon(row)[m]]
    /\ stack' = <<>>
    /\ UNCHANGED <<attempts, snap, disk, timeVars, linkVars, passVars, laterVars, ctl, netVars, crashes>>

(* Twenty-four hours pass for an item; an older one is never the younger.   *)
Age(m) ==
    /\ "age" \in Faults
    /\ m \in queue \ aged
    /\ Older(m) \subseteq aged
    /\ aged' = aged \cup {m}
    /\ UNCHANGED <<dbVars, disk, stamp, clock, linkVars, stack, passVars, laterVars, ctl, netVars,
                   crashes>>

-----------------------------------------------------------------------------

(* persistNow: every commit starts a put of the database image; the send    *)
(* does not wait for it.                                                    *)
Flush ==
    /\ "tail_loss" \in Faults
    /\ disk # Db
    /\ disk' = Db
    /\ UNCHANGED <<dbVars, timeVars, linkVars, stack, passVars, laterVars, ctl, netVars, crashes>>

(* The page goes away and is loaded again: memory is gone, the database is  *)
(* the last image written (or the last commit when no tail can be lost); a  *)
(* put in flight may still commit.                                          *)
InFlight ==
    {<<ctl[c].pos, c>> : c \in {d \in Controls : ctl[d].ph = "putting"}} \cup
    (IF ~Free /\ Top.ph = "putting" THEN {<<Top.pos, Top.m>>} ELSE {})

Crash ==
    /\ crashes < MaxCrash
    /\ crashes' = crashes + 1
    /\ IF "tail_loss" \in Faults
       THEN /\ row' = disk.row /\ queue' = disk.queue
            /\ attempts' = disk.attempts /\ snap' = disk.snap
       ELSE UNCHANGED dbVars
    /\ hs' \in {hs} \cup {[hs EXCEPT ![f[1]] = f[2]] : f \in InFlight}
    /\ live' = NoPos
    /\ stack' = <<>>
    /\ claims' = {}
    /\ waiting' = [m \in Msg |-> 0]
    /\ pending' = {}
    /\ healing' = {}
    /\ ctl' = [c \in Controls |-> Frame("idle", c, "idle", {})]
    /\ UNCHANGED <<disk, timeVars, epoch, wrote>>

Next ==
    \/ \E m \in Msg :
        \/ SendStart(m) \/ FanoutPersist(m) \/ FanoutStamp(m) \/ FanoutInsert(m)
        \/ AttemptStart(m) \/ Claim(m) \/ ClaimExpires(m) \/ DeliverStart(m)
        \/ Receipt(m) \/ RestoreBackup(m) \/ HealList(m) \/ Heal(m) \/ Age(m)
    \/ \E m \in Dms, c \in Controls : Unsend(m, c)
    \/ \E c \in Controls :
        \/ ControlStart(c) \/ ControlReady(c) \/ ControlEncrypt(c)
        \/ ControlPutOk(c) \/ ControlHold(c) \/ ControlFinalize(c)
    \/ SendEnsure \/ SendPersist \/ DrainOlder \/ DrainBlocked \/ Rescan
    \/ Settle \/ Retire \/ Proceed
    \/ EnsureReady \/ EnsureNotReady \/ EnsureFailed \/ EnsureLink
    \/ Encrypt \/ PutOk \/ PutTransient \/ PutRejected
    \/ Finalize \/ FinalizeFails
    \/ ResetRetire \/ ResetDrop
    \/ Flush \/ Crash

Spec == Init /\ [][Next]_vars

(* The event loop runs what can run; the mutex is a promise chain, so who   *)
(* waits gets it; passes come back on a timer and on every visibility       *)
(* change; and the link is ready and a put confirmed infinitely often when  *)
(* tried infinitely often (the network is not down for good).               *)
Fairness ==
    /\ WF_vars(SendEnsure \/ SendPersist \/ DrainOlder \/ DrainBlocked \/ Rescan \/ Settle
               \/ Retire \/ Proceed \/ EnsureNotReady \/ EnsureFailed \/ Encrypt \/ PutTransient
               \/ Finalize \/ ResetDrop)
    /\ \A m \in Msg : SF_vars(Claim(m)) /\ SF_vars(DeliverStart(m)) /\ SF_vars(AttemptStart(m))
    /\ SF_vars(EnsureReady)
    /\ SF_vars(PutOk)

FairSpec == Spec /\ Fairness

-----------------------------------------------------------------------------
(* Every variable has its type.                                             *)
FrameType ==
    [k : {"send", "attempt", "deliver", "direct", "reset", "idle"}, m : Msg \cup {NoMsg},
     ph : {"idle", "ensure", "persist", "drain1", "drain2", "putting", "fin", "drop"},
     todo : SUBSET Msg, pos : Pos]

FrameOK(f) ==
    /\ f.k # "idle" /\ f.ph # "idle"
    /\ f.k = "reset" <=> f.m = NoMsg
    /\ f.k = "reset" <=> f.ph = "drop"
    /\ f.k = "send" => f.m \in Dms
    /\ f.ph = "persist" => f.k = "send"
    /\ f.k = "attempt" => f.m \in Fanouts
    /\ f.k = "direct" => f.m \in Controls
    /\ f.ph \in {"putting", "fin"} => f.pos[2] < MaxNonce

TypeOK ==
    /\ row \in [Msg -> RowStates]
    /\ queue \subseteq Msg
    /\ attempts \in [Msg -> 0 .. MaxAttempts - 1]
    /\ snap \in Pos \cup {NoPos}
    /\ disk \in [row : [Msg -> RowStates], queue : SUBSET Msg,
                 attempts : [Msg -> 0 .. MaxAttempts - 1], snap : Pos \cup {NoPos}]
    /\ stamp \in [Msg -> Nat]
    /\ clock \in Nat
    /\ aged \subseteq Msg
    /\ live \in Pos \cup {NoPos}
    /\ epoch \in 0 .. MaxEpoch
    /\ stack \in Seq(FrameType)
    /\ \A i \in DOMAIN stack : FrameOK(stack[i])
    /\ claims \subseteq Msg
    /\ waiting \in [Msg -> 0 .. MaxPasses]
    /\ pending \subseteq Fanouts
    /\ healing \subseteq Dms
    /\ ctl \in [Controls -> FrameType]
    /\ \A c \in Controls : ctl[c].ph \in {"putting", "fin"} => ctl[c].pos[2] < MaxNonce
    /\ wrote \subseteq Pos \X Msg
    /\ hs \in [Pos -> Msg \cup {NoMsg}]
    /\ crashes \in 0 .. MaxCrash

(* DECISIONS R2-F1: never encrypt a second plaintext at a nonce a prior     *)
(* undelivered write already used, whatever was retried, restored or lost.  *)
NonceOnce == \A x, y \in wrote : x[1] = y[1] => x[2] = y[2]

(* A direct message shown as sent or delivered is still in a slot of the    *)
(* homeserver: nothing overwrote it before the peer could read it.          *)
SentIsReadable ==
    \A m \in Dms : row[m] \in {"sent", "delivered"} => \E p \in Pos : hs[p] = m

(* A row that is `sending` always has the queue item the drains look for,   *)
(* in memory and in the image a restart comes back to; only a row that a     *)
(* backup brought back has none until the heal finds it.                    *)
OwedIsQueued(d) == \A m \in Dms : stamp[m] > 0 /\ d.row[m] = "sending" => m \in d.queue
OwedHasItem == OwedIsQueued(Db) /\ OwedIsQueued(disk)

(* The peer reads slots in order and stops at the first empty one: no       *)
(* position is written before its predecessor.                              *)
NoGaps ==
    \A p \in Pos : hs[p] # NoMsg /\ p[2] > 0 => hs[<<p[1], p[2] - 1>>] # NoMsg

(* A claim never outlives the delivery that took it: it would block every   *)
(* send to the peer until it expires.                                       *)
ClaimsHaveOwners == \A m \in claims : waiting[m] > 0 \/ m \in HeldClaims

(* A direct message that is sent, delivered or unsent is never encrypted    *)
(* again: not by a stale pass, a stolen claim or a late retry.              *)
SettledNeverEncrypted ==
    [][\A x \in wrote' \ wrote :
          x[2] \in Dms => row[x[2]] \notin {"sent", "delivered", "unsent"}]_vars

(* A plaintext is encrypted only when every other queued write of the peer  *)
(* is younger, also when a nested delivery, a handshake or an insertion     *)
(* came between the scan and the encrypt.                                   *)
OldestFirst ==
    [][\A x \in wrote' \ wrote : \A y \in queue \ {x[2]} : stamp[x[2]] < stamp[y]]_vars

(* Only a queued write is encrypted: were the put ambiguous, the item would *)
(* make every later send repeat it first.  Reset drops the items, and what  *)
(* was abandoned stays abandoned.                                           *)
EncryptedIsQueued ==
    [][\A x \in wrote' \ wrote : x[2] \in queue]_vars

(* R4-F3, R4-F4: `failed` is terminal for the heal.  A failed row without an *)
(* item never gets one again.                                               *)
HealNeverRevives == [][\A m \in queue' \ queue : row[m] # "failed"]_vars

(* An item leaves the queue only when its write reached the homeserver, or  *)
(* the user unsent the message or reset the link.                           *)
NoSilentDrop ==
    [][\A m \in queue \ queue' :
          \/ \E p \in Pos : hs[p] = m
          \/ row'[m] = "unsent"
          \/ ~Free /\ Top.k = "reset"]_vars

(* The persisted snapshot never goes back: a restart would re-use the       *)
(* positions between.                                                       *)
SnapshotNeverBack ==
    [][snap # NoPos /\ snap' # NoPos =>
          \/ snap'[1] > snap[1]
          \/ snap'[1] = snap[1] /\ snap'[2] >= snap[2]]_vars

(* Every queued write eventually leaves the queue (with NoSilentDrop:       *)
(* because it was delivered), whatever attempts fail, passes collide, or    *)
(* restarts intervene: no two deliveries block each other for good.         *)
QueueDrains == \A m \in Dms \cup Fanouts : m \in queue ~> m \notin queue

-----------------------------------------------------------------------------
(* The argument for NonceOnce, as an inductive invariant, for the paths the *)
(* mutex and the drain cover (see README: the other paths break it).        *)
SerializedPaths ==
    /\ Controls = {} /\ SlowFanouts = {} /\ Restored = {}
    /\ Faults \subseteq {"age", "rekey", "claim_expires", "heal"}

Known(m) == row[m] # "none"

(* What is queued is owed, but for a direct message the heal looked up too  *)
(* late; no direct message is owed without its item.                        *)
Owing == {m \in queue : row[m] \in {"sending", "failed"}}

IRows ==
    /\ queue \ Owing \subseteq {m \in Dms : row[m] = "sent"}
    /\ \A m \in Dms : row[m] \in {"sending", "failed"} => m \in queue
    /\ \A m \in healing : row[m] \in {"sending", "failed", "sent"}

IStamps ==
    /\ \A m \in Msg : Known(m) => stamp[m] < clock
    /\ \A x, y \in Msg : Known(x) /\ Known(y) /\ stamp[x] = stamp[y] => x = y

IWaiting == \A m \in Msg : waiting[m] > 0 \/ m \in pending => Known(m)

(* A delivery that is past its checks still has its item; the list of a     *)
(* delivery about to encrypt covers every older item; nested deliveries are *)
(* older than the ones they serve.                                          *)
Unpersisted(f) == f.k = "send" /\ f.ph \in {"ensure", "persist"}
PastChecks(f) ==
    IF f.k = "deliver" THEN f.ph # "drain1" ELSE f.ph \notin {"ensure", "persist"}

FrameInv(f) ==
    /\ Known(f.m) <=> ~Unpersisted(f)
    /\ PastChecks(f) => f.m \in Owing
    /\ \A y \in f.todo : Known(y) /\ stamp[y] < stamp[f.m]
    /\ f.ph = "drain2" => Older(f.m) \subseteq f.todo

IFrames ==
    \A i \in DOMAIN stack :
        /\ stack[i].k = "deliver" \/ (i = Len(stack) /\ stack[i].k \in {"send", "attempt"})
        /\ i > 1 => stack[i].ph \in {"drain1", "drain2"}
        /\ FrameInv(stack[i])
        /\ \A j \in DOMAIN stack : j < i => stamp[stack[j].m] < stamp[stack[i].m]

(* The handle stands at the persisted position, or one past it between a    *)
(* confirmed put and its finalize.                                          *)
ILink ==
    /\ snap \in Pos /\ snap[1] = epoch
    /\ live \in {NoPos, IF ~Free /\ Top.ph = "fin" THEN Next1(snap) ELSE snap}
    /\ ~Free /\ Top.ph \in {"putting", "fin"} => Top.pos = snap /\ <<snap, Top.m>> \in wrote

(* Nothing is encrypted past the persisted position; what may occupy that   *)
(* position is the oldest write still owed.                                 *)
IWrote ==
    \A x \in wrote :
        /\ x[1][1] <= epoch
        /\ x[1][1] = epoch => x[1][2] <= snap[2]
        /\ x[1] = snap => /\ x[2] \in Owing
                          /\ \A y \in Owing \ {x[2]} : stamp[x[2]] < stamp[y]

IInv == IRows /\ IStamps /\ IWaiting /\ IFrames /\ ILink /\ IWrote /\ NonceOnce

=============================================================================
