------------------------------- MODULE GroupSend -------------------------------
(***************************************************************************)
(* The fan-out of a private group at the sender: one row, one queue item    *)
(* for each member with an established link (GroupService.ts), delivered by *)
(* the fan-out itself and by drain passes (LinkService.ts) under the queue  *)
(* of each member's link, and the status that the row and the attachment    *)
(* record show for the whole.                                               *)
(*                                                                         *)
(* Messages are numbered in the order of their creation.  What the ratchet  *)
(* of one link does with a lost answer is the subject of SendPath; here a   *)
(* delivery is one step, and the subject is the status several deliveries,  *)
(* receipts, a reset and a reload settle together.                          *)
(***************************************************************************)
EXTENDS Naturals, FiniteSets

CONSTANTS
    Peers,       \* the other members of the group
    MaxMsg,      \* messages of a behaviour
    Uploads,     \* those that carry an attachment
    Faults,      \* what may fail, see FaultNames
    MaxAttempts, \* MAX_ATTEMPTS of RetryQueue.ts
    MaxCalls,    \* bound: fan-outs under way at once
    MaxTrouble   \* bound: resets, reloads and aged messages of a behaviour

(* A network that does not answer, an error that is not transient, a day    *)
(* that passes, delivery and read receipts of the members.                  *)
FaultNames == {"network", "error", "age", "delivered", "read"}
Msgs == 1 .. MaxMsg
Items == Msgs \X Peers

ASSUME GroupSendAssumption ==
    /\ Faults \subseteq FaultNames
    /\ Uploads \subseteq Msgs
    /\ MaxAttempts \in Nat \ {0}

VARIABLES
    row,    \* delivery_state of the group message
    upload, \* delivery_state of the attachment record
    queue,  \* the delivery_queue: items <<message, member>>
    tries,  \* attempts of an item
    aged,   \* messages older than MAX_AGE_MS
    link,   \* members whose link is established
    fan,    \* the call of fanOutEnvelope for a message
    held,   \* the call that holds the queue of a member's link
    pass,   \* items a drain pass listed and has still to deliver
    sent,   \* history: members whose delivery was confirmed
    cut,    \* history: items a reset dropped
    torn,   \* history: messages a reload left between two statements
    used    \* what the bound has counted

gsVars == <<row, upload, queue, tries, aged, link, fan, held, pass, sent, cut, torn, used>>

States == {"none", "sending", "sent", "delivered", "read", "failed"}
Free == [by |-> "none", for |-> 0, on |-> 0, at |-> "idle", rest |-> {}]
NoCall == [at |-> "idle", todo |-> {}, sent |-> FALSE, next |-> "sending"]

-------------------------------------------------------------------------------
(* The rows                                                                  *)

ItemsOf(m) == {p \in Peers : <<m, p>> \in queue}

(* countDeliveryQueueForMessage with excludeItemId.                          *)
OwedToOthers(m, p) == ItemsOf(m) \ {p}

(* Mutant: `failed` is written over anything.                                *)
WithStateUnguarded(states, m, s) == [states EXCEPT ![m] = s]

(* updateGroupMessageDeliveryState and updateAttachmentDelivery: `failed`    *)
(* does not overwrite `sent` and `delivered`.                                *)
WithState(states, m, s) ==
    [states EXCEPT ![m] = IF s = "failed" /\ @ \in {"sent", "delivered"} THEN @ ELSE s]

WithUpload(m, s) == IF m \in Uploads THEN WithState(upload, m, s) ELSE upload

Retired(m, p) == tries[<<m, p>>] >= MaxAttempts \/ m \in aged

-------------------------------------------------------------------------------
(* fanOutEnvelope                                                            *)

(* establishedFanoutRecipients                                               *)
Recipients == link

(* The row and one item per recipient, in one transaction; the attachment    *)
(* record was saved before.                                                  *)
Start(m) ==
    /\ row[m] = "none" /\ \A k \in 1 .. m - 1 : row[k] # "none"
    /\ Cardinality({k \in Msgs : fan[k].at # "idle"}) < MaxCalls
    /\ row' = [row EXCEPT ![m] = IF Recipients = {} THEN "sent" ELSE "sending"]
    /\ upload' = IF m \in Uploads THEN [upload EXCEPT ![m] = "sending"] ELSE upload
    /\ queue' = queue \cup {<<m, p>> : p \in Recipients}
    /\ fan' = [fan EXCEPT ![m] = [at |-> "loop", todo |-> Recipients,
                                  sent |-> Recipients = {}, next |-> "sending"]]
    /\ UNCHANGED <<tries, aged, link, held, pass, sent, cut, torn, used>>

(* The loop: sendPersistedLinkJson for the next member takes the queue of    *)
(* the member's link.                                                        *)
FanOut(m, p) ==
    /\ fan[m].at = "loop" /\ p \in fan[m].todo /\ held[p] = Free
    /\ fan' = [fan EXCEPT ![m].at = "sending", ![m].todo = @ \ {p}]
    /\ held' = [held EXCEPT ![p] = [Free EXCEPT !.by = "fan", !.for = m, !.at = "next"]]
    /\ UNCHANGED <<row, upload, queue, tries, aged, link, pass, sent, cut, torn, used>>

SettledState(m) ==
    IF ItemsOf(m) # {} THEN "sending" ELSE IF fan[m].sent THEN "sent" ELSE "failed"

(* After the loop the items left are counted; the state is written by a      *)
(* second statement.                                                         *)
FanCount(m) ==
    /\ fan[m].at = "loop" /\ fan[m].todo = {}
    /\ fan' = [fan EXCEPT ![m].next = SettledState(m), ![m].at =
                  IF SettledState(m) # "sending" THEN "write"
                  ELSE IF m \in Uploads THEN "return" ELSE "idle"]
    /\ UNCHANGED <<row, upload, queue, tries, aged, link, held, pass, sent, cut, torn, used>>

FanWrite(m) ==
    /\ fan[m].at = "write"
    /\ row' = WithState(row, m, fan[m].next)
    /\ fan' = [fan EXCEPT ![m].at = IF m \in Uploads THEN "return" ELSE "idle"]
    /\ UNCHANGED <<upload, queue, tries, aged, link, held, pass, sent, cut, torn, used>>

(* sendAttachmentFromBytes copies the returned state to the attachment.      *)
FanReturn(m) ==
    /\ fan[m].at = "return"
    /\ upload' = WithUpload(m, fan[m].next)
    /\ fan' = [fan EXCEPT ![m].at = "idle"]
    /\ UNCHANGED <<row, queue, tries, aged, link, held, pass, sent, cut, torn, used>>

-------------------------------------------------------------------------------
(* Drain passes                                                              *)

(* recoverPendingSends lists the whole queue (drainRetries the part that is  *)
(* due); only one pass at a time.                                            *)
Pass ==
    /\ pass = {}
    /\ queue # {} /\ pass' = queue
    /\ UNCHANGED <<row, upload, queue, tries, aged, link, fan, held, sent, cut, torn, used>>

(* deliverQueueItemsOldestFirst takes the items of a member in their order;  *)
(* an item over its budget is left running and the pass goes on.             *)
Drain(m, p) ==
    /\ <<m, p>> \in pass /\ \A k \in 1 .. m - 1 : <<k, p>> \notin pass
    /\ held[p] = Free
    /\ pass' = pass \ {<<m, p>>}
    /\ held' = [held EXCEPT ![p] = [Free EXCEPT !.by = "drain", !.for = m, !.at = "next"]]
    /\ UNCHANGED <<row, upload, queue, tries, aged, link, fan, sent, cut, torn, used>>

-------------------------------------------------------------------------------
(* Under the queue of a member's link                                        *)

(* The call lets go of the queue; a fan-out goes on with the next member.    *)
Release(p) ==
    /\ held' = [held EXCEPT ![p] = Free]
    /\ fan' = IF held[p].by = "fan" THEN [fan EXCEPT ![held[p].for].at = "loop"] ELSE fan

At(p, point) == held[p].at = point
Go(p, point) == held' = [held EXCEPT ![p].at = point]

(* The oldest owed item of the member that is not newer than the target:     *)
(* drainOwedSamePeerWritesLocked comes before the target.                    *)
Oldest(p) ==
    LET owed == {m \in 1 .. held[p].for - 1 : <<m, p>> \in queue} IN
    IF owed = {} THEN held[p].for ELSE CHOOSE m \in owed : \A k \in owed : m <= k

(* The fan-out's own item, which sendPersistedLinkJson treats unlike the     *)
(* arm of the drain.                                                         *)
Own(p, m) == held[p].by = "fan" /\ m = held[p].for

(* Mutant: queueItemStillPresent is not asked.                               *)
StaleByRow(p, m) == row[m] \in {"sent", "delivered"}

(* The drain arm re-reads the row and the item; the fan-out only the item.   *)
Stale(p, m) ==
    \/ <<m, p>> \notin queue
    \/ ~Own(p, m) /\ row[m] \in {"sent", "delivered"}

(* recordSuccess removes the item of a stale delivery; after an older item   *)
(* the call looks on, after its target it ends.                              *)
Settle(p) ==
    LET m == Oldest(p) IN
    /\ At(p, "next") /\ Stale(p, m)
    /\ queue' = queue \ {<<m, p>>}
    /\ IF m = held[p].for THEN Release(p) ELSE UNCHANGED <<held, fan>>
    /\ UNCHANGED <<row, upload, tries, aged, link, pass, sent, cut, torn, used>>

(* A retired item is parked: it stays in the queue and the row may fail.     *)
Park(p) ==
    LET m == Oldest(p) IN
    /\ At(p, "next") /\ ~Stale(p, m) /\ ~Own(p, m) /\ Retired(m, p)
    /\ held' = [held EXCEPT ![p].on = m, ![p].at = "fail"]
    /\ UNCHANGED <<row, upload, queue, tries, aged, link, fan, pass, sent, cut, torn, used>>

Deliverable(p, m) == At(p, "next") /\ ~Stale(p, m) /\ (Own(p, m) \/ ~Retired(m, p))

(* The member's link is up and the message is stored at the homeserver.      *)
Put(p) ==
    LET m == Oldest(p) IN
    /\ Deliverable(p, m) /\ p \in link
    /\ held' = [held EXCEPT ![p].on = m, ![p].at = "finalize"]
    /\ UNCHANGED <<row, upload, queue, tries, aged, link, fan, pass, sent, cut, torn, used>>

(* No link yet, a transient error, an item another call claims: the item is  *)
(* deferred and newer ones stay behind it.                                   *)
Defer(p) ==
    /\ Deliverable(p, Oldest(p)) /\ ("network" \in Faults \/ p \notin link)
    /\ Release(p)
    /\ UNCHANGED <<row, upload, queue, tries, aged, link, pass, sent, cut, torn, used>>

(* recordFailure: at the cap the item is parked with its attempts as they    *)
(* are, and the row may fail.  The fan-out's own item only stays queued.     *)
Refused(p) ==
    LET m == Oldest(p) IN
    /\ Deliverable(p, m) /\ "error" \in Faults
    /\ IF Own(p, m) THEN Release(p) /\ UNCHANGED tries
       ELSE IF tries[<<m, p>>] + 1 >= MaxAttempts
       THEN held' = [held EXCEPT ![p].on = m, ![p].at = "fail"] /\ UNCHANGED <<tries, fan>>
       ELSE tries' = [tries EXCEPT ![<<m, p>>] = @ + 1] /\ Release(p)
    /\ UNCHANGED <<row, upload, queue, aged, link, pass, sent, cut, torn, used>>

(* finalizeGroupFanoutSend: the snapshot and the item, not the row.          *)
Finalize(p) ==
    LET m == held[p].on IN
    /\ At(p, "finalize")
    /\ queue' = queue \ {<<m, p>>}
    /\ sent' = [sent EXCEPT ![m] = @ \cup {p}]
    /\ IF Own(p, m)
       THEN /\ held' = [held EXCEPT ![p] = Free]
            /\ fan' = [fan EXCEPT ![m].at = "loop", ![m].sent = TRUE]
       ELSE Go(p, "count") /\ UNCHANGED fan
    /\ UNCHANGED <<row, upload, tries, aged, link, pass, cut, torn, used>>

(* The delivery of an item is over: on to the next, unless it was the target.*)
Next_(p) == IF held[p].on = held[p].for THEN Release(p) ELSE Go(p, "next") /\ UNCHANGED fan

(* Mutant: the row is `sent` with the first member's delivery.               *)
LastDeliveryAny(m) == TRUE

LastDelivery(m) == ItemsOf(m) = {}

(* After the last finalize of a drain the row is set to `sent`, by a second  *)
(* statement.                                                                *)
Count(p) ==
    /\ At(p, "count")
    /\ IF LastDelivery(held[p].on) THEN Go(p, "write") /\ UNCHANGED fan ELSE Next_(p)
    /\ UNCHANGED <<row, upload, queue, tries, aged, link, pass, sent, cut, torn, used>>

Write(p) ==
    /\ At(p, "write")
    /\ row' = WithState(row, held[p].on, "sent")
    /\ upload' = WithUpload(held[p].on, "sent")
    /\ Next_(p)
    /\ UNCHANGED <<queue, tries, aged, link, pass, sent, cut, torn, used>>

(* markFailed: the row fails when no other member is owed the message.  A    *)
(* drain ends with the failure; a reset goes on with its next message.       *)
CountFailed(p) ==
    /\ At(p, "fail")
    /\ IF OwedToOthers(held[p].on, p) = {} THEN Go(p, "write failed") /\ UNCHANGED fan
       ELSE IF held[p].by = "reset" THEN Go(p, "settle") /\ UNCHANGED fan
       ELSE Release(p)
    /\ UNCHANGED <<row, upload, queue, tries, aged, link, pass, sent, cut, torn, used>>

WriteFailed(p) ==
    /\ At(p, "write failed")
    /\ row' = WithState(row, held[p].on, "failed")
    /\ upload' = WithUpload(held[p].on, "failed")
    /\ IF held[p].by = "reset" THEN Go(p, "settle") /\ UNCHANGED fan ELSE Release(p)
    /\ UNCHANGED <<queue, tries, aged, link, pass, sent, cut, torn, used>>

-------------------------------------------------------------------------------
(* resetEncryptedLink                                                        *)

(* The link is retired and the payloads are collected ...                    *)
Reset(p) ==
    /\ held[p] = Free /\ used < MaxTrouble
    /\ link' = link \ {p}
    /\ held' = [held EXCEPT ![p] = [Free EXCEPT !.by = "reset", !.at = "drop",
                                                !.rest = {m \in Msgs : <<m, p>> \in queue}]]
    /\ used' = used + 1
    /\ UNCHANGED <<row, upload, queue, tries, aged, fan, pass, sent, cut, torn>>

(* ... then all items of the member are dropped ...                          *)
ResetDrop(p) ==
    LET gone == {x \in queue : x[2] = p} IN
    /\ At(p, "drop")
    /\ queue' = queue \ gone /\ cut' = cut \cup gone
    /\ Go(p, "settle")
    /\ UNCHANGED <<row, upload, tries, aged, link, fan, pass, sent, torn, used>>

(* Mutant: the rows of the dropped items are left.                           *)
OrphansNone(p) == {}

Orphans(p) == held[p].rest

(* ... and settleOrphanedFanout marks each row failed that is owed to nobody *)
(* else and is not delivered.                                                *)
ResetSettle(p) ==
    /\ At(p, "settle")
    /\ IF Orphans(p) = {} THEN Release(p)
       ELSE \E m \in Orphans(p) :
              /\ held' = [held EXCEPT ![p].rest = @ \ {m}, ![p].on = m, ![p].at =
                            IF row[m] \in {"sent", "delivered"} THEN "settle" ELSE "fail"]
              /\ UNCHANGED fan
    /\ UNCHANGED <<row, upload, queue, tries, aged, link, pass, sent, cut, torn, used>>

(* The next handshake with the member.                                       *)
Relink(p) ==
    /\ held[p] = Free /\ p \notin link
    /\ link' = link \cup {p}
    /\ UNCHANGED <<row, upload, queue, tries, aged, fan, held, pass, sent, cut, torn, used>>

-------------------------------------------------------------------------------
(* Receipts, age and reloads                                                 *)

(* upgradeMessageDelivery: a receipt of a member that has the message; the   *)
(* inbox of the member is read under the queue of its link.                  *)
Receipt(m, p) ==
    /\ held[p] = Free /\ p \in sent[m]
    /\ \E s \in {"delivered", "read"} \cap Faults :
          /\ row[m] # s /\ row[m] # "read"
          /\ row' = [row EXCEPT ![m] = s]
    /\ UNCHANGED <<upload, queue, tries, aged, link, fan, held, pass, sent, cut, torn, used>>

Age(m) ==
    /\ "age" \in Faults /\ ItemsOf(m) # {} /\ m \notin aged /\ used < MaxTrouble
    /\ aged' = aged \cup {m}
    /\ used' = used + 1
    /\ UNCHANGED <<row, upload, queue, tries, link, fan, held, pass, sent, cut, torn>>

(* A reload ends every call; the rows stay.                                  *)
Crash ==
    /\ used < MaxTrouble
    /\ held' = [p \in Peers |-> Free]
    /\ fan' = [m \in Msgs |-> NoCall]
    /\ pass' = {}
    /\ torn' = torn \cup {m \in Msgs : row[m] # "none" /\ ItemsOf(m) = {}}
    /\ used' = used + 1
    /\ UNCHANGED <<row, upload, queue, tries, aged, link, sent, cut>>

-------------------------------------------------------------------------------
GsInit ==
    /\ row = [m \in Msgs |-> "none"] /\ upload = [m \in Msgs |-> "none"]
    /\ queue = {} /\ tries = [x \in Items |-> 0] /\ aged = {}
    /\ link = Peers
    /\ fan = [m \in Msgs |-> NoCall] /\ held = [p \in Peers |-> Free] /\ pass = {}
    /\ sent = [m \in Msgs |-> {}] /\ cut = {} /\ torn = {}
    /\ used = 0

OnLink(p) ==
    \/ Settle(p) \/ Park(p) \/ Put(p) \/ Defer(p) \/ Refused(p)
    \/ Finalize(p) \/ Count(p) \/ Write(p) \/ CountFailed(p) \/ WriteFailed(p)
    \/ ResetDrop(p) \/ ResetSettle(p)

OfCall(m) == FanCount(m) \/ FanWrite(m) \/ FanReturn(m) \/ \E p \in Peers : FanOut(m, p)

GsNext ==
    \/ \E m \in Msgs : Start(m) \/ OfCall(m) \/ Age(m)
    \/ \E m \in Msgs, p \in Peers : Drain(m, p) \/ Receipt(m, p)
    \/ \E p \in Peers : OnLink(p) \/ Reset(p) \/ Relink(p)
    \/ Pass \/ Crash

GsSpec == GsInit /\ [][GsNext]_gsVars

(* Every call goes on: the event loop runs what is ready, and every request  *)
(* and every lock of a queue has a timeout.  A pass is due again and again   *)
(* (a timer and the visibility of the tab).                                  *)
Fairness ==
    /\ \A p \in Peers : WF_gsVars(OnLink(p))
    /\ \A m \in Msgs : WF_gsVars(FanCount(m) \/ FanWrite(m) \/ FanReturn(m))
    /\ \A m \in Msgs, p \in Peers : SF_gsVars(FanOut(m, p)) /\ SF_gsVars(Drain(m, p))

GsFairSpec == GsSpec /\ Fairness

-------------------------------------------------------------------------------
(* Properties                                                                *)

GsTypeOK ==
    /\ row \in [Msgs -> States] /\ upload \in [Msgs -> States]
    /\ queue \subseteq Items /\ pass \subseteq Items
    /\ tries \in [Items -> 0 .. MaxAttempts - 1]
    /\ aged \subseteq Msgs /\ link \subseteq Peers
    /\ \A p \in Peers : held[p].by \in {"none", "fan", "drain", "reset"}
    /\ \A m \in Msgs : fan[m].at \in {"idle", "loop", "sending", "write", "return"}

(* A member reads a message once: an item whose delivery was confirmed is    *)
(* never put again, although the row stays `sending` for the other members   *)
(* and a pass may have listed the item before.                               *)
MemberReadsOnce == \A p \in Peers : At(p, "finalize") => p \notin sent[held[p].on]

(* Nobody is left out in silence: an item that leaves the queue was          *)
(* delivered, or dropped by a reset, or a member's receipt had turned the    *)
(* row `delivered` while the item was owed.                                  *)
NobodySkipped ==
    [][\A x \in queue \ queue' :
         x[2] \in sent'[x[1]] \/ x \in cut' \/ row[x[1]] = "delivered"]_gsVars

(* No call of this message is under way.                                     *)
Quiet(m) ==
    /\ ItemsOf(m) = {} /\ fan[m].at = "idle"
    /\ \A p \in Peers : held[p] = Free

(* A message that nobody is owed any more does not stay `sending`, however   *)
(* the fan-out, drains of two members and a reset interleave; only a reload  *)
(* between the last delivery and the second statement leaves it so.          *)
NeverStuckSending == \A m \in Msgs : Quiet(m) /\ row[m] = "sending" => m \in torn

(* A message that every member was sent is not shown as failed.              *)
FailedIsTrue ==
    \A m \in Msgs : Quiet(m) /\ row[m] = "failed" /\ m \notin torn =>
        \E p \in Peers : <<m, p>> \in cut

(* kinds-v1.md: the status is monotonic, `sent`, `delivered`, `read`.        *)
Rank == [none |-> 0, sending |-> 0, failed |-> 0, sent |-> 1, delivered |-> 2, read |-> 3]
StatusNeverBack == [][\A m \in Msgs : Rank[row[m]] <= Rank[row'[m]]]_gsVars

(* The attachment record does not stay `sending` when its message is sent.   *)
UploadSettles ==
    \A m \in Uploads : Quiet(m) /\ row[m] = "sent" /\ m \notin torn => upload[m] # "sending"
=============================================================================
