------------------------------- MODULE Handshake -------------------------------
(***************************************************************************)
(* How two devices come to share a session: ensureLinkLocked and what it    *)
(* calls (LinkService.ts).                                                  *)
(*                                                                          *)
(* A publishes a marker with its Noise key.  The initiator writes msg1 to   *)
(* its outbox, the responder answers with msg2, the initiator is            *)
(* established when it reads that and writes msg3, the responder when it    *)
(* reads msg3.  A call runs under the mutex of its peer and stops at every  *)
(* await that reaches the homeserver: between two of them the other device  *)
(* runs, and the page may be reloaded.                                      *)
(*                                                                          *)
(* The wasm library and the homeserver are external: a handshake is <<i, r>>, *)
(* the attempt of the initiator and that of the responder (0: not known).   *)
(***************************************************************************)
EXTENDS Integers, FiniteSets

CONSTANTS
    Devices,       \* the two ends of the link
    Calls,         \* which calls each device makes, see CallKinds
    Faults,        \* what may go wrong, see FaultNames
    Rotating,      \* the devices that may be enrolled again
    AdvanceLimit,  \* HANDSHAKE_PENDING_ADVANCE_LIMIT (10 in the code)
    FailureLimit,  \* HANDSHAKE_FAILURE_LIMIT (5)
    ParkLimit,     \* ESTABLISHED_REKEY_PARK_LIMIT (3)
    PollLimit,     \* MARKER_RECOVERY_POLL_LIMIT (3)
    MaxTry,        \* bound: handshake attempts
    MaxKey,        \* bound: keys a device publishes
    MaxCrash       \* bound: reloads

CallKinds ==
    {"open",   \* ensureLinkWith, sendDm: the user, may initiate
     "send",   \* a retry or a control message: automatic, may initiate
     "sync"}   \* syncInbox: automatic, never initiates

FaultNames ==
    {"network",   \* a request fails
     "protocol",  \* a message does not decrypt
     "restore",   \* a snapshot cannot be restored
     "stale",     \* ten minutes pass
     "reset"}     \* resetEncryptedLink

ASSUME HandshakeAssumption ==
    /\ \E p \in Devices : \E q \in Devices \ {p} : Devices = {p, q}
    /\ Calls \in [Devices -> SUBSET CallKinds]
    /\ Faults \subseteq FaultNames /\ Rotating \subseteq Devices
    /\ {AdvanceLimit, FailureLimit, ParkLimit, PollLimit} \subseteq Nat \ {0}
    /\ {MaxTry, MaxCrash} \subseteq Nat /\ MaxKey \in Nat \ {0}

VARIABLES
    dev,      \* the link of each device: rows, handles, call under way
    marker,   \* the Noise key each device publishes
    slots,    \* msg1, msg2 and msg3 in the outbox of each device
    tries,    \* how many attempts there were
    crashes

hsVars == <<dev, marker, slots, tries, crashes>>

Other(p) == CHOOSE q \in Devices : q # p
NoHs == <<0, 0>>
NoRow == [st |-> "none", role |-> "none", pk |-> 0, seen |-> 0, hs |-> NoHs]
NoLive == [st |-> "none", role |-> "none", hs |-> NoHs]
NoPend == [pk |-> 0, hs |-> NoHs]
Idle == [at |-> "idle", kind |-> "sync", again |-> FALSE, pk |-> 0, hs |-> NoHs]

NewDevice ==
    [row |-> NoRow,                        \* links
     arch |-> [st |-> "none", hs |-> NoHs], \* links_archive
     live |-> NoLive,                      \* liveHandles
     pend |-> NoPend, pendold |-> FALSE,   \* pendingEstablishedRekeys
     adv |-> 0, held |-> FALSE,            \* link_handshake_budgets
     fails |-> 0,                          \* links.consecutive_failures
     watch |-> <<NoHs, 0>>,                \* handshakeWatch
     parks |-> 0,                          \* establishedRekeyParkWindows
     refreshed |-> FALSE,                  \* peerMarkerRefreshedAt
     old |-> FALSE,                        \* links.updated_at is ten minutes ago
     call |-> Idle]

HsInit ==
    /\ dev = [p \in Devices |-> NewDevice]
    /\ marker = [p \in Devices |-> 1]
    /\ slots = [p \in Devices |-> [m1 |-> [i |-> 0, own |-> 0, peer |-> 0], m2 |-> NoHs, m3 |-> NoHs]]
    /\ tries = 0
    /\ crashes = 0

-----------------------------------------------------------------------------
(* The synchronous parts, on the record of one device.                      *)
User(d) == d.call.kind = "open"
MayInitiate(d) == d.call.kind # "sync"
Return(d) == [d EXCEPT !.call = Idle]
At(d, stage) == [d EXCEPT !.call.at = stage]
AtPk(d, stage, pk) == [d EXCEPT !.call.at = stage, !.call.pk = pk]

(* links.updated_at is set by every write but that of the last-seen key.     *)
SetRow(d, row) == [d EXCEPT !.row = row, !.old = FALSE]
Seen(d, pk) == IF d.row.st = "none" THEN d ELSE [d EXCEPT !.row.seen = pk]

Exhausted(d) == d.adv >= AdvanceLimit
ClearBudget(d) == [d EXCEPT !.adv = 0, !.held = FALSE]
Charge(d) == [d EXCEPT !.adv = IF @ < AdvanceLimit THEN @ + 1 ELSE @, !.held = TRUE]
ChargeThrottled(d) == IF d.held THEN d ELSE Charge(d)

(* retireLocalLinkState: handles closed, the row it was given archived, the  *)
(* row deleted.                                                             *)
Retire(d, stored) ==
    [d EXCEPT !.pend = NoPend, !.pendold = FALSE, !.live = NoLive, !.row = NoRow, !.old = FALSE, !.fails = 0,
              !.arch = [st |-> stored.st, hs |-> stored.hs]]

Abandon(d, stored) == Return([Retire(d, stored) EXCEPT !.watch = <<NoHs, 0>>])

(* markReconnectRequired                                                    *)
Disconnect(d) == Return(SetRow([d EXCEPT !.live = NoLive], [d.row EXCEPT !.st = "reconnect"]))

AgedOut(d) ==
    d.old /\ d.row.st = "handshaking" /\ (d.adv = 0 \/ Exhausted(d))

(* mutant: an automatic call goes on with a spent budget.                    *)
EnterUnbounded(d) ==
    LET cleared == IF User(d) THEN [ClearBudget(d) EXCEPT !.parks = 0] ELSE d
        e == IF AgedOut(cleared) THEN Retire(cleared, cleared.row) ELSE cleared
    IN  CASE e.row.st = "reconnect" ->
                IF e.refreshed /\ ~User(e) THEN Return(e)
                ELSE At([e EXCEPT !.refreshed = TRUE], "rotation")
          [] e.row.st = "established" -> At(e, IF e.live.st = "established" THEN "rekey" ELSE "restore")
          [] OTHER -> At(e, "fetch")

(* ensureLinkLocked up to its first await.                                  *)
Enter(d) ==
    LET cleared == IF User(d) THEN [ClearBudget(d) EXCEPT !.parks = 0] ELSE d
        e == IF AgedOut(cleared) THEN Retire(cleared, cleared.row) ELSE cleared
    IN  CASE e.row.st = "reconnect" ->
                IF e.refreshed /\ ~User(e) THEN Return(e)
                ELSE At([e EXCEPT !.refreshed = TRUE], "rotation")
          [] e.row.st = "established" -> At(e, IF e.live.st = "established" THEN "rekey" ELSE "restore")
          [] OTHER -> IF Exhausted(e) /\ ~User(e) THEN Return(e) ELSE At(e, "fetch")

(* recoverWedgedLink, with the row the failed call had read.                *)
Wedged(d, stored) ==
    LET charged == Charge(d)
        gone == Retire(charged, stored)
    IN  IF Exhausted(charged) THEN Abandon(charged, stored)
        ELSE IF d.call.again THEN Return(gone)
        ELSE Enter([gone EXCEPT !.call.again = TRUE])

NetworkFailure(d, stored) ==
    LET counted == [d EXCEPT !.fails = IF @ < FailureLimit THEN @ + 1 ELSE @]
    IN  IF counted.fails >= FailureLimit THEN Wedged(counted, stored) ELSE Return(counted)

(* dropParkedEstablishedRekey                                               *)
DropParked(d) == Return(Seen([d EXCEPT !.pend = NoPend, !.pendold = FALSE], d.pend.pk))

Handshaking(d) == d.row.st = "handshaking" \/ d.live.st = "handshaking"
Responding(d) ==
    \/ d.row.st = "handshaking" /\ d.row.role = "responder"
    \/ d.live.st = "handshaking" /\ d.live.role = "responder"

(* Where the call goes on when no msg1 was adopted.                          *)
NoInbound(d) ==
    IF Handshaking(d) THEN At(d, "advance")
    ELSE IF MayInitiate(d) THEN At(d, "initiate") ELSE Return(d)

-----------------------------------------------------------------------------
(* What is external: the marker of the peer, its outbox.                    *)
Set(p, d) == dev' = [dev EXCEPT ![p] = d]
Keep == UNCHANGED <<marker, slots, tries, crashes>>
Fails(kind) == kind \in Faults

(* probeInboundLink: a msg1 for this pair of keys is answered by a msg2.     *)
Inbound(p, pk) == slots[Other(p)].m1.i # 0
                  /\ slots[Other(p)].m1.own = pk /\ slots[Other(p)].m1.peer = marker[p]

Answer(p, stage) ==
    LET hs == <<slots[Other(p)].m1.i, tries + 1>>
    IN  /\ tries < MaxTry
        /\ tries' = tries + 1
        /\ slots' = [slots EXCEPT ![p].m2 = hs]
        /\ Set(p, [dev[p] EXCEPT !.call.at = stage, !.call.hs = hs])
        /\ UNCHANGED <<marker, crashes>>

-----------------------------------------------------------------------------
Ensure(p, kind) ==
    /\ dev[p].call.at = "idle" /\ kind \in Calls[p]
    /\ Set(p, Enter([dev[p] EXCEPT !.call.kind = kind]))
    /\ Keep

(* maybeAdoptReconnectRequiredMarkerRotation: only a new key of the peer     *)
(* lets a link that failed start again.                                     *)
Rotation(p) ==
    LET d == dev[p]
    IN  /\ d.call.at = "rotation"
        /\ \/ Fails("network") /\ Set(p, Return(d))
           \/ Set(p, IF marker[Other(p)] = d.row.pk THEN Return(d)
                     ELSE LET gone == Retire(d, d.row)
                          IN  IF Exhausted(gone) /\ ~User(gone) THEN Return(gone) ELSE At(gone, "fetch"))
        /\ Keep

(* restoreEstablished                                                       *)
Restore(p) ==
    LET d == dev[p]
    IN  /\ d.call.at = "restore"
        /\ \/ Set(p, At(SetRow([d EXCEPT !.fails = 0, !.live = [st |-> "established", role |-> d.row.role, hs |-> d.row.hs]],
                               d.row), "rekey"))
           \/ Fails("restore") /\ Set(p, Disconnect(d))
        /\ Keep

(* maybeAdoptEstablishedRekey with nothing parked: the marker of the peer.   *)
RekeyFetch(p) ==
    LET d == [dev[p] EXCEPT !.refreshed = TRUE]
        pk == marker[Other(p)]
        waits == ~User(d) /\ (d.held \/ Exhausted(d) \/ d.parks >= ParkLimit)
    IN  /\ dev[p].call.at = "rekey" /\ dev[p].pend = NoPend
        /\ \/ dev[p].refreshed /\ ~User(d) /\ Set(p, Return(dev[p]))
           \/ /\ User(d) \/ ~dev[p].refreshed
              /\ \/ Fails("network") /\ Set(p, Return(d))
                 \/ Set(p, IF pk = d.row.pk \/ waits THEN Return(Seen(d, pk))
                           ELSE AtPk(Seen(d, pk), "rekeyprobe", pk))
        /\ Keep

(* mutant: the probed handshake takes the place of the link at once.         *)
RekeyAdopts(p) ==
    /\ dev[p].call.at = "rekeyprobe"
    /\ \/ Inbound(p, dev[p].call.pk) /\ Answer(p, "adopt")
       \/ ~Inbound(p, dev[p].call.pk) /\ Set(p, Return(dev[p])) /\ Keep

RekeyProbe(p) ==
    /\ dev[p].call.at = "rekeyprobe"
    /\ \/ Inbound(p, dev[p].call.pk) /\ Answer(p, "park")
       \/ (~Inbound(p, dev[p].call.pk) \/ Fails("network") \/ Fails("protocol"))
          /\ Set(p, Return(dev[p])) /\ Keep

(* The probed handshake is parked: the established link stays live.          *)
Park(p) ==
    LET d == [Charge(dev[p]) EXCEPT !.parks = IF @ < ParkLimit THEN @ + 1 ELSE @]
        parked == [d EXCEPT !.pend = [pk |-> d.call.pk, hs |-> d.call.hs], !.pendold = FALSE]
    IN  /\ dev[p].call.at = "park"
        /\ Set(p, IF Exhausted(d) THEN Return(d)
                  ELSE IF User(d) THEN At(parked, "rekey") ELSE Return(parked))
        /\ Keep

(* advancePendingEstablishedRekey: msg3 commits the new session.             *)
RekeyAdvance(p) ==
    LET d == dev[p]
        charged == IF User(d) THEN d ELSE ChargeThrottled(d)
    IN  /\ d.call.at = "rekey" /\ d.pend # NoPend
        /\ \/ d.pendold /\ Set(p, DropParked(d))
           \/ ~d.pendold /\ ~User(d) /\ d.held /\ Set(p, Return(d))
           \/ /\ ~d.pendold /\ (User(d) \/ ~d.held)
              /\ \/ /\ slots[Other(p)].m3 = d.pend.hs
                    /\ Set(p, [d EXCEPT !.call.at = "commit", !.call.pk = d.pend.pk,
                                        !.call.hs = d.pend.hs, !.pend = NoPend])
                 \/ /\ slots[Other(p)].m3 # d.pend.hs
                    /\ Set(p, IF Exhausted(charged) THEN DropParked(charged) ELSE Return(charged))
                 \/ (Fails("network") \/ Fails("protocol")) /\ Set(p, DropParked(d))
        /\ Keep

(* commitEstablishedRekey, adoptInboundHandshake of an established link.     *)
Commit(p) ==
    LET d == dev[p]
        est == [st |-> "established", role |-> "responder", hs |-> d.call.hs]
    IN  /\ d.call.at = "commit"
        /\ Set(p, Return(SetRow([ClearBudget(d) EXCEPT !.arch = [st |-> d.row.st, hs |-> d.row.hs],
                                                       !.live = est, !.watch = <<NoHs, 0>>],
                                [st |-> "established", role |-> "responder", pk |-> d.call.pk,
                                 seen |-> d.call.pk, hs |-> d.call.hs])))
        /\ Keep

-----------------------------------------------------------------------------

(* The marker of the peer while no link is established; a responder whose    *)
(* peer changed its key starts again (restartResponderFromFreshMsg1).        *)
Fetch(p) ==
    LET d == dev[p]
        pk == marker[Other(p)]
        seen == Seen(d, pk)
        charged == Charge(seen)
    IN  /\ d.call.at = "fetch"
        /\ \/ Fails("network") /\ Set(p, IF Handshaking(d) THEN At(d, "advance") ELSE Return(d))
           \/ Set(p, IF ~Responding(d) THEN AtPk(seen, "probe", pk)
                     ELSE IF d.row.pk = pk THEN At(seen, "advance")
                     ELSE IF Exhausted(charged) THEN Abandon(charged, seen.row)
                     ELSE IF d.call.again THEN Return(Retire(charged, seen.row))
                     ELSE AtPk(Retire(charged, seen.row), "restart", pk))
        /\ Keep

(* A msg1 that does not decrypt wedges the handshake of the device: it is    *)
(* given up and a nested call probes again, then this one goes on.           *)
Probe(p) ==
    LET d == dev[p]
        charged == Charge(d)
        gone == Retire(charged, d.row)
    IN  /\ d.call.at = "probe"
        /\ \/ Inbound(p, d.call.pk) /\ Answer(p, "adopt")
           \/ (~Inbound(p, d.call.pk) \/ Fails("network")) /\ Set(p, NoInbound(d)) /\ Keep
           \/ /\ Fails("protocol") /\ Keep
              /\ IF d.row.st # "handshaking" THEN Set(p, NoInbound(d))
                 ELSE IF Exhausted(charged) THEN Set(p, NoInbound([gone EXCEPT !.watch = <<NoHs, 0>>]))
                 ELSE \/ Set(p, gone)
                      \/ Fails("network") /\ Set(p, NoInbound(gone))

RestartProbe(p) ==
    /\ dev[p].call.at = "restart"
    /\ \/ Inbound(p, dev[p].call.pk) /\ Answer(p, "adopt")
       \/ (~Inbound(p, dev[p].call.pk) \/ Fails("network") \/ Fails("protocol"))
          /\ Set(p, Return(dev[p])) /\ Keep

(* mutant: the responder is established by its own msg2.                     *)
AdoptReady(p) ==
    LET d == IF dev[p].row.st = "handshaking" THEN Retire(dev[p], dev[p].row) ELSE dev[p]
    IN  /\ d.call.at = "adopt"
        /\ Set(p, Return(SetRow([d EXCEPT !.live = [st |-> "established", role |-> "responder", hs |-> d.call.hs]],
                                [st |-> "established", role |-> "responder", pk |-> d.call.pk,
                                 seen |-> d.call.pk, hs |-> d.call.hs])))
        /\ Keep

(* adoptInboundHandshake: a handshake of its own is given up for the peer's. *)
Adopt(p) ==
    LET d == IF dev[p].row.st = "handshaking" THEN Retire(dev[p], dev[p].row) ELSE dev[p]
    IN  /\ d.call.at = "adopt"
        /\ Set(p, Return(SetRow([d EXCEPT !.live = [st |-> "handshaking", role |-> "responder", hs |-> d.call.hs]],
                                [st |-> "handshaking", role |-> "responder", pk |-> d.call.pk,
                                 seen |-> d.call.pk, hs |-> d.call.hs])))
        /\ Keep

(* initiateHandshake: msg1 is written, then the row.                        *)
Initiate(p) ==
    /\ dev[p].call.at = "initiate"
    /\ \/ /\ tries < MaxTry
          /\ tries' = tries + 1
          /\ slots' = [slots EXCEPT ![p].m1 = [i |-> tries + 1, own |-> marker[p], peer |-> dev[p].call.pk]]
          /\ Set(p, [dev[p] EXCEPT !.call.at = "initiated", !.call.hs = <<tries + 1, 0>>])
          /\ UNCHANGED <<marker, crashes>>
       \/ Fails("network") /\ Set(p, Return(dev[p])) /\ Keep

Initiated(p) ==
    LET d == dev[p]
    IN  /\ d.call.at = "initiated"
        /\ Set(p, At(SetRow([d EXCEPT !.fails = 0, !.live = [st |-> "handshaking", role |-> "initiator", hs |-> d.call.hs]],
                            [st |-> "handshaking", role |-> "initiator", pk |-> d.call.pk,
                             seen |-> d.call.pk, hs |-> d.call.hs]), "advance"))
        /\ Keep

-----------------------------------------------------------------------------
(* advanceLiveHandshake, after restoreHandshake when no handle is live.      *)
Live(d) ==
    IF d.live.st = "handshaking" THEN d
    ELSE [d EXCEPT !.live = [st |-> "handshaking", role |-> d.row.role, hs |-> d.row.hs]]

Advance(p) ==
    LET d == Live(dev[p])
        hs == d.live.hs
        answered == slots[Other(p)].m2[1] = hs[1]
        polled == IF d.watch[1] # hs THEN 1
                  ELSE IF d.watch[2] < PollLimit THEN d.watch[2] + 1 ELSE PollLimit
        saved == SetRow([d EXCEPT !.fails = 0], [d.row EXCEPT !.hs = hs, !.st = "handshaking"])
        watched == [saved EXCEPT !.watch = <<hs, polled>>]
    IN  /\ dev[p].call.at = "advance"
        /\ \/ /\ d.live.role = "initiator" /\ answered
              /\ slots' = [slots EXCEPT ![p].m3 = slots[Other(p)].m2]
              /\ Set(p, [d EXCEPT !.call.at = "complete", !.call.hs = slots[Other(p)].m2])
              /\ UNCHANGED <<marker, tries, crashes>>
           \/ /\ d.live.role = "initiator" /\ ~answered
              /\ Set(p, IF polled >= PollLimit THEN At(watched, "watch") ELSE Return(watched))
              /\ Keep
           \/ /\ d.live.role = "responder"
              /\ Set(p, IF slots[Other(p)].m3 = hs
                        THEN [d EXCEPT !.call.at = "complete", !.call.hs = hs] ELSE Return(saved))
              /\ Keep
           \/ Fails("network") /\ Set(p, NetworkFailure(d, d.row)) /\ Keep
           \/ Fails("protocol") /\ Set(p, Wedged(d, d.row)) /\ Keep

(* completeEstablished: the row is written before the link is restored.      *)
Complete(p) ==
    LET d == dev[p]
    IN  /\ d.call.at = "complete"
        /\ Set(p, At(SetRow([ClearBudget(d) EXCEPT !.fails = 0, !.watch = <<NoHs, 0>>],
                            [d.row EXCEPT !.st = "established", !.hs = d.call.hs]), "restoring"))
        /\ Keep

(* A link that is not restored throws: the next call finds the row.          *)
Restoring(p) ==
    LET d == dev[p]
    IN  /\ d.call.at = "restoring"
        /\ \/ Set(p, Return([d EXCEPT !.live = [st |-> "established", role |-> d.row.role, hs |-> d.row.hs]]))
           \/ Fails("restore") /\ Set(p, Return(d))
        /\ Keep

(* maybeRecoverInitiatorMarkerRotation: the peer that does not answer has a  *)
(* new key.                                                                 *)
Watch(p) ==
    LET d == dev[p]
        pk == marker[Other(p)]
        charged == Charge(d)
        gone == [Retire(charged, d.row) EXCEPT !.watch = <<NoHs, 0>>]
    IN  /\ d.call.at = "watch"
        /\ \/ Fails("network") /\ Set(p, Return(d))
           \/ Set(p, IF pk = d.row.pk THEN Return([d EXCEPT !.watch[2] = 0])
                     ELSE IF Exhausted(charged) THEN Abandon(charged, d.row)
                     ELSE IF d.call.again THEN Return(gone)
                     ELSE AtPk([gone EXCEPT !.call.again = TRUE], "initiate", pk))
        /\ Keep

-----------------------------------------------------------------------------
(* PEER_MARKER_REFRESH_TTL_MS, nextAdvanceAt and the park window pass; so    *)
(* may HANDSHAKE_STALE_MS without a write.                                  *)
Ticked(d) == [d EXCEPT !.refreshed = FALSE, !.held = FALSE, !.parks = 0]
Tick(p) ==
    /\ dev[p].call.at = "idle"
    /\ \/ Ticked(dev[p]) # dev[p] /\ Set(p, Ticked(dev[p]))
       \/ /\ "stale" \in Faults /\ (dev[p].row.st = "handshaking" \/ dev[p].pend # NoPend)
          /\ Set(p, [Ticked(dev[p]) EXCEPT !.old = dev[p].row.st = "handshaking",
                                           !.pendold = dev[p].pend # NoPend])
    /\ Keep

(* resetEncryptedLink                                                       *)
Reset(p) ==
    /\ "reset" \in Faults
    /\ dev[p].call.at = "idle" /\ dev[p].row.st # "none"
    /\ Set(p, Retire(dev[p], dev[p].row))
    /\ Keep

(* The peer enrols again on an empty device and publishes a new key.         *)
Rotate(p) ==
    /\ p \in Rotating
    /\ marker[p] < MaxKey
    /\ marker' = [marker EXCEPT ![p] = @ + 1]
    /\ Set(p, NewDevice)
    /\ UNCHANGED <<slots, tries, crashes>>

(* A reload: the rows stay, what was in memory is lost.                      *)
Reload(p) ==
    /\ crashes < MaxCrash
    /\ crashes' = crashes + 1
    /\ Set(p, [dev[p] EXCEPT !.live = NoLive, !.pend = NoPend, !.pendold = FALSE, !.watch = <<NoHs, 0>>,
                             !.parks = 0, !.refreshed = FALSE, !.call = Idle])
    /\ UNCHANGED <<marker, slots, tries>>

(* The steps of a call under way.                                           *)
Step(p) ==
    \/ Rotation(p) \/ Restore(p)
    \/ RekeyFetch(p) \/ RekeyProbe(p) \/ Park(p) \/ RekeyAdvance(p) \/ Commit(p)
    \/ Fetch(p) \/ Probe(p) \/ RestartProbe(p) \/ Adopt(p) \/ Initiate(p) \/ Initiated(p)
    \/ Advance(p) \/ Complete(p) \/ Restoring(p) \/ Watch(p)

HsNext ==
    \E p \in Devices :
        \/ \E kind \in CallKinds : Ensure(p, kind)
        \/ Step(p) \/ Tick(p) \/ Reset(p) \/ Rotate(p) \/ Reload(p)

HsSpec == HsInit /\ [][HsNext]_hsVars

(* The timers poll every link; a call ends; time passes.                     *)
HsFairness ==
    \A p \in Devices :
        /\ WF_hsVars(Step(p))
        /\ \A kind \in CallKinds : SF_hsVars(Ensure(p, kind))
        /\ WF_hsVars(Tick(p))

HsFairSpec == HsSpec /\ HsFairness

-----------------------------------------------------------------------------
Hs == (0 .. MaxTry) \X (0 .. MaxTry)
Keys == 0 .. MaxKey
Stages ==
    {"idle", "rotation", "restore", "rekey", "rekeyprobe", "park", "commit", "fetch", "probe",
     "restart", "adopt", "initiate", "initiated", "advance", "complete", "restoring", "watch"}

(* Every variable has its type.                                              *)
HsTypeOK ==
    /\ marker \in [Devices -> 1 .. MaxKey]
    /\ tries \in 0 .. MaxTry /\ crashes \in 0 .. MaxCrash
    /\ slots \in [Devices -> [m1 : [i : 0 .. MaxTry, own : Keys, peer : Keys], m2 : Hs, m3 : Hs]]
    /\ \A p \in Devices :
        /\ dev[p].row \in [st : {"none", "handshaking", "established", "reconnect"},
                           role : {"none", "initiator", "responder"}, pk : Keys, seen : Keys, hs : Hs]
        /\ dev[p].live \in [st : {"none", "handshaking", "established"},
                            role : {"none", "initiator", "responder"}, hs : Hs]
        /\ dev[p].pend \in [pk : Keys, hs : Hs]
        /\ dev[p].adv \in 0 .. AdvanceLimit /\ dev[p].fails \in 0 .. FailureLimit
        /\ dev[p].parks \in 0 .. ParkLimit /\ dev[p].watch \in Hs \X (0 .. PollLimit)
        /\ dev[p].call \in [at : Stages, kind : CallKinds, again : BOOLEAN, pk : Keys, hs : Hs]

(* "An established link stays live until a probed handshake reaches          *)
(* `established`": it is left for a failure, a reset, or a session the peer  *)
(* has completed.                                                           *)
EstablishedKept ==
    [][\A p \in Devices :
         LET now == dev[p].row  next == dev'[p].row
         IN  now.st = "established" /\ marker'[p] = marker[p]
             => \/ next.hs = now.hs /\ next.st \in {"established", "reconnect"}
                \/ next.st = "established" /\ slots[Other(p)].m3 = next.hs
                \/ next = NoRow /\ dev[p].call = Idle]_hsVars

(* Whatever session leaves its row is in the archive.                        *)
SessionsArchived ==
    [][\A p \in Devices :
         dev[p].row.st \in {"established", "reconnect"} /\ marker'[p] = marker[p]
         /\ dev'[p].row.hs # dev[p].row.hs
         => dev'[p].arch.hs = dev[p].row.hs /\ dev'[p].arch.st = dev[p].row.st]_hsVars

(* Two links established with each other's key are one session.              *)
OneSession ==
    \A p, q \in Devices :
        p # q /\ dev[p].row.st = "established" /\ dev[q].row.st = "established"
        /\ dev[p].row.pk = marker[q] /\ dev[q].row.pk = marker[p]
        => dev[p].row.hs = dev[q].row.hs

(* "A flapping marker cannot loop for free" (LinkService.ts:2175): with its  *)
(* budget spent a device answers nothing and sets out to start nothing       *)
(* unless its user asks.  One start is left: a send whose own probe spent    *)
(* the last of the budget goes on to initiateHandshake (LinkService.ts:1188, *)
(* :1272), once, since no later call gets there.                             *)
Spent(p) == Exhausted(dev[p]) /\ ~User(dev[p])
BudgetStops ==
    [][\A p \in Devices : Spent(p) =>
         /\ slots'[p].m2 = slots[p].m2
         /\ dev'[p].call.at = "initiate" \/ slots'[p].m1 # slots[p].m1
            => dev[p].call.at = "initiate"]_hsVars

(* Without that one start; the code breaks it.                               *)
SpentStartsNothing ==
    [][\A p \in Devices : Spent(p) => slots'[p].m1 = slots[p].m1]_hsVars

(* Both ends are established on one session.                                 *)
LinkedNow ==
    \A p \in Devices : dev[p].row.st = "established" /\ dev[p].row.hs = dev[Other(p)].row.hs

(* Polled, a link that one side asks for comes to be.                        *)
Linked == <>[]LinkedNow

(* "Non-ready links older than this are wiped so a later probe can adopt a    *)
(* fresh msg1": no device waits for ever in one handshake.                   *)
NeverStuck == \A p \in Devices : []<>(dev[p].row.st # "handshaking")

=============================================================================
