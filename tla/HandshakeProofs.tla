----------------------------- MODULE HandshakeProofs -----------------------------
(* Proofs about Handshake: two linked devices hold one session, an           *)
(* established link is left only for a completed one, a spent budget stops   *)
(* the automatic calls.                                                      *)
EXTENDS Handshake, TLAPS

HsT == Nat \X Nat
Roles == {"none", "initiator", "responder"}
RowT == [st : {"none", "handshaking", "established", "reconnect"}, role : Roles,
         pk : Nat, seen : Nat, hs : HsT]
LiveT == [st : {"none", "handshaking", "established"}, role : Roles, hs : HsT]
PendT == [pk : Nat, hs : HsT]
CallT == [at : Stages, kind : CallKinds, again : BOOLEAN, pk : Nat, hs : HsT]
DevT == [row : RowT,
         arch : [st : {"none", "handshaking", "established", "reconnect"}, hs : HsT],
         live : LiveT, pend : PendT, pendold : BOOLEAN, adv : Nat, held : BOOLEAN, fails : Nat,
         watch : HsT \X Nat, parks : Nat, refreshed : BOOLEAN, old : BOOLEAN, call : CallT]
SlotT == [m1 : [i : Nat, own : Nat, peer : Nat], m2 : HsT, m3 : HsT]

Typed ==
    /\ dev \in [Devices -> DevT]
    /\ marker \in [Devices -> Nat]
    /\ slots \in [Devices -> SlotT]
    /\ tries \in Nat

(* Which row a call finds where it stands: only a link that is established   *)
(* is re-keyed, only a handshake is advanced.                                *)
RowAt(d) ==
    /\ d.call.at \in {"restore", "rekey", "rekeyprobe", "park", "commit", "restoring"}
       => d.row.st = "established"
    /\ d.call.at = "rotation" => d.row.st = "reconnect"
    /\ d.call.at \in {"fetch", "probe", "adopt"} => d.row.st \in {"none", "handshaking"}
    /\ d.call.at \in {"restart", "initiate", "initiated"} => d.row.st = "none"
    /\ d.call.at \in {"advance", "complete", "watch"} => d.row.st = "handshaking"

(* The handle of a handshake is that of the row, and what is parked waits    *)
(* beside a link.                                                            *)
Memory(d) ==
    /\ d.call.at = "idle" => d.call = Idle
    /\ d.row.st = "handshaking" => d.row.role # "none"
    /\ d.live.st = "handshaking" =>
          \/ d.row.st = "established"
          \/ d.row.st = "handshaking" /\ d.live.hs = d.row.hs /\ d.live.role = d.row.role
    /\ d.pend # NoPend =>
          d.row.st \in {"established", "reconnect"} /\ d.call.at \notin {"rekeyprobe", "park", "commit"}

(* An automatic call that may answer has budget left.                        *)
Budget(d) ==
    d.call.at \in {"fetch", "probe", "restart", "rekeyprobe"} /\ ~User(d) => ~Exhausted(d)

(* What a device answered last is what it adopts, parks or commits, and a    *)
(* session is committed that the peer has completed.                         *)
Answered(d, m2, m3) ==
    /\ d.pend # NoPend => m2 = d.pend.hs
    /\ d.call.at \in {"adopt", "park", "commit"} => m2 = d.call.hs
    /\ d.call.at = "commit" => m3 = d.call.hs

DevOK(d) == RowAt(d) /\ Memory(d) /\ Budget(d)

HInv ==
    /\ Typed
    /\ \A p \in Devices : DevOK(dev[p]) /\ Answered(dev[p], slots[p].m2, slots[Other(p)].m3)

(* One side asks and the other answers: what the initiator a and the         *)
(* responder b = Other(a) never are.                                         *)
Initiating(d) ==
    /\ d.row.role # "responder" /\ d.live.role # "responder" /\ d.pend = NoPend
    /\ d.call.at \notin {"adopt", "park", "commit"}

Answering(d) ==
    /\ d.call.kind = "sync"
    /\ d.row.role # "initiator" /\ d.live.role # "initiator"
    /\ d.call.at \notin {"initiate", "initiated", "watch"}
    /\ d.call.at \in {"probe", "adopt"} => d.row.st = "none"

(* The keys a responder knows are not newer than the one that is published.  *)
KeysUpTo(d, pk) ==
    /\ d.row.pk <= pk /\ d.pend.pk <= pk /\ d.call.pk <= pk
    /\ d.call.at \in {"rekeyprobe", "park", "commit"} => d.row.pk < d.call.pk
    /\ d.pend # NoPend => d.row.pk < d.pend.pk

(* With the current key of its peer, a responder is on the session it        *)
(* answered last; if that is established, the peer has completed it.         *)
OnAnswered(d, pk, m2, m3) ==
    d.row.pk = pk =>
        /\ d.row.st # "none" => m2 = d.row.hs
        /\ d.call.at = "complete" => m3 = d.call.hs /\ d.row.hs = d.call.hs
        /\ d.row.st = "established" => m3 = d.row.hs

(* An initiator has written the msg3 of the session it is established on.    *)
OnCompleted(d, m3) ==
    /\ d.call.at = "complete" => m3 = d.call.hs
    /\ d.row.st = "established" => m3 = d.row.hs

OneSideInv(p) ==
    LET q == Other(p)
    IN  /\ slots[q].m1.i = 0
        /\ Initiating(dev[p]) /\ Answering(dev[q])
        /\ KeysUpTo(dev[q], marker[p])
        /\ OnAnswered(dev[q], marker[p], slots[q].m2, slots[p].m3)
        /\ OnCompleted(dev[p], slots[p].m3)

-------------------------------------------------------------------------------
(* The other end                                                             *)

LEMMA OtherEnd ==
    ASSUME NEW p \in Devices
    PROVE  Other(p) \in Devices /\ Other(p) # p /\ Other(Other(p)) = p
           /\ \A q \in Devices : q = p \/ q = Other(p)
BY HandshakeAssumption DEF Other

-------------------------------------------------------------------------------
(* The synchronous parts                                                     *)

LEMMA Constants ==
    NoRow \in RowT /\ NoLive \in LiveT /\ NoPend \in PendT /\ Idle \in CallT /\ NoHs \in HsT
BY DEF NoRow, NoLive, NoPend, Idle, NoHs, RowT, LiveT, PendT, CallT, HsT, Roles, Stages, CallKinds

(* e is d but for the call.                                                  *)
SameLink(d, e) ==
    e.row = d.row /\ e.live = d.live /\ e.pend = d.pend

LEMMA ReturnFacts ==
    ASSUME NEW d \in DevT
    PROVE  /\ Return(d) \in DevT /\ SameLink(d, Return(d)) /\ Return(d).adv = d.adv
           /\ Return(d).call = Idle
BY Constants DEF Return, DevT, SameLink

LEMMA AtFacts ==
    ASSUME NEW d \in DevT, NEW s \in Stages
    PROVE  /\ At(d, s) \in DevT /\ SameLink(d, At(d, s)) /\ At(d, s).adv = d.adv
           /\ At(d, s).call.at = s /\ At(d, s).call.kind = d.call.kind
           /\ At(d, s).call.pk = d.call.pk /\ At(d, s).call.hs = d.call.hs
BY DEF At, DevT, CallT, SameLink

LEMMA AtPkFacts ==
    ASSUME NEW d \in DevT, NEW s \in Stages, NEW pk \in Nat
    PROVE  /\ AtPk(d, s, pk) \in DevT /\ SameLink(d, AtPk(d, s, pk)) /\ AtPk(d, s, pk).adv = d.adv
           /\ AtPk(d, s, pk).call.at = s /\ AtPk(d, s, pk).call.kind = d.call.kind
           /\ AtPk(d, s, pk).call.pk = pk /\ AtPk(d, s, pk).call.hs = d.call.hs
BY DEF AtPk, DevT, CallT, SameLink

LEMMA SetRowFacts ==
    ASSUME NEW d \in DevT, NEW r \in RowT
    PROVE  /\ SetRow(d, r) \in DevT /\ SetRow(d, r).row = r /\ SetRow(d, r).live = d.live
           /\ SetRow(d, r).pend = d.pend /\ SetRow(d, r).adv = d.adv /\ SetRow(d, r).call = d.call
BY DEF SetRow, DevT

(* The row of e is that of d, but for the key its peer was last seen with.   *)
SameRow(d, e) ==
    e.row.st = d.row.st /\ e.row.role = d.row.role /\ e.row.pk = d.row.pk /\ e.row.hs = d.row.hs

LEMMA SeenFacts ==
    ASSUME NEW d \in DevT, NEW pk \in Nat
    PROVE  /\ Seen(d, pk) \in DevT /\ SameRow(d, Seen(d, pk)) /\ Seen(d, pk).live = d.live
           /\ Seen(d, pk).pend = d.pend /\ Seen(d, pk).adv = d.adv /\ Seen(d, pk).call = d.call
BY DEF Seen, DevT, RowT, SameRow

LEMMA ChargeFacts ==
    ASSUME NEW d \in DevT
    PROVE  /\ Charge(d) \in DevT /\ SameLink(d, Charge(d)) /\ Charge(d).call = d.call
           /\ ChargeThrottled(d) \in DevT /\ SameLink(d, ChargeThrottled(d))
           /\ ChargeThrottled(d).call = d.call
<1>1. Charge(d) \in DevT /\ SameLink(d, Charge(d)) /\ Charge(d).call = d.call
  <2> DEFINE n == IF d.adv < AdvanceLimit THEN d.adv + 1 ELSE d.adv
  <2>1. n \in Nat
    BY DEF DevT
  <2>2. Charge(d) = [[d EXCEPT !.adv = n] EXCEPT !.held = TRUE]
    BY DEF Charge, DevT
  <2> HIDE DEF n
  <2> QED BY <2>1, <2>2 DEF DevT, SameLink
<1> QED BY <1>1 DEF ChargeThrottled, SameLink

LEMMA StaysExhausted ==
    ASSUME NEW d \in DevT, Exhausted(d)
    PROVE  Exhausted(Charge(d))
<1> DEFINE n == IF d.adv < AdvanceLimit THEN d.adv + 1 ELSE d.adv
<1>1. d.adv \in Nat /\ AdvanceLimit \in Nat
  BY HandshakeAssumption DEF DevT
<1>2. n = d.adv
  BY <1>1 DEF Exhausted
<1>3. Charge(d) = [[d EXCEPT !.adv = n] EXCEPT !.held = TRUE]
  BY DEF Charge, DevT
<1> HIDE DEF n
<1>4. Charge(d).adv = n
  BY <1>3 DEF DevT
<1> QED BY <1>2, <1>4 DEF Exhausted

LEMMA ClearFacts ==
    ASSUME NEW d \in DevT
    PROVE  /\ ClearBudget(d) \in DevT /\ SameLink(d, ClearBudget(d)) /\ ClearBudget(d).call = d.call
BY DEF ClearBudget, DevT, SameLink

LEMMA RetireFacts ==
    ASSUME NEW d \in DevT, NEW r \in RowT
    PROVE  /\ Retire(d, r) \in DevT /\ Retire(d, r).row = NoRow /\ Retire(d, r).live = NoLive
           /\ Retire(d, r).pend = NoPend /\ Retire(d, r).adv = d.adv /\ Retire(d, r).call = d.call
BY Constants DEF Retire, DevT, RowT

LEMMA WatchFacts ==
    ASSUME NEW d \in DevT, NEW w \in HsT \X Nat
    PROVE  LET e == [d EXCEPT !.watch = w]
           IN  e \in DevT /\ SameLink(d, e) /\ e.adv = d.adv /\ e.call = d.call
BY DEF DevT, SameLink

LEMMA Watch2Facts ==
    ASSUME NEW d \in DevT
    PROVE  LET e == [d EXCEPT !.watch[2] = 0]
           IN  e \in DevT /\ SameLink(d, e) /\ e.adv = d.adv /\ e.call = d.call
BY DEF DevT, SameLink

LEMMA AbandonFacts ==
    ASSUME NEW d \in DevT, NEW r \in RowT
    PROVE  /\ Abandon(d, r) \in DevT /\ Abandon(d, r).row = NoRow /\ Abandon(d, r).live = NoLive
           /\ Abandon(d, r).pend = NoPend /\ Abandon(d, r).call = Idle
<1> DEFINE e == [Retire(d, r) EXCEPT !.watch = <<NoHs, 0>>]
<1>1. <<NoHs, 0>> \in HsT \X Nat
  BY Constants
<1>2. e \in DevT /\ SameLink(Retire(d, r), e)
  BY <1>1, RetireFacts, WatchFacts
<1>3. Abandon(d, r) = Return(e)
  BY DEF Abandon
<1> HIDE DEF e
<1> QED BY <1>2, <1>3, RetireFacts, ReturnFacts DEF SameLink

-------------------------------------------------------------------------------
(* What most steps do: they give up a part of what the device had and go on. *)

Part(d, e) ==
    /\ \/ /\ e.row.role = d.row.role /\ e.row.pk = d.row.pk /\ e.row.hs = d.row.hs
          /\ e.row.st = d.row.st \/ (d.row.st = "established" /\ e.row.st = "reconnect")
       \/ e.row = NoRow /\ (d.row.st # "established" \/ d.call = Idle)
    /\ e.live.role \in {"none", d.live.role, d.row.role}
    /\ e.pend \in {d.pend, NoPend}

Shed(d, e, pk) ==
    /\ Part(d, e)
    /\ e.call.kind \in {"sync", d.call.kind}
    /\ e.call.pk \in {0, d.call.pk, pk}
    /\ e.call.at \notin {"adopt", "park", "commit", "complete", "initiated"}
    /\ e.call.at = "initiate" => d.call.kind # "sync" \/ d.call.at = "watch"
    /\ e.call.at = "initiate" => d.call.at = "probe" \/ (d.call.at = "watch" /\ ~Exhausted(d))
    /\ e.call.at = "watch" => "initiator" \in {d.row.role, d.live.role}
    /\ e.call.at = "probe" => e.row.st = "none" \/ e.row.role = "initiator"
    /\ e.call.at = "rekeyprobe" => e.row.pk # e.call.pk /\ e.call.pk = pk

Less(d, e, pk) == e \in DevT /\ DevOK(e) /\ Shed(d, e, pk)

ShedStep(p) ==
    /\ dev' = [dev EXCEPT ![p] = dev'[p]]
    /\ Less(dev[p], dev'[p], marker[Other(p)])
    /\ UNCHANGED <<marker, slots, tries>>

(* d as it may stand between two calls.                                      *)
Settled(d) ==
    /\ d \in DevT
    /\ d.row.st = "handshaking" => d.row.role # "none"
    /\ d.live.st = "handshaking" =>
          \/ d.row.st = "established"
          \/ d.row.st = "handshaking" /\ d.live.hs = d.row.hs /\ d.live.role = d.row.role
    /\ d.pend # NoPend => d.row.st \in {"established", "reconnect"}

LEMMA EnterFacts ==
    ASSUME NEW d, Settled(d), NEW pk \in Nat
    PROVE  /\ Enter(d) \in DevT /\ DevOK(Enter(d))
           /\ Enter(d).row = d.row \/ (Enter(d).row = NoRow /\ d.row.st = "handshaking")
           /\ Enter(d).live \in {d.live, NoLive} /\ Enter(d).pend \in {d.pend, NoPend}
           /\ Enter(d).call.kind \in {"sync", d.call.kind} /\ Enter(d).call.pk \in {0, d.call.pk}
           /\ Enter(d).call.at \in {"idle", "rotation", "restore", "rekey", "fetch"}
<1> DEFINE c == IF User(d) THEN [ClearBudget(d) EXCEPT !.parks = 0] ELSE d
           e == IF AgedOut(c) THEN Retire(c, c.row) ELSE c
           f == [e EXCEPT !.refreshed = TRUE]
<1>0. d \in DevT
  BY DEF Settled
<1>1. c \in DevT /\ SameLink(d, c) /\ c.call = d.call
  <2>1. ClearBudget(d) \in DevT /\ SameLink(d, ClearBudget(d)) /\ ClearBudget(d).call = d.call
    BY <1>0, ClearFacts
  <2> DEFINE b == ClearBudget(d)
  <2>2. b \in DevT /\ SameLink(d, b) /\ b.call = d.call
    BY <2>1
  <2> HIDE DEF b
  <2>3. [b EXCEPT !.parks = 0] \in DevT /\ SameLink(d, [b EXCEPT !.parks = 0])
        /\ [b EXCEPT !.parks = 0].call = d.call
    BY <2>2 DEF DevT, SameLink
  <2> QED BY <1>0, <2>3 DEF SameLink, b
<1> HIDE DEF c
<1>2. /\ e \in DevT /\ e.call = d.call /\ Settled(e)
      /\ e.row = d.row \/ (e.row = NoRow /\ d.row.st = "handshaking")
      /\ e.live \in {d.live, NoLive} /\ e.pend \in {d.pend, NoPend}
  <2>1. CASE AgedOut(c)
    <3>1. c.row \in RowT /\ c.row.st = "handshaking"
      BY <2>1, <1>1 DEF AgedOut, DevT
    <3>2. /\ e \in DevT /\ e.row = NoRow /\ e.live = NoLive /\ e.pend = NoPend /\ e.call = c.call
      BY <2>1, <1>1, <3>1, RetireFacts
    <3> HIDE DEF e
    <3> QED BY <1>1, <3>1, <3>2 DEF SameLink, Settled, NoRow, NoLive
  <2>2. CASE ~AgedOut(c)
    <3>1. e = c
      BY <2>2
    <3> HIDE DEF e
    <3> QED BY <1>1, <3>1, <1>0 DEF SameLink, Settled
  <2> QED BY <2>1, <2>2
<1> HIDE DEF e
<1>3. f \in DevT /\ SameLink(e, f) /\ f.call = e.call
  BY <1>2 DEF DevT, SameLink
<1> HIDE DEF f
<1>4. e.row.st = "reconnect" => Enter(d) = IF e.refreshed /\ ~User(e) THEN Return(e) ELSE At(f, "rotation")
  BY DEF Enter, c, e, f
<1>5. e.row.st = "established" => Enter(d) = At(e, IF e.live.st = "established" THEN "rekey" ELSE "restore")
  BY DEF Enter, c, e, f
<1>6. e.row.st \notin {"reconnect", "established"} =>
         Enter(d) = IF Exhausted(e) /\ ~User(e) THEN Return(e) ELSE At(e, "fetch")
  BY DEF Enter, c, e, f
<1>7. CASE Enter(d) = Return(e)
  <2>1. Return(e) \in DevT /\ SameLink(e, Return(e)) /\ Return(e).call = Idle
    BY <1>2, ReturnFacts
  <2>2. Idle.at = "idle" /\ Idle.kind = "sync" /\ Idle.pk = 0
    BY DEF Idle
  <2> QED BY <1>2, <1>7, <2>1, <2>2 DEF SameLink, DevOK, RowAt, Memory, Budget, Settled
<1>8. CASE e.row.st = "reconnect" /\ Enter(d) = At(f, "rotation")
  <2>1. At(f, "rotation") \in DevT /\ SameLink(f, At(f, "rotation")) /\ At(f, "rotation").call.at = "rotation"
        /\ At(f, "rotation").call.kind = f.call.kind /\ At(f, "rotation").call.pk = f.call.pk
    BY <1>3, AtFacts DEF Stages
  <2> QED BY <1>2, <1>3, <1>8, <2>1 DEF SameLink, DevOK, RowAt, Memory, Budget, Settled
<1>9. ASSUME NEW s \in {"rekey", "restore", "fetch"}, Enter(d) = At(e, s),
             s = "fetch" => e.row.st \notin {"reconnect", "established"} /\ (User(e) \/ ~Exhausted(e)),
             s # "fetch" => e.row.st = "established"
      PROVE  /\ Enter(d) \in DevT /\ DevOK(Enter(d)) /\ SameLink(e, Enter(d))
             /\ Enter(d).call.kind = e.call.kind /\ Enter(d).call.pk = e.call.pk /\ Enter(d).call.at = s
  <2>1. At(e, s) \in DevT /\ SameLink(e, At(e, s)) /\ At(e, s).adv = e.adv /\ At(e, s).call.at = s
        /\ At(e, s).call.kind = e.call.kind /\ At(e, s).call.pk = e.call.pk
    BY <1>2, AtFacts DEF Stages
  <2>2. e.row.st \in {"none", "handshaking", "established", "reconnect"}
    BY <1>2 DEF DevT, RowT
  <2> QED BY <1>9, <1>2, <2>1, <2>2 DEF SameLink, DevOK, RowAt, Memory, Budget, Settled, User, Exhausted
<1>10. CASE e.row.st = "established"
  BY <1>10, <1>5, <1>9, <1>2 DEF SameLink
<1>11. CASE e.row.st \notin {"reconnect", "established"} /\ Enter(d) = At(e, "fetch") /\ (User(e) \/ ~Exhausted(e))
  BY <1>11, <1>9, <1>2 DEF SameLink
<1> QED BY <1>4, <1>6, <1>7, <1>8, <1>10, <1>11

(* A call that returns leaves the device as it is.                           *)
LEMMA Returns ==
    ASSUME NEW d, Settled(d)
    PROVE  Return(d) \in DevT /\ DevOK(Return(d)) /\ SameLink(d, Return(d)) /\ Return(d).call = Idle
           /\ Return(d).call.at = "idle" /\ Return(d).call.kind = "sync" /\ Return(d).call.pk = 0
<1>1. Return(d) \in DevT /\ SameLink(d, Return(d)) /\ Return(d).call = Idle
  BY ReturnFacts DEF Settled
<1>2. Idle.at = "idle" /\ Idle.kind = "sync" /\ Idle.pk = 0
  BY DEF Idle
<1> QED BY <1>1, <1>2 DEF SameLink, DevOK, RowAt, Memory, Budget, Settled

LEMMA WedgedFacts ==
    ASSUME NEW d, Settled(d), d.row.st # "established", NEW r \in RowT, NEW pk \in Nat
    PROVE  /\ Wedged(d, r) \in DevT /\ DevOK(Wedged(d, r))
           /\ Wedged(d, r).row = NoRow /\ Wedged(d, r).live = NoLive /\ Wedged(d, r).pend = NoPend
           /\ Wedged(d, r).call.kind \in {"sync", d.call.kind} /\ Wedged(d, r).call.pk \in {0, d.call.pk}
           /\ Wedged(d, r).call.at \in {"idle", "rotation", "restore", "rekey", "fetch"}
<1> DEFINE c == Charge(d)
           g == Retire(c, r)
           n == [g EXCEPT !.call.again = TRUE]
<1>1. c \in DevT /\ SameLink(d, c) /\ c.call = d.call
  BY ChargeFacts DEF Settled
<1>2. g \in DevT /\ g.row = NoRow /\ g.live = NoLive /\ g.pend = NoPend /\ g.call = d.call
  BY <1>1, RetireFacts
<1>3. Abandon(c, r) \in DevT /\ Abandon(c, r).row = NoRow /\ Abandon(c, r).live = NoLive
      /\ Abandon(c, r).pend = NoPend /\ Abandon(c, r).call = Idle
  BY <1>1, AbandonFacts
<1> HIDE DEF g
<1>4. n \in DevT /\ SameLink(g, n) /\ n.call.kind = d.call.kind /\ n.call.pk = d.call.pk
  BY <1>2 DEF DevT, CallT, SameLink
<1> HIDE DEF n
<1>n. NoRow.st = "none" /\ NoLive.st = "none" /\ Idle.at = "idle" /\ Idle.kind = "sync" /\ Idle.pk = 0
  BY DEF NoRow, NoLive, Idle
<1>5. Settled(g) /\ Settled(n)
  BY <1>2, <1>4, <1>n DEF Settled, SameLink
<1>6. \/ Wedged(d, r) = Abandon(c, r) \/ Wedged(d, r) = Return(g) \/ Wedged(d, r) = Enter(n)
  BY DEF Wedged, c, g, n
<1>7. CASE Wedged(d, r) = Abandon(c, r)
  BY <1>3, <1>7, <1>n DEF DevOK, RowAt, Memory, Budget
<1>8. CASE Wedged(d, r) = Return(g)
  BY <1>2, <1>5, <1>8, Returns DEF SameLink
<1>9. CASE Wedged(d, r) = Enter(n)
  <2>1. /\ Enter(n) \in DevT /\ DevOK(Enter(n))
        /\ Enter(n).row = n.row \/ (Enter(n).row = NoRow /\ n.row.st = "handshaking")
        /\ Enter(n).live \in {n.live, NoLive} /\ Enter(n).pend \in {n.pend, NoPend}
        /\ Enter(n).call.kind \in {"sync", n.call.kind} /\ Enter(n).call.pk \in {0, n.call.pk}
        /\ Enter(n).call.at \in {"idle", "rotation", "restore", "rekey", "fetch"}
    BY <1>5, EnterFacts
  <2> QED BY <1>2, <1>4, <1>9, <2>1 DEF SameLink
<1> QED BY <1>6, <1>7, <1>8, <1>9

LEMMA FailsFacts ==
    ASSUME NEW d, Settled(d), d.row.st # "established", NEW r \in RowT, NEW pk \in Nat
    PROVE  LET e == NetworkFailure(d, r)
           IN  /\ e \in DevT /\ DevOK(e)
               /\ \/ e.row = d.row /\ e.live = d.live /\ e.pend = d.pend
                  \/ e.row = NoRow /\ e.live = NoLive /\ e.pend = NoPend
               /\ e.call.kind \in {"sync", d.call.kind} /\ e.call.pk \in {0, d.call.pk}
               /\ e.call.at \in {"idle", "rotation", "restore", "rekey", "fetch"}
<1> DEFINE n == IF d.fails < FailureLimit THEN d.fails + 1 ELSE d.fails
           c == [d EXCEPT !.fails = n]
<1>1. d \in DevT /\ n \in Nat
  BY DEF Settled, DevT
<1> HIDE DEF n
<1>2. c \in DevT /\ SameLink(d, c) /\ c.call = d.call
  BY <1>1 DEF DevT, SameLink
<1>3. c = [d EXCEPT !.fails = IF @ < FailureLimit THEN @ + 1 ELSE @]
  BY <1>1 DEF n, DevT
<1>4. NetworkFailure(d, r) = IF c.fails >= FailureLimit THEN Wedged(c, r) ELSE Return(c)
  BY <1>3 DEF NetworkFailure
<1> HIDE DEF c
<1>5. Settled(c) /\ c.row.st # "established"
  BY <1>2 DEF Settled, SameLink
<1>6. CASE NetworkFailure(d, r) = Wedged(c, r)
  BY <1>2, <1>5, <1>6, WedgedFacts
<1>7. CASE NetworkFailure(d, r) = Return(c)
  BY <1>2, <1>5, <1>7, Returns DEF SameLink
<1> QED BY <1>4, <1>6, <1>7

-------------------------------------------------------------------------------
(* The steps that only give up                                               *)

LEMMA IsSettled ==
    ASSUME NEW d \in DevT, DevOK(d)
    PROVE  Settled(d)
BY DEF DevOK, Memory, Settled

LEMMA SetFacts ==
    ASSUME Typed, NEW p \in Devices, NEW d, Set(p, d)
    PROVE  dev' = [dev EXCEPT ![p] = dev'[p]] /\ dev'[p] = d
BY DEF Set, Typed

LEMMA EnsureSheds ==
    ASSUME HInv, NEW p \in Devices, NEW kind \in CallKinds, Ensure(p, kind)
    PROVE  /\ dev' = [dev EXCEPT ![p] = dev'[p]]
           /\ Less([dev[p] EXCEPT !.call.kind = kind], dev'[p], marker[Other(p)])
           /\ UNCHANGED <<marker, slots, tries>>
<1> DEFINE d == [dev[p] EXCEPT !.call.kind = kind]
<1>1. dev[p] \in DevT /\ DevOK(dev[p]) /\ dev[p].call.at = "idle" /\ marker[Other(p)] \in Nat
  BY OtherEnd DEF HInv, Typed, Ensure
<1>2. d \in DevT /\ SameLink(dev[p], d) /\ d.call.kind = kind /\ d.call.at = "idle"
      /\ d.call.pk = dev[p].call.pk
  BY <1>1 DEF DevT, CallT, SameLink
<1>3. Typed /\ Set(p, Enter(d)) /\ Keep
  BY DEF HInv, Ensure
<1> HIDE DEF d
<1>4. Settled(d)
  BY <1>1, <1>2, IsSettled DEF Settled, SameLink
<1>5. /\ Enter(d) \in DevT /\ DevOK(Enter(d))
      /\ Enter(d).row = d.row \/ (Enter(d).row = NoRow /\ d.row.st = "handshaking")
      /\ Enter(d).live \in {d.live, NoLive} /\ Enter(d).pend \in {d.pend, NoPend}
      /\ Enter(d).call.kind \in {"sync", d.call.kind} /\ Enter(d).call.pk \in {0, d.call.pk}
      /\ Enter(d).call.at \in {"idle", "rotation", "restore", "rekey", "fetch"}
  BY <1>4, EnterFacts
<1>6. NoLive.role = "none"
  BY DEF NoLive
<1>7. dev' = [dev EXCEPT ![p] = dev'[p]] /\ dev'[p] = Enter(d)
  BY <1>3, SetFacts
<1>8. Shed(d, Enter(d), marker[Other(p)])
  BY <1>5, <1>6 DEF Shed, Part
<1> QED BY <1>3, <1>5, <1>7, <1>8 DEF Keep, d, Less

LEMMA Here ==
    ASSUME HInv, NEW p \in Devices
    PROVE  /\ Typed /\ dev[p] \in DevT /\ DevOK(dev[p]) /\ Settled(dev[p])
           /\ Other(p) \in Devices /\ marker[Other(p)] \in Nat
BY OtherEnd, IsSettled DEF HInv, Typed

LEMMA SetSheds ==
    ASSUME HInv, NEW p \in Devices, NEW e, Less(dev[p], e, marker[Other(p)]), Set(p, e), Keep
    PROVE  ShedStep(p)
<1>1. dev' = [dev EXCEPT ![p] = dev'[p]] /\ dev'[p] = e
  BY SetFacts DEF HInv
<1> QED BY <1>1 DEF ShedStep, Keep

LEMMA ReturnLess ==
    ASSUME NEW d \in DevT, NEW e, Settled(e), Part(d, e), NEW pk
    PROVE  Less(d, Return(e), pk)
BY Returns DEF Less, Shed, Part, SameLink

LEMMA AtPkLess ==
    ASSUME NEW d \in DevT, NEW e, Settled(e), Part(d, e), NEW pk, e.call.kind = d.call.kind,
           NEW s \in Stages, NEW k \in Nat, k \in {0, d.call.pk, pk},
           s \in {"rekey", "rekeyprobe", "fetch", "probe", "restart", "initiate", "advance", "watch"},
           s \in {"rekey", "rekeyprobe"} => e.row.st = "established",
           s \in {"fetch", "probe"} => e.row.st \in {"none", "handshaking"},
           s \in {"restart", "initiate"} => e.row.st = "none",
           s \in {"advance", "watch"} => e.row.st = "handshaking",
           s \in {"rekeyprobe", "fetch", "probe", "restart"} => User(e) \/ ~Exhausted(e),
           s = "initiate" => d.call.kind # "sync" \/ d.call.at = "watch",
           s = "initiate" => d.call.at = "probe" \/ (d.call.at = "watch" /\ ~Exhausted(d)),
           s = "watch" => "initiator" \in {d.row.role, d.live.role},
           s = "probe" => e.row.st = "none" \/ e.row.role = "initiator",
           s = "rekeyprobe" => e.row.pk # k /\ k = pk /\ e.pend = NoPend
    PROVE  Less(d, AtPk(e, s, k), pk)
<1> DEFINE f == AtPk(e, s, k)
<1>1. /\ f \in DevT /\ SameLink(e, f) /\ f.adv = e.adv
      /\ f.call.at = s /\ f.call.kind = d.call.kind /\ f.call.pk = k
  BY AtPkFacts DEF Settled
<1> HIDE DEF f
<1>2. Part(d, f)
  BY <1>1 DEF Part, SameLink
<1>3. RowAt(f)
  BY <1>1 DEF RowAt, SameLink
<1>4. Memory(f)
  BY <1>1 DEF Memory, SameLink, Settled
<1>5. Budget(f)
  BY <1>1 DEF Budget, User, Exhausted
<1>6. Shed(d, f, pk)
  BY <1>1, <1>2 DEF Shed, SameLink
<1>7. Less(d, f, pk)
  BY <1>1, <1>3, <1>4, <1>5, <1>6 DEF Less, DevOK
<1> QED BY <1>7 DEF f

LEMMA AtIsAtPk ==
    ASSUME NEW e \in DevT, NEW s
    PROVE  At(e, s) = AtPk(e, s, e.call.pk)
BY DEF At, AtPk, DevT, CallT

LEMMA RetirePart ==
    ASSUME NEW d \in DevT, NEW e \in DevT, NEW r \in RowT, d.row.st # "established" \/ d.call = Idle
    PROVE  Settled(Retire(e, r)) /\ Part(d, Retire(e, r)) /\ Retire(e, r).row.st = "none"
<1>1. /\ Retire(e, r) \in DevT /\ Retire(e, r).row = NoRow /\ Retire(e, r).live = NoLive
      /\ Retire(e, r).pend = NoPend
  BY RetireFacts
<1>2. NoRow.st = "none" /\ NoLive.role = "none" /\ NoLive.st = "none"
  BY DEF NoRow, NoLive
<1> QED BY <1>1, <1>2 DEF Settled, Part

LEMMA AbandonLess ==
    ASSUME NEW d \in DevT, NEW e \in DevT, NEW r \in RowT, d.row.st # "established", NEW pk
    PROVE  Less(d, Abandon(e, r), pk)
<1>1. /\ Abandon(e, r) \in DevT /\ Abandon(e, r).row = NoRow /\ Abandon(e, r).live = NoLive
      /\ Abandon(e, r).pend = NoPend /\ Abandon(e, r).call = Idle
  BY AbandonFacts
<1>2. NoRow.st = "none" /\ NoLive.role = "none" /\ NoLive.st = "none"
      /\ Idle.at = "idle" /\ Idle.kind = "sync" /\ Idle.pk = 0
  BY DEF NoRow, NoLive, Idle
<1> QED BY <1>1, <1>2 DEF Less, Shed, Part, DevOK, RowAt, Memory, Budget

LEMMA RotationSheds ==
    ASSUME HInv, NEW p \in Devices, Rotation(p)
    PROVE  ShedStep(p)
<1> DEFINE d == dev[p]
           g == Retire(d, d.row)
           pk == marker[Other(p)]
<1>1. /\ d \in DevT /\ Settled(d) /\ DevOK(d) /\ pk \in Nat /\ d.row \in RowT
  BY Here DEF DevT
<1>2. d.call.at = "rotation" /\ d.row.st = "reconnect"
  BY <1>1 DEF Rotation, DevOK, RowAt
<1>3. g \in DevT /\ Settled(g) /\ Part(d, g) /\ g.row.st = "none" /\ g.call = d.call
  BY <1>1, <1>2, RetirePart, RetireFacts
<1>4. Part(d, d)
  BY DEF Part
<1>5. \/ Set(p, Return(d)) \/ Set(p, Return(g))
      \/ Set(p, At(g, "fetch")) /\ (User(g) \/ ~Exhausted(g))
  BY DEF Rotation
<1>6. Keep
  BY DEF Rotation
<1> HIDE DEF d, g, pk
<1>7. CASE Set(p, Return(d))
  BY <1>1, <1>4, <1>6, <1>7, ReturnLess, SetSheds DEF d, pk
<1>8. CASE Set(p, Return(g))
  BY <1>1, <1>3, <1>6, <1>8, ReturnLess, SetSheds DEF d, pk
<1>9. CASE Set(p, At(g, "fetch")) /\ (User(g) \/ ~Exhausted(g))
  <2>1. At(g, "fetch") = AtPk(g, "fetch", d.call.pk) /\ d.call.pk \in Nat
    BY <1>1, <1>3, AtIsAtPk DEF DevT, CallT
  <2>2. Less(d, AtPk(g, "fetch", d.call.pk), pk)
    BY <1>1, <1>3, <1>9, <2>1, AtPkLess DEF Stages
  <2> QED BY <1>6, <1>9, <2>1, <2>2, SetSheds DEF d, pk
<1> QED BY <1>5, <1>7, <1>8, <1>9

LEMMA RestoreSheds ==
    ASSUME HInv, NEW p \in Devices, Restore(p)
    PROVE  ShedStep(p)
<1> DEFINE d == dev[p]
           pk == marker[Other(p)]
           l == [st |-> "established", role |-> d.row.role, hs |-> d.row.hs]
           a == [d EXCEPT !.fails = 0, !.live = l]
           e == SetRow(a, d.row)
           b == [d EXCEPT !.live = NoLive]
           r == [d.row EXCEPT !.st = "reconnect"]
           f == SetRow(b, r)
<1>1. /\ d \in DevT /\ Settled(d) /\ DevOK(d) /\ pk \in Nat /\ d.row \in RowT
  BY Here DEF DevT
<1>2. d.call.at = "restore" /\ d.row.st = "established"
  BY <1>1 DEF Restore, DevOK, RowAt
<1>3. \/ Set(p, At(e, "rekey")) \/ Set(p, Return(f))
  BY DEF Restore, Disconnect
<1>4. Keep
  BY DEF Restore
<1>5. l \in LiveT /\ l.st = "established" /\ l.role = d.row.role
  BY <1>1 DEF LiveT, RowT
<1>6. r \in RowT /\ r.st = "reconnect" /\ r.role = d.row.role /\ r.pk = d.row.pk /\ r.hs = d.row.hs
  BY <1>1 DEF RowT
<1> HIDE DEF d, pk, l, r
<1>7. a \in DevT /\ a.live = l /\ a.pend = d.pend /\ a.call = d.call
  BY <1>1, <1>5 DEF DevT
<1>8. b \in DevT /\ b.live = NoLive /\ b.pend = d.pend /\ b.call = d.call
  BY <1>1, Constants DEF DevT
<1> HIDE DEF a, b
<1>9. e \in DevT /\ e.row = d.row /\ e.live = l /\ e.pend = d.pend /\ e.call = d.call
  BY <1>1, <1>7, SetRowFacts
<1>10. f \in DevT /\ f.row = r /\ f.live = NoLive /\ f.pend = d.pend
  BY <1>6, <1>8, SetRowFacts
<1> HIDE DEF e, f
<1>11. NoLive.role = "none" /\ NoLive.st = "none"
  BY DEF NoLive
<1>12. Settled(e) /\ Part(d, e)
  BY <1>1, <1>2, <1>5, <1>9 DEF Settled, Part
<1>13. Settled(f) /\ Part(d, f)
  BY <1>1, <1>2, <1>6, <1>10, <1>11 DEF Settled, Part
<1>14. At(e, "rekey") = AtPk(e, "rekey", d.call.pk) /\ d.call.pk \in Nat
  BY <1>1, <1>9, AtIsAtPk DEF DevT, CallT
<1>15. Less(d, AtPk(e, "rekey", d.call.pk), pk)
  BY <1>1, <1>2, <1>9, <1>12, <1>14, AtPkLess DEF Stages
<1>16. Less(d, Return(f), pk)
  BY <1>1, <1>13, ReturnLess
<1> QED BY <1>3, <1>4, <1>14, <1>15, <1>16, SetSheds DEF d, pk

LEMMA RekeyFetchSheds ==
    ASSUME HInv, NEW p \in Devices, RekeyFetch(p)
    PROVE  ShedStep(p)
<1> DEFINE o == dev[p]
           d == [o EXCEPT !.refreshed = TRUE]
           pk == marker[Other(p)]
           e == Seen(d, pk)
<1>1. /\ o \in DevT /\ Settled(o) /\ DevOK(o) /\ pk \in Nat
  BY Here
<1>2. o.call.at = "rekey" /\ o.row.st = "established" /\ o.pend = NoPend
  BY <1>1 DEF RekeyFetch, DevOK, RowAt
<1>3. \/ Set(p, Return(o)) \/ Set(p, Return(d)) \/ Set(p, Return(e))
      \/ Set(p, AtPk(e, "rekeyprobe", pk)) /\ (User(d) \/ ~Exhausted(d)) /\ pk # d.row.pk
  BY DEF RekeyFetch
<1>4. Keep
  BY DEF RekeyFetch
<1> HIDE DEF o, pk
<1>5. d \in DevT /\ SameLink(o, d) /\ d.adv = o.adv /\ d.call = o.call
  BY <1>1 DEF DevT, SameLink
<1> HIDE DEF d
<1>6. /\ e \in DevT /\ SameRow(d, e) /\ e.live = d.live /\ e.pend = d.pend /\ e.adv = d.adv
      /\ e.call = d.call
  BY <1>1, <1>5, SeenFacts
<1> HIDE DEF e
<1>7. Settled(d) /\ Part(o, d) /\ Part(o, o)
  BY <1>1, <1>5 DEF Settled, Part, SameLink
<1>8. Settled(e) /\ Part(o, e)
  BY <1>1, <1>5, <1>6 DEF Settled, Part, SameLink, SameRow
<1>9. CASE Set(p, Return(o)) \/ Set(p, Return(d)) \/ Set(p, Return(e))
  BY <1>1, <1>4, <1>7, <1>8, <1>9, ReturnLess, SetSheds DEF o, pk
<1>10. CASE Set(p, AtPk(e, "rekeyprobe", pk)) /\ (User(d) \/ ~Exhausted(d)) /\ pk # d.row.pk
  <2>1. /\ e.call.kind = o.call.kind /\ e.row.st = "established" /\ e.row.pk # pk
        /\ e.pend = NoPend /\ (User(e) \/ ~Exhausted(e))
    BY <1>2, <1>5, <1>6, <1>10 DEF SameLink, SameRow, User, Exhausted
  <2>2. Less(o, AtPk(e, "rekeyprobe", pk), pk)
    BY <1>1, <1>8, <2>1, AtPkLess DEF Stages
  <2> QED BY <1>4, <1>10, <2>2, SetSheds DEF o, pk
<1> QED BY <1>3, <1>9, <1>10

(* A probe that finds nothing ends the call.                                 *)
LEMMA ReturnSheds ==
    ASSUME HInv, NEW p \in Devices, Set(p, Return(dev[p])), Keep
    PROVE  ShedStep(p)
<1>1. Part(dev[p], dev[p])
  BY DEF Part
<1> QED BY <1>1, Here, ReturnLess, SetSheds

LEMMA RekeyProbeSheds ==
    ASSUME HInv, NEW p \in Devices, RekeyProbe(p)
    PROVE  ShedStep(p) \/ (Inbound(p, dev[p].call.pk) /\ Answer(p, "park"))
BY ReturnSheds DEF RekeyProbe

LEMMA RestartProbeSheds ==
    ASSUME HInv, NEW p \in Devices, RestartProbe(p)
    PROVE  ShedStep(p) \/ (Inbound(p, dev[p].call.pk) /\ Answer(p, "adopt"))
BY ReturnSheds DEF RestartProbe

LEMMA DropLess ==
    ASSUME NEW o \in DevT, NEW d, Settled(d), Part(o, d), d.call.kind = o.call.kind, NEW pk
    PROVE  Less(o, DropParked(d), pk)
<1> DEFINE c == [d EXCEPT !.pend = NoPend, !.pendold = FALSE]
           e == Seen(c, d.pend.pk)
<1>1. d \in DevT /\ d.pend.pk \in Nat
  BY DEF Settled, DevT, PendT
<1>2. /\ c \in DevT /\ c.row = d.row /\ c.live = d.live /\ c.pend = NoPend
  BY <1>1, Constants DEF DevT
<1> HIDE DEF c
<1>3. e \in DevT /\ SameRow(c, e) /\ e.live = c.live /\ e.pend = c.pend
  BY <1>1, <1>2, SeenFacts
<1>e. d.row = NoRow => e.row = NoRow
  BY <1>2 DEF e, Seen, NoRow
<1>4. DropParked(d) = Return(e)
  BY DEF DropParked, c, e
<1> HIDE DEF e
<1>5. Settled(e) /\ Part(o, e)
  BY <1>2, <1>3, <1>e DEF Settled, Part, SameRow
<1> QED BY <1>4, <1>5, ReturnLess

(* The new session is committed: the peer has completed it.                  *)
Commits(p) ==
    LET d == dev[p]
    IN  /\ d.call.at = "rekey" /\ d.pend # NoPend /\ slots[Other(p)].m3 = d.pend.hs
        /\ Set(p, [d EXCEPT !.call.at = "commit", !.call.pk = d.pend.pk,
                            !.call.hs = d.pend.hs, !.pend = NoPend])
        /\ Keep

LEMMA RekeyAdvanceSheds ==
    ASSUME HInv, NEW p \in Devices, RekeyAdvance(p)
    PROVE  ShedStep(p) \/ Commits(p)
<1> DEFINE d == dev[p]
           c == IF User(d) THEN d ELSE ChargeThrottled(d)
           pk == marker[Other(p)]
<1>1. d \in DevT /\ Settled(d) /\ DevOK(d) /\ pk \in Nat
  BY Here
<1>2. Commits(p) \/ Set(p, DropParked(d)) \/ Set(p, Return(d)) \/ Set(p, DropParked(c)) \/ Set(p, Return(c))
  BY DEF RekeyAdvance, Commits
<1>3. Keep
  BY DEF RekeyAdvance
<1> HIDE DEF d, pk
<1>4. c \in DevT /\ SameLink(d, c) /\ c.call = d.call
  BY <1>1, ChargeFacts DEF SameLink
<1> HIDE DEF c
<1>5. Settled(c) /\ Part(d, c) /\ Part(d, d)
  BY <1>1, <1>4 DEF Settled, Part, SameLink
<1>6. Less(d, DropParked(d), pk) /\ Less(d, DropParked(c), pk)
  BY <1>1, <1>4, <1>5, DropLess
<1>7. Less(d, Return(d), pk) /\ Less(d, Return(c), pk)
  BY <1>1, <1>5, ReturnLess
<1> QED BY <1>2, <1>3, <1>6, <1>7, SetSheds DEF d, pk

(* Where a call goes on that found no msg1.                                  *)
LEMMA NoInboundLess ==
    ASSUME NEW d \in DevT, NEW e, Settled(e), Part(d, e), e.call = d.call, d.call.at = "probe",
           e.row.st \in {"none", "handshaking"}, NEW pk
    PROVE  Less(d, NoInbound(e), pk)
<1>1. e \in DevT /\ d.call.pk \in Nat
  BY DEF Settled, DevT, CallT
<1>2. Handshaking(e) <=> e.row.st = "handshaking"
  BY DEF Handshaking, Settled
<1>3. \/ NoInbound(e) = Return(e)
      \/ NoInbound(e) = AtPk(e, "advance", d.call.pk) /\ e.row.st = "handshaking"
      \/ NoInbound(e) = AtPk(e, "initiate", d.call.pk) /\ e.row.st = "none" /\ d.call.kind # "sync"
  BY <1>1, <1>2, AtIsAtPk DEF NoInbound, MayInitiate
<1>4. CASE NoInbound(e) = Return(e)
  BY <1>4, ReturnLess
<1>5. CASE NoInbound(e) = AtPk(e, "advance", d.call.pk) /\ e.row.st = "handshaking"
  BY <1>1, <1>5, AtPkLess DEF Stages
<1>6. CASE NoInbound(e) = AtPk(e, "initiate", d.call.pk) /\ e.row.st = "none" /\ d.call.kind # "sync"
  BY <1>1, <1>6, AtPkLess DEF Stages
<1> QED BY <1>3, <1>4, <1>5, <1>6

LEMMA FetchSheds ==
    ASSUME HInv, NEW p \in Devices, Fetch(p)
    PROVE  ShedStep(p)
<1> DEFINE d == dev[p]
           pk == marker[Other(p)]
           e == Seen(d, pk)
           c == Charge(e)
           g == Retire(c, e.row)
<1>1. /\ d \in DevT /\ Settled(d) /\ DevOK(d) /\ pk \in Nat /\ d.row \in RowT /\ d.call.pk \in Nat
  BY Here DEF DevT, CallT
<1>2. d.call.at = "fetch" /\ d.row.st \in {"none", "handshaking"} /\ (User(d) \/ ~Exhausted(d))
  BY <1>1 DEF Fetch, DevOK, RowAt, Budget
<1>3. \/ Set(p, At(d, "advance")) /\ Handshaking(d)
      \/ Set(p, Return(d))
      \/ Set(p, AtPk(e, "probe", pk)) /\ ~Responding(d)
      \/ Set(p, At(e, "advance")) /\ Responding(d)
      \/ Set(p, Abandon(c, e.row))
      \/ Set(p, Return(g))
      \/ Set(p, AtPk(g, "restart", pk)) /\ ~Exhausted(c)
  BY DEF Fetch
<1>4. Keep
  BY DEF Fetch
<1> HIDE DEF d, pk
<1>5. /\ e \in DevT /\ SameRow(d, e) /\ e.live = d.live /\ e.pend = d.pend /\ e.adv = d.adv
      /\ e.call = d.call
  BY <1>1, SeenFacts
<1> HIDE DEF e
<1>6. Settled(e) /\ Part(d, e) /\ Part(d, d) /\ e.row \in RowT
  BY <1>1, <1>5 DEF Settled, Part, SameRow, DevT
<1>7. c \in DevT /\ c.call = d.call
  BY <1>5, ChargeFacts
<1> HIDE DEF c
<1>8. Settled(g) /\ Part(d, g) /\ g.row.st = "none" /\ g.call = d.call /\ g.adv = c.adv
  <2>1. d.row.st # "established"
    BY <1>2
  <2>2. Settled(g) /\ Part(d, g) /\ g.row.st = "none"
    BY <1>1, <1>6, <1>7, <2>1, RetirePart
  <2>3. g.call = c.call /\ g.adv = c.adv
    BY <1>6, <1>7, RetireFacts
  <2> QED BY <1>7, <2>2, <2>3
<1> HIDE DEF g
<1>9. Handshaking(d) \/ Responding(d) => d.row.st = "handshaking" /\ e.row.st = "handshaking"
  BY <1>1, <1>2, <1>5 DEF Handshaking, Responding, Settled, SameRow
<1>10. /\ At(d, "advance") = AtPk(d, "advance", d.call.pk)
       /\ At(e, "advance") = AtPk(e, "advance", d.call.pk)
  BY <1>1, <1>5, AtIsAtPk
<1>11. CASE Set(p, At(d, "advance")) /\ Handshaking(d)
  <2>1. Less(d, AtPk(d, "advance", d.call.pk), pk)
    BY <1>1, <1>6, <1>9, <1>11, AtPkLess DEF Stages
  <2> QED BY <1>4, <1>10, <1>11, <2>1, SetSheds DEF d, pk
<1>12. CASE Set(p, Return(d)) \/ Set(p, Return(g))
  BY <1>1, <1>4, <1>6, <1>8, <1>12, ReturnLess, SetSheds DEF d, pk
<1>13. CASE Set(p, AtPk(e, "probe", pk)) /\ ~Responding(d)
  <2>1. e.row.st = "none" \/ e.row.role = "initiator"
    BY <1>1, <1>2, <1>5, <1>13 DEF Responding, Settled, SameRow, DevT, RowT, Roles
  <2>2. e.row.st \in {"none", "handshaking"} /\ (User(e) \/ ~Exhausted(e)) /\ e.call.kind = d.call.kind
    BY <1>2, <1>5 DEF SameRow, User, Exhausted
  <2>3. Less(d, AtPk(e, "probe", pk), pk)
    BY <1>1, <1>6, <2>1, <2>2, AtPkLess DEF Stages
  <2> QED BY <1>4, <1>13, <2>3, SetSheds DEF d, pk
<1>14. CASE Set(p, At(e, "advance")) /\ Responding(d)
  <2>1. Less(d, AtPk(e, "advance", d.call.pk), pk)
    BY <1>1, <1>5, <1>6, <1>9, <1>14, AtPkLess DEF Stages
  <2> QED BY <1>4, <1>10, <1>14, <2>1, SetSheds DEF d, pk
<1>15. CASE Set(p, Abandon(c, e.row))
  <2>1. Less(d, Abandon(c, e.row), pk)
    BY <1>1, <1>2, <1>6, <1>7, AbandonLess
  <2> QED BY <1>4, <1>15, <2>1, SetSheds DEF d, pk
<1>16. CASE Set(p, AtPk(g, "restart", pk)) /\ ~Exhausted(c)
  <2>1. ~Exhausted(g) /\ g.call.kind = d.call.kind
    BY <1>8, <1>16 DEF Exhausted
  <2>2. Less(d, AtPk(g, "restart", pk), pk)
    BY <1>1, <1>8, <2>1, AtPkLess DEF Stages
  <2> QED BY <1>4, <1>16, <2>2, SetSheds DEF d, pk
<1> QED BY <1>3, <1>11, <1>12, <1>13, <1>14, <1>15, <1>16

LEMMA ProbeSheds ==
    ASSUME HInv, NEW p \in Devices, Probe(p)
    PROVE  ShedStep(p) \/ (Inbound(p, dev[p].call.pk) /\ Answer(p, "adopt"))
<1> DEFINE d == dev[p]
           pk == marker[Other(p)]
           c == Charge(d)
           g == Retire(c, d.row)
           w == [g EXCEPT !.watch = <<NoHs, 0>>]
<1>1. /\ d \in DevT /\ Settled(d) /\ DevOK(d) /\ pk \in Nat /\ d.row \in RowT /\ d.call.pk \in Nat
  BY Here DEF DevT, CallT
<1>2. d.call.at = "probe" /\ d.row.st \in {"none", "handshaking"}
  BY <1>1 DEF Probe, DevOK, RowAt
<1>3. \/ Inbound(p, d.call.pk) /\ Answer(p, "adopt")
      \/ /\ Keep
         /\ \/ Set(p, NoInbound(d)) \/ Set(p, NoInbound(w)) \/ Set(p, NoInbound(g))
            \/ Set(p, g) /\ ~Exhausted(c)
  BY DEF Probe
<1> HIDE DEF d, pk
<1>4. c \in DevT /\ c.call = d.call
  BY <1>1, ChargeFacts
<1> HIDE DEF c
<1>5. /\ g \in DevT /\ Settled(g) /\ Part(d, g) /\ g.row.st = "none" /\ g.call = d.call /\ g.adv = c.adv
  BY <1>1, <1>2, <1>4, RetirePart, RetireFacts
<1> HIDE DEF g
<1>6. <<NoHs, 0>> \in HsT \X Nat
  BY Constants
<1>7. w \in DevT /\ SameLink(g, w) /\ w.call = g.call
  BY <1>5, <1>6, WatchFacts
<1> HIDE DEF w
<1>8. Settled(w) /\ Part(d, w) /\ w.row.st = "none" /\ w.call = d.call /\ Part(d, d)
  BY <1>5, <1>7 DEF Settled, Part, SameLink
<1>9. Less(d, NoInbound(d), pk) /\ Less(d, NoInbound(w), pk) /\ Less(d, NoInbound(g), pk)
  BY <1>1, <1>2, <1>5, <1>8, NoInboundLess
<1>10. ~Exhausted(c) => Less(d, g, pk)
  BY <1>2, <1>5 DEF Less, Shed, DevOK, RowAt, Memory, Budget, Settled, Exhausted
<1> QED BY <1>3, <1>9, <1>10, SetSheds DEF d, pk

(* msg1 is written.                                                          *)
Opens(p) ==
    /\ dev[p].call.at = "initiate"
    /\ tries' = tries + 1
    /\ slots' = [slots EXCEPT ![p].m1 = [i |-> tries + 1, own |-> marker[p], peer |-> dev[p].call.pk]]
    /\ Set(p, [dev[p] EXCEPT !.call.at = "initiated", !.call.hs = <<tries + 1, 0>>])
    /\ UNCHANGED <<marker, crashes>>

LEMMA InitiateSheds ==
    ASSUME HInv, NEW p \in Devices, Initiate(p)
    PROVE  ShedStep(p) \/ Opens(p)
BY ReturnSheds DEF Initiate, Opens

LEMMA RestoringSheds ==
    ASSUME HInv, NEW p \in Devices, Restoring(p)
    PROVE  ShedStep(p)
<1> DEFINE d == dev[p]
           pk == marker[Other(p)]
           l == [st |-> "established", role |-> d.row.role, hs |-> d.row.hs]
           e == [d EXCEPT !.live = l]
<1>1. d \in DevT /\ Settled(d) /\ DevOK(d) /\ pk \in Nat
  BY Here
<1>2. d.row.st = "established"
  BY <1>1 DEF Restoring, DevOK, RowAt
<1>3. (Set(p, Return(e)) \/ Set(p, Return(d))) /\ Keep
  BY DEF Restoring
<1>4. l \in LiveT /\ l.st = "established" /\ l.role = d.row.role
  BY <1>1 DEF LiveT, DevT, RowT
<1> HIDE DEF d, pk, l
<1>5. e \in DevT /\ e.row = d.row /\ e.live = l /\ e.pend = d.pend
  BY <1>1, <1>4 DEF DevT
<1> HIDE DEF e
<1>6. Settled(e) /\ Part(d, e) /\ Part(d, d)
  BY <1>1, <1>4, <1>5 DEF Settled, Part
<1>7. Less(d, Return(e), pk) /\ Less(d, Return(d), pk)
  BY <1>1, <1>6, ReturnLess
<1> QED BY <1>3, <1>7, SetSheds DEF d, pk

LEMMA WatchSheds ==
    ASSUME HInv, NEW p \in Devices, Watch(p)
    PROVE  ShedStep(p)
<1> DEFINE d == dev[p]
           pk == marker[Other(p)]
           c == Charge(d)
           g == Retire(c, d.row)
           w == [g EXCEPT !.watch = <<NoHs, 0>>]
           n == [w EXCEPT !.call.again = TRUE]
           z == [d EXCEPT !.watch[2] = 0]
<1>1. /\ d \in DevT /\ Settled(d) /\ DevOK(d) /\ pk \in Nat /\ d.row \in RowT
  BY Here DEF DevT
<1>2. d.call.at = "watch" /\ d.row.st = "handshaking"
  BY <1>1 DEF Watch, DevOK, RowAt
<1>3. /\ \/ Set(p, Return(d)) \/ Set(p, Return(z)) \/ Set(p, Abandon(c, d.row)) \/ Set(p, Return(w))
         \/ Set(p, AtPk(n, "initiate", pk)) /\ ~Exhausted(c)
      /\ Keep
  BY DEF Watch
<1> HIDE DEF d, pk
<1>4. c \in DevT /\ c.call = d.call
  BY <1>1, ChargeFacts
<1>c. ~Exhausted(c) => ~Exhausted(d)
  BY <1>1, StaysExhausted DEF c
<1>5. z \in DevT /\ SameLink(d, z)
  BY <1>1, Watch2Facts
<1> HIDE DEF c, z
<1>6. g \in DevT /\ Settled(g) /\ Part(d, g) /\ g.row.st = "none" /\ g.call = d.call
  BY <1>1, <1>2, <1>4, RetirePart, RetireFacts
<1> HIDE DEF g
<1>7. <<NoHs, 0>> \in HsT \X Nat
  BY Constants
<1>8. w \in DevT /\ SameLink(g, w) /\ w.call = g.call
  BY <1>6, <1>7, WatchFacts
<1> HIDE DEF w
<1>9. n \in DevT /\ SameLink(w, n) /\ n.call.kind = d.call.kind
  BY <1>6, <1>8 DEF DevT, CallT, SameLink
<1> HIDE DEF n
<1>10. Settled(w) /\ Part(d, w) /\ Settled(n) /\ Part(d, n) /\ n.row.st = "none"
  BY <1>6, <1>8, <1>9 DEF Settled, Part, SameLink
<1>11. Settled(z) /\ Part(d, z) /\ Part(d, d)
  BY <1>1, <1>5 DEF Settled, Part, SameLink
<1>12. Less(d, Return(d), pk) /\ Less(d, Return(z), pk) /\ Less(d, Return(w), pk)
  BY <1>1, <1>10, <1>11, ReturnLess
<1>13. Less(d, Abandon(c, d.row), pk)
  BY <1>1, <1>2, <1>4, AbandonLess
<1>14. ~Exhausted(c) => Less(d, AtPk(n, "initiate", pk), pk)
  BY <1>1, <1>2, <1>9, <1>10, <1>c, AtPkLess DEF Stages
<1> QED BY <1>3, <1>12, <1>13, <1>14, SetSheds DEF d, pk

LEMMA LiveFacts ==
    ASSUME NEW o, Settled(o), o.row.st = "handshaking"
    PROVE  LET d == Live(o)
           IN  /\ Settled(d) /\ Part(o, d) /\ d.row = o.row /\ d.call = o.call /\ d.pend = NoPend
               /\ d.live.role = o.row.role /\ d.live.hs = o.row.hs
<1> DEFINE l == [st |-> "handshaking", role |-> o.row.role, hs |-> o.row.hs]
           e == [o EXCEPT !.live = l]
<1>1. o \in DevT /\ o.pend = NoPend
  BY DEF Settled
<1>2. l \in LiveT /\ l.st = "handshaking" /\ l.role = o.row.role /\ l.hs = o.row.hs
  BY <1>1 DEF LiveT, DevT, RowT
<1>3. Live(o) = IF o.live.st = "handshaking" THEN o ELSE e
  BY DEF Live
<1> HIDE DEF l
<1>4. e \in DevT /\ e.row = o.row /\ e.live = l /\ e.pend = o.pend /\ e.call = o.call
  BY <1>1, <1>2 DEF DevT
<1> HIDE DEF e
<1>5. CASE o.live.st = "handshaking"
  <2>1. Live(o) = o
    BY <1>3, <1>5
  <2>2. o.live.hs = o.row.hs /\ o.live.role = o.row.role
    BY <1>5 DEF Settled
  <2> QED BY <1>1, <2>1, <2>2 DEF Part
<1>6. CASE o.live.st # "handshaking"
  BY <1>1, <1>2, <1>3, <1>4, <1>6 DEF Settled, Part
<1> QED BY <1>5, <1>6

(* The initiator reads msg2 and writes msg3; the responder reads it.         *)
Completes(p) ==
    LET d == Live(dev[p])
    IN  /\ dev[p].call.at = "advance" /\ d.live.role = "initiator"
        /\ slots' = [slots EXCEPT ![p].m3 = slots[Other(p)].m2]
        /\ Set(p, [d EXCEPT !.call.at = "complete", !.call.hs = slots[Other(p)].m2])
        /\ UNCHANGED <<marker, tries, crashes>>

ReadsLast(p) ==
    LET d == Live(dev[p])
    IN  /\ dev[p].call.at = "advance" /\ slots[Other(p)].m3 = d.live.hs /\ d.live.role = "responder"
        /\ Set(p, [d EXCEPT !.call.at = "complete", !.call.hs = d.live.hs])
        /\ Keep

LEMMA AdvanceSheds ==
    ASSUME HInv, NEW p \in Devices, Advance(p)
    PROVE  ShedStep(p) \/ Completes(p) \/ ReadsLast(p)
<1> DEFINE o == dev[p]
           pk == marker[Other(p)]
           d == Live(o)
           hs == d.live.hs
           n == IF d.watch[1] # hs THEN 1 ELSE IF d.watch[2] < PollLimit THEN d.watch[2] + 1 ELSE PollLimit
           r == [d.row EXCEPT !.hs = hs, !.st = "handshaking"]
           f == [d EXCEPT !.fails = 0]
           s == SetRow(f, r)
           w == [s EXCEPT !.watch = <<hs, n>>]
<1>1. /\ o \in DevT /\ Settled(o) /\ DevOK(o) /\ pk \in Nat /\ o.row \in RowT
  BY Here DEF DevT
<1>2. o.call.at = "advance" /\ o.row.st = "handshaking"
  BY <1>1 DEF Advance, DevOK, RowAt
<1>3. \/ Completes(p) \/ ReadsLast(p)
      \/ /\ Keep
         /\ \/ Set(p, At(w, "watch")) /\ d.live.role = "initiator"
            \/ Set(p, Return(w)) \/ Set(p, Return(s))
            \/ Set(p, NetworkFailure(d, d.row)) \/ Set(p, Wedged(d, d.row))
  BY DEF Advance, Completes, ReadsLast
<1> HIDE DEF o, pk
<1>4. /\ Settled(d) /\ Part(o, d) /\ d.row = o.row /\ d.call = o.call /\ d.pend = NoPend
      /\ d.live.role = o.row.role /\ d.live.hs = o.row.hs
  BY <1>1, <1>2, LiveFacts
<1> HIDE DEF d
<1>5. d \in DevT /\ hs \in HsT /\ n \in Nat
  BY <1>4, HandshakeAssumption DEF Settled, DevT, LiveT
<1>6. r \in RowT /\ r.st = "handshaking" /\ r.role = o.row.role /\ r.pk = o.row.pk /\ r.hs = o.row.hs
  BY <1>1, <1>4, <1>5 DEF RowT
<1>7. f \in DevT /\ SameLink(d, f) /\ f.call = d.call
  BY <1>5 DEF DevT, SameLink
<1> HIDE DEF hs, n, r, f
<1>8. s \in DevT /\ s.row = r /\ s.live = f.live /\ s.pend = f.pend /\ s.call = f.call
  BY <1>6, <1>7, SetRowFacts
<1> HIDE DEF s
<1>9. w \in DevT /\ SameLink(s, w) /\ w.call = s.call
  BY <1>5, <1>8, WatchFacts
<1> HIDE DEF w
<1>10. Settled(s) /\ Part(o, s)
  BY <1>2, <1>4, <1>6, <1>7, <1>8 DEF Settled, Part, SameLink, hs
<1>11. Settled(w) /\ Part(o, w) /\ w.row.st = "handshaking" /\ w.call = o.call
  BY <1>4, <1>6, <1>7, <1>8, <1>9, <1>10 DEF Settled, Part, SameLink
<1>12. Less(o, Return(s), pk) /\ Less(o, Return(w), pk)
  BY <1>1, <1>10, <1>11, ReturnLess
<1>13. ASSUME d.live.role = "initiator"
       PROVE  Less(o, At(w, "watch"), pk)
  <2>1. At(w, "watch") = AtPk(w, "watch", o.call.pk) /\ o.call.pk \in Nat
    BY <1>1, <1>9, <1>11, AtIsAtPk DEF DevT, CallT
  <2>2. "initiator" \in {o.row.role, o.live.role}
    BY <1>4, <1>13
  <2> QED BY <1>1, <1>11, <2>1, <2>2, AtPkLess DEF Stages
<1>14. ASSUME NEW e \in DevT, DevOK(e), e.call.kind \in {"sync", d.call.kind}, e.call.pk \in {0, d.call.pk},
              e.call.at \in {"idle", "rotation", "restore", "rekey", "fetch"},
              (e.row = d.row /\ e.live = d.live /\ e.pend = d.pend)
              \/ (e.row = NoRow /\ e.live = NoLive /\ e.pend = NoPend)
       PROVE  Less(o, e, pk)
  <2>1. NoLive.role = "none"
    BY DEF NoLive
  <2> QED BY <1>2, <1>4, <1>14, <2>1 DEF Less, Shed, Part
<1>15. d.row \in RowT /\ d.row.st # "established"
  BY <1>1, <1>2, <1>4
<1>16. Less(o, NetworkFailure(d, d.row), pk)
  <2> DEFINE e == NetworkFailure(d, d.row)
  <2>1. /\ e \in DevT /\ DevOK(e)
        /\ \/ e.row = d.row /\ e.live = d.live /\ e.pend = d.pend
           \/ e.row = NoRow /\ e.live = NoLive /\ e.pend = NoPend
        /\ e.call.kind \in {"sync", d.call.kind} /\ e.call.pk \in {0, d.call.pk}
        /\ e.call.at \in {"idle", "rotation", "restore", "rekey", "fetch"}
    BY <1>1, <1>4, <1>15, FailsFacts
  <2> HIDE DEF e
  <2>2. Less(o, e, pk)
    BY <1>14, <2>1
  <2> QED BY <2>2 DEF e
<1>17. Less(o, Wedged(d, d.row), pk)
  <2> DEFINE e == Wedged(d, d.row)
  <2>1. /\ e \in DevT /\ DevOK(e)
        /\ e.row = NoRow /\ e.live = NoLive /\ e.pend = NoPend
        /\ e.call.kind \in {"sync", d.call.kind} /\ e.call.pk \in {0, d.call.pk}
        /\ e.call.at \in {"idle", "rotation", "restore", "rekey", "fetch"}
    BY <1>1, <1>4, <1>15, WedgedFacts
  <2> HIDE DEF e
  <2>2. Less(o, e, pk)
    BY <1>14, <2>1
  <2> QED BY <2>2 DEF e
<1> QED BY <1>3, <1>12, <1>13, <1>16, <1>17, SetSheds DEF o, pk

(* Time, resets and reloads.                                                 *)
LEMMA IdleLess ==
    ASSUME NEW d \in DevT, NEW e, Settled(e), Part(d, e), e.call = Idle, NEW pk
    PROVE  Less(d, e, pk)
<1>1. Idle.at = "idle" /\ Idle.kind = "sync" /\ Idle.pk = 0
  BY DEF Idle
<1> QED BY <1>1 DEF Less, Shed, DevOK, RowAt, Memory, Budget, Settled

LEMMA TickSheds ==
    ASSUME HInv, NEW p \in Devices, Tick(p)
    PROVE  ShedStep(p)
<1> DEFINE d == dev[p]
           pk == marker[Other(p)]
           e == Ticked(d)
           o == d.row.st = "handshaking"
           h == d.pend # NoPend
           f == [e EXCEPT !.old = o, !.pendold = h]
<1>1. /\ d \in DevT /\ Settled(d) /\ DevOK(d)
  BY Here
<1>2. d.call = Idle
  BY <1>1 DEF Tick, DevOK, Memory
<1>3. (Set(p, e) \/ Set(p, f)) /\ Keep
  BY DEF Tick
<1> HIDE DEF d, pk
<1>4. e \in DevT /\ SameLink(d, e) /\ e.call = d.call
  BY <1>1 DEF Ticked, DevT, SameLink
<1>5. o \in BOOLEAN /\ h \in BOOLEAN
  OBVIOUS
<1> HIDE DEF e, o, h
<1>6. f \in DevT /\ SameLink(d, f) /\ f.call = d.call
  BY <1>4, <1>5 DEF DevT, SameLink
<1> HIDE DEF f
<1>7. Settled(e) /\ Part(d, e) /\ Settled(f) /\ Part(d, f)
  BY <1>1, <1>4, <1>6 DEF Settled, Part, SameLink
<1>8. Less(d, e, pk) /\ Less(d, f, pk)
  BY <1>1, <1>2, <1>4, <1>6, <1>7, IdleLess
<1> QED BY <1>3, <1>8, SetSheds DEF d, pk

LEMMA ResetSheds ==
    ASSUME HInv, NEW p \in Devices, Reset(p)
    PROVE  ShedStep(p)
<1> DEFINE d == dev[p]
           pk == marker[Other(p)]
           g == Retire(d, d.row)
<1>1. /\ d \in DevT /\ Settled(d) /\ DevOK(d) /\ d.row \in RowT
  BY Here DEF DevT
<1>2. d.call = Idle
  BY <1>1 DEF Reset, DevOK, Memory
<1>3. Set(p, g) /\ Keep
  BY DEF Reset
<1> HIDE DEF d, pk
<1>4. Settled(g) /\ Part(d, g) /\ g.call = Idle
  BY <1>1, <1>2, RetirePart, RetireFacts
<1>5. Less(d, g, pk)
  BY <1>1, <1>4, IdleLess
<1> QED BY <1>3, <1>5, SetSheds DEF d, pk, g

LEMMA ReloadSheds ==
    ASSUME HInv, NEW p \in Devices, Reload(p)
    PROVE  ShedStep(p)
<1> DEFINE d == dev[p]
           pk == marker[Other(p)]
           e == [d EXCEPT !.live = NoLive, !.pend = NoPend, !.pendold = FALSE, !.watch = <<NoHs, 0>>,
                          !.parks = 0, !.refreshed = FALSE, !.call = Idle]
<1>1. d \in DevT /\ Settled(d)
  BY Here
<1>2. Set(p, e) /\ UNCHANGED <<marker, slots, tries>>
  BY DEF Reload
<1> HIDE DEF d, pk
<1>3. <<NoHs, 0>> \in HsT \X Nat
  BY Constants
<1>4. e \in DevT /\ e.row = d.row /\ e.live = NoLive /\ e.pend = NoPend /\ e.call = Idle
  BY <1>1, <1>3, Constants DEF DevT
<1> HIDE DEF e
<1>5. NoLive.role = "none" /\ NoLive.st = "none"
  BY DEF NoLive
<1>6. Settled(e) /\ Part(d, e)
  BY <1>1, <1>4, <1>5 DEF Settled, Part
<1>7. Less(d, e, pk)
  BY <1>1, <1>4, <1>6, IdleLess
<1>8. dev' = [dev EXCEPT ![p] = dev'[p]] /\ dev'[p] = e
  BY <1>2, SetFacts DEF HInv
<1> QED BY <1>2, <1>7, <1>8 DEF ShedStep, d, pk

-------------------------------------------------------------------------------
(* What a step of p leaves: the invariant of p, and that of the other end.   *)
Local(p) ==
    /\ dev' = [dev EXCEPT ![p] = dev'[p]] /\ dev'[p] \in DevT /\ DevOK(dev'[p])
    /\ slots' = [slots EXCEPT ![p] = slots'[p]] /\ slots'[p] \in SlotT
    /\ marker' \in [Devices -> Nat] /\ tries' \in Nat
    /\ Answered(dev'[p], slots'[p].m2, slots[Other(p)].m3)
    /\ Answered(dev[Other(p)], slots[Other(p)].m2, slots'[p].m3)

LEMMA LocalKeeps ==
    ASSUME HInv, NEW p \in Devices, Local(p)
    PROVE  HInv'
<1> DEFINE o == Other(p)
<1>1. o \in Devices /\ o # p /\ Other(o) = p /\ \A q \in Devices : q = p \/ q = o
  BY OtherEnd
<1>2. Typed'
  BY DEF HInv, Typed, Local
<1>3. dev'[o] = dev[o] /\ slots'[o] = slots[o] /\ DevOK(dev[o])
  BY <1>1 DEF HInv, Typed, Local
<1> HIDE DEF o
<1>4. DevOK(dev'[p]) /\ Answered(dev'[p], slots'[p].m2, slots'[o].m3)
  BY <1>3 DEF Local, o
<1>5. DevOK(dev'[o]) /\ Answered(dev'[o], slots'[o].m2, slots'[p].m3)
  BY <1>3 DEF Local, o
<1>6. \A q \in Devices : DevOK(dev'[q]) /\ Answered(dev'[q], slots'[q].m2, slots'[Other(q)].m3)
  BY <1>1, <1>4, <1>5 DEF o
<1> QED BY <1>2, <1>6 DEF HInv

(* A step that writes nothing to the outbox of p.                            *)
Quiet(p) ==
    /\ dev' = [dev EXCEPT ![p] = dev'[p]] /\ dev'[p] \in DevT /\ DevOK(dev'[p])
    /\ UNCHANGED <<marker, slots, tries>>

LEMMA QuietLocal ==
    ASSUME HInv, NEW p \in Devices, Quiet(p), Answered(dev'[p], slots[p].m2, slots[Other(p)].m3)
    PROVE  Local(p)
<1>1. Other(p) \in Devices /\ Other(Other(p)) = p
  BY OtherEnd
<1>2. slots \in [Devices -> SlotT] /\ slots' = slots
  BY DEF HInv, Typed, Quiet
<1>3. slots' = [slots EXCEPT ![p] = slots'[p]] /\ slots'[p] \in SlotT
  BY <1>2
<1>4. Answered(dev[Other(p)], slots[Other(p)].m2, slots[p].m3)
  BY <1>1 DEF HInv
<1> QED BY <1>2, <1>3, <1>4 DEF Quiet, Local, HInv, Typed

LEMMA LessLocal ==
    ASSUME HInv, NEW p \in Devices, NEW d, NEW pk, Less(d, dev'[p], pk), d.pend = dev[p].pend,
           dev' = [dev EXCEPT ![p] = dev'[p]], UNCHANGED <<marker, slots, tries>>
    PROVE  Local(p)
<1>1. Answered(dev[p], slots[p].m2, slots[Other(p)].m3)
  BY DEF HInv
<1>2. Answered(dev'[p], slots[p].m2, slots[Other(p)].m3)
  BY <1>1 DEF Answered, Less, Shed, Part
<1> QED BY <1>2, QuietLocal DEF Quiet, Less

(* msg1 of the peer is answered.                                             *)
Answers(p) ==
    /\ Inbound(p, dev[p].call.pk)
    /\ \/ dev[p].call.at \in {"probe", "restart"} /\ Answer(p, "adopt")
       \/ dev[p].call.at = "rekeyprobe" /\ Answer(p, "park")

LEMMA AnswersFacts ==
    ASSUME HInv, NEW p \in Devices, Answers(p)
    PROVE  /\ Local(p) /\ UNCHANGED marker
           /\ SameLink(dev[p], dev'[p]) /\ dev'[p].pend = NoPend
           /\ slots'[p].m1 = slots[p].m1 /\ slots'[p].m3 = slots[p].m3
           /\ dev'[p].call.at \in {"adopt", "park"} /\ dev'[p].call.kind = dev[p].call.kind
           /\ dev'[p].call.pk = dev[p].call.pk
           /\ dev'[p].call.at = "adopt" => dev[p].call.at \in {"probe", "restart"}
           /\ dev'[p].call.at = "park" => dev[p].call.at = "rekeyprobe"
<1> DEFINE d == dev[p]
           o == Other(p)
           n == IF dev[p].call.at = "rekeyprobe" THEN "park" ELSE "adopt"
           hs == <<slots[o].m1.i, tries + 1>>
           e == [d EXCEPT !.call.at = n, !.call.hs = hs]
           t == [slots[p] EXCEPT !.m2 = hs]
<1>1. /\ Typed /\ d \in DevT /\ DevOK(d) /\ o \in Devices /\ Other(o) = p
  BY Here, OtherEnd
<1>2. d.call.at \in {"probe", "restart", "rekeyprobe"}
  BY DEF Answers
<1>3. slots[o] \in SlotT /\ slots[p] \in SlotT
  BY <1>1 DEF Typed
<1>4. hs \in HsT
  BY <1>1, <1>3 DEF Typed, SlotT, HsT
<1>5. Set(p, e) /\ slots' = [slots EXCEPT ![p].m2 = hs] /\ tries' = tries + 1 /\ UNCHANGED marker
  BY DEF Answers, Answer
<1>6. slots' = [slots EXCEPT ![p] = t]
  BY <1>5
<1>7. t \in SlotT /\ t.m1 = slots[p].m1 /\ t.m2 = hs /\ t.m3 = slots[p].m3
  BY <1>3, <1>4 DEF SlotT
<1>8. n \in Stages /\ n \in {"adopt", "park"} /\ (n = "park" <=> d.call.at = "rekeyprobe")
  BY DEF Stages
<1> HIDE DEF hs, t, n
<1>9. slots' = [slots EXCEPT ![p] = slots'[p]] /\ slots'[p] = t
  BY <1>1, <1>6 DEF Typed
<1>10. /\ e \in DevT /\ SameLink(d, e) /\ e.call.at = n /\ e.call.kind = d.call.kind
       /\ e.call.pk = d.call.pk /\ e.call.hs = hs
  BY <1>1, <1>4, <1>8 DEF DevT, CallT, SameLink
<1>11. dev' = [dev EXCEPT ![p] = dev'[p]] /\ dev'[p] = e
  BY <1>1, <1>5, SetFacts
<1> HIDE DEF e
<1>12. d.pend = NoPend
  BY <1>1, <1>2 DEF DevOK, RowAt, Memory
<1>13. DevOK(e)
  <2>1. RowAt(e)
    BY <1>1, <1>2, <1>8, <1>10 DEF DevOK, RowAt, SameLink
  <2>2. Memory(e)
    BY <1>1, <1>8, <1>10, <1>12 DEF DevOK, Memory, SameLink
  <2>3. Budget(e)
    BY <1>8, <1>10 DEF Budget
  <2> QED BY <2>1, <2>2, <2>3 DEF DevOK
<1>14. Answered(e, hs, slots[o].m3)
  BY <1>8, <1>10, <1>12 DEF Answered, SameLink
<1>15. Answered(dev[o], slots[o].m2, slots[p].m3)
  BY <1>1 DEF HInv
<1>16. marker' \in [Devices -> Nat] /\ tries' \in Nat
  BY <1>1, <1>5 DEF Typed
<1>17. Local(p)
  BY <1>7, <1>9, <1>10, <1>11, <1>13, <1>14, <1>15, <1>16 DEF Local, o
<1>18. SameLink(d, e) /\ e.pend = NoPend
  BY <1>10, <1>12 DEF SameLink
<1> QED BY <1>2, <1>5, <1>7, <1>8, <1>9, <1>10, <1>11, <1>17, <1>18

LEMMA ParkFacts ==
    ASSUME HInv, NEW p \in Devices, Park(p)
    PROVE  /\ Local(p) /\ UNCHANGED <<marker, slots>>
           /\ dev'[p].row = dev[p].row /\ dev'[p].live = dev[p].live
           /\ dev'[p].pend \in {NoPend, [pk |-> dev[p].call.pk, hs |-> dev[p].call.hs]}
           /\ dev'[p].call.at \in {"idle", "rekey"} /\ dev'[p].call.kind \in {"sync", dev[p].call.kind}
           /\ dev'[p].call.pk \in {0, dev[p].call.pk}
<1> DEFINE o == dev[p]
           c == Charge(o)
           n == IF c.parks < ParkLimit THEN c.parks + 1 ELSE c.parks
           d == [c EXCEPT !.parks = n]
           h == [pk |-> d.call.pk, hs |-> d.call.hs]
           k == [d EXCEPT !.pend = h, !.pendold = FALSE]
           e == dev'[p]
<1>1. /\ o \in DevT /\ DevOK(o)
  BY Here
<1>2. o.call.at = "park" /\ o.row.st = "established" /\ o.pend = NoPend /\ o.call.hs = slots[p].m2
  BY <1>1 DEF Park, DevOK, RowAt, Memory, HInv, Answered
<1>3. c \in DevT /\ SameLink(o, c) /\ c.call = o.call
  BY <1>1, ChargeFacts
<1>4. (Set(p, Return(d)) \/ Set(p, Return(k)) \/ Set(p, At(k, "rekey"))) /\ Keep
  <2>1. d = [c EXCEPT !.parks = IF @ < ParkLimit THEN @ + 1 ELSE @]
    BY <1>3 DEF DevT
  <2> QED BY <2>1 DEF Park
<1>5. n \in Nat
  BY <1>3 DEF DevT
<1> HIDE DEF o, c, n
<1>6. d \in DevT /\ SameLink(c, d) /\ d.call = c.call
  BY <1>3, <1>5 DEF DevT, SameLink
<1> HIDE DEF d
<1>7. h \in PendT /\ h = [pk |-> o.call.pk, hs |-> o.call.hs] /\ h.hs = o.call.hs
  BY <1>3, <1>6 DEF DevT, CallT, PendT
<1> HIDE DEF h
<1>8. k \in DevT /\ k.row = d.row /\ k.live = d.live /\ k.pend = h /\ k.call = d.call
  BY <1>6, <1>7 DEF DevT
<1> HIDE DEF k
<1>9. Settled(d) /\ Settled(k)
  BY <1>1, <1>2, <1>3, <1>6, <1>8 DEF Settled, SameLink, DevOK, Memory
<1>10. \/ e = Return(d) \/ e = Return(k) \/ e = At(k, "rekey")
  BY <1>4, SetFacts DEF HInv
<1>11. dev' = [dev EXCEPT ![p] = e]
  BY <1>4, SetFacts DEF HInv
<1> HIDE DEF e
<1>12. /\ e \in DevT /\ DevOK(e) /\ e.row = o.row /\ e.live = o.live /\ e.pend \in {NoPend, h}
       /\ e.call.at \in {"idle", "rekey"} /\ e.call.kind \in {"sync", o.call.kind}
       /\ e.call.pk \in {0, o.call.pk}
  <2>1. CASE e = Return(d) \/ e = Return(k)
    BY <1>2, <1>3, <1>6, <1>8, <1>9, <2>1, Returns DEF SameLink
  <2>2. CASE e = At(k, "rekey")
    <3>1. e \in DevT /\ SameLink(k, e) /\ e.call.at = "rekey" /\ e.call.kind = k.call.kind /\ e.call.pk = k.call.pk
      BY <1>8, <2>2, AtFacts DEF Stages
    <3>2. RowAt(e) /\ Budget(e)
      BY <1>2, <1>3, <1>6, <1>8, <3>1 DEF RowAt, Budget, SameLink
    <3>3. Memory(e)
      BY <1>9, <1>2, <1>3, <1>6, <1>8, <3>1 DEF Memory, SameLink, Settled
    <3> QED BY <1>3, <1>6, <1>8, <3>1, <3>2, <3>3 DEF SameLink, DevOK
  <2> QED BY <1>10, <2>1, <2>2
<1>13. Answered(e, slots[p].m2, slots[Other(p)].m3)
  BY <1>2, <1>7, <1>12 DEF Answered
<1>14. Quiet(p)
  BY <1>4, <1>11, <1>12 DEF Quiet, Keep, e
<1>15. Local(p)
  BY <1>13, <1>14, QuietLocal DEF e
<1> QED BY <1>4, <1>7, <1>12, <1>15 DEF Keep, e, o

LEMMA CommitsFacts ==
    ASSUME HInv, NEW p \in Devices, Commits(p)
    PROVE  /\ Local(p) /\ UNCHANGED <<marker, slots>>
           /\ dev'[p].row = dev[p].row /\ dev'[p].live = dev[p].live /\ dev'[p].pend = NoPend
           /\ dev'[p].call.at = "commit" /\ dev'[p].call.kind = dev[p].call.kind
           /\ dev'[p].call.pk = dev[p].pend.pk /\ dev[p].pend # NoPend
<1> DEFINE d == dev[p]
           c == [d.call EXCEPT !.at = "commit", !.pk = d.pend.pk, !.hs = d.pend.hs]
           e == [d EXCEPT !.call = c, !.pend = NoPend]
<1>1. /\ d \in DevT /\ DevOK(d)
  BY Here
<1>2. d.call.at = "rekey" /\ d.pend # NoPend /\ d.row.st = "established" /\ slots[Other(p)].m3 = d.pend.hs
  BY <1>1 DEF Commits, DevOK, RowAt
<1>3. slots[p].m2 = d.pend.hs
  BY <1>2 DEF HInv, Answered
<1>4. Set(p, e) /\ Keep
  BY <1>1 DEF Commits, DevT, CallT
<1>5. c \in CallT /\ c.at = "commit" /\ c.kind = d.call.kind /\ c.pk = d.pend.pk /\ c.hs = d.pend.hs
  BY <1>1 DEF DevT, CallT, PendT, Stages
<1> HIDE DEF d, c
<1>6. e \in DevT /\ e.row = d.row /\ e.live = d.live /\ e.pend = NoPend /\ e.call = c
  BY <1>1, <1>5, Constants DEF DevT
<1> HIDE DEF e
<1>7. dev' = [dev EXCEPT ![p] = dev'[p]] /\ dev'[p] = e
  BY <1>4, SetFacts DEF HInv
<1>8. DevOK(e)
  BY <1>1, <1>2, <1>5, <1>6 DEF DevOK, RowAt, Memory, Budget
<1>9. Answered(e, slots[p].m2, slots[Other(p)].m3)
  BY <1>2, <1>3, <1>5, <1>6 DEF Answered
<1>10. Local(p)
  BY <1>4, <1>6, <1>7, <1>8, <1>9, QuietLocal DEF Quiet, Keep
<1> QED BY <1>2, <1>4, <1>5, <1>6, <1>7, <1>10 DEF Keep, d

LEMMA CommitFacts ==
    ASSUME HInv, NEW p \in Devices, Commit(p)
    PROVE  /\ Local(p) /\ UNCHANGED <<marker, slots>>
           /\ dev'[p].row = [st |-> "established", role |-> "responder", pk |-> dev[p].call.pk,
                             seen |-> dev[p].call.pk, hs |-> dev[p].call.hs]
           /\ dev'[p].live.role = "responder" /\ dev'[p].pend = NoPend /\ dev'[p].call = Idle
           /\ dev[p].call.at = "commit" /\ dev[p].row.st = "established"
           /\ slots[p].m2 = dev[p].call.hs /\ slots[Other(p)].m3 = dev[p].call.hs
<1> DEFINE d == dev[p]
           c == ClearBudget(d)
           l == [st |-> "established", role |-> "responder", hs |-> d.call.hs]
           a == [st |-> d.row.st, hs |-> d.row.hs]
           b == [c EXCEPT !.arch = a, !.live = l, !.watch = <<NoHs, 0>>]
           r == [st |-> "established", role |-> "responder", pk |-> d.call.pk, seen |-> d.call.pk, hs |-> d.call.hs]
           f == SetRow(b, r)
           e == Return(f)
<1>1. /\ d \in DevT /\ DevOK(d)
  BY Here
<1>2. /\ d.call.at = "commit" /\ d.row.st = "established" /\ d.pend = NoPend
      /\ slots[p].m2 = d.call.hs /\ slots[Other(p)].m3 = d.call.hs
  BY <1>1 DEF Commit, DevOK, RowAt, Memory, HInv, Answered
<1>3. Set(p, e) /\ Keep
  BY DEF Commit
<1>4. c \in DevT /\ SameLink(d, c)
  BY <1>1, ClearFacts
<1>5. /\ l \in LiveT /\ l.role = "responder" /\ l.st = "established"
      /\ a \in [st : {"none", "handshaking", "established", "reconnect"}, hs : HsT]
      /\ r \in RowT /\ r.st = "established" /\ r.role = "responder"
      /\ <<NoHs, 0>> \in HsT \X Nat
  BY <1>1, Constants DEF DevT, CallT, LiveT, RowT, Roles
<1> HIDE DEF c, a, l, r
<1>6. b \in DevT /\ b.live = l /\ b.pend = d.pend
  BY <1>4, <1>5 DEF DevT, SameLink
<1> HIDE DEF b
<1>7. f \in DevT /\ f.row = r /\ f.live = l /\ f.pend = NoPend
  BY <1>2, <1>5, <1>6, SetRowFacts
<1> HIDE DEF f
<1>8. Settled(f)
  BY <1>5, <1>7 DEF Settled
<1>9. e \in DevT /\ DevOK(e) /\ e.row = r /\ e.live = l /\ e.pend = NoPend /\ e.call = Idle /\ e.call.at = "idle"
  BY <1>7, <1>8, Returns DEF SameLink
<1> HIDE DEF e
<1>10. dev' = [dev EXCEPT ![p] = dev'[p]] /\ dev'[p] = e
  BY <1>3, SetFacts DEF HInv
<1>11. Answered(e, slots[p].m2, slots[Other(p)].m3)
  BY <1>9 DEF Answered
<1>12. Local(p)
  BY <1>3, <1>9, <1>10, <1>11, QuietLocal DEF Quiet, Keep
<1> QED BY <1>2, <1>3, <1>5, <1>9, <1>10, <1>12 DEF Keep, r, d

LEMMA AdoptFacts ==
    ASSUME HInv, NEW p \in Devices, Adopt(p)
    PROVE  /\ Local(p) /\ UNCHANGED <<marker, slots>>
           /\ dev'[p].row = [st |-> "handshaking", role |-> "responder", pk |-> dev[p].call.pk,
                             seen |-> dev[p].call.pk, hs |-> dev[p].call.hs]
           /\ dev'[p].live.role = "responder" /\ dev'[p].pend = NoPend /\ dev'[p].call = Idle
           /\ dev[p].call.at = "adopt" /\ dev[p].row.st # "established"
           /\ slots[p].m2 = dev[p].call.hs
<1> DEFINE o == dev[p]
           d == IF o.row.st = "handshaking" THEN Retire(o, o.row) ELSE o
           l == [st |-> "handshaking", role |-> "responder", hs |-> o.call.hs]
           b == [d EXCEPT !.live = l]
           r == [st |-> "handshaking", role |-> "responder", pk |-> o.call.pk, seen |-> o.call.pk, hs |-> o.call.hs]
           f == SetRow(b, r)
           e == Return(f)
<1>1. /\ o \in DevT /\ DevOK(o) /\ o.row \in RowT
  BY Here DEF DevT
<1>2. d \in DevT /\ d.call = o.call /\ d.pend \in {NoPend, o.pend}
  BY <1>1, RetireFacts
<1>3. o.call.at = "adopt" /\ Set(p, e) /\ Keep
  <2> HIDE DEF d
  <2>1. d.call.at = "adopt" /\ Keep
        /\ Set(p, Return(SetRow([d EXCEPT !.live = [st |-> "handshaking", role |-> "responder", hs |-> d.call.hs]],
                          [st |-> "handshaking", role |-> "responder", pk |-> d.call.pk,
                           seen |-> d.call.pk, hs |-> d.call.hs])))
    BY DEF Adopt, d
  <2> QED BY <1>2, <2>1
<1> HIDE DEF d
<1>4. o.row.st \in {"none", "handshaking"} /\ slots[p].m2 = o.call.hs
  BY <1>1, <1>3 DEF DevOK, RowAt, HInv, Answered
<1>5. d.pend = NoPend
  BY <1>1, <1>2, <1>4 DEF DevOK, Memory
<1>6. /\ l \in LiveT /\ l.role = "responder" /\ l.st = "handshaking" /\ l.hs = o.call.hs
      /\ r \in RowT /\ r.st = "handshaking" /\ r.role = "responder" /\ r.hs = o.call.hs
  BY <1>1, Constants DEF DevT, CallT, LiveT, RowT, Roles
<1> HIDE DEF l, r
<1>7. b \in DevT /\ b.live = l /\ b.pend = NoPend
  BY <1>2, <1>5, <1>6 DEF DevT
<1> HIDE DEF b
<1>8. f \in DevT /\ f.row = r /\ f.live = l /\ f.pend = NoPend
  BY <1>6, <1>7, SetRowFacts
<1> HIDE DEF f
<1>9. Settled(f)
  BY <1>6, <1>8 DEF Settled
<1>10. e \in DevT /\ DevOK(e) /\ e.row = r /\ e.live = l /\ e.pend = NoPend /\ e.call = Idle /\ e.call.at = "idle"
  BY <1>8, <1>9, Returns DEF SameLink
<1> HIDE DEF e
<1>11. dev' = [dev EXCEPT ![p] = dev'[p]] /\ dev'[p] = e
  BY <1>3, SetFacts DEF HInv
<1>12. Answered(e, slots[p].m2, slots[Other(p)].m3)
  BY <1>10 DEF Answered
<1>13. Local(p)
  BY <1>3, <1>10, <1>11, <1>12, QuietLocal DEF Quiet, Keep
<1> QED BY <1>3, <1>4, <1>6, <1>10, <1>11, <1>13 DEF Keep, r

LEMMA OpensFacts ==
    ASSUME HInv, NEW p \in Devices, Opens(p)
    PROVE  /\ Local(p) /\ UNCHANGED marker
           /\ SameLink(dev[p], dev'[p]) /\ dev[p].row.st = "none"
           /\ slots'[p].m2 = slots[p].m2 /\ slots'[p].m3 = slots[p].m3
           /\ dev[p].call.at = "initiate" /\ dev'[p].call.at = "initiated"
<1> DEFINE d == dev[p]
           hs == <<tries + 1, 0>>
           e == [d EXCEPT !.call.at = "initiated", !.call.hs = hs]
           m == [i |-> tries + 1, own |-> marker[p], peer |-> d.call.pk]
           t == [slots[p] EXCEPT !.m1 = m]
<1>1. /\ Typed /\ d \in DevT /\ DevOK(d)
  BY Here
<1>2. d.call.at = "initiate" /\ d.row.st = "none"
  BY <1>1 DEF Opens, DevOK, RowAt
<1>3. slots[p] \in SlotT /\ hs \in HsT /\ m \in [i : Nat, own : Nat, peer : Nat]
  BY <1>1 DEF Typed, HsT, DevT, CallT
<1>4. Set(p, e) /\ slots' = [slots EXCEPT ![p] = t] /\ tries' = tries + 1 /\ UNCHANGED marker
  BY DEF Opens
<1> HIDE DEF hs, m
<1>5. t \in SlotT /\ t.m2 = slots[p].m2 /\ t.m3 = slots[p].m3
  BY <1>3 DEF SlotT
<1> HIDE DEF t
<1>6. slots' = [slots EXCEPT ![p] = slots'[p]] /\ slots'[p] = t
  BY <1>1, <1>4 DEF Typed
<1>7. e \in DevT /\ SameLink(d, e) /\ e.call.at = "initiated"
  BY <1>1, <1>3 DEF DevT, CallT, SameLink, Stages
<1>8. dev' = [dev EXCEPT ![p] = dev'[p]] /\ dev'[p] = e
  BY <1>1, <1>4, SetFacts
<1> HIDE DEF e
<1>9. DevOK(e)
  BY <1>1, <1>2, <1>7 DEF DevOK, RowAt, Memory, Budget, SameLink
<1>10. /\ Answered(e, slots[p].m2, slots[Other(p)].m3)
       /\ Answered(dev[Other(p)], slots[Other(p)].m2, slots[p].m3)
  BY <1>7, OtherEnd DEF HInv, Answered, SameLink
<1>11. marker' \in [Devices -> Nat] /\ tries' \in Nat
  BY <1>1, <1>4 DEF Typed
<1>12. Local(p)
  BY <1>5, <1>6, <1>7, <1>8, <1>9, <1>10, <1>11 DEF Local
<1> QED BY <1>2, <1>4, <1>5, <1>6, <1>7, <1>8, <1>12

LEMMA InitiatedFacts ==
    ASSUME HInv, NEW p \in Devices, Initiated(p)
    PROVE  /\ Local(p) /\ UNCHANGED <<marker, slots>>
           /\ dev'[p].row.role = "initiator" /\ dev'[p].row.st = "handshaking"
           /\ dev'[p].live.role = "initiator" /\ dev'[p].pend = NoPend
           /\ dev'[p].call.at = "advance" /\ dev[p].row.st = "none" /\ dev[p].call.at = "initiated"
<1> DEFINE d == dev[p]
           l == [st |-> "handshaking", role |-> "initiator", hs |-> d.call.hs]
           r == [st |-> "handshaking", role |-> "initiator", pk |-> d.call.pk, seen |-> d.call.pk, hs |-> d.call.hs]
           b == [d EXCEPT !.fails = 0, !.live = l]
           f == SetRow(b, r)
           e == At(f, "advance")
<1>1. /\ d \in DevT /\ DevOK(d)
  BY Here
<1>2. d.call.at = "initiated" /\ d.row.st = "none" /\ d.pend = NoPend
  BY <1>1 DEF Initiated, DevOK, RowAt, Memory
<1>3. Set(p, e) /\ Keep
  BY DEF Initiated
<1>4. /\ l \in LiveT /\ l.role = "initiator" /\ l.st = "handshaking"
      /\ r \in RowT /\ r.st = "handshaking" /\ r.role = "initiator" /\ l.hs = r.hs
  BY <1>1 DEF DevT, CallT, LiveT, RowT, Roles
<1> HIDE DEF l, r
<1>5. b \in DevT /\ b.live = l /\ b.pend = d.pend
  BY <1>1, <1>4 DEF DevT
<1> HIDE DEF b
<1>6. f \in DevT /\ f.row = r /\ f.live = l /\ f.pend = NoPend
  BY <1>2, <1>4, <1>5, SetRowFacts
<1> HIDE DEF f
<1>7. e \in DevT /\ e.row = r /\ e.live = l /\ e.pend = NoPend /\ e.call.at = "advance"
  BY <1>6, AtFacts DEF SameLink, Stages
<1> HIDE DEF e
<1>8. DevOK(e)
  BY <1>4, <1>7 DEF DevOK, RowAt, Memory, Budget
<1>9. dev' = [dev EXCEPT ![p] = dev'[p]] /\ dev'[p] = e
  BY <1>3, SetFacts DEF HInv
<1>10. Answered(e, slots[p].m2, slots[Other(p)].m3)
  BY <1>7 DEF Answered
<1>11. Local(p)
  BY <1>3, <1>7, <1>8, <1>9, <1>10, QuietLocal DEF Quiet, Keep
<1> QED BY <1>2, <1>3, <1>4, <1>7, <1>9, <1>11 DEF Keep

(* An advance that ends the handshake: from here the call completes it.      *)
LEMMA CompletingFacts ==
    ASSUME HInv, NEW p \in Devices, dev[p].call.at = "advance", NEW hs \in HsT
    PROVE  LET d == Live(dev[p])
               e == [d EXCEPT !.call.at = "complete", !.call.hs = hs]
           IN  /\ e \in DevT /\ DevOK(e) /\ e.row = dev[p].row /\ e.live.role = dev[p].row.role
               /\ e.pend = NoPend
               /\ e.call.at = "complete" /\ e.call.hs = hs /\ e.call.kind = dev[p].call.kind
               /\ e.call.pk = dev[p].call.pk
               /\ e.row.st = "handshaking" /\ d.live.role = e.row.role /\ d.live.hs = e.row.hs
<1> DEFINE o == dev[p]
           d == Live(o)
           e == [d EXCEPT !.call.at = "complete", !.call.hs = hs]
<1>1. o \in DevT /\ DevOK(o) /\ Settled(o) /\ o.row.st = "handshaking"
  BY Here DEF DevOK, RowAt
<1>2. /\ Settled(d) /\ d.row = o.row /\ d.call = o.call /\ d.pend = NoPend
      /\ d.live.role = o.row.role /\ d.live.hs = o.row.hs
  BY <1>1, LiveFacts
<1> HIDE DEF d
<1>3. /\ e \in DevT /\ SameLink(d, e) /\ e.call.at = "complete" /\ e.call.hs = hs
      /\ e.call.kind = d.call.kind /\ e.call.pk = d.call.pk
  BY <1>2 DEF Settled, DevT, CallT, SameLink, Stages
<1> HIDE DEF e
<1>4. DevOK(e)
  BY <1>1, <1>2, <1>3 DEF DevOK, RowAt, Memory, Budget, SameLink, Settled
<1> QED BY <1>1, <1>2, <1>3, <1>4 DEF SameLink, d, e

LEMMA CompletesFacts ==
    ASSUME HInv, NEW p \in Devices, Completes(p)
    PROVE  /\ Local(p) /\ UNCHANGED marker
           /\ dev'[p].row = dev[p].row /\ dev'[p].row.role = "initiator" /\ dev'[p].live.role = "initiator"
           /\ dev'[p].row.st = "handshaking" /\ dev'[p].pend = NoPend
           /\ dev'[p].call.at = "complete" /\ dev'[p].call.hs = slots'[p].m3
           /\ slots'[p].m1 = slots[p].m1 /\ slots'[p].m2 = slots[p].m2
           /\ slots'[p].m3 = slots[Other(p)].m2
<1> DEFINE o == Other(p)
           hs == slots[o].m2
           d == Live(dev[p])
           e == [d EXCEPT !.call.at = "complete", !.call.hs = hs]
           t == [slots[p] EXCEPT !.m3 = hs]
<1>1. Typed /\ o \in Devices /\ Other(o) = p
  BY Here, OtherEnd
<1>2. slots[o] \in SlotT /\ slots[p] \in SlotT
  BY <1>1 DEF Typed
<1>3. hs \in HsT
  BY <1>2 DEF SlotT
<1>4. /\ dev[p].call.at = "advance" /\ d.live.role = "initiator"
      /\ Set(p, e) /\ slots' = [slots EXCEPT ![p] = t] /\ UNCHANGED <<marker, tries>>
  BY DEF Completes
<1>5. /\ e \in DevT /\ DevOK(e) /\ e.row = dev[p].row /\ e.live.role = dev[p].row.role
      /\ e.pend = NoPend
      /\ e.call.at = "complete" /\ e.call.hs = hs /\ e.row.st = "handshaking" /\ d.live.role = e.row.role
  BY <1>3, <1>4, CompletingFacts
<1>6. t \in SlotT /\ t.m1 = slots[p].m1 /\ t.m2 = slots[p].m2 /\ t.m3 = hs
  BY <1>2, <1>3 DEF SlotT
<1> HIDE DEF d, e, t
<1>7. slots' = [slots EXCEPT ![p] = slots'[p]] /\ slots'[p] = t
  BY <1>1, <1>4 DEF Typed
<1>8. dev' = [dev EXCEPT ![p] = dev'[p]] /\ dev'[p] = e
  BY <1>1, <1>4, SetFacts
<1>9. Answered(e, t.m2, slots[o].m3)
  BY <1>5 DEF Answered
<1>10. Answered(dev[o], slots[o].m2, hs)
  BY <1>1 DEF HInv, Answered
<1>11. marker' \in [Devices -> Nat] /\ tries' \in Nat
  BY <1>1, <1>4 DEF Typed
<1>12. Local(p)
  BY <1>5, <1>6, <1>7, <1>8, <1>9, <1>10, <1>11 DEF Local, o
<1> QED BY <1>4, <1>5, <1>6, <1>7, <1>8, <1>12

LEMMA ReadsLastFacts ==
    ASSUME HInv, NEW p \in Devices, ReadsLast(p)
    PROVE  /\ Local(p) /\ UNCHANGED <<marker, slots>>
           /\ dev'[p].row = dev[p].row /\ dev'[p].row.role = "responder" /\ dev'[p].live.role = "responder"
           /\ dev'[p].row.st = "handshaking" /\ dev'[p].pend = NoPend
           /\ dev'[p].call.at = "complete" /\ dev'[p].call.hs = slots[Other(p)].m3
           /\ dev'[p].call.hs = dev'[p].row.hs /\ dev'[p].call.kind = dev[p].call.kind
           /\ dev'[p].call.pk = dev[p].call.pk
<1> DEFINE o == Other(p)
           d == Live(dev[p])
           hs == d.live.hs
           e == [d EXCEPT !.call.at = "complete", !.call.hs = hs]
<1>1. Typed /\ o \in Devices
  BY Here, OtherEnd
<1>2. /\ dev[p].call.at = "advance" /\ d.live.role = "responder" /\ slots[o].m3 = hs
      /\ Set(p, e) /\ Keep
  BY DEF ReadsLast
<1>3. hs \in HsT
  BY <1>1, <1>2 DEF Typed, SlotT
<1>4. /\ e \in DevT /\ DevOK(e) /\ e.row = dev[p].row /\ e.live.role = dev[p].row.role
      /\ e.pend = NoPend
      /\ e.call.at = "complete" /\ e.call.hs = hs /\ e.call.kind = dev[p].call.kind
      /\ e.call.pk = dev[p].call.pk
      /\ e.row.st = "handshaking" /\ d.live.role = e.row.role /\ hs = e.row.hs
  BY <1>2, <1>3, CompletingFacts
<1> HIDE DEF d, e, hs
<1>5. dev' = [dev EXCEPT ![p] = dev'[p]] /\ dev'[p] = e
  BY <1>1, <1>2, SetFacts
<1>6. Answered(e, slots[p].m2, slots[o].m3)
  BY <1>4 DEF Answered
<1>7. Local(p)
  BY <1>2, <1>4, <1>5, <1>6, QuietLocal DEF Quiet, Keep, o
<1> QED BY <1>2, <1>4, <1>5, <1>7 DEF Keep, o

LEMMA CompleteFacts ==
    ASSUME HInv, NEW p \in Devices, Complete(p)
    PROVE  /\ Local(p) /\ UNCHANGED <<marker, slots>>
           /\ dev'[p].row.st = "established" /\ dev'[p].row.role = dev[p].row.role
           /\ dev'[p].row.pk = dev[p].row.pk /\ dev'[p].row.hs = dev[p].call.hs
           /\ dev'[p].live = dev[p].live /\ dev'[p].pend = NoPend
           /\ dev'[p].call.at = "restoring" /\ dev'[p].call.kind = dev[p].call.kind
           /\ dev'[p].call.pk = dev[p].call.pk
           /\ dev[p].call.at = "complete" /\ dev[p].row.st = "handshaking"
<1> DEFINE d == dev[p]
           c == ClearBudget(d)
           b == [c EXCEPT !.fails = 0, !.watch = <<NoHs, 0>>]
           r == [d.row EXCEPT !.st = "established", !.hs = d.call.hs]
           f == SetRow(b, r)
           e == At(f, "restoring")
<1>1. /\ d \in DevT /\ DevOK(d)
  BY Here
<1>2. d.call.at = "complete" /\ d.row.st = "handshaking" /\ d.pend = NoPend
  BY <1>1 DEF Complete, DevOK, RowAt, Memory
<1>3. Set(p, e) /\ Keep
  BY DEF Complete
<1>4. c \in DevT /\ SameLink(d, c) /\ c.call = d.call
  BY <1>1, ClearFacts
<1>5. /\ r \in RowT /\ r.st = "established" /\ r.role = d.row.role /\ r.pk = d.row.pk /\ r.hs = d.call.hs
      /\ <<NoHs, 0>> \in HsT \X Nat
  BY <1>1, Constants DEF DevT, CallT, RowT
<1> HIDE DEF d, c, r
<1>6. b \in DevT /\ SameLink(c, b) /\ b.call = c.call
  BY <1>4, <1>5 DEF DevT, SameLink
<1> HIDE DEF b
<1>7. f \in DevT /\ f.row = r /\ f.live = d.live /\ f.pend = NoPend /\ f.call = d.call
  BY <1>2, <1>4, <1>5, <1>6, SetRowFacts DEF SameLink
<1> HIDE DEF f
<1>8. /\ e \in DevT /\ e.row = r /\ e.live = d.live /\ e.pend = NoPend /\ e.call.at = "restoring"
      /\ e.call.kind = d.call.kind /\ e.call.pk = d.call.pk
  BY <1>7, AtFacts DEF SameLink, Stages
<1> HIDE DEF e
<1>9. DevOK(e)
  BY <1>5, <1>8 DEF DevOK, RowAt, Memory, Budget
<1>10. dev' = [dev EXCEPT ![p] = dev'[p]] /\ dev'[p] = e
  BY <1>3, SetFacts DEF HInv
<1>11. Answered(e, slots[p].m2, slots[Other(p)].m3)
  BY <1>8 DEF Answered
<1>12. Local(p)
  BY <1>3, <1>8, <1>9, <1>10, <1>11, QuietLocal DEF Quiet, Keep
<1> QED BY <1>2, <1>3, <1>5, <1>8, <1>10, <1>12 DEF Keep, d

LEMMA FreshDevice ==
    /\ NewDevice \in DevT /\ DevOK(NewDevice)
    /\ NewDevice.row = NoRow /\ NewDevice.live = NoLive /\ NewDevice.pend = NoPend /\ NewDevice.call = Idle
<1>1. /\ NoRow.st = "none" /\ NoLive.st = "none" /\ Idle.at = "idle" /\ <<NoHs, 0>> \in HsT \X Nat
      /\ [st |-> "none", hs |-> NoHs] \in
            [st : {"none", "handshaking", "established", "reconnect"}, hs : HsT]
  BY Constants DEF NoRow, NoLive, Idle
<1>2. /\ NewDevice.row = NoRow /\ NewDevice.live = NoLive /\ NewDevice.pend = NoPend /\ NewDevice.call = Idle
  BY DEF NewDevice
<1>3. NewDevice \in DevT
  BY <1>1, Constants DEF NewDevice, DevT
<1> QED BY <1>1, <1>2, <1>3 DEF DevOK, RowAt, Memory, Budget

LEMMA RotateFacts ==
    ASSUME HInv, NEW p \in Devices, Rotate(p)
    PROVE  /\ Local(p) /\ UNCHANGED slots
           /\ dev'[p] = NewDevice /\ marker'[p] = marker[p] + 1 /\ marker'[Other(p)] = marker[Other(p)]
<1>1. Typed /\ Other(p) \in Devices /\ Other(p) # p /\ Other(Other(p)) = p
  BY Here, OtherEnd
<1>2. /\ Set(p, NewDevice) /\ marker' = [marker EXCEPT ![p] = marker[p] + 1] /\ UNCHANGED <<slots, tries>>
  BY DEF Rotate
<1>3. dev' = [dev EXCEPT ![p] = dev'[p]] /\ dev'[p] = NewDevice
  BY <1>1, <1>2, SetFacts
<1>4. slots \in [Devices -> SlotT] /\ slots' = slots
  BY <1>1, <1>2 DEF Typed
<1>5. slots' = [slots EXCEPT ![p] = slots'[p]] /\ slots'[p] \in SlotT
  BY <1>4
<1>6. marker' \in [Devices -> Nat] /\ marker'[p] = marker[p] + 1 /\ marker'[Other(p)] = marker[Other(p)]
  BY <1>1, <1>2 DEF Typed
<1>7. tries' \in Nat
  BY <1>1, <1>2 DEF Typed
<1>8. Idle.at = "idle"
  BY DEF Idle
<1>9. Answered(NewDevice, slots[p].m2, slots[Other(p)].m3)
  BY <1>8, FreshDevice DEF Answered
<1>10. Answered(dev[Other(p)], slots[Other(p)].m2, slots[p].m3)
  BY <1>1 DEF HInv
<1>11. Local(p)
  BY <1>3, <1>4, <1>5, <1>6, <1>7, <1>9, <1>10, FreshDevice DEF Local
<1> QED BY <1>3, <1>4, <1>6, <1>11

-------------------------------------------------------------------------------
(* The steps of one device, by what they leave.                              *)
EnsureStep(p) ==
    \E kind \in Calls[p] :
        /\ dev[p].call.at = "idle"
        /\ dev' = [dev EXCEPT ![p] = dev'[p]]
        /\ Less([dev[p] EXCEPT !.call.kind = kind], dev'[p], marker[Other(p)])
        /\ UNCHANGED <<marker, slots, tries>>

Cases(p) ==
    \/ ShedStep(p) \/ EnsureStep(p) \/ Answers(p) \/ Park(p) \/ Commits(p) \/ Commit(p) \/ Adopt(p)
    \/ Opens(p) \/ Initiated(p) \/ Completes(p) \/ ReadsLast(p) \/ Complete(p) \/ Rotate(p)

LEMMA StepCases ==
    ASSUME HInv, HsNext
    PROVE  \E p \in Devices : Cases(p)
<1>1. PICK p \in Devices :
        \/ \E kind \in CallKinds : Ensure(p, kind)
        \/ Step(p) \/ Tick(p) \/ Reset(p) \/ Rotate(p) \/ Reload(p)
  BY DEF HsNext
<1>2. CASE \E kind \in CallKinds : Ensure(p, kind)
  <2>1. PICK kind \in CallKinds : Ensure(p, kind)
    BY <1>2
  <2>2. EnsureStep(p)
    BY <2>1, EnsureSheds DEF EnsureStep, Ensure
  <2> QED BY <2>2 DEF Cases
<1>3. CASE Step(p)
  <2>1. ASSUME Rotation(p) \/ Restore(p) \/ RekeyFetch(p) \/ Fetch(p) \/ Restoring(p) \/ Watch(p)
        PROVE  Cases(p)
    BY <2>1, RotationSheds, RestoreSheds, RekeyFetchSheds, FetchSheds, RestoringSheds, WatchSheds DEF Cases
  <2>2. ASSUME RekeyProbe(p) \/ Probe(p) \/ RestartProbe(p)
        PROVE  Cases(p)
    <3>1. ShedStep(p) \/ Answers(p)
      BY <2>2, RekeyProbeSheds, ProbeSheds, RestartProbeSheds DEF Answers, RekeyProbe, Probe, RestartProbe
    <3> QED BY <3>1 DEF Cases
  <2>3. ASSUME RekeyAdvance(p) \/ Initiate(p) \/ Advance(p)
        PROVE  Cases(p)
    BY <2>3, RekeyAdvanceSheds, InitiateSheds, AdvanceSheds DEF Cases
  <2> QED BY <1>3, <2>1, <2>2, <2>3 DEF Step, Cases
<1>4. CASE Tick(p) \/ Reset(p) \/ Reload(p) \/ Rotate(p)
  BY <1>4, TickSheds, ResetSheds, ReloadSheds DEF Cases
<1> QED BY <1>1, <1>2, <1>3, <1>4

LEMMA ShedLocal ==
    ASSUME HInv, NEW p \in Devices, ShedStep(p)
    PROVE  Local(p)
BY LessLocal DEF ShedStep

LEMMA EnsureLocal ==
    ASSUME HInv, NEW p \in Devices, EnsureStep(p)
    PROVE  Local(p)
<1>1. PICK kind \in Calls[p] :
        /\ dev' = [dev EXCEPT ![p] = dev'[p]]
        /\ Less([dev[p] EXCEPT !.call.kind = kind], dev'[p], marker[Other(p)])
        /\ UNCHANGED <<marker, slots, tries>>
  BY DEF EnsureStep
<1> DEFINE d == [dev[p] EXCEPT !.call.kind = kind]
<1>2. d.pend = dev[p].pend
  BY Here DEF DevT
<1> HIDE DEF d
<1>3. Less(d, dev'[p], marker[Other(p)])
  BY <1>1 DEF d
<1> QED BY <1>1, <1>2, <1>3, LessLocal

LEMMA CasesLocal ==
    ASSUME HInv, NEW p \in Devices, Cases(p)
    PROVE  Local(p)
<1>1. ASSUME ShedStep(p) \/ EnsureStep(p) \/ Answers(p)
      PROVE  Local(p)
  BY <1>1, ShedLocal, EnsureLocal, AnswersFacts
<1>2. ASSUME Park(p) \/ Commits(p) \/ Commit(p) \/ Adopt(p)
      PROVE  Local(p)
  BY <1>2, ParkFacts, CommitsFacts, CommitFacts, AdoptFacts
<1>3. ASSUME Opens(p) \/ Initiated(p) \/ Completes(p)
      PROVE  Local(p)
  BY <1>3, OpensFacts, InitiatedFacts, CompletesFacts
<1>4. ASSUME ReadsLast(p) \/ Complete(p) \/ Rotate(p)
      PROVE  Local(p)
  BY <1>4, ReadsLastFacts, CompleteFacts, RotateFacts
<1> QED BY <1>1, <1>2, <1>3, <1>4 DEF Cases

LEMMA HInvInit == HsInit => HInv
<1> SUFFICES ASSUME HsInit
             PROVE  HInv
  OBVIOUS
<1>1. Typed
  BY FreshDevice, Constants DEF HsInit, Typed, SlotT
<1>2. \A p \in Devices : dev[p] = NewDevice
  BY DEF HsInit
<1>3. Idle.at = "idle"
  BY DEF Idle
<1>4. \A p \in Devices : DevOK(dev[p]) /\ Answered(dev[p], slots[p].m2, slots[Other(p)].m3)
  BY <1>2, <1>3, FreshDevice DEF Answered
<1> QED BY <1>1, <1>4 DEF HInv

LEMMA HInvNext == HInv /\ [HsNext]_hsVars => HInv'
<1> SUFFICES ASSUME HInv, [HsNext]_hsVars
             PROVE  HInv'
  OBVIOUS
<1>1. CASE HsNext
  BY <1>1, StepCases, CasesLocal, LocalKeeps
<1>2. CASE UNCHANGED hsVars
  BY <1>2 DEF hsVars, HInv, Typed, DevOK, RowAt, Memory, Budget, Answered, User, Exhausted
<1> QED BY <1>1, <1>2

(* Every step of a call finds the row it needs, a call that may answer has   *)
(* budget, and a session is committed that the peer has completed.           *)
THEOREM HandshakeInvariant == HsSpec => []HInv
BY HInvInit, HInvNext, PTL DEF HsSpec

-------------------------------------------------------------------------------
(* A spent budget                                                            *)

(* A call with a spent budget does not set out to start a handshake.         *)
LEMMA SpentGoesElsewhere ==
    ASSUME HInv, NEW p \in Devices, Cases(p), Spent(p), ~Answers(p), dev[p].call.at # "initiate"
    PROVE  dev'[p].call.at # "initiate"
<1>1. dev[p].call.at # "probe"
  BY DEF Spent, HInv, DevOK, Budget
<1>2. CASE ShedStep(p)
  BY <1>1, <1>2 DEF ShedStep, Less, Shed, Spent
<1>3. CASE EnsureStep(p)
  <2>1. PICK kind \in Calls[p] :
          /\ dev[p].call.at = "idle"
          /\ Less([dev[p] EXCEPT !.call.kind = kind], dev'[p], marker[Other(p)])
    BY <1>3 DEF EnsureStep
  <2>2. [dev[p] EXCEPT !.call.kind = kind].call.at = "idle"
    BY <2>1, Here DEF DevT, CallT
  <2> QED BY <2>1, <2>2 DEF Less, Shed
<1>i. Idle.at = "idle"
  BY DEF Idle
<1>4. CASE Park(p) \/ Commits(p) \/ Commit(p) \/ Adopt(p)
  <2>1. CASE Park(p) \/ Commits(p)
    BY <2>1, ParkFacts, CommitsFacts
  <2>2. CASE Commit(p) \/ Adopt(p)
    <3>1. dev'[p].call = Idle
      BY <2>2, CommitFacts, AdoptFacts
    <3> QED BY <1>i, <3>1
  <2> QED BY <1>4, <2>1, <2>2
<1>5. CASE Initiated(p) \/ Completes(p) \/ ReadsLast(p) \/ Complete(p)
  BY <1>5, InitiatedFacts, CompletesFacts, ReadsLastFacts, CompleteFacts
<1>6. CASE Rotate(p)
  BY <1>6, <1>i, RotateFacts DEF NewDevice
<1>7. ~Opens(p)
  BY DEF Opens
<1> QED BY <1>2, <1>3, <1>4, <1>5, <1>6, <1>7 DEF Cases

(* A call that is about to write msg1 answers nothing.                       *)
LEMMA StartAnswersNothing ==
    ASSUME HInv, NEW p \in Devices, Cases(p), NEW q \in Devices, dev[q].call.at = "initiate"
    PROVE  slots'[q].m2 = slots[q].m2
<1>1. slots' = [slots EXCEPT ![p] = slots'[p]] /\ Typed
  BY CasesLocal, Here DEF Local
<1>2. CASE q # p
  BY <1>1, <1>2 DEF Typed
<1>3. CASE q = p
  <2>1. ~Answers(p)
    BY <1>3 DEF Answers
  <2>2. Completes(p) \/ Opens(p) => slots'[p].m2 = slots[p].m2
    BY CompletesFacts, OpensFacts
  <2>3. ~(Completes(p) \/ Opens(p)) => UNCHANGED slots
    BY <2>1 DEF Cases, ShedStep, EnsureStep, Park, Commits, Commit, Adopt, Initiated, ReadsLast, Complete,
                Rotate, Keep
  <2> QED BY <1>3, <2>2, <2>3
<1> QED BY <1>2, <1>3

LEMMA BudgetStep ==
    ASSUME HInv, NEW p \in Devices, Cases(p), NEW q \in Devices, Spent(q), dev[q].call.at # "initiate"
    PROVE  slots'[q].m1 = slots[q].m1 /\ slots'[q].m2 = slots[q].m2 /\ dev'[q].call.at # "initiate"
<1>1. dev' = [dev EXCEPT ![p] = dev'[p]] /\ slots' = [slots EXCEPT ![p] = slots'[p]] /\ Typed
  BY CasesLocal, Here DEF Local
<1>2. CASE q # p
  BY <1>1, <1>2 DEF Typed
<1>3. CASE q = p
  <2>1. ~Answers(p)
    BY <1>3 DEF Spent, HInv, DevOK, Budget, Answers
  <2>2. ~Opens(p)
    BY <1>3 DEF Opens
  <2>3. Completes(p) => slots'[p].m1 = slots[p].m1 /\ slots'[p].m2 = slots[p].m2
    BY CompletesFacts
  <2>4. ~Completes(p) => UNCHANGED slots
    BY <2>1, <2>2 DEF Cases, ShedStep, EnsureStep, Park, Commits, Commit, Adopt, Initiated, ReadsLast, Complete,
                      Rotate, Keep
  <2>5. dev'[p].call.at # "initiate"
    BY <1>3, <2>1, <2>2, SpentGoesElsewhere
  <2> QED BY <1>3, <2>3, <2>4, <2>5
<1> QED BY <1>2, <1>3

(* "A flapping marker cannot loop for free": once its budget is spent a      *)
(* device whose user does not ask answers no handshake, and starts one only  *)
(* when it was about to write msg1 as the budget went.                       *)
THEOREM BudgetIsBounded == HsSpec => BudgetStops
<1>1. HInv /\ [HsNext]_hsVars =>
        [\A p \in Devices : Spent(p) =>
           /\ slots'[p].m2 = slots[p].m2
           /\ dev'[p].call.at = "initiate" \/ slots'[p].m1 # slots[p].m1
              => dev[p].call.at = "initiate"]_hsVars
  <2> SUFFICES ASSUME HInv, HsNext, NEW q \in Devices, Spent(q)
               PROVE  /\ slots'[q].m2 = slots[q].m2
                      /\ dev'[q].call.at = "initiate" \/ slots'[q].m1 # slots[q].m1
                         => dev[q].call.at = "initiate"
    OBVIOUS
  <2>1. PICK p \in Devices : Cases(p)
    BY StepCases
  <2>2. CASE dev[q].call.at # "initiate"
    BY <2>1, <2>2, BudgetStep
  <2>3. CASE dev[q].call.at = "initiate"
    BY <2>1, <2>3, StartAnswersNothing
  <2> QED BY <2>2, <2>3
<1> QED BY <1>1, HandshakeInvariant, PTL DEF HsSpec, BudgetStops

-------------------------------------------------------------------------------
(* An established link                                                       *)

Kept(p) ==
    LET now == dev[p].row  next == dev'[p].row
    IN  now.st = "established" /\ marker'[p] = marker[p]
        => \/ next.hs = now.hs /\ next.st \in {"established", "reconnect"}
           \/ next.st = "established" /\ slots[Other(p)].m3 = next.hs
           \/ next = NoRow /\ dev[p].call = Idle

LEMMA KeptStep ==
    ASSUME HInv, NEW p \in Devices, Cases(p), NEW q \in Devices
    PROVE  Kept(q)
<1>1. dev' = [dev EXCEPT ![p] = dev'[p]] /\ Typed
  BY CasesLocal, Here DEF Local
<1>2. CASE q # p
  BY <1>1, <1>2 DEF Typed, Kept
<1>3. ASSUME dev[p].row.st = "established", marker'[p] = marker[p]
      PROVE  Kept(p)
  <2>1. CASE ShedStep(p)
    BY <2>1, <1>3 DEF ShedStep, Less, Shed, Part, Kept
  <2>2. CASE EnsureStep(p)
    <3>1. PICK kind \in Calls[p] :
            dev[p].call.at = "idle" /\ Less([dev[p] EXCEPT !.call.kind = kind], dev'[p], marker[Other(p)])
      BY <2>2 DEF EnsureStep
    <3> DEFINE d == [dev[p] EXCEPT !.call.kind = kind]
    <3>2. d.row = dev[p].row
      BY Here DEF DevT
    <3>3. dev[p].call = Idle
      BY <3>1, Here DEF DevOK, Memory
    <3> HIDE DEF d
    <3>4. Less(d, dev'[p], marker[Other(p)])
      BY <3>1 DEF d
    <3> QED BY <1>3, <3>2, <3>3, <3>4 DEF Less, Shed, Part, Kept
  <2>3. CASE Answers(p)
    BY <2>3, <1>3, AnswersFacts DEF SameLink, Kept
  <2>4. CASE Park(p) \/ Commits(p)
    BY <2>4, <1>3, ParkFacts, CommitsFacts DEF Kept
  <2>5. CASE Commit(p)
    <3>1. /\ dev'[p].row = [st |-> "established", role |-> "responder", pk |-> dev[p].call.pk,
                            seen |-> dev[p].call.pk, hs |-> dev[p].call.hs]
          /\ slots[Other(p)].m3 = dev[p].call.hs
      BY <2>5, CommitFacts
    <3>2. dev'[p].row.st = "established" /\ dev'[p].row.hs = dev[p].call.hs
      BY <3>1
    <3> QED BY <3>1, <3>2 DEF Kept
  <2>6. CASE Adopt(p) \/ Opens(p) \/ Initiated(p) \/ Complete(p)
    BY <2>6, <1>3, AdoptFacts, OpensFacts, InitiatedFacts, CompleteFacts
  <2>7. CASE Completes(p) \/ ReadsLast(p)
    BY <2>7, <1>3, CompletesFacts, ReadsLastFacts DEF Kept
  <2>8. CASE Rotate(p)
    BY <2>8, <1>3, RotateFacts, Here DEF Typed
  <2> QED BY <2>1, <2>2, <2>3, <2>4, <2>5, <2>6, <2>7, <2>8 DEF Cases
<1> QED BY <1>2, <1>3 DEF Kept

(* "An established link stays live until a probed handshake reaches          *)
(* `established`": its row is left for a failure, a reset, or a session that *)
(* the peer has completed.                                                   *)
THEOREM LinksAreKept == HsSpec => EstablishedKept
<1>1. HInv /\ [HsNext]_hsVars => [\A p \in Devices : Kept(p)]_hsVars
  BY StepCases, KeptStep
<1> QED BY <1>1, HandshakeInvariant, PTL DEF HsSpec, EstablishedKept, Kept

-------------------------------------------------------------------------------
(* One session                                                               *)

(* One of the two devices never starts a handshake of its own accord.        *)
OneSideAsks(a) == a \in Devices /\ Calls[Other(a)] \subseteq {"sync"}

LEMMA AskerStep ==
    ASSUME HInv, NEW a \in Devices, OneSideInv(a), Local(a),
           marker'[a] >= marker[a], Initiating(dev'[a]), OnCompleted(dev'[a], slots'[a].m3),
           slots'[a].m3 \in {slots[a].m3, slots[Other(a)].m2}
    PROVE  OneSideInv(a)'
<1> DEFINE q == Other(a)
           d == dev[q]
<1>1. Typed /\ q \in Devices /\ q # a /\ d \in DevT
  BY OtherEnd DEF HInv, Typed
<1>2. dev'[q] = d /\ slots'[q] = slots[q]
  BY <1>1 DEF Local, Typed
<1>3. marker[a] \in Nat /\ marker'[a] \in Nat /\ d.row.pk \in Nat /\ d.pend.pk \in Nat /\ d.call.pk \in Nat
  BY <1>1 DEF Local, Typed, DevT, RowT, PendT, CallT
<1>4. slots[q].m1.i = 0 /\ Answering(d) /\ KeysUpTo(d, marker[a])
      /\ OnAnswered(d, marker[a], slots[q].m2, slots[a].m3)
  BY DEF OneSideInv
<1>8. slots'[a].m3 \in {slots[a].m3, slots[q].m2}
  OBVIOUS
<1>9. d.call.at = "complete" => d.row.st = "handshaking"
  BY <1>1 DEF HInv, DevOK, RowAt
<1> HIDE DEF q, d
<1>5. KeysUpTo(d, marker'[a])
  BY <1>3, <1>4 DEF KeysUpTo
<1>6. OnAnswered(d, marker'[a], slots[q].m2, slots'[a].m3)
  <2>1. CASE marker'[a] = marker[a]
    BY <1>4, <1>8, <1>9, <2>1 DEF OnAnswered
  <2>2. CASE marker'[a] # marker[a]
    BY <1>3, <1>4, <2>2 DEF OnAnswered, KeysUpTo
  <2> QED BY <2>1, <2>2
<1> QED BY <1>2, <1>4, <1>5, <1>6 DEF OneSideInv, q

LEMMA AnswererStep ==
    ASSUME HInv, NEW a \in Devices, OneSideInv(a), Local(Other(a)),
           marker'[a] = marker[a], slots'[Other(a)].m1.i = 0, Answering(dev'[Other(a)]),
           KeysUpTo(dev'[Other(a)], marker[a]),
           OnAnswered(dev'[Other(a)], marker[a], slots'[Other(a)].m2, slots[a].m3)
    PROVE  OneSideInv(a)'
<1>1. Typed /\ Other(a) \in Devices /\ Other(a) # a
  BY OtherEnd DEF HInv
<1>2. dev'[a] = dev[a] /\ slots'[a] = slots[a]
  BY <1>1 DEF Local, Typed
<1> QED BY <1>2 DEF OneSideInv

LEMMA LessInitiates ==
    ASSUME NEW d, NEW e, NEW pk, NEW m3, Less(d, e, pk), Initiating(d), OnCompleted(d, m3)
    PROVE  Initiating(e) /\ OnCompleted(e, m3)
<1>1. NoRow.st = "none" /\ NoRow.role = "none"
  BY DEF NoRow
<1> QED BY <1>1 DEF Less, Shed, Part, Initiating, OnCompleted

LEMMA LessAnswers ==
    ASSUME NEW d \in DevT, NEW e, NEW pk \in Nat, NEW m2, NEW m3, Less(d, e, pk),
           Answering(d), KeysUpTo(d, pk), OnAnswered(d, pk, m2, m3)
    PROVE  Answering(e) /\ KeysUpTo(e, pk) /\ OnAnswered(e, pk, m2, m3)
<1>1. NoRow.st = "none" /\ NoRow.role = "none" /\ NoRow.pk = 0 /\ NoPend.pk = 0
  BY DEF NoRow, NoPend
<1>2. Answering(e)
  BY <1>1 DEF Less, Shed, Part, Answering
<1>3. KeysUpTo(e, pk)
  <2>1. /\ e.row.pk \in Nat /\ e.pend.pk \in Nat /\ e.call.pk \in Nat
        /\ d.row.pk \in Nat /\ d.pend.pk \in Nat /\ d.call.pk \in Nat
    BY DEF Less, DevT, RowT, PendT, CallT
  <2>2. e.row.pk <= pk /\ e.pend.pk <= pk /\ e.call.pk <= pk
    BY <1>1, <2>1 DEF Less, Shed, Part, KeysUpTo
  <2>3. e.call.at \in {"rekeyprobe", "park", "commit"} => e.row.pk < e.call.pk
    BY <2>1, <2>2 DEF Less, Shed
  <2>4. e.pend # NoPend => e.row.pk < e.pend.pk
    BY <1>1, <2>1 DEF Less, DevOK, Memory, Shed, Part, KeysUpTo
  <2> QED BY <2>2, <2>3, <2>4 DEF KeysUpTo
<1>4. OnAnswered(e, pk, m2, m3)
  BY <1>1 DEF Less, Shed, Part, OnAnswered
<1> QED BY <1>2, <1>3, <1>4

(* d with another kind of call is the same device.                           *)
LEMMA KindFacts ==
    ASSUME NEW d \in DevT, NEW kind \in CallKinds
    PROVE  LET e == [d EXCEPT !.call.kind = kind]
           IN  /\ e \in DevT /\ SameLink(d, e) /\ e.call.at = d.call.at /\ e.call.pk = d.call.pk
               /\ e.call.hs = d.call.hs /\ e.call.kind = kind
BY DEF DevT, CallT, SameLink

LEMMA AskerKeeps ==
    ASSUME HInv, NEW a \in Devices, OneSideInv(a), Cases(a)
    PROVE  OneSideInv(a)'
<1> DEFINE q == Other(a)
           d == dev[a]
           e == dev'[a]
<1>1. /\ Local(a) /\ Initiating(d) /\ OnCompleted(d, slots[a].m3) /\ slots[q].m1.i = 0 /\ d \in DevT
      /\ marker[a] \in Nat
  BY CasesLocal, Here DEF OneSideInv, Typed
<1>2. ASSUME UNCHANGED marker, slots'[a].m3 \in {slots[a].m3, slots[q].m2},
             Initiating(e), OnCompleted(e, slots'[a].m3)
      PROVE  OneSideInv(a)'
  BY <1>1, <1>2, AskerStep
<1>3. CASE ShedStep(a)
  BY <1>1, <1>2, <1>3, LessInitiates DEF ShedStep
<1>4. CASE EnsureStep(a)
  <2>1. PICK kind \in Calls[a] :
          /\ Less([d EXCEPT !.call.kind = kind], e, marker[q])
          /\ UNCHANGED <<marker, slots, tries>>
    BY <1>4 DEF EnsureStep
  <2>2. kind \in CallKinds
    BY HandshakeAssumption
  <2> DEFINE c == [d EXCEPT !.call.kind = kind]
  <2>3. SameLink(d, c) /\ c.call.at = d.call.at /\ c.call.hs = d.call.hs
    BY <1>1, <2>2, KindFacts
  <2>4. Less(c, e, marker[q])
    BY <2>1
  <2> HIDE DEF c, d, e, q
  <2>5. Initiating(c) /\ OnCompleted(c, slots[a].m3)
    BY <1>1, <2>3 DEF SameLink, Initiating, OnCompleted
  <2>6. Initiating(e) /\ OnCompleted(e, slots[a].m3)
    BY <2>4, <2>5, LessInitiates
  <2> QED BY <1>2, <2>1, <2>6
<1>5. CASE Answers(a)
  BY <1>1, <1>5 DEF Answers, Inbound
<1>6. CASE Park(a) \/ Commits(a) \/ Commit(a) \/ Adopt(a)
  BY <1>1, <1>6, CommitsFacts, CommitFacts, AdoptFacts DEF Park, Initiating
<1>7. CASE Opens(a)
  <2>1. /\ UNCHANGED marker /\ SameLink(d, e) /\ d.row.st = "none" /\ slots'[a].m3 = slots[a].m3
        /\ e.call.at = "initiated"
    BY <1>7, OpensFacts
  <2>2. Initiating(e) /\ OnCompleted(e, slots'[a].m3)
    BY <1>1, <2>1 DEF SameLink, Initiating, OnCompleted
  <2> QED BY <1>2, <2>1, <2>2
<1>8. CASE Initiated(a)
  <2>1. /\ UNCHANGED <<marker, slots>> /\ e.row.role = "initiator" /\ e.row.st = "handshaking"
        /\ e.live.role = "initiator" /\ e.pend = NoPend /\ e.call.at = "advance"
    BY <1>8, InitiatedFacts
  <2>2. Initiating(e) /\ OnCompleted(e, slots'[a].m3)
    BY <2>1 DEF Initiating, OnCompleted
  <2> QED BY <1>2, <2>1, <2>2
<1>9. CASE Completes(a)
  <2>1. /\ UNCHANGED marker /\ e.row.role = "initiator" /\ e.live.role = "initiator"
        /\ e.row.st = "handshaking" /\ e.pend = NoPend /\ e.call.at = "complete"
        /\ e.call.hs = slots'[a].m3 /\ slots'[a].m3 = slots[q].m2
    BY <1>9, CompletesFacts
  <2>2. Initiating(e) /\ OnCompleted(e, slots'[a].m3)
    BY <2>1 DEF Initiating, OnCompleted
  <2> QED BY <1>2, <2>1, <2>2
<1>10. CASE ReadsLast(a)
  BY <1>1, <1>10, ReadsLastFacts DEF Initiating
<1>11. CASE Complete(a)
  <2>1. /\ UNCHANGED <<marker, slots>> /\ e.row.role = d.row.role /\ e.row.hs = d.call.hs
        /\ e.live = d.live /\ e.pend = NoPend /\ e.call.at = "restoring" /\ d.call.at = "complete"
    BY <1>11, CompleteFacts
  <2>2. Initiating(e) /\ OnCompleted(e, slots'[a].m3)
    BY <1>1, <2>1 DEF Initiating, OnCompleted
  <2> QED BY <1>2, <2>1, <2>2
<1>12. CASE Rotate(a)
  <2>1. UNCHANGED slots /\ e = NewDevice /\ marker'[a] = marker[a] + 1
    BY <1>12, RotateFacts
  <2>2. NoRow.st = "none" /\ NoRow.role = "none" /\ NoLive.role = "none" /\ Idle.at = "idle"
    BY DEF NoRow, NoLive, Idle
  <2>3. Initiating(e) /\ OnCompleted(e, slots'[a].m3)
    BY <2>1, <2>2, FreshDevice DEF Initiating, OnCompleted
  <2> QED BY <1>1, <2>1, <2>3, AskerStep
<1> QED BY <1>3, <1>4, <1>5, <1>6, <1>7, <1>8, <1>9, <1>10, <1>11, <1>12 DEF Cases

LEMMA AnswererKeeps ==
    ASSUME HInv, NEW a \in Devices, OneSideInv(a), Calls[Other(a)] \subseteq {"sync"}, Cases(Other(a))
    PROVE  OneSideInv(a)'
<1> DEFINE q == Other(a)
           d == dev[q]
           e == dev'[q]
           pk == marker[a]
           m2 == slots[q].m2
           m3 == slots[a].m3
<1>1. /\ q \in Devices /\ Other(q) = a /\ d \in DevT /\ DevOK(d) /\ pk \in Nat
  BY OtherEnd, Here
<1>2. /\ Answering(d) /\ KeysUpTo(d, pk) /\ OnAnswered(d, pk, m2, m3) /\ slots[q].m1.i = 0
  BY DEF OneSideInv
<1>3. Local(q) /\ e \in DevT /\ DevOK(e)
  BY <1>1, CasesLocal DEF Local
<1>t. /\ d.row.pk \in Nat /\ d.pend.pk \in Nat /\ d.call.pk \in Nat
      /\ e.row.pk \in Nat /\ e.pend.pk \in Nat /\ e.call.pk \in Nat
  BY <1>1, <1>3 DEF DevT, RowT, PendT, CallT
<1>n. /\ NoRow.st = "none" /\ NoRow.role = "none" /\ NoRow.pk = 0 /\ NoLive.role = "none" /\ NoPend.pk = 0
      /\ Idle.at = "idle" /\ Idle.kind = "sync" /\ Idle.pk = 0
  BY DEF NoRow, NoLive, NoPend, Idle
<1>4. ASSUME UNCHANGED <<marker, slots>>, Answering(e), KeysUpTo(e, pk), OnAnswered(e, pk, m2, m3)
      PROVE  OneSideInv(a)'
  BY <1>2, <1>3, <1>4, AnswererStep
<1>5. CASE ShedStep(q)
  <2>1. Less(d, e, pk) /\ UNCHANGED <<marker, slots>>
    BY <1>1, <1>5 DEF ShedStep
  <2> HIDE DEF d, e, q, pk, m2, m3
  <2>2. Answering(e) /\ KeysUpTo(e, pk) /\ OnAnswered(e, pk, m2, m3)
    BY <1>1, <1>2, <2>1, LessAnswers
  <2> QED BY <1>4, <2>1, <2>2
<1>6. CASE EnsureStep(q)
  <2>1. PICK kind \in Calls[q] :
          /\ Less([d EXCEPT !.call.kind = kind], e, pk)
          /\ UNCHANGED <<marker, slots, tries>>
    BY <1>1, <1>6 DEF EnsureStep
  <2>2. kind = "sync" /\ kind \in CallKinds
    BY DEF CallKinds
  <2> DEFINE c == [d EXCEPT !.call.kind = kind]
  <2>3. c \in DevT /\ SameLink(d, c) /\ c.call.at = d.call.at /\ c.call.hs = d.call.hs
        /\ c.call.kind = "sync" /\ c.call.pk = d.call.pk
    BY <1>1, <2>2, KindFacts
  <2>4. Less(c, e, pk)
    BY <2>1
  <2> HIDE DEF c, d, e, q, pk, m2, m3
  <2>5. Answering(c) /\ KeysUpTo(c, pk) /\ OnAnswered(c, pk, m2, m3)
    BY <1>2, <2>3 DEF SameLink, Answering, KeysUpTo, OnAnswered
  <2>6. Answering(e) /\ KeysUpTo(e, pk) /\ OnAnswered(e, pk, m2, m3)
    BY <1>1, <2>3, <2>4, <2>5, LessAnswers
  <2> QED BY <1>4, <2>1, <2>6
<1>7. CASE Answers(q)
  <2>1. /\ UNCHANGED marker /\ SameLink(d, e) /\ e.pend = NoPend
        /\ slots'[q].m1 = slots[q].m1
        /\ e.call.at \in {"adopt", "park"} /\ e.call.kind = d.call.kind /\ e.call.pk = d.call.pk
        /\ e.call.at = "adopt" => d.call.at \in {"probe", "restart"}
        /\ e.call.at = "park" => d.call.at = "rekeyprobe"
    BY <1>1, <1>7, AnswersFacts
  <2>2. d.call.at = "restart" => d.row.st = "none"
    BY <1>1 DEF DevOK, RowAt
  <2>3. d.call.at = "rekeyprobe" => d.row.pk # pk
    BY <1>2, <1>t, <1>1 DEF KeysUpTo
  <2>4. Answering(e)
    BY <1>2, <2>1, <2>2 DEF SameLink, Answering
  <2>5. KeysUpTo(e, pk)
    BY <1>2, <2>1 DEF SameLink, KeysUpTo
  <2>6. OnAnswered(e, pk, slots'[q].m2, m3)
    <3>1. CASE e.call.at = "park"
      BY <2>1, <2>3, <3>1 DEF SameLink, OnAnswered
    <3>2. CASE e.call.at = "adopt"
      BY <1>2, <2>1, <2>2, <3>2 DEF SameLink, OnAnswered, Answering
    <3> QED BY <2>1, <3>1, <3>2
  <2> QED BY <1>2, <1>3, <2>1, <2>4, <2>5, <2>6, AnswererStep
<1>8. CASE Park(q)
  <2>1. /\ UNCHANGED <<marker, slots>> /\ e.row = d.row /\ e.live = d.live
        /\ e.pend \in {NoPend, [pk |-> d.call.pk, hs |-> d.call.hs]}
        /\ e.call.at \in {"idle", "rekey"} /\ e.call.kind \in {"sync", d.call.kind}
        /\ e.call.pk \in {0, d.call.pk} /\ d.call.at = "park"
    BY <1>1, <1>8, ParkFacts DEF Park
  <2>2. e.pend.pk \in {0, d.call.pk} /\ (e.pend # NoPend => e.pend.pk = d.call.pk)
    BY <1>n, <2>1
  <2>3. Answering(e) /\ OnAnswered(e, pk, m2, m3)
    BY <1>2, <2>1 DEF Answering, OnAnswered
  <2>4. KeysUpTo(e, pk)
    BY <1>1, <1>2, <1>t, <2>1, <2>2 DEF KeysUpTo
  <2> QED BY <1>4, <2>1, <2>3, <2>4
<1>9. CASE Commits(q)
  <2>1. /\ UNCHANGED <<marker, slots>> /\ e.row = d.row /\ e.live = d.live /\ e.pend = NoPend
        /\ e.call.at = "commit" /\ e.call.kind = d.call.kind /\ e.call.pk = d.pend.pk /\ d.pend # NoPend
    BY <1>1, <1>9, CommitsFacts
  <2>2. Answering(e) /\ OnAnswered(e, pk, m2, m3)
    BY <1>2, <2>1 DEF Answering, OnAnswered
  <2>3. KeysUpTo(e, pk)
    BY <1>1, <1>2, <1>n, <1>t, <2>1 DEF KeysUpTo
  <2> QED BY <1>4, <2>1, <2>2, <2>3
<1>10. CASE Commit(q)
  <2>1. /\ UNCHANGED <<marker, slots>> /\ e.live.role = "responder" /\ e.pend = NoPend /\ e.call = Idle
        /\ d.call.at = "commit" /\ m2 = d.call.hs /\ m3 = d.call.hs
        /\ e.row = [st |-> "established", role |-> "responder", pk |-> d.call.pk, seen |-> d.call.pk,
                    hs |-> d.call.hs]
    BY <1>1, <1>10, CommitFacts
  <2>2. e.row.st = "established" /\ e.row.role = "responder" /\ e.row.pk = d.call.pk /\ e.row.hs = d.call.hs
    BY <2>1
  <2>3. Answering(e) /\ OnAnswered(e, pk, m2, m3)
    BY <1>n, <2>1, <2>2 DEF Answering, OnAnswered
  <2>4. KeysUpTo(e, pk)
    BY <1>1, <1>2, <1>n, <1>t, <2>1, <2>2 DEF KeysUpTo
  <2> QED BY <1>4, <2>1, <2>3, <2>4
<1>11. CASE Adopt(q)
  <2>1. /\ UNCHANGED <<marker, slots>> /\ e.live.role = "responder" /\ e.pend = NoPend /\ e.call = Idle
        /\ m2 = d.call.hs
        /\ e.row = [st |-> "handshaking", role |-> "responder", pk |-> d.call.pk, seen |-> d.call.pk,
                    hs |-> d.call.hs]
    BY <1>1, <1>11, AdoptFacts
  <2>2. e.row.st = "handshaking" /\ e.row.role = "responder" /\ e.row.pk = d.call.pk /\ e.row.hs = d.call.hs
    BY <2>1
  <2>3. Answering(e) /\ OnAnswered(e, pk, m2, m3)
    BY <1>n, <2>1, <2>2 DEF Answering, OnAnswered
  <2>4. KeysUpTo(e, pk)
    BY <1>1, <1>2, <1>n, <1>t, <2>1, <2>2 DEF KeysUpTo
  <2> QED BY <1>4, <2>1, <2>3, <2>4
<1>12. CASE Opens(q) \/ Initiated(q)
  BY <1>2, <1>12 DEF Opens, Initiated, Answering
<1>13. CASE Completes(q)
  BY <1>1, <1>2, <1>13, CompletesFacts DEF Answering
<1>14. CASE ReadsLast(q)
  <2>1. /\ UNCHANGED <<marker, slots>> /\ e.row = d.row /\ e.row.role = "responder" /\ e.live.role = "responder"
        /\ e.row.st = "handshaking" /\ e.pend = NoPend /\ e.call.at = "complete" /\ e.call.hs = m3
        /\ e.call.hs = e.row.hs /\ e.call.kind = d.call.kind /\ e.call.pk = d.call.pk
    BY <1>1, <1>14, ReadsLastFacts
  <2>2. Answering(e) /\ OnAnswered(e, pk, m2, m3)
    BY <1>2, <2>1 DEF Answering, OnAnswered
  <2>3. KeysUpTo(e, pk)
    BY <1>1, <1>2, <1>n, <2>1 DEF KeysUpTo
  <2> QED BY <1>4, <2>1, <2>2, <2>3
<1>15. CASE Complete(q)
  <2>1. /\ UNCHANGED <<marker, slots>> /\ e.row.st = "established" /\ e.row.role = d.row.role
        /\ e.row.pk = d.row.pk /\ e.row.hs = d.call.hs /\ e.live = d.live /\ e.pend = NoPend
        /\ e.call.at = "restoring" /\ e.call.kind = d.call.kind /\ e.call.pk = d.call.pk
        /\ d.call.at = "complete" /\ d.row.st = "handshaking"
    BY <1>1, <1>15, CompleteFacts
  <2>2. Answering(e) /\ OnAnswered(e, pk, m2, m3)
    BY <1>2, <2>1 DEF Answering, OnAnswered
  <2>3. KeysUpTo(e, pk)
    BY <1>1, <1>2, <1>n, <2>1 DEF KeysUpTo
  <2> QED BY <1>4, <2>1, <2>2, <2>3
<1>16. CASE Rotate(q)
  <2>1. UNCHANGED slots /\ e = NewDevice /\ marker'[a] = pk
    BY <1>1, <1>16, RotateFacts
  <2>2. e.row = NoRow /\ e.live = NoLive /\ e.pend = NoPend /\ e.call = Idle
    BY <2>1, FreshDevice
  <2>3. Answering(e) /\ OnAnswered(e, pk, m2, m3)
    BY <1>n, <2>2 DEF Answering, OnAnswered
  <2>4. KeysUpTo(e, pk)
    BY <1>1, <1>n, <2>2 DEF KeysUpTo
  <2> QED BY <1>2, <1>3, <2>1, <2>3, <2>4, AnswererStep
<1> QED BY <1>5, <1>6, <1>7, <1>8, <1>9, <1>10, <1>11, <1>12, <1>13, <1>14, <1>15, <1>16 DEF Cases

LEMMA OneSideInit ==
    ASSUME HsInit, NEW a \in Devices
    PROVE  OneSideInv(a)
<1>1. Other(a) \in Devices
  BY OtherEnd
<1>2. /\ dev[a] = NewDevice /\ dev[Other(a)] = NewDevice /\ marker[a] = 1
      /\ slots[Other(a)].m1.i = 0
  BY <1>1 DEF HsInit
<1>3. /\ NoRow.st = "none" /\ NoRow.role = "none" /\ NoRow.pk = 0 /\ NoLive.role = "none" /\ NoPend.pk = 0
      /\ Idle.at = "idle" /\ Idle.kind = "sync" /\ Idle.pk = 0
  BY DEF NoRow, NoLive, NoPend, Idle
<1>4. Initiating(NewDevice) /\ Answering(NewDevice) /\ KeysUpTo(NewDevice, 1)
  BY <1>3, FreshDevice DEF Initiating, Answering, KeysUpTo
<1>5. /\ OnAnswered(NewDevice, 1, slots[Other(a)].m2, slots[a].m3)
      /\ OnCompleted(NewDevice, slots[a].m3)
  BY <1>3, FreshDevice DEF OnAnswered, OnCompleted
<1> QED BY <1>2, <1>4, <1>5 DEF OneSideInv

LEMMA OneSideNext ==
    ASSUME HInv, NEW a, OneSideAsks(a), OneSideInv(a), [HsNext]_hsVars
    PROVE  OneSideInv(a)'
<1>1. CASE HsNext
  <2>1. PICK p \in Devices : Cases(p)
    BY <1>1, StepCases
  <2>2. p = a \/ p = Other(a)
    BY OtherEnd DEF OneSideAsks
  <2> QED BY <2>1, <2>2, AskerKeeps, AnswererKeeps DEF OneSideAsks
<1>2. CASE UNCHANGED hsVars
  BY <1>2 DEF hsVars, OneSideInv
<1> QED BY <1>1, <1>2

LEMMA OneSideAgrees ==
    ASSUME NEW a, OneSideAsks(a), OneSideInv(a)
    PROVE  OneSession
<1>1. a \in Devices /\ \A p \in Devices : p = a \/ p = Other(a)
  BY OtherEnd DEF OneSideAsks
<1> QED BY <1>1 DEF OneSideInv, OnCompleted, OnAnswered, OneSession

(* The sessions of the two ends: the initiator is on the one it completed,   *)
(* the responder on the one it answered.                                     *)
THEOREM OneSideInvariant == ASSUME NEW a, OneSideAsks(a) PROVE HsSpec => []OneSideInv(a)
<1>1. HsInit => OneSideInv(a)
  BY OneSideInit DEF OneSideAsks
<1>2. HInv /\ OneSideInv(a) /\ [HsNext]_hsVars => OneSideInv(a)'
  BY OneSideNext
<1> QED BY <1>1, <1>2, HandshakeInvariant, PTL DEF HsSpec

(* Two links established with each other's key are one session, if one of    *)
(* the two devices only answers: through network and protocol failures,      *)
(* reloads, new enrolments and resets of either.                             *)
THEOREM SessionsAgree == ASSUME NEW a, OneSideAsks(a) PROVE HsSpec => []OneSession
<1>1. OneSideInv(a) => OneSession
  BY OneSideAgrees
<1> QED BY <1>1, OneSideInvariant, PTL
================================================================================
