---------------------------- MODULE SendPathOutbox ----------------------------
(* SendPath, on the paths the mutex and the drain cover, implements Outbox: *)
(* the order of acceptance is the order of the queue's time stamps, what is *)
(* no longer owed is confirmed, and the current session's slots are those   *)
(* of the homeserver.                                                       *)
EXTENDS SendPath

Accepted == {m \in Msg : Known(m)}
Confirmed == Accepted \ Owing

(* Which place m has among the writes S, by their stamps, and which write   *)
(* has place i.                                                             *)
RankIn(S, st, m) == Cardinality({x \in S : st[x] <= st[m]})
AtRank(S, st, i) == CHOOSE m \in S : RankIn(S, st, m) = i
Ranked(S, st) == [i \in 1 .. Cardinality(S) |-> AtRank(S, st, i)]

Slots == {p \in Pos : p[1] = epoch /\ hs[p] # NoMsg}

OrderNow == Ranked(Accepted, stamp)
AckedNow == Cardinality(Confirmed)
BaseNow  == AckedNow - snap[2]
ChanNow  == [i \in 1 .. Cardinality(Slots) |-> hs[<<epoch, i - 1>>]]

OB == INSTANCE Outbox WITH order <- OrderNow, acked <- AckedNow, base <- BaseNow, chan <- ChanNow

(* Every step of the send path, with its retries, stale passes, expired     *)
(* claims, re-keys and restarts, is a step of the plain outbox or none.     *)
ImplementsOutbox == OB!Spec

(* What the mapping needs beyond IInv and ISlots: every place of the order  *)
(* is taken, and what is confirmed is older than what is owed.              *)
IOrder ==
    /\ IsFiniteSet(Accepted)
    /\ \A i \in 1 .. Cardinality(Accepted) : \E m \in Accepted : RankIn(Accepted, stamp, m) = i
    /\ \A x \in Confirmed, y \in Owing : stamp[x] < stamp[y]

=============================================================================
