-------------------------------- MODULE Outbox --------------------------------
(***************************************************************************)
(* What LinkService promises the user of one Encrypted Link, without       *)
(* queues, claims, passes or retries: writes are accepted in an order, and *)
(* the peer reads exactly that order.  Each Noise session carries the next *)
(* consecutive writes, one per slot; a write is confirmed before the next  *)
(* one is put; a new session starts with the first unconfirmed write.      *)
(***************************************************************************)
EXTENDS Naturals, Sequences

CONSTANT Msg   \* the writes a user can make

VARIABLES
    order,   \* the writes accepted so far
    acked,   \* how many of them are confirmed
    base,    \* how many were confirmed when the current session started
    chan     \* the slots of the current session, as the peer reads them

vars == <<order, acked, base, chan>>

Init == order = <<>> /\ acked = 0 /\ base = 0 /\ chan = <<>>

Accept(m) ==
    /\ \A i \in DOMAIN order : order[i] # m
    /\ order' = Append(order, m)
    /\ UNCHANGED <<acked, base, chan>>

Write ==
    /\ acked < Len(order)
    /\ Len(chan) = acked - base
    /\ chan' = Append(chan, order[acked + 1])
    /\ UNCHANGED <<order, acked, base>>

Confirm ==
    /\ Len(chan) = acked - base + 1
    /\ acked' = acked + 1
    /\ UNCHANGED <<order, base, chan>>

NewSession ==
    /\ base' = acked
    /\ chan' = <<>>
    /\ UNCHANGED <<order, acked>>

Next == (\E m \in Msg : Accept(m)) \/ Write \/ Confirm \/ NewSession

Spec == Init /\ [][Next]_vars

-----------------------------------------------------------------------------
(* The peer reads the accepted writes in order and without omission: the    *)
(* slots of a session are the accepted writes from its first one on, and at *)
(* most one of them is not confirmed.                                       *)
ReadsInOrder ==
    /\ base + Len(chan) <= Len(order)
    /\ \A i \in 1 .. Len(chan) : chan[i] = order[base + i]
    /\ base + Len(chan) \in {acked, acked + 1}
=============================================================================
