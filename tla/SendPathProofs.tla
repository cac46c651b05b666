---------------------------- MODULE SendPathProofs ----------------------------
(***************************************************************************)
(* Proofs about SendPath.  First what needs no restriction of its paths or *)
(* faults: the types, the shape of the stack of deliveries, that what is   *)
(* owed has its item, and that claims are released.                        *)
(*                                                                         *)
(* Then the serialized paths, for any number of messages, passes, epochs   *)
(* and restarts: the inductive invariant IInv, kept by every step that the *)
(* mutex and the drain cover, and NonceOnce, which follows from it; what a *)
(* step may never do, since only Encrypt adds a plaintext, only a finalize *)
(* or a new session moves the snapshot, and only an intent or a heal fills *)
(* the queue; and what the peer can read, since a put only writes the slot *)
(* of the persisted position, which is empty or holds the same write.      *)
(***************************************************************************)
EXTENDS SendPath, SequenceTheorems, TLAPS

(* What the types of the stack operations are: the four ways a delivery     *)
(* starts, moves to its next phase, ends, or nests another one.             *)
LEMMA StackType ==
    ASSUME TypeOK
    PROVE  /\ stack \in Seq(FrameType)
           /\ Len(stack) \in Nat
           /\ DOMAIN stack = 1 .. Len(stack)
           /\ \A i \in 1 .. Len(stack) : stack[i] \in FrameType /\ FrameOK(stack[i])
           /\ stack # <<>> => Len(stack) >= 1
<1>1. stack \in Seq(FrameType) /\ \A i \in DOMAIN stack : FrameOK(stack[i])
  BY DEF TypeOK
<1> QED BY <1>1

LEMMA TopType ==
    ASSUME TypeOK, ~Free
    PROVE  /\ Len(stack) >= 1
           /\ 1 \in DOMAIN stack
           /\ Top \in FrameType
           /\ FrameOK(Top)
BY StackType DEF Free, Top

LEMMA ReplaceProperties ==
    ASSUME NEW S, NEW s \in Seq(S), s # <<>>, NEW f \in S
    PROVE  /\ Replace(s, f) \in Seq(S)
           /\ Len(Replace(s, f)) = Len(s)
           /\ DOMAIN Replace(s, f) = 1 .. Len(s)
           /\ Replace(s, f)[1] = f
           /\ \A i \in 2 .. Len(s) : Replace(s, f)[i] = s[i]
           /\ Len(s) \in Nat /\ Len(s) >= 1
BY DEF Replace

LEMMA ReplaceTop ==
    ASSUME TypeOK, ~Free,
           NEW f \in FrameType, FrameOK(f)
    PROVE  /\ Replace(stack, f) \in Seq(FrameType)
           /\ Len(Replace(stack, f)) = Len(stack)
           /\ DOMAIN Replace(stack, f) = 1 .. Len(stack)
           /\ Replace(stack, f)[1] = f
           /\ \A i \in 2 .. Len(stack) : Replace(stack, f)[i] = stack[i]
           /\ \A i \in 1 .. Len(stack) : FrameOK(Replace(stack, f)[i])
<1> DEFINE t == Replace(stack, f)
<1>1. stack \in Seq(FrameType) /\ stack # <<>>
  BY StackType DEF Free
<1>2. /\ t \in Seq(FrameType) /\ Len(t) = Len(stack) /\ DOMAIN t = 1 .. Len(stack) /\ t[1] = f
      /\ \A i \in 2 .. Len(stack) : t[i] = stack[i]
  BY <1>1, ReplaceProperties
<1> HIDE DEF t
<1>3. \A i \in 1 .. Len(stack) : FrameOK(t[i])
  <2> SUFFICES ASSUME NEW i \in 1 .. Len(stack) PROVE FrameOK(t[i])
    OBVIOUS
  <2>1. CASE i = 1
    BY <2>1, <1>2
  <2>2. CASE i # 1
    <3>1. i \in 2 .. Len(stack)
      BY <2>2, StackType
    <3> QED BY <3>1, <1>2, StackType
  <2> QED BY <2>1, <2>2
<1> QED BY <1>2, <1>3 DEF t

LEMMA PushTop ==
    ASSUME TypeOK,
           NEW f \in FrameType, FrameOK(f)
    PROVE  /\ <<f>> \o stack \in Seq(FrameType)
           /\ Len(<<f>> \o stack) = Len(stack) + 1
           /\ (<<f>> \o stack)[1] = f
           /\ \A i \in 1 .. Len(stack) : (<<f>> \o stack)[i + 1] = stack[i]
           /\ \A i \in DOMAIN (<<f>> \o stack) : FrameOK((<<f>> \o stack)[i])
<1>1. stack \in Seq(FrameType) /\ <<f>> \in Seq(FrameType)
  BY DEF TypeOK
<1>2. <<f>> \o stack \in Seq(FrameType)
  BY <1>1
<1>3. Len(<<f>>) = 1 /\ Len(<<f>> \o stack) = Len(stack) + 1
  BY <1>1
<1>4. (<<f>> \o stack)[1] = f
  BY <1>1, <1>3
<1>5. \A i \in 1 .. Len(stack) : (<<f>> \o stack)[i + 1] = stack[i]
  BY <1>1, <1>3
<1>6. \A i \in DOMAIN (<<f>> \o stack) : FrameOK((<<f>> \o stack)[i])
  <2> SUFFICES ASSUME NEW i \in DOMAIN (<<f>> \o stack)
               PROVE  FrameOK((<<f>> \o stack)[i])
    OBVIOUS
  <2>1. CASE i = 1
    BY <2>1, <1>4
  <2>2. CASE i # 1
    <3>1. i - 1 \in 1 .. Len(stack) /\ i = (i - 1) + 1
      BY <2>2, <1>2, <1>3, <1>1
    <3>2. (<<f>> \o stack)[i] = stack[i - 1]
      BY <3>1, <1>5
    <3> QED BY <3>1, <3>2, <1>1 DEF TypeOK
  <2> QED BY <2>1, <2>2
<1> QED BY <1>2, <1>3, <1>4, <1>5, <1>6

LEMMA AtLeastTwo == \A n \in Nat : n # 1 /\ n >= 1 => n >= 2
OBVIOUS

LEMMA PopTop ==
    ASSUME TypeOK, ~Free, NEW m,
           Len(stack) # 1
    PROVE  LET t == Replace(Tail(stack), [stack[2] EXCEPT !.todo = @ \ {m}]) IN
           /\ t \in Seq(FrameType)
           /\ Len(t) = Len(stack) - 1
           /\ DOMAIN t = 1 .. Len(stack) - 1
           /\ t[1] = [stack[2] EXCEPT !.todo = @ \ {m}]
           /\ \A i \in 2 .. Len(stack) - 1 : t[i] = stack[i + 1]
           /\ \A i \in 1 .. Len(stack) - 1 : FrameOK(t[i])
           /\ Len(stack) >= 2
<1> DEFINE s == Tail(stack)
           f == [stack[2] EXCEPT !.todo = @ \ {m}]
           t == Replace(s, f)
<1>1. stack \in Seq(FrameType) /\ stack # <<>> /\ Len(stack) \in Nat /\ Len(stack) >= 2
  <2>1. stack \in Seq(FrameType) /\ stack # <<>>
    BY StackType DEF Free
  <2>2. Len(stack) \in Nat /\ Len(stack) >= 1
    BY StackType DEF Free
  <2>3. Len(stack) >= 2
    BY <2>2, AtLeastTwo
  <2> QED BY <2>1, <2>2, <2>3
<1>2. s \in Seq(FrameType) /\ Len(s) = Len(stack) - 1
      /\ \A i \in 1 .. Len(s) : s[i] = stack[i + 1]
  BY <1>1, HeadTailProperties
<1>3. stack[2] \in FrameType /\ FrameOK(stack[2])
  BY <1>1, StackType
<1>4. f \in FrameType /\ FrameOK(f)
  BY <1>3 DEF FrameType, FrameOK
<1> HIDE DEF s, f
<1>5. s # <<>>
  BY <1>1, <1>2
<1>6. /\ t \in Seq(FrameType) /\ Len(t) = Len(s) /\ DOMAIN t = 1 .. Len(s) /\ t[1] = f
      /\ \A i \in 2 .. Len(s) : t[i] = s[i]
  <2> f \in FrameType
    BY <1>4
  <2> QED BY <1>2, <1>5, ReplaceProperties
<1> HIDE DEF t
<1>7. \A i \in 2 .. Len(stack) - 1 : i \in 1 .. Len(s) /\ i \in 2 .. Len(s) /\ i + 1 \in 1 .. Len(stack)
  BY <1>1, <1>2
<1>8. \A i \in 2 .. Len(stack) - 1 : t[i] = stack[i + 1] /\ FrameOK(stack[i + 1])
  BY <1>2, <1>6, <1>7, StackType
<1>9. \A i \in 1 .. Len(stack) - 1 : FrameOK(t[i])
  <2> SUFFICES ASSUME NEW i \in 1 .. Len(stack) - 1 PROVE FrameOK(t[i])
    OBVIOUS
  <2>1. CASE i = 1
    BY <2>1, <1>4, <1>6
  <2>2. CASE i # 1
    <3>1. i \in 2 .. Len(stack) - 1
      BY <2>2, <1>1
    <3> QED BY <3>1, <1>8
  <2> QED BY <2>1, <2>2
<1>10. Len(t) = Len(stack) - 1 /\ DOMAIN t = 1 .. Len(stack) - 1
  BY <1>2, <1>6
<1> QED BY <1>1, <1>6, <1>8, <1>9, <1>10 DEF s, f, t

-----------------------------------------------------------------------------
(* Type correctness.                                                        *)
StackTyped == stack \in Seq(FrameType) /\ \A i \in DOMAIN stack : FrameOK(stack[i])

LEMMA EmptyStack == ASSUME stack' = <<>> PROVE StackTyped'
BY DEF StackTyped

LEMMA PosFacts ==
    /\ <<0, 0>> \in Pos
    /\ NoPos \notin Pos
    /\ \A p \in Pos : p[1] \in 0 .. MaxEpoch /\ p[2] \in 0 .. MaxNonce /\ p = <<p[1], p[2]>>
    /\ \A p \in Pos : p[2] < MaxNonce => Next1(p) \in Pos
    /\ \A e \in 0 .. MaxEpoch : <<e, 0>> \in Pos
BY BoundsAssumption DEF Pos, NoPos, Next1

LEMMA NoMsgIsNone == NoMsg \notin Msg
BY KindsAssumption

LEMMA OneFrame ==
    ASSUME NEW f \in FrameType, FrameOK(f), stack' = <<f>>
    PROVE  StackTyped'
BY DEF StackTyped

LEMMA TopReplaced ==
    ASSUME TypeOK, ~Free,
           NEW f \in FrameType, FrameOK(f), stack' = Replace(stack, f)
    PROVE  StackTyped'
BY ReplaceTop DEF StackTyped

LEMMA BlockedRowType ==
    ASSUME NEW r \in [Msg -> RowStates]
    PROVE  BlockedRow(r) \in [Msg -> RowStates]
BY DEF BlockedRow, RowStates

LEMMA FailedRowsType ==
    ASSUME TypeOK, NEW m
    PROVE  FailedRows(m) \subseteq [Msg -> RowStates]
<1>1. row \in [Msg -> RowStates]
  BY DEF TypeOK
<1>2. [row EXCEPT ![m] = "failed"] \in [Msg -> RowStates]
  BY <1>1 DEF RowStates
<1>3. FailedRows(m) \subseteq {row, [row EXCEPT ![m] = "failed"]}
  BY DEF FailedRows
<1> QED BY <1>1, <1>2, <1>3

LEMMA UnwindType ==
    ASSUME TypeOK, NEW r \in [Msg -> RowStates], Unwind(r)
    PROVE  row' \in [Msg -> RowStates] /\ StackTyped' /\ claims' \subseteq Msg
BY BlockedRowType, EmptyStack DEF Unwind, TypeOK

LEMMA PopType ==
    ASSUME TypeOK, ~Free, NEW m, Pop(m)
    PROVE  StackTyped' /\ claims' \subseteq Msg
<1>1. claims' \subseteq Msg
  BY DEF Pop, TypeOK
<1>2. CASE Len(stack) = 1
  BY <1>1, <1>2, EmptyStack DEF Pop
<1>3. CASE Len(stack) # 1
  <2>1. stack' = Replace(Tail(stack), [stack[2] EXCEPT !.todo = @ \ {m}])
    BY <1>3 DEF Pop
  <2>2. StackTyped'
    BY <1>3, <2>1, PopTop DEF StackTyped
  <2> QED BY <1>1, <2>2
<1> QED BY <1>2, <1>3

LEMMA LinkIsLive ==
    ASSUME TypeOK, LinkReady
    PROVE  live' \in Pos
<1>1. CASE live # NoPos /\ UNCHANGED <<live, epoch, snap>>
  BY <1>1 DEF TypeOK
<1>2. CASE live = NoPos /\ snap # NoPos /\ live' = snap /\ UNCHANGED <<epoch, snap>>
  BY <1>2 DEF TypeOK
<1>3. CASE epoch < MaxEpoch /\ live' = <<epoch + 1, 0>>
  <2>1. epoch + 1 \in 0 .. MaxEpoch
    BY <1>3, BoundsAssumption DEF TypeOK
  <2> QED BY <1>3, <2>1, PosFacts
<1> QED BY <1>1, <1>2, <1>3 DEF LinkReady

LEMMA LinkType ==
    ASSUME TypeOK, LinkReady
    PROVE  live' \in Pos \cup {NoPos} /\ snap' \in Pos \cup {NoPos} /\ epoch' \in 0 .. MaxEpoch
<1>1. live \in Pos \cup {NoPos} /\ snap \in Pos \cup {NoPos} /\ epoch \in 0 .. MaxEpoch
  BY DEF TypeOK
<1>2. CASE UNCHANGED <<live, epoch, snap>>
  BY <1>1, <1>2
<1>3. CASE live' = snap /\ UNCHANGED <<epoch, snap>>
  BY <1>1, <1>3
<1>4. CASE epoch < MaxEpoch /\ epoch' = epoch + 1 /\ live' = <<epoch + 1, 0>> /\ snap' = <<epoch + 1, 0>>
  <2>1. epoch + 1 \in 0 .. MaxEpoch
    BY <1>1, <1>4, BoundsAssumption
  <2> QED BY <1>4, <2>1, PosFacts
<1> QED BY <1>2, <1>3, <1>4 DEF LinkReady

LEMMA FailType ==
    ASSUME TypeOK, ~Free, Top.k # "reset", FailTop
    PROVE  /\ row' \in [Msg -> RowStates] /\ StackTyped' /\ claims' \subseteq Msg
           /\ attempts' \in [Msg -> 0 .. MaxAttempts - 1]
<1>1. row \in [Msg -> RowStates] /\ attempts \in [Msg -> 0 .. MaxAttempts - 1]
  BY DEF TypeOK
<1>2. CASE Top.k = "deliver" /\ Top.m \notin Controls /\ RecordFailure(Top.m)
  <2>1. CASE attempts[Top.m] + 1 >= MaxAttempts
    <3>1. PICK r \in FailedRows(Top.m) : Unwind(r)
      BY <1>2, <2>1 DEF RecordFailure
    <3>2. r \in [Msg -> RowStates]
      BY FailedRowsType
    <3>3. attempts' = attempts
      BY <1>2, <2>1 DEF RecordFailure
    <3> QED BY <1>1, <3>1, <3>2, <3>3, UnwindType
  <2>2. CASE ~(attempts[Top.m] + 1 >= MaxAttempts)
    <3>1. Unwind(row) /\ attempts' = [attempts EXCEPT ![Top.m] = @ + 1]
      BY <1>2, <2>2 DEF RecordFailure
    <3>2. Top.m \in Msg
      BY <1>2, TopType DEF FrameType, FrameOK
    <3>3. attempts' \in [Msg -> 0 .. MaxAttempts - 1]
      BY <1>1, <2>2, <3>1, <3>2, BoundsAssumption
    <3> QED BY <1>1, <3>1, <3>3, UnwindType
  <2> QED BY <2>1, <2>2
<1>3. CASE Top.k = "send" /\ UNCHANGED attempts /\ Unwind([row EXCEPT ![Top.m] = "failed"])
  <2>1. [row EXCEPT ![Top.m] = "failed"] \in [Msg -> RowStates]
    BY <1>1 DEF RowStates
  <2> QED BY <1>1, <1>3, <2>1, UnwindType
<1>4. CASE UNCHANGED attempts /\ Unwind(row)
  BY <1>1, <1>4, UnwindType
<1> QED BY <1>2, <1>3, <1>4 DEF FailTop

LEMMA ControlType ==
    ASSUME TypeOK, NEW c \in Controls
    PROVE  /\ c \in Msg /\ ctl[c] \in FrameType /\ ctl[c].pos \in Pos
           /\ ctl[c].ph \in {"putting", "fin"} => ctl[c].pos[2] < MaxNonce
           /\ \A ph \in {"idle", "ensure", "drain2", "fin"} :
                 [ctl[c] EXCEPT !.ph = ph] \in FrameType
           /\ \A p \in Pos : [ctl[c] EXCEPT !.ph = "putting", !.pos = p] \in FrameType
<1>1. c \in Msg /\ ctl[c] \in FrameType
      /\ (ctl[c].ph \in {"putting", "fin"} => ctl[c].pos[2] < MaxNonce)
  BY DEF TypeOK, Msg
<1>2. ctl[c].pos \in Pos
  BY <1>1 DEF FrameType
<1>3. \A ph \in {"idle", "ensure", "drain2", "fin"} : [ctl[c] EXCEPT !.ph = ph] \in FrameType
  BY <1>1 DEF FrameType
<1>4. \A p \in Pos : [ctl[c] EXCEPT !.ph = "putting", !.pos = p] \in FrameType
  BY <1>1 DEF FrameType
<1> QED BY <1>1, <1>2, <1>3, <1>4

(* Every step preserves the types.                                          *)
LEMMA TypeStep == TypeOK /\ [Next]_vars => TypeOK'
<1> SUFFICES ASSUME TypeOK, [Next]_vars
             PROVE  TypeOK'
  OBVIOUS
<1> USE DEF dbVars, timeVars, linkVars, passVars, laterVars, netVars, vars
<1>st. StackTyped
  BY DEF TypeOK, StackTyped
<1>un. UNCHANGED stack => StackTyped'
  BY <1>st DEF StackTyped
<1>0. CASE UNCHANGED vars
  BY <1>0, <1>un DEF TypeOK, StackTyped
<1>1. ASSUME NEW m \in Msg, SendStart(m) PROVE TypeOK'
  <2>1. Frame("send", m, "ensure", {}) \in FrameType /\ FrameOK(Frame("send", m, "ensure", {}))
    BY <1>1, PosFacts, NoMsgIsNone DEF SendStart, Frame, FrameType, FrameOK, Msg
  <2>2. StackTyped'
    BY <1>1, <2>1, OneFrame DEF SendStart
  <2> QED BY <1>1, <2>2 DEF SendStart, TypeOK, StackTyped
<1>2. ASSUME SendEnsure PROVE TypeOK'
  <2>0. ~Free /\ Top.k = "send" /\ Top \in FrameType /\ FrameOK(Top) /\ Top.m \in Msg /\ Top.m \in Dms
    BY <1>2, TopType DEF SendEnsure, FrameType, FrameOK, Msg
  <2>1. CASE stack' = <<>> /\ UNCHANGED <<row, queue, snap, stamp, clock, linkVars>>
    BY <1>2, <2>1, EmptyStack DEF SendEnsure, TypeOK, StackTyped
  <2>2. CASE /\ row' = [row EXCEPT ![Top.m] = "sending"] /\ Insert(Top.m)
             /\ stack' = <<>> /\ UNCHANGED <<snap, linkVars>>
    BY <1>2, <2>0, <2>2, EmptyStack DEF SendEnsure, TypeOK, StackTyped, Insert, RowStates
  <2>3. CASE /\ LinkReady /\ stack' = To("persist", {})
             /\ UNCHANGED <<row, queue, stamp, clock>>
    <3>1. /\ [Top EXCEPT !.ph = "persist", !.todo = {}] \in FrameType
          /\ FrameOK([Top EXCEPT !.ph = "persist", !.todo = {}])
      BY <2>0 DEF FrameType, FrameOK
    <3>2. StackTyped'
      BY <2>0, <2>3, <3>1, TopReplaced DEF To
    <3> QED BY <1>2, <2>3, <3>2, LinkType DEF SendEnsure, TypeOK, StackTyped
  <2> QED BY <1>2, <2>1, <2>2, <2>3 DEF SendEnsure
<1>3. ASSUME SendPersist PROVE TypeOK'
  <2>0. ~Free /\ Top.k = "send" /\ Top \in FrameType /\ FrameOK(Top) /\ Top.m \in Msg /\ Top.m \in Dms
    BY <1>3, TopType DEF SendPersist, FrameType, FrameOK, Msg
  <2>1. queue \in SUBSET Msg
    BY DEF TypeOK
  <2>2. /\ [Top EXCEPT !.ph = "drain1", !.todo = queue] \in FrameType
        /\ FrameOK([Top EXCEPT !.ph = "drain1", !.todo = queue])
    BY <2>0, <2>1 DEF FrameType, FrameOK
  <2>3. StackTyped'
    BY <1>3, <2>0, <2>2, TopReplaced DEF To, SendPersist
  <2>4. /\ row' \in [Msg -> RowStates] /\ queue' \subseteq Msg
        /\ stamp' \in [Msg -> Nat] /\ clock' \in Nat
    BY <1>3, <2>0 DEF SendPersist, Insert, TypeOK, RowStates
  <2> QED BY <1>3, <2>3, <2>4 DEF SendPersist, TypeOK, StackTyped
<1>4. ASSUME NEW m \in Msg, FanoutPersist(m) PROVE TypeOK'
  BY <1>4, <1>un DEF FanoutPersist, Insert, TypeOK, StackTyped, RowStates
<1>5. ASSUME NEW m \in Msg, FanoutStamp(m) PROVE TypeOK'
  BY <1>5, <1>un, KindsAssumption DEF FanoutStamp, TypeOK, StackTyped
<1>6. ASSUME NEW m \in Msg, FanoutInsert(m) PROVE TypeOK'
  BY <1>6, <1>un DEF FanoutInsert, TypeOK, StackTyped, RowStates
<1>7. ASSUME NEW m \in Msg, AttemptStart(m) PROVE TypeOK'
  <2>1. m \in Fanouts
    BY <1>7 DEF AttemptStart, TypeOK
  <2>2. Frame("attempt", m, "ensure", {}) \in FrameType /\ FrameOK(Frame("attempt", m, "ensure", {}))
    BY <2>1, PosFacts, NoMsgIsNone DEF Frame, FrameType, FrameOK, Msg
  <2>3. StackTyped'
    BY <1>7, <2>2, OneFrame DEF AttemptStart
  <2> QED BY <1>7, <2>3 DEF AttemptStart, TypeOK, StackTyped
<1>8. ASSUME NEW m \in Msg, Claim(m) PROVE TypeOK'
  <2>1. waiting' \in [Msg -> 0 .. MaxPasses]
    BY <1>8, BoundsAssumption DEF Claim, TypeOK
  <2> QED BY <1>8, <1>un, <2>1 DEF Claim, TypeOK, StackTyped
<1>9. ASSUME NEW m \in Msg, ClaimExpires(m) PROVE TypeOK'
  BY <1>9, <1>un DEF ClaimExpires, TypeOK, StackTyped
<1>10. ASSUME NEW m \in Msg, DeliverStart(m) PROVE TypeOK'
  <2>1. Older(m) \in SUBSET Msg
    BY DEF Older, TypeOK
  <2>2. /\ Frame("deliver", m, "drain1", Older(m)) \in FrameType
        /\ FrameOK(Frame("deliver", m, "drain1", Older(m)))
    BY <2>1, PosFacts, NoMsgIsNone DEF Frame, FrameType, FrameOK
  <2>3. StackTyped'
    BY <1>10, <2>2, OneFrame DEF DeliverStart
  <2>4. waiting' \in [Msg -> 0 .. MaxPasses]
    BY <1>10, BoundsAssumption DEF DeliverStart, TypeOK
  <2> QED BY <1>10, <2>3, <2>4 DEF DeliverStart, TypeOK, StackTyped
<1>11. ASSUME DrainOlder PROVE TypeOK'
  <2>1. PICK x \in Msg \ claims :
           /\ claims' = claims \cup {x}
           /\ stack' = <<Frame("deliver", x, "drain1", Older(x))>> \o stack
    BY <1>11 DEF DrainOlder
  <2>2. Older(x) \in SUBSET Msg
    BY DEF Older, TypeOK
  <2>3. /\ Frame("deliver", x, "drain1", Older(x)) \in FrameType
        /\ FrameOK(Frame("deliver", x, "drain1", Older(x)))
    BY <2>2, PosFacts, NoMsgIsNone DEF Frame, FrameType, FrameOK
  <2>4. StackTyped'
    BY <2>1, <2>3, PushTop DEF StackTyped
  <2> QED BY <1>11, <2>1, <2>4 DEF DrainOlder, TypeOK, StackTyped
<1>12. ASSUME DrainBlocked PROVE TypeOK'
  <2>1. row' \in [Msg -> RowStates]
    BY <1>12, BlockedRowType DEF DrainBlocked, TypeOK
  <2> QED BY <1>12, <2>1, EmptyStack DEF DrainBlocked, TypeOK, StackTyped
<1>13. ASSUME Rescan PROVE TypeOK'
  <2>0. /\ ~Free /\ Top \in FrameType /\ FrameOK(Top) /\ Top.ph = "drain1" /\ live \in Pos
        /\ Older(Top.m) \in SUBSET Msg
    BY <1>13, TopType DEF Rescan, Draining, TypeOK, Older
  <2>1. /\ [Top EXCEPT !.ph = "drain2", !.todo = Older(Top.m), !.pos = live] \in FrameType
        /\ FrameOK([Top EXCEPT !.ph = "drain2", !.todo = Older(Top.m), !.pos = live])
    BY <2>0 DEF FrameType, FrameOK
  <2>2. StackTyped'
    BY <1>13, <2>0, <2>1, TopReplaced DEF WithHandle, Rescan
  <2> QED BY <1>13, <2>2 DEF Rescan, TypeOK, StackTyped
<1>14. ASSUME Settle PROVE TypeOK'
  <2>1. ~Free
    BY <1>14 DEF Settle, Checking, Draining
  <2>2. StackTyped' /\ claims' \subseteq Msg
    BY <1>14, <2>1, PopType DEF Settle
  <2> QED BY <1>14, <2>2 DEF Settle, TypeOK, StackTyped
<1>15. ASSUME Retire PROVE TypeOK'
  <2>1. PICK r \in FailedRows(Top.m) : Unwind(r)
    BY <1>15 DEF Retire
  <2>2. row' \in [Msg -> RowStates] /\ StackTyped' /\ claims' \subseteq Msg
    BY <2>1, FailedRowsType, UnwindType
  <2> QED BY <1>15, <2>2 DEF Retire, TypeOK, StackTyped
<1>16. ASSUME Proceed PROVE TypeOK'
  <2>0. ~Free /\ Top \in FrameType /\ FrameOK(Top) /\ Top.ph = "drain1"
    BY <1>16, TopType DEF Proceed, Checking, Draining
  <2>1. /\ [Top EXCEPT !.ph = "ensure", !.todo = {}] \in FrameType
        /\ FrameOK([Top EXCEPT !.ph = "ensure", !.todo = {}])
    BY <2>0 DEF FrameType, FrameOK
  <2>2. StackTyped'
    BY <1>16, <2>0, <2>1, TopReplaced DEF To, Proceed
  <2> QED BY <1>16, <2>2 DEF Proceed, TypeOK, StackTyped
<1>17. ASSUME EnsureReady PROVE TypeOK'
  <2>0. ~Free /\ Top \in FrameType /\ FrameOK(Top) /\ Top.ph = "ensure" /\ Older(Top.m) \in SUBSET Msg
    BY <1>17, TopType DEF EnsureReady, Ensuring, TypeOK, Older
  <2>1. live' \in Pos
    BY <1>17, PosFacts, LinkIsLive DEF EnsureReady
  <2>2. /\ [Top EXCEPT !.ph = "drain2", !.todo = Older(Top.m), !.pos = live'] \in FrameType
        /\ FrameOK([Top EXCEPT !.ph = "drain2", !.todo = Older(Top.m), !.pos = live'])
        /\ [Top EXCEPT !.ph = "drain2", !.todo = {}, !.pos = live'] \in FrameType
        /\ FrameOK([Top EXCEPT !.ph = "drain2", !.todo = {}, !.pos = live'])
    BY <2>0, <2>1 DEF FrameType, FrameOK
  <2>3. /\ [Top EXCEPT !.ph = "drain1", !.todo = Older(Top.m)] \in FrameType
        /\ FrameOK([Top EXCEPT !.ph = "drain1", !.todo = Older(Top.m)])
    BY <2>0 DEF FrameType, FrameOK
  <2>4. ASSUME stack' = WithHandle(live', Older(Top.m)) PROVE StackTyped'
    BY <2>0, <2>2, <2>4, TopReplaced DEF WithHandle
  <2>5. ASSUME stack' = WithHandle(live', {}) PROVE StackTyped'
    BY <2>0, <2>2, <2>5, TopReplaced DEF WithHandle
  <2>6. ASSUME stack' = To("drain1", Older(Top.m)) PROVE StackTyped'
    BY <2>0, <2>3, <2>6, TopReplaced DEF To
  <2>7. StackTyped'
    BY <1>17, <2>4, <2>5, <2>6, EmptyStack DEF EnsureReady
  <2> QED BY <1>17, <2>7, LinkType DEF EnsureReady, TypeOK, StackTyped
<1>18. ASSUME EnsureNotReady PROVE TypeOK'
  <2>1. row' \in [Msg -> RowStates] /\ StackTyped' /\ claims' \subseteq Msg
    BY <1>18, UnwindType DEF EnsureNotReady, TypeOK
  <2> QED BY <1>18, <2>1 DEF EnsureNotReady, TypeOK, StackTyped
<1>19. ASSUME EnsureFailed PROVE TypeOK'
  <2>0. ~Free /\ Top.k # "reset"
    BY <1>19, TopType DEF EnsureFailed, Ensuring, Draining, FrameOK
  <2>1. /\ row' \in [Msg -> RowStates] /\ StackTyped' /\ claims' \subseteq Msg
        /\ attempts' \in [Msg -> 0 .. MaxAttempts - 1]
    BY <1>19, <2>0, FailType DEF EnsureFailed
  <2> QED BY <1>19, <2>1 DEF EnsureFailed, TypeOK, StackTyped
<1>20. ASSUME EnsureLink PROVE TypeOK'
  <2>1. row' \in [Msg -> RowStates]
    BY <1>20 DEF EnsureLink, Abandon, TypeOK, RowStates
  <2>2. live' \in Pos \cup {NoPos} /\ snap' \in Pos \cup {NoPos} /\ epoch' \in 0 .. MaxEpoch
    BY <1>20, LinkType DEF EnsureLink, TypeOK
  <2> QED BY <1>20, <2>1, <2>2, <1>un DEF EnsureLink, TypeOK, StackTyped
<1>21. ASSUME Encrypt PROVE TypeOK'
  <2>0. /\ ~Free /\ Top \in FrameType /\ FrameOK(Top) /\ Top.ph = "drain2" /\ Top.m \in Msg
    BY <1>21, TopType, NoMsgIsNone DEF Encrypt, Draining, FrameType, FrameOK
  <2>1. live \in Pos /\ live[2] < MaxNonce
    BY <1>21, <2>0, PosFacts DEF Encrypt, TypeOK, FrameType, NoPos
  <2>2. /\ [Top EXCEPT !.ph = "putting", !.pos = live] \in FrameType
        /\ FrameOK([Top EXCEPT !.ph = "putting", !.pos = live])
    BY <2>0, <2>1 DEF FrameType, FrameOK
  <2>3. StackTyped'
    BY <1>21, <2>0, <2>2, TopReplaced DEF Encrypt
  <2>4. wrote' \subseteq Pos \X Msg
    BY <1>21, <2>0, <2>1 DEF Encrypt, TypeOK
  <2> QED BY <1>21, <2>3, <2>4 DEF Encrypt, TypeOK, StackTyped
<1>22. ASSUME PutOk PROVE TypeOK'
  <2>0. ~Free /\ Top \in FrameType /\ FrameOK(Top) /\ Top.ph = "putting" /\ Top.m \in Msg
        /\ Top.pos \in Pos /\ Top.pos[2] < MaxNonce
    BY <1>22, TopType DEF PutOk, FrameType, FrameOK
  <2>1. /\ [Top EXCEPT !.ph = "fin", !.todo = {}] \in FrameType
        /\ FrameOK([Top EXCEPT !.ph = "fin", !.todo = {}])
    BY <2>0 DEF FrameType, FrameOK
  <2>2. StackTyped'
    BY <1>22, <2>0, <2>1, TopReplaced DEF To, PutOk
  <2>3. live' \in Pos \cup {NoPos} /\ hs' \in [Pos -> Msg \cup {NoMsg}]
    BY <1>22, <2>0, PosFacts DEF PutOk, TypeOK
  <2> QED BY <1>22, <2>2, <2>3 DEF PutOk, TypeOK, StackTyped
<1>23. ASSUME PutTransient PROVE TypeOK'
  <2>0. ~Free /\ Top \in FrameType /\ FrameOK(Top) /\ Top.m \in Msg
    BY <1>23, TopType DEF PutTransient, FrameType, FrameOK
  <2>1. row' \in [Msg -> RowStates] /\ StackTyped' /\ claims' \subseteq Msg
    BY <1>23, UnwindType DEF PutTransient, TypeOK
  <2>2. hs' \in [Pos -> Msg \cup {NoMsg}]
    BY <1>23, <2>0 DEF PutTransient, PutOutcomes, TypeOK
  <2> QED BY <1>23, <2>1, <2>2 DEF PutTransient, TypeOK, StackTyped
<1>24. ASSUME PutRejected PROVE TypeOK'
  <2>0. ~Free /\ Top \in FrameType /\ FrameOK(Top) /\ Top.m \in Msg /\ Top.k # "reset"
    BY <1>24, TopType DEF PutRejected, FrameType, FrameOK
  <2>1. /\ row' \in [Msg -> RowStates] /\ StackTyped' /\ claims' \subseteq Msg
        /\ attempts' \in [Msg -> 0 .. MaxAttempts - 1]
    BY <1>24, <2>0, FailType DEF PutRejected
  <2>2. hs' \in [Pos -> Msg \cup {NoMsg}]
    BY <1>24, <2>0 DEF PutRejected, PutOutcomes, TypeOK
  <2>3. live' \in Pos \cup {NoPos}
    BY <1>24 DEF PutRejected, TypeOK
  <2> QED BY <1>24, <2>1, <2>2, <2>3 DEF PutRejected, TypeOK, StackTyped
<1>25. ASSUME Finalize PROVE TypeOK'
  <2>0. ~Free /\ Top \in FrameType /\ FrameOK(Top) /\ Top.pos \in Pos /\ Top.pos[2] < MaxNonce
    BY <1>25, TopType DEF Finalize, FrameType, FrameOK
  <2>1. StackTyped' /\ claims' \subseteq Msg
    BY <1>25, <2>0, PopType DEF Finalize
  <2>2. snap' \in Pos \cup {NoPos}
    BY <1>25, <2>0, PosFacts DEF Finalize, Checkpoint
  <2>3. row' \in [Msg -> RowStates]
    BY <1>25 DEF Finalize, TypeOK, RowStates
  <2> QED BY <1>25, <2>1, <2>2, <2>3 DEF Finalize, TypeOK, StackTyped
<1>26. ASSUME FinalizeFails PROVE TypeOK'
  <2>0. ~Free /\ Top.k # "reset"
    BY <1>26, TopType DEF FinalizeFails, FrameOK
  <2>1. CASE FailTop
    <3>1. /\ row' \in [Msg -> RowStates] /\ StackTyped' /\ claims' \subseteq Msg
          /\ attempts' \in [Msg -> 0 .. MaxAttempts - 1]
      BY <2>0, <2>1, FailType
    <3> QED BY <1>26, <3>1 DEF FinalizeFails, TypeOK, StackTyped
  <2>2. CASE stack' = <<>> /\ claims' = claims \ HeldClaims /\ UNCHANGED <<row, attempts>>
    BY <1>26, <2>2, EmptyStack DEF FinalizeFails, TypeOK, StackTyped
  <2> QED BY <1>26, <2>1, <2>2 DEF FinalizeFails
<1>27. ASSUME NEW c \in Controls, ControlStart(c) PROVE TypeOK'
  <2>1. c \in Msg /\ [ctl[c] EXCEPT !.ph = "ensure"] \in FrameType
    BY ControlType
  <2>2. /\ ctl' \in [Controls -> FrameType]
        /\ \A d \in Controls : ctl'[d].ph \in {"putting", "fin"} => ctl'[d].pos[2] < MaxNonce
    BY <1>27, <2>1 DEF ControlStart, TypeOK, FrameType
  <2> QED BY <1>27, <1>un, <2>1, <2>2 DEF ControlStart, Insert, TypeOK, StackTyped
<1>28. ASSUME NEW c \in Controls, ControlReady(c) PROVE TypeOK'
  <2>1. [ctl[c] EXCEPT !.ph = "drain2"] \in FrameType
    BY ControlType
  <2>2. /\ ctl' \in [Controls -> FrameType]
        /\ \A d \in Controls : ctl'[d].ph \in {"putting", "fin"} => ctl'[d].pos[2] < MaxNonce
    BY <1>28, <2>1 DEF ControlReady, TypeOK, FrameType
  <2> QED BY <1>28, <1>un, <2>2, LinkType DEF ControlReady, TypeOK, StackTyped
<1>29. ASSUME NEW c \in Controls, ControlEncrypt(c) PROVE TypeOK'
  <2>1. live \in Pos /\ c \in Msg
    BY <1>29 DEF ControlEncrypt, TypeOK, Msg
  <2>2. [ctl[c] EXCEPT !.ph = "putting", !.pos = live] \in FrameType
    BY <2>1, ControlType
  <2>3. /\ ctl' \in [Controls -> FrameType]
        /\ \A d \in Controls : ctl'[d].ph \in {"putting", "fin"} => ctl'[d].pos[2] < MaxNonce
    BY <1>29, <2>2 DEF ControlEncrypt, TypeOK, FrameType
  <2>4. wrote' \subseteq Pos \X Msg
    BY <1>29, <2>1 DEF ControlEncrypt, TypeOK
  <2> QED BY <1>29, <1>un, <2>3, <2>4 DEF ControlEncrypt, TypeOK, StackTyped
<1>30. ASSUME NEW c \in Controls, ControlPutOk(c) PROVE TypeOK'
  <2>1. /\ [ctl[c] EXCEPT !.ph = "fin"] \in FrameType
        /\ c \in Msg /\ ctl[c].pos \in Pos /\ ctl[c].pos[2] < MaxNonce
    BY <1>30, ControlType DEF ControlPutOk
  <2>2. /\ ctl' \in [Controls -> FrameType]
        /\ \A d \in Controls : ctl'[d].ph \in {"putting", "fin"} => ctl'[d].pos[2] < MaxNonce
    BY <1>30, <2>1 DEF ControlPutOk, TypeOK, FrameType
  <2>3. live' \in Pos \cup {NoPos} /\ hs' \in [Pos -> Msg \cup {NoMsg}]
    BY <1>30, <2>1, PosFacts DEF ControlPutOk, TypeOK
  <2> QED BY <1>30, <1>un, <2>2, <2>3 DEF ControlPutOk, TypeOK, StackTyped
<1>31. ASSUME NEW c \in Controls, ControlHold(c) PROVE TypeOK'
  <2>1. [ctl[c] EXCEPT !.ph = "idle"] \in FrameType /\ c \in Msg
    BY ControlType
  <2>2. /\ ctl' \in [Controls -> FrameType]
        /\ \A d \in Controls : ctl'[d].ph \in {"putting", "fin"} => ctl'[d].pos[2] < MaxNonce
    BY <1>31, <2>1 DEF ControlHold, TypeOK, FrameType
  <2>3. live' \in Pos \cup {NoPos} /\ hs' \in [Pos -> Msg \cup {NoMsg}]
    BY <1>31, <2>1 DEF ControlHold, PutOutcomes, TypeOK
  <2> QED BY <1>31, <1>un, <2>2, <2>3 DEF ControlHold, TypeOK, StackTyped
<1>32. ASSUME NEW c \in Controls, ControlFinalize(c) PROVE TypeOK'
  <2>1. /\ [ctl[c] EXCEPT !.ph = "idle"] \in FrameType
        /\ ctl[c].pos \in Pos /\ ctl[c].pos[2] < MaxNonce
    BY <1>32, ControlType DEF ControlFinalize
  <2>2. /\ ctl' \in [Controls -> FrameType]
        /\ \A d \in Controls : ctl'[d].ph \in {"putting", "fin"} => ctl'[d].pos[2] < MaxNonce
    BY <1>32, <2>1 DEF ControlFinalize, TypeOK, FrameType
  <2>3. snap' \in Pos \cup {NoPos}
    BY <1>32, <2>1, PosFacts DEF ControlFinalize, Checkpoint
  <2> QED BY <1>32, <1>un, <2>2, <2>3 DEF ControlFinalize, TypeOK, StackTyped
<1>33. ASSUME NEW m \in Dms, NEW c \in Controls, Unsend(m, c) PROVE TypeOK'
  <2>1. Frame("direct", c, "ensure", {}) \in FrameType /\ FrameOK(Frame("direct", c, "ensure", {}))
    BY PosFacts, NoMsgIsNone DEF Frame, FrameType, FrameOK, Msg
  <2>2. StackTyped'
    BY <1>33, <2>1, OneFrame DEF Unsend
  <2>3. /\ row' \in [Msg -> RowStates] /\ queue' \subseteq Msg
        /\ stamp' \in [Msg -> Nat] /\ clock' \in Nat
    BY <1>33 DEF Unsend, TypeOK, RowStates, Msg
  <2> QED BY <1>33, <2>2, <2>3 DEF Unsend, TypeOK, StackTyped
<1>34. ASSUME NEW m \in Msg, Receipt(m) PROVE TypeOK'
  BY <1>34, <1>un DEF Receipt, TypeOK, StackTyped, RowStates
<1>35. ASSUME NEW m \in Msg, RestoreBackup(m) PROVE TypeOK'
  BY <1>35, <1>un DEF RestoreBackup, TypeOK, StackTyped, RowStates
<1>36. ASSUME NEW m \in Msg, Heal(m) PROVE TypeOK'
  <2>1. attempts' \in [Msg -> 0 .. MaxAttempts - 1]
    BY <1>36, BoundsAssumption DEF Heal, TypeOK
  <2> QED BY <1>36, <2>1, <1>un DEF Heal, TypeOK, StackTyped, Msg
<1>42. ASSUME NEW m \in Msg, HealList(m) PROVE TypeOK'
  BY <1>42, <1>un DEF HealList, TypeOK, StackTyped
<1>37. ASSUME NEW m \in Msg, Age(m) PROVE TypeOK'
  BY <1>37, <1>un DEF Age, TypeOK, StackTyped
<1>38. ASSUME ResetRetire PROVE TypeOK'
  <2>1. /\ Frame("reset", NoMsg, "drop", {}) \in FrameType
        /\ FrameOK(Frame("reset", NoMsg, "drop", {}))
    BY PosFacts DEF Frame, FrameType, FrameOK
  <2>2. StackTyped'
    BY <1>38, <2>1, OneFrame DEF ResetRetire
  <2>3. row' \in [Msg -> RowStates] /\ live' \in Pos \cup {NoPos} /\ snap' \in Pos \cup {NoPos}
    BY <1>38 DEF ResetRetire, Abandon, TypeOK, RowStates
  <2> QED BY <1>38, <2>2, <2>3 DEF ResetRetire, TypeOK, StackTyped
<1>39. ASSUME ResetDrop PROVE TypeOK'
  <2>1. row' \in [Msg -> RowStates]
    BY <1>39 DEF ResetDrop, Abandon, TypeOK, RowStates
  <2> QED BY <1>39, <2>1, EmptyStack DEF ResetDrop, TypeOK, StackTyped
<1>40. ASSUME Flush PROVE TypeOK'
  BY <1>40, <1>un DEF Flush, Db, TypeOK, StackTyped
<1>41. ASSUME Crash PROVE TypeOK'
  <2>1. /\ row' \in [Msg -> RowStates] /\ queue' \subseteq Msg
        /\ attempts' \in [Msg -> 0 .. MaxAttempts - 1] /\ snap' \in Pos \cup {NoPos}
    BY <1>41 DEF Crash, TypeOK
  <2>2. hs' \in [Pos -> Msg \cup {NoMsg}]
    <3>1. InFlight \subseteq Pos \X Msg
      <4>1. \A c \in Controls : <<ctl[c].pos, c>> \in Pos \X Msg
        BY ControlType
      <4>2. ~Free /\ Top.ph = "putting" => Top.pos \in Pos /\ Top.m \in Msg
        BY TopType DEF FrameType, FrameOK
      <4> QED BY <4>1, <4>2 DEF InFlight
    <3>2. CASE hs' = hs
      BY <3>2 DEF TypeOK
    <3>3. ASSUME NEW f \in InFlight, hs' = [hs EXCEPT ![f[1]] = f[2]]
          PROVE  hs' \in [Pos -> Msg \cup {NoMsg}]
      BY <3>1, <3>3 DEF TypeOK
    <3> QED BY <1>41, <3>2, <3>3 DEF Crash
  <2>3. /\ ctl' \in [Controls -> FrameType]
        /\ \A c \in Controls : ctl'[c].ph = "idle"
    BY <1>41, PosFacts DEF Crash, Frame, FrameType, Msg
  <2>4. waiting' \in [Msg -> 0 .. MaxPasses] /\ crashes' \in 0 .. MaxCrash
    BY <1>41, BoundsAssumption DEF Crash, TypeOK
  <2> QED BY <1>41, <2>1, <2>2, <2>3, <2>4, EmptyStack DEF Crash, TypeOK, StackTyped
<1> QED
  BY <1>0, <1>1, <1>2, <1>3, <1>4, <1>5, <1>6, <1>7, <1>8, <1>9, <1>10, <1>11, <1>12, <1>13,
     <1>14, <1>15, <1>16, <1>17, <1>18, <1>19, <1>20, <1>21, <1>22, <1>23, <1>24, <1>25, <1>26,
     <1>27, <1>28, <1>29, <1>30, <1>31, <1>32, <1>33, <1>34, <1>35, <1>36, <1>37, <1>38, <1>39,
     <1>40, <1>41, <1>42 DEF Next

LEMMA InitTyped == Init => TypeOK
<1> SUFFICES ASSUME Init PROVE TypeOK
  OBVIOUS
<1>1. stack \in Seq(FrameType) /\ \A i \in DOMAIN stack : FrameOK(stack[i])
  BY DEF Init
<1>2. ctl \in [Controls -> FrameType] /\ \A c \in Controls : ctl[c].ph = "idle"
  BY PosFacts DEF Init, Frame, FrameType, Msg
<1>3. hs \in [Pos -> Msg \cup {NoMsg}]
  BY DEF Init
<1> QED BY <1>1, <1>2, <1>3, PosFacts, BoundsAssumption DEF Init, TypeOK, Db, RowStates

(* Every variable keeps its type: for any sets of messages, any faults and  *)
(* any bounds.                                                              *)
THEOREM TypeCorrect == Spec => []TypeOK
BY InitTyped, TypeStep, PTL DEF Spec

-----------------------------------------------------------------------------
(* What holds on every path, under every fault.                             *)

(* What a step does to the stack: it ends every delivery, opens one, moves   *)
(* the top one to another phase, nests one, or ends the top one.            *)
Opened ==
    /\ Free
    /\ \E f \in FrameType : stack' = <<f>> /\ (Unpersisted(f) => row'[f.m] = "none")

Moved ==
    /\ ~Free
    /\ \E f \in FrameType :
        /\ stack' = Replace(stack, f)
        /\ f.k = Top.k /\ f.m = Top.m
        /\ Unpersisted(f) => Unpersisted(Top)

Nested == Draining /\ \E f \in FrameType : stack' = <<f>> \o stack /\ f.k = "deliver"

Without(m) == Replace(Tail(stack), [stack[2] EXCEPT !.todo = @ \ {m}])
Popped == ~Free /\ Len(stack) # 1 /\ \E m : stack' = Without(m)

StackMove == stack' = <<>> \/ stack' = stack \/ Opened \/ Moved \/ Nested \/ Popped

(* Only deliveries are nested, on deliveries that drain.                    *)
IShape ==
    \A i \in DOMAIN stack :
        /\ i < Len(stack) => stack[i].k = "deliver"
        /\ i > 1 => stack[i].ph \in {"drain1", "drain2"}

LEMMA ToMoves ==
    ASSUME TypeOK, ~Free, NEW ph, NEW todo \in SUBSET Msg, stack' = To(ph, todo),
           ph \in {"ensure", "persist", "drain1", "drain2", "putting", "fin"},
           Top.k = "send" /\ ph \in {"ensure", "persist"} => Top.ph = "ensure"
    PROVE  Moved
<1> DEFINE f == [Top EXCEPT !.ph = ph, !.todo = todo]
<1>1. f \in FrameType /\ f.k = Top.k /\ f.m = Top.m /\ f.ph = ph
  BY TopType DEF FrameType
<1>2. stack' = Replace(stack, f)
  BY DEF To
<1> HIDE DEF f
<1> QED BY <1>1, <1>2 DEF Moved, Unpersisted

LEMMA HandleMoves ==
    ASSUME TypeOK, ~Free, NEW p \in Pos, NEW todo \in SUBSET Msg, stack' = WithHandle(p, todo)
    PROVE  Moved
<1> DEFINE f == [Top EXCEPT !.ph = "drain2", !.todo = todo, !.pos = p]
<1>1. f \in FrameType /\ f.k = Top.k /\ f.m = Top.m /\ f.ph = "drain2"
  BY TopType DEF FrameType
<1>2. stack' = Replace(stack, f)
  BY DEF WithHandle
<1> HIDE DEF f
<1> QED BY <1>1, <1>2 DEF Moved, Unpersisted

LEMMA EncryptMoves ==
    ASSUME TypeOK, Encrypt
    PROVE  Moved
<1>0. ~Free /\ Top \in FrameType /\ live \in Pos
  <2>1. ~Free /\ Top \in FrameType /\ Top.pos \in Pos
    BY TopType DEF Encrypt, Draining, FrameType
  <2>2. live[1] = Top.pos[1] /\ live \in Pos \cup {NoPos}
    BY DEF Encrypt, TypeOK
  <2> QED BY <2>1, <2>2, PosFacts DEF NoPos
<1> DEFINE f == [Top EXCEPT !.ph = "putting", !.pos = live]
<1>1. f \in FrameType /\ f.k = Top.k /\ f.m = Top.m /\ f.ph = "putting"
  BY <1>0 DEF FrameType
<1>2. stack' = Replace(stack, f)
  BY DEF Encrypt
<1> HIDE DEF f
<1> QED BY <1>0, <1>1, <1>2 DEF Moved, Unpersisted

LEMMA PopMoves ==
    ASSUME ~Free, NEW m, Pop(m)
    PROVE  StackMove
BY DEF Pop, StackMove, Popped, Without

LEMMA OpenMoves ==
    ASSUME Free, NEW k, NEW m \in Msg \cup {NoMsg}, NEW ph, NEW todo \in SUBSET Msg,
           k \in {"send", "attempt", "deliver", "direct", "reset"},
           ph \in {"ensure", "drain1", "drop"},
           stack' = <<Frame(k, m, ph, todo)>>,
           k = "send" => row'[m] = "none"
    PROVE  StackMove
<1> DEFINE f == Frame(k, m, ph, todo)
<1>1. f \in FrameType /\ f.k = k /\ f.m = m
  BY PosFacts DEF Frame, FrameType
<1> HIDE DEF f
<1> QED BY <1>1 DEF StackMove, Opened, Unpersisted, f

LEMMA NestMoves ==
    ASSUME TypeOK, DrainOlder
    PROVE  StackMove
<1>1. PICK x \in Msg : stack' = <<Frame("deliver", x, "drain1", Older(x))>> \o stack
  BY DEF DrainOlder
<1>2. Older(x) \in SUBSET Msg
  BY DEF Older, TypeOK
<1>3. Frame("deliver", x, "drain1", Older(x)) \in FrameType
      /\ Frame("deliver", x, "drain1", Older(x)).k = "deliver"
  BY <1>2, PosFacts DEF Frame, FrameType
<1> QED BY <1>1, <1>3 DEF StackMove, Nested, DrainOlder

LEMMA EveryMove ==
    ASSUME TypeOK, [Next]_vars
    PROVE  StackMove
<1> USE DEF dbVars, timeVars, linkVars, passVars, laterVars, netVars, vars
<1>1. CASE UNCHANGED stack
  BY <1>1 DEF StackMove
<1>2. ASSUME NEW m \in Msg, SendStart(m) PROVE StackMove
  BY <1>2, OpenMoves DEF SendStart
<1>3. ASSUME SendEnsure PROVE StackMove
  <2>1. ~Free /\ Top.ph = "ensure" /\ (stack' = <<>> \/ stack' = To("persist", {}))
    BY <1>3 DEF SendEnsure
  <2>2. CASE stack' = <<>>
    BY <2>2 DEF StackMove
  <2>3. CASE stack' = To("persist", {})
    BY <2>1, <2>3, ToMoves DEF StackMove
  <2> QED BY <2>1, <2>2, <2>3
<1>4. ASSUME SendPersist PROVE StackMove
  BY <1>4, ToMoves DEF SendPersist, TypeOK, StackMove
<1>5. ASSUME NEW m \in Msg, AttemptStart(m) PROVE StackMove
  BY <1>5, OpenMoves DEF AttemptStart
<1>6. ASSUME NEW m \in Msg, DeliverStart(m) PROVE StackMove
  <2>1. Older(m) \in SUBSET Msg
    BY DEF Older, TypeOK
  <2> QED BY <1>6, <2>1, OpenMoves DEF DeliverStart
<1>7. ASSUME Rescan PROVE StackMove
  <2>1. Older(Top.m) \in SUBSET Msg /\ live \in Pos /\ ~Free
    BY <1>7 DEF Older, TypeOK, Rescan, Draining
  <2> QED BY <1>7, <2>1, HandleMoves DEF Rescan, StackMove
<1>8. ASSUME Proceed PROVE StackMove
  BY <1>8, ToMoves DEF StackMove, Proceed, Checking, Draining
<1>9. ASSUME EnsureReady PROVE StackMove
  <2>1. Older(Top.m) \in SUBSET Msg /\ live' \in Pos /\ ~Free
    BY <1>9, LinkIsLive DEF Older, TypeOK, EnsureReady, Ensuring
  <2>2. \/ stack' = WithHandle(live', Older(Top.m)) \/ stack' = WithHandle(live', {})
        \/ stack' = To("drain1", Older(Top.m)) \/ stack' = <<>>
    BY <1>9 DEF EnsureReady
  <2>3. CASE stack' = WithHandle(live', Older(Top.m))
    BY <2>1, <2>3, HandleMoves DEF StackMove
  <2>4. CASE stack' = WithHandle(live', {})
    BY <2>1, <2>4, HandleMoves DEF StackMove
  <2>5. CASE stack' = To("drain1", Older(Top.m))
    BY <2>1, <2>5, ToMoves DEF StackMove
  <2>6. CASE stack' = <<>>
    BY <2>6 DEF StackMove
  <2> QED BY <2>2, <2>3, <2>4, <2>5, <2>6
<1>10. ASSUME PutOk PROVE StackMove
  BY <1>10, ToMoves DEF PutOk, StackMove
<1>11. ASSUME Settle PROVE StackMove
  BY <1>11, PopMoves DEF Settle, Checking, Draining
<1>12. ASSUME Finalize PROVE StackMove
  BY <1>12, PopMoves DEF Finalize
<1>13. ASSUME NEW m \in Dms, NEW c \in Controls, Unsend(m, c) PROVE StackMove
  BY <1>13, OpenMoves DEF Unsend, Msg
<1>14. ASSUME ResetRetire PROVE StackMove
  BY <1>14, OpenMoves DEF ResetRetire
<1>15. CASE stack' = <<>>
  BY <1>15 DEF StackMove
<1>16. ASSUME FailTop PROVE stack' = <<>>
  BY <1>16 DEF FailTop, RecordFailure, Unwind
<1>17. ASSUME \/ DrainBlocked \/ Retire \/ EnsureNotReady \/ EnsureFailed \/ PutTransient
              \/ PutRejected \/ FinalizeFails \/ ResetDrop \/ Crash
       PROVE  StackMove
  BY <1>17, <1>15, <1>16 DEF DrainBlocked, Retire, EnsureNotReady, EnsureFailed, PutTransient,
     PutRejected, FinalizeFails, ResetDrop, Crash, Unwind
<1>18. ASSUME NEW m \in Msg,
              \/ FanoutPersist(m) \/ FanoutStamp(m) \/ FanoutInsert(m) \/ Claim(m)
              \/ ClaimExpires(m) \/ Receipt(m) \/ RestoreBackup(m) \/ HealList(m) \/ Heal(m)
              \/ Age(m)
       PROVE  StackMove
  BY <1>18, <1>1 DEF FanoutPersist, FanoutStamp, FanoutInsert, Claim, ClaimExpires, Receipt,
     RestoreBackup, HealList, Heal, Age
<1>19. ASSUME NEW c \in Controls,
              \/ ControlStart(c) \/ ControlReady(c) \/ ControlEncrypt(c)
              \/ ControlPutOk(c) \/ ControlHold(c) \/ ControlFinalize(c)
       PROVE  StackMove
  BY <1>19, <1>1 DEF ControlStart, ControlReady, ControlEncrypt, ControlPutOk, ControlHold,
     ControlFinalize
<1>20. ASSUME EnsureLink \/ Flush PROVE StackMove
  BY <1>20, <1>1 DEF EnsureLink, Flush
<1>21. ASSUME DrainOlder PROVE StackMove
  BY <1>21, NestMoves
<1>22. ASSUME Encrypt PROVE StackMove
  BY <1>22, EncryptMoves DEF StackMove
<1> QED
  BY <1>1, <1>2, <1>3, <1>4, <1>5, <1>6, <1>7, <1>8, <1>9, <1>10, <1>11, <1>12, <1>13, <1>14,
     <1>17, <1>18, <1>19, <1>20, <1>21, <1>22 DEF Next

(* Every move keeps the shape.                                              *)
LEMMA ShapeStep ==
    ASSUME TypeOK, IShape, StackMove
    PROVE  IShape'
<1>0. /\ Len(stack) \in Nat /\ DOMAIN stack = 1 .. Len(stack)
      /\ (stack # <<>> => Len(stack) >= 1)
  BY StackType
<1>1. CASE stack' = <<>>
  BY <1>1 DEF IShape
<1>2. CASE stack' = stack
  BY <1>2 DEF IShape
<1>3. CASE Opened
  BY <1>3 DEF Opened, IShape
<1>4. ASSUME NEW f \in FrameType, ~Free, stack' = Replace(stack, f), f.k = Top.k
      PROVE  IShape'
  <2>1. /\ stack \in Seq(FrameType) /\ stack # <<>> /\ 1 \in DOMAIN stack
    BY <1>4, TopType, StackType DEF Free
  <2>2. /\ Len(stack') = Len(stack) /\ DOMAIN stack' = 1 .. Len(stack) /\ stack'[1] = f
        /\ \A i \in 2 .. Len(stack) : stack'[i] = stack[i]
    <3> DEFINE t == Replace(stack, f)
    <3>1. f \in FrameType
      BY <1>4
    <3>2. /\ Len(t) = Len(stack) /\ DOMAIN t = 1 .. Len(stack) /\ t[1] = f
          /\ \A i \in 2 .. Len(stack) : t[i] = stack[i]
      BY <2>1, <3>1, ReplaceProperties
    <3> HIDE DEF t
    <3> QED BY <1>4, <3>2 DEF t
  <2>3. ASSUME NEW i \in 1 .. Len(stack)
        PROVE  /\ i < Len(stack) => stack'[i].k = "deliver"
               /\ i > 1 => stack'[i].ph \in {"drain1", "drain2"}
    <3>1. CASE i = 1
      BY <1>0, <1>4, <2>1, <2>2, <3>1 DEF IShape, Top
    <3>2. CASE i # 1
      BY <1>0, <2>2, <3>2 DEF IShape
    <3> QED BY <3>1, <3>2
  <2> QED BY <2>2, <2>3 DEF IShape
<1>5. ASSUME NEW f \in FrameType, Draining, stack' = <<f>> \o stack, f.k = "deliver"
      PROVE  IShape'
  <2>1. /\ stack \in Seq(FrameType) /\ <<f>> \in Seq(FrameType) /\ Len(stack) >= 1
        /\ Top.ph \in {"drain1", "drain2"}
    BY <1>5, <1>0, StackType DEF Draining, Free
  <2>2. /\ Len(stack') = Len(stack) + 1 /\ DOMAIN stack' = 1 .. Len(stack) + 1 /\ stack'[1] = f
        /\ \A i \in 2 .. Len(stack) + 1 : stack'[i] = stack[i - 1]
    BY <1>5, <2>1
  <2>3. ASSUME NEW i \in 1 .. Len(stack) + 1
        PROVE  /\ i < Len(stack) + 1 => stack'[i].k = "deliver"
               /\ i > 1 => stack'[i].ph \in {"drain1", "drain2"}
    <3>1. CASE i = 1
      BY <1>5, <2>2, <3>1
    <3>2. CASE i = 2
      BY <1>0, <2>1, <2>2, <3>2 DEF IShape, Top
    <3>3. CASE i > 2
      <4>1. i \in 2 .. Len(stack) + 1 /\ i - 1 \in DOMAIN stack /\ i - 1 > 1
            /\ (i < Len(stack) + 1 => i - 1 < Len(stack))
        BY <1>0, <3>3
      <4> QED BY <2>2, <4>1 DEF IShape
    <3> QED BY <1>0, <3>1, <3>2, <3>3
  <2> QED BY <2>2, <2>3 DEF IShape
<1>6. ASSUME NEW m, ~Free, Len(stack) # 1, stack' = Without(m)
      PROVE  IShape'
  <2>1. /\ Len(stack') = Len(stack) - 1 /\ DOMAIN stack' = 1 .. Len(stack) - 1
        /\ stack'[1] = [stack[2] EXCEPT !.todo = @ \ {m}]
        /\ \A i \in 2 .. Len(stack) - 1 : stack'[i] = stack[i + 1]
        /\ Len(stack) >= 2
    BY <1>6, PopTop DEF Without
  <2>2. stack[2] \in FrameType
    BY <1>0, <2>1, StackType
  <2>3. stack'[1].k = stack[2].k /\ stack'[1].ph = stack[2].ph
    BY <2>1, <2>2 DEF FrameType
  <2>4. ASSUME NEW i \in 1 .. Len(stack) - 1
        PROVE  /\ i < Len(stack) - 1 => stack'[i].k = "deliver"
               /\ i > 1 => stack'[i].ph \in {"drain1", "drain2"}
    <3>0. i + 1 \in DOMAIN stack /\ i + 1 > 1 /\ (i < Len(stack) - 1 => i + 1 < Len(stack))
      BY <1>0
    <3>1. CASE i = 1
      BY <2>3, <3>0, <3>1 DEF IShape
    <3>2. CASE i # 1
      <4>1. stack'[i] = stack[i + 1]
        BY <1>0, <2>1, <3>2
      <4> QED BY <3>0, <4>1 DEF IShape
    <3> QED BY <3>1, <3>2
  <2> QED BY <2>1, <2>4 DEF IShape
<1>7. CASE Moved
  BY <1>4, <1>7 DEF Moved
<1>8. CASE Nested
  BY <1>5, <1>8 DEF Nested
<1>9. CASE Popped
  BY <1>6, <1>9 DEF Popped
<1> QED BY <1>1, <1>2, <1>3, <1>7, <1>8, <1>9 DEF StackMove

-----------------------------------------------------------------------------
(* A send that has persisted nothing yet has no row; a row in the image has *)
(* one in memory.                                                           *)
IOwed ==
    /\ OwedHasItem
    /\ \A m \in Dms : disk.row[m] # "none" => row[m] # "none"
    /\ ~Free /\ Unpersisted(Top) => row[Top.m] = "none"

OwedOnImage ==
    OwedHasItem /\ \A m \in Dms : disk.row[m] # "none" => row[m] # "none"

(* The steps that make no direct message owed: rows keep their state or     *)
(* leave it, an item leaves only with its row, no stamp is given.           *)
Quiet ==
    /\ disk' = disk
    /\ \A m \in Dms :
        /\ stamp'[m] = stamp[m]
        /\ row[m] # "none" => row'[m] # "none"
        /\ row'[m] = "sending" => row[m] = "sending" \/ stamp[m] = 0
        /\ m \in queue /\ row'[m] = "sending" => m \in queue'

LEMMA QuietKeeps ==
    ASSUME TypeOK, OwedOnImage, Quiet
    PROVE  OwedOnImage'
<1>1. Dms \subseteq Msg /\ stamp \in [Msg -> Nat]
  BY DEF Msg, TypeOK
<1>2. OwedIsQueued(Db)'
  BY <1>1 DEF OwedOnImage, OwedHasItem, OwedIsQueued, Db, Quiet
<1>3. OwedIsQueued(disk)'
  BY <1>1 DEF OwedOnImage, OwedHasItem, OwedIsQueued, Quiet
<1> QED BY <1>1, <1>2, <1>3 DEF OwedOnImage, OwedHasItem, Quiet

(* Failures.                                                                *)
RowsFail == \A m \in Msg : row'[m] \in {row[m], "failed"}

LEMMA UnwindFails ==
    ASSUME TypeOK, NEW r \in [Msg -> RowStates], \A m \in Msg : r[m] \in {row[m], "failed"},
           Unwind(r)
    PROVE  RowsFail
BY DEF Unwind, BlockedRow, RowsFail

LEMMA FailedRowsFail ==
    ASSUME TypeOK, NEW m, NEW r \in FailedRows(m)
    PROVE  r \in [Msg -> RowStates] /\ \A y \in Msg : r[y] \in {row[y], "failed"}
<1>1. r = row \/ r = [row EXCEPT ![m] = "failed"]
  BY DEF FailedRows
<1>2. row \in [Msg -> RowStates]
  BY DEF TypeOK
<1> QED BY <1>1, <1>2 DEF RowStates

LEMMA FailTopFails ==
    ASSUME TypeOK, FailTop
    PROVE  RowsFail
<1>1. row \in [Msg -> RowStates] /\ \A m \in Msg : row[m] \in {row[m], "failed"}
  BY DEF TypeOK
<1>2. CASE Unwind(row)
  BY <1>1, <1>2, UnwindFails
<1>3. CASE Unwind([row EXCEPT ![Top.m] = "failed"])
  <2>1. /\ [row EXCEPT ![Top.m] = "failed"] \in [Msg -> RowStates]
        /\ \A m \in Msg : [row EXCEPT ![Top.m] = "failed"][m] \in {row[m], "failed"}
    BY <1>1 DEF RowStates
  <2> QED BY <1>3, <2>1, UnwindFails
<1>4. CASE \E r \in FailedRows(Top.m) : Unwind(r)
  BY <1>4, FailedRowsFail, UnwindFails
<1> QED BY <1>2, <1>3, <1>4 DEF FailTop, RecordFailure

LEMMA FailsQuiet ==
    ASSUME TypeOK, RowsFail, UNCHANGED <<queue, stamp, disk>>
    PROVE  Quiet
BY DEF RowsFail, Quiet, Msg

LEMMA FailureSteps ==
    ASSUME TypeOK,
           \/ DrainBlocked \/ Retire \/ EnsureNotReady \/ EnsureFailed \/ PutTransient
           \/ PutRejected \/ FinalizeFails
    PROVE  Quiet /\ stack' = <<>>
<1> USE DEF dbVars, timeVars, linkVars, passVars, laterVars, netVars
<1>1. row \in [Msg -> RowStates] /\ \A m \in Msg : row[m] \in {row[m], "failed"}
  BY DEF TypeOK
<1>2. ASSUME FailTop PROVE stack' = <<>>
  BY <1>2 DEF FailTop, RecordFailure, Unwind
<1>3. CASE DrainBlocked
  BY <1>1, <1>3, FailsQuiet DEF DrainBlocked, BlockedRow, RowsFail
<1>4. CASE Retire
  BY <1>4, FailedRowsFail, UnwindFails, FailsQuiet DEF Retire, Unwind
<1>5. CASE EnsureNotReady \/ PutTransient
  BY <1>1, <1>5, UnwindFails, FailsQuiet DEF EnsureNotReady, PutTransient, Unwind
<1>6. CASE EnsureFailed \/ PutRejected
  BY <1>2, <1>6, FailTopFails, FailsQuiet DEF EnsureFailed, PutRejected
<1>7. CASE FinalizeFails
  <2>1. RowsFail
    BY <1>1, <1>7, FailTopFails DEF FinalizeFails, RowsFail
  <2> QED BY <1>2, <1>7, <2>1, FailsQuiet DEF FinalizeFails
<1> QED BY <1>3, <1>4, <1>5, <1>6, <1>7

LEMMA Apart ==
    /\ Dms \subseteq Msg /\ Fanouts \subseteq Msg /\ Controls \subseteq Msg
    /\ \A m \in Dms : m \notin Fanouts /\ m \notin Controls /\ m \notin SlowFanouts /\ m # NoMsg
BY KindsAssumption DEF Msg

LEMMA OtherStepsQuiet ==
    ASSUME TypeOK, [Next]_vars, ~SendEnsure, ~SendPersist, ~Flush, ~Crash
    PROVE  Quiet
<1> USE Apart DEF dbVars, timeVars, linkVars, passVars, laterVars, netVars, vars
<1>0. row \in [Msg -> RowStates] /\ queue \subseteq Msg /\ stamp \in [Msg -> Nat]
  BY DEF TypeOK
<1>1. CASE UNCHANGED <<row, queue, stamp, disk>>
  BY <1>1 DEF Quiet
<1>2. ASSUME NEW m \in Msg, FanoutPersist(m) \/ FanoutStamp(m) \/ FanoutInsert(m) PROVE Quiet
  BY <1>0, <1>2 DEF FanoutPersist, FanoutStamp, FanoutInsert, Insert, Quiet
<1>3. ASSUME NEW m \in Msg, Receipt(m) \/ RestoreBackup(m) \/ Heal(m) PROVE Quiet
  BY <1>0, <1>3 DEF Receipt, RestoreBackup, Heal, Quiet
<1>4. ASSUME NEW m \in Dms, NEW c \in Controls, Unsend(m, c) PROVE Quiet
  BY <1>0, <1>4 DEF Unsend, Quiet
<1>5. ASSUME NEW c \in Controls, ControlStart(c) \/ ControlFinalize(c) PROVE Quiet
  BY <1>0, <1>5 DEF ControlStart, ControlFinalize, Insert, Quiet
<1>6. ASSUME EnsureLink \/ ResetRetire PROVE Quiet
  BY <1>0, <1>6 DEF EnsureLink, ResetRetire, Abandon, Quiet
<1>7. ASSUME ResetDrop PROVE Quiet
  BY <1>0, <1>7 DEF ResetDrop, Abandon, Quiet
<1>8. ASSUME Settle PROVE Quiet
  <2>1. \A m \in Dms : m = Top.m => row[m] # "sending"
    BY <1>8 DEF Settle, Settled, FanoutSettled
  <2> QED BY <1>0, <1>8, <2>1 DEF Settle, Quiet
<1>9. ASSUME Finalize PROVE Quiet
  <2>1. Top.m \in Dms => row' = [row EXCEPT ![Top.m] = "sent"]
    BY <1>9 DEF Finalize
  <2>2. Top.m \notin Dms => \A m \in Dms : row'[m] = row[m]
    BY <1>0, <1>9 DEF Finalize
  <2> QED BY <1>0, <1>9, <2>1, <2>2 DEF Finalize, Quiet
<1>10. ASSUME \/ DrainBlocked \/ Retire \/ EnsureNotReady \/ EnsureFailed \/ PutTransient
              \/ PutRejected \/ FinalizeFails
       PROVE  Quiet
  BY <1>10, FailureSteps
<1>11. ASSUME NEW m \in Msg,
              \/ SendStart(m) \/ AttemptStart(m) \/ Claim(m) \/ ClaimExpires(m) \/ DeliverStart(m)
              \/ HealList(m) \/ Age(m)
       PROVE  Quiet
  BY <1>11, <1>1 DEF SendStart, AttemptStart, Claim, ClaimExpires, DeliverStart, HealList, Age
<1>12. ASSUME NEW c \in Controls,
              ControlReady(c) \/ ControlEncrypt(c) \/ ControlPutOk(c) \/ ControlHold(c)
       PROVE  Quiet
  BY <1>12, <1>1 DEF ControlReady, ControlEncrypt, ControlPutOk, ControlHold
<1>13. ASSUME DrainOlder \/ Rescan \/ Proceed \/ EnsureReady \/ Encrypt \/ PutOk PROVE Quiet
  BY <1>13, <1>1 DEF DrainOlder, Rescan, Proceed, EnsureReady, Encrypt, PutOk
<1> QED
  BY <1>1, <1>2, <1>3, <1>4, <1>5, <1>6, <1>7, <1>8, <1>9, <1>10, <1>11, <1>12, <1>13 DEF Next

(* The steps that persist a direct message, and those of the image.         *)
LEMMA PersistKeeps ==
    ASSUME TypeOK, OwedOnImage, NEW m \in Dms, row[m] = "none", disk' = disk,
           row' = [row EXCEPT ![m] = "sending"], Insert(m)
    PROVE  OwedOnImage'
<1> USE Apart
<1>0. row \in [Msg -> RowStates] /\ queue \subseteq Msg /\ stamp \in [Msg -> Nat]
  BY DEF TypeOK
<1>1. disk.row[m] = "none"
  BY DEF OwedOnImage
<1>2. OwedIsQueued(Db)'
  BY <1>0 DEF OwedOnImage, OwedHasItem, OwedIsQueued, Db, Insert
<1>3. OwedIsQueued(disk)'
  BY <1>0, <1>1 DEF OwedOnImage, OwedHasItem, OwedIsQueued, Insert
<1> QED BY <1>0, <1>1, <1>2, <1>3 DEF OwedOnImage, OwedHasItem

LEMMA OwedStep ==
    ASSUME TypeOK, IOwed, [Next]_vars
    PROVE  OwedOnImage'
<1> USE Apart DEF dbVars, timeVars, linkVars, passVars, laterVars, netVars, vars
<1>0. OwedOnImage
  BY DEF IOwed, OwedOnImage
<1>1. CASE SendEnsure
  <2>1. Top.m \in Dms /\ row[Top.m] = "none" /\ disk' = disk
    BY <1>1, TopType DEF SendEnsure, IOwed, Unpersisted, FrameOK
  <2>2. CASE row' = [row EXCEPT ![Top.m] = "sending"] /\ Insert(Top.m)
    BY <1>0, <2>1, <2>2, PersistKeeps
  <2>3. CASE UNCHANGED <<row, queue, stamp>>
    BY <1>0, <2>1, <2>3, QuietKeeps DEF Quiet
  <2> QED BY <1>1, <2>2, <2>3 DEF SendEnsure
<1>2. CASE SendPersist
  <2>1. Top.m \in Dms /\ row[Top.m] = "none" /\ disk' = disk
    BY <1>2, TopType DEF SendPersist, IOwed, Unpersisted, FrameOK
  <2> QED BY <1>0, <1>2, <2>1, PersistKeeps DEF SendPersist
<1>3. CASE Flush
  BY <1>0, <1>3 DEF Flush, OwedOnImage, OwedHasItem, OwedIsQueued, Db
<1>4. CASE Crash
  <2>1. CASE UNCHANGED dbVars
    BY <1>0, <1>4, <2>1, QuietKeeps DEF Quiet, Crash
  <2>2. CASE row' = disk.row /\ queue' = disk.queue
    BY <1>0, <1>4, <2>2 DEF Crash, OwedOnImage, OwedHasItem, OwedIsQueued, Db
  <2> QED BY <1>4, <2>1, <2>2 DEF Crash
<1> QED BY <1>0, <1>1, <1>2, <1>3, <1>4, OtherStepsQuiet, QuietKeeps

(* While a send has persisted nothing, nobody else gives its message a row. *)
LEMMA NoRowYet ==
    ASSUME TypeOK, IOwed, [Next]_vars, ~Free, Unpersisted(Top), stack' # <<>>, ~SendPersist
    PROVE  row'[Top.m] = row[Top.m]
<1> USE Apart DEF dbVars, timeVars, linkVars, passVars, laterVars, netVars, vars
<1>0. /\ Top.m \in Dms /\ Top.k = "send" /\ Top.ph \in {"ensure", "persist"}
      /\ row[Top.m] = "none" /\ row \in [Msg -> RowStates]
      /\ 1 \in DOMAIN stack /\ stack[1].m = Top.m
  BY TopType DEF IOwed, Unpersisted, FrameOK, TypeOK, Top
<1>1. CASE UNCHANGED row
  BY <1>1
<1>2. ASSUME NEW m \in Msg, FanoutPersist(m) \/ FanoutInsert(m) PROVE m # Top.m
  BY <1>0, <1>2 DEF FanoutPersist, FanoutInsert
<1>3. ASSUME NEW m \in Msg, Receipt(m) \/ RestoreBackup(m) PROVE m # Top.m
  BY <1>0, <1>3 DEF Receipt, RestoreBackup
<1>4. ASSUME NEW m \in Msg, FanoutPersist(m) \/ FanoutInsert(m) \/ Receipt(m) \/ RestoreBackup(m)
      PROVE  row'[Top.m] = row[Top.m]
  BY <1>0, <1>2, <1>3, <1>4 DEF FanoutPersist, FanoutInsert, Receipt, RestoreBackup
<1>5. ~Finalize /\ ~ResetDrop
  BY <1>0, TopType DEF Finalize, ResetDrop, FrameOK
<1>6. ~EnsureLink /\ ~ResetRetire /\ \A m \in Dms, c \in Controls : ~Unsend(m, c)
  BY DEF EnsureLink, ResetRetire, Unsend
<1>7. ~Crash
  BY DEF Crash
<1>8. \A m \in Msg : ~Heal(m)
  BY DEF Heal
<1>9. ~(\/ DrainBlocked \/ Retire \/ EnsureNotReady \/ EnsureFailed \/ PutTransient
        \/ PutRejected \/ FinalizeFails)
  BY FailureSteps
<1>10. ASSUME NEW m \in Msg,
              \/ SendStart(m) \/ FanoutStamp(m) \/ AttemptStart(m) \/ Claim(m) \/ ClaimExpires(m)
              \/ DeliverStart(m) \/ HealList(m) \/ Age(m)
       PROVE  UNCHANGED row
  BY <1>10 DEF SendStart, FanoutStamp, AttemptStart, Claim, ClaimExpires, DeliverStart, HealList, Age
<1>11. ASSUME NEW c \in Controls,
              \/ ControlStart(c) \/ ControlReady(c) \/ ControlEncrypt(c) \/ ControlPutOk(c)
              \/ ControlHold(c) \/ ControlFinalize(c)
       PROVE  UNCHANGED row
  BY <1>11 DEF ControlStart, ControlReady, ControlEncrypt, ControlPutOk, ControlHold, ControlFinalize
<1>12. ASSUME \/ SendEnsure \/ DrainOlder \/ Rescan \/ Settle \/ Proceed \/ EnsureReady
              \/ Encrypt \/ PutOk \/ Flush
       PROVE  UNCHANGED row
  BY <1>12 DEF SendEnsure, DrainOlder, Rescan, Settle, Proceed, EnsureReady, Encrypt, PutOk, Flush
<1> QED BY <1>1, <1>4, <1>5, <1>6, <1>7, <1>8, <1>9, <1>10, <1>11, <1>12 DEF Next

LEMMA TopIs ==
    ASSUME stack \in Seq(FrameType), stack # <<>>, NEW f \in FrameType, stack' = Replace(stack, f)
    PROVE  Top' = f
<1>1. 1 \in DOMAIN stack
  OBVIOUS
<1> QED BY <1>1 DEF Top, Replace

LEMMA PersistLeaves ==
    ASSUME TypeOK, SendPersist
    PROVE  ~Unpersisted(Top')
<1>1. ~Free /\ Top \in FrameType /\ stack \in Seq(FrameType) /\ stack # <<>>
  BY TopType DEF SendPersist, TypeOK, Free
<1> DEFINE f == [Top EXCEPT !.ph = "drain1", !.todo = queue]
<1>2. f \in FrameType /\ f.ph = "drain1"
  <2>1. queue \in SUBSET Msg
    BY DEF TypeOK
  <2> QED BY <1>1, <2>1 DEF FrameType
<1>3. stack' = Replace(stack, f)
  BY DEF SendPersist, To
<1> HIDE DEF f
<1>4. Top' = f
  <2>1. f \in FrameType
    BY <1>2
  <2> QED BY <1>1, <1>3, <2>1, TopIs
<1> QED BY <1>2, <1>4 DEF Unpersisted

LEMMA TopStep ==
    ASSUME TypeOK, IShape, IOwed, [Next]_vars, StackMove
    PROVE  ~Free' /\ Unpersisted(Top') => row'[Top'.m] = "none"
<1>0. /\ Len(stack) \in Nat /\ DOMAIN stack = 1 .. Len(stack) /\ stack \in Seq(FrameType)
      /\ (stack # <<>> => Len(stack) >= 1)
  BY StackType
<1>1. CASE stack' = <<>>
  BY <1>1 DEF Free
<1>2. CASE SendPersist
  BY <1>2, PersistLeaves
<1>3. ASSUME ~Free, Unpersisted(Top), stack' # <<>>, ~SendPersist PROVE row'[Top.m] = "none"
  BY <1>3, NoRowYet DEF IOwed
<1>4. CASE stack' = stack /\ ~SendPersist
  BY <1>3, <1>4 DEF Free, Top
<1>5. CASE Opened
  BY <1>5 DEF Opened, Top
<1>6. CASE Moved /\ ~SendPersist
  <2>1. PICK f \in FrameType : /\ stack' = Replace(stack, f) /\ f.m = Top.m
                               /\ Unpersisted(f) => Unpersisted(Top)
    BY <1>6 DEF Moved
  <2>2. ~Free /\ stack # <<>>
    BY <1>6 DEF Moved, Free
  <2>3. Top' = f
    BY <1>0, <2>1, <2>2, TopIs
  <2> QED BY <1>3, <1>6, <2>1, <2>2, <2>3 DEF Free
<1>7. CASE Nested
  <2>1. PICK f \in FrameType : stack' = <<f>> \o stack /\ f.k = "deliver"
    BY <1>7 DEF Nested
  <2>2. Top' = f
    BY <1>0, <2>1 DEF Top
  <2> QED BY <2>1, <2>2 DEF Unpersisted
<1>8. CASE Popped
  <2>1. PICK m : stack' = Without(m) /\ ~Free /\ Len(stack) # 1
    BY <1>8 DEF Popped
  <2>2. Top' = [stack[2] EXCEPT !.todo = @ \ {m}] /\ Len(stack) >= 2
    BY <2>1, PopTop DEF Without, Top
  <2>3. stack[2] \in FrameType /\ stack[2].ph \in {"drain1", "drain2"}
    BY <1>0, <2>2, StackType DEF IShape
  <2>4. Top'.ph = stack[2].ph
    BY <2>2, <2>3 DEF FrameType
  <2> QED BY <2>3, <2>4 DEF Unpersisted
<1> QED BY <1>1, <1>2, <1>4, <1>5, <1>6, <1>7, <1>8 DEF StackMove

-----------------------------------------------------------------------------
(* Who owns a claim.                                                        *)
LEMMA HeldIs == \A m : m \in HeldClaims <=>
                    \E j \in DOMAIN stack : stack[j].k = "deliver" /\ stack[j].m = m
BY DEF HeldClaims

LEMMA NothingHeld ==
    ASSUME TypeOK, IShape, Free \/ Top.k # "deliver"
    PROVE  HeldClaims = {}
<1>0. /\ Len(stack) \in Nat /\ DOMAIN stack = 1 .. Len(stack)
      /\ (stack # <<>> => Len(stack) >= 1)
  BY StackType
<1>1. CASE Free
  <2>1. DOMAIN stack = {}
    BY <1>0, <1>1 DEF Free
  <2> QED BY <2>1, HeldIs
<1>2. CASE ~Free /\ Top.k # "deliver"
  <2>1. Len(stack) = 1
    BY <1>0, <1>2 DEF IShape, Free, Top
  <2> QED BY <1>0, <1>2, <2>1, HeldIs DEF Top
<1> QED BY <1>1, <1>2

LEMMA MovedHolds ==
    ASSUME TypeOK, Moved
    PROVE  HeldClaims \subseteq HeldClaims'
<1>0. /\ Len(stack) \in Nat /\ DOMAIN stack = 1 .. Len(stack) /\ stack \in Seq(FrameType)
      /\ stack # <<>> /\ Len(stack) >= 1
  BY StackType DEF Moved, Free
<1>1. PICK f \in FrameType : stack' = Replace(stack, f) /\ f.k = Top.k /\ f.m = Top.m
  BY DEF Moved
<1>2. /\ DOMAIN stack' = DOMAIN stack /\ stack'[1] = f
      /\ \A i \in DOMAIN stack : i # 1 => stack'[i] = stack[i]
  BY <1>0, <1>1 DEF Replace
<1>3. \A i \in DOMAIN stack : stack'[i].k = stack[i].k /\ stack'[i].m = stack[i].m
  BY <1>1, <1>2 DEF Top
<1> QED BY <1>2, <1>3 DEF HeldClaims

LEMMA NestedHolds ==
    ASSUME TypeOK, NEW f \in FrameType, f.k = "deliver", stack' = <<f>> \o stack
    PROVE  HeldClaims \cup {f.m} \subseteq HeldClaims'
<1>0. /\ Len(stack) \in Nat /\ DOMAIN stack = 1 .. Len(stack) /\ stack \in Seq(FrameType)
  BY StackType
<1>1. /\ DOMAIN stack' = 1 .. Len(stack) + 1 /\ stack'[1] = f
      /\ \A i \in DOMAIN stack : i + 1 \in DOMAIN stack' /\ stack'[i + 1] = stack[i]
  BY <1>0
<1>2. f.m \in HeldClaims'
  <2>1. 1 \in DOMAIN stack'
    BY <1>0, <1>1
  <2> QED BY <1>1, <2>1 DEF HeldClaims
<1>3. ASSUME NEW m \in HeldClaims PROVE m \in HeldClaims'
  <2>1. PICK j \in DOMAIN stack : stack[j].k = "deliver" /\ stack[j].m = m
    BY <1>3, HeldIs
  <2>2. j + 1 \in DOMAIN stack' /\ stack'[j + 1].k = "deliver" /\ stack'[j + 1].m = m
    BY <1>1, <2>1
  <2> QED BY <2>2 DEF HeldClaims
<1> QED BY <1>2, <1>3

LEMMA PopHolds ==
    ASSUME TypeOK, IShape, ~Free, Pop(Top.m)
    PROVE  claims' \subseteq claims /\ \A m \in claims' \cap HeldClaims : m \in HeldClaims'
<1>0. /\ Len(stack) \in Nat /\ DOMAIN stack = 1 .. Len(stack) /\ Len(stack) >= 1
  BY StackType DEF Free
<1>1. claims' \subseteq claims /\ (Top.k = "deliver" => Top.m \notin claims')
  BY DEF Pop
<1>2. ASSUME NEW m \in claims' \cap HeldClaims PROVE m \in HeldClaims'
  <2>1. PICK j \in DOMAIN stack : stack[j].k = "deliver" /\ stack[j].m = m
    BY <1>2, HeldIs
  <2>2. j # 1
    BY <1>1, <1>2, <2>1 DEF Top
  <2>3. Len(stack) # 1 /\ j \in 2 .. Len(stack)
    BY <1>0, <2>2
  <2>4. /\ DOMAIN stack' = 1 .. Len(stack) - 1
        /\ stack'[1] = [stack[2] EXCEPT !.todo = @ \ {Top.m}]
        /\ \A i \in 2 .. Len(stack) - 1 : stack'[i] = stack[i + 1]
    BY <2>3, PopTop DEF Pop
  <2>5. stack[2] \in FrameType
    BY <1>0, <2>3, StackType
  <2>6. stack'[1].k = stack[2].k /\ stack'[1].m = stack[2].m
    BY <2>4, <2>5 DEF FrameType
  <2>7. CASE j = 2
    <3>1. 1 \in DOMAIN stack' /\ stack'[1].k = "deliver" /\ stack'[1].m = m
      BY <1>0, <2>1, <2>3, <2>4, <2>6, <2>7
    <3> QED BY <3>1 DEF HeldClaims
  <2>8. CASE j # 2
    <3>1. j - 1 \in 2 .. Len(stack) - 1 /\ (j - 1) + 1 = j /\ j - 1 \in DOMAIN stack'
      BY <1>0, <2>3, <2>4, <2>8
    <3>2. stack'[j - 1] = stack[j]
      BY <2>4, <3>1
    <3>3. stack'[j - 1].k = "deliver" /\ stack'[j - 1].m = m
      BY <2>1, <3>2
    <3> QED BY <3>1, <3>3 DEF HeldClaims
  <2> QED BY <2>7, <2>8
<1> QED BY <1>1, <1>2

LEMMA UnwindReleases ==
    ASSUME FailTop \/ \E r : Unwind(r)
    PROVE  claims' = claims \ HeldClaims
BY DEF FailTop, RecordFailure, Unwind

LEMMA ReleaseKeeps ==
    ASSUME ClaimsHaveOwners, claims' = claims \ HeldClaims, waiting' = waiting
    PROVE  ClaimsHaveOwners'
BY DEF ClaimsHaveOwners

LEMMA HoldKeeps ==
    ASSUME ClaimsHaveOwners, claims' \subseteq claims, waiting' = waiting,
           \A m \in claims' \cap HeldClaims : m \in HeldClaims'
    PROVE  ClaimsHaveOwners'
BY DEF ClaimsHaveOwners

LEMMA ClaimsStep ==
    ASSUME TypeOK, IShape, ClaimsHaveOwners, [Next]_vars
    PROVE  ClaimsHaveOwners'
<1> USE DEF dbVars, timeVars, linkVars, passVars, laterVars, netVars, vars
<1>s. ASSUME UNCHANGED <<stack, waiting>>, claims' \subseteq claims PROVE ClaimsHaveOwners'
  <2>1. HeldClaims' = HeldClaims
    BY <1>s DEF HeldClaims
  <2> QED BY <1>s, <2>1, HoldKeeps
<1>m. ASSUME UNCHANGED <<claims, waiting>>, Moved \/ HeldClaims = {} PROVE ClaimsHaveOwners'
  BY <1>m, MovedHolds, HoldKeeps
<1>1. ASSUME NEW m \in Msg, SendStart(m) \/ AttemptStart(m) PROVE ClaimsHaveOwners'
  BY <1>1, <1>m, NothingHeld DEF SendStart, AttemptStart
<1>2. ASSUME NEW m \in Dms, NEW c \in Controls, Unsend(m, c) PROVE ClaimsHaveOwners'
  BY <1>2, <1>m, NothingHeld DEF Unsend
<1>3. ASSUME ResetRetire \/ ResetDrop PROVE ClaimsHaveOwners'
  <2>1. Free \/ Top.k # "deliver"
    BY <1>3 DEF ResetRetire, ResetDrop
  <2> QED BY <1>3, <1>m, <2>1, NothingHeld DEF ResetRetire, ResetDrop
<1>4. ASSUME SendEnsure PROVE ClaimsHaveOwners'
  BY <1>4, <1>m, NothingHeld DEF SendEnsure
<1>5. ASSUME SendPersist PROVE ClaimsHaveOwners'
  <2>1. ~Free /\ queue \in SUBSET Msg
    BY <1>5 DEF SendPersist, TypeOK
  <2>2. Moved
    BY <1>5, <2>1, ToMoves DEF SendPersist
  <2> QED BY <1>5, <1>m, <2>2 DEF SendPersist
<1>6. ASSUME NEW m \in Msg, Claim(m) PROVE ClaimsHaveOwners'
  <2>1. waiting' = [waiting EXCEPT ![m] = @ + 1] /\ claims' = claims \cup {m} /\ stack' = stack
    BY <1>6 DEF Claim
  <2>2. waiting'[m] > 0 /\ \A x \in Msg : waiting[x] > 0 => waiting'[x] > 0
    BY <2>1, BoundsAssumption DEF TypeOK
  <2>3. HeldClaims' = HeldClaims /\ claims \subseteq Msg
    BY <2>1 DEF HeldClaims, TypeOK
  <2> QED BY <2>1, <2>2, <2>3 DEF ClaimsHaveOwners
<1>7. ASSUME NEW m \in Msg, DeliverStart(m) PROVE ClaimsHaveOwners'
  <2>1. HeldClaims = {}
    BY <1>7, NothingHeld DEF DeliverStart
  <2>2. waiting' = [waiting EXCEPT ![m] = @ - 1] /\ claims' = claims /\ claims \subseteq Msg
    BY <1>7 DEF DeliverStart, TypeOK
  <2>3. \A x \in Msg : waiting[x] > 0 /\ x # m => waiting'[x] > 0
    BY <2>2 DEF TypeOK
  <2>4. m \in HeldClaims'
    BY <1>7 DEF DeliverStart, HeldClaims, Frame
  <2> QED BY <2>1, <2>2, <2>3, <2>4 DEF ClaimsHaveOwners
<1>8. ASSUME DrainOlder PROVE ClaimsHaveOwners'
  <2>1. PICK x \in Msg : /\ claims' = claims \cup {x} /\ waiting' = waiting
                         /\ stack' = <<Frame("deliver", x, "drain1", Older(x))>> \o stack
    BY <1>8 DEF DrainOlder
  <2>2. Older(x) \in SUBSET Msg
    BY DEF Older, TypeOK
  <2> DEFINE f == Frame("deliver", x, "drain1", Older(x))
  <2>3. f \in FrameType /\ f.k = "deliver" /\ f.m = x
    BY <2>2, PosFacts DEF Frame, FrameType
  <2>4. stack' = <<f>> \o stack
    BY <2>1
  <2> HIDE DEF f
  <2>5. HeldClaims \cup {x} \subseteq HeldClaims'
    BY <2>3, <2>4, NestedHolds
  <2> QED BY <2>1, <2>5 DEF ClaimsHaveOwners
<1>9. ASSUME Rescan PROVE ClaimsHaveOwners'
  <2>1. Older(Top.m) \in SUBSET Msg /\ live \in Pos /\ ~Free
    BY <1>9 DEF Older, TypeOK, Rescan, Draining
  <2>2. Moved
    BY <1>9, <2>1, HandleMoves DEF Rescan
  <2> QED BY <1>9, <1>m, <2>2 DEF Rescan
<1>10. ASSUME Proceed PROVE ClaimsHaveOwners'
  <2>1. Moved
    BY <1>10, ToMoves DEF Proceed, Checking, Draining
  <2> QED BY <1>10, <1>m, <2>1 DEF Proceed
<1>11. ASSUME EnsureReady PROVE ClaimsHaveOwners'
  <2>1. Older(Top.m) \in SUBSET Msg /\ live' \in Pos /\ ~Free /\ UNCHANGED <<claims, waiting>>
    BY <1>11, LinkIsLive DEF Older, TypeOK, EnsureReady, Ensuring
  <2>2. \/ stack' = WithHandle(live', Older(Top.m)) \/ stack' = WithHandle(live', {})
        \/ Top.k = "attempt" /\ stack' = To("drain1", Older(Top.m))
        \/ Top.k = "attempt" /\ stack' = <<>>
    BY <1>11 DEF EnsureReady
  <2>3. CASE stack' = WithHandle(live', Older(Top.m))
    BY <1>m, <2>1, <2>3, HandleMoves
  <2>4. CASE stack' = WithHandle(live', {})
    BY <1>m, <2>1, <2>4, HandleMoves
  <2>5. CASE Top.k = "attempt"
    BY <1>m, <2>1, <2>5, NothingHeld
  <2> QED BY <2>2, <2>3, <2>4, <2>5
<1>12. ASSUME Encrypt PROVE ClaimsHaveOwners'
  BY <1>12, <1>m, EncryptMoves DEF Encrypt
<1>13. ASSUME PutOk PROVE ClaimsHaveOwners'
  <2>1. Moved
    BY <1>13, ToMoves DEF PutOk
  <2> QED BY <1>13, <1>m, <2>1 DEF PutOk
<1>14. ASSUME Settle \/ Finalize PROVE ClaimsHaveOwners'
  <2>1. ~Free /\ Pop(Top.m) /\ waiting' = waiting
    BY <1>14 DEF Settle, Finalize, Checking, Draining
  <2> QED BY <2>1, PopHolds, HoldKeeps
<1>15. ASSUME Retire \/ EnsureNotReady \/ EnsureFailed \/ PutTransient \/ PutRejected PROVE ClaimsHaveOwners'
  BY <1>15, UnwindReleases, ReleaseKeeps DEF Retire, EnsureNotReady, EnsureFailed, PutTransient,
     PutRejected
<1>16. ASSUME DrainBlocked \/ FinalizeFails PROVE ClaimsHaveOwners'
  BY <1>16, UnwindReleases, ReleaseKeeps DEF DrainBlocked, FinalizeFails
<1>17. ASSUME Crash PROVE ClaimsHaveOwners'
  BY <1>17 DEF Crash, ClaimsHaveOwners
<1>18. ASSUME NEW m \in Msg,
              \/ FanoutPersist(m) \/ FanoutStamp(m) \/ FanoutInsert(m) \/ ClaimExpires(m)
              \/ Receipt(m) \/ RestoreBackup(m) \/ HealList(m) \/ Heal(m) \/ Age(m)
       PROVE  ClaimsHaveOwners'
  BY <1>18, <1>s DEF FanoutPersist, FanoutStamp, FanoutInsert, ClaimExpires, Receipt,
     RestoreBackup, HealList, Heal, Age
<1>19. ASSUME NEW c \in Controls,
              \/ ControlStart(c) \/ ControlReady(c) \/ ControlEncrypt(c)
              \/ ControlPutOk(c) \/ ControlHold(c) \/ ControlFinalize(c)
       PROVE  ClaimsHaveOwners'
  BY <1>19, <1>s DEF ControlStart, ControlReady, ControlEncrypt, ControlPutOk, ControlHold,
     ControlFinalize
<1>20. CASE EnsureLink \/ Flush \/ UNCHANGED vars
  BY <1>20, <1>s DEF EnsureLink, Flush
<1> QED
  BY <1>1, <1>2, <1>3, <1>4, <1>5, <1>6, <1>7, <1>8, <1>9, <1>10, <1>11, <1>12, <1>13, <1>14,
     <1>15, <1>16, <1>17, <1>18, <1>19, <1>20 DEF Next

-----------------------------------------------------------------------------
PathInv == TypeOK /\ IShape /\ IOwed /\ ClaimsHaveOwners

(* On every path and under every fault: the stack of nested deliveries keeps *)
(* its shape, a claim keeps its owner, and a row and its item stay together *)
(* in memory and in the image.                                              *)
THEOREM PathInvariant == Spec => []PathInv
<1>1. Init => PathInv
  <2> SUFFICES ASSUME Init PROVE PathInv
    OBVIOUS
  <2>1. TypeOK
    BY InitTyped
  <2>2. IShape /\ IOwed /\ ClaimsHaveOwners
    BY Apart DEF Init, IShape, IOwed, OwedHasItem, OwedIsQueued, Db, ClaimsHaveOwners, Free
  <2> QED BY <2>1, <2>2 DEF PathInv
<1>2. PathInv /\ [Next]_vars => PathInv'
  <2> SUFFICES ASSUME PathInv, [Next]_vars PROVE PathInv'
    OBVIOUS
  <2>0. TypeOK /\ IShape /\ IOwed /\ ClaimsHaveOwners
    BY DEF PathInv
  <2>1. TypeOK'
    BY <2>0, TypeStep
  <2>2. StackMove
    BY <2>0, EveryMove
  <2>3. IShape'
    BY <2>0, <2>2, ShapeStep
  <2>4. IOwed'
    BY <2>0, <2>2, OwedStep, TopStep DEF IOwed, OwedOnImage
  <2>5. ClaimsHaveOwners'
    BY <2>0, ClaimsStep
  <2> QED BY <2>1, <2>3, <2>4, <2>5 DEF PathInv
<1> QED BY <1>1, <1>2, PTL DEF Spec

(* No direct message is owed without the queue item the drains look for, in *)
(* memory or in the image a restart comes back to: with any number of       *)
(* messages, passes and restarts, under every fault, on every path.         *)
THEOREM OwedKeepsItem == Spec => []OwedHasItem
<1>1. PathInv => OwedHasItem
  BY DEF PathInv, IOwed
<1> QED BY <1>1, PathInvariant, PTL

(* Every claim belongs to a delivery that waits or runs: none is left to    *)
(* block the peer's sends until it expires.                                 *)
THEOREM ClaimsAreReleased == Spec => []ClaimsHaveOwners
<1>1. PathInv => ClaimsHaveOwners
  BY DEF PathInv
<1> QED BY <1>1, PathInvariant, PTL

-----------------------------------------------------------------------------
(* The serialized paths                                                     *)

(* What SerializedPaths switches off.                                       *)
LEMMA Serialized ==
    ASSUME SerializedPaths
    PROVE  /\ Controls = {} /\ SlowFanouts = {} /\ Restored = {}
           /\ Msg = Dms \cup Fanouts
           /\ Dms \cap Fanouts = {}
           /\ \A x \in {"tail_loss", "finalize_fails", "receipt", "control", "unsend", "reset"} :
                 x \notin Faults
BY KindsAssumption DEF SerializedPaths, Msg

-----------------------------------------------------------------------------
(* Facts about a state.                                                     *)
LEMMA QueuedKnown ==
    ASSUME IRows
    PROVE  \A y \in queue : Known(y)
BY DEF IRows, Owing, Known

LEMMA OwingKnown ==
    /\ Owing \subseteq queue
    /\ \A y \in Owing : Known(y)
BY DEF Owing, Known

(* What is not settled is owed, and what is settled is not.                 *)
LEMMA NotSettled ==
    ASSUME SerializedPaths, IRows, NEW m \in Msg
    PROVE  Settled(m) <=> m \notin Owing
<1>1. CASE m \in Dms
  BY <1>1, Serialized DEF IRows, Settled, FanoutSettled, Owing
<1>2. CASE m \in Fanouts
  <2>1. m \notin Dms
    BY <1>2, Serialized
  <2>2. m \in queue => m \in Owing
    BY <2>1, Serialized DEF IRows
  <2>3. m \in Owing => m \in queue /\ row[m] \in {"sending", "failed"}
    BY DEF Owing
  <2> QED BY <1>2, <2>1, <2>2, <2>3 DEF Settled, FanoutSettled
<1> QED BY <1>1, <1>2, Serialized

LEMMA OlderKnown ==
    ASSUME IRows, NEW m
    PROVE  \A y \in Older(m) : Known(y) /\ stamp[y] < stamp[m]
BY QueuedKnown DEF Older

(* The frame on top, and the one at the base.                               *)
LEMMA TopFrame ==
    ASSUME TypeOK, IInv, ~Free
    PROVE  /\ Top.m \in Msg /\ FrameInv(Top)
           /\ Top.k \in {"deliver", "send", "attempt"}
           /\ Top.k # "deliver" => Len(stack) = 1
           /\ \A i \in DOMAIN stack : i > 1 => stamp[Top.m] < stamp[stack[i].m]
<1>1. /\ 1 \in DOMAIN stack /\ Top = stack[1] /\ Top \in FrameType /\ FrameOK(Top)
  BY TopType DEF Top
<1>2. /\ FrameInv(Top) /\ Top.k \in {"deliver", "send", "attempt"}
      /\ Top.k # "deliver" => Len(stack) = 1
      /\ \A i \in DOMAIN stack : i > 1 => stamp[Top.m] < stamp[stack[i].m]
  BY <1>1 DEF IInv, IFrames
<1>3. Top.m \in Msg
  BY <1>1, <1>2 DEF FrameType, FrameOK
<1> QED BY <1>2, <1>3

LEMMA BaseFrame ==
    ASSUME TypeOK, IInv, ~Free, Base.k = "send", Len(stack) > 1 \/ Draining
    PROVE  Base.m \in Owing
<1>1. Len(stack) \in DOMAIN stack /\ Len(stack) \in Nat
  BY StackType DEF Free
<1>2. Base.ph \in {"drain1", "drain2"}
  <2>1. CASE Len(stack) > 1
    BY <1>1, <2>1 DEF Base, IInv, IFrames
  <2>2. CASE Len(stack) = 1
    BY <2>2 DEF Base, Top, Draining
  <2> QED BY <1>1, <2>1, <2>2, StackType DEF Free
<1>3. FrameInv(Base)
  BY <1>1 DEF Base, IInv, IFrames
<1> QED BY <1>2, <1>3 DEF FrameInv, PastChecks

-----------------------------------------------------------------------------
(* Steps that change no more of the rows than to show owed ones failed.     *)
SameRows ==
    /\ queue' = queue /\ stamp' = stamp /\ clock' = clock
    /\ \A m \in Msg : row'[m] = row[m] \/ (m \in Owing /\ row'[m] = "failed")

LEMMA SameRowsKeep ==
    ASSUME TypeOK, SameRows
    PROVE  /\ Owing' = Owing
           /\ \A m \in Msg : Known(m)' <=> Known(m)
           /\ \A m \in Msg : (row[m] \in {"sending", "failed"}) <=> (row'[m] \in {"sending", "failed"})
           /\ \A m \in Msg : (row[m] = "sent") <=> (row'[m] = "sent")
<1>1. \A m \in Owing : row[m] \in {"sending", "failed"}
  BY DEF Owing
<1>2. \A m \in Msg : row'[m] = row[m] \/ (row[m] \in {"sending", "failed"} /\ row'[m] = "failed")
  BY <1>1 DEF SameRows
<1>3. /\ \A m \in Msg : (row[m] \in {"sending", "failed"}) <=> (row'[m] \in {"sending", "failed"})
      /\ \A m \in Msg : (row[m] = "sent") <=> (row'[m] = "sent")
      /\ \A m \in Msg : (row[m] = "none") <=> (row'[m] = "none")
  BY <1>2
<1>4. queue \subseteq Msg /\ queue' = queue
  BY DEF TypeOK, SameRows
<1>5. Owing' = Owing
  BY <1>3, <1>4 DEF Owing
<1> QED BY <1>3, <1>5 DEF Known

LEMMA RowsKeep ==
    ASSUME TypeOK, IInv, SameRows, healing' \subseteq healing, UNCHANGED <<waiting, pending>>
    PROVE  IRows' /\ IStamps' /\ IWaiting'
<1>1. queue' = queue /\ stamp' = stamp /\ clock' = clock /\ queue \subseteq Msg /\ healing \subseteq Msg
  BY DEF SameRows, TypeOK, Msg
<1>2. IRows'
  BY <1>1, SameRowsKeep DEF IInv, IRows, Msg
<1>3. IStamps'
  BY <1>1, SameRowsKeep DEF IInv, IStamps
<1>4. IWaiting'
  BY SameRowsKeep DEF IInv, IWaiting
<1> QED BY <1>2, <1>3, <1>4

LEMMA WroteKeep ==
    ASSUME IInv, Owing' = Owing, UNCHANGED <<wrote, epoch, snap>>,
           \A y \in Owing : stamp'[y] = stamp[y]
    PROVE  IWrote' /\ NonceOnce'
BY DEF IInv, IWrote, NonceOnce

(* A delivery that ends with its error caught leaves the invariant alone:   *)
(* memory is back where the database is.                                    *)
LEMMA EmptyKeep ==
    ASSUME TypeOK, IInv, SameRows, stack' = <<>>, live' \in {NoPos, snap},
           UNCHANGED <<wrote, epoch, snap, waiting, pending, healing>>
    PROVE  IInv'
<1>1. IRows' /\ IStamps' /\ IWaiting'
  BY RowsKeep
<1>2. IWrote' /\ NonceOnce'
  BY SameRowsKeep, WroteKeep DEF SameRows
<1>3. IFrames'
  BY DEF IFrames
<1>4. ILink'
  BY DEF ILink, Free, IInv
<1> QED BY <1>1, <1>2, <1>3, <1>4 DEF IInv

LEMMA BlockedRows ==
    ASSUME TypeOK, IInv, ~Free, Len(stack) > 1 \/ Draining,
           NEW r, r = row \/ (Top.m \in Owing /\ r = [row EXCEPT ![Top.m] = "failed"])
    PROVE  \A m \in Msg : BlockedRow(r)[m] = row[m] \/ (m \in Owing /\ BlockedRow(r)[m] = "failed")
<1>1. row \in [Msg -> RowStates]
  BY DEF TypeOK
<1>2. \A m \in Msg : r[m] = row[m] \/ (m \in Owing /\ r[m] = "failed")
  BY <1>1
<1>3. DOMAIN r = Msg
  BY <1>1
<1>4. CASE Base.k = "send"
  <2>1. Base.m \in Owing
    BY <1>4, BaseFrame
  <2>2. BlockedRow(r) = [r EXCEPT ![Base.m] = "failed"]
    BY <1>4 DEF BlockedRow
  <2> QED BY <1>2, <1>3, <2>1, <2>2
<1>5. CASE Base.k # "send"
  BY <1>2, <1>5 DEF BlockedRow
<1> QED BY <1>4, <1>5

LEMMA UnwindRows ==
    ASSUME TypeOK, IInv, ~Free,
           NEW r, r = row \/ (Top.m \in Owing /\ r = [row EXCEPT ![Top.m] = "failed"]),
           Unwind(r)
    PROVE  /\ stack' = <<>>
           /\ \A m \in Msg : row'[m] = row[m] \/ (m \in Owing /\ row'[m] = "failed")
<1>1. row \in [Msg -> RowStates]
  BY DEF TypeOK
<1>2. CASE Len(stack) > 1
  BY <1>2, BlockedRows DEF Unwind
<1>3. CASE ~(Len(stack) > 1)
  BY <1>1, <1>3 DEF Unwind
<1> QED BY <1>2, <1>3 DEF Unwind

LEMMA FailedRowsOwed ==
    ASSUME Top.m \in Owing, NEW r \in FailedRows(Top.m)
    PROVE  r = row \/ (Top.m \in Owing /\ r = [row EXCEPT ![Top.m] = "failed"])
BY DEF FailedRows

(* The failure of the delivery on top, past its checks.                     *)
LEMMA FailTopRows ==
    ASSUME SerializedPaths, TypeOK, IInv, ~Free, FailTop,
           Top.k \in {"deliver", "send"} => Top.m \in Owing
    PROVE  /\ stack' = <<>>
           /\ \A m \in Msg : row'[m] = row[m] \/ (m \in Owing /\ row'[m] = "failed")
<1>1. CASE Top.k = "deliver" /\ RecordFailure(Top.m)
  <2>1. \E r \in FailedRows(Top.m) \cup {row} : Unwind(r)
    BY <1>1 DEF RecordFailure
  <2>2. PICK r \in FailedRows(Top.m) \cup {row} : Unwind(r)
    BY <2>1
  <2>3. r = row \/ (Top.m \in Owing /\ r = [row EXCEPT ![Top.m] = "failed"])
    BY <1>1, <2>2, FailedRowsOwed
  <2> QED BY <2>2, <2>3, UnwindRows
<1>2. CASE Top.k = "send" /\ Unwind([row EXCEPT ![Top.m] = "failed"])
  BY <1>2, UnwindRows
<1>3. CASE Unwind(row)
  BY <1>3, UnwindRows
<1> QED BY <1>1, <1>2, <1>3 DEF FailTop

(* Where the handle stands outside `putting` and `fin`.                     *)
LEMMA LinkIdle ==
    ASSUME IInv, ~Free => Top.ph # "fin"
    PROVE  /\ live \in {NoPos, snap}
           /\ snap \in Pos /\ snap[1] = epoch
BY DEF IInv, ILink

(* A delivery that gives up leaves the owed rows owed.                      *)
LEMMA UnwindSame ==
    ASSUME SerializedPaths, TypeOK, IInv,
           DrainBlocked \/ Retire \/ EnsureNotReady \/ EnsureFailed \/ PutTransient \/ PutRejected
    PROVE  /\ SameRows /\ stack' = <<>> /\ live' \in {NoPos, snap}
           /\ UNCHANGED <<wrote, epoch, snap, waiting, pending, healing>>
<1> USE DEF dbVars, timeVars, linkVars, passVars, laterVars, netVars
<1>1. CASE DrainBlocked
  <2>1. ~Free /\ Draining /\ Top.ph # "fin"
    BY <1>1 DEF DrainBlocked, Draining
  <2>2. \A m \in Msg : row'[m] = row[m] \/ (m \in Owing /\ row'[m] = "failed")
    BY <1>1, <2>1, BlockedRows DEF DrainBlocked
  <2>3. SameRows
    BY <1>1, <2>2 DEF DrainBlocked, SameRows
  <2> QED BY <1>1, <2>1, <2>3, LinkIdle DEF DrainBlocked
<1>2. CASE Retire
  <2>1. ~Free /\ Top.ph # "fin" /\ Top.k = "deliver" /\ ~Settled(Top.m)
    BY <1>2 DEF Retire, Checking, Draining
  <2>2. Top.m \in Owing
    BY <2>1, TopFrame, NotSettled DEF IInv
  <2>3. PICK r \in FailedRows(Top.m) : Unwind(r)
    BY <1>2 DEF Retire
  <2>4. /\ stack' = <<>>
        /\ \A m \in Msg : row'[m] = row[m] \/ (m \in Owing /\ row'[m] = "failed")
    BY <2>1, <2>2, <2>3, FailedRowsOwed, UnwindRows
  <2>5. SameRows
    BY <1>2, <2>4 DEF Retire, SameRows
  <2> QED BY <1>2, <2>1, <2>4, <2>5, LinkIdle DEF Retire
<1>3. CASE EnsureNotReady
  <2>1. ~Free /\ Top.ph # "fin"
    BY <1>3 DEF EnsureNotReady, Ensuring
  <2>2. /\ stack' = <<>>
        /\ \A m \in Msg : row'[m] = row[m] \/ (m \in Owing /\ row'[m] = "failed")
    BY <1>3, <2>1, UnwindRows DEF EnsureNotReady
  <2>3. SameRows
    BY <1>3, <2>2 DEF EnsureNotReady, SameRows
  <2> QED BY <1>3, <2>1, <2>2, <2>3, LinkIdle DEF EnsureNotReady
<1>4. CASE EnsureFailed
  <2>1. ~Free /\ Top.ph # "fin" /\ Top.ph # "persist"
    BY <1>4 DEF EnsureFailed, Ensuring, Draining
  <2>2. Top.k \in {"deliver", "send"} => PastChecks(Top)
    BY <1>4 DEF EnsureFailed, Ensuring, Draining, PastChecks
  <2>3. Top.k \in {"deliver", "send"} => Top.m \in Owing
    BY <2>1, <2>2, TopFrame DEF FrameInv
  <2>4. /\ stack' = <<>>
        /\ \A m \in Msg : row'[m] = row[m] \/ (m \in Owing /\ row'[m] = "failed")
    BY <1>4, <2>1, <2>3, FailTopRows DEF EnsureFailed
  <2>5. SameRows
    BY <1>4, <2>4 DEF EnsureFailed, SameRows
  <2> QED BY <1>4, <2>1, <2>4, <2>5, LinkIdle DEF EnsureFailed
<1>5. CASE PutTransient
  <2>1. ~Free /\ Top.ph # "fin"
    BY <1>5 DEF PutTransient
  <2>2. /\ stack' = <<>>
        /\ \A m \in Msg : row'[m] = row[m] \/ (m \in Owing /\ row'[m] = "failed")
    BY <1>5, <2>1, UnwindRows DEF PutTransient
  <2>3. SameRows
    BY <1>5, <2>2 DEF PutTransient, SameRows
  <2> QED BY <1>5, <2>1, <2>2, <2>3, LinkIdle DEF PutTransient
<1>6. CASE PutRejected
  <2>1. ~Free /\ Top.ph = "putting" /\ Top.ph # "fin"
    BY <1>6 DEF PutRejected
  <2>2. Top.m \in Owing
    BY <2>1, TopFrame DEF FrameInv, PastChecks
  <2>3. /\ stack' = <<>>
        /\ \A m \in Msg : row'[m] = row[m] \/ (m \in Owing /\ row'[m] = "failed")
    BY <1>6, <2>1, <2>2, FailTopRows DEF PutRejected
  <2>4. SameRows
    BY <1>6, <2>3 DEF PutRejected, SameRows
  <2>5. live' = live
    BY <1>6, Serialized DEF PutRejected
  <2> QED BY <1>6, <2>1, <2>3, <2>4, <2>5, LinkIdle DEF PutRejected
<1> QED BY <1>1, <1>2, <1>3, <1>4, <1>5, <1>6

LEMMA UnwindSteps ==
    ASSUME SerializedPaths, TypeOK, IInv,
           DrainBlocked \/ Retire \/ EnsureNotReady \/ EnsureFailed \/ PutTransient \/ PutRejected
    PROVE  IInv'
BY UnwindSame, EmptyKeep

-----------------------------------------------------------------------------
(* Steps that move the delivery on top to its next phase.                   *)
LEMMA TopMoves ==
    ASSUME TypeOK, IInv, ~Free,
           NEW f \in FrameType, FrameOK(f), f.k = Top.k, f.m = Top.m,
           stack' = Replace(stack, f),
           UNCHANGED <<row, queue, stamp>>,
           FrameInv(f)
    PROVE  IFrames' /\ Top' = f /\ stack' # <<>>
<1>1. /\ Len(stack) \in Nat /\ Len(stack) >= 1 /\ DOMAIN stack = 1 .. Len(stack)
      /\ DOMAIN stack' = 1 .. Len(stack) /\ Len(stack') = Len(stack)
      /\ stack'[1] = f
      /\ \A i \in 2 .. Len(stack) : stack'[i] = stack[i]
  BY StackType, ReplaceTop DEF Free
<1>2. \A i \in 1 .. Len(stack) : i = 1 \/ i \in 2 .. Len(stack)
  BY <1>1
<1>3. \A i \in 1 .. Len(stack) : stack'[i].k = stack[i].k /\ stack'[i].m = stack[i].m
  BY <1>1, <1>2 DEF Top
<1>4. row' = row /\ stamp' = stamp /\ queue' = queue /\ Owing' = Owing
  BY DEF Owing
<1>5. \A i \in 1 .. Len(stack) : FrameInv(stack'[i])
  BY <1>1, <1>2 DEF IInv, IFrames
<1>6. \A i \in 1 .. Len(stack) : i > 1 => stack'[i].ph \in {"drain1", "drain2"}
  BY <1>1, <1>2 DEF IInv, IFrames
<1>7. IFrames'
  <2> SUFFICES ASSUME NEW i \in 1 .. Len(stack)
               PROVE  /\ stack'[i].k = "deliver"
                         \/ (i = Len(stack) /\ stack'[i].k \in {"send", "attempt"})
                      /\ i > 1 => stack'[i].ph \in {"drain1", "drain2"}
                      /\ FrameInv(stack[i])'
                      /\ \A j \in 1 .. Len(stack) :
                            j < i => stamp'[stack'[j].m] < stamp'[stack'[i].m]
    BY <1>1 DEF IFrames
  <2>1. \A j \in 1 .. Len(stack) : j < i => stamp'[stack'[j].m] < stamp'[stack'[i].m]
    BY <1>1, <1>3 DEF IInv, IFrames
  <2>2. FrameInv(stack[i])'
    <3>1. FrameInv(stack'[i])
      BY <1>5
    <3> QED BY <1>4, <3>1 DEF FrameInv, Known, Older, Unpersisted, PastChecks
  <2>3. stack'[i].k = "deliver" \/ (i = Len(stack) /\ stack'[i].k \in {"send", "attempt"})
    BY <1>1, <1>3 DEF IInv, IFrames
  <2> QED BY <1>6, <2>1, <2>2, <2>3
<1> QED BY <1>1, <1>7 DEF Top

(* The rest of the invariant when only the stack and the link change.       *)
LEMMA DbKeep ==
    ASSUME TypeOK, IInv, UNCHANGED <<row, queue, stamp, clock, waiting, pending, healing>>
    PROVE  IRows' /\ IStamps' /\ IWaiting' /\ Owing' = Owing
<1>1. SameRows
  BY DEF SameRows
<1> QED BY <1>1, RowsKeep, SameRowsKeep

(* A ready link: the handle stands at the persisted position, of the same   *)
(* session or of a new one, in which nothing was encrypted.                 *)
LEMMA LinkReadyKeep ==
    ASSUME TypeOK, IInv, ~Free => Top.ph \notin {"putting", "fin"}, LinkReady,
           wrote' = wrote, Owing' = Owing, stamp' = stamp
    PROVE  /\ live' = snap' /\ snap' \in Pos /\ snap'[1] = epoch'
           /\ IWrote' /\ NonceOnce'
<1>1. live \in {NoPos, snap} /\ snap \in Pos /\ snap[1] = epoch /\ snap # NoPos
  BY LinkIdle, PosFacts
<1>2. CASE UNCHANGED <<epoch, snap>> /\ live' = snap
  BY <1>1, <1>2, WroteKeep
<1>3. CASE epoch < MaxEpoch /\ epoch' = epoch + 1 /\ live' = <<epoch + 1, 0>> /\ snap' = <<epoch + 1, 0>>
  <2>1. epoch \in 0 .. MaxEpoch /\ wrote \subseteq Pos \X Msg
    BY DEF TypeOK
  <2>2. epoch + 1 \in 0 .. MaxEpoch
    BY <1>3, <2>1, BoundsAssumption
  <2>3. snap' \in Pos /\ snap'[1] = epoch'
    BY <1>3, <2>2, PosFacts
  <2>4. \A x \in wrote : x[1][1] \in 0 .. MaxEpoch /\ x[1][1] <= epoch
    BY <2>1, PosFacts DEF IInv, IWrote
  <2>5. \A x \in wrote : x[1][1] <= epoch' /\ x[1][1] # epoch' /\ x[1] # snap'
    BY <1>3, <2>1, <2>3, <2>4
  <2>6. IWrote'
    BY <2>5 DEF IWrote
  <2>7. NonceOnce'
    BY DEF IInv, NonceOnce
  <2> QED BY <1>3, <2>3, <2>6, <2>7
<1> QED BY <1>1, <1>2, <1>3 DEF LinkReady

LEMMA EnsureReadyStep ==
    ASSUME SerializedPaths, TypeOK, IInv, EnsureReady
    PROVE  IInv'
<1> USE DEF dbVars, timeVars, linkVars, passVars, laterVars, netVars
<1>1. /\ ~Free /\ Top.ph = "ensure" /\ Top \in FrameType /\ FrameOK(Top) /\ Top.k # "send"
      /\ FrameInv(Top) /\ Top.k \in {"deliver", "attempt"}
  BY TopType, TopFrame DEF EnsureReady, Ensuring
<1>2. IRows' /\ IStamps' /\ IWaiting' /\ Owing' = Owing
  BY DbKeep DEF EnsureReady
<1>3. live' = snap' /\ snap' \in Pos /\ snap'[1] = epoch' /\ IWrote' /\ NonceOnce'
  BY <1>1, <1>2, LinkReadyKeep DEF EnsureReady
<1>4. Older(Top.m) \in SUBSET Msg
  BY DEF Older, TypeOK
<1>5. IFrames' /\ (stack' = <<>> \/ Top'.ph \in {"drain1", "drain2"})
  <2>1. CASE Top.k = "deliver" /\ stack' = WithHandle(live', Older(Top.m))
    <3> DEFINE f == [Top EXCEPT !.ph = "drain2", !.todo = Older(Top.m), !.pos = live']
    <3>1. /\ f \in FrameType /\ FrameOK(f) /\ f.k = Top.k /\ f.m = Top.m
          /\ f.todo = Older(Top.m) /\ f.ph = "drain2"
      BY <1>1, <1>3, <1>4 DEF FrameType, FrameOK
    <3>2. stack' = Replace(stack, f)
      BY <2>1 DEF WithHandle
    <3> HIDE DEF f
    <3>3. FrameInv(f)
      BY <1>1, <2>1, <3>1, OlderKnown DEF FrameInv, PastChecks, Unpersisted, IInv
    <3>4. UNCHANGED <<row, queue, stamp>>
      BY DEF EnsureReady
    <3> QED BY <1>1, <3>1, <3>2, <3>3, <3>4, TopMoves
  <2>2. CASE Top.k = "attempt" /\ Top.m \in queue /\ stack' = To("drain1", Older(Top.m))
    <3> DEFINE f == [Top EXCEPT !.ph = "drain1", !.todo = Older(Top.m)]
    <3>1. /\ f \in FrameType /\ FrameOK(f) /\ f.k = Top.k /\ f.m = Top.m
          /\ f.todo = Older(Top.m) /\ f.ph = "drain1"
      BY <1>1, <1>4 DEF FrameType, FrameOK
    <3>2. stack' = Replace(stack, f)
      BY <2>2 DEF To
    <3> HIDE DEF f
    <3>3. Top.m \in Owing
      BY <1>1, <2>2, Serialized DEF IInv, IRows, FrameOK
    <3>4. FrameInv(f)
      BY <1>1, <2>2, <3>1, <3>3, OlderKnown DEF FrameInv, PastChecks, Unpersisted, IInv
    <3>5. UNCHANGED <<row, queue, stamp>>
      BY DEF EnsureReady
    <3> QED BY <1>1, <3>1, <3>2, <3>4, <3>5, TopMoves
  <2>3. CASE stack' = <<>>
    BY <2>3 DEF IFrames
  <2> QED BY <1>1, <2>1, <2>2, <2>3 DEF EnsureReady
<1>6. ILink'
  BY <1>3, <1>5 DEF ILink, Free
<1> QED BY <1>2, <1>3, <1>5, <1>6 DEF IInv

(* The same with an unchanged link, to a phase without a put.               *)
LEMMA QuietMove ==
    ASSUME TypeOK, IInv, ~Free, Top.ph # "fin",
           NEW f \in FrameType, FrameOK(f), f.k = Top.k, f.m = Top.m,
           f.ph \notin {"putting", "fin"}, stack' = Replace(stack, f), FrameInv(f),
           UNCHANGED <<row, queue, stamp, clock, waiting, pending, healing, live, snap, epoch, wrote>>
    PROVE  IInv'
<1>1. IRows' /\ IStamps' /\ IWaiting' /\ Owing' = Owing
  BY DbKeep
<1>2. IFrames' /\ Top' = f /\ stack' # <<>>
  BY TopMoves
<1>3. IWrote' /\ NonceOnce'
  BY <1>1, WroteKeep
<1>4. ILink'
  BY <1>2, LinkIdle DEF ILink, Free
<1> QED BY <1>1, <1>2, <1>3, <1>4 DEF IInv

LEMMA RescanStep ==
    ASSUME SerializedPaths, TypeOK, IInv, Rescan
    PROVE  IInv'
<1> USE DEF dbVars, timeVars, linkVars, passVars, laterVars, netVars
<1> DEFINE f == [Top EXCEPT !.ph = "drain2", !.todo = Older(Top.m), !.pos = live]
<1>1. /\ ~Free /\ Top.ph = "drain1" /\ Top.k \in {"send", "attempt"} /\ live \in Pos
      /\ Top \in FrameType /\ FrameOK(Top) /\ FrameInv(Top)
  BY TopType, TopFrame DEF Rescan, Draining, TypeOK
<1>2. Older(Top.m) \in SUBSET Msg
  BY DEF Older, TypeOK
<1>3. /\ f \in FrameType /\ FrameOK(f) /\ f.k = Top.k /\ f.m = Top.m
      /\ f.todo = Older(Top.m) /\ f.ph = "drain2"
  BY <1>1, <1>2 DEF FrameType, FrameOK
<1>4. stack' = Replace(stack, f)
  BY DEF Rescan, WithHandle
<1> HIDE DEF f
<1>5. FrameInv(f)
  BY <1>1, <1>3, OlderKnown DEF FrameInv, PastChecks, Unpersisted, IInv
<1> QED BY <1>1, <1>3, <1>4, <1>5, QuietMove DEF Rescan

LEMMA ProceedStep ==
    ASSUME SerializedPaths, TypeOK, IInv, Proceed
    PROVE  IInv'
<1> USE DEF dbVars, timeVars, linkVars, passVars, laterVars, netVars
<1> DEFINE f == [Top EXCEPT !.ph = "ensure", !.todo = {}]
<1>1. /\ ~Free /\ Top.ph = "drain1" /\ Top.k = "deliver" /\ ~Settled(Top.m)
      /\ Top \in FrameType /\ FrameOK(Top) /\ FrameInv(Top) /\ Top.m \in Msg
  BY TopType, TopFrame DEF Proceed, Checking, Draining
<1>2. /\ f \in FrameType /\ FrameOK(f) /\ f.k = Top.k /\ f.m = Top.m
      /\ f.todo = {} /\ f.ph = "ensure"
  BY <1>1 DEF FrameType, FrameOK
<1>3. stack' = Replace(stack, f)
  BY DEF Proceed, To
<1>4. Top.m \in Owing
  BY <1>1, NotSettled DEF IInv
<1> HIDE DEF f
<1>5. FrameInv(f)
  BY <1>1, <1>2, <1>4 DEF FrameInv, PastChecks, Unpersisted
<1> QED BY <1>1, <1>2, <1>3, <1>5, QuietMove DEF Proceed

(* The encryption takes the persisted position, and nothing older is owed:  *)
(* what was encrypted there before is the same write.                       *)
LEMMA EncryptFacts ==
    ASSUME SerializedPaths, TypeOK, IInv, Encrypt
    PROVE  /\ live = snap /\ Top.m \in Owing /\ Top.m \in Msg
           /\ \A y \in queue \ {Top.m} : stamp[Top.m] < stamp[y]
           /\ \A x \in wrote : x[1] = snap => x[2] = Top.m
<1>1. /\ ~Free /\ Top.ph = "drain2" /\ Top.todo = {} /\ live[1] = Top.pos[1]
      /\ Top \in FrameType /\ FrameInv(Top) /\ Top.m \in Msg
  BY TopType, TopFrame DEF Encrypt, Draining
<1>2. live = snap
  <2>1. live \in {NoPos, snap}
    BY <1>1, LinkIdle
  <2>2. Top.pos \in Pos /\ NoPos[1] = -1
    BY <1>1 DEF FrameType, NoPos
  <2>3. Top.pos[1] # -1
    BY <2>2, PosFacts
  <2> QED BY <1>1, <2>1, <2>2, <2>3
<1>3. Top.m \in Owing /\ Older(Top.m) = {}
  BY <1>1 DEF FrameInv, PastChecks
<1>4. \A y \in queue \ {Top.m} : stamp[Top.m] < stamp[y]
  <2> SUFFICES ASSUME NEW y \in queue, y # Top.m PROVE stamp[Top.m] < stamp[y]
    OBVIOUS
  <2>1. ~(stamp[y] < stamp[Top.m])
    BY <1>3 DEF Older
  <2>2. Known(y) /\ Known(Top.m) /\ y \in Msg
    BY <1>3, QueuedKnown, OwingKnown DEF IInv, TypeOK
  <2>3. stamp[y] # stamp[Top.m] /\ stamp[y] \in Nat /\ stamp[Top.m] \in Nat
    BY <1>1, <2>2 DEF IInv, IStamps, TypeOK
  <2> QED BY <2>1, <2>3
<1>5. \A x \in wrote : x[1] = snap => x[2] = Top.m
  <2> SUFFICES ASSUME NEW x \in wrote, x[1] = snap, x[2] # Top.m PROVE FALSE
    OBVIOUS
  <2>1. x[2] \in Owing /\ stamp[x[2]] < stamp[Top.m]
    BY <1>3 DEF IInv, IWrote
  <2>2. x[2] \in Older(Top.m)
    BY <2>1, OwingKnown DEF Older
  <2> QED BY <1>3, <2>2
<1> QED BY <1>1, <1>2, <1>3, <1>4, <1>5

LEMMA EncryptStep ==
    ASSUME SerializedPaths, TypeOK, IInv, Encrypt
    PROVE  IInv'
<1> USE DEF dbVars, timeVars, linkVars, passVars, laterVars, netVars
<1> DEFINE f == [Top EXCEPT !.ph = "putting", !.pos = live]
<1>1. /\ ~Free /\ Top.ph = "drain2" /\ Top.todo = {} /\ live[2] < MaxNonce
      /\ Top \in FrameType /\ FrameOK(Top) /\ FrameInv(Top)
      /\ wrote' = wrote \cup {<<live, Top.m>>}
      /\ snap \in Pos /\ snap[1] = epoch
  BY TopType, TopFrame DEF Encrypt, Draining, IInv, ILink
<1>2. /\ live = snap /\ Top.m \in Owing /\ Top.m \in Msg
      /\ \A y \in queue \ {Top.m} : stamp[Top.m] < stamp[y]
      /\ \A x \in wrote : x[1] = snap => x[2] = Top.m
  BY EncryptFacts
<1>3. /\ f \in FrameType /\ FrameOK(f) /\ f.k = Top.k /\ f.m = Top.m
      /\ f.todo = {} /\ f.ph = "putting" /\ f.pos = snap
  BY <1>1, <1>2 DEF FrameType, FrameOK
<1>4. stack' = Replace(stack, f)
  BY DEF Encrypt
<1> HIDE DEF f
<1>5. FrameInv(f)
  BY <1>1, <1>2, <1>3 DEF FrameInv, PastChecks, Unpersisted
<1>6. IFrames' /\ Top' = f /\ stack' # <<>>
  BY <1>1, <1>3, <1>4, <1>5, TopMoves DEF Encrypt
<1>7. IRows' /\ IStamps' /\ IWaiting' /\ Owing' = Owing
  BY DbKeep DEF Encrypt
<1>8. UNCHANGED <<snap, epoch, stamp, live>>
  BY DEF Encrypt
<1>9. ILink'
  BY <1>1, <1>2, <1>3, <1>6, <1>8 DEF ILink, Free
<1>10. IWrote'
  <2>1. \A x \in wrote : /\ x[1][1] <= epoch
                         /\ x[1][1] = epoch => x[1][2] <= snap[2]
                         /\ x[1] = snap => /\ x[2] \in Owing
                                           /\ \A y \in Owing \ {x[2]} : stamp[x[2]] < stamp[y]
    BY DEF IInv, IWrote
  <2>2. \A y \in Owing \ {Top.m} : stamp[Top.m] < stamp[y]
    BY <1>2, OwingKnown
  <2>3. snap[1] \in Nat /\ snap[2] \in Nat
    BY <1>1 DEF Pos
  <2>4. snap[1] <= epoch /\ snap[2] <= snap[2]
    BY <1>1, <2>3
  <2> DEFINE z == <<live, Top.m>>
  <2>5. z[1] = snap /\ z[2] = Top.m
    BY <1>2
  <2>6. wrote' = wrote \cup {z}
    BY <1>1
  <2> HIDE DEF z
  <2> QED BY <1>2, <1>7, <1>8, <2>1, <2>2, <2>4, <2>5, <2>6 DEF IWrote
<1>11. NonceOnce'
  <2> DEFINE z == <<live, Top.m>>
  <2>1. z[1] = snap /\ z[2] = Top.m
    BY <1>2
  <2>2. wrote' = wrote \cup {z}
    BY <1>1
  <2> HIDE DEF z
  <2> QED BY <1>2, <2>1, <2>2 DEF IInv, NonceOnce
<1> QED BY <1>6, <1>7, <1>9, <1>10, <1>11 DEF IInv

LEMMA PutOkStep ==
    ASSUME SerializedPaths, TypeOK, IInv, PutOk
    PROVE  IInv'
<1> USE DEF dbVars, timeVars, linkVars, passVars, laterVars, netVars
<1> DEFINE f == [Top EXCEPT !.ph = "fin", !.todo = {}]
<1>1. /\ ~Free /\ Top.ph = "putting" /\ Top \in FrameType /\ FrameOK(Top) /\ FrameInv(Top)
      /\ Top.pos = snap /\ <<snap, Top.m>> \in wrote /\ live \in {NoPos, snap}
      /\ snap \in Pos /\ snap[1] = epoch /\ snap # NoPos
  BY TopType, TopFrame, PosFacts DEF PutOk, IInv, ILink
<1>2. /\ f \in FrameType /\ FrameOK(f) /\ f.k = Top.k /\ f.m = Top.m
      /\ f.todo = {} /\ f.ph = "fin" /\ f.pos = Top.pos
  BY <1>1 DEF FrameType, FrameOK
<1>3. stack' = Replace(stack, f)
  BY DEF PutOk, To
<1> HIDE DEF f
<1>4. FrameInv(f)
  BY <1>1, <1>2 DEF FrameInv, PastChecks, Unpersisted
<1>5. IFrames' /\ Top' = f /\ stack' # <<>>
  BY <1>1, <1>2, <1>3, <1>4, TopMoves DEF PutOk
<1>6. IRows' /\ IStamps' /\ IWaiting' /\ Owing' = Owing
  BY DbKeep DEF PutOk
<1>7. IWrote' /\ NonceOnce'
  BY <1>6, WroteKeep DEF PutOk
<1>8. live' \in {NoPos, Next1(snap)}
  BY <1>1 DEF PutOk
<1>9. ILink'
  BY <1>1, <1>2, <1>5, <1>8 DEF ILink, Free, PutOk, Next1
<1> QED BY <1>5, <1>6, <1>7, <1>9 DEF IInv

-----------------------------------------------------------------------------
(* Steps that take the mutex.                                               *)
LEMMA StartKeep ==
    ASSUME TypeOK, IInv, Free, NEW f, stack' = <<f>>,
           f.k \in {"deliver", "send", "attempt"}, f.ph \notin {"putting", "fin"}, FrameInv(f),
           UNCHANGED <<row, queue, stamp, live, snap, epoch>>
    PROVE  IFrames' /\ ILink'
<1>1. DOMAIN stack' = {1} /\ stack'[1] = f /\ Len(stack') = 1
  OBVIOUS
<1>2. row' = row /\ stamp' = stamp /\ queue' = queue /\ Owing' = Owing
  BY DEF Owing
<1>3. FrameInv(stack[1])'
  BY <1>1, <1>2 DEF FrameInv, Known, Older, Unpersisted, PastChecks
<1>4. IFrames'
  BY <1>1, <1>3 DEF IFrames
<1>5. ILink'
  BY <1>1, LinkIdle DEF ILink, Free, Top
<1> QED BY <1>4, <1>5

LEMMA StartSteps ==
    ASSUME SerializedPaths, TypeOK, IInv, NEW m \in Msg,
           SendStart(m) \/ AttemptStart(m) \/ DeliverStart(m)
    PROVE  IInv'
<1> USE DEF dbVars, timeVars, linkVars, passVars, laterVars, netVars
<1>1. Free /\ UNCHANGED <<row, queue, stamp, clock, live, snap, epoch, wrote, healing>>
  BY DEF SendStart, AttemptStart, DeliverStart
<1>2. SameRows
  BY <1>1 DEF SameRows
<1>3. Owing' = Owing /\ IRows' /\ IStamps'
  BY <1>1, <1>2, SameRowsKeep DEF IInv, IRows, IStamps, Known
<1>4. IWrote' /\ NonceOnce'
  BY <1>1, <1>3, WroteKeep
<1>5. IWaiting'
  <2>1. \A y \in Msg : waiting'[y] > 0 \/ y \in pending' => waiting[y] > 0 \/ y \in pending
    BY DEF SendStart, AttemptStart, DeliverStart, TypeOK
  <2> QED BY <1>1, <2>1 DEF IInv, IWaiting, Known
<1>6. IFrames' /\ ILink'
  <2>1. CASE SendStart(m)
    <3> DEFINE f == Frame("send", m, "ensure", {})
    <3>1. f.k = "send" /\ f.m = m /\ f.ph = "ensure" /\ f.todo = {} /\ stack' = <<f>>
      BY <2>1 DEF Frame, SendStart
    <3> HIDE DEF f
    <3>2. FrameInv(f)
      BY <2>1, <3>1 DEF FrameInv, Known, Unpersisted, PastChecks, SendStart
    <3> QED BY <1>1, <3>1, <3>2, StartKeep
  <2>2. CASE AttemptStart(m)
    <3> DEFINE f == Frame("attempt", m, "ensure", {})
    <3>1. f.k = "attempt" /\ f.m = m /\ f.ph = "ensure" /\ f.todo = {} /\ stack' = <<f>>
      BY <2>2 DEF Frame, AttemptStart
    <3> HIDE DEF f
    <3>2. FrameInv(f)
      BY <2>2, <3>1 DEF FrameInv, Known, Unpersisted, PastChecks, AttemptStart
    <3> QED BY <1>1, <3>1, <3>2, StartKeep
  <2>3. CASE DeliverStart(m)
    <3> DEFINE f == Frame("deliver", m, "drain1", Older(m))
    <3>1. f.k = "deliver" /\ f.m = m /\ f.ph = "drain1" /\ f.todo = Older(m) /\ stack' = <<f>>
      BY <2>3 DEF Frame, DeliverStart
    <3> HIDE DEF f
    <3>2. Known(m)
      BY <2>3 DEF IInv, IWaiting, DeliverStart
    <3>3. FrameInv(f)
      BY <3>1, <3>2, OlderKnown DEF FrameInv, Unpersisted, PastChecks, IInv
    <3> QED BY <1>1, <3>1, <3>3, StartKeep
  <2> QED BY <2>1, <2>2, <2>3
<1> QED BY <1>3, <1>4, <1>5, <1>6 DEF IInv

-----------------------------------------------------------------------------
(* A nested delivery starts: its write is older than every one below.       *)
LEMMA DrainOlderStep ==
    ASSUME SerializedPaths, TypeOK, IInv, DrainOlder
    PROVE  IInv'
<1> USE DEF dbVars, timeVars, linkVars, passVars, laterVars, netVars
<1>1. PICK x \in Msg : /\ IsOldest(x, Top.todo)
                       /\ stack' = <<Frame("deliver", x, "drain1", Older(x))>> \o stack
  BY DEF DrainOlder
<1>2. /\ ~Free /\ Top.ph \in {"drain1", "drain2"} /\ FrameInv(Top) /\ Top.m \in Msg
      /\ \A i \in DOMAIN stack : i > 1 => stamp[Top.m] < stamp[stack[i].m]
  BY TopFrame DEF DrainOlder, Draining
<1>3. x \in Top.todo /\ Known(x) /\ stamp[x] < stamp[Top.m] /\ stamp \in [Msg -> Nat]
  BY <1>1, <1>2 DEF IsOldest, FrameInv, TypeOK
<1> DEFINE f == Frame("deliver", x, "drain1", Older(x))
<1>4. f.k = "deliver" /\ f.m = x /\ f.ph = "drain1" /\ f.todo = Older(x)
  BY DEF Frame
<1>5. f \in FrameType /\ FrameOK(f)
  <2>1. Older(x) \in SUBSET Msg
    BY DEF Older, TypeOK
  <2> QED BY <2>1, PosFacts, NoMsgIsNone DEF Frame, FrameType, FrameOK
<1>6. stack' = <<f>> \o stack
  BY <1>1
<1> HIDE DEF f
<1>7. /\ Len(stack) \in Nat /\ DOMAIN stack = 1 .. Len(stack) /\ Len(stack) >= 1
      /\ Len(stack') = Len(stack) + 1 /\ stack' \in Seq(FrameType)
      /\ stack'[1] = f
      /\ \A i \in 1 .. Len(stack) : stack'[i + 1] = stack[i]
  BY <1>2, <1>5, <1>6, StackType, PushTop DEF Free
<1>8. DOMAIN stack' = 1 .. Len(stack) + 1
  BY <1>7
<1>9. \A i \in 2 .. Len(stack) + 1 :
         /\ i - 1 \in 1 .. Len(stack) /\ stack'[i] = stack[i - 1]
         /\ stamp[x] < stamp[stack[i - 1].m]
         /\ stack[i - 1].ph \in {"drain1", "drain2"}
  <2> SUFFICES ASSUME NEW i \in 2 .. Len(stack) + 1
               PROVE  /\ i - 1 \in 1 .. Len(stack) /\ stack'[i] = stack[i - 1]
                      /\ stamp[x] < stamp[stack[i - 1].m]
                      /\ stack[i - 1].ph \in {"drain1", "drain2"}
    OBVIOUS
  <2> DEFINE j == i - 1
  <2>1. j \in 1 .. Len(stack) /\ i = j + 1 /\ (j = 1 \/ j > 1)
    BY <1>7
  <2> HIDE DEF j
  <2>2. stack'[i] = stack[j]
    BY <1>7, <2>1
  <2>3. stack[j] \in FrameType /\ stack[j].k # "reset" /\ FrameOK(stack[j])
    BY <1>7, <2>1, StackType DEF IInv, IFrames
  <2>4. stack[j].m \in Msg
    BY <2>3 DEF FrameType, FrameOK
  <2>5. stamp[x] < stamp[stack[j].m]
    <3>1. CASE j = 1
      BY <1>3, <3>1 DEF Top
    <3>2. CASE j > 1
      <4>1. stamp[Top.m] < stamp[stack[j].m]
        BY <1>2, <1>7, <2>1, <3>2
      <4>2. stamp[x] \in Nat /\ stamp[Top.m] \in Nat /\ stamp[stack[j].m] \in Nat
        BY <1>2, <1>3, <2>4
      <4> QED BY <1>3, <4>1, <4>2
    <3> QED BY <2>1, <3>1, <3>2
  <2>6. stack[j].ph \in {"drain1", "drain2"}
    BY <1>2, <1>7, <2>1 DEF Top, IInv, IFrames
  <2> QED BY <2>1, <2>2, <2>5, <2>6 DEF j
<1>10. /\ row' = row /\ queue' = queue /\ stamp' = stamp /\ Owing' = Owing
       /\ UNCHANGED <<clock, waiting, pending, healing, live, snap, epoch, wrote>>
  BY DEF DrainOlder, Owing
<1>11. FrameInv(f)
  BY <1>3, <1>4, OlderKnown DEF FrameInv, Unpersisted, PastChecks, IInv
<1>12. IFrames'
  <2> SUFFICES ASSUME NEW i \in 1 .. Len(stack) + 1
               PROVE  /\ stack'[i].k = "deliver"
                         \/ (i = Len(stack) + 1 /\ stack'[i].k \in {"send", "attempt"})
                      /\ i > 1 => stack'[i].ph \in {"drain1", "drain2"}
                      /\ FrameInv(stack[i])'
                      /\ \A j \in 1 .. Len(stack) + 1 :
                            j < i => stamp'[stack'[j].m] < stamp'[stack'[i].m]
    BY <1>7, <1>8 DEF IFrames
  <2>1. CASE i = 1
    <3>1. FrameInv(stack[i])'
      BY <2>1, <1>7, <1>10, <1>11 DEF FrameInv, Known, Older, Unpersisted, PastChecks
    <3> QED BY <2>1, <3>1, <1>4, <1>7
  <2>2. CASE i # 1
    <3>1. i \in 2 .. Len(stack) + 1
      BY <2>2
    <3>2. /\ i - 1 \in 1 .. Len(stack) /\ stack'[i] = stack[i - 1]
          /\ stamp[x] < stamp[stack[i - 1].m] /\ stack[i - 1].ph \in {"drain1", "drain2"}
      BY <3>1, <1>9
    <3>3. FrameInv(stack[i - 1])
      BY <3>2, <1>7 DEF IInv, IFrames
    <3>4. FrameInv(stack[i])'
      BY <3>2, <3>3, <1>10 DEF FrameInv, Known, Older, Unpersisted, PastChecks
    <3>5. stack'[i].k = "deliver" \/ (i = Len(stack) + 1 /\ stack'[i].k \in {"send", "attempt"})
      BY <3>1, <3>2, <1>7 DEF IInv, IFrames
    <3>6. \A j \in 1 .. Len(stack) + 1 : j < i => stamp'[stack'[j].m] < stamp'[stack'[i].m]
      <4> SUFFICES ASSUME NEW j \in 1 .. Len(stack) + 1, j < i
                   PROVE  stamp[stack'[j].m] < stamp[stack'[i].m]
        BY <1>10
      <4>1. CASE j = 1
        BY <4>1, <3>2, <1>4, <1>7
      <4>2. CASE j # 1
        <5>1. j \in 2 .. Len(stack) + 1 /\ j - 1 < i - 1 /\ j - 1 \in 1 .. Len(stack)
          BY <4>2, <3>1, <1>7
        <5>2. stack'[j] = stack[j - 1]
          BY <5>1, <1>9
        <5>3. stamp[stack[j - 1].m] < stamp[stack[i - 1].m]
          BY <5>1, <3>2, <1>7 DEF IInv, IFrames
        <5> QED BY <5>2, <5>3, <3>2
      <4> QED BY <4>1, <4>2
    <3> QED BY <3>2, <3>4, <3>5, <3>6
  <2> QED BY <2>1, <2>2
<1>13. IRows' /\ IStamps' /\ IWaiting'
  BY <1>10, DbKeep
<1>14. IWrote' /\ NonceOnce'
  BY <1>10, WroteKeep
<1>15. ILink'
  <2>1. ~Free' /\ Top' = f
    BY <1>7 DEF Free, Top
  <2>2. live \in {NoPos, snap} /\ snap \in Pos /\ snap[1] = epoch
    BY <1>2, LinkIdle
  <2> QED BY <2>1, <2>2, <1>4, <1>10 DEF ILink
<1> QED BY <1>12, <1>13, <1>14, <1>15 DEF IInv

-----------------------------------------------------------------------------
(* A delivery ends and its item leaves the queue: those below go on.        *)
LEMMA PopKeep ==
    ASSUME TypeOK, IInv, ~Free, Pop(Top.m),
           queue' = queue \ {Top.m}, stamp' = stamp,
           \A m \in Msg : m # Top.m => row'[m] = row[m],
           row'[Top.m] # "none"
    PROVE  /\ IFrames'
           /\ ~Free' => Top'.ph \in {"drain1", "drain2"}
<1>1. CASE Len(stack) = 1
  BY <1>1 DEF Pop, IFrames, Free
<1>2. CASE Len(stack) # 1
  <2> DEFINE t == stack'
  <2>1. /\ t = Replace(Tail(stack), [stack[2] EXCEPT !.todo = @ \ {Top.m}])
        /\ Len(stack) \in Nat /\ DOMAIN stack = 1 .. Len(stack)
    BY <1>2, StackType DEF Pop
  <2>2. /\ Len(stack) >= 2 /\ Len(t) = Len(stack) - 1 /\ DOMAIN t = 1 .. Len(stack) - 1
        /\ t \in Seq(FrameType)
        /\ t[1] = [stack[2] EXCEPT !.todo = @ \ {Top.m}]
        /\ \A i \in 2 .. Len(stack) - 1 : t[i] = stack[i + 1]
    BY <1>2, <2>1, PopTop
  <2>0. Len(stack) \in Nat /\ Len(stack) >= 2 /\ DOMAIN stack = 1 .. Len(stack)
    BY <2>1, <2>2
  <2>3. stack[2] \in FrameType /\ 2 \in DOMAIN stack
    BY <2>0, StackType
  <2>4. /\ t[1].k = stack[2].k /\ t[1].m = stack[2].m /\ t[1].ph = stack[2].ph
        /\ t[1].todo = stack[2].todo \ {Top.m}
    BY <2>2, <2>3 DEF FrameType
  <2> HIDE DEF t
  <2>5. \A i \in 1 .. Len(stack) - 1 :
           /\ i + 1 \in DOMAIN stack /\ i + 1 > 1
           /\ t[i].k = stack[i + 1].k /\ t[i].m = stack[i + 1].m /\ t[i].ph = stack[i + 1].ph
           /\ t[i].todo \subseteq stack[i + 1].todo
           /\ Top.m \in t[i].todo => i # 1
           /\ stack[i + 1].todo \ {Top.m} \subseteq t[i].todo
    <3> SUFFICES ASSUME NEW i \in 1 .. Len(stack) - 1
                 PROVE  /\ i + 1 \in DOMAIN stack /\ i + 1 > 1
                        /\ t[i].k = stack[i + 1].k /\ t[i].m = stack[i + 1].m
                        /\ t[i].ph = stack[i + 1].ph
                        /\ t[i].todo \subseteq stack[i + 1].todo
                        /\ Top.m \in t[i].todo => i # 1
                        /\ stack[i + 1].todo \ {Top.m} \subseteq t[i].todo
      OBVIOUS
    <3>1. i + 1 \in DOMAIN stack /\ i + 1 > 1
      BY <2>0
    <3>2. CASE i = 1
      BY <3>1, <3>2, <2>4
    <3>3. CASE i # 1
      <4>1. i \in 2 .. Len(stack) - 1
        BY <3>3, <2>2
      <4> QED BY <3>1, <3>3, <4>1, <2>2
    <3> QED BY <3>2, <3>3
  <2>6. \A i \in 1 .. Len(stack) - 1 :
           /\ t[i].m \in Msg /\ t[i].m # Top.m
           /\ t[i].ph \in {"drain1", "drain2"}
           /\ FrameInv(stack[i + 1])
    <3> SUFFICES ASSUME NEW i \in 1 .. Len(stack) - 1
                 PROVE  /\ t[i].m \in Msg /\ t[i].m # Top.m
                        /\ t[i].ph \in {"drain1", "drain2"}
                        /\ FrameInv(stack[i + 1])
      OBVIOUS
    <3>1. /\ i + 1 \in DOMAIN stack /\ i + 1 > 1
          /\ t[i].m = stack[i + 1].m /\ t[i].ph = stack[i + 1].ph
      BY <2>5
    <3>2. /\ FrameInv(stack[i + 1]) /\ stack[i + 1].ph \in {"drain1", "drain2"}
          /\ stack[i + 1].k \in {"deliver", "send", "attempt"}
      BY <3>1 DEF IInv, IFrames
    <3>3. stamp[Top.m] < stamp[stack[i + 1].m] /\ Top.m \in Msg
      BY <3>1, TopFrame
    <3>4. stack[i + 1] \in FrameType /\ FrameOK(stack[i + 1])
      BY <3>1, <2>1, StackType
    <3>5. stack[i + 1].m \in Msg
      BY <3>2, <3>4 DEF FrameType, FrameOK
    <3>6. stack[i + 1].m # Top.m
      BY <3>3 DEF TypeOK
    <3> QED BY <3>1, <3>2, <3>5, <3>6
  <2>7. \A y \in Msg : Known(y) => Known(y)'
    BY DEF Known
  <2>8. \A y \in Msg : y # Top.m => (Known(y)' <=> Known(y))
    BY DEF Known
  <2>9. Owing \ {Top.m} \subseteq Owing' /\ queue \subseteq Msg
    BY DEF Owing, TypeOK
  <2>10. \A m : \A y \in queue' : stamp'[y] < stamp'[m] => y \in Older(m) \ {Top.m}
    BY DEF Older
  <2>11. \A i \in 1 .. Len(stack) - 1 : FrameInv(stack[i])'
    <3> SUFFICES ASSUME NEW i \in 1 .. Len(stack) - 1 PROVE FrameInv(stack[i])'
      OBVIOUS
    <3>0. FrameInv(stack[i + 1])
      BY <2>6
    <3>1. PICK g : g = t[i]
      OBVIOUS
    <3>2. /\ g.k = stack[i + 1].k /\ g.m = stack[i + 1].m /\ g.ph = stack[i + 1].ph
          /\ g.todo \subseteq stack[i + 1].todo
          /\ stack[i + 1].todo \ {Top.m} \subseteq g.todo
          /\ g.m \in Msg /\ g.m # Top.m
      BY <2>5, <2>6, <3>1
    <3>3. g \in FrameType /\ g.todo \subseteq Msg
      <4>1. g \in FrameType
        BY <2>0, <2>2, <3>1
      <4> QED BY <4>1 DEF FrameType
    <3>4. row'[g.m] # "none" <=> ~Unpersisted(g)
      BY <3>0, <3>2 DEF FrameInv, Unpersisted, Known
    <3>5. PastChecks(g) => g.m \in Owing'
      BY <2>9, <3>0, <3>2 DEF FrameInv, PastChecks
    <3>6. \A y \in g.todo : row'[y] # "none" /\ stamp'[y] < stamp'[g.m]
      BY <2>7, <3>0, <3>2, <3>3 DEF FrameInv, Known
    <3>7. g.ph = "drain2" => \A y \in queue' : stamp'[y] < stamp'[g.m] => y \in g.todo
      BY <2>10, <3>0, <3>2 DEF FrameInv
    <3>8. stack'[i] = g
      BY <3>1 DEF t
    <3> QED BY <3>4, <3>5, <3>6, <3>7, <3>8
            DEF FrameInv, Known, Older, Unpersisted, PastChecks
  <2>12. \A i, j \in 1 .. Len(stack) - 1 : j < i => stamp'[t[j].m] < stamp'[t[i].m]
    <3> SUFFICES ASSUME NEW i \in 1 .. Len(stack) - 1, NEW j \in 1 .. Len(stack) - 1, j < i
                 PROVE  stamp[t[j].m] < stamp[t[i].m]
      OBVIOUS
    <3>1. i + 1 \in DOMAIN stack /\ j + 1 \in DOMAIN stack /\ j + 1 < i + 1
      BY <2>5
    <3>2. stamp[stack[j + 1].m] < stamp[stack[i + 1].m]
      BY <3>1 DEF IInv, IFrames
    <3> QED BY <3>2, <2>5
  <2>13. \A i \in 1 .. Len(stack) - 1 :
            t[i].k = "deliver" \/ (i = Len(stack) - 1 /\ t[i].k \in {"send", "attempt"})
    <3> SUFFICES ASSUME NEW i \in 1 .. Len(stack) - 1
                 PROVE  t[i].k = "deliver" \/ (i = Len(stack) - 1 /\ t[i].k \in {"send", "attempt"})
      OBVIOUS
    <3>1. i + 1 \in DOMAIN stack /\ t[i].k = stack[i + 1].k
      BY <2>5
    <3>2. stack[i + 1].k = "deliver"
          \/ (i + 1 = Len(stack) /\ stack[i + 1].k \in {"send", "attempt"})
      BY <3>1 DEF IInv, IFrames
    <3> QED BY <3>1, <3>2, <2>1
  <2>14. IFrames'
    BY <2>2, <2>6, <2>11, <2>12, <2>13 DEF IFrames, t
  <2>15. Top'.ph \in {"drain1", "drain2"}
    <3>1. 1 \in 1 .. Len(stack) - 1
      BY <2>0
    <3> QED BY <3>1, <2>6 DEF Top, t
  <2> QED BY <2>14, <2>15
<1> QED BY <1>1, <1>2

LEMMA SettleStep ==
    ASSUME SerializedPaths, TypeOK, IInv, Settle
    PROVE  IInv'
<1> USE DEF dbVars, timeVars, linkVars, passVars, laterVars, netVars
<1>1. /\ ~Free /\ Top.ph = "drain1" /\ Top.k = "deliver" /\ Settled(Top.m)
      /\ Top.m \in Msg /\ FrameInv(Top)
  BY TopFrame DEF Settle, Checking, Draining
<1>2. Top.m \notin Owing
  BY <1>1, NotSettled DEF IInv
<1>3. /\ row' = row /\ stamp' = stamp /\ clock' = clock /\ queue' = queue \ {Top.m}
      /\ UNCHANGED <<waiting, pending, healing, live, snap, epoch, wrote>> /\ Pop(Top.m)
  BY DEF Settle
<1>4. row[Top.m] # "none"
  BY <1>1 DEF FrameInv, Known, Unpersisted
<1>5. IFrames' /\ (~Free' => Top'.ph \in {"drain1", "drain2"})
  BY <1>1, <1>3, <1>4, PopKeep
<1>6. Owing' = Owing
  BY <1>2, <1>3 DEF Owing
<1>7. IRows'
  <2>1. \A y \in Dms : row[y] \in {"sending", "failed"} => y \in Owing
    BY DEF IInv, IRows, Owing
  <2>2. Owing \subseteq queue'
    BY <1>2, <1>3, OwingKnown
  <2> QED BY <1>3, <1>6, <2>1, <2>2 DEF IInv, IRows
<1>8. IStamps' /\ IWaiting'
  BY <1>3 DEF IInv, IStamps, IWaiting, Known
<1>9. IWrote' /\ NonceOnce'
  BY <1>3, <1>6, WroteKeep
<1>10. ILink'
  BY <1>1, <1>3, <1>5, LinkIdle DEF ILink
<1> QED BY <1>5, <1>7, <1>8, <1>9, <1>10 DEF IInv

LEMMA FinalizeStep ==
    ASSUME SerializedPaths, TypeOK, IInv, TypeOK', Finalize
    PROVE  IInv'
<1> USE DEF dbVars, timeVars, linkVars, passVars, laterVars, netVars
<1>1. /\ ~Free /\ Top.ph = "fin" /\ Top.m \in Msg /\ FrameInv(Top) /\ Top.pos = snap
      /\ snap \in Pos /\ snap # NoPos /\ snap[1] = epoch /\ live \in {NoPos, Next1(snap)}
  BY TopFrame, PosFacts DEF Finalize, IInv, ILink
<1>2. Top.m \in Owing /\ Known(Top.m)
  BY <1>1 DEF FrameInv, PastChecks, Owing, Known
<1>3. /\ stamp' = stamp /\ clock' = clock /\ queue' = queue \ {Top.m}
      /\ UNCHANGED <<waiting, pending, healing, live, epoch, wrote>> /\ Pop(Top.m)
      /\ snap' = Next1(snap)
  BY <1>1 DEF Finalize, Checkpoint
<1>4. /\ row' = row \/ row' = [row EXCEPT ![Top.m] = "sent"]
      /\ Top.m \in Dms => row' = [row EXCEPT ![Top.m] = "sent"]
  BY DEF Finalize
<1>5. /\ \A y \in Msg : y # Top.m => row'[y] = row[y]
      /\ row'[Top.m] \in {row[Top.m], "sent"} /\ row'[Top.m] # "none"
      /\ Top.m \in Dms => row'[Top.m] = "sent"
  BY <1>1, <1>2, <1>4 DEF TypeOK, Known
<1>6. IFrames' /\ (~Free' => Top'.ph \in {"drain1", "drain2"})
  BY <1>1, <1>3, <1>5, PopKeep
<1>7. queue \subseteq Msg /\ healing \subseteq Dms
  BY DEF TypeOK
<1>8. IRows'
  <2>1. queue' \ Owing' \subseteq {y \in Dms : row'[y] = "sent"}
    BY <1>3, <1>5, <1>7 DEF IInv, IRows, Owing
  <2>2. \A y \in Dms : row'[y] \in {"sending", "failed"} => y \in queue'
    BY <1>3, <1>5, Serialized DEF IInv, IRows
  <2>3. \A y \in healing' : row'[y] \in {"sending", "failed", "sent"}
    BY <1>3, <1>5, <1>7, Serialized DEF IInv, IRows
  <2> QED BY <2>1, <2>2, <2>3 DEF IRows
<1>9. \A y \in Msg : Known(y)' <=> Known(y)
  BY <1>2, <1>5 DEF Known
<1>10. IStamps' /\ IWaiting'
  BY <1>3, <1>9 DEF IInv, IStamps, IWaiting
<1>11. IWrote' /\ NonceOnce'
  <2>1. snap[1] \in Nat /\ snap[2] \in Nat /\ snap'[1] = snap[1] /\ snap'[2] = snap[2] + 1
    BY <1>1, <1>3 DEF Pos, Next1
  <2>2. wrote \subseteq Pos \X Msg
    BY DEF TypeOK
  <2>3. \A x \in wrote : x[1][2] \in Nat
    BY <2>2 DEF Pos
  <2>4. \A x \in wrote : /\ x[1][1] <= epoch
                         /\ x[1][1] = epoch => x[1][2] < snap'[2]
                         /\ x[1] # snap'
    BY <1>1, <2>1, <2>3 DEF IInv, IWrote
  <2> QED BY <1>3, <2>1, <2>3, <2>4 DEF IWrote, IInv, NonceOnce
<1>12. ILink'
  <2>1. snap' \in Pos
    BY <1>1, <1>3, PosFacts, TopType DEF FrameOK
  <2>2. snap'[1] = epoch'
    BY <1>1, <1>3 DEF Next1
  <2> QED BY <1>1, <1>3, <1>6, <2>1, <2>2 DEF ILink
<1> QED BY <1>6, <1>8, <1>10, <1>11, <1>12 DEF IInv

-----------------------------------------------------------------------------
(* Steps that queue a new write: it is the youngest.                        *)
Queues(m) ==
    /\ ~Known(m)
    /\ row' = [row EXCEPT ![m] = "sending"]
    /\ Insert(m)
    /\ UNCHANGED <<healing, waiting, wrote>>
    /\ pending' \subseteq pending \cup {m}

LEMMA InsertKeep ==
    ASSUME TypeOK, IInv, NEW m \in Msg, Queues(m)
    PROVE  /\ IRows' /\ IStamps' /\ IWaiting'
           /\ Owing' = Owing \cup {m} /\ m \notin queue /\ queue' = queue \cup {m}
           /\ \A y \in Msg : Known(y) => /\ stamp'[y] = stamp[y] /\ stamp[y] < clock /\ y # m
           /\ \A y \in Msg : Known(y)' <=> Known(y) \/ y = m
           /\ stamp'[m] = clock
<1>1. /\ row \in [Msg -> RowStates] /\ stamp \in [Msg -> Nat] /\ clock \in Nat
      /\ queue \subseteq Msg /\ healing \subseteq Dms /\ Dms \subseteq Msg
  BY DEF TypeOK, Msg
<1>2. /\ row[m] = "none" /\ row' = [row EXCEPT ![m] = "sending"]
      /\ queue' = queue \cup {m} /\ stamp' = [stamp EXCEPT ![m] = clock] /\ clock' = clock + 1
      /\ healing' = healing /\ waiting' = waiting /\ pending' \subseteq pending \cup {m}
  BY DEF Queues, Insert, Known
<1>3. m \notin queue /\ m \notin healing
  BY <1>2, QueuedKnown DEF IInv, IRows, Known
<1>4. /\ row'[m] = "sending" /\ stamp'[m] = clock
      /\ \A y \in Msg : y # m => row'[y] = row[y] /\ stamp'[y] = stamp[y]
  BY <1>1, <1>2
<1>5. Owing' = Owing \cup {m}
  BY <1>1, <1>2, <1>3, <1>4 DEF Owing
<1>6. \A y \in Msg : Known(y) => /\ stamp'[y] = stamp[y] /\ stamp[y] < clock /\ y # m
  BY <1>2, <1>4 DEF IInv, IStamps, Known
<1>7. \A y \in Msg : Known(y)' <=> Known(y) \/ y = m
  BY <1>4 DEF Known
<1>8. IRows'
  <2>1. queue' \ Owing' \subseteq {y \in Dms : row'[y] = "sent"}
    BY <1>1, <1>2, <1>3, <1>4, <1>5 DEF IInv, IRows
  <2>2. \A y \in Dms : row'[y] \in {"sending", "failed"} => y \in queue'
    BY <1>1, <1>2, <1>4 DEF IInv, IRows
  <2>3. \A y \in healing' : row'[y] \in {"sending", "failed", "sent"}
    BY <1>1, <1>2, <1>3, <1>4 DEF IInv, IRows
  <2> QED BY <2>1, <2>2, <2>3 DEF IRows
<1>9. IStamps'
  <2>1. \A y \in Msg : Known(y)' => stamp'[y] < clock'
    BY <1>1, <1>2, <1>4, <1>6, <1>7
  <2>2. \A x, y \in Msg : Known(x)' /\ Known(y)' /\ stamp'[x] = stamp'[y] => x = y
    <3> SUFFICES ASSUME NEW x \in Msg, NEW y \in Msg, Known(x)', Known(y)', stamp'[x] = stamp'[y]
                 PROVE  x = y
      OBVIOUS
    <3>1. CASE Known(x) /\ Known(y)
      BY <3>1, <1>6 DEF IInv, IStamps
    <3>2. CASE Known(x) /\ y = m
      BY <3>2, <1>1, <1>4, <1>6
    <3>3. CASE x = m /\ Known(y)
      BY <3>3, <1>1, <1>4, <1>6
    <3> QED BY <1>7, <3>1, <3>2, <3>3
  <2> QED BY <2>1, <2>2 DEF IStamps
<1>10. IWaiting'
  BY <1>2, <1>7 DEF IInv, IWaiting
<1> QED BY <1>2, <1>3, <1>4, <1>5, <1>6, <1>7, <1>8, <1>9, <1>10

LEMMA InsertWrote ==
    ASSUME TypeOK, IInv, NEW m \in Msg, Queues(m), UNCHANGED <<epoch, snap>>
    PROVE  IWrote' /\ NonceOnce'
<1>1. /\ Owing' = Owing \cup {m}
      /\ \A y \in Msg : Known(y) => stamp'[y] = stamp[y] /\ stamp[y] < clock /\ y # m
      /\ stamp'[m] = clock
  BY InsertKeep
<1>2. \A y \in Owing : stamp'[y] = stamp[y] /\ stamp[y] < clock
  BY <1>1, OwingKnown DEF TypeOK
<1>3. wrote' = wrote
  BY DEF Queues
<1>4. IWrote'
  <2> SUFFICES ASSUME NEW x \in wrote
               PROVE  /\ x[1][1] <= epoch
                      /\ x[1][1] = epoch => x[1][2] <= snap[2]
                      /\ x[1] = snap => /\ x[2] \in Owing'
                                        /\ \A y \in Owing' \ {x[2]} : stamp'[x[2]] < stamp'[y]
    BY <1>3 DEF IWrote
  <2> QED BY <1>1, <1>2 DEF IInv, IWrote
<1> QED BY <1>3, <1>4 DEF IInv, NonceOnce

LEMMA SendEnsureStep ==
    ASSUME SerializedPaths, TypeOK, IInv, SendEnsure
    PROVE  IInv'
<1> USE DEF dbVars, timeVars, linkVars, passVars, laterVars, netVars
<1>1. /\ ~Free /\ Top.k = "send" /\ Top.ph = "ensure" /\ Top.m \in Msg
      /\ Top \in FrameType /\ FrameOK(Top) /\ FrameInv(Top)
  BY TopType, TopFrame DEF SendEnsure
<1>2. /\ live \in {NoPos, snap} /\ snap \in Pos /\ snap[1] = epoch
      /\ ~Known(Top.m)
  BY <1>1, LinkIdle DEF FrameInv, Unpersisted
<1>3. CASE stack' = <<>> /\ UNCHANGED <<row, queue, snap, stamp, clock, linkVars>>
  <2>1. SameRows
    BY <1>3 DEF SameRows
  <2> QED BY <1>2, <1>3, <2>1, EmptyKeep DEF SendEnsure
<1>4. CASE /\ row' = [row EXCEPT ![Top.m] = "sending"] /\ Insert(Top.m)
           /\ stack' = <<>> /\ UNCHANGED <<snap, linkVars>>
  <2>1. Queues(Top.m)
    BY <1>2, <1>4 DEF Queues, SendEnsure
  <2>2. IRows' /\ IStamps' /\ IWaiting'
    BY <1>1, <2>1, InsertKeep
  <2>3. IWrote' /\ NonceOnce'
    BY <1>1, <1>4, <2>1, InsertWrote
  <2>4. IFrames' /\ ILink'
    BY <1>2, <1>4 DEF IFrames, ILink, Free
  <2> QED BY <2>2, <2>3, <2>4 DEF IInv
<1>5. CASE LinkReady /\ stack' = To("persist", {}) /\ UNCHANGED <<row, queue, stamp, clock>>
  <2> DEFINE f == [Top EXCEPT !.ph = "persist", !.todo = {}]
  <2>1. /\ f \in FrameType /\ FrameOK(f) /\ f.k = Top.k /\ f.m = Top.m
        /\ f.todo = {} /\ f.ph = "persist"
    BY <1>1 DEF FrameType, FrameOK
  <2>2. stack' = Replace(stack, f)
    BY <1>5 DEF To
  <2> HIDE DEF f
  <2>3. FrameInv(f)
    BY <1>1, <1>2, <2>1 DEF FrameInv, PastChecks, Unpersisted
  <2>4. IFrames' /\ Top' = f /\ stack' # <<>>
    BY <1>1, <1>5, <2>1, <2>2, <2>3, TopMoves
  <2>5. UNCHANGED <<waiting, pending, healing, wrote>>
    BY DEF SendEnsure
  <2>6. IRows' /\ IStamps' /\ IWaiting' /\ Owing' = Owing
    BY <1>5, <2>5, DbKeep
  <2>7. live' = snap' /\ snap' \in Pos /\ snap'[1] = epoch' /\ IWrote' /\ NonceOnce'
    BY <1>1, <1>5, <2>5, <2>6, LinkReadyKeep
  <2>8. ILink'
    BY <2>1, <2>4, <2>7 DEF ILink, Free
  <2> QED BY <2>4, <2>6, <2>7, <2>8 DEF IInv
<1> QED BY <1>3, <1>4, <1>5 DEF SendEnsure

LEMMA SendPersistStep ==
    ASSUME SerializedPaths, TypeOK, IInv, SendPersist
    PROVE  IInv'
<1> USE DEF dbVars, timeVars, linkVars, passVars, laterVars, netVars
<1>1. /\ ~Free /\ Top.ph = "persist" /\ Top.k = "send" /\ Top.m \in Msg /\ Len(stack) = 1
      /\ Top \in FrameType /\ FrameOK(Top) /\ FrameInv(Top)
  BY TopType, TopFrame DEF SendPersist, FrameOK
<1>2. /\ live \in {NoPos, snap} /\ snap \in Pos /\ snap[1] = epoch
      /\ ~Known(Top.m)
  BY <1>1, LinkIdle DEF FrameInv, Unpersisted
<1>3. Queues(Top.m)
  BY <1>2 DEF Queues, SendPersist
<1>4. /\ IRows' /\ IStamps' /\ IWaiting'
      /\ Owing' = Owing \cup {Top.m}
      /\ \A y \in Msg : Known(y) => /\ stamp'[y] = stamp[y] /\ stamp[y] < clock /\ y # Top.m
      /\ \A y \in Msg : Known(y)' <=> Known(y) \/ y = Top.m
      /\ stamp'[Top.m] = clock
  BY <1>1, <1>3, InsertKeep
<1>5. IWrote' /\ NonceOnce'
  BY <1>1, <1>3, InsertWrote DEF SendPersist
<1> DEFINE f == [Top EXCEPT !.ph = "drain1", !.todo = queue]
<1>6. queue \in SUBSET Msg
  BY DEF TypeOK
<1>7. /\ f \in FrameType /\ FrameOK(f) /\ f.k = "send" /\ f.m = Top.m
      /\ f.todo = queue /\ f.ph = "drain1"
  BY <1>1, <1>6 DEF FrameType, FrameOK
<1>8. stack' = Replace(stack, f)
  BY DEF SendPersist, To
<1> HIDE DEF f
<1>9. /\ DOMAIN stack' = {1} /\ stack'[1] = f /\ Len(stack') = 1 /\ stack' # <<>>
  BY <1>1, <1>7, <1>8, ReplaceTop
<1>10. FrameInv(stack[1])'
  <2>1. \A y \in queue : y \in Msg /\ Known(y)
    BY <1>6, QueuedKnown DEF IInv
  <2>2. f.m \in Owing'
    BY <1>1, <1>4, <1>7
  <2>3. row'[f.m] # "none"
    BY <1>2, <1>1, <1>7 DEF SendPersist, TypeOK
  <2>4. \A y \in f.todo : row'[y] # "none" /\ stamp'[y] < stamp'[f.m]
    BY <1>4, <1>7, <2>1 DEF Known
  <2> QED BY <1>4, <1>7, <1>9, <2>2, <2>3, <2>4 DEF FrameInv, Unpersisted, PastChecks, Known
<1>11. IFrames'
  BY <1>7, <1>9, <1>10 DEF IFrames
<1>12. ILink'
  <2>1. UNCHANGED <<live, snap, epoch>>
    BY DEF SendPersist
  <2>2. Top' = f
    BY <1>9 DEF Top
  <2> QED BY <1>2, <1>7, <2>1, <2>2 DEF ILink
<1> QED BY <1>4, <1>5, <1>11, <1>12 DEF IInv

LEMMA FanoutPersistStep ==
    ASSUME SerializedPaths, TypeOK, IInv, NEW m \in Msg, FanoutPersist(m)
    PROVE  IInv'
<1> USE DEF dbVars, timeVars, linkVars, passVars, laterVars, netVars
<1>1. Queues(m) /\ m \in Fanouts /\ ~Known(m)
  BY DEF FanoutPersist, Queues, Known
<1>2. /\ IRows' /\ IStamps' /\ IWaiting'
      /\ Owing' = Owing \cup {m} /\ queue' = queue \cup {m}
      /\ \A y \in Msg : Known(y) => /\ stamp'[y] = stamp[y] /\ stamp[y] < clock /\ y # m
      /\ \A y \in Msg : Known(y)' <=> Known(y) \/ y = m
      /\ stamp'[m] = clock
  BY <1>1, InsertKeep
<1>3. IWrote' /\ NonceOnce'
  BY <1>1, InsertWrote DEF FanoutPersist
<1>4. stack' = stack /\ UNCHANGED <<live, snap, epoch, wrote>>
  BY DEF FanoutPersist
<1>5. \A i \in DOMAIN stack : stack[i] \in FrameType /\ stack[i].m \in Msg /\ stack[i].m # m
  <2> SUFFICES ASSUME NEW i \in DOMAIN stack
               PROVE  stack[i] \in FrameType /\ stack[i].m \in Msg /\ stack[i].m # m
    OBVIOUS
  <2>1. /\ stack[i] \in FrameType /\ FrameOK(stack[i]) /\ stack[i].k # "reset" /\ FrameInv(stack[i])
    BY StackType DEF IInv, IFrames
  <2>2. stack[i].m \in Msg
    BY <2>1 DEF FrameType, FrameOK
  <2>3. CASE Unpersisted(stack[i])
    BY <2>1, <2>2, <2>3, <1>1, Serialized DEF Unpersisted, FrameOK
  <2>4. CASE ~Unpersisted(stack[i])
    BY <2>1, <2>2, <2>4, <1>1 DEF FrameInv
  <2> QED BY <2>1, <2>2, <2>3, <2>4
<1>6. \A y \in Msg : y # m => stamp'[y] = stamp[y]
  BY DEF FanoutPersist, Insert, TypeOK
<1>7. \A i \in DOMAIN stack : FrameInv(stack[i])'
  <2> SUFFICES ASSUME NEW i \in DOMAIN stack PROVE FrameInv(stack[i])'
    OBVIOUS
  <2>1. PICK g : g = stack[i]
    OBVIOUS
  <2>2. g \in FrameType /\ g.m \in Msg /\ g.m # m /\ FrameInv(g)
    BY <2>1, <1>5 DEF IInv, IFrames
  <2>3. g.todo \subseteq Msg
    BY <2>2 DEF FrameType
  <2>4. row'[g.m] # "none" <=> ~Unpersisted(g)
    BY <1>2, <2>2 DEF FrameInv, Known
  <2>5. PastChecks(g) => g.m \in Owing'
    BY <1>2, <2>2 DEF FrameInv
  <2>6. stamp'[g.m] = stamp[g.m]
    BY <1>6, <2>2
  <2>7. \A y \in g.todo : row'[y] # "none" /\ stamp'[y] < stamp'[g.m]
    BY <1>2, <2>2, <2>3, <2>6 DEF FrameInv, Known
  <2>8. g.ph = "drain2" => \A y \in queue' : stamp'[y] < stamp'[g.m] => y \in g.todo
    <3> SUFFICES ASSUME g.ph = "drain2", NEW y \in queue', stamp'[y] < stamp'[g.m]
                 PROVE  y \in g.todo
      OBVIOUS
    <3>1. Known(g.m)
      BY <2>2 DEF FrameInv, Unpersisted
    <3>2. CASE y = m
      <4>1. stamp'[y] = clock /\ stamp'[g.m] < clock
        BY <1>2, <2>2, <2>6, <3>1, <3>2
      <4>2. clock \in Nat /\ stamp'[g.m] \in Nat
        BY <2>2, <2>6 DEF TypeOK
      <4> QED BY <4>1, <4>2
    <3>3. CASE y # m
      <4>1. y \in queue /\ y \in Msg
        BY <1>2, <3>3 DEF TypeOK
      <4>2. y \in Older(g.m)
        BY <1>6, <2>6, <3>3, <4>1 DEF Older
      <4> QED BY <2>2, <4>2 DEF FrameInv
    <3> QED BY <3>2, <3>3
  <2> QED BY <1>4, <2>1, <2>4, <2>5, <2>7, <2>8 DEF FrameInv, Known, Older, Unpersisted, PastChecks
<1>8. IFrames'
  <2>1. \A i, j \in DOMAIN stack : j < i => stamp'[stack[j].m] < stamp'[stack[i].m]
    BY <1>5, <1>6 DEF IInv, IFrames
  <2> QED BY <1>4, <1>7, <2>1 DEF IInv, IFrames
<1>9. ILink'
  BY <1>4 DEF IInv, ILink, Free, Top
<1> QED BY <1>2, <1>3, <1>8, <1>9 DEF IInv

-----------------------------------------------------------------------------
(* Steps outside the mutex, and the ones that need it free.                 *)
LEMMA StackKeep ==
    ASSUME IInv, Owing' = Owing, UNCHANGED <<stack, row, queue, stamp, live, snap, epoch, wrote>>
    PROVE  IFrames' /\ ILink' /\ IWrote' /\ NonceOnce'
<1>1. IFrames'
  BY DEF IInv, IFrames, FrameInv, Known, Older, Unpersisted, PastChecks
<1>2. ILink'
  BY DEF IInv, ILink, Free, Top
<1> QED BY <1>1, <1>2, WroteKeep

LEMMA QuietSteps ==
    ASSUME SerializedPaths, TypeOK, IInv, NEW m \in Msg,
           Claim(m) \/ ClaimExpires(m) \/ HealList(m) \/ Age(m)
    PROVE  IInv'
<1> USE DEF dbVars, timeVars, linkVars, passVars, laterVars, netVars
<1>1. UNCHANGED <<row, queue, stamp, clock, pending, stack, live, snap, epoch, wrote>>
  BY DEF Claim, ClaimExpires, HealList, Age
<1>2. SameRows
  BY <1>1 DEF SameRows
<1>3. IStamps' /\ Owing' = Owing
  BY <1>1, <1>2, SameRowsKeep DEF IInv, IStamps, Known
<1>4. IRows'
  <2>1. \A y \in healing' : y \in healing \/ row[y] = "sending"
    BY DEF Claim, ClaimExpires, HealList, Age
  <2> QED BY <1>1, <1>3, <2>1 DEF IInv, IRows
<1>5. IWaiting'
  <2>1. \A y \in Msg : waiting'[y] > 0 => waiting[y] > 0 \/ (y = m /\ Claim(m))
    BY DEF Claim, ClaimExpires, HealList, Age, TypeOK
  <2>2. Claim(m) => Known(m)
    BY QueuedKnown, Serialized DEF Claim, Listed, Known, IInv
  <2> QED BY <1>1, <2>1, <2>2 DEF IInv, IWaiting, Known
<1>6. IFrames' /\ ILink' /\ IWrote' /\ NonceOnce'
  BY <1>1, <1>3, StackKeep
<1> QED BY <1>3, <1>4, <1>5, <1>6 DEF IInv

(* The heal re-enqueues only what has its item or was sent.                 *)
LEMMA HealStep ==
    ASSUME SerializedPaths, TypeOK, IInv, NEW m \in Msg, Heal(m)
    PROVE  IInv'
<1> USE DEF dbVars, timeVars, linkVars, passVars, laterVars, netVars
<1>1. /\ m \in healing /\ m \in Dms /\ queue' = queue \cup {m} /\ healing' = healing \ {m} /\ Free
      /\ UNCHANGED <<row, stamp, clock, waiting, pending, stack, live, snap, epoch, wrote>>
  BY DEF Heal, TypeOK
<1>2. m \in queue \/ row[m] = "sent"
  BY <1>1 DEF IInv, IRows
<1>3. Owing' = Owing
  BY <1>1, <1>2 DEF Owing
<1>4. IRows'
  BY <1>1, <1>2, <1>3 DEF IInv, IRows
<1>5. IStamps' /\ IWaiting'
  BY <1>1 DEF IInv, IStamps, IWaiting, Known
<1>6. IFrames' /\ ILink'
  BY <1>1 DEF IInv, IFrames, ILink, Free, Top
<1> QED BY <1>1, <1>3, <1>4, <1>5, <1>6, WroteKeep DEF IInv

LEMMA EnsureLinkStep ==
    ASSUME SerializedPaths, TypeOK, IInv, EnsureLink
    PROVE  IInv'
<1> USE DEF dbVars, timeVars, linkVars, passVars, laterVars, netVars
<1>1. /\ Free /\ live \in {NoPos, snap} /\ snap \in Pos /\ snap[1] = epoch /\ snap # NoPos
  BY LinkIdle, PosFacts DEF EnsureLink
<1>2. UNCHANGED <<row, queue, stamp, clock, waiting, pending, healing, stack, wrote>>
  BY <1>1 DEF EnsureLink
<1>3. IRows' /\ IStamps' /\ IWaiting' /\ Owing' = Owing
  BY <1>2, DbKeep
<1>4. IFrames'
  BY <1>1, <1>2 DEF IFrames, Free
<1>5. CASE LinkReady
  <2>1. live' = snap' /\ snap' \in Pos /\ snap'[1] = epoch' /\ IWrote' /\ NonceOnce'
    BY <1>1, <1>2, <1>3, <1>5, LinkReadyKeep
  <2>2. ILink'
    BY <1>1, <1>2, <2>1 DEF ILink, Free
  <2> QED BY <1>3, <1>4, <2>1, <2>2 DEF IInv
<1>6. CASE live' = NoPos /\ UNCHANGED <<epoch, snap>>
  <2>1. IWrote' /\ NonceOnce'
    BY <1>2, <1>3, <1>6, WroteKeep
  <2>2. ILink'
    BY <1>1, <1>2, <1>6 DEF ILink, Free
  <2> QED BY <1>3, <1>4, <2>1, <2>2 DEF IInv
<1> QED BY <1>1, <1>5, <1>6 DEF EnsureLink

LEMMA CrashStep ==
    ASSUME SerializedPaths, TypeOK, IInv, Crash
    PROVE  IInv'
<1> USE DEF dbVars, timeVars, linkVars, passVars, laterVars, netVars
<1>1. /\ UNCHANGED <<row, queue, snap, stamp, clock, epoch, wrote>>
      /\ live' = NoPos /\ stack' = <<>> /\ pending' = {} /\ healing' = {}
      /\ waiting' = [m \in Msg |-> 0]
  BY Serialized DEF Crash
<1>2. IRows' /\ IStamps' /\ Owing' = Owing
  BY <1>1 DEF IInv, IRows, IStamps, Owing, Known
<1>3. IWaiting'
  BY <1>1 DEF IWaiting
<1>4. IFrames' /\ ILink'
  BY <1>1 DEF IInv, IFrames, ILink, Free
<1>5. IWrote' /\ NonceOnce'
  BY <1>1, <1>2, WroteKeep
<1> QED BY <1>2, <1>3, <1>4, <1>5 DEF IInv

-----------------------------------------------------------------------------
(* Every step of the serialized paths keeps the invariant.                  *)
LEMMA IInvStep ==
    ASSUME SerializedPaths, TypeOK, IInv, [Next]_vars
    PROVE  IInv'
<1>t. TypeOK'
  BY TypeStep
<1>1. CASE UNCHANGED vars
  BY <1>1 DEF vars, dbVars, timeVars, linkVars, passVars, laterVars, netVars,
              IInv, IRows, IStamps, IWaiting, IFrames, ILink, IWrote, NonceOnce,
              FrameInv, Owing, Known, Older, Unpersisted, PastChecks, Free, Top
<1>2. ASSUME NEW m \in Msg,
             \/ SendStart(m) \/ FanoutPersist(m) \/ FanoutStamp(m) \/ FanoutInsert(m)
             \/ AttemptStart(m) \/ Claim(m) \/ ClaimExpires(m) \/ DeliverStart(m)
             \/ Receipt(m) \/ RestoreBackup(m) \/ HealList(m) \/ Heal(m) \/ Age(m)
      PROVE  IInv'
  <2>1. ~FanoutStamp(m) /\ ~FanoutInsert(m) /\ ~Receipt(m) /\ ~RestoreBackup(m)
    BY Serialized DEF FanoutStamp, FanoutInsert, Receipt, RestoreBackup
  <2> QED BY <1>2, <2>1, StartSteps, FanoutPersistStep, QuietSteps, HealStep
<1>3. \A m \in Dms, c \in Controls : ~Unsend(m, c)
  BY Serialized
<1>4. /\ ~FinalizeFails /\ ~ResetRetire /\ ~ResetDrop /\ ~Flush
  <2>1. ~FinalizeFails /\ ~ResetRetire /\ ~Flush
    BY Serialized DEF FinalizeFails, ResetRetire, Flush
  <2>2. ~ResetDrop
    BY TopFrame DEF ResetDrop
  <2> QED BY <2>1, <2>2
<1>5. ASSUME \/ DrainBlocked \/ Retire \/ EnsureNotReady \/ EnsureFailed
             \/ PutTransient \/ PutRejected
      PROVE  IInv'
  BY <1>5, UnwindSteps
<1>6. ASSUME \/ SendEnsure \/ SendPersist \/ DrainOlder \/ Rescan \/ Settle \/ Proceed
             \/ EnsureReady \/ EnsureLink \/ Encrypt \/ PutOk \/ Finalize \/ Crash
      PROVE  IInv'
  BY <1>6, <1>t, SendEnsureStep, SendPersistStep, DrainOlderStep, RescanStep, SettleStep,
     ProceedStep, EnsureReadyStep, EnsureLinkStep, EncryptStep, PutOkStep, FinalizeStep, CrashStep
<1>7. CASE Next
  BY <1>2, <1>3, <1>4, <1>5, <1>6, <1>7, Serialized DEF Next
<1> QED BY <1>1, <1>7

LEMMA IInvInit ==
    ASSUME Init
    PROVE  IInv
<1>1. IRows /\ IStamps /\ IWaiting
  BY DEF Init, IRows, IStamps, IWaiting, Owing, Known, Msg
<1>2. IFrames
  BY DEF Init, IFrames
<1>3. ILink
  BY PosFacts DEF Init, ILink, Free
<1>4. IWrote /\ NonceOnce
  BY DEF Init, IWrote, NonceOnce
<1> QED BY <1>1, <1>2, <1>3, <1>4 DEF IInv

(* The inductive invariant holds on the paths the mutex and the drain cover.*)
THEOREM SerializedInvariant ==
    ASSUME SerializedPaths
    PROVE  Spec => []IInv
<1>1. Init => IInv
  BY IInvInit
<1>2. TypeOK /\ IInv /\ [Next]_vars => IInv'
  BY IInvStep
<1> QED BY <1>1, <1>2, TypeCorrect, PTL DEF Spec

(* DECISIONS R2-F1: on those paths no two plaintexts are ever encrypted at  *)
(* one nonce, whatever answers are lost, passes collide, claims are stolen, *)
(* links re-keyed or tabs restarted.                                        *)
THEOREM NonceUsedOnce ==
    ASSUME SerializedPaths
    PROVE  Spec => []NonceOnce
<1>1. IInv => NonceOnce
  BY DEF IInv
<1> QED BY <1>1, SerializedInvariant, PTL

-----------------------------------------------------------------------------
(* What a step may never do, and what the peer can read.                    *)

(* Whether a step encrypts, and what: the oldest item, and it is owed.       *)
LEMMA OnlyEncrypts ==
    ASSUME SerializedPaths, [Next]_vars, wrote' # wrote
    PROVE  Encrypt
<1> USE DEF dbVars, timeVars, linkVars, passVars, laterVars, netVars
<1>1. Controls = {}
  BY Serialized
<1>2. Next
  BY DEF vars
<1>3. ASSUME NEW m \in Msg
      PROVE  /\ ~SendStart(m) /\ ~FanoutPersist(m) /\ ~FanoutStamp(m) /\ ~FanoutInsert(m)
             /\ ~AttemptStart(m) /\ ~Claim(m) /\ ~ClaimExpires(m) /\ ~DeliverStart(m)
             /\ ~Receipt(m) /\ ~RestoreBackup(m) /\ ~HealList(m) /\ ~Heal(m) /\ ~Age(m)
  BY DEF SendStart, FanoutPersist, FanoutStamp, FanoutInsert, AttemptStart, Claim,
         ClaimExpires, DeliverStart, Receipt, RestoreBackup, HealList, Heal, Age
<1>4. /\ ~SendEnsure /\ ~SendPersist /\ ~DrainOlder /\ ~DrainBlocked /\ ~Rescan
      /\ ~Settle /\ ~Retire /\ ~Proceed
  BY DEF SendEnsure, SendPersist, DrainOlder, DrainBlocked, Rescan, Settle, Retire, Proceed
<1>5. ~EnsureReady /\ ~EnsureNotReady /\ ~EnsureFailed /\ ~EnsureLink
  BY DEF EnsureReady, EnsureNotReady, EnsureFailed, EnsureLink
<1>6. /\ ~PutOk /\ ~PutTransient /\ ~PutRejected /\ ~Finalize /\ ~FinalizeFails
      /\ ~ResetRetire /\ ~ResetDrop /\ ~Flush /\ ~Crash
  BY DEF PutOk, PutTransient, PutRejected, Finalize, FinalizeFails, ResetRetire, ResetDrop,
         Flush, Crash
<1> QED BY <1>1, <1>2, <1>3, <1>4, <1>5, <1>6 DEF Next

LEMMA Encrypts ==
    ASSUME SerializedPaths, TypeOK, IInv, [Next]_vars, NEW x \in wrote' \ wrote
    PROVE  /\ x[2] \in Owing
           /\ \A y \in queue \ {x[2]} : stamp[x[2]] < stamp[y]
<1>1. Encrypt
  BY OnlyEncrypts
<1>2. x = <<live, Top.m>>
  BY <1>1 DEF Encrypt
<1> QED BY <1>1, <1>2, EncryptFacts

(* Oldest first: what is encrypted is older than every other queued write   *)
(* of the peer, although passes, nested drains, handshakes and heals run    *)
(* between the scan and the encrypt.                                        *)
THEOREM EncryptsOldestFirst ==
    ASSUME SerializedPaths
    PROVE  Spec => OldestFirst
<1>1. TypeOK /\ IInv /\ [Next]_vars =>
         [\A x \in wrote' \ wrote : \A y \in queue \ {x[2]} : stamp[x[2]] < stamp[y]]_vars
  BY Encrypts
<1> QED BY <1>1, TypeCorrect, SerializedInvariant, PTL DEF Spec, OldestFirst

(* Only a queued write is encrypted, so an ambiguous put is always retried: *)
(* no pass, stolen claim or late heal encrypts what left the queue.         *)
THEOREM EncryptsOnlyQueued ==
    ASSUME SerializedPaths
    PROVE  Spec => EncryptedIsQueued
<1>1. TypeOK /\ IInv /\ [Next]_vars => [\A x \in wrote' \ wrote : x[2] \in queue]_vars
  BY Encrypts, OwingKnown
<1> QED BY <1>1, TypeCorrect, SerializedInvariant, PTL DEF Spec, EncryptedIsQueued

(* A settled direct message is never encrypted again: not by a pass with a  *)
(* stale list, a second delivery of a stolen claim, or a late heal.         *)
THEOREM NeverEncryptsSettled ==
    ASSUME SerializedPaths
    PROVE  Spec => SettledNeverEncrypted
<1>1. TypeOK /\ IInv /\ [Next]_vars =>
         [\A x \in wrote' \ wrote :
             x[2] \in Dms => row[x[2]] \notin {"sent", "delivered", "unsent"}]_vars
  BY Encrypts DEF Owing
<1> QED BY <1>1, TypeCorrect, SerializedInvariant, PTL DEF Spec, SettledNeverEncrypted

-----------------------------------------------------------------------------
(* How a step fills the queue: with a new row, or by the heal.              *)
LEMMA OnlyInserts ==
    ASSUME SerializedPaths, TypeOK, IInv, [Next]_vars, NEW m \in queue', m \notin queue
    PROVE  row[m] # "failed"
<1> USE DEF dbVars, timeVars, linkVars, passVars, laterVars, netVars
<1>1. Controls = {}
  BY Serialized
<1>2. Next
  BY DEF vars
<1>3. ASSUME NEW y \in Msg
      PROVE  /\ ~SendStart(y) /\ ~FanoutStamp(y) /\ ~FanoutInsert(y)
             /\ ~AttemptStart(y) /\ ~Claim(y) /\ ~ClaimExpires(y) /\ ~DeliverStart(y)
             /\ ~Receipt(y) /\ ~RestoreBackup(y) /\ ~HealList(y) /\ ~Age(y)
  BY Serialized DEF SendStart, FanoutStamp, FanoutInsert, AttemptStart, Claim,
         ClaimExpires, DeliverStart, Receipt, RestoreBackup, HealList, Age
<1>4. /\ ~DrainOlder /\ ~DrainBlocked /\ ~Rescan /\ ~Settle /\ ~Retire /\ ~Proceed
      /\ ~EnsureReady /\ ~EnsureNotReady /\ ~EnsureFailed /\ ~EnsureLink /\ ~Encrypt
  BY DEF DrainOlder, DrainBlocked, Rescan, Settle, Retire, Proceed,
         EnsureReady, EnsureNotReady, EnsureFailed, EnsureLink, Encrypt
<1>5. /\ ~PutOk /\ ~PutTransient /\ ~PutRejected /\ ~Finalize /\ ~FinalizeFails
      /\ ~ResetRetire /\ ~ResetDrop /\ ~Flush /\ ~Crash
  BY Serialized DEF PutOk, PutTransient, PutRejected, Finalize, FinalizeFails, ResetRetire,
         ResetDrop, Flush, Crash
<1>6. CASE SendEnsure \/ SendPersist
  <2>1. ~Free /\ queue' = queue \cup {Top.m} /\ Unpersisted(Top)
    <3>1. CASE SendEnsure
      BY <3>1 DEF SendEnsure, Insert, Unpersisted
    <3>2. CASE SendPersist
      <4>1. ~Free /\ Top.ph = "persist"
        BY <3>2 DEF SendPersist
      <4>2. Top.k = "send"
        BY <4>1, TopType DEF FrameOK
      <4> QED BY <3>2, <4>1, <4>2 DEF SendPersist, Insert, Unpersisted
    <3> QED BY <1>6, <3>1, <3>2
  <2>2. row[Top.m] = "none"
    BY <2>1, TopFrame DEF FrameInv, Known
  <2> QED BY <2>1, <2>2
<1>7. ASSUME NEW y \in Msg, FanoutPersist(y)
      PROVE  row[m] # "failed"
  BY <1>7 DEF FanoutPersist, Insert
<1>8. ASSUME NEW y \in Msg, Heal(y)
      PROVE  row[m] # "failed"
  <2>1. m = y /\ y \in Dms
    BY <1>8 DEF Heal, TypeOK
  <2> QED BY <2>1 DEF IInv, IRows
<1> QED BY <1>1, <1>2, <1>3, <1>4, <1>5, <1>6, <1>7, <1>8 DEF Next

(* R4-F3, R4-F4: a heal that listed a row and waited for the mutex does not *)
(* revive it, because without a reset a row that fails keeps its item.      *)
THEOREM HealRevivesNothing ==
    ASSUME SerializedPaths
    PROVE  Spec => HealNeverRevives
<1>1. TypeOK /\ IInv /\ [Next]_vars => [\A m \in queue' \ queue : row[m] # "failed"]_vars
  BY OnlyInserts
<1> QED BY <1>1, TypeCorrect, SerializedInvariant, PTL DEF Spec, HealNeverRevives

-----------------------------------------------------------------------------
(* A ready link keeps the snapshot or starts a newer session.               *)
LEMMA ReadyAdvances ==
    ASSUME TypeOK, IInv, LinkReady
    PROVE  snap' = snap \/ snap'[1] > snap[1]
<1>1. snap[1] = epoch /\ epoch \in Nat
  BY BoundsAssumption DEF IInv, ILink, TypeOK
<1> QED BY <1>1 DEF LinkReady

(* A finalize of a delivery moves it one position on.                       *)
LEMMA FinalizeAdvances ==
    ASSUME TypeOK, IInv, Finalize
    PROVE  snap'[1] = snap[1] /\ snap'[2] >= snap[2]
<1>1. snap \in Pos /\ Top.pos = snap
  BY DEF IInv, ILink, Finalize
<1>2. snap' = Next1(snap)
  BY <1>1, PosFacts DEF Finalize, Checkpoint
<1>3. snap[2] \in Nat
  BY <1>1 DEF Pos
<1> QED BY <1>2, <1>3 DEF Next1

LEMMA SnapshotAdvances ==
    ASSUME SerializedPaths, TypeOK, IInv, [Next]_vars
    PROVE  \/ snap' = snap
           \/ snap'[1] > snap[1]
           \/ snap'[1] = snap[1] /\ snap'[2] >= snap[2]
<1> USE DEF dbVars, timeVars, linkVars, passVars, laterVars, netVars
<1>1. CASE UNCHANGED vars
  BY <1>1 DEF vars
<1>2. ASSUME NEW m \in Msg,
             \/ SendStart(m) \/ FanoutPersist(m) \/ FanoutStamp(m) \/ FanoutInsert(m)
             \/ AttemptStart(m) \/ Claim(m) \/ ClaimExpires(m) \/ DeliverStart(m)
             \/ Receipt(m) \/ RestoreBackup(m) \/ HealList(m) \/ Heal(m) \/ Age(m)
      PROVE  snap' = snap
  BY <1>2 DEF SendStart, FanoutPersist, FanoutStamp, FanoutInsert, AttemptStart, Claim,
         ClaimExpires, DeliverStart, Receipt, RestoreBackup, HealList, Heal, Age
<1>3. CASE \/ SendPersist \/ DrainOlder \/ DrainBlocked \/ Rescan \/ Settle \/ Retire \/ Proceed
           \/ EnsureNotReady \/ EnsureFailed \/ Encrypt \/ PutOk \/ PutTransient \/ PutRejected
           \/ FinalizeFails \/ ResetDrop \/ Flush
  BY <1>3 DEF SendPersist, DrainOlder, DrainBlocked, Rescan, Settle, Retire, Proceed,
         EnsureNotReady, EnsureFailed, Encrypt, PutOk, PutTransient, PutRejected,
         FinalizeFails, ResetDrop, Flush
<1>4. CASE SendEnsure \/ EnsureReady \/ EnsureLink
  <2>1. snap' = snap \/ LinkReady
    BY <1>4 DEF SendEnsure, EnsureReady, EnsureLink
  <2> QED BY <2>1, ReadyAdvances
<1>5. CASE Finalize
  BY <1>5, FinalizeAdvances
<1>6. CASE Crash \/ ResetRetire
  BY <1>6, Serialized DEF Crash, ResetRetire
<1>7. CASE Next
  BY <1>2, <1>3, <1>4, <1>5, <1>6, <1>7, Serialized DEF Next
<1> QED BY <1>1, <1>7

(* The persisted snapshot never goes back, whatever link answers, re-keys,  *)
(* stale finalizes and restarts come: a restart never re-uses a position.   *)
THEOREM SnapshotOnlyAdvances ==
    ASSUME SerializedPaths
    PROVE  Spec => SnapshotNeverBack
<1>1. TypeOK /\ IInv /\ [Next]_vars =>
         [snap # NoPos /\ snap' # NoPos =>
             \/ snap'[1] > snap[1]
             \/ snap'[1] = snap[1] /\ snap'[2] >= snap[2]]_vars
  <2>1. TypeOK /\ IInv => snap[2] \in Nat
    BY DEF IInv, ILink, Pos
  <2>2. ASSUME snap[2] \in Nat, snap' = snap PROVE snap'[1] = snap[1] /\ snap'[2] >= snap[2]
    BY <2>2
  <2> QED BY <2>1, <2>2, SnapshotAdvances
<1> QED BY <1>1, TypeCorrect, SerializedInvariant, PTL DEF Spec, SnapshotNeverBack

-----------------------------------------------------------------------------
(* The slots of the homeserver against the rows and the persisted position. *)
Shown(m) == row[m] \in {"sent", "delivered"}

(* A filled slot was encrypted at its position; every position before the   *)
(* persisted one is filled; a confirmed put is in its slot.                 *)
ISlots ==
    /\ \A p \in Pos : hs[p] # NoMsg => <<p, hs[p]>> \in wrote
    /\ \A n \in Nat : n < snap[2] => hs[<<snap[1], n>>] # NoMsg
    /\ ~Free /\ Top.ph = "fin" => hs[snap] = Top.m
    /\ NoGaps
    /\ SentIsReadable

NoneShown == \A m \in Dms : Shown(m)' => Shown(m)
NoneConfirmed == ~Free' /\ Top'.ph = "fin" => ~Free /\ Top.ph = "fin" /\ Top'.m = Top.m

-----------------------------------------------------------------------------
(* Steps that touch neither the slots nor the position.                     *)
LEMMA StillKeeps ==
    ASSUME TypeOK, ISlots, hs' = hs, snap' = snap, wrote \subseteq wrote',
           NoneShown, NoneConfirmed
    PROVE  ISlots'
<1>1. \A p \in Pos : hs'[p] # NoMsg => <<p, hs'[p]>> \in wrote'
  BY DEF ISlots
<1>2. \A n \in Nat : n < snap'[2] => hs'[<<snap'[1], n>>] # NoMsg
  BY DEF ISlots
<1>3. ~Free' /\ Top'.ph = "fin" => hs'[snap'] = Top'.m
  BY DEF ISlots, NoneConfirmed
<1>4. NoGaps'
  BY DEF ISlots, NoGaps
<1>5. SentIsReadable'
  BY DEF ISlots, SentIsReadable, NoneShown, Shown
<1> QED BY <1>1, <1>2, <1>3, <1>4, <1>5 DEF ISlots

(* What the slot of the persisted position may hold while a put runs.       *)
LEMMA SlotIsOwn ==
    ASSUME TypeOK, IInv, ISlots, ~Free, Top.ph \in {"putting", "fin"}
    PROVE  /\ Top.pos = snap /\ snap \in Pos /\ <<snap, Top.m>> \in wrote
           /\ Top.m \in Msg /\ Top.m # NoMsg
           /\ hs[snap] \in {NoMsg, Top.m}
<1>1. Top.pos = snap /\ snap \in Pos /\ <<snap, Top.m>> \in wrote
  BY DEF IInv, ILink
<1>2. Top.m \in Msg /\ Top.m # NoMsg
  BY TopFrame, NoMsgIsNone
<1>3. ASSUME hs[snap] # NoMsg PROVE hs[snap] = Top.m
  <2> DEFINE x == <<snap, hs[snap]>>
             y == <<snap, Top.m>>
  <2>1. x \in wrote /\ y \in wrote /\ x[1] = y[1] /\ x[2] = hs[snap] /\ y[2] = Top.m
    BY <1>1, <1>3 DEF ISlots
  <2> HIDE DEF x, y
  <2> QED BY <2>1 DEF IInv, NonceOnce
<1> QED BY <1>1, <1>2, <1>3

(* A put that is confirmed, lost, or fails: it fills the slot of the        *)
(* persisted position, whose predecessors are filled, and replaces nothing. *)
LEMMA PutKeeps ==
    ASSUME TypeOK, IInv, ISlots, ~Free, Top.ph = "putting",
           hs' \in PutOutcomes(Top.pos, Top.m), snap' = snap, wrote' = wrote, NoneShown,
           ~Free' /\ Top'.ph = "fin" => hs'[snap] = Top'.m
    PROVE  ISlots'
<1>1. /\ Top.pos = snap /\ snap \in Pos /\ <<snap, Top.m>> \in wrote
      /\ Top.m # NoMsg /\ hs[snap] \in {NoMsg, Top.m} /\ hs \in [Pos -> Msg \cup {NoMsg}]
  BY SlotIsOwn DEF TypeOK
<1>2. \A p \in Pos : hs'[p] = hs[p] \/ (p = snap /\ hs'[p] = Top.m)
  BY <1>1 DEF PutOutcomes
<1>3. \A p \in Pos : hs[p] # NoMsg => hs'[p] = hs[p]
  BY <1>1, <1>2
<1>4. \A p \in Pos : hs'[p] # NoMsg => <<p, hs'[p]>> \in wrote'
  BY <1>1, <1>2 DEF ISlots
<1>5. \A n \in Nat : n < snap[2] => <<snap[1], n>> \in Pos /\ hs[<<snap[1], n>>] # NoMsg
  BY <1>1, BoundsAssumption DEF ISlots, Pos
<1>6. \A n \in Nat : n < snap'[2] => hs'[<<snap'[1], n>>] # NoMsg
  BY <1>3, <1>5
<1>7. NoGaps'
  <2> SUFFICES ASSUME NEW p \in Pos, hs'[p] # NoMsg, p[2] > 0
               PROVE  hs'[<<p[1], p[2] - 1>>] # NoMsg
    BY DEF NoGaps
  <2>1. <<p[1], p[2] - 1>> \in Pos /\ p[2] - 1 \in Nat /\ p[2] - 1 < p[2]
    BY BoundsAssumption DEF Pos
  <2>2. hs[<<p[1], p[2] - 1>>] # NoMsg
    <3>1. CASE hs[p] # NoMsg
      BY <3>1 DEF ISlots, NoGaps
    <3>2. CASE hs[p] = NoMsg
      <4>1. p = snap
        BY <1>2, <3>2
      <4> QED BY <1>5, <2>1, <4>1
    <3> QED BY <3>1, <3>2
  <2> QED BY <1>3, <2>1, <2>2
<1>8. SentIsReadable'
  <2> SUFFICES ASSUME NEW m \in Dms, Shown(m)' PROVE \E p \in Pos : hs'[p] = m
    BY DEF SentIsReadable, Shown
  <2>1. PICK p \in Pos : hs[p] = m
    BY DEF NoneShown, Shown, ISlots, SentIsReadable
  <2>2. m # NoMsg
    BY NoMsgIsNone DEF Msg
  <2> QED BY <1>3, <2>1, <2>2
<1> QED BY <1>1, <1>4, <1>6, <1>7, <1>8 DEF ISlots

(* A ready link keeps the position, or starts a session with no slot.       *)
LEMMA ReadySlots ==
    ASSUME TypeOK, IInv, ISlots, LinkReady, hs' = hs, wrote' = wrote, NoneShown, NoneConfirmed,
           ~Free => Top.ph # "fin"
    PROVE  ISlots'
<1>1. CASE snap' = snap
  BY <1>1, StillKeeps
<1>2. CASE snap' # snap
  <2>1. snap' = <<epoch + 1, 0>>
    BY <1>2 DEF LinkReady
  <2>2. \A n \in Nat : n < snap'[2] => hs'[<<snap'[1], n>>] # NoMsg
    BY <2>1
  <2>3. NoGaps' /\ SentIsReadable'
    BY DEF ISlots, NoGaps, SentIsReadable, NoneShown, Shown
  <2> QED BY <2>2, <2>3 DEF ISlots, NoneConfirmed
<1> QED BY <1>1, <1>2

-----------------------------------------------------------------------------
(* Rows that a failure touches are shown `failed`, never `sent`.            *)
LEMMA UnwindShows ==
    ASSUME TypeOK, NEW r \in [Msg -> RowStates],
           \A m \in Msg : r[m] \in {row[m], "failed"},
           Unwind(r)
    PROVE  NoneShown /\ NoneConfirmed
<1>1. \A m \in Msg : BlockedRow(r)[m] \in {row[m], "failed"}
  BY DEF BlockedRow
<1>2. \A m \in Msg : row'[m] \in {row[m], "failed"}
  BY <1>1 DEF Unwind
<1>3. stack' = <<>>
  BY DEF Unwind
<1> QED BY <1>2, <1>3 DEF NoneShown, NoneConfirmed, Shown, Msg, Free

LEMMA FailShows ==
    ASSUME TypeOK, FailTop
    PROVE  NoneShown /\ NoneConfirmed
<1>1. row \in [Msg -> RowStates] /\ \A m \in Msg : row[m] \in {row[m], "failed"}
  BY DEF TypeOK
<1>2. CASE Unwind(row)
  BY <1>1, <1>2, UnwindShows
<1>3. CASE Unwind([row EXCEPT ![Top.m] = "failed"])
  <2>1. /\ [row EXCEPT ![Top.m] = "failed"] \in [Msg -> RowStates]
        /\ \A m \in Msg : [row EXCEPT ![Top.m] = "failed"][m] \in {row[m], "failed"}
    BY <1>1 DEF RowStates
  <2> QED BY <1>3, <2>1, UnwindShows
<1>4. CASE \E r \in FailedRows(Top.m) : Unwind(r)
  BY <1>4, FailedRowsFail, UnwindShows
<1> QED BY <1>2, <1>3, <1>4 DEF FailTop, RecordFailure

-----------------------------------------------------------------------------
LEMMA PassSteps ==
    ASSUME TypeOK, ISlots, SerializedPaths, NEW m \in Msg,
           \/ SendStart(m) \/ FanoutPersist(m) \/ FanoutStamp(m) \/ FanoutInsert(m)
           \/ AttemptStart(m) \/ Claim(m) \/ ClaimExpires(m) \/ DeliverStart(m)
           \/ Receipt(m) \/ RestoreBackup(m) \/ HealList(m) \/ Heal(m) \/ Age(m)
    PROVE  ISlots'
<1> USE DEF dbVars, timeVars, linkVars, passVars, laterVars, netVars
<1>1. ~FanoutStamp(m) /\ ~FanoutInsert(m) /\ ~Receipt(m) /\ ~RestoreBackup(m)
  BY Serialized DEF FanoutStamp, FanoutInsert, Receipt, RestoreBackup
<1>2. CASE SendStart(m) \/ AttemptStart(m) \/ DeliverStart(m)
  <2>1. PICK f : stack' = <<f>> /\ f.ph # "fin"
    BY <1>2 DEF SendStart, AttemptStart, DeliverStart, Frame
  <2>2. NoneShown /\ NoneConfirmed
    BY <1>2, <2>1 DEF SendStart, AttemptStart, DeliverStart, NoneShown, NoneConfirmed, Shown, Top
  <2> QED BY <1>2, <2>2, StillKeeps DEF SendStart, AttemptStart, DeliverStart
<1>3. CASE FanoutPersist(m)
  <2>1. NoneShown /\ NoneConfirmed
    BY <1>3 DEF FanoutPersist, NoneShown, NoneConfirmed, Shown, Free, Top, TypeOK
  <2> QED BY <1>3, <2>1, StillKeeps DEF FanoutPersist
<1>4. CASE Claim(m) \/ ClaimExpires(m) \/ HealList(m) \/ Heal(m) \/ Age(m)
  <2>1. UNCHANGED <<row, stack, hs, wrote, snap>>
    BY <1>4 DEF Claim, ClaimExpires, HealList, Heal, Age
  <2>2. NoneShown /\ NoneConfirmed
    BY <2>1 DEF NoneShown, NoneConfirmed, Shown, Free, Top
  <2> QED BY <2>1, <2>2, StillKeeps
<1> QED BY <1>1, <1>2, <1>3, <1>4

LEMMA CaughtSteps ==
    ASSUME TypeOK, IInv, ISlots,
           DrainBlocked \/ Retire \/ EnsureNotReady \/ EnsureFailed \/ PutTransient
           \/ (PutRejected /\ SerializedPaths)
    PROVE  ISlots'
<1> USE DEF dbVars, timeVars, linkVars, passVars, laterVars, netVars
<1>r. row \in [Msg -> RowStates] /\ \A m \in Msg : row[m] \in {row[m], "failed"}
  BY DEF TypeOK
<1>1. CASE DrainBlocked
  <2>1. \A m \in Msg : row'[m] \in {row[m], "failed"}
    BY <1>1, <1>r DEF DrainBlocked, BlockedRow
  <2>2. NoneShown /\ NoneConfirmed
    BY <1>1, <2>1 DEF DrainBlocked, NoneShown, NoneConfirmed, Shown, Msg, Free
  <2> QED BY <1>1, <2>2, StillKeeps DEF DrainBlocked
<1>2. CASE Retire
  <2>1. NoneShown /\ NoneConfirmed
    BY <1>2, FailedRowsFail, UnwindShows DEF Retire
  <2> QED BY <1>2, <2>1, StillKeeps DEF Retire
<1>3. CASE EnsureNotReady
  <2>1. NoneShown /\ NoneConfirmed
    BY <1>3, <1>r, UnwindShows DEF EnsureNotReady
  <2> QED BY <1>3, <2>1, StillKeeps DEF EnsureNotReady
<1>4. CASE EnsureFailed
  BY <1>4, FailShows, StillKeeps DEF EnsureFailed
<1>5. CASE PutTransient
  <2>1. NoneShown /\ NoneConfirmed
    BY <1>5, <1>r, UnwindShows DEF PutTransient
  <2>2. stack' = <<>>
    BY <1>5 DEF PutTransient, Unwind
  <2> QED BY <1>5, <2>1, <2>2, PutKeeps DEF PutTransient, Free
<1>6. CASE PutRejected
  <2>1. NoneShown /\ NoneConfirmed
    BY <1>6, FailShows DEF PutRejected
  <2>2. ~(~Free' /\ Top'.ph = "fin")
    BY <1>6, <2>1 DEF NoneConfirmed, PutRejected
  <2> QED BY <1>6, <2>1, <2>2, PutKeeps DEF PutRejected
<1> QED BY <1>1, <1>2, <1>3, <1>4, <1>5, <1>6

LEMMA MoveSteps ==
    ASSUME TypeOK, IInv, ISlots, Rescan \/ Proceed \/ SendPersist \/ Encrypt
    PROVE  ISlots'
<1> USE DEF dbVars, timeVars, linkVars, passVars, laterVars, netVars
<1>1. /\ ~Free /\ stack \in Seq(FrameType) /\ stack # <<>>
      /\ Top \in FrameType /\ hs' = hs /\ snap' = snap /\ wrote \subseteq wrote'
  BY TopType, StackType DEF Rescan, Proceed, SendPersist, Encrypt, Checking, Draining, Free
<1>2. \A f : Replace(stack, f)[1] = f
  BY <1>1 DEF Replace
<1>3. Top'.ph # "fin"
  <2>1. CASE Rescan
    <3> DEFINE f == [Top EXCEPT !.ph = "drain2", !.todo = Older(Top.m), !.pos = live]
    <3>1. f.ph = "drain2"
      BY <1>1 DEF FrameType
    <3>2. stack' = Replace(stack, f)
      BY <2>1 DEF Rescan, WithHandle
    <3> HIDE DEF f
    <3>3. Top' = f
      BY <1>2, <3>2 DEF Top
    <3> QED BY <3>1, <3>3
  <2>2. CASE Proceed
    <3> DEFINE f == [Top EXCEPT !.ph = "ensure", !.todo = {}]
    <3>1. f.ph = "ensure"
      BY <1>1 DEF FrameType
    <3>2. stack' = Replace(stack, f)
      BY <2>2 DEF Proceed, To
    <3> HIDE DEF f
    <3>3. Top' = f
      BY <1>2, <3>2 DEF Top
    <3> QED BY <3>1, <3>3
  <2>3. CASE SendPersist
    <3> DEFINE f == [Top EXCEPT !.ph = "drain1", !.todo = queue]
    <3>1. f.ph = "drain1"
      BY <1>1 DEF FrameType
    <3>2. stack' = Replace(stack, f)
      BY <2>3 DEF SendPersist, To
    <3> HIDE DEF f
    <3>3. Top' = f
      BY <1>2, <3>2 DEF Top
    <3> QED BY <3>1, <3>3
  <2>4. CASE Encrypt
    <3> DEFINE f == [Top EXCEPT !.ph = "putting", !.pos = live]
    <3>1. f.ph = "putting"
      BY <1>1 DEF FrameType
    <3>2. stack' = Replace(stack, f)
      BY <2>4 DEF Encrypt
    <3> HIDE DEF f
    <3>3. Top' = f
      BY <1>2, <3>2 DEF Top
    <3> QED BY <3>1, <3>3
  <2> QED BY <2>1, <2>2, <2>3, <2>4
<1>4. \A m \in Dms : row'[m] \in {row[m], "sending"}
  BY DEF Rescan, Proceed, SendPersist, Encrypt, TypeOK, Msg
<1> QED BY <1>1, <1>3, <1>4, StillKeeps DEF NoneConfirmed, NoneShown, Shown

LEMMA NestStep ==
    ASSUME TypeOK, ISlots, DrainOlder
    PROVE  ISlots'
<1> USE DEF dbVars, timeVars, linkVars, passVars, laterVars, netVars
<1>1. PICK x \in Msg : stack' = <<Frame("deliver", x, "drain1", Older(x))>> \o stack
  BY DEF DrainOlder
<1>2. stack'[1] = Frame("deliver", x, "drain1", Older(x))
  BY <1>1, StackType
<1>3. NoneShown /\ NoneConfirmed
  BY <1>2 DEF DrainOlder, NoneShown, NoneConfirmed, Shown, Top, Frame
<1> QED BY <1>3, StillKeeps DEF DrainOlder

LEMMA ReadySteps ==
    ASSUME TypeOK, IInv, ISlots, SendEnsure \/ EnsureReady \/ EnsureLink
    PROVE  ISlots'
<1> USE DEF dbVars, timeVars, linkVars, passVars, laterVars, netVars
<1>1. hs' = hs /\ wrote' = wrote /\ (~Free => Top.ph # "fin")
  BY DEF SendEnsure, EnsureReady, EnsureLink, Ensuring
<1>2. NoneShown
  BY DEF SendEnsure, EnsureReady, EnsureLink, NoneShown, Shown, Abandon, TypeOK, Msg
<1>3. NoneConfirmed
  <2>1. CASE EnsureLink
    BY <2>1 DEF EnsureLink, NoneConfirmed, Free
  <2>2. CASE stack' = <<>>
    BY <2>2 DEF NoneConfirmed, Free
  <2>3. CASE (SendEnsure \/ EnsureReady) /\ stack' # <<>>
    <3>1. ~Free /\ stack \in Seq(FrameType) /\ stack # <<>> /\ Top \in FrameType
      BY <2>3, TopType, StackType DEF SendEnsure, EnsureReady, Ensuring, Free
    <3>2. \A f : Replace(stack, f)[1] = f
      BY <3>1 DEF Replace
    <3>3. CASE SendEnsure
      <4> DEFINE f == [Top EXCEPT !.ph = "persist", !.todo = {}]
      <4>1. f.ph = "persist"
        BY <3>1 DEF FrameType
      <4>2. stack' = Replace(stack, f)
        BY <2>3, <3>3 DEF SendEnsure, To
      <4> HIDE DEF f
      <4>3. Top' = f
        BY <3>2, <4>2 DEF Top
      <4> QED BY <4>1, <4>3 DEF NoneConfirmed
    <3>4. CASE EnsureReady
      <4> DEFINE f == [Top EXCEPT !.ph = "drain2", !.todo = Older(Top.m), !.pos = live']
                 g == [Top EXCEPT !.ph = "drain2", !.todo = {}, !.pos = live']
                 h == [Top EXCEPT !.ph = "drain1", !.todo = Older(Top.m)]
      <4>1. f.ph = "drain2" /\ g.ph = "drain2" /\ h.ph = "drain1"
        BY <3>1 DEF FrameType
      <4>2. \/ stack' = Replace(stack, f)
            \/ stack' = Replace(stack, g)
            \/ stack' = Replace(stack, h)
        BY <2>3, <3>4 DEF EnsureReady, To, WithHandle
      <4> HIDE DEF f, g, h
      <4>3. Top' \in {f, g, h}
        BY <3>2, <4>2 DEF Top
      <4> QED BY <4>1, <4>3 DEF NoneConfirmed
    <3> QED BY <2>3, <3>3, <3>4
  <2> QED BY <2>1, <2>2, <2>3
<1>4. snap' = snap \/ LinkReady
  BY DEF SendEnsure, EnsureReady, EnsureLink
<1> QED BY <1>1, <1>2, <1>3, <1>4, StillKeeps, ReadySlots

LEMMA PutOkSlots ==
    ASSUME TypeOK, IInv, ISlots, PutOk
    PROVE  ISlots'
<1> USE DEF dbVars, timeVars, linkVars, passVars, laterVars, netVars
<1>1. /\ ~Free /\ Top.ph = "putting" /\ Top \in FrameType
      /\ stack \in Seq(FrameType) /\ stack # <<>>
      /\ Top.pos = snap /\ snap \in Pos /\ hs \in [Pos -> Msg \cup {NoMsg}]
  BY TopType, StackType, SlotIsOwn DEF PutOk, Free, TypeOK
<1>2. Top'.m = Top.m
  BY <1>1 DEF PutOk, To, Replace, Top, FrameType
<1>3. hs' = [hs EXCEPT ![snap] = Top.m] /\ hs'[snap] = Top.m
  BY <1>1 DEF PutOk
<1>4. NoneShown
  BY DEF PutOk, NoneShown, Shown
<1> QED BY <1>1, <1>2, <1>3, <1>4, PutKeeps DEF PutOk, PutOutcomes

LEMMA SettleSlots ==
    ASSUME TypeOK, IInv, ISlots, SerializedPaths, Settle
    PROVE  ISlots'
<1> USE DEF dbVars, timeVars, linkVars, passVars, laterVars, netVars
<1>1. ~Free /\ Top.k = "deliver" /\ Top.ph = "drain1" /\ Top.m \in Msg /\ FrameInv(Top)
  BY TopFrame DEF Settle, Checking, Draining
<1>2. row[Top.m] # "none"
  BY <1>1 DEF FrameInv, Known, Unpersisted
<1>3. ~Free' => Top'.ph \in {"drain1", "drain2"}
  BY <1>1, <1>2, PopKeep DEF Settle
<1>4. NoneShown /\ NoneConfirmed
  BY <1>3 DEF Settle, NoneShown, NoneConfirmed, Shown
<1> QED BY <1>4, StillKeeps DEF Settle

(* The confirmed write is in its slot: its row may be shown as sent, and    *)
(* the persisted position may move on.                                      *)
LEMMA FinalizeSlots ==
    ASSUME TypeOK, IInv, ISlots, SerializedPaths, Finalize
    PROVE  ISlots'
<1> USE DEF dbVars, timeVars, linkVars, passVars, laterVars, netVars
<1>1. /\ ~Free /\ Top.ph = "fin" /\ Top.m \in Msg /\ Top.m # NoMsg /\ FrameInv(Top)
      /\ Top.pos = snap /\ snap \in Pos /\ snap # NoPos /\ hs[snap] = Top.m
  BY TopFrame, SlotIsOwn, PosFacts DEF Finalize, ISlots
<1>2. /\ hs' = hs /\ wrote' = wrote /\ snap' = Next1(snap) /\ stamp' = stamp
      /\ queue' = queue \ {Top.m} /\ Pop(Top.m)
  BY <1>1 DEF Finalize, Checkpoint
<1>3. /\ \A y \in Msg : y # Top.m => row'[y] = row[y]
      /\ row'[Top.m] \in {row[Top.m], "sent"} /\ row'[Top.m] # "none"
  BY <1>1 DEF Finalize, TypeOK, FrameInv, PastChecks, Owing
<1>4. ~Free' => Top'.ph \in {"drain1", "drain2"}
  BY <1>1, <1>2, <1>3, PopKeep
<1>5. \A n \in Nat : n < snap'[2] => hs'[<<snap'[1], n>>] # NoMsg
  <2> SUFFICES ASSUME NEW n \in Nat, n < snap[2] + 1 PROVE hs[<<snap[1], n>>] # NoMsg
    BY <1>2 DEF Next1
  <2>1. snap[2] \in Nat /\ snap = <<snap[1], snap[2]>>
    BY <1>1 DEF Pos
  <2>2. CASE n = snap[2]
    BY <1>1, <2>1, <2>2
  <2>3. CASE n < snap[2]
    BY <2>3 DEF ISlots
  <2> QED BY <2>1, <2>2, <2>3
<1>6. SentIsReadable'
  <2> SUFFICES ASSUME NEW m \in Dms, Shown(m)' PROVE \E p \in Pos : hs[p] = m
    BY <1>2 DEF SentIsReadable, Shown
  <2>1. CASE m = Top.m
    BY <1>1, <2>1
  <2>2. CASE m # Top.m
    BY <1>3, <2>2 DEF Shown, ISlots, SentIsReadable, Msg
  <2> QED BY <2>1, <2>2
<1> QED BY <1>2, <1>4, <1>5, <1>6 DEF ISlots, NoGaps

LEMMA CrashSlots ==
    ASSUME TypeOK, IInv, ISlots, SerializedPaths, Crash
    PROVE  ISlots'
<1> USE DEF dbVars, timeVars, linkVars, passVars, laterVars, netVars
<1>1. UNCHANGED <<row, snap, wrote>> /\ stack' = <<>>
  BY Serialized DEF Crash
<1>2. NoneShown /\ NoneConfirmed
  BY <1>1 DEF NoneShown, NoneConfirmed, Shown, Free
<1>3. CASE hs' = hs
  BY <1>1, <1>2, <1>3, StillKeeps
<1>4. CASE hs' # hs
  <2>1. PICK f \in InFlight : hs' = [hs EXCEPT ![f[1]] = f[2]]
    BY <1>4 DEF Crash
  <2>2. ~Free /\ Top.ph = "putting" /\ f = <<Top.pos, Top.m>>
    BY <2>1, Serialized DEF InFlight
  <2>3. f[1] = Top.pos /\ f[2] = Top.m
    BY <2>2
  <2>4. hs' \in PutOutcomes(Top.pos, Top.m)
    BY <2>1, <2>3 DEF PutOutcomes
  <2> QED BY <1>1, <1>2, <2>2, <2>4, PutKeeps DEF Free
<1> QED BY <1>3, <1>4

LEMMA SlotsStep ==
    ASSUME SerializedPaths, TypeOK, IInv, ISlots, [Next]_vars
    PROVE  ISlots'
<1>1. CASE UNCHANGED vars
  BY <1>1 DEF vars, dbVars, timeVars, linkVars, passVars, laterVars, netVars,
              ISlots, NoGaps, SentIsReadable, Free, Top
<1>2. /\ ~FinalizeFails /\ ~ResetRetire /\ ~ResetDrop /\ ~Flush
      /\ \A m \in Dms, c \in Controls : ~Unsend(m, c)
  <2>1. ~FinalizeFails /\ ~ResetRetire /\ ~Flush
    BY Serialized DEF FinalizeFails, ResetRetire, Flush
  <2>2. ~ResetDrop
    BY TopFrame DEF ResetDrop
  <2> QED BY <2>1, <2>2, Serialized
<1>3. CASE Next
  BY <1>2, <1>3, Serialized, PassSteps, CaughtSteps, MoveSteps, NestStep, ReadySteps, PutOkSlots,
     SettleSlots, FinalizeSlots, CrashSlots DEF Next
<1> QED BY <1>1, <1>3

LEMMA SlotsInit == Init => ISlots
<1> SUFFICES ASSUME Init PROVE ISlots
  OBVIOUS
<1>1. /\ Free /\ snap = <<0, 0>> /\ \A p \in Pos : hs[p] = NoMsg
      /\ \A m \in Dms : row[m] = "none"
  BY DEF Init, Free, Msg
<1> QED BY <1>1 DEF ISlots, NoGaps, SentIsReadable

(* The slots, the rows and the persisted position agree, through lost       *)
(* answers, stolen claims, re-keys and restarts.                            *)
THEOREM SlotsInvariant ==
    ASSUME SerializedPaths
    PROVE  Spec => []ISlots
<1>1. TypeOK /\ IInv /\ ISlots /\ [Next]_vars => ISlots'
  BY SlotsStep
<1> QED BY <1>1, SlotsInit, TypeCorrect, SerializedInvariant, PTL DEF Spec

(* The peer, which stops reading at the first empty slot, never misses a    *)
(* write: no position is filled before its predecessor.                     *)
THEOREM SlotsHaveNoGaps ==
    ASSUME SerializedPaths
    PROVE  Spec => []NoGaps
<1>1. ISlots => NoGaps
  BY DEF ISlots
<1> QED BY <1>1, SlotsInvariant, PTL

(* A direct message shown as sent or delivered is in a slot of the peer:    *)
(* nothing overwrote it, although an ambiguous put is repeated.             *)
THEOREM SentStaysReadable ==
    ASSUME SerializedPaths
    PROVE  Spec => []SentIsReadable
<1>1. ISlots => SentIsReadable
  BY DEF ISlots
<1> QED BY <1>1, SlotsInvariant, PTL

-----------------------------------------------------------------------------
(* What leaves the queue was delivered: by a finalize, or as a direct       *)
(* message a late heal queued again after it was sent.                      *)
LEMMA OnlyDelivered ==
    ASSUME SerializedPaths, TypeOK, IInv, ISlots, [Next]_vars, NEW m \in queue \ queue'
    PROVE  \E p \in Pos : hs[p] = m
<1> USE DEF dbVars, timeVars, linkVars, passVars, laterVars, netVars
<1>1. Next
  BY DEF vars
<1>2. ASSUME NEW y \in Msg
      PROVE  /\ ~SendStart(y) /\ ~FanoutPersist(y) /\ ~FanoutStamp(y) /\ ~FanoutInsert(y)
             /\ ~AttemptStart(y) /\ ~Claim(y) /\ ~ClaimExpires(y) /\ ~DeliverStart(y)
             /\ ~Receipt(y) /\ ~RestoreBackup(y) /\ ~HealList(y) /\ ~Heal(y) /\ ~Age(y)
  BY Serialized DEF SendStart, FanoutPersist, FanoutStamp, FanoutInsert, AttemptStart, Claim,
         ClaimExpires, DeliverStart, Receipt, RestoreBackup, HealList, Heal, Age, Insert
<1>3. /\ ~SendEnsure /\ ~SendPersist /\ ~DrainOlder /\ ~DrainBlocked /\ ~Rescan
      /\ ~Retire /\ ~Proceed /\ ~EnsureReady /\ ~EnsureNotReady /\ ~EnsureFailed /\ ~EnsureLink
  BY DEF SendEnsure, SendPersist, DrainOlder, DrainBlocked, Rescan, Retire, Proceed, EnsureReady,
         EnsureNotReady, EnsureFailed, EnsureLink, Insert
<1>4. /\ ~Encrypt /\ ~PutOk /\ ~PutTransient /\ ~PutRejected /\ ~FinalizeFails
      /\ ~ResetRetire /\ ~Flush /\ ~Crash
  BY Serialized DEF Encrypt, PutOk, PutTransient, PutRejected, FinalizeFails, ResetRetire,
         Flush, Crash
<1>5. ~ResetDrop
  BY TopFrame DEF ResetDrop
<1>6. CASE Settle
  <2>1. ~Free /\ Settled(Top.m) /\ m = Top.m /\ Top.m \in Msg
    BY <1>6, TopFrame DEF Settle, Checking, Draining
  <2>2. m \notin Owing
    BY <2>1, NotSettled DEF IInv
  <2>3. m \in Dms /\ row[m] = "sent"
    BY <2>2 DEF IInv, IRows
  <2> QED BY <2>3 DEF ISlots, SentIsReadable
<1>7. CASE Finalize
  <2>1. ~Free /\ Top.ph = "fin" /\ m = Top.m
    BY <1>7 DEF Finalize
  <2>2. snap \in Pos /\ hs[snap] = m
    BY <2>1, SlotIsOwn DEF ISlots
  <2> QED BY <2>2
<1> QED BY <1>1, <1>2, <1>3, <1>4, <1>5, <1>6, <1>7, Serialized DEF Next

(* An item leaves the queue only when its write reached the homeserver:     *)
(* neither a pass with a stale list, nor a failure at the cap, nor a day's   *)
(* age, nor a restart drops one silently.                                   *)
THEOREM NothingDropped ==
    ASSUME SerializedPaths
    PROVE  Spec => NoSilentDrop
<1>1. TypeOK /\ IInv /\ ISlots /\ [Next]_vars =>
         [\A m \in queue \ queue' :
             \/ \E p \in Pos : hs[p] = m
             \/ row'[m] = "unsent"
             \/ ~Free /\ Top.k = "reset"]_vars
  BY OnlyDelivered
<1> QED BY <1>1, TypeCorrect, SerializedInvariant, SlotsInvariant, PTL DEF Spec, NoSilentDrop
=============================================================================
