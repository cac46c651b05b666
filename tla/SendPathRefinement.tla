-------------------------- MODULE SendPathRefinement --------------------------
(***************************************************************************)
(* SendPath implements Outbox on the serialized paths, for any number of    *)
(* messages, passes, epochs and restarts: every step of the send path is a  *)
(* step of the plain outbox under the mapping of SendPathOutbox, or none.   *)
(***************************************************************************)
EXTENDS SendPathProofs, SendPathOutbox, FiniteSetTheorems

-----------------------------------------------------------------------------
(* Places in an order by stamps                                             *)

(* The stamps st tell the writes S apart.                                   *)
Stamped(S, st) ==
    /\ IsFiniteSet(S)
    /\ \A x \in S : st[x] \in Nat
    /\ \A x, y \in S : st[x] = st[y] => x = y

LEMMA RankType ==
    ASSUME NEW S, NEW st, Stamped(S, st), NEW m \in S
    PROVE  RankIn(S, st, m) \in 1 .. Cardinality(S) /\ Cardinality(S) \in Nat
<1> DEFINE T == {x \in S : st[x] <= st[m]}
<1>1. IsFiniteSet(S) /\ st[m] \in Nat
  BY DEF Stamped
<1>2. m \in T /\ T \in SUBSET S
  BY <1>1
<1> HIDE DEF T
<1>3. IsFiniteSet(T) /\ Cardinality(T) <= Cardinality(S)
  BY <1>1, <1>2, FS_Subset
<1>4. Cardinality(T) \in Nat /\ Cardinality(S) \in Nat
  BY <1>1, <1>3, FS_CardinalityType
<1>5. Cardinality(T) # 0
  BY <1>2, <1>3, FS_EmptySet
<1>6. RankIn(S, st, m) = Cardinality(T)
  BY DEF RankIn, T
<1> QED BY <1>3, <1>4, <1>5, <1>6

(* Of two writes the older has the lower place.                             *)
LEMMA RankGrows ==
    ASSUME NEW S, NEW st, Stamped(S, st), NEW x \in S, NEW y \in S, st[x] < st[y]
    PROVE  RankIn(S, st, x) < RankIn(S, st, y)
<1> DEFINE T == {z \in S : st[z] <= st[x]}
           U == {z \in S : st[z] <= st[y]}
<1>1. IsFiniteSet(S) /\ \A z \in S : st[z] \in Nat
  BY DEF Stamped
<1>2. U \in SUBSET S /\ T \in SUBSET U /\ y \in U /\ y \notin T
  BY <1>1
<1>3. RankIn(S, st, x) = Cardinality(T) /\ RankIn(S, st, y) = Cardinality(U)
  BY DEF RankIn
<1> HIDE DEF T, U
<1>4. IsFiniteSet(U)
  BY <1>1, <1>2, FS_Subset
<1>5. Cardinality(T) <= Cardinality(U) /\ Cardinality(T) # Cardinality(U) /\ IsFiniteSet(T)
  BY <1>2, <1>4, FS_Subset
<1>6. Cardinality(T) \in Nat /\ Cardinality(U) \in Nat
  BY <1>4, <1>5, FS_CardinalityType
<1> QED BY <1>3, <1>5, <1>6

LEMMA RankOne ==
    ASSUME NEW S, NEW st, Stamped(S, st), NEW x \in S, NEW y \in S,
           RankIn(S, st, x) = RankIn(S, st, y)
    PROVE  x = y
<1>1. st[x] \in Nat /\ st[y] \in Nat /\ (st[x] = st[y] => x = y)
  BY DEF Stamped
<1>2. ~(st[x] < st[y]) /\ ~(st[y] < st[x])
  <2>1. RankIn(S, st, x) \in Int /\ RankIn(S, st, y) \in Int
    BY RankType
  <2> QED BY <2>1, RankGrows
<1> QED BY <1>1, <1>2

(* Who is at a place that is taken.                                         *)
LEMMA AtRankOf ==
    ASSUME NEW S, NEW st, Stamped(S, st), NEW m \in S
    PROVE  AtRank(S, st, RankIn(S, st, m)) = m
<1> DEFINE n == AtRank(S, st, RankIn(S, st, m))
<1>1. n \in S /\ RankIn(S, st, n) = RankIn(S, st, m)
  BY DEF AtRank
<1> QED BY <1>1, RankOne

Filled(S, st) == \A i \in 1 .. Cardinality(S) : \E m \in S : RankIn(S, st, m) = i

LEMMA RankedSeq ==
    ASSUME NEW S, NEW st, Stamped(S, st), Filled(S, st)
    PROVE  /\ Ranked(S, st) \in Seq(S)
           /\ Len(Ranked(S, st)) = Cardinality(S) /\ Cardinality(S) \in Nat
           /\ \A i \in 1 .. Cardinality(S) : Ranked(S, st)[i] = AtRank(S, st, i)
<1>1. Cardinality(S) \in Nat
  BY FS_CardinalityType DEF Stamped
<1>2. \A i \in 1 .. Cardinality(S) : AtRank(S, st, i) \in S
  BY DEF Filled, AtRank
<1>3. Ranked(S, st) \in [1 .. Cardinality(S) -> S]
  BY <1>2 DEF Ranked
<1>4. \A i \in 1 .. Cardinality(S) : Ranked(S, st)[i] = AtRank(S, st, i)
  BY DEF Ranked
<1> QED BY <1>1, <1>3, <1>4

(* A new write m that the stamps tt add to st.                              *)
Youngest(S, st, m, tt) ==
    m \notin S /\ tt[m] \in Nat /\ \A x \in S : tt[x] = st[x] /\ st[x] < tt[m]

Appended(q, r, m) == q = Append(r, m)

LEMMA Appends ==
    ASSUME NEW S, NEW st, Stamped(S, st), Filled(S, st), NEW m, NEW tt, Youngest(S, st, m, tt)
    PROVE  /\ Stamped(S \cup {m}, tt) /\ Filled(S \cup {m}, tt)
           /\ Appended(Ranked(S \cup {m}, tt), Ranked(S, st), m)
<1> DEFINE U == S \cup {m}
           n == Cardinality(S)
<1>y. m \notin S /\ tt[m] \in Nat /\ \A x \in S : tt[x] = st[x] /\ st[x] < tt[m]
  BY DEF Youngest
<1>1. IsFiniteSet(S) /\ \A x \in S : st[x] \in Nat
  BY DEF Stamped
<1>2. n \in Nat
  BY <1>1, FS_CardinalityType
<1>3. IsFiniteSet(U) /\ Cardinality(U) = n + 1
  BY <1>1, <1>y, FS_AddElement
<1>4. Stamped(U, tt)
  BY <1>1, <1>3, <1>y DEF Stamped
<1>5. \A x \in S : RankIn(U, tt, x) = RankIn(S, st, x)
  <2> SUFFICES ASSUME NEW x \in S PROVE RankIn(U, tt, x) = RankIn(S, st, x)
    OBVIOUS
  <2>1. {y \in U : tt[y] <= tt[x]} = {y \in S : st[y] <= st[x]}
    BY <1>1, <1>y
  <2> QED BY <2>1 DEF RankIn
<1>6. RankIn(U, tt, m) = n + 1
  <2>1. {y \in U : tt[y] <= tt[m]} = U
    BY <1>1, <1>y
  <2> QED BY <1>3, <2>1 DEF RankIn
<1> HIDE DEF U, n
<1>7. \A i \in 1 .. n : \E x \in S : RankIn(S, st, x) = i
  BY DEF Filled, n
<1>m. m \in U /\ S \subseteq U
  BY DEF U
<1>8. Filled(U, tt)
  <2> SUFFICES ASSUME NEW i \in 1 .. n + 1 PROVE \E x \in U : RankIn(U, tt, x) = i
    BY <1>3 DEF Filled
  <2>1. CASE i = n + 1
    BY <2>1, <1>6, <1>m
  <2>2. CASE i \in 1 .. n
    BY <2>2, <1>5, <1>7, <1>m
  <2> QED BY <1>2, <2>1, <2>2
<1>9. \A i \in 1 .. n : AtRank(U, tt, i) = AtRank(S, st, i)
  <2> SUFFICES ASSUME NEW i \in 1 .. n PROVE AtRank(U, tt, i) = AtRank(S, st, i)
    OBVIOUS
  <2>1. PICK x \in S : RankIn(S, st, x) = i
    BY <1>7
  <2>2. AtRank(S, st, i) = x
    BY <2>1, AtRankOf
  <2>3. x \in U /\ RankIn(U, tt, x) = i
    BY <2>1, <1>5, <1>m
  <2>4. AtRank(U, tt, i) = x
    BY <2>3, <1>4, AtRankOf
  <2> QED BY <2>2, <2>4
<1>10. AtRank(U, tt, n + 1) = m
  BY <1>4, <1>6, <1>m, AtRankOf
<1>11. /\ Ranked(S, st) \in Seq(S) /\ Len(Ranked(S, st)) = n
       /\ \A i \in 1 .. n : Ranked(S, st)[i] = AtRank(S, st, i)
  BY RankedSeq DEF n
<1>12. /\ Ranked(U, tt) \in Seq(U) /\ Len(Ranked(U, tt)) = n + 1
       /\ \A i \in 1 .. n + 1 : Ranked(U, tt)[i] = AtRank(U, tt, i)
  BY <1>3, <1>4, <1>8, RankedSeq
<1>13. Appended(Ranked(U, tt), Ranked(S, st), m)
  <2> DEFINE r == Ranked(S, st)
             q == Ranked(U, tt)
  <2>1. r \in Seq(U) /\ Len(r) = n
    BY <1>11, <1>m
  <2>2. q \in Seq(U) /\ Len(q) = n + 1
    BY <1>12
  <2>3. \A i \in 1 .. n : q[i] = r[i]
    BY <1>2, <1>9, <1>11, <1>12
  <2>4. q[n + 1] = m
    BY <1>2, <1>10, <1>12
  <2> HIDE DEF r, q
  <2>5. /\ Append(r, m) \in Seq(U) /\ Len(Append(r, m)) = n + 1
        /\ \A i \in 1 .. n : Append(r, m)[i] = r[i]
        /\ Append(r, m)[n + 1] = m
    BY <2>1, <1>m, <1>2
  <2>6. \A i \in 1 .. Len(q) : q[i] = Append(r, m)[i]
    BY <1>2, <2>2, <2>3, <2>4, <2>5
  <2>7. Appended(q, r, m)
    BY <2>2, <2>5, <2>6, SeqEqual DEF Appended
  <2> QED BY <2>7 DEF r, q
<1> QED BY <1>4, <1>8, <1>13 DEF U

-----------------------------------------------------------------------------
(* The mapping in a state of the invariants                                  *)

LEMMA AcceptedStamped ==
    ASSUME TypeOK, IInv, IOrder
    PROVE  Stamped(Accepted, stamp) /\ Filled(Accepted, stamp) /\ Accepted \subseteq Msg
<1>1. Accepted \subseteq Msg /\ \A x \in Accepted : Known(x)
  BY DEF Accepted
<1>2. \A x \in Accepted : stamp[x] \in Nat
  BY <1>1 DEF TypeOK
<1>3. \A x, y \in Accepted : stamp[x] = stamp[y] => x = y
  BY <1>1 DEF IInv, IStamps
<1> QED BY <1>1, <1>2, <1>3 DEF Stamped, Filled, IOrder

(* How many slots of the session are filled: those before the persisted     *)
(* position, and that of an ambiguous put.                                  *)
Extent == IF hs[snap] = NoMsg THEN snap[2] ELSE snap[2] + 1

LEMMA SlotCount ==
    ASSUME TypeOK, IInv, ISlots
    PROVE  /\ Cardinality(Slots) = Extent /\ Extent \in Nat
           /\ snap \in Pos /\ snap[1] = epoch /\ snap[2] \in Nat /\ snap = <<epoch, snap[2]>>
           /\ ChanNow = [i \in 1 .. Extent |-> hs[<<epoch, i - 1>>]]
<1> DEFINE k == Extent
<1>1. /\ snap \in Pos /\ snap[1] = epoch /\ snap[2] \in Nat /\ snap = <<snap[1], snap[2]>>
      /\ epoch \in 0 .. MaxEpoch /\ snap[2] \in 0 .. MaxNonce
  BY PosFacts, BoundsAssumption DEF IInv, ILink
<1>2. k \in Nat
  BY <1>1 DEF Extent
<1>3. Slots = {epoch} \X (0 .. k - 1)
  <2>1. ASSUME NEW p \in Slots PROVE p \in {epoch} \X (0 .. k - 1)
    <3>1. p \in Pos /\ p[1] = epoch /\ hs[p] # NoMsg /\ <<p, hs[p]>> \in wrote
      BY <2>1 DEF Slots, ISlots
    <3>2. p = <<epoch, p[2]>> /\ p[2] \in Nat
      BY <3>1, BoundsAssumption DEF Pos
    <3>3. p[2] <= snap[2]
      <4> DEFINE x == <<p, hs[p]>>
      <4>1. x \in wrote /\ x[1] = p
        BY <3>1
      <4> HIDE DEF x
      <4> QED BY <3>1, <4>1 DEF IInv, IWrote
    <3>4. p[2] = snap[2] => hs[snap] # NoMsg
      BY <1>1, <3>1, <3>2
    <3>5. p[2] \in 0 .. k - 1
      BY <1>1, <3>2, <3>3, <3>4 DEF Extent
    <3> QED BY <3>2, <3>5
  <2>2. ASSUME NEW n \in 0 .. k - 1 PROVE <<epoch, n>> \in Slots
    <3>1. n \in Nat /\ n <= snap[2] /\ (n = snap[2] => hs[snap] # NoMsg)
      BY <1>1, <2>2 DEF Extent
    <3>2. <<epoch, n>> \in Pos
      BY <1>1, <3>1, BoundsAssumption DEF Pos
    <3>3. hs[<<epoch, n>>] # NoMsg
      <4>1. CASE n < snap[2]
        BY <1>1, <3>1, <4>1 DEF ISlots
      <4>2. CASE n = snap[2]
        BY <1>1, <3>1, <4>2
      <4> QED BY <1>1, <3>1, <4>1, <4>2
    <3> QED BY <3>2, <3>3 DEF Slots
  <2> QED BY <2>1, <2>2
<1> HIDE DEF k
<1>4. IsFiniteSet(0 .. k - 1) /\ Cardinality(0 .. k - 1) = k
  BY <1>2, FS_Interval
<1>5. IsFiniteSet({epoch}) /\ Cardinality({epoch}) = 1
  BY FS_Singleton
<1>6. Cardinality({epoch} \X (0 .. k - 1)) = 1 * k
  BY <1>4, <1>5, FS_Product
<1>7. Cardinality(Slots) = k
  BY <1>2, <1>3, <1>6
<1> QED BY <1>1, <1>2, <1>7 DEF ChanNow, k

LEMMA FunctionSeq ==
    ASSUME NEW S, NEW n \in Nat, NEW c \in [1 .. n -> S]
    PROVE  c \in Seq(S) /\ Len(c) = n
OBVIOUS

LEMMA MapTypes ==
    ASSUME TypeOK, IInv, ISlots, IOrder
    PROVE  /\ AckedNow \in Nat /\ AckedNow - BaseNow = snap[2]
           /\ OrderNow \in Seq(Accepted) /\ Len(OrderNow) = Cardinality(Accepted)
           /\ \A i \in 1 .. Len(OrderNow) : OrderNow[i] \in Accepted
           /\ ChanNow \in Seq(Msg) /\ Len(ChanNow) = Extent
<1>1. IsFiniteSet(Accepted) /\ Confirmed \subseteq Accepted
  BY DEF IOrder, Confirmed
<1>2. AckedNow \in Nat
  BY <1>1, FS_Subset, FS_CardinalityType DEF AckedNow
<1>3. snap[2] \in Nat /\ Extent \in Nat /\ ChanNow = [i \in 1 .. Extent |-> hs[<<epoch, i - 1>>]]
      /\ Cardinality(Slots) = Extent /\ snap = <<epoch, snap[2]>> /\ epoch = snap[1]
  BY SlotCount
<1>4. AckedNow - BaseNow = snap[2]
  BY <1>2, <1>3 DEF BaseNow
<1>5. OrderNow \in Seq(Accepted) /\ Len(OrderNow) = Cardinality(Accepted)
  BY AcceptedStamped, RankedSeq DEF OrderNow
<1>6. \A i \in 1 .. Extent : hs[<<epoch, i - 1>>] \in Msg
  <2> SUFFICES ASSUME NEW i \in 1 .. Extent PROVE hs[<<epoch, i - 1>>] \in Msg
    OBVIOUS
  <2>1. i - 1 \in Nat /\ i - 1 <= snap[2] /\ (i - 1 = snap[2] => hs[snap] # NoMsg)
    BY <1>3 DEF Extent
  <2>2. snap \in Pos
    BY SlotCount
  <2>3. <<epoch, i - 1>> \in Pos
    BY <1>3, <2>1, <2>2, BoundsAssumption DEF Pos
  <2>4. hs[<<epoch, i - 1>>] # NoMsg
    <3>1. CASE i - 1 < snap[2]
      BY <1>3, <2>1, <3>1 DEF ISlots
    <3>2. CASE i - 1 = snap[2]
      BY <1>3, <2>1, <3>2
    <3> QED BY <1>3, <2>1, <3>1, <3>2
  <2> QED BY <2>3, <2>4 DEF TypeOK
<1>7. ChanNow \in [1 .. Extent -> Msg]
  BY <1>3, <1>6
<1>8. ChanNow \in Seq(Msg) /\ Len(ChanNow) = Extent
  BY <1>3, <1>7, FunctionSeq
<1> QED BY <1>2, <1>4, <1>5, <1>8

MapInv == TypeOK /\ IInv /\ ISlots /\ IOrder

ChanOK ==
    /\ ChanNow = [i \in 1 .. Extent |-> hs[<<epoch, i - 1>>]]
    /\ ChanNow \in Seq(Msg) /\ Len(ChanNow) = Extent

LEMMA ChanFacts == MapInv => ChanOK
BY SlotCount, MapTypes DEF MapInv, ChanOK

LEMMA ChanNext == MapInv' => ChanOK'
BY ChanFacts, PTL

-----------------------------------------------------------------------------
(* The five kinds of steps                                                   *)

Still ==
    /\ Accepted' = Accepted /\ Owing' = Owing
    /\ stamp' = stamp

Steady == Still /\ UNCHANGED <<snap, epoch, hs>>
Takes(m) == Queues(m) /\ UNCHANGED <<snap, epoch, hs>>
Puts ==
    /\ Still /\ UNCHANGED <<snap, epoch>>
    /\ ~Free /\ Top.ph = "putting" /\ hs' \in PutOutcomes(Top.pos, Top.m)
Confirms ==
    /\ ~Free /\ Top.ph = "fin" /\ Accepted' = Accepted /\ Owing' = Owing \ {Top.m}
    /\ stamp' = stamp /\ snap' = Next1(snap) /\ UNCHANGED <<epoch, hs>>
Opens ==
    /\ Still /\ hs' = hs
    /\ epoch' = epoch + 1 /\ epoch' \in 0 .. MaxEpoch /\ snap' = <<epoch + 1, 0>>

LEMMA StillOrder ==
    ASSUME IOrder, Still
    PROVE  IOrder' /\ OrderNow' = OrderNow /\ AckedNow' = AckedNow /\ Confirmed' = Confirmed
<1>1. Accepted' = Accepted /\ Owing' = Owing /\ stamp' = stamp
  BY DEF Still
<1>2. Confirmed' = Confirmed
  BY <1>1 DEF Confirmed
<1>3. OrderNow' = OrderNow
  BY <1>1 DEF OrderNow
<1>4. AckedNow' = AckedNow
  BY <1>2 DEF AckedNow
<1> QED BY <1>1, <1>2, <1>3, <1>4 DEF IOrder

LEMMA SteadyMaps ==
    ASSUME TypeOK, IInv, ISlots, IOrder, Steady
    PROVE  IOrder' /\ UNCHANGED OB!vars
<1>1. IOrder' /\ OrderNow' = OrderNow /\ AckedNow' = AckedNow
  BY StillOrder DEF Steady
<1>2. snap' = snap /\ epoch' = epoch /\ hs' = hs
  BY DEF Steady
<1>3. BaseNow' = BaseNow
  BY <1>1, <1>2 DEF BaseNow
<1>4. Slots' = Slots
  BY <1>2 DEF Slots
<1>5. ChanNow' = ChanNow
  BY <1>2, <1>4 DEF ChanNow
<1> QED BY <1>1, <1>3, <1>5 DEF OB!vars

(* A new write is accepted.                                                 *)
LEMMA TakesMaps ==
    ASSUME TypeOK, IInv, ISlots, IOrder, NEW m \in Msg, Takes(m)
    PROVE  IOrder' /\ OB!Accept(m)
<1>1. /\ Owing' = Owing \cup {m} /\ m \notin queue
      /\ \A y \in Msg : Known(y) => /\ stamp'[y] = stamp[y] /\ stamp[y] < clock /\ y # m
      /\ \A y \in Msg : Known(y)' <=> Known(y) \/ y = m
      /\ stamp'[m] = clock /\ clock \in Nat
  BY InsertKeep DEF Takes, TypeOK
<1>2. Accepted' = Accepted \cup {m} /\ m \notin Accepted /\ Accepted \subseteq Msg
  BY <1>1 DEF Accepted
<1>3. \A x \in Accepted : stamp'[x] = stamp[x] /\ stamp[x] < stamp'[m]
  BY <1>1 DEF Accepted
<1>4. /\ Stamped(Accepted \cup {m}, stamp') /\ Filled(Accepted \cup {m}, stamp')
      /\ Appended(Ranked(Accepted \cup {m}, stamp'), Ranked(Accepted, stamp), m)
  <2>1. Youngest(Accepted, stamp, m, stamp')
    BY <1>1, <1>2, <1>3 DEF Youngest
  <2>2. Stamped(Accepted, stamp) /\ Filled(Accepted, stamp)
    BY AcceptedStamped
  <2> QED BY <2>1, <2>2, Appends
<1>5. OrderNow' = Append(OrderNow, m)
  BY <1>2, <1>4 DEF OrderNow, Appended
<1>6. Owing \subseteq Accepted
  BY OwingKnown DEF Accepted, Owing, TypeOK
<1>7. Confirmed' = Confirmed
  BY <1>1, <1>2, <1>6 DEF Confirmed
<1>8. IOrder'
  <2>1. IsFiniteSet(Accepted') /\ \A i \in 1 .. Cardinality(Accepted') :
           \E x \in Accepted' : RankIn(Accepted', stamp', x) = i
    BY <1>2, <1>4 DEF Stamped, Filled
  <2>2. \A x \in Confirmed', y \in Owing' : stamp'[x] < stamp'[y]
    <3>1. Confirmed \subseteq Accepted
      BY DEF Confirmed
    <3> QED BY <1>1, <1>3, <1>6, <1>7, <3>1 DEF IOrder
  <2> QED BY <2>1, <2>2 DEF IOrder
<1>9. snap' = snap /\ epoch' = epoch /\ hs' = hs
  BY DEF Takes
<1>10. AckedNow' = AckedNow /\ BaseNow' = BaseNow
  BY <1>7, <1>9 DEF AckedNow, BaseNow
<1>11. Slots' = Slots /\ ChanNow' = ChanNow
  BY <1>9 DEF Slots, ChanNow
<1>12. \A i \in DOMAIN OrderNow : OrderNow[i] # m
  <2>1. DOMAIN OrderNow = 1 .. Len(OrderNow)
    BY MapTypes
  <2> QED BY <1>2, <2>1, MapTypes
<1> QED BY <1>5, <1>8, <1>10, <1>11, <1>12 DEF OB!Accept

(* The oldest write owed comes right after the confirmed ones.              *)
LEMMA NextInOrder ==
    ASSUME TypeOK, IInv, IOrder, NEW m \in Owing,
           \A y \in Owing \ {m} : stamp[m] < stamp[y]
    PROVE  /\ AckedNow + 1 \in 1 .. Len(OrderNow)
           /\ OrderNow[AckedNow + 1] = m
<1>1. Owing \subseteq Accepted
  BY OwingKnown DEF Accepted, Owing, TypeOK
<1>2. /\ Stamped(Accepted, stamp) /\ Filled(Accepted, stamp) /\ m \in Accepted
      /\ \A x \in Accepted : stamp[x] \in Nat
  BY <1>1, AcceptedStamped DEF Stamped
<1>3. {x \in Accepted : stamp[x] <= stamp[m]} = Confirmed \cup {m}
  <2>1. \A x \in Confirmed : x \in Accepted /\ stamp[x] < stamp[m]
    BY DEF IOrder, Confirmed
  <2>2. \A x \in Accepted : x \in Confirmed \/ x = m \/ x \in Owing \ {m}
    BY DEF Confirmed
  <2> QED BY <1>2, <2>1, <2>2
<1>4. IsFiniteSet(Confirmed) /\ m \notin Confirmed
  BY FS_Subset DEF IOrder, Confirmed
<1>5. RankIn(Accepted, stamp, m) = AckedNow + 1
  BY <1>3, <1>4, FS_AddElement DEF RankIn, AckedNow
<1>6. AckedNow + 1 \in 1 .. Cardinality(Accepted)
  BY <1>2, <1>5, RankType
<1>7. AtRank(Accepted, stamp, AckedNow + 1) = m
  BY <1>2, <1>5, AtRankOf
<1> QED BY <1>2, <1>6, <1>7, RankedSeq DEF OrderNow

(* A put writes the slot after the confirmed ones, or what is there.        *)
LEMMA PutsMaps ==
    ASSUME TypeOK, IInv, ISlots, IOrder, Puts, TypeOK', IInv', ISlots'
    PROVE  IOrder' /\ (OB!Write \/ UNCHANGED OB!vars)
<1>1. IOrder' /\ OrderNow' = OrderNow /\ AckedNow' = AckedNow
  BY StillOrder DEF Puts
<1>2. snap' = snap /\ epoch' = epoch /\ hs \in [Pos -> Msg \cup {NoMsg}]
  BY DEF Puts, TypeOK
<1>3. BaseNow' = BaseNow
  BY <1>1, <1>2 DEF BaseNow
<1>4. /\ Top.pos = snap /\ snap \in Pos /\ <<snap, Top.m>> \in wrote
      /\ Top.m \in Msg /\ Top.m # NoMsg /\ hs[snap] \in {NoMsg, Top.m}
  BY SlotIsOwn DEF Puts
<1>5. CASE hs' = hs
  <2>1. Slots' = Slots /\ ChanNow' = ChanNow
    BY <1>2, <1>5 DEF Slots, ChanNow
  <2> QED BY <1>1, <1>3, <2>1 DEF OB!vars
<1>6. CASE hs' # hs
  <2>c. ChanOK'
    BY <1>1, ChanNext DEF MapInv
  <2>1. hs' = [hs EXCEPT ![snap] = Top.m]
    BY <1>4, <1>6 DEF Puts, PutOutcomes
  <2>2. hs[snap] = NoMsg /\ hs'[snap] = Top.m
    BY <1>2, <1>4, <1>6, <2>1
  <2>3. /\ snap[2] \in Nat /\ snap = <<epoch, snap[2]>>
        /\ Extent = snap[2] /\ Extent' = snap[2] + 1
        /\ ChanNow = [i \in 1 .. Extent |-> hs[<<epoch, i - 1>>]]
        /\ ChanNow' = [i \in 1 .. Extent' |-> hs'[<<epoch, i - 1>>]]
    <3>1. Extent = snap[2] /\ Extent' = snap[2] + 1
      BY <1>2, <1>4, <2>2 DEF Extent
    <3>2. (ChanNow = [i \in 1 .. Extent |-> hs[<<epoch, i - 1>>]])'
      BY <2>c DEF ChanOK
    <3> QED BY <1>2, <3>1, <3>2, SlotCount
  <2> DEFINE n == snap[2]
             e == epoch
  <2>4. \A i \in 1 .. n : hs'[<<e, i - 1>>] = hs[<<e, i - 1>>]
    <3> SUFFICES ASSUME NEW i \in 1 .. n PROVE hs'[<<e, i - 1>>] = hs[<<e, i - 1>>]
      OBVIOUS
    <3>1. <<e, i - 1>> # snap
      BY <2>3
    <3>2. <<e, i - 1>> \in Pos
      BY <1>4, <2>3, BoundsAssumption DEF Pos
    <3> QED BY <1>2, <2>1, <3>1, <3>2
  <2>5. hs'[<<e, n>>] = Top.m
    BY <2>2, <2>3
  <2>6. ChanNow \in Seq(Msg) /\ Len(ChanNow) = n /\ \A i \in 1 .. n : ChanNow[i] = hs[<<e, i - 1>>]
    BY <2>3, MapTypes
  <2>7. /\ ChanNow' \in Seq(Msg) /\ Len(ChanNow') = n + 1
        /\ \A i \in 1 .. n + 1 : ChanNow'[i] = hs'[<<e, i - 1>>]
    <3>1. ChanNow' \in Seq(Msg) /\ Len(ChanNow') = Extent'
      BY <2>c DEF ChanOK
    <3> QED BY <2>3, <3>1
  <2>8. ChanNow' = Append(ChanNow, Top.m)
    <3> DEFINE c == ChanNow
               d == ChanNow'
               m == Top.m
    <3>1. n \in Nat /\ m \in Msg
      BY <1>4, <2>3
    <3>2. /\ c \in Seq(Msg) /\ Len(c) = n /\ d \in Seq(Msg) /\ Len(d) = n + 1
      BY <2>6, <2>7
    <3>3. \A i \in 1 .. n : d[i] = c[i]
      <4> SUFFICES ASSUME NEW i \in 1 .. n PROVE d[i] = c[i]
        OBVIOUS
      <4>1. i \in 1 .. n + 1
        BY <3>1
      <4>2. c[i] = hs[<<e, i - 1>>]
        BY <2>6
      <4>3. d[i] = hs'[<<e, i - 1>>]
        BY <2>7, <4>1
      <4>4. hs'[<<e, i - 1>>] = hs[<<e, i - 1>>]
        BY <2>4
      <4> QED BY <4>2, <4>3, <4>4
    <3>4. d[n + 1] = m
      <4>1. n + 1 \in 1 .. n + 1 /\ (n + 1) - 1 = n
        BY <3>1
      <4> QED BY <2>5, <2>7, <4>1
    <3> HIDE DEF c, d, m, n
    <3>5. /\ Append(c, m) \in Seq(Msg) /\ Len(Append(c, m)) = n + 1
          /\ \A i \in 1 .. n : Append(c, m)[i] = c[i]
          /\ Append(c, m)[n + 1] = m
      BY <3>1, <3>2
    <3>6. \A i \in 1 .. Len(d) : d[i] = Append(c, m)[i]
      BY <3>1, <3>2, <3>3, <3>4, <3>5
    <3>7. d = Append(c, m)
      BY <3>2, <3>5, <3>6, SeqEqual
    <3> QED BY <3>7 DEF c, d, m
  <2>9. Top.m \in Owing /\ \A y \in Owing \ {Top.m} : stamp[Top.m] < stamp[y]
    <3> DEFINE x == <<snap, Top.m>>
    <3>1. x \in wrote /\ x[1] = snap /\ x[2] = Top.m
      BY <1>4
    <3> HIDE DEF x
    <3> QED BY <3>1 DEF IInv, IWrote
  <2>10. AckedNow + 1 \in 1 .. Len(OrderNow) /\ OrderNow[AckedNow + 1] = Top.m
    BY <2>9, NextInOrder
  <2>11. AckedNow < Len(OrderNow) /\ Len(ChanNow) = AckedNow - BaseNow
    BY <2>6, <2>10, MapTypes
  <2> QED BY <1>1, <1>3, <2>8, <2>10, <2>11 DEF OB!Write
<1> QED BY <1>5, <1>6

(* A finalize confirms the write in the last slot.                          *)
LEMMA ConfirmsMaps ==
    ASSUME TypeOK, IInv, ISlots, IOrder, Confirms
    PROVE  IOrder' /\ OB!Confirm
<1>1. /\ Top.pos = snap /\ snap \in Pos /\ <<snap, Top.m>> \in wrote
      /\ Top.m \in Msg /\ Top.m # NoMsg /\ hs[snap] = Top.m
  BY SlotIsOwn DEF Confirms, ISlots
<1>2. Top.m \in Owing /\ \A y \in Owing \ {Top.m} : stamp[Top.m] < stamp[y]
  <2> DEFINE x == <<snap, Top.m>>
  <2>1. x \in wrote /\ x[1] = snap /\ x[2] = Top.m
    BY <1>1
  <2> HIDE DEF x
  <2> QED BY <2>1 DEF IInv, IWrote
<1>3. Owing \subseteq Accepted
  BY OwingKnown DEF Accepted, Owing, TypeOK
<1>4. /\ Accepted' = Accepted /\ Owing' = Owing \ {Top.m} /\ stamp' = stamp
      /\ snap' = Next1(snap) /\ epoch' = epoch /\ hs' = hs
  BY DEF Confirms
<1>5. Confirmed' = Confirmed \cup {Top.m} /\ Top.m \notin Confirmed
  BY <1>2, <1>3, <1>4 DEF Confirmed
<1>6. IOrder'
  <2>1. \A x \in Confirmed', y \in Owing' : stamp'[x] < stamp'[y]
    BY <1>2, <1>4, <1>5 DEF IOrder
  <2> QED BY <1>4, <2>1 DEF IOrder
<1>7. OrderNow' = OrderNow
  BY <1>4 DEF OrderNow
<1>8. AckedNow' = AckedNow + 1 /\ AckedNow \in Nat
  <2>1. IsFiniteSet(Confirmed)
    BY FS_Subset DEF IOrder, Confirmed
  <2> QED BY <1>5, <2>1, FS_AddElement, MapTypes DEF AckedNow
<1>9. snap[2] \in Nat /\ snap'[2] = snap[2] + 1
  BY <1>4, SlotCount DEF Next1
<1>10. BaseNow' = BaseNow
  BY <1>8, <1>9 DEF BaseNow
<1>11. Slots' = Slots /\ ChanNow' = ChanNow
  BY <1>4 DEF Slots, ChanNow
<1>12. Len(ChanNow) = AckedNow - BaseNow + 1
  BY <1>1, MapTypes DEF Extent
<1> QED BY <1>6, <1>7, <1>8, <1>10, <1>11, <1>12 DEF OB!Confirm

(* A new session starts with the first write that is not confirmed.         *)
LEMMA OpensMaps ==
    ASSUME TypeOK, IInv, ISlots, IOrder, Opens
    PROVE  IOrder' /\ OB!NewSession
<1>1. IOrder' /\ OrderNow' = OrderNow /\ AckedNow' = AckedNow
  BY StillOrder DEF Opens
<1>2. AckedNow \in Nat /\ snap' = <<epoch + 1, 0>>
  BY MapTypes DEF Opens
<1>3. BaseNow' = AckedNow
  BY <1>1, <1>2 DEF BaseNow
<1>4. Slots' = {}
  <2>1. ASSUME NEW p \in Pos, p[1] = epoch + 1, hs[p] # NoMsg PROVE FALSE
    <3> DEFINE x == <<p, hs[p]>>
    <3>1. x \in wrote /\ x[1] = p
      BY <2>1 DEF ISlots
    <3> HIDE DEF x
    <3>2. p[1] <= epoch
      BY <3>1 DEF IInv, IWrote
    <3> QED BY <2>1, <3>2, BoundsAssumption DEF TypeOK
  <2> QED BY <2>1 DEF Slots, Opens
<1>5. ChanNow' = <<>>
  <2>1. Cardinality(Slots') = 0
    BY <1>4, FS_EmptySet
  <2>2. 1 .. Cardinality(Slots') = {}
    BY <2>1
  <2> QED BY <2>2 DEF ChanNow
<1> QED BY <1>1, <1>3, <1>5 DEF OB!NewSession

-----------------------------------------------------------------------------
(* Every step is of one of these kinds                                       *)

LEMMA RowsStill ==
    ASSUME UNCHANGED <<row, queue, stamp>>
    PROVE  Still
BY DEF Still, Accepted, Owing, Known

LEMMA SameRowsStill ==
    ASSUME TypeOK, SameRows
    PROVE  Still
<1>1. Owing' = Owing /\ (\A m \in Msg : Known(m)' <=> Known(m)) /\ stamp' = stamp
  BY SameRowsKeep DEF SameRows
<1> QED BY <1>1 DEF Still, Accepted

LEMMA ReadyKinds ==
    ASSUME TypeOK, LinkReady, UNCHANGED <<row, queue, stamp, hs>>
    PROVE  Steady \/ Opens
<1>1. Still
  BY RowsStill
<1>2. CASE UNCHANGED <<epoch, snap>>
  BY <1>1, <1>2 DEF Steady
<1>3. CASE epoch < MaxEpoch /\ epoch' = epoch + 1 /\ snap' = <<epoch + 1, 0>>
  <2>1. epoch' \in 0 .. MaxEpoch
    BY <1>3, BoundsAssumption DEF TypeOK
  <2> QED BY <1>1, <1>3, <2>1 DEF Opens
<1> QED BY <1>2, <1>3 DEF LinkReady

Kinds == Steady \/ (\E m \in Msg : Takes(m)) \/ Puts \/ Confirms \/ Opens

LEMMA UnwindKinds ==
    ASSUME SerializedPaths, TypeOK, IInv,
           DrainBlocked \/ Retire \/ EnsureNotReady \/ EnsureFailed \/ PutTransient \/ PutRejected
    PROVE  Kinds
<1> USE DEF dbVars, timeVars, linkVars, passVars, laterVars, netVars
<1>1. Still /\ UNCHANGED <<epoch, snap>>
  BY UnwindSame, SameRowsStill
<1>2. CASE DrainBlocked \/ Retire \/ EnsureNotReady \/ EnsureFailed
  <2>1. hs' = hs
    BY <1>2 DEF DrainBlocked, Retire, EnsureNotReady, EnsureFailed
  <2> QED BY <1>1, <2>1 DEF Steady, Kinds
<1>3. CASE PutTransient \/ PutRejected
  BY <1>1, <1>3 DEF PutTransient, PutRejected, Puts, Kinds
<1> QED BY <1>2, <1>3

LEMMA QuietKinds ==
    ASSUME TypeOK, IInv,
           \/ \E m \in Msg : \/ SendStart(m) \/ AttemptStart(m) \/ Claim(m) \/ ClaimExpires(m)
                              \/ DeliverStart(m) \/ HealList(m) \/ Age(m)
           \/ DrainOlder \/ Rescan \/ Proceed \/ Encrypt
    PROVE  Kinds
<1> USE DEF dbVars, timeVars, linkVars, passVars, laterVars, netVars
<1>1. UNCHANGED <<row, queue, stamp, snap, epoch, hs>>
  BY DEF SendStart, AttemptStart, Claim, ClaimExpires, DeliverStart, HealList, Age, DrainOlder,
         Rescan, Proceed, Encrypt
<1> QED BY <1>1, RowsStill DEF Steady, Kinds

LEMMA HealKinds ==
    ASSUME TypeOK, IInv, NEW m \in Msg, Heal(m)
    PROVE  Kinds
<1> USE DEF dbVars, timeVars, linkVars, passVars, laterVars, netVars
<1>1. /\ queue' = queue \cup {m} /\ m \in healing
      /\ UNCHANGED <<row, stamp, snap, epoch, hs>>
  BY DEF Heal
<1>2. m \in queue \/ row[m] = "sent"
  BY <1>1 DEF IInv, IRows, TypeOK
<1>3. Owing' = Owing /\ Accepted' = Accepted
  BY <1>1, <1>2 DEF Owing, Accepted, Known
<1> QED BY <1>1, <1>3 DEF Still, Steady, Kinds

LEMMA SettleKinds ==
    ASSUME SerializedPaths, TypeOK, IInv, Settle
    PROVE  Kinds
<1> USE DEF dbVars, timeVars, linkVars, passVars, laterVars, netVars
<1>1. ~Free /\ Settled(Top.m) /\ Top.m \in Msg
  BY TopFrame DEF Settle, Checking, Draining
<1>2. Top.m \notin Owing
  BY <1>1, NotSettled DEF IInv
<1>3. queue' = queue \ {Top.m} /\ UNCHANGED <<row, stamp, snap, epoch, hs>>
  BY DEF Settle
<1>4. Owing' = Owing /\ Accepted' = Accepted
  BY <1>2, <1>3 DEF Owing, Accepted, Known
<1> QED BY <1>3, <1>4 DEF Still, Steady, Kinds

LEMMA FinalizeKinds ==
    ASSUME TypeOK, IInv, Finalize
    PROVE  Kinds
<1> USE DEF dbVars, timeVars, linkVars, passVars, laterVars, netVars
<1>1. /\ ~Free /\ Top.ph = "fin" /\ Top.m \in Msg /\ FrameInv(Top) /\ Top.pos = snap
      /\ snap # NoPos
  BY TopFrame, PosFacts DEF Finalize, IInv, ILink
<1>2. Known(Top.m)
  BY <1>1 DEF FrameInv, PastChecks, Owing, Known
<1>3. /\ stamp' = stamp /\ queue' = queue \ {Top.m} /\ snap' = Next1(snap)
      /\ UNCHANGED <<epoch, hs>>
  BY <1>1 DEF Finalize, Checkpoint
<1>4. /\ \A y \in Msg : y # Top.m => row'[y] = row[y]
      /\ row'[Top.m] # "none"
  <2>1. row' = row \/ row' = [row EXCEPT ![Top.m] = "sent"]
    BY DEF Finalize
  <2> QED BY <1>1, <1>2, <2>1 DEF TypeOK, Known
<1>5. Accepted' = Accepted
  BY <1>2, <1>4 DEF Accepted, Known
<1>6. Owing' = Owing \ {Top.m}
  BY <1>3, <1>4 DEF Owing, TypeOK
<1> QED BY <1>1, <1>3, <1>5, <1>6 DEF Confirms, Kinds

LEMMA EnterKinds ==
    ASSUME SerializedPaths, TypeOK, IInv,
           SendEnsure \/ SendPersist \/ EnsureReady \/ EnsureLink \/ \E m \in Msg : FanoutPersist(m)
    PROVE  Kinds
<1> USE DEF dbVars, timeVars, linkVars, passVars, laterVars, netVars
<1>1. CASE SendEnsure
  <2>1. ~Free /\ Top.k = "send" /\ Top.ph = "ensure" /\ Top.m \in Msg /\ ~Known(Top.m) /\ hs' = hs
    BY <1>1, TopFrame DEF SendEnsure, FrameInv, Unpersisted
  <2>2. CASE UNCHANGED <<row, queue, snap, stamp, clock, linkVars>>
    BY <2>1, <2>2, RowsStill DEF Steady, Kinds
  <2>3. CASE /\ row' = [row EXCEPT ![Top.m] = "sending"] /\ Insert(Top.m)
             /\ UNCHANGED <<snap, linkVars>>
    <3>1. Takes(Top.m)
      BY <1>1, <2>1, <2>3 DEF SendEnsure, Queues, Takes
    <3> QED BY <2>1, <3>1 DEF Kinds
  <2>4. CASE LinkReady /\ UNCHANGED <<row, queue, stamp, clock>>
    BY <2>1, <2>4, ReadyKinds DEF Kinds
  <2> QED BY <1>1, <2>2, <2>3, <2>4 DEF SendEnsure
<1>2. CASE SendPersist
  <2>1. ~Free /\ Top.ph = "persist" /\ Top.k = "send" /\ Top.m \in Msg
    BY <1>2, TopType, TopFrame DEF SendPersist, FrameOK
  <2>2. ~Known(Top.m)
    BY <2>1, TopFrame DEF FrameInv, Unpersisted
  <2>3. Takes(Top.m)
    BY <1>2, <2>2 DEF SendPersist, Queues, Takes
  <2> QED BY <2>1, <2>3 DEF Kinds
<1>3. CASE EnsureReady
  <2>1. LinkReady /\ UNCHANGED <<row, queue, stamp, hs>>
    BY <1>3 DEF EnsureReady
  <2> QED BY <2>1, ReadyKinds DEF Kinds
<1>4. CASE EnsureLink
  <2>1. UNCHANGED <<queue, stamp, hs>> /\ snap # NoPos
    BY <1>4, PosFacts DEF EnsureLink, IInv, ILink
  <2>2. CASE LinkReady /\ UNCHANGED row
    BY <2>1, <2>2, ReadyKinds DEF Kinds
  <2>3. CASE UNCHANGED <<epoch, snap, row>>
    BY <2>1, <2>3, RowsStill DEF Steady, Kinds
  <2> QED BY <1>4, <2>1, <2>2, <2>3 DEF EnsureLink
<1>5. ASSUME NEW m \in Msg, FanoutPersist(m) PROVE Kinds
  <2>1. Takes(m)
    BY <1>5 DEF FanoutPersist, Queues, Takes, Known
  <2> QED BY <2>1 DEF Kinds
<1> QED BY <1>1, <1>2, <1>3, <1>4, <1>5

LEMMA PutOkKinds ==
    ASSUME TypeOK, PutOk
    PROVE  Kinds
<1> USE DEF dbVars, timeVars, linkVars, passVars, laterVars, netVars
<1>1. /\ ~Free /\ Top.ph = "putting" /\ UNCHANGED <<row, queue, stamp, snap, epoch>>
      /\ hs' = [hs EXCEPT ![Top.pos] = Top.m]
  BY DEF PutOk
<1> QED BY <1>1, RowsStill DEF Puts, PutOutcomes, Kinds

LEMMA CrashKinds ==
    ASSUME SerializedPaths, TypeOK, Crash
    PROVE  Kinds
<1> USE DEF dbVars, timeVars, linkVars, passVars, laterVars, netVars
<1>1. UNCHANGED <<row, queue, stamp, snap, epoch>>
  BY Serialized DEF Crash
<1>2. Still
  BY <1>1, RowsStill
<1>3. CASE hs' = hs
  BY <1>1, <1>2, <1>3 DEF Steady, Kinds
<1>4. CASE hs' # hs
  <2>1. PICK f \in InFlight : hs' = [hs EXCEPT ![f[1]] = f[2]]
    BY <1>4 DEF Crash
  <2>2. ~Free /\ Top.ph = "putting" /\ f = <<Top.pos, Top.m>>
    BY <2>1, Serialized DEF InFlight
  <2>3. f[1] = Top.pos /\ f[2] = Top.m
    BY <2>2
  <2>4. hs' \in PutOutcomes(Top.pos, Top.m)
    BY <2>1, <2>3 DEF PutOutcomes
  <2> QED BY <1>1, <1>2, <2>2, <2>4 DEF Puts, Kinds
<1> QED BY <1>3, <1>4

LEMMA StepKinds ==
    ASSUME SerializedPaths, TypeOK, IInv, [Next]_vars
    PROVE  Kinds
<1>1. CASE UNCHANGED vars
  BY <1>1, RowsStill DEF vars, dbVars, timeVars, linkVars, passVars, laterVars, netVars, Steady, Kinds
<1>2. /\ ~FinalizeFails /\ ~ResetRetire /\ ~ResetDrop /\ ~Flush
      /\ \A m \in Dms, c \in Controls : ~Unsend(m, c)
      /\ \A m \in Msg : ~FanoutStamp(m) /\ ~FanoutInsert(m) /\ ~Receipt(m) /\ ~RestoreBackup(m)
  <2>1. ~FinalizeFails /\ ~ResetRetire /\ ~Flush
    BY Serialized DEF FinalizeFails, ResetRetire, Flush
  <2>2. ~ResetDrop
    BY TopFrame DEF ResetDrop
  <2>3. \A m \in Msg : ~FanoutStamp(m) /\ ~FanoutInsert(m) /\ ~Receipt(m) /\ ~RestoreBackup(m)
    BY Serialized DEF FanoutStamp, FanoutInsert, Receipt, RestoreBackup
  <2> QED BY <2>1, <2>2, <2>3, Serialized
<1>3. CASE Next
  BY <1>2, <1>3, Serialized, UnwindKinds, QuietKinds, HealKinds, SettleKinds, FinalizeKinds,
     EnterKinds, PutOkKinds, CrashKinds DEF Next
<1> QED BY <1>1, <1>3

LEMMA StepMaps ==
    ASSUME SerializedPaths, MapInv, MapInv', [Next]_vars
    PROVE  [OB!Next]_OB!vars
<1>1. TypeOK /\ IInv /\ ISlots /\ IOrder /\ TypeOK' /\ IInv' /\ ISlots'
  BY DEF MapInv
<1>2. Kinds
  BY <1>1, StepKinds
<1>3. CASE \E m \in Msg : Takes(m)
  BY <1>1, <1>3, TakesMaps DEF OB!Next
<1>4. CASE Puts
  BY <1>1, <1>4, PutsMaps DEF OB!Next
<1>5. CASE Confirms
  BY <1>1, <1>5, ConfirmsMaps DEF OB!Next
<1>6. CASE Opens
  BY <1>1, <1>6, OpensMaps DEF OB!Next
<1>7. CASE Steady
  BY <1>1, <1>7, SteadyMaps
<1> QED BY <1>2, <1>3, <1>4, <1>5, <1>6, <1>7 DEF Kinds

LEMMA OrderStep ==
    ASSUME SerializedPaths, MapInv, TypeOK', IInv', ISlots', [Next]_vars
    PROVE  IOrder'
<1>1. TypeOK /\ IInv /\ ISlots /\ IOrder
  BY DEF MapInv
<1>2. Kinds
  BY <1>1, StepKinds
<1> QED BY <1>1, <1>2, TakesMaps, PutsMaps, ConfirmsMaps, OpensMaps, SteadyMaps DEF Kinds

LEMMA OrderInit == Init => IOrder
<1> SUFFICES ASSUME Init PROVE IOrder
  OBVIOUS
<1>1. Accepted = {} /\ Confirmed = {}
  BY DEF Init, Accepted, Confirmed, Known
<1> QED BY <1>1, FS_EmptySet DEF IOrder

LEMMA InitMaps == Init => OB!Init
<1> SUFFICES ASSUME Init PROVE OB!Init
  OBVIOUS
<1>1. Accepted = {} /\ Confirmed = {} /\ Slots = {} /\ snap[2] = 0
  BY DEF Init, Accepted, Confirmed, Known, Slots
<1>2. Cardinality({}) = 0 /\ 1 .. 0 = {}
  BY FS_EmptySet
<1>3. OrderNow = <<>> /\ ChanNow = <<>> /\ AckedNow = 0 /\ BaseNow = 0
  BY <1>1, <1>2 DEF OrderNow, Ranked, ChanNow, AckedNow, BaseNow
<1> QED BY <1>3 DEF OB!Init

(* The order the mapping reads off the stamps has no hole, and what is      *)
(* confirmed precedes what is owed, in every state.                         *)
THEOREM MappingInvariant ==
    ASSUME SerializedPaths
    PROVE  Spec => []MapInv
<1>1. MapInv /\ TypeOK' /\ IInv' /\ ISlots' /\ [Next]_vars => IOrder'
  BY OrderStep
<1>2. MapInv <=> TypeOK /\ IInv /\ ISlots /\ IOrder
  BY DEF MapInv
<1> QED BY <1>1, <1>2, OrderInit, TypeCorrect, SerializedInvariant, SlotsInvariant, PTL DEF Spec

(* The send path implements the outbox: whatever answers are lost, passes   *)
(* collide, claims are stolen, links re-keyed, rows healed or tabs          *)
(* restarted, the peer reads each session as the next writes in the order   *)
(* they were accepted in, and a write is confirmed before the next is put.  *)
THEOREM SendPathImplementsOutbox ==
    ASSUME SerializedPaths
    PROVE  Spec => ImplementsOutbox
<1>1. MapInv /\ MapInv' /\ [Next]_vars => [OB!Next]_OB!vars
  BY StepMaps
<1> QED BY <1>1, InitMaps, MappingInvariant, PTL DEF Spec, ImplementsOutbox, OB!Spec

(* What ReadsInOrder needs to be inductive: the types, and that a session    *)
(* starts no later than the first unconfirmed write.                        *)
IOutbox ==
    /\ OrderNow \in Seq(Msg)
    /\ ChanNow \in Seq(Msg)
    /\ AckedNow \in Nat /\ BaseNow \in Nat
    /\ BaseNow <= AckedNow
    /\ AckedNow <= Len(OrderNow)
    /\ OB!ReadsInOrder

LEMMA OutboxStep == IOutbox /\ [OB!Next]_OB!vars => IOutbox'
<1> SUFFICES ASSUME IOutbox, [OB!Next]_OB!vars PROVE IOutbox'
  OBVIOUS
<1>t. /\ OrderNow \in Seq(Msg) /\ ChanNow \in Seq(Msg) /\ AckedNow \in Nat /\ BaseNow \in Nat
      /\ BaseNow <= AckedNow /\ AckedNow <= Len(OrderNow)
      /\ Len(OrderNow) \in Nat /\ Len(ChanNow) \in Nat
      /\ BaseNow + Len(ChanNow) <= Len(OrderNow)
      /\ BaseNow + Len(ChanNow) \in {AckedNow, AckedNow + 1}
      /\ \A i \in 1 .. Len(ChanNow) : ChanNow[i] = OrderNow[BaseNow + i]
  BY DEF IOutbox, OB!ReadsInOrder
<1>1. ASSUME NEW m \in Msg, OB!Accept(m) PROVE IOutbox'
  <2>1. /\ OrderNow' \in Seq(Msg) /\ Len(OrderNow') = Len(OrderNow) + 1
        /\ \A i \in 1 .. Len(OrderNow) : OrderNow'[i] = OrderNow[i]
    BY <1>1, <1>t DEF OB!Accept
  <2>2. \A i \in 1 .. Len(ChanNow) : BaseNow + i \in 1 .. Len(OrderNow)
    BY <1>t
  <2>3. \A i \in 1 .. Len(ChanNow) : ChanNow[i] = OrderNow'[BaseNow + i]
    BY <1>t, <2>1, <2>2
  <2> QED BY <1>1, <1>t, <2>1, <2>3 DEF OB!Accept, IOutbox, OB!ReadsInOrder
<1>2. CASE OB!Write
  <2>1. AckedNow + 1 \in 1 .. Len(OrderNow) /\ OrderNow[AckedNow + 1] \in Msg
    BY <1>2, <1>t DEF OB!Write
  <2>2. /\ ChanNow' \in Seq(Msg) /\ Len(ChanNow') = Len(ChanNow) + 1
        /\ \A i \in 1 .. Len(ChanNow) : ChanNow'[i] = ChanNow[i]
        /\ ChanNow'[Len(ChanNow) + 1] = OrderNow[AckedNow + 1]
    <3>1. Len(ChanNow) = AckedNow - BaseNow /\ ChanNow' = Append(ChanNow, OrderNow[AckedNow + 1])
      BY <1>2 DEF OB!Write
    <3> DEFINE w == OrderNow[AckedNow + 1]
    <3>2. w \in Msg /\ ChanNow' = Append(ChanNow, w) /\ ChanNow \in Seq(Msg)
      BY <1>t, <2>1, <3>1
    <3> HIDE DEF w
    <3>3. /\ Append(ChanNow, w) \in Seq(Msg) /\ Len(Append(ChanNow, w)) = Len(ChanNow) + 1
          /\ \A i \in 1 .. Len(ChanNow) : Append(ChanNow, w)[i] = ChanNow[i]
          /\ Append(ChanNow, w)[Len(ChanNow) + 1] = w
      BY <3>2
    <3> QED BY <3>2, <3>3 DEF w
  <2>3. Len(ChanNow) = AckedNow - BaseNow
    BY <1>2 DEF OB!Write
  <2>4. \A i \in 1 .. Len(ChanNow') : i \in 1 .. Len(ChanNow) \/ i = Len(ChanNow) + 1
    BY <1>t, <2>2
  <2>5. \A i \in 1 .. Len(ChanNow') : ChanNow'[i] = OrderNow[BaseNow + i]
    <3> SUFFICES ASSUME NEW i \in 1 .. Len(ChanNow') PROVE ChanNow'[i] = OrderNow[BaseNow + i]
      OBVIOUS
    <3>1. CASE i \in 1 .. Len(ChanNow)
      BY <3>1, <1>t, <2>2
    <3>2. CASE i = Len(ChanNow) + 1
      <4>1. BaseNow + i = AckedNow + 1
        BY <3>2, <1>t, <2>3
      <4> QED BY <3>2, <4>1, <2>2
    <3> QED BY <3>1, <3>2, <2>4
  <2> QED BY <1>2, <1>t, <2>1, <2>2, <2>3, <2>5 DEF OB!Write, IOutbox, OB!ReadsInOrder
<1>3. CASE OB!Confirm
  BY <1>3, <1>t DEF OB!Confirm, IOutbox, OB!ReadsInOrder
<1>4. CASE OB!NewSession
  BY <1>4, <1>t DEF OB!NewSession, IOutbox, OB!ReadsInOrder
<1>5. CASE UNCHANGED OB!vars
  BY <1>5 DEF OB!vars, IOutbox, OB!ReadsInOrder
<1> QED BY <1>1, <1>2, <1>3, <1>4, <1>5 DEF OB!Next

(* The peer of an outbox reads the accepted writes in order and without      *)
(* omission, for any number of writes and sessions.                         *)
THEOREM PeerReadsInOrder == OB!Spec => []OB!ReadsInOrder
<1>1. OB!Init => IOutbox
  BY DEF OB!Init, IOutbox, OB!ReadsInOrder
<1>2. IOutbox => OB!ReadsInOrder
  BY DEF IOutbox
<1> QED BY <1>1, <1>2, OutboxStep, PTL DEF OB!Spec

(* What the peer of a link reads, in terms of the homeserver: the occupied  *)
(* slots of the current session are the accepted writes in the order of     *)
(* their stamps, from the first one not confirmed when the session began,   *)
(* and at most one slot lies ahead of what is confirmed.                    *)
THEOREM LinkReadsInOrder ==
    ASSUME SerializedPaths
    PROVE  Spec => []OB!ReadsInOrder
BY SendPathImplementsOutbox, PeerReadsInOrder, PTL DEF ImplementsOutbox
=============================================================================
