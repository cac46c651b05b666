---------------------------- MODULE TabStoreProofs ----------------------------
(***************************************************************************)
(* Proofs about TabStore and the election under it: the types, without any  *)
(* hypothesis, and from the invariant StoreInv that no put takes a row      *)
(* away, that a yielding tab has put its rows, and that who may write has   *)
(* read every row put before; then, of the election alone, that a critical   *)
(* section is not interrupted.                                              *)
(***************************************************************************)
EXTENDS TabStore, SequenceTheorems, TLAPS

-----------------------------------------------------------------------------
(* Types.                                                                    *)

LEMMA MaxOfTwo == ASSUME NEW n \in Nat PROVE Max({0, n - 1}) = IF n = 0 THEN 0 ELSE n - 1
<1> DEFINE m == IF n = 0 THEN 0 ELSE n - 1
<1>1. m \in {0, n - 1} /\ \A y \in {0, n - 1} : m >= y
  OBVIOUS
<1>2. \A x \in {0, n - 1} : (\A y \in {0, n - 1} : x >= y) => x = m
  OBVIOUS
<1>3. Max({0, n - 1}) = CHOOSE x \in {0, n - 1} : \A y \in {0, n - 1} : x >= y
  BY DEF Max
<1> HIDE DEF m
<1>4. Max({0, n - 1}) = m
  BY <1>1, <1>2, <1>3
<1> QED BY <1>4 DEF m

LEMMA ClosedType == Closed \in TabType
BY TabsAssumption, LimitsAssumption DEF Closed, TabType, Phases, Flushes, None

LEMMA EmitType == ASSUME NEW r \in TabType PROVE Emit(r) \in TabType
<1>1. [r EXCEPT !.pend = FALSE, !.refresh = TRUE] \in TabType
  BY DEF TabType
<1> QED BY <1>1 DEF Emit

LEMMA FlushType ==
    ASSUME NEW r \in TabType, NEW k \in Flushes
    PROVE  BeginYielding(r) \in TabType /\ StartFlush(r, k) \in TabType
<1>1. [r EXCEPT !.yielding = TRUE] \in TabType /\ [r EXCEPT !.flush = @ \cup {k}] \in TabType
  BY DEF TabType
<1>2. BeginYielding(r) \in TabType
  BY <1>1, EmitType DEF BeginYielding
<1>3. \A q \in TabType : BeginYielding(q) \in TabType
  <2> TAKE q \in TabType
  <2>1. [q EXCEPT !.yielding = TRUE] \in TabType
    BY DEF TabType
  <2> QED BY <2>1, EmitType DEF BeginYielding
<1> QED BY <1>1, <1>2, <1>3 DEF StartFlush

LEMMA AbortType ==
    ASSUME NEW r \in TabType, NEW o \in BOOLEAN
    PROVE  /\ Abort(r, o) \in TabType
           /\ AbortPendingSteal(r) \in TabType
           /\ RequestAbort(r, o) \in TabType
<1>1. \A q \in TabType : Abort(q, o) \in TabType
  <2> TAKE q \in TabType
  <2>1. [q EXCEPT !.cur = None] \in TabType
    BY DEF TabType
  <2>2. q.cur \in Slots => [q EXCEPT !.aborted = @ \cup {q.cur}] \in TabType
    BY DEF TabType
  <2>3. (IF o THEN "own" ELSE "zombie") \in Flushes
    BY DEF Flushes
  <2> QED BY <2>1, <2>2, <2>3, FlushType DEF Abort
<1>2. AbortPendingSteal(r) \in TabType
  BY DEF AbortPendingSteal, TabType
<1>3. [r EXCEPT !.deferred = TRUE] \in TabType
  BY DEF TabType
<1>4. BeginYielding(r) \in TabType
  BY FlushType DEF Flushes
<1> QED BY <1>1, <1>2, <1>3, <1>4 DEF RequestAbort

LEMMA LeaveType ==
    ASSUME NEW r \in TabType, NEW d \in 0 .. MaxDepth, NEW o \in BOOLEAN
    PROVE  LeaveAt(r, d, o) \in TabType
<1>1. [r EXCEPT !.depth = d] \in TabType
  BY DEF TabType
<1>2. 0 \in 0 .. MaxDepth
  BY LimitsAssumption
<1>3. [r EXCEPT !.depth = 0, !.deferred = FALSE] \in TabType
  BY <1>2 DEF TabType
<1> QED BY <1>1, <1>3, AbortType DEF LeaveAt

LEMMA AcquireType ==
    ASSUME NEW r \in TabType, NEW s \in Slots, NEW o \in BOOLEAN, NEW p \in Phases
    PROVE  TryAcquire(r, s, o, p) \in TabType
<1> DEFINE a == Abort(r, o)
<1>1. a \in TabType
  BY AbortType
<1> HIDE DEF a
<1> DEFINE as == Append(a.asks, s)
           ab == a.aborted \ {s}
           ph == [a.ph EXCEPT ![s] = p]
<1>2. as \in Seq(Slots) /\ ab \in SUBSET Slots /\ ph \in [Slots -> Phases]
  BY <1>1 DEF TabType
<1>3. TryAcquire(r, s, o, p) = [a EXCEPT !.cur = s, !.asks = as, !.aborted = ab, !.ph = ph]
  BY DEF TryAcquire, a
<1> HIDE DEF as, ab, ph
<1>4. [a EXCEPT !.cur = s, !.asks = as, !.aborted = ab, !.ph = ph] \in TabType
  BY <1>1, <1>2 DEF TabType
<1> QED BY <1>3, <1>4

LEMMA AfterStealType ==
    ASSUME NEW r \in TabType, NEW s
    PROVE  AfterSteal(r, s) \in TabType
<1>1. [r EXCEPT !.ph[s] = "settle"] \in TabType
  BY DEF TabType, Phases
<1> DEFINE a == AbortPendingSteal(r)
<1>2. a \in TabType
  BY AbortType
<1> HIDE DEF a
<1>3. [a EXCEPT !.surface = TRUE, !.taking = FALSE, !.ph[s] = "idle"] \in TabType
  BY <1>2 DEF TabType, Phases
<1> QED BY <1>1, <1>3, EmitType DEF AfterSteal, a

LEMMA UpdateType ==
    ASSUME LockTypeOK, NEW t \in Tabs, NEW r \in TabType, Update(t, r)
    PROVE  tab' \in [Tabs -> TabType]
BY DEF LockTypeOK, Update

LEMMA BroadcastType ==
    ASSUME NEW t \in Tabs, NEW kind \in {"yield", "claim"}
    PROVE  Broadcast(t, kind) \subseteq Tabs \X {"yield", "claim"}
BY DEF Broadcast

LEMMA GrantedType ==
    ASSUME LockTypeOK, NEW t \in Tabs, NEW s \in Slots, Granted(t, s)
    PROVE  LockTypeOK'
<1> DEFINE r == tab[t]
           kept == IF r.ph[s] = "retry" THEN [AbortPendingSteal(r) EXCEPT !.taking = FALSE] ELSE r
           won == Emit([kept EXCEPT !.mode = "writer", !.yielding = FALSE, !.ph[s] = "idle",
                                    !.aborted = @ \ {s}, !.asks = Tail(@),
                                    !.cur = IF @ # s THEN @
                                            ELSE IF s \in r.aborted THEN None ELSE "held"])
<1>1. r \in TabType /\ r.asks # <<>>
  BY DEF LockTypeOK, Granted, Asking
<1>2. kept \in TabType /\ kept.asks = r.asks
  <2>1. AbortPendingSteal(r) \in TabType
    BY <1>1, AbortType
  <2>2. AbortPendingSteal(r).asks = r.asks
    BY <1>1 DEF AbortPendingSteal, TabType
  <2>3. \A q \in TabType : [q EXCEPT !.taking = FALSE] \in TabType /\ [q EXCEPT !.taking = FALSE].asks = q.asks
    BY DEF TabType
  <2> QED BY <1>1, <2>1, <2>2, <2>3
<1>3. won \in TabType
  <2> DEFINE as == Tail(kept.asks)
             ab == kept.aborted \ {s}
             ph == [kept.ph EXCEPT ![s] = "idle"]
             cu == IF kept.cur # s THEN kept.cur ELSE IF s \in r.aborted THEN None ELSE "held"
  <2>1. as \in Seq(Slots)
    BY <1>1, <1>2 DEF TabType
  <2>2. ab \in SUBSET Slots /\ ph \in [Slots -> Phases] /\ cu \in Slots \cup {None, "held"}
    BY <1>2 DEF TabType, Phases
  <2>3. won = Emit([kept EXCEPT !.mode = "writer", !.yielding = FALSE, !.ph = ph,
                                !.aborted = ab, !.asks = as, !.cur = cu])
    OBVIOUS
  <2> HIDE DEF as, ab, ph, cu, won, kept
  <2>4. [kept EXCEPT !.mode = "writer", !.yielding = FALSE, !.ph = ph,
                     !.aborted = ab, !.asks = as, !.cur = cu] \in TabType
    BY <1>2, <2>1, <2>2 DEF TabType
  <2> QED BY <2>3, <2>4, EmitType
<1>4. Update(t, IF s \in r.aborted THEN StartFlush(won, "own") ELSE won)
  BY DEF Granted
<1> HIDE DEF won, kept
<1>5. (IF s \in r.aborted THEN StartFlush(won, "own") ELSE won) \in TabType
  BY <1>3, FlushType DEF Flushes
<1>6. tab' \in [Tabs -> TabType]
  BY <1>4, <1>5, UpdateType
<1>7. msgs' \subseteq Tabs \X {"yield", "claim"}
  BY BroadcastType DEF Granted, LockTypeOK
<1> QED BY <1>6, <1>7 DEF Granted, LockTypeOK

LEMMA DeniedType ==
    ASSUME LockTypeOK, NEW t \in Tabs, NEW s \in Slots, Denied(t, s)
    PROVE  LockTypeOK'
<1> DEFINE r == [tab[t] EXCEPT !.mode = "readonly", !.asks = Tail(@),
                               !.cur = IF @ = s THEN None ELSE @]
<1>1. tab[t] \in TabType /\ tab[t].asks # <<>>
  BY DEF LockTypeOK, Denied, Asking
<1>2. r \in TabType
  <2> DEFINE as == Tail(tab[t].asks)
             cu == IF tab[t].cur = s THEN None ELSE tab[t].cur
  <2>1. as \in Seq(Slots) /\ cu \in Slots \cup {None, "held"}
    BY <1>1 DEF TabType
  <2>2. r = [tab[t] EXCEPT !.mode = "readonly", !.asks = as, !.cur = cu]
    OBVIOUS
  <2> HIDE DEF as, cu, r
  <2> QED BY <1>1, <2>1, <2>2 DEF TabType
<1>3. msgs' \subseteq Tabs \X {"yield", "claim"}
  BY BroadcastType DEF Denied, LockTypeOK
<1>4. \E q \in TabType : Update(t, q)
  <2>1. \A p \in Phases : [r EXCEPT !.ph[s] = p] \in TabType /\ [r EXCEPT !.taking = TRUE, !.ph[s] = p] \in TabType
    <3> HIDE DEF r
    <3> QED BY <1>2 DEF TabType
  <2>2. r.tries[s] < MaxTries => TryAcquire([r EXCEPT !.tries[s] = @ + 1], s, Owns(t), "retry") \in TabType
    <3> HIDE DEF r
    <3> HAVE r.tries[s] < MaxTries
    <3> DEFINE n == r.tries[s] + 1
    <3>1. n \in 0 .. MaxTries
      BY <1>2, LimitsAssumption DEF TabType
    <3> HIDE DEF n
    <3>2. [r EXCEPT !.tries[s] = n] \in TabType
      BY <1>2, <3>1 DEF TabType
    <3>3. Owns(t) \in BOOLEAN /\ "retry" \in Phases
      BY DEF Owns, Phases
    <3> QED BY <3>2, <3>3, AcquireType DEF n
  <2>3. [r EXCEPT !.ph[s] = "steal", !.psteal = s, !.aborted = @ \ {s}] \in TabType
    <3> HIDE DEF r
    <3>1. r.aborted \ {s} \in SUBSET Slots
      BY <1>2 DEF TabType
    <3> QED BY <1>2, <3>1 DEF TabType, Phases
  <2>4. "idle" \in Phases /\ "wait" \in Phases
    BY DEF Phases
  <2>5. \/ Update(t, [r EXCEPT !.ph[s] = "idle"])
        \/ Update(t, [r EXCEPT !.taking = TRUE, !.ph[s] = "wait"])
        \/ /\ r.tries[s] < MaxTries
           /\ Update(t, TryAcquire([r EXCEPT !.tries[s] = @ + 1], s, Owns(t), "retry"))
        \/ Update(t, [r EXCEPT !.ph[s] = "steal", !.psteal = s, !.aborted = @ \ {s}])
    BY DEF Denied
  <2> HIDE DEF r
  <2> QED BY <2>1, <2>2, <2>3, <2>4, <2>5
<1>5. tab' \in [Tabs -> TabType]
  BY <1>4, UpdateType
<1> QED BY <1>3, <1>5 DEF Denied, LockTypeOK

LEMMA StealGrantedType ==
    ASSUME LockTypeOK, NEW t \in Tabs, NEW s \in Slots, StealGranted(t, s)
    PROVE  LockTypeOK'
<1> DEFINE after == [u \in Tabs |-> IF u = owner THEN Robbed(tab[u]) ELSE tab[u]]
<1>1. \A q \in TabType : Robbed(q) \in TabType
  <2> TAKE q \in TabType
  <2> DEFINE fl == IF "own" \in q.flush THEN (q.flush \ {"own"}) \cup {"zombie"} ELSE q.flush
  <2>1. fl \in SUBSET Flushes
    BY DEF TabType, Flushes
  <2>2. Robbed(q) = [q EXCEPT !.rej = TRUE, !.flush = fl]
    BY DEF Robbed
  <2> HIDE DEF fl
  <2> QED BY <2>1, <2>2 DEF TabType
<1>2. after \in [Tabs -> TabType]
  BY <1>1 DEF LockTypeOK
<1> DEFINE q == Emit([after[t] EXCEPT !.psteal = None, !.cur = "held", !.yielding = FALSE,
                                      !.mode = "writer", !.ph[s] = "settle"])
<1>3. tab' = [after EXCEPT ![t] = q]
  BY DEF StealGranted
<1> HIDE DEF after
<1>4. [after[t] EXCEPT !.psteal = None, !.cur = "held", !.yielding = FALSE,
                       !.mode = "writer", !.ph[s] = "settle"] \in TabType
  <2> DEFINE a == after[t]
             ph == [a.ph EXCEPT ![s] = "settle"]
  <2>1. a \in TabType
    BY <1>2
  <2>2. ph \in [Slots -> Phases]
    BY <2>1 DEF TabType, Phases
  <2> HIDE DEF a, ph
  <2>3. [a EXCEPT !.psteal = None, !.cur = "held", !.yielding = FALSE,
                  !.mode = "writer", !.ph = ph] \in TabType
    BY <2>1, <2>2 DEF TabType
  <2> QED BY <2>3 DEF a, ph
<1>5. q \in TabType
  BY <1>4, EmitType
<1> HIDE DEF q
<1>6. tab' \in [Tabs -> TabType]
  BY <1>2, <1>3, <1>5
<1>7. msgs' \subseteq Tabs \X {"yield", "claim"}
  BY BroadcastType DEF StealGranted, LockTypeOK
<1> QED BY <1>6, <1>7 DEF StealGranted, LockTypeOK

LEMMA FlushEndType ==
    ASSUME LockTypeOK, NEW t \in Tabs, NEW k \in Flushes, FlushEnd(t, k)
    PROVE  LockTypeOK'
<1> DEFINE r == [tab[t] EXCEPT !.flush = @ \ {k}, !.yielding = FALSE, !.mode = "readonly"]
<1>1. r \in TabType
  <2>1. tab[t] \in TabType /\ tab[t].flush \ {k} \in SUBSET Flushes
    BY DEF LockTypeOK, TabType
  <2> QED BY <2>1 DEF TabType
<1>2. \A x : AfterSteal(r, x) \in TabType
  BY <1>1, AfterStealType
<1>3. \E x : Update(t, IF k = "refused" THEN AfterSteal(r, x) ELSE r)
  BY DEF FlushEnd
<1>4. tab' \in [Tabs -> TabType]
  <2> HIDE DEF r
  <2> QED BY <1>1, <1>2, <1>3, UpdateType
<1> QED BY <1>4 DEF FlushEnd, LockTypeOK

LEMMA TabStepType ==
    ASSUME LockTypeOK, NEW t \in Tabs, TabStep(t)
    PROVE  LockTypeOK'
<1>t. tab[t] \in TabType /\ Owns(t) \in BOOLEAN
  BY DEF LockTypeOK, Owns
<1>1. ASSUME NEW s \in Slots, StartTakeover(t, s) PROVE LockTypeOK'
  <2>1. [tab[t] EXCEPT !.pend = TRUE, !.surface = FALSE] \in TabType /\ "first" \in Phases
    BY <1>t DEF TabType, Phases
  <2>2. TryAcquire([tab[t] EXCEPT !.pend = TRUE, !.surface = FALSE], s, Owns(t), "first") \in TabType
    BY <1>t, <2>1, AcquireType
  <2>3. tab' \in [Tabs -> TabType]
    BY <1>1, <2>2, UpdateType DEF StartTakeover
  <2> QED BY <1>1, <2>3, LimitsAssumption DEF StartTakeover, LockTypeOK
<1>2. ASSUME NEW s \in Slots, WaitOver(t, s) PROVE LockTypeOK'
  <2>1. 1 \in 0 .. MaxTries
    BY LimitsAssumption
  <2>2. [tab[t] EXCEPT !.tries[s] = 1] \in TabType /\ "retry" \in Phases
    BY <1>t, <2>1 DEF TabType, Phases
  <2>3. TryAcquire([tab[t] EXCEPT !.tries[s] = 1], s, Owns(t), "retry") \in TabType
    BY <1>t, <2>2, AcquireType
  <2>4. tab' \in [Tabs -> TabType]
    BY <1>2, <2>3, UpdateType DEF WaitOver
  <2> QED BY <1>2, <2>4 DEF WaitOver, LockTypeOK
<1>3. ASSUME NEW s \in Slots, StealAborted(t, s) PROVE LockTypeOK'
  <2>1. [tab[t] EXCEPT !.aborted = @ \ {s}] \in TabType
    BY <1>t DEF TabType
  <2>2. tab' \in [Tabs -> TabType]
    BY <1>3, <2>1, AfterStealType, UpdateType DEF StealAborted
  <2> QED BY <1>3, <2>2 DEF StealAborted, LockTypeOK
<1>4. ASSUME NEW s \in Slots, StealRefused(t, s) PROVE LockTypeOK'
  <2>1. [tab[t] EXCEPT !.ph[s] = "refused"] \in TabType /\ "refused" \in Flushes
    BY <1>t DEF TabType, Phases, Flushes
  <2>2. tab' \in [Tabs -> TabType]
    BY <1>4, <2>1, FlushType, UpdateType DEF StealRefused
  <2> QED BY <1>4, <2>2 DEF StealRefused, LockTypeOK
<1>5. ASSUME NEW s \in Slots, SettleOver(t, s) PROVE LockTypeOK'
  <2>1. [tab[t] EXCEPT !.taking = FALSE, !.ph[s] = "idle"] \in TabType
    BY <1>t DEF TabType, Phases
  <2>2. tab' \in [Tabs -> TabType]
    BY <1>5, <2>1, EmitType, UpdateType DEF SettleOver
  <2> QED BY <1>5, <2>2 DEF SettleOver, LockTypeOK
<1>6. ASSUME Rejected(t) PROVE LockTypeOK'
  <2>1. [tab[t] EXCEPT !.rej = FALSE] \in TabType /\ "rejected" \in Flushes
    BY <1>t DEF TabType, Flushes
  <2>2. tab' \in [Tabs -> TabType]
    BY <1>6, <2>1, FlushType, UpdateType DEF Rejected
  <2> QED BY <1>6, <2>2 DEF Rejected, LockTypeOK
<1>7. ASSUME Hide(t) PROVE LockTypeOK'
  <2>1. tab' \in [Tabs -> TabType]
    BY <1>7, <1>t, AbortType, UpdateType DEF Hide
  <2> QED BY <1>7, <2>1 DEF Hide, LockTypeOK
<1>8. ASSUME NEW kind \in {"yield", "claim"}, Receive(t, kind) PROVE LockTypeOK'
  <2>1. RequestAbort(tab[t], Owns(t)) \in TabType /\ AbortPendingSteal(tab[t]) \in TabType
    BY <1>t, AbortType
  <2>2. RequestAbort(AbortPendingSteal(tab[t]), Owns(t)) \in TabType
    BY <1>t, <2>1, AbortType
  <2>3. tab' \in [Tabs -> TabType]
    BY <1>8, <2>1, <2>2, UpdateType DEF Receive, LockTypeOK
  <2> QED BY <1>8, <2>3 DEF Receive, LockTypeOK
<1>9. ASSUME EnterSection(t) PROVE LockTypeOK'
  <2> DEFINE n == IF IsWriter(tab[t]) THEN tab[t].sections + 1 ELSE tab[t].sections
             m == tab[t].depth + 1
  <2>1. n \in 0 .. MaxDepth /\ m \in 0 .. MaxDepth
    BY <1>9, <1>t, LimitsAssumption DEF EnterSection, TabType
  <2>2. Update(t, [tab[t] EXCEPT !.depth = m, !.sections = n])
    BY <1>9 DEF EnterSection
  <2> HIDE DEF n, m
  <2>3. [tab[t] EXCEPT !.depth = m, !.sections = n] \in TabType
    BY <1>t, <2>1 DEF TabType
  <2>4. tab' \in [Tabs -> TabType]
    BY <2>2, <2>3, UpdateType
  <2> QED BY <1>9, <2>4 DEF EnterSection, LockTypeOK
<1>10. ASSUME ExitSection(t) PROVE LockTypeOK'
  <2>1. [tab[t] EXCEPT !.sections = @ - 1] \in TabType
    <3> DEFINE n == tab[t].sections - 1
    <3>1. n \in 0 .. MaxDepth
      BY <1>10, <1>t, LimitsAssumption DEF ExitSection, TabType
    <3> HIDE DEF n
    <3>2. [tab[t] EXCEPT !.sections = n] \in TabType
      BY <1>t, <3>1 DEF TabType
    <3> QED BY <3>2 DEF n
  <2>2. tab[t].depth \in Nat /\ tab[t].depth <= MaxDepth
    BY <1>t, LimitsAssumption DEF TabType
  <2>3. Max({0, tab[t].depth - 1}) \in 0 .. MaxDepth
    <3> DEFINE n == tab[t].depth
    <3>1. Max({0, n - 1}) = IF n = 0 THEN 0 ELSE n - 1
      BY <2>2, MaxOfTwo
    <3> QED BY <2>2, <3>1, LimitsAssumption
  <2>4. tab' \in [Tabs -> TabType]
    BY <1>10, <1>t, <2>1, <2>3, LeaveType, UpdateType DEF ExitSection
  <2> QED BY <1>10, <2>4 DEF ExitSection, LockTypeOK
<1>11. ASSUME SectionTimer(t) PROVE LockTypeOK'
  <2>1. 0 \in 0 .. MaxDepth
    BY LimitsAssumption
  <2>2. tab' \in [Tabs -> TabType]
    BY <1>11, <1>t, <2>1, LeaveType, UpdateType DEF SectionTimer
  <2> QED BY <1>11, <2>2 DEF SectionTimer, LockTypeOK
<1> QED BY <1>1, <1>2, <1>3, <1>4, <1>5, <1>6, <1>7, <1>8, <1>9, <1>10, <1>11,
           GrantedType, DeniedType, StealGrantedType DEF TabStep

LEMMA OtherStepType ==
    ASSUME LockTypeOK, NEW t \in Tabs,
           (\E s \in Slots : Boot(t, s)) \/ Refreshed(t) \/ Gone(t)
    PROVE  LockTypeOK'
<1>t. tab[t] \in TabType
  BY DEF LockTypeOK
<1>1. ASSUME NEW s \in Slots, Boot(t, s) PROVE LockTypeOK'
  <2>1. <<s>> \in Seq(Slots)
    OBVIOUS
  <2>2. [Closed EXCEPT !.up = TRUE, !.ph[s] = "boot", !.asks = <<s>>, !.cur = s] \in TabType
    BY ClosedType, <2>1 DEF TabType, Phases
  <2>3. tab' \in [Tabs -> TabType]
    BY <1>1, <2>2, UpdateType DEF Boot
  <2>4. boots[t] + 1 \in 0 .. MaxBoots
    <3>1. boots[t] \in 0 .. MaxBoots /\ boots[t] < MaxBoots /\ MaxBoots \in Nat
      BY <1>1, LimitsAssumption DEF Boot, LockTypeOK
    <3> DEFINE n == boots[t]
    <3> HIDE DEF n
    <3>2. n \in 0 .. MaxBoots /\ n < MaxBoots => n + 1 \in 0 .. MaxBoots
      BY <3>1
    <3> QED BY <3>1, <3>2 DEF n
  <2>5. boots' \in [Tabs -> 0 .. MaxBoots]
    BY <1>1, <2>4 DEF Boot, LockTypeOK
  <2> QED BY <1>1, <2>3, <2>5 DEF Boot, LockTypeOK
<1>2. ASSUME Refreshed(t) PROVE LockTypeOK'
  <2>1. [tab[t] EXCEPT !.refresh = FALSE, !.surface = TRUE] \in TabType
    BY <1>t DEF TabType
  <2>2. tab' \in [Tabs -> TabType]
    BY <1>2, <2>1, UpdateType DEF Refreshed
  <2> QED BY <1>2, <2>2 DEF Refreshed, LockTypeOK
<1>3. ASSUME Gone(t) PROVE LockTypeOK'
  <2>1. tab' \in [Tabs -> TabType]
    BY <1>3, ClosedType, UpdateType DEF Gone
  <2> QED BY <1>3, <2>1 DEF Gone, LockTypeOK
<1> QED BY <1>1, <1>2, <1>3

(* Every variable of the election has its type, with any faults.            *)
THEOREM ElectionTyped == LockSpec => []LockTypeOK
<1>1. LockInit => LockTypeOK
  BY ClosedType, LimitsAssumption DEF LockInit, LockTypeOK
<1>2. LockTypeOK /\ [LockNext]_lockVars => LockTypeOK'
  <2> SUFFICES ASSUME LockTypeOK, [LockNext]_lockVars PROVE LockTypeOK'
    OBVIOUS
  <2>1. CASE UNCHANGED lockVars
    BY <2>1 DEF lockVars, LockTypeOK
  <2>2. CASE LockNext
    BY <2>2, TabStepType, FlushEndType, OtherStepType DEF LockNext
  <2> QED BY <2>1, <2>2
<1> QED BY <1>1, <1>2, PTL DEF LockSpec

-----------------------------------------------------------------------------
LEMMA NonceType == ASSUME NEW t \in Tabs, NEW n \in Nat PROVE FreshNonces(t, n) \subseteq Nonces
BY DEF FreshNonces, Nonces

LEMMA NoSealType == NoSeal \in Puts
BY DEF NoSeal, Puts, Nonces

LEMMA FreshType == ASSUME NEW t \in Tabs, NEW n \in Nat PROVE FreshDb(t, n) \in DbType
<1>1. <<0, n, t>> \in Nonces /\ <<0, 0, None>> \in Nonces /\ <<>> \in Seq(Puts) /\ 1 \in Nat /\ 0 \in Nat
  BY DEF Nonces
<1>2. NoSeal \in Puts
  BY NoSealType
<1> QED BY <1>1, <1>2 DEF FreshDb, DbType

LEMMA AdoptedType ==
    ASSUME StoreTypeOK, NEW g \in Nat
    PROVE  Adopted(g) \in Nat /\ Adopted(g) >= g /\ Adopted(g) >= image.gen
BY DEF StoreTypeOK, Puts, Adopted

LEMMA PersistType ==
    ASSUME NEW d \in DbType
    PROVE  /\ Export(d) \in Puts
           /\ Persist(d) \in DbType
           /\ Persist(d) = [d EXCEPT !.chain = IF d.rolled THEN d.chain ELSE Append(d.chain, Export(d))]
<1>1. Export(d) \in Puts
  BY DEF Export, Puts, DbType
<1> DEFINE ch == Append(d.chain, Export(d))
<1>2. ch \in Seq(Puts) /\ d.chain \in Seq(Puts)
  BY <1>1 DEF DbType
<1>3. Persist(d) = IF d.rolled THEN d ELSE [d EXCEPT !.chain = ch]
  BY DEF Persist
<1> HIDE DEF ch
<1>4. [d EXCEPT !.chain = ch] \in DbType /\ d = [d EXCEPT !.chain = d.chain]
  BY <1>2 DEF DbType
<1> QED BY <1>1, <1>3, <1>4 DEF ch

LEMMA ReopenType ==
    ASSUME NEW d \in DbType
    PROVE  Reopen(d) \in DbType
<1> DEFINE la == d.late \o d.chain
           aw == IF "chain" \in d.await THEN {"late"} ELSE d.await
<1>1. la \in Seq(Puts) /\ <<>> \in Seq(Puts) /\ aw \in SUBSET {"chain", "late"}
  BY DEF DbType
<1>2. Reopen(d) = [d EXCEPT !.has = FALSE, !.open = "read", !.late = la, !.chain = <<>>, !.await = aw]
  BY DEF Reopen
<1> HIDE DEF la, aw
<1> QED BY <1>1, <1>2, ZenonT(60) DEF DbType

LEMMA OpenedType == ASSUME NEW d \in DbType PROVE Opened(d) \in DbType
<1> DEFINE h == ~d.err
<1>1. h \in BOOLEAN
  OBVIOUS
<1>2. Opened(d) = IF d.open = "flush" /\ d.chain = <<>>
                  THEN [d EXCEPT !.open = "idle", !.refreshing = FALSE, !.has = h] ELSE d
  BY DEF Opened
<1> HIDE DEF h
<1>3. [d EXCEPT !.open = "idle", !.refreshing = FALSE, !.has = h] \in DbType
  BY <1>1 DEF DbType
<1> QED BY <1>2, <1>3

LEMMA SetDbType ==
    ASSUME StoreTypeOK, NEW t \in Tabs, NEW d \in DbType, SetDb(t, d)
    PROVE  db' \in [Tabs -> DbType]
BY DEF StoreTypeOK, SetDb

LEMMA FlushedType ==
    ASSUME StoreTypeOK, NEW u \in Tabs
    PROVE  Flushed(u) \in DbType
<1>1. db[u] \in DbType /\ Persist(db[u]) \in DbType
  BY PersistType DEF StoreTypeOK
<1>2. \A d \in DbType : [d EXCEPT !.await = @ \cup {"chain"}] \in DbType
  <2> TAKE d \in DbType
  <2>1. d.await \cup {"chain"} \in SUBSET {"chain", "late"}
    BY DEF DbType
  <2> QED BY <2>1 DEF DbType
<1>3. (IF tab'[u].mode = "writer" THEN Persist(db[u]) ELSE db[u]) \in DbType
  BY <1>1
<1> QED BY <1>1, <1>2, <1>3 DEF Flushed

LEMMA OpenReadType ==
    ASSUME StoreTypeOK, NEW t \in Tabs, OpenRead(t)
    PROVE  db' \in [Tabs -> DbType]
<1> DEFINE d == db[t]
           read == [d EXCEPT !.has = TRUE, !.rows = image.rows, !.rolled = FALSE, !.err = FALSE]
           g == Adopted(d.gen)
<1>1. d \in DbType /\ image \in Puts /\ d.gen \in Nat /\ d.bumps + 1 \in Nat
  BY DEF StoreTypeOK, DbType
<1>2. read \in DbType /\ read.gen = d.gen /\ read.bumps = d.bumps
  <2> HIDE DEF d
  <2> QED BY <1>1 DEF Puts, DbType
<1>3. g \in Nat /\ g + 1 \in Nat
  BY <1>1, AdoptedType
<1>4. CASE IsWriter(tab[t])
  <2>1. PICK n \in FreshNonces(t, d.bumps + 1) :
          SetDb(t, Persist([read EXCEPT !.gen = g + 1, !.exgen = g + 1, !.non = n, !.exnon = n,
                                        !.bumps = d.bumps + 1, !.open = "flush"]))
    BY <1>4, <1>2 DEF OpenRead
  <2>2. n \in Nonces
    BY <1>1, NonceType
  <2> HIDE DEF read, g
  <2>3. [read EXCEPT !.gen = g + 1, !.exgen = g + 1, !.non = n, !.exnon = n,
                     !.bumps = d.bumps + 1, !.open = "flush"] \in DbType
    BY <1>1, <1>2, <1>3, <2>2 DEF DbType
  <2> QED BY <2>1, <2>3, PersistType, SetDbType
<1>5. CASE ~IsWriter(tab[t])
  <2>1. SetDb(t, [read EXCEPT !.gen = g, !.exgen = g, !.exnon = d.non, !.refreshing = FALSE, !.open = "idle"])
    BY <1>5, <1>2 DEF OpenRead
  <2>2. d.non \in Nonces
    BY <1>1 DEF DbType
  <2> HIDE DEF read, g
  <2>3. [read EXCEPT !.gen = g, !.exgen = g, !.exnon = d.non, !.refreshing = FALSE, !.open = "idle"] \in DbType
    BY <1>2, <1>3, <2>2 DEF DbType
  <2> QED BY <2>1, <2>3, SetDbType
<1> QED BY <1>4, <1>5

LEMMA SealReadType ==
    ASSUME StoreTypeOK, NEW t \in Tabs, SealRead(t)
    PROVE  db' \in [Tabs -> DbType]
<1> DEFINE d == db[t]
           g == Adopted(d.gen) + 1
<1>1. d \in DbType /\ image \in Puts /\ d.gen \in Nat /\ d.bumps + 1 \in Nat
  BY DEF StoreTypeOK, DbType
<1>2. g \in Nat
  BY <1>1, AdoptedType
<1>3. PICK n \in FreshNonces(t, d.bumps + 1) :
        SetDb(t, [d EXCEPT !.gen = g, !.non = n, !.bumps = @ + 1, !.sealing = "put",
                           !.seal = [rows |-> image.rows, gen |-> g, non |-> n]])
  BY DEF SealRead
<1>4. n \in Nonces
  BY <1>1, NonceType
<1> DEFINE se == [rows |-> image.rows, gen |-> g, non |-> n]
<1> HIDE DEF g
<1>5. se \in Puts
  BY <1>1, <1>2, <1>4 DEF Puts
<1> HIDE DEF d, se
<1>6. [d EXCEPT !.gen = g, !.non = n, !.bumps = @ + 1, !.sealing = "put", !.seal = se] \in DbType
  BY <1>1, <1>2, <1>4, <1>5 DEF DbType
<1> QED BY <1>3, <1>6, SetDbType DEF d, se

LEMMA PutType ==
    ASSUME StoreTypeOK, NEW t \in Tabs, PutNext(t) \/ PutLate(t)
    PROVE  db' \in [Tabs -> DbType] /\ image' \in Puts
<1> DEFINE d == db[t]
<1>1. d \in DbType /\ image \in Puts
  BY DEF StoreTypeOK
<1>2. CASE PutNext(t)
  <2> DEFINE put == Head(d.chain)
             popped == [d EXCEPT !.chain = Tail(@)]
             e == d.err \/ IsWriter(tab[t])
  <2>1. /\ d.chain # <<>>
        /\ IF Stale(put, d)
           THEN SetDb(t, Opened([popped EXCEPT !.err = e])) /\ UNCHANGED image
           ELSE image' = put /\ SetDb(t, Opened([popped EXCEPT !.err = FALSE]))
    BY <1>2 DEF PutNext
  <2>2. put \in Puts /\ Tail(d.chain) \in Seq(Puts)
    <3>1. d.chain \in Seq(Puts) /\ d.chain # <<>>
      BY <1>1, <2>1 DEF DbType
    <3> QED BY <3>1
  <2>3. popped \in DbType
    <3> DEFINE ch == Tail(d.chain)
    <3> HIDE DEF ch, d
    <3>1. [d EXCEPT !.chain = ch] \in DbType
      BY <1>1, <2>2 DEF DbType, ch
    <3> QED BY <3>1 DEF ch
  <2>4. e \in BOOLEAN
    BY <1>1 DEF DbType
  <2> HIDE DEF popped, e, put
  <2>5. [popped EXCEPT !.err = e] \in DbType /\ [popped EXCEPT !.err = FALSE] \in DbType
    BY <2>3, <2>4 DEF DbType
  <2> QED BY <1>1, <2>1, <2>2, <2>5, OpenedType, SetDbType
<1>3. CASE PutLate(t)
  <2>1. /\ d.late # <<>> /\ SetDb(t, [d EXCEPT !.late = Tail(@)])
        /\ image' = IF Stale(Head(d.late), d) THEN image ELSE Head(d.late)
    BY <1>3 DEF PutLate
  <2>2. d.late \in Seq(Puts)
    BY <1>1 DEF DbType
  <2> DEFINE la == Tail(d.late)
  <2>3. la \in Seq(Puts) /\ Head(d.late) \in Puts
    BY <2>1, <2>2
  <2>4. image' \in Puts
    BY <1>1, <2>1, <2>3
  <2>5. SetDb(t, [d EXCEPT !.late = la])
    BY <2>1
  <2> HIDE DEF la, d
  <2>6. [d EXCEPT !.late = la] \in DbType
    BY <1>1, <2>3 DEF DbType
  <2> QED BY <2>4, <2>5, <2>6, SetDbType
<1> QED BY <1>2, <1>3

LEMMA SealPutType ==
    ASSUME StoreTypeOK, NEW t \in Tabs, SealPut(t)
    PROVE  LockTypeOK' /\ db' \in [Tabs -> DbType] /\ image' \in Puts
<1> DEFINE d == [db[t] EXCEPT !.seal = NoSeal]
<1>s. db[t] \in DbType /\ image \in Puts /\ NoSeal \in Puts
  BY NoSealType DEF StoreTypeOK
<1>n. \A x \in DbType, y \in Puts : [x EXCEPT !.seal = y] \in DbType /\ x.seal \in Puts
  BY DEF DbType
<1>1. d \in DbType /\ db[t].seal \in Puts /\ image \in Puts
  BY <1>s, <1>n
<1>2. image' \in Puts
  BY <1>1 DEF SealPut
<1>3. \/ SetDb(t, [d EXCEPT !.sealing = "idle"]) /\ Refreshed(t)
      \/ SetDb(t, [Reopen(d) EXCEPT !.refreshing = TRUE, !.sealing = "refresh"]) /\ UNCHANGED lockVars
  BY DEF SealPut
<1> DEFINE e == Reopen(d)
<1>4. e \in DbType
  BY <1>1, ReopenType
<1> HIDE DEF d
<1>5. [d EXCEPT !.sealing = "idle"] \in DbType
  BY <1>1 DEF DbType
<1> HIDE DEF e
<1>6. [e EXCEPT !.refreshing = TRUE, !.sealing = "refresh"] \in DbType
  BY <1>4 DEF DbType
<1>7. db' \in [Tabs -> DbType]
  BY <1>3, <1>5, <1>6, SetDbType DEF e
<1>8. LockTypeOK'
  BY <1>3, OtherStepType DEF StoreTypeOK, lockVars, LockTypeOK
<1> QED BY <1>2, <1>7, <1>8

LEMMA StoreTypeStep == StoreTypeOK /\ [StoreNext]_allVars => StoreTypeOK'
<1> SUFFICES ASSUME StoreTypeOK, [StoreNext]_allVars PROVE StoreTypeOK'
  OBVIOUS
<1>t. /\ LockTypeOK /\ image \in Puts /\ written \subseteq Rows /\ db \in [Tabs -> DbType]
      /\ \A t \in Tabs : db[t] \in DbType /\ db[t].bumps + 1 \in Nat /\ db[t].bumps \in Nat
  BY DEF StoreTypeOK, DbType
<1>u. UNCHANGED lockVars => LockTypeOK'
  BY <1>t DEF lockVars, LockTypeOK
<1>1. CASE UNCHANGED allVars
  BY <1>1, <1>t, <1>u DEF allVars, storeVars, StoreTypeOK
<1>2. ASSUME NEW t \in Tabs, Lock(t) PROVE StoreTypeOK'
  BY <1>2, <1>t, TabStepType, FlushedType DEF Lock, StoreTypeOK
<1>3. ASSUME NEW t \in Tabs, OpenTab(t) PROVE StoreTypeOK'
  <2> DEFINE f == FreshDb(t, db[t].bumps + 1)
  <2>1. PICK n \in FreshNonces(t, db[t].bumps + 1) : SetDb(t, [f EXCEPT !.open = "read", !.non = n])
    BY <1>3 DEF OpenTab
  <2>2. n \in Nonces /\ f \in DbType
    BY <1>t, NonceType, FreshType
  <2> HIDE DEF f
  <2>3. [f EXCEPT !.open = "read", !.non = n] \in DbType
    BY <2>2 DEF DbType
  <2> QED BY <1>3, <1>t, <2>1, <2>3, SetDbType, OtherStepType DEF OpenTab, StoreTypeOK
<1>4. ASSUME NEW t \in Tabs, EndFlush(t) PROVE StoreTypeOK'
  <2> DEFINE aw == IF tab'[t].flush = {} THEN {} ELSE db[t].await
  <2>1. SetDb(t, [db[t] EXCEPT !.await = aw])
    BY <1>4 DEF EndFlush, FlushOver
  <2>2. aw \in SUBSET {"chain", "late"}
    BY <1>t DEF DbType
  <2> HIDE DEF aw
  <2>3. \A d \in DbType : [d EXCEPT !.await = aw] \in DbType
    BY <2>2 DEF DbType
  <2> QED BY <1>4, <1>t, <2>1, <2>3, SetDbType, FlushEndType DEF EndFlush, FlushOver, StoreTypeOK
<1>5. ASSUME NEW t \in Tabs, CloseTab(t) PROVE StoreTypeOK'
  BY <1>5, <1>t, FreshType, SetDbType, OtherStepType DEF CloseTab, StoreTypeOK
<1>6. ASSUME NEW t \in Tabs, OpenRead(t) PROVE StoreTypeOK'
  BY <1>6, <1>t, <1>u, OpenReadType DEF OpenRead, StoreTypeOK
<1>7. ASSUME NEW t \in Tabs, OpenAgain(t) PROVE StoreTypeOK'
  BY <1>7, <1>t, <1>u, ReopenType, SetDbType DEF OpenAgain, StoreTypeOK
<1>8. ASSUME NEW t \in Tabs, FocusRefresh(t) PROVE StoreTypeOK'
  <2>1. \A d \in DbType : [d EXCEPT !.refreshing = TRUE] \in DbType
    BY DEF DbType
  <2> QED BY <1>8, <1>t, <1>u, <2>1, ReopenType, SetDbType DEF FocusRefresh, StoreTypeOK
<1>9. ASSUME NEW t \in Tabs, PutNext(t) \/ PutLate(t) PROVE StoreTypeOK'
  BY <1>9, <1>t, <1>u, PutType DEF PutNext, PutLate, StoreTypeOK
<1>10. ASSUME NEW t \in Tabs, NEW w \in Rows, NEW begins \in BOOLEAN, Write(t, w, begins) PROVE StoreTypeOK'
  <2> DEFINE ro == db[t].rows \cup {w}
             rb == db[t].rolled /\ ~begins
  <2>1. ro \in SUBSET Rows /\ rb \in BOOLEAN
    BY <1>t DEF DbType
  <2>2. SetDb(t, Persist([db[t] EXCEPT !.rows = ro, !.rolled = rb]))
    BY <1>10 DEF Write
  <2> HIDE DEF ro, rb
  <2>3. \A d \in DbType : [d EXCEPT !.rows = ro, !.rolled = rb] \in DbType
    BY <2>1 DEF DbType
  <2> QED BY <1>10, <1>t, <1>u, <2>2, <2>3, PersistType, SetDbType DEF Write, StoreTypeOK
<1>11. ASSUME NEW t \in Tabs, Rollback(t) PROVE StoreTypeOK'
  <2>1. \A d \in DbType : [d EXCEPT !.rolled = TRUE] \in DbType
    BY DEF DbType
  <2> QED BY <1>11, <1>t, <1>u, <2>1, SetDbType DEF Rollback, StoreTypeOK
<1>12. ASSUME NEW t \in Tabs, SealRead(t) PROVE StoreTypeOK'
  BY <1>12, <1>t, <1>u, SealReadType DEF SealRead, StoreTypeOK
<1>13. ASSUME NEW t \in Tabs, SealPut(t) PROVE StoreTypeOK'
  BY <1>13, <1>t, SealPutType DEF SealPut, StoreTypeOK
<1>14. ASSUME NEW t \in Tabs, SealDone(t) PROVE StoreTypeOK'
  <2>1. \A d \in DbType : [d EXCEPT !.sealing = "idle"] \in DbType
    BY DEF DbType
  <2> QED BY <1>14, <1>t, <2>1, SetDbType, OtherStepType DEF SealDone, StoreTypeOK
<1> QED BY <1>1, <1>2, <1>3, <1>4, <1>5, <1>6, <1>7, <1>8, <1>9, <1>10, <1>11, <1>12, <1>13, <1>14
        DEF StoreNext

(* Every variable of the store has its type, with any faults.               *)
THEOREM StoreTyped == StoreSpec => []StoreTypeOK
<1>1. StoreInit => StoreTypeOK
  <2> SUFFICES ASSUME StoreInit PROVE StoreTypeOK
    OBVIOUS
  <2>1. LockTypeOK
    BY ClosedType, LimitsAssumption DEF StoreInit, LockInit, LockTypeOK
  <2>2. db \in [Tabs -> DbType]
    BY FreshType DEF StoreInit
  <2> QED BY <2>1, <2>2, NoSealType DEF StoreInit, StoreTypeOK
<1> QED BY <1>1, StoreTypeStep, PTL DEF StoreSpec

-----------------------------------------------------------------------------
(* What the theorems below assume.                                           *)

(* A tab runs one takeover at a time.                                        *)
OneTakeover == \A s, u \in Slots : s = u

(* Nobody steals the lock, and no tab yields while it opens its database or  *)
(* before it has sealed it, or asks for the lock again while it yields.      *)
Undisturbed ==
    /\ "steal" \notin Faults
    /\ "opening" \notin StoreFaults /\ "recall" \notin StoreFaults /\ "unsealed" \notin StoreFaults

-----------------------------------------------------------------------------
(* The tab that holds the lock writes; it is ready once it has sealed, and   *)
(* only then starts to yield.                                                *)
Holding(r) ==
    /\ r.up /\ r.mode = "writer" /\ ~r.rej /\ ~r.taking /\ ~r.pend
    /\ r.asks = <<>> /\ \A s \in Slots : r.ph[s] = "idle"
    /\ r.surface <=> ~r.refresh
    /\ r.yielding <=> r.flush # {}
    /\ \/ r.flush = {} /\ r.cur = "held"
       \/ r.flush = {"own"} /\ r.cur = None /\ r.surface

Booting(r) == \E s \in Slots : r.ph[s] = "boot"

(* Any other tab only reads, and a takeover has its surface down and a       *)
(* refresh armed.                                                            *)
Waiting(r) ==
    /\ r.mode = "readonly" /\ ~r.yielding /\ ~r.refresh /\ ~r.rej
    /\ r.cur # "held"
    /\ r.flush \subseteq {"refused"}
    /\ \A s \in Slots :
        /\ r.asks # <<>> => r.asks = <<s>> /\ r.cur = s /\ r.ph[s] \in {"boot", "first", "retry"}
        /\ r.ph[s] # "idle" => r.up
        /\ r.ph[s] # "settle"
        /\ r.ph[s] \in {"boot", "first"} => ~r.taking
        /\ r.ph[s] \in {"first", "wait", "retry", "steal", "refused"} => r.pend /\ ~r.surface
        /\ r.ph[s] = "boot" => ~r.pend /\ r.surface /\ ~r.deferred /\ r.aborted = {}
        /\ r.ph[s] = "idle" => ~r.taking
        /\ "refused" \in r.flush => r.ph[s] = "refused"

Roles == \A t \in Tabs : IF Owns(t) THEN Holding(tab[t]) ELSE Waiting(tab[t])

LEMMA ClosedWaits == Waiting(Closed)
BY TabsAssumption DEF Waiting, Closed, None

(* What a request to yield does to the tab that holds the lock.              *)
Asked(r, q) ==
    /\ q.surface = r.surface /\ q.refresh = r.refresh
    /\ q.flush = r.flush \/ (q.flush = {"own"} /\ r.flush = {} /\ q.depth = 0)
    /\ q.flush = r.flush \/ r.surface => Holding(q)

LEMMA HolderAsked ==
    ASSUME NEW r \in TabType, Holding(r)
    PROVE  /\ Asked(r, RequestAbort(r, TRUE))
           /\ Asked(r, RequestAbort(AbortPendingSteal(r), TRUE))
           /\ \A d \in 0 .. MaxDepth : Asked(r, LeaveAt(r, d, TRUE))
<1>1. \A q \in TabType : Holding(q) => Asked(q, RequestAbort(q, TRUE))
  <2> TAKE q \in TabType
  <2> HAVE Holding(q)
  <2>1. CASE q.depth > 0
    <3>1. RequestAbort(q, TRUE) = [q EXCEPT !.deferred = TRUE]
      BY <2>1 DEF RequestAbort
    <3>2. Holding([q EXCEPT !.deferred = TRUE])
      BY DEF Holding, TabType
    <3> QED BY <3>1, <3>2 DEF Asked, TabType
  <2>2. CASE ~(q.depth > 0)
    <3> DEFINE y == [q EXCEPT !.yielding = TRUE]
    <3>1. q.depth = 0
      BY <2>2, LimitsAssumption DEF TabType
    <3>2. BeginYielding(q) = y
      BY DEF BeginYielding, Emit, Holding, TabType
    <3>3. RequestAbort(q, TRUE) = Abort(y, TRUE)
      BY <2>2, <3>2 DEF RequestAbort
    <3>4. CASE q.flush = {} /\ q.cur = "held"
      <4> DEFINE f == [q EXCEPT !.yielding = TRUE, !.cur = None, !.flush = {"own"}]
      <4>1. Abort(y, TRUE) = StartFlush([y EXCEPT !.cur = None], "own")
        BY <3>4 DEF Abort, TabType
      <4>2. StartFlush([y EXCEPT !.cur = None], "own") = f
        BY <3>4 DEF StartFlush, BeginYielding, Emit, Holding, TabType
      <4>3. q.surface => Holding(f)
        BY DEF Holding, TabType
      <4>4. f.surface = q.surface /\ f.refresh = q.refresh /\ f.flush = {"own"} /\ f.depth = q.depth
        BY DEF TabType
      <4>5. RequestAbort(q, TRUE) = f
        BY <3>3, <4>1, <4>2
      <4> HIDE DEF f
      <4> QED BY <3>1, <3>4, <4>3, <4>4, <4>5 DEF Asked
    <3>5. CASE q.flush = {"own"} /\ q.cur = None
      <4>1. Abort(y, TRUE) = y
        BY <3>5, TabsAssumption DEF Abort, TabType, None
      <4>2. Holding(y)
        BY <3>5 DEF Holding, TabType
      <4>3. /\ y.surface = q.surface /\ y.refresh = q.refresh /\ y.flush = q.flush
            /\ RequestAbort(q, TRUE) = y
        BY <3>3, <4>1 DEF TabType
      <4> HIDE DEF y
      <4> QED BY <4>2, <4>3 DEF Asked
    <3> QED BY <3>4, <3>5 DEF Holding
  <2> QED BY <2>1, <2>2
<1>2. Asked(r, RequestAbort(AbortPendingSteal(r), TRUE))
  <2> DEFINE a == AbortPendingSteal(r)
  <2>1. a \in TabType
    BY AbortType
  <2>2. Holding(a) /\ a.surface = r.surface /\ a.refresh = r.refresh /\ a.flush = r.flush
    BY DEF AbortPendingSteal, Holding, TabType
  <2> HIDE DEF a
  <2>3. Asked(a, RequestAbort(a, TRUE))
    BY <1>1, <2>1, <2>2
  <2> QED BY <2>2, <2>3 DEF Asked, a
<1>3. ASSUME NEW d \in 0 .. MaxDepth PROVE Asked(r, LeaveAt(r, d, TRUE))
  <2>1. CASE d > 0 \/ ~r.deferred
    <3>1. LeaveAt(r, d, TRUE) = [r EXCEPT !.depth = d]
      BY <2>1 DEF LeaveAt
    <3>2. Holding([r EXCEPT !.depth = d])
      BY DEF Holding, TabType
    <3> QED BY <3>1, <3>2 DEF Asked, TabType
  <2>2. CASE ~(d > 0 \/ ~r.deferred)
    <3> DEFINE a == [r EXCEPT !.depth = 0, !.deferred = FALSE]
    <3>1. LeaveAt(r, d, TRUE) = RequestAbort(a, TRUE)
      BY <2>2 DEF LeaveAt
    <3>2. Holding(a) /\ a.surface = r.surface /\ a.refresh = r.refresh /\ a.flush = r.flush
      BY DEF Holding, TabType
    <3>4. 0 \in 0 .. MaxDepth
      BY LimitsAssumption
    <3>5. a \in TabType
      BY <3>4 DEF TabType
    <3> HIDE DEF a
    <3>3. Asked(a, RequestAbort(a, TRUE))
      BY <1>1, <3>2, <3>5
    <3> QED BY <3>1, <3>2, <3>3 DEF Asked
  <2> QED BY <2>1, <2>2
<1> QED BY <1>1, <1>2, <1>3

(* What happens to it in a step of the election.                             *)
LEMMA HolderStep ==
    ASSUME LockTypeOK, Roles, Undisturbed, NEW t \in Tabs, Owns(t), TabStep(t),
           tab[t].flush = {} \/ takeovers' = takeovers
    PROVE  /\ owner' = owner
           /\ \A u \in Tabs \ {t} : tab'[u] = tab[u]
           /\ Asked(tab[t], tab'[t])
<1> DEFINE r == tab[t]
<1>r. r \in TabType /\ Holding(r) /\ Owns(t) = TRUE
  BY DEF LockTypeOK, Roles, Owns
<1>h. r.mode = "writer" /\ ~r.rej /\ r.asks = <<>> /\ \A s \in Slots : r.ph[s] = "idle"
  BY <1>r DEF Holding
<1>s. Asked(r, r)
  BY <1>r DEF Asked
<1>u. ASSUME NEW q, Update(t, q), Asked(r, q), UNCHANGED owner
      PROVE  /\ owner' = owner
             /\ \A u \in Tabs \ {t} : tab'[u] = tab[u]
             /\ Asked(tab[t], tab'[t])
  BY <1>u DEF Update, LockTypeOK
<1>1. ASSUME NEW s \in Slots PROVE ~StartTakeover(t, s)
  <2> SUFFICES ASSUME StartTakeover(t, s) PROVE FALSE
    OBVIOUS
  <2>1. r.yielding /\ takeovers' = takeovers + 1
    BY <1>h DEF StartTakeover, IsWriter
  <2>2. takeovers' # takeovers
    BY <2>1, LimitsAssumption DEF LockTypeOK
  <2> QED BY <2>1, <2>2, <1>r DEF Holding
<1>2. ASSUME NEW s \in Slots PROVE ~Granted(t, s) /\ ~Denied(t, s)
  BY <1>h DEF Granted, Denied, Asking
<1>3. ASSUME NEW s \in Slots
      PROVE  ~WaitOver(t, s) /\ ~StealGranted(t, s) /\ ~StealAborted(t, s) /\ ~StealRefused(t, s) /\ ~SettleOver(t, s)
  BY <1>h DEF WaitOver, StealGranted, StealAborted, StealRefused, SettleOver
<1>4. ~Rejected(t)
  BY <1>h DEF Rejected
<1> DEFINE P == /\ owner' = owner
                /\ \A u \in Tabs \ {t} : tab'[u] = tab[u]
                /\ Asked(tab[t], tab'[t])
<1>5. CASE Hide(t)
  <2>1. Update(t, RequestAbort(r, TRUE)) /\ UNCHANGED owner
    BY <1>5, <1>r DEF Hide
  <2> QED BY <2>1, <1>r, <1>u, HolderAsked
<1>6. ASSUME NEW kind \in {"yield", "claim"}, Receive(t, kind) PROVE P
  <2>1. \/ UNCHANGED tab
        \/ Update(t, RequestAbort(r, TRUE))
        \/ Update(t, RequestAbort(AbortPendingSteal(r), TRUE))
    BY <1>6, <1>r DEF Receive
  <2>2. UNCHANGED owner
    BY <1>6 DEF Receive
  <2> QED BY <2>1, <2>2, <1>r, <1>s, <1>u, HolderAsked
<1>7. CASE EnterSection(t)
  <2> DEFINE q == [r EXCEPT !.depth = @ + 1, !.sections = IF IsWriter(r) THEN @ + 1 ELSE @]
  <2>1. Update(t, q) /\ UNCHANGED owner
    BY <1>7 DEF EnterSection
  <2>2. Asked(r, q)
    BY <1>r DEF Asked, Holding, TabType
  <2> QED BY <2>1, <2>2, <1>u
<1>8. CASE ExitSection(t)
  <2> DEFINE a == [r EXCEPT !.sections = @ - 1]
             d == Max({0, r.depth - 1})
  <2>1. a \in TabType
    <3> DEFINE n == r.sections - 1
    <3>1. n \in 0 .. MaxDepth
      BY <1>8, <1>r, LimitsAssumption DEF ExitSection, TabType
    <3> HIDE DEF n
    <3>2. [r EXCEPT !.sections = n] \in TabType
      BY <1>r, <3>1 DEF TabType
    <3> QED BY <3>2 DEF n
  <2>2. d \in 0 .. MaxDepth
    <3> DEFINE n == r.depth
    <3>1. n \in Nat /\ n <= MaxDepth
      BY <1>r, LimitsAssumption DEF TabType
    <3>2. Max({0, n - 1}) = IF n = 0 THEN 0 ELSE n - 1
      BY <3>1, MaxOfTwo
    <3> QED BY <3>1, <3>2, LimitsAssumption
  <2>3. Holding(a) /\ a.surface = r.surface /\ a.refresh = r.refresh /\ a.flush = r.flush
    BY <1>r DEF Holding, TabType
  <2>4. Update(t, LeaveAt(a, d, TRUE)) /\ UNCHANGED owner
    BY <1>8, <1>r DEF ExitSection
  <2> HIDE DEF a, d
  <2>5. Asked(a, LeaveAt(a, d, TRUE))
    BY <2>1, <2>2, <2>3, HolderAsked
  <2>6. Asked(r, LeaveAt(a, d, TRUE))
    BY <2>3, <2>5 DEF Asked
  <2> QED BY <2>4, <2>6, <1>u
<1>9. CASE SectionTimer(t)
  <2>1. Update(t, LeaveAt(r, 0, TRUE)) /\ UNCHANGED owner
    BY <1>9, <1>r DEF SectionTimer
  <2>2. 0 \in 0 .. MaxDepth
    BY LimitsAssumption
  <2> QED BY <2>1, <2>2, <1>r, <1>u, HolderAsked
<1> QED BY <1>1, <1>2, <1>3, <1>4, <1>5, <1>6, <1>7, <1>8, <1>9 DEF TabStep

Acquired(r, q, s, p) ==
    /\ q.up = r.up /\ q.mode = r.mode /\ q.yielding = r.yielding /\ q.refresh = r.refresh
    /\ q.rej = r.rej /\ q.flush = r.flush /\ q.taking = r.taking /\ q.pend = r.pend
    /\ q.surface = r.surface /\ q.cur = s /\ q.asks = <<s>>
    /\ q.ph = [r.ph EXCEPT ![s] = p]

LEMMA AcquireFields ==
    ASSUME NEW r \in TabType, NEW s \in Slots, NEW p \in Phases, NEW o \in BOOLEAN, r.cur # "held", r.asks = <<>>,
           NEW q, q = TryAcquire(r, s, o, p)
    PROVE  Acquired(r, q, s, p)
<1> DEFINE a == Abort(r, o)
<1>1. a = r \/ (r.cur \in Slots /\ a = [r EXCEPT !.aborted = @ \cup {r.cur}])
  BY DEF Abort
<1>2. /\ a.up = r.up /\ a.mode = r.mode /\ a.yielding = r.yielding /\ a.refresh = r.refresh
      /\ a.rej = r.rej /\ a.flush = r.flush /\ a.taking = r.taking /\ a.pend = r.pend
      /\ a.surface = r.surface /\ a.asks = <<>> /\ a.ph = r.ph
  BY <1>1 DEF TabType
<1>3. a \in TabType
  BY AbortType
<1> DEFINE as == Append(a.asks, s)
           ab == a.aborted \ {s}
           ph == [a.ph EXCEPT ![s] = p]
<1>4. q = [a EXCEPT !.cur = s, !.asks = as, !.aborted = ab, !.ph = ph]
  BY DEF TryAcquire
<1>a. Append(<<>>, s) = <<s>>
  OBVIOUS
<1>5. as = <<s>> /\ ph = [r.ph EXCEPT ![s] = p]
  BY <1>2, <1>a
<1> HIDE DEF a, as, ab, ph
<1>6. /\ q.up = a.up /\ q.mode = a.mode /\ q.yielding = a.yielding /\ q.refresh = a.refresh
      /\ q.rej = a.rej /\ q.flush = a.flush /\ q.taking = a.taking /\ q.pend = a.pend
      /\ q.surface = a.surface /\ q.cur = s /\ q.asks = as /\ q.ph = ph
  BY <1>3, <1>4 DEF TabType
<1> QED BY <1>2, <1>5, <1>6 DEF Acquired

(* What becomes of a tab without the lock: it waits on, or is granted it.    *)
Moved(r, q) == Waiting(q) /\ (Booting(q) => Booting(r))

Won(r, q) ==
    /\ Holding(q) /\ q.flush = {} /\ r.flush = {}
    /\ Booting(r) \/ ~q.surface

LEMMA WaiterAcquires ==
    ASSUME OneTakeover, NEW r \in TabType, NEW s \in Slots, NEW p \in {"first", "retry"}, NEW o \in BOOLEAN,
           r.mode = "readonly", ~r.yielding, ~r.refresh, ~r.rej, r.cur # "held", r.asks = <<>>,
           r.flush = {}, r.up, r.pend, ~r.surface, p = "first" => ~r.taking,
           NEW q, q = TryAcquire(r, s, o, p)
    PROVE  Waiting(q) /\ ~Booting(q)
<1>1. p \in Phases
  BY DEF Phases
<1>2. Acquired(r, q, s, p)
  BY <1>1, AcquireFields
<1>3. \A u \in Slots : u = s /\ q.ph[u] = p
  BY <1>2 DEF Acquired, OneTakeover, TabType
<1>4. q.cur # "held"
  BY <1>2, TabsAssumption DEF Acquired
<1> QED BY <1>2, <1>3, <1>4 DEF Acquired, Waiting, Booting

SameWait(r, q) ==
    /\ q.up = r.up /\ q.mode = r.mode /\ q.yielding = r.yielding /\ q.refresh = r.refresh
    /\ q.rej = r.rej /\ q.flush = r.flush /\ q.taking = r.taking /\ q.pend = r.pend
    /\ q.surface = r.surface /\ q.cur = r.cur /\ q.asks = r.asks /\ q.ph = r.ph
    /\ Booting(r) => q.deferred = r.deferred /\ q.aborted = r.aborted

LEMMA WaitsOn ==
    ASSUME NEW r, NEW q, Waiting(r), SameWait(r, q)
    PROVE  Moved(r, q)
BY DEF SameWait, Moved, Waiting, Booting

LEMMA WaiterLeaves ==
    ASSUME NEW r \in TabType, Waiting(r), NEW d \in 0 .. MaxDepth, NEW o \in BOOLEAN
    PROVE  SameWait(r, LeaveAt(r, d, o))
<1>1. CASE d > 0 \/ ~r.deferred
  <2>1. LeaveAt(r, d, o) = [r EXCEPT !.depth = d]
    BY <1>1 DEF LeaveAt
  <2> QED BY <2>1 DEF SameWait, TabType
<1>2. CASE ~(d > 0 \/ ~r.deferred)
  <2> DEFINE a == [r EXCEPT !.depth = 0, !.deferred = FALSE]
             b == [a EXCEPT !.aborted = @ \cup {r.cur}]
  <2>1. LeaveAt(r, d, o) = RequestAbort(a, o)
    BY <1>2 DEF LeaveAt
  <2>2. RequestAbort(a, o) = Abort(a, o)
    BY DEF RequestAbort, BeginYielding, Waiting, TabType
  <2>3. Abort(a, o) = a \/ Abort(a, o) = b
    BY DEF Abort, Waiting, TabType
  <2>4. ~Booting(r)
    BY <1>2 DEF Waiting, Booting
  <2>5. SameWait(r, a) /\ SameWait(r, b)
    BY <2>4 DEF SameWait, TabType
  <2> HIDE DEF a, b
  <2> QED BY <2>1, <2>2, <2>3, <2>5
<1> QED BY <1>1, <1>2

Writer(k, ph, ab, as) ==
    [k EXCEPT !.mode = "writer", !.yielding = FALSE, !.ph = ph, !.aborted = ab, !.asks = as, !.cur = "held"]

AsWriter(k, ph, as, w) ==
    /\ w.up = k.up /\ w.mode = "writer" /\ w.rej = k.rej /\ w.taking = k.taking /\ w.pend = k.pend
    /\ w.asks = as /\ w.ph = ph /\ w.surface = k.surface /\ w.refresh = k.refresh
    /\ ~w.yielding /\ w.flush = k.flush /\ w.cur = "held"

LEMMA WriterFields ==
    ASSUME NEW k \in TabType, NEW ph \in [Slots -> Phases], NEW ab \in SUBSET Slots, NEW as \in Seq(Slots),
           NEW w, w = Writer(k, ph, ab, as)
    PROVE  w \in TabType /\ AsWriter(k, ph, as, w)
<1>1. [k EXCEPT !.mode = "writer", !.yielding = FALSE, !.ph = ph,
                !.aborted = ab, !.asks = as, !.cur = "held"] \in TabType
  BY DEF TabType
<1> QED BY <1>1 DEF TabType, Writer, AsWriter

(* What a request that is granted makes of the tab, see Granted.              *)
Kept(r, s) == IF r.ph[s] = "retry" THEN [AbortPendingSteal(r) EXCEPT !.taking = FALSE] ELSE r

Winner(r, k, s) ==
    Emit([k EXCEPT !.mode = "writer", !.yielding = FALSE, !.ph[s] = "idle",
                   !.aborted = @ \ {s}, !.asks = Tail(@),
                   !.cur = IF @ # s THEN @ ELSE IF s \in r.aborted THEN None ELSE "held"])

LEMMA WaiterGranted ==
    ASSUME OneTakeover, NEW r \in TabType, NEW s \in Slots, Waiting(r),
           r.asks # <<>>, Head(r.asks) = s, NEW k, NEW q,
           k = Kept(r, s), q = Winner(r, k, s)
    PROVE  s \notin r.aborted => Won(r, q)
<1>1. /\ r.asks = <<s>> /\ r.cur = s /\ r.ph[s] \in {"boot", "first", "retry"} /\ r.flush = {} /\ r.up
      /\ ~r.rej /\ ~r.refresh
      /\ r.ph[s] = "boot" => ~r.pend /\ r.surface /\ ~r.taking
      /\ r.ph[s] # "boot" => r.pend /\ ~r.surface
      /\ r.ph[s] = "first" => ~r.taking
  BY DEF Waiting
<1>2. /\ k.up /\ ~k.taking /\ ~k.rej /\ ~k.refresh /\ k.asks = r.asks /\ k.flush = {}
      /\ k.pend = r.pend /\ k.surface = r.surface /\ k.ph = r.ph /\ k.cur = r.cur
      /\ k \in TabType
  <2>1. CASE r.ph[s] = "retry"
    <3> DEFINE ab == r.aborted \cup ({r.psteal} \ {None})
    <3>1. ab \in SUBSET Slots
      BY DEF TabType
    <3>2. k = [r EXCEPT !.aborted = ab, !.psteal = None, !.taking = FALSE]
      BY <2>1 DEF Kept, AbortPendingSteal, TabType
    <3> HIDE DEF ab
    <3> QED BY <1>1, <3>1, <3>2, ZenonT(60) DEF TabType
  <2>2. CASE r.ph[s] # "retry"
    BY <1>1, <2>2 DEF Kept
  <2> QED BY <2>1, <2>2
<1> DEFINE as == Tail(k.asks)
           ab == k.aborted \ {s}
           ph == [k.ph EXCEPT ![s] = "idle"]
<1>a. Tail(<<s>>) = <<>> /\ <<>> \in Seq(Slots)
  OBVIOUS
<1>3. as = <<>>
  BY <1>1, <1>2, <1>a
<1>b. ab \in SUBSET Slots /\ ph \in [Slots -> Phases] /\ as \in Seq(Slots)
  BY <1>2, <1>3, <1>a DEF TabType, Phases
<1>4. \A u \in Slots : ph[u] = "idle"
  BY <1>2 DEF OneTakeover, TabType
<1> SUFFICES ASSUME s \notin r.aborted PROVE Won(r, q)
  OBVIOUS
<1>w. PICK w : w = Writer(k, ph, ab, as)
  OBVIOUS
<1>5. q = Emit(w)
  <2>1. k.cur = s
    BY <1>1, <1>2
  <2>2. [[k EXCEPT !.mode = "writer"] EXCEPT !.yielding = FALSE].ph = k.ph
    BY <1>2 DEF TabType
  <2> QED BY <1>w, <2>1, <2>2 DEF Writer, Winner
<1> HIDE DEF as, ab, ph
<1>c. w \in TabType /\ AsWriter(k, ph, as, w)
  BY <1>w, <1>2, <1>b, WriterFields
<1>6. /\ w.up = k.up /\ w.mode = "writer" /\ w.rej = k.rej /\ w.taking = k.taking /\ w.pend = k.pend
      /\ w.asks = as /\ w.ph = ph /\ w.surface = k.surface /\ w.refresh = k.refresh
      /\ ~w.yielding /\ w.flush = k.flush /\ w.cur = "held"
  BY <1>c DEF AsWriter
<1>7. CASE r.ph[s] = "boot"
  <2>1. q = w
    BY <1>1, <1>2, <1>5, <1>6, <1>7 DEF Emit
  <2>2. Holding(w) /\ w.flush = {}
    BY <1>1, <1>2, <1>3, <1>4, <1>6, <1>7 DEF Holding
  <2> QED BY <1>1, <1>7, <2>1, <2>2 DEF Won, Booting
<1>8. CASE r.ph[s] # "boot"
  <2>1. q = [w EXCEPT !.pend = FALSE, !.refresh = TRUE]
    BY <1>1, <1>2, <1>5, <1>6, <1>8 DEF Emit
  <2>2. /\ q.up /\ q.mode = "writer" /\ ~q.rej /\ ~q.taking /\ ~q.pend /\ q.asks = <<>>
        /\ q.ph = ph /\ q.surface = r.surface /\ q.refresh /\ ~q.yielding /\ q.flush = {} /\ q.cur = "held"
    <3>1. /\ q.up = w.up /\ q.mode = w.mode /\ q.rej = w.rej /\ q.taking = w.taking /\ ~q.pend /\ q.asks = w.asks
          /\ q.ph = w.ph /\ q.surface = w.surface /\ q.refresh /\ q.yielding = w.yielding /\ q.flush = w.flush
          /\ q.cur = w.cur
      BY <1>c, <2>1 DEF TabType
    <3> QED BY <1>1, <1>2, <1>3, <1>6, <3>1
  <2>3. Holding(q) /\ q.flush = {} /\ ~q.surface
    BY <1>1, <1>4, <1>8, <2>2 DEF Holding
  <2> QED BY <1>1, <2>3 DEF Won
<1> QED BY <1>7, <1>8

LEMMA WaiterRetries ==
    ASSUME OneTakeover, NEW r \in TabType, NEW s \in Slots, NEW n \in 0 .. MaxTries, NEW o \in BOOLEAN,
           r.mode = "readonly", ~r.yielding, ~r.refresh, ~r.rej, r.cur # "held", r.asks = <<>>,
           r.flush = {}, r.up, r.pend, ~r.surface
    PROVE  /\ Waiting(TryAcquire([r EXCEPT !.tries[s] = n], s, o, "retry"))
           /\ ~Booting(TryAcquire([r EXCEPT !.tries[s] = n], s, o, "retry"))
<1>1. PICK v : v = [r EXCEPT !.tries[s] = n]
  OBVIOUS
<1>2. v \in TabType
  BY <1>1 DEF TabType
<1>3. /\ v.asks = <<>> /\ v.cur = r.cur /\ v.flush = {} /\ v.up
      /\ v.mode = "readonly" /\ ~v.yielding /\ ~v.rej /\ ~v.refresh
      /\ v.pend /\ ~v.surface
  BY <1>1 DEF TabType
<1>4. \A q : q = TryAcquire(v, s, o, "retry") => Waiting(q) /\ ~Booting(q)
  BY <1>2, <1>3, WaiterAcquires
<1> QED BY <1>1, <1>4

(* What a request that was denied leads to.                                  *)
GoesOn(k, s, o, q) ==
    \/ k.ph[s] = "boot" /\ q = [k EXCEPT !.ph[s] = "idle"]
    \/ k.ph[s] = "first" /\ q = [k EXCEPT !.taking = TRUE, !.ph[s] = "wait"]
    \/ /\ k.ph[s] = "retry" /\ k.tries[s] < MaxTries
       /\ q = TryAcquire([k EXCEPT !.tries[s] = @ + 1], s, o, "retry")
    \/ k.ph[s] = "retry" /\ q = [k EXCEPT !.ph[s] = "steal", !.psteal = s, !.aborted = @ \ {s}]

LEMMA WaiterDenied ==
    ASSUME OneTakeover, NEW r \in TabType, NEW s \in Slots, NEW o \in BOOLEAN, Waiting(r),
           r.asks # <<>>, Head(r.asks) = s, NEW k, NEW q,
           k = [r EXCEPT !.mode = "readonly", !.asks = Tail(@), !.cur = IF @ = s THEN None ELSE @],
           GoesOn(k, s, o, q)
    PROVE  Moved(r, q)
<1>1. /\ r.asks = <<s>> /\ r.cur = s /\ r.ph[s] \in {"boot", "first", "retry"} /\ r.flush = {} /\ r.up
      /\ r.mode = "readonly" /\ ~r.yielding /\ ~r.rej /\ ~r.refresh
      /\ r.ph[s] = "boot" => ~r.pend /\ r.surface /\ ~r.taking
      /\ r.ph[s] # "boot" => r.pend /\ ~r.surface
      /\ r.ph[s] = "first" => ~r.taking
  BY DEF Waiting
<1>2. Tail(<<s>>) = <<>> /\ <<>> \in Seq(Slots)
  OBVIOUS
<1>3. k = [r EXCEPT !.mode = "readonly", !.asks = <<>>, !.cur = None]
  BY <1>1, <1>2 DEF TabType
<1>4. k \in TabType
  BY <1>2, <1>3 DEF TabType
<1>5. /\ k.asks = <<>> /\ k.cur = None /\ k.ph = r.ph /\ k.flush = {} /\ k.up
      /\ k.mode = "readonly" /\ ~k.yielding /\ ~k.rej /\ ~k.refresh
      /\ k.pend = r.pend /\ k.surface = r.surface /\ k.taking = r.taking
  BY <1>1, <1>3 DEF TabType
<1>6. None # "held"
  BY TabsAssumption DEF None
<1>7. CASE k.ph[s] = "boot" /\ q = [k EXCEPT !.ph[s] = "idle"]
  <2>t. ~k.taking /\ k.ph \in [Slots -> Phases] /\ s \in DOMAIN k.ph
    BY <1>1, <1>4, <1>5, <1>7 DEF TabType
  <2>f. /\ q.asks = k.asks /\ q.cur = k.cur /\ q.flush = k.flush /\ q.up = k.up /\ q.mode = k.mode
        /\ q.yielding = k.yielding /\ q.rej = k.rej /\ q.refresh = k.refresh /\ q.taking = k.taking
        /\ q.ph = [k.ph EXCEPT ![s] = "idle"]
    BY <1>4, <1>7 DEF TabType
  <2>p. \A u \in Slots : q.ph[u] = "idle"
    BY <2>t, <2>f DEF OneTakeover
  <2>1. /\ q.asks = <<>> /\ q.cur = None /\ q.flush = {} /\ q.up
        /\ q.mode = "readonly" /\ ~q.yielding /\ ~q.rej /\ ~q.refresh /\ ~q.taking
        /\ \A u \in Slots : q.ph[u] = "idle"
    BY <1>5, <2>t, <2>f, <2>p
  <2> QED BY <1>6, <2>1 DEF Moved, Waiting, Booting
<1>8. CASE k.ph[s] = "first" /\ q = [k EXCEPT !.taking = TRUE, !.ph[s] = "wait"]
  <2>t. k.ph \in [Slots -> Phases] /\ s \in DOMAIN k.ph
    BY <1>4 DEF TabType
  <2>f. /\ q.asks = k.asks /\ q.cur = k.cur /\ q.flush = k.flush /\ q.up = k.up /\ q.mode = k.mode
        /\ q.yielding = k.yielding /\ q.rej = k.rej /\ q.refresh = k.refresh
        /\ q.pend = k.pend /\ q.surface = k.surface
        /\ q.ph = [k.ph EXCEPT ![s] = "wait"]
    BY <1>4, <1>8 DEF TabType
  <2>p. \A u \in Slots : q.ph[u] = "wait"
    BY <2>t, <2>f DEF OneTakeover
  <2>1. /\ q.asks = <<>> /\ q.cur = None /\ q.flush = {} /\ q.up
        /\ q.mode = "readonly" /\ ~q.yielding /\ ~q.rej /\ ~q.refresh
        /\ q.pend = k.pend /\ q.surface = k.surface
        /\ \A u \in Slots : q.ph[u] = "wait"
    BY <1>5, <2>f, <2>p
  <2> QED BY <1>1, <1>5, <1>6, <1>8, <2>1 DEF Moved, Waiting, Booting
<1>9. CASE k.ph[s] = "retry" /\ k.tries[s] < MaxTries /\ q = TryAcquire([k EXCEPT !.tries[s] = @ + 1], s, o, "retry")
  <2>1. k.tries[s] \in 0 .. MaxTries
    BY <1>4 DEF TabType
  <2>2. k.tries[s] + 1 \in 0 .. MaxTries
    <3> DEFINE n == k.tries[s]
    <3>1. n \in 0 .. MaxTries /\ n < MaxTries
      BY <1>9, <2>1
    <3> HIDE DEF n
    <3>2. n + 1 \in 0 .. MaxTries
      BY <3>1, LimitsAssumption
    <3> QED BY <3>2 DEF n
  <2>3. Waiting(q) /\ ~Booting(q)
    BY <1>1, <1>4, <1>5, <1>6, <1>9, <2>2, WaiterRetries
  <2> QED BY <2>3 DEF Moved
<1>10. CASE k.ph[s] = "retry" /\ q = [k EXCEPT !.ph[s] = "steal", !.psteal = s, !.aborted = @ \ {s}]
  <2>1. /\ q.asks = <<>> /\ q.cur = None /\ q.flush = {} /\ q.up
        /\ q.mode = "readonly" /\ ~q.yielding /\ ~q.rej /\ ~q.refresh
        /\ q.pend = k.pend /\ q.surface = k.surface
        /\ \A u \in Slots : q.ph[u] = "steal"
    BY <1>4, <1>5, <1>10 DEF TabType, OneTakeover
  <2> QED BY <1>1, <1>5, <1>6, <1>10, <2>1 DEF Moved, Waiting, Booting
<1> QED BY <1>7, <1>8, <1>9, <1>10 DEF GoesOn

LEMMA WaiterStandsDown ==
    ASSUME OneTakeover, NEW r \in TabType, NEW s \in Slots,
           r.mode = "readonly", ~r.yielding, ~r.refresh, ~r.rej, r.cur # "held", r.flush = {}, r.asks = <<>>, r.up
    PROVE  Waiting(AfterSteal(r, s)) /\ ~Booting(AfterSteal(r, s))
<1> DEFINE a == AbortPendingSteal(r)
<1>1. a \in TabType
  BY AbortType
<1>2. /\ a.mode = "readonly" /\ ~a.yielding /\ ~a.refresh /\ ~a.rej /\ a.cur = r.cur /\ a.flush = {}
      /\ a.asks = <<>> /\ a.up
  BY DEF AbortPendingSteal, TabType
<1>3. AfterSteal(r, s) = Emit([a EXCEPT !.surface = TRUE, !.taking = FALSE, !.ph[s] = "idle"])
  BY DEF AfterSteal, IsWriter
<1> HIDE DEF a
<1>4. PICK b : b = [a EXCEPT !.surface = TRUE, !.taking = FALSE, !.ph[s] = "idle"]
  OBVIOUS
<1>5. /\ b.mode = "readonly" /\ ~b.yielding /\ ~b.refresh /\ ~b.rej /\ b.cur = r.cur /\ b.flush = {}
      /\ b.asks = <<>> /\ b.up /\ ~b.taking /\ \A u \in Slots : b.ph[u] = "idle"
  BY <1>1, <1>2, <1>4 DEF TabType, OneTakeover
<1>6. AfterSteal(r, s) = b
  BY <1>3, <1>4, <1>5 DEF Emit
<1> QED BY <1>5, <1>6 DEF Waiting, Booting

LEMMA WaiterStep ==
    ASSUME LockTypeOK, Roles, Undisturbed, OneTakeover, NEW t \in Tabs, ~Owns(t), TabStep(t),
           "own" \in tab'[t].flush \ tab[t].flush => tab[t].surface,
           tab[t].flush = {} \/ takeovers' = takeovers
    PROVE  /\ \A u \in Tabs \ {t} : tab'[u] = tab[u]
           /\ \/ owner' = owner /\ Moved(tab[t], tab'[t])
              \/ owner = None /\ owner' = t /\ Won(tab[t], tab'[t])
<1> DEFINE r == tab[t]
           P == /\ \A u \in Tabs \ {t} : tab'[u] = tab[u]
                /\ \/ owner' = owner /\ Moved(tab[t], tab'[t])
                   \/ owner = None /\ owner' = t /\ Won(tab[t], tab'[t])
<1>r. r \in TabType /\ Waiting(r) /\ Owns(t) \in BOOLEAN
  BY DEF LockTypeOK, Roles, Owns
<1>h. r.mode = "readonly" /\ ~r.yielding /\ ~r.rej /\ ~r.refresh /\ r.cur # "held" /\ ~IsWriter(r)
  BY <1>r DEF Waiting, IsWriter
<1>s. Moved(r, r)
  BY <1>r DEF Moved
<1>u. ASSUME NEW q, Update(t, q)
      PROVE  tab'[t] = q /\ \A u \in Tabs \ {t} : tab'[u] = tab[u]
  BY <1>u DEF Update, LockTypeOK
<1>m. ASSUME NEW q, Update(t, q), Moved(r, q), UNCHANGED owner
      PROVE  P
  BY <1>u, <1>m
<1> HIDE DEF P
<1>1. ASSUME NEW s \in Slots, StartTakeover(t, s) PROVE P
  <2>1. takeovers' # takeovers
    BY <1>1, LimitsAssumption DEF StartTakeover, LockTypeOK
  <2>2. r.flush = {} /\ r.up /\ r.ph[s] = "idle"
    BY <1>1, <2>1 DEF StartTakeover
  <2>3. r.asks = <<>> /\ ~r.taking
    BY <1>r, <2>2 DEF Waiting
  <2>4. PICK a : a = [r EXCEPT !.pend = TRUE, !.surface = FALSE]
    OBVIOUS
  <2>5. /\ a \in TabType /\ a.mode = "readonly" /\ ~a.yielding /\ ~a.rej /\ ~a.refresh /\ a.cur # "held"
        /\ a.flush = {} /\ a.up /\ a.asks = <<>> /\ ~a.taking /\ a.pend /\ ~a.surface
    BY <1>r, <1>h, <2>2, <2>3, <2>4 DEF TabType
  <2>6. PICK q : q = TryAcquire(a, s, Owns(t), "first")
    OBVIOUS
  <2>7. Moved(r, q)
    BY <1>r, <2>5, <2>6, WaiterAcquires DEF Moved
  <2>8. Update(t, q) /\ UNCHANGED owner
    BY <1>1, <2>4, <2>6 DEF StartTakeover
  <2> QED BY <2>7, <2>8, <1>m
<1>2. ASSUME NEW s \in Slots, Granted(t, s) PROVE P
  <2>1. r.asks # <<>> /\ Head(r.asks) = s /\ owner = None /\ owner' = t
    BY <1>2 DEF Granted, Asking
  <2>2. PICK k : k = Kept(r, s)
    OBVIOUS
  <2>3. PICK q : q = Winner(r, k, s)
    OBVIOUS
  <2>4. Update(t, IF s \in r.aborted THEN StartFlush(q, "own") ELSE q)
    BY <1>2, <2>2, <2>3 DEF Granted, Kept, Winner
  <2>5. CASE s \in r.aborted
    <3>1. r.ph[s] \in {"boot", "first", "retry"} /\ r.flush = {}
      BY <1>r, <2>1 DEF Waiting
    <3>2. r.ph[s] # "boot" /\ ~r.surface
      BY <1>r, <2>5, <3>1 DEF Waiting
    <3>3. "own" \in StartFlush(q, "own").flush
      <4>1. k \in TabType
        <5>1. AbortPendingSteal(r) \in TabType
          BY <1>r, AbortType
        <5>2. \A x \in TabType : [x EXCEPT !.taking = FALSE] \in TabType
          BY DEF TabType
        <5> QED BY <1>r, <2>2, <5>1, <5>2 DEF Kept
      <4>2. q \in TabType
        <5> DEFINE as == Tail(k.asks)
                   ab == k.aborted \ {s}
                   ph == [k.ph EXCEPT ![s] = "idle"]
                   cu == IF k.cur # s THEN k.cur ELSE IF s \in r.aborted THEN None ELSE "held"
        <5>1. k.asks = r.asks
          BY <1>r, <2>2 DEF Kept, AbortPendingSteal, TabType
        <5>2. as \in Seq(Slots)
          BY <4>1, <5>1, <2>1 DEF TabType
        <5>3. ab \in SUBSET Slots /\ ph \in [Slots -> Phases] /\ cu \in Slots \cup {None, "held"}
          BY <4>1 DEF TabType, Phases
        <5>4. q = Emit([k EXCEPT !.mode = "writer", !.yielding = FALSE, !.ph = ph,
                                 !.aborted = ab, !.asks = as, !.cur = cu])
          BY <4>1, <2>3 DEF TabType, Winner
        <5> HIDE DEF as, ab, ph, cu
        <5>5. [k EXCEPT !.mode = "writer", !.yielding = FALSE, !.ph = ph,
                        !.aborted = ab, !.asks = as, !.cur = cu] \in TabType
          BY <4>1, <5>2, <5>3 DEF TabType
        <5> QED BY <5>4, <5>5, EmitType
      <4>3. PICK f : f = [q EXCEPT !.flush = @ \cup {"own"}]
        OBVIOUS
      <4>4. f \in TabType /\ "own" \in f.flush
        BY <4>2, <4>3 DEF TabType, Flushes
      <4>5. StartFlush(q, "own") = BeginYielding(f)
        BY <4>3 DEF StartFlush
      <4>6. BeginYielding(f).flush = f.flush
        BY <4>4 DEF BeginYielding, Emit, TabType
      <4> QED BY <4>4, <4>5, <4>6
    <3>4. tab'[t] = StartFlush(q, "own")
      BY <2>4, <2>5, <1>u
    <3> QED BY <3>1, <3>2, <3>3, <3>4
  <2>6. CASE s \notin r.aborted
    <3>1. Won(r, q)
      BY <1>r, <2>1, <2>2, <2>3, <2>6, WaiterGranted
    <3>2. tab'[t] = q /\ \A u \in Tabs \ {t} : tab'[u] = tab[u]
      BY <2>4, <2>6, <1>u
    <3> QED BY <2>1, <3>1, <3>2 DEF P
  <2> QED BY <2>5, <2>6
<1>3. ASSUME NEW s \in Slots, Denied(t, s) PROVE P
  <2>1. r.asks # <<>> /\ Head(r.asks) = s /\ UNCHANGED owner
    BY <1>3 DEF Denied, Asking
  <2>2. PICK k : k = [r EXCEPT !.mode = "readonly", !.asks = Tail(@), !.cur = IF @ = s THEN None ELSE @]
    OBVIOUS
  <2>3. \E q : Update(t, q) /\ GoesOn(k, s, Owns(t), q)
    BY <1>3, <2>2 DEF Denied, GoesOn
  <2>4. PICK q : Update(t, q) /\ GoesOn(k, s, Owns(t), q)
    BY <2>3
  <2>5. Moved(r, q)
    BY <1>r, <2>1, <2>2, <2>4, WaiterDenied
  <2> QED BY <2>1, <2>4, <2>5, <1>m
<1>4. ASSUME NEW s \in Slots, WaitOver(t, s) PROVE P
  <2>1. r.ph[s] = "wait"
    BY <1>4 DEF WaitOver
  <2>2. r.asks = <<>> /\ r.flush = {} /\ r.up /\ r.pend /\ ~r.surface
    BY <1>r, <2>1 DEF Waiting
  <2>3. 1 \in 0 .. MaxTries
    BY LimitsAssumption
  <2>4. Moved(r, TryAcquire([r EXCEPT !.tries[s] = 1], s, Owns(t), "retry"))
    BY <1>r, <1>h, <2>2, <2>3, WaiterRetries DEF Moved
  <2> QED BY <1>4, <2>4, <1>m DEF WaitOver
<1>5. ASSUME NEW s \in Slots PROVE ~StealGranted(t, s) /\ ~SettleOver(t, s)
  BY <1>r DEF StealGranted, SettleOver, Undisturbed, Waiting
<1>6. ASSUME NEW s \in Slots, StealAborted(t, s) PROVE P
  <2>1. r.ph[s] = "steal" /\ UNCHANGED owner
    BY <1>6 DEF StealAborted
  <2>2. r.asks = <<>> /\ r.flush = {} /\ r.up
    BY <1>r, <2>1 DEF Waiting
  <2>3. PICK a : a = [r EXCEPT !.aborted = @ \ {s}]
    OBVIOUS
  <2>4. /\ a \in TabType /\ a.mode = "readonly" /\ ~a.yielding /\ ~a.rej /\ ~a.refresh /\ a.cur # "held"
        /\ a.flush = {} /\ a.up /\ a.asks = <<>>
    BY <1>r, <1>h, <2>2, <2>3 DEF TabType
  <2>5. Moved(r, AfterSteal(a, s))
    BY <2>4, WaiterStandsDown DEF Moved
  <2>6. Update(t, AfterSteal(a, s))
    BY <1>6, <2>3 DEF StealAborted
  <2> QED BY <2>1, <2>5, <2>6, <1>m
<1>7. ASSUME NEW s \in Slots, StealRefused(t, s) PROVE P
  <2>1. r.ph[s] = "steal" /\ UNCHANGED owner
    BY <1>7 DEF StealRefused
  <2>2. r.asks = <<>> /\ r.flush = {} /\ r.up /\ r.pend /\ ~r.surface
    BY <1>r, <2>1 DEF Waiting
  <2>3. PICK q : q = [r EXCEPT !.ph[s] = "refused", !.flush = {"refused"}]
    OBVIOUS
  <2>4. /\ q.mode = "readonly" /\ ~q.yielding /\ ~q.rej /\ ~q.refresh /\ q.cur # "held"
        /\ q.flush = {"refused"} /\ q.up /\ q.asks = <<>> /\ q.pend /\ ~q.surface
        /\ \A u \in Slots : q.ph[u] = "refused"
    BY <1>r, <1>h, <2>2, <2>3 DEF TabType, OneTakeover
  <2>5. Moved(r, q)
    BY <2>4 DEF Moved, Waiting, Booting
  <2>6. StartFlush([r EXCEPT !.ph[s] = "refused"], "refused") = q
    BY <1>r, <1>h, <2>2, <2>3 DEF StartFlush, BeginYielding, TabType
  <2>7. Update(t, q)
    BY <1>7, <2>6 DEF StealRefused
  <2> QED BY <2>1, <2>5, <2>7, <1>m
<1>8. ~Rejected(t) /\ ~Hide(t)
  BY <1>h DEF Rejected, Hide
<1>9. ASSUME NEW kind \in {"yield", "claim"}, Receive(t, kind) PROVE P
  <2>1. UNCHANGED <<tab, owner>>
    BY <1>9, <1>h DEF Receive
  <2> QED BY <2>1, <1>s DEF P
<1>10. ASSUME EnterSection(t) PROVE P
  <2>1. PICK q : q = [r EXCEPT !.depth = @ + 1, !.sections = IF IsWriter(r) THEN @ + 1 ELSE @]
    OBVIOUS
  <2>2. Update(t, q) /\ UNCHANGED owner
    BY <1>10, <2>1 DEF EnterSection
  <2>3. SameWait(r, q)
    BY <1>r, <2>1 DEF SameWait, TabType
  <2> QED BY <1>r, <2>2, <2>3, <1>m, WaitsOn
<1>11. ASSUME ExitSection(t) PROVE P
  <2> DEFINE d == Max({0, r.depth - 1})
  <2>1. PICK a : a = [r EXCEPT !.sections = @ - 1]
    OBVIOUS
  <2>2. a \in TabType
    <3> DEFINE n == r.sections - 1
    <3>1. n \in 0 .. MaxDepth
      BY <1>11, <1>r, LimitsAssumption DEF ExitSection, TabType
    <3> HIDE DEF n
    <3>2. [r EXCEPT !.sections = n] \in TabType
      BY <1>r, <3>1 DEF TabType
    <3> QED BY <2>1, <3>2 DEF n
  <2>3. d \in 0 .. MaxDepth
    <3> DEFINE n == r.depth
    <3>1. n \in Nat /\ n <= MaxDepth
      BY <1>r, LimitsAssumption DEF TabType
    <3>2. Max({0, n - 1}) = IF n = 0 THEN 0 ELSE n - 1
      BY <3>1, MaxOfTwo
    <3> QED BY <3>1, <3>2, LimitsAssumption
  <2>4. SameWait(r, a)
    BY <1>r, <2>1 DEF SameWait, TabType
  <2>5. Update(t, LeaveAt(a, d, Owns(t))) /\ UNCHANGED owner
    BY <1>11, <2>1 DEF ExitSection
  <2> HIDE DEF d
  <2>6. Waiting(a)
    BY <1>r, <2>4, WaitsOn DEF Moved
  <2>7. SameWait(a, LeaveAt(a, d, Owns(t)))
    BY <1>r, <2>2, <2>3, <2>6, WaiterLeaves
  <2>8. SameWait(r, LeaveAt(a, d, Owns(t)))
    BY <2>4, <2>7 DEF SameWait, Booting
  <2> QED BY <1>r, <2>5, <2>8, <1>m, WaitsOn
<1>12. ASSUME SectionTimer(t) PROVE P
  <2>1. Update(t, LeaveAt(r, 0, Owns(t))) /\ UNCHANGED owner
    BY <1>12 DEF SectionTimer
  <2>2. 0 \in 0 .. MaxDepth
    BY LimitsAssumption
  <2>3. SameWait(r, LeaveAt(r, 0, Owns(t)))
    BY <1>r, <2>2, WaiterLeaves
  <2> QED BY <1>r, <2>1, <2>3, <1>m, WaitsOn
<1>13. P
  BY <1>1, <1>2, <1>3, <1>4, <1>5, <1>6, <1>7, <1>8, <1>9, <1>10, <1>11, <1>12 DEF TabStep
<1> QED BY <1>13 DEF P

(* The steps of the election, whoever holds the lock.                        *)
Held(t) ==
    /\ Owns(t) /\ owner' = owner
    /\ Asked(tab[t], tab'[t]) /\ Holding(tab'[t])
    /\ tab'[t].flush = tab[t].flush \/ (Ready(db[t]) /\ tab[t].surface)

Waited(t) ==
    /\ ~Owns(t)
    /\ \/ owner' = owner /\ Moved(tab[t], tab'[t])
       \/ owner = None /\ owner' = t /\ Won(tab[t], tab'[t])

LEMMA ElectionStep ==
    ASSUME LockTypeOK, Roles, Undisturbed, OneTakeover, NEW t \in Tabs, Lock(t)
    PROVE  (\A u \in Tabs \ {t} : tab'[u] = tab[u]) /\ (Held(t) \/ Waited(t))
<1>1. /\ TabStep(t)
      /\ Yields(t) => tab[t].surface /\ Ready(db[t])
      /\ tab[t].flush = {} \/ takeovers' = takeovers
  BY DEF Lock, Undisturbed
<1>2. CASE Owns(t)
  <2>1. owner' = owner /\ (\A u \in Tabs \ {t} : tab'[u] = tab[u]) /\ Asked(tab[t], tab'[t])
    BY <1>1, <1>2, HolderStep
  <2>2. tab'[t].flush = tab[t].flush \/ (tab'[t].flush = {"own"} /\ tab[t].flush = {})
    BY <2>1 DEF Asked
  <2>3. tab'[t].flush = tab[t].flush \/ Yields(t)
    BY <2>2 DEF Yields
  <2>4. Holding(tab'[t])
    BY <1>1, <2>1, <2>3 DEF Asked
  <2> QED BY <1>1, <1>2, <2>1, <2>3, <2>4 DEF Held
<1>3. CASE ~Owns(t)
  <2>1. "own" \in tab'[t].flush \ tab[t].flush => tab[t].surface
    BY <1>1 DEF Yields
  <2> QED BY <1>1, <1>3, <2>1, WaiterStep DEF Waited
<1> QED BY <1>2, <1>3

LEMMA BootStep ==
    ASSUME LockTypeOK, Roles, OneTakeover, NEW t \in Tabs, NEW s \in Slots, Boot(t, s)
    PROVE  /\ ~Owns(t) /\ owner' = owner
           /\ \A u \in Tabs \ {t} : tab'[u] = tab[u]
           /\ Waiting(tab'[t])
<1>1. ~Owns(t)
  BY DEF Boot, Roles, Holding
<1>2. PICK q : q = [Closed EXCEPT !.up = TRUE, !.ph[s] = "boot", !.asks = <<s>>, !.cur = s]
  OBVIOUS
<1>3. tab'[t] = q /\ (\A u \in Tabs \ {t} : tab'[u] = tab[u]) /\ owner' = owner
  BY <1>2 DEF Boot, Update, LockTypeOK
<1>4. /\ q.mode = "readonly" /\ ~q.yielding /\ ~q.refresh /\ ~q.rej /\ q.cur = s /\ q.flush = {}
      /\ q.asks = <<s>> /\ q.up /\ ~q.taking /\ ~q.pend /\ q.surface /\ ~q.deferred /\ q.aborted = {}
      /\ q.ph = [[u \in Slots |-> "idle"] EXCEPT ![s] = "boot"]
  BY <1>2 DEF Closed
<1>5. \A u \in Slots : u = s /\ q.ph[u] = "boot"
  BY <1>4 DEF OneTakeover
<1>6. s # "held"
  BY TabsAssumption
<1> QED BY <1>1, <1>3, <1>4, <1>5, <1>6 DEF Waiting

LEMMA FlushStep ==
    ASSUME LockTypeOK, Roles, OneTakeover, NEW t \in Tabs, NEW k \in Flushes, FlushEnd(t, k)
    PROVE  /\ \A u \in Tabs \ {t} : tab'[u] = tab[u]
           /\ Waiting(tab'[t]) /\ ~Booting(tab'[t]) /\ tab'[t].flush = {}
           /\ IF Owns(t) THEN k = "own" /\ owner' = None ELSE k = "refused" /\ owner' = owner
<1>t. tab[t] \in TabType
  BY DEF LockTypeOK
<1>1. PICK r : r = [tab[t] EXCEPT !.flush = @ \ {k}, !.yielding = FALSE, !.mode = "readonly"]
  OBVIOUS
<1>2. \A u \in Tabs \ {t} : tab'[u] = tab[u]
  BY DEF FlushEnd, Update, LockTypeOK
<1>3. tab'[t] = IF k = "refused" THEN AfterSteal(r, CHOOSE s \in {u \in Slots : r.ph[u] = "refused"} : TRUE) ELSE r
  BY <1>1 DEF FlushEnd, Update, LockTypeOK
<1>4. r \in TabType
  <2>1. tab[t].flush \ {k} \in SUBSET Flushes
    BY <1>t DEF TabType
  <2> QED BY <1>t, <1>1, <2>1 DEF TabType
<1>5. /\ r.mode = "readonly" /\ ~r.yielding /\ r.flush = tab[t].flush \ {k} /\ r.cur = tab[t].cur
      /\ r.refresh = tab[t].refresh /\ r.rej = tab[t].rej /\ r.asks = tab[t].asks /\ r.ph = tab[t].ph
      /\ r.up = tab[t].up /\ r.taking = tab[t].taking
  BY <1>t, <1>1 DEF TabType
<1>6. k \in tab[t].flush
  BY DEF FlushEnd
<1>7. CASE Owns(t)
  <2>1. Holding(tab[t])
    BY <1>7 DEF Roles
  <2>2. k = "own" /\ tab[t].flush = {"own"} /\ tab[t].cur = None /\ tab[t].surface
    BY <1>6, <2>1 DEF Holding
  <2>3. owner' = None /\ tab'[t] = r
    BY <1>3, <2>2 DEF FlushEnd
  <2>4. None # "held"
    BY TabsAssumption DEF None
  <2>5. Waiting(r) /\ ~Booting(r) /\ r.flush = {}
    BY <1>5, <2>1, <2>2, <2>4 DEF Holding, Waiting, Booting
  <2> QED BY <1>2, <1>7, <2>2, <2>3, <2>5
<1>8. CASE ~Owns(t)
  <2>1. Waiting(tab[t])
    BY <1>8 DEF Roles
  <2>2. k = "refused" /\ tab[t].flush = {"refused"} /\ \A s \in Slots : tab[t].ph[s] = "refused"
    BY <1>6, <2>1 DEF Waiting
  <2>3. {u \in Slots : r.ph[u] = "refused"} = Slots /\ Slots # {}
    BY <1>5, <2>2, TabsAssumption
  <2>4. PICK s \in Slots : tab'[t] = AfterSteal(r, s)
    BY <1>3, <2>2, <2>3
  <2>5. r.flush = {} /\ r.asks = <<>> /\ r.up /\ r.cur # "held" /\ ~r.refresh /\ ~r.rej
    BY <1>5, <2>1, <2>2, <2>3 DEF Waiting
  <2>6. Waiting(AfterSteal(r, s)) /\ ~Booting(AfterSteal(r, s))
    BY <1>4, <1>5, <2>5, WaiterStandsDown
  <2>7. AfterSteal(r, s).flush = {}
    BY <1>4, <1>5, <2>5 DEF AfterSteal, IsWriter, AbortPendingSteal, Emit, TabType
  <2>8. owner' = owner
    BY <2>2 DEF FlushEnd
  <2> QED BY <1>2, <1>8, <2>2, <2>4, <2>6, <2>7, <2>8
<1> QED BY <1>7, <1>8

LEMMA GoneStep ==
    ASSUME LockTypeOK, NEW t \in Tabs, Gone(t)
    PROVE  /\ \A u \in Tabs \ {t} : tab'[u] = tab[u]
           /\ Waiting(tab'[t]) /\ ~Booting(tab'[t])
           /\ owner' = IF Owns(t) THEN None ELSE owner
<1>1. tab'[t] = Closed /\ \A u \in Tabs \ {t} : tab'[u] = tab[u]
  BY DEF Gone, Update, LockTypeOK
<1>2. ~Booting(Closed)
  BY DEF Booting, Closed
<1> QED BY <1>1, <1>2, ClosedWaits DEF Gone

LEMMA RefreshedStep ==
    ASSUME LockTypeOK, Roles, NEW t \in Tabs, Refreshed(t)
    PROVE  /\ Owns(t) /\ owner' = owner
           /\ \A u \in Tabs \ {t} : tab'[u] = tab[u]
           /\ tab[t].refresh /\ ~tab[t].surface
           /\ Holding(tab'[t]) /\ tab'[t].surface /\ tab'[t].flush = {}
<1>1. tab[t] \in TabType /\ Owns(t) /\ Holding(tab[t]) /\ tab[t].refresh /\ ~tab[t].surface
  BY DEF LockTypeOK, Refreshed, Roles, Waiting, Holding
<1>2. PICK q : q = [tab[t] EXCEPT !.refresh = FALSE, !.surface = TRUE]
  OBVIOUS
<1>3. tab'[t] = q /\ (\A u \in Tabs \ {t} : tab'[u] = tab[u]) /\ owner' = owner
  BY <1>2 DEF Refreshed, Update, LockTypeOK
<1>4. Holding(q) /\ q.surface /\ q.flush = {}
  BY <1>1, <1>2 DEF Holding, TabType
<1> QED BY <1>1, <1>3, <1>4

-----------------------------------------------------------------------------
(* A discarded executor's put is older than its tab.                         *)
Dead(d) == \A i \in 1 .. Len(d.late) : d.late[i].gen < d.gen

(* The puts on their way are the executor's.                                 *)
Executor(d) ==
    /\ \A i \in 1 .. Len(d.chain) : d.chain[i].gen = d.exgen /\ d.chain[i].non = d.exnon
    /\ d.exgen <= d.gen
    /\ d.chain # <<>> => d.has
    /\ d.open = "read" => ~d.has
    /\ d.open = "flush" => d.chain # <<>>
    /\ d.refreshing => d.open # "idle"

(* The executor is the one the image is from, or a newer one, and its puts    *)
(* bring more and more rows.                                                 *)
Current(d, im) ==
    /\ im.rows \subseteq d.rows
    /\ im.gen < d.exgen \/ (im.gen = d.exgen /\ im.non = d.exnon)
    /\ \A i \in 1 .. Len(d.chain) :
        /\ im.rows \subseteq d.chain[i].rows
        /\ d.chain[i].rows \subseteq d.rows
        /\ \A j \in i .. Len(d.chain) : d.chain[i].rows \subseteq d.chain[j].rows

Leading(d, im) == d.exgen = d.gen /\ Current(d, im)

(* While the tab yields, its last put covers what it committed.              *)
Handing(d, im) ==
    /\ Ready(d) /\ "chain" \in d.await
    /\ ~d.rolled => IF d.chain = <<>> THEN d.rows \subseteq im.rows
                    ELSE d.chain[Len(d.chain)].rows = d.rows

(* The writer's database: an open that was overtaken by a seal will fail; a   *)
(* seal that was overtaken by an open will be refused.                       *)
Writing(d, r, im) ==
    \/ /\ r.surface /\ d.sealing = "idle"
       /\ d.has => Leading(d, im) \/ (d.exgen < d.gen /\ d.open = "flush")
       /\ r.flush # {} => Handing(d, im)
    \/ /\ ~r.surface /\ d.sealing = "idle"
       /\ d.chain # <<>> => Leading(d, im)
    \/ /\ ~r.surface /\ d.sealing = "put" /\ d.seal.gen = d.gen
       /\ im.gen < d.gen /\ im.rows \subseteq d.seal.rows
       /\ d.chain # <<>> => d.exgen < d.gen
    \/ /\ ~r.surface /\ d.sealing = "put" /\ d.seal.gen < d.gen
       /\ d.has => Leading(d, im)
    \/ /\ ~r.surface /\ d.sealing = "refresh"
       /\ d.has => Leading(d, im)

Reading(d, r) ==
    /\ d.chain = <<>> /\ d.sealing = "idle"
    /\ Booting(r) => d.open = "read"

TabInv(t) ==
    /\ Dead(db[t]) /\ Executor(db[t])
    /\ IF Owns(t) THEN Holding(tab[t]) /\ Writing(db[t], tab[t], image)
                  ELSE Waiting(tab[t]) /\ Reading(db[t], tab[t])

StoreInv == \A t \in Tabs : TabInv(t)

(* What a step of one tab may do.                                            *)
GoodStep(t) ==
    /\ \A u \in Tabs \ {t} : tab'[u] = tab[u] /\ db'[u] = db[u]
    /\ owner' = owner \/ ((Owns(t) \/ owner = None) /\ owner' \in {t, None})
    /\ image' = image \/ (Owns(t) /\ image.rows \subseteq image'.rows)
    /\ TabInv(t)'
    /\ Owns(t) /\ owner' = None /\ tab'[t].up => Handing(db[t], image) /\ db[t].chain = <<>>

LEMMA OthersKeep ==
    ASSUME StoreInv, NEW t \in Tabs, GoodStep(t)
    PROVE  StoreInv'
<1> SUFFICES ASSUME NEW u \in Tabs PROVE TabInv(u)'
  BY DEF StoreInv
<1>1. CASE u = t
  BY <1>1 DEF GoodStep
<1>2. CASE u # t /\ Owns(u)
  <2>1. owner' = owner /\ image' = image
    BY <1>2, TabsAssumption DEF GoodStep, Owns
  <2> QED BY <1>2, <2>1 DEF GoodStep, StoreInv, TabInv, Owns
<1>3. CASE u # t /\ ~Owns(u)
  <2>1. ~Owns(u)'
    BY <1>3, TabsAssumption DEF GoodStep, Owns
  <2> QED BY <1>3, <2>1 DEF GoodStep, StoreInv, TabInv
<1> QED BY <1>1, <1>2, <1>3

LEMMA InvRoles == StoreInv => Roles
BY DEF StoreInv, TabInv, Roles

(* A put is added to those on their way.                                     *)
LEMMA AddPut ==
    ASSUME NEW d \in DbType, NEW im \in Puts, Executor(d), Leading(d, im), d.has, NEW e, e = Persist(d)
    PROVE  /\ e \in DbType /\ Executor(e) /\ Leading(e, im)
           /\ e.late = d.late /\ e.gen = d.gen /\ e.open = d.open /\ e.has /\ e.sealing = d.sealing
           /\ e.rows = d.rows /\ e.rolled = d.rolled
           /\ ~d.rolled => e.chain # <<>> /\ e.chain[Len(e.chain)].rows = d.rows
<1>1. CASE d.rolled
  BY <1>1 DEF Persist
<1>2. CASE ~d.rolled
  <2>1. PICK x : x = Export(d)
    OBVIOUS
  <2>2. x \in Puts /\ x.rows = d.rows /\ x.gen = d.exgen /\ x.non = d.exnon
    BY <2>1 DEF Export, Puts, DbType
  <2>3. PICK c : c = Append(d.chain, x)
    OBVIOUS
  <2>4. /\ c \in Seq(Puts) /\ Len(c) = Len(d.chain) + 1 /\ c[Len(c)] = x /\ c # <<>>
        /\ \A i \in 1 .. Len(d.chain) : c[i] = d.chain[i]
        /\ Len(d.chain) \in Nat
    BY <2>2, <2>3 DEF DbType
  <2>5. e = [d EXCEPT !.chain = c]
    BY <1>2, <2>1, <2>3 DEF Persist
  <2>6. e \in DbType
    BY <2>4, <2>5 DEF DbType
  <2>7. /\ e.chain = c /\ e.late = d.late /\ e.gen = d.gen /\ e.open = d.open /\ e.has = d.has
        /\ e.sealing = d.sealing /\ e.rows = d.rows /\ e.rolled = d.rolled /\ e.exgen = d.exgen
        /\ e.exnon = d.exnon /\ e.refreshing = d.refreshing
    BY <2>5 DEF DbType
  <2>8. \A i \in 1 .. Len(c) : i \in 1 .. Len(d.chain) \/ i = Len(c)
    BY <2>4
  <2>9. Executor(e)
    BY <2>2, <2>4, <2>7, <2>8 DEF Executor
  <2>10. Leading(e, im)
    <3>1. \A i \in 1 .. Len(c) : im.rows \subseteq c[i].rows /\ c[i].rows \subseteq d.rows
      BY <2>2, <2>4, <2>8 DEF Leading, Current
    <3>2. \A i \in 1 .. Len(c) : \A j \in i .. Len(c) : c[i].rows \subseteq c[j].rows
      <4> TAKE i \in 1 .. Len(c)
      <4> TAKE j \in i .. Len(c)
      <4>1. CASE j = Len(c)
        BY <2>2, <2>4, <3>1, <4>1
      <4>2. CASE j # Len(c)
        <5>1. j \in i .. Len(d.chain) /\ i \in 1 .. Len(d.chain) /\ j \in 1 .. Len(d.chain)
          BY <2>4, <4>2
        <5> QED BY <2>4, <5>1 DEF Leading, Current
      <4> QED BY <4>1, <4>2
    <3> QED BY <2>7, <3>1, <3>2 DEF Leading, Current
  <2> QED BY <2>2, <2>4, <2>6, <2>7, <2>9, <2>10
<1> QED BY <1>1, <1>2

(* A put leaves for IndexedDB.                                               *)
LEMMA FirstPut ==
    ASSUME NEW d \in DbType, d.chain # <<>>, NEW c, c = Tail(d.chain)
    PROVE  /\ Head(d.chain) = d.chain[1] /\ Head(d.chain) \in Puts /\ 1 \in 1 .. Len(d.chain)
           /\ c \in Seq(Puts) /\ Len(c) = Len(d.chain) - 1
           /\ \A i \in 1 .. Len(c) : c[i] = d.chain[i + 1] /\ i + 1 \in 1 .. Len(d.chain)
           /\ Len(d.chain) \in Nat /\ Len(c) \in Nat
           /\ c = <<>> <=> Len(d.chain) = 1
           /\ c # <<>> => c[Len(c)] = d.chain[Len(d.chain)]
<1> DEFINE x == d.chain
<1>1. x \in Seq(Puts) /\ x # <<>>
  BY DEF DbType
<1> HIDE DEF x
<1>2. /\ Len(x) \in Nat /\ Len(x) >= 1
  BY <1>1
<1>3. Head(x) = x[1] /\ x[1] \in Puts
  BY <1>1, <1>2
<1>4. Tail(x) \in Seq(Puts) /\ Len(Tail(x)) = Len(x) - 1
  BY <1>1
<1>5. \A i \in 1 .. Len(x) - 1 : Tail(x)[i] = x[i + 1]
  BY <1>1
<1>6. Tail(x) = <<>> <=> Len(x) = 1
  <2> DEFINE y == Tail(x)
  <2>1. y \in Seq(Puts) /\ Len(y) = Len(x) - 1
    BY <1>4
  <2> HIDE DEF y
  <2>2. y = <<>> <=> Len(y) = 0
    BY <2>1, EmptySeq
  <2> QED BY <1>2, <2>1, <2>2 DEF y
<1>7. Tail(x) # <<>> => Tail(x)[Len(x) - 1] = x[Len(x)]
  BY <1>2, <1>4, <1>5, <1>6
<1> QED BY <1>1, <1>2, <1>3, <1>4, <1>5, <1>6, <1>7 DEF x

LEMMA OpenedFields ==
    ASSUME NEW d \in DbType, NEW e, e = Opened(d)
    PROVE  /\ e.chain = d.chain /\ e.late = d.late /\ e.gen = d.gen /\ e.exgen = d.exgen /\ e.exnon = d.exnon
           /\ e.rows = d.rows /\ e.rolled = d.rolled /\ e.await = d.await
           /\ e.sealing = d.sealing /\ e.seal = d.seal
           /\ IF d.open = "flush" /\ d.chain = <<>>
              THEN e.open = "idle" /\ ~e.refreshing /\ e.has = ~d.err
              ELSE e.open = d.open /\ e.refreshing = d.refreshing /\ e.has = d.has
BY DEF Opened, DbType

(* The put of the newest executor is taken, and the image is its copy.       *)
LEMMA FreshPutTaken ==
    ASSUME NEW d \in DbType, NEW im \in Puts, Executor(d), Leading(d, im), d.chain # <<>>,
           NEW put, put = Head(d.chain)
    PROVE  ~(put.gen < d.gen)
           /\ ~(im.gen > put.gen \/ (im.gen = put.gen /\ NonceBelow(put.non, im.non)))
           /\ im.rows \subseteq put.rows
<1>1. put = d.chain[1] /\ put \in Puts /\ 1 \in 1 .. Len(d.chain)
  BY FirstPut
<1>2. put.gen = d.exgen /\ put.non = d.exnon /\ im.rows \subseteq put.rows /\ d.exgen = d.gen
      /\ (im.gen < d.exgen \/ (im.gen = d.exgen /\ im.non = d.exnon))
  BY <1>1 DEF Executor, Leading, Current
<1>3. im.gen \in Nat /\ d.gen \in Nat /\ d.exgen \in Nat
  BY DEF Puts, DbType
<1>4. \A x \in Nonces : ~NonceBelow(x, x)
  BY DEF NonceBelow, Nonces
<1>5. put.non \in Nonces
  BY <1>1 DEF Puts
<1> QED BY <1>2, <1>3, <1>4, <1>5

(* What is left of the puts after the first was taken.                       *)
LEMMA RestLeads ==
    ASSUME NEW d \in DbType, NEW im \in Puts, Executor(d), Leading(d, im), d.chain # <<>>,
           NEW e \in DbType, e.chain = Tail(d.chain), e.rows = d.rows, e.gen = d.gen,
           e.exgen = d.exgen, e.exnon = d.exnon
    PROVE  Leading(e, Head(d.chain))
<1> DEFINE put == Head(d.chain)
           c == e.chain
<1>1. /\ put = d.chain[1] /\ 1 \in 1 .. Len(d.chain) /\ Len(d.chain) \in Nat /\ Len(c) \in Nat
      /\ Len(c) = Len(d.chain) - 1
      /\ \A i \in 1 .. Len(c) : c[i] = d.chain[i + 1] /\ i + 1 \in 1 .. Len(d.chain)
  BY FirstPut
<1>2. put.gen = d.exgen /\ put.non = d.exnon
  BY <1>1 DEF Executor
<1>3. put.rows \subseteq d.rows
  BY <1>1 DEF Leading, Current
<1>4. \A j \in 1 .. Len(d.chain) : put.rows \subseteq d.chain[j].rows
  BY <1>1 DEF Leading, Current
<1> HIDE DEF put, c
<1>5. \A i \in 1 .. Len(c) : put.rows \subseteq c[i].rows /\ c[i].rows \subseteq d.rows
  BY <1>1, <1>4 DEF Leading, Current
<1>6. \A i \in 1 .. Len(c) : \A j \in i .. Len(c) : c[i].rows \subseteq c[j].rows
  <2> TAKE i \in 1 .. Len(c)
  <2> TAKE j \in i .. Len(c)
  <2>1. j \in 1 .. Len(c) /\ j + 1 \in (i + 1) .. Len(d.chain)
    BY <1>1
  <2> QED BY <1>1, <2>1 DEF Leading, Current
<1>7. Leading(e, put)
  BY <1>2, <1>3, <1>5, <1>6 DEF Leading, Current, c
<1> QED BY <1>7 DEF put

LEMMA RestOfExecutor ==
    ASSUME NEW d \in DbType, Executor(d), d.chain # <<>>, NEW e \in DbType, e.chain = Tail(d.chain),
           e.gen = d.gen, e.exgen = d.exgen, e.exnon = d.exnon, e.has, d.open = e.open,
           e.refreshing = d.refreshing, NEW o, o = Opened(e)
    PROVE  Executor(o)
<1>1. /\ Len(d.chain) \in Nat /\ Len(e.chain) \in Nat
      /\ \A i \in 1 .. Len(e.chain) : e.chain[i] = d.chain[i + 1] /\ i + 1 \in 1 .. Len(d.chain)
  BY FirstPut
<1>2. \A i \in 1 .. Len(e.chain) : e.chain[i].gen = d.exgen /\ e.chain[i].non = d.exnon
  BY <1>1 DEF Executor
<1>3. /\ o.chain = e.chain /\ o.gen = e.gen /\ o.exgen = e.exgen /\ o.exnon = e.exnon
      /\ IF e.open = "flush" /\ e.chain = <<>>
         THEN o.open = "idle" /\ ~o.refreshing
         ELSE o.open = e.open /\ o.refreshing = e.refreshing /\ o.has = e.has
  BY OpenedFields
<1>4. d.open # "read" /\ d.exgen <= d.gen /\ (d.refreshing => d.open # "idle")
  BY DEF Executor
<1> QED BY <1>2, <1>3, <1>4, ZenonT(60) DEF Executor

(* A step that leaves what a writer or a reader is judged by.                *)
SameDb(d, e) ==
    /\ e.chain = d.chain /\ e.rows = d.rows /\ e.rolled = d.rolled /\ e.gen = d.gen /\ e.exgen = d.exgen
    /\ e.exnon = d.exnon /\ e.open = d.open /\ e.refreshing = d.refreshing /\ e.has = d.has
    /\ e.sealing = d.sealing /\ e.seal = d.seal

LEMMA SameDbKeeps ==
    ASSUME NEW d, NEW e, SameDb(d, e)
    PROVE  /\ Executor(d) => Executor(e)
           /\ \A r : Reading(d, r) => Reading(e, r)
           /\ \A im : Leading(d, im) => Leading(e, im)
           /\ e.late = d.late /\ Dead(d) => Dead(e)
           /\ \A r, im : e.await = d.await /\ Writing(d, r, im) => Writing(e, r, im)
BY DEF SameDb, Executor, Reading, Leading, Current, Dead, Writing, Handing, Ready

LEMMA WriterYields ==
    ASSUME NEW d \in DbType, NEW im \in Puts, NEW r, NEW q, Dead(d), Executor(d), Writing(d, r, im), Ready(d),
           r.surface, q.surface, NEW e, e = [Persist(d) EXCEPT !.await = @ \cup {"chain"}]
    PROVE  Dead(e) /\ Executor(e) /\ Writing(e, q, im)
<1>1. d.has /\ d.open = "idle" /\ Leading(d, im) /\ d.sealing = "idle"
  BY DEF Writing, Ready
<1>2. PICK p : p = Persist(d)
  OBVIOUS
<1>3. /\ p \in DbType /\ Executor(p) /\ Leading(p, im)
      /\ p.late = d.late /\ p.gen = d.gen /\ p.open = d.open /\ p.has /\ p.sealing = d.sealing
      /\ p.rows = d.rows /\ p.rolled = d.rolled
      /\ ~d.rolled => p.chain # <<>> /\ p.chain[Len(p.chain)].rows = d.rows
  BY <1>1, <1>2, AddPut
<1>4. SameDb(p, e) /\ e.late = p.late /\ "chain" \in e.await
  BY <1>2, <1>3 DEF SameDb, DbType
<1>5. Executor(e) /\ Leading(e, im)
  BY <1>3, <1>4, SameDbKeeps
<1>6. Dead(e)
  BY <1>3, <1>4 DEF Dead, SameDb
<1>7. Handing(e, im)
  BY <1>1, <1>3, <1>4 DEF Handing, Ready, SameDb
<1>8. e.sealing = "idle"
  BY <1>1, <1>3, <1>4 DEF SameDb
<1> QED BY <1>5, <1>6, <1>7, <1>8 DEF Writing

LEMMA ElectionGood ==
    ASSUME StoreTypeOK, StoreInv, Undisturbed, OneTakeover, NEW t \in Tabs, Lock(t)
    PROVE  GoodStep(t)
<1> DEFINE d == db[t]
<1>1. (\A u \in Tabs \ {t} : tab'[u] = tab[u]) /\ (Held(t) \/ Waited(t))
  BY ElectionStep, InvRoles DEF StoreTypeOK
<1>2. image' = image /\ image \in Puts /\ \A u \in Tabs : db'[u] = Flushed(u)
  BY DEF Lock, StoreTypeOK
<1>3. \A u \in Tabs \ {t} : db'[u] = db[u]
  BY <1>1, <1>2 DEF Flushed
<1>4. d \in DbType /\ Dead(d) /\ Executor(d)
  BY DEF StoreTypeOK, StoreInv, TabInv
<1>5. owner' = owner \/ (owner = None /\ owner' = t)
  BY <1>1 DEF Held, Waited
<1>6. TabInv(t)'
  <2>1. CASE Held(t)
    <3>1. Owns(t)' /\ Writing(d, tab[t], image) /\ Asked(tab[t], tab'[t]) /\ Holding(tab'[t])
      BY <2>1 DEF Held, StoreInv, TabInv, Owns
    <3>2. CASE tab'[t].flush = tab[t].flush
      <4>1. db'[t] = d
        BY <1>2, <3>2 DEF Flushed
      <4>2. Writing(d, tab'[t], image)
        BY <3>1, <3>2 DEF Writing, Asked
      <4> QED BY <1>2, <1>4, <3>1, <4>1, <4>2 DEF TabInv
    <3>3. CASE tab'[t].flush # tab[t].flush
      <4>1. Ready(d) /\ tab[t].surface /\ tab'[t].surface
        BY <2>1, <3>1, <3>3 DEF Held, Asked
      <4>2. tab'[t].mode = "writer" /\ tab'[t].flush \ tab[t].flush # {}
        BY <3>1, <3>3 DEF Asked, Holding
      <4>3. db'[t] = [Persist(d) EXCEPT !.await = @ \cup {"chain"}]
        BY <1>2, <4>1, <4>2 DEF Flushed
      <4>4. Dead(db'[t]) /\ Executor(db'[t]) /\ Writing(db'[t], tab'[t], image)
        BY <1>2, <1>4, <3>1, <4>1, <4>3, WriterYields
      <4> QED BY <1>2, <3>1, <4>4 DEF TabInv
    <3> QED BY <3>2, <3>3
  <2>2. CASE ~Owns(t) /\ owner' = owner /\ Moved(tab[t], tab'[t])
    <3>1. Reading(d, tab[t]) /\ ~Owns(t)' /\ Waiting(tab'[t])
      BY <2>2 DEF StoreInv, TabInv, Owns, Moved
    <3>2. Reading(d, tab'[t])
      BY <2>2, <3>1 DEF Reading, Moved
    <3>3. tab'[t].mode = "readonly"
      BY <3>1 DEF Waiting
    <3>4. db'[t] = d \/ db'[t] = [d EXCEPT !.await = @ \cup {"chain"}]
      BY <1>2, <3>3 DEF Flushed
    <3>5. SameDb(d, db'[t]) /\ db'[t].late = d.late
      BY <1>4, <3>4 DEF SameDb, DbType
    <3>6. Dead(db'[t]) /\ Executor(db'[t]) /\ Reading(db'[t], tab'[t])
      BY <1>4, <3>2, <3>5, SameDbKeeps
    <3> QED BY <3>1, <3>6 DEF TabInv
  <2>3. CASE ~Owns(t) /\ owner' = t /\ Won(tab[t], tab'[t])
    <3>1. Reading(d, tab[t]) /\ Owns(t)' /\ Holding(tab'[t]) /\ tab'[t].flush = {}
      BY <2>3 DEF StoreInv, TabInv, Owns, Won
    <3>2. db'[t] = d
      BY <1>2, <2>3 DEF Flushed, Won
    <3>3. tab'[t].surface => ~d.has
      BY <1>4, <2>3, <3>1 DEF Won, Reading, Executor
    <3>4. Writing(d, tab'[t], image)
      BY <3>1, <3>3 DEF Writing, Reading
    <3> QED BY <1>2, <1>4, <3>1, <3>2, <3>4 DEF TabInv
  <2> QED BY <1>1, <2>1, <2>2, <2>3 DEF Waited
<1>7. ~(Owns(t) /\ owner' = None)
  BY <1>5, TabsAssumption DEF Owns
<1> QED BY <1>1, <1>2, <1>3, <1>5, <1>6, <1>7 DEF GoodStep

LEMMA OpenGood ==
    ASSUME StoreTypeOK, StoreInv, OneTakeover, NEW t \in Tabs, OpenTab(t)
    PROVE  GoodStep(t)
<1>1. PICK s \in Slots : Boot(t, s)
  BY DEF OpenTab
<1>2. /\ ~Owns(t) /\ owner' = owner
      /\ \A u \in Tabs \ {t} : tab'[u] = tab[u]
      /\ Waiting(tab'[t])
  BY <1>1, BootStep, InvRoles DEF StoreTypeOK
<1>3. PICK n \in FreshNonces(t, db[t].bumps + 1) :
        db'[t] = [FreshDb(t, db[t].bumps + 1) EXCEPT !.open = "read", !.non = n]
  BY DEF OpenTab, SetDb, StoreTypeOK
<1>4. image' = image /\ \A u \in Tabs \ {t} : db'[u] = db[u]
  BY DEF OpenTab, SetDb, StoreTypeOK
<1>5. PICK e : e = db'[t]
  OBVIOUS
<1>6. /\ e.open = "read" /\ ~e.has /\ e.chain = <<>> /\ e.late = <<>> /\ e.exgen = 0 /\ e.gen = 1
      /\ ~e.refreshing /\ e.sealing = "idle"
  BY <1>3, <1>5 DEF FreshDb
<1>7. Dead(e) /\ Executor(e) /\ Reading(e, tab'[t])
  BY <1>6 DEF Dead, Executor, Reading
<1>8. ~Owns(t)'
  BY <1>2 DEF Owns
<1> QED BY <1>2, <1>4, <1>5, <1>7, <1>8 DEF GoodStep, TabInv

LEMMA FlushGood ==
    ASSUME StoreTypeOK, StoreInv, OneTakeover, NEW t \in Tabs, EndFlush(t)
    PROVE  GoodStep(t)
<1> DEFINE d == db[t]
<1>1. PICK k \in Flushes : FlushEnd(t, k)
  BY DEF EndFlush, FlushOver
<1>2. /\ \A u \in Tabs \ {t} : tab'[u] = tab[u]
      /\ Waiting(tab'[t]) /\ ~Booting(tab'[t]) /\ tab'[t].flush = {}
      /\ IF Owns(t) THEN k = "own" /\ owner' = None ELSE k = "refused" /\ owner' = owner
  BY <1>1, FlushStep, InvRoles DEF StoreTypeOK
<1>3. image' = image /\ \A u \in Tabs \ {t} : db'[u] = db[u]
  BY DEF EndFlush, FlushOver, SetDb, StoreTypeOK
<1>4. db'[t] = [d EXCEPT !.await = {}]
  BY <1>2 DEF EndFlush, FlushOver, SetDb, StoreTypeOK
<1>5. d \in DbType /\ Dead(d) /\ Executor(d)
  BY DEF StoreTypeOK, StoreInv, TabInv
<1>6. SameDb(d, db'[t]) /\ db'[t].late = d.late
  BY <1>4, <1>5 DEF SameDb, DbType
<1>7. Dead(db'[t]) /\ Executor(db'[t])
  BY <1>5, <1>6, SameDbKeeps
<1>8. ~Owns(t)'
  BY <1>2, TabsAssumption DEF Owns
<1>9. k \in tab[t].flush /\ ("chain" \in d.await => d.chain = <<>>)
  BY <1>1 DEF FlushEnd, EndFlush
<1>10. Owns(t) => Handing(d, image) /\ d.chain = <<>> /\ d.sealing = "idle"
  <2> HAVE Owns(t)
  <2>1. Holding(tab[t]) /\ Writing(d, tab[t], image) /\ tab[t].flush # {}
    BY <1>9 DEF StoreInv, TabInv
  <2>2. tab[t].surface
    BY <2>1 DEF Holding
  <2>3. Handing(d, image) /\ d.sealing = "idle"
    BY <2>1, <2>2 DEF Writing
  <2> QED BY <1>9, <2>3 DEF Handing
<1>11. ~Owns(t) => d.chain = <<>> /\ d.sealing = "idle"
  BY DEF StoreInv, TabInv, Reading
<1>12. Reading(db'[t], tab'[t])
  BY <1>2, <1>6, <1>10, <1>11 DEF Reading, SameDb
<1>13. TabInv(t)'
  BY <1>2, <1>7, <1>8, <1>12 DEF TabInv
<1> QED BY <1>2, <1>3, <1>10, <1>13 DEF GoodStep

LEMMA CloseGood ==
    ASSUME StoreTypeOK, StoreInv, NEW t \in Tabs, CloseTab(t)
    PROVE  GoodStep(t)
<1>1. /\ \A u \in Tabs \ {t} : tab'[u] = tab[u]
      /\ Waiting(tab'[t]) /\ ~Booting(tab'[t])
      /\ owner' = IF Owns(t) THEN None ELSE owner
  BY GoneStep DEF CloseTab, StoreTypeOK
<1>2. image' = image /\ db'[t] = FreshDb(t, db[t].bumps) /\ \A u \in Tabs \ {t} : db'[u] = db[u]
  BY DEF CloseTab, SetDb, StoreTypeOK
<1>3. Dead(db'[t]) /\ Executor(db'[t]) /\ Reading(db'[t], tab'[t])
  BY <1>1, <1>2 DEF Dead, Executor, Reading, FreshDb
<1>4. ~Owns(t)'
  BY <1>1, TabsAssumption DEF Owns
<1>5. TabInv(t)'
  BY <1>1, <1>3, <1>4 DEF TabInv
<1>6. ~tab'[t].up
  BY DEF CloseTab, Gone, Update, StoreTypeOK, LockTypeOK, Closed
<1> QED BY <1>1, <1>2, <1>5, <1>6 DEF GoodStep

(* A step of the database alone.                                             *)
LEMMA DbGood ==
    ASSUME StoreTypeOK, StoreInv, NEW t \in Tabs, NEW e, SetDb(t, e), UNCHANGED lockVars,
           Dead(e), Executor(e), UNCHANGED image,
           IF Owns(t) THEN Writing(e, tab[t], image) ELSE Reading(e, tab[t])
    PROVE  GoodStep(t)
<1>1. tab' = tab /\ owner' = owner /\ image' = image /\ db'[t] = e /\ \A u \in Tabs \ {t} : db'[u] = db[u]
  BY DEF lockVars, SetDb, StoreTypeOK
<1>2. TabInv(t)'
  BY <1>1 DEF TabInv, StoreInv, Owns
<1>3. ~(Owns(t) /\ owner' = None)
  BY <1>1, TabsAssumption DEF Owns
<1> QED BY <1>1, <1>2, <1>3 DEF GoodStep

LEMMA WriterOwns ==
    ASSUME StoreInv, NEW t \in Tabs, IsWriter(tab[t])
    PROVE  Owns(t) /\ Holding(tab[t]) /\ tab[t].flush = {}
BY DEF StoreInv, TabInv, IsWriter, Waiting, Holding

LEMMA PutsTyped ==
    ASSUME NEW c \in Seq(Puts)
    PROVE  Len(c) \in Nat /\ \A i \in 1 .. Len(c) : c[i] \in Puts /\ c[i].gen \in Nat
<1>1. Len(c) \in Nat /\ \A i \in 1 .. Len(c) : c[i] \in Puts
  OBVIOUS
<1>2. \A x \in Puts : x.gen \in Nat
  BY DEF Puts
<1> QED BY <1>1, <1>2

LEMMA StaysDead ==
    ASSUME NEW d \in DbType, Dead(d), NEW e, e.late = d.late, e.gen \in Nat, d.gen <= e.gen
    PROVE  Dead(e)
<1>1. d.late \in Seq(Puts) /\ d.gen \in Nat
  BY DEF DbType
<1>2. \A i \in 1 .. Len(d.late) : d.late[i].gen \in Nat
  BY <1>1, PutsTyped
<1> QED BY <1>1, <1>2 DEF Dead

(* A new executor puts the image it was opened from.                         *)
LEMMA WriterOpens ==
    ASSUME NEW d \in DbType, NEW im \in Puts, NEW r, Dead(d), Executor(d), Writing(d, r, im), r.flush = {},
           d.open = "read", NEW g \in Nat, d.gen < g, im.gen < g, NEW n \in Nonces, NEW b \in Nat,
           NEW e, e = Persist([d EXCEPT !.has = TRUE, !.rows = im.rows, !.rolled = FALSE, !.err = FALSE,
                                        !.gen = g, !.exgen = g, !.non = n, !.exnon = n, !.bumps = b,
                                        !.open = "flush"])
    PROVE  Dead(e) /\ Executor(e) /\ Writing(e, r, im)
<1>1. d.chain = <<>> /\ d.late \in Seq(Puts) /\ d.gen \in Nat
  BY DEF Executor, DbType
<1>2. PICK x : x = [rows |-> im.rows, gen |-> g, non |-> n]
  OBVIOUS
<1>3. PICK p : p = [d EXCEPT !.has = TRUE, !.rows = im.rows, !.rolled = FALSE, !.err = FALSE,
                             !.gen = g, !.exgen = g, !.non = n, !.exnon = n, !.bumps = b,
                             !.open = "flush"]
  OBVIOUS
<1>4. /\ p.has /\ p.rows = im.rows /\ ~p.rolled /\ p.gen = g /\ p.exgen = g /\ p.exnon = n /\ p.open = "flush"
      /\ p.chain = <<>> /\ p.late = d.late /\ p.sealing = d.sealing /\ p.seal = d.seal
      /\ p.refreshing = d.refreshing /\ p = [p EXCEPT !.chain = <<>>]
  BY <1>1, <1>3 DEF DbType
<1>5. Append(<<>>, x) = <<x>> /\ Len(<<x>>) = 1 /\ <<x>>[1] = x /\ <<x>> # <<>>
  OBVIOUS
<1>6. e = [p EXCEPT !.chain = <<x>>]
  BY <1>2, <1>3, <1>4, <1>5 DEF Persist, Export
<1>d. p \in DbType
  BY <1>3 DEF DbType, Puts
<1>e. /\ e.has = p.has /\ e.rows = p.rows /\ e.gen = p.gen /\ e.exgen = p.exgen /\ e.exnon = p.exnon
      /\ e.open = p.open /\ e.late = p.late /\ e.sealing = p.sealing /\ e.seal = p.seal
      /\ e.refreshing = p.refreshing
  BY <1>d, <1>6 DEF DbType
<1>c. e.chain = <<x>>
  BY <1>d, <1>6 DEF DbType
<1>7. /\ e.has /\ e.rows = im.rows /\ e.gen = g /\ e.exgen = g /\ e.exnon = n /\ e.open = "flush"
      /\ e.chain = <<x>> /\ e.late = d.late /\ e.sealing = d.sealing /\ e.seal = d.seal
      /\ e.refreshing = d.refreshing
  BY <1>4, <1>e, <1>c
<1>8. x.gen = g /\ x.non = n /\ x.rows = im.rows
  BY <1>2
<1>9. Executor(e)
  <2>1. \A i \in 1 .. Len(e.chain) : e.chain[i] = x
    BY <1>5, <1>7
  <2>2. g <= g
    OBVIOUS
  <2> QED BY <1>5, <1>7, <1>8, <2>1, <2>2, ZenonT(60) DEF Executor
<1>10. Leading(e, im)
  <2>1. \A i \in 1 .. Len(e.chain) : e.chain[i] = x /\ \A j \in i .. Len(e.chain) : e.chain[j] = x
    BY <1>5, <1>7
  <2> QED BY <1>7, <1>8, <2>1 DEF Leading, Current
<1>11. Dead(e)
  BY <1>1, <1>7, StaysDead
<1>12. d.seal.gen \in Nat
  BY DEF DbType, Puts
<1>13. Writing(e, r, im)
  BY <1>1, <1>7, <1>10, <1>12 DEF Writing
<1> QED BY <1>9, <1>11, <1>13

LEMMA OpenReadGood ==
    ASSUME StoreTypeOK, StoreInv, NEW t \in Tabs, OpenRead(t)
    PROVE  GoodStep(t)
<1> DEFINE d == db[t]
<1>1. /\ d \in DbType /\ Dead(d) /\ Executor(d) /\ image \in Puts
      /\ d.open = "read" /\ ~Booting(tab[t]) /\ UNCHANGED lockVars /\ UNCHANGED image
  BY DEF StoreTypeOK, StoreInv, TabInv, OpenRead, Booting
<1>2. Adopted(d.gen) \in Nat /\ Adopted(d.gen) >= d.gen /\ Adopted(d.gen) >= image.gen
      /\ d.gen \in Nat /\ image.gen \in Nat
  BY <1>1 DEF Adopted, DbType, Puts
<1>3. CASE IsWriter(tab[t])
  <2>1. Owns(t) /\ tab[t].flush = {} /\ Writing(d, tab[t], image)
    BY <1>3, WriterOwns DEF StoreInv, TabInv
  <2>2. PICK n \in FreshNonces(t, d.bumps + 1) :
          SetDb(t, Persist([d EXCEPT !.has = TRUE, !.rows = image.rows, !.rolled = FALSE, !.err = FALSE,
                                     !.gen = Adopted(d.gen) + 1, !.exgen = Adopted(d.gen) + 1,
                                     !.non = n, !.exnon = n, !.bumps = d.bumps + 1, !.open = "flush"]))
    BY <1>1, <1>3 DEF OpenRead, DbType
  <2>3. n \in Nonces /\ d.bumps + 1 \in Nat
    BY <1>1, NonceType DEF DbType
  <2>4. PICK g : g = Adopted(d.gen) + 1
    OBVIOUS
  <2>5. g \in Nat /\ d.gen < g /\ image.gen < g
    BY <1>2, <2>4
  <2>6. PICK e : e = Persist([d EXCEPT !.has = TRUE, !.rows = image.rows, !.rolled = FALSE, !.err = FALSE,
                                       !.gen = g, !.exgen = g, !.non = n, !.exnon = n,
                                       !.bumps = d.bumps + 1, !.open = "flush"])
    OBVIOUS
  <2>7. Dead(e) /\ Executor(e) /\ Writing(e, tab[t], image)
    BY <1>1, <2>1, <2>3, <2>5, <2>6, WriterOpens, ZenonT(60)
  <2>8. SetDb(t, e)
    BY <2>2, <2>4, <2>6
  <2> QED BY <1>1, <2>1, <2>7, <2>8, DbGood
<1>4. CASE ~IsWriter(tab[t])
  <2>1. ~Owns(t)
    <3> SUFFICES ASSUME Owns(t) PROVE FALSE
      OBVIOUS
    <3>1. Holding(tab[t]) /\ Writing(d, tab[t], image)
      BY DEF StoreInv, TabInv
    <3>2. tab[t].flush # {} /\ tab[t].surface
      BY <1>4, <3>1 DEF Holding, IsWriter
    <3> QED BY <1>1, <3>1, <3>2 DEF Writing, Handing, Ready
  <2>2. Reading(d, tab[t])
    BY <2>1 DEF StoreInv, TabInv
  <2>3. PICK g : g = Adopted(d.gen)
    OBVIOUS
  <2>4. PICK e : e = [d EXCEPT !.has = TRUE, !.rows = image.rows, !.rolled = FALSE, !.err = FALSE,
                               !.gen = g, !.exgen = g, !.exnon = d.non, !.refreshing = FALSE, !.open = "idle"]
    OBVIOUS
  <2>5. SetDb(t, e)
    BY <1>1, <1>4, <2>3, <2>4 DEF OpenRead, DbType
  <2>6. /\ e.has /\ e.gen = g /\ e.exgen = g /\ e.open = "idle" /\ ~e.refreshing
        /\ e.chain = d.chain /\ e.late = d.late /\ e.sealing = d.sealing
    BY <1>1, <2>4 DEF DbType
  <2>7. Executor(e) /\ Reading(e, tab[t])
    BY <1>1, <1>2, <2>2, <2>3, <2>6 DEF Executor, Reading
  <2>8. Dead(e)
    <3>1. d.gen <= g /\ g \in Nat
      BY <1>2, <2>3
    <3> QED BY <1>1, <2>6, <3>1, StaysDead
  <2> QED BY <1>1, <2>1, <2>5, <2>7, <2>8, DbGood
<1> QED BY <1>3, <1>4

(* What a discarded executor had put before the seal is dead.                *)
LEMMA Discarded ==
    ASSUME NEW d \in DbType, Dead(d), Executor(d), d.chain # <<>> => d.exgen < d.gen, NEW e, e = Reopen(d)
    PROVE  /\ Dead(e) /\ ~e.has /\ e.open = "read" /\ e.chain = <<>> /\ e.gen = d.gen /\ e.exgen = d.exgen
           /\ e.refreshing = d.refreshing /\ e.sealing = d.sealing /\ e.seal = d.seal
           /\ Executor(e) /\ e \in DbType
<1>1. d.late \in Seq(Puts) /\ d.chain \in Seq(Puts)
  BY DEF DbType
<1>2. PICK l : l = d.late \o d.chain
  OBVIOUS
<1>3. /\ e.late = l /\ e.gen = d.gen /\ ~e.has /\ e.open = "read" /\ e.chain = <<>> /\ e.exgen = d.exgen
      /\ e.refreshing = d.refreshing /\ e.sealing = d.sealing /\ e.seal = d.seal
  BY <1>2 DEF Reopen, DbType
<1>4. \A i \in 1 .. Len(d.late) : d.late[i].gen < d.gen
  BY DEF Dead
<1>5. \A i \in 1 .. Len(d.chain) : d.chain[i].gen < d.gen
  <2>1. CASE d.chain = <<>>
    BY <2>1
  <2>2. CASE d.chain # <<>>
    BY <2>2 DEF Executor
  <2> QED BY <2>1, <2>2
<1>6. Len(l) = Len(d.late) + Len(d.chain) /\ Len(d.late) \in Nat /\ Len(d.chain) \in Nat
      /\ \A i \in 1 .. Len(l) : l[i] = IF i <= Len(d.late) THEN d.late[i] ELSE d.chain[i - Len(d.late)]
  <2>1. Len(d.late) \in Nat /\ Len(d.chain) \in Nat
    BY <1>1
  <2>2. /\ Len(d.late \o d.chain) = Len(d.late) + Len(d.chain)
        /\ \A i \in 1 .. Len(d.late) + Len(d.chain) :
             (d.late \o d.chain)[i] = IF i <= Len(d.late) THEN d.late[i] ELSE d.chain[i - Len(d.late)]
    BY <1>1, ConcatProperties, Zenon
  <2> QED BY <1>2, <2>1, <2>2, Zenon
<1>7. \A i \in 1 .. Len(l) : l[i].gen < d.gen
  <2> TAKE i \in 1 .. Len(l)
  <2> DEFINE m == Len(d.late)
             n == Len(d.chain)
  <2>1. m \in Nat /\ n \in Nat /\ i \in 1 .. m + n
    BY <1>6
  <2>2. l[i] = IF i <= m THEN d.late[i] ELSE d.chain[i - m]
    BY <1>6
  <2>3. (i <= m /\ i \in 1 .. m) \/ (~(i <= m) /\ i - m \in 1 .. n)
    <3> HIDE DEF m, n
    <3> QED BY <2>1
  <2>4. CASE i <= m /\ i \in 1 .. m
    BY <1>4, <2>2, <2>4
  <2>5. CASE ~(i <= m) /\ i - m \in 1 .. n
    BY <1>5, <2>2, <2>5
  <2> QED BY <2>3, <2>4, <2>5
<1>8. Dead(e)
  BY <1>3, <1>7 DEF Dead
<1>9. Executor(e)
  BY <1>3 DEF Executor
<1> QED BY <1>3, <1>8, <1>9, ReopenType

LEMMA OpenAgainGood ==
    ASSUME StoreTypeOK, StoreInv, NEW t \in Tabs, OpenAgain(t)
    PROVE  GoodStep(t)
<1> DEFINE d == db[t]
<1>1. /\ d \in DbType /\ Dead(d) /\ Executor(d) /\ UNCHANGED lockVars /\ UNCHANGED image
      /\ ~d.has /\ d.open = "idle" /\ SetDb(t, Reopen(d)) /\ d.chain = <<>>
  BY DEF StoreTypeOK, StoreInv, TabInv, OpenAgain, Executor
<1>2. PICK e : e = Reopen(d)
  OBVIOUS
<1>3. /\ Dead(e) /\ ~e.has /\ e.open = "read" /\ e.chain = <<>> /\ e.gen = d.gen /\ e.exgen = d.exgen
      /\ e.sealing = d.sealing /\ e.seal = d.seal /\ Executor(e)
  BY <1>1, <1>2, Discarded
<1>4. Owns(t) => Writing(e, tab[t], image)
  <2> HAVE Owns(t)
  <2>1. Writing(d, tab[t], image)
    BY DEF StoreInv, TabInv
  <2>2. tab[t].surface => tab[t].flush = {}
    BY <1>1, <2>1 DEF Writing, Handing, Ready
  <2> QED BY <1>1, <1>3, <2>1, <2>2 DEF Writing
<1>5. ~Owns(t) => Reading(e, tab[t])
  BY <1>3 DEF StoreInv, TabInv, Reading
<1> QED BY <1>1, <1>2, <1>3, <1>4, <1>5, DbGood

LEMMA FocusGood ==
    ASSUME StoreTypeOK, StoreInv, NEW t \in Tabs, FocusRefresh(t)
    PROVE  GoodStep(t)
<1> DEFINE d == db[t]
<1>1. /\ d \in DbType /\ Dead(d) /\ Executor(d) /\ UNCHANGED lockVars /\ UNCHANGED image
      /\ tab[t].mode = "readonly" /\ SetDb(t, [Reopen(d) EXCEPT !.refreshing = TRUE])
  BY DEF StoreTypeOK, StoreInv, TabInv, FocusRefresh
<1>2. ~Owns(t) /\ d.chain = <<>> /\ d.sealing = "idle"
  BY <1>1 DEF StoreInv, TabInv, Holding, Reading
<1>3. PICK p : p = Reopen(d)
  OBVIOUS
<1>4. /\ Dead(p) /\ ~p.has /\ p.open = "read" /\ p.chain = <<>> /\ p.sealing = d.sealing /\ Executor(p) /\ p \in DbType
  BY <1>1, <1>2, <1>3, Discarded
<1>5. PICK e : e = [p EXCEPT !.refreshing = TRUE]
  OBVIOUS
<1>6. Dead(e) /\ Executor(e) /\ Reading(e, tab[t])
  BY <1>2, <1>4, <1>5 DEF Dead, Executor, Reading, DbType
<1> QED BY <1>1, <1>2, <1>3, <1>5, <1>6, DbGood

LEMMA PutLateGood ==
    ASSUME StoreTypeOK, StoreInv, NEW t \in Tabs, PutLate(t)
    PROVE  GoodStep(t)
<1> DEFINE d == db[t]
<1>1. d \in DbType /\ Dead(d) /\ Executor(d) /\ UNCHANGED lockVars /\ d.late # <<>>
  BY DEF StoreTypeOK, StoreInv, TabInv, PutLate
<1>2. d.late \in Seq(Puts)
  BY <1>1 DEF DbType
<1>3. PICK l : l = Tail(d.late)
  OBVIOUS
<1>4. /\ Head(d.late) = d.late[1] /\ 1 \in 1 .. Len(d.late) /\ Len(l) = Len(d.late) - 1
      /\ \A i \in 1 .. Len(l) : l[i] = d.late[i + 1] /\ i + 1 \in 1 .. Len(d.late)
  <2> DEFINE x == d.late
  <2>1. x \in Seq(Puts) /\ x # <<>>
    BY <1>1, <1>2
  <2> HIDE DEF x
  <2>2. Len(x) \in Nat /\ Len(x) >= 1
    BY <2>1
  <2>3. Head(x) = x[1] /\ Len(Tail(x)) = Len(x) - 1
    BY <2>1
  <2>4. \A i \in 1 .. Len(x) - 1 : Tail(x)[i] = x[i + 1]
    BY <2>1
  <2> QED BY <1>3, <2>2, <2>3, <2>4 DEF x
<1>5. Head(d.late).gen < d.gen
  BY <1>1, <1>4 DEF Dead
<1>6. UNCHANGED image
  BY <1>5 DEF PutLate, Stale
<1>7. PICK e : e = [d EXCEPT !.late = l]
  OBVIOUS
<1>8. SetDb(t, e)
  BY <1>3, <1>7 DEF PutLate
<1>9. SameDb(d, e) /\ e.await = d.await /\ e.late = l
  BY <1>1, <1>7 DEF SameDb, DbType
<1>10. Executor(e) /\ (\A r : Reading(d, r) => Reading(e, r)) /\ (\A r, im : Writing(d, r, im) => Writing(e, r, im))
  BY <1>1, <1>9, SameDbKeeps
<1>11. Dead(e)
  BY <1>1, <1>4, <1>9 DEF Dead, SameDb
<1>12. IF Owns(t) THEN Writing(e, tab[t], image) ELSE Reading(e, tab[t])
  BY <1>10 DEF StoreInv, TabInv
<1> QED BY <1>1, <1>6, <1>8, <1>10, <1>11, <1>12, DbGood

(* The put of the newest executor is taken: what is left covers it.          *)
LEMMA TakenWrites ==
    ASSUME NEW d \in DbType, NEW im \in Puts, NEW r, Executor(d), Writing(d, r, im), Leading(d, im), d.chain # <<>>,
           NEW e, e = Opened([d EXCEPT !.chain = Tail(@), !.err = FALSE])
    PROVE  Executor(e) /\ e.late = d.late /\ e.gen = d.gen /\ Writing(e, r, Head(d.chain))
<1>1. PICK c : c = Tail(d.chain)
  OBVIOUS
<1>2. /\ c \in Seq(Puts) /\ (c = <<>> <=> Len(d.chain) = 1)
      /\ c # <<>> => c[Len(c)] = d.chain[Len(d.chain)]
      /\ Head(d.chain) = d.chain[1] /\ Head(d.chain) \in Puts /\ 1 \in 1 .. Len(d.chain)
  <2>1. c \in Seq(Puts)
    BY <1>1, FirstPut
  <2>4. c = <<>> <=> Len(d.chain) = 1
    BY <1>1, FirstPut
  <2>2. c # <<>> => c[Len(c)] = d.chain[Len(d.chain)]
    BY <1>1, FirstPut
  <2>3. Head(d.chain) = d.chain[1] /\ Head(d.chain) \in Puts /\ 1 \in 1 .. Len(d.chain)
    BY <1>1, FirstPut
  <2> QED BY <2>1, <2>2, <2>3, <2>4
<1>3. PICK p : p = [d EXCEPT !.chain = c, !.err = FALSE]
  OBVIOUS
<1>4. /\ p \in DbType /\ p.chain = c /\ p.rows = d.rows /\ p.gen = d.gen /\ p.exgen = d.exgen /\ p.exnon = d.exnon
      /\ p.has = d.has /\ p.open = d.open /\ p.refreshing = d.refreshing /\ p.late = d.late
      /\ p.sealing = d.sealing /\ p.seal = d.seal /\ p.rolled = d.rolled /\ p.await = d.await /\ ~p.err
  BY <1>2, <1>3 DEF DbType
<1>5. d.has
  BY DEF Executor
<1>6. e = Opened(p)
  BY <1>1, <1>3
<1>7. Executor(e)
  BY <1>1, <1>4, <1>5, <1>6, RestOfExecutor
<1>8. /\ e.chain = c /\ e.late = d.late /\ e.gen = d.gen /\ e.exgen = d.exgen /\ e.exnon = d.exnon
      /\ e.rows = d.rows /\ e.rolled = d.rolled /\ e.await = d.await
      /\ e.sealing = d.sealing /\ e.seal = d.seal /\ e.has
      /\ d.open = "idle" => e.open = "idle"
  BY <1>4, <1>5, <1>6, OpenedFields
<1>9. Leading(e, Head(d.chain))
  <2>1. Leading(p, Head(d.chain))
    BY <1>1, <1>4, RestLeads
  <2> QED BY <1>4, <1>8, <2>1 DEF Leading, Current
<1>10. Handing(d, im) => Handing(e, Head(d.chain))
  <2> HAVE Handing(d, im)
  <2>1. Ready(e) /\ "chain" \in e.await
    BY <1>8 DEF Handing, Ready
  <2>2. CASE c = <<>>
    <3>1. Head(d.chain) = d.chain[Len(d.chain)]
      BY <1>2, <2>2
    <3> QED BY <1>8, <2>1, <2>2, <3>1 DEF Handing
  <2>3. CASE c # <<>>
    BY <1>2, <1>8, <2>1, <2>3 DEF Handing
  <2> QED BY <2>2, <2>3
<1>11. d.gen \in Nat /\ d.exgen \in Nat
  BY DEF DbType
<1>12. d.sealing = "put" /\ d.seal.gen = d.gen => ~(d.exgen < d.gen)
  BY <1>11 DEF Leading
<1>13. Writing(e, r, Head(d.chain))
  BY <1>8, <1>9, <1>10, <1>11, <1>12 DEF Writing, Leading
<1> QED BY <1>7, <1>8, <1>13

(* A put that was overtaken by the seal is refused.                          *)
Refused(d) == Opened([d EXCEPT !.chain = Tail(@), !.err = TRUE])

LEMMA RefusedWrites ==
    ASSUME NEW d \in DbType, NEW im \in Puts, NEW r, Executor(d), Writing(d, r, im), ~Leading(d, im), d.chain # <<>>,
           r.flush = {},
           NEW e, e = Refused(d)
    PROVE  /\ d.exgen < d.gen
           /\ Executor(e) /\ e.late = d.late /\ e.gen = d.gen /\ Writing(e, r, im)
<1>1. PICK c : c = Tail(d.chain)
  OBVIOUS
<1>2. c \in Seq(Puts)
  BY <1>1, FirstPut
<1>3. PICK p : p = [d EXCEPT !.chain = c, !.err = TRUE]
  OBVIOUS
<1>4. /\ p \in DbType /\ p.chain = c /\ p.rows = d.rows /\ p.gen = d.gen /\ p.exgen = d.exgen /\ p.exnon = d.exnon
      /\ p.has = d.has /\ p.open = d.open /\ p.refreshing = d.refreshing /\ p.late = d.late
      /\ p.sealing = d.sealing /\ p.seal = d.seal /\ p.rolled = d.rolled /\ p.await = d.await /\ p.err
  BY <1>2, <1>3 DEF DbType
<1>5. d.has
  BY DEF Executor
<1>6. e = Opened(p)
  BY <1>1, <1>3 DEF Refused
<1>7. Executor(e)
  BY <1>1, <1>4, <1>5, <1>6, RestOfExecutor
<1>8. /\ e.chain = c /\ e.late = d.late /\ e.gen = d.gen /\ e.exgen = d.exgen
      /\ e.sealing = d.sealing /\ e.seal = d.seal
      /\ d.open = "flush" => IF c = <<>> THEN ~e.has ELSE e.open = "flush"
  BY <1>4, <1>6, OpenedFields, ZenonT(60)
<1>9. \/ r.surface /\ d.sealing = "idle" /\ d.exgen < d.gen /\ d.open = "flush"
      \/ /\ ~r.surface /\ d.sealing = "put" /\ d.seal.gen = d.gen
         /\ im.gen < d.gen /\ im.rows \subseteq d.seal.rows /\ d.exgen < d.gen
  <2>1. CASE r.surface
    BY <1>5, <2>1, SMTT(30) DEF Writing
  <2>2. CASE ~r.surface
    BY <1>5, <2>2, SMTT(30) DEF Writing
  <2> QED BY <2>1, <2>2
<1>10. Writing(e, r, im)
  BY <1>8, <1>9 DEF Writing
<1> QED BY <1>7, <1>8, <1>9, <1>10

LEMMA PutNextGood ==
    ASSUME StoreTypeOK, StoreInv, NEW t \in Tabs, PutNext(t)
    PROVE  GoodStep(t)
<1> DEFINE d == db[t]
<1>1. /\ d \in DbType /\ Dead(d) /\ Executor(d) /\ UNCHANGED lockVars /\ d.chain # <<>> /\ image \in Puts
  BY DEF StoreTypeOK, StoreInv, TabInv, PutNext
<1>2. Owns(t) /\ Holding(tab[t]) /\ Writing(d, tab[t], image)
  BY <1>1 DEF StoreInv, TabInv, Reading
<1>3. tab' = tab /\ owner' = owner /\ \A u \in Tabs \ {t} : db'[u] = db[u]
  BY <1>1 DEF lockVars, PutNext, SetDb, StoreTypeOK
<1>4. ~(Owns(t) /\ owner' = None)
  BY <1>3, TabsAssumption DEF Owns
<1>5. CASE Leading(d, image)
  <2>1. PICK put : put = Head(d.chain)
    OBVIOUS
  <2>2. ~Stale(put, d) /\ image.rows \subseteq put.rows
    BY <1>1, <1>5, <2>1, FreshPutTaken DEF Stale, Newer
  <2>3. PICK e : e = Opened([d EXCEPT !.chain = Tail(@), !.err = FALSE])
    OBVIOUS
  <2>4. image' = put /\ db'[t] = e
    <3>1. e = Opened([[d EXCEPT !.chain = Tail(@)] EXCEPT !.err = FALSE])
      BY <2>3
    <3> QED BY <2>1, <2>2, <3>1 DEF PutNext, SetDb, StoreTypeOK
  <2>5. Executor(e) /\ e.late = d.late /\ e.gen = d.gen /\ Writing(e, tab[t], put)
    BY <1>1, <1>2, <1>5, <2>1, <2>3, TakenWrites
  <2>6. Dead(e)
    BY <1>1, <2>5 DEF Dead
  <2>7. TabInv(t)'
    BY <1>2, <1>3, <2>4, <2>5, <2>6 DEF TabInv, Owns
  <2> QED BY <1>2, <1>3, <1>4, <2>2, <2>4, <2>7 DEF GoodStep
<1>6. CASE ~Leading(d, image)
  <2>1. tab[t].flush = {} /\ IsWriter(tab[t])
    <3>1. tab[t].flush # {} => Ready(d) /\ d.sealing = "idle" /\ tab[t].surface
      BY <1>2 DEF Holding, Writing, Handing
    <3>2. tab[t].flush # {} => Leading(d, image)
      BY <1>2, <3>1 DEF Writing, Ready
    <3>3. tab[t].flush = {}
      BY <1>6, <3>2
    <3> QED BY <1>2, <3>3 DEF Holding, IsWriter
  <2>2. PICK e : e = Refused(d)
    OBVIOUS
  <2>3. d.exgen < d.gen /\ Executor(e) /\ e.late = d.late /\ e.gen = d.gen /\ Writing(e, tab[t], image)
    <3>1. d \in DbType /\ image \in Puts /\ Executor(d) /\ Writing(d, tab[t], image) /\ ~Leading(d, image)
          /\ d.chain # <<>> /\ tab[t].flush = {}
      BY <1>1, <1>2, <1>6, <2>1
    <3> QED BY <3>1, <2>2, RefusedWrites
  <2>4. Head(d.chain).gen = d.exgen
    <3>1. Head(d.chain) = d.chain[1] /\ 1 \in 1 .. Len(d.chain)
      BY <1>1, FirstPut
    <3> QED BY <1>1, <3>1 DEF Executor
  <2>5. Stale(Head(d.chain), d)
    BY <2>3, <2>4 DEF Stale
  <2>6. SetDb(t, e) /\ UNCHANGED image
    <3>1. SetDb(t, Opened([[d EXCEPT !.chain = Tail(@)] EXCEPT !.err = @ \/ IsWriter(tab[t])])) /\ UNCHANGED image
      BY <2>5 DEF PutNext
    <3>2. [[d EXCEPT !.chain = Tail(@)] EXCEPT !.err = @ \/ IsWriter(tab[t])] = [d EXCEPT !.chain = Tail(@), !.err = TRUE]
      BY <1>1, <2>1 DEF DbType
    <3> QED BY <2>2, <3>1, <3>2 DEF Refused
  <2>7. Dead(e)
    BY <1>1, <2>3 DEF Dead
  <2> QED BY <1>1, <1>2, <2>3, <2>6, <2>7, DbGood
<1> QED BY <1>5, <1>6

LEMMA WriteGood ==
    ASSUME StoreTypeOK, StoreInv, NEW t \in Tabs, NEW w \in Rows, NEW begins \in BOOLEAN, Write(t, w, begins)
    PROVE  GoodStep(t)
<1> DEFINE d == db[t]
<1>1. /\ d \in DbType /\ Dead(d) /\ Executor(d) /\ UNCHANGED lockVars /\ UNCHANGED image /\ image \in Puts
      /\ tab[t].surface /\ Ready(d)
  BY DEF StoreTypeOK, StoreInv, TabInv, Write, MayWrite
<1>2. Owns(t) /\ tab[t].flush = {} /\ Writing(d, tab[t], image)
  BY WriterOwns DEF Write, MayWrite, StoreInv, TabInv
<1>3. Leading(d, image) /\ d.sealing = "idle" /\ d.has
  BY <1>1, <1>2 DEF Writing, Ready
<1>4. PICK p : p = [d EXCEPT !.rows = @ \cup {w}, !.rolled = @ /\ ~begins]
  OBVIOUS
<1>5. /\ p \in DbType /\ p.rows = d.rows \cup {w} /\ p.chain = d.chain /\ p.gen = d.gen /\ p.exgen = d.exgen
      /\ p.exnon = d.exnon /\ p.has = d.has /\ p.open = d.open /\ p.refreshing = d.refreshing /\ p.late = d.late
      /\ p.sealing = d.sealing
  BY <1>1, <1>4 DEF DbType
<1>6. Executor(p)
  BY <1>1, <1>5 DEF Executor
<1>7. Leading(p, image)
  BY <1>3, <1>5 DEF Leading, Current
<1>8. PICK e : e = Persist(p)
  OBVIOUS
<1>9. /\ Executor(e) /\ Leading(e, image)
      /\ e.late = p.late /\ e.gen = p.gen /\ e.sealing = p.sealing
  BY <1>1, <1>3, <1>5, <1>6, <1>7, <1>8, AddPut
<1>10. Writing(e, tab[t], image)
  BY <1>1, <1>2, <1>3, <1>5, <1>9 DEF Writing
<1>11. Dead(e)
  BY <1>1, <1>5, <1>9 DEF Dead
<1>12. SetDb(t, e)
  BY <1>4, <1>8 DEF Write
<1> QED BY <1>1, <1>2, <1>9, <1>10, <1>11, <1>12, DbGood

LEMMA RollbackGood ==
    ASSUME StoreTypeOK, StoreInv, NEW t \in Tabs, Rollback(t)
    PROVE  GoodStep(t)
<1> DEFINE d == db[t]
<1>1. /\ d \in DbType /\ Dead(d) /\ Executor(d) /\ UNCHANGED lockVars /\ UNCHANGED image
  BY DEF StoreTypeOK, StoreInv, TabInv, Rollback
<1>2. Owns(t) /\ tab[t].flush = {} /\ Writing(d, tab[t], image)
  BY WriterOwns DEF Rollback, MayWrite, StoreInv, TabInv
<1>3. PICK e : e = [d EXCEPT !.rolled = TRUE]
  OBVIOUS
<1>4. /\ e.rows = d.rows /\ e.chain = d.chain /\ e.gen = d.gen /\ e.exgen = d.exgen
      /\ e.exnon = d.exnon /\ e.has = d.has /\ e.open = d.open /\ e.refreshing = d.refreshing /\ e.late = d.late
      /\ e.sealing = d.sealing /\ e.seal = d.seal
  BY <1>1, <1>3 DEF DbType
<1>5. Executor(e) /\ Dead(e)
  BY <1>1, <1>4 DEF Executor, Dead
<1>6. Leading(d, image) => Leading(e, image)
  BY <1>4 DEF Leading, Current
<1>7. Writing(e, tab[t], image)
  BY <1>2, <1>4, <1>6 DEF Writing
<1>8. SetDb(t, e)
  BY <1>3 DEF Rollback
<1> QED BY <1>1, <1>2, <1>5, <1>7, <1>8, DbGood

(* Only the tab that holds the lock seals.                                   *)
LEMMA SealReadGood ==
    ASSUME StoreTypeOK, StoreInv, NEW t \in Tabs, SealRead(t)
    PROVE  GoodStep(t)
<1> DEFINE d == db[t]
<1>1. /\ d \in DbType /\ Dead(d) /\ Executor(d) /\ UNCHANGED lockVars /\ UNCHANGED image /\ image \in Puts
      /\ tab[t].refresh
  BY DEF StoreTypeOK, StoreInv, TabInv, SealRead
<1>2. Owns(t) /\ ~tab[t].surface
  BY <1>1 DEF StoreInv, TabInv, Waiting, Holding
<1>3. Adopted(d.gen) \in Nat /\ Adopted(d.gen) >= d.gen /\ Adopted(d.gen) >= image.gen
      /\ d.gen \in Nat /\ image.gen \in Nat /\ d.exgen \in Nat
  BY <1>1 DEF Adopted, DbType, Puts
<1>4. PICK g : g = Adopted(d.gen) + 1
  OBVIOUS
<1>5. g \in Nat /\ d.gen < g /\ image.gen < g /\ d.gen <= g
  BY <1>3, <1>4
<1>6. PICK n \in FreshNonces(t, d.bumps + 1) :
        SetDb(t, [d EXCEPT !.gen = g, !.non = n, !.bumps = @ + 1, !.sealing = "put",
                           !.seal = [rows |-> image.rows, gen |-> g, non |-> n]])
  BY <1>4 DEF SealRead
<1>7. PICK e : e = [d EXCEPT !.gen = g, !.non = n, !.bumps = @ + 1, !.sealing = "put",
                             !.seal = [rows |-> image.rows, gen |-> g, non |-> n]]
  OBVIOUS
<1>8. /\ e.chain = d.chain /\ e.gen = g /\ e.exgen = d.exgen
      /\ e.exnon = d.exnon /\ e.has = d.has /\ e.open = d.open /\ e.refreshing = d.refreshing /\ e.late = d.late
      /\ e.sealing = "put" /\ e.seal.gen = g /\ e.seal.rows = image.rows
  BY <1>1, <1>7 DEF DbType
<1>9. d.exgen <= d.gen /\ d.exgen < g
  BY <1>1, <1>3, <1>5 DEF Executor
<1>10. Executor(e)
  BY <1>1, <1>3, <1>5, <1>8, <1>9 DEF Executor
<1>11. Dead(e)
  BY <1>1, <1>5, <1>8, StaysDead
<1>12. Writing(e, tab[t], image)
  BY <1>2, <1>5, <1>8, <1>9 DEF Writing
<1>13. SetDb(t, e)
  BY <1>6, <1>7
<1> QED BY <1>1, <1>2, <1>10, <1>11, <1>12, <1>13, DbGood

(* A step that ends the refresh of the tab that holds the lock.              *)
LEMMA RefreshGood ==
    ASSUME StoreTypeOK, StoreInv, NEW t \in Tabs, NEW e, SetDb(t, e), Refreshed(t),
           Dead(e), Executor(e), NEW q, q = tab'[t],
           q.surface /\ q.flush = {} => Writing(e, q, image'),
           image' = image \/ image.rows \subseteq image'.rows
    PROVE  GoodStep(t)
<1>1. /\ Owns(t) /\ owner' = owner
      /\ \A u \in Tabs \ {t} : tab'[u] = tab[u]
      /\ Holding(q) /\ q.surface /\ q.flush = {}
  BY RefreshedStep, InvRoles DEF StoreTypeOK
<1>2. db'[t] = e /\ \A u \in Tabs \ {t} : db'[u] = db[u]
  BY DEF SetDb, StoreTypeOK
<1>3. TabInv(t)'
  BY <1>1, <1>2 DEF TabInv, Owns
<1>4. ~(Owns(t) /\ owner' = None)
  BY <1>1, TabsAssumption DEF Owns
<1> QED BY <1>1, <1>2, <1>3, <1>4 DEF GoodStep

LEMMA SealDoneGood ==
    ASSUME StoreTypeOK, StoreInv, NEW t \in Tabs, SealDone(t)
    PROVE  GoodStep(t)
<1> DEFINE d == db[t]
<1>1. /\ d \in DbType /\ Dead(d) /\ Executor(d) /\ UNCHANGED image
      /\ Refreshed(t) /\ d.sealing = "refresh" /\ ~d.refreshing
  BY DEF StoreTypeOK, StoreInv, TabInv, SealDone
<1>2. Writing(d, tab[t], image)
  BY <1>1 DEF StoreInv, TabInv, Reading
<1>3. PICK e : e = [d EXCEPT !.sealing = "idle"]
  OBVIOUS
<1>4. /\ e.rows = d.rows /\ e.chain = d.chain /\ e.gen = d.gen /\ e.exgen = d.exgen
      /\ e.exnon = d.exnon /\ e.has = d.has /\ e.open = d.open /\ e.refreshing = d.refreshing /\ e.late = d.late
      /\ e.sealing = "idle"
  BY <1>1, <1>3 DEF DbType
<1>5. Executor(e) /\ Dead(e)
  BY <1>1, <1>4 DEF Executor, Dead
<1>6. d.has => Leading(e, image)
  BY <1>1, <1>2, <1>4 DEF Writing, Leading, Current
<1>7. PICK q : q = tab'[t]
  OBVIOUS
<1>8. q.surface /\ q.flush = {} => Writing(e, q, image')
  BY <1>1, <1>4, <1>6 DEF Writing
<1>9. SetDb(t, e)
  BY <1>3 DEF SealDone
<1> QED BY <1>1, <1>5, <1>7, <1>8, <1>9, RefreshGood

LEMMA SealPutGood ==
    ASSUME StoreTypeOK, StoreInv, NEW t \in Tabs, SealPut(t)
    PROVE  GoodStep(t)
<1>1. PICK d : d = db[t]
  OBVIOUS
<1>2. /\ d \in DbType /\ Dead(d) /\ Executor(d) /\ image \in Puts /\ d.sealing = "put" /\ d.seal \in Puts
  BY <1>1 DEF StoreTypeOK, StoreInv, TabInv, SealPut, DbType
<1>3. Owns(t) /\ Writing(d, tab[t], image) /\ ~tab[t].surface
  BY <1>1, <1>2 DEF StoreInv, TabInv, Reading, Writing
<1>4. PICK p : p = [d EXCEPT !.seal = NoSeal]
  OBVIOUS
<1>5. /\ p \in DbType /\ p.rows = d.rows /\ p.chain = d.chain /\ p.gen = d.gen /\ p.exgen = d.exgen
      /\ p.exnon = d.exnon /\ p.has = d.has /\ p.open = d.open /\ p.refreshing = d.refreshing /\ p.late = d.late
      /\ p.sealing = d.sealing
  BY <1>2, <1>4, NoSealType DEF DbType
<1>6. Executor(p) /\ Dead(p)
  BY <1>2, <1>5 DEF Executor, Dead
<1>7. Leading(d, image) => Leading(p, image)
  BY <1>5 DEF Leading, Current
<1>8. d.gen \in Nat /\ d.seal.gen \in Nat /\ image.gen \in Nat
  BY <1>2 DEF DbType, Puts
<1>s. PICK f : f = [p EXCEPT !.sealing = "idle"]
  OBVIOUS
<1>f. /\ f.rows = p.rows /\ f.chain = p.chain /\ f.gen = p.gen /\ f.exgen = p.exgen
      /\ f.exnon = p.exnon /\ f.has = p.has /\ f.open = p.open /\ f.refreshing = p.refreshing /\ f.late = p.late
      /\ f.sealing = "idle"
  BY <1>5, <1>s DEF DbType
<1>g. Executor(f) /\ Dead(f) /\ (Leading(p, image) => Leading(f, image))
  BY <1>6, <1>f DEF Executor, Dead, Leading, Current
<1>q. PICK q : q = tab'[t]
  OBVIOUS
<1>9. CASE d.seal.gen < d.gen
  <2>1. Stale(d.seal, p)
    BY <1>5, <1>9 DEF Stale
  <2>2. image' = image /\ SetDb(t, f) /\ Refreshed(t)
    BY <1>1, <1>4, <1>s, <2>1 DEF SealPut
  <2>3. d.has => Leading(d, image)
    BY <1>2, <1>3, <1>8, <1>9 DEF Writing
  <2>4. q.surface /\ q.flush = {} => Writing(f, q, image')
    BY <1>5, <1>7, <1>f, <1>g, <2>2, <2>3 DEF Writing
  <2> QED BY <1>g, <1>q, <2>2, <2>4, RefreshGood
<1>10. CASE ~(d.seal.gen < d.gen)
  <2>1. /\ d.seal.gen = d.gen /\ image.gen < d.gen /\ image.rows \subseteq d.seal.rows
        /\ d.chain # <<>> => d.exgen < d.gen
    BY <1>2, <1>3, <1>8, <1>10 DEF Writing
  <2>2. ~Stale(d.seal, p)
    BY <1>5, <1>8, <2>1 DEF Stale, Newer
  <2>3. image' = d.seal
    BY <1>1, <1>4, <2>2 DEF SealPut
  <2>4. CASE d.refreshing
    <3>1. SetDb(t, f) /\ Refreshed(t)
      BY <1>1, <1>4, <1>5, <1>s, <2>4 DEF SealPut
    <3>2. d.has => d.exgen < d.gen /\ d.open = "flush"
      BY <1>2, <2>1, <2>4 DEF Executor, DbType
    <3>3. q.surface /\ q.flush = {} => Writing(f, q, image')
      BY <1>5, <1>f, <3>2 DEF Writing
    <3> QED BY <1>g, <1>q, <2>1, <2>3, <3>1, <3>3, RefreshGood
  <2>5. CASE ~d.refreshing
    <3>1. PICK o : o = Reopen(p)
      OBVIOUS
    <3>2. /\ Dead(o) /\ ~o.has /\ o.open = "read" /\ o.chain = <<>> /\ o.gen = p.gen /\ o.exgen = p.exgen
          /\ Executor(o) /\ o \in DbType
      BY <1>5, <1>6, <2>1, <3>1, Discarded
    <3>3. PICK e : e = [o EXCEPT !.refreshing = TRUE, !.sealing = "refresh"]
      OBVIOUS
    <3>4. /\ e.late = o.late /\ ~e.has /\ e.open = "read" /\ e.chain = <<>> /\ e.gen = o.gen /\ e.exgen = o.exgen
          /\ e.sealing = "refresh"
      BY <3>2, <3>3 DEF DbType
    <3>5. Dead(e) /\ Executor(e) /\ Writing(e, tab[t], image')
      BY <1>3, <3>2, <3>4 DEF Dead, Executor, Writing
    <3>6. SetDb(t, e) /\ UNCHANGED lockVars
      BY <1>1, <1>4, <1>5, <2>2, <2>5, <3>1, <3>3 DEF SealPut
    <3>7. tab' = tab /\ owner' = owner /\ db'[t] = e /\ \A u \in Tabs \ {t} : db'[u] = db[u]
      BY <3>6 DEF lockVars, SetDb, StoreTypeOK
    <3>8. TabInv(t)'
      BY <1>3, <3>5, <3>7 DEF TabInv, StoreInv, Owns
    <3>9. ~(Owns(t) /\ owner' = None)
      BY <3>7, TabsAssumption DEF Owns
    <3> QED BY <1>3, <2>1, <2>3, <3>7, <3>8, <3>9 DEF GoodStep
  <2> QED BY <2>4, <2>5
<1> QED BY <1>9, <1>10

-----------------------------------------------------------------------------
LEMMA StoreStepGood ==
    ASSUME StoreTypeOK, StoreInv, Undisturbed, OneTakeover, StoreNext
    PROVE  \E t \in Tabs : GoodStep(t)
<1>1. PICK t \in Tabs :
        \/ Lock(t) \/ OpenTab(t) \/ EndFlush(t) \/ CloseTab(t)
        \/ OpenRead(t) \/ OpenAgain(t) \/ FocusRefresh(t)
        \/ PutNext(t) \/ PutLate(t)
        \/ \E w \in Rows, begins \in BOOLEAN : Write(t, w, begins)
        \/ Rollback(t)
        \/ SealRead(t) \/ SealPut(t) \/ SealDone(t)
  BY DEF StoreNext
<1>2. CASE Lock(t) \/ OpenTab(t) \/ EndFlush(t) \/ CloseTab(t)
  BY <1>2, ElectionGood, OpenGood, FlushGood, CloseGood
<1>3. CASE OpenRead(t) \/ OpenAgain(t) \/ FocusRefresh(t)
  BY <1>3, OpenReadGood, OpenAgainGood, FocusGood
<1>4. CASE PutNext(t) \/ PutLate(t)
  BY <1>4, PutNextGood, PutLateGood
<1>5. CASE (\E w \in Rows, begins \in BOOLEAN : Write(t, w, begins)) \/ Rollback(t)
  BY <1>5, WriteGood, RollbackGood
<1>6. CASE SealRead(t) \/ SealPut(t) \/ SealDone(t)
  BY <1>6, SealReadGood, SealPutGood, SealDoneGood
<1> QED BY <1>1, <1>2, <1>3, <1>4, <1>5, <1>6

LEMMA StoreInvInit == StoreInit => StoreInv
<1> SUFFICES ASSUME StoreInit, NEW t \in Tabs PROVE TabInv(t)
  BY DEF StoreInv
<1>1. tab[t] = Closed /\ ~Owns(t) /\ db[t] = FreshDb(t, 0)
  BY TabsAssumption DEF StoreInit, LockInit, Owns
<1>2. ~Booting(Closed)
  BY DEF Booting, Closed
<1>3. Dead(db[t]) /\ Executor(db[t]) /\ Reading(db[t], tab[t])
  BY <1>1, <1>2 DEF FreshDb, Dead, Executor, Reading
<1> QED BY <1>1, <1>3, ClosedWaits DEF TabInv

LEMMA StoreInvStep ==
    StoreTypeOK /\ StoreInv /\ Undisturbed /\ OneTakeover /\ [StoreNext]_allVars => StoreInv'
<1> SUFFICES ASSUME StoreTypeOK, StoreInv, Undisturbed, OneTakeover, [StoreNext]_allVars PROVE StoreInv'
  OBVIOUS
<1>1. CASE StoreNext
  BY <1>1, StoreStepGood, OthersKeep
<1>2. CASE UNCHANGED allVars
  BY <1>2 DEF allVars, lockVars, storeVars, StoreInv, TabInv, Owns
<1> QED BY <1>1, <1>2

(* README "Web Locks": one tab holds the lock, it alone counts as the writer *)
(* and seals; every put on its way is of its executor or dead; and its own    *)
(* database has every row of the image once it may write.  For any number of *)
(* tabs and rows and any bounds, when a tab runs one takeover at a time and   *)
(* none of the disturbances of Undisturbed happens.                          *)
THEOREM StoreInvariant == OneTakeover /\ Undisturbed => (StoreSpec => []StoreInv)
<1> SUFFICES ASSUME OneTakeover, Undisturbed PROVE StoreSpec => []StoreInv
  OBVIOUS
<1>1. StoreInit => StoreInv
  BY StoreInvInit
<1>2. StoreTypeOK /\ StoreInv /\ [StoreNext]_allVars => StoreInv'
  BY StoreInvStep
<1> QED BY <1>1, <1>2, StoreTyped, PTL DEF StoreSpec

(* A tab that may write has opened an image with every row put before: no     *)
(* commit starts from a copy that an earlier writer has outdated.            *)
THEOREM NewestRows == OneTakeover /\ Undisturbed => (StoreSpec => []WriterIsCurrent)
<1> SUFFICES ASSUME OneTakeover, Undisturbed PROVE StoreSpec => []WriterIsCurrent
  OBVIOUS
<1>1. StoreInv => WriterIsCurrent
  <2> SUFFICES ASSUME StoreInv, NEW t \in Tabs, MayWrite(t) PROVE image.rows \subseteq db[t].rows
    BY DEF WriterIsCurrent
  <2>1. Owns(t) /\ tab[t].surface /\ Ready(db[t]) /\ Writing(db[t], tab[t], image)
    BY WriterOwns DEF MayWrite, StoreInv, TabInv
  <2>2. Leading(db[t], image)
    BY <2>1 DEF Writing, Ready
  <2> QED BY <2>2 DEF Leading, Current
<1> QED BY <1>1, StoreInvariant, PTL

(* The image never loses a row another put had brought: a put that would take *)
(* one away is stale and refused, whichever tab it is from.                  *)
THEOREM ImageGrows == OneTakeover /\ Undisturbed => (StoreSpec => NothingLost)
<1> SUFFICES ASSUME OneTakeover, Undisturbed PROVE StoreSpec => NothingLost
  OBVIOUS
<1>1. StoreTypeOK /\ StoreInv /\ [StoreNext]_allVars => [image.rows \subseteq image'.rows]_allVars
  <2> SUFFICES ASSUME StoreTypeOK, StoreInv, StoreNext PROVE image.rows \subseteq image'.rows
    OBVIOUS
  <2>1. PICK t \in Tabs : GoodStep(t)
    BY StoreStepGood
  <2> QED BY <2>1 DEF GoodStep
<1> QED BY <1>1, StoreInvariant, StoreTyped, PTL DEF StoreSpec, NothingLost

(* A tab that gives the lock up has put every row it committed, unless it had *)
(* rolled back before.                                                       *)
THEOREM LastPutDone == OneTakeover /\ Undisturbed => (StoreSpec => HandedOver)
<1> SUFFICES ASSUME OneTakeover, Undisturbed PROVE StoreSpec => HandedOver
  OBVIOUS
<1> DEFINE Step == \A t \in Tabs :
                     Owns(t) /\ owner' = None /\ tab'[t].up /\ Ready(db[t])
                     /\ ~db[t].rolled /\ db[t].exgen = db[t].gen
                     => db[t].rows \subseteq image.rows
<1>1. StoreTypeOK /\ StoreInv /\ [StoreNext]_allVars => [Step]_allVars
  <2> SUFFICES ASSUME StoreTypeOK, StoreInv, StoreNext,
                      NEW t \in Tabs, Owns(t), owner' = None, tab'[t].up, ~db[t].rolled
               PROVE  db[t].rows \subseteq image.rows
    OBVIOUS
  <2>1. PICK u \in Tabs : GoodStep(u)
    BY StoreStepGood
  <2>2. u = t
    BY <2>1, TabsAssumption DEF GoodStep, Owns
  <2>3. Handing(db[t], image) /\ db[t].chain = <<>>
    BY <2>1, <2>2 DEF GoodStep
  <2> QED BY <2>3 DEF Handing
<1> QED BY <1>1, StoreInvariant, StoreTyped, PTL DEF StoreSpec, HandedOver

(* README "Web Locks": the tab that counts as the writer holds the Web Lock,  *)
(* and no two tabs count as the writer.                                      *)
OneWrites == \A t, u \in Tabs : IsWriter(tab[t]) /\ IsWriter(tab[u]) => t = u

THEOREM OneWriter == OneTakeover /\ Undisturbed => (StoreSpec => [](WriterHoldsLock /\ OneWrites))
<1> SUFFICES ASSUME OneTakeover, Undisturbed PROVE StoreSpec => [](WriterHoldsLock /\ OneWrites)
  OBVIOUS
<1>1. StoreInv => WriterHoldsLock /\ OneWrites
  <2> SUFFICES ASSUME StoreInv PROVE WriterHoldsLock /\ OneWrites
    OBVIOUS
  <2>1. \A t \in Tabs : IsWriter(tab[t]) => Owns(t)
    BY WriterOwns
  <2>2. \A t, u \in Tabs : Owns(t) /\ Owns(u) => t = u
    BY DEF Owns
  <2> QED BY <2>1, <2>2 DEF WriterHoldsLock, OneWrites
<1> QED BY <1>1, StoreInvariant, PTL

(* A tab does not begin to give the lock up in the middle of a critical       *)
(* section: a yield waits until the section is left or its timer fires.      *)
THEOREM SectionsRespected == OneTakeover /\ Undisturbed => (StoreSpec => SectionHolds)
<1> SUFFICES ASSUME OneTakeover, Undisturbed PROVE StoreSpec => SectionHolds
  OBVIOUS
<1> DEFINE Step == \A t \in Tabs : "own" \in tab'[t].flush \ tab[t].flush
                                   => tab[t].sections = 0 \/ tab'[t].depth = 0
<1>1. StoreTypeOK /\ StoreInv /\ [StoreNext]_allVars => [Step]_lockVars
  <2> SUFFICES ASSUME StoreTypeOK, StoreInv, StoreNext, lockVars' # lockVars,
                      NEW u \in Tabs, "own" \in tab'[u].flush \ tab[u].flush
               PROVE  tab'[u].depth = 0
    BY DEF allVars
  <2>r. LockTypeOK /\ Roles
    BY InvRoles DEF StoreTypeOK
  <2>1. PICK t \in Tabs :
          \/ Lock(t) \/ OpenTab(t) \/ EndFlush(t) \/ CloseTab(t)
          \/ OpenRead(t) \/ OpenAgain(t) \/ FocusRefresh(t)
          \/ PutNext(t) \/ PutLate(t)
          \/ \E w \in Rows, begins \in BOOLEAN : Write(t, w, begins)
          \/ Rollback(t)
          \/ SealRead(t) \/ SealPut(t) \/ SealDone(t)
    BY DEF StoreNext
  <2>2. CASE Lock(t)
    <3>1. (\A v \in Tabs \ {t} : tab'[v] = tab[v]) /\ (Held(t) \/ Waited(t))
      BY <2>r, <2>2, ElectionStep
    <3>2. u = t
      BY <3>1
    <3>3. ~Waited(t)
      BY <3>2 DEF Waited, Moved, Won, Waiting
    <3> QED BY <3>1, <3>2, <3>3 DEF Held, Asked
  <2>3. CASE OpenTab(t)
    <3>1. (\A v \in Tabs \ {t} : tab'[v] = tab[v]) /\ Waiting(tab'[t])
      BY <2>r, <2>3, BootStep DEF OpenTab
    <3> QED BY <3>1 DEF Waiting
  <2>4. CASE EndFlush(t)
    <3>1. (\A v \in Tabs \ {t} : tab'[v] = tab[v]) /\ tab'[t].flush = {}
      BY <2>r, <2>4, FlushStep DEF EndFlush, FlushOver
    <3> QED BY <3>1
  <2>5. CASE CloseTab(t)
    <3>1. (\A v \in Tabs \ {t} : tab'[v] = tab[v]) /\ Waiting(tab'[t])
      BY <2>r, <2>5, GoneStep DEF CloseTab
    <3> QED BY <3>1 DEF Waiting
  <2>6. CASE Refreshed(t)
    <3>1. (\A v \in Tabs \ {t} : tab'[v] = tab[v]) /\ tab'[t].flush = {}
      BY <2>r, <2>6, RefreshedStep
    <3> QED BY <3>1
  <2>7. ASSUME UNCHANGED lockVars PROVE FALSE
    BY <2>7
  <2>8. CASE OpenRead(t) \/ OpenAgain(t) \/ FocusRefresh(t) \/ PutNext(t) \/ PutLate(t)
    BY <2>7, <2>8 DEF OpenRead, OpenAgain, FocusRefresh, PutNext, PutLate
  <2>9. CASE (\E w \in Rows, begins \in BOOLEAN : Write(t, w, begins)) \/ Rollback(t) \/ SealRead(t)
    BY <2>7, <2>9 DEF Write, Rollback, SealRead
  <2>10. CASE SealPut(t) \/ SealDone(t)
    BY <2>6, <2>7, <2>10 DEF SealPut, SealDone
  <2> QED BY <2>1, <2>2, <2>3, <2>4, <2>5, <2>8, <2>9, <2>10
<1> QED BY <1>1, StoreInvariant, StoreTyped, PTL DEF StoreSpec, SectionHolds

-----------------------------------------------------------------------------
(* Critical sections under the election alone.                               *)

(* Critical sections are not nested.                                         *)
OneSection == MaxDepth <= 1

NoSteal == "steal" \notin Faults

(* A callback that waits is that of the writer, which runs no takeover and no *)
(* flush; a request whose signal is aborted was aborted outside a section,   *)
(* and nobody has entered one since.                                         *)
Fit(r, o) ==
    /\ ~r.rej
    /\ r.flush \subseteq {"own", "refused"}
    /\ "own" \in r.flush => o
    /\ r.cur = "held" => o /\ IsWriter(r) /\ r.flush = {}
    /\ \A s \in Slots :
        /\ r.ph[s] # "idle" => ~IsWriter(r)
        /\ r.asks # <<>> => r.asks = <<s>> /\ r.ph[s] \in {"boot", "first", "retry"}
        /\ "refused" \in r.flush => r.ph[s] = "refused"
        /\ r.psteal = s => r.ph[s] \in {"steal", "refused"}
        /\ r.asks # <<>> /\ s \in r.aborted => r.sections = 0 \/ r.depth = 0

SectionInv == \A t \in Tabs : Fit(tab[t], Owns(t))

Unbroken(r, q) == "own" \in q.flush \ r.flush => r.sections = 0 \/ q.depth = 0

(* What Fit and Unbroken look at.                                            *)
Same(r, q) ==
    /\ q.rej = r.rej /\ q.flush = r.flush /\ q.cur = r.cur
    /\ q.mode = r.mode /\ q.yielding = r.yielding
    /\ q.ph = r.ph /\ q.asks = r.asks /\ q.psteal = r.psteal /\ q.aborted = r.aborted
    /\ q.sections = r.sections /\ q.depth = r.depth

LEMMA SameFit ==
    ASSUME NEW r, NEW q, NEW o, Same(r, q)
    PROVE  Fit(r, o) => Fit(q, o)
BY DEF Same, Fit, IsWriter

LEMMA EmitSame == ASSUME NEW r \in TabType PROVE Same(r, Emit(r))
BY DEF Same, Emit, TabType

(* beginYielding: nothing else but that a writer yields.                     *)
Yielded(r, q) ==
    /\ q.rej = r.rej /\ q.flush = r.flush /\ q.cur = r.cur
    /\ q.mode = r.mode /\ (r.yielding => q.yielding) /\ (q.mode = "writer" => q.yielding)
    /\ q.ph = r.ph /\ q.asks = r.asks /\ q.psteal = r.psteal /\ q.aborted = r.aborted
    /\ q.sections = r.sections /\ q.depth = r.depth

LEMMA BeginYields == ASSUME NEW r \in TabType PROVE Yielded(r, BeginYielding(r))
<1>1. CASE r.mode = "writer"
  <2> DEFINE y == [r EXCEPT !.yielding = TRUE]
  <2>1. y \in TabType /\ Yielded(r, y)
    BY DEF Yielded, TabType
  <2>2. Same(y, Emit(y))
    BY <2>1, EmitSame
  <2>3. BeginYielding(r) = Emit(y)
    BY <1>1 DEF BeginYielding
  <2> HIDE DEF y
  <2> QED BY <1>1, <2>1, <2>2, <2>3 DEF Yielded, Same
<1>2. CASE r.mode # "writer"
  BY <1>2 DEF BeginYielding, Yielded
<1> QED BY <1>1, <1>2

LEMMA CurTyped ==
    ASSUME NEW y \in TabType, NEW cu \in Slots \cup {None, "held"}
    PROVE  [y EXCEPT !.cur = cu] \in TabType
BY DEF TabType

LEMMA ReaderTyped ==
    ASSUME NEW y \in TabType, NEW as \in Seq(Slots), NEW cu \in Slots \cup {None, "held"}
    PROVE  [y EXCEPT !.mode = "readonly", !.asks = as, !.cur = cu] \in TabType
BY DEF TabType

LEMMA OwnFlush ==
    ASSUME NEW e \in TabType, NEW f, f = [e EXCEPT !.flush = @ \cup {"own"}]
    PROVE  /\ f \in TabType
           /\ f.rej = e.rej /\ f.flush = e.flush \cup {"own"} /\ f.cur = e.cur
           /\ f.mode = e.mode /\ f.yielding = e.yielding
           /\ f.ph = e.ph /\ f.asks = e.asks /\ f.psteal = e.psteal /\ f.aborted = e.aborted
           /\ f.sections = e.sections /\ f.depth = e.depth
<1>1. PICK fl : fl = e.flush \cup {"own"}
  OBVIOUS
<1>2. fl \in SUBSET Flushes
  BY <1>1 DEF TabType, Flushes
<1>3. f = [e EXCEPT !.flush = fl]
  BY <1>1
<1> QED BY <1>1, <1>2, <1>3 DEF TabType

(* A request to yield outside of the sections.                               *)
LEMMA AbortFits ==
    ASSUME NEW r \in TabType, NEW o \in BOOLEAN, Fit(r, o), r.depth = 0,
           NEW y \in TabType, Yielded(r, y)
    PROVE  Fit(Abort(y, o), o) /\ Unbroken(r, Abort(y, o)) /\ Abort(y, o).depth = 0
<1>1. CASE r.cur = "held"
  <2> DEFINE c == [y EXCEPT !.cur = None]
             f == [y EXCEPT !.cur = None, !.flush = @ \cup {"own"}]
  <2>1. o /\ IsWriter(r) /\ r.flush = {} /\ y.cur = "held"
    BY <1>1 DEF Fit, Yielded
  <2>2. Abort(y, o) = StartFlush(c, "own")
    BY <2>1 DEF Abort
  <2>c. c \in TabType
    BY CurTyped
  <2>f. f = [c EXCEPT !.flush = @ \cup {"own"}]
    OBVIOUS
  <2>3. [c EXCEPT !.flush = @ \cup {"own"}] = f /\ f \in TabType
    BY <2>c, <2>f, OwnFlush
  <2>4. StartFlush(c, "own") = BeginYielding(f)
    BY <2>3 DEF StartFlush
  <2>5. /\ f.rej = y.rej /\ f.flush = y.flush \cup {"own"} /\ f.cur = None
        /\ f.mode = y.mode /\ f.yielding = y.yielding
        /\ f.ph = y.ph /\ f.asks = y.asks /\ f.psteal = y.psteal /\ f.aborted = y.aborted
        /\ f.sections = y.sections /\ f.depth = y.depth
    BY DEF TabType
  <2>6. Yielded(f, BeginYielding(f))
    BY <2>3, BeginYields
  <2> HIDE DEF c, f
  <2>7. PICK q : q = BeginYielding(f)
    OBVIOUS
  <2>8. None # "held"
    BY TabsAssumption DEF None
  <2>9. /\ ~q.rej /\ q.flush = {"own"} /\ q.cur = None /\ ~IsWriter(q)
        /\ q.ph = r.ph /\ q.asks = r.asks /\ q.psteal = r.psteal /\ q.aborted = r.aborted
        /\ q.sections = r.sections /\ q.depth = 0
    BY <2>1, <2>5, <2>6, <2>7 DEF Yielded, IsWriter, Fit
  <2>10. Fit(q, o)
    BY <2>1, <2>8, <2>9 DEF Fit
  <2> QED BY <2>2, <2>4, <2>7, <2>9, <2>10 DEF Unbroken
<1>2. CASE r.cur \in Slots
  <2>1. r.cur # "held" /\ y.cur = r.cur
    BY <1>2, TabsAssumption DEF Yielded
  <2>2. Abort(y, o) = [y EXCEPT !.aborted = @ \cup {y.cur}]
    BY <1>2, <2>1 DEF Abort
  <2>3. PICK q : q = [y EXCEPT !.aborted = @ \cup {y.cur}]
    OBVIOUS
  <2>4. /\ q.rej = y.rej /\ q.flush = y.flush /\ q.cur = y.cur
        /\ q.mode = y.mode /\ q.yielding = y.yielding
        /\ q.ph = y.ph /\ q.asks = y.asks /\ q.psteal = y.psteal
        /\ q.sections = y.sections /\ q.depth = y.depth
    BY <2>3 DEF TabType
  <2>5. /\ ~q.rej /\ q.flush = r.flush /\ q.cur # "held" /\ ~IsWriter(q)
        /\ q.ph = r.ph /\ q.asks = r.asks /\ q.psteal = r.psteal
        /\ q.sections = r.sections /\ q.depth = 0
    BY <2>1, <2>4 DEF Yielded, IsWriter, Fit
  <2>6. Fit(q, o)
    BY <2>5 DEF Fit
  <2> QED BY <2>2, <2>3, <2>5, <2>6 DEF Unbroken
<1>3. CASE r.cur = None
  <2>1. y.cur # "held" /\ y.cur \notin Slots
    BY <1>3, TabsAssumption DEF None, Yielded
  <2>2. Abort(y, o) = y
    BY <2>1 DEF Abort
  <2>3. Fit(y, o)
    BY <2>1 DEF Fit, Yielded, IsWriter
  <2> QED BY <2>2, <2>3 DEF Yielded, Unbroken
<1> QED BY <1>1, <1>2, <1>3 DEF TabType

(* A flush of the lock's callback starts outside of the sections.            *)
Outside(r, q) == "own" \in q.flush \ r.flush => q.depth = 0

LEMMA RequestFits ==
    ASSUME NEW r \in TabType, NEW o \in BOOLEAN, Fit(r, o)
    PROVE  Fit(RequestAbort(r, o), o) /\ Outside(r, RequestAbort(r, o))
<1>1. CASE r.depth > 0
  <2> DEFINE q == [r EXCEPT !.deferred = TRUE]
  <2>1. Same(r, q)
    BY DEF Same, TabType
  <2>2. RequestAbort(r, o) = q
    BY <1>1 DEF RequestAbort
  <2> HIDE DEF q
  <2>3. Fit(q, o)
    BY <2>1, SameFit
  <2> QED BY <2>1, <2>2, <2>3 DEF Same, Outside
<1>2. CASE ~(r.depth > 0)
  <2> DEFINE y == BeginYielding(r)
  <2>1. r.depth = 0
    BY <1>2, LimitsAssumption DEF TabType
  <2>2. y \in TabType
    BY FlushType DEF Flushes
  <2>3. Yielded(r, y)
    BY BeginYields
  <2>4. RequestAbort(r, o) = Abort(y, o)
    BY <1>2 DEF RequestAbort
  <2> HIDE DEF y
  <2>5. Fit(Abort(y, o), o)
    BY <2>1, <2>2, <2>3, AbortFits
  <2>6. Abort(y, o).depth = 0
    BY <2>1, <2>2, <2>3, AbortFits
  <2> QED BY <2>4, <2>5, <2>6 DEF Outside
<1> QED BY <1>1, <1>2

LEMMA LeaveFits ==
    ASSUME NEW r \in TabType, NEW o \in BOOLEAN, Fit(r, o), NEW d \in 0 .. MaxDepth, d <= r.depth
    PROVE  Fit(LeaveAt(r, d, o), o) /\ Outside(r, LeaveAt(r, d, o))
<1>1. CASE d > 0 \/ ~r.deferred
  <2>1. PICK q : q = [r EXCEPT !.depth = d]
    OBVIOUS
  <2>2. /\ q.rej = r.rej /\ q.flush = r.flush /\ q.cur = r.cur
        /\ q.mode = r.mode /\ q.yielding = r.yielding
        /\ q.ph = r.ph /\ q.asks = r.asks /\ q.psteal = r.psteal /\ q.aborted = r.aborted
        /\ q.sections = r.sections /\ q.depth = d
    BY <2>1 DEF TabType
  <2>3. r.depth = 0 => d = 0
    BY LimitsAssumption
  <2>4. Fit(q, o)
    BY <2>2, <2>3 DEF Fit, IsWriter
  <2>5. LeaveAt(r, d, o) = q
    BY <1>1, <2>1 DEF LeaveAt
  <2> QED BY <2>2, <2>4, <2>5 DEF Outside
<1>2. CASE ~(d > 0 \/ ~r.deferred)
  <2> DEFINE a == [r EXCEPT !.depth = 0, !.deferred = FALSE]
  <2>1. LeaveAt(r, d, o) = RequestAbort(a, o)
    BY <1>2 DEF LeaveAt
  <2>2. 0 \in 0 .. MaxDepth
    BY LimitsAssumption
  <2>3. a \in TabType
    BY <2>2 DEF TabType
  <2>4. /\ a.rej = r.rej /\ a.flush = r.flush /\ a.cur = r.cur
        /\ a.mode = r.mode /\ a.yielding = r.yielding
        /\ a.ph = r.ph /\ a.asks = r.asks /\ a.psteal = r.psteal /\ a.aborted = r.aborted
        /\ a.sections = r.sections /\ a.depth = 0
    BY DEF TabType
  <2> HIDE DEF a
  <2>5. Fit(a, o)
    BY <2>4 DEF Fit, IsWriter
  <2>6. Fit(RequestAbort(a, o), o)
    BY <2>3, <2>5, RequestFits
  <2>7. Outside(a, RequestAbort(a, o))
    BY <2>3, <2>5, RequestFits
  <2> QED BY <2>1, <2>4, <2>6, <2>7 DEF Outside
<1> QED BY <1>1, <1>2

(* A takeover asks for the lock.                                             *)
LEMMA AcquireFits ==
    ASSUME OneTakeover, NEW r \in TabType, NEW s \in Slots, NEW o \in BOOLEAN, Fit(r, o),
           ~IsWriter(r), r.asks = <<>>, r.ph[s] \notin {"steal", "refused"}, NEW p \in {"first", "retry"}
    PROVE  Fit(TryAcquire(r, s, o, p), o) /\ TryAcquire(r, s, o, p).flush = r.flush
<1> DEFINE a == Abort(r, o)
<1>1. a \in TabType
  BY AbortType
<1>2. /\ a.rej = r.rej /\ a.flush = r.flush /\ a.mode = r.mode /\ a.yielding = r.yielding
      /\ a.ph = r.ph /\ a.asks = r.asks /\ a.psteal = r.psteal
      /\ a.sections = r.sections /\ a.depth = r.depth
  <2>1. r.cur # "held"
    BY DEF Fit
  <2>2. CASE r.cur \in Slots
    <3>1. a = [r EXCEPT !.aborted = @ \cup {r.cur}]
      BY <2>1, <2>2 DEF Abort
    <3> QED BY <3>1 DEF TabType
  <2>3. CASE r.cur \notin Slots
    BY <2>1, <2>3 DEF Abort
  <2> QED BY <2>2, <2>3
<1>3. TryAcquire(r, s, o, p) = [a EXCEPT !.cur = s, !.asks = Append(@, s), !.aborted = @ \ {s}, !.ph[s] = p]
  BY DEF TryAcquire
<1> HIDE DEF a
<1>4. Append(<<>>, s) = <<s>> /\ <<s>> # <<>> /\ s # "held"
  BY TabsAssumption
<1>5. PICK q : q = [a EXCEPT !.cur = s, !.asks = Append(@, s), !.aborted = @ \ {s}, !.ph[s] = p]
  OBVIOUS
<1>6. /\ q.rej = r.rej /\ q.flush = r.flush /\ q.cur = s
      /\ q.mode = r.mode /\ q.yielding = r.yielding
      /\ q.psteal = r.psteal /\ q.sections = r.sections /\ q.depth = r.depth
  BY <1>1, <1>2, <1>5 DEF TabType
<1>7. q.asks = <<s>> /\ q.aborted = a.aborted \ {s}
  BY <1>1, <1>2, <1>4, <1>5 DEF TabType
<1>8. q.ph[s] = p
  BY <1>1, <1>5 DEF TabType
<1>9. \A u \in Slots : u = s
  BY DEF OneTakeover
<1>10. Fit(q, o)
  <2>1. ~q.rej /\ q.flush \subseteq {"own", "refused"} /\ ("own" \in q.flush => o) /\ q.cur # "held"
    BY <1>4, <1>6 DEF Fit
  <2>2. ~IsWriter(q) /\ s \notin q.aborted
    BY <1>6, <1>7 DEF IsWriter
  <2>3. "refused" \notin q.flush /\ q.psteal # s
    BY <1>6 DEF Fit
  <2> QED BY <1>7, <1>8, <1>9, <2>1, <2>2, <2>3 DEF Fit
<1> QED BY <1>3, <1>5, <1>6, <1>10

LEMMA WonTyped ==
    ASSUME NEW k \in TabType, NEW ph \in [Slots -> Phases], NEW ab \in SUBSET Slots, NEW as \in Seq(Slots),
           NEW cu \in Slots \cup {None, "held"}
    PROVE  [k EXCEPT !.mode = "writer", !.yielding = FALSE, !.ph = ph, !.aborted = ab, !.asks = as, !.cur = cu] \in TabType
BY DEF TabType

(* The lock is granted to a takeover.                                        *)
LEMMA GrantFits ==
    ASSUME OneTakeover, NEW r \in TabType, NEW s \in Slots, Fit(r, FALSE), r.asks # <<>>,
           NEW kept, NEW e, NEW q, kept = Kept(r, s), e = Winner(r, kept, s),
           q = IF s \in r.aborted THEN StartFlush(e, "own") ELSE e
    PROVE  Fit(q, TRUE) /\ Unbroken(r, q)
<1>1. r.asks = <<s>> /\ r.ph[s] \in {"boot", "first", "retry"} /\ r.flush = {} /\ r.psteal = None /\ ~r.rej /\ r.cur # "held"
  <2>1. r.asks = <<s>> /\ r.ph[s] \in {"boot", "first", "retry"} /\ ~r.rej /\ r.psteal # s
    BY DEF Fit
  <2>2. "refused" \notin r.flush /\ "own" \notin r.flush
    BY <2>1 DEF Fit
  <2>3. r.flush = {}
    BY <2>2 DEF Fit
  <2>4. r.psteal = None
    BY <2>1 DEF OneTakeover, TabType
  <2>5. r.cur # "held"
    BY DEF Fit
  <2> QED BY <2>1, <2>3, <2>4, <2>5
<1>2. kept \in TabType /\ Same(r, kept)
  <2> DEFINE k == [r EXCEPT !.aborted = @ \cup {}, !.psteal = None]
  <2>1. AbortPendingSteal(r) = k
    BY <1>1 DEF AbortPendingSteal
  <2>a. k = [r EXCEPT !.psteal = None]
    BY DEF TabType
  <2>2. k \in TabType /\ Same(r, k)
    BY <1>1, <2>a DEF TabType, Same
  <2> HIDE DEF k
  <2>3. [k EXCEPT !.taking = FALSE] \in TabType /\ Same(k, [k EXCEPT !.taking = FALSE])
    BY <2>2 DEF TabType, Same
  <2>4. Same(r, r)
    BY DEF Same
  <2> QED BY <2>1, <2>2, <2>3, <2>4 DEF Same, Kept
<1> DEFINE w == [kept EXCEPT !.mode = "writer", !.yielding = FALSE, !.ph[s] = "idle",
                             !.aborted = @ \ {s}, !.asks = Tail(@),
                             !.cur = IF @ # s THEN @ ELSE IF s \in r.aborted THEN None ELSE "held"]
<1>3. e = Emit(w)
  BY DEF Winner
<1>4. Tail(<<s>>) = <<>> /\ <<>> \in Seq(Slots)
  OBVIOUS
<1>5. w = [kept EXCEPT !.mode = "writer", !.yielding = FALSE, !.ph[s] = "idle",
                       !.aborted = @ \ {s}, !.asks = <<>>,
                       !.cur = IF @ # s THEN @ ELSE IF s \in r.aborted THEN None ELSE "held"]
  BY <1>1, <1>2, <1>4 DEF Same
<1> HIDE DEF w
<1>6. w \in TabType
  <2> DEFINE cu == IF kept.cur # s THEN kept.cur ELSE IF s \in r.aborted THEN None ELSE "held"
             ph == [kept.ph EXCEPT ![s] = "idle"]
             ab == kept.aborted \ {s}
  <2>1. cu \in Slots \cup {None, "held"} /\ ph \in [Slots -> Phases] /\ ab \in SUBSET Slots
    BY <1>2 DEF TabType, Phases
  <2>2. w = [kept EXCEPT !.mode = "writer", !.yielding = FALSE, !.ph = ph, !.aborted = ab, !.asks = <<>>, !.cur = cu]
    BY <1>5
  <2> HIDE DEF cu, ph, ab
  <2>3. PICK none : none = <<>>
    OBVIOUS
  <2>4. none \in Seq(Slots)
    BY <1>4, <2>3
  <2>5. kept \in TabType
    BY <1>2
  <2>6. w = [kept EXCEPT !.mode = "writer", !.yielding = FALSE, !.ph = ph, !.aborted = ab, !.asks = none, !.cur = cu]
    BY <2>2, <2>3
  <2> QED BY <2>1, <2>4, <2>5, <2>6, WonTyped
<1>7. /\ w.flush = {} /\ ~w.rej /\ w.asks = <<>> /\ w.psteal = None /\ IsWriter(w)
      /\ w.sections = r.sections /\ w.depth = r.depth
  BY <1>1, <1>2, <1>5 DEF TabType, Same, IsWriter
<1>8. w.ph[s] = "idle" /\ (s \in r.aborted => w.cur # "held")
  <2>1. w.ph = [kept.ph EXCEPT ![s] = "idle"]
    BY <1>2, <1>5 DEF TabType
  <2>2. w.cur = IF kept.cur # s THEN kept.cur ELSE IF s \in r.aborted THEN None ELSE "held"
    BY <1>2, <1>5 DEF TabType
  <2>3. None # "held" /\ kept.cur # "held"
    BY <1>1, <1>2, TabsAssumption DEF None, Same
  <2> QED BY <1>2, <2>1, <2>2, <2>3 DEF TabType
<1>10. e \in TabType /\ Same(w, e)
  BY <1>3, <1>6, EmitSame, EmitType
<1>11. \A u \in Slots : u = s
  BY DEF OneTakeover
<1>12. s \notin {None}
  BY TabsAssumption
<1>13. CASE s \notin r.aborted
  <2>1. q = e
    BY <1>13
  <2>2. Fit(w, TRUE)
    BY <1>7, <1>8, <1>11, <1>12 DEF Fit
  <2>3. Fit(e, TRUE)
    BY <1>10, <2>2, SameFit
  <2> QED BY <1>7, <1>10, <2>1, <2>3 DEF Same, Unbroken
<1>14. CASE s \in r.aborted
  <2>1. r.sections = 0 \/ r.depth = 0
    BY <1>1, <1>14 DEF Fit
  <2> DEFINE f == [e EXCEPT !.flush = @ \cup {"own"}]
  <2>2. f \in TabType
    BY <1>10, OwnFlush
  <2>3. q = BeginYielding(f)
    BY <1>14 DEF StartFlush
  <2>4. /\ f.rej = e.rej /\ f.flush = e.flush \cup {"own"} /\ f.cur = e.cur
        /\ f.mode = e.mode /\ f.yielding = e.yielding
        /\ f.ph = e.ph /\ f.asks = e.asks /\ f.psteal = e.psteal /\ f.aborted = e.aborted
        /\ f.sections = e.sections /\ f.depth = e.depth
    BY <1>10, OwnFlush
  <2> HIDE DEF f
  <2>5. Yielded(f, q)
    BY <2>2, <2>3, BeginYields
  <2>6. /\ ~q.rej /\ q.flush = {"own"} /\ q.cur # "held" /\ ~IsWriter(q)
        /\ q.asks = <<>> /\ q.psteal = None /\ q.ph[s] = "idle"
        /\ q.sections = r.sections /\ q.depth = r.depth
    BY <1>7, <1>8, <1>10, <1>14, <2>4, <2>5 DEF Yielded, Same, IsWriter
  <2>7. Fit(q, TRUE)
    BY <1>11, <1>12, <2>6 DEF Fit
  <2> QED BY <2>1, <2>6, <2>7 DEF Unbroken
<1> QED BY <1>13, <1>14

(* Somebody else holds the lock, see Denied.                                 *)
Loser(r, s) == [r EXCEPT !.mode = "readonly", !.asks = Tail(@), !.cur = IF @ = s THEN None ELSE @]

LEMMA DenyFits ==
    ASSUME OneTakeover, NEW r \in TabType, NEW s \in Slots, NEW o \in BOOLEAN, Fit(r, o), r.asks # <<>>,
           NEW k, k = Loser(r, s),
           NEW q, GoesOn(k, s, o, q)
    PROVE  Fit(q, o) /\ q.flush = r.flush
<1>1. r.asks = <<s>> /\ r.ph[s] \in {"boot", "first", "retry"} /\ "refused" \notin r.flush /\ r.psteal # s
      /\ r.cur # "held" /\ ~r.rej
  BY DEF Fit
<1>2. Tail(<<s>>) = <<>> /\ <<>> \in Seq(Slots)
  OBVIOUS
<1>3. k = [r EXCEPT !.mode = "readonly", !.asks = <<>>, !.cur = IF @ = s THEN None ELSE @]
  BY <1>1, <1>2 DEF Loser
<1>4. k \in TabType
  <2> DEFINE cu == IF r.cur = s THEN None ELSE r.cur
  <2>1. cu \in Slots \cup {None, "held"}
    BY DEF TabType
  <2>2. k = [r EXCEPT !.mode = "readonly", !.asks = <<>>, !.cur = cu]
    BY <1>3
  <2> HIDE DEF cu
  <2>3. PICK none : none = <<>> /\ none \in Seq(Slots)
    BY <1>2
  <2>4. k = [r EXCEPT !.mode = "readonly", !.asks = none, !.cur = cu]
    BY <2>2, <2>3
  <2>5. [r EXCEPT !.mode = "readonly", !.asks = none, !.cur = cu] \in TabType
    BY <2>1, <2>3, ReaderTyped
  <2> QED BY <2>4, <2>5
<1>5. None # "held"
  BY TabsAssumption DEF None
<1>6. /\ k.rej = r.rej /\ k.flush = r.flush /\ k.cur # "held" /\ k.mode = "readonly"
      /\ k.ph = r.ph /\ k.asks = <<>> /\ k.psteal = r.psteal
      /\ k.sections = r.sections /\ k.depth = r.depth
  BY <1>1, <1>3, <1>5 DEF TabType
<1>7. \A u \in Slots : u = s
  BY DEF OneTakeover
<1>8. k.flush \subseteq {"own", "refused"} /\ ("own" \in k.flush => o)
  BY <1>6 DEF Fit
<1>9. ASSUME NEW x, x.rej = k.rej, x.flush = k.flush, x.cur = k.cur, x.mode = "readonly", x.asks = <<>>,
             x.psteal = k.psteal \/ x.ph[s] = "steal"
      PROVE  Fit(x, o) /\ x.flush = r.flush
  <2>1. "refused" \notin x.flush /\ x.cur # "held" /\ ~x.rej /\ ~IsWriter(x)
    BY <1>1, <1>6, <1>9 DEF IsWriter
  <2>2. x.psteal = s => x.ph[s] \in {"steal", "refused"}
    BY <1>1, <1>6, <1>9
  <2> QED BY <1>6, <1>7, <1>8, <1>9, <2>1, <2>2 DEF Fit
<1>10. CASE k.ph[s] = "boot" /\ q = [k EXCEPT !.ph[s] = "idle"]
  <2>1. /\ q.rej = k.rej /\ q.flush = k.flush /\ q.cur = k.cur /\ q.mode = "readonly" /\ q.asks = <<>>
        /\ q.psteal = k.psteal
    BY <1>4, <1>6, <1>10 DEF TabType
  <2> QED BY <1>9, <2>1
<1>11. CASE k.ph[s] = "first" /\ q = [k EXCEPT !.taking = TRUE, !.ph[s] = "wait"]
  <2>1. /\ q.rej = k.rej /\ q.flush = k.flush /\ q.cur = k.cur /\ q.mode = "readonly" /\ q.asks = <<>>
        /\ q.psteal = k.psteal
    BY <1>4, <1>6, <1>11 DEF TabType
  <2> QED BY <1>9, <2>1
<1>12. CASE k.ph[s] = "retry" /\ k.tries[s] < MaxTries /\ q = TryAcquire([k EXCEPT !.tries[s] = @ + 1], s, o, "retry")
  <2> DEFINE n == k.tries[s] + 1
             a == [k EXCEPT !.tries[s] = n]
  <2>1. k.tries[s] \in 0 .. MaxTries /\ k.tries[s] < MaxTries
    BY <1>4, <1>12 DEF TabType
  <2>2. n \in 0 .. MaxTries
    BY <2>1, LimitsAssumption
  <2> HIDE DEF n
  <2>3. a \in TabType
    <3>1. PICK m : m = [k.tries EXCEPT ![s] = n]
      OBVIOUS
    <3>2. m \in [Slots -> 0 .. MaxTries]
      BY <1>4, <2>2, <3>1 DEF TabType
    <3>3. a = [k EXCEPT !.tries = m]
      BY <3>1
    <3>4. \A x \in TabType : [x EXCEPT !.tries = m] \in TabType
      BY <3>2 DEF TabType
    <3> QED BY <1>4, <3>3, <3>4
  <2>4. q = TryAcquire(a, s, o, "retry")
    BY <1>12 DEF n
  <2>5. /\ a.rej = k.rej /\ a.flush = k.flush /\ a.cur = k.cur /\ a.mode = "readonly" /\ a.asks = <<>>
        /\ a.psteal = k.psteal /\ a.ph = k.ph
    BY <1>4, <1>6 DEF TabType
  <2> HIDE DEF a
  <2>6. Fit(a, o) /\ a.flush = r.flush
    BY <1>9, <2>5
  <2>7. ~IsWriter(a) /\ a.ph[s] \notin {"steal", "refused"}
    BY <1>1, <1>6, <2>5 DEF IsWriter
  <2>8. Fit(TryAcquire(a, s, o, "retry"), o)
    BY <2>3, <2>5, <2>6, <2>7, AcquireFits
  <2>9. TryAcquire(a, s, o, "retry").flush = a.flush
    BY <2>3, <2>5, <2>6, <2>7, AcquireFits
  <2> QED BY <2>4, <2>6, <2>8, <2>9
<1>13. CASE k.ph[s] = "retry" /\ q = [k EXCEPT !.ph[s] = "steal", !.psteal = s, !.aborted = @ \ {s}]
  <2>1. /\ q.rej = k.rej /\ q.flush = k.flush /\ q.cur = k.cur /\ q.mode = "readonly" /\ q.asks = <<>>
        /\ q.ph[s] = "steal"
    BY <1>4, <1>6, <1>13 DEF TabType
  <2> QED BY <1>9, <2>1
<1> QED BY <1>10, <1>11, <1>12, <1>13 DEF GoesOn

(* A takeover ends without the role.                                         *)
LEMMA AfterStealFits ==
    ASSUME OneTakeover, NEW r \in TabType, NEW s \in Slots, NEW o \in BOOLEAN,
           r.asks = <<>>, ~IsWriter(r), ~r.rej, r.flush \subseteq {"own"}, r.cur # "held",
           "own" \in r.flush => o
    PROVE  Fit(AfterSteal(r, s), o) /\ AfterSteal(r, s).flush = r.flush
<1> DEFINE a == AbortPendingSteal(r)
           x == [a EXCEPT !.surface = TRUE, !.taking = FALSE, !.ph[s] = "idle"]
<1>1. a \in TabType
  BY AbortType
<1>2. /\ a.asks = r.asks /\ a.mode = r.mode /\ a.yielding = r.yielding /\ a.rej = r.rej
      /\ a.flush = r.flush /\ a.cur = r.cur /\ a.psteal = None
  BY DEF AbortPendingSteal, TabType
<1>3. AfterSteal(r, s) = Emit(x)
  BY DEF AfterSteal
<1> HIDE DEF a
<1>4. /\ x.asks = r.asks /\ x.mode = r.mode /\ x.yielding = r.yielding /\ x.rej = r.rej
      /\ x.flush = r.flush /\ x.cur = r.cur /\ x.psteal = None /\ x.ph[s] = "idle"
  BY <1>1, <1>2 DEF TabType
<1>5. x \in TabType
  BY <1>1 DEF TabType, Phases
<1> HIDE DEF x
<1>6. Same(x, Emit(x))
  BY <1>5, EmitSame
<1>7. Fit(x, o)
  <2>1. \A u \in Slots : u = s /\ u # None
    BY TabsAssumption DEF OneTakeover
  <2> QED BY <1>4, <2>1 DEF Fit, IsWriter
<1>8. Fit(Emit(x), o)
  BY <1>6, <1>7, SameFit
<1> QED BY <1>3, <1>4, <1>6, <1>8 DEF Same

(* A tab moves, and the lock is not passed between two others.               *)
Passed(t) == \A u \in Tabs \ {t} : (owner' = u) <=> (owner = u)

SafeMove(t) ==
    /\ \A u \in Tabs \ {t} : tab'[u] = tab[u]
    /\ Passed(t)
    /\ Fit(tab'[t], owner' = t)
    /\ Unbroken(tab[t], tab'[t])

LEMMA TabStepSafe ==
    ASSUME LockTypeOK, SectionInv, OneTakeover, NoSteal, OneSection, NEW t \in Tabs, TabStep(t)
    PROVE  SafeMove(t)
<1> DEFINE r == tab[t]
           o == Owns(t)
<1>t. r \in TabType /\ o \in BOOLEAN /\ Fit(r, o) /\ t \in Tabs /\ Tabs = DOMAIN tab
  BY DEF LockTypeOK, Owns, SectionInv
<1>p. ASSUME owner' = owner, NEW q, Update(t, q), Fit(q, o), q.flush = r.flush \/ Outside(r, q)
      PROVE  SafeMove(t)
  <2>1. tab'[t] = q /\ \A u \in Tabs \ {t} : tab'[u] = tab[u]
    BY <1>p, <1>t DEF Update
  <2>2. (owner' = t) = o
    BY <1>p DEF Owns
  <2>3. Unbroken(tab[t], q)
    BY <1>p DEF Unbroken, Outside
  <2> QED BY <1>p, <2>1, <2>2, <2>3 DEF SafeMove, Passed
<1>s. \A u, v \in Slots : u = v
  BY DEF OneTakeover
<1>1. ASSUME NEW s \in Slots, StartTakeover(t, s) PROVE SafeMove(t)
  <2> DEFINE a == [r EXCEPT !.pend = TRUE, !.surface = FALSE]
  <2>1. a \in TabType /\ Same(r, a)
    BY <1>t DEF TabType, Same
  <2>2. Update(t, TryAcquire(a, s, o, "first")) /\ ~IsWriter(r) /\ r.ph[s] = "idle" /\ owner' = owner
    BY <1>1 DEF StartTakeover
  <2> HIDE DEF a
  <2>3. Fit(a, o)
    BY <1>t, <2>1, SameFit
  <2>4. r.asks = <<>>
    BY <1>t, <2>2 DEF Fit
  <2>5. ~IsWriter(a) /\ a.asks = <<>> /\ a.ph[s] \notin {"steal", "refused"}
    BY <2>1, <2>2, <2>4 DEF Same, IsWriter
  <2>6. Fit(TryAcquire(a, s, o, "first"), o)
    BY <1>t, <2>1, <2>3, <2>5, AcquireFits
  <2>7. TryAcquire(a, s, o, "first").flush = a.flush
    BY <1>t, <2>1, <2>3, <2>5, AcquireFits
  <2> QED BY <1>p, <2>1, <2>2, <2>6, <2>7 DEF Same
<1>2. ASSUME NEW s \in Slots, WaitOver(t, s) PROVE SafeMove(t)
  <2> DEFINE a == [r EXCEPT !.tries[s] = 1]
  <2>0. 1 \in 0 .. MaxTries
    BY LimitsAssumption
  <2>1. a \in TabType /\ Same(r, a)
    BY <1>t, <2>0 DEF TabType, Same
  <2>2. Update(t, TryAcquire(a, s, o, "retry")) /\ r.ph[s] = "wait" /\ owner' = owner
    BY <1>2 DEF WaitOver
  <2> HIDE DEF a
  <2>3. Fit(a, o)
    BY <1>t, <2>1, SameFit
  <2>4. r.asks = <<>> /\ ~IsWriter(r)
    BY <1>t, <2>2 DEF Fit
  <2>5. ~IsWriter(a) /\ a.asks = <<>> /\ a.ph[s] \notin {"steal", "refused"}
    BY <2>1, <2>2, <2>4 DEF Same, IsWriter
  <2>6. Fit(TryAcquire(a, s, o, "retry"), o)
    BY <1>t, <2>1, <2>3, <2>5, AcquireFits
  <2>7. TryAcquire(a, s, o, "retry").flush = a.flush
    BY <1>t, <2>1, <2>3, <2>5, AcquireFits
  <2> QED BY <1>p, <2>1, <2>2, <2>6, <2>7 DEF Same
<1>3. ASSUME NEW s \in Slots, Granted(t, s) PROVE SafeMove(t)
  <2>k. PICK k : k = Kept(r, s)
    OBVIOUS
  <2>e. PICK e : e = Winner(r, k, s)
    OBVIOUS
  <2>u. Update(t, IF s \in r.aborted THEN StartFlush(e, "own") ELSE e)
    BY <1>3, <2>k, <2>e DEF Granted, Kept, Winner
  <2>1. PICK q : q = IF s \in r.aborted THEN StartFlush(e, "own") ELSE e
    OBVIOUS
  <2>2. Update(t, q) /\ r.asks # <<>> /\ owner = None /\ owner' = t
    BY <1>3, <2>u, <2>1 DEF Granted, Asking
  <2>3. o = FALSE
    BY <2>2, TabsAssumption DEF Owns, None
  <2>4. Fit(r, FALSE)
    BY <1>t, <2>3
  <2>5. Fit(q, TRUE)
    BY <1>t, <2>k, <2>e, <2>1, <2>2, <2>4, GrantFits
  <2>6. Unbroken(r, q)
    BY <1>t, <2>k, <2>e, <2>1, <2>2, <2>4, GrantFits
  <2>7. tab'[t] = q /\ \A u \in Tabs \ {t} : tab'[u] = tab[u]
    BY <1>t, <2>2 DEF Update
  <2>8. Passed(t)
    BY <2>2, TabsAssumption DEF Passed, None
  <2>9. (owner' = t) = TRUE
    BY <2>2
  <2> QED BY <2>5, <2>6, <2>7, <2>8, <2>9 DEF SafeMove
<1>4. ASSUME NEW s \in Slots, Denied(t, s) PROVE SafeMove(t)
  <2>1. PICK k : k = Loser(r, s)
    OBVIOUS
  <2>2. r.asks # <<>> /\ owner' = owner
    BY <1>4 DEF Denied, Asking
  <2>e. \E q : Update(t, q) /\ GoesOn(k, s, o, q)
    BY <1>4, <2>1 DEF Denied, GoesOn, Loser
  <2>3. PICK q : Update(t, q) /\ GoesOn(k, s, o, q)
    BY <2>e
  <2>4. Fit(q, o)
    BY <1>t, <2>1, <2>2, <2>3, DenyFits
  <2>5. q.flush = r.flush
    BY <1>t, <2>1, <2>2, <2>3, DenyFits
  <2> QED BY <1>p, <2>2, <2>3, <2>4, <2>5
<1>5. ASSUME NEW s \in Slots, StealGranted(t, s) PROVE SafeMove(t)
  BY <1>5 DEF StealGranted, NoSteal
<1>6. ASSUME NEW s \in Slots, StealAborted(t, s) PROVE SafeMove(t)
  <2> DEFINE a == [r EXCEPT !.aborted = @ \ {s}]
  <2>1. a \in TabType
    BY <1>t DEF TabType
  <2>2. /\ a.asks = r.asks /\ a.mode = r.mode /\ a.yielding = r.yielding /\ a.rej = r.rej
        /\ a.flush = r.flush /\ a.cur = r.cur
    BY <1>t DEF TabType
  <2>3. Update(t, AfterSteal(a, s)) /\ r.ph[s] = "steal" /\ owner' = owner
    BY <1>6 DEF StealAborted
  <2> HIDE DEF a
  <2>4. r.asks = <<>> /\ ~IsWriter(r) /\ ~r.rej /\ "refused" \notin r.flush /\ r.cur # "held"
    BY <1>t, <2>3 DEF Fit
  <2>5. r.flush \subseteq {"own"} /\ ("own" \in r.flush => o)
    BY <1>t, <2>4 DEF Fit
  <2>6. ~IsWriter(a)
    BY <2>2, <2>4 DEF IsWriter
  <2>7. Fit(AfterSteal(a, s), o)
    BY <1>t, <2>1, <2>2, <2>4, <2>5, <2>6, AfterStealFits
  <2>8. AfterSteal(a, s).flush = a.flush
    BY <1>t, <2>1, <2>2, <2>4, <2>5, <2>6, AfterStealFits
  <2> QED BY <1>p, <2>2, <2>3, <2>7, <2>8
<1>7. ASSUME NEW s \in Slots, StealRefused(t, s) PROVE SafeMove(t)
  <2> DEFINE f == [r EXCEPT !.ph[s] = "refused", !.flush = @ \cup {"refused"}]
  <2>1. r.ph[s] = "steal" /\ owner' = owner /\ Update(t, StartFlush([r EXCEPT !.ph[s] = "refused"], "refused"))
    BY <1>7 DEF StealRefused
  <2>2. f \in TabType
    BY <1>t DEF TabType, Phases, Flushes
  <2>3. StartFlush([r EXCEPT !.ph[s] = "refused"], "refused") = BeginYielding(f)
    <3>1. [[r EXCEPT !.ph[s] = "refused"] EXCEPT !.flush = @ \cup {"refused"}] = f
      BY <1>t DEF TabType
    <3> HIDE DEF f
    <3> QED BY <3>1 DEF StartFlush
  <2>4. /\ f.rej = r.rej /\ f.flush = r.flush \cup {"refused"} /\ f.cur = r.cur /\ f.mode = r.mode
        /\ f.yielding = r.yielding /\ f.asks = r.asks /\ f.psteal = r.psteal /\ f.ph[s] = "refused"
    BY <1>t DEF TabType
  <2> HIDE DEF f
  <2>5. PICK q : q = BeginYielding(f)
    OBVIOUS
  <2>6. Yielded(f, q)
    BY <2>2, <2>5, BeginYields
  <2>7. r.asks = <<>> /\ ~IsWriter(r) /\ ~r.rej /\ r.cur # "held"
    BY <1>t, <2>1 DEF Fit
  <2>8. r.flush \subseteq {"own", "refused"} /\ ("own" \in r.flush => o)
    BY <1>t DEF Fit
  <2>9. /\ q.asks = <<>> /\ ~IsWriter(q) /\ ~q.rej /\ q.cur # "held" /\ q.ph[s] = "refused"
        /\ q.flush = r.flush \cup {"refused"}
    BY <2>4, <2>6, <2>7 DEF Yielded, IsWriter
  <2>10. Fit(q, o)
    BY <1>s, <2>8, <2>9 DEF Fit
  <2>11. Outside(r, q)
    BY <2>9 DEF Outside
  <2> QED BY <1>p, <2>1, <2>3, <2>5, <2>10, <2>11
<1>8. ASSUME NEW s \in Slots, SettleOver(t, s) PROVE SafeMove(t)
  <2> DEFINE a == [r EXCEPT !.taking = FALSE, !.ph[s] = "idle"]
  <2>1. a \in TabType
    BY <1>t DEF TabType, Phases
  <2>2. /\ a.asks = r.asks /\ a.mode = r.mode /\ a.yielding = r.yielding /\ a.rej = r.rej
        /\ a.flush = r.flush /\ a.cur = r.cur /\ a.psteal = r.psteal /\ a.ph[s] = "idle"
    BY <1>t DEF TabType
  <2>3. Update(t, Emit(a)) /\ r.ph[s] = "settle" /\ owner' = owner
    BY <1>8 DEF SettleOver
  <2> HIDE DEF a
  <2>4. r.asks = <<>> /\ ~IsWriter(r) /\ ~r.rej /\ "refused" \notin r.flush /\ r.cur # "held" /\ r.psteal # s
    BY <1>t, <2>3 DEF Fit
  <2>5. r.flush \subseteq {"own"} /\ ("own" \in r.flush => o)
    BY <1>t, <2>4 DEF Fit
  <2>6. Fit(a, o)
    BY <1>s, <2>2, <2>4, <2>5 DEF Fit, IsWriter
  <2>7. Same(a, Emit(a))
    BY <2>1, EmitSame
  <2>8. Fit(Emit(a), o)
    BY <2>6, <2>7, SameFit
  <2> QED BY <1>p, <2>2, <2>3, <2>7, <2>8 DEF Same
<1>9. CASE Rejected(t)
  BY <1>9, <1>t DEF Rejected, Fit
<1>10. CASE Hide(t)
  <2>1. Fit(RequestAbort(r, o), o)
    BY <1>t, RequestFits
  <2>2. Outside(r, RequestAbort(r, o))
    BY <1>t, RequestFits
  <2> QED BY <1>p, <1>10, <2>1, <2>2 DEF Hide
<1>11. ASSUME NEW kind \in {"yield", "claim"}, Receive(t, kind) PROVE SafeMove(t)
  <2>1. CASE UNCHANGED tab
    <3>1. Passed(t) /\ tab' = tab /\ (owner' = t) = o
      BY <1>11, <2>1 DEF Receive, Passed, Owns
    <3> QED BY <1>t, <3>1 DEF SafeMove, Unbroken
  <2>2. CASE Update(t, RequestAbort(r, o))
    <3>1. Fit(RequestAbort(r, o), o)
      BY <1>t, RequestFits
    <3>2. Outside(r, RequestAbort(r, o))
      BY <1>t, RequestFits
    <3>3. owner' = owner
      BY <1>11 DEF Receive
    <3> QED BY <1>p, <2>2, <3>1, <3>2, <3>3
  <2>3. CASE Update(t, RequestAbort(AbortPendingSteal(r), o))
    <3> DEFINE a == AbortPendingSteal(r)
    <3>1. a \in TabType
      BY <1>t, AbortType
    <3>2. /\ a.rej = r.rej /\ a.flush = r.flush /\ a.cur = r.cur /\ a.mode = r.mode /\ a.yielding = r.yielding
          /\ a.ph = r.ph /\ a.asks = r.asks /\ a.psteal = None /\ a.aborted = r.aborted \cup ({r.psteal} \ {None})
          /\ a.sections = r.sections /\ a.depth = r.depth
      BY <1>t DEF AbortPendingSteal, TabType
    <3> HIDE DEF a
    <3>3. \A s \in Slots : s # None
      BY TabsAssumption
    <3>4. \A s \in Slots : r.asks # <<>> => r.psteal # s
      BY <1>t DEF Fit
    <3>5. Fit(a, o)
      BY <1>t, <3>2, <3>3, <3>4 DEF Fit, IsWriter
    <3>6. Fit(RequestAbort(a, o), o)
      BY <1>t, <3>1, <3>5, RequestFits
    <3>7. Outside(a, RequestAbort(a, o))
      BY <1>t, <3>1, <3>5, RequestFits
    <3>8. owner' = owner /\ Update(t, RequestAbort(a, o))
      BY <1>11, <2>3 DEF Receive, a
    <3> QED BY <1>p, <3>2, <3>6, <3>7, <3>8 DEF Outside
  <2> QED BY <1>11, <2>1, <2>2, <2>3 DEF Receive
<1>12. CASE EnterSection(t)
  <2>1. PICK q : q = [r EXCEPT !.depth = @ + 1, !.sections = IF IsWriter(r) THEN @ + 1 ELSE @]
    OBVIOUS
  <2>2. Update(t, q) /\ r.sections < MaxDepth /\ owner' = owner
    BY <1>12, <2>1 DEF EnterSection
  <2>3. /\ q.rej = r.rej /\ q.flush = r.flush /\ q.cur = r.cur /\ q.mode = r.mode /\ q.yielding = r.yielding
        /\ q.ph = r.ph /\ q.asks = r.asks /\ q.psteal = r.psteal /\ q.aborted = r.aborted
        /\ ~IsWriter(r) => q.sections = r.sections
    BY <1>t, <2>1 DEF TabType
  <2>4. r.sections = 0
    BY <1>t, <2>2, LimitsAssumption DEF OneSection, TabType
  <2>5. \A s \in Slots : r.asks # <<>> => ~IsWriter(r)
    BY <1>t DEF Fit
  <2>6. Fit(q, o)
    BY <1>t, <2>3, <2>4, <2>5 DEF Fit, IsWriter
  <2> QED BY <1>p, <2>2, <2>3, <2>6
<1>13. CASE ExitSection(t)
  <2> DEFINE n == r.sections - 1
             d == IF r.depth = 0 THEN 0 ELSE r.depth - 1
  <2>1. n \in 0 .. MaxDepth /\ r.sections \in Nat /\ n < r.sections /\ r.depth \in Nat
    BY <1>13, <1>t, LimitsAssumption DEF ExitSection, TabType
  <2>2. d \in 0 .. MaxDepth /\ d <= r.depth
    BY <1>t, LimitsAssumption DEF TabType
  <2>3. Max({0, r.depth - 1}) = d
    BY <2>1, MaxOfTwo
  <2>4. PICK a : a = [r EXCEPT !.sections = n]
    OBVIOUS
  <2>5. Update(t, LeaveAt(a, d, o)) /\ owner' = owner
    BY <1>13, <2>3, <2>4 DEF ExitSection
  <2>6. a \in TabType
    BY <1>t, <2>1, <2>4 DEF TabType
  <2>7. /\ a.rej = r.rej /\ a.flush = r.flush /\ a.cur = r.cur /\ a.mode = r.mode /\ a.yielding = r.yielding
        /\ a.ph = r.ph /\ a.asks = r.asks /\ a.psteal = r.psteal /\ a.aborted = r.aborted
        /\ a.sections = n /\ a.depth = r.depth
    BY <1>t, <2>4 DEF TabType
  <2>8. r.sections # 0 /\ (r.sections = 0 \/ r.depth = 0 => n = 0 \/ r.depth = 0)
    BY <2>1
  <2> HIDE DEF n, d
  <2>9. Fit(a, o)
    BY <1>t, <2>7, <2>8 DEF Fit, IsWriter
  <2>10. d <= a.depth
    BY <2>2, <2>7
  <2>11. Fit(LeaveAt(a, d, o), o)
    BY <1>t, <2>2, <2>6, <2>9, <2>10, LeaveFits
  <2>12. Outside(a, LeaveAt(a, d, o))
    BY <1>t, <2>2, <2>6, <2>9, <2>10, LeaveFits
  <2> QED BY <1>p, <2>5, <2>7, <2>11, <2>12 DEF Outside
<1>14. CASE SectionTimer(t)
  <2>1. 0 \in 0 .. MaxDepth /\ 0 <= r.depth
    BY <1>t, LimitsAssumption DEF TabType
  <2>2. Fit(LeaveAt(r, 0, o), o)
    BY <1>t, <2>1, LeaveFits
  <2>3. Outside(r, LeaveAt(r, 0, o))
    BY <1>t, <2>1, LeaveFits
  <2> QED BY <1>p, <1>14, <2>2, <2>3 DEF SectionTimer
<1> QED BY <1>1, <1>2, <1>3, <1>4, <1>5, <1>6, <1>7, <1>8, <1>9, <1>10, <1>11, <1>12, <1>13, <1>14 DEF TabStep

LEMMA LockStepSafe ==
    ASSUME LockTypeOK, SectionInv, OneTakeover, NoSteal, OneSection, NEW t \in Tabs,
           \/ TabStep(t)
           \/ \E s \in Slots : Boot(t, s)
           \/ \E k \in Flushes : FlushEnd(t, k)
           \/ Refreshed(t) \/ Gone(t)
    PROVE  SafeMove(t)
<1> DEFINE r == tab[t]
           o == Owns(t)
<1>t. r \in TabType /\ o \in BOOLEAN /\ Fit(r, o) /\ t \in Tabs /\ Tabs = DOMAIN tab
  BY DEF LockTypeOK, Owns, SectionInv
<1>s. \A u, v \in Slots : u = v
  BY DEF OneTakeover
<1>n. None # "held" /\ \A s \in Slots : s # None /\ s # "held"
  BY TabsAssumption DEF None
<1>1. ASSUME NEW s \in Slots, Boot(t, s) PROVE SafeMove(t)
  <2>1. PICK q : q = [Closed EXCEPT !.up = TRUE, !.ph[s] = "boot", !.asks = <<s>>, !.cur = s]
    OBVIOUS
  <2>2. /\ q.asks = <<s>> /\ q.cur = s /\ q.mode = "readonly" /\ ~q.rej /\ q.flush = {} /\ q.psteal = None
        /\ q.ph[s] = "boot" /\ q.sections = 0
    BY <2>1 DEF Closed
  <2>3. tab'[t] = q /\ (\A u \in Tabs \ {t} : tab'[u] = tab[u]) /\ owner' = owner
    BY <1>1, <1>t, <2>1 DEF Boot, Update
  <2>4. Fit(q, owner' = t)
    BY <1>s, <1>n, <2>2 DEF Fit, IsWriter
  <2> QED BY <2>2, <2>3, <2>4 DEF SafeMove, Passed, Unbroken
<1>2. CASE Gone(t)
  <2>1. tab'[t] = Closed /\ (\A u \in Tabs \ {t} : tab'[u] = tab[u])
    BY <1>2, <1>t DEF Gone, Update
  <2>2. Passed(t)
    BY <1>2, TabsAssumption DEF Gone, Passed, Owns, None
  <2>3. Fit(Closed, owner' = t)
    BY <1>n DEF Fit, IsWriter, Closed
  <2>4. Unbroken(tab[t], Closed)
    BY DEF Unbroken, Closed
  <2> QED BY <2>1, <2>2, <2>3, <2>4 DEF SafeMove
<1>3. CASE Refreshed(t)
  <2> DEFINE q == [r EXCEPT !.refresh = FALSE, !.surface = TRUE]
  <2>1. Same(r, q)
    BY <1>t DEF Same, TabType
  <2>2. tab'[t] = q /\ (\A u \in Tabs \ {t} : tab'[u] = tab[u]) /\ owner' = owner
    BY <1>3, <1>t DEF Refreshed, Update
  <2> HIDE DEF q
  <2>3. Fit(q, o)
    BY <1>t, <2>1, SameFit
  <2>4. (owner' = t) = o
    BY <2>2 DEF Owns
  <2>5. Unbroken(tab[t], q)
    BY <2>1 DEF Same, Unbroken
  <2> QED BY <2>2, <2>3, <2>4, <2>5 DEF SafeMove, Passed
<1>4. ASSUME NEW k \in Flushes, FlushEnd(t, k) PROVE SafeMove(t)
  <2>1. PICK a : a = [r EXCEPT !.flush = @ \ {k}, !.yielding = FALSE, !.mode = "readonly"]
    OBVIOUS
  <2>2. a \in TabType
    BY <1>t, <2>1 DEF TabType
  <2>3. /\ a.asks = r.asks /\ a.mode = "readonly" /\ a.rej = r.rej /\ a.flush = r.flush \ {k}
        /\ a.cur = r.cur /\ a.psteal = r.psteal /\ a.aborted = r.aborted /\ a.ph = r.ph
        /\ a.sections = r.sections /\ a.depth = r.depth
    BY <1>t, <2>1 DEF TabType
  <2>4. k \in r.flush /\ owner' = IF k = "own" THEN None ELSE owner
    BY <1>4 DEF FlushEnd
  <2>5. r.cur # "held" /\ k \in {"own", "refused"} /\ ~r.rej /\ r.flush \subseteq {"own", "refused"}
    BY <1>t, <2>4 DEF Fit
  <2>6. "own" \in r.flush => o
    BY <1>t DEF Fit
  <2>7. Passed(t)
    BY <2>4, <2>6, TabsAssumption DEF Passed, Owns, None
  <2>8. "own" \in a.flush => (owner' = t)
    BY <2>3, <2>4, <2>6 DEF Owns
  <2>9. CASE k = "refused"
    <3>1. PICK s \in Slots : Update(t, AfterSteal(a, s))
      <4>1. \A s \in Slots : r.ph[s] = "refused"
        BY <1>t, <2>4, <2>9 DEF Fit
      <4>2. (CHOOSE x \in {s \in Slots : a.ph[s] = "refused"} : TRUE) \in Slots
        BY <4>1, <2>3, TabsAssumption
      <4> QED BY <1>4, <2>1, <2>9, <4>2 DEF FlushEnd
    <3>2. r.asks = <<>>
      BY <1>t, <2>4, <2>9 DEF Fit
    <3>3. a.flush \subseteq {"own"} /\ ~IsWriter(a) /\ (owner' = t) \in BOOLEAN
      BY <2>3, <2>5, <2>9 DEF IsWriter
    <3>4. PICK w \in BOOLEAN : w = (owner' = t)
      BY <3>3
    <3>a. a.asks = <<>> /\ ~a.rej /\ a.cur # "held" /\ ("own" \in a.flush => w)
      BY <2>3, <2>5, <2>8, <3>2, <3>4
    <3>5. Fit(AfterSteal(a, s), w)
      BY <2>2, <3>a, <3>3, AfterStealFits
    <3>6. AfterSteal(a, s).flush = a.flush
      BY <2>2, <3>a, <3>3, AfterStealFits
    <3>7. tab'[t] = AfterSteal(a, s) /\ \A u \in Tabs \ {t} : tab'[u] = tab[u]
      BY <1>t, <3>1 DEF Update
    <3>8. Unbroken(tab[t], AfterSteal(a, s))
      BY <2>3, <3>6 DEF Unbroken
    <3> QED BY <2>7, <3>4, <3>5, <3>7, <3>8 DEF SafeMove
  <2>10. CASE k = "own"
    <3>1. tab'[t] = a /\ \A u \in Tabs \ {t} : tab'[u] = tab[u]
      BY <1>4, <1>t, <2>1, <2>10 DEF FlushEnd, Update
    <3>2. "own" \notin a.flush /\ a.flush \subseteq {"own", "refused"} /\ a.flush \subseteq r.flush
      BY <2>3, <2>5, <2>10
    <3>3. Fit(a, owner' = t)
      BY <1>t, <2>3, <2>5, <3>2 DEF Fit, IsWriter
    <3>4. Unbroken(tab[t], a)
      BY <3>2 DEF Unbroken
    <3> QED BY <2>7, <3>1, <3>3, <3>4 DEF SafeMove
  <2> QED BY <2>5, <2>9, <2>10
<1> QED BY <1>1, <1>2, <1>3, <1>4, TabStepSafe

(* README "Web Locks", "defers yield while the writer critical section is    *)
(* held": a tab does not begin to give the lock up inside a critical section. *)
(* Of the election alone, with hidden and closed tabs, a takeover while the   *)
(* tab yields, and messages lost or late: the hypotheses leave out a stolen   *)
(* lock, two takeovers of one tab and nested sections.                       *)
THEOREM SectionsKept == OneTakeover /\ OneSection /\ NoSteal => (LockSpec => SectionHolds)
<1> SUFFICES ASSUME OneTakeover, OneSection, NoSteal PROVE LockSpec => SectionHolds
  OBVIOUS
<1> DEFINE Step == \A t \in Tabs : "own" \in tab'[t].flush \ tab[t].flush
                                   => tab[t].sections = 0 \/ tab'[t].depth = 0
<1>1. LockInit => SectionInv
  <2>1. \A o \in BOOLEAN : Fit(Closed, o)
    BY TabsAssumption DEF Fit, IsWriter, Closed, None
  <2> QED BY <2>1 DEF LockInit, SectionInv, Owns
<1>2. LockTypeOK /\ SectionInv /\ [LockNext]_lockVars => SectionInv' /\ [Step]_lockVars
  <2> SUFFICES ASSUME LockTypeOK, SectionInv, [LockNext]_lockVars PROVE SectionInv' /\ [Step]_lockVars
    OBVIOUS
  <2>1. CASE UNCHANGED lockVars
    BY <2>1 DEF lockVars, SectionInv, Owns
  <2>2. ASSUME NEW t \in Tabs, SafeMove(t) PROVE SectionInv' /\ Step
    <3>1. ASSUME NEW u \in Tabs PROVE Fit(tab'[u], owner' = u) /\ Unbroken(tab[u], tab'[u])
      <4>1. CASE u = t
        BY <2>2, <4>1 DEF SafeMove
      <4>2. CASE u # t
        <5>1. tab'[u] = tab[u] /\ (owner' = u) = (owner = u)
          BY <2>2, <4>2 DEF SafeMove, Passed
        <5>2. Fit(tab[u], owner = u)
          BY DEF SectionInv, Owns
        <5> QED BY <5>1, <5>2 DEF Unbroken
      <4> QED BY <4>1, <4>2
    <3> QED BY <3>1 DEF SectionInv, Owns, Unbroken
  <2>3. CASE LockNext
    <3>1. PICK t \in Tabs : \/ TabStep(t)
                            \/ \E s \in Slots : Boot(t, s)
                            \/ \E k \in Flushes : FlushEnd(t, k)
                            \/ Refreshed(t) \/ Gone(t)
      BY <2>3 DEF LockNext
    <3>2. SafeMove(t)
      BY <3>1, LockStepSafe
    <3> QED BY <2>2, <3>2
  <2> QED BY <2>1, <2>3
<1> QED BY <1>1, <1>2, ElectionTyped, PTL DEF LockSpec, SectionHolds
=============================================================================
