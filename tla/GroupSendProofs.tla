---------------------------- MODULE GroupSendProofs ----------------------------
(* What the fan-out never does, for any members, messages, faults and       *)
(* number of calls: deliver a message to a member twice, drop an item of a  *)
(* message that is still owed, leave a message `sending` that nobody is     *)
(* owed, or show one as failed that every member was sent.                  *)
EXTENDS GroupSend, TLAPS

Points == {"idle", "next", "fail", "finalize", "count", "write", "write failed", "drop", "settle"}

HeldType ==
    [by : {"none", "fan", "drain", "reset"}, for : Msgs \cup {0}, on : Msgs \cup {0},
     at : Points, rest : SUBSET Msgs]

FanType ==
    [at : {"idle", "loop", "sending", "write", "return"}, todo : SUBSET Peers,
     sent : BOOLEAN, next : {"sending", "sent", "failed"}]

Typed ==
    /\ row \in [Msgs -> States]
    /\ queue \subseteq Items
    /\ held \in [Peers -> HeldType]
    /\ fan \in [Msgs -> FanType]
    /\ sent \in [Msgs -> SUBSET Peers]

LinkInv == link \subseteq Peers

(* A row that is not there, or is `sent`, is owed to nobody, and nobody      *)
(* works at a row that is not there.                                        *)
RowsInv ==
    /\ \A m \in Msgs : row[m] \in {"none", "sent"} => ItemsOf(m) = {}
    /\ \A m \in Msgs : row[m] = "none" => fan[m].at = "idle" /\ sent[m] = {}
    /\ \A m \in Msgs : \A p \in sent[m] : <<m, p>> \notin queue

(* What a call is about to write still holds: items are only ever removed.  *)
Settling == {"count", "write", "fail", "write failed"}

CallOK(h, p) ==
    /\ h.at = "finalize" => <<h.on, p>> \in queue
    /\ h.at \in Settling => h.on \in Msgs /\ row[h.on] # "none"
    /\ h.at = "write" => ItemsOf(h.on) = {}
    /\ \A m \in Msgs : m \in h.rest => row[m] # "none"
    /\ h.by = "fan" => h.for \in Msgs /\ row[h.for] # "none"

FanOK(f, m) ==
    /\ f.at # "idle" => row[m] # "none"
    /\ f.at = "write" /\ f.next = "sent" => ItemsOf(m) = {}

CallsInv ==
    /\ \A m \in Msgs : FanOK(fan[m], m)
    /\ \A p \in Peers : CallOK(held[p], p)

GInv == Typed /\ RowsInv /\ CallsInv

-----------------------------------------------------------------------------
(* The records of the calls.                                                *)
LEMMA FreeType == Free \in HeldType /\ Free.at = "idle" /\ Free.by = "none" /\ Free.rest = {}
BY DEF Free, HeldType, Points

LEMMA InitInv == GsInit => GInv
<1> SUFFICES ASSUME GsInit PROVE GInv
  OBVIOUS
<1>1. NoCall \in FanType /\ NoCall.at = "idle"
  BY DEF NoCall, FanType
<1>2. /\ \A m \in Msgs : row[m] = "none" /\ sent[m] = {} /\ fan[m] = NoCall
      /\ queue = {} /\ \A p \in Peers : held[p] = Free
  BY DEF GsInit
<1>3. Typed
  BY <1>1, FreeType DEF GsInit, Typed, States
<1>4. RowsInv
  BY <1>1, <1>2 DEF RowsInv, ItemsOf
<1>5. CallsInv
  BY <1>1, <1>2, FreeType DEF CallsInv, CallOK, FanOK, Settling
<1> QED BY <1>3, <1>4, <1>5 DEF GInv

LEMMA HeldFields ==
    ASSUME NEW h \in HeldType, NEW at \in Points
    PROVE  /\ [h EXCEPT !.at = at] \in HeldType
           /\ [h EXCEPT !.at = at].at = at /\ [h EXCEPT !.at = at].on = h.on
           /\ [h EXCEPT !.at = at].by = h.by /\ [h EXCEPT !.at = at].for = h.for
           /\ [h EXCEPT !.at = at].rest = h.rest
BY DEF HeldType

(* A call turns to an item: two fields of its record at once.               *)
Turned(F, t, p, m, a) == t = [F EXCEPT ![p].on = m, ![p].at = a]

LEMMA TwoFields ==
    ASSUME NEW F \in [Peers -> HeldType], NEW p \in Peers, NEW m \in Msgs \cup {0}, NEW a \in Points,
           NEW t, Turned(F, t, p, m, a)
    PROVE  /\ t = [F EXCEPT ![p] = t[p]] /\ t[p] \in HeldType /\ t[p].at = a /\ t[p].on = m
           /\ t[p].by = F[p].by /\ t[p].for = F[p].for /\ t[p].rest = F[p].rest
<1> DEFINE g == [F EXCEPT ![p].on = m]
           u == [F[p] EXCEPT !.on = m]
           h == [u EXCEPT !.at = a]
<1>1. /\ u \in HeldType /\ u.on = m
      /\ u.by = F[p].by /\ u.for = F[p].for /\ u.rest = F[p].rest
  BY DEF HeldType
<1>2. g = [F EXCEPT ![p] = u]
  OBVIOUS
<1>3. g \in [Peers -> HeldType] /\ g[p] = u
  BY <1>1, <1>2
<1>4. t = [g EXCEPT ![p].at = a]
  BY DEF Turned
<1> HIDE DEF g
<1>5. t = [g EXCEPT ![p] = h]
  BY <1>3, <1>4
<1> HIDE DEF u
<1>6. /\ h \in HeldType /\ h.at = a /\ h.on = u.on
      /\ h.by = u.by /\ h.for = u.for /\ h.rest = u.rest
  BY <1>1, HeldFields
<1> HIDE DEF h
<1>7. t = [F EXCEPT ![p] = h]
  BY <1>2, <1>5
<1>8. t[p] = h
  BY <1>7
<1> QED BY <1>1, <1>6, <1>7, <1>8

LEMMA FanTwoFields ==
    ASSUME NEW F \in [Msgs -> FanType], NEW m \in Msgs,
           NEW t, t = [F EXCEPT ![m].at = "loop", ![m].sent = TRUE]
    PROVE  t = [F EXCEPT ![m] = [F[m] EXCEPT !.at = "loop", !.sent = TRUE]]
<1> DEFINE g == [F EXCEPT ![m].at = "loop"]
           u == [F[m] EXCEPT !.at = "loop"]
<1>1. u \in FanType
  BY DEF FanType
<1>2. g = [F EXCEPT ![m] = u]
  OBVIOUS
<1>3. g \in [Msgs -> FanType] /\ g[m] = u
  BY <1>1, <1>2
<1>4. t = [g EXCEPT ![m].sent = TRUE]
  OBVIOUS
<1> HIDE DEF g
<1>5. t = [g EXCEPT ![m] = [u EXCEPT !.sent = TRUE]]
  BY <1>3, <1>4
<1> QED BY <1>1, <1>2, <1>3, <1>5

LEMMA FanFields ==
    ASSUME NEW f \in FanType, NEW at \in {"idle", "loop", "sending", "write", "return"}
    PROVE  /\ [f EXCEPT !.at = at] \in FanType
           /\ [f EXCEPT !.at = at].at = at /\ [f EXCEPT !.at = at].next = f.next
           /\ [f EXCEPT !.at = at, !.sent = TRUE] \in FanType
           /\ [f EXCEPT !.at = at, !.sent = TRUE].at = at
BY DEF FanType

(* A step that adds no item keeps the invariant when what it writes is       *)
(* justified by the state before it.                                        *)
LEMMA Keeps ==
    ASSUME GInv, Typed', queue' \subseteq queue,
           \A m \in Msgs : \/ row'[m] = row[m]
                           \/ /\ row[m] # "none" /\ row'[m] # "none"
                              /\ row'[m] = "sent" => ItemsOf(m) = {},
           \A m \in Msgs : \/ sent'[m] = sent[m]
                           \/ /\ row[m] # "none"
                              /\ \A p \in sent'[m] \ sent[m] : <<m, p>> \notin queue',
           \A m \in Msgs : FanOK(fan'[m], m),
           \A p \in Peers : /\ CallOK(held'[p], p)
                            /\ held'[p].at = "finalize" => <<held'[p].on, p>> \in queue'
    PROVE  GInv'
<1>1. \A m \in Msgs : row[m] # "none" => row'[m] # "none"
  OBVIOUS
<1>2. \A m \in Msgs : ItemsOf(m)' \subseteq ItemsOf(m)
  BY DEF ItemsOf
<1>3. RowsInv'
  <2>1. \A m \in Msgs : row'[m] \in {"none", "sent"} => ItemsOf(m)' = {}
    BY <1>1, <1>2 DEF GInv, RowsInv
  <2>2. \A m \in Msgs : row'[m] = "none" => fan'[m].at = "idle" /\ sent'[m] = {}
    BY <1>1 DEF GInv, RowsInv, FanOK
  <2>3. \A m \in Msgs : \A p \in sent'[m] : <<m, p>> \notin queue'
    BY DEF GInv, RowsInv
  <2> QED BY <2>1, <2>2, <2>3 DEF RowsInv
<1>4. ASSUME NEW m \in Msgs PROVE FanOK(fan[m], m)'
  BY <1>1, <1>2 DEF FanOK
<1>5. ASSUME NEW p \in Peers PROVE CallOK(held[p], p)'
  <2>1. /\ CallOK(held'[p], p)
        /\ held'[p].at = "finalize" => <<held'[p].on, p>> \in queue'
    OBVIOUS
  <2> QED BY <1>1, <1>2, <2>1 DEF CallOK, Settling
<1> QED BY <1>3, <1>4, <1>5 DEF GInv, CallsInv

(* A call that goes on, or lets go of the queue.                            *)
LEMMA OneHeld ==
    ASSUME GInv, NEW p \in Peers, NEW h \in HeldType, CallOK(h, p),
           held' = [held EXCEPT ![p] = h], h.at # "finalize",
           \A x \in queue \ queue' : x[2] = p
    PROVE  /\ held' \in [Peers -> HeldType]
           /\ \A q \in Peers : /\ CallOK(held'[q], q)
                               /\ held'[q].at = "finalize" => <<held'[q].on, q>> \in queue'
<1>1. held \in [Peers -> HeldType]
  BY DEF GInv, Typed
<1>2. \A q \in Peers : held'[q] = IF q = p THEN h ELSE held[q]
  BY <1>1
<1>3. \A q \in Peers : q # p => \A m : <<m, q>> \in queue => <<m, q>> \in queue'
  OBVIOUS
<1>4. \A q \in Peers : CallOK(held[q], q)
  BY DEF GInv, CallsInv
<1>5. \A q \in Peers : q # p /\ held[q].at = "finalize" => <<held[q].on, q>> \in queue'
  BY <1>3, <1>4 DEF CallOK
<1> QED BY <1>1, <1>2, <1>4, <1>5

LEMMA Releases ==
    ASSUME GInv, NEW p \in Peers, Release(p), \A x \in queue \ queue' : x[2] = p
    PROVE  /\ held' \in [Peers -> HeldType] /\ fan' \in [Msgs -> FanType]
           /\ \A q \in Peers : /\ CallOK(held'[q], q)
                               /\ held'[q].at = "finalize" => <<held'[q].on, q>> \in queue'
           /\ \A m \in Msgs : FanOK(fan'[m], m)
<1>1. CallOK(Free, p)
  BY FreeType DEF CallOK, Settling
<1>2. held' = [held EXCEPT ![p] = Free] /\ Free.at # "finalize"
  BY FreeType DEF Release
<1>3. /\ fan \in [Msgs -> FanType] /\ \A m \in Msgs : FanOK(fan[m], m)
      /\ held[p].by = "fan" => held[p].for \in Msgs /\ row[held[p].for] # "none"
  BY DEF GInv, Typed, CallsInv, CallOK
<1>4. fan' \in [Msgs -> FanType] /\ \A m \in Msgs : FanOK(fan'[m], m)
  <2>1. CASE held[p].by = "fan"
    <3> DEFINE k == held[p].for
               f == [fan[k] EXCEPT !.at = "loop"]
    <3>1. k \in Msgs /\ row[k] # "none"
      BY <1>3, <2>1
    <3>2. f \in FanType /\ f.at = "loop"
      BY <1>3, <3>1, FanFields
    <3>3. fan' = [fan EXCEPT ![k] = f]
      BY <2>1 DEF Release
    <3> HIDE DEF f, k
    <3>4. FanOK(f, k)
      BY <3>1, <3>2 DEF FanOK
    <3> QED BY <1>3, <3>1, <3>2, <3>3, <3>4
  <2>2. CASE held[p].by # "fan"
    BY <1>3, <2>2 DEF Release
  <2> QED BY <2>1, <2>2
<1> QED BY <1>1, <1>2, <1>4, FreeType, OneHeld

LEMMA Goes ==
    ASSUME GInv, NEW p \in Peers, NEW point \in Points \ {"finalize"}, Go(p, point),
           point \in Settling => held[p].on \in Msgs /\ row[held[p].on] # "none",
           point = "write" => ItemsOf(held[p].on) = {},
           \A x \in queue \ queue' : x[2] = p
    PROVE  /\ held' \in [Peers -> HeldType]
           /\ \A q \in Peers : /\ CallOK(held'[q], q)
                               /\ held'[q].at = "finalize" => <<held'[q].on, q>> \in queue'
<1> DEFINE h == [held[p] EXCEPT !.at = point]
<1>1. held[p] \in HeldType /\ CallOK(held[p], p)
  BY DEF GInv, Typed, CallsInv
<1>2. /\ h \in HeldType /\ h.at = point /\ h.on = held[p].on
      /\ h.by = held[p].by /\ h.for = held[p].for /\ h.rest = held[p].rest
  BY <1>1, HeldFields
<1>3. held' = [held EXCEPT ![p] = h]
  BY DEF Go
<1> HIDE DEF h
<1>4. CallOK(h, p)
  BY <1>1, <1>2 DEF CallOK
<1> QED BY <1>2, <1>3, <1>4, OneHeld

-----------------------------------------------------------------------------
LEMMA QuietSteps ==
    ASSUME GInv, Pass \/ \E m \in Msgs : Age(m)
    PROVE  GInv'
BY DEF GInv, Typed, RowsInv, CallsInv, CallOK, FanOK, ItemsOf, Pass, Age

LEMMA ReloadStep ==
    ASSUME GInv, Crash
    PROVE  GInv'
<1>1. NoCall \in FanType /\ NoCall.at = "idle"
  BY DEF NoCall, FanType
<1>2. /\ held' = [p \in Peers |-> Free] /\ fan' = [m \in Msgs |-> NoCall]
      /\ UNCHANGED <<row, queue, sent>>
  BY DEF Crash
<1>3. Typed'
  BY <1>1, <1>2, FreeType DEF GInv, Typed
<1>4. \A m \in Msgs : FanOK(fan'[m], m)
  BY <1>1, <1>2 DEF FanOK
<1>5. \A p \in Peers : CallOK(held'[p], p) /\ held'[p].at # "finalize"
  BY <1>2, FreeType DEF CallOK, Settling
<1> QED BY <1>2, <1>3, <1>4, <1>5, Keeps

(* The only step that adds items: of a message whose row was not there.     *)
LEMMA StartStep ==
    ASSUME GInv, link \subseteq Peers, NEW m \in Msgs, Start(m)
    PROVE  GInv'
<1> DEFINE f == [at |-> "loop", todo |-> link, sent |-> link = {}, next |-> "sending"]
           s == IF link = {} THEN "sent" ELSE "sending"
<1>1. /\ row[m] = "none" /\ row' = [row EXCEPT ![m] = s]
      /\ queue' = queue \cup {<<m, p>> : p \in link}
      /\ fan' = [fan EXCEPT ![m] = f]
      /\ UNCHANGED <<held, sent>>
  BY DEF Start, Recipients
<1>2. /\ row \in [Msgs -> States] /\ fan \in [Msgs -> FanType] /\ queue \subseteq Items
      /\ sent[m] = {} /\ ItemsOf(m) = {}
      /\ s \in States /\ s # "none" /\ (s = "sent" => link = {})
  BY <1>1 DEF GInv, Typed, RowsInv, States
<1>3. f \in FanType /\ f.at = "loop"
  BY DEF FanType
<1> HIDE DEF f, s
<1>4. /\ row'[m] = s /\ fan'[m] = f
      /\ \A k \in Msgs : k # m => row'[k] = row[k] /\ fan'[k] = fan[k] /\ ItemsOf(k)' = ItemsOf(k)
      /\ link = {} => ItemsOf(m)' = {}
  <2>1. \A k \in Msgs : k # m => ItemsOf(k)' = ItemsOf(k)
    BY <1>1 DEF ItemsOf
  <2>2. link = {} => ItemsOf(m)' = {}
    BY <1>1, <1>2 DEF ItemsOf
  <2> QED BY <1>1, <1>2, <2>1, <2>2
<1>5. Typed'
  <2>1. queue' \subseteq Items
    BY <1>1, <1>2 DEF Items
  <2>2. row' \in [Msgs -> States] /\ fan' \in [Msgs -> FanType]
    BY <1>1, <1>2, <1>3
  <2> QED BY <1>1, <2>1, <2>2 DEF GInv, Typed
<1>6. RowsInv'
  <2>1. \A k \in Msgs : row'[k] \in {"none", "sent"} => ItemsOf(k)' = {}
    BY <1>2, <1>4 DEF GInv, RowsInv
  <2>2. \A k \in Msgs : row'[k] = "none" => fan'[k].at = "idle" /\ sent'[k] = {}
    BY <1>1, <1>2, <1>4 DEF GInv, RowsInv
  <2>3. \A k \in Msgs : \A p \in sent'[k] : <<k, p>> \notin queue'
    BY <1>1, <1>2 DEF GInv, RowsInv
  <2> QED BY <2>1, <2>2, <2>3 DEF RowsInv
<1>7. ASSUME NEW k \in Msgs PROVE FanOK(fan[k], k)'
  BY <1>2, <1>3, <1>4 DEF FanOK, GInv, CallsInv
<1>8. ASSUME NEW p \in Peers PROVE CallOK(held[p], p)'
  <2>1. CallOK(held[p], p) /\ held'[p] = held[p]
    BY <1>1 DEF GInv, CallsInv
  <2> QED BY <1>1, <1>4, <2>1 DEF CallOK, Settling
<1> QED BY <1>5, <1>6, <1>7, <1>8 DEF GInv, CallsInv

-----------------------------------------------------------------------------
(* The steps of a fan-out.                                                  *)
LEMMA FanMoves ==
    ASSUME GInv, NEW m \in Msgs, NEW f \in FanType, FanOK(f, m), fan' = [fan EXCEPT ![m] = f]
    PROVE  fan' \in [Msgs -> FanType] /\ \A k \in Msgs : FanOK(fan'[k], k)
BY DEF GInv, Typed, CallsInv

LEMMA CallsStay ==
    ASSUME GInv, held' = held, queue' = queue
    PROVE  \A p \in Peers : /\ CallOK(held'[p], p)
                            /\ held'[p].at = "finalize" => <<held'[p].on, p>> \in queue'
BY DEF GInv, CallsInv, CallOK

LEMMA FanOutStep ==
    ASSUME GInv, NEW m \in Msgs, NEW p \in Peers, FanOut(m, p)
    PROVE  GInv'
<1> DEFINE f == [fan[m] EXCEPT !.at = "sending", !.todo = @ \ {p}]
           h == [Free EXCEPT !.by = "fan", !.for = m, !.at = "next"]
<1>1. /\ fan' = [fan EXCEPT ![m] = f] /\ held' = [held EXCEPT ![p] = h] /\ fan[m].at = "loop"
      /\ UNCHANGED <<row, queue, sent>>
  BY DEF FanOut
<1>2. fan[m] \in FanType /\ row[m] # "none"
  BY <1>1 DEF GInv, Typed, CallsInv, FanOK
<1>3. f \in FanType /\ f.at = "sending"
  BY <1>2 DEF FanType
<1>4. h \in HeldType /\ h.at = "next" /\ h.by = "fan" /\ h.for = m
  BY DEF Free, HeldType, Points
<1>9. h.rest = {}
  BY DEF Free
<1> HIDE DEF f, h
<1>5. FanOK(f, m) /\ CallOK(h, p)
  BY <1>2, <1>3, <1>4, <1>9 DEF FanOK, CallOK, Settling
<1>6. fan' \in [Msgs -> FanType] /\ \A k \in Msgs : FanOK(fan'[k], k)
  BY <1>1, <1>3, <1>5, FanMoves
<1>7. /\ held' \in [Peers -> HeldType]
      /\ \A q \in Peers : /\ CallOK(held'[q], q)
                          /\ held'[q].at = "finalize" => <<held'[q].on, q>> \in queue'
  BY <1>1, <1>4, <1>5, OneHeld
<1>8. Typed'
  BY <1>1, <1>6, <1>7 DEF GInv, Typed
<1> QED BY <1>1, <1>6, <1>7, <1>8, Keeps

LEMMA FanCountStep ==
    ASSUME GInv, NEW m \in Msgs, FanCount(m)
    PROVE  GInv'
<1> DEFINE at == IF SettledState(m) # "sending" THEN "write"
                 ELSE IF m \in Uploads THEN "return" ELSE "idle"
           f == [fan[m] EXCEPT !.next = SettledState(m), !.at = at]
<1>1. /\ fan' = [fan EXCEPT ![m] = f] /\ fan[m].at = "loop" /\ UNCHANGED <<row, queue, sent, held>>
  BY DEF FanCount
<1>2. fan[m] \in FanType /\ row[m] # "none"
  BY <1>1 DEF GInv, Typed, CallsInv, FanOK
<1>3. /\ SettledState(m) \in {"sending", "sent", "failed"}
      /\ SettledState(m) = "sent" => ItemsOf(m) = {}
  BY DEF SettledState
<1>4. f \in FanType /\ f.next = SettledState(m)
  BY <1>2, <1>3 DEF FanType
<1> HIDE DEF f
<1>5. FanOK(f, m)
  BY <1>2, <1>3, <1>4 DEF FanOK
<1>6. fan' \in [Msgs -> FanType] /\ \A k \in Msgs : FanOK(fan'[k], k)
  BY <1>1, <1>4, <1>5, FanMoves
<1>7. Typed'
  BY <1>1, <1>6 DEF GInv, Typed
<1> QED BY <1>1, <1>6, <1>7, CallsStay, Keeps

LEMMA WithStateType ==
    ASSUME GInv, NEW m \in Msgs, NEW s \in {"sent", "failed"}
    PROVE  /\ WithState(row, m, s) \in [Msgs -> States]
           /\ \A k \in Msgs : k # m => WithState(row, m, s)[k] = row[k]
           /\ \/ WithState(row, m, s)[m] = row[m]
              \/ WithState(row, m, s)[m] = s
BY DEF GInv, Typed, WithState, States

LEMMA FanEndSteps ==
    ASSUME GInv, NEW m \in Msgs, FanWrite(m) \/ FanReturn(m)
    PROVE  GInv'
<1>1. fan[m] \in FanType /\ (fan[m].at # "idle" => row[m] # "none") /\ FanOK(fan[m], m)
  BY DEF GInv, Typed, CallsInv, FanOK
<1>2. PICK end \in {"return", "idle"} : fan' = [fan EXCEPT ![m].at = end]
  BY DEF FanWrite, FanReturn
<1> DEFINE f == [fan[m] EXCEPT !.at = end]
<1>3. fan' = [fan EXCEPT ![m] = f] /\ UNCHANGED <<queue, sent, held>> /\ fan[m].at # "idle"
  BY <1>2 DEF FanWrite, FanReturn
<1>4. f \in FanType /\ f.at = end
  <2>1. end \in {"idle", "loop", "sending", "write", "return"}
    BY <1>2
  <2> QED BY <1>1, <2>1, FanFields
<1> HIDE DEF f
<1>5. FanOK(f, m)
  BY <1>1, <1>3, <1>4 DEF FanOK
<1>6. fan' \in [Msgs -> FanType] /\ \A k \in Msgs : FanOK(fan'[k], k)
  BY <1>3, <1>4, <1>5, FanMoves
<1>7. /\ row' \in [Msgs -> States]
      /\ \A k \in Msgs : \/ row'[k] = row[k]
                         \/ /\ row[k] # "none" /\ row'[k] # "none"
                            /\ row'[k] = "sent" => ItemsOf(k) = {}
  <2>1. CASE FanReturn(m)
    BY <2>1 DEF FanReturn, GInv, Typed
  <2>2. CASE FanWrite(m)
    <3>1. fan[m].next \in {"sent", "failed"} \/ fan[m].next = "sending"
      BY <1>1 DEF FanType
    <3>2. fan[m].at = "write" /\ row[m] # "none" /\ row' = WithState(row, m, fan[m].next)
      BY <1>1, <2>2 DEF FanWrite
    <3>3. fan[m].next = "sent" => ItemsOf(m) = {}
      BY <1>1, <3>2 DEF FanOK
    <3>4. CASE fan[m].next \in {"sent", "failed"}
      BY <3>2, <3>3, <3>4, WithStateType
    <3>5. CASE fan[m].next = "sending"
      BY <3>2, <3>5 DEF WithState, GInv, Typed, States
    <3> QED BY <3>1, <3>4, <3>5
  <2> QED BY <2>1, <2>2
<1>8. Typed'
  BY <1>3, <1>6, <1>7 DEF GInv, Typed
<1> QED BY <1>3, <1>6, <1>7, <1>8, CallsStay, Keeps

-----------------------------------------------------------------------------
(* The steps under the queue of a member's link.                            *)
LEMMA TakeSteps ==
    ASSUME GInv, NEW p \in Peers, Reset(p) \/ Relink(p) \/ \E m \in Msgs : Drain(m, p)
    PROVE  GInv'
<1>1. UNCHANGED <<row, queue, sent, fan>>
  BY DEF Reset, Relink, Drain
<1>2. PICK h \in HeldType : held' = held \/ (/\ held' = [held EXCEPT ![p] = h]
                                           /\ h.at \in {"next", "drop"} /\ h.by # "fan"
                                           /\ \A k \in Msgs : k \in h.rest => row[k] # "none")
  <2>1. CASE Relink(p)
    BY <2>1, FreeType DEF Relink
  <2>2. CASE Reset(p)
    <3> DEFINE h == [Free EXCEPT !.by = "reset", !.at = "drop", !.rest = {m \in Msgs : <<m, p>> \in queue}]
    <3>1. h \in HeldType /\ h.at = "drop" /\ h.by = "reset" /\ h.rest = {m \in Msgs : <<m, p>> \in queue}
      BY DEF Free, HeldType, Points
    <3>2. held' = [held EXCEPT ![p] = h]
      BY <2>2 DEF Reset
    <3> HIDE DEF h
    <3>3. \A k \in Msgs : k \in h.rest => row[k] # "none"
      BY <3>1 DEF GInv, RowsInv, ItemsOf
    <3> QED BY <3>1, <3>2, <3>3
  <2>3. ASSUME NEW m \in Msgs, Drain(m, p)
        PROVE  \E h \in HeldType : /\ held' = [held EXCEPT ![p] = h]
                                   /\ h.at \in {"next", "drop"} /\ h.by # "fan"
                                   /\ h.rest = {}
    <3> DEFINE h == [Free EXCEPT !.by = "drain", !.for = m, !.at = "next"]
    <3>1. h \in HeldType /\ h.at = "next" /\ h.by = "drain" /\ h.rest = {}
      BY DEF Free, HeldType, Points
    <3>2. held' = [held EXCEPT ![p] = h]
      BY <2>3 DEF Drain
    <3> QED BY <3>1, <3>2
  <2> QED BY <2>1, <2>2, <2>3
<1>3. /\ held' \in [Peers -> HeldType]
      /\ \A q \in Peers : /\ CallOK(held'[q], q)
                          /\ held'[q].at = "finalize" => <<held'[q].on, q>> \in queue'
  <2>1. CASE held' = held
    BY <1>1, <2>1, CallsStay DEF GInv, Typed
  <2>2. CASE held' # held
    <3>1. CallOK(h, p) /\ h.at # "finalize"
      BY <1>2, <2>2 DEF CallOK, Settling
    <3> QED BY <1>1, <1>2, <2>2, <3>1, OneHeld
  <2> QED BY <2>1, <2>2
<1>4. Typed'
  BY <1>1, <1>3 DEF GInv, Typed
<1> QED BY <1>1, <1>3, <1>4, Keeps DEF GInv, CallsInv

LEMMA ReceiptStep ==
    ASSUME GInv, NEW m \in Msgs, NEW p \in Peers, Receipt(m, p)
    PROVE  GInv'
<1>1. /\ p \in sent[m] /\ UNCHANGED <<queue, fan, held, sent>>
      /\ \E s \in {"delivered", "read"} : row' = [row EXCEPT ![m] = s]
  BY DEF Receipt
<1>2. row[m] # "none" /\ row \in [Msgs -> States]
  BY <1>1 DEF GInv, RowsInv, Typed
<1>3. /\ row' \in [Msgs -> States]
      /\ \A k \in Msgs : row'[k] = row[k] \/ (k = m /\ row'[k] \in {"delivered", "read"})
  BY <1>1, <1>2 DEF States
<1>4. Typed'
  BY <1>1, <1>3 DEF GInv, Typed
<1> QED BY <1>1, <1>2, <1>3, <1>4, CallsStay, Keeps DEF GInv, CallsInv

(* The call ends, or goes on to a phase that promises nothing.              *)
Quits(p) ==
    /\ \/ Release(p)
       \/ \E point \in Points \ (Settling \cup {"finalize"}) : Go(p, point) /\ UNCHANGED fan
    /\ \A x \in queue \ queue' : x[2] = p

LEMMA QuitsKeep ==
    ASSUME GInv, NEW p \in Peers, Quits(p)
    PROVE  /\ held' \in [Peers -> HeldType] /\ fan' \in [Msgs -> FanType]
           /\ \A q \in Peers : /\ CallOK(held'[q], q)
                               /\ held'[q].at = "finalize" => <<held'[q].on, q>> \in queue'
           /\ \A m \in Msgs : FanOK(fan'[m], m)
<1>1. CASE Release(p)
  BY <1>1, Releases DEF Quits
<1>2. ASSUME NEW point \in Points \ (Settling \cup {"finalize"}), Go(p, point), UNCHANGED fan
      PROVE  /\ held' \in [Peers -> HeldType] /\ fan' \in [Msgs -> FanType]
             /\ \A q \in Peers : /\ CallOK(held'[q], q)
                                 /\ held'[q].at = "finalize" => <<held'[q].on, q>> \in queue'
             /\ \A m \in Msgs : FanOK(fan'[m], m)
  BY <1>2, Goes DEF Quits, GInv, Typed, CallsInv, Settling
<1> QED BY <1>1, <1>2 DEF Quits

LEMMA QuitSteps ==
    ASSUME GInv, NEW p \in Peers, Defer(p) \/ ResetDrop(p)
    PROVE  GInv'
<1>1. UNCHANGED <<row, sent>> /\ queue' \subseteq queue /\ Quits(p)
  BY DEF Defer, ResetDrop, Quits, Points, Settling
<1>2. Typed'
  BY <1>1, QuitsKeep DEF GInv, Typed
<1> QED BY <1>1, <1>2, QuitsKeep, Keeps

LEMMA SettleStep ==
    ASSUME GInv, NEW p \in Peers, Settle(p)
    PROVE  GInv'
<1>1. PICK m : m = Oldest(p)
  OBVIOUS
<1>2. /\ UNCHANGED <<row, sent>> /\ queue' = queue \ {<<m, p>>}
      /\ Release(p) \/ UNCHANGED <<held, fan>>
      /\ held[p].at = "next"
  BY <1>1 DEF Settle, At
<1>3. /\ held' \in [Peers -> HeldType] /\ fan' \in [Msgs -> FanType]
      /\ \A q \in Peers : /\ CallOK(held'[q], q)
                          /\ held'[q].at = "finalize" => <<held'[q].on, q>> \in queue'
      /\ \A k \in Msgs : FanOK(fan'[k], k)
  <2>1. CASE Release(p)
    BY <1>2, <2>1, Releases
  <2>2. CASE UNCHANGED <<held, fan>>
    BY <1>2, <2>2 DEF GInv, Typed, CallsInv, CallOK
  <2> QED BY <1>2, <2>1, <2>2
<1>4. Typed'
  BY <1>2, <1>3 DEF GInv, Typed
<1> QED BY <1>2, <1>3, <1>4, Keeps

(* A call that turns to an item: to park it, to fail it, or to finalize it. *)
LEMMA TurnsTo ==
    ASSUME GInv, NEW p \in Peers, NEW m \in Msgs, NEW point \in {"fail", "finalize"},
           Turned(held, held', p, m, point), <<m, p>> \in queue,
           UNCHANGED <<row, queue, sent, fan>>
    PROVE  GInv'
<1>1. held \in [Peers -> HeldType] /\ CallOK(held[p], p)
  BY DEF GInv, Typed, CallsInv
<1>2. point \in Points /\ m \in Msgs \cup {0}
  BY DEF Points
<1> DEFINE h == held'[p]
<1>3. /\ h \in HeldType
      /\ held' = [held EXCEPT ![p] = h] /\ h.at = point /\ h.on = m
      /\ h.by = held[p].by /\ h.for = held[p].for /\ h.rest = held[p].rest
  BY <1>1, <1>2, TwoFields
<1> HIDE DEF h
<1>4. /\ held' \in [Peers -> HeldType] /\ held'[p] = h
      /\ \A q \in Peers : q # p => held'[q] = held[q]
  BY <1>1, <1>3
<1>10. row[m] # "none"
  BY DEF GInv, RowsInv, ItemsOf
<1>5. CallOK(h, p) /\ (h.at = "finalize" => <<h.on, p>> \in queue')
  BY <1>1, <1>3, <1>10 DEF CallOK, Settling
<1>6. \A q \in Peers : CallOK(held[q], q) /\ (held[q].at = "finalize" => <<held[q].on, q>> \in queue')
  BY DEF GInv, CallsInv, CallOK
<1>7. \A q \in Peers : /\ CallOK(held'[q], q)
                       /\ held'[q].at = "finalize" => <<held'[q].on, q>> \in queue'
  BY <1>4, <1>5, <1>6
<1>8. Typed'
  BY <1>4 DEF GInv, Typed
<1> QED BY <1>7, <1>8, Keeps DEF GInv, CallsInv

LEMMA TurnSteps ==
    ASSUME GInv, NEW p \in Peers, Park(p) \/ Put(p) \/ Refused(p)
    PROVE  GInv'
<1>1. PICK m : m = Oldest(p)
  OBVIOUS
<1>2. <<m, p>> \in queue /\ m \in Msgs
  <2>1. <<m, p>> \in queue
    BY <1>1 DEF Park, Put, Refused, Deliverable, Stale
  <2> QED BY <2>1 DEF GInv, Typed, Items
<1>3. UNCHANGED <<row, queue, sent>>
  BY DEF Park, Put, Refused
<1>4. \/ \E point \in {"fail", "finalize"} :
           Turned(held, held', p, m, point) /\ UNCHANGED fan
      \/ Release(p)
  BY <1>1 DEF Park, Put, Refused, Turned
<1>5. CASE Release(p)
  <2>1. Quits(p) /\ queue' \subseteq queue
    BY <1>3, <1>5 DEF Quits
  <2>2. Typed'
    BY <1>3, <2>1, QuitsKeep DEF GInv, Typed
  <2> QED BY <1>3, <2>1, <2>2, QuitsKeep, Keeps
<1> QED BY <1>2, <1>3, <1>4, <1>5, TurnsTo

(* The item leaves with its delivery: the member has read the message.      *)
LEMMA FinalizeStep ==
    ASSUME GInv, NEW p \in Peers, Finalize(p)
    PROVE  GInv'
<1> DEFINE m == held[p].on
<1>1. /\ <<m, p>> \in queue /\ m \in Msgs /\ row[m] # "none" /\ held[p] \in HeldType
      /\ sent \in [Msgs -> SUBSET Peers] /\ fan[m] \in FanType /\ fan \in [Msgs -> FanType]
  <2>1. <<m, p>> \in queue
    BY DEF Finalize, At, GInv, CallsInv, CallOK
  <2> QED BY <2>1 DEF GInv, Typed, RowsInv, ItemsOf, Items
<1>2. /\ queue' = queue \ {<<m, p>>} /\ sent' = [sent EXCEPT ![m] = @ \cup {p}] /\ row' = row
      /\ \/ /\ held' = [held EXCEPT ![p] = Free]
            /\ fan' = [fan EXCEPT ![m].at = "loop", ![m].sent = TRUE]
         \/ Go(p, "count") /\ UNCHANGED fan
  BY DEF Finalize
<1> HIDE DEF m
<1>3. /\ held' \in [Peers -> HeldType] /\ fan' \in [Msgs -> FanType]
      /\ \A q \in Peers : /\ CallOK(held'[q], q)
                          /\ held'[q].at = "finalize" => <<held'[q].on, q>> \in queue'
      /\ \A k \in Msgs : FanOK(fan'[k], k)
  <2>1. CASE held' = [held EXCEPT ![p] = Free] /\ fan' = [fan EXCEPT ![m].at = "loop", ![m].sent = TRUE]
    <3> DEFINE f == [fan[m] EXCEPT !.at = "loop", !.sent = TRUE]
    <3>1. f \in FanType /\ f.at = "loop"
      BY <1>1, FanFields
    <3>2. fan' = [fan EXCEPT ![m] = f]
      BY <1>1, <2>1, FanTwoFields
    <3> HIDE DEF f
    <3>3. FanOK(f, m) /\ CallOK(Free, p)
      BY <1>1, <3>1, FreeType DEF FanOK, CallOK, Settling
    <3>4. fan' \in [Msgs -> FanType] /\ \A k \in Msgs : FanOK(fan'[k], k)
      BY <1>1, <3>1, <3>2, <3>3, FanMoves
    <3>5. \A x \in queue \ queue' : x[2] = p
      BY <1>2
    <3>6. /\ held' \in [Peers -> HeldType]
          /\ \A q \in Peers : /\ CallOK(held'[q], q)
                              /\ held'[q].at = "finalize" => <<held'[q].on, q>> \in queue'
      BY <2>1, <3>3, <3>5, FreeType, OneHeld
    <3> QED BY <3>4, <3>6
  <2>2. CASE Go(p, "count") /\ UNCHANGED fan
    <3>1. "count" \in Points \ {"finalize"}
      BY DEF Points
    <3>2. \A x \in queue \ queue' : x[2] = p
      BY <1>2
    <3>3. held[p].on \in Msgs /\ row[held[p].on] # "none"
      BY <1>1 DEF m
    <3> QED BY <2>2, <3>1, <3>2, <3>3, Goes DEF GInv, Typed, CallsInv
  <2> QED BY <1>2, <2>1, <2>2
<1>4. /\ sent' \in [Msgs -> SUBSET Peers]
      /\ \A k \in Msgs : \/ sent'[k] = sent[k]
                         \/ k = m /\ sent'[k] \subseteq sent[k] \cup {p}
  BY <1>1, <1>2
<1>5. Typed'
  BY <1>2, <1>3, <1>4 DEF GInv, Typed
<1>6. \A k \in Msgs : \/ sent'[k] = sent[k]
                      \/ /\ row[k] # "none"
                         /\ \A q \in sent'[k] \ sent[k] : <<k, q>> \notin queue'
  BY <1>1, <1>2, <1>4
<1> QED BY <1>2, <1>3, <1>5, <1>6, Keeps

LEMMA NextKeeps ==
    ASSUME GInv, NEW p \in Peers, Next_(p), queue' = queue
    PROVE  Quits(p)
BY DEF Next_, Quits, Points, Settling

LEMMA CountSteps ==
    ASSUME GInv, NEW p \in Peers, Count(p) \/ CountFailed(p)
    PROVE  GInv'
<1>1. /\ UNCHANGED <<row, queue, sent>>
      /\ held[p].at \in Settling
  BY DEF Count, CountFailed, At, Settling
<1>2. held[p].on \in Msgs /\ row[held[p].on] # "none"
  BY <1>1 DEF GInv, CallsInv, CallOK
<1>3. \/ Quits(p)
      \/ Go(p, "write") /\ ItemsOf(held[p].on) = {} /\ UNCHANGED fan
      \/ Go(p, "write failed") /\ UNCHANGED fan
  BY <1>1, NextKeeps DEF Count, CountFailed, LastDelivery, Quits, Points, Settling
<1>4. /\ held' \in [Peers -> HeldType] /\ fan' \in [Msgs -> FanType]
      /\ \A q \in Peers : /\ CallOK(held'[q], q)
                          /\ held'[q].at = "finalize" => <<held'[q].on, q>> \in queue'
      /\ \A k \in Msgs : FanOK(fan'[k], k)
  <2>1. CASE Quits(p)
    BY <2>1, QuitsKeep
  <2>2. /\ "write" \in Points \ {"finalize"} /\ "write failed" \in Points \ {"finalize"}
        /\ fan \in [Msgs -> FanType] /\ \A k \in Msgs : FanOK(fan[k], k)
    BY DEF Points, GInv, Typed, CallsInv
  <2>3. CASE Go(p, "write") /\ ItemsOf(held[p].on) = {} /\ UNCHANGED fan
    BY <1>1, <1>2, <2>2, <2>3, Goes
  <2>4. CASE Go(p, "write failed") /\ UNCHANGED fan
    BY <1>1, <1>2, <2>2, <2>4, Goes
  <2> QED BY <1>3, <2>1, <2>3, <2>4
<1>5. Typed'
  BY <1>1, <1>4 DEF GInv, Typed
<1> QED BY <1>1, <1>4, <1>5, Keeps

LEMMA WriteSteps ==
    ASSUME GInv, NEW p \in Peers, Write(p) \/ WriteFailed(p)
    PROVE  GInv'
<1>1. /\ UNCHANGED <<queue, sent>> /\ held[p].at \in Settling
      /\ \/ row' = WithState(row, held[p].on, "sent") /\ held[p].at = "write"
         \/ row' = WithState(row, held[p].on, "failed")
  BY DEF Write, WriteFailed, At, Settling
<1>2. /\ held[p].on \in Msgs /\ row[held[p].on] # "none"
      /\ held[p].at = "write" => ItemsOf(held[p].on) = {}
  BY <1>1 DEF GInv, CallsInv, CallOK
<1>3. Quits(p)
  BY <1>1, NextKeeps DEF Write, WriteFailed, Quits, Points, Settling
<1>4. /\ row' \in [Msgs -> States]
      /\ \A k \in Msgs : \/ row'[k] = row[k]
                         \/ /\ row[k] # "none" /\ row'[k] # "none"
                            /\ row'[k] = "sent" => ItemsOf(k) = {}
  BY <1>1, <1>2, WithStateType
<1>5. Typed'
  BY <1>1, <1>3, <1>4, QuitsKeep DEF GInv, Typed
<1> QED BY <1>1, <1>3, <1>4, <1>5, QuitsKeep, Keeps

(* A reset turns to the next message whose item it dropped.                 *)
DropTurn(p, m, a) == held' = [held EXCEPT ![p].rest = @ \ {m}, ![p].on = m, ![p].at = a]

LEMMA ResetSettleStep ==
    ASSUME GInv, NEW p \in Peers, ResetSettle(p)
    PROVE  GInv'
<1>1. UNCHANGED <<row, queue, sent>>
  BY DEF ResetSettle
<1>2. CASE Release(p)
  <2>1. Quits(p) /\ queue' \subseteq queue
    BY <1>1, <1>2 DEF Quits
  <2>2. Typed'
    BY <1>1, <2>1, QuitsKeep DEF GInv, Typed
  <2> QED BY <1>1, <2>1, <2>2, QuitsKeep, Keeps
<1>3. ASSUME NEW m \in held[p].rest, NEW a \in {"settle", "fail"}, UNCHANGED fan,
             DropTurn(p, m, a)
      PROVE  GInv'
  <2>1. held \in [Peers -> HeldType] /\ held[p] \in HeldType /\ CallOK(held[p], p)
    BY DEF GInv, Typed, CallsInv
  <2>2. m \in Msgs /\ row[m] # "none" /\ a \in Points
    BY <2>1 DEF HeldType, CallOK, Points
  <2> DEFINE u == [held[p] EXCEPT !.rest = @ \ {m}]
             g == [held EXCEPT ![p].rest = @ \ {m}]
  <2>3. /\ u \in HeldType /\ u.rest \subseteq held[p].rest
        /\ u.by = held[p].by /\ u.for = held[p].for
    BY <2>1 DEF HeldType
  <2>4. g = [held EXCEPT ![p] = u]
    OBVIOUS
  <2>5. g \in [Peers -> HeldType] /\ g[p] = u
    BY <2>1, <2>3, <2>4
  <2>6. Turned(g, held', p, m, a)
    BY <1>3 DEF DropTurn, Turned
  <2> HIDE DEF g, u
  <2> DEFINE h == held'[p]
  <2>7. /\ h \in HeldType
        /\ held' = [g EXCEPT ![p] = h] /\ h.at = a /\ h.on = m
        /\ h.by = u.by /\ h.for = u.for /\ h.rest = u.rest
    BY <2>2, <2>5, <2>6, TwoFields
  <2> HIDE DEF h
  <2>8. held' = [held EXCEPT ![p] = h]
    <3>1. g = [held EXCEPT ![p] = g[p]]
      BY <2>4, <2>5
    <3>2. \A q \in Peers : held'[q] = IF q = p THEN h ELSE held[q]
      BY <2>1, <3>1, <2>7
    <3>3. held' \in [Peers -> HeldType]
      BY <2>5, <2>7
    <3> QED BY <2>1, <3>2, <3>3
  <2>9. CallOK(h, p) /\ h.at # "finalize"
    BY <2>1, <2>2, <2>3, <2>7 DEF CallOK, Settling
  <2>10. /\ held' \in [Peers -> HeldType]
         /\ \A q \in Peers : /\ CallOK(held'[q], q)
                             /\ held'[q].at = "finalize" => <<held'[q].on, q>> \in queue'
    BY <1>1, <2>7, <2>8, <2>9, OneHeld
  <2>11. Typed'
    BY <1>1, <1>3, <2>10 DEF GInv, Typed
  <2> QED BY <1>1, <1>3, <2>10, <2>11, Keeps DEF GInv, CallsInv
<1> QED BY <1>2, <1>3 DEF ResetSettle, Orphans, DropTurn

-----------------------------------------------------------------------------
LEMMA LinkStep ==
    ASSUME LinkInv, [GsNext]_gsVars
    PROVE  LinkInv'
BY DEF LinkInv, GsNext, gsVars, OfCall, OnLink, Start, FanOut, FanCount, FanWrite, FanReturn, Age,
       Drain, Receipt, Reset, Relink, Pass, Crash, Settle, Park, Put, Defer, Refused, Finalize,
       Count, Write, CountFailed, WriteFailed, ResetDrop, ResetSettle

LEMMA GInvStep ==
    ASSUME GInv, LinkInv, [GsNext]_gsVars
    PROVE  GInv'
<1>1. ASSUME NEW m \in Msgs, Start(m) \/ OfCall(m) \/ Age(m)
      PROVE  GInv'
  BY <1>1, StartStep, FanOutStep, FanCountStep, FanEndSteps, QuietSteps DEF LinkInv, OfCall
<1>2. ASSUME NEW m \in Msgs, NEW p \in Peers, Drain(m, p) \/ Receipt(m, p)
      PROVE  GInv'
  BY <1>2, TakeSteps, ReceiptStep
<1>3. ASSUME NEW p \in Peers, OnLink(p) \/ Reset(p) \/ Relink(p)
      PROVE  GInv'
  BY <1>3, TakeSteps, SettleStep, TurnSteps, QuitSteps, FinalizeStep, CountSteps, WriteSteps,
     ResetSettleStep DEF OnLink
<1>4. CASE Pass \/ Crash
  BY <1>4, QuietSteps, ReloadStep
<1>5. CASE UNCHANGED gsVars
  BY <1>5 DEF gsVars, GInv, Typed, RowsInv, CallsInv, CallOK, FanOK, ItemsOf
<1> QED BY <1>1, <1>2, <1>3, <1>4, <1>5 DEF GsNext

(* What the rows, the items and the calls say of one another holds in every  *)
(* state of the fan-out.                                                     *)
THEOREM GroupInvariant == GsSpec => [](GInv /\ LinkInv)
<1>1. GsInit => GInv /\ LinkInv
  BY InitInv DEF GsInit, LinkInv
<1>2. GInv /\ LinkInv /\ [GsNext]_gsVars => GInv' /\ LinkInv'
  BY GInvStep, LinkStep
<1> QED BY <1>1, <1>2, PTL DEF GsSpec

(* A member reads a message once: a delivery about to be finalized has its   *)
(* item in the queue, and a message a member was sent has none left.         *)
THEOREM MembersReadOnce == GsSpec => []MemberReadsOnce
<1>1. GInv => MemberReadsOnce
  <2> SUFFICES ASSUME GInv, NEW p \in Peers, At(p, "finalize"), p \in sent[held[p].on]
               PROVE  FALSE
    BY DEF MemberReadsOnce
  <2>1. <<held[p].on, p>> \in queue
    BY DEF GInv, CallsInv, CallOK, At
  <2>2. held[p].on \in Msgs
    BY <2>1 DEF GInv, Typed, Items
  <2> QED BY <2>1, <2>2 DEF GInv, RowsInv
<1> QED BY <1>1, GroupInvariant, PTL

(* Nobody is left out in silence: besides the delivery itself and a reset,   *)
(* only a receipt that turned the row `delivered` takes an item away.        *)
THEOREM NobodyLeftOut == GsSpec => NobodySkipped
<1> DEFINE A == \A x \in queue \ queue' :
                   x[2] \in sent'[x[1]] \/ x \in cut' \/ row[x[1]] = "delivered"
<1>1. GInv /\ [GsNext]_gsVars => [A]_gsVars
  <2> SUFFICES ASSUME GInv, GsNext, NEW x \in queue, x \notin queue'
               PROVE  x[2] \in sent'[x[1]] \/ x \in cut' \/ row[x[1]] = "delivered"
    OBVIOUS
  <2>1. PICK p \in Peers : Settle(p) \/ Finalize(p) \/ ResetDrop(p)
    BY DEF GsNext, OfCall, OnLink, Start, FanOut, FanCount, FanWrite, FanReturn, Age,
           Drain, Receipt, Reset, Relink, Pass, Crash, Park, Put, Defer, Refused,
           Count, Write, CountFailed, WriteFailed, ResetSettle
  <2>2. CASE Settle(p)
    <3>1. PICK m : m = Oldest(p)
      OBVIOUS
    <3>2. x = <<m, p>> /\ Stale(p, m)
      BY <2>2, <3>1 DEF Settle
    <3>3. row[m] \in {"sent", "delivered"}
      BY <3>2 DEF Stale
    <3>4. m \in Msgs /\ p \in ItemsOf(m)
      BY <3>2 DEF GInv, Typed, Items, ItemsOf
    <3>5. row[m] # "sent"
      BY <3>4 DEF GInv, RowsInv
    <3> QED BY <3>2, <3>3, <3>5
  <2>3. CASE Finalize(p)
    <3>1. PICK m : m = held[p].on
      OBVIOUS
    <3>2. x = <<m, p>> /\ sent' = [sent EXCEPT ![m] = @ \cup {p}]
      BY <2>3, <3>1 DEF Finalize
    <3>3. m \in Msgs /\ sent \in [Msgs -> SUBSET Peers]
      BY <3>2 DEF GInv, Typed, Items
    <3> QED BY <3>2, <3>3
  <2>4. CASE ResetDrop(p)
    BY <2>4 DEF ResetDrop
  <2> QED BY <2>1, <2>2, <2>3, <2>4
<1> QED BY <1>1, GroupInvariant, PTL DEF GsSpec, NobodySkipped
-----------------------------------------------------------------------------
(* Who will settle a row.  A reset collects the messages whose items it is   *)
(* about to drop, while no new item of the member can appear.               *)
Clearing == {"drop", "settle", "fail", "write failed"}

ResetOK(h, p) ==
    /\ h.rest # {} => h.by = "reset"
    /\ h.by = "reset" => h.at \in Clearing
    /\ h.at = "drop" => /\ h.by = "reset" /\ p \notin link
                        /\ \A m \in Msgs : <<m, p>> \in queue => m \in h.rest

ResetInv == \A p \in Peers : ResetOK(held[p], p)

(* The state a fan-out is about to write is one it settled, and `sent` only  *)
(* after a delivery.                                                        *)
FanInv ==
    \A m \in Msgs : fan[m].at = "write" =>
        fan[m].next # "sending" /\ (fan[m].next = "sent" => fan[m].sent)

(* Some call will still write a state of its own for the message.            *)
DutyOf(h, m) == (h.on = m /\ h.at \in Settling) \/ m \in h.rest
FanSettles(f) == f.at \in {"loop", "sending"} \/ (f.at = "write" /\ f.next # "sending")

StuckInv ==
    \A m \in Msgs : row[m] = "sending" /\ ItemsOf(m) = {} /\ m \notin torn =>
        FanSettles(fan[m]) \/ \E p \in Peers : DutyOf(held[p], m)

(* Some call will still write `sent` for the message.  `read` is the state a *)
(* late `failed` overwrites, so it is left out.                             *)
TurnOf(h, m) == h.on = m /\ h.at \in {"count", "write"}
FanTurns(f) == f.sent /\ (f.at \in {"loop", "sending"} \/ (f.at = "write" /\ f.next = "sent"))

SentInv ==
    "read" \notin Faults =>
        \A m \in Msgs : row[m] # "none" /\ ItemsOf(m) = {} /\ m \notin torn =>
            \/ row[m] \in {"sent", "delivered"} \/ \E p \in Peers : <<m, p>> \in cut
            \/ FanTurns(fan[m]) \/ \E p \in Peers : TurnOf(held[p], m)

SettleInv == GInv /\ LinkInv /\ ResetInv /\ FanInv /\ StuckInv /\ SentInv

(* What a step does to the records of the calls.                             *)
Elsewhere(p) == \A q \in Peers : q # p => held'[q] = held[q]

LEMMA GoEffect ==
    ASSUME GInv, NEW p \in Peers, NEW a \in Points, Go(p, a)
    PROVE  /\ held'[p].at = a /\ held'[p].on = held[p].on /\ held'[p].by = held[p].by
           /\ held'[p].for = held[p].for /\ held'[p].rest = held[p].rest /\ Elsewhere(p)
<1> DEFINE h == [held[p] EXCEPT !.at = a]
<1>1. held \in [Peers -> HeldType] /\ held[p] \in HeldType
  BY DEF GInv, Typed
<1>2. /\ h.at = a /\ h.on = held[p].on
      /\ h.by = held[p].by /\ h.for = held[p].for /\ h.rest = held[p].rest
  BY <1>1, HeldFields
<1>3. held' = [held EXCEPT ![p] = h]
  BY DEF Go
<1> HIDE DEF h
<1> QED BY <1>1, <1>2, <1>3 DEF Elsewhere

LEMMA TurnEffect ==
    ASSUME GInv, NEW p \in Peers, NEW m \in Msgs, NEW a \in Points, Turned(held, held', p, m, a)
    PROVE  /\ held'[p].at = a /\ held'[p].on = m /\ held'[p].by = held[p].by
           /\ held'[p].for = held[p].for /\ held'[p].rest = held[p].rest /\ Elsewhere(p)
<1> DEFINE h == held'[p]
<1>1. held \in [Peers -> HeldType] /\ m \in Msgs \cup {0}
  BY DEF GInv, Typed
<1>2. /\ held' = [held EXCEPT ![p] = h] /\ h.at = a /\ h.on = m
      /\ h.by = held[p].by /\ h.for = held[p].for /\ h.rest = held[p].rest
  BY <1>1, TwoFields
<1>3. Elsewhere(p)
  <2> HIDE DEF h
  <2> QED BY <1>1, <1>2 DEF Elsewhere
<1> QED BY <1>2, <1>3

LEMMA DropTurnEffect ==
    ASSUME GInv, NEW p \in Peers, NEW m \in held[p].rest, NEW a \in {"settle", "fail"}, DropTurn(p, m, a)
    PROVE  /\ m \in Msgs /\ held'[p].at = a /\ held'[p].on = m /\ held'[p].by = held[p].by
           /\ held'[p].for = held[p].for /\ held'[p].rest = held[p].rest \ {m} /\ Elsewhere(p)
<1>1. held \in [Peers -> HeldType] /\ held[p] \in HeldType
  BY DEF GInv, Typed
<1>2. m \in Msgs /\ m \in Msgs \cup {0} /\ a \in Points
  BY <1>1 DEF HeldType, Points
<1> DEFINE u == [held[p] EXCEPT !.rest = @ \ {m}]
           g == [held EXCEPT ![p].rest = @ \ {m}]
<1>3. /\ u \in HeldType /\ u.rest = held[p].rest \ {m}
      /\ u.by = held[p].by /\ u.for = held[p].for
  BY <1>1 DEF HeldType
<1>4. g = [held EXCEPT ![p] = u]
  OBVIOUS
<1>5. g \in [Peers -> HeldType] /\ g[p] = u /\ \A q \in Peers : q # p => g[q] = held[q]
  BY <1>1, <1>3, <1>4
<1>6. Turned(g, held', p, m, a)
  BY DEF DropTurn, Turned
<1> HIDE DEF g, u
<1> DEFINE h == held'[p]
<1>7. /\ held' = [g EXCEPT ![p] = h] /\ h.at = a /\ h.on = m
      /\ h.by = u.by /\ h.for = u.for /\ h.rest = u.rest
  BY <1>2, <1>5, <1>6, TwoFields
<1>8. Elsewhere(p)
  <2> HIDE DEF h
  <2> QED BY <1>5, <1>7 DEF Elsewhere
<1> QED BY <1>2, <1>3, <1>7, <1>8

LEMMA ReleaseEffect ==
    ASSUME GInv, NEW p \in Peers, Release(p)
    PROVE  /\ held'[p] = Free /\ Elsewhere(p)
           /\ held[p].by # "fan" => fan' = fan
           /\ held[p].by = "fan" =>
                 /\ fan'[held[p].for].at = "loop" /\ fan'[held[p].for].sent = fan[held[p].for].sent
                 /\ \A m \in Msgs : m # held[p].for => fan'[m] = fan[m]
<1>1. held \in [Peers -> HeldType] /\ fan \in [Msgs -> FanType] /\ CallOK(held[p], p)
  BY DEF GInv, Typed, CallsInv
<1>2. CASE held[p].by = "fan"
  <2> DEFINE k == held[p].for
             f == [fan[k] EXCEPT !.at = "loop"]
  <2>1. k \in Msgs
    BY <1>1, <1>2 DEF CallOK
  <2>2. f.at = "loop" /\ f.sent = fan[k].sent
    BY <1>1, <2>1 DEF FanType
  <2>3. fan' = [fan EXCEPT ![k] = f]
    BY <1>2 DEF Release
  <2> HIDE DEF f, k
  <2>4. fan'[k].at = "loop" /\ fan'[k].sent = fan[k].sent /\ \A m \in Msgs : m # k => fan'[m] = fan[m]
    BY <1>1, <2>1, <2>2, <2>3
  <2> QED BY <1>1, <1>2, <2>4 DEF Release, Elsewhere, k
<1>3. CASE held[p].by # "fan"
  BY <1>1, <1>3 DEF Release, Elsewhere
<1> QED BY <1>2, <1>3

(* A fan-out whose call lets go of the queue goes on with its loop.         *)
FansGoOn ==
    \A m \in Msgs : fan'[m] = fan[m] \/ (fan'[m].at = "loop" /\ (fan[m].sent => fan'[m].sent))

LEMMA ReleaseGoesOn ==
    ASSUME GInv, NEW p \in Peers, Release(p)
    PROVE  /\ held'[p] = Free /\ Elsewhere(p) /\ FansGoOn
BY ReleaseEffect DEF FansGoOn

LEMMA FreeSettlesNothing ==
    ASSUME NEW m \in Msgs
    PROVE  ~DutyOf(Free, m) /\ ~TurnOf(Free, m)
BY FreeType DEF DutyOf, TurnOf, Settling

LEMMA FreeResets ==
    ASSUME NEW p \in Peers
    PROVE  ResetOK(Free, p)'
BY FreeType DEF ResetOK, Free

(* A step under the queue of one member: whatever it was to settle it has    *)
(* settled, or somebody still will.                                         *)
LEMMA OwnStep ==
    ASSUME SettleInv, NEW p \in Peers, Elsewhere(p), FansGoOn,
           link' \subseteq link, queue' \subseteq queue, cut \subseteq cut', torn' = torn,
           ResetOK(held[p], p)',
           \A m \in Msgs : \/ row'[m] = row[m]
                           \/ row[m] # "none" /\ row'[m] \in {"sent", "delivered"}
                           \/ row[m] \notin {"none", "sent", "delivered"} /\ row'[m] = "failed",
           \A m \in Msgs : ItemsOf(m)' = {} /\ row'[m] = "sending" =>
               \/ ItemsOf(m) = {} /\ ~DutyOf(held[p], m)
               \/ DutyOf(held'[p], m) \/ FanSettles(fan'[m]),
           \A m \in Msgs : ItemsOf(m)' = {} /\ row'[m] \notin {"sent", "delivered"} =>
               \/ ItemsOf(m) = {} /\ ~TurnOf(held[p], m)
               \/ TurnOf(held'[p], m) \/ FanTurns(fan'[m]) \/ \E q \in Peers : <<m, q>> \in cut'
    PROVE  ResetInv' /\ FanInv' /\ StuckInv' /\ SentInv'
<1>1. ResetInv'
  BY DEF SettleInv, ResetInv, ResetOK, Elsewhere
<1>2. FanInv'
  BY DEF SettleInv, FanInv, FansGoOn
<1>3. StuckInv'
  <2> SUFFICES ASSUME NEW m \in Msgs, row'[m] = "sending", ItemsOf(m)' = {}, m \notin torn'
               PROVE  FanSettles(fan'[m]) \/ \E q \in Peers : DutyOf(held'[q], m)
    BY DEF StuckInv
  <2>1. row[m] = "sending" /\ (FanSettles(fan[m]) => FanSettles(fan'[m]))
    BY DEF FansGoOn, FanSettles
  <2>2. ASSUME ItemsOf(m) = {}, ~DutyOf(held[p], m)
        PROVE  FanSettles(fan[m]) \/ \E q \in Peers : q # p /\ DutyOf(held[q], m)
    BY <2>1, <2>2 DEF SettleInv, StuckInv
  <2> QED BY <2>1, <2>2 DEF Elsewhere
<1>4. SentInv'
  <2> SUFFICES ASSUME "read" \notin Faults,
                      NEW m \in Msgs, row'[m] # "none", ItemsOf(m)' = {}, m \notin torn',
                      row'[m] \notin {"sent", "delivered"}
               PROVE  \/ \E q \in Peers : <<m, q>> \in cut'
                      \/ FanTurns(fan'[m]) \/ \E q \in Peers : TurnOf(held'[q], m)
    BY DEF SentInv
  <2>1. /\ row[m] \notin {"none", "sent", "delivered"}
        /\ FanTurns(fan[m]) => FanTurns(fan'[m])
    BY DEF FansGoOn, FanTurns
  <2>2. ASSUME ItemsOf(m) = {}, ~TurnOf(held[p], m)
        PROVE  \/ \E q \in Peers : <<m, q>> \in cut
               \/ FanTurns(fan[m]) \/ \E q \in Peers : q # p /\ TurnOf(held[q], m)
    BY <2>1, <2>2 DEF SettleInv, SentInv
  <2> QED BY <2>1, <2>2 DEF Elsewhere
<1> QED BY <1>1, <1>2, <1>3, <1>4

LEMMA NextIsNoReset ==
    ASSUME ResetInv, NEW p \in Peers, held[p].at \in {"next", "finalize", "count", "write"}
    PROVE  held[p].by # "reset" /\ held[p].rest = {}
BY DEF ResetInv, ResetOK, Clearing

(* The call takes the queue, before it has anything to settle.              *)
LEMMA TakeSettles ==
    ASSUME SettleInv, NEW p \in Peers, Reset(p) \/ \E m \in Msgs : Drain(m, p)
    PROVE  ResetInv' /\ FanInv' /\ StuckInv' /\ SentInv'
<1> DEFINE r == [Free EXCEPT !.by = "reset", !.at = "drop", !.rest = {m \in Msgs : <<m, p>> \in queue}]
           d(m) == [Free EXCEPT !.by = "drain", !.for = m, !.at = "next"]
<1>1. /\ UNCHANGED <<row, queue, fan, cut, torn>> /\ link' \subseteq link /\ held[p] = Free
      /\ \/ held' = [held EXCEPT ![p] = r] /\ p \notin link'
         \/ \E m \in Msgs : held' = [held EXCEPT ![p] = d(m)]
  BY DEF Reset, Drain
<1>2. /\ r.by = "reset" /\ r.at = "drop" /\ r.rest = {m \in Msgs : <<m, p>> \in queue}
      /\ \A m \in Msgs : d(m).by = "drain" /\ d(m).at = "next" /\ d(m).rest = {}
  BY DEF Free
<1>3. held \in [Peers -> HeldType]
  BY DEF SettleInv, GInv, Typed
<1> HIDE DEF r, d
<1>4. Elsewhere(p) /\ FansGoOn /\ ((held'[p] = r /\ p \notin link') \/ \E m \in Msgs : held'[p] = d(m))
  BY <1>1, <1>3 DEF Elsewhere, FansGoOn
<1>5. ResetOK(held[p], p)'
  BY <1>1, <1>2, <1>4 DEF ResetOK, Clearing
<1>6. \A m \in Msgs : ~DutyOf(held[p], m) /\ ~TurnOf(held[p], m) /\ ItemsOf(m)' = ItemsOf(m)
  BY <1>1, FreeSettlesNothing DEF ItemsOf
<1> QED BY <1>1, <1>4, <1>5, <1>6, OwnStep

LEMMA SettleSettles ==
    ASSUME SettleInv, NEW p \in Peers, Settle(p)
    PROVE  ResetInv' /\ FanInv' /\ StuckInv' /\ SentInv'
<1>1. PICK m : m = Oldest(p)
  OBVIOUS
<1>2. /\ UNCHANGED <<row, cut, torn, link>> /\ queue' = queue \ {<<m, p>>} /\ Stale(p, m)
      /\ Release(p) \/ UNCHANGED <<held, fan>>
      /\ held[p].at = "next"
  BY <1>1 DEF Settle, At
<1>3. Elsewhere(p) /\ FansGoOn /\ (held'[p] = Free \/ held'[p] = held[p])
  BY <1>2, ReleaseGoesOn DEF SettleInv, Elsewhere, FansGoOn
<1>4. ResetOK(held[p], p)'
  BY <1>2, <1>3, FreeType DEF SettleInv, ResetInv, ResetOK, Clearing
<1>5. \A k \in Msgs : ~DutyOf(held[p], k) /\ ~TurnOf(held[p], k)
  BY <1>2, NextIsNoReset DEF SettleInv, DutyOf, TurnOf, Settling
<1>6. \A k \in Msgs : ItemsOf(k)' = ItemsOf(k) \/ row[k] \in {"sent", "delivered"}
  BY <1>2 DEF Stale, ItemsOf
<1> QED BY <1>2, <1>3, <1>4, <1>5, <1>6, OwnStep

LEMMA TurnSettles ==
    ASSUME SettleInv, NEW p \in Peers, Park(p) \/ Put(p) \/ Refused(p) \/ Defer(p)
    PROVE  ResetInv' /\ FanInv' /\ StuckInv' /\ SentInv'
<1>1. PICK m : m = Oldest(p)
  OBVIOUS
<1>2. /\ UNCHANGED <<row, queue, cut, torn, link>> /\ held[p].at = "next"
      /\ \/ Release(p)
         \/ /\ <<m, p>> \in queue /\ UNCHANGED fan
            /\ \E a \in {"fail", "finalize"} : Turned(held, held', p, m, a)
  BY <1>1 DEF Park, Put, Refused, Defer, Deliverable, Stale, At, Turned
<1>3. CASE Release(p)
  <2>1. held'[p] = Free /\ Elsewhere(p) /\ FansGoOn
    BY <1>3, ReleaseGoesOn DEF SettleInv
  <2> QED BY <1>2, <2>1, FreeResets, NextIsNoReset, OwnStep DEF SettleInv, DutyOf, TurnOf, Settling, ItemsOf
<1>4. ASSUME NEW a \in {"fail", "finalize"}, Turned(held, held', p, m, a), <<m, p>> \in queue, UNCHANGED fan
      PROVE  ResetInv' /\ FanInv' /\ StuckInv' /\ SentInv'
  <2>1. m \in Msgs /\ a \in Points
    BY <1>4 DEF SettleInv, GInv, Typed, Items, Points
  <2>2. held'[p].at = a /\ held'[p].by = held[p].by /\ held'[p].rest = held[p].rest /\ Elsewhere(p)
    BY <1>4, <2>1, TurnEffect DEF SettleInv
  <2>3. held[p].by # "reset" /\ held[p].rest = {}
    BY <1>2, NextIsNoReset DEF SettleInv
  <2>4. ResetOK(held[p], p)'
    BY <2>2, <2>3 DEF ResetOK
  <2>5. \A k \in Msgs : ~DutyOf(held[p], k) /\ ~TurnOf(held[p], k) /\ ItemsOf(k)' = ItemsOf(k)
    BY <1>2, <2>3 DEF DutyOf, TurnOf, Settling, ItemsOf
  <2> QED BY <1>2, <1>4, <2>2, <2>4, <2>5, OwnStep DEF FansGoOn
<1> QED BY <1>2, <1>3, <1>4

LEMMA FinalizeSettles ==
    ASSUME SettleInv, NEW p \in Peers, Finalize(p)
    PROVE  ResetInv' /\ FanInv' /\ StuckInv' /\ SentInv'
<1>1. PICK m : m = held[p].on
  OBVIOUS
<1>2. /\ UNCHANGED <<row, cut, torn, link>> /\ queue' = queue \ {<<m, p>>} /\ held[p].at = "finalize"
      /\ \/ /\ held' = [held EXCEPT ![p] = Free]
            /\ fan' = [fan EXCEPT ![m].at = "loop", ![m].sent = TRUE]
         \/ Go(p, "count") /\ UNCHANGED fan
  BY <1>1 DEF Finalize, At
<1>3. m \in Msgs /\ held \in [Peers -> HeldType] /\ fan \in [Msgs -> FanType] /\ fan[m] \in FanType
  <2>1. <<m, p>> \in queue
    BY <1>1, <1>2 DEF SettleInv, GInv, CallsInv, CallOK
  <2> QED BY <2>1 DEF SettleInv, GInv, Typed, Items
<1>4. held[p].by # "reset" /\ held[p].rest = {}
  BY <1>2, NextIsNoReset DEF SettleInv
<1>5. /\ \A k \in Msgs : ~DutyOf(held[p], k) /\ ~TurnOf(held[p], k)
      /\ \A k \in Msgs : k # m => ItemsOf(k)' = ItemsOf(k)
  BY <1>2, <1>4 DEF DutyOf, TurnOf, Settling, ItemsOf
<1>6. CASE held' = [held EXCEPT ![p] = Free] /\ fan' = [fan EXCEPT ![m].at = "loop", ![m].sent = TRUE]
  <2> DEFINE f == [fan[m] EXCEPT !.at = "loop", !.sent = TRUE]
  <2>1. f.at = "loop" /\ f.sent
    BY <1>3 DEF FanType
  <2>2. fan' = [fan EXCEPT ![m] = f]
    BY <1>3, <1>6, FanTwoFields
  <2> HIDE DEF f
  <2>3. Elsewhere(p) /\ FansGoOn /\ held'[p] = Free /\ fan'[m] = f
    BY <1>3, <1>6, <2>1, <2>2 DEF Elsewhere, FansGoOn
  <2>4. FanSettles(fan'[m]) /\ FanTurns(fan'[m])
    BY <2>1, <2>3 DEF FanSettles, FanTurns
  <2>5. ResetOK(held[p], p)'
    BY <2>3, FreeResets
  <2> QED BY <1>2, <1>5, <2>3, <2>4, <2>5, OwnStep
<1>7. CASE Go(p, "count") /\ UNCHANGED fan
  <2>1. /\ held'[p].at = "count" /\ held'[p].on = m /\ held'[p].by = held[p].by
        /\ held'[p].rest = held[p].rest /\ Elsewhere(p)
    BY <1>1, <1>7, GoEffect DEF SettleInv, Points
  <2>2. ResetOK(held[p], p)'
    BY <1>4, <2>1 DEF ResetOK
  <2>3. DutyOf(held'[p], m) /\ TurnOf(held'[p], m)
    BY <2>1 DEF DutyOf, TurnOf, Settling
  <2> QED BY <1>2, <1>5, <1>7, <2>1, <2>2, <2>3, OwnStep DEF FansGoOn
<1> QED BY <1>2, <1>6, <1>7

LEMMA NextEffect ==
    ASSUME GInv, NEW p \in Peers, Next_(p), held[p].by # "reset", held[p].rest = {}
    PROVE  /\ Elsewhere(p) /\ FansGoOn /\ ResetOK(held[p], p)'
           /\ \A m \in Msgs : ~DutyOf(held'[p], m)
<1>1. CASE Release(p)
  BY <1>1, ReleaseGoesOn, FreeResets, FreeSettlesNothing
<1>2. CASE Go(p, "next") /\ UNCHANGED fan
  <2>1. /\ held'[p].at = "next" /\ held'[p].by = held[p].by /\ held'[p].rest = held[p].rest /\ Elsewhere(p)
    BY <1>2, GoEffect DEF Points
  <2> QED BY <1>2, <2>1 DEF ResetOK, DutyOf, Settling, FansGoOn
<1> QED BY <1>1, <1>2 DEF Next_

LEMMA CountSettles ==
    ASSUME SettleInv, NEW p \in Peers, Count(p) \/ Write(p)
    PROVE  ResetInv' /\ FanInv' /\ StuckInv' /\ SentInv'
<1>1. PICK m : m = held[p].on
  OBVIOUS
<1>2. /\ UNCHANGED <<queue, cut, torn, link>> /\ held[p].at \in {"count", "write"}
      /\ \/ row' = row /\ ItemsOf(m) = {} /\ Go(p, "write") /\ UNCHANGED fan
         \/ row' = row /\ ItemsOf(m) # {} /\ Next_(p)
         \/ row' = WithState(row, m, "sent") /\ Next_(p)
  BY <1>1 DEF Count, Write, At, LastDelivery
<1>3. m \in Msgs /\ row[m] # "none"
  BY <1>1, <1>2 DEF SettleInv, GInv, CallsInv, CallOK, Settling
<1>4. held[p].by # "reset" /\ held[p].rest = {}
  BY <1>2, NextIsNoReset DEF SettleInv
<1>5. /\ \A k \in Msgs : k # m => ~DutyOf(held[p], k) /\ ~TurnOf(held[p], k)
      /\ \A k \in Msgs : ItemsOf(k)' = ItemsOf(k)
  BY <1>1, <1>2, <1>4 DEF DutyOf, TurnOf, ItemsOf
<1>6. CASE row' = row /\ ItemsOf(m) = {} /\ Go(p, "write") /\ UNCHANGED fan
  <2>1. /\ held'[p].at = "write" /\ held'[p].on = m /\ held'[p].by = held[p].by
        /\ held'[p].rest = held[p].rest /\ Elsewhere(p)
    BY <1>1, <1>6, GoEffect DEF SettleInv, Points
  <2>2. ResetOK(held[p], p)'
    BY <1>4, <2>1 DEF ResetOK
  <2>3. DutyOf(held'[p], m) /\ TurnOf(held'[p], m)
    BY <2>1 DEF DutyOf, TurnOf, Settling
  <2> QED BY <1>2, <1>5, <1>6, <2>1, <2>2, <2>3, OwnStep DEF FansGoOn
<1>7. CASE row' = row /\ ItemsOf(m) # {} /\ Next_(p)
  <2>1. Elsewhere(p) /\ FansGoOn /\ ResetOK(held[p], p)'
    BY <1>4, <1>7, NextEffect DEF SettleInv
  <2> QED BY <1>2, <1>5, <1>7, <2>1, OwnStep
<1>8. CASE row' = WithState(row, m, "sent") /\ Next_(p)
  <2>1. Elsewhere(p) /\ FansGoOn /\ ResetOK(held[p], p)'
    BY <1>4, <1>8, NextEffect DEF SettleInv
  <2>2. row'[m] = "sent" /\ \A k \in Msgs : k # m => row'[k] = row[k]
    BY <1>3, <1>8 DEF WithState, SettleInv, GInv, Typed
  <2> QED BY <1>2, <1>3, <1>5, <2>1, <2>2, OwnStep
<1> QED BY <1>2, <1>6, <1>7, <1>8

LEMMA FailSettles ==
    ASSUME SettleInv, NEW p \in Peers, CountFailed(p) \/ WriteFailed(p)
    PROVE  ResetInv' /\ FanInv' /\ StuckInv' /\ SentInv'
<1>1. PICK m : m = held[p].on
  OBVIOUS
<1>2. /\ UNCHANGED <<queue, cut, torn, link>> /\ held[p].at \in {"fail", "write failed"}
      /\ \/ row' = row /\ Go(p, "write failed") /\ UNCHANGED fan
         \/ /\ (row' = row /\ ItemsOf(m) # {}) \/ row' = WithState(row, m, "failed")
            /\ \/ held[p].by = "reset" /\ Go(p, "settle") /\ UNCHANGED fan
               \/ held[p].by # "reset" /\ Release(p)
  BY <1>1 DEF CountFailed, WriteFailed, At, OwedToOthers
<1>3. m \in Msgs /\ row[m] # "none"
  BY <1>1, <1>2 DEF SettleInv, GInv, CallsInv, CallOK, Settling
<1>4. ResetOK(held[p], p)
  BY DEF SettleInv, ResetInv
<1>5. /\ \A k \in Msgs : ~TurnOf(held[p], k) /\ ItemsOf(k)' = ItemsOf(k)
      /\ \A k \in Msgs : k # m => (DutyOf(held[p], k) <=> k \in held[p].rest)
  BY <1>1, <1>2 DEF DutyOf, TurnOf, ItemsOf
<1>6. CASE row' = row /\ Go(p, "write failed") /\ UNCHANGED fan
  <2>1. /\ held'[p].at = "write failed" /\ held'[p].on = m /\ held'[p].by = held[p].by
        /\ held'[p].rest = held[p].rest /\ Elsewhere(p)
    BY <1>1, <1>6, GoEffect DEF SettleInv, Points
  <2>2. ResetOK(held[p], p)'
    BY <1>4, <2>1 DEF ResetOK, Clearing
  <2>3. \A k \in Msgs : DutyOf(held[p], k) => DutyOf(held'[p], k)
    BY <1>1, <2>1 DEF DutyOf, Settling
  <2> QED BY <1>2, <1>5, <1>6, <2>1, <2>2, <2>3, OwnStep DEF FansGoOn
<1>7. CASE /\ (row' = row /\ ItemsOf(m) # {}) \/ row' = WithState(row, m, "failed")
           /\ \/ held[p].by = "reset" /\ Go(p, "settle") /\ UNCHANGED fan
              \/ held[p].by # "reset" /\ Release(p)
  <2>1. /\ Elsewhere(p) /\ FansGoOn /\ ResetOK(held[p], p)'
        /\ \A k \in held[p].rest : k \in held'[p].rest
    <3>1. CASE held[p].by = "reset" /\ Go(p, "settle") /\ UNCHANGED fan
      <4>1. /\ held'[p].at = "settle" /\ held'[p].by = held[p].by
            /\ held'[p].rest = held[p].rest /\ Elsewhere(p)
        BY <3>1, GoEffect DEF SettleInv, Points
      <4> QED BY <1>4, <3>1, <4>1 DEF ResetOK, Clearing, FansGoOn
    <3>2. CASE held[p].by # "reset" /\ Release(p)
      BY <1>4, <3>2, ReleaseGoesOn, FreeResets DEF SettleInv, ResetOK
    <3> QED BY <1>7, <3>1, <3>2
  <2>2. \A k \in Msgs : k # m /\ DutyOf(held[p], k) => DutyOf(held'[p], k)
    BY <1>5, <2>1 DEF DutyOf
  <2>3. /\ \A k \in Msgs : k # m => row'[k] = row[k]
        /\ \/ row'[m] = row[m] /\ (ItemsOf(m) # {} \/ row[m] \in {"sent", "delivered"})
           \/ row[m] \notin {"sent", "delivered"} /\ row'[m] = "failed"
    BY <1>3, <1>7 DEF WithState, SettleInv, GInv, Typed
  <2>4. /\ \A k \in Msgs : ItemsOf(k)' = {} /\ row'[k] = "sending" =>
               \/ ItemsOf(k) = {} /\ ~DutyOf(held[p], k)
               \/ DutyOf(held'[p], k) \/ FanSettles(fan'[k])
        /\ \A k \in Msgs : \/ row'[k] = row[k]
                           \/ row[k] # "none" /\ row'[k] \in {"sent", "delivered"}
                           \/ row[k] \notin {"none", "sent", "delivered"} /\ row'[k] = "failed"
    BY <1>3, <1>5, <2>2, <2>3
  <2> QED BY <1>2, <1>5, <2>1, <2>4, OwnStep
<1> QED BY <1>2, <1>6, <1>7

LEMMA DropSettles ==
    ASSUME SettleInv, NEW p \in Peers, ResetDrop(p)
    PROVE  ResetInv' /\ FanInv' /\ StuckInv' /\ SentInv'
<1>1. /\ UNCHANGED <<row, torn, link, fan>> /\ held[p].at = "drop" /\ Go(p, "settle")
      /\ queue' = queue \ {x \in queue : x[2] = p} /\ cut' = cut \cup {x \in queue : x[2] = p}
  BY DEF ResetDrop, At
<1>2. /\ held'[p].at = "settle" /\ held'[p].by = held[p].by
      /\ held'[p].rest = held[p].rest /\ Elsewhere(p)
  BY <1>1, GoEffect DEF SettleInv, Points
<1>3. ResetOK(held[p], p) /\ held[p].by = "reset"
  BY <1>1 DEF SettleInv, ResetInv, ResetOK
<1>4. ResetOK(held[p], p)'
  BY <1>2, <1>3 DEF ResetOK, Clearing
<1>5. \A k \in Msgs : /\ ItemsOf(k)' = ItemsOf(k) \/ (k \in held[p].rest /\ <<k, p>> \in cut')
                      /\ (DutyOf(held[p], k) => DutyOf(held'[p], k)) /\ ~TurnOf(held[p], k)
                      /\ k \in held[p].rest => DutyOf(held'[p], k)
  <2> SUFFICES ASSUME NEW k \in Msgs
               PROVE  ItemsOf(k)' = ItemsOf(k) \/ (k \in held[p].rest /\ <<k, p>> \in cut')
    BY <1>1, <1>2 DEF DutyOf, TurnOf, Settling
  <2>1. CASE <<k, p>> \in queue
    BY <1>1, <1>3, <2>1 DEF ResetOK
  <2>2. CASE <<k, p>> \notin queue
    BY <1>1, <2>2 DEF ItemsOf
  <2> QED BY <2>1, <2>2
<1> QED BY <1>1, <1>2, <1>4, <1>5, OwnStep DEF FansGoOn

LEMMA OrphanSettles ==
    ASSUME SettleInv, NEW p \in Peers, ResetSettle(p)
    PROVE  ResetInv' /\ FanInv' /\ StuckInv' /\ SentInv'
<1>1. /\ UNCHANGED <<row, queue, cut, torn, link>> /\ held[p].at = "settle"
      /\ \A k \in Msgs : ItemsOf(k)' = ItemsOf(k) /\ ~TurnOf(held[p], k)
      /\ \A k \in Msgs : DutyOf(held[p], k) => k \in held[p].rest
  BY DEF ResetSettle, At, ItemsOf, TurnOf, DutyOf, Settling
<1>2. ResetOK(held[p], p)
  BY DEF SettleInv, ResetInv
<1>3. CASE held[p].rest = {} /\ Release(p)
  BY <1>1, <1>3, ReleaseGoesOn, FreeResets, OwnStep DEF SettleInv
<1>4. ASSUME NEW m \in held[p].rest, UNCHANGED fan, NEW a \in {"settle", "fail"}, DropTurn(p, m, a),
             a = "fail" \/ row[m] \in {"sent", "delivered"}
      PROVE  ResetInv' /\ FanInv' /\ StuckInv' /\ SentInv'
  <2>1. /\ m \in Msgs /\ held'[p].at = a /\ held'[p].on = m /\ held'[p].by = held[p].by
        /\ held'[p].rest = held[p].rest \ {m} /\ Elsewhere(p)
    BY <1>4, DropTurnEffect DEF SettleInv
  <2>2. ResetOK(held[p], p)'
    BY <1>2, <2>1 DEF ResetOK, Clearing
  <2>3. \A k \in Msgs : DutyOf(held[p], k) => DutyOf(held'[p], k) \/ row[k] \in {"sent", "delivered"}
    BY <1>1, <1>4, <2>1 DEF DutyOf, Settling
  <2> QED BY <1>1, <1>4, <2>1, <2>2, <2>3, OwnStep DEF FansGoOn
<1> QED BY <1>3, <1>4 DEF ResetSettle, Orphans, DropTurn

-----------------------------------------------------------------------------
(* The steps of a fan-out that hold no queue.                               *)
LEMMA StartSettles ==
    ASSUME SettleInv, NEW m \in Msgs, Start(m)
    PROVE  ResetInv' /\ FanInv' /\ StuckInv' /\ SentInv'
<1> DEFINE f == [at |-> "loop", todo |-> link, sent |-> link = {}, next |-> "sending"]
           s == IF link = {} THEN "sent" ELSE "sending"
<1>1. /\ row[m] = "none" /\ row' = [row EXCEPT ![m] = s]
      /\ queue' = queue \cup {<<m, p>> : p \in link}
      /\ fan' = [fan EXCEPT ![m] = f]
      /\ UNCHANGED <<held, link, cut, torn>>
  BY DEF Start, Recipients
<1>2. row \in [Msgs -> States] /\ fan \in [Msgs -> FanType] /\ link \subseteq Peers
  BY DEF SettleInv, GInv, Typed, LinkInv
<1>3. f.at = "loop"
  OBVIOUS
<1> HIDE DEF f
<1>4. /\ row'[m] = s /\ fan'[m] = f
      /\ \A k \in Msgs : k # m => row'[k] = row[k] /\ fan'[k] = fan[k] /\ ItemsOf(k)' = ItemsOf(k)
      /\ link # {} => ItemsOf(m)' # {}
  BY <1>1, <1>2 DEF ItemsOf
<1>5. ResetInv'
  BY <1>1 DEF SettleInv, ResetInv, ResetOK
<1>6. FanInv'
  BY <1>3, <1>4 DEF SettleInv, FanInv
<1>7. StuckInv'
  BY <1>1, <1>4 DEF SettleInv, StuckInv
<1>8. SentInv'
  BY <1>1, <1>4 DEF SettleInv, SentInv
<1> QED BY <1>5, <1>6, <1>7, <1>8

LEMMA FanOutSettles ==
    ASSUME SettleInv, NEW m \in Msgs, NEW p \in Peers, FanOut(m, p)
    PROVE  ResetInv' /\ FanInv' /\ StuckInv' /\ SentInv'
<1> DEFINE f == [fan[m] EXCEPT !.at = "sending", !.todo = @ \ {p}]
           h == [Free EXCEPT !.by = "fan", !.for = m, !.at = "next"]
<1>1. /\ fan' = [fan EXCEPT ![m] = f] /\ held' = [held EXCEPT ![p] = h] /\ fan[m].at = "loop"
      /\ held[p] = Free /\ UNCHANGED <<row, queue, link, cut, torn>>
  BY DEF FanOut
<1>2. fan \in [Msgs -> FanType] /\ fan[m] \in FanType /\ held \in [Peers -> HeldType]
  BY DEF SettleInv, GInv, Typed
<1>3. f.at = "sending" /\ f.sent = fan[m].sent /\ h.at = "next" /\ h.by = "fan" /\ h.rest = {}
  BY <1>2 DEF FanType, Free
<1> HIDE DEF f, h
<1>4. /\ held'[p] = h /\ Elsewhere(p) /\ fan'[m] = f /\ \A k \in Msgs : k # m => fan'[k] = fan[k]
      /\ \A k \in Msgs : ItemsOf(k)' = ItemsOf(k)
  BY <1>1, <1>2 DEF Elsewhere, ItemsOf
<1>5. ResetInv'
  BY <1>1, <1>3, <1>4 DEF SettleInv, ResetInv, ResetOK, Elsewhere
<1>6. FanInv'
  BY <1>3, <1>4 DEF SettleInv, FanInv
<1>7. \A k \in Msgs : /\ FanSettles(fan[k]) => FanSettles(fan'[k])
                      /\ FanTurns(fan[k]) => FanTurns(fan'[k])
                      /\ \A q \in Peers : /\ DutyOf(held[q], k) => DutyOf(held'[q], k)
                                          /\ TurnOf(held[q], k) => TurnOf(held'[q], k)
  BY <1>1, <1>3, <1>4, FreeSettlesNothing DEF FanSettles, FanTurns, Elsewhere
<1>8. StuckInv'
  BY <1>1, <1>4, <1>7 DEF SettleInv, StuckInv
<1>9. SentInv'
  BY <1>1, <1>4, <1>7 DEF SettleInv, SentInv
<1> QED BY <1>5, <1>6, <1>8, <1>9

LEMMA FanCountSettles ==
    ASSUME SettleInv, NEW m \in Msgs, FanCount(m)
    PROVE  ResetInv' /\ FanInv' /\ StuckInv' /\ SentInv'
<1> DEFINE s == SettledState(m)
           at == IF s # "sending" THEN "write" ELSE IF m \in Uploads THEN "return" ELSE "idle"
           f == [fan[m] EXCEPT !.next = s, !.at = at]
<1>1. /\ fan' = [fan EXCEPT ![m] = f] /\ fan[m].at = "loop"
      /\ UNCHANGED <<row, queue, held, link, cut, torn>>
  BY DEF FanCount
<1>2. fan \in [Msgs -> FanType] /\ fan[m] \in FanType
  BY DEF SettleInv, GInv, Typed
<1>3. /\ f.at = at /\ f.next = s /\ f.sent = fan[m].sent
      /\ s = "sent" => fan[m].sent
      /\ ItemsOf(m) = {} => s # "sending" /\ (fan[m].sent => s = "sent")
  BY <1>2 DEF FanType, SettledState
<1> HIDE DEF f, s
<1>4. /\ fan'[m] = f /\ \A k \in Msgs : k # m => fan'[k] = fan[k]
      /\ \A k \in Msgs : ItemsOf(k)' = ItemsOf(k)
  BY <1>1, <1>2 DEF ItemsOf
<1>5. ResetInv'
  BY <1>1 DEF SettleInv, ResetInv, ResetOK
<1>6. FanInv'
  BY <1>3, <1>4 DEF SettleInv, FanInv
<1>7. ItemsOf(m) = {} => FanSettles(f) /\ (FanTurns(fan[m]) => FanTurns(f))
  BY <1>1, <1>3 DEF FanSettles, FanTurns
<1>8. StuckInv'
  BY <1>1, <1>4, <1>7 DEF SettleInv, StuckInv
<1>9. SentInv'
  BY <1>1, <1>4, <1>7 DEF SettleInv, SentInv
<1> QED BY <1>5, <1>6, <1>8, <1>9

LEMMA FanEndSettles ==
    ASSUME SettleInv, NEW m \in Msgs, FanWrite(m) \/ FanReturn(m)
    PROVE  ResetInv' /\ FanInv' /\ StuckInv' /\ SentInv'
<1>1. PICK end \in {"return", "idle"} : fan' = [fan EXCEPT ![m].at = end]
  BY DEF FanWrite, FanReturn
<1> DEFINE f == [fan[m] EXCEPT !.at = end]
<1>2. /\ fan' = [fan EXCEPT ![m] = f] /\ UNCHANGED <<queue, held, link, cut, torn>>
      /\ \/ fan[m].at = "write" /\ row' = WithState(row, m, fan[m].next)
         \/ fan[m].at = "return" /\ row' = row
  BY <1>1 DEF FanWrite, FanReturn
<1>3. fan \in [Msgs -> FanType] /\ fan[m] \in FanType /\ row \in [Msgs -> States]
  BY DEF SettleInv, GInv, Typed
<1>4. f.at = end /\ f.at # "write"
  BY <1>1, <1>3 DEF FanType
<1> HIDE DEF f
<1>5. /\ fan'[m] = f /\ \A k \in Msgs : k # m => fan'[k] = fan[k] /\ row'[k] = row[k]
      /\ \A k \in Msgs : ItemsOf(k)' = ItemsOf(k)
  BY <1>2, <1>3 DEF ItemsOf, WithState
<1>6. ResetInv'
  BY <1>2 DEF SettleInv, ResetInv, ResetOK
<1>7. FanInv'
  BY <1>4, <1>5 DEF SettleInv, FanInv
<1>8. CASE fan[m].at = "return" /\ row' = row
  <2>1. ~FanSettles(fan[m]) /\ ~FanTurns(fan[m])
    BY <1>8 DEF FanSettles, FanTurns
  <2> QED BY <1>2, <1>5, <1>6, <1>7, <1>8, <2>1 DEF SettleInv, StuckInv, SentInv
<1>9. CASE fan[m].at = "write" /\ row' = WithState(row, m, fan[m].next)
  <2>1. /\ fan[m].next \in {"sent", "failed"} /\ row[m] # "none"
        /\ FanTurns(fan[m]) => fan[m].next = "sent"
    BY <1>3, <1>9 DEF SettleInv, FanInv, FanType, FanTurns, GInv, CallsInv, FanOK
  <2>2. /\ row'[m] \in {"sent", "delivered", "failed"}
        /\ row[m] \in {"sent", "delivered"} => row'[m] \in {"sent", "delivered"}
        /\ fan[m].next = "sent" => row'[m] = "sent"
    BY <1>3, <1>9, <2>1 DEF WithState
  <2>3. StuckInv'
    BY <1>2, <1>5, <2>2 DEF SettleInv, StuckInv
  <2>4. SentInv'
    BY <1>2, <1>5, <2>1, <2>2 DEF SettleInv, SentInv
  <2> QED BY <1>6, <1>7, <2>3, <2>4
<1> QED BY <1>2, <1>8, <1>9

-----------------------------------------------------------------------------
LEMMA ReceiptSettles ==
    ASSUME SettleInv, NEW m \in Msgs, NEW p \in Peers, Receipt(m, p)
    PROVE  ResetInv' /\ FanInv' /\ StuckInv' /\ SentInv'
<1>1. /\ UNCHANGED <<queue, fan, held, link, cut, torn>> /\ p \in sent[m]
      /\ \E s \in {"delivered", "read"} \cap Faults : row' = [row EXCEPT ![m] = s]
  BY DEF Receipt
<1>2. row \in [Msgs -> States] /\ row[m] # "none"
  BY <1>1 DEF SettleInv, GInv, Typed, RowsInv
<1>3. /\ \A k \in Msgs : k # m => row'[k] = row[k]
      /\ row'[m] \in {"delivered", "read"} \cap Faults
      /\ \A k \in Msgs : ItemsOf(k)' = ItemsOf(k)
  BY <1>1, <1>2 DEF ItemsOf
<1>4. ResetInv' /\ FanInv'
  BY <1>1 DEF SettleInv, ResetInv, ResetOK, FanInv
<1>5. StuckInv'
  BY <1>1, <1>3 DEF SettleInv, StuckInv
<1>6. SentInv'
  BY <1>1, <1>3 DEF SettleInv, SentInv
<1> QED BY <1>4, <1>5, <1>6

LEMMA RelinkSettles ==
    ASSUME SettleInv, NEW p \in Peers, Relink(p)
    PROVE  ResetInv' /\ FanInv' /\ StuckInv' /\ SentInv'
<1>1. /\ UNCHANGED <<row, queue, fan, held, cut, torn>> /\ held[p] = Free /\ link' = link \cup {p}
  BY DEF Relink
<1>2. ResetInv'
  BY <1>1, FreeType DEF SettleInv, ResetInv, ResetOK
<1> QED BY <1>1, <1>2 DEF SettleInv, FanInv, StuckInv, SentInv, ItemsOf

LEMMA CrashSettles ==
    ASSUME SettleInv, Crash
    PROVE  ResetInv' /\ FanInv' /\ StuckInv' /\ SentInv'
<1>1. /\ UNCHANGED <<row, queue>>
      /\ held' = [p \in Peers |-> Free] /\ fan' = [m \in Msgs |-> NoCall]
      /\ torn' = torn \cup {m \in Msgs : row[m] # "none" /\ ItemsOf(m) = {}}
  BY DEF Crash
<1>2. ResetInv'
  BY <1>1, FreeResets DEF ResetInv
<1>3. FanInv'
  BY <1>1 DEF FanInv, NoCall
<1>4. \A m \in Msgs : row'[m] # "none" /\ ItemsOf(m)' = {} => m \in torn'
  BY <1>1 DEF ItemsOf
<1> QED BY <1>2, <1>3, <1>4 DEF StuckInv, SentInv

LEMMA IdleSettles ==
    ASSUME SettleInv, UNCHANGED <<row, queue, fan, held, link, cut, torn>>
    PROVE  ResetInv' /\ FanInv' /\ StuckInv' /\ SentInv'
BY DEF SettleInv, ResetInv, ResetOK, FanInv, StuckInv, SentInv, ItemsOf

LEMMA SettleInvStep ==
    ASSUME SettleInv, [GsNext]_gsVars
    PROVE  SettleInv'
<1>1. ASSUME NEW m \in Msgs, Start(m) \/ OfCall(m) \/ Age(m)
      PROVE  ResetInv' /\ FanInv' /\ StuckInv' /\ SentInv'
  <2>1. CASE Age(m)
    BY <2>1, IdleSettles DEF Age
  <2> QED BY <1>1, <2>1, StartSettles, FanOutSettles, FanCountSettles, FanEndSettles DEF OfCall
<1>2. ASSUME NEW m \in Msgs, NEW p \in Peers, Drain(m, p) \/ Receipt(m, p)
      PROVE  ResetInv' /\ FanInv' /\ StuckInv' /\ SentInv'
  BY <1>2, TakeSettles, ReceiptSettles
<1>3. ASSUME NEW p \in Peers, OnLink(p) \/ Reset(p) \/ Relink(p)
      PROVE  ResetInv' /\ FanInv' /\ StuckInv' /\ SentInv'
  BY <1>3, TakeSettles, RelinkSettles, SettleSettles, TurnSettles, FinalizeSettles, CountSettles,
     FailSettles, DropSettles, OrphanSettles DEF OnLink
<1>4. ASSUME Pass \/ UNCHANGED gsVars
      PROVE  ResetInv' /\ FanInv' /\ StuckInv' /\ SentInv'
  BY <1>4, IdleSettles DEF Pass, gsVars
<1>5. ASSUME Crash
      PROVE  ResetInv' /\ FanInv' /\ StuckInv' /\ SentInv'
  BY <1>5, CrashSettles
<1>6. ResetInv' /\ FanInv' /\ StuckInv' /\ SentInv'
  BY <1>1, <1>2, <1>3, <1>4, <1>5 DEF GsNext
<1> QED BY <1>6, GInvStep, LinkStep DEF SettleInv

LEMMA SettleInvInit == GsInit => SettleInv
<1> SUFFICES ASSUME GsInit PROVE SettleInv
  OBVIOUS
<1>1. /\ \A m \in Msgs : row[m] = "none" /\ fan[m] = NoCall
      /\ \A p \in Peers : held[p] = Free
      /\ LinkInv
  BY DEF GsInit, LinkInv
<1>2. ResetInv
  BY <1>1, FreeType DEF ResetInv, ResetOK, Free
<1>3. FanInv
  BY <1>1 DEF FanInv, NoCall
<1>4. StuckInv /\ SentInv
  BY <1>1 DEF StuckInv, SentInv
<1> QED BY <1>1, <1>2, <1>3, <1>4, InitInv DEF SettleInv

(* Somebody is always left to write the state of a message nobody is owed.  *)
THEOREM SettlersInvariant == GsSpec => []SettleInv
BY SettleInvInit, SettleInvStep, PTL DEF GsSpec

(* A message nobody is owed does not stay `sending`, whatever fails and      *)
(* however many fan-outs, drains, receipts and resets interleave, except     *)
(* after a reload between its last delivery and the second statement.       *)
THEOREM NeverLeftSending == GsSpec => []NeverStuckSending
<1>1. SettleInv => NeverStuckSending
  <2> SUFFICES ASSUME SettleInv, NEW m \in Msgs, Quiet(m), row[m] = "sending", m \notin torn
               PROVE  FALSE
    BY DEF NeverStuckSending
  <2>1. ItemsOf(m) = {} /\ ~FanSettles(fan[m])
    BY DEF Quiet, FanSettles
  <2>2. \A p \in Peers : ~DutyOf(held[p], m)
    BY FreeSettlesNothing DEF Quiet
  <2> QED BY <2>1, <2>2 DEF SettleInv, StuckInv
<1> QED BY <1>1, SettlersInvariant, PTL

(* A message shown as failed was taken from some member by a reset; without  *)
(* read receipts, since `read` is a state a late `failed` overwrites.       *)
THEOREM FailedMeansDropped ==
    ASSUME "read" \notin Faults
    PROVE  GsSpec => []FailedIsTrue
<1>1. SettleInv => FailedIsTrue
  <2> SUFFICES ASSUME SettleInv, NEW m \in Msgs, Quiet(m), row[m] = "failed", m \notin torn
               PROVE  \E p \in Peers : <<m, p>> \in cut
    BY DEF FailedIsTrue
  <2>1. ItemsOf(m) = {} /\ ~FanTurns(fan[m])
    BY DEF Quiet, FanTurns
  <2>2. \A p \in Peers : ~TurnOf(held[p], m)
    BY FreeSettlesNothing DEF Quiet
  <2> QED BY <2>1, <2>2 DEF SettleInv, SentInv
<1> QED BY <1>1, SettlersInvariant, PTL
=============================================================================
