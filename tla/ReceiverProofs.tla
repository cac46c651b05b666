----------------------------- MODULE ReceiverProofs -----------------------------
(* What no interleaving of the devices of an identity does, for any devices, *)
(* calls, faults and bounds: replace a marker that was up other than by a    *)
(* takeover, or publish a key whose secret nobody has.                       *)
EXTENDS Receiver, TLAPS

SomeKey == Nat \cup {None}

RowType == [role : {"none", "active", "standby"}, pub : BOOLEAN]

RetryType ==
    [stage : {"none", "marker", "capability"}, key : SomeKey, attempts : Nat, due : BOOLEAN]

DevType ==
    [live : Nat, stored : Nat, open : SUBSET Nat, secret : SomeKey, row : RowType, retry : RetryType,
     role : {"none", "active", "standby"}, needs : BOOLEAN]

Points ==
    {"idle", "key", "mint", "minted", "get", "put", "recheck", "confirm", "enqueue", "begin",
     "inspect", "check", "read", "putcap", "reread", "role", "ours", "remove", "close", "wipe"}

Ops == {"none", "enable", "heal", "marker", "again", "capability", "takeover", "signout"}

CallType ==
    [pc : Points, op : Ops, ses : Nat, at : SomeKey, key : SomeKey, row : RowType,
     tries : Nat]

Typed ==
    /\ marker \in SomeKey
    /\ dev \in [Devices -> DevType]
    /\ proc \in [Devices -> [Procs -> CallType]]
    /\ used \in [key : Nat, user : Nat, fault : Nat]
    /\ late \subseteq [d : Devices, ses : Nat, key : SomeKey]

(* The keys somebody had the secret of.                                     *)
Held == gone \cup {dev[d].secret : d \in Devices} \cup {None}

(* A call that may publish carries a key that has its secret, and found no   *)
(* marker unless it is a takeover; a marker written since then clears what   *)
(* it remembers.                                                            *)
CallOK(r) ==
    /\ r.at \in {None, marker}
    /\ r.pc = "put" /\ r.op # "takeover" => r.at = None
    /\ r.pc \in {"minted", "get", "put"} => r.key \in Held

RInv ==
    /\ Typed
    /\ marker \in Held
    /\ \A l \in late : l.key \in Held
    /\ \A d \in Devices : \A p \in Procs : CallOK(proc[d][p])

-----------------------------------------------------------------------------
(* The rows of a device keep their types, and none of them touches the       *)
(* secret.                                                                  *)
LEMMA NoneTypes ==
    /\ NoRow \in RowType /\ NoRetry \in RetryType
    /\ Idle \in CallType /\ Idle.at = None /\ Idle.pc = "idle"
BY DEF NoRow, NoRetry, Idle, RowType, RetryType, CallType, SomeKey, Points, Ops

LEMMA PersistType ==
    ASSUME NEW x \in DevType, NEW pub \in BOOLEAN, NEW role \in {"active", "standby"}
    PROVE  Persist(x, pub, role) \in DevType /\ Persist(x, pub, role).secret = x.secret
<1>1. [role |-> role, pub |-> pub] \in RowType
  BY DEF RowType
<1> QED BY <1>1 DEF Persist, DevType

LEMMA RetainType ==
    ASSUME NEW x \in DevType, NEW key \in SomeKey, NEW stage \in {"none", "marker", "capability"},
           NEW attempts \in Nat
    PROVE  /\ Retain(x, key, stage, attempts) \in DevType
           /\ Retain(x, key, stage, attempts).secret = x.secret
<1> DEFINE r == [stage |-> stage, key |-> key, attempts |-> attempts + 1, due |-> FALSE]
<1>2. r \in RetryType
  BY DEF RetryType
<1> HIDE DEF r
<1>3. [x EXCEPT !.retry = r] \in DevType /\ [x EXCEPT !.retry = r].secret = x.secret
  BY <1>2 DEF DevType
<1> QED BY <1>3 DEF Retain, r

LEMMA DropType ==
    ASSUME NEW x \in DevType
    PROVE  Drop(x) \in DevType /\ Drop(x).secret = x.secret
BY NoneTypes DEF Drop, DevType

LEMMA UnknownType ==
    ASSUME NEW x \in DevType, NEW key \in SomeKey
    PROVE  Unknown(x, key) \in DevType /\ Unknown(x, key).secret = x.secret
<1>1. x.retry.attempts \in Nat
  BY DEF DevType, RetryType
<1>2. Persist(x, FALSE, "active") \in DevType /\ Persist(x, FALSE, "active").secret = x.secret
  BY PersistType
<1> QED BY <1>1, <1>2, RetainType DEF Unknown

LEMMA CaughtType ==
    ASSUME NEW x \in DevType
    PROVE  Caught(x) \in DevType /\ Caught(x).secret = x.secret
<1>1. /\ x.retry.key \in SomeKey /\ x.retry.stage \in {"none", "marker", "capability"}
      /\ x.retry.attempts \in Nat
  BY DEF DevType, RetryType
<1> QED BY <1>1, RetainType DEF Caught

LEMMA EnabledType ==
    ASSUME NEW key \in SomeKey, NEW pub \in SomeKey
    PROVE  Enabled(key, pub) \in DevType /\ Enabled(key, pub).secret = key
<1>1. MaxUser + 1 \in Nat
  BY ReceiverAssumption
<1> QED BY <1>1, NoneTypes DEF Enabled, DevType, RowType

LEMMA NewType == NewDevice \in DevType
BY NoneTypes DEF NewDevice, DevType, SomeKey

-----------------------------------------------------------------------------
LEMMA InitInv == RxInit => RInv
<1> SUFFICES ASSUME RxInit PROVE RInv
  OBVIOUS
<1>1. First \in Devices /\ 1 \in SomeKey /\ 2 \in SomeKey /\ None \in SomeKey
  BY ReceiverAssumption DEF SomeKey
<1>2. /\ Enabled(1, 1) \in DevType /\ Enabled(1, 1).secret = 1
      /\ Enabled(2, 1) \in DevType
      /\ Unknown(Enabled(1, 1), 1) \in DevType
  BY <1>1, EnabledType, UnknownType
<1>3. dev \in [Devices -> DevType] /\ marker \in SomeKey
  BY <1>1, <1>2, NewType DEF RxInit
<1>4. used \in [key : Nat, user : Nat, fault : Nat]
  BY DEF RxInit
<1>5. proc \in [Devices -> [Procs -> CallType]] /\ \A d \in Devices : \A p \in Procs : proc[d][p] = Idle
  BY NoneTypes DEF RxInit
<1>6. marker \in Held
  <2>1. marker = None \/ (marker = 1 /\ dev[First].secret = 1)
    BY <1>1, <1>2 DEF RxInit
  <2> QED BY <1>1, <2>1 DEF Held
<1>7. \A d \in Devices : \A p \in Procs : CallOK(proc[d][p])
  BY <1>5, NoneTypes DEF CallOK
<1> QED BY <1>3, <1>4, <1>5, <1>6, <1>7 DEF RInv, Typed, RxInit

-----------------------------------------------------------------------------
(* A step that leaves every secret where it is.                             *)
KeepsSecrets ==
    /\ dev' \in [Devices -> DevType] /\ gone' = gone
    /\ \A d \in Devices : dev'[d].secret = dev[d].secret

LEMMA SameHeld ==
    ASSUME KeepsSecrets
    PROVE  Held' = Held
BY DEF KeepsSecrets, Held

LEMMA PutKeeps ==
    ASSUME Typed, NEW d \in Devices, NEW y \in DevType, Put(d, y), y.secret = dev[d].secret, gone' = gone
    PROVE  KeepsSecrets
BY DEF Typed, Put, KeepsSecrets

LEMMA SameKeeps ==
    ASSUME Typed, dev' = dev, gone' = gone
    PROVE  KeepsSecrets
BY DEF Typed, KeepsSecrets

CountedOK == used' \in [key : Nat, user : Nat, fault : Nat]

LEMMA CountType ==
    ASSUME Typed,
           \/ used' = used \/ Fault
           \/ \E what \in {"key", "user", "fault"} : \E max : Count(what, max)
    PROVE  CountedOK
<1>1. CASE used' = used
  BY <1>1 DEF Typed, CountedOK
<1>2. CASE \E what \in {"key", "user", "fault"} : \E max : Count(what, max)
  BY <1>2 DEF Typed, Count, CountedOK
<1>3. CASE Fault
  BY <1>3 DEF Typed, Fault, Count, CountedOK
<1> QED BY <1>1, <1>2, <1>3

LEMMA Moves ==
    ASSUME RInv, NEW d \in Devices, NEW p \in Procs, NEW r \in CallType, Goto(d, p, r), CallOK(r),
           KeepsSecrets, CountedOK, marker' = marker, late' = late
    PROVE  RInv'
<1>1. Held' = Held
  BY SameHeld
<1>2. /\ proc' \in [Devices -> [Procs -> CallType]] /\ proc'[d][p] = r
      /\ \A e \in Devices : \A q \in Procs : (e # d \/ q # p) => proc'[e][q] = proc[e][q]
  BY DEF Goto, RInv, Typed
<1>3. \A e \in Devices : \A q \in Procs : CallOK(proc'[e][q])
  BY <1>2 DEF RInv
<1>4. \A e \in Devices : \A q \in Procs : CallOK(proc[e][q])'
  BY <1>1, <1>3 DEF CallOK
<1>5. Typed'
  BY <1>2 DEF RInv, Typed, KeepsSecrets, CountedOK
<1> QED BY <1>1, <1>4, <1>5 DEF RInv

LEMMA Returns ==
    ASSUME RInv, NEW d \in Devices, NEW p \in Procs, NEW y \in DevType, y.secret = dev[d].secret,
           Return(d, p, y), CountedOK, marker' = marker, late' = late, gone' = gone
    PROVE  RInv'
<1>1. Idle \in CallType /\ CallOK(Idle)
  BY NoneTypes DEF CallOK
<1>2. KeepsSecrets
  BY PutKeeps DEF Return, RInv
<1> QED BY <1>1, <1>2, Moves DEF Return

LEMMA Throws ==
    ASSUME RInv, NEW d \in Devices, NEW p \in Procs, NEW y \in DevType, y.secret = dev[d].secret,
           Throw(d, p, y), CountedOK, marker' = marker, late' = late, gone' = gone
    PROVE  RInv'
BY Returns, CaughtType DEF Throw

LEMMA PointType ==
    ASSUME NEW r \in CallType, NEW pc \in Points
    PROVE  /\ [r EXCEPT !.pc = pc] \in CallType
           /\ [r EXCEPT !.pc = pc].pc = pc /\ [r EXCEPT !.pc = pc].op = r.op
           /\ [r EXCEPT !.pc = pc].at = r.at /\ [r EXCEPT !.pc = pc].key = r.key
BY DEF CallType

(* A call goes on to a point that asks for no more than the one before it.  *)
LEMMA GoesOn ==
    ASSUME RInv, NEW d \in Devices, NEW p \in Procs, NEW pc \in Points, Then(d, p, pc),
           pc \in {"minted", "get", "put"} => proc[d][p].key \in Held,
           pc = "put" => proc[d][p].op = "takeover" \/ proc[d][p].at = None,
           KeepsSecrets, CountedOK, marker' = marker, late' = late
    PROVE  RInv'
<1> DEFINE r == [proc[d][p] EXCEPT !.pc = pc]
<1>1. proc[d][p] \in CallType /\ CallOK(proc[d][p])
  BY DEF RInv, Typed
<1>2. r \in CallType /\ r.pc = pc /\ r.op = proc[d][p].op /\ r.at = proc[d][p].at /\ r.key = proc[d][p].key
  BY <1>1, PointType
<1>3. Goto(d, p, r)
  BY DEF Then
<1> HIDE DEF r
<1>4. CallOK(r)
  BY <1>1, <1>2 DEF CallOK
<1> QED BY <1>2, <1>3, <1>4, Moves

(* A provisioning starts with the marker it finds.                          *)
LEMMA Provisions ==
    ASSUME RInv, NEW d \in Devices, NEW p \in Procs, NEW op \in Ops, NEW ses \in Nat,
           Provision(d, p, op, ses), KeepsSecrets, CountedOK, marker' = marker, late' = late
    PROVE  RInv'
<1> DEFINE r == [Idle EXCEPT !.pc = "key", !.op = op, !.ses = ses, !.at = marker]
<1>1. r \in CallType /\ r.pc = "key" /\ r.at = marker
  BY NoneTypes DEF RInv, Typed, CallType, Points, Idle
<1>2. Goto(d, p, r)
  BY DEF Provision
<1> HIDE DEF r
<1>3. CallOK(r)
  BY <1>1 DEF CallOK
<1> QED BY <1>1, <1>2, <1>3, Moves

-----------------------------------------------------------------------------
(* The steps of a call.                                                     *)
LEMMA Fields ==
    ASSUME RInv, NEW d \in Devices, NEW p \in Procs
    PROVE  /\ dev[d] \in DevType /\ dev[d].secret \in SomeKey /\ dev[d].secret \in Held /\ dev[d].live \in Nat
           /\ dev[d].row \in RowType /\ dev[d].retry \in RetryType
           /\ dev[d].retry.key \in SomeKey /\ dev[d].retry.attempts \in Nat
           /\ proc[d][p] \in CallType /\ CallOK(proc[d][p]) /\ proc[d][p].key \in SomeKey
           /\ proc[d][p].ses \in Nat /\ proc[d][p].row \in RowType
           /\ proc[d][p].tries \in Nat
<1>1. dev[d] \in DevType /\ proc[d][p] \in CallType
  BY DEF RInv, Typed
<1> QED BY <1>1 DEF RInv, DevType, RetryType, CallType, Held

LEMMA KeyStep ==
    ASSUME RInv, NEW d \in Devices, NEW p \in Procs, Key(d, p)
    PROVE  RInv'
<1>1. UNCHANGED <<marker, late, gone, used>> /\ CountedOK
  BY CountType DEF Key, server, RInv
<1>2. CASE dev[d].secret # None
  <2> DEFINE u == [proc[d][p] EXCEPT !.pc = "get"]
             r == [u EXCEPT !.key = dev[d].secret]
  <2>1. proc[d][p] \in CallType /\ dev[d].secret \in SomeKey /\ dev[d].secret \in Held
        /\ CallOK(proc[d][p])
    BY Fields
  <2>2. u \in CallType /\ u.pc = "get" /\ u.at = proc[d][p].at
    BY <2>1, PointType DEF Points
  <2> HIDE DEF u
  <2>3. r \in CallType /\ r.pc = "get" /\ r.at = u.at /\ r.key = dev[d].secret
    BY <2>1, <2>2 DEF CallType
  <2>4. Goto(d, p, r) /\ dev' = dev
    BY <1>2 DEF Key, u
  <2> HIDE DEF r
  <2>5. CallOK(r)
    BY <2>1, <2>2, <2>3 DEF CallOK
  <2> QED BY <1>1, <2>3, <2>4, <2>5, Moves, SameKeeps DEF RInv
<1>3. CASE dev[d].secret = None
  <2> DEFINE y == [dev[d] EXCEPT !.row = NoRow]
  <2>1. y \in DevType /\ y.secret = dev[d].secret
    BY Fields, NoneTypes DEF DevType
  <2>2. Put(d, y) /\ Then(d, p, "mint") /\ "mint" \in Points
    BY <1>3 DEF Key, Points
  <2> HIDE DEF y
  <2> QED BY <1>1, <2>1, <2>2, PutKeeps, GoesOn DEF RInv
<1> QED BY <1>2, <1>3

(* A secret is minted only where there is none, so that none is lost.        *)
LEMMA MintStep ==
    ASSUME RInv, NEW d \in Devices, NEW p \in Procs, Mint(d, p)
    PROVE  RInv'
<1>1. UNCHANGED <<marker, late, gone>>
  BY DEF Mint, server
<1>2. CASE dev[d].secret # None
  BY <1>1, <1>2, Fields, Throws, CountType DEF Mint, Fine, RInv
<1>3. CASE dev[d].secret = None
  <2> DEFINE k == used.key + 1
             y == [dev[d] EXCEPT !.secret = k]
  <2>1. k \in Nat /\ k \in SomeKey /\ CountedOK
    BY <1>3, CountType DEF Mint, RInv, Typed, SomeKey
  <2>2. y \in DevType /\ y.secret = k
    BY <2>1, Fields DEF DevType
  <2> HIDE DEF k, y
  <2> DEFINE u == [proc[d][p] EXCEPT !.pc = "minted"]
  <2>2a. proc[d][p] \in CallType /\ "minted" \in Points
    BY Fields DEF Points
  <2>3. u \in CallType /\ u.pc = "minted" /\ u.at = proc[d][p].at
    BY <2>2a, PointType
  <2> HIDE DEF u
  <2> DEFINE r == [u EXCEPT !.key = k]
  <2>4. Put(d, y) /\ Goto(d, p, r)
    BY <1>3 DEF Mint, k, y, u
  <2>5. r \in CallType /\ r.pc = "minted" /\ r.at = u.at /\ r.key = k
    BY <2>1, <2>3 DEF CallType
  <2> HIDE DEF r
  <2>6. /\ dev' \in [Devices -> DevType] /\ dev'[d].secret = k
        /\ \A e \in Devices : e # d => dev'[e].secret = dev[e].secret
    BY <2>2, <2>4 DEF Put, RInv, Typed
  <2>7. Held \subseteq Held' /\ k \in Held'
    BY <1>1, <1>3, <2>6 DEF Held
  <2>8. /\ proc' \in [Devices -> [Procs -> CallType]] /\ proc'[d][p] = r
        /\ \A e \in Devices : \A q \in Procs : (e # d \/ q # p) => proc'[e][q] = proc[e][q]
    BY <2>4, <2>5 DEF Goto, RInv, Typed
  <2>9. CallOK(proc[d][p])'
    BY <1>1, <2>3, <2>5, <2>7, <2>8, Fields DEF CallOK
  <2>10. \A e \in Devices : \A q \in Procs : (e # d \/ q # p) => CallOK(proc[e][q])'
    BY <1>1, <2>7, <2>8 DEF CallOK, RInv
  <2>11. Typed'
    BY <1>1, <2>1, <2>6, <2>8 DEF RInv, Typed, CountedOK
  <2> QED BY <1>1, <2>7, <2>9, <2>10, <2>11 DEF RInv
<1> QED BY <1>2, <1>3

LEMMA MintedStep ==
    ASSUME RInv, NEW d \in Devices, NEW p \in Procs, Minted(d, p)
    PROVE  RInv'
<1> DEFINE y == [dev[d] EXCEPT !.row = [role |-> "active", pub |-> FALSE]]
<1>1. UNCHANGED <<marker, late, gone, used>> /\ CountedOK
  BY CountType DEF Minted, server, RInv
<1>2. y \in DevType /\ y.secret = dev[d].secret
  BY Fields DEF DevType, RowType
<1>3. Put(d, y) /\ Then(d, p, "get") /\ "get" \in Points /\ proc[d][p].key \in Held
  BY Fields DEF Minted, Points, CallOK
<1> HIDE DEF y
<1> QED BY <1>1, <1>2, <1>3, PutKeeps, GoesOn DEF RInv

(* The put comes after a GET that found no marker.                          *)
LEMMA GetStep ==
    ASSUME RInv, NEW d \in Devices, NEW p \in Procs, Get(d, p)
    PROVE  RInv'
<1>1. UNCHANGED <<marker, late, gone>> /\ CountedOK /\ proc[d][p].key \in Held
  BY CountType, Fields DEF Get, server, RInv, Fine, CallOK
<1>2. CASE Throw(d, p, Unknown(dev[d], proc[d][p].key))
  BY <1>1, <1>2, Fields, UnknownType, Throws
<1>3. CASE marker = None /\ Then(d, p, "put") /\ UNCHANGED dev
  <2>1. proc[d][p].at = None /\ "put" \in Points
    BY <1>3, Fields DEF CallOK, Points
  <2> QED BY <1>1, <1>3, <2>1, SameKeeps, GoesOn DEF RInv
<1>4. CASE Then(d, p, "confirm") /\ UNCHANGED dev
  BY <1>1, <1>4, SameKeeps, GoesOn DEF RInv, Points
<1>5. CASE \/ Return(d, p, Persist(dev[d], FALSE, "standby"))
           \/ Return(d, p, Drop(Persist(dev[d], FALSE, "standby")))
  <2>1. Persist(dev[d], FALSE, "standby") \in DevType /\ Persist(dev[d], FALSE, "standby").secret = dev[d].secret
    BY Fields, PersistType
  <2> QED BY <1>1, <1>5, <2>1, DropType, Returns
<1> QED BY <1>2, <1>3, <1>4, <1>5 DEF Get

(* Whoever writes the marker clears what the calls remember of the old one.  *)
LEMMA Writes ==
    ASSUME RInv, NEW ps \in [Devices -> [Procs -> CallType]], NEW key \in Held \cap SomeKey,
           Write(key, ps), dev' = dev, gone' = gone, CountedOK,
           \A d \in Devices : \A p \in Procs :
               ps[d][p].pc \in {"minted", "get", "put"} => ps[d][p].key \in Held,
           late' \subseteq late \/ late' = late
    PROVE  RInv'
<1>1. Held' = Held /\ KeepsSecrets
  BY SameHeld, SameKeeps DEF RInv
<1> DEFINE C(r) == [r EXCEPT !.at = None]
<1>2. \A r \in CallType : C(r) \in CallType /\ C(r).at = None /\ C(r).pc = r.pc /\ C(r).key = r.key
  BY DEF CallType, SomeKey
<1>2a. proc' = [d \in Devices |-> [p \in Procs |-> C(ps[d][p])]]
  BY DEF Write, Written
<1> HIDE DEF C
<1>3. /\ proc' \in [Devices -> [Procs -> CallType]]
      /\ \A d \in Devices : \A p \in Procs :
            proc'[d][p].at = None /\ proc'[d][p].pc = ps[d][p].pc /\ proc'[d][p].key = ps[d][p].key
  <2>1. ASSUME NEW d \in Devices, NEW p \in Procs
        PROVE  proc'[d][p] = C(ps[d][p]) /\ ps[d][p] \in CallType
    BY <1>2a
  <2> QED BY <1>2, <1>2a, <2>1
<1>4. \A d \in Devices : \A p \in Procs : CallOK(proc[d][p])'
  BY <1>1, <1>3 DEF CallOK
<1>5. Typed'
  BY <1>1, <1>3 DEF RInv, Typed, Write, KeepsSecrets, CountedOK
<1> QED BY <1>1, <1>4, <1>5 DEF RInv, Write

LEMMA MovedType ==
    ASSUME RInv, NEW d \in Devices, NEW p \in Procs, NEW pc \in Points \ {"minted", "get", "put"}
    PROVE  /\ Moved(d, p, pc) \in [Devices -> [Procs -> CallType]]
           /\ \A e \in Devices : \A q \in Procs :
                 Moved(d, p, pc)[e][q].pc \in {"minted", "get", "put"} => Moved(d, p, pc)[e][q].key \in Held
<1> DEFINE r == [proc[d][p] EXCEPT !.pc = pc]
           t == [proc EXCEPT ![d][p] = r]
<1>1. proc[d][p] \in CallType /\ proc \in [Devices -> [Procs -> CallType]]
  BY DEF RInv, Typed
<1>2. r \in CallType /\ r.pc = pc
  BY <1>1, PointType
<1>3. Moved(d, p, pc) = t
  BY DEF Moved
<1> HIDE DEF r
<1>4. /\ t \in [Devices -> [Procs -> CallType]] /\ t[d][p] = r
      /\ \A e \in Devices : \A q \in Procs : (e # d \/ q # p) => t[e][q] = proc[e][q]
  BY <1>1, <1>2
<1> HIDE DEF t
<1> QED BY <1>2, <1>3, <1>4 DEF RInv, CallOK

LEMMA PutStep ==
    ASSUME RInv, NEW d \in Devices, NEW p \in Procs, PutMarker(d, p)
    PROVE  RInv'
<1>1. /\ gone' = gone /\ CountedOK
      /\ proc[d][p].key \in Held /\ proc[d][p].key \in SomeKey /\ proc[d][p].ses \in Nat
  BY CountType, Fields DEF PutMarker, RInv, CallOK
<1>2. CASE Write(proc[d][p].key, Moved(d, p, "recheck")) /\ UNCHANGED <<late, dev>>
  <2>1. "recheck" \in Points \ {"minted", "get", "put"}
    BY DEF Points
  <2> QED BY <1>1, <1>2, <2>1, MovedType, Writes
<1>3. ASSUME PutFailed(d, p), marker' = marker,
             late' \in {late, late \cup {[d |-> d, ses |-> proc[d][p].ses, key |-> proc[d][p].key]}}
      PROVE  RInv'
  <2>1. \E y \in DevType : y.secret = dev[d].secret /\ Throw(d, p, y)
    BY <1>3, Fields, UnknownType DEF PutFailed
  <2>2. \E y \in DevType : y.secret = dev[d].secret /\ Return(d, p, y)
    BY <2>1, CaughtType DEF Throw
  <2>3. KeepsSecrets /\ Goto(d, p, Idle)
    BY <1>1, <2>2, PutKeeps DEF Return, RInv
  <2>4. Held' = Held
    BY <2>3, SameHeld
  <2>5. /\ proc' \in [Devices -> [Procs -> CallType]] /\ proc'[d][p] = Idle
        /\ \A e \in Devices : \A q \in Procs : (e # d \/ q # p) => proc'[e][q] = proc[e][q]
    BY <2>3, NoneTypes DEF Goto, RInv, Typed
  <2>6. \A e \in Devices : \A q \in Procs : CallOK(proc'[e][q])
    BY <2>5, NoneTypes DEF CallOK, RInv
  <2>7. \A e \in Devices : \A q \in Procs : CallOK(proc[e][q])'
    BY <1>3, <2>4, <2>6 DEF CallOK
  <2>8. late' \subseteq [d : Devices, ses : Nat, key : SomeKey] /\ \A l \in late' : l.key \in Held
    BY <1>1, <1>3 DEF RInv, Typed
  <2>9. Typed'
    BY <1>1, <1>3, <2>3, <2>5, <2>8 DEF RInv, Typed, KeepsSecrets, CountedOK
  <2> QED BY <1>3, <2>4, <2>7, <2>8, <2>9 DEF RInv
<1> QED BY <1>2, <1>3 DEF PutMarker

LEMMA LatePutStep ==
    ASSUME RInv, NEW l \in late, LatePut(l)
    PROVE  RInv'
<1>1. /\ late' = late \ {l} /\ UNCHANGED <<gone, dev, used>> /\ CountedOK
      /\ l.key \in Held \cap SomeKey
  BY CountType DEF LatePut, RInv, Typed
<1>2. CASE Write(l.key, proc)
  BY <1>1, <1>2, Writes DEF RInv, Typed, CallOK
<1>3. CASE UNCHANGED <<marker, proc>>
  BY <1>1, <1>3 DEF RInv, Typed, Held, CallOK
<1> QED BY <1>2, <1>3 DEF LatePut

LEMMA RecheckStep ==
    ASSUME RInv, NEW d \in Devices, NEW p \in Procs, Recheck(d, p)
    PROVE  RInv'
<1>1. UNCHANGED <<marker, late, gone>> /\ CountedOK
  BY CountType DEF Recheck, server, RInv, Fine
<1>2. CASE Throw(d, p, dev[d]) \/ Throw(d, p, Unknown(dev[d], proc[d][p].key))
  BY <1>1, <1>2, Fields, UnknownType, Throws
<1>3. CASE Then(d, p, "confirm") /\ UNCHANGED dev
  BY <1>1, <1>3, SameKeeps, GoesOn DEF RInv, Points
<1> QED BY <1>2, <1>3 DEF Recheck

LEMMA ConfirmStep ==
    ASSUME RInv, NEW d \in Devices, NEW p \in Procs, Confirm(d, p)
    PROVE  RInv'
<1>1. UNCHANGED <<marker, late, gone, used>> /\ CountedOK
  BY CountType DEF Confirm, server, RInv
<1>2. Persist(dev[d], TRUE, "active") \in DevType /\ Persist(dev[d], TRUE, "active").secret = dev[d].secret
  BY Fields, PersistType
<1>3. KeepsSecrets
  BY <1>1, <1>2, PutKeeps DEF Confirm, RInv
<1> QED BY <1>1, <1>3, GoesOn DEF Confirm, Points

(* A confirmation ends its call and starts a drain.                         *)
LEMMA EnqueueStep ==
    ASSUME RInv, NEW d \in Devices, NEW p \in Procs, Enqueue(d, p)
    PROVE  RInv'
<1>1. UNCHANGED <<marker, late, gone, used>> /\ CountedOK
  BY CountType DEF Enqueue, server, RInv
<1> DEFINE t == [stage |-> "capability", key |-> proc[d][p].key, attempts |-> 0, due |-> TRUE]
           y == [dev[d] EXCEPT !.retry = t]
<1>2. t \in RetryType
  BY Fields DEF RetryType
<1> HIDE DEF t
<1>3. y \in DevType /\ y.secret = dev[d].secret
  BY <1>2, Fields DEF DevType
<1>4. Put(d, y)
  BY DEF Enqueue, t
<1> HIDE DEF y
<1>5. KeepsSecrets
  BY <1>1, <1>3, <1>4, PutKeeps DEF RInv
<1> DEFINE b == [Idle EXCEPT !.pc = "begin"]
           h == [q \in Procs |-> IF q = "drain" /\ (p = q \/ proc[d][q].pc = "idle") THEN b
                                ELSE IF q = p THEN Idle ELSE proc[d][q]]
<1>6. b \in CallType /\ CallOK(b)
  BY NoneTypes DEF CallType, Points, Idle, CallOK
<1>7. proc' = [proc EXCEPT ![d] = h]
  BY DEF Enqueue
<1> HIDE DEF b
<1>8. /\ proc' \in [Devices -> [Procs -> CallType]]
      /\ \A e \in Devices : \A q \in Procs : proc'[e][q] \in {Idle, b, proc[e][q]}
  <2>1. proc[d] \in [Procs -> CallType] /\ proc \in [Devices -> [Procs -> CallType]]
    BY DEF RInv, Typed
  <2>2. h \in [Procs -> CallType] /\ \A q \in Procs : h[q] \in {Idle, b, proc[d][q]}
    BY <2>1, <1>6, NoneTypes
  <2> HIDE DEF h
  <2> QED BY <2>1, <2>2, <1>7
<1>9. \A e \in Devices : \A q \in Procs : CallOK(proc'[e][q])
  BY <1>6, <1>8, NoneTypes DEF RInv, CallOK
<1>10. \A e \in Devices : \A q \in Procs : CallOK(proc[e][q])'
  BY <1>1, <1>5, <1>9, SameHeld DEF CallOK
<1>11. Typed'
  BY <1>1, <1>5, <1>8 DEF RInv, Typed, KeepsSecrets, CountedOK
<1> QED BY <1>1, <1>5, <1>10, <1>11, SameHeld DEF RInv

-----------------------------------------------------------------------------
(* The drain of a retry.                                                    *)
LEMMA BeginStep ==
    ASSUME RInv, NEW d \in Devices, NEW p \in Procs, Begin(d, p)
    PROVE  RInv'
<1>1. UNCHANGED <<marker, late, gone, used>> /\ CountedOK
  BY CountType DEF Begin, server, RInv
<1>2. CASE Return(d, p, dev[d]) \/ Return(d, p, Drop(dev[d]))
  BY <1>1, <1>2, Fields, DropType, Returns
<1>3. CASE Provision(d, p, "marker", dev[d].live) /\ UNCHANGED dev
  BY <1>1, <1>3, Fields, SameKeeps, Provisions DEF RInv, Ops
<1> DEFINE r == [Idle EXCEPT !.pc = "inspect", !.op = "capability",
                             !.ses = dev[d].live, !.key = dev[d].retry.key,
                             !.tries = dev[d].retry.attempts]
<1>4. CASE Goto(d, p, r) /\ UNCHANGED dev
  <2>1. r \in CallType /\ r.pc = "inspect" /\ r.at = None
    BY NoneTypes, Fields DEF CallType, Points, Ops, Idle
  <2> HIDE DEF r
  <2> QED BY <1>1, <1>4, <2>1, SameKeeps, Moves DEF RInv, CallOK
<1> QED BY <1>2, <1>3, <1>4 DEF Begin

LEMMA InspectStep ==
    ASSUME RInv, NEW d \in Devices, NEW p \in Procs, Inspect(d, p)
    PROVE  RInv'
<1>1. UNCHANGED <<marker, late, gone>> /\ CountedOK
  BY CountType DEF Inspect, server, RInv, Fine
<1>2. CASE Throw(d, p, dev[d]) \/ Return(d, p, dev[d])
  BY <1>1, <1>2, Fields, Throws, Returns
<1>3. CASE /\ Put(d, Retain(dev[d], proc[d][p].key, "marker", proc[d][p].tries))
           /\ Provision(d, p, "again", dev[d].live)
  <2>1. /\ Retain(dev[d], proc[d][p].key, "marker", proc[d][p].tries) \in DevType
        /\ Retain(dev[d], proc[d][p].key, "marker", proc[d][p].tries).secret = dev[d].secret
    BY Fields, RetainType
  <2>2. KeepsSecrets
    BY <1>1, <1>3, <2>1, PutKeeps DEF RInv
  <2> QED BY <1>1, <1>3, <2>2, Fields, Provisions DEF Ops
<1>4. CASE Then(d, p, "check") /\ UNCHANGED dev
  BY <1>1, <1>4, SameKeeps, GoesOn DEF RInv, Points
<1> QED BY <1>2, <1>3, <1>4 DEF Inspect

LEMMA CapabilitySteps ==
    ASSUME RInv, NEW d \in Devices, NEW p \in Procs,
           Check(d, p) \/ ReadCapability(d, p) \/ PutCapability(d, p) \/ Reread(d, p)
    PROVE  RInv'
<1>1. UNCHANGED <<marker, late, gone>> /\ CountedOK
  BY CountType DEF Check, ReadCapability, PutCapability, Reread, server, RInv, Fine
<1>2. CASE \/ Throw(d, p, dev[d]) \/ Return(d, p, dev[d]) \/ Return(d, p, Drop(dev[d]))
  BY <1>1, <1>2, Fields, DropType, Returns, Throws
<1>3. CASE UNCHANGED dev /\ \E pc \in {"read", "putcap", "reread"} : Then(d, p, pc)
  BY <1>1, <1>3, SameKeeps, GoesOn DEF RInv, Points
<1> QED BY <1>2, <1>3 DEF Check, ReadCapability, PutCapability, Reread, Terminal

-----------------------------------------------------------------------------
(* The role sync, the timer and the user.                                   *)
LEMMA UserSync == "user" \in Procs /\ "sync" \in Procs
BY DEF Procs

LEMMA StillCalls ==
    ASSUME RInv, KeepsSecrets, CountedOK, UNCHANGED <<marker, late, proc>>
    PROVE  RInv'
<1>1. Held' = Held
  BY SameHeld
<1> QED BY <1>1 DEF RInv, Typed, CallOK, KeepsSecrets, CountedOK

LEMMA DueStep ==
    ASSUME RInv, NEW d \in Devices, Due(d)
    PROVE  RInv'
<1> DEFINE t == [dev[d].retry EXCEPT !.due = TRUE]
           y == [dev[d] EXCEPT !.retry = t]
<1>1. dev[d] \in DevType /\ dev[d].retry \in RetryType
  BY DEF RInv, Typed, DevType
<1>2. t \in RetryType
  BY <1>1 DEF RetryType
<1>3. Put(d, y)
  BY DEF Due
<1> HIDE DEF t
<1>4. y \in DevType /\ y.secret = dev[d].secret
  BY <1>1, <1>2 DEF DevType
<1> HIDE DEF y
<1>5. UNCHANGED <<marker, late, gone, proc, used>> /\ CountedOK
  BY CountType DEF Due, server, RInv
<1> QED BY <1>3, <1>4, <1>5, PutKeeps, StillCalls DEF RInv

LEMMA SyncStep ==
    ASSUME RInv, NEW d \in Devices, Sync(d)
    PROVE  RInv'
<1> DEFINE r == [Idle EXCEPT !.pc = "role", !.key = dev[d].secret, !.row = dev[d].row]
<1>1. UNCHANGED <<marker, late, gone, dev, used>> /\ CountedOK
  BY CountType DEF Sync, server, RInv
<1>2. r \in CallType /\ r.pc = "role" /\ r.at = None
  BY NoneTypes, Fields, UserSync DEF CallType, Points, Idle
<1>3. Goto(d, "sync", r)
  BY DEF Sync
<1> HIDE DEF r
<1> QED BY <1>1, <1>2, <1>3, UserSync, SameKeeps, Moves DEF RInv, CallOK

LEMMA RoleStep ==
    ASSUME RInv, NEW d \in Devices, Role(d)
    PROVE  RInv'
<1> DEFINE y == [dev[d] EXCEPT !.role = "active", !.needs = TRUE]
           z(pub, role) == Persist(dev[d], pub, role)
<1>1. UNCHANGED <<marker, late, gone>> /\ CountedOK /\ "sync" \in Procs
  BY CountType, UserSync DEF Role, server, RInv, Fine
<1>2. dev[d] \in DevType /\ proc[d]["sync"].row.pub \in BOOLEAN
  BY <1>1, Fields DEF RowType
<1>3. y \in DevType /\ y.secret = dev[d].secret
  BY <1>2 DEF DevType
<1>4. \A pub \in BOOLEAN : \A role \in {"active", "standby"} :
         z(pub, role) \in DevType /\ z(pub, role).secret = dev[d].secret
  BY <1>2, PersistType
<1>5. CASE Return(d, "sync", dev[d]) \/ Return(d, "sync", y)
  BY <1>1, <1>2, <1>3, <1>5, Returns
<1>6. CASE \E mine \in BOOLEAN : Return(d, "sync", z(mine \/ proc[d]["sync"].row.pub,
                                                   IF mine THEN "active" ELSE "standby"))
  <2>1. PICK mine \in BOOLEAN : Return(d, "sync", z(mine \/ proc[d]["sync"].row.pub,
                                                   IF mine THEN "active" ELSE "standby"))
    BY <1>6
  <2> DEFINE pub == mine \/ proc[d]["sync"].row.pub
             role == IF mine THEN "active" ELSE "standby"
  <2>2. pub \in BOOLEAN /\ role \in {"active", "standby"}
    OBVIOUS
  <2>3. Return(d, "sync", z(pub, role))
    BY <2>1
  <2> HIDE DEF pub, role
  <2>4. z(pub, role) \in DevType /\ z(pub, role).secret = dev[d].secret
    BY <1>4, <2>2
  <2> HIDE DEF z
  <2> QED BY <1>1, <2>3, <2>4, Returns
<1>7. \/ Return(d, "sync", dev[d]) \/ Return(d, "sync", y)
      \/ \E mine \in BOOLEAN : Return(d, "sync", z(mine \/ proc[d]["sync"].row.pub,
                                                   IF mine THEN "active" ELSE "standby"))
  BY DEF Role
<1> QED BY <1>5, <1>6, <1>7

LEMMA AskedType ==
    ASSUME RInv, NEW d \in Devices, NEW what, Asked(d, what)
    PROVE  CountedOK
BY CountType DEF Asked, RInv

LEMMA EnableStep ==
    ASSUME RInv, NEW d \in Devices, Enable(d)
    PROVE  RInv'
<1> DEFINE ses == IF dev[d].live = 0 THEN used.user + 1 ELSE dev[d].live
           y == [dev[d] EXCEPT !.live = ses, !.stored = ses, !.open = @ \cup {ses}]
<1>1. /\ dev[d] \in DevType /\ dev[d].live \in Nat /\ dev[d].open \subseteq Nat
      /\ used.user \in Nat
  BY DEF RInv, Typed, DevType
<1>2. ses \in Nat
  BY <1>1
<1>3. /\ UNCHANGED <<marker, late, gone>> /\ CountedOK
      /\ Put(d, y) /\ Provision(d, "user", "enable", ses)
  BY AskedType DEF Enable, server
<1> HIDE DEF ses
<1>4. y \in DevType /\ y.secret = dev[d].secret
  BY <1>1, <1>2 DEF DevType
<1> HIDE DEF y
<1>5. KeepsSecrets
  BY <1>3, <1>4, PutKeeps DEF RInv
<1> QED BY <1>2, <1>3, <1>5, UserSync, Provisions DEF Ops

LEMMA HealStep ==
    ASSUME RInv, NEW d \in Devices, Heal(d)
    PROVE  RInv'
<1>1. UNCHANGED <<marker, late, gone, dev>> /\ CountedOK /\ Provision(d, "user", "heal", dev[d].live)
  BY AskedType DEF Heal, server
<1> QED BY <1>1, UserSync, Fields, SameKeeps, Provisions DEF RInv, Ops

LEMMA TakeoverStep ==
    ASSUME RInv, NEW d \in Devices, Takeover(d)
    PROVE  RInv'
<1> DEFINE r == [Idle EXCEPT !.pc = "put", !.op = "takeover", !.ses = dev[d].live, !.key = dev[d].secret]
<1>1. UNCHANGED <<marker, late, gone, dev>> /\ CountedOK /\ Goto(d, "user", r)
  BY AskedType DEF Takeover, server
<1>2. dev[d].live \in Nat /\ dev[d].secret \in SomeKey /\ dev[d].secret \in Held
  BY Fields, UserSync
<1>3. r \in CallType /\ r.pc = "put" /\ r.op = "takeover" /\ r.at = None /\ r.key = dev[d].secret
  BY <1>2, NoneTypes DEF CallType, Points, Ops, Idle
<1> HIDE DEF r
<1> QED BY <1>1, <1>2, <1>3, UserSync, SameKeeps, Moves DEF RInv, CallOK

LEMMA SignOutStep ==
    ASSUME RInv, NEW d \in Devices, SignOut(d)
    PROVE  RInv'
<1> DEFINE pc == IF dev[d].secret = None THEN "close" ELSE "ours"
           r == [Idle EXCEPT !.pc = pc, !.op = "signout", !.ses = dev[d].live, !.key = dev[d].secret]
           y == [dev[d] EXCEPT !.live = 0]
<1>1. UNCHANGED <<marker, late, gone>> /\ CountedOK /\ Goto(d, "user", r) /\ Put(d, y)
  BY AskedType DEF SignOut, server
<1>2. /\ dev[d] \in DevType /\ dev[d].secret \in SomeKey /\ dev[d].live \in Nat
      /\ pc \in {"close", "ours"}
  BY Fields, UserSync
<1>3. y \in DevType /\ y.secret = dev[d].secret
  BY <1>2 DEF DevType
<1> HIDE DEF pc, y
<1>4. r \in CallType /\ r.pc = pc /\ r.at = None
  BY <1>2, NoneTypes DEF CallType, Points, Ops, Idle
<1> HIDE DEF r
<1>5. CallOK(r) /\ KeepsSecrets
  BY <1>1, <1>2, <1>3, <1>4, PutKeeps DEF CallOK, RInv
<1> QED BY <1>1, <1>4, <1>5, UserSync, Moves

(* The wipe takes a secret away and remembers its key.                      *)
LEMMA LeaveSteps ==
    ASSUME RInv, NEW d \in Devices, Leave(d)
    PROVE  RInv'
<1>1. dev[d] \in DevType /\ "user" \in Procs /\ CountedOK
  BY CountType, UserSync DEF RInv, Typed, Leave, Ours, Remove, Close, Wipe, Fine
<1>2. CASE Ours(d)
  <2>1. \E pc \in {"close", "remove"} : Then(d, "user", pc)
    BY <1>2 DEF Ours
  <2>2. UNCHANGED <<marker, late, gone, dev>>
    BY <1>2 DEF Ours, server
  <2> QED BY <1>1, <2>1, <2>2, SameKeeps, GoesOn DEF RInv, Points
<1>3. CASE Remove(d)
  <2>1. UNCHANGED <<late, gone, dev>>
    BY <1>3 DEF Remove
  <2>2. CASE Write(None, Moved(d, "user", "close"))
    <3>1. None \in Held \cap SomeKey /\ "close" \in Points \ {"minted", "get", "put"}
      BY DEF Held, SomeKey, Points
    <3> QED BY <1>1, <2>1, <2>2, <3>1, MovedType, Writes
  <2>3. CASE Then(d, "user", "close") /\ UNCHANGED marker
    BY <1>1, <2>1, <2>3, SameKeeps, GoesOn DEF RInv, Points
  <2> QED BY <1>3, <2>2, <2>3 DEF Remove
<1>4. CASE Close(d)
  <2>0. PICK open \in SUBSET Nat :
           Put(d, [dev[d] EXCEPT !.open = open, !.row = NoRow, !.retry = NoRetry])
    <3>1. dev[d].open \in SUBSET Nat
      BY <1>1 DEF DevType
    <3> QED BY <1>4, <3>1 DEF Close
  <2> DEFINE y == [dev[d] EXCEPT !.open = open, !.row = NoRow, !.retry = NoRetry]
  <2>1. y \in DevType /\ y.secret = dev[d].secret
    BY <1>1, NoneTypes DEF DevType
  <2>2. Put(d, y) /\ Then(d, "user", "wipe") /\ UNCHANGED <<marker, late, gone>>
    BY <1>4, <2>0 DEF Close, server
  <2> HIDE DEF y
  <2>3. KeepsSecrets
    BY <2>1, <2>2, PutKeeps DEF RInv
  <2> QED BY <1>1, <2>2, <2>3, GoesOn DEF Points
<1>5. CASE Wipe(d)
  <2> DEFINE y == [dev[d] EXCEPT !.secret = None, !.stored = 0]
  <2>1. y \in DevType /\ y.secret = None
    BY <1>1 DEF DevType, SomeKey
  <2>2. /\ Put(d, y) /\ Goto(d, "user", Idle) /\ UNCHANGED <<marker, late>>
        /\ gone' = gone \cup ({dev[d].secret} \ {None})
    BY <1>5 DEF Wipe, Return, server
  <2> HIDE DEF y
  <2>3. /\ dev' \in [Devices -> DevType]
        /\ \A e \in Devices : e # d => dev'[e].secret = dev[e].secret
    BY <2>1, <2>2 DEF Put, RInv, Typed
  <2>4. Held \subseteq Held'
    BY <2>2, <2>3 DEF Held
  <2>5. /\ proc' \in [Devices -> [Procs -> CallType]] /\ proc'[d]["user"] = Idle
        /\ \A e \in Devices : \A q \in Procs : (e # d \/ q # "user") => proc'[e][q] = proc[e][q]
    BY <1>1, <2>2, NoneTypes DEF Goto, RInv, Typed
  <2>6. \A e \in Devices : \A q \in Procs : CallOK(proc'[e][q])
    BY <2>5, NoneTypes DEF CallOK, RInv
  <2>7. \A e \in Devices : \A q \in Procs : CallOK(proc[e][q])'
    BY <2>2, <2>4, <2>6 DEF CallOK
  <2>8. Typed'
    BY <1>1, <2>2, <2>3, <2>5 DEF RInv, Typed, CountedOK
  <2> QED BY <2>2, <2>4, <2>7, <2>8 DEF RInv
<1> QED BY <1>2, <1>3, <1>4, <1>5 DEF Leave

LEMMA ReloadStep ==
    ASSUME RInv, NEW d \in Devices, Reload(d)
    PROVE  RInv'
<1> DEFINE ses == IF dev[d].stored \in dev[d].open THEN dev[d].stored ELSE 0
           y == [dev[d] EXCEPT !.live = ses, !.role = "none", !.needs = FALSE]
<1>1. /\ UNCHANGED <<marker, late, gone>> /\ CountedOK /\ Put(d, y)
      /\ proc' = [proc EXCEPT ![d] = [p \in Procs |-> Idle]]
  BY CountType DEF Reload, server, RInv
<1>2. dev[d] \in DevType /\ ses \in Nat
  BY DEF RInv, Typed, DevType
<1> HIDE DEF ses
<1>3. y \in DevType /\ y.secret = dev[d].secret
  BY <1>2 DEF DevType
<1> HIDE DEF y
<1>4. KeepsSecrets
  BY <1>1, <1>3, PutKeeps DEF RInv
<1>5. /\ proc' \in [Devices -> [Procs -> CallType]]
      /\ \A e \in Devices : \A q \in Procs : proc'[e][q] \in {Idle, proc[e][q]}
  BY <1>1, NoneTypes DEF RInv, Typed
<1>6. \A e \in Devices : \A q \in Procs : CallOK(proc'[e][q])
  BY <1>5, NoneTypes DEF CallOK, RInv
<1>7. \A e \in Devices : \A q \in Procs : CallOK(proc[e][q])'
  BY <1>1, <1>4, <1>6, SameHeld DEF CallOK
<1>8. Typed'
  BY <1>1, <1>4, <1>5 DEF RInv, Typed, KeepsSecrets, CountedOK
<1> QED BY <1>1, <1>4, <1>7, <1>8, SameHeld DEF RInv

LEMMA RInvStep ==
    ASSUME RInv, [RxNext]_rxVars
    PROVE  RInv'
<1>1. ASSUME NEW d \in Devices, NEW p \in Procs, Step(d, p)
      PROVE  RInv'
  BY <1>1, KeyStep, MintStep, MintedStep, GetStep, PutStep, RecheckStep, ConfirmStep, EnqueueStep,
     BeginStep, InspectStep, CapabilitySteps DEF Step
<1>2. ASSUME NEW d \in Devices,
             Due(d) \/ Sync(d) \/ Role(d) \/ Leave(d)
             \/ Enable(d) \/ Heal(d) \/ Takeover(d) \/ SignOut(d) \/ Reload(d)
      PROVE  RInv'
  BY <1>2, DueStep, SyncStep, RoleStep, LeaveSteps, EnableStep, HealStep, TakeoverStep, SignOutStep,
     ReloadStep
<1>3. ASSUME NEW l \in late, LatePut(l)
      PROVE  RInv'
  BY <1>3, LatePutStep
<1>4. CASE UNCHANGED rxVars
  BY <1>4 DEF rxVars, RInv, Typed, Held, CallOK
<1> QED BY <1>1, <1>2, <1>3, <1>4 DEF RxNext

(* Every key that is published, or that a call or a late request may still   *)
(* publish, is one somebody has or had the secret of, and a call remembers   *)
(* no marker but the one that is up.                                        *)
THEOREM ReceiverInvariant == RxSpec => []RInv
BY InitInv, RInvStep, PTL DEF RxSpec

(* The published key has its secret, however enabling, healing, retries,     *)
(* takeovers, reloads, sign-outs and late PUTs of the devices interleave.    *)
THEOREM SecretIsKept == RxSpec => []SecretBehindMarker
<1>1. RInv => SecretBehindMarker
  BY DEF RInv, Held, SecretBehindMarker
<1> QED BY <1>1, ReceiverInvariant, PTL

(* No call but a takeover replaces a marker that was up when it began.       *)
THEOREM TakeoverAlone == RxSpec => OnlyTakeoverReplaces
<1> DEFINE A == \A d \in Devices, p \in Procs :
                   marker # None /\ PutMarker(d, p) /\ marker' # marker /\ proc[d][p].op # "takeover"
                   => marker # proc[d][p].at
<1>1. RInv => A
  BY DEF RInv, CallOK, PutMarker
<1> QED BY <1>1, ReceiverInvariant, PTL DEF RxSpec, OnlyTakeoverReplaces
=============================================================================
