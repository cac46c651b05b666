------------------------------- MODULE Receiver -------------------------------
(***************************************************************************)
(* The receiver of an identity that is signed in on several devices        *)
(* (provisionReceiver.ts, chatKindsAdvertisement.ts, signOut of            *)
(* session.ts).                                                            *)
(*                                                                         *)
(* A device keeps a noise secret, one row and at most one retry.  The      *)
(* homeserver keeps ONE marker, the key peers answer to, and a capability  *)
(* document per key.  A step is what runs between two awaits of a request  *)
(* or of the key store.  The user's calls, the retry pass, the drain that  *)
(* a confirmation starts and the role sync of a device interleave freely.  *)
(***************************************************************************)
EXTENDS Naturals, FiniteSets

CONSTANTS
    Devices,      \* the devices of the identity
    First,        \* the device that may be receiving when a run begins
    Asks,         \* what a user may ask for, see AskNames
    Drains,       \* the retry drains of a device, see DrainNames
    None,         \* no key
    MaxAttempts,  \* MAX_ATTEMPTS of RetryQueue.ts
    MaxKey, MaxUser, MaxFault  \* the bounds of a run

AskNames == {"enable", "heal", "takeover", "signout"}
DrainNames == {"pass", "drain"} \* the pass of the timer, the drain of a confirmation

ASSUME ReceiverAssumption == 
    /\ First \in Devices /\ Asks \subseteq AskNames /\ Drains \subseteq DrainNames
    /\ MaxAttempts \in Nat \ {0} /\ MaxUser \in Nat

VARIABLES
    marker,  \* the published noise key
    caps,    \* the keys with a capability document
    late,    \* marker PUTs still running after their budget
    gone,    \* history: the keys that sign-outs wiped
    dev,     \* what a device stores, its session and its banner
    proc,    \* the calls under way on each device
    used     \* what the bounds have counted

rxVars == <<marker, caps, late, gone, dev, proc, used>>
server == <<marker, caps, late>>

Keys == 1 .. MaxKey
Procs == {"user", "sync"} \cup Drains
NoRow == [role |-> "none", pub |-> FALSE]
NoRetry == [stage |-> "none", key |-> None, attempts |-> 0, due |-> FALSE]
Idle ==
    [pc |-> "idle", op |-> "none", ses |-> 0, at |-> None, key |-> None, row |-> NoRow, tries |-> 0]

-------------------------------------------------------------------------------
(* The rows of a device                                                      *)

(* persistReceiverRow: the row, and the role the banner shows.               *)
Persist(x, pub, role) ==
    [x EXCEPT !.row = [role |-> role, pub |-> pub], !.role = role, !.needs = FALSE]

Retain(x, key, stage, attempts) ==
    [x EXCEPT !.retry = [stage |-> stage, key |-> key, attempts |-> attempts + 1, due |-> FALSE]]

Drop(x) == [x EXCEPT !.retry = NoRetry]

(* A publish whose outcome is not known leaves a row and a retry.            *)
Unknown(x, key) == Retain(Persist(x, FALSE, "active"), key, "marker", x.retry.attempts)

(* The catch of a drain retains the retry it finds by then, if a session of  *)
(* the same pubky is live by then: the same identity signed in again passes. *)
Caught(x) ==
    IF x.live # 0 /\ x.retry # NoRetry
    THEN Retain(x, x.retry.key, x.retry.stage, x.retry.attempts) ELSE x

NewDevice ==
    [live |-> 0, stored |-> 0, open |-> {}, secret |-> None, row |-> NoRow,
     retry |-> NoRetry, role |-> "none", needs |-> FALSE]

Enabled(key, pub) ==
    LET role == IF key = pub THEN "active" ELSE "standby"
        ses == MaxUser + 1
    IN [live |-> ses, stored |-> ses, open |-> {ses}, secret |-> key,
        row |-> [role |-> role, pub |-> key = pub],
        retry |-> NoRetry, role |-> role, needs |-> FALSE]

(* One device receives and the others are new or were enabled after it; or   *)
(* its first publish has failed and the others are new.                      *)
RxInit ==
    /\ \/ \E standby \in BOOLEAN :
             /\ dev = [d \in Devices |-> IF d = First THEN Enabled(1, 1)
                                         ELSE IF standby THEN Enabled(2, 1) ELSE NewDevice]
             /\ marker = 1 /\ used = [key |-> 2, user |-> 0, fault |-> 0]
       \/ /\ dev = [d \in Devices |-> IF d = First THEN Unknown(Enabled(1, 1), 1) ELSE NewDevice]
          /\ marker = None /\ used = [key |-> 1, user |-> 1, fault |-> 0]
    /\ caps = Keys \cap {marker}
    /\ late = {} /\ gone = {}
    /\ proc = [d \in Devices |-> [p \in Procs |-> Idle]]

-------------------------------------------------------------------------------
(* The steps of a call                                                       *)

Put(d, x) == dev' = [dev EXCEPT ![d] = x]
Goto(d, p, r) == proc' = [proc EXCEPT ![d][p] = r]
Then(d, p, pc) == Goto(d, p, [proc[d][p] EXCEPT !.pc = pc])
Return(d, p, x) == Put(d, x) /\ Goto(d, p, Idle)
Throw(d, p, x) ==
    Return(d, p, IF p \in Drains THEN Caught(x) ELSE x)

Count(what, max) == used[what] < max /\ used' = [used EXCEPT ![what] = @ + 1]
Fault == Count("fault", MaxFault)
Fine == UNCHANGED used

(* A session whose sign-out reached the homeserver writes nothing.           *)
Accepted(d, ses) == ses \in dev[d].open

(* The field at is history: the marker that was up when the call began, as   *)
(* long as nobody wrote it.                                                  *)
Written(ps) == [d \in Devices |-> [p \in Procs |-> [ps[d][p] EXCEPT !.at = None]]]
Write(key, ps) == marker' = key /\ proc' = Written(ps)
Moved(d, p, pc) == [proc EXCEPT ![d][p].pc = pc]

Provision(d, p, op, ses) ==
    Goto(d, p, [Idle EXCEPT !.pc = "key", !.op = op, !.ses = ses, !.at = marker])

(* Mutant: a receiver whose publish is not confirmed gets a fresh secret.    *)
KeyRotates(d, p) ==
    /\ proc[d][p].pc = "key"
    /\ IF dev[d].secret # None /\ dev[d].row.pub
       THEN /\ UNCHANGED dev
            /\ Goto(d, p, [proc[d][p] EXCEPT !.pc = "get", !.key = dev[d].secret])
       ELSE /\ Put(d, [dev[d] EXCEPT !.row = NoRow, !.secret = None])
            /\ Then(d, p, "mint")
    /\ UNCHANGED <<server, gone, used>>

(* provisionReceiver: the stored secret is used again; a row without its     *)
(* secret goes.                                                              *)
Key(d, p) ==
    /\ proc[d][p].pc = "key"
    /\ IF dev[d].secret # None
       THEN /\ UNCHANGED dev
            /\ Goto(d, p, [proc[d][p] EXCEPT !.pc = "get", !.key = dev[d].secret])
       ELSE /\ Put(d, [dev[d] EXCEPT !.row = NoRow])
            /\ Then(d, p, "mint")
    /\ UNCHANGED <<server, gone, used>>

(* mintReceiver puts the secret first, the row after the put.                *)
Mint(d, p) ==
    /\ proc[d][p].pc = "mint"
    /\ \/ /\ dev[d].secret # None
          /\ Throw(d, p, dev[d])
          /\ Fine
       \/ /\ dev[d].secret = None
          /\ Count("key", MaxKey)
          /\ Put(d, [dev[d] EXCEPT !.secret = used.key + 1])
          /\ Goto(d, p, [proc[d][p] EXCEPT !.pc = "minted", !.key = used.key + 1])
    /\ UNCHANGED <<server, gone>>

Minted(d, p) ==
    /\ proc[d][p].pc = "minted"
    /\ Put(d, [dev[d] EXCEPT !.row = [role |-> "active", pub |-> FALSE]])
    /\ Then(d, p, "get")
    /\ UNCHANGED <<server, gone, used>>

(* Mutant: a GET that fails counts as absence.                               *)
GetAbsent(d, p) ==
    LET x == dev[d]  r == proc[d][p] IN
    /\ r.pc = "get"
    /\ \/ /\ Fault
          /\ Then(d, p, "put") /\ UNCHANGED dev
       \/ /\ Fine
          /\ marker \in {None, r.key}
          /\ Then(d, p, IF marker = None THEN "put" ELSE "confirm") /\ UNCHANGED dev
       \/ /\ Fine
          /\ marker \notin {None, r.key}
          /\ Return(d, p, Drop(Persist(x, FALSE, "standby")))
    /\ UNCHANGED <<server, gone>>

(* GET first: a foreign marker makes this device a standby, a failed GET is  *)
(* not absence.  Only the drain of a marker retry drops it on standby.       *)
Get(d, p) ==
    LET x == dev[d]  r == proc[d][p] IN
    /\ r.pc = "get"
    /\ \/ /\ Fault
          /\ Throw(d, p, Unknown(x, r.key))
       \/ /\ Fine
          /\ marker = None
          /\ Then(d, p, "put") /\ UNCHANGED dev
       \/ /\ Fine
          /\ marker = r.key
          /\ Then(d, p, "confirm") /\ UNCHANGED dev
       \/ /\ Fine
          /\ marker \notin {None, r.key}
          /\ LET y == Persist(x, FALSE, "standby")
             IN Return(d, p, IF r.op = "marker" THEN Drop(y) ELSE y)
    /\ UNCHANGED <<server, gone>>

(* publishOwnMarker: the budget ends the wait, not the request.  A takeover  *)
(* that fails here stores nothing.                                           *)
PutFailed(d, p) ==
    LET r == proc[d][p]
    IN Throw(d, p, IF r.op = "takeover" THEN dev[d] ELSE Unknown(dev[d], r.key))

PutMarker(d, p) ==
    LET r == proc[d][p] IN
    /\ r.pc = "put"
    /\ \/ /\ Accepted(d, r.ses)
          /\ Write(r.key, Moved(d, p, "recheck"))
          /\ UNCHANGED <<late, dev, used>>
       \/ /\ ~Accepted(d, r.ses)
          /\ PutFailed(d, p)
          /\ UNCHANGED <<marker, late, used>>
       \/ /\ Fault
          /\ PutFailed(d, p)
          /\ late' \in {late, late \cup {[d |-> d, ses |-> r.ses, key |-> r.key]}}
          /\ UNCHANGED marker
    /\ UNCHANGED <<caps, gone>>

LatePut(l) ==
    /\ l \in late
    /\ late' = late \ {l}
    /\ IF Accepted(l.d, l.ses) THEN Write(l.key, proc) ELSE UNCHANGED <<marker, proc>>
    /\ UNCHANGED <<caps, gone, dev, used>>

(* A GET that fails here throws and stores nothing.                          *)
Recheck(d, p) ==
    LET r == proc[d][p] IN
    /\ r.pc = "recheck"
    /\ \/ /\ Fault
          /\ Throw(d, p, dev[d])
       \/ /\ Fine
          /\ marker # r.key
          /\ Throw(d, p, Unknown(dev[d], r.key))
       \/ /\ Fine
          /\ marker = r.key
          /\ Then(d, p, "confirm") /\ UNCHANGED dev
    /\ UNCHANGED <<server, gone>>

(* confirmActiveReceiver: the row is flushed before the retry is enqueued.   *)
Confirm(d, p) ==
    LET r == proc[d][p] IN
    /\ r.pc = "confirm"
    /\ Put(d, Persist(dev[d], TRUE, "active"))
    /\ Then(d, p, "enqueue")
    /\ UNCHANGED <<server, gone, used>>

Enqueue(d, p) ==
    /\ proc[d][p].pc = "enqueue"
    /\ Put(d, [dev[d] EXCEPT !.retry = [stage |-> "capability", key |-> proc[d][p].key,
                                        attempts |-> 0, due |-> TRUE]])
    /\ proc' = [proc EXCEPT ![d] = [q \in Procs |->
          IF q = "drain" /\ (p = q \/ proc[d][q].pc = "idle") THEN [Idle EXCEPT !.pc = "begin"]
          ELSE IF q = p THEN Idle ELSE proc[d][q]]]
    /\ UNCHANGED <<server, gone, used>>

-------------------------------------------------------------------------------
(* drainReceiverPublishRetry, by the pass or after a confirmation            *)

Begin(d, p) ==
    LET x == dev[d] IN
    /\ IF p = "pass" THEN proc[d][p].pc = "idle" /\ x.live # 0 /\ x.retry.due
                     ELSE p = "drain" /\ proc[d][p].pc = "begin"
    /\ \/ /\ x.live = 0 \/ ~x.retry.due
          /\ Return(d, p, x)
       \/ /\ x.live # 0 /\ x.retry.due
          /\ x.retry.attempts >= MaxAttempts
          /\ Return(d, p, Drop(x))
       \/ /\ x.live # 0 /\ x.retry.due
          /\ x.retry.attempts < MaxAttempts
          /\ IF x.retry.stage = "marker"
             THEN Provision(d, p, "marker", x.live)
             ELSE Goto(d, p, [Idle EXCEPT !.pc = "inspect", !.op = "capability",
                                          !.ses = x.live, !.key = x.retry.key,
                                          !.tries = x.retry.attempts])
          /\ UNCHANGED dev
    /\ UNCHANGED <<server, gone, used>>

Due(d) ==
    /\ dev[d].retry # NoRetry /\ ~dev[d].retry.due
    /\ Put(d, [dev[d] EXCEPT !.retry.due = TRUE])
    /\ UNCHANGED <<server, gone, proc, used>>

(* The marker is gone and the row never had it published: publish it again,  *)
(* in the session that is live by now.                                       *)
Inspect(d, p) ==
    LET x == dev[d]  r == proc[d][p]
        unpublished == marker = None /\ x.row # NoRow /\ ~x.row.pub
    IN
    /\ r.pc = "inspect"
    /\ \/ /\ Fault
          /\ Throw(d, p, x)
       \/ /\ Fine
          /\ unpublished /\ x.live = 0
          /\ Return(d, p, x)
       \/ /\ Fine
          /\ unpublished /\ x.live # 0
          /\ Put(d, Retain(x, r.key, "marker", r.tries))
          /\ Provision(d, p, "again", x.live)
       \/ /\ Fine
          /\ ~unpublished
          /\ Then(d, p, "check") /\ UNCHANGED dev
    /\ UNCHANGED <<server, gone>>

(* A terminal failure drops the retry it finds, if a session is live.        *)
Terminal(d, p) == Return(d, p, IF dev[d].live # 0 THEN Drop(dev[d]) ELSE dev[d])

(* ensureChatKindsVReceiverJson: only the key that is published gets one.    *)
Check(d, p) ==
    LET r == proc[d][p] IN
    /\ r.pc = "check"
    /\ \/ /\ Fault
          /\ Throw(d, p, dev[d])
       \/ /\ Fine
          /\ marker # r.key
          /\ Terminal(d, p)
       \/ /\ Fine
          /\ marker = r.key
          /\ Then(d, p, "read") /\ UNCHANGED dev
    /\ UNCHANGED <<server, gone>>

ReadCapability(d, p) ==
    LET r == proc[d][p] IN
    /\ r.pc = "read"
    /\ \/ /\ Fault
          /\ Throw(d, p, dev[d])
       \/ /\ Fine
          /\ r.key \in caps
          /\ Return(d, p, Drop(dev[d]))
       \/ /\ Fine
          /\ r.key \notin caps
          /\ Then(d, p, "putcap") /\ UNCHANGED dev
    /\ UNCHANGED <<server, gone>>

PutCapability(d, p) ==
    LET r == proc[d][p] IN
    /\ r.pc = "putcap"
    /\ \/ /\ Accepted(d, r.ses)
          /\ caps' = caps \cup {r.key}
          /\ Then(d, p, "reread")
          /\ UNCHANGED <<dev, used>>
       \/ /\ ~Accepted(d, r.ses)
          /\ Throw(d, p, dev[d])
          /\ UNCHANGED <<caps, used>>
       \/ /\ Fault
          /\ Throw(d, p, dev[d])
          /\ caps' \in {caps, caps \cup {r.key}}
    /\ UNCHANGED <<marker, late, gone>>

Reread(d, p) ==
    LET r == proc[d][p] IN
    /\ r.pc = "reread"
    /\ \/ /\ Fault
          /\ Throw(d, p, dev[d])
       \/ /\ Fine
          /\ marker # r.key
          /\ Terminal(d, p)
       \/ /\ Fine
          /\ marker = r.key
          /\ Return(d, p, Drop(dev[d]))
    /\ UNCHANGED <<server, gone>>

-------------------------------------------------------------------------------
(* syncOwnReceiverRole writes with the row it read before its GET            *)

Sync(d) ==
    LET x == dev[d] IN
    /\ proc[d]["sync"].pc = "idle"
    /\ x.live # 0 /\ x.row # NoRow /\ x.secret # None
    /\ Goto(d, "sync", [Idle EXCEPT !.pc = "role", !.key = x.secret, !.row = x.row])
    /\ UNCHANGED <<server, gone, dev, used>>

(* Mutant: the sync believes a foreign marker only after a publish of its    *)
(* own was refused.                                                          *)
RoleBelieves(d) ==
    LET x == dev[d]  r == proc[d]["sync"] IN
    /\ r.pc = "role"
    /\ \/ Fault /\ Return(d, "sync", x)
       \/ Fine /\ Return(d, "sync",
             IF marker = None /\ r.row.role = "active"
             THEN [x EXCEPT !.role = "active", !.needs = TRUE]
             ELSE IF marker = r.key THEN Persist(x, TRUE, "active") ELSE x)
    /\ UNCHANGED <<server, gone>>

Role(d) ==
    LET x == dev[d]  r == proc[d]["sync"]  mine == marker = r.key IN
    /\ r.pc = "role"
    /\ \/ /\ Fault
          /\ Return(d, "sync", x)
       \/ /\ Fine
          /\ marker = None
          /\ Return(d, "sync", IF r.row.role = "active"
                               THEN [x EXCEPT !.role = "active", !.needs = TRUE] ELSE x)
       \/ /\ Fine
          /\ marker # None
          /\ Return(d, "sync", Persist(x, mine \/ r.row.pub,
                                       IF mine THEN "active" ELSE "standby"))
    /\ UNCHANGED <<server, gone>>

-------------------------------------------------------------------------------
(* What the user asks for                                                    *)

Asked(d, what) == what \in Asks /\ proc[d]["user"].pc = "idle" /\ Count("user", MaxUser)

(* A grant is adopted, or a live one used again, and a receiver provisioned. *)
Enable(d) ==
    LET ses == IF dev[d].live = 0 THEN used.user + 1 ELSE dev[d].live IN
    /\ Asked(d, "enable")
    /\ Put(d, [dev[d] EXCEPT !.live = ses, !.stored = ses, !.open = @ \cup {ses}])
    /\ Provision(d, "user", "enable", ses)
    /\ UNCHANGED <<server, gone>>

(* healMissingReceiverRow                                                    *)
Heal(d) ==
    /\ Asked(d, "heal")
    /\ dev[d].live # 0 /\ dev[d].row = NoRow /\ dev[d].secret # None
    /\ Provision(d, "user", "heal", dev[d].live)
    /\ UNCHANGED <<server, gone, dev>>

Takeover(d) ==
    /\ Asked(d, "takeover")
    /\ dev[d].live # 0 /\ dev[d].secret # None
    /\ Goto(d, "user", [Idle EXCEPT !.pc = "put", !.op = "takeover",
                                    !.ses = dev[d].live, !.key = dev[d].secret])
    /\ UNCHANGED <<server, gone, dev>>

(* signOut: the marker goes only when it is this device's own.               *)
SignOut(d) ==
    /\ Asked(d, "signout")
    /\ dev[d].live # 0
    /\ Put(d, [dev[d] EXCEPT !.live = 0])
    /\ Goto(d, "user", [Idle EXCEPT !.pc = IF dev[d].secret = None THEN "close" ELSE "ours",
                                    !.op = "signout", !.ses = dev[d].live,
                                    !.key = dev[d].secret])
    /\ UNCHANGED <<server, gone>>

Ours(d) ==
    LET r == proc[d]["user"] IN
    /\ r.pc = "ours"
    /\ \/ Fault /\ Then(d, "user", "close")
       \/ Fine /\ Then(d, "user", IF marker = r.key THEN "remove" ELSE "close")
    /\ UNCHANGED <<server, gone, dev>>

Remove(d) ==
    /\ proc[d]["user"].pc = "remove"
    /\ \/ Fine /\ Write(None, Moved(d, "user", "close"))
       \/ Fault /\ Then(d, "user", "close") /\ UNCHANGED marker
    /\ UNCHANGED <<caps, late, gone, dev>>

(* The homeserver ends the session, or cannot be reached and keeps it open:  *)
(* the sign-out goes on either way, and the rows of the account go.          *)
Close(d) ==
    LET x == dev[d]
        closed(open) == [x EXCEPT !.open = open, !.row = NoRow, !.retry = NoRetry]
    IN
    /\ proc[d]["user"].pc = "close"
    /\ \/ Fine /\ Put(d, closed(x.open \ {proc[d]["user"].ses}))
       \/ Fault /\ Put(d, closed(x.open))
    /\ Then(d, "user", "wipe")
    /\ UNCHANGED <<server, gone>>

Wipe(d) ==
    /\ proc[d]["user"].pc = "wipe"
    /\ Return(d, "user", [dev[d] EXCEPT !.secret = None, !.stored = 0])
    /\ gone' = gone \cup ({dev[d].secret} \ {None})
    /\ UNCHANGED <<server, used>>

(* The page is loaded again; a sign-out it cut short is forgotten as long as *)
(* the session of the stored record still answers.                           *)
Reload(d) ==
    /\ Fault
    /\ \E p \in Procs : proc[d][p].pc # "idle"
    /\ Put(d, [dev[d] EXCEPT !.live = IF dev[d].stored \in dev[d].open THEN dev[d].stored ELSE 0,
                              !.role = "none", !.needs = FALSE])
    /\ proc' = [proc EXCEPT ![d] = [p \in Procs |-> Idle]]
    /\ UNCHANGED <<server, gone>>

-------------------------------------------------------------------------------

Step(d, p) ==
    \/ Key(d, p) \/ Mint(d, p) \/ Minted(d, p) \/ Get(d, p) \/ PutMarker(d, p)
    \/ Recheck(d, p) \/ Confirm(d, p) \/ Enqueue(d, p)
    \/ Begin(d, p) \/ Inspect(d, p) \/ Check(d, p) \/ ReadCapability(d, p)
    \/ PutCapability(d, p) \/ Reread(d, p)

Leave(d) == Ours(d) \/ Remove(d) \/ Close(d) \/ Wipe(d)

RxNext ==
    \/ \E d \in Devices :
          \/ \E p \in Procs : Step(d, p)
          \/ Due(d) \/ Sync(d) \/ Role(d) \/ Leave(d)
          \/ Enable(d) \/ Heal(d) \/ Takeover(d) \/ SignOut(d) \/ Reload(d)
    \/ \E l \in late : LatePut(l)

(* The timers of the retry pass and of the inbox sync keep firing, and every *)
(* request is answered or runs out of its budget.                            *)
RxFairness ==
    \A d \in Devices :
        /\ \A p \in Drains : WF_rxVars(Step(d, p))
        /\ WF_rxVars(Due(d))
        /\ WF_rxVars(Sync(d) \/ Role(d))
        /\ WF_rxVars(Step(d, "user") \/ Leave(d))

RxSpec == RxInit /\ [][RxNext]_rxVars /\ RxFairness

-------------------------------------------------------------------------------
(* Properties                                                                *)

RxTypeOK ==
    /\ {marker} \cup {dev[d].secret : d \in Devices} \subseteq Keys \cup {None}
    /\ caps \cup gone \subseteq Keys
    /\ \A l \in late : l.d \in Devices /\ l.key \in Keys
    /\ \A d \in Devices :
          /\ dev[d].row.role \in {"none", "active", "standby"}
          /\ dev[d].retry.stage \in {"none", "marker", "capability"}
          /\ dev[d].live \in {0, dev[d].stored} /\ dev[d].open \subseteq Nat
          /\ dev[d].retry.attempts <= MaxAttempts + 2 * Cardinality(Procs)

(* The published key has its secret: some device holds it, or it was wiped   *)
(* by a sign-out.  A secret is never minted over one that may be published   *)
(* (provisionReceiver.ts:74, :226).                                          *)
SecretBehindMarker ==
    marker # None => marker \in gone \cup {dev[d].secret : d \in Devices}

(* Only a takeover replaces a marker that was up, and stayed up, since       *)
(* before the call began: enabling, healing and every retry leave the other  *)
(* device its inbox (provisionReceiver.ts:205, "Fetch failure is not         *)
(* absence").                                                                *)
OnlyTakeoverReplaces ==
    [][\A d \in Devices, p \in Procs :
          marker # None /\ PutMarker(d, p) /\ marker' # marker /\ proc[d][p].op # "takeover"
          => marker # proc[d][p].at]_rxVars

(* Once users stop asking and the network answers, every signed-in device    *)
(* shows the role the marker gives it, or offers to publish it again,        *)
(* whatever stale syncs, late PUTs and races came before.                    *)
RoleIsTrue(d) ==
    dev[d].live # 0 /\ dev[d].row # NoRow /\ dev[d].secret # None =>
        IF marker = None
        THEN dev[d].role = "active" => dev[d].needs
        ELSE {dev[d].role, dev[d].row.role} =
             {IF marker = dev[d].secret THEN "active" ELSE "standby"}

RolesSettle == <>[](\A d \in Devices : RoleIsTrue(d))

(* No retry runs for ever: it succeeds, is dropped as terminal, or runs out  *)
(* of attempts (provisionReceiver.ts:405).                                   *)
RetriesEnd == \A d \in Devices : []<>(dev[d].retry = NoRetry \/ dev[d].live = 0)

===============================================================================
