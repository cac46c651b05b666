-------------------------------- MODULE TabLock --------------------------------
(***************************************************************************)
(* The election of the writer among the tabs of one owner (tabLock.ts).    *)
(* The writer holds an exclusive Web Lock inside a callback that waits for *)
(* its AbortController; a tab that wants the role asks the writer to yield *)
(* over a BroadcastChannel, retries, and at last asks to steal the lock.   *)
(* A tab that yields flushes its database before it releases the lock.     *)
(*                                                                         *)
(* The Web Lock manager and the channels are external: requests are        *)
(* answered in any order, messages arrive late or are rate-limited away, a *)
(* steal is granted or refused, and a robbed tab is told late or never.    *)
(***************************************************************************)
EXTENDS Integers, SequencesExt

CONSTANTS
    Tabs,          \* the tabs of one owner
    Slots,         \* the takeovers one tab can run at once
    Faults,        \* what the environment may do, see FaultNames
    MaxTries,      \* attempts of the retry loop (8 in the code)
    MaxTakeovers,  \* bound: takeovers started
    MaxDepth,      \* bound: nested critical sections
    MaxBoots       \* bound: how often a tab is opened

None == "none"

FaultNames ==
    {"steal",     \* the browser grants a steal
     "hide",      \* a tab is hidden
     "section",   \* critical sections run
     "gone"}      \* a tab is closed

ASSUME TabsAssumption ==
    /\ None \notin Tabs /\ "held" \notin Slots /\ None \notin Slots
    /\ Slots # {}
    /\ Faults \subseteq FaultNames

ASSUME LimitsAssumption ==
    /\ MaxTries \in Nat \ {0}
    /\ {MaxTakeovers, MaxDepth, MaxBoots} \subseteq Nat

VARIABLES
    tab,        \* the module state of tabLock.ts in each tab
    owner,      \* the tab whose callback holds the Web Lock
    msgs,       \* broadcast messages not yet delivered
    takeovers,  \* how many takeovers started
    boots       \* how often each tab was opened

lockVars == <<tab, owner, msgs, takeovers, boots>>

(* What a tab awaits in initTabLock and runTakeover.                        *)
Phases == {"idle", "boot", "first", "wait", "retry", "steal", "refused", "settle"}

(* flushThenReadonly running in the callback that holds the lock, in one    *)
(* whose lock was stolen, or in the catch of a request.                     *)
Flushes == {"own", "zombie", "rejected", "refused"}

Closed ==
    [up |-> FALSE, mode |-> "readonly", yielding |-> FALSE,
     taking |-> FALSE,            \* takeoverInProgress
     pend |-> FALSE,              \* takeoverRefreshPending
     refresh |-> FALSE,           \* writerRefresh runs
     surface |-> TRUE,            \* writerSurfaceReady
     ph |-> [s \in Slots |-> "idle"], tries |-> [s \in Slots |-> 0],
     asks |-> <<>>,               \* requests not yet answered, in order
     cur |-> None,                \* whose controller currentAbort is
     psteal |-> None,             \* whose controller pendingStealAbort is
     aborted |-> {},              \* requests in flight whose signal is aborted
     flush |-> {},                \* the flushes that run
     rej |-> FALSE,               \* the rejection of a stolen lock is on its way
     depth |-> 0, deferred |-> FALSE,
     sections |-> 0]              \* callers inside a critical section

TabType ==
    [up : BOOLEAN, mode : {"writer", "readonly"}, yielding : BOOLEAN, taking : BOOLEAN,
     pend : BOOLEAN, refresh : BOOLEAN, surface : BOOLEAN,
     ph : [Slots -> Phases], tries : [Slots -> 0 .. MaxTries],
     asks : Seq(Slots),
     cur : Slots \cup {None, "held"}, psteal : Slots \cup {None}, aborted : SUBSET Slots,
     flush : SUBSET Flushes, rej : BOOLEAN,
     depth : 0 .. MaxDepth, deferred : BOOLEAN, sections : 0 .. MaxDepth]

Broadcast(t, kind) == {<<u, kind>> : u \in {v \in Tabs \ {t} : tab[v].up}}

-----------------------------------------------------------------------------
(* The synchronous functions of tabLock.ts, on the state of one tab.        *)
IsWriter(r) == r.mode = "writer" /\ ~r.yielding

(* emit, with the subscriber of db/index.ts: a writer that is not in the     *)
(* middle of a takeover seals and refreshes its database once.               *)
Emit(r) ==
    IF r.mode = "writer" /\ ~r.taking /\ r.pend
    THEN [r EXCEPT !.pend = FALSE, !.refresh = TRUE] ELSE r

BeginYielding(r) ==
    IF r.mode = "writer" THEN Emit([r EXCEPT !.yielding = TRUE]) ELSE r

StartFlush(r, k) == BeginYielding([r EXCEPT !.flush = @ \cup {k}])

(* currentAbort?.abort(): the callback that waits in holdUntil starts to     *)
(* flush; a request in flight will flush as soon as it is granted.           *)
Abort(r, owns) ==
    IF r.cur = "held"
    THEN StartFlush([r EXCEPT !.cur = None], IF owns THEN "own" ELSE "zombie")
    ELSE IF r.cur \in Slots THEN [r EXCEPT !.aborted = @ \cup {r.cur}]
    ELSE r

AbortPendingSteal(r) ==
    [r EXCEPT !.aborted = @ \cup ({r.psteal} \ {None}), !.psteal = None]

(* mutant: the critical section does not defer the yield.                   *)
RequestAbortNow(r, owns) == Abort(BeginYielding(r), owns)

(* requestWriterAbort                                                        *)
RequestAbort(r, owns) ==
    IF r.depth > 0 THEN [r EXCEPT !.deferred = TRUE]
    ELSE Abort(BeginYielding(r), owns)

(* The caller leaves a critical section, or its timer fires.                 *)
LeaveAt(r, d, owns) ==
    IF d > 0 \/ ~r.deferred THEN [r EXCEPT !.depth = d]
    ELSE RequestAbort([r EXCEPT !.depth = 0, !.deferred = FALSE], owns)

(* tryAcquire({ifAvailable}): a new controller, a new request.               *)
TryAcquire(r, s, owns, p) ==
    [Abort(r, owns) EXCEPT !.cur = s, !.asks = Append(@, s), !.aborted = @ \ {s}, !.ph[s] = p]

(* runTakeover after the request to steal was answered.                      *)
AfterSteal(r, s) ==
    IF IsWriter(r) THEN [r EXCEPT !.ph[s] = "settle"]
    ELSE Emit([AbortPendingSteal(r) EXCEPT !.surface = TRUE, !.taking = FALSE, !.ph[s] = "idle"])

-----------------------------------------------------------------------------
LockInit ==
    /\ tab = [t \in Tabs |-> Closed]
    /\ owner = None
    /\ msgs = {}
    /\ takeovers = 0
    /\ boots = [t \in Tabs |-> 0]

Owns(t) == owner = t
Update(t, r) == tab' = [tab EXCEPT ![t] = r]

(* A tab is opened: initTabLock asks for the lock if it is free.             *)
Boot(t, s) ==
    /\ ~tab[t].up
    /\ boots[t] < MaxBoots
    /\ boots' = [boots EXCEPT ![t] = @ + 1]
    /\ Update(t, [Closed EXCEPT !.up = TRUE, !.ph[s] = "boot", !.asks = <<s>>, !.cur = s])
    /\ UNCHANGED <<owner, msgs, takeovers>>

(* mutant: the surface is taken down but no refresh is armed.                *)
StartTakeoverUnarmed(t, s) ==
    /\ tab[t].up /\ ~IsWriter(tab[t])
    /\ tab[t].ph[s] = "idle" /\ \A u \in Slots : tab[t].ph[u] # "boot"
    /\ takeovers < MaxTakeovers
    /\ takeovers' = takeovers + 1
    /\ Update(t, TryAcquire([tab[t] EXCEPT !.surface = FALSE], s, Owns(t), "first"))
    /\ UNCHANGED <<owner, msgs, boots>>

(* runTakeover: by a click, by a focus, or by ensureWriter of an operation.  *)
StartTakeover(t, s) ==
    /\ tab[t].up /\ ~IsWriter(tab[t])
    /\ tab[t].ph[s] = "idle" /\ \A u \in Slots : tab[t].ph[u] # "boot"
    /\ takeovers < MaxTakeovers
    /\ takeovers' = takeovers + 1
    /\ Update(t, TryAcquire([tab[t] EXCEPT !.pend = TRUE, !.surface = FALSE], s, Owns(t), "first"))
    /\ UNCHANGED <<owner, msgs, boots>>

(* The browser answers the requests of one tab in order.                     *)
Asking(t, s) == tab[t].asks # <<>> /\ Head(tab[t].asks) = s

(* The lock was free: the callback makes the tab the writer and waits, but   *)
(* flushes at once when its controller was aborted in the meantime.          *)
Granted(t, s) ==
    LET r == tab[t]
        kept == IF r.ph[s] = "retry" THEN [AbortPendingSteal(r) EXCEPT !.taking = FALSE] ELSE r
        won == Emit([kept EXCEPT !.mode = "writer", !.yielding = FALSE, !.ph[s] = "idle",
                                 !.aborted = @ \ {s}, !.asks = Tail(@),
                                 !.cur = IF @ # s THEN @
                                         ELSE IF s \in r.aborted THEN None ELSE "held"])
    IN  /\ Asking(t, s)
        /\ owner = None
        /\ owner' = t
        /\ Update(t, IF s \in r.aborted THEN StartFlush(won, "own") ELSE won)
        /\ msgs' = msgs \cup Broadcast(t, "claim")
        /\ UNCHANGED <<takeovers, boots>>

(* Somebody holds the lock: the tab becomes readonly whatever it was, and    *)
(* the takeover asks the writer to yield, retries, or goes on to steal.      *)
Denied(t, s) ==
    LET r == [tab[t] EXCEPT !.mode = "readonly", !.asks = Tail(@),
                            !.cur = IF @ = s THEN None ELSE @]
    IN  /\ Asking(t, s)
        /\ owner # None
        /\ \/ /\ r.ph[s] = "boot"
              /\ Update(t, [r EXCEPT !.ph[s] = "idle"])
              /\ UNCHANGED msgs
           \/ /\ r.ph[s] = "first"
              /\ Update(t, [r EXCEPT !.taking = TRUE, !.ph[s] = "wait"])
              /\ msgs' = msgs \cup Broadcast(t, "yield")
           \/ /\ r.ph[s] = "retry" /\ r.tries[s] < MaxTries
              /\ Update(t, TryAcquire([r EXCEPT !.tries[s] = @ + 1], s, Owns(t), "retry"))
              /\ UNCHANGED msgs
           \/ /\ r.ph[s] = "retry" /\ r.tries[s] = MaxTries
              /\ Update(t, [r EXCEPT !.ph[s] = "steal", !.psteal = s, !.aborted = @ \ {s}])
              /\ UNCHANGED msgs
        /\ UNCHANGED <<owner, takeovers, boots>>

(* waitForPeerWriterYield ends, by a `yielded` or by its timeout.            *)
WaitOver(t, s) ==
    /\ tab[t].ph[s] = "wait"
    /\ Update(t, TryAcquire([tab[t] EXCEPT !.tries[s] = 1], s, Owns(t), "retry"))
    /\ UNCHANGED <<owner, msgs, takeovers, boots>>

(* The steal is granted at once; the callback of the robbed tab runs on.     *)
Robbed(r) ==
    [r EXCEPT !.rej = TRUE,
              !.flush = IF "own" \in @ THEN (@ \ {"own"}) \cup {"zombie"} ELSE @]

StealGranted(t, s) ==
    /\ "steal" \in Faults
    /\ tab[t].ph[s] = "steal" /\ s \notin tab[t].aborted
    /\ owner' = t
    /\ LET after == [u \in Tabs |-> IF u = owner THEN Robbed(tab[u]) ELSE tab[u]]
       IN  tab' = [after EXCEPT ![t] =
                     Emit([@ EXCEPT !.psteal = None, !.cur = "held", !.yielding = FALSE,
                                    !.mode = "writer", !.ph[s] = "settle"])]
    /\ msgs' = msgs \cup Broadcast(t, "claim")
    /\ UNCHANGED <<takeovers, boots>>

StealAborted(t, s) ==
    /\ tab[t].ph[s] = "steal" /\ s \in tab[t].aborted
    /\ Update(t, AfterSteal([tab[t] EXCEPT !.aborted = @ \ {s}], s))
    /\ UNCHANGED <<owner, msgs, takeovers, boots>>

(* The browser refuses the request (a steal with a signal is not supported): *)
(* the catch flushes and stands down.                                        *)
StealRefused(t, s) ==
    /\ tab[t].ph[s] = "steal" /\ s \notin tab[t].aborted
    /\ "refused" \notin tab[t].flush
    /\ Update(t, StartFlush([tab[t] EXCEPT !.ph[s] = "refused"], "refused"))
    /\ UNCHANGED <<owner, msgs, takeovers, boots>>

(* mutant: the catch of a request ignores a stolen lock.                     *)
RejectedIgnored(t) ==
    /\ tab[t].rej
    /\ Update(t, [tab[t] EXCEPT !.rej = FALSE])
    /\ UNCHANGED <<owner, msgs, takeovers, boots>>

(* The robbed tab learns that its request was rejected.                      *)
Rejected(t) ==
    /\ tab[t].rej
    /\ "rejected" \notin tab[t].flush
    /\ Update(t, StartFlush([tab[t] EXCEPT !.rej = FALSE], "rejected"))
    /\ UNCHANGED <<owner, msgs, takeovers, boots>>

(* beforeYield is done: becomeReadonly; the callback returns and releases    *)
(* the lock.                                                                 *)
FlushEnd(t, k) ==
    LET r == [tab[t] EXCEPT !.flush = @ \ {k}, !.yielding = FALSE, !.mode = "readonly"]
        waits == {s \in Slots : r.ph[s] = "refused"}
    IN  /\ k \in tab[t].flush
        /\ Update(t, IF k = "refused" THEN AfterSteal(r, CHOOSE s \in waits : TRUE) ELSE r)
        /\ owner' = IF k = "own" THEN None ELSE owner
        /\ UNCHANGED <<msgs, takeovers, boots>>

(* The wait for the robbed tab to yield is over.                             *)
SettleOver(t, s) ==
    /\ tab[t].ph[s] = "settle"
    /\ Update(t, Emit([tab[t] EXCEPT !.taking = FALSE, !.ph[s] = "idle"]))
    /\ UNCHANGED <<owner, msgs, takeovers, boots>>

(* The seal and the refresh of the database end (db/index.ts, `finally`).    *)
Refreshed(t) ==
    /\ tab[t].refresh
    /\ Update(t, [tab[t] EXCEPT !.refresh = FALSE, !.surface = TRUE])
    /\ UNCHANGED <<owner, msgs, takeovers, boots>>

-----------------------------------------------------------------------------
(* A yield request or the claim of another tab; the rate limit may drop it.  *)
Receive(t, kind) ==
    /\ <<t, kind>> \in msgs
    /\ msgs' = msgs \ {<<t, kind>>}
    /\ \/ UNCHANGED tab
       \/ /\ kind = "yield" /\ tab[t].mode = "writer"
          /\ Update(t, RequestAbort(tab[t], Owns(t)))
       \/ /\ kind = "claim" /\ (tab[t].mode = "writer" \/ tab[t].yielding)
          /\ Update(t, RequestAbort(AbortPendingSteal(tab[t]), Owns(t)))
    /\ UNCHANGED <<owner, takeovers, boots>>

Hide(t) ==
    /\ "hide" \in Faults
    /\ tab[t].mode = "writer"
    /\ Update(t, RequestAbort(tab[t], Owns(t)))
    /\ UNCHANGED <<owner, msgs, takeovers, boots>>

(* acquireScopedWriter enters the section after its awaits, and only then    *)
(* asserts that the tab is still the writer: if not, nobody leaves it.       *)
EnterSection(t) ==
    /\ "section" \in Faults
    /\ tab[t].up /\ ~tab[t].refresh
    /\ tab[t].depth < MaxDepth /\ tab[t].sections < MaxDepth
    /\ Update(t, [tab[t] EXCEPT !.depth = @ + 1,
                                !.sections = IF IsWriter(tab[t]) THEN @ + 1 ELSE @])
    /\ UNCHANGED <<owner, msgs, takeovers, boots>>

ExitSection(t) ==
    /\ tab[t].sections > 0
    /\ Update(t, LeaveAt([tab[t] EXCEPT !.sections = @ - 1], Max({0, tab[t].depth - 1}), Owns(t)))
    /\ UNCHANGED <<owner, msgs, takeovers, boots>>

(* WRITER_CRITICAL_SECTION_MAX_MS after the last section was entered.        *)
SectionTimer(t) ==
    /\ tab[t].depth > 0
    /\ Update(t, LeaveAt(tab[t], 0, Owns(t)))
    /\ UNCHANGED <<owner, msgs, takeovers, boots>>

(* The tab is closed: the browser releases its lock.                         *)
Gone(t) ==
    /\ "gone" \in Faults
    /\ tab[t].up
    /\ Update(t, Closed)
    /\ owner' = IF Owns(t) THEN None ELSE owner
    /\ msgs' = {x \in msgs : x[1] # t}
    /\ UNCHANGED <<takeovers, boots>>

(* The steps a database does not take part in but for the flush they start. *)
TabStep(t) ==
    \/ \E s \in Slots :
        \/ StartTakeover(t, s) \/ Granted(t, s) \/ Denied(t, s) \/ WaitOver(t, s)
        \/ StealGranted(t, s) \/ StealAborted(t, s) \/ StealRefused(t, s) \/ SettleOver(t, s)
    \/ Rejected(t) \/ Hide(t)
    \/ \E kind \in {"yield", "claim"} : Receive(t, kind)
    \/ EnterSection(t) \/ ExitSection(t) \/ SectionTimer(t)

LockNext ==
    \E t \in Tabs :
        \/ TabStep(t)
        \/ \E s \in Slots : Boot(t, s)
        \/ \E k \in Flushes : FlushEnd(t, k)
        \/ Refreshed(t) \/ Gone(t)

(* Requests are answered, timers fire, flushes and refreshes end.            *)
LockFairness ==
    \A t \in Tabs :
        /\ \A s \in Slots :
            /\ WF_lockVars(Granted(t, s) \/ Denied(t, s))
            /\ WF_lockVars(WaitOver(t, s))
            /\ WF_lockVars(StealGranted(t, s) \/ StealAborted(t, s) \/ StealRefused(t, s))
            /\ WF_lockVars(SettleOver(t, s))
        /\ \A k \in Flushes : WF_lockVars(FlushEnd(t, k))
        /\ WF_lockVars(Refreshed(t))
        /\ WF_lockVars(Rejected(t))
        /\ WF_lockVars(SectionTimer(t))

LockSpec == LockInit /\ [][LockNext]_lockVars /\ LockFairness

-----------------------------------------------------------------------------
(* Every variable has its type.                                              *)
LockTypeOK ==
    /\ tab \in [Tabs -> TabType]
    /\ owner \in Tabs \cup {None}
    /\ msgs \subseteq Tabs \X {"yield", "claim"}
    /\ takeovers \in 0 .. MaxTakeovers
    /\ boots \in [Tabs -> 0 .. MaxBoots]

(* README "Web Locks": one tab writes, the others are readonly.  A tab that  *)
(* writes holds the lock, or the browser is about to tell it of its loss.    *)
WriterHoldsLock == \A t \in Tabs : IsWriter(tab[t]) => Owns(t) \/ tab[t].rej

(* README "Web Locks": the lock is the writer's.  Whoever holds it writes or *)
(* is about to release it, so that a readonly tab can take over.             *)
HolderWrites ==
    \A t \in Tabs : Owns(t) => tab[t].mode = "writer" \/ "own" \in tab[t].flush

(* "defers yield while the writer critical section is held": a tab does not  *)
(* begin to give the lock up in the middle of a critical section.            *)
SectionHolds ==
    [][\A t \in Tabs : "own" \in tab'[t].flush \ tab[t].flush
                      => tab[t].sections = 0 \/ tab'[t].depth = 0]_lockVars

(* README "the loser becomes readonly": a tab without the lock stands down.  *)
LoserStandsDown ==
    \A t \in Tabs : tab[t].mode = "writer" /\ ~Owns(t) ~> tab[t].mode = "readonly" \/ Owns(t)

(* runTakeover ends, with or without the role: its guards are taken down.    *)
TakeoverEnds == \A t \in Tabs : tab[t].taking ~> ~tab[t].taking

(* guardMutations: a writer is not left with a surface that refuses writes.  *)
SurfaceReady ==
    \A t \in Tabs : IsWriter(tab[t]) /\ ~tab[t].surface ~> tab[t].surface \/ ~IsWriter(tab[t])

=============================================================================
