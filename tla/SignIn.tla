-------------------------------- MODULE SignIn --------------------------------
(***************************************************************************)
(* Signing a browser in with Pubky Ring and out again (RingConnect.ts,     *)
(* singleApproval.ts, usePaykitConnect.ts, useAuthUrl.ts, session.ts and   *)
(* the identity part of KeyStore.ts).                                      *)
(*                                                                         *)
(* A flow asks Ring for a homeserver session and, over a relay channel of  *)
(* the same number, for the keys of the identity.  Both answers come when  *)
(* they like, also after the user gave the flow up.  An adoption then      *)
(* writes the two IndexedDB stores the tabs share, one await at a time.    *)
(* There is one identity; a locator may name another one.  Session s is    *)
(* the session of flow s, 0 is none.                                       *)
(***************************************************************************)
EXTENDS Naturals, FiniteSets

CONSTANTS
    Tabs,      \* the tabs of the browser
    MaxFlow,   \* how many flows a run may start
    Limit,     \* how often a thing may happen, by name, see Things
    Most,      \* how many different things, the first two clicks left aside, happen in a run
    Faults     \* what may go wrong, see FaultNames

Things == {"click", "slip", "cancel", "enable", "out", "load", "fail"}
FaultNames ==
    {"foreign",  \* a locator names another identity
     "again",    \* the timer takes an adoption back that was of a signed-in identity
     "narrow",   \* the user grants less than was asked
     "section",  \* the 30 s timer ends a writer critical section
     "refused",  \* the writer role is lost, or never got, before the session is bound
     "overlap",  \* a restore or an adoption begins while the tab runs the other of them or a sign-out
     "both",     \* Ring answers with an old locator after it approved
     "fetch",    \* the handoff cannot be read when messaging is enabled
     "return"}   \* the callback page adopts a channel after somebody else did

ASSUME SignInAssumption ==
    MaxFlow \in Nat \ {0} /\ Limit \in [Things -> Nat] /\ Most \in Nat /\ Faults \subseteq FaultNames

VARIABLES
    disk,   \* both stores: pubky, adoption nonce, keys, receiver secret, session metadata
    pend,   \* the channels whose ephemeral secret is stored
    past,   \* the channels whose deadline is over
    ring,   \* what Ring posted to a channel
    srv,    \* the sessions: none, granted, live or out
    jar,    \* the session of the browser's cookie
    flow,   \* the flows
    tab,    \* what a tab holds in memory, and its session storage
    job,    \* the adoption a tab runs
    rest,   \* the restore a tab runs
    out,    \* the sign-out a tab runs
    used,   \* what the bounds have counted
    ghost   \* history: lapsed sessions, handoffs owed, what the last sign-out was, stale tabs,
            \* flows minted beside another start

disks == <<disk, pend>>
siVars == <<disk, pend, past, ring, srv, jar, flow, tab, job, rest, out, used, ghost>>

Flows == 1 .. MaxFlow
Locators == {"combined", "legacy", "foreign"}
NoFlow == [kind |-> "none", tab |-> CHOOSE t \in Tabs : TRUE, ph |-> "done",
           got |-> FALSE, par |-> FALSE, off |-> FALSE, slim |-> FALSE, ch |-> 0]
NewTab == [live |-> 0, conn |-> 0, shown |-> 0, mint |-> {}, wait |-> {}, lock |-> 0,
           epoch |-> 0, auth |-> FALSE, loc |-> 0, sec |-> 0, page |-> 0]
NoJob == [via |-> "none", s |-> 0, ch |-> 0, pc |-> "idle", e |-> 0]
NoCall == [pc |-> "idle", s |-> 0, e |-> 0]

SiInit ==
    /\ disk = [pubky |-> FALSE, nonce |-> 0, keys |-> "none", rx |-> FALSE, meta |-> 0]
    /\ pend = {} /\ past = {} /\ jar = 0
    /\ ring = [f \in Flows |-> "none"] /\ srv = [s \in Flows |-> "none"]
    /\ flow = [f \in Flows |-> NoFlow]
    /\ tab = [t \in Tabs |-> NewTab] /\ job = [t \in Tabs |-> NoJob]
    /\ rest = [t \in Tabs |-> NoCall] /\ out = [t \in Tabs |-> NoCall]
    /\ used = [x \in Things |-> 0]
    /\ ghost = [lapsed |-> {}, owed |-> {}, quiet |-> "no", stale |-> {}, beside |-> {}]

Count(x) ==
    /\ used[x] < Limit[x] /\ used' = [used EXCEPT ![x] = @ + 1]
    /\ Cardinality({y \in Things : used'[y] > IF y = "click" THEN 2 ELSE 0}) <= Most
Free == {f \in Flows : flow[f].kind = "none"}
Next1 == CHOOSE f \in Free : TRUE
Live(f) == f \in pend \ past         \* pendingChannelMatches
Lapse(ss) == [ghost EXCEPT !.lapsed = @ \cup ss]
SetTab(t, r) == tab' = [tab EXCEPT ![t] = r]
Give(f) == [ghost EXCEPT !.owed = {o \in @ : o[2] # f}]   \* the user gave the handoff up

-------------------------------------------------------------------------------
(* Minting a flow: usePaykitConnect                                          *)

(* Mutant: the flow before is not cancelled.                                 *)
KeepFlows(f) == flow

(* onAbort of the watch: a session already there is signed out.              *)
AbortedFlows(f) ==
    IF f = 0 THEN flow
    ELSE [flow EXCEPT ![f].off = TRUE, ![f].ph = "done", ![f].got = FALSE]
AbortedSrv(f) == IF f # 0 /\ flow[f].got /\ flow[f].ph # "done"
                 THEN [srv EXCEPT ![f] = "out"] ELSE srv

(* The part of start() that runs when the lock is free.  A start goes by the *)
(* number of its click.                                                      *)
Proceed(t, k, replace) ==
    LET c == tab[t].conn
        prev == IF c # 0 THEN c ELSE IF replace THEN tab[t].shown ELSE 0
    IN /\ flow' = AbortedFlows(c) /\ srv' = AbortedSrv(c)
       /\ pend' = IF replace THEN pend \ {prev} ELSE pend
       /\ ghost' = IF replace THEN Give(prev) ELSE ghost
       /\ SetTab(t, [tab[t] EXCEPT !.lock = k, !.mint = @ \cup {k}, !.conn = 0,
                                   !.shown = IF replace THEN 0 ELSE @])

(* start: a second caller does not mint, one that replaces waits for the lock. *)
Start(t, replace) ==
    LET k == used["click"] + 1 IN
    /\ ~tab[t].auth /\ Count("click")
    /\ \/ tab[t].lock = 0 /\ (replace \/ ~Live(tab[t].conn)) /\ Proceed(t, k, replace)
       \/ /\ tab[t].lock # 0 /\ replace
          /\ SetTab(t, [tab[t] EXCEPT !.wait = @ \cup {<<k, tab[t].lock>>}])
          /\ UNCHANGED <<flow, srv, pend, ghost>>
    /\ UNCHANGED <<disk, past, ring, jar, job, rest, out>>

(* The clicks that wait for start k all go on when it is over, each with the *)
(* lock of the one before it gone.                                           *)
Waiting(t, k) == {w[1] : w \in {v \in tab[t].wait : v[2] = k}}
StartOver(t, k) ==
    LET ws == Waiting(t, k)
    IN  [tab[t] EXCEPT !.mint = (@ \ {k}) \cup ws, !.wait = {w \in @ : w[2] # k},
                       !.lock = IF ws = {} THEN 0 ELSE CHOOSE w \in ws : TRUE]

(* startPaykitConnect done: the flow is live; who waited for it replaces it  *)
(* at once.  A connection another start made meanwhile is left to itself.    *)
Minted(t) ==
    \E k \in tab[t].mint :
    LET f == Next1
        wanted == Waiting(t, k) = {}
        new == [NoFlow EXCEPT !.kind = "connect", !.tab = t, !.ch = f,
                              !.ph = IF wanted THEN "open" ELSE "done", !.off = ~wanted]
    IN /\ Free # {}
       /\ flow' = [flow EXCEPT ![f] = new]
       /\ pend' = IF wanted THEN pend \cup {f} ELSE pend
       /\ SetTab(t, [StartOver(t, k) EXCEPT !.conn = IF wanted THEN f ELSE 0,
                                            !.shown = IF wanted THEN f ELSE 0])
       /\ ghost' = IF wanted /\ tab[t].mint # {k} THEN [ghost EXCEPT !.beside = @ \cup {f}] ELSE ghost
       /\ UNCHANGED <<disk, past, ring, srv, jar, job, rest, out, used>>

(* It failed: who waited for it goes on all the same.                        *)
MintFails(t) ==
    \E k \in tab[t].mint :
    LET c == tab[t].conn
        prev == IF c # 0 THEN c ELSE tab[t].shown
    IN /\ Count("fail")
       /\ \/ /\ Waiting(t, k) = {} /\ SetTab(t, StartOver(t, k))
             /\ UNCHANGED <<flow, srv, pend, ghost>>
          \/ /\ Waiting(t, k) # {} /\ SetTab(t, [StartOver(t, k) EXCEPT !.conn = 0, !.shown = 0])
             /\ flow' = AbortedFlows(c) /\ srv' = AbortedSrv(c)
             /\ pend' = pend \ {prev} /\ ghost' = Give(prev)
       /\ UNCHANGED <<disk, past, ring, jar, job, rest, out>>

(* cancel: a start under way is not stopped.  onCancelWaiting also cancels   *)
(* the flow chained to an old locator.                                       *)
Cancel(t) ==
    LET c == tab[t].conn
        ch == IF c # 0 THEN c ELSE tab[t].shown
    IN /\ ch # 0 /\ ~tab[t].auth /\ Count("cancel")
       /\ flow' = [f \in Flows |-> IF flow[f].kind = "chain" /\ flow[f].tab = t
                                   THEN [flow[f] EXCEPT !.off = TRUE] ELSE AbortedFlows(c)[f]]
       /\ srv' = AbortedSrv(c)
       /\ pend' = pend \ {ch} /\ ghost' = Give(ch)
       /\ SetTab(t, [tab[t] EXCEPT !.conn = 0, !.shown = 0])
       /\ UNCHANGED <<disk, past, ring, jar, job, rest, out>>

(* useAuthUrl: a new flow cancels the one before it.                         *)
EnableStart(t) ==
    /\ tab[t].auth /\ out[t] = NoCall /\ Free # {} /\ Count("enable")
    /\ flow' = [f \in Flows |->
                  IF f = Next1 THEN [NoFlow EXCEPT !.kind = "enable", !.tab = t, !.ph = "open"]
                  ELSE IF flow[f].kind = "enable" /\ flow[f].tab = t
                  THEN [flow[f] EXCEPT !.off = TRUE] ELSE flow[f]]
    /\ UNCHANGED <<disk, pend, past, ring, srv, jar, tab, job, rest, out, ghost>>

-------------------------------------------------------------------------------
(* Ring, outside of the program                                              *)

RingApprove(f) ==
    /\ flow[f].kind # "none" /\ flow[f].ph # "gone" /\ srv[f] = "none"
    /\ ring[f] # "legacy" \/ "both" \in Faults
    /\ srv' = [srv EXCEPT ![f] = "granted"]
    /\ \E slim \in BOOLEAN :
          /\ IF slim THEN "narrow" \in Faults /\ Count("slip") ELSE UNCHANGED used
          /\ flow' = [flow EXCEPT ![f].slim = slim]
    /\ ghost' = [ghost EXCEPT !.quiet = "no"]
    /\ UNCHANGED <<disk, pend, past, ring, jar, tab, job, rest, out>>

RingPost(f, l) ==
    /\ flow[f].kind = "connect" /\ ring[f] = "none" /\ f \notin past
    /\ IF l = "foreign" THEN "foreign" \in Faults /\ Count("slip") ELSE UNCHANGED used
    /\ l = "legacy" => srv[f] = "none" \/ "both" \in Faults
    /\ ring' = [ring EXCEPT ![f] = l]
    /\ UNCHANGED <<disk, pend, past, srv, jar, flow, tab, job, rest, out, ghost>>

-------------------------------------------------------------------------------
(* The watch of a connect flow: watchCombinedGrant                           *)

Watching(f) == flow[f].kind = "connect" /\ flow[f].ph \in {"open", "reading"}
Settled(f) == [tab EXCEPT ![flow[f].tab].conn = IF @ = f THEN 0 ELSE @]
Ended(f) == [flow EXCEPT ![f].ph = "done", ![f].got = FALSE]
CanAdopt(t) ==
    job[t] = NoJob /\ ((out[t] = NoCall /\ rest[t] = NoCall) \/ "overlap" \in Faults)
Adopt(t, via, s, ch) == [job EXCEPT ![t] = [NoJob EXCEPT !.via = via, !.s = s, !.ch = ch, !.pc = "acquire"]]

(* The locator is remembered before the payload is read.                     *)
Locator(f) ==
    LET t == flow[f].tab IN
    /\ Watching(f) /\ flow[f].ph = "open" /\ ~flow[f].par /\ ring[f] # "none"
    /\ flow' = [flow EXCEPT ![f].ph = "reading"]
    /\ tab' = [tab EXCEPT ![t].loc = f]
    /\ ghost' = [ghost EXCEPT !.owed = {o \in @ : o[1] # t}]
    /\ UNCHANGED <<disk, pend, past, ring, srv, jar, job, rest, out, used>>

(* The payload is there: an old locator ends the watch and asks Ring again,  *)
(* a combined one waits for the session.                                     *)
Payload(f) ==
    LET t == flow[f].tab IN
    /\ Watching(f) /\ flow[f].ph = "reading" /\ Live(f)
    /\ \/ /\ ring[f] = "legacy"
          /\ flow' = [g \in Flows |->
                        IF g = f THEN [flow[f] EXCEPT !.ph = "done", !.off = TRUE, !.got = FALSE]
                        ELSE IF Free # {} /\ g = Next1
                        THEN [NoFlow EXCEPT !.kind = "chain", !.tab = t, !.ph = "open", !.ch = f]
                        ELSE flow[g]]
          /\ tab' = Settled(f)
          /\ UNCHANGED <<srv, job>>
       \/ /\ ring[f] # "legacy" /\ ~flow[f].got
          /\ flow' = [flow EXCEPT ![f].ph = "open", ![f].par = TRUE]
          /\ UNCHANGED <<tab, srv, job>>
       \/ /\ ring[f] # "legacy" /\ flow[f].got /\ CanAdopt(t)
          /\ flow' = Ended(f) /\ tab' = Settled(f)
          /\ job' = Adopt(t, "single", f, f)
          /\ UNCHANGED srv
    /\ UNCHANGED <<disk, pend, past, ring, jar, rest, out, used, ghost>>

(* fail: the handoff is not there, the relay or the approval gave up.        *)
WatchFails(f) ==
    /\ Watching(f)
    /\ IF flow[f].ph = "reading" /\ ~Live(f) THEN UNCHANGED used ELSE Count("fail")
    /\ flow' = Ended(f) /\ tab' = Settled(f)
    /\ srv' = AbortedSrv(f)
    /\ UNCHANGED <<disk, pend, past, ring, jar, job, rest, out, ghost>>

(* Mutant: a session that comes after the watch ended is kept.               *)
SessionKept(f) ==
    LET t == flow[f].tab
        live == [srv EXCEPT ![f] = "live"]
        kind == flow[f].kind
    IN
    /\ srv[f] = "granted" /\ flow[f].ph # "gone"
    /\ \/ /\ flow[f].off
          /\ srv' = [srv EXCEPT ![f] = "out"] /\ UNCHANGED <<jar, flow, tab, job>>
       \/ /\ ~flow[f].off /\ kind = "connect" /\ ~flow[f].par
          /\ srv' = live /\ jar' = f
          /\ flow' = [flow EXCEPT ![f].got = TRUE] /\ UNCHANGED <<tab, job>>
       \/ /\ ~flow[f].off /\ kind = "connect" /\ flow[f].ph # "done" /\ flow[f].par /\ CanAdopt(t)
          /\ srv' = live /\ jar' = f
          /\ flow' = Ended(f) /\ tab' = Settled(f) /\ job' = Adopt(t, "single", f, f)
       \/ /\ ~flow[f].off /\ kind \in {"chain", "enable"} /\ CanAdopt(t)
          /\ srv' = live /\ jar' = f /\ flow' = Ended(f) /\ UNCHANGED tab
          /\ job' = Adopt(t, IF kind = "chain" THEN "legacy" ELSE "enable", f, flow[f].ch)
    /\ UNCHANGED <<disk, pend, past, ring, rest, out, used, ghost>>

(* awaitAuthApproval answers: a flow that was given up or is over signs the  *)
(* session out; a flow that has both answers is adopted.                     *)
Session(f) ==
    LET t == flow[f].tab
        live == [srv EXCEPT ![f] = "live"]
        kind == flow[f].kind
        over == flow[f].off \/ flow[f].ph = "done"
    IN
    /\ srv[f] = "granted" /\ flow[f].ph # "gone"
    /\ \/ /\ over
          /\ srv' = [srv EXCEPT ![f] = "out"] /\ UNCHANGED <<jar, flow, tab, job>>
       \/ /\ ~over /\ kind = "connect" /\ ~flow[f].par
          /\ srv' = live /\ jar' = f
          /\ flow' = [flow EXCEPT ![f].got = TRUE] /\ UNCHANGED <<tab, job>>
       \/ /\ ~over /\ kind = "connect" /\ flow[f].par /\ CanAdopt(t)
          /\ srv' = live /\ jar' = f
          /\ flow' = Ended(f) /\ tab' = Settled(f) /\ job' = Adopt(t, "single", f, f)
       \/ /\ ~over /\ kind \in {"chain", "enable"} /\ CanAdopt(t)
          /\ srv' = live /\ jar' = f /\ flow' = Ended(f) /\ UNCHANGED tab
          /\ job' = Adopt(t, IF kind = "chain" THEN "legacy" ELSE "enable", f, flow[f].ch)
    /\ UNCHANGED <<disk, pend, past, ring, rest, out, used, ghost>>

(* The deadline of a channel: the watch reports what is missing, and the     *)
(* page signs out a session that has no locator; the secret is dead.         *)
Deadline(f) ==
    /\ flow[f].kind = "connect" /\ f \notin past
    /\ past' = past \cup {f}
    /\ IF Watching(f)
       THEN flow' = Ended(f) /\ tab' = Settled(f) /\ srv' = AbortedSrv(f)
       ELSE UNCHANGED <<flow, tab, srv>>
    /\ ghost' = Give(f)
    /\ UNCHANGED <<disk, pend, ring, jar, job, rest, out, used>>

-------------------------------------------------------------------------------
(* An adoption: finishSingleApproval, finishLegacyChainedGrant, and on the   *)
(* Enable page adoptApprovedSession alone.  Every await is a step.           *)

Held(t) == tab[t].sec > 0
Goto(t, pc) == job' = [job EXCEPT ![t].pc = pc]
JobOver(t) == job' = [job EXCEPT ![t] = NoJob]
OutOfSection(t) == [tab EXCEPT ![t].sec = 0]
SignedOut(s) == [srv EXCEPT ![s] = "out"]

(* acquireScopedWriter of the outer function; a refused adoption forgets the *)
(* session without signing it out.                                           *)
Acquire(t) ==
    /\ job[t].pc = "acquire"
    /\ IF \A u \in Tabs \ {t} : ~Held(u)
       THEN /\ tab' = [tab EXCEPT ![t].sec = 1]
            /\ Goto(t, IF job[t].via = "enable" THEN "bind" ELSE "check")
       ELSE "refused" \in Faults /\ JobOver(t) /\ UNCHANGED tab
    /\ UNCHANGED <<disk, pend, past, ring, srv, jar, flow, rest, out, used, ghost>>

(* The identity and the channel must be those of the pending handoff.        *)
Check(t) ==
    LET j == job[t] IN
    /\ j.pc = "check"
    /\ IF ~Held(t) THEN JobOver(t) /\ UNCHANGED <<tab, srv, disk>>
       ELSE IF ring[j.ch] # "foreign" /\ Live(j.ch)
       THEN Goto(t, "bind") /\ UNCHANGED <<tab, srv, disk>>
       ELSE /\ JobOver(t) /\ srv' = SignedOut(j.s)
            /\ IF j.via = "legacy"
               THEN /\ SetTab(t, [tab[t] EXCEPT !.sec = 0, !.epoch = @ + 1, !.auth = FALSE])
                    /\ disk' = [disk EXCEPT !.meta = 0]
               ELSE tab' = OutOfSection(t) /\ UNCHANGED disk
    /\ UNCHANGED <<pend, past, ring, jar, flow, rest, out, used, ghost>>

(* The session must cover the grant; it becomes the tab's live session, and  *)
(* the handle it replaces is dropped.  From here the keys are owed.          *)
Bind(t) ==
    LET j == job[t] IN
    /\ j.pc = "bind"
    /\ IF ~Held(t) THEN JobOver(t) /\ UNCHANGED <<tab, srv, ghost>>
       ELSE IF flow[j.s].slim
       THEN JobOver(t) /\ tab' = OutOfSection(t) /\ srv' = SignedOut(j.s) /\ UNCHANGED ghost
       ELSE /\ Goto(t, "persist") /\ UNCHANGED srv
            /\ tab' = [tab EXCEPT ![t].live = j.s]
            /\ ghost' = [ghost EXCEPT
                 !.lapsed = @ \cup ({tab[t].live} \ {0, j.s}),
                 !.owed = IF j.via # "enable" /\ tab[t].loc = j.ch /\ Live(j.ch) THEN @ \cup {<<t, j.ch>>} ELSE @]
    /\ UNCHANGED <<disk, pend, past, ring, jar, flow, rest, out, used>>

(* persistSessionMetadata of an adoption, up to the end of its put.          *)
Persist(t) ==
    /\ job[t].pc = "persist"
    /\ IF Held(t)
       THEN /\ job' = [job EXCEPT ![t].pc = "compare", ![t].e = tab[t].epoch]
            /\ disk' = [disk EXCEPT !.meta = job[t].s] /\ UNCHANGED tab
       ELSE JobOver(t) /\ UNCHANGED <<disk, tab>>
    /\ UNCHANGED <<pend, past, ring, srv, jar, flow, rest, out, used, ghost>>

(* The rest of persistSessionMetadata: a wipe that began meanwhile wins.     *)
TakenBack(e, t) == IF e = tab[t].epoch THEN disk ELSE [disk EXCEPT !.meta = 0]

Compare(t) ==
    /\ job[t].pc = "compare"
    /\ disk' = TakenBack(job[t].e, t)
    /\ IF Held(t) THEN Goto(t, "pubky") ELSE JobOver(t)
    /\ UNCHANGED <<pend, past, ring, srv, jar, flow, tab, rest, out, used, ghost>>

(* KeyStore.setPubky: the nonce says which adoption wrote the identity.      *)
Pubky(t) ==
    /\ job[t].pc = "pubky"
    /\ disk' = [disk EXCEPT !.pubky = TRUE, !.nonce = job[t].s] /\ Goto(t, "commit")
    /\ UNCHANGED <<pend, past, ring, srv, jar, flow, tab, rest, out, used, ghost>>

(* Mutant: the tab is signed in before the writer role is looked at.         *)
CommitFirst(t) ==
    /\ job[t].pc = "commit"
    /\ SetTab(t, [tab[t] EXCEPT !.auth = TRUE,
                      !.sec = IF job[t].via = "enable" THEN 0 ELSE @])
    /\ IF Held(t)
       THEN Goto(t, IF job[t].via = "enable" THEN "try" ELSE "keys") /\ UNCHANGED disk
       ELSE /\ JobOver(t)
            /\ disk' = IF disk.pubky /\ disk.nonce = job[t].s
                       THEN [disk EXCEPT !.pubky = FALSE, !.nonce = 0] ELSE disk
    /\ UNCHANGED <<pend, past, ring, srv, jar, flow, rest, out, used, ghost>>

(* The commit of adoptApprovedSession; out of the section the identity is    *)
(* taken back if it is still this adoption's.                                *)
Commit(t) ==
    /\ job[t].pc = "commit"
    /\ IF Held(t)
       THEN /\ SetTab(t, [tab[t] EXCEPT !.auth = TRUE,
                          !.sec = IF job[t].via = "enable" THEN 0 ELSE @])
            /\ Goto(t, IF job[t].via = "enable" THEN "try" ELSE "keys")
            /\ UNCHANGED disk
       ELSE /\ JobOver(t) /\ UNCHANGED tab
            /\ disk' = IF disk.pubky /\ disk.nonce = job[t].s
                       THEN [disk EXCEPT !.pubky = FALSE, !.nonce = 0] ELSE disk
    /\ UNCHANGED <<pend, past, ring, srv, jar, flow, rest, out, used, ghost>>

(* tryAdoptPendingHandoffForSession: keys a reload left behind.  The page    *)
(* forgets the locator when the handoff cannot be read.                      *)
TryPending(t) ==
    LET ch == tab[t].loc
        readable == ch # 0 /\ Live(ch) /\ ring[ch] # "foreign"
    IN
    /\ job[t].pc = "try"
    /\ \E lost \in BOOLEAN :
          /\ lost => readable /\ "fetch" \in Faults
          /\ tab' = IF lost THEN [tab EXCEPT ![t].loc = 0] ELSE tab
          /\ IF readable /\ ~lost THEN job' = [job EXCEPT ![t].pc = "keys", ![t].ch = ch]
             ELSE Goto(t, "provision")
    /\ UNCHANGED <<disk, pend, past, ring, srv, jar, flow, rest, out, used, ghost>>

(* Mutant: the secret of the channel is cleared before the keys are kept.    *)
ClearFirst(t) ==
    /\ job[t].pc = "keys"
    /\ pend' = pend \ {job[t].ch} /\ Goto(t, "rest")
    /\ UNCHANGED <<disk, past, ring, srv, jar, flow, tab, rest, out, used, ghost>>

(* adoptHandoff: the identity and its first keys ...                         *)
Keys(t) ==
    /\ job[t].pc = "keys"
    /\ disk' = [disk EXCEPT !.pubky = TRUE, !.nonce = MaxFlow + job[t].ch, !.keys = "part"]
    /\ Goto(t, "rest")
    /\ UNCHANGED <<pend, past, ring, srv, jar, flow, tab, rest, out, used, ghost>>

(* ... then the other keys, and only then ...                                *)
RestOfKeys(t) ==
    /\ job[t].pc = "rest"
    /\ disk' = [disk EXCEPT !.keys = "all"] /\ Goto(t, "clear")
    /\ ghost' = [ghost EXCEPT !.owed = {}]
    /\ UNCHANGED <<pend, past, ring, srv, jar, flow, tab, rest, out, used>>

(* ... the secret of the channel goes, ...                                   *)
ClearPending(t) ==
    /\ job[t].pc = "clear"
    /\ pend' = pend \ {job[t].ch} /\ Goto(t, "locator")
    /\ UNCHANGED <<disk, past, ring, srv, jar, flow, tab, rest, out, used, ghost>>

(* ... the locator goes and the tab is signed in.                            *)
ClearLocator(t) ==
    /\ job[t].pc = "locator"
    /\ SetTab(t, [tab[t] EXCEPT !.loc = 0, !.auth = TRUE])
    /\ IF Held(t) \/ job[t].via = "enable" THEN Goto(t, "provision") ELSE JobOver(t)
    /\ UNCHANGED <<disk, pend, past, ring, srv, jar, flow, rest, out, used, ghost>>

(* provisionReceiver (see Receiver); the page keeps the session and offers   *)
(* to publish again when it fails.                                           *)
Provision(t) ==
    /\ job[t].pc = "provision"
    /\ JobOver(t) /\ tab' = OutOfSection(t)
    /\ \/ disk' = [disk EXCEPT !.rx = TRUE, !.pubky = TRUE,
                               !.meta = IF @ = 0 /\ tab[t].live # 0 THEN tab[t].live ELSE @]
          /\ UNCHANGED used
       \/ Count("fail") /\ UNCHANGED disk
    /\ UNCHANGED <<pend, past, ring, srv, jar, flow, rest, out, ghost>>

JobStep(t) ==
    \/ Acquire(t) \/ Check(t) \/ Bind(t) \/ Persist(t) \/ Compare(t) \/ Pubky(t) \/ Commit(t)
    \/ TryPending(t) \/ Keys(t) \/ RestOfKeys(t) \/ ClearPending(t) \/ ClearLocator(t) \/ Provision(t)

(* The timer of TabLock lets the lock go in the middle of an adoption.       *)
SectionTimer(t) ==
    /\ "section" \in Faults /\ Held(t) /\ tab' = OutOfSection(t)
    /\ job[t].pc \in {"check", "bind"} => "refused" \in Faults
    /\ job[t].pc \in {"pubky", "commit"} /\ (\E u \in Tabs : tab[u].auth) => "again" \in Faults
    /\ UNCHANGED <<disk, pend, past, ring, srv, jar, flow, job, rest, out, used, ghost>>

-------------------------------------------------------------------------------
(* The silent restore of a page load: restoreFromPersisted                   *)

RestOver(t) == rest' = [rest EXCEPT ![t] = NoCall]

RestoreStart(t) ==
    /\ rest[t] = NoCall /\ tab[t].live = 0 /\ disk.meta # 0
    /\ (job[t] = NoJob /\ out[t] = NoCall) \/ "overlap" \in Faults
    /\ rest' = [rest EXCEPT ![t] = [pc |-> "resume", s |-> disk.meta, e |-> 0]]
    /\ UNCHANGED <<disk, pend, past, ring, srv, jar, flow, tab, job, out, used, ghost>>

(* auth-revoked: durable evidence keeps the identity, else the session goes. *)
Revoked(t) ==
    /\ RestOver(t)
    /\ IF disk.pubky /\ disk.rx THEN UNCHANGED <<disk, tab>>
       ELSE /\ disk' = [disk EXCEPT !.meta = 0]
            /\ SetTab(t, [tab[t] EXCEPT !.live = 0, !.epoch = @ + 1])

(* Cookie resume, then the exported session.  adoptRestoredHandle remembers  *)
(* the write epoch only now.                                                 *)
Resume(t) ==
    /\ rest[t].pc = "resume"
    /\ \/ \E s \in {jar, rest[t].s} \ {0} :
             /\ srv[s] = "live" /\ (IF s = jar THEN UNCHANGED used ELSE Count("fail"))
             /\ tab' = [tab EXCEPT ![t].live = s] /\ UNCHANGED disk
             /\ rest' = [rest EXCEPT ![t] = [pc |-> "open", s |-> s, e |-> tab[t].epoch]]
             /\ ghost' = Lapse({tab[t].live} \ {0, s})
       \/ (jar # 0 => srv[jar] = "out")
          /\ Revoked(t) /\ UNCHANGED <<used, ghost>>
       \/ Count("fail") /\ srv[rest[t].s] = "out" /\ Revoked(t) /\ UNCHANGED ghost
       \/ Count("fail") /\ RestOver(t) /\ UNCHANGED <<tab, disk, ghost>>
    /\ UNCHANGED <<pend, past, ring, srv, jar, flow, job, out>>

(* Mutant: the write epoch is not looked at, here nor after the put.         *)
PutAnyway(t) ==
    /\ rest[t].pc = "open"
    /\ disk' = [disk EXCEPT !.meta = rest[t].s]
    /\ rest' = [rest EXCEPT ![t].pc = "pubky"]
    /\ UNCHANGED <<pend, past, ring, srv, jar, flow, tab, job, out, used, ghost>>

(* persistSessionMetadata of a restore: the store is open, the put.          *)
RestorePut(t) ==
    /\ rest[t].pc = "open"
    /\ disk' = IF rest[t].e = tab[t].epoch THEN [disk EXCEPT !.meta = rest[t].s] ELSE disk
    /\ rest' = [rest EXCEPT ![t].pc = "compare"]
    /\ UNCHANGED <<pend, past, ring, srv, jar, flow, tab, job, out, used, ghost>>

(* The checks of adoptRestoredHandle after each of its awaits.               *)
RestoreCompare(t) ==
    /\ rest[t].pc = "compare"
    /\ disk' = TakenBack(rest[t].e, t)
    /\ IF rest[t].e = tab[t].epoch
       THEN rest' = [rest EXCEPT ![t].pc = "pubky"] /\ UNCHANGED tab
       ELSE RestOver(t) /\ tab' = [tab EXCEPT ![t].live = IF @ = rest[t].s THEN 0 ELSE @]
    /\ UNCHANGED <<pend, past, ring, srv, jar, flow, job, out, used, ghost>>

RestorePubky(t) ==
    /\ rest[t].pc = "pubky"
    /\ disk' = [disk EXCEPT !.pubky = TRUE, !.nonce = 0]
    /\ rest' = [rest EXCEPT ![t].pc = "last"]
    /\ UNCHANGED <<pend, past, ring, srv, jar, flow, tab, job, out, used, ghost>>

(* Live: SessionBootstrap signs the store in.                                *)
RestoreDone(t) ==
    /\ rest[t].pc = "last" /\ RestOver(t)
    /\ SetTab(t, IF rest[t].e = tab[t].epoch THEN [tab[t] EXCEPT !.auth = TRUE]
                 ELSE [tab[t] EXCEPT !.live = IF @ = rest[t].s THEN 0 ELSE @])
    /\ UNCHANGED <<disk, pend, past, ring, srv, jar, flow, job, out, used, ghost>>

-------------------------------------------------------------------------------
(* signOut                                                                   *)

(* The approvals awaited on the Enable page, which no sign-out ends; those   *)
(* of a code need its handoff, which the sign-out clears.                    *)
Awaited(t) == {f \in Flows : flow[f].tab = t /\ flow[f].kind = "enable" /\ flow[f].ph = "open" /\ ~flow[f].off}

(* What neither the write epoch nor the clear stops is not under way: an     *)
(* adoption, an approval awaited to enable, a restore but for its metadata   *)
(* put, or anything of another tab.                                          *)
Undisturbed(t) ==
    /\ job = [u \in Tabs |-> NoJob] /\ \A u \in Tabs \ {t} : rest[u] = NoCall
    /\ rest[t].pc \in {"idle", "open", "compare"} /\ Awaited(t) = {}

OutStart(t) ==
    /\ out[t] = NoCall /\ tab[t].auth /\ Count("out")
    /\ out' = [out EXCEPT ![t] = [NoCall EXCEPT !.pc = "server", !.s = tab[t].live]]
    /\ SetTab(t, [tab[t] EXCEPT !.live = 0, !.epoch = @ + 1])
    /\ ghost' = [ghost EXCEPT !.quiet = IF Undisturbed(t) THEN "alone" ELSE "amid"]
    /\ UNCHANGED <<disk, pend, past, ring, srv, jar, flow, job, rest>>

(* A request to end the session that fails is passed over: the handle is     *)
(* closed and the session stays open at the homeserver.                      *)
OutServer(t) ==
    LET s == out[t].s IN
    /\ out[t].pc = "server" /\ out' = [out EXCEPT ![t].pc = "clear"]
    /\ \/ srv' = (IF s = 0 THEN srv ELSE SignedOut(s)) /\ UNCHANGED <<used, ghost>>
       \/ s # 0 /\ Count("fail") /\ ghost' = Lapse({s}) /\ UNCHANGED srv
    /\ UNCHANGED <<disk, pend, past, ring, jar, flow, tab, job, rest>>

(* resetPaykitConnectLive, and KeyStore.clear.                               *)
OutClear(t) ==
    LET c == tab[t].conn IN
    /\ out[t].pc = "clear"
    /\ flow' = AbortedFlows(c) /\ srv' = AbortedSrv(c)
    /\ SetTab(t, [tab[t] EXCEPT !.conn = 0, !.lock = 0])
    /\ disk' = [disk EXCEPT !.pubky = FALSE, !.nonce = 0, !.keys = "none", !.rx = FALSE]
    /\ pend' = {}
    /\ ghost' = [ghost EXCEPT !.owed = {}, !.stale = @ \cup {u \in Tabs \ {t} : tab[u].auth}
                                                                 \cup {u \in {t} : job[u] # NoJob}]
    /\ out' = [out EXCEPT ![t].pc = "wipe"]
    /\ UNCHANGED <<past, ring, jar, job, rest, used>>

(* wipeSessionMetadata, and clearSession of the store.  A session that was   *)
(* only recorded lapses.                                                     *)
OutWipe(t) ==
    /\ out[t].pc = "wipe"
    /\ disk' = [disk EXCEPT !.meta = 0]
    /\ SetTab(t, [tab[t] EXCEPT !.epoch = @ + 1, !.auth = FALSE])
    /\ out' = [out EXCEPT ![t] = NoCall]
    /\ ghost' = [ghost EXCEPT !.lapsed = @ \cup ({disk.meta} \ {0}),
                              !.stale = {u \in @ : u # t \/ job[u] # NoJob}]
    /\ UNCHANGED <<pend, past, ring, srv, jar, flow, job, rest, used>>

-------------------------------------------------------------------------------
(* Page loads                                                                *)

(* What a page load leaves of a tab: the session storage; hydratePersistedAuth *)
(* signs it in when the keys are there.                                      *)
Loaded(t, page) ==
    /\ SetTab(t, [NewTab EXCEPT !.loc = tab[t].loc, !.page = page,
                                !.auth = disk.pubky /\ disk.keys # "none"])
    /\ flow' = [f \in Flows |-> IF flow[f].kind # "none" /\ flow[f].tab = t
                                THEN [flow[f] EXCEPT !.ph = "gone", !.got = FALSE] ELSE flow[f]]
    /\ job' = [job EXCEPT ![t] = NoJob] /\ rest' = [rest EXCEPT ![t] = NoCall]
    /\ out' = [out EXCEPT ![t] = NoCall]
    /\ ghost' = [ghost EXCEPT
         !.lapsed = @ \cup (({job[t].s, tab[t].live, rest[t].s, out[t].s}
                              \cup {f \in Flows : flow[f].tab = t /\ flow[f].got}) \ {0}),
         !.stale = @ \ {t}, !.quiet = IF out[t] = NoCall THEN @ ELSE "no"]
    /\ UNCHANGED <<disk, pend, past, ring, srv, jar>>

Reload(t) == Count("load") /\ Loaded(t, 0)

(* Ring sends a phone back to the callback page with the locator.            *)
CallbackOpen(t, f) ==
    /\ flow[f].kind = "connect" /\ ring[f] \in {"combined", "legacy"} /\ Live(f)
    /\ Count("load") /\ Loaded(t, f)

(* Continue: after a page load the session of this approval is the one the   *)
(* restore found; a channel somebody adopted already costs that session.     *)
CallbackAdopt(t) ==
    LET f == tab[t].page IN
    /\ f # 0 /\ tab[t].live # 0 /\ rest[t] = NoCall /\ CanAdopt(t)
    /\ Live(f) \/ "return" \in Faults
    /\ job' = Adopt(t, IF ring[f] = "legacy" THEN "legacy" ELSE "single", tab[t].live, f)
    /\ tab' = [tab EXCEPT ![t].page = 0]
    /\ UNCHANGED <<disk, pend, past, ring, srv, jar, flow, rest, out, used, ghost>>

-------------------------------------------------------------------------------
FlowStep(f) ==
    \/ RingApprove(f) \/ (\E l \in Locators : RingPost(f, l))
    \/ Locator(f) \/ Payload(f) \/ WatchFails(f) \/ Session(f) \/ Deadline(f)

TabStep(t) ==
    \/ (\E replace \in BOOLEAN : Start(t, replace)) \/ Minted(t) \/ MintFails(t)
    \/ Cancel(t) \/ EnableStart(t)
    \/ JobStep(t) \/ SectionTimer(t)
    \/ RestoreStart(t) \/ Resume(t) \/ RestorePut(t) \/ RestoreCompare(t) \/ RestorePubky(t) \/ RestoreDone(t)
    \/ OutStart(t) \/ OutServer(t) \/ OutClear(t) \/ OutWipe(t)
    \/ Reload(t) \/ (\E f \in Flows : CallbackOpen(t, f)) \/ CallbackAdopt(t)

SiNext == (\E f \in Flows : FlowStep(f)) \/ (\E t \in Tabs : TabStep(t))

SiSpec == SiInit /\ [][SiNext]_siVars

-------------------------------------------------------------------------------
(* Properties                                                                *)

(* What every variable holds.                                                *)
SiTypeOK ==
    /\ disk \in [pubky : BOOLEAN, nonce : 0 .. 2 * MaxFlow, keys : {"none", "part", "all"},
                 rx : BOOLEAN, meta : 0 .. MaxFlow]
    /\ pend \subseteq Flows /\ past \subseteq Flows /\ jar \in 0 .. MaxFlow
    /\ ring \in [Flows -> Locators \cup {"none"}]
    /\ srv \in [Flows -> {"none", "granted", "live", "out"}]
    /\ \A t \in Tabs : tab[t].sec \in {0, 1} /\ tab[t].conn \in 0 .. MaxFlow

(* No session that Ring granted is left open with nobody to use it or to end *)
(* it: it is the answer a watch holds, the session of an adoption, a restore *)
(* or a sign-out under way, the live session of a tab, or the recorded one.  *)
(* A session whose handle a newer one replaced, or that a page load or a     *)
(* sign-out without a handle left to the server, is out of the program.      *)
NoneStray ==
    \A s \in Flows :
        srv[s] = "live" =>
            \/ (flow[s].got /\ Watching(s)) \/ s = disk.meta \/ s \in ghost.lapsed
            \/ \E t \in Tabs : s \in {tab[t].live, job[t].s, rest[t].s, out[t].s}

(* Two flows of a tab that both wait for Ring.                               *)
Rivals(f, g) ==
    f # g /\ flow[f].tab = flow[g].tab /\ Watching(f) /\ Watching(g) /\ ~flow[f].off /\ ~flow[g].off

(* Of the flows of a tab that wait for Ring at most one was minted with no   *)
(* other start of the tab under way: a new code, a cancel, a sign-out ends   *)
(* the one before, and the code on the screen alone counts.  The exception   *)
(* is the code's: clicks that replace and wait for one start all go on when  *)
(* it is over (usePaykitConnect.ts:130-139), and the lock of a start that    *)
(* goes on is dropped by a sign-out and by every start that ends.            *)
OneFlow == \A f, g \in Flows : Rivals(f, g) => f \in ghost.beside \/ g \in ghost.beside

(* Without the exception; the code breaks it.                                *)
OneFlowEver == \A f, g \in Flows : ~Rivals(f, g)

(* The cookie is adopted before the keys.  Until the keys are stored, or the *)
(* user gives up, or the channel's time is over, a page load finds what it   *)
(* needs to get them: the secret of the channel and the locator.             *)
KeysRecoverable ==
    \A o \in ghost.owed : o[2] \in pend /\ tab[o[1]].loc = o[2]

(* A tab that says it is signed in has its identity in the store, unless     *)
(* another tab signed out, its own sign-out is under way, or was when an     *)
(* adoption of the tab was, which no epoch stops (until the next page load). *)
IdentityKept ==
    \A t \in Tabs \ ghost.stale : tab[t].auth /\ out[t] = NoCall => disk.pubky

(* The browser keeps no session and no identity since a sign-out, nothing    *)
(* having been approved since it began.                                      *)
NothingKept == (\A t \in Tabs : out[t] = NoCall) => disk.meta = 0 /\ ~disk.pubky

(* After a sign-out the browser keeps no session and no identity until       *)
(* something approved since it began is adopted, though a flow waited for    *)
(* Ring or a restore was about to write, or wrote, its metadata when it      *)
(* began.  The exceptions are what the code does not stop: an adoption, an   *)
(* approval awaited on the Enable page, a restore at its other awaits,       *)
(* another tab.                                                              *)
SignedOutStays == ghost.quiet = "alone" => NothingKept

(* Without the exceptions; the code breaks it.                               *)
SignedOutEver == ghost.quiet # "no" => NothingKept

===============================================================================
