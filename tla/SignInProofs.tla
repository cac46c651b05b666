------------------------------ MODULE SignInProofs ------------------------------
(* Proofs about SignIn: a tab watches one flow, no session is left over, the *)
(* keys and the identity survive, a sign-out is final.                       *)
EXTENDS SignIn, TLAPS

Ids == 0 .. MaxFlow
Kinds == {"none", "connect", "chain", "enable"}
Phases == {"open", "reading", "done", "gone"}
Owners == Tabs \cup {NoFlow.tab}
FlowT == [kind : Kinds, tab : Owners, ph : Phases, got : BOOLEAN, par : BOOLEAN, off : BOOLEAN,
          slim : BOOLEAN, ch : Ids]
TabT == [live : Ids, conn : Ids, shown : Ids, mint : SUBSET Nat, wait : SUBSET (Nat \X Nat), lock : Nat,
         epoch : Nat, auth : BOOLEAN, loc : Ids, sec : {0, 1}, page : Ids]
JobPcs == {"idle", "acquire", "check", "bind", "persist", "compare", "pubky", "commit", "try",
           "keys", "rest", "clear", "locator", "provision"}
JobT == [via : {"none", "single", "legacy", "enable"}, s : Ids, ch : Ids, pc : JobPcs, e : Nat]
CallPcs == {"idle", "resume", "open", "compare", "pubky", "last", "server", "clear", "wipe"}
CallT == [pc : CallPcs, s : Ids, e : Nat]
DiskT == [pubky : BOOLEAN, nonce : Nat, keys : {"none", "part", "all"}, rx : BOOLEAN, meta : Ids]
GhostT == [lapsed : SUBSET Ids, owed : SUBSET (Tabs \X Ids), quiet : {"no", "alone", "amid"},
           stale : SUBSET Tabs, beside : SUBSET Ids]
SrvT == {"none", "granted", "live", "out"}

Typed ==
    /\ disk \in DiskT
    /\ pend \subseteq Flows /\ past \subseteq Flows /\ jar \in Ids
    /\ ring \in [Flows -> Locators \cup {"none"}]
    /\ srv \in [Flows -> SrvT]
    /\ flow \in [Flows -> FlowT]
    /\ tab \in [Tabs -> TabT]
    /\ job \in [Tabs -> JobT]
    /\ rest \in [Tabs -> CallT]
    /\ out \in [Tabs -> CallT]
    /\ ghost \in GhostT /\ used \in [Things -> Nat]
    /\ \A f \in Flows : IF flow[f].kind = "none" THEN srv[f] # "granted" /\ ~flow[f].got
                        ELSE flow[f].tab \in Tabs

-------------------------------------------------------------------------------
(* The numbers of flows, and the records a step starts from                  *)

LEMMA Numbers ==
    /\ 0 \in Ids /\ 0 \notin Flows
    /\ Flows \subseteq Ids /\ \A i \in Ids : i = 0 \/ i \in Flows
    /\ \A i \in Ids : i \in Nat
    /\ MaxFlow \in Nat
BY SignInAssumption DEF Ids, Flows

LEMMA FreshFlow ==
    /\ NoFlow \in FlowT /\ NoFlow.kind = "none" /\ NoFlow.ph = "done" /\ NoFlow.got = FALSE
    /\ NoFlow.off = FALSE /\ NoFlow.par = FALSE /\ NoFlow.slim = FALSE /\ NoFlow.ch = 0
BY Numbers DEF NoFlow, FlowT, Kinds, Phases, Owners

LEMMA FreshTab ==
    /\ NewTab \in TabT /\ NewTab.live = 0 /\ NewTab.conn = 0 /\ NewTab.shown = 0 /\ NewTab.mint = {}
    /\ NewTab.epoch = 0 /\ NewTab.auth = FALSE
    /\ NewTab.loc = 0 /\ NewTab.sec = 0 /\ NewTab.page = 0
BY Numbers DEF NewTab, TabT

LEMMA FreshCalls ==
    /\ NoJob \in JobT /\ NoJob.pc = "idle" /\ NoJob.s = 0 /\ NoJob.ch = 0 /\ NoJob.via = "none"
    /\ NoCall \in CallT /\ NoCall.pc = "idle" /\ NoCall.s = 0 /\ NoCall.e = 0
BY Numbers DEF NoJob, NoCall, JobT, CallT, JobPcs, CallPcs

LEMMA NextFree ==
    ASSUME Free # {}
    PROVE  Next1 \in Flows /\ flow[Next1].kind = "none"
BY DEF Next1, Free

(* A watch that is given up is over, and its session is signed out.          *)
LEMMA AbortedFacts ==
    ASSUME Typed, NEW c \in Ids
    PROVE  /\ AbortedFlows(c) \in [Flows -> FlowT]
           /\ \A f \in Flows : f # c => AbortedFlows(c)[f] = flow[f]
           /\ c # 0 => LET e == AbortedFlows(c)[c]
                       IN  e.kind = flow[c].kind /\ e.tab = flow[c].tab /\ e.ph = "done" /\ e.got = FALSE
                           /\ e.off = TRUE /\ e.ch = flow[c].ch
           /\ AbortedSrv(c) \in [Flows -> SrvT]
           /\ \A f \in Flows : AbortedSrv(c)[f] = srv[f] \/ AbortedSrv(c)[f] = "out"
           /\ c # 0 /\ flow[c].got /\ flow[c].ph # "done" => AbortedSrv(c)[c] = "out"
<1>1. CASE c = 0
  BY <1>1, Numbers DEF Typed, AbortedFlows, AbortedSrv
<1>2. CASE c # 0
  <2>1. c \in Flows /\ flow[c] \in FlowT
    BY <1>2, Numbers DEF Typed
  <2> DEFINE r == flow[c]
             e == [r EXCEPT !.off = TRUE, !.ph = "done", !.got = FALSE]
  <2>2. e \in FlowT /\ e.kind = r.kind /\ e.tab = r.tab /\ e.ph = "done" /\ e.got = FALSE /\ e.off = TRUE
        /\ e.ch = r.ch
    BY <2>1 DEF FlowT, Phases
  <2>3. AbortedFlows(c) = [flow EXCEPT ![c] = e]
    BY <1>2, <2>1 DEF AbortedFlows, Typed
  <2> HIDE DEF e
  <2>4. /\ AbortedSrv(c) \in [Flows -> SrvT]
        /\ \A f \in Flows : AbortedSrv(c)[f] = srv[f] \/ AbortedSrv(c)[f] = "out"
        /\ flow[c].got /\ flow[c].ph # "done" => AbortedSrv(c)[c] = "out"
    BY <1>2, <2>1 DEF AbortedSrv, Typed, SrvT
  <2> QED BY <1>2, <2>1, <2>2, <2>3, <2>4 DEF Typed
<1> QED BY <1>1, <1>2

-------------------------------------------------------------------------------
(* What a step does to the tab it belongs to                                 *)

Only(t) == tab' = [tab EXCEPT ![t] = tab'[t]] /\ tab'[t] \in TabT

(* Two halves of a tab: how it asks for a code, and what it has signed in.   *)
SameStart(r, e) == e.conn = r.conn /\ e.mint = r.mint
SameLogin(r, e) ==
    e.live = r.live /\ e.epoch = r.epoch /\ e.auth = r.auth /\ e.loc = r.loc /\ e.sec = r.sec

LEMMA SetTabFacts ==
    ASSUME Typed, NEW t \in Tabs, NEW r \in TabT, SetTab(t, r)
    PROVE  Only(t) /\ tab'[t] = r
BY DEF Typed, SetTab, Only

LEMMA OnlyFacts ==
    ASSUME Typed, NEW t \in Tabs, Only(t)
    PROVE  tab' \in [Tabs -> TabT] /\ \A u \in Tabs : u # t => tab'[u] = tab[u]
BY DEF Typed, Only

LEMMA TabFields ==
    ASSUME Typed, NEW t \in Tabs
    PROVE  /\ tab[t] \in TabT /\ tab[t].live \in Ids /\ tab[t].conn \in Ids /\ tab[t].shown \in Ids
           /\ tab[t].mint \in SUBSET Nat /\ tab[t].wait \in SUBSET (Nat \X Nat) /\ tab[t].lock \in Nat
           /\ tab[t].epoch \in Nat /\ tab[t].auth \in BOOLEAN /\ tab[t].loc \in Ids
           /\ tab[t].sec \in {0, 1} /\ tab[t].page \in Ids
BY DEF Typed, TabT

(* The history a start of a flow leaves alone.                               *)
SamePast ==
    /\ ghost' \in GhostT
    /\ ghost'.lapsed = ghost.lapsed /\ ghost'.quiet = ghost.quiet /\ ghost'.stale = ghost.stale
    /\ ghost.beside \subseteq ghost'.beside

(* The user gave up handoffs: of those still owed every secret is kept.      *)
Gave ==
    /\ SamePast
    /\ pend' \subseteq pend
    /\ \A o \in ghost'.owed : o \in ghost.owed /\ (o[2] \in pend => o[2] \in pend')

LEMMA GiveFacts ==
    ASSUME Typed, NEW f, ghost' = Give(f), pend' = pend \/ pend' = pend \ {f}
    PROVE  Gave
<1> DEFINE owed == {o \in ghost.owed : o[2] # f}
<1>1. owed \in SUBSET (Tabs \X Ids)
  BY DEF Typed, GhostT
<1>2. ghost' = [ghost EXCEPT !.owed = owed]
  BY DEF Give
<1>3. \A o \in owed : o \in ghost.owed /\ o[2] # f
  OBVIOUS
<1> HIDE DEF owed
<1>4. SamePast /\ ghost'.owed = owed
  BY <1>1, <1>2 DEF Typed, GhostT, SamePast
<1> QED BY <1>3, <1>4 DEF Gave

LEMMA SameGave ==
    ASSUME Typed, ghost' = ghost, pend' = pend
    PROVE  Gave
BY DEF Typed, Gave, SamePast

-------------------------------------------------------------------------------
(* Minting a flow                                                            *)

(* A start goes on: the flow of the tab, if any, is given up.                *)
Renews(t) ==
    /\ flow' = AbortedFlows(tab[t].conn) /\ srv' = AbortedSrv(tab[t].conn)
    /\ Only(t) /\ SameLogin(tab[t], tab'[t]) /\ tab'[t].conn = 0 /\ Gave

(* A start waits, or one nobody waits for is over: the flows stay.           *)
LeavesFlows(t) ==
    /\ UNCHANGED <<flow, srv, pend, ghost>>
    /\ Only(t) /\ SameLogin(tab[t], tab'[t]) /\ tab'[t].conn = tab[t].conn
    /\ tab'[t].mint \subseteq tab[t].mint

LEMMA ClickFacts ==
    ASSUME Typed
    PROVE  used["click"] \in Nat /\ used["click"] + 1 \in Nat
BY DEF Typed, Things

LEMMA ProceedFacts ==
    ASSUME Typed, NEW t \in Tabs, NEW k \in Nat, NEW replace \in BOOLEAN, Proceed(t, k, replace)
    PROVE  Renews(t)
<1> DEFINE r == tab[t]
           m == r.mint \cup {k}
           sh == IF replace THEN 0 ELSE r.shown
           e == [r EXCEPT !.lock = k, !.mint = m, !.conn = 0, !.shown = sh]
<1>1. r \in TabT /\ m \in SUBSET Nat /\ sh \in Ids
  BY TabFields, Numbers
<1>2. SetTab(t, e)
  BY DEF Proceed
<1> HIDE DEF m, sh
<1>3. e \in TabT /\ SameLogin(r, e) /\ e.conn = 0
  BY <1>1, Numbers DEF TabT, SameLogin
<1> HIDE DEF e
<1>4. Gave
  BY GiveFacts, SameGave DEF Proceed
<1> QED BY <1>2, <1>3, <1>4, SetTabFacts DEF Proceed, Renews

LEMMA StartFacts ==
    ASSUME Typed, NEW t \in Tabs, NEW replace \in BOOLEAN, Start(t, replace)
    PROVE  Renews(t) \/ LeavesFlows(t)
<1> DEFINE r == tab[t]
           k == used["click"] + 1
           w == r.wait \cup {<<k, r.lock>>}
           e == [r EXCEPT !.wait = w]
<1>1. r \in TabT /\ k \in Nat /\ r.lock \in Nat /\ w \in SUBSET (Nat \X Nat)
  BY TabFields, ClickFacts
<1>2. \/ Proceed(t, k, replace)
      \/ SetTab(t, e) /\ UNCHANGED <<flow, srv, pend, ghost>>
  BY DEF Start
<1> HIDE DEF k, w
<1>3. e \in TabT /\ SameLogin(r, e) /\ e.conn = r.conn /\ e.mint = r.mint
  BY <1>1 DEF TabT, SameLogin
<1> HIDE DEF e
<1>4. ASSUME SetTab(t, e), UNCHANGED <<flow, srv, pend, ghost>>
      PROVE  LeavesFlows(t)
  BY <1>3, <1>4, SetTabFacts DEF LeavesFlows
<1> QED BY <1>1, <1>2, <1>4, ProceedFacts

(* When a start is over those who waited for it are under way.               *)
LEMMA StartOverFacts ==
    ASSUME Typed, NEW t \in Tabs, NEW k
    PROVE  LET e == StartOver(t, k)
           IN  /\ e \in TabT /\ SameLogin(tab[t], e) /\ e.conn = tab[t].conn
               /\ Waiting(t, k) = {} => e.mint = tab[t].mint \ {k}
<1> DEFINE r == tab[t]
           ws == Waiting(t, k)
           m == (r.mint \ {k}) \cup ws
           w == {v \in r.wait : v[2] # k}
           l == IF ws = {} THEN 0 ELSE CHOOSE v \in ws : TRUE
           e == [r EXCEPT !.mint = m, !.wait = w, !.lock = l]
<1>1. r \in TabT /\ r.mint \in SUBSET Nat /\ r.wait \in SUBSET (Nat \X Nat)
  BY TabFields
<1>2. ws \in SUBSET Nat
  BY <1>1 DEF Waiting
<1>3. StartOver(t, k) = e
  BY DEF StartOver
<1> HIDE DEF ws
<1>4. m \in SUBSET Nat /\ w \in SUBSET (Nat \X Nat) /\ l \in Nat /\ (ws = {} => m = r.mint \ {k})
  BY <1>1, <1>2
<1> HIDE DEF m, w, l
<1>5. e \in TabT /\ SameLogin(r, e) /\ e.conn = r.conn /\ e.mint = m
  BY <1>1, <1>4 DEF TabT, SameLogin
<1> HIDE DEF e
<1> QED BY <1>3, <1>4, <1>5 DEF ws

LEMMA MintedFacts ==
    ASSUME Typed, NEW t \in Tabs, Minted(t)
    PROVE  /\ Next1 \in Flows /\ flow[Next1].kind = "none"
           /\ flow' \in [Flows -> FlowT]
           /\ \A f \in Flows : f # Next1 => flow'[f] = flow[f]
           /\ flow'[Next1].kind = "connect" /\ flow'[Next1].tab = t /\ flow'[Next1].got = FALSE
           /\ flow'[Next1].par = FALSE /\ flow'[Next1].slim = FALSE
           /\ \/ /\ flow'[Next1].ph = "open" /\ flow'[Next1].off = FALSE /\ tab'[t].conn = Next1
                 /\ tab'[t].mint = {} \/ Next1 \in ghost'.beside
              \/ flow'[Next1].ph = "done" /\ flow'[Next1].off = TRUE /\ tab'[t].conn = 0
           /\ pend \subseteq pend' /\ pend' \subseteq Flows /\ pend' \subseteq pend \cup {Next1}
           /\ Only(t) /\ SameLogin(tab[t], tab'[t]) /\ tab[t].mint # {}
           /\ SamePast /\ ghost'.owed = ghost.owed
<1>1. PICK k \in tab[t].mint :
        LET wanted == Waiting(t, k) = {}
            new == [NoFlow EXCEPT !.kind = "connect", !.tab = t, !.ch = Next1,
                                  !.ph = IF wanted THEN "open" ELSE "done", !.off = ~wanted]
        IN /\ Free # {}
           /\ flow' = [flow EXCEPT ![Next1] = new]
           /\ pend' = IF wanted THEN pend \cup {Next1} ELSE pend
           /\ SetTab(t, [StartOver(t, k) EXCEPT !.conn = IF wanted THEN Next1 ELSE 0,
                                                !.shown = IF wanted THEN Next1 ELSE 0])
           /\ ghost' = IF wanted /\ tab[t].mint # {k}
                       THEN [ghost EXCEPT !.beside = @ \cup {Next1}] ELSE ghost
  BY DEF Minted
<1> DEFINE f == Next1
           r == StartOver(t, k)
           wanted == Waiting(t, k) = {}
           ph == IF wanted THEN "open" ELSE "done"
           off == ~wanted
           new == [NoFlow EXCEPT !.kind = "connect", !.tab = t, !.ch = f, !.ph = ph, !.off = off]
           c == IF wanted THEN f ELSE 0
           e == [r EXCEPT !.conn = c, !.shown = c]
<1>2. f \in Flows /\ flow[f].kind = "none" /\ f \in Ids
  BY <1>1, NextFree, Numbers
<1>3. flow' = [flow EXCEPT ![f] = new] /\ SetTab(t, e)
  BY <1>1
<1>4. pend \subseteq pend' /\ pend' \subseteq Flows /\ pend' \subseteq pend \cup {f}
  BY <1>1, <1>2 DEF Typed
<1>5. ph \in Phases /\ off \in BOOLEAN /\ c \in Ids /\ t \in Owners
  BY <1>2, Numbers DEF Phases, Owners
<1>6. /\ r \in TabT /\ SameLogin(tab[t], r) /\ (wanted => r.mint = tab[t].mint \ {k})
  BY StartOverFacts
<1>7. \/ wanted /\ ph = "open" /\ off = FALSE /\ c = f
      \/ ~wanted /\ ph = "done" /\ off = TRUE /\ c = 0
  OBVIOUS
<1>8. /\ SamePast /\ ghost'.owed = ghost.owed
      /\ wanted => r.mint = {} \/ f \in ghost'.beside
  <2> DEFINE b == ghost.beside \cup {f}
  <2>1. CASE wanted /\ tab[t].mint # {k}
    <3>1. b \in SUBSET Ids /\ f \in b /\ ghost.beside \subseteq b
      BY <1>2 DEF Typed, GhostT
    <3>2. ghost' = [ghost EXCEPT !.beside = b]
      BY <1>1, <2>1
    <3> HIDE DEF b
    <3>3. ghost' \in GhostT /\ ghost'.beside = b /\ ghost'.owed = ghost.owed
          /\ ghost'.lapsed = ghost.lapsed /\ ghost'.quiet = ghost.quiet /\ ghost'.stale = ghost.stale
      BY <3>1, <3>2 DEF Typed, GhostT
    <3> QED BY <3>1, <3>3 DEF SamePast
  <2>2. CASE ~(wanted /\ tab[t].mint # {k})
    <3>1. ghost' = ghost
      BY <1>1, <2>2
    <3> QED BY <1>6, <2>2, <3>1 DEF SamePast, Typed
  <2> QED BY <2>1, <2>2
<1> HIDE DEF ph, off, c, f, wanted, r
<1>9. /\ new \in FlowT /\ new.kind = "connect" /\ new.tab = t /\ new.got = FALSE /\ new.ph = ph
      /\ new.off = off /\ new.par = FALSE /\ new.slim = FALSE
  BY <1>2, <1>5, FreshFlow DEF FlowT, Kinds
<1>10. e \in TabT /\ SameLogin(tab[t], e) /\ e.mint = r.mint /\ e.conn = c
  BY <1>5, <1>6 DEF TabT, SameLogin
<1> HIDE DEF new, e
<1>11. /\ flow' \in [Flows -> FlowT] /\ flow'[f] = new
       /\ \A g \in Flows : g # f => flow'[g] = flow[g]
  BY <1>2, <1>3, <1>9 DEF Typed
<1>12. Only(t) /\ tab'[t] = e
  BY <1>3, <1>10, SetTabFacts
<1>13. /\ flow'[f].kind = "connect" /\ flow'[f].tab = t /\ flow'[f].got = FALSE
       /\ flow'[f].ph = ph /\ flow'[f].off = off /\ flow'[f].par = FALSE /\ flow'[f].slim = FALSE
       /\ SameLogin(tab[t], tab'[t]) /\ tab'[t].mint = r.mint /\ tab'[t].conn = c
  BY <1>9, <1>10, <1>11, <1>12
<1>14. \/ /\ flow'[f].ph = "open" /\ flow'[f].off = FALSE /\ tab'[t].conn = f
          /\ tab'[t].mint = {} \/ f \in ghost'.beside
       \/ flow'[f].ph = "done" /\ flow'[f].off = TRUE /\ tab'[t].conn = 0
  BY <1>7, <1>8, <1>13
<1> QED BY <1>1, <1>2, <1>4, <1>8, <1>11, <1>12, <1>13, <1>14 DEF f

LEMMA MintFailsFacts ==
    ASSUME Typed, NEW t \in Tabs, MintFails(t)
    PROVE  Renews(t) \/ LeavesFlows(t)
<1>1. PICK k \in tab[t].mint :
        LET c == tab[t].conn
            prev == IF c # 0 THEN c ELSE tab[t].shown
        IN \/ /\ Waiting(t, k) = {} /\ SetTab(t, StartOver(t, k))
              /\ UNCHANGED <<flow, srv, pend, ghost>>
           \/ /\ Waiting(t, k) # {} /\ SetTab(t, [StartOver(t, k) EXCEPT !.conn = 0, !.shown = 0])
              /\ flow' = AbortedFlows(c) /\ srv' = AbortedSrv(c)
              /\ pend' = pend \ {prev} /\ ghost' = Give(prev)
  BY DEF MintFails
<1> DEFINE r == StartOver(t, k)
           c == tab[t].conn
           prev == IF c # 0 THEN c ELSE tab[t].shown
           e == [r EXCEPT !.conn = 0, !.shown = 0]
<1>2. /\ r \in TabT /\ SameLogin(tab[t], r) /\ r.conn = tab[t].conn
      /\ Waiting(t, k) = {} => r.mint = tab[t].mint \ {k}
  BY StartOverFacts
<1> HIDE DEF r
<1>3. e \in TabT /\ SameLogin(tab[t], e) /\ e.conn = 0
  BY <1>2, Numbers DEF TabT, SameLogin
<1> HIDE DEF e, prev
<1>4. ASSUME Waiting(t, k) = {}, SetTab(t, r), UNCHANGED <<flow, srv, pend, ghost>>
      PROVE  LeavesFlows(t)
  BY <1>2, <1>4, SetTabFacts DEF LeavesFlows
<1>5. ASSUME SetTab(t, e), flow' = AbortedFlows(c), srv' = AbortedSrv(c),
             pend' = pend \ {prev}, ghost' = Give(prev)
      PROVE  Renews(t)
  BY <1>3, <1>5, SetTabFacts, GiveFacts DEF Renews
<1> QED BY <1>1, <1>4, <1>5 DEF r, e, prev

(* How a flow changes: it is over, it is given up, or only its answer and    *)
(* what was granted are noted.                                               *)
SameFlow(r, e) ==
    e.kind = r.kind /\ e.tab = r.tab /\ e.ph = r.ph /\ e.got = r.got /\ e.off = r.off /\ e.ch = r.ch
Over(r, e) ==
    e.kind = r.kind /\ e.tab = r.tab /\ e.ph = "done" /\ e.got = FALSE /\ e.ch = r.ch
GivenUp(r, e) ==
    e.kind = r.kind /\ e.tab = r.tab /\ e.ph = r.ph /\ e.got = r.got /\ e.off = TRUE /\ e.ch = r.ch

LEMMA OffFacts ==
    ASSUME NEW r \in FlowT
    PROVE  [r EXCEPT !.off = TRUE] \in FlowT /\ GivenUp(r, [r EXCEPT !.off = TRUE])
BY DEF FlowT, GivenUp

LEMMA CancelFacts ==
    ASSUME Typed, NEW t \in Tabs, Cancel(t)
    PROVE  LET c == tab[t].conn
           IN  /\ flow' \in [Flows -> FlowT] /\ srv' = AbortedSrv(c)
               /\ \A f \in Flows :
                    \/ flow[f].kind = "chain" /\ GivenUp(flow[f], flow'[f])
                    \/ f # c /\ flow'[f] = flow[f]
                    \/ f = c /\ flow'[f] = AbortedFlows(c)[c]
               /\ Only(t) /\ SameLogin(tab[t], tab'[t])
               /\ tab'[t].conn = 0 /\ tab'[t].mint = tab[t].mint
               /\ Gave
<1> DEFINE c == tab[t].conn
           ch == IF c # 0 THEN c ELSE tab[t].shown
           r == tab[t]
           e == [r EXCEPT !.conn = 0, !.shown = 0]
           off(f) == [flow[f] EXCEPT !.off = TRUE]
<1>1. c \in Ids /\ r \in TabT
  BY TabFields
<1>2. /\ AbortedFlows(c) \in [Flows -> FlowT]
      /\ \A f \in Flows : f # c => AbortedFlows(c)[f] = flow[f]
  BY <1>1, AbortedFacts
<1>3. \A f \in Flows : off(f) \in FlowT /\ GivenUp(flow[f], off(f))
  BY OffFacts DEF Typed
<1>4. /\ flow' = [f \in Flows |-> IF flow[f].kind = "chain" /\ flow[f].tab = t
                                  THEN off(f) ELSE AbortedFlows(c)[f]]
      /\ srv' = AbortedSrv(c) /\ SetTab(t, e)
      /\ pend' = pend \ {ch} /\ ghost' = Give(ch)
  BY DEF Cancel
<1> HIDE DEF off
<1>5. e \in TabT /\ SameLogin(r, e) /\ e.conn = 0 /\ e.mint = r.mint
  BY <1>1, Numbers DEF TabT, SameLogin
<1> HIDE DEF e
<1>6. Gave
  BY <1>4, GiveFacts
<1>7. /\ Only(t) /\ SameLogin(r, tab'[t])
      /\ tab'[t].conn = 0 /\ tab'[t].mint = r.mint
  BY <1>4, <1>5, SetTabFacts
<1> HIDE DEF c, ch
<1>8. flow' \in [Flows -> FlowT]
  BY <1>2, <1>3, <1>4
<1>9. \A f \in Flows :
         \/ flow[f].kind = "chain" /\ GivenUp(flow[f], flow'[f])
         \/ f # c /\ flow'[f] = flow[f]
         \/ f = c /\ flow'[f] = AbortedFlows(c)[c]
  BY <1>2, <1>3, <1>4
<1> QED BY <1>4, <1>6, <1>7, <1>8, <1>9 DEF c

LEMMA EnableStartFacts ==
    ASSUME Typed, NEW t \in Tabs, EnableStart(t)
    PROVE  /\ Next1 \in Flows /\ flow[Next1].kind = "none"
           /\ flow' \in [Flows -> FlowT]
           /\ flow'[Next1].kind = "enable" /\ flow'[Next1].tab = t /\ flow'[Next1].got = FALSE
           /\ flow'[Next1].ph = "open"
           /\ \A f \in Flows : f # Next1 =>
                \/ flow'[f] = flow[f]
                \/ flow[f].kind = "enable" /\ GivenUp(flow[f], flow'[f])
<1> DEFINE n == Next1
           new == [NoFlow EXCEPT !.kind = "enable", !.tab = t, !.ph = "open"]
           off(f) == [flow[f] EXCEPT !.off = TRUE]
<1>1. n \in Flows /\ flow[n].kind = "none"
  BY NextFree DEF EnableStart
<1>2. flow' = [f \in Flows |-> IF f = n THEN new
                               ELSE IF flow[f].kind = "enable" /\ flow[f].tab = t
                               THEN off(f) ELSE flow[f]]
  BY DEF EnableStart
<1>3. \A f \in Flows : off(f) \in FlowT /\ GivenUp(flow[f], off(f))
  BY OffFacts DEF Typed
<1>4. t \in Owners
  BY DEF Owners
<1>5. new \in FlowT /\ new.kind = "enable" /\ new.tab = t /\ new.got = FALSE /\ new.ph = "open"
  BY <1>4, FreshFlow DEF FlowT, Kinds, Phases
<1> HIDE DEF n, new, off
<1>6. flow' \in [Flows -> FlowT] /\ flow'[n] = new
  BY <1>1, <1>2, <1>3, <1>5 DEF Typed
<1>7. \A f \in Flows : f # n =>
         \/ flow'[f] = flow[f]
         \/ flow[f].kind = "enable" /\ GivenUp(flow[f], flow'[f])
  BY <1>2, <1>3
<1> QED BY <1>1, <1>5, <1>6, <1>7 DEF n

-------------------------------------------------------------------------------
(* Ring, and the watch of a flow                                             *)

LEMMA EndedFacts ==
    ASSUME Typed, NEW f \in Flows
    PROVE  /\ Ended(f) \in [Flows -> FlowT] /\ Over(flow[f], Ended(f)[f]) /\ Ended(f)[f].off = flow[f].off
           /\ \A g \in Flows : g # f => Ended(f)[g] = flow[g]
<1> DEFINE r == flow[f]
           e == [r EXCEPT !.ph = "done", !.got = FALSE]
<1>1. r \in FlowT
  BY DEF Typed
<1>2. e \in FlowT /\ Over(r, e) /\ e.off = r.off
  BY <1>1 DEF FlowT, Phases, Over
<1>3. Ended(f) = [flow EXCEPT ![f] = e]
  BY DEF Ended, Typed
<1> HIDE DEF e
<1> QED BY <1>2, <1>3 DEF Typed

LEMMA SettledFacts ==
    ASSUME Typed, NEW f \in Flows, flow[f].kind # "none", tab' = Settled(f)
    PROVE  LET t == flow[f].tab
           IN  /\ t \in Tabs /\ Only(t) /\ SameLogin(tab[t], tab'[t])
               /\ tab'[t].conn = (IF tab[t].conn = f THEN 0 ELSE tab[t].conn)
               /\ tab'[t].mint = tab[t].mint
<1> DEFINE t == flow[f].tab
           r == tab[t]
           c == IF r.conn = f THEN 0 ELSE r.conn
           e == [r EXCEPT !.conn = c]
<1>1. t \in Tabs
  BY DEF Typed
<1>2. r \in TabT /\ c \in Ids
  BY <1>1, TabFields, Numbers
<1>3. SetTab(t, e)
  BY <1>1 DEF Settled, SetTab, Typed
<1> HIDE DEF c, t
<1>4. e \in TabT /\ SameLogin(r, e) /\ e.conn = c /\ e.mint = r.mint
  BY <1>2 DEF TabT, SameLogin
<1> HIDE DEF e
<1>5. Only(t) /\ SameLogin(r, tab'[t]) /\ tab'[t].conn = c /\ tab'[t].mint = r.mint
  BY <1>1, <1>3, <1>4, SetTabFacts
<1> QED BY <1>1, <1>5 DEF c, t

LEMMA RingApproveFacts ==
    ASSUME Typed, NEW f \in Flows, RingApprove(f)
    PROVE  /\ flow' \in [Flows -> FlowT] /\ SameFlow(flow[f], flow'[f])
           /\ \A g \in Flows : g # f => flow'[g] = flow[g]
           /\ ghost' \in GhostT /\ ghost'.lapsed = ghost.lapsed /\ ghost'.owed = ghost.owed
           /\ ghost'.stale = ghost.stale /\ ghost'.quiet = "no"
<1>1. PICK slim \in BOOLEAN : flow' = [flow EXCEPT ![f].slim = slim]
  BY DEF RingApprove
<1> DEFINE r == flow[f]
           e == [r EXCEPT !.slim = slim]
<1>2. e \in FlowT /\ SameFlow(r, e)
  BY DEF Typed, FlowT, SameFlow
<1>3. flow' = [flow EXCEPT ![f] = e]
  BY <1>1 DEF Typed
<1> HIDE DEF e
<1>4. flow' \in [Flows -> FlowT] /\ SameFlow(flow[f], flow'[f]) /\ \A g \in Flows : g # f => flow'[g] = flow[g]
  BY <1>2, <1>3 DEF Typed
<1> QED BY <1>4 DEF RingApprove, Typed, GhostT

LEMMA LocatorFacts ==
    ASSUME Typed, NEW f \in Flows, Locator(f)
    PROVE  LET t == flow[f].tab
           IN  /\ flow' \in [Flows -> FlowT]
               /\ flow[f].kind = "connect" /\ flow[f].ph = "open"
               /\ flow'[f].kind = "connect" /\ flow'[f].tab = t /\ flow'[f].ph = "reading"
               /\ flow'[f].got = flow[f].got /\ flow'[f].off = flow[f].off
               /\ \A g \in Flows : g # f => flow'[g] = flow[g]
               /\ t \in Tabs /\ Only(t) /\ SameStart(tab[t], tab'[t])
               /\ tab'[t].live = tab[t].live /\ tab'[t].epoch = tab[t].epoch /\ tab'[t].auth = tab[t].auth
               /\ tab'[t].sec = tab[t].sec /\ tab'[t].loc = f
               /\ ghost' \in GhostT /\ ghost'.lapsed = ghost.lapsed /\ ghost'.quiet = ghost.quiet
               /\ ghost'.stale = ghost.stale /\ ghost'.owed = {o \in ghost.owed : o[1] # t}
<1> DEFINE t == flow[f].tab
           r == flow[f]
           e == [r EXCEPT !.ph = "reading"]
           a == tab[t]
           b == [a EXCEPT !.loc = f]
           owed == {o \in ghost.owed : o[1] # t}
<1>1. r \in FlowT /\ flow[f].kind = "connect" /\ flow[f].ph = "open"
  BY DEF Locator, Watching, Typed
<1>2. t \in Tabs /\ a \in TabT /\ f \in Ids
  BY <1>1, TabFields, Numbers DEF Typed
<1>3. e \in FlowT /\ e.kind = r.kind /\ e.tab = r.tab /\ e.ph = "reading" /\ e.got = r.got /\ e.off = r.off
  BY <1>1 DEF FlowT, Phases
<1>4. flow' = [flow EXCEPT ![f] = e] /\ SetTab(t, b) /\ ghost' = [ghost EXCEPT !.owed = owed]
  BY <1>2 DEF Locator, SetTab, Typed
<1>5. owed \in SUBSET (Tabs \X Ids)
  BY DEF Typed, GhostT
<1> HIDE DEF owed, t
<1>6. /\ b \in TabT /\ SameStart(a, b) /\ b.live = a.live /\ b.epoch = a.epoch /\ b.auth = a.auth
      /\ b.sec = a.sec /\ b.loc = f
  BY <1>2 DEF TabT, SameStart
<1> HIDE DEF e, b
<1>7. /\ flow' \in [Flows -> FlowT] /\ flow'[f] = e
      /\ \A g \in Flows : g # f => flow'[g] = flow[g]
  BY <1>3, <1>4 DEF Typed
<1>8. Only(t) /\ tab'[t] = b
  BY <1>2, <1>4, <1>6, SetTabFacts
<1>9. /\ ghost' \in GhostT /\ ghost'.lapsed = ghost.lapsed /\ ghost'.quiet = ghost.quiet
      /\ ghost'.stale = ghost.stale /\ ghost'.owed = owed
  BY <1>4, <1>5 DEF Typed, GhostT
<1>10. /\ flow'[f].kind = "connect" /\ flow'[f].tab = t /\ flow'[f].ph = "reading"
       /\ flow'[f].got = flow[f].got /\ flow'[f].off = flow[f].off
  BY <1>1, <1>3, <1>7 DEF t
<1>11. /\ SameStart(a, tab'[t]) /\ tab'[t].live = a.live /\ tab'[t].epoch = a.epoch
       /\ tab'[t].auth = a.auth /\ tab'[t].sec = a.sec /\ tab'[t].loc = f
  BY <1>6, <1>8
<1> QED BY <1>1, <1>2, <1>7, <1>8, <1>9, <1>10, <1>11 DEF t, owed
-------------------------------------------------------------------------------
(* The adoption a tab runs                                                   *)

OnlyJob(t) == job' \in [Tabs -> JobT] /\ \A u \in Tabs : u # t => job'[u] = job[u]

LEMMA JobFields ==
    ASSUME Typed, NEW t \in Tabs
    PROVE  /\ job[t] \in JobT /\ job[t].s \in Ids /\ job[t].ch \in Ids /\ job[t].pc \in JobPcs
           /\ job[t].e \in Nat /\ rest[t] \in CallT /\ rest[t].s \in Ids /\ rest[t].e \in Nat
           /\ rest[t].pc \in CallPcs /\ out[t] \in CallT /\ out[t].s \in Ids /\ out[t].pc \in CallPcs
BY DEF Typed, JobT, CallT

LEMMA AdoptFacts ==
    ASSUME Typed, NEW t \in Tabs, NEW via \in {"single", "legacy", "enable"}, NEW s \in Ids, NEW ch \in Ids,
           job' = Adopt(t, via, s, ch)
    PROVE  /\ OnlyJob(t) /\ job'[t].via = via /\ job'[t].s = s /\ job'[t].ch = ch
           /\ job'[t].pc = "acquire"
<1> DEFINE e == [NoJob EXCEPT !.via = via, !.s = s, !.ch = ch, !.pc = "acquire"]
<1>1. e \in JobT /\ e.via = via /\ e.s = s /\ e.ch = ch /\ e.pc = "acquire"
  BY FreshCalls DEF JobT, JobPcs
<1>2. job' = [job EXCEPT ![t] = e]
  BY DEF Adopt
<1> HIDE DEF e
<1> QED BY <1>1, <1>2 DEF OnlyJob, Typed

LEMMA GotoFacts ==
    ASSUME Typed, NEW t \in Tabs, NEW pc \in JobPcs, Goto(t, pc)
    PROVE  /\ OnlyJob(t) /\ job'[t].pc = pc /\ job'[t].via = job[t].via /\ job'[t].s = job[t].s
           /\ job'[t].ch = job[t].ch
<1> DEFINE r == job[t]
           e == [r EXCEPT !.pc = pc]
<1>1. e \in JobT /\ e.via = r.via /\ e.s = r.s /\ e.ch = r.ch /\ e.pc = pc
  BY JobFields DEF JobT
<1>2. job' = [job EXCEPT ![t] = e]
  BY DEF Goto, Typed
<1> HIDE DEF e
<1> QED BY <1>1, <1>2 DEF OnlyJob, Typed

LEMMA JobOverFacts ==
    ASSUME Typed, NEW t \in Tabs, JobOver(t)
    PROVE  OnlyJob(t) /\ job'[t] = NoJob
BY FreshCalls DEF JobOver, OnlyJob, Typed

(* A payload: an old locator starts a chain, one without a session waits,    *)
(* the other is adopted.                                                     *)
PayloadOld(f) ==
    /\ ring[f] = "legacy" /\ tab' = Settled(f) /\ UNCHANGED <<srv, job>>
    /\ flow' \in [Flows -> FlowT] /\ Over(flow[f], flow'[f])
    /\ \A g \in Flows : g # f =>
         \/ flow'[g] = flow[g]
         \/ flow[g].kind = "none" /\ flow'[g].kind = "chain" /\ flow'[g].tab = flow[f].tab
            /\ flow'[g].got = FALSE /\ flow'[g].ph = "open" /\ flow'[g].ch = f

PayloadWaits(f) ==
    /\ ~flow[f].got /\ UNCHANGED <<tab, srv, job>>
    /\ flow' \in [Flows -> FlowT]
    /\ flow'[f].kind = flow[f].kind /\ flow'[f].tab = flow[f].tab /\ flow'[f].ph = "open"
    /\ flow'[f].got = flow[f].got /\ flow'[f].off = flow[f].off
    /\ \A g \in Flows : g # f => flow'[g] = flow[g]

PayloadAdopted(f) ==
    /\ flow[f].got /\ CanAdopt(flow[f].tab) /\ flow' = Ended(f) /\ tab' = Settled(f)
    /\ job' = Adopt(flow[f].tab, "single", f, f) /\ UNCHANGED srv

LEMMA PayloadFacts ==
    ASSUME Typed, NEW f \in Flows, Payload(f)
    PROVE  /\ flow[f].kind = "connect" /\ flow[f].ph = "reading" /\ flow[f].tab \in Tabs /\ Live(f)
           /\ PayloadOld(f) \/ PayloadWaits(f) \/ PayloadAdopted(f)
<1> DEFINE r == flow[f]
<1>1. /\ r.kind = "connect" /\ r.ph = "reading" /\ r.tab \in Tabs /\ Live(f)
      /\ r \in FlowT /\ f \in Ids
  BY Numbers DEF Payload, Watching, Typed
<1>2. ASSUME ring[f] = "legacy",
             flow' = [g \in Flows |->
                        IF g = f THEN [flow[f] EXCEPT !.ph = "done", !.off = TRUE, !.got = FALSE]
                        ELSE IF Free # {} /\ g = Next1
                        THEN [NoFlow EXCEPT !.kind = "chain", !.tab = r.tab, !.ph = "open", !.ch = f]
                        ELSE flow[g]],
             tab' = Settled(f), UNCHANGED <<srv, job>>
      PROVE  PayloadOld(f)
  <2> DEFINE old == [r EXCEPT !.ph = "done", !.off = TRUE, !.got = FALSE]
             new == [NoFlow EXCEPT !.kind = "chain", !.tab = r.tab, !.ph = "open", !.ch = f]
  <2>1. old \in FlowT /\ Over(r, old)
    BY <1>1 DEF FlowT, Phases, Over
  <2>2. r.tab \in Owners
    BY <1>1 DEF Owners
  <2> DEFINE t == r.tab
  <2>3. new \in FlowT /\ new.kind = "chain" /\ new.tab = t /\ new.got = FALSE /\ new.ph = "open"
        /\ new.ch = f
    <3> HIDE DEF t
    <3>1. [NoFlow EXCEPT !.kind = "chain", !.tab = t, !.ph = "open", !.ch = f] \in FlowT
      BY <1>1, <2>2, FreshFlow DEF FlowT, Kinds, Phases, t
    <3>2. LET e == [NoFlow EXCEPT !.kind = "chain", !.tab = t, !.ph = "open", !.ch = f]
          IN  e.kind = "chain" /\ e.tab = t /\ e.got = FALSE /\ e.ph = "open" /\ e.ch = f
      BY FreshFlow DEF FlowT
    <3> QED BY <3>1, <3>2 DEF t
  <2>4. flow' = [g \in Flows |-> IF g = f THEN old
                                 ELSE IF Free # {} /\ g = Next1 THEN new ELSE flow[g]]
    BY <1>2
  <2> HIDE DEF old, new
  <2>5. flow' \in [Flows -> FlowT] /\ flow'[f] = old
    BY <2>1, <2>3, <2>4 DEF Typed
  <2>6. \A g \in Flows : g # f =>
           flow'[g] = flow[g] \/ (flow[g].kind = "none" /\ flow'[g] = new)
    BY <2>4, NextFree
  <2> QED BY <1>2, <2>1, <2>3, <2>5, <2>6 DEF PayloadOld
<1>3. ASSUME ~r.got, flow' = [flow EXCEPT ![f].ph = "open", ![f].par = TRUE], UNCHANGED <<tab, srv, job>>
      PROVE  PayloadWaits(f)
  <2> DEFINE e == [r EXCEPT !.ph = "open", !.par = TRUE]
  <2>1. /\ e \in FlowT /\ e.kind = r.kind /\ e.tab = r.tab /\ e.ph = "open" /\ e.got = r.got
        /\ e.off = r.off
    BY <1>1 DEF FlowT, Phases
  <2>2. flow' = [flow EXCEPT ![f] = e]
    BY <1>3 DEF Typed
  <2> HIDE DEF e
  <2> QED BY <1>3, <2>1, <2>2 DEF PayloadWaits, Typed
<1>4. ASSUME r.got, CanAdopt(r.tab), flow' = Ended(f), tab' = Settled(f),
             job' = Adopt(r.tab, "single", f, f), UNCHANGED srv
      PROVE  PayloadAdopted(f)
  BY <1>4 DEF PayloadAdopted
<1>5. PayloadOld(f) \/ PayloadWaits(f) \/ PayloadAdopted(f)
  BY <1>2, <1>3, <1>4 DEF Payload
<1> QED BY <1>1, <1>5

(* The channel whose handoff an answer needs: a chain goes by the channel of *)
(* the old locator.                                                          *)
ChOf(r, f) == IF r.kind = "chain" THEN r.ch ELSE f

(* An answer of Ring: it is given back, kept beside the watch, or adopted.   *)
SessionOver(f) ==
    /\ flow[f].off \/ flow[f].ph = "done"
    /\ srv' = [srv EXCEPT ![f] = "out"] /\ UNCHANGED <<jar, flow, tab, job>>

SessionWaits(f) ==
    /\ ~flow[f].off /\ Watching(f) /\ srv' = [srv EXCEPT ![f] = "live"] /\ jar' = f /\ UNCHANGED <<tab, job>>
    /\ flow' \in [Flows -> FlowT]
    /\ flow'[f].kind = flow[f].kind /\ flow'[f].tab = flow[f].tab /\ flow'[f].ph = flow[f].ph
    /\ flow'[f].got = TRUE /\ flow'[f].off = flow[f].off
    /\ \A g \in Flows : g # f => flow'[g] = flow[g]

SessionAdopted(f) ==
    /\ ~flow[f].off /\ flow[f].ph # "done" /\ flow[f].ph # "gone" /\ CanAdopt(flow[f].tab)
    /\ srv' = [srv EXCEPT ![f] = "live"] /\ jar' = f /\ flow' = Ended(f)
    /\ \E via \in {"single", "legacy", "enable"}, ch \in Ids :
         /\ job' = Adopt(flow[f].tab, via, f, ch)
         /\ flow[f].kind # "enable" => via # "enable" /\ ch = ChOf(flow[f], f)
    /\ \/ flow[f].kind = "connect" /\ tab' = Settled(f)
       \/ flow[f].kind \in {"chain", "enable"} /\ UNCHANGED tab

LEMMA SessionFacts ==
    ASSUME Typed, NEW f \in Flows, Session(f)
    PROVE  /\ srv[f] = "granted" /\ flow[f].tab \in Tabs
           /\ SessionOver(f) \/ SessionWaits(f) \/ SessionAdopted(f)
<1> DEFINE r == flow[f]
<1>1. /\ srv[f] = "granted" /\ r.tab \in Tabs /\ r \in FlowT /\ r.ph # "gone" /\ f \in Ids
      /\ r.ph \in Phases /\ r.ch \in Ids
  BY Numbers DEF Session, Typed, FlowT
<1>2. ASSUME ~r.off, r.ph # "done", r.kind = "connect", srv' = [srv EXCEPT ![f] = "live"], jar' = f,
             flow' = [flow EXCEPT ![f].got = TRUE], UNCHANGED <<tab, job>>
      PROVE  SessionWaits(f)
  <2> DEFINE e == [r EXCEPT !.got = TRUE]
  <2>1. e \in FlowT /\ e.kind = r.kind /\ e.tab = r.tab /\ e.ph = r.ph /\ e.got = TRUE /\ e.off = r.off
    BY <1>1 DEF FlowT
  <2>2. flow' = [flow EXCEPT ![f] = e]
    BY <1>2 DEF Typed
  <2> HIDE DEF e
  <2>3. Watching(f)
    BY <1>1, <1>2 DEF Watching, Phases
  <2> QED BY <1>2, <2>1, <2>2, <2>3 DEF SessionWaits, Typed
<1>3. ASSUME ~r.off, r.ph # "done", CanAdopt(r.tab), srv' = [srv EXCEPT ![f] = "live"], jar' = f,
             flow' = Ended(f), NEW via \in {"single", "legacy", "enable"}, NEW ch \in Ids,
             job' = Adopt(r.tab, via, f, ch),
             r.kind # "enable" => via # "enable" /\ ch = ChOf(r, f),
             \/ r.kind = "connect" /\ tab' = Settled(f)
             \/ r.kind \in {"chain", "enable"} /\ UNCHANGED tab
      PROVE  SessionAdopted(f)
  BY <1>1, <1>3 DEF SessionAdopted
<1>4. CASE r.off \/ r.ph = "done"
  BY <1>1, <1>4, Zenon DEF Session, SessionOver
<1>5. CASE ~r.off /\ r.ph # "done" /\ r.kind = "connect"
  BY <1>1, <1>2, <1>3, <1>5 DEF Session, ChOf
<1>6. CASE ~r.off /\ r.ph # "done" /\ r.kind \in {"chain", "enable"}
  <2> DEFINE via == IF r.kind = "chain" THEN "legacy" ELSE "enable"
  <2>1. via \in {"single", "legacy", "enable"} /\ job' = Adopt(r.tab, via, f, r.ch) /\ CanAdopt(r.tab)
        /\ srv' = [srv EXCEPT ![f] = "live"] /\ jar' = f /\ flow' = Ended(f) /\ UNCHANGED tab
        /\ (r.kind # "enable" => via # "enable" /\ r.ch = ChOf(r, f))
    BY <1>6 DEF Session, ChOf
  <2> HIDE DEF via
  <2> QED BY <1>1, <1>3, <1>6, <2>1
<1>7. r.kind \in {"connect", "chain", "enable"}
  BY <1>1 DEF FlowT, Kinds, Typed
<1> QED BY <1>1, <1>4, <1>5, <1>6, <1>7
LEMMA WatchFailsFacts ==
    ASSUME Typed, NEW f \in Flows, WatchFails(f)
    PROVE  /\ flow[f].kind = "connect" /\ flow[f].ph \in {"open", "reading"} /\ flow[f].tab \in Tabs
           /\ flow' = Ended(f) /\ tab' = Settled(f) /\ srv' = AbortedSrv(f)
BY DEF WatchFails, Watching, Typed

LEMMA DeadlineFacts ==
    ASSUME Typed, NEW f \in Flows, Deadline(f)
    PROVE  /\ \/ Watching(f) /\ flow' = Ended(f) /\ tab' = Settled(f) /\ srv' = AbortedSrv(f)
              \/ ~Watching(f) /\ UNCHANGED <<flow, tab, srv>>
           /\ flow[f].kind = "connect" /\ flow[f].tab \in Tabs
           /\ Gave /\ pend' = pend /\ past' \subseteq Flows
<1>1. Gave
  BY GiveFacts DEF Deadline
<1> QED BY <1>1 DEF Deadline, Typed

(* What is signed in, as a whole.                                            *)
Login(e, live, epoch, auth, loc, sec) ==
    e.live = live /\ e.epoch = epoch /\ e.auth = auth /\ e.loc = loc /\ e.sec = sec

LEMMA SecFacts ==
    ASSUME Typed, NEW t \in Tabs, NEW sec \in {0, 1}, tab' = [tab EXCEPT ![t].sec = sec]
    PROVE  /\ Only(t) /\ SameStart(tab[t], tab'[t])
           /\ Login(tab'[t], tab[t].live, tab[t].epoch, tab[t].auth, tab[t].loc, sec)
<1> DEFINE r == tab[t]
           e == [r EXCEPT !.sec = sec]
<1>1. e \in TabT /\ SameStart(r, e) /\ Login(e, r.live, r.epoch, r.auth, r.loc, sec)
  BY TabFields DEF TabT, SameStart, Login
<1>2. SetTab(t, e)
  BY DEF SetTab, Typed
<1> HIDE DEF e
<1> QED BY <1>1, <1>2, SetTabFacts

LEMMA SignedOutFacts ==
    ASSUME Typed, NEW s \in Ids
    PROVE  /\ SignedOut(s) \in [Flows -> SrvT]
           /\ \A f \in Flows : SignedOut(s)[f] = (IF f = s THEN "out" ELSE srv[f])
BY DEF Typed, SignedOut, SrvT

LEMMA AcquireFacts ==
    ASSUME Typed, NEW t \in Tabs, Acquire(t)
    PROVE  /\ job[t].pc = "acquire"
           /\ \/ /\ \A u \in Tabs \ {t} : ~Held(u)
                 /\ Only(t) /\ SameStart(tab[t], tab'[t])
                 /\ Login(tab'[t], tab[t].live, tab[t].epoch, tab[t].auth, tab[t].loc, 1)
                 /\ OnlyJob(t) /\ job'[t].pc = (IF job[t].via = "enable" THEN "bind" ELSE "check")
                 /\ job'[t].via = job[t].via /\ job'[t].s = job[t].s /\ job'[t].ch = job[t].ch
              \/ "refused" \in Faults /\ JobOver(t) /\ UNCHANGED tab
<1>1. "bind" \in JobPcs /\ "check" \in JobPcs
  BY DEF JobPcs
<1> DEFINE pc == IF job[t].via = "enable" THEN "bind" ELSE "check"
<1>2. pc \in JobPcs
  BY <1>1
<1>3. \/ /\ \A u \in Tabs \ {t} : ~Held(u)
         /\ tab' = [tab EXCEPT ![t].sec = 1] /\ Goto(t, pc)
      \/ "refused" \in Faults /\ JobOver(t) /\ UNCHANGED tab
  BY DEF Acquire
<1> HIDE DEF pc
<1>4. ASSUME tab' = [tab EXCEPT ![t].sec = 1], Goto(t, pc)
      PROVE  /\ Only(t) /\ SameStart(tab[t], tab'[t])
             /\ Login(tab'[t], tab[t].live, tab[t].epoch, tab[t].auth, tab[t].loc, 1)
             /\ OnlyJob(t) /\ job'[t].pc = pc
             /\ job'[t].via = job[t].via /\ job'[t].s = job[t].s /\ job'[t].ch = job[t].ch
  BY <1>2, <1>4, SecFacts, GotoFacts
<1> QED BY <1>3, <1>4 DEF Acquire, pc

(* What the store keeps of an identity and a session.                        *)
Disk(pubky, meta) == disk' \in DiskT /\ disk'.pubky = pubky /\ disk'.meta = meta

LEMMA SameDisk ==
    ASSUME Typed, disk' = disk
    PROVE  Disk(disk.pubky, disk.meta)
BY DEF Typed, Disk

LEMMA MetaFacts ==
    ASSUME Typed, NEW m \in Ids, disk' = [disk EXCEPT !.meta = m]
    PROVE  Disk(disk.pubky, m)
BY DEF Typed, Disk, DiskT

CheckRefuses(t) ==
    /\ JobOver(t) /\ srv' = SignedOut(job[t].s)
    /\ Only(t) /\ SameStart(tab[t], tab'[t])
    /\ \/ /\ Login(tab'[t], tab[t].live, tab[t].epoch + 1, FALSE, tab[t].loc, 0)
          /\ Disk(disk.pubky, 0)
       \/ /\ Login(tab'[t], tab[t].live, tab[t].epoch, tab[t].auth, tab[t].loc, 0)
          /\ UNCHANGED disk

LEMMA CheckFacts ==
    ASSUME Typed, NEW t \in Tabs, Check(t)
    PROVE  /\ job[t].pc = "check"
           /\ \/ ~Held(t) /\ JobOver(t) /\ UNCHANGED <<tab, srv, disk>>
              \/ Live(job[t].ch) /\ Goto(t, "bind") /\ UNCHANGED <<tab, srv, disk>>
              \/ Held(t) /\ CheckRefuses(t)
<1> DEFINE r == tab[t]
           n == r.epoch + 1
           e == [r EXCEPT !.sec = 0, !.epoch = n, !.auth = FALSE]
<1>1. r \in TabT /\ n \in Nat
  BY TabFields
<1>2. \/ ~Held(t) /\ JobOver(t) /\ UNCHANGED <<tab, srv, disk>>
      \/ Live(job[t].ch) /\ Goto(t, "bind") /\ UNCHANGED <<tab, srv, disk>>
      \/ /\ Held(t) /\ JobOver(t) /\ srv' = SignedOut(job[t].s)
         /\ \/ SetTab(t, e) /\ disk' = [disk EXCEPT !.meta = 0]
            \/ tab' = OutOfSection(t) /\ UNCHANGED disk
  BY DEF Check
<1> HIDE DEF n
<1>3. e \in TabT /\ SameStart(r, e) /\ Login(e, r.live, n, FALSE, r.loc, 0)
  BY <1>1 DEF TabT, SameStart, Login
<1> HIDE DEF e
<1>4. ASSUME SetTab(t, e), disk' = [disk EXCEPT !.meta = 0]
      PROVE  /\ Only(t) /\ SameStart(r, tab'[t]) /\ Login(tab'[t], r.live, n, FALSE, r.loc, 0)
             /\ Disk(disk.pubky, 0)
  BY <1>3, <1>4, SetTabFacts, MetaFacts, Numbers
<1>5. ASSUME tab' = OutOfSection(t)
      PROVE  /\ Only(t) /\ SameStart(r, tab'[t])
             /\ Login(tab'[t], r.live, r.epoch, r.auth, r.loc, 0)
  BY <1>5, SecFacts DEF OutOfSection
<1> QED BY <1>2, <1>4, <1>5 DEF CheckRefuses, Check, n

BindRefuses(t) ==
    /\ JobOver(t) /\ srv' = SignedOut(job[t].s) /\ UNCHANGED ghost
    /\ Only(t) /\ SameStart(tab[t], tab'[t])
    /\ Login(tab'[t], tab[t].live, tab[t].epoch, tab[t].auth, tab[t].loc, 0)

(* The session is the tab's; the keys of its channel are owed, when the tab  *)
(* remembers the channel and its secret is there.                            *)
Binds(t) ==
    /\ Goto(t, "persist") /\ UNCHANGED srv
    /\ Only(t) /\ SameStart(tab[t], tab'[t])
    /\ Login(tab'[t], job[t].s, tab[t].epoch, tab[t].auth, tab[t].loc, tab[t].sec)
    /\ ghost' \in GhostT /\ ghost'.quiet = ghost.quiet /\ ghost'.stale = ghost.stale
    /\ ghost'.lapsed = ghost.lapsed \cup ({tab[t].live} \ {0, job[t].s})
    /\ \/ ghost'.owed = ghost.owed
       \/ /\ ghost'.owed = ghost.owed \cup {<<t, job[t].ch>>}
          /\ tab[t].loc = job[t].ch /\ job[t].ch \in pend

LEMMA BindFacts ==
    ASSUME Typed, NEW t \in Tabs, Bind(t)
    PROVE  /\ job[t].pc = "bind"
           /\ \/ ~Held(t) /\ JobOver(t) /\ UNCHANGED <<tab, srv, ghost>>
              \/ Held(t) /\ BindRefuses(t)
              \/ Held(t) /\ Binds(t)
<1> DEFINE r == tab[t]
           s == job[t].s
           ch == job[t].ch
           e == [r EXCEPT !.live = s]
           lapsed == ghost.lapsed \cup ({r.live} \ {0, s})
           owed == IF job[t].via # "enable" /\ r.loc = ch /\ Live(ch)
                   THEN ghost.owed \cup {<<t, ch>>} ELSE ghost.owed
<1>1. r \in TabT /\ s \in Ids /\ ch \in Ids /\ r.live \in Ids
  BY TabFields, JobFields
<1>2. ghost.lapsed \in SUBSET Ids /\ ghost.owed \in SUBSET (Tabs \X Ids)
  BY DEF Typed, GhostT
<1>3. lapsed \in SUBSET Ids /\ owed \in SUBSET (Tabs \X Ids)
  BY <1>1, <1>2
<1>4. owed = ghost.owed \/ (owed = ghost.owed \cup {<<t, ch>>} /\ r.loc = ch /\ ch \in pend)
  BY DEF Live
<1>5. \/ ~Held(t) /\ JobOver(t) /\ UNCHANGED <<tab, srv, ghost>>
      \/ Held(t) /\ JobOver(t) /\ tab' = OutOfSection(t) /\ srv' = SignedOut(s) /\ UNCHANGED ghost
      \/ /\ Held(t) /\ Goto(t, "persist") /\ UNCHANGED srv /\ tab' = [tab EXCEPT ![t].live = s]
         /\ ghost' = [ghost EXCEPT !.lapsed = lapsed, !.owed = owed]
  BY DEF Bind
<1> HIDE DEF lapsed, owed
<1>6. e \in TabT /\ SameStart(r, e) /\ Login(e, s, r.epoch, r.auth, r.loc, r.sec)
  BY <1>1 DEF TabT, SameStart, Login
<1>7. ASSUME tab' = [tab EXCEPT ![t].live = s]
      PROVE  /\ Only(t) /\ SameStart(r, tab'[t])
             /\ Login(tab'[t], s, r.epoch, r.auth, r.loc, r.sec)
  <2>1. SetTab(t, e)
    BY <1>7 DEF SetTab, Typed
  <2> HIDE DEF e
  <2> QED BY <1>6, <2>1, SetTabFacts
<1>8. ASSUME ghost' = [ghost EXCEPT !.lapsed = lapsed, !.owed = owed]
      PROVE  /\ ghost' \in GhostT /\ ghost'.quiet = ghost.quiet /\ ghost'.stale = ghost.stale
             /\ ghost'.lapsed = lapsed /\ ghost'.owed = owed
  BY <1>3, <1>8 DEF Typed, GhostT
<1>9. ASSUME tab' = OutOfSection(t)
      PROVE  /\ Only(t) /\ SameStart(r, tab'[t])
             /\ Login(tab'[t], r.live, r.epoch, r.auth, r.loc, 0)
  BY <1>9, SecFacts DEF OutOfSection
<1>10. CASE Held(t) /\ JobOver(t) /\ tab' = OutOfSection(t) /\ srv' = SignedOut(s) /\ UNCHANGED ghost
  BY <1>9, <1>10 DEF BindRefuses, Bind
<1>11. CASE /\ Held(t) /\ Goto(t, "persist") /\ UNCHANGED srv /\ tab' = [tab EXCEPT ![t].live = s]
            /\ ghost' = [ghost EXCEPT !.lapsed = lapsed, !.owed = owed]
  <2>1. lapsed = ghost.lapsed \cup ({r.live} \ {0, s})
    BY DEF lapsed
  <2>2. Binds(t)
    BY <1>4, <1>7, <1>8, <1>11, <2>1 DEF Binds
  <2> QED BY <1>11, <2>2 DEF Bind
<1> QED BY <1>5, <1>10, <1>11 DEF Bind
LEMMA PersistFacts ==
    ASSUME Typed, NEW t \in Tabs, Persist(t)
    PROVE  /\ job[t].pc = "persist"
           /\ \/ /\ OnlyJob(t) /\ job'[t].pc = "compare" /\ job'[t].via = job[t].via
                 /\ job'[t].s = job[t].s /\ job'[t].ch = job[t].ch
                 /\ Disk(disk.pubky, job[t].s) /\ Held(t)
              \/ ~Held(t) /\ JobOver(t) /\ UNCHANGED disk
           /\ UNCHANGED tab
<1> DEFINE r == job[t]
           n == tab[t].epoch
           e == [r EXCEPT !.pc = "compare", !.e = n]
<1>1. r \in JobT /\ r.s \in Ids /\ n \in Nat
  BY JobFields, TabFields
<1>2. CASE Held(t)
  <2>1. job' = [job EXCEPT ![t] = e] /\ disk' = [disk EXCEPT !.meta = r.s]
    BY <1>2 DEF Persist, Typed
  <2> HIDE DEF n
  <2>2. e \in JobT /\ e.pc = "compare" /\ e.via = r.via /\ e.s = r.s /\ e.ch = r.ch
    BY <1>1 DEF JobT, JobPcs
  <2> HIDE DEF e
  <2>3. /\ OnlyJob(t) /\ job'[t].pc = "compare" /\ job'[t].via = r.via
        /\ job'[t].s = r.s /\ job'[t].ch = r.ch
    BY <2>1, <2>2 DEF OnlyJob, Typed
  <2> QED BY <1>1, <1>2, <2>1, <2>3, MetaFacts DEF Persist
<1>3. CASE ~Held(t)
  BY <1>3 DEF Persist
<1> QED BY <1>2, <1>3

LEMMA TakenBackFacts ==
    ASSUME Typed, NEW t \in Tabs, NEW e, disk' = TakenBack(e, t)
    PROVE  /\ e = tab[t].epoch => Disk(disk.pubky, disk.meta)
           /\ e # tab[t].epoch => Disk(disk.pubky, 0)
BY MetaFacts, SameDisk, Numbers DEF TakenBack

LEMMA CompareFacts ==
    ASSUME Typed, NEW t \in Tabs, Compare(t)
    PROVE  /\ job[t].pc = "compare" /\ UNCHANGED tab
           /\ Disk(disk.pubky, disk.meta) \/ Disk(disk.pubky, 0)
           /\ (Held(t) /\ Goto(t, "pubky")) \/ (~Held(t) /\ JobOver(t))
<1> DEFINE e == job[t].e
<1>1. disk' = TakenBack(e, t)
  BY DEF Compare
<1> HIDE DEF e
<1>2. Disk(disk.pubky, disk.meta) \/ Disk(disk.pubky, 0)
  BY <1>1, TakenBackFacts
<1> QED BY <1>2 DEF Compare

LEMMA PubkyFacts ==
    ASSUME Typed, NEW t \in Tabs, Pubky(t)
    PROVE  job[t].pc = "pubky" /\ UNCHANGED tab /\ Goto(t, "commit") /\ Disk(TRUE, disk.meta)
<1> DEFINE n == job[t].s
<1>1. n \in Nat
  BY JobFields, Numbers
<1>2. disk' = [disk EXCEPT !.pubky = TRUE, !.nonce = n]
  BY DEF Pubky
<1> HIDE DEF n
<1>3. Disk(TRUE, disk.meta)
  BY <1>1, <1>2 DEF Disk, DiskT, Typed
<1> QED BY <1>3 DEF Pubky

LEMMA CommitFacts ==
    ASSUME Typed, NEW t \in Tabs, Commit(t)
    PROVE  /\ job[t].pc = "commit"
           /\ \/ /\ Held(t) /\ Only(t) /\ SameStart(tab[t], tab'[t]) /\ UNCHANGED disk
                 /\ \/ /\ Login(tab'[t], tab[t].live, tab[t].epoch, TRUE, tab[t].loc, 0)
                       /\ job[t].via = "enable" /\ Goto(t, "try")
                    \/ /\ Login(tab'[t], tab[t].live, tab[t].epoch, TRUE, tab[t].loc, tab[t].sec)
                       /\ job[t].via # "enable" /\ Goto(t, "keys")
              \/ /\ ~Held(t) /\ JobOver(t) /\ UNCHANGED tab
                 /\ Disk(disk.pubky, disk.meta) \/ Disk(FALSE, disk.meta)
<1> DEFINE r == tab[t]
           sec == IF job[t].via = "enable" THEN 0 ELSE r.sec
           e == [r EXCEPT !.auth = TRUE, !.sec = sec]
<1>1. r \in TabT /\ sec \in {0, 1}
  BY TabFields
<1>2. CASE Held(t)
  <2>1. SetTab(t, e) /\ UNCHANGED disk /\ Goto(t, IF job[t].via = "enable" THEN "try" ELSE "keys")
    BY <1>2 DEF Commit
  <2> HIDE DEF sec
  <2>2. e \in TabT /\ SameStart(r, e) /\ Login(e, r.live, r.epoch, TRUE, r.loc, sec)
    BY <1>1 DEF TabT, SameStart, Login
  <2> HIDE DEF e
  <2>3. Only(t) /\ SameStart(r, tab'[t]) /\ Login(tab'[t], r.live, r.epoch, TRUE, r.loc, sec)
    BY <2>1, <2>2, SetTabFacts
  <2> QED BY <1>2, <2>1, <2>3 DEF Commit, sec
<1>3. CASE ~Held(t)
  <2>1. JobOver(t) /\ UNCHANGED tab
        /\ (disk' = disk \/ disk' = [disk EXCEPT !.pubky = FALSE, !.nonce = 0])
    BY <1>3 DEF Commit
  <2>2. ASSUME disk' = [disk EXCEPT !.pubky = FALSE, !.nonce = 0]
        PROVE  Disk(FALSE, disk.meta)
    BY <2>2 DEF Disk, DiskT, Typed
  <2> QED BY <1>3, <2>1, <2>2, SameDisk DEF Commit
<1> QED BY <1>2, <1>3

LEMMA LocFacts ==
    ASSUME Typed, NEW t \in Tabs, tab' = [tab EXCEPT ![t].loc = 0]
    PROVE  /\ Only(t) /\ SameStart(tab[t], tab'[t])
           /\ Login(tab'[t], tab[t].live, tab[t].epoch, tab[t].auth, 0, tab[t].sec)
<1> DEFINE r == tab[t]
           e == [r EXCEPT !.loc = 0]
<1>1. e \in TabT /\ SameStart(r, e) /\ Login(e, r.live, r.epoch, r.auth, 0, r.sec)
  BY TabFields, Numbers DEF TabT, SameStart, Login
<1>2. SetTab(t, e)
  BY DEF SetTab, Typed
<1> HIDE DEF e
<1> QED BY <1>1, <1>2, SetTabFacts

LEMMA TryPendingFacts ==
    ASSUME Typed, NEW t \in Tabs, TryPending(t)
    PROVE  /\ job[t].pc = "try"
           /\ \/ UNCHANGED tab
              \/ /\ "fetch" \in Faults /\ Only(t) /\ SameStart(tab[t], tab'[t])
                 /\ Login(tab'[t], tab[t].live, tab[t].epoch, tab[t].auth, 0, tab[t].sec)
                 /\ Goto(t, "provision")
           /\ \/ Goto(t, "provision")
              \/ /\ OnlyJob(t) /\ job'[t].pc = "keys" /\ job'[t].via = job[t].via
                 /\ job'[t].s = job[t].s /\ job'[t].ch = tab[t].loc /\ tab[t].loc # 0
<1> DEFINE r == job[t]
           ch == tab[t].loc
           e == [r EXCEPT !.pc = "keys", !.ch = ch]
<1>1. r \in JobT /\ ch \in Ids
  BY JobFields, TabFields
<1>2. ASSUME job' = [job EXCEPT ![t].pc = "keys", ![t].ch = ch]
      PROVE  OnlyJob(t) /\ job'[t].pc = "keys" /\ job'[t].via = r.via /\ job'[t].s = r.s /\ job'[t].ch = ch
  <2>1. job' = [job EXCEPT ![t] = e]
    BY <1>2 DEF Typed
  <2> HIDE DEF ch
  <2>2. e \in JobT /\ e.pc = "keys" /\ e.via = r.via /\ e.s = r.s /\ e.ch = ch
    BY <1>1 DEF JobT, JobPcs
  <2> HIDE DEF e
  <2> QED BY <2>1, <2>2 DEF OnlyJob, Typed
<1>3. \/ UNCHANGED tab
      \/ "fetch" \in Faults /\ tab' = [tab EXCEPT ![t].loc = 0] /\ Goto(t, "provision")
  BY DEF TryPending
<1>4. \/ Goto(t, "provision")
      \/ ch # 0 /\ job' = [job EXCEPT ![t].pc = "keys", ![t].ch = ch]
  BY DEF TryPending
<1> QED BY <1>2, <1>3, <1>4, LocFacts DEF TryPending

LEMMA KeysFacts ==
    ASSUME Typed, NEW t \in Tabs, Keys(t)
    PROVE  job[t].pc = "keys" /\ Goto(t, "rest") /\ Disk(TRUE, disk.meta)
<1> DEFINE n == MaxFlow + job[t].ch
<1>1. n \in Nat
  BY JobFields, Numbers
<1>2. disk' = [disk EXCEPT !.pubky = TRUE, !.nonce = n, !.keys = "part"]
  BY DEF Keys
<1> HIDE DEF n
<1>3. Disk(TRUE, disk.meta)
  BY <1>1, <1>2 DEF Disk, DiskT, Typed
<1> QED BY <1>3 DEF Keys

LEMMA RestOfKeysFacts ==
    ASSUME Typed, NEW t \in Tabs, RestOfKeys(t)
    PROVE  /\ job[t].pc = "rest" /\ Goto(t, "clear") /\ Disk(disk.pubky, disk.meta)
           /\ ghost' \in GhostT /\ ghost'.lapsed = ghost.lapsed /\ ghost'.quiet = ghost.quiet
           /\ ghost'.stale = ghost.stale /\ ghost'.owed = {}
BY DEF RestOfKeys, Disk, DiskT, GhostT, Typed

LEMMA ClearLocatorFacts ==
    ASSUME Typed, NEW t \in Tabs, ClearLocator(t)
    PROVE  /\ job[t].pc = "locator" /\ Only(t) /\ SameStart(tab[t], tab'[t])
           /\ Login(tab'[t], tab[t].live, tab[t].epoch, TRUE, 0, tab[t].sec)
           /\ Goto(t, "provision") \/ JobOver(t)
<1> DEFINE r == tab[t]
           e == [r EXCEPT !.loc = 0, !.auth = TRUE]
<1>1. e \in TabT /\ SameStart(r, e) /\ Login(e, r.live, r.epoch, TRUE, 0, r.sec)
  BY TabFields, Numbers DEF TabT, SameStart, Login
<1>2. SetTab(t, e)
  BY DEF ClearLocator
<1> HIDE DEF e
<1>3. Only(t) /\ SameStart(r, tab'[t]) /\ Login(tab'[t], r.live, r.epoch, TRUE, 0, r.sec)
  BY <1>1, <1>2, SetTabFacts
<1> QED BY <1>3 DEF ClearLocator

LEMMA ProvisionFacts ==
    ASSUME Typed, NEW t \in Tabs, Provision(t)
    PROVE  /\ job[t].pc = "provision" /\ JobOver(t) /\ Only(t) /\ SameStart(tab[t], tab'[t])
           /\ Login(tab'[t], tab[t].live, tab[t].epoch, tab[t].auth, tab[t].loc, 0)
           /\ UNCHANGED disk \/ \E m \in Ids : Disk(TRUE, m)
<1> DEFINE m == IF disk.meta = 0 /\ tab[t].live # 0 THEN tab[t].live ELSE disk.meta
<1>1. m \in Ids
  BY TabFields DEF Typed, DiskT
<1>2. UNCHANGED disk \/ disk' = [disk EXCEPT !.rx = TRUE, !.pubky = TRUE, !.meta = m]
  BY DEF Provision
<1> HIDE DEF m
<1>3. ASSUME disk' = [disk EXCEPT !.rx = TRUE, !.pubky = TRUE, !.meta = m]
      PROVE  Disk(TRUE, m)
  BY <1>1, <1>3 DEF Disk, DiskT, Typed
<1> QED BY <1>1, <1>2, <1>3, SecFacts DEF Provision, OutOfSection
-------------------------------------------------------------------------------
(* The restore and the sign-out                                              *)

OnlyRest(t) == rest' \in [Tabs -> CallT] /\ \A u \in Tabs : u # t => rest'[u] = rest[u]
OnlyOut(t) == out' \in [Tabs -> CallT] /\ \A u \in Tabs : u # t => out'[u] = out[u]

LEMMA RestOverFacts ==
    ASSUME Typed, NEW t \in Tabs, RestOver(t)
    PROVE  OnlyRest(t) /\ rest'[t] = NoCall
BY FreshCalls DEF RestOver, OnlyRest, Typed

LEMMA RestPcFacts ==
    ASSUME Typed, NEW t \in Tabs, NEW pc \in CallPcs, rest' = [rest EXCEPT ![t].pc = pc]
    PROVE  OnlyRest(t) /\ rest'[t].pc = pc /\ rest'[t].s = rest[t].s /\ rest'[t].e = rest[t].e
<1> DEFINE r == rest[t]
           c == [r EXCEPT !.pc = pc]
<1>1. c \in CallT /\ c.pc = pc /\ c.s = r.s /\ c.e = r.e
  BY JobFields DEF CallT
<1>2. rest' = [rest EXCEPT ![t] = c]
  BY DEF Typed
<1> HIDE DEF c
<1> QED BY <1>1, <1>2 DEF OnlyRest, Typed

LEMMA RestoreStartFacts ==
    ASSUME Typed, NEW t \in Tabs, RestoreStart(t)
    PROVE  /\ rest[t] = NoCall /\ tab[t].live = 0 /\ disk.meta # 0
           /\ (job[t] = NoJob /\ out[t] = NoCall) \/ "overlap" \in Faults
           /\ OnlyRest(t) /\ rest'[t].pc = "resume" /\ rest'[t].s = disk.meta
<1> DEFINE m == disk.meta
           c == [pc |-> "resume", s |-> m, e |-> 0]
<1>1. m \in Ids
  BY DEF Typed, DiskT
<1>2. c \in CallT /\ c.pc = "resume" /\ c.s = m
  BY <1>1 DEF CallT, CallPcs
<1>3. rest' = [rest EXCEPT ![t] = c]
  BY DEF RestoreStart
<1> HIDE DEF c
<1>4. OnlyRest(t) /\ rest'[t].pc = "resume" /\ rest'[t].s = m
  BY <1>2, <1>3 DEF OnlyRest, Typed
<1> QED BY <1>4 DEF RestoreStart

(* A restore that finds no session, or one that is over.                     *)
Finds(t) ==
    /\ \E s \in Flows : Login(tab'[t], s, tab[t].epoch, tab[t].auth, tab[t].loc, tab[t].sec)
         /\ rest'[t].s = s
         /\ ghost'.lapsed = ghost.lapsed \cup ({tab[t].live} \ {0, s})
    /\ Only(t) /\ SameStart(tab[t], tab'[t]) /\ UNCHANGED disk
    /\ OnlyRest(t) /\ rest'[t].pc = "open" /\ rest'[t].e = tab[t].epoch
    /\ ghost' \in GhostT /\ ghost'.quiet = ghost.quiet /\ ghost'.stale = ghost.stale
    /\ ghost'.owed = ghost.owed

GivesUp(t) ==
    /\ RestOver(t) /\ UNCHANGED ghost
    /\ \/ UNCHANGED <<disk, tab>>
       \/ /\ Disk(disk.pubky, 0) /\ Only(t) /\ SameStart(tab[t], tab'[t])
          /\ Login(tab'[t], 0, tab[t].epoch + 1, tab[t].auth, tab[t].loc, tab[t].sec)

LEMMA RevokedFacts ==
    ASSUME Typed, NEW t \in Tabs, Revoked(t), UNCHANGED ghost
    PROVE  GivesUp(t)
<1> DEFINE r == tab[t]
           n == r.epoch + 1
           e == [r EXCEPT !.live = 0, !.epoch = n]
<1>1. r \in TabT /\ n \in Nat
  BY TabFields
<1>2. RestOver(t) /\ (UNCHANGED <<disk, tab>> \/ (disk' = [disk EXCEPT !.meta = 0] /\ SetTab(t, e)))
  BY DEF Revoked
<1> HIDE DEF n
<1>3. e \in TabT /\ SameStart(r, e) /\ Login(e, 0, n, r.auth, r.loc, r.sec)
  BY <1>1, Numbers DEF TabT, SameStart, Login
<1> HIDE DEF e
<1>4. ASSUME disk' = [disk EXCEPT !.meta = 0], SetTab(t, e)
      PROVE  /\ Disk(disk.pubky, 0) /\ Only(t) /\ SameStart(r, tab'[t])
             /\ Login(tab'[t], 0, n, r.auth, r.loc, r.sec)
  BY <1>3, <1>4, SetTabFacts, MetaFacts, Numbers
<1> QED BY <1>2, <1>4 DEF GivesUp, n

LEMMA ResumeFacts ==
    ASSUME Typed, NEW t \in Tabs, Resume(t)
    PROVE  rest[t].pc = "resume" /\ (Finds(t) \/ GivesUp(t))
<1> DEFINE r == tab[t]
<1>1. r \in TabT /\ r.live \in Ids /\ r.epoch \in Nat
  BY TabFields
<1>2. ASSUME NEW s \in Flows, tab' = [tab EXCEPT ![t].live = s], UNCHANGED disk,
             rest' = [rest EXCEPT ![t] = [pc |-> "open", s |-> s, e |-> tab[t].epoch]],
             ghost' = Lapse({tab[t].live} \ {0, s})
      PROVE  Finds(t)
  <2> DEFINE e == [r EXCEPT !.live = s]
             n == r.epoch
             c == [pc |-> "open", s |-> s, e |-> n]
             lapsed == ghost.lapsed \cup ({r.live} \ {0, s})
  <2>1. s \in Ids
    BY Numbers
  <2>2. lapsed \in SUBSET Ids
    BY <1>1 DEF Typed, GhostT
  <2>3. ghost' = [ghost EXCEPT !.lapsed = lapsed] /\ rest' = [rest EXCEPT ![t] = c] /\ SetTab(t, e)
    BY <1>2 DEF Lapse, SetTab, Typed
  <2> HIDE DEF n
  <2>4. c \in CallT /\ c.pc = "open" /\ c.s = s /\ c.e = n
    BY <1>1, <2>1 DEF CallT, CallPcs, n
  <2>5. e \in TabT /\ SameStart(r, e) /\ Login(e, s, r.epoch, r.auth, r.loc, r.sec)
    BY <1>1, <2>1 DEF TabT, SameStart, Login
  <2> HIDE DEF c, e, lapsed
  <2>6. /\ ghost' \in GhostT /\ ghost'.quiet = ghost.quiet /\ ghost'.stale = ghost.stale
        /\ ghost'.owed = ghost.owed /\ ghost'.lapsed = lapsed
    BY <2>2, <2>3 DEF Typed, GhostT
  <2>7. OnlyRest(t) /\ rest'[t] = c
    BY <2>3, <2>4 DEF OnlyRest, Typed
  <2>8. Only(t) /\ tab'[t] = e
    BY <2>3, <2>5, SetTabFacts
  <2> QED BY <1>2, <2>4, <2>5, <2>6, <2>7, <2>8 DEF Finds, lapsed, n
<1>3. \A s \in {jar, rest[t].s} \ {0} : s \in Flows
  BY JobFields, Numbers DEF Typed
<1>4. ASSUME RestOver(t), UNCHANGED <<tab, disk, ghost>>
      PROVE  GivesUp(t)
  BY <1>4 DEF GivesUp
<1> QED BY <1>2, <1>3, <1>4, RevokedFacts DEF Resume

LEMMA RestorePutFacts ==
    ASSUME Typed, NEW t \in Tabs, RestorePut(t)
    PROVE  /\ rest[t].pc = "open"
           /\ rest[t].e = tab[t].epoch => Disk(disk.pubky, rest[t].s)
           /\ rest[t].e # tab[t].epoch => Disk(disk.pubky, disk.meta)
           /\ OnlyRest(t) /\ rest'[t].pc = "compare" /\ rest'[t].s = rest[t].s /\ rest'[t].e = rest[t].e
<1>1. "compare" \in CallPcs
  BY DEF CallPcs
<1>2. OnlyRest(t) /\ rest'[t].pc = "compare" /\ rest'[t].s = rest[t].s /\ rest'[t].e = rest[t].e
  BY <1>1, RestPcFacts DEF RestorePut
<1> DEFINE s == rest[t].s
<1>3. s \in Ids
  BY JobFields
<1>4. CASE rest[t].e = tab[t].epoch
  <2>1. disk' = [disk EXCEPT !.meta = s]
    BY <1>4 DEF RestorePut
  <2> HIDE DEF s
  <2>2. Disk(disk.pubky, s)
    BY <1>3, <2>1, MetaFacts
  <2> QED BY <1>2, <1>4, <2>2 DEF RestorePut, s
<1>5. CASE rest[t].e # tab[t].epoch
  BY <1>2, <1>5, SameDisk DEF RestorePut
<1> QED BY <1>4, <1>5

(* The live session is dropped if it is still that of the restore.           *)
Drops(t) ==
    /\ Only(t) /\ SameStart(tab[t], tab'[t])
    /\ Login(tab'[t], IF tab[t].live = rest[t].s THEN 0 ELSE tab[t].live, tab[t].epoch, tab[t].auth,
             tab[t].loc, tab[t].sec)

LEMMA DropsFacts ==
    ASSUME Typed, NEW t \in Tabs,
           SetTab(t, [tab[t] EXCEPT !.live = IF tab[t].live = rest[t].s THEN 0 ELSE tab[t].live])
    PROVE  Drops(t)
<1> DEFINE r == tab[t]
           l == IF tab[t].live = rest[t].s THEN 0 ELSE tab[t].live
           e == [r EXCEPT !.live = l]
<1>1. r \in TabT /\ l \in Ids
  BY TabFields, Numbers
<1>2. SetTab(t, e)
  OBVIOUS
<1> HIDE DEF l
<1>3. e \in TabT /\ SameStart(r, e) /\ Login(e, l, r.epoch, r.auth, r.loc, r.sec)
  BY <1>1 DEF TabT, SameStart, Login
<1> HIDE DEF e
<1>4. Only(t) /\ SameStart(r, tab'[t]) /\ Login(tab'[t], l, r.epoch, r.auth, r.loc, r.sec)
  BY <1>2, <1>3, SetTabFacts
<1> QED BY <1>4 DEF Drops, l

LEMMA RestoreCompareFacts ==
    ASSUME Typed, NEW t \in Tabs, RestoreCompare(t)
    PROVE  /\ rest[t].pc = "compare"
           /\ \/ /\ rest[t].e = tab[t].epoch /\ Disk(disk.pubky, disk.meta) /\ UNCHANGED tab
                 /\ OnlyRest(t) /\ rest'[t].pc = "pubky" /\ rest'[t].s = rest[t].s
                 /\ rest'[t].e = rest[t].e
              \/ /\ rest[t].e # tab[t].epoch /\ Disk(disk.pubky, 0) /\ Drops(t) /\ RestOver(t)
<1> DEFINE e == rest[t].e
<1>1. disk' = TakenBack(e, t)
  BY DEF RestoreCompare
<1>2. "pubky" \in CallPcs
  BY DEF CallPcs
<1>3. CASE e = tab[t].epoch
  <2>1. rest' = [rest EXCEPT ![t].pc = "pubky"] /\ UNCHANGED tab
    BY <1>3 DEF RestoreCompare
  <2> HIDE DEF e
  <2>2. Disk(disk.pubky, disk.meta)
    BY <1>1, <1>3, TakenBackFacts
  <2> QED BY <1>2, <1>3, <2>1, <2>2, RestPcFacts DEF RestoreCompare, e
<1>4. CASE e # tab[t].epoch
  <2>1. RestOver(t)
        /\ SetTab(t, [tab[t] EXCEPT !.live = IF tab[t].live = rest[t].s THEN 0 ELSE tab[t].live])
    BY <1>4 DEF RestoreCompare, SetTab, Typed
  <2> HIDE DEF e
  <2>2. Disk(disk.pubky, 0)
    BY <1>1, <1>4, TakenBackFacts
  <2> QED BY <1>4, <2>1, <2>2, DropsFacts DEF RestoreCompare, e
<1> QED BY <1>3, <1>4

LEMMA RestorePubkyFacts ==
    ASSUME Typed, NEW t \in Tabs, RestorePubky(t)
    PROVE  /\ rest[t].pc = "pubky" /\ Disk(TRUE, disk.meta)
           /\ OnlyRest(t) /\ rest'[t].pc = "last" /\ rest'[t].s = rest[t].s /\ rest'[t].e = rest[t].e
<1>1. "last" \in CallPcs
  BY DEF CallPcs
<1>2. Disk(TRUE, disk.meta)
  BY DEF RestorePubky, Disk, DiskT, Typed
<1> QED BY <1>1, <1>2, RestPcFacts DEF RestorePubky

LEMMA RestoreDoneFacts ==
    ASSUME Typed, NEW t \in Tabs, RestoreDone(t)
    PROVE  /\ rest[t].pc = "last" /\ RestOver(t)
           /\ \/ /\ rest[t].e = tab[t].epoch /\ Only(t) /\ SameStart(tab[t], tab'[t])
                 /\ Login(tab'[t], tab[t].live, tab[t].epoch, TRUE, tab[t].loc, tab[t].sec)
              \/ rest[t].e # tab[t].epoch /\ Drops(t)
<1> DEFINE r == tab[t]
           e == [r EXCEPT !.auth = TRUE]
<1>1. CASE rest[t].e = r.epoch
  <2>1. SetTab(t, e)
    BY <1>1 DEF RestoreDone
  <2>2. e \in TabT /\ SameStart(r, e) /\ Login(e, r.live, r.epoch, TRUE, r.loc, r.sec)
    BY TabFields DEF TabT, SameStart, Login
  <2> HIDE DEF e
  <2> QED BY <1>1, <2>1, <2>2, SetTabFacts DEF RestoreDone
<1>2. CASE rest[t].e # r.epoch
  <2>1. SetTab(t, [tab[t] EXCEPT !.live = IF tab[t].live = rest[t].s THEN 0 ELSE tab[t].live])
    BY <1>2 DEF RestoreDone
  <2> QED BY <1>2, <2>1, DropsFacts DEF RestoreDone
<1> QED BY <1>1, <1>2
LEMMA OutPcFacts ==
    ASSUME Typed, NEW t \in Tabs, NEW pc \in CallPcs, out' = [out EXCEPT ![t].pc = pc]
    PROVE  OnlyOut(t) /\ out'[t].pc = pc /\ out'[t].s = out[t].s
<1> DEFINE r == out[t]
           c == [r EXCEPT !.pc = pc]
<1>1. c \in CallT /\ c.pc = pc /\ c.s = r.s
  BY JobFields DEF CallT
<1>2. out' = [out EXCEPT ![t] = c]
  BY DEF Typed
<1> HIDE DEF c
<1> QED BY <1>1, <1>2 DEF OnlyOut, Typed

LEMMA OutStartFacts ==
    ASSUME Typed, NEW t \in Tabs, OutStart(t)
    PROVE  /\ out[t] = NoCall /\ tab[t].auth
           /\ OnlyOut(t) /\ out'[t].pc = "server" /\ out'[t].s = tab[t].live
           /\ Only(t) /\ SameStart(tab[t], tab'[t])
           /\ Login(tab'[t], 0, tab[t].epoch + 1, tab[t].auth, tab[t].loc, tab[t].sec)
           /\ ghost' \in GhostT /\ ghost'.lapsed = ghost.lapsed /\ ghost'.owed = ghost.owed
           /\ ghost'.stale = ghost.stale /\ (ghost'.quiet = "alone" => Undisturbed(t))
<1> DEFINE r == tab[t]
           n == r.epoch + 1
           s == r.live
           e == [r EXCEPT !.live = 0, !.epoch = n]
           c == [NoCall EXCEPT !.pc = "server", !.s = s]
           q == IF Undisturbed(t) THEN "alone" ELSE "amid"
<1>1. r \in TabT /\ n \in Nat /\ s \in Ids
  BY TabFields
<1>2. SetTab(t, e) /\ out' = [out EXCEPT ![t] = c] /\ ghost' = [ghost EXCEPT !.quiet = q]
  BY DEF OutStart
<1>3. q \in {"no", "alone", "amid"} /\ (q = "alone" => Undisturbed(t))
  OBVIOUS
<1> HIDE DEF n, s, q
<1>4. c \in CallT /\ c.pc = "server" /\ c.s = s
  BY <1>1, FreshCalls DEF CallT, CallPcs
<1>5. e \in TabT /\ SameStart(r, e) /\ Login(e, 0, n, r.auth, r.loc, r.sec)
  BY <1>1, Numbers DEF TabT, SameStart, Login
<1> HIDE DEF e, c
<1>6. /\ ghost' \in GhostT /\ ghost'.lapsed = ghost.lapsed /\ ghost'.owed = ghost.owed
      /\ ghost'.stale = ghost.stale /\ ghost'.quiet = q
  BY <1>2, <1>3 DEF Typed, GhostT
<1>7. OnlyOut(t) /\ out'[t].pc = "server" /\ out'[t].s = s
  BY <1>2, <1>4 DEF OnlyOut, Typed
<1>8. Only(t) /\ SameStart(r, tab'[t]) /\ Login(tab'[t], 0, n, r.auth, r.loc, r.sec)
  BY <1>2, <1>5, SetTabFacts
<1> QED BY <1>3, <1>6, <1>7, <1>8 DEF OutStart, n, s

(* The session is over, or it lapses.                                        *)
LEMMA OutServerFacts ==
    ASSUME Typed, NEW t \in Tabs, OutServer(t)
    PROVE  /\ out[t].pc = "server" /\ OnlyOut(t) /\ out'[t].pc = "clear" /\ out'[t].s = out[t].s
           /\ srv' \in [Flows -> SrvT]
           /\ \A f \in Flows : srv'[f] = srv[f] \/ (f = out[t].s /\ srv'[f] = "out")
           /\ \A f \in Flows : f = out[t].s => srv'[f] = "out" \/ f \in ghost'.lapsed
           /\ ghost' \in GhostT /\ ghost.lapsed \subseteq ghost'.lapsed /\ ghost'.owed = ghost.owed
           /\ ghost'.quiet = ghost.quiet /\ ghost'.stale = ghost.stale
<1>1. "clear" \in CallPcs
  BY DEF CallPcs
<1>2. OnlyOut(t) /\ out'[t].pc = "clear" /\ out'[t].s = out[t].s
  BY <1>1, OutPcFacts DEF OutServer
<1> DEFINE s == out[t].s
           lapsed == ghost.lapsed \cup {s}
<1>3. s \in Ids /\ lapsed \in SUBSET Ids /\ ghost.lapsed \subseteq lapsed /\ s \in lapsed
  BY JobFields DEF Typed, GhostT
<1>4. \/ srv' = (IF s = 0 THEN srv ELSE SignedOut(s)) /\ UNCHANGED ghost
      \/ ghost' = [ghost EXCEPT !.lapsed = lapsed] /\ UNCHANGED srv
  BY DEF OutServer, Lapse
<1> HIDE DEF s, lapsed
<1>5. CASE srv' = (IF s = 0 THEN srv ELSE SignedOut(s)) /\ UNCHANGED ghost
  <2>1. srv' \in [Flows -> SrvT] /\ \A f \in Flows : srv'[f] = (IF f = s THEN "out" ELSE srv[f])
    BY <1>3, <1>5, SignedOutFacts, Numbers DEF Typed
  <2> QED BY <1>2, <1>5, <2>1 DEF OutServer, Typed, s
<1>6. CASE ghost' = [ghost EXCEPT !.lapsed = lapsed] /\ UNCHANGED srv
  <2>1. /\ ghost' \in GhostT /\ ghost'.lapsed = lapsed /\ ghost'.owed = ghost.owed
        /\ ghost'.quiet = ghost.quiet /\ ghost'.stale = ghost.stale
    BY <1>3, <1>6 DEF Typed, GhostT
  <2> QED BY <1>2, <1>3, <1>6, <2>1 DEF OutServer, Typed, s
<1> QED BY <1>4, <1>5, <1>6

LEMMA OutClearFacts ==
    ASSUME Typed, NEW t \in Tabs, OutClear(t)
    PROVE  /\ out[t].pc = "clear" /\ OnlyOut(t) /\ out'[t].pc = "wipe" /\ out'[t].s = out[t].s
           /\ flow' = AbortedFlows(tab[t].conn) /\ srv' = AbortedSrv(tab[t].conn)
           /\ Only(t) /\ SameLogin(tab[t], tab'[t])
           /\ tab'[t].conn = 0 /\ tab'[t].mint = tab[t].mint
           /\ Disk(FALSE, disk.meta) /\ pend' = {}
           /\ ghost' \in GhostT /\ ghost'.lapsed = ghost.lapsed /\ ghost'.owed = {}
           /\ ghost'.quiet = ghost.quiet
           /\ ghost'.stale = ghost.stale \cup {u \in Tabs \ {t} : tab[u].auth}
                                         \cup {u \in {t} : job[u] # NoJob}
<1> DEFINE r == tab[t]
           e == [r EXCEPT !.conn = 0, !.lock = 0]
           stale == ghost.stale \cup {u \in Tabs \ {t} : tab[u].auth}
                                \cup {u \in {t} : job[u] # NoJob}
<1>1. "wipe" \in CallPcs /\ r \in TabT /\ stale \in SUBSET Tabs
  BY TabFields DEF CallPcs, Typed, GhostT
<1>2. SetTab(t, e) /\ ghost' = [ghost EXCEPT !.owed = {}, !.stale = stale]
  BY DEF OutClear
<1>3. e \in TabT /\ SameLogin(r, e) /\ e.conn = 0 /\ e.mint = r.mint
  BY <1>1, Numbers DEF TabT, SameLogin
<1> HIDE DEF e
<1>4. OnlyOut(t) /\ out'[t].pc = "wipe" /\ out'[t].s = out[t].s
  BY <1>1, OutPcFacts DEF OutClear
<1>5. Disk(FALSE, disk.meta)
  BY DEF OutClear, Disk, DiskT, Typed
<1>6. Only(t) /\ SameLogin(r, tab'[t]) /\ tab'[t].conn = 0 /\ tab'[t].mint = r.mint
  BY <1>2, <1>3, SetTabFacts
<1>7. stale = ghost.stale \cup {u \in Tabs \ {t} : tab[u].auth} \cup {u \in {t} : job[u] # NoJob}
  OBVIOUS
<1> HIDE DEF stale
<1>8. /\ ghost' \in GhostT /\ ghost'.lapsed = ghost.lapsed /\ ghost'.owed = {}
      /\ ghost'.quiet = ghost.quiet /\ ghost'.stale = stale
  BY <1>1, <1>2 DEF Typed, GhostT
<1> QED BY <1>4, <1>5, <1>6, <1>7, <1>8 DEF OutClear

LEMMA OutWipeFacts ==
    ASSUME Typed, NEW t \in Tabs, OutWipe(t)
    PROVE  /\ out[t].pc = "wipe" /\ OnlyOut(t) /\ out'[t] = NoCall /\ Disk(disk.pubky, 0)
           /\ Only(t) /\ SameStart(tab[t], tab'[t])
           /\ Login(tab'[t], tab[t].live, tab[t].epoch + 1, FALSE, tab[t].loc, tab[t].sec)
           /\ ghost' \in GhostT /\ ghost.lapsed \subseteq ghost'.lapsed /\ ghost'.owed = ghost.owed
           /\ ghost'.quiet = ghost.quiet
           /\ ghost'.stale = {u \in ghost.stale : u # t \/ job[u] # NoJob}
<1> DEFINE r == tab[t]
           n == r.epoch + 1
           e == [r EXCEPT !.epoch = n, !.auth = FALSE]
           lapsed == ghost.lapsed \cup ({disk.meta} \ {0})
           stale == {u \in ghost.stale : u # t \/ job[u] # NoJob}
<1>1. r \in TabT /\ n \in Nat /\ disk.meta \in Ids
  BY TabFields DEF Typed, DiskT
<1>2. /\ lapsed \in SUBSET Ids /\ stale \in SUBSET Tabs /\ ghost.lapsed \subseteq lapsed
      /\ stale = {u \in ghost.stale : u # t \/ job[u] # NoJob}
  BY <1>1 DEF Typed, GhostT
<1>3. SetTab(t, e) /\ ghost' = [ghost EXCEPT !.lapsed = lapsed, !.stale = stale]
      /\ disk' = [disk EXCEPT !.meta = 0] /\ out' = [out EXCEPT ![t] = NoCall]
  BY DEF OutWipe
<1> HIDE DEF n, lapsed, stale
<1>4. e \in TabT /\ SameStart(r, e) /\ Login(e, r.live, n, FALSE, r.loc, r.sec)
  BY <1>1 DEF TabT, SameStart, Login
<1> HIDE DEF e
<1>5. Only(t) /\ SameStart(r, tab'[t]) /\ Login(tab'[t], r.live, n, FALSE, r.loc, r.sec)
  BY <1>3, <1>4, SetTabFacts
<1>6. /\ ghost' \in GhostT /\ ghost'.lapsed = lapsed /\ ghost'.owed = ghost.owed
      /\ ghost'.quiet = ghost.quiet /\ ghost'.stale = stale
  BY <1>2, <1>3 DEF Typed, GhostT
<1>7. OnlyOut(t) /\ out'[t] = NoCall /\ Disk(disk.pubky, 0)
  BY <1>3, FreshCalls, MetaFacts, Numbers DEF OnlyOut, Typed
<1> QED BY <1>2, <1>5, <1>6, <1>7 DEF OutWipe, n

-------------------------------------------------------------------------------
(* Page loads                                                                *)

LEMMA LoadedFacts ==
    ASSUME Typed, NEW t \in Tabs, NEW page \in Ids, Loaded(t, page)
    PROVE  /\ Only(t) /\ SameStart(NewTab, tab'[t]) /\ UNCHANGED <<disk, pend, past, ring, srv, jar>>
           /\ tab'[t].live = 0 /\ tab'[t].epoch = 0 /\ tab'[t].loc = tab[t].loc /\ tab'[t].sec = 0
           /\ tab'[t].auth => disk.pubky
           /\ flow' \in [Flows -> FlowT]
           /\ \A f \in Flows :
                IF flow[f].kind # "none" /\ flow[f].tab = t
                THEN /\ flow'[f].kind = flow[f].kind /\ flow'[f].tab = t /\ flow'[f].ph = "gone"
                     /\ flow'[f].got = FALSE /\ flow'[f].ch = flow[f].ch
                ELSE flow'[f] = flow[f]
           /\ OnlyJob(t) /\ job'[t] = NoJob /\ OnlyRest(t) /\ rest'[t] = NoCall
           /\ OnlyOut(t) /\ out'[t] = NoCall
           /\ ghost' \in GhostT /\ ghost'.owed = ghost.owed /\ ghost'.stale = ghost.stale \ {t}
           /\ ghost'.quiet = (IF out[t] = NoCall THEN ghost.quiet ELSE "no")
           /\ ghost.lapsed \subseteq ghost'.lapsed
           /\ {job[t].s, tab[t].live, rest[t].s, out[t].s} \ {0} \subseteq ghost'.lapsed
           /\ \A f \in Flows : flow[f].tab = t /\ flow[f].got => f \in ghost'.lapsed
<1> DEFINE loc == tab[t].loc
           auth == disk.pubky /\ disk.keys # "none"
           e == [NewTab EXCEPT !.loc = loc, !.page = page, !.auth = auth]
           gone(f) == [flow[f] EXCEPT !.ph = "gone", !.got = FALSE]
           lost == {job[t].s, tab[t].live, rest[t].s, out[t].s}
           got == {f \in Flows : flow[f].tab = t /\ flow[f].got}
           lapsed == ghost.lapsed \cup ((lost \cup got) \ {0})
           stale == ghost.stale \ {t}
           quiet == IF out[t] = NoCall THEN ghost.quiet ELSE "no"
<1>1. /\ SetTab(t, e)
      /\ flow' = [f \in Flows |-> IF flow[f].kind # "none" /\ flow[f].tab = t
                                  THEN gone(f) ELSE flow[f]]
      /\ ghost' = [ghost EXCEPT !.lapsed = lapsed, !.stale = stale, !.quiet = quiet]
  BY DEF Loaded
<1>2. loc \in Ids /\ auth \in BOOLEAN /\ quiet \in {"no", "alone", "amid"} /\ lost \subseteq Ids
  BY TabFields, JobFields DEF Typed, GhostT
<1>3. /\ lapsed \in SUBSET Ids /\ stale \in SUBSET Tabs /\ stale = ghost.stale \ {t}
      /\ ghost.lapsed \subseteq lapsed /\ lost \ {0} \subseteq lapsed
      /\ \A f \in Flows : flow[f].tab = t /\ flow[f].got => f \in lapsed
  BY <1>2, Numbers DEF Typed, GhostT
<1>4. quiet = (IF out[t] = NoCall THEN ghost.quiet ELSE "no")
  OBVIOUS
<1>5. auth => disk.pubky
  OBVIOUS
<1>6. \A f \in Flows : /\ gone(f) \in FlowT /\ gone(f).kind = flow[f].kind /\ gone(f).tab = flow[f].tab
                       /\ gone(f).ph = "gone" /\ gone(f).got = FALSE
                       /\ gone(f).ch = flow[f].ch
  <2>1. ASSUME NEW r \in FlowT
        PROVE  LET g == [r EXCEPT !.ph = "gone", !.got = FALSE]
               IN  g \in FlowT /\ g.kind = r.kind /\ g.tab = r.tab /\ g.ph = "gone" /\ g.got = FALSE
                  /\ g.ch = r.ch
    BY DEF FlowT, Phases
  <2> QED BY <2>1 DEF Typed
<1> HIDE DEF loc, auth, gone, lost, lapsed, stale, quiet
<1>7. /\ e \in TabT /\ SameStart(NewTab, e) /\ e.live = 0 /\ e.epoch = 0 /\ e.loc = loc /\ e.sec = 0
      /\ e.auth = auth
  BY <1>2, FreshTab DEF TabT, SameStart
<1> HIDE DEF e
<1>8. Only(t) /\ tab'[t] = e
  BY <1>1, <1>7, SetTabFacts
<1>9. flow' \in [Flows -> FlowT]
  BY <1>1, <1>6 DEF Typed
<1>10. \A f \in Flows :
          IF flow[f].kind # "none" /\ flow[f].tab = t
          THEN /\ flow'[f].kind = flow[f].kind /\ flow'[f].tab = t /\ flow'[f].ph = "gone"
               /\ flow'[f].got = FALSE /\ flow'[f].ch = flow[f].ch
          ELSE flow'[f] = flow[f]
  BY <1>1, <1>6
<1>11. OnlyJob(t) /\ job'[t] = NoJob
  BY JobOverFacts DEF Loaded, JobOver
<1>12. OnlyRest(t) /\ rest'[t] = NoCall
  BY RestOverFacts DEF Loaded, RestOver
<1>13. OnlyOut(t) /\ out'[t] = NoCall
  BY FreshCalls DEF Loaded, OnlyOut, Typed
<1>14. /\ ghost' \in GhostT /\ ghost'.lapsed = lapsed /\ ghost'.owed = ghost.owed
       /\ ghost'.quiet = quiet /\ ghost'.stale = stale
  BY <1>1, <1>2, <1>3 DEF Typed, GhostT
<1>15. UNCHANGED <<disk, pend, past, ring, srv, jar>>
  BY DEF Loaded
<1>16. /\ SameStart(NewTab, tab'[t])
       /\ tab'[t].live = 0 /\ tab'[t].epoch = 0 /\ tab'[t].loc = tab[t].loc /\ tab'[t].sec = 0
       /\ tab'[t].auth => disk.pubky
  BY <1>5, <1>7, <1>8 DEF loc
<1>17. /\ ghost'.stale = ghost.stale \ {t} /\ ghost.lapsed \subseteq ghost'.lapsed
       /\ ghost'.quiet = (IF out[t] = NoCall THEN ghost.quiet ELSE "no")
       /\ \A f \in Flows : flow[f].tab = t /\ flow[f].got => f \in ghost'.lapsed
  BY <1>3, <1>4, <1>14
<1>18. {job[t].s, tab[t].live, rest[t].s, out[t].s} \ {0} \subseteq ghost'.lapsed
  BY <1>3, <1>14 DEF lost
<1> QED BY <1>8, <1>9, <1>10, <1>11, <1>12, <1>13, <1>14, <1>15, <1>16, <1>17, <1>18

LEMMA CallbackAdoptFacts ==
    ASSUME Typed, NEW t \in Tabs, CallbackAdopt(t)
    PROVE  /\ tab[t].live # 0 /\ rest[t] = NoCall /\ CanAdopt(t)
           /\ OnlyJob(t) /\ job'[t].s = tab[t].live /\ job'[t].pc = "acquire"
           /\ job'[t].via # "enable"
           /\ Only(t) /\ SameStart(tab[t], tab'[t]) /\ SameLogin(tab[t], tab'[t])
<1> DEFINE r == tab[t]
           f == r.page
           via == IF ring[f] = "legacy" THEN "legacy" ELSE "single"
           e == [r EXCEPT !.page = 0]
<1>1. r \in TabT /\ f \in Ids /\ r.live \in Ids
  BY TabFields
<1>2. e \in TabT /\ SameStart(r, e) /\ SameLogin(r, e)
  BY <1>1, Numbers DEF TabT, SameStart, SameLogin
<1>3. SetTab(t, e)
  BY DEF CallbackAdopt, SetTab, Typed
<1> HIDE DEF e
<1>4. Only(t) /\ SameStart(r, tab'[t]) /\ SameLogin(r, tab'[t])
  BY <1>2, <1>3, SetTabFacts
<1>5. job' = Adopt(t, via, r.live, f) /\ via \in {"single", "legacy"}
  BY DEF CallbackAdopt
<1> HIDE DEF via, f
<1>6. OnlyJob(t) /\ job'[t].s = r.live /\ job'[t].pc = "acquire" /\ job'[t].via = via
  BY <1>1, <1>5, AdoptFacts
<1> QED BY <1>4, <1>5, <1>6 DEF CallbackAdopt
-------------------------------------------------------------------------------
(* Types                                                                     *)

LEMMA TypedInit ==
    ASSUME SiInit
    PROVE  Typed
<1>1. disk \in DiskT
  BY Numbers DEF SiInit, DiskT
<1>2. ghost \in GhostT
  BY DEF SiInit, GhostT
<1>3. /\ pend = {} /\ past = {} /\ jar \in Ids /\ ring \in [Flows -> Locators \cup {"none"}]
      /\ srv \in [Flows -> SrvT] /\ \A f \in Flows : srv[f] = "none"
  BY Numbers DEF SiInit, SrvT
<1>4. flow \in [Flows -> FlowT] /\ \A f \in Flows : flow[f] = NoFlow
  BY FreshFlow DEF SiInit
<1>5. tab \in [Tabs -> TabT]
  BY FreshTab DEF SiInit
<1>6. job \in [Tabs -> JobT] /\ rest \in [Tabs -> CallT] /\ out \in [Tabs -> CallT]
  BY FreshCalls DEF SiInit
<1>7. used \in [Things -> Nat]
  BY DEF SiInit
<1> QED BY <1>1, <1>2, <1>3, <1>4, <1>5, <1>6, <1>7, FreshFlow DEF Typed

(* How a step may change the flows: one starts in a tab, the others keep     *)
(* their kind and their tab.                                                 *)
FlowsOK ==
    /\ flow' \in [Flows -> FlowT] /\ srv' \in [Flows -> SrvT]
    /\ \A f \in Flows :
         \/ flow'[f].kind # "none" /\ flow'[f].tab \in Tabs
         \/ flow'[f].kind = "none" /\ ~flow'[f].got /\ srv'[f] # "granted"

LEMMA FlowsKept ==
    ASSUME Typed, srv' \in [Flows -> SrvT], \A f \in Flows : srv'[f] # "granted" \/ srv'[f] = srv[f],
           flow' \in [Flows -> FlowT],
           \A f \in Flows : \/ flow'[f] = flow[f]
                            \/ /\ flow'[f].kind = flow[f].kind /\ flow'[f].tab = flow[f].tab
                               /\ flow'[f].got = flow[f].got \/ flow'[f].got = FALSE \/ flow[f].kind # "none"
                            \/ flow'[f].kind # "none" /\ flow'[f].tab \in Tabs
    PROVE  FlowsOK
BY DEF FlowsOK, Typed

LEMMA FlowsSame ==
    ASSUME Typed, UNCHANGED flow, srv' \in [Flows -> SrvT],
           \A f \in Flows : srv'[f] # "granted" \/ srv'[f] = srv[f]
    PROVE  FlowsOK
BY DEF FlowsOK, Typed

LEMMA AbortedOK ==
    ASSUME Typed, NEW c \in Ids, flow' = AbortedFlows(c), srv' = AbortedSrv(c)
    PROVE  FlowsOK
<1>1. CASE c = 0
  BY <1>1, FlowsSame DEF AbortedFlows, AbortedSrv, Typed
<1>2. CASE c # 0
  <2>1. c \in Flows /\ flow' \in [Flows -> FlowT] /\ srv' \in [Flows -> SrvT]
    BY <1>2, AbortedFacts, Numbers
  <2> DEFINE fl == AbortedFlows(c)
             sr == AbortedSrv(c)
  <2>5. /\ \A f \in Flows : f # c => fl[f] = flow[f]
        /\ \A f \in Flows : sr[f] = srv[f] \/ sr[f] = "out"
    BY AbortedFacts
  <2>6. flow' = fl /\ srv' = sr
    OBVIOUS
  <2> HIDE DEF fl, sr
  <2>2. \A f \in Flows : srv'[f] = srv[f] \/ srv'[f] = "out"
    BY <2>5, <2>6
  <2>3. \A f \in Flows : f # c => flow'[f] = flow[f]
    BY <2>5, <2>6
  <2>4. flow'[c].kind = flow[c].kind /\ flow'[c].tab = flow[c].tab /\ flow'[c].got = FALSE
    BY <1>2, AbortedFacts
  <2> QED BY <2>1, <2>2, <2>3, <2>4, FlowsKept
<1> QED BY <1>1, <1>2

LEMMA EndedOK ==
    ASSUME Typed, NEW f \in Flows, flow' = Ended(f), srv' \in [Flows -> SrvT],
           \A g \in Flows : srv'[g] # "granted" \/ srv'[g] = srv[g]
    PROVE  FlowsOK
BY EndedFacts, FlowsKept DEF Over

(* The types of the next state, the counts aside.                            *)
TypedThen == used' \in [Things -> Nat] => Typed'

LEMMA TypedNext ==
    ASSUME Typed, FlowsOK, disk' \in DiskT, pend' \subseteq Flows, past' \subseteq Flows, jar' \in Ids,
           ring' \in [Flows -> Locators \cup {"none"}], tab' \in [Tabs -> TabT], job' \in [Tabs -> JobT],
           rest' \in [Tabs -> CallT], out' \in [Tabs -> CallT], ghost' \in GhostT
    PROVE  TypedThen
BY DEF Typed, FlowsOK, TypedThen

LEMMA TypedFlowStep ==
    ASSUME Typed, NEW f \in Flows, FlowStep(f)
    PROVE  TypedThen
<1>0. /\ disk \in DiskT /\ pend \subseteq Flows /\ past \subseteq Flows /\ jar \in Ids
      /\ ring \in [Flows -> Locators \cup {"none"}] /\ srv \in [Flows -> SrvT] /\ flow \in [Flows -> FlowT]
      /\ tab \in [Tabs -> TabT] /\ job \in [Tabs -> JobT] /\ rest \in [Tabs -> CallT]
      /\ out \in [Tabs -> CallT] /\ ghost \in GhostT /\ f \in Ids
  BY Numbers DEF Typed
<1>1. CASE RingApprove(f)
  <2>1. /\ flow' \in [Flows -> FlowT] /\ SameFlow(flow[f], flow'[f])
        /\ \A g \in Flows : g # f => flow'[g] = flow[g]
        /\ ghost' \in GhostT
    BY <1>1, RingApproveFacts
  <2>2. srv' \in [Flows -> SrvT] /\ flow[f].kind # "none" /\ \A g \in Flows : g # f => srv'[g] = srv[g]
    BY <1>0, <1>1 DEF RingApprove, SrvT
  <2>3. FlowsOK
    BY <2>1, <2>2 DEF FlowsOK, SameFlow, Typed
  <2> QED BY <1>0, <1>1, <2>1, <2>3, TypedNext DEF RingApprove
<1>2. CASE \E l \in Locators : RingPost(f, l)
  <2>1. FlowsOK
    BY <1>0, <1>2, FlowsSame DEF RingPost
  <2>2. ring' \in [Flows -> Locators \cup {"none"}]
    BY <1>0, <1>2 DEF RingPost
  <2> QED BY <1>0, <1>2, <2>1, <2>2, TypedNext DEF RingPost
<1>3. CASE Locator(f)
  <2>1. FlowsOK
    <3>1. flow' \in [Flows -> FlowT] /\ flow'[f].kind = "connect" /\ flow'[f].tab \in Tabs /\ UNCHANGED srv
          /\ \A g \in Flows : g # f => flow'[g] = flow[g]
      BY <1>3, LocatorFacts DEF Locator
    <3> QED BY <1>0, <3>1, FlowsKept
  <2>2. tab' \in [Tabs -> TabT] /\ ghost' \in GhostT
    BY <1>3, LocatorFacts, OnlyFacts
  <2> QED BY <1>0, <1>3, <2>1, <2>2, TypedNext DEF Locator
<1>4. CASE Payload(f)
  <2>1. UNCHANGED <<disk, pend, past, ring, jar, rest, out, used, ghost>> /\ UNCHANGED srv
    BY <1>4 DEF Payload
  <2>2. flow[f].kind = "connect" /\ flow[f].tab \in Tabs
    BY <1>4, PayloadFacts
  <2>3. CASE PayloadOld(f)
    <3>1. FlowsOK
      BY <1>0, <2>1, <2>2, <2>3, FlowsKept DEF PayloadOld, Over
    <3>2. tab' \in [Tabs -> TabT] /\ UNCHANGED job
      BY <2>2, <2>3, SettledFacts, OnlyFacts DEF PayloadOld
    <3> QED BY <1>0, <2>1, <3>1, <3>2, TypedNext
  <2>4. CASE PayloadWaits(f)
    <3>1. FlowsOK
      BY <1>0, <2>1, <2>2, <2>4, FlowsKept DEF PayloadWaits
    <3> QED BY <1>0, <2>1, <2>4, <3>1, TypedNext DEF PayloadWaits
  <2>5. CASE PayloadAdopted(f)
    <3>1. FlowsOK
      BY <1>0, <2>1, <2>5, EndedOK DEF PayloadAdopted
    <3>2. tab' \in [Tabs -> TabT] /\ job' \in [Tabs -> JobT]
      BY <1>0, <2>2, <2>5, SettledFacts, OnlyFacts, AdoptFacts DEF PayloadAdopted, OnlyJob
    <3> QED BY <1>0, <2>1, <3>1, <3>2, TypedNext
  <2> QED BY <1>4, <2>3, <2>4, <2>5, PayloadFacts
<1>5. CASE WatchFails(f)
  <2>1. /\ flow[f].kind = "connect" /\ flow[f].tab \in Tabs /\ flow' = Ended(f) /\ tab' = Settled(f)
        /\ srv' = AbortedSrv(f)
    BY <1>5, WatchFailsFacts
  <2>2. FlowsOK
    BY <1>0, <2>1, AbortedFacts, EndedOK
  <2>3. tab' \in [Tabs -> TabT]
    BY <2>1, SettledFacts, OnlyFacts
  <2> QED BY <1>0, <1>5, <2>2, <2>3, TypedNext DEF WatchFails
<1>6. CASE Session(f)
  <2>1. UNCHANGED <<disk, pend, past, ring, rest, out, used, ghost>>
    BY <1>6 DEF Session
  <2>2. srv[f] = "granted" /\ flow[f].tab \in Tabs /\ flow[f].kind # "none"
    BY <1>6, SessionFacts DEF Typed
  <2>3. CASE SessionOver(f)
    <3>1. srv' \in [Flows -> SrvT] /\ \A g \in Flows : srv'[g] # "granted" \/ srv'[g] = srv[g]
      BY <1>0, <2>3 DEF SessionOver, SrvT
    <3>2. FlowsOK
      BY <3>1, <2>3, FlowsSame DEF SessionOver
    <3> QED BY <1>0, <2>1, <2>3, <3>2, TypedNext DEF SessionOver
  <2>4. CASE SessionWaits(f)
    <3>1. srv' \in [Flows -> SrvT] /\ \A g \in Flows : srv'[g] # "granted" \/ srv'[g] = srv[g]
      BY <1>0, <2>4 DEF SessionWaits, SrvT
    <3>2. FlowsOK
      BY <2>2, <2>4, <3>1, FlowsKept DEF SessionWaits
    <3> QED BY <1>0, <2>1, <2>4, <3>2, TypedNext DEF SessionWaits
  <2>5. CASE SessionAdopted(f)
    <3>1. srv' \in [Flows -> SrvT] /\ \A g \in Flows : srv'[g] # "granted" \/ srv'[g] = srv[g]
      BY <1>0, <2>5 DEF SessionAdopted, SrvT
    <3>2. FlowsOK
      BY <2>5, <3>1, EndedOK DEF SessionAdopted
    <3>3. tab' \in [Tabs -> TabT]
      BY <1>0, <2>2, <2>5, SettledFacts, OnlyFacts DEF SessionAdopted
    <3>4. job' \in [Tabs -> JobT]
      BY <1>0, <2>2, <2>5, AdoptFacts DEF SessionAdopted, OnlyJob
    <3> QED BY <1>0, <2>1, <2>5, <3>2, <3>3, <3>4, TypedNext DEF SessionAdopted
  <2> QED BY <1>6, <2>3, <2>4, <2>5, SessionFacts
<1>7. CASE Deadline(f)
  <2>1. UNCHANGED <<disk, pend, ring, jar, job, rest, out, used>>
    BY <1>7 DEF Deadline
  <2>2. ghost' \in GhostT /\ past' \subseteq Flows /\ flow[f].kind = "connect"
    BY <1>7, DeadlineFacts DEF Gave, SamePast
  <2>3. CASE Watching(f) /\ flow' = Ended(f) /\ tab' = Settled(f) /\ srv' = AbortedSrv(f)
    <3>1. FlowsOK
      BY <1>0, <2>3, AbortedFacts, EndedOK
    <3>2. tab' \in [Tabs -> TabT]
      BY <2>2, <2>3, SettledFacts, OnlyFacts
    <3> QED BY <1>0, <2>1, <2>2, <3>1, <3>2, TypedNext
  <2>4. CASE UNCHANGED <<flow, tab, srv>>
    <3>1. FlowsOK
      BY <1>0, <2>4, FlowsSame
    <3> QED BY <1>0, <2>1, <2>2, <2>4, <3>1, TypedNext
  <2> QED BY <1>7, <2>3, <2>4, DeadlineFacts
<1> QED BY <1>1, <1>2, <1>3, <1>4, <1>5, <1>6, <1>7 DEF FlowStep
LEMMA QuietFlows ==
    ASSUME Typed, UNCHANGED <<flow, srv>>
    PROVE  FlowsOK
BY FlowsSame DEF Typed

(* A step of an adoption keeps the types.                                    *)
LEMMA TypedJobNext ==
    ASSUME Typed, NEW t \in Tabs, UNCHANGED <<past, ring, jar, flow, rest, out>>,
           UNCHANGED srv \/ srv' = SignedOut(job[t].s),
           disk' \in DiskT, pend' \subseteq Flows, UNCHANGED tab \/ Only(t), OnlyJob(t), ghost' \in GhostT
    PROVE  TypedThen
<1>1. FlowsOK
  <2>1. CASE UNCHANGED srv
    BY <2>1, QuietFlows
  <2>2. CASE srv' = SignedOut(job[t].s)
    <3> DEFINE s == job[t].s
    <3>1. s \in Ids
      BY JobFields
    <3> HIDE DEF s
    <3>2. srv' = SignedOut(s)
      BY <2>2 DEF s
    <3>3. srv' \in [Flows -> SrvT] /\ \A f \in Flows : srv'[f] # "granted" \/ srv'[f] = srv[f]
      BY <3>1, <3>2, SignedOutFacts
    <3> QED BY <3>3, FlowsSame
  <2> QED BY <2>1, <2>2
<1>2. tab' \in [Tabs -> TabT]
  BY OnlyFacts DEF Typed
<1>3. /\ past' \subseteq Flows /\ jar' \in Ids /\ ring' \in [Flows -> Locators \cup {"none"}]
      /\ rest' \in [Tabs -> CallT] /\ out' \in [Tabs -> CallT]
  BY DEF Typed
<1> QED BY <1>1, <1>2, <1>3, TypedNext DEF OnlyJob

LEMMA TypedJobStep ==
    ASSUME Typed, NEW t \in Tabs, JobStep(t)
    PROVE  TypedThen
<1>0. disk \in DiskT /\ pend \subseteq Flows /\ ghost \in GhostT
  BY DEF Typed
<1>p. \A pc \in JobPcs : Goto(t, pc) => OnlyJob(t)
  BY GotoFacts
<1>q. /\ Goto(t, "bind") \/ Goto(t, "persist") \/ Goto(t, "pubky") \/ Goto(t, "commit") \/ Goto(t, "try")
         \/ Goto(t, "keys") \/ Goto(t, "rest") \/ Goto(t, "clear") \/ Goto(t, "locator")
         \/ Goto(t, "provision") \/ JobOver(t)
      => OnlyJob(t)
  BY <1>p, JobOverFacts DEF JobPcs
<1>1. CASE Acquire(t)
  <2>1. (UNCHANGED tab \/ Only(t)) /\ OnlyJob(t)
    BY <1>1, <1>q, AcquireFacts
  <2> QED BY <1>0, <1>1, <2>1, TypedJobNext DEF Acquire
<1>2. CASE Check(t)
  <2>1. /\ UNCHANGED tab \/ Only(t)
        /\ OnlyJob(t) /\ disk' \in DiskT
        /\ UNCHANGED srv \/ srv' = SignedOut(job[t].s)
    BY <1>0, <1>2, <1>q, CheckFacts DEF CheckRefuses, Disk
  <2> QED BY <1>0, <1>2, <2>1, TypedJobNext DEF Check
<1>3. CASE Bind(t)
  <2>1. /\ UNCHANGED tab \/ Only(t)
        /\ OnlyJob(t) /\ ghost' \in GhostT
        /\ UNCHANGED srv \/ srv' = SignedOut(job[t].s)
    BY <1>0, <1>3, <1>q, BindFacts DEF BindRefuses, Binds
  <2> QED BY <1>0, <1>3, <2>1, TypedJobNext DEF Bind
<1>4. CASE Persist(t)
  <2>1. OnlyJob(t) /\ disk' \in DiskT /\ UNCHANGED tab
    BY <1>0, <1>4, <1>q, PersistFacts DEF Disk
  <2> QED BY <1>0, <1>4, <2>1, TypedJobNext DEF Persist
<1>5. CASE Compare(t)
  <2>1. OnlyJob(t) /\ disk' \in DiskT /\ UNCHANGED tab
    BY <1>0, <1>5, <1>q, CompareFacts DEF Disk
  <2> QED BY <1>0, <1>5, <2>1, TypedJobNext DEF Compare
<1>6. CASE Pubky(t)
  <2>1. OnlyJob(t) /\ disk' \in DiskT /\ UNCHANGED tab
    BY <1>0, <1>6, <1>q, PubkyFacts DEF Disk
  <2> QED BY <1>0, <1>6, <2>1, TypedJobNext DEF Pubky
<1>7. CASE Commit(t)
  <2>1. OnlyJob(t) /\ disk' \in DiskT /\ (UNCHANGED tab \/ Only(t))
    BY <1>0, <1>7, <1>q, CommitFacts DEF Disk
  <2> QED BY <1>0, <1>7, <2>1, TypedJobNext DEF Commit
<1>8. CASE TryPending(t)
  <2>1. OnlyJob(t) /\ (UNCHANGED tab \/ Only(t))
    BY <1>0, <1>8, <1>q, TryPendingFacts
  <2> QED BY <1>0, <1>8, <2>1, TypedJobNext DEF TryPending
<1>9. CASE Keys(t)
  <2>1. OnlyJob(t) /\ disk' \in DiskT
    BY <1>0, <1>9, <1>q, KeysFacts DEF Disk
  <2> QED BY <1>0, <1>9, <2>1, TypedJobNext DEF Keys
<1>10. CASE RestOfKeys(t)
  <2>1. OnlyJob(t) /\ disk' \in DiskT /\ ghost' \in GhostT
    BY <1>0, <1>10, <1>q, RestOfKeysFacts DEF Disk
  <2> QED BY <1>0, <1>10, <2>1, TypedJobNext DEF RestOfKeys
<1>11. CASE ClearPending(t)
  <2>1. OnlyJob(t) /\ pend' \subseteq Flows
    BY <1>0, <1>11, <1>q DEF ClearPending
  <2> QED BY <1>0, <1>11, <2>1, TypedJobNext DEF ClearPending
<1>12. CASE ClearLocator(t)
  <2>1. OnlyJob(t) /\ Only(t)
    BY <1>0, <1>12, <1>q, ClearLocatorFacts
  <2> QED BY <1>0, <1>12, <2>1, TypedJobNext DEF ClearLocator
<1>13. CASE Provision(t)
  <2>1. OnlyJob(t) /\ Only(t) /\ disk' \in DiskT
    BY <1>0, <1>13, <1>q, ProvisionFacts DEF Disk
  <2> QED BY <1>0, <1>13, <2>1, TypedJobNext DEF Provision
<1> QED BY <1>1, <1>2, <1>3, <1>4, <1>5, <1>6, <1>7, <1>8, <1>9, <1>10, <1>11, <1>12, <1>13 DEF JobStep

(* The restore and the sign-out of a tab.                                    *)
CallStep(t) ==
    \/ RestoreStart(t) \/ Resume(t) \/ RestorePut(t) \/ RestoreCompare(t) \/ RestorePubky(t) \/ RestoreDone(t)
    \/ OutStart(t) \/ OutServer(t) \/ OutClear(t) \/ OutWipe(t)

LEMMA TypedCallNext ==
    ASSUME Typed, NEW t \in Tabs, UNCHANGED <<past, ring, jar, job>>, FlowsOK,
           disk' \in DiskT, pend' \subseteq Flows, UNCHANGED tab \/ Only(t),
           UNCHANGED rest \/ OnlyRest(t), UNCHANGED out \/ OnlyOut(t), ghost' \in GhostT
    PROVE  TypedThen
<1>1. tab' \in [Tabs -> TabT]
  BY OnlyFacts DEF Typed
<1>2. rest' \in [Tabs -> CallT] /\ out' \in [Tabs -> CallT]
  BY DEF OnlyRest, OnlyOut, Typed
<1>3. /\ past' \subseteq Flows /\ jar' \in Ids /\ ring' \in [Flows -> Locators \cup {"none"}]
      /\ job' \in [Tabs -> JobT]
  BY DEF Typed
<1> QED BY <1>1, <1>2, <1>3, TypedNext

LEMMA TypedCallStep ==
    ASSUME Typed, NEW t \in Tabs, CallStep(t)
    PROVE  TypedThen
<1>0. disk \in DiskT /\ pend \subseteq Flows /\ ghost \in GhostT /\ tab[t].conn \in Ids
  BY TabFields DEF Typed
<1>q. UNCHANGED <<flow, srv>> => FlowsOK
  BY QuietFlows
<1>1. CASE RestoreStart(t)
  <2>1. OnlyRest(t)
    BY <1>1, RestoreStartFacts
  <2> QED BY <1>0, <1>1, <1>q, <2>1, TypedCallNext DEF RestoreStart
<1>2. CASE Resume(t)
  <2>1. /\ OnlyRest(t) /\ disk' \in DiskT /\ ghost' \in GhostT
        /\ UNCHANGED tab \/ Only(t)
    BY <1>0, <1>2, ResumeFacts, RestOverFacts DEF Finds, GivesUp, Disk
  <2> QED BY <1>0, <1>2, <1>q, <2>1, TypedCallNext DEF Resume
<1>3. CASE RestorePut(t)
  <2>1. OnlyRest(t) /\ disk' \in DiskT
    BY <1>3, RestorePutFacts DEF Disk
  <2> QED BY <1>0, <1>3, <1>q, <2>1, TypedCallNext DEF RestorePut
<1>4. CASE RestoreCompare(t)
  <2>1. OnlyRest(t) /\ disk' \in DiskT /\ (UNCHANGED tab \/ Only(t))
    BY <1>4, RestoreCompareFacts, RestOverFacts DEF Disk, Drops
  <2> QED BY <1>0, <1>4, <1>q, <2>1, TypedCallNext DEF RestoreCompare
<1>5. CASE RestorePubky(t)
  <2>1. OnlyRest(t) /\ disk' \in DiskT
    BY <1>5, RestorePubkyFacts DEF Disk
  <2> QED BY <1>0, <1>5, <1>q, <2>1, TypedCallNext DEF RestorePubky
<1>6. CASE RestoreDone(t)
  <2>1. OnlyRest(t) /\ Only(t)
    BY <1>6, RestoreDoneFacts, RestOverFacts DEF Drops
  <2> QED BY <1>0, <1>6, <1>q, <2>1, TypedCallNext DEF RestoreDone
<1>7. CASE OutStart(t)
  <2>1. OnlyOut(t) /\ Only(t) /\ ghost' \in GhostT
    BY <1>7, OutStartFacts
  <2> QED BY <1>0, <1>7, <1>q, <2>1, TypedCallNext DEF OutStart
<1>8. CASE OutServer(t)
  <2>1. /\ OnlyOut(t) /\ srv' \in [Flows -> SrvT] /\ ghost' \in GhostT
        /\ \A f \in Flows : srv'[f] # "granted" \/ srv'[f] = srv[f]
    BY <1>8, OutServerFacts
  <2>2. FlowsOK
    BY <1>8, <2>1, FlowsSame DEF OutServer
  <2> QED BY <1>0, <1>8, <2>1, <2>2, TypedCallNext DEF OutServer
<1>9. CASE OutClear(t)
  <2>1. OnlyOut(t) /\ Only(t) /\ ghost' \in GhostT /\ disk' \in DiskT /\ pend' \subseteq Flows
    BY <1>9, OutClearFacts DEF Disk
  <2>2. FlowsOK
    BY <1>0, <1>9, AbortedOK, OutClearFacts
  <2> QED BY <1>0, <1>9, <2>1, <2>2, TypedCallNext DEF OutClear
<1>10. CASE OutWipe(t)
  <2>1. OnlyOut(t) /\ Only(t) /\ ghost' \in GhostT /\ disk' \in DiskT
    BY <1>10, OutWipeFacts DEF Disk
  <2> QED BY <1>0, <1>10, <1>q, <2>1, TypedCallNext DEF OutWipe
<1> QED BY <1>1, <1>2, <1>3, <1>4, <1>5, <1>6, <1>7, <1>8, <1>9, <1>10 DEF CallStep
(* Asking for a code, the timer of the section, and the page loads.          *)
StartStep(t) ==
    (\E replace \in BOOLEAN : Start(t, replace)) \/ Minted(t) \/ MintFails(t) \/ Cancel(t) \/ EnableStart(t)

LoadStep(t) ==
    Reload(t) \/ (\E f \in Flows : CallbackOpen(t, f)) \/ CallbackAdopt(t)

LEMMA TypedStartNext ==
    ASSUME Typed, NEW t \in Tabs, UNCHANGED <<disk, past, ring, jar, job, rest, out>>, FlowsOK,
           pend' \subseteq Flows, UNCHANGED tab \/ Only(t), ghost' \in GhostT
    PROVE  TypedThen
<1>1. tab' \in [Tabs -> TabT]
  BY OnlyFacts DEF Typed
<1>2. /\ disk' \in DiskT /\ past' \subseteq Flows /\ jar' \in Ids /\ ring' \in [Flows -> Locators \cup {"none"}]
      /\ job' \in [Tabs -> JobT] /\ rest' \in [Tabs -> CallT] /\ out' \in [Tabs -> CallT]
  BY DEF Typed
<1> QED BY <1>1, <1>2, TypedNext

LEMMA TypedStartStep ==
    ASSUME Typed, NEW t \in Tabs, StartStep(t)
    PROVE  TypedThen
<1>0. /\ pend \subseteq Flows /\ ghost \in GhostT /\ tab[t].conn \in Ids /\ srv \in [Flows -> SrvT]
      /\ flow \in [Flows -> FlowT]
  BY TabFields DEF Typed
<1>r. ASSUME Renews(t)
      PROVE  FlowsOK /\ Only(t) /\ ghost' \in GhostT /\ pend' \subseteq Flows
  <2>1. FlowsOK
    BY <1>0, <1>r, AbortedOK DEF Renews
  <2> QED BY <1>0, <1>r, <2>1 DEF Renews, Gave, SamePast
<1>l. ASSUME LeavesFlows(t)
      PROVE  FlowsOK /\ Only(t) /\ ghost' \in GhostT /\ pend' \subseteq Flows
  BY <1>0, <1>l, QuietFlows DEF LeavesFlows
<1>1. ASSUME NEW replace \in BOOLEAN, Start(t, replace)
      PROVE  TypedThen
  BY <1>1, <1>r, <1>l, StartFacts, TypedStartNext DEF Start
<1>2. CASE Minted(t)
  <2>1. /\ Next1 \in Flows /\ flow' \in [Flows -> FlowT]
        /\ \A f \in Flows : f # Next1 => flow'[f] = flow[f]
        /\ flow'[Next1].kind = "connect" /\ flow'[Next1].tab = t
        /\ pend' \subseteq Flows /\ Only(t) /\ ghost' \in GhostT
    BY <1>2, MintedFacts DEF SamePast
  <2>2. srv' \in [Flows -> SrvT] /\ \A f \in Flows : srv'[f] = srv[f]
    BY <1>0, <1>2 DEF Minted
  <2>3. FlowsOK
    BY <2>1, <2>2, FlowsKept
  <2> QED BY <1>0, <1>2, <2>1, <2>3, TypedStartNext DEF Minted
<1>3. CASE MintFails(t)
  BY <1>3, <1>r, <1>l, MintFailsFacts, TypedStartNext DEF MintFails
<1>4. CASE Cancel(t)
  <2> DEFINE c == tab[t].conn
             fl == AbortedFlows(c)
  <2>1. /\ flow' \in [Flows -> FlowT] /\ srv' = AbortedSrv(c)
        /\ \A f \in Flows :
             \/ flow[f].kind = "chain" /\ GivenUp(flow[f], flow'[f])
             \/ f # c /\ flow'[f] = flow[f]
             \/ f = c /\ flow'[f] = fl[c]
        /\ Only(t) /\ Gave
    BY <1>4, CancelFacts
  <2>2. AbortedSrv(c) \in [Flows -> SrvT] /\ \A f \in Flows : AbortedSrv(c)[f] = srv[f] \/ AbortedSrv(c)[f] = "out"
    BY <1>0, AbortedFacts
  <2>3. c # 0 => fl[c].kind = flow[c].kind /\ fl[c].tab = flow[c].tab /\ fl[c].got = FALSE
    BY <1>0, AbortedFacts
  <2> HIDE DEF c, fl
  <2>4. srv' \in [Flows -> SrvT] /\ \A f \in Flows : srv'[f] # "granted" \/ srv'[f] = srv[f]
    BY <2>1, <2>2
  <2>5. \A f \in Flows : /\ flow'[f].kind = flow[f].kind /\ flow'[f].tab = flow[f].tab
                         /\ flow'[f].got = flow[f].got \/ flow'[f].got = FALSE
    BY <2>1, <2>3, Numbers DEF GivenUp
  <2>6. FlowsOK
    BY <2>1, <2>4, <2>5, FlowsKept
  <2> QED BY <1>0, <1>4, <2>1, <2>6, TypedStartNext DEF Cancel, Gave, SamePast
<1>5. CASE EnableStart(t)
  <2>1. /\ Next1 \in Flows /\ flow' \in [Flows -> FlowT]
        /\ flow'[Next1].kind = "enable" /\ flow'[Next1].tab = t
        /\ \A f \in Flows : f # Next1 =>
             \/ flow'[f] = flow[f]
             \/ flow[f].kind = "enable" /\ GivenUp(flow[f], flow'[f])
    BY <1>5, EnableStartFacts
  <2>2. srv' \in [Flows -> SrvT] /\ \A f \in Flows : srv'[f] = srv[f]
    BY <1>0, <1>5 DEF EnableStart
  <2>3. FlowsOK
    BY <2>1, <2>2, FlowsKept DEF GivenUp
  <2> QED BY <1>0, <1>5, <2>3, TypedStartNext DEF EnableStart
<1> QED BY <1>1, <1>2, <1>3, <1>4, <1>5 DEF StartStep

LEMMA TypedLoaded ==
    ASSUME Typed, NEW t \in Tabs, NEW page \in Ids, Loaded(t, page)
    PROVE  TypedThen
<1>1. FlowsOK
  <2>1. /\ flow' \in [Flows -> FlowT] /\ UNCHANGED srv
        /\ \A f \in Flows :
             IF flow[f].kind # "none" /\ flow[f].tab = t
             THEN /\ flow'[f].kind = flow[f].kind /\ flow'[f].tab = t /\ flow'[f].ph = "gone"
                  /\ flow'[f].got = FALSE
             ELSE flow'[f] = flow[f]
    BY LoadedFacts
  <2>2. srv' \in [Flows -> SrvT] /\ \A f \in Flows : srv'[f] = srv[f]
    BY <2>1 DEF Typed
  <2> QED BY <2>1, <2>2, FlowsKept
<1>2. UNCHANGED <<disk, pend, past, ring, srv, jar>> /\ Only(t) /\ OnlyJob(t) /\ OnlyRest(t) /\ OnlyOut(t)
      /\ ghost' \in GhostT
  BY LoadedFacts
<1>3. tab' \in [Tabs -> TabT]
  BY <1>2, OnlyFacts
<1>4. /\ disk' \in DiskT /\ pend' \subseteq Flows /\ past' \subseteq Flows /\ jar' \in Ids
      /\ ring' \in [Flows -> Locators \cup {"none"}]
  BY <1>2 DEF Typed
<1> QED BY <1>1, <1>2, <1>3, <1>4, TypedNext DEF OnlyJob, OnlyRest, OnlyOut

LEMMA LoadCases ==
    ASSUME NEW t \in Tabs, LoadStep(t)
    PROVE  (\E page \in Ids : Loaded(t, page)) \/ CallbackAdopt(t)
BY Numbers DEF LoadStep, Reload, CallbackOpen

LEMMA SectionTimerFacts ==
    ASSUME Typed, NEW t \in Tabs, SectionTimer(t)
    PROVE  /\ Held(t) /\ "section" \in Faults /\ Only(t) /\ SameStart(tab[t], tab'[t])
           /\ Login(tab'[t], tab[t].live, tab[t].epoch, tab[t].auth, tab[t].loc, 0)
           /\ job[t].pc \in {"check", "bind"} => "refused" \in Faults
           /\ job[t].pc \in {"pubky", "commit"} /\ (\E u \in Tabs : tab[u].auth) => "again" \in Faults
BY SecFacts DEF SectionTimer, OutOfSection

LEMMA StepCases ==
    ASSUME NEW t \in Tabs, TabStep(t)
    PROVE  StartStep(t) \/ JobStep(t) \/ SectionTimer(t) \/ CallStep(t) \/ LoadStep(t)
BY DEF TabStep, StartStep, CallStep, LoadStep

LEMMA TypedTabStep ==
    ASSUME Typed, NEW t \in Tabs, TabStep(t)
    PROVE  TypedThen
<1>0. disk \in DiskT /\ pend \subseteq Flows /\ ghost \in GhostT
  BY DEF Typed
<1>1. CASE SectionTimer(t)
  <2>1. UNCHANGED <<job, rest, out, past, ring, jar, disk, pend, ghost>> /\ FlowsOK
    BY <1>1, QuietFlows DEF SectionTimer
  <2>2. Only(t)
    BY <1>1, SectionTimerFacts
  <2> QED BY <1>0, <2>1, <2>2, TypedCallNext
<1>2. CASE LoadStep(t)
  <2>1. CASE CallbackAdopt(t)
    <3>1. Only(t) /\ OnlyJob(t)
      BY <2>1, CallbackAdoptFacts
    <3> QED BY <1>0, <2>1, <3>1, TypedJobNext DEF CallbackAdopt
  <2> QED BY <1>2, <2>1, LoadCases, TypedLoaded
<1> QED BY <1>1, <1>2, StepCases, TypedStartStep, TypedJobStep, TypedCallStep

(* A step counts one thing or none.                                          *)
LEMMA CountFacts ==
    ASSUME Typed, NEW x \in Things, Count(x)
    PROVE  used' \in [Things -> Nat]
BY DEF Typed, Count

LEMMA CountedFlow ==
    ASSUME Typed, NEW f \in Flows, FlowStep(f)
    PROVE  used' \in [Things -> Nat]
<1>1. (\E x \in Things : Count(x)) \/ UNCHANGED used
  <2>1. CASE RingApprove(f) \/ \E l \in Locators : RingPost(f, l)
    BY <2>1 DEF RingApprove, RingPost, Things
  <2>2. CASE Locator(f) \/ Payload(f) \/ WatchFails(f) \/ Session(f) \/ Deadline(f)
    BY <2>2 DEF Locator, Payload, WatchFails, Session, Deadline, Things
  <2> QED BY <2>1, <2>2 DEF FlowStep
<1> QED BY <1>1, CountFacts DEF Typed

LEMMA CountedTab ==
    ASSUME Typed, NEW t \in Tabs, TabStep(t)
    PROVE  used' \in [Things -> Nat]
<1>1. (\E x \in Things : Count(x)) \/ UNCHANGED used
  <2>1. CASE StartStep(t)
    BY <2>1 DEF StartStep, Start, Minted, MintFails, Cancel, EnableStart, Things
  <2>2. CASE JobStep(t)
    BY <2>2 DEF JobStep, Acquire, Check, Bind, Persist, Compare, Pubky, Commit, TryPending, Keys, RestOfKeys,
                ClearPending, ClearLocator, Provision, Things
  <2>3. CASE CallStep(t)
    BY <2>3 DEF CallStep, RestoreStart, Resume, RestorePut, RestoreCompare, RestorePubky, RestoreDone,
                OutStart, OutServer, OutClear, OutWipe, Things
  <2>4. CASE LoadStep(t)
    BY <2>4 DEF LoadStep, Reload, CallbackOpen, CallbackAdopt, Things
  <2>5. CASE SectionTimer(t)
    BY <2>5 DEF SectionTimer
  <2> QED BY <2>1, <2>2, <2>3, <2>4, <2>5, StepCases
<1> QED BY <1>1, CountFacts DEF Typed

LEMMA TypedStep ==
    ASSUME Typed, [SiNext]_siVars
    PROVE  Typed'
<1>1. CASE UNCHANGED siVars
  BY <1>1 DEF Typed, siVars
<1> QED BY <1>1, TypedFlowStep, TypedTabStep, CountedFlow, CountedTab DEF SiNext, TypedThen

(* Every variable holds what it is meant to hold, and a flow that was never  *)
(* started has no session.                                                   *)
THEOREM SignInTyped == SiSpec => []Typed
<1>1. SiInit => Typed
  BY TypedInit
<1>2. Typed /\ [SiNext]_siVars => Typed'
  BY TypedStep
<1> QED BY <1>1, <1>2, PTL DEF SiSpec
-------------------------------------------------------------------------------
(* A tab watches one flow                                                    *)

(* While a start is under way a tab shows no flow, but for one minted beside *)
(* another start.                                                            *)
StartOK(r, beside) == r.mint # {} => r.conn = 0 \/ r.conn \in beside

(* The flow a tab watches is the one its page shows, but for those minted    *)
(* beside another start, and it was not given up.                            *)
Shown(f) == f \in ghost.beside \/ tab[flow[f].tab].conn = f
Watched == \A f \in Flows : Watching(f) => ~flow[f].off /\ Shown(f)
StartInv == (\A t \in Tabs : StartOK(tab[t], ghost.beside)) /\ Watched

(* The same of the record of a flow.                                         *)
Waits(r) == r.kind = "connect" /\ r.ph \in {"open", "reading"}
WaitKept(r, e) == Waits(e) => Waits(r) /\ e.tab = r.tab /\ e.off = r.off

(* What was minted beside another start stays in the history.                *)
Besides == ghost.beside \subseteq ghost'.beside

LEMMA WaitsFacts ==
    ASSUME NEW f \in Flows
    PROVE  Watching(f) = Waits(flow[f]) /\ (Watching(f))' = Waits(flow'[f])
BY DEF Watching, Waits

LEMMA SameStartOK ==
    ASSUME NEW r, NEW e, StartOK(r, ghost.beside), SameStart(r, e), Besides
    PROVE  StartOK(e, ghost'.beside)
BY DEF StartOK, SameStart, Besides

LEMMA BesidesFlow ==
    ASSUME Typed, NEW f \in Flows, FlowStep(f)
    PROVE  Besides
<1>1. CASE RingApprove(f) \/ (\E l \in Locators : RingPost(f, l)) \/ Locator(f)
  BY <1>1 DEF RingApprove, RingPost, Locator, Typed, GhostT, Besides
<1>2. CASE Payload(f) \/ WatchFails(f) \/ Session(f)
  BY <1>2 DEF Payload, WatchFails, Session, Besides
<1>3. CASE Deadline(f)
  BY <1>3, DeadlineFacts DEF Gave, SamePast, Besides
<1> QED BY <1>1, <1>2, <1>3 DEF FlowStep

LEMMA BesidesTab ==
    ASSUME Typed, NEW t \in Tabs, TabStep(t)
    PROVE  Besides
<1>0. UNCHANGED ghost \/ SamePast => Besides
  BY DEF SamePast, Besides
<1>1. CASE StartStep(t)
  <2>1. CASE Minted(t) \/ MintFails(t) \/ \E replace \in BOOLEAN : Start(t, replace)
    BY <1>0, <2>1, StartFacts, MintedFacts, MintFailsFacts DEF Renews, LeavesFlows, Gave
  <2>2. CASE Cancel(t) \/ EnableStart(t)
    BY <1>0, <2>2, CancelFacts DEF Gave, EnableStart
  <2> QED BY <1>1, <2>1, <2>2 DEF StartStep
<1>2. CASE JobStep(t)
  <2>1. CASE Bind(t) \/ RestOfKeys(t)
    BY <2>1 DEF Bind, RestOfKeys, Typed, GhostT, Besides
  <2>2. CASE ~(Bind(t) \/ RestOfKeys(t))
    BY <1>0, <1>2, <2>2 DEF JobStep, Acquire, Check, Persist, Compare, Pubky, Commit, TryPending, Keys,
                            ClearPending, ClearLocator, Provision
  <2> QED BY <2>1, <2>2
<1>3. CASE CallStep(t)
  <2>1. CASE OutStart(t) \/ OutServer(t) \/ OutClear(t) \/ OutWipe(t)
    BY <2>1 DEF OutStart, OutServer, OutClear, OutWipe, Lapse, Typed, GhostT, Besides
  <2>2. CASE Resume(t)
    BY <2>2 DEF Resume, Lapse, Typed, GhostT, Besides
  <2>3. CASE RestoreStart(t) \/ RestorePut(t) \/ RestoreCompare(t) \/ RestorePubky(t) \/ RestoreDone(t)
    BY <1>0, <2>3 DEF RestoreStart, RestorePut, RestoreCompare, RestorePubky, RestoreDone
  <2> QED BY <1>3, <2>1, <2>2, <2>3 DEF CallStep
<1>4. ASSUME NEW page \in Ids, Loaded(t, page)
      PROVE  Besides
  BY <1>4 DEF Loaded, Typed, GhostT, Besides
<1>5. CASE CallbackAdopt(t) \/ SectionTimer(t)
  BY <1>0, <1>5 DEF CallbackAdopt, SectionTimer
<1> QED BY <1>1, <1>2, <1>3, <1>4, <1>5, StepCases, LoadCases

(* A step that leaves alone what a tab asked for, and starts no watch.       *)
LEMMA StartSame ==
    ASSUME Typed, StartInv, NEW t \in Tabs, UNCHANGED tab \/ (Only(t) /\ SameStart(tab[t], tab'[t])),
           \A g \in Flows : WaitKept(flow[g], flow'[g]), Besides
    PROVE  StartInv'
<1>1. \A u \in Tabs : StartOK(tab'[u], ghost'.beside) /\ tab'[u].conn = tab[u].conn
  <2> SUFFICES ASSUME NEW u \in Tabs PROVE StartOK(tab'[u], ghost'.beside) /\ tab'[u].conn = tab[u].conn
    OBVIOUS
  <2>1. tab'[u] = tab[u] \/ SameStart(tab[u], tab'[u])
    BY OnlyFacts
  <2>2. StartOK(tab[u], ghost.beside)
    BY DEF StartInv
  <2> QED BY <2>1, <2>2, SameStartOK DEF SameStart
<1>2. \A f \in Flows : Waits(flow'[f]) => ~flow'[f].off /\ Shown(f)'
  <2> SUFFICES ASSUME NEW f \in Flows, Waits(flow'[f])
               PROVE  ~flow'[f].off /\ Shown(f)'
    OBVIOUS
  <2>1. Waits(flow[f]) /\ flow'[f].tab = flow[f].tab /\ flow'[f].off = flow[f].off
    BY DEF WaitKept
  <2>2. ~flow[f].off /\ Shown(f)
    BY <2>1, WaitsFacts DEF StartInv, Watched
  <2>3. flow[f].tab \in Tabs
    BY <2>1 DEF Typed, Waits
  <2> QED BY <1>1, <2>1, <2>2, <2>3 DEF Shown, Besides
<1> QED BY <1>1, <1>2, WaitsFacts DEF StartInv, Watched

(* A tab no longer shows flow f, whose watch is over: the other flows are    *)
(* those of other tabs, since a tab watches the flow it shows.               *)
LEMMA StartLeft ==
    ASSUME Typed, StartInv, NEW t \in Tabs, NEW f, Only(t), StartOK(tab'[t], ghost'.beside), Besides,
           tab'[t].conn = tab[t].conn \/ tab[t].conn = f,
           \A g \in Flows : WaitKept(flow[g], flow'[g]),
           f \in Flows => ~Waits(flow'[f])
    PROVE  StartInv'
<1>1. \A u \in Tabs : StartOK(tab'[u], ghost'.beside)
  BY OnlyFacts DEF StartInv, StartOK, Besides
<1>2. \A g \in Flows : Waits(flow'[g]) => ~flow'[g].off /\ Shown(g)'
  <2> SUFFICES ASSUME NEW g \in Flows, Waits(flow'[g])
               PROVE  ~flow'[g].off /\ Shown(g)'
    OBVIOUS
  <2>1. Waits(flow[g]) /\ flow'[g].tab = flow[g].tab /\ flow'[g].off = flow[g].off /\ g # f
    BY DEF WaitKept
  <2>2. ~flow[g].off /\ Shown(g)
    BY <2>1, WaitsFacts DEF StartInv, Watched
  <2>3. flow[g].tab \in Tabs
    BY <2>1 DEF Typed, Waits
  <2>4. Shown(g)'
    BY <2>1, <2>2, <2>3, OnlyFacts DEF Shown, Besides
  <2> QED BY <2>1, <2>2, <2>4
<1> QED BY <1>1, <1>2, WaitsFacts DEF StartInv, Watched

(* A watch that is over, and the page of its tab settled.                    *)
LEMMA StartSettled ==
    ASSUME Typed, StartInv, NEW f \in Flows, flow[f].kind # "none", tab' = Settled(f),
           \A g \in Flows : WaitKept(flow[g], flow'[g]), ~Waits(flow'[f]), Besides
    PROVE  StartInv'
<1> DEFINE t == flow[f].tab
           r == tab[t]
<1>1. /\ t \in Tabs /\ Only(t) /\ tab'[t].conn = (IF r.conn = f THEN 0 ELSE r.conn)
      /\ tab'[t].mint = r.mint
  BY SettledFacts
<1> HIDE DEF t
<1>2. StartOK(tab'[t], ghost'.beside)
  BY <1>1 DEF StartInv, StartOK, Besides
<1> QED BY <1>1, <1>2, StartLeft

LEMMA AbortedWaits ==
    ASSUME Typed, NEW c \in Ids
    PROVE  /\ \A g \in Flows : WaitKept(flow[g], AbortedFlows(c)[g])
           /\ c \in Flows => ~Waits(AbortedFlows(c)[c])
<1> DEFINE fl == AbortedFlows(c)
<1>1. /\ \A g \in Flows : g # c => fl[g] = flow[g]
      /\ c # 0 => fl[c].ph = "done"
  BY AbortedFacts
<1> HIDE DEF fl
<1>2. \A g \in Flows : WaitKept(flow[g], fl[g])
  BY <1>1, Numbers DEF WaitKept, Waits
<1>3. c \in Flows => ~Waits(fl[c])
  BY <1>1, Numbers DEF Waits
<1> QED BY <1>2, <1>3 DEF fl

LEMMA EndedWaits ==
    ASSUME Typed, NEW f \in Flows
    PROVE  (\A g \in Flows : WaitKept(flow[g], Ended(f)[g])) /\ ~Waits(Ended(f)[f])
<1> DEFINE fl == Ended(f)
<1>1. Over(flow[f], fl[f]) /\ \A g \in Flows : g # f => fl[g] = flow[g]
  BY EndedFacts
<1> HIDE DEF fl
<1> QED BY <1>1 DEF fl, WaitKept, Waits, Over
LEMMA StartFlowStep ==
    ASSUME Typed, StartInv, NEW f \in Flows, FlowStep(f)
    PROVE  StartInv'
<1>0. Besides /\ \A g \in Flows : WaitKept(flow[g], flow[g])
  BY BesidesFlow DEF WaitKept
<1>s. ASSUME UNCHANGED <<flow, tab>>
      PROVE  StartInv'
  BY <1>0, <1>s DEF StartInv, Watched, Watching, StartOK, Shown, Besides
<1>e. ASSUME flow' = Ended(f), tab' = Settled(f), flow[f].kind # "none"
      PROVE  StartInv'
  BY <1>0, <1>e, EndedWaits, StartSettled
<1>1. CASE RingApprove(f)
  <2>1. /\ SameFlow(flow[f], flow'[f]) /\ \A g \in Flows : g # f => flow'[g] = flow[g]
    BY <1>1, RingApproveFacts
  <2>2. \A g \in Flows : WaitKept(flow[g], flow'[g])
    BY <1>0, <2>1 DEF SameFlow, WaitKept, Waits
  <2>3. UNCHANGED tab /\ flow[f].tab \in Tabs
    BY <1>1 DEF RingApprove, Typed
  <2> QED BY <2>2, <2>3, <1>0, StartSame
<1>2. CASE \E l \in Locators : RingPost(f, l)
  BY <1>2, <1>s DEF RingPost
<1>3. CASE Locator(f)
  <2> DEFINE t == flow[f].tab
  <2>1. /\ flow[f].kind = "connect" /\ flow[f].ph = "open"
        /\ flow'[f].tab = t /\ flow'[f].off = flow[f].off
        /\ \A g \in Flows : g # f => flow'[g] = flow[g]
        /\ t \in Tabs /\ Only(t) /\ SameStart(tab[t], tab'[t])
    BY <1>3, LocatorFacts
  <2>2. \A g \in Flows : WaitKept(flow[g], flow'[g])
    BY <1>0, <2>1 DEF WaitKept, Waits
  <2> QED BY <2>1, <2>2, <1>0, StartSame
<1>4. CASE Payload(f)
  <2>1. flow[f].kind = "connect" /\ flow[f].ph = "reading" /\ flow[f].tab \in Tabs
    BY <1>4, PayloadFacts
  <2>2. CASE PayloadOld(f)
    <3>1. \A g \in Flows : WaitKept(flow[g], flow'[g])
      BY <1>0, <2>2 DEF PayloadOld, Over, WaitKept, Waits
    <3>2. ~Waits(flow'[f])
      BY <2>2 DEF PayloadOld, Over, Waits
    <3> QED BY <2>1, <2>2, <3>1, <3>2, <1>0, StartSettled DEF PayloadOld
  <2>3. CASE PayloadWaits(f)
    <3>1. \A g \in Flows : WaitKept(flow[g], flow'[g])
      BY <1>0, <2>1, <2>3 DEF PayloadWaits, WaitKept, Waits
    <3> QED BY <2>1, <2>3, <3>1, <1>0, StartSame DEF PayloadWaits
  <2>4. CASE PayloadAdopted(f)
    BY <1>e, <2>1, <2>4 DEF PayloadAdopted
  <2> QED BY <1>4, <2>2, <2>3, <2>4, PayloadFacts
<1>5. CASE WatchFails(f)
  BY <1>5, <1>e, WatchFailsFacts
<1>6. CASE Session(f)
  <2>1. flow[f].tab \in Tabs
    BY <1>6, SessionFacts
  <2>2. CASE SessionOver(f)
    BY <1>s, <2>2 DEF SessionOver
  <2>3. CASE SessionWaits(f)
    <3>1. Waits(flow[f])
      BY <2>3, WaitsFacts DEF SessionWaits
    <3>2. \A g \in Flows : WaitKept(flow[g], flow'[g])
      BY <1>0, <2>3, <3>1 DEF SessionWaits, WaitKept
    <3> QED BY <2>1, <2>3, <3>2, <1>0, StartSame DEF SessionWaits
  <2>4. CASE SessionAdopted(f)
    <3>1. CASE flow[f].kind = "connect" /\ tab' = Settled(f)
      BY <1>e, <2>4, <3>1 DEF SessionAdopted
    <3>2. CASE UNCHANGED tab
      <4>1. \A g \in Flows : WaitKept(flow[g], flow'[g])
        BY <2>4, EndedWaits DEF SessionAdopted
      <4> QED BY <2>1, <3>2, <4>1, <1>0, StartSame
    <3> QED BY <2>4, <3>1, <3>2 DEF SessionAdopted
  <2> QED BY <1>6, <2>2, <2>3, <2>4, SessionFacts
<1>7. CASE Deadline(f)
  BY <1>7, <1>s, <1>e, DeadlineFacts
<1> QED BY <1>1, <1>2, <1>3, <1>4, <1>5, <1>6, <1>7 DEF FlowStep

LEMMA StartStartStep ==
    ASSUME Typed, StartInv, NEW t \in Tabs, StartStep(t), Besides
    PROVE  StartInv'
<1> DEFINE c == tab[t].conn
<1>0. c \in Ids /\ StartOK(tab[t], ghost.beside)
  BY TabFields DEF StartInv
<1>k. \A g \in Flows : WaitKept(flow[g], flow[g])
  BY DEF WaitKept
<1>r. ASSUME Renews(t)
      PROVE  StartInv'
  <2>1. /\ flow' = AbortedFlows(c) /\ Only(t) /\ StartOK(tab'[t], ghost'.beside)
    BY <1>r DEF Renews, StartOK
  <2>2. /\ \A g \in Flows : WaitKept(flow[g], flow'[g])
        /\ c \in Flows => ~Waits(flow'[c])
    BY <1>0, <2>1, AbortedWaits
  <2> QED BY <2>1, <2>2, StartLeft
<1>l. ASSUME LeavesFlows(t)
      PROVE  StartInv'
  <2>1. Only(t) /\ tab'[t].conn = c /\ StartOK(tab'[t], ghost'.beside) /\ UNCHANGED flow
    BY <1>0, <1>l DEF LeavesFlows, StartOK, Besides
  <2>2. 0 \notin Flows
    BY Numbers
  <2> QED BY <1>k, <2>1, <2>2, StartLeft
<1>1. CASE \E replace \in BOOLEAN : Start(t, replace)
  BY <1>1, <1>r, <1>l, StartFacts
<1>2. CASE Minted(t)
  <2> DEFINE n == Next1
  <2>1. /\ n \in Flows
        /\ \A f \in Flows : f # n => flow'[f] = flow[f]
        /\ flow'[n].kind = "connect" /\ flow'[n].tab = t
        /\ \/ /\ flow'[n].ph = "open" /\ flow'[n].off = FALSE /\ tab'[t].conn = n
              /\ tab'[t].mint = {} \/ n \in ghost'.beside
           \/ flow'[n].ph = "done" /\ flow'[n].off = TRUE /\ tab'[t].conn = 0
        /\ Only(t) /\ tab[t].mint # {}
    BY <1>2, MintedFacts
  <2> HIDE DEF n
  <2>2. c = 0 \/ c \in ghost.beside
    BY <1>0, <2>1 DEF StartOK
  <2>3. StartOK(tab'[t], ghost'.beside)
    BY <2>1 DEF StartOK
  <2>4. \A u \in Tabs : StartOK(tab'[u], ghost'.beside)
    BY <2>1, <2>3, OnlyFacts DEF StartInv, StartOK, Besides
  <2>5. \A g \in Flows : Waits(flow'[g]) => ~flow'[g].off /\ Shown(g)'
    <3> SUFFICES ASSUME NEW g \in Flows, Waits(flow'[g])
                 PROVE  ~flow'[g].off /\ Shown(g)'
      OBVIOUS
    <3>1. CASE g = n
      BY <2>1, <3>1 DEF Waits, Shown
    <3>2. CASE g # n
      <4>1. flow'[g] = flow[g] /\ Waits(flow[g])
        BY <2>1, <3>2
      <4>2. ~flow[g].off /\ Shown(g) /\ flow[g].tab \in Tabs
        BY <4>1, WaitsFacts DEF StartInv, Watched, Typed, Waits
      <4>3. CASE flow[g].tab = t
        BY <2>2, <4>1, <4>2, <4>3, Numbers DEF Shown, Besides
      <4>4. CASE flow[g].tab # t
        BY <2>1, <4>1, <4>2, <4>4, OnlyFacts DEF Shown, Besides
      <4> QED BY <4>3, <4>4
    <3> QED BY <3>1, <3>2
  <2> QED BY <2>4, <2>5, WaitsFacts DEF StartInv, Watched
<1>3. CASE MintFails(t)
  BY <1>3, <1>r, <1>l, MintFailsFacts
<1>4. CASE Cancel(t)
  <2>1. /\ \A f \in Flows :
             \/ flow[f].kind = "chain" /\ GivenUp(flow[f], flow'[f])
             \/ f # c /\ flow'[f] = flow[f]
             \/ f = c /\ flow'[f] = AbortedFlows(c)[c]
        /\ Only(t)
        /\ tab'[t].conn = 0
    BY <1>4, CancelFacts
  <2>2. StartOK(tab'[t], ghost'.beside)
    BY <2>1 DEF StartOK
  <2> DEFINE fl == AbortedFlows(c)
  <2>3. /\ \A g \in Flows : WaitKept(flow[g], fl[g])
        /\ c \in Flows => ~Waits(fl[c])
    BY <1>0, AbortedWaits
  <2>4. \A g \in Flows : flow[g].kind = "chain" /\ GivenUp(flow[g], flow'[g]) => WaitKept(flow[g], flow'[g])
    BY DEF GivenUp, WaitKept, Waits
  <2> HIDE DEF fl
  <2>5. \A g \in Flows : WaitKept(flow[g], flow'[g])
    BY <1>k, <2>1, <2>3, <2>4 DEF fl
  <2>6. c \in Flows => ~Waits(flow'[c])
    BY <2>1, <2>3 DEF fl, Waits, GivenUp
  <2> QED BY <2>1, <2>2, <2>5, <2>6, StartLeft
<1>5. CASE EnableStart(t)
  <2>1. /\ Next1 \in Flows /\ flow'[Next1].kind = "enable"
        /\ \A f \in Flows : f # Next1 =>
             \/ flow'[f] = flow[f]
             \/ flow[f].kind = "enable" /\ GivenUp(flow[f], flow'[f])
        /\ UNCHANGED tab
    BY <1>5, EnableStartFacts DEF EnableStart
  <2>2. \A g \in Flows : WaitKept(flow[g], flow'[g])
    BY <1>k, <2>1 DEF GivenUp, WaitKept, Waits
  <2> QED BY <2>1, <2>2, StartSame
<1> QED BY <1>1, <1>2, <1>3, <1>4, <1>5 DEF StartStep
(* An adoption, a restore and a sign-out, but for the clearing, leave alone  *)
(* the flows and what the tab asked for.                                     *)
LEMMA JobStart ==
    ASSUME Typed, NEW t \in Tabs, JobStep(t)
    PROVE  UNCHANGED <<flow, past, ring, jar, rest, out>> /\ (UNCHANGED tab \/ (Only(t) /\ SameStart(tab[t], tab'[t])))
<1>1. CASE Acquire(t) \/ Check(t) \/ Bind(t)
  BY <1>1, AcquireFacts, CheckFacts, BindFacts
     DEF Acquire, Check, Bind, CheckRefuses, BindRefuses, Binds
<1>2. CASE Persist(t) \/ Compare(t) \/ Pubky(t) \/ Commit(t)
  BY <1>2, CommitFacts, PersistFacts DEF Persist, Compare, Pubky, Commit
<1>3. CASE TryPending(t) \/ Keys(t) \/ RestOfKeys(t) \/ ClearPending(t) \/ ClearLocator(t) \/ Provision(t)
  BY <1>3, TryPendingFacts, ClearLocatorFacts, ProvisionFacts
     DEF TryPending, Keys, RestOfKeys, ClearPending, ClearLocator, Provision
<1> QED BY <1>1, <1>2, <1>3 DEF JobStep

LEMMA CallStart ==
    ASSUME Typed, NEW t \in Tabs, CallStep(t)
    PROVE  /\ UNCHANGED <<past, ring, jar, job>>
           /\ \/ OutClear(t)
              \/ UNCHANGED flow /\ (UNCHANGED tab \/ (Only(t) /\ SameStart(tab[t], tab'[t])))
<1>1. CASE RestoreStart(t) \/ Resume(t) \/ RestorePut(t) \/ RestoreCompare(t)
  BY <1>1, ResumeFacts, RestoreCompareFacts
     DEF RestoreStart, Resume, RestorePut, RestoreCompare, Finds, GivesUp, Drops
<1>2. CASE RestorePubky(t) \/ RestoreDone(t) \/ OutStart(t) \/ OutServer(t) \/ OutWipe(t)
  BY <1>2, RestoreDoneFacts, OutStartFacts, OutWipeFacts
     DEF RestorePubky, RestoreDone, OutStart, OutServer, OutWipe, Drops
<1>3. CASE OutClear(t)
  BY <1>3 DEF OutClear
<1> QED BY <1>1, <1>2, <1>3 DEF CallStep

LEMMA StartTabStep ==
    ASSUME Typed, StartInv, NEW t \in Tabs, TabStep(t)
    PROVE  StartInv'
<1> DEFINE c == tab[t].conn
<1>b. Besides
  BY BesidesTab
<1>k. \A g \in Flows : WaitKept(flow[g], flow[g])
  BY DEF WaitKept
<1>s. ASSUME UNCHANGED flow, UNCHANGED tab \/ (Only(t) /\ SameStart(tab[t], tab'[t]))
      PROVE  StartInv'
  BY <1>b, <1>k, <1>s, StartSame
<1>1. CASE StartStep(t)
  BY <1>b, <1>1, StartStartStep
<1>2. CASE JobStep(t)
  BY <1>2, <1>s, JobStart
<1>3. CASE SectionTimer(t)
  BY <1>3, <1>s, SectionTimerFacts DEF SectionTimer
<1>4. CASE OutClear(t)
  <2>1. /\ flow' = AbortedFlows(c) /\ Only(t)
        /\ tab'[t].conn = 0
    BY <1>4, OutClearFacts
  <2>2. StartOK(tab'[t], ghost'.beside)
    BY <2>1 DEF StartOK
  <2>3. /\ \A g \in Flows : WaitKept(flow[g], flow'[g])
        /\ c \in Flows => ~Waits(flow'[c])
    BY <2>1, AbortedWaits, TabFields
  <2> QED BY <1>b, <2>1, <2>2, <2>3, StartLeft
<1>5. CASE CallStep(t)
  BY <1>4, <1>5, <1>s, CallStart
<1>6. ASSUME NEW page \in Ids, Loaded(t, page)
      PROVE  StartInv'
  <2>1. /\ Only(t) /\ SameStart(NewTab, tab'[t])
        /\ \A f \in Flows :
             IF flow[f].kind # "none" /\ flow[f].tab = t
             THEN /\ flow'[f].kind = flow[f].kind /\ flow'[f].tab = t /\ flow'[f].ph = "gone"
                  /\ flow'[f].got = FALSE
             ELSE flow'[f] = flow[f]
    BY <1>6, LoadedFacts
  <2>2. StartOK(tab'[t], ghost'.beside)
    BY <2>1, FreshTab DEF StartOK, SameStart
  <2>3. \A g \in Flows : WaitKept(flow[g], flow'[g]) /\ (Waits(flow'[g]) => flow[g].tab # t)
    BY <2>1 DEF WaitKept, Waits
  <2>4. c \in Flows => ~Waits(flow'[c]) \/ flow[c].tab # t
    BY <2>3
  <2>5. \A u \in Tabs : StartOK(tab'[u], ghost'.beside)
    BY <1>b, <2>1, <2>2, OnlyFacts DEF StartInv, StartOK, Besides
  <2>6. \A g \in Flows : Waits(flow'[g]) => ~flow'[g].off /\ Shown(g)'
    <3> SUFFICES ASSUME NEW g \in Flows, Waits(flow'[g])
                 PROVE  ~flow'[g].off /\ Shown(g)'
      OBVIOUS
    <3>1. Waits(flow[g]) /\ flow'[g].tab = flow[g].tab /\ flow'[g].off = flow[g].off /\ flow[g].tab # t
      BY <2>3 DEF WaitKept
    <3>2. ~flow[g].off /\ Shown(g) /\ flow[g].tab \in Tabs
      BY <3>1, WaitsFacts DEF StartInv, Watched, Typed, Waits
    <3> QED BY <1>b, <2>1, <3>1, <3>2, OnlyFacts DEF Shown, Besides
  <2> QED BY <2>5, <2>6, WaitsFacts DEF StartInv, Watched
<1>7. CASE CallbackAdopt(t)
  BY <1>7, <1>s, CallbackAdoptFacts DEF CallbackAdopt
<1> QED BY <1>1, <1>2, <1>3, <1>5, <1>6, <1>7, StepCases, LoadCases

LEMMA StartStep1 ==
    ASSUME Typed, StartInv, [SiNext]_siVars
    PROVE  StartInv'
<1>1. CASE UNCHANGED siVars
  BY <1>1 DEF StartInv, Watched, Watching, Shown, siVars
<1> QED BY <1>1, StartFlowStep, StartTabStep DEF SiNext

LEMMA StartInit ==
    ASSUME SiInit
    PROVE  StartInv
<1>1. \A t \in Tabs : tab[t] = NewTab
  BY DEF SiInit
<1>2. \A f \in Flows : flow[f] = NoFlow
  BY DEF SiInit
<1> QED BY <1>1, <1>2, FreshTab, FreshFlow DEF StartInv, StartOK, Watched, Watching

(* The flow a tab watches is the one on its page, unless it was minted while *)
(* another start was under way, and it was not given up.                     *)
THEOREM WatchIsShown == SiSpec => [](Typed /\ StartInv)
<1>1. SiInit => Typed /\ StartInv
  BY TypedInit, StartInit
<1>2. Typed /\ StartInv /\ [SiNext]_siVars => (Typed /\ StartInv)'
  BY TypedStep, StartStep1
<1> QED BY <1>1, <1>2, PTL DEF SiSpec

(* Of two flows of a tab that both wait for Ring one was minted while        *)
(* another start of the tab was under way, however many clicks wait for one  *)
(* start and whatever cancels, signs out or fails meanwhile.                 *)
THEOREM OneCodeCounts == SiSpec => []OneFlow
<1>1. Typed /\ StartInv => OneFlow
  <2> SUFFICES ASSUME Typed, StartInv, NEW f \in Flows, NEW g \in Flows, Rivals(f, g)
               PROVE  f \in ghost.beside \/ g \in ghost.beside
    BY DEF OneFlow
  <2> QED BY DEF Rivals, StartInv, Watched, Shown
<1> QED BY <1>1, WatchIsShown, PTL
-------------------------------------------------------------------------------
(* What a tab runs                                                           *)

Others(t) == \A u \in Tabs : u # t =>
    tab'[u] = tab[u] /\ job'[u] = job[u] /\ rest'[u] = rest[u] /\ out'[u] = out[u]

LEMMA OthersFacts ==
    ASSUME Typed, NEW t \in Tabs, UNCHANGED tab \/ Only(t), UNCHANGED job \/ OnlyJob(t),
           UNCHANGED rest \/ OnlyRest(t), UNCHANGED out \/ OnlyOut(t)
    PROVE  Others(t)
<1>1. \A u \in Tabs : u # t => tab'[u] = tab[u]
  BY OnlyFacts
<1>2. \A u \in Tabs : u # t => job'[u] = job[u]
  BY DEF OnlyJob
<1>3. \A u \in Tabs : u # t => rest'[u] = rest[u]
  BY DEF OnlyRest
<1>4. \A u \in Tabs : u # t => out'[u] = out[u]
  BY DEF OnlyOut
<1> QED BY <1>1, <1>2, <1>3, <1>4 DEF Others

(* An adoption and a restore of a tab do not run at the same time; what a    *)
(* sign-out took from the one or the other, the restore knows by the epoch.  *)
LoneOK(j, r, o, a) ==
    /\ j # NoJob => r = NoCall
    /\ j.pc = "idle" => j = NoJob
    /\ j.pc \notin {"idle", "acquire", "check", "bind"} => a.live \in {0, j.s}
    /\ r.pc = "resume" => a.live = 0
    /\ r.pc = "idle" => r = NoCall
    /\ r.pc \in {"open", "compare", "pubky", "last"} =>
         IF r.e = a.epoch THEN a.live = r.s ELSE a.live \in {0, r.s}
    /\ r.e <= a.epoch
    /\ o.pc = "idle" => o = NoCall
LoneInv == \A t \in Tabs : LoneOK(job[t], rest[t], out[t], tab[t])

NoOverlap == "overlap" \notin Faults

LEMMA LoneNext ==
    ASSUME LoneInv, NEW t \in Tabs, Others(t), LoneOK(job'[t], rest'[t], out'[t], tab'[t])
    PROVE  LoneInv'
BY DEF LoneInv, Others

(* What is signed in is left alone, and nothing the tab runs goes on.        *)
LEMMA LoneSame ==
    ASSUME LoneInv, NEW t \in Tabs, Others(t), tab'[t].live = tab[t].live, tab'[t].epoch = tab[t].epoch,
           job'[t] = job[t], rest'[t] = rest[t], out'[t] = out[t]
    PROVE  LoneInv'
<1>1. LoneOK(job'[t], rest'[t], out'[t], tab'[t])
  BY DEF LoneInv, LoneOK
<1> QED BY <1>1, LoneNext

(* An adoption goes on, and the live session is still its own.               *)
LEMMA LoneGoes ==
    ASSUME Typed, LoneInv, NEW t \in Tabs, Others(t), job[t].pc # "idle",
           UNCHANGED <<rest, out>>, tab'[t].epoch \in Nat,
           job'[t].pc # "idle", job'[t].s = job[t].s,
           \/ job'[t].pc \in {"acquire", "check", "bind"}
           \/ tab'[t].live \in {0, job[t].s}
    PROVE  LoneInv'
<1>1. job[t] # NoJob /\ job'[t] # NoJob
  BY FreshCalls
<1>2. rest[t] = NoCall /\ (out[t].pc = "idle" => out[t] = NoCall)
  BY <1>1 DEF LoneInv, LoneOK
<1>3. LoneOK(job'[t], rest'[t], out'[t], tab'[t])
  BY <1>1, <1>2, FreshCalls DEF LoneOK
<1> QED BY <1>3, LoneNext

LEMMA LoneOver ==
    ASSUME Typed, LoneInv, NEW t \in Tabs, Others(t), job[t].pc # "idle", job'[t] = NoJob,
           UNCHANGED <<rest, out>>, tab'[t].epoch \in Nat
    PROVE  LoneInv'
<1>1. job[t] # NoJob
  BY FreshCalls
<1>2. rest[t] = NoCall /\ (out[t].pc = "idle" => out[t] = NoCall)
  BY <1>1 DEF LoneInv, LoneOK
<1>3. LoneOK(job'[t], rest'[t], out'[t], tab'[t])
  BY <1>2, FreshCalls DEF LoneOK
<1> QED BY <1>3, LoneNext

(* An adoption starts.                                                       *)
LEMMA LoneStarts ==
    ASSUME Typed, LoneInv, NoOverlap, NEW t \in Tabs, Others(t), CanAdopt(t), job'[t].pc = "acquire",
           UNCHANGED <<rest, out>>, tab'[t].epoch \in Nat
    PROVE  LoneInv'
<1>1. rest[t] = NoCall /\ out[t] = NoCall
  BY DEF CanAdopt, NoOverlap
<1>2. LoneOK(job'[t], rest'[t], out'[t], tab'[t])
  BY <1>1, FreshCalls DEF LoneOK
<1> QED BY <1>2, LoneNext

LEMMA LoneJobStep ==
    ASSUME Typed, LoneInv, NoOverlap, NEW t \in Tabs, JobStep(t)
    PROVE  LoneInv'
<1> DEFINE r == tab[t]
           s == job[t].s
<1>0. UNCHANGED <<rest, out>> /\ r.epoch \in Nat /\ r.epoch + 1 \in Nat
  BY JobStart, TabFields
<1>1. /\ UNCHANGED tab \/ Only(t)
      /\ UNCHANGED tab => tab'[t] = r
  BY JobStart
<1>l. job[t].pc \notin {"idle", "acquire", "check", "bind"} => r.live \in {0, s}
  BY DEF LoneInv, LoneOK
<1>g. ASSUME NEW pc \in JobPcs, Goto(t, pc)
      PROVE  job'[t].pc = pc /\ job'[t].s = s /\ Others(t)
  BY <1>0, <1>1, <1>g, GotoFacts, OthersFacts
<1>o. ASSUME JobOver(t)
      PROVE  job'[t] = NoJob /\ Others(t)
  BY <1>0, <1>1, <1>o, JobOverFacts, OthersFacts
<1>p. {"bind", "persist", "pubky", "commit", "try", "keys", "rest", "clear", "locator", "provision"}
        \subseteq JobPcs \ {"idle"}
  BY DEF JobPcs
<1>2. CASE Acquire(t)
  <2>1. job[t].pc = "acquire"
    BY <1>2, AcquireFacts
  <2>2. CASE /\ Login(tab'[t], r.live, r.epoch, r.auth, r.loc, 1)
             /\ OnlyJob(t) /\ job'[t].pc = (IF job[t].via = "enable" THEN "bind" ELSE "check")
             /\ job'[t].s = s
    <3>1. Others(t)
      BY <1>0, <1>1, <2>2, OthersFacts
    <3> QED BY <1>0, <2>1, <2>2, <3>1, LoneGoes DEF Login
  <2>3. CASE JobOver(t) /\ UNCHANGED tab
    BY <1>0, <1>1, <1>o, <2>1, <2>3, LoneOver
  <2> QED BY <1>2, <2>2, <2>3, AcquireFacts
<1>3. CASE Check(t)
  <2>1. job[t].pc = "check"
    BY <1>3, CheckFacts
  <2>2. CASE JobOver(t)
    <3>1. tab'[t].epoch \in Nat
      BY <1>0, <1>1, <1>3, CheckFacts DEF CheckRefuses, Login
    <3> QED BY <1>0, <1>o, <2>1, <2>2, <3>1, LoneOver
  <2>3. CASE Goto(t, "bind") /\ UNCHANGED tab
    BY <1>0, <1>1, <1>g, <1>p, <2>1, <2>3, LoneGoes
  <2> QED BY <1>3, <2>2, <2>3, CheckFacts DEF CheckRefuses
<1>4. CASE Bind(t)
  <2>1. job[t].pc = "bind"
    BY <1>4, BindFacts
  <2>2. CASE JobOver(t)
    <3>1. tab'[t].epoch \in Nat
      BY <1>0, <1>1, <1>4, BindFacts DEF BindRefuses, Binds, Login
    <3> QED BY <1>0, <1>o, <2>1, <2>2, <3>1, LoneOver
  <2>3. CASE Binds(t)
    <3>1. Goto(t, "persist") /\ tab'[t].live = s /\ tab'[t].epoch = r.epoch
      BY <2>3 DEF Binds, Login
    <3> QED BY <1>0, <1>g, <1>p, <2>1, <3>1, LoneGoes
  <2> QED BY <1>4, <2>2, <2>3, BindFacts DEF BindRefuses
<1>5. CASE Persist(t)
  <2>1. job[t].pc = "persist" /\ UNCHANGED tab
    BY <1>5, PersistFacts
  <2>2. CASE OnlyJob(t) /\ job'[t].pc = "compare" /\ job'[t].s = s
    <3>1. Others(t)
      BY <1>0, <1>1, <2>2, OthersFacts
    <3> QED BY <1>0, <1>1, <1>l, <2>1, <2>2, <3>1, LoneGoes
  <2> QED BY <1>0, <1>1, <1>5, <1>o, <2>1, <2>2, PersistFacts, LoneOver
<1>6. CASE Compare(t)
  <2>1. job[t].pc = "compare" /\ UNCHANGED tab /\ (Goto(t, "pubky") \/ JobOver(t))
    BY <1>6, CompareFacts
  <2> QED BY <1>0, <1>1, <1>g, <1>l, <1>o, <1>p, <2>1, LoneGoes, LoneOver
<1>7. CASE Pubky(t)
  <2>1. job[t].pc = "pubky" /\ UNCHANGED tab /\ Goto(t, "commit")
    BY <1>7, PubkyFacts
  <2> QED BY <1>0, <1>1, <1>g, <1>l, <1>p, <2>1, LoneGoes
<1>8. CASE Commit(t)
  <2>1. /\ job[t].pc = "commit" /\ tab'[t].live = r.live /\ tab'[t].epoch = r.epoch
        /\ Goto(t, "try") \/ Goto(t, "keys") \/ JobOver(t)
    BY <1>1, <1>8, CommitFacts DEF Login
  <2> QED BY <1>0, <1>g, <1>l, <1>o, <1>p, <2>1, LoneGoes, LoneOver
<1>9. CASE TryPending(t)
  <2>1. job[t].pc = "try" /\ tab'[t].live = r.live /\ tab'[t].epoch = r.epoch
    BY <1>1, <1>9, TryPendingFacts DEF Login
  <2>2. CASE Goto(t, "provision")
    BY <1>0, <1>g, <1>l, <1>p, <2>1, <2>2, LoneGoes
  <2>3. CASE OnlyJob(t) /\ job'[t].pc = "keys" /\ job'[t].s = s
    <3>1. Others(t)
      BY <1>0, <1>1, <2>3, OthersFacts
    <3> QED BY <1>0, <1>l, <2>1, <2>3, <3>1, LoneGoes
  <2> QED BY <1>9, <2>2, <2>3, TryPendingFacts
<1>10. CASE Keys(t)
  <2>1. job[t].pc = "keys" /\ UNCHANGED tab /\ Goto(t, "rest")
    BY <1>10 DEF Keys
  <2> QED BY <1>0, <1>1, <1>g, <1>l, <1>p, <2>1, LoneGoes
<1>11. CASE RestOfKeys(t)
  <2>1. job[t].pc = "rest" /\ UNCHANGED tab /\ Goto(t, "clear")
    BY <1>11 DEF RestOfKeys
  <2> QED BY <1>0, <1>1, <1>g, <1>l, <1>p, <2>1, LoneGoes
<1>12. CASE ClearPending(t)
  <2>1. job[t].pc = "clear" /\ UNCHANGED tab /\ Goto(t, "locator")
    BY <1>12 DEF ClearPending
  <2> QED BY <1>0, <1>1, <1>g, <1>l, <1>p, <2>1, LoneGoes
<1>13. CASE ClearLocator(t)
  <2>1. /\ job[t].pc = "locator" /\ tab'[t].live = r.live /\ tab'[t].epoch = r.epoch
        /\ Goto(t, "provision") \/ JobOver(t)
    BY <1>13, ClearLocatorFacts DEF Login
  <2> QED BY <1>0, <1>g, <1>l, <1>o, <1>p, <2>1, LoneGoes, LoneOver
<1>14. CASE Provision(t)
  <2>1. job[t].pc = "provision" /\ tab'[t].epoch = r.epoch /\ JobOver(t)
    BY <1>14, ProvisionFacts DEF Login
  <2> QED BY <1>0, <1>o, <2>1, LoneOver
<1> QED BY <1>2, <1>3, <1>4, <1>5, <1>6, <1>7, <1>8, <1>9, <1>10, <1>11, <1>12, <1>13, <1>14 DEF JobStep
LEMMA CallOthers ==
    ASSUME Typed, NEW t \in Tabs, CallStep(t)
    PROVE  Others(t)
<1>1. UNCHANGED job /\ (UNCHANGED tab \/ Only(t))
  BY CallStart, OutClearFacts
<1>2. UNCHANGED rest \/ OnlyRest(t)
  BY RestoreStartFacts, ResumeFacts, RestOverFacts, RestorePutFacts, RestoreCompareFacts, RestorePubkyFacts,
     RestoreDoneFacts DEF CallStep, Finds, GivesUp, OutStart, OutServer, OutClear, OutWipe
<1>3. UNCHANGED out \/ OnlyOut(t)
  BY OutStartFacts, OutServerFacts, OutClearFacts, OutWipeFacts
     DEF CallStep, RestoreStart, Resume, RestorePut, RestoreCompare, RestorePubky, RestoreDone
<1> QED BY <1>1, <1>2, <1>3, OthersFacts

LEMMA LoneCallStep ==
    ASSUME Typed, LoneInv, NoOverlap, NEW t \in Tabs, CallStep(t)
    PROVE  LoneInv'
<1> DEFINE a == tab[t]
           r == rest[t]
           o == out[t]
           j == job[t]
<1>0. /\ Others(t) /\ job'[t] = j /\ a.epoch \in Nat /\ a.epoch + 1 \in Nat /\ r.e \in Nat
      /\ UNCHANGED tab => tab'[t] = a
      /\ UNCHANGED rest => rest'[t] = r
      /\ UNCHANGED out => out'[t] = o
  BY CallOthers, CallStart, TabFields, JobFields
<1>l. LoneOK(j, r, o, a)
  BY DEF LoneInv
<1>n. /\ NoJob.pc = "idle" /\ NoCall.pc = "idle" /\ NoCall.e = 0 /\ "idle" # "acquire"
  BY FreshCalls
<1>s. /\ RestoreStart(t) \/ Resume(t) \/ RestorePut(t) \/ RestoreCompare(t) \/ RestorePubky(t) \/ RestoreDone(t)
         => UNCHANGED out
      /\ OutStart(t) \/ OutServer(t) \/ OutClear(t) \/ OutWipe(t) => UNCHANGED rest
      /\ RestoreStart(t) \/ RestorePut(t) \/ RestorePubky(t) \/ OutServer(t) => UNCHANGED tab
  BY DEF RestoreStart, Resume, RestorePut, RestoreCompare, RestorePubky, RestoreDone,
         OutStart, OutServer, OutClear, OutWipe
<1>k. ASSUME j = NoJob, rest'[t] = NoCall, out'[t] = o, tab'[t].epoch \in Nat
      PROVE  LoneInv'
  <2>1. LoneOK(job'[t], rest'[t], out'[t], tab'[t])
    BY <1>0, <1>k, <1>l, <1>n DEF LoneOK
  <2> QED BY <1>0, <2>1, LoneNext
<1>1. CASE RestoreStart(t)
  <2>1. j = NoJob /\ a.live = 0 /\ rest'[t].pc = "resume" /\ rest'[t].e = 0
    <3>1. rest'[t] = [pc |-> "resume", s |-> disk.meta, e |-> 0]
      BY <1>1 DEF RestoreStart, Typed
    <3> QED BY <1>1, <3>1, RestoreStartFacts DEF NoOverlap
  <2>2. LoneOK(job'[t], rest'[t], out'[t], tab'[t])
    BY <1>0, <1>1, <1>l, <1>n, <1>s, <2>1 DEF LoneOK
  <2> QED BY <1>0, <2>2, LoneNext
<1>2. CASE Resume(t)
  <2>1. r.pc = "resume" /\ j = NoJob /\ out'[t] = o
    BY <1>0, <1>2, <1>l, <1>n, <1>s, ResumeFacts DEF LoneOK
  <2>2. CASE Finds(t)
    <3>1. PICK s \in Flows : tab'[t].live = s /\ tab'[t].epoch = a.epoch /\ rest'[t].s = s
      BY <2>2 DEF Finds, Login
    <3>2. rest'[t].pc = "open" /\ rest'[t].e = a.epoch
      BY <2>2 DEF Finds
    <3>3. LoneOK(job'[t], rest'[t], out'[t], tab'[t])
      BY <1>0, <1>l, <1>n, <2>1, <3>1, <3>2 DEF LoneOK
    <3> QED BY <1>0, <3>3, LoneNext
  <2>3. CASE GivesUp(t)
    <3>1. rest'[t] = NoCall /\ tab'[t].epoch \in Nat
      BY <1>0, <2>3, RestOverFacts DEF GivesUp, Login
    <3> QED BY <1>k, <2>1, <3>1
  <2> QED BY <1>2, <2>2, <2>3, ResumeFacts
<1>3. CASE RestorePut(t)
  <2>1. /\ r.pc = "open" /\ rest'[t].pc = "compare" /\ rest'[t].s = r.s /\ rest'[t].e = r.e
        /\ out'[t] = o /\ tab'[t] = a
    BY <1>0, <1>3, <1>s, RestorePutFacts
  <2>2. LoneOK(job'[t], rest'[t], out'[t], tab'[t])
    BY <1>0, <1>l, <1>n, <2>1 DEF LoneOK
  <2> QED BY <1>0, <2>2, LoneNext
<1>4. CASE RestoreCompare(t)
  <2>1. r.pc = "compare" /\ j = NoJob /\ out'[t] = o
    BY <1>0, <1>4, <1>l, <1>n, <1>s, RestoreCompareFacts DEF LoneOK
  <2>2. CASE /\ r.e = a.epoch /\ UNCHANGED tab /\ rest'[t].pc = "pubky" /\ rest'[t].s = r.s
             /\ rest'[t].e = r.e
    <3>1. LoneOK(job'[t], rest'[t], out'[t], tab'[t])
      BY <1>0, <1>l, <1>n, <2>1, <2>2 DEF LoneOK
    <3> QED BY <1>0, <3>1, LoneNext
  <2>3. CASE r.e # a.epoch /\ Drops(t) /\ RestOver(t)
    <3>1. tab'[t].epoch = a.epoch /\ rest'[t] = NoCall
      BY <2>3, RestOverFacts DEF Drops, Login
    <3> QED BY <1>0, <1>k, <2>1, <3>1
  <2> QED BY <1>4, <2>2, <2>3, RestoreCompareFacts
<1>5. CASE RestorePubky(t)
  <2>1. /\ r.pc = "pubky" /\ rest'[t].pc = "last" /\ rest'[t].s = r.s /\ rest'[t].e = r.e
        /\ out'[t] = o /\ tab'[t] = a
    BY <1>0, <1>5, <1>s, RestorePubkyFacts
  <2>2. LoneOK(job'[t], rest'[t], out'[t], tab'[t])
    BY <1>0, <1>l, <1>n, <2>1 DEF LoneOK
  <2> QED BY <1>0, <2>2, LoneNext
<1>6. CASE RestoreDone(t)
  <2>1. r.pc = "last" /\ j = NoJob /\ out'[t] = o /\ rest'[t] = NoCall
    BY <1>0, <1>6, <1>l, <1>n, <1>s, RestoreDoneFacts, RestOverFacts DEF LoneOK
  <2>2. tab'[t].epoch = a.epoch
    BY <1>6, RestoreDoneFacts DEF Drops, Login
  <2> QED BY <1>0, <1>k, <2>1, <2>2
<1>7. CASE OutStart(t)
  <2>1. /\ rest'[t] = r
        /\ tab'[t].live = 0 /\ tab'[t].epoch = a.epoch + 1 /\ out'[t].pc = "server"
    BY <1>0, <1>7, <1>s, OutStartFacts DEF Login
  <2>2. a.epoch + 1 # r.e /\ r.e <= a.epoch + 1
    BY <1>0, <1>l DEF LoneOK
  <2>3. LoneOK(job'[t], rest'[t], out'[t], tab'[t])
    BY <1>0, <1>l, <1>n, <2>1, <2>2 DEF LoneOK
  <2> QED BY <1>0, <2>3, LoneNext
<1>8. CASE OutServer(t)
  <2>1. o.pc = "server" /\ out'[t].pc = "clear" /\ rest'[t] = r /\ tab'[t] = a
    BY <1>0, <1>8, <1>s, OutServerFacts
  <2>2. LoneOK(job'[t], rest'[t], out'[t], tab'[t])
    BY <1>0, <1>l, <1>n, <2>1 DEF LoneOK
  <2> QED BY <1>0, <2>2, LoneNext
<1>9. CASE OutClear(t)
  <2>1. /\ o.pc = "clear" /\ out'[t].pc = "wipe" /\ rest'[t] = r /\ tab'[t].live = a.live
        /\ tab'[t].epoch = a.epoch
    BY <1>0, <1>9, <1>s, OutClearFacts DEF SameLogin
  <2>2. LoneOK(job'[t], rest'[t], out'[t], tab'[t])
    BY <1>0, <1>l, <1>n, <2>1 DEF LoneOK
  <2> QED BY <1>0, <2>2, LoneNext
<1>10. CASE OutWipe(t)
  <2>1. /\ o.pc = "wipe" /\ out'[t] = NoCall /\ rest'[t] = r /\ tab'[t].live = a.live
        /\ tab'[t].epoch = a.epoch + 1
    BY <1>0, <1>10, <1>s, OutWipeFacts DEF Login
  <2>2. a.epoch + 1 # r.e /\ r.e <= a.epoch + 1
    BY <1>0, <1>l DEF LoneOK
  <2>3. LoneOK(job'[t], rest'[t], out'[t], tab'[t])
    BY <1>0, <1>l, <1>n, <2>1, <2>2 DEF LoneOK
  <2> QED BY <1>0, <2>3, LoneNext
<1> QED BY <1>1, <1>2, <1>3, <1>4, <1>5, <1>6, <1>7, <1>8, <1>9, <1>10 DEF CallStep
(* What the steps of a flow do to its tab: they leave alone what is signed   *)
(* in, and may start an adoption of the flow's session.                      *)
FlowAdopts(f) ==
    LET t == flow[f].tab
    IN  CanAdopt(t) /\ OnlyJob(t) /\ job'[t].s = f /\ job'[t].pc = "acquire"

SameSession(r, e) == e.live = r.live /\ e.epoch = r.epoch /\ e.auth = r.auth /\ e.sec = r.sec

LEMMA FlowTabs ==
    ASSUME Typed, NEW f \in Flows, FlowStep(f)
    PROVE  LET t == flow[f].tab
           IN  /\ UNCHANGED <<disk, rest, out>> /\ t \in Tabs /\ Others(t)
               /\ SameSession(tab[t], tab'[t]) /\ (Locator(f) \/ tab'[t].loc = tab[t].loc)
               /\ UNCHANGED job \/ FlowAdopts(f)
<1> DEFINE t == flow[f].tab
           r == tab[t]
<1>0. UNCHANGED <<disk, rest, out>>
  BY DEF FlowStep, RingApprove, RingPost, Locator, Payload, WatchFails, Session, Deadline
<1>1. t \in Tabs
  <2>1. RingApprove(f) \/ Session(f) => t \in Tabs
    BY SessionFacts DEF RingApprove, Typed
  <2>2. (\E l \in Locators : RingPost(f, l)) \/ Locator(f) \/ Payload(f) \/ WatchFails(f) \/ Deadline(f)
          => flow[f].kind = "connect"
    BY DEF RingPost, Locator, Payload, WatchFails, Deadline, Watching
  <2> QED BY <2>1, <2>2 DEF FlowStep, Typed
<1>s. ASSUME tab' = Settled(f), flow[f].kind # "none"
      PROVE  Only(t) /\ SameSession(r, tab'[t]) /\ tab'[t].loc = r.loc
  BY <1>s, SettledFacts DEF SameLogin, SameSession
<1>u. UNCHANGED tab => SameSession(r, tab'[t]) /\ tab'[t].loc = r.loc
  BY DEF SameSession
<1>2. CASE RingApprove(f) \/ (\E l \in Locators : RingPost(f, l))
  <2>1. UNCHANGED <<tab, job>>
    BY <1>2 DEF RingApprove, RingPost
  <2> QED BY <1>0, <1>1, <1>u, <2>1 DEF Others
<1>3. CASE Locator(f)
  <2>1. Only(t) /\ SameSession(r, tab'[t]) /\ UNCHANGED job
    BY <1>3, LocatorFacts DEF SameSession, Locator
  <2>2. Others(t)
    BY <1>0, <1>1, <2>1, OthersFacts
  <2> QED BY <1>0, <1>1, <1>3, <2>1, <2>2
<1>4. CASE Payload(f)
  <2>1. flow[f].kind = "connect" /\ f \in Ids
    BY <1>4, PayloadFacts, Numbers
  <2>2. CASE PayloadAdopted(f)
    <3>1. OnlyJob(t) /\ job'[t].s = f /\ job'[t].pc = "acquire" /\ CanAdopt(t)
      BY <1>1, <2>1, <2>2, AdoptFacts DEF PayloadAdopted
    <3>2. Only(t) /\ SameSession(r, tab'[t]) /\ tab'[t].loc = r.loc
      BY <1>s, <2>1, <2>2 DEF PayloadAdopted
    <3>3. Others(t)
      BY <1>0, <1>1, <3>1, <3>2, OthersFacts
    <3> QED BY <1>0, <1>1, <3>1, <3>2, <3>3 DEF FlowAdopts
  <2>3. CASE PayloadOld(f)
    <3>1. Only(t) /\ SameSession(r, tab'[t]) /\ tab'[t].loc = r.loc /\ UNCHANGED job
      BY <1>s, <2>1, <2>3 DEF PayloadOld
    <3>2. Others(t)
      BY <1>0, <1>1, <3>1, OthersFacts
    <3> QED BY <1>0, <1>1, <3>1, <3>2
  <2>4. CASE PayloadWaits(f)
    <3>1. UNCHANGED <<tab, job>>
      BY <2>4 DEF PayloadWaits
    <3> QED BY <1>0, <1>1, <1>u, <3>1 DEF Others
  <2> QED BY <1>4, <2>2, <2>3, <2>4, PayloadFacts
<1>5. CASE WatchFails(f) \/ Deadline(f)
  <2>1. flow[f].kind # "none" /\ UNCHANGED job /\ (tab' = Settled(f) \/ UNCHANGED tab)
    BY <1>5 DEF WatchFails, Deadline, Watching
  <2>2. CASE tab' = Settled(f)
    <3>1. Only(t) /\ SameSession(r, tab'[t]) /\ tab'[t].loc = r.loc
      BY <1>s, <2>1, <2>2
    <3>2. Others(t)
      BY <1>0, <1>1, <2>1, <3>1, OthersFacts
    <3> QED BY <1>0, <1>1, <2>1, <3>1, <3>2
  <2>3. CASE UNCHANGED tab
    BY <1>0, <1>1, <1>u, <2>1, <2>3 DEF Others
  <2> QED BY <2>1, <2>2, <2>3
<1>6. CASE Session(f)
  <2>1. CASE SessionOver(f) \/ SessionWaits(f)
    <3>1. UNCHANGED <<tab, job>>
      BY <2>1 DEF SessionOver, SessionWaits
    <3> QED BY <1>0, <1>1, <1>u, <3>1 DEF Others
  <2>2. CASE SessionAdopted(f)
    <3>1. PICK via \in {"single", "legacy", "enable"}, ch \in Ids : job' = Adopt(t, via, f, ch)
      BY <2>2 DEF SessionAdopted
    <3>2. OnlyJob(t) /\ job'[t].s = f /\ job'[t].pc = "acquire" /\ CanAdopt(t)
      BY <1>1, <2>2, <3>1, AdoptFacts, Numbers DEF SessionAdopted
    <3>3. (UNCHANGED tab \/ Only(t)) /\ SameSession(r, tab'[t]) /\ tab'[t].loc = r.loc
      BY <1>s, <1>u, <2>2 DEF SessionAdopted
    <3>4. Others(t)
      BY <1>0, <1>1, <3>2, <3>3, OthersFacts
    <3> QED BY <1>0, <1>1, <3>2, <3>3, <3>4 DEF FlowAdopts
  <2> QED BY <1>6, <2>1, <2>2, SessionFacts
<1> QED BY <1>2, <1>3, <1>4, <1>5, <1>6 DEF FlowStep

LEMMA LoneFlowStep ==
    ASSUME Typed, LoneInv, NoOverlap, NEW f \in Flows, FlowStep(f)
    PROVE  LoneInv'
<1> DEFINE t == flow[f].tab
<1>1. /\ UNCHANGED <<rest, out>> /\ t \in Tabs /\ Others(t)
      /\ SameSession(tab[t], tab'[t])
      /\ UNCHANGED job \/ FlowAdopts(f)
  BY FlowTabs
<1>2. CASE UNCHANGED job
  BY <1>1, <1>2, LoneSame DEF SameSession
<1>3. CASE FlowAdopts(f)
  <2>1. CanAdopt(t) /\ job'[t].pc = "acquire"
    BY <1>3 DEF FlowAdopts
  <2>2. tab'[t].epoch \in Nat
    BY <1>1, TabFields DEF SameSession
  <2> QED BY <1>1, <2>1, <2>2, LoneStarts
<1> QED BY <1>1, <1>2, <1>3

LEMMA StartLogin ==
    ASSUME Typed, NEW t \in Tabs, StartStep(t)
    PROVE  /\ UNCHANGED <<disk, past, ring, jar, job, rest, out>>
           /\ UNCHANGED tab \/ (Only(t) /\ SameLogin(tab[t], tab'[t]))
<1>1. ASSUME NEW replace \in BOOLEAN, Start(t, replace)
      PROVE  /\ UNCHANGED <<disk, past, ring, jar, job, rest, out>>
             /\ Only(t) /\ SameLogin(tab[t], tab'[t])
  BY <1>1, StartFacts DEF Start, Renews, LeavesFlows
<1>2. CASE Minted(t) \/ MintFails(t) \/ Cancel(t) \/ EnableStart(t)
  BY <1>2, MintedFacts, MintFailsFacts, CancelFacts
     DEF Minted, MintFails, Cancel, EnableStart, Renews, LeavesFlows
<1> QED BY <1>1, <1>2 DEF StartStep

LEMMA LoneTabStep ==
    ASSUME Typed, LoneInv, NoOverlap, NEW t \in Tabs, TabStep(t)
    PROVE  LoneInv'
<1>1. CASE StartStep(t)
  <2>1. UNCHANGED <<job, rest, out>> /\ (UNCHANGED tab \/ (Only(t) /\ SameLogin(tab[t], tab'[t])))
    BY <1>1, StartLogin
  <2>2. Others(t)
    BY <2>1, OthersFacts
  <2> QED BY <2>1, <2>2, LoneSame DEF SameLogin
<1>2. CASE SectionTimer(t)
  <2>1. UNCHANGED <<job, rest, out>> /\ Only(t) /\ tab'[t].live = tab[t].live /\ tab'[t].epoch = tab[t].epoch
    BY <1>2, SectionTimerFacts DEF SectionTimer, Login
  <2>2. Others(t)
    BY <2>1, OthersFacts
  <2> QED BY <2>1, <2>2, LoneSame
<1>3. ASSUME NEW page \in Ids, Loaded(t, page)
      PROVE  LoneInv'
  <2>1. /\ Only(t) /\ OnlyJob(t) /\ OnlyRest(t) /\ OnlyOut(t) /\ tab'[t].live = 0 /\ tab'[t].epoch = 0
        /\ job'[t] = NoJob /\ rest'[t] = NoCall /\ out'[t] = NoCall
    BY <1>3, LoadedFacts
  <2>2. Others(t)
    BY <2>1, OthersFacts
  <2>3. LoneOK(job'[t], rest'[t], out'[t], tab'[t])
    BY <2>1, FreshCalls DEF LoneOK
  <2> QED BY <2>2, <2>3, LoneNext
<1>4. CASE CallbackAdopt(t)
  <2>1. /\ CanAdopt(t) /\ OnlyJob(t) /\ job'[t].pc = "acquire" /\ Only(t) /\ tab'[t].epoch = tab[t].epoch
        /\ UNCHANGED <<rest, out>>
    BY <1>4, CallbackAdoptFacts DEF SameLogin, CallbackAdopt
  <2>2. Others(t) /\ tab[t].epoch \in Nat
    BY <2>1, OthersFacts, TabFields
  <2> QED BY <2>1, <2>2, LoneStarts
<1> QED BY <1>1, <1>2, <1>3, <1>4, LoneJobStep, LoneCallStep, StepCases, LoadCases

LEMMA LoneStep ==
    ASSUME Typed, LoneInv, NoOverlap, [SiNext]_siVars
    PROVE  LoneInv'
<1>1. CASE UNCHANGED siVars
  BY <1>1 DEF LoneInv, siVars
<1> QED BY <1>1, LoneFlowStep, LoneTabStep DEF SiNext

LEMMA LoneInit ==
    ASSUME SiInit
    PROVE  LoneInv
<1>1. \A t \in Tabs : tab[t] = NewTab /\ job[t] = NoJob /\ rest[t] = NoCall /\ out[t] = NoCall
  BY DEF SiInit
<1> QED BY <1>1, FreshTab, FreshCalls DEF LoneInv, LoneOK

(* An adoption and a restore of a tab never run side by side, whenever a     *)
(* sign-out begins; the session of the one or the other is the tab's, or a   *)
(* sign-out took it, which the restore knows by the epoch.                   *)
THEOREM OneThingAtATime == NoOverlap => (SiSpec => [](Typed /\ LoneInv))
<1> SUFFICES ASSUME NoOverlap PROVE SiSpec => [](Typed /\ LoneInv)
  OBVIOUS
<1>1. SiInit => Typed /\ LoneInv
  BY TypedInit, LoneInit
<1>2. Typed /\ LoneInv /\ [SiNext]_siVars => (Typed /\ LoneInv)'
  BY TypedStep, LoneStep
<1> QED BY <1>1, <1>2, PTL DEF SiSpec
-------------------------------------------------------------------------------
(* No session is left over                                                   *)

(* A session is answered once and ends once.                                 *)
LEMMA SrvFlow ==
    ASSUME Typed, NEW f \in Flows, FlowStep(f), NEW g \in Flows
    PROVE  \/ srv'[g] = srv[g] \/ srv'[g] = "out"
           \/ g = f /\ srv[g] = "none" /\ srv'[g] = "granted" /\ RingApprove(f)
           \/ g = f /\ srv[g] = "granted" /\ srv'[g] = "live" /\ (SessionWaits(f) \/ SessionAdopted(f))
<1>0. srv \in [Flows -> SrvT] /\ f \in Ids
  BY Numbers DEF Typed
<1>1. CASE RingApprove(f)
  BY <1>0, <1>1 DEF RingApprove
<1>2. CASE (\E l \in Locators : RingPost(f, l)) \/ Locator(f)
  BY <1>2 DEF RingPost, Locator
<1>3. CASE Payload(f)
  BY <1>3, PayloadFacts DEF PayloadOld, PayloadWaits, PayloadAdopted
<1>4. CASE WatchFails(f) \/ Deadline(f)
  <2> DEFINE sr == AbortedSrv(f)
  <2>1. srv' = sr \/ srv' = srv
    BY <1>4, WatchFailsFacts, DeadlineFacts
  <2>2. sr[g] = srv[g] \/ sr[g] = "out"
    BY <1>0, AbortedFacts
  <2> HIDE DEF sr
  <2> QED BY <2>1, <2>2
<1>5. CASE Session(f)
  BY <1>0, <1>5, SessionFacts DEF SessionOver, SessionWaits, SessionAdopted
<1> QED BY <1>1, <1>2, <1>3, <1>4, <1>5 DEF FlowStep

LEMMA SrvTab ==
    ASSUME Typed, NEW t \in Tabs, TabStep(t), NEW g \in Flows
    PROVE  srv'[g] = srv[g] \/ srv'[g] = "out"
<1> DEFINE c == tab[t].conn
           sr == AbortedSrv(c)
           s == job[t].s
<1>0. c \in Ids /\ s \in Ids /\ \A i \in Ids : SignedOut(i)[g] = (IF g = i THEN "out" ELSE srv[g])
  BY TabFields, JobFields, SignedOutFacts
<1>a. sr[g] = srv[g] \/ sr[g] = "out"
  BY <1>0, AbortedFacts
<1> HIDE DEF sr
<1>1. CASE StartStep(t)
  <2>1. srv' = srv \/ srv' = sr
    <3>1. ASSUME NEW replace \in BOOLEAN, Start(t, replace)
          PROVE  srv' = srv \/ srv' = sr
      BY <3>1, StartFacts DEF Renews, LeavesFlows, sr
    <3>2. CASE Minted(t) \/ MintFails(t) \/ Cancel(t) \/ EnableStart(t)
      BY <3>2, MintFailsFacts DEF Minted, Renews, LeavesFlows, Cancel, EnableStart, sr
    <3> QED BY <1>1, <3>1, <3>2 DEF StartStep
  <2> QED BY <1>a, <2>1
<1>2. CASE JobStep(t)
  <2>1. srv' = srv \/ srv' = SignedOut(s)
    <3>1. CASE Check(t) \/ Bind(t)
      BY <3>1, CheckFacts, BindFacts DEF CheckRefuses, BindRefuses, Binds
    <3>2. CASE ~(Check(t) \/ Bind(t))
      BY <1>2, <3>2 DEF JobStep, Acquire, Persist, Compare, Pubky, Commit, TryPending, Keys, RestOfKeys,
                        ClearPending, ClearLocator, Provision
    <3> QED BY <3>1, <3>2
  <2> QED BY <1>0, <2>1
<1>3. CASE CallStep(t)
  <2>1. CASE OutServer(t)
    BY <2>1, OutServerFacts
  <2>2. CASE OutClear(t)
    BY <1>a, <2>2, OutClearFacts DEF sr
  <2>3. CASE ~OutServer(t) /\ ~OutClear(t)
    BY <1>3, <2>3 DEF CallStep, RestoreStart, Resume, RestorePut, RestoreCompare, RestorePubky, RestoreDone,
                      OutStart, OutWipe
  <2> QED BY <2>1, <2>2, <2>3
<1>4. CASE SectionTimer(t) \/ LoadStep(t)
  BY <1>4, LoadCases, LoadedFacts DEF SectionTimer, CallbackAdopt
<1> QED BY <1>1, <1>2, <1>3, <1>4, StepCases

(* What lapsed stays lapsed.                                                 *)
LEMMA LapsedFlow ==
    ASSUME Typed, NEW f \in Flows, FlowStep(f)
    PROVE  ghost'.lapsed = ghost.lapsed
<1>1. CASE RingApprove(f) \/ Locator(f) \/ Deadline(f)
  BY <1>1, RingApproveFacts, LocatorFacts, DeadlineFacts DEF Gave, SamePast
<1>2. CASE (\E l \in Locators : RingPost(f, l)) \/ Payload(f) \/ WatchFails(f) \/ Session(f)
  BY <1>2 DEF RingPost, Payload, WatchFails, Session
<1> QED BY <1>1, <1>2 DEF FlowStep

LEMMA LapsedTab ==
    ASSUME Typed, NEW t \in Tabs, TabStep(t)
    PROVE  ghost.lapsed \subseteq ghost'.lapsed
<1>1. CASE StartStep(t)
  <2>1. ASSUME NEW replace \in BOOLEAN, Start(t, replace)
        PROVE  ghost'.lapsed = ghost.lapsed
    BY <2>1, StartFacts DEF Renews, LeavesFlows, Gave, SamePast
  <2>2. CASE Minted(t) \/ MintFails(t) \/ Cancel(t) \/ EnableStart(t)
    BY <2>2, MintedFacts, MintFailsFacts, CancelFacts DEF Renews, LeavesFlows, EnableStart, Gave, SamePast
  <2> QED BY <1>1, <2>1, <2>2 DEF StartStep
<1>2. CASE JobStep(t)
  <2>1. CASE Bind(t) \/ RestOfKeys(t)
    BY <2>1, BindFacts, RestOfKeysFacts DEF BindRefuses, Binds
  <2>2. CASE ~(Bind(t) \/ RestOfKeys(t))
    BY <1>2, <2>2 DEF JobStep, Acquire, Check, Persist, Compare, Pubky, Commit, TryPending, Keys,
                      ClearPending, ClearLocator, Provision
  <2> QED BY <2>1, <2>2
<1>3. CASE CallStep(t)
  <2>1. CASE Resume(t) \/ OutStart(t) \/ OutServer(t) \/ OutClear(t) \/ OutWipe(t)
    BY <2>1, ResumeFacts, OutStartFacts, OutServerFacts, OutClearFacts, OutWipeFacts DEF Finds, GivesUp
  <2>2. CASE ~(Resume(t) \/ OutStart(t) \/ OutServer(t) \/ OutClear(t) \/ OutWipe(t))
    BY <1>3, <2>2 DEF CallStep, RestoreStart, RestorePut, RestoreCompare, RestorePubky, RestoreDone
  <2> QED BY <2>1, <2>2
<1>4. CASE SectionTimer(t) \/ LoadStep(t)
  BY <1>4, LoadCases, LoadedFacts DEF SectionTimer, CallbackAdopt
<1> QED BY <1>1, <1>2, <1>3, <1>4, StepCases

(* An answer is kept only beside a watch that waits, an old locator never    *)
(* beside one, an adoption not bound yet is in its section, and a sign-out   *)
(* past the server has ended its session or let it lapse.  The session of an *)
(* adoption past its bind is the live one, or a sign-out took it.            *)
Past(s) == srv[s] = "out" \/ s \in ghost.lapsed
GotWaits == \A f \in Flows : flow[f].got => Waits(flow[f])
OldIsAlone == \A f \in Flows : ring[f] = "legacy" => srv[f] # "granted" /\ srv[f] # "live"
BindsHeld == \A t \in Tabs : job[t].pc \in {"check", "bind"} => Held(t)
OutEnded == \A t \in Tabs : \A s \in Flows :
    out[t].pc \in {"clear", "wipe"} /\ out[t].s = s => Past(s)
Bound == \A t \in Tabs : \A s \in Flows :
    job[t].s = s /\ job[t].pc \notin {"idle", "acquire", "check", "bind"} =>
        tab[t].live = s \/ out[t].s = s \/ Past(s)

(* A session that a restore found had somebody to use it before.             *)
Found == {"open", "compare", "pubky", "last"}
Users(t) == {job[t].s, out[t].s} \cup (IF rest[t].pc \in Found THEN {} ELSE {tab[t].live})
UsersNext(t) == {job'[t].s, out'[t].s} \cup (IF rest'[t].pc \in Found THEN {} ELSE {tab'[t].live})
Uses(s) == \E t \in Tabs : s \in Users(t)
Reason(s) == flow[s].got \/ s \in ghost.lapsed \/ Uses(s)
Reasons == \A s \in Flows : srv[s] = "live" => Reason(s)

StrayInv == GotWaits /\ OldIsAlone /\ BindsHeld /\ OutEnded /\ Bound /\ Reasons
Orderly == NoOverlap /\ "refused" \notin Faults /\ "both" \notin Faults
(* An answer beside a watch stays there until it is adopted, or signed out.  *)
LEMMA EndedGot ==
    ASSUME Typed, NEW f \in Flows, NEW g \in Flows, flow' = Ended(f)
    PROVE  ~flow'[f].got /\ (g # f => flow'[g] = flow[g])
<1> DEFINE fl == Ended(f)
<1>1. Over(flow[f], fl[f]) /\ (g # f => fl[g] = flow[g])
  BY EndedFacts
<1> HIDE DEF fl
<1> QED BY <1>1 DEF Over, fl

LEMMA AbortedGot ==
    ASSUME Typed, NEW c \in Ids, NEW g \in Flows, flow' = AbortedFlows(c), srv' = AbortedSrv(c),
           flow[g].got => Waits(flow[g])
    PROVE  /\ flow'[g].got => Waits(flow'[g])
           /\ flow[g].got => flow'[g].got \/ srv'[g] = "out"
<1> DEFINE fl == AbortedFlows(c)
           sr == AbortedSrv(c)
<1>5. \A f \in Flows : f # c => fl[f] = flow[f]
  BY AbortedFacts
<1>6. c # 0 => fl[c].got = FALSE
  BY AbortedFacts
<1>7. c # 0 /\ flow[c].got /\ flow[c].ph # "done" => sr[c] = "out"
  BY AbortedFacts
<1>2. flow' = fl /\ srv' = sr
  OBVIOUS
<1> HIDE DEF fl, sr
<1>3. CASE g # c
  BY <1>2, <1>3, <1>5
<1>4. CASE g = c
  BY <1>2, <1>4, <1>6, <1>7, Numbers DEF Waits
<1> QED BY <1>3, <1>4

LEMMA GotFlow ==
    ASSUME Typed, NEW f \in Flows, FlowStep(f), NEW g \in Flows, flow[g].got => Waits(flow[g])
    PROVE  /\ flow'[g].got => Waits(flow'[g])
           /\ flow[g].got => \/ flow'[g].got \/ ring[g] = "legacy" \/ srv'[g] = "out"
                             \/ g = f /\ job'[flow[f].tab].s = f
<1>k. UNCHANGED flow => flow'[g] = flow[g]
  OBVIOUS
<1>j. job'[flow[f].tab].s = f \/ UNCHANGED job
  BY FlowTabs DEF FlowAdopts
<1>t. flow[g].kind = "none" => ~flow[g].got
  BY DEF Typed
<1>a. ASSUME flow' = Ended(f), srv' = AbortedSrv(f)
      PROVE  /\ flow'[g].got => Waits(flow'[g])
             /\ flow[g].got => flow'[g].got \/ srv'[g] = "out"
  <2> DEFINE sr == AbortedSrv(f)
  <2>1. flow[f].got /\ flow[f].ph # "done" => sr[f] = "out"
    BY AbortedFacts, Numbers
  <2>2. srv' = sr
    BY <1>a
  <2> HIDE DEF sr
  <2>3. ~flow'[f].got /\ (g # f => flow'[g] = flow[g])
    BY <1>a, EndedGot
  <2> QED BY <2>1, <2>2, <2>3 DEF Waits
<1>1. CASE RingApprove(f)
  <2>1. SameFlow(flow[f], flow'[f]) /\ (g # f => flow'[g] = flow[g])
    BY <1>1, RingApproveFacts
  <2> QED BY <2>1 DEF SameFlow, Waits
<1>2. CASE \E l \in Locators : RingPost(f, l)
  BY <1>2 DEF RingPost
<1>3. CASE Locator(f)
  <2>1. /\ flow'[f].kind = "connect" /\ flow'[f].ph = "reading" /\ flow'[f].got = flow[f].got
        /\ g # f => flow'[g] = flow[g]
    BY <1>3, LocatorFacts
  <2> QED BY <2>1 DEF Waits
<1>4. CASE Payload(f)
  <2>1. CASE PayloadOld(f)
    <3>1. /\ ring[f] = "legacy" /\ ~flow'[f].got
          /\ g # f => flow'[g] = flow[g] \/ (flow[g].kind = "none" /\ ~flow'[g].got)
      BY <2>1 DEF PayloadOld, Over
    <3> QED BY <1>t, <3>1
  <2>2. CASE PayloadWaits(f)
    <3>1. /\ flow'[f].kind = "connect" /\ flow'[f].ph = "open" /\ flow'[f].got = flow[f].got
          /\ g # f => flow'[g] = flow[g]
      BY <1>4, <2>2, PayloadFacts DEF PayloadWaits
    <3> QED BY <3>1 DEF Waits
  <2>3. CASE PayloadAdopted(f)
    <3>1. job'[flow[f].tab].s = f
      BY <1>4, <2>3, PayloadFacts, AdoptFacts, Numbers DEF PayloadAdopted
    <3>2. ~flow'[f].got /\ (g # f => flow'[g] = flow[g])
      BY <2>3, EndedGot DEF PayloadAdopted
    <3> QED BY <3>1, <3>2
  <2> QED BY <1>4, <2>1, <2>2, <2>3, PayloadFacts
<1>5. CASE WatchFails(f)
  BY <1>5, <1>a, WatchFailsFacts
<1>6. CASE Session(f)
  <2>1. CASE SessionOver(f)
    BY <2>1 DEF SessionOver
  <2>2. CASE SessionWaits(f)
    <3>1. /\ Waits(flow[f]) /\ flow'[f].kind = flow[f].kind /\ flow'[f].ph = flow[f].ph
          /\ flow'[f].got = TRUE
          /\ g # f => flow'[g] = flow[g]
      BY <2>2, WaitsFacts DEF SessionWaits
    <3> QED BY <3>1 DEF Waits
  <2>3. CASE SessionAdopted(f)
    <3>1. flow[f].tab \in Tabs
      BY <1>6, SessionFacts
    <3>2. job'[flow[f].tab].s = f
      BY <2>3, <3>1, AdoptFacts, Numbers DEF SessionAdopted
    <3>3. ~flow'[f].got /\ (g # f => flow'[g] = flow[g])
      BY <2>3, EndedGot DEF SessionAdopted
    <3> QED BY <3>2, <3>3
  <2> QED BY <1>6, <2>1, <2>2, <2>3, SessionFacts
<1>7. CASE Deadline(f)
  BY <1>7, <1>a, <1>k, DeadlineFacts
<1> QED BY <1>1, <1>2, <1>3, <1>4, <1>5, <1>6, <1>7 DEF FlowStep

LEMMA GotTab ==
    ASSUME Typed, NEW t \in Tabs, TabStep(t), NEW g \in Flows, flow[g].got => Waits(flow[g])
    PROVE  /\ flow'[g].got => Waits(flow'[g])
           /\ flow[g].got => flow'[g].got \/ g \in ghost'.lapsed \/ srv'[g] = "out"
<1> DEFINE c == tab[t].conn
<1>0. c \in Ids
  BY TabFields
<1>t. flow[g].kind = "none" => ~flow[g].got
  BY DEF Typed
<1>a. ASSUME flow' = AbortedFlows(c), srv' = AbortedSrv(c)
      PROVE  /\ flow'[g].got => Waits(flow'[g])
             /\ flow[g].got => flow'[g].got \/ srv'[g] = "out"
  BY <1>0, <1>a, AbortedGot
<1>1. ASSUME NEW replace \in BOOLEAN, Start(t, replace)
      PROVE  /\ flow'[g].got => Waits(flow'[g])
             /\ flow[g].got => flow'[g].got \/ srv'[g] = "out"
  <2>1. CASE Renews(t)
    BY <1>a, <2>1 DEF Renews
  <2>2. CASE LeavesFlows(t)
    BY <2>2 DEF LeavesFlows
  <2> QED BY <1>1, <2>1, <2>2, StartFacts
<1>2. CASE Minted(t)
  <2>1. /\ Next1 \in Flows /\ flow[Next1].kind = "none" /\ flow'[Next1].got = FALSE
        /\ g # Next1 => flow'[g] = flow[g]
    BY <1>2, MintedFacts
  <2> QED BY <1>t, <2>1
<1>3. CASE Cancel(t)
  <2> DEFINE fl == AbortedFlows(c)
             sr == AbortedSrv(c)
  <2>1. /\ \/ flow[g].kind = "chain" /\ GivenUp(flow[g], flow'[g])
           \/ g # c /\ flow'[g] = flow[g]
           \/ g = c /\ flow'[g] = fl[c]
        /\ srv' = sr
    BY <1>3, CancelFacts
  <2>2. /\ c # 0 => fl[c].got = FALSE
        /\ c # 0 /\ flow[c].got /\ flow[c].ph # "done" => sr[c] = "out"
    BY <1>0, AbortedFacts
  <2> HIDE DEF fl, sr
  <2> QED BY <2>1, <2>2, Numbers DEF GivenUp, Waits
<1>4. CASE EnableStart(t)
  <2>1. /\ Next1 \in Flows /\ flow[Next1].kind = "none" /\ flow'[Next1].got = FALSE
        /\ g # Next1 => flow'[g] = flow[g] \/ (flow[g].kind = "enable" /\ GivenUp(flow[g], flow'[g]))
    BY <1>4, EnableStartFacts
  <2> QED BY <1>t, <2>1 DEF GivenUp, Waits
<1>5. CASE OutClear(t)
  BY <1>5, <1>a, OutClearFacts
<1>6. ASSUME NEW page \in Ids, Loaded(t, page)
      PROVE  /\ flow'[g].got => Waits(flow'[g])
             /\ flow[g].got => flow'[g].got \/ g \in ghost'.lapsed
  <2>1. /\ IF flow[g].kind # "none" /\ flow[g].tab = t
           THEN flow'[g].got = FALSE
           ELSE flow'[g] = flow[g]
        /\ flow[g].tab = t /\ flow[g].got => g \in ghost'.lapsed
    BY <1>6, LoadedFacts
  <2> QED BY <2>1
<1>7. CASE JobStep(t) \/ SectionTimer(t) \/ (CallStep(t) /\ ~OutClear(t)) \/ CallbackAdopt(t)
  <2>1. UNCHANGED flow
    BY <1>7, JobStart, CallStart DEF SectionTimer, CallbackAdopt
  <2> QED BY <2>1
<1>8. CASE MintFails(t)
  <2>1. CASE Renews(t)
    BY <1>a, <2>1 DEF Renews
  <2>2. CASE LeavesFlows(t)
    BY <2>2 DEF LeavesFlows
  <2> QED BY <1>8, <2>1, <2>2, MintFailsFacts
<1> QED BY <1>1, <1>2, <1>3, <1>4, <1>5, <1>6, <1>7, <1>8, StepCases, LoadCases DEF StartStep
LEMMA StrayFlowStep ==
    ASSUME Typed, LoneInv, StrayInv, Orderly, NEW f \in Flows, FlowStep(f)
    PROVE  StrayInv'
<1> DEFINE t == flow[f].tab
<1>0. /\ UNCHANGED <<disk, rest, out>> /\ t \in Tabs /\ Others(t)
      /\ SameSession(tab[t], tab'[t])
      /\ UNCHANGED job \/ FlowAdopts(f)
  BY FlowTabs
<1>1. GotWaits'
  BY GotFlow DEF StrayInv, GotWaits
<1>2. OldIsAlone'
  <2> SUFFICES ASSUME NEW g \in Flows, ring'[g] = "legacy"
               PROVE  srv'[g] # "granted" /\ srv'[g] # "live"
    BY DEF OldIsAlone
  <2>1. CASE \E l \in Locators : RingPost(f, l)
    <3>1. PICK l \in Locators : RingPost(f, l)
      BY <2>1
    <3>2. UNCHANGED srv /\ ring' = [ring EXCEPT ![f] = l] /\ (l = "legacy" => srv[f] = "none")
      BY <3>1 DEF RingPost, Orderly
    <3>3. ring \in [Flows -> Locators \cup {"none"}]
      BY DEF Typed
    <3>4. CASE g = f
      BY <3>2, <3>3, <3>4
    <3>5. CASE g # f
      BY <3>2, <3>3, <3>5 DEF StrayInv, OldIsAlone
    <3> QED BY <3>4, <3>5
  <2>2. CASE UNCHANGED ring
    <3>1. srv[g] # "granted" /\ srv[g] # "live" /\ ring[g] = "legacy"
      BY <2>2 DEF StrayInv, OldIsAlone
    <3>2. RingApprove(f) => ring[f] # "legacy"
      BY DEF RingApprove, Orderly
    <3> QED BY <3>1, <3>2, SrvFlow
  <2> QED BY <2>1, <2>2 DEF FlowStep, RingApprove, Locator, Payload, WatchFails, Session, Deadline
<1>3. BindsHeld'
  <2>1. \A u \in Tabs : tab'[u].sec = tab[u].sec
    BY <1>0 DEF Others, SameSession
  <2>2. \A u \in Tabs : job'[u].pc = job[u].pc \/ job'[u].pc = "acquire"
    BY <1>0 DEF Others, FlowAdopts
  <2> QED BY <2>1, <2>2 DEF StrayInv, BindsHeld, Held
<1>p. \A s \in Flows : Past(s) => Past(s)'
  BY SrvFlow, LapsedFlow DEF Past
<1>4. OutEnded'
  BY <1>0, <1>p DEF StrayInv, OutEnded
<1>b. Bound'
  <2> SUFFICES ASSUME NEW u \in Tabs, NEW s \in Flows,
                      job'[u].s = s, job'[u].pc \notin {"idle", "acquire", "check", "bind"}
               PROVE  tab'[u].live = s \/ out'[u].s = s \/ Past(s)'
    BY DEF Bound
  <2>1. job'[u] = job[u]
    BY <1>0 DEF Others, FlowAdopts
  <2>2. tab'[u].live = tab[u].live /\ out'[u] = out[u]
    BY <1>0 DEF Others, SameSession
  <2> QED BY <1>p, <2>1, <2>2 DEF StrayInv, Bound
<1>5. Reasons'
  <2> SUFFICES ASSUME NEW s \in Flows, srv'[s] = "live"
               PROVE  flow'[s].got \/ s \in ghost'.lapsed \/ Uses(s)'
    BY DEF Reasons, Reason
  <2>j. CanAdopt(t) => job[t].s = 0
    BY FreshCalls DEF CanAdopt
  <2>m. ASSUME NEW u \in Tabs, s \in UsersNext(u)
        PROVE  Uses(s)'
    BY <2>m DEF Uses, Users, UsersNext
  <2>a. job'[t].s = s => Uses(s)'
    BY <1>0, <2>m DEF UsersNext
  <2>u. Uses(s) => Uses(s)'
    <3> SUFFICES ASSUME NEW u \in Tabs, s \in Users(u)
                 PROVE  s \in UsersNext(u)
      BY <2>m DEF Uses
    <3>1. CASE u # t
      BY <1>0, <3>1 DEF Others, Users, UsersNext
    <3>2. CASE u = t
      <4>1. tab'[t].live = tab[t].live /\ out'[t].s = out[t].s
        BY <1>0 DEF SameSession
      <4>2. job'[t].s = job[t].s \/ job[t].s = 0
        BY <1>0, <2>j DEF FlowAdopts
      <4>3. rest'[t] = rest[t] /\ s # 0
        BY <1>0, Numbers
      <4> QED BY <3>2, <4>1, <4>2, <4>3 DEF Users, UsersNext
    <3> QED BY <3>1, <3>2
  <2>1. CASE srv[s] = "live"
    <3>1. flow[s].got \/ s \in ghost.lapsed \/ Uses(s)
      BY <2>1 DEF StrayInv, Reasons, Reason
    <3>2. ring[s] # "legacy"
      BY <2>1 DEF StrayInv, OldIsAlone
    <3>3. flow[s].got => Waits(flow[s])
      BY DEF StrayInv, GotWaits
    <3>4. flow[s].got => flow'[s].got \/ (s = f /\ job'[t].s = f)
      BY <3>2, <3>3, GotFlow
    <3> QED BY <2>a, <2>u, <3>1, <3>4, LapsedFlow
  <2>2. CASE srv[s] # "live"
    <3>1. s = f /\ (SessionWaits(f) \/ SessionAdopted(f))
      BY <2>2, SrvFlow
    <3>2. CASE SessionWaits(f)
      BY <3>1, <3>2 DEF SessionWaits
    <3>3. CASE SessionAdopted(f)
      <4>1. job'[t].s = f
        BY <1>0, <3>3, AdoptFacts, Numbers DEF SessionAdopted
      <4> QED BY <2>a, <3>1, <4>1
    <3> QED BY <3>1, <3>2, <3>3
  <2> QED BY <2>1, <2>2
<1> QED BY <1>1, <1>2, <1>3, <1>4, <1>b, <1>5 DEF StrayInv

LEMMA CallSec ==
    ASSUME Typed, NEW t \in Tabs, CallStep(t)
    PROVE  tab'[t].sec = tab[t].sec
<1>1. CASE Resume(t) \/ RestoreCompare(t) \/ RestoreDone(t)
  BY <1>1, ResumeFacts, RestoreCompareFacts, RestoreDoneFacts DEF Finds, GivesUp, Drops, Login
<1>2. CASE OutStart(t) \/ OutClear(t) \/ OutWipe(t)
  BY <1>2, OutStartFacts, OutClearFacts, OutWipeFacts DEF Login, SameLogin
<1>3. CASE RestoreStart(t) \/ RestorePut(t) \/ RestorePubky(t) \/ OutServer(t)
  BY <1>3 DEF RestoreStart, RestorePut, RestorePubky, OutServer
<1> QED BY <1>1, <1>2, <1>3 DEF CallStep

(* Only an adoption that binds or waits in its section gives a session back. *)
LEMMA JobLate ==
    ASSUME Typed, NEW t \in Tabs, JobStep(t), job[t].pc \notin {"acquire", "check", "bind"}
    PROVE  /\ tab'[t].live = tab[t].live /\ job'[t].s \in {0, job[t].s}
           /\ job'[t].pc \notin {"check", "bind"}
<1>g. ASSUME NEW pc \in JobPcs \ {"check", "bind"}, Goto(t, pc)
      PROVE  job'[t].s = job[t].s /\ job'[t].pc \notin {"check", "bind"}
  BY <1>g, GotoFacts
<1>o. JobOver(t) => job'[t].s = 0 /\ job'[t].pc \notin {"check", "bind"}
  BY JobOverFacts, FreshCalls
<1>p. {"pubky", "commit", "try", "keys", "rest", "clear", "locator", "provision"} \subseteq JobPcs \ {"check", "bind"}
  BY DEF JobPcs
<1>1. ~(Acquire(t) \/ Check(t) \/ Bind(t))
  BY DEF Acquire, Check, Bind
<1>2. CASE Persist(t) \/ Compare(t) \/ Pubky(t)
  BY <1>2, <1>g, <1>o, <1>p, PersistFacts, CompareFacts, PubkyFacts
<1>3. CASE Commit(t)
  BY <1>3, <1>g, <1>o, <1>p, CommitFacts DEF Login
<1>4. CASE TryPending(t)
  BY <1>4, <1>g, <1>o, <1>p, TryPendingFacts DEF Login
<1>5. CASE Keys(t) \/ RestOfKeys(t) \/ ClearPending(t)
  <2>1. UNCHANGED tab /\ (Goto(t, "rest") \/ Goto(t, "clear") \/ Goto(t, "locator"))
    BY <1>5 DEF Keys, RestOfKeys, ClearPending
  <2> QED BY <1>g, <1>p, <2>1
<1>6. CASE ClearLocator(t)
  BY <1>6, <1>g, <1>o, <1>p, ClearLocatorFacts DEF Login
<1>7. CASE Provision(t)
  BY <1>7, <1>g, <1>o, <1>p, ProvisionFacts DEF Login
<1> QED BY <1>1, <1>2, <1>3, <1>4, <1>5, <1>6, <1>7 DEF JobStep
LEMMA JobOthers ==
    ASSUME Typed, NEW t \in Tabs, JobStep(t)
    PROVE  OnlyJob(t) /\ Others(t)
<1>q. /\ Goto(t, "bind") \/ Goto(t, "persist") \/ Goto(t, "pubky") \/ Goto(t, "commit") \/ Goto(t, "try")
         \/ Goto(t, "keys") \/ Goto(t, "rest") \/ Goto(t, "clear") \/ Goto(t, "locator")
         \/ Goto(t, "provision") \/ JobOver(t)
      => OnlyJob(t)
  BY GotoFacts, JobOverFacts DEF JobPcs
<1>1. ASSUME Acquire(t) \/ Check(t) \/ Bind(t)
      PROVE  OnlyJob(t)
  BY <1>1, <1>q, AcquireFacts, CheckFacts, BindFacts DEF CheckRefuses, BindRefuses, Binds
<1>2. ASSUME Persist(t) \/ Compare(t) \/ Pubky(t) \/ Commit(t) \/ TryPending(t)
      PROVE  OnlyJob(t)
  BY <1>2, <1>q, PersistFacts, CompareFacts, PubkyFacts, CommitFacts, TryPendingFacts
<1>3. ASSUME Keys(t) \/ RestOfKeys(t) \/ ClearPending(t) \/ ClearLocator(t) \/ Provision(t)
      PROVE  OnlyJob(t)
  BY <1>3, <1>q, ClearLocatorFacts, ProvisionFacts DEF Keys, RestOfKeys, ClearPending
<1>4. OnlyJob(t)
  BY <1>1, <1>2, <1>3 DEF JobStep
<1> QED BY <1>4, JobStart, OthersFacts

LEMMA TabOthers ==
    ASSUME Typed, NEW t \in Tabs, TabStep(t)
    PROVE  Others(t) /\ UNCHANGED ring
<1>1. CASE StartStep(t)
  BY <1>1, StartLogin, OthersFacts
<1>2. CASE JobStep(t)
  BY <1>2, JobOthers, JobStart
<1>3. CASE SectionTimer(t)
  BY <1>3, SectionTimerFacts, OthersFacts DEF SectionTimer
<1>4. CASE CallStep(t)
  BY <1>4, CallOthers, CallStart
<1>5. ASSUME NEW page \in Ids, Loaded(t, page)
      PROVE  Others(t) /\ UNCHANGED ring
  BY <1>5, LoadedFacts, OthersFacts
<1>6. CASE CallbackAdopt(t)
  BY <1>6, CallbackAdoptFacts, OthersFacts DEF CallbackAdopt
<1> QED BY <1>1, <1>2, <1>3, <1>4, <1>5, <1>6, StepCases, LoadCases

LEMMA HeldTabStep ==
    ASSUME Typed, StrayInv, Orderly, NEW t \in Tabs, TabStep(t)
    PROVE  BindsHeld'
<1>1. ASSUME job'[t].pc \in {"check", "bind"} => tab'[t].sec > 0
      PROVE  BindsHeld'
  BY <1>1, TabOthers DEF Others, StrayInv, BindsHeld, Held
<1>s. job[t].pc \in {"check", "bind"} => tab[t].sec > 0
  BY DEF StrayInv, BindsHeld, Held
<1>2. CASE StartStep(t)
  BY <1>1, <1>2, <1>s, StartLogin DEF SameLogin
<1>3. CASE JobStep(t)
  <2>1. CASE Acquire(t)
    <3>1. tab'[t].sec = 1 \/ JobOver(t)
      BY <2>1, AcquireFacts DEF Login
    <3> QED BY <1>1, <3>1, JobOverFacts, FreshCalls
  <2>2. CASE Check(t)
    <3>1. JobOver(t) \/ UNCHANGED tab
      BY <2>2, CheckFacts DEF CheckRefuses
    <3>2. job[t].pc = "check"
      BY <2>2, CheckFacts
    <3> QED BY <1>1, <1>s, <3>1, <3>2, JobOverFacts, FreshCalls
  <2>3. CASE Bind(t)
    <3>1. job'[t].pc \notin {"check", "bind"}
      <4>1. JobOver(t) \/ Goto(t, "persist")
        BY <2>3, BindFacts DEF BindRefuses, Binds
      <4> QED BY <4>1, JobOverFacts, GotoFacts, FreshCalls DEF JobPcs
    <3> QED BY <1>1, <3>1
  <2>4. CASE job[t].pc \notin {"acquire", "check", "bind"}
    BY <1>1, <1>3, <2>4, JobLate
  <2> QED BY <1>3, <2>1, <2>2, <2>3, <2>4
       DEF JobStep, Persist, Compare, Pubky, Commit, TryPending, Keys, RestOfKeys, ClearPending, ClearLocator, Provision
<1>4. CASE SectionTimer(t)
  BY <1>1, <1>4, SectionTimerFacts DEF SectionTimer, Orderly
<1>5. CASE CallStep(t)
  BY <1>1, <1>5, <1>s, CallSec, CallStart
<1>6. ASSUME NEW page \in Ids, Loaded(t, page)
      PROVE  BindsHeld'
  BY <1>1, <1>6, LoadedFacts, FreshCalls
<1>7. CASE CallbackAdopt(t)
  BY <1>1, <1>7, CallbackAdoptFacts
<1> QED BY <1>2, <1>3, <1>4, <1>5, <1>6, <1>7, StepCases, LoadCases

LEMMA PastTab ==
    ASSUME Typed, NEW t \in Tabs, TabStep(t), NEW s \in Flows, Past(s)
    PROVE  Past(s)'
BY SrvTab, LapsedTab DEF Past

LEMMA EndedTabStep ==
    ASSUME Typed, StrayInv, NEW t \in Tabs, TabStep(t)
    PROVE  OutEnded'
<1>1. ASSUME \A s \in Flows : out'[t].pc \in {"clear", "wipe"} /\ out'[t].s = s => Past(s)'
      PROVE  OutEnded'
  <2> SUFFICES ASSUME NEW u \in Tabs, NEW s \in Flows, out'[u].pc \in {"clear", "wipe"}, out'[u].s = s
               PROVE  Past(s)'
    BY DEF OutEnded
  <2>1. CASE u = t
    BY <1>1, <2>1
  <2>2. CASE u # t
    <3>1. out'[u] = out[u]
      BY <2>2, TabOthers DEF Others
    <3> QED BY <3>1, PastTab DEF StrayInv, OutEnded
  <2> QED BY <2>1, <2>2
<1>2. CASE out'[t] = out[t]
  BY <1>1, <1>2, PastTab DEF StrayInv, OutEnded
<1>3. CASE OutServer(t)
  <2>1. \A s \in Flows : out'[t].s = s => srv'[s] = "out" \/ s \in ghost'.lapsed
    BY <1>3, OutServerFacts
  <2> QED BY <1>1, <2>1 DEF Past
<1>4. CASE OutStart(t) \/ OutWipe(t)
  <2>1. out'[t].pc \notin {"clear", "wipe"}
    BY <1>4, OutStartFacts, OutWipeFacts, FreshCalls
  <2> QED BY <1>1, <2>1
<1>5. CASE OutClear(t)
  <2>1. out[t].pc = "clear" /\ out'[t].s = out[t].s
    BY <1>5, OutClearFacts
  <2> QED BY <1>1, <2>1, PastTab DEF StrayInv, OutEnded
<1>6. ASSUME NEW page \in Ids, Loaded(t, page)
      PROVE  OutEnded'
  BY <1>1, <1>6, LoadedFacts, FreshCalls
<1>7. StartStep(t) \/ JobStep(t) \/ SectionTimer(t) \/ CallbackAdopt(t) => UNCHANGED out
  BY StartLogin, JobStart DEF SectionTimer, CallbackAdopt
<1>8. CallStep(t) => UNCHANGED out \/ OutStart(t) \/ OutServer(t) \/ OutClear(t) \/ OutWipe(t)
  BY DEF CallStep, RestoreStart, Resume, RestorePut, RestoreCompare, RestorePubky, RestoreDone
<1> QED BY <1>2, <1>3, <1>4, <1>5, <1>6, <1>7, <1>8, StepCases, LoadCases

(* A sign-out takes the live session along; only then an adoption past its   *)
(* bind has none.                                                            *)
LEMMA BoundTabStep ==
    ASSUME Typed, LoneInv, StrayInv, NEW t \in Tabs, TabStep(t)
    PROVE  Bound'
<1> DEFINE late(pc) == pc \notin {"idle", "acquire", "check", "bind"}
<1>1. ASSUME \A s \in Flows : job'[t].s = s /\ late(job'[t].pc)
                => tab'[t].live = s \/ out'[t].s = s \/ Past(s)'
      PROVE  Bound'
  <2> SUFFICES ASSUME NEW u \in Tabs, NEW s \in Flows, job'[u].s = s, late(job'[u].pc)
               PROVE  tab'[u].live = s \/ out'[u].s = s \/ Past(s)'
    BY DEF Bound
  <2>1. CASE u = t
    BY <1>1, <2>1
  <2>2. CASE u # t
    <3>1. job'[u] = job[u] /\ tab'[u] = tab[u] /\ out'[u] = out[u]
      BY <2>2, TabOthers DEF Others
    <3> QED BY <3>1, PastTab DEF StrayInv, Bound
  <2> QED BY <2>1, <2>2
<1>2. ASSUME NEW s \in Flows, job[t].s = s, late(job[t].pc)
      PROVE  tab[t].live = s \/ out[t].s = s \/ Past(s)'
  BY <1>2, PastTab DEF StrayInv, Bound
<1>3. CASE UNCHANGED <<job, out>> /\ tab'[t].live = tab[t].live
  BY <1>1, <1>2, <1>3
<1>4. CASE JobStep(t)
  <2>1. CASE Acquire(t)
    <3>1. ~late(job'[t].pc)
      <4>1. Goto(t, "bind") \/ Goto(t, "check") \/ JobOver(t)
        BY <2>1 DEF Acquire
      <4> QED BY <4>1, GotoFacts, JobOverFacts, FreshCalls DEF JobPcs
    <3> QED BY <1>1, <3>1
  <2>2. CASE Check(t)
    <3>1. ~late(job'[t].pc)
      <4>1. Goto(t, "bind") \/ JobOver(t)
        BY <2>2 DEF Check
      <4> QED BY <4>1, GotoFacts, JobOverFacts, FreshCalls DEF JobPcs
    <3> QED BY <1>1, <3>1
  <2>3. CASE Bind(t)
    <3>1. CASE JobOver(t)
      BY <1>1, <3>1, JobOverFacts, FreshCalls
    <3>2. CASE Binds(t)
      <4>1. job'[t].s = job[t].s /\ tab'[t].live = job[t].s
        BY <3>2, GotoFacts DEF Binds, Login, JobPcs
      <4> QED BY <1>1, <4>1
    <3> QED BY <2>3, <3>1, <3>2, BindFacts DEF BindRefuses
  <2>4. CASE job[t].pc \notin {"acquire", "check", "bind"}
    <3>1. tab'[t].live = tab[t].live /\ job'[t].s \in {0, job[t].s} /\ UNCHANGED out /\ late(job[t].pc)
      <4>1. job[t].pc # "idle"
        BY <1>4 DEF JobStep, Acquire, Check, Bind, Persist, Compare, Pubky, Commit, TryPending, Keys,
                    RestOfKeys, ClearPending, ClearLocator, Provision
      <4> QED BY <1>4, <2>4, <4>1, JobLate, JobStart
    <3> QED BY <1>1, <1>2, <3>1, Numbers
  <2> QED BY <1>4, <2>1, <2>2, <2>3, <2>4
       DEF JobStep, Persist, Compare, Pubky, Commit, TryPending, Keys, RestOfKeys, ClearPending, ClearLocator, Provision
<1>5. CASE CallStep(t)
  <2>0. job'[t] = job[t] /\ LoneOK(job[t], rest[t], out[t], tab[t])
    BY <1>5, CallStart DEF LoneInv
  <2>a. late(job[t].pc) => rest[t].pc = "idle"
    BY <2>0, FreshCalls DEF LoneOK
  <2>1. CASE RestoreStart(t) \/ RestorePut(t) \/ RestorePubky(t)
    BY <1>3, <2>1 DEF RestoreStart, RestorePut, RestorePubky
  <2>2. CASE Resume(t) \/ RestoreCompare(t) \/ RestoreDone(t)
    <3>1. ~late(job'[t].pc)
      BY <2>0, <2>a, <2>2 DEF Resume, RestoreCompare, RestoreDone
    <3> QED BY <1>1, <3>1
  <2>3. CASE OutStart(t)
    <3>1. out[t].s = 0 /\ out'[t].s = tab[t].live
      BY <2>3, OutStartFacts, FreshCalls
    <3> QED BY <1>1, <1>2, <2>0, <3>1, Numbers
  <2>4. CASE OutServer(t) \/ OutClear(t)
    <3>1. out'[t].s = out[t].s /\ tab'[t].live = tab[t].live
      BY <2>4, OutServerFacts, OutClearFacts DEF OutServer, SameLogin
    <3> QED BY <1>1, <1>2, <2>0, <3>1
  <2>5. CASE OutWipe(t)
    <3>1. out[t].pc = "wipe" /\ tab'[t].live = tab[t].live
      BY <2>5, OutWipeFacts DEF Login
    <3>2. \A s \in Flows : out[t].s = s => Past(s)'
      BY <3>1, PastTab DEF StrayInv, OutEnded
    <3> QED BY <1>1, <1>2, <2>0, <3>1, <3>2
  <2> QED BY <1>5, <2>1, <2>2, <2>3, <2>4, <2>5 DEF CallStep
<1>6. CASE StartStep(t) \/ SectionTimer(t)
  BY <1>3, <1>6, StartLogin, SectionTimerFacts DEF SectionTimer, Login, SameLogin
<1>7. ASSUME NEW page \in Ids, Loaded(t, page)
      PROVE  Bound'
  BY <1>1, <1>7, LoadedFacts, FreshCalls
<1>8. CASE CallbackAdopt(t)
  BY <1>1, <1>8, CallbackAdoptFacts
<1> QED BY <1>4, <1>5, <1>6, <1>7, <1>8, StepCases, LoadCases
(* A session a tab uses is used on, lapses, or is signed out.                *)
LEMMA UseJobStep ==
    ASSUME Typed, LoneInv, StrayInv, Orderly, NEW t \in Tabs, JobStep(t),
           NEW s \in Flows, srv'[s] = "live", s \in Users(t)
    PROVE  s \in UsersNext(t) \cup ghost'.lapsed
<1> SUFFICES s \in {tab'[t].live, job'[t].s, out'[t].s} \cup ghost'.lapsed
  <2>1. job[t] # NoJob => rest[t].pc = "idle"
    BY FreshCalls DEF LoneInv, LoneOK
  <2>2. job[t] # NoJob /\ rest'[t] = rest[t]
    <3>1. job[t].pc # "idle"
      BY DEF JobStep, Acquire, Check, Bind, Persist, Compare, Pubky, Commit, TryPending, Keys, RestOfKeys,
             ClearPending, ClearLocator, Provision
    <3> QED BY <3>1, JobStart, FreshCalls
  <2> QED BY <2>1, <2>2 DEF UsersNext, Found
<1>m. s \in {tab[t].live, job[t].s, out[t].s}
  BY DEF Users
<1>0. out'[t] = out[t] /\ job[t].pc # "idle" /\ s # 0 /\ UNCHANGED out
  <2>1. job[t].pc # "idle"
    BY DEF JobStep, Acquire, Check, Bind, Persist, Compare, Pubky, Commit, TryPending, Keys, RestOfKeys,
           ClearPending, ClearLocator, Provision
  <2> QED BY <2>1, JobStart, Numbers
<1>s. s = out[t].s => s \in {tab'[t].live, job'[t].s, out'[t].s}
  BY <1>0
<1>1. CASE Acquire(t)
  <2>1. tab'[t].live = tab[t].live /\ job'[t].s = job[t].s
    BY <1>1, AcquireFacts DEF Login, Orderly
  <2> QED BY <1>m, <1>s, <2>1
<1>o. ASSUME srv' = SignedOut(job[t].s)
      PROVE  s # job[t].s
  <2> DEFINE i == job[t].s
  <2>1. i \in Ids
    BY JobFields
  <2> HIDE DEF i
  <2>2. srv' = SignedOut(i)
    BY <1>o DEF i
  <2>3. s = i => srv'[s] = "out"
    BY <2>1, <2>2, SignedOutFacts
  <2> QED BY <2>3 DEF i
<1>2. CASE Check(t)
  <2>1. job[t].pc = "check" /\ Held(t)
    BY <1>2, CheckFacts DEF StrayInv, BindsHeld
  <2>2. CASE Goto(t, "bind") /\ UNCHANGED tab
    BY <1>m, <1>s, <2>2, GotoFacts DEF JobPcs
  <2>3. CASE CheckRefuses(t)
    <3>1. s # job[t].s /\ tab'[t].live = tab[t].live
      BY <1>o, <2>3 DEF CheckRefuses, Login
    <3> QED BY <1>m, <1>s, <3>1
  <2> QED BY <1>2, <2>1, <2>2, <2>3, CheckFacts
<1>3. CASE Bind(t)
  <2>1. job[t].pc = "bind" /\ Held(t)
    BY <1>3, BindFacts DEF StrayInv, BindsHeld
  <2>2. CASE Binds(t)
    <3>1. job'[t].s = job[t].s
      BY <2>2, GotoFacts DEF Binds, JobPcs
    <3>2. ghost'.lapsed = ghost.lapsed \cup ({tab[t].live} \ {0, job[t].s})
      BY <2>2 DEF Binds
    <3> QED BY <1>m, <1>0, <1>s, <3>1, <3>2
  <2>3. CASE BindRefuses(t)
    <3>1. s # job[t].s /\ tab'[t].live = tab[t].live
      BY <1>o, <2>3 DEF BindRefuses, Login
    <3> QED BY <1>m, <1>s, <3>1
  <2> QED BY <1>3, <2>1, <2>2, <2>3, BindFacts
<1>4. CASE job[t].pc \notin {"acquire", "check", "bind"}
  <2>1. s = job[t].s => tab[t].live = s \/ out[t].s = s \/ Past(s)
    BY <1>0, <1>4 DEF StrayInv, Bound
  <2>2. tab'[t].live = tab[t].live
    BY <1>4, JobLate
  <2>3. Past(s) => s \in ghost'.lapsed
    <3>1. TabStep(t)
      BY DEF TabStep
    <3> QED BY <3>1, PastTab DEF Past
  <2> QED BY <1>m, <1>s, <2>1, <2>2, <2>3
<1> QED BY <1>1, <1>2, <1>3, <1>4
     DEF JobStep, Persist, Compare, Pubky, Commit, TryPending, Keys, RestOfKeys, ClearPending, ClearLocator, Provision

LEMMA UseCallStep ==
    ASSUME Typed, LoneInv, StrayInv, Orderly, NEW t \in Tabs, CallStep(t),
           NEW s \in Flows, srv'[s] = "live", s \in Users(t)
    PROVE  s \in UsersNext(t) \cup ghost'.lapsed
<1>0. job'[t] = job[t] /\ s # 0 /\ LoneOK(job[t], rest[t], out[t], tab[t])
  BY CallStart, Numbers DEF LoneInv
<1>s. s = job[t].s => s \in UsersNext(t)
  BY <1>0 DEF UsersNext
<1>u. ASSUME out'[t].s = out[t].s,
             rest[t].pc \in Found \/ tab[t].live = 0
             \/ (tab'[t].live = tab[t].live /\ rest'[t].pc = rest[t].pc)
      PROVE  s \in UsersNext(t)
  BY <1>0, <1>s, <1>u DEF Users, UsersNext
<1>1. CASE RestoreStart(t) \/ RestorePut(t) \/ RestorePubky(t)
  <2>1. out'[t].s = out[t].s /\ (rest[t].pc \in Found \/ tab[t].live = 0)
    BY <1>1 DEF RestoreStart, RestorePut, RestorePubky, Found
  <2> QED BY <1>u, <2>1
<1>2. CASE Resume(t)
  <2>0. out'[t].s = out[t].s
    BY <1>2 DEF Resume
  <2>1. rest[t].pc = "resume" /\ tab[t].live = 0
    BY <1>0, <1>2, ResumeFacts DEF LoneOK
  <2> QED BY <1>u, <2>0, <2>1
<1>3. CASE RestoreCompare(t) \/ RestoreDone(t)
  <2>1. out'[t].s = out[t].s /\ rest[t].pc \in Found
    BY <1>3 DEF RestoreCompare, RestoreDone, Found
  <2> QED BY <1>u, <2>1
<1>4. CASE OutStart(t)
  <2>1. out[t].s = 0 /\ out'[t].s = tab[t].live
    BY <1>4, OutStartFacts, FreshCalls
  <2> QED BY <1>0, <1>s, <2>1 DEF Users, UsersNext
<1>5. CASE OutServer(t) \/ OutClear(t)
  <2>1. out'[t].s = out[t].s
    BY <1>5, OutServerFacts, OutClearFacts
  <2>2. tab'[t].live = tab[t].live /\ rest'[t] = rest[t]
    BY <1>5, OutClearFacts DEF OutServer, OutClear, SameLogin
  <2> QED BY <1>u, <2>1, <2>2
<1>6. CASE OutWipe(t)
  <2>1. out[t].pc = "wipe" /\ tab'[t].live = tab[t].live /\ rest'[t] = rest[t]
    BY <1>6, OutWipeFacts DEF Login, OutWipe
  <2>2. s = out[t].s => s \in ghost'.lapsed
    <3>1. s = out[t].s => Past(s)
      BY <2>1 DEF StrayInv, OutEnded
    <3>2. TabStep(t)
      BY <1>6 DEF TabStep
    <3> QED BY <3>1, <3>2, PastTab DEF Past
  <2> QED BY <1>s, <2>1, <2>2 DEF Users, UsersNext
<1> QED BY <1>1, <1>2, <1>3, <1>4, <1>5, <1>6 DEF CallStep

LEMMA ReasonTabStep ==
    ASSUME Typed, LoneInv, StrayInv, Orderly, NEW t \in Tabs, TabStep(t)
    PROVE  Reasons'
<1> SUFFICES ASSUME NEW s \in Flows, srv'[s] = "live"
             PROVE  flow'[s].got \/ s \in ghost'.lapsed \/ Uses(s)'
  BY DEF Reasons, Reason
<1>1. srv[s] = "live"
  BY SrvTab
<1>2. flow[s].got \/ s \in ghost.lapsed \/ Uses(s)
  BY <1>1 DEF StrayInv, Reasons, Reason
<1>3. flow[s].got => flow'[s].got \/ s \in ghost'.lapsed
  BY GotTab DEF StrayInv, GotWaits
<1>m. ASSUME NEW u \in Tabs, s \in UsersNext(u)
      PROVE  Uses(s)'
  BY <1>m DEF Uses, Users, UsersNext
<1>4. ASSUME s \in Users(t)
      PROVE  s \in UsersNext(t) \cup ghost'.lapsed
  <2>0. s # 0
    BY Numbers
  <2>1. CASE StartStep(t)
    <3>1. job'[t] = job[t] /\ out'[t] = out[t] /\ rest'[t] = rest[t] /\ tab'[t].live = tab[t].live
      BY <2>1, StartLogin DEF SameLogin
    <3> QED BY <1>4, <3>1 DEF Users, UsersNext
  <2>2. CASE SectionTimer(t)
    <3>1. job'[t] = job[t] /\ out'[t] = out[t] /\ rest'[t] = rest[t] /\ tab'[t].live = tab[t].live
      BY <2>2, SectionTimerFacts DEF SectionTimer, Login
    <3> QED BY <1>4, <3>1 DEF Users, UsersNext
  <2>3. ASSUME NEW page \in Ids, Loaded(t, page)
        PROVE  s \in ghost'.lapsed
    BY <1>4, <2>0, <2>3, LoadedFacts DEF Users
  <2>4. CASE CallbackAdopt(t)
    <3>1. job'[t].s = tab[t].live /\ job[t].s = 0 /\ out'[t] = out[t]
      BY <2>4, CallbackAdoptFacts, FreshCalls DEF CanAdopt, CallbackAdopt
    <3> QED BY <1>4, <2>0, <3>1 DEF Users, UsersNext
  <2> QED BY <1>4, <2>1, <2>2, <2>3, <2>4, UseJobStep, UseCallStep, StepCases, LoadCases
<1>5. Uses(s) => s \in ghost'.lapsed \/ Uses(s)'
  <2> SUFFICES ASSUME NEW u \in Tabs, s \in Users(u)
               PROVE  s \in ghost'.lapsed \/ Uses(s)'
    BY DEF Uses
  <2>1. CASE u = t
    BY <1>4, <1>m, <2>1
  <2>2. CASE u # t
    BY <1>m, <2>2, TabOthers DEF Others, Users, UsersNext
  <2> QED BY <2>1, <2>2
<1> QED BY <1>2, <1>3, <1>5, LapsedTab

LEMMA StrayStep ==
    ASSUME Typed, LoneInv, StrayInv, Orderly, [SiNext]_siVars
    PROVE  StrayInv'
<1>1. CASE UNCHANGED siVars
  BY <1>1 DEF StrayInv, GotWaits, OldIsAlone, BindsHeld, Held, OutEnded, Bound, Past, Reasons, Reason, Uses,
              Users, siVars
<1>2. ASSUME NEW t \in Tabs, TabStep(t)
      PROVE  StrayInv'
  <2>1. GotWaits'
    BY <1>2, GotTab DEF StrayInv, GotWaits
  <2>2. OldIsAlone'
    BY <1>2, SrvTab, TabOthers DEF StrayInv, OldIsAlone
  <2> QED BY <1>2, <2>1, <2>2, HeldTabStep, EndedTabStep, BoundTabStep, ReasonTabStep DEF StrayInv
<1> QED BY <1>1, <1>2, StrayFlowStep DEF SiNext

LEMMA StrayInit ==
    ASSUME SiInit
    PROVE  StrayInv
<1>1. /\ \A t \in Tabs : job[t] = NoJob /\ out[t] = NoCall
      /\ \A f \in Flows : flow[f] = NoFlow /\ srv[f] = "none"
  BY DEF SiInit
<1> QED BY <1>1, FreshFlow, FreshCalls DEF StrayInv, GotWaits, OldIsAlone, BindsHeld, OutEnded, Bound, Reasons

(* Every session the homeserver holds has somebody to use it or to end it.   *)
THEOREM SessionsHaveUsers == Orderly => (SiSpec => [](Typed /\ LoneInv /\ StrayInv))
<1> SUFFICES ASSUME Orderly PROVE SiSpec => [](Typed /\ LoneInv /\ StrayInv)
  OBVIOUS
<1>1. SiInit => Typed /\ LoneInv /\ StrayInv
  BY TypedInit, LoneInit, StrayInit
<1>2. Typed /\ LoneInv /\ StrayInv /\ [SiNext]_siVars => (Typed /\ LoneInv /\ StrayInv)'
  BY TypedStep, LoneStep, StrayStep DEF Orderly
<1> QED BY <1>1, <1>2, PTL DEF SiSpec

(* No session that Ring granted is left open with nobody to use it or to end *)
(* it, unless a page load or a newer handle let it lapse.                    *)
THEOREM NoSessionIsStray == Orderly => (SiSpec => []NoneStray)
<1>1. Typed /\ StrayInv => NoneStray
  BY WaitsFacts DEF StrayInv, GotWaits, Reasons, Reason, Uses, Users, NoneStray
<1> QED BY <1>1, SessionsHaveUsers, PTL
-------------------------------------------------------------------------------
(* The keys can be had again                                                 *)

(* A flow of a page stays a flow of that page.                               *)
KindKept == \A f \in Flows : flow[f].kind = "connect" =>
                flow'[f].kind = "connect" /\ flow'[f].tab = flow[f].tab

LEMMA KindFlow ==
    ASSUME Typed, NEW f \in Flows, FlowStep(f)
    PROVE  KindKept
<1>1. UNCHANGED flow => KindKept
  BY DEF KindKept
<1>2. flow' = Ended(f) => KindKept
  BY EndedFacts DEF KindKept, Over
<1>3. CASE RingApprove(f)
  BY <1>3, RingApproveFacts DEF KindKept, SameFlow
<1>4. CASE \E l \in Locators : RingPost(f, l)
  BY <1>1, <1>4 DEF RingPost
<1>5. CASE Locator(f)
  BY <1>5, LocatorFacts DEF KindKept
<1>6. CASE Payload(f)
  BY <1>2, <1>6, PayloadFacts DEF PayloadOld, PayloadWaits, PayloadAdopted, KindKept, Over
<1>7. CASE WatchFails(f) \/ Deadline(f)
  BY <1>1, <1>2, <1>7, WatchFailsFacts, DeadlineFacts
<1>8. CASE Session(f)
  BY <1>1, <1>2, <1>8, SessionFacts DEF SessionOver, SessionWaits, SessionAdopted, KindKept
<1> QED BY <1>3, <1>4, <1>5, <1>6, <1>7, <1>8 DEF FlowStep

LEMMA KindTab ==
    ASSUME Typed, NEW t \in Tabs, TabStep(t)
    PROVE  KindKept
<1> DEFINE c == tab[t].conn
           fl == AbortedFlows(c)
<1>1. UNCHANGED flow => KindKept
  BY DEF KindKept
<1>2. \A g \in Flows : fl[g].kind = flow[g].kind /\ fl[g].tab = flow[g].tab
  <2>1. c \in Ids
    BY TabFields
  <2>2. /\ \A g \in Flows : g # c => fl[g] = flow[g]
        /\ c # 0 => fl[c].kind = flow[c].kind /\ fl[c].tab = flow[c].tab
    BY <2>1, AbortedFacts
  <2> QED BY <2>2, Numbers
<1>3. flow' = fl => KindKept
  BY <1>2 DEF KindKept
<1>4. ASSUME NEW replace \in BOOLEAN, Start(t, replace)
      PROVE  KindKept
  BY <1>1, <1>3, <1>4, StartFacts DEF Renews, LeavesFlows
<1>5. CASE Minted(t)
  BY <1>5, MintedFacts DEF KindKept
<1>6. CASE Cancel(t)
  <2>1. \A g \in Flows :
           \/ flow[g].kind = "chain" /\ GivenUp(flow[g], flow'[g])
           \/ g # c /\ flow'[g] = flow[g]
           \/ g = c /\ flow'[g] = fl[c]
    BY <1>6, CancelFacts
  <2> HIDE DEF fl
  <2> QED BY <1>2, <2>1 DEF KindKept, GivenUp
<1>7. CASE EnableStart(t)
  BY <1>7, EnableStartFacts DEF KindKept, GivenUp
<1>8. CASE OutClear(t)
  BY <1>3, <1>8, OutClearFacts
<1>9. ASSUME NEW page \in Ids, Loaded(t, page)
      PROVE  KindKept
  <2>1. \A g \in Flows : IF flow[g].kind # "none" /\ flow[g].tab = t
                         THEN flow'[g].kind = flow[g].kind /\ flow'[g].tab = t
                         ELSE flow'[g] = flow[g]
    BY <1>9, LoadedFacts
  <2> QED BY <2>1 DEF KindKept
<1>10. CASE JobStep(t) \/ SectionTimer(t) \/ (CallStep(t) /\ ~OutClear(t)) \/ CallbackAdopt(t)
  BY <1>1, <1>10, JobStart, CallStart DEF SectionTimer, CallbackAdopt
<1>11. CASE MintFails(t)
  BY <1>1, <1>3, <1>11, MintFailsFacts DEF Renews, LeavesFlows
<1> QED BY <1>4, <1>5, <1>6, <1>7, <1>8, <1>9, <1>10, <1>11, StepCases, LoadCases DEF StartStep

(* No handoff is owed that was not, and those still owed keep their secret.  *)
OwedKept == \A o \in ghost'.owed : o \in ghost.owed /\ (o[2] \in pend => o[2] \in pend')

LEMMA OwedFlow ==
    ASSUME Typed, NEW f \in Flows, FlowStep(f)
    PROVE  OwedKept /\ (Locator(f) => \A o \in ghost'.owed : o[1] # flow[f].tab)
<1>1. CASE RingApprove(f) /\ ~Locator(f)
  <2>1. ghost'.owed = ghost.owed /\ UNCHANGED pend
    BY <1>1, RingApproveFacts DEF RingApprove
  <2> QED BY <1>1, <2>1 DEF OwedKept
<1>2. CASE (\E l \in Locators : RingPost(f, l)) \/ Payload(f) \/ WatchFails(f) \/ Session(f)
  <2>1. UNCHANGED <<pend, ghost>>
    BY <1>2 DEF RingPost, Payload, WatchFails, Session
  <2>2. CASE Locator(f)
    BY <2>1, <2>2, LocatorFacts DEF OwedKept
  <2> QED BY <2>1, <2>2 DEF OwedKept
<1>3. CASE Locator(f)
  <2>1. ghost'.owed = {o \in ghost.owed : o[1] # flow[f].tab} /\ UNCHANGED pend
    BY <1>3, LocatorFacts DEF Locator
  <2> QED BY <2>1 DEF OwedKept
<1>4. CASE Deadline(f) /\ ~Locator(f)
  BY <1>4, DeadlineFacts DEF Gave, SamePast, OwedKept
<1> QED BY <1>1, <1>2, <1>3, <1>4 DEF FlowStep

LEMMA OwedStart ==
    ASSUME Typed, NEW t \in Tabs, StartStep(t)
    PROVE  OwedKept
<1>1. ASSUME NEW replace \in BOOLEAN, Start(t, replace)
      PROVE  OwedKept
  BY <1>1, StartFacts DEF Renews, LeavesFlows, Gave, OwedKept
<1>2. CASE Minted(t)
  BY <1>2, MintedFacts DEF OwedKept
<1>3. CASE Cancel(t)
  BY <1>3, CancelFacts DEF Gave, OwedKept
<1>4. CASE MintFails(t)
  BY <1>4, MintFailsFacts DEF Renews, LeavesFlows, Gave, OwedKept
<1>5. CASE EnableStart(t)
  BY <1>5 DEF EnableStart, OwedKept
<1> QED BY <1>1, <1>2, <1>3, <1>4, <1>5 DEF StartStep

LEMMA OwedCall ==
    ASSUME Typed, NEW t \in Tabs, CallStep(t)
    PROVE  OwedKept /\ tab'[t].loc = tab[t].loc
<1>1. CASE Resume(t)
  BY <1>1, ResumeFacts DEF Finds, GivesUp, Login, OwedKept, Resume
<1>2. CASE RestoreCompare(t) \/ RestoreDone(t)
  BY <1>2, RestoreCompareFacts, RestoreDoneFacts DEF Drops, Login, OwedKept, RestoreCompare, RestoreDone
<1>3. CASE OutStart(t)
  BY <1>3, OutStartFacts DEF Login, OwedKept, OutStart
<1>4. CASE OutClear(t)
  BY <1>4, OutClearFacts DEF SameLogin, OwedKept
<1>5. CASE OutWipe(t)
  BY <1>5, OutWipeFacts DEF Login, OwedKept, OutWipe
<1>6. CASE RestoreStart(t) \/ RestorePut(t) \/ RestorePubky(t) \/ OutServer(t)
  <2>1. UNCHANGED <<tab, pend>> /\ ghost'.owed = ghost.owed
    BY <1>6, OutServerFacts DEF RestoreStart, RestorePut, RestorePubky, OutServer
  <2> QED BY <2>1 DEF OwedKept
<1> QED BY <1>1, <1>2, <1>3, <1>4, <1>5, <1>6 DEF CallStep

(* The locator a tab remembers is that of a flow of its page.  A tab that    *)
(* cleans up owes no keys of its channel, and no other tab owes them: either *)
(* it holds the section, and nobody else binds, or it took the channel from  *)
(* its own locator.                                                          *)
OneTab == \A t, u \in Tabs : t = u
Own(t, f) == f \in Flows /\ flow[f].kind = "connect" /\ flow[f].tab = t
LocOK == \A t \in Tabs : tab[t].loc # 0 => Own(t, tab[t].loc)
Cleared == \A t \in Tabs : job[t].pc \in {"clear", "locator"} =>
    \A o \in ghost.owed : o[2] # job[t].ch /\ o[1] # t
Exclusive == \A t, u \in Tabs : Held(t) /\ Held(u) => t = u
Secured == \A t \in Tabs :
    job[t].pc \notin {"idle", "acquire"} /\ job[t].via # "enable" => Held(t) \/ OneTab
Channel == \A t \in Tabs :
    job[t].pc \in {"keys", "rest", "clear", "locator"} /\ job[t].via = "enable" => Own(t, job[t].ch)

KeysInv == LocOK /\ Cleared /\ Exclusive /\ Secured /\ Channel /\ KeysRecoverable

InSection == "section" \notin Faults \/ OneTab
Readable == "fetch" \notin Faults
(* What a step of tab t has to see to.                                       *)
LocKept(t) ==
    \/ tab'[t].loc = tab[t].loc
    \/ /\ tab'[t].loc = 0 \/ Own(t, tab'[t].loc)
       /\ \A o \in ghost'.owed : o[1] # t
ClearKept(t) == job'[t].pc \in {"clear", "locator"} =>
    \/ ghost'.owed = {}
    \/ (job[t].pc \in {"clear", "locator"} /\ job'[t].ch = job[t].ch)
SecKept(t) ==
    /\ tab'[t].sec > 0 => Held(t) \/ \A u \in Tabs \ {t} : ~Held(u)
    /\ job'[t].pc \notin {"idle", "acquire"} /\ job'[t].via # "enable" => tab'[t].sec > 0 \/ OneTab
    /\ job'[t].pc \in {"keys", "rest", "clear", "locator"} /\ job'[t].via = "enable" => Own(t, job'[t].ch)

LEMMA OwnKept ==
    ASSUME KindKept, NEW t, NEW f, Own(t, f)
    PROVE  f \in Flows /\ flow'[f].kind = "connect" /\ flow'[f].tab = t
BY DEF Own, KindKept

LEMMA KeysParts ==
    ASSUME Typed, KeysInv, NEW t \in Tabs, Others(t), KindKept, LocKept(t), SecKept(t)
    PROVE  LocOK' /\ Exclusive' /\ Secured' /\ Channel'
<1>1. LocOK'
  <2> SUFFICES ASSUME NEW u \in Tabs, tab'[u].loc # 0
               PROVE  tab'[u].loc \in Flows /\ flow'[tab'[u].loc].kind = "connect" /\ flow'[tab'[u].loc].tab = u
    BY DEF LocOK, Own
  <2>1. Own(u, tab'[u].loc)
    BY DEF KeysInv, LocOK, LocKept, Others
  <2> QED BY <2>1, OwnKept
<1>2. Exclusive'
  BY DEF KeysInv, Exclusive, SecKept, Others, Held
<1>3. Secured'
  BY DEF KeysInv, Secured, SecKept, Others, Held, OneTab
<1>4. Channel'
  <2> SUFFICES ASSUME NEW u \in Tabs, job'[u].pc \in {"keys", "rest", "clear", "locator"}, job'[u].via = "enable"
               PROVE  job'[u].ch \in Flows /\ flow'[job'[u].ch].kind = "connect" /\ flow'[job'[u].ch].tab = u
    BY DEF Channel, Own
  <2>1. Own(u, job'[u].ch)
    BY DEF KeysInv, Channel, SecKept, Others
  <2> QED BY <2>1, OwnKept
<1> QED BY <1>1, <1>2, <1>3, <1>4

LEMMA KeysNext ==
    ASSUME Typed, KeysInv, NEW t \in Tabs, Others(t), KindKept, OwedKept, LocKept(t), ClearKept(t), SecKept(t)
    PROVE  KeysInv'
<1>1. Cleared'
  <2> SUFFICES ASSUME NEW u \in Tabs, job'[u].pc \in {"clear", "locator"}, NEW o \in ghost'.owed
               PROVE  o[2] # job'[u].ch /\ o[1] # u
    BY DEF Cleared
  <2>1. o \in ghost.owed /\ ghost'.owed # {}
    BY DEF OwedKept
  <2>2. job[u].pc \in {"clear", "locator"} /\ job'[u].ch = job[u].ch
    BY <2>1 DEF ClearKept, Others
  <2> QED BY <2>1, <2>2 DEF KeysInv, Cleared
<1>2. KeysRecoverable'
  <2> SUFFICES ASSUME NEW o \in ghost'.owed
               PROVE  o[2] \in pend' /\ tab'[o[1]].loc = o[2]
    BY DEF KeysRecoverable
  <2>1. o \in ghost.owed /\ o[2] \in pend' /\ tab[o[1]].loc = o[2] /\ o[1] \in Tabs
    BY DEF OwedKept, KeysInv, KeysRecoverable, Typed, GhostT
  <2> QED BY <2>1 DEF LocKept, Others
<1> QED BY <1>1, <1>2, KeysParts DEF KeysInv

(* The adoption of tab t is left alone, or it is over or starts.             *)
LEMMA JobIdle ==
    ASSUME Typed, KeysInv, NEW t \in Tabs,
           (job'[t] = job[t] /\ tab'[t].sec = tab[t].sec) \/ job'[t].pc \in {"idle", "acquire"},
           tab'[t].sec > 0 => Held(t)
    PROVE  ClearKept(t) /\ SecKept(t)
BY DEF KeysInv, Secured, Channel, ClearKept, SecKept, Held

LEMMA KeysFlowStep ==
    ASSUME Typed, KeysInv, NEW f \in Flows, FlowStep(f)
    PROVE  KeysInv'
<1> DEFINE t == flow[f].tab
<1>1. /\ t \in Tabs /\ Others(t) /\ SameSession(tab[t], tab'[t])
      /\ Locator(f) \/ tab'[t].loc = tab[t].loc
      /\ UNCHANGED job \/ FlowAdopts(f)
  BY FlowTabs
<1>2. ClearKept(t) /\ SecKept(t)
  BY <1>1, JobIdle DEF SameSession, FlowAdopts, Held
<1>3. LocKept(t)
  <2>1. CASE Locator(f)
    <3>1. tab'[t].loc = f /\ Own(t, f)
      BY <2>1, LocatorFacts DEF Own
    <3> QED BY <2>1, <3>1, OwedFlow DEF LocKept
  <2> QED BY <1>1, <2>1 DEF LocKept
<1> QED BY <1>1, <1>2, <1>3, KindFlow, OwedFlow, KeysNext
(* A tab that binds owes its channel from now on; no other tab cleans it up. *)
LEMMA BindKeys ==
    ASSUME Typed, KeysInv, NEW t \in Tabs, job[t].pc = "bind", Held(t), Binds(t), UNCHANGED <<flow, pend>>, Others(t)
    PROVE  KeysInv'
<1> DEFINE new == <<t, job[t].ch>>
<1>1. /\ tab'[t].loc = tab[t].loc /\ tab'[t].sec = tab[t].sec /\ job'[t].pc = "persist"
      /\ job'[t].via = job[t].via /\ job'[t].ch = job[t].ch
  BY GotoFacts DEF Binds, Login, JobPcs
<1>2. LocKept(t) /\ SecKept(t) /\ KindKept
  BY <1>1 DEF LocKept, SecKept, KeysInv, Secured, Held, KindKept
<1>3. \A o \in ghost'.owed : \/ o \in ghost.owed
                             \/ o = new /\ tab[t].loc = job[t].ch /\ job[t].ch \in pend
  BY DEF Binds
<1>4. Cleared'
  <2> SUFFICES ASSUME NEW u \in Tabs, job'[u].pc \in {"clear", "locator"}, NEW o \in ghost'.owed
               PROVE  o[2] # job'[u].ch /\ o[1] # u
    BY DEF Cleared
  <2>1. u # t /\ job'[u] = job[u] /\ ~Held(u)
    BY <1>1 DEF Others, KeysInv, Exclusive
  <2>2. CASE o \in ghost.owed
    BY <2>1, <2>2 DEF KeysInv, Cleared
  <2>3. CASE o = new /\ tab[t].loc = job[t].ch /\ job[t].ch \in pend
    <3>1. Own(u, job[u].ch)
      BY <2>1 DEF KeysInv, Secured, Channel, OneTab
    <3>2. job[t].ch # 0
      BY <2>3, Numbers DEF Typed
    <3>3. Own(t, job[t].ch)
      BY <2>3, <3>2 DEF KeysInv, LocOK
    <3>4. job[t].ch # job[u].ch
      BY <2>1, <3>1, <3>3 DEF Own
    <3> QED BY <2>1, <2>3, <3>4
  <2> QED BY <1>3, <2>2, <2>3
<1>5. KeysRecoverable'
  <2> SUFFICES ASSUME NEW o \in ghost'.owed
               PROVE  o[2] \in pend' /\ tab'[o[1]].loc = o[2]
    BY DEF KeysRecoverable
  <2>1. CASE o \in ghost.owed
    <3>1. o[2] \in pend /\ tab[o[1]].loc = o[2] /\ o[1] \in Tabs
      BY <2>1 DEF KeysInv, KeysRecoverable, Typed, GhostT
    <3> QED BY <1>1, <3>1 DEF Others
  <2>2. CASE o = new /\ tab[t].loc = job[t].ch /\ job[t].ch \in pend
    BY <1>1, <2>2
  <2> QED BY <1>3, <2>1, <2>2
<1> QED BY <1>2, <1>4, <1>5, KeysParts DEF KeysInv

(* The steps of an adoption that leave what is owed alone.                   *)
LEMMA OwedJob ==
    ASSUME Typed, KeysInv, NEW t \in Tabs, JobStep(t), ~(Bind(t) /\ Held(t) /\ Binds(t))
    PROVE  OwedKept
<1>1. CASE Bind(t)
  <2>1. UNCHANGED <<pend, ghost>>
    BY <1>1, BindFacts DEF BindRefuses, Bind
  <2> QED BY <2>1 DEF OwedKept
<1>2. CASE RestOfKeys(t)
  BY <1>2, RestOfKeysFacts DEF OwedKept
<1>3. CASE ClearPending(t)
  <2>1. job[t].pc = "clear" /\ pend' = pend \ {job[t].ch} /\ UNCHANGED ghost
    BY <1>3 DEF ClearPending
  <2> QED BY <2>1 DEF KeysInv, Cleared, OwedKept
<1>4. CASE Acquire(t) \/ Check(t) \/ Persist(t) \/ Compare(t) \/ Pubky(t) \/ Commit(t) \/ TryPending(t)
           \/ Keys(t) \/ ClearLocator(t) \/ Provision(t)
  <2>1. UNCHANGED <<pend, ghost>>
    BY <1>4 DEF Acquire, Check, Persist, Compare, Pubky, Commit, TryPending, Keys, ClearLocator, Provision
  <2> QED BY <2>1 DEF OwedKept
<1> QED BY <1>1, <1>2, <1>3, <1>4 DEF JobStep

(* The adoption goes on with its channel.                                    *)
LEMMA JobGoes ==
    ASSUME Typed, KeysInv, NEW t \in Tabs, tab'[t].loc = tab[t].loc, tab'[t].sec = tab[t].sec,
           job[t].pc \notin {"idle", "acquire"},
           job'[t].via = job[t].via, job'[t].ch = job[t].ch,
           \/ job'[t].pc \notin {"keys", "rest", "clear", "locator"}
           \/ job[t].pc \in {"keys", "rest", "clear", "locator"} \/ job[t].via # "enable",
           \/ job'[t].pc \notin {"clear", "locator"} \/ job[t].pc \in {"clear", "locator"}
           \/ ghost'.owed = {}
    PROVE  LocKept(t) /\ ClearKept(t) /\ SecKept(t)
BY DEF KeysInv, Secured, Channel, LocKept, ClearKept, SecKept, Held

LEMMA JobEnds ==
    ASSUME Typed, KeysInv, NEW t \in Tabs, tab'[t].loc = tab[t].loc,
           tab'[t].sec = tab[t].sec \/ tab'[t].sec = 0, JobOver(t)
    PROVE  LocKept(t) /\ ClearKept(t) /\ SecKept(t)
<1>1. job'[t].pc = "idle" /\ (tab'[t].sec > 0 => Held(t))
  BY JobOverFacts, FreshCalls DEF Held
<1> QED BY <1>1, JobIdle DEF LocKept

LEMMA KeysJobStep ==
    ASSUME Typed, KeysInv, InSection, Readable, NEW t \in Tabs, JobStep(t)
    PROVE  KeysInv'
<1>0. Others(t) /\ KindKept
  BY JobOthers, KindTab DEF TabStep
<1>1. ASSUME LocKept(t) /\ ClearKept(t) /\ SecKept(t), ~(Bind(t) /\ Held(t) /\ Binds(t))
      PROVE  KeysInv'
  BY <1>0, <1>1, OwedJob, KeysNext
<1>2. CASE Bind(t) /\ Held(t) /\ Binds(t)
  BY <1>0, <1>2, BindKeys, BindFacts DEF Bind
<1>3. CASE Bind(t) /\ ~(Held(t) /\ Binds(t))
  <2>1. JobOver(t) /\ tab'[t].loc = tab[t].loc /\ (tab'[t].sec = tab[t].sec \/ tab'[t].sec = 0)
    BY <1>3, BindFacts DEF BindRefuses, Login
  <2> QED BY <1>1, <1>3, <2>1, JobEnds
<1> SUFFICES ASSUME ~Bind(t)
             PROVE  LocKept(t) /\ ClearKept(t) /\ SecKept(t)
  BY <1>1, <1>2, <1>3
<1>4. CASE Acquire(t)
  <2>1. CASE JobOver(t) /\ UNCHANGED tab
    BY <2>1, JobEnds
  <2>2. CASE ~(JobOver(t) /\ UNCHANGED tab)
    <3>1. /\ \A u \in Tabs \ {t} : ~Held(u)
          /\ tab'[t].loc = tab[t].loc /\ tab'[t].sec = 1
          /\ job'[t].pc = (IF job[t].via = "enable" THEN "bind" ELSE "check")
      BY <1>4, <2>2, AcquireFacts DEF Login
    <3> QED BY <3>1 DEF LocKept, ClearKept, SecKept
  <2> QED BY <2>1, <2>2
<1>5. CASE Check(t)
  <2>1. job[t].pc = "check"
    BY <1>5, CheckFacts
  <2>2. CASE JobOver(t)
    <3>1. tab'[t].loc = tab[t].loc /\ (tab'[t].sec = tab[t].sec \/ tab'[t].sec = 0)
      <4>1. CASE UNCHANGED tab
        BY <4>1
      <4>2. CASE CheckRefuses(t)
        BY <4>2 DEF CheckRefuses, Login
      <4>3. CASE Goto(t, "bind") /\ UNCHANGED <<tab, srv, disk>>
        BY <4>3
      <4> QED BY <1>5, <4>1, <4>2, <4>3, CheckFacts
    <3> QED BY <2>2, <3>1, JobEnds
  <2>3. CASE Goto(t, "bind") /\ UNCHANGED tab
    <3>1. job'[t].pc = "bind" /\ job'[t].via = job[t].via /\ job'[t].ch = job[t].ch
      BY <2>3, GotoFacts DEF JobPcs
    <3> QED BY <2>1, <2>3, <3>1, JobGoes
  <2> QED BY <1>5, <2>2, <2>3, CheckFacts DEF CheckRefuses
<1>6. CASE Persist(t)
  <2>1. job[t].pc = "persist" /\ UNCHANGED tab
    BY <1>6, PersistFacts
  <2>2. \/ JobOver(t)
        \/ job'[t].pc = "compare" /\ job'[t].via = job[t].via /\ job'[t].ch = job[t].ch
    BY <1>6, PersistFacts
  <2> QED BY <2>1, <2>2, JobGoes, JobEnds
<1>7. CASE Compare(t)
  <2>1. job[t].pc = "compare" /\ UNCHANGED tab /\ (Goto(t, "pubky") \/ JobOver(t))
    BY <1>7, CompareFacts
  <2>2. CASE Goto(t, "pubky")
    <3>1. job'[t].pc = "pubky" /\ job'[t].via = job[t].via /\ job'[t].ch = job[t].ch
      BY <2>2, GotoFacts DEF JobPcs
    <3> QED BY <2>1, <3>1, JobGoes
  <2> QED BY <2>1, <2>2, JobEnds
<1>8. CASE Pubky(t)
  <2>1. /\ job[t].pc = "pubky" /\ UNCHANGED tab
        /\ job'[t].pc = "commit" /\ job'[t].via = job[t].via /\ job'[t].ch = job[t].ch
    BY <1>8, PubkyFacts, GotoFacts DEF JobPcs
  <2> QED BY <2>1, JobGoes
<1>9. CASE Commit(t)
  <2>1. job[t].pc = "commit"
    BY <1>9, CommitFacts
  <2>2. CASE JobOver(t) /\ UNCHANGED tab
    BY <2>2, JobEnds
  <2>3. CASE Goto(t, "try") /\ job[t].via = "enable" /\ tab'[t].loc = tab[t].loc /\ tab'[t].sec = 0
    <3>1. job'[t].pc = "try" /\ job'[t].via = "enable"
      BY <2>3, GotoFacts DEF JobPcs
    <3> QED BY <2>3, <3>1 DEF LocKept, ClearKept, SecKept
  <2>4. CASE Goto(t, "keys") /\ job[t].via # "enable" /\ tab'[t].loc = tab[t].loc /\ tab'[t].sec = tab[t].sec
    <3>1. job'[t].pc = "keys" /\ job'[t].via = job[t].via /\ job'[t].ch = job[t].ch
      BY <2>4, GotoFacts DEF JobPcs
    <3> QED BY <2>1, <2>4, <3>1, JobGoes
  <2> QED BY <1>9, <2>2, <2>3, <2>4, CommitFacts DEF Login
<1>10. CASE TryPending(t)
  <2>1. job[t].pc = "try" /\ UNCHANGED tab
    BY <1>10, TryPendingFacts DEF Readable
  <2>2. CASE Goto(t, "provision")
    <3>1. job'[t].pc = "provision" /\ job'[t].via = job[t].via /\ job'[t].ch = job[t].ch
      BY <2>2, GotoFacts DEF JobPcs
    <3> QED BY <2>1, <3>1, JobGoes
  <2>3. CASE job'[t].pc = "keys" /\ job'[t].via = job[t].via /\ job'[t].ch = tab[t].loc /\ tab[t].loc # 0
    <3>1. Own(t, job'[t].ch)
      BY <2>3 DEF KeysInv, LocOK
    <3> QED BY <2>1, <2>3, <3>1 DEF KeysInv, Secured, LocKept, ClearKept, SecKept, Held
  <2> QED BY <1>10, <2>2, <2>3, TryPendingFacts
<1>11. CASE Keys(t)
  <2>1. /\ job[t].pc = "keys" /\ UNCHANGED tab
        /\ job'[t].pc = "rest" /\ job'[t].via = job[t].via /\ job'[t].ch = job[t].ch
    BY <1>11, KeysFacts, GotoFacts DEF JobPcs, Keys
  <2> QED BY <2>1, JobGoes
<1>12. CASE RestOfKeys(t)
  <2>1. /\ job[t].pc = "rest" /\ UNCHANGED tab /\ ghost'.owed = {}
        /\ job'[t].pc = "clear" /\ job'[t].via = job[t].via /\ job'[t].ch = job[t].ch
    BY <1>12, RestOfKeysFacts, GotoFacts DEF JobPcs, RestOfKeys
  <2> QED BY <2>1, JobGoes
<1>13. CASE ClearPending(t)
  <2>1. job[t].pc = "clear" /\ UNCHANGED tab /\ Goto(t, "locator")
    BY <1>13 DEF ClearPending
  <2>2. job'[t].pc = "locator" /\ job'[t].via = job[t].via /\ job'[t].ch = job[t].ch
    BY <2>1, GotoFacts DEF JobPcs
  <2> QED BY <2>1, <2>2, JobGoes
<1>14. CASE ClearLocator(t)
  <2>1. /\ job[t].pc = "locator" /\ tab'[t].loc = 0 /\ tab'[t].sec = tab[t].sec /\ UNCHANGED ghost
        /\ Goto(t, "provision") \/ JobOver(t)
    BY <1>14, ClearLocatorFacts DEF Login, ClearLocator
  <2>2. LocKept(t)
    BY <2>1 DEF KeysInv, Cleared, LocKept
  <2>3. CASE Goto(t, "provision")
    <3>1. job'[t].pc = "provision" /\ job'[t].via = job[t].via
      BY <2>3, GotoFacts DEF JobPcs
    <3> QED BY <2>1, <2>2, <3>1 DEF KeysInv, Secured, ClearKept, SecKept, Held
  <2>4. CASE JobOver(t)
    <3>1. job'[t].pc = "idle"
      BY <2>4, JobOverFacts, FreshCalls
    <3> QED BY <2>1, <2>2, <3>1, JobIdle DEF Held
  <2> QED BY <2>1, <2>3, <2>4
<1>15. CASE Provision(t)
  BY <1>15, ProvisionFacts, JobEnds DEF Login
<1> QED BY <1>4, <1>5, <1>6, <1>7, <1>8, <1>9, <1>10, <1>11, <1>12, <1>13, <1>14, <1>15 DEF JobStep

LEMMA KeysTabStep ==
    ASSUME Typed, KeysInv, InSection, Readable, NEW t \in Tabs, TabStep(t)
    PROVE  KeysInv'
<1>0. Others(t) /\ KindKept
  BY TabOthers, KindTab
<1>1. CASE StartStep(t)
  <2>1. UNCHANGED job /\ tab'[t].loc = tab[t].loc /\ tab'[t].sec = tab[t].sec
    BY <1>1, StartLogin DEF SameLogin
  <2>2. LocKept(t) /\ ClearKept(t) /\ SecKept(t)
    BY <2>1, JobIdle DEF LocKept, Held
  <2> QED BY <1>0, <1>1, <2>2, OwedStart, KeysNext
<1>2. CASE CallStep(t)
  <2>1. UNCHANGED job /\ tab'[t].loc = tab[t].loc /\ tab'[t].sec = tab[t].sec
    BY <1>2, OwedCall, CallSec, CallStart
  <2>2. LocKept(t) /\ ClearKept(t) /\ SecKept(t)
    BY <2>1, JobIdle DEF LocKept, Held
  <2> QED BY <1>0, <1>2, <2>2, OwedCall, KeysNext
<1>3. CASE SectionTimer(t)
  <2>1. tab'[t].loc = tab[t].loc /\ tab'[t].sec = 0 /\ OneTab
    BY <1>3, SectionTimerFacts DEF Login, InSection
  <2>2. UNCHANGED <<job, pend, ghost>>
    BY <1>3 DEF SectionTimer
  <2>3. LocKept(t) /\ ClearKept(t) /\ SecKept(t) /\ OwedKept
    BY <2>1, <2>2 DEF KeysInv, Channel, LocKept, ClearKept, SecKept, OwedKept
  <2> QED BY <1>0, <2>3, KeysNext
<1>4. ASSUME NEW page \in Ids, Loaded(t, page)
      PROVE  KeysInv'
  <2>1. /\ tab'[t].loc = tab[t].loc /\ tab'[t].sec = 0 /\ job'[t].pc = "idle"
        /\ ghost'.owed = ghost.owed /\ UNCHANGED pend
    BY <1>4, LoadedFacts, FreshCalls
  <2>2. LocKept(t) /\ ClearKept(t) /\ SecKept(t) /\ OwedKept
    BY <2>1 DEF LocKept, ClearKept, SecKept, OwedKept
  <2> QED BY <1>0, <2>2, KeysNext
<1>5. CASE CallbackAdopt(t)
  <2>1. tab'[t].loc = tab[t].loc /\ tab'[t].sec = tab[t].sec /\ job'[t].pc = "acquire"
    BY <1>5, CallbackAdoptFacts DEF SameLogin
  <2>2. UNCHANGED <<pend, ghost>>
    BY <1>5 DEF CallbackAdopt
  <2>3. LocKept(t) /\ ClearKept(t) /\ SecKept(t) /\ OwedKept
    BY <2>1, <2>2, JobIdle DEF LocKept, OwedKept, Held
  <2> QED BY <1>0, <2>3, KeysNext
<1> QED BY <1>1, <1>2, <1>3, <1>4, <1>5, KeysJobStep, StepCases, LoadCases

LEMMA KeysStep ==
    ASSUME Typed, KeysInv, InSection, Readable, [SiNext]_siVars
    PROVE  KeysInv'
<1>1. CASE SiNext
  BY <1>1, KeysFlowStep, KeysTabStep DEF SiNext
<1>2. CASE UNCHANGED siVars
  BY <1>2 DEF siVars, KeysInv, LocOK, Cleared, Exclusive, Secured, Channel, KeysRecoverable, Own, Held, OneTab
<1> QED BY <1>1, <1>2

LEMMA KeysInit ==
    ASSUME SiInit
    PROVE  KeysInv
<1>1. ghost.owed = {} /\ \A t \in Tabs : tab[t].loc = 0 /\ tab[t].sec = 0 /\ job[t].pc = "idle"
  BY FreshTab, FreshCalls DEF SiInit
<1> QED BY <1>1 DEF KeysInv, LocOK, Cleared, Exclusive, Secured, Channel, KeysRecoverable, Held

(* While the writer role of an adoption is not taken from it, or there is    *)
(* only one tab, and a handoff can be read, no tab clears what another one   *)
(* owes, and no tab clears its own before it has the keys.                   *)
THEOREM NobodyClearsForAnother == InSection /\ Readable => (SiSpec => [](Typed /\ KeysInv))
<1> SUFFICES ASSUME InSection, Readable
             PROVE  SiSpec => [](Typed /\ KeysInv)
  OBVIOUS
<1>1. SiInit => Typed /\ KeysInv
  BY TypedInit, KeysInit
<1>2. Typed /\ KeysInv /\ [SiNext]_siVars => (Typed /\ KeysInv)'
  BY TypedStep, KeysStep
<1> QED BY <1>1, <1>2, PTL DEF SiSpec

(* Until the keys are stored, or the user gives up, or the channel's time is *)
(* over, a page load finds the secret of the channel and the locator.        *)
THEOREM KeysCanBeHad == InSection /\ Readable => (SiSpec => []KeysRecoverable)
<1>1. KeysInv => KeysRecoverable
  BY DEF KeysInv
<1> QED BY <1>1, NobodyClearsForAnother, PTL
-------------------------------------------------------------------------------
(* A signed-in tab has its identity                                          *)

(* Of a tab: its adoption j, restore r and sign-out o, and whether the store *)
(* has the identity.                                                         *)
IdOK(j, r, o, a, pubky) ==
    /\ j.pc \in {"commit", "try", "keys", "rest", "clear", "locator"} => pubky
    /\ j.pc \in {"pubky", "commit"} /\ a.auth => a.sec > 0
    /\ o.pc = "wipe" => j.pc = "idle"
    /\ r.pc = "last" /\ r.e = a.epoch /\ o = NoCall => pubky
    /\ a.auth /\ o = NoCall => pubky
IdInv == \A t \in Tabs \ ghost.stale : IdOK(job[t], rest[t], out[t], tab[t], disk.pubky)
IdNow(t) == IdOK(job[t], rest[t], out[t], tab[t], disk.pubky)
IdThen(t) == IdOK(job'[t], rest'[t], out'[t], tab'[t], disk'.pubky)

Untaken == "again" \notin Faults

LEMMA IdNext ==
    ASSUME OneTab, NEW t \in Tabs, t \in ghost'.stale \/ IdThen(t)
    PROVE  IdInv'
<1> SUFFICES ASSUME NEW u \in Tabs, u \notin ghost'.stale
             PROVE  IdOK(job'[u], rest'[u], out'[u], tab'[u], disk'.pubky)
  BY DEF IdInv
<1>1. u = t
  BY DEF OneTab
<1> QED BY <1>1 DEF IdThen

(* Nothing of the tab changes but what a flow has to do with.                *)
LEMMA IdSame ==
    ASSUME NEW t \in Tabs, IdNow(t), disk'.pubky = disk.pubky, UNCHANGED <<rest, out>>,
           tab'[t].epoch = tab[t].epoch, tab'[t].auth = tab[t].auth,
           \/ job'[t] = job[t] /\ tab'[t].sec = tab[t].sec
           \/ job'[t].pc = "acquire" /\ out[t].pc # "wipe"
    PROVE  IdThen(t)
BY DEF IdNow, IdThen, IdOK

LEMMA IdFlowStep ==
    ASSUME Typed, IdInv, OneTab, NoOverlap, NEW f \in Flows, FlowStep(f)
    PROVE  IdInv'
<1> DEFINE t == flow[f].tab
<1>1. /\ t \in Tabs /\ SameSession(tab[t], tab'[t]) /\ UNCHANGED <<disk, rest, out>>
      /\ UNCHANGED job \/ FlowAdopts(f)
  BY FlowTabs
<1>2. ghost'.stale = ghost.stale
  <2>1. CASE RingApprove(f)
    BY <2>1, RingApproveFacts
  <2>2. CASE Locator(f)
    BY <2>2, LocatorFacts
  <2>3. CASE Deadline(f)
    BY <2>3, DeadlineFacts DEF Gave, SamePast
  <2>4. CASE (\E l \in Locators : RingPost(f, l)) \/ Payload(f) \/ WatchFails(f) \/ Session(f)
    BY <2>4 DEF RingPost, Payload, WatchFails, Session
  <2> QED BY <2>1, <2>2, <2>3, <2>4 DEF FlowStep
<1>3. FlowAdopts(f) => job'[t].pc = "acquire" /\ out[t].pc # "wipe"
  BY FreshCalls DEF FlowAdopts, CanAdopt, NoOverlap
<1>4. IdNow(t) => IdThen(t)
  BY <1>1, <1>3, IdSame DEF SameSession
<1> QED BY <1>1, <1>2, <1>4, IdNext DEF IdInv, IdNow

(* An adoption runs alone, so what it does is judged by its own conditions.  *)
LEMMA IdJob ==
    ASSUME Typed, LoneInv, NEW t \in Tabs, IdNow(t), job[t].pc # "idle", UNCHANGED <<rest, out>>,
           \/ job'[t].pc \notin {"commit", "try", "keys", "rest", "clear", "locator"}
           \/ disk'.pubky,
           \/ job'[t].pc \notin {"pubky", "commit"}
           \/ tab'[t].auth => tab'[t].sec > 0,
           tab'[t].auth /\ out[t] = NoCall => disk'.pubky
    PROVE  IdThen(t)
<1>1. rest'[t].pc = "idle" /\ out'[t] = out[t] /\ out[t].pc # "wipe"
  BY FreshCalls DEF LoneInv, LoneOK, IdNow, IdOK
<1> QED BY <1>1 DEF IdThen, IdOK

LEMMA IdJobStep ==
    ASSUME Typed, LoneInv, NEW t \in Tabs, IdNow(t), JobStep(t)
    PROVE  IdThen(t)
<1>0. UNCHANGED <<rest, out>>
  BY JobStart
<1>1. CASE Acquire(t)
  <2>1. job[t].pc = "acquire"
    BY <1>1, AcquireFacts
  <2>2. disk'.pubky = disk.pubky
    BY <1>1 DEF Acquire
  <2>3. tab'[t].auth = tab[t].auth /\ job'[t].pc \in {"idle", "bind", "check"}
    BY <1>1, AcquireFacts, JobOverFacts, FreshCalls DEF Login
  <2> QED BY <1>0, <2>1, <2>2, <2>3, IdJob DEF IdNow, IdOK
<1>2. CASE Check(t)
  <2>1. job[t].pc = "check"
    BY <1>2, CheckFacts
  <2>2. disk'.pubky = disk.pubky /\ (tab'[t].auth => tab[t].auth)
    BY <1>2, CheckFacts DEF CheckRefuses, Login, Disk
  <2>3. job'[t].pc \in {"idle", "bind"}
    BY <1>2, CheckFacts, JobOverFacts, GotoFacts, FreshCalls DEF CheckRefuses, JobPcs
  <2> QED BY <1>0, <2>1, <2>2, <2>3, IdJob DEF IdNow, IdOK
<1>3. CASE Bind(t)
  <2>1. job[t].pc = "bind" /\ UNCHANGED disk
    BY <1>3, BindFacts DEF Bind
  <2>2. tab'[t].auth = tab[t].auth
    BY <1>3, BindFacts DEF BindRefuses, Binds, Login
  <2>3. job'[t].pc \in {"idle", "persist"}
    BY <1>3, BindFacts, JobOverFacts, GotoFacts, FreshCalls DEF BindRefuses, Binds, JobPcs
  <2> QED BY <1>0, <2>1, <2>2, <2>3, IdJob DEF IdNow, IdOK
<1>4. CASE Persist(t)
  <2>1. job[t].pc = "persist" /\ UNCHANGED tab /\ disk'.pubky = disk.pubky
    BY <1>4, PersistFacts DEF Disk
  <2>2. job'[t].pc \in {"idle", "compare"}
    BY <1>4, PersistFacts, JobOverFacts, FreshCalls
  <2> QED BY <1>0, <2>1, <2>2, IdJob DEF IdNow, IdOK
<1>5. CASE Compare(t)
  <2>1. job[t].pc = "compare" /\ UNCHANGED tab /\ disk'.pubky = disk.pubky
    BY <1>5, CompareFacts DEF Disk
  <2>2. job'[t].pc = "idle" \/ (job'[t].pc = "pubky" /\ tab[t].sec > 0)
    BY <1>5, CompareFacts, JobOverFacts, GotoFacts, FreshCalls DEF JobPcs, Held
  <2> QED BY <1>0, <2>1, <2>2, IdJob DEF IdNow, IdOK
<1>6. CASE Pubky(t)
  <2>1. job[t].pc = "pubky" /\ UNCHANGED tab /\ disk'.pubky = TRUE
    BY <1>6, PubkyFacts DEF Disk
  <2> QED BY <1>0, <2>1, IdJob DEF IdNow, IdOK
<1>7. CASE Commit(t)
  <2>1. job[t].pc = "commit"
    BY <1>7, CommitFacts
  <2>2. CASE Held(t)
    <3>1. UNCHANGED disk /\ job'[t].pc \in {"try", "keys"}
      BY <1>7, <2>2, CommitFacts, GotoFacts DEF JobPcs
    <3> QED BY <1>0, <2>1, <3>1, IdJob DEF IdNow, IdOK
  <2>3. CASE ~Held(t)
    <3>1. UNCHANGED tab /\ job'[t].pc = "idle"
      BY <1>7, <2>3, CommitFacts, JobOverFacts, FreshCalls
    <3>2. ~tab[t].auth
      BY <2>1, <2>3 DEF IdNow, IdOK, Held
    <3> QED BY <1>0, <2>1, <3>1, <3>2, IdJob
  <2> QED BY <2>2, <2>3
<1>8. CASE TryPending(t) \/ Keys(t) \/ RestOfKeys(t) \/ ClearPending(t) \/ ClearLocator(t)
  <2>1. job[t].pc \in {"try", "keys", "rest", "clear", "locator"}
    BY <1>8 DEF TryPending, Keys, RestOfKeys, ClearPending, ClearLocator
  <2>2. disk'.pubky
    BY <1>8, <2>1, KeysFacts, RestOfKeysFacts
       DEF Disk, IdNow, IdOK, TryPending, ClearPending, ClearLocator
  <2>3. job'[t].pc \in {"idle", "keys", "provision", "rest", "clear", "locator"}
    BY <1>8, TryPendingFacts, KeysFacts, RestOfKeysFacts, ClearLocatorFacts, GotoFacts, JobOverFacts, FreshCalls
       DEF JobPcs, ClearPending
  <2> QED BY <1>0, <2>1, <2>2, <2>3, IdJob
<1>9. CASE Provision(t)
  <2>1. job[t].pc = "provision" /\ job'[t].pc = "idle" /\ tab'[t].auth = tab[t].auth
    BY <1>9, ProvisionFacts, JobOverFacts, FreshCalls DEF Login
  <2>2. disk'.pubky = disk.pubky \/ disk'.pubky = TRUE
    BY <1>9, ProvisionFacts DEF Disk
  <2> QED BY <1>0, <2>1, <2>2, IdJob DEF IdNow, IdOK
<1> QED BY <1>1, <1>2, <1>3, <1>4, <1>5, <1>6, <1>7, <1>8, <1>9 DEF JobStep
LEMMA IdCallStep ==
    ASSUME Typed, LoneInv, NoOverlap, NEW t \in Tabs, IdNow(t), CallStep(t)
    PROVE  IdThen(t) \/ t \in ghost'.stale
<1>0. UNCHANGED job /\ tab[t].epoch \in Nat /\ LoneOK(job[t], rest[t], out[t], tab[t])
      /\ rest[t].e \in Nat
  BY CallStart, TabFields, JobFields DEF LoneInv
<1>l. rest[t].pc # "idle" => job[t].pc = "idle"
  BY <1>0, FreshCalls DEF LoneOK
<1>1. CASE RestoreStart(t)
  <2>1. UNCHANGED <<disk, tab, out>> /\ rest'[t].pc = "resume"
    BY <1>1, RestoreStartFacts DEF RestoreStart
  <2> QED BY <1>0, <2>1 DEF IdNow, IdThen, IdOK
<1>2. CASE Resume(t)
  <2>1. UNCHANGED out /\ job[t].pc = "idle"
    BY <1>l, <1>2, ResumeFacts DEF Resume
  <2>2. /\ rest'[t].pc \in {"idle", "open"} /\ tab'[t].auth = tab[t].auth
        /\ disk'.pubky = disk.pubky
    BY <1>2, ResumeFacts, RestOverFacts, FreshCalls DEF Finds, GivesUp, Login, Disk
  <2> QED BY <1>0, <2>1, <2>2 DEF IdNow, IdThen, IdOK
<1>3. CASE RestorePut(t)
  <2>1. /\ UNCHANGED <<tab, out>> /\ rest'[t].pc = "compare" /\ disk'.pubky = disk.pubky
    BY <1>3, RestorePutFacts DEF RestorePut, Disk
  <2> QED BY <1>0, <2>1 DEF IdNow, IdThen, IdOK
<1>4. CASE RestoreCompare(t)
  <2>1. UNCHANGED out /\ job[t].pc = "idle"
    BY <1>l, <1>4, RestoreCompareFacts DEF RestoreCompare
  <2>2. /\ disk'.pubky = disk.pubky /\ tab'[t].auth = tab[t].auth
    BY <1>4, RestoreCompareFacts DEF Disk, Drops, Login
  <2>3. rest'[t].pc \in {"idle", "pubky"}
    BY <1>4, RestoreCompareFacts, RestOverFacts, FreshCalls
  <2> QED BY <1>0, <2>1, <2>2, <2>3 DEF IdNow, IdThen, IdOK
<1>5. CASE RestorePubky(t)
  <2>1. UNCHANGED <<tab, out>> /\ rest[t].pc = "pubky" /\ disk'.pubky = TRUE
    BY <1>5, RestorePubkyFacts DEF RestorePubky, Disk
  <2> QED BY <1>0, <1>l, <2>1 DEF IdNow, IdThen, IdOK
<1>6. CASE RestoreDone(t)
  <2>1. /\ UNCHANGED <<disk, out>> /\ rest[t].pc = "last" /\ rest'[t].pc = "idle"
        /\ tab'[t].auth = tab[t].auth \/ rest[t].e = tab[t].epoch
    BY <1>6, RestoreDoneFacts, RestOverFacts, FreshCalls DEF RestoreDone, Drops, Login
  <2> QED BY <1>0, <1>l, <2>1 DEF IdNow, IdThen, IdOK
<1>7. CASE OutStart(t)
  <2>1. /\ UNCHANGED <<disk, rest>> /\ out'[t].pc = "server"
        /\ tab'[t].auth = tab[t].auth /\ tab'[t].sec = tab[t].sec
    BY <1>7, OutStartFacts DEF OutStart, Login
  <2>2. out'[t] # NoCall
    BY <2>1, FreshCalls
  <2> QED BY <1>0, <2>1, <2>2 DEF IdNow, IdThen, IdOK
<1>8. CASE OutServer(t)
  <2>1. UNCHANGED <<disk, rest, tab>> /\ out'[t].pc = "clear"
    BY <1>8, OutServerFacts DEF OutServer
  <2>2. out'[t] # NoCall
    BY <2>1, FreshCalls
  <2> QED BY <1>0, <2>1, <2>2 DEF IdNow, IdThen, IdOK
<1>9. CASE OutClear(t)
  <2>1. out'[t].pc = "wipe" /\ (job[t] # NoJob => t \in ghost'.stale)
    BY <1>9, OutClearFacts
  <2>2. out'[t] # NoCall /\ NoJob.pc = "idle"
    BY <2>1, FreshCalls
  <2> QED BY <1>0, <2>1, <2>2 DEF IdThen, IdOK
<1>10. CASE OutWipe(t)
  <2>1. /\ UNCHANGED rest /\ out[t].pc = "wipe" /\ out'[t].pc = "idle" /\ tab'[t].auth = FALSE
        /\ tab'[t].epoch = tab[t].epoch + 1
    BY <1>10, OutWipeFacts, FreshCalls DEF OutWipe, Login
  <2>2. job'[t].pc = "idle" /\ rest'[t].e # tab'[t].epoch
    BY <1>0, <2>1 DEF LoneOK, IdNow, IdOK
  <2> QED BY <2>1, <2>2 DEF IdThen, IdOK
<1> QED BY <1>1, <1>2, <1>3, <1>4, <1>5, <1>6, <1>7, <1>8, <1>9, <1>10 DEF CallStep

(* A page load, or a sign-out that ends with no adoption under way, leaves   *)
(* nothing that counts on an identity which is not there.                    *)
LEMMA IdLoaded ==
    ASSUME Typed, NEW t \in Tabs, NEW page \in Ids, Loaded(t, page)
    PROVE  IdThen(t)
<1>1. /\ job'[t].pc = "idle" /\ rest'[t].pc = "idle" /\ UNCHANGED disk /\ (tab'[t].auth => disk.pubky)
  BY LoadedFacts, FreshCalls
<1> QED BY <1>1 DEF IdThen, IdOK

LEMMA IdWiped ==
    ASSUME Typed, LoneInv, NEW t \in Tabs, OutWipe(t), job[t] = NoJob
    PROVE  IdThen(t)
<1>1. /\ UNCHANGED <<job, rest>> /\ out'[t].pc = "idle" /\ tab'[t].auth = FALSE
      /\ tab'[t].epoch = tab[t].epoch + 1
  BY OutWipeFacts, FreshCalls DEF OutWipe, Login
<1>2. tab[t].epoch \in Nat /\ rest[t].e \in Nat /\ rest[t].e <= tab[t].epoch
  BY TabFields, JobFields DEF LoneInv, LoneOK
<1>3. job'[t].pc = "idle" /\ rest'[t].e # tab'[t].epoch
  BY <1>1, <1>2, FreshCalls
<1> QED BY <1>1, <1>3 DEF IdThen, IdOK

(* Else a tab that a sign-out left to an adoption stays so.                  *)
LEMMA StaleStays ==
    ASSUME Typed, LoneInv, NEW t \in Tabs, TabStep(t), t \in ghost.stale
    PROVE  IdThen(t) \/ t \in ghost'.stale
<1>1. CASE StartStep(t)
  <2>1. ASSUME NEW replace \in BOOLEAN, Start(t, replace)
        PROVE  ghost'.stale = ghost.stale
    BY <2>1, StartFacts DEF Renews, LeavesFlows, Gave, SamePast
  <2>2. CASE Cancel(t)
    BY <2>2, CancelFacts DEF Gave, SamePast
  <2>3. CASE Minted(t)
    BY <2>3, MintedFacts DEF SamePast
  <2>4. CASE MintFails(t)
    BY <2>4, MintFailsFacts DEF Renews, LeavesFlows, Gave, SamePast
  <2>5. CASE EnableStart(t)
    BY <2>5 DEF EnableStart
  <2> QED BY <1>1, <2>1, <2>2, <2>3, <2>4, <2>5 DEF StartStep
<1>2. CASE JobStep(t)
  <2>1. CASE Bind(t)
    BY <2>1, BindFacts DEF Binds, BindRefuses
  <2>2. CASE RestOfKeys(t)
    BY <2>2, RestOfKeysFacts
  <2>3. CASE Acquire(t) \/ Check(t) \/ Persist(t) \/ Compare(t) \/ Pubky(t) \/ Commit(t) \/ TryPending(t)
             \/ Keys(t) \/ ClearPending(t) \/ ClearLocator(t) \/ Provision(t)
    BY <2>3 DEF Acquire, Check, Persist, Compare, Pubky, Commit, TryPending, Keys, ClearPending,
                ClearLocator, Provision
  <2> QED BY <1>2, <2>1, <2>2, <2>3 DEF JobStep
<1>3. CASE CallStep(t)
  <2>1. CASE Resume(t)
    BY <2>1, ResumeFacts DEF Finds, GivesUp
  <2>2. CASE OutStart(t)
    BY <2>2, OutStartFacts
  <2>3. CASE OutServer(t)
    BY <2>3, OutServerFacts
  <2>4. CASE OutClear(t)
    BY <2>4, OutClearFacts
  <2>5. CASE OutWipe(t)
    BY <2>5, IdWiped, OutWipeFacts
  <2>6. CASE RestoreStart(t) \/ RestorePut(t) \/ RestoreCompare(t) \/ RestorePubky(t) \/ RestoreDone(t)
    BY <2>6 DEF RestoreStart, RestorePut, RestoreCompare, RestorePubky, RestoreDone
  <2> QED BY <1>3, <2>1, <2>2, <2>3, <2>4, <2>5, <2>6 DEF CallStep
<1>4. CASE SectionTimer(t) \/ CallbackAdopt(t)
  BY <1>4 DEF SectionTimer, CallbackAdopt
<1> QED BY <1>1, <1>2, <1>3, <1>4, IdLoaded, StepCases, LoadCases

LEMMA IdTabStep ==
    ASSUME Typed, LoneInv, IdInv, OneTab, NoOverlap, Untaken, NEW t \in Tabs, TabStep(t)
    PROVE  IdInv'
<1> SUFFICES ASSUME IdNow(t)
             PROVE  IdThen(t) \/ t \in ghost'.stale
  BY StaleStays, IdNext DEF IdInv, IdNow
<1>1. CASE StartStep(t)
  <2>1. UNCHANGED <<disk, job, rest, out>>
    BY <1>1, StartLogin
  <2>2. /\ tab'[t].epoch = tab[t].epoch /\ tab'[t].auth = tab[t].auth
        /\ tab'[t].sec = tab[t].sec
    BY <1>1, StartLogin DEF SameLogin
  <2> QED BY <2>1, <2>2, IdSame
<1>2. CASE SectionTimer(t)
  <2>1. UNCHANGED <<disk, job, rest, out>>
    BY <1>2 DEF SectionTimer
  <2>2. tab'[t].epoch = tab[t].epoch /\ tab'[t].auth = tab[t].auth
    BY <1>2, SectionTimerFacts DEF Login
  <2>3. ~(job[t].pc \in {"pubky", "commit"} /\ tab[t].auth)
    BY <1>2, SectionTimerFacts DEF Untaken
  <2> QED BY <2>1, <2>2, <2>3 DEF IdNow, IdThen, IdOK
<1>3. CASE CallbackAdopt(t)
  <2>1. UNCHANGED <<disk, rest, out>> /\ job'[t].pc = "acquire"
        /\ tab'[t].epoch = tab[t].epoch /\ tab'[t].auth = tab[t].auth
    BY <1>3, CallbackAdoptFacts DEF CallbackAdopt, SameLogin
  <2>2. out[t].pc # "wipe"
    BY <1>3, FreshCalls DEF CallbackAdopt, CanAdopt, NoOverlap
  <2> QED BY <2>1, <2>2, IdSame
<1> QED BY <1>1, <1>2, <1>3, IdLoaded, IdJobStep, IdCallStep, StepCases, LoadCases

LEMMA IdStep ==
    ASSUME Typed, LoneInv, IdInv, OneTab, NoOverlap, Untaken, [SiNext]_siVars
    PROVE  IdInv'
<1>1. CASE SiNext
  BY <1>1, IdFlowStep, IdTabStep DEF SiNext
<1>2. CASE UNCHANGED siVars
  BY <1>2 DEF siVars, IdInv
<1> QED BY <1>1, <1>2

LEMMA IdInit ==
    ASSUME SiInit
    PROVE  IdInv
<1>1. \A t \in Tabs : ~tab[t].auth /\ job[t].pc = "idle" /\ rest[t].pc = "idle"
  BY FreshTab, FreshCalls DEF SiInit
<1> QED BY <1>1 DEF IdInv, IdOK

(* A tab that is alone, does one thing at a time and whose adoptions are not *)
(* taken back from a signed-in identity keeps the identity from before the   *)
(* commit on, and a restore signs in only what no sign-out has ended.        *)
THEOREM SignedInStep == OneTab /\ NoOverlap /\ Untaken => (SiSpec => [](Typed /\ LoneInv /\ IdInv))
<1> SUFFICES ASSUME OneTab, NoOverlap, Untaken
             PROVE  SiSpec => [](Typed /\ LoneInv /\ IdInv)
  OBVIOUS
<1>1. SiInit => Typed /\ LoneInv /\ IdInv
  BY TypedInit, LoneInit, IdInit
<1>2. Typed /\ LoneInv /\ IdInv /\ [SiNext]_siVars => (Typed /\ LoneInv /\ IdInv)'
  BY TypedStep, LoneStep, IdStep
<1> QED BY <1>1, <1>2, PTL DEF SiSpec

(* A tab that says it is signed in has its identity in the store, unless its *)
(* own sign-out is under way.                                                *)
THEOREM SignedInHasIdentity == OneTab /\ NoOverlap /\ Untaken => (SiSpec => []IdentityKept)
<1>1. IdInv => IdentityKept
  BY DEF IdInv, IdOK, IdentityKept
<1> QED BY <1>1, SignedInStep, PTL
-------------------------------------------------------------------------------
(* Signed out is signed out                                                  *)

(* A flow nobody waits for, and a flow that there is.                        *)
Gone(r) == r.off \/ r.ph \in {"done", "gone"}
Old(fl, c) == c \in Flows /\ fl[c].kind # "none"
(* Only a watch reads, and a chain goes by the channel of an earlier flow.   *)
Reads == \A f \in Flows : flow[f].ph = "reading" => flow[f].kind = "connect"
Chains == \A f \in Flows : flow[f].kind # "none" => Old(flow, ChOf(flow[f], f))

(* Of the answer of Ring to flow f, with r its record, s its session, pc     *)
(* where the sign-out is and p the channels whose secret is stored: to       *)
(* enable nobody waits for it, to a code its handoff is gone or will be.     *)
Dropped(f, r, s, pc, p) ==
    IF r.kind = "enable" THEN s = "granted" => Gone(r)
    ELSE s = "granted" \/ r.got => pc \in {"server", "clear"} \/ ChOf(r, f) \notin p
(* An adoption j beside the sign-out o is one that will be refused.          *)
Refused(j, o, p, fl) ==
    /\ j.pc \in {"idle", "acquire", "check"}
    /\ j.pc # "idle" => j.via # "enable" /\ o = NoCall /\ j.ch \notin p /\ Old(fl, j.ch)
(* A tab after the sign-out o began, with its restore r.                     *)
QuietOK(r, o, a, d) ==
    /\ a.live = 0
    /\ r.pc \in {"idle", "open", "compare"} /\ (r.pc # "idle" => r.e # a.epoch)
    /\ o = NoCall => d.meta = 0 /\ ~d.pubky /\ ~a.auth
    /\ o.pc = "wipe" => ~d.pubky
QuietTab(t) == Refused(job[t], out[t], pend, flow) /\ QuietOK(rest[t], out[t], tab[t], disk)
QuietThen(t) == Refused(job'[t], out'[t], pend', flow') /\ QuietOK(rest'[t], out'[t], tab'[t], disk')
DroppedNow(t, g) == Dropped(g, flow[g], srv[g], out[t].pc, pend)
DroppedThen(t, g) == Dropped(g, flow'[g], srv'[g], out'[t].pc, pend')
QuietInv ==
    /\ Reads /\ Chains
    /\ ghost.quiet = "alone" =>
         Tabs # {} /\ \A t \in Tabs : QuietTab(t) /\ \A g \in Flows : DroppedNow(t, g)

(* What a step may do to a flow, and to the secrets of the flows there are.  *)
FlowKept(g) ==
    IF flow[g].kind = "none"
    THEN ~flow'[g].got /\ (flow'[g].kind = "chain" => Old(flow, flow'[g].ch))
    ELSE /\ flow'[g].kind = flow[g].kind
         /\ flow[g].kind = "chain" => flow'[g].ch = flow[g].ch
         /\ Gone(flow[g]) => Gone(flow'[g])
         /\ flow'[g].got => flow[g].got \/ srv[g] = "granted"
AllKept == \A g \in Flows : FlowKept(g)
PendKept == \A c : Old(flow, c) /\ c \notin pend => c \notin pend'

LEMMA FlowSame ==
    ASSUME Typed, NEW g \in Flows, flow'[g] = flow[g]
    PROVE  FlowKept(g)
<1>1. flow[g].kind = "none" => ~flow[g].got
  BY DEF Typed
<1> QED BY <1>1 DEF FlowKept

(* A flow that is given up, and no answer came with it.                      *)
LEMMA FlowEnds ==
    ASSUME Typed, NEW g \in Flows, flow'[g].kind = flow[g].kind, flow'[g].ch = flow[g].ch,
           flow'[g].got => flow[g].got, Gone(flow'[g])
    PROVE  FlowKept(g)
<1>1. flow[g].kind = "none" => ~flow[g].got
  BY DEF Typed
<1> QED BY <1>1 DEF FlowKept

LEMMA FlowAborted ==
    ASSUME Typed, NEW c \in Ids, NEW g \in Flows, flow'[g] = AbortedFlows(c)[g]
    PROVE  FlowKept(g)
<1> DEFINE fl == AbortedFlows(c)
<1>1. CASE g = c
  <2>1. c # 0
    BY <1>1, Numbers
  <2>2. fl[c].kind = flow[c].kind /\ fl[c].ch = flow[c].ch /\ fl[c].got = FALSE /\ fl[c].ph = "done"
    BY <2>1, AbortedFacts
  <2> QED BY <1>1, <2>2, FlowEnds DEF Gone
<1>2. CASE g # c
  <2>1. fl[g] = flow[g]
    BY <1>2, AbortedFacts
  <2> QED BY <2>1, FlowSame
<1> QED BY <1>1, <1>2

LEMMA KeptFlow ==
    ASSUME Typed, NEW f \in Flows, FlowStep(f)
    PROVE  AllKept
<1> SUFFICES ASSUME NEW g \in Flows
             PROVE  FlowKept(g)
  BY DEF AllKept
<1>1. CASE flow'[g] = flow[g]
  BY <1>1, FlowSame
<1>2. ASSUME flow' = Ended(f)
      PROVE  FlowKept(g)
  <2>1. g # f => flow'[g] = flow[g]
    BY <1>2, EndedFacts
  <2>2. flow'[f].kind = flow[f].kind /\ flow'[f].ch = flow[f].ch /\ flow'[f].got = FALSE /\ flow'[f].ph = "done"
    BY <1>2, EndedFacts DEF Over
  <2> QED BY <1>1, <2>1, <2>2, FlowEnds DEF Gone
<1>3. CASE RingApprove(f)
  <2>1. (g # f => flow'[g] = flow[g]) /\ SameFlow(flow[f], flow'[f])
    BY <1>3, RingApproveFacts
  <2>2. flow[g].kind = "none" => ~flow[g].got
    BY DEF Typed
  <2>3. g = f => FlowKept(g)
    BY <2>1, <2>2 DEF SameFlow, FlowKept, Gone, RingApprove
  <2> QED BY <1>1, <2>1, <2>3
<1>4. CASE \E l \in Locators : RingPost(f, l)
  BY <1>1, <1>4 DEF RingPost
<1>5. CASE Locator(f)
  <2>1. /\ flow[f].kind = "connect" /\ flow[f].ph = "open"
        /\ flow'[f].kind = "connect" /\ flow'[f].ph = "reading"
        /\ flow'[f].got = flow[f].got /\ flow'[f].off = flow[f].off
        /\ g # f => flow'[g] = flow[g]
    BY <1>5, LocatorFacts
  <2>2. g = f => FlowKept(g)
    BY <2>1 DEF FlowKept, Gone
  <2> QED BY <1>1, <2>1, <2>2
<1>6. CASE Payload(f)
  <2>1. flow[f].kind = "connect" /\ flow[f].ph = "reading"
    BY <1>6, PayloadFacts
  <2>2. CASE PayloadOld(f) /\ g = f
    BY <2>2, FlowEnds DEF PayloadOld, Over, Gone
  <2>3. CASE PayloadOld(f) /\ g # f /\ flow'[g] # flow[g]
    <3>1. flow[g].kind = "none" /\ flow'[g].got = FALSE /\ flow'[g].ch = f
      BY <2>3 DEF PayloadOld
    <3> QED BY <2>1, <3>1 DEF FlowKept, Old
  <2>4. CASE PayloadWaits(f) /\ g = f
    <3>1. /\ flow'[f].kind = flow[f].kind /\ flow'[f].got = flow[f].got /\ flow'[f].off = flow[f].off
      BY <2>4 DEF PayloadWaits
    <3> QED BY <2>1, <2>4, <3>1 DEF FlowKept, Gone
  <2>5. CASE PayloadWaits(f) /\ g # f
    BY <1>1, <2>5 DEF PayloadWaits
  <2>6. CASE PayloadAdopted(f)
    BY <1>2, <2>6 DEF PayloadAdopted
  <2> QED BY <1>1, <1>6, <2>2, <2>3, <2>4, <2>5, <2>6, PayloadFacts
<1>7. CASE WatchFails(f) \/ Deadline(f)
  BY <1>1, <1>2, <1>7, WatchFailsFacts, DeadlineFacts
<1>8. CASE Session(f)
  <2>1. CASE SessionWaits(f) /\ g = f
    <3>1. /\ flow[f].kind = "connect" /\ flow'[f].kind = flow[f].kind /\ flow'[f].ph = flow[f].ph
          /\ flow'[f].off = flow[f].off /\ srv[f] = "granted"
      BY <1>8, <2>1, SessionFacts DEF SessionWaits, Watching
    <3> QED BY <2>1, <3>1 DEF FlowKept, Gone
  <2>2. CASE (SessionWaits(f) /\ g # f) \/ SessionOver(f)
    BY <1>1, <2>2 DEF SessionWaits, SessionOver
  <2>3. CASE SessionAdopted(f)
    BY <1>2, <2>3 DEF SessionAdopted
  <2> QED BY <1>8, <2>1, <2>2, <2>3, SessionFacts
<1> QED BY <1>3, <1>4, <1>5, <1>6, <1>7, <1>8 DEF FlowStep

LEMMA KeptTab ==
    ASSUME Typed, NEW t \in Tabs, TabStep(t)
    PROVE  AllKept
<1> DEFINE c == tab[t].conn
           fl == AbortedFlows(c)
<1> SUFFICES ASSUME NEW g \in Flows
             PROVE  FlowKept(g)
  BY DEF AllKept
<1>c. c \in Ids
  BY TabFields
<1>s. flow'[g] = flow[g] => FlowKept(g)
  BY FlowSame
<1>a. flow'[g] = fl[g] => FlowKept(g)
  BY <1>c, FlowAborted
<1> HIDE DEF fl
<1>o. GivenUp(flow[g], flow'[g]) => FlowKept(g)
  BY FlowEnds DEF GivenUp, Gone
<1>n. flow[g].kind = "none" /\ flow'[g].got = FALSE /\ flow'[g].kind # "chain" => FlowKept(g)
  BY DEF FlowKept
<1>1. ASSUME NEW replace \in BOOLEAN, Start(t, replace)
      PROVE  FlowKept(g)
  BY <1>a, <1>s, <1>1, StartFacts DEF Renews, LeavesFlows, fl
<1>2. CASE Minted(t)
  <2>1. /\ g # Next1 => flow'[g] = flow[g]
        /\ flow[Next1].kind = "none" /\ flow'[Next1].kind = "connect" /\ flow'[Next1].got = FALSE
    BY <1>2, MintedFacts
  <2> QED BY <1>n, <1>s, <2>1
<1>3. CASE MintFails(t)
  BY <1>a, <1>s, <1>3, MintFailsFacts DEF Renews, LeavesFlows, fl
<1>4. CASE Cancel(t)
  <2>1. \/ GivenUp(flow[g], flow'[g])
        \/ flow'[g] = flow[g]
        \/ g = c /\ flow'[g] = fl[c]
    BY <1>4, CancelFacts DEF fl
  <2> QED BY <1>a, <1>o, <1>s, <2>1
<1>5. CASE EnableStart(t)
  <2>1. /\ g # Next1 => flow'[g] = flow[g] \/ GivenUp(flow[g], flow'[g])
        /\ flow[Next1].kind = "none" /\ flow'[Next1].kind = "enable" /\ flow'[Next1].got = FALSE
    BY <1>5, EnableStartFacts
  <2> QED BY <1>n, <1>o, <1>s, <2>1
<1>6. CASE OutClear(t)
  BY <1>a, <1>6, OutClearFacts DEF fl
<1>7. ASSUME NEW page \in Ids, Loaded(t, page)
      PROVE  FlowKept(g)
  <2>1. \/ flow'[g] = flow[g]
        \/ flow'[g].kind = flow[g].kind /\ flow'[g].ch = flow[g].ch /\ flow'[g].got = FALSE
           /\ flow'[g].ph = "gone"
    BY <1>7, LoadedFacts
  <2> QED BY <1>s, <2>1, FlowEnds DEF Gone
<1>8. CASE JobStep(t) \/ SectionTimer(t) \/ (CallStep(t) /\ ~OutClear(t)) \/ CallbackAdopt(t)
  BY <1>s, <1>8, JobStart, CallStart DEF SectionTimer, CallbackAdopt
<1> QED BY <1>1, <1>2, <1>3, <1>4, <1>5, <1>6, <1>7, <1>8, StepCases, LoadCases DEF StartStep

(* Only a flow that is new brings a secret.                                  *)
LEMMA PendTab ==
    ASSUME Typed, NEW t \in Tabs, TabStep(t)
    PROVE  PendKept
<1>1. pend' \subseteq pend => PendKept
  BY DEF PendKept
<1>2. ASSUME NEW replace \in BOOLEAN, Start(t, replace)
      PROVE  PendKept
  BY <1>1, <1>2, StartFacts DEF Renews, LeavesFlows, Gave
<1>3. CASE Minted(t)
  BY <1>3, MintedFacts DEF PendKept, Old
<1>4. CASE MintFails(t) \/ Cancel(t)
  BY <1>1, <1>4, MintFailsFacts, CancelFacts DEF Renews, LeavesFlows, Gave
<1>5. CASE JobStep(t)
  <2>1. CASE ClearPending(t)
    BY <1>1, <2>1 DEF ClearPending
  <2>2. CASE ~ClearPending(t)
    BY <1>1, <1>5, <2>2 DEF JobStep, Acquire, Check, Bind, Persist, Compare, Pubky, Commit, TryPending,
                            Keys, RestOfKeys, ClearLocator, Provision
  <2> QED BY <2>1, <2>2
<1>6. CASE CallStep(t)
  <2>1. CASE OutClear(t)
    BY <1>1, <2>1 DEF OutClear
  <2>2. CASE ~OutClear(t)
    BY <1>1, <1>6, <2>2 DEF CallStep, RestoreStart, Resume, RestorePut, RestoreCompare, RestorePubky,
                            RestoreDone, OutStart, OutServer, OutWipe
  <2> QED BY <2>1, <2>2
<1>7. CASE EnableStart(t) \/ SectionTimer(t) \/ LoadStep(t)
  BY <1>1, <1>7, LoadCases, LoadedFacts DEF EnableStart, SectionTimer, CallbackAdopt
<1> QED BY <1>2, <1>3, <1>4, <1>5, <1>6, <1>7, StepCases DEF StartStep

LEMMA PendFlow ==
    ASSUME NEW f \in Flows, FlowStep(f)
    PROVE  pend' = pend
BY DEF FlowStep, RingApprove, RingPost, Locator, Payload, WatchFails, Session, Deadline

LEMMA OldKept ==
    ASSUME AllKept, NEW c, Old(flow, c)
    PROVE  Old(flow', c)
BY DEF AllKept, FlowKept, Old

LEMMA ChainsNext ==
    ASSUME Typed, Chains, AllKept
    PROVE  Chains'
<1> SUFFICES ASSUME NEW g \in Flows, flow'[g].kind # "none"
             PROVE  Old(flow', ChOf(flow'[g], g))
  BY DEF Chains
<1>1. CASE flow'[g].kind = "chain"
  <2>1. Old(flow, flow'[g].ch)
    BY <1>1 DEF AllKept, FlowKept, Chains, ChOf
  <2> QED BY <1>1, <2>1, OldKept DEF ChOf
<1>2. CASE flow'[g].kind # "chain"
  BY <1>2 DEF ChOf, Old
<1> QED BY <1>1, <1>2

(* An answer that is dropped stays so when nothing is granted since.         *)
LEMMA DroppedNext ==
    ASSUME Typed, Chains, AllKept, PendKept, NEW t \in Tabs, NEW g \in Flows, DroppedNow(t, g),
           srv'[g] = "granted" => srv[g] = "granted",
           out[t].pc \in {"server", "clear"} => out'[t].pc \in {"server", "clear"} \/ pend' = {}
    PROVE  DroppedThen(t, g)
<1>1. CASE flow[g].kind = "none"
  <2>1. srv[g] # "granted" /\ ~flow'[g].got
    BY <1>1 DEF Typed, AllKept, FlowKept
  <2> QED BY <2>1 DEF DroppedThen, Dropped
<1>2. CASE flow[g].kind # "none"
  <2>1. /\ flow'[g].kind = flow[g].kind /\ ChOf(flow'[g], g) = ChOf(flow[g], g)
        /\ Gone(flow[g]) => Gone(flow'[g])
        /\ flow'[g].got => flow[g].got \/ srv[g] = "granted"
    BY <1>2 DEF AllKept, FlowKept, ChOf
  <2>2. ChOf(flow[g], g) \notin pend => ChOf(flow[g], g) \notin pend'
    BY <1>2 DEF Chains, PendKept
  <2> QED BY <2>1, <2>2 DEF DroppedNow, DroppedThen, Dropped
<1> QED BY <1>1, <1>2

LEMMA RefusedNext ==
    ASSUME AllKept, PendKept, NEW t \in Tabs, Refused(job[t], out[t], pend, flow),
           job'[t] = job[t], out'[t] = out[t] \/ out[t] # NoCall
    PROVE  Refused(job'[t], out'[t], pend', flow')
BY OldKept DEF Refused, PendKept

LEMMA ReadsFlow ==
    ASSUME Typed, Reads, NEW f \in Flows, FlowStep(f)
    PROVE  Reads'
<1>1. UNCHANGED flow => Reads'
  BY DEF Reads
<1>2. ASSUME flow' = Ended(f)
      PROVE  Reads'
  <2>1. \A g \in Flows : flow'[g].ph = "done" \/ flow'[g] = flow[g]
    BY <1>2, EndedFacts DEF Over
  <2> QED BY <2>1 DEF Reads
<1>3. CASE RingApprove(f)
  BY <1>3, RingApproveFacts DEF Reads, SameFlow
<1>4. CASE \E l \in Locators : RingPost(f, l)
  BY <1>1, <1>4 DEF RingPost
<1>5. CASE Locator(f)
  BY <1>5, LocatorFacts DEF Reads
<1>6. CASE Payload(f)
  BY <1>2, <1>6, PayloadFacts DEF PayloadOld, PayloadWaits, PayloadAdopted, Reads, Over
<1>7. CASE WatchFails(f) \/ Deadline(f)
  BY <1>1, <1>2, <1>7, WatchFailsFacts, DeadlineFacts
<1>8. CASE Session(f)
  <2>1. CASE SessionOver(f) \/ SessionAdopted(f)
    BY <1>1, <1>2, <2>1 DEF SessionOver, SessionAdopted
  <2>2. CASE SessionWaits(f)
    <3>1. \A g \in Flows : flow'[g].kind = flow[g].kind /\ flow'[g].ph = flow[g].ph
      BY <2>2 DEF SessionWaits
    <3> QED BY <3>1 DEF Reads
  <2> QED BY <1>8, <2>1, <2>2, SessionFacts
<1> QED BY <1>3, <1>4, <1>5, <1>6, <1>7, <1>8 DEF FlowStep

LEMMA ReadsTab ==
    ASSUME Typed, Reads, NEW t \in Tabs, TabStep(t)
    PROVE  Reads'
<1> DEFINE c == tab[t].conn
           fl == AbortedFlows(c)
<1>1. UNCHANGED flow => Reads'
  BY DEF Reads
<1>2. \A g \in Flows : fl[g].ph = "reading" => fl[g].kind = "connect"
  <2>1. c \in Ids
    BY TabFields
  <2>2. /\ \A g \in Flows : g # c => fl[g] = flow[g]
        /\ c # 0 => fl[c].ph = "done"
    BY <2>1, AbortedFacts
  <2> HIDE DEF fl
  <2> QED BY <2>2, Numbers DEF Reads
<1>3. flow' = fl => Reads'
  BY <1>2 DEF Reads
<1>4. ASSUME NEW replace \in BOOLEAN, Start(t, replace)
      PROVE  Reads'
  BY <1>1, <1>3, <1>4, StartFacts DEF Renews, LeavesFlows
<1>5. CASE Minted(t)
  BY <1>5, MintedFacts DEF Reads
<1>6. CASE Cancel(t)
  <2>1. \A g \in Flows :
           \/ flow[g].kind = "chain" /\ GivenUp(flow[g], flow'[g])
           \/ g # c /\ flow'[g] = flow[g]
           \/ g = c /\ flow'[g] = fl[c]
    BY <1>6, CancelFacts
  <2> HIDE DEF fl
  <2> QED BY <1>2, <2>1 DEF Reads, GivenUp
<1>7. CASE EnableStart(t)
  BY <1>7, EnableStartFacts DEF Reads, GivenUp
<1>8. CASE OutClear(t)
  BY <1>3, <1>8, OutClearFacts
<1>9. ASSUME NEW page \in Ids, Loaded(t, page)
      PROVE  Reads'
  <2>1. \A g \in Flows : flow'[g].ph = "gone" \/ flow'[g] = flow[g]
    BY <1>9, LoadedFacts
  <2> QED BY <2>1 DEF Reads
<1>10. CASE JobStep(t) \/ SectionTimer(t) \/ (CallStep(t) /\ ~OutClear(t)) \/ CallbackAdopt(t)
  BY <1>1, <1>10, JobStart, CallStart DEF SectionTimer, CallbackAdopt
<1>11. CASE MintFails(t)
  BY <1>1, <1>3, <1>11, MintFailsFacts DEF Renews, LeavesFlows
<1> QED BY <1>4, <1>5, <1>6, <1>7, <1>8, <1>9, <1>10, <1>11, StepCases, LoadCases DEF StartStep

(* What nobody waits for is not adopted, or it will be refused.              *)
LEMMA QuietAdopts ==
    ASSUME Typed, Chains, NoOverlap, NEW f \in Flows, FlowStep(f), AllKept,
           DroppedNow(flow[f].tab, f), Refused(job[flow[f].tab], out[flow[f].tab], pend, flow)
    PROVE  Refused(job'[flow[f].tab], out'[flow[f].tab], pend', flow')
<1> DEFINE t == flow[f].tab
<1>1. t \in Tabs /\ UNCHANGED out /\ pend' = pend
  BY FlowTabs, PendFlow
<1>2. PendKept
  BY <1>1 DEF PendKept
<1>3. CASE UNCHANGED job
  BY <1>1, <1>2, <1>3, RefusedNext
<1>4. CanAdopt(t) => out[t] = NoCall /\ out[t].pc = "idle"
  BY FreshCalls DEF CanAdopt, NoOverlap
<1>5. ASSUME NEW via \in {"single", "legacy", "enable"}, NEW ch \in Ids, job' = Adopt(t, via, f, ch),
             CanAdopt(t), via # "enable", ch \notin pend, Old(flow, ch)
      PROVE  Refused(job'[t], out'[t], pend', flow')
  <2>1. job'[t].via = via /\ job'[t].ch = ch /\ job'[t].pc = "acquire"
    BY <1>1, <1>5, AdoptFacts, Numbers
  <2>2. Old(flow', ch)
    BY <1>5, OldKept
  <2> QED BY <1>1, <1>4, <1>5, <2>1, <2>2 DEF Refused
<1>6. CASE Payload(f) /\ PayloadAdopted(f)
  <2>1. /\ flow[f].kind = "connect" /\ flow[f].got /\ CanAdopt(t) /\ f \in Ids
        /\ job' = Adopt(t, "single", f, f)
    BY <1>6, PayloadFacts, Numbers DEF PayloadAdopted
  <2>2. f \notin pend /\ Old(flow, f)
    BY <1>4, <2>1 DEF DroppedNow, Dropped, ChOf, Old
  <2> QED BY <1>5, <2>1, <2>2
<1>7. CASE Session(f) /\ SessionAdopted(f)
  <2>1. PICK via \in {"single", "legacy", "enable"}, ch \in Ids :
          /\ job' = Adopt(t, via, f, ch)
          /\ flow[f].kind # "enable" => via # "enable" /\ ch = ChOf(flow[f], f)
    BY <1>7 DEF SessionAdopted
  <2>2. srv[f] = "granted" /\ ~Gone(flow[f]) /\ CanAdopt(t) /\ flow[f].kind # "none"
    BY <1>7, SessionFacts DEF SessionAdopted, Gone
  <2>3. flow[f].kind # "enable" /\ ChOf(flow[f], f) \notin pend
    BY <1>4, <2>2 DEF DroppedNow, Dropped
  <2>4. Old(flow, ChOf(flow[f], f))
    BY <2>2 DEF Chains
  <2> QED BY <1>5, <2>1, <2>2, <2>3, <2>4
<1>8. CASE Payload(f) /\ ~PayloadAdopted(f)
  BY <1>3, <1>8, PayloadFacts DEF PayloadOld, PayloadWaits
<1>9. CASE Session(f) /\ ~SessionAdopted(f)
  BY <1>3, <1>9, SessionFacts DEF SessionOver, SessionWaits
<1>10. CASE RingApprove(f) \/ (\E l \in Locators : RingPost(f, l)) \/ Locator(f) \/ WatchFails(f) \/ Deadline(f)
  BY <1>3, <1>10 DEF RingApprove, RingPost, Locator, WatchFails, Deadline
<1> QED BY <1>6, <1>7, <1>8, <1>9, <1>10 DEF FlowStep

LEMMA QuietFlowStep ==
    ASSUME Typed, QuietInv, OneTab, NoOverlap, NEW f \in Flows, FlowStep(f)
    PROVE  QuietInv'
<1> DEFINE t == flow[f].tab
<1>1. /\ t \in Tabs /\ SameSession(tab[t], tab'[t]) /\ UNCHANGED <<disk, rest, out>>
  BY FlowTabs
<1>2. Reads' /\ AllKept /\ pend' = pend /\ Reads /\ Chains
  BY ReadsFlow, KeptFlow, PendFlow DEF QuietInv
<1>3. Chains' /\ PendKept
  BY <1>2, ChainsNext DEF PendKept
<1>4. ghost'.quiet = "alone" => ghost.quiet = "alone" /\ ~RingApprove(f)
  <2>1. RingApprove(f) => ghost'.quiet = "no"
    BY RingApproveFacts
  <2>2. CASE Locator(f)
    <3>1. ghost'.quiet = ghost.quiet
      BY <2>2, LocatorFacts
    <3> QED BY <2>1, <3>1
  <2>3. CASE Deadline(f)
    <3>1. ghost'.quiet = ghost.quiet
      BY <2>3, DeadlineFacts DEF Gave, SamePast
    <3> QED BY <2>1, <3>1
  <2>4. CASE (\E l \in Locators : RingPost(f, l)) \/ Payload(f) \/ WatchFails(f) \/ Session(f)
    BY <2>1, <2>4 DEF RingPost, Payload, WatchFails, Session
  <2> QED BY <2>1, <2>2, <2>3, <2>4 DEF FlowStep
<1>5. ASSUME ghost'.quiet = "alone", NEW u \in Tabs
      PROVE  QuietThen(u) /\ \A g \in Flows : DroppedThen(u, g)
  <2>1. u = t
    BY <1>1 DEF OneTab
  <2>2. QuietTab(t) /\ \A g \in Flows : DroppedNow(t, g)
    BY <1>1, <1>4, <1>5 DEF QuietInv
  <2>3. Refused(job'[t], out'[t], pend', flow')
    BY <1>2, <2>2, QuietAdopts DEF QuietTab
  <2>4. QuietOK(rest'[t], out'[t], tab'[t], disk')
    BY <1>1, <2>2 DEF QuietTab, QuietOK, SameSession
  <2>5. ASSUME NEW g \in Flows
        PROVE  DroppedThen(t, g)
    <3>1. srv'[g] = "granted" => srv[g] = "granted"
      BY <1>4, <1>5, SrvFlow
    <3> QED BY <1>1, <1>2, <1>3, <2>2, <3>1, DroppedNext
  <2> QED BY <2>1, <2>3, <2>4, <2>5 DEF QuietThen
<1> QED BY <1>1, <1>2, <1>3, <1>5 DEF QuietInv, QuietTab, QuietThen, DroppedNow, DroppedThen

(* Only a sign-out that begins makes the browser quiet, and only a page load *)
(* that ends no sign-out keeps it so.                                        *)
LEMMA QuietGhost ==
    ASSUME Typed, NEW t \in Tabs, TabStep(t), ~OutStart(t), ghost'.quiet = "alone"
    PROVE  ghost.quiet = "alone"
<1>1. CASE StartStep(t)
  <2>1. ASSUME NEW replace \in BOOLEAN, Start(t, replace)
        PROVE  ghost'.quiet = ghost.quiet
    BY <2>1, StartFacts DEF Renews, LeavesFlows, Gave, SamePast
  <2>2. CASE Minted(t) \/ MintFails(t) \/ Cancel(t) \/ EnableStart(t)
    BY <2>2, MintedFacts, MintFailsFacts, CancelFacts DEF Renews, LeavesFlows, EnableStart, Gave, SamePast
  <2> QED BY <1>1, <2>1, <2>2 DEF StartStep
<1>2. CASE JobStep(t)
  <2>1. CASE Bind(t)
    BY <2>1, BindFacts DEF Binds, BindRefuses
  <2>2. CASE RestOfKeys(t)
    <3>1. ghost' = [ghost EXCEPT !.owed = {}]
      BY <2>2 DEF RestOfKeys
    <3> QED BY <3>1 DEF Typed, GhostT
  <2>3. CASE Acquire(t) \/ Check(t) \/ Persist(t) \/ Compare(t) \/ Pubky(t) \/ Commit(t) \/ TryPending(t)
             \/ Keys(t) \/ ClearPending(t) \/ ClearLocator(t) \/ Provision(t)
    BY <2>3 DEF Acquire, Check, Persist, Compare, Pubky, Commit, TryPending, Keys, ClearPending,
                ClearLocator, Provision
  <2> QED BY <1>2, <2>1, <2>2, <2>3 DEF JobStep
<1>3. CASE CallStep(t)
  <2>1. CASE Resume(t)
    BY <2>1, ResumeFacts DEF Finds, GivesUp
  <2>2. CASE OutServer(t) \/ OutClear(t) \/ OutWipe(t)
    BY <2>2, OutServerFacts, OutClearFacts, OutWipeFacts
  <2>3. CASE RestoreStart(t) \/ RestorePut(t) \/ RestoreCompare(t) \/ RestorePubky(t) \/ RestoreDone(t)
    BY <2>3 DEF RestoreStart, RestorePut, RestoreCompare, RestorePubky, RestoreDone
  <2> QED BY <1>3, <2>1, <2>2, <2>3 DEF CallStep
<1>4. CASE SectionTimer(t) \/ CallbackAdopt(t)
  BY <1>4 DEF SectionTimer, CallbackAdopt
<1>5. ASSUME NEW page \in Ids, Loaded(t, page)
      PROVE  ghost.quiet = "alone"
  BY <1>5, LoadedFacts
<1> QED BY <1>1, <1>2, <1>3, <1>4, <1>5, StepCases, LoadCases

(* A flow that is there is one of the tab.                                   *)
LEMMA FlowOfTab ==
    ASSUME Typed, OneTab, NEW t \in Tabs, NEW g \in Flows, flow[g].kind # "none"
    PROVE  flow[g].tab = t
BY DEF Typed, OneTab

LEMMA DroppedTab ==
    ASSUME Typed, Chains, NEW t \in Tabs, TabStep(t), ~OutStart(t), ghost'.quiet = "alone",
           NEW g \in Flows, DroppedNow(t, g)
    PROVE  DroppedThen(t, g)
<1>1. AllKept /\ PendKept
  BY KeptTab, PendTab
<1>2. srv'[g] = "granted" => srv[g] = "granted"
  BY SrvTab
<1>3. out[t].pc \in {"server", "clear"} => out'[t].pc \in {"server", "clear"} \/ pend' = {}
  <2>1. CASE StartStep(t) \/ JobStep(t) \/ SectionTimer(t) \/ CallbackAdopt(t)
    <3>1. UNCHANGED out
      BY <2>1, StartLogin, JobStart DEF SectionTimer, CallbackAdopt
    <3> QED BY <3>1
  <2>2. CASE CallStep(t)
    <3>1. CASE OutServer(t) \/ OutClear(t) \/ OutWipe(t)
      BY <3>1, OutServerFacts, OutClearFacts, OutWipeFacts
    <3>2. CASE RestoreStart(t) \/ Resume(t) \/ RestorePut(t) \/ RestoreCompare(t) \/ RestorePubky(t) \/ RestoreDone(t)
      <4>1. UNCHANGED out
        BY <3>2 DEF RestoreStart, Resume, RestorePut, RestoreCompare, RestorePubky, RestoreDone
      <4> QED BY <4>1
    <3> QED BY <2>2, <3>1, <3>2 DEF CallStep
  <2>3. ASSUME NEW page \in Ids, Loaded(t, page)
        PROVE  out[t].pc = "idle"
    BY <2>3, LoadedFacts, FreshCalls
  <2> QED BY <2>1, <2>2, <2>3, StepCases, LoadCases
<1> QED BY <1>1, <1>2, <1>3, DroppedNext

(* A sign-out begins with nobody waiting for an answer but by a handoff that *)
(* the sign-out will clear.                                                  *)
LEMMA DroppedOut ==
    ASSUME Typed, Reads, OneTab, NEW t \in Tabs, OutStart(t), ghost'.quiet = "alone", NEW g \in Flows
    PROVE  DroppedThen(t, g)
<1>1. UNCHANGED <<flow, srv>> /\ out'[t].pc = "server" /\ Awaited(t) = {}
  BY OutStartFacts DEF OutStart, Undisturbed
<1>2. ASSUME flow[g].kind = "enable"
      PROVE  Gone(flow[g])
  <2>1. flow[g].tab = t /\ flow[g].ph \in Phases /\ flow[g].ph # "reading"
    BY <1>2, FlowOfTab DEF Typed, FlowT, Reads
  <2>2. g \notin Awaited(t)
    BY <1>1
  <2> QED BY <1>2, <2>1, <2>2 DEF Awaited, Gone, Phases
<1> QED BY <1>1, <1>2 DEF DroppedThen, Dropped

LEMMA QuietCall ==
    ASSUME Typed, LoneInv, NoOverlap, NEW t \in Tabs, CallStep(t), ghost'.quiet = "alone",
           QuietTab(t) \/ OutStart(t)
    PROVE  QuietThen(t)
<1>0. /\ UNCHANGED job /\ tab[t].epoch \in Nat /\ LoneOK(job[t], rest[t], out[t], tab[t]) /\ rest[t].e \in Nat
      /\ AllKept /\ PendKept
  BY CallStart, TabFields, JobFields, KeptTab, PendTab DEF LoneInv, TabStep, CallStep
<1>1. CASE OutStart(t)
  <2>0. Undisturbed(t) /\ out'[t].pc = "server"
    BY <1>1, OutStartFacts
  <2>1. /\ UNCHANGED <<disk, rest>> /\ job[t] = NoJob
        /\ rest[t].pc \in {"idle", "open", "compare"}
    BY <1>1, <2>0 DEF OutStart, Undisturbed
  <2>4. tab'[t].live = 0 /\ tab'[t].epoch = tab[t].epoch + 1
    BY <1>1, OutStartFacts DEF Login
  <2>2. out'[t] # NoCall /\ job'[t].pc = "idle"
    BY <1>0, <2>0, <2>1, FreshCalls
  <2>3. rest[t].e # tab[t].epoch + 1
    BY <1>0 DEF LoneOK
  <2> QED BY <2>0, <2>1, <2>2, <2>3, <2>4 DEF QuietThen, QuietOK, Refused
<1> SUFFICES ASSUME QuietTab(t), ~OutStart(t)
             PROVE  QuietOK(rest'[t], out'[t], tab'[t], disk')
  <2> SUFFICES ASSUME ~OutStart(t)
               PROVE  QuietThen(t)
    BY <1>1
  <2>1. out'[t] = out[t] \/ out[t] # NoCall
    <3>1. CASE OutServer(t) \/ OutClear(t) \/ OutWipe(t)
      <4>1. out[t].pc # "idle"
        BY <3>1 DEF OutServer, OutClear, OutWipe
      <4> QED BY <4>1, FreshCalls
    <3>2. CASE RestoreStart(t) \/ Resume(t) \/ RestorePut(t) \/ RestoreCompare(t) \/ RestorePubky(t) \/ RestoreDone(t)
      BY <3>2 DEF RestoreStart, Resume, RestorePut, RestoreCompare, RestorePubky, RestoreDone
    <3> QED BY <3>1, <3>2 DEF CallStep
  <2> QED BY <1>0, <2>1, RefusedNext DEF QuietTab, QuietThen
<1>2. CASE RestoreStart(t)
  <2>1. disk.meta # 0 /\ out[t] = NoCall
    BY <1>2, RestoreStartFacts DEF NoOverlap
  <2> QED BY <2>1 DEF QuietTab, QuietOK
<1>3. CASE Resume(t)
  BY <1>3, ResumeFacts DEF QuietTab, QuietOK
<1>4. CASE RestorePut(t)
  <2>1. UNCHANGED <<tab, out>> /\ rest[t].pc = "open" /\ rest'[t].pc = "compare" /\ rest'[t].e = rest[t].e
    BY <1>4, RestorePutFacts DEF RestorePut
  <2>2. rest[t].e # tab[t].epoch
    BY <2>1 DEF QuietTab, QuietOK
  <2>3. disk'.pubky = disk.pubky /\ disk'.meta = disk.meta
    BY <1>4, <2>2, RestorePutFacts DEF Disk
  <2> QED BY <2>1, <2>2, <2>3 DEF QuietTab, QuietOK
<1>5. CASE RestoreCompare(t)
  <2>1. UNCHANGED out /\ rest[t].pc = "compare"
    BY <1>5, RestoreCompareFacts DEF RestoreCompare
  <2>2. rest[t].e # tab[t].epoch
    BY <2>1 DEF QuietTab, QuietOK
  <2>3. /\ disk'.pubky = disk.pubky /\ disk'.meta = 0 /\ rest'[t].pc = "idle"
        /\ tab'[t].auth = tab[t].auth
    BY <1>5, <2>2, RestoreCompareFacts, RestOverFacts, FreshCalls DEF Disk, Drops, Login
  <2>4. tab'[t].live = (IF tab[t].live = rest[t].s THEN 0 ELSE tab[t].live)
    BY <1>5, <2>2, RestoreCompareFacts DEF Drops, Login
  <2> QED BY <2>1, <2>3, <2>4 DEF QuietTab, QuietOK
<1>6. CASE RestorePubky(t) \/ RestoreDone(t)
  BY <1>6, RestorePubkyFacts, RestoreDoneFacts DEF QuietTab, QuietOK
<1>7. CASE OutServer(t)
  <2>1. UNCHANGED <<disk, tab, rest>> /\ out'[t].pc = "clear"
    BY <1>7, OutServerFacts DEF OutServer
  <2>2. out'[t] # NoCall
    BY <2>1, FreshCalls
  <2> QED BY <2>1, <2>2 DEF QuietTab, QuietOK
<1>8. CASE OutClear(t)
  <2>1. UNCHANGED rest /\ out'[t].pc = "wipe" /\ disk'.pubky = FALSE
    BY <1>8, OutClearFacts DEF OutClear, Disk
  <2>2. tab'[t].live = tab[t].live /\ tab'[t].epoch = tab[t].epoch
    BY <1>8, OutClearFacts DEF SameLogin
  <2>3. out'[t] # NoCall
    BY <2>1, FreshCalls
  <2> QED BY <2>1, <2>2, <2>3 DEF QuietTab, QuietOK
<1>9. CASE OutWipe(t)
  <2>1. /\ UNCHANGED rest /\ out[t].pc = "wipe" /\ out'[t].pc = "idle"
        /\ disk'.pubky = disk.pubky /\ disk'.meta = 0
    BY <1>9, OutWipeFacts, FreshCalls DEF OutWipe, Disk
  <2>2. tab'[t].live = tab[t].live /\ tab'[t].epoch = tab[t].epoch + 1 /\ tab'[t].auth = FALSE
    BY <1>9, OutWipeFacts DEF Login
  <2>3. rest[t].e # tab[t].epoch + 1
    BY <1>0 DEF LoneOK
  <2> QED BY <2>1, <2>2, <2>3 DEF QuietTab, QuietOK
<1> QED BY <1>2, <1>3, <1>4, <1>5, <1>6, <1>7, <1>8, <1>9 DEF CallStep

(* An adoption that comes to check its handoff finds it gone.                *)
LEMMA QuietJob ==
    ASSUME Typed, LoneInv, NEW t \in Tabs, JobStep(t), QuietTab(t)
    PROVE  QuietThen(t)
<1>0. UNCHANGED <<flow, rest, out>> /\ job[t].pc # "idle"
  BY JobStart DEF JobStep, Acquire, Check, Bind, Persist, Compare, Pubky, Commit, TryPending, Keys,
                  RestOfKeys, ClearPending, ClearLocator, Provision
<1>1. /\ job[t].pc \in {"acquire", "check"} /\ job[t].via # "enable" /\ out[t] = NoCall
      /\ job[t].ch \notin pend /\ Old(flow, job[t].ch)
  BY <1>0 DEF QuietTab, Refused
<1>2. rest[t].pc = "idle"
  BY <1>0, FreshCalls DEF LoneInv, LoneOK
<1>3. CASE Acquire(t)
  <2>1. /\ UNCHANGED <<disk, pend>>
        /\ tab'[t].live = tab[t].live /\ tab'[t].auth = tab[t].auth
        /\ \/ job'[t].pc = "check" /\ job'[t].via = job[t].via /\ job'[t].ch = job[t].ch
           \/ job'[t].pc = "idle"
    BY <1>1, <1>3, AcquireFacts, JobOverFacts, FreshCalls DEF Acquire, Login
  <2> QED BY <1>0, <1>1, <1>2, <2>1 DEF QuietTab, QuietThen, QuietOK, Refused
<1>4. CASE Check(t)
  <2>1. ~Live(job[t].ch)
    BY <1>1 DEF Live
  <2>2. /\ tab'[t].live = tab[t].live /\ (tab'[t].auth => tab[t].auth) /\ disk'.pubky = disk.pubky
        /\ disk'.meta \in {0, disk.meta} /\ job'[t].pc = "idle"
    BY <1>4, <2>1, CheckFacts, JobOverFacts, FreshCalls DEF CheckRefuses, Login, Disk
  <2> QED BY <1>0, <1>1, <1>2, <2>2 DEF QuietTab, QuietThen, QuietOK, Refused
<1>5. Acquire(t) \/ Check(t)
  BY <1>1 DEF JobStep, Bind, Persist, Compare, Pubky, Commit, TryPending, Keys, RestOfKeys, ClearPending,
              ClearLocator, Provision
<1> QED BY <1>3, <1>4, <1>5

LEMMA QuietTabStep ==
    ASSUME Typed, LoneInv, QuietInv, OneTab, NoOverlap, NEW t \in Tabs, TabStep(t)
    PROVE  QuietInv'
<1>1. Reads' /\ Chains' /\ AllKept /\ PendKept /\ Reads /\ Chains
  BY ReadsTab, KeptTab, PendTab, ChainsNext DEF QuietInv
<1>2. ASSUME ghost'.quiet = "alone", NEW u \in Tabs
      PROVE  QuietThen(u) /\ \A g \in Flows : DroppedThen(u, g)
  <2>1. u = t
    BY DEF OneTab
  <2>2. CASE OutStart(t)
    <3>1. QuietThen(t)
      BY <1>2, <2>2, QuietCall DEF CallStep
    <3>2. \A g \in Flows : DroppedThen(t, g)
      BY <1>1, <1>2, <2>2, DroppedOut
    <3> QED BY <2>1, <3>1, <3>2
  <2>3. CASE ~OutStart(t)
    <3>1. QuietTab(t) /\ \A g \in Flows : DroppedNow(t, g)
      BY <1>2, <2>3, QuietGhost DEF QuietInv
    <3>2. \A g \in Flows : DroppedThen(t, g)
      BY <1>1, <1>2, <2>3, <3>1, DroppedTab
    <3>3. QuietThen(t)
      <4>3. ASSUME UNCHANGED <<disk, job, rest, out>>, tab'[t].live = tab[t].live,
                   tab'[t].epoch = tab[t].epoch, tab'[t].auth = tab[t].auth
            PROVE  QuietThen(t)
        <5>1. Refused(job'[t], out'[t], pend', flow')
          BY <1>1, <3>1, <4>3, RefusedNext DEF QuietTab
        <5>2. QuietOK(rest'[t], out'[t], tab'[t], disk')
          BY <3>1, <4>3 DEF QuietTab, QuietOK
        <5> QED BY <5>1, <5>2 DEF QuietThen
      <4>4. CASE StartStep(t)
        <5>1. tab'[t].live = tab[t].live /\ tab'[t].epoch = tab[t].epoch /\ tab'[t].auth = tab[t].auth
          BY <4>4, StartLogin DEF SameLogin
        <5> QED BY <4>3, <4>4, <5>1, StartLogin
      <4>5. CASE SectionTimer(t)
        <5>1. UNCHANGED <<disk, job, rest, out>>
          BY <4>5 DEF SectionTimer
        <5>2. tab'[t].live = tab[t].live /\ tab'[t].epoch = tab[t].epoch /\ tab'[t].auth = tab[t].auth
          BY <4>5, SectionTimerFacts DEF Login
        <5> QED BY <4>3, <5>1, <5>2
      <4>6. CASE CallStep(t)
        BY <1>2, <3>1, <4>6, QuietCall
      <4>7. CASE CallbackAdopt(t)
        BY <3>1, <4>7, CallbackAdoptFacts DEF QuietTab, QuietOK
      <4>8. ASSUME NEW page \in Ids, Loaded(t, page)
            PROVE  QuietThen(t)
        <5>1. out[t] = NoCall /\ UNCHANGED disk /\ (tab'[t].auth => disk.pubky)
          BY <1>2, <4>8, LoadedFacts
        <5>2. /\ job'[t].pc = "idle" /\ tab'[t].live = 0 /\ rest'[t].pc = "idle" /\ out'[t].pc = "idle"
          BY <4>8, LoadedFacts, FreshCalls
        <5> QED BY <3>1, <5>1, <5>2 DEF QuietTab, QuietThen, QuietOK, Refused
      <4>9. CASE JobStep(t)
        BY <3>1, <4>9, QuietJob
      <4> QED BY <4>4, <4>5, <4>6, <4>7, <4>8, <4>9, <2>3, StepCases, LoadCases
    <3> QED BY <2>1, <3>2, <3>3
  <2> QED BY <2>2, <2>3
<1> QED BY <1>1, <1>2 DEF QuietInv, QuietTab, QuietThen, DroppedNow, DroppedThen

LEMMA QuietStep ==
    ASSUME Typed, LoneInv, QuietInv, OneTab, NoOverlap, [SiNext]_siVars
    PROVE  QuietInv'
<1>1. CASE SiNext
  BY <1>1, QuietFlowStep, QuietTabStep DEF SiNext
<1>2. CASE UNCHANGED siVars
  BY <1>2 DEF siVars, QuietInv, QuietTab, DroppedNow, Reads, Chains
<1> QED BY <1>1, <1>2

LEMMA QuietInit ==
    ASSUME SiInit
    PROVE  QuietInv
<1>1. ghost.quiet = "no" /\ \A f \in Flows : flow[f].ph = "done" /\ flow[f].kind = "none"
  BY FreshFlow DEF SiInit
<1> QED BY <1>1 DEF QuietInv, Reads, Chains

(* A tab that is alone and does one thing at a time, and whose sign-out      *)
(* begins beside no adoption, no approval awaited on the Enable page and no  *)
(* restore but one about to record its session: from then on, until Ring     *)
(* approves something new, every answer of Ring is refused or given back and *)
(* nothing is adopted, restored or recorded.                                 *)
THEOREM NothingComesBack ==
    OneTab /\ NoOverlap => (SiSpec => [](Typed /\ LoneInv /\ QuietInv))
<1> SUFFICES ASSUME OneTab, NoOverlap
             PROVE  SiSpec => [](Typed /\ LoneInv /\ QuietInv)
  OBVIOUS
<1>1. SiInit => Typed /\ LoneInv /\ QuietInv
  BY TypedInit, LoneInit, QuietInit
<1>2. Typed /\ LoneInv /\ QuietInv /\ [SiNext]_siVars => (Typed /\ LoneInv /\ QuietInv)'
  BY TypedStep, LoneStep, QuietStep
<1> QED BY <1>1, <1>2, PTL DEF SiSpec

(* After such a sign-out of a tab that is alone the browser keeps no session *)
(* and no identity until something approved since it began is adopted.       *)
THEOREM SignedOutForGood == OneTab /\ NoOverlap => (SiSpec => []SignedOutStays)
<1> SUFFICES ASSUME OneTab, NoOverlap
             PROVE  SiSpec => []SignedOutStays
  OBVIOUS
<1>1. ASSUME Typed, QuietInv
      PROVE  SignedOutStays
  <2> SUFFICES ASSUME ghost.quiet = "alone", \A t \in Tabs : out[t] = NoCall
               PROVE  disk.meta = 0 /\ ~disk.pubky
    BY DEF SignedOutStays, NothingKept
  <2>1. PICK t \in Tabs : QuietTab(t)
    BY <1>1 DEF QuietInv
  <2> QED BY <2>1 DEF QuietTab, QuietOK
<1> QED BY <1>1, NothingComesBack, PTL
=============================================================================
