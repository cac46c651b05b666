# Hypercolor (web): a TLA+ verification project

Hypercolor (web) is a static client for encrypted links: two Pubky users share a Noise
session (through the `paykit` wasm library), write each message at the position
(nonce) the session has reached to a slot of a homeserver, and read the peer's slots
in order.  There is no server of its own: everything the program promises is kept by
TypeScript running in browser tabs over a SQLite database whose image is stored in
IndexedDB.

The hard part of the program is its outbound path.  A put whose answer is lost may
have written its slot although the ratchet did not advance.  The next plaintext would
take the same nonce (key stream re-use) and the same slot (the first message is lost).
`docs/DECISIONS.md` records six rounds of design around that one fact: retry first,
oldest first, park but never remove, heal under the mutex.  That path is modelled and
proved in most detail; the modules around it cover the election of the writing tab and
its image, the hand-shake of a link, the receiver role of several devices, the inbound
half, the group fan-out, group membership and history, and signing in and out.

Contents: 1 inventory, 2 modules, 3 how they correspond to the code, 4 the runs,
5 bounds and fairness, 6 proofs, 7 where code and documents disagree, 8 what is not
modelled, 9 what is next.

## 1. Inventory

| Component (source) | State it keeps | Operations | Interacts with |
|---|---|---|---|
| **Outbound path of a link** (`services/link/LinkService.ts`, `services/RetryQueue.ts`) | per peer: the mutex chain `queues`, `liveHandles`; `drainItemClaims`, `drainPassChain`; rows of `delivery_queue` | send (`dispatchPreparedDm`), attempt of a persisted send, drain, recover, heal (`reconcileLostOwedDeliveries`), unsend, reset, control messages | store, wasm bridge, group fan-out, inbound (receipts) |
| **Message store** (`services/StorageService.ts`) | `link_messages`, `group_messages`, `delivery_queue`, `links`, streams, requests, rosters | intent, finalize, receipt, tombstone, reset, backup import: one transaction each | database image |
| **Database image** (`db/openWebSqlite.ts`) | the IndexedDB image with a generation and a nonce | `persistNow` (asynchronous put), hydrate, seal, stale-put guard | tab lock |
| **Writer election** (`services/tabLock.ts`, `db/index.ts`) | mode, `yielding`, the critical section with its timer, abort controllers | acquire, take over (steal), yield, enter and exit critical section, guard of mutations | every writer |
| **Handshake, re-key, recovery** (`LinkService.ts` 1024-2271) | link row state, pending re-keys, park windows, budgets | initiate, accept, adopt, commit, restore, retire, reset | outbound path (its outcome), inbound |
| **Inbound stream** (`LinkService.ts`, `services/chat/applyChatInbound.ts`) | stream rows, request, wipe journal, pending tags | gate, receive, store before the snapshot, route, accept, decline, receipts | outbound path, key store |
| **Receiver role** (`services/link/provisionReceiver.ts`, `chatKindsAdvertisement.ts`) | secret, row and retry of a device; marker and capability document at the homeserver | provision, heal, take over, sync the role, retry, sign out | key store, session |
| **Group fan-out** (`services/group/GroupService.ts`) | one group row, one upload record, one queue item per recipient | persist and send per recipient, settle, park | outbound path |
| **Group membership and history** (`GroupService.ts`, `applyGroupInbound.ts`) | a roster, rows, seen and deferred events on each device | create, add, remove, leave, post, react, edit, delete, handle, replay | group fan-out, inbound |
| **Approval with Ring, session** (`RingConnect.ts`, `singleApproval.ts`, `session.ts`) | flows, channels, adoption nonce, session record, cookie | start, resolve, cancel, adopt, take back, restore, sign out | key store, tab lock |
| **Key store** (`KeyStore.ts`) | wrapped keys, journal of wipes | set, delete, recover | session, inbound |
| **Wasm bridge** (`PaykitLinkWeb.ts`) | `withLinkOp` flags | send, receive, snapshot | outbound path |
| Payments, attachments, backup, discovery, UI | rows, files, caches | see section 8 | store |

What is hard, and what makes each component correct:

- **Outbound path**: mutual exclusion is per peer, but passes list items before they
  wait for the mutex, deliveries nest inside deliveries, a claim can be stolen after
  60 s, control messages bypass the mutex, and answers get lost.  Correct means: one
  plaintext per nonce, oldest first, nothing dropped unsent, nothing settled sent
  again, and everything eventually sent.
- **Message store**: the atomicity of its transactions.  Correct means: a `sending` row
  has a queue item, in memory and in the image; row, item and snapshot change together.
- **Database image**: the put is not awaited.  Correct means: the image is one commit,
  and a former writer never overwrites a newer image.
- **Writer election**: steals, crashes, a 30 s critical-section timer.  Correct means: at
  most one tab persists, and a tab that asks for the role eventually gets it.
- **Handshake**: two sides may start at once; re-keys are adopted in mid-conversation.
  Correct means: both sides end on one session, an established one is not given up for
  one that never comes to be, and automatic calls do not loop.
- **Inbound**: the wasm stream advances before the row is applied.  Correct means: what
  the ratchet will not give again is stored, a stranger is not shown, and what was
  unsent or declined is gone, wherever the page is reloaded.
- **Receiver role**: one marker for several devices, and a PUT may land after its
  budget.  Correct means: the published key has its secret, and only a takeover
  replaces another device's marker.
- **Group fan-out**: one row for many recipients.  Correct means: each member is sent a
  message once, and the one status settles to what happened.
- **Group room**: no server and no shared log.  Correct means: rosters and histories agree
  once everything is handled.
- **Sign-in**: answers come after the user gave up; an adoption writes two stores one
  await at a time.  Correct means: no session left open, keys within reach, and a
  sign-out is final.

`PROJECT.json` lists the hazards of this code, each at its line, with the properties that
would catch it.  One has none: two items stamped in the same millisecond.

## 2. Modules

| Module | Role |
|---|---|
| `SendPath` | the outbound path of one link: store, mutex, claims, drain, send, controls, unsend, receipts, backup, heal, reset, image, restarts |
| `Outbox` | the promise: writes are accepted in an order and the peer reads that order |
| `SendPathOutbox` | the refinement mapping from `SendPath` to `Outbox` |
| `TabLock` | the election of the writer among the tabs of one owner |
| `TabStore` | `TabLock` composed with the database of each tab and the image they share |
| `Handshake` | the two ends of a link: markers, msg1 to msg3, re-keys, budgets, resets |
| `Receiver` | the devices of an identity and its one published marker |
| `Inbound` | the inbound half of a link to one peer, with its message request |
| `GroupSend` | the fan-out of a group message at its sender |
| `GroupRoom` | a group on all devices: rosters, histories, deferred events |
| `SignIn` | flows, channels, adoption, restore and sign-out over sessions and keys |
| `MC...` | instances for TLC: model values, scripts of a peer, bounds |
| `SendPathProofs` | types and what holds of `SendPath` on every path, under every fault; then the inductive invariant `IInv` of the serialized paths and, from it, `NonceOnce`, what a step never does, and the homeserver's slots |
| `SendPathRefinement` | `SendPath` implements `Outbox`, step by step, and what `Outbox` promises |
| `TabStoreProofs` | who holds the lock writes alone, no put takes a row away, a section is not interrupted |
| `HandshakeProofs`, `GroupSendProofs`, `ReceiverProofs`, `InboundProofs`, `SignInProofs` | the theorems about these five |

## 3. How the modules correspond to the code

`PROJECT.json` ("map") names the lines of every definition.  Common to all modules: JavaScript
runs without interruption between two awaits, so an action is what runs between two awaits at
which something else may come in; a transaction of `StorageService` is atomic; a reload keeps
the database and the key store and loses what is in memory; messages, keys and devices are
model values or numbers, and wording, encodings and logging are left out.

### `SendPath`

| Variable | Code |
|---|---|
| `row` | `delivery_state` of `link_messages` / `group_messages` (`none`: no row yet) |
| `queue`, `stamp`, `attempts` | `delivery_queue`: which messages have an item, `created_at`, `attempts` |
| `snap` | `links.snapshot`, as the position `<<epoch, nonce>>` it holds; `NoPos`: no link row |
| `disk` | the database image IndexedDB holds |
| `live` | `liveHandles`: the position of the wasm handle; `NoPos`: none |
| `stack` | who is inside `withQueue(peer)`, with the deliveries nested by `drainOwedSamePeerWritesLocked` on top |
| `claims`, `waiting` | `drainItemClaims`, and the claimed deliveries waiting for the mutex |
| `pending`, `healing` | operations between two awaits: fan-outs stamped or persisted but not attempted, heals that listed a row |
| `ctl` | `dispatchPersistedControlPam` runs, outside the mutex |
| `hs`, `wrote` | the homeserver slots; and, as history, every plaintext encrypted at each position |
| `aged` | items older than `RetryQueue.MAX_AGE_MS` |

A frame of `stack` is `[k, m, ph, todo, pos]`: the kind of delivery (`send`, `attempt`
of a fan-out, `deliver` from the queue, `direct` control under the mutex, `reset`), its
message, its phase between two awaits, the older items still to deliver, and the
position of the handle it captured.

Actions follow the handlers: `SendStart`/`SendEnsure`/`SendPersist`/`Rescan` are
`dispatchPreparedDm`; `FanoutStamp`/`FanoutInsert`/`FanoutPersist`/`AttemptStart` are the
fan-out and `sendPersistedLinkJson`; `Claim`/`DeliverStart` are `deliverQueuedPayload`;
`DrainOlder`/`DrainBlocked` are `drainOwedSamePeerWritesLocked`;
`Settle`/`Retire`/`Proceed`/`Ensure*` and `Encrypt` to `Finalize` are
`deliverQueuedPayloadLocked`; `Control*` are `sendControlPam`; `Unsend`, `Receipt`,
`RestoreBackup`, `HealList`/`Heal`, `ResetRetire`/`ResetDrop`, `Flush` and `Crash` have the name of
what they model.

Abstractions: time is a logical clock with distinct stamps (two stamps of one millisecond are
ordered by a random id in the code); the outcome of `ensureLinkLocked` is a choice among ready,
not ready and error (`Handshake` is about how it comes to be); a fan-out is one recipient of its
group, so whether the group row changes with it is a choice (`GroupSend` is about that row);
payment sends enter the same queue and count as direct messages.  A pass visits its items
oldest first; the model lets it visit them in any order, which only adds behaviours.

`Faults` names the events of the environment that may happen in a run:
`tail_loss` (a reload comes back to an earlier image), `finalize_fails`, `receipt`, `control`,
`unsend`, `reset`, `heal`, `age`, `rekey`, `claim_expires`.  Lost answers, refused puts,
colliding passes and restarts are always possible.

`SendPathOutbox` maps it to `Outbox`: the order of acceptance is the order of the stamps among the
messages that have one (`Ranked`: place i is the write with i stamps up to its own), what is no longer
owed is confirmed, and the channel is the occupied slots of the current session.

### `TabLock` and `TabStore`

`tab[t]` is the module state of `tabLock.ts` in tab `t`: `mode`, `yielding`, `taking`
(`takeoverInProgress`), `pend` (`takeoverRefreshPending`), `surface` (`writerSurfaceReady`), `cur` and
`psteal` (whose `AbortController` `currentAbort` and `pendingStealAbort` are), `depth`, `deferred`
(the critical section).  `ph[s]` is what takeover `s` of the tab awaits, `flush` which
`flushThenReadonly` runs, `refresh` the seal and refresh that `db/index.ts` starts.  `owner` is the
tab whose callback holds the Web Lock, `msgs` the broadcasts under way.

The synchronous functions (`emit` with its subscriber, `beginYielding`, `requestWriterAbort`, `tryAcquire`)
are operators on the record of a tab, so that an action is one run of the event loop: the answer of a
request with everything its callback and the continuation of `runTakeover` do before their next await
(`Granted`, `Denied`), a message (`Receive`), a timer (`WaitOver`, `SettleOver`, `SectionTimer`), the
end of a flush (`FlushEnd`).

The lock manager is external.  It answers the requests of one tab in order; a steal
may be granted (`StealGranted`, when `Faults` has `steal`), be aborted, or be refused (`StealRefused`):
the Web Locks specification refuses a steal with a `signal`, which is how the code asks, while the
repository's fake grants it; both are modelled.  A robbed tab gets the claim or the
rejection in any order, the claim perhaps not at all.  The `yielded` broadcast only shortens a
wait, which may end at any time anyway, and is left out.

`TabStore` EXTENDS `TabLock` and runs its steps beside those of the store.  `db[t]` is the database of
tab `t`: its rows, the generation and nonce of its executor and of the tab, the chain of puts not yet
made, whether it is open; `image` is what IndexedDB holds.  `OpenRead`/`Opened`/`OpenAgain` are
`openIdbSnapshotVfs` and `getDb` (the end of an open is of one piece with the end of its put), `PutNext`/`PutLate` a put reaching IndexedDB with `isStalePut`,
`SealRead`/`SealPut`/`SealDone` `sealPersistGenerationInIdb` (which reads and writes in two transactions),
`FocusRefresh` the read of a readonly tab, `Write` and `Rollback` the transactions.  A flush ends
(`EndFlush`) when the puts of the executor it found are made: `await` says whose they are.  A random nonce
is modelled by its rank.

`StoreFaults` names what may happen to a store: `focus` and `rollback`, and three windows of the code, which the passing
run leaves out because the properties fail there (section 7): a tab yields while its database is still opening (`opening`), asks
for the lock again while it yields (`recall`), or yields before it has sealed and refreshed (`unsealed`).

### `Handshake`

`dev[p]` is one end of the link: its `links` row, the live handle, the parked re-key, the archive of
retired sessions, the counters of the budget and the call under way (`call.at` is the await it is at).
`marker` is the Noise key each device publishes, `slots` the msg1, msg2 and msg3 in each outbox.  A
handshake is `<<i, r>>`, the attempt of the initiator and that of the responder.  `Ensure` to
`Restoring` are `ensureLinkLocked` from one await to the next (`Enter`, `Fetch`, `Probe`, `Adopt`,
`Initiate`, `Advance`, `Complete`), `Rekey*`, `Park` and `Commit` the parked re-key, `Watch` the
marker watch, `Reset`, `Rotate` and `Reload` what happens from outside.  A device is `Spent` when its budget is gone and its user does not ask.

### `Receiver`

`dev[d]` is what a device stores (secret, row, at most one retry), its session and its banner;
`proc[d][p]` the call it runs for its user, for the role sync and for each drain (`pc` is the await it
is at); `marker` and `caps` what the homeserver holds; `late` the PUTs whose wait is over and which may
still land.  The actions are the awaits of `provisionReceiver` (`Key`, `Mint`, `Minted`, `Get`,
`PutMarker`, `LatePut`, `Recheck`), of `confirmActiveReceiver` (`Confirm`, `Enqueue`), of
`drainReceiverPublishRetry` (`Begin`, `Inspect`, `Caught`, `Terminal`: what goes on after an await looks for a live
session of the same pubky, not for the one it began in), of the capability document (`Check` to
`Reread`), of `syncOwnReceiverRole` (`Sync`, `Role`) and of `signOut` (`Ours`, `Remove`, `Close`, `Wipe`).
`open` is the set of sessions the homeserver still answers: a sign-out whose request fails goes on and leaves its session in it.

### `Inbound`

`script` is what the peer sends, in the order of its ratchet; `wire` how far the live ratchet and
the stored snapshot are; `items` `link_stream_items`; `db` the message rows, tags, pending tags,
attachment records, keys and the journal of wipes; `req` and `link` the request and the link row;
`at` where the one call under the queue of the peer is.  `Sync` is `syncPeerLocked` (`EnsureReady`,
`Gate`, `Receive`, `Store`, `Snapshot`), `Handle` the routing loop with the handlers of
`applyChatInbound.ts`, `Decline` the decline with its four statements.  A call is alone under
the queue of its peer, so what interleaves with it is a reload, at any of the points of `Points`.  `used.torn` is history: a
reload fell where a stranger's link is stored and its request is not (`Ungated`).

### `GroupSend`

`row[m]` is `delivery_state` of the group message, `upload[m]` that of its attachment record, `queue`
its items `<<message, member>>`, `fan[m]` the call of `fanOutEnvelope`, `held[p]` the call that holds the
queue of the link to member `p`, `pass` what a drain listed.  What `SendPath` models of one ratchet is
one step here (`Put`, `Finalize`); the statements after it, which settle the row (`Count`, `Write`,
`FanCount`, `FanWrite`, `ResetSettle`), are steps of their own, because the queues of two members run side by side.

### `GroupRoom`

Each device has `member` (its roster), `rows`, `text`, `gone`, `seen` and `deferred`; `wire[s][d]` is what `s` has
queued for `d`; `handler[d][s]` where `d` is with the head of it; `todo` the statements a call still has to run.
`CreateChannel`, `AddMember`, `RemoveMember`, `LeaveChannel`, `SendGroupMessage`, `ReactToMessage` and `ChangeMessage`
are the calls of `GroupService.ts`; `Refuse`, `ApplyMembership`, `PersistOp`, `AdmitMessage`, `AdmitTargeted`, `ApplyTargeted`,
`SaveDeferred`, `ListDeferred`, `ReplayDeferred` the handler of `applyGroupInbound.ts`.

### `SignIn`

A flow `f` has its channel and its session of the same number.  `disk` and `pend` are the two IndexedDB stores
the tabs share, `srv` the sessions at the homeserver, `jar` the browser's cookie, `tab[t]` the memory of a tab, `job`,
`rest` and `out` the adoption, restore and sign-out it runs.  `Start` to `Deadline` are the flow
(`singleApproval.ts`, `RingConnect.ts`), where a start goes by the number of its click: `mint` holds those under way,
`wait` who waits for which, `lock` whose lock is set, and all that wait for one go on when it is over (`StartOver`).  `Acquire` to `Provision` the adoption of `session.ts` with `TakenBack`, its rollback,
`RestoreStart` to `RestoreDone` the restore, `OutStart` to `OutWipe` the sign-out, which may begin amid anything.  `ghost` is history: among
others whether nothing the code cannot stop was beside the last sign-out (`quiet`, `Undisturbed`), and which flows were minted beside another start.

## 4. The runs

Each run checks one instance.  "States" are distinct states.  All but `inbound` set
`CHECK_DEADLOCK FALSE`: these systems may stop, when everything is sent or a bound is spent.

| Run | Instance | What it shows |
|---|---|---|
| `send` (`MCSendPathOutbox`, 486,470 states) | 1 direct message, 1 fan-out; re-key, expired claims, heals, age; 1 restart, 1 attempt, 2 nonces, 2 sessions | `NonceOnce`, `SentIsReadable`, `OldestFirst`, `NoSilentDrop`, `SettledNeverEncrypted`, `HealNeverRevives`; the send path implements the outbox (`ImplementsOutbox`) |
| `send_outside` (`MCSendPath`, 1,566,404) | 1 message, new or restored, 1 control; control, unsend, receipt, reset, refused finalize, tail loss; 1 restart | what holds even on the paths that break `NonceOnce`: `OwedHasItem`, `NoGaps`, `ClaimsHaveOwners` |
| `send_live` (`MCSendPath`, 23,274) | 1 message, 1 slow fan-out, 1 restart, `FairSpec` | every queued write leaves the queue (`QueueDrains`) |
| `nonce_control` (`MCSendPath`) | 1 message, 1 control | a counterexample, see section 7 |
| `tabs` (`MCTabLock`, 127,627) | 2 tabs, one takeover; steals, hidden and closed tabs, one section | a held section is not interrupted (`SectionHolds`), a writer's surface comes back (`SurfaceReady`), a robbed tab stands down (`LoserStandsDown`) |
| `tabs_store` (`MCTabStore`, 1,472,250 up to symmetry) | 2 tabs, 1 row, 2 takeovers; focus, rollback, closing | the image never loses a row (`NothingLost`), a tab that yields has put its rows (`HandedOver`), who may write has read every row put before (`WriterIsCurrent`) |
| `link_shake` (`MCHandshake`, 1.33 million) | one side asks and sends, both poll; network, protocol and restore failures, ten minutes, reset, a new key, a reload | `OneSession`, `EstablishedKept`, `BudgetStops` |
| `receiver` (`MCReceiver`, 238,065) | 2 devices, 2 calls of users, 1 fault, 3 keys | `SecretBehindMarker`, `OnlyTakeoverReplaces`; roles settle (`RolesSettle`) |
| `inbound` (`MCInbound`, 177,222) | four scripts of four messages, batches of 2, 1 reload, 1 error | `NoStrangerShown`, `CheckpointCovered`, `UnsentWiped`, `DeclineLeavesNothing`; what is sent is shown (`Arrives`) |
| `group_send` (`MCGroupSend`, 1.6 million) | 2 members, 2 messages, one with an attachment; network, error, age, delivered; one reset, reload or aged message | `MemberReadsOnce`, `NeverStuckSending`, `FailedIsTrue`, `NobodySkipped` |
| `group_room` (`MCGroupRoom`, 234 thousand) | a founder, two invited members and an account added later, linked with the founder only; 12 weights of calls, 1 reload | `RostersAgree`, `HistoryAgrees`, `DeferredSettles` |
| `signin` (`MCSignIn`, 2.88 million) | 1 tab, 2 flows, 2 clicks, any 2 of: third click, narrow grant or foreign locator, cancel, enable, sign-out, load, failure; section timers | `NoneStray`, `OneFlow`, `KeysRecoverable`, `IdentityKept`, `SignedOutStays` |

Every property of a passing run has a mutant: an operator of its module marked `mutant`, which
changes one definition the way a plausible bug would, and with which TLC finds the property
violated.

## 5. Bounds and fairness

**SendPath.**  `MaxNonce` limits the positions of a session (an `Encrypt` past it is not taken),
`MaxEpoch` the re-keys, `MaxPasses` the deliveries of one item that wait for the mutex at once (one
plus a stolen claim is two deliveries of one item), `MaxCrash` the restarts, `DayAlone` in `send` lets a day
pass only before a reload or a re-key.  The hazards need two writes: an ambiguous one and another that would take its
nonce.  Two sessions are enough for a handle to outlive its session.  What is proved (section 6) does not
depend on these bounds.

**TabLock.**  `MaxTries` stands for the 8 attempts of `runTakeover`, which only repeat one decision; `MaxTakeovers`
and `MaxBoots` bound how often tabs ask and open.  One section is enough for a yield to be deferred and a timer to fire
under its caller; with `MaxDepth = 2` the two nested sections of a tab share one counter in the code and one timer ends
both, so `SectionHolds` is stated for the depth at which sections and counter agree.  Two tabs exchange every
message there is; a third would only add requests that are denied.

**TabStore.**  Two takeovers let the role go and come back, so that a put of the first term of a tab may meet its second; one row is enough to be lost.
The tabs are interchangeable (symmetry): a nonce is compared by its rank.  The theorems of section 6 hold for any number of tabs, rows and takeovers.

**Handshake.**  Limits of 2, 1, 1 and 1 stand for 10, 5, 3 and 3: each is a counter compared with a constant.
Four attempts let both ends start twice.  **Receiver.**  Two devices; three keys are one each and one minted after a
wipe.  **Inbound.**  Each script holds one hazard: an attachment tagged and unsent, a tag and a delete before their targets,
receipts around an unknown kind, a text that is unsent; batches of two put two of them under one checkpoint.
**GroupSend.**  Two members are enough for one link to be blocked while the other goes on; two messages for one to wait
behind another; members are interchangeable (symmetry).  **GroupRoom.**  Calls have weights (a membership call 3, a content call 2)
and 12 is their sum; edits and deletions share a bound; the invited members are interchangeable.  **SignIn.**  Two
flows: one answer may come after the other flow began.  Three clicks: two may wait for the start of the first and go on side by side, and a start may
follow one whose lock a sign-out dropped; the third is one of the things of which two happen.  One tab, because with two `IdentityKept` and `SignedOutStays`
do not hold (section 7); the other three were simulated with two tabs without a violation.  So were three flows in one tab, and longer runs of `TabStore`, `Handshake`, `Inbound`, `GroupSend` and `GroupRoom`.

Fairness, where a run checks liveness:

- `FairSpec` of `SendPath`.  Weak fairness for the steps of a running delivery: the event loop
  runs what can run, and every await ends.  Strong fairness for `Claim`, `DeliverStart` and
  `AttemptStart` of each message: `withQueue` is a promise chain, so who waits gets the mutex, and
  `startLinkRetryDrainOnVisibility` starts a new pass on a timer and on every visibility change.
  Strong fairness for `EnsureReady` and `PutOk`: the network is not down for good.  Restarts
  are bounded, not fair.
- `LockSpec`.  The browser answers requests, timers fire, flushes and refreshes end, and a
  stolen lock is rejected; no message need arrive.  Nobody is obliged to take over, hide or leave a section.
- `RxFairness` of `Receiver`.  The retry pass and the inbox sync are timers that keep firing, and every request is answered or
  runs out of its budget.  Users owe nothing.
- `InFairSpec` of `Inbound`.  The sync is a timer; a call under the queue goes on; strong fairness for a link that gets ready and a
  receive that brings something: the peer's messages stay at the homeserver.  Reloads and errors are bounded, not fair.

## 6. Proofs

Every theorem holds for all values of the constants that satisfy the assumptions of its module: any
number of messages, members, devices, passes, sessions, restarts, and any scripts.  Every invariant below was
checked by TLC on the instances of section 4 before it was proved.

### The send path, on every path (`SendPathProofs`)

| Theorem | Statement |
|---|---|
| `TypeCorrect` | `Spec => []TypeOK`; beyond types: `attempts` stays below the cap, nested deliveries have well-formed frames, a frame that puts or finalizes holds a position inside the bound |
| `PathInvariant` | `Spec => []PathInv` |
| `OwedKeepsItem` | `Spec => []OwedHasItem` |
| `ClaimsAreReleased` | `Spec => []ClaimsHaveOwners` |

These need no hypothesis: control messages, resets, unsends, tail loss and refused finalizes included.  `PathInv` adds to
the two properties the shape of the stack (one frame at the bottom, deliveries nested above it, each of a kind and phase
the code can nest), that what the image calls owed has its item in the image (one transaction writes both) and is known
in memory, and that a send not yet persisted has no row.

### The send path, on the serialized paths (`SendPathProofs`)

| Theorem | Statement (under `SerializedPaths`) |
|---|---|
| `NonceUsedOnce`, `SerializedInvariant` | `Spec => []NonceOnce` (DECISIONS R2-F1), from `Spec => []IInv` |
| `EncryptsOldestFirst`, `EncryptsOnlyQueued`, `NeverEncryptsSettled` | `OldestFirst`, `EncryptedIsQueued`, `SettledNeverEncrypted` |
| `HealRevivesNothing`, `SnapshotOnlyAdvances` | `HealNeverRevives`, `SnapshotNeverBack` |
| `SlotsHaveNoGaps`, `SentStaysReadable`, `SlotsInvariant` | `Spec => []NoGaps`, `Spec => []SentIsReadable`, from `Spec => []ISlots` |
| `NothingDropped` | `NoSilentDrop` |

`SerializedPaths` is the assumption that only the paths run which the mutex and the
drain cover: direct messages and plain fan-outs, with lost answers, refused puts, colliding passes,
stolen claims, re-keys, heals, ageing and restarts, but no control messages, no slow
fan-outs, no restored rows, and no lost image, refused finalize, receipt, unsend or reset.  It
cannot be dropped: section 7 has a counterexample for each of these but the last, and the
last breaks `EncryptedIsQueued` and `HealNeverRevives`.

`NonceOnce` is not inductive: it only speaks of what was encrypted.  `IInv` adds why the next
encrypt is harmless:

- `ILink`: the handle is closed or stands at the persisted position (one past it between
  a confirmed put and its finalize).  So a restart, which comes back to the snapshot, loses nothing.
- `IWrote`: nothing was encrypted past the persisted position, and what may occupy that
  position is the oldest write still owed.
- `IFrames`: a delivery past its checks still has its item; the list of a delivery about to
  encrypt covers every older item; nested deliveries are older than those they serve.  So when the
  list is empty, the delivery is the oldest.
- `IRows`: what is queued is owed (but for a sent message a late heal re-enqueued, which is
  settled when its turn comes), and no direct message is owed without an item.
- `IStamps`, `IWaiting`: stamps identify messages; whoever waits has a row.

At `Encrypt`, `IFrames` says the message is the oldest owed, `ILink` that the handle is at
the snapshot, `IWrote` that what was encrypted there is also the oldest owed: the same message.  The
step properties come from the same facts at `Encrypt`, `Heal` and `Finalize`.

`ISlots` adds the homeserver: what a slot holds was encrypted at its position; every position of the
session below the snapshot is filled; a delivery that finalizes has its message in the slot of the snapshot.
With it a put can only fill the next slot or repeat what is there, and an item leaves the queue when its slot is filled.

### The refinement (`SendPathRefinement`)

| Theorem | Statement |
|---|---|
| `SendPathImplementsOutbox` | under `SerializedPaths`, `Spec => ImplementsOutbox`, that is `OB!Spec` |
| `MappingInvariant` | under `SerializedPaths`, `Spec => []MapInv` |
| `PeerReadsInOrder` | of `Outbox`: `Spec => []ReadsInOrder` |
| `LinkReadsInOrder` | under `SerializedPaths`, `Spec => []OB!ReadsInOrder`: the slots of the current session are the accepted writes in the order of their stamps, none left out |

`MapInv` is `TypeOK`, `IInv` and `ISlots` with `IOrder`: the accepted writes are finitely many, every place
of the order is taken, and what is confirmed is older than what is owed.  The mapping sorts by stamps, so it could not be
unfolded by induction over the number of writes; `IOrder` carries "every place is taken" through the steps instead, and two
lemmas say what ranks do when a youngest write is added (`Append`) and when nothing is added.  Each step of `SendPath`
is then one of five kinds: it changes nothing the outbox sees, takes a write (`Accept`), fills the next slot (`Write`),
settles the oldest owed write (`Confirm`), or opens a session (`NewSession`).  A repeated put, a stale pass, an expired claim, a heal
and a restart are of the first kind: that is the point of the theorem.

### The election and the image (`TabStoreProofs`)

| Theorem | Statement | Hypothesis |
|---|---|---|
| `ElectionTyped`, `StoreTyped` | `LockSpec => []LockTypeOK`, `StoreSpec => []StoreTypeOK` | none |
| `StoreInvariant` | `StoreSpec => []StoreInv` | `OneTakeover`, `Undisturbed` |
| `NewestRows` | `WriterIsCurrent` | the same |
| `ImageGrows`, `LastPutDone` | `NothingLost`, `HandedOver` | the same |
| `OneWriter` | the tab that counts as the writer holds the Web Lock, and it is the only one | the same |
| `SectionsRespected` | `SectionHolds` of `StoreSpec`, with sections of any depth | the same |
| `SectionsKept` | `SectionHolds` of `LockSpec`, from `SectionInv` | `OneTakeover`, `OneSection`, `NoSteal` |

`OneTakeover`: a tab runs one takeover at a time (`Slots` has one member).  `Undisturbed`: no lock is stolen, and the windows `opening`, `recall` and `unsealed` of
section 3 are left out; focus reads, rollbacks, failing opens, hidden and closed tabs, and lost or late messages stay.  `OneSection`: sections are not nested.
The hypotheses are needed: section 7 has a run against each.  The lock alone does not make the image safe: a put goes on after the lock was released, and
what refuses it is the generation.  `StoreInv` says why that is enough, for each tab:

- Roles: the tab that owns the lock is the writer (`Holding`); it is ready exactly when it is not sealing, and it yields exactly while its flush runs.
  Every other tab only reads (`Waiting`); a takeover has its surface down and a refresh armed, so who wins the lock seals before it writes.
- Puts: those of a discarded executor are of a generation its tab has outgrown (`Dead`), so they will be refused whatever the image is; the others are of the
  executor, which has not outgrown its tab, and no open ends before its put (`Executor`).  A tab without the lock has no put of a live executor under way (`Reading`): this is what its last flush waited for.
- The writer (`Writing`): a ready executor leads the image, that is, it is the one the image is from or a newer one, it has every row of it, and its puts bring more and more rows.
  While it seals, either the image is older than the seal and all its rows are in it, or an open has overtaken the seal, which will then be refused.
  A writer that flushes has put its rows, or its put is the last of the chain (`Handing`).

A step moves one tab (`GoodStep`), takes the lock only from itself or nobody, and changes the image only as its owner and only by adding rows; so the invariant of the other tabs is
kept because they do not hold the lock (`OthersKeep`).

`SectionInv` is about the election alone, where a tab may ask for the lock again while it yields: a callback that waits is that of a writer which runs no takeover and no flush,
and a request whose signal is aborted was aborted outside a section, which nobody has entered since (`Fit`).  So where a flush begins, at an abort or at the grant of an aborted request, nobody is inside
or the timer has fired.

### The group fan-out (`GroupSendProofs`)

| Theorem | Statement |
|---|---|
| `GroupInvariant` | `GsSpec => [](GInv /\ LinkInv)` |
| `MembersReadOnce`, `NobodyLeftOut` | `MemberReadsOnce`, `NobodySkipped` |
| `SettlersInvariant` | `GsSpec => []SettleInv` |
| `NeverLeftSending` | `NeverStuckSending` |
| `FailedMeansDropped` | without `read` receipts, `FailedIsTrue` |

`GInv` relates rows, items and calls: an item belongs to a row that exists, a member that was sent a message has no item of it,
a call that holds a link works on an item it may hold.  `SettleInv` is the argument that some call is always left to write
the state of a message nobody is owed: the fan-out that counts, a delivery between its finalize and its statement, or a reset
that still has orphans to settle.  A reload can take the last of them away, which is what `torn` records and
`NeverStuckSending` excepts.  `FailedMeansDropped` excludes `read` because a late `failed` overwrites it (section 7).

### The receiver (`ReceiverProofs`)

| Theorem | Statement |
|---|---|
| `ReceiverInvariant` | `RxSpec => []RInv` |
| `SecretIsKept` | `SecretBehindMarker` |
| `TakeoverAlone` | `OnlyTakeoverReplaces` |

`RInv`: the marker, and every key a call or a late PUT may still publish, is a key somebody has or had the secret of (`Held`), and
a call remembers no marker but the one that is up (`CallOK`).  No hypothesis: any number of devices, faults and sign-outs.

### The inbound half (`InboundProofs`)

| Theorem | Statement |
|---|---|
| `InboundTyped` | `InSpec => []Typed` |
| `CheckpointsAreCovered` | `CheckpointCovered`, without a hypothesis |
| `StrangersStayHidden`, `DeclinedPeerIsGone` | `NoStrangerShown`, `DeclineLeavesNothing`, without a hypothesis |
| `UnsentNeverReturns` | `UnsentStays`: no step takes a tombstone away |
| `UnsentIsWiped` | `UnsentWiped`, when event ids differ and at most one reload falls between a receive and its rows |

`IGate` says what a stranger is: no request means no link row and nothing in the stream, a pending request means held items only; after a
reload at `Ungated` the request stays away for good, and the link row is why (`ITorn`).
`ICovered` says that the stored checkpoint never passes what was stored.  `IRow` says that a handler that saves a row has just looked
and found none.  `IWipe` says of every unsent row where its key is: gone, in the journal of wipes, or in the hands of the running
handler; the key of a file not yet in the stream belongs to a batch that a reload will bring again.  The hypothesis on reloads is needed:
section 7 has the run that violates `UnsentWiped` without it.

### The handshake (`HandshakeProofs`)

| Theorem | Statement |
|---|---|
| `HandshakeInvariant` | `HsSpec => []HInv` |
| `LinksAreKept` | `EstablishedKept` |
| `BudgetIsBounded` | `BudgetStops`: a spent device answers nothing and sets out to start nothing |
| `SessionsAgree`, `OneSideInvariant` | `HsSpec => []OneSession`, from `HsSpec => []OneSideInv(a)`, when one of the two devices only answers (`OneSideAsks`) |

The first three need no hypothesis: both sides may call whatever they like, and every fault, reload and new enrolment happens.
`HInv` says at each await of `ensureLinkLocked` which row the call stands on (`RowAt`), that a handle is that of its row and a
parked re-key waits beside a link (`Memory`), that an automatic call which may answer has budget left (`Budget`), and that what a device
parks, adopts or commits is the handshake it answered last, a commit one whose msg3 is there (`Answered`).

Most steps only give up something: the row, the handle, what was parked, or the call.  `Shed` says so once, `EnterFacts`, `WedgedFacts` and
the lemmas named after the actions show it of each, and `StepCases` leaves the ten steps that do more.

`OneSideInv` adds, for an asking device and an answering one: the asker is on the session it completed (`OnCompleted`), and the answerer, if it
has the asker's current key, on the one it answered last (`OnAnswered`).  The latter is not inductive without the keys: a re-key is parked only for a key newer
than that of the row (`KeysUpTo`), so answering it does not touch a row that has the current key.  The hypothesis is needed: section 7
has the run that violates `OneSession` when both devices ask.  It is what `link_shake` checks, with the calls of `Sends`.

`BudgetStops` speaks of the steps after the budget is gone.  A device may then still be in the call that spent it: the send whose probe failed for the last time has set out for
`initiateHandshake` and writes one msg1 (`LinkService.ts:1188`, `:1272`); no later call gets there.  Section 7 has the run that violates `SpentStartsNothing`, the property without that msg1.

### Signing in and out (`SignInProofs`)

| Theorem | Statement | Hypothesis |
|---|---|---|
| `SignInTyped` | `Typed` | none |
| `OneCodeCounts` | `OneFlow`, from `WatchIsShown` | none |
| `OneThingAtATime` | `LoneInv` | `NoOverlap` |
| `NoSessionIsStray` | `NoneStray`, from `SessionsHaveUsers` | `Orderly` |
| `KeysCanBeHad` | `KeysRecoverable`, from `NobodyClearsForAnother` | `InSection`, `Readable` |
| `SignedInHasIdentity` | `IdentityKept`, from `SignedInStep` | `OneTab`, `NoOverlap`, `Untaken` |
| `SignedOutForGood` | `SignedOutStays`, from `NothingComesBack` | `OneTab`, `NoOverlap` |

They hold for any number of flows, any bounds on what happens, and any tabs where `OneTab` is not named.  A hypothesis names the
windows of `FaultNames` that the theorem leaves out, only those its argument uses: `signin`
satisfies all of them, with narrow grants, foreign locators and section timers allowed.

- `StartInv`: while a start is under way the tab has no connection, and a flow that is watched is the connection of its tab and was not given up; both but for the flows
  minted while another start of the tab was under way (`ghost.beside`), which `OneFlow` excepts.  Waiting clicks, dropped locks and failures are all in it.
- `LoneInv`: an adoption and a restore of a tab do not run at the same time (`NoOverlap`); a sign-out may begin amid either, and what it took from a restore the restore
  finds by the epoch.
- `StrayInv`: an answer not yet used waits beside its watch (`GotWaits`), a flow answered with an old locator has no session besides (`OldIsAlone`),
  an adoption that is about to bind a session holds the writer's section (`BindsHeld`), what a sign-out has told the homeserver is out (`OutEnded`), and so every live
  session waits beside a watch, has lapsed, or is that of a tab, its adoption or its sign-out (`Reasons`).
- `KeysInv`: the locator of a tab is a flow of its own (`LocOK`), a tab that cleans up owes nothing and nobody else owes its channel (`Cleared`), one tab at a time is
  in the writer's section (`Exclusive`), and an adoption past its check is inside (`Secured`).  With several tabs, a page load of another tab can take over a channel; the section keeps
  that one from clearing it, which is why `InSection` asks for one tab or no section timer.  With both TLC found no counterexample, so this one may not be needed.
- `IdInv`: the steps at which the store has the identity before the tab says it is signed in, and after which it only goes by the tab's own sign-out.  It speaks of the tabs
  that are not stale: no other tab signed out, and no sign-out of the tab overtook an adoption, which looks at no epoch.
- `QuietInv`: from the start of a sign-out beside nothing the code cannot stop (`Undisturbed`) until Ring approves something new, the tab has no live session, a restore under way has an old
  epoch and stands before its check (`QuietOK`), an answer belongs to a flow given up, or to a code whose handoff is gone or about to be cleared (`Dropped`), and an adoption that
  starts from such an answer after the sign-out is one its check will refuse (`Refused`).

Each step of `SignIn` belongs to a flow, a tab or a call, and the lemmas named after the actions say what it changes; `OneTab` turns "every tab" into
"the tab that moves" in the last two.  It is needed there: section 7 has the runs with two tabs.

### What stays with TLC

- Liveness (`QueueDrains`, `SurfaceReady`, `LoserStandsDown`, `RolesSettle`, `Arrives`): fairness and `ENABLED` are out of the prover's reach.
- `GroupRoom`: its handlers fold sequences of deferred events, and what a fold computes for every sequence needs induction over data with
  a predicate as a parameter, which the provers cannot instantiate.
- `OneSession` when both devices ask and neither reloads.
- `SectionHolds` with a steal (`tabs` checks it with one takeover), and the store when `Undisturbed` does not hold.
- `SignIn` with the faults that the hypotheses above leave out.
- All that holds of `SendPath` outside `SerializedPaths`, but for the theorems of `SendPathProofs`: `NoGaps` in `send_outside`.

## 7. Where the code and its documents disagree

`NonceOnce` is what DECISIONS R2-F1 promises ("Never encrypt a second plaintext at a nonce a prior
undelivered `wireJson` already used").  It holds on the paths the mutex and the drain cover.  Outside them
TLC finds counterexamples.  One is a run of this project: in `nonce_control` a control message is encrypted without the
mutex and without the drain of older owed items, at the nonce an ambiguous direct message used.

The others need only other constants of the same modules.  For `SendPath` (`MCSendPath`, `MaxAttempts = 2`,
`MaxNonce = 2`, `MaxEpoch = 0`, `MaxPasses = 1`, `MaxCrash = 0` unless said):

| Property | Constants | What happens |
|---|---|---|
| `NonceOnce` | `Dms = {d1, d2}`, `Faults = {"receipt"}` | a receipt settles a message whose put was ambiguous; the ratchet did not advance |
| `NonceOnce` | `Dms = {d1}`, `Controls = {c1}`, `Faults = {"unsend"}` | unsend drops the ambiguous item and encrypts the delete at its nonce |
| `NonceOnce` | `Dms = {d1, d2}`, `Faults = {"tail_loss"}`, `MaxCrash = 1` | the reload loses the queue item of an ambiguous put |
| `NonceOnce` | `Dms = {d1, d2}`, `Faults = {"finalize_fails"}`, `MaxCrash = 1` | a refused finalize leaves the handle ahead of the snapshot |
| `NonceOnce` | `Dms = {d1}`, `Fanouts = SlowFanouts = {f1}` | a fan-out stamped before an await is inserted behind an in-flight send, but sorts before it |
| `NonceOnce` | `Dms = Restored = {r1}`, `Fanouts = {f1}`, `Faults = {"heal"}` | a healed restored row is older than an ambiguous write |
| `EncryptedIsQueued` | `Dms = {d1}`, `Faults = {"reset"}`, `MaxEpoch = 1` | a pass that listed an item before the reset sends it under the new link |
| `HealNeverRevives` | `Dms = {d1}`, `Faults = {"reset", "heal"}`, `MaxPasses = 0` | a heal reads the list of owed rows before it waits for the mutex; a reset in between fails the row, and the heal re-enqueues it (`LinkService.ts:3294`) |
| `NoSilentDrop` | `Fanouts = {f1}`, `Faults = {"receipt"}` | a receipt of one member marks the only group row delivered, and items of members never sent to are removed as settled (`StorageService.ts:2873`) |

The other modules:

| Property | Instance | What happens |
|---|---|---|
| `SectionHolds` | `MCTabLock`, `Slots = {s1, s2}`, `Faults = {"section"}`, `MaxTries = 1`, `MaxTakeovers = 2`, `MaxDepth = 1`, `MaxBoots = 1` | two takeovers of one tab are in flight; the retry of the second aborts the controller of the first, which has just won the lock and whose caller is inside its section (`tabLock.test.ts:243`) |
| `NothingLost`, `WriterIsCurrent` | `MCTabStore`, `Faults = {"steal"}`, `MaxTakeovers = 2` | the seal reads the image in one transaction and puts it back in another (`openWebSqlite.ts:636`); rows put in between by a tab of the same generation are lost |
| `NothingLost` | `MCTabStore`, `StoreFaults = {"opening"}` | the flush of a yielding tab finds no open database to put and to wait for (`db/index.ts:52`); the first put of the opening one comes after the lock was released, of the same generation as the new writer's and with a larger nonce |
| `NothingLost`, `WriterIsCurrent` | `MCTabStore`, `Faults = {"hide"}`, `StoreFaults = {"unsealed"}`, `MaxTakeovers = 2` | a new writer yields before its seal; the seal goes on without the lock |
| `NothingLost` | `MCTabStore`, `Faults = {"hide", "gone"}`, `StoreFaults = {"recall", "rollback"}`, `MaxTakeovers = 2` | a tab asks for the lock while it yields: it still has the mode of a writer, so `emit` spends the refresh armed for the new term, and its seal goes on after the lock was released |
| `WriterIsCurrent` | the same with `StoreFaults = {"recall", "focus"}`, `MaxTakeovers = 3` | the same |
| `NothingLost`, `WriterIsCurrent` | `MCTabStore`, `Slots = {s1, s2}`, `Faults = {"hide"}`, `StoreFaults = {}`, `MaxTakeovers = 2` | of two takeovers of one tab, one wins the lock and yields while the other is still under way |
| `SectionHolds` | `MCTabLock` as in `tabs`, `Faults = {"hide", "section", "gone"}`, `MaxTakeovers = 2`, `MaxDepth = 2` | a caller whose timer fired is still inside when its tab loses the lock; another section keeps the one counter up, and an aborted request is then granted and flushes at once |
| `SectionHolds` | the same with `"steal"` and `MaxDepth = 1` | a tab that yields asks again and steals the lock from itself; a caller enters a section of the new term, the tab is told of the loss of the old one, and its next request aborts the new callback (`tryAcquire` looks at no section) |
| `HandedOver` without its exceptions | `MCTabStore` | a rolled-back transaction, a focus refresh or a hidden tab leaves rows behind that no put brings |
| `OneSession` | `MCHandshake`, `Calls` of both devices `{"open"}`, `Rotating = {}`, `Faults = {"network"}`, limits 2, 1, 1, 1, `MaxTry = 4`, `MaxKey = 2`, `MaxCrash = 1` | a starts a handshake and b answers it; three failures of the network wipe b's side, and the failed probe after it lets b start one of its own (`LinkService.ts:1980-2014`, `1875-1879`).  a's next probe answers that one, and a is reloaded between the msg2 and the row of it (`LinkService.ts:1855`, `1919-1929`): it is still the initiator of its own, finds the msg2 b wrote before, and is established on the first pair; b finds a's msg2 and is established on the second.  Both are initiators, of different sessions.  Without a reload the property holds with both sides asking |
| `NeverStuck` | `MCHandshake`, one side asks, no faults, 1 reload, `HsFairSpec` | `updateLinkSnapshot` renews the age of a link at every poll, so a responder whose msg3 never comes is not wiped (`LinkService.ts:2057` against the comment at `:111`) |
| `SpentStartsNothing` | `MCHandshake`, as `link_shake` with `Calls <- Resends` | two starts and a reload have charged the budget; the probe of a send fails and charges the last of it, `ensureLinkLocked` goes on and `initiateHandshake`, which looks at no budget, writes a further msg1 (`LinkService.ts:1188`, `:1272` against `:2175`, "cannot loop for free") |
| `NoStrangerEver` | `MCInbound` as in `inbound` | the link row is written before the request is held; a reload in between and the next sync skips the gate (`LinkService.ts:2446` against `wotGate.ts:13`).  `NoStrangerShown` excepts what follows that reload |
| `UnsentStaysWiped` | `MCInbound`, script `File`, 1 reload | after a reload between the routing of a delete and the snapshot both messages come again, and the key and a clear row are stored anew (`LinkService.ts:3141` against `kinds-v1.md:83-84`) |
| `UnsentWiped` | `MCInbound`, script `File`, `MaxReload = 2` | the same with the second reload between the receive and its rows: the key is left for good |
| `StatusNeverBack` | `MCGroupSend`, 1 message, `Faults = {"read"}` | `sent` or `failed` overwrites `read` (`LinkService.ts:2945` against `kinds-v1.md:60`) |
| `UploadSettles` | `MCGroupSend`, `Uploads = {1}` | the upload record is not settled with the row (`sendAttachment.ts:147-158`) |
| `DeferredApplies` | `MCGroupRoom`, `Limit <- Racing` | a reaction looks its target up, and is deferred after further awaits in which the target arrived and was replayed (`applyGroupInbound.ts:329` against `types/group.ts:58-60`) |
| `AddedJoin` | `MCGroupRoom`, `Limit <- Joining` | an account added later gets an `add` for a channel it does not know and refuses everything (`GroupService.ts:370` against `kinds-v1.md:125`) |
| `KeysRecoverable` | `MCSignIn` as in `signin`, `Faults = {"fetch"}` | one failed fetch of the handoff on the Enable page clears the locator while the keys are owed (`enableActions.tsx:56` against `RingConnect.recovery.test.ts:48`) |
| `OneFlowEver` | `MCSignIn` as in `signin` | two clicks that ask for a new code wait for the start of a first one; when it is over both go on, each sets a lock of its own and looks for a live flow before the other has one (`usePaykitConnect.ts:130-139`), and two flows wait for Ring.  A sign-out while a start is under way drops its lock (`resetPaykitConnectLive`), and the next click does the same |
| `SignedOutEver` | `MCSignIn` as in `signin` | an adoption that has signed its tab in goes on beside the sign-out: `KeyStore.clear` runs, and `adoptHandoff` then writes the identity and its keys (`RingConnect.ts:518-533`), which look at no epoch.  An adoption that began before its session record reads the epoch only where it writes that (`session.ts:318-325`); a restore past its check (`:388`) and an approval awaited on the Enable page are the others `SignedOutStays` excepts |
| `IdentityKept` | `MCSignIn`, two tabs, `Faults = {}`, one each of click, enable, out and load | the sign-out of one tab clears the key store between the last write and the last check of the other tab's restore (or adoption); `writeEpoch` is a variable of one tab (`session.ts`), so the other is signed in without an identity |
| `SignedOutStays` | the same | one tab restores while another signs out, and the restored handle writes the identity and the metadata after the wipe (`session.ts:121-135`, `389-394`): its epoch never changed |

`Faults` of `GroupRoom` and `SignIn` name further deviations and leave them out of the passing runs: in `GroupRoom` members who act before
everybody has handled the creation (`early`) and who come back (`again`) make rosters differ; in `SignIn` see `FaultNames`
(`again`, `refused`, `overlap`, `both`, `fetch`), each the name of a window in the code in which a session or an identity is left over, or the keys are lost.  What `BudgetStops`,
`NoStrangerShown`, `OneFlow` and `SignedOutStays` except is not left out of their runs: it happens there, and the rows above take the exception away.

## 8. Not modelled

- **The wasm library, the lock manager, IndexedDB, the homeserver, Ring**: external; modelled by what the code relies on.
- **Payments**: `applyPaymentInbound.ts` writes rows by an idempotent insert, and the functions that send or answer a payment are storage functions
  without a caller; a row is only ever received.
- **User interface**, some 9,000 lines of components; **types and parsers** (`types/*.ts`, `schema.ts`), some 4,000 lines without state; scripts.  The recovery-code
  gate (`lib/backup-gate.ts`) is a trap on the browser's history.  These are half of the implementation, which is why the modules cover
  about a sixth of its lines.
- **Discovery, contacts and trust**: queries and caches without state that several actors share.
- **Attachments**: encryption, file I/O and thumbnails; their records are in `GroupSend` and `Inbound`.
- **Owner scope**: the switch of the identity, the IndexedDB of another owner, the migration of a legacy image.

Within the modelled parts:

- `SendPath`: equal time stamps; the passes a tab goes on with after it lost the writer role (only their refused finalize).
- `TabLock`: browsers without Web Locks or `BroadcastChannel`.
- `Handshake`: the standby role, declined requests; `abandon` as it fails queued writes (that is `ResetDrop` of `SendPath`).
- `Receiver`: the drain a confirmation starts is left to the pass in the run; the peers' side of the capability document.
- `Inbound`: the text of a receipt and its rate limits; own sends and unsends are one step; `chat.edit` is consumed and not applied, as in the code.
- `GroupSend`: membership guards; the row and the upload record are written in one step.
- `GroupRoom`: attachments, tags, the search index, names, invitations, TTLs; one call at a time on a device.
- `SignIn`: one tab is checked and two of the five properties are proved for one tab only (section 7); a request to end a given-up session (after an abort, a narrow
  grant, a failed check) is taken to arrive, only that of `signOut` may fail; the encryption of the channel, URLs, the onboarding screens.

## 9. Next

1. `Handshake`: `OneSession` when both devices ask, without reloads.
2. `GroupRoom`: the handlers without their folds over deferred events, as far as an invariant of the rosters goes.
3. `SignIn`: `KeysRecoverable` with several tabs and the section timer, without `InSection`.
