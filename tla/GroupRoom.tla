------------------------------- MODULE GroupRoom -------------------------------
(***************************************************************************)
(* One private group on the devices of its members: the membership calls    *)
(* and content calls of GroupService.ts at the sender, and the handler of   *)
(* applyGroupInbound.ts at the receiver.                                    *)
(*                                                                         *)
(* There is no server and no shared log.  Every device keeps a roster of    *)
(* its own, every envelope travels on the links of its sender, one queue    *)
(* per pair of devices, oldest first; what a device hears from two others   *)
(* is not ordered.  An envelope stays at the head of its queue until its    *)
(* handler is done, so a reload has it handled again (SendPath and Inbound  *)
(* are about the delivery itself).  The handlers of two senders run beside  *)
(* each other: every write of a handler is a step of its own; the reads that *)
(* come before a write are taken with it, except where another handler can  *)
(* make a difference, at the lookup of a target.                            *)
(***************************************************************************)
EXTENDS Naturals, Sequences, FiniteSets, FiniteSetsExt, SequencesExt, TLC

CONSTANTS
    Devices,  \* the accounts, one device each
    Founder,  \* the one encoded in the channel id
    Invited,  \* named at the creation, without the founder
    Links,    \* pairs {d, e} with an established Encrypted Link
    PackCap,  \* members that fit in the create envelope
    Quota,    \* GROUP_DEFERRED_QUOTA_PER_SENDER
    Faults,   \* see FaultNames
    Limit     \* bound: envelopes of each kind, of "all" kinds, and reloads ("crash")

(* early: members act before everybody has handled the creation.            *)
(* again: somebody who left or was removed is added again.                  *)
FaultNames == {"early", "again"}
MembershipOps == {"create", "add", "remove", "leave"}
Kinds == MembershipOps \cup {"message", "reaction", "edit", "delete"}
Targeted == {"reaction", "edit", "delete"}

ASSUME GroupRoomAssumption ==
    /\ Founder \in Devices /\ Invited \subseteq Devices \ {Founder}
    /\ \A l \in Links : l \subseteq Devices /\ Cardinality(l) = 2
    /\ \A x \in Invited : {Founder, x} \in Links
    /\ PackCap \in Nat \ {0} /\ Quota \in Nat \ {0}
    /\ Faults \subseteq FaultNames
    /\ Limit \in [Kinds \cup {"all", "crash"} -> Nat]

VARIABLES
    envelope, \* history: the envelopes of a device, in the order of their creation
    known,    \* devices that have the group_channels row
    member,   \* status of each account in each device's group_members
    rows,     \* group_messages of a device
    text,     \* the edits a device has applied: the last one of each message
    gone,     \* messages a device shows as deleted
    seen,     \* group_seen_events of a device
    deferred, \* group_deferred_events of a device, oldest first
    wire,     \* wire[s][d]: what s has queued for d
    handler,  \* handler[d][s]: where d is with the head of wire[s][d]
    todo,     \* statements a call of this device has still to run
    torn,     \* history: <<device, message>> that a reload left half done
    untold,   \* history: a reload came before an announcement
    raced,    \* history: reactions deferred after their target had arrived
    crashes   \* reloads so far

rosterVars == <<known, member>>
contentVars == <<rows, text, gone, seen, deferred>>
ghosts == <<torn, untold, raced, crashes>>
roomVars == <<envelope, rosterVars, contentVars, wire, handler, todo, ghosts>>

-------------------------------------------------------------------------------
(* Rosters                                                                   *)

Active(d, x) == member[d][x] = "active"
Roster(d) == {x \in Devices : Active(d, x)}

(* Only the creation writes the role admin, for its sender, and no statement *)
(* changes the role of a row.                                                *)
IsAdmin(d, x) == x = Founder /\ Active(d, x)

(* Mutant: a removed member is not told.                                     *)
RecipientsActive(d, extra) == {x \in Roster(d) \ {d} : {d, x} \in Links}

(* establishedFanoutRecipients                                               *)
Recipients(d, extra) == {x \in (Roster(d) \cup extra) \ {d} : {d, x} \in Links}

(* upsertActiveMember, markRemoved                                           *)
WithStatus(d, x, status) == [member EXCEPT ![d][x] = status]

(* insertInboundPrivateCreate: the members named, the sender and oneself.    *)
WithCreate(d, named) ==
    [member EXCEPT ![d] = [x \in Devices |->
        IF x \in named \cup {Founder, d} THEN "active" ELSE "none"]]

-------------------------------------------------------------------------------
(* GroupService: the calls of a member                                       *)

Calls(kinds) ==
    Cardinality(UNION {{<<d, i>> : i \in {k \in DOMAIN envelope[d] : envelope[d][k].kind \in kinds}}
                           : d \in Devices})
    + Cardinality(UNION {{<<d, i>> : i \in {k \in DOMAIN todo[d] :
                                 todo[d][k].do = "tell" /\ todo[d][k].e.kind \in kinds}}
                             : d \in Devices})

(* Two membership calls weigh three content calls; edits and deletions share *)
(* one bound.                                                                    *)
Weight(kind) == IF kind \in MembershipOps THEN 3 ELSE 2
Class(kind) == IF kind \in {"edit", "delete"} THEN {"edit", "delete"} ELSE {kind}
Spare(kind) ==
    /\ Calls(Class(kind)) < Limit[kind]
    /\ 2 * Calls(Kinds) + Calls(MembershipOps) + Weight(kind) <= Limit["all"]

(* An envelope is known by its author and its number there.                  *)
NewId(d) == <<d, Len(envelope[d]) + 1>>
Env(n) == envelope[n[1]][n[2]]

(* The creation and its add envelopes have been handled everywhere.          *)
Founded ==
    /\ Invited \subseteq known /\ todo[Founder] = <<>>
    /\ \A d \in Devices : \A i \in DOMAIN wire[Founder][d] :
           Env(wire[Founder][d][i]).batch # "founding"

May(d) == /\ todo[d] = <<>> /\ d \in known
          /\ "early" \in Faults \/ Founded

(* fanOutEnvelope: the row and an item for each recipient, in one            *)
(* transaction.  The roster is read with it.                                 *)
Emit(d, e, extra) ==
    LET n == NewId(d)
        to == Recipients(d, extra)
    IN  /\ envelope' = [envelope EXCEPT ![d] = Append(@, e @@ [from |-> d, to |-> to])]
        /\ rows' = [rows EXCEPT ![d] = @ \cup {n}]
        /\ wire' = [wire EXCEPT ![d] = [x \in Devices |->
                        IF x \in to THEN Append(@[x], n) ELSE @[x]]]

Op(op, subject, named) ==
    [kind |-> op, subject |-> subject, named |-> named, target |-> <<Founder, 0>>, batch |-> "later"]
Content(kind, target) ==
    [kind |-> kind, subject |-> Founder, named |-> {}, target |-> target, batch |-> "later"]

Tell(e, extra) == [do |-> "tell", e |-> e, extra |-> extra]
Change(e) == [do |-> e.kind, e |-> e, extra |-> {}]

(* packMembershipCreate: as many members as fit, with the founder.           *)
Packings == {named \in SUBSET Invited :
    /\ Cardinality(named) + 1 <= PackCap
    /\ named = Invited \/ Cardinality(named) + 1 = PackCap}

(* createChannel: the channel and the roster; the members that did not fit   *)
(* are announced by add envelopes.                                           *)
CreateChannel ==
    /\ known = {}
    /\ \E named \in Packings :
          LET founding(e) == Tell([e EXCEPT !.batch = "founding"], {})
              others == SetToSeq(Invited \ named)
          IN  todo' = [todo EXCEPT ![Founder] =
                  <<founding(Op("create", Founder, named))>>
                  \o [i \in DOMAIN others |-> founding(Op("add", others[i], {}))]]
    /\ known' = {Founder}
    /\ member' = WithCreate(Founder, Invited)
    /\ UNCHANGED <<envelope, contentVars, wire, handler, ghosts>>

(* addMember: an active member is returned as is.                            *)
AddMember(d, x) ==
    /\ May(d) /\ IsAdmin(d, d) /\ Spare("add")
    /\ ~Active(d, x) /\ {d, x} \in Links
    /\ "again" \in Faults \/ member[d][x] = "none"
    /\ member' = WithStatus(d, x, "active")
    /\ todo' = [todo EXCEPT ![d] = <<Tell(Op("add", x, {}), {})>>]
    /\ UNCHANGED <<known, envelope, contentVars, wire, handler, ghosts>>

(* removeMember: the removed member is told as well.                         *)
RemoveMember(d, x) ==
    /\ May(d) /\ IsAdmin(d, d) /\ Active(d, x) /\ Spare("remove")
    /\ member' = WithStatus(d, x, "removed")
    /\ todo' = [todo EXCEPT ![d] = <<Tell(Op("remove", x, {}), {x})>>]
    /\ UNCHANGED <<known, envelope, contentVars, wire, handler, ghosts>>

LeaveChannel(d) ==
    /\ May(d) /\ Active(d, d) /\ Spare("leave")
    /\ member' = WithStatus(d, d, "removed")
    /\ todo' = [todo EXCEPT ![d] = <<Tell(Op("leave", d, {}), {})>>]
    /\ UNCHANGED <<known, envelope, contentVars, wire, handler, ghosts>>

(* sendGroupMessage, reactToMessage: the envelope is the first statement.    *)
Post(d, kind, target) ==
    /\ May(d) /\ Active(d, d) /\ Spare(kind)
    /\ Emit(d, Content(kind, target), {})
    /\ UNCHANGED <<known, member, text, gone, seen, deferred, handler, ghosts>>

SendGroupMessage(d) == Post(d, "message", <<d, 0>>) /\ UNCHANGED todo

MessagesAt(d) == {m \in rows[d] : Env(m).kind = "message"}

ReactToMessage(d) ==
    \E m \in MessagesAt(d) : Post(d, "reaction", m) /\ UNCHANGED todo

(* editMessage, deleteMessage: the row itself changes after the fan-out.     *)
ChangeMessage(d, kind) ==
    \E m \in {k \in MessagesAt(d) : Env(k).from = d} :
        /\ Post(d, kind, m)
        /\ todo' = [todo EXCEPT ![d] = <<Change(Content(kind, m)
                                                @@ [id |-> NewId(d)])>>]

(* applyGroupMessageEdit, tombstoneGroupMessage                              *)
WithText(d, m, n) == [text EXCEPT ![d] = (m :> n) @@ @]
TextOf(d, m) == IF m \in DOMAIN text[d] THEN text[d][m] ELSE m
WithGone(d, m) == [gone EXCEPT ![d] = @ \cup {m}]

(* The next statement of a call.                                             *)
Continue(d) ==
    /\ todo[d] # <<>>
    /\ LET s == Head(todo[d]) IN
          \/ /\ s.do = "tell"
             /\ Emit(d, s.e, s.extra)
             /\ UNCHANGED <<text, gone>>
          \/ /\ s.do = "edit"
             /\ text' = WithText(d, s.e.target, s.e.id)
             /\ UNCHANGED <<envelope, rows, wire, gone>>
          \/ /\ s.do = "delete"
             /\ gone' = WithGone(d, s.e.target)
             /\ UNCHANGED <<envelope, rows, wire, text>>
    /\ todo' = [todo EXCEPT ![d] = Tail(@)]
    /\ UNCHANGED <<known, member, seen, deferred, handler, ghosts>>

-------------------------------------------------------------------------------
(* applyGroupInbound                                                         *)

Idle == [at |-> "idle", left |-> <<>>]
Goto(d, s, at) == handler' = [handler EXCEPT ![d][s] = [at |-> at, left |-> <<>>]]

(* markLinkStreamItemProcessed                                               *)
Done(d, s) ==
    /\ wire' = [wire EXCEPT ![s][d] = Tail(@)]
    /\ Goto(d, s, "idle")

(* Mutant: the number of an envelope counts without its author.              *)
HadUnscoped(d, n) == \E k \in rows[d] \cup seen[d] : k[2] = n[2]

(* hasGroupEvent                                                             *)
Had(d, n) ==
    \/ n \in rows[d] \cup seen[d]
    \/ \E i \in DOMAIN deferred[d] : deferred[d][i] = n

(* authorizeInbound, authorizeMembership                                     *)
Authorized(d, s, e) ==
    \/ e.kind = "create" /\ s = Founder /\ (d \in known => IsAdmin(d, s))
    \/ e.kind = "leave" /\ d \in known
    \/ e.kind \in {"add", "remove"} /\ d \in known /\ IsAdmin(d, s)
    \/ e.kind \notin MembershipOps /\ d \in known /\ Active(d, s)

(* applyMembership: a creation of a known channel only refreshes its name.   *)
AfterOp(d, e) ==
    CASE e.kind = "create" -> IF d \in known THEN member ELSE WithCreate(d, e.named)
      [] e.kind = "add" -> WithStatus(d, e.subject, "active")
      [] e.kind = "remove" -> WithStatus(d, e.subject, "removed")
      [] e.kind = "leave" -> WithStatus(d, e.from, "removed")

(* The head of the queue of s at d, when d is not in the middle of it.       *)
Next_(d, s) ==
    IF handler[d][s].at = "idle" /\ wire[s][d] # <<>> THEN {Head(wire[s][d])} ELSE {}
Admitted(d, s) == {n \in Next_(d, s) : ~Had(d, n) /\ Authorized(d, s, Env(n))}

(* An envelope handled before is only marked processed; one that is not      *)
(* authorized is remembered as seen.                                         *)
Refuse(d, s) ==
    \E n \in Next_(d, s) \ Admitted(d, s) :
        /\ seen' = IF Had(d, n) THEN seen ELSE [seen EXCEPT ![d] = @ \cup {n}]
        /\ Done(d, s)
        /\ UNCHANGED <<envelope, rosterVars, rows, text, gone, deferred, todo, ghosts>>

ApplyMembership(d, s) ==
    \E n \in Admitted(d, s) :
        /\ Env(n).kind \in MembershipOps
        /\ member' = AfterOp(d, Env(n))
        /\ known' = IF Env(n).kind = "create" THEN known \cup {d} ELSE known
        /\ Goto(d, s, "row")
        /\ UNCHANGED <<envelope, contentVars, wire, todo, ghosts>>

(* persistAdmitted                                                           *)
WithRow(d, n) == [rows EXCEPT ![d] = @ \cup {n}]

PersistOp(d, s) ==
    /\ handler[d][s].at = "row"
    /\ rows' = WithRow(d, Head(wire[s][d]))
    /\ Done(d, s)
    /\ UNCHANGED <<envelope, rosterVars, text, gone, seen, deferred, todo, ghosts>>

AdmitMessage(d, s) ==
    \E n \in Admitted(d, s) :
        /\ Env(n).kind = "message"
        /\ rows' = WithRow(d, n)
        /\ Goto(d, s, "list")
        /\ UNCHANGED <<envelope, rosterVars, text, gone, seen, deferred, wire, todo, ghosts>>

(* applyTargetedIfReady: the lookup of the target, and the row when it is    *)
(* there.  A reaction is done with that.                                     *)
AdmitTargeted(d, s) ==
    \E n \in Admitted(d, s) :
        LET e == Env(n) IN
        /\ e.kind \in Targeted
        /\ \/ e.target \notin rows[d] /\ Goto(d, s, "defer") /\ UNCHANGED <<rows, wire>>
           \/ /\ e.target \in rows[d]
              /\ rows' = WithRow(d, n)
              /\ IF e.kind = "reaction" THEN Done(d, s)
                 ELSE Goto(d, s, "effect") /\ UNCHANGED wire
        /\ UNCHANGED <<envelope, rosterVars, text, gone, seen, deferred, todo, ghosts>>

(* The edit or the tombstone of applyTargetedIfReady.                        *)
ApplyTargeted(d, s) ==
    /\ handler[d][s].at = "effect"
    /\ LET n == Head(wire[s][d])
           e == Env(n)
       IN  \/ e.kind = "edit" /\ text' = WithText(d, e.target, n) /\ UNCHANGED gone
           \/ e.kind = "delete" /\ gone' = WithGone(d, e.target) /\ UNCHANGED text
    /\ Done(d, s)
    /\ UNCHANGED <<envelope, rosterVars, rows, seen, deferred, todo, ghosts>>

OfSender(d, s) == SelectSeq(deferred[d], LAMBDA n : Env(n).from = s)

(* saveGroupDeferred: at the quota the oldest of the sender gives way.       *)
SaveDeferred(d, s) ==
    /\ handler[d][s].at = "defer"
    /\ LET n == Head(wire[s][d])
           over == IF Len(OfSender(d, s)) >= Quota THEN {Head(OfSender(d, s))} ELSE {}
       IN  /\ deferred' = [deferred EXCEPT ![d] =
                              Append(SelectSeq(@, LAMBDA k : k \notin over), n)]
           /\ seen' = [seen EXCEPT ![d] = @ \cup over]
           /\ raced' = IF Env(n).target \in rows[d] THEN raced \cup {n} ELSE raced
    /\ Done(d, s)
    /\ UNCHANGED <<envelope, rosterVars, rows, text, gone, todo, torn, untold, crashes>>

(* Mutant: only what the author of the target deferred.                      *)
WaitingOwn(d, m) ==
    SelectSeq(deferred[d], LAMBDA n : Env(n).target = m /\ Env(n).from = Env(m).from)

(* listGroupDeferredForTarget                                                *)
Waiting(d, m) == SelectSeq(deferred[d], LAMBDA n : Env(n).target = m)

ListDeferred(d, s) ==
    /\ handler[d][s].at = "list"
    /\ LET left == Waiting(d, Head(wire[s][d]))
       IN  IF left = <<>> THEN Done(d, s)
           ELSE /\ handler' = [handler EXCEPT ![d][s] = [at |-> "replay", left |-> left]]
                /\ UNCHANGED wire
    /\ UNCHANGED <<envelope, rosterVars, contentVars, todo, ghosts>>

(* applyDeferredForTarget, one event: history, effect, removal.              *)
ReplayDeferred(d, s) ==
    /\ handler[d][s].at = "replay"
    /\ LET n == Head(handler[d][s].left)
           e == Env(n)
       IN  /\ rows' = [rows EXCEPT ![d] = @ \cup {n}]
           /\ text' = IF e.kind = "edit" THEN WithText(d, e.target, n) ELSE text
           /\ gone' = IF e.kind = "delete" THEN WithGone(d, e.target) ELSE gone
           /\ deferred' = [deferred EXCEPT ![d] = SelectSeq(@, LAMBDA k : k # n)]
    /\ IF Len(handler[d][s].left) = 1 THEN Done(d, s)
       ELSE /\ handler' = [handler EXCEPT ![d][s].left = Tail(@)]
            /\ UNCHANGED wire
    /\ UNCHANGED <<envelope, rosterVars, seen, todo, ghosts>>

-------------------------------------------------------------------------------
(* A reload of the page of d: what was handled half is handled again, what   *)
(* a call had still to do is lost.                                           *)
HalfDone(d) ==
    {Env(Head(wire[s][d])).target : s \in {x \in Devices : handler[d][x].at = "effect"}}
    \cup {Head(wire[s][d]) : s \in {x \in Devices : handler[d][x].at \in {"list", "replay"}}}
    \cup {todo[d][i].e.target : i \in {k \in DOMAIN todo[d] : todo[d][k].do # "tell"}}

Crash(d) ==
    /\ crashes < Limit["crash"]
    /\ todo[d] # <<>> \/ \E s \in Devices : handler[d][s].at # "idle"
    /\ crashes' = crashes + 1
    /\ torn' = torn \cup ({d} \X HalfDone(d))
    /\ untold' = (untold \/ \E i \in DOMAIN todo[d] : todo[d][i].do = "tell")
    /\ handler' = [handler EXCEPT ![d] = [s \in Devices |-> Idle]]
    /\ todo' = [todo EXCEPT ![d] = <<>>]
    /\ UNCHANGED <<envelope, rosterVars, contentVars, wire, raced>>

-------------------------------------------------------------------------------
GrInit ==
    /\ envelope = [d \in Devices |-> <<>>] /\ known = {}
    /\ member = [d \in Devices |-> [x \in Devices |-> "none"]]
    /\ rows = [d \in Devices |-> {}]
    /\ text = [d \in Devices |-> <<>>]
    /\ gone = [d \in Devices |-> {}]
    /\ seen = [d \in Devices |-> {}]
    /\ deferred = [d \in Devices |-> <<>>]
    /\ wire = [d \in Devices |-> [x \in Devices |-> <<>>]]
    /\ handler = [d \in Devices |-> [s \in Devices |-> Idle]]
    /\ todo = [d \in Devices |-> <<>>]
    /\ torn = {} /\ untold = FALSE /\ raced = {} /\ crashes = 0

Call(d) ==
    \/ \E x \in Devices : AddMember(d, x) \/ RemoveMember(d, x)
    \/ LeaveChannel(d) \/ SendGroupMessage(d) \/ ReactToMessage(d)
    \/ \E kind \in {"edit", "delete"} : ChangeMessage(d, kind)

Handle(d, s) ==
    \/ Refuse(d, s) \/ ApplyMembership(d, s) \/ PersistOp(d, s)
    \/ AdmitMessage(d, s) \/ AdmitTargeted(d, s)
    \/ ApplyTargeted(d, s) \/ SaveDeferred(d, s)
    \/ ListDeferred(d, s) \/ ReplayDeferred(d, s)

GrNext ==
    \/ CreateChannel
    \/ \E d \in Devices : Call(d) \/ Continue(d) \/ Crash(d)
    \/ \E d, s \in Devices : Handle(d, s)

GrSpec == GrInit /\ [][GrNext]_roomVars

-------------------------------------------------------------------------------
(* Properties                                                                *)

(* Nothing is queued, handled or left to do.                                 *)
AtRest == \A d \in Devices :
    /\ todo[d] = <<>>
    /\ \A s \in Devices : wire[s][d] = <<>>

Joined == {d \in known : Active(d, d)}

(* Once everything is handled, the devices that count themselves members     *)
(* agree on who is: the members who have the group, and nobody a founder     *)
(* removed or who left.  Holds under reloads between any two statements of   *)
(* the handlers, which may run an operation twice; not after a reload that   *)
(* lost an announcement.                                                     *)
RostersAgree ==
    AtRest /\ ~untold => \A d, e \in Joined : Roster(d) = Roster(e)

(* Once everything is handled, a message reads the same at its author and at *)
(* every member it was sent to, the latest edit and the deletion included,   *)
(* as long as both count each other members; a reload between an edit's row  *)
(* and its effect is the one exception.                                      *)
HistoryAgrees ==
    AtRest => \A d \in Joined : \A m \in MessagesAt(d) :
        Env(m).from = d =>
            \A e \in Env(m).to \cap Joined :
                Active(d, e) /\ Active(e, d) /\ {<<d, m>>, <<e, m>>} \cap torn = {} =>
                    /\ m \in rows[e]
                    /\ TextOf(e, m) = TextOf(d, m)
                    /\ m \in gone[e] <=> m \in gone[d]

(* types/group.ts: what is deferred applies when its target arrives.         *)
DeferredApplies ==
    AtRest => \A d \in Devices : \A i \in DOMAIN deferred[d] :
        Env(deferred[d][i]).target \notin rows[d]

(* The same, but for a target that arrived between the lookup of the         *)
(* handler and its write, and for a reload before the replay.                *)
DeferredSettles ==
    AtRest => \A d \in Devices : \A i \in DOMAIN deferred[d] :
        LET n == deferred[d][i] IN
            Env(n).target \in rows[d] => n \in raced \/ <<d, Env(n).target>> \in torn

(* kinds-v1.md: a membership `add` is what lets an invited account join.     *)
AddedJoin ==
    AtRest /\ ~untold => \A d \in Joined : Roster(d) \subseteq known
===============================================================================
