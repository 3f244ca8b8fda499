---------------------------- MODULE TradeControl ----------------------------
(***************************************************************************)
(* The trade approval boundary of trade_control.py and the order journal   *)
(* of webull_paper.py: books with revised policies, proposals that an      *)
(* operator reviews, and dispatchers (console requests, execution jobs)    *)
(* that reserve a proposal, journal it and send it to the broker once.     *)
(*                                                                         *)
(* Every SQLite transaction is one action; a dispatch is several, with the *)
(* network between them, and may end after any.  A call the code rejects   *)
(* changes nothing and is no step.  A proposal ID fixes its whole intent   *)
(* (a changed one is rejected), so the intent is a constant of the ID.     *)
(*                                                                         *)
(* Operators whose names begin with Slip are wrong variants of the         *)
(* definition below them and no part of the specification.                 *)
(***************************************************************************)
EXTENDS Integers, Sequences, FiniteSetsExt

CONSTANTS
    Proposals,    \* proposal IDs
    Books,        \* execution books
    BookOf,       \* the book a proposal names
    Notional,     \* its quantity times its limit price
    Policies,     \* policies an operator may configure
    Dispatchers,  \* processes that dispatch
    Arming,       \* the live arming in each one's environment
    QuoteLife,    \* how long a quote stays fresh (60 seconds in the code)
    Life,         \* how long a proposal stays open (300 seconds)
    Batch,        \* proposals dispatch_ready takes at most (200)
    MaxRevisions, \* bound: policies of a book
    MaxDay,       \* bound: UTC days
    Unset         \* no proposal

Modes == {"shadow", "paper", "live"}
Policy == [mode: Modes, approval: BOOLEAN, admits: SUBSET Proposals, daily: Nat]

ASSUME IntentAssumption ==
    /\ BookOf \in [Proposals -> Books]
    /\ Notional \in [Proposals -> Nat \ {0}]
ASSUME PolicyAssumption == Policies \subseteq Policy
ASSUME ArmingAssumption == Arming \in [Dispatchers -> {"none", "live", "auto"}]
ASSUME BoundAssumption ==
    /\ QuoteLife \in Nat \ {0} /\ Life \in Nat /\ QuoteLife < Life
    /\ Batch \in Nat \ {0} /\ MaxRevisions \in Nat /\ MaxDay \in Nat \ {0}
ASSUME UnsetAssumption == Unset \notin Proposals

VARIABLES
    halted,    \* control_flags
    policies,  \* control_books: all policies of a book, the last is in force
    proposal,  \* trade_proposals; verdict is the review event of the proposal
    inbox,     \* trade_proposals' IDs in the order of their creation
    intents,   \* the order journal's row of a proposal
    posts,     \* modes of the order requests that have left for the broker
    today,     \* the UTC day
    dsp        \* the dispatchers' local state

vars == <<halted, policies, proposal, inbox, intents, posts, today, dsp>>

NoProposal == [state |-> "none", revision |-> 0, verdict |-> "none",
               fresh |-> 0, life |-> 0, day |-> 0]
Idle == [pc |-> "idle", ready |-> {}, proposal |-> Unset, mode |-> "shadow", answer |-> "none"]

Answers == {"unknown", "shadow_recorded", "response_received"}

Steps == {"idle", "batch", "quote", "journal", "post", "answered", "record"}

Rows ==
    [state: {"none", "pending", "approved", "rejected"} \cup Answers,
     revision: 0..MaxRevisions, verdict: {"none", "approved", "rejected"},
     fresh: 0..QuoteLife, life: 0..Life, day: 0..MaxDay]
Locals ==
    [pc: Steps, ready: SUBSET Proposals, proposal: Proposals \cup {Unset},
     mode: Modes, answer: Answers \cup {"none"}]

TypeOK ==
    /\ halted \in BOOLEAN
    /\ policies \in [Books -> Seq(Policies)]
    /\ \A b \in Books : Len(policies[b]) <= MaxRevisions
    /\ proposal \in [Proposals -> Rows]
    /\ inbox \in Seq(Proposals)
    /\ intents \in [Proposals -> {"none", "unknown", "response_received"}]
    /\ posts \in [Proposals -> Seq({"paper", "live"})]
    /\ today \in 1..MaxDay
    /\ dsp \in [Dispatchers -> Locals]

Init ==
    /\ halted = TRUE
    /\ policies = [b \in Books |-> <<>>]
    /\ proposal = [p \in Proposals |-> NoProposal]
    /\ inbox = <<>>
    /\ intents = [p \in Proposals |-> "none"]
    /\ posts = [p \in Proposals |-> <<>>]
    /\ today = 1
    /\ dsp = [d \in Dispatchers |-> Idle]

-----------------------------------------------------------------------------
(* The control database. *)

Revision(b) == Len(policies[b])
InForce(b) == policies[b][Revision(b)]

\* Live books need arming, unattended ones more of it, in the process that acts.
Armed(policy, d) ==
    policy.mode = "live" =>
        /\ Arming[d] # "none"
        /\ policy.approval \/ Arming[d] = "auto"

\* Every call draws a new revision, also for a policy the book had before.
ConfigureBook(b, policy) ==
    /\ \E d \in Dispatchers : Armed(policy, d)
    /\ Revision(b) < MaxRevisions
    /\ policies' = [policies EXCEPT ![b] = Append(@, policy)]
    /\ UNCHANGED <<halted, proposal, inbox, intents, posts, today, dsp>>

Halt(flag) ==
    /\ halted # flag
    /\ halted' = flag
    /\ UNCHANGED <<policies, proposal, inbox, intents, posts, today, dsp>>

\* The quote's age was checked before the transaction's wait for the lock.
Propose(p, fresh) ==
    LET b == BookOf[p] IN
    /\ proposal[p].state = "none"
    /\ Revision(b) > 0
    /\ p \in InForce(b).admits
    /\ proposal' = [proposal EXCEPT ![p] = [NoProposal EXCEPT
            !.state = "pending", !.revision = Revision(b), !.fresh = fresh, !.life = Life]]
    /\ inbox' = Append(inbox, p)
    /\ UNCHANGED <<halted, policies, intents, posts, today, dsp>>

Review(p, verdict) ==
    /\ proposal[p].state = "pending"
    /\ proposal[p].life > 0
    /\ proposal' = [proposal EXCEPT ![p].state = verdict, ![p].verdict = verdict]
    /\ UNCHANGED <<halted, policies, inbox, intents, posts, today, dsp>>

SlipSpentToday(b) ==
    MapThenSumSet(LAMBDA p : Notional[p],
        {p \in Proposals : BookOf[p] = b /\ proposal[p].day = today
                           /\ proposal[p].state = "response_received"})

\* Notional the book has reserved today, whatever became of it.
SpentToday(b) ==
    MapThenSumSet(LAMBDA p : Notional[p],
        {p \in Proposals : BookOf[p] = b /\ proposal[p].day = today})

UnderCap(p) == SpentToday(BookOf[p]) + Notional[p] <= InForce(BookOf[p]).daily

SlipCurrent(p) == proposal[p].life > 0

\* The proposal is open and was made under the policy in force.
Current(p) ==
    /\ proposal[p].life > 0
    /\ proposal[p].revision = Revision(BookOf[p])

SlipAuthorised(p) ==
    \/ proposal[p].state \in {"approved", "unknown"}
    \/ proposal[p].state = "pending" /\ ~InForce(BookOf[p]).approval

\* Approved by the operator, or pending in a book that needs no approval.
Authorised(p) ==
    \/ proposal[p].state = "approved"
    \/ proposal[p].state = "pending" /\ ~InForce(BookOf[p]).approval

\* dispatch() under the halt flag's and the proposal's row.
MayReserve(d, p) ==
    /\ ~halted
    /\ proposal[p].state # "none"
    /\ Armed(InForce(BookOf[p]), d)
    /\ Current(p)
    /\ Authorised(p)
    /\ proposal[p].fresh > 0
    /\ UnderCap(p)

-----------------------------------------------------------------------------
(* A dispatch. *)

\* After one proposal a batch takes its next one, and a single dispatch is done.
Done(d) ==
    dsp' = [dsp EXCEPT ![d] =
        IF dsp[d].ready = {} THEN Idle ELSE [Idle EXCEPT !.pc = "batch", !.ready = dsp[d].ready]]

\* First transaction: reserve the attempt and its notional before the network.
Reserve(d, p, rest) ==
    LET mode == InForce(BookOf[p]).mode IN
    /\ MayReserve(d, p)
    /\ proposal' = [proposal EXCEPT ![p].state = "unknown", ![p].day = today]
    /\ dsp' = [dsp EXCEPT ![d] =
            [pc |-> CASE mode = "shadow" -> "record" [] mode = "paper" -> "journal"
                      [] mode = "live" -> "quote",
             ready |-> rest, proposal |-> p, mode |-> mode,
             answer |-> IF mode = "shadow" THEN "shadow_recorded" ELSE "none"]]
    /\ UNCHANGED <<halted, policies, inbox, intents, posts, today>>

Dispatch(d, p) ==
    /\ dsp[d].pc = "idle"
    /\ Reserve(d, p, {})

\* dispatch_ready(): the oldest proposals that could be dispatched, by one read.
Ready(d, p) ==
    /\ Armed(InForce(BookOf[p]), d)
    /\ Current(p)
    /\ Authorised(p)
    /\ proposal[p].fresh > 0
    /\ UnderCap(p)

Older(p, q) == \E i, j \in DOMAIN inbox : i < j /\ inbox[i] = p /\ inbox[j] = q

ScanReady(d) ==
    LET found == {p \in Proposals : proposal[p].state # "none" /\ Ready(d, p)}
        ready == {p \in found : Cardinality({q \in found : Older(q, p)}) < Batch} IN
    /\ dsp[d].pc = "idle"
    /\ ready # {}
    /\ dsp' = [dsp EXCEPT ![d] = [Idle EXCEPT !.pc = "batch", !.ready = ready]]
    /\ UNCHANGED <<halted, policies, proposal, inbox, intents, posts, today>>

\* Each of them is dispatched by the same checks as any other, or refused now.
Foremost(d, p) == p \in dsp[d].ready /\ \A q \in dsp[d].ready : ~Older(q, p)

DispatchNext(d, p) ==
    /\ dsp[d].pc = "batch"
    /\ Foremost(d, p)
    /\ Reserve(d, p, dsp[d].ready \ {p})

RefuseNext(d, p) ==
    LET rest == dsp[d].ready \ {p} IN
    /\ dsp[d].pc = "batch"
    /\ Foremost(d, p)
    /\ ~MayReserve(d, p)
    /\ dsp' = [dsp EXCEPT ![d] = IF rest = {} THEN Idle ELSE [@ EXCEPT !.ready = rest]]
    /\ UNCHANGED <<halted, policies, proposal, inbox, intents, posts, today>>

QuoteAccepted(d) ==
    /\ dsp[d].pc = "quote"
    /\ dsp' = [dsp EXCEPT ![d].pc = "journal"]
    /\ UNCHANGED <<halted, policies, proposal, inbox, intents, posts, today>>

SlipQuoteRefused(d) ==
    /\ dsp[d].pc = "quote"
    /\ Done(d)
    /\ proposal' = [proposal EXCEPT ![dsp[d].proposal].state = "approved"]
    /\ UNCHANGED <<halted, policies, inbox, intents, posts, today>>

\* No quote, a stale one or one outside the collar: the reservation stays.
QuoteRefused(d) ==
    /\ dsp[d].pc = "quote"
    /\ Done(d)
    /\ UNCHANGED <<halted, policies, proposal, inbox, intents, posts, today>>

SlipJournal(d) ==
    /\ dsp[d].pc = "journal"
    /\ dsp' = [dsp EXCEPT ![d].pc = "post"]
    /\ UNCHANGED <<halted, policies, proposal, inbox, intents, posts, today>>

\* submit() journals the intent first; one already there is answered, not sent.
Journal(d) ==
    LET p == dsp[d].proposal IN
    /\ dsp[d].pc = "journal"
    /\ IF intents[p] = "none"
       THEN /\ intents' = [intents EXCEPT ![p] = "unknown"]
            /\ dsp' = [dsp EXCEPT ![d].pc = "post"]
       ELSE /\ dsp' = [dsp EXCEPT ![d].pc = "record", ![d].answer = intents[p]]
            /\ UNCHANGED intents
    /\ UNCHANGED <<halted, policies, proposal, inbox, posts, today>>

\* The request leaves; its answer arrives, or the transport raises.
Post(d, answered) ==
    /\ dsp[d].pc = "post"
    /\ posts' = [posts EXCEPT ![dsp[d].proposal] = Append(@, dsp[d].mode)]
    /\ IF answered THEN dsp' = [dsp EXCEPT ![d].pc = "answered"] ELSE Done(d)
    /\ UNCHANGED <<halted, policies, proposal, inbox, intents, today>>

\* Missing credentials or an unreachable host raise before anything is sent.
PostRaises(d) ==
    /\ dsp[d].pc = "post"
    /\ Done(d)
    /\ UNCHANGED <<halted, policies, proposal, inbox, intents, posts, today>>

JournalAnswer(d) ==
    /\ dsp[d].pc = "answered"
    /\ intents' = [intents EXCEPT ![dsp[d].proposal] = "response_received"]
    /\ dsp' = [dsp EXCEPT ![d].pc = "record", ![d].answer = "response_received"]
    /\ UNCHANGED <<halted, policies, proposal, inbox, posts, today>>

\* Last transaction: the control database learns the outcome.
RecordAnswer(d) ==
    /\ dsp[d].pc = "record"
    /\ proposal' = [proposal EXCEPT ![dsp[d].proposal].state = dsp[d].answer]
    /\ Done(d)
    /\ UNCHANGED <<halted, policies, inbox, intents, posts, today>>

\* The process dies, is killed by its watchdog, or a store call raises.
Crash(d) ==
    /\ dsp[d].pc # "idle"
    /\ dsp' = [dsp EXCEPT ![d] = Idle]
    /\ UNCHANGED <<halted, policies, proposal, inbox, intents, posts, today>>

-----------------------------------------------------------------------------
Earlier(n) == IF n > 0 THEN n - 1 ELSE 0

Tick ==
    /\ \E p \in Proposals : proposal[p].life > 0
    /\ proposal' = [p \in Proposals |->
            [proposal[p] EXCEPT !.fresh = Earlier(@), !.life = Earlier(@)]]
    /\ UNCHANGED <<halted, policies, inbox, intents, posts, today, dsp>>

NewDay ==
    /\ today < MaxDay
    /\ today' = today + 1
    /\ UNCHANGED <<halted, policies, proposal, inbox, intents, posts, dsp>>

DispatcherStep(d) ==
    \/ \E p \in Proposals : Dispatch(d, p) \/ DispatchNext(d, p) \/ RefuseNext(d, p)
    \/ ScanReady(d)
    \/ QuoteAccepted(d)
    \/ QuoteRefused(d)
    \/ Journal(d)
    \/ \E answered \in BOOLEAN : Post(d, answered)
    \/ PostRaises(d)
    \/ JournalAnswer(d)
    \/ RecordAnswer(d)
    \/ Crash(d)

Next ==
    \/ \E b \in Books, policy \in Policies : ConfigureBook(b, policy)
    \/ \E flag \in BOOLEAN : Halt(flag)
    \/ \E p \in Proposals, fresh \in 0..QuoteLife : Propose(p, fresh)
    \/ \E p \in Proposals, verdict \in {"approved", "rejected"} : Review(p, verdict)
    \/ \E d \in Dispatchers : DispatcherStep(d)
    \/ Tick
    \/ NewDay

Spec == Init /\ [][Next]_vars

-----------------------------------------------------------------------------
(* Properties. *)

Working(d, p) == dsp[d].proposal = p

\* One submission attempt per proposal, whatever crashes, times out or is asked
\* for twice: no two dispatchers ever work on it, the one that does left it
\* "unknown" for all others, and at most one order leaves (dispatch, submit).
OneAttempt ==
    \A p \in Proposals :
        /\ Len(posts[p]) <= 1
        /\ \A d, e \in Dispatchers : Working(d, p) /\ Working(e, p) => d = e
        /\ \A d \in Dispatchers : Working(d, p) => proposal[p].state = "unknown"

\* The policy a proposal was made under.
Terms(p) == policies[BookOf[p]][proposal[p].revision]

\* An order leaves only for a proposal the operator approved and did not reject, or
\* that its own book's policy let go unreviewed, and it goes where that policy
\* says: no later policy lends its authority or its mode (configure_book, review).
OrderAuthorised ==
    \A p \in Proposals : posts[p] # <<>> =>
        /\ proposal[p].verdict # "rejected"
        /\ proposal[p].verdict = "approved" \/ ~Terms(p).approval
        /\ p \in Terms(p).admits
        /\ posts[p] = <<Terms(p).mode>>

\* What a book reserves on a day under a policy and its predecessors stays within
\* that policy's daily cap, failed and unanswered attempts included (dispatch).
DailyCapRespected ==
    \A p \in Proposals : proposal[p].day > 0 =>
        MapThenSumSet(LAMBDA q : Notional[q],
            {q \in Proposals : /\ BookOf[q] = BookOf[p]
                               /\ proposal[q].day = proposal[p].day
                               /\ proposal[q].revision <= proposal[p].revision})
            <= Terms(p).daily

\* The two databases tell one story: an attempt is reserved in the first before it
\* is journaled in the second, journaled before it is sent, and only answered
\* orders count as answered (dispatch, submit).
RecordedBeforeSent ==
    \A p \in Proposals :
        /\ intents[p] # "none" =>
             proposal[p].day > 0 /\ proposal[p].state \in {"unknown", "response_received"}
        /\ posts[p] # <<>> => intents[p] # "none"
        /\ intents[p] = "response_received" => posts[p] # <<>>
        /\ proposal[p].state = "response_received" => intents[p] = "response_received"
        /\ proposal[p].state = "shadow_recorded" => intents[p] = "none"

\* A rejected, reserved or answered proposal is never open again: its state only
\* goes from unknown to an answer, its day and its terms are final.
NothingReopened ==
    [][\A p \in Proposals : proposal[p].state \in {"rejected"} \cup Answers =>
        /\ \/ proposal'[p].state = proposal[p].state
           \/ proposal[p].state = "unknown" /\ proposal'[p].state \in Answers
        /\ proposal'[p].day = proposal[p].day
        /\ proposal'[p].revision = proposal[p].revision]_vars
=============================================================================
