------------------------------- MODULE Bridge -------------------------------
(***************************************************************************)
(* The bridge between the Kolme chain and contracts on external chains.    *)
(* A contract numbers what happens to it as events; listeners poll them    *)
(* and attest to them on Kolme, which processes them in order once enough  *)
(* listeners agree.  Kolme numbers the actions it wants of a contract;     *)
(* approvers and the processor sign them, submitters send them, and the    *)
(* contract executes them in order and reports each as an event.  The      *)
(* validator set that both sides check against changes as in Governance.   *)
(*                                                                         *)
(* Events and actions are numbered from 1 here: event 0 of a contract is   *)
(* its own creation, which is over, and action 1 is BridgeActionId 0.      *)
(***************************************************************************)
EXTENDS Governance, Integers, FiniteSetsExt

CONSTANTS
  User,           \* wallets, and their accounts
  ListenerNode,   \* keys whose node runs a listener
  ApproverNode,   \* keys whose node runs an approver
  Submitter,      \* running submitters
  Orphan,         \* the sender of what nobody waits for any more
  NoKey,          \* no signature yet
  ChainOrder,     \* the chains, in the order of the chain map
  Deposits,       \* amounts users may send to a contract, 0 for none
  Withdrawals,    \* amounts users may withdraw, in Kolme's finer units
  Scale,          \* Kolme's units in one of the external chain's
  Wealth,         \* what each user has on the external chains at first
  MaxEvents,      \* bound on deposits: on the events of a contract before one
  MaxQueue,       \* bound on withdrawals: on the actions before one
  MaxFaults,      \* bound on crashes and lost messages
  Covered         \* whether users withdraw from a chain only what its book has

ASSUME BridgeAssumption ==
  /\ Upgrader = {}
  /\ IsFiniteSet(User) /\ IsFiniteSet(Chain)
  /\ ListenerNode \subseteq Key /\ ApproverNode \subseteq Key
  /\ Orphan \notin Key \cup Submitter /\ NoKey \notin Key
  /\ ChainOrder \in Seq(Chain)
  /\ \A c \in Chain : \E i \in DOMAIN ChainOrder : ChainOrder[i] = c
  /\ Deposits \subseteq Nat /\ Withdrawals \subseteq Nat
  /\ Scale \in Nat \ {0} /\ Wealth \in Nat
  /\ MaxEvents \in Nat /\ MaxQueue \in Nat /\ MaxFaults \in Nat
  /\ Covered \in BOOLEAN

VARIABLES
  \* On Kolme, for each chain:
  nextEvent,      \* the next event to be added to the pending ones
  pendingEvents,  \* events not processed yet, by id, with their attestations
  processed,      \* history: the events processed, in order
  actions,        \* all actions emitted, with the signatures they have
  done,           \* how many of them are confirmed; the others are pending
  assets,         \* the chain's book of what the contract holds
  balance,        \* accounts
  \* On the external chains:
  events,         \* each contract's events
  executed,       \* each contract's executed actions
  contractSet,    \* each contract's validator set
  funds,          \* what each contract holds
  wallet,         \* what users hold
  \* Components that carry events and actions across:
  listening,      \* the event each listener asks for next, or Down
  attesting,      \* listener transactions under way
  approving,      \* the actions each approver is about to approve
  submitted,      \* how many actions a submitter knows it has submitted
  outbox,         \* contract calls under way
  awake,          \* whether a block was announced since a component looked
  before,         \* each chain's first pending action before the last block
  faults

kolmeVars == <<nextEvent, pendingEvents, processed, actions, done, assets, balance>>
contractVars == <<events, executed, contractSet, funds, wallet>>
pathVars == <<listening, attesting, approving, submitted, outbox, faults>>
wakingVars == <<awake, before>>
carrierVars == <<pathVars, wakingVars>>
bridgeVars == <<kolmeVars, contractVars, carrierVars>>
allVars == <<vars, bridgeVars>>

-----------------------------------------------------------------------------
\* Events and actions.

Regular(u, n) == [kind |-> "regular", user |-> u, amount |-> n]
Signed(id) == [kind |-> "signed", id |-> id]
Transfer(u, n) == [kind |-> "transfer", user |-> u, amount |-> n]

Unsigned(a) == [action |-> a, approvals |-> {}, processor |-> NoKey]

\* What an event or an action moves for u: a deposit or a transfer of hers.
Due(item, u) ==
  IF item.kind \in {"regular", "transfer"} /\ item.user = u THEN item.amount ELSE 0

Total(items, u) == SumFunction([i \in DOMAIN items |-> Due(items[i], u)])

\* What they move for all users.
Moved(items) == SumFunction([u \in User |-> Total(items, u)])

\* Action i is the first pending one on c.
IsHead(c, i) == i = done[c] + 1 /\ i \in DOMAIN actions[c]

\* What the state says of each chain's first pending action, none having the id 0.
NoneNext == [id |-> 0, approvals |-> {}, processor |-> NoKey]

NextBridgeAction(c) ==
  IF done[c] < Len(actions[c])
  THEN [id |-> done[c] + 1, approvals |-> actions[c][done[c] + 1].approvals,
        processor |-> actions[c][done[c] + 1].processor]
  ELSE NoneNext

Pending == [c \in Chain |-> NextBridgeAction(c)]

-----------------------------------------------------------------------------
\* Approvers and submitters look at the state when a block wakes them.  A block
\* is announced before the state moves to it, so that who is quick finds the
\* state before it, and does not look again until the next block.

Announced ==
  /\ awake' = [x \in ApproverNode \cup Submitter |-> TRUE]
  /\ before' = Pending

\* A block that leaves the bridge alone.
QuietBlock == Announced /\ UNCHANGED <<vars, kolmeVars, contractVars, pathVars>>

FallsAsleep(x) == awake' = [awake EXCEPT ![x] = FALSE] /\ UNCHANGED before

\* A component that is started again looks at once.
StartsAgain(x) == awake' = [awake EXCEPT ![x] = TRUE] /\ UNCHANGED before

-----------------------------------------------------------------------------
\* Kolme: attestations, and the events that become ready.

Quorum(e) ==
  Cardinality(e.attested \cap valset.listeners) >= valset.neededListeners

\* The events before which none lacks attestations.
Ready(pend) ==
  {id \in DOMAIN pend : \A i \in DOMAIN pend : i <= id => Quorum(pend[i])}

Attested(l, c, id, e) ==
  LET old == IF id \in DOMAIN pendingEvents[c]
             THEN pendingEvents[c][id].attested ELSE {}
  IN  With(pendingEvents[c], id, [event |-> e, attested |-> old \cup {l}])

SignedIn(pend, ids) == {i \in ids : pend[i].event.kind = "signed"}

\* The numbers in S, in order.
Ascending(S) ==
  CHOOSE f \in [1..Cardinality(S) -> S] :
    \A i, j \in 1..Cardinality(S) : i < j => f[i] < f[j]

\* A confirmation must be of the first pending action when its turn comes, else
\* the whole transaction fails.
ConfirmsInOrder(c, pend) ==
  \A i \in SignedIn(pend, Ready(pend)) :
    LET k == Cardinality({j \in SignedIn(pend, Ready(pend)) : j <= i})
    IN  pend[i].event.id = done[c] + k /\ done[c] + k <= Len(actions[c])

Attestable(l, c, id, e) ==
  /\ l \in valset.listeners
  /\ IF id \in DOMAIN pendingEvents[c]
     THEN /\ pendingEvents[c][id].event = e
          /\ l \notin pendingEvents[c][id].attested
     ELSE id = nextEvent[c]
  /\ ConfirmsInOrder(c, Attested(l, c, id, e))

Remaining_All(pend, ready) == pend

\* What has been processed is not pending any more.
Remaining(pend, ready) == [i \in DOMAIN pend \ ready |-> pend[i]]

Process(c, pend) ==
  LET ready == Ready(pend)
      credit == [i \in ready |-> pend[i].event]
      order == Ascending(ready)
  IN  /\ pendingEvents' = [pendingEvents EXCEPT ![c] = Remaining(pend, ready)]
      /\ processed' = [processed EXCEPT
           ![c] = @ \o [i \in 1..Cardinality(ready) |-> pend[order[i]].event]]
      /\ balance' = [u \in User |-> balance[u] + Scale * Total(credit, u)]
      /\ assets' = [assets EXCEPT ![c] = @ + Scale * Moved(credit)]
      /\ done' = [done EXCEPT ![c] = @ + Cardinality(SignedIn(pend, ready))]

Attest(l, c, id, e) ==
  /\ Attestable(l, c, id, e)
  /\ nextEvent' = [nextEvent EXCEPT ![c] = IF id = @ THEN id + 1 ELSE @]
  /\ Process(c, Attested(l, c, id, e))
  /\ UNCHANGED actions

-----------------------------------------------------------------------------
\* Kolme: actions and their signatures.

Emits(c, a) == actions' = [actions EXCEPT ![c] = Append(@, Unsigned(a))]

\* What the account does not have in whole external units stays in it.
Rounded(x) == x \div Scale
Burnt_Unrounded(x) == x
Burnt(x) == Rounded(x) * Scale

\* The book is charged with the amount that was asked for.
Withdraw(u, c, x) ==
  /\ Len(actions[c]) < MaxQueue
  /\ 0 < Burnt(x) /\ Burnt(x) <= balance[u]
  /\ balance' = [balance EXCEPT ![u] = @ - Burnt(x)]
  /\ assets' = [assets EXCEPT ![c] = @ - x]
  /\ Emits(c, Transfer(u, Rounded(x)))
  /\ UNCHANGED <<nextEvent, pendingEvents, processed, done>>

Approvable(k, c, i) ==
  /\ i \in DOMAIN actions[c] /\ done[c] < i
  /\ k \in valset.approvers
  /\ k \notin actions[c][i].approvals

Approve(k, c, i) ==
  /\ Approvable(k, c, i)
  /\ actions' = [actions EXCEPT ![c][i].approvals = @ \cup {k}]
  /\ UNCHANGED <<nextEvent, pendingEvents, processed, done, assets, balance>>

\* What the chain accepts: the signatures are of approvers of today.
ProcessorApprovable(c, i) ==
  /\ i \in DOMAIN actions[c] /\ done[c] < i
  /\ Cardinality(actions[c][i].approvals \cap valset.approvers)
       >= valset.neededApprovers
  /\ actions[c][i].processor = NoKey

\* The processor signs the first pending action, and no other.
ProcessorApproves(c) ==
  /\ \E i \in DOMAIN actions[c] :
       /\ IsHead(c, i) /\ ProcessorApprovable(c, i)
       /\ actions' = [actions EXCEPT ![c][i].processor = valset.processor]
  /\ Announced
  /\ UNCHANGED <<nextEvent, pendingEvents, processed, done, assets, balance>>
  /\ UNCHANGED <<vars, contractVars, pathVars>>

UserWithdraws ==
  /\ \E u \in User, c \in Chain, x \in Withdrawals :
       (Covered => x <= assets[c]) /\ Withdraw(u, c, x)
  /\ Announced
  /\ UNCHANGED <<vars, contractVars, pathVars>>

\* A change of the validator set: every chain gets the action, a migration only
\* its own.
Concerns(a, c) == a.kind = "migrate" => a.chain = c

Governs ==
  /\ OperatorReplaces \/ OperatorProposes \/ OperatorVotes
  /\ actions' = [c \in Chain |->
       IF emitted' # emitted /\ Concerns(emitted'[Len(emitted')], c)
       THEN Append(actions[c], Unsigned(emitted'[Len(emitted')]))
       ELSE actions[c]]
  /\ Announced
  /\ UNCHANGED <<nextEvent, pendingEvents, processed, done, assets, balance>>
  /\ UNCHANGED <<contractVars, pathVars>>

-----------------------------------------------------------------------------
\* The bridge contract.

\* A user sends funds, or only a key to register, to the contract.
UserDeposits ==
  /\ \E u \in User, c \in Chain, n \in Deposits :
       /\ Len(events[c]) < MaxEvents
       /\ n <= wallet[u]
       /\ wallet' = [wallet EXCEPT ![u] = @ - n]
       /\ funds' = [funds EXCEPT ![c] = @ + n]
       /\ events' = [events EXCEPT ![c] = Append(@, Regular(u, n))]
  /\ UNCHANGED <<executed, contractSet>>
  /\ UNCHANGED <<vars, kolmeVars, carrierVars>>

SetAfter(s, a) == IF a.kind = "transfer" THEN s ELSE ContractTakes(s, a)

\* The processor and the approvers that must have signed are those of the set
\* the action leads to.
SignaturesSuffice(s, m) ==
  /\ m.processor = SetAfter(s, m.action).processor
  /\ Cardinality(m.approvals \cap SetAfter(s, m.action).approvers)
       >= SetAfter(s, m.action).neededApprovers

Accepts_AnyId(c, m) ==
  /\ ContractAccepts(contractSet[c], m.action)
  /\ SignaturesSuffice(contractSet[c], m)
  /\ m.action.kind = "transfer" => m.action.amount <= funds[c]

Accepts(c, m) ==
  /\ m.id = Len(executed[c]) + 1
  /\ ContractAccepts(contractSet[c], m.action)
  /\ SignaturesSuffice(contractSet[c], m)
  /\ m.action.kind = "transfer" => m.action.amount <= funds[c]

Pay(c, a) ==
  \/ /\ a.kind = "transfer"
     /\ funds' = [funds EXCEPT ![c] = @ - a.amount]
     /\ wallet' = [wallet EXCEPT ![a.user] = @ + a.amount]
  \/ a.kind # "transfer" /\ UNCHANGED <<funds, wallet>>

Execute(c, m) ==
  /\ Accepts(c, m)
  /\ contractSet' = [contractSet EXCEPT ![c] = SetAfter(@, m.action)]
  /\ Pay(c, m.action)
  /\ executed' = [executed EXCEPT ![c] = Append(@, m.action)]
  /\ events' = [events EXCEPT ![c] = Append(@, Signed(m.id))]

-----------------------------------------------------------------------------
\* Listeners.  A listener asks its contracts for their next events, one
\* transaction at a time for each; when one fails, the listener ends, for all
\* of its chains, and is started again.

Down == 0

Attestation(l, c, id, from) == [key |-> l, chain |-> c, id |-> id, from |-> from]

Waits(l, c) == \E t \in attesting : t.from = l /\ t.chain = c

\* What is under way when the one who waits for it is gone.
Orphaned(S, l) == {IF t.from = l THEN [t EXCEPT !.from = Orphan] ELSE t : t \in S}

ListenerSends(l, c) ==
  /\ listening[l][c] # Down
  /\ ~Waits(l, c)
  /\ listening[l][c] <= Len(events[c])
  /\ attesting' = attesting \cup {Attestation(l, c, listening[l][c], l)}
  /\ UNCHANGED <<listening, approving, submitted, outbox, faults>>
  /\ UNCHANGED <<vars, kolmeVars, contractVars, wakingVars>>

ListenerLands(t) ==
  /\ t \in attesting
  /\ Attest(t.key, t.chain, t.id, events[t.chain][t.id])
  /\ attesting' = attesting \ {t}
  /\ listening' = IF t.from = Orphan THEN listening
                  ELSE [listening EXCEPT ![t.key][t.chain] = t.id + 1]
  /\ Announced
  /\ UNCHANGED <<approving, submitted, outbox, faults>>
  /\ UNCHANGED <<vars, contractVars>>

Stops(l) == listening' = [listening EXCEPT ![l] = [c \in Chain |-> Down]]

ListenerFails(t) ==
  /\ t \in attesting
  /\ ~Attestable(t.key, t.chain, t.id, events[t.chain][t.id])
  /\ attesting' = Orphaned(attesting \ {t}, t.from)
  /\ IF t.from = Orphan THEN UNCHANGED listening ELSE Stops(t.key)
  /\ UNCHANGED <<approving, submitted, outbox, faults>>
  /\ UNCHANGED <<vars, kolmeVars, contractVars, wakingVars>>

ListenerCrashes(l) ==
  /\ faults < MaxFaults
  /\ listening[l] # [c \in Chain |-> Down]
  /\ faults' = faults + 1
  /\ Stops(l)
  /\ attesting' = Orphaned(attesting, l)
  /\ UNCHANGED <<approving, submitted, outbox>>
  /\ UNCHANGED <<vars, kolmeVars, contractVars, wakingVars>>

NextBridgeEvent_Newest(l, c) == nextEvent[c]

\* The first pending event l has not attested to, or else the next one.
NextBridgeEvent(l, c) ==
  LET mine == {id \in DOMAIN pendingEvents[c] :
                 l \notin pendingEvents[c][id].attested}
  IN  CHOOSE id \in mine \cup {nextEvent[c]} :
        \A i \in mine \cup {nextEvent[c]} : id <= i

ListenerStarts(l) ==
  /\ listening[l] = [c \in Chain |-> Down]
  /\ listening' = [listening EXCEPT ![l] = [c \in Chain |-> NextBridgeEvent(l, c)]]
  /\ UNCHANGED <<attesting, approving, submitted, outbox, faults>>
  /\ UNCHANGED <<vars, kolmeVars, contractVars, wakingVars>>

-----------------------------------------------------------------------------
\* Approvers.  In one state, each looks for the first pending actions that it has
\* not approved, and approves them one after the other, waiting for each of these
\* transactions; when one fails, the approver ends and is started again.

Approval(c, i) == [chain |-> c, id |-> i]

ApproverLooks(k) ==
  /\ awake[k] /\ approving[k] = {}
  /\ \E heads \in {Pending, before} :
       approving' = [approving EXCEPT
         ![k] = {Approval(c, heads[c].id) : c \in
                   {c \in Chain : heads[c] # NoneNext /\ k \notin heads[c].approvals}}]
  /\ FallsAsleep(k)
  /\ UNCHANGED <<listening, attesting, submitted, outbox, faults>>
  /\ UNCHANGED <<vars, kolmeVars, contractVars>>

\* The one whose turn it is, in the order of the chain map.
Foremost(t, S) ==
  /\ t \in S
  /\ \E i \in DOMAIN ChainOrder :
       /\ ChainOrder[i] = t.chain
       /\ \A j \in 1..(i - 1), r \in S : r.chain # ChainOrder[j]

ApproverLands(k) ==
  /\ \E t \in approving[k] :
       /\ Foremost(t, approving[k])
       /\ Approve(k, t.chain, t.id)
       /\ approving' = [approving EXCEPT ![k] = @ \ {t}]
  /\ Announced
  /\ UNCHANGED <<listening, attesting, submitted, outbox, faults>>
  /\ UNCHANGED <<vars, contractVars>>

ApproverFails(k) ==
  /\ \E t \in approving[k] :
       Foremost(t, approving[k]) /\ ~Approvable(k, t.chain, t.id)
  /\ approving' = [approving EXCEPT ![k] = {}]
  /\ StartsAgain(k)
  /\ UNCHANGED <<listening, attesting, submitted, outbox, faults>>
  /\ UNCHANGED <<vars, kolmeVars, contractVars>>

-----------------------------------------------------------------------------
\* Submitters.  Each looks at the first chain that has a pending action, and at
\* no other, and waits for its call; when that fails, the submitter ends and is
\* started again, with no memory of what it has submitted.

\* It reads the state anew for every chain: the block may move it in between.
Readings ==
  {[c \in Chain |-> IF \E i \in 1..n : ChainOrder[i] = c
                    THEN before[c] ELSE NextBridgeAction(c)] :
     n \in 0..Len(ChainOrder)}

Call(c, head, from) ==
  [chain |-> c, id |-> head.id, action |-> actions[c][head.id].action,
   approvals |-> head.approvals, processor |-> head.processor, from |-> from]

Turn_FirstChain(heads, c) == ChainOrder[1] = c /\ heads[c] # NoneNext

Turn(heads, c) ==
  \E i \in DOMAIN ChainOrder :
    /\ ChainOrder[i] = c /\ heads[c] # NoneNext
    /\ \A j \in 1..(i - 1) : heads[ChainOrder[j]] = NoneNext

\* The processor has signed it, and it is not known to be submitted.
ToSubmit(s, c, head) ==
  /\ head.id \in DOMAIN actions[c]
  /\ head.processor # NoKey
  /\ submitted[s][c] < head.id

SubmitterLooks(s) ==
  /\ awake[s] /\ \A m \in outbox : m.from # s
  /\ \E heads \in Readings :
       outbox' = outbox \cup
         {Call(c, heads[c], s) : c \in
            {c \in Chain : Turn(heads, c) /\ ToSubmit(s, c, heads[c])}}
  /\ FallsAsleep(s)
  /\ UNCHANGED <<listening, attesting, approving, submitted, faults>>
  /\ UNCHANGED <<vars, kolmeVars, contractVars>>

Forgets(s) ==
  /\ submitted' = [submitted EXCEPT ![s] = [c \in Chain |-> 0]]
  /\ StartsAgain(s)

CallExecutes(m) ==
  /\ m \in outbox
  /\ Execute(m.chain, m)
  /\ outbox' = outbox \ {m}
  /\ submitted' = IF m.from = Orphan THEN submitted
                  ELSE [submitted EXCEPT ![m.from][m.chain] = m.id]
  /\ UNCHANGED <<listening, attesting, approving, faults>>
  /\ UNCHANGED <<vars, kolmeVars, wakingVars>>

CallIsRejected(m) ==
  /\ m \in outbox
  /\ ~Accepts(m.chain, m)
  /\ outbox' = outbox \ {m}
  /\ IF m.from = Orphan THEN UNCHANGED <<submitted, wakingVars>> ELSE Forgets(m.from)
  /\ UNCHANGED <<listening, attesting, approving, faults>>
  /\ UNCHANGED <<vars, kolmeVars, contractVars>>

CallIsLost(m) ==
  /\ faults < MaxFaults
  /\ m \in outbox
  /\ faults' = faults + 1
  /\ outbox' = outbox \ {m}
  /\ IF m.from = Orphan THEN UNCHANGED <<submitted, wakingVars>> ELSE Forgets(m.from)
  /\ UNCHANGED <<listening, attesting, approving>>
  /\ UNCHANGED <<vars, kolmeVars, contractVars>>

SubmitterCrashes(s) ==
  /\ faults < MaxFaults
  /\ faults' = faults + 1
  /\ outbox' = Orphaned(outbox, s)
  /\ Forgets(s)
  /\ UNCHANGED <<listening, attesting, approving>>
  /\ UNCHANGED <<vars, kolmeVars, contractVars>>

-----------------------------------------------------------------------------
BridgeInit ==
  /\ Init
  /\ nextEvent = [c \in Chain |-> 1]
  /\ pendingEvents = [c \in Chain |-> << >>]
  /\ processed = [c \in Chain |-> << >>]
  /\ actions = [c \in Chain |-> << >>]
  /\ done = [c \in Chain |-> 0]
  /\ assets = [c \in Chain |-> 0]
  /\ balance = [u \in User |-> 0]
  /\ events = [c \in Chain |-> << >>]
  /\ executed = [c \in Chain |-> << >>]
  /\ contractSet = [c \in Chain |-> InitialSet]
  /\ funds = [c \in Chain |-> 0]
  /\ wallet = [u \in User |-> Wealth]
  /\ listening = [l \in ListenerNode |-> [c \in Chain |-> 1]]
  /\ attesting = {}
  /\ approving = [k \in ApproverNode |-> {}]
  /\ submitted = [s \in Submitter |-> [c \in Chain |-> 0]]
  /\ outbox = {}
  /\ awake = [x \in ApproverNode \cup Submitter |-> TRUE]
  /\ before = [c \in Chain |-> NoneNext]
  /\ faults = 0

ListenerStep(l) ==
  \/ ListenerStarts(l)
  \/ \E c \in Chain : ListenerSends(l, c)

AttestationStep == \E t \in attesting : ListenerLands(t) \/ ListenerFails(t)

ApproverStep(k) ==
  ApproverLooks(k) \/ ApproverLands(k) \/ ApproverFails(k)

CallStep == \E m \in outbox : CallExecutes(m) \/ CallIsRejected(m)

ProcessorStep == \E c \in Chain : ProcessorApproves(c)

BridgeNext ==
  \/ UserDeposits \/ UserWithdraws \/ Governs \/ QuietBlock
  \/ ProcessorStep \/ AttestationStep \/ CallStep
  \/ \E l \in ListenerNode : ListenerStep(l) \/ ListenerCrashes(l)
  \/ \E k \in ApproverNode : ApproverStep(k)
  \/ \E s \in Submitter : SubmitterLooks(s) \/ SubmitterCrashes(s)
  \/ \E m \in outbox : CallIsLost(m)

BridgeSpec == BridgeInit /\ [][BridgeNext]_allVars

\* Every component's loop keeps running, and transactions and calls that were
\* sent are decided.  The processor looks at its actions after each block that
\* it makes, in the state that the block has led to; an approver or a submitter
\* looks when it has been woken.  Nothing is assumed of users, operators, faults
\* and other blocks.
FairBridgeSpec ==
  /\ BridgeSpec
  /\ WF_allVars(ProcessorStep)
  /\ WF_allVars(CallStep)
  /\ \A l \in ListenerNode :
       /\ WF_allVars(ListenerStep(l))
       /\ WF_allVars(\E t \in attesting :
            t.key = l /\ (ListenerLands(t) \/ ListenerFails(t)))
  /\ \A k \in ApproverNode : WF_allVars(ApproverStep(k))
  /\ \A s \in Submitter : WF_allVars(SubmitterLooks(s))

-----------------------------------------------------------------------------
\* Properties.

\* Deposits the chain has not credited yet, and withdrawals not paid yet.
Uncredited(c) ==
  Moved([i \in (Len(processed[c]) + 1)..Len(events[c]) |-> events[c][i]])

Unpaid(c) ==
  Moved([i \in (Len(executed[c]) + 1)..Len(actions[c]) |-> actions[c][i].action])

\* What the contracts hold is what accounts have and what is on its way, to the
\* last unit: nothing is credited or paid twice, whatever is retried, and what
\* rounding leaves stays in the account (execute.rs process_ready_events and
\* withdraw_asset, the contract's regular and signed).
FundsConserved ==
  Scale * SumFunction(funds) =
    SumFunction(balance)
      + Scale * SumFunction([c \in Chain |-> Uncredited(c) + Unpaid(c)])

EventLink ==
  INSTANCE OrderedLink WITH Link <- Chain, sent <- events, taken <- processed

ActionLink ==
  INSTANCE OrderedLink WITH Link <- Chain, taken <- executed,
    sent <- [c \in Chain |-> [i \in DOMAIN actions[c] |-> actions[c][i].action]]

\* Kolme processes what happens to a contract once and in order, and a contract
\* executes what Kolme emits once and in order, with listeners and submitters
\* that crash, repeat themselves and race (execute.rs listener, the contract's
\* signed).
TakenInOrder == EventLink!Spec /\ ActionLink!Spec

\* Every deposit is credited in the end, whatever crashes or is lost on the way
\* (listener).
EventsProcessed ==
  \A c \in Chain, k \in 1..(MaxEvents + MaxQueue + MaxActions) :
    Len(events[c]) >= k ~> Len(processed[c]) >= k

\* Every action is approved, signed, executed and confirmed in the end as long as
\* other blocks keep coming, whatever crashes or is lost on the way, although who
\* is woken by a block may look too early and then sleeps until the next one
\* (approver, processor, submitter, listener).
ActionsConfirmed ==
  []<><<QuietBlock>>_allVars =>
    \A c \in Chain, k \in 1..(MaxQueue + MaxActions) :
      Len(actions[c]) >= k ~> done[c] >= k
=============================================================================
