------------------------------ MODULE Governance ----------------------------
(***************************************************************************)
(* The validator set and its changes, as transactions on the Kolme chain   *)
(* make them.  A validator may replace its own key at once; a new set, a   *)
(* contract migration or a version upgrade is proposed, voted for, and     *)
(* takes effect when two of the three groups (processor, listeners,        *)
(* approvers) of the current set have voted for it.  Changes that the      *)
(* bridge contracts must follow are emitted as bridge actions.  The        *)
(* upgrader component proposes and votes by itself.                        *)
(***************************************************************************)
EXTENDS Naturals, FiniteSets, Sequences

CONSTANTS
  Key,             \* signing keys
  Version,         \* chain versions
  Chain,           \* external chains
  InitialSet,      \* the validator set of the genesis
  InitialVersion,  \* the chain version of the genesis
  OpenPayload,     \* what operators propose by hand, a subset of Payload
  Replacements,    \* the replacements of own keys, pairs <<old, new>>
  Upgrader,        \* keys whose node runs the upgrader
  Desired,         \* [Upgrader -> Version], the version it is told to reach
  MaxProposals,    \* bound on the number of proposals
  MaxActions,      \* bound on the number of bridge actions emitted
  Careful,         \* whether operators only take fresh keys as replacements
  NoIntent         \* an upgrader that waits for no transaction

ValidatorSet ==
  [processor : Key,
   listeners : SUBSET Key, neededListeners : Nat,
   approvers : SUBSET Key, neededApprovers : Nat]

NewSetPayload(s) == [kind |-> "newSet", set |-> s]
MigratePayload(c) == [kind |-> "migrate", chain |-> c]
UpgradePayload(v) == [kind |-> "upgrade", version |-> v]

Payload ==
  [kind : {"newSet"}, set : ValidatorSet] \cup
  [kind : {"migrate"}, chain : Chain] \cup
  [kind : {"upgrade"}, version : Version]

Valid(s) ==
  /\ 0 < s.neededListeners /\ s.neededListeners <= Cardinality(s.listeners)
  /\ 0 < s.neededApprovers /\ s.neededApprovers <= Cardinality(s.approvers)

ASSUME GovernanceAssumption ==
  /\ IsFiniteSet(Key)
  /\ InitialSet \in ValidatorSet /\ Valid(InitialSet)
  /\ InitialVersion \in Version
  /\ OpenPayload \subseteq Payload
  /\ Replacements \subseteq Key \X Key
  /\ Upgrader \subseteq Key
  /\ Desired \in [Upgrader -> Version]
  /\ MaxProposals \in Nat /\ MaxActions \in Nat
  /\ Careful \in BOOLEAN

VARIABLES
  valset,        \* the current validator set
  version,       \* the current chain version
  proposals,     \* pending proposals, by id
  nextProposal,  \* the id of the next proposal
  emitted,       \* the bridge actions emitted by admin messages, in order
  sets,          \* history: the initial set, and the set after each action
  intent,        \* the transaction each upgrader waits for, or NoIntent
  woken,         \* whether a block was announced since the upgrader looked
  earlier        \* the state before the last block, in the upgrader's process

chainVars == <<valset, version, proposals, nextProposal, emitted, sets>>
upgraderVars == <<intent, woken, earlier>>
vars == <<chainVars, upgraderVars>>

-----------------------------------------------------------------------------
\* Groups and votes.

IsValidator(s, k) == k \in {s.processor} \cup s.listeners \cup s.approvers

Fulfills(votes, group, needed) == Cardinality(votes \cap group) >= needed

\* The groups of s whose members in votes are enough to speak for the group.
GroupsFor(s, votes) ==
  (IF s.processor \in votes THEN {"processor"} ELSE {}) \cup
  (IF Fulfills(votes, s.listeners, s.neededListeners)
   THEN {"listeners"} ELSE {}) \cup
  (IF Fulfills(votes, s.approvers, s.neededApprovers)
   THEN {"approvers"} ELSE {})

\* An upgrade also needs the processor's vote, to keep it in step.
Sufficient(s, p) ==
  /\ p.payload.kind = "upgrade" => s.processor \in p.votes
  /\ Cardinality(GroupsFor(s, p.votes)) >= 2

NoProposals == [id \in {} |-> NoIntent]

Approved(ps) == {id \in DOMAIN ps : Sufficient(valset, ps[id])}
First(id, ids) == id \in ids /\ \A i \in ids : id <= i

-----------------------------------------------------------------------------
\* What follows every new proposal and every vote: the first proposal that has
\* the votes takes effect, and then all of them are dropped.

NewSetAction(p) ==
  [kind |-> "newSet", set |-> p.payload.set, votes |-> p.votes]

MigrateAction(p) == [kind |-> "migrate", chain |-> p.payload.chain]

Emit(action, set) ==
  /\ valset' = set
  /\ emitted' = Append(emitted, action)
  /\ sets' = Append(sets, set)

TakeEffect(p) ==
  \/ /\ p.payload.kind = "newSet"
     /\ Emit(NewSetAction(p), p.payload.set)
     /\ UNCHANGED version
  \/ /\ p.payload.kind = "migrate"
     /\ Emit(MigrateAction(p), valset)
     /\ UNCHANGED version
  \/ /\ p.payload.kind = "upgrade"
     /\ version' = p.payload.version
     /\ UNCHANGED <<valset, emitted, sets>>

CheckPendingProposals(ps) ==
  \/ /\ Approved(ps) = {}
     /\ proposals' = ps
     /\ UNCHANGED <<valset, version, emitted, sets>>
  \/ \E id \in DOMAIN ps :
       /\ First(id, Approved(ps))
       /\ TakeEffect(ps[id])
       /\ proposals' = NoProposals

-----------------------------------------------------------------------------
\* The admin messages.  Each is executed in a block, so each is one step.

SelfReplaceAction(role, old, new) ==
  [kind |-> "selfReplace", role |-> role, old |-> old, new |-> new]

Swap(S, old, new) == (S \ {old}) \cup {new}

ReplaceIn(s, role, old, new) ==
  CASE role = "processor" -> [s EXCEPT !.processor = new]
    [] role = "listener"  -> [s EXCEPT !.listeners = Swap(@, old, new)]
    [] role = "approver"  -> [s EXCEPT !.approvers = Swap(@, old, new)]

Holds(s, role, k) ==
  \/ role = "processor" /\ k = s.processor
  \/ role = "listener"  /\ k \in s.listeners
  \/ role = "approver"  /\ k \in s.approvers

\* The pending proposals are not looked at again.
SelfReplace(role, old, new) ==
  /\ Holds(valset, role, old)
  /\ Emit(SelfReplaceAction(role, old, new), ReplaceIn(valset, role, old, new))
  /\ UNCHANGED <<version, proposals, nextProposal>>

With(ps, id, p) ==
  [i \in DOMAIN ps \cup {id} |-> IF i = id THEN p ELSE ps[i]]

Proposable(k, payload) ==
  /\ IsValidator(valset, k)
  /\ payload.kind = "newSet" => Valid(payload.set)
  /\ \A id \in DOMAIN proposals : proposals[id].payload # payload

Propose(k, payload) ==
  /\ Proposable(k, payload)
  /\ nextProposal' = nextProposal + 1
  /\ CheckPendingProposals(
       With(proposals, nextProposal, [payload |-> payload, votes |-> {k}]))

\* The vote is a signature of the payload the voter saw.
Votable(k, id, payload) ==
  /\ IsValidator(valset, k)
  /\ id \in DOMAIN proposals
  /\ proposals[id].payload = payload
  /\ k \notin proposals[id].votes

Vote(k, id, payload) ==
  /\ Votable(k, id, payload)
  /\ CheckPendingProposals([proposals EXCEPT ![id].votes = @ \cup {k}])
  /\ UNCHANGED nextProposal

-----------------------------------------------------------------------------
\* A new block is announced before the state moves to it, so that who is woken
\* by it may still find the state before it.

State == [valset |-> valset, version |-> version, proposals |-> proposals]

NewBlock ==
  /\ woken' = [u \in Upgrader |-> TRUE]
  /\ earlier' = [u \in Upgrader |-> State]

\* A block with any other transaction.
OtherBlock == NewBlock /\ UNCHANGED <<chainVars, intent>>

-----------------------------------------------------------------------------
\* Operators, by hand.

Room == Len(emitted) < MaxActions

\* A key that has no role and no vote.
Fresh(k) ==
  /\ ~IsValidator(valset, k)
  /\ \A id \in DOMAIN proposals : k \notin proposals[id].votes

OperatorReplaces ==
  /\ Room
  /\ \E r \in Replacements, role \in {"processor", "listener", "approver"} :
       /\ Careful => Fresh(r[2])
       /\ SelfReplace(role, r[1], r[2])
  /\ NewBlock /\ UNCHANGED intent

OperatorProposes ==
  /\ Room /\ nextProposal < MaxProposals
  /\ \E k \in Key, payload \in OpenPayload : Propose(k, payload)
  /\ NewBlock /\ UNCHANGED intent

OperatorVotes ==
  /\ Room
  /\ \E k \in Key, id \in DOMAIN proposals :
       /\ proposals[id].payload \in OpenPayload
       /\ Vote(k, id, proposals[id].payload)
  /\ NewBlock /\ UNCHANGED intent

-----------------------------------------------------------------------------
\* The upgrader.  When a block wakes it, it looks at the state, sends at most
\* one transaction, and waits until that lands or fails.

VoteFor(s, id) ==
  [kind |-> "vote", id |-> id, payload |-> s.proposals[id].payload]
ProposeUpgrade(u) == [kind |-> "propose", payload |-> UpgradePayload(Desired[u])]

\* The proposals the loop does not skip: only upgrades to other versions are.
Considered(u, s) ==
  {id \in DOMAIN s.proposals :
     s.proposals[id].payload.kind = "upgrade" =>
       s.proposals[id].payload.version = Desired[u]}

Concerned(u, s) == s.version # Desired[u] /\ IsValidator(s.valset, u)

\* The first of them, or nothing to be done about it.
Acts(u, s) ==
  \/ ~Concerned(u, s) /\ UNCHANGED intent
  \/ /\ Concerned(u, s) /\ Considered(u, s) = {}
     /\ intent' = [intent EXCEPT ![u] = ProposeUpgrade(u)]
  \/ /\ Concerned(u, s)
     /\ \E id \in Considered(u, s) :
          /\ First(id, Considered(u, s))
          /\ IF u \in s.proposals[id].votes THEN UNCHANGED intent
             ELSE intent' = [intent EXCEPT ![u] = VoteFor(s, id)]

UpgraderLooks(u) ==
  /\ woken[u] /\ intent[u] = NoIntent
  /\ \E s \in {State, earlier[u]} : Acts(u, s)
  /\ woken' = [woken EXCEPT ![u] = FALSE]
  /\ UNCHANGED <<chainVars, earlier>>

Executable(u) ==
  \/ intent[u].kind = "vote" /\ Votable(u, intent[u].id, intent[u].payload)
  \/ intent[u].kind = "propose" /\ Proposable(u, intent[u].payload)

UpgraderLands(u) ==
  /\ Room
  /\ intent[u] # NoIntent
  /\ \/ /\ intent[u].kind = "vote"
        /\ Vote(u, intent[u].id, intent[u].payload)
     \/ /\ intent[u].kind = "propose" /\ nextProposal < MaxProposals
        /\ Propose(u, intent[u].payload)
  /\ intent' = [intent EXCEPT ![u] = NoIntent]
  /\ NewBlock

UpgraderFails_GivesUp(u) ==
  /\ intent[u] # NoIntent
  /\ ~Executable(u)
  /\ UNCHANGED vars

\* The error is logged, and the upgrader waits for the next block as ever.
UpgraderFails(u) ==
  /\ intent[u] # NoIntent
  /\ ~Executable(u)
  /\ intent' = [intent EXCEPT ![u] = NoIntent]
  /\ UNCHANGED <<chainVars, woken, earlier>>

-----------------------------------------------------------------------------
Init ==
  /\ valset = InitialSet
  /\ version = InitialVersion
  /\ proposals = NoProposals
  /\ nextProposal = 0
  /\ emitted = << >>
  /\ sets = <<InitialSet>>
  /\ intent = [u \in Upgrader |-> NoIntent]
  /\ woken = [u \in Upgrader |-> TRUE]
  /\ earlier = [u \in Upgrader |-> State]

UpgraderStep(u) == UpgraderLooks(u) \/ UpgraderLands(u) \/ UpgraderFails(u)

Next ==
  \/ OperatorReplaces \/ OperatorProposes \/ OperatorVotes \/ OtherBlock
  \/ \E u \in Upgrader : UpgraderStep(u)

Spec == Init /\ [][Next]_vars

\* An upgrader that has been woken looks, and a transaction it sent lands or
\* fails.  No other block need ever come.
FairSpec == Spec /\ \A u \in Upgrader : WF_vars(UpgraderStep(u))

-----------------------------------------------------------------------------
\* Properties.

Roles == {"processor", "listener", "approver"}

Action ==
  [kind : {"selfReplace"}, role : Roles, old : Key, new : Key] \cup
  [kind : {"newSet"}, set : ValidatorSet, votes : SUBSET Key] \cup
  [kind : {"migrate"}, chain : Chain]

Proposal == [payload : Payload, votes : SUBSET Key]

Intent ==
  [kind : {"vote"}, id : Nat, payload : Payload] \cup
  [kind : {"propose"}, payload : Payload]

\* Every variable keeps its type; proposals have ids below the next one.
TypeOK ==
  /\ valset \in ValidatorSet
  /\ version \in Version
  /\ \A id \in DOMAIN proposals :
       id \in Nat /\ id < nextProposal /\ proposals[id] \in Proposal
  /\ nextProposal \in Nat
  /\ emitted \in Seq(Action)
  /\ sets \in Seq(ValidatorSet)
  /\ intent \in [Upgrader -> Intent \cup {NoIntent}]
  /\ woken \in [Upgrader -> BOOLEAN]
  /\ \A u \in Upgrader : \A id \in DOMAIN earlier[u].proposals :
       id \in Nat /\ earlier[u].proposals[id] \in Proposal

\* What a bridge contract checks before it takes over a change, when s is the
\* set it has (contracts/cosmos/src/lib.rs signed).
ContractAccepts(s, a) ==
  /\ a.kind = "selfReplace" =>
       /\ Holds(s, a.role, a.old)
       /\ a.role = "listener" => a.new \notin s.listeners
       /\ a.role = "approver" => a.new \notin s.approvers
  /\ a.kind = "newSet" => Cardinality(GroupsFor(s, a.votes)) >= 2

ContractTakes(s, a) ==
  CASE a.kind = "selfReplace" -> ReplaceIn(s, a.role, a.old, a.new)
    [] a.kind = "newSet"      -> a.set
    [] a.kind = "migrate"     -> s

\* A contract that starts with the genesis set and is given the emitted actions
\* in order accepts each of them, votes collected under earlier sets included,
\* and ends up with the chain's current set (execute.rs admin, check_pending_
\* proposals).
ContractsCanFollow ==
  /\ Len(sets) = Len(emitted) + 1
  /\ sets[1] = InitialSet /\ sets[Len(sets)] = valset
  /\ \A i \in 1..Len(emitted) :
       /\ ContractAccepts(sets[i], emitted[i])
       /\ sets[i + 1] = ContractTakes(sets[i], emitted[i])

\* However keys are replaced and sets changed, each quorum can be reached by the
\* members that are left (shared types.rs ValidatorSet::validate).
QuorumsReachable == Valid(valset)

\* A proposal that has the votes of two groups is not left pending (state.rs
\* has_sufficient_approvals).
ApprovedIsExecuted == Approved(proposals) = {}

\* A pending proposal keeps its payload and its votes, so that a vote sent for
\* what its sender saw is never counted for something else.
VotesStick ==
  [][\A id \in DOMAIN proposals \cap DOMAIN proposals' :
       /\ proposals'[id].payload = proposals[id].payload
       /\ proposals[id].votes \subseteq proposals'[id].votes]_vars

\* When every validator runs the upgrader and blocks of others keep coming, the
\* chain reaches the version they all desire, although they propose and vote at
\* the same time, and may look at a state that the block which woke them has
\* already replaced (upgrader.rs run, run_single).  An upgrader that looked too
\* early does not look again before the next block.
UpgradeReached ==
  \A v \in Version :
    /\ \A u \in Upgrader : Desired[u] = v
    /\ []<><<OtherBlock>>_vars
    => <>[](version = v)
=============================================================================
