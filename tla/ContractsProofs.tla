--------------------------- MODULE ContractsProofs ---------------------------
(***************************************************************************)
(* Of governance, for any keys, sets and proposals, while operators        *)
(* replace their keys by fresh ones: the bridge contracts can follow every *)
(* change of the validator set, its quorums stay reachable, and no         *)
(* proposal with enough votes is left pending.                             *)
(*                                                                         *)
(* Of the contracts, for any number of actions and signatures: that each   *)
(* of them goes through Kolme's sets, that a quorum has signed what it     *)
(* takes, that the three agree, and that none is left unable to go on.     *)
(***************************************************************************)
EXTENDS Contracts, FiniteSetTheorems, SequenceTheorems, TLAPS

USE GovernanceAssumption

-----------------------------------------------------------------------------
\* Lemmas about groups.

GroupNames == {"processor", "listeners", "approvers"}

LEMMA GroupsFinite ==
  ASSUME NEW s \in ValidatorSet, NEW votes
  PROVE  /\ GroupsFor(s, votes) \subseteq GroupNames
         /\ IsFiniteSet(GroupsFor(s, votes))
         /\ Cardinality(GroupsFor(s, votes)) \in Nat
<1>1. GroupsFor(s, votes) \subseteq GroupNames
  BY DEF GroupsFor, GroupNames
<1>2. IsFiniteSet(GroupNames)
  <2>1. IsFiniteSet({})
    BY FS_EmptySet
  <2>2. IsFiniteSet({} \cup {"processor"})
    BY <2>1, FS_AddElement
  <2>3. IsFiniteSet(({} \cup {"processor"}) \cup {"listeners"})
    BY <2>2, FS_AddElement
  <2>4. IsFiniteSet((({} \cup {"processor"}) \cup {"listeners"}) \cup {"approvers"})
    BY <2>3, FS_AddElement
  <2>5. GroupNames = (({} \cup {"processor"}) \cup {"listeners"}) \cup {"approvers"}
    BY DEF GroupNames
  <2> QED
    BY <2>4, <2>5
<1> QED
  BY <1>1, <1>2, FS_Subset, FS_CardinalityType

\* Votes that reach further among the members carry more groups.
LEMMA GroupsMonotonic ==
  ASSUME NEW s \in ValidatorSet, NEW t \in ValidatorSet, NEW votes,
         t.processor \in votes => s.processor \in votes,
         votes \cap t.listeners \subseteq votes \cap s.listeners,
         votes \cap t.approvers \subseteq votes \cap s.approvers,
         t.neededListeners = s.neededListeners,
         t.neededApprovers = s.neededApprovers
  PROVE  Cardinality(GroupsFor(t, votes)) <= Cardinality(GroupsFor(s, votes))
<1>1. /\ s.listeners \subseteq Key /\ s.approvers \subseteq Key
      /\ s.neededListeners \in Nat /\ s.neededApprovers \in Nat
  BY DEF ValidatorSet
<1>2. /\ IsFiniteSet(votes \cap s.listeners)
      /\ IsFiniteSet(votes \cap s.approvers)
  BY <1>1, FS_Subset
<1>3. /\ Cardinality(votes \cap t.listeners) <= Cardinality(votes \cap s.listeners)
      /\ Cardinality(votes \cap t.approvers) <= Cardinality(votes \cap s.approvers)
  BY <1>2, FS_Subset
<1>4. /\ Cardinality(votes \cap t.listeners) \in Nat
      /\ Cardinality(votes \cap s.listeners) \in Nat
      /\ Cardinality(votes \cap t.approvers) \in Nat
      /\ Cardinality(votes \cap s.approvers) \in Nat
  BY <1>2, FS_Subset, FS_CardinalityType
<1>5. /\ Fulfills(votes, t.listeners, t.neededListeners)
           => Fulfills(votes, s.listeners, s.neededListeners)
      /\ Fulfills(votes, t.approvers, t.neededApprovers)
           => Fulfills(votes, s.approvers, s.neededApprovers)
  BY <1>1, <1>3, <1>4 DEF Fulfills
<1>6. GroupsFor(t, votes) \subseteq GroupsFor(s, votes)
  BY <1>5 DEF GroupsFor
<1> QED
  BY <1>6, GroupsFinite, FS_Subset

\* Handing a key on keeps the size of its group.
LEMMA SwapKeepsSize ==
  ASSUME NEW S \in SUBSET Key, NEW old \in S, NEW new \in Key \ S
  PROVE  /\ Swap(S, old, new) \in SUBSET Key
         /\ Cardinality(Swap(S, old, new)) = Cardinality(S)
<1>1. IsFiniteSet(S)
  BY FS_Subset
<1>2. /\ IsFiniteSet(S \ {old})
      /\ Cardinality(S \ {old}) = Cardinality(S) - 1
  BY <1>1, FS_RemoveElement
<1>3. Cardinality((S \ {old}) \cup {new}) = Cardinality(S \ {old}) + 1
  BY <1>2, FS_AddElement
<1>4. Cardinality(S) \in Nat
  BY <1>1, FS_CardinalityType
<1> QED
  BY <1>2, <1>3, <1>4 DEF Swap

\* A replacement by a fresh key gives a valid set again, which the contracts
\* accept, and brings no group a vote it did not have.
LEMMA ReplaceInIs ==
  ASSUME NEW s \in ValidatorSet, NEW role \in Roles, NEW old \in Key,
         NEW new \in Key, Holds(s, role, old), ~IsValidator(s, new)
  PROVE  /\ ReplaceIn(s, role, old, new) \in ValidatorSet
         /\ Valid(s) => Valid(ReplaceIn(s, role, old, new))
         /\ ContractAccepts(s, SelfReplaceAction(role, old, new))
         /\ ReplaceIn(s, role, old, new)
              = ContractTakes(s, SelfReplaceAction(role, old, new))
<1>1. /\ s.listeners \in SUBSET Key /\ s.approvers \in SUBSET Key
      /\ new \notin s.listeners /\ new \notin s.approvers
  BY DEF ValidatorSet, IsValidator
<1>2. /\ ContractAccepts(s, SelfReplaceAction(role, old, new))
      /\ ReplaceIn(s, role, old, new)
           = ContractTakes(s, SelfReplaceAction(role, old, new))
  BY <1>1 DEF ContractAccepts, ContractTakes, SelfReplaceAction
<1>3. CASE role = "processor"
  BY <1>2, <1>3 DEF ReplaceIn, ValidatorSet, Valid
<1>4. CASE role = "listener"
  <2>1. /\ Swap(s.listeners, old, new) \in SUBSET Key
        /\ Cardinality(Swap(s.listeners, old, new)) = Cardinality(s.listeners)
    BY <1>1, <1>4, SwapKeepsSize DEF Holds
  <2>2. ReplaceIn(s, role, old, new)
          = [s EXCEPT !.listeners = Swap(s.listeners, old, new)]
    BY <1>4 DEF ReplaceIn
  <2> QED
    BY <1>2, <2>1, <2>2 DEF ValidatorSet, Valid
<1>5. CASE role = "approver"
  <2>1. /\ Swap(s.approvers, old, new) \in SUBSET Key
        /\ Cardinality(Swap(s.approvers, old, new)) = Cardinality(s.approvers)
    BY <1>1, <1>5, SwapKeepsSize DEF Holds
  <2>2. ReplaceIn(s, role, old, new)
          = [s EXCEPT !.approvers = Swap(s.approvers, old, new)]
    BY <1>5 DEF ReplaceIn
  <2> QED
    BY <1>2, <2>1, <2>2 DEF ValidatorSet, Valid
<1> QED
  BY <1>3, <1>4, <1>5 DEF Roles

LEMMA ReplaceInBringsNoVotes ==
  ASSUME NEW s \in ValidatorSet, NEW role \in Roles, NEW old \in Key,
         NEW new \in Key, Holds(s, role, old), ~IsValidator(s, new),
         NEW p \in Proposal, new \notin p.votes,
         Sufficient(ReplaceIn(s, role, old, new), p)
  PROVE  Sufficient(s, p)
<1> DEFINE t == ReplaceIn(s, role, old, new)
<1>1. t \in ValidatorSet
  BY ReplaceInIs
<1>2. /\ t.processor \in p.votes => s.processor \in p.votes
      /\ p.votes \cap t.listeners \subseteq p.votes \cap s.listeners
      /\ p.votes \cap t.approvers \subseteq p.votes \cap s.approvers
      /\ t.neededListeners = s.neededListeners
      /\ t.neededApprovers = s.neededApprovers
  BY DEF ReplaceIn, ValidatorSet, Roles, Swap
<1>3. Cardinality(GroupsFor(t, p.votes)) <= Cardinality(GroupsFor(s, p.votes))
  BY <1>1, <1>2, GroupsMonotonic
<1>4. /\ Cardinality(GroupsFor(t, p.votes)) \in Nat
      /\ Cardinality(GroupsFor(s, p.votes)) \in Nat
  BY <1>1, GroupsFinite
<1> QED
  BY <1>2, <1>3, <1>4 DEF Sufficient

-----------------------------------------------------------------------------
\* Types.

PendingOK(ps, n) ==
  \A id \in DOMAIN ps : id \in Nat /\ id < n /\ ps[id] \in Proposal

LEMMA ReplaceInType ==
  ASSUME NEW s \in ValidatorSet, NEW role \in Roles, NEW old \in Key, NEW new \in Key
  PROVE  /\ ReplaceIn(s, role, old, new) \in ValidatorSet
         /\ SelfReplaceAction(role, old, new) \in Action
<1>1. SelfReplaceAction(role, old, new) \in Action
  BY DEF SelfReplaceAction, Action
<1>2. CASE role = "processor"
  BY <1>1, <1>2 DEF ReplaceIn, ValidatorSet
<1>3. CASE role = "listener"
  <2>1. ReplaceIn(s, role, old, new)
          = [s EXCEPT !.listeners = Swap(s.listeners, old, new)]
    BY <1>3 DEF ReplaceIn
  <2> QED
    BY <1>1, <2>1 DEF ValidatorSet, Swap
<1>4. CASE role = "approver"
  <2>1. ReplaceIn(s, role, old, new)
          = [s EXCEPT !.approvers = Swap(s.approvers, old, new)]
    BY <1>4 DEF ReplaceIn
  <2> QED
    BY <1>1, <2>1 DEF ValidatorSet, Swap
<1> QED
  BY <1>2, <1>3, <1>4 DEF Roles

LEMMA EmitType ==
  ASSUME TypeOK, NEW a \in Action, NEW s \in ValidatorSet, Emit(a, s)
  PROVE  valset' \in ValidatorSet /\ emitted' \in Seq(Action) /\ sets' \in Seq(ValidatorSet)
BY AppendProperties DEF TypeOK, Emit

LEMMA TakeEffectType ==
  ASSUME TypeOK, NEW p \in Proposal, TakeEffect(p)
  PROVE  /\ valset' \in ValidatorSet /\ version' \in Version
         /\ emitted' \in Seq(Action) /\ sets' \in Seq(ValidatorSet)
<1>0. version \in Version /\ valset \in ValidatorSet
  BY DEF TypeOK
<1>1. CASE p.payload.kind = "newSet" /\ Emit(NewSetAction(p), p.payload.set) /\ UNCHANGED version
  <2>1. NewSetAction(p) \in Action /\ p.payload.set \in ValidatorSet
    BY <1>1 DEF NewSetAction, Action, Proposal, Payload
  <2> QED
    BY <1>0, <1>1, <2>1, EmitType
<1>2. CASE p.payload.kind = "migrate" /\ Emit(MigrateAction(p), valset) /\ UNCHANGED version
  <2>1. MigrateAction(p) \in Action
    BY <1>2 DEF MigrateAction, Action, Proposal, Payload
  <2> QED
    BY <1>0, <1>2, <2>1, EmitType
<1>3. CASE p.payload.kind = "upgrade" /\ version' = p.payload.version
           /\ UNCHANGED <<valset, emitted, sets>>
  BY <1>3 DEF TypeOK, Proposal, Payload
<1> QED
  BY <1>1, <1>2, <1>3 DEF TakeEffect

LEMMA CheckType ==
  ASSUME TypeOK, NEW ps, NEW n \in Nat, PendingOK(ps, n), CheckPendingProposals(ps)
  PROVE  /\ valset' \in ValidatorSet /\ version' \in Version
         /\ emitted' \in Seq(Action) /\ sets' \in Seq(ValidatorSet)
         /\ PendingOK(proposals', n)
<1>1. CASE proposals' = ps /\ UNCHANGED <<valset, version, emitted, sets>>
  BY <1>1 DEF TypeOK
<1>2. ASSUME NEW id \in DOMAIN ps, TakeEffect(ps[id]), proposals' = NoProposals
      PROVE  /\ valset' \in ValidatorSet /\ version' \in Version
             /\ emitted' \in Seq(Action) /\ sets' \in Seq(ValidatorSet)
             /\ PendingOK(proposals', n)
  <2>1. ps[id] \in Proposal
    BY DEF PendingOK
  <2>2. PendingOK(proposals', n)
    BY <1>2 DEF PendingOK, NoProposals
  <2> QED
    BY <1>2, <2>1, <2>2, TakeEffectType
<1> QED
  BY <1>1, <1>2 DEF CheckPendingProposals

LEMMA WithPending ==
  ASSUME NEW n \in Nat, NEW ps, PendingOK(ps, n), NEW k \in Key, NEW payload \in Payload
  PROVE  PendingOK(With(ps, n, [payload |-> payload, votes |-> {k}]), n + 1)
BY DEF PendingOK, With, Proposal

LEMMA VotedPending ==
  ASSUME NEW n \in Nat, NEW ps, PendingOK(ps, n), NEW k \in Key, NEW id \in DOMAIN ps
  PROVE  PendingOK([ps EXCEPT ![id].votes = @ \cup {k}], n)
<1> DEFINE qs == [ps EXCEPT ![id].votes = @ \cup {k}]
<1> SUFFICES ASSUME NEW i \in DOMAIN qs
             PROVE  i \in Nat /\ i < n /\ qs[i] \in Proposal
  BY DEF PendingOK
<1>1. i \in DOMAIN ps /\ ps[i] \in Proposal /\ i \in Nat /\ i < n
  BY DEF PendingOK
<1>2. CASE i = id
  BY <1>1, <1>2 DEF Proposal
<1>3. CASE i # id
  BY <1>1, <1>3
<1> QED
  BY <1>1, <1>2, <1>3

\* What a new proposal and a vote do to the types.
LEMMA ProposeType ==
  ASSUME TypeOK, NEW k \in Key, NEW payload \in Payload, Propose(k, payload)
  PROVE  /\ valset' \in ValidatorSet /\ version' \in Version
         /\ emitted' \in Seq(Action) /\ sets' \in Seq(ValidatorSet)
         /\ nextProposal' \in Nat /\ PendingOK(proposals', nextProposal')
<1> DEFINE ps == With(proposals, nextProposal, [payload |-> payload, votes |-> {k}])
<1>1. nextProposal \in Nat /\ PendingOK(proposals, nextProposal)
  BY DEF TypeOK, PendingOK
<1>2. PendingOK(ps, nextProposal + 1)
  BY <1>1, WithPending
<1>3. nextProposal' = nextProposal + 1 /\ CheckPendingProposals(ps)
  BY DEF Propose
<1> HIDE DEF ps
<1> QED
  BY <1>1, <1>2, <1>3, CheckType

LEMMA VoteType ==
  ASSUME TypeOK, NEW k \in Key, NEW id, NEW payload, Vote(k, id, payload)
  PROVE  /\ valset' \in ValidatorSet /\ version' \in Version
         /\ emitted' \in Seq(Action) /\ sets' \in Seq(ValidatorSet)
         /\ nextProposal' \in Nat /\ PendingOK(proposals', nextProposal')
<1> DEFINE ps == [proposals EXCEPT ![id].votes = @ \cup {k}]
<1>1. nextProposal \in Nat /\ PendingOK(proposals, nextProposal)
  BY DEF TypeOK, PendingOK
<1>2. id \in DOMAIN proposals
  BY DEF Vote, Votable
<1>3. PendingOK(ps, nextProposal)
  BY <1>1, <1>2, VotedPending
<1>4. nextProposal' = nextProposal /\ CheckPendingProposals(ps)
  BY DEF Vote
<1> HIDE DEF ps
<1> QED
  BY <1>1, <1>3, <1>4, CheckType

\* What upgraders may still find after a block is the state before it.
LEMMA NewBlockType ==
  ASSUME TypeOK, NewBlock
  PROVE  /\ woken' \in [Upgrader -> BOOLEAN]
         /\ \A u \in Upgrader : \A id \in DOMAIN earlier'[u].proposals :
              id \in Nat /\ earlier'[u].proposals[id] \in Proposal
BY DEF NewBlock, State, TypeOK

\* Every variable keeps its type (all handlers of execute.rs admin, and the
\* upgrader).
THEOREM TypeCorrect == Spec => []TypeOK
<1>1. Init => TypeOK
  BY DEF Init, TypeOK, NoProposals, State
<1>2. TypeOK /\ [Next]_vars => TypeOK'
  <2> SUFFICES ASSUME TypeOK, [Next]_vars PROVE TypeOK'
    OBVIOUS
  <2>1. CASE OperatorReplaces
    <3>1. PICK r \in Replacements, role \in Roles : SelfReplace(role, r[1], r[2])
      BY <2>1 DEF OperatorReplaces, Roles
    <3>2. r[1] \in Key /\ r[2] \in Key /\ valset \in ValidatorSet
      BY DEF TypeOK
    <3>3. /\ ReplaceIn(valset, role, r[1], r[2]) \in ValidatorSet
          /\ SelfReplaceAction(role, r[1], r[2]) \in Action
      BY <3>2, ReplaceInType
    <3>4. /\ valset' \in ValidatorSet /\ emitted' \in Seq(Action)
          /\ sets' \in Seq(ValidatorSet)
      BY <3>1, <3>3, EmitType DEF SelfReplace
    <3>5. NewBlock /\ UNCHANGED intent
      BY <2>1 DEF OperatorReplaces
    <3> QED
      BY <3>1, <3>4, <3>5, NewBlockType DEF SelfReplace, TypeOK
  <2>2. CASE OperatorProposes
    <3>1. PICK k \in Key, payload \in OpenPayload : Propose(k, payload)
      BY <2>2 DEF OperatorProposes
    <3>2. payload \in Payload /\ NewBlock /\ UNCHANGED intent
      BY <2>2 DEF OperatorProposes
    <3> QED
      BY <3>1, <3>2, ProposeType, NewBlockType DEF TypeOK, PendingOK
  <2>3. CASE OperatorVotes
    <3>1. PICK k \in Key, id \in DOMAIN proposals : Vote(k, id, proposals[id].payload)
      BY <2>3 DEF OperatorVotes
    <3>2. NewBlock /\ UNCHANGED intent
      BY <2>3 DEF OperatorVotes
    <3> QED
      BY <3>1, <3>2, VoteType, NewBlockType DEF TypeOK, PendingOK
  <2>4. ASSUME NEW u \in Upgrader, UpgraderLooks(u) PROVE TypeOK'
    <3>1. intent' \in [Upgrader -> Intent \cup {NoIntent}]
      <4>1. PICK s \in {State, earlier[u]} : Acts(u, s)
        BY <2>4 DEF UpgraderLooks
      <4>2. Desired[u] \in Version
        OBVIOUS
      <4>3. ProposeUpgrade(u) \in Intent
        BY <4>2 DEF ProposeUpgrade, UpgradePayload, Payload, Intent
      <4>4. \A id \in DOMAIN s.proposals : id \in Nat /\ s.proposals[id] \in Proposal
        BY DEF State, TypeOK
      <4>5. \A id \in Considered(u, s) : VoteFor(s, id) \in Intent
        BY <4>4 DEF Considered, VoteFor, Proposal, Intent
      <4>6. intent \in [Upgrader -> Intent \cup {NoIntent}]
        BY DEF TypeOK
      <4> QED
        BY <4>1, <4>3, <4>5, <4>6 DEF Acts
    <3>2. woken' \in [Upgrader -> BOOLEAN]
      BY <2>4 DEF UpgraderLooks, TypeOK
    <3>3. UNCHANGED <<chainVars, earlier>>
      BY <2>4 DEF UpgraderLooks
    <3> QED
      BY <3>1, <3>2, <3>3 DEF chainVars, TypeOK
  <2>5. ASSUME NEW u \in Upgrader, UpgraderLands(u) PROVE TypeOK'
    <3>1. intent[u] \in Intent
      BY <2>5 DEF UpgraderLands, TypeOK
    <3>2. intent[u].payload \in Payload /\ u \in Key
      BY <3>1 DEF Intent
    <3>3. intent' \in [Upgrader -> Intent \cup {NoIntent}]
      BY <2>5 DEF UpgraderLands, TypeOK
    <3>0. NewBlock
      BY <2>5 DEF UpgraderLands
    <3>4. CASE Vote(u, intent[u].id, intent[u].payload)
      BY <3>0, <3>2, <3>3, <3>4, VoteType, NewBlockType DEF TypeOK, PendingOK
    <3>5. CASE Propose(u, intent[u].payload)
      BY <3>0, <3>2, <3>3, <3>5, ProposeType, NewBlockType DEF TypeOK, PendingOK
    <3> QED
      BY <2>5, <3>4, <3>5 DEF UpgraderLands
  <2>6. ASSUME NEW u \in Upgrader, UpgraderFails(u) PROVE TypeOK'
    BY <2>6 DEF UpgraderFails, chainVars, TypeOK
  <2>7. CASE OtherBlock
    BY <2>7, NewBlockType DEF OtherBlock, chainVars, TypeOK
  <2>8. CASE UNCHANGED vars
    BY <2>8 DEF vars, chainVars, upgraderVars, TypeOK
  <2> QED
    BY <2>1, <2>2, <2>3, <2>4, <2>5, <2>6, <2>7, <2>8 DEF Next, UpgraderStep
<1> QED
  BY <1>1, <1>2, PTL DEF Spec

-----------------------------------------------------------------------------
\* Votes.

LEMMA CheckKeepsOrClears ==
  ASSUME NEW ps, CheckPendingProposals(ps)
  PROVE  proposals' = ps \/ DOMAIN proposals' = {}
BY DEF CheckPendingProposals, NoProposals

\* A vote is never counted for another payload than its sender saw (state.rs
\* add_admin_proposal, execute.rs admin Approve).
THEOREM VotesAreKept == Spec => VotesStick
<1> DEFINE Kept ==
      \A id \in DOMAIN proposals \cap DOMAIN proposals' :
        /\ proposals'[id].payload = proposals[id].payload
        /\ proposals[id].votes \subseteq proposals'[id].votes
<1>1. TypeOK /\ [Next]_vars => [Kept]_vars
  <2> SUFFICES ASSUME TypeOK, Next PROVE Kept
    BY DEF vars
  <2>1. ASSUME NEW k, NEW payload, Propose(k, payload) PROVE Kept
    <3> DEFINE ps == With(proposals, nextProposal, [payload |-> payload, votes |-> {k}])
    <3>1. CheckPendingProposals(ps)
      BY <2>1 DEF Propose
    <3>2. nextProposal \notin DOMAIN proposals
      BY DEF TypeOK
    <3>3. CASE proposals' = ps
      BY <3>2, <3>3 DEF With
    <3> HIDE DEF ps
    <3> QED
      BY <3>1, <3>3, CheckKeepsOrClears
  <2>2. ASSUME NEW k, NEW i \in DOMAIN proposals, NEW payload, Vote(k, i, payload)
        PROVE  Kept
    <3> DEFINE ps == [proposals EXCEPT ![i].votes = @ \cup {k}]
    <3>1. CheckPendingProposals(ps)
      BY <2>2 DEF Vote
    <3>2. CASE proposals' = ps
      <4> SUFFICES ASSUME NEW id \in DOMAIN proposals \cap DOMAIN proposals'
                   PROVE  /\ proposals'[id].payload = proposals[id].payload
                          /\ proposals[id].votes \subseteq proposals'[id].votes
        OBVIOUS
      <4>1. proposals[id] \in Proposal
        BY DEF TypeOK
      <4>2. CASE id = i
        BY <3>2, <4>1, <4>2 DEF Proposal
      <4>3. CASE id # i
        BY <3>2, <4>3
      <4> QED
        BY <4>2, <4>3
    <3> HIDE DEF ps
    <3> QED
      BY <3>1, <3>2, CheckKeepsOrClears
  <2>3. CASE OperatorReplaces
    BY <2>3 DEF OperatorReplaces, SelfReplace
  <2>4. CASE OperatorProposes
    BY <2>1, <2>4 DEF OperatorProposes
  <2>5. CASE OperatorVotes
    BY <2>2, <2>5 DEF OperatorVotes
  <2>6. ASSUME NEW u \in Upgrader, UpgraderLooks(u) PROVE Kept
    BY <2>6 DEF UpgraderLooks, chainVars
  <2>7. ASSUME NEW u \in Upgrader, UpgraderLands(u) PROVE Kept
    <3>1. CASE Vote(u, intent[u].id, intent[u].payload)
      <4>1. intent[u].id \in DOMAIN proposals
        BY <3>1 DEF Vote, Votable
      <4> QED
        BY <2>2, <3>1, <4>1
    <3>2. CASE Propose(u, intent[u].payload)
      BY <2>1, <3>2
    <3> QED
      BY <2>7, <3>1, <3>2 DEF UpgraderLands
  <2>8. ASSUME NEW u \in Upgrader, UpgraderFails(u) PROVE Kept
    BY <2>8 DEF UpgraderFails, chainVars
  <2>9. CASE OtherBlock
    BY <2>9 DEF OtherBlock, chainVars
  <2> QED
    BY <2>3, <2>4, <2>5, <2>6, <2>7, <2>8, <2>9 DEF Next, UpgraderStep
<1>2. Spec => [][Kept]_vars
  BY <1>1, TypeCorrect, PTL DEF Spec
<1> QED
  BY <1>2 DEF VotesStick

-----------------------------------------------------------------------------
\* Safety, while operators are careful.

PendingSetsValid ==
  \A id \in DOMAIN proposals :
    proposals[id].payload.kind = "newSet" => Valid(proposals[id].payload.set)

\* A contract takes a change that the chain makes by its own rules, so what was
\* emitted is accepted only because nothing approved, and no invalid set, is
\* left behind by the steps before.
IInv ==
  TypeOK /\ ContractsCanFollow /\ QuorumsReachable /\ ApprovedIsExecuted
  /\ PendingSetsValid

\* One more action that the contracts accept.
LEMMA EmitFollows ==
  ASSUME TypeOK, ContractsCanFollow, NEW a \in Action, NEW s \in ValidatorSet,
         ContractAccepts(valset, a), s = ContractTakes(valset, a), Emit(a, s)
  PROVE  ContractsCanFollow'
<1>1. emitted \in Seq(Action) /\ sets \in Seq(ValidatorSet)
  BY DEF TypeOK
<1>2. emitted' = Append(emitted, a) /\ sets' = Append(sets, s) /\ valset' = s
  BY DEF Emit
<1>3. /\ Len(sets) = Len(emitted) + 1 /\ sets[1] = InitialSet
      /\ sets[Len(sets)] = valset
  BY DEF ContractsCanFollow
<1>4. /\ Len(emitted') = Len(emitted) + 1 /\ Len(sets') = Len(sets) + 1
      /\ Len(emitted) \in Nat /\ Len(sets) \in Nat
      /\ emitted'[Len(emitted) + 1] = a /\ sets'[Len(sets) + 1] = s
      /\ \A i \in 1..Len(emitted) : emitted'[i] = emitted[i]
      /\ \A i \in 1..Len(sets) : sets'[i] = sets[i]
  BY <1>1, <1>2, AppendProperties, LenProperties
<1>5. Len(sets') = Len(emitted') + 1 /\ sets'[1] = InitialSet
      /\ sets'[Len(sets')] = valset'
  BY <1>2, <1>3, <1>4
<1>6. ASSUME NEW i \in 1..Len(emitted')
      PROVE  /\ ContractAccepts(sets'[i], emitted'[i])
             /\ sets'[i + 1] = ContractTakes(sets'[i], emitted'[i])
  <2>1. CASE i \in 1..Len(emitted)
    <3>1. /\ sets'[i] = sets[i] /\ sets'[i + 1] = sets[i + 1]
          /\ emitted'[i] = emitted[i]
      BY <1>3, <1>4, <2>1
    <3> QED
      BY <2>1, <3>1 DEF ContractsCanFollow
  <2>2. CASE i = Len(emitted) + 1
    <3>1. sets'[i] = valset /\ sets'[i + 1] = s /\ emitted'[i] = a
      BY <1>3, <1>4, <2>2
    <3> QED
      BY <3>1
  <2> QED
    BY <1>4, <2>1, <2>2
<1> QED
  BY <1>5, <1>6 DEF ContractsCanFollow

LEMMA TakeEffectKeeps ==
  ASSUME IInv, NEW p \in Proposal, Sufficient(valset, p),
         p.payload.kind = "newSet" => Valid(p.payload.set),
         TakeEffect(p)
  PROVE  ContractsCanFollow' /\ QuorumsReachable'
<1>1. TypeOK /\ ContractsCanFollow /\ QuorumsReachable /\ valset \in ValidatorSet
  BY DEF IInv, TypeOK
<1>2. CASE p.payload.kind = "newSet" /\ Emit(NewSetAction(p), p.payload.set)
  <2>1. NewSetAction(p) \in Action /\ p.payload.set \in ValidatorSet
    BY <1>2 DEF NewSetAction, Action, Proposal, Payload
  <2>2. /\ ContractAccepts(valset, NewSetAction(p))
        /\ p.payload.set = ContractTakes(valset, NewSetAction(p))
    BY DEF ContractAccepts, ContractTakes, NewSetAction, Sufficient
  <2>3. ContractsCanFollow'
    BY <1>1, <1>2, <2>1, <2>2, EmitFollows
  <2>4. QuorumsReachable'
    BY <1>2 DEF QuorumsReachable, Emit
  <2> QED
    BY <2>3, <2>4
<1>3. CASE p.payload.kind = "migrate" /\ Emit(MigrateAction(p), valset)
  <2>1. MigrateAction(p) \in Action
    BY <1>3 DEF MigrateAction, Action, Proposal, Payload
  <2>2. /\ ContractAccepts(valset, MigrateAction(p))
        /\ valset = ContractTakes(valset, MigrateAction(p))
    BY DEF ContractAccepts, ContractTakes, MigrateAction
  <2>3. ContractsCanFollow'
    BY <1>1, <1>3, <2>1, <2>2, EmitFollows
  <2> QED
    BY <1>1, <1>3, <2>3 DEF QuorumsReachable, Emit
<1>4. CASE p.payload.kind = "upgrade" /\ UNCHANGED <<valset, emitted, sets>>
  BY <1>1, <1>4 DEF ContractsCanFollow, QuorumsReachable
<1> QED
  BY <1>2, <1>3, <1>4 DEF TakeEffect

\* The state after the pending proposals are looked at.
LEMMA CheckKeeps ==
  ASSUME IInv, NEW ps, NEW n \in Nat, PendingOK(ps, n),
         \A id \in DOMAIN ps :
           ps[id].payload.kind = "newSet" => Valid(ps[id].payload.set),
         CheckPendingProposals(ps)
  PROVE  ContractsCanFollow' /\ QuorumsReachable' /\ ApprovedIsExecuted'
         /\ PendingSetsValid'
<1>1. CASE /\ Approved(ps) = {} /\ proposals' = ps
           /\ UNCHANGED <<valset, version, emitted, sets>>
  BY <1>1 DEF IInv, ContractsCanFollow, QuorumsReachable, ApprovedIsExecuted,
              Approved, PendingSetsValid
<1>2. ASSUME NEW id \in DOMAIN ps, First(id, Approved(ps)), TakeEffect(ps[id]),
             proposals' = NoProposals
      PROVE  ContractsCanFollow' /\ QuorumsReachable' /\ ApprovedIsExecuted'
             /\ PendingSetsValid'
  <2>1. ps[id] \in Proposal /\ Sufficient(valset, ps[id])
    BY <1>2 DEF PendingOK, First, Approved
  <2>2. ContractsCanFollow' /\ QuorumsReachable'
    BY <1>2, <2>1, TakeEffectKeeps
  <2>3. ApprovedIsExecuted' /\ PendingSetsValid'
    BY <1>2 DEF NoProposals, ApprovedIsExecuted, Approved, PendingSetsValid
  <2> QED
    BY <2>2, <2>3
<1> QED
  BY <1>1, <1>2 DEF CheckPendingProposals

LEMMA ProposeKeeps ==
  ASSUME IInv, NEW k \in Key, NEW payload \in Payload, Propose(k, payload)
  PROVE  ContractsCanFollow' /\ QuorumsReachable' /\ ApprovedIsExecuted'
         /\ PendingSetsValid'
<1> DEFINE ps == With(proposals, nextProposal, [payload |-> payload, votes |-> {k}])
<1>1. nextProposal \in Nat /\ PendingOK(proposals, nextProposal)
  BY DEF IInv, TypeOK, PendingOK
<1>2. PendingOK(ps, nextProposal + 1)
  BY <1>1, WithPending
<1>3. \A id \in DOMAIN ps :
        ps[id].payload.kind = "newSet" => Valid(ps[id].payload.set)
  BY DEF IInv, PendingSetsValid, Propose, Proposable, With
<1>4. CheckPendingProposals(ps)
  BY DEF Propose
<1> HIDE DEF ps
<1> QED
  BY <1>1, <1>2, <1>3, <1>4, CheckKeeps

LEMMA VoteKeeps ==
  ASSUME IInv, NEW k \in Key, NEW i, NEW payload, Vote(k, i, payload)
  PROVE  ContractsCanFollow' /\ QuorumsReachable' /\ ApprovedIsExecuted'
         /\ PendingSetsValid'
<1> DEFINE ps == [proposals EXCEPT ![i].votes = @ \cup {k}]
<1>1. nextProposal \in Nat /\ PendingOK(proposals, nextProposal)
  BY DEF IInv, TypeOK, PendingOK
<1>2. i \in DOMAIN proposals
  BY DEF Vote, Votable
<1>3. PendingOK(ps, nextProposal)
  BY <1>1, <1>2, VotedPending
<1>4. ASSUME NEW id \in DOMAIN ps, ps[id].payload.kind = "newSet"
      PROVE  Valid(ps[id].payload.set)
  <2>1. proposals[id] \in Proposal /\ id \in DOMAIN proposals
    BY DEF IInv, TypeOK
  <2>2. ps[id].payload = proposals[id].payload
    <3>1. CASE id = i
      BY <2>1, <3>1 DEF Proposal
    <3>2. CASE id # i
      BY <2>1, <3>2
    <3> QED
      BY <3>1, <3>2
  <2> HIDE DEF ps
  <2> QED
    BY <1>4, <2>1, <2>2 DEF IInv, PendingSetsValid
<1>5. CheckPendingProposals(ps)
  BY DEF Vote
<1> HIDE DEF ps
<1> QED
  BY <1>1, <1>3, <1>4, <1>5, CheckKeeps

LEMMA ReplaceKeeps ==
  ASSUME IInv, NEW role \in Roles, NEW old \in Key, NEW new \in Key,
         Fresh(new), SelfReplace(role, old, new)
  PROVE  ContractsCanFollow' /\ QuorumsReachable' /\ ApprovedIsExecuted'
         /\ PendingSetsValid'
<1> DEFINE a == SelfReplaceAction(role, old, new)
           t == ReplaceIn(valset, role, old, new)
<1>1. /\ TypeOK /\ ContractsCanFollow /\ valset \in ValidatorSet
      /\ Holds(valset, role, old) /\ ~IsValidator(valset, new)
  BY DEF IInv, TypeOK, SelfReplace, Fresh
<1>2. a \in Action /\ t \in ValidatorSet
  BY <1>1, ReplaceInType
<1>3. Valid(t) /\ ContractAccepts(valset, a) /\ t = ContractTakes(valset, a)
  BY <1>1, ReplaceInIs DEF IInv, QuorumsReachable
<1>4. Emit(a, t) /\ valset' = t /\ UNCHANGED proposals
  BY DEF SelfReplace, Emit
<1>5. ContractsCanFollow'
  <2> HIDE DEF a, t
  <2> QED
    BY <1>1, <1>2, <1>3, <1>4, EmitFollows
<1>6. ASSUME NEW id \in DOMAIN proposals PROVE ~Sufficient(t, proposals[id])
  <2>1. proposals[id] \in Proposal /\ new \notin proposals[id].votes
    BY <1>1 DEF TypeOK, Fresh
  <2>2. ~Sufficient(valset, proposals[id])
    BY DEF IInv, ApprovedIsExecuted, Approved
  <2> QED
    BY <1>1, <2>1, <2>2, ReplaceInBringsNoVotes
<1>7. ApprovedIsExecuted'
  <2> HIDE DEF t
  <2> QED
    BY <1>4, <1>6 DEF ApprovedIsExecuted, Approved
<1>8. QuorumsReachable' /\ PendingSetsValid'
  BY <1>3, <1>4 DEF QuorumsReachable, PendingSetsValid, IInv
<1> QED
  BY <1>5, <1>7, <1>8

LEMMA Inductive ==
  ASSUME Careful
  PROVE  Spec => []IInv
<1>1. Init => IInv
  BY DEF Init, IInv, TypeOK, NoProposals, State, ContractsCanFollow, QuorumsReachable,
         ApprovedIsExecuted, Approved, PendingSetsValid
<1>2. IInv /\ TypeOK' /\ [Next]_vars => IInv'
  <2> SUFFICES ASSUME IInv, TypeOK', [Next]_vars
               PROVE  ContractsCanFollow' /\ QuorumsReachable'
                      /\ ApprovedIsExecuted' /\ PendingSetsValid'
    BY DEF IInv
  <2>1. ASSUME UNCHANGED <<valset, proposals, emitted, sets>>
        PROVE  ContractsCanFollow' /\ QuorumsReachable'
               /\ ApprovedIsExecuted' /\ PendingSetsValid'
    BY <2>1 DEF IInv, ContractsCanFollow, QuorumsReachable, ApprovedIsExecuted,
                Approved, PendingSetsValid
  <2>2. CASE OperatorReplaces
    <3>1. PICK r \in Replacements, role \in Roles :
            Fresh(r[2]) /\ SelfReplace(role, r[1], r[2])
      BY <2>2 DEF OperatorReplaces, Roles
    <3> QED
      BY <3>1, ReplaceKeeps
  <2>3. CASE OperatorProposes
    BY <2>3, ProposeKeeps DEF OperatorProposes
  <2>4. CASE OperatorVotes
    BY <2>4, VoteKeeps DEF OperatorVotes
  <2>5. ASSUME NEW u \in Upgrader, UpgraderStep(u)
        PROVE  ContractsCanFollow' /\ QuorumsReachable'
               /\ ApprovedIsExecuted' /\ PendingSetsValid'
    <3>1. CASE UNCHANGED chainVars
      BY <2>1, <3>1 DEF chainVars
    <3>2. CASE UpgraderLands(u)
      <4>1. u \in Key /\ intent[u] \in Intent
        BY <3>2 DEF UpgraderLands, IInv, TypeOK
      <4>2. intent[u].payload \in Payload
        BY <4>1 DEF Intent
      <4> QED
        BY <3>2, <4>1, <4>2, ProposeKeeps, VoteKeeps DEF UpgraderLands
    <3> QED
      BY <2>5, <3>1, <3>2 DEF UpgraderStep, UpgraderLooks, UpgraderFails
  <2>6. CASE OtherBlock \/ UNCHANGED vars
    BY <2>1, <2>6 DEF OtherBlock, vars, chainVars
  <2> QED
    BY <2>2, <2>3, <2>4, <2>5, <2>6 DEF Next
<1> QED
  BY <1>1, <1>2, TypeCorrect, PTL DEF Spec

\* A contract that is given the emitted actions in order accepts every one of
\* them and ends with the chain's set (execute.rs admin, check_pending_proposals
\* and the bridge contract's signed).
THEOREM ContractsFollow ==
  ASSUME Careful
  PROVE  Spec => []ContractsCanFollow
BY Inductive, PTL DEF IInv

\* The quorums of the current set can be reached by its members (execute.rs
\* SelfReplace, shared types.rs validate).
THEOREM QuorumsStayReachable ==
  ASSUME Careful
  PROVE  Spec => []QuorumsReachable
BY Inductive, PTL DEF IInv

\* No proposal that has the votes of two groups is left pending (execute.rs
\* check_pending_proposals, state.rs has_sufficient_approvals).
THEOREM ApprovedTakesEffect ==
  ASSUME Careful
  PROVE  Spec => []ApprovedIsExecuted
BY Inductive, PTL DEF IInv

HIDE GovernanceAssumption

-----------------------------------------------------------------------------
\* Kolme's side, as a contract sees it.

\* The set after each action is what a contract would make of it.
SetsFollow ==
  /\ Len(sets) = Len(emitted) + 1
  /\ sets[Len(sets)] = valset
  /\ \A i \in 1..Len(emitted) : sets[i + 1] = ContractTakes(sets[i], emitted[i])

\* A step of Kolme emits nothing, or one action with what it makes of the set.
Grows ==
  \/ UNCHANGED <<valset, emitted, sets>>
  \/ \E a : Emit(a, ContractTakes(valset, a))

LEMMA TakeEffectGrows ==
  ASSUME NEW p, TakeEffect(p)
  PROVE  Grows
<1>1. CASE p.payload.kind = "newSet" /\ Emit(NewSetAction(p), p.payload.set)
  <2>1. p.payload.set = ContractTakes(valset, NewSetAction(p))
    BY DEF ContractTakes, NewSetAction
  <2> QED
    BY <1>1, <2>1 DEF Grows
<1>2. CASE p.payload.kind = "migrate" /\ Emit(MigrateAction(p), valset)
  <2>1. valset = ContractTakes(valset, MigrateAction(p))
    BY DEF ContractTakes, MigrateAction
  <2> QED
    BY <1>2, <2>1 DEF Grows
<1>3. CASE UNCHANGED <<valset, emitted, sets>>
  BY <1>3 DEF Grows
<1> QED
  BY <1>1, <1>2, <1>3 DEF TakeEffect

LEMMA CheckGrows ==
  ASSUME NEW ps, CheckPendingProposals(ps)
  PROVE  Grows
BY TakeEffectGrows DEF CheckPendingProposals, Grows

LEMMA KolmeGrows ==
  ASSUME [Next]_vars
  PROVE  Grows
<1>1. ASSUME NEW k, NEW payload, Propose(k, payload) PROVE Grows
  BY <1>1, CheckGrows DEF Propose
<1>2. ASSUME NEW k, NEW id, NEW payload, Vote(k, id, payload) PROVE Grows
  BY <1>2, CheckGrows DEF Vote
<1>3. ASSUME NEW role, NEW old, NEW new, SelfReplace(role, old, new) PROVE Grows
  <2>1. ReplaceIn(valset, role, old, new)
          = ContractTakes(valset, SelfReplaceAction(role, old, new))
    BY DEF ContractTakes, SelfReplaceAction
  <2> QED
    BY <1>3, <2>1 DEF SelfReplace, Grows
<1>4. CASE OperatorReplaces
  BY <1>3, <1>4 DEF OperatorReplaces
<1>5. CASE OperatorProposes
  BY <1>1, <1>5 DEF OperatorProposes
<1>6. CASE OperatorVotes
  BY <1>2, <1>6 DEF OperatorVotes
<1>7. ASSUME NEW u \in Upgrader, UpgraderStep(u) PROVE Grows
  <2>1. CASE UNCHANGED chainVars
    BY <2>1 DEF chainVars, Grows
  <2>2. CASE UpgraderLands(u)
    BY <1>1, <1>2, <2>2 DEF UpgraderLands
  <2> QED
    BY <1>7, <2>1, <2>2 DEF UpgraderStep, UpgraderLooks, UpgraderFails
<1>8. CASE OtherBlock \/ UNCHANGED vars
  BY <1>8 DEF OtherBlock, vars, chainVars, Grows
<1> QED
  BY <1>4, <1>5, <1>6, <1>7, <1>8 DEF Next

\* What a contract has taken stays where it was.
LEMMA GrowsKeeps ==
  ASSUME TypeOK, TypeOK', SetsFollow, Grows
  PROVE  /\ SetsFollow'
         /\ Len(emitted) \in Nat /\ Len(emitted') \in Nat
         /\ Len(emitted) <= Len(emitted')
         /\ \A i \in 1..Len(emitted) + 1 : sets'[i] = sets[i]
<1>1. /\ emitted \in Seq(Action) /\ sets \in Seq(ValidatorSet)
      /\ sets' \in Seq(ValidatorSet) /\ emitted' \in Seq(Action)
  BY DEF TypeOK
<1>2. Len(emitted) \in Nat /\ Len(emitted') \in Nat
  BY <1>1, LenProperties
<1>3. CASE UNCHANGED <<valset, emitted, sets>>
  BY <1>2, <1>3 DEF SetsFollow
<1>4. ASSUME NEW a, Emit(a, ContractTakes(valset, a))
      PROVE  /\ SetsFollow' /\ Len(emitted) <= Len(emitted')
             /\ \A i \in 1..Len(emitted) + 1 : sets'[i] = sets[i]
  <2> DEFINE s == ContractTakes(valset, a)
  <2>1. emitted' = Append(emitted, a) /\ sets' = Append(sets, s) /\ valset' = s
    BY <1>4 DEF Emit
  <2> HIDE DEF s
  <2>2. /\ Len(emitted') = Len(emitted) + 1 /\ Len(sets') = Len(sets) + 1
        /\ emitted'[Len(emitted) + 1] = a /\ sets'[Len(sets) + 1] = s
        /\ \A i \in 1..Len(emitted) : emitted'[i] = emitted[i]
        /\ \A i \in 1..Len(sets) : sets'[i] = sets[i]
        /\ Len(sets) = Len(emitted) + 1
    BY <1>1, <2>1, LenProperties DEF SetsFollow
  <2>3. ASSUME NEW i \in 1..Len(emitted')
        PROVE  sets'[i + 1] = ContractTakes(sets'[i], emitted'[i])
    <3>1. CASE i \in 1..Len(emitted)
      <4>1. /\ sets'[i] = sets[i] /\ sets'[i + 1] = sets[i + 1]
            /\ emitted'[i] = emitted[i]
        BY <1>2, <2>2, <3>1
      <4> QED
        BY <3>1, <4>1 DEF SetsFollow
    <3>2. CASE i = Len(emitted) + 1
      <4>1. sets'[i] = valset /\ sets'[i + 1] = s /\ emitted'[i] = a
        BY <1>2, <2>2, <3>2 DEF SetsFollow
      <4> QED
        BY <4>1 DEF s
    <3> QED
      BY <1>2, <2>2, <3>1, <3>2
  <2>4. Len(sets') = Len(emitted') + 1 /\ sets'[Len(sets')] = valset'
    BY <1>2, <2>1, <2>2
  <2> QED
    BY <1>2, <2>2, <2>3, <2>4 DEF SetsFollow
<1> QED
  BY <1>2, <1>3, <1>4 DEF Grows

-----------------------------------------------------------------------------
\* The three languages make the same of an action.

LEMMA SetsAreTaken ==
  ASSUME NEW s, NEW a \in Action
  PROVE  /\ CosmosSet(s, a) = ContractTakes(s, a)
         /\ SolanaSet(s, a) = ContractTakes(s, a)
         /\ EthereumSet(s, a) = ContractTakes(s, a)
<1>1. /\ a.kind \in {"selfReplace", "newSet", "migrate"}
      /\ a.kind = "selfReplace" => a.role \in Roles
  BY DEF Action
<1>2. CosmosSet(s, a) = ContractTakes(s, a)
  BY <1>1 DEF CosmosSet, ContractTakes
<1>3. SolanaSet(s, a) = ContractTakes(s, a)
  BY <1>1 DEF SolanaSet, ContractTakes, ReplaceIn, Roles
<1>4. EthereumSet(s, a) = ContractTakes(s, a)
  BY <1>1 DEF EthereumSet, ContractTakes, ReplaceIn, Roles
<1> QED
  BY <1>2, <1>3, <1>4

LEMMA AfterIsTaken ==
  ASSUME NEW k \in Kinds, NEW s, NEW a \in Action
  PROVE  After(k, s, a) = ContractTakes(s, a)
<1>1. k \in {"cosmos", "solana", "ethereum"}
  BY ContractsAssumption
<1> QED
  BY <1>1, SetsAreTaken DEF After

LEMMA CallType ==
  ASSUME NEW call \in Calls
  PROVE  /\ call.processor \in Key /\ call.approvers \in Seq(Key)
         /\ Len(call.approvers) \in Nat
         /\ DOMAIN call.approvers = 1..Len(call.approvers)
<1>1. PICK n \in 0..MaxSignatures : call.approvers \in [1..n -> Key]
  BY DEF Calls
<1>2. call.processor \in Key
  BY DEF Calls
<1>3. call.approvers \in Seq(Key)
  BY <1>1, ContractsAssumption, SeqDef
<1> QED
  BY <1>2, <1>3, LenProperties

-----------------------------------------------------------------------------
\* Signatures.  As many keys of a set have signed as there are signatures of
\* different keys of it.

LEMMA SignersCount ==
  ASSUME NEW sigs \in Seq(Key), NEW at, at \subseteq DOMAIN sigs,
         NEW approvers \in SUBSET Key,
         \A i \in at : sigs[i] \in approvers, Distinct(sigs, at)
  PROVE  /\ Cardinality(ToSet(sigs) \cap approvers) \in Nat
         /\ Cardinality(at) \in Nat
         /\ Cardinality(at) <= Cardinality(ToSet(sigs) \cap approvers)
<1> DEFINE T == ToSet(sigs) \cap approvers
           f == [i \in at |-> sigs[i]]
<1>1. IsFiniteSet(T)
  <2>1. T \in SUBSET Key
    OBVIOUS
  <2> HIDE DEF T
  <2> QED
    BY <2>1, FS_Subset, GovernanceAssumption
<1>2. f \in Injection(at, T)
  BY DEF ToSet, Distinct, Injection, IsInjective
<1> HIDE DEF T, f
<1>3. IsFiniteSet(at) /\ Cardinality(at) <= Cardinality(T)
  BY <1>1, <1>2, FS_Injection
<1>4. Cardinality(T) \in Nat /\ Cardinality(at) \in Nat
  BY <1>1, <1>3, FS_CardinalityType
<1> QED
  BY <1>3, <1>4 DEF T

SignedBy(call, s) ==
  /\ call.processor = s.processor
  /\ Cardinality(ToSet(call.approvers) \cap s.approvers) >= s.neededApprovers

LEMMA VerifiedIsSigned ==
  ASSUME NEW call \in Calls, NEW s \in ValidatorSet,
         Verified(call, s.processor, s.approvers, s.neededApprovers)
  PROVE  SignedBy(call, s)
<1> DEFINE at == Counted(call.approvers, s.approvers)
<1>1. /\ at \subseteq DOMAIN call.approvers
      /\ \A i \in at : call.approvers[i] \in s.approvers
  BY DEF Counted
<1>2. /\ call.processor = s.processor /\ Distinct(call.approvers, at)
      /\ Cardinality(at) >= s.neededApprovers
  BY DEF Verified
<1>3. call.approvers \in Seq(Key)
  BY CallType
<1>4. s.approvers \in SUBSET Key /\ s.neededApprovers \in Nat
  BY DEF ValidatorSet
<1> HIDE DEF at
<1>5. /\ Cardinality(ToSet(call.approvers) \cap s.approvers) \in Nat
      /\ Cardinality(at) \in Nat
      /\ Cardinality(at) <= Cardinality(ToSet(call.approvers) \cap s.approvers)
  BY <1>1, <1>2, <1>3, <1>4, SignersCount
<1> QED
  BY <1>2, <1>4, <1>5 DEF SignedBy

LEMMA ReadIsSigned ==
  ASSUME NEW call \in Calls, NEW s \in ValidatorSet,
         call.processor = s.processor,
         ReadUntilQuorum(call, s.approvers, s.neededApprovers)
  PROVE  SignedBy(call, s)
<1> DEFINE n == s.neededApprovers
<1>1. n \in Nat /\ s.approvers \in SUBSET Key
  BY DEF ValidatorSet
<1>2. call.approvers \in Seq(Key)
  BY CallType
<1>3. 1..n \subseteq DOMAIN call.approvers
  BY <1>1, CallType DEF ReadUntilQuorum
<1>4. /\ \A i \in 1..n : call.approvers[i] \in s.approvers
      /\ Distinct(call.approvers, 1..n)
  BY DEF ReadUntilQuorum
<1>5. Cardinality(1..n) = n
  BY <1>1, FS_Interval
<1> QED
  BY <1>1, <1>2, <1>3, <1>4, <1>5, SignersCount DEF SignedBy

\* What the Ethereum contract works out before it looks at the action is what
\* the action leaves behind.
LEMMA EthereumExpects ==
  ASSUME NEW s \in ValidatorSet, NEW a \in Action, EthereumInner(s, a)
  PROVE  LET t == EthereumSet(s, a)
         IN  /\ t.processor = ExpectedProcessor(s, a)
             /\ t.approvers = ExpectedApprovers(s, a)
             /\ t.neededApprovers = EthereumQuorum(s, a)
<1>0. /\ a.kind \in {"selfReplace", "newSet", "migrate"}
      /\ a.kind = "selfReplace" => a.role \in Roles
  BY DEF Action
<1>1. CASE a.kind # "selfReplace"
  BY <1>0, <1>1
  DEF EthereumSet, ExpectedProcessor, ExpectedApprovers, EthereumQuorum
<1>2. CASE a.kind = "selfReplace" /\ a.role = "processor"
  BY <1>2 DEF EthereumSet, ExpectedProcessor, ExpectedApprovers,
              EthereumQuorum, ValidatorSet
<1>3. CASE a.kind = "selfReplace" /\ a.role = "listener"
  BY <1>3 DEF EthereumSet, ExpectedProcessor, ExpectedApprovers,
              EthereumQuorum, ValidatorSet
<1>4. CASE a.kind = "selfReplace" /\ a.role = "approver"
  <2>1. a.old \in s.approvers
    BY <1>4 DEF EthereumInner, SelfReplaceIsValid, ReplaceIsValid
  <2> QED
    BY <1>4, <2>1 DEF EthereumSet, ExpectedProcessor, ExpectedApprovers,
                      EthereumQuorum, ValidatorSet, Swap
<1> QED
  BY <1>0, <1>1, <1>2, <1>3, <1>4 DEF Roles

\* Each of the three takes an action only with the signatures of the set that
\* it leaves behind.
LEMMA TakesIsSigned ==
  ASSUME NEW k \in Kinds, NEW s \in ValidatorSet, NEW a \in Action,
         NEW call \in Calls, Takes(k, s, a, call),
         After(k, s, a) \in ValidatorSet
  PROVE  SignedBy(call, After(k, s, a))
<1> DEFINE t == After(k, s, a)
<1>0. /\ a.kind \in {"selfReplace", "newSet", "migrate"}
      /\ a.kind = "selfReplace" => a.role \in Roles
  BY DEF Action
<1>1. CASE k = "cosmos" /\ CosmosTakes(s, a, call)
  <2>1. t = CosmosSet(s, a)
    BY <1>1 DEF After
  <2>2. Verified(call, t.processor, t.approvers, t.neededApprovers)
    BY <1>1, <2>1 DEF CosmosTakes, CosmosExpected
  <2> HIDE DEF t
  <2>3. t \in ValidatorSet
    BY DEF t
  <2>4. SignedBy(call, t)
    BY <2>2, <2>3, VerifiedIsSigned
  <2> QED
    BY <2>4 DEF t
<1>2. CASE k = "solana" /\ SolanaTakes(s, a, call)
  <2>1. t = SolanaSet(s, a)
    BY <1>2 DEF After
  <2>2. Verified(call, t.processor, t.approvers, t.neededApprovers)
    <3>1. CASE a.kind = "migrate"
      BY <1>2, <2>1, <3>1 DEF SolanaTakes, SolanaSet
    <3>2. CASE a.kind = "newSet"
      BY <1>2, <2>1, <3>2 DEF SolanaTakes, SolanaSet, SolanaNewSet
    <3>3. CASE a.kind = "selfReplace" /\ a.role = "processor"
      BY <1>2, <2>1, <3>3 DEF SolanaTakes, SolanaSet, SolanaReplaces, ValidatorSet
    <3>4. CASE a.kind = "selfReplace" /\ a.role = "listener"
      BY <1>2, <2>1, <3>4 DEF SolanaTakes, SolanaSet, SolanaReplaces, ValidatorSet
    <3>5. CASE a.kind = "selfReplace" /\ a.role = "approver"
      BY <1>2, <2>1, <3>5 DEF SolanaTakes, SolanaSet, SolanaReplaces, ValidatorSet
    <3> QED
      BY <1>0, <3>1, <3>2, <3>3, <3>4, <3>5 DEF Roles
  <2> HIDE DEF t
  <2>3. t \in ValidatorSet
    BY DEF t
  <2>4. SignedBy(call, t)
    BY <2>2, <2>3, VerifiedIsSigned
  <2> QED
    BY <2>4 DEF t
<1>3. CASE k = "ethereum" /\ EthereumTakes(s, a, call)
  <2>1. t = EthereumSet(s, a)
    BY <1>3 DEF After
  <2>2. /\ call.processor = t.processor
        /\ ReadUntilQuorum(call, t.approvers, t.neededApprovers)
    <3>1. /\ call.processor = ExpectedProcessor(s, a)
          /\ ReadUntilQuorum(call, ExpectedApprovers(s, a), EthereumQuorum(s, a))
          /\ EthereumInner(s, a)
      BY <1>3 DEF EthereumTakes
    <3>2. /\ t.processor = ExpectedProcessor(s, a)
          /\ t.approvers = ExpectedApprovers(s, a)
          /\ t.neededApprovers = EthereumQuorum(s, a)
      BY <2>1, <3>1, EthereumExpects
    <3> QED
      BY <3>1, <3>2
  <2> HIDE DEF t
  <2>3. t \in ValidatorSet
    BY DEF t
  <2>4. SignedBy(call, t)
    BY <2>2, <2>3, ReadIsSigned
  <2> QED
    BY <2>4 DEF t
<1> QED
  BY <1>1, <1>2, <1>3 DEF Takes

-----------------------------------------------------------------------------
\* What a step does to a contract.

ContractInv == ContractTypeOK /\ SetsFollow /\ FollowsKolme /\ QuorumSigned

\* What an action makes of a set is a set.
LEMMA TakenType ==
  ASSUME NEW s \in ValidatorSet, NEW a \in Action
  PROVE  ContractTakes(s, a) \in ValidatorSet
<1>1. CASE a.kind = "selfReplace"
  <2>1. a.role \in Roles /\ a.old \in Key /\ a.new \in Key
    BY <1>1 DEF Action
  <2>2. ReplaceIn(s, a.role, a.old, a.new) \in ValidatorSet
    BY <2>1, ReplaceInType
  <2> QED
    BY <1>1, <2>2 DEF ContractTakes
<1>2. CASE a.kind = "newSet"
  BY <1>2 DEF ContractTakes, Action
<1>3. CASE a.kind = "migrate"
  BY <1>3 DEF ContractTakes
<1> QED
  BY <1>1, <1>2, <1>3 DEF Action

\* What a call carries is an action, Kolme's own where calls carry what it emitted.
LEMMA CarriedIs ==
  ASSUME NEW k, NEW b \in Action, NEW a \in Carried(k, b)
  PROVE  /\ a \in Action
         /\ (k = "ethereum" => OtherSets = {}) => a = b
<1>1. CASE a = b
  BY <1>1
<1>2. ASSUME NEW s \in OtherSets, a = [b EXCEPT !.set = s],
             b.kind = "newSet", k = "ethereum"
      PROVE  a \in Action /\ OtherSets # {}
  <2>1. /\ s \in ValidatorSet
        /\ b \in [kind : {"newSet"}, set : ValidatorSet, votes : SUBSET Key]
    BY <1>2, ContractsAssumption DEF Action
  <2>2. a \in [kind : {"newSet"}, set : ValidatorSet, votes : SUBSET Key]
    BY <1>2, <2>1
  <2> QED
    BY <2>2 DEF Action
<1> QED
  BY <1>1, <1>2 DEF Carried

LEMMA ExecuteKeeps ==
  ASSUME ContractInv, NEW call \in Calls, ExecuteSigned(call)
  PROVE  ContractInv'
<1> DEFINE e == emitted[taken + 1]
<1>1. /\ TypeOK /\ kind \in Kinds /\ held \in ValidatorSet
      /\ taken \in 0..Len(emitted)
      /\ emitted \in Seq(Action) /\ sets \in Seq(ValidatorSet)
  BY DEF ContractInv, ContractTypeOK, TypeOK
<1>2. Len(emitted) \in Nat /\ Len(sets) = Len(emitted) + 1
  BY <1>1, LenProperties DEF ContractInv, SetsFollow
<1>3. PICK a \in Carried(kind, e) :
        Takes(kind, held, a, call) /\ held' = After(kind, held, a)
  BY DEF ExecuteSigned
<1>4. /\ taken < Len(emitted) /\ taken' = taken + 1 /\ last' = call
      /\ UNCHANGED <<valset, version, proposals, nextProposal, emitted, sets>>
      /\ UNCHANGED <<intent, woken, earlier, kind>>
  BY DEF ExecuteSigned, vars, chainVars, upgraderVars
<1>5. taken + 1 \in 1..Len(emitted) /\ taken' + 1 \in 1..Len(sets)
  BY <1>1, <1>2, <1>4
<1>6. /\ e \in Action /\ sets[taken' + 1] \in ValidatorSet
      /\ sets[taken' + 1] = ContractTakes(sets[taken + 1], e)
  <2>1. sets[taken + 1 + 1] = ContractTakes(sets[taken + 1], e)
    BY <1>5 DEF ContractInv, SetsFollow
  <2> QED
    BY <1>1, <1>4, <1>5, <2>1, ElementOfSeq
<1> HIDE DEF e
<1>7. a \in Action /\ (CarriesEmitted => a = e)
  BY <1>6, CarriedIs DEF CarriesEmitted
<1>8. held' = ContractTakes(held, a)
  BY <1>1, <1>3, <1>7, AfterIsTaken
<1>9. FollowsKolme'
  <2> SUFFICES ASSUME CarriesEmitted' PROVE held' = sets'[taken' + 1]
    BY DEF FollowsKolme
  <2>1. CarriesEmitted
    BY <1>4 DEF CarriesEmitted
  <2>2. a = e /\ held = sets[taken + 1]
    BY <1>7, <2>1 DEF ContractInv, FollowsKolme
  <2> QED
    BY <1>4, <1>6, <1>8, <2>2
<1>10. held' \in ValidatorSet
  BY <1>1, <1>7, <1>8, TakenType
<1>11. SignedBy(call, held')
  BY <1>1, <1>3, <1>7, <1>10, TakesIsSigned
<1>12. ContractTypeOK'
  <2>1. TypeOK'
    BY <1>1, <1>4 DEF TypeOK
  <2> QED
    BY <1>1, <1>2, <1>4, <1>5, <1>10, <2>1 DEF ContractTypeOK
<1>13. SetsFollow'
  BY <1>4 DEF ContractInv, SetsFollow
<1>14. QuorumSigned'
  BY <1>4, <1>11 DEF QuorumSigned, SignedBy
<1> QED
  BY <1>9, <1>12, <1>13, <1>14 DEF ContractInv

LEMMA KolmeKeeps ==
  ASSUME ContractInv, TypeOK', [Next]_vars, UNCHANGED <<kind, held, taken>>,
         last' = NoCall \/ UNCHANGED <<last, vars>>
  PROVE  ContractInv'
<1>1. /\ TypeOK /\ SetsFollow /\ taken \in 0..Len(emitted)
      /\ kind \in Kinds /\ held \in ValidatorSet
      /\ last \in Calls \cup {NoCall}
  BY DEF ContractInv, ContractTypeOK
<1>2. /\ SetsFollow'
      /\ Len(emitted) \in Nat /\ Len(emitted') \in Nat
      /\ Len(emitted) <= Len(emitted')
      /\ \A i \in 1..Len(emitted) + 1 : sets'[i] = sets[i]
  BY <1>1, KolmeGrows, GrowsKeeps
<1>3. ContractTypeOK'
  BY <1>1, <1>2 DEF ContractTypeOK
<1>4. FollowsKolme'
  <2>1. taken + 1 \in 1..Len(emitted) + 1
    BY <1>1, <1>2
  <2> QED
    BY <1>2, <2>1 DEF ContractInv, FollowsKolme, CarriesEmitted
<1>5. QuorumSigned'
  BY DEF ContractInv, QuorumSigned
<1> QED
  BY <1>2, <1>3, <1>4, <1>5 DEF ContractInv

LEMMA ContractStepIsKolmes == ContractSpec => Spec
<1>1. Instantiate => Init
  BY DEF Instantiate
<1>2. [ContractNext]_allVars => [Next]_vars
  BY DEF ContractNext, KolmeStep, ExecuteSigned, allVars
<1> QED
  BY <1>1, <1>2, PTL DEF ContractSpec, Spec

LEMMA ContractInductive == ContractSpec => []ContractInv
<1>1. Instantiate /\ TypeOK => ContractInv
  <2> SUFFICES ASSUME Instantiate, TypeOK PROVE ContractInv
    OBVIOUS
  <2>1. /\ kind \in Kinds /\ held = InitialSet /\ taken = 0 /\ last = NoCall
        /\ valset = InitialSet /\ emitted = << >> /\ sets = <<InitialSet>>
    BY DEF Instantiate, Init
  <2>2. InitialSet \in ValidatorSet
    BY GovernanceAssumption
  <2>3. /\ Len(emitted) = 0 /\ Len(sets) = 1
        /\ sets[1] = InitialSet
    BY <2>1
  <2>4. ContractTypeOK /\ SetsFollow
    BY <2>1, <2>2, <2>3 DEF ContractTypeOK, SetsFollow
  <2>5. FollowsKolme /\ QuorumSigned
    BY <2>1, <2>3 DEF FollowsKolme, QuorumSigned
  <2> QED
    BY <2>4, <2>5 DEF ContractInv
<1>2. ContractInv /\ TypeOK' /\ [ContractNext]_allVars => ContractInv'
  <2> SUFFICES ASSUME ContractInv, TypeOK', [ContractNext]_allVars
               PROVE  ContractInv'
    OBVIOUS
  <2>1. CASE KolmeStep
    BY <2>1, KolmeKeeps DEF KolmeStep
  <2>2. ASSUME NEW call \in Calls, ExecuteSigned(call) PROVE ContractInv'
    BY <2>2, ExecuteKeeps
  <2>3. CASE UNCHANGED allVars
    BY <2>3, KolmeKeeps DEF allVars, contractVars
  <2> QED
    BY <2>1, <2>2, <2>3 DEF ContractNext
<1> QED
  BY <1>1, <1>2, ContractStepIsKolmes, TypeCorrect, PTL DEF ContractSpec

\* A contract has the set that Kolme had after the actions it has taken, whatever
\* keys sign its calls: always when it is written for Cosmos or Solana, and when
\* it is written for Ethereum as long as no call carries another set beside the
\* proposal that was voted for (contracts/cosmos/src/lib.rs signed,
\* kolme-solana-bridge signed, BridgeV1.sol execute_signed).
THEOREM ContractFollows == ContractSpec => []FollowsKolme
BY ContractInductive, PTL DEF ContractInv

\* What it took in the last step was signed by the processor and a quorum of
\* different approvers of the set it has now (verify_signatures,
\* _verifySignatures).
THEOREM ContractTakesSigned == ContractSpec => []QuorumSigned
BY ContractInductive, PTL DEF ContractInv

-----------------------------------------------------------------------------
\* The three verdicts.

LEMMA SumsIsGroups ==
  ASSUME NEW s \in ValidatorSet, NEW votes
  PROVE  Sums(s.processor \in votes,
              Fulfills(votes, s.listeners, s.neededListeners),
              Fulfills(votes, s.approvers, s.neededApprovers))
           = Cardinality(GroupsFor(s, votes))
<1> DEFINE P == s.processor \in votes
           L == Fulfills(votes, s.listeners, s.neededListeners)
           A == Fulfills(votes, s.approvers, s.neededApprovers)
           I == {i \in 1..3 : <<P, L, A>>[i]}
           f == [i \in I |-> IF i = 1 THEN "processor"
                             ELSE IF i = 2 THEN "listeners" ELSE "approvers"]
<1> HIDE DEF P, L, A
<1>1. GroupsFor(s, votes)
        = (IF P THEN {"processor"} ELSE {}) \cup (IF L THEN {"listeners"} ELSE {})
          \cup (IF A THEN {"approvers"} ELSE {})
  BY DEF GroupsFor, P, L, A
<1>2. I = {i \in {1, 2, 3} : (i = 1 /\ P) \/ (i = 2 /\ L) \/ (i = 3 /\ A)}
  OBVIOUS
<1>3. f \in Injection(I, GroupsFor(s, votes))
  BY <1>1, <1>2 DEF Injection, IsInjective
<1>4. f \in Surjection(I, GroupsFor(s, votes))
  BY <1>1, <1>2 DEF Surjection
<1>5. IsFiniteSet(GroupsFor(s, votes))
  BY GroupsFinite
<1> HIDE DEF f
<1>6. Cardinality(I) = Cardinality(GroupsFor(s, votes))
  BY <1>3, <1>4, <1>5, FS_Injection
<1> QED
  BY <1>6 DEF Sums, P, L, A

LEMMA CosmosLikeSolana ==
  ASSUME NEW s \in ValidatorSet, NEW a \in Action, NEW call
  PROVE  CosmosTakes(s, a, call) <=> SolanaTakes(s, a, call)
<1> DEFINE e == CosmosSet(s, a)
<1>1. /\ a.kind \in {"selfReplace", "newSet", "migrate"}
      /\ a.kind = "selfReplace" => a.role \in Roles
  BY DEF Action
<1>2. /\ CosmosTakes(s, a, call)
           <=> /\ CosmosInner(s, a)
               /\ Verified(call, e.processor, e.approvers, e.neededApprovers)
  BY DEF CosmosTakes, CosmosExpected
<1>3. CASE a.kind = "migrate"
  <2>1. CosmosInner(s, a) /\ e = s
    BY <1>3 DEF CosmosInner, CosmosSet
  <2> QED
    BY <1>2, <1>3, <2>1 DEF SolanaTakes
<1>4. CASE a.kind = "newSet"
  <2>1. e = a.set /\ (CosmosInner(s, a) <=> Cardinality(GroupsFor(s, a.votes)) >= 2)
    BY <1>4 DEF CosmosInner, CosmosSet
  <2>2. Cardinality(GroupsFor(s, a.votes)) \in Nat
    BY GroupsFinite
  <2>3. SolanaTakes(s, a, call)
          <=> /\ 2 <= Cardinality(GroupsFor(s, a.votes))
              /\ Verified(call, e.processor, e.approvers, e.neededApprovers)
    BY <1>4, <2>1, SumsIsGroups DEF SolanaTakes, SolanaNewSet
  <2> QED
    BY <1>2, <2>1, <2>2, <2>3
<1>5. CASE a.kind = "selfReplace" /\ a.role = "processor"
  <2>1. /\ e.processor = a.new /\ e.approvers = s.approvers
        /\ e.neededApprovers = s.neededApprovers
    BY <1>5 DEF CosmosSet, ReplaceIn, ValidatorSet
  <2>2. CosmosInner(s, a) <=> a.old = s.processor
    BY <1>5 DEF CosmosInner, Holds
  <2> QED
    BY <1>2, <1>5, <2>1, <2>2 DEF SolanaTakes, SolanaReplaces
<1>6. CASE a.kind = "selfReplace" /\ a.role = "listener"
  <2>1. /\ e.processor = s.processor /\ e.approvers = s.approvers
        /\ e.neededApprovers = s.neededApprovers
    BY <1>6 DEF CosmosSet, ReplaceIn, ValidatorSet
  <2>2. CosmosInner(s, a) <=> a.old \in s.listeners /\ a.new \notin s.listeners
    BY <1>6 DEF CosmosInner, Holds
  <2> QED
    BY <1>2, <1>6, <2>1, <2>2 DEF SolanaTakes, SolanaReplaces
<1>7. CASE a.kind = "selfReplace" /\ a.role = "approver"
  <2>1. /\ e.processor = s.processor /\ e.approvers = SolanaSet(s, a).approvers
        /\ e.neededApprovers = s.neededApprovers
    BY <1>7 DEF CosmosSet, SolanaSet, ReplaceIn, ValidatorSet
  <2>2. CosmosInner(s, a) <=> a.old \in s.approvers /\ a.new \notin s.approvers
    BY <1>7 DEF CosmosInner, Holds
  <2> QED
    BY <1>2, <1>7, <2>1, <2>2 DEF SolanaTakes, SolanaReplaces
<1> QED
  BY <1>1, <1>3, <1>4, <1>5, <1>6, <1>7 DEF Roles

\* The signatures up to the quorum are what the other two would ask for.
LEMMA ReadIsVerified ==
  ASSUME NEW call \in Calls, NEW approvers \in SUBSET Key, NEW n \in Nat,
         ReadUntilQuorum(call, approvers, n)
  PROVE  Verified(Call(call.processor, SubSeq(call.approvers, 1, n)),
                  call.processor, approvers, n)
<1> DEFINE sigs == SubSeq(call.approvers, 1, n)
<1>1. /\ call.approvers \in Seq(Key) /\ n <= Len(call.approvers)
      /\ Len(call.approvers) \in Nat
  BY CallType DEF ReadUntilQuorum
<1>2. /\ DOMAIN sigs = 1..n
      /\ \A i \in 1..n : sigs[i] = call.approvers[i]
  BY <1>1
<1> HIDE DEF sigs
<1>3. Counted(sigs, approvers) = 1..n /\ Distinct(sigs, 1..n)
  BY <1>2 DEF Counted, Distinct, ReadUntilQuorum
<1>4. Cardinality(1..n) = n
  BY FS_Interval
<1>5. /\ Call(call.processor, sigs).processor = call.processor
      /\ Call(call.processor, sigs).approvers = sigs
  BY DEF Call
<1>6. Verified(Call(call.processor, sigs), call.processor, approvers, n)
  BY <1>3, <1>4, <1>5 DEF Verified
<1> QED
  BY <1>6 DEF sigs

LEMMA EthereumLikeCosmos ==
  ASSUME NEW s \in ValidatorSet, NEW a \in Action, NEW call \in Calls,
         ContractAccepts(s, a), ContractTakes(s, a) \in ValidatorSet,
         EthereumTakes(s, a, call)
  PROVE  CosmosTakes(s, a, Call(call.processor,
                       SubSeq(call.approvers, 1, EthereumQuorum(s, a))))
<1> DEFINE t == ContractTakes(s, a)
           n == EthereumQuorum(s, a)
<1>1. CosmosInner(s, a)
  BY DEF CosmosInner, ContractAccepts
<1>2. CosmosExpected(s, a) = t
  BY SetsAreTaken DEF CosmosExpected
<1>3. /\ call.processor = ExpectedProcessor(s, a)
      /\ ReadUntilQuorum(call, ExpectedApprovers(s, a), n)
      /\ EthereumInner(s, a)
  BY DEF EthereumTakes
<1>4. /\ t.processor = ExpectedProcessor(s, a)
      /\ t.approvers = ExpectedApprovers(s, a)
      /\ t.neededApprovers = n
  BY <1>3, SetsAreTaken, EthereumExpects
<1> HIDE DEF t, n
<1>5. t.approvers \in SUBSET Key /\ n \in Nat
  BY <1>4 DEF ValidatorSet, t
<1>6. Verified(Call(call.processor, SubSeq(call.approvers, 1, n)),
               t.processor, t.approvers, n)
  BY <1>3, <1>4, <1>5, ReadIsVerified
<1> QED
  BY <1>1, <1>2, <1>4, <1>6 DEF CosmosTakes, t, n

\* Operators that replace keys by fresh ones never make the languages disagree:
\* the Cosmos contract and the Solana program give one verdict on every call,
\* and the Ethereum contract gives it on as many signatures as it reads
\* (contracts/cosmos/src/lib.rs signed, kolme-solana-bridge signed,
\* BridgeV1.sol execute_signed).
THEOREM ContractsAgree ==
  ASSUME Careful
  PROVE  ContractSpec => []SameVerdict
<1>1. ContractInv /\ IInv => SameVerdict
  <2> SUFFICES ASSUME ContractInv, IInv, CarriesEmitted, taken < Len(emitted),
                      NEW call \in Calls
               PROVE  LET a == emitted[taken + 1]
                      IN  /\ CosmosTakes(held, a, call) <=> SolanaTakes(held, a, call)
                          /\ EthereumTakes(held, a, call) =>
                               LET n == EthereumQuorum(held, a)
                               IN  CosmosTakes(held, a,
                                     Call(call.processor, SubSeq(call.approvers, 1, n)))
    BY DEF SameVerdict
  <2> DEFINE a == emitted[taken + 1]
  <2>1. /\ emitted \in Seq(Action) /\ sets \in Seq(ValidatorSet)
        /\ held \in ValidatorSet /\ taken \in 0..Len(emitted)
        /\ held = sets[taken + 1] /\ Len(sets) = Len(emitted) + 1
    BY DEF ContractInv, ContractTypeOK, TypeOK, FollowsKolme, SetsFollow
  <2>2. taken + 1 \in 1..Len(emitted) /\ taken + 1 + 1 \in 1..Len(sets)
    BY <2>1, LenProperties
  <2>3. a \in Action /\ sets[taken + 1 + 1] \in ValidatorSet
    BY <2>1, <2>2, ElementOfSeq
  <2>4. ContractAccepts(held, a) /\ sets[taken + 1 + 1] = ContractTakes(held, a)
    BY <2>1, <2>2 DEF IInv, ContractsCanFollow
  <2> HIDE DEF a
  <2>5. CosmosTakes(held, a, call) <=> SolanaTakes(held, a, call)
    BY <2>1, <2>3, CosmosLikeSolana
  <2>6. EthereumTakes(held, a, call) =>
          CosmosTakes(held, a, Call(call.processor,
                        SubSeq(call.approvers, 1, EthereumQuorum(held, a))))
    BY <2>1, <2>3, <2>4, EthereumLikeCosmos
  <2> QED
    BY <2>5, <2>6 DEF a
<1> QED
  BY <1>1, ContractInductive, ContractStepIsKolmes, Inductive, PTL

-----------------------------------------------------------------------------
\* The next action is accepted.

\* Every set that Kolme has gone through is a valid one.
SetsAreValid == \A i \in 1..Len(sets) : Valid(sets[i])

LEMMA GrowsStaysValid ==
  ASSUME TypeOK, TypeOK', SetsFollow, SetsAreValid, Valid(valset'), Grows
  PROVE  SetsAreValid'
<1>1. CASE UNCHANGED <<valset, emitted, sets>>
  BY <1>1 DEF SetsAreValid
<1>2. ASSUME NEW a, Emit(a, ContractTakes(valset, a)) PROVE SetsAreValid'
  <2>1. PICK t : t = valset'
    OBVIOUS
  <2>2. sets' = Append(sets, t) /\ sets \in Seq(ValidatorSet) /\ t \in ValidatorSet
    BY <1>2, <2>1 DEF Emit, TypeOK
  <2>3. /\ Len(sets') = Len(sets) + 1 /\ Len(sets) \in Nat
        /\ \A i \in 1..Len(sets) : sets'[i] = sets[i]
        /\ sets'[Len(sets) + 1] = t
    BY <2>2, AppendProperties, LenProperties
  <2>4. ASSUME NEW i \in 1..Len(sets') PROVE Valid(sets'[i])
    <3>1. i \in 1..Len(sets) \/ i = Len(sets) + 1
      BY <2>3
    <3> QED
      BY <2>1, <2>3, <3>1 DEF SetsAreValid
  <2> QED
    BY <2>4 DEF SetsAreValid
<1> QED
  BY <1>1, <1>2 DEF Grows

\* Signatures that a submitter passes on are of a quorum, however many of them
\* a contract reads.
LEMMA PassedOnIsEnough ==
  ASSUME NEW s \in ValidatorSet, NEW call \in PassedOn(s)
  PROVE  /\ call \in Calls /\ call.processor = s.processor
         /\ Verified(call, s.processor, s.approvers, s.neededApprovers)
         /\ ReadUntilQuorum(call, s.approvers, s.neededApprovers)
<1> DEFINE sigs == call.approvers
           n == Len(sigs)
<1>1. /\ call \in Calls /\ call.processor = s.processor
      /\ ToSet(sigs) \subseteq s.approvers /\ Distinct(sigs, DOMAIN sigs)
      /\ n >= s.neededApprovers
  BY DEF PassedOn
<1>2. sigs \in Seq(Key) /\ n \in Nat /\ DOMAIN sigs = 1..n
  BY <1>1, CallType
<1>3. s.neededApprovers \in Nat
  BY DEF ValidatorSet
<1>4. \A i \in 1..n : sigs[i] \in s.approvers
  BY <1>1, <1>2 DEF ToSet
<1> HIDE DEF sigs, n
<1>5. Counted(sigs, s.approvers) = 1..n
  BY <1>2, <1>4 DEF Counted
<1>6. Cardinality(1..n) = n
  BY <1>2, FS_Interval
<1>7. Verified(call, s.processor, s.approvers, s.neededApprovers)
  BY <1>1, <1>2, <1>5, <1>6 DEF Verified, sigs
<1>8. ReadUntilQuorum(call, s.approvers, s.neededApprovers)
  <2>1. 1..s.neededApprovers \subseteq 1..n
    BY <1>1, <1>2, <1>3
  <2> QED
    BY <1>1, <1>2, <1>4, <2>1 DEF ReadUntilQuorum, Distinct, sigs, n
<1> QED
  BY <1>1, <1>7, <1>8

\* What the Ethereum contract looks at in an action that the other two take.
LEMMA EthereumAccepts ==
  ASSUME NEW s \in ValidatorSet, NEW a \in Action, ContractAccepts(s, a),
         a.kind = "newSet" => a.votes \subseteq Members(s)
  PROVE  EthereumInner(s, a)
<1>1. a.kind = "selfReplace" => a.role \in Roles
  BY DEF Action
<1>2. ASSUME a.kind = "selfReplace" PROVE SelfReplaceIsValid(s, a)
  BY <1>1, <1>2 DEF ContractAccepts, Holds, SelfReplaceIsValid, ReplaceIsValid, Roles
<1>3. a.kind = "newSet" => NewSetApproved(s, a)
  BY DEF ContractAccepts, NewSetApproved
<1> QED
  BY <1>2, <1>3 DEF EthereumInner

\* While operators replace keys by fresh ones, no contract is left unable to take
\* the next action: the signatures of the processor and of any quorum of the set
\* the action leaves behind are enough, except that the Ethereum contract wants
\* votes of members only (execute.rs admin and check_pending_proposals, and the
\* three contracts' execution of a signed action).
THEOREM ContractsAreNeverStuck ==
  ASSUME Careful
  PROVE  ContractSpec => []NextIsAccepted
<1>1. ContractInv /\ IInv /\ SetsAreValid => NextIsAccepted
  <2> SUFFICES ASSUME ContractInv, IInv, SetsAreValid, CarriesEmitted,
                      taken < Len(emitted), Acceptable(kind, emitted[taken + 1]),
                      NEW call \in PassedOn(sets[taken + 2])
               PROVE  Takes(kind, held, emitted[taken + 1], call)
    BY DEF NextIsAccepted
  <2>1. /\ emitted \in Seq(Action) /\ sets \in Seq(ValidatorSet) /\ kind \in Kinds
        /\ held \in ValidatorSet /\ taken \in 0..Len(emitted)
        /\ held = sets[taken + 1] /\ Len(sets) = Len(emitted) + 1
    BY DEF ContractInv, ContractTypeOK, TypeOK, FollowsKolme, SetsFollow
  <2>2. taken + 1 \in 1..Len(emitted) /\ taken + 2 \in 1..Len(sets) /\ taken + 1 + 1 = taken + 2
    BY <2>1, LenProperties
  <2>3. PICK a, t : a = emitted[taken + 1] /\ t = sets[taken + 2]
    OBVIOUS
  <2>4. a \in Action /\ t \in ValidatorSet /\ Valid(t) /\ call \in PassedOn(t)
    BY <2>1, <2>2, <2>3, ElementOfSeq DEF SetsAreValid
  <2>5. ContractAccepts(held, a) /\ t = ContractTakes(held, a)
    BY <2>1, <2>2, <2>3 DEF IInv, ContractsCanFollow
  <2>6. /\ call.processor = t.processor
        /\ Verified(call, t.processor, t.approvers, t.neededApprovers)
        /\ ReadUntilQuorum(call, t.approvers, t.neededApprovers)
    BY <2>4, PassedOnIsEnough
  <2>7. CosmosTakes(held, a, call)
    <3>1. CosmosInner(held, a)
      BY <2>5 DEF CosmosInner, ContractAccepts
    <3>2. CosmosExpected(held, a) = t
      BY <2>4, <2>5, SetsAreTaken DEF CosmosExpected
    <3> QED
      BY <2>6, <3>1, <3>2 DEF CosmosTakes
  <2>8. SolanaTakes(held, a, call)
    BY <2>1, <2>4, <2>7, CosmosLikeSolana
  <2>9. ASSUME kind = "ethereum" PROVE EthereumTakes(held, a, call)
    <3>1. EthereumInner(held, a)
      BY <2>1, <2>3, <2>4, <2>5, <2>9, EthereumAccepts DEF Acceptable
    <3>2. /\ t.processor = ExpectedProcessor(held, a)
          /\ t.approvers = ExpectedApprovers(held, a)
          /\ t.neededApprovers = EthereumQuorum(held, a)
      BY <2>1, <2>4, <2>5, <3>1, EthereumExpects, SetsAreTaken
    <3>3. a.kind = "newSet" => AcceptsSet(a.set)
      BY <2>4, <2>5 DEF ContractTakes, AcceptsSet
    <3> QED
      BY <2>6, <3>1, <3>2, <3>3 DEF EthereumTakes
  <2> QED
    BY <2>1, <2>3, <2>7, <2>8, <2>9, ContractsAssumption DEF Takes
<1>2. Instantiate => SetsAreValid
  BY GovernanceAssumption DEF Instantiate, Init, SetsAreValid
<1>3. ContractInv /\ ContractInv' /\ IInv' /\ SetsAreValid /\ [ContractNext]_allVars
        => SetsAreValid'
  <2> SUFFICES ASSUME ContractInv, ContractInv', IInv', SetsAreValid, [ContractNext]_allVars
               PROVE  SetsAreValid'
    OBVIOUS
  <2>1. TypeOK /\ TypeOK' /\ SetsFollow /\ Valid(valset')
    BY DEF ContractInv, ContractTypeOK, IInv, QuorumsReachable
  <2>2. Grows
    BY KolmeGrows DEF ContractNext, KolmeStep, ExecuteSigned, allVars
  <2> QED
    BY <2>1, <2>2, GrowsStaysValid
<1> QED
  BY <1>1, <1>2, <1>3, ContractInductive, ContractStepIsKolmes, Inductive, PTL
  DEF ContractSpec
=============================================================================
