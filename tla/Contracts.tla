------------------------------ MODULE Contracts ------------------------------
(***************************************************************************)
(* The bridge contract, in the three languages it is written in: the       *)
(* Cosmos contract, the Solana program and the Ethereum contract.  Each    *)
(* holds a copy of the validator set, takes Kolme's actions in order,      *)
(* checks the signatures they come with, and changes its copy when the     *)
(* action says so.  Kolme's side is Governance: the action emitted i-th    *)
(* has the id i - 1, and the contract should have the set sets[i] when it  *)
(* takes it and sets[i + 1] after.  Calls carry the actions that Kolme     *)
(* emitted, except that on Ethereum a new set stands in fields of its own  *)
(* beside the rendered proposal that was voted for: see Carried.           *)
(*                                                                         *)
(* A signature is the key it recovers to; that a call's signatures are of  *)
(* the payload it carries is what recovery checks.  Actions that move      *)
(* money or migrate the contract are the kind "migrate": they leave the    *)
(* set alone, and a call whose inner messages fail changes nothing.        *)
(***************************************************************************)
EXTENDS Governance, FiniteSetsExt, SequencesExt

CONSTANTS
  Kinds,         \* the languages, of which the contract is written in one
  OtherSets,     \* sets a call to Ethereum may carry beside a proposal's own
  MaxSignatures  \* bound on the approver signatures of a call

ASSUME ContractsAssumption ==
  /\ Kinds \subseteq {"cosmos", "solana", "ethereum"}
  /\ OtherSets \subseteq ValidatorSet
  /\ MaxSignatures \in Nat

VARIABLES
  kind,     \* the language of the contract, which never changes
  held,     \* the validator set the contract has
  taken,    \* next_action_id: how many actions it has taken
  last      \* history: the call it accepted in the last step, if it did

contractVars == <<kind, held, taken, last>>
allVars == <<vars, contractVars>>

Call(processor, approvers) == [processor |-> processor, approvers |-> approvers]
NoCall == Call(NoIntent, << >>)
Calls ==
  [processor : Key,
   approvers : UNION {[1..n -> Key] : n \in 0..MaxSignatures}]

Members(s) == {s.processor} \cup s.listeners \cup s.approvers

-----------------------------------------------------------------------------
\* Cosmos: who must have signed is worked out first, from the action and the
\* set; the signatures are checked against it; then the set is changed.

\* The positions of the signatures that count: others are passed over.
Counted(sigs, approvers) == {i \in DOMAIN sigs : sigs[i] \in approvers}

Distinct(sigs, at) == \A i, j \in at : sigs[i] = sigs[j] => i = j

Verified_Twice(call, processor, approvers, needed) ==
  /\ call.processor = processor
  /\ Cardinality(Counted(call.approvers, approvers)) >= needed

Verified(call, processor, approvers, needed) ==
  /\ call.processor = processor
  /\ Distinct(call.approvers, Counted(call.approvers, approvers))
  /\ Cardinality(Counted(call.approvers, approvers)) >= needed

CosmosSet(s, a) ==
  CASE a.kind = "newSet" -> a.set
    [] a.kind = "selfReplace" -> ReplaceIn(s, a.role, a.old, a.new)
    [] a.kind = "migrate" -> s

\* Votes come from a map by key, so no key is among them twice.
CosmosInner(s, a) ==
  /\ a.kind = "selfReplace" =>
       /\ Holds(s, a.role, a.old)
       /\ a.role = "listener" => a.new \notin s.listeners
       /\ a.role = "approver" => a.new \notin s.approvers
  /\ a.kind = "newSet" => Cardinality(GroupsFor(s, a.votes)) >= 2

CosmosExpected_Old(s, a) == IF a.kind = "newSet" THEN s ELSE CosmosSet(s, a)

\* The set whose processor and approvers must have signed.
CosmosExpected(s, a) == CosmosSet(s, a)

CosmosTakes(s, a, call) ==
  LET e == CosmosExpected(s, a)
  IN  /\ CosmosInner(s, a)
      /\ Verified(call, e.processor, e.approvers, e.neededApprovers)

-----------------------------------------------------------------------------
\* Solana: each kind of action checks and changes the loaded state in an order
\* of its own, and only a call that succeeds stores it.

SolanaSet(s, a) ==
  CASE a.kind = "newSet" -> a.set
    [] a.kind = "migrate" -> s
    [] a.kind = "selfReplace" ->
         CASE a.role = "processor" -> [s EXCEPT !.processor = a.new]
           [] a.role = "listener" -> [s EXCEPT !.listeners = Swap(@, a.old, a.new)]
           [] a.role = "approver" -> [s EXCEPT !.approvers = Swap(@, a.old, a.new)]

SolanaReplaces_VerifiesFirst(s, a, call) ==
  /\ Holds(s, a.role, a.old)
  /\ Verified(call, s.processor, s.approvers, s.neededApprovers)

SolanaReplaces(s, a, call) ==
  \/ /\ a.role = "processor"
     /\ a.old = s.processor
     /\ Verified(call, a.new, s.approvers, s.neededApprovers)
  \/ /\ a.role = "listener"
     /\ a.old \in s.listeners /\ a.new \notin s.listeners
     /\ Verified(call, s.processor, s.approvers, s.neededApprovers)
  \/ /\ a.role = "approver"
     /\ a.old \in s.approvers /\ a.new \notin s.approvers
     /\ Verified(call, s.processor, SolanaSet(s, a).approvers, s.neededApprovers)

Sums(one, two, three) ==
  Cardinality({i \in 1..3 : <<one, two, three>>[i]})

SolanaNewSet(s, a, call) ==
  /\ 2 <= Sums(s.processor \in a.votes,
               Fulfills(a.votes, s.listeners, s.neededListeners),
               Fulfills(a.votes, s.approvers, s.neededApprovers))
  /\ Verified(call, a.set.processor, a.set.approvers, a.set.neededApprovers)

SolanaTakes(s, a, call) ==
  \/ /\ a.kind = "migrate"
     /\ Verified(call, s.processor, s.approvers, s.neededApprovers)
  \/ a.kind = "selfReplace" /\ SolanaReplaces(s, a, call)
  \/ a.kind = "newSet" /\ SolanaNewSet(s, a, call)

-----------------------------------------------------------------------------
\* Ethereum: the outer signatures are checked first and only as many as are
\* needed, but each of those must be of an approver.  The holder of a key that
\* is replaced is named by the action, its own signature is not part of it.

ExpectedProcessor(s, a) ==
  CASE a.kind = "newSet" -> a.set.processor
    [] a.kind = "selfReplace" /\ a.role = "processor" -> a.new
    [] OTHER -> s.processor

ExpectedApprovers(s, a) ==
  CASE a.kind = "newSet" -> a.set.approvers
    [] /\ a.kind = "selfReplace" /\ a.role = "approver"
       /\ a.old \in s.approvers -> (s.approvers \ {a.old}) \cup {a.new}
    [] OTHER -> s.approvers

EthereumQuorum(s, a) ==
  IF a.kind = "newSet" THEN a.set.neededApprovers ELSE s.neededApprovers

ReadUntilQuorum(call, approvers, needed) ==
  /\ Len(call.approvers) >= needed
  /\ \A i \in 1..needed : call.approvers[i] \in approvers
  /\ Distinct(call.approvers, 1..needed)

ReplaceIsValid(keys, a) == a.old \in keys /\ (a.new \notin keys \/ a.new = a.old)

SelfReplaceIsValid(s, a) ==
  CASE a.role = "processor" -> a.old = s.processor
    [] a.role = "listener" -> ReplaceIsValid(s.listeners, a)
    [] a.role = "approver" -> ReplaceIsValid(s.approvers, a)

\* The votes are recovered from the rendered proposal.  The set a.set that will
\* be installed is not compared with it.
NewSetApproved(s, a) ==
  a.votes \subseteq Members(s) /\ Cardinality(GroupsFor(s, a.votes)) >= 2

EthereumInner(s, a) ==
  /\ a.kind = "selfReplace" => SelfReplaceIsValid(s, a)
  /\ a.kind = "newSet" => NewSetApproved(s, a)

\* _validateValidatorSet, which only this contract has.
AcceptsSet(s) == Valid(s)

\* A new set must be a valid one, here again.
EthereumTakes(s, a, call) ==
  /\ call.processor = ExpectedProcessor(s, a)
  /\ ReadUntilQuorum(call, ExpectedApprovers(s, a), EthereumQuorum(s, a))
  /\ EthereumInner(s, a)
  /\ a.kind = "newSet" => AcceptsSet(a.set)

\* The old key stays.
EthereumSet_Adds(s, a) ==
  CASE a.kind = "newSet" -> a.set
    [] a.kind = "migrate" -> s
    [] a.kind = "selfReplace" ->
         CASE a.role = "processor" -> [s EXCEPT !.processor = a.new]
           [] a.role = "listener" -> [s EXCEPT !.listeners = @ \cup {a.new}]
           [] a.role = "approver" -> [s EXCEPT !.approvers = @ \cup {a.new}]

EthereumSet(s, a) ==
  CASE a.kind = "newSet" -> a.set
    [] a.kind = "migrate" -> s
    [] a.kind = "selfReplace" ->
         CASE a.role = "processor" -> [s EXCEPT !.processor = a.new]
           [] a.role = "listener" -> [s EXCEPT !.listeners = Swap(@, a.old, a.new)]
           [] a.role = "approver" -> [s EXCEPT !.approvers = Swap(@, a.old, a.new)]

-----------------------------------------------------------------------------
\* The contract, whatever it is written in, and the calls made on it.  Only the
\* action with the id it waits for is looked at any further.

\* What a call may carry when Kolme has emitted a.  The Cosmos contract and the
\* Solana program read the new set from the rendered proposal itself.
Carried(k, a) ==
  {a} \cup {[a EXCEPT !.set = s] :
             s \in IF k = "ethereum" /\ a.kind = "newSet" THEN OtherSets ELSE {}}

Takes(k, s, a, call) ==
  \/ k = "cosmos" /\ CosmosTakes(s, a, call)
  \/ k = "solana" /\ SolanaTakes(s, a, call)
  \/ k = "ethereum" /\ EthereumTakes(s, a, call)

After(k, s, a) ==
  CASE k = "cosmos" -> CosmosSet(s, a)
    [] k = "solana" -> SolanaSet(s, a)
    [] k = "ethereum" -> EthereumSet(s, a)

ExecuteSigned(call) ==
  /\ taken < Len(emitted)
  /\ \E a \in Carried(kind, emitted[taken + 1]) :
       Takes(kind, held, a, call) /\ held' = After(kind, held, a)
  /\ taken' = taken + 1
  /\ last' = call
  /\ UNCHANGED <<vars, kind>>

Instantiate ==
  /\ Init
  /\ kind \in Kinds
  /\ held = InitialSet /\ taken = 0 /\ last = NoCall

KolmeStep == Next /\ last' = NoCall /\ UNCHANGED <<kind, held, taken>>

ContractNext ==
  \/ KolmeStep
  \/ \E call \in Calls : ExecuteSigned(call)

ContractSpec == Instantiate /\ [][ContractNext]_allVars

-----------------------------------------------------------------------------
\* Properties.

\* The type invariant.
ContractTypeOK ==
  /\ TypeOK
  /\ kind \in Kinds /\ held \in ValidatorSet
  /\ taken \in 0..Len(emitted)
  /\ last \in Calls \cup {NoCall}

\* Every call on the contract carries what Kolme emitted.  For Cosmos and Solana
\* that is what the signatures are of; for Ethereum it is an assumption on the
\* fields of a new set, which the code leaves to whoever encodes the call.
CarriesEmitted == kind = "ethereum" => OtherSets = {}

\* With the signatures of any keys, in any order and number, a contract goes
\* through the sets that Kolme went through and no other, although the three
\* languages check and change their sets in different orders: an Ethereum
\* contract as long as calls carry the set that was voted for, the others
\* always (contracts/*/: signed, execute_signed).
FollowsKolme == CarriesEmitted => held = sets[taken + 1]

\* An action was signed by the processor and by a quorum of different approvers
\* of the set that it leaves behind (verify_signatures, _verifySignatures).
QuorumSigned ==
  last # NoCall =>
    /\ last.processor = held.processor
    /\ Cardinality(ToSet(last.approvers) \cap held.approvers)
         >= held.neededApprovers

\* The calls that a submitter makes when the processor and a quorum of approvers
\* of s have signed: the signatures come from a map by key, so each approver's is
\* among them once, in some order (submitter/*.rs execute).
PassedOn(s) ==
  {call \in Calls :
     /\ call.processor = s.processor
     /\ ToSet(call.approvers) \subseteq s.approvers
     /\ Distinct(call.approvers, DOMAIN call.approvers)
     /\ Len(call.approvers) >= s.neededApprovers}

\* The one thing that only the Ethereum contract refuses: votes for a new set
\* of keys that have left the set since (BridgeActions.sol:370).
Acceptable(k, a) ==
  (k = "ethereum" /\ a.kind = "newSet") => a.votes \subseteq Members(held)

\* Kolme's next action is accepted with the signatures of the processor and of
\* any quorum of approvers of the set it leaves behind, in any order, so that no
\* contract is left behind for good (admin, check_pending_proposals in execute.rs).
NextIsAccepted ==
  CarriesEmitted /\ taken < Len(emitted) =>
    LET a == emitted[taken + 1]
        s == sets[taken + 2]
    IN  Acceptable(kind, a) => \A call \in PassedOn(s) : Takes(kind, held, a, call)

\* The Cosmos contract and the Solana program give the same verdict on every
\* call, and what the Ethereum contract accepts that they do not, it accepts
\* only because it reads no further than a quorum.
SameVerdict ==
  CarriesEmitted /\ taken < Len(emitted) =>
    LET a == emitted[taken + 1]
    IN  \A call \in Calls :
          /\ CosmosTakes(held, a, call) <=> SolanaTakes(held, a, call)
          /\ EthereumTakes(held, a, call) =>
               LET n == EthereumQuorum(held, a)
               IN  CosmosTakes(held, a,
                     Call(call.processor, SubSeq(call.approvers, 1, n)))
=============================================================================
