------------------------------ MODULE TaskProofs ------------------------------
(***************************************************************************)
(* Proofs about the tasks of a Kolme program: that listeners adopt no      *)
(* address but one that a quorum of them has attested to, and how often a  *)
(* contract is created, for every set of chains and listeners (Genesis);   *)
(* and what a trigger that comes before the state costs a task that        *)
(* follows the chain, for every set of tasks and every length of the chain *)
(* (Wakeups).                                                              *)
(***************************************************************************)
EXTENDS Genesis, Wakeups, FiniteSetTheorems, SequenceTheorems, TLAPS

-----------------------------------------------------------------------------
\* Attestations.

Ballot == [contract : Nat, votes : SUBSET ListenerKeys]

\* An attestation that landed is one of a listener, and counts still or has led
\* to an adoption.
Counts(v) ==
  /\ v = <<v[1], v[2]>> /\ v[1] \in ListenerKeys
  /\ v[2] = Offer(v[2].chain, v[2].contract) /\ v[2].chain \in GenesisChain
  /\ bridge[v[2].chain] # Needed \/ v[1] \in event0[v[2].chain].votes

\* The votes of a pending event are attestations to its contract.
Supported(c) ==
  \A l \in event0[c].votes :
    /\ event0[c].contract # 0
    /\ <<l, Offer(c, event0[c].contract)>> \in vouched

Supporters(c, n) == {l \in ListenerKeys : <<l, Offer(c, n)>> \in vouched}

Quorate(c) ==
  bridge[c] # Needed => Cardinality(Supporters(c, bridge[c])) >= NeededListeners

OneEach == \A v, w \in vouched : v[1] = w[1] /\ v[2].chain = w[2].chain => v = w

Ballots ==
  /\ bridge \in [GenesisChain -> Nat] /\ event0 \in [GenesisChain -> Ballot]
  /\ \A v \in vouched : Counts(v)
  /\ \A c \in GenesisChain : Supported(c) /\ Quorate(c)
  /\ OneEach

LEMMA BallotsKept ==
  ASSUME Ballots, UNCHANGED <<bridge, event0, vouched>>
  PROVE  Ballots'
BY DEF Ballots, Counts, Supported, Quorate, Supporters, OneEach

LEMMA MoreSupporters ==
  ASSUME NEW s, s \subseteq ListenerKeys, NEW t \in SUBSET ListenerKeys, s \subseteq t
  PROVE  /\ Cardinality(s) \in Nat /\ Cardinality(t) \in Nat
         /\ Cardinality(s) <= Cardinality(t)
<1>1. IsFiniteSet(ListenerKeys)
  BY GenesisAssumption
<1>2. IsFiniteSet(t)
  BY <1>1, FS_Subset
<1>3. IsFiniteSet(s) /\ Cardinality(s) <= Cardinality(t)
  BY <1>2, FS_Subset
<1> QED
  BY <1>2, <1>3, FS_CardinalityType

\* One more attestation, to a contract of an external chain.
LEMMA VoteKeepsBallots ==
  ASSUME Ballots, NEW l \in ListenerKeys, NEW c \in GenesisChain,
         NEW n \in Nat \ {0}, VoteLands(l, Offer(c, n))
  PROVE  /\ Ballots'
         /\ \A d \in GenesisChain :
              bridge'[d] = bridge[d] \/ (d = c /\ bridge'[d] = n)
<1> DEFINE o == Offer(c, n)
           e == event0[c]
           votes == e.votes \cup {l}
<1>1. o.chain = c /\ o.contract = n /\ o = Offer(o.chain, o.contract)
  BY DEF Offer
<1>2. /\ bridge \in [GenesisChain -> Nat] /\ event0 \in [GenesisChain -> Ballot]
      /\ e \in Ballot /\ e.contract \in Nat /\ e.votes \in SUBSET ListenerKeys
  BY DEF Ballots, Ballot
<1>3. bridge[c] = 0 /\ e.contract \in {0, n} /\ l \notin e.votes
  BY <1>1 DEF VoteLands, VoteAcceptable, Needed
<1>4. vouched' = vouched \cup {<<l, o>>}
  BY DEF VoteLands
<1>5. (IF e.contract = 0 THEN o.contract ELSE e.contract) = n
  BY <1>1, <1>3
<1>6. NeededListeners \in Nat /\ votes \in SUBSET ListenerKeys
  BY <1>2, GenesisAssumption
<1>7. \A k \in votes : <<k, Offer(c, n)>> \in vouched'
  <2>1. \A k \in e.votes : e.contract # 0 /\ <<k, Offer(c, e.contract)>> \in vouched
    BY DEF Ballots, Supported
  <2> QED
    BY <1>3, <1>4, <2>1
<1>8. OneEach'
  <2>1. ASSUME NEW v \in vouched, v[1] = l, v[2].chain = c PROVE FALSE
    BY <1>3, <2>1 DEF Ballots, Counts, Needed
  <2>2. <<l, o>>[1] = l /\ <<l, o>>[2].chain = c
    BY <1>1
  <2> HIDE DEF o
  <2>3. ASSUME NEW v \in vouched', NEW w \in vouched',
               v[1] = w[1], v[2].chain = w[2].chain
        PROVE  v = w
    <3>1. CASE v \in vouched /\ w \in vouched
      BY <2>3, <3>1 DEF Ballots, OneEach
    <3>2. CASE v = <<l, o>> /\ w \in vouched
      BY <2>1, <2>2, <2>3, <3>2
    <3>3. CASE w = <<l, o>> /\ v \in vouched
      BY <2>1, <2>2, <2>3, <3>3
    <3> QED
      BY <1>4, <3>1, <3>2, <3>3
  <2> QED
    BY <2>3 DEF OneEach
\* Other chains have what they had.
<1>9. ASSUME NEW d \in GenesisChain, bridge'[d] = bridge[d], event0'[d] = event0[d]
      PROVE  Supported(d)' /\ Quorate(d)'
  <2>1. Supported(d)'
    BY <1>4, <1>9 DEF Ballots, Supported
  <2> DEFINE S == Supporters(d, bridge[d])
             T == {k \in ListenerKeys : <<k, Offer(d, bridge[d])>> \in vouched'}
  <2>2. S \subseteq T /\ S \subseteq ListenerKeys /\ T \in SUBSET ListenerKeys
    BY <1>4 DEF Supporters
  <2>3. bridge'[d] # Needed => Cardinality(T) >= NeededListeners
    <3>1. bridge[d] # Needed => Cardinality(S) >= NeededListeners
      BY DEF Ballots, Quorate
    <3> HIDE DEF S, T
    <3>2. /\ Cardinality(S) \in Nat /\ Cardinality(T) \in Nat
          /\ Cardinality(S) <= Cardinality(T)
      BY <2>2, MoreSupporters
    <3> QED
      BY <1>6, <1>9, <3>1, <3>2
  <2>4. Quorate(d)'
    BY <1>9, <2>3 DEF Quorate, Supporters
  <2> QED
    BY <2>1, <2>4
<1>10. CASE /\ Cardinality(votes) < NeededListeners /\ UNCHANGED bridge
            /\ event0' = [event0 EXCEPT ![c] = [contract |-> n, votes |-> votes]]
  <2>1. [contract |-> n, votes |-> votes] \in Ballot
    BY <1>6 DEF Ballot
  <2> HIDE DEF votes, e, o
  <2>2. event0' \in [GenesisChain -> Ballot] /\ bridge' \in [GenesisChain -> Nat]
    BY <1>2, <1>10, <2>1
  <2>3. /\ event0'[c].contract = n /\ event0'[c].votes = votes
        /\ \A d \in GenesisChain \ {c} : event0'[d] = event0[d]
    BY <1>2, <1>10
  <2>4. ASSUME NEW d \in GenesisChain PROVE Supported(d)' /\ Quorate(d)'
    <3>1. CASE d # c
      BY <1>9, <1>10, <2>3, <3>1
    <3>2. CASE d = c
      BY <1>3, <1>7, <1>10, <2>3, <3>2 DEF Supported, Quorate, Needed
    <3> QED
      BY <3>1, <3>2
  <2>5. ASSUME NEW v \in vouched' PROVE Counts(v)'
    <3>1. CASE v \in vouched
      <4>1. Counts(v)
        BY <3>1 DEF Ballots
      <4>2. CASE v[2].chain = c
        BY <1>3, <1>10, <2>3, <4>1, <4>2 DEF Counts, votes, e, Needed
      <4>3. CASE v[2].chain # c
        BY <1>10, <2>3, <4>1, <4>3 DEF Counts
      <4> QED
        BY <4>2, <4>3
    <3>2. CASE v = <<l, o>>
      <4>1. v[1] = l /\ v[2] = o /\ l \in votes
        BY <3>2 DEF votes
      <4> QED
        BY <1>1, <2>3, <3>2, <4>1 DEF Counts
    <3> QED
      BY <1>4, <3>1, <3>2
  <2> QED
    BY <1>8, <1>10, <2>2, <2>4, <2>5 DEF Ballots
<1>11. CASE /\ Cardinality(votes) >= NeededListeners
            /\ bridge' = [bridge EXCEPT ![c] = n]
            /\ event0' = [event0 EXCEPT ![c] = NoEvent]
  <2>1. NoEvent \in Ballot /\ NoEvent.votes = {}
    BY DEF NoEvent, Ballot
  <2> HIDE DEF e, o
  <2>2. event0' \in [GenesisChain -> Ballot] /\ bridge' \in [GenesisChain -> Nat]
    BY <1>2, <1>11, <2>1
  <2>3. /\ event0'[c] = NoEvent /\ bridge'[c] = n
        /\ \A d \in GenesisChain \ {c} :
              event0'[d] = event0[d] /\ bridge'[d] = bridge[d]
    BY <1>2, <1>11
  <2>4. Supported(c)' /\ Quorate(c)'
    <3>1. Supported(c)'
      BY <2>1, <2>3 DEF Supported
    <3> DEFINE T == {k \in ListenerKeys : <<k, Offer(c, n)>> \in vouched'}
    <3>2. votes \subseteq T /\ votes \subseteq ListenerKeys /\ T \in SUBSET ListenerKeys
      BY <1>6, <1>7
    <3>3. Cardinality(T) >= NeededListeners
      <4> HIDE DEF T, votes
      <4>1. /\ Cardinality(votes) \in Nat /\ Cardinality(T) \in Nat
            /\ Cardinality(votes) <= Cardinality(T)
        BY <3>2, MoreSupporters
      <4> QED
        BY <1>6, <1>11, <4>1
    <3> QED
      BY <2>3, <3>1, <3>3 DEF Quorate, Supporters
  <2>5. ASSUME NEW d \in GenesisChain PROVE Supported(d)' /\ Quorate(d)'
    BY <1>9, <2>3, <2>4
  <2>6. ASSUME NEW v \in vouched' PROVE Counts(v)'
    <3>1. CASE v \in vouched
      <4>1. Counts(v)
        BY <3>1 DEF Ballots
      <4>2. CASE v[2].chain = c
        BY <2>3, <4>1, <4>2 DEF Counts, Needed
      <4>3. CASE v[2].chain # c
        BY <2>3, <4>1, <4>3 DEF Counts
      <4> QED
        BY <4>2, <4>3
    <3>2. CASE v = <<l, o>>
      <4>1. v[1] = l /\ v[2] = o
        BY <3>2
      <4> QED
        BY <1>1, <2>3, <3>2, <4>1 DEF Counts, Needed
    <3> QED
      BY <1>4, <3>1, <3>2
  <2> QED
    BY <1>8, <2>2, <2>3, <2>5, <2>6 DEF Ballots
<1> QED
  BY <1>1, <1>5, <1>10, <1>11 DEF VoteLands

-----------------------------------------------------------------------------
\* What submitters and listeners know.

\* An offer, which may be of what is no contract.
Named(o) ==
  /\ o = Offer(o.chain, o.contract)
  /\ o.chain \in GenesisChain /\ o.contract \in Nat \ {0}

Work == [chain : GenesisChain, set : Nat, contract : Nat]

Created ==
  /\ born \in [GenesisChain -> Seq(Nat)]
  /\ changes \in Nat /\ before.changes \in Nat
  /\ making \in [ChainKind -> Work \cup {NoWork}]
  /\ created \in [GenesisChain -> Nat]

Sent ==
  /\ \A o \in offers : Named(o)
  /\ \A t \in stray : t[1] \in ListenerKeys /\ Named(t[2])
  /\ DOMAIN stage = Watcher /\ DOMAIN vote = Watcher
  /\ \A w \in Watcher : stage[w] = "attesting" => Named(vote[w])

GenesisInv == Ballots /\ Created /\ Sent

LEMMA CreatedKept ==
  ASSUME Created, UNCHANGED <<born, changes, before, making, created>>
  PROVE  Created'
BY DEF Created

LEMMA SentKept ==
  ASSUME Sent, UNCHANGED <<offers, stray, stage, vote>>
  PROVE  Sent'
BY DEF Sent, Named

LEMMA NoWorkIs == NoWork.contract = 0
BY DEF NoWork

\* Whatever block is added, the state before it is remembered.
LEMMA BlockKeepsCreated ==
  ASSUME Created, NewBlock, changes' \in Nat, UNCHANGED <<born, making, created>>
  PROVE  Created'
<1>1. before'.changes = changes
  BY DEF NewBlock, Current
<1> QED
  BY <1>1 DEF Created

\* What an attestation does.
LEMMA VoteKeepsCreated ==
  ASSUME Ballots, Created, NEW l \in ListenerKeys, NEW o, Named(o), VoteLands(l, o)
  PROVE  Ballots' /\ Created'
<1>1. PICK c \in GenesisChain, n \in Nat \ {0} : o = Offer(c, n)
  BY DEF Named
<1>2. Ballots'
  BY <1>1, VoteKeepsBallots
<1>3. UNCHANGED <<born, changes, making, created>> /\ NewBlock
  BY DEF VoteLands
<1>4. Created'
  BY <1>3, BlockKeepsCreated DEF Created
<1> QED
  BY <1>2, <1>4

\* A submitter that creates a contract.
LEMMA CreationKeeps ==
  ASSUME Created, Sent, NEW k \in ChainKind, ContractCreated(k)
  PROVE  Created' /\ Sent'
<1> DEFINE c == making[k].chain
           n == Len(born[c]) + 1
<1>1. making[k] \in Work /\ c \in GenesisChain /\ making[k].set \in Nat
  BY DEF Created, ContractCreated, Work
<1>2. born[c] \in Seq(Nat) /\ n \in Nat
  BY <1>1, LenProperties DEF Created
<1>3. Append(born[c], making[k].set) \in Seq(Nat)
  BY <1>1, <1>2, AppendProperties
<1>4. born' \in [GenesisChain -> Seq(Nat)]
  BY <1>3 DEF Created, ContractCreated
<1>5. making' = [making EXCEPT ![k].contract = n]
  BY DEF ContractCreated
<1> HIDE DEF c, n
<1>6. making' \in [ChainKind -> Work \cup {NoWork}]
  <2>1. [making[k] EXCEPT !.contract = n] \in Work
    BY <1>1, <1>2 DEF Work
  <2> QED
    BY <1>5, <2>1 DEF Created
<1>7. UNCHANGED <<changes, before, created, offers, stray, stage, vote>>
  BY DEF ContractCreated, genesisChainVars, mempoolVars, genesisListenerVars
<1>8. Created' /\ Sent'
  BY <1>4, <1>6, <1>7, SentKept DEF Created
<1> QED
  BY <1>8

\* What a submitter sees.
LEMMA SeenIs ==
  ASSUME Created, NEW seen \in States
  PROVE  seen.changes \in Nat
BY DEF Created, States, Current

\* A submitter that looks for a contract to create.
LEMMA LookKeeps ==
  ASSUME GenesisInv, NEW k \in ChainKind, SubmitterLooks(k)
  PROVE  GenesisInv'
<1>1. UNCHANGED <<bridge, event0, vouched, born, changes, before, created, offers,
                  stray, stage, vote>>
  BY DEF SubmitterLooks, genesisChainVars, mempoolVars, genesisListenerVars
<1>2. Ballots' /\ Sent'
  BY <1>1, BallotsKept, SentKept DEF GenesisInv
<1>3. making' = making \/ \E w \in Work : making' = [making EXCEPT ![k] = w]
  <2>1. PICK seen \in States :
          \/ making' = making
          \/ \E c \in GenesisChain : making' = [making EXCEPT ![k] =
               [chain |-> c, set |-> seen.changes, contract |-> 0]]
    BY DEF SubmitterLooks
  <2>2. \A c \in GenesisChain :
          [chain |-> c, set |-> seen.changes, contract |-> 0] \in Work
    BY SeenIs DEF GenesisInv, Work
  <2> QED
    BY <2>1, <2>2
<1>4. making' \in [ChainKind -> Work \cup {NoWork}]
  BY <1>3 DEF GenesisInv, Created
<1> QED
  BY <1>1, <1>2, <1>4 DEF GenesisInv, Created

\* A submitter that is done with a contract, or that stopped.
LEMMA DoneKeeps ==
  ASSUME GenesisInv, NEW k \in ChainKind, ContractRecorded(k) \/ Forgotten(k)
  PROVE  GenesisInv'
<1>1. UNCHANGED <<bridge, event0, vouched, born, changes, before, offers, stray, stage,
                  vote>>
  BY DEF ContractRecorded, Forgotten, genesisChainVars, mempoolVars, genesisListenerVars
<1>2. Ballots' /\ Sent'
  BY <1>1, BallotsKept, SentKept DEF GenesisInv
<1>3. making' \in [ChainKind -> Work \cup {NoWork}]
  BY DEF ContractRecorded, Forgotten, GenesisInv, Created
<1>4. created' \in [GenesisChain -> Nat]
  <2>1. CASE ContractRecorded(k)
    <3>1. making[k].contract \in Nat
      BY NoWorkIs DEF GenesisInv, Created, Work
    <3> QED
      BY <2>1, <3>1 DEF ContractRecorded, GenesisInv, Created
  <2>2. CASE Forgotten(k)
    BY <2>2 DEF Forgotten, GenesisInv, Created
  <2> QED
    BY <2>1, <2>2
<1> QED
  BY <1>1, <1>2, <1>3, <1>4 DEF GenesisInv, Created

\* What goes through the mempools.
LEMMA OffersKeep ==
  ASSUME GenesisInv,
         OfferFails \/ OthersOffer \/ \E k \in ChainKind : SubmitterProposes(k)
  PROVE  GenesisInv'
<1>1. UNCHANGED <<bridge, event0, vouched, born, changes, before, making, created,
                  stray, stage, vote>>
  BY DEF OfferFails, OthersOffer, SubmitterProposes, genesisChainVars,
         genesisSubmitterVars, genesisListenerVars
<1>2. Ballots' /\ Created'
  BY <1>1, BallotsKept, CreatedKept DEF GenesisInv
<1>3. \A c \in GenesisChain, n \in Nat \ {0} : Named(Offer(c, n))
  BY DEF Named, Offer
<1>4. \A o \in offers' : Named(o)
  <2>1. CASE OfferFails
    BY <2>1 DEF OfferFails, GenesisInv, Sent
  <2>2. CASE OthersOffer
    <3>1. PICK c \in GenesisChain, n \in 1..MaxCreated :
            offers' = offers \cup {Offer(c, n)}
      BY <2>2 DEF OthersOffer
    <3>2. n \in Nat \ {0}
      BY GenesisAssumption
    <3> QED
      BY <1>3, <3>1, <3>2 DEF GenesisInv, Sent
  <2>3. CASE \E k \in ChainKind : SubmitterProposes(k)
    <3>1. PICK c \in GenesisChain :
            created[c] # 0 /\ offers' = offers \cup {Offer(c, created[c])}
      BY <2>3 DEF SubmitterProposes
    <3>2. created[c] \in Nat \ {0}
      BY <3>1 DEF GenesisInv, Created
    <3> QED
      BY <1>3, <3>1, <3>2 DEF GenesisInv, Sent
  <2> QED
    BY <2>1, <2>2, <2>3
<1>5. Sent'
  BY <1>1, <1>4 DEF GenesisInv, Sent, Named
<1> QED
  BY <1>2, <1>5 DEF GenesisInv

LEMMA VisibleIsNamed ==
  ASSUME Sent, NEW o \in Visible
  PROVE  Named(o)
BY DEF Sent, Visible

\* A block that leads to no contract.
LEMMA OtherBlockKeeps ==
  ASSUME GenesisInv, SetChanges \/ OtherBlock
  PROVE  GenesisInv'
<1>1. /\ UNCHANGED <<bridge, event0, vouched, born, making, created, offers,
                     stray, stage, vote>>
      /\ changes' \in {changes, changes + 1} /\ NewBlock
  BY DEF SetChanges, OtherBlock, mempoolVars
<1>2. Ballots' /\ Sent'
  BY <1>1, BallotsKept, SentKept DEF GenesisInv
<1>3. Created'
  BY <1>1, BlockKeepsCreated DEF GenesisInv, Created
<1> QED
  BY <1>2, <1>3 DEF GenesisInv

\* An attestation that landed without its listener, or that did not land.
LEMMA StrayKeeps ==
  ASSUME GenesisInv, StrayDecided
  PROVE  GenesisInv'
<1>1. PICK t \in stray :
        /\ stray' = stray \ {t}
        /\ \/ VoteLands(t[1], t[2])
           \/ UNCHANGED <<genesisChainVars, born, genesisSubmitterVars, offers>>
  BY DEF StrayDecided
<1>2. t[1] \in ListenerKeys /\ Named(t[2])
  BY DEF GenesisInv, Sent
<1>3. Ballots' /\ Created'
  <2>1. CASE VoteLands(t[1], t[2])
    BY <1>2, <2>1, VoteKeepsCreated DEF GenesisInv
  <2>2. CASE UNCHANGED <<genesisChainVars, born, genesisSubmitterVars, offers>>
    BY <2>2, BallotsKept, CreatedKept DEF GenesisInv, genesisChainVars,
       genesisSubmitterVars
  <2> QED
    BY <1>1, <2>1, <2>2
<1>4. UNCHANGED <<offers, stage, vote>>
  BY <1>1 DEF StrayDecided, VoteLands
<1>5. Sent'
  BY <1>1, <1>4 DEF GenesisInv, Sent, Named
<1> QED
  BY <1>3, <1>5 DEF GenesisInv

\* What a component of a listener does.
LEMMA ListenerKeeps ==
  ASSUME GenesisInv, NEW w \in Watcher,
         ListenerNotices(w) \/ ListenerWorks(w) \/ ListenerDies(w)
  PROVE  GenesisInv'
<1> USE DEF GenesisInv
<1>0. w[1] \in ListenerKeys
  BY DEF Watcher
<1>1. DOMAIN stage' = Watcher /\ DOMAIN vote' = Watcher
  BY DEF Sent, ListenerNotices, ListenerWorks, ListenerDies, ListenerAttests,
         ListenerRefused, ListenerChecks, ListenerRestarts
<1>2. \A v \in Watcher \ {w} : stage'[v] = stage[v] /\ vote'[v] = vote[v]
  BY DEF Sent, ListenerNotices, ListenerWorks, ListenerDies, ListenerAttests,
         ListenerRefused, ListenerChecks, ListenerRestarts
<1>3. offers' = offers
  BY DEF mempoolVars, ListenerNotices, ListenerWorks, ListenerDies, ListenerAttests, VoteLands,
         ListenerRefused, ListenerChecks, ListenerRestarts
<1>4. Ballots' /\ Created'
  <2>1. CASE ListenerAttests(w)
    <3>1. Named(vote[w]) /\ VoteLands(w[1], vote[w])
      BY <2>1 DEF ListenerAttests, Sent
    <3> QED
      BY <1>0, <3>1, VoteKeepsCreated
  <2>2. CASE ~ListenerAttests(w)
    <3>1. UNCHANGED <<bridge, event0, changes, before, vouched, born, created, making>>
      BY <2>2 DEF ListenerNotices, ListenerWorks, ListenerDies, ListenerRefused,
                  ListenerChecks, ListenerRestarts, genesisChainVars,
                  genesisSubmitterVars
    <3> QED
      BY <3>1, BallotsKept, CreatedKept
  <2> QED
    BY <2>1, <2>2
<1>5. stage'[w] = "attesting" => Named(vote'[w])
  <2>1. CASE ListenerNotices(w)
    <3>1. PICK o \in Visible : vote' = [vote EXCEPT ![w] = o]
      BY <2>1 DEF ListenerNotices
    <3>2. Named(o)
      BY VisibleIsNamed
    <3>3. vote'[w] = o
      BY <3>1 DEF Sent
    <3> QED
      BY <3>2, <3>3
  <2>2. CASE ~ListenerNotices(w)
    <3>1. stage'[w] # "attesting"
      BY <2>2 DEF Sent, ListenerWorks, ListenerDies, ListenerAttests,
                  ListenerRefused, ListenerChecks, ListenerRestarts
    <3> QED
      BY <3>1
  <2> QED
    BY <2>1, <2>2
<1>6. \A t \in stray' : t[1] \in ListenerKeys /\ Named(t[2])
  <2>1. CASE ListenerDies(w) /\ stage[w] = "attesting"
    <3>1. Named(vote[w]) /\ stray' = stray \cup {<<w[1], vote[w]>>}
      BY <2>1 DEF ListenerDies, Sent
    <3> QED
      BY <1>0, <3>1 DEF Sent
  <2>2. CASE ~(ListenerDies(w) /\ stage[w] = "attesting")
    <3>1. stray' = stray
      BY <2>2 DEF mempoolVars, ListenerNotices, ListenerWorks, ListenerDies, ListenerAttests,
                  ListenerRefused, ListenerChecks, ListenerRestarts
    <3> QED
      BY <3>1 DEF Sent
  <2> QED
    BY <2>1, <2>2
<1>7. Sent'
  BY <1>1, <1>2, <1>3, <1>5, <1>6 DEF Sent, Named
<1> QED
  BY <1>4, <1>7

-----------------------------------------------------------------------------
LEMMA GenesisInitInv == GenesisInit => GenesisInv
<1> SUFFICES ASSUME GenesisInit PROVE GenesisInv
  OBVIOUS
<1>1. NoEvent \in Ballot /\ NoEvent.votes = {}
  BY DEF NoEvent, Ballot
<1>2. Ballots
  BY <1>1 DEF GenesisInit, Ballots, Needed, Supported, Quorate, OneEach
<1>3. << >> \in Seq(Nat)
  OBVIOUS
<1>4. Created
  BY <1>3 DEF GenesisInit, Created, Current
<1>5. Sent
  BY DEF GenesisInit, Sent
<1> QED
  BY <1>2, <1>4, <1>5 DEF GenesisInv

LEMMA GenesisStep == GenesisInv /\ [GenesisNext]_genesisVars => GenesisInv'
<1> SUFFICES ASSUME GenesisInv, [GenesisNext]_genesisVars PROVE GenesisInv'
  OBVIOUS
<1>1. ASSUME NEW k \in ChainKind, SubmitterWorks(k) \/ SubmitterProposes(k) \/ SubmitterStops(k)
      PROVE  GenesisInv'
  <2>1. CASE SubmitterLooks(k)
    BY <2>1, LookKeeps
  <2>2. CASE ContractCreated(k)
    <3>1. UNCHANGED <<bridge, event0, vouched>>
      BY <2>2 DEF ContractCreated, genesisChainVars
    <3> QED
      BY <2>2, <3>1, CreationKeeps, BallotsKept DEF GenesisInv
  <2>3. CASE ContractRecorded(k) \/ CreationFails(k) \/ SubmitterStops(k)
    BY <2>3, DoneKeeps DEF CreationFails, SubmitterStops
  <2>4. CASE SubmitterProposes(k)
    BY <2>4, OffersKeep
  <2> QED
    BY <1>1, <2>1, <2>2, <2>3, <2>4 DEF SubmitterWorks
<1>2. ASSUME NEW w \in Watcher, ListenerNotices(w) \/ ListenerWorks(w) \/ ListenerDies(w)
      PROVE  GenesisInv'
  BY <1>2, ListenerKeeps
<1>3. CASE OthersOffer \/ OfferFails \/ StrayDecided \/ SetChanges \/ OtherBlock
  BY <1>3, OffersKeep, StrayKeeps, OtherBlockKeeps
<1>4. CASE UNCHANGED genesisVars
  BY <1>4, BallotsKept, CreatedKept, SentKept
     DEF GenesisInv, genesisVars, genesisChainVars, genesisSubmitterVars, mempoolVars,
         genesisListenerVars
<1> QED
  BY <1>1, <1>2, <1>3, <1>4 DEF GenesisNext

LEMMA InvIsAdopted == GenesisInv => AdoptedByQuorum
BY DEF GenesisInv, Ballots, Quorate, OneEach, AdoptedByQuorum, Supporters

\* Whatever submitters and listeners are stopped and started again, whatever others
\* offer and however old the states are that listeners look at, an address that
\* Kolme adopts was attested to by a quorum of listeners, none of whom attested to
\* another one (execute.rs listener).
THEOREM AdoptionHasQuorum == GenesisSpec => []AdoptedByQuorum
<1>1. GenesisSpec => []GenesisInv
  BY GenesisInitInv, GenesisStep, PTL DEF GenesisSpec
<1> QED
  BY <1>1, InvIsAdopted, PTL

-----------------------------------------------------------------------------
\* How often a contract is created.

\* Whoever is about to create a contract has none on that chain.
AtWork(k) ==
  making[k] # NoWork =>
    /\ making[k].chain \in GenesisChain /\ KindOf[making[k].chain] = k
    /\ making[k].contract = 0 => created[making[k].chain] = 0

\* A contract that its submitter knows, if only until it is recorded.
Known(c) ==
  \/ created[c] # 0
  \/ making[KindOf[c]].chain = c /\ making[KindOf[c]].contract # 0

Counted(c) ==
  /\ Len(born[c]) <= 1 + restarts
  /\ KindOf[c] = "solana" => Len(born[c]) <= 1
  /\ KindOf[c] # "solana" /\ ~Known(c) => Len(born[c]) <= restarts

OnceInv ==
  /\ Created /\ restarts \in Nat
  /\ \A k \in ChainKind : AtWork(k)
  /\ \A c \in GenesisChain : Counted(c)

\* Every chain has a kind.
LEMMA KindsAre == \A c \in GenesisChain : KindOf[c] \in ChainKind
BY DEF ChainKind

LEMMA OnceKept ==
  ASSUME OnceInv, UNCHANGED <<born, making, created, restarts>>, Created'
  PROVE  OnceInv'
BY DEF OnceInv, AtWork, Counted, Known

LEMMA OnceStep ==
  GenesisInv /\ OnceInv /\ [GenesisNext]_genesisVars => OnceInv'
<1> SUFFICES ASSUME GenesisInv, OnceInv, [GenesisNext]_genesisVars PROVE OnceInv'
  OBVIOUS
<1>1. Created'
  BY GenesisStep DEF GenesisInv
<1>2. \A c \in GenesisChain : Len(born[c]) \in Nat
  BY LenProperties DEF GenesisInv, Created
<1>3. /\ DOMAIN created = GenesisChain /\ restarts \in Nat
      /\ making \in [ChainKind -> Work \cup {NoWork}]
  BY DEF OnceInv, Created
<1>4. ASSUME NEW k \in ChainKind, SubmitterLooks(k) PROVE OnceInv'
  <2>1. UNCHANGED <<born, created, restarts>>
    BY <1>4 DEF SubmitterLooks
  <2>2. CASE UNCHANGED making
    BY <1>1, <2>1, <2>2, OnceKept
  <2>3. CASE \E seen \in States, c \in GenesisChain :
               /\ ShouldCreate(seen, k, c)
               /\ making' = [making EXCEPT ![k] =
                               [chain |-> c, set |-> seen.changes, contract |-> 0]]
    <3>1. PICK seen \in States, c \in GenesisChain :
               /\ KindOf[c] = k /\ created[c] = 0
               /\ making' = [making EXCEPT ![k] =
                               [chain |-> c, set |-> seen.changes, contract |-> 0]]
      BY <2>3 DEF ShouldCreate
    <3>2. /\ making'[k].chain = c /\ making'[k].contract = 0
          /\ \A j \in ChainKind \ {k} : making'[j] = making[j]
      BY <1>3, <3>1
    <3>3. \A j \in ChainKind : AtWork(j)'
      BY <2>1, <3>1, <3>2 DEF OnceInv, AtWork
    <3>4. making[k].contract = 0
      BY <1>4, NoWorkIs DEF SubmitterLooks
    <3>5. \A d \in GenesisChain : Counted(d)'
      BY <2>1, <3>2, <3>4, KindsAre DEF OnceInv, Counted, Known
    <3> QED
      BY <1>1, <1>3, <2>1, <3>3, <3>5 DEF OnceInv
  <2> QED
    BY <1>4, <2>2, <2>3 DEF SubmitterLooks
<1>5. ASSUME NEW k \in ChainKind, ContractCreated(k) PROVE OnceInv'
  <2>1. PICK c \in GenesisChain :
        /\ c = making[k].chain /\ KindOf[c] = k /\ created[c] = 0
        /\ making[k].contract = 0 /\ making[k] \in Work /\ making[k].set \in Nat
    BY <1>3, <1>5 DEF OnceInv, AtWork, ContractCreated, Work
  <2>2. UNCHANGED <<created, restarts>>
    BY <1>5 DEF ContractCreated
  <2>3. /\ born' = [born EXCEPT ![c] = Append(@, making[k].set)]
        /\ making' = [making EXCEPT ![k].contract = Len(born[c]) + 1]
        /\ Creatable(c)
    BY <1>5, <2>1 DEF ContractCreated
  <2>4. /\ making'[k].chain = making[k].chain
        /\ making'[k].contract = Len(born[c]) + 1
        /\ \A j \in ChainKind \ {k} : making'[j] = making[j]
    BY <1>3, <2>1, <2>3 DEF Work
  <2>5. \A j \in ChainKind : AtWork(j)'
    <3>1. AtWork(k)'
      BY <1>2, <2>1, <2>2, <2>4 DEF AtWork
    <3> QED
      BY <2>2, <2>4, <3>1 DEF OnceInv, AtWork
  <2>6. /\ Len(born'[c]) = Len(born[c]) + 1
        /\ \A d \in GenesisChain \ {c} : born'[d] = born[d]
    <3>1. born[c] \in Seq(Nat) /\ born \in [GenesisChain -> Seq(Nat)]
      BY <2>1 DEF OnceInv, Created
    <3>2. born'[c] = Append(born[c], making[k].set)
      BY <2>1, <2>3, <3>1
    <3> QED
      BY <2>1, <2>3, <3>1, <3>2, AppendProperties
  <2>7. Counted(c)'
    <3>1. KindOf[c] = "solana" => Len(born[c]) = 0
      BY <2>3 DEF Creatable
    <3>2. KindOf[c] # "solana" => Len(born[c]) <= restarts
      BY <2>1 DEF OnceInv, Counted, Known
    <3>3. Known(c)'
      BY <1>2, <2>1, <2>4 DEF Known
    <3>4. Len(born[c]) \in Nat
      BY <1>2, <2>1
    <3> QED
      BY <1>3, <2>2, <2>6, <3>1, <3>2, <3>3, <3>4 DEF Counted
  <2>8. ASSUME NEW d \in GenesisChain, d # c PROVE Counted(d)'
    <3>1. born'[d] = born[d] /\ Counted(d)
      BY <2>6, <2>8 DEF OnceInv
    <3>2. Known(d)' <=> Known(d)
      BY <2>1, <2>2, <2>4, <2>8, KindsAre DEF Known
    <3> QED
      BY <2>2, <3>1, <3>2 DEF Counted
  <2> QED
    BY <1>1, <1>3, <2>2, <2>5, <2>7, <2>8 DEF OnceInv
<1>6. ASSUME NEW k \in ChainKind, ContractRecorded(k) PROVE OnceInv'
  <2> DEFINE c == making[k].chain
  <2>1. making[k] # NoWork /\ making[k].contract # 0
    BY <1>6, NoWorkIs DEF ContractRecorded
  <2>2. c \in GenesisChain /\ KindOf[c] = k
    BY <2>1 DEF OnceInv, AtWork
  <2>3. /\ created' = [created EXCEPT ![c] = making[k].contract]
        /\ making' = [making EXCEPT ![k] = NoWork]
        /\ UNCHANGED <<born, restarts>>
    BY <1>6 DEF ContractRecorded
  <2> HIDE DEF c
  <2>4. /\ making'[k] = NoWork /\ \A j \in ChainKind \ {k} : making'[j] = making[j]
        /\ created'[c] # 0 /\ \A d \in GenesisChain \ {c} : created'[d] = created[d]
    BY <1>3, <2>1, <2>2, <2>3
  <2>5. \A j \in ChainKind : AtWork(j)'
    BY <2>2, <2>4 DEF OnceInv, AtWork
  <2>6. \A d \in GenesisChain : Known(d) => Known(d)'
    BY <2>2, <2>4, KindsAre DEF Known, c
  <2>7. \A d \in GenesisChain : Counted(d)'
    BY <2>3, <2>6 DEF OnceInv, Counted
  <2> QED
    BY <1>1, <1>3, <2>3, <2>5, <2>7 DEF OnceInv
<1>7. ASSUME NEW k \in ChainKind, Forgotten(k),
             \/ restarts' = restarts + 1
             \/ restarts' = restarts /\ k = "solana"
      PROVE  OnceInv'
  <2>1. /\ created' = [d \in GenesisChain |-> IF KindOf[d] = k THEN 0 ELSE created[d]]
        /\ making' = [making EXCEPT ![k] = NoWork] /\ UNCHANGED born
    BY <1>7 DEF Forgotten
  <2>2. making'[k] = NoWork /\ \A j \in ChainKind \ {k} : making'[j] = making[j]
    BY <1>3, <2>1
  <2>3. \A j \in ChainKind : AtWork(j)'
    BY <2>1, <2>2 DEF OnceInv, AtWork
  <2>4. ASSUME NEW d \in GenesisChain PROVE Counted(d)'
    <3>1. Counted(d) /\ Len(born[d]) \in Nat
      BY <1>2 DEF OnceInv
    <3>2. KindOf[d] # k => (Known(d)' <=> Known(d))
      BY <2>1, <2>2, KindsAre DEF Known
    <3> QED
      BY <1>3, <1>7, <2>1, <3>1, <3>2 DEF Counted
  <2> QED
    BY <1>1, <1>3, <1>7, <2>3, <2>4 DEF OnceInv
<1>8. ASSUME NEW k \in ChainKind, CreationFails(k) \/ SubmitterStops(k) PROVE OnceInv'
  <2>1. CASE CreationFails(k)
    <3>1. KindOf[making[k].chain] = "solana" /\ KindOf[making[k].chain] = k
      BY <2>1 DEF CreationFails, Creatable, OnceInv, AtWork
    <3> QED
      BY <1>7, <2>1, <3>1 DEF CreationFails
  <2>2. CASE SubmitterStops(k)
    BY <1>7, <2>2 DEF SubmitterStops
  <2> QED
    BY <1>8, <2>1, <2>2
<1>9. CASE UNCHANGED <<born, making, created, restarts>>
  BY <1>1, <1>9, OnceKept
<1>10. ASSUME NEW w \in Watcher, ListenerNotices(w) \/ ListenerWorks(w) \/ ListenerDies(w)
       PROVE  UNCHANGED <<born, making, created, restarts>>
  BY <1>10 DEF ListenerNotices, ListenerWorks, ListenerDies, ListenerAttests, VoteLands,
               ListenerRefused, ListenerChecks, ListenerRestarts, genesisSubmitterVars
<1>11. ASSUME OthersOffer \/ OfferFails \/ StrayDecided \/ SetChanges \/ OtherBlock
       PROVE  UNCHANGED <<born, making, created, restarts>>
  BY <1>11 DEF OthersOffer, OfferFails, StrayDecided, SetChanges, OtherBlock, VoteLands,
               genesisSubmitterVars
<1>12. ASSUME NEW k \in ChainKind, SubmitterProposes(k)
       PROVE  UNCHANGED <<born, making, created, restarts>>
  BY <1>12 DEF SubmitterProposes, genesisSubmitterVars
<1>13. CASE UNCHANGED genesisVars
  BY <1>9, <1>13 DEF genesisVars, genesisSubmitterVars
<1> QED
  BY <1>4, <1>5, <1>6, <1>8, <1>9, <1>10, <1>11, <1>12, <1>13 DEF GenesisNext, SubmitterWorks

\* Although a submitter forgets what it has created when it is stopped, and sees
\* the chain without a contract in every block until a quorum has attested, there
\* is one contract more than there were stops at most (submitter/mod.rs
\* handle_genesis, genesis_created).
THEOREM NothingIsCreatedTwice == GenesisSpec => []CreatedOnce
<1>1. GenesisInit => OnceInv
  <2> SUFFICES ASSUME GenesisInit PROVE OnceInv
    OBVIOUS
  <2>1. Created
    BY GenesisInitInv DEF GenesisInv
  <2>2. \A c \in GenesisChain : Len(born[c]) = 0
    BY DEF GenesisInit
  <2>3. \A k \in ChainKind : AtWork(k)
    BY DEF GenesisInit, AtWork
  <2>4. \A c \in GenesisChain : Counted(c)
    BY <2>2 DEF GenesisInit, Counted
  <2> QED
    BY <2>1, <2>3, <2>4 DEF OnceInv, GenesisInit
<1>2. GenesisSpec => [](GenesisInv /\ OnceInv)
  BY <1>1, GenesisInitInv, GenesisStep, OnceStep, PTL DEF GenesisSpec
<1>3. OnceInv => CreatedOnce
  BY DEF OnceInv, Counted, CreatedOnce
<1> QED
  BY <1>2, <1>3, PTL
-----------------------------------------------------------------------------
\* Tasks that follow the chain.

Stages == {"no", "stored", "told", "pooled"}

\* Where every block is executed and nobody else writes to the database, the store is
\* ahead of the state while a block is being added, and by that block alone.
OwnStore ==
  /\ state \in Nat /\ height \in Nat /\ adding \in Stages
  /\ adding = "no" => stored = 1..state
  /\ adding # "no" => stored = 1..height /\ (state = height \/ state + 1 = height)

Last == IF adding = "no" THEN state ELSE height

WaiterTypes ==
  /\ DOMAIN task = Waiter
  /\ signal \in [Waiter -> BOOLEAN]
  /\ acted \in [Follower -> Nat]

\* Who sleeps without a signal has looked since the last trigger, and before the
\* trigger of a block that is stored but not told of.
Behind(f) ==
  task[f] = "sleeps" /\ ~signal[f] =>
    acted[f] + (IF adding = "stored" THEN 2 ELSE 1) >= Last

FollowInv ==
  ~process.shared /\ process.executes =>
    OwnStore /\ WaiterTypes /\ \A f \in Follower : Behind(f)

LEMMA NewestIs ==
  ASSUME OwnStore
  PROVE  Newest = Last /\ Last \in Nat
<1>1. Last \in Nat /\ stored = 1..Last
  BY DEF OwnStore, Last
<1> HIDE DEF Last
<1>2. /\ Last \in stored \cup {0}
      /\ \A n \in stored \cup {0} : n \in Nat /\ Last >= n
  BY <1>1
<1>3. Newest \in stored \cup {0} /\ \A n \in stored \cup {0} : Newest >= n
  BY <1>2 DEF Newest, Max
<1> QED
  BY <1>1, <1>2, <1>3

LEMMA FollowersWait ==
  /\ Follower \subseteq Waiter /\ Proposer \subseteq Waiter
  /\ VersionWaiter \in Waiter
  /\ \A t \in Awaited : Tx(t) \in Waiter
  /\ \A h \in Height : At(h) \in Waiter
BY DEF Waiter

\* Some task that follows nothing goes on.
LEMMA OtherGoesOn ==
  ASSUME WaiterTypes, NEW w \in Waiter, w \notin Follower, NEW s, Becomes(w, s),
         UNCHANGED <<signal, acted, adding>>, Last' = Last,
         \A f \in Follower : Behind(f)
  PROVE  WaiterTypes' /\ \A f \in Follower : Behind(f)'
<1>1. WaiterTypes'
  BY DEF WaiterTypes, Becomes
<1>2. ASSUME NEW f \in Follower PROVE Behind(f)'
  <2>1. task'[f] = task[f]
    BY FollowersWait DEF WaiterTypes, Becomes
  <2> QED
    BY <2>1 DEF Behind
<1> QED
  BY <1>1, <1>2

LEMMA FollowStep ==
  ASSUME FollowInv, [Next]_vars
  PROVE  FollowInv'
<1>1. process' = process
  BY DEF Next, Lands, Fails, Adds, Stores, StoresWithState, Triggers, Pools, Loads,
     LoadsNewest, OthersStore, Resyncs, Looks, Subscribes, Proposes, Follows, LooksForTx, LooksForHeight,
     LooksForVersion, Wakes, HearsOfBlock, HearsOfFailure, TellsOfFailure,
     TimesOut, vars, chainVars
<1> SUFFICES ASSUME ~process.shared, process.executes
             PROVE  OwnStore' /\ WaiterTypes' /\ \A f \in Follower : Behind(f)'
  BY <1>1 DEF FollowInv
<1>2. OwnStore /\ WaiterTypes /\ \A f \in Follower : Behind(f)
  BY DEF FollowInv
<1>3. ASSUME UNCHANGED storeVars PROVE OwnStore'
  BY <1>2, <1>3 DEF OwnStore, storeVars
<1>4. ASSUME UNCHANGED taskVars
      PROVE  WaiterTypes'
  BY <1>2, <1>4 DEF WaiterTypes, taskVars
<1>5. ASSUME UNCHANGED <<taskVars, adding>>, Last' = Last
      PROVE  WaiterTypes' /\ \A f \in Follower : Behind(f)'
  BY <1>2, <1>5 DEF WaiterTypes, Behind, taskVars
<1>6. ASSUME UNCHANGED <<storeVars, taskVars>>
      PROVE  OwnStore' /\ WaiterTypes' /\ \A f \in Follower : Behind(f)'
  BY <1>3, <1>5, <1>6 DEF storeVars, Last
<1>7. CASE \/ \E b \in Proposer \cup {Upgrade, Filler} : Lands(b)
           \/ \E t \in Proposer : Fails(t) \/ HearsOfBlock(t) \/ HearsOfFailure(t)
           \/ UNCHANGED vars
  BY <1>6, <1>7 DEF Lands, Fails, HearsOfBlock, HearsOfFailure, vars
<1>8. CASE Stores
  <2>1. /\ adding = "no" /\ adding' = "stored" /\ height' = state + 1
        /\ stored' = stored \cup {state + 1} /\ state' = state /\ UNCHANGED taskVars
    BY <1>8 DEF Stores
  <2>2. stored' = 1..height'
    BY <1>2, <2>1 DEF OwnStore
  <2>3. OwnStore'
    BY <1>2, <2>1, <2>2 DEF OwnStore, Stages
  <2>4. ASSUME NEW f \in Follower PROVE Behind(f)'
    <3>1. acted[f] \in Nat /\ state \in Nat
      BY <1>2 DEF WaiterTypes, OwnStore
    <3>2. Last' = Last + 1 /\ Last = state
      BY <2>1 DEF Last
    <3> QED
      BY <1>2, <2>1, <3>1, <3>2 DEF Behind, taskVars
  <2> QED
    BY <1>4, <2>1, <2>3, <2>4
<1>9. CASE Triggers
  <2>1. OwnStore'
    BY <1>2, <1>9 DEF Triggers, OwnStore, Stages
  <2>2. WaiterTypes'
    BY <1>2, <1>9 DEF Triggers, WaiterTypes
  <2>3. ASSUME NEW f \in Follower PROVE Behind(f)'
    <3>1. signal'[f] = TRUE
      BY <1>9, FollowersWait DEF Triggers
    <3> QED
      BY <3>1 DEF Behind
  <2> QED
    BY <2>1, <2>2, <2>3
<1>10. CASE Pools \/ Loads
  <2>1. /\ adding \in {"told", "pooled"} /\ adding' \in {"pooled", "no"}
        /\ adding' = "no" => state' = height
        /\ UNCHANGED <<stored, height, taskVars>>
    BY <1>2, <1>10 DEF Pools, Loads, OwnStore, Larger
  <2>2. OwnStore'
    BY <1>2, <1>10, <2>1 DEF Pools, Loads, OwnStore, Stages
  <2>3. ASSUME NEW f \in Follower PROVE Behind(f)'
    <3>1. Last' = Last
      BY <2>1 DEF Last
    <3> QED
      BY <1>2, <2>1, <3>1 DEF Behind, taskVars
  <2> QED
    BY <1>4, <2>1, <2>2, <2>3
<1>11. CASE \/ OthersStore \/ Resyncs \/ LoadsNewest
            \/ \E h \in 1..Len(chain) : StoresWithState(h)
  BY <1>11 DEF OthersStore, Resyncs, LoadsNewest, StoresWithState
<1>12. ASSUME NEW t \in Proposer, TellsOfFailure(t)
       PROVE  OwnStore' /\ WaiterTypes' /\ \A f \in Follower : Behind(f)'
  <2>1. WaiterTypes'
    BY <1>2, <1>12 DEF TellsOfFailure, WaiterTypes
  <2>2. ASSUME NEW f \in Follower PROVE Behind(f)'
    <3>1. signal'[f] = signal[f]
      BY <1>2, <1>12, FollowersWait, WakeupsAssumption DEF TellsOfFailure, WaiterTypes
    <3> QED
      BY <1>2, <1>12, <3>1 DEF TellsOfFailure, storeVars, Behind, Last
  <2> QED
    BY <1>3, <1>12, <2>1, <2>2 DEF TellsOfFailure
<1>13. ASSUME NEW w \in Waiter, Subscribes(w) \/ Wakes(w)
       PROVE  OwnStore' /\ WaiterTypes' /\ \A f \in Follower : Behind(f)'
  <2>1. /\ Becomes(w, "looks") /\ signal' = [signal EXCEPT ![w] = FALSE]
        /\ UNCHANGED <<acted, storeVars>>
    BY <1>13 DEF Subscribes, Wakes
  <2>2. WaiterTypes'
    BY <1>2, <2>1 DEF WaiterTypes, Becomes
  <2>3. ASSUME NEW f \in Follower PROVE Behind(f)'
    <3>1. CASE f = w
      <4>1. task'[f] = "looks"
        BY <1>2, <2>1, <3>1 DEF WaiterTypes, Becomes
      <4> QED
        BY <4>1 DEF Behind
    <3>2. CASE f # w
      <4>1. task'[f] = task[f] /\ signal'[f] = signal[f]
        BY <1>2, <2>1, <3>2, FollowersWait DEF WaiterTypes, Becomes
      <4> QED
        BY <1>2, <2>1, <4>1 DEF Behind, storeVars, Last
    <3> QED
      BY <3>1, <3>2
  <2> QED
    BY <1>3, <2>1, <2>2, <2>3
<1>14. ASSUME NEW g \in Follower, Follows(g)
       PROVE  OwnStore' /\ WaiterTypes' /\ \A f \in Follower : Behind(f)'
  <2>1. /\ Becomes(g, "sleeps") /\ acted' = [acted EXCEPT ![g] = state]
        /\ UNCHANGED <<signal, storeVars>>
    BY <1>14 DEF Follows
  <2>2. WaiterTypes'
    BY <1>2, <2>1 DEF WaiterTypes, Becomes, OwnStore
  <2>3. ASSUME NEW f \in Follower PROVE Behind(f)'
    <3>1. CASE f = g
      <4>1. acted'[f] = state /\ state + 1 >= Last /\ state + 2 >= Last
        BY <1>2, <2>1, <3>1 DEF WaiterTypes, OwnStore, Stages, Last
      <4> QED
        BY <2>1, <4>1 DEF Behind, storeVars, Last
    <3>2. CASE f # g
      <4>1. task'[f] = task[f] /\ acted'[f] = acted[f]
        BY <1>2, <2>1, <3>2, FollowersWait DEF WaiterTypes, Becomes
      <4> QED
        BY <1>2, <2>1, <4>1 DEF Behind, storeVars, Last
    <3> QED
      BY <3>1, <3>2
  <2> QED
    BY <1>3, <2>1, <2>2, <2>3
<1>15. CASE \/ \E t \in Proposer : Proposes(t)
            \/ \E t \in Awaited : LooksForTx(t)
            \/ \E h \in Height : LooksForHeight(h) \/ TimesOut(h)
            \/ LooksForVersion
  <2>1. PICK w \in Waiter : w \notin Follower /\ \E s : Becomes(w, s)
    BY <1>15, FollowersWait, WakeupsAssumption
       DEF Proposes, LooksForTx, LooksForHeight, TimesOut, LooksForVersion
  <2>2. UNCHANGED <<signal, acted, adding, stored, height>>
    BY <1>15 DEF Proposes, LooksForTx, LooksForHeight, TimesOut, LooksForVersion,
       storeVars
  <2>3. state' = state \/ state' = Larger(state, Newest)
    BY <1>15 DEF Proposes, LooksForTx, LooksForHeight, TimesOut, LooksForVersion,
       storeVars
  <2>4. state' \in Nat /\ (state' = state \/ (adding # "no" /\ state' = height))
    <3>1. Newest = Last /\ state \in Nat /\ height \in Nat
      BY <1>2, NewestIs DEF OwnStore
    <3> HIDE DEF Newest
    <3>2. CASE adding = "no"
      BY <2>3, <3>1, <3>2 DEF Larger, Last
    <3>3. CASE adding # "no"
      BY <2>3, <3>1, <3>3 DEF Larger, Last
    <3> QED
      BY <3>2, <3>3
  <2>5. OwnStore'
    BY <1>2, <2>2, <2>4 DEF OwnStore
  <2>6. Last' = Last
    BY <2>2, <2>4 DEF Last
  <2>7. WaiterTypes' /\ \A f \in Follower : Behind(f)'
    BY <1>2, <2>1, <2>2, <2>6, OtherGoesOn
  <2> QED
    BY <2>5, <2>7
<1> QED
  BY <1>7, <1>8, <1>9, <1>10, <1>11, <1>12, <1>13, <1>14, <1>15
     DEF Next, Adds, Looks

\* Where a process executes every block and nobody else writes to its database, a
\* trigger that comes before the block is the state costs whoever follows the chain
\* one block at most, for any number of tasks and blocks (kolme.rs
\* add_executed_block).
THEOREM MissOneAtMost == Spec => []FollowersMissOneAtMost
<1>1. Init => FollowInv
  <2> SUFFICES ASSUME Init PROVE FollowInv
    OBVIOUS
  <2>1. OwnStore
    <3>1. stored = 1..state
      BY DEF Init
    <3> QED
      BY <3>1 DEF Init, OwnStore, Stages
  <2>2. WaiterTypes
    BY DEF Init, WaiterTypes
  <2>3. ASSUME NEW f \in Follower PROVE Behind(f)
    <3>1. task[f] # "sleeps"
      BY FollowersWait DEF Init
    <3> QED
      BY <3>1 DEF Behind
  <2> QED
    BY <2>1, <2>2, <2>3 DEF FollowInv
<1>2. FollowInv /\ [Next]_vars => FollowInv'
  BY FollowStep
<1>3. FollowInv => FollowersMissOneAtMost
  <2> SUFFICES ASSUME FollowInv, ~process.shared, process.executes,
                      NEW f \in Follower, task[f] = "sleeps", ~signal[f], adding = "no"
               PROVE  acted[f] + 1 >= state
    BY DEF FollowersMissOneAtMost
  <2>1. OwnStore /\ Behind(f)
    BY DEF FollowInv
  <2> QED
    BY <2>1 DEF OwnStore, Behind, Last
<1> QED
  BY <1>1, <1>2, <1>3, PTL DEF Spec
=============================================================================
