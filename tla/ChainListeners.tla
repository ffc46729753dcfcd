---------------------------- MODULE ChainListeners ----------------------------
(***************************************************************************)
(* The listeners for Ethereum and Solana contracts.  A contract numbers    *)
(* its events; a listener has to attest to each of them on the Kolme       *)
(* chain, in order and without a gap, and learns of them in two ways that  *)
(* it has to fit together: a subscription that pushes what is new, and     *)
(* queries for what it has missed.  Other listeners attest to the same     *)
(* events, so that Kolme may process one before this listener's            *)
(* attestation arrives, which it then refuses.                             *)
(*                                                                         *)
(* The contract's creation, event 0, is over: events count from 1.  A      *)
(* chain that drops blocks it has shown is left out, and so are the        *)
(* amounts and keys, which a listener passes on as they are.               *)
(***************************************************************************)
EXTENDS Integers, Sequences, FiniteSets, SequencesExt, FiniteSetsExt

CONSTANTS
  Platforms,  \* the kinds of chain to look at: "ethereum", "solana"
  EventKinds, \* per platform: "regular" deposits, "signed" actions
  Hybrid,     \* whether an Ethereum listener polls besides its subscription
  Page,       \* how many of the last transactions a Solana query returns
  MaxEvents,  \* bound on the contract's events
  MaxStops    \* bound on crashes of the listener

ASSUME ChainListenersAssumption ==
  /\ Platforms \subseteq {"ethereum", "solana"} /\ Hybrid \in BOOLEAN
  /\ EventKinds \in [Platforms -> SUBSET {"regular", "signed"}]
  /\ Page \in Nat \ {0} /\ MaxEvents \in Nat /\ MaxStops \in Nat

VARIABLES
  platform,   \* the kind of chain the contract is on
  log,        \* the contract's events: their kinds and blocks, by id
  height,     \* the external chain's last block
  \* On Kolme:
  known,      \* the events someone has attested to: 1..known
  settled,    \* those that have been processed: 1..settled
  mine,       \* the last event this listener has attested to
  adrift,     \* events in a transaction that a stopped listener left behind
  \* The listener:
  mode,       \* what its loop is doing
  next,       \* next_bridge_event_id
  cursor,     \* next_block, and the id of the first log to look at in it
  stream,     \* events the subscription has pushed and the loop has not taken
  todo,       \* events of the last query still to be looked at
  upto,       \* the last block that query covered
  sending,    \* events in the transaction under way
  stops       \* crashes so far

chainVars == <<platform, log, height>>
kolmeVars == <<known, settled, mine, adrift>>
listenerVars == <<mode, next, cursor, stream, todo, upto, sending>>
vars == <<chainVars, kolmeVars, listenerVars, stops>>

Modes == {"down", "try", "ws", "poll", "polling", "idle",
          "missed", "catchUp", "stream"}

Larger(m, n) == IF m < n THEN n ELSE m

\* Whether the loop waits for a transaction to land or fail.
Busy == sending # << >>

-----------------------------------------------------------------------------
\* The external chain.

Subscribed == mode \in {"ws", "catchUp", "stream"}

\* The Ethereum subscription is to deposits only.
Pushed(id) == platform = "solana" \/ log'[id].kind = "regular"

\* What arrives of the first n events to come: a subscription may lose some.
Arriving(n) ==
  LET one == Len(log) + 1
      two == Len(log) + 2
  IN  {<< >>, <<one>>} \cup (IF n = 2 THEN {<<two>>, <<one, two>>} ELSE {})

\* A block with one event or two.
Emits ==
  \E n \in 1..2, kinds \in [1..2 -> EventKinds[platform]] :
    /\ Len(log) + n <= MaxEvents
    /\ height' = height + 1
    /\ log' = log \o [i \in 1..n |-> [kind |-> kinds[i], block |-> height']]
    /\ \E pushed \in Arriving(n) :
         /\ \A i \in DOMAIN pushed : Subscribed /\ Pushed(pushed[i])
         /\ stream' = stream \o pushed
    /\ UNCHANGED <<platform, kolmeVars, mode, next, cursor, todo, upto, sending,
                   stops>>

-----------------------------------------------------------------------------
\* Kolme: an attestation is of a pending event, or of the next one, and not by
\* someone who has attested already; other listeners attest and make quorums.

Acceptable(ids) ==
  /\ ids[1] > settled /\ ids[1] > mine /\ ids[1] <= known + 1
  /\ \A i \in DOMAIN ids : ids[i] = ids[1] + i - 1

NextBridgeEvent == Larger(settled, mine) + 1

OthersAttest ==
  /\ known < Len(log)
  /\ known' = known + 1
  /\ UNCHANGED <<chainVars, settled, mine, adrift, listenerVars, stops>>

Processes ==
  /\ settled < known
  /\ settled' = settled + 1
  /\ UNCHANGED <<chainVars, known, mine, adrift, listenerVars, stops>>

Records(ids) ==
  /\ Acceptable(ids)
  /\ mine' = Last(ids)
  /\ known' = Larger(known, Last(ids))

-----------------------------------------------------------------------------
\* The Ethereum listener.

Cursor(b, first) == [block |-> b, first |-> first]

Found == {id \in DOMAIN log : id = NextBridgeEvent /\ log[id].kind = "regular"}

ResumeCursor_AtTip == Cursor(height + 1, 0)

\* The block of the deposit that is next, or else the block to come.
ResumeCursor ==
  IF Found = {} THEN Cursor(height + 1, 0)
  ELSE Cursor(log[NextBridgeEvent].block, NextBridgeEvent)

EthereumStarts ==
  /\ platform = "ethereum" /\ mode = "down"
  /\ next' = NextBridgeEvent
  /\ cursor' = ResumeCursor
  /\ mode' = "try"
  /\ UNCHANGED <<chainVars, kolmeVars, stream, todo, upto, sending, stops>>

\* What the failure of a subscription leads to.
Fallback == IF Hybrid THEN "poll" ELSE "down"

\* The subscription begins with what is new, whatever block the filter names.
Connects ==
  /\ mode = "try"
  /\ \/ mode' = "ws"
     \/ mode' = Fallback
  /\ stream' = << >>
  /\ UNCHANGED <<chainVars, kolmeVars, next, cursor, todo, upto, sending, stops>>

Skipped(id) == log[id].block = cursor.block /\ id < cursor.first

SubscriptionPushes ==
  /\ mode = "ws" /\ ~Busy /\ stream # << >>
  /\ LET id == Head(stream)
     IN  \/ /\ Skipped(id)
            /\ stream' = Tail(stream)
            /\ UNCHANGED <<mode, sending>>
         \/ /\ ~Skipped(id) /\ id # next
            /\ mode' = Fallback /\ stream' = << >>
            /\ UNCHANGED sending
         \/ /\ ~Skipped(id) /\ id = next
            /\ sending' = <<id>> /\ stream' = Tail(stream)
            /\ UNCHANGED mode
  /\ UNCHANGED <<chainVars, kolmeVars, next, cursor, todo, upto, stops>>

SubscriptionEnds ==
  /\ mode = "ws" /\ ~Busy
  /\ mode' = Fallback /\ stream' = << >>
  /\ UNCHANGED <<chainVars, kolmeVars, next, cursor, todo, upto, sending, stops>>

FromCursor ==
  {id \in DOMAIN log : log[id].block >= cursor.block /\ ~Skipped(id)}

Polls ==
  /\ mode = "poll"
  /\ \/ /\ cursor.block > height
        /\ mode' = "idle" /\ UNCHANGED <<todo, upto>>
     \/ /\ cursor.block <= height
        /\ todo' = FromCursor /\ upto' = height /\ mode' = "polling"
  /\ UNCHANGED <<chainVars, kolmeVars, next, cursor, stream, sending, stops>>

PollTakes ==
  /\ mode = "polling" /\ ~Busy
  /\ \E id \in todo :
       /\ \A later \in todo : id <= later
       /\ \/ /\ log[id].kind = "signed"
             /\ todo' = todo \ {id} /\ UNCHANGED <<mode, sending>>
          \/ /\ log[id].kind = "regular" /\ id # next
             /\ mode' = "down" /\ todo' = {} /\ UNCHANGED sending
          \/ /\ log[id].kind = "regular" /\ id = next
             /\ sending' = <<id>> /\ todo' = todo \ {id} /\ UNCHANGED mode
  /\ UNCHANGED <<chainVars, kolmeVars, next, cursor, stream, upto, stops>>

PollEnds_AtTip ==
  /\ mode = "polling" /\ ~Busy /\ todo = {}
  /\ cursor' = Cursor(height + 1, 0)
  /\ mode' = "idle"
  /\ UNCHANGED <<chainVars, kolmeVars, next, stream, todo, upto, sending, stops>>

PollEnds ==
  /\ mode = "polling" /\ ~Busy /\ todo = {}
  /\ cursor' = Cursor(upto + 1, 0)
  /\ mode' = "idle"
  /\ UNCHANGED <<chainVars, kolmeVars, next, stream, todo, upto, sending, stops>>

\* A second later, or half a minute.
Wakes ==
  /\ mode = "idle"
  /\ mode' \in {"poll", "try"}
  /\ UNCHANGED <<chainVars, kolmeVars, next, cursor, stream, todo, upto,
                 sending, stops>>

-----------------------------------------------------------------------------
\* The Solana listener.  It subscribes before it catches up, so that nothing
\* falls between the two.

SolanaStarts ==
  /\ platform = "solana" /\ mode = "down"
  /\ next' = NextBridgeEvent
  /\ mode' \in {"catchUp", "missed"}     \* subscribed, or unable to
  /\ stream' = << >>
  /\ UNCHANGED <<chainVars, kolmeVars, cursor, todo, upto, sending, stops>>

Ascending(S) == SetToSortSeq(S, <)

\* What the query returns of the events not seen yet.
Missed == {id \in DOMAIN log : id >= next /\ id > Len(log) - Page}

CaughtUp == IF mode = "catchUp" THEN "stream" ELSE "down"

CatchesUp ==
  /\ mode \in {"catchUp", "missed"} /\ ~Busy
  /\ sending' = Ascending(Missed)
  /\ mode' = IF Missed = {} THEN CaughtUp ELSE mode
  /\ UNCHANGED <<chainVars, kolmeVars, next, cursor, stream, todo, upto, stops>>

LogArrives ==
  /\ mode = "stream" /\ ~Busy /\ stream # << >>
  /\ stream' = Tail(stream)
  /\ LET id == Head(stream)
     IN  \/ id < next /\ UNCHANGED <<mode, sending>>
         \/ id > next /\ mode' = "catchUp" /\ UNCHANGED sending
         \/ id = next /\ sending' = <<id>> /\ UNCHANGED mode
  /\ UNCHANGED <<chainVars, kolmeVars, next, cursor, todo, upto, stops>>

StreamEnds ==
  /\ mode = "stream" /\ ~Busy
  /\ mode' = "down" /\ stream' = << >>
  /\ UNCHANGED <<chainVars, kolmeVars, next, cursor, todo, upto, sending, stops>>

-----------------------------------------------------------------------------
\* The transaction under way lands or fails; the listener stops.

Land ==
  /\ Busy /\ Records(sending)
  /\ sending' = << >> /\ next' = Last(sending) + 1
  /\ mode' = IF mode \in {"catchUp", "missed"} THEN CaughtUp ELSE mode
  /\ cursor' = IF mode = "ws" THEN Cursor(log[Last(sending)].block, next')
               ELSE cursor
  /\ UNCHANGED <<chainVars, settled, adrift, stream, todo, upto, stops>>

Refused ==
  /\ Busy /\ ~Acceptable(sending)
  /\ sending' = << >> /\ stream' = << >> /\ todo' = {}
  /\ mode' = IF mode = "ws" THEN Fallback ELSE "down"
  /\ UNCHANGED <<chainVars, kolmeVars, next, cursor, upto, stops>>

\* A transaction under way stays in the mempools.
Stops ==
  /\ stops < MaxStops /\ mode # "down"
  /\ stops' = stops + 1
  /\ adrift' = IF Busy THEN sending ELSE adrift
  /\ sending' = << >> /\ stream' = << >> /\ todo' = {}
  /\ mode' = "down"
  /\ UNCHANGED <<chainVars, known, settled, mine, next, cursor, upto>>

LandsLater ==
  /\ adrift # << >>
  /\ adrift' = << >>
  /\ \/ Records(adrift)
     \/ ~Acceptable(adrift) /\ UNCHANGED <<known, mine>>
  /\ UNCHANGED <<chainVars, settled, listenerVars, stops>>

-----------------------------------------------------------------------------

Init ==
  /\ platform \in Platforms
  /\ log = << >> /\ height = 0
  /\ known = 0 /\ settled = 0 /\ mine = 0 /\ adrift = << >>
  /\ mode = "down" /\ next = 1 /\ cursor = Cursor(0, 0)
  /\ stream = << >> /\ todo = {} /\ upto = 0 /\ sending = << >>
  /\ stops = 0

ListenerStarts == EthereumStarts \/ SolanaStarts

Steps ==
  \/ Connects \/ SubscriptionPushes \/ Polls \/ PollTakes \/ PollEnds \/ Wakes
  \/ CatchesUp \/ LogArrives

Ends == SubscriptionEnds \/ StreamEnds

Next ==
  \/ Emits \/ OthersAttest \/ Processes
  \/ ListenerStarts \/ Steps \/ Ends
  \/ Land \/ Refused \/ Stops \/ LandsLater

Spec == Init /\ [][Next]_vars

\* The listener is restarted and its loop runs, transactions are executed, and
\* no connection lasts for ever.
FairSpec ==
  /\ Spec
  /\ WF_vars(ListenerStarts) /\ WF_vars(Steps) /\ WF_vars(Ends)
  /\ WF_vars(Land \/ Refused)

-----------------------------------------------------------------------------

Seen(id) == id <= settled \/ id <= mine

\* An Ethereum listener finds what it has still to attest to from its cursor
\* on, whatever its subscription has lost and whenever it last looked.
NothingPassed ==
  \A id \in DOMAIN log :
    platform = "ethereum" /\ mode # "down" /\ id >= next =>
      log[id].block >= cursor.block /\ ~Skipped(id)

\* Every event of the contract gets this listener's attestation or is
\* processed without it, whatever connections break when.
EventsAttested ==
  \A id \in 1..MaxEvents : id \in DOMAIN log ~> Seen(id)
=============================================================================
