------------------------------ MODULE SixSigma ------------------------------
(***************************************************************************)
(* The six-sigma example application, a betting house, and the messages    *)
(* of a transaction: its own, and the framework's for accounts, funds and  *)
(* deposits that are reported from an external chain.  The application     *)
(* pays winners by minting coins and withdrawing them at once.             *)
(***************************************************************************)
EXTENDS Accounts

CONSTANTS
  Validator,     \* the key of the processor and only listener
  Admin,         \* the key that may run the house
  Market,
  Outcome,
  Odds,          \* what a bet on each outcome returns, per unit
  HouseFunds     \* what a market is funded with

ASSUME SixSigmaAssumption ==
  /\ Validator \in Key /\ Admin \in Key
  /\ Odds \in [Outcome -> Nat] /\ HouseFunds \in Nat

\* The state of the chain: the accounts, the application, and for the record
\* what has been deposited, sent to the house, withdrawn and bet too late.
Genesis ==
  [accounts |-> UseNonce(NoAccounts, Validator),
   open |-> FALSE, reserve |-> 0, markets |-> << >>,
   deposited |-> 0, sent |-> 0, withdrawn |-> 0, late |-> 0]

-----------------------------------------------------------------------------
\* Withdrawals: the expressible part is burned and paid out by the bridge.

CanWithdraw(s, id, n) == CanBurn(s.accounts, id, Expressible(n))
Withdraw(s, id, n) ==
  [s EXCEPT !.accounts = Burn(@, id, Expressible(n)), !.withdrawn = @ + Expressible(n)]

-----------------------------------------------------------------------------
\* The house.

NewMarket ==
  [open |-> TRUE, bets |-> << >>, funds |-> HouseFunds,
   liability |-> [o \in Outcome |-> 0]]

CanAddMarket(s, m) ==
  s.open /\ m \notin DOMAIN s.markets /\ s.reserve >= HouseFunds

AddMarket(s, m) ==
  [s EXCEPT !.reserve = @ - HouseFunds, !.markets = Entry(@, m, NewMarket)]

Returns(n, o) == n * Odds[o]

CanBet_Unlimited(s, id, b) ==
  /\ s.open /\ b.market \in DOMAIN s.markets
  /\ CanBurn(s.accounts, id, b.amount)

\* Whether the market is open is not asked.
CanBet(s, id, b) ==
  /\ s.open /\ b.market \in DOMAIN s.markets
  /\ CanBurn(s.accounts, id, b.amount)
  /\ s.markets[b.market].liability[b.outcome] + Returns(b.amount, b.outcome) <= HouseFunds

\* The market with one more bet.
Taken(market, placed, amount) ==
  [open |-> market.open, bets |-> Append(market.bets, placed),
   funds |-> market.funds + amount,
   liability |-> [market.liability EXCEPT ![placed.outcome] = @ + placed.returns]]

Bet(s, id, b) ==
  LET placed == [bettor |-> id, outcome |-> b.outcome,
                 returns |-> Returns(b.amount, b.outcome)]
  IN  [s EXCEPT
         !.accounts = Burn(@, id, b.amount),
         !.markets[b.market] = Taken(@, placed, b.amount),
         !.late = IF s.markets[b.market].open THEN @ ELSE @ + b.amount]

\* What the winners get, bet by bet.
Paid(sum, bet, o) == IF bet.outcome = o THEN sum + bet.returns ELSE sum
Payouts(bets, o) == FoldLeft(LAMBDA sum, bet : Paid(sum, bet, o), 0, bets)

\* A winner's coins are minted and withdrawn.
CanPay(s, m, o) ==
  LET bets == s.markets[m].bets
  IN  \A i \in DOMAIN bets : bets[i].outcome = o => Expressible(bets[i].returns) > 0
Pay(s, bet, o) ==
  IF bet.outcome = o
  THEN Withdraw([s EXCEPT !.accounts = Mint(@, bet.bettor, bet.returns)],
                bet.bettor, bet.returns)
  ELSE s
PayAll(s, bets, o) == FoldLeft(LAMBDA t, bet : Pay(t, bet, o), s, bets)

CanSettle(s, m, o) ==
  s.open /\ m \in DOMAIN s.markets /\ s.markets[m].open /\ CanPay(s, m, o)

Settle(s, m, o) ==
  LET bets == s.markets[m].bets
  IN  PayAll([s EXCEPT !.reserve = @ + s.markets[m].funds - Payouts(bets, o),
                       !.markets[m].open = FALSE], bets, o)

-----------------------------------------------------------------------------
\* Deposits, which the listener reports.

Deposit(s, d) ==
  LET opened == AccountForWallet(s.accounts, d.wallet)
      id == opened.walletOf[d.wallet]
      keyed == AddKeys(opened, id, d.keys)
  IN  [s EXCEPT !.accounts = IF d.amount = 0 THEN keyed ELSE Mint(keyed, id, d.amount),
                !.deposited = @ + d.amount]

-----------------------------------------------------------------------------
\* The messages of a transaction, sent by = [id, key].  An amount may be negative
\* where it is a signed decimal.

Messages ==
  [type : {"addKey", "removeKey"}, key : Key]
    \cup [type : {"addWallet", "removeWallet"}, wallet : Wallet]
    \cup [type : {"transfer"}, dest : Nat, amount : Int]
    \cup [type : {"withdraw"}, amount : Int]
    \cup [type : {"deposit"}, wallet : Wallet, amount : Nat,
          keys : {keys \in SUBSET Key : IsFiniteSet(keys)}]
    \cup [type : {"init"}]
    \cup [type : {"sendFunds"}, amount : Int]
    \cup [type : {"addMarket"}, market : Market]
    \cup [type : {"bet"}, market : Market, outcome : Outcome, amount : Int]
    \cup [type : {"settle"}, market : Market, outcome : Outcome]

Can(s, m, by) ==
  \/ m.type = "addKey" /\ CanAddKey(s.accounts, m.key)
  \/ m.type = "removeKey" /\ CanRemoveKey(s.accounts, by, m.key)
  \/ m.type = "addWallet" /\ CanAddWallet(s.accounts, m.wallet)
  \/ m.type = "removeWallet" /\ CanRemoveWallet(s.accounts, by, m.wallet)
  \/ m.type = "transfer" /\ CanBurn(s.accounts, by.id, m.amount)
  \/ m.type = "withdraw" /\ CanWithdraw(s, by.id, m.amount)
  \/ m.type = "deposit" /\ by.key = Validator
  \/ m.type = "init" /\ by.key = Admin /\ ~s.open
  \/ m.type = "sendFunds"
  \/ m.type = "addMarket" /\ by.key = Admin /\ CanAddMarket(s, m.market)
  \/ m.type = "bet" /\ CanBet(s, by.id, m)
  \/ m.type = "settle" /\ by.key = Admin /\ CanSettle(s, m.market, m.outcome)

Does(s, m, by) ==
  CASE m.type = "addKey" -> [s EXCEPT !.accounts = AddKey(@, by.id, m.key)]
    [] m.type = "removeKey" -> [s EXCEPT !.accounts = RemoveKey(@, by.id, m.key)]
    [] m.type = "addWallet" -> [s EXCEPT !.accounts = AddWallet(@, by.id, m.wallet)]
    [] m.type = "removeWallet" -> [s EXCEPT !.accounts = RemoveWallet(@, by.id, m.wallet)]
    [] m.type = "transfer" -> [s EXCEPT !.accounts = Transfer(@, by.id, m.dest, m.amount)]
    [] m.type = "withdraw" -> Withdraw(s, by.id, m.amount)
    [] m.type = "deposit" -> Deposit(s, m)
    [] m.type = "init" -> [s EXCEPT !.open = TRUE]
    [] m.type = "sendFunds" -> [s EXCEPT !.reserve = @ + m.amount, !.sent = @ + m.amount]
    [] m.type = "addMarket" -> AddMarket(s, m.market)
    [] m.type = "bet" -> Bet(s, by.id, m)
    [] m.type = "settle" -> Settle(s, m.market, m.outcome)

\* A transaction: its nonce, then its messages in order, all of them or none.
Sent(s, tx) ==
  [ok |-> TRUE, state |-> [s EXCEPT !.accounts = UseNonce(@, tx.key)]]

\* One message, unless one before it failed.
Message(r, m, by) ==
  IF r.ok /\ Can(r.state, m, by) THEN [r EXCEPT !.state = Does(@, m, by)]
  ELSE [r EXCEPT !.ok = FALSE]

DoesAll(r, body, by) == FoldLeft(LAMBDA t, m : Message(t, m, by), r, body)

Executed(s, tx) ==
  DoesAll(Sent(s, tx), tx.body, [id |-> Sender(s.accounts, tx.key), key |-> tx.key])

CanExecute(s, tx) ==
  NonceFits(s.accounts, tx.key, tx.nonce) /\ Executed(s, tx).ok
=============================================================================
