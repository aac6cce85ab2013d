------------------------------- MODULE Sales -------------------------------
(***************************************************************************)
(* What the vault and its auction promise together: a vault that is sold   *)
(* is sold for what it owes then, in one sale at a time; the sale is bid   *)
(* up, decided once and settled once, and settling it takes the debt off   *)
(* the vault and out of the supply, and hands over the very lot that was   *)
(* put up.  Until then neither the debt nor the lot is anybody's to touch. *)
(***************************************************************************)
EXTENDS Naturals

CONSTANT NoWinner

VARIABLES
    sales,      \* id -> [vault, debt, lot, price, winner, stage], the stage
                \* "open", "decided" or "settled", or NotOpened
    owed,       \* vault -> its debt
    supply,     \* the tokens in circulation
    held        \* the TAO in the contract

saleVars == <<sales, owed, supply, held>>

NotOpened == [stage |-> "none"]
Pending(id) == sales[id].stage \in {"open", "decided"}
OnSale(v) == \E id \in DOMAIN sales : Pending(id) /\ sales[id].vault = v

SaleInit ==
    /\ sales = [id \in DOMAIN sales |-> NotOpened]
    /\ owed = [v \in DOMAIN owed |-> 0]

Lend(v) ==
    /\ owed'[v] > owed[v]
    /\ ~OnSale(v)
    /\ owed' = [owed EXCEPT ![v] = owed'[v]]
    /\ supply' = supply + (owed'[v] - owed[v])
    /\ UNCHANGED <<sales, held>>

Repay(v) ==
    /\ owed'[v] < owed[v]
    /\ ~OnSale(v)
    /\ owed' = [owed EXCEPT ![v] = owed'[v]]
    /\ supply' = supply - (owed[v] - owed'[v])
    /\ UNCHANGED <<sales, held>>

Open(id, v) ==
    /\ held' > held
    /\ sales[id] = NotOpened
    /\ owed[v] > 0
    /\ ~OnSale(v)
    /\ sales' = [sales EXCEPT ![id] =
          [vault |-> v, debt |-> owed[v], lot |-> held' - held, price |-> 0,
           winner |-> NoWinner, stage |-> "open"]]
    /\ UNCHANGED <<owed, supply>>

\* A leader is only displaced by a higher price, which covers the debt.
Bid(id) ==
    LET price == sales'[id].price IN
    /\ sales[id].stage = "open"
    /\ price > sales[id].price /\ price >= sales[id].debt
    /\ sales' = [sales EXCEPT ![id].price = price, ![id].winner = sales'[id].winner]
    /\ UNCHANGED <<owed, supply, held>>

Decide(id) ==
    /\ sales[id].stage = "open"
    /\ sales[id].winner # NoWinner
    /\ sales' = [sales EXCEPT ![id].stage = "decided"]
    /\ UNCHANGED <<owed, supply, held>>

Settle(id) ==
    /\ sales[id].stage = "decided"
    /\ sales' = [sales EXCEPT ![id].stage = "settled"]
    /\ owed' = [owed EXCEPT ![sales[id].vault] = @ - sales[id].debt]
    /\ owed'[sales[id].vault] = 0
    /\ supply' = supply - sales[id].debt
    /\ held' = held - sales[id].lot

Receive ==
    /\ held' > held
    /\ UNCHANGED <<sales, owed, supply>>

\* The rest of the TAO is only taken out while no sale is pending.
Sweep ==
    /\ held' < held
    /\ \A id \in DOMAIN sales : ~Pending(id)
    /\ UNCHANGED <<sales, owed, supply>>

SaleNext ==
    \/ \E v \in DOMAIN owed : Lend(v) \/ Repay(v)
    \/ \E id \in DOMAIN sales :
          \/ \E v \in DOMAIN owed : Open(id, v)
          \/ Bid(id) \/ Decide(id) \/ Settle(id)
    \/ Receive
    \/ Sweep

SaleSpec == SaleInit /\ [][SaleNext]_saleVars
=============================================================================
