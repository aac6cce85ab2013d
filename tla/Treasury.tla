------------------------------ MODULE Treasury ------------------------------
(***************************************************************************)
(* The treasury (src/contracts/tusdt-treasury/lib.rs): what arrives, in    *)
(* TUSDT or in TAO, is booked into six funds, and its governance releases  *)
(* it from them.  The two maps of the code are one function on kinds, and  *)
(* what the treasury really holds, at the token and on the chain, is       *)
(* external.  Booked amounts are never more than what is held, so the      *)
(* checked additions cannot fail.                                          *)
(***************************************************************************)
EXTENDS Naturals

CONSTANTS
    TreasuryContract, Deployer,
    MinimumBalance,     \* TAO that a transfer must leave on the account
    MaxHeld,            \* bound on what is held of each kind
    FeeAmounts          \* what may arrive at once

ASSUME TreasuryConstants ==
    /\ {MinimumBalance, MaxHeld} \subseteq Nat
    /\ FeeAmounts \subseteq Nat \ {0}

VARIABLES
    treasury_governance,
    funds,              \* <<kind, fund>> -> booked
    allocated,          \* kind -> booked
    held                \* kind -> the balance of the treasury's account

treasuryVars == <<treasury_governance, funds, allocated, held>>

TokenKind == {"Tusdt", "Native"}
Fund == {"Emergency", "Operation", "Insurance", "Dividend", "Buyback", "Voting"}

TotalBps == 10000

\* Basis points of the funds but the first, which gets the remainder.
Bps(fund) ==
    CASE fund = "Operation" -> 3000
      [] fund = "Insurance" -> 1000
      [] fund = "Dividend" -> 400
      [] fund = "Buyback" -> 400
      [] OTHER -> 200

BpsShare(delta, fund) == (delta * Bps(fund)) \div TotalBps

\* Mutant: the emergency fund gets its basis points and no remainder.
SplitDelta_NoRemainder(delta) ==
    [fund \in Fund |->
        IF fund = "Emergency" THEN (delta * 5000) \div TotalBps ELSE BpsShare(delta, fund)]

SplitDelta(delta) ==
    [fund \in Fund |->
        IF fund # "Emergency" THEN BpsShare(delta, fund)
        ELSE delta - (BpsShare(delta, "Operation") + BpsShare(delta, "Insurance")
                      + BpsShare(delta, "Dividend") + BpsShare(delta, "Buyback")
                      + BpsShare(delta, "Voting"))]

\* What arrived since the last booking, saturating at zero.
Pending(kind) == IF held[kind] > allocated[kind] THEN held[kind] - allocated[kind] ELSE 0

\* Mutant: release does not book what has arrived.
FundsBooked_Before == funds

\* The books after distribute.
FundsBooked ==
    [entry \in TokenKind \X Fund |-> funds[entry] + SplitDelta(Pending(entry[1]))[entry[2]]]

AllocatedBooked == [kind \in TokenKind |-> allocated[kind] + Pending(kind)]

Distribute ==
    /\ funds' = FundsBooked
    /\ allocated' = AllocatedBooked
    /\ UNCHANGED <<treasury_governance, held>>

\* What the token, or the chain for TAO, lets the account pay.
CanPay(kind, amount) ==
    held[kind] >= amount + (IF kind = "Native" THEN MinimumBalance ELSE 0)

PaidTo(recipient, kind, amount) ==
    IF recipient = TreasuryContract THEN held ELSE [held EXCEPT ![kind] = @ - amount]

Release(caller, fund, kind, amount, recipient) ==
    /\ caller = treasury_governance
    /\ FundsBooked[<<kind, fund>>] >= amount
    /\ AllocatedBooked[kind] >= amount
    /\ amount > 0 => CanPay(kind, amount)
    /\ funds' = [FundsBooked EXCEPT ![<<kind, fund>>] = @ - amount]
    /\ allocated' = [AllocatedBooked EXCEPT ![kind] = @ - amount]
    /\ held' = PaidTo(recipient, kind, amount)
    /\ UNCHANGED treasury_governance

SetTreasuryGovernance(caller, new_governance) ==
    /\ caller = treasury_governance
    /\ treasury_governance' = new_governance
    /\ UNCHANGED <<funds, allocated, held>>

\* Fees and surpluses arrive from the vault and the pool.
ReceiveFees(kind, amount) ==
    /\ held[kind] + amount <= MaxHeld
    /\ held' = [held EXCEPT ![kind] = @ + amount]
    /\ UNCHANGED <<treasury_governance, funds, allocated>>

TreasuryInit ==
    /\ treasury_governance = Deployer
    /\ funds = [entry \in TokenKind \X Fund |-> 0]
    /\ allocated = [kind \in TokenKind |-> 0]
    /\ held = [kind \in TokenKind |-> 0]

----------------------------------------------------------------------------

Booked(kind) ==
    funds[<<kind, "Emergency">>] + funds[<<kind, "Operation">>] + funds[<<kind, "Insurance">>]
    + funds[<<kind, "Dividend">>] + funds[<<kind, "Buyback">>] + funds[<<kind, "Voting">>]

\* The six funds of a kind together are exactly what is allocated, and it is
\* there: no rounding of a split and no release leaves a fund without cover.
BooksBalance ==
    \A kind \in TokenKind : Booked(kind) = allocated[kind] /\ allocated[kind] <= held[kind]
=============================================================================
