------------------------------- MODULE Token -------------------------------
(***************************************************************************)
(* The TUSDT token (src/contracts/tusdt-erc20/lib.rs).  Every message of   *)
(* the contract is one atomic step: an error reverts all it wrote, so the  *)
(* failing calls are the steps that do not exist here.  The account that   *)
(* signs or forwards a call is the parameter "caller" of its action.       *)
(***************************************************************************)
EXTENDS Naturals, FiniteSets, Functions

CONSTANTS
    Accounts,         \* every account: users and contracts
    MaxBalance,       \* the largest Balance (2^64 - 1 in the code)
    TokenAmounts      \* the values users pass to the token's messages

ASSUME AccountsAssumption == IsFiniteSet(Accounts)
ASSUME MaxBalanceAssumption == MaxBalance \in Nat
ASSUME TokenAmountsAssumption == TokenAmounts \subseteq 0 .. MaxBalance

VARIABLES
    token_controller, \* may replace itself and edit the minter set
    minters,          \* accounts that may mint and burn
    total_supply,
    balances,         \* account -> balance, 0 when the mapping has no entry
    allowances        \* <<owner, spender>> -> allowance

tokenVars == <<token_controller, minters, total_supply, balances, allowances>>
tokenRoles == <<token_controller, minters>>

Balance == 0 .. MaxBalance

TokenTypeOK ==
    /\ token_controller \in Accounts
    /\ minters \subseteq Accounts
    /\ total_supply \in Balance
    /\ balances \in [Accounts -> Balance]
    /\ allowances \in [Accounts \X Accounts -> Balance]

----------------------------------------------------------------------------
(* What the messages do to the two mappings. *)

Credited(b, to, value) == [b EXCEPT ![to] = @ + value]
Debited(b, from, value) == [b EXCEPT ![from] = @ - value]

\* Mutant: the recipient is read before the debit is written.
Moved_ReadEarly(b, from, to, value) == [b EXCEPT ![from] = @ - value, ![to] = b[to] + value]

\* transfer_from_to: the debit is written before the recipient is read, so a
\* transfer to oneself changes nothing.
Moved(b, from, to, value) == Credited(Debited(b, from, value), to, value)
CanMove(b, from, to, value) ==
    /\ b[from] >= value
    /\ Debited(b, from, value)[to] + value <= MaxBalance

----------------------------------------------------------------------------
(* The messages. *)

Transfer(caller, to, value) ==
    /\ CanMove(balances, caller, to, value)
    /\ balances' = Moved(balances, caller, to, value)
    /\ UNCHANGED <<tokenRoles, total_supply, allowances>>

\* Mutant: the allowance of "from" pays for a move out of the caller's balance.
TransferFrom_Caller(caller, from, to, value) ==
    /\ allowances[<<from, caller>>] >= value
    /\ CanMove(balances, caller, to, value)
    /\ balances' = Moved(balances, caller, to, value)
    /\ allowances' = [allowances EXCEPT ![<<from, caller>>] = @ - value]
    /\ UNCHANGED <<tokenRoles, total_supply>>

TransferFrom(caller, from, to, value) ==
    /\ allowances[<<from, caller>>] >= value
    /\ CanMove(balances, from, to, value)
    /\ balances' = Moved(balances, from, to, value)
    /\ allowances' = [allowances EXCEPT ![<<from, caller>>] = @ - value]
    /\ UNCHANGED <<tokenRoles, total_supply>>

Mint(caller, to, value) ==
    /\ caller \in minters
    /\ total_supply + value <= MaxBalance
    /\ balances[to] + value <= MaxBalance
    /\ total_supply' = total_supply + value
    /\ balances' = Credited(balances, to, value)
    /\ UNCHANGED <<tokenRoles, allowances>>

Burn(caller, from, value) ==
    /\ caller \in minters
    /\ balances[from] >= value
    /\ total_supply >= value
    /\ balances' = Debited(balances, from, value)
    /\ total_supply' = total_supply - value
    /\ UNCHANGED <<tokenRoles, allowances>>

SetAllowance(owner, spender, value) ==
    /\ allowances' = [allowances EXCEPT ![<<owner, spender>>] = value]
    /\ UNCHANGED <<tokenRoles, total_supply, balances>>

Approve(caller, spender, value) == SetAllowance(caller, spender, value)

\* saturating_add
IncreaseAllowance(caller, spender, delta) ==
    LET sum == allowances[<<caller, spender>>] + delta
    IN  SetAllowance(caller, spender, IF sum > MaxBalance THEN MaxBalance ELSE sum)

DecreaseAllowance(caller, spender, delta) ==
    /\ allowances[<<caller, spender>>] >= delta
    /\ SetAllowance(caller, spender, allowances[<<caller, spender>>] - delta)

SetTokenController(caller, new_controller) ==
    /\ caller = token_controller
    /\ token_controller' = new_controller
    /\ minters' = (minters \ {token_controller}) \cup {new_controller}
    /\ UNCHANGED <<total_supply, balances, allowances>>

AddMinter(caller, minter) ==
    /\ caller = token_controller
    /\ minters' = minters \cup {minter}
    /\ UNCHANGED <<token_controller, total_supply, balances, allowances>>

RemoveMinter(caller, minter) ==
    /\ caller = token_controller
    /\ minters' = minters \ {minter}
    /\ UNCHANGED <<token_controller, total_supply, balances, allowances>>

----------------------------------------------------------------------------
\* Whatever caller may do with the token by calling it directly, naming peers.
HolderStep(caller, peers) ==
    \E other \in peers, value \in TokenAmounts :
        \/ Transfer(caller, other, value)
        \/ Approve(caller, other, value)
        \/ IncreaseAllowance(caller, other, value)
        \/ DecreaseAllowance(caller, other, value)
        \/ \E to \in peers : TransferFrom(caller, other, to, value)

MinterStep(caller) ==
    \E other \in Accounts, value \in TokenAmounts :
        Mint(caller, other, value) \/ Burn(caller, other, value)

ControllerStep(caller) ==
    \E other \in Accounts :
        \/ SetTokenController(caller, other)
        \/ AddMinter(caller, other)
        \/ RemoveMinter(caller, other)

\* new(controller): the controller is the first minter; nothing is issued.
TokenInit ==
    /\ token_controller \in Accounts
    /\ minters = {token_controller}
    /\ total_supply = 0
    /\ balances = [a \in Accounts |-> 0]
    /\ allowances = [pair \in Accounts \X Accounts |-> 0]

\* Whatever caller may do with the token in its own name.
MessageOf(caller) ==
    HolderStep(caller, Accounts) \/ MinterStep(caller) \/ ControllerStep(caller)

TokenNext == \E caller \in Accounts : MessageOf(caller)

TokenSpec == TokenInit /\ [][TokenNext]_tokenVars

----------------------------------------------------------------------------
\* What has been issued is exactly what accounts hold: no transfer, to oneself
\* included, and no mint or burn loses or makes a token.  It is why the
\* checked_sub of total_supply in burn never fails.
SupplyIsSum == total_supply = SumFunction(balances)

\* Of what the owner allowed nothing changes but what the caller may spend: it
\* spends no more than the owner has, for a payment of exactly as much out of
\* the owner's balance, and nothing moves only when the owner is also the
\* payee.  The balance falls by what is so spent, or a minter burned it, out of
\* the supply.
TakesOnlyByLeave(caller, owner) ==
    LET spent == allowances[<<owner, caller>>] - allowances'[<<owner, caller>>]
        taken == balances[owner] - balances'[owner]
    IN  /\ \A spender \in Accounts \ {caller} :
              allowances'[<<owner, spender>>] = allowances[<<owner, spender>>]
        /\ spent >= 0 /\ spent <= balances[owner]
        /\ spent > 0 =>
              \/ balances' = balances
              \/ \E to \in Accounts \ {owner} :
                    balances' = [balances EXCEPT ![owner] = @ - spent, ![to] = @ + spent]
        /\ \A to \in Accounts \ {owner}, value \in TokenAmounts :
              TransferFrom(caller, owner, to, value) => taken = value /\ spent = value
        /\ taken > 0 =>
              taken = spent \/ (caller \in minters /\ total_supply' = total_supply - taken)

\* Nobody but its owner touches an account without leave, whatever message
\* somebody else calls (transfer_from, burn, or one about other accounts).
OthersNeedAllowance ==
    [][\A caller, owner \in Accounts :
          caller # owner /\ MessageOf(caller) => TakesOnlyByLeave(caller, owner)]_tokenVars
============================================================================
