---------------------------- MODULE TokenProofs ----------------------------
(* What the token's messages preserve, whoever calls them. *)
EXTENDS Token, HelperProofs

\* Only transfers write balances after a check on a debited map: both entries
\* stay within a Balance, the case of a transfer to oneself included.
LEMMA MovedType ==
    ASSUME NEW b \in [Accounts -> Balance], NEW from \in Accounts, NEW to \in Accounts,
           NEW value \in Nat, CanMove(b, from, to, value)
    PROVE  Moved(b, from, to, value) \in [Accounts -> Balance]
  BY MaxBalanceAssumption DEF CanMove, Moved, Credited, Debited, Balance

LEMMA TransferType ==
    ASSUME TokenTypeOK, NEW caller \in Accounts, NEW to \in Accounts, NEW value \in Nat,
           Transfer(caller, to, value)
    PROVE  TokenTypeOK'
  BY MovedType DEF TokenTypeOK, Transfer, tokenRoles

LEMMA TransferFromType ==
    ASSUME TokenTypeOK, NEW caller \in Accounts, NEW from \in Accounts, NEW to \in Accounts,
           NEW value \in Nat, TransferFrom(caller, from, to, value)
    PROVE  TokenTypeOK'
<1>1. balances' \in [Accounts -> Balance]
  BY MovedType DEF TokenTypeOK, TransferFrom
<1>2. allowances' \in [Accounts \X Accounts -> Balance]
  BY MaxBalanceAssumption DEF TokenTypeOK, TransferFrom, Balance
<1>3. QED
  BY <1>1, <1>2 DEF TokenTypeOK, TransferFrom, tokenRoles

LEMMA MintType ==
    ASSUME TokenTypeOK, NEW caller \in Accounts, NEW to \in Accounts, NEW value \in Nat,
           Mint(caller, to, value)
    PROVE  TokenTypeOK'
  BY MaxBalanceAssumption DEF TokenTypeOK, Mint, Credited, Balance, tokenRoles

LEMMA BurnType ==
    ASSUME TokenTypeOK, NEW caller \in Accounts, NEW from \in Accounts, NEW value \in Nat,
           Burn(caller, from, value)
    PROVE  TokenTypeOK'
  BY MaxBalanceAssumption DEF TokenTypeOK, Burn, Debited, Balance, tokenRoles

LEMMA SetAllowanceType ==
    ASSUME TokenTypeOK, NEW owner \in Accounts, NEW spender \in Accounts,
           NEW value \in Balance, SetAllowance(owner, spender, value)
    PROVE  TokenTypeOK'
  BY DEF TokenTypeOK, SetAllowance, tokenRoles

LEMMA HolderStepType ==
    ASSUME TokenTypeOK, NEW caller \in Accounts, NEW peers \in SUBSET Accounts,
           HolderStep(caller, peers)
    PROVE  TokenTypeOK'
<1> PICK other \in peers, value \in TokenAmounts :
        \/ Transfer(caller, other, value)
        \/ Approve(caller, other, value)
        \/ IncreaseAllowance(caller, other, value)
        \/ DecreaseAllowance(caller, other, value)
        \/ \E to \in peers : TransferFrom(caller, other, to, value)
  BY DEF HolderStep
<1> value \in Balance /\ value \in Nat
  BY TokenAmountsAssumption, MaxBalanceAssumption DEF Balance
<1>1. CASE Transfer(caller, other, value)
  BY <1>1, TransferType
<1>2. CASE Approve(caller, other, value)
  BY <1>2, SetAllowanceType DEF Approve
<1>3. CASE IncreaseAllowance(caller, other, value)
  <2> DEFINE sum == allowances[<<caller, other>>] + value
             capped == IF sum > MaxBalance THEN MaxBalance ELSE sum
  <2>1. capped \in Balance
    <3>1. allowances[<<caller, other>>] \in Balance
      BY DEF TokenTypeOK
    <3>2. QED
      BY <3>1, MaxBalanceAssumption DEF Balance
  <2>2. SetAllowance(caller, other, capped)
    BY <1>3 DEF IncreaseAllowance
  <2>3. QED
    BY <2>1, <2>2, SetAllowanceType
<1>4. CASE DecreaseAllowance(caller, other, value)
  <2>1. allowances[<<caller, other>>] - value \in Balance
    <3>1. allowances[<<caller, other>>] \in Balance
      BY DEF TokenTypeOK
    <3>2. QED
      BY <1>4, <3>1, MaxBalanceAssumption DEF Balance, DecreaseAllowance
  <2>2. QED
    BY <1>4, <2>1, SetAllowanceType DEF DecreaseAllowance
<1>5. CASE \E to \in peers : TransferFrom(caller, other, to, value)
  BY <1>5, TransferFromType
<1>6. QED
  BY <1>1, <1>2, <1>3, <1>4, <1>5

----------------------------------------------------------------------------
LEMMA MinterStepType ==
    ASSUME TokenTypeOK, NEW caller \in Accounts, MinterStep(caller)
    PROVE  TokenTypeOK'
<1> PICK other \in Accounts, value \in TokenAmounts :
        Mint(caller, other, value) \/ Burn(caller, other, value)
  BY DEF MinterStep
<1> value \in Nat
  BY TokenAmountsAssumption, MaxBalanceAssumption DEF Balance
<1> QED
  BY MintType, BurnType

LEMMA ControllerStepType ==
    ASSUME TokenTypeOK, NEW caller \in Accounts, ControllerStep(caller)
    PROVE  TokenTypeOK'
  BY DEF TokenTypeOK, ControllerStep, SetTokenController, AddMinter, RemoveMinter

\* No message of the token, in any order and from any caller, takes a balance,
\* an allowance or the supply out of the range of a Balance.
THEOREM TokenTypeCorrect == TokenSpec => []TokenTypeOK
<1>1. TokenInit => TokenTypeOK
  BY MaxBalanceAssumption DEF TokenInit, TokenTypeOK, Balance
<1>2. TokenTypeOK /\ [TokenNext]_tokenVars => TokenTypeOK'
  <2> SUFFICES ASSUME TokenTypeOK, [TokenNext]_tokenVars PROVE TokenTypeOK'
    OBVIOUS
  <2>1. CASE TokenNext
    BY <2>1, HolderStepType, MinterStepType, ControllerStepType DEF TokenNext, MessageOf
  <2>2. CASE UNCHANGED tokenVars
    BY <2>2 DEF tokenVars, TokenTypeOK
  <2>3. QED
    BY <2>1, <2>2
<1>3. QED
  BY <1>1, <1>2, PTL DEF TokenSpec

----------------------------------------------------------------------------
(* The supply. *)

LEMMA CreditedSum ==
    ASSUME NEW b \in [Accounts -> Int], NEW to \in Accounts, NEW value \in Int
    PROVE  /\ Credited(b, to, value) \in [Accounts -> Int]
           /\ SumFunction(Credited(b, to, value)) = SumFunction(b) + value
<1> DEFINE c == Credited(b, to, value)
<1>1. c \in [Accounts -> Int] /\ c[to] = b[to] + value /\ \A a \in Accounts \ {to} : c[a] = b[a]
  BY DEF Credited
<1>2. SumFunction(b) \in Int /\ b[to] \in Int
  BY AccountsAssumption, SumType
<1> HIDE DEF c
<1>3. SumFunction(c) = SumFunction(b) - b[to] + c[to]
  BY <1>1, AccountsAssumption, SumChanged
<1>4. QED
  BY <1>1, <1>2, <1>3 DEF c

LEMMA DebitedSum ==
    ASSUME NEW b \in [Accounts -> Int], NEW from \in Accounts, NEW value \in Int
    PROVE  /\ Debited(b, from, value) \in [Accounts -> Int]
           /\ SumFunction(Debited(b, from, value)) = SumFunction(b) - value
<1> DEFINE d == Debited(b, from, value)
<1>1. d \in [Accounts -> Int] /\ d[from] = b[from] - value /\ \A a \in Accounts \ {from} : d[a] = b[a]
  BY DEF Debited
<1>2. SumFunction(b) \in Int /\ b[from] \in Int
  BY AccountsAssumption, SumType
<1> HIDE DEF d
<1>3. SumFunction(d) = SumFunction(b) - b[from] + d[from]
  BY <1>1, AccountsAssumption, SumChanged
<1>4. QED
  BY <1>1, <1>2, <1>3 DEF d

\* A move keeps the sum, whether or not it is to oneself.
LEMMA MovedSum ==
    ASSUME NEW b \in [Accounts -> Int], NEW from \in Accounts, NEW to \in Accounts,
           NEW value \in Int
    PROVE  SumFunction(Moved(b, from, to, value)) = SumFunction(b)
<1>1. /\ Debited(b, from, value) \in [Accounts -> Int]
      /\ SumFunction(Debited(b, from, value)) = SumFunction(b) - value
  BY DebitedSum
<1>2. SumFunction(Moved(b, from, to, value)) = SumFunction(Debited(b, from, value)) + value
  BY <1>1, CreditedSum DEF Moved
<1>3. SumFunction(b) \in Int
  BY AccountsAssumption, SumType
<1>4. QED
  BY <1>1, <1>2, <1>3

LEMMA TransferSupply ==
    ASSUME TokenTypeOK, SupplyIsSum, NEW from \in Accounts, NEW to \in Accounts, NEW value \in Nat,
           balances' = Moved(balances, from, to, value), total_supply' = total_supply
    PROVE  SupplyIsSum'
<1>1. balances \in [Accounts -> Int]
  BY DEF TokenTypeOK, Balance
<1>2. QED
  BY <1>1, MovedSum DEF SupplyIsSum

LEMMA MintSupply ==
    ASSUME TokenTypeOK, SupplyIsSum, NEW caller \in Accounts, NEW to \in Accounts,
           NEW value \in Nat, Mint(caller, to, value)
    PROVE  SupplyIsSum'
<1>1. balances \in [Accounts -> Int]
  BY DEF TokenTypeOK, Balance
<1>2. QED
  BY <1>1, CreditedSum DEF SupplyIsSum, Mint

LEMMA BurnSupply ==
    ASSUME TokenTypeOK, SupplyIsSum, NEW caller \in Accounts, NEW from \in Accounts,
           NEW value \in Nat, Burn(caller, from, value)
    PROVE  SupplyIsSum'
<1>1. balances \in [Accounts -> Int]
  BY DEF TokenTypeOK, Balance
<1>2. QED
  BY <1>1, DebitedSum DEF SupplyIsSum, Burn

LEMMA HolderStepSupply ==
    ASSUME TokenTypeOK, SupplyIsSum, NEW caller \in Accounts, NEW peers \in SUBSET Accounts,
           HolderStep(caller, peers)
    PROVE  SupplyIsSum'
<1> PICK other \in peers, value \in TokenAmounts :
        \/ Transfer(caller, other, value)
        \/ Approve(caller, other, value)
        \/ IncreaseAllowance(caller, other, value)
        \/ DecreaseAllowance(caller, other, value)
        \/ \E to \in peers : TransferFrom(caller, other, to, value)
  BY DEF HolderStep
<1> value \in Nat
  BY TokenAmountsAssumption, MaxBalanceAssumption DEF Balance
<1>1. CASE Transfer(caller, other, value)
  BY <1>1, TransferSupply DEF Transfer
<1>2. CASE \E to \in peers : TransferFrom(caller, other, to, value)
  BY <1>2, TransferSupply DEF TransferFrom
<1>3. CASE UNCHANGED <<total_supply, balances>>
  BY <1>3 DEF SupplyIsSum
<1>4. QED
  BY <1>1, <1>2, <1>3
     DEF Approve, IncreaseAllowance, DecreaseAllowance, SetAllowance

\* Because the supply is the sum of the balances, what the sender has always
\* fits on the recipient's balance: the only reason a move fails is a lack of
\* funds.
LEMMA MoveAlwaysFits ==
    ASSUME TokenTypeOK, SupplyIsSum, NEW from \in Accounts, NEW to \in Accounts,
           NEW value \in Nat, balances[from] >= value
    PROVE  CanMove(balances, from, to, value)
<1> DEFINE d == Debited(balances, from, value)
<1>1. balances \in [Accounts -> Int] /\ value \in Int /\ balances[from] \in Nat
  BY DEF TokenTypeOK, Balance
<1>2. d \in [Accounts -> Int] /\ SumFunction(d) = SumFunction(balances) - value
  BY <1>1, DebitedSum
<1>3. d \in [Accounts -> Nat]
  BY <1>1 DEF Debited, TokenTypeOK, Balance
<1> HIDE DEF d
<1>4. d[to] <= SumFunction(d)
  BY <1>3, AccountsAssumption, SumAtLeastTerm
<1>5. d[to] \in Nat
  BY <1>3
<1>6. SumFunction(balances) \in 0 .. MaxBalance
  BY DEF SupplyIsSum, TokenTypeOK, Balance
<1>7. d[to] + value <= MaxBalance
  BY <1>1, <1>2, <1>4, <1>5, <1>6, MaxBalanceAssumption
<1>8. QED
  BY <1>7 DEF CanMove, d

\* What was issued is what accounts hold, after any sequence of messages.
THEOREM TokenSupplyIsSum == TokenSpec => []SupplyIsSum
<1>1. TokenInit => SupplyIsSum
  <2> SUFFICES ASSUME TokenInit PROVE SupplyIsSum
    OBVIOUS
  <2>1. balances \in [Accounts -> Int] /\ \A a \in Accounts : balances[a] = 0
    BY DEF TokenInit
  <2>2. QED
    BY <2>1, AccountsAssumption, SumOfZeros DEF TokenInit, SupplyIsSum
<1>2. TokenTypeOK /\ SupplyIsSum /\ [TokenNext]_tokenVars => SupplyIsSum'
  <2> SUFFICES ASSUME TokenTypeOK, SupplyIsSum, [TokenNext]_tokenVars PROVE SupplyIsSum'
    OBVIOUS
  <2>1. ASSUME NEW caller \in Accounts, HolderStep(caller, Accounts) PROVE SupplyIsSum'
    BY <2>1, HolderStepSupply
  <2>2. ASSUME NEW caller \in Accounts, MinterStep(caller) PROVE SupplyIsSum'
    <3>1. \A value \in TokenAmounts : value \in Nat
      BY TokenAmountsAssumption, MaxBalanceAssumption DEF Balance
    <3>2. QED
      BY <2>2, <3>1, MintSupply, BurnSupply DEF MinterStep
  <2>3. ASSUME NEW caller \in Accounts, ControllerStep(caller) PROVE SupplyIsSum'
    BY <2>3 DEF ControllerStep, SetTokenController, AddMinter, RemoveMinter, SupplyIsSum
  <2>4. CASE UNCHANGED tokenVars
    BY <2>4 DEF tokenVars, SupplyIsSum
  <2>5. QED
    BY <2>1, <2>2, <2>3, <2>4 DEF TokenNext, MessageOf
<1>3. QED
  BY <1>1, <1>2, TokenTypeCorrect, PTL DEF TokenSpec

----------------------------------------------------------------------------
(* Allowances. *)

\* A payment out of the owner's balance by leave of the owner.
LEMMA SpendingIsByLeave ==
    ASSUME TokenTypeOK, NEW caller \in Accounts, NEW owner \in Accounts, caller # owner,
           NEW to \in Accounts, NEW value \in Nat, TransferFrom(caller, owner, to, value)
    PROVE  TakesOnlyByLeave(caller, owner)
<1>1. allowances \in [Accounts \X Accounts -> Int] /\ balances \in [Accounts -> Int]
  BY DEF TokenTypeOK, Balance
<1>2. /\ allowances' = [allowances EXCEPT ![<<owner, caller>>] = @ - value]
      /\ balances' = Moved(balances, owner, to, value)
      /\ balances[owner] >= value
  BY DEF TransferFrom, CanMove
<1>3. /\ allowances[<<owner, caller>>] - allowances'[<<owner, caller>>] = value
      /\ \A spender \in Accounts \ {caller} :
            allowances'[<<owner, spender>>] = allowances[<<owner, spender>>]
  BY <1>1, <1>2
<1>4. CASE to = owner
  <2>1. balances' = balances
    BY <1>1, <1>2, <1>4 DEF Moved, Credited, Debited
  <2>2. ASSUME NEW payee \in Accounts \ {owner}, NEW amount \in TokenAmounts,
               TransferFrom(caller, owner, payee, amount)
        PROVE  balances[owner] - balances'[owner] = amount
               /\ allowances[<<owner, caller>>] - allowances'[<<owner, caller>>] = amount
    <3>1. amount \in Nat
      BY TokenAmountsAssumption, MaxBalanceAssumption DEF Balance
    <3>2. balances'[owner] = balances[owner] - amount
          /\ allowances'[<<owner, caller>>] = allowances[<<owner, caller>>] - amount
      BY <1>1, <2>2, <3>1 DEF TransferFrom, Moved, Credited, Debited
    <3>3. QED
      BY <1>1, <3>1, <3>2
  <2>3. QED
    BY <1>1, <1>2, <1>3, <2>1, <2>2 DEF TakesOnlyByLeave
<1>5. CASE to # owner
  <2>1. balances' = [balances EXCEPT ![owner] = @ - value, ![to] = @ + value]
    BY <1>1, <1>2, <1>5 DEF Moved, Credited, Debited
  <2>2. balances[owner] - balances'[owner] = value
    BY <1>1, <1>5, <2>1
  <2>3. ASSUME NEW payee \in Accounts \ {owner}, NEW amount \in TokenAmounts,
               TransferFrom(caller, owner, payee, amount)
        PROVE  amount = value
    <3>1. amount \in Nat
      BY TokenAmountsAssumption, MaxBalanceAssumption DEF Balance
    <3>2. allowances'[<<owner, caller>>] = allowances[<<owner, caller>>] - amount
      BY <1>1, <2>3, <3>1 DEF TransferFrom
    <3>3. QED
      BY <1>1, <1>3, <3>1, <3>2
  <2>4. QED
    BY <1>1, <1>2, <1>3, <1>5, <2>1, <2>2, <2>3 DEF TakesOnlyByLeave
<1>6. QED
  BY <1>4, <1>5

\* A message that leaves the owner's allowances alone takes by leave what it
\* takes of the supply.
LEMMA OthersLeaveItAlone ==
    ASSUME TokenTypeOK, TokenTypeOK', NEW caller \in Accounts, NEW owner \in Accounts,
           \A spender \in Accounts :
               allowances'[<<owner, spender>>] = allowances[<<owner, spender>>],
           \/ balances'[owner] >= balances[owner]
           \/ /\ caller \in minters
              /\ total_supply' = total_supply - (balances[owner] - balances'[owner])
    PROVE  TakesOnlyByLeave(caller, owner)
<1>1. /\ allowances \in [Accounts \X Accounts -> Nat] /\ balances \in [Accounts -> Nat]
      /\ balances' \in [Accounts -> Nat]
  BY DEF TokenTypeOK, Balance
<1>2. allowances[<<owner, caller>>] - allowances'[<<owner, caller>>] = 0
  BY <1>1
<1>3. ASSUME NEW to \in Accounts \ {owner}, NEW value \in TokenAmounts,
             TransferFrom(caller, owner, to, value)
      PROVE  balances[owner] - balances'[owner] = value /\ value = 0
  <2>1. value \in Nat
    BY TokenAmountsAssumption, MaxBalanceAssumption DEF Balance
  <2>2. balances'[owner] = balances[owner] - value
    BY <1>1, <1>3, <2>1 DEF TransferFrom, Moved, Credited, Debited
  <2>3. allowances'[<<owner, caller>>] = allowances[<<owner, caller>>] - value
    BY <1>1, <1>3, <2>1 DEF TransferFrom
  <2>4. QED
    BY <1>1, <1>2, <2>1, <2>2, <2>3
<1>4. QED
  BY <1>1, <1>2, <1>3 DEF TakesOnlyByLeave

LEMMA HolderTakesOnlyByLeave ==
    ASSUME TokenTypeOK, TokenTypeOK', NEW caller \in Accounts, NEW owner \in Accounts,
           caller # owner, HolderStep(caller, Accounts)
    PROVE  TakesOnlyByLeave(caller, owner)
<1> PICK other \in Accounts, value \in TokenAmounts :
        \/ Transfer(caller, other, value)
        \/ Approve(caller, other, value)
        \/ IncreaseAllowance(caller, other, value)
        \/ DecreaseAllowance(caller, other, value)
        \/ \E to \in Accounts : TransferFrom(caller, other, to, value)
  BY DEF HolderStep
<1> value \in Nat
  BY TokenAmountsAssumption, MaxBalanceAssumption DEF Balance
<1>1. allowances \in [Accounts \X Accounts -> Nat] /\ balances \in [Accounts -> Nat]
  BY DEF TokenTypeOK, Balance
<1>2. CASE Transfer(caller, other, value)
  <2>1. balances'[owner] >= balances[owner]
    BY <1>1, <1>2 DEF Transfer, Moved, Credited, Debited
  <2>2. allowances' = allowances
    BY <1>2 DEF Transfer
  <2>3. QED
    BY <2>1, <2>2, OthersLeaveItAlone
<1>3. CASE Approve(caller, other, value) \/ IncreaseAllowance(caller, other, value)
             \/ DecreaseAllowance(caller, other, value)
  <2>1. PICK amount : SetAllowance(caller, other, amount)
    BY <1>3 DEF Approve, IncreaseAllowance, DecreaseAllowance
  <2>2. \A spender \in Accounts :
            allowances'[<<owner, spender>>] = allowances[<<owner, spender>>]
    BY <1>1, <2>1 DEF SetAllowance
  <2>3. balances'[owner] >= balances[owner]
    BY <1>1, <2>1 DEF SetAllowance
  <2>4. QED
    BY <2>2, <2>3, OthersLeaveItAlone
<1>4. ASSUME NEW to \in Accounts, TransferFrom(caller, other, to, value)
      PROVE  TakesOnlyByLeave(caller, owner)
  <2>1. CASE other = owner
    BY <1>4, <2>1, SpendingIsByLeave
  <2>2. CASE other # owner
    <3>1. balances'[owner] >= balances[owner]
      BY <1>1, <1>4, <2>2 DEF TransferFrom, Moved, Credited, Debited
    <3>2. \A spender \in Accounts :
              allowances'[<<owner, spender>>] = allowances[<<owner, spender>>]
      BY <1>1, <1>4, <2>2 DEF TransferFrom
    <3>3. QED
      BY <3>1, <3>2, OthersLeaveItAlone
  <2>3. QED
    BY <2>1, <2>2
<1>5. QED
  BY <1>2, <1>3, <1>4

LEMMA MinterTakesOnlyByLeave ==
    ASSUME TokenTypeOK, TokenTypeOK', NEW caller \in Accounts, NEW owner \in Accounts,
           MinterStep(caller)
    PROVE  TakesOnlyByLeave(caller, owner)
<1> PICK other \in Accounts, value \in TokenAmounts :
        Mint(caller, other, value) \/ Burn(caller, other, value)
  BY DEF MinterStep
<1> value \in Nat
  BY TokenAmountsAssumption, MaxBalanceAssumption DEF Balance
<1>1. balances \in [Accounts -> Nat] /\ total_supply \in Nat /\ allowances' = allowances
  BY DEF TokenTypeOK, Balance, Mint, Burn
<1>2. CASE Mint(caller, other, value)
  <2>1. balances'[owner] >= balances[owner]
    BY <1>1, <1>2 DEF Mint, Credited
  <2>2. QED
    BY <1>1, <2>1, OthersLeaveItAlone
<1>3. CASE Burn(caller, other, value)
  <2>1. /\ balances' = [balances EXCEPT ![other] = @ - value]
        /\ total_supply' = total_supply - value /\ caller \in minters
    BY <1>3 DEF Burn, Debited
  <2>2. CASE other = owner
    <3>1. total_supply' = total_supply - (balances[owner] - balances'[owner])
      BY <1>1, <2>1, <2>2
    <3>2. QED
      BY <1>1, <2>1, <3>1, OthersLeaveItAlone
  <2>3. CASE other # owner
    <3>1. balances'[owner] >= balances[owner]
      BY <1>1, <2>1, <2>3
    <3>2. QED
      BY <1>1, <3>1, OthersLeaveItAlone
  <2>4. QED
    BY <2>2, <2>3
<1>4. QED
  BY <1>2, <1>3

\* What one account does to another is by leave of that one (an allowance that
\* pays for it) or of the controller (who chose the minters), payments by an
\* owner to itself out of its allowance included.
THEOREM TokenOthersNeedAllowance == TokenSpec => OthersNeedAllowance
<1> DEFINE byLeave == \A caller, owner \in Accounts :
              caller # owner /\ MessageOf(caller) => TakesOnlyByLeave(caller, owner)
<1>1. TokenTypeOK /\ TokenTypeOK' => byLeave
  <2> SUFFICES ASSUME TokenTypeOK, TokenTypeOK', NEW caller \in Accounts, NEW owner \in Accounts,
                      caller # owner, MessageOf(caller)
               PROVE  TakesOnlyByLeave(caller, owner)
    OBVIOUS
  <2>1. CASE ControllerStep(caller)
    <3>1. allowances' = allowances /\ balances' = balances
      BY <2>1 DEF ControllerStep, SetTokenController, AddMinter, RemoveMinter
    <3>2. balances[owner] >= balances[owner]
      BY DEF TokenTypeOK, Balance
    <3>3. QED
      BY <3>1, <3>2, OthersLeaveItAlone
  <2>2. QED
    BY <2>1, HolderTakesOnlyByLeave, MinterTakesOnlyByLeave DEF MessageOf
<1>2. QED
  BY <1>1, TokenTypeCorrect, PTL DEF OthersNeedAllowance
============================================================================
