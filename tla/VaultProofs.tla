---------------------------- MODULE VaultProofs ----------------------------
(***************************************************************************)
(* The vault, its auction and its token: what holds for every number of    *)
(* vaults, auctions, bids and accounts and every price.  VaultInv relates  *)
(* a vault to its auction; BooksInv, inductive relative to it, relates the *)
(* totals, balances, stake and TAO to the sums they stand for.             *)
(***************************************************************************)
EXTENDS Vault, AuctionProofs, FiniteSetTheorems

-----------------------------------------------------------------------------
(* The fixed-point divisions, for every RatioOne. *)

LEMMA ProductMonotone ==
    ASSUME NEW a \in Nat, NEW b \in Nat, NEW c \in Nat, NEW d \in Nat, a <= c, b <= d
    PROVE  a * b <= c * d
  OBVIOUS

LEMMA MulValueType ==
    ASSUME NEW ratio \in Nat, NEW value \in Nat
    PROVE  MulValue(ratio, value) \in Nat
  BY RatioOneAssumption DEF MulValue

\* checked_div_value is the floor: the largest number whose product with the
\* ratio does not exceed the value.
LEMMA DivValueIsFloor ==
    ASSUME NEW ratio \in Nat \ {0}, NEW value \in Nat
    PROVE  /\ DivValue(ratio, value) \in Nat
           /\ ratio * DivValue(ratio, value) <= value * RatioOne
           /\ value * RatioOne < ratio * (DivValue(ratio, value) + 1)
<1> DEFINE scaled == value * RatioOne
<1>1. scaled \in Nat
  BY RatioOneAssumption
<1>2. QED
  BY <1>1 DEF DivValue

\* A larger ratio never gives a larger quotient.
LEMMA DivValueAntitone ==
    ASSUME NEW small \in Nat \ {0}, NEW large \in Nat \ {0}, small <= large, NEW value \in Nat
    PROVE  DivValue(large, value) <= DivValue(small, value)
<1> DEFINE s == DivValue(small, value)
           l == DivValue(large, value)
<1>1. s \in Nat /\ l \in Nat /\ large * l < small * (s + 1)
  BY DivValueIsFloor, RatioOneAssumption
<1>2. SUFFICES ASSUME s + 1 <= l PROVE FALSE
  BY <1>1
<1>3. small * (s + 1) <= large * l
  BY <1>1, <1>2, ProductMonotone
<1>4. QED
  BY <1>1, <1>3

\* checked_div_value_ceil is the ceiling, the least number whose product with
\* the ratio covers the value: rounding a debt up never loses any of it, and
\* adds less than one unit, none when the division is exact.
THEOREM DivValueCeilIsCeiling ==
    ASSUME NEW ratio \in Nat \ {0}, NEW value \in Nat
    PROVE  /\ DivValueCeil(ratio, value) \in Nat
           /\ value * RatioOne <= ratio * DivValueCeil(ratio, value)
           /\ value * RatioOne > ratio * (DivValueCeil(ratio, value) - 1)
           /\ \A number \in Nat :
                 value * RatioOne <= ratio * number => DivValueCeil(ratio, value) <= number
<1> DEFINE scaled == value * RatioOne
           up == (scaled + (ratio - 1)) \div ratio
<1>1. scaled \in Nat
  BY RatioOneAssumption
<1>2. scaled + (ratio - 1) \in Nat
  BY <1>1
<1>3. up \in Nat /\ ratio * up <= scaled + (ratio - 1) /\ scaled + (ratio - 1) < ratio * (up + 1)
  BY <1>2
<1>4. ratio * (up + 1) = ratio * up + ratio /\ ratio * (up - 1) = ratio * up - ratio
      /\ ratio * up \in Nat
  BY <1>3
<1>5. scaled <= ratio * up /\ scaled > ratio * (up - 1)
  <2> HIDE DEF scaled, up
  <2> QED
    BY <1>1, <1>3, <1>4
<1>6. ASSUME NEW number \in Nat, scaled <= ratio * number PROVE up <= number
  <2> HIDE DEF scaled, up
  <2>1. SUFFICES ASSUME number + 1 <= up PROVE FALSE
    BY <1>3
  <2>2. ratio * (number + 1) <= ratio * up /\ ratio * (number + 1) = ratio * number + ratio
        /\ ratio * number \in Nat
    BY <1>3, <2>1, ProductMonotone
  <2>3. QED
    BY <1>1, <1>4, <1>5, <1>6, <2>2
<1>7. DivValueCeil(ratio, value) = up
  BY DEF DivValueCeil
<1>8. QED
  BY <1>3, <1>5, <1>6, <1>7

-----------------------------------------------------------------------------
\* Only validated parameters are ever stored or scheduled.
ParamsOK ==
    /\ \A n \in Netuids : netuid_params[n] # None => ValidParams(netuid_params[n])
    /\ ValidGlobals(global_params)

\* Bids of an auction that is not finalized have not been paid back.
BidsHeld ==
    \A a \in Unfinalized : \A b \in BidsOf(a) : ~auction_bids[<<a, b>>].is_withdrawn

\* The next number of an owner is not in use.
VaultsNumbered ==
    \A key \in VaultKeys : vaults[key] # None => key[2] < vault_count[key[1]]

LiquidationInv ==
    /\ BidsHeld
    /\ MarkerMatchesAuction
    /\ OpenAuctionIsMarked
    /\ LiquidationCountExact
    /\ NoUnbackedDebt

VaultInv ==
    /\ TokenTypeOK
    /\ VaultTypeOK
    /\ AuctionInv
    /\ ParamsOK
    /\ VaultsNumbered
    /\ LiquidationInv

----------------------------------------------------------------------------
(* Arithmetic of the risk checks. *)

LEMMA MinOfTwo ==
    ASSUME NEW x \in Nat, NEW y \in Nat
    PROVE  /\ Min({x, y}) \in {x, y}
           /\ Min({x, y}) <= x /\ Min({x, y}) <= y
<1>1. \E m \in {x, y} : \A z \in {x, y} : m <= z
  <2>1. CASE x <= y
    BY <2>1
  <2>2. CASE y <= x
    BY <2>2
  <2>3. QED
    BY <2>1, <2>2
<1>2. QED
  BY <1>1 DEF Min

LEMMA ConstantTypes ==
    /\ MaxRatio \in Nat /\ MinimumBalance \in Nat /\ MaxNative \in Nat /\ MaxStake \in Nat
    /\ TimelockMs \in Nat
    /\ Owners \subseteq Accounts /\ Signers \subseteq Accounts /\ RoleChoices \subseteq Accounts
    /\ VaultContract \in Accounts /\ Treasury \in Accounts /\ Deployer \in Accounts
    /\ AlphaAmounts \subseteq Balance /\ DebtAmounts \subseteq Balance
    /\ TaoReceipts \subseteq Balance /\ Prices \subseteq Nat /\ ChainAmounts \subseteq Nat
    /\ Balance \subseteq Nat
    /\ None \notin VaultRecord /\ None \notin Params
    /\ IsFiniteSet(VaultKeys)
  BY VaultConstants, MaxBalanceAssumption DEF Signers, Users, Balance

LEMMA ParamsAreValid ==
    ASSUME VaultTypeOK, ParamsOK, NEW n \in Netuids
    PROVE  ParamsOf(n) \in Params /\ ValidParams(ParamsOf(n))
  BY VaultConstants DEF VaultTypeOK, ParamTypeOK, ParamsOK, ParamsOf

LEMMA ValidRatios ==
    ASSUME NEW p \in Params, ValidParams(p)
    PROVE  /\ p.collateral_ratio \in Nat \ {0}
           /\ p.liquidation_ratio \in Nat \ {0}
           /\ p.liquidation_fee \in Nat
           /\ p.liquidation_ratio < p.collateral_ratio
  BY RatioOneAssumption, VaultConstants DEF Params, RatioValue, ValidParams

LEMMA LimitTypes ==
    ASSUME VaultTypeOK, ParamsOK, NEW n \in Netuids, NEW price \in Nat, NEW collateral \in Nat
    PROVE  /\ CollateralValue(price, collateral) \in Nat
           /\ MaxBorrowAllowed(n, price, collateral) \in Nat
           /\ LiquidationLimit(n, price, collateral) \in Nat
           /\ MaxBorrowAllowed(n, price, collateral) <= LiquidationLimit(n, price, collateral)
<1> DEFINE value == CollateralValue(price, collateral)
           p == ParamsOf(n)
<1>1. value \in Nat
  BY MulValueType DEF CollateralValue
<1>2. /\ p.collateral_ratio \in Nat \ {0}
      /\ p.liquidation_ratio \in Nat \ {0}
      /\ p.liquidation_ratio <= p.collateral_ratio
  BY ParamsAreValid, ValidRatios
<1> HIDE DEF value, p
<1>3. DivValue(p.collateral_ratio, value) <= DivValue(p.liquidation_ratio, value)
  BY <1>1, <1>2, DivValueAntitone
<1>4. DivValue(p.collateral_ratio, value) \in Nat /\ DivValue(p.liquidation_ratio, value) \in Nat
  BY <1>1, <1>2, DivValueIsFloor
<1>5. QED
  BY <1>1, <1>3, <1>4 DEF MaxBorrowAllowed, LiquidationLimit, value, p

\* Nothing may be borrowed against nothing.
LEMMA NothingOnNoCollateral ==
    ASSUME VaultTypeOK, ParamsOK, NEW n \in Netuids, NEW price \in Nat
    PROVE  MaxBorrowAllowed(n, price, 0) = 0
<1> DEFINE r == ParamsOf(n).collateral_ratio
<1>1. r \in Nat \ {0}
  BY ParamsAreValid, ValidRatios
<1>2. CollateralValue(price, 0) = 0
  BY RatioOneAssumption DEF CollateralValue, MulValue
<1>3. DivValue(r, 0) = 0
  BY <1>1, RatioOneAssumption DEF DivValue
<1>4. QED
  BY <1>2, <1>3 DEF MaxBorrowAllowed

LEMMA MinBidCoversDebt ==
    ASSUME VaultTypeOK, ParamsOK, NEW n \in Netuids, NEW debt \in Nat
    PROVE  LiquidationMinBid(n, debt) \in Nat /\ LiquidationMinBid(n, debt) >= debt
<1>1. MulValue(ParamsOf(n).liquidation_fee, debt) \in Nat
  BY ParamsAreValid, ValidRatios, MulValueType
<1>2. QED
  BY <1>1 DEF LiquidationMinBid

----------------------------------------------------------------------------
(* What an action that writes only part of the state keeps. *)

LEMMA QuietAdmin ==
    ASSUME AdminTypeOK, UNCHANGED adminVars PROVE AdminTypeOK'
  BY DEF AdminTypeOK, adminVars

LEMMA QuietParams ==
    ASSUME ParamTypeOK, ParamsOK, UNCHANGED paramVars PROVE ParamTypeOK' /\ ParamsOK'
  BY DEF ParamTypeOK, ParamsOK, ValidParams, ValidGlobals, paramVars

LEMMA QuietBookkeeping ==
    ASSUME BookkeepingTypeOK, UNCHANGED bookkeepingVars PROVE BookkeepingTypeOK'
  BY DEF BookkeepingTypeOK, bookkeepingVars

LEMMA QuietLiquidationTypes ==
    ASSUME LiquidationTypeOK, UNCHANGED liquidationVars PROVE LiquidationTypeOK'
  BY DEF LiquidationTypeOK, liquidationVars

LEMMA QuietCustody ==
    ASSUME CustodyTypeOK, UNCHANGED custodyVars PROVE CustodyTypeOK'
  BY DEF CustodyTypeOK, custodyVars

LEMMA QuietToken ==
    ASSUME TokenTypeOK, UNCHANGED tokenVars PROVE TokenTypeOK'
  BY DEF TokenTypeOK, tokenVars

LEMMA QuietVault ==
    ASSUME VaultTypeOK, ParamsOK, UNCHANGED vaultVars PROVE VaultTypeOK' /\ ParamsOK'
  BY QuietAdmin, QuietParams, QuietBookkeeping, QuietLiquidationTypes, QuietCustody
     DEF VaultTypeOK, vaultVars

\* The liquidation invariant reads four variables.
LEMMA QuietLiquidation ==
    ASSUME LiquidationInv, UNCHANGED <<vaults, liquidationVars, auctions, auction_bids>>
    PROVE  LiquidationInv'
<1>1. /\ InLiquidation' = InLiquidation
      /\ Vaults' = Vaults
      /\ Unfinalized' = Unfinalized
  BY DEF InLiquidation, Vaults, Unfinalized, Opened, liquidationVars
<1>2. \A a : BidsOf(a)' = BidsOf(a)
  BY DEF BidsOf
<1>3. BidsHeld' /\ OpenAuctionIsMarked' /\ LiquidationCountExact' /\ NoUnbackedDebt'
  BY <1>1, <1>2 DEF LiquidationInv, BidsHeld, OpenAuctionIsMarked, LiquidationCountExact,
                    NoUnbackedDebt, liquidationVars
<1>4. MarkerMatchesAuction'
  BY <1>1, <1>2
     DEF LiquidationInv, MarkerMatchesAuction, SellsVault, WinningBidHeld, liquidationVars
<1>5. QED
  BY <1>3, <1>4 DEF LiquidationInv

----------------------------------------------------------------------------
(* The helpers of the vault's messages. *)

LEMMA NumberedAfterSave ==
    ASSUME VaultsNumbered, NEW key \in VaultKeys,
           \A k \in VaultKeys : k # key => vaults'[k] = vaults[k],
           vault_count \in [Owners -> Nat], vault_count' \in [Owners -> Nat],
           \A o \in Owners : vault_count[o] <= vault_count'[o],
           key[2] < vault_count'[key[1]]
    PROVE  VaultsNumbered'
<1> SUFFICES ASSUME NEW k \in VaultKeys, k # key, vaults'[k] # None
             PROVE  k[2] < vault_count'[k[1]]
  BY DEF VaultsNumbered
<1>1. k[1] \in Owners /\ k[2] \in Nat
  BY VaultConstants DEF VaultKeys
<1>2. k[2] < vault_count[k[1]]
  BY DEF VaultsNumbered
<1>3. QED
  BY <1>1, <1>2

LEMMA SavedVault ==
    ASSUME BookkeepingTypeOK, NEW key \in VaultKeys, NEW vault \in VaultRecord,
           SaveVault(key, vault)
    PROVE  /\ vaults' \in [VaultKeys -> VaultRecord \cup {None}]
           /\ \A k \in VaultKeys : vaults'[k] = IF k = key THEN vault ELSE vaults[k]
           /\ owner_total_debt' \in [Owners -> Balance]
<1> DEFINE previous == IF vaults[key] = None THEN 0 ELSE vaults[key].borrowed_token_balance
           owner == key[1]
           total == owner_total_debt[owner] - previous + vault.borrowed_token_balance
<1>1. /\ owner_total_debt[owner] >= previous
      /\ total <= MaxBalance
      /\ owner_total_debt' = [owner_total_debt EXCEPT ![owner] = total]
      /\ vaults' = [vaults EXCEPT ![key] = vault]
  BY DEF SaveVault
<1>2. owner \in Owners
  BY DEF VaultKeys
<1>3. previous \in Nat
  BY ConstantTypes DEF BookkeepingTypeOK, VaultRecord
<1>4. owner_total_debt[owner] \in Nat /\ vault.borrowed_token_balance \in Nat
  BY <1>2, ConstantTypes DEF BookkeepingTypeOK, VaultRecord
<1> HIDE DEF previous
<1>5. total \in Balance
  BY <1>1, <1>3, <1>4, MaxBalanceAssumption DEF Balance
<1>6. QED
  BY <1>1, <1>2, <1>5 DEF BookkeepingTypeOK

LEMMA TotalsTypes ==
    ASSUME BookkeepingTypeOK, NEW n \in Netuids, NEW amount \in Balance,
           AddToTotals(n, amount) \/ TakeFromTotals(n, amount)
    PROVE  /\ total_collateral_balance' \in Balance
           /\ netuid_total_collateral' \in [Netuids -> Balance]
<1>1. total_collateral_balance \in Balance /\ netuid_total_collateral \in [Netuids -> Balance]
  BY DEF BookkeepingTypeOK
<1>2. CASE AddToTotals(n, amount)
  BY <1>1, <1>2, MaxBalanceAssumption DEF AddToTotals, Balance
<1>3. CASE TakeFromTotals(n, amount)
  BY <1>1, <1>3, MaxBalanceAssumption DEF TakeFromTotals, Balance
<1>4. QED
  BY <1>2, <1>3

LEMMA StakeTypes ==
    ASSUME CustodyTypeOK, NEW n \in Netuids, NEW amount \in Balance,
           StakeIn(n, amount) \/ StakeOut(n, amount)
    PROVE  stake' \in [Hotkeys \X Netuids -> 0 .. MaxStake]
<1>1. /\ stake \in [Hotkeys \X Netuids -> 0 .. MaxStake]
      /\ <<vault_hotkey, n>> \in Hotkeys \X Netuids
      /\ amount \in Nat
  BY ConstantTypes DEF CustodyTypeOK
<1>2. stake[<<vault_hotkey, n>>] \in 0 .. MaxStake
  BY <1>1
<1>3. CASE StakeIn(n, amount)
  <2>1. stake[<<vault_hotkey, n>>] + amount \in 0 .. MaxStake
    BY <1>1, <1>2, <1>3, ConstantTypes DEF StakeIn
  <2>2. QED
    BY <1>1, <1>3, <2>1 DEF StakeIn
<1>4. CASE StakeOut(n, amount)
  <2>1. stake[<<vault_hotkey, n>>] - amount \in 0 .. MaxStake
    BY <1>1, <1>2, <1>4, ConstantTypes DEF StakeOut
  <2>2. QED
    BY <1>1, <1>4, <2>1 DEF StakeOut
<1>5. QED
  BY <1>3, <1>4

\* A message that saves one vault outside liquidation, with collateral behind its
\* debt, keeps the liquidation invariant.
LEMMA SavingKeepsLiquidation ==
    ASSUME VaultTypeOK, LiquidationInv, NEW key \in VaultKeys, NEW vault \in VaultRecord,
           SaveVault(key, vault), liquidation_auctions[key] = None,
           vault.borrowed_token_balance > 0 => vault.collateral_balance > 0,
           UNCHANGED <<liquidationVars, auctions, auction_bids>>
    PROVE  LiquidationInv'
<1>1. \A k \in VaultKeys : vaults'[k] = IF k = key THEN vault ELSE vaults[k]
  BY SavedVault DEF VaultTypeOK
<1>2. /\ InLiquidation' = InLiquidation
      /\ Unfinalized' = Unfinalized
      /\ key \notin InLiquidation
      /\ InLiquidation \subseteq VaultKeys
  BY DEF InLiquidation, Unfinalized, Opened, liquidationVars
<1>3. Vaults' = Vaults \cup {key}
  BY <1>1, ConstantTypes DEF Vaults
<1>4. \A a : BidsOf(a)' = BidsOf(a)
  BY DEF BidsOf
<1>5. BidsHeld' /\ OpenAuctionIsMarked' /\ LiquidationCountExact'
  BY <1>2, <1>4 DEF LiquidationInv, BidsHeld, OpenAuctionIsMarked, LiquidationCountExact,
                    liquidationVars
<1>6. MarkerMatchesAuction'
  BY <1>1, <1>2, <1>4
     DEF LiquidationInv, MarkerMatchesAuction, SellsVault, WinningBidHeld, liquidationVars
<1>7. NoUnbackedDebt'
  BY <1>1, <1>2, <1>3 DEF LiquidationInv, NoUnbackedDebt, Vaults
<1>8. QED
  BY <1>5, <1>6, <1>7 DEF LiquidationInv

\* What every message on a vault outside liquidation has in common.
LEMMA SavingKeepsInv ==
    ASSUME VaultInv, NEW key \in VaultKeys, NEW vault \in VaultRecord,
           SaveVault(key, vault), liquidation_auctions[key] = None,
           vault.borrowed_token_balance > 0 => vault.collateral_balance > 0,
           vault_count' \in [Owners -> Nat],
           \A o \in Owners : vault_count[o] <= vault_count'[o],
           key[2] < vault_count'[key[1]],
           total_collateral_balance' \in Balance,
           netuid_total_collateral' \in [Netuids -> Balance],
           stake' \in [Hotkeys \X Netuids -> 0 .. MaxStake],
           TokenTypeOK',
           UNCHANGED <<adminVars, paramVars, liquidationVars, vault_hotkey, native, auctionVars>>
    PROVE  VaultInv'
<1>1. /\ BookkeepingTypeOK
      /\ \A k \in VaultKeys : vaults'[k] = IF k = key THEN vault ELSE vaults[k]
      /\ vaults' \in [VaultKeys -> VaultRecord \cup {None}]
      /\ owner_total_debt' \in [Owners -> Balance]
  BY SavedVault DEF VaultInv, VaultTypeOK
<1>2. BookkeepingTypeOK'
  BY <1>1 DEF BookkeepingTypeOK
<1>3. CustodyTypeOK'
  BY DEF VaultInv, VaultTypeOK, CustodyTypeOK
<1>4. VaultTypeOK' /\ ParamsOK'
  BY <1>2, <1>3, QuietAdmin, QuietParams, QuietLiquidationTypes DEF VaultInv, VaultTypeOK
<1>5. VaultsNumbered'
  BY <1>1, NumberedAfterSave DEF VaultInv, BookkeepingTypeOK
<1>6. AuctionInv'
  BY QuietKeepsInv DEF VaultInv
<1>7. LiquidationInv'
  BY SavingKeepsLiquidation DEF VaultInv, auctionVars, bookVars
<1>8. QED
  BY <1>4, <1>5, <1>6, <1>7 DEF VaultInv

----------------------------------------------------------------------------
(* The messages of a vault that is not in liquidation. *)

LEMMA VaultParts ==
    ASSUME VaultInv
    PROVE  /\ TokenTypeOK /\ AuctionInv /\ VaultTypeOK /\ ParamsOK /\ LiquidationInv
           /\ VaultsNumbered /\ BookkeepingTypeOK /\ CustodyTypeOK /\ LiquidationTypeOK
           /\ ParamTypeOK /\ AdminTypeOK
           /\ vault_count \in [Owners -> Nat]
           /\ total_collateral_balance \in Balance
           /\ netuid_total_collateral \in [Netuids -> Balance]
           /\ stake \in [Hotkeys \X Netuids -> 0 .. MaxStake]
  BY DEF VaultInv, VaultTypeOK, BookkeepingTypeOK, CustodyTypeOK

LEMMA UsableVaultRecord ==
    ASSUME VaultInv, NEW key \in VaultKeys, UsableVault(key)
    PROVE  /\ vaults[key] \in VaultRecord
           /\ vaults[key].netuid \in Netuids
           /\ vaults[key].collateral_balance \in Nat
           /\ vaults[key].collateral_balance \in Balance
           /\ vaults[key].borrowed_token_balance \in Nat
           /\ liquidation_auctions[key] = None
           /\ key[1] \in Accounts
           /\ key[2] < vault_count[key[1]]
           /\ key \in Vaults \ InLiquidation
           /\ vaults[key].borrowed_token_balance > 0 => vaults[key].collateral_balance > 0
<1>1. vaults[key] \in VaultRecord /\ liquidation_auctions[key] = None /\ vaults[key] # None
  BY DEF UsableVault, VaultInv, VaultTypeOK, BookkeepingTypeOK
<1>2. key \in Vaults \ InLiquidation
  BY <1>1 DEF Vaults, InLiquidation
<1>3. vaults[key].borrowed_token_balance > 0 => vaults[key].collateral_balance > 0
  BY <1>2 DEF VaultInv, LiquidationInv, NoUnbackedDebt
<1>4. key[2] < vault_count[key[1]]
  BY <1>1 DEF VaultInv, VaultsNumbered
<1>5. key[1] \in Accounts
  BY ConstantTypes DEF VaultKeys
<1>6. QED
  BY <1>1, <1>2, <1>3, <1>4, <1>5, ConstantTypes DEF VaultRecord

\* A message on a usable vault gives no vault a new number.
LEMMA UsableKeepsNumbers ==
    ASSUME VaultInv, NEW key \in VaultKeys, UsableVault(key), UNCHANGED vault_count
    PROVE  /\ vault_count' \in [Owners -> Nat]
           /\ \A o \in Owners : vault_count[o] <= vault_count'[o]
           /\ key[2] < vault_count'[key[1]]
  BY VaultParts, UsableVaultRecord

LEMMA CreateKeepsVaultInv ==
    ASSUME VaultInv, NEW caller \in Owners, NEW amount \in AlphaAmounts, NEW n \in Netuids,
           CreateAlphaVault(caller, amount, n)
    PROVE  VaultInv'
<1> DEFINE id == vault_count[caller]
           new == [netuid |-> n, collateral_balance |-> amount, borrowed_token_balance |-> 0]
<1>1. /\ amount \in Balance /\ amount > 0
      /\ id \in VaultIds
      /\ StakeIn(n, amount)
      /\ SaveVault(<<caller, id>>, new)
      /\ AddToTotals(n, amount)
      /\ vault_count' = [vault_count EXCEPT ![caller] = id + 1]
      /\ UNCHANGED <<adminVars, paramVars, liquidationVars, vault_hotkey, native,
                     auctionVars, tokenVars>>
  BY ConstantTypes DEF CreateAlphaVault
<1> PICK key \in VaultKeys : key = <<caller, id>>
  BY <1>1 DEF VaultKeys
<1>2. new \in VaultRecord /\ new.borrowed_token_balance = 0
  BY <1>1, MaxBalanceAssumption DEF VaultRecord, Balance
<1>3. /\ vault_count' \in [Owners -> Nat]
      /\ \A o \in Owners : vault_count[o] <= vault_count'[o]
      /\ key[2] < vault_count'[key[1]]
  BY <1>1, VaultParts
<1>4. liquidation_auctions[key] = None
  <2>1. SUFFICES ASSUME key \in InLiquidation PROVE FALSE
    BY DEF InLiquidation
  <2>2. vaults[key] # None
    BY <2>1, VaultParts DEF LiquidationInv, MarkerMatchesAuction, SellsVault
  <2>3. key[2] < vault_count[key[1]] /\ key[2] = id /\ key[1] = caller /\ id \in Nat
    BY <2>2, VaultParts DEF VaultsNumbered
  <2>4. QED
    BY <2>3
<1>5. SaveVault(key, new)
  BY <1>1
<1> HIDE DEF new
<1>6. /\ total_collateral_balance' \in Balance
      /\ netuid_total_collateral' \in [Netuids -> Balance]
      /\ stake' \in [Hotkeys \X Netuids -> 0 .. MaxStake]
      /\ TokenTypeOK'
  BY <1>1, VaultParts, TotalsTypes, StakeTypes, QuietToken
<1>7. QED
  BY <1>1, <1>2, <1>3, <1>4, <1>5, <1>6, SavingKeepsInv

LEMMA AddKeepsVaultInv ==
    ASSUME VaultInv, NEW key \in VaultKeys, NEW amount \in AlphaAmounts,
           AddAlphaCollateral(key, amount)
    PROVE  VaultInv'
<1> DEFINE vault == vaults[key]
           new == [vault EXCEPT !.collateral_balance = @ + amount]
<1>1. /\ UsableVault(key)
      /\ amount \in Balance /\ amount \in Nat /\ amount > 0
      /\ vault.collateral_balance + amount <= MaxBalance
      /\ StakeIn(vault.netuid, amount)
      /\ AddToTotals(vault.netuid, amount)
      /\ SaveVault(key, new)
      /\ UNCHANGED <<adminVars, paramVars, vault_count, liquidationVars, vault_hotkey,
                     native, auctionVars, tokenVars>>
  BY ConstantTypes DEF AddAlphaCollateral
<1>2. new \in VaultRecord /\ new.collateral_balance > 0
  BY <1>1, UsableVaultRecord, MaxBalanceAssumption DEF VaultRecord, Balance
<1> HIDE DEF new
<1>3. /\ total_collateral_balance' \in Balance
      /\ netuid_total_collateral' \in [Netuids -> Balance]
      /\ stake' \in [Hotkeys \X Netuids -> 0 .. MaxStake]
      /\ TokenTypeOK'
  BY <1>1, VaultParts, UsableVaultRecord, TotalsTypes, StakeTypes, QuietToken
<1>4. QED
  BY <1>1, <1>2, <1>3, UsableVaultRecord, UsableKeepsNumbers, SavingKeepsInv

\* Borrowing needs collateral: against none, the limit is zero.
LEMMA BorrowKeepsVaultInv ==
    ASSUME VaultInv, NEW key \in VaultKeys, NEW amount \in DebtAmounts, NEW price \in Prices,
           BorrowToken(key, amount, price)
    PROVE  VaultInv'
<1> DEFINE vault == vaults[key]
           projected == vault.borrowed_token_balance + amount
           new == [vault EXCEPT !.borrowed_token_balance = projected]
           limit == MaxBorrowAllowed(vault.netuid, price, vault.collateral_balance)
<1>1. /\ UsableVault(key)
      /\ amount \in Nat /\ amount > 0
      /\ Priced(price, vault.collateral_balance)
      /\ projected <= limit
      /\ SaveVault(key, new)
      /\ Mint(VaultContract, key[1], amount)
      /\ UNCHANGED <<adminVars, paramVars, vault_count, total_collateral_balance,
                     netuid_total_collateral, liquidationVars, custodyVars, auctionVars>>
  BY ConstantTypes DEF BorrowToken
<1>2. /\ vault \in VaultRecord /\ vault.netuid \in Netuids
      /\ vault.collateral_balance \in Nat /\ vault.borrowed_token_balance \in Nat
      /\ price \in Nat
  BY <1>1, UsableVaultRecord, ConstantTypes
<1>3. projected \in Nat /\ projected > 0 /\ limit \in Nat
  BY <1>1, <1>2, VaultParts, LimitTypes
<1>4. vault.collateral_balance > 0
  BY <1>1, <1>2, <1>3, VaultParts, NothingOnNoCollateral
\* What is saved fits a Balance: owner_total_debt, which it is part of, does.
<1>5. projected \in Balance
  <2>1. owner_total_debt[key[1]] - vault.borrowed_token_balance + new.borrowed_token_balance
           <= MaxBalance
    BY <1>1, <1>2, ConstantTypes DEF SaveVault, UsableVault
  <2>2. /\ owner_total_debt[key[1]] >= vault.borrowed_token_balance
        /\ owner_total_debt[key[1]] \in Nat
    BY <1>1, ConstantTypes, VaultParts DEF SaveVault, UsableVault, BookkeepingTypeOK, VaultKeys
  <2>3. new.borrowed_token_balance = projected
    BY <1>2 DEF VaultRecord
  <2>4. QED
    BY <2>1, <2>2, <2>3, <1>2, <1>3, MaxBalanceAssumption DEF Balance
<1>6. new \in VaultRecord /\ new.collateral_balance > 0
  BY <1>2, <1>4, <1>5 DEF VaultRecord
<1> HIDE DEF new
<1>7. TokenTypeOK'
  BY <1>1, VaultParts, UsableVaultRecord, ConstantTypes, MintType
<1>8. /\ total_collateral_balance' \in Balance
      /\ netuid_total_collateral' \in [Netuids -> Balance]
      /\ stake' \in [Hotkeys \X Netuids -> 0 .. MaxStake]
      /\ UNCHANGED <<vault_hotkey, native, vault_count>>
  BY <1>1, VaultParts DEF custodyVars
<1>9. QED
  BY <1>1, <1>6, <1>7, <1>8, UsableVaultRecord, UsableKeepsNumbers, SavingKeepsInv

LEMMA RepayKeepsVaultInv ==
    ASSUME VaultInv, NEW key \in VaultKeys, NEW amount \in DebtAmounts, RepayToken(key, amount)
    PROVE  VaultInv'
<1> DEFINE vault == vaults[key]
           new == [vault EXCEPT !.borrowed_token_balance = @ - amount]
<1>1. /\ UsableVault(key)
      /\ amount \in Nat /\ amount > 0 /\ amount <= vault.borrowed_token_balance
      /\ SaveVault(key, new)
      /\ Burn(VaultContract, key[1], amount)
      /\ UNCHANGED <<adminVars, paramVars, vault_count, total_collateral_balance,
                     netuid_total_collateral, liquidationVars, custodyVars, auctionVars>>
  BY ConstantTypes DEF RepayToken
<1>2. /\ vault \in VaultRecord
      /\ vault.collateral_balance \in Nat /\ vault.borrowed_token_balance \in Nat
      /\ vault.borrowed_token_balance > 0 => vault.collateral_balance > 0
  BY <1>1, UsableVaultRecord
<1>3. /\ new \in VaultRecord
      /\ new.borrowed_token_balance > 0 => new.collateral_balance > 0
  BY <1>1, <1>2, MaxBalanceAssumption DEF VaultRecord, Balance
<1> HIDE DEF new
<1>4. TokenTypeOK'
  BY <1>1, VaultParts, UsableVaultRecord, ConstantTypes, BurnType
<1>5. /\ total_collateral_balance' \in Balance
      /\ netuid_total_collateral' \in [Netuids -> Balance]
      /\ stake' \in [Hotkeys \X Netuids -> 0 .. MaxStake]
      /\ UNCHANGED <<vault_hotkey, native, vault_count>>
  BY <1>1, VaultParts DEF custodyVars
<1>6. QED
  BY <1>1, <1>3, <1>4, <1>5, UsableVaultRecord, UsableKeepsNumbers, SavingKeepsInv

\* The last of the collateral only leaves a vault that owes nothing.
LEMMA ReleaseKeepsVaultInv ==
    ASSUME VaultInv, NEW key \in VaultKeys, NEW amount \in AlphaAmounts, NEW price \in Prices,
           ReleaseAlphaCollateral(key, amount, price)
    PROVE  VaultInv'
<1> DEFINE vault == vaults[key]
           remaining == vault.collateral_balance - amount
           new == [vault EXCEPT !.collateral_balance = @ - amount]
<1>1. /\ UsableVault(key)
      /\ amount \in Balance /\ amount \in Nat
      /\ vault.collateral_balance >= amount
      /\ vault.borrowed_token_balance > 0 => DebtStaysCovered(vault, amount, price)
      /\ StakeOut(vault.netuid, amount)
      /\ TakeFromTotals(vault.netuid, amount)
      /\ SaveVault(key, new)
      /\ UNCHANGED <<adminVars, paramVars, vault_count, liquidationVars, vault_hotkey,
                     native, auctionVars, tokenVars>>
  BY ConstantTypes DEF ReleaseAlphaCollateral
<1>2. /\ vault \in VaultRecord /\ vault.netuid \in Netuids
      /\ vault.collateral_balance \in Balance
      /\ vault.collateral_balance \in Nat /\ vault.borrowed_token_balance \in Nat
      /\ price \in Nat
  BY <1>1, UsableVaultRecord, ConstantTypes
<1>3. remaining \in Nat /\ remaining \in Balance
  BY <1>1, <1>2, MaxBalanceAssumption DEF Balance
<1>4. /\ new \in VaultRecord
      /\ new.borrowed_token_balance = vault.borrowed_token_balance
      /\ new.collateral_balance = remaining
  BY <1>2, <1>3 DEF VaultRecord
<1> HIDE DEF new
<1>5. vault.borrowed_token_balance > 0 => remaining > 0
  <2>1. SUFFICES ASSUME vault.borrowed_token_balance > 0, remaining = 0 PROVE FALSE
    BY <1>3
  <2>2. vault.borrowed_token_balance <= MaxBorrowAllowed(vault.netuid, price, 0)
    BY <2>1, <1>1 DEF DebtStaysCovered
  <2>3. QED
    BY <2>1, <2>2, <1>2, VaultParts, NothingOnNoCollateral
<1>6. /\ total_collateral_balance' \in Balance
      /\ netuid_total_collateral' \in [Netuids -> Balance]
      /\ stake' \in [Hotkeys \X Netuids -> 0 .. MaxStake]
      /\ TokenTypeOK'
  BY <1>1, <1>2, VaultParts, TotalsTypes, StakeTypes, QuietToken
<1>7. QED
  BY <1>1, <1>4, <1>5, <1>6, UsableVaultRecord, UsableKeepsNumbers, SavingKeepsInv

----------------------------------------------------------------------------
(* Liquidation. *)

\* What the vault of a new auction and the others look like afterwards.
LEMMA TriggeredLiquidation ==
    ASSUME VaultInv, NEW key \in VaultKeys, UsableVault(key), NEW a \in AuctionIds,
           a \notin Opened,
           Opened' = Opened \cup {a}, Unfinalized' = Unfinalized \cup {a},
           \A c \in Opened : auctions'[c] = auctions[c],
           auctions'[a] \in AuctionRecord,
           auctions'[a].vault = key, auctions'[a].highest_bid_id = None,
           auctions'[a].debt_balance = vaults[key].borrowed_token_balance,
           auctions'[a].debt_balance > 0,
           auctions'[a].min_bid >= auctions'[a].debt_balance,
           \A k \in VaultKeys : k # key => vaults'[k] = vaults[k],
           vaults'[key] \in VaultRecord, vaults'[key].collateral_balance = 0,
           vaults'[key].borrowed_token_balance = vaults[key].borrowed_token_balance,
           EnterLiquidation(key, a), UNCHANGED auction_bids
    PROVE  LiquidationInv'
<1>1. /\ LiquidationInv /\ LiquidationTypeOK /\ AuctionInv
      /\ None \notin AuctionIds
      /\ key \in Vaults \ InLiquidation
  BY VaultParts, UsableVaultRecord, NoneAssumption
<1>2. \A k \in VaultKeys :
         liquidation_auctions'[k] = IF k = key THEN a ELSE liquidation_auctions[k]
  BY <1>1 DEF EnterLiquidation, LiquidationTypeOK
<1>3. InLiquidation' = InLiquidation \cup {key}
  BY <1>1, <1>2 DEF InLiquidation
<1>4. Vaults' = Vaults
  BY <1>1, ConstantTypes DEF Vaults
<1>5. \A c : BidsOf(c)' = BidsOf(c)
  BY DEF BidsOf
<1>6. BidsOf(a) = {}
  BY <1>1 DEF AuctionInv, BookOK, BidsOf, Opened
<1>7. BidsHeld'
  BY <1>1, <1>5, <1>6 DEF LiquidationInv, BidsHeld
<1>8. MarkerMatchesAuction'
  <2> SUFFICES ASSUME NEW k \in VaultKeys, NEW m \in AuctionIds,
                      k \in InLiquidation', m = liquidation_auctions'[k]
               PROVE  SellsVault(m, k)'
    BY <1>1, <1>2 DEF MarkerMatchesAuction, InLiquidation, LiquidationTypeOK
  <2>1. CASE k = key
    BY <2>1, <1>2, <1>6, NoneAssumption, ConstantTypes DEF BidsOf, SellsVault, WinningBidHeld
  <2>2. CASE k # key
    <3>1. k \in InLiquidation /\ m = liquidation_auctions[k]
      BY <2>2, <1>2, <1>3
    <3>2. SellsVault(m, k)
      BY <3>1, <1>1 DEF LiquidationInv, MarkerMatchesAuction
    <3>3. m \in Opened /\ auctions'[m] = auctions[m] /\ vaults'[k] = vaults[k]
      BY <3>2, <2>2 DEF SellsVault, Opened
    <3>4. QED
      BY <3>2, <3>3, <1>5 DEF SellsVault, WinningBidHeld
  <2>3. QED
    BY <2>1, <2>2
<1>9. OpenAuctionIsMarked'
  <2> SUFFICES ASSUME NEW c \in Unfinalized'
               PROVE  liquidation_auctions'[auctions'[c].vault] = c
    BY DEF OpenAuctionIsMarked
  <2>1. CASE c = a
    BY <2>1, <1>2
  <2>2. CASE c # a
    <3>1. c \in Unfinalized /\ c \in Opened /\ c \in AuctionIds /\ auctions'[c] = auctions[c]
      BY <2>2 DEF Unfinalized, Opened
    <3>2. auctions[c].vault \in VaultKeys
      BY <3>1, <1>1 DEF AuctionInv, AuctionTypeOK, AuctionRecord, Opened
    <3>3. liquidation_auctions[auctions[c].vault] = c
      BY <3>1, <1>1 DEF LiquidationInv, OpenAuctionIsMarked
    <3>4. auctions[c].vault # key
      BY <3>1, <3>3, <1>1 DEF InLiquidation
    <3>5. QED
      BY <3>1, <3>2, <3>3, <3>4, <1>2
  <2>3. QED
    BY <2>1, <2>2
<1>10. LiquidationCountExact'
  <2>1. IsFiniteSet(InLiquidation)
    BY ConstantTypes, FS_Subset DEF InLiquidation
  <2>2. Cardinality(InLiquidation \cup {key}) = Cardinality(InLiquidation) + 1
    BY <2>1, <1>1, FS_AddElement
  <2>3. QED
    BY <2>2, <1>1, <1>3 DEF LiquidationInv, LiquidationCountExact, EnterLiquidation
<1>11. NoUnbackedDebt'
  BY <1>1, <1>3, <1>4 DEF LiquidationInv, NoUnbackedDebt, Vaults
<1>12. QED
  BY <1>7, <1>8, <1>9, <1>10, <1>11 DEF LiquidationInv

\* Liquidating a vault sells exactly its debt, for at least its debt.
LEMMA TriggerKeepsVaultInv ==
    ASSUME VaultInv, NEW key \in VaultKeys, NEW price \in Prices, NEW tao \in TaoReceipts,
           TriggerLiquidationAuction(key, price, tao)
    PROVE  VaultInv'
<1> DEFINE vault == vaults[key]
           debt == vault.borrowed_token_balance
           min_bid == LiquidationMinBid(vault.netuid, debt)
           duration == global_params.auction_duration_ms
           new == [vault EXCEPT !.collateral_balance = 0]
<1>1. /\ UsableVault(key)
      /\ IsLiquidatable(price, vault)
      /\ StakeOut(vault.netuid, vault.collateral_balance)
      /\ tao \in Balance /\ tao \in Nat
      /\ native + tao <= MaxNative
      /\ native' = native + tao
      /\ TakeFromTotals(vault.netuid, vault.collateral_balance)
      /\ SaveVault(key, new)
      /\ min_bid <= MaxBalance
      /\ CreateAuction(VaultContract, key, tao, debt, min_bid, duration)
      /\ EnterLiquidation(key, auction_count)
      /\ UNCHANGED <<adminVars, paramVars, vault_count, vault_hotkey, tokenVars>>
  BY ConstantTypes DEF TriggerLiquidationAuction
<1>2. /\ vault \in VaultRecord /\ vault.netuid \in Netuids
      /\ vault.collateral_balance \in Balance /\ vault.collateral_balance \in Nat
      /\ debt \in Nat /\ debt \in Balance
      /\ key[2] < vault_count[key[1]]
  BY <1>1, UsableVaultRecord DEF VaultRecord
<1>3. /\ new \in VaultRecord
      /\ new.collateral_balance = 0
      /\ new.borrowed_token_balance = debt
  BY <1>2, MaxBalanceAssumption DEF VaultRecord, Balance
<1>4. debt > 0
  <2>1. LiquidationLimit(vault.netuid, price, vault.collateral_balance) \in Nat
    BY <1>2, VaultParts, LimitTypes, ConstantTypes
  <2>2. QED
    BY <2>1, <1>1, <1>2 DEF IsLiquidatable
<1>5. min_bid \in Nat /\ min_bid >= debt /\ min_bid > 0 /\ min_bid \in Balance
  <2>1. min_bid \in Nat /\ min_bid >= debt
    BY <1>2, VaultParts, MinBidCoversDebt
  <2>2. QED
    BY <2>1, <1>1, <1>2, <1>4, MaxBalanceAssumption DEF Balance
<1>6. duration \in Nat
  BY VaultParts DEF ParamTypeOK, Globals
<1> HIDE DEF min_bid, duration, new
<1>7. AuctionInv'
  BY <1>1, <1>2, <1>5, <1>6, VaultParts, CreateKeepsInv
<1> PICK a \in AuctionIds : a = auction_count
  BY <1>1, <1>2, <1>5, <1>6, VaultParts, CreatedRecord
<1>8. /\ a \notin Opened
      /\ Opened' = Opened \cup {a}
      /\ Unfinalized' = Unfinalized \cup {a}
      /\ \A c \in Opened : auctions'[c] = auctions[c]
      /\ auctions'[a] = [vault |-> key, collateral_balance |-> tao,
                         debt_balance |-> debt, min_bid |-> min_bid,
                         ends_at |-> now + duration,
                         highest_bidder |-> None, highest_bid |-> 0, highest_bid_id |-> None,
                         bid_count |-> 0, is_finalized |-> FALSE]
  <2>1. AuctionInv /\ CreateAuction(VaultContract, key, tao, debt, min_bid, duration)
    BY <1>1, VaultParts
  <2>2. /\ auction_count \notin Opened
        /\ Opened' = Opened \cup {auction_count}
        /\ Unfinalized' = Unfinalized \cup {auction_count}
        /\ \A c \in Opened : auctions'[c] = auctions[c]
        /\ auctions'[auction_count] = [vault |-> key, collateral_balance |-> tao,
                         debt_balance |-> debt, min_bid |-> min_bid,
                         ends_at |-> now + duration,
                         highest_bidder |-> None, highest_bid |-> 0, highest_bid_id |-> None,
                         bid_count |-> 0, is_finalized |-> FALSE]
    BY <2>1, <1>1, <1>2, <1>5, <1>6, CreatedRecord
  <2>3. QED
    BY <2>2
<1>9. auctions'[a] \in AuctionRecord
  <2>1. a \in Opened' /\ auctions' \in [AuctionIds -> AuctionRecord \cup {None}]
    BY <1>7, <1>8 DEF AuctionInv, AuctionTypeOK
  <2>2. QED
    BY <2>1 DEF Opened
<1>10. /\ vaults' \in [VaultKeys -> VaultRecord \cup {None}]
       /\ \A k \in VaultKeys : vaults'[k] = IF k = key THEN new ELSE vaults[k]
       /\ owner_total_debt' \in [Owners -> Balance]
  BY <1>1, <1>3, VaultParts, SavedVault
<1>11. BookkeepingTypeOK'
  BY <1>1, <1>2, <1>10, VaultParts, TotalsTypes DEF BookkeepingTypeOK
<1>12. LiquidationTypeOK'
  BY <1>1, VaultParts DEF LiquidationTypeOK, EnterLiquidation
<1>13. CustodyTypeOK'
  <2>1. stake' \in [Hotkeys \X Netuids -> 0 .. MaxStake]
    BY <1>1, <1>2, VaultParts, StakeTypes
  <2>2. native' \in 0 .. MaxNative
    BY <1>1, VaultParts, ConstantTypes DEF CustodyTypeOK
  <2>3. QED
    BY <2>1, <2>2, <1>1, VaultParts DEF CustodyTypeOK
<1>14. VaultTypeOK' /\ ParamsOK'
  BY <1>1, <1>11, <1>12, <1>13, VaultParts, QuietAdmin, QuietParams DEF VaultTypeOK
<1>15. VaultsNumbered'
  BY <1>1, <1>2, <1>10, VaultParts, NumberedAfterSave
<1>16. TokenTypeOK'
  BY <1>1, VaultParts, QuietToken
<1>17. auction_bids' = auction_bids
  BY <1>1 DEF CreateAuction
<1>18. LiquidationInv'
  BY <1>1, <1>3, <1>4, <1>5, <1>8, <1>9, <1>10, <1>17, TriggeredLiquidation
<1>19. QED
  BY <1>7, <1>14, <1>15, <1>16, <1>18 DEF VaultInv

\* The auction that is settled is no other vault's.
LEMMA SettledLiquidation ==
    ASSUME VaultInv, NEW key \in InLiquidation, NEW a \in AuctionIds,
           a = liquidation_auctions[key], auctions[a].is_finalized,
           NEW b \in BidIds, auction_bids[<<a, b>>] # None,
           auction_bids' = [auction_bids EXCEPT ![<<a, b>>].is_withdrawn = TRUE],
           \A k \in VaultKeys : k # key => vaults'[k] = vaults[k],
           vaults'[key] \in VaultRecord, vaults'[key].borrowed_token_balance = 0,
           LeaveLiquidation(key), UNCHANGED auctions
    PROVE  LiquidationInv'
<1>1. /\ LiquidationInv /\ LiquidationTypeOK /\ AuctionInv
      /\ None \notin AuctionIds /\ None \notin BidRecord
      /\ key \in VaultKeys
      /\ SellsVault(a, key)
  BY VaultParts, NoneAssumption DEF InLiquidation, LiquidationInv, MarkerMatchesAuction
<1>2. \A k \in VaultKeys :
         liquidation_auctions'[k] = IF k = key THEN None ELSE liquidation_auctions[k]
  BY <1>1 DEF LeaveLiquidation, LiquidationTypeOK
<1>3. InLiquidation' = InLiquidation \ {key}
  BY <1>1, <1>2 DEF InLiquidation
<1>4. /\ auction_bids \in [AuctionIds \X BidIds -> BidRecord \cup {None}]
      /\ auction_bids[<<a, b>>] \in BidRecord
  BY <1>1 DEF AuctionInv, AuctionTypeOK
<1>5. /\ \A c \in AuctionIds, d \in BidIds :
            c # a => auction_bids'[<<c, d>>] = auction_bids[<<c, d>>]
      /\ \A c \in AuctionIds, d \in BidIds :
            auction_bids'[<<c, d>>] # None <=> auction_bids[<<c, d>>] # None
  <2>1. [auction_bids[<<a, b>>] EXCEPT !.is_withdrawn = TRUE] \in BidRecord
    BY <1>4 DEF BidRecord
  <2>2. QED
    BY <1>1, <1>4, <2>1
<1>6. Opened' = Opened /\ Unfinalized' = Unfinalized /\ a \notin Unfinalized
  BY DEF Opened, Unfinalized
<1>7. \A c \in AuctionIds : BidsOf(c)' = BidsOf(c)
  BY <1>5 DEF BidsOf
<1>8. BidsHeld'
  BY <1>1, <1>5, <1>6, <1>7 DEF LiquidationInv, BidsHeld, Unfinalized, Opened, BidsOf
<1>9. MarkerMatchesAuction'
  <2> SUFFICES ASSUME NEW k \in VaultKeys, NEW m \in AuctionIds,
                      k \in InLiquidation', m = liquidation_auctions'[k]
               PROVE  SellsVault(m, k)'
    BY <1>1, <1>2, <1>3 DEF MarkerMatchesAuction, InLiquidation, LiquidationTypeOK
  <2>1. k \in InLiquidation /\ k # key /\ m = liquidation_auctions[k]
    BY <1>2, <1>3
  <2>2. SellsVault(m, k)
    BY <2>1, <1>1 DEF LiquidationInv, MarkerMatchesAuction
  <2>3. m # a
    BY <2>1, <2>2, <1>1 DEF SellsVault
  <2>4. WinningBidHeld(m)'
    BY <2>2, <2>3, <1>5, <1>7 DEF SellsVault, WinningBidHeld, BidsOf
  <2>5. QED
    BY <2>1, <2>2, <2>4 DEF SellsVault
<1>10. OpenAuctionIsMarked'
  <2> SUFFICES ASSUME NEW c \in Unfinalized
               PROVE  liquidation_auctions'[auctions[c].vault] = c
    BY <1>6 DEF OpenAuctionIsMarked
  <2>1. auctions[c].vault \in VaultKeys
    BY <1>1 DEF AuctionInv, AuctionTypeOK, AuctionRecord, Opened, Unfinalized
  <2>2. liquidation_auctions[auctions[c].vault] = c
    BY <1>1 DEF LiquidationInv, OpenAuctionIsMarked
  <2>3. auctions[c].vault # key
    BY <2>2, <1>6
  <2>4. QED
    BY <2>1, <2>2, <2>3, <1>2
<1>11. LiquidationCountExact'
  <2>1. IsFiniteSet(InLiquidation)
    BY ConstantTypes, FS_Subset DEF InLiquidation
  <2>2. Cardinality(InLiquidation \ {key}) = Cardinality(InLiquidation) - 1
    BY <2>1, FS_RemoveElement
  <2>3. QED
    BY <2>2, <1>1, <1>3 DEF LiquidationInv, LiquidationCountExact, LeaveLiquidation
<1>12. NoUnbackedDebt'
  BY <1>1, <1>3 DEF LiquidationInv, NoUnbackedDebt, Vaults
<1>13. QED
  BY <1>8, <1>9, <1>10, <1>11, <1>12 DEF LiquidationInv

\* The winning bid moves to the vault and the debt it covers is burned.
LEMMA TakeWinningBidType ==
    ASSUME TokenTypeOK, NEW a, WinningBidOf(a) \in Nat, NEW debt_cleared \in Nat,
           TakeWinningBid(a, debt_cleared)
    PROVE  TokenTypeOK'
<1> DEFINE with_bid == Moved(balances, AuctionContract, VaultContract, WinningBidOf(a))
<1>1. /\ CanMove(balances, AuctionContract, VaultContract, WinningBidOf(a))
      /\ with_bid[VaultContract] >= debt_cleared
      /\ total_supply >= debt_cleared
      /\ balances' = Debited(with_bid, VaultContract, debt_cleared)
      /\ total_supply' = total_supply - debt_cleared
      /\ UNCHANGED <<tokenRoles, allowances>>
  BY DEF TakeWinningBid
<1>2. with_bid \in [Accounts -> Balance]
  BY <1>1, MovedType, AuctionConstants, ConstantTypes DEF TokenTypeOK
<1> HIDE DEF with_bid
<1>3. with_bid[VaultContract] - debt_cleared \in Balance
  BY <1>1, <1>2, ConstantTypes, MaxBalanceAssumption DEF Balance
<1>4. balances' \in [Accounts -> Balance]
  BY <1>1, <1>2, <1>3 DEF Debited
<1>5. total_supply' \in Balance
  BY <1>1, MaxBalanceAssumption DEF TokenTypeOK, Balance
<1>6. QED
  BY <1>1, <1>4, <1>5 DEF TokenTypeOK, tokenRoles

\* Settlement clears the whole debt: the vault still owes what the auction sold.
LEMMA SettleKeepsVaultInv ==
    ASSUME VaultInv, NEW key \in VaultKeys, SettleLiquidationAuction(key)
    PROVE  VaultInv'
<1> PICK a \in AuctionIds : a = liquidation_auctions[key]
  BY VaultParts DEF SettleLiquidationAuction, LiquidationTypeOK
<1> DEFINE vault == vaults[key]
           debt_cleared == Min({auctions[a].debt_balance, vault.borrowed_token_balance})
           sold == auctions[a].collateral_balance
           new == [vault EXCEPT !.borrowed_token_balance = @ - debt_cleared]
           b == auctions[a].highest_bid_id
<1>1. /\ a # None
      /\ auctions[a] # None /\ auctions[a].is_finalized
      /\ vault # None
      /\ SaveVault(key, new)
      /\ TakeWinningBid(a, debt_cleared)
      /\ CanSpendNative(sold)
      /\ native' = native - sold
      /\ LeaveLiquidation(key)
      /\ UNCHANGED <<adminVars, paramVars, vault_count, total_collateral_balance,
                     netuid_total_collateral, vault_hotkey, stake, now, rolesVars,
                     auction_count, auctions, auction_bidder_bids, indexVars>>
  BY NoneAssumption DEF SettleLiquidationAuction
<1>2. key \in InLiquidation /\ SellsVault(a, key)
  BY <1>1, VaultParts DEF InLiquidation, LiquidationInv, MarkerMatchesAuction
<1>3. /\ vault \in VaultRecord
      /\ vault.borrowed_token_balance = auctions[a].debt_balance
      /\ vault.borrowed_token_balance \in Nat
      /\ auctions[a] \in AuctionRecord
      /\ sold \in Nat
      /\ key[2] < vault_count[key[1]]
  BY <1>1, <1>2, VaultParts, ConstantTypes
     DEF SellsVault, BookkeepingTypeOK, VaultRecord, AuctionInv, AuctionTypeOK, AuctionRecord,
         VaultsNumbered
<1>4. debt_cleared = vault.borrowed_token_balance
  BY <1>3, MinOfTwo
<1>5. new \in VaultRecord /\ new.borrowed_token_balance = 0
  BY <1>3, <1>4, MaxBalanceAssumption DEF VaultRecord, Balance
<1> HIDE DEF new, debt_cleared
<1>6. /\ WinningBidReady(VaultContract, a) /\ MarkWinningBidPaid(a)
      /\ b \in BidIds /\ auction_bids[<<a, b>>] # None
      /\ auction_bids' = [auction_bids EXCEPT ![<<a, b>>].is_withdrawn = TRUE]
  BY <1>1, <1>3
     DEF TakeWinningBid, WinningBidReady, MarkWinningBidPaid, AuctionRecord
<1>7. WinningBidOf(a) \in Nat
  BY <1>6, VaultParts, ConstantTypes DEF WinningBidOf, AuctionInv, AuctionTypeOK, BidRecord
<1>8. TokenTypeOK'
  BY <1>1, <1>3, <1>4, <1>7, VaultParts, TakeWinningBidType
<1>9. AuctionInv'
  BY <1>1, <1>6, VaultParts, WinningBidKeepsInv
<1>10. /\ vaults' \in [VaultKeys -> VaultRecord \cup {None}]
       /\ \A k \in VaultKeys : vaults'[k] = IF k = key THEN new ELSE vaults[k]
       /\ owner_total_debt' \in [Owners -> Balance]
  BY <1>1, <1>5, VaultParts, SavedVault
<1>11. BookkeepingTypeOK'
  BY <1>1, <1>10, VaultParts DEF BookkeepingTypeOK
<1>12. LiquidationTypeOK'
  BY <1>1, VaultParts DEF LiquidationTypeOK, LeaveLiquidation
<1>13. CustodyTypeOK'
  <2>1. native' \in 0 .. MaxNative
    BY <1>1, <1>3, VaultParts, ConstantTypes DEF CustodyTypeOK, CanSpendNative
  <2>2. QED
    BY <2>1, <1>1, VaultParts DEF CustodyTypeOK
<1>14. VaultTypeOK' /\ ParamsOK'
  BY <1>1, <1>11, <1>12, <1>13, VaultParts, QuietAdmin, QuietParams DEF VaultTypeOK
<1>15. VaultsNumbered'
  BY <1>1, <1>3, <1>10, VaultParts, NumberedAfterSave
<1>16. LiquidationInv'
  BY <1>1, <1>2, <1>5, <1>6, <1>10, SettledLiquidation
<1>17. QED
  BY <1>8, <1>9, <1>14, <1>15, <1>16 DEF VaultInv

----------------------------------------------------------------------------
(* The bidders' messages: they change no vault. *)

\* An auction message keeps the liquidation invariant if it changes neither what an
\* auction sells nor a bid the vault will be paid.
LEMMA BidsKeepLiquidation ==
    ASSUME VaultInv, UNCHANGED <<vaults, liquidationVars>>,
           \A a \in Opened : /\ auctions'[a] # None
                             /\ auctions'[a].vault = auctions[a].vault
                             /\ auctions'[a].debt_balance = auctions[a].debt_balance
                             /\ auctions'[a].min_bid = auctions[a].min_bid,
           Unfinalized' \subseteq Unfinalized,
           BidsHeld',
           \A a \in Opened : WinningBidHeld(a) => WinningBidHeld(a)'
    PROVE  LiquidationInv'
<1>1. LiquidationInv /\ LiquidationTypeOK
  BY VaultParts
<1>2. InLiquidation' = InLiquidation /\ Vaults' = Vaults
  BY DEF InLiquidation, Vaults, liquidationVars
<1>3. MarkerMatchesAuction'
  <2> SUFFICES ASSUME NEW k \in InLiquidation, NEW m \in AuctionIds,
                      m = liquidation_auctions[k]
               PROVE  SellsVault(m, k)'
    BY <1>1, <1>2 DEF MarkerMatchesAuction, InLiquidation, LiquidationTypeOK, liquidationVars
  <2>1. SellsVault(m, k)
    BY <1>1 DEF LiquidationInv, MarkerMatchesAuction
  <2>2. m \in Opened
    BY <2>1 DEF SellsVault, Opened
  <2>3. WinningBidHeld(m)'
    BY <2>1, <2>2 DEF SellsVault
  <2>4. QED
    BY <2>1, <2>2, <2>3 DEF SellsVault
<1>4. OpenAuctionIsMarked'
  BY <1>1 DEF LiquidationInv, OpenAuctionIsMarked, Unfinalized, liquidationVars
<1>5. LiquidationCountExact' /\ NoUnbackedDebt'
  BY <1>1, <1>2 DEF LiquidationInv, LiquidationCountExact, NoUnbackedDebt, liquidationVars
<1>6. QED
  BY <1>3, <1>4, <1>5 DEF LiquidationInv

\* A new bid and a raise write one auction and one bid, which is not paid out.
LEMMA PlacedBid ==
    ASSUME AuctionInv, NEW x \in Accounts, NEW a \in AuctionIds, NEW amount \in Balance,
           PlaceBid(x, a, amount)
    PROVE  /\ a \in Unfinalized
           /\ \E rec \in AuctionRecord, b \in BidIds, bid \in BidRecord :
                /\ auctions' = [auctions EXCEPT ![a] = rec]
                /\ auction_bids' = [auction_bids EXCEPT ![<<a, b>>] = bid]
                /\ rec.vault = auctions[a].vault
                /\ rec.debt_balance = auctions[a].debt_balance
                /\ rec.collateral_balance = auctions[a].collateral_balance
                /\ rec.min_bid = auctions[a].min_bid
                /\ rec.is_finalized = auctions[a].is_finalized
                /\ auction_bids[<<a, b>>] # None /\ ~auction_bids[<<a, b>>].is_withdrawn
                     => ~bid.is_withdrawn
                /\ auction_bids[<<a, b>>] = None => ~bid.is_withdrawn
<1>1. /\ a \in Unfinalized
      /\ auctions[a] \in AuctionRecord
      /\ auction_bids \in [AuctionIds \X BidIds -> BidRecord \cup {None}]
      /\ auction_bidder_bids \in [AuctionIds \X Accounts -> BidIds \cup {None}]
  BY DEF AuctionInv, AuctionTypeOK, PlaceBid, BidAllowed, Unfinalized, Opened
<1>2. CASE NewBid(x, a, amount)
  <2>1. auctions[a].bid_count \in BidIds /\ auctions[a].bid_count + 1 \in 0 .. MaxBids
    BY <1>1, <1>2, AuctionConstants DEF NewBid, AuctionRecord, BidIds
  <2> PICK b \in BidIds : b = auctions[a].bid_count
    BY <2>1
  <2> DEFINE counted == [auctions[a] EXCEPT !.bid_count = @ + 1]
             rec == Leading(counted, x, b, amount)
             bid == [bidder |-> x, amount |-> amount, is_withdrawn |-> FALSE]
  <2>2. /\ counted \in AuctionRecord
        /\ counted.vault = auctions[a].vault
        /\ counted.debt_balance = auctions[a].debt_balance
        /\ counted.collateral_balance = auctions[a].collateral_balance
        /\ counted.min_bid = auctions[a].min_bid
        /\ counted.is_finalized = auctions[a].is_finalized
    BY <1>1, <2>1 DEF AuctionRecord
  <2> HIDE DEF counted
  <2>3. /\ rec \in AuctionRecord
        /\ rec.vault = counted.vault /\ rec.debt_balance = counted.debt_balance
        /\ rec.min_bid = counted.min_bid /\ rec.is_finalized = counted.is_finalized
        /\ rec.collateral_balance = counted.collateral_balance
    BY <2>2, LeadingRecord
  <2>4. bid \in BidRecord /\ ~bid.is_withdrawn
    BY DEF BidRecord
  <2>5. auctions' = [auctions EXCEPT ![a] = rec]
    BY <1>2 DEF NewBid, counted
  <2>6. auction_bids' = [auction_bids EXCEPT ![<<a, b>>] = bid]
    BY <1>2 DEF NewBid
  <2> HIDE DEF rec, bid
  <2>7. QED
    BY <1>1, <2>2, <2>3, <2>4, <2>5, <2>6
<1>3. CASE RaiseBid(x, a, amount)
  <2>1. auction_bidder_bids[<<a, x>>] \in BidIds
    BY <1>1, <1>3 DEF RaiseBid
  <2> PICK b \in BidIds : b = auction_bidder_bids[<<a, x>>]
    BY <2>1
  <2> DEFINE rec == Leading(auctions[a], x, b, amount)
             bid == [auction_bids[<<a, b>>] EXCEPT !.amount = amount]
  <2>2. auction_bids[<<a, b>>] \in BidRecord
    BY <1>1, NoneAssumption DEF AuctionInv, BookOK
  <2>3. /\ rec \in AuctionRecord
        /\ rec.vault = auctions[a].vault /\ rec.debt_balance = auctions[a].debt_balance
        /\ rec.min_bid = auctions[a].min_bid /\ rec.is_finalized = auctions[a].is_finalized
        /\ rec.collateral_balance = auctions[a].collateral_balance
    BY <1>1, LeadingRecord
  <2>4. bid \in BidRecord /\ bid.is_withdrawn = auction_bids[<<a, b>>].is_withdrawn
    BY <2>2 DEF BidRecord
  <2>5. auctions' = [auctions EXCEPT ![a] = rec]
    BY <1>3 DEF RaiseBid
  <2>6. auction_bids' = [auction_bids EXCEPT ![<<a, b>>] = bid]
    BY <1>3 DEF RaiseBid
  <2> HIDE DEF rec, bid
  <2>7. QED
    BY <1>1, <2>2, <2>3, <2>4, <2>5, <2>6, NoneAssumption
<1>4. QED
  BY <1>1, <1>2, <1>3 DEF PlaceBid

LEMMA PlaceBidKeepsLiquidation ==
    ASSUME VaultInv, NEW x \in Accounts, NEW a \in AuctionIds, NEW amount \in Balance,
           PlaceBid(x, a, amount), UNCHANGED vaultVars
    PROVE  LiquidationInv'
<1>1. AuctionInv /\ LiquidationInv
  BY VaultParts
<1>2. a \in Unfinalized /\ auctions[a] # None
  BY <1>1, PlacedBid DEF Unfinalized, Opened
<1> PICK rec \in AuctionRecord, b \in BidIds, bid \in BidRecord :
        /\ auctions' = [auctions EXCEPT ![a] = rec]
        /\ auction_bids' = [auction_bids EXCEPT ![<<a, b>>] = bid]
        /\ rec.vault = auctions[a].vault
        /\ rec.debt_balance = auctions[a].debt_balance
        /\ rec.collateral_balance = auctions[a].collateral_balance
        /\ rec.min_bid = auctions[a].min_bid
        /\ rec.is_finalized = auctions[a].is_finalized
        /\ auction_bids[<<a, b>>] # None /\ ~auction_bids[<<a, b>>].is_withdrawn
             => ~bid.is_withdrawn
        /\ auction_bids[<<a, b>>] = None => ~bid.is_withdrawn
  BY <1>1, PlacedBid
<1>3. /\ auctions \in [AuctionIds -> AuctionRecord \cup {None}]
      /\ auction_bids \in [AuctionIds \X BidIds -> BidRecord \cup {None}]
  BY <1>1 DEF AuctionInv, AuctionTypeOK
<1>4. /\ \A c \in AuctionIds : auctions'[c] = IF c = a THEN rec ELSE auctions[c]
      /\ \A c \in AuctionIds, d \in BidIds :
            auction_bids'[<<c, d>>] = IF c = a /\ d = b THEN bid ELSE auction_bids[<<c, d>>]
  BY <1>3
<1>5. Opened' = Opened /\ Unfinalized' = Unfinalized
  BY <1>2, <1>4, NoneAssumption DEF Opened, Unfinalized
<1>6. BidsHeld'
  <2> SUFFICES ASSUME NEW c \in Unfinalized, NEW d \in BidIds, auction_bids'[<<c, d>>] # None
               PROVE  ~auction_bids'[<<c, d>>].is_withdrawn
    BY <1>5 DEF BidsHeld, BidsOf
  <2>1. c \in AuctionIds
    BY DEF Unfinalized, Opened
  <2>2. auction_bids[<<c, d>>] # None => ~auction_bids[<<c, d>>].is_withdrawn
    BY <1>1 DEF LiquidationInv, BidsHeld, BidsOf
  <2>3. QED
    BY <1>4, <2>1, <2>2
<1>7. \A c \in Opened : WinningBidHeld(c) => WinningBidHeld(c)'
  <2> SUFFICES ASSUME NEW c \in Opened, WinningBidHeld(c) PROVE WinningBidHeld(c)'
    OBVIOUS
  <2>1. CASE c = a
    BY <2>1, <1>2, <1>5, <1>6 DEF BidsHeld, WinningBidHeld
  <2>2. CASE c # a
    <3>1. c \in AuctionIds
      BY DEF Opened
    <3>2. QED
      BY <3>1, <2>2, <1>4 DEF WinningBidHeld, BidsOf
  <2>3. QED
    BY <2>1, <2>2
<1>8. \A c \in Opened : /\ auctions'[c] # None
                        /\ auctions'[c].vault = auctions[c].vault
                        /\ auctions'[c].debt_balance = auctions[c].debt_balance
                        /\ auctions'[c].min_bid = auctions[c].min_bid
  BY <1>4, NoneAssumption DEF Opened
<1>9. QED
  BY <1>5, <1>6, <1>7, <1>8, BidsKeepLiquidation DEF vaultVars, bookkeepingVars

LEMMA FinalizeKeepsLiquidation ==
    ASSUME VaultInv, NEW a \in AuctionIds, FinalizeAuction(a), UNCHANGED vaultVars
    PROVE  LiquidationInv'
<1>1. /\ AuctionInv /\ LiquidationInv
      /\ a \in Opened
      /\ auctions' = [auctions EXCEPT ![a].is_finalized = TRUE]
      /\ auction_bids' = auction_bids
  BY VaultParts DEF FinalizeAuction, Opened
<1>2. Opened' = Opened /\ Unfinalized' \subseteq Unfinalized
  BY <1>1, FinalizedRecord
<1>3. \A c \in Opened : /\ auctions'[c] # None
                        /\ auctions'[c].vault = auctions[c].vault
                        /\ auctions'[c].debt_balance = auctions[c].debt_balance
                        /\ auctions'[c].min_bid = auctions[c].min_bid
                        /\ auctions'[c].highest_bid_id = auctions[c].highest_bid_id
  <2>1. \A c \in Opened : auctions[c] \in AuctionRecord
    BY <1>1 DEF AuctionInv, AuctionTypeOK, Opened
  <2>2. /\ \A c \in Opened : c # a => auctions'[c] = auctions[c]
        /\ auctions'[a] = [auctions[a] EXCEPT !.is_finalized = TRUE]
    BY <1>1 DEF AuctionInv, AuctionTypeOK, Opened
  <2>3. QED
    BY <2>1, <2>2, <1>2 DEF AuctionRecord, Opened
<1>4. \A c : BidsOf(c)' = BidsOf(c)
  BY <1>1 DEF BidsOf
<1>5. BidsHeld'
  BY <1>1, <1>2, <1>4 DEF LiquidationInv, BidsHeld
<1>6. \A c \in Opened : WinningBidHeld(c) => WinningBidHeld(c)'
  BY <1>1, <1>3, <1>4 DEF WinningBidHeld
<1>7. QED
  BY <1>2, <1>3, <1>5, <1>6, BidsKeepLiquidation DEF vaultVars, bookkeepingVars

\* Only losing bids of finalized auctions are refunded.
LEMMA WithdrawKeepsLiquidation ==
    ASSUME VaultInv, NEW caller, NEW a \in AuctionIds, NEW b \in BidIds,
           WithdrawRefund(caller, a, b), UNCHANGED vaultVars
    PROVE  LiquidationInv'
<1>1. /\ AuctionInv /\ LiquidationInv
      /\ auction_bids[<<a, b>>] # None
      /\ auctions[a].is_finalized
      /\ auctions[a].highest_bid_id # b
      /\ auction_bids' = [auction_bids EXCEPT ![<<a, b>>].is_withdrawn = TRUE]
      /\ auctions' = auctions
  BY VaultParts DEF WithdrawRefund, Refundable
<1>2. Opened' = Opened /\ Unfinalized' = Unfinalized /\ a \notin Unfinalized
  BY <1>1 DEF Opened, Unfinalized
<1>3. auction_bids \in [AuctionIds \X BidIds -> BidRecord \cup {None}]
  BY <1>1 DEF AuctionInv, AuctionTypeOK
<1>4. /\ \A c \in AuctionIds, d \in BidIds :
            c # a \/ d # b => auction_bids'[<<c, d>>] = auction_bids[<<c, d>>]
      /\ \A c \in AuctionIds, d \in BidIds :
            auction_bids'[<<c, d>>] # None <=> auction_bids[<<c, d>>] # None
  <2>1. [auction_bids[<<a, b>>] EXCEPT !.is_withdrawn = TRUE] \in BidRecord
    BY <1>1, <1>3 DEF BidRecord
  <2>2. QED
    BY <1>1, <1>3, <2>1, NoneAssumption
<1>5. \A c \in AuctionIds : BidsOf(c)' = BidsOf(c)
  BY <1>4 DEF BidsOf
<1>6. BidsHeld'
  BY <1>1, <1>2, <1>4, <1>5 DEF LiquidationInv, BidsHeld, Unfinalized, Opened, BidsOf
<1>7. \A c \in Opened : WinningBidHeld(c) => WinningBidHeld(c)'
  <2> SUFFICES ASSUME NEW c \in AuctionIds, WinningBidHeld(c) PROVE WinningBidHeld(c)'
    BY DEF Opened
  <2> SUFFICES ASSUME NEW d \in BidsOf(c), auctions[c].highest_bid_id = d
               PROVE  ~auction_bids'[<<c, d>>].is_withdrawn
    BY <1>1, <1>5 DEF WinningBidHeld
  <2>1. ~auction_bids[<<c, d>>].is_withdrawn
    BY DEF WinningBidHeld
  <2>2. c # a \/ d # b
    BY <1>1
  <2>3. QED
    BY <2>1, <2>2, <1>4 DEF BidsOf
<1>8. \A c \in Opened : auctions'[c] # None
  BY <1>1 DEF Opened
<1>9. QED
  BY <1>1, <1>2, <1>6, <1>7, <1>8, BidsKeepLiquidation DEF vaultVars, bookkeepingVars

LEMMA AuctionStepKeepsVaultInv ==
    ASSUME VaultInv, AuctionStep
    PROVE  VaultInv'
<1>1. UNCHANGED vaultVars
  BY DEF AuctionStep
<1>2. VaultTypeOK' /\ ParamsOK' /\ VaultsNumbered'
  BY <1>1, VaultParts, QuietVault DEF VaultsNumbered, vaultVars, bookkeepingVars
<1>3. AuctionInv' /\ LiquidationInv' /\ TokenTypeOK'
  <2>1. ASSUME NEW bidder \in Signers, NEW a \in AuctionIds, NEW amount \in BidAmounts,
               PlaceBid(bidder, a, amount)
        PROVE  AuctionInv' /\ LiquidationInv' /\ TokenTypeOK'
    <3>1. bidder \in Accounts /\ amount \in Balance
      BY ConstantTypes, AuctionConstants
    <3>2. QED
      BY <3>1, <2>1, <1>1, VaultParts, PlaceBidKeepsInv, PlaceBidKeepsLiquidation,
         PlaceBidTokenType
  <2>2. ASSUME NEW a \in AuctionIds, FinalizeAuction(a)
        PROVE  AuctionInv' /\ LiquidationInv' /\ TokenTypeOK'
    BY <2>2, <1>1, VaultParts, FinalizeKeepsInv, FinalizeKeepsLiquidation, QuietToken
       DEF FinalizeAuction
  <2>3. ASSUME NEW caller \in Signers, NEW a \in AuctionIds, NEW b \in BidIds,
               WithdrawRefund(caller, a, b)
        PROVE  AuctionInv' /\ LiquidationInv' /\ TokenTypeOK'
    BY <2>3, <1>1, VaultParts, ConstantTypes, WithdrawKeepsInv, WithdrawKeepsLiquidation,
       WithdrawTokenType
  <2>4. ASSUME UNCHANGED <<bookVars, tokenVars>> PROVE LiquidationInv' /\ TokenTypeOK'
    BY <2>4, <1>1, VaultParts, QuietLiquidation, QuietToken
       DEF bookVars, vaultVars, bookkeepingVars
  <2>5. ASSUME NEW admin \in AdminChoices, SetAdmin(auction_governance, admin)
        PROVE  AuctionInv' /\ LiquidationInv' /\ TokenTypeOK'
    <3>1. admin \in Accounts \cup {None}
      BY AuctionConstants
    <3>2. UNCHANGED <<bookVars, tokenVars>>
      BY <2>5 DEF SetAdmin
    <3>3. QED
      BY <3>1, <3>2, <2>4, <2>5, VaultParts, AdministrationKeepsInv
  <2>6. ASSUME Tick PROVE AuctionInv' /\ LiquidationInv' /\ TokenTypeOK'
    <3>1. UNCHANGED <<bookVars, tokenVars>>
      BY <2>6 DEF Tick
    <3>2. QED
      BY <3>1, <2>4, <2>6, VaultParts, TickKeepsInv
  <2>7. QED
    BY <2>1, <2>2, <2>3, <2>5, <2>6 DEF AuctionStep
<1>4. QED
  BY <1>2, <1>3 DEF VaultInv

----------------------------------------------------------------------------
(* Parameters, governance, the chain and the token's holders. *)

\* None of them touches a vault, a marker, an auction or a bid.
LEMMA SameVaultsKeepInv ==
    ASSUME VaultInv, UNCHANGED <<bookkeepingVars, liquidationVars, auctions, auction_bids>>,
           AdminTypeOK', ParamTypeOK', ParamsOK', CustodyTypeOK', TokenTypeOK', AuctionInv'
    PROVE  VaultInv'
<1>1. VaultTypeOK'
  BY VaultParts, QuietBookkeeping, QuietLiquidationTypes DEF VaultTypeOK
<1>2. LiquidationInv'
  BY VaultParts, QuietLiquidation DEF bookkeepingVars
<1>3. VaultsNumbered'
  BY VaultParts DEF VaultsNumbered, bookkeepingVars
<1>4. QED
  BY <1>1, <1>2, <1>3 DEF VaultInv

LEMMA SameAuctionAndToken ==
    ASSUME VaultInv, UNCHANGED <<auctionVars, tokenVars>>
    PROVE  AuctionInv' /\ TokenTypeOK' /\ UNCHANGED <<auctions, auction_bids>>
  BY VaultParts, QuietKeepsInv, QuietToken DEF auctionVars, bookVars

LEMMA ScheduledType ==
    ASSUME VaultInv
    PROVE  /\ \A p \in Params : Scheduled(p) \in [params : Params, execute_after : Nat]
           /\ \A g \in Globals : Scheduled(g) \in [params : Globals, execute_after : Nat]
<1>1. now + TimelockMs \in Nat
  BY VaultParts, ConstantTypes, AuctionConstants DEF AuctionInv, AuctionTypeOK, Time
<1>2. QED
  BY <1>1 DEF Scheduled

\* What governance schedules is validated again when it takes effect.
LEMMA ParamStepKeepsVaultInv ==
    ASSUME VaultInv, ParamStep
    PROVE  VaultInv'
<1>1. UNCHANGED <<adminVars, bookkeepingVars, liquidationVars, custodyVars, auctionVars, tokenVars>>
  BY DEF ParamStep, SetContractParams, ExecuteContractParamsUpdate, CancelContractParamsUpdate,
         SetGlobalParams, ExecuteGlobalParamsUpdate, CancelGlobalParamsUpdate
<1>2. ParamTypeOK /\ ParamsOK /\ ParamChoices \subseteq Params /\ GlobalChoices \subseteq Globals
  BY VaultParts, VaultConstants
<1>3. ASSUME NEW n \in Netuids, NEW params \in ParamChoices,
             SetContractParams(governance, n, params)
      PROVE  ParamTypeOK' /\ ParamsOK'
  <2>1. Scheduled(params) \in [params : Params, execute_after : Nat]
    BY <1>2, ScheduledType
  <2>2. QED
    BY <1>2, <1>3, <2>1 DEF SetContractParams, ParamTypeOK, ParamsOK, ValidParams, ValidGlobals
<1>4. ASSUME NEW n \in Netuids, ExecuteContractParamsUpdate(n)
      PROVE  ParamTypeOK' /\ ParamsOK'
  <2> DEFINE pending == pending_contract_params_updates[n]
  <2>1. pending.params \in Params /\ ValidParams(pending.params)
    BY <1>2, <1>4 DEF ParamTypeOK, ExecuteContractParamsUpdate
  <2>2. \A m \in Netuids : netuid_params'[m] = IF m = n THEN pending.params ELSE netuid_params[m]
    BY <1>2, <1>4 DEF ParamTypeOK, ExecuteContractParamsUpdate
  <2>3. ParamTypeOK'
    BY <1>2, <1>4, <2>1 DEF ParamTypeOK, ExecuteContractParamsUpdate
  <2>4. ParamsOK'
    BY <1>2, <1>4, <2>1, <2>2
       DEF ParamsOK, ExecuteContractParamsUpdate, ValidParams, ValidGlobals
  <2>5. QED
    BY <2>3, <2>4
<1>5. ASSUME NEW n \in Netuids, CancelContractParamsUpdate(governance, n)
      PROVE  ParamTypeOK' /\ ParamsOK'
  BY <1>2, <1>5 DEF CancelContractParamsUpdate, ParamTypeOK, ParamsOK, ValidParams, ValidGlobals
<1>6. ASSUME NEW globals \in GlobalChoices, SetGlobalParams(governance, globals)
      PROVE  ParamTypeOK' /\ ParamsOK'
  <2>1. Scheduled(globals) \in [params : Globals, execute_after : Nat]
    BY <1>2, ScheduledType
  <2>2. QED
    BY <1>2, <1>6, <2>1 DEF SetGlobalParams, ParamTypeOK, ParamsOK, ValidParams, ValidGlobals
<1>7. ASSUME ExecuteGlobalParamsUpdate
      PROVE  ParamTypeOK' /\ ParamsOK'
  BY <1>2, <1>7 DEF ExecuteGlobalParamsUpdate, ParamTypeOK, ParamsOK, ValidParams, ValidGlobals
<1>8. ASSUME CancelGlobalParamsUpdate(governance)
      PROVE  ParamTypeOK' /\ ParamsOK'
  BY <1>2, <1>8 DEF CancelGlobalParamsUpdate, ParamTypeOK, ParamsOK, ValidParams, ValidGlobals
<1>9. ParamTypeOK' /\ ParamsOK'
  BY <1>3, <1>4, <1>5, <1>6, <1>7, <1>8 DEF ParamStep
<1>10. QED
  BY <1>1, <1>9, VaultParts, QuietAdmin, QuietCustody, SameAuctionAndToken, SameVaultsKeepInv

LEMMA RolesKeepVaultInv ==
    ASSUME VaultInv, NEW account \in RoleChoices,
           \/ UpdateGovernance(governance, account)
           \/ UpdatePlatform(governance, account)
           \/ UpdateTreasury(governance, account)
    PROVE  VaultInv'
<1>1. account \in Accounts
  BY ConstantTypes
<1>2. UNCHANGED <<paramVars, bookkeepingVars, liquidationVars, custodyVars, auctions,
                  auction_bids, tokenVars>>
  BY DEF UpdateGovernance, UpdatePlatform, UpdateTreasury, auctionVars, bookVars
<1>3. AdminTypeOK'
  BY <1>1, VaultParts DEF AdminTypeOK, UpdateGovernance, UpdatePlatform, UpdateTreasury
<1>4. AuctionInv'
  <2>1. CASE UpdateGovernance(governance, account)
    <3>1. AuctionTypeOK
      BY VaultParts DEF AuctionInv
    <3>2. QED
      BY <1>1, <2>1, <3>1, VaultParts, RolesAndTimeKeepInv DEF UpdateGovernance, AuctionTypeOK
  <2>2. CASE UNCHANGED auctionVars
    BY <2>2, VaultParts, QuietKeepsInv
  <2>3. QED
    BY <2>1, <2>2 DEF UpdatePlatform, UpdateTreasury
<1>5. QED
  BY <1>2, <1>3, <1>4, VaultParts, QuietParams, QuietCustody, QuietToken, SameVaultsKeepInv

\* Moving the stake of the listed netuids to a new hotkey.
LEMMA HotkeyKeepsCustody ==
    ASSUME VaultInv, NEW hotkey \in Hotkeys, NEW netuids \in SUBSET Netuids,
           SetVaultHotkey(governance, hotkey, netuids)
    PROVE  CustodyTypeOK'
<1>1. CustodyTypeOK /\ MaxStake \in Nat
  BY VaultParts, ConstantTypes
<1> DEFINE moved(hn) == IF hn[2] \notin netuids THEN stake[hn]
                        ELSE IF hn[1] = vault_hotkey THEN 0
                        ELSE IF hn[1] = hotkey THEN stake[hn] + stake[<<vault_hotkey, hn[2]>>]
                        ELSE stake[hn]
<1>2. stake' = [hn \in Hotkeys \X Netuids |-> moved(hn)]
  BY DEF SetVaultHotkey
<1>3. ASSUME NEW h \in Hotkeys, NEW n \in Netuids PROVE moved(<<h, n>>) \in 0 .. MaxStake
  <2>1. /\ stake[<<h, n>>] \in 0 .. MaxStake
        /\ stake[<<hotkey, n>>] \in 0 .. MaxStake
        /\ stake[<<vault_hotkey, n>>] \in 0 .. MaxStake
    BY <1>1 DEF CustodyTypeOK
  <2>2. n \in netuids => stake[<<hotkey, n>>] + stake[<<vault_hotkey, n>>] <= MaxStake
    BY DEF SetVaultHotkey
  <2>3. QED
    BY <2>1, <2>2, <1>1
<1> HIDE DEF moved
<1>4. stake' \in [Hotkeys \X Netuids -> 0 .. MaxStake]
  BY <1>2, <1>3
<1>5. QED
  BY <1>1, <1>4 DEF CustodyTypeOK, SetVaultHotkey

\* What only moves TAO or alpha in or out of the contract.
LEMMA CustodyStepKeepsVaultInv ==
    ASSUME VaultInv, CustodyTypeOK',
           UNCHANGED <<adminVars, paramVars, bookkeepingVars, liquidationVars,
                       auctionVars, tokenVars>>
    PROVE  VaultInv'
  BY VaultParts, QuietAdmin, QuietParams, SameAuctionAndToken, SameVaultsKeepInv

LEMMA ClaimExcessKeepsVaultInv ==
    ASSUME VaultInv, NEW n \in Netuids, ClaimExcessAlpha(governance, n)
    PROVE  VaultInv'
<1>1. /\ stake[<<vault_hotkey, n>>] \in 0 .. MaxStake
      /\ netuid_total_collateral[n] \in Nat
      /\ stake[<<vault_hotkey, n>>] > netuid_total_collateral[n]
  BY VaultParts, ConstantTypes DEF CustodyTypeOK, ClaimExcessAlpha
<1>2. netuid_total_collateral[n] \in 0 .. MaxStake
  BY <1>1, ConstantTypes
<1>3. CustodyTypeOK'
  BY <1>2, VaultParts DEF CustodyTypeOK, ClaimExcessAlpha
<1>4. QED
  BY <1>3, CustodyStepKeepsVaultInv DEF ClaimExcessAlpha

LEMMA SweepKeepsVaultInv ==
    ASSUME VaultInv, TransferNativeToTreasury(governance)
    PROVE  VaultInv'
<1>1. native' \in 0 .. MaxNative
  BY VaultParts, ConstantTypes DEF CustodyTypeOK, TransferNativeToTreasury
<1>2. CustodyTypeOK'
  BY <1>1, VaultParts DEF CustodyTypeOK, TransferNativeToTreasury
<1>3. QED
  BY <1>2, CustodyStepKeepsVaultInv DEF TransferNativeToTreasury

LEMMA ClaimSurplusKeepsVaultInv ==
    ASSUME VaultInv, NEW caller, NEW amount \in DebtAmounts, ClaimSurplusTusdt(caller, amount)
    PROVE  VaultInv'
<1> DEFINE claim == Min({amount, balances[VaultContract]})
<1>1. claim \in Nat
  <2>1. amount \in Nat /\ balances[VaultContract] \in Nat
    BY VaultParts, ConstantTypes DEF TokenTypeOK
  <2>2. QED
    BY <2>1, MinOfTwo
<1>2. /\ Transfer(VaultContract, treasury, claim)
      /\ UNCHANGED <<vaultVars, auctionVars>>
  BY DEF ClaimSurplusTusdt
<1> HIDE DEF claim
<1>3. TokenTypeOK'
  BY <1>1, <1>2, VaultParts, ConstantTypes, TransferType DEF AdminTypeOK
<1>4. QED
  BY <1>2, <1>3, VaultParts, QuietAdmin, QuietParams, QuietCustody, QuietKeepsInv,
     SameVaultsKeepInv DEF vaultVars, auctionVars, bookVars

LEMMA AdminStepKeepsVaultInv ==
    ASSUME VaultInv, AdminTypeOK',
           UNCHANGED <<paramVars, bookkeepingVars, liquidationVars, custodyVars,
                       auctionVars, tokenVars>>
    PROVE  VaultInv'
  BY VaultParts, QuietParams, QuietCustody, SameAuctionAndToken, SameVaultsKeepInv

LEMMA PauseKeepsVaultInv ==
    ASSUME VaultInv, NEW caller, Pause(caller) \/ Unpause(caller)
    PROVE  VaultInv'
<1>1. AdminTypeOK'
  BY VaultParts DEF AdminTypeOK, Pause, Unpause, SetPaused
<1>2. QED
  BY <1>1, AdminStepKeepsVaultInv DEF Pause, Unpause, SetPaused

LEMMA ApprovalKeepsVaultInv ==
    ASSUME VaultInv, NEW n \in Netuids, NEW approved \in BOOLEAN,
           SetApprovedNetuid(governance, n, approved)
    PROVE  VaultInv'
<1>1. AdminTypeOK'
  BY VaultParts DEF AdminTypeOK, SetApprovedNetuid
<1>2. QED
  BY <1>1, AdminStepKeepsVaultInv DEF SetApprovedNetuid

LEMMA GovernanceStepKeepsVaultInv ==
    ASSUME VaultInv, GovernanceStep
    PROVE  VaultInv'
<1>1. ASSUME NEW hotkey \in Hotkeys, NEW netuids \in SUBSET Netuids,
             SetVaultHotkey(governance, hotkey, netuids)
      PROVE  VaultInv'
  BY <1>1, HotkeyKeepsCustody, CustodyStepKeepsVaultInv DEF SetVaultHotkey
<1>2. QED
  BY <1>1, RolesKeepVaultInv, PauseKeepsVaultInv, ApprovalKeepsVaultInv,
     ClaimSurplusKeepsVaultInv, ClaimExcessKeepsVaultInv, SweepKeepsVaultInv
     DEF GovernanceStep

LEMMA ChainStepKeepsVaultInv ==
    ASSUME VaultInv, ChainStep
    PROVE  VaultInv'
<1> PICK amount \in ChainAmounts :
        \/ ReceiveNative(amount)
        \/ \E hotkey \in Hotkeys, netuid \in Netuids : Emission(hotkey, netuid, amount)
  BY DEF ChainStep
<1>1. amount \in Nat
  BY ConstantTypes
<1>2. CASE ReceiveNative(amount)
  <2>1. native' \in 0 .. MaxNative
    BY <1>1, <1>2, VaultParts, ConstantTypes DEF CustodyTypeOK, ReceiveNative
  <2>2. CustodyTypeOK'
    BY <2>1, <1>2, VaultParts DEF CustodyTypeOK, ReceiveNative
  <2>3. QED
    BY <2>2, <1>2, CustodyStepKeepsVaultInv DEF ReceiveNative
<1>3. ASSUME NEW hotkey \in Hotkeys, NEW n \in Netuids, Emission(hotkey, n, amount)
      PROVE  VaultInv'
  <2>1. stake[<<hotkey, n>>] + amount \in 0 .. MaxStake
    BY <1>1, <1>3, VaultParts, ConstantTypes DEF CustodyTypeOK, Emission
  <2>2. CustodyTypeOK'
    BY <2>1, <1>3, VaultParts DEF CustodyTypeOK, Emission
  <2>3. QED
    BY <2>2, <1>3, CustodyStepKeepsVaultInv DEF Emission
<1>4. QED
  BY <1>2, <1>3

LEMMA TokenStepKeepsVaultInv ==
    ASSUME VaultInv, TokenStep
    PROVE  VaultInv'
<1>1. TokenTypeOK'
  <2>1. PICK caller \in TokenUsers : HolderStep(caller, TokenPeers)
    BY DEF TokenStep
  <2>2. caller \in Accounts /\ TokenPeers \in SUBSET Accounts
    BY AuctionConstants DEF Users
  <2>3. QED
    BY <2>1, <2>2, VaultParts, HolderStepType
<1>2. UNCHANGED <<vaultVars, auctionVars>>
  BY DEF TokenStep
<1>3. QED
  BY <1>1, <1>2, VaultParts, QuietAdmin, QuietParams, QuietCustody, QuietKeepsInv,
     SameVaultsKeepInv DEF vaultVars, auctionVars, bookVars

----------------------------------------------------------------------------
(* The theorems. *)

LEMMA InitVaultInv ==
    ASSUME Init
    PROVE  VaultInv
<1>1. TokenTypeOK
  BY VaultConstants, ConstantTypes DEF Init, TokenTypeOK
<1>2. AuctionInv
  BY ConstantTypes, AuctionInitInv DEF Init
<1>3. AdminTypeOK /\ ParamTypeOK /\ ParamsOK
  BY VaultConstants, ConstantTypes
     DEF Init, AdminTypeOK, ParamTypeOK, ParamsOK, ValidParams, ValidGlobals
<1>4. BookkeepingTypeOK /\ LiquidationTypeOK /\ VaultsNumbered
  BY MaxBalanceAssumption DEF Init, BookkeepingTypeOK, LiquidationTypeOK, VaultsNumbered, Balance
<1>5. CustodyTypeOK
  BY VaultConstants, ConstantTypes DEF Init, CustodyTypeOK
<1>6. InLiquidation = {} /\ Vaults = {} /\ Unfinalized = {}
  BY DEF Init, AuctionInit, InLiquidation, Vaults, Unfinalized, Opened
<1>7. LiquidationInv
  BY <1>6, FS_EmptySet
     DEF Init, LiquidationInv, BidsHeld, MarkerMatchesAuction, OpenAuctionIsMarked,
         LiquidationCountExact, NoUnbackedDebt
<1>8. QED
  BY <1>1, <1>2, <1>3, <1>4, <1>5, <1>7 DEF VaultInv, VaultTypeOK

LEMMA StepKeepsVaultInv ==
    ASSUME VaultInv, [Next]_vars
    PROVE  VaultInv'
<1>1. CASE VaultStep
  BY <1>1, CreateKeepsVaultInv, AddKeepsVaultInv, BorrowKeepsVaultInv, RepayKeepsVaultInv,
     ReleaseKeepsVaultInv, TriggerKeepsVaultInv, SettleKeepsVaultInv DEF VaultStep
<1>2. CASE UNCHANGED vars
  BY <1>2, VaultParts, QuietAdmin, QuietParams, QuietCustody, SameAuctionAndToken,
     SameVaultsKeepInv DEF vars, vaultVars
<1>3. QED
  BY <1>1, <1>2, ParamStepKeepsVaultInv, GovernanceStepKeepsVaultInv, ChainStepKeepsVaultInv,
     AuctionStepKeepsVaultInv, TokenStepKeepsVaultInv DEF Next

LEMMA VaultInvariant == Spec => []VaultInv
<1>1. Init => VaultInv
  BY InitVaultInv
<1>2. VaultInv /\ [Next]_vars => VaultInv'
  BY StepKeepsVaultInv
<1>3. QED
  BY <1>1, <1>2, PTL DEF Spec

\* Every variable of the vault, its auction and its token keeps its type, the bounds
\* of a Balance included.
THEOREM VaultTypeCorrect == Spec => []TypeOK
<1>1. VaultInv => TypeOK
  BY DEF VaultInv, AuctionInv, TypeOK
<1>2. QED
  BY <1>1, VaultInvariant, PTL

\* The vault and the auction contract always agree on what is being sold: a vault in
\* liquidation is marked with an auction of its own that sells exactly the debt it
\* still owes and whose winning bid the vault has not been paid, and an auction that
\* can still be bid on is the one its vault is marked with.
THEOREM VaultRecordsAgree == Spec => []RecordsAgree
<1>1. VaultInv => RecordsAgree
  BY DEF VaultInv, LiquidationInv, RecordsAgree
<1>2. QED
  BY <1>1, VaultInvariant, PTL

\* active_liquidation_count is the number of vaults in liquidation, so the gate
\* on sweeps and hotkey moves is open exactly when there is none.
THEOREM VaultLiquidationCountExact == Spec => []LiquidationCountExact
<1>1. VaultInv => LiquidationCountExact
  BY DEF VaultInv, LiquidationInv
<1>2. QED
  BY <1>1, VaultInvariant, PTL

\* No release, borrow or settlement leaves a vault that is not being sold with a
\* debt and no collateral.
THEOREM VaultNoUnbackedDebt == Spec => []NoUnbackedDebt
<1>1. VaultInv => NoUnbackedDebt
  BY DEF VaultInv, LiquidationInv
<1>2. QED
  BY <1>1, VaultInvariant, PTL

\* Under any parameters governance can put in force, what may be borrowed is below
\* the liquidation limit at the same price.
THEOREM VaultBorrowNeverLiquidatable == Spec => []BorrowNeverLiquidatable
<1>1. VaultInv => BorrowNeverLiquidatable
  BY VaultParts, LimitTypes, ConstantTypes DEF BorrowNeverLiquidatable
<1>2. QED
  BY <1>1, VaultInvariant, PTL

----------------------------------------------------------------------------
(* The books: what the contract owes, keeps and counts, as sums over its    *)
(* vaults.                                                                  *)

\* The vault controls its auction and is the token's only minter.
Wiring == auction_controller = VaultContract /\ minters = {VaultContract}

FinalizedHasBids == \A a \in Opened : auctions[a].is_finalized => auctions[a].bid_count # 0

MoneyInv == SupplyIsSum /\ SupplyFollowsDebt /\ EscrowInv

BooksInv ==
    /\ Wiring
    /\ FinalizedHasBids
    /\ MoneyInv
    /\ TotalsExact
    /\ StakeCoversCollateral
    /\ NativeCoversAuctions

\* All that the sums range over.
SumTypes ==
    /\ DebtOf \in [VaultKeys -> Nat]
    /\ \A o \in Owners : OwedBy(o) \in [VaultKeys -> Nat]
    /\ \A n \in Netuids : CollateralOn(n) \in [VaultKeys -> Nat]
    /\ \A n \in Netuids : AlphaUnder(n) \in [Hotkeys -> Nat]
    /\ TaoOnSale \in [VaultKeys -> Nat]
    /\ netuid_total_collateral \in [Netuids -> Nat]
    /\ total_collateral_balance \in Nat /\ total_supply \in Nat /\ native \in Nat
    /\ owner_total_debt \in [Owners -> Nat]

LEMMA SumDomains ==
    IsFiniteSet(VaultKeys) /\ IsFiniteSet(Netuids) /\ IsFiniteSet(Hotkeys)
  BY VaultConstants

LEMMA SumTypesHold ==
    ASSUME VaultInv PROVE SumTypes
<1>1. DebtOf \in [VaultKeys -> Nat]
  BY VaultParts, ConstantTypes DEF DebtOf, BookkeepingTypeOK, VaultRecord
<1>2. ASSUME NEW o \in Owners PROVE OwedBy(o) \in [VaultKeys -> Nat]
  BY <1>1 DEF OwedBy
<1>3. ASSUME NEW n \in Netuids PROVE CollateralOn(n) \in [VaultKeys -> Nat]
  BY VaultParts, ConstantTypes DEF CollateralOn, BookkeepingTypeOK, VaultRecord
<1>4. ASSUME NEW n \in Netuids PROVE AlphaUnder(n) \in [Hotkeys -> Nat]
  BY VaultParts, ConstantTypes DEF AlphaUnder
<1>5. TaoOnSale \in [VaultKeys -> Nat]
  <2> SUFFICES ASSUME NEW key \in InLiquidation
               PROVE  auctions[liquidation_auctions[key]].collateral_balance \in Nat
    BY DEF TaoOnSale, InLiquidation
  <2>1. SellsVault(liquidation_auctions[key], key) /\ liquidation_auctions[key] \in AuctionIds
    BY VaultParts DEF LiquidationInv, MarkerMatchesAuction, LiquidationTypeOK, InLiquidation
  <2>2. auctions[liquidation_auctions[key]] \in AuctionRecord
    BY <2>1, VaultParts DEF SellsVault, AuctionInv, AuctionTypeOK
  <2>3. QED
    BY <2>2, ConstantTypes DEF AuctionRecord
<1>6. /\ netuid_total_collateral \in [Netuids -> Nat]
      /\ total_collateral_balance \in Nat
      /\ owner_total_debt \in [Owners -> Nat]
  BY VaultParts, ConstantTypes DEF BookkeepingTypeOK
<1>7. total_supply \in Nat /\ native \in Nat
  <2>1. total_supply \in Balance /\ native \in 0 .. MaxNative
    BY VaultParts DEF TokenTypeOK, CustodyTypeOK
  <2>2. QED
    BY <2>1, ConstantTypes
<1>8. QED
  BY <1>1, <1>2, <1>3, <1>4, <1>5, <1>6, <1>7 DEF SumTypes

LEMMA SumTypesValid == VaultInv => SumTypes
  BY SumTypesHold

LEMMA SumTypesAfter == VaultInv' => SumTypes'
  BY SumTypesValid, PTL

----------------------------------------------------------------------------
(* What a message that saves one vault does to the sums over the vaults. *)

LEMMA DebtSaved ==
    ASSUME VaultInv, VaultInv', NEW key \in VaultKeys, NEW vault \in VaultRecord,
           SaveVault(key, vault)
    PROVE  /\ DebtOf[key] \in Nat /\ SumFunction(DebtOf) \in Nat
           /\ SumFunction(DebtOf)'
                 = SumFunction(DebtOf) - DebtOf[key] + vault.borrowed_token_balance
<1> DEFINE f == DebtOf
           g == DebtOf'
<1>1. \A k \in VaultKeys : vaults'[k] = IF k = key THEN vault ELSE vaults[k]
  BY VaultParts, SavedVault
<1>2. /\ f \in [VaultKeys -> Nat] /\ g \in [VaultKeys -> Nat]
      /\ f \in [VaultKeys -> Int] /\ g \in [VaultKeys -> Int]
  BY SumTypesHold, SumTypesAfter DEF SumTypes
<1>3. \A k \in VaultKeys \ {key} : g[k] = f[k]
  BY <1>1 DEF DebtOf
<1>4. g[key] = vault.borrowed_token_balance
  BY <1>1, ConstantTypes DEF DebtOf
<1>5. f[key] \in Nat /\ SumFunction(f) \in Nat
  BY <1>2, SumDomains, SumNat
<1> HIDE DEF f, g
<1>6. SumFunction(g) = SumFunction(f) - f[key] + g[key]
  BY <1>2, <1>3, SumDomains, SumChanged
<1>7. QED
  BY <1>4, <1>5, <1>6 DEF f, g

\* The total of the owner follows; no other owner's sum changes.
LEMMA OwedSaved ==
    ASSUME VaultInv, VaultInv', NEW key \in VaultKeys, NEW vault \in VaultRecord,
           SaveVault(key, vault), \A o \in Owners : owner_total_debt[o] = SumFunction(OwedBy(o))
    PROVE  \A o \in Owners : owner_total_debt'[o] = SumFunction(OwedBy(o)')
<1> SUFFICES ASSUME NEW o \in Owners
             PROVE  owner_total_debt'[o] = SumFunction(OwedBy(o)')
  OBVIOUS
<1> DEFINE f == OwedBy(o)
           g == OwedBy(o)'
<1>1. \A k \in VaultKeys : vaults'[k] = IF k = key THEN vault ELSE vaults[k]
  BY VaultParts, SavedVault
<1>2. /\ f \in [VaultKeys -> Nat] /\ g \in [VaultKeys -> Nat]
      /\ f \in [VaultKeys -> Int] /\ g \in [VaultKeys -> Int]
  BY SumTypesHold, SumTypesAfter DEF SumTypes
<1>3. \A k \in VaultKeys \ {key} : g[k] = f[k]
  BY <1>1 DEF OwedBy, DebtOf
<1>4. g[key] = IF key[1] = o THEN vault.borrowed_token_balance ELSE 0
  BY <1>1, ConstantTypes DEF OwedBy, DebtOf
<1>5. f[key] = IF key[1] = o THEN DebtOf[key] ELSE 0
  BY DEF OwedBy
<1>6. f[key] \in Nat /\ g[key] \in Nat /\ SumFunction(f) \in Nat
  BY <1>2, SumDomains, SumNat
<1>7. owner_total_debt[o] = SumFunction(f)
  OBVIOUS
<1> HIDE DEF f, g
<1>8. SumFunction(g) = SumFunction(f) - f[key] + g[key]
  BY <1>2, <1>3, SumDomains, SumChanged
<1>9. /\ owner_total_debt \in [Owners -> Nat]
      /\ owner_total_debt' = [owner_total_debt EXCEPT ![key[1]] =
              owner_total_debt[key[1]] - DebtOf[key] + vault.borrowed_token_balance]
  BY SumTypesHold DEF SumTypes, SaveVault, DebtOf
<1>10. SumFunction(g) = owner_total_debt'[o]
  <2>1. CASE key[1] = o
    BY <2>1, <1>4, <1>5, <1>6, <1>7, <1>8, <1>9
  <2>2. CASE key[1] # o
    BY <2>2, <1>4, <1>5, <1>6, <1>7, <1>8, <1>9
  <2>3. QED
    BY <2>1, <2>2
<1>11. QED
  BY <1>10 DEF g

\* What the vault backs it debt with, on its netuid and on any other.
LEMMA CollateralSaved ==
    ASSUME VaultInv, VaultInv', NEW key \in VaultKeys, NEW vault \in VaultRecord,
           SaveVault(key, vault), vaults[key] # None => vaults[key].netuid = vault.netuid,
           NEW n \in Netuids
    PROVE  /\ CollateralOn(vault.netuid)[key] \in Nat
           /\ SumFunction(CollateralOn(n)) \in Nat
           /\ SumFunction(CollateralOn(n)') =
                IF n = vault.netuid
                THEN SumFunction(CollateralOn(n)) - CollateralOn(n)[key] + vault.collateral_balance
                ELSE SumFunction(CollateralOn(n))
<1> DEFINE f == CollateralOn(n)
           g == CollateralOn(n)'
<1>1. \A k \in VaultKeys : vaults'[k] = IF k = key THEN vault ELSE vaults[k]
  BY VaultParts, SavedVault
<1>2. /\ f \in [VaultKeys -> Nat] /\ g \in [VaultKeys -> Nat]
      /\ f \in [VaultKeys -> Int] /\ g \in [VaultKeys -> Int]
      /\ CollateralOn(vault.netuid)[key] \in Nat
  BY SumTypesHold, SumTypesAfter DEF SumTypes, VaultRecord
<1>3. \A k \in VaultKeys \ {key} : g[k] = f[k]
  BY <1>1 DEF CollateralOn
<1>4. g[key] = IF n = vault.netuid THEN vault.collateral_balance ELSE 0
  BY <1>1, ConstantTypes DEF CollateralOn
<1>5. n # vault.netuid => f[key] = 0
  BY DEF CollateralOn
<1>6. f[key] \in Nat /\ g[key] \in Nat /\ SumFunction(f) \in Nat
  BY <1>2, SumDomains, SumNat
<1> HIDE DEF f, g
<1>7. SumFunction(g) = SumFunction(f) - f[key] + g[key]
  BY <1>2, <1>3, SumDomains, SumChanged
<1>8. SumFunction(g) = IF n = vault.netuid
                       THEN SumFunction(f) - f[key] + vault.collateral_balance
                       ELSE SumFunction(f)
  BY <1>4, <1>5, <1>6, <1>7
<1>9. QED
  BY <1>2, <1>6, <1>8 DEF f, g

\* The collateral of one vault changes by delta and the totals with it.
LEMMA TotalsFollow ==
    ASSUME VaultInv, VaultInv', TotalsExact,
           NEW key \in VaultKeys, NEW vault \in VaultRecord, NEW delta \in Int,
           SaveVault(key, vault), vaults[key] # None => vaults[key].netuid = vault.netuid,
           vault.collateral_balance = CollateralOn(vault.netuid)[key] + delta,
           total_collateral_balance' = total_collateral_balance + delta,
           netuid_total_collateral' =
              [netuid_total_collateral EXCEPT ![vault.netuid] = @ + delta]
    PROVE  TotalsExact'
<1> DEFINE f == netuid_total_collateral
           g == netuid_total_collateral'
<1>1. vault.netuid \in Netuids /\ vault.collateral_balance \in Nat
  BY ConstantTypes DEF VaultRecord
<1>2. /\ f \in [Netuids -> Nat] /\ g \in [Netuids -> Nat]
      /\ f \in [Netuids -> Int] /\ g \in [Netuids -> Int]
  BY SumTypesHold, SumTypesAfter DEF SumTypes
<1>3. ASSUME NEW n \in Netuids PROVE g[n] = SumFunction(CollateralOn(n)')
  <2>1. /\ f[n] = SumFunction(CollateralOn(n))
        /\ f[n] \in Nat
        /\ g[n] = IF n = vault.netuid THEN f[n] + delta ELSE f[n]
    BY <1>2 DEF TotalsExact
  <2>2. /\ CollateralOn(vault.netuid)[key] \in Nat
        /\ SumFunction(CollateralOn(n)') =
              IF n = vault.netuid
              THEN SumFunction(CollateralOn(n)) - CollateralOn(n)[key] + vault.collateral_balance
              ELSE SumFunction(CollateralOn(n))
    BY CollateralSaved
  <2> HIDE DEF f, g
  <2>3. QED
    BY <2>1, <2>2, <1>1
<1>4. total_collateral_balance' = SumFunction(g)
  <2>1. /\ \A n \in Netuids \ {vault.netuid} : g[n] = f[n]
        /\ g[vault.netuid] = f[vault.netuid] + delta
        /\ f[vault.netuid] \in Nat
    BY <1>1, <1>2
  <2>2. total_collateral_balance = SumFunction(f) /\ SumFunction(f) \in Nat
    BY <1>2, SumDomains, SumNat DEF TotalsExact
  <2> HIDE DEF f, g
  <2>3. SumFunction(g) = SumFunction(f) - f[vault.netuid] + g[vault.netuid]
    BY <1>1, <1>2, <2>1, SumDomains, SumChanged
  <2>4. QED
    BY <2>1, <2>2, <2>3
<1>5. \A o \in Owners : owner_total_debt'[o] = SumFunction(OwedBy(o)')
  BY OwedSaved DEF TotalsExact
<1>6. QED
  BY <1>3, <1>4, <1>5 DEF TotalsExact

\* The debt of one vault changes and no collateral moves.
LEMMA TotalsKept ==
    ASSUME VaultInv, VaultInv', TotalsExact,
           NEW key \in VaultKeys, NEW vault \in VaultRecord,
           SaveVault(key, vault), vaults[key] # None, vaults[key].netuid = vault.netuid,
           vaults[key].collateral_balance = vault.collateral_balance,
           UNCHANGED <<total_collateral_balance, netuid_total_collateral>>
    PROVE  TotalsExact'
<1>1. vault.netuid \in Netuids /\ vault.collateral_balance \in Nat
  BY ConstantTypes DEF VaultRecord
<1>2. CollateralOn(vault.netuid)[key] = vault.collateral_balance
  BY DEF CollateralOn
<1>3. /\ netuid_total_collateral \in [Netuids -> Nat]
      /\ total_collateral_balance \in Nat
  BY SumTypesHold DEF SumTypes
<1>4. /\ vault.collateral_balance = CollateralOn(vault.netuid)[key] + 0
      /\ total_collateral_balance' = total_collateral_balance + 0
      /\ netuid_total_collateral' = [netuid_total_collateral EXCEPT ![vault.netuid] = @ + 0]
  BY <1>1, <1>2, <1>3
<1>5. PICK delta \in Int : delta = 0
  OBVIOUS
<1>6. QED
  BY <1>4, <1>5, TotalsFollow

LEMMA TotalsQuiet ==
    ASSUME TotalsExact, UNCHANGED bookkeepingVars PROVE TotalsExact'
<1>1. /\ \A n \in Netuids : CollateralOn(n)' = CollateralOn(n)
      /\ \A o \in Owners : OwedBy(o)' = OwedBy(o)
  BY DEF CollateralOn, OwedBy, DebtOf, bookkeepingVars
<1>2. QED
  BY <1>1 DEF TotalsExact, bookkeepingVars

----------------------------------------------------------------------------
(* Alpha. *)

\* Alpha comes to the current hotkey, or leaves it, with the collateral it backs.
LEMMA StakeFollows ==
    ASSUME VaultInv, VaultInv', StakeCoversCollateral,
           NEW h \in Hotkeys, NEW n \in Netuids, NEW delta \in Int, NEW booked \in Int,
           booked <= delta,
           stake' = [stake EXCEPT ![<<h, n>>] = @ + delta],
           netuid_total_collateral' = [netuid_total_collateral EXCEPT ![n] = @ + booked]
    PROVE  StakeCoversCollateral'
<1> SUFFICES ASSUME NEW m \in Netuids
             PROVE  SumFunction(AlphaUnder(m)') >= netuid_total_collateral'[m]
  BY DEF StakeCoversCollateral
<1> DEFINE f == AlphaUnder(m)
           g == AlphaUnder(m)'
<1>1. /\ f \in [Hotkeys -> Nat] /\ g \in [Hotkeys -> Nat]
      /\ f \in [Hotkeys -> Int] /\ g \in [Hotkeys -> Int]
      /\ netuid_total_collateral \in [Netuids -> Nat]
      /\ stake \in [Hotkeys \X Netuids -> 0 .. MaxStake]
  BY VaultParts, SumTypesHold, SumTypesAfter DEF SumTypes
<1>2. /\ \A k \in Hotkeys \ {h} : g[k] = f[k]
      /\ g[h] = IF m = n THEN f[h] + delta ELSE f[h]
  BY <1>1 DEF AlphaUnder
<1>3. netuid_total_collateral'[m] =
        IF m = n THEN netuid_total_collateral[m] + booked ELSE netuid_total_collateral[m]
  BY <1>1
<1>4. f[h] \in Nat /\ SumFunction(f) \in Nat /\ netuid_total_collateral[m] \in Nat
  BY <1>1, SumDomains, SumNat
<1>5. SumFunction(f) >= netuid_total_collateral[m]
  BY DEF StakeCoversCollateral
<1> HIDE DEF f, g
<1>6. SumFunction(g) = SumFunction(f) - f[h] + g[h]
  BY <1>1, <1>2, SumDomains, SumChanged
<1>7. SumFunction(g) >= netuid_total_collateral'[m]
  BY <1>2, <1>3, <1>4, <1>5, <1>6
<1>8. QED
  BY <1>7 DEF g

LEMMA StakeQuiet ==
    ASSUME StakeCoversCollateral, UNCHANGED <<stake, netuid_total_collateral>>
    PROVE  StakeCoversCollateral'
  BY DEF StakeCoversCollateral, AlphaUnder

\* What stays under the current hotkey is all the collateral of the netuid.
LEMMA ClaimKeepsStake ==
    ASSUME VaultInv, VaultInv', StakeCoversCollateral, NEW n \in Netuids,
           ClaimExcessAlpha(governance, n)
    PROVE  StakeCoversCollateral'
<1> SUFFICES ASSUME NEW m \in Netuids
             PROVE  SumFunction(AlphaUnder(m)') >= netuid_total_collateral[m]
  BY DEF StakeCoversCollateral, ClaimExcessAlpha, bookkeepingVars
<1> DEFINE g == AlphaUnder(m)'
<1>1. /\ g \in [Hotkeys -> Nat]
      /\ stake \in [Hotkeys \X Netuids -> 0 .. MaxStake]
      /\ vault_hotkey \in Hotkeys
      /\ stake' = [stake EXCEPT ![<<vault_hotkey, n>>] = netuid_total_collateral[n]]
  BY VaultParts, SumTypesAfter DEF SumTypes, ClaimExcessAlpha, CustodyTypeOK
<1>2. CASE m = n
  <2>1. g[vault_hotkey] = netuid_total_collateral[n]
    <3>1. stake'[<<vault_hotkey, n>>] = netuid_total_collateral[n]
      BY <1>1
    <3>2. QED
      BY <3>1, <1>1, <1>2 DEF AlphaUnder
  <2>2. netuid_total_collateral[n] \in Nat
    BY SumTypesHold DEF SumTypes
  <2> HIDE DEF g
  <2>3. g[vault_hotkey] <= SumFunction(g) /\ SumFunction(g) \in Nat
    BY <1>1, SumDomains, SumAtLeastTerm
  <2>4. QED
    BY <2>1, <2>2, <2>3, <1>2 DEF g
<1>3. CASE m # n
  <2>1. g = AlphaUnder(m)
    BY <1>1, <1>3 DEF AlphaUnder
  <2>2. QED
    BY <2>1 DEF StakeCoversCollateral
<1>4. QED
  BY <1>2, <1>3

\* Moving the stake to another hotkey keeps the sum, netuid by netuid.
LEMMA HotkeyKeepsStake ==
    ASSUME VaultInv, VaultInv', StakeCoversCollateral,
           NEW hotkey \in Hotkeys, NEW netuids \in SUBSET Netuids,
           SetVaultHotkey(governance, hotkey, netuids)
    PROVE  StakeCoversCollateral'
<1> SUFFICES ASSUME NEW m \in Netuids
             PROVE  SumFunction(AlphaUnder(m)') >= netuid_total_collateral[m]
  BY DEF StakeCoversCollateral, SetVaultHotkey, bookkeepingVars
<1> DEFINE f == AlphaUnder(m)
           middle == [f EXCEPT ![vault_hotkey] = 0]
           g == AlphaUnder(m)'
<1>1. /\ f \in [Hotkeys -> Nat] /\ g \in [Hotkeys -> Nat]
      /\ f \in [Hotkeys -> Int] /\ g \in [Hotkeys -> Int]
      /\ vault_hotkey \in Hotkeys /\ hotkey # vault_hotkey
  BY VaultParts, SumTypesHold, SumTypesAfter DEF SumTypes, SetVaultHotkey, CustodyTypeOK
<1>2. SumFunction(f) >= netuid_total_collateral[m]
  BY DEF StakeCoversCollateral
<1>3. CASE m \notin netuids
  <2>1. \A k \in Hotkeys : g[k] = f[k]
    BY <1>3 DEF AlphaUnder, SetVaultHotkey
  <2>2. g = f
    BY <2>1, <1>1
  <2>3. QED
    BY <2>2, <1>2
<1>4. CASE m \in netuids
  <2>1. \A k \in Hotkeys : g[k] = IF k = vault_hotkey THEN 0
                                  ELSE IF k = hotkey THEN f[k] + f[vault_hotkey] ELSE f[k]
    <3> SUFFICES ASSUME NEW k \in Hotkeys
                 PROVE  g[k] = IF k = vault_hotkey THEN 0
                               ELSE IF k = hotkey THEN f[k] + f[vault_hotkey] ELSE f[k]
      OBVIOUS
    <3> DEFINE hn == <<k, m>>
    <3>1. stake'[hn] = IF k = vault_hotkey THEN 0
                       ELSE IF k = hotkey THEN stake[hn] + stake[<<vault_hotkey, m>>]
                       ELSE stake[hn]
      BY <1>4 DEF SetVaultHotkey
    <3>2. g[k] = stake'[hn] /\ f[k] = stake[hn] /\ f[vault_hotkey] = stake[<<vault_hotkey, m>>]
      BY <1>1 DEF AlphaUnder
    <3>3. QED
      BY <3>1, <3>2
  <2>2. /\ middle \in [Hotkeys -> Int]
        /\ middle[vault_hotkey] = 0 /\ middle[hotkey] = f[hotkey]
        /\ \A k \in Hotkeys \ {vault_hotkey} : middle[k] = f[k]
    BY <1>1
  <2>3. \A k \in Hotkeys \ {hotkey} : g[k] = middle[k]
    BY <2>1, <2>2
  <2>4. g[hotkey] = f[hotkey] + f[vault_hotkey] /\ f[hotkey] \in Nat /\ f[vault_hotkey] \in Nat
    BY <2>1, <1>1
  <2>5. SumFunction(f) \in Nat
    BY <1>1, SumDomains, SumNat
  <2> HIDE DEF f, g, middle
  <2>6. SumFunction(middle) = SumFunction(f) - f[vault_hotkey] + middle[vault_hotkey]
    BY <1>1, <2>2, SumDomains, SumChanged
  <2>7. SumFunction(g) = SumFunction(middle) - middle[hotkey] + g[hotkey]
    BY <1>1, <2>2, <2>3, SumDomains, SumChanged
  <2>8. SumFunction(g) = SumFunction(f)
    BY <2>2, <2>4, <2>5, <2>6, <2>7
  <2>9. QED
    BY <2>8, <1>2 DEF f, g
<1>5. QED
  BY <1>3, <1>4

----------------------------------------------------------------------------
(* TAO. *)

LEMMA MarkedIsOpened ==
    ASSUME VaultInv, NEW key \in VaultKeys, liquidation_auctions[key] # None
    PROVE  /\ liquidation_auctions[key] \in Opened
           /\ auctions[liquidation_auctions[key]] \in AuctionRecord
           /\ SellsVault(liquidation_auctions[key], key)
<1>1. SellsVault(liquidation_auctions[key], key) /\ liquidation_auctions[key] \in AuctionIds
  BY VaultParts DEF LiquidationInv, MarkerMatchesAuction, InLiquidation, LiquidationTypeOK
<1>2. QED
  BY <1>1, VaultParts DEF SellsVault, Opened, AuctionInv, AuctionTypeOK

\* One vault enters or leaves liquidation, or none does.
LEMMA TaoChanged ==
    ASSUME VaultInv, VaultInv', NEW key \in VaultKeys,
           \A k \in VaultKeys \ {key} : liquidation_auctions'[k] = liquidation_auctions[k],
           \A c \in Opened : auctions'[c].collateral_balance = auctions[c].collateral_balance
    PROVE  /\ SumFunction(TaoOnSale) \in Nat
           /\ TaoOnSale[key] \in Nat /\ TaoOnSale'[key] \in Nat
           /\ SumFunction(TaoOnSale)' = SumFunction(TaoOnSale) - TaoOnSale[key] + TaoOnSale'[key]
<1> DEFINE f == TaoOnSale
           g == TaoOnSale'
<1>1. /\ f \in [VaultKeys -> Nat] /\ g \in [VaultKeys -> Nat]
      /\ f \in [VaultKeys -> Int] /\ g \in [VaultKeys -> Int]
  BY SumTypesHold, SumTypesAfter DEF SumTypes
<1>2. \A k \in VaultKeys \ {key} : g[k] = f[k]
  BY MarkedIsOpened DEF TaoOnSale
<1>3. SumFunction(f) \in Nat /\ f[key] \in Nat /\ g[key] \in Nat
  BY <1>1, SumDomains, SumNat
<1> HIDE DEF f, g
<1>4. SumFunction(g) = SumFunction(f) - f[key] + g[key]
  BY <1>1, <1>2, SumDomains, SumChanged
<1>5. QED
  BY <1>3, <1>4 DEF f, g

LEMMA NativeQuiet ==
    ASSUME VaultInv, VaultInv', NativeCoversAuctions, native' >= native,
           liquidation_auctions' = liquidation_auctions,
           \A c \in Opened : auctions'[c].collateral_balance = auctions[c].collateral_balance
    PROVE  NativeCoversAuctions'
<1>1. TaoOnSale' = TaoOnSale
  BY MarkedIsOpened DEF TaoOnSale
<1>2. TaoOnSale \in [VaultKeys -> Nat] /\ native \in Nat /\ native' \in Nat
  BY SumTypesHold, SumTypesAfter DEF SumTypes
<1>3. SumFunction(TaoOnSale) \in Nat
  BY <1>2, SumDomains, SumNat
<1>4. QED
  BY <1>1, <1>2, <1>3, ConstantTypes DEF NativeCoversAuctions

\* The gate on the sweep: with no vault in liquidation there is no TAO on sale.
LEMMA NothingOnSale ==
    ASSUME VaultInv, NoActiveLiquidations
    PROVE  SumFunction(TaoOnSale) = 0
<1>1. IsFiniteSet(InLiquidation) /\ Cardinality(InLiquidation) = 0
  BY ConstantTypes, FS_Subset, VaultParts
     DEF InLiquidation, LiquidationInv, LiquidationCountExact, NoActiveLiquidations
<1>2. InLiquidation = {}
  BY <1>1, FS_EmptySet
<1>3. \A key \in VaultKeys : TaoOnSale[key] = 0
  BY <1>2 DEF InLiquidation, TaoOnSale
<1>4. TaoOnSale \in [VaultKeys -> Int]
  BY SumTypesHold DEF SumTypes
<1>5. QED
  BY <1>3, <1>4, SumDomains, SumOfZeros

LEMMA SweepKeepsNative ==
    ASSUME VaultInv, VaultInv', TransferNativeToTreasury(governance)
    PROVE  NativeCoversAuctions'
<1>1. SumFunction(TaoOnSale) = 0
  BY NothingOnSale DEF TransferNativeToTreasury
<1>2. TaoOnSale' = TaoOnSale /\ native' = MinimumBalance
  BY DEF TransferNativeToTreasury, TaoOnSale, liquidationVars, auctionVars, bookVars
<1>3. QED
  BY <1>1, <1>2, ConstantTypes DEF NativeCoversAuctions

----------------------------------------------------------------------------
(* What keeps the other books. *)

LEMMA MoneyQuiet ==
    ASSUME VaultInv, MoneyInv,
           UNCHANGED <<DebtOf, total_supply, balances, allowances, auction_bids>>
    PROVE  MoneyInv'
<1>1. EscrowInv'
  BY VaultParts, UnchangedKeepsEscrow DEF MoneyInv, AuctionInv
<1>2. QED
  BY <1>1 DEF MoneyInv, SupplyIsSum, SupplyFollowsDebt

LEMMA WiringQuiet ==
    ASSUME Wiring, UNCHANGED <<auction_controller, minters>> PROVE Wiring'
  BY DEF Wiring

LEMMA FinalizedQuiet ==
    ASSUME FinalizedHasBids, UNCHANGED auctions PROVE FinalizedHasBids'
  BY DEF FinalizedHasBids, Opened

\* A message that leaves the auctions and the markers alone and pays out no TAO.
LEMMA SameAuctionsKeep ==
    ASSUME VaultInv, VaultInv', BooksInv, native' >= native,
           UNCHANGED <<liquidation_auctions, auctions, auction_controller, minters>>
    PROVE  Wiring' /\ FinalizedHasBids' /\ NativeCoversAuctions'
  BY NativeQuiet, WiringQuiet, FinalizedQuiet DEF BooksInv

LEMMA SameBooksKeep ==
    ASSUME VaultInv, VaultInv', BooksInv, native' >= native, StakeCoversCollateral',
           UNCHANGED <<bookkeepingVars, liquidationVars, auctions, auction_bids,
                       auction_controller, tokenVars>>
    PROVE  BooksInv'
<1>1. MoneyInv'
  BY MoneyQuiet DEF BooksInv, DebtOf, tokenVars, bookkeepingVars
<1>2. Wiring' /\ FinalizedHasBids' /\ NativeCoversAuctions'
  BY SameAuctionsKeep DEF liquidationVars, tokenVars
<1>3. TotalsExact'
  BY TotalsQuiet DEF BooksInv
<1>4. QED
  BY <1>1, <1>2, <1>3 DEF BooksInv

LEMMA BooksParts ==
    ASSUME VaultInv, BooksInv
    PROVE  /\ Wiring /\ FinalizedHasBids /\ SupplyIsSum /\ SupplyFollowsDebt /\ EscrowInv
           /\ TotalsExact /\ StakeCoversCollateral /\ NativeCoversAuctions /\ MoneyInv
           /\ TokenTypeOK /\ AuctionInv /\ SumTypes /\ native \in Nat
           /\ SumFunction(InitialBalances) \in Nat
  BY VaultParts, SumTypesHold, VaultConstants, ConstantTypes
     DEF BooksInv, MoneyInv, SumTypes

\* A vault whose collateral changes but not its debt.
LEMMA CollateralMessageKeepsBooks ==
    ASSUME VaultInv, VaultInv', BooksInv,
           NEW key \in VaultKeys, NEW vault \in VaultRecord, NEW delta \in Int,
           SaveVault(key, vault), vaults[key] # None => vaults[key].netuid = vault.netuid,
           vault.borrowed_token_balance = DebtOf[key],
           vault.collateral_balance = CollateralOn(vault.netuid)[key] + delta,
           total_collateral_balance' = total_collateral_balance + delta,
           netuid_total_collateral' =
              [netuid_total_collateral EXCEPT ![vault.netuid] = @ + delta],
           stake' = [stake EXCEPT ![<<vault_hotkey, vault.netuid>>] = @ + delta],
           tokenVars' = tokenVars, auction_bids' = auction_bids
    PROVE  MoneyInv' /\ TotalsExact' /\ StakeCoversCollateral'
<1>1. vault.netuid \in Netuids /\ vault_hotkey \in Hotkeys
  BY VaultParts DEF VaultRecord, CustodyTypeOK
<1>2. TotalsExact'
  BY TotalsFollow, BooksParts
<1>3. StakeCoversCollateral'
  <2>1. delta <= delta
    OBVIOUS
  <2>2. QED
    BY <1>1, <2>1, StakeFollows, BooksParts
<1>4. DebtOf' = DebtOf
  BY VaultParts, SavedVault, ConstantTypes DEF DebtOf
<1>5. MoneyInv'
  BY <1>4, MoneyQuiet, BooksParts DEF tokenVars
<1>6. QED
  BY <1>2, <1>3, <1>5

----------------------------------------------------------------------------
(* The messages of a vault that is not in liquidation. *)

LEMMA CreateKeepsBooks ==
    ASSUME VaultInv, VaultInv', BooksInv,
           NEW caller \in Owners, NEW amount \in AlphaAmounts, NEW n \in Netuids,
           CreateAlphaVault(caller, amount, n)
    PROVE  BooksInv'
<1> DEFINE id == vault_count[caller]
           new == [netuid |-> n, collateral_balance |-> amount, borrowed_token_balance |-> 0]
<1>1. /\ amount \in Balance /\ amount \in Int
      /\ id \in VaultIds
      /\ StakeIn(n, amount)
      /\ SaveVault(<<caller, id>>, new)
      /\ AddToTotals(n, amount)
      /\ UNCHANGED <<liquidationVars, native, auctionVars, tokenVars>>
  BY ConstantTypes DEF CreateAlphaVault
<1> PICK key \in VaultKeys : key = <<caller, id>>
  BY <1>1 DEF VaultKeys
<1>2. /\ new \in VaultRecord /\ new.borrowed_token_balance = 0
      /\ new.netuid = n /\ new.collateral_balance = amount
  BY <1>1, MaxBalanceAssumption DEF VaultRecord, Balance
<1>3. vaults[key] = None
  <2> SUFFICES ASSUME vaults[key] # None PROVE FALSE
    OBVIOUS
  <2>1. key[2] < vault_count[key[1]] /\ key[2] = id /\ key[1] = caller /\ id \in Nat
    BY VaultParts DEF VaultsNumbered
  <2>2. QED
    BY <2>1
<1>4. SaveVault(key, new)
  BY <1>1
<1>5. DebtOf[key] = 0 /\ CollateralOn(n)[key] = 0
  BY <1>3 DEF DebtOf, CollateralOn
<1>6. /\ total_collateral_balance' = total_collateral_balance + amount
      /\ netuid_total_collateral' = [netuid_total_collateral EXCEPT ![n] = @ + amount]
      /\ stake' = [stake EXCEPT ![<<vault_hotkey, n>>] = @ + amount]
      /\ tokenVars' = tokenVars /\ auction_bids' = auction_bids
      /\ UNCHANGED <<liquidation_auctions, auctions, auction_controller, minters>>
      /\ native' >= native
  BY <1>1, BooksParts
     DEF AddToTotals, StakeIn, liquidationVars, auctionVars, bookVars, rolesVars, tokenVars
<1>7. /\ new.borrowed_token_balance = DebtOf[key]
      /\ new.collateral_balance = CollateralOn(new.netuid)[key] + amount
      /\ netuid_total_collateral' =
            [netuid_total_collateral EXCEPT ![new.netuid] = @ + amount]
      /\ stake' = [stake EXCEPT ![<<vault_hotkey, new.netuid>>] = @ + amount]
      /\ vaults[key] # None => vaults[key].netuid = new.netuid
  BY <1>1, <1>2, <1>3, <1>5, <1>6
<1> HIDE DEF new
<1>8. MoneyInv' /\ TotalsExact' /\ StakeCoversCollateral'
  BY <1>1, <1>2, <1>4, <1>6, <1>7, CollateralMessageKeepsBooks
<1>9. QED
  BY <1>6, <1>8, SameAuctionsKeep DEF BooksInv

LEMMA AddKeepsBooks ==
    ASSUME VaultInv, VaultInv', BooksInv, NEW key \in VaultKeys, NEW amount \in AlphaAmounts,
           AddAlphaCollateral(key, amount)
    PROVE  BooksInv'
<1> DEFINE vault == vaults[key]
           new == [vault EXCEPT !.collateral_balance = @ + amount]
<1>1. /\ UsableVault(key)
      /\ amount \in Balance /\ amount \in Nat /\ amount \in Int
      /\ vault.collateral_balance + amount <= MaxBalance
      /\ StakeIn(vault.netuid, amount)
      /\ AddToTotals(vault.netuid, amount)
      /\ SaveVault(key, new)
      /\ UNCHANGED <<liquidationVars, native, auctionVars, tokenVars>>
  BY ConstantTypes DEF AddAlphaCollateral
<1>2. /\ new \in VaultRecord
      /\ new.netuid = vault.netuid
      /\ new.borrowed_token_balance = vault.borrowed_token_balance
      /\ new.collateral_balance = vault.collateral_balance + amount
  BY <1>1, UsableVaultRecord, MaxBalanceAssumption DEF VaultRecord, Balance
<1>3. /\ DebtOf[key] = vault.borrowed_token_balance
      /\ CollateralOn(vault.netuid)[key] = vault.collateral_balance
  BY <1>1 DEF UsableVault, DebtOf, CollateralOn
<1>4. /\ total_collateral_balance' = total_collateral_balance + amount
      /\ netuid_total_collateral' =
            [netuid_total_collateral EXCEPT ![vault.netuid] = @ + amount]
      /\ stake' = [stake EXCEPT ![<<vault_hotkey, vault.netuid>>] = @ + amount]
      /\ tokenVars' = tokenVars /\ auction_bids' = auction_bids
      /\ UNCHANGED <<liquidation_auctions, auctions, auction_controller, minters>>
      /\ native' >= native
  BY <1>1, BooksParts
     DEF AddToTotals, StakeIn, liquidationVars, auctionVars, bookVars, rolesVars, tokenVars
<1> HIDE DEF new
<1>5. MoneyInv' /\ TotalsExact' /\ StakeCoversCollateral'
  BY <1>1, <1>2, <1>3, <1>4, CollateralMessageKeepsBooks
<1>6. QED
  BY <1>4, <1>5, SameAuctionsKeep DEF BooksInv

LEMMA ReleaseKeepsBooks ==
    ASSUME VaultInv, VaultInv', BooksInv, NEW key \in VaultKeys, NEW amount \in AlphaAmounts,
           NEW price, ReleaseAlphaCollateral(key, amount, price)
    PROVE  BooksInv'
<1> DEFINE vault == vaults[key]
           new == [vault EXCEPT !.collateral_balance = @ - amount]
<1>1. /\ UsableVault(key)
      /\ amount \in Balance /\ amount \in Nat /\ 0 - amount \in Int
      /\ vault.collateral_balance >= amount
      /\ StakeOut(vault.netuid, amount)
      /\ TakeFromTotals(vault.netuid, amount)
      /\ SaveVault(key, new)
      /\ UNCHANGED <<liquidationVars, native, auctionVars, tokenVars>>
  BY ConstantTypes DEF ReleaseAlphaCollateral
<1>2. /\ vault \in VaultRecord /\ vault.netuid \in Netuids
      /\ vault.collateral_balance \in Nat
      /\ vault_hotkey \in Hotkeys
      /\ stake \in [Hotkeys \X Netuids -> 0 .. MaxStake]
  BY <1>1, UsableVaultRecord, VaultParts DEF CustodyTypeOK
<1>3. /\ new \in VaultRecord
      /\ new.netuid = vault.netuid
      /\ new.borrowed_token_balance = vault.borrowed_token_balance
      /\ new.collateral_balance = vault.collateral_balance + (0 - amount)
  BY <1>1, <1>2, MaxBalanceAssumption DEF VaultRecord, Balance
<1>4. /\ DebtOf[key] = vault.borrowed_token_balance
      /\ CollateralOn(vault.netuid)[key] = vault.collateral_balance
  BY <1>1 DEF UsableVault, DebtOf, CollateralOn
<1>5. /\ total_collateral_balance' = total_collateral_balance + (0 - amount)
      /\ netuid_total_collateral' =
            [netuid_total_collateral EXCEPT ![vault.netuid] = @ + (0 - amount)]
  <2>1. total_collateral_balance \in Nat /\ netuid_total_collateral[vault.netuid] \in Nat
    BY <1>2, BooksParts DEF SumTypes
  <2>2. netuid_total_collateral[vault.netuid] - amount
           = netuid_total_collateral[vault.netuid] + (0 - amount)
    BY <2>1, <1>1
  <2>3. /\ total_collateral_balance' = total_collateral_balance - amount
        /\ netuid_total_collateral' =
              [netuid_total_collateral EXCEPT ![vault.netuid] = @ - amount]
    BY <1>1 DEF TakeFromTotals
  <2>4. total_collateral_balance' = total_collateral_balance + (0 - amount)
    BY <2>1, <2>3, <1>1
  <2>5. QED
    BY <2>2, <2>3, <2>4
<1>6. stake' = [stake EXCEPT ![<<vault_hotkey, vault.netuid>>] = @ + (0 - amount)]
  <2>1. stake[<<vault_hotkey, vault.netuid>>] \in 0 .. MaxStake
    BY <1>2
  <2>2. stake[<<vault_hotkey, vault.netuid>>] - amount
           = stake[<<vault_hotkey, vault.netuid>>] + (0 - amount)
    BY <2>1, <1>1, ConstantTypes
  <2>3. QED
    BY <1>1, <2>2 DEF StakeOut
<1>7. /\ tokenVars' = tokenVars /\ auction_bids' = auction_bids
      /\ UNCHANGED <<liquidation_auctions, auctions, auction_controller, minters>>
      /\ native' >= native
  BY <1>1, BooksParts DEF liquidationVars, auctionVars, bookVars, rolesVars, tokenVars
<1> HIDE DEF new
<1> PICK delta \in Int : delta = 0 - amount
  BY <1>1
<1>8. MoneyInv' /\ TotalsExact' /\ StakeCoversCollateral'
  BY <1>1, <1>2, <1>3, <1>4, <1>5, <1>6, <1>7, CollateralMessageKeepsBooks
<1>9. QED
  BY <1>7, <1>8, SameAuctionsKeep DEF BooksInv

\* Borrowing and repaying move the supply and the debt by the same amount.
LEMMA DebtMessageKeepsBooks ==
    ASSUME VaultInv, VaultInv', BooksInv,
           NEW key \in VaultKeys, UsableVault(key), NEW vault \in VaultRecord, NEW delta \in Int,
           SaveVault(key, vault), vault.netuid = vaults[key].netuid,
           vault.collateral_balance = vaults[key].collateral_balance,
           vault.borrowed_token_balance = vaults[key].borrowed_token_balance + delta,
           total_supply' = total_supply + delta,
           SupplyIsSum', EscrowInv',
           UNCHANGED <<total_collateral_balance, netuid_total_collateral, liquidationVars,
                       custodyVars, auctionVars, tokenRoles>>
    PROVE  BooksInv'
<1>1. vaults[key] # None /\ DebtOf[key] = vaults[key].borrowed_token_balance
  BY DEF UsableVault, DebtOf
<1>2. /\ DebtOf[key] \in Nat /\ SumFunction(DebtOf) \in Nat
      /\ SumFunction(DebtOf)' = SumFunction(DebtOf) - DebtOf[key] + vault.borrowed_token_balance
  BY DebtSaved
<1>3. SupplyFollowsDebt'
  BY <1>1, <1>2, BooksParts DEF SupplyFollowsDebt
<1>4. TotalsExact'
  BY <1>1, BooksParts, TotalsKept
<1>5. StakeCoversCollateral'
  BY BooksParts, StakeQuiet DEF custodyVars
<1>6. Wiring' /\ FinalizedHasBids' /\ NativeCoversAuctions'
  BY BooksParts, SameAuctionsKeep
     DEF liquidationVars, auctionVars, bookVars, rolesVars, tokenRoles, custodyVars
<1>7. QED
  BY <1>3, <1>4, <1>5, <1>6 DEF BooksInv, MoneyInv

LEMMA OwnersAreUsers ==
    /\ \A key \in VaultKeys : key[1] \in Accounts /\ key[1] # AuctionContract
    /\ VaultContract \in Accounts /\ VaultContract # AuctionContract
    /\ AuctionContract \in Accounts
    /\ TokenUsers \subseteq Users /\ Signers \subseteq Users
  BY VaultConstants, AuctionConstants DEF Signers, Users, VaultKeys

\* What is saved fits a Balance: owner_total_debt, which it is part of, does.
LEMMA BorrowedFits ==
    ASSUME VaultInv, NEW key \in VaultKeys, UsableVault(key), NEW amount \in Nat,
           SaveVault(key, [vaults[key] EXCEPT
              !.borrowed_token_balance = vaults[key].borrowed_token_balance + amount])
    PROVE  vaults[key].borrowed_token_balance + amount \in Balance
<1> DEFINE vault == vaults[key]
           projected == vault.borrowed_token_balance + amount
           new == [vault EXCEPT !.borrowed_token_balance = projected]
<1>1. vault \in VaultRecord /\ vault.borrowed_token_balance \in Nat
  BY UsableVaultRecord
<1>2. SaveVault(key, new)
  OBVIOUS
<1>3. new.borrowed_token_balance = projected
  BY <1>1 DEF VaultRecord
<1> HIDE DEF new
<1>4. /\ owner_total_debt[key[1]] - vault.borrowed_token_balance + new.borrowed_token_balance
            <= MaxBalance
      /\ owner_total_debt[key[1]] >= vault.borrowed_token_balance
  BY <1>2 DEF SaveVault, UsableVault
<1>5. owner_total_debt[key[1]] \in Nat
  BY ConstantTypes, VaultParts DEF BookkeepingTypeOK, VaultKeys
<1>6. QED
  BY <1>1, <1>3, <1>4, <1>5, MaxBalanceAssumption DEF Balance

LEMMA BorrowKeepsBooks ==
    ASSUME VaultInv, VaultInv', BooksInv, NEW key \in VaultKeys, NEW amount \in DebtAmounts,
           NEW price, BorrowToken(key, amount, price)
    PROVE  BooksInv'
<1> DEFINE vault == vaults[key]
           new == [vault EXCEPT !.borrowed_token_balance = vault.borrowed_token_balance + amount]
<1>1. /\ UsableVault(key)
      /\ amount \in Nat
      /\ SaveVault(key, new)
      /\ Mint(VaultContract, key[1], amount)
      /\ UNCHANGED <<total_collateral_balance, netuid_total_collateral, liquidationVars,
                     custodyVars, auctionVars>>
  BY ConstantTypes DEF BorrowToken
<1>2. vault \in VaultRecord /\ vault.borrowed_token_balance \in Nat
  BY <1>1, UsableVaultRecord
<1>3. /\ new \in VaultRecord
      /\ new.netuid = vault.netuid
      /\ new.collateral_balance = vault.collateral_balance
      /\ new.borrowed_token_balance = vault.borrowed_token_balance + amount
  <2>1. vault.borrowed_token_balance + amount \in Balance
    BY <1>1, <1>2, BorrowedFits
  <2>2. QED
    BY <1>2, <2>1 DEF VaultRecord
<1> HIDE DEF new
<1>4. SupplyIsSum'
  BY <1>1, BooksParts, OwnersAreUsers, MintSupply
<1>5. EscrowInv'
  <2>1. /\ balances \in [Accounts -> Nat]
        /\ balances' = Credited(balances, key[1], amount)
        /\ UNCHANGED <<allowances, auction_bids>>
    BY <1>1, BooksParts, ConstantTypes DEF Mint, TokenTypeOK, auctionVars, bookVars
  <2>2. balances'[AuctionContract] = balances[AuctionContract]
    BY <2>1, OwnersAreUsers DEF Credited
  <2>3. QED
    BY <2>1, <2>2, BooksParts, OwnersAreUsers, QuietKeepsEscrow DEF AuctionInv
<1>6. total_supply' = total_supply + amount /\ UNCHANGED tokenRoles
  BY <1>1 DEF Mint
<1>7. QED
  BY <1>1, <1>2, <1>3, <1>4, <1>5, <1>6, DebtMessageKeepsBooks

LEMMA RepayKeepsBooks ==
    ASSUME VaultInv, VaultInv', BooksInv, NEW key \in VaultKeys, NEW amount \in DebtAmounts,
           RepayToken(key, amount)
    PROVE  BooksInv'
<1> DEFINE vault == vaults[key]
           new == [vault EXCEPT !.borrowed_token_balance = @ - amount]
<1>1. /\ UsableVault(key)
      /\ amount \in Nat /\ amount <= vault.borrowed_token_balance
      /\ SaveVault(key, new)
      /\ Burn(VaultContract, key[1], amount)
      /\ UNCHANGED <<total_collateral_balance, netuid_total_collateral, liquidationVars,
                     custodyVars, auctionVars>>
  BY ConstantTypes DEF RepayToken
<1>2. vault \in VaultRecord /\ vault.borrowed_token_balance \in Nat
  BY <1>1, UsableVaultRecord
<1>3. /\ new \in VaultRecord
      /\ new.netuid = vault.netuid
      /\ new.collateral_balance = vault.collateral_balance
      /\ new.borrowed_token_balance = vault.borrowed_token_balance + (0 - amount)
  BY <1>1, <1>2, MaxBalanceAssumption DEF VaultRecord, Balance
<1> HIDE DEF new
<1>4. SupplyIsSum'
  BY <1>1, BooksParts, OwnersAreUsers, BurnSupply
<1>5. EscrowInv'
  <2>1. /\ balances \in [Accounts -> Nat]
        /\ balances' = Debited(balances, key[1], amount)
        /\ UNCHANGED <<allowances, auction_bids>>
    BY <1>1, BooksParts, ConstantTypes DEF Burn, TokenTypeOK, auctionVars, bookVars
  <2>2. balances'[AuctionContract] = balances[AuctionContract]
    BY <2>1, OwnersAreUsers DEF Debited
  <2>3. QED
    BY <2>1, <2>2, BooksParts, OwnersAreUsers, QuietKeepsEscrow DEF AuctionInv
<1>6. total_supply' = total_supply + (0 - amount) /\ UNCHANGED tokenRoles
  BY <1>1, BooksParts DEF Burn, SumTypes
<1> PICK delta \in Int : delta = 0 - amount
  BY <1>1
<1>7. QED
  BY <1>1, <1>3, <1>4, <1>5, <1>6, DebtMessageKeepsBooks

----------------------------------------------------------------------------
(* Liquidation. *)

\* The TAO the collateral was sold for is there when its auction opens.
LEMMA TriggerKeepsBooks ==
    ASSUME VaultInv, VaultInv', BooksInv, NEW key \in VaultKeys, NEW price \in Prices,
           NEW tao \in TaoReceipts, TriggerLiquidationAuction(key, price, tao)
    PROVE  BooksInv'
<1> DEFINE vault == vaults[key]
           collateral == vault.collateral_balance
           debt == vault.borrowed_token_balance
           min_bid == LiquidationMinBid(vault.netuid, debt)
           duration == global_params.auction_duration_ms
           new == [vault EXCEPT !.collateral_balance = 0]
<1>1. /\ UsableVault(key)
      /\ StakeOut(vault.netuid, collateral)
      /\ tao \in Balance /\ tao \in Nat
      /\ native' = native + tao
      /\ TakeFromTotals(vault.netuid, collateral)
      /\ SaveVault(key, new)
      /\ min_bid <= MaxBalance
      /\ CreateAuction(VaultContract, key, tao, debt, min_bid, duration)
      /\ EnterLiquidation(key, auction_count)
      /\ tokenVars' = tokenVars
  BY ConstantTypes DEF TriggerLiquidationAuction
<1>2. /\ vault \in VaultRecord /\ vault.netuid \in Netuids
      /\ collateral \in Nat /\ 0 - collateral \in Int
      /\ debt \in Nat /\ debt \in Balance
      /\ vault_hotkey \in Hotkeys
      /\ stake \in [Hotkeys \X Netuids -> 0 .. MaxStake]
      /\ key \notin InLiquidation
  BY <1>1, UsableVaultRecord, VaultParts DEF VaultRecord, CustodyTypeOK
<1>3. /\ new \in VaultRecord
      /\ new.netuid = vault.netuid
      /\ new.borrowed_token_balance = debt
      /\ new.collateral_balance = collateral + (0 - collateral)
  BY <1>2, MaxBalanceAssumption DEF VaultRecord, Balance
<1>4. /\ DebtOf[key] = debt
      /\ CollateralOn(vault.netuid)[key] = collateral
  BY <1>1 DEF UsableVault, DebtOf, CollateralOn
<1>5. /\ total_collateral_balance' = total_collateral_balance + (0 - collateral)
      /\ netuid_total_collateral' =
            [netuid_total_collateral EXCEPT ![vault.netuid] = @ + (0 - collateral)]
  <2>1. total_collateral_balance \in Nat /\ netuid_total_collateral[vault.netuid] \in Nat
    BY <1>2, BooksParts DEF SumTypes
  <2>2. netuid_total_collateral[vault.netuid] - collateral
           = netuid_total_collateral[vault.netuid] + (0 - collateral)
    BY <2>1, <1>2
  <2>3. /\ total_collateral_balance' = total_collateral_balance - collateral
        /\ netuid_total_collateral' =
              [netuid_total_collateral EXCEPT ![vault.netuid] = @ - collateral]
    BY <1>1 DEF TakeFromTotals
  <2>4. total_collateral_balance' = total_collateral_balance + (0 - collateral)
    BY <2>1, <2>3, <1>2
  <2>5. QED
    BY <2>2, <2>3, <2>4
<1>6. stake' = [stake EXCEPT ![<<vault_hotkey, vault.netuid>>] = @ + (0 - collateral)]
  <2>1. stake[<<vault_hotkey, vault.netuid>>] \in 0 .. MaxStake
    BY <1>2
  <2>2. stake[<<vault_hotkey, vault.netuid>>] - collateral
           = stake[<<vault_hotkey, vault.netuid>>] + (0 - collateral)
    BY <2>1, <1>2, ConstantTypes
  <2>3. QED
    BY <1>1, <2>2 DEF StakeOut
<1>7. auction_bids' = auction_bids /\ UNCHANGED <<auction_controller, minters>>
  BY <1>1 DEF CreateAuction, rolesVars, tokenVars
<1>8. min_bid \in Nat /\ min_bid > 0 /\ min_bid \in Balance /\ duration \in Nat
  <2>1. min_bid \in Nat /\ min_bid >= debt
    BY <1>2, VaultParts, MinBidCoversDebt
  <2>2. debt > 0
    <3>1. LiquidationLimit(vault.netuid, price, collateral) \in Nat
      BY <1>2, VaultParts, LimitTypes, ConstantTypes
    <3>2. debt > LiquidationLimit(vault.netuid, price, collateral)
      BY DEF TriggerLiquidationAuction, IsLiquidatable
    <3>3. QED
      BY <3>1, <3>2, <1>2
  <2>3. duration \in Nat
    BY VaultParts DEF ParamTypeOK, Globals
  <2>4. QED
    BY <2>1, <2>2, <2>3, <1>1, <1>2, MaxBalanceAssumption DEF Balance
<1> HIDE DEF min_bid, duration, new
<1>9. MoneyInv' /\ TotalsExact' /\ StakeCoversCollateral'
  <2> PICK delta \in Int : delta = 0 - collateral
    BY <1>2
  <2>1. QED
    BY <1>1, <1>2, <1>3, <1>4, <1>5, <1>6, <1>7, CollateralMessageKeepsBooks
<1>10. /\ auction_count \in AuctionIds
       /\ auction_count \notin Opened
       /\ Opened' = Opened \cup {auction_count}
       /\ \A c \in Opened : auctions'[c] = auctions[c]
       /\ auctions'[auction_count].collateral_balance = tao
       /\ ~auctions'[auction_count].is_finalized
  <2>1. /\ AuctionInv /\ CreateAuction(VaultContract, key, tao, debt, min_bid, duration)
        /\ tao \in Balance /\ debt \in Balance
    BY <1>1, <1>2, BooksParts
  <2>2. /\ auction_count \in AuctionIds
        /\ auction_count \notin Opened
        /\ Opened' = Opened \cup {auction_count}
        /\ \A c \in Opened : auctions'[c] = auctions[c]
        /\ auctions'[auction_count] = [vault |-> key, collateral_balance |-> tao,
                         debt_balance |-> debt, min_bid |-> min_bid,
                         ends_at |-> now + duration,
                         highest_bidder |-> None, highest_bid |-> 0, highest_bid_id |-> None,
                         bid_count |-> 0, is_finalized |-> FALSE]
    BY <2>1, <1>8, CreatedRecord
  <2>3. QED
    BY <2>2
<1>11. FinalizedHasBids'
  BY <1>10, BooksParts DEF FinalizedHasBids
<1>12. /\ \A k \in VaultKeys \ {key} : liquidation_auctions'[k] = liquidation_auctions[k]
       /\ liquidation_auctions'[key] = auction_count /\ auction_count # None
  BY <1>1, <1>10, VaultParts, NoneAssumption DEF EnterLiquidation, LiquidationTypeOK
<1>13. TaoOnSale[key] = 0 /\ TaoOnSale'[key] = tao
  BY <1>1, <1>10, <1>12 DEF TaoOnSale, UsableVault
<1>14. /\ SumFunction(TaoOnSale) \in Nat
       /\ SumFunction(TaoOnSale)' = SumFunction(TaoOnSale) - TaoOnSale[key] + TaoOnSale'[key]
  BY <1>10, <1>12, TaoChanged
<1>15. NativeCoversAuctions'
  BY <1>1, <1>13, <1>14, BooksParts, ConstantTypes DEF NativeCoversAuctions
<1>16. QED
  BY <1>7, <1>9, <1>11, <1>15, WiringQuiet DEF BooksInv

\* The winning bid leaves the auction, and the debt it clears leaves the supply.
LEMMA TakeWinningBidEffect ==
    ASSUME TokenTypeOK, SupplyIsSum, NEW a, WinningBidOf(a) \in Nat, NEW debt_cleared \in Nat,
           TakeWinningBid(a, debt_cleared)
    PROVE  /\ SupplyIsSum'
           /\ balances'[AuctionContract] = balances[AuctionContract] - WinningBidOf(a)
<1> DEFINE bid == WinningBidOf(a)
           with_bid == Moved(balances, AuctionContract, VaultContract, bid)
<1>1. /\ balances' = Debited(with_bid, VaultContract, debt_cleared)
      /\ total_supply' = total_supply - debt_cleared
      /\ balances \in [Accounts -> Int] /\ bid \in Int /\ debt_cleared \in Int
  BY DEF TakeWinningBid, TokenTypeOK, Balance
<1>2. with_bid \in [Accounts -> Int] /\ SumFunction(with_bid) = SumFunction(balances)
  <2>1. bid \in Int /\ AuctionContract \in Accounts /\ VaultContract \in Accounts
    BY <1>1, OwnersAreUsers
  <2> HIDE DEF bid
  <2>2. with_bid \in [Accounts -> Int]
    BY <1>1, <2>1 DEF Moved, Credited, Debited
  <2>3. SumFunction(with_bid) = SumFunction(balances)
    BY <1>1, <2>1, MovedSum
  <2>4. QED
    BY <2>2, <2>3
<1>3. with_bid[AuctionContract] = balances[AuctionContract] - bid
  BY <1>1, OwnersAreUsers DEF Moved, Credited, Debited
<1> HIDE DEF with_bid, bid
<1>4. SumFunction(balances') = SumFunction(balances) - debt_cleared
  BY <1>1, <1>2, OwnersAreUsers, DebitedSum
<1>5. balances'[AuctionContract] = with_bid[AuctionContract]
  BY <1>1, <1>2, OwnersAreUsers DEF Debited
<1>6. QED
  BY <1>1, <1>3, <1>4, <1>5 DEF SupplyIsSum, bid

\* What the settlement of key's auction a reads and writes.
LEMMA SettlementRecord ==
    ASSUME VaultInv, NEW key \in VaultKeys, SettleLiquidationAuction(key)
    PROVE  \E a \in AuctionIds, new \in VaultRecord, debt \in Nat, sold \in Nat :
             /\ a = liquidation_auctions[key] /\ key \in InLiquidation /\ SellsVault(a, key)
             /\ debt = vaults[key].borrowed_token_balance
             /\ sold = auctions[a].collateral_balance
             /\ new.netuid = vaults[key].netuid
             /\ new.collateral_balance = vaults[key].collateral_balance
             /\ new.borrowed_token_balance = 0
             /\ SaveVault(key, new)
             /\ TakeWinningBid(a, debt)
             /\ native' = native - sold
<1> PICK a \in AuctionIds : a = liquidation_auctions[key]
  BY VaultParts DEF SettleLiquidationAuction, LiquidationTypeOK
<1> DEFINE vault == vaults[key]
           debt_cleared == Min({auctions[a].debt_balance, vault.borrowed_token_balance})
           sold == auctions[a].collateral_balance
           new == [vault EXCEPT !.borrowed_token_balance = @ - debt_cleared]
<1>1. /\ SaveVault(key, new)
      /\ TakeWinningBid(a, debt_cleared)
      /\ native' = native - sold
  BY DEF SettleLiquidationAuction
<1>2. key \in InLiquidation /\ SellsVault(a, key)
  BY VaultParts, NoneAssumption DEF InLiquidation, LiquidationInv, MarkerMatchesAuction
<1>3. /\ vault \in VaultRecord
      /\ vault.borrowed_token_balance = auctions[a].debt_balance
      /\ vault.borrowed_token_balance \in Nat
      /\ sold \in Nat
  BY <1>2, VaultParts, ConstantTypes
     DEF SellsVault, BookkeepingTypeOK, VaultRecord, AuctionInv, AuctionTypeOK, AuctionRecord
<1>4. debt_cleared = vault.borrowed_token_balance
  BY <1>3, MinOfTwo
<1> HIDE DEF debt_cleared
<1>5. /\ new \in VaultRecord
      /\ new.netuid = vault.netuid
      /\ new.collateral_balance = vault.collateral_balance
      /\ new.borrowed_token_balance = 0
  BY <1>3, <1>4, MaxBalanceAssumption DEF VaultRecord, Balance
<1> HIDE DEF new
<1>6. QED
  BY <1>1, <1>2, <1>3, <1>4, <1>5

\* Settlement pays out exactly the TAO on sale and clears exactly the debt it burns.
LEMMA SettleKeepsBooks ==
    ASSUME VaultInv, VaultInv', BooksInv, NEW key \in VaultKeys, SettleLiquidationAuction(key)
    PROVE  BooksInv'
<1> PICK a \in AuctionIds, new \in VaultRecord, debt \in Nat, sold \in Nat :
       /\ a = liquidation_auctions[key] /\ key \in InLiquidation /\ SellsVault(a, key)
       /\ debt = vaults[key].borrowed_token_balance
       /\ sold = auctions[a].collateral_balance
       /\ new.netuid = vaults[key].netuid
       /\ new.collateral_balance = vaults[key].collateral_balance
       /\ new.borrowed_token_balance = 0
       /\ SaveVault(key, new)
       /\ TakeWinningBid(a, debt)
       /\ native' = native - sold
  BY SettlementRecord
<1> DEFINE b == auctions[a].highest_bid_id
<1>1. /\ LeaveLiquidation(key)
      /\ UNCHANGED <<total_collateral_balance, netuid_total_collateral, stake, rolesVars, auctions>>
  BY DEF SettleLiquidationAuction
<1>2. vaults[key] # None /\ a # None /\ DebtOf[key] = debt
  BY NoneAssumption DEF SellsVault, DebtOf
<1>3. /\ WinningBidReady(VaultContract, a)
      /\ b \in BidIds /\ WinningBidOf(a) \in Nat
      /\ auction_bids[<<a, b>>] # None /\ ~auction_bids[<<a, b>>].is_withdrawn
      /\ auction_bids' = [auction_bids EXCEPT ![<<a, b>>].is_withdrawn = TRUE]
      /\ total_supply' = total_supply - debt
      /\ UNCHANGED <<minters, allowances>>
  BY BooksParts, WinningBidRecord
     DEF TakeWinningBid, WinningBidReady, MarkWinningBidPaid, tokenRoles
<1>4. /\ SupplyIsSum'
      /\ balances'[AuctionContract] = balances[AuctionContract] - WinningBidOf(a)
  BY <1>3, BooksParts, TakeWinningBidEffect
<1>5. EscrowInv'
  <2>1. balances'[AuctionContract] \in Nat /\ balances[AuctionContract] \in Nat
    BY OwnersAreUsers, ConstantTypes DEF VaultInv, TokenTypeOK
  <2>2. balances'[AuctionContract] >= balances[AuctionContract] - auction_bids[<<a, b>>].amount
    BY <2>1, <1>3, <1>4 DEF WinningBidOf
  <2>3. AuctionInv'
    BY DEF VaultInv
  <2> HIDE DEF b
  <2>4. QED
    BY <2>1, <2>2, <2>3, <1>3, BooksParts, PaymentKeepsEscrow
<1>6. SupplyFollowsDebt'
  <2>1. /\ SumFunction(DebtOf) \in Nat
        /\ SumFunction(DebtOf)' = SumFunction(DebtOf) - DebtOf[key] + new.borrowed_token_balance
    BY DebtSaved
  <2>2. QED
    BY <2>1, <1>2, <1>3, BooksParts DEF SupplyFollowsDebt
<1>7. TotalsExact' /\ StakeCoversCollateral'
  BY <1>1, <1>2, BooksParts, TotalsKept, StakeQuiet
<1>8. Wiring' /\ FinalizedHasBids'
  BY <1>1, <1>3, BooksParts, WiringQuiet, FinalizedQuiet DEF rolesVars
<1>9. /\ \A k \in VaultKeys \ {key} : liquidation_auctions'[k] = liquidation_auctions[k]
      /\ liquidation_auctions'[key] = None
  BY <1>1, VaultParts DEF LeaveLiquidation, LiquidationTypeOK
<1>10. TaoOnSale[key] = sold /\ TaoOnSale'[key] = 0
  BY <1>2, <1>9 DEF TaoOnSale
<1>11. /\ SumFunction(TaoOnSale) \in Nat
       /\ SumFunction(TaoOnSale)' = SumFunction(TaoOnSale) - TaoOnSale[key] + TaoOnSale'[key]
  BY <1>1, <1>9, TaoChanged
<1>12. NativeCoversAuctions'
  BY <1>10, <1>11, BooksParts, ConstantTypes DEF NativeCoversAuctions
<1>13. QED
  BY <1>4, <1>5, <1>6, <1>7, <1>8, <1>12 DEF BooksInv, MoneyInv

----------------------------------------------------------------------------
(* The bidders' messages. *)

\* They change no vault and no marker, nor what an auction sells.
LEMMA BidMessageKeepsBooks ==
    ASSUME VaultInv, VaultInv', BooksInv,
           UNCHANGED <<vaultVars, auction_controller, minters, total_supply>>,
           SupplyIsSum', EscrowInv', FinalizedHasBids',
           \A c \in Opened : auctions'[c].collateral_balance = auctions[c].collateral_balance
    PROVE  BooksInv'
<1>1. TotalsExact' /\ StakeCoversCollateral'
  BY BooksParts, TotalsQuiet, StakeQuiet DEF vaultVars, custodyVars, bookkeepingVars
<1>2. NativeCoversAuctions'
  BY BooksParts, NativeQuiet DEF vaultVars, custodyVars, liquidationVars
<1>3. SupplyFollowsDebt'
  BY BooksParts DEF SupplyFollowsDebt, DebtOf, vaultVars, bookkeepingVars
<1>4. QED
  BY <1>1, <1>2, <1>3, BooksParts, WiringQuiet DEF BooksInv, MoneyInv

LEMMA PlaceBidKeepsBooks ==
    ASSUME VaultInv, VaultInv', BooksInv, NEW x \in Signers, NEW a \in AuctionIds,
           NEW amount \in BidAmounts, PlaceBid(x, a, amount), UNCHANGED vaultVars
    PROVE  BooksInv'
<1>1. x \in Users /\ x \in Accounts /\ amount \in Balance
  BY OwnersAreUsers, ConstantTypes, AuctionConstants
<1>2. AuctionInv /\ AuctionInv' /\ TokenTypeOK
  BY DEF VaultInv
<1>3. EscrowInv'
  BY <1>1, <1>2, BooksParts, PlaceBidKeepsEscrow
<1> PICK rec \in AuctionRecord, b \in BidIds, bid \in BidRecord :
        /\ a \in Unfinalized
        /\ auctions' = [auctions EXCEPT ![a] = rec]
        /\ rec.collateral_balance = auctions[a].collateral_balance
        /\ rec.is_finalized = auctions[a].is_finalized
  BY <1>1, <1>2, PlacedBid
<1>4. \A c \in AuctionIds : auctions'[c] = IF c = a THEN rec ELSE auctions[c]
  BY <1>2 DEF AuctionInv, AuctionTypeOK
<1>5. FinalizedHasBids'
  BY <1>4, BooksParts DEF FinalizedHasBids, Opened, Unfinalized
<1>6. SupplyIsSum' /\ UNCHANGED <<minters, total_supply, auction_controller>>
  <2>1. PICK value \in Int : TransferFrom(AuctionContract, x, AuctionContract, value)
    <3>1. CASE NewBid(x, a, amount)
      BY <3>1, <1>1, ConstantTypes DEF NewBid
    <3>2. CASE RaiseBid(x, a, amount)
      <4>1. auction_bids[<<a, auction_bidder_bids[<<a, x>>]>>] \in BidRecord
        BY <3>2, <1>1, <1>2, NoneAssumption DEF RaiseBid, AuctionInv, AuctionTypeOK, BookOK
      <4>2. amount - auction_bids[<<a, auction_bidder_bids[<<a, x>>]>>].amount \in Int
        BY <4>1, <1>1, ConstantTypes DEF BidRecord
      <4>3. QED
        BY <3>2, <4>2 DEF RaiseBid
    <3>3. QED
      BY <3>1, <3>2 DEF PlaceBid
  <2>2. balances \in [Accounts -> Int]
    BY <1>2 DEF TokenTypeOK, Balance
  <2>3. SumFunction(balances') = SumFunction(balances)
    BY <2>1, <2>2, <1>1, OwnersAreUsers, MovedSum DEF TransferFrom
  <2>4. QED
    BY <2>1, <2>3, BooksParts DEF TransferFrom, SupplyIsSum, tokenRoles, PlaceBid, rolesVars
<1>7. \A c \in Opened : auctions'[c].collateral_balance = auctions[c].collateral_balance
  BY <1>4 DEF Opened
<1>8. QED
  BY <1>3, <1>5, <1>6, <1>7, BidMessageKeepsBooks

LEMMA FinalizeKeepsBooks ==
    ASSUME VaultInv, VaultInv', BooksInv, NEW a \in AuctionIds, FinalizeAuction(a),
           UNCHANGED vaultVars
    PROVE  BooksInv'
<1>1. /\ auctions[a] \in AuctionRecord /\ auctions \in [AuctionIds -> AuctionRecord \cup {None}]
      /\ auctions' = [auctions EXCEPT ![a].is_finalized = TRUE]
      /\ auctions[a].bid_count # 0
      /\ UNCHANGED <<rolesVars, auction_bids, tokenVars>>
  BY VaultParts DEF FinalizeAuction, AuctionInv, AuctionTypeOK
<1>2. \A c \in Opened : /\ auctions'[c].collateral_balance = auctions[c].collateral_balance
                        /\ auctions'[c].bid_count = auctions[c].bid_count
                        /\ c # a => auctions'[c] = auctions[c]
  BY <1>1 DEF Opened, AuctionRecord
<1>3. Opened' = Opened
  BY <1>1, VaultParts, FinalizedRecord DEF Opened, FinalizeAuction
<1>4. FinalizedHasBids'
  BY <1>1, <1>2, <1>3, BooksParts DEF FinalizedHasBids
<1>5. SupplyIsSum' /\ UNCHANGED <<auction_controller, minters, total_supply>>
  BY <1>1, BooksParts DEF SupplyIsSum, tokenVars, rolesVars
<1>6. EscrowInv'
  BY <1>1, BooksParts, UnchangedKeepsEscrow DEF tokenVars, AuctionInv
<1>7. QED
  BY <1>2, <1>4, <1>5, <1>6, BidMessageKeepsBooks

LEMMA WithdrawKeepsBooks ==
    ASSUME VaultInv, VaultInv', BooksInv, NEW caller \in Signers, NEW a \in AuctionIds,
           NEW b \in BidIds, WithdrawRefund(caller, a, b), UNCHANGED vaultVars
    PROVE  BooksInv'
<1>1. /\ caller \in Accounts /\ TokenTypeOK' /\ AuctionInv'
  BY ConstantTypes DEF VaultInv
<1>2. EscrowInv'
  BY <1>1, BooksParts, WithdrawKeepsEscrow
<1>3. auction_bids[<<a, b>>].amount \in Nat
  BY VaultParts, ConstantTypes
     DEF WithdrawRefund, Refundable, AuctionInv, AuctionTypeOK, BidRecord
<1>4. SupplyIsSum' /\ UNCHANGED <<auction_controller, minters, total_supply, auctions>>
  BY <1>1, <1>3, BooksParts, OwnersAreUsers, TransferSupply
     DEF WithdrawRefund, Transfer, rolesVars, tokenRoles
<1>5. QED
  BY <1>2, <1>4, BooksParts, FinalizedQuiet, BidMessageKeepsBooks

LEMMA AuctionStepKeepsBooks ==
    ASSUME VaultInv, VaultInv', BooksInv, AuctionStep
    PROVE  BooksInv'
<1>1. UNCHANGED vaultVars
  BY DEF AuctionStep
<1>2. CASE UNCHANGED <<bookVars, auction_controller, tokenVars>>
  <2>1. UNCHANGED <<auction_bids, auctions, balances, allowances, minters, total_supply>>
    BY <1>2 DEF bookVars, tokenVars
  <2>2. EscrowInv'
    BY <2>1, BooksParts, UnchangedKeepsEscrow DEF AuctionInv
  <2>3. SupplyIsSum'
    BY <2>1, BooksParts DEF SupplyIsSum
  <2>4. QED
    BY <1>1, <1>2, <2>1, <2>2, <2>3, BooksParts, FinalizedQuiet, BidMessageKeepsBooks
<1>3. QED
  BY <1>1, <1>2, PlaceBidKeepsBooks, FinalizeKeepsBooks, WithdrawKeepsBooks
     DEF AuctionStep, SetAdmin, Tick, rolesVars

----------------------------------------------------------------------------
(* Parameters, governance, the chain and the token's holders. *)

LEMMA ParamStepKeepsBooks ==
    ASSUME VaultInv, VaultInv', BooksInv, ParamStep
    PROVE  BooksInv'
<1>1. UNCHANGED <<bookkeepingVars, liquidationVars, custodyVars, auctionVars, tokenVars>>
  BY DEF ParamStep, SetContractParams, ExecuteContractParamsUpdate, CancelContractParamsUpdate,
         SetGlobalParams, ExecuteGlobalParamsUpdate, CancelGlobalParamsUpdate
<1>2. QED
  BY <1>1, BooksParts, StakeQuiet, SameBooksKeep
     DEF bookkeepingVars, custodyVars, auctionVars, bookVars, rolesVars

LEMMA ClaimSurplusKeepsBooks ==
    ASSUME VaultInv, VaultInv', BooksInv, NEW caller, NEW amount \in DebtAmounts,
           ClaimSurplusTusdt(caller, amount)
    PROVE  BooksInv'
<1> DEFINE claim == Min({amount, balances[VaultContract]})
<1>1. claim \in Nat
  <2>1. amount \in Nat /\ balances[VaultContract] \in Nat
    BY VaultParts, ConstantTypes DEF TokenTypeOK
  <2>2. QED
    BY <2>1, MinOfTwo
<1>2. /\ Transfer(VaultContract, treasury, claim)
      /\ UNCHANGED <<vaultVars, auctionVars>>
  BY DEF ClaimSurplusTusdt
<1> HIDE DEF claim
<1>3. treasury \in Accounts
  BY VaultParts DEF AdminTypeOK
<1>4. SupplyIsSum' /\ UNCHANGED <<minters, total_supply, allowances>>
  BY <1>1, <1>2, <1>3, BooksParts, OwnersAreUsers, TransferSupply DEF Transfer, tokenRoles
<1>5. EscrowInv'
  <2>1. /\ balances \in [Accounts -> Nat]
        /\ balances' = Moved(balances, VaultContract, treasury, claim)
    BY <1>2, BooksParts, ConstantTypes DEF Transfer, TokenTypeOK
  <2>2. /\ balances'[AuctionContract] \in Nat
        /\ balances'[AuctionContract] >= balances[AuctionContract]
    BY <1>1, <1>3, <2>1, OwnersAreUsers DEF Moved, Credited, Debited
  <2>3. QED
    BY <1>2, <1>4, <2>2, BooksParts, QuietKeepsEscrow DEF auctionVars, bookVars, AuctionInv
<1>6. QED
  BY <1>2, <1>4, <1>5, BooksParts, FinalizedQuiet, BidMessageKeepsBooks
     DEF auctionVars, bookVars, rolesVars

LEMMA BooksUntouched ==
    ASSUME VaultInv, VaultInv', BooksInv,
           UNCHANGED <<bookkeepingVars, liquidationVars, custodyVars, auctions, auction_bids,
                       auction_controller, tokenVars>>
    PROVE  BooksInv'
  BY BooksParts, StakeQuiet, SameBooksKeep DEF bookkeepingVars, custodyVars

LEMMA GovernanceStepKeepsBooks ==
    ASSUME VaultInv, VaultInv', BooksInv, GovernanceStep
    PROVE  BooksInv'
<1>2. ASSUME NEW account \in RoleChoices,
             \/ UpdateGovernance(governance, account)
             \/ UpdatePlatform(governance, account)
             \/ UpdateTreasury(governance, account)
      PROVE  BooksInv'
  BY <1>2, BooksUntouched
     DEF UpdateGovernance, UpdatePlatform, UpdateTreasury, auctionVars, bookVars, rolesVars
<1>3. ASSUME NEW caller, Pause(caller) \/ Unpause(caller) PROVE BooksInv'
  BY <1>3, BooksUntouched DEF Pause, Unpause, SetPaused, auctionVars, bookVars, rolesVars
<1>4. ASSUME NEW n \in Netuids, NEW approved \in BOOLEAN,
             SetApprovedNetuid(governance, n, approved)
      PROVE  BooksInv'
  <2>1. UNCHANGED <<bookkeepingVars, liquidationVars, custodyVars, auctions, auction_bids,
                    auction_controller, tokenVars>>
    BY <1>4 DEF SetApprovedNetuid, auctionVars, bookVars, rolesVars
  <2>2. QED
    BY <2>1, BooksUntouched
<1>5. ASSUME NEW n \in Netuids, ClaimExcessAlpha(governance, n) PROVE BooksInv'
  <2>1. UNCHANGED <<bookkeepingVars, liquidationVars, native, auctions, auction_bids,
                    auction_controller, tokenVars>>
    BY <1>5 DEF ClaimExcessAlpha, auctionVars, bookVars, rolesVars
  <2>2. StakeCoversCollateral'
    BY <1>5, BooksParts, ClaimKeepsStake
  <2>3. native' >= native
    BY <2>1, BooksParts
  <2>4. QED
    BY <2>1, <2>2, <2>3, SameBooksKeep
<1>6. ASSUME NEW hotkey \in Hotkeys, NEW netuids \in SUBSET Netuids,
             SetVaultHotkey(governance, hotkey, netuids)
      PROVE  BooksInv'
  BY <1>6, BooksParts, HotkeyKeepsStake, SameBooksKeep
     DEF SetVaultHotkey, auctionVars, bookVars, rolesVars
<1>7. ASSUME TransferNativeToTreasury(governance) PROVE BooksInv'
  <2>1. UNCHANGED <<bookkeepingVars, liquidationVars, stake, auctions, auction_bids,
                    auction_controller, tokenVars>>
    BY <1>7 DEF TransferNativeToTreasury, auctionVars, bookVars, rolesVars
  <2>2. MoneyInv'
    BY <2>1, BooksParts, MoneyQuiet DEF tokenVars, bookkeepingVars, DebtOf
  <2>3. TotalsExact' /\ StakeCoversCollateral'
    BY <2>1, BooksParts, TotalsQuiet, StakeQuiet DEF bookkeepingVars
  <2>4. Wiring' /\ FinalizedHasBids'
    BY <2>1, BooksParts, WiringQuiet, FinalizedQuiet DEF tokenVars
  <2>5. NativeCoversAuctions'
    BY <1>7, SweepKeepsNative
  <2>6. QED
    BY <2>2, <2>3, <2>4, <2>5 DEF BooksInv
<1>8. QED
  BY <1>2, <1>3, <1>4, <1>5, <1>6, <1>7, ClaimSurplusKeepsBooks DEF GovernanceStep

LEMMA ChainStepKeepsBooks ==
    ASSUME VaultInv, VaultInv', BooksInv, ChainStep
    PROVE  BooksInv'
<1> PICK amount \in ChainAmounts :
        \/ ReceiveNative(amount)
        \/ \E hotkey \in Hotkeys, netuid \in Netuids : Emission(hotkey, netuid, amount)
  BY DEF ChainStep
<1>1. amount \in Nat
  BY ConstantTypes
<1>2. CASE ReceiveNative(amount)
  BY <1>1, <1>2, BooksParts, StakeQuiet, SameBooksKeep
     DEF ReceiveNative, auctionVars, bookVars, rolesVars, bookkeepingVars
<1>3. ASSUME NEW h \in Hotkeys, NEW n \in Netuids, Emission(h, n, amount) PROVE BooksInv'
  <2>1. /\ stake' = [stake EXCEPT ![<<h, n>>] = @ + amount]
        /\ netuid_total_collateral' = netuid_total_collateral
        /\ netuid_total_collateral \in [Netuids -> Nat]
    BY <1>3, BooksParts DEF Emission, bookkeepingVars, SumTypes
  <2>2. PICK booked \in Int : booked = 0 /\ booked <= amount
    BY <1>1
  <2>3. netuid_total_collateral' = [netuid_total_collateral EXCEPT ![n] = @ + booked]
    BY <2>1, <2>2
  <2>4. amount \in Int
    BY <1>1
  <2>5. StakeCoversCollateral'
    BY <2>1, <2>2, <2>3, <2>4, BooksParts, StakeFollows
  <2>6. QED
    BY <1>3, <2>5, BooksParts, SameBooksKeep
       DEF Emission, auctionVars, bookVars, rolesVars
<1>4. QED
  BY <1>2, <1>3

LEMMA TokenStepKeepsBooks ==
    ASSUME VaultInv, VaultInv', BooksInv, TokenStep
    PROVE  BooksInv'
<1>1. PICK caller \in TokenUsers : HolderStep(caller, TokenPeers)
  BY DEF TokenStep
<1>2. caller \in Users /\ caller \in Accounts /\ TokenPeers \in SUBSET Accounts
  BY OwnersAreUsers, AuctionConstants DEF Users
<1>3. TokenTypeOK /\ TokenTypeOK' /\ UNCHANGED <<vaultVars, auctionVars>>
  BY DEF TokenStep, VaultInv
<1>4. SupplyIsSum'
  BY <1>1, <1>2, <1>3, BooksParts, HolderStepSupply
<1>5. EscrowInv'
  BY <1>1, <1>2, <1>3, BooksParts, HolderKeepsEscrow DEF auctionVars, bookVars, AuctionInv
<1>6. UNCHANGED <<minters, total_supply>>
  BY <1>1 DEF HolderStep, Transfer, TransferFrom, Approve, IncreaseAllowance, DecreaseAllowance,
              SetAllowance, tokenRoles
<1>7. QED
  BY <1>3, <1>4, <1>5, <1>6, BooksParts, FinalizedQuiet, BidMessageKeepsBooks
     DEF auctionVars, bookVars, rolesVars

LEMMA StepKeepsBooks ==
    ASSUME VaultInv, VaultInv', BooksInv, [Next]_vars
    PROVE  BooksInv'
<1>1. CASE VaultStep
  BY <1>1, CreateKeepsBooks, AddKeepsBooks, BorrowKeepsBooks, RepayKeepsBooks,
     ReleaseKeepsBooks, TriggerKeepsBooks, SettleKeepsBooks DEF VaultStep
<1>2. CASE UNCHANGED vars
  BY <1>2, BooksParts, StakeQuiet, SameBooksKeep
     DEF vars, vaultVars, bookkeepingVars, custodyVars, auctionVars, bookVars, rolesVars
<1>3. QED
  BY <1>1, <1>2, ParamStepKeepsBooks, GovernanceStepKeepsBooks, ChainStepKeepsBooks,
     AuctionStepKeepsBooks, TokenStepKeepsBooks DEF Next

LEMMA InitBooks ==
    ASSUME Init, VaultInv PROVE BooksInv
<1> USE DEF Init
<1>1. SumTypes
  BY SumTypesHold
<1>2. Wiring
  BY DEF Wiring, AuctionInit
<1>3. FinalizedHasBids
  BY DEF FinalizedHasBids, Opened, AuctionInit
<1>4. SupplyFollowsDebt
  <2>1. DebtOf \in [VaultKeys -> Int] /\ \A key \in VaultKeys : DebtOf[key] = 0
    BY DEF DebtOf
  <2>2. SumFunction(DebtOf) = 0
    BY <2>1, SumDomains, SumOfZeros
  <2>3. SumFunction(InitialBalances) \in Nat
    BY VaultConstants, ConstantTypes
  <2>4. QED
    BY <2>2, <2>3 DEF SupplyFollowsDebt
<1>5. EscrowInv
  <2>1. /\ HeldAmounts \in [AuctionIds \X BidIds -> Int]
        /\ \A ab \in AuctionIds \X BidIds : HeldAmounts[ab] = 0
    BY DEF HeldAmounts, AuctionInit
  <2>2. SumFunction(HeldAmounts) = 0
    BY <2>1, HeldDomain, SumOfZeros
  <2>3. balances[AuctionContract] \in Nat
    BY VaultConstants, OwnersAreUsers, ConstantTypes
  <2>4. QED
    BY <2>2, <2>3, VaultConstants DEF EscrowInv, EscrowUnspendable, EscrowCoversBids
<1>6. TotalsExact
  <2>1. ASSUME NEW n \in Netuids PROVE netuid_total_collateral[n] = SumFunction(CollateralOn(n))
    <3>1. /\ CollateralOn(n) \in [VaultKeys -> Int]
          /\ \A key \in VaultKeys : CollateralOn(n)[key] = 0
      BY DEF CollateralOn
    <3>2. SumFunction(CollateralOn(n)) = 0
      BY <3>1, SumDomains, SumOfZeros
    <3>3. QED
      BY <3>2
  <2>2. ASSUME NEW o \in Owners PROVE owner_total_debt[o] = SumFunction(OwedBy(o))
    <3>1. OwedBy(o) \in [VaultKeys -> Int] /\ \A key \in VaultKeys : OwedBy(o)[key] = 0
      BY DEF OwedBy, DebtOf
    <3>2. SumFunction(OwedBy(o)) = 0
      BY <3>1, SumDomains, SumOfZeros
    <3>3. QED
      BY <3>2
  <2>3. /\ netuid_total_collateral \in [Netuids -> Int]
        /\ \A n \in Netuids : netuid_total_collateral[n] = 0
    OBVIOUS
  <2>4. total_collateral_balance = SumFunction(netuid_total_collateral)
    BY <2>3, SumDomains, SumOfZeros
  <2>5. QED
    BY <2>1, <2>2, <2>4 DEF TotalsExact
<1>7. StakeCoversCollateral
  <2> SUFFICES ASSUME NEW n \in Netuids
               PROVE  SumFunction(AlphaUnder(n)) >= netuid_total_collateral[n]
    BY DEF StakeCoversCollateral
  <2>1. AlphaUnder(n) \in [Hotkeys -> Nat]
    BY <1>1 DEF SumTypes
  <2>2. SumFunction(AlphaUnder(n)) \in Nat
    BY <2>1, SumDomains, SumNat
  <2>3. QED
    BY <2>2
<1>8. NativeCoversAuctions
  <2>1. TaoOnSale \in [VaultKeys -> Int] /\ \A key \in VaultKeys : TaoOnSale[key] = 0
    BY DEF TaoOnSale
  <2>2. SumFunction(TaoOnSale) = 0
    BY <2>1, SumDomains, SumOfZeros
  <2>3. QED
    BY <2>2, ConstantTypes DEF NativeCoversAuctions
<1>9. QED
  BY <1>2, <1>3, <1>4, <1>5, <1>6, <1>7, <1>8 DEF BooksInv, MoneyInv, SupplyIsSum

LEMMA BooksInvariant == Spec => [](VaultInv /\ BooksInv)
<1>1. Init => VaultInv /\ BooksInv
  BY InitVaultInv, InitBooks
<1>2. VaultInv /\ BooksInv /\ [Next]_vars => VaultInv' /\ BooksInv'
  BY StepKeepsVaultInv, StepKeepsBooks
<1>3. QED
  BY <1>1, <1>2, PTL DEF Spec

----------------------------------------------------------------------------
(* Settlement.  ENABLED stays with the model checker; what is proved is     *)
(* that each condition of the settlement and of the messages it sends holds, *)
(* and that nothing else stands between a call and its effects.              *)

SettledDebt(key) ==
    Min({auctions[liquidation_auctions[key]].debt_balance, vaults[key].borrowed_token_balance})

\* Every "?" on the path of settle_liquidation_auction.
SettlementReady(key) ==
    LET a == liquidation_auctions[key]
        debt == SettledDebt(key)
        sold == auctions[a].collateral_balance
    IN  /\ a # None /\ auctions[a] # None /\ vaults[key] # None
        /\ auctions[a].is_finalized
        /\ auctions[a].highest_bidder # None
        /\ owner_total_debt[key[1]] >= vaults[key].borrowed_token_balance
        /\ owner_total_debt[key[1]] - debt <= MaxBalance
        /\ WinningBidReady(VaultContract, a)
        /\ CanMove(balances, AuctionContract, VaultContract, WinningBidOf(a))
        /\ VaultContract \in minters
        /\ Moved(balances, AuctionContract, VaultContract, WinningBidOf(a))[VaultContract] >= debt
        /\ total_supply >= debt
        /\ TransactionFee(sold) <= sold
        /\ CanSpendNative(sold)
        /\ active_liquidation_count > 0

\* What a successful call writes: one equation for each variable.
SettlementEffect(key) ==
    LET a == liquidation_auctions[key]
        debt == SettledDebt(key)
    IN  /\ owner_total_debt' = [owner_total_debt EXCEPT ![key[1]] = @ - debt]
        /\ vaults' = [vaults EXCEPT ![key].borrowed_token_balance = @ - debt]
        /\ MarkWinningBidPaid(a)
        /\ balances' = Debited(Moved(balances, AuctionContract, VaultContract, WinningBidOf(a)),
                               VaultContract, debt)
        /\ total_supply' = total_supply - debt
        /\ native' = native - auctions[a].collateral_balance
        /\ liquidation_auctions' = [liquidation_auctions EXCEPT ![key] = None]
        /\ active_liquidation_count' = active_liquidation_count - 1
        /\ UNCHANGED <<adminVars, paramVars, vault_count, total_collateral_balance,
                       netuid_total_collateral, vault_hotkey, stake, now, rolesVars,
                       auction_count, auctions, auction_bidder_bids, indexVars,
                       tokenRoles, allowances>>

LEMMA MarkedIsCounted ==
    ASSUME VaultInv, NEW key \in InLiquidation
    PROVE  active_liquidation_count > 0
<1>1. IsFiniteSet(InLiquidation)
  BY SumDomains, FS_Subset DEF InLiquidation
<1>2. active_liquidation_count = Cardinality(InLiquidation)
  BY VaultParts DEF LiquidationInv, LiquidationCountExact
<1>3. Cardinality(InLiquidation) # 0 /\ Cardinality(InLiquidation) \in Nat
  BY <1>1, FS_EmptySet, FS_CardinalityType
<1>4. QED
  BY <1>2, <1>3

\* The winning bid of a finalized liquidation is held, and is at least the debt.
LEMMA WinningBidCoversDebt ==
    ASSUME VaultInv, BooksInv, NEW key \in InLiquidation, NEW a \in AuctionIds,
           a = liquidation_auctions[key], auctions[a].is_finalized
    PROVE  /\ SellsVault(a, key)
           /\ auctions[a].highest_bidder # None
           /\ WinningBidReady(VaultContract, a)
           /\ WinningBidOf(a) \in Nat
           /\ WinningBidOf(a) >= auctions[a].debt_balance
           /\ balances[AuctionContract] >= WinningBidOf(a)
<1> DEFINE b == auctions[a].highest_bid_id
<1>1. SellsVault(a, key)
  BY VaultParts DEF InLiquidation, LiquidationInv, MarkerMatchesAuction
<1>2. /\ a \in Opened /\ auctions[a].bid_count # 0
      /\ auctions[a] \in AuctionRecord
  BY <1>1, BooksParts DEF SellsVault, Opened, FinalizedHasBids, AuctionInv, AuctionTypeOK
<1>3. /\ b \in BidsOf(a)
      /\ auction_bids[<<a, b>>].bidder = auctions[a].highest_bidder
      /\ auction_bids[<<a, b>>].amount >= auctions[a].min_bid
  BY <1>2, BooksParts DEF AuctionInv, LeadersAreHighest, LeaderHoldsBid, BidInBounds
<1>4. b \in BidIds /\ auction_bids[<<a, b>>] # None /\ auction_bids[<<a, b>>] \in BidRecord
  BY <1>3, BooksParts DEF BidsOf, AuctionInv, AuctionTypeOK
<1>5. auctions[a].highest_bidder # None
  BY <1>3, <1>4, NoneAssumption DEF BidRecord
<1>6. ~auction_bids[<<a, b>>].is_withdrawn
  BY <1>1, <1>3 DEF SellsVault, WinningBidHeld
<1>7. /\ WinningBidOf(a) = auction_bids[<<a, b>>].amount
      /\ WinningBidOf(a) \in Nat /\ auctions[a].min_bid \in Nat /\ auctions[a].debt_balance \in Nat
  BY <1>2, <1>4, ConstantTypes DEF WinningBidOf, BidRecord, AuctionRecord
<1>8. WinningBidOf(a) >= auctions[a].debt_balance
  BY <1>1, <1>3, <1>7 DEF SellsVault
<1>9. WinningBidReady(VaultContract, a)
  BY <1>2, <1>4, <1>6, BooksParts, NoneAssumption DEF WinningBidReady, Wiring, Opened
<1>10. balances[AuctionContract] >= WinningBidOf(a)
  <2>1. HeldAmounts \in [AuctionIds \X BidIds -> Nat] /\ IsFiniteSet(AuctionIds \X BidIds)
    BY BooksParts, HeldType, HeldDomain DEF AuctionInv
  <2>2. HeldAmounts[<<a, b>>] = WinningBidOf(a)
    BY <1>4, <1>6, <1>7 DEF HeldAmounts
  <2>3. SumFunction(HeldAmounts) \in Nat /\ HeldAmounts[<<a, b>>] <= SumFunction(HeldAmounts)
    BY <2>1, <1>4, SumAtLeastTerm
  <2>4. balances[AuctionContract] \in Nat
    BY BooksParts, OwnersAreUsers, ConstantTypes DEF TokenTypeOK
  <2>5. QED
    BY <2>2, <2>3, <2>4, <1>7, BooksParts DEF EscrowInv, EscrowCoversBids
<1>11. QED
  BY <1>1, <1>5, <1>7, <1>8, <1>9, <1>10

\* A ratio of at most one takes at most the whole.
LEMMA FeeAtMostAmount ==
    ASSUME NEW ratio \in Nat, ratio <= RatioOne, NEW amount \in Nat
    PROVE  MulValue(ratio, amount) <= amount
<1>1. ratio * amount <= RatioOne * amount
  BY ProductMonotone, RatioOneAssumption
<1>2. QED
  BY <1>1, RatioOneAssumption DEF MulValue

LEMMA DebtIsCounted ==
    ASSUME VaultInv, BooksInv, NEW key \in VaultKeys, vaults[key] # None
    PROVE  /\ vaults[key].borrowed_token_balance \in Nat
           /\ vaults[key].borrowed_token_balance <= owner_total_debt[key[1]]
           /\ vaults[key].borrowed_token_balance <= total_supply
<1> DEFINE owner == key[1]
           debt == vaults[key].borrowed_token_balance
<1>1. owner \in Owners
  BY DEF VaultKeys
<1>2. /\ DebtOf \in [VaultKeys -> Nat] /\ OwedBy(owner) \in [VaultKeys -> Nat]
      /\ DebtOf[key] = debt /\ OwedBy(owner)[key] = debt
  BY <1>1, BooksParts DEF SumTypes, DebtOf, OwedBy
<1>3. debt <= SumFunction(DebtOf) /\ SumFunction(DebtOf) \in Nat
  BY <1>2, SumDomains, SumAtLeastTerm
<1>4. debt <= SumFunction(OwedBy(owner))
  BY <1>2, SumDomains, SumAtLeastTerm
<1>5. QED
  BY <1>1, <1>2, <1>3, <1>4, BooksParts DEF SupplyFollowsDebt, TotalsExact

LEMMA FinalizedIsReady ==
    ASSUME VaultInv, BooksInv, NEW key \in InLiquidation,
           auctions[liquidation_auctions[key]].is_finalized
    PROVE  SettlementReady(key)
<1> PICK a \in AuctionIds : a = liquidation_auctions[key]
  BY VaultParts DEF InLiquidation, LiquidationTypeOK
<1> DEFINE debt == SettledDebt(key)
           sold == auctions[a].collateral_balance
           bid == WinningBidOf(a)
<1>1. /\ SellsVault(a, key)
      /\ auctions[a].highest_bidder # None
      /\ WinningBidReady(VaultContract, a)
      /\ bid \in Nat /\ bid >= auctions[a].debt_balance
      /\ balances[AuctionContract] >= bid
  BY WinningBidCoversDebt
<1>2. /\ key \in VaultKeys /\ vaults[key] # None /\ auctions[a] # None /\ a # None
      /\ vaults[key].borrowed_token_balance \in Nat
      /\ vaults[key].borrowed_token_balance <= owner_total_debt[key[1]]
      /\ vaults[key].borrowed_token_balance <= total_supply
  BY <1>1, NoneAssumption, DebtIsCounted DEF InLiquidation, SellsVault
<1>3. debt = vaults[key].borrowed_token_balance /\ debt = auctions[a].debt_balance
  BY <1>1, <1>2, MinOfTwo DEF SettledDebt, SellsVault
<1> HIDE DEF debt
<1>4. /\ owner_total_debt[key[1]] \in Nat /\ owner_total_debt[key[1]] <= MaxBalance
      /\ MaxBalance \in Nat
  BY <1>2, VaultParts, MaxBalanceAssumption DEF VaultKeys, BookkeepingTypeOK, Balance
<1>5. CanMove(balances, AuctionContract, VaultContract, bid)
  BY <1>1, BooksParts, OwnersAreUsers, MoveAlwaysFits
<1>6. Moved(balances, AuctionContract, VaultContract, bid)[VaultContract] >= debt
  <2>1. /\ balances \in [Accounts -> Nat]
        /\ VaultContract \in Accounts /\ AuctionContract \in Accounts
        /\ VaultContract # AuctionContract
    BY BooksParts, ConstantTypes, OwnersAreUsers, VaultConstants DEF TokenTypeOK
  <2>2. Moved(balances, AuctionContract, VaultContract, bid)[VaultContract]
           = balances[VaultContract] + bid
    BY <2>1 DEF Moved, Credited, Debited
  <2>3. QED
    BY <2>1, <2>2, <1>1, <1>2, <1>3
<1>7. sold \in Nat
  BY <1>2, BooksParts, ConstantTypes DEF AuctionInv, AuctionTypeOK, AuctionRecord
<1>8. TransactionFee(sold) <= sold
  BY <1>7, VaultParts, FeeAtMostAmount
     DEF TransactionFee, ParamsOK, ValidGlobals, ParamTypeOK, Globals, RatioValue
<1>9. CanSpendNative(sold)
  <2>1. TaoOnSale \in [VaultKeys -> Nat] /\ TaoOnSale[key] = sold
    BY <1>2, BooksParts DEF SumTypes, TaoOnSale
  <2>2. sold <= SumFunction(TaoOnSale) /\ SumFunction(TaoOnSale) \in Nat
    BY <2>1, <1>2, SumDomains, SumAtLeastTerm
  <2>3. QED
    BY <2>2, <1>7, BooksParts, ConstantTypes DEF CanSpendNative, NativeCoversAuctions
<1>10. VaultContract \in minters
  BY BooksParts DEF Wiring
<1>11. active_liquidation_count > 0
  BY MarkedIsCounted
<1>12. /\ owner_total_debt[key[1]] - debt <= MaxBalance
       /\ total_supply >= debt
  BY <1>2, <1>3, <1>4, BooksParts DEF SumTypes
<1> HIDE DEF sold, bid
<1>13. QED
  BY <1>1, <1>2, <1>3, <1>5, <1>6, <1>8, <1>9, <1>10, <1>11, <1>12
     DEF SettlementReady, debt, sold, bid

\* The settlement is these conditions and these effects, and nothing else: a step
\* that takes the effects where the conditions hold is a settlement.
LEMMA ReadySettles ==
    ASSUME VaultInv, NEW key \in VaultKeys, SettlementReady(key), SettlementEffect(key)
    PROVE  SettleLiquidationAuction(key)
<1> DEFINE a == liquidation_auctions[key]
           debt == SettledDebt(key)
           owed == vaults[key].borrowed_token_balance
           total == owner_total_debt[key[1]]
<1>1. /\ vaults[key] # None /\ total >= owed /\ total - debt <= MaxBalance
      /\ TakeWinningBid(a, debt)
      /\ TransactionFee(auctions[a].collateral_balance) <= auctions[a].collateral_balance
      /\ CanSpendNative(auctions[a].collateral_balance)
      /\ LeaveLiquidation(key)
  BY DEF SettlementReady, SettlementEffect, TakeWinningBid, LeaveLiquidation
<1>2. vaults[key] \in VaultRecord /\ owed \in Nat /\ total \in Nat /\ debt \in Nat
  <2>1. vaults[key] \in VaultRecord /\ owed \in Nat
    BY <1>1, VaultParts, ConstantTypes DEF BookkeepingTypeOK, VaultRecord
  <2>2. total \in Nat
    BY VaultParts, ConstantTypes DEF BookkeepingTypeOK, VaultKeys
  <2>3. auctions[a].debt_balance \in Nat
    BY VaultParts, ConstantTypes
       DEF SettlementReady, AuctionInv, AuctionTypeOK, AuctionRecord, LiquidationTypeOK
  <2>4. QED
    BY <2>1, <2>2, <2>3, MinOfTwo DEF SettledDebt
<1>3. SaveVault(key, [vaults[key] EXCEPT !.borrowed_token_balance = @ - debt])
  <2>1. total - owed + (owed - debt) = total - debt
    BY <1>2
  <2>2. [vaults[key] EXCEPT !.borrowed_token_balance = @ - debt].borrowed_token_balance
           = owed - debt
    BY <1>2 DEF VaultRecord
  <2>3. vaults' = [vaults EXCEPT ![key] = [vaults[key] EXCEPT !.borrowed_token_balance = @ - debt]]
    BY VaultParts DEF SettlementEffect, BookkeepingTypeOK
  <2>4. QED
    BY <1>1, <2>1, <2>2, <2>3 DEF SaveVault, SettlementEffect
<1>4. QED
  BY <1>1, <1>3 DEF SettleLiquidationAuction, SettlementReady, SettlementEffect, SettledDebt

\* What has been issued is what accounts hold, in the system that mints and burns it.
THEOREM VaultSupplyIsSum == Spec => []SupplyIsSum
<1>1. BooksInv => SupplyIsSum
  BY DEF BooksInv, MoneyInv
<1>2. QED
  BY <1>1, BooksInvariant, PTL

\* Every token beyond those of the start is owed by some vault, one that is being
\* liquidated included: no path mints or burns what the books do not record.
THEOREM VaultSupplyFollowsDebt == Spec => []SupplyFollowsDebt
<1>1. BooksInv => SupplyFollowsDebt
  BY DEF BooksInv, MoneyInv
<1>2. QED
  BY <1>1, BooksInvariant, PTL

\* The three kinds of total are the sums over the vaults that they stand for: their
\* checked subtractions never fail.
THEOREM VaultTotalsExact == Spec => []TotalsExact
<1>1. BooksInv => TotalsExact
  BY DEF BooksInv
<1>2. QED
  BY <1>1, BooksInvariant, PTL

\* The alpha under the contract's hotkeys covers the collateral of every netuid,
\* through hotkey moves and claims of the excess.
THEOREM VaultStakeCoversCollateral == Spec => []StakeCoversCollateral
<1>1. BooksInv => StakeCoversCollateral
  BY DEF BooksInv
<1>2. QED
  BY <1>1, BooksInvariant, PTL

\* The TAO of every auction that has not been settled is there, beyond the
\* existential deposit: the gate keeps the sweep away from it.
THEOREM VaultNativeCoversAuctions == Spec => []NativeCoversAuctions
<1>1. BooksInv => NativeCoversAuctions
  BY DEF BooksInv
<1>2. QED
  BY <1>1, BooksInvariant, PTL

\* The auction can pay every bid it holds, refunds and winning bids alike, with the
\* vault as its controller.
THEOREM VaultEscrowCoversBids == Spec => []EscrowCoversBids
<1>1. BooksInv => EscrowCoversBids
  BY DEF BooksInv, MoneyInv, EscrowInv
<1>2. QED
  BY <1>1, BooksInvariant, PTL

\* Once its auction is finalized a vault can be settled: the bid is there and not
\* paid yet, it covers the debt, the TAO is there beyond the existential deposit,
\* the fee is at most 100%, and no counter or total underflows.
THEOREM VaultFinalizedCanSettle ==
    Spec => [](\A key \in InLiquidation :
                  auctions[liquidation_auctions[key]].is_finalized => SettlementReady(key))
<1>1. VaultInv /\ BooksInv =>
         \A key \in InLiquidation :
            auctions[liquidation_auctions[key]].is_finalized => SettlementReady(key)
  BY FinalizedIsReady
<1>2. QED
  BY <1>1, BooksInvariant, PTL

----------------------------------------------------------------------------
(* The sale of a vault implements the abstract sale. *)

SaleMap == [a \in AuctionIds |-> SaleOf(a)]

\* An auction that is open or decided is the one its vault is marked with.
LEMMA PendingIsMarked ==
    ASSUME VaultInv, NEW a \in AuctionIds, SaleOf(a).stage \in {"open", "decided"}
    PROVE  /\ a \in Opened
           /\ SaleOf(a).vault = auctions[a].vault
           /\ auctions[a].vault \in VaultKeys
           /\ liquidation_auctions[auctions[a].vault] = a
<1>1. auctions[a] # None
  BY DEF SaleOf
<1>2. /\ a \in Opened
      /\ auctions[a].vault \in VaultKeys
      /\ SaleOf(a).vault = auctions[a].vault
      /\ SaleOf(a).stage = StageOf(a)
  BY <1>1, VaultParts DEF SaleOf, Opened, AuctionInv, AuctionTypeOK, AuctionRecord
<1>3. liquidation_auctions[auctions[a].vault] = a
  <2>1. CASE auctions[a].is_finalized
    BY <1>2, <2>1 DEF StageOf
  <2>2. CASE ~auctions[a].is_finalized
    BY <1>2, <2>2, VaultParts DEF LiquidationInv, OpenAuctionIsMarked, Unfinalized
  <2>3. QED
    BY <2>1, <2>2
<1>4. QED
  BY <1>2, <1>3

LEMMA UnmarkedIsNotOnSale ==
    ASSUME VaultInv, NEW key \in VaultKeys, liquidation_auctions[key] = None
    PROVE  ~Sale!OnSale(key)
  BY PendingIsMarked, NoneAssumption DEF Sale!OnSale, Sale!Pending

\* Nothing is on sale while the gate on the sweep is open.
LEMMA NothingIsPending ==
    ASSUME VaultInv, NoActiveLiquidations
    PROVE  \A a \in AuctionIds : ~Sale!Pending(a)
<1>1. IsFiniteSet(InLiquidation) /\ Cardinality(InLiquidation) = 0
  BY ConstantTypes, FS_Subset, VaultParts
     DEF InLiquidation, LiquidationInv, LiquidationCountExact, NoActiveLiquidations
<1>2. InLiquidation = {}
  BY <1>1, FS_EmptySet
<1>3. QED
  BY <1>2, PendingIsMarked, NoneAssumption DEF Sale!Pending, InLiquidation

LEMMA SalesUntouched ==
    ASSUME UNCHANGED <<auctions, liquidation_auctions>>
    PROVE  UNCHANGED SaleMap
  BY DEF SaleMap, SaleOf, StageOf

LEMMA DebtsUntouched ==
    ASSUME UNCHANGED vaults
    PROVE  UNCHANGED DebtOf
  BY DEF DebtOf

\* Whatever moves only tokens, roles, parameters, alpha or time is no step of a sale.
LEMMA SaleStutters ==
    ASSUME UNCHANGED <<auctions, liquidation_auctions, DebtOf, total_supply, native>>
    PROVE  UNCHANGED Sale!saleVars
  BY SalesUntouched DEF Sale!saleVars, SaleMap

LEMMA DebtAfterSave ==
    ASSUME VaultInv, NEW key \in VaultKeys, NEW vault \in VaultRecord, SaveVault(key, vault)
    PROVE  /\ DebtOf \in [VaultKeys -> Nat]
           /\ vault.borrowed_token_balance \in Nat
           /\ DebtOf' = [DebtOf EXCEPT ![key] = vault.borrowed_token_balance]
<1>1. \A k \in VaultKeys : vaults'[k] = IF k = key THEN vault ELSE vaults[k]
  BY VaultParts, SavedVault
<1>2. DebtOf \in [VaultKeys -> Nat]
  BY SumTypesHold DEF SumTypes
<1>3. vault # None /\ vault.borrowed_token_balance \in Nat
  BY VaultConstants, ConstantTypes DEF VaultRecord
<1>4. QED
  BY <1>1, <1>2, <1>3 DEF DebtOf

\* Creating a vault, and adding or releasing collateral, leave what is owed alone.
LEMMA CollateralMessageStutters ==
    ASSUME VaultInv, NEW key \in VaultKeys, NEW vault \in VaultRecord, SaveVault(key, vault),
           vault.borrowed_token_balance = DebtOf[key],
           UNCHANGED <<liquidationVars, native, auctionVars, tokenVars>>
    PROVE  UNCHANGED Sale!saleVars
<1>1. UNCHANGED DebtOf
  BY DebtAfterSave
<1>2. QED
  BY <1>1, SaleStutters DEF liquidationVars, auctionVars, bookVars, tokenVars

\* A vault that may be borrowed on or repaid is not on sale.
LEMMA DebtMessageMaps ==
    ASSUME VaultInv, NEW key \in VaultKeys, UsableVault(key), NEW vault \in VaultRecord,
           NEW delta \in Int, delta # 0,
           SaveVault(key, vault),
           vault.borrowed_token_balance = vaults[key].borrowed_token_balance + delta,
           total_supply' = total_supply + delta,
           UNCHANGED <<liquidationVars, native, auctionVars>>
    PROVE  Sale!Lend(key) \/ Sale!Repay(key)
<1>1. /\ DebtOf \in [VaultKeys -> Nat]
      /\ DebtOf' = [DebtOf EXCEPT ![key] = vault.borrowed_token_balance]
      /\ vault.borrowed_token_balance \in Nat
  BY DebtAfterSave
<1>2. DebtOf[key] = vaults[key].borrowed_token_balance /\ DebtOf[key] \in Nat
  BY <1>1 DEF DebtOf, UsableVault
<1>3. DebtOf'[key] = DebtOf[key] + delta
  BY <1>1, <1>2
<1>4. DebtOf' = [DebtOf EXCEPT ![key] = DebtOf'[key]]
  BY <1>1
<1>5. ~Sale!OnSale(key)
  BY UnmarkedIsNotOnSale DEF UsableVault
<1>6. UNCHANGED SaleMap /\ UNCHANGED native
  BY SalesUntouched DEF liquidationVars, auctionVars, bookVars
<1>7. total_supply \in Nat
  BY SumTypesHold DEF SumTypes
<1>8. CASE delta > 0
  <2>1. /\ DebtOf'[key] > DebtOf[key]
        /\ total_supply' = total_supply + (DebtOf'[key] - DebtOf[key])
    BY <1>2, <1>3, <1>7, <1>8
  <2>2. QED
    BY <2>1, <1>4, <1>5, <1>6 DEF Sale!Lend, SaleMap
<1>9. CASE delta < 0
  <2>1. /\ DebtOf'[key] < DebtOf[key]
        /\ total_supply' = total_supply - (DebtOf[key] - DebtOf'[key])
    BY <1>2, <1>3, <1>7, <1>9
  <2>2. QED
    BY <2>1, <1>4, <1>5, <1>6 DEF Sale!Repay, SaleMap
<1>10. QED
  BY <1>8, <1>9

\* Changing one auction, and no marker that another auction reads, changes one sale.
LEMMA OneSaleChanges ==
    ASSUME VaultInv, NEW a \in AuctionIds,
           \A c \in AuctionIds \ {a} : auctions'[c] = auctions[c],
           \A c \in Opened \ {a} :
              liquidation_auctions'[auctions[c].vault] = c
                 <=> liquidation_auctions[auctions[c].vault] = c
    PROVE  SaleMap' = [SaleMap EXCEPT ![a] = SaleOf(a)']
<1>1. ASSUME NEW c \in AuctionIds, c # a
      PROVE  SaleOf(c)' = SaleOf(c)
  BY <1>1 DEF SaleOf, StageOf, Opened
<1>2. QED
  BY <1>1 DEF SaleMap

\* Triggering a liquidation opens the sale of the vault's whole debt.
LEMMA TriggerOpens ==
    ASSUME VaultInv, NEW key \in VaultKeys, NEW price \in Prices, NEW tao \in TaoReceipts,
           TriggerLiquidationAuction(key, price, tao)
    PROVE  \E a \in AuctionIds : Sale!Open(a, key)
<1> DEFINE vault == vaults[key]
           debt == vault.borrowed_token_balance
           min_bid == LiquidationMinBid(vault.netuid, debt)
           duration == global_params.auction_duration_ms
           new == [vault EXCEPT !.collateral_balance = 0]
<1>1. /\ UsableVault(key)
      /\ IsLiquidatable(price, vault)
      /\ tao \in Balance /\ tao \in Nat /\ tao > 0
      /\ native' = native + tao
      /\ SaveVault(key, new)
      /\ min_bid <= MaxBalance
      /\ CreateAuction(VaultContract, key, tao, debt, min_bid, duration)
      /\ EnterLiquidation(key, auction_count)
      /\ UNCHANGED tokenVars
  BY ConstantTypes DEF TriggerLiquidationAuction
<1>2. /\ vault \in VaultRecord /\ vault.netuid \in Netuids
      /\ vault.collateral_balance \in Nat
      /\ debt \in Nat /\ debt \in Balance
      /\ vault # None
  BY <1>1, UsableVaultRecord DEF VaultRecord, UsableVault
<1>3. new \in VaultRecord /\ new.borrowed_token_balance = debt
  BY <1>2, MaxBalanceAssumption DEF VaultRecord, Balance
<1>4. debt > 0
  <2>1. LiquidationLimit(vault.netuid, price, vault.collateral_balance) \in Nat
    BY <1>2, VaultParts, LimitTypes, ConstantTypes
  <2>2. QED
    BY <2>1, <1>1, <1>2 DEF IsLiquidatable
<1>5. min_bid \in Balance /\ duration \in Nat
  <2>1. min_bid \in Nat
    BY <1>2, VaultParts, MinBidCoversDebt
  <2>2. QED
    BY <2>1, <1>1, MaxBalanceAssumption, VaultParts DEF Balance, ParamTypeOK, Globals
<1> HIDE DEF min_bid, duration, new
<1> PICK a \in AuctionIds : a = auction_count
  BY <1>1, <1>2, <1>5, VaultParts, CreatedRecord
<1>6. /\ a \notin Opened
      /\ \A c \in Opened : auctions'[c] = auctions[c]
      /\ auctions'[a] = [vault |-> key, collateral_balance |-> tao,
                         debt_balance |-> debt, min_bid |-> min_bid,
                         ends_at |-> now + duration,
                         highest_bidder |-> None, highest_bid |-> 0, highest_bid_id |-> None,
                         bid_count |-> 0, is_finalized |-> FALSE]
      /\ auctions'[a] \in AuctionRecord
  <2>1. AuctionInv /\ CreateAuction(VaultContract, key, tao, debt, min_bid, duration)
    BY <1>1, VaultParts
  <2>2. /\ a \notin Opened
        /\ a \in Opened'
        /\ auctions' \in [AuctionIds -> AuctionRecord \cup {None}]
        /\ \A c \in Opened : auctions'[c] = auctions[c]
        /\ auctions'[a] = [vault |-> key, collateral_balance |-> tao,
                         debt_balance |-> debt, min_bid |-> min_bid,
                         ends_at |-> now + duration,
                         highest_bidder |-> None, highest_bid |-> 0, highest_bid_id |-> None,
                         bid_count |-> 0, is_finalized |-> FALSE]
    BY <2>1, <1>1, <1>2, <1>5, CreatedRecord
  <2>3. QED
    BY <2>2 DEF Opened
<1>7. \A c \in AuctionIds \ {a} : auctions'[c] = auctions[c]
  BY <1>1 DEF CreateAuction
<1>8. \A k \in VaultKeys :
         liquidation_auctions'[k] = IF k = key THEN a ELSE liquidation_auctions[k]
  BY <1>1, VaultParts DEF EnterLiquidation, LiquidationTypeOK
<1>9. SaleMap' = [SaleMap EXCEPT ![a] = SaleOf(a)']
  <2>1. \A c \in Opened \ {a} : auctions[c].vault \in VaultKeys
    BY VaultParts DEF AuctionInv, AuctionTypeOK, AuctionRecord, Opened
  <2>2. liquidation_auctions[key] = None
    BY <1>1 DEF UsableVault
  <2>3. \A c \in Opened \ {a} :
           liquidation_auctions'[auctions[c].vault] = c
              <=> liquidation_auctions[auctions[c].vault] = c
    BY <1>8, <2>1, <2>2, NoneAssumption DEF Opened
  <2>4. QED
    BY <1>7, <2>3, OneSaleChanges
<1>10. SaleOf(a)' = [vault |-> key, debt |-> debt, lot |-> tao, price |-> 0,
                     winner |-> None, stage |-> "open"]
  <2>1. auctions'[a] # None
    BY <1>6, NoneAssumption
  <2>2. QED
    BY <1>6, <2>1 DEF SaleOf, StageOf
<1>11. DebtOf[key] = debt /\ UNCHANGED DebtOf
  <2>1. DebtOf[key] = debt
    BY <1>2 DEF DebtOf
  <2>2. QED
    BY <1>1, <1>3, <2>1, DebtAfterSave
<1>12. native' > native /\ tao = native' - native
  BY <1>1, SumTypesHold DEF SumTypes
<1>13. /\ SaleMap[a] = Sale!NotOpened
       /\ SaleMap' = [SaleMap EXCEPT ![a] =
             [vault |-> key, debt |-> DebtOf[key], lot |-> native' - native, price |-> 0,
              winner |-> None, stage |-> "open"]]
  BY <1>6, <1>9, <1>10, <1>11, <1>12 DEF SaleMap, SaleOf, Opened, Sale!NotOpened
<1>14. ~Sale!OnSale(key)
  BY <1>1, UnmarkedIsNotOnSale DEF UsableVault
<1>15. QED
  BY <1>1, <1>4, <1>11, <1>12, <1>13, <1>14 DEF Sale!Open, SaleMap, tokenVars

\* Two fields of one entry, replaced together.
LEMMA RaisedEntry ==
    ASSUME NEW S, NEW f, f = [c \in S |-> f[c]], NEW a \in S, NEW p, NEW w
    PROVE  [f EXCEPT ![a] = [[f[a] EXCEPT !.price = p] EXCEPT !.winner = w]]
              = [f EXCEPT ![a].price = p, ![a].winner = w]
  OBVIOUS

\* A bid raises the price to at least the debt, or leaves the leader alone.
LEMMA BidMaps ==
    ASSUME VaultInv, NEW x \in Accounts, NEW a \in AuctionIds, NEW amount \in Balance,
           PlaceBid(x, a, amount), UNCHANGED vaultVars
    PROVE  Sale!Bid(a) \/ UNCHANGED Sale!saleVars
<1>1. /\ a \in Unfinalized /\ a \in Opened
      /\ auctions \in [AuctionIds -> AuctionRecord \cup {None}]
      /\ auctions[a] \in AuctionRecord
      /\ auctions[a].vault \in VaultKeys
      /\ auctions[a].min_bid \in Nat /\ auctions[a].debt_balance \in Nat
      /\ auctions[a].highest_bid \in Nat
      /\ amount \in Nat /\ amount >= auctions[a].min_bid
  BY VaultParts, ConstantTypes
     DEF AuctionInv, AuctionTypeOK, PlaceBid, BidAllowed, Unfinalized, Opened, AuctionRecord
<1>2. auctions[a].min_bid >= auctions[a].debt_balance
  <2>1. liquidation_auctions[auctions[a].vault] = a
    BY <1>1, VaultParts DEF LiquidationInv, OpenAuctionIsMarked
  <2>2. SellsVault(a, auctions[a].vault)
    BY <2>1, <1>1, NoneAssumption, MarkedIsOpened
  <2>3. QED
    BY <2>2 DEF SellsVault
<1>3. PICK rec \in AuctionRecord :
         /\ auctions' = [auctions EXCEPT ![a] = rec]
         /\ rec.vault = auctions[a].vault
         /\ rec.debt_balance = auctions[a].debt_balance
         /\ rec.collateral_balance = auctions[a].collateral_balance
         /\ rec.is_finalized = auctions[a].is_finalized
  BY VaultParts, PlacedBid
<1>4. \/ rec.highest_bid = amount /\ amount > auctions[a].highest_bid
      \/ /\ rec.highest_bid = auctions[a].highest_bid
         /\ rec.highest_bidder = auctions[a].highest_bidder
  <2>1. auctions'[a] = rec
    BY <1>1, <1>3
  <2>2. CASE NewBid(x, a, amount)
    <3> DEFINE counted == [auctions[a] EXCEPT !.bid_count = @ + 1]
    <3>1. /\ counted.highest_bid = auctions[a].highest_bid
          /\ counted.highest_bidder = auctions[a].highest_bidder
          /\ counted \in AuctionRecord
      BY <1>1, <2>2, AuctionConstants DEF AuctionRecord, NewBid
    <3> HIDE DEF counted
    <3>2. auctions'[a] = Leading(counted, x, auctions[a].bid_count, amount)
      BY <1>1, <2>2 DEF NewBid, counted
    <3>3. QED
      BY <2>1, <3>1, <3>2 DEF Leading, AuctionRecord
  <2>3. CASE RaiseBid(x, a, amount)
    <3>1. auctions'[a] = Leading(auctions[a], x, auction_bidder_bids[<<a, x>>], amount)
      BY <1>1, <2>3 DEF RaiseBid
    <3>2. QED
      BY <1>1, <2>1, <3>1 DEF Leading, AuctionRecord
  <2>4. QED
    BY <2>2, <2>3 DEF PlaceBid
<1>5. rec # None /\ auctions[a] # None
  BY <1>1, NoneAssumption
<1>6. UNCHANGED <<liquidation_auctions, DebtOf, total_supply, native>>
  BY DEF vaultVars, liquidationVars, bookkeepingVars, custodyVars, DebtOf, PlaceBid, NewBid,
         RaiseBid, TransferFrom
<1>7. SaleMap' = [SaleMap EXCEPT ![a] = SaleOf(a)']
  BY <1>3, <1>6, OneSaleChanges
<1>8. /\ SaleOf(a) = [vault |-> auctions[a].vault, debt |-> auctions[a].debt_balance,
                      lot |-> auctions[a].collateral_balance,
                      price |-> auctions[a].highest_bid,
                      winner |-> auctions[a].highest_bidder, stage |-> "open"]
      /\ SaleOf(a)' = [vault |-> auctions[a].vault, debt |-> auctions[a].debt_balance,
                       lot |-> auctions[a].collateral_balance,
                       price |-> rec.highest_bid,
                       winner |-> rec.highest_bidder, stage |-> "open"]
  BY <1>1, <1>3, <1>5 DEF SaleOf, StageOf, Unfinalized
<1>9. CASE rec.highest_bid = amount /\ amount > auctions[a].highest_bid
  <2>1. /\ SaleMap[a] = SaleOf(a) /\ SaleMap'[a] = SaleOf(a)'
        /\ SaleMap' = [SaleMap EXCEPT ![a].price = SaleMap'[a].price,
                                      ![a].winner = SaleMap'[a].winner]
    <3>1. SaleMap[a] = SaleOf(a) /\ SaleMap'[a] = SaleOf(a)'
      BY DEF SaleMap
    <3> DEFINE p == rec.highest_bid
               w == rec.highest_bidder
    <3>2. SaleMap'[a] = [[SaleMap[a] EXCEPT !.price = p] EXCEPT !.winner = w]
      <4> DEFINE mid == [vault |-> auctions[a].vault, debt |-> auctions[a].debt_balance,
                         lot |-> auctions[a].collateral_balance, price |-> p,
                         winner |-> auctions[a].highest_bidder, stage |-> "open"]
      <4>1. mid = [SaleMap[a] EXCEPT !.price = p]
        BY <1>8, <3>1
      <4>2. SaleMap'[a] = [mid EXCEPT !.winner = w]
        BY <1>8, <3>1
      <4> HIDE DEF mid
      <4>3. QED
        BY <4>1, <4>2
    <3>3. SaleMap'[a].price = p /\ SaleMap'[a].winner = w
      BY <1>8, <3>1
    <3> HIDE DEF p, w
    <3>4. SaleMap = [c \in AuctionIds |-> SaleMap[c]]
      BY DEF SaleMap
    <3>5. SaleMap' = [SaleMap EXCEPT ![a] = SaleMap'[a]]
      BY <1>7, <3>1
    <3>6. SaleMap' = [SaleMap EXCEPT ![a].price = p, ![a].winner = w]
      BY <3>2, <3>4, <3>5, RaisedEntry
    <3>7. QED
      BY <3>1, <3>3, <3>6
  <2>2. SaleMap'[a].price > SaleMap[a].price /\ SaleMap'[a].price >= SaleMap[a].debt
    BY <1>1, <1>2, <1>8, <1>9, <2>1
  <2>3. QED
    BY <1>6, <1>8, <2>1, <2>2 DEF Sale!Bid, SaleMap
<1>10. CASE /\ rec.highest_bid = auctions[a].highest_bid
            /\ rec.highest_bidder = auctions[a].highest_bidder
  <2>1. UNCHANGED SaleMap
    BY <1>7, <1>8, <1>10 DEF SaleMap
  <2>2. QED
    BY <1>6, <2>1 DEF Sale!saleVars, SaleMap
<1>11. QED
  BY <1>4, <1>9, <1>10

LEMMA FinalizeMaps ==
    ASSUME VaultInv, NEW a \in AuctionIds, FinalizeAuction(a), UNCHANGED vaultVars
    PROVE  Sale!Decide(a)
<1>1. /\ auctions[a] # None /\ ~auctions[a].is_finalized
      /\ auctions[a].highest_bidder # None
      /\ auctions[a] \in AuctionRecord
      /\ auctions' = [auctions EXCEPT ![a].is_finalized = TRUE]
      /\ a \in Unfinalized
      /\ UNCHANGED tokenVars
  BY VaultParts DEF FinalizeAuction, AuctionInv, AuctionTypeOK, Unfinalized, Opened
<1>2. liquidation_auctions[auctions[a].vault] = a
  BY <1>1, VaultParts DEF LiquidationInv, OpenAuctionIsMarked
<1>3. UNCHANGED <<liquidation_auctions, DebtOf, total_supply, native>>
  BY <1>1 DEF vaultVars, liquidationVars, bookkeepingVars, custodyVars, DebtOf, tokenVars
<1>4. SaleMap' = [SaleMap EXCEPT ![a] = SaleOf(a)']
  <2>1. \A c \in AuctionIds \ {a} : auctions'[c] = auctions[c]
    BY <1>1
  <2>2. QED
    BY <1>3, <2>1, OneSaleChanges
<1>5. auctions'[a] = [auctions[a] EXCEPT !.is_finalized = TRUE]
  BY <1>1, VaultParts DEF AuctionInv, AuctionTypeOK
<1>6. auctions'[a] # None
  BY <1>1, VaultParts, FinalizedRecord DEF Opened
<1>7. /\ auctions'[a].vault = auctions[a].vault
      /\ auctions'[a].debt_balance = auctions[a].debt_balance
      /\ auctions'[a].collateral_balance = auctions[a].collateral_balance
      /\ auctions'[a].highest_bid = auctions[a].highest_bid
      /\ auctions'[a].highest_bidder = auctions[a].highest_bidder
      /\ auctions'[a].is_finalized
  BY <1>1, <1>5 DEF AuctionRecord
<1>8. /\ SaleOf(a).stage = "open"
      /\ SaleOf(a).winner # None
      /\ SaleOf(a)' = [SaleOf(a) EXCEPT !.stage = "decided"]
  BY <1>1, <1>2, <1>3, <1>6, <1>7 DEF SaleOf, StageOf
<1>9. SaleMap[a] = SaleOf(a) /\ SaleMap' = [SaleMap EXCEPT ![a].stage = "decided"]
  BY <1>4, <1>8 DEF SaleMap
<1>10. QED
  BY <1>3, <1>8, <1>9 DEF Sale!Decide, SaleMap

\* Settlement is for the whole debt that was sold, and hands over the whole lot.
LEMMA SettleMaps ==
    ASSUME VaultInv, NEW key \in VaultKeys, SettleLiquidationAuction(key)
    PROVE  \E a \in AuctionIds : Sale!Settle(a)
<1> PICK a \in AuctionIds, new \in VaultRecord, debt \in Nat, sold \in Nat :
       /\ a = liquidation_auctions[key] /\ key \in InLiquidation /\ SellsVault(a, key)
       /\ debt = vaults[key].borrowed_token_balance
       /\ sold = auctions[a].collateral_balance
       /\ new.borrowed_token_balance = 0
       /\ SaveVault(key, new)
       /\ TakeWinningBid(a, debt)
       /\ native' = native - sold
  BY SettlementRecord
<1>1. /\ auctions[a] # None /\ auctions[a].is_finalized
      /\ auctions[a].vault = key
      /\ auctions[a].debt_balance = debt
      /\ UNCHANGED auctions
      /\ LeaveLiquidation(key)
  BY DEF SettleLiquidationAuction, SellsVault
<1>2. \A k \in VaultKeys :
         liquidation_auctions'[k] = IF k = key THEN None ELSE liquidation_auctions[k]
  BY <1>1, VaultParts DEF LeaveLiquidation, LiquidationTypeOK
<1>3. SaleMap' = [SaleMap EXCEPT ![a] = SaleOf(a)']
  <2>1. \A c \in Opened \ {a} : auctions[c].vault \in VaultKeys
    BY VaultParts DEF AuctionInv, AuctionTypeOK, AuctionRecord, Opened
  <2>2. \A c \in Opened \ {a} :
           liquidation_auctions'[auctions[c].vault] = c
              <=> liquidation_auctions[auctions[c].vault] = c
    BY <1>2, <2>1, NoneAssumption DEF Opened
  <2>3. QED
    BY <1>1, <2>2, OneSaleChanges
<1>4. /\ SaleOf(a).stage = "decided"
      /\ SaleOf(a).vault = key /\ SaleOf(a).debt = debt /\ SaleOf(a).lot = sold
      /\ SaleOf(a)' = [SaleOf(a) EXCEPT !.stage = "settled"]
  BY <1>1, <1>2, NoneAssumption DEF SaleOf, StageOf
<1>5. SaleMap[a] = SaleOf(a) /\ SaleMap' = [SaleMap EXCEPT ![a].stage = "settled"]
  BY <1>3, <1>4 DEF SaleMap
<1>6. /\ DebtOf \in [VaultKeys -> Nat]
      /\ DebtOf' = [DebtOf EXCEPT ![key] = 0]
  BY DebtAfterSave
<1>7. DebtOf[key] = debt
  <2>1. vaults[key] # None
    BY DEF SellsVault
  <2>2. QED
    BY <2>1 DEF DebtOf
<1>8. /\ DebtOf' = [DebtOf EXCEPT ![key] = DebtOf[key] - debt]
      /\ DebtOf'[key] = 0
  <2>1. DebtOf[key] - debt = 0
    BY <1>7
  <2>2. QED
    BY <1>6, <2>1
<1>9. total_supply' = total_supply - debt
  BY DEF TakeWinningBid
<1>10. QED
  BY <1>4, <1>5, <1>8, <1>9 DEF Sale!Settle, SaleMap

LEMMA VaultStepMaps ==
    ASSUME VaultInv, VaultStep
    PROVE  [Sale!SaleNext]_Sale!saleVars
<1>1. ASSUME NEW caller \in Owners, NEW amount \in AlphaAmounts, NEW n \in Netuids,
             CreateAlphaVault(caller, amount, n)
      PROVE  UNCHANGED Sale!saleVars
  <2> DEFINE key == <<caller, vault_count[caller]>>
             new == [netuid |-> n, collateral_balance |-> amount, borrowed_token_balance |-> 0]
  <2>1. /\ key \in VaultKeys /\ new \in VaultRecord /\ SaveVault(key, new)
        /\ UNCHANGED <<liquidationVars, native, auctionVars, tokenVars>>
    BY <1>1, ConstantTypes, MaxBalanceAssumption
       DEF CreateAlphaVault, VaultRecord, VaultKeys, Balance
  <2>2. vaults[key] = None
    BY <2>1, VaultParts DEF VaultsNumbered
  <2>3. new.borrowed_token_balance = DebtOf[key]
    BY <2>1, <2>2 DEF DebtOf
  <2> HIDE DEF key, new
  <2>4. QED
    BY <2>1, <2>3, CollateralMessageStutters
<1>2. ASSUME NEW key \in VaultKeys, NEW amount \in AlphaAmounts,
             \/ AddAlphaCollateral(key, amount)
             \/ \E price \in Prices : ReleaseAlphaCollateral(key, amount, price)
      PROVE  UNCHANGED Sale!saleVars
  <2>1. PICK balance \in Balance : SaveVault(key, [vaults[key] EXCEPT !.collateral_balance = balance])
    <3>1. CASE AddAlphaCollateral(key, amount)
      <4>1. vaults[key].collateral_balance + amount \in Balance
        BY <3>1, UsableVaultRecord, ConstantTypes, MaxBalanceAssumption
           DEF AddAlphaCollateral, Balance
      <4>2. QED
        BY <3>1, <4>1 DEF AddAlphaCollateral
    <3>2. CASE \E price \in Prices : ReleaseAlphaCollateral(key, amount, price)
      <4>1. vaults[key].collateral_balance - amount \in Balance
        BY <3>2, UsableVaultRecord, ConstantTypes, MaxBalanceAssumption
           DEF ReleaseAlphaCollateral, Balance
      <4>2. QED
        BY <3>2, <4>1 DEF ReleaseAlphaCollateral
    <3>3. QED
      BY <1>2, <3>1, <3>2
  <2> DEFINE new == [vaults[key] EXCEPT !.collateral_balance = balance]
  <2>2. /\ UsableVault(key)
        /\ UNCHANGED <<liquidationVars, native, auctionVars, tokenVars>>
    BY <1>2 DEF AddAlphaCollateral, ReleaseAlphaCollateral
  <2>3. vaults[key] \in VaultRecord /\ vaults[key] # None
    BY <2>2, UsableVaultRecord DEF UsableVault
  <2>4. /\ new \in VaultRecord
        /\ new.borrowed_token_balance = DebtOf[key]
    BY <2>3 DEF VaultRecord, DebtOf
  <2>5. SaveVault(key, new)
    BY <2>1
  <2> HIDE DEF new
  <2>6. QED
    BY <2>2, <2>4, <2>5, CollateralMessageStutters
<1>3. ASSUME NEW key \in VaultKeys, NEW amount \in DebtAmounts,
             \/ \E price \in Prices : BorrowToken(key, amount, price)
             \/ RepayToken(key, amount)
      PROVE  Sale!Lend(key) \/ Sale!Repay(key)
  <2>1. /\ UsableVault(key) /\ amount \in Nat /\ amount > 0
        /\ UNCHANGED <<liquidationVars, native, auctionVars>>
    BY <1>3, ConstantTypes DEF BorrowToken, RepayToken, custodyVars
  <2>2. /\ vaults[key] \in VaultRecord
        /\ vaults[key].borrowed_token_balance \in Nat
        /\ total_supply \in Nat
    BY <2>1, UsableVaultRecord, SumTypesHold DEF SumTypes
  <2>3. PICK delta \in {amount, 0 - amount} :
           /\ SaveVault(key, [vaults[key] EXCEPT !.borrowed_token_balance = @ + delta])
           /\ vaults[key].borrowed_token_balance + delta \in Balance
           /\ total_supply' = total_supply + delta
    <3>1. CASE \E price \in Prices : BorrowToken(key, amount, price)
      <4>1. /\ SaveVault(key, [vaults[key] EXCEPT !.borrowed_token_balance = @ + amount])
            /\ total_supply' = total_supply + amount
        BY <3>1 DEF BorrowToken, Mint
      <4>2. vaults[key].borrowed_token_balance + amount \in Balance
        <5>1. PICK price \in Prices : BorrowToken(key, amount, price)
          BY <3>1
        <5>2. SaveVault(key, [vaults[key] EXCEPT
                 !.borrowed_token_balance = vaults[key].borrowed_token_balance + amount])
          BY <5>1 DEF BorrowToken
        <5>3. QED
          BY <2>1, <5>2, BorrowedFits
      <4>3. QED
        BY <4>1, <4>2
    <3>2. CASE RepayToken(key, amount)
      <4>1. /\ SaveVault(key, [vaults[key] EXCEPT !.borrowed_token_balance = @ - amount])
            /\ total_supply' = total_supply - amount
            /\ amount <= vaults[key].borrowed_token_balance
        BY <3>2 DEF RepayToken, Burn
      <4>2. /\ vaults[key].borrowed_token_balance - amount
                  = vaults[key].borrowed_token_balance + (0 - amount)
            /\ total_supply - amount = total_supply + (0 - amount)
        BY <2>1, <2>2
      <4>3. vaults[key].borrowed_token_balance - amount \in Balance
        BY <2>1, <2>2, <4>1, MaxBalanceAssumption DEF Balance, VaultRecord
      <4>4. QED
        BY <4>1, <4>2, <4>3
    <3>3. QED
      BY <1>3, <3>1, <3>2
  <2> DEFINE new == [vaults[key] EXCEPT !.borrowed_token_balance = @ + delta]
  <2>4. /\ new \in VaultRecord
        /\ new.borrowed_token_balance = vaults[key].borrowed_token_balance + delta
    BY <2>2, <2>3 DEF VaultRecord
  <2>5. SaveVault(key, new) /\ delta \in Int /\ delta # 0
    BY <2>1, <2>3
  <2> HIDE DEF new
  <2>6. QED
    BY <2>1, <2>3, <2>4, <2>5, DebtMessageMaps
<1>4. DOMAIN DebtOf = VaultKeys /\ DOMAIN SaleMap = AuctionIds
  BY DEF DebtOf, SaleMap
<1>5. CASE \E key \in VaultKeys, amount \in DebtAmounts :
              \/ \E price \in Prices : BorrowToken(key, amount, price)
              \/ RepayToken(key, amount)
  <2>1. PICK key \in VaultKeys : Sale!Lend(key) \/ Sale!Repay(key)
    BY <1>3, <1>5
  <2>2. QED
    BY <1>4, <2>1 DEF Sale!SaleNext, SaleMap
<1>6. CASE \E key \in VaultKeys, price \in Prices, tao \in TaoReceipts :
              TriggerLiquidationAuction(key, price, tao)
  <2>1. PICK key \in VaultKeys, a \in AuctionIds : Sale!Open(a, key)
    BY <1>6, TriggerOpens
  <2>2. QED
    BY <1>4, <2>1 DEF Sale!SaleNext, SaleMap
<1>7. CASE \E key \in VaultKeys : SettleLiquidationAuction(key)
  <2>1. PICK a \in AuctionIds : Sale!Settle(a)
    BY <1>7, SettleMaps
  <2>2. QED
    BY <1>4, <2>1 DEF Sale!SaleNext, SaleMap
<1>8. QED
  BY <1>1, <1>2, <1>5, <1>6, <1>7 DEF VaultStep

LEMMA AuctionStepMaps ==
    ASSUME VaultInv, AuctionStep
    PROVE  [Sale!SaleNext]_Sale!saleVars
<1>1. UNCHANGED vaultVars
  BY DEF AuctionStep
<1>2. UNCHANGED <<liquidation_auctions, DebtOf, native>>
  BY <1>1 DEF vaultVars, liquidationVars, bookkeepingVars, custodyVars, DebtOf
<1>3. DOMAIN SaleMap = AuctionIds
  BY DEF SaleMap
<1>4. CASE \E x \in Signers, a \in AuctionIds, amount \in BidAmounts : PlaceBid(x, a, amount)
  <2>1. PICK x \in Accounts, a \in AuctionIds, amount \in Balance : PlaceBid(x, a, amount)
    BY <1>4, ConstantTypes, AuctionConstants
  <2>2. Sale!Bid(a) \/ UNCHANGED Sale!saleVars
    BY <1>1, <2>1, BidMaps
  <2>3. QED
    BY <1>3, <2>2 DEF Sale!SaleNext, SaleMap
<1>5. CASE \E a \in AuctionIds : FinalizeAuction(a)
  <2>1. PICK a \in AuctionIds : Sale!Decide(a)
    BY <1>1, <1>5, FinalizeMaps
  <2>2. QED
    BY <1>3, <2>1 DEF Sale!SaleNext, SaleMap
<1>6. CASE \/ \E caller \in Signers, a \in AuctionIds, b \in BidIds : WithdrawRefund(caller, a, b)
           \/ \E admin \in AdminChoices : SetAdmin(auction_governance, admin)
           \/ Tick
  <2>1. UNCHANGED <<auctions, total_supply>>
    BY <1>6 DEF WithdrawRefund, Transfer, SetAdmin, Tick, bookVars, tokenVars
  <2>2. QED
    BY <1>2, <2>1, SaleStutters
<1>7. QED
  BY <1>4, <1>5, <1>6 DEF AuctionStep

\* The only step of governance that a sale notices is the sweep of the TAO.
LEMMA GovernanceStepMaps ==
    ASSUME VaultInv, GovernanceStep
    PROVE  [Sale!SaleNext]_Sale!saleVars
<1>1. CASE TransferNativeToTreasury(governance)
  <2>1. /\ native' < native
        /\ UNCHANGED <<auctions, liquidation_auctions, DebtOf, total_supply>>
    BY <1>1, SumTypesHold, ConstantTypes
       DEF TransferNativeToTreasury, SumTypes, DebtOf, bookkeepingVars, liquidationVars,
           auctionVars, bookVars, tokenVars
  <2>2. \A a \in AuctionIds : ~Sale!Pending(a)
    BY <1>1, NothingIsPending DEF TransferNativeToTreasury
  <2>3. UNCHANGED SaleMap
    BY <2>1, SalesUntouched
  <2>4. DOMAIN SaleMap = AuctionIds
    BY DEF SaleMap
  <2>5. Sale!Sweep
    BY <2>1, <2>2, <2>3, <2>4 DEF Sale!Sweep, SaleMap
  <2>6. QED
    BY <2>5 DEF Sale!SaleNext
<1>2. CASE \E caller \in RoleChoices, amount \in DebtAmounts : ClaimSurplusTusdt(caller, amount)
  <2>1. UNCHANGED <<auctions, liquidation_auctions, DebtOf, total_supply, native>>
    BY <1>2 DEF ClaimSurplusTusdt, Transfer, vaultVars, DebtOf, bookkeepingVars,
       liquidationVars, custodyVars, auctionVars, bookVars
  <2>2. QED
    BY <2>1, SaleStutters
<1>3. CASE \/ \E account \in RoleChoices :
                 \/ UpdateGovernance(governance, account)
                 \/ UpdatePlatform(governance, account)
                 \/ UpdateTreasury(governance, account)
           \/ \E caller \in RoleChoices : Pause(caller) \/ Unpause(caller)
           \/ \E n \in Netuids, approved \in BOOLEAN : SetApprovedNetuid(governance, n, approved)
           \/ \E n \in Netuids : ClaimExcessAlpha(governance, n)
           \/ \E hotkey \in Hotkeys, netuids \in SUBSET Netuids :
                 SetVaultHotkey(governance, hotkey, netuids)
  <2>1. UNCHANGED <<vaults, liquidation_auctions, native, auctions, total_supply>>
    BY <1>3 DEF UpdateGovernance, UpdatePlatform, UpdateTreasury, Pause, Unpause, SetPaused,
       SetApprovedNetuid, ClaimExcessAlpha, SetVaultHotkey, bookkeepingVars, liquidationVars,
       custodyVars, auctionVars, bookVars, tokenVars
  <2>2. QED
    BY <2>1, DebtsUntouched, SaleStutters
<1>4. QED
  BY <1>1, <1>2, <1>3 DEF GovernanceStep

LEMMA ChainStepMaps ==
    ASSUME VaultInv, ChainStep
    PROVE  [Sale!SaleNext]_Sale!saleVars
<1> PICK amount \in ChainAmounts :
        \/ ReceiveNative(amount)
        \/ \E hotkey \in Hotkeys, netuid \in Netuids : Emission(hotkey, netuid, amount)
  BY DEF ChainStep
<1>1. UNCHANGED <<vaults, liquidation_auctions, auctions, total_supply>>
  BY DEF ReceiveNative, Emission, bookkeepingVars, liquidationVars, auctionVars, bookVars, tokenVars
<1>2. UNCHANGED <<SaleMap, DebtOf>>
  BY <1>1, SalesUntouched, DebtsUntouched
<1>3. CASE ReceiveNative(amount)
  <2>1. native' > native
    BY <1>3, SumTypesHold, ConstantTypes DEF ReceiveNative, SumTypes
  <2>2. QED
    BY <1>1, <1>2, <2>1 DEF Sale!SaleNext, Sale!Receive, SaleMap
<1>4. CASE \E hotkey \in Hotkeys, netuid \in Netuids : Emission(hotkey, netuid, amount)
  <2>1. UNCHANGED native
    BY <1>4 DEF Emission
  <2>2. QED
    BY <1>1, <1>2, <2>1, SaleStutters
<1>5. QED
  BY <1>3, <1>4

LEMMA StepMaps ==
    ASSUME VaultInv, [Next]_vars
    PROVE  [Sale!SaleNext]_Sale!saleVars
<1>1. CASE ParamStep \/ TokenStep \/ UNCHANGED vars
  <2>1. UNCHANGED <<vaults, liquidation_auctions, native, auctions, total_supply>>
    BY <1>1 DEF ParamStep, SetContractParams, ExecuteContractParamsUpdate,
       CancelContractParamsUpdate, SetGlobalParams, ExecuteGlobalParamsUpdate,
       CancelGlobalParamsUpdate, TokenStep, HolderStep, Transfer, Approve, IncreaseAllowance,
       DecreaseAllowance, SetAllowance, TransferFrom, vars, vaultVars, bookkeepingVars,
       liquidationVars, custodyVars, auctionVars, bookVars, tokenVars
  <2>2. QED
    BY <2>1, DebtsUntouched, SaleStutters
<1>2. QED
  BY <1>1, VaultStepMaps, GovernanceStepMaps, ChainStepMaps, AuctionStepMaps DEF Next

\* The vault, its auction and the token together implement the sale of a debt
\* (ImplementsSales): trigger_liquidation_auction opens it for all the vault owes,
\* place_bid raises it, finalize_auction decides it, settle_liquidation_auction settles
\* it once, and no other message of any contract changes what is being sold or owed.
THEOREM VaultImplementsSales == Spec => ImplementsSales
<1>1. Init => Sale!SaleInit
  <2> SUFFICES ASSUME Init PROVE Sale!SaleInit
    OBVIOUS
  <2>1. \A a \in AuctionIds : SaleOf(a) = [stage |-> "none"]
    BY DEF Init, AuctionInit, SaleOf
  <2>2. SaleMap = [a \in AuctionIds |-> [stage |-> "none"]] /\ DOMAIN SaleMap = AuctionIds
    BY <2>1 DEF SaleMap
  <2>3. DebtOf = [key \in VaultKeys |-> 0]
    BY DEF Init, DebtOf
  <2>4. QED
    BY <2>2, <2>3 DEF Sale!SaleInit, Sale!NotOpened, SaleMap
<1>2. VaultInv /\ [Next]_vars => [Sale!SaleNext]_Sale!saleVars
  BY StepMaps
<1>3. QED
  BY <1>1, <1>2, VaultInvariant, PTL DEF Spec, ImplementsSales, Sale!SaleSpec
============================================================================
