---------------------------- MODULE OracleProofs ----------------------------
(***************************************************************************)
(* The oracle for every value of its constants: what a median is, that the *)
(* books of the rounds are exact, that no minority moves a committed       *)
(* median, and that the oracle implements PriceFeed.                       *)
(***************************************************************************)
EXTENDS Oracle, FiniteSetTheorems, WellFoundedInduction, TLAPS

----------------------------------------------------------------------------
(* Medians. *)

\* A set of numbers has a least one: {0 .. t : t \in T} has a smallest set.
LEMMA LeastNumber ==
    ASSUME NEW T \in SUBSET Nat, T # {}
    PROVE  \E least \in T : \A t \in T : least <= t
<1> DEFINE initials == {0 .. t : t \in T}
<1>1. initials \subseteq FiniteSubsetsOf(Nat) /\ initials # {}
  <2>1. ASSUME NEW t \in T PROVE 0 .. t \in FiniteSubsetsOf(Nat)
    <3>1. IsFiniteSet(0 .. t)
      BY FS_Interval
    <3>2. 0 .. t \in SUBSET Nat
      OBVIOUS
    <3>3. QED
      BY <3>1, <3>2 DEF FiniteSubsetsOf
  <2>2. QED
    BY <2>1
<1>2. PICK smallest \in initials :
        \A s \in initials : ~ (<<s, smallest>> \in StrictSubsetOrdering(Nat))
  BY <1>1, FS_StrictSubsetOrderingWellFounded, WFMin
<1>3. PICK least \in T : smallest = 0 .. least
  OBVIOUS
<1>4. ASSUME NEW t \in T, t < least PROVE FALSE
  <2>1. 0 .. t \subseteq 0 .. least /\ 0 .. t # 0 .. least
    <3>1. least \in 0 .. least /\ least \notin 0 .. t
      BY <1>4
    <3>2. QED
      BY <3>1, <1>4
  <2>2. <<0 .. t, 0 .. least>> \in StrictSubsetOrdering(Nat)
    BY <2>1 DEF StrictSubsetOrdering
  <2>3. QED
    BY <2>2, <1>2, <1>3
<1>5. QED
  BY <1>4

\* The indices whose price is at most v, and below v.
AtMost(prices, v) == {i \in DOMAIN prices : prices[i] <= v}
Below(prices, v) == {i \in DOMAIN prices : prices[i] < v}

\* Finitely many prices have a largest one: it is the price of an index with
\* the fewest prices above it.
LEMMA LargestPrice ==
    ASSUME NEW D, IsFiniteSet(D), D # {}, NEW prices \in [D -> Nat]
    PROVE  \E top \in D : \A i \in D : prices[i] <= prices[top]
<1> DEFINE Above(i) == {j \in D : prices[j] > prices[i]}
           above == {Above(i) : i \in D}
<1>1. above \subseteq FiniteSubsetsOf(D) /\ above # {}
  <2>1. \A i \in D : Above(i) \in SUBSET D
    OBVIOUS
  <2>2. \A i \in D : Above(i) \in FiniteSubsetsOf(D)
    BY <2>1, FS_FiniteSubsetsOfFinite
  <2> HIDE DEF Above
  <2>3. above \subseteq FiniteSubsetsOf(D)
    BY <2>2
  <2>4. above # {}
    OBVIOUS
  <2>5. QED
    BY <2>3, <2>4
<1>2. PICK fewest \in above : \A s \in above : ~ (<<s, fewest>> \in StrictSubsetOrdering(D))
  BY <1>1, FS_StrictSubsetOrderingWellFounded, WFMin
<1>3. PICK top \in D : fewest = Above(top)
  OBVIOUS
<1>4. ASSUME NEW i \in D, prices[i] > prices[top] PROVE FALSE
  <2>1. Above(i) \subseteq Above(top) /\ i \in Above(top) /\ i \notin Above(i)
    BY <1>4
  <2>2. <<Above(i), Above(top)>> \in StrictSubsetOrdering(D)
    BY <2>1 DEF StrictSubsetOrdering
  <2>3. QED
    BY <2>2, <1>2, <1>3
<1>5. QED
  BY <1>4

\* SortedAt is what sorting gives: a price of the round, with at most k prices
\* below it and more than k up to it.
LEMMA SortedAtExists ==
    ASSUME NEW D, IsFiniteSet(D), NEW prices \in [D -> Nat],
           NEW k \in Nat, k < Cardinality(D)
    PROVE  /\ SortedAt(prices, k) \in Range(prices)
           /\ Cardinality(Below(prices, SortedAt(prices, k))) <= k
           /\ Cardinality(AtMost(prices, SortedAt(prices, k))) > k
<1>1. \A v : /\ AtMost(prices, v) \in SUBSET D /\ IsFiniteSet(AtMost(prices, v))
             /\ Below(prices, v) \in SUBSET D /\ IsFiniteSet(Below(prices, v))
  BY FS_Subset DEF AtMost, Below
<1> DEFINE high == {v \in Nat : Cardinality(AtMost(prices, v)) > k}
<1>2. high # {}
  <2>1. D # {}
    BY FS_EmptySet
  <2>2. PICK top \in D : \A i \in D : prices[i] <= prices[top]
    BY <2>1, LargestPrice
  <2>3. AtMost(prices, prices[top]) = D
    BY <2>2 DEF AtMost
  <2>4. QED
    BY <2>3
<1>3. PICK least \in high : \A v \in high : least <= v
  BY <1>2, LeastNumber
<1>4. Cardinality(Below(prices, least)) <= k
  <2>1. CASE least = 0
    <3>1. Below(prices, least) = {}
      BY <2>1 DEF Below
    <3>2. QED
      BY <3>1, FS_EmptySet
  <2>2. CASE least > 0
    <3>1. least - 1 \in Nat /\ least - 1 \notin high
      BY <2>2, <1>3
    <3>2. AtMost(prices, least - 1) = Below(prices, least)
      BY <2>2 DEF AtMost, Below
    <3>3. Cardinality(AtMost(prices, least - 1)) \in Nat
      BY <1>1, FS_CardinalityType
    <3>4. QED
      BY <3>1, <3>2, <3>3
  <2>3. QED
    BY <2>1, <2>2
<1>5. least \in Range(prices)
  <2>1. SUFFICES ASSUME \A i \in D : prices[i] # least PROVE FALSE
    BY DEF Range
  <2>2. AtMost(prices, least) = Below(prices, least)
    BY <2>1 DEF AtMost, Below
  <2>3. Cardinality(AtMost(prices, least)) \in Nat
    BY <1>1, FS_CardinalityType
  <2>4. QED
    BY <2>2, <2>3, <1>4
<1>6. \E p \in Range(prices) : /\ Cardinality(Below(prices, p)) <= k
                               /\ Cardinality(AtMost(prices, p)) > k
  BY <1>3, <1>4, <1>5
<1>7. QED
  BY <1>6 DEF SortedAt, AtMost, Below

\* Two sets of indices, one with more than half of D between them left over:
\* a majority meets every set that misses less than half.
LEMMA MajorityMeets ==
    ASSUME NEW D, IsFiniteSet(D), NEW S \in SUBSET D, NEW H \in SUBSET D,
           Cardinality(S) + Cardinality(H) > Cardinality(D)
    PROVE  H \cap S # {}
<1>1. IsFiniteSet(S) /\ IsFiniteSet(H) /\ IsFiniteSet(S \cup H)
  BY FS_Subset
<1>2. Cardinality(S \cup H) <= Cardinality(D)
  BY FS_Subset
<1>3. Cardinality(S \cup H) = Cardinality(S) + Cardinality(H) - Cardinality(S \cap H)
  BY <1>1, FS_Union
<1>4. {Cardinality(S), Cardinality(H), Cardinality(D), Cardinality(S \cap H),
       Cardinality(S \cup H)} \subseteq Nat
  BY <1>1, FS_CardinalityType, FS_Subset
<1>5. Cardinality(S \cap H) # 0
  BY <1>2, <1>3, <1>4
<1>6. QED
  BY <1>5, FS_EmptySet

\* The median of a round is a number between the lowest and the highest price
\* of every majority of its indices.
LEMMA MedianWithinMajority ==
    ASSUME NEW D, IsFiniteSet(D), D # {}, NEW prices \in [D -> Nat]
    PROVE  /\ Median(prices) \in Nat
           /\ \A H \in SUBSET D : 2 * Cardinality(H) > Cardinality(D) =>
                /\ \E i \in H : prices[i] <= Median(prices)
                /\ \E i \in H : Median(prices) <= prices[i]
<1> DEFINE n == Cardinality(D)
           middle == n \div 2
           lower == SortedAt(prices, IF n % 2 = 1 THEN middle ELSE middle - 1)
           upper == SortedAt(prices, middle)
<1>1. n \in Nat /\ n > 0
  BY FS_EmptySet, FS_CardinalityType
<1>2. /\ middle \in Nat /\ middle < n /\ 2 * middle <= n
      /\ n % 2 = 1 => n = 2 * middle + 1
      /\ n % 2 # 1 => n = 2 * middle /\ middle - 1 \in Nat /\ middle - 1 < n
  BY <1>1
<1>3. /\ upper \in Range(prices)
      /\ Cardinality(Below(prices, upper)) <= middle
      /\ Cardinality(AtMost(prices, upper)) > middle
  BY <1>2, SortedAtExists
<1>4. /\ lower \in Range(prices)
      /\ Cardinality(Below(prices, lower)) <= IF n % 2 = 1 THEN middle ELSE middle - 1
      /\ Cardinality(AtMost(prices, lower)) > IF n % 2 = 1 THEN middle ELSE middle - 1
  BY <1>2, <1>3, SortedAtExists
<1>5. lower \in Nat /\ upper \in Nat
  BY <1>3, <1>4 DEF Range
<1>6. \A v : /\ AtMost(prices, v) \in SUBSET D /\ Cardinality(AtMost(prices, v)) \in Nat
             /\ Below(prices, v) \in SUBSET D /\ Cardinality(Below(prices, v)) \in Nat
  BY FS_Subset, FS_CardinalityType DEF AtMost, Below
<1>7. lower <= upper
  <2>1. SUFFICES ASSUME upper < lower PROVE FALSE
    BY <1>5
  <2>2. n % 2 # 1
    BY <2>1, <1>5
  <2>3. AtMost(prices, upper) \in SUBSET Below(prices, lower)
    BY <2>1, <1>5 DEF AtMost, Below
  <2>4. Cardinality(AtMost(prices, upper)) <= Cardinality(Below(prices, lower))
    BY <2>3, <1>6, FS_Subset
  <2>5. QED
    BY <2>2, <2>4, <1>2, <1>3, <1>4, <1>6
<1>8. Median(prices) \in Nat /\ lower <= Median(prices) /\ Median(prices) <= upper
  <2>1. DOMAIN prices = D
    OBVIOUS
  <2>2. CASE n % 2 = 1
    BY <2>1, <2>2, <1>5 DEF Median
  <2>3. CASE n % 2 # 1
    <3>1. Median(prices) = (lower + upper) \div 2
      BY <2>1, <2>3 DEF Median
    <3>2. QED
      BY <3>1, <1>5, <1>7
  <2>4. QED
    BY <2>2, <2>3
<1>9. ASSUME NEW H \in SUBSET D, 2 * Cardinality(H) > n
      PROVE  /\ \E i \in H : prices[i] <= Median(prices)
             /\ \E i \in H : Median(prices) <= prices[i]
  <2>1. IsFiniteSet(H) /\ Cardinality(H) \in Nat
    BY FS_Subset, FS_CardinalityType
  <2>2. H \cap AtMost(prices, lower) # {}
    <3>1. Cardinality(AtMost(prices, lower)) + Cardinality(H) > n
      BY <1>1, <1>2, <1>4, <1>6, <1>9, <2>1
    <3>2. QED
      BY <3>1, <1>6, MajorityMeets
  <2>3. ~ (H \subseteq Below(prices, upper))
    <3>1. SUFFICES ASSUME H \in SUBSET Below(prices, upper) PROVE FALSE
      OBVIOUS
    <3>2. Cardinality(H) <= Cardinality(Below(prices, upper))
      BY <3>1, <1>6, FS_Subset
    <3>3. QED
      BY <3>2, <1>1, <1>2, <1>3, <1>6, <1>9, <2>1
  <2>4. QED
    BY <2>2, <2>3, <1>5, <1>8 DEF AtMost, Below
<1>10. QED
  BY <1>8, <1>9

----------------------------------------------------------------------------
(* The inductive invariant. *)

OracleTyped ==
    /\ current_round_id \in 0 .. MaxRounds
    /\ now \in Nat
    /\ round_submissions \in [Rounds \X Accounts -> Nat]
    /\ round_reporter_count \in [Rounds -> 0 .. MaxSubmissions]
    /\ round_reporters \in [Rounds \X (0 .. MaxSubmissions - 1) -> Accounts \cup {NoAccount}]
    /\ committed_round_prices \in [Rounds -> PriceData \cup {NoPrice}]

\* A committed round is recorded under its number, and as the median it had
\* and, since its book is closed, still has.
CommitRecorded(round) ==
    LET data == committed_round_prices[round] IN
    /\ data \in PriceData
    /\ data.round_id = round
    /\ data.reporter_count = round_reporter_count[round]
    /\ ~data.was_overridden =>
         /\ round_reporter_count[round] >= MinReporters
         /\ data.price = Median(RoundPrices(round))

LatestIsLast ==
    /\ current_round_id = 0 => latest_price = NoPrice
    /\ current_round_id > 0 => latest_price = committed_round_prices[current_round_id - 1]

OracleInv ==
    /\ OracleTyped
    /\ RoundBookExact
    /\ \A round \in 0 .. current_round_id - 1 : CommitRecorded(round)
    /\ LatestIsLast

LEMMA RoundPricesTyped ==
    ASSUME OracleTyped, RoundBookExact, NEW round \in Rounds
    PROVE  RoundPrices(round) \in [0 .. round_reporter_count[round] - 1 -> Nat]
<1>1. \A i \in 0 .. round_reporter_count[round] - 1 : round_reporters[<<round, i>>] \in Accounts
  BY DEF RoundBookExact, Reporters
<1>2. QED
  BY <1>1 DEF RoundPrices, OracleTyped

LEMMA RoundMedian ==
    ASSUME OracleTyped, RoundBookExact, NEW round \in Rounds, round_reporter_count[round] > 0
    PROVE  /\ Median(RoundPrices(round)) \in Nat
           /\ \A H \in SUBSET (0 .. round_reporter_count[round] - 1) :
                2 * Cardinality(H) > round_reporter_count[round] =>
                  /\ \E i \in H : RoundPrices(round)[i] <= Median(RoundPrices(round))
                  /\ \E i \in H : Median(RoundPrices(round)) <= RoundPrices(round)[i]
<1> DEFINE n == round_reporter_count[round]
           D == 0 .. n - 1
<1>1. n \in Nat /\ n > 0
  BY DEF OracleTyped, OracleConstants
<1>2. IsFiniteSet(D) /\ D # {} /\ Cardinality(D) = n
  <2>1. IsFiniteSet(D) /\ Cardinality(D) = n
    <3> HIDE DEF n
    <3>1. 0 \in Int /\ n - 1 \in Int /\ ~ (0 > n - 1) /\ (n - 1) - 0 + 1 = n
      BY <1>1
    <3>2. QED
      BY <3>1, FS_Interval
  <2>2. 0 \in D
    BY <1>1
  <2>3. QED
    BY <2>1, <2>2
<1>3. RoundPrices(round) \in [D -> Nat]
  BY RoundPricesTyped
<1> HIDE DEF D, n
<1>4. /\ Median(RoundPrices(round)) \in Nat
      /\ \A H \in SUBSET D : 2 * Cardinality(H) > Cardinality(D) =>
                /\ \E i \in H : RoundPrices(round)[i] <= Median(RoundPrices(round))
                /\ \E i \in H : Median(RoundPrices(round)) <= RoundPrices(round)[i]
  BY <1>2, <1>3, MedianWithinMajority
<1>5. QED
  BY <1>2, <1>4 DEF D, n

----------------------------------------------------------------------------
(* Reporting keeps the books. *)

\* The book of another round than the one submitted to is untouched.
LEMMA OtherRoundsKept ==
    ASSUME OracleTyped, RoundBookExact, NEW coldkey \in Accounts, NEW info, NEW price \in Nat,
           SubmitPrice(coldkey, info, price), NEW round \in Rounds, round # current_round_id
    PROVE  /\ round_reporter_count'[round] = round_reporter_count[round]
           /\ RoundPrices(round)' = RoundPrices(round)
           /\ Reporters(round)' = Reporters(round)
           /\ \A account \in Accounts : HasSubmitted(round, account)' = HasSubmitted(round, account)
           /\ \A i \in 0 .. round_reporter_count[round] - 1 :
                round_reporters'[<<round, i>>] = round_reporters[<<round, i>>]
<1>1. round_reporter_count'[round] = round_reporter_count[round]
  BY DEF SubmitPrice, AddReporter, OracleTyped
<1>2. \A i \in 0 .. round_reporter_count[round] - 1 :
        /\ round_reporters'[<<round, i>>] = round_reporters[<<round, i>>]
        /\ round_reporters[<<round, i>>] \in Accounts
  <2>1. SUFFICES ASSUME NEW i \in 0 .. round_reporter_count[round] - 1
                 PROVE  /\ round_reporters'[<<round, i>>] = round_reporters[<<round, i>>]
                        /\ round_reporters[<<round, i>>] \in Accounts
    OBVIOUS
  <2>2. <<round, i>> \in Rounds \X (0 .. MaxSubmissions - 1)
    BY OracleConstants DEF OracleTyped
  <2>3. round_reporters'[<<round, i>>] = round_reporters[<<round, i>>]
    BY <2>2 DEF SubmitPrice, AddReporter, OracleTyped
  <2>4. QED
    BY <2>3 DEF RoundBookExact, Reporters
<1>3. \A account \in Accounts :
        round_submissions'[<<round, account>>] = round_submissions[<<round, account>>]
  BY DEF SubmitPrice, OracleTyped
<1>4. RoundPrices(round)' = RoundPrices(round)
  BY <1>1, <1>2, <1>3 DEF RoundPrices
<1>5. Reporters(round)' = Reporters(round)
  BY <1>1, <1>2 DEF Reporters
<1>6. QED
  BY <1>1, <1>2, <1>3, <1>4, <1>5 DEF HasSubmitted

\* In the open round the reporter is listed once and its price is entered.
LEMMA OpenRoundExact ==
    ASSUME OracleTyped, RoundBookExact, OracleTyped', NEW coldkey \in Accounts, NEW info,
           NEW price \in Nat, SubmitPrice(coldkey, info, price),
           NEW round \in Rounds, round = current_round_id
    PROVE  /\ Reporters(round)' =
                {account \in Accounts : HasSubmitted(round, account)'}
           /\ \A i, j \in 0 .. round_reporter_count'[round] - 1 :
                round_reporters'[<<round, i>>] = round_reporters'[<<round, j>>]
                  => i = j
<1> DEFINE r == round
           n == round_reporter_count[r]
           Has == {account \in Accounts : HasSubmitted(r, account)}
           HasNow == {account \in Accounts : round_submissions'[<<r, account>>] # 0}
<1>1. r \in Rounds /\ n \in Nat
  BY OracleConstants DEF SubmitPrice, RoundIsOpen, OracleTyped, Rounds
<1>2. HasNow = Has \cup {coldkey}
  BY <1>1 DEF SubmitPrice, HasSubmitted, OracleTyped
<1>3. /\ \A i, j \in 0 .. n - 1 : round_reporters[<<r, i>>] = round_reporters[<<r, j>>] => i = j
      /\ {round_reporters[<<r, i>>] : i \in 0 .. n - 1} = Has
  BY <1>1 DEF RoundBookExact, Reporters
<1>4. /\ {round_reporters'[<<r, i>>] : i \in 0 .. round_reporter_count'[r] - 1} = HasNow
      /\ \A i, j \in 0 .. round_reporter_count'[r] - 1 :
           round_reporters'[<<r, i>>] = round_reporters'[<<r, j>>] => i = j
  <2>1. CASE HasSubmitted(r, coldkey)
    <3>1. UNCHANGED <<round_reporters, round_reporter_count>>
      BY <2>1 DEF SubmitPrice, AddReporter
    <3>2. HasNow = Has
      BY <1>2, <2>1
    <3>3. QED
      BY <3>1, <3>2, <1>3
  <2>2. CASE ~HasSubmitted(r, coldkey)
    <3>1. /\ n < MaxSubmissions
          /\ round_reporters' = [round_reporters EXCEPT ![<<r, n>>] = coldkey]
          /\ round_reporter_count' = [round_reporter_count EXCEPT ![r] = n + 1]
      BY <2>2 DEF SubmitPrice, AddReporter
    <3>2. MaxSubmissions \in Nat
      BY OracleConstants
    <3>3. round_reporter_count'[r] = n + 1
      BY <3>1, <1>1 DEF OracleTyped
    <3>4. round_reporters'[<<r, n>>] = coldkey
      BY <3>1, <3>2, <1>1 DEF OracleTyped
    <3>5. \A i \in 0 .. n - 1 : round_reporters'[<<r, i>>] = round_reporters[<<r, i>>]
      BY <3>1, <3>2, <1>1 DEF OracleTyped
    <3>6. coldkey \notin Has
      BY <2>2
    <3> HIDE DEF r, n, Has, HasNow
    <3>7. 0 .. (n + 1) - 1 = (0 .. n - 1) \cup {n}
      BY <1>1
    <3>8. {round_reporters'[<<r, i>>] : i \in (0 .. n - 1) \cup {n}} = Has \cup {coldkey}
      BY <3>4, <3>5, <1>3
    <3>9. \A i, j \in (0 .. n - 1) \cup {n} :
            round_reporters'[<<r, i>>] = round_reporters'[<<r, j>>] => i = j
      <4>1. \A i \in 0 .. n - 1 : round_reporters'[<<r, i>>] # coldkey
        BY <3>5, <3>6, <1>3
      <4>2. QED
        BY <4>1, <3>4, <3>5, <1>3
    <3>10. QED
      BY <3>3, <3>7, <3>8, <3>9, <1>2
  <2>3. QED
    BY <2>1, <2>2
<1>5. QED
  BY <1>4 DEF Reporters, HasSubmitted

LEMMA SubmitTyped ==
    ASSUME OracleTyped, NEW coldkey \in Accounts, NEW info, NEW price \in Nat,
           SubmitPrice(coldkey, info, price)
    PROVE  OracleTyped'
<1> DEFINE r == current_round_id
           n == round_reporter_count[r]
<1>1. r \in Rounds
  BY OracleConstants DEF SubmitPrice, RoundIsOpen, OracleTyped, Rounds
<1>2. round_submissions' \in [Rounds \X Accounts -> Nat]
  BY <1>1 DEF SubmitPrice, OracleTyped
<1>3. /\ round_reporter_count' \in [Rounds -> 0 .. MaxSubmissions]
      /\ round_reporters' \in [Rounds \X (0 .. MaxSubmissions - 1) -> Accounts \cup {NoAccount}]
  <2>1. CASE HasSubmitted(r, coldkey)
    BY <2>1 DEF SubmitPrice, AddReporter, OracleTyped
  <2>2. CASE ~HasSubmitted(r, coldkey)
    <3>1. /\ n < MaxSubmissions
          /\ round_reporters' = [round_reporters EXCEPT ![<<r, n>>] = coldkey]
          /\ round_reporter_count' = [round_reporter_count EXCEPT ![r] = n + 1]
      BY <2>2 DEF SubmitPrice, AddReporter
    <3>2. n + 1 \in 0 .. MaxSubmissions
      BY <3>1, <1>1, OracleConstants DEF OracleTyped
    <3>3. QED
      BY <3>1, <3>2 DEF OracleTyped
  <2>3. QED
    BY <2>1, <2>2
<1>4. QED
  BY <1>2, <1>3 DEF SubmitPrice, OracleTyped, priceVars

LEMMA SubmitKeepsInv ==
    ASSUME OracleInv, NEW coldkey \in Accounts, NEW info, NEW price \in Nat,
           SubmitPrice(coldkey, info, price)
    PROVE  OracleInv'
<1>1. OracleTyped /\ RoundBookExact
  BY DEF OracleInv
<1>2. OracleTyped'
  BY <1>1, SubmitTyped
<1>3. UNCHANGED <<current_round_id, committed_round_prices, latest_price>>
  BY DEF SubmitPrice, priceVars
<1>4. RoundBookExact'
  <2>1. ASSUME NEW round \in Rounds
        PROVE  /\ \A i, j \in 0 .. round_reporter_count'[round] - 1 :
                    round_reporters'[<<round, i>>] = round_reporters'[<<round, j>>] => i = j
               /\ Reporters(round)' = {account \in Accounts : HasSubmitted(round, account)'}
               /\ round > current_round_id => round_reporter_count'[round] = 0
    <3>1. CASE round = current_round_id
      <4>1. ~ (round > current_round_id)
        BY <3>1, OracleConstants DEF Rounds
      <4>2. QED
        BY <3>1, <4>1, <1>1, <1>2, OpenRoundExact
    <3>2. CASE round # current_round_id
      <4>1. /\ \A i, j \in 0 .. round_reporter_count[round] - 1 :
                 round_reporters[<<round, i>>] = round_reporters[<<round, j>>] => i = j
            /\ Reporters(round) = {account \in Accounts : HasSubmitted(round, account)}
            /\ round > current_round_id => round_reporter_count[round] = 0
        BY <1>1 DEF RoundBookExact
      <4>2. QED
        BY <4>1, <3>2, <1>1, OtherRoundsKept
    <3>3. QED
      BY <3>1, <3>2
  <2>2. QED
    BY <2>1, <1>3 DEF RoundBookExact
<1>5. ASSUME NEW round \in 0 .. current_round_id - 1
      PROVE  CommitRecorded(round)'
  <2>1. CommitRecorded(round)
    BY DEF OracleInv
  <2>2. round \in Rounds /\ round # current_round_id
    BY <1>1, OracleConstants DEF OracleTyped, Rounds
  <2>3. /\ round_reporter_count'[round] = round_reporter_count[round]
        /\ RoundPrices(round)' = RoundPrices(round)
    BY <2>2, <1>1, OtherRoundsKept
  <2>4. Median(RoundPrices(round))' = Median(RoundPrices(round))
    BY <2>3 DEF Median, SortedAt
  <2>5. QED
    BY <2>1, <2>3, <2>4, <1>3 DEF CommitRecorded
<1>6. LatestIsLast'
  BY <1>3 DEF OracleInv, LatestIsLast
<1>7. QED
  BY <1>2, <1>3, <1>4, <1>5, <1>6 DEF OracleInv

----------------------------------------------------------------------------
(* Committing closes a book. *)

\* What a commit writes, whoever makes it.
Committed(data) ==
    /\ RoundIsOpen
    /\ data \in PriceData
    /\ data.round_id = current_round_id
    /\ data.committed_at = now
    /\ data.reporter_count = round_reporter_count[current_round_id]
    /\ ~data.was_overridden =>
         /\ data.reporter_count >= MinReporters
         /\ data.price = data.median_price
         /\ data.price = Median(RoundPrices(current_round_id))
         /\ WithinDeviation(data.price)
    /\ committed_round_prices' = [committed_round_prices EXCEPT ![current_round_id] = data]
    /\ latest_price' = data
    /\ current_round_id' = current_round_id + 1
    /\ UNCHANGED <<configVars, bookVars, now>>

\* The record that FinalizeRound writes.
PriceRecord(price, median, was_overridden) ==
    [round_id |-> current_round_id, price |-> price, median_price |-> median,
     reporter_count |-> round_reporter_count[current_round_id],
     committed_at |-> now, was_overridden |-> was_overridden]

LEMMA RecordTyped ==
    ASSUME OracleInv, RoundIsOpen, NEW price \in Nat, NEW median \in Nat,
           NEW was_overridden \in BOOLEAN
    PROVE  PriceRecord(price, median, was_overridden) \in PriceData
<1>1. current_round_id \in Rounds /\ now \in Nat
  BY OracleConstants DEF OracleInv, OracleTyped, RoundIsOpen, Rounds
<1>2. round_reporter_count[current_round_id] \in Nat
  BY <1>1, OracleConstants DEF OracleInv, OracleTyped
<1>3. QED
  BY <1>1, <1>2 DEF PriceRecord, PriceData

LEMMA CommitWrites ==
    ASSUME OracleInv, NEW caller, CommitStep(caller)
    PROVE  \E data : Committed(data)
<1> DEFINE n == round_reporter_count[current_round_id]
           median == Median(RoundPrices(current_round_id))
<1>1. RoundIsOpen
  BY DEF CommitStep, CommitMedian, CommitOverride, CommitRoundGovernance
<1>2. current_round_id \in Rounds
  BY <1>1, OracleConstants DEF OracleInv, OracleTyped, RoundIsOpen, Rounds
<1>3. n \in Nat /\ (n > 0 => median \in Nat)
  BY <1>2, RoundMedian, OracleConstants DEF OracleInv, OracleTyped
<1>4. CASE CommitMedian(caller)
  <2>1. /\ n >= MinReporters /\ WithinDeviation(median)
        /\ FinalizeRound(median, median, FALSE)
    BY <1>4 DEF CommitMedian
  <2>2. median \in Nat
    BY <2>1, <1>3, OracleConstants
  <2>3. PriceRecord(median, median, FALSE) \in PriceData
    BY <1>1, <2>2, RecordTyped
  <2>4. Committed(PriceRecord(median, median, FALSE))
    BY <1>1, <2>1, <2>3 DEF Committed, PriceRecord, FinalizeRound
  <2>5. QED
    BY <2>4
<1>5. ASSUME NEW price \in Prices, FinalizeRound(price, MedianOr(price), TRUE)
      PROVE  \E data : Committed(data)
  <2>1. price \in Nat
    BY OracleConstants
  <2>2. MedianOr(price) \in Nat
    BY <2>1, <1>3 DEF MedianOr
  <2>3. PriceRecord(price, MedianOr(price), TRUE) \in PriceData
    BY <1>1, <2>1, <2>2, RecordTyped
  <2>4. Committed(PriceRecord(price, MedianOr(price), TRUE))
    BY <1>1, <1>5, <2>3 DEF Committed, PriceRecord, FinalizeRound
  <2>5. QED
    BY <2>4
<1>6. QED
  BY <1>4, <1>5 DEF CommitStep, CommitOverride, CommitRoundGovernance

LEMMA CommitKeepsInv ==
    ASSUME OracleInv, NEW data, Committed(data)
    PROVE  OracleInv'
<1>1. current_round_id \in Rounds
  BY OracleConstants DEF OracleInv, OracleTyped, Committed, RoundIsOpen, Rounds
<1>2. UNCHANGED <<round_submissions, round_reporter_count, round_reporters, now>>
  BY DEF Committed, bookVars
<1>3. OracleTyped'
  <2>1. committed_round_prices' \in [Rounds -> PriceData \cup {NoPrice}]
    BY <1>1 DEF Committed, OracleInv, OracleTyped
  <2>2. current_round_id' \in 0 .. MaxRounds
    BY <1>1, OracleConstants DEF Committed, Rounds
  <2>3. QED
    BY <2>1, <2>2, <1>2 DEF OracleInv, OracleTyped
<1>4. RoundBookExact'
  <2>1. \A round \in Rounds : round > current_round_id' => round > current_round_id
    BY <1>1, OracleConstants DEF Committed, Rounds
  <2>2. QED
    BY <2>1, <1>2 DEF OracleInv, RoundBookExact, Reporters, HasSubmitted
<1>5. ASSUME NEW round \in 0 .. current_round_id' - 1
      PROVE  CommitRecorded(round)'
  <2>1. \A r : Median(RoundPrices(r))' = Median(RoundPrices(r))
    BY <1>2 DEF Median, SortedAt, RoundPrices
  <2>2. round \in Rounds
    BY <1>1, OracleConstants DEF Committed, Rounds
  <2>3. CASE round = current_round_id
    <3>1. committed_round_prices'[round] = data
      BY <1>1, <2>3 DEF Committed, OracleInv, OracleTyped
    <3>2. QED
      BY <3>1, <2>1, <2>3, <1>2 DEF Committed, CommitRecorded
  <2>4. CASE round # current_round_id
    <3>1. round \in 0 .. current_round_id - 1
      BY <2>4, <1>1 DEF Committed, Rounds
    <3>2. committed_round_prices'[round] = committed_round_prices[round]
      BY <2>2, <2>4, <1>1 DEF Committed, OracleInv, OracleTyped
    <3>3. CommitRecorded(round)
      BY <3>1 DEF OracleInv
    <3>4. QED
      BY <3>2, <3>3, <2>1, <1>2 DEF CommitRecorded
  <2>5. QED
    BY <2>3, <2>4
<1>6. LatestIsLast'
  <2>1. /\ current_round_id' > 0
        /\ current_round_id' - 1 = current_round_id
    BY <1>1 DEF Committed, Rounds
  <2>2. committed_round_prices'[current_round_id] = data /\ latest_price' = data
    BY <1>1 DEF Committed, OracleInv, OracleTyped
  <2>3. QED
    BY <2>1, <2>2 DEF LatestIsLast
<1>7. QED
  BY <1>3, <1>4, <1>5, <1>6 DEF OracleInv

\* The rest changes roles, settings or the time only.
LEMMA RestKeepsInv ==
    ASSUME OracleInv, UNCHANGED <<bookVars, priceVars>>, now' \in Nat
    PROVE  OracleInv'
<1>1. UNCHANGED <<current_round_id, committed_round_prices, latest_price,
                  round_submissions, round_reporter_count, round_reporters>>
  BY DEF bookVars, priceVars
<1>2. OracleTyped' /\ LatestIsLast'
  BY <1>1 DEF OracleInv, OracleTyped, LatestIsLast
<1>3. RoundBookExact'
  BY <1>1 DEF OracleInv, RoundBookExact, Reporters, HasSubmitted
<1>4. \A r : Median(RoundPrices(r))' = Median(RoundPrices(r))
  BY <1>1 DEF Median, SortedAt, RoundPrices
<1>5. (\A round \in 0 .. current_round_id - 1 : CommitRecorded(round))'
  BY <1>1, <1>4 DEF OracleInv, CommitRecorded
<1>6. QED
  BY <1>2, <1>3, <1>5 DEF OracleInv

LEMMA SettingChanges ==
    ASSUME NEW caller, SettingStep(caller)
    PROVE  UNCHANGED <<bookVars, priceVars, now>>
  BY DEF SettingStep, SetValidator, UpdateGovernance, SetController, SetNetuid,
         SetMinSubmitterStake, SetMaxPriceDeviation, bookVars, priceVars

LEMMA OracleInvariant == OracleSpec => []OracleInv
<1>1. OracleInit => OracleInv
  <2>1. SUFFICES ASSUME OracleInit PROVE OracleInv
    OBVIOUS
  <2>2. OracleTyped
    BY <2>1, OracleConstants DEF OracleInit, OracleTyped, Rounds
  <2>3. \A round \in Rounds : round_reporter_count[round] = 0
    BY <2>1 DEF OracleInit
  <2>4. RoundBookExact
    BY <2>1, <2>3 DEF OracleInit, RoundBookExact, Reporters, HasSubmitted
  <2>5. LatestIsLast
    BY <2>1 DEF OracleInit, LatestIsLast
  <2>6. \A round \in 0 .. current_round_id - 1 : FALSE
    BY <2>1 DEF OracleInit
  <2>7. QED
    BY <2>2, <2>4, <2>5, <2>6 DEF OracleInv
<1>2. OracleInv /\ [OracleNext]_oracleVars => OracleInv'
  <2>1. SUFFICES ASSUME OracleInv, [OracleNext]_oracleVars PROVE OracleInv'
    OBVIOUS
  <2>2. ASSUME NEW coldkey \in Accounts, NEW price \in Prices,
               NEW info \in StakeInfos[<<netuid, coldkey>>], SubmitPrice(coldkey, info, price)
        PROVE  OracleInv'
    <3>1. price \in Nat
      BY OracleConstants
    <3>2. QED
      BY <2>1, <2>2, <3>1, SubmitKeepsInv
  <2>3. ASSUME NEW caller \in RoleAccounts, CommitStep(caller) PROVE OracleInv'
    BY <2>1, <2>3, CommitWrites, CommitKeepsInv
  <2>4. ASSUME NEW caller \in RoleAccounts, SettingStep(caller) PROVE OracleInv'
    <3>1. now' \in Nat /\ UNCHANGED <<bookVars, priceVars>>
      BY <2>1, <2>4, SettingChanges DEF OracleInv, OracleTyped
    <3>2. QED
      BY <2>1, <3>1, RestKeepsInv
  <2>5. CASE Tick
    BY <2>1, <2>5, RestKeepsInv DEF Tick, OracleInv, OracleTyped
  <2>6. CASE UNCHANGED oracleVars
    BY <2>1, <2>6, RestKeepsInv DEF oracleVars, OracleInv, OracleTyped
  <2>7. QED
    BY <2>1, <2>2, <2>3, <2>4, <2>5, <2>6 DEF OracleNext
<1>3. QED
  BY <1>1, <1>2, PTL DEF OracleSpec

----------------------------------------------------------------------------
(* Theorems. *)

\* The list the median is taken over names every account that submitted to the
\* round once, whatever was replaced (submit_price).
THEOREM OracleRoundBookExact == OracleSpec => []RoundBookExact
<1>1. OracleInv => RoundBookExact
  BY DEF OracleInv
<1>2. QED
  BY <1>1, OracleInvariant, PTL

\* No minority of the reporters of a round moves a price that was not
\* overridden past the prices of all the others, for any number of reporters
\* and of rounds (commit_round, compute_round_median).
THEOREM OracleMedianIsMajority == OracleSpec => []MedianIsMajority
<1>1. ASSUME OracleInv PROVE MedianIsMajority
  <2>1. SUFFICES ASSUME NEW round \in 0 .. current_round_id - 1,
                        ~committed_round_prices[round].was_overridden,
                        NEW majority \in SUBSET Reporters(round),
                        2 * Cardinality(majority) > committed_round_prices[round].reporter_count
                 PROVE  /\ \E low \in majority :
                             round_submissions[<<round, low>>] <= committed_round_prices[round].price
                        /\ \E high \in majority :
                             committed_round_prices[round].price <= round_submissions[<<round, high>>]
    BY DEF MedianIsMajority
  <2> DEFINE n == round_reporter_count[round]
             D == 0 .. n - 1
             reporter(i) == round_reporters[<<round, i>>]
             H == {i \in D : reporter(i) \in majority}
             f == [i \in H |-> reporter(i)]
             price == committed_round_prices[round].price
  <2>2. /\ round \in Rounds /\ OracleTyped /\ RoundBookExact
        /\ n \in Nat
    BY <1>1, OracleConstants DEF OracleInv, OracleTyped, Rounds
  <2>3. /\ committed_round_prices[round].reporter_count = n
        /\ n >= MinReporters
        /\ price = Median(RoundPrices(round))
    BY <1>1, <2>1 DEF OracleInv, CommitRecorded
  <2>4. n > 0
    BY <2>2, <2>3, OracleConstants
  <2>5. IsFiniteSet(H) /\ Cardinality(H) \in Nat
    <3>1. IsFiniteSet(D)
      BY <2>2, FS_Interval
    <3>2. H \in SUBSET D
      OBVIOUS
    <3>3. QED
      BY <3>1, <3>2, FS_Subset, FS_CardinalityType
  <2>6. f \in Surjection(H, majority)
    <3>1. \A account \in majority : \E i \in H : f[i] = account
      BY DEF Reporters
    <3>2. f \in [H -> majority]
      OBVIOUS
    <3>3. QED
      BY <3>1, <3>2 DEF Surjection
  <2>7. IsFiniteSet(majority) /\ Cardinality(majority) <= Cardinality(H)
    BY <2>5, <2>6, FS_Surjection
  <2>8. 2 * Cardinality(H) > n
    BY <2>1, <2>2, <2>3, <2>5, <2>7, FS_CardinalityType
  <2>9. /\ \E i \in H : RoundPrices(round)[i] <= price
        /\ \E i \in H : price <= RoundPrices(round)[i]
    BY <2>2, <2>3, <2>4, <2>8, RoundMedian
  <2>10. \A i \in H : RoundPrices(round)[i] = round_submissions[<<round, reporter(i)>>]
    BY DEF RoundPrices
  <2>11. QED
    BY <2>9, <2>10
<1>2. QED
  BY <1>1, OracleInvariant, PTL

LEMMA CommitPublishes ==
    ASSUME OracleInv, NEW data, Committed(data)
    PROVE  Feed!Publish(latest_price')
<1>1. /\ current_round_id \in Rounds /\ latest_price' = data
      /\ current_round_id' = current_round_id + 1
      /\ UNCHANGED <<max_price_deviation, now>>
  BY OracleConstants DEF OracleInv, OracleTyped, Committed, RoundIsOpen, Rounds, configVars
<1> DEFINE r == current_round_id
           History == [round \in 0 .. r - 1 |-> committed_round_prices[round]]
<1>2. (r' = r + 1) /\ data.round_id = r /\ data.committed_at = now
  BY <1>1 DEF Committed
<1>3. ASSUME ~data.was_overridden PROVE Feed!Trustworthy(data)
  <2>1. /\ data.reporter_count >= MinReporters
        /\ data.price = data.median_price
        /\ WithinDeviation(data.price)
    BY <1>3 DEF Committed
  <2>2. ASSUME r > 0
        PROVE  \/ History[r - 1].price = 0
               \/ Feed!Distance(data.price, History[r - 1].price)
                    <= MulValue(History[r - 1].price, max_price_deviation)
    <3>1. r - 1 \in 0 .. r - 1
      BY <2>2, <1>1 DEF Rounds
    <3>2. History[r - 1] = latest_price
      BY <3>1, <2>2 DEF OracleInv, LatestIsLast
    <3>3. latest_price # NoPrice
      BY <3>1, <2>2, OracleConstants DEF OracleInv, LatestIsLast, CommitRecorded
    <3>4. QED
      BY <3>2, <3>3, <2>1 DEF WithinDeviation, AbsDiff, Feed!Distance
  <2>3. QED
    BY <2>1, <2>2 DEF Feed!Trustworthy, Feed!MulValue, MulValue
<1>4. [round \in 0 .. r' - 1 |-> committed_round_prices'[round]]
        = [round \in 0 .. r |-> IF round = r THEN data ELSE History[round]]
  <2>1. 0 .. r' - 1 = 0 .. r
    BY <1>1, <1>2 DEF Rounds
  <2>2. \A round \in 0 .. r :
          committed_round_prices'[round] = IF round = r THEN data ELSE History[round]
    <3>1. \A round \in 0 .. r : round \in Rounds /\ (round # r => round \in 0 .. r - 1)
      BY <1>1, OracleConstants DEF Rounds
    <3>2. QED
      BY <3>1, <1>1 DEF Committed, OracleInv, OracleTyped
  <2>3. QED
    BY <2>1, <2>2
<1>5. QED
  BY <1>1, <1>2, <1>3, <1>4 DEF Feed!Publish

\* The oracle implements its abstract specification: readers get an append-only
\* history whose prices, unless overridden, are medians of MIN_REPORTERS reports
\* or more within the deviation from their predecessor.
THEOREM OracleImplementsPriceFeed == OracleSpec => ImplementsPriceFeed
<1>1. OracleInit => Feed!FeedInit
  <2>1. SUFFICES ASSUME OracleInit PROVE Feed!FeedInit
    OBVIOUS
  <2>2. 0 .. current_round_id - 1 = {}
    BY <2>1 DEF OracleInit
  <2>3. [round \in 0 .. current_round_id - 1 |-> committed_round_prices[round]]
          = [round \in {} |-> {}]
    BY <2>2
  <2>4. QED
    BY <2>1, <2>3 DEF OracleInit, Feed!FeedInit
<1>2. OracleInv /\ [OracleNext]_oracleVars => [Feed!FeedNext]_(Feed!feedVars)
  <2>1. SUFFICES ASSUME OracleInv, [OracleNext]_oracleVars
                 PROVE  [Feed!FeedNext]_(Feed!feedVars)
    OBVIOUS
  <2>2. ASSUME NEW caller \in RoleAccounts, CommitStep(caller) PROVE Feed!FeedNext
    BY <2>1, <2>2, CommitWrites, CommitPublishes DEF Feed!FeedNext
  <2>3. ASSUME UNCHANGED <<priceVars, now>> PROVE [Feed!FeedNext]_(Feed!feedVars)
    <3>1. UNCHANGED <<current_round_id, committed_round_prices, latest_price, now>>
      BY <2>3 DEF priceVars
    <3>2. CASE max_price_deviation' = max_price_deviation
      BY <3>1, <3>2 DEF Feed!feedVars
    <3>3. CASE max_price_deviation' # max_price_deviation
      BY <3>1, <3>3 DEF Feed!SetDeviation, Feed!FeedNext
    <3>4. QED
      BY <3>2, <3>3
  <2>4. ASSUME NEW coldkey \in Accounts, NEW price \in Prices,
               NEW info \in StakeInfos[<<netuid, coldkey>>], SubmitPrice(coldkey, info, price)
        PROVE  [Feed!FeedNext]_(Feed!feedVars)
    BY <2>3, <2>4 DEF SubmitPrice
  <2>5. ASSUME NEW caller \in RoleAccounts, SettingStep(caller)
        PROVE  [Feed!FeedNext]_(Feed!feedVars)
    BY <2>3, <2>5, SettingChanges
  <2>6. CASE Tick
    BY <2>6 DEF Tick, configVars, priceVars, Feed!Elapse, Feed!FeedNext
  <2>7. CASE UNCHANGED oracleVars
    BY <2>3, <2>7 DEF oracleVars
  <2>8. QED
    BY <2>1, <2>2, <2>4, <2>5, <2>6, <2>7 DEF OracleNext
<1>3. QED
  BY <1>1, <1>2, OracleInvariant, PTL DEF OracleSpec, ImplementsPriceFeed, Feed!FeedSpec
=============================================================================
