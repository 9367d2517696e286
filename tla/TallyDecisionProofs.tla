------------------------- MODULE TallyDecisionProofs -------------------------
(***************************************************************************)
(* The decision of a tally, for every number of seats, of votes, every     *)
(* threshold and every rounding of its product.                            *)
(***************************************************************************)
EXTENDS TallyDecision, TLAPS

\* Order is kept by a positive factor.
LEMMA ProductOrder ==
  ASSUME NEW x \in Int, NEW y \in Int, NEW b \in Nat \ {0}, x <= y
  PROVE  x * b <= y * b
  OBVIOUS

\* CeilDiv is the least integer whose product by b reaches a.
LEMMA CeilDivReaches ==
  ASSUME NEW a \in Nat, NEW b \in Nat \ {0}, NEW p \in Nat
  PROVE  p >= CeilDiv(a, b) <=> p * b >= a
<1> DEFINE q == (a + b - 1) \div b
           m == (a + b - 1) % b
<1>1. q \in Int /\ m \in 0..(b - 1) /\ a + b - 1 = b * q + m
  OBVIOUS
<1> HIDE DEF q, m
<1>2. CASE p >= q
  <2>1. q * b <= p * b
    BY <1>1, <1>2, ProductOrder
  <2> QED  BY <1>1, <1>2, <2>1 DEF CeilDiv, q
<1>3. CASE p < q
  <2>1. (p + 1) * b <= q * b
    BY <1>1, <1>3, ProductOrder
  <2>2. (p + 1) * b = p * b + b
    OBVIOUS
  <2> QED  BY <1>1, <1>3, <2>1, <2>2 DEF CeilDiv, q
<1> QED  BY <1>1, <1>2, <1>3

LEMMA InitType == Init => TypeOK
  BY DEF Init, TypeOK

LEMMA EffectiveType == \A weight \in Weights : Effective(weight) \in Nat
  BY WeightsAssumption DEF Effective

LEMMA NextType == TypeOK /\ [Next]_vars => TypeOK'
<1> SUFFICES ASSUME TypeOK, [Next]_vars PROVE TypeOK'
  OBVIOUS
<1>1. ASSUME NEW choice \in Choices, NEW weight \in Weights, Count(choice, weight)
      PROVE  TypeOK'
  BY <1>1, EffectiveType DEF Count, TypeOK
<1>2. ASSUME UNCHANGED vars
      PROVE  TypeOK'
  BY <1>2 DEF vars, TypeOK
<1> QED  BY <1>1, <1>2 DEF Next

\* The counts stay natural numbers whatever the weights (tally_service.py:126-137).
THEOREM TallyTypeCorrect == Spec => []TypeOK
  BY InitType, NextType, PTL DEF Spec

(***************************************************************************)
(* The required count and the majority it stands for.                      *)
(***************************************************************************)
\* What the other operators range over.
LEMMA BaseType ==
  ASSUME TypeOK
  PROVE  /\ counts["POUR"] \in Nat /\ counts["CONTRE"] \in Nat
         /\ denominator \in Nat
         /\ Ratio(terms.threshold).num \in Nat
         /\ Ratio(terms.threshold).den \in Nat \ {0}
         /\ terms.majority_type \in MajorityTypes
         /\ total_weighted \in Nat
<1>1. \A c \in Choices : counts[c] \in Nat
  BY DEF TypeOK
<1>2. counts["POUR"] \in Nat /\ counts["CONTRE"] \in Nat
  BY <1>1 DEF Choices
<1>3. counts["ABSTENTION"] \in Nat /\ counts["NPV"] \in Nat
  BY <1>1 DEF Choices
<1>4. terms.majority_type \in MajorityTypes
      /\ terms.threshold \in Thresholds \union {NoThreshold}
      /\ terms.seats \in Seats \union {NoSeats}
  BY DEF TypeOK
<1>5. denominator \in Nat
  <2>1. Expressed \in Nat
    BY <1>2 DEF Expressed
  <2>2. terms.seats # NoSeats => terms.seats \in Nat
    BY <1>4, SeatsAssumption
  <2> QED  BY <2>1, <2>2 DEF denominator
<1>6. Ratio(terms.threshold).num \in Nat /\ Ratio(terms.threshold).den \in Nat \ {0}
  BY <1>4, ThresholdsAssumption DEF Ratio
<1>7. total_weighted \in Nat
  BY <1>2, <1>3 DEF total_weighted, Expressed
<1> QED  BY <1>2, <1>4, <1>5, <1>6, <1>7

\* A product that is rounded up asks for one POUR more than the integer it is.
Meets(p, d) ==
  CASE terms.majority_type = "ABSOLUE" -> 2 * p > d
    [] terms.majority_type = "DEUX_TIERS" -> 3 * p >= 2 * d
    [] terms.majority_type = "CUSTOM" ->
         LET q == Ratio(terms.threshold) IN
           IF Rounded(d, q) THEN p * q.den > d * q.num ELSE p * q.den >= d * q.num

\* The product that is rounded up is an integer.
LEMMA RoundedProduct ==
  ASSUME NEW d \in Nat, NEW n \in Nat, NEW b \in Nat \ {0}, NEW p \in Nat,
         [seats |-> d, num |-> n, den |-> b] \in RoundsUp
  PROVE  /\ 0 < n /\ n < b
         /\ p >= CeilDiv(d * n, b) + 1 <=> p * b > d * n
<1>1. 0 < n /\ n < b /\ (d * n) % b = 0
  <2> DEFINE x == [seats |-> d, num |-> n, den |-> b]
  <2>1. x \in RoundsUp /\ x.seats = d /\ x.num = n /\ x.den = b
    OBVIOUS
  <2> HIDE DEF x
  <2> QED  BY <2>1, RoundsUpAssumption
<1>2. d * n \in Nat
  OBVIOUS
<1> DEFINE k == (d * n) \div b
<1>3. k \in Nat /\ d * n = k * b
  BY <1>1, <1>2
<1> HIDE DEF k
<1>4. CeilDiv(d * n, b) = k
  <2>1. \A c \in Nat : c >= CeilDiv(d * n, b) <=> c >= k
    <3> SUFFICES ASSUME NEW c \in Nat PROVE c >= CeilDiv(d * n, b) <=> c >= k
      OBVIOUS
    <3>1. c >= CeilDiv(d * n, b) <=> c * b >= k * b
      BY <1>2, <1>3, CeilDivReaches
    <3>2. c >= k => c * b >= k * b
      BY <1>3, ProductOrder
    <3>3. c < k => (c + 1) * b <= k * b
      BY <1>3, ProductOrder
    <3>4. (c + 1) * b = c * b + b /\ c * b \in Nat
      OBVIOUS
    <3> QED  BY <1>3, <3>1, <3>2, <3>3, <3>4
  <2>2. CeilDiv(d * n, b) \in Nat
    BY <1>2 DEF CeilDiv
  <2> QED  BY <1>3, <2>1, <2>2
<1>5. p >= k + 1 <=> p * b > k * b
  <2>1. p >= k + 1 => (k + 1) * b <= p * b
    BY <1>3, ProductOrder
  <2>2. p <= k => p * b <= k * b
    BY <1>3, ProductOrder
  <2>3. (k + 1) * b = k * b + b /\ k * b \in Nat /\ p * b \in Nat
    BY <1>3
  <2> QED  BY <1>3, <2>1, <2>2, <2>3
<1> QED  BY <1>1, <1>3, <1>4, <1>5

\* What the required count of a base that is not empty stands for, exactly.
LEMMA RequiredMeets ==
  ASSUME TypeOK, terms.majority_type # "RELATIVE", NEW p \in Nat, NEW d \in Nat \ {0}
  PROVE  p >= required_count(terms.majority_type, terms.threshold, d) <=> Meets(p, d)
<1> DEFINE q == Ratio(terms.threshold)
           n == q.num
           b == q.den
<1>1. n \in Nat /\ b \in Nat \ {0}
  BY BaseType
<1>2. CASE terms.majority_type = "ABSOLUE"
  BY <1>2 DEF required_count, Meets
<1>3. CASE terms.majority_type = "DEUX_TIERS"
  <2>1. p >= CeilDiv(d * 2, 3) <=> p * 3 >= d * 2
    BY CeilDivReaches
  <2> QED  BY <1>3, <2>1 DEF required_count, Meets
<1>4. CASE terms.majority_type = "CUSTOM"
  <2>1. /\ required_count(terms.majority_type, terms.threshold, d) = CeilProduct(d, q)
        /\ Meets(p, d) <=> IF Rounded(d, q) THEN p * b > d * n ELSE p * b >= d * n
    BY <1>4 DEF required_count, Meets
  <2>2. CeilProduct(d, q) = CeilDiv(d * n, b) + IF Rounded(d, q) THEN 1 ELSE 0
    BY DEF CeilProduct
  <2>3. d * n \in Nat /\ CeilDiv(d * n, b) \in Int
    <3> HIDE DEF n, b
    <3> QED  BY <1>1 DEF CeilDiv
  <2>4. CASE Rounded(d, q)
    <3>1. [seats |-> d, num |-> n, den |-> b] \in RoundsUp
      BY <2>4 DEF Rounded
    <3> HIDE DEF n, b
    <3>2. p >= CeilDiv(d * n, b) + 1 <=> p * b > d * n
      BY <1>1, <3>1, RoundedProduct
    <3> QED  BY <2>1, <2>2, <2>4, <3>2
  <2>5. CASE ~ Rounded(d, q)
    <3> HIDE DEF n, b, q
    <3>1. p >= CeilDiv(d * n, b) <=> p * b >= d * n
      BY <1>1, <2>3, CeilDivReaches
    <3> QED  BY <2>1, <2>2, <2>3, <2>5, <3>1
  <2> QED  BY <2>4, <2>5
<1> QED  BY <1>2, <1>3, <1>4, BaseType DEF MajorityTypes

\* Over a base that is not empty, the required count reaches the majority, and
\* it is the least that does, or one above where its product is rounded up.
LEMMA RequiredReaches ==
  ASSUME TypeOK, denominator > 0, terms.majority_type # "RELATIVE"
  PROVE  /\ counts["POUR"] >= Required => Reaches(counts["POUR"], denominator)
         /\ /\ Reaches(counts["POUR"], denominator)
            /\ terms.majority_type = "CUSTOM" /\ Rounded(denominator, Ratio(terms.threshold))
                 => Reaches(counts["POUR"] - 1, denominator)
            => counts["POUR"] >= Required
<1> DEFINE p == counts["POUR"]
           d == denominator
           q == Ratio(terms.threshold)
           n == q.num
           b == q.den
<1>1. p \in Nat /\ d \in Nat \ {0} /\ n \in Nat /\ b \in Nat \ {0}
  BY BaseType
<1>2. p >= Required <=> Meets(p, d)
  BY <1>1, RequiredMeets DEF Required
<1>3. CASE terms.majority_type = "ABSOLUE"
  BY <1>1, <1>2, <1>3 DEF Meets, Reaches
<1>4. CASE terms.majority_type = "DEUX_TIERS"
  BY <1>1, <1>2, <1>4 DEF Meets, Reaches
<1>5. CASE terms.majority_type = "CUSTOM"
  <2>1. /\ Meets(p, d) <=> IF Rounded(d, q) THEN p * b > d * n ELSE p * b >= d * n
        /\ Reaches(p, d) <=> b * p >= n * d
        /\ Reaches(p - 1, d) <=> b * (p - 1) >= n * d
    BY <1>5 DEF Meets, Reaches
  <2> HIDE DEF p, d, q, n, b
  <2>2. /\ p * b \in Nat /\ d * n \in Nat /\ b * p = p * b /\ n * d = d * n
        /\ b * (p - 1) = p * b - b
    BY <1>1
  <2>3. /\ Meets(p, d) => Reaches(p, d)
        /\ Reaches(p, d) /\ (Rounded(d, q) => Reaches(p - 1, d)) => Meets(p, d)
    BY <1>1, <2>1, <2>2
  <2> QED  BY <1>2, <1>5, <2>3 DEF p, d, q
<1> QED  BY <1>3, <1>4, <1>5, BaseType DEF MajorityTypes

\* A resolution is never adopted below the majority it calls for
\* (tally_service.py:59-113), however doubles round.
THEOREM AdoptionIsReached == Spec => []AdoptedIsReached
<1>1. TypeOK => AdoptedIsReached
  <2> SUFFICES ASSUME TypeOK, decision = "ADOPTE", denominator # 0
               PROVE  Reaches(counts["POUR"], denominator)
    BY DEF AdoptedIsReached
  <2>1. majority_met
    BY DecisionAssumption, BaseType DEF decision
  <2>2. CASE terms.majority_type = "RELATIVE"
    BY <2>1, <2>2 DEF majority_met, Reaches
  <2>3. CASE terms.majority_type # "RELATIVE"
    BY <2>1, <2>3, RequiredReaches, BaseType DEF majority_met
  <2> QED  BY <2>2, <2>3
<1> QED  BY <1>1, TallyTypeCorrect, PTL

\* And it is adopted as soon as it reaches it (tally_service.py:59-113), by every
\* majority and over every base; one POUR more is asked of a custom threshold
\* whose own product over that base is rounded up, and of nothing else.
THEOREM ReachingIsAdoption == Spec => []ReachedIsAdopted
<1>1. TypeOK => ReachedIsAdopted
  <2> SUFFICES ASSUME TypeOK, total_weighted > 0, Reaches(counts["POUR"], denominator),
                      terms.majority_type = "CUSTOM"
                        /\ Rounded(denominator, Ratio(terms.threshold))
                        => Reaches(counts["POUR"] - 1, denominator)
               PROVE  decision = "ADOPTE"
    BY DEF ReachedIsAdopted
  <2>1. majority_met
    <3>1. CASE terms.majority_type = "RELATIVE"
      BY <3>1 DEF majority_met, Reaches
    <3>2. CASE terms.majority_type # "RELATIVE" /\ denominator > 0
      BY <3>2, RequiredReaches DEF majority_met
    <3>3. CASE terms.majority_type # "RELATIVE" /\ denominator = 0
      BY <3>3, BaseType DEF majority_met, Required, required_count
    <3> QED  BY <3>1, <3>2, <3>3, BaseType
  <2> QED  BY <2>1, BaseType DEF decision
<1> QED  BY <1>1, TallyTypeCorrect, PTL

(***************************************************************************)
(* Monotony.  With the seats as the base the required count stands still;  *)
(* without a session it moves with the expressed votes, and the majority   *)
(* is best compared as products.                                           *)
(***************************************************************************)
\* More POUR in a base that grows by as much still meet the majority; a base that
\* grows by CONTRE makes it no easier.
LEMMA MeetsMonotone ==
  ASSUME TypeOK, terms.majority_type # "RELATIVE",
         NEW p \in Nat, NEW d \in Nat, NEW w \in Nat \ {0}
  PROVE  /\ Meets(p, d) \/ d = 0 => Meets(p + w, d + w)
         /\ Meets(p, d + w) => Meets(p, d)
<1> DEFINE q == Ratio(terms.threshold)
           n == q.num
           b == q.den
<1>1. n \in Nat /\ b \in Nat \ {0} /\ n <= b
  <2>1. terms.threshold \in Thresholds \union {NoThreshold}
    BY DEF TypeOK
  <2> QED  BY <2>1, ThresholdsAssumption DEF Ratio
<1>2. CASE terms.majority_type = "ABSOLUE"
  BY <1>2 DEF Meets
<1>3. CASE terms.majority_type = "DEUX_TIERS"
  BY <1>3 DEF Meets
<1>4. CASE terms.majority_type = "CUSTOM"
  <2>1. \A c, e \in Nat :
          Meets(c, e) <=> IF Rounded(e, q) THEN c * b > e * n ELSE c * b >= e * n
    BY <1>4 DEF Meets
  <2>2. \A e \in Nat : Rounded(e, q) => 0 < n /\ n < b
    BY <1>1, RoundedProduct DEF Rounded
  <2> HIDE DEF n, b, q
  <2>3. /\ p * b \in Nat /\ d * n \in Nat /\ w * n \in Nat /\ w * b \in Nat
        /\ (p + w) * b = p * b + w * b /\ (d + w) * n = d * n + w * n
    BY <1>1
  <2>4. w * n <= w * b
    BY <1>1, ProductOrder
  <2>5. n < b => w * n + 1 <= w * b
    <3>1. n < b => w * (n + 1) <= w * b /\ w * (n + 1) = w * n + w
      BY <1>1, ProductOrder
    <3> QED  BY <2>3, <3>1
  <2>6. 0 < n => w * n >= 1
    BY <1>1, ProductOrder
  <2>7. d = 0 => d * n = 0
    BY <1>1
  <2>8. Meets(p, d) \/ d = 0 => p * b >= d * n
    BY <2>1, <2>3, <2>7
  <2>9. p * b >= d * n => Meets(p + w, d + w)
    BY <2>1, <2>2, <2>3, <2>4, <2>5
  <2>10. Meets(p, d + w) => Meets(p, d)
    BY <2>1, <2>2, <2>3, <2>6
  <2> QED  BY <2>8, <2>9, <2>10
<1> QED  BY <1>2, <1>3, <1>4, BaseType DEF MajorityTypes

\* The majority as products, or of an empty base.
LEMMA MajorityMeets ==
  TypeOK /\ terms.majority_type # "RELATIVE" =>
    (majority_met <=> denominator = 0 \/ Meets(counts["POUR"], denominator))
<1> SUFFICES ASSUME TypeOK, terms.majority_type # "RELATIVE"
             PROVE  majority_met <=> denominator = 0 \/ Meets(counts["POUR"], denominator)
  OBVIOUS
<1>1. counts["POUR"] \in Nat /\ denominator \in Nat
  BY BaseType
<1>2. CASE denominator = 0
  BY <1>1, <1>2 DEF majority_met, Required, required_count
<1>3. CASE denominator > 0
  <2>1. Required = required_count(terms.majority_type, terms.threshold, denominator)
    BY DEF Required
  <2> QED  BY <1>1, <1>3, <2>1, RequiredMeets DEF majority_met
<1> QED  BY <1>1, <1>2, <1>3

\* And after the step.
LEMMA MajorityMeetsNext ==
  TypeOK' /\ terms'.majority_type # "RELATIVE" =>
    (majority_met' <=> denominator' = 0 \/ Meets(counts["POUR"], denominator)')
<1>1. (TypeOK /\ terms.majority_type # "RELATIVE" =>
         (majority_met <=> denominator = 0 \/ Meets(counts["POUR"], denominator)))'
  BY MajorityMeets, PTL
<1> QED  BY <1>1

\* A counted ballot adds at least one voice to its choice, and to no other.
LEMMA CountAdds ==
  ASSUME TypeOK, NEW choice \in Choices, NEW weight \in Weights, Count(choice, weight)
  PROVE  \E w \in Nat \ {0} :
           /\ terms' = terms
           /\ counts'["POUR"] = counts["POUR"] + IF choice = "POUR" THEN w ELSE 0
           /\ counts'["CONTRE"] = counts["CONTRE"] + IF choice = "CONTRE" THEN w ELSE 0
           /\ Expressed' = Expressed + IF choice \in {"POUR", "CONTRE"} THEN w ELSE 0
           /\ total_weighted' > 0
<1> DEFINE w == Effective(weight)
<1>1. w \in Nat \ {0}
  BY WeightsAssumption DEF Effective
<1>2. terms' = terms /\ counts' = [counts EXCEPT ![choice] = @ + w]
  BY DEF Count
<1> HIDE DEF w
<1>3. \A c \in Choices :
        counts[c] \in Nat /\ counts'[c] = IF c = choice THEN counts[c] + w ELSE counts[c]
  BY <1>1, <1>2 DEF TypeOK
<1>4. /\ counts["POUR"] \in Nat /\ counts["CONTRE"] \in Nat
      /\ counts["ABSTENTION"] \in Nat /\ counts["NPV"] \in Nat
      /\ counts'["POUR"] = IF choice = "POUR" THEN counts["POUR"] + w ELSE counts["POUR"]
      /\ counts'["CONTRE"] = IF choice = "CONTRE" THEN counts["CONTRE"] + w
                             ELSE counts["CONTRE"]
      /\ counts'["ABSTENTION"] = IF choice = "ABSTENTION" THEN counts["ABSTENTION"] + w
                                 ELSE counts["ABSTENTION"]
      /\ counts'["NPV"] = IF choice = "NPV" THEN counts["NPV"] + w ELSE counts["NPV"]
  BY <1>3 DEF Choices
<1>5. choice \in {"POUR", "CONTRE", "ABSTENTION", "NPV"}
  BY DEF Choices
<1>6. Expressed' = Expressed + IF choice \in {"POUR", "CONTRE"} THEN w ELSE 0
  BY <1>1, <1>4, <1>5 DEF Expressed
<1>7. total_weighted' > 0
  BY <1>1, <1>4, <1>5 DEF total_weighted, Expressed
<1> QED  BY <1>1, <1>2, <1>4, <1>6, <1>7

\* A required count is a number.
LEMMA RequiredType ==
  ASSUME TypeOK, NEW d \in Nat \ {0}
  PROVE  required_count(terms.majority_type, terms.threshold, d) \in Int
<1> DEFINE q == Ratio(terms.threshold)
<1>1. q.num \in Nat /\ q.den \in Nat \ {0} /\ terms.majority_type \in MajorityTypes
  BY BaseType
<1>2. CeilDiv(d * 2, 3) \in Int
  BY DEF CeilDiv
<1>3. CeilProduct(d, q) \in Int
  <2> HIDE DEF q
  <2>1. d * q.num \in Nat
    BY <1>1
  <2>2. CeilDiv(d * q.num, q.den) \in Int
    BY <1>1, <2>1 DEF CeilDiv
  <2> QED  BY <2>2 DEF CeilProduct
<1> QED  BY <1>1, <1>2, <1>3 DEF required_count, MajorityTypes

\* What a step may never do to the decision.
MonotoneStep ==
  /\ counts'["POUR"] > counts["POUR"] => (decision = "ADOPTE" => decision' = "ADOPTE")
  /\ counts'["CONTRE"] > counts["CONTRE"] => (majority_met' => majority_met)
  /\ Expressed' = Expressed => (majority_met' <=> majority_met)

LEMMA StepIsMonotone == TypeOK /\ TypeOK' /\ [Next]_vars => MonotoneStep
<1> SUFFICES ASSUME TypeOK, TypeOK', [Next]_vars PROVE MonotoneStep
  OBVIOUS
<1>1. CASE UNCHANGED vars
  BY <1>1, BaseType
  DEF vars, MonotoneStep, decision, majority_met, Required, denominator, Expressed,
      total_weighted
<1>2. ASSUME NEW choice \in Choices, NEW weight \in Weights, Count(choice, weight)
      PROVE  MonotoneStep
  <2>1. PICK w \in Nat \ {0} :
          /\ terms' = terms
          /\ counts'["POUR"] = counts["POUR"] + IF choice = "POUR" THEN w ELSE 0
          /\ counts'["CONTRE"] = counts["CONTRE"] + IF choice = "CONTRE" THEN w ELSE 0
          /\ Expressed' = Expressed + IF choice \in {"POUR", "CONTRE"} THEN w ELSE 0
          /\ total_weighted' > 0
    BY <1>2, CountAdds
  <2>2. /\ counts["POUR"] \in Nat /\ counts["CONTRE"] \in Nat /\ denominator \in Nat
        /\ Expressed = counts["POUR"] + counts["CONTRE"]
    BY BaseType DEF Expressed
  <2>3. /\ counts'["POUR"] > counts["POUR"] => (majority_met => majority_met')
        /\ counts'["CONTRE"] > counts["CONTRE"] => (majority_met' => majority_met)
        /\ Expressed' = Expressed => (majority_met' <=> majority_met)
    <3>1. CASE terms.majority_type = "RELATIVE"
      <4>1. /\ majority_met <=> counts["POUR"] > counts["CONTRE"]
            /\ majority_met' <=> counts'["POUR"] > counts'["CONTRE"]
        BY <2>1, <3>1 DEF majority_met
      <4> QED  BY <2>1, <2>2, <4>1
    <3>2. CASE terms.majority_type # "RELATIVE"
      <4>1. majority_met <=> denominator = 0 \/ Meets(counts["POUR"], denominator)
        BY <3>2, MajorityMeets
      <4>2. majority_met' <=> denominator' = 0 \/ Meets(counts["POUR"], denominator)'
        BY <2>1, <3>2, MajorityMeetsNext
      <4>3. Meets(counts["POUR"], denominator)' <=> Meets(counts'["POUR"], denominator')
        BY <2>1 DEF Meets
      <4>4. CASE terms.seats # NoSeats
        <5>1. terms.seats \in Nat \ {0}
          BY <4>4, SeatsAssumption DEF TypeOK
        <5>2. denominator = terms.seats /\ denominator' = terms.seats
          BY <2>1, <3>2, <4>4 DEF denominator
        <5>3. /\ majority_met <=> counts["POUR"] >= Required
              /\ majority_met' <=> counts'["POUR"] >= Required'
          BY <2>1, <3>2 DEF majority_met
        <5>4. Required' = Required
          BY <2>1, <5>2 DEF Required
        <5>5. Required \in Int
          BY <5>1, <5>2, RequiredType DEF Required
        <5> QED  BY <2>1, <2>2, <5>3, <5>4, <5>5
      <4>5. CASE terms.seats = NoSeats
        <5>1. denominator = Expressed /\ denominator' = Expressed'
          BY <2>1, <3>2, <4>5 DEF denominator
        <5>2. CASE choice = "POUR"
          <6>1. counts'["POUR"] = counts["POUR"] + w /\ denominator' = denominator + w
            BY <2>1, <5>1, <5>2
          <6>2. Meets(counts["POUR"], denominator) \/ denominator = 0
                  => Meets(counts["POUR"] + w, denominator + w)
            BY <2>2, <3>2, MeetsMonotone
          <6> QED  BY <2>1, <2>2, <4>1, <4>2, <4>3, <5>1, <5>2, <6>1, <6>2
        <5>3. CASE choice = "CONTRE"
          <6>1. counts'["POUR"] = counts["POUR"] /\ denominator' = denominator + w
            BY <2>1, <2>2, <5>1, <5>3
          <6>2. Meets(counts["POUR"], denominator + w) => Meets(counts["POUR"], denominator)
            BY <2>2, <3>2, MeetsMonotone
          <6> QED  BY <2>1, <2>2, <4>1, <4>2, <4>3, <5>1, <5>3, <6>1, <6>2
        <5>4. CASE choice \notin {"POUR", "CONTRE"}
          <6>1. /\ counts'["POUR"] = counts["POUR"] /\ counts'["CONTRE"] = counts["CONTRE"]
                /\ denominator' = denominator
            BY <2>1, <2>2, <5>1, <5>4
          <6> QED  BY <2>2, <4>1, <4>2, <4>3, <6>1
        <5> QED  BY <5>2, <5>3, <5>4
      <4> QED  BY <4>4, <4>5
    <3> QED  BY <3>1, <3>2
  <2>4. total_weighted \in Nat
    BY BaseType
  <2> QED  BY <2>1, <2>3, <2>4, DecisionAssumption DEF MonotoneStep, decision
<1> QED  BY <1>1, <1>2 DEF Next

\* One more POUR never defeats a resolution, one more CONTRE never carries it, and
\* ABSTENTION and NPV move nothing (tally_service.py:59-113), for every number of
\* seats, every threshold and every product that a double rounds up.
THEOREM TallyIsMonotone == Spec => Monotone
<1>1. TypeOK /\ TypeOK' /\ [Next]_vars => [MonotoneStep]_vars
  BY StepIsMonotone
<1>2. Spec => [][MonotoneStep]_vars
  BY <1>1, InitType, NextType, PTL DEF Spec
<1> QED  BY <1>2 DEF Monotone, MonotoneStep
=============================================================================
