--------------------------- MODULE TallyDecision ---------------------------
(***************************************************************************)
(* The arithmetic of a tally: TallyService.compute's count of the weighted *)
(* ballots, one ballot a step, and the decision _decision would give on    *)
(* the ballots counted so far.                                             *)
(*                                                                         *)
(* A custom threshold is a fraction num/den.  The code multiplies the      *)
(* denominator by its double, and the product may come out just above an   *)
(* integer it should be: RoundsUp names the products for which it does.    *)
(***************************************************************************)
EXTENDS Integers, FiniteSets

CONSTANTS
  Seats,        \* the seat counts a session may have
  Thresholds,   \* the custom thresholds, as [num, den]
  Weights,      \* the weights ballots may carry
  MaxCounted,   \* bound of the model: no ballot is counted beyond it
  RoundsUp,     \* the [seats, num, den] whose product is rounded upwards
  NoSeats,      \* total_seats = None: the session does not exist
  NoThreshold,  \* majority_custom_threshold = None
  NoDecision

ASSUME SeatsAssumption == Seats \subseteq Nat \ {0} /\ NoSeats \notin Nat
ASSUME ThresholdsAssumption ==
  /\ \A t \in Thresholds : t.num \in Nat /\ t.den \in Nat \ {0} /\ t.num <= t.den
  /\ NoThreshold \notin Thresholds
ASSUME WeightsAssumption == Weights \subseteq Nat /\ MaxCounted \in Nat
\* A double is off by far less than 1 / den, so the ceiling jumps only where the
\* product is an integer; the products by 0.0 and 1.0 are exact.
ASSUME RoundsUpAssumption ==
  \A x \in RoundsUp :
    /\ x.seats \in Nat /\ x.num \in Nat /\ x.den \in Nat
    /\ 0 < x.num /\ x.num < x.den
    /\ (x.seats * x.num) % x.den = 0
ASSUME DecisionAssumption == NoDecision \notin {"ADOPTE", "REJETE"}

VARIABLES
  terms,   \* majority_type, custom_threshold and total_seats
  counts   \* cp, cc, ca and cn

vars == <<terms, counts>>

MajorityTypes == {"RELATIVE", "ABSOLUE", "DEUX_TIERS", "CUSTOM"}
Choices == {"POUR", "CONTRE", "ABSTENTION", "NPV"}

TypeOK ==
  /\ terms \in [majority_type: MajorityTypes,
                threshold: Thresholds \union {NoThreshold},
                seats: Seats \union {NoSeats}]
  /\ counts \in [Choices -> Nat]

(***************************************************************************)
(* _required_count.                                                        *)
(***************************************************************************)
CeilDiv(a, b) == (a + b - 1) \div b

Ratio(threshold) == IF threshold = NoThreshold THEN [num |-> 1, den |-> 2] ELSE threshold

Rounded(d, q) == [seats |-> d, num |-> q.num, den |-> q.den] \in RoundsUp

\* math.ceil(denominator * ratio), in doubles.
CeilProduct(d, q) ==
  CeilDiv(d * q.num, q.den) + IF Rounded(d, q) THEN 1 ELSE 0

required_count_half(type, threshold, d) ==   \* variant: half is a majority
  CASE d <= 0 -> 0
    [] d > 0 /\ type = "RELATIVE" -> 1
    [] d > 0 /\ type = "ABSOLUE" -> CeilDiv(d, 2)
    [] d > 0 /\ type = "DEUX_TIERS" -> CeilDiv(d * 2, 3)
    [] d > 0 /\ type = "CUSTOM" -> CeilProduct(d, Ratio(threshold))

required_count(type, threshold, d) ==
  CASE d <= 0 -> 0
    [] d > 0 /\ type = "RELATIVE" -> 1
    [] d > 0 /\ type = "ABSOLUE" -> (d \div 2) + 1
    [] d > 0 /\ type = "DEUX_TIERS" -> CeilDiv(d * 2, 3)
    [] d > 0 /\ type = "CUSTOM" -> CeilProduct(d, Ratio(threshold))

(***************************************************************************)
(* _decision.                                                              *)
(***************************************************************************)
Expressed == counts["POUR"] + counts["CONTRE"]

total_weighted == Expressed + counts["ABSTENTION"] + counts["NPV"]

denominator_present ==   \* variant: abstentions dilute the majority
  IF terms.majority_type # "RELATIVE" /\ terms.seats # NoSeats
  THEN terms.seats ELSE total_weighted

denominator ==
  IF terms.majority_type # "RELATIVE" /\ terms.seats # NoSeats
  THEN terms.seats ELSE Expressed

Required == required_count(terms.majority_type, terms.threshold, denominator)

majority_met_strict ==   \* variant: the required count is not enough
  IF terms.majority_type = "RELATIVE"
  THEN counts["POUR"] > counts["CONTRE"]
  ELSE counts["POUR"] > Required

majority_met ==
  IF terms.majority_type = "RELATIVE"
  THEN counts["POUR"] > counts["CONTRE"]
  ELSE counts["POUR"] >= Required

decision ==
  CASE total_weighted = 0 -> NoDecision
    [] total_weighted > 0 -> IF majority_met THEN "ADOPTE" ELSE "REJETE"

(***************************************************************************)
(* The loop over the ballots.                                              *)
(***************************************************************************)
Init ==
  /\ terms \in [majority_type: MajorityTypes,
                threshold: Thresholds \union {NoThreshold},
                seats: Seats \union {NoSeats}]
  /\ counts = [c \in Choices |-> 0]

ProxiesOnly(weight) == weight - 1   \* variant: the voter's own voice is forgotten

Effective(weight) == IF weight > 1 THEN weight ELSE 1

Count(choice, weight) ==
  /\ total_weighted + Effective(weight) <= MaxCounted
  /\ counts' = [counts EXCEPT ![choice] = @ + Effective(weight)]
  /\ UNCHANGED terms

Next == \E choice \in Choices, weight \in Weights : Count(choice, weight)

Spec == Init /\ [][Next]_vars

(***************************************************************************)
(* Properties.  The reference is the règlement's rule on the counts        *)
(* themselves, without rounding: more than half, at least two thirds, at   *)
(* least the threshold of the base.                                        *)
(***************************************************************************)
Reaches(pour, base) ==
  CASE terms.majority_type = "RELATIVE" -> pour > counts["CONTRE"]
    [] terms.majority_type = "ABSOLUE" -> 2 * pour > base
    [] terms.majority_type = "DEUX_TIERS" -> 3 * pour >= 2 * base
    [] terms.majority_type = "CUSTOM" ->
         Ratio(terms.threshold).den * pour >= Ratio(terms.threshold).num * base

\* A resolution is adopted only when its POUR reach the majority it calls for
\* (tally_service.py:40-106), however the product is rounded; the exception is
\* an empty base, of which 0 POUR is enough.
AdoptedIsReached ==
  decision = "ADOPTE" => denominator = 0 \/ Reaches(counts["POUR"], denominator)

\* And as soon as they reach it, it is adopted (tally_service.py:59-113): rounding
\* to an integer costs no POUR, but for a custom threshold whose own product over
\* this base the double rounds up, which costs exactly one.
ReachedIsAdopted ==
  /\ total_weighted > 0
  /\ Reaches(counts["POUR"], denominator)
  /\ terms.majority_type = "CUSTOM" /\ Rounded(denominator, Ratio(terms.threshold))
       => Reaches(counts["POUR"] - 1, denominator)
  => decision = "ADOPTE"

\* One more POUR never defeats a resolution, one more CONTRE never carries it,
\* and ABSTENTION and NPV move nothing (tally_service.py:80-83), with the seats
\* as the base or, without a session, the expressed votes.
Monotone ==
  [][/\ counts'["POUR"] > counts["POUR"] => (decision = "ADOPTE" => decision' = "ADOPTE")
     /\ counts'["CONTRE"] > counts["CONTRE"] => (majority_met' => majority_met)
     /\ Expressed' = Expressed => (majority_met' <=> majority_met)]_vars
=============================================================================
