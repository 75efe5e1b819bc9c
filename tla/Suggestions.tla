----------------------------- MODULE Suggestions -----------------------------
(***************************************************************************)
(* What packages/shared/src/money.ts suggests for a day's gross sales: the *)
(* rent and chair deposits of the journal and the commissions of the       *)
(* staff.  Amounts are in steps of Hundred, the ten-thousand cents of the  *)
(* code's hundreds digit; ten of them are its COMMISSION_GROSS_BAND and    *)
(* RENT_ROUNDING_UNIT.                                                     *)
(***************************************************************************)
EXTENDS Integers

CONSTANTS Gross, Rate, Amount, Threshold

AmountsAreTyped == Gross \subseteq Int /\ Rate \subseteq Nat /\ Amount \subseteq Nat /\ Threshold \subseteq Int

RENT_ROUND_UP_HUNDREDS_DIGIT == 8
Thousands(g) == g \div 10
HundredsDigit(g) == g % 10

(* Mutant: only the digits are rounded.                                    *)
RoundedDigits(g) ==
  IF HundredsDigit(g) >= RENT_ROUND_UP_HUNDREDS_DIGIT THEN 1 ELSE Thousands(g)

RoundedThousands(g) ==
  Thousands(g) + (IF HundredsDigit(g) >= RENT_ROUND_UP_HUNDREDS_DIGIT THEN 1 ELSE 0)

(* suggestRentDepositCents: the rate's share of the rounded gross.         *)
Rent(g, rate) == IF g <= 0 THEN 0 ELSE RoundedThousands(g) * 10 * rate
(* suggestChairDepositCents                                                *)
Chair(g, amount, threshold) == IF g < threshold THEN 0 ELSE amount
(* suggestCommissionCents, suggestPersonalCommissionCents: for each whole  *)
(* band of the gross.                                                      *)
Commission(g, rate) == IF g <= 0 THEN 0 ELSE rate * Thousands(g)

(* A better day never suggests a smaller deposit or commission, though the *)
(* rent rounds up from one digit on and down below it; a day of more       *)
(* refunds than sales suggests no rent and no commission.                  *)
SuggestionsNeverFall ==
  \A g, h \in Gross : g <= h =>
    /\ \A r \in Rate : Rent(g, r) <= Rent(h, r) /\ Commission(g, r) <= Commission(h, r)
    /\ \A a \in Amount, t \in Threshold : Chair(g, a, t) <= Chair(h, a, t)
    /\ \A r \in Rate : g <= 0 => Rent(g, r) = 0 /\ Commission(g, r) = 0
==============================================================================
