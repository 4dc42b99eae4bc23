------------------------------- MODULE Deltas -------------------------------
(***************************************************************************)
(* Bounded arithmetic on a number that is not known yet.                   *)
(*                                                                         *)
(* endless_aggregator's BoundedMath, DeltaWithMax and DeltaHistory, as     *)
(* natives/aggregator_natives uses them and as the tests of its context.rs *)
(* show them.  A delta is what a session has added up to now; its history  *)
(* is what every outcome so far says about the number the delta is for.    *)
(***************************************************************************)
EXTENDS Integers

CONSTANT NoBound   \* nothing has overflown or underflown yet

\* BoundedMath: is the sum of the number and the signed input within bounds?
InBounds(value, input, max) == value + input >= 0 /\ value + input <= max

\* DeltaHistory.  What was reached above and below the number, the lowest sum
\* that was over its maximum, the highest that was under zero.
EmptyHistory ==
  [max_achieved_positive_delta |-> 0, min_achieved_negative_delta |-> 0,
   min_overflow_positive_delta |-> NoBound, max_underflow_negative_delta |-> NoBound]

Higher(a, b) == IF a >= b THEN a ELSE b
Lower(a, b) == IF a <= b THEN a ELSE b

\* A delta that stayed within bounds.
RecordSuccess(history, delta) ==
  [history EXCEPT
     !.max_achieved_positive_delta = Higher(@, delta),
     !.min_achieved_negative_delta = Lower(@, delta)]

\* A delta that did not: over the maximum or under zero.
RecordOverflow(history, delta) ==
  [history EXCEPT !.min_overflow_positive_delta =
     IF @ = NoBound THEN delta ELSE Lower(@, delta)]

RecordUnderflow(history, delta) ==
  [history EXCEPT !.max_underflow_negative_delta =
     IF @ = NoBound THEN delta ELSE Higher(@, delta)]

\* For the number value, would every outcome have been the same?
Fits(history, value, max) ==
  /\ value + history.max_achieved_positive_delta <= max
  /\ value + history.min_achieved_negative_delta >= 0
  /\ history.min_overflow_positive_delta # NoBound =>
       value + history.min_overflow_positive_delta > max
  /\ history.max_underflow_negative_delta # NoBound =>
       value + history.max_underflow_negative_delta < 0

\* What is known of the number after a try to add up to delta, given what the
\* resolver predicts of it.
Tried(history, predicted, delta, max) ==
  IF predicted + delta > max THEN RecordOverflow(history, delta)
  ELSE IF predicted + delta < 0 THEN RecordUnderflow(history, delta)
  ELSE RecordSuccess(history, delta)
=============================================================================
