-------------------------- MODULE ModerationPolicy --------------------------
(* The automatic classification of a review (worker/src/moderation/policy.ts), *)
(* a pure function of its text.  A text is what its rules measure: banned     *)
(* words in title or body; of the body its length, letters and capitals, the  *)
(* URLs and tokens, the longest run of one character, and whether the author  *)
(* has written it before.                                                     *)
EXTENDS Integers

Text == {t \in [banned: BOOLEAN, length: Nat, letters: Nat, capitals: Nat,
                 urls: Nat, tokens: Nat, run: Nat, duplicate: BOOLEAN] :
           t.capitals <= t.letters}

Plain == [banned |-> FALSE, length |-> 30, letters |-> 24, capitals |-> 1,
          urls |-> 0, tokens |-> 6, run |-> 2, duplicate |-> FALSE]

HasTooManyLinks(t) == t.urls > 0 /\ (t.urls > 2 \/ t.urls * 5 > t.tokens)

IsShouting(t) == t.length > 40 /\ t.letters > 0 /\ t.capitals * 5 > t.letters * 3

HasRepeatedCharacterRun(t) == t.run >= 5

Flaggable(t) == IsShouting(t) \/ HasRepeatedCharacterRun(t) \/ t.duplicate

\* Mutant: a rule that flags returns at once, before the links are counted.
ClassifyFlagsFirst(t, verifiedPurchase) ==
  IF t.banned THEN "REJECTED"
  ELSE IF Flaggable(t) THEN IF verifiedPurchase THEN "APPROVED" ELSE "FLAGGED"
  ELSE IF HasTooManyLinks(t) THEN "REJECTED" ELSE "APPROVED"

\* classify: a rejection is decisive; a flag is dropped for a verified purchase.
Classify(t, verifiedPurchase) ==
  IF t.banned \/ HasTooManyLinks(t) THEN "REJECTED"
  ELSE IF Flaggable(t) /\ ~verifiedPurchase THEN "FLAGGED" ELSE "APPROVED"

-----------------------------------------------------------------------------
Severity(verdict) == CASE verdict = "APPROVED" -> 0
                       [] verdict = "FLAGGED" -> 1
                       [] verdict = "REJECTED" -> 2

\* Texts at and beside every threshold.
Texts == {t \in [banned: BOOLEAN, length: {40, 41}, letters: {24}, capitals: {14, 15},
                 urls: 0..3, tokens: 4..15, run: {4, 5}, duplicate: BOOLEAN] :
            t.tokens - t.urls \in {4, 12}}

\* A text with every defect of the other, each at least as bad.
AtLeastAsBad(t, s) ==
  /\ s.banned => t.banned
  /\ s.duplicate => t.duplicate
  /\ t.length >= s.length /\ t.run >= s.run
  /\ t.capitals >= s.capitals /\ t.letters <= s.letters
  /\ t.urls >= s.urls /\ t.tokens - t.urls <= s.tokens - s.urls

\* The order of the rules never lets a defect help a text: one that has every
\* defect of another is never treated more mildly, since classify returns at
\* the first rule that rejects but only remembers one that flags; and a
\* verified purchase lifts flags and no rejection (policy.ts:49-76).
RulesAreMonotone ==
  /\ \A t, s \in Texts : AtLeastAsBad(t, s) =>
       \A bought \in BOOLEAN : Severity(Classify(t, bought)) >= Severity(Classify(s, bought))
  /\ \A t \in Texts : Classify(t, TRUE) =
       IF Classify(t, FALSE) = "FLAGGED" THEN "APPROVED" ELSE Classify(t, FALSE)
=============================================================================
