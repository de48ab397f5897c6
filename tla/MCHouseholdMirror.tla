------------------------- MODULE MCHouseholdMirror -------------------------
EXTENDS HouseholdMirror, TLC
CONSTANTS d1, d2, c1

\* A document with a content, and one that cannot be translated.
MCTranslate == d1 :> c1 @@ d2 :> NoContent
=============================================================================
