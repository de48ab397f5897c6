-------------------------- MODULE MCSavedPolicies --------------------------
\* Each of two releases gives the one document a content of its own.
EXTENDS SavedPolicies

CONSTANTS s2, r1, r2, c1, c2

MCTranslate == [x \in Documents \X Releases |-> IF x[2] = r1 THEN c1 ELSE c2]

\* During a roll-out: s2 is served by the new release, the others by the old one.
MCRelease == [w \in Posts \union Savers |-> IF w = s2 THEN r2 ELSE r1]
=============================================================================
