--------------------------- MODULE MCBudgetWindow ---------------------------
EXTENDS BudgetWindow, TLC
Symmetry == Permutations(Requests) \union Permutations(Jobs)

\* Everything at once, and the regimes under which more is promised.
MCRegimes == {{"outage", "error", "crash", "lost", "claimttl"},
              {"outage", "error", "crash", "lost"},
              {"error", "crash"},
              {"lost", "claimttl", "statettl"},
              {"statettl"}}
=============================================================================
