----------------------------- MODULE MCCatalog -----------------------------
EXTENDS CatalogReads, TLC
rel == "release"
manualSeeder == "manual"
MCSeeders == {rel, manualSeeder}
Budget(releases, byHand, versions, routes) ==
  [seeds |-> (rel :> releases) @@ (manualSeeder :> byHand), versions |-> versions, routes |-> routes]
MCBudgets == {Budget(2, 1, 1..4, {}), Budget(2, 0, {1, 4}, {"catalog-variables", "model-catalog"}),
              Budget(2, 0, {1, 4}, {"catalog-parameters", "regions"}), Budget(2, 0, {1, 4}, {"parameter-children", "search-file"}),
              Budget(2, 0, {1, 4}, {"parameter-values"})}
Symmetry == Permutations(Requests)
MCFirstStored == <<1, 2, 3>>
=============================================================================
