\* Six collectors in every order of loads and unloads.
SPECIFICATION Spec
CONSTANTS
  Plugins <- MCPlugins
  Offers <- MCOffers
  Queries <- MCQueries
  Star = "*"
INVARIANTS NoForeignMetrics 
