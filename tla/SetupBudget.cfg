SPECIFICATION Spec
CONSTANTS
  Configurations = {own}
  Providers = {openai, compatible}
  ProviderOf <- MCProviderOf
  own = own
  openai = openai
  compatible = compatible
  Root = root
  Links <- MCLinks
  page = page
  Guessed = guessed
  LinksOf <- MCLinksOf
  Forecast = forecast
  NoOne = noOne
  MaxProviderTurns = 7
  MaxToolExecutions = 6
  MaxBatch = 2
INVARIANT SetupBudget
