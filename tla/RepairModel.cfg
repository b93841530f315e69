SPECIFICATION Spec
CONSTANTS
  Configurations = {home, other}
  Providers = {openai, compatible}
  ProviderOf <- MCProviderOf
  own = own
  openai = openai
  compatible = compatible
  Root = root
  Links <- MCLinks
  page = page
  Guessed = guessed
  LinksOf <- MCLinksOf
  Forecast = forecast
  NoOne = noOne
  MaxProviderTurns = 3
  MaxToolExecutions = 2
  MaxBatch = 1
PROPERTY RepairKeepsModel
