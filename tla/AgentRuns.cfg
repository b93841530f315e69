SPECIFICATION MCSpec
CONSTANTS
  Configurations = {own, home, other}
  Providers = {openai, compatible}
  ProviderOf <- MCProviderOf
  own = own
  openai = openai
  compatible = compatible
  Root = root
  Links <- MCLinks
  page = page
  Guessed = guessed
  LinksOf <- MCLinksOf
  Forecast = forecast
  NoOne = noOne
  MaxProviderTurns = 5
  MaxToolExecutions = 3
  MaxBatch = 2
  CallIds = {i1, i2}
  ToolNames = {web, weather}
  MaxSessionTurns = 4
  Callers = {c1, c2, c3}
  Places = {p1, p2}
  Nobody = nobody
  MaxCacheEntries = 1
  MaxTime = 1
INVARIANTS RunBudget OneProvider AnswersGrounded CallsAccounted
           UsageAccounted OneRequestPerPlace
PROPERTY RequestEnds
CHECK_DEADLOCK FALSE
