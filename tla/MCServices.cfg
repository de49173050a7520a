SPECIFICATION Spec
CONSTANTS
  Focus = {"backtest", "rate limit", "polling", "alerts", "ingestion", "retention", "partitions", "page", "gateway", "portfolio", "report"}
  Prices = {2, 3}
  Volumes = {0, 2, 9}
  Capital = 70000
  Commission = 1
  Tax = 2
  Slippage = 10
  Participation = 50
  MaxBars = 5
  MinWarmup = 1
  MinFold = 2
  Splits = {2}
  MaxRuns = 1
  Keys = {guest, admin}
  AdminKeys = {admin}
  Limit = 2
  Window = 3
  MaxKeys = 1
  SweepEvery = 2
  Lag = 1
  MaxTime = 4
  Browsers = {b1, b2}
  Symbols = {s1}
  NoSymbol = None
  MaxConnections = 2
  MaxSymbols = 1
  MaxVersion = 2
  MaxQueued = 1
  MaxForeign = 1
  MaxPollingFaults = 1
  Alerts = {a1}
  Stocks = {s1}
  Targets = {2}
  MarketPrices = {1, 3}
  Evaluators = {e1, e2}
  Admins = {r1}
  MaxMoves = 1
  MaxAlertFailures = 1
  Services = {"lifecycle"}
  Covers <- LifecycleTables
  Retention <- RetentionDays
  MaxRetentionDay = 3
  MaxRows = 2
  MaxRetentionRestarts = 1
  MaxRetentionFailures = 1
  Lookahead = 2
  ArchiveAfter = 1
  Backfill = 1
  MaxPartitionDay = 9
  MaxPartitionFailures = 2
  ShownSymbols = {s1, s2}
  NoStock = None
  Invalid = Invalid
  MaxRetries = 1
  MaxLookups = 2
  MaxSockets = 3
  MaxHistory = 2
  MaxFlips = 2
  Requests = {q1}
  MaxFlaws = 1
  MaxGatewayRestarts = 1
  Syncs = {y1, y2}
  HeldSymbols = {"a", "b"}
  Portfolios <- ThreePortfolios
  MaxSyncFaults = 1
  TechnicalScores = {80}
  FinancialScores = {20}
  Sentiments = {1}
  Flagged = {3}
  Flows = {1}
  Warnings = {"risk"}
  Chances = {30, 70}
  Weights <- DefaultWeights
  Failed = Invalid
  None = None
  Ingestors = {"i1", "i2"}
  Candles <- Reported
  Earlier <- StoredBefore
  Basis = "adjusted"
  MaxLength = 2
  MaxResponses = 2
  NoRow = None
INVARIANTS TypeOK EnginesAgree WindowIsExact TriggersOnce OnlyWholeBatches CleaningIsExplained HealthyMeansClean PartitionsKeepUp FeedIsCurrent RefusedChangesNothing HoldingsAreOneSnapshot WarningsAreHeeded
PROPERTIES KeepsAnAccount NeverGoesBack GoneIsReleased EveryRequestIsAnswered
CHECK_DEADLOCK FALSE
