SPECIFICATION WorkSpec
CONSTANTS
  Docs <- ThreeDocs
  Total = 2
  Nodes = 2
  RecentFirst = TRUE
  Year <- TwoYears
  Id <- Same
  Fields = {"status", "toc", "approved"}
  Writers = {"parse", "index", "tagger", "approve", "edit"}
  Meant <- AsWritten
  Editors = {"edit", "index"}
  Shown = {"status", "toc"}
  FromJson = {"toc"}
  Initially = "initially"
  NoOcr = TRUE
  Fallback = TRUE
  Isolated = TRUE
  Titles = {"plain", "contents", "summary", "annex", "terms"}
  Matches <- TitleMatches
  SaysAnnex = {"annex"}
  Unlabelled = "unlabelled"
  Tocs = {"marked", "unmarked", "short"}
  Entries <- ThreeParses
  PageCount <- ThreeCounts
  Passages <- SomeChunks
  Guesses = {"findings", "executive_summary"}
  Categories = {"context", "references"}
  MaxParses = 1
  MaxEdits = 1
  Ids = {1, 2, 3}
  Owners = {"p", "q", "nobody"}
  Handlers = {1, 2}
  MaxTasks = 2
  Chunks = {"a", "b"}
  ToolCalls = {1, 2}
  MaxHits = 2
  MaxSearches = 2
  MaxTurns = 2
  Lengths = {1, 4, 6}
  ChunkSize = 2
  MaxTries = 2
  Papers = {"report", "brief"}
  ItemsOf <- TwoPapers
  MinSize = 2
  EmbedLimit = 8
  Strategy = "truncate"
  Reports <- FourReports
  Registered <- ThreeRegistered
  TitleOf <- TitlesOf
  LanguageOf <- Languages
  YearOf <- YearsOf
  Mentions <- OldMentioned
  ChunkIds <- FiveIds
  PaperOf <- OfReport
  InitiallyIn <- FivePassages
  Later <- OnePassage
  Questions <- SomeQuestions
  FetchLimit = 0
  Recent <- Recency
  Gone = Gone
  Unasked = Unasked
  NotAYear <- NoYear
  MaxRewrites = 1
  MaxTopics = 3
  MaxSaves = 1
  MaxLoads = 1
  TableRows <- ThreeRows
  Columns = {"date", "figure", "kind"}
  FirstColumn = "date"
  KnownTo <- AllButTwo
  Instead <- YearOrDate
  KeyOf <- AlikeInPairs
  NoKey = 9
  EmptyLast = {"figure"}
  Kept <- TwoFilters
  TextFinds <- TwoTexts
  RowsPerPage = 2
  MaxRequests = 2
  MaxDeeds = 2
  FacetValues <- TwoFacets
  TypedTexts = {"", "x"}
  MaxRows = 2
  BatchSize = 2
  MaxActs = 3
  MaxSubmits = 2
  MaxRatings = 2
  MaxSigns = 1
  MaxDigs = 1
CHECK_DEADLOCK FALSE
INVARIANTS
  EditKeepsStatus
