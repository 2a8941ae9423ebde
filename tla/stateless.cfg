\* Cookies: two tabs, answers out of order and lost, both cookies expiring.
\* Tracker: two cards on two pages, batches of up to two, failing requests,
\* killed tabs.  Files: three replacements and two removals at any moment.
\* Texts: query strings, Cookie headers, product urls and templates over the
\* bytes that matter to each.  Catalogues of three items in any row order.
\* Every amount below 64 rubles.
CONSTANTS
  AnonTtl = 2
  SessionTtl = 1
  NoCookie = NoCookie
  MaxRequests = 4
  MaxInFlight = 2
  MaxTime = 3
  AnswersLost = TRUE
  Cards = {c1, c2}
  MaxBatch = 2
  KMaxBatch = 2
  MaxPages = 2
  Lossy = TRUE
  FileSizes = {10, 20}
  NoFile = NoFile
  MaxWrites = 4
  MaxRemovals = 2
  Alphabets = {{37, 38, 43, 61, 63, 123, 125, 50, 98, 101, 117, 115, 209}, {32, 37, 38, 43, 50, 59, 61, 97, 117}}
  MaxLen = 4
  Ids = {1, 2, 3}
  Scores = {0, 1}
  Times = {5}
  Tags = {"techwear"}
  Sizes = {"L"}
  None = None
  Precision = 13
  MaxAmount = 6399
SPECIFICATION Spec
INVARIANTS VisitBreaksWhenIdle SeenOncePerPage NeverStale
INVARIANTS UrlEncSurvives RenderIsOnePass ReadsAsMeant ViewsAgree PagesTileTheFeed OffByAtMostOne
PROPERTIES AidStable SeenIsLogged
CHECK_DEADLOCK FALSE
