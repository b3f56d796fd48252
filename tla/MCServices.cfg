SPECIFICATION AccessSpec
CONSTANTS
  a = a
  ui = ui
  c1 = c1
  c2 = c2
  Ui = ui
  Keys <- OneKey
  Procs <- OneUi
  Calls <- TwoCalls
  Home <- AllUi
  Ttl = 2
  CallTime = 2
  Requests = {1, 2}
  Passwords = {1, 2, 3}
  First = 1
  Threshold = 2
  Lockout = 3
  Remembered = 2
  Callers = {1, 2}
  Span = 3
  Limit = 2
  GcEvery = 3
  Clients = {1}
  Flows = {1}
  Users = {"u", "w"}
  Visits = {1, 2}
  PendingLife = 2
  CodeLife = 1
  MaxCodes = 2
  HalfLife = 3
  IdleTimeout = 6
  DefaultHalf = 4
  DefaultIdle = 5
  Texts = {"part", "answer"}
  Within <- PartOfAnswer
  StepLimit = 4
CHECK_DEADLOCK FALSE
INVARIANTS
  AnswersAreRecent
  IndInv
  OnlyStragglers
  LimitIsExact
  SessionFollowsUse
  AnswerArrivesOnce
PROPERTIES
  RevokedIsForgotten
  GuessesAreSpaced
  LockEnds
  ResetsAreRemembered
  TokensInTime
  StreamsEnd
