SPECIFICATION FairSpec
CONSTANTS
  analyst = analyst
  clerk = clerk
  sales = sales
  orders = orders
  lost = lost
  order = order
  bonus = bonus
  kLost = kLost
  kOrder = kOrder
  kBonus = kBonus
  kSecret = kSecret
  s1 = s1
  s2 = s2
  s3 = s3
  cited = cited
  leak = leak
  leakMadeUp = leakMadeUp
  Nothing = Nothing
  NoAnswer = NoAnswer
  Denial = Denial
  Apology = Apology
  Departments = {sales}
  Datasets = {orders}
  ActiveDatasets = {orders}
  Records = {lost, order, bonus}
  Chunks = {kLost, kOrder, kBonus, kSecret}
  Users = {analyst, clerk}
  Turns = {q1, q2}
  Convs = {c1}
  Answers = {leak, leakMadeUp}
  TopK = 1
  MaxCalls = 1
  UserInfo <- MCUserInfo
  ChunkInfo <- MCChunkInfo
  Rank <- MCRank
  RecordInfo <- MCRecordInfo
  ShortOf <- MCShortOf
  OwnerDept <- MCOwnerDept
  AnswerInfo <- MCAnswerInfo
  ToolFacts <- MCToolFacts
CHECK_DEADLOCK FALSE
INVARIANTS TypeOK AnswerMatchesStore HighRiskNeverClean CitationsReadable TitleHeldBriefly
PROPERTIES TitleKept ImplementsDialogue TurnEnds
