SPECIFICATION Spec
CONSTANTS
  eng = eng
  ops = ops
  Absent = Absent
  Anyone = Anyone
  AnyValue = AnyValue
  NoHits = NoHits
  Points = {1, 2, 3, 4}
  Uri <- UriOf
  Acl <- AclOf
  Value <- ValueOf
  Tokens <- TokensOf
  Words <- WordsOf
  Likeness <- LikenessOf
  Pool = 2
  Terms <- TermsOf
  Cases <- TwoCases
  Commands <- AllCommands
  MinHits = 2
  MaxTurns = 2
  CandidateFactor = 2
CHECK_DEADLOCK FALSE
INVARIANTS TypeOK AllClosed OnlyOwnClosed NothingInvisible NoHitLost ReportComplete
PROPERTIES HistoryFollows
