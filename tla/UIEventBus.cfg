CONSTANTS
  Requests = {r1, r2}
  Keys = {k1, k2}
  Handlers = 2
  MaxSends = 4
  NoRequest = NoRequest
  Unanswered = Unanswered
  Cancelled = Cancelled
SPECIFICATION FairSpec
INVARIANTS BooksAgree
PROPERTIES KeepsPromise AnsweredEnds
CHECK_DEADLOCK FALSE
