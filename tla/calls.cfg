SPECIFICATION FairSpec
CONSTANTS
  o1 = o1
  o2 = o2
  Op = {o1, o2}
INVARIANTS
  TypeOK
  AnswerIsSources
  CallIsAnswered
PROPERTIES
  AnswerReachesCaller
  CancelReachesSource
