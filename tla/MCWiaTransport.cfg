CONSTANTS
  Callers = {c1, c2}
  DeviceReplies = {"accepted", "refused"}
  MaxTasks = 4
SPECIFICATION FairSpec
INVARIANTS TypeOK CommandsInOrder OutcomeIsTrue DrainedWhenGone
PROPERTIES AnswerIsBarrier ImplementsChannel EscapeReturns TasksAnswered DtorReturns
