SPECIFICATION Spec
CONSTANTS
    w1 = w1
    w2 = w2
    local = local
    remote = remote
    p1 = p1
    NoJudger = NoJudger
    NoTask = NoTask
    Problems = {p1}
    LocalJudgers = {local}
    Judgers <- MCJudgers
    JudgerOf <- MCJudgerOf
    ProblemOf <- MCProblemOf
    Submissions <- MCOneSubmission
    Workers <- MCWorkers
    Rejudges = {r1}
    MaxAttempt = 2
    MaxInFlight = 1
INVARIANT RejudgeClearsCases
CHECK_DEADLOCK FALSE
