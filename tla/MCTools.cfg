SPECIFICATION MCSpec
CONSTANTS
    Tool = {t1}
    Request = {q1, q2}
    NoVar = NoVar
    Var = Var
    Variables <- MCVariables
    NoVariables = NoVar
    Endpoint <- MCEndpoint
    Credential = {c0, c1}
    NoCredential = c0
    Unborn = Unborn
    Gone = Gone
    Absent = Absent
    Body <- MCBody
    a1 = a1
    Requests = {r1, r2}
    Agents = {a1}
    AgentOf <- MCAgentOf
    Costs = {1, 2}
    Budgets <- MCBudgets
    Caps <- MCCaps
    DaysPerMonth = 2
    MaxDay = 2
    NoBudget = NoBudget
    Everyone = Everyone
SYMMETRY MCSymmetry
INVARIANTS
    TypeOK
    BTypeOK
    OverspendBound
    RefusalsEarned
PROPERTY ToolsStayCallable
CHECK_DEADLOCK FALSE
