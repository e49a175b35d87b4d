SPECIFICATION MCSpec
CONSTANTS
    r1 = r1
    r2 = r2
    r3 = r3
    a1 = a1
    a2 = a2
    g1 = g1
    NoTeam = NoTeam
    Requests = {r1, r2, r3}
    Agents = {a1,a2}
    Teams = {g1}
    AgentOf <- MCAgentOf
    TeamOf <- MCTeamOf
    AgentRate <- MCAgentRate
    Keys <- MCKeys
    ToolRates <- MCToolRates
    Window = 2
    DefaultRate = 1
    CustomRates = {0, 1, 2}
    MinRate = 1
    MaxRate = 2
    Second = 3
    MaxTime = 10
SYMMETRY MCSymmetry
INVARIANTS
    TypeOK
    RateBound
    NoStarvation
    ResetWithinASecond
    ATypeOK
    AllScopesPaid
    StricterWins
PROPERTY QuotaKept
CHECK_DEADLOCK FALSE
