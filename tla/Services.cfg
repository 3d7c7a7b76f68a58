SPECIFICATION Spec
CONSTANTS
 Sites = {a, b}
 MaxCodes = 2
 MaxClaims = 2
 MaxStops = 1
 People = {u, v}
 Bootstrap = u
 MaxLogins = 2
 MaxCallbacks = 3
 Tokens = {t}
 Calls = {k}
 MaxFailures = 1
 Pages = {p, q}
 Edits = {e}
 MaxJobs = 3
 MaxDeploys = 2
 MaxAtOnce = 2
 MaxLosses = 1
 Day = 6
 Grace = 2
 TimeOfDay = 5
 DaysOn = {0, 1, 3}
 SunAt = 4
 Offset = 1
 RefreshEvery = 2
 MaxTime = 16
 Artifacts = {1, 2}
 MaxBreaks = 2
 Conns = {c1, c2}
 McpCalls = {m1}
 MaxReloads = 3
 MaxSessions = 4
 MaxSaved = 2
 MaxAttempts = 1
 MaxFailed = 1
 StartKeys = {r}
 MaxStarts = 3
 RunEnd = 1
 MaxLost = 1
 Nodes = {1, 2, 3, 4}
 Delay <- TestDelay
 After <- TestAfter
 NotBefore <- TestNotBefore
 Fixed = {1, 2}
 MaxOrders = 2
 MaxCuts = 1
 MaxNodes = 4
 MaxEdits = 5
 Dialogs = {d1, d2}
 Forms = 2
 MaxFlows = 2
 MaxAsks = 3
 MaxTroubles = 1
 WindowSize = 2
 Definitions <- TestDefinitions
 Slots = {1, 2}
 MaxCounted = 3
INVARIANTS ServicesTypeOK IdentityHolds StudioHolds HouseHolds TestsHold NodesHold
CHECK_DEADLOCK FALSE
