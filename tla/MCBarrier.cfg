SPECIFICATION Spec
CONSTANTS
    Agents = {a1, a2}
    Orders = {a1, a2}
    Horizon = 3
    TolNum = 1
    TolDen = 2
    AbortAfter = 1
    StashMax = 2
    Inf = 100
    Naps <- NapsIndefinite
    MaxEvents = 1
    MaxLate = 1
 
PROPERTIES LateReplyReinstates
SYMMETRY AgentSymmetry
