SPECIFICATION StoresSpec
CONSTANTS
    a = a  b = b  c = c  d = d  e = e
    m1 = m1  m2 = m2  n = n
    NoNode = NoNode
    NoGroup = NoGroup
    Legacy = Legacy
    Ids = {a, b, c, d, e}
    Groups = {g, h}
    MaxPatches = 2
    Mixes = {m1, m2}
    DefaultMixes = {m1}
    Levels = {1}
    Captures = {n}
    NodeOf <- MCNodeOf
    Protected = {d}
    Plans <- AllPlans
SYMMETRY Symmetry
INVARIANTS AtMostOneOpen SwitchVisitsAll Durable
PROPERTIES AsDecided SendsKept
CHECK_DEADLOCK FALSE
