SPECIFICATION FairSpec
CONSTANTS
    app1 = app1  mic1 = mic1  mic2 = mic2  twin2 = twin2  usb = usb
    ua = ua  ub = ub  n1 = n1  G = G  H = H
    NoGroup = NoGroup  NoNode = NoNode
    Order <- MCOrder
    Nodes <- MCNodes
    UnitNodes <- MCUnitNodes
    NodeOf <- MCNodeOf
    Groups <- MCGroups
    Plans <- QuickPlans
    MaxQueue = 1
PROPERTIES NoFeedback
