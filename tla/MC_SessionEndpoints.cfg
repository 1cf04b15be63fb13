CONSTANTS
    e1 = e1
    e2 = e2
    t1 = t1
    t2 = t2
    EndpointIds <- MCEndpointIds
    FourTuples <- MCFourTuples
    MaxEndpoints = 3
    NoPeer = NoPeer

SPECIFICATION Spec

INVARIANT AddEndpointRemembers
