SPECIFICATION Spec
CONSTANTS
    Hosts = 3
    Neighborhood = 2
    NoRequest = NoRequest
    r1 = r1
    r2 = r2
    r3 = r3
    rc = rc
    u1 = u1
    u2 = u2
    u3 = u3
    Names <- MCNames
    Requests <- MCRequests
    Asked <- MCAsked
    Inner <- MCInner
    Users <- MCUsers
    Sent <- MCSent
INVARIANTS
    OnePoolPerName
    ReadyWhenReturned
    EachTargetOnce
    NoCircularWait
