SPECIFICATION PartSpec
CONSTANTS
    u1 = u1  u2 = u2  r1 = r1
    Urls = {u1, u2, u3}
    Texts <- AnyText
    SearchResponses <- AnyResponse
    Configured = {"brave", "kagi"}
    MaxResults = 1
    MaxNews = 1
    MaxOpen = 2
    MaxCollected = 2
    MaxToolTurns = 2
    MaxMessages = 7
SYMMETRY Perms
CHECK_DEADLOCK FALSE
INVARIANTS
    OpensWhatWasSurfaced
    RoutesServeTheirCaller
