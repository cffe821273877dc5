CONSTANTS
    Paths <- MCPaths
    Shape <- MCShape
    Latency <- MCLatency
    Known <- MCKnown
SPECIFICATION Spec
INVARIANT TypeOK
INVARIANT HopsOnTheirLinks
INVARIANT PinIsKept
PROPERTY BestIsProbed
