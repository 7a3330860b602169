SPECIFICATION Spec

CONSTANTS
    ns1 = ns1
    ns2 = ns2
    odh = odh
    v1 = v1
    bad = bad
    Namespaces = {ns1, ns2}
    Names = {odh}
    Versions = {v1}
    BadVersions = {bad}
    Standalone = Standalone
    NoVersion = NoVersion
    None = None
    Written <- MCWritten
    MaxGeneration = 2
    MaxEdits = 3
    MaxFaults = 1

SYMMETRY Symmetric

INVARIANTS
    TypeOK
    QuiescentStatus
    HandshakeNeedsDeployments
    ObservedMatchesSpec

CHECK_DEADLOCK FALSE
