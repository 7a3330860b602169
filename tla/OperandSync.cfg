SPECIFICATION FairSyncSpec

CONSTANTS
    ns1 = ns1
    manager = manager
    scc = scc
    Namespaces = {ns1}
    Files = {manager, scc}
    SCCFiles = {scc}
    ClusterHasSCC = TRUE
    VendoredNS = vendoredNS
    VendoredImage = vendoredImage
    RelatedImage = relatedImage
    None = None
    MaxFaults = 3
    MaxGeneration = 3
    MaxReplacements = 1

PROPERTIES
    OperandsSurvive
    SyncCompletes
