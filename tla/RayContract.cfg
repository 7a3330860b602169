SPECIFICATION FairSpec

CONSTANTS
    dep = dep
    role = role
    scc = scc
    crd = crd
    eps = eps
    nb = nb
    Rendered = {dep}
    CRDs = {}
    SCCs = {}
    Listed = {dep, nb}
    Owning = {dep}
    InTree = {}
    NotebookRole = nb
    ClusterHasSCC = TRUE
    DeployLabelsCRDs = TRUE
    MaxUID = 2
    MaxGeneration = 2
    MaxFaults = 1
    MaxTampers = 0

PROPERTIES
    ImplementsContract
    DeletionCompletes
    ComesToRest

CHECK_DEADLOCK FALSE
