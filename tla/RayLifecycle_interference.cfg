SPECIFICATION Spec

CONSTANTS
    dep = dep
    role = role
    scc = scc
    crd = crd
    eps = eps
    nb = nb
    Rendered = {dep}
    CRDs = {}
    SCCs = {}
    Listed = {dep, nb}
    Owning = {dep}
    InTree = {dep, eps}
    NotebookRole = nb
    ClusterHasSCC = TRUE
    DeployLabelsCRDs = TRUE
    MaxUID = 1
    MaxGeneration = 3
    MaxFaults = 1
    MaxTampers = 1

INVARIANTS
    RemovedReportIsTrue
    QuiescentRemoved
    QuiescentManaged

PROPERTIES
    ManagedPassSparesUnowned

CHECK_DEADLOCK FALSE
