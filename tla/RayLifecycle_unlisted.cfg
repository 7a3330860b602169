SPECIFICATION Spec

CONSTANTS
    dep = dep
    role = role
    scc = scc
    crd = crd
    eps = eps
    nb = nb
    Rendered = {dep, role}
    CRDs = {}
    SCCs = {}
    Listed = {dep, nb}
    Owning = {dep, role}
    InTree = {}
    NotebookRole = nb
    ClusterHasSCC = TRUE
    DeployLabelsCRDs = FALSE
    MaxUID = 1
    MaxGeneration = 2
    MaxFaults = 0
    MaxTampers = 1

INVARIANTS
    RemovedDeletesOwned

CHECK_DEADLOCK FALSE
