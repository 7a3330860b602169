SPECIFICATION Spec

CONSTANTS
    dep = dep
    role = role
    scc = scc
    crd = crd
    eps = eps
    nb = nb
    Rendered = {dep, scc}
    CRDs = {}
    SCCs = {scc}
    Listed = {dep, nb}
    Owning = {dep, scc}
    InTree = {}
    NotebookRole = nb
    ClusterHasSCC = TRUE
    DeployLabelsCRDs = FALSE
    MaxUID = 1
    MaxGeneration = 1
    MaxFaults = 1
    MaxTampers = 0

INVARIANTS
    SCCsFollowCluster

CHECK_DEADLOCK FALSE
