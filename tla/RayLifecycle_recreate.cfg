SPECIFICATION Spec

CONSTANTS
    dep = dep
    role = role
    scc = scc
    crd = crd
    eps = eps
    nb = nb
    Rendered = {dep, scc, crd}
    CRDs = {crd}
    SCCs = {scc}
    Listed = {dep, nb}
    Owning = {dep, scc}
    InTree = {}
    NotebookRole = nb
    ClusterHasSCC = TRUE
    DeployLabelsCRDs = TRUE
    MaxUID = 2
    MaxGeneration = 2
    MaxFaults = 1
    MaxTampers = 0

INVARIANTS
    TypeOK
    FinalizerGuardsOperands
    DeletionNeverForgotten

PROPERTIES
    CRDsSurvive

CHECK_DEADLOCK FALSE
