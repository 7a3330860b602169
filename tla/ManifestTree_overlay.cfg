SPECIFICATION Spec

CONSTANTS
    ns1 = ns1
    ns2 = ns2
    manager = manager
    webhook = webhook
    Namespaces = {ns1, ns2}
    Files = {manager, webhook}
    VendoredNS = vendoredNS
    VendoredImage = vendoredImage
    RelatedImage = relatedImage
    None = None
    MaxFaults = 1

INVARIANTS
    RenderIsComplete
