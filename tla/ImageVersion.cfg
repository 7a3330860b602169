SPECIFICATION Spec

CONSTANTS
    registry = registry
    p5000 = p5000
    word = word
    t1 = t1
    t2 = t2
    Hosts = {registry}
    Ports = {p5000}
    Words = {word}
    Paths <- MCPaths
    Blanks <- MCBlanks
    Tags = {t1, t2}
    None = None
    Missing = Missing

INVARIANTS
    VersionIsTag
    ReleaseNamesDeployed
