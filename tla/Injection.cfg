SPECIFICATION Spec
CONSTANTS
    Manifest <- MCManifest
    Image <- MCImage
    Kind <- MCKind
    Reads <- MCReads
    knownProxies <- MCProxies
    MaxRestarts = 2
INVARIANTS TypeOK OutputToSidecar RunsAsWritten InitsFirst
PROPERTIES PodStarts
