SPECIFICATION Spec
CONSTANTS
    Manifest <- MCManifest
    Image <- MCImage
    Kind <- MCKind
    Reads <- MCReads
    knownProxies <- MCProxies
    MaxRestarts = 2
INVARIANT EntrypointRuns
