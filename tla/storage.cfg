SPECIFICATION Spec
CONSTANTS
    p1 = p1
    p2 = p2
    v1 = v1
    v2 = v2
    u1 = u1
    u2 = u2
    r1 = r1
    a = a
    b = b
    NoProject = NoProject
    NoVersion = NoVersion
    NoRun = NoRun
    Projects = {p1, p2}
    Versions = {v1, v2}
    SourceType <- TwoTypes
    Contents = {a, b}
    Uploads = {u1, u2}
    Runs = {r1}
    MaxSamples = 2
    MaxFaults = 1
    MaxCrashes = 1
CHECK_DEADLOCK FALSE
SYMMETRY CatalogSymmetry
INVARIANTS RowsAreBacked InputsStay RowsHaveDirectories OneArchive NothingIsLeft
