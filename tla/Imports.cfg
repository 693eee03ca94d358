CONSTANTS
    Sessions = {s1, s2}
    None = None
    Numbers = {1, 2}
    Nirs = {"nir1"}
    Weights = {1, 2}
    CallBodies <- SmallBodies
    CallStatuts = {"ACTIF", "INACTIF", "SUSPENDU"}
    MaxRegistryCalls = 3
    MaxRegistryDay = 1
    Files <- SmallFiles
    MaxJobs = 2
SYMMETRY Symmetry
SPECIFICATION Spec
INVARIANTS TypeOK ActiveAgrees
PROPERTIES ImportKeepsStatut ImportIsAtomic
CHECK_DEADLOCK FALSE
