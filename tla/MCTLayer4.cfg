CONSTANTS
    Remotes = {r1, r2}
    NoAddr = NoAddr
    Apdus = {a, b}
    NoApdu = NoApdu
    SeqMod = 3
    MaxRep = 1
    ConnTimeout = 2
    AckTimeout = 1
SPECIFICATION Spec
SYMMETRY Symmetry
INVARIANTS
    RetriesAreFresh
PROPERTIES
    RepetitionsIdentical
    ConnectionUndisturbed
