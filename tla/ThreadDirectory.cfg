SPECIFICATION Spec
CONSTANTS
    Procs = {p1, p2, p3}
    Sessions = {s1}
    Inodes = {i1, i2, i3, i4}
    Nobody = Nobody
    NoFile = NoFile
    MaxCrashes = 2
SYMMETRY MCSymmetry
INVARIANTS
    OneWriter
    OnePlace
    RecorderKeepsItsFile
