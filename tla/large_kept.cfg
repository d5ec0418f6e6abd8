SPECIFICATION Spec
CONSTANT Space = {s1, s2, s3, s4}
SYMMETRY SpaceSymmetry
CHECK_DEADLOCK FALSE
PROPERTY SweepLeavesLive
