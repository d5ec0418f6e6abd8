SPECIFICATION Spec
CONSTANT Space = {s1, s2, s3}
CHECK_DEADLOCK FALSE
INVARIANT SweptSpacesExist
