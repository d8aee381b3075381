\* The digest of an archive that is not the last one.
SPECIFICATION Spec
CONSTANTS
    MaxSegments = 4
INVARIANTS
    EditIsNoticed
