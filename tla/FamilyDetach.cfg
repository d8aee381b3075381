\* Four archives that are detached, lost and changed over four rotations.
SPECIFICATION Spec
CONSTANTS
    MaxSegments = 5
INVARIANTS
    IInv
    OpensIfAccounted
    LossIsNoticed
    GreenIsComplete
