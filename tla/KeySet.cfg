SPECIFICATION FairSpec
CONSTANTS
    s1 = s1
    s2 = s2
    s3 = s3
    i1 = i1
    i2 = i2
    Signers = {s1, s2, s3}
    Instances = {i1, i2}
    Instance <- TwoAndOne
    Readers = {d1}
    MaxChanges = 1
    Times = {1}
    None = None
INVARIANTS
    IndInv
    OneKeyPerInstance
    SignedIsPublished
PROPERTY
    EverySignerAnswered
CHECK_DEADLOCK FALSE
