\* Two nonces and what one run of each writes, two limits or none, three faults.
CONSTANTS
    Nonces = {n1, n2}
    Leaves = {x, y}
    Files = {"so", "ptx"}
    Library = "so"
    Limits = {l1, l2, None}
    None = None
    MaxFaults = 3
SPECIFICATION FairSpec
INVARIANTS RuntimeInv VerifiedIsSaved WholeLibrary LimitsHold
PROPERTIES EveryNonceSaved
