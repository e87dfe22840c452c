\* One benchmark in detail: two nonces on two workers, two possible outputs and
\* payloads, three faults; safety, liveness and refinement.
CONSTANTS
    Benchmarks = {b1}
    NumNonces = 2
    Leaves = {x, y}
    Payloads = {p, q}
    None = None
    MaxRequests = 1
    Releases = {r1}
    Outcomes = {"expired"}
    Images = r1
    Workers = 2
    MaxFaults = 3
SPECIFICATION FairSpec
INVARIANTS WorkerInv EvidenceMatchesHandover EvidenceRetained ProofsOpenTheResult
PROPERTIES EvidenceNeverChanges ImplementsWholeBenchmark WorkIsDelivered ConcludedIsFinished DrainExits
