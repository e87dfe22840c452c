\* The life of the member's slot: two requests and two benchmarks, two releases or none named.
CONSTANTS
    Benchmarks = {b1, b2}
    NumNonces = 1
    Leaves = {x}
    Payloads = {p}
    None = None
    MaxRequests = 2
    Releases = {r1, r2, None}
    Outcomes = {"expired"}
    Images = r1
    Workers = 1
    MaxFaults = 2
SYMMETRY BenchmarkSymmetry
SPECIFICATION Spec
INVARIANTS OneLiveRequest FinishedIsConcluded NoOrphanContainer
PROPERTIES OffersMatchRelease
