\* The documented promise of --drain, refuted by the code.
CONSTANTS
    Benchmarks = {b1}
    NumNonces = 1
    Leaves = {x}
    Payloads = {p}
    None = None
    MaxRequests = 1
    Releases = {r1}
    Outcomes = {"active", "expired"}
    Images = r1
    Workers = 1
    MaxFaults = 1
SPECIFICATION Spec
PROPERTIES DrainRequestsNothingNew
