\* Two nonces on a local and two remote workers, every kind of failure, two of them.
CONSTANTS
    Benchmarks = {b1}
    NumNonces = 2
    Leaves = {x, y}
    Payloads = {b1}
    None = None
    PayloadOf <- MCPayloadOf
    HelperWorkers = 2
    LocalWorkers = 1
    RemoteWorkers = 2
    Faults = {"cut", "timeout", "signal", "kill", "gone", "crash", "nonce", "docker", "local", "close"}
    MaxFaults = 2
SPECIFICATION Spec
INVARIANTS FleetInv HelperWorksForHandedOver AnsweredIsSaved RuntimeOutlivesComputation
PROPERTIES SavedWhileAttached ImplementsSharedBenchmark
