\* The main thread and two of the executor, two sessions, three calls.
CONSTANTS
    Threads = {t1, t2}
    Main = main
    MaxSessions = 2
    MaxCalls = 3
SPECIFICATION FairSpec
INVARIANTS TransportInv ResolvedOnce OldSessionIsOver
PROPERTIES BrokenCallsReturn ImplementsCallSession
