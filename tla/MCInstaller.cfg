\* Two installers beside the worker, two releases, two crashes or edited checkouts.
CONSTANTS
    Installers = {i1, i2}
    Releases = {r1, r2}
    None = None
    ImagesOf <- MCImagesOf
    MaxFaults = 2
SPECIFICATION FairSpec
INVARIANTS InstallationInv RunningIsRecorded RetrySucceeds
PROPERTIES ImplementsInstalledWorker CheckoutsStay WorkUndisturbed DrainStopsWorker
