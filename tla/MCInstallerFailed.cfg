\* The first installation of a directory fails once.
CONSTANTS
    Installers = {i1}
    Releases = {r1}
    None = None
    ImagesOf <- MCImagesOf
    MaxFaults = 1
SPECIFICATION Spec
INVARIANTS FailedInstallCanBeRetried
