----------------------------- MODULE MCInstaller -----------------------------
EXTENDS InstallerRefines

\* Every release has its own runtime images.
MCImagesOf == [r \in Releases |-> r]
=============================================================================
