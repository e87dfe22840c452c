--------------------------- MODULE MCSSHTransport ---------------------------
(* A small instance of SSHTransport for TLC. *)
EXTENDS SSHTransportRefines
=============================================================================
