--------------------------- MODULE MCDockerRuntime ---------------------------
(* A small instance of DockerRuntime for TLC. *)
EXTENDS DockerRuntimeProperties
=============================================================================
