--------------------------- MODULE MCMemberMaster ---------------------------
(* Small instances of MemberMaster for TLC. *)
EXTENDS MemberMasterRefines

\* The payload of an assignment names its benchmark, so none is shared.
MCPayloadOf == [b \in Benchmarks |-> b]
=============================================================================
