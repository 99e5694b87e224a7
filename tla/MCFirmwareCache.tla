-------------------------- MODULE MCFirmwareCache --------------------------
(***************************************************************************)
(* FirmwareCache on small instances.                                       *)
(***************************************************************************)
EXTENDS FirmwareCache

\* Each release is for sensors that run at least the one before.
MCNeeds == [r \in Releases |-> r - 1]
=============================================================================
