---------------------------- MODULE MCDeviceGrant ----------------------------
(***************************************************************************)
(* DeviceGrant for TLC.                                                    *)
(***************************************************************************)
EXTENDS DeviceGrant, TLC

\* Device codes, flows, verifications and polls are interchangeable.
Symmetry == Permutations(Devices) \cup Permutations(Flows)
            \cup Permutations(Verifiers) \cup Permutations(Polls)
=============================================================================
