---------------------------- MODULE MCSealedGate ----------------------------
(***************************************************************************)
(* An instance of SealedGate for TLC: two gates, of different policies,    *)
(* share a holdout.                                                        *)
(***************************************************************************)
EXTENDS SealedGate

CONSTANT snap

MCSnapshotOf == [c \in Candidates |-> snap]
MCConfigs == {[snapshot |-> snap, dates |-> 1, policy |-> p] : p \in {1, 2}}
=============================================================================
