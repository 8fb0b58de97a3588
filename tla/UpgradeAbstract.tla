---------------------------- MODULE UpgradeAbstract ----------------------------
(***************************************************************************)
(* What a major-version upgrade of one cluster promises (the spec, 4.4):  *)
(* the primary's data is rewritten to the target version once, on a      *)
(* cluster not yet at it; each replica's data is removed once, only after *)
(* that; and the cluster's version becomes the target only after both.    *)
(* Nothing is ever undone.                                                 *)
(***************************************************************************)
CONSTANTS
    Replicas,   \* instances other than the primary
    Versions    \* major versions

VARIABLES
    target,           \* the version the upgrade goes to
    version,          \* the version the cluster reports running
    primaryUpgraded,  \* the primary's data is at the target version
    removed           \* replicas whose data was removed

avars == <<target, version, primaryUpgraded, removed>>

Init ==
    /\ target \in Versions
    /\ version \in Versions
    /\ primaryUpgraded = FALSE
    /\ removed = {}

\* pg_upgrade rewrites the primary's data, on a cluster not yet at target.
UpgradePrimary ==
    /\ ~primaryUpgraded /\ version # target
    /\ primaryUpgraded' = TRUE
    /\ UNCHANGED <<target, version, removed>>

\* The data of one replica is removed, after the primary was upgraded.
RemoveData(r) ==
    /\ primaryUpgraded /\ r \notin removed
    /\ removed' = removed \cup {r}
    /\ UNCHANGED <<target, version, primaryUpgraded>>

\* The cluster reports the target version once every step is done.
Apply ==
    /\ primaryUpgraded /\ removed = Replicas
    /\ version' = target
    /\ UNCHANGED <<target, primaryUpgraded, removed>>

Next ==
    \/ UpgradePrimary
    \/ \E r \in Replicas : RemoveData(r)
    \/ Apply

Spec == Init /\ [][Next]_avars

=============================================================================
