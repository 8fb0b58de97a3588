CONSTANTS
    Primary = p
    Replicas = {r1}
    Upgrade = u1
    Annotations = {u1, none}
    Versions <- MCVersions
    UpgradeSpecs <- MCValidSpecs
    MaxUserActions = 2
    MaxRV = 1
    JobDeletion = FALSE

SPECIFICATION Spec

INVARIANT TypeOK
INVARIANT RemoveDataOnlyAfterUpgrade
INVARIANT SucceededImpliesApplied
PROPERTY VersionAppliedOnlyAfterJobs
PROPERTY UpgradeRefinesAbstract
