CONSTANTS
    Primary = p
    Replicas = {r1}
    Upgrade = u1
    Annotations = {u1, none}
    Versions <- MCVersions
    UpgradeSpecs <- MCAllSpecs
    MaxUserActions = 1
    MaxRV = 1
    JobDeletion = FALSE

SPECIFICATION FairSpec

PROPERTY UpgradeEventuallyDecided
