CONSTANTS
    Primary = p
    Replicas = {r1}
    Upgrade = u1
    Annotations = {u1, none}
    Versions <- MCVersions
    UpgradeSpecs <- MCValidSpecs
    MaxUserActions = 2
    MaxRV = 2
    JobDeletion = FALSE

SPECIFICATION Spec

PROPERTY DestructiveStepsOnlyWhileShutdown
