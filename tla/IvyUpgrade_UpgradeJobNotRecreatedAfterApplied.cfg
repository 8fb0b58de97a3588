CONSTANTS
    Primary = p
    Replicas = {r1}
    Upgrade = u1
    Annotations = {u1}
    Versions <- MCVersions
    UpgradeSpecs <- MCValidSpecs
    MaxUserActions = 1
    MaxRV = 1
    JobDeletion = TRUE

SPECIFICATION Spec

PROPERTY UpgradeJobNotRecreatedAfterApplied
