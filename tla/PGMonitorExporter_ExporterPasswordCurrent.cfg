CONSTANTS
    Images = {i1, i2}
    MaxPasswords = 4
    MaxUserActions = 3
    MaxCrashes = 0

SPECIFICATION FairSpec

PROPERTY ExporterPasswordCurrent
