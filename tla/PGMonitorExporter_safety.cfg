CONSTANTS
    Images = {i1, i2}
    MaxPasswords = 4
    MaxUserActions = 3
    MaxCrashes = 2

SPECIFICATION Spec

INVARIANT TypeOK
 
