--------------------------- MODULE MC_IvyUpgrade ---------------------------
(* Model-checking instance of IvyUpgrade: a primary and one replica, an   *)
(* upgrade between two adjacent versions, an annotation that names this   *)
(* upgrade or nothing.                                                    *)
EXTENDS IvyUpgrade

MCVersions == {14, 15}

\* A valid upgrade request, 14 -> 15.
MCValidSpecs == {[from |-> 14, to |-> 15]}

\* Every request over the two versions, the invalid ones included.
MCAllSpecs == [from: MCVersions, to: MCVersions]

=============================================================================
