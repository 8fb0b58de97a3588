------------------------------- MODULE HugePages -------------------------------
(***************************************************************************)
(* Huge pages detection (src/internal/ivory/huge_pages.go).  SetHugePages *)
(* sets the default IvorySQL parameter huge_pages to "try" when some      *)
(* instance set of the cluster limits a hugepages-<size> resource to more *)
(* than zero, and to "off" otherwise.                                      *)
(*                                                                         *)
(* A resource name is a sequence of tokens (the prefix test compares      *)
(* whole tokens), and a quantity is a number of thousandths of its unit,  *)
(* so that "500m" and "-1" are both quantities the parser accepts.        *)
(***************************************************************************)
EXTENDS Integers, Sequences, SequencesExt

CONSTANTS
    ResourceNames,    \* resource names a limit may be given for
    Quantities,       \* limit quantities, in thousandths
    MaxInstanceSets,  \* bound on the instance sets of a cluster
    HugePageResources \* the resource names that are huge page sizes

VARIABLES
    instanceSets,  \* cluster.Spec.InstanceSets: the Resources.Limits of each
    hugePages      \* pgParameters.Default["huge_pages"]

vars == <<instanceSets, hugePages>>

\* Values the parameter may hold before SetHugePages runs.
ParameterValues == {"unset", "on", "try", "off"}

\* Every resource-limit map over ResourceNames.
LimitMaps == UNION {[names -> Quantities] : names \in SUBSET ResourceNames}
IsLimitMap(l) == DOMAIN l \subseteq ResourceNames /\ \A n \in DOMAIN l : l[n] \in Quantities

TypeOK ==
    /\ Len(instanceSets) <= MaxInstanceSets
    /\ \A i \in 1..Len(instanceSets) : IsLimitMap(instanceSets[i])
    /\ hugePages \in ParameterValues

\* corev1.ResourceHugePagesPrefix.
ResourceHugePagesPrefix == <<"hugepages", "-">>

\* resource.Quantity.Value(): the value rounded up to the nearest integer
\* away from zero.
\* Mutant: the value is truncated toward zero.
ValueTruncated(q) ==
    IF q >= 0 THEN q \div 1000 ELSE -((-q) \div 1000)
Value(q) ==
    IF q >= 0 THEN (q + 999) \div 1000 ELSE -((-q + 999) \div 1000)

\* hugePagesRequested: the loops over the instance sets and over the
\* names of their limits return true at the first hugepages- limit whose
\* value is greater than zero (the Go map order does not matter to the
\* result).
hugePagesRequested(sets) ==
    \E i \in 1..Len(sets) :
        \E resourceName \in DOMAIN sets[i] :
            /\ IsPrefix(ResourceHugePagesPrefix, resourceName)
            /\ Value(sets[i][resourceName]) > 0

\* SetHugePages: Add overwrites the default parameter.
\* Mutant: the boolean is formatted as the parameter value.
SetHugePagesFormatBool ==
    /\ hugePages' = IF hugePagesRequested(instanceSets) THEN "true" ELSE "false"
    /\ UNCHANGED instanceSets
SetHugePages ==
    /\ hugePages' = IF hugePagesRequested(instanceSets) THEN "try" ELSE "off"
    /\ UNCHANGED instanceSets

\* Every spec of up to MaxInstanceSets instance sets, before SetHugePages
\* ran, with the parameter unset or set by the user.
Init ==
    /\ \E n \in 0..MaxInstanceSets : instanceSets \in [1..n -> LimitMaps]
    /\ hugePages \in {"unset", "on"}

Next == SetHugePages

Spec == Init /\ [][Next]_vars

-----------------------------------------------------------------------------
(* Reference.                                                             *)
(***************************************************************************)
\* The comment of hugePagesRequested: some instance set limits a huge page
\* size to an amount greater than zero (a fraction of a page included).
Requested ==
    \E i \in 1..Len(instanceSets) :
        \E r \in DOMAIN instanceSets[i] \cap HugePageResources :
            instanceSets[i][r] > 0

\* After SetHugePages, huge_pages is "try" exactly when huge pages are
\* requested, for every combination of instance sets, names and
\* quantities (lines 30-55, including a limit between zero and one).
HugePagesMatchRequest ==
    hugePages \in {"try", "off"} => (hugePages = "try") = Requested

=============================================================================
