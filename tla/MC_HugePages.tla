----------------------------- MODULE MC_HugePages -----------------------------
EXTENDS HugePages

\* A huge page size, a name that lacks the dash of the prefix, and a
\* resource that is not a huge page size.
MCHugePages2Mi == <<"hugepages", "-", "2Mi">>
MCResourceNames == {MCHugePages2Mi, <<"hugepages", "2Mi">>, <<"memory">>}
MCHugePageResources == {MCHugePages2Mi}
\* -1, 0, 500m and 2.
MCQuantities == {-1000, 0, 500, 2000}
=============================================================================
