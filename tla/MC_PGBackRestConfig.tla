------------------------- MODULE MC_PGBackRestConfig -------------------------
(***************************************************************************)
(* Bounds for PGBackRestConfig.  Three repository names, so that a cloud  *)
(* repository can come before two volume repositories; backends that test *)
(* each branch of getExternalRepoConfigs and its precedence; Global keys  *)
(* that collide with the generated log-path, a repository path and a repo *)
(* host option; two instance Pods; the annotation absent, "IPv6" and      *)
(* "ipv4".                                                                 *)
(***************************************************************************)
EXTENDS PGBackRestConfig, TLC

CONSTANTS h1, h2

MCRepoNames == {"repo1", "repo2", "repo3"}

MCBackends == {{}, {"volume"}, {"s3"}, {"gcs", "s3"}, {"azure", "s3"}}

MCGlobalKeys == {<<"log-path">>, <<"repo1", "path">>, <<"repo2", "host">>}

MCHosts == {h1, h2}

MCRepoHostNames == {"", "repo-host"}

MCIPAnnotations == {<<>>, <<"I", "P", "v", "6">>, <<"i", "p", "v", "4">>}

MCUpperToLower == ("I" :> "i") @@ ("P" :> "p") @@ ("V" :> "v")

\* Pod names only appear as values, so exchanging them is a symmetry.
MCSymmetry == Permutations(MCHosts)

=============================================================================
