--------------------------- MODULE PGBackRestConfig ---------------------------
(***************************************************************************)
(* The pgBackRest configuration synthesizer (package pgbackrest, lines    *)
(* 31-542 of src/hack/controller-generator.sh).                           *)
(*                                                                         *)
(* CreatePGBackRestConfigMapIntent renders the instance configuration,    *)
(* the TLS server configuration and, with a dedicated repository host,    *)
(* the repository-host configuration into the Data of one ConfigMap.      *)
(* MakePGBackrestLogDir adds to the repository host's Pod template the    *)
(* init container that creates the host's log directory.  Both are pure   *)
(* functions of the cluster spec and of the caller's arguments; Init      *)
(* enumerates those inputs and one step of each action computes the       *)
(* output.                                                                 *)
(*                                                                         *)
(* An option name is a tuple of its parts: repo.Name+"-path" is           *)
(* <<name, "path">> and fmt.Sprintf("pg%d-host", n) is <<"pg", n, "host">>;*)
(* a key of the user's global map is written the same way, so that it is  *)
(* equal to a generated option exactly when the strings are equal.  A     *)
(* value is a tuple naming what it is built from.  A section (an          *)
(* iniMultiSet) is a function from option names to the sequence of their  *)
(* values, and a section set maps section names to sections; the text     *)
(* they render to is left out, as it is a function of these.              *)
(***************************************************************************)
EXTENDS Integers, Sequences, SequencesExt

CONSTANTS
    RepoNames,      \* names a repository of the spec may have
    Backends,       \* sets of the Volume/S3/GCS/Azure fields a repository sets
    GlobalKeys,     \* option names the user's Global map may set
    Hosts,          \* names of the instance Pods handed to the repo host
    RepoHostNames,  \* repoHostName arguments ("" when there is no repo host)
    IPAnnotations,  \* values of the ip-version annotation, as character sequences
    UpperToLower    \* the case folding of the annotation's characters

VARIABLES
    repos,          \* Spec.Backups.PGBackRest.Repos
    globalConfig,   \* Spec.Backups.PGBackRest.Global
    pgHosts,        \* instanceNames, the instance Pods in order
    repoHostName,   \* the repository host's name
    ipAnnotation,   \* Annotations[naming.PGBackRestIPVersion]
    configMap,      \* cm.Data, empty until rendered
    initContainers  \* the repo host Pod template's InitContainers

inputs == <<repos, globalConfig, pgHosts, repoHostName, ipAnnotation>>
vars == <<inputs, configMap, initContainers>>

\* Names of the ConfigMap keys and of the sections.
CMInstanceKey == "pgbackrest_instance.conf"
CMRepoKey == "pgbackrest_repo.conf"
serverConfigMapKey == "pgbackrest-server.conf"
ConfigHashKey == "config-hash"
DefaultStanzaName == "db"

-----------------------------------------------------------------------------
(* iniMultiSet (defined outside src/; the spec, section 6): Set replaces  *)
(* the values of an option, Add appends one.                              *)
(***************************************************************************)
EmptySection == <<>>

Set(ms, option, val) == (option :> <<val>>) @@ ms

Add(ms, option, val) ==
    (option :> (IF option \in DOMAIN ms THEN Append(ms[option], val) ELSE <<val>>))
        @@ ms

\* A loop "for option, val := range m { ms.Set(option, val) }": its writes go
\* to distinct options, so the Go map order does not change the result.
SetAll(ms, m) == [o \in DOMAIN m |-> <<m[o]>>] @@ ms

-----------------------------------------------------------------------------
IsVolume(repo) == "volume" \in repo.backend

\* DedicatedRepoHostEnabled (defined outside src/): some repository has a
\* volume, as the comment of populateRepoHostConfigurationMap relies on.
DedicatedRepoHostEnabled(rs) == \E i \in 1..Len(rs) : IsVolume(rs[i])

\* naming.PGBackRestRepoLogPath formatted with the repository's name.
RepoLogPath(name) == <<"/pgbackrest/", name, "/log">>

\* getExternalRepoConfigs: the first of Azure, GCS and S3 that is set.
\* Mutant: the GCS type is spelled "gs".
getExternalRepoConfigsGs(repo) ==
    CASE "azure" \in repo.backend ->
            (<<repo.name, "type">> :> "azure")
            @@ (<<repo.name, "azure-container">> :> <<"container", repo.name>>)
      [] "gcs" \in repo.backend ->
            (<<repo.name, "type">> :> "gs")
            @@ (<<repo.name, "gcs-bucket">> :> <<"bucket", repo.name>>)
      [] "s3" \in repo.backend ->
            (<<repo.name, "type">> :> "s3")
            @@ (<<repo.name, "s3-bucket">> :> <<"bucket", repo.name>>)
            @@ (<<repo.name, "s3-endpoint">> :> <<"endpoint", repo.name>>)
            @@ (<<repo.name, "s3-region">> :> <<"region", repo.name>>)
      [] OTHER -> <<>>
getExternalRepoConfigs(repo) ==
    CASE "azure" \in repo.backend ->
            (<<repo.name, "type">> :> "azure")
            @@ (<<repo.name, "azure-container">> :> <<"container", repo.name>>)
      [] "gcs" \in repo.backend ->
            (<<repo.name, "type">> :> "gcs")
            @@ (<<repo.name, "gcs-bucket">> :> <<"bucket", repo.name>>)
      [] "s3" \in repo.backend ->
            (<<repo.name, "type">> :> "s3")
            @@ (<<repo.name, "s3-bucket">> :> <<"bucket", repo.name>>)
            @@ (<<repo.name, "s3-endpoint">> :> <<"endpoint", repo.name>>)
            @@ (<<repo.name, "s3-region">> :> <<"region", repo.name>>)
      [] OTHER -> <<>>

\* The options every volume repository gets on an instance with a repo host.
RepoHostOptions(name, fqdn) ==
    (<<name, "host">> :> fqdn)
    @@ (<<name, "host-type">> :> "tls")
    @@ (<<name, "host-ca-file">> :> "certAuthority")
    @@ (<<name, "host-cert-file">> :> "certClient")
    @@ (<<name, "host-key-file">> :> "certClientKey")
    @@ (<<name, "host-user">> :> "ivory")

\* The options of the n-th IvorySQL host in the repo host's stanza.
PGHostOptions(n, host) ==
    (<<"pg", n, "host">> :> <<"fqdn", host>>)
    @@ (<<"pg", n, "host-type">> :> "tls")
    @@ (<<"pg", n, "host-ca-file">> :> "certAuthority")
    @@ (<<"pg", n, "host-cert-file">> :> "certClient")
    @@ (<<"pg", n, "host-key-file">> :> "certClientKey")
    @@ (<<"pg", n, "path">> :> "pgdataDir")
    @@ (<<"pg", n, "port">> :> "pgPort")
    @@ (<<"pg", n, "socket-path">> :> "socketDirectory")

\* The loop of a repository's path and external options, shared by both roles.
RepoPathAndExternal(global, repo) ==
    LET g == Set(global, <<repo.name, "path">>, <<"/pgbackrest/", repo.name>>)
    IN IF IsVolume(repo) THEN g ELSE SetAll(g, getExternalRepoConfigs(repo))

-----------------------------------------------------------------------------
\* One pass of the repository loop of populatePGInstanceConfigurationMap:
\* the path and external options, then, for a volume repository when there
\* is a repo host, the repo host's TLS options.
\* Mutant: the repo host's options are added to every repository.
InstanceRepoStepAnyRepo(rhName, global, repo) ==
    LET g == RepoPathAndExternal(global, repo)
    IN IF rhName # "" THEN SetAll(g, RepoHostOptions(repo.name, <<"fqdn", rhName>>))
       ELSE g
InstanceRepoStep(rhName, global, repo) ==
    LET g == RepoPathAndExternal(global, repo)
    IN IF rhName # "" /\ IsVolume(repo)
       THEN SetAll(g, RepoHostOptions(repo.name, <<"fqdn", rhName>>))
       ELSE g

\* The local instance is always pg1 of the instance's stanza.
InstanceStanza ==
    SetAll(EmptySection, (<<"pg", 1, "path">> :> "pgdataDir")
                         @@ (<<"pg", 1, "port">> :> "pgPort")
                         @@ (<<"pg", 1, "socket-path">> :> "socketDirectory"))

\* populatePGInstanceConfigurationMap: the global section logs to the data
\* volume, each repository makes one pass, and the user's Global map is
\* applied last.
\* Mutant: the Global map is applied before the repositories.
populatePGInstanceConfigurationMapGlobalFirst(rhName, rs, gc) ==
    ("global" :> FoldLeft(LAMBDA g, r : InstanceRepoStep(rhName, g, r),
                          SetAll(Set(EmptySection, <<"log-path">>, "pgDataLogPath"), gc),
                          rs))
    @@ (DefaultStanzaName :> InstanceStanza)
populatePGInstanceConfigurationMap(rhName, rs, gc) ==
    ("global" :> SetAll(FoldLeft(LAMBDA g, r : InstanceRepoStep(rhName, g, r),
                                 Set(EmptySection, <<"log-path">>, "pgDataLogPath"),
                                 rs),
                        gc))
    @@ (DefaultStanzaName :> InstanceStanza)

\* One pass of the repository loop of populateRepoHostConfigurationMap:
\* the path and external options, and the log path of the first volume
\* repository, found through the pgBackRestLogPathSet flag.
\* Mutant: the flag is not tested, so the last volume repository wins.
RepoHostRepoStepLastVolume(acc, repo) ==
    LET g == RepoPathAndExternal(acc.global, repo)
    IN IF IsVolume(repo)
       THEN [global |-> Set(g, <<"log-path">>, RepoLogPath(repo.name)), logPathSet |-> TRUE]
       ELSE [acc EXCEPT !.global = g]
RepoHostRepoStep(acc, repo) ==
    LET g == RepoPathAndExternal(acc.global, repo)
    IN IF ~acc.logPathSet /\ IsVolume(repo)
       THEN [global |-> Set(g, <<"log-path">>, RepoLogPath(repo.name)), logPathSet |-> TRUE]
       ELSE [acc EXCEPT !.global = g]

\* The pgBackRest index of the host at Go index i of pgHosts.
\* Mutant: the Go index is used as it is.
PGHostIndexZeroBased(i) == i
PGHostIndex(i) == i + 1

\* populateRepoHostConfigurationMap: each repository makes one pass, the
\* user's Global map is applied, and the stanza has the options of the host
\* at Go index i under PGHostIndex(i), for i in 0..N-1.
populateRepoHostConfigurationMap(hosts, rs, gc) ==
    LET hostStep(stanza, i) == SetAll(stanza, PGHostOptions(PGHostIndex(i), hosts[i + 1]))
    IN ("global" :> SetAll(FoldLeft(RepoHostRepoStep,
                                    [global |-> EmptySection, logPathSet |-> FALSE],
                                    rs).global,
                           gc))
       @@ (DefaultStanzaName :>
             FoldLeft(hostStep, EmptySection, [j \in 1..Len(hosts) |-> j - 1]))

\* strings.EqualFold over the annotation's characters.
Fold(c) == IF c \in DOMAIN UpperToLower THEN UpperToLower[c] ELSE c
EqualFold(s, t) ==
    /\ Len(s) = Len(t)
    /\ \A i \in 1..Len(s) : Fold(s[i]) = Fold(t[i])

\* serverConfig: the TLS server listens on 0.0.0.0, or on :: when the
\* annotation says ipv6; the cluster's client certificate may use any stanza.
serverConfig(annotation) ==
    LET g0 == Set(EmptySection, <<"tls-server-address">>, "0.0.0.0")
        g1 == IF EqualFold(annotation, <<"i", "p", "v", "6">>)
              THEN Set(g0, <<"tls-server-address">>, "::") ELSE g0
        g2 == Add(g1, <<"tls-server-auth">>, <<"clientCommonName", "=*">>)
    IN ("global" :> SetAll(g2, (<<"tls-server-ca-file">> :> "certAuthority")
                               @@ (<<"tls-server-cert-file">> :> "certServer")
                               @@ (<<"tls-server-key-file">> :> "certServerKey")))
       @@ ("global:server" :> SetAll(EmptySection,
                                  (<<"log-level-console">> :> "detail")
                                  @@ (<<"log-level-stderr">> :> "error")
                                  @@ (<<"log-level-file">> :> "off")
                                  @@ (<<"log-timestamp">> :> "n")))

-----------------------------------------------------------------------------
\* CreatePGBackRestConfigMapIntent: the instance file and the config hash
\* are always written and the server file always exists; with a dedicated
\* repo host and a repo host name, the server file gets the TLS server's
\* options and the repo host file is written.
CreatePGBackRestConfigMapIntent ==
    /\ configMap = <<>>
    /\ LET dedicated == DedicatedRepoHostEnabled(repos) /\ repoHostName # ""
           always == (CMInstanceKey :> populatePGInstanceConfigurationMap(
                                           repoHostName, repos, globalConfig))
                     @@ (serverConfigMapKey :>
                           IF dedicated THEN serverConfig(ipAnnotation) ELSE <<>>)
                     @@ (ConfigHashKey :> "configHash")
       IN configMap' =
            IF dedicated
            THEN (CMRepoKey :> populateRepoHostConfigurationMap(
                                   pgHosts, repos, globalConfig)) @@ always
            ELSE always
    /\ UNCHANGED <<inputs, initContainers>>

\* MakePGBackrestLogDir: the init container runs "mkdir -p" on the log path
\* of the first volume repository (empty when there is none).  The
\* container's image, policy and the resources it copies from the pgbackrest
\* container (lines 181-195) are data no property tells apart.
MakePGBackrestLogDir ==
    /\ initContainers = <<>>
    /\ LET vols == SelectSeq(repos, IsVolume)
           path == IF vols = <<>> THEN <<>> ELSE RepoLogPath(Head(vols).name)
       IN initContainers' = Append(initContainers,
                                   [name |-> "pgbackrest-log-dir",
                                    command |-> <<"mkdir -p", path>>])
    /\ UNCHANGED <<inputs, configMap>>

Next == CreatePGBackRestConfigMapIntent \/ MakePGBackrestLogDir

-----------------------------------------------------------------------------
\* The inputs: repositories with distinct names (the CRD's list map key) in
\* any order, each with a set of backend fields; a Global map over some of
\* GlobalKeys; the instance Pods in any order.
Init ==
    /\ \E names \in SetToAllKPermutations(RepoNames) :
         \E backends \in [1..Len(names) -> Backends] :
           repos = [i \in 1..Len(names) |-> [name |-> names[i], backend |-> backends[i]]]
    /\ \E keys \in SUBSET GlobalKeys : globalConfig = [k \in keys |-> <<"user", k>>]
    /\ pgHosts \in SetToAllKPermutations(Hosts)
    /\ repoHostName \in RepoHostNames
    /\ ipAnnotation \in IPAnnotations
    /\ configMap = <<>>
    /\ initContainers = <<>>

Spec == Init /\ [][Next]_vars

-----------------------------------------------------------------------------
RepoTypes == {"azure", "gcs", "s3"}

RepoOptionSuffixes ==
    {"path", "type", "azure-container", "gcs-bucket", "s3-bucket", "s3-endpoint",
     "s3-region", "host", "host-type", "host-ca-file", "host-cert-file",
     "host-key-file", "host-user"}

PGOptionSuffixes ==
    {"host", "host-type", "host-ca-file", "host-cert-file", "host-key-file",
     "path", "port", "socket-path"}

ServerOptions ==
    {<<o>> : o \in {"tls-server-address", "tls-server-auth", "tls-server-ca-file",
                    "tls-server-cert-file", "tls-server-key-file", "log-level-console",
                    "log-level-stderr", "log-level-file", "log-timestamp"}}

\* The options pgBackRest accepts in these files.
OptionNames ==
    {<<"log-path">>} \cup ServerOptions
    \cup {<<n, s>> : n \in RepoNames, s \in RepoOptionSuffixes}
    \cup {<<"pg", i, s>> : i \in 1..Cardinality(Hosts), s \in PGOptionSuffixes}

IsSection(ms) ==
    /\ DOMAIN ms \subseteq OptionNames
    /\ \A o \in DOMAIN ms : Len(ms[o]) >= 1
    /\ \A n \in RepoNames : <<n, "type">> \in DOMAIN ms => ms[<<n, "type">>] \in {<<t>> : t \in RepoTypes}

TypeOK ==
    /\ configMap = <<>> \/
         /\ {CMInstanceKey, serverConfigMapKey, ConfigHashKey} \subseteq DOMAIN configMap
         /\ DOMAIN configMap \subseteq {CMInstanceKey, serverConfigMapKey, ConfigHashKey, CMRepoKey}
         /\ \A f \in DOMAIN configMap \ {ConfigHashKey} :
              \A sec \in DOMAIN configMap[f] : IsSection(configMap[f][sec])
    /\ Len(initContainers) <= 1

-----------------------------------------------------------------------------
(* Properties.                                                            *)
(***************************************************************************)
\* The spec, sections 4.2 and 8: in the repo host's stanza the IvorySQL
\* hosts are numbered exactly 1..N, in the order of instanceNames, each
\* with its own host name (the Go loop index i is written as i+1, lines
\* 389-404).
RepoHostIndicesMatchHosts ==
    CMRepoKey \in DOMAIN configMap =>
        LET stanza == configMap[CMRepoKey][DefaultStanzaName]
        IN /\ {o[2] : o \in DOMAIN stanza} = 1..Len(pgHosts)
           /\ \A i \in 1..Len(pgHosts) :
                stanza[<<"pg", i, "host">>] = <<<<"fqdn", pgHosts[i]>>>>

\* The spec, sections 4.2 and 8 (first volume wins), and the directory the
\* repo host logs to: unless the Global map sets log-path, the repo host's
\* log-path is the log directory of the first volume repository (the
\* pgBackRestLogPathSet flag, lines 361-381), which is the directory the
\* init container of MakePGBackrestLogDir creates (its loop breaks at the
\* first volume, lines 173-179).
RepoHostLogsToCreatedDir ==
    CMRepoKey \in DOMAIN configMap /\ initContainers # <<>>
    /\ <<"log-path">> \notin DOMAIN globalConfig
    => LET global == configMap[CMRepoKey]["global"]
       IN /\ <<"log-path">> \in DOMAIN global
          /\ global[<<"log-path">>] = <<initContainers[1].command[2]>>

\* The spec, section 4.2: the user's Global map is applied last, so each
\* option it sets has exactly the user's value in the global section of the
\* instance file and of the repo host file, over the generated log-path,
\* repository paths and host options (lines 334-336 and 384-386).
GlobalOverridesWin ==
    \A f \in {CMInstanceKey, CMRepoKey} \cap DOMAIN configMap :
        \A k \in DOMAIN globalConfig :
            configMap[f]["global"][k] = <<globalConfig[k]>>

\* An instance is told to reach a repository through the repo host (the
\* <name>-host options, lines 324-331) only for a volume repository, and
\* only when the same ConfigMap carries the repo host's file and the TLS
\* server's options (lines 148-161); otherwise its backups would go to a
\* host that serves nothing.
RepoHostReachableOnlyWhenServed ==
    CMInstanceKey \in DOMAIN configMap =>
        \A n \in RepoNames :
            <<n, "host">> \in DOMAIN configMap[CMInstanceKey]["global"] \ DOMAIN globalConfig
            => /\ \E i \in 1..Len(repos) : repos[i].name = n /\ IsVolume(repos[i])
               /\ CMRepoKey \in DOMAIN configMap
               /\ configMap[serverConfigMapKey] # <<>>

=============================================================================
