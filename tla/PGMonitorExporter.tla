-------------------------- MODULE PGMonitorExporter --------------------------
(***************************************************************************)
(* The pgMonitor exporter part of the PostgresCluster reconcile            *)
(* (src/internal/controller/postgrescluster/pgmonitor.go): the monitoring *)
(* Secret, the exporter web-config ConfigMap, the exporter container of   *)
(* the instance Pod template, and the hash-gated SQL that enables or      *)
(* disables the exporter in the database.                                  *)
(*                                                                         *)
(* The SQL is executed only when the revision (a hash of the SQL, which   *)
(* carries the Secret's verifier, and of both container image IDs)        *)
(* differs from Status.Monitoring.ExporterConfiguration.  The revision is *)
(* recorded in the in-memory status, which reaches the API server only    *)
(* when the cluster status patch of the same pass succeeds.  The hash is  *)
(* modelled as the record it is computed from (a collision is neglected). *)
(***************************************************************************)
EXTENDS Naturals

CONSTANTS
    Images,           \* image IDs the database and exporter containers may run
    MaxPasswords,     \* bound on passwords generated for the monitoring user
    MaxUserActions,   \* bound on edits of the cluster spec and of its Secret
    MaxCrashes        \* bound on passes whose status patch is lost

VARIABLES
    enabled,      \* spec.monitoring.pgmonitor.exporter is set
    tls,          \* spec...exporter.customTLSSecret is set
    secret,       \* monitoring Secret: [exists, password] (0: no data)
    webConfig,    \* exporter web-config ConfigMap exists
    status,       \* Status.Monitoring.ExporterConfiguration as stored
    db,           \* exporter configuration last applied to the database
    pod,          \* the instance Pod: template, image, readiness, exporter env
    generated,    \* passwords generated so far
    userActions,  \* user edits so far
    crashes       \* lost status patches so far

vars == <<enabled, tls, secret, webConfig, status, db, pod, generated,
          userActions, crashes>>

NoImage == "none"
Passwords == 1..MaxPasswords

\* The input of the revision hash (lines 133-146): the SQL text, which
\* holds the verifier when enabling, and the two image IDs, empty when
\* the exporter is disabled.
Revision(e, pw, img) == [enabled |-> e, password |-> pw, image |-> img]
\* The empty status string, before any revision was recorded.
NoRevision == [enabled |-> FALSE, password |-> 0, image |-> ""]
Revisions == {Revision(FALSE, 0, NoImage)} \cup
             {Revision(TRUE, pw, img) : pw \in Passwords, img \in Images}

\* The instance Pod template (lines 269-348, 362-408): the exporter
\* container, with its password taken from the Secret into an environment
\* variable, and the TLS volumes when a custom TLS Secret is given.
Template == [exporter |-> enabled, tls |-> enabled /\ tls]

TypeOK ==
    /\ enabled \in BOOLEAN /\ tls \in BOOLEAN
    /\ secret \in [exists: BOOLEAN, password: 0..MaxPasswords]
    /\ webConfig \in BOOLEAN
    /\ status \in Revisions \cup {NoRevision}
    /\ db \in Revisions \cup {NoRevision}
    /\ pod \in [template: [exporter: BOOLEAN, tls: BOOLEAN], image: Images,
                writable: BOOLEAN, exporterRunning: BOOLEAN,
                envPassword: 0..MaxPasswords]
    /\ generated \in 0..MaxPasswords
    /\ userActions \in 0..MaxUserActions
    /\ crashes \in 0..MaxCrashes

-----------------------------------------------------------------------------
(* reconcileMonitoringSecret (lines 182-250).  Disabled: the Secret is    *)
(* deleted.  Enabled: a password is generated when the Secret has none,   *)
(* otherwise kept, and the Secret is applied.  The password the pass uses *)
(* is returned; 0 stands for the nil Secret.                               *)
(***************************************************************************)
SecretPassword ==
    IF secret.exists /\ secret.password # 0 THEN secret.password
    ELSE generated + 1

reconcileMonitoringSecret ==
    IF ~enabled
    THEN /\ secret' = [exists |-> FALSE, password |-> 0]
         /\ UNCHANGED generated
    ELSE /\ SecretPassword <= MaxPasswords
         /\ secret' = [exists |-> TRUE, password |-> SecretPassword]
         /\ generated' = IF SecretPassword > generated THEN SecretPassword
                         ELSE generated

\* reconcileExporterWebConfig (lines 411-465): the ConfigMap exists only
\* while the exporter is enabled with a custom TLS Secret.
reconcileExporterWebConfig == webConfig' = (enabled /\ tls)

\* reconcilePGMonitorExporter (lines 73-178): needs a writable Pod and,
\* when enabled, a running exporter container (whose image IDs are then
\* known).  The SQL runs when the revision differs from the stored one;
\* the revision is recorded only when the SQL succeeded.
\* Mutant: the exporter container is required even when disabled.
ExporterReadyAlwaysExporter == pod.writable /\ pod.exporterRunning
ExporterReady == pod.writable /\ (enabled => pod.exporterRunning)
\* Mutant: the image IDs are not checked and hash as empty strings.
CurrentRevisionWithoutImages(pw) ==
    IF enabled THEN Revision(TRUE, pw, "") ELSE Revision(FALSE, 0, NoImage)
CurrentRevision(pw) ==
    IF enabled THEN Revision(TRUE, pw, pod.image) ELSE Revision(FALSE, 0, NoImage)

RecordRevision(rev, execFails) == IF execFails THEN status ELSE rev

reconcilePGMonitorExporter(pw, f) ==
    LET rev == CurrentRevision(pw) IN
    IF ExporterReady /\ rev # status
    THEN /\ db' = IF f = "exec" THEN db ELSE rev
         /\ status' = IF f = "crash" THEN status
                      ELSE RecordRevision(rev, f = "exec")
    ELSE UNCHANGED <<db, status>>

Reconcile(f) ==
    /\ f = "crash" => crashes < MaxCrashes
    /\ crashes' = IF f = "crash" THEN crashes + 1 ELSE crashes
    /\ reconcileExporterWebConfig
    /\ IF f = "secret"
         THEN UNCHANGED <<secret, generated, db, status>>
         ELSE /\ reconcileMonitoringSecret
              /\ reconcilePGMonitorExporter(secret'.password, f)
    /\ UNCHANGED <<enabled, tls, pod, userActions>>

-----------------------------------------------------------------------------
(* The environment.                                                       *)
(***************************************************************************)
\* The user toggles the exporter or its TLS Secret, or deletes the
\* monitoring Secret.
UserEdit ==
    /\ userActions < MaxUserActions
    /\ userActions' = userActions + 1
    /\ \/ enabled' = ~enabled /\ UNCHANGED <<tls, secret>>
       \/ tls' = ~tls /\ UNCHANGED <<enabled, secret>>
       \/ secret.exists /\ secret' = [exists |-> FALSE, password |-> 0]
          /\ UNCHANGED <<enabled, tls>>
    /\ UNCHANGED <<webConfig, status, db, pod, generated, crashes>>

\* The instance controller rolls the Pod when its template is outdated or
\* an image is updated (a user action).  The exporter's environment takes
\* the Secret's password at container start and is never updated after.
RollPod(img) ==
    /\ pod.template # Template \/ img # pod.image
    /\ img # pod.image => userActions < MaxUserActions
    /\ userActions' = IF img # pod.image THEN userActions + 1 ELSE userActions
    /\ pod' = [template |-> Template, image |-> img, writable |-> FALSE,
               exporterRunning |-> FALSE, envPassword |-> 0]
    /\ UNCHANGED <<enabled, tls, secret, webConfig, status, db, generated, crashes>>

\* Patroni promotes the restarted instance; the exporter container starts
\* once its Secret exists.
PodWritable ==
    /\ ~pod.writable
    /\ pod' = [pod EXCEPT !.writable = TRUE]
    /\ UNCHANGED <<enabled, tls, secret, webConfig, status, db, generated,
                   userActions, crashes>>

ExporterStart ==
    /\ pod.template.exporter /\ ~pod.exporterRunning /\ secret.exists
    /\ pod' = [pod EXCEPT !.exporterRunning = TRUE,
                          !.envPassword = secret.password]
    /\ UNCHANGED <<enabled, tls, secret, webConfig, status, db, generated,
                   userActions, crashes>>

-----------------------------------------------------------------------------
Init ==
    /\ enabled \in BOOLEAN /\ tls \in BOOLEAN
    /\ secret = [exists |-> FALSE, password |-> 0]
    /\ webConfig = FALSE
    /\ status = NoRevision /\ db = NoRevision
    /\ \E img \in Images :
         pod = [template |-> Template, image |-> img, writable |-> FALSE,
                exporterRunning |-> FALSE, envPassword |-> 0]
    /\ generated = 0 /\ userActions = 0 /\ crashes = 0

Next ==
    \/ \E f \in {"none", "secret", "exec", "crash"} : Reconcile(f)
    \/ UserEdit
    \/ \E img \in Images : RollPod(img)
    \/ PodWritable
    \/ ExporterStart

\* The PostgresCluster reconcile is resynced; the instance controller,
\* Patroni and the kubelet act.  User edits and failures need not happen.
Fairness ==
    /\ WF_vars(Reconcile("none"))
    /\ WF_vars(RollPod(pod.image))
    /\ WF_vars(PodWritable)
    /\ WF_vars(ExporterStart)

Spec == Init /\ [][Next]_vars
FairSpec == Spec /\ Fairness

-----------------------------------------------------------------------------
(* Properties.                                                            *)
(***************************************************************************)

DatabaseConverges ==
    <>[](db = CurrentRevision(secret.password))

\* Once edits and failures stop, a running exporter ends up, and stays,
\* with the Secret's current password, the one the database verifier was
\* built from (the environment variable of lines 297-310).
ExporterPasswordCurrent ==
    <>[](pod.exporterRunning => pod.envPassword = secret.password)

=============================================================================
