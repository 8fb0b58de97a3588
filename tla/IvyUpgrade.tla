----------------------------- MODULE IvyUpgrade -----------------------------
(***************************************************************************)
(* The IvyUpgrade controller (src/unnamed/part_002, package ivyupgrade):   *)
(* one Reconcile of one IvyUpgrade object against one IvoryCluster, its   *)
(* Jobs, its instance Pods and the Patroni DCS Endpoints.                  *)
(*                                                                         *)
(* Reconcile reads everything from the controller-runtime cache, which is  *)
(* fed by one informer per kind and lags the API server independently per *)
(* kind.  The store variables below are the API server; `cache` holds the  *)
(* informer copies, advanced by Sync.  A Reconcile is one atomic step that *)
(* reads only the cache and writes only the store, so every environment   *)
(* step between the informer copy and the write is a step that happened   *)
(* between observation and write.  Any API call of a Reconcile may fail   *)
(* (the parameter f names the failing call).                               *)
(***************************************************************************)
EXTENDS Integers, FiniteSets, Sequences

CONSTANTS
    Primary,          \* the instance started first after a shutdown
    Replicas,         \* the other instances (one remove-data Job each)
    Upgrade,          \* name of this IvyUpgrade
    Annotations,      \* values the allow-upgrade annotation may hold
    Versions,         \* IvorySQL major versions
    UpgradeSpecs,     \* the [from, to] pairs an IvyUpgrade may be created with
    MaxUserActions,   \* bound on user edits of the IvoryCluster
    MaxRV,            \* bound on Endpoints resourceVersions written
    JobDeletion       \* whether a user may delete a finished upgrade Job

ASSUME /\ Upgrade \in Annotations /\ Primary \notin Replicas
       /\ UpgradeSpecs \subseteq [from: Versions, to: Versions]

VARIABLES
    upgradeSpec,  \* IvyUpgrade spec: [from, to]
    conds,        \* IvyUpgrade status conditions (Progressing, Succeeded)
    cluster,      \* IvoryCluster: existence, spec/status version, annotation
    pods,         \* instance Pods running
    endpoints,    \* Patroni DCS Endpoints: [present, rv]
    jobs,         \* upgrade Job, remove-data Jobs, replica-create backup Job
    cache,        \* informer copies of the five kinds above
    userActions   \* user edits made so far

vars == <<upgradeSpec, conds, cluster, pods, endpoints, jobs, cache, userActions>>

Instances == {Primary} \cup Replicas
JobStates == {"Absent", "Running", "Complete", "Failed"}
None == "None"

\* The Reason values written to the Progressing condition.
ProgressingReasons == {"IvyUpgradeProgressing", "IvyUpgradeInvalid",
    "PGClusterErrorWhenObservingWorld", "PGClusterNotFound",
    "IvyUpgradeResolved", "IvyUpgradeCompleted", "PGClusterNotShutdown",
    "IvyUpgradeInvalidForCluster", "PGClusterMissingRequiredAnnotation"}
SucceededReasons == {"IvyUpgradeSucceeded", "IvyUpgradeFailed"}

\* The API call of one Reconcile that fails, if any.
Faults == {"none", "observe", "apply", "deleteJob", "patchCluster",
           "deleteEndpoints", "patchStatus"}

Store == [upgrade |-> conds, cluster |-> cluster, pods |-> pods,
          endpoints |-> endpoints, jobs |-> jobs]
Kinds == {"upgrade", "cluster", "pods", "endpoints", "jobs"}

TypeOK ==
    /\ upgradeSpec \in [from: Versions, to: Versions]
    /\ conds \in [progressing: ProgressingReasons \cup {None},
                  succeeded: SucceededReasons \cup {None}]
    /\ cluster \in [exists: BOOLEAN, specVersion: Versions,
                    statusVersion: Versions, annotation: Annotations,
                    shutdown: BOOLEAN, startup: BOOLEAN,
                    repos: {"Set", "Cleared"}]
    /\ pods \subseteq Instances
    /\ endpoints \in [present: BOOLEAN, rv: 0..MaxRV]
    /\ jobs \in [upgrade: JobStates, removeData: [Replicas -> JobStates],
                 replicaCreate: BOOLEAN]
    /\ DOMAIN cache = Kinds
    /\ userActions \in 0..MaxUserActions

-----------------------------------------------------------------------------
(* The World observed from the cache (observeWorld is not under src/; it  *)
(* is modelled from the spec: the cluster is shut down when no instance   *)
(* Pod is observed, the primary is the startup instance the cluster status*)
(* records, and the replicas are listed only while shut down, as the      *)
(* comment at line 439 says).  ReplicasExpected is the replica count.     *)
(***************************************************************************)
World == [cluster   |-> cache.cluster,
          shutdown  |-> cache.pods = {},
          primary   |-> cache.cluster.startup,
          replicas  |-> IF cache.pods = {} THEN Replicas ELSE {},
          jobs      |-> cache.jobs,
          endpoints |-> cache.endpoints]

ReplicasExpected == Cardinality(Replicas)

\* Mutant: a Job that exists is taken for a completed one.
UpgradeJobCompleteIfExists(w) == w.jobs.upgrade # "Absent"
UpgradeJobComplete(w) == w.jobs.upgrade = "Complete"
UpgradeJobFailed(w) == w.jobs.upgrade = "Failed"

\* The loop over world.Jobs: completed remove-data Jobs are collected, a
\* failed one sets removeDataJobsFailed and ends the loop.
RemoveDataJobsFailed(w) == \E r \in Replicas : w.jobs.removeData[r] = "Failed"

\* Mutant: off by one in the count of completed remove-data Jobs.
RemoveDataJobsCompleteOffByOne(w) ==
    Cardinality({r \in Replicas : w.jobs.removeData[r] = "Complete"})
        >= ReplicasExpected - 1
RemoveDataJobsComplete(w) ==
    Cardinality({r \in Replicas : w.jobs.removeData[r] = "Complete"})
        = ReplicasExpected

\* setStatusToProgressingIfReasonWas: Progressing becomes True/Progressing
\* when it is absent or its reason is the one named.
\* Mutant: the condition is written with the reason it was compared with.
setStatusToReasonIfReasonWas(p, reason) ==
    IF p = None \/ p = reason THEN reason ELSE p
setStatusToProgressingIfReasonWas(p, reason) ==
    IF p = None \/ p = reason THEN "IvyUpgradeProgressing" ELSE p

\* The reasons passed to setStatusToProgressingIfReasonWas, in call order.
Checkpoints == <<"", "IvyUpgradeInvalid", "PGClusterErrorWhenObservingWorld",
                 "PGClusterNotFound", "IvyUpgradeResolved",
                 "PGClusterNotShutdown", "IvyUpgradeInvalidForCluster",
                 "PGClusterMissingRequiredAnnotation">>

\* The upgrade as read from the cache: `before` of the deferred patch.
Before == cache.upgrade

\* Progressing after the checkpoints cps have been passed in order.
RECURSIVE PassCheckpoints(_, _)
PassCheckpoints(p, cps) ==
    IF cps = <<>> THEN p
    ELSE PassCheckpoints(setStatusToProgressingIfReasonWas(p, Head(cps)), Tail(cps))

\* Progressing after every checkpoint has been passed.
Progressed == PassCheckpoints(Before.progressing, Checkpoints)

\* The deferred function: the status is merge-patched, without a
\* resourceVersion, from the cached `before` when it differs from it.  A
\* JSON merge patch replaces the whole conditions list.
PatchUpgradeStatus(f, after) ==
    conds' = IF after # Before /\ f # "patchStatus" THEN after ELSE conds

\* Server-side apply of a Job: created when absent, otherwise unchanged.
\* Mutant: the Job is recreated whatever its state.
ApplyJobRecreate(s) == "Running"
\* Mutant: an absent Job is not created.
ApplyJobNoCreate(s) == s
ApplyJob(s) == IF s = "Absent" THEN "Running" ELSE s

-----------------------------------------------------------------------------
(* Reconcile, one action per way out of the function.  Each exit requires *)
(* the gates before it to have been passed.                               *)
(***************************************************************************)
AlreadySucceeded == Before.succeeded = "IvyUpgradeSucceeded"
ValidSpec == upgradeSpec.from < upgradeSpec.to

\* Lines 174-178: a succeeded upgrade is left alone.
ReconcileSucceeded ==
    /\ AlreadySucceeded
    /\ UNCHANGED vars

\* Lines 183-198: from >= to is invalid and not requeued.
ReconcileInvalid(f) ==
    /\ ~AlreadySucceeded /\ ~ValidSpec
    /\ PatchUpgradeStatus(f, [Before EXCEPT !.progressing = "IvyUpgradeInvalid"])
    /\ UNCHANGED <<upgradeSpec, cluster, pods, endpoints, jobs, cache, userActions>>

\* Lines 206-219: an error from observeWorld ends the pass.
ReconcileObserveError ==
    /\ ~AlreadySucceeded /\ ValidSpec
    /\ PatchUpgradeStatus("observe",
         [Before EXCEPT !.progressing = "PGClusterErrorWhenObservingWorld"])
    /\ UNCHANGED <<upgradeSpec, cluster, pods, endpoints, jobs, cache, userActions>>

\* The gates of lines 226-387, each true when the pass goes on past it.
Found(w) == w.cluster.exists
NotResolved(w) == ~(w.cluster.specVersion = upgradeSpec.to /\ ~UpgradeJobComplete(w))
NotCompleted(w) == w.cluster.statusVersion # upgradeSpec.to
IsShutdown(w) == w.shutdown /\ w.primary
VersionMatches(w) == ~(w.cluster.specVersion # upgradeSpec.from
                       /\ w.cluster.statusVersion # upgradeSpec.to)
Allowed(w) == w.cluster.annotation = Upgrade
NoJobFailed(w) == ~(UpgradeJobFailed(w) \/ RemoveDataJobsFailed(w))
JobsDone(w) == UpgradeJobComplete(w) /\ RemoveDataJobsComplete(w)

\* Passing the first k of the gates above (k = 0 passes only observeWorld).
Gates(w) == <<Found(w), NotResolved(w), NotCompleted(w), IsShutdown(w),
              VersionMatches(w), Allowed(w), NoJobFailed(w)>>
PassesGates(w, k) ==
    /\ ~AlreadySucceeded /\ ValidSpec
    /\ \A i \in 1..k : Gates(w)[i]

\* A pass that stops at gate k and writes Progressing False with reason.
ReconcileBlocked(f, k, reason) ==
    /\ PassesGates(World, k - 1)
    /\ ~Gates(World)[k]
    /\ PatchUpgradeStatus(f, [Before EXCEPT !.progressing = reason])
    /\ UNCHANGED <<upgradeSpec, cluster, pods, endpoints, jobs, cache, userActions>>

\* Lines 299-309: Succeeded is set once every Job is observed complete.
SucceededWithoutJobs(w) == "IvyUpgradeSucceeded"
SucceededWhenJobsDone(w) ==
    IF JobsDone(w) THEN "IvyUpgradeSucceeded" ELSE Before.succeeded

\* Lines 288-312: the status already reports the target version.
ReconcileCompleted(f) ==
    LET w == World IN
    /\ PassesGates(w, 2)
    /\ ~NotCompleted(w)
    /\ PatchUpgradeStatus(f,
         [progressing |-> "IvyUpgradeCompleted",
          succeeded |-> SucceededWhenJobsDone(w)])
    /\ UNCHANGED <<upgradeSpec, cluster, pods, endpoints, jobs, cache, userActions>>

\* Lines 377-387: a failed Job fails the upgrade.
ReconcileFailed(f) ==
    /\ PassesGates(World, 6)
    /\ ~NoJobFailed(World)
    /\ PatchUpgradeStatus(f, [progressing |-> Progressed,
                              succeeded |-> "IvyUpgradeFailed"])
    /\ UNCHANGED <<upgradeSpec, cluster, pods, endpoints, jobs, cache, userActions>>

\* Lines 393-429: all Jobs are done.  Delete the replica-create Job (a
\* Job already gone is NotFound and ignored), and only when that worked,
\* patch the cluster status to the target version with the repo status
\* cleared.
ReconcileFanOut(f) ==
    LET w == World
        deleteFails == w.jobs.replicaCreate /\ f = "deleteJob"
    IN
    /\ PassesGates(w, 7)
    /\ JobsDone(w)
    /\ jobs' = IF w.jobs.replicaCreate /\ ~deleteFails
                 THEN [jobs EXCEPT !.replicaCreate = FALSE] ELSE jobs
    /\ cluster' = IF ~deleteFails /\ f # "patchCluster"
                    THEN [cluster EXCEPT !.statusVersion = upgradeSpec.to,
                                         !.repos = "Cleared"]
                    ELSE cluster
    /\ PatchUpgradeStatus(f, [Before EXCEPT !.progressing = Progressed])
    /\ UNCHANGED <<upgradeSpec, pods, endpoints, cache, userActions>>

\* Lines 441-447: one remove-data Job per replica once the upgrade Job is
\* complete; the loop stops at the first failed apply.
\* Mutant: the loop ranges over an empty replica list.
ApplyRemoveDataJobsNone(applied) == jobs.removeData
ApplyRemoveDataJobs(applied) ==
    [r \in Replicas |-> IF r \in applied THEN ApplyJob(jobs.removeData[r])
                                         ELSE jobs.removeData[r]]

\* Lines 457-466: delete the DCS Endpoints with a UID and resourceVersion
\* precondition.  NotFound is ignored; a changed resourceVersion is a
\* Conflict and leaves them in place.
DeleteEndpoints(w, f) ==
    IF w.endpoints.present /\ f # "deleteEndpoints"
       /\ endpoints.present /\ endpoints.rv = w.endpoints.rv
    THEN [endpoints EXCEPT !.present = FALSE]
    ELSE endpoints

\* Lines 431-477: apply the upgrade Job until it completes, then the
\* remove-data Jobs, then delete the Patroni Endpoints whatever the applies
\* returned.
ReconcileDriveForward(f) ==
    LET w == World IN
    /\ PassesGates(w, 7)
    /\ ~JobsDone(w)
    /\ IF ~UpgradeJobComplete(w)
         THEN jobs' = IF f = "apply" THEN jobs
                      ELSE [jobs EXCEPT !.upgrade = ApplyJob(@)]
         ELSE \E applied \in SUBSET w.replicas :
                /\ (f = "apply") = (applied # w.replicas)
                /\ jobs' = [jobs EXCEPT !.removeData =
                               ApplyRemoveDataJobs(applied)]
    /\ endpoints' = DeleteEndpoints(w, f)
    /\ PatchUpgradeStatus(f, [Before EXCEPT !.progressing = Progressed])
    /\ UNCHANGED <<upgradeSpec, cluster, pods, cache, userActions>>

Reconcile(f) ==
    \/ ReconcileSucceeded
    \/ ReconcileInvalid(f)
    \/ f = "observe" /\ ReconcileObserveError
    \/ f # "observe" /\
       \/ ReconcileBlocked(f, 1, "PGClusterNotFound")
       \/ ReconcileBlocked(f, 2, "IvyUpgradeResolved")
       \/ ReconcileCompleted(f)
       \/ ReconcileBlocked(f, 4, "PGClusterNotShutdown")
       \/ ReconcileBlocked(f, 5, "IvyUpgradeInvalidForCluster")
       \/ ReconcileBlocked(f, 6, "PGClusterMissingRequiredAnnotation")
       \/ ReconcileFailed(f)
       \/ ReconcileFanOut(f)
       \/ ReconcileDriveForward(f)

-----------------------------------------------------------------------------
(* The environment.                                                       *)
(***************************************************************************)
\* An informer delivers the current object of one kind to the cache.
Sync(k) ==
    /\ cache[k] # Store[k]
    /\ cache' = [cache EXCEPT ![k] = Store[k]]
    /\ UNCHANGED <<upgradeSpec, conds, cluster, pods, endpoints, jobs, userActions>>

\* The user edits the IvoryCluster: creates it, shuts it down or starts it,
\* sets the allow-upgrade annotation, or changes its spec version.
UserEdit ==
    /\ userActions < MaxUserActions
    /\ userActions' = userActions + 1
    /\ \/ ~cluster.exists /\ cluster' = [cluster EXCEPT !.exists = TRUE]
       \/ cluster.exists /\ \E b \in BOOLEAN :
            b # cluster.shutdown /\ cluster' = [cluster EXCEPT !.shutdown = b]
       \/ cluster.exists /\ \E a \in Annotations \ {cluster.annotation} :
            cluster' = [cluster EXCEPT !.annotation = a]
       \/ cluster.exists /\ \E v \in Versions \ {cluster.specVersion} :
            cluster' = [cluster EXCEPT !.specVersion = v]
    /\ UNCHANGED <<upgradeSpec, conds, pods, endpoints, jobs, cache>>

\* A user deletes the upgrade Job after it finished.  Nothing in the
\* Job's spec or in the controller prevents it; the controller reads the
\* Job's existence as "not yet run" (line 432).
UserDeleteJob ==
    /\ JobDeletion /\ userActions < MaxUserActions
    /\ jobs.upgrade \in {"Complete", "Failed"}
    /\ userActions' = userActions + 1
    /\ jobs' = [jobs EXCEPT !.upgrade = "Absent"]
    /\ UNCHANGED <<upgradeSpec, conds, cluster, pods, endpoints, cache>>

\* The IvoryCluster controller and kubelet stop instances of a shut-down
\* cluster and start instances of a running one; the cluster status then
\* records a startup instance.
StopPod(i) ==
    /\ cluster.shutdown /\ i \in pods
    /\ pods' = pods \ {i}
    /\ UNCHANGED <<upgradeSpec, conds, cluster, endpoints, jobs, cache, userActions>>

StartPod(i) ==
    /\ cluster.exists /\ ~cluster.shutdown /\ i \notin pods
    /\ pods' = pods \cup {i}
    /\ cluster' = [cluster EXCEPT !.startup = TRUE]
    /\ UNCHANGED <<upgradeSpec, conds, endpoints, jobs, cache, userActions>>

\* A running Patroni creates or renews its DCS Endpoints (new resourceVersion).
PatroniWrite ==
    /\ pods # {} /\ endpoints.rv < MaxRV
    /\ endpoints' = [present |-> TRUE, rv |-> endpoints.rv + 1]
    /\ UNCHANGED <<upgradeSpec, conds, cluster, pods, jobs, cache, userActions>>

\* A running Job (each runs at most once) completes or fails.
FinishUpgradeJob ==
    /\ jobs.upgrade = "Running"
    /\ \E s \in {"Complete", "Failed"} : jobs' = [jobs EXCEPT !.upgrade = s]
    /\ UNCHANGED <<upgradeSpec, conds, cluster, pods, endpoints, cache, userActions>>

FinishRemoveDataJob(r) ==
    /\ jobs.removeData[r] = "Running"
    /\ \E s \in {"Complete", "Failed"} :
         jobs' = [jobs EXCEPT !.removeData[r] = s]
    /\ UNCHANGED <<upgradeSpec, conds, cluster, pods, endpoints, cache, userActions>>

-----------------------------------------------------------------------------
Init ==
    /\ upgradeSpec \in UpgradeSpecs
    /\ conds = [progressing |-> None, succeeded |-> None]
    /\ \E e \in BOOLEAN, v \in Versions, a \in Annotations, d \in BOOLEAN :
         cluster = [exists |-> e, specVersion |-> v, statusVersion |-> v,
                    annotation |-> a, shutdown |-> e /\ d, startup |-> e,
                    repos |-> "Set"]
    /\ pods = IF cluster.exists /\ ~cluster.shutdown THEN Instances ELSE {}
    /\ endpoints = [present |-> cluster.exists, rv |-> IF cluster.exists THEN 1 ELSE 0]
    /\ jobs = [upgrade |-> "Absent", removeData |-> [r \in Replicas |-> "Absent"],
               replicaCreate |-> cluster.exists]
    /\ cache = Store
    /\ userActions = 0

Next ==
    \/ \E f \in Faults : Reconcile(f)
    \/ \E k \in Kinds : Sync(k)
    \/ UserEdit
    \/ UserDeleteJob
    \/ \E i \in Instances : StopPod(i) \/ StartPod(i)
    \/ PatroniWrite
    \/ FinishUpgradeJob
    \/ \E r \in Replicas : FinishRemoveDataJob(r)

\* Reconcile runs again at least every SyncPeriod (runtime.go), informers
\* keep up, kubelet acts on Pods and Jobs run to an end.  User edits and
\* Patroni renewals need not happen.
Fairness ==
    /\ WF_vars(Reconcile("none"))
    /\ \A k \in Kinds : WF_vars(Sync(k))
    /\ \A i \in Instances : WF_vars(StopPod(i)) /\ WF_vars(StartPod(i))
    /\ WF_vars(FinishUpgradeJob)
    /\ \A r \in Replicas : WF_vars(FinishRemoveDataJob(r))

Spec == Init /\ [][Next]_vars
FairSpec == Spec /\ Fairness

-----------------------------------------------------------------------------
(* Properties.                                                            *)
(***************************************************************************)

\* Replica data is removed only after the primary was upgraded: a
\* remove-data Job exists only when the upgrade Job has completed
\* (lines 441-447, reading the Jobs through a lagging cache).
RemoveDataOnlyAfterUpgrade ==
    (\E r \in Replicas : jobs.removeData[r] # "Absent") => jobs.upgrade = "Complete"

\* The single "upgrade applied" signal: the cluster status version changes
\* only in a step taken when the upgrade Job and every remove-data Job have
\* completed, and that step leaves no replica-create Job behind (lines
\* 393-429, with the delete and the patch each able to fail).
VersionAppliedOnlyAfterJobs ==
    [][cluster'.statusVersion # cluster.statusVersion =>
         /\ jobs.upgrade = "Complete"
         /\ \A r \in Replicas : jobs.removeData[r] = "Complete"
         /\ ~jobs'.replicaCreate]_cluster

\* A Succeeded=True condition is only ever reported for a cluster whose
\* status is at the target version after every Job completed (lines
\* 288-312, whatever version the cluster was created at).
SucceededImpliesApplied ==
    conds.succeeded = "IvyUpgradeSucceeded" =>
        /\ cluster.statusVersion = upgradeSpec.to
        /\ jobs.upgrade = "Complete"
        /\ \A r \in Replicas : jobs.removeData[r] = "Complete"

\* The cluster is ready for this upgrade: it has run (its status records
\* a startup instance, the primary to upgrade), is shut down, annotated
\* for it, and at the from version.
Ready ==
    /\ ValidSpec
    /\ cluster.exists /\ cluster.startup /\ cluster.shutdown
    /\ cluster.annotation = Upgrade
    /\ cluster.specVersion = upgradeSpec.from

\* A ready cluster whose status is still at the from version ends with
\* the upgrade Succeeded or Failed, unless the user makes it unready:
\* Reconcile, requeued and resynced, drives the Jobs to the end (the whole
\* of Reconcile, with Jobs that run once).
UpgradeEventuallyDecided ==
    (Ready /\ cluster.statusVersion = upgradeSpec.from)
        ~> (conds.succeeded \in SucceededReasons \/ ~Ready)

\* The upgrade implements UpgradeAbstract: the primary's data is upgraded
\* once (the upgrade Job completes), on a cluster not at the target; each
\* replica's data is removed once, after that; the status version becomes
\* the target after both; none of it is undone.  This is the whole Job
\* pipeline of lines 393-447 against lagging caches and failed calls.
Abs == INSTANCE UpgradeAbstract
         WITH target <- upgradeSpec.to,
              version <- cluster.statusVersion,
              primaryUpgraded <- jobs.upgrade = "Complete",
              removed <- {r \in Replicas : jobs.removeData[r] = "Complete"}
UpgradeRefinesAbstract == Abs!Spec

\* The spec, section 4.4 step 9: the upgrade Job is never created again
\* once the cluster reports the target version.
UpgradeJobNotRecreatedAfterApplied ==
    [][cluster.statusVersion = upgradeSpec.to /\ jobs.upgrade = "Absent"
         => jobs'.upgrade = "Absent"]_jobs

\* A ready cluster whose status is still at the from version ends with
\* the version applied or the upgrade decided, unless the user makes it
\* unready, even when a user deletes a finished upgrade Job: Reconcile
\* re-applies a missing Job (line 432) and fans out once all are done.
UpgradeEventuallyApplied ==
    (Ready /\ cluster.statusVersion = upgradeSpec.from)
        ~> (cluster.statusVersion = upgradeSpec.to
            \/ conds.succeeded \in SucceededReasons \/ ~Ready)

\* The spec, section 4.4 steps 4 and 10: the two destructive steps happen
\* only while the cluster is genuinely shut down. The upgrade Job, which
\* rewrites the primary's data directory, is created only while no instance
\* runs (lines 320-330 gate the apply at line 432), and the DCS Endpoints
\* are deleted only then (lines 457-463).
DestructiveStepsOnlyWhileShutdown ==
    [][\/ jobs.upgrade = "Absent" /\ jobs'.upgrade # "Absent"
       \/ endpoints.present /\ ~endpoints'.present
       => pods = {}]_<<jobs, endpoints>>

\* The spec, section 8: once Succeeded=True is set it is never set back or
\* removed (lines 142-178, the deferred status patch).
SucceededNeverWithdrawn ==
    [][conds.succeeded = "IvyUpgradeSucceeded" =>
         conds'.succeeded = "IvyUpgradeSucceeded"]_conds

=============================================================================
