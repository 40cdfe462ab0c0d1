--------------------------- MODULE RegistryPrune ---------------------------
(***************************************************************************)
(* The images of one service in the registry.  Builds push tags; the       *)
(* hourly prune deletes the tags that no deployment needs any more, by     *)
(* their digest; the daily collector gives back the layers that no tag     *)
(* refers to.  Both work from what they read some requests ago, on other   *)
(* timers than the rollouts and, with several workers, beside each other.  *)
(* Deployments are numbered by created_at.                                 *)
(***************************************************************************)
EXTENDS Naturals, FiniteSets

CONSTANTS
    MaxDeployments,
    OnServers,      \* deployments built by a build server, or in the cluster if none is free
    Digests,
    DigestOf,       \* content of a tag: equal builds have equal digests
    Keep,           \* REGISTRY_PRUNE_KEEP
    DockerfileType, \* the deployments are of type dockerfile, which the collector counts
    Workers,
    MaxFaults       \* bound: requests that fail

Deployments == 1..MaxDeployments
\* A cluster build pushes the tag of its deployment, a server one of its attempt.
Tags == Deployments \X {0, 1, 2}
NoTag == <<0, 0>>

ASSUME RegistryConstants ==
    /\ MaxDeployments \in Nat
    /\ OnServers \subseteq Deployments
    /\ DigestOf \in [Tags -> Digests]
    /\ Keep \in Nat
    /\ DockerfileType \in BOOLEAN
    /\ MaxFaults \in Nat

VARIABLES
    status,     \* of the deployments; deleted with their service
    ref,        \* build_runs.imageRef: the tag of the latest published attempt
    building,   \* tags that are being built
    pushing,    \* tags whose layers are uploaded and whose manifest is not
    tags,       \* in the registry
    blobs,      \* digests whose layers are on the registry's disk
    sweep,      \* per worker: its place in the prune and what it read
    collector,  \* per worker: its place in the collection and what it read
    faults

vars == <<status, ref, building, pushing, tags, blobs, sweep, collector, faults>>
buildVars == <<building, pushing>>
jobVars == <<sweep, collector>>

Active == {"pending", "deploying", "canceling"}
Rows == {d \in Deployments : status[d] \notin {"absent", "deleted"}}
InFlight == {d \in Rows : status[d] \in Active}
Succeeded == {d \in Rows : status[d] = "succeeded"}
\* The tags the registry would need to serve a deployment of this row.
TagsOf(d) == {<<d, 0>>, ref[d]} \ {NoTag}

Sweep == [at : {"idle", "list", "protect", "delete"}, known : SUBSET Tags, keep : SUBSET Tags,
          listed : SUBSET Tags, todo : SUBSET Tags, safe : SUBSET Digests]
NoSweep == [at |-> "idle", known |-> {}, keep |-> {}, listed |-> {}, todo |-> {}, safe |-> {}]
Collector == [at : {"idle", "gated", "marked"}, seen : SUBSET Deployments, live : SUBSET Digests]
NoCollector == [at |-> "idle", seen |-> {}, live |-> {}]

TypeOK ==
    /\ status \in [Deployments -> Active \cup {"absent", "succeeded", "ended", "deleted"}]
    /\ ref \in [Deployments -> Tags \cup {NoTag}]
    /\ \A d \in Deployments : ref[d] \in {<<d, 0>>, <<d, 1>>, <<d, 2>>, NoTag}
    /\ building \subseteq Tags /\ pushing \subseteq Tags
    /\ tags \subseteq Tags
    /\ blobs \subseteq Digests
    /\ sweep \in [Workers -> Sweep]
    /\ collector \in [Workers -> Collector]
    /\ faults \in 0..MaxFaults

Init ==
    /\ status = [d \in Deployments |-> "absent"]
    /\ ref = [d \in Deployments |-> NoTag]
    /\ building = {} /\ pushing = {} /\ tags = {} /\ blobs = {}
    /\ sweep = [w \in Workers |-> NoSweep]
    /\ collector = [w \in Workers |-> NoCollector]
    /\ faults = 0

Fault == faults < MaxFaults /\ faults' = faults + 1

-----------------------------------------------------------------------------
(* Deployments and their builds *)

\* A newer deployment supersedes the one that is still queued.
Enqueue(d) ==
    /\ status[d] = "absent"
    /\ \A e \in 1..(d - 1) : status[e] # "absent"
    /\ status' = [e \in Deployments |-> IF e = d THEN "pending"
                                        ELSE IF status[e] = "pending" THEN "ended" ELSE status[e]]
    /\ UNCHANGED <<ref, buildVars, tags, blobs, jobVars, faults>>

Claim(d) ==
    /\ status[d] = "pending"
    /\ \A e \in Deployments : status[e] \notin {"deploying", "canceling"}
    /\ status' = [status EXCEPT ![d] = "deploying"]
    /\ UNCHANGED <<ref, buildVars, tags, blobs, jobVars, faults>>

FirstTags(d) == IF d \in OnServers THEN {d} \X {0, 1, 2} ELSE {<<d, 0>>}

\* Mutant: an attempt is repeated without a limit.
NextNumbers(d) ==
    IF ref[d] = NoTag THEN FirstTags(d)
    ELSE IF ref[d][2] > 0 THEN {<<d, 1 + ref[d][2]>>} ELSE {}

\* A first attempt that finds no server falls back to the cluster and stays there; one may be
\* lost before its tag is published.
NextTags(d) ==
    IF ref[d] = NoTag THEN FirstTags(d) ELSE IF ref[d] = <<d, 1>> THEN {<<d, 2>>} ELSE {}

\* markClusterBuildStarted, publishAgentBuild.  A lost attempt is published once more under
\* another tag, and may push its own all the same.
StartBuild(d) ==
    /\ status[d] = "deploying"
    /\ \E t \in NextTags(d) :
          /\ ref' = [ref EXCEPT ![d] = t]
          /\ building' = building \cup {t}
    /\ UNCHANGED <<status, pushing, tags, blobs, jobVars, faults>>

Upload(t) ==
    /\ t \in building
    /\ building' = building \ {t}
    /\ pushing' = pushing \cup {t}
    /\ blobs' = blobs \cup {DigestOf[t]}
    /\ UNCHANGED <<status, ref, tags, jobVars, faults>>

\* The registry takes no manifest whose layers it has not.
Push(t) ==
    /\ t \in pushing
    /\ pushing' = pushing \ {t}
    /\ tags' = IF DigestOf[t] \in blobs THEN tags \cup {t} ELSE tags
    /\ UNCHANGED <<status, ref, building, blobs, jobVars, faults>>

\* A failed build, or one that was stopped with its deployment.
BuildDies(t) ==
    /\ t \in building \cup pushing
    /\ Fault
    /\ building' = building \ {t} /\ pushing' = pushing \ {t}
    /\ UNCHANGED <<status, ref, tags, blobs, jobVars>>

\* The pods have pulled the image.
Pullable(t) == t \in tags /\ DigestOf[t] \in blobs

Succeed(d) ==
    /\ status[d] = "deploying"
    /\ Pullable(ref[d])
    /\ status' = [status EXCEPT ![d] = "succeeded"]
    /\ UNCHANGED <<ref, buildVars, tags, blobs, jobVars, faults>>

\* Failed, or canceled: with the rollback the row is over.
End(d) ==
    /\ status[d] \in {"deploying", "canceling"}
    /\ status' = [status EXCEPT ![d] = "ended"]
    /\ UNCHANGED <<ref, buildVars, tags, blobs, jobVars, faults>>

Cancel(d) ==
    /\ status[d] \in {"pending", "deploying"}
    /\ status' = [status EXCEPT ![d] = IF status[d] = "pending" THEN "ended" ELSE "canceling"]
    /\ UNCHANGED <<ref, buildVars, tags, blobs, jobVars, faults>>

\* The rows of a deleted service go with it.
DeleteService ==
    /\ Rows # {}
    /\ status' = [d \in Deployments |-> "deleted"]
    /\ UNCHANGED <<ref, buildVars, tags, blobs, jobVars, faults>>

-----------------------------------------------------------------------------
(* pruneRegistryImages *)

\* The newest successes, as many as the setting says.
Newest(S) == {d \in S : Cardinality({e \in S : e > d}) < Keep}

\* computeKeepTags
Kept == InFlight \cup Newest(Succeeded)

\* A service without rows is not visited.
ReadRows(w) ==
    /\ sweep[w].at = "idle"
    /\ Rows # {}
    /\ sweep' = [sweep EXCEPT ![w] =
           [NoSweep EXCEPT !.at = "list",
                           !.known = UNION {TagsOf(d) : d \in Rows},
                           !.keep = UNION {TagsOf(d) : d \in Kept}]]
    /\ UNCHANGED <<status, ref, buildVars, tags, blobs, collector, faults>>

\* A list that fails is an empty one.
StopSweep(w) == sweep' = [sweep EXCEPT ![w] = NoSweep]

List(w) ==
    /\ sweep[w].at = "list"
    /\ IF tags \subseteq sweep[w].keep
       THEN StopSweep(w)
       ELSE sweep' = [sweep EXCEPT ![w] = [@ EXCEPT !.at = "protect", !.listed = tags,
                                                    !.todo = tags \ sweep[w].keep]]
    /\ UNCHANGED <<status, ref, buildVars, tags, blobs, collector, faults>>

\* Mutant: only tags are compared.
ProtectNothing(w) == {}

\* The digests of the kept tags that are listed.
ProtectedDigests(w) == {DigestOf[t] : t \in sweep[w].listed \cap sweep[w].keep}

\* A kept tag that cannot be resolved ends the prune of this service.
Protect(w) ==
    /\ sweep[w].at = "protect"
    /\ IF sweep[w].listed \cap sweep[w].keep \subseteq tags
       THEN sweep' = [sweep EXCEPT ![w] = [@ EXCEPT !.at = "delete",
                                                    !.safe = ProtectedDigests(w)]]
       ELSE StopSweep(w)
    /\ UNCHANGED <<status, ref, buildVars, tags, blobs, collector, faults>>

Done(w, t) ==
    IF sweep[w].todo \ {t} = {} THEN StopSweep(w)
    ELSE sweep' = [sweep EXCEPT ![w] = [@ EXCEPT !.todo = sweep[w].todo \ {t}]]

\* A manifest is deleted by its digest, with every tag that names it now.
DeleteTag(w, t) ==
    /\ sweep[w].at = "delete"
    /\ t \in sweep[w].todo
    /\ tags' = IF t \in tags /\ DigestOf[t] \notin sweep[w].safe
               THEN {u \in tags : DigestOf[u] # DigestOf[t]} ELSE tags
    /\ Done(w, t)
    /\ UNCHANGED <<status, ref, buildVars, blobs, collector, faults>>

\* A request of the prune fails, or its worker dies: a tag is skipped, anything else ends it.
SweepFails(w) ==
    /\ Fault
    /\ \/ sweep[w].at # "idle" /\ StopSweep(w)
       \/ sweep[w].at = "delete" /\ \E t \in sweep[w].todo : Done(w, t)
    /\ UNCHANGED <<status, ref, buildVars, tags, blobs, collector>>

-----------------------------------------------------------------------------
(* garbageCollectRegistry *)

\* Mutant: a queued deployment is not counted.
NoRollouts == DockerfileType => \A d \in InFlight : status[d] = "pending"

\* Mutant: a deployment that failed counts as one in flight.
AllSucceeded == DockerfileType => Rows = Succeeded

\* buildsInFlight counts the deployments of one type.
NoBuilds == DockerfileType => InFlight = {}

\* What it takes for over: deployments of the type it counts, and any that are.
TakenForOver == {d \in Rows : DockerfileType \/ status[d] \notin Active}

Gate(w) ==
    /\ collector[w].at = "idle"
    /\ NoBuilds
    /\ collector' = [collector EXCEPT ![w] = [NoCollector EXCEPT !.at = "gated",
                                                               !.seen = TakenForOver]]
    /\ UNCHANGED <<status, ref, buildVars, tags, blobs, sweep, faults>>

\* registry garbage-collect -m: mark what the tags refer to, then sweep the rest.
Mark(w) ==
    /\ collector[w].at = "gated"
    /\ collector' = [collector EXCEPT ![w] = [@ EXCEPT !.at = "marked",
                                                       !.live = {DigestOf[t] : t \in tags}]]
    /\ UNCHANGED <<status, ref, buildVars, tags, blobs, sweep, faults>>

SweepBlobs(w) ==
    /\ collector[w].at = "marked"
    /\ blobs' = blobs \cap collector[w].live
    /\ collector' = [collector EXCEPT ![w] = NoCollector]
    /\ UNCHANGED <<status, ref, buildVars, tags, sweep, faults>>

\* The command fails or loses its pod before the sweep.
CollectFails(w) ==
    /\ Fault
    /\ collector[w].at # "idle"
    /\ collector' = [collector EXCEPT ![w] = NoCollector]
    /\ UNCHANGED <<status, ref, buildVars, tags, blobs, sweep>>

-----------------------------------------------------------------------------
UserStep == DeleteService \/ \E d \in Deployments : Enqueue(d) \/ Cancel(d)
RolloutStep(d) == Claim(d) \/ StartBuild(d) \/ Succeed(d) \/ End(d)
BuildStep(t) == Upload(t) \/ Push(t)
PruneStep(w) == ReadRows(w) \/ List(w) \/ Protect(w) \/ \E t \in Tags : DeleteTag(w, t)
CollectStep(w) == Gate(w) \/ Mark(w) \/ SweepBlobs(w)

Next ==
    \/ UserStep
    \/ \E d \in Deployments : RolloutStep(d)
    \/ \E t \in Tags : BuildStep(t) \/ BuildDies(t)
    \/ \E w \in Workers : PruneStep(w) \/ SweepFails(w) \/ CollectStep(w) \/ CollectFails(w)

Spec == Init /\ [][Next]_vars

(* A deployment is claimed and ends, an attempt that runs ends (its timeout *)
(* sees to it), and both jobs run on timers of their own.                   *)
Fairness ==
    /\ \A d \in Deployments : WF_vars(Claim(d)) /\ WF_vars(Succeed(d) \/ End(d))
    /\ \A t \in Tags : WF_vars(BuildStep(t))
    /\ \A w \in Workers : WF_vars(PruneStep(w)) /\ WF_vars(CollectStep(w))

FairSpec == Spec /\ Fairness

-----------------------------------------------------------------------------
(* Properties *)

\* What serves the service: its newest success, which is also the target of a rollback.
Serving(d) == status[d] = "succeeded" /\ \A e \in Succeeded : e <= d
NeededTag(t) == \E d \in Deployments : ref[d] = t /\ (d \in InFlight \/ Serving(d))

(* The prune deletes no image that a deployment in flight, the running      *)
(* release or a rollback needs (prune.ts:9), although it goes by old rows   *)
(* and an old list and deletes by digest, which takes every tag of the same *)
(* content - unless the image was published after the rows were read, or    *)
(* pushed after the tags were listed.  It needs Keep >= 1.                  *)
NeededImageSpared ==
    [][\A t \in tags \ tags' : NeededTag(t) =>
          \E w \in Workers : sweep[w].at = "delete"
                             /\ t \notin sweep[w].known \cap sweep[w].listed]_vars

(* The collector takes no layer of an image that serves, or is to serve,    *)
(* a deployment that was over when it looked for builds in flight; those    *)
(* of the type it counts were, or it would not have started.                *)
NeededLayersSpared ==
    [][\A t \in tags : NeededTag(t) /\ DigestOf[t] \in blobs \ blobs' =>
          \E w \in Workers : collector[w].at = "marked" /\ t[1] \notin collector[w].seen]_vars

(* What gc.ts:10 says of the collector: it does not start while a           *)
(* deployment that may push is in flight.  It does, where the deployments   *)
(* are of another type than the one it counts (RegistryPrune_gate.cfg).     *)
GatedOnBuilds ==
    [][\A w \in Workers :
          collector[w].at = "idle" /\ collector'[w].at = "gated" => InFlight = {}]_vars

(* Layers that no kept image of the service needs leave the disk, however   *)
(* often a request failed and whatever shares their digest meanwhile.  A    *)
(* deleted service keeps what its tags name, as nobody deletes them.        *)
Wanted(g) == \/ Rows = {} /\ \E t \in tags : DigestOf[t] = g
             \/ \E d \in Kept : \E t \in TagsOf(d) : DigestOf[t] = g
             \/ \E t \in building \cup pushing : DigestOf[t] = g
DiskReclaimed == \A g \in Digests : (g \in blobs /\ ~Wanted(g)) ~> (g \notin blobs \/ Wanted(g))

(* What prune.ts:112 says of a deleted service: the collector takes what it *)
(* left behind.  It keeps what a tag names (RegistryPrune_orphans.cfg).      *)
OrphansReclaimed == (Rows = {} /\ building \cup pushing = {}) ~> blobs = {}

=============================================================================
