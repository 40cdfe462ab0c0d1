--------------------------- MODULE TenantGcProofs ---------------------------
(* Proofs about TenantGc, for any services, environments and histories. *)
EXTENDS TenantGc, TLAPS


LEMMA HandEdits ==
    ASSUME NEW h \in Hand, NEW a \in At, NEW r \in SUBSET Services, NEW v \in SUBSET Envs,
           NEW k \in SUBSET Services, NEW n \in SUBSET Envs
    PROVE  /\ [at |-> a, rows |-> r, envs |-> v, held |-> k, here |-> n] \in Hand
           /\ Idle \in Hand
           /\ [h EXCEPT !.at = a] \in Hand
           /\ [h EXCEPT !.rows = r] \in Hand
           /\ [h EXCEPT !.at = a, !.held = k] \in Hand
           /\ [h EXCEPT !.at = a, !.rows = r] \in Hand
           /\ [h EXCEPT !.at = a, !.envs = v] \in Hand
           /\ [h EXCEPT !.at = a, !.rows = r, !.held = k] \in Hand
           /\ [h EXCEPT !.at = a, !.held = k, !.here = n] \in Hand
  BY DEF Hand, Idle, At

\* What a step of a worker makes of its hand.
LEMMA TickHand ==
    ASSUME TypeOK, NEW w \in Workers, Tick(w) \/ ApplyFails(w) \/ TickFails(w)
    PROVE  \E h \in Hand : hand' = [hand EXCEPT ![w] = h]
<1>1. hand[w] \in Hand /\ Idle \in Hand
  <2>1. Idle \in Hand
    BY DEF Idle, Hand, At
  <2> QED
    BY <2>1 DEF TypeOK
<1>2. hand[w].rows \in SUBSET Services /\ hand[w].envs \in SUBSET Envs
      /\ hand[w].held \in SUBSET Services
  BY <1>1 DEF Hand
<1>3. CASE ReadRows(w)
  <2>1. deploying \in SUBSET Services /\ "rollout" \in At
    BY DEF TypeOK, At
  <2>2. [Idle EXCEPT !.at = "rollout", !.rows = deploying] \in Hand
    BY <2>1, <1>1, HandEdits
  <2> QED
    BY <1>3, <2>2 DEF ReadRows, SetHand
<1>4. CASE Apply(w) \/ ApplyRefused(w) \/ ApplyFails(w)
  <2>1. Applied(w)
    BY <1>4 DEF Apply, ApplyRefused, ApplyFails
  <2> QED
    BY <2>1, <1>1, <1>2, HandEdits DEF Applied, SetHand, At
<1>5. CASE ListNamespaces(w)
  BY <1>5, <1>1, HandEdits DEF ListNamespaces, SetHand, At
<1>6. CASE Reap(w)
  BY <1>6, <1>1, HandEdits DEF Reap, SetHand, At
<1>7. CASE ListVolumes(w)
  BY <1>7, <1>1, HandEdits DEF ListVolumes, SetHand, TypeOK, At
<1>8. CASE CheckServices(w)
  BY <1>8, <1>1, <1>2, HandEdits DEF CheckServices, SetHand, At
<1>9. CASE Reclaim(w)
  BY <1>9, <1>1, <1>2, HandEdits DEF Reclaim, SetHand, At
<1>10. CASE EndTick(w) \/ TickFails(w)
  BY <1>10, <1>1 DEF EndTick, TickFails, SetHand
<1>11. ASSUME NEW s \in Services, EnsureNamespace(w, s) \/ CheckNamespace(w, s)
       PROVE \E h \in Hand : hand' = [hand EXCEPT ![w] = h]
  <2>1. {s} \in SUBSET Services /\ (hand[w].rows \ {s}) \in SUBSET Services
        /\ "apply" \in At /\ "services" \in At
    BY <1>2 DEF At
  <2>2. CASE EnsureNamespace(w, s)
    BY <2>1, <2>2, <1>1, HandEdits DEF EnsureNamespace, SetHand
  <2>3. CASE CheckNamespace(w, s)
    <3>1. [hand[w] EXCEPT !.at = "services", !.held = {s}] \in Hand
          /\ [hand[w] EXCEPT !.rows = @ \ {s}] \in Hand
      BY <2>1, <1>1, HandEdits
    <3> QED
      BY <2>3, <3>1 DEF CheckNamespace, SetHand
  <2> QED
    BY <1>11, <2>2, <2>3
<1>12. ASSUME NEW e \in Envs, ReadServices(w, e)
       PROVE \E h \in Hand : hand' = [hand EXCEPT ![w] = h]
  <2>1. LiveServices(e) \in SUBSET Services /\ (hand[w].envs \ {e}) \in SUBSET Envs /\ {e} \in SUBSET Envs
    BY <1>2 DEF LiveServices, LiveIn, Of
  <2> QED
    <3>1. [hand[w] EXCEPT !.at = "reap", !.envs = hand[w].envs \ {e}, !.here = {e},
                          !.held = LiveServices(e)] \in Hand
      BY <1>1, <2>1 DEF At, Hand
    <3>2. hand' = [hand EXCEPT ![w] =
             [hand[w] EXCEPT !.at = "reap", !.envs = hand[w].envs \ {e}, !.here = {e},
                             !.held = LiveServices(e)]]
      BY <1>12 DEF ReadServices, SetHand
    <3> QED
      BY <3>1, <3>2
<1> QED
  BY <1>3, <1>4, <1>5, <1>6, <1>7, <1>8, <1>9, <1>10, <1>11, <1>12 DEF Tick

\* The cluster part of a step: what is in a namespace goes with it.
LEMMA TickWorld ==
    ASSUME TypeOK, NEW w \in Workers, Tick(w) \/ ApplyFails(w) \/ TickFails(w)
    PROVE  /\ namespace' \in [Envs -> {"absent", "active", "terminating"}]
           /\ service' = service /\ deploying' \subseteq deploying
           /\ workload' \subseteq Services /\ claim' \subseteq Services
           /\ released' \subseteq Services
           /\ \A s \in workload' : s \in claim' /\ namespace'[EnvOf[s]] # "absent"
           /\ \A s \in claim' : namespace'[EnvOf[s]] # "absent"
           /\ faults' \in 0..MaxFaults
<1> DEFINE Goal == /\ namespace' \in [Envs -> {"absent", "active", "terminating"}]
                   /\ service' = service /\ deploying' \subseteq deploying
                   /\ workload' \subseteq Services /\ claim' \subseteq Services
                   /\ released' \subseteq Services
                   /\ \A s \in workload' : s \in claim' /\ namespace'[EnvOf[s]] # "absent"
                   /\ \A s \in claim' : namespace'[EnvOf[s]] # "absent"
                   /\ faults' \in 0..MaxFaults
<1>1. hand[w].held \in SUBSET Services
  BY DEF TypeOK, Hand
<1>2. EnvOf \in [Services -> Envs]
  BY TenantGcConstants
<1>3. ASSUME UNCHANGED <<userVars, clusterVars>>, faults' \in 0..MaxFaults PROVE Goal
  BY <1>3 DEF userVars, clusterVars, TypeOK
<1>4. CASE \/ ReadRows(w) \/ ApplyRefused(w) \/ ListNamespaces(w) \/ ListVolumes(w)
           \/ CheckServices(w) \/ EndTick(w)
           \/ (\E s \in Services : CheckNamespace(w, s)) \/ (\E e \in Envs : ReadServices(w, e))
  <2>1. UNCHANGED <<userVars, clusterVars, faults>>
    BY <1>4 DEF ReadRows, ApplyRefused, ListNamespaces, ListVolumes, CheckServices, EndTick,
                CheckNamespace, ReadServices
  <2> QED
    BY <2>1, <1>3 DEF TypeOK
<1>5. CASE TickFails(w)
  <2>1. UNCHANGED <<userVars, clusterVars>> /\ faults < MaxFaults /\ faults' = faults + 1
    BY <1>5 DEF TickFails
  <2> QED
    BY <2>1, <1>3, TenantGcConstants DEF TypeOK
<1>6. CASE Apply(w)
  BY <1>6, <1>1, <1>2 DEF Apply, TypeOK
<1>7. CASE ApplyFails(w)
  BY <1>7, <1>1, <1>2, TenantGcConstants DEF ApplyFails, userVars, TypeOK
<1>8. CASE Reap(w)
  BY <1>8, <1>2 DEF Reap, userVars, TypeOK
<1>9. CASE Reclaim(w)
  BY <1>9 DEF Reclaim, userVars, TypeOK
<1>10. CASE \E s \in Services : EnsureNamespace(w, s)
  BY <1>10, <1>2 DEF EnsureNamespace, userVars, TypeOK
<1> QED
  BY <1>4, <1>5, <1>6, <1>7, <1>8, <1>9, <1>10 DEF Tick

\* Every variable keeps its type: deployments go with their services, and a workload or a
\* claim is in a namespace that is there.
THEOREM TypeCorrect == Spec => []TypeOK
<1>1. Init => TypeOK
  <2>1. Idle \in Hand
    BY DEF Idle, Hand, At
  <2> QED
    BY <2>1, TenantGcConstants DEF Init, TypeOK
<1>2. TypeOK /\ [Next]_vars => TypeOK'
  <2> SUFFICES ASSUME TypeOK, [Next]_vars PROVE TypeOK'
    OBVIOUS
  <2>1. CASE Users
    <3>1. UNCHANGED <<namespace, workload, claim, released, hand, faults>>
      BY <2>1 DEF Users, CreateService, Deploy, DeleteService, DeleteEnvironment, clusterVars
    <3>2. service' \in [Services -> {"new", "row", "deleted"}] /\ deploying' \subseteq Services
          /\ \A s \in deploying' : service'[s] = "row"
      BY <2>1 DEF Users, CreateService, Deploy, DeleteService, DeleteEnvironment, TypeOK, Of
    <3> QED
      BY <3>1, <3>2 DEF TypeOK
  <2>2. ASSUME NEW e \in Envs, NamespaceGone(e) PROVE TypeOK'
    BY <2>2, TenantGcConstants DEF NamespaceGone, userVars, TypeOK, Of
  <2>3. ASSUME NEW e \in Envs, OperatorDeletes(e) PROVE TypeOK'
    BY <2>3, TenantGcConstants DEF OperatorDeletes, userVars, TypeOK
  <2>4. ASSUME NEW w \in Workers, Tick(w) \/ ApplyFails(w) \/ TickFails(w) PROVE TypeOK'
    <3>1. PICK h \in Hand : hand' = [hand EXCEPT ![w] = h]
      BY <2>4, TickHand
    <3> QED
      BY <2>4, <3>1, TickWorld DEF TypeOK
  <2>5. CASE UNCHANGED vars
    BY <2>5 DEF TypeOK, vars
  <2> QED
    BY <2>1, <2>2, <2>3, <2>4, <2>5 DEF Next, Cluster
<1> QED
  BY <1>1, <1>2, PTL DEF Spec

-----------------------------------------------------------------------------
(* Volumes, with any number of workers *)

\* What has left a trace in the cluster or in a hand was created; a volume that is about
\* to be given back is of a deleted service.
Created ==
    /\ \A s \in claim \cup released : service[s] # "new"
    /\ \A w \in Workers : \A s \in hand[w].rows \cup hand[w].held : service[s] # "new"
    /\ \A w \in Workers : hand[w].at = "reclaim" => \A s \in hand[w].held : service[s] = "deleted"

LEMMA UsersLeave == Users => UNCHANGED <<claim, released, hand, workload, namespace, faults>>
  BY DEF Users, CreateService, Deploy, DeleteService, DeleteEnvironment, clusterVars

\* Users move a service only forward.
LEMMA UsersForward ==
    ASSUME TypeOK, Users, NEW s \in Services
    PROVE  /\ service[s] # "new" => service'[s] # "new"
           /\ service[s] = "deleted" => service'[s] = "deleted"
  BY DEF Users, CreateService, Deploy, DeleteService, DeleteEnvironment, TypeOK

LEMMA CreatedTick ==
    ASSUME TypeOK, Created, NEW w \in Workers, Tick(w) \/ ApplyFails(w) \/ TickFails(w)
    PROVE  /\ \A s \in claim' \cup released' : service[s] # "new"
           /\ \A s \in hand'[w].rows \cup hand'[w].held : service[s] # "new"
           /\ hand'[w].at = "reclaim" => \A s \in hand'[w].held : service[s] = "deleted"
<1> DEFINE Goal == /\ \A s \in claim' \cup released' : service[s] # "new"
                   /\ \A s \in hand'[w].rows \cup hand'[w].held : service[s] # "new"
                   /\ hand'[w].at = "reclaim" => \A s \in hand'[w].held : service[s] = "deleted"
<1>1. hand[w] \in Hand /\ w \in DOMAIN hand
  BY DEF TypeOK
<1>2. \A s \in hand[w].rows \cup hand[w].held : service[s] # "new"
  BY DEF Created
<1>3. CASE ReadRows(w)
  BY <1>3, <1>1 DEF ReadRows, SetHand, Idle, clusterVars, Created, TypeOK
<1>4. CASE Apply(w) \/ ApplyRefused(w) \/ ApplyFails(w)
  <2>1. Applied(w) /\ claim' \subseteq claim \cup hand[w].held /\ released' = released
    BY <1>4 DEF Apply, ApplyRefused, ApplyFails, clusterVars
  <2> QED
    BY <2>1, <1>1, <1>2 DEF Applied, SetHand, Hand, Created
<1>5. CASE ListNamespaces(w)
  BY <1>5, <1>1 DEF ListNamespaces, SetHand, Idle, clusterVars, Created
<1>6. CASE Reap(w)
  BY <1>6, <1>1, <1>2 DEF Reap, SetHand, Hand, Created
<1>7. CASE ListVolumes(w)
  BY <1>7, <1>1 DEF ListVolumes, SetHand, Idle, clusterVars, Created
<1>8. CASE CheckServices(w)
  <2>1. UNCHANGED <<claim, released>>
    BY <1>8 DEF CheckServices, clusterVars
  <2>2. CASE \A s \in hand[w].held : Reclaimable(s)
    <3>1. \A s \in hand[w].held : service[s] = "deleted"
      BY <2>2, <1>1, <1>2 DEF Reclaimable, LiveIn, Of, TypeOK, Hand
    <3> QED
      BY <1>8, <2>1, <2>2, <3>1, <1>1, <1>2 DEF CheckServices, SetHand, Hand, Created
  <2>3. CASE ~\A s \in hand[w].held : Reclaimable(s)
    BY <1>8, <2>1, <2>3, <1>1, <1>2 DEF CheckServices, SetHand, Hand, Created
  <2> QED
    BY <2>2, <2>3
<1>9. CASE Reclaim(w)
  BY <1>9, <1>1, <1>2 DEF Reclaim, SetHand, Hand, Created
<1>10. CASE EndTick(w) \/ TickFails(w)
  BY <1>10, <1>1 DEF EndTick, TickFails, SetHand, Idle, clusterVars, Created
<1>11. ASSUME NEW s \in Services, EnsureNamespace(w, s) PROVE Goal
  BY <1>11, <1>1, <1>2 DEF EnsureNamespace, SetHand, Hand, Created
<1>12. ASSUME NEW s \in Services, CheckNamespace(w, s) PROVE Goal
  BY <1>12, <1>1, <1>2 DEF CheckNamespace, SetHand, Hand, clusterVars, Created
<1>13. ASSUME NEW e \in Envs, ReadServices(w, e) PROVE Goal
  BY <1>13, <1>1, <1>2 DEF ReadServices, LiveServices, LiveIn, SetHand, Hand, clusterVars, Created
<1> QED
  BY <1>3, <1>4, <1>5, <1>6, <1>7, <1>8, <1>9, <1>10, <1>11, <1>12, <1>13 DEF Tick

LEMMA CreatedStep == TypeOK /\ Created /\ [Next]_vars => Created'
<1> SUFFICES ASSUME TypeOK, Created, [Next]_vars PROVE Created'
  OBVIOUS
<1>1. claim \subseteq Services /\ released \subseteq Services
      /\ \A w \in Workers : hand[w].rows \subseteq Services /\ hand[w].held \subseteq Services
  BY DEF TypeOK, Hand
<1>2. CASE Users
  <2>1. UNCHANGED <<claim, released, hand>>
    BY <1>2, UsersLeave
  <2> QED
    BY <1>1, <1>2, <2>1, UsersForward DEF Created
<1>3. CASE Cluster
  <2>1. UNCHANGED <<service, hand>> /\ claim' \subseteq claim /\ released' \subseteq released \cup claim
    BY <1>3 DEF Cluster, NamespaceGone, OperatorDeletes, userVars
  <2> QED
    BY <2>1 DEF Created
<1>4. ASSUME NEW w \in Workers, Tick(w) \/ ApplyFails(w) \/ TickFails(w) PROVE Created'
  <2>1. PICK h \in Hand : hand' = [hand EXCEPT ![w] = h]
    BY <1>4, TickHand
  <2>2. \A v \in Workers : v # w => hand'[v] = hand[v]
    BY <2>1 DEF TypeOK
  <2>3. service' = service
    BY <1>4, TickWorld
  <2>4. /\ \A s \in claim' \cup released' : service[s] # "new"
        /\ \A s \in hand'[w].rows \cup hand'[w].held : service[s] # "new"
        /\ hand'[w].at = "reclaim" => \A s \in hand'[w].held : service[s] = "deleted"
    BY <1>4, CreatedTick
  <2> QED
    BY <2>2, <2>3, <2>4 DEF Created
<1>5. CASE UNCHANGED vars
  BY <1>5 DEF Created, vars
<1> QED
  BY <1>2, <1>3, <1>4, <1>5 DEF Next

\* Only Reclaim takes a volume.
LEMMA VolumeStep ==
    ASSUME TypeOK, Created, [Next]_vars, NEW s \in released, service[s] = "row"
    PROVE  s \in released'
<1>1. CASE Users \/ Cluster \/ UNCHANGED vars
  <2>1. CASE Users
    BY <2>1, UsersLeave
  <2>2. CASE Cluster
    BY <2>2 DEF Cluster, NamespaceGone, OperatorDeletes
  <2> QED
    BY <1>1, <2>1, <2>2 DEF vars
<1>2. ASSUME NEW w \in Workers, Reclaim(w) PROVE s \in released'
  BY <1>2 DEF Reclaim, Created
<1>3. ASSUME NEW w \in Workers, Tick(w) \/ ApplyFails(w) \/ TickFails(w), ~Reclaim(w)
      PROVE  s \in released'
  BY <1>3 DEF Tick, ReadRows, Apply, ApplyRefused, ApplyFails, ListNamespaces, Reap, ListVolumes,
     CheckServices, EndTick, TickFails, EnsureNamespace, CheckNamespace, ReadServices, clusterVars
<1> QED
  BY <1>1, <1>2, <1>3 DEF Next

\* No worker gives back a volume of a service that exists, however many of them race.
THEOREM VolumesSpared == Spec => LiveVolumeSpared
<1>1. Init => Created
  BY DEF Init, Created, Idle
<1>2. TypeOK /\ Created /\ [Next]_vars
      => [\A s \in released : service[s] = "row" => s \in released']_vars
  BY VolumeStep
<1> QED
  BY <1>1, <1>2, CreatedStep, TypeCorrect, PTL DEF Spec, LiveVolumeSpared

-----------------------------------------------------------------------------
(* Workloads *)

\* The services that were read of the environment in work are those that exist and run.
ReadIsFresh ==
    \A w \in Workers : hand[w].at = "reap" =>
        \A s \in workload : EnvOf[s] \in hand[w].here /\ service[s] = "row" => s \in hand[w].held

\* Between a worker's read of an environment and its delete, no other worker rolls out a
\* service of it that was created after the read.
RolloutsKnown ==
    \A v, w \in Workers : hand[v].at = "reap" /\ hand[w].at = "apply" =>
        \A s \in hand[w].held :
            EnvOf[s] \in hand[v].here /\ service[s] = "row" => s \in hand[v].held

\* A step of a worker that neither reads nor deletes leaves it outside of the delete.
LEMMA LeavesReap ==
    ASSUME TypeOK, NEW w \in Workers, Tick(w) \/ ApplyFails(w) \/ TickFails(w),
           \A e \in Envs : ~ReadServices(w, e)
    PROVE  hand'[w].at # "reap"
<1>1. hand[w] \in Hand /\ w \in DOMAIN hand
  BY DEF TypeOK
<1>2. CASE CheckServices(w)
  BY <1>2, <1>1 DEF CheckServices, SetHand, Hand
<1>3. CASE \E s \in Services : CheckNamespace(w, s)
  BY <1>3, <1>1 DEF CheckNamespace, SetHand, Hand
<1>4. CASE Apply(w) \/ ApplyRefused(w) \/ ApplyFails(w)
  <2>1. Applied(w)
    BY <1>4 DEF Apply, ApplyRefused, ApplyFails
  <2> QED
    BY <2>1, <1>1 DEF Applied, SetHand, Hand
<1>5. CASE \E s \in Services : EnsureNamespace(w, s)
  BY <1>5, <1>1 DEF EnsureNamespace, SetHand, Hand
<1>6. CASE Reap(w) \/ Reclaim(w)
  BY <1>6, <1>1 DEF Reap, Reclaim, SetHand, Hand
<1>7. CASE ReadRows(w)
  BY <1>7, <1>1 DEF ReadRows, SetHand, Idle
<1>8. CASE ListNamespaces(w) \/ ListVolumes(w)
  BY <1>8, <1>1 DEF ListNamespaces, ListVolumes, SetHand, Idle
<1>9. CASE EndTick(w) \/ TickFails(w)
  BY <1>9, <1>1 DEF EndTick, TickFails, SetHand, Idle
<1> QED
  BY <1>2, <1>3, <1>4, <1>5, <1>6, <1>7, <1>8, <1>9 DEF Tick

\* Only a rollout adds a workload.
LEMMA TickWorkload ==
    ASSUME NEW w \in Workers, Tick(w) \/ ApplyFails(w) \/ TickFails(w)
    PROVE  workload' \subseteq workload \cup (IF hand[w].at = "apply" THEN hand[w].held ELSE {})
<1>1. CASE Apply(w)
  BY <1>1 DEF Apply
<1>2. CASE Reap(w)
  BY <1>2 DEF Reap
<1>3. CASE ~Apply(w) /\ ~Reap(w)
  <2>1. workload' = workload
    BY <1>3 DEF Tick, ReadRows, ApplyRefused, ApplyFails, ListNamespaces, ListVolumes,
       CheckServices, Reclaim, EndTick, TickFails, EnsureNamespace, CheckNamespace,
       ReadServices, clusterVars
  <2> QED
    BY <2>1
<1> QED
  BY <1>1, <1>2, <1>3

\* What one worker has read stays fresh through the steps of all.
LEMMA ReadIsFreshStep ==
    ASSUME TypeOK, Created, RolloutsKnown, ReadIsFresh, [Next]_vars
    PROVE  ReadIsFresh'
<1>1. workload \subseteq Services /\ hand \in [Workers -> Hand]
  BY DEF TypeOK
<1>2. \A s \in workload : service[s] # "new"
  BY DEF TypeOK, Created
<1>3. CASE Users
  <2>1. UNCHANGED <<hand, workload>>
    BY <1>3, UsersLeave
  <2>2. \A s \in workload : service'[s] = "row" => service[s] = "row"
    BY <1>1, <1>2, <1>3, UsersForward DEF TypeOK
  <2> QED
    BY <2>1, <2>2 DEF ReadIsFresh
<1>4. CASE Cluster
  BY <1>4 DEF Cluster, NamespaceGone, OperatorDeletes, userVars, ReadIsFresh
<1>5. ASSUME NEW w \in Workers, Tick(w) \/ ApplyFails(w) \/ TickFails(w) PROVE ReadIsFresh'
  <2>1. PICK h \in Hand : hand' = [hand EXCEPT ![w] = h]
    BY <1>5, TickHand
  <2>2. \A v \in Workers : v # w => hand'[v] = hand[v]
    BY <2>1, <1>1
  <2>3. service' = service
    BY <1>5, TickWorld
  <2>4. ASSUME NEW v \in Workers, v # w, hand'[v].at = "reap", NEW s \in workload',
               EnvOf[s] \in hand'[v].here, service'[s] = "row"
        PROVE  s \in hand'[v].held
    <3>1. hand'[v] = hand[v]
      BY <2>2, <2>4
    <3>2. CASE s \in workload
      BY <2>3, <2>4, <3>1, <3>2 DEF ReadIsFresh
    <3>3. CASE s \notin workload
      <4>1. hand[w].at = "apply" /\ s \in hand[w].held
        BY <1>5, <2>4, <3>3, TickWorkload
      <4> QED
        BY <2>3, <2>4, <3>1, <4>1 DEF RolloutsKnown
    <3> QED
      BY <3>2, <3>3
  <2>5. ASSUME hand'[w].at = "reap", NEW s \in workload',
               EnvOf[s] \in hand'[w].here, service'[s] = "row"
        PROVE  s \in hand'[w].held
    <3>1. PICK e \in Envs : ReadServices(w, e)
      BY <1>5, <2>5, LeavesReap
    <3>2. hand'[w].held = LiveIn(e) /\ hand'[w].here = {e} /\ UNCHANGED <<service, workload>>
      BY <3>1, <1>1 DEF ReadServices, LiveServices, SetHand, Hand, userVars, clusterVars
    <3> QED
      BY <3>2, <2>5, <1>1 DEF LiveIn, Of
  <2> QED
    BY <2>4, <2>5 DEF ReadIsFresh
<1>6. CASE UNCHANGED vars
  BY <1>6 DEF ReadIsFresh, vars
<1> QED
  BY <1>3, <1>4, <1>5, <1>6 DEF Next

\* The only steps that take a workload or end a namespace.
LEMMA WorkloadStep ==
    ASSUME TypeOK, ReadIsFresh, [Next]_vars,
           NEW s \in workload, service[s] = "row"
    PROVE  /\ s \in workload' \/ namespace[EnvOf[s]] = "terminating"
           /\ namespace'[EnvOf[s]] # "terminating" \/ namespace[EnvOf[s]] = "terminating"
              \/ faults' # faults
<1> DEFINE Goal == /\ s \in workload' \/ namespace[EnvOf[s]] = "terminating"
                   /\ namespace'[EnvOf[s]] # "terminating" \/ namespace[EnvOf[s]] = "terminating"
                      \/ faults' # faults
<1>1. s \in Services /\ EnvOf[s] \in Envs /\ faults \in Nat
  BY TenantGcConstants DEF TypeOK
<1>2. CASE Users
  <2>1. UNCHANGED <<workload, namespace>>
    BY <1>2, UsersLeave
  <2> QED
    BY <2>1
<1>3. ASSUME NEW e \in Envs, NamespaceGone(e) PROVE Goal
  BY <1>1, <1>3 DEF NamespaceGone, Of, TypeOK
<1>4. ASSUME NEW e \in Envs, OperatorDeletes(e) PROVE Goal
  BY <1>1, <1>4 DEF OperatorDeletes
<1>5. ASSUME NEW w \in Workers, Reap(w) PROVE Goal
  <2>1. EnvOf[s] \in hand[w].here => s \in hand[w].held
    BY <1>5 DEF Reap, ReadIsFresh
  <2> QED
    BY <1>1, <1>5, <2>1 DEF Reap, TypeOK
<1>6. ASSUME NEW w \in Workers, NEW t \in Services, EnsureNamespace(w, t) PROVE Goal
  BY <1>1, <1>6 DEF EnsureNamespace, TypeOK
<1>7. ASSUME NEW w \in Workers, Tick(w) \/ ApplyFails(w) \/ TickFails(w),
             ~Reap(w), \A t \in Services : ~EnsureNamespace(w, t)
      PROVE  Goal
  <2>1. namespace' = namespace /\ workload \subseteq workload'
    BY <1>7 DEF Tick, ReadRows, Apply, ApplyRefused, ApplyFails, ListNamespaces, ListVolumes,
       CheckServices, Reclaim, EndTick, TickFails, CheckNamespace, ReadServices, clusterVars
  <2> QED
    BY <2>1
<1>8. CASE UNCHANGED vars
  BY <1>8 DEF vars
<1> QED
  BY <1>2, <1>3, <1>4, <1>5, <1>6, <1>7, <1>8 DEF Next, Cluster

\* No worker deletes what a service that exists runs in, whatever users create and delete
\* between its read and its delete, unless another rolls out a newer service meanwhile.
THEOREM CollectorsSpare == Spec /\ []RolloutsKnown => LiveWorkloadSpared
<1>1. Init => Created /\ ReadIsFresh
  BY DEF Init, Created, ReadIsFresh, Idle
<1>2. TypeOK /\ Created /\ RolloutsKnown /\ ReadIsFresh /\ [Next]_vars => ReadIsFresh'
  BY ReadIsFreshStep
<1>3. TypeOK /\ ReadIsFresh /\ [Next]_vars
      => [\A s \in workload : service[s] = "row" =>
            /\ s \in workload' \/ namespace[EnvOf[s]] = "terminating"
            /\ namespace'[EnvOf[s]] # "terminating" \/ namespace[EnvOf[s]] = "terminating"
               \/ faults' # faults]_vars
  BY WorkloadStep
<1> QED
  BY <1>1, <1>2, <1>3, CreatedStep, TypeCorrect, PTL DEF Spec, LiveWorkloadSpared

\* A lone worker finishes its rollouts before it collects.
COROLLARY LoneCollectorSpares ==
    ASSUME NEW v \in Workers, Workers = {v}
    PROVE  Spec => LiveWorkloadSpared
<1>1. RolloutsKnown
  BY DEF RolloutsKnown
<1> QED
  BY <1>1, CollectorsSpare, PTL

=============================================================================
