------------------------ MODULE RegistryPruneProofs ------------------------
(* Proofs about RegistryPrune, for any deployments, contents, settings and workers. *)
EXTENDS RegistryPrune, FiniteSetTheorems, TLAPS

\* Steps by what they may change.
Rollout == \E d \in Deployments : Claim(d) \/ Succeed(d) \/ End(d) \/ Cancel(d)
Build == \E t \in Tags : BuildStep(t) \/ BuildDies(t)
SweepStep(w) == PruneStep(w) \/ SweepFails(w)
CollectorStep(w) == CollectStep(w) \/ CollectFails(w)

LEMMA NextSteps ==
    ASSUME Next
    PROVE  \/ DeleteService \/ Rollout \/ Build
           \/ \E d \in Deployments : Enqueue(d) \/ StartBuild(d)
           \/ \E w \in Workers : SweepStep(w) \/ CollectorStep(w)
  BY DEF Next, UserStep, RolloutStep, Rollout, Build, SweepStep, CollectorStep

LEMMA NextTagType ==
    ASSUME NEW d \in Deployments, NEW t \in NextTags(d)
    PROVE  t \in {<<d, 0>>, <<d, 1>>, <<d, 2>>}
  BY DEF NextTags, FirstTags

LEMMA TagsOfType ==
    ASSUME TypeOK, NEW d \in Deployments
    PROVE  /\ TagsOf(d) \subseteq Tags
           /\ \A t \in TagsOf(d) : t[1] = d
  BY DEF TagsOf, TypeOK, Tags, NoTag

-----------------------------------------------------------------------------
(* A step of the prune changes one hand *)

Others(w, h) == sweep' = [sweep EXCEPT ![w] = h]

\* What is known and kept is read together, stays for the sweep, and is forgotten with it.
LEMMA SweepHand ==
    ASSUME TypeOK, NEW w \in Workers, SweepStep(w)
    PROVE  \E h \in Sweep :
             /\ Others(w, h)
             /\ \/ h.known = {} /\ h.at # "delete"
                \/ /\ h.known = UNION {TagsOf(d) : d \in Rows}
                   /\ h.keep = UNION {TagsOf(d) : d \in Kept}
                   /\ h.at # "delete"
                \/ /\ h.known = sweep[w].known /\ h.keep = sweep[w].keep
                   /\ h.at = "delete" =>
                        \/ h.safe = ProtectedDigests(w) /\ h.listed = sweep[w].listed
                        \/ sweep[w].at = "delete" /\ h.safe = sweep[w].safe
                           /\ h.listed = sweep[w].listed
<1>1. sweep[w] \in Sweep
  BY DEF TypeOK
<1>2. ASSUME StopSweep(w)
      PROVE  /\ Others(w, NoSweep) /\ NoSweep \in Sweep
             /\ NoSweep.known = {} /\ NoSweep.at # "delete"
  BY <1>2 DEF StopSweep, Others, NoSweep, Sweep
<1>3. CASE ReadRows(w)
  <2> DEFINE h == [NoSweep EXCEPT !.at = "list", !.known = UNION {TagsOf(d) : d \in Rows},
                                  !.keep = UNION {TagsOf(d) : d \in Kept}]
  <2>1. Others(w, h)
    BY <1>3 DEF ReadRows, Others
  <2>2. Rows \subseteq Deployments /\ Kept \subseteq Deployments
    BY DEF Rows, Kept, InFlight, Newest, Succeeded
  <2>3. UNION {TagsOf(d) : d \in Rows} \subseteq Tags /\ UNION {TagsOf(d) : d \in Kept} \subseteq Tags
    BY <2>2, TagsOfType
  <2>4. /\ h.at = "list" /\ h.known = UNION {TagsOf(d) : d \in Rows}
        /\ h.keep = UNION {TagsOf(d) : d \in Kept} /\ h.listed = {} /\ h.todo = {} /\ h.safe = {}
    BY DEF NoSweep
  <2>5. h \in Sweep
    <3>1. \A a, b \in SUBSET Tags :
             [NoSweep EXCEPT !.at = "list", !.known = a, !.keep = b] \in Sweep
      BY DEF NoSweep, Sweep
    <3> QED
      BY <3>1, <2>3, Zenon
  <2> HIDE DEF h
  <2> QED
    BY <2>1, <2>4, <2>5
<1>4. CASE List(w)
  <2>1. CASE tags \subseteq sweep[w].keep
    BY <1>4, <1>2, <2>1 DEF List
  <2>2. CASE ~(tags \subseteq sweep[w].keep)
    <3> DEFINE h == [sweep[w] EXCEPT !.at = "protect", !.listed = tags,
                                     !.todo = tags \ sweep[w].keep]
    <3>1. Others(w, h)
      BY <1>4, <2>2, <1>1 DEF List, Others, TypeOK
    <3>2. h \in Sweep /\ h.known = sweep[w].known /\ h.keep = sweep[w].keep /\ h.at # "delete"
      BY <1>1 DEF Sweep, TypeOK
    <3> QED
      BY <3>1, <3>2
  <2> QED
    BY <2>1, <2>2
<1>5. CASE Protect(w)
  <2> DEFINE ok == sweep[w].listed \cap sweep[w].keep \subseteq tags
  <2>1. CASE ~ok
    BY <1>5, <1>2, <2>1 DEF Protect
  <2>2. CASE ok
    <3> DEFINE h == [sweep[w] EXCEPT !.at = "delete", !.safe = ProtectedDigests(w)]
    <3>1. Others(w, h)
      BY <1>5, <2>2, <1>1 DEF Protect, Others, TypeOK
    <3>2. ProtectedDigests(w) \in SUBSET Digests
      BY <1>1, RegistryConstants DEF ProtectedDigests, Sweep
    <3>3. h \in Sweep /\ h.known = sweep[w].known /\ h.keep = sweep[w].keep
          /\ h.safe = ProtectedDigests(w) /\ h.listed = sweep[w].listed
      BY <1>1, <3>2 DEF Sweep
    <3> QED
      BY <3>1, <3>3
  <2> QED
    BY <2>1, <2>2
<1>6. ASSUME NEW t \in sweep[w].todo, sweep[w].at = "delete", Done(w, t)
      PROVE  \E h \in Sweep :
               /\ Others(w, h)
               /\ \/ h.known = {} /\ h.at # "delete"
                  \/ /\ h.known = sweep[w].known /\ h.keep = sweep[w].keep
                     /\ h.safe = sweep[w].safe /\ h.listed = sweep[w].listed
  <2>1. CASE sweep[w].todo \ {t} = {}
    BY <1>6, <1>2, <2>1 DEF Done
  <2>2. CASE sweep[w].todo \ {t} # {}
    <3> DEFINE h == [sweep[w] EXCEPT !.todo = sweep[w].todo \ {t}]
    <3>1. Others(w, h)
      BY <1>6, <2>2, <1>1 DEF Done, Others, TypeOK
    <3>2. h \in Sweep /\ h.known = sweep[w].known /\ h.keep = sweep[w].keep
          /\ h.safe = sweep[w].safe /\ h.listed = sweep[w].listed
      BY <1>1 DEF Sweep
    <3> QED
      BY <3>1, <3>2
  <2> QED
    BY <2>1, <2>2
<1>7. CASE \E t \in Tags : DeleteTag(w, t)
  <2>1. PICK t \in sweep[w].todo : sweep[w].at = "delete" /\ Done(w, t)
    BY <1>7 DEF DeleteTag
  <2> QED
    BY <2>1, <1>6
<1>8. CASE SweepFails(w)
  <2>1. StopSweep(w) \/ \E t \in sweep[w].todo : sweep[w].at = "delete" /\ Done(w, t)
    BY <1>8 DEF SweepFails
  <2> QED
    BY <2>1, <1>2, <1>6
<1> QED
  BY <1>3, <1>4, <1>5, <1>7, <1>8 DEF SweepStep, PruneStep

-----------------------------------------------------------------------------
(* Types *)

StatusType == status \in [Deployments -> Active \cup {"absent", "succeeded", "ended", "deleted"}]
RefType ==
    /\ ref \in [Deployments -> Tags \cup {NoTag}]
    /\ \A d \in Deployments : ref[d] \in {<<d, 0>>, <<d, 1>>, <<d, 2>>, NoTag}
RegistryType ==
    /\ building \subseteq Tags /\ pushing \subseteq Tags
    /\ tags \subseteq Tags
    /\ blobs \subseteq Digests

LEMMA Types ==
    TypeOK <=> /\ StatusType /\ RefType /\ RegistryType
               /\ sweep \in [Workers -> Sweep]
               /\ collector \in [Workers -> Collector]
               /\ faults \in 0..MaxFaults
  BY DEF TypeOK, StatusType, RefType, RegistryType

LEMMA FaultType ==
    ASSUME TypeOK, Fault \/ UNCHANGED faults
    PROVE  faults' \in 0..MaxFaults
  BY RegistryConstants DEF Fault, TypeOK

LEMMA TypeInit == Init => TypeOK
<1> SUFFICES ASSUME Init PROVE TypeOK
  OBVIOUS
<1>1. NoSweep \in Sweep /\ NoCollector \in Collector
  BY DEF NoSweep, Sweep, NoCollector, Collector
<1>2. sweep \in [Workers -> Sweep] /\ collector \in [Workers -> Collector]
  BY <1>1 DEF Init
<1>3. StatusType /\ RefType /\ RegistryType /\ faults \in 0..MaxFaults
  BY RegistryConstants DEF Init, StatusType, RefType, RegistryType
<1> QED
  BY <1>2, <1>3, Types

LEMMA TypeStatus ==
    ASSUME TypeOK, Rollout \/ DeleteService \/ \E d \in Deployments : Enqueue(d)
    PROVE  TypeOK'
<1>1. StatusType' /\ UNCHANGED <<ref, buildVars, tags, blobs, jobVars, faults>>
  BY DEF Rollout, Claim, Succeed, End, Cancel, DeleteService, Enqueue, TypeOK, StatusType, Active
<1> QED
  BY <1>1 DEF TypeOK, StatusType, buildVars, jobVars

LEMMA TypeStartBuild ==
    ASSUME TypeOK, NEW d \in Deployments, StartBuild(d)
    PROVE  TypeOK'
<1> PICK t \in NextTags(d) : ref' = [ref EXCEPT ![d] = t] /\ building' = building \cup {t}
  BY DEF StartBuild
<1>1. t \in {<<d, 0>>, <<d, 1>>, <<d, 2>>} /\ t \in Tags
  BY NextTagType DEF Tags
<1>2. RefType'
  BY <1>1 DEF StartBuild, TypeOK, RefType
<1>3. RegistryType' /\ UNCHANGED <<status, jobVars, faults>>
  BY <1>1 DEF StartBuild, TypeOK, RegistryType
<1> QED
  BY <1>2, <1>3 DEF TypeOK, RefType, RegistryType, jobVars

LEMMA TypeBuild ==
    ASSUME TypeOK, Build
    PROVE  TypeOK'
<1>1. PICK t \in Tags : Upload(t) \/ Push(t) \/ BuildDies(t)
  BY DEF Build, BuildStep
<1>2. RegistryType'
  BY <1>1, RegistryConstants DEF Upload, Push, BuildDies, TypeOK, RegistryType
<1>3. UNCHANGED <<status, ref, jobVars>> /\ (Fault \/ UNCHANGED faults)
  BY <1>1 DEF Upload, Push, BuildDies
<1> QED
  BY <1>2, <1>3, FaultType DEF TypeOK, RegistryType, jobVars

LEMMA TypeSweep ==
    ASSUME TypeOK, NEW w \in Workers, SweepStep(w)
    PROVE  TypeOK'
<1>1. PICK h \in Sweep : Others(w, h)
  BY SweepHand
<1>2. sweep' \in [Workers -> Sweep]
  BY <1>1 DEF Others, TypeOK
<1>3. /\ UNCHANGED <<status, ref, buildVars, blobs, collector>>
      /\ tags' \subseteq tags
      /\ Fault \/ UNCHANGED faults
  BY DEF SweepStep, PruneStep, ReadRows, List, Protect, DeleteTag, SweepFails
<1> QED
  BY <1>2, <1>3, FaultType DEF TypeOK, buildVars

LEMMA TypeCollector ==
    ASSUME TypeOK, NEW w \in Workers, CollectorStep(w)
    PROVE  TypeOK'
<1>1. collector[w] \in Collector /\ NoCollector \in Collector
  BY DEF TypeOK, NoCollector, Collector
<1>2. CASE Gate(w)
  <2>1. TakenForOver \subseteq Deployments
    BY DEF TakenForOver, Rows
  <2>2. [NoCollector EXCEPT !.at = "gated", !.seen = TakenForOver] \in Collector
    BY <2>1 DEF NoCollector, Collector
  <2> QED
    BY <1>2, <2>2 DEF Gate, TypeOK, buildVars
<1>3. CASE Mark(w)
  <2>1. {DigestOf[t] : t \in tags} \subseteq Digests
    BY RegistryConstants DEF TypeOK
  <2>2. [collector[w] EXCEPT !.at = "marked", !.live = {DigestOf[t] : t \in tags}] \in Collector
    BY <2>1, <1>1 DEF Collector
  <2> QED
    BY <1>3, <2>2 DEF Mark, TypeOK, buildVars
<1>4. CASE SweepBlobs(w) \/ CollectFails(w)
  <2>1. collector' \in [Workers -> Collector]
    BY <1>4, <1>1 DEF SweepBlobs, CollectFails, TypeOK
  <2>2. /\ UNCHANGED <<status, ref, buildVars, tags, sweep>>
        /\ blobs' \subseteq blobs
        /\ Fault \/ UNCHANGED faults
    BY <1>4 DEF SweepBlobs, CollectFails
  <2> QED
    BY <2>1, <2>2, FaultType DEF TypeOK, buildVars
<1> QED
  BY <1>2, <1>3, <1>4 DEF CollectorStep, CollectStep

LEMMA TypeNext == TypeOK /\ [Next]_vars => TypeOK'
<1> SUFFICES ASSUME TypeOK, [Next]_vars PROVE TypeOK'
  OBVIOUS
<1>1. CASE Next
  BY <1>1, NextSteps, TypeStatus, TypeStartBuild, TypeBuild, TypeSweep, TypeCollector
<1>2. CASE UNCHANGED vars
  BY <1>2 DEF vars, TypeOK
<1> QED
  BY <1>1, <1>2

(* Every variable of the registry and of its two jobs keeps its type: no    *)
(* attempt after the second is named, and nothing is read that is not a tag.*)
THEOREM TypeCorrect == Spec => []TypeOK
<1>1. Init => TypeOK
  BY TypeInit
<1>2. TypeOK /\ [Next]_vars => TypeOK'
  BY TypeNext
<1> QED
  BY <1>1, <1>2, PTL DEF Spec

-----------------------------------------------------------------------------
(* What the prune may delete *)

\* A deployment that has or may get the traffic of the service.
Needed(d) == d \in InFlight \/ Serving(d)

\* Old rows know no tag of a deployment that is to come, and what they know of one that is
\* needed now they keep.
KnownKept ==
    \A w \in Workers : \A t \in sweep[w].known :
        status[t[1]] # "absent" /\ (Needed(t[1]) => t \in sweep[w].keep)

\* Nothing that has the content of a kept and listed tag is deleted.
KeptSafe ==
    \A w \in Workers : sweep[w].at = "delete" =>
        \A t \in sweep[w].listed \cap sweep[w].keep : DigestOf[t] \in sweep[w].safe

PruneInv == TypeOK /\ KnownKept /\ KeptSafe

\* The newest success is among the kept, if at least one is.
LEMMA NeededIsKept ==
    ASSUME Keep >= 1, TypeOK, NEW d \in Deployments, Needed(d)
    PROVE  d \in Kept
<1>1. CASE d \in InFlight
  BY <1>1 DEF Kept
<1>2. CASE Serving(d)
  <2>1. d \in Succeeded
    BY <1>2 DEF Serving, Succeeded, Rows
  <2>2. Succeeded \subseteq Deployments
    BY DEF Succeeded, Rows
  <2>3. {e \in Succeeded : e > d} = {}
    <3>1. \A e \in Succeeded : e \in Nat /\ e <= d
      BY <1>2, <2>2, RegistryConstants DEF Serving, Deployments
    <3>2. d \in Nat
      BY RegistryConstants DEF Deployments
    <3>3. \A e \in Succeeded : ~(e > d)
      BY <3>1, <3>2
    <3> QED
      BY <3>3
  <2>4. Cardinality({e \in Succeeded : e > d}) < Keep
    BY <2>3, FS_EmptySet, RegistryConstants
  <2> QED
    BY <2>1, <2>4 DEF Kept, Newest
<1> QED
  BY <1>1, <1>2 DEF Needed

\* A deployment that is needed after a step was needed before it, or is new.
LEMMA NeededOnly ==
    ASSUME TypeOK, [Next]_vars, NEW d \in Deployments, status[d] # "absent"
    PROVE  status'[d] # "absent" /\ (Needed(d)' => Needed(d))
<1>1. CASE \E e \in Deployments : Enqueue(e)
  <2>1. PICK e \in Deployments : Enqueue(e)
    BY <1>1
  <2>2. status' = [f \in Deployments |-> IF f = e THEN "pending"
                         ELSE IF status[f] = "pending" THEN "ended" ELSE status[f]]
        /\ status[e] = "absent"
    BY <2>1 DEF Enqueue
  <2>3. Succeeded' = Succeeded
    BY <2>2 DEF Succeeded, Rows
  <2>4. d # e /\ status'[d] = (IF status[d] = "pending" THEN "ended" ELSE status[d])
    BY <2>2
  <2> QED
    BY <2>3, <2>4 DEF Needed, Serving, InFlight, Rows, Active
<1>2. CASE \E e \in Deployments : Succeed(e)
  <2>1. PICK e \in Deployments : Succeed(e)
    BY <1>2
  <2>2. status[e] = "deploying" /\ status' = [status EXCEPT ![e] = "succeeded"]
    BY <2>1 DEF Succeed
  <2>3. Succeeded \subseteq Succeeded'
    BY <2>2 DEF Succeeded, Rows, TypeOK
  <2>4. d # e => status'[d] = status[d]
    BY <2>2 DEF TypeOK
  <2>5. d = e => d \in InFlight
    BY <2>2 DEF InFlight, Rows, Active
  <2>6. d # e => (Needed(d)' => Needed(d))
    BY <2>3, <2>4 DEF Needed, Serving, InFlight, Rows
  <2> QED
    BY <2>2, <2>4, <2>5, <2>6 DEF Needed, TypeOK
<1>3. CASE \E e \in Deployments : Claim(e) \/ End(e) \/ Cancel(e)
  <2>1. PICK e \in Deployments : Claim(e) \/ End(e) \/ Cancel(e)
    BY <1>3
  <2>2. status[e] \in Active /\ status'[e] \in Active \cup {"ended"}
        /\ \A f \in Deployments \ {e} : status'[f] = status[f]
    BY <2>1 DEF Claim, End, Cancel, TypeOK, Active
  <2>3. Succeeded' = Succeeded
    BY <2>2 DEF Succeeded, Rows, Active
  <2> QED
    BY <2>2, <2>3 DEF Needed, Serving, InFlight, Rows, Active
<1>4. CASE DeleteService
  BY <1>4 DEF DeleteService, Needed, Serving, InFlight, Rows
<1>5. CASE UNCHANGED status
  BY <1>5 DEF Needed, Serving, InFlight, Rows, Succeeded
<1>6. Build \/ (\E e \in Deployments : StartBuild(e))
        \/ (\E w \in Workers : SweepStep(w) \/ CollectorStep(w)) \/ UNCHANGED vars
      => UNCHANGED status
  BY DEF Build, BuildStep, Upload, Push, BuildDies, StartBuild, SweepStep, PruneStep, ReadRows,
         List, Protect, DeleteTag, SweepFails, CollectorStep, CollectStep, Gate, Mark, SweepBlobs,
         CollectFails, vars
<1> QED
  BY <1>1, <1>2, <1>3, <1>4, <1>5, <1>6, NextSteps DEF Rollout

\* Only a step of the prune touches what it read.
LEMMA SweepUnchanged ==
    ASSUME [Next]_vars
    PROVE  UNCHANGED sweep \/ \E w \in Workers : SweepStep(w)
  BY NextSteps DEF Rollout, Claim, Succeed, End, Cancel, DeleteService, Build, BuildStep, Upload,
         Push, BuildDies, Enqueue, StartBuild, CollectorStep, CollectStep, Gate, Mark, SweepBlobs,
         CollectFails, jobVars, vars

LEMMA PruneInit == Init => PruneInv
<1> SUFFICES ASSUME Init PROVE PruneInv
  OBVIOUS
<1>1. \A w \in Workers : sweep[w].known = {} /\ sweep[w].at = "idle"
  BY DEF Init, NoSweep
<1> QED
  BY <1>1, TypeInit DEF PruneInv, KnownKept, KeptSafe

LEMMA PruneNext ==
    ASSUME Keep >= 1, PruneInv, [Next]_vars
    PROVE  PruneInv'
<1> USE DEF PruneInv
<1>0. TypeOK'
  BY TypeNext
<1>1. \A w \in Workers : \A t \in sweep[w].known : t[1] \in Deployments
  BY DEF TypeOK, Sweep, Tags
<1>2. CASE UNCHANGED sweep
  <2>1. KnownKept'
    <3> SUFFICES ASSUME NEW w \in Workers, NEW t \in sweep'[w].known
                 PROVE  status'[t[1]] # "absent" /\ (Needed(t[1])' => t \in sweep'[w].keep)
      BY DEF KnownKept
    <3>1. t \in sweep[w].known /\ sweep'[w].keep = sweep[w].keep
      BY <1>2
    <3>2. t[1] \in Deployments /\ status[t[1]] # "absent" /\ (Needed(t[1]) => t \in sweep[w].keep)
      BY <3>1, <1>1 DEF KnownKept
    <3> QED
      BY <3>1, <3>2, NeededOnly
  <2>2. KeptSafe'
    BY <1>2 DEF KeptSafe
  <2> QED
    BY <1>0, <2>1, <2>2
<1>3. ASSUME NEW w \in Workers, SweepStep(w)
      PROVE  PruneInv'
  <2>1. PICK h \in Sweep :
             /\ Others(w, h)
             /\ \/ h.known = {} /\ h.at # "delete"
                \/ /\ h.known = UNION {TagsOf(d) : d \in Rows}
                   /\ h.keep = UNION {TagsOf(d) : d \in Kept}
                   /\ h.at # "delete"
                \/ /\ h.known = sweep[w].known /\ h.keep = sweep[w].keep
                   /\ h.at = "delete" =>
                        \/ h.safe = ProtectedDigests(w) /\ h.listed = sweep[w].listed
                        \/ sweep[w].at = "delete" /\ h.safe = sweep[w].safe
                           /\ h.listed = sweep[w].listed
    BY <1>3, SweepHand
  <2>2. sweep'[w] = h /\ \A x \in Workers \ {w} : sweep'[x] = sweep[x]
    BY <2>1 DEF Others, TypeOK
  <2>3. UNCHANGED status
    BY <1>3 DEF SweepStep, PruneStep, ReadRows, List, Protect, DeleteTag, SweepFails
  <2>4. \A d \in Deployments : Needed(d)' <=> Needed(d)
    BY <2>3 DEF Needed, Serving, InFlight, Rows, Succeeded
  <2>5. \A t \in h.known : status[t[1]] # "absent" /\ (Needed(t[1]) => t \in h.keep)
    <3>1. CASE h.known = UNION {TagsOf(d) : d \in Rows} /\ h.keep = UNION {TagsOf(d) : d \in Kept}
      <4> SUFFICES ASSUME NEW t \in h.known
                   PROVE  status[t[1]] # "absent" /\ (Needed(t[1]) => t \in h.keep)
        OBVIOUS
      <4>1. PICK d \in Rows : t \in TagsOf(d)
        BY <3>1
      <4>2. d \in Deployments /\ status[d] # "absent"
        BY DEF Rows
      <4>3. t[1] = d
        BY <4>1, <4>2, TagsOfType
      <4> QED
        BY <3>1, <4>1, <4>2, <4>3, NeededIsKept
    <3>2. CASE h.known = sweep[w].known /\ h.keep = sweep[w].keep
      BY <3>2 DEF KnownKept
    <3> QED
      BY <2>1, <3>1, <3>2
  <2>6. KnownKept'
    <3> SUFFICES ASSUME NEW x \in Workers, NEW t \in sweep'[x].known
                 PROVE  status'[t[1]] # "absent" /\ (Needed(t[1])' => t \in sweep'[x].keep)
      BY DEF KnownKept
    <3>1. t[1] \in Deployments
      BY <1>0 DEF TypeOK, Sweep, Tags
    <3>2. CASE x = w
      BY <2>2, <2>3, <2>4, <2>5, <3>1, <3>2
    <3>3. CASE x # w
      BY <2>2, <2>3, <2>4, <3>1, <3>3 DEF KnownKept
    <3> QED
      BY <3>2, <3>3
  <2>7. h.at = "delete" => \A t \in h.listed \cap h.keep : DigestOf[t] \in h.safe
    BY <2>1 DEF KeptSafe, ProtectedDigests
  <2>8. KeptSafe'
    BY <2>2, <2>7 DEF KeptSafe
  <2> QED
    BY <1>0, <2>6, <2>8
<1> QED
  BY <1>2, <1>3, SweepUnchanged

\* Only a deletion takes a tag away.
LEMMA TagsGo ==
    ASSUME [Next]_vars, NEW t \in tags, t \notin tags'
    PROVE  \E w \in Workers : \E u \in Tags :
              DeleteTag(w, u) /\ DigestOf[t] = DigestOf[u] /\ DigestOf[u] \notin sweep[w].safe
<1>1. \/ \E w \in Workers : \E u \in Tags : DeleteTag(w, u)
      \/ tags \subseteq tags'
  BY NextSteps DEF Rollout, Claim, Succeed, End, Cancel, DeleteService, Build, BuildStep, Upload,
         Push, BuildDies, Enqueue, StartBuild, SweepStep, PruneStep, ReadRows, List, Protect,
         SweepFails, CollectorStep, CollectStep, Gate, Mark, SweepBlobs, CollectFails, vars
<1>2. PICK w \in Workers, u \in Tags : DeleteTag(w, u)
  BY <1>1
<1>3. DigestOf[t] = DigestOf[u] /\ DigestOf[u] \notin sweep[w].safe
  BY <1>2 DEF DeleteTag
<1> QED
  BY <1>2, <1>3

\* A needed image goes only by a deletion of a worker whose rows or list did not have it.
LEMMA DeletedUnread ==
    ASSUME PruneInv, [Next]_vars, NEW t \in tags, t \notin tags', NeededTag(t)
    PROVE  \E w \in Workers : /\ \E u \in Tags : DeleteTag(w, u)
                              /\ t \notin sweep[w].known \cap sweep[w].listed
<1>1. PICK w \in Workers, u \in Tags :
           DeleteTag(w, u) /\ DigestOf[t] = DigestOf[u] /\ DigestOf[u] \notin sweep[w].safe
  BY TagsGo
<1>2. ASSUME t \in sweep[w].known, t \in sweep[w].listed
      PROVE  FALSE
  <2>1. PICK d \in Deployments : ref[d] = t /\ Needed(d)
    BY DEF NeededTag, Needed
  <2>2. t[1] = d
    <3>1. t[1] \in Deployments /\ t[1] # 0
      BY RegistryConstants DEF PruneInv, TypeOK, Tags, Deployments
    <3>2. t # NoTag
      BY <3>1 DEF NoTag
    <3>3. t \in {<<d, 0>>, <<d, 1>>, <<d, 2>>}
      BY <2>1, <3>2 DEF PruneInv, TypeOK
    <3> QED
      BY <3>3
  <2>3. t \in sweep[w].keep
    BY <1>2, <2>1, <2>2 DEF PruneInv, KnownKept
  <2>4. sweep[w].at = "delete"
    BY <1>1 DEF DeleteTag
  <2> QED
    BY <1>1, <1>2, <2>3, <2>4 DEF PruneInv, KeptSafe
<1> QED
  BY <1>1, <1>2

(* An image in flight, the running one and the target of a rollback are     *)
(* deleted only when they are younger than what the prune has read; with    *)
(* any number of workers, whatever contents the images share, if the        *)
(* setting keeps at least one success.                                      *)
THEOREM NeededSpared ==
    ASSUME Keep >= 1
    PROVE  Spec => NeededImageSpared
<1> DEFINE Spared == \A t \in tags \ tags' : NeededTag(t) =>
                        \E w \in Workers : sweep[w].at = "delete"
                                           /\ t \notin sweep[w].known \cap sweep[w].listed
<1>1. PruneInv /\ [Next]_vars => Spared
  BY DeletedUnread DEF DeleteTag
<1>2. PruneInv /\ [Next]_vars => PruneInv'
  BY PruneNext
<1>3. Init => PruneInv
  BY PruneInit
<1> QED
  BY <1>1, <1>2, <1>3, PTL DEF Spec, NeededImageSpared

-----------------------------------------------------------------------------
(* What the collector may take *)

(* A tag is built once: what is being built, uploaded or stored is of an    *)
(* attempt that was published, and in one place only.                       *)
BuiltOnce ==
    /\ building \cap pushing = {} /\ (building \cup pushing) \cap tags = {}
    /\ \A t \in building \cup pushing \cup tags :
          ref[t[1]] # NoTag /\ t[2] <= ref[t[1]][2]
    /\ \A d \in Deployments : status[d] = "succeeded" => ref[d] \notin building \cup pushing

(* What the collector has seen was over, and stays so; what it marked is    *)
(* every image that serves one of those.                                    *)
SeenOver ==
    \A w \in Workers :
        /\ \A d \in collector[w].seen : status[d] \notin Active \cup {"absent"}
        /\ collector[w].at = "marked" =>
              \A d \in collector[w].seen :
                  status[d] = "succeeded" /\ ref[d] \in tags => DigestOf[ref[d]] \in collector[w].live

CollectInv == TypeOK /\ BuiltOnce /\ SeenOver

\* Nothing is built or seen at first.
LEMMA CollectInit == Init => CollectInv
<1> SUFFICES ASSUME Init PROVE CollectInv
  OBVIOUS
<1>1. BuiltOnce
  BY DEF Init, BuiltOnce
<1>2. SeenOver
  BY DEF Init, SeenOver, NoCollector
<1> QED
  BY <1>1, <1>2, TypeInit DEF CollectInv

\* Tags name a deployment and an attempt; the placeholder is none of them.
LEMMA RefOf ==
    ASSUME TypeOK, NEW d \in Deployments
    PROVE  /\ ref[d] # NoTag => ref[d][1] = d /\ ref[d][2] \in {0, 1, 2}
           /\ \A t \in Tags : t[1] \in Deployments /\ t[2] \in {0, 1, 2} /\ t # NoTag
<1>1. \A t \in Tags : t[1] \in Deployments /\ t[2] \in {0, 1, 2} /\ t[1] # 0
  BY RegistryConstants DEF Tags, Deployments
<1>2. \A t \in Tags : t # NoTag
  BY <1>1 DEF NoTag
<1>3. ref[d] \in {<<d, 0>>, <<d, 1>>, <<d, 2>>, NoTag}
  BY DEF TypeOK
<1> QED
  BY <1>1, <1>2, <1>3

\* A build starts under a tag that was not published before.
LEMMA StartOnce ==
    ASSUME TypeOK, BuiltOnce, NEW d \in Deployments, StartBuild(d)
    PROVE  BuiltOnce'
<1>1. PICK t \in NextTags(d) :
      /\ status[d] = "deploying"
      /\ ref' = [ref EXCEPT ![d] = t] /\ building' = building \cup {t}
      /\ UNCHANGED <<status, pushing, tags>>
  BY DEF StartBuild
<1>2. t \in Tags /\ t[1] = d /\ t # NoTag
      /\ (ref[d] # NoTag => ref[d][2] < t[2])
  <2>1. t \in {<<d, 0>>, <<d, 1>>, <<d, 2>>} /\ t \in Tags
    BY NextTagType DEF Tags
  <2>2. ref[d] # NoTag => ref[d] = <<d, 1>> /\ t = <<d, 2>>
    BY DEF NextTags
  <2> QED
    BY <2>1, <2>2, RefOf
<1>3. t \notin building \cup pushing \cup tags
  <2>1. ref[d] # NoTag => ref[d][2] \in Nat /\ t[2] \in Nat
    BY <1>2, RefOf
  <2> QED
    BY <1>2, <2>1 DEF BuiltOnce
<1>4. ref'[d] = t /\ \A e \in Deployments \ {d} : ref'[e] = ref[e]
  BY <1>1 DEF TypeOK
<1>5. \A u \in building \cup pushing \cup tags : u \in Tags
  BY DEF TypeOK
<1>6. ASSUME NEW u \in building' \cup pushing' \cup tags'
      PROVE  ref'[u[1]] # NoTag /\ u[2] <= ref'[u[1]][2]
  <2>1. CASE u = t
    BY <1>2, <1>4, <2>1, RefOf
  <2>2. CASE u # t /\ u[1] = d
    <3>1. u \in Tags /\ ref[d] # NoTag /\ u[2] <= ref[d][2]
      BY <1>1, <1>5, <2>2 DEF BuiltOnce
    <3>2. u[2] \in Nat /\ ref[d][2] \in Nat /\ t[2] \in Nat
      BY <1>2, <3>1, RefOf
    <3> QED
      BY <1>2, <1>4, <2>2, <3>1, <3>2
  <2>3. CASE u # t /\ u[1] # d
    <3>1. u \in building \cup pushing \cup tags /\ u[1] \in Deployments
      BY <1>1, <1>5, <2>3, RefOf
    <3> QED
      BY <1>4, <2>3, <3>1 DEF BuiltOnce
  <2> QED
    BY <2>1, <2>2, <2>3
<1>7. ASSUME NEW e \in Deployments, status'[e] = "succeeded"
      PROVE  ref'[e] \notin building' \cup pushing'
  <2>1. e # d /\ ref'[e] = ref[e] /\ ref[e] \notin building \cup pushing
    BY <1>1, <1>4, <1>7 DEF BuiltOnce
  <2>2. ref[e] # t
    BY <1>2, <2>1, RefOf
  <2> QED
    BY <1>1, <2>1, <2>2
<1>9. /\ building' \cap pushing' = {} /\ (building' \cup pushing') \cap tags' = {}
  BY <1>1, <1>3 DEF BuiltOnce
<1> QED
  BY <1>6, <1>7, <1>9 DEF BuiltOnce

\* Every step keeps it: what succeeded was pullable, so its upload was over.
LEMMA BuiltOnceNext ==
    ASSUME TypeOK, BuiltOnce, [Next]_vars
    PROVE  BuiltOnce'
<1>1. CASE \E d \in Deployments : StartBuild(d)
  BY <1>1, StartOnce
<1>2. CASE Build
  <2>1. PICK t \in Tags : Upload(t) \/ Push(t) \/ BuildDies(t)
    BY <1>2 DEF Build, BuildStep
  <2> QED
    BY <2>1 DEF Upload, Push, BuildDies, BuiltOnce
<1>3. CASE \E d \in Deployments : Succeed(d)
  <2>1. PICK d \in Deployments : Succeed(d)
    BY <1>3
  <2>2. ref[d] \in tags /\ UNCHANGED <<ref, building, pushing, tags>>
        /\ status' = [status EXCEPT ![d] = "succeeded"]
    BY <2>1 DEF Succeed, Pullable, buildVars
  <2> QED
    BY <2>2 DEF BuiltOnce, TypeOK
<1>4. CASE (\E d \in Deployments : Enqueue(d) \/ Claim(d) \/ End(d) \/ Cancel(d)) \/ DeleteService
  <2>1. UNCHANGED <<ref, building, pushing, tags>>
        /\ \A d \in Deployments : status'[d] = "succeeded" => status[d] = "succeeded"
    BY <1>4 DEF Enqueue, Claim, End, Cancel, DeleteService, TypeOK, buildVars
  <2> QED
    BY <2>1 DEF BuiltOnce
<1>5. CASE (\E w \in Workers : SweepStep(w) \/ CollectorStep(w)) \/ UNCHANGED vars
  <2>1. UNCHANGED <<status, ref, building, pushing>> /\ tags' \subseteq tags
    BY <1>5 DEF SweepStep, PruneStep, ReadRows, List, Protect, DeleteTag, SweepFails,
                CollectorStep, CollectStep, Gate, Mark, SweepBlobs, CollectFails, vars, buildVars
  <2> QED
    BY <2>1 DEF BuiltOnce
<1> QED
  BY <1>1, <1>2, <1>3, <1>4, <1>5, NextSteps DEF Rollout

\* Every step keeps it: no row comes back, and what is pushed or published after the mark belongs
\* to a deployment that was not seen.
LEMMA SeenOverNext ==
    ASSUME CollectInv, [Next]_vars
    PROVE  SeenOver'
<1> USE DEF CollectInv
<1>s. \A w \in Workers : collector[w].seen \subseteq Deployments
  BY DEF TypeOK, Collector
<1>1. CASE UNCHANGED collector
  <2>1. \A d \in Deployments : status[d] \notin Active \cup {"absent"} =>
           /\ status'[d] \notin Active \cup {"absent"}
           /\ status'[d] = "succeeded" => status[d] = "succeeded"
           /\ ref'[d] = ref[d]
           /\ status[d] = "succeeded" /\ ref[d] \in tags' => ref[d] \in tags
    <3>1. CASE (\E d \in Deployments : Enqueue(d)) \/ Rollout \/ DeleteService
      BY <3>1 DEF Enqueue, Rollout, Claim, Succeed, End, Cancel, DeleteService, TypeOK, Active
    <3>2. CASE \E d \in Deployments : StartBuild(d)
      BY <3>2 DEF StartBuild, TypeOK, Active
    <3>3. CASE Build
      <4>1. PICK t \in Tags : Upload(t) \/ Push(t) \/ BuildDies(t)
        BY <3>3 DEF Build, BuildStep
      <4>2. /\ UNCHANGED <<status, ref>>
            /\ \/ tags' = tags
               \/ t \in pushing /\ tags' = tags \cup {t}
        BY <4>1 DEF Upload, Push, BuildDies
      <4> QED
        BY <4>2 DEF BuiltOnce
    <3>4. CASE (\E w \in Workers : SweepStep(w) \/ CollectorStep(w)) \/ UNCHANGED vars
      BY <3>4 DEF SweepStep, PruneStep, ReadRows, List, Protect, DeleteTag, SweepFails,
                CollectorStep, CollectStep, Gate, Mark, SweepBlobs, CollectFails, vars
    <3> QED
      BY <3>1, <3>2, <3>3, <3>4, NextSteps
  <2> QED
    BY <1>1, <1>s, <2>1 DEF SeenOver
<1>2. ASSUME NEW w \in Workers, CollectorStep(w)
      PROVE  SeenOver'
  <2>1. UNCHANGED <<status, ref, tags>>
    BY <1>2 DEF CollectorStep, CollectStep, Gate, Mark, SweepBlobs, CollectFails
  <2>2. PICK h \in Collector :
           /\ collector' = [collector EXCEPT ![w] = h]
           /\ \/ h.seen = {}
              \/ h.seen = TakenForOver /\ h.at = "gated" /\ (DockerfileType => InFlight = {})
              \/ h.seen = collector[w].seen /\ h.live = {DigestOf[t] : t \in tags}
    <3>1. collector[w] \in Collector /\ NoCollector \in Collector /\ NoCollector.seen = {}
      BY DEF TypeOK, NoCollector, Collector
    <3>2. CASE Gate(w)
      <4> DEFINE h == [NoCollector EXCEPT !.at = "gated", !.seen = TakenForOver]
      <4>1. h \in Collector /\ h.seen = TakenForOver /\ h.at = "gated"
        BY DEF NoCollector, Collector, TakenForOver, Rows
      <4>2. (DockerfileType => InFlight = {}) /\ collector' = [collector EXCEPT ![w] = h]
        BY <3>2 DEF Gate, NoBuilds
      <4> QED
        BY <4>1, <4>2
    <3>3. CASE Mark(w)
      <4> DEFINE h == [collector[w] EXCEPT !.at = "marked", !.live = {DigestOf[t] : t \in tags}]
      <4>1. {DigestOf[t] : t \in tags} \subseteq Digests
        BY RegistryConstants DEF TypeOK
      <4>2. h \in Collector /\ h.seen = collector[w].seen /\ h.live = {DigestOf[t] : t \in tags}
        BY <3>1, <4>1 DEF Collector
      <4>3. collector' = [collector EXCEPT ![w] = h]
        BY <3>3 DEF Mark
      <4> QED
        BY <4>2, <4>3
    <3>4. CASE SweepBlobs(w) \/ CollectFails(w)
      BY <3>1, <3>4 DEF SweepBlobs, CollectFails
    <3> QED
      BY <1>2, <3>2, <3>3, <3>4 DEF CollectorStep, CollectStep
  <2>3. collector'[w] = h /\ \A x \in Workers \ {w} : collector'[x] = collector[x]
    BY <2>2 DEF TypeOK
  <2>4. \A d \in h.seen : status[d] \notin Active \cup {"absent"}
    BY <2>2, RegistryConstants DEF SeenOver, TakenForOver, Rows, InFlight
  <2>5. h.at = "marked" => \A d \in h.seen : ref[d] \in tags => DigestOf[ref[d]] \in h.live
    BY <2>2
  <2> QED
    BY <2>1, <2>3, <2>4, <2>5 DEF SeenOver
<1>3. UNCHANGED collector \/ \E w \in Workers : CollectorStep(w)
  BY NextSteps DEF Rollout, Claim, Succeed, End, Cancel, DeleteService, Build, BuildStep, Upload,
         Push, BuildDies, Enqueue, StartBuild, SweepStep, PruneStep, ReadRows, List, Protect,
         DeleteTag, SweepFails, jobVars, vars
<1> QED
  BY <1>1, <1>2, <1>3

LEMMA CollectNext == CollectInv /\ [Next]_vars => CollectInv'
  BY TypeNext, BuiltOnceNext, SeenOverNext DEF CollectInv

\* Layers of a needed image go only by a collector that had not seen its deployment over.
LEMMA CollectedUnseen ==
    ASSUME CollectInv, [Next]_vars, NEW t \in tags, NeededTag(t),
           DigestOf[t] \in blobs, DigestOf[t] \notin blobs'
    PROVE  \E w \in Workers : SweepBlobs(w) /\ t[1] \notin collector[w].seen
<1>1. PICK w \in Workers : SweepBlobs(w)
  <2>1. blobs \subseteq blobs' \/ \E w \in Workers : SweepBlobs(w)
    BY NextSteps DEF Rollout, Claim, Succeed, End, Cancel, DeleteService, Build, BuildStep,
       Upload, Push, BuildDies, Enqueue, StartBuild, SweepStep, PruneStep, ReadRows, List,
       Protect, DeleteTag, SweepFails, CollectorStep, CollectStep, Gate, Mark, CollectFails, vars
  <2> QED
    BY <2>1
<1>2. collector[w].at = "marked" /\ DigestOf[t] \notin collector[w].live
  BY <1>1 DEF SweepBlobs
<1>3. ASSUME t[1] \in collector[w].seen PROVE FALSE
  <2>1. PICK d \in Deployments : ref[d] = t /\ (d \in InFlight \/ Serving(d))
    BY DEF NeededTag
  <2>2. t[1] = d
    <3>1. t \in Tags
      BY DEF CollectInv, TypeOK
    <3> QED
      BY <2>1, <3>1, RefOf DEF CollectInv
  <2>3. status[d] \notin Active
    BY <1>3, <2>2 DEF CollectInv, SeenOver
  <2>4. status[d] = "succeeded"
    BY <2>1, <2>3 DEF InFlight, Serving
  <2> QED
    BY <1>2, <1>3, <2>1, <2>2, <2>4 DEF CollectInv, SeenOver
<1> QED
  BY <1>1, <1>3

(* The collector takes no layer of an image that serves, or is to serve, a  *)
(* deployment that was over when it looked; with any number of workers      *)
(* collecting and pruning beside each other, whatever is enqueued, built,   *)
(* deleted or fails meanwhile, and whatever the type of the deployments.    *)
THEOREM LayersSpared == Spec => NeededLayersSpared
<1> DEFINE Spared == \A t \in tags : NeededTag(t) /\ DigestOf[t] \in blobs \ blobs' =>
                        \E w \in Workers : collector[w].at = "marked"
                                           /\ t[1] \notin collector[w].seen
<1>1. CollectInv /\ [Next]_vars => Spared
  BY CollectedUnseen DEF SweepBlobs
<1>2. Init => CollectInv
  BY CollectInit
<1> QED
  BY <1>1, <1>2, CollectNext, PTL DEF Spec, NeededLayersSpared

-----------------------------------------------------------------------------
(* What serves can be pulled *)

\* A deployment comes to serve by a success alone, with an image that can be pulled.
LEMMA ServingStarts ==
    ASSUME TypeOK, [Next]_vars, NEW d \in Deployments, Serving(d)'
    PROVE  \/ Serving(d) /\ ref'[d] = ref[d]
           \/ Succeed(d) /\ ref'[d] = ref[d]
<1>1. CASE \E e \in Deployments : Enqueue(e)
  <2>1. PICK e \in Deployments : Enqueue(e)
    BY <1>1
  <2>2. ref' = ref
        /\ status' = [f \in Deployments |-> IF f = e THEN "pending"
                         ELSE IF status[f] = "pending" THEN "ended" ELSE status[f]]
        /\ status[e] = "absent"
    BY <2>1 DEF Enqueue
  <2>3. Succeeded' = Succeeded /\ (status'[d] = "succeeded" => status[d] = "succeeded")
    BY <2>2 DEF Succeeded, Rows
  <2> QED
    BY <2>2, <2>3 DEF Serving
<1>2. CASE \E e \in Deployments : Succeed(e)
  <2>1. PICK e \in Deployments : Succeed(e)
    BY <1>2
  <2>2. status' = [status EXCEPT ![e] = "succeeded"] /\ ref' = ref
    BY <2>1 DEF Succeed
  <2>3. Succeeded \subseteq Succeeded'
    BY <2>2 DEF Succeeded, Rows, TypeOK
  <2>4. d # e => status'[d] = status[d]
    BY <2>2 DEF TypeOK
  <2> QED
    BY <2>1, <2>2, <2>3, <2>4 DEF Serving
<1>3. CASE \E e \in Deployments : Claim(e) \/ End(e) \/ Cancel(e)
  <2>1. PICK e \in Deployments : Claim(e) \/ End(e) \/ Cancel(e)
    BY <1>3
  <2>2. status[e] \in Active /\ status'[e] \in Active \cup {"ended"} /\ ref' = ref
        /\ \A f \in Deployments \ {e} : status'[f] = status[f]
    BY <2>1 DEF Claim, End, Cancel, TypeOK, Active
  <2>3. Succeeded' = Succeeded
    BY <2>2 DEF Succeeded, Rows, Active
  <2> QED
    BY <2>2, <2>3 DEF Serving, Active
<1>4. CASE DeleteService
  BY <1>4 DEF DeleteService, Serving
<1>5. CASE \E e \in Deployments : StartBuild(e)
  <2>1. PICK e \in Deployments : StartBuild(e)
    BY <1>5
  <2>2. PICK t \in NextTags(e) :
           status[e] = "deploying" /\ status' = status /\ ref' = [ref EXCEPT ![e] = t]
    BY <2>1 DEF StartBuild
  <2>3. Serving(d)
    BY <2>2 DEF Serving, Succeeded, Rows
  <2>4. d # e
    BY <2>2, <2>3 DEF Serving
  <2> QED
    BY <2>2, <2>3, <2>4 DEF TypeOK
<1>6. CASE Build \/ (\E w \in Workers : SweepStep(w) \/ CollectorStep(w)) \/ UNCHANGED vars
  <2>1. UNCHANGED <<status, ref>>
    BY <1>6 DEF Build, BuildStep, Upload, Push, BuildDies, SweepStep, PruneStep, ReadRows,
         List, Protect, DeleteTag, SweepFails, CollectorStep, CollectStep, Gate, Mark, SweepBlobs,
         CollectFails, vars
  <2> QED
    BY <2>1 DEF Serving, Succeeded, Rows
<1> QED
  BY <1>1, <1>2, <1>3, <1>4, <1>5, <1>6, NextSteps DEF Rollout

(* The prune deletes a manifest, though what it read has not the image.     *)
DeletesUnread(t) ==
    \E w \in Workers : /\ \E u \in Tags : DeleteTag(w, u)
                       /\ t \notin sweep[w].known \cap sweep[w].listed

(* The collector sweeps, though it did not see the deployment over.         *)
CollectsUnseen(d) == \E w \in Workers : SweepBlobs(w) /\ d \notin collector[w].seen

(* A release that serves, or comes to, has an image that can be pulled,     *)
(* unless it was lost before or one of two races takes it in this step.     *)
ServingKeepsImage ==
    [][\A d \in Deployments : Serving(d)' =>
          \/ Pullable(ref[d])'
          \/ Serving(d) /\ ~Pullable(ref[d])
          \/ DeletesUnread(ref[d])
          \/ CollectsUnseen(d)]_vars

(* The image of the release that serves, which is what a pod that starts    *)
(* anew and a rollback pull, is lost in two ways only: to a prune whose rows *)
(* or list were read before the image was published or pushed, and to a     *)
(* collector that looked for builds while its deployment was in flight or   *)
(* not there yet.  No failed request, shared digest, retried build, other   *)
(* type or further worker is another.                                       *)
THEOREM ServingImageLost ==
    ASSUME Keep >= 1
    PROVE  Spec => ServingKeepsImage
<1> DEFINE Keeps == \A d \in Deployments : Serving(d)' =>
                        \/ Pullable(ref[d])'
                        \/ Serving(d) /\ ~Pullable(ref[d])
                        \/ DeletesUnread(ref[d])
                        \/ CollectsUnseen(d)
<1>1. PruneInv /\ CollectInv /\ [Next]_vars => Keeps
  <2> SUFFICES ASSUME PruneInv, CollectInv, [Next]_vars, NEW d \in Deployments, Serving(d)',
                      ~DeletesUnread(ref[d]), ~CollectsUnseen(d),
                      Serving(d) => Pullable(ref[d])
               PROVE  Pullable(ref[d])'
    OBVIOUS
  <2>1. CASE Succeed(d)
    BY <2>1 DEF Succeed, Pullable
  <2>2. CASE ~Succeed(d)
    <3>1. Serving(d) /\ ref'[d] = ref[d]
      BY <2>2, ServingStarts DEF PruneInv
    <3>2. ref[d] \in tags /\ DigestOf[ref[d]] \in blobs
      BY <3>1 DEF Pullable
    <3>3. NeededTag(ref[d]) /\ ref[d][1] = d
      <4>1. ref[d] # NoTag
        BY <3>2, RefOf DEF PruneInv, TypeOK
      <4> QED
        BY <3>1, <4>1, RefOf DEF NeededTag, PruneInv
    <3>4. ref[d] \in tags'
      BY <3>2, <3>3, DeletedUnread DEF DeletesUnread
    <3>5. DigestOf[ref[d]] \in blobs'
      BY <3>2, <3>3, CollectedUnseen DEF CollectsUnseen
    <3> QED
      BY <3>1, <3>4, <3>5 DEF Pullable
  <2> QED
    BY <2>1, <2>2
<1>2. PruneInv /\ [Next]_vars => PruneInv'
  BY PruneNext
<1> HIDE DEF Keeps
<1>3. Spec => [][Keeps]_vars
  BY <1>1, <1>2, PruneInit, CollectInit, CollectNext, PTL DEF Spec
<1> QED
  BY <1>3 DEF ServingKeepsImage, Keeps

=============================================================================
