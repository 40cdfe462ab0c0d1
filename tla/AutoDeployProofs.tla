-------------------------- MODULE AutoDeployProofs --------------------------
(* Proofs about AutoDeploy, for any history of the branch.  While *)
(* polls do not overlap, no copied row is older than the record it will be  *)
(* compared with.                                                           *)
EXTENDS AutoDeploy, TLAPS

\* A hand stays a hand when one of its fields changes.
LEMMA HandTypes ==
    ASSUME NEW h \in Hand, NEW a \in At, NEW s \in Ref
    PROVE  [h EXCEPT !.at = a] \in Hand /\ [h EXCEPT !.at = a, !.seen = s] \in Hand
  BY DEF Hand

\* Every variable keeps its type, and only a head that exists is compared or deployed:
\* poll.ts:61.
THEOREM TypeCorrect == Spec => []TypeOK
<1>1. Init => TypeOK
  <2> SUFFICES ASSUME Init PROVE TypeOK
    OBVIOUS
  <2>1. Idle \in Hand /\ Idle.at = "idle"
    BY DEF Idle, Hand, At, Ref
  <2>2. hand \in [Workers -> Hand] /\ \A w \in Workers : hand[w].at = "idle"
    BY <2>1 DEF Init
  <2>3. head \in Ref
    BY AutoDeployConstants DEF Init, Ref, Commits, None
  <2>4. pushes \in 0..MaxPushes /\ faults \in 0..MaxFaults
    BY AutoDeployConstants DEF Init
  <2> QED
    BY <2>2, <2>3, <2>4 DEF Init, TypeOK, Ref
<1>2. TypeOK /\ [Next]_vars => TypeOK'
  <2> SUFFICES ASSUME TypeOK, [Next]_vars PROVE TypeOK'
    OBVIOUS
  <2>1. CASE World
    <3>1. CASE \E c \in Ref : Push(c)
      BY <3>1, AutoDeployConstants DEF TypeOK, Push, faultVars
    <3>2. CASE Webhook
      BY <3>2 DEF TypeOK, Webhook, faultVars
    <3>3. CASE Switch
      BY <3>3, AutoDeployConstants DEF TypeOK, Switch, faultVars
    <3>4. CASE IntervalOver
      BY <3>4 DEF TypeOK, IntervalOver, faultVars, remoteVars
    <3> QED
      BY <2>1, <3>1, <3>2, <3>3, <3>4 DEF World
  <2>2. ASSUME NEW w \in Workers, PollStep(w) \/ FilterFails(w) \/ PollEnds(w) PROVE TypeOK'
    <3>1. hand[w] \in Hand /\ Idle \in Hand
      BY DEF TypeOK, Idle, Hand, At, Ref
    <3>2. CASE Claim(w)
      BY <3>1, <3>2 DEF TypeOK, Claim, SetHand, remoteVars, faultVars, Hand, At, Ref
    <3>3. CASE Resolve(w)
      <4> DEFINE a == IF ShouldDeploy(head, hand[w].last) THEN "filter" ELSE "record"
      <4>1. a \in At /\ head \in Ref /\ (a \in {"filter", "enqueue"} => head # None)
        BY DEF At, TypeOK, ShouldDeploy
      <4>2. [hand[w] EXCEPT !.at = a, !.seen = head] \in Hand
        BY <3>1, <4>1, HandTypes
      <4>3. [hand[w] EXCEPT !.at = a, !.seen = head].at = a
            /\ [hand[w] EXCEPT !.at = a, !.seen = head].seen = head
        BY <3>1 DEF Hand
      <4>4. hand' = [hand EXCEPT ![w] = [hand[w] EXCEPT !.at = a, !.seen = head]]
        BY <3>3 DEF Resolve, SetHand
      <4> QED
        BY <3>3, <4>1, <4>2, <4>3, <4>4 DEF TypeOK, Resolve, remoteVars, faultVars
    <3>4. CASE Filter(w) \/ FilterFails(w)
      <4>1. hand[w].at = "filter" /\ hand[w].seen # None
        BY <3>4 DEF Filter, FilterFails, TypeOK
      <4>2. PICK a \in At : hand' = [hand EXCEPT ![w] = [hand[w] EXCEPT !.at = a]]
        BY <3>4 DEF Filter, FilterFails, SetHand, At
      <4>3. [hand[w] EXCEPT !.at = a] \in Hand /\ [hand[w] EXCEPT !.at = a].seen # None
        BY <3>1, <4>1, HandTypes DEF Hand
      <4>4. faults' \in 0..MaxFaults
        BY <3>4, AutoDeployConstants DEF Filter, FilterFails, faultVars, TypeOK
      <4>5. UNCHANGED <<head, enabled, due, hook, lastPolled, newest, pushes, interrupted>>
        BY <3>4 DEF Filter, FilterFails, remoteVars, faultVars
      <4> QED
        BY <4>2, <4>3, <4>4, <4>5 DEF TypeOK
    <3>5. CASE Enqueue(w)
      BY <3>1, <3>5 DEF TypeOK, Enqueue, SetHand, remoteVars, faultVars, Hand, At, Ref
    <3>6. CASE Record(w)
      BY <3>1, <3>6 DEF TypeOK, Record, Recorded, SetHand, remoteVars, faultVars, Hand, Idle, At, Ref
    <3>7. CASE PollEnds(w)
      <4>1. hand' \in [Workers -> Hand] /\ \A v \in Workers :
               hand'[v].at \in {"filter", "enqueue"} => hand'[v].seen # None
        BY <3>1, <3>7 DEF TypeOK, PollEnds, SetHand, Idle
      <4>2. interrupted' \in BOOLEAN /\ due' \in BOOLEAN
        BY <3>7, Zenon DEF PollEnds, TypeOK
      <4>3. faults' \in 0..MaxFaults
        BY <3>7, AutoDeployConstants DEF PollEnds, TypeOK
      <4> QED
        BY <3>7, <4>1, <4>2, <4>3 DEF TypeOK, PollEnds, remoteVars
    <3> QED
      BY <2>2, <3>2, <3>3, <3>4, <3>5, <3>6, <3>7 DEF PollStep
  <2>3. CASE UNCHANGED vars
    BY <2>3 DEF TypeOK, vars
  <2> QED
    BY <2>1, <2>2, <2>3 DEF Next
<1> QED
  BY <1>1, <1>2, PTL DEF Spec

-----------------------------------------------------------------------------
(* Diffs that list nothing watched *)

\* From every commit such diffs lead to itself, and on from where they lead.
LEMMA ReachesOn ==
    ASSUME NEW c \in Ref
    PROVE  /\ Reaches(c, c)
           /\ \A d \in Ref, e \in Commits : Reaches(c, d) /\ ~Touches(d, e) => Reaches(c, e)
<1>1. Reaches(c, c)
  BY DEF Reaches, Reach
<1>2. ASSUME NEW d \in Ref, NEW e \in Commits, Reaches(c, d), ~Touches(d, e)
      PROVE  Reaches(c, e)
  <2>1. <<d, e>> \in Skips /\ e \in Ref
    BY <1>2 DEF Touches, Skips, Ref
  <2>2. ASSUME NEW S \in SUBSET Ref, c \in S, Closed(S) PROVE e \in S
    <3>1. d \in S
      BY <1>2, <2>2 DEF Reaches, Reach
    <3> QED
      BY <2>1, <2>2, <3>1 DEF Closed
  <2> QED
    BY <2>1, <2>2 DEF Reaches, Reach
<1> QED
  BY <1>1, <1>2

\* A set that such diffs do not leave holds all that they lead to.
LEMMA ReachesWithin ==
    ASSUME NEW S \in SUBSET Ref, Closed(S), NEW c \in S, NEW d \in Ref, Reaches(c, d)
    PROVE  d \in S
  BY DEF Reaches, Reach

\* They never lead from a commit to none, nor anywhere if the whole repository is watched.
LEMMA ReachesCommits ==
    ASSUME NEW c \in Commits, NEW d \in Ref, Reaches(c, d)
    PROVE  d # None /\ (Watched = {} => d = c)
<1>1. d \in Commits
  <2>1. Closed(Commits) /\ Commits \in SUBSET Ref
    BY DEF Closed, Skips, Ref
  <2> QED
    BY <2>1, ReachesWithin
<1>2. ASSUME Watched = {} PROVE d = c
  <2>1. Closed({c}) /\ {c} \in SUBSET Ref
    BY <1>2 DEF Closed, Skips, Ref
  <2> QED
    BY <2>1, ReachesWithin
<1> QED
  BY <1>1, <1>2 DEF Commits, None

\* What a diff lists is different.
LEMMA MatchesDiffer ==
    ASSUME NEW c \in Commits, NEW d \in Commits, Matches(c, d) # {}
    PROVE  ~SameTree(c, d)
<1>1. PICK p \in Watched : p \in Paths /\ FilesOf[c][p] # FilesOf[d][p]
  BY DEF Matches, Listed, Changed
<1>2. TreeOf(c)[p] # TreeOf(d)[p]
  BY <1>1 DEF TreeOf
<1> QED
  BY <1>1, <1>2 DEF SameTree

\* Every change under the watched paths is listed: no file moves out of them, and none of
\* their paths is printed in quotes.
DiffsComplete == \A c, d \in Commits : Matches(c, d) = {} => SameTree(c, d)

\* Then what such diffs lead to holds the same under the watched paths.
LEMMA ReachesSame ==
    ASSUME DiffsComplete, NEW c \in Ref, NEW d \in Ref, Reaches(c, d)
    PROVE  SameTree(c, d)
<1> DEFINE S == {x \in Ref : SameTree(c, x)}
<1>1. Closed(S)
  <2> SUFFICES ASSUME NEW x \in Commits, NEW y \in Commits, Watched # {},
                      Matches(x, y) = {}, SameTree(c, x)
               PROVE  SameTree(c, y) /\ y \in Ref
    BY DEF Closed, Skips
  <2>1. SameTree(x, y) /\ y # None /\ y \in Ref
    BY DEF DiffsComplete, Commits, None, Ref
  <2> QED
    BY <2>1 DEF SameTree
<1>2. c \in S /\ S \in SUBSET Ref
  BY DEF SameTree
<1>3. d \in S
  <2> HIDE DEF S
  <2> QED
    BY <1>1, <1>2, ReachesWithin
<1> QED
  BY <1>3

-----------------------------------------------------------------------------
(* Polls that do not overlap *)

\* No two workers poll the service at once.
PollsApart == \A v, w \in Workers : hand[v].at # "idle" /\ hand[w].at # "idle" => v = w

\* What a poll copied is what the row still says; diffs that list nothing watched lead from
\* the newest deployment to the record, or to what it will be once the poll has recorded its
\* head.
InStep ==
    /\ (\A w \in Workers : hand[w].at # "record") => Reaches(newest, lastPolled)
    /\ \A w \in Workers :
          /\ hand[w].at # "idle" => hand[w].last = lastPolled
          /\ hand[w].at = "record" => Reaches(newest, Recorded(hand[w]))
          /\ hand[w].at \in {"filter", "enqueue"} => hand[w].seen # hand[w].last
          /\ hand[w].at = "enqueue" => Touches(hand[w].last, hand[w].seen)

\* A poll's steps keep record and deployment in step while no other worker polls, also when
\* it ends early, unless its diff fails or it ends between its enqueue and its record.
LEMMA InStepStep ==
    ASSUME TypeOK, PollsApart, InStep, [Next]_vars,
           ~interrupted', \A w \in Workers : ~FilterFails(w)
    PROVE  InStep'
<1>1. hand \in [Workers -> Hand] /\ DOMAIN hand = Workers
  BY DEF TypeOK
<1>2. CASE World
  BY <1>2 DEF InStep, World, Push, Webhook, Switch, IntervalOver, faultVars, remoteVars,
              Recorded
<1>3. ASSUME NEW w \in Workers, PollEnds(w) PROVE InStep'
  <2>1. hand[w].at # "record"
    BY <1>3 DEF PollEnds
  <2>2. \A v \in Workers \ {w} : hand'[v] = hand[v]
    BY <1>1, <1>3 DEF PollEnds, SetHand
  <2>3. hand'[w].at = "idle" /\ lastPolled' = lastPolled /\ newest' = newest
    BY <1>1, <1>3 DEF PollEnds, SetHand, Idle
  <2> QED
    BY <2>1, <2>2, <2>3 DEF InStep, Recorded
<1>4. ASSUME NEW w \in Workers, PollStep(w) PROVE InStep'
  <2> USE <1>1
  <2>t. hand[w] \in Hand
    BY <1>1
  <2>o. \A v \in Workers \ {w} : hand'[v] = hand[v]
    BY <1>4, <1>1 DEF PollStep, Claim, Resolve, Filter, Enqueue, Record, SetHand
  <2>a. ASSUME hand[w].at # "idle" PROVE \A v \in Workers \ {w} : hand[v].at = "idle"
    BY <2>a DEF PollsApart
  <2>1. CASE Claim(w)
    <3>1. hand'[w].at = "resolve" /\ hand'[w].last = lastPolled
          /\ lastPolled' = lastPolled /\ newest' = newest /\ hand[w].at = "idle"
      BY <2>1 DEF Claim, SetHand
    <3> QED
      BY <3>1, <2>o DEF InStep, Recorded
  <2>2. CASE Resolve(w)
    <3>1. /\ hand'[w].at = IF ShouldDeploy(head, hand[w].last) THEN "filter" ELSE "record"
          /\ hand'[w].seen = head /\ hand'[w].last = hand[w].last
          /\ lastPolled' = lastPolled /\ newest' = newest /\ hand[w].at = "resolve"
      BY <2>2, <2>t DEF Resolve, SetHand, Hand
    <3>2. hand[w].last = lastPolled /\ Reaches(newest, lastPolled)
      BY <3>1, <2>a DEF InStep
    <3>3. hand'[w].at = "record" => Recorded(hand'[w]) = lastPolled
      BY <3>1, <3>2 DEF Recorded, ShouldDeploy
    <3> QED
      BY <3>1, <3>2, <3>3, <2>o, <2>a DEF InStep, ShouldDeploy
  <2>3. CASE Filter(w)
    <3>1. /\ hand'[w].at = IF Touches(hand[w].last, hand[w].seen) THEN "enqueue" ELSE "record"
          /\ hand'[w].seen = hand[w].seen /\ hand'[w].last = hand[w].last
          /\ lastPolled' = lastPolled /\ newest' = newest /\ hand[w].at = "filter"
      BY <2>3, <2>t DEF Filter, SetHand, Hand
    <3>2. hand[w].last = lastPolled /\ Reaches(newest, lastPolled) /\ hand[w].seen # None
      BY <3>1, <2>a DEF InStep, TypeOK
    <3>3. hand'[w].at = "record" => Reaches(newest, Recorded(hand'[w]))
      <4> SUFFICES ASSUME hand'[w].at = "record" PROVE Reaches(newest, hand[w].seen)
        BY <3>1, <3>2 DEF Recorded
      <4>1. ~Touches(lastPolled, hand[w].seen)
        BY <3>1, <3>2
      <4>2. hand[w].seen \in Commits /\ newest \in Ref /\ lastPolled \in Ref
        BY <2>t, <3>2 DEF Hand, Ref, TypeOK
      <4> QED
        BY <3>2, <4>1, <4>2, ReachesOn
    <3> QED
      BY <3>1, <3>2, <3>3, <2>o, <2>a DEF InStep
  <2>4. CASE Enqueue(w)
    <3>1. /\ hand'[w].at = "record" /\ hand'[w].seen = hand[w].seen
          /\ hand'[w].last = hand[w].last
          /\ lastPolled' = lastPolled /\ newest' = hand[w].seen /\ hand[w].at = "enqueue"
      BY <2>4, <2>t DEF Enqueue, SetHand, Hand
    <3>2. Recorded(hand'[w]) = newest' /\ Reaches(newest', newest')
      <4>1. newest' \in Ref /\ hand[w].seen # None
        BY <2>t, <3>1 DEF TypeOK, Hand
      <4> QED
        BY <3>1, <4>1, ReachesOn DEF Recorded
    <3> QED
      BY <3>1, <3>2, <2>o, <2>a DEF InStep
  <2>5. CASE Record(w)
    <3>1. /\ hand'[w].at = "idle" /\ newest' = newest /\ hand[w].at = "record"
          /\ lastPolled' = Recorded(hand[w])
      BY <2>5 DEF Record, SetHand, Idle
    <3> QED
      BY <3>1, <2>o, <2>a DEF InStep
  <2> QED
    BY <1>4, <2>1, <2>2, <2>3, <2>4, <2>5 DEF PollStep
<1>5. CASE UNCHANGED vars
  BY <1>5 DEF InStep, vars, Recorded
<1> QED
  BY <1>2, <1>3, <1>4, <1>5 DEF Next

LEMMA InStepInit == Init => InStep
  BY ReachesOn DEF Init, InStep, Idle, Ref

\* While nothing has failed, nothing is interrupted.
Undisturbed == faults = 0 => InStep /\ ~interrupted

LEMMA UndisturbedStep ==
    ASSUME TypeOK, PollsApart, Undisturbed, [Next]_vars
    PROVE  Undisturbed'
<1>1. SUFFICES ASSUME faults' = 0 PROVE InStep' /\ ~interrupted'
  BY DEF Undisturbed
<1>2. faults \in Nat
  BY AutoDeployConstants DEF TypeOK
<1>3. ASSUME NEW w \in Workers PROVE ~FilterFails(w) /\ ~PollEnds(w)
  <2>1. faults' # faults + 1
    BY <1>1, <1>2
  <2> QED
    BY <2>1 DEF FilterFails, PollEnds
<1>4. faults' = faults /\ interrupted' = interrupted
  BY <1>3 DEF Next, World, Push, Webhook, Switch, IntervalOver, PollStep, Claim, Resolve, Filter,
     Enqueue, Record, faultVars, vars
<1>5. InStep /\ ~interrupted
  BY <1>1, <1>4 DEF Undisturbed
<1> QED
  BY <1>3, <1>4, <1>5, InStepStep

LEMMA UndisturbedHolds == Spec /\ []PollsApart => []Undisturbed
<1>1. Init => Undisturbed
  BY InStepInit DEF Init, Undisturbed
<1>2. TypeOK /\ PollsApart /\ Undisturbed /\ [Next]_vars => Undisturbed'
  BY UndisturbedStep
<1> QED
  BY <1>1, <1>2, TypeCorrect, PTL DEF Spec

\* While polls do not overlap, the record follows the newest deployment by diffs only that
\* list nothing watched.
THEOREM RecordInStep == Spec /\ []PollsApart => []RecordMatchesDeployment
<1>1. Undisturbed => RecordMatchesDeployment
  BY DEF Undisturbed, InStep, RecordMatchesDeployment
<1> QED
  BY <1>1, UndisturbedHolds, PTL

\* A poll that enqueues while the record is in step deploys another commit, or takes back a
\* change that the diffs did not list.
LEMMA EnqueueNews ==
    ASSUME TypeOK, PollsApart, InStep, [Next]_vars, NEW v \in Workers,
           hand[v].at = "enqueue", hand'[v].at = "record"
    PROVE  newest' # newest \/ Hidden(newest, lastPolled)
<1>1. hand[v] \in Hand /\ DOMAIN hand = Workers
  BY DEF TypeOK
<1>2. ~World /\ ~UNCHANGED vars
  BY DEF World, Push, Webhook, Switch, IntervalOver, vars
<1>3. PICK w \in Workers : PollStep(w) \/ FilterFails(w) \/ PollEnds(w)
  BY <1>2 DEF Next
<1>4. \A u \in Workers \ {w} : hand'[u] = hand[u]
  BY <1>1, <1>3 DEF PollStep, Claim, Resolve, Filter, Enqueue, Record, FilterFails, PollEnds,
                    SetHand
<1>5. w = v
  BY <1>4
<1>6. ~Claim(v) /\ ~Resolve(v) /\ ~Filter(v) /\ ~Record(v)
  BY DEF Claim, Resolve, Filter, Record
<1>7. ~FilterFails(v)
  <2> SUFFICES ASSUME hand[v].at = "filter" PROVE FALSE
    BY DEF FilterFails
  <2> QED
    OBVIOUS
<1>8. ~PollEnds(v)
  <2> SUFFICES ASSUME hand' = [hand EXCEPT ![v] = Idle] PROVE FALSE
    BY DEF PollEnds, SetHand
  <2> QED
    BY <1>1 DEF Idle
<1>9. newest' = hand[v].seen /\ hand[v].seen # None
  BY <1>3, <1>5, <1>6, <1>7, <1>8 DEF PollStep, Enqueue, TypeOK
<1>10. hand[v].last = lastPolled /\ hand[v].seen # lastPolled
       /\ Touches(lastPolled, hand[v].seen)
  BY DEF InStep
<1>11. \A u \in Workers : hand[u].at # "record"
  BY DEF PollsApart
<1>12. Reaches(newest, lastPolled)
  BY <1>11 DEF InStep
<1>13. ASSUME newest' = newest PROVE ~SameTree(newest, lastPolled)
  <2>1. newest \in Commits /\ newest # lastPolled /\ lastPolled \in Ref
    BY <1>9, <1>10, <1>13 DEF TypeOK, Ref
  <2>2. lastPolled \in Commits /\ Watched # {}
    BY <1>12, <2>1, ReachesCommits DEF Ref
  <2>3. Matches(lastPolled, newest) # {}
    BY <1>9, <1>10, <1>13, <2>2 DEF Touches, Commits, None
  <2>4. ~SameTree(lastPolled, newest)
    BY <2>1, <2>2, <2>3, MatchesDiffer
  <2> QED
    BY <2>4 DEF SameTree
<1> QED
  BY <1>12, <1>13 DEF Hidden

\* While polls do not overlap, no commit is deployed twice in a row, however often
\* webhooks wake the service, unless diffs have hidden a change that is taken back.
THEOREM PollOnce == Spec /\ []PollsApart => NoRetrigger
<1>1. TypeOK /\ PollsApart /\ Undisturbed /\ [Next]_vars
      => [\A v \in Workers :
            hand[v].at = "enqueue" /\ hand'[v].at = "record" /\ faults = 0
            => newest' # newest \/ Hidden(newest, lastPolled)]_vars
  BY EnqueueNews DEF Undisturbed
<1> QED
  BY <1>1, UndisturbedHolds, TypeCorrect, PTL DEF Spec, NoRetrigger

\* Every deployment is of another commit than the last, or takes back what diffs have hidden.
DeploysNews ==
    [][\A v \in Workers :
        hand[v].at = "enqueue" /\ hand'[v].at = "record"
        => newest' # newest \/ Hidden(newest, lastPolled)]_vars

\* The record stays in step with the newest deployment through failures too: besides diffs that
\* list nothing of a change, only a diff that fails, which counts as a change, or a poll that
\* ended between its enqueue and its record (poll.ts:62) parts them and has a commit repeated.
THEOREM PollOnceThroughFailures ==
    Spec /\ []PollsApart /\ []~interrupted /\ [][\A w \in Workers : ~FilterFails(w)]_vars
    => /\ []((\A w \in Workers : hand[w].at = "idle") => Reaches(newest, lastPolled))
       /\ DeploysNews
<1>1. TypeOK /\ PollsApart /\ InStep /\ [Next]_vars /\ ~interrupted'
      /\ [\A w \in Workers : ~FilterFails(w)]_vars => InStep'
  <2>1. ASSUME UNCHANGED vars, NEW w \in Workers PROVE ~FilterFails(w)
    <3> SUFFICES ASSUME faults' = faults + 1 PROVE FALSE
      BY DEF FilterFails
    <3> QED
      BY <2>1 DEF vars
  <2> QED
    BY <2>1, InStepStep
<1>2. TypeOK /\ PollsApart /\ InStep /\ [Next]_vars
      => [\A v \in Workers :
            hand[v].at = "enqueue" /\ hand'[v].at = "record"
            => newest' # newest \/ Hidden(newest, lastPolled)]_vars
  BY EnqueueNews
<1>3. InStep => ((\A w \in Workers : hand[w].at = "idle") => Reaches(newest, lastPolled))
  BY DEF InStep
<1> QED
  BY <1>1, <1>2, <1>3, InStepInit, TypeCorrect, PTL DEF Spec, DeploysNews

\* Where every change under the watched paths is listed, the record and the newest deployment
\* hold the same, and no commit is deployed twice in a row: a file that moves out of a watched
\* path, and a path in quotes, are all that stands between the code and the promise of
\* git-installations.service.ts:208 while polls do not overlap and do not fail.
THEOREM CompleteDiffsDeployOnce ==
    ASSUME DiffsComplete
    PROVE  Spec /\ []PollsApart
           => /\ []((\A w \in Workers : hand[w].at = "idle") /\ faults = 0
                    => SameTree(newest, lastPolled))
              /\ [][\A v \in Workers :
                     hand[v].at = "enqueue" /\ hand'[v].at = "record" /\ faults = 0
                     => newest' # newest]_vars
<1>1. ASSUME TypeOK PROVE Reaches(newest, lastPolled) => SameTree(newest, lastPolled)
  BY <1>1, ReachesSame DEF TypeOK
<1>2. TypeOK /\ Undisturbed
      => ((\A w \in Workers : hand[w].at = "idle") /\ faults = 0 => SameTree(newest, lastPolled))
  BY <1>1 DEF Undisturbed, InStep
<1>3. TypeOK /\ PollsApart /\ Undisturbed /\ [Next]_vars
      => [\A v \in Workers :
            hand[v].at = "enqueue" /\ hand'[v].at = "record" /\ faults = 0
            => newest' # newest]_vars
  BY <1>1, EnqueueNews DEF Undisturbed, Hidden
<1> QED
  BY <1>2, <1>3, UndisturbedHolds, TypeCorrect, PTL DEF Spec

-----------------------------------------------------------------------------
(* What keeps polls apart *)

\* While a poll runs, its claim has put the next one off.
LeaseInv == PollsApart /\ (due => \A w \in Workers : hand[w].at = "idle")

\* Nobody makes the service due while it is polled: no late webhook, no user.
NotWoken == [][due' => due \/ \A w \in Workers : hand[w].at = "idle"]_vars

\* The lease of a claim is enough to keep polls apart unless a webhook or a user breaks
\* it: the only ways to break it are the two writes of next_poll_at outside the poll.
THEOREM LeaseKeepsPollsApart == Spec /\ NotWoken => []PollsApart
<1>1. Init => LeaseInv
  BY DEF Init, LeaseInv, PollsApart, Idle
<1>2. ASSUME TypeOK, LeaseInv, [Next]_vars,
             [due' => due \/ \A w \in Workers : hand[w].at = "idle"]_vars
      PROVE  LeaseInv'
  <2>1. DOMAIN hand = Workers
    BY <1>2 DEF TypeOK
  <2>2. CASE UNCHANGED vars
    BY <1>2, <2>2 DEF LeaseInv, PollsApart, vars
  <2>3. CASE World
    <3>1. hand' = hand
      BY <2>3 DEF World, Push, Webhook, Switch, IntervalOver
    <3>2. due' => \A w \in Workers : hand[w].at = "idle"
      BY <1>2, <3>1 DEF LeaseInv, vars
    <3> QED
      BY <1>2, <3>1, <3>2 DEF LeaseInv, PollsApart
  <2>4. ASSUME NEW w \in Workers, Claim(w) PROVE LeaseInv'
    <3>1. /\ hand' = [hand EXCEPT ![w] = [at |-> "resolve", last |-> lastPolled, seen |-> None]]
          /\ ~due' /\ due
      BY <2>4 DEF Claim, SetHand
    <3>2. \A v \in Workers : hand[v].at = "idle"
      BY <1>2, <3>1 DEF LeaseInv
    <3> QED
      BY <2>1, <3>1, <3>2 DEF LeaseInv, PollsApart
  <2>5. ASSUME NEW w \in Workers,
               Resolve(w) \/ Filter(w) \/ Enqueue(w) \/ Record(w) \/ FilterFails(w) \/ PollEnds(w)
        PROVE  LeaseInv'
    <3>1. hand[w].at # "idle"
      BY <2>5 DEF Resolve, Filter, Enqueue, Record, FilterFails, PollEnds
    <3>2. \A v \in Workers \ {w} : hand'[v] = hand[v]
      BY <2>1, <2>5 DEF Resolve, Filter, Enqueue, Record, FilterFails, PollEnds, SetHand
    <3>3. ~due /\ \A v \in Workers \ {w} : hand[v].at = "idle"
      BY <1>2, <3>1 DEF LeaseInv, PollsApart
    <3>4. ~due'
      <4>1. CASE PollEnds(w)
        BY <3>3, <4>1 DEF PollEnds
      <4>2. CASE ~PollEnds(w)
        BY <2>5, <3>3, <4>2 DEF Resolve, Filter, Enqueue, Record, FilterFails
      <4> QED
        BY <4>1, <4>2
    <3> QED
      BY <3>2, <3>3, <3>4 DEF LeaseInv, PollsApart
  <2> QED
    BY <1>2, <2>2, <2>3, <2>4, <2>5 DEF Next, PollStep
<1>3. LeaseInv => PollsApart
  BY DEF LeaseInv
<1>4. TypeOK /\ LeaseInv /\ [Next]_vars
      /\ [due' => due \/ \A w \in Workers : hand[w].at = "idle"]_vars => LeaseInv'
  BY <1>2
<1> QED
  BY <1>1, <1>3, <1>4, TypeCorrect, PTL DEF Spec, NotWoken

\* A lone worker's polls never overlap.
LEMMA LonePollsApart ==
    ASSUME NEW w \in Workers, Workers = {w}
    PROVE  Spec => []PollsApart
<1>1. PollsApart
  BY DEF PollsApart
<1> QED
  BY <1>1, PTL

\* A lone worker deploys no commit twice in a row, unless diffs have hidden a change that is
\* taken back.
COROLLARY LonePollerOnce ==
    ASSUME NEW w \in Workers, Workers = {w}
    PROVE  Spec => NoRetrigger
<1>1. Spec => []PollsApart
  BY LonePollsApart
<1> QED
  BY <1>1, PollOnce, PTL

=============================================================================
