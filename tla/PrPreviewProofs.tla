-------------------------- MODULE PrPreviewProofs --------------------------
(* Proofs about PrPreview, for any environments, pull requests, cap and histories. *)
EXTENDS PrPreview, FiniteSetTheorems, TLAPS

(* A sweep step changes one hand, to a hand. *)

LEMMA IdleIsHand == Idle \in Hand
  BY DEF Idle, Hand, At

LEMMA NextRepoIsHand ==
    ASSUME NEW h \in Hand
    PROVE  NextRepo(h) \in Hand
  BY DEF NextRepo, Hand, At

LEMMA ClonedIsHand ==
    ASSUME NEW h \in Hand, NEW p
    PROVE  Cloned(h, p) \in Hand
  BY DEF Cloned, Hand, At

LEMMA SkipIsHand ==
    ASSUME NEW h \in Hand, NEW r
    PROVE  SkipRepo(h, r) \in Hand
  BY DEF SkipRepo, Hand, At

\* What a step of a sweep, or one of its failures, makes of its hand.
LEMMA StepHand ==
    ASSUME TypeOK, NEW t \in Threads, SweepStep(t) \/ Failure(t)
    PROVE  \E h \in Hand :
              /\ SetHand(t, h)
              /\ h.at = "clone" => h.missing # {}
<1> DEFINE Good(h) == h \in Hand /\ SetHand(t, h) /\ (h.at = "clone" => h.missing # {})
<1>1. hand[t] \in Hand
  BY DEF TypeOK
<1>2. CASE List(t)
  <2>1. PICK r \in hand[t].todo :
          SetHand(t, [hand[t] EXCEPT !.at = "diff", !.todo = @ \ {r}, !.repo = {r},
                                     !.found = OpenIn(r)])
    BY <1>2 DEF List
  <2>2. r \in Repos /\ OpenIn(r) \subseteq Prs
    BY <1>1 DEF Hand, OpenIn, TypeOK
  <2>3. Good([hand[t] EXCEPT !.at = "diff", !.todo = @ \ {r}, !.repo = {r}, !.found = OpenIn(r)])
    BY <1>1, <2>1, <2>2 DEF Hand, At
  <2> QED
    BY <2>3
<1>3. CASE Diff(t)
  <2> DEFINE e == Existing(t[2], hand[t].repo)
             f == hand[t].found
  <2>1. e \subseteq Preview /\ f \subseteq Prs
    BY <1>1 DEF Existing, TypeOK, Hand
  <2>2. ToTeardown(f, e) \subseteq Ids /\ ToCreate(f, e) \subseteq Prs
    BY <2>1 DEF ToTeardown, ToCreate, Preview
  <2>3. SetHand(t, [hand[t] EXCEPT !.at = "apply", !.found = {}, !.gone = ToTeardown(f, e),
                                   !.missing = ToCreate(f, e)])
    BY <1>3 DEF Diff
  <2>4. Good([hand[t] EXCEPT !.at = "apply", !.found = {}, !.gone = ToTeardown(f, e),
                             !.missing = ToCreate(f, e)])
    <3> HIDE DEF e, f
    <3> QED
      BY <1>1, <2>2, <2>3 DEF Hand, At
  <2> QED
    BY <2>4
<1>4. CASE Teardown(t) \/ TeardownFails(t)
  <2>1. PICK i \in Ids : hand[t].at = "apply" /\ SetHand(t, [hand[t] EXCEPT !.gone = @ \ {i}])
    BY <1>4, <1>1 DEF Teardown, TeardownFails, Hand
  <2>2. Good([hand[t] EXCEPT !.gone = @ \ {i}])
    BY <1>1, <2>1 DEF Hand
  <2> QED
    BY <2>2
<1>5. CASE Count(t)
  <2>1. CASE hand[t].missing = {} \/ AtCap
    <3>1. SetHand(t, NextRepo(hand[t])) /\ NextRepo(hand[t]).at = "list"
      BY <1>5, <1>1, <2>1 DEF Count, NextRepo, Hand
    <3> QED
      BY <3>1, <1>1, NextRepoIsHand
  <2>2. CASE ~(hand[t].missing = {} \/ AtCap)
    <3>1. Good([hand[t] EXCEPT !.at = "clone"])
      BY <1>5, <1>1, <2>2 DEF Count, Hand, At
    <3> QED
      BY <3>1
  <2> QED
    BY <2>1, <2>2
<1>6. CASE Clone(t) \/ CloneFails(t)
  <2>1. PICK p \in hand[t].missing : SetHand(t, Cloned(hand[t], p))
    BY <1>6 DEF Clone, CloneFails
  <2>2. Cloned(hand[t], p).at = "apply"
    BY <1>1 DEF Cloned, Hand
  <2> QED
    BY <2>1, <2>2, <1>1, ClonedIsHand
<1>7. CASE Done(t)
  <2>1. SetHand(t, Idle) /\ Idle.at = "idle"
    BY <1>7 DEF Done, Idle
  <2> QED
    BY <2>1, IdleIsHand
<1>8. CASE ListFails(t)
  <2>1. PICK r \in hand[t].todo : hand[t].at = "list" /\ SetHand(t, SkipRepo(hand[t], r))
    BY <1>8 DEF ListFails
  <2>2. SkipRepo(hand[t], r).at = "list"
    BY <1>1, <2>1 DEF SkipRepo, Hand
  <2> QED
    BY <2>1, <2>2, <1>1, SkipIsHand
<1> QED
  BY <1>2, <1>3, <1>4, <1>5, <1>6, <1>7, <1>8 DEF SweepStep, Failure

-----------------------------------------------------------------------------
(* Types *)

LEMMA TypeInit == Init => TypeOK
<1> SUFFICES ASSUME Init PROVE TypeOK
  OBVIOUS
<1>1. hand \in [Threads -> Hand]
  BY IdleIsHand DEF Init
<1>2. \A t \in Threads : hand[t].at # "clone"
  BY DEF Init, Idle
<1>3. previews \subseteq Preview /\ changes \in 0..MaxChanges /\ faults \in 0..MaxFaults
  BY PrPreviewConstants DEF Init
<1> QED
  BY <1>1, <1>2, <1>3 DEF Init, TypeOK

\* The users' steps and the clock's.
LEMMA TypeWorld ==
    ASSUME TypeOK, User \/ \E e \in Envs : IntervalOver(e)
    PROVE  TypeOK'
<1>0. Change => changes' \in 0..MaxChanges /\ due' \in [Envs -> BOOLEAN] /\ faults' \in 0..MaxFaults
                /\ hand' = hand
  BY PrPreviewConstants DEF Change, TypeOK
<1>1. ASSUME NEW p \in Prs, OpenPr(p) \/ ClosePr(p)
      PROVE  TypeOK'
  BY <1>0, <1>1 DEF OpenPr, ClosePr, TypeOK
<1>2. ASSUME NEW p \in previews, DeletePreview(p)
      PROVE  TypeOK'
  BY <1>0, <1>2 DEF DeletePreview, TypeOK
<1>3. ASSUME NEW e \in Envs, TogglePreviews(e)
      PROVE  TypeOK'
  <2>1. enabled' \in [Envs -> BOOLEAN]
    BY <1>3, Zenon DEF TogglePreviews, TypeOK
  <2> QED
    BY <1>0, <1>3, <2>1 DEF TogglePreviews, TypeOK
<1>4. ASSUME NEW e \in Envs, DeleteBase(e)
      PROVE  TypeOK'
  BY <1>0, <1>4 DEF DeleteBase, TypeOK
<1>5. ASSUME NEW e \in Envs, IntervalOver(e)
      PROVE  TypeOK'
  BY <1>5 DEF IntervalOver, userVars, TypeOK
<1> QED
  BY <1>1, <1>2, <1>3, <1>4, <1>5 DEF User

\* What a worker does with all its sweeps at once.
LEMMA TypeWorker ==
    ASSUME TypeOK, NEW w \in Workers, Claim(w) \/ WorkerDies(w)
    PROVE  TypeOK'
<1>1. CASE Claim(w)
  <2> DEFINE c == {e \in bases : enabled[e] /\ due[e]}
             Start(t) == [Idle EXCEPT !.at = "list", !.todo = ReposOf[t[2]]]
  <2>1. \A t \in Threads : Start(t) \in Hand /\ Start(t).at = "list"
    BY PrPreviewConstants DEF Idle, Hand, At, Threads
  <2>2. hand' = [t \in Threads |-> IF t[1] = w /\ t[2] \in c THEN Start(t) ELSE hand[t]]
    BY <1>1 DEF Claim
  <2>3. hand' \in [Threads -> Hand] /\ \A t \in Threads : hand'[t].at = "clone" => hand'[t].missing # {}
    <3> HIDE DEF Start, c
    <3>1. \A t \in Threads : hand'[t] = Start(t) \/ hand'[t] = hand[t]
      BY <2>2
    <3>2. hand' \in [Threads -> Hand]
      BY <2>1, <2>2 DEF TypeOK
    <3> QED
      BY <2>1, <3>1, <3>2 DEF TypeOK
  <2>4. due' \in [Envs -> BOOLEAN]
    <3>1. due' = [e \in Envs |-> due[e] /\ e \notin c]
      BY <1>1 DEF Claim
    <3> QED
      BY <3>1, Zenon
  <2> QED
    BY <1>1, <2>3, <2>4 DEF Claim, userVars, TypeOK
<1>2. CASE WorkerDies(w)
  <2>1. hand' = [t \in Threads |-> IF t[1] = w THEN Idle ELSE hand[t]]
    BY <1>2 DEF WorkerDies
  <2>2. hand' \in [Threads -> Hand] /\ \A t \in Threads : hand'[t] = Idle \/ hand'[t] = hand[t]
    BY <2>1, IdleIsHand DEF TypeOK
  <2>3. \A t \in Threads : hand'[t].at = "clone" => hand'[t].missing # {}
    BY <2>2 DEF TypeOK, Idle
  <2> QED
    BY <1>2, <2>2, <2>3, PrPreviewConstants DEF WorkerDies, Fault, userVars, TypeOK
<1> QED
  BY <1>1, <1>2

LEMMA TypeSweep ==
    ASSUME TypeOK, NEW t \in Threads, SweepStep(t) \/ Failure(t)
    PROVE  TypeOK'
<1>1. PICK h \in Hand : SetHand(t, h) /\ (h.at = "clone" => h.missing # {})
  BY StepHand
<1>2. hand' \in [Threads -> Hand] /\ \A u \in Threads : hand'[u].at = "clone" => hand'[u].missing # {}
  BY <1>1 DEF SetHand, TypeOK
<1>3. previews' \subseteq Preview
  <2>1. CASE Clone(t)
    <3>1. hand[t].missing \subseteq Prs /\ t[2] \in Envs
      BY DEF TypeOK, Hand, Threads
    <3> QED
      BY <2>1, <3>1 DEF Clone, TypeOK, Preview
  <2>2. CASE ~Clone(t)
    BY <2>2 DEF SweepStep, Failure, List, Diff, Teardown, Count, Done, ListFails, TeardownFails,
                CloneFails, TypeOK
  <2> QED
    BY <2>1, <2>2
<1>4. due' \in [Envs -> BOOLEAN]
  <2>1. CASE Done(t)
    BY <2>1, Zenon DEF Done, TypeOK
  <2>2. CASE ~Done(t)
    BY <2>2 DEF SweepStep, Failure, List, Diff, Teardown, Count, Clone, ListFails, TeardownFails,
                CloneFails, TypeOK
  <2> QED
    BY <2>1, <2>2
<1>5. faults' \in 0..MaxFaults
  <2>1. faults' = faults \/ Fault
    BY DEF SweepStep, Failure, List, Diff, Teardown, Count, Clone, Done, ListFails, TeardownFails,
           CloneFails
  <2> QED
    BY <2>1, PrPreviewConstants DEF Fault, TypeOK
<1>6. UNCHANGED userVars
  BY DEF SweepStep, Failure, List, Diff, Teardown, Count, Clone, Done, ListFails, TeardownFails,
         CloneFails
<1> QED
  BY <1>2, <1>3, <1>4, <1>5, <1>6 DEF userVars, TypeOK

LEMMA TypeStep ==
    ASSUME TypeOK, [Next]_vars
    PROVE  TypeOK'
<1>1. CASE UNCHANGED vars
  BY <1>1 DEF vars, TypeOK
<1> QED
  BY <1>1, TypeWorld, TypeWorker, TypeSweep DEF Next

\* The variables keep their types, and a clone that was counted has a pull request.
THEOREM TypeCorrect == Spec => []TypeOK
  BY TypeInit, TypeStep, PTL DEF Spec

-----------------------------------------------------------------------------
(* The cap *)

\* The sweeps that have counted and not yet cloned
Counted == {t \in Threads : hand[t].at = "clone"}

\* At most K sweeps are between their count and their clone.
AtOnce(K) == Cardinality(Counted) <= K

\* Then each of them has a place beyond the cap but one, which it had counted below it.
Within(K) ==
    /\ IsFiniteSet(previews)
    /\ Cardinality(previews) + Cardinality(Counted) <= Cap + K - 1

LEMMA ThreadsFinite ==
    /\ IsFiniteSet(Threads)
    /\ Cardinality(Threads) \in Nat
    /\ Cardinality(Threads) >= 1
<1>1. IsFiniteSet(Threads)
  BY PrPreviewConstants, FS_Product DEF Threads
<1>2. Cardinality(Threads) \in Nat
  BY <1>1, FS_CardinalityType
<1>3. Threads # {}
  <2>1. PICK w \in Workers, e \in Envs : TRUE
    BY PrPreviewConstants
  <2>2. <<w, e>> \in Threads
    BY DEF Threads
  <2> QED
    BY <2>2
<1>4. Cardinality(Threads) # 0
  BY <1>1, <1>3, FS_EmptySet
<1> QED
  BY <1>1, <1>2, <1>4

LEMMA CountedFinite ==
    /\ IsFiniteSet(Counted) /\ Cardinality(Counted) \in Nat
    /\ IsFiniteSet(Counted') /\ Cardinality(Counted') \in Nat
<1>1. Counted \in SUBSET Threads /\ Counted' \in SUBSET Threads
  BY DEF Counted
<1>2. IsFiniteSet(Counted) /\ IsFiniteSet(Counted')
  BY <1>1, ThreadsFinite, FS_Subset
<1> QED
  BY <1>2, FS_CardinalityType

\* What neither clones nor counts takes no place.
LEMMA WithinShrinks ==
    ASSUME NEW K \in Nat \ {0}, Within(K), previews' \subseteq previews, Counted' \subseteq Counted
    PROVE  Within(K)'
<1>1. IsFiniteSet(previews') /\ Cardinality(previews') <= Cardinality(previews)
  BY FS_Subset DEF Within
<1>2. Cardinality(Counted') <= Cardinality(Counted)
  BY CountedFinite, FS_Subset
<1>3. Cardinality(previews') \in Nat /\ Cardinality(previews) \in Nat
  BY <1>1, FS_CardinalityType DEF Within
<1> QED
  BY <1>1, <1>2, <1>3, CountedFinite, ThreadsFinite, PrPreviewConstants DEF Within

\* A sweep that counts below the cap: all of them together hold a place each.
LEMMA WithinCount ==
    ASSUME NEW K \in Nat \ {0}, AtOnce(K)', TypeOK, Within(K), NEW t \in Threads, Count(t)
    PROVE  Within(K)'
<1>1. CASE hand[t].missing = {} \/ AtCap
  <2>1. hand' = [hand EXCEPT ![t] = NextRepo(hand[t])] /\ previews' = previews
    BY <1>1 DEF Count, SetHand
  <2>2. NextRepo(hand[t]).at = "list"
    BY DEF NextRepo, TypeOK, Hand
  <2>3. Counted' \subseteq Counted
    BY <2>1, <2>2 DEF Counted, TypeOK
  <2> QED
    BY <2>1, <2>3, WithinShrinks
<1>2. CASE ~AtCap
  <2>1. previews' = previews
    BY DEF Count
  <2>2. Cardinality(previews) \in Nat
    BY FS_CardinalityType DEF Within
  <2>3. Cardinality(previews) <= Cap - 1
    BY <1>2, <2>2, PrPreviewConstants DEF AtCap
  <2>4. Cardinality(Counted') <= K
    BY DEF AtOnce
  <2> QED
    BY <2>1, <2>2, <2>3, <2>4, CountedFinite, ThreadsFinite, PrPreviewConstants DEF Within
<1> QED
  BY <1>1, <1>2

\* A clone takes the place of the sweep that counted.
LEMMA WithinClone ==
    ASSUME NEW K \in Nat \ {0}, TypeOK, Within(K), NEW t \in Threads, Clone(t)
    PROVE  Within(K)'
<1>1. PICK p \in hand[t].missing : hand' = [hand EXCEPT ![t] = Cloned(hand[t], p)]
  BY DEF Clone, SetHand
<1>2. t \in Counted
  BY DEF Clone, Counted
<1>3. Counted' \subseteq Counted \ {t}
  <2>1. Cloned(hand[t], p).at = "apply"
    BY DEF Cloned, TypeOK, Hand
  <2> QED
    BY <1>1, <2>1 DEF Counted, TypeOK
<1>4. Cardinality(Counted') <= Cardinality(Counted) - 1
  <2>1. IsFiniteSet(Counted \ {t}) /\ Cardinality(Counted \ {t}) = Cardinality(Counted) - 1
    BY <1>2, CountedFinite, FS_RemoveElement
  <2>2. Counted' \in SUBSET (Counted \ {t})
    BY <1>3
  <2> HIDE DEF Counted
  <2> QED
    BY <2>1, <2>2, FS_Subset
<1>5. IsFiniteSet(previews') /\ Cardinality(previews') <= Cardinality(previews) + 1
      /\ Cardinality(previews) \in Nat /\ Cardinality(previews') \in Nat
  <2>1. previews' = previews \/ \E q : previews' = previews \cup {q}
    BY DEF Clone
  <2>2. IsFiniteSet(previews) /\ Cardinality(previews) \in Nat
    BY FS_CardinalityType DEF Within
  <2>3. \A q : IsFiniteSet(previews \cup {q}) /\ Cardinality(previews \cup {q}) <= Cardinality(previews) + 1
    <3> SUFFICES ASSUME NEW q
                 PROVE  /\ IsFiniteSet(previews \cup {q})
                        /\ Cardinality(previews \cup {q}) <= Cardinality(previews) + 1
      OBVIOUS
    <3>1. /\ IsFiniteSet(previews \cup {q})
          /\ Cardinality(previews \cup {q})
               = IF q \in previews THEN Cardinality(previews) ELSE Cardinality(previews) + 1
      BY <2>2, FS_AddElement
    <3> QED
      BY <2>2, <3>1
  <2>4. IsFiniteSet(previews') /\ Cardinality(previews') <= Cardinality(previews) + 1
    BY <2>1, <2>2, <2>3
  <2> QED
    BY <2>2, <2>4, FS_CardinalityType
<1> QED
  BY <1>4, <1>5, CountedFinite, ThreadsFinite, PrPreviewConstants DEF Within

LEMMA WithinStep ==
    ASSUME NEW K \in Nat \ {0}, AtOnce(K)', TypeOK, Within(K), [Next]_vars
    PROVE  Within(K)'
<1>1. CASE UNCHANGED vars
  BY <1>1, WithinShrinks DEF vars, Counted
<1>2. CASE User \/ \E e \in Envs : IntervalOver(e)
  <2>1. hand' = hand /\ previews' \subseteq previews
    BY <1>2 DEF User, OpenPr, ClosePr, TogglePreviews, DeleteBase, DeletePreview, IntervalOver, Change
  <2> QED
    BY <2>1, WithinShrinks DEF Counted
<1>3. ASSUME NEW w \in Workers, Claim(w) \/ WorkerDies(w)
      PROVE  Within(K)'
  <2>1. \A t \in Threads : hand'[t] = hand[t] \/ hand'[t].at \in {"list", "idle"}
    <3> DEFINE Start(t) == [Idle EXCEPT !.at = "list", !.todo = ReposOf[t[2]]]
    <3>1. \A t \in Threads : Start(t).at = "list" /\ Idle.at = "idle"
      BY DEF Idle
    <3>2. CASE Claim(w)
      <4>1. hand' = [t \in Threads |-> IF t[1] = w /\ t[2] \in {e \in bases : enabled[e] /\ due[e]}
                                      THEN Start(t) ELSE hand[t]]
        BY <3>2 DEF Claim
      <4> HIDE DEF Start
      <4> QED
        BY <3>1, <4>1
    <3>3. CASE WorkerDies(w)
      BY <3>1, <3>3 DEF WorkerDies
    <3> QED
      BY <1>3, <3>2, <3>3
  <2>2. previews' = previews
    BY <1>3 DEF Claim, WorkerDies
  <2> QED
    BY <2>1, <2>2, WithinShrinks DEF Counted
<1>4. ASSUME NEW t \in Threads, SweepStep(t) \/ Failure(t), ~Count(t), ~Clone(t)
      PROVE  Within(K)'
  <2>1. PICK h \in Hand : SetHand(t, h)
    BY <1>4, StepHand
  <2>2. h.at # "clone"
    <3>1. h = hand'[t]
      BY <2>1 DEF SetHand, TypeOK
    <3>2. hand[t] \in Hand
      BY DEF TypeOK
    <3>3. hand \in [Threads -> Hand]
      BY DEF TypeOK
    <3>4. CASE List(t)
      BY <3>1, <3>2, <3>3, <3>4 DEF List, SetHand, Hand
    <3>5. CASE Diff(t)
      BY <3>1, <3>2, <3>3, <3>5 DEF Diff, SetHand, Hand
    <3>6. CASE Done(t)
      BY <3>1, <3>3, <3>6 DEF Done, SetHand, Idle
    <3>7. CASE CloneFails(t)
      BY <3>1, <3>2, <3>3, <3>7 DEF CloneFails, SetHand, Cloned, Hand
    <3>8. CASE Teardown(t)
      BY <3>1, <3>2, <3>3, <3>8 DEF Teardown, SetHand, Hand
    <3>9. CASE ListFails(t)
      BY <3>1, <3>2, <3>3, <3>9 DEF ListFails, SetHand, SkipRepo, Hand
    <3>10. CASE TeardownFails(t)
      BY <3>1, <3>2, <3>3, <3>10 DEF TeardownFails, SetHand, Hand
    <3> QED
      BY <1>4, <3>4, <3>5, <3>6, <3>7, <3>8, <3>9, <3>10 DEF SweepStep, Failure
  <2>3. Counted' \subseteq Counted
    BY <2>1, <2>2 DEF SetHand, Counted, TypeOK
  <2>4. previews' \subseteq previews
    BY <1>4 DEF SweepStep, Failure, List, Diff, Teardown, Done, ListFails, TeardownFails, CloneFails
  <2> QED
    BY <2>3, <2>4, WithinShrinks
<1> QED
  BY <1>1, <1>2, <1>3, <1>4, WithinCount, WithinClone DEF Next

LEMMA WithinInit ==
    ASSUME NEW K \in Nat \ {0}, Init
    PROVE  Within(K)
<1>1. previews = {} /\ Counted = {}
  BY DEF Init, Counted, Idle
<1> QED
  BY <1>1, FS_EmptySet, PrPreviewConstants DEF Within

LEMMA WithinBounds ==
    ASSUME NEW K \in Nat \ {0}, Within(K)
    PROVE  Cardinality(previews) <= Cap + K - 1
<1>1. Cardinality(previews) \in Nat
  BY FS_CardinalityType DEF Within
<1> QED
  BY <1>1, CountedFinite, PrPreviewConstants DEF Within

\* Whatever their number, the sweeps pass the cap by one preview less than ever count at once.
THEOREM CapByCounts ==
    ASSUME NEW K \in Nat \ {0}
    PROVE  Spec /\ []AtOnce(K) => [](Cardinality(previews) <= Cap + K - 1)
<1>1. Init => Within(K)
  BY WithinInit
<1>2. TypeOK /\ Within(K) /\ AtOnce(K)' /\ [Next]_vars => Within(K)'
  BY WithinStep
<1>3. Within(K) => Cardinality(previews) <= Cap + K - 1
  BY WithinBounds
<1>4. Spec => []TypeOK
  BY TypeCorrect
<1> QED
  BY <1>1, <1>2, <1>3, <1>4, PTL DEF Spec

\* The cap is passed by fewer previews than there are sweeps, for any workers and environments.
THEOREM CapSoft == Spec => []OvershootBounded
<1> DEFINE K == Cardinality(Threads)
<1>1. K \in Nat \ {0}
  BY ThreadsFinite
<1>2. AtOnce(K)'
  <2>1. Counted' \in SUBSET Threads
    BY DEF Counted
  <2> QED
    BY <2>1, ThreadsFinite, FS_Subset DEF AtOnce
<1>3. Init => Within(K)
  <2> HIDE DEF K
  <2> QED  BY <1>1, WithinInit
<1>4. TypeOK /\ Within(K) /\ [Next]_vars => Within(K)'
  <2> HIDE DEF K
  <2> QED  BY <1>1, <1>2, WithinStep
<1>5. Within(K) => OvershootBounded
  BY <1>1, WithinBounds DEF OvershootBounded
<1>6. Spec => []TypeOK
  BY TypeCorrect
<1> QED
  BY <1>3, <1>4, <1>5, <1>6, PTL DEF Spec

\* The cap is hard where one worker sweeps one base environment.
COROLLARY LoneSweepKeepsCap ==
    ASSUME NEW w, Workers = {w}, NEW e, Envs = {e}
    PROVE  Spec => [](Cardinality(previews) <= Cap)
<1>1. Threads = {<<w, e>>}
  BY DEF Threads
<1>2. Cardinality(Threads) = 1
  BY <1>1, FS_Singleton
<1>3. OvershootBounded <=> Cardinality(previews) <= Cap
  <2>1. Cap + 1 - 1 = Cap
    BY PrPreviewConstants
  <2> QED
    BY <1>2, <2>1 DEF OvershootBounded
<1> QED
  BY <1>3, CapSoft, PTL

-----------------------------------------------------------------------------
(* Which previews a sweep removes *)

Known == open \cup everClosed

\* Previews, and what is about to get one, belong to pull requests that are or were open.
PrsKnown ==
    /\ \A q \in previews : q.pr \in Known
    /\ \A t \in Threads : hand[t].found \subseteq Known /\ hand[t].missing \subseteq Known

IdsUnique == \A p, q \in previews : p.id = q.id => p = q

\* What a list lacks was closed, although pull requests are opened after it.
ListedClosed ==
    \A t \in Threads, q \in previews :
        hand[t].at = "diff" /\ q.base = t[2] /\ RepoOf[q.pr] \in hand[t].repo
        => q.pr \in hand[t].found \/ q.pr \in everClosed

GoneClosed == \A t \in Threads, q \in previews : q.id \in hand[t].gone => q.pr \in everClosed

Spared == PrsKnown /\ IdsUnique /\ ListedClosed /\ GoneClosed

\* No worker clones into an environment while another holds a list of its pull requests
\* that it has not compared yet: their sweeps of one environment do not overlap there.
SweepsApart ==
    \A t, u \in Threads : t[2] = u[2] /\ hand[t].at = "diff" => hand[u].at # "clone"

\* A hand that knows no more than another, and previews that are no more.
Weaker(g, h) ==
    /\ g.found \subseteq h.found
    /\ g.missing \subseteq h.missing
    /\ g.gone \subseteq h.gone
    /\ g.at # "diff" \/ (g.at = h.at /\ g.repo = h.repo /\ g.found = h.found)

LEMMA SparedShrinks ==
    ASSUME Spared, Known \subseteq Known', everClosed \subseteq everClosed', previews' \subseteq previews,
           \A t \in Threads : Weaker(hand'[t], hand[t])
    PROVE  Spared'
<1>1. PrsKnown'
  BY DEF Spared, PrsKnown, Weaker
<1>2. IdsUnique'
  BY DEF Spared, IdsUnique
<1>3. ListedClosed'
  BY DEF Spared, ListedClosed, Weaker
<1>4. GoneClosed'
  BY DEF Spared, GoneClosed, Weaker
<1> QED
  BY <1>1, <1>2, <1>3, <1>4 DEF Spared

LEMMA SparedList ==
    ASSUME TypeOK, Spared, NEW t \in Threads, List(t)
    PROVE  Spared'
<1>1. PICK r \in hand[t].todo :
        hand' = [hand EXCEPT ![t] = [hand[t] EXCEPT !.at = "diff", !.todo = @ \ {r}, !.repo = {r},
                                                    !.found = OpenIn(r)]]
  BY DEF List, SetHand
<1>2. /\ UNCHANGED <<open, everClosed, previews>>
      /\ \A u \in Threads \ {t} : hand'[u] = hand[u]
      /\ hand'[t].repo = {r}
      /\ hand'[t].found = OpenIn(r)
      /\ hand'[t].missing = hand[t].missing
      /\ hand'[t].gone = hand[t].gone
  BY <1>1 DEF List, TypeOK, Hand, userVars
<1>3. PrsKnown' /\ IdsUnique'
  BY <1>2 DEF Spared, PrsKnown, IdsUnique, Known, OpenIn
<1>4. ASSUME NEW u \in Threads, NEW q \in previews,
             hand'[u].at = "diff", q.base = u[2], RepoOf[q.pr] \in hand'[u].repo
      PROVE  q.pr \in hand'[u].found \/ q.pr \in everClosed
  <2>1. CASE u # t
    BY <1>2, <1>4, <2>1 DEF Spared, ListedClosed
  <2>2. CASE u = t
    <3>1. q.pr \in open \/ q.pr \in everClosed
      BY DEF Spared, PrsKnown, Known
    <3>2. RepoOf[q.pr] = r
      BY <1>2, <1>4, <2>2
    <3> QED
      BY <1>2, <2>2, <3>1, <3>2 DEF OpenIn
  <2> QED
    BY <2>1, <2>2
<1>5. ListedClosed'
  BY <1>2, <1>4 DEF ListedClosed
<1>6. GoneClosed'
  BY <1>2 DEF Spared, GoneClosed
<1> QED
  BY <1>3, <1>5, <1>6 DEF Spared

LEMMA SparedDiff ==
    ASSUME TypeOK, Spared, NEW t \in Threads, Diff(t)
    PROVE  Spared'
<1> DEFINE e == Existing(t[2], hand[t].repo)
           f == hand[t].found
<1>1. /\ UNCHANGED <<open, everClosed, previews>>
      /\ \A u \in Threads \ {t} : hand'[u] = hand[u]
      /\ hand'[t].at = "apply"
      /\ hand'[t].found = {}
      /\ hand'[t].missing = ToCreate(f, e)
      /\ hand'[t].gone = ToTeardown(f, e)
  <2>1. hand[t] \in Hand
    BY DEF TypeOK
  <2>2. hand' = [hand EXCEPT ![t] = [hand[t] EXCEPT !.at = "apply", !.found = {},
                                        !.gone = ToTeardown(f, e), !.missing = ToCreate(f, e)]]
    BY DEF Diff, SetHand
  <2> HIDE DEF e, f
  <2>3. UNCHANGED <<open, everClosed, previews>>
    BY DEF Diff, userVars
  <2> QED
    BY <2>1, <2>2, <2>3 DEF TypeOK, Hand
<1>2. PrsKnown' /\ IdsUnique' /\ ListedClosed'
  <2>1. ToCreate(f, e) \subseteq f
    BY DEF ToCreate
  <2>2. f \subseteq Known
    BY DEF Spared, PrsKnown
  <2> HIDE DEF e, f
  <2> QED
    BY <1>1, <2>1, <2>2 DEF Spared, PrsKnown, IdsUnique, ListedClosed, Known
<1>3. ASSUME NEW q \in previews, q.id \in ToTeardown(f, e)
      PROVE  q.pr \in everClosed
  <2>1. PICK p \in e : p.pr \notin f /\ p.id = q.id
    BY <1>3 DEF ToTeardown
  <2>2. p \in previews /\ p.base = t[2] /\ RepoOf[p.pr] \in hand[t].repo
    BY <2>1 DEF Existing
  <2>3. p = q
    BY <2>1, <2>2 DEF Spared, IdsUnique
  <2>4. hand[t].at = "diff"
    BY DEF Diff
  <2> QED
    BY <2>1, <2>2, <2>3, <2>4 DEF Spared, ListedClosed
<1>4. GoneClosed'
  <2> HIDE DEF e, f
  <2> QED
    BY <1>1, <1>3 DEF Spared, GoneClosed
<1> QED
  BY <1>2, <1>4 DEF Spared

\* No preview of its base is created while a list waits for its use.
LEMMA SparedClone ==
    ASSUME TypeOK, Spared, SweepsApart, NEW t \in Threads, Clone(t)
    PROVE  Spared'
<1>1. PICK p \in hand[t].missing :
        /\ SetHand(t, Cloned(hand[t], p))
        /\ \/ \E i \in Ids : NewId(i) /\ previews' = previews \cup {[base |-> t[2], pr |-> p, id |-> i]}
           \/ previews' = previews
  BY DEF Clone
<1>2. /\ UNCHANGED <<open, everClosed>>
      /\ hand[t].at = "clone" /\ hand'[t].at = "apply"
      /\ \A u \in Threads : /\ u # t => hand'[u] = hand[u]
                            /\ hand'[u].found = hand[u].found
                            /\ hand'[u].missing \subseteq hand[u].missing
                            /\ hand'[u].gone = hand[u].gone
                            /\ Weaker(hand'[u], hand[u])
  BY <1>1 DEF Clone, SetHand, Cloned, TypeOK, Hand, userVars, Weaker
<1>3. CASE previews' = previews
  BY <1>2, <1>3, SparedShrinks DEF Known
<1>4. ASSUME NEW i \in Ids, NewId(i), previews' = previews \cup {[base |-> t[2], pr |-> p, id |-> i]}
      PROVE  Spared'
  <2> DEFINE new == [base |-> t[2], pr |-> p, id |-> i]
  <2>1. new.base = t[2] /\ new.pr = p /\ new.id = i
    OBVIOUS
  <2> HIDE DEF new
  <2>2. p \in Known
    BY DEF Spared, PrsKnown
  <2>3. PrsKnown'
    BY <1>2, <1>4, <2>1, <2>2 DEF Spared, PrsKnown, Known, new
  <2>4. IdsUnique'
    BY <1>4, <2>1 DEF Spared, IdsUnique, NewId, Unused, new
  <2>5. \A u \in Threads : u[2] = t[2] => hand'[u].at # "diff"
    BY <1>2 DEF SweepsApart
  <2>6. ListedClosed'
    BY <1>2, <1>4, <2>1, <2>5 DEF Spared, ListedClosed, new
  <2>7. GoneClosed'
    BY <1>2, <1>4, <2>1 DEF Spared, GoneClosed, NewId, Unused, new
  <2> QED
    BY <2>3, <2>4, <2>6, <2>7 DEF Spared
<1> QED
  BY <1>1, <1>3, <1>4

LEMMA WeakerHands ==
    ASSUME TypeOK, NEW t \in Threads, SweepStep(t) \/ Failure(t), ~List(t), ~Diff(t)
    PROVE  \A u \in Threads : Weaker(hand'[u], hand[u])
<1>1. hand[t] \in Hand /\ hand \in [Threads -> Hand]
  BY DEF TypeOK
<1>2. \A h : SetHand(t, h) /\ Weaker(h, hand[t]) => \A u \in Threads : Weaker(hand'[u], hand[u])
  BY <1>1 DEF SetHand, Weaker
<1>3. CASE Teardown(t) \/ TeardownFails(t)
  <2>1. PICK i \in hand[t].gone : SetHand(t, [hand[t] EXCEPT !.gone = @ \ {i}])
    BY <1>3 DEF Teardown, TeardownFails
  <2>2. Weaker([hand[t] EXCEPT !.gone = @ \ {i}], hand[t])
    BY <1>1 DEF Weaker, Hand
  <2> QED
    BY <1>2, <2>1, <2>2
<1>4. CASE Count(t)
  <2>1. SetHand(t, NextRepo(hand[t])) \/ SetHand(t, [hand[t] EXCEPT !.at = "clone"])
    BY <1>4 DEF Count
  <2>2. Weaker(NextRepo(hand[t]), hand[t]) /\ Weaker([hand[t] EXCEPT !.at = "clone"], hand[t])
    BY <1>1 DEF Weaker, NextRepo, Hand
  <2> QED
    BY <1>2, <2>1, <2>2
<1>5. CASE Clone(t) \/ CloneFails(t)
  <2>1. PICK p \in hand[t].missing : SetHand(t, Cloned(hand[t], p))
    BY <1>5 DEF Clone, CloneFails
  <2>2. Weaker(Cloned(hand[t], p), hand[t])
    BY <1>1 DEF Weaker, Cloned, Hand
  <2> QED
    BY <1>2, <2>1, <2>2
<1>6. CASE Done(t)
  <2>1. SetHand(t, Idle) /\ Weaker(Idle, hand[t])
    BY <1>6 DEF Done, Weaker, Idle
  <2> QED
    BY <1>2, <2>1
<1>7. CASE ListFails(t)
  <2>1. PICK r \in hand[t].todo : SetHand(t, SkipRepo(hand[t], r))
    BY <1>7 DEF ListFails
  <2>2. Weaker(SkipRepo(hand[t], r), hand[t])
    BY <1>1, <1>7 DEF Weaker, SkipRepo, Hand, ListFails
  <2> QED
    BY <1>2, <2>1, <2>2
<1> QED
  BY <1>3, <1>4, <1>5, <1>6, <1>7 DEF SweepStep, Failure

LEMMA SparedStep ==
    ASSUME TypeOK, Spared, SweepsApart, [Next]_vars
    PROVE  Spared'
<1>0. \A h : Weaker(h, h)
  BY DEF Weaker
<1>1. CASE UNCHANGED vars
  BY <1>0, <1>1, SparedShrinks DEF vars, Known
<1>2. CASE User \/ \E e \in Envs : IntervalOver(e)
  <2>1. /\ hand' = hand
        /\ previews' \subseteq previews
        /\ everClosed \subseteq everClosed'
        /\ Known \subseteq Known'
    BY <1>2 DEF User, OpenPr, ClosePr, TogglePreviews, DeleteBase, DeletePreview, IntervalOver,
                Change, userVars, Known
  <2> QED
    BY <1>0, <2>1, SparedShrinks
<1>3. ASSUME NEW v \in Workers, Claim(v) \/ WorkerDies(v)
      PROVE  Spared'
  <2> DEFINE Start(t) == [Idle EXCEPT !.at = "list", !.todo = ReposOf[t[2]]]
  <2>1. \A t \in Threads : \A h : Weaker(Start(t), h) /\ Weaker(Idle, h)
    BY DEF Weaker, Idle
  <2>2. \A t \in Threads : hand'[t] \in {hand[t], Start(t), Idle}
    <3>1. CASE Claim(v)
      <4>1. hand' = [t \in Threads |-> IF t[1] = v /\ t[2] \in {e \in bases : enabled[e] /\ due[e]}
                                      THEN Start(t) ELSE hand[t]]
        BY <3>1 DEF Claim
      <4> HIDE DEF Start
      <4> QED
        BY <4>1
    <3>2. CASE WorkerDies(v)
      BY <3>2 DEF WorkerDies
    <3> QED
      BY <1>3, <3>1, <3>2
  <2>3. UNCHANGED <<open, everClosed, previews>>
    BY <1>3 DEF Claim, WorkerDies, userVars
  <2> HIDE DEF Start
  <2>4. \A t \in Threads : Weaker(hand'[t], hand[t])
    BY <1>0, <2>1, <2>2
  <2> QED
    BY <2>3, <2>4, SparedShrinks DEF Known
<1>4. ASSUME NEW t \in Threads, SweepStep(t) \/ Failure(t), ~List(t), ~Diff(t), ~Clone(t)
      PROVE  Spared'
  <2>1. previews' \subseteq previews /\ UNCHANGED <<open, everClosed>>
    BY <1>4 DEF SweepStep, Failure, Teardown, Count, Done, ListFails, TeardownFails, CloneFails, userVars
  <2> QED
    BY <1>4, <2>1, WeakerHands, SparedShrinks DEF Known
<1> QED
  BY <1>1, <1>2, <1>3, <1>4, SparedList, SparedDiff, SparedClone DEF Next

\* No sweep tears down the preview of a pull request that was never closed, whatever fails and
\* whatever happens between its list and its use, while sweeps of one environment keep apart.
THEOREM SweepsSpare == Spec /\ []SweepsApart => OpenPreviewSpared
<1> DEFINE OnlyClosed == hand' # hand => \A p \in previews \ previews' : p.pr \in everClosed
<1>1. Init => Spared
  <2> SUFFICES ASSUME Init PROVE Spared
    OBVIOUS
  <2>1. previews = {} /\ \A t \in Threads : hand[t].found = {} /\ hand[t].missing = {}
    BY DEF Init, Idle
  <2> QED
    BY <2>1 DEF Spared, PrsKnown, IdsUnique, ListedClosed, GoneClosed
<1>2. TypeOK /\ Spared /\ SweepsApart /\ [Next]_vars => Spared'
  BY SparedStep
<1>3. Spared /\ [Next]_vars => [OnlyClosed]_vars
  <2> SUFFICES ASSUME Spared, Next, hand' # hand, NEW p \in previews, p \notin previews'
               PROVE  p.pr \in everClosed
    BY DEF vars
  <2>1. \A e \in Envs : ~IntervalOver(e)
    BY DEF IntervalOver
  <2>2. ~User
    BY DEF User, OpenPr, ClosePr, TogglePreviews, DeleteBase, DeletePreview, Change
  <2>3. \A v \in Workers : ~Claim(v) /\ ~WorkerDies(v)
    BY DEF Claim, WorkerDies
  <2>4. PICK t \in Threads : Teardown(t)
    <3>1. PICK t \in Threads : SweepStep(t) \/ Failure(t)
      BY <2>1, <2>2, <2>3 DEF Next
    <3>2. ~Clone(t)
      BY DEF Clone
    <3> QED
      BY <3>1, <3>2 DEF SweepStep, Failure, List, Diff, Count, Done, ListFails, TeardownFails, CloneFails
  <2>5. p.id \in hand[t].gone
    BY <2>4 DEF Teardown
  <2> QED
    BY <2>5 DEF Spared, GoneClosed
<1>4. Spec => []TypeOK
  BY TypeCorrect
<1> QED
  BY <1>1, <1>2, <1>3, <1>4, PTL DEF Spec, OpenPreviewSpared

\* A lone worker sweeps each environment once at a time.
COROLLARY LoneSweeperSpares ==
    ASSUME NEW w, Workers = {w}
    PROVE  Spec => OpenPreviewSpared
<1>1. SweepsApart
  BY DEF SweepsApart, Threads
<1> QED
  BY <1>1, SweepsSpare, PTL

=============================================================================
