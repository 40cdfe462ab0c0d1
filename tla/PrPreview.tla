------------------------------ MODULE PrPreview ------------------------------
(***************************************************************************)
(* Previews of the pull requests of one project.  A worker claims every    *)
(* base environment that is due and sweeps them concurrently: for each     *)
(* repository it lists the open pull requests, compares them with the      *)
(* preview environments of the base, deletes the rows of closed ones and   *)
(* clones the base for new ones, up to a cap counted over the project.     *)
(*                                                                         *)
(* The next poll time is the lease of a claim.  Nothing stops a sweep from *)
(* lasting longer, so two workers may sweep one environment.               *)
(***************************************************************************)
EXTENDS Integers, FiniteSets

CONSTANTS
    Envs,         \* base environments of the project
    Prs,          \* pull requests, ordered by their number within a repository
    RepoOf,       \* the repository of a pull request
    NameOf,       \* the name of its previews: its number and the end of the URL
    ReposOf,      \* the repositories of an environment's services
    Workers,      \* worker processes
    Cap,          \* maxPreviewsPerProject
    Ids,          \* bound: ids of preview environments
    MaxChanges,   \* bound: what users do
    MaxFaults     \* bound: lists, deletions and clones that fail, workers that die

Repos == {RepoOf[p] : p \in Prs}
Threads == Workers \X Envs

ASSUME PrPreviewConstants ==
    /\ IsFiniteSet(Envs) /\ Envs # {}
    /\ IsFiniteSet(Workers) /\ Workers # {}
    /\ Prs \subseteq Nat
    /\ Ids \subseteq Nat
    /\ ReposOf \in [Envs -> SUBSET Repos]
    /\ Cap \in Nat
    /\ MaxChanges \in Nat
    /\ MaxFaults \in Nat

VARIABLES
    open,        \* the open pull requests, at the forge
    everClosed,  \* those that have been closed at some time
    bases,       \* the base environments that exist
    enabled,     \* environments.pr_previews_enabled
    due,         \* is environments.pr_next_poll_at null or over?
    previews,    \* the preview environments
    hand,        \* per worker and environment: where the sweep is, and what it read
    changes,     \* what users have done so far
    faults       \* what has failed so far

userVars == <<open, everClosed, bases, enabled, changes>>
vars == <<open, everClosed, bases, enabled, due, previews, hand, changes, faults>>

Preview == [base : Envs, pr : Prs, id : Ids]
At == {"idle", "list", "diff", "apply", "clone"}
Hand == [at : At, todo : SUBSET Repos, repo : SUBSET Repos, found : SUBSET Prs,
         gone : SUBSET Ids, missing : SUBSET Prs, failed : BOOLEAN]
Idle == [at |-> "idle", todo |-> {}, repo |-> {}, found |-> {}, gone |-> {}, missing |-> {},
         failed |-> FALSE]

TypeOK ==
    /\ open \subseteq Prs
    /\ everClosed \subseteq Prs
    /\ bases \subseteq Envs
    /\ enabled \in [Envs -> BOOLEAN]
    /\ due \in [Envs -> BOOLEAN]
    /\ previews \subseteq Preview
    /\ hand \in [Threads -> Hand]
    /\ \A t \in Threads : hand[t].at = "clone" => hand[t].missing # {}
    /\ changes \in 0..MaxChanges
    /\ faults \in 0..MaxFaults

Init ==
    /\ open \in SUBSET Prs
    /\ everClosed = {}
    /\ bases = Envs
    /\ enabled = [e \in Envs |-> TRUE]
    /\ due = [e \in Envs |-> TRUE]
    /\ previews = {}
    /\ hand = [t \in Threads |-> Idle]
    /\ changes = 0
    /\ faults = 0

-----------------------------------------------------------------------------
(* The forge, the users and the clock *)

Change ==
    /\ changes < MaxChanges
    /\ changes' = changes + 1
    /\ UNCHANGED <<due, hand, faults>>

OpenPr(p) ==
    /\ Change
    /\ open' = open \cup {p}
    /\ UNCHANGED <<everClosed, bases, enabled, previews>>

ClosePr(p) ==
    /\ Change
    /\ p \in open
    /\ open' = open \ {p}
    /\ everClosed' = everClosed \cup {p}
    /\ UNCHANGED <<bases, enabled, previews>>

\* updateEnvironment
TogglePreviews(e) ==
    /\ Change
    /\ e \in bases
    /\ enabled' = [enabled EXCEPT ![e] = ~@]
    /\ UNCHANGED <<open, everClosed, bases, previews>>

\* deleteEnvironment of a preview
DeletePreview(p) ==
    /\ Change
    /\ previews' = previews \ {p}
    /\ UNCHANGED <<open, everClosed, bases, enabled>>

\* deleteEnvironment of a base, never the last one; its previews go with it.
DeleteBase(e) ==
    /\ Change
    /\ e \in bases
    /\ bases # {e}
    /\ bases' = bases \ {e}
    /\ previews' = {p \in previews : p.base # e}
    /\ UNCHANGED <<open, everClosed, enabled>>

\* The interval, or the longer one after an error, is over.
IntervalOver(e) ==
    /\ e \in bases
    /\ ~due[e]
    /\ due' = [due EXCEPT ![e] = TRUE]
    /\ UNCHANGED <<previews, hand, faults, userVars>>

-----------------------------------------------------------------------------
(* A sweep *)

SetHand(t, h) == hand' = [hand EXCEPT ![t] = h]

Fault ==
    /\ faults < MaxFaults
    /\ faults' = faults + 1

\* claimDueEnvironments; the next claim waits for every sweep of this one.
Claim(w) ==
    LET claimed == {e \in bases : enabled[e] /\ due[e]}
    IN  /\ \A e \in Envs : hand[<<w, e>>].at = "idle"
        /\ claimed # {}
        /\ due' = [e \in Envs |-> due[e] /\ e \notin claimed]
        /\ hand' = [t \in Threads |->
                      IF t[1] = w /\ t[2] \in claimed
                      THEN [Idle EXCEPT !.at = "list", !.todo = ReposOf[t[2]]]
                      ELSE hand[t]]
        /\ UNCHANGED <<previews, faults, userVars>>

OpenIn(r) == {p \in open : RepoOf[p] = r}

\* listOpenPullRequests of the next repository
List(t) ==
    /\ hand[t].at = "list"
    /\ \E r \in hand[t].todo :
         SetHand(t, [hand[t] EXCEPT !.at = "diff", !.todo = @ \ {r}, !.repo = {r},
                                    !.found = OpenIn(r)])
    /\ UNCHANGED <<due, previews, faults, userVars>>

\* Mutant: a list that fails counts as an empty one.
EmptyAfterError(h, r) == [h EXCEPT !.at = "diff", !.todo = @ \ {r}, !.repo = {r}, !.found = {}]
SkipRepo(h, r) == [h EXCEPT !.todo = @ \ {r}, !.failed = TRUE]

ListFails(t) ==
    /\ hand[t].at = "list"
    /\ Fault
    /\ \E r \in hand[t].todo : SetHand(t, SkipRepo(hand[t], r))
    /\ UNCHANGED <<due, previews, userVars>>

\* existingPreviews
Existing(e, repo) == {p \in previews : p.base = e /\ RepoOf[p.pr] \in repo}

\* Mutant: an empty list is distrusted.
TeardownUnlessEmpty(found, existing) ==
    {p.id : p \in {q \in existing : found # {} /\ q.pr \notin found}}
\* diffPreviews: previews whose pull request is no longer open, and open ones without.
ToTeardown(found, existing) == {p.id : p \in {q \in existing : q.pr \notin found}}
ToCreate(found, existing) == found \ {p.pr : p \in existing}

Diff(t) ==
    LET found == hand[t].found
        existing == Existing(t[2], hand[t].repo)
    IN  /\ hand[t].at = "diff"
        /\ SetHand(t, [hand[t] EXCEPT !.at = "apply", !.found = {},
                                      !.gone = ToTeardown(found, existing),
                                      !.missing = ToCreate(found, existing)])
        /\ UNCHANGED <<due, previews, faults, userVars>>

\* teardownPreview
Teardown(t) ==
    /\ hand[t].at = "apply"
    /\ \E i \in hand[t].gone :
         /\ previews' = {p \in previews : p.id # i}
         /\ SetHand(t, [hand[t] EXCEPT !.gone = @ \ {i}])
    /\ UNCHANGED <<due, faults, userVars>>

TeardownFails(t) ==
    /\ hand[t].at = "apply"
    /\ Fault
    /\ \E i \in hand[t].gone : SetHand(t, [hand[t] EXCEPT !.gone = @ \ {i}])
    /\ UNCHANGED <<due, previews, userVars>>

NextRepo(h) == [h EXCEPT !.at = "list", !.repo = {}, !.missing = {}]

\* previewCountForProject against the cap
AtCap == Cardinality(previews) >= Cap

\* The project is counted before each clone.
Count(t) ==
    /\ hand[t].at = "apply"
    /\ hand[t].gone = {}
    /\ SetHand(t, IF hand[t].missing = {} \/ AtCap
                  THEN NextRepo(hand[t])
                  ELSE [hand[t] EXCEPT !.at = "clone"])
    /\ UNCHANGED <<due, previews, faults, userVars>>

IsNext(p, missing) == p \in missing /\ \A q \in missing : p <= q

\* Mutant: the loop over the pull requests does not end.
CloneOnForEver(h, p) == [h EXCEPT !.missing = @ \ {p}]
\* Mutant: the previews are counted once for all clones of a repository.
CloneOnWithoutCount(h, p) ==
    [h EXCEPT !.at = IF h.missing = {p} THEN "apply" ELSE "clone", !.missing = @ \ {p}]
Cloned(h, p) == [h EXCEPT !.at = "apply", !.missing = @ \ {p}]

Unused(i) ==
    /\ \A p \in previews : p.id # i
    /\ \A t \in Threads : i \notin hand[t].gone
\* The least one, which stands for a new UUID.
NewId(i) == Unused(i) /\ \A j \in Ids : j < i => ~Unused(j)

\* The indexes of environments: one per base, repository and number, and one per name.
IndexesAllow(e, pr) == e \in bases /\ \A p \in previews : NameOf[p.pr] # NameOf[pr]

\* clonePreview; it throws, and is skipped, if an index does not allow the row.
Clone(t) ==
    /\ hand[t].at = "clone"
    /\ \E p \in hand[t].missing :
         /\ IsNext(p, hand[t].missing)
         /\ IF IndexesAllow(t[2], p)
            THEN \E i \in Ids :
                   /\ NewId(i)
                   /\ previews' = previews \cup {[base |-> t[2], pr |-> p, id |-> i]}
            ELSE UNCHANGED previews
         /\ SetHand(t, Cloned(hand[t], p))
    /\ UNCHANGED <<due, faults, userVars>>

CloneFails(t) ==
    /\ hand[t].at = "clone"
    /\ Fault
    /\ \E p \in hand[t].missing : IsNext(p, hand[t].missing) /\ SetHand(t, Cloned(hand[t], p))
    /\ UNCHANGED <<due, previews, userVars>>

\* After an error the next poll is put off from now on.
Done(t) ==
    /\ hand[t].at = "list"
    /\ hand[t].todo = {}
    /\ due' = [due EXCEPT ![t[2]] = @ /\ ~hand[t].failed]
    /\ SetHand(t, Idle)
    /\ UNCHANGED <<previews, faults, userVars>>

WorkerDies(w) ==
    /\ \E e \in Envs : hand[<<w, e>>].at # "idle"
    /\ Fault
    /\ hand' = [t \in Threads |-> IF t[1] = w THEN Idle ELSE hand[t]]
    /\ UNCHANGED <<due, previews, userVars>>

-----------------------------------------------------------------------------
(* Specification *)

User ==
    \/ \E p \in Prs : OpenPr(p) \/ ClosePr(p)
    \/ \E e \in Envs : TogglePreviews(e) \/ DeleteBase(e)
    \/ \E p \in previews : DeletePreview(p)

SweepStep(t) == List(t) \/ Diff(t) \/ Teardown(t) \/ Count(t) \/ Clone(t) \/ Done(t)

Failure(t) == ListFails(t) \/ TeardownFails(t) \/ CloneFails(t)

Next ==
    \/ User
    \/ \E e \in Envs : IntervalOver(e)
    \/ \E w \in Workers : Claim(w) \/ WorkerDies(w)
    \/ \E t \in Threads : SweepStep(t) \/ Failure(t)

Spec == Init /\ [][Next]_vars

\* Time passes, and a worker that is alive goes on.
FairSpec ==
    /\ Spec
    /\ \A e \in Envs : WF_vars(IntervalOver(e))
    /\ \A w \in Workers : WF_vars(Claim(w))
    /\ \A t \in Threads : WF_vars(SweepStep(t))

-----------------------------------------------------------------------------
(* Properties *)

\* The cap is soft (job.ts:84): sweeps that counted before another one cloned pass it, each
\* by one preview at most, however often they repeat.
OvershootBounded == Cardinality(previews) <= Cap + Cardinality(Threads) - 1

\* A sweep only removes previews of pull requests that have been closed: failed lists, users
\* who delete previews and pull requests opened during the sweep notwithstanding.
OpenPreviewSpared ==
    [][hand' # hand => \A p \in previews \ previews' : p.pr \in everClosed]_vars

HasPreview(e, p) == \E q \in previews : q.base = e /\ q.pr = p

\* Once its users are done, an enabled environment keeps no preview of a closed pull request,
\* of whatever repository its services use.
ClosedPreviewGoes ==
    \A e \in Envs, p \in Prs :
        RepoOf[p] \in ReposOf[e] =>
            <>[](p \in open \/ e \notin bases \/ ~enabled[e] \/ ~HasPreview(e, p))

\* Once its users are done, an enabled environment has a preview of every open pull request,
\* also of one deleted or deferred before, unless the project is at its cap.
OpenPrGetsPreview ==
    \A e \in Envs, p \in Prs :
        RepoOf[p] \in ReposOf[e] =>
            <>[]( \/ p \notin open \/ e \notin bases \/ ~enabled[e]
                  \/ HasPreview(e, p) \/ Cardinality(previews) >= Cap)

\* The previews follow the pull requests in the end.
PreviewsFollow == ClosedPreviewGoes /\ OpenPrGetsPreview

=============================================================================
