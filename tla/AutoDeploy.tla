----------------------------- MODULE AutoDeploy -----------------------------
(***************************************************************************)
(* Auto-deploy of one service: workers poll its branch (or watch its image *)
(* tag) and enqueue a deployment of a new head.  A poll copies the row in  *)
(* the transaction that claims it, asks the remote outside of it, enqueues *)
(* in a second transaction and records the head it saw in a third.         *)
(*                                                                         *)
(* next_poll_at is the lease of a claim.  It lasts longer than a poll, but *)
(* a webhook or a user who switches auto-deploy on sets it to now.         *)
(*                                                                         *)
(* With watched paths a head is deployed if the diff from the last one     *)
(* lists such a path.  The diff is git's: it lists a file that moved under *)
(* its new path only, and prints some paths in quotes.                     *)
(***************************************************************************)
EXTENDS Naturals

CONSTANTS
    MaxCommits,   \* bound: commits of the branch, or digests of the tag
    Paths,        \* paths of files
    Watched,      \* those under the root directory and the watch paths; none: all count
    Quoted,       \* those that git prints in quotes, as they are not plain ASCII
    FilesOf,      \* per commit and path, the content there; alike to git means equal
    Workers,      \* worker processes
    MaxPushes,    \* bound: changes of the branch, and of the switch
    MaxFaults     \* bound: polls that fail or die

Commits == 1..MaxCommits
None == 0   \* no branch, nothing recorded, nothing deployed
NoFile == 0

ASSUME AutoDeployConstants ==
    /\ MaxCommits \in Nat
    /\ Watched \subseteq Paths
    /\ FilesOf \in [Commits -> [Paths -> Nat]]
    /\ MaxPushes \in Nat
    /\ MaxFaults \in Nat

VARIABLES
    head,         \* the head of the remote branch
    enabled,      \* services.auto_deploy_enabled
    due,          \* is services.next_poll_at null or over?
    hook,         \* is a webhook of a push on its way?
    lastPolled,   \* services.last_polled_commit
    newest,       \* the commit of the newest automatic deployment
    hand,         \* per worker: where its poll is, and what it copied
    pushes,       \* changes of the branch and the switch so far
    faults,       \* polls that failed or died so far
    interrupted   \* did one of them end between its enqueue and its record?

remoteVars == <<head, hook, pushes>>
faultVars == <<faults, interrupted>>
vars == <<head, enabled, due, hook, lastPolled, newest, hand, pushes, faults, interrupted>>

Ref == Commits \cup {None}
At == {"idle", "resolve", "filter", "enqueue", "record"}
Hand == [at : At, last : Ref, seen : Ref]
Idle == [at |-> "idle", last |-> None, seen |-> None]

TypeOK ==
    /\ head \in Ref
    /\ enabled \in BOOLEAN
    /\ due \in BOOLEAN
    /\ hook \in BOOLEAN
    /\ lastPolled \in Ref
    /\ newest \in Ref
    /\ hand \in [Workers -> Hand]
    /\ \A w \in Workers : hand[w].at \in {"filter", "enqueue"} => hand[w].seen # None
    /\ pushes \in 0..MaxPushes
    /\ faults \in 0..MaxFaults
    /\ interrupted \in BOOLEAN

Init ==
    /\ head = IF MaxCommits > 0 THEN 1 ELSE None
    /\ enabled = TRUE
    /\ due = TRUE
    /\ hook = FALSE
    /\ lastPolled = None
    /\ newest = None
    /\ hand = [w \in Workers |-> Idle]
    /\ pushes = 0
    /\ faults = 0
    /\ interrupted = FALSE

-----------------------------------------------------------------------------
(* The remote, the webhook, the user and the clock *)

\* A push, a forced push or reset to an older commit, or the deletion of the branch.
Push(c) ==
    /\ pushes < MaxPushes
    /\ c # head
    /\ head' = c
    /\ pushes' = pushes + 1
    /\ hook' = TRUE
    /\ UNCHANGED <<enabled, due, lastPolled, newest, hand, faultVars>>

\* The webhook of a push makes the service due; it may come late or get lost.
Webhook ==
    /\ hook
    /\ hook' = FALSE
    /\ due' \in {due, due \/ enabled}
    /\ UNCHANGED <<head, enabled, lastPolled, newest, hand, pushes, faultVars>>

\* autoDeployColumns
Switch ==
    /\ pushes < MaxPushes
    /\ pushes' = pushes + 1
    /\ enabled' = ~enabled
    /\ due' = enabled'
    /\ UNCHANGED <<head, hook, lastPolled, newest, hand, faultVars>>

\* The interval, or the longer one after an error, is over.  A poll does not last as long.
IntervalOver ==
    /\ enabled /\ ~due
    /\ \A w \in Workers : hand[w].at = "idle"
    /\ due' = TRUE
    /\ UNCHANGED <<enabled, lastPolled, newest, hand, remoteVars, faultVars>>

-----------------------------------------------------------------------------
(* A poll *)

SetHand(w, h) == hand' = [hand EXCEPT ![w] = h]

\* claimDueServices: the row is copied and its next poll is put off.
Claim(w) ==
    /\ hand[w].at = "idle"
    /\ enabled /\ due
    /\ due' = FALSE
    /\ SetHand(w, [at |-> "resolve", last |-> lastPolled, seen |-> None])
    /\ UNCHANGED <<enabled, lastPolled, newest, remoteVars, faultVars>>

\* Mutant: the first head ever seen is only recorded.
DeployUnlessFirst(seen, last) == seen # None /\ seen # last /\ last # None
\* Mutant: a branch that is gone counts as a new head.
DeployMissingHead(seen, last) == seen # last
ShouldDeploy(seen, last) == seen # None /\ seen # last

\* resolveRemoteHead and the decision on what it returned.
Resolve(w) ==
    /\ hand[w].at = "resolve"
    /\ SetHand(w, [hand[w] EXCEPT
                     !.at = IF ShouldDeploy(head, hand[w].last) THEN "filter" ELSE "record",
                     !.seen = head])
    /\ UNCHANGED <<enabled, due, lastPolled, newest, remoteVars, faultVars>>

Changed(old, new) == {p \in Paths : FilesOf[old][p] # FilesOf[new][p]}
Gone(old, new) == {p \in Changed(old, new) : FilesOf[new][p] = NoFile}
Added(old, new) == {p \in Changed(old, new) : FilesOf[old][p] = NoFile}

\* Can all of these files have moved, each to a new one of its own?
CanMove(gone, old, new) ==
    \E to \in [gone -> Added(old, new)] :
        /\ \A p \in gone : FilesOf[new][to[p]] = FilesOf[old][p]
        /\ \A p, q \in gone : to[p] = to[q] => p = q

\* The files that git takes for moved: as many as can have, which ones is its choice.
Moved(old, new) ==
    CHOOSE gone \in SUBSET Gone(old, new) :
        /\ CanMove(gone, old, new)
        /\ \A more \in SUBSET Gone(old, new) :
               CanMove(more, old, new) /\ gone \subseteq more => more = gone

\* git diff --name-only: a file that moved is listed under its new path only.
Listed(old, new) == Changed(old, new) \ Moved(old, new)

\* pathsMatch: the listed paths with a watched prefix; a path in quotes has none.
Matches(old, new) == Listed(old, new) \cap (Watched \ Quoted)

\* Mutant: without an old commit nothing is new.
TouchesUnlessFirst(old, new) == old # None /\ (Watched = {} \/ Matches(old, new) # {})
\* Is the new commit to be deployed, as far as its paths go?  Without an old one all is new.
Touches(old, new) == old = None \/ Watched = {} \/ Matches(old, new) # {}

\* shouldEnqueueForPaths, on the copied last commit
Filter(w) ==
    /\ hand[w].at = "filter"
    /\ SetHand(w, [hand[w] EXCEPT
                     !.at = IF Touches(hand[w].last, hand[w].seen) THEN "enqueue" ELSE "record"])
    /\ UNCHANGED <<enabled, due, lastPolled, newest, remoteVars, faultVars>>

\* A diff that fails counts as a change.
FilterFails(w) ==
    /\ hand[w].at = "filter"
    /\ faults < MaxFaults
    /\ faults' = faults + 1
    /\ SetHand(w, [hand[w] EXCEPT !.at = "enqueue"])
    /\ UNCHANGED <<enabled, due, lastPolled, newest, remoteVars, interrupted>>

\* enqueueAutoDeployment: whatever was queued is superseded by the copied head.
Enqueue(w) ==
    /\ hand[w].at = "enqueue"
    /\ newest' = hand[w].seen
    /\ SetHand(w, [hand[w] EXCEPT !.at = "record"])
    /\ UNCHANGED <<enabled, due, lastPolled, remoteVars, faultVars>>

\* Mutant: a branch that is gone clears the record.
RecordMissing(h) == h.seen
Recorded(h) == IF h.seen = None THEN h.last ELSE h.seen

\* The observed head is recorded, deployed or not; without a branch the copy is written back.
Record(w) ==
    /\ hand[w].at = "record"
    /\ lastPolled' = Recorded(hand[w])
    /\ SetHand(w, Idle)
    /\ UNCHANGED <<enabled, due, newest, remoteVars, faultVars>>

\* The poll throws, and backs off, or its worker dies.
PollEnds(w) ==
    /\ hand[w].at # "idle"
    /\ faults < MaxFaults
    /\ faults' = faults + 1
    /\ interrupted' = (interrupted \/ hand[w].at = "record")
    /\ due' \in {due, FALSE}
    /\ SetHand(w, Idle)
    /\ UNCHANGED <<enabled, lastPolled, newest, remoteVars>>

-----------------------------------------------------------------------------
(* Specification *)

PollStep(w) == Claim(w) \/ Resolve(w) \/ Filter(w) \/ Enqueue(w) \/ Record(w)

World == (\E c \in Ref : Push(c)) \/ Webhook \/ Switch \/ IntervalOver

Next == World \/ \E w \in Workers : PollStep(w) \/ FilterFails(w) \/ PollEnds(w)

Spec == Init /\ [][Next]_vars

\* The sweep fires as long as the worker runs, and time passes; webhooks may never come.
FairSpec ==
    /\ Spec
    /\ WF_vars(IntervalOver)
    /\ \A w \in Workers : WF_vars(PollStep(w))

-----------------------------------------------------------------------------
(* Properties *)

\* What a commit holds under the watched paths.
TreeOf(c) == [p \in Watched |-> FilesOf[c][p]]
SameTree(c, d) == c = d \/ (Watched # {} /\ c # None /\ d # None /\ TreeOf(c) = TreeOf(d))

\* Does a series of diffs that list nothing watched lead from one commit to the other?
Skips == {e \in Commits \X Commits : Watched # {} /\ Matches(e[1], e[2]) = {}}
Closed(S) == \A e \in Skips : e[1] \in S => e[2] \in S
Reach == [c \in Ref |-> {d \in Ref : \A S \in SUBSET Ref : c \in S /\ Closed(S) => d \in S}]
Reaches(c, d) == d \in Reach[c]

\* Have such diffs hidden a change under the watched paths?
Hidden(c, d) == Reaches(c, d) /\ ~SameTree(c, d)

\* While no poll runs and none was disturbed, the recorded commit is the newest deployment,
\* or one that the filter passed over since, although the one follows every push and
\* the other only those that touch a watched path.
RecordMatchesDeployment ==
    (\A w \in Workers : hand[w].at = "idle") /\ faults = 0 => Reaches(newest, lastPolled)

\* A commit that is the newest deployment is not deployed again, with webhooks, resets
\* and skipped commits in between: what git-installations.service.ts:208 promises; unless
\* a change away from it, which the diffs did not list, is taken back.  A fault may repeat it.
NoRetrigger ==
    [][\A v \in Workers :
        hand[v].at = "enqueue" /\ hand'[v].at = "record" /\ faults = 0
        => newest' # newest \/ Hidden(newest, lastPolled)]_vars

\* Once the branch is left alone, its head is the newest deployment, or differs from it by
\* diffs only that list nothing watched, and stays so; unless a poll died after its
\* enqueue and before its record, which a later reset of the branch can hide.
HeadDeployed ==
    []~interrupted => <>[](~enabled \/ head = None \/ Reaches(newest, head))

\* What the console says of watched paths (build-section.tsx:103-106): a commit under them
\* deploys, so that what is deployed holds the watched files of the head.  It does not when
\* a file is moved out of them.
ChangesDeployed ==
    []~interrupted => <>[](~enabled \/ head = None \/ SameTree(newest, head))

=============================================================================
