---------------------------- MODULE ReleaseChecker ----------------------------
(* The check for a newer release: any number of page requests share one cached *)
(* answer, and the first that finds it expired asks GitHub for all of them with *)
(* the entity tag of the last answer.  Releases are numbered in the order they  *)
(* are published.  0 is no release: the answer is then 404, or a draft or       *)
(* prerelease, and none of these is an error.                                   *)
EXTENDS Naturals
CONSTANTS
    Requests,     \* page requests
    MaxReleases,  \* bound: releases published
    MaxTurns,     \* bound: times GitHub withdraws or shows again a release
    MaxAges,      \* bound: times the cached answer grows older
    NoFetch       \* stands for the fetch of nobody
ASSUME ReleaseAssumption ==
    MaxReleases \in Nat /\ MaxTurns \in Nat /\ MaxAges \in Nat /\ NoFetch \notin Requests
\* Age of the cached answer: within the floor of forced checks (a minute), past it
\* but within the lifetime of an error (30 minutes), or of a good answer (6 hours).
Floor == 0
ErrorAge == 1
FullAge == 2
Expired == 3

VARIABLES
    published,  \* what GitHub shows as the latest release
    releases,   \* releases published so far, some of them withdrawn by now
    turns,
    cached,     \* the answer: release known, whether it is an error
    hasCache, age,
    etag,       \* entity tag kept: {} for none, else what it is the tag of
    inFlight,   \* the request that asks GitHub, or NoFetch
    rpc,        \* "idle", "waiting", "asking", "storing"
    fetched,    \* answer of GitHub to each request, kept until it is stored
    previous,   \* what the request found cached when it set out
    ages,
    since       \* history: what GitHub has shown since the cached answer was stored
github == <<published, releases, turns>>
relVars == <<github, cached, hasCache, age, etag, inFlight, rpc, fetched, previous, ages, since>>

NoInfo == [latest |-> 0, error |-> FALSE]
Answers == [latest : 0..MaxReleases, error : BOOLEAN]
\* An answer comes with its tag, or without.
NoReply == [info |-> NoInfo, tagged |-> FALSE]
Replies == [info : Answers, tagged : BOOLEAN]

ReleaseInit ==
    /\ published = 0 /\ releases = 0 /\ turns = 0 /\ since = {0}
    /\ cached = NoInfo /\ hasCache = FALSE /\ age = Floor /\ etag = {}
    /\ inFlight = NoFetch /\ rpc = [r \in Requests |-> "idle"] /\ ages = 0
    /\ fetched = [r \in Requests |-> NoReply]
    /\ previous = [r \in Requests |-> [info |-> NoInfo, had |-> FALSE]]

\* cacheTTL, and the floor that even a forced check respects.
Usable(force) ==
    /\ hasCache
    /\ age < (IF force THEN ErrorAge ELSE IF cached.error THEN FullAge ELSE Expired)

\* check: the cached answer, or wait for the one who asks, or ask.
CheckCached(r, force) ==
    /\ rpc[r] = "idle" /\ Usable(force) /\ UNCHANGED relVars
CheckWaits(r, force) ==
    /\ rpc[r] = "idle" /\ ~Usable(force) /\ inFlight # NoFetch
    /\ rpc' = [rpc EXCEPT ![r] = "waiting"]
    /\ UNCHANGED <<github, cached, hasCache, age, etag, inFlight, fetched, previous, ages, since>>
SetOut(r, force) ==
    /\ rpc[r] = "idle" /\ ~Usable(force)
    /\ inFlight' = r /\ rpc' = [rpc EXCEPT ![r] = "asking"]
    /\ previous' = [previous EXCEPT ![r] = [info |-> cached, had |-> hasCache]]
    /\ UNCHANGED <<github, cached, hasCache, age, etag, fetched, ages, since>>
\* A bug: every request that finds no fresh answer asks by itself.
CheckAsksAlways(r, force) == SetOut(r, force)
CheckAsks(r, force) == inFlight = NoFetch /\ SetOut(r, force)

\* fetch: what GitHub shows; "not modified", where the tag sent with the request names
\* just that, which stands for what was known; or an error, also when the browser that
\* caused the request went away, whose context it carries.
Shown == [info : {[latest |-> published, error |-> FALSE]}, tagged : BOOLEAN]
NotModified(r) == IF previous[r].had /\ etag = {published}
                  THEN {[info |-> [previous[r].info EXCEPT !.error = FALSE], tagged |-> FALSE]}
                  ELSE {}
AskFailed == [info |-> [latest |-> 0, error |-> TRUE], tagged |-> FALSE]
Fetch(r) ==
    /\ rpc[r] = "asking" /\ rpc' = [rpc EXCEPT ![r] = "storing"]
    /\ \E reply \in Shown \cup NotModified(r) \cup {AskFailed} : fetched' = [fetched EXCEPT ![r] = reply]
    /\ UNCHANGED <<github, cached, hasCache, age, etag, inFlight, previous, ages, since>>

\* An error keeps what was known, marked stale.
Merged(r) == IF fetched[r].info.error /\ previous[r].had
             THEN [previous[r].info EXCEPT !.error = TRUE] ELSE fetched[r].info
\* The age counts from the moment the check began; without a new tag the old one stays.
StoreAnswer(r) ==
    /\ cached' = Merged(r) /\ hasCache' = TRUE /\ age' = Floor
    /\ etag' = IF fetched[r].tagged THEN {fetched[r].info.latest} ELSE etag
    /\ since' = {published}
    /\ UNCHANGED <<github, previous, fetched, ages>>
Store(r) ==
    /\ rpc[r] = "storing" /\ StoreAnswer(r) /\ inFlight' = NoFetch
    /\ rpc' = [q \in Requests |-> IF q = r \/ rpc[q] = "waiting" THEN "idle" ELSE rpc[q]]

\* A browser that waits may leave.
LeaveWaiting(r) ==
    /\ rpc[r] = "waiting" /\ rpc' = [rpc EXCEPT ![r] = "idle"]
    /\ UNCHANGED <<github, cached, hasCache, age, etag, inFlight, fetched, previous, ages, since>>
\* GitHub shows a new release, or another than the newest: that one is deleted or
\* made a draft, the repository is hidden, or either is undone.
Shows(n) ==
    /\ published' = n /\ since' = since \cup {n}
    /\ UNCHANGED <<cached, hasCache, age, etag, inFlight, rpc, fetched, previous, ages>>
Publish ==
    /\ releases < MaxReleases /\ releases' = releases + 1 /\ Shows(releases + 1)
    /\ UNCHANGED turns
Turn ==
    /\ turns < MaxTurns /\ turns' = turns + 1
    /\ \E n \in 0..releases : n # published /\ Shows(n)
    /\ UNCHANGED releases
GrowOlder ==
    /\ hasCache /\ age < Expired /\ ages < MaxAges /\ age' = age + 1 /\ ages' = ages + 1
    /\ UNCHANGED <<github, cached, hasCache, etag, inFlight, rpc, fetched, previous, since>>

ReleaseNext ==
    \/ \E r \in Requests :
          \/ \E force \in BOOLEAN :
                CheckCached(r, force) \/ CheckWaits(r, force) \/ CheckAsks(r, force)
          \/ Fetch(r) \/ Store(r) \/ LeaveWaiting(r)
    \/ Publish \/ Turn \/ GrowOlder
ReleaseSpec == ReleaseInit /\ [][ReleaseNext]_relVars

--------------------------------------------------------------------------------
\* Types of the variables of the checker.
ReleaseTypeOK ==
    /\ published \in 0..MaxReleases /\ releases \in 0..MaxReleases /\ turns \in Nat
    /\ cached \in Answers /\ hasCache \in BOOLEAN
    /\ age \in Floor..Expired /\ etag \subseteq 0..MaxReleases /\ inFlight \in Requests \union {NoFetch}
    /\ rpc \in [Requests -> {"idle", "waiting", "asking", "storing"}]
    /\ fetched \in [Requests -> Replies]
    /\ previous \in [Requests -> [info : Answers, had : BOOLEAN]]
    /\ since \subseteq 0..MaxReleases

\* The release shown, or that there is none, is given up only for what GitHub has
\* shown since: not for an error, such as the leader's own cancelled request, and not
\* for an answer older than the one it replaces (check's merge and its one fetch).
ShownFollowsGitHub == [][cached'.latest # cached.latest => cached'.latest \in since]_relVars

\* README.md:99: "When a newer release is available, the dashboard shows one non-blocking
\* notice".  An answer that is no error says what GitHub has shown since the last one.
\* It fails: a 404 without a tag leaves the old tag beside an empty answer, and once
\* that release is shown again, "not modified" keeps the answer empty.
AnswersAreCurrent ==
    [][\A r \in Requests : Store(r) /\ ~cached'.error => cached'.latest \in since]_relVars

================================================================================
