----------------------------- MODULE HostThrottle -----------------------------
(* The pacing of the requests every scanner sends to one host: a fixed number *)
(* of slots, handed over in the order of arrival, and a delay that a bad answer *)
(* doubles and a clean one lowers.  The budget of a request starts before it    *)
(* waits for a slot, and the delay is slept while the slot is held.  One tick is *)
(* the step by which a clean answer lowers the delay (30 ms).                   *)
EXTENDS Naturals, Sequences, SequencesExt, FiniteSets, FiniteSetsExt
CONSTANTS
    Callers,    \* goroutines that send requests to the host
    Slots,      \* requests in flight at once (12)
    Bump,       \* added by a bad answer (60 ms)
    Ceiling,    \* largest delay (2 s)
    Budget,     \* time a request may take, waiting included (15 s)
    Service,    \* a host that is well answers within this time
    MaxFaults,  \* bound: times the host falls ill
    MaxCancels  \* bound: requests whose scan is stopped
ASSUME ThrottleAssumption ==
    /\ {Slots, Bump, Ceiling, Budget, Service} \subseteq Nat \ {0}
    /\ {MaxFaults, MaxCancels} \subseteq Nat

VARIABLES
    backoff,    \* delay of the host
    queue,      \* callers waiting for a slot, in order
    pc,         \* what each caller does
    left,       \* what is left of a request's budget; 0: its context is done
    timer,      \* rest of the delay being slept, or of the host's time to answer
    host,       \* "up" or "ill": answers 429 or 503, or not at all
    faults, cancels
thrVars == <<backoff, queue, pc, left, timer, host, faults, cancels>>

ThrottleTypeOK ==
    /\ backoff \in 0..Ceiling /\ queue \in Seq(Callers)
    /\ pc \in [Callers -> {"idle", "queued", "granted", "paced", "sent"}]
    /\ left \in [Callers -> 0..Budget] /\ timer \in [Callers -> Nat]
    /\ host \in {"up", "ill"} /\ faults \in 0..MaxFaults /\ cancels \in 0..MaxCancels

ThrottleInit ==
    /\ backoff = 0 /\ queue = <<>> /\ host = "up" /\ faults = 0 /\ cancels = 0
    /\ pc = [c \in Callers |-> "idle"]
    /\ left = [c \in Callers |-> 0] /\ timer = [c \in Callers |-> 0]

Holders == {c \in Callers : pc[c] \in {"granted", "paced", "sent"}}

Request(c) ==
    /\ pc[c] = "idle" /\ left' = [left EXCEPT ![c] = Budget]
    /\ \/ /\ Cardinality(Holders) < Slots
          /\ pc' = [pc EXCEPT ![c] = "granted"] /\ UNCHANGED queue
       \/ /\ Cardinality(Holders) >= Slots
          /\ pc' = [pc EXCEPT ![c] = "queued"] /\ queue' = Append(queue, c)
    /\ UNCHANGED <<backoff, timer, host, faults, cancels>>

\* A request whose budget ran out in the queue says nothing of the host.
QueueTimeout(c) ==
    /\ pc[c] = "queued" /\ left[c] = 0
    /\ pc' = [pc EXCEPT ![c] = "idle"]
    /\ \E i \in DOMAIN queue : queue[i] = c /\ queue' = RemoveAt(queue, i)
    /\ UNCHANGED <<backoff, left, timer, host, faults, cancels>>

\* A bug: the delay is doubled when it is read, as well as when it is set.
PaceDoubled(c) ==
    /\ pc[c] = "granted" /\ pc' = [pc EXCEPT ![c] = "paced"]
    /\ timer' = [timer EXCEPT ![c] = 2 * backoff]
    /\ UNCHANGED <<backoff, queue, left, host, faults, cancels>>
\* The delay is read once, and slept with the slot held.
Pace(c) ==
    /\ pc[c] = "granted" /\ pc' = [pc EXCEPT ![c] = "paced"]
    /\ timer' = [timer EXCEPT ![c] = backoff]
    /\ UNCHANGED <<backoff, queue, left, host, faults, cancels>>

\* hostThrottleObserve.
Eased == IF backoff > 0 THEN backoff - 1 ELSE 0
Raised == Min({2 * backoff + Bump, Ceiling})
\* The caller gives its slot back, to the first that waits.
Return(c) ==
    IF queue = <<>> THEN pc' = [pc EXCEPT ![c] = "idle"] /\ UNCHANGED queue
    ELSE /\ pc' = [pc EXCEPT ![c] = "idle", ![Head(queue)] = "granted"]
         /\ queue' = Tail(queue)

Send(c) ==
    /\ pc[c] = "paced" /\ timer[c] = 0 /\ left[c] > 0
    /\ pc' = [pc EXCEPT ![c] = "sent"]
    /\ timer' = [timer EXCEPT ![c] = Service]
    /\ UNCHANGED <<backoff, queue, left, host, faults, cancels>>
\* The context ended: during the delay, so that the request fails at once, or
\* before the answer.  Either counts as a failure of the host.
Expire(c) ==
    /\ pc[c] \in {"paced", "sent"} /\ left[c] = 0
    /\ backoff' = Raised /\ Return(c) /\ timer' = [timer EXCEPT ![c] = 0]
    /\ UNCHANGED <<left, host, faults, cancels>>
Answer(c) ==
    /\ pc[c] = "sent" /\ left[c] > 0
    /\ backoff' = IF host = "up" THEN Eased ELSE Raised
    /\ Return(c) /\ timer' = [timer EXCEPT ![c] = 0]
    /\ UNCHANGED <<left, host, faults, cancels>>

\* Stop of a scan ends the context of its requests.
CancelRequest(c) ==
    /\ pc[c] # "idle" /\ left[c] > 0 /\ cancels < MaxCancels
    /\ cancels' = cancels + 1 /\ left' = [left EXCEPT ![c] = 0]
    /\ UNCHANGED <<backoff, queue, pc, timer, host, faults>>
FallIll ==
    /\ host = "up" /\ faults < MaxFaults /\ faults' = faults + 1 /\ host' = "ill"
    /\ UNCHANGED <<backoff, queue, pc, left, timer, cancels>>
Recover ==
    /\ host = "ill" /\ host' = "up"
    /\ timer' = [c \in Callers |-> IF pc[c] = "sent" THEN Service ELSE timer[c]]
    /\ UNCHANGED <<backoff, queue, pc, left, faults, cancels>>

\* Time passes when no caller has something to do at once.
MustAct(c) ==
    \/ pc[c] = "granted" \/ (pc[c] # "idle" /\ left[c] = 0)
    \/ pc[c] = "paced" /\ timer[c] = 0
    \/ pc[c] = "sent" /\ timer[c] = 0 /\ host = "up"
Less(n) == IF n > 0 THEN n - 1 ELSE 0
Pass ==
    /\ \A c \in Callers : ~MustAct(c)
    /\ left' = [c \in Callers |-> IF pc[c] = "idle" THEN 0 ELSE Less(left[c])]
    /\ timer' = [c \in Callers |-> Less(timer[c])]
    /\ UNCHANGED <<backoff, queue, pc, host, faults, cancels>>

CallerStep(c) ==
    \/ QueueTimeout(c) \/ Pace(c) \/ Send(c) \/ Expire(c) \/ Answer(c)
ThrottleNext ==
    \/ \E c \in Callers : Request(c) \/ CallerStep(c) \/ CancelRequest(c)
    \/ FallIll \/ Recover \/ Pass
ThrottleSpec == ThrottleInit /\ [][ThrottleNext]_thrVars

--------------------------------------------------------------------------------

\* "Twelve keeps a healthy DAST worker pool fully busy while bounding cross-module
\* bursts" (throttle.go 36-38): no more requests are in flight to a host, whatever ends
\* them, and none waits for a slot that nobody has.
SlotsAreShared ==
    /\ Cardinality(Holders) <= Slots
    /\ \A c \in Callers : pc[c] = "queued" => Cardinality(Holders) = Slots

\* A host that is well for good is asked at full speed again: the delay of the
\* overloaded host must not make the requests overrun their budget and so keep the
\* host marked as overloaded (hostThrottleWait under the budget of sendInjectedFull).
HealthyHostRecovers == (<>[](host = "up")) => <>[](backoff = 0)

\* The delay is there for a host that answers badly; one that never did is asked at
\* full speed (the comment above hostThrottleState).
HealthyHostFullSpeed == faults = 0 => backoff = 0
================================================================================
