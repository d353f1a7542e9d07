--------------------------- MODULE CircuitBreaker ---------------------------
(***************************************************************************)
(* pkg/resilience's circuit breaker, called by any number of goroutines.   *)
(* beforeRequest and afterRequest run under the mutex; the guarded call    *)
(* runs between them without it, so a result may arrive in another state   *)
(* than the one the request was admitted in.                               *)
(*                                                                         *)
(* The time since lastFailureTime is kept up to ResetTimeout and the       *)
(* failure count up to FailureThreshold: the code only compares them with  *)
(* those.                                                                  *)
(***************************************************************************)
EXTENDS Naturals, FiniteSets

CONSTANTS
    Callers,               \* goroutines that call Execute
    FailureThreshold,
    ResetTimeout,          \* in ticks
    HalfOpenMaxRequests

\* NewCircuitBreaker replaces a value that is not positive by its default.
ASSUME BreakerAssumption ==
    /\ IsFiniteSet(Callers)
    /\ FailureThreshold \in Nat \ {0}
    /\ ResetTimeout \in Nat \ {0}
    /\ HalfOpenMaxRequests \in Nat \ {0}

VARIABLES
    state,                \* "closed", "open", "half-open"
    consecutiveFailures,
    sinceFailure,         \* time.Since(lastFailureTime)
    halfOpenRequests,
    running,              \* callers inside the guarded call
    service,              \* the guarded service: "flaky", or "up" for good
    probing,              \* history: callers admitted in this half-open period
    closedBy              \* history: what closed the circuit last

breakerVars == <<state, consecutiveFailures, sinceFailure, halfOpenRequests, running, service,
          probing, closedBy>>

BreakerInit ==
    /\ state = "closed"
    /\ consecutiveFailures = 0
    /\ sinceFailure = ResetTimeout
    /\ halfOpenRequests = 0
    /\ running = {}
    /\ service = "flaky"
    /\ probing = {}
    /\ closedBy = "start"

-----------------------------------------------------------------------------
\* Mutant of BeforeRequest: half-open requests are not counted.
BeforeRequestUncounted(c) ==
    /\ c \notin running
    /\ running' = running \union {c}
    /\ \/ /\ state = "closed"
          /\ UNCHANGED <<state, probing>>
       \/ /\ state = "open"
          /\ sinceFailure = ResetTimeout
          /\ state' = "half-open"
          /\ probing' = {c}
       \/ /\ state = "half-open"
          /\ halfOpenRequests < HalfOpenMaxRequests
          /\ probing' = probing \union {c}
          /\ UNCHANGED state
    /\ UNCHANGED <<consecutiveFailures, sinceFailure, halfOpenRequests, service, closedBy>>

\* Mutant of BeforeRequest: an open circuit lets nothing through.
BeforeRequestShut(c) ==
    /\ c \notin running
    /\ state # "open"
    /\ running' = running \union {c}
    /\ UNCHANGED <<state, consecutiveFailures, sinceFailure, halfOpenRequests, service,
                   probing, closedBy>>

\* beforeRequest of a request that is let through.  The one that turns the
\* circuit half-open is not counted; a rejected one changes nothing.
BeforeRequest(c) ==
    /\ c \notin running
    /\ running' = running \union {c}
    /\ \/ /\ state = "closed"
          /\ UNCHANGED <<state, halfOpenRequests, probing>>
       \/ /\ state = "open"
          /\ sinceFailure = ResetTimeout
          /\ state' = "half-open"
          /\ halfOpenRequests' = 0
          /\ probing' = {c}
       \/ /\ state = "half-open"
          /\ halfOpenRequests < HalfOpenMaxRequests
          /\ halfOpenRequests' = halfOpenRequests + 1
          /\ probing' = probing \union {c}
          /\ UNCHANGED state
    /\ UNCHANGED <<consecutiveFailures, sinceFailure, service, closedBy>>

\* Mutant of OnSuccess: one success does not close a half-open circuit.
OnSuccessWaits(c) ==
    /\ c \in running
    /\ running' = running \ {c}
    /\ consecutiveFailures' = 0
    /\ UNCHANGED <<state, sinceFailure, halfOpenRequests, service, probing, closedBy>>

\* Mutant of OnSuccess: the count survives the closing.
OnSuccessKeepsCount(c) ==
    /\ c \in running
    /\ running' = running \ {c}
    /\ state' = IF state = "half-open" THEN "closed" ELSE state
    /\ probing' = IF state = "half-open" THEN {} ELSE probing
    /\ UNCHANGED <<consecutiveFailures, sinceFailure, halfOpenRequests, service, closedBy>>

\* Mutant of OnSuccess: any success closes the circuit.
OnSuccessCloses(c) ==
    /\ c \in running
    /\ running' = running \ {c}
    /\ state' = "closed"
    /\ consecutiveFailures' = 0
    /\ halfOpenRequests' = 0
    /\ probing' = {}
    /\ UNCHANGED <<sinceFailure, service, closedBy>>

\* The guarded call returns nil: afterRequest and onSuccess.
OnSuccess(c) ==
    /\ c \in running
    /\ running' = running \ {c}
    /\ \/ /\ state = "closed"
          /\ consecutiveFailures' = 0
          /\ UNCHANGED <<state, halfOpenRequests, probing, closedBy>>
       \/ /\ state = "open"
          /\ UNCHANGED <<state, consecutiveFailures, halfOpenRequests, probing, closedBy>>
       \/ /\ state = "half-open"
          /\ state' = "closed"
          /\ consecutiveFailures' = 0
          /\ halfOpenRequests' = 0
          /\ probing' = {}
          /\ closedBy' = IF c \in probing THEN "probe" ELSE "earlier"
    /\ UNCHANGED <<sinceFailure, service>>

CountFailure ==
    IF consecutiveFailures < FailureThreshold THEN consecutiveFailures + 1
                                              ELSE consecutiveFailures

\* The guarded call returns an error: afterRequest and onFailure.  The time and
\* the count move in every state.
OnFailure(c) ==
    /\ c \in running
    /\ service = "flaky"
    /\ running' = running \ {c}
    /\ sinceFailure' = 0
    /\ consecutiveFailures' = CountFailure
    /\ state' = IF state = "closed" /\ consecutiveFailures' < FailureThreshold
                THEN "closed" ELSE "open"
    /\ probing' = {}
    /\ UNCHANGED <<halfOpenRequests, service, closedBy>>

\* Reset, by an operator.
ResetCircuit ==
    /\ state' = "closed"
    /\ consecutiveFailures' = 0
    /\ halfOpenRequests' = 0
    /\ probing' = {}
    /\ closedBy' = "reset"
    /\ UNCHANGED <<sinceFailure, running, service>>

Elapse ==
    /\ sinceFailure < ResetTimeout
    /\ sinceFailure' = sinceFailure + 1
    /\ UNCHANGED <<state, consecutiveFailures, halfOpenRequests, running, service, probing,
                   closedBy>>

\* The service behind the breaker recovers: calls that return from now on
\* succeed.
ServiceRecovers ==
    /\ service = "flaky"
    /\ service' = "up"
    /\ UNCHANGED <<state, consecutiveFailures, sinceFailure, halfOpenRequests, running,
                   probing, closedBy>>

BreakerNext ==
    \/ \E c \in Callers : BeforeRequest(c) \/ OnSuccess(c) \/ OnFailure(c)
    \/ ResetCircuit
    \/ Elapse
    \/ ServiceRecovers

\* Time passes, guarded calls return, and there is traffic.
Fairness ==
    /\ WF_breakerVars(Elapse)
    /\ \A c \in Callers : WF_breakerVars(OnSuccess(c) \/ OnFailure(c))
    /\ WF_breakerVars(\E c \in Callers : BeforeRequest(c))

BreakerSpec == BreakerInit /\ [][BreakerNext]_breakerVars /\ Fairness

-----------------------------------------------------------------------------
\* The values of the variables.
BreakerType ==
    /\ state \in {"closed", "open", "half-open"}
    /\ consecutiveFailures \in 0..FailureThreshold
    /\ sinceFailure \in 0..ResetTimeout
    /\ halfOpenRequests \in 0..HalfOpenMaxRequests
    /\ running \in SUBSET Callers
    /\ service \in {"flaky", "up"}
    /\ probing \in SUBSET Callers
    /\ closedBy \in {"start", "probe", "earlier", "reset"}

\* A half-open circuit always has a request of this half-open period in
\* flight, so a result is on its way that will open or close it: late results
\* of requests admitted in earlier phases cannot leave it half-open with
\* nobody to decide.
HalfOpenHasProbe == state = "half-open" => probing # {} /\ probing \subseteq running

\* At most one more request than HalfOpenMaxRequests probes at a time, however
\* callers and late results interleave.
ProbesBounded ==
    state = "half-open" => Cardinality(probing) <= HalfOpenMaxRequests + 1

\* A closed circuit is below its threshold: no path through half-open, late
\* failures while open, or Reset leaves it closed with a full count.
ClosedBelowThreshold == state = "closed" => consecutiveFailures < FailureThreshold

\* The circuit closes only from half-open or by Reset, so a success that comes
\* in late while it is open never ends the cool-down.
NeverClosesFromOpen ==
    [][state = "open" /\ state' = "closed" => closedBy' = "reset" /\ UNCHANGED running]_breakerVars

\* Once the service is back for good the circuit closes and stays closed.
Recovers == service = "up" ~> [](state = "closed")
=============================================================================
