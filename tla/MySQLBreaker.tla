---------------------------- MODULE MySQLBreaker ----------------------------
(***************************************************************************)
(* breakerConn (pkg/drivers/mysql/breaker.go): the circuit breaker in      *)
(* front of the one connection pool that both controllers' workers share.  *)
(*                                                                         *)
(* admit and report run under the mutex and are atomic; the inner call     *)
(* between them takes any time, so reports arrive in any order.  Times are *)
(* ticks and kept relative to now: hold is until - now, or 0 once past.    *)
(***************************************************************************)
EXTENDS Naturals, FiniteSets

CONSTANTS
    Worker,       \* reconcile workers that call the driver
    BreakerMin,   \* ticks
    BreakerMax,   \* ticks
    MaxFailures,  \* bound: consecutive failures
    MaxOutages,   \* bound: times the server goes down
    MaxCancels,   \* bound: callers' contexts that end during a call
    MaxElapsed    \* bound: ticks counted since the breaker opened

ASSUME BoundsAssumption ==
    /\ IsFiniteSet(Worker)
    /\ BreakerMin \in Nat \ {0} /\ BreakerMax \in Nat /\ BreakerMin <= BreakerMax
    /\ {MaxFailures, MaxOutages, MaxCancels, MaxElapsed} \subseteq Nat

VARIABLES
    failures,   \* consecutive connection failures
    hold,       \* ticks until the breaker lets an operation through
    call,       \* each worker's operation, and what the inner call returned
    up,         \* history of the server: reachable or not
    outages,
    cancels,
    elapsed,    \* history: ticks since the breaker opened
    quiet       \* history: ticks since the last failure or probe

server == <<up, outages, cancels>>
vars == <<failures, hold, call, up, outages, cancels, elapsed, quiet>>

Least(m, n) == IF m < n THEN m ELSE n

\* The loop of cooldown(): doubling stops once the delay reaches breakerMax.
Delay[n \in Nat] ==
    IF n <= 1 THEN BreakerMin
    ELSE IF Delay[n - 1] < BreakerMax THEN 2 * Delay[n - 1] ELSE Delay[n - 1]
Cooldown(n) == Least(Delay[n], BreakerMax)

TypeOK ==
    /\ failures \in 0..MaxFailures
    /\ hold \in 0..BreakerMax
    /\ call \in [Worker -> {"none", "calling", "answered", "unreachable", "ended"}]
    /\ up \in BOOLEAN
    /\ outages \in 0..MaxOutages
    /\ cancels \in 0..MaxCancels
    /\ elapsed \in 0..MaxElapsed
    /\ quiet \in 0..BreakerMax

-----------------------------------------------------------------------------

\* A refused operation changes nothing and is left out.
\* (Mutants: the deadline is not looked at; the probe does not push it; a
\* refused operation does.)
AdmitAlways(w) ==
    /\ call[w] = "none"
    /\ call' = [call EXCEPT ![w] = "calling"]
    /\ UNCHANGED <<failures, hold, server, elapsed, quiet>>
AdmitWithoutPush(w) ==
    /\ call[w] = "none"
    /\ failures = 0 \/ hold = 0
    /\ call' = [call EXCEPT ![w] = "calling"]
    /\ quiet' = IF failures = 0 THEN quiet ELSE 0
    /\ UNCHANGED <<failures, hold, server, elapsed>>
AdmitExtends(w) ==
    /\ call[w] = "none"
    /\ IF failures = 0 \/ hold = 0
       THEN /\ call' = [call EXCEPT ![w] = "calling"]
            /\ UNCHANGED hold
       ELSE hold' = Cooldown(failures) /\ UNCHANGED call
    /\ UNCHANGED <<failures, server, elapsed, quiet>>
Admit(w) ==
    /\ call[w] = "none"
    /\ \/ failures = 0 /\ UNCHANGED <<hold, quiet>>
       \/ failures > 0 /\ hold = 0 /\ hold' = Cooldown(failures) /\ quiet' = 0
    /\ call' = [call EXCEPT ![w] = "calling"]
    /\ UNCHANGED <<failures, server, elapsed>>

Pending == {w \in Worker : call[w] = "unreachable"}

\* The inner call returns: nil or a server error, a connection error, or an
\* error after the caller's context ended.  With MaxFailures on their way a
\* call hangs until the server is back.
InnerReturns(w) ==
    /\ call[w] = "calling"
    /\ \/ up /\ call' = [call EXCEPT ![w] = "answered"] /\ UNCHANGED cancels
       \/ /\ ~up /\ failures + Cardinality(Pending) < MaxFailures
          /\ call' = [call EXCEPT ![w] = "unreachable"]
          /\ UNCHANGED cancels
       \/ /\ cancels < MaxCancels /\ cancels' = cancels + 1
          /\ call' = [call EXCEPT ![w] = "ended"]
    /\ UNCHANGED <<failures, hold, up, outages, elapsed, quiet>>

Report(w) ==
    /\ \/ call[w] = "answered" /\ failures' = 0 /\ UNCHANGED <<hold, elapsed, quiet>>
       \/ call[w] = "ended" /\ UNCHANGED <<failures, hold, elapsed, quiet>>
       \/ /\ call[w] = "unreachable"
          /\ failures' = failures + 1
          /\ hold' = Cooldown(failures + 1)
          /\ elapsed' = IF failures = 0 THEN 0 ELSE elapsed
          /\ quiet' = 0
    /\ call' = [call EXCEPT ![w] = "none"]
    /\ UNCHANGED server

-----------------------------------------------------------------------------
(* Time and the server. *)

Tick ==
    /\ hold' = IF hold > 0 THEN hold - 1 ELSE 0
    /\ elapsed' = IF failures > 0 THEN Least(elapsed + 1, MaxElapsed) ELSE elapsed
    /\ quiet' = Least(quiet + 1, BreakerMax)
    /\ UNCHANGED <<failures, call, server>>

ServerGoesDown ==
    /\ up /\ outages < MaxOutages
    /\ up' = FALSE /\ outages' = outages + 1
    /\ UNCHANGED <<failures, hold, call, cancels, elapsed, quiet>>
ServerComesBack ==
    /\ ~up /\ up' = TRUE
    /\ UNCHANGED <<failures, hold, call, outages, cancels, elapsed, quiet>>

Init ==
    /\ failures = 0 /\ hold = 0
    /\ call = [w \in Worker |-> "none"]
    /\ up \in BOOLEAN
    /\ outages = 0 /\ cancels = 0
    /\ elapsed = 0 /\ quiet = BreakerMax

Next ==
    \/ \E w \in Worker : Admit(w) \/ InnerReturns(w) \/ Report(w)
    \/ Tick
    \/ ServerGoesDown \/ ServerComesBack

Spec == Init /\ [][Next]_vars

\* Workers keep reconciling, calls return within their timeouts, time passes
\* and the server is repaired.
Fairness ==
    /\ \A w \in Worker : WF_vars(Admit(w)) /\ WF_vars(InnerReturns(w)) /\ WF_vars(Report(w))
    /\ WF_vars(Tick)
    /\ WF_vars(ServerComesBack)

FairSpec == Spec /\ Fairness

-----------------------------------------------------------------------------
(* Properties. *)

\* The failed connections of one outage are paced by time and not by the
\* number of operations: one per worker that was already calling when the
\* breaker opened, and at most one more per breakerMin, although a probe that
\* hangs is overtaken by the next one and reports arrive in any order.
FailuresPaced ==
    elapsed < MaxElapsed =>
        failures <= Cardinality(Worker) + (elapsed \div BreakerMin)

\* The published schedule: breakerMin doubled per further failure, up to
\* breakerMax.
Doubled[n \in Nat] == IF n = 0 THEN BreakerMin ELSE 2 * Doubled[n - 1]
Schedule(n) == Least(Doubled[n - 1], BreakerMax)

\* While the breaker is open an operation gets through only after the whole
\* scheduled cooldown without a failure or another probe, and operations are
\* never held back longer than that, whatever the order of the reports.
OneProbePerCooldown ==
    [][/\ \A w \in Worker : failures > 0 /\ call[w] = "none" /\ call'[w] = "calling"
            => quiet >= Schedule(failures)
       /\ failures' > 0 => hold' <= Schedule(failures')]_vars

\* Once the server is back for good, the breaker closes and stays closed.
Recovers == <>[]up => <>[](failures = 0)
=============================================================================
