--------------------------- MODULE CircuitBreaker ---------------------------
(***************************************************************************)
(* digigraph's circuit breaker: one process-wide instance per downstream   *)
(* service, entered and left by concurrent calls, each way under a lock.   *)
(*                                                                         *)
(* The clock is kept as the time left until the breaker may be probed.     *)
(* Failures are counted up to Threshold, which is all that is asked of     *)
(* the count.                                                              *)
(***************************************************************************)
EXTENDS Naturals

CONSTANTS
  Callers,          \* threads that call the service
  Threshold,        \* failure_threshold
  RecoveryTimeout   \* recovery_timeout

ASSUME ThresholdAssumption == Threshold \in Nat \ {0}
ASSUME RecoveryAssumption == RecoveryTimeout \in Nat \ {0}

VARIABLES
  circuit,   \* _state
  failures,  \* _failures
  wait,      \* what is left of recovery_timeout since _opened_at
  call,      \* what each caller's last call has come to
  stale      \* history: calls that began before the breaker last opened

breaker == <<circuit, failures, wait, call, stale>>

BreakerInit ==
  /\ circuit = "CLOSED" /\ failures = 0 /\ wait = 0
  /\ call = [c \in Callers |-> "none"] /\ stale = {}

Calling(c) == call[c] = "calling"
Comes(c, to) == call' = [call EXCEPT ![c] = to]
Counted == IF failures < Threshold THEN failures + 1 ELSE failures
-----------------------------------------------------------------------------
(* Mutant of Reject: the rejection counts as one more failure. *)
RejectCounting(c) ==
  /\ ~Calling(c)
  /\ circuit = "OPEN" /\ wait > 0
  /\ Comes(c, "rejected") /\ wait' = RecoveryTimeout
  /\ UNCHANGED <<circuit, failures, stale>>

(* __enter__ turned away: CircuitBreakerOpen *)
Reject(c) ==
  /\ ~Calling(c)
  /\ circuit = "OPEN" /\ wait > 0
  /\ Comes(c, "rejected")
  /\ UNCHANGED <<circuit, failures, wait, stale>>

(* Mutant of Enter: the first caller probes at once. *)
EnterEarly(c) ==
  /\ ~Calling(c)
  /\ circuit' = IF circuit = "OPEN" THEN "HALF_OPEN" ELSE circuit
  /\ Comes(c, "calling")
  /\ UNCHANGED <<failures, wait, stale>>

(* __enter__; only OPEN is looked at, so that any number of calls enter a  *)
(* half-open breaker                                                       *)
Enter(c) ==
  /\ ~Calling(c)
  /\ \/ circuit # "OPEN" /\ UNCHANGED circuit
     \/ circuit = "OPEN" /\ wait = 0 /\ circuit' = "HALF_OPEN"
  /\ Comes(c, "calling")
  /\ UNCHANGED <<failures, wait, stale>>

(* __exit__ with an exception: the request did not reach the service *)
ExitFailed(c) ==
  /\ Calling(c)
  /\ Comes(c, "failed") /\ failures' = Counted
  /\ IF circuit = "HALF_OPEN" \/ failures' >= Threshold
       THEN /\ circuit' = "OPEN" /\ wait' = RecoveryTimeout
            /\ stale' = {d \in Callers \ {c} : Calling(d)}
       ELSE stale' = stale \ {c} /\ UNCHANGED <<circuit, wait>>

(* __exit__ otherwise: a response, whatever its status *)
ExitDone(c) ==
  /\ Calling(c)
  /\ Comes(c, "done") /\ circuit' = "CLOSED" /\ failures' = 0 /\ wait' = 0
  /\ stale' = stale \ {c}

RecoveryTick ==
  /\ wait > 0 /\ wait' = wait - 1
  /\ UNCHANGED <<circuit, failures, call, stale>>

BreakerStep(c) == Reject(c) \/ Enter(c) \/ ExitFailed(c) \/ ExitDone(c)

BreakerNext == (\E c \in Callers : BreakerStep(c)) \/ RecoveryTick

BreakerSpec == BreakerInit /\ [][BreakerNext]_breaker
-----------------------------------------------------------------------------
(* The shape of the breaker; the count says whether it is closed. *)
BreakerTypeOK ==
  /\ circuit \in {"CLOSED", "OPEN", "HALF_OPEN"}
  /\ failures \in 0 .. Threshold /\ wait \in 0 .. RecoveryTimeout
  /\ call \in [Callers -> {"none", "calling", "rejected", "failed", "done"}]
  /\ stale \subseteq Callers
  /\ circuit # "OPEN" => wait = 0

(* "before allowing a single probe request through": before its recovery   *)
(* time is over an open breaker is left only by an answer to a call that   *)
(* had begun before it opened; nobody gets in to find out.                 *)
EarlyCloseIsStale ==
  [][circuit = "OPEN" /\ wait > 0 /\ circuit' # "OPEN" =>
       \E c \in stale : Calling(c) /\ call'[c] = "done"]_breaker

(* An open breaker does not stay open for ever while requests come in,     *)
(* however many of them it turns away and however late old calls fail.     *)
OpenEnds == circuit = "OPEN" ~> circuit # "OPEN"

(* While it is closed there is room for one more failure, and a breaker    *)
(* that is not closed has seen one since the last answer.                  *)
ClosedBelowThreshold ==
  /\ circuit = "CLOSED" => failures < Threshold
  /\ circuit # "CLOSED" => failures > 0
=============================================================================
