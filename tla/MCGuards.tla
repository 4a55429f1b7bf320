------------------------------ MODULE MCGuards ------------------------------
(***************************************************************************)
(* Instances of the guards in front of requests: digichat's run lock and   *)
(* digigraph's circuit breaker and rate limiter.  They share no state, so  *)
(* a behaviour is one of a single guard, as part says.                     *)
(***************************************************************************)
EXTENDS ChatRunLock, CircuitBreaker, RateLimiter

CONSTANTS s1, s2, i1, i2, h1, h2, h3, c1, c2, c3, b1, b2, b3

VARIABLE part

vars == <<chat, breaker, limiter, part>>

Init == ChatInit /\ BreakerInit /\ LimiterInit /\ part \in {"chat", "breaker", "limiter"}

Next ==
  /\ \/ part = "chat" /\ ChatNext /\ UNCHANGED <<breaker, limiter>>
     \/ part = "breaker" /\ BreakerNext /\ UNCHANGED <<chat, limiter>>
     \/ part = "limiter" /\ LimiterNext /\ UNCHANGED <<chat, breaker>>
  /\ UNCHANGED part

(* Time passes; calls end, their client's timeout sees to that; and some   *)
(* caller comes by.                                                        *)
Fairness ==
  /\ WF_vars(part = "chat" /\ EntriesAge /\ UNCHANGED <<breaker, limiter, part>>)
  /\ WF_vars(part = "breaker" /\ RecoveryTick /\ UNCHANGED <<chat, limiter, part>>)
  /\ \A c \in Callers :
       WF_vars(part = "breaker" /\ BreakerStep(c) /\ UNCHANGED <<chat, limiter, part>>)

FairSpec == Init /\ [][Next]_vars /\ Fairness

(* circuit_breaker.py: "before allowing a single probe request through".   *)
(* Refuted (README, section 5): any number of calls enter a half-open one. *)
SingleProbe ==
  circuit = "HALF_OPEN" => \A c, d \in Callers \ stale :
    Calling(c) /\ Calling(d) => c = d
=============================================================================
