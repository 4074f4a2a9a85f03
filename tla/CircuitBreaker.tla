--------------------------- MODULE CircuitBreaker ---------------------------
(* The breaker of circuit_breaker.py: callers ask can_execute, call, and    *)
(* record how it went.  Ages and failures stop at the limits they are       *)
(* compared with.                                                          *)
EXTENDS Naturals, FiniteSets

CONSTANTS Callers, Threshold, Recovery
(* What the constants must satisfy.                                        *)
BreakerConstants == Threshold \in Nat \ {0} /\ Recovery \in Nat \ {0}

VARIABLES state,     \* _state
          failures,  \* _failures, up to Threshold
          age,       \* time since _last_failure_time, up to Recovery
          call       \* the state in which each caller was let through, or "none"
vars == <<state, failures, age, call>>

Init == /\ state = "closed" /\ failures = 0 /\ age = Recovery
        /\ call = [c \in Callers |-> "none"]

Tick == age < Recovery /\ age' = age + 1 /\ UNCHANGED <<state, failures, call>>
(* The property state: asking moves an open breaker on. *)
Seen == IF state = "open" /\ age = Recovery THEN "half_open" ELSE state
Ask(c) == /\ call[c] = "none" /\ state' = Seen
          /\ call' = [call EXCEPT ![c] = IF Seen = "open" THEN "none" ELSE Seen]
          /\ UNCHANGED <<failures, age>>

Success(c) == /\ call[c] # "none" /\ failures' = 0 /\ state' = "closed"
              /\ call' = [call EXCEPT ![c] = "none"] /\ UNCHANGED age
Counted == IF failures < Threshold THEN failures + 1 ELSE failures
Failure(c) == /\ call[c] # "none" /\ failures' = Counted /\ age' = 0
              /\ state' = IF Counted = Threshold THEN "open" ELSE state
              /\ call' = [call EXCEPT ![c] = "none"]

Next == Tick \/ \E c \in Callers : Ask(c) \/ Success(c) \/ Failure(c)
(* Time passes, and callers go on asking; a call need not end.             *)
Spec == Init /\ [][Next]_vars /\ WF_vars(Tick) /\ \A c \in Callers : WF_vars(Ask(c))

-----------------------------------------------------------------------------
Running == {c \in Callers : call[c] # "none"}
(* A breaker is open or half open only after enough failures in a row.      *)
TypeOK == /\ state \in {"closed", "open", "half_open"} /\ age \in 0..Recovery
          /\ state = "closed" <=> failures < Threshold
          /\ state = "half_open" => age = Recovery

(* "OPEN: requests blocked, after recovery_timeout -> HALF_OPEN": nothing    *)
(* else ends the blocking of a lone caller.                                 *)
BlockedSince == age < Recovery /\ state = "open" => state' = "open"

(* With several callers, what ends it early is the success of a call that    *)
(* was let through before the breaker opened; nobody else gets through.     *)
OnlyLateSuccess == age < Recovery /\ state = "open" =>
  /\ \A c \in Callers : call[c] = "none" => call'[c] = "none"
  /\ state' # "open" => state' = "closed" /\ \E c \in Callers : call[c] # "none" /\ call'[c] = "none"

(* "HALF_OPEN: one request allowed" *)
OneProbe == Cardinality({c \in Running : call[c] = "half_open"}) <= 1

(* "success -> CLOSED, failure -> OPEN": who was let through half open leaves *)
(* the breaker closed or open, whatever the calls of others did meanwhile.   *)
ProbeDecides == \A c \in Callers : call[c] = "half_open" /\ call'[c] = "none" => state' \in {"closed", "open"}

(* A breaker that is open lets a call through in the end, whatever failures  *)
(* come late.                                                               *)
Waits == state = "open" /\ Running = {}
=============================================================================
