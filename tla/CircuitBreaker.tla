--------------------------- MODULE CircuitBreaker ---------------------------
(***************************************************************************)
(* The breaker of circuit_breaker.py, shared by every thread of a process  *)
(* and without a lock.  A thread can lose the interpreter at any call, so  *)
(* each action below ends where call() or _on_failure() calls something:   *)
(* the logger, the clock, _reset or the guarded function itself.  A module *)
(* that composes callers starts a call with Look and reads its outcome.    *)
(***************************************************************************)
EXTENDS Naturals, FiniteSets

CONSTANTS Callers,     \* threads that share the breaker
          Threshold,   \* failure_threshold
          MaxProbes    \* half_open_max_calls

ASSUME ThresholdAssumption == Threshold \in Nat \ {0}
ASSUME MaxProbesAssumption == MaxProbes \in Nat \ {0}

VARIABLES
    state,      \* "CLOSED", "OPEN" or "HALF_OPEN"
    failures,   \* failure_count, up to the threshold
    probes,     \* half_open_calls
    cooled,     \* recovery_timeout has passed since last_failure_time
    at,         \* where a caller is in call()
    raced       \* history: the count was cleared under an open breaker

brkVars == <<state, failures, probes, cooled, at, raced>>

InCall   == {"probing", "calling", "closing", "counted", "opening"}
Outcomes == {"ok", "raised", "rejected"}

BreakerTypeOK ==
    /\ state \in {"CLOSED", "OPEN", "HALF_OPEN"}
    /\ failures \in 0 .. Threshold /\ probes \in 0 .. MaxProbes
    /\ cooled \in BOOLEAN /\ raced \in BOOLEAN
    /\ at \in [Callers -> {"idle"} \cup InCall \cup Outcomes]

BreakerInit ==
    /\ state = "CLOSED" /\ failures = 0 /\ probes = 0 /\ cooled = TRUE /\ raced = FALSE
    /\ at = [c \in Callers |-> "idle"]

Move(c, from, to) == at[c] = from /\ at' = [at EXCEPT ![c] = to]

(* Another caller is about to leave the closed or the open state because   *)
(* of the failures that are now forgotten.                                 *)
Overtakes(c) == \E d \in Callers \ {c} : at[d] \in {"probing", "opening"}

(* call() up to its first call of anything else: the state may be open and *)
(* rejecting, open and ready to probe, half open, or closed.               *)
Look(c) ==
    /\ \/ state = "OPEN" /\ cooled /\ Move(c, "idle", "probing") /\ UNCHANGED probes
       \/ state = "OPEN" /\ ~cooled /\ Move(c, "idle", "rejected") /\ UNCHANGED probes
       \/ /\ state = "HALF_OPEN" /\ probes >= MaxProbes
          /\ Move(c, "idle", "rejected") /\ UNCHANGED probes
       \/ /\ state = "HALF_OPEN" /\ probes < MaxProbes
          /\ Move(c, "idle", "calling") /\ probes' = probes + 1
       \/ state = "CLOSED" /\ Move(c, "idle", "calling") /\ UNCHANGED probes
    /\ UNCHANGED <<state, failures, cooled, raced>>

(* The thread that saw the open state makes it half open and is the first  *)
(* probe, whatever the state has become meanwhile.                         *)
Halve(c) ==
    /\ Move(c, "probing", "calling")
    /\ state' = "HALF_OPEN" /\ probes' = 1
    /\ UNCHANGED <<failures, cooled, raced>>

(* The function returns: a success in the half-open state closes, in any   *)
(* other state -- open too -- it only clears the count.                    *)
Returns(c) ==
    \/ /\ state = "HALF_OPEN" /\ Move(c, "calling", "closing")
       /\ UNCHANGED <<state, failures, probes, cooled, raced>>
    \/ /\ state # "HALF_OPEN" /\ Move(c, "calling", "ok")
       /\ failures' = 0 /\ raced' = (raced \/ state = "OPEN" \/ Overtakes(c))
       /\ UNCHANGED <<state, probes, cooled>>

Close(c) ==
    /\ Move(c, "closing", "ok")
    /\ state' = "CLOSED" /\ failures' = 0 /\ probes' = 0 /\ raced' = Overtakes(c)
    /\ UNCHANGED cooled

(* _on_failure counts, notes the time, and opens at the threshold.         *)
Raises(c) ==
    /\ Move(c, "calling", "counted")
    /\ failures' = IF failures < Threshold THEN failures + 1 ELSE failures
    /\ UNCHANGED <<state, probes, cooled, raced>>

(* Wrong: only a closed breaker trips.                                     *)
CountedWhenClosed(c) ==
    /\ Move(c, "counted",
            IF failures >= Threshold /\ state = "CLOSED" THEN "opening" ELSE "raised")
    /\ cooled' = FALSE
    /\ UNCHANGED <<state, failures, probes, raced>>

(* Wrong: one failure too early.                                           *)
CountedEarly(c) ==
    /\ Move(c, "counted", IF failures + 1 >= Threshold THEN "opening" ELSE "raised")
    /\ cooled' = FALSE
    /\ UNCHANGED <<state, failures, probes, raced>>

Counted(c) ==
    /\ Move(c, "counted", IF failures >= Threshold THEN "opening" ELSE "raised")
    /\ cooled' = FALSE
    /\ UNCHANGED <<state, failures, probes, raced>>

Open(c) ==
    /\ Move(c, "opening", "raised")
    /\ state' = "OPEN" /\ probes' = 0
    /\ UNCHANGED <<failures, cooled, raced>>

Cools ==
    /\ ~cooled /\ cooled' = TRUE
    /\ UNCHANGED <<state, failures, probes, at, raced>>

(* What a started call goes through; it ends in one of the outcomes.       *)
Proceed(c) == Halve(c) \/ Returns(c) \/ Close(c) \/ Raises(c) \/ Counted(c) \/ Open(c)

Finish(c) ==
    /\ at[c] \in Outcomes /\ at' = [at EXCEPT ![c] = "idle"]
    /\ UNCHANGED <<state, failures, probes, cooled, raced>>
=============================================================================
