----------------------------- MODULE Publishers -----------------------------
(***************************************************************************)
(* The publishers of pubsub.py over one Redis and one breaker: capture     *)
(* threads, which publish occupancy inside a try and crossings and lane    *)
(* changes outside any, and storage workers, which survive what a publish  *)
(* raises.  Neither the errors of Redis nor CircuitBreakerOpen are among   *)
(* the errors that publish_event and publish_live_state catch.             *)
(***************************************************************************)
EXTENDS CircuitBreaker

CONSTANT Captures   \* the callers that are capture threads
ASSUME CapturesAssumption == Captures \subseteq Callers

VARIABLES up,     \* Redis answers
          bare,   \* capture threads whose present call is outside the try
          gone    \* capture threads that a publish has ended

pubVars == <<brkVars, up, bare, gone>>

PublishersTypeOK == BreakerTypeOK /\ up \in BOOLEAN /\ gone \subseteq Captures /\ bare \subseteq Captures

PublishersInit == BreakerInit /\ up = TRUE /\ bare = {} /\ gone = {}

(* publish_live_state or publish_event begins.                             *)
Publish(c) ==
    /\ c \notin gone /\ Look(c)
    /\ bare' \in (IF c \in Captures THEN {bare, bare \cup {c}} ELSE {bare})
    /\ UNCHANGED <<up, gone>>

Step(c) ==
    /\ \/ Halve(c) \/ Close(c) \/ Counted(c) \/ Open(c)
       \/ up /\ Returns(c)
       \/ ~up /\ Raises(c)
    /\ UNCHANGED <<up, bare, gone>>

(* The call is over; an error outside the try ends the capture thread.     *)
Published(c) ==
    /\ Finish(c)
    /\ bare' = bare \ {c}
    /\ gone' = IF c \in bare /\ at[c] # "ok" THEN gone \cup {c} ELSE gone
    /\ UNCHANGED up

RedisChanges == up' = ~up /\ UNCHANGED <<brkVars, bare, gone>>
TimePasses   == Cools /\ UNCHANGED <<up, bare, gone>>

PublishersNext ==
    \/ \E c \in Callers : Publish(c) \/ Step(c) \/ Published(c)
    \/ RedisChanges \/ TimePasses

PublishersSpec == PublishersInit /\ [][PublishersNext]_pubVars

(* Threads are scheduled, calls end and time passes; and a capture thread  *)
(* that lives repeats its occupancy every second.                          *)
FairPublishers ==
    /\ PublishersSpec /\ WF_pubVars(TimePasses)
    /\ \A c \in Callers : WF_pubVars(Step(c)) /\ WF_pubVars(Published(c))
    /\ \A c \in Captures : WF_pubVars(Publish(c))

-----------------------------------------------------------------------------
(* The breaker trips on failures alone: it is not closed only after as     *)
(* many failures as the threshold, none of them forgotten by a success in  *)
(* between -- unless one thread's step has overtaken another's.            *)
TripsOnFailures == state = "CLOSED" \/ failures = Threshold \/ raced

(* ... and every caller on its way into or out of the open state has them   *)
(* behind it: the argument of the proof.                                    *)
BackedByFailures ==
    \/ raced
    \/ failures = Threshold
    \/ state = "CLOSED" /\ \A c \in Callers : at[c] \notin {"probing", "opening"}

(* A half-open breaker always has a caller out that will close it or open   *)
(* it again -- unless one thread's step has overtaken another's.  With none *)
(* out and the probes used up it would reject every call from then on.      *)
HalfOpenIsProbed ==
    \/ raced
    \/ state = "HALF_OPEN" =>
          \E c \in Callers : at[c] \in {"calling", "closing", "counted", "opening"}

(* "HALF_OPEN -> probe request, success -> CLOSED": once Redis answers for *)
(* good, the breaker closes as long as a capture thread is left -- unless    *)
(* one thread's step has overtaken another's and used the probes up.       *)
RecoversWithRedis ==
    (<>[]up) => []<>(state = "CLOSED" \/ raced \/ Captures = gone)

(* Without the exception: a late success clears the count of an open       *)
(* breaker, the next probe that fails stays below the threshold, and the   *)
(* half-open state with no probes left rejects every call from then on.    *)
AlwaysRecovers == (<>[]up) => []<>(state = "CLOSED" \/ Captures = gone)
=============================================================================
