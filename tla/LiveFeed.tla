------------------------------ MODULE LiveFeed ------------------------------
(***************************************************************************)
(* The live WebSocket of routes_ws.py and the bus of live_bus.py: limits   *)
(* on connections, Redis listeners shared by reference count, broadcasts,  *)
(* the heartbeat, and the bounded queue that bridges threads to the event  *)
(* loop.  Handlers are coroutines of one loop: an action runs from one     *)
(* await that suspends to the next.  _redis_lock is never held over an     *)
(* await; _state_lock is, by a handler that turns its client away.         *)
(***************************************************************************)
EXTENDS Naturals, FiniteSets, Sequences

CONSTANTS
    Clients,      \* WebSocket clients, each of which connects once
    Alice,        \* those of one user; every other client has its own user
    Admins,       \* those that name no camera; the rest name the camera
    Followed,     \* one client, whose heartbeat and queue are followed
    Fragile,      \* those whose connection may break, not only close
    BusClients,   \* those that come when Redis is not configured
    MaxGlobal, MaxPerUser,   \* the limits on connections
    QueueLimit,   \* maxsize of the bus queue
    AgeLimit,     \* heartbeat timeout, in heartbeat intervals
    MaxUnread,    \* bound on what the followed client says unread
    MaxEvents     \* bound on the events of the bus

ASSUME ClientsAssumption ==
    /\ IsFiniteSet(Clients) /\ Alice \subseteq Clients /\ Admins \subseteq Clients
    /\ Followed \in Clients /\ {Fragile, BusClients} \subseteq SUBSET Clients
ASSUME LimitsAssumption ==
    /\ {MaxGlobal, MaxPerUser, QueueLimit, AgeLimit} \subseteq Nat \ {0}
    /\ {MaxUnread, MaxEvents} \subseteq Nat

VARIABLES
    redis,      \* REDIS_HOST is set
    pc,         \* where a client's handler is
    lock,       \* the holder of _state_lock over an await, or a set of none
    queue,      \* handlers that wait for _state_lock, in order
    conns,      \* clients in _connections
    cams,       \* clients in _ws_cameras
    count,      \* _global_count
    alices,     \* _user_connections of the one user
    entry,      \* the channel's entry in _redis_listeners: task and refcount
    tasks,      \* listener tasks that have not ended, named by who started them
    cancelled,  \* those of them that are cancelled
    todo,       \* clients that the broadcast of a listener has still to serve
    broken,     \* clients whose connection is gone
    waited,     \* history: clients that had to wait for the lock to enter
    beat,       \* the followed client's heartbeat
    bus         \* the followed client's queue

connVars == <<pc, lock, queue, conns, cams, count, alices, waited>>
listVars == <<entry, tasks, cancelled>>
vars == <<redis, connVars, listVars, todo, broken, beat, bus>>

Sayings    == {"pong", "other"}
Waiting    == {"entering", "leaving"}
Registered == {"welcome", "loop", "leaving"}
Places     == {"new", "auth", "turning", "ended", "leaked"} \cup Waiting \cup Registered

TypeOK ==
    /\ redis \in BOOLEAN /\ pc \in [Clients -> Places]
    /\ {lock, conns, cams, tasks, cancelled, broken, waited} \subseteq SUBSET Clients
    /\ todo \in [Clients -> SUBSET Clients]
    /\ queue \in Seq(Clients) /\ count \in Nat /\ alices \in Nat
    /\ entry \in {<<>>} \cup [task : Clients, refs : Nat \ {0}]
    /\ beat \in [age : 0 .. AgeLimit, pinged : BOOLEAN, inbox : Seq(Sayings),
                 taken : SUBSET {"events", "messages"}]
    /\ bus \in [published : 0 .. MaxEvents, last : 0 .. MaxEvents,
                coming : Seq(1 .. MaxEvents), held : Seq(1 .. MaxEvents)]

(* The loop's own: how long no pong was read, whether a ping is unanswered, *)
(* what the client has said, and what took the turns since the last pong.  *)
NoBeat == [age |-> 0, pinged |-> FALSE, inbox |-> <<>>, taken |-> {}]

Init ==
    /\ redis \in BOOLEAN
    /\ pc = [c \in Clients |-> IF redis \/ c \in BusClients THEN "new" ELSE "ended"]
    /\ queue = <<>> /\ entry = <<>> /\ count = 0 /\ alices = 0
    /\ lock = {} /\ conns = {} /\ cams = {} /\ tasks = {} /\ cancelled = {}
    /\ todo = [t \in Clients |-> {}]
    /\ broken = {} /\ waited = {}
    /\ beat = NoBeat
    /\ bus = [published |-> 0, last |-> 0, coming |-> <<>>, held |-> <<>>]

Goto(c, from, to) == pc[c] = from /\ pc' = [pc EXCEPT ![c] = to]
LockIsFree == lock = {} /\ queue = <<>>
Less(n)    == IF n = 0 THEN 0 ELSE n - 1

-----------------------------------------------------------------------------
(* Entering.  What follows a lock that is free happens in the same step.   *)

Accept(c) ==
    /\ Goto(c, "new", IF count < MaxGlobal THEN "auth" ELSE "ended")
    /\ UNCHANGED <<redis, lock, queue, conns, cams, count, alices, waited, listVars, todo,
                   broken, beat, bus>>

(* No token in time or none that is valid, or a subscription that is not   *)
(* allowed.                                                                *)
Reject(c) ==
    /\ Goto(c, "auth", "ended")
    /\ UNCHANGED <<redis, lock, queue, conns, cams, count, alices, waited, listVars, todo,
                   broken, beat, bus>>

(* Under the lock: turn the client away, and keep the lock while closing;  *)
(* or register it.                                                         *)
Enter(c) ==
    IF count >= MaxGlobal
    THEN /\ pc' = [pc EXCEPT ![c] = "turning"] /\ lock' = {c}
         /\ UNCHANGED <<conns, cams, count, alices>>
    ELSE /\ pc' = [pc EXCEPT ![c] = "welcome"] /\ lock' = {}
         /\ conns' = conns \cup {c} /\ cams' = cams \cup {c}
         /\ count' = count + 1 /\ alices' = IF c \in Alice THEN alices + 1 ELSE alices

(* The user's limit is looked at before the lock.                          *)
Admit(c) ==
    /\ pc[c] = "auth" /\ (c \in Alice => alices < MaxPerUser)
    /\ \/ LockIsFree /\ Enter(c) /\ UNCHANGED <<queue, waited>>
       \/ /\ ~LockIsFree /\ Goto(c, "auth", "entering")
          /\ queue' = Append(queue, c) /\ waited' = waited \cup {c}
          /\ UNCHANGED <<lock, conns, cams, count, alices>>
    /\ UNCHANGED <<redis, listVars, todo, broken, beat, bus>>

EnterAtLast(c) ==
    /\ pc[c] = "entering" /\ lock = {} /\ Head(queue) = c /\ queue' = Tail(queue)
    /\ Enter(c)
    /\ UNCHANGED <<redis, waited, listVars, todo, broken, beat, bus>>

TurnedAway(c) ==
    /\ Goto(c, "turning", "ended") /\ lock' = {}
    /\ UNCHANGED <<redis, queue, conns, cams, count, alices, waited, listVars, todo, broken,
                   beat, bus>>

-----------------------------------------------------------------------------
(* The listener of the channel.                                            *)

Ensure(c) ==
    IF entry # <<>>
    THEN entry' = [entry EXCEPT !.refs = @ + 1] /\ UNCHANGED <<tasks, cancelled>>
    ELSE /\ entry' = [task |-> c, refs |-> 1] /\ tasks' = tasks \cup {c}
         /\ UNCHANGED cancelled

Release ==
    IF entry = <<>>
    THEN UNCHANGED listVars
    ELSE IF entry.refs > 1
    THEN entry' = [entry EXCEPT !.refs = @ - 1] /\ UNCHANGED <<tasks, cancelled>>
    ELSE entry' = <<>> /\ cancelled' = cancelled \cup {entry.task} /\ UNCHANGED tasks

(* Wrong: a listener that ends clears the channel, whoever listens now.    *)
ListenerEndsClearing(t) ==
    /\ t \in cancelled /\ cancelled' = cancelled \ {t} /\ tasks' = tasks \ {t}
    /\ entry' = <<>> /\ todo' = [todo EXCEPT ![t] = {}]
    /\ UNCHANGED <<redis, connVars, broken, beat, bus>>

(* A cancelled listener ends, at whatever it awaits, and clears the entry  *)
(* if it is its own.                                                       *)
ListenerEnds(t) ==
    /\ t \in cancelled /\ cancelled' = cancelled \ {t} /\ tasks' = tasks \ {t}
    /\ entry' = IF entry # <<>> /\ entry.task = t THEN <<>> ELSE entry
    /\ todo' = [todo EXCEPT ![t] = {}]
    /\ UNCHANGED <<redis, connVars, broken, beat, bus>>

(* broadcast_raw of a message of the camera, over a copy of the lists.     *)
Broadcast(t) ==
    /\ t \in tasks \ cancelled /\ todo[t] = {} /\ todo' = [todo EXCEPT ![t] = conns]
    /\ UNCHANGED <<redis, connVars, listVars, broken, beat, bus>>

(* Wrong: whoever is not looked up any more is taken off the counts too.   *)
SendOneUncounting(t, c) ==
    /\ c \in todo[t] /\ todo' = [todo EXCEPT ![t] = @ \ {c}]
    /\ IF c \in broken \/ pc[c] \in {"ended", "leaked"}
       THEN conns' = conns \ {c} /\ cams' = cams \ {c} /\ count' = Less(count)
       ELSE UNCHANGED <<conns, cams, count>>
    /\ UNCHANGED <<redis, pc, lock, queue, alices, waited, listVars, broken, beat, bus>>

(* Wrong: one failed send clears the list of all who share its key.        *)
SendOneClearing(t, c) ==
    /\ c \in todo[t] /\ todo' = [todo EXCEPT ![t] = @ \ {c}]
    /\ IF c \in broken \/ pc[c] \in {"ended", "leaked"}
       THEN conns' = {} /\ cams' = cams \ {c}
       ELSE UNCHANGED <<conns, cams>>
    /\ UNCHANGED <<redis, pc, lock, queue, count, alices, waited, listVars, broken, beat, bus>>

(* A send that fails removes the client, and its handler has yet to notice.*)
SendOne(t, c) ==
    /\ c \in todo[t] /\ todo' = [todo EXCEPT ![t] = @ \ {c}]
    /\ IF c \in broken \/ pc[c] \in {"ended", "leaked"}
       THEN conns' = conns \ {c} /\ cams' = cams \ {c}
       ELSE UNCHANGED <<conns, cams>>
    /\ UNCHANGED <<redis, pc, lock, queue, count, alices, waited, listVars, broken, beat, bus>>

-----------------------------------------------------------------------------
(* Registered, before and in the handler's loop.                           *)

(* A camera named is listened to through Redis, or else through the bus.   *)
Welcome(c) ==
    /\ Goto(c, "welcome", "loop")
    /\ IF redis /\ c \notin Admins THEN Ensure(c) ELSE UNCHANGED listVars
    /\ bus' = IF c = Followed THEN [bus EXCEPT !.last = bus.published] ELSE bus
    /\ UNCHANGED <<redis, lock, queue, conns, cams, count, alices, waited, todo, broken, beat>>

(* _send_json does not catch what a closed connection raises here, and the *)
(* clause that uncounts has not begun.                                     *)
WelcomeFails(c) ==
    /\ c \in broken /\ Goto(c, "welcome", "leaked")
    /\ UNCHANGED <<redis, lock, queue, conns, cams, count, alices, waited, listVars, todo,
                   broken, beat, bus>>

Uncount(c) ==
    /\ pc' = [pc EXCEPT ![c] = "ended"]
    /\ conns' = conns \ {c} /\ cams' = cams \ {c} /\ count' = Less(count)
    /\ alices' = IF c \in Alice THEN Less(alices) ELSE alices
    /\ IF redis /\ c \notin Admins THEN Release ELSE UNCHANGED listVars

(* The finally clause, which needs the lock.                               *)
Leave(c) ==
    /\ pc[c] = "loop"
    /\ \/ LockIsFree /\ Uncount(c) /\ UNCHANGED <<lock, queue>>
       \/ /\ ~LockIsFree /\ Goto(c, "loop", "leaving") /\ queue' = Append(queue, c)
          /\ UNCHANGED <<lock, conns, cams, count, alices, listVars>>
    /\ UNCHANGED <<redis, waited, todo, broken>>

LeaveAtLast(c) ==
    /\ pc[c] = "leaving" /\ lock = {} /\ Head(queue) = c /\ queue' = Tail(queue)
    /\ Uncount(c)
    /\ UNCHANGED <<redis, lock, waited, todo, broken, beat, bus>>

(* Any other client's loop ends by its disconnection or its heartbeat.     *)
OtherLeaves(c) == c # Followed /\ Leave(c) /\ UNCHANGED <<beat, bus>>

Disconnect(c) ==
    /\ c \in Fragile /\ pc[c] \in {"auth"} \cup Waiting \cup Registered /\ c \notin broken
    /\ broken' = broken \cup {c}
    /\ UNCHANGED <<redis, connVars, listVars, todo, beat, bus>>

-----------------------------------------------------------------------------
(* The followed client's loop.                                             *)

Looping == pc[Followed] = "loop"
Idle    == Looping /\ bus.held = <<>>
OlderBy(n) == IF beat.age + n > AgeLimit THEN AgeLimit ELSE beat.age + n
Reads(saying) == Idle /\ beat.inbox # <<>> /\ Head(beat.inbox) = saying
FollowedLeaves == Leave(Followed) /\ beat' = NoBeat /\ UNCHANGED bus

(* An event is sent, and neither pings nor pongs are looked at.            *)
ServeEvent ==
    /\ Looping /\ bus.held # <<>>
    /\ IF Followed \in broken
       THEN FollowedLeaves
       ELSE /\ bus' = [bus EXCEPT !.last = Head(bus.held), !.held = Tail(bus.held)]
            /\ \E n \in 0 .. 1 :
                  beat' = [beat EXCEPT !.age = OlderBy(n), !.taken = @ \cup {"events"}]
            /\ UNCHANGED <<redis, connVars, listVars, todo, broken>>

(* Wrong: what the client says is not taken as a sign of life.             *)
ReadPongIdly ==
    /\ Reads("pong")
    /\ beat' = [beat EXCEPT !.age = OlderBy(1), !.inbox = Tail(@), !.taken = {}]
    /\ UNCHANGED <<redis, connVars, listVars, todo, broken, bus>>

(* After a quiet interval: a pong is read ...                              *)
ReadPong ==
    /\ Reads("pong")
    /\ beat' = [beat EXCEPT !.age = 0, !.inbox = Tail(@), !.taken = {}]
    /\ UNCHANGED <<redis, connVars, listVars, todo, broken, bus>>

(* ... or something else, which takes the turn: no ping is sent and the    *)
(* time of the last pong stays.  What is no object ends the handler.       *)
ReadOther ==
    /\ Reads("other")
    /\ \/ /\ beat' = [beat EXCEPT !.age = OlderBy(1), !.inbox = Tail(@),
                                  !.taken = @ \cup {"messages"}]
          /\ UNCHANGED <<redis, connVars, listVars, todo, broken, bus>>
       \/ FollowedLeaves

(* ... or the disconnection is seen ...                                    *)
SeeDisconnect ==
    /\ Idle /\ beat.inbox = <<>> /\ Followed \in broken
    /\ FollowedLeaves

(* ... or a client silent for too long is closed ...                       *)
CloseSilent ==
    /\ Idle /\ beat.inbox = <<>> /\ Followed \notin broken
    /\ OlderBy(1) = AgeLimit
    /\ FollowedLeaves

(* ... or it is asked.                                                     *)
Ping ==
    /\ Idle /\ beat.inbox = <<>> /\ Followed \notin broken
    /\ OlderBy(1) < AgeLimit
    /\ beat' = [beat EXCEPT !.age = OlderBy(1), !.pinged = TRUE]
    /\ UNCHANGED <<redis, connVars, listVars, todo, broken, bus>>

(* The client answers, or says something of its own.                       *)
Pong ==
    /\ Looping /\ beat.pinged /\ Followed \notin broken
    /\ beat' = [beat EXCEPT !.pinged = FALSE, !.inbox = Append(@, "pong")]
    /\ UNCHANGED <<redis, connVars, listVars, todo, broken, bus>>

Say ==
    /\ Looping /\ Followed \notin broken /\ Len(beat.inbox) < MaxUnread
    /\ beat' = [beat EXCEPT !.inbox = Append(@, "other")]
    /\ UNCHANGED <<redis, connVars, listVars, todo, broken, bus>>

(* LiveEventBus.publish, in a capture thread, schedules the hand-over.     *)
PublishEvent ==
    /\ ~redis /\ bus.published < MaxEvents
    /\ LET n == bus.published + 1
       IN  bus' = [bus EXCEPT !.published = n,
                       !.coming = IF Looping THEN Append(@, n) ELSE @]
    /\ UNCHANGED <<redis, connVars, listVars, todo, broken, beat>>

(* _enqueue_from_thread: the oldest makes room.                            *)
Enqueue ==
    /\ bus.coming # <<>>
    /\ bus' = [bus EXCEPT !.coming = Tail(@),
                   !.held = Append(IF Len(@) < QueueLimit THEN @ ELSE Tail(@),
                                   Head(bus.coming))]
    /\ UNCHANGED <<redis, connVars, listVars, todo, broken, beat>>

Next ==
    \/ \E c \in Clients :
          \/ Accept(c) \/ Reject(c) \/ Admit(c) \/ EnterAtLast(c) \/ TurnedAway(c)
          \/ Welcome(c) \/ WelcomeFails(c) \/ OtherLeaves(c) \/ LeaveAtLast(c)
          \/ Disconnect(c) \/ ListenerEnds(c) \/ Broadcast(c)
          \/ \E d \in Clients : SendOne(c, d)
    \/ ServeEvent \/ ReadPong \/ ReadOther \/ SeeDisconnect \/ CloseSilent
    \/ Ping \/ Pong \/ Say
    \/ PublishEvent \/ Enqueue

Spec == Init /\ [][Next]_vars

-----------------------------------------------------------------------------
Holding == {c \in Clients : pc[c] \in Registered \cup {"leaked"}}
Served  == {c \in Clients \ Admins : pc[c] \in {"loop", "leaving"}}

(* The counts are those of the clients registered and of those leaked by a *)
(* failed welcome; the server's limit holds, and a user's is overrun only  *)
(* by clients that had to wait for the lock after they were looked at.     *)
LimitsHold ==
    /\ count = Cardinality(Holding) /\ count <= MaxGlobal
    /\ alices = Cardinality(Holding \cap Alice)
    /\ alices <= MaxPerUser + Cardinality(waited \cap Alice)

(* ... the argument of the proof: those who did not wait keep the limit.   *)
EnteredInv ==
    /\ \A c \in Clients : pc[c] = "entering" => c \in waited
    /\ Cardinality((Holding \cap Alice) \ waited) <= MaxPerUser

(* There is one listener task that is not cancelled while any client that  *)
(* named the camera is served, counted once for each of them, and none     *)
(* otherwise, however connects, releases and late ends interleave.         *)
OneListener ==
    IF redis /\ Served # {}
    THEN /\ entry # <<>> /\ entry.refs = Cardinality(Served)
         /\ tasks \ cancelled = {entry.task}
    ELSE entry = <<>> /\ tasks = cancelled

(* ... the argument of the proof: a task bears the name of one that has     *)
(* been welcomed, so that nobody starts a second of its name.               *)
TasksInv ==
    /\ cancelled \subseteq tasks
    /\ \A t \in tasks : pc[t] \in {"loop", "leaving", "ended"}

(* A reader of the bus gets events in their order and, once it has caught  *)
(* up, has the newest: an overflow costs it the oldest.                    *)
Ahead == <<bus.last>> \o bus.held \o bus.coming
FeedIsFresh ==
    Looping /\ ~redis =>
        /\ \A i \in 1 .. Len(Ahead) - 1 : Ahead[i] < Ahead[i + 1]
        /\ Ahead[Len(Ahead)] = bus.published

(* A client whose connection stands is where broadcasts look for it,       *)
(* whatever a broadcast over old lists has removed, and a reader of the    *)
(* bus is not left behind.                                                 *)
ConnectedAreReached ==
    /\ \A c \in Clients : pc[c] \in Registered /\ c \notin broken => c \in conns \cap cams
    /\ FeedIsFresh

(* The arguments of the proofs: before it is welcomed the followed client  *)
(* has nothing on its way; and a heartbeat ages only by a ping, by events   *)
(* or by what is no pong.                                                  *)
FreshInv == pc[Followed] \in {"new", "auth", "turning", "entering", "welcome"} =>
                bus.held = <<>> /\ bus.coming = <<>>
BeatInv  ==
    \/ beat.age = 0 \/ beat.pinged \/ beat.taken # {}
    \/ \E i \in 1 .. Len(beat.inbox) : beat.inbox[i] = "pong"

(* Whoever waits for the lock is in its queue.                              *)
QueueInv == \A c \in Clients : pc[c] \in Waiting => \E i \in 1 .. Len(queue) : queue[i] = c

(* A client is closed for silence only if it has left a ping unanswered.   *)
(* The exceptions are those of a loop that does one thing in a turn: since *)
(* the last pong was read, events kept it from asking and from reading the *)
(* answers, or the client said something else, which is read in place of a *)
(* ping and is no sign of life.                                            *)
ClosesOnlySilent == [][CloseSilent => beat.pinged \/ beat.taken # {}]_vars
=============================================================================
