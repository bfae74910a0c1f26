------------------------ MODULE CaptureSignalsProofs ------------------------
(***************************************************************************)
(* What TLAPS proves of CaptureSignals for every number of generations, of *)
(* attempts and of alerts kept: that what is shown as active is what is    *)
(* suppressed, that a thread delivering frames has cleared its alerts, and *)
(* that a camera is shown as on only while somebody keeps it so.           *)
(***************************************************************************)
EXTENDS CaptureSignals, SequenceTheorems, FiniteSetTheorems, TLAPS

----------------------------------------------------------------------------
(* What the operations of alert_service.py do to the history and the keys. *)

(* A new alert, with the oldest forgotten when d is 1.                      *)
Added(key, by, d) ==
    /\ key \notin DOMAIN active
    /\ alerts' \in Seq(Alert) /\ Len(alerts') = Len(alerts) + 1 - d
    /\ Len(alerts') \in 1 .. HistoryLimit
    /\ \A p \in 1 .. Len(alerts) : p > d => alerts'[p - d] = alerts[p]
    /\ \A q \in 1 .. Len(alerts') : q = Len(alerts') \/ alerts'[q] = alerts[q + d]
    /\ alerts'[Len(alerts')] = [key |-> key, by |-> by, resolved |-> FALSE]
    /\ DOMAIN active' = DOMAIN active \cup {key}
    /\ active'[key] = Len(alerts')
    /\ \A k \in DOMAIN active :
          active'[k] = IF active[k] <= d THEN 0 ELSE active[k] - d

(* The alert of a key resolved, if it is still there, and the key removed.  *)
Settled(key) ==
    /\ key \in DOMAIN active
    /\ alerts' \in Seq(Alert) /\ Len(alerts') = Len(alerts)
    /\ \A p \in 1 .. Len(alerts) :
          alerts'[p] = IF p = active[key] THEN [alerts[p] EXCEPT !.resolved = TRUE]
                                          ELSE alerts[p]
    /\ DOMAIN active' = DOMAIN active \ {key}
    /\ \A k \in DOMAIN active' : active'[k] = active[k]

AlertTypeOK ==
    /\ alerts \in Seq(Alert) /\ Len(alerts) <= HistoryLimit
    /\ DOMAIN active \subseteq Keys
    /\ \A k \in DOMAIN active : active[k] \in 0 .. Len(alerts)

(* What is in the history are alerts.                                       *)
LEMMA AlertsAre == ASSUME AlertTypeOK PROVE \A p \in 1 .. Len(alerts) : alerts[p] \in Alert
BY ElementOfSeq DEF AlertTypeOK

(* emit(): suppressed, or appended.                                         *)
LEMMA EmitAdds ==
    ASSUME AlertTypeOK, NEW key \in Keys, NEW by \in Gens \cup {0}, Emit(key, by)
    PROVE  \/ UNCHANGED alertVars
           \/ Added(key, by, 0) \/ Added(key, by, 1)
<1> DEFINE new  == [key |-> key, by |-> by, resolved |-> FALSE]
           all  == Append(alerts, new)
           from == [k \in DOMAIN active \cup {key} |->
                      IF k = key THEN Len(all) ELSE active[k]]
<1>1. CASE key \in DOMAIN active
  BY <1>1 DEF Emit
<1>2. CASE key \notin DOMAIN active
  <2>1. alerts \in Seq(Alert) /\ Len(alerts) \in Nat /\ Len(alerts) <= HistoryLimit
        /\ HistoryLimit \in Nat \ {0} /\ new \in Alert
    BY LimitAssumption DEF AlertTypeOK, Alert
  <2>2. all \in Seq(Alert) /\ Len(all) = Len(alerts) + 1 /\ all[Len(all)] = new
        /\ \A p \in 1 .. Len(alerts) : all[p] = alerts[p]
    BY <2>1
  <2>3. \A k \in DOMAIN active : active[k] \in 0 .. Len(alerts)
    BY DEF AlertTypeOK
  <2>4. /\ DOMAIN from = DOMAIN active \cup {key} /\ from[key] = Len(all)
        /\ \A k \in DOMAIN active : from[k] = active[k]
    BY <1>2
  <2>5. /\ Len(all) <= HistoryLimit => alerts' = all /\ active' = from
        /\ ~ (Len(all) <= HistoryLimit) =>
              /\ alerts' = Tail(all)
              /\ active' = [k \in DOMAIN from |-> IF from[k] = 0 THEN 0 ELSE from[k] - 1]
    BY <1>2 DEF Emit
  <2> HIDE DEF all, from, new
  <2>6. CASE Len(all) <= HistoryLimit
    <3>1. alerts' = all /\ active' = from
      BY <2>5, <2>6
    <3>2. \A k \in DOMAIN active : active'[k] = IF active[k] <= 0 THEN 0 ELSE active[k] - 0
      BY <2>3, <2>4, <3>1
    <3>3. /\ \A p \in 1 .. Len(alerts) : p > 0 => alerts'[p - 0] = alerts[p]
          /\ \A q \in 1 .. Len(alerts') : q = Len(alerts') \/ alerts'[q] = alerts[q + 0]
      BY <2>1, <2>2, <3>1
    <3>4. Len(alerts') = Len(alerts) + 1 - 0 /\ Len(alerts') \in 1 .. HistoryLimit
      BY <2>1, <2>2, <2>6, <3>1
    <3> QED BY <1>2, <2>2, <2>4, <3>1, <3>2, <3>3, <3>4 DEF Added, new
  <2>7. CASE ~ (Len(all) <= HistoryLimit)
    <3>1. /\ alerts' = Tail(all)
          /\ active' = [k \in DOMAIN from |-> IF from[k] = 0 THEN 0 ELSE from[k] - 1]
      BY <2>5, <2>7
    <3>2. Len(alerts) = HistoryLimit
      BY <2>1, <2>2, <2>7
    <3>3. /\ Tail(all) \in Seq(Alert) /\ Len(Tail(all)) = Len(alerts)
          /\ \A q \in 1 .. Len(alerts) : Tail(all)[q] = all[q + 1]
      BY <2>1, <2>2
    <3>4. \A k \in DOMAIN active : active'[k] = IF active[k] <= 1 THEN 0 ELSE active[k] - 1
      BY <2>3, <2>4, <3>1
    <3>5. active'[key] = Len(alerts) /\ DOMAIN active' = DOMAIN active \cup {key}
      BY <2>1, <2>2, <2>4, <3>1
    <3>6. /\ \A p \in 1 .. Len(alerts) : p > 1 => alerts'[p - 1] = alerts[p]
          /\ \A q \in 1 .. Len(alerts') : q = Len(alerts') \/ alerts'[q] = alerts[q + 1]
      BY <2>1, <2>2, <3>1, <3>3
    <3>7. alerts'[Len(alerts')] = new
      BY <2>1, <2>2, <3>1, <3>2, <3>3
    <3>8. Len(alerts') = Len(alerts) + 1 - 1 /\ Len(alerts') \in 1 .. HistoryLimit
      BY <2>1, <3>1, <3>2, <3>3
    <3> QED BY <1>2, <3>1, <3>3, <3>4, <3>5, <3>6, <3>7, <3>8 DEF Added, new
  <2> QED BY <2>6, <2>7
<1> QED BY <1>1, <1>2

(* An alert of the history marked as resolved.                              *)
LEMMA ResolvedAt ==
    ASSUME NEW s \in Seq(Alert), NEW i \in 1 .. Len(s), NEW t,
           t = [s EXCEPT ![i].resolved = TRUE]
    PROVE  /\ t \in Seq(Alert) /\ Len(t) = Len(s)
           /\ \A p \in 1 .. Len(s) :
                 t[p] = IF p = i THEN [s[p] EXCEPT !.resolved = TRUE] ELSE s[p]
<1>1. s[i] \in Alert
  BY ElementOfSeq
<1>2. [s[i] EXCEPT !.resolved = TRUE] \in Alert
  BY <1>1 DEF Alert
<1>3. PICK e \in Alert : e = [s[i] EXCEPT !.resolved = TRUE] /\ t = [s EXCEPT ![i] = e]
  BY <1>2
<1>4. t \in Seq(Alert) /\ Len(t) = Len(s)
  BY <1>3, ExceptSeq
<1>5. \A p \in 1 .. Len(s) : t[p] = IF p = i THEN e ELSE s[p]
  BY <1>3, ExceptSeq
<1> QED BY <1>3, <1>4, <1>5

(* resolve_by_key(): nothing to resolve, or settled.                        *)
LEMMA ResolveSettles ==
    ASSUME AlertTypeOK, NEW key \in Keys, Resolve(key)
    PROVE  UNCHANGED alertVars \/ Settled(key)
<1>1. CASE key \notin DOMAIN active
  BY <1>1 DEF Resolve
<1>2. CASE key \in DOMAIN active
  <2>1. /\ DOMAIN active' = DOMAIN active \ {key}
        /\ \A k \in DOMAIN active' : active'[k] = active[k]
    BY <1>2 DEF Resolve, Unsuppress
  <2>2. active[key] \in 0 .. Len(alerts) /\ alerts \in Seq(Alert)
    BY <1>2 DEF AlertTypeOK
  <2>3. CASE active[key] = 0
    <3>1. alerts' = alerts
      BY <1>2, <2>3 DEF Resolve
    <3> QED BY <1>2, <2>1, <2>2, <2>3, <3>1 DEF Settled
  <2>4. CASE active[key] # 0
    <3>1. alerts' = [alerts EXCEPT ![active[key]].resolved = TRUE]
      BY <1>2, <2>4 DEF Resolve
    <3>2. active[key] \in 1 .. Len(alerts)
      BY <2>2, <2>4
    <3>3. alerts' \in Seq(Alert) /\ Len(alerts') = Len(alerts)
      BY <2>2, <3>1, <3>2, ResolvedAt
    <3>4. \A p \in 1 .. Len(alerts) :
             alerts'[p] = IF p = active[key] THEN [alerts[p] EXCEPT !.resolved = TRUE]
                                             ELSE alerts[p]
      BY <2>2, <3>1, <3>2, ResolvedAt
    <3> QED BY <1>2, <2>1, <3>3, <3>4 DEF Settled
  <2> QED BY <2>3, <2>4
<1> QED BY <1>1, <1>2

(* resolve() by id: the key of the alert points to it, so this settles it.  *)
LEMMA ResolveByIdSettles ==
    ASSUME AlertTypeOK, PointersInv, NEW place \in 1 .. Len(alerts), ResolveById(place)
    PROVE  alerts[place].key \in Keys /\ Settled(alerts[place].key)
<1> DEFINE key == alerts[place].key
<1>1. alerts \in Seq(Alert) /\ alerts[place] \in Alert /\ key \in Keys
  <2>1. alerts \in Seq(Alert) /\ alerts[place] \in Alert
    BY ElementOfSeq DEF AlertTypeOK
  <2> QED BY <2>1 DEF Alert
<1>2. key \in DOMAIN active /\ active[key] = place
  BY DEF ResolveById, PointersInv
<1>3. /\ alerts' = [alerts EXCEPT ![place].resolved = TRUE]
      /\ DOMAIN active' = DOMAIN active \ {key}
      /\ \A k \in DOMAIN active' : active'[k] = active[k]
  BY DEF ResolveById, Unsuppress
<1>4. alerts' \in Seq(Alert) /\ Len(alerts') = Len(alerts)
  BY <1>1, <1>3, ResolvedAt
<1>5. \A p \in 1 .. Len(alerts) :
         alerts'[p] = IF p = active[key] THEN [alerts[p] EXCEPT !.resolved = TRUE]
                                         ELSE alerts[p]
  BY <1>1, <1>2, <1>3, ResolvedAt
<1> QED BY <1>1, <1>2, <1>3, <1>4, <1>5 DEF Settled

(* What any step does to the alerts.                                        *)
Speak ==
    \/ UNCHANGED alertVars
    \/ \E key \in Keys, by \in Gens \cup {0} : \E d \in {0, 1} : Added(key, by, d)
    \/ \E key \in Keys : Settled(key)

(* Alerts are added and settled by alert_service.py alone.                  *)
LEMMA StepsSpeak ==
    ASSUME AlertTypeOK, PointersInv, [Next]_vars
    PROVE  Speak
<1>1. ASSUME NEW key \in Keys, NEW by \in Gens \cup {0}, Emit(key, by) PROVE Speak
  BY <1>1, EmitAdds DEF Speak
<1>2. ASSUME NEW key \in Keys, Resolve(key) PROVE Speak
  BY <1>2, ResolveSettles DEF Speak
<1>3. CASE Operate
  <2>1. CASE \E place \in 1 .. Len(alerts) : ResolveById(place)
    BY <2>1, ResolveByIdSettles DEF Speak
  <2>2. CASE Emit("source", 0) \/ Emit("other", 0)
    BY <1>1, <2>2 DEF Keys
  <2>3. CASE Resolve("source") \/ Resolve("other")
    BY <1>2, <2>3 DEF Keys
  <2> QED BY <1>3, <2>1, <2>2, <2>3 DEF Operate
<1>4. ASSUME NEW g \in Gens, RaiseAlarm(g) \/ GiveUp(g) PROVE Speak
  BY <1>1, <1>4 DEF RaiseAlarm, GiveUp, Keys
<1>5. ASSUME NEW g \in Gens, Clear(g) PROVE Speak
  BY <1>2, <1>5 DEF Clear, Keys
<1>6. ASSUME NEW g \in Gens,
             \/ Admit(g) \/ StartFails(g) \/ Start(g) \/ Register(g)
             \/ Pop(g) \/ Stopped(g) \/ Watch(g) \/ Connect(g) \/ SourceFails(g) \/ Retry(g)
             \/ Reload(g) \/ Infer(g) \/ Publish(g) \/ Escape(g) \/ CheckStop(g) \/ Skip(g)
      PROVE  Speak
  BY <1>6 DEF Admit, StartFails, Start, Register, Pop, Stopped, Watch, Connect, SourceFails,
              Retry, Reload, Infer, Publish, Escape, CheckStop, Skip, Speak
<1>7. CASE Serve \/ UNCHANGED vars
  BY <1>7 DEF Serve, vars, Speak
<1> QED BY <1>3, <1>4, <1>5, <1>6, <1>7 DEF Next, Capture

(* They stay what they may be.                                              *)
LEMMA AlertTypes ==
    ASSUME AlertTypeOK, Speak
    PROVE  AlertTypeOK'
<1>1. CASE UNCHANGED alertVars
  BY <1>1 DEF AlertTypeOK, alertVars
<1>2. ASSUME NEW key \in Keys, NEW by \in Gens \cup {0}, NEW d \in {0, 1}, Added(key, by, d)
      PROVE  AlertTypeOK'
  <2>1. /\ alerts' \in Seq(Alert) /\ Len(alerts') = Len(alerts) + 1 - d
        /\ Len(alerts') \in 1 .. HistoryLimit
        /\ DOMAIN active' = DOMAIN active \cup {key} /\ active'[key] = Len(alerts')
    BY <1>2 DEF Added
  <2>2. DOMAIN active' \subseteq Keys
    BY <2>1 DEF AlertTypeOK
  <2>3. ASSUME NEW k \in DOMAIN active PROVE active'[k] \in 0 .. Len(alerts')
    <3>1. active[k] \in 0 .. Len(alerts) /\ Len(alerts) \in Nat
      BY DEF AlertTypeOK
    <3>2. active'[k] = IF active[k] <= d THEN 0 ELSE active[k] - d
      BY <1>2 DEF Added
    <3> QED BY <2>1, <3>1, <3>2
  <2>4. Len(alerts') <= HistoryLimit /\ active'[key] \in 0 .. Len(alerts')
    BY <2>1, LimitAssumption
  <2> QED BY <2>1, <2>2, <2>3, <2>4 DEF AlertTypeOK
<1>3. ASSUME NEW key \in Keys, Settled(key) PROVE AlertTypeOK'
  BY <1>3 DEF Settled, AlertTypeOK
<1> QED BY <1>1, <1>2, <1>3 DEF Speak

(* PointersInv survives an addition, with or without the oldest forgotten.  *)
LEMMA AddedKeeps ==
    ASSUME AlertTypeOK, PointersInv, NEW key \in Keys, NEW by \in Gens \cup {0},
           NEW d \in {0, 1}, Added(key, by, d)
    PROVE  PointersInv'
<1>1. /\ key \notin DOMAIN active
      /\ alerts' \in Seq(Alert) /\ Len(alerts') = Len(alerts) + 1 - d
      /\ Len(alerts') \in 1 .. HistoryLimit /\ Len(alerts) \in Nat
      /\ alerts'[Len(alerts')] = [key |-> key, by |-> by, resolved |-> FALSE]
      /\ DOMAIN active' = DOMAIN active \cup {key} /\ active'[key] = Len(alerts')
  BY DEF Added, AlertTypeOK
<1>2. \A p \in 1 .. Len(alerts) : p > d => alerts'[p - d] = alerts[p]
  BY DEF Added
<1>3. \A q \in 1 .. Len(alerts') : q = Len(alerts') \/ alerts'[q] = alerts[q + d]
  BY DEF Added
<1>4. \A k \in DOMAIN active :
         /\ active[k] \in 0 .. Len(alerts)
         /\ active'[k] = IF active[k] <= d THEN 0 ELSE active[k] - d
  BY DEF Added, AlertTypeOK
<1>5. ASSUME NEW k \in DOMAIN active', active'[k] # 0
      PROVE  ~alerts'[active'[k]].resolved /\ alerts'[active'[k]].key = k
  <2>1. CASE k = key
    BY <1>1, <2>1
  <2>2. CASE k # key
    <3>1. k \in DOMAIN active /\ active[k] \in 1 .. Len(alerts) /\ active[k] > d
          /\ active'[k] = active[k] - d
      BY <1>1, <1>4, <1>5, <2>2
    <3>2. alerts'[active'[k]] = alerts[active[k]]
      BY <1>2, <3>1
    <3>3. ~alerts[active[k]].resolved /\ alerts[active[k]].key = k
      BY <3>1 DEF PointersInv
    <3> QED BY <3>2, <3>3
  <2> QED BY <2>1, <2>2
<1>6. ASSUME NEW q \in 1 .. Len(alerts'), ~alerts'[q].resolved
      PROVE  alerts'[q].key \in DOMAIN active' /\ active'[alerts'[q].key] = q
  <2>1. CASE q = Len(alerts')
    BY <1>1, <2>1
  <2>2. CASE q # Len(alerts')
    <3>1. alerts'[q] = alerts[q + d] /\ q + d \in 1 .. Len(alerts)
      BY <1>1, <1>3, <2>2
    <3>2. alerts[q + d].key \in DOMAIN active /\ active[alerts[q + d].key] = q + d
      BY <1>6, <3>1 DEF PointersInv
    <3>3. active'[alerts[q + d].key] = q
      BY <1>4, <3>2
    <3> QED BY <1>1, <3>1, <3>2, <3>3
  <2> QED BY <2>1, <2>2
<1> QED BY <1>5, <1>6 DEF PointersInv

(* ... and a resolution.                                                    *)
LEMMA SettledKeeps ==
    ASSUME AlertTypeOK, PointersInv, NEW key \in Keys, Settled(key)
    PROVE  PointersInv'
<1>1. /\ key \in DOMAIN active /\ Len(alerts') = Len(alerts)
      /\ DOMAIN active' = DOMAIN active \ {key}
      /\ \A k \in DOMAIN active' : active'[k] = active[k]
      /\ \A k \in DOMAIN active : active[k] \in 0 .. Len(alerts)
  BY DEF Settled, AlertTypeOK
<1>2. \A p \in 1 .. Len(alerts) :
         alerts'[p] = IF p = active[key] THEN [alerts[p] EXCEPT !.resolved = TRUE]
                                         ELSE alerts[p]
  BY DEF Settled
<1>3. \A p \in 1 .. Len(alerts) : alerts[p] \in Alert
  BY ElementOfSeq DEF AlertTypeOK
<1>4. ASSUME NEW k \in DOMAIN active', active'[k] # 0
      PROVE  ~alerts'[active'[k]].resolved /\ alerts'[active'[k]].key = k
  <2>1. k \in DOMAIN active /\ k # key /\ active'[k] = active[k] /\ active[k] \in 1 .. Len(alerts)
    BY <1>1, <1>4
  <2>2. ~alerts[active[k]].resolved /\ alerts[active[k]].key = k
    BY <1>4, <2>1 DEF PointersInv
  <2>3. active[k] # active[key]
    BY <1>1, <2>1, <2>2 DEF PointersInv
  <2> QED BY <1>2, <2>1, <2>2, <2>3
<1>5. ASSUME NEW p \in 1 .. Len(alerts'), ~alerts'[p].resolved
      PROVE  alerts'[p].key \in DOMAIN active' /\ active'[alerts'[p].key] = p
  <2>1. p # active[key] /\ alerts'[p] = alerts[p]
    BY <1>1, <1>2, <1>3, <1>5 DEF Alert
  <2>2. alerts[p].key \in DOMAIN active /\ active[alerts[p].key] = p
    BY <1>1, <1>5, <2>1 DEF PointersInv
  <2> QED BY <1>1, <2>1, <2>2
<1> QED BY <1>4, <1>5 DEF PointersInv

(* Every step keeps PointersInv.                                            *)
LEMMA PointersStep ==
    ASSUME AlertTypeOK, PointersInv, [Next]_vars
    PROVE  AlertTypeOK' /\ PointersInv'
<1>1. Speak
  BY StepsSpeak
<1>2. CASE UNCHANGED alertVars
  <2>1. alerts' = alerts /\ active' = active
    BY <1>2 DEF alertVars
  <2>2. PointersInv'
    BY <2>1, Zenon DEF PointersInv
  <2> QED BY <1>1, <2>2, AlertTypes
<1> QED BY <1>1, <1>2, AlertTypes, AddedKeeps, SettledKeeps DEF Speak

(* The history and the keys point to one another, throughout.               *)
THEOREM PointersAgree == Spec => [](AlertTypeOK /\ PointersInv)
<1>1. Init => AlertTypeOK /\ PointersInv
  BY LimitAssumption DEF Init, AlertTypeOK, PointersInv
<1>2. AlertTypeOK /\ PointersInv /\ [Next]_vars => AlertTypeOK' /\ PointersInv'
  BY PointersStep
<1> QED BY <1>1, <1>2, PTL DEF Spec

(* ActiveAreSuppressed for any number of generations and any limit of the   *)
(* history: what an operator sees as active is what is suppressed.          *)
THEOREM SuppressedIsActive == Spec => []ActiveAreSuppressed
<1>1. AlertTypeOK /\ PointersInv => ActiveAreSuppressed
  <2> SUFFICES ASSUME AlertTypeOK, PointersInv PROVE ActiveAreSuppressed
    OBVIOUS
  <2>1. ASSUME NEW p \in 1 .. Len(alerts), ~alerts[p].resolved
        PROVE  p \in {active[k] : k \in DOMAIN active} \ {0}
    BY <2>1 DEF PointersInv
  <2>2. ASSUME NEW k \in DOMAIN active, active[k] # 0
        PROVE  active[k] \in 1 .. Len(alerts) /\ ~alerts[active[k]].resolved
    BY <2>2 DEF PointersInv, AlertTypeOK
  <2> QED BY <2>1, <2>2 DEF ActiveAreSuppressed
<1> QED BY <1>1, PointersAgree, PTL

----------------------------------------------------------------------------
(* Types of the rest.                                                      *)

Told == {t \in [status : Running \cup {"error", "stopped"}, on : BOOLEAN, by : Gens \cup {0}] :
            t.on \/ t.by = 0}

ThreadTypeOK ==
    /\ pc \in [Gens -> Speaks \cup Ended]
    /\ attempt \in [Gens -> 0 .. MaxAttempts + 1] /\ seen \in [Gens -> BOOLEAN]
    /\ current \in Gens \cup {0} /\ viewer \in BOOLEAN
    /\ pending \subseteq Gens /\ stopped \subseteq Gens
    /\ cleaning \subseteq Gens /\ late \subseteq Gens
    /\ told \in Told

(* The generations are numbers from 1 on.                                   *)
LEMMA GensAre == 0 \notin Gens
<1>1. Cardinality(Gens) \in Nat
  BY GensAssumption, FS_CardinalityType
<1>2. 0 \notin 1 .. Cardinality(Gens)
  BY <1>1
<1> QED BY <1>2, GensAssumption, Zenon

(* What a thread that goes somewhere leaves as it is.                       *)
LEMMA GotoShapes ==
    ASSUME pc \in [Gens -> Speaks \cup Ended], NEW g \in Gens, NEW from,
           NEW to \in Speaks \cup Ended, Goto(g, from, to)
    PROVE  /\ pc' \in [Gens -> Speaks \cup Ended] /\ pc[g] = from /\ pc'[g] = to
           /\ \A h \in Gens \ {g} : pc'[h] = pc[h]
BY DEF Goto

(* The moves a thread may make.                                             *)
Moves(g) ==
    \E move \in {<<"none", "admitted">>, <<"admitted", "none">>, <<"admitted", "outer">>,
                 <<"connect", "escaped">>, <<"frame", "escaped">>, <<"connect", "inner">>,
                 <<"connect", "failed">>, <<"frame", "lost">>, <<"failed", "retry">>, <<"lost", "outer">>,
                 <<"retry", "offline">>, <<"retry", "outer">>, <<"offline", "dead">>,
                 <<"frame", "clear">>, <<"frame", "publish">>, <<"clear", "clear2">>,
                 <<"clear2", "publish">>, <<"publish", "inner">>, <<"publish", "escaped">>,
                 <<"outer", "connect">>, <<"outer", "dead">>, <<"inner", "frame">>,
                 <<"inner", "dead">>, <<"frame", "inner">>} :
        Goto(g, move[1], move[2])

(* Every step of a thread is such a move, or leaves all where they are.     *)
LEMMA StepsMove ==
    ASSUME [Next]_vars
    PROVE  UNCHANGED pc \/ \E g \in Gens : Moves(g)
<1>1. ASSUME NEW g \in Gens, Admit(g) \/ StartFails(g) \/ Start(g) \/ Capture(g)
      PROVE  UNCHANGED pc \/ Moves(g)
  <2>1. CASE Admit(g) \/ StartFails(g) \/ Start(g)
    BY <2>1 DEF Admit, StartFails, Start, Moves
  <2>2. CASE Connect(g) \/ SourceFails(g) \/ RaiseAlarm(g) \/ GiveUp(g) \/ Clear(g)
              \/ Publish(g) \/ Escape(g) \/ Skip(g)
    BY <2>2 DEF Connect, SourceFails, RaiseAlarm, GiveUp, Clear, Publish, Escape, Skip, Moves
  <2>3. CASE Retry(g)
    BY <2>3 DEF Retry, Moves
  <2>4. CASE Infer(g)
    BY <2>4 DEF Infer, Moves
  <2>5. CASE CheckStop(g)
    BY <2>5 DEF CheckStop, Moves
  <2>6. CASE Reload(g)
    BY <2>6 DEF Reload, capVars
  <2> QED BY <1>1, <2>1, <2>2, <2>3, <2>4, <2>5, <2>6 DEF Capture
<1>2. ASSUME NEW g \in Gens, Register(g) \/ Pop(g) \/ Stopped(g) \/ Watch(g)
      PROVE  UNCHANGED pc
  BY <1>2 DEF Register, Pop, Stopped, Watch, capVars
<1>3. CASE Serve \/ Operate \/ UNCHANGED vars
  BY <1>3 DEF Serve, Operate, vars, capVars
<1> QED BY <1>1, <1>2, <1>3 DEF Next

(* Every step keeps these types, and the attempts of who has not given up.  *)
LEMMA ThreadTypes ==
    ASSUME ThreadTypeOK, AttemptsInv, [Next]_vars
    PROVE  ThreadTypeOK' /\ AttemptsInv'
<1>0. pc' \in [Gens -> Speaks \cup Ended]
  <2>1. pc \in [Gens -> Speaks \cup Ended]
    BY DEF ThreadTypeOK
  <2>2. ASSUME NEW g \in Gens, Moves(g) PROVE pc' \in [Gens -> Speaks \cup Ended]
    BY <2>1, <2>2, GotoShapes DEF Moves, Speaks, Ended
  <2> QED BY <2>1, <2>2, StepsMove
<1>1. told' \in Told
  <2>1. ASSUME NEW by \in Gens \cup {0}, NEW status \in Running \cup {"error", "stopped"},
               Tell(by, status)
        PROVE  told' \in Told
    <3>1. CASE status \in Running
      <4>1. told' = [status |-> status, on |-> TRUE, by |-> by]
        BY <2>1, <3>1 DEF Tell
      <4> QED BY <3>1, <4>1 DEF Told
    <3>2. CASE status \notin Running
      <4>1. told' = [status |-> status, on |-> FALSE, by |-> 0]
        <5>1. (status \in Running) = FALSE
          BY <3>2
        <5> QED BY <2>1, <5>1 DEF Tell
      <4> QED BY <4>1 DEF Told
    <3> QED BY <3>1, <3>2
  <2>2. \A s \in {"starting", "connecting", "active", "reconnecting", "error", "stopped"} :
           s \in Running \cup {"error", "stopped"}
    BY DEF Running
  <2>3. CASE Serve
    BY <2>3 DEF Serve, ThreadTypeOK, Told, Running
  <2>4. CASE UNCHANGED told
    BY <2>4 DEF ThreadTypeOK
  <2>5. \/ Serve \/ UNCHANGED told
        \/ \E by \in Gens \cup {0}, s \in {"starting", "connecting", "active", "reconnecting",
                                           "error", "stopped"} : Tell(by, s)
    BY DEF Next, Capture, Admit, StartFails, Start, Register, Pop, Stopped, Watch, Connect,
           SourceFails, RaiseAlarm, Retry, GiveUp, Reload, Infer, Clear, Publish, Escape, CheckStop, Skip, Operate, vars
  <2> QED BY <2>1, <2>2, <2>3, <2>4, <2>5
<1>2. /\ seen' \in [Gens -> BOOLEAN]
      /\ current' \in Gens \cup {0} /\ viewer' \in BOOLEAN
      /\ pending' \subseteq Gens /\ stopped' \subseteq Gens
      /\ cleaning' \subseteq Gens /\ late' \subseteq Gens
  <2>1. seen' = seen \/ \E g \in Gens, b \in BOOLEAN : seen' = [seen EXCEPT ![g] = b]
    BY DEF Next, Capture, Admit, StartFails, Start, Register, Pop, Stopped, Watch, Connect,
           SourceFails, RaiseAlarm, Retry, GiveUp, Reload, Infer, Clear, Publish, Escape, CheckStop, Skip, Operate, Serve, vars, capVars
  <2>2. seen' \in [Gens -> BOOLEAN]
    BY <2>1 DEF ThreadTypeOK
  <2>3. /\ current' \in Gens \cup {0} /\ viewer' \in BOOLEAN
        /\ pending' \subseteq Gens /\ stopped' \subseteq Gens
        /\ cleaning' \subseteq Gens /\ late' \subseteq Gens
    BY DEF Next, Capture, Admit, StartFails, Start, Register, Pop, Stopped, Watch, Connect,
           SourceFails, RaiseAlarm, Retry, GiveUp, Reload, Infer, Clear, Publish, Escape, CheckStop, Skip, Operate, Serve, vars,
           pipeVars, ThreadTypeOK
  <2> QED BY <2>2, <2>3
<1>3. attempt' \in [Gens -> 0 .. MaxAttempts + 1] /\ AttemptsInv'
  <2>0. /\ attempt \in [Gens -> 0 .. MaxAttempts + 1] /\ MaxAttempts \in Nat
        /\ pc \in [Gens -> Speaks \cup Ended]
    BY LimitAssumption DEF ThreadTypeOK
  <2>1. ASSUME NEW g \in Gens, Retry(g)
        PROVE  attempt' \in [Gens -> 0 .. MaxAttempts + 1] /\ AttemptsInv'
    <3>1. pc[g] = "retry" /\ attempt' = [attempt EXCEPT ![g] = @ + 1]
          /\ (attempt[g] + 1 > MaxAttempts => Goto(g, "retry", "offline"))
          /\ (~ (attempt[g] + 1 > MaxAttempts) => Goto(g, "retry", "outer"))
      BY <2>1 DEF Retry, Goto
    <3>2. attempt[g] \in 0 .. MaxAttempts
      BY <2>0, <3>1 DEF AttemptsInv
    <3>3. attempt' \in [Gens -> 0 .. MaxAttempts + 1]
      BY <2>0, <3>1, <3>2
    <3>4. CASE attempt[g] + 1 > MaxAttempts
      BY <2>0, <3>1, <3>2, <3>4, GotoShapes DEF AttemptsInv, Speaks
    <3>5. CASE ~ (attempt[g] + 1 > MaxAttempts)
      BY <2>0, <3>1, <3>2, <3>5, GotoShapes DEF AttemptsInv, Speaks
    <3> QED BY <3>3, <3>4, <3>5
  <2>2. CASE ~ \E g \in Gens : Retry(g)
    <3>1. attempt' = attempt \/ \E g \in Gens : attempt' = [attempt EXCEPT ![g] = 0]
      BY <2>2 DEF Next, Capture, Admit, StartFails, Start, Register, Pop, Stopped, Watch, Connect, SourceFails, RaiseAlarm,
             GiveUp, Reload, Infer, Clear, Publish, Escape, CheckStop, Skip, Operate, Serve, vars, capVars
    <3>2. attempt' \in [Gens -> 0 .. MaxAttempts + 1]
          /\ \A g \in Gens : attempt'[g] = attempt[g] \/ attempt'[g] = 0
      BY <2>0, <3>1
    <3>3. \A g \in Gens : pc[g] \in {"offline", "dead"} => pc'[g] \in {"offline", "dead"}
      BY <2>0, StepsMove DEF Moves, Goto
    <3> QED BY <2>0, <3>2, <3>3 DEF AttemptsInv
  <2> QED BY <2>1, <2>2
<1> QED BY <1>0, <1>1, <1>2, <1>3 DEF ThreadTypeOK

(* Type correctness of the signals.                                         *)
THEOREM SignalTypes == Spec => [](TypeOK /\ ThreadTypeOK /\ AttemptsInv)
<1>1. Init => ThreadTypeOK /\ AttemptsInv
  <2> SUFFICES ASSUME Init PROVE ThreadTypeOK /\ AttemptsInv
    OBVIOUS
  <2>1. told \in Told
    BY DEF Init, Told
  <2>2. /\ attempt \in [Gens -> 0 .. MaxAttempts + 1] /\ AttemptsInv
        /\ pc \in [Gens -> Speaks \cup Ended] /\ seen \in [Gens -> BOOLEAN]
    BY LimitAssumption DEF Init, AttemptsInv, Ended
  <2>3. viewer \in BOOLEAN
    BY DEF Init
  <2> QED BY <2>1, <2>2, <2>3 DEF Init, ThreadTypeOK
<1>2. ThreadTypeOK /\ AttemptsInv /\ [Next]_vars => ThreadTypeOK' /\ AttemptsInv'
  BY ThreadTypes
<1>3. ThreadTypeOK /\ AlertTypeOK => TypeOK
  BY DEF ThreadTypeOK, AlertTypeOK, TypeOK, Told
<1> QED BY <1>1, <1>2, <1>3, PointersAgree, PTL DEF Spec

----------------------------------------------------------------------------
(* A thread's own alerts.                                                  *)

(* Every alert that is not resolved was there before, but for a new one.    *)
KeptBut(new) ==
    \A q \in 1 .. Len(alerts') : ~alerts'[q].resolved =>
        \/ alerts'[q] = new
        \/ \E p \in 1 .. Len(alerts) : alerts'[q] = alerts[p] /\ ~alerts[p].resolved
Kept ==
    \A q \in 1 .. Len(alerts') : ~alerts'[q].resolved =>
        \E p \in 1 .. Len(alerts) : alerts'[q] = alerts[p] /\ ~alerts[p].resolved

(* So it is after emit(), ...                                               *)
LEMMA EmitKeeps ==
    ASSUME AlertTypeOK, NEW key \in Keys, NEW by \in Gens \cup {0}, Emit(key, by)
    PROVE  KeptBut([key |-> key, by |-> by, resolved |-> FALSE])
<1>1. CASE UNCHANGED alertVars
  BY <1>1 DEF alertVars, KeptBut
<1>2. ASSUME NEW d \in {0, 1}, Added(key, by, d),
             NEW q \in 1 .. Len(alerts'), ~alerts'[q].resolved, q # Len(alerts')
      PROVE  \E p \in 1 .. Len(alerts) : alerts'[q] = alerts[p] /\ ~alerts[p].resolved
  <2>1. /\ Len(alerts') = Len(alerts) + 1 - d /\ Len(alerts) \in Nat
        /\ alerts'[q] = alerts[q + d]
    BY <1>2 DEF Added, AlertTypeOK
  <2>2. q + d \in 1 .. Len(alerts)
    BY <1>2, <2>1
  <2> QED BY <1>2, <2>1, <2>2
<1>3. ASSUME NEW d \in {0, 1}, Added(key, by, d)
      PROVE  alerts'[Len(alerts')] = [key |-> key, by |-> by, resolved |-> FALSE]
  BY <1>3 DEF Added
<1> QED BY <1>1, <1>2, <1>3, EmitAdds DEF KeptBut

(* ... and after a resolution, which leaves none of its key.                *)
LEMMA ResolveKeeps ==
    ASSUME AlertTypeOK, PointersInv, NEW key \in Keys, UNCHANGED alertVars \/ Settled(key)
    PROVE  Kept
<1>0. \A p \in 1 .. Len(alerts) : alerts[p] \in Alert
  BY ElementOfSeq DEF AlertTypeOK
<1>1. CASE UNCHANGED alertVars
  BY <1>1 DEF alertVars, Kept
<1>2. CASE Settled(key)
  <2>1. /\ Len(alerts') = Len(alerts)
        /\ \A q \in 1 .. Len(alerts) :
              alerts'[q] = IF q = active[key] THEN [alerts[q] EXCEPT !.resolved = TRUE]
                                              ELSE alerts[q]
    BY <1>2 DEF Settled
  <2> QED BY <1>0, <2>1 DEF Kept, Alert
<1> QED BY <1>1, <1>2

(* After resolve_by_key() no alert of that key is left unresolved.          *)
LEMMA ResolveClears ==
    ASSUME AlertTypeOK, PointersInv, NEW key \in Keys, Resolve(key)
    PROVE  \A q \in 1 .. Len(alerts') : ~alerts'[q].resolved => alerts'[q].key # key
<1>1. CASE UNCHANGED alertVars
  <2>1. alerts' = alerts /\ active' = active
    BY <1>1 DEF alertVars
  <2>2. key \notin DOMAIN active
    BY <2>1 DEF Resolve, Unsuppress
  <2> QED BY <2>1, <2>2 DEF PointersInv
<1>2. CASE Settled(key)
  <2>1. DOMAIN active' = DOMAIN active \ {key} /\ PointersInv'
    BY <1>2, SettledKeeps DEF Settled
  <2> QED BY <2>1 DEF PointersInv
<1> QED BY <1>1, <1>2, ResolveSettles

(* The steps that add nothing, or somebody else's alert, and after which a  *)
(* thread's mark is as good as before.                                      *)
LEMMA OwnKept ==
    ASSUME AlertTypeOK, OwnAlertsInv, NEW new, KeptBut(new), new.by = 0 \/ Kept,
           \A g \in Gens :
              /\ pc'[g] \in {"failed", "lost"} => seen'[g]
              /\ pc'[g] \in {"clear", "clear2", "publish"} => ~seen'[g]
              /\ seen[g] \/ pc[g] = "clear" => seen'[g] \/ pc'[g] = "clear"
              /\ pc[g] = "dead" => pc'[g] = "dead"
    PROVE  OwnAlertsInv'
<1>1. \A p \in 1 .. Len(alerts) : alerts[p].by \in Gens \cup {0}
  BY AlertsAre DEF Alert
<1>2. ASSUME NEW q \in 1 .. Len(alerts'), ~alerts'[q].resolved, alerts'[q].by # 0
      PROVE  \/ alerts'[q].key = "source"
                /\ (seen'[alerts'[q].by] \/ pc'[alerts'[q].by] = "clear")
             \/ alerts'[q].key = "offline" /\ pc'[alerts'[q].by] = "dead"
  <2>1. PICK p \in 1 .. Len(alerts) : alerts'[q] = alerts[p] /\ ~alerts[p].resolved
    BY <1>2 DEF KeptBut, Kept
  <2>2. \/ alerts[p].key = "source" /\ (seen[alerts[p].by] \/ pc[alerts[p].by] = "clear")
        \/ alerts[p].key = "offline" /\ pc[alerts[p].by] = "dead"
    BY <1>2, <2>1 DEF OwnAlertsInv
  <2>3. alerts[p].by \in Gens
    BY <1>1, <1>2, <2>1
  <2> QED BY <2>1, <2>2, <2>3
<1> QED BY <1>2 DEF OwnAlertsInv

(* Every step keeps a thread's alerts marked.                               *)
LEMMA OwnStep ==
    ASSUME AlertTypeOK, PointersInv, ThreadTypeOK, OwnAlertsInv, [Next]_vars
    PROVE  OwnAlertsInv'
<1> DEFINE Nothing == [key |-> "other", by |-> 0, resolved |-> FALSE]
<1>0. pc \in [Gens -> Speaks \cup Ended] /\ seen \in [Gens -> BOOLEAN]
  BY DEF ThreadTypeOK
<1>a. \A g \in Gens : /\ pc[g] \in {"failed", "lost"} => seen[g]
                      /\ pc[g] \in {"clear", "clear2", "publish"} => ~seen[g]
  BY DEF OwnAlertsInv
<1>b. Kept => KeptBut(Nothing) /\ KeptBut([key |-> "source", by |-> 0, resolved |-> FALSE])
  BY DEF Kept, KeptBut
<1>c. UNCHANGED alertVars => Kept
  BY ResolveKeeps DEF Keys
<1>1. CASE Operate
  <2>1. UNCHANGED <<pc, seen>>
    BY <1>1 DEF Operate, capVars
  <2>2. ASSUME NEW key \in {"source", "other"}, Emit(key, 0)
        PROVE  KeptBut([key |-> key, by |-> 0, resolved |-> FALSE])
    BY <2>2, EmitKeeps DEF Keys
  <2>3. ASSUME NEW key \in {"source", "other"}, Resolve(key) PROVE Kept
    BY <2>3, ResolveKeeps, ResolveSettles DEF Keys
  <2>4. ASSUME NEW place \in 1 .. Len(alerts), ResolveById(place) PROVE Kept
    BY <2>4, ResolveByIdSettles, ResolveKeeps
  <2>5. PICK new : new.by = 0 /\ KeptBut(new)
    BY <1>1, <1>b, <2>2, <2>3, <2>4 DEF Operate
  <2> QED BY <1>a, <2>1, <2>5, OwnKept
<1>2. ASSUME NEW g \in Gens,
             \/ Admit(g) \/ StartFails(g) \/ Start(g) \/ Register(g)
             \/ Pop(g) \/ Stopped(g) \/ Watch(g) \/ Connect(g) \/ SourceFails(g) \/ Retry(g)
             \/ Reload(g) \/ Infer(g) \/ Publish(g) \/ Escape(g) \/ CheckStop(g) \/ Skip(g)
      PROVE  OwnAlertsInv'
  <2>1. UNCHANGED alertVars
    BY <1>2 DEF Admit, StartFails, Start, Register, Pop, Stopped, Watch, Connect, SourceFails,
                Retry, Reload, Infer, Publish, Escape, CheckStop, Skip
  <2>2. \A h \in Gens :
           /\ pc'[h] \in {"failed", "lost"} => seen'[h]
           /\ pc'[h] \in {"clear", "clear2", "publish"} => ~seen'[h]
           /\ seen[h] \/ pc[h] = "clear" => seen'[h] \/ pc'[h] = "clear"
           /\ pc[h] = "dead" => pc'[h] = "dead"
    <3>1. CASE Connect(g) \/ Publish(g) \/ Escape(g) \/ Skip(g)
      BY <1>0, <1>a, <3>1 DEF Connect, Publish, Escape, Skip, Goto
    <3>2. CASE Register(g) \/ Pop(g) \/ Stopped(g) \/ Watch(g) \/ Reload(g)
      BY <1>a, <3>2 DEF Register, Pop, Stopped, Watch, Reload, capVars
    <3>7. CASE Admit(g) \/ StartFails(g) \/ Start(g)
      BY <1>0, <1>a, <3>7 DEF Admit, StartFails, Start, Goto
    <3>3. CASE SourceFails(g)
      BY <1>0, <1>a, <3>3 DEF SourceFails, Goto
    <3>4. CASE Retry(g)
      BY <1>0, <1>a, <3>4 DEF Retry, Goto
    <3>5. CASE Infer(g)
      BY <1>0, <1>a, <3>5 DEF Infer, Goto
    <3>6. CASE CheckStop(g)
      BY <1>0, <1>a, <3>6 DEF CheckStop, Goto
    <3> QED BY <1>2, <3>1, <3>2, <3>3, <3>4, <3>5, <3>6, <3>7
  <2>3. Kept /\ KeptBut(Nothing)
    BY <1>b, <1>c, <2>1
  <2> QED BY <2>2, <2>3, OwnKept
<1>3. CASE Serve \/ UNCHANGED vars
  <2>1. UNCHANGED <<pc, seen>> /\ UNCHANGED alertVars
    BY <1>3 DEF Serve, vars, capVars
  <2>2. Kept /\ KeptBut(Nothing)
    BY <1>b, <1>c, <2>1
  <2> QED BY <1>a, <2>1, <2>2, OwnKept
<1>4. ASSUME NEW g \in Gens, RaiseAlarm(g) \/ GiveUp(g) PROVE OwnAlertsInv'
  <2>0. \A p \in 1 .. Len(alerts) : alerts[p].by \in Gens \cup {0}
    BY AlertsAre DEF Alert
  <2>1. PICK key \in {"source", "offline"} :
          /\ Emit(key, g) /\ seen' = seen
          /\ key = "source" => RaiseAlarm(g)
          /\ key = "offline" => GiveUp(g)
    BY <1>4 DEF RaiseAlarm, GiveUp
  <2>2. KeptBut([key |-> key, by |-> g, resolved |-> FALSE])
    BY <2>1, EmitKeeps DEF Keys
  <2>3. /\ \A h \in Gens :
           /\ pc'[h] \in {"failed", "lost"} => seen'[h]
           /\ pc'[h] \in {"clear", "clear2", "publish"} => ~seen'[h]
           /\ seen[h] \/ pc[h] = "clear" => seen'[h] \/ pc'[h] = "clear"
           /\ pc[h] = "dead" => pc'[h] = "dead"
        /\ key = "source" => seen'[g]
        /\ key = "offline" => pc'[g] = "dead"
    BY <1>0, <1>a, <2>1 DEF RaiseAlarm, GiveUp, Goto
  <2>4. ASSUME NEW q \in 1 .. Len(alerts'), ~alerts'[q].resolved, alerts'[q].by # 0
        PROVE  \/ alerts'[q].key = "source"
                  /\ (seen'[alerts'[q].by] \/ pc'[alerts'[q].by] = "clear")
               \/ alerts'[q].key = "offline" /\ pc'[alerts'[q].by] = "dead"
    <3>1. CASE alerts'[q] = [key |-> key, by |-> g, resolved |-> FALSE]
      BY <2>3, <3>1
    <3>2. ASSUME NEW p \in 1 .. Len(alerts), alerts'[q] = alerts[p], ~alerts[p].resolved
          PROVE  \/ alerts'[q].key = "source"
                    /\ (seen'[alerts'[q].by] \/ pc'[alerts'[q].by] = "clear")
                 \/ alerts'[q].key = "offline" /\ pc'[alerts'[q].by] = "dead"
      BY <2>0, <2>3, <2>4, <3>2 DEF OwnAlertsInv
    <3> QED BY <2>2, <2>4, <3>1, <3>2 DEF KeptBut
  <2> QED BY <2>3, <2>4 DEF OwnAlertsInv
<1>5. ASSUME NEW g \in Gens, Clear(g) PROVE OwnAlertsInv'
  <2>0. \A p \in 1 .. Len(alerts) : alerts[p].by \in Gens \cup {0}
    BY AlertsAre DEF Alert
  <2>1. PICK key \in {"source", "offline"} :
          /\ Resolve(key) /\ seen' = seen
          /\ key = "source" => Goto(g, "clear", "clear2")
          /\ key = "offline" => Goto(g, "clear2", "publish")
    BY <1>5 DEF Clear
  <2>2. Kept
    BY <2>1, ResolveKeeps, ResolveSettles DEF Keys
  <2>3. \A q \in 1 .. Len(alerts') : ~alerts'[q].resolved => alerts'[q].key # key
    BY <2>1, ResolveClears DEF Keys
  <2>4. /\ \A h \in Gens :
           /\ pc'[h] \in {"failed", "lost"} => seen'[h]
           /\ pc'[h] \in {"clear", "clear2", "publish"} => ~seen'[h]
           /\ pc[h] = "dead" => pc'[h] = "dead"
        /\ \A h \in Gens : h # g => pc'[h] = pc[h]
        /\ key = "offline" => pc[g] # "clear"
    BY <1>0, <1>a, <2>1 DEF Goto
  <2>5. ASSUME NEW q \in 1 .. Len(alerts'), ~alerts'[q].resolved, alerts'[q].by # 0
        PROVE  \/ alerts'[q].key = "source"
                  /\ (seen'[alerts'[q].by] \/ pc'[alerts'[q].by] = "clear")
               \/ alerts'[q].key = "offline" /\ pc'[alerts'[q].by] = "dead"
    <3>1. PICK p \in 1 .. Len(alerts) : alerts'[q] = alerts[p] /\ ~alerts[p].resolved
      BY <2>2, <2>5 DEF Kept
    <3>2. \/ alerts[p].key = "source" /\ (seen[alerts[p].by] \/ pc[alerts[p].by] = "clear")
          \/ alerts[p].key = "offline" /\ pc[alerts[p].by] = "dead"
      BY <2>5, <3>1 DEF OwnAlertsInv
    <3>3. alerts[p].by \in Gens /\ alerts[p].key # key
      BY <2>0, <2>3, <2>5, <3>1
    <3> QED BY <2>1, <2>4, <3>1, <3>2, <3>3
  <2> QED BY <2>4, <2>5 DEF OwnAlertsInv
<1> QED BY <1>1, <1>2, <1>3, <1>4, <1>5 DEF Next, Capture

(* DeliveringClearsAlerts for any number of generations: a thread that      *)
(* publishes a frame has no unresolved alert of its own.                    *)
THEOREM DeliveringHasCleared == Spec => []DeliveringClearsAlerts
<1>1. Init => OwnAlertsInv
  BY DEF Init, OwnAlertsInv
<1>2. AlertTypeOK /\ PointersInv /\ ThreadTypeOK /\ OwnAlertsInv /\ [Next]_vars => OwnAlertsInv'
  BY OwnStep
<1>3. OwnAlertsInv /\ AlertTypeOK => DeliveringClearsAlerts
  <2> SUFFICES ASSUME OwnAlertsInv, AlertTypeOK, NEW g \in Gens, pc[g] = "publish",
                      NEW p \in 1 .. Len(alerts), alerts[p].by = g, ~alerts[p].resolved
               PROVE  FALSE
    BY AlertsAre DEF DeliveringClearsAlerts, Alert
  <2> QED BY GensAre DEF OwnAlertsInv
<1> QED BY <1>1, <1>2, <1>3, PointersAgree, SignalTypes, PTL DEF Spec

----------------------------------------------------------------------------
(* What the camera is shown as.                                            *)

(* Every step keeps who may have said that the camera is on.                *)
LEMMA ShownStep ==
    ASSUME ThreadTypeOK, ShownInv, [Next]_vars
    PROVE  ShownInv'
<1> USE GensAre
<1>0. /\ pc \in [Gens -> Speaks \cup Ended] /\ told.by \in Gens \cup {0} /\ told \in Told
      /\ current \in Gens \cup {0} /\ pending \subseteq Gens
      /\ stopped \subseteq Gens /\ cleaning \subseteq Gens /\ late \subseteq Gens
  BY DEF ThreadTypeOK, Told
<1>1. \A g \in Gens :
         /\ pc[g] \in {"none", "admitted"} => g \notin stopped \cup pending /\ current # g
         /\ g \in stopped \ (cleaning \cup late) => pc[g] \in Ended
  BY DEF ShownInv
<1>2. told.on /\ told.by # 0 =>
          /\ pc[told.by] \notin {"none", "admitted", "offline"}
          /\ pc[told.by] = "dead" \/ told.by \in stopped => told.by \in cleaning \cup late
  BY DEF ShownInv
<1>3. ASSUME NEW g \in Gens, NEW from \in Speaks,
             NEW to \in (Speaks \cup Ended) \ {"none", "admitted"},
             Goto(g, from, to), UNCHANGED pipeVars,
             \/ told'.on => told'.by = g /\ to \notin {"offline", "dead"}
             \/ told' = told /\ (to = "dead" => g \in stopped \/ from = "offline")
                             /\ to # "offline"
      PROVE  ShownInv'
  <2>1. /\ pc[g] = from /\ pc'[g] = to /\ \A h \in Gens \ {g} : pc'[h] = pc[h]
        /\ from \notin Ended
    BY <1>0, <1>3, GotoShapes DEF Speaks, Ended
  <2>2. UNCHANGED <<pending, current, stopped, cleaning, late>>
    BY <1>3 DEF pipeVars
  <2>3. g \in stopped => g \in cleaning \cup late
    BY <1>1, <2>1
  <2>4. \A h \in Gens :
           /\ pc'[h] \in {"none", "admitted"} => h \notin stopped' \cup pending' /\ current' # h
           /\ h \in stopped' \ (cleaning' \cup late') => pc'[h] \in Ended
    BY <1>1, <2>1, <2>2, <2>3
  <2>5. told'.on /\ told'.by # 0 =>
          /\ pc'[told'.by] \notin {"none", "admitted", "offline"}
          /\ pc'[told'.by] = "dead" \/ told'.by \in stopped' => told'.by \in cleaning' \cup late'
    <3>1. CASE told'.on => told'.by = g /\ to \notin {"offline", "dead"}
      BY <1>3, <2>1, <2>2, <2>3, <3>1
    <3>2. CASE told' = told /\ (to = "dead" => g \in stopped \/ from = "offline") /\ to # "offline"
      BY <1>0, <1>2, <2>1, <2>2, <2>3, <3>2
    <3> QED BY <1>3, <3>1, <3>2
  <2> QED BY <2>4, <2>5 DEF ShownInv
<1>4. ASSUME NEW g \in Gens, NEW s \in Running \cup {"error", "stopped"}, Tell(g, s)
      PROVE  (told'.on => told'.by = g) /\ (s \in {"error", "stopped"} => ~told'.on)
  BY <1>4 DEF Tell, Running
<1>5. ASSUME NEW g \in Gens, Admit(g) PROVE ShownInv'
  <2>1. /\ Goto(g, "none", "admitted") /\ told' = told
        /\ UNCHANGED <<pending, current, stopped, cleaning, late>>
    BY <1>5 DEF Admit, pipeVars
  <2>2. pc[g] = "none" /\ pc'[g] = "admitted" /\ \A h \in Gens \ {g} : pc'[h] = pc[h]
    BY <1>0, <2>1, GotoShapes DEF Ended
  <2> QED BY <1>0, <1>1, <1>2, <2>1, <2>2 DEF ShownInv, Ended
<1>6. ASSUME NEW g \in Gens, StartFails(g) PROVE ShownInv'
  <2>1. /\ Goto(g, "admitted", "none") /\ (told' = told \/ ~told'.on)
        /\ UNCHANGED <<pending, current, stopped, cleaning, late>>
    BY <1>4, <1>6 DEF StartFails, pipeVars
  <2>2. pc[g] = "admitted" /\ pc'[g] = "none" /\ \A h \in Gens \ {g} : pc'[h] = pc[h]
    BY <1>0, <2>1, GotoShapes DEF Ended
  <2> QED BY <1>0, <1>1, <1>2, <2>1, <2>2 DEF ShownInv, Ended
<1>7. ASSUME NEW g \in Gens, Start(g) PROVE ShownInv'
  <2>1. /\ Goto(g, "admitted", "outer") /\ (told'.on => told'.by = g)
        /\ pending' = pending \cup {g}
        /\ UNCHANGED <<current, stopped, cleaning, late>>
    BY <1>4, <1>7 DEF Start, Running
  <2>2. pc[g] = "admitted" /\ pc'[g] = "outer" /\ \A h \in Gens \ {g} : pc'[h] = pc[h]
    BY <1>0, <2>1, GotoShapes DEF Speaks
  <2> QED BY <1>1, <2>1, <2>2 DEF ShownInv
<1>8. ASSUME NEW g \in Gens, Register(g) PROVE ShownInv'
  <2>1. /\ g \in pending /\ pending' = pending \ {g}
        /\ UNCHANGED <<pc, told, cleaning>>
        /\ \/ current' = g /\ UNCHANGED <<stopped, late>>
           \/ current' = current /\ stopped' = stopped \cup {g} /\ late' = late \cup {g}
    BY <1>8 DEF Register, capVars
  <2>2. pc[g] \notin {"none", "admitted"}
    BY <1>1, <2>1
  <2> QED BY <1>1, <1>2, <2>1, <2>2 DEF ShownInv
<1>9. ASSUME NEW g \in Gens, Pop(g) PROVE ShownInv'
  <2>1. /\ current = g /\ current' = 0 /\ UNCHANGED <<pc, told, pending, late>>
        /\ stopped' = stopped \cup {g} /\ cleaning' = cleaning \cup {g}
    BY <1>9 DEF Pop, capVars
  <2> QED BY <1>1, <1>2, <2>1 DEF ShownInv
<1>10. ASSUME NEW g \in Gens, Stopped(g) PROVE ShownInv'
  <2>1. /\ ~told'.on /\ UNCHANGED <<pc, pending, current, stopped>>
        /\ cleaning' = cleaning \ {g}
        /\ late' = IF pc[g] \in Ended THEN late ELSE late \cup {g}
    BY <1>10 DEF Stopped, Tell, Running, capVars
  <2> QED BY <1>1, <2>1 DEF ShownInv
<1>11. CASE Serve
  <2>1. UNCHANGED <<pc, pending, current, stopped, cleaning, late>>
        /\ told'.by = told.by /\ (told.on \/ told.by = 0)
    BY <1>0, <1>11 DEF Serve, Told, capVars, pipeVars
  <2> QED BY <1>1, <1>2, <2>1 DEF ShownInv
<1>12. ASSUME NEW g \in Gens, Reload(g) PROVE ShownInv'
  <2>1. /\ pc[g] = "frame" /\ (told'.on => told'.by = g)
        /\ UNCHANGED <<pc, pending, current, stopped, cleaning, late>>
    BY <1>4, <1>12 DEF Reload, Running, capVars, pipeVars
  <2>2. g \in stopped => g \in cleaning \cup late
    BY <1>1, <2>1 DEF Ended
  <2> QED BY <1>1, <2>1, <2>2 DEF ShownInv
<1>13. CASE UNCHANGED <<pc, told, pending, current, stopped, cleaning, late>>
  BY <1>13 DEF ShownInv
<1>14. (\E g \in Gens : Watch(g)) \/ Operate \/ UNCHANGED vars
         => UNCHANGED <<pc, told, pending, current, stopped, cleaning, late>>
  BY DEF Watch, Operate, vars, capVars, pipeVars
<1>15. ASSUME NEW g \in Gens,
              \/ Connect(g) \/ SourceFails(g) \/ RaiseAlarm(g) \/ Retry(g) \/ GiveUp(g)
              \/ Infer(g) \/ Clear(g) \/ Publish(g) \/ Escape(g) \/ CheckStop(g) \/ Skip(g)
       PROVE  ShownInv'
  <2>0. UNCHANGED pipeVars
    BY <1>15 DEF Connect, SourceFails, RaiseAlarm, Retry, GiveUp, Infer, Clear, Publish, Escape,
                 CheckStop, Skip
  <2>1. CASE Connect(g) \/ SourceFails(g) \/ Infer(g)
    BY <1>3, <1>4, <2>0, <2>1 DEF Connect, SourceFails, Infer, Speaks, Running
  <2>2. CASE RaiseAlarm(g) \/ Clear(g) \/ Publish(g) \/ Escape(g) \/ Skip(g)
    BY <1>3, <2>0, <2>2 DEF RaiseAlarm, Clear, Publish, Escape, Skip, Speaks, Ended
  <2>3. CASE GiveUp(g)
    BY <1>3, <2>0, <2>3 DEF GiveUp, Speaks, Ended
  <2>4. CASE Retry(g)
    <3>1. CASE Goto(g, "retry", "offline") /\ Tell(g, "error")
      <4>1. ~told'.on
        BY <1>4, <3>1
      <4> QED BY <1>3, <2>0, <3>1, <4>1 DEF Speaks
    <3>2. CASE Goto(g, "retry", "outer") /\ Tell(g, "reconnecting")
      BY <1>3, <1>4, <2>0, <3>2 DEF Speaks, Running
    <3> QED BY <2>4, <3>1, <3>2 DEF Retry
  <2>5. CASE CheckStop(g)
    <3>1. PICK loop \in {<<"outer", "connect">>, <<"inner", "frame">>} :
             Goto(g, loop[1], IF g \in stopped THEN "dead" ELSE loop[2])
      BY <2>5 DEF CheckStop
    <3>2. told' = told
      BY <2>5 DEF CheckStop
    <3>3. loop[1] \in Speaks /\ loop[2] \in Speaks /\ loop[2] \notin {"none", "admitted", "offline", "dead"}
      BY DEF Speaks
    <3>4. CASE g \in stopped
      BY <1>3, <2>0, <3>1, <3>2, <3>3, <3>4 DEF Ended
    <3>5. CASE g \notin stopped
      BY <1>3, <2>0, <3>1, <3>2, <3>3, <3>5
    <3> QED BY <3>4, <3>5
  <2> QED BY <1>15, <2>1, <2>2, <2>3, <2>4, <2>5
<1> QED BY <1>5, <1>6, <1>7, <1>8, <1>9, <1>10, <1>11, <1>12, <1>13, <1>14, <1>15
           DEF Next, Capture

(* ShownOnIsRunning for any number of generations: a camera is shown as on  *)
(* only while the thread that said so runs or is being cleaned up, or when  *)
(* nobody waited for it (also after a lost race of starters), or when an    *)
(* exception ended it, or for a viewer's last frame.                        *)
THEOREM ShownIsRunning == Spec => []ShownOnIsRunning
<1>1. Init => ShownInv
  BY DEF Init, ShownInv
<1>2. ThreadTypeOK /\ ShownInv /\ [Next]_vars => ShownInv'
  BY ShownStep
<1>3. ShownInv => ShownOnIsRunning
  BY DEF ShownInv, ShownOnIsRunning
<1> QED BY <1>1, <1>2, <1>3, SignalTypes, PTL DEF Spec
=============================================================================
