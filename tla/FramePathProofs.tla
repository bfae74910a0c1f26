--------------------------- MODULE FramePathProofs ---------------------------
(***************************************************************************)
(* What TLAPS proves of FramePath for every number of viewers, frames and  *)
(* handles: that no open capture handle is lost but by the two races the   *)
(* module records, and that the viewers of a pipeline are served its JPEGs *)
(* in the camera's order, none twice, see an older image after a newer one *)
(* only by a stall, and are not denied the newest while they are counted.  *)
(***************************************************************************)
EXTENDS FramePath, FiniteSetTheorems, TLAPS

(* A queue of one holds a frame, or nothing.                                *)
LEMMA QueueOfOne ==
    /\ <<>> \in Seq(Frame) /\ Len(<<>>) <= 1
    /\ \A f \in Frame : <<f>> \in Seq(Frame) /\ Len(<<f>>) <= 1 /\ Head(<<f>>) = f /\ <<f>> # <<>>
    /\ \A q \in Seq(Frame) : q # <<>> => Head(q) \in Frame
OBVIOUS

(* 0, the signal of a loss and the handle that is none, is among them.      *)
LEMMA Zeros == 0 \in Frame /\ 0 \in Handle /\ Frame \subseteq Nat
BY FrameBounds DEF Frame, Handle

(* The viewers and their number.                                            *)
Watch ==
    \/ \E v \in Viewers : Serve(v) \/ Stall(v) \/ Attach(v) \/ Leave(v)
    \/ Vanish \/ StaleLeave

(* What was lost last may be lost again, or something newer.                *)
LEMMA LosesNewest ==
    ASSUME gone \in Frame, NEW frame \in Frame, Lose(frame)
    PROVE  gone' \in Frame /\ gone' >= gone /\ gone' >= frame
BY Zeros DEF Lose

(* Every step keeps the reader's types: a handle put in place is one.       *)
LEMMA ReaderTypes ==
    ASSUME TypeOK, HandlesInv, [Next]_vars
    PROVE  ReaderTypeOK'
<1> USE Zeros, QueueOfOne DEF TypeOK, ReaderTypeOK
<1>1. CASE CapCheck
  BY <1>1 DEF CapCheck
<1>2. CASE CapRead
  <2>1. frames' \in Frame
    BY <1>2, FrameBounds DEF CapRead, Frame
  <2> QED BY <1>2, <2>1 DEF CapRead
<1>3. CASE CapReadFails
  BY <1>3 DEF CapReadFails
<1>4. CASE CapPut
  BY <1>4 DEF CapPut
<1>5. CASE CapOpen
  <2>1. /\ opened' \in Handle /\ handles' \subseteq 1 .. MaxHandles
        /\ cap' \in [at : {"check", "read", "put", "open", "install", "over"},
                     mine : Handle, new : Handle, frame : Frame]
    <3>1. CASE /\ opened < MaxHandles /\ opened' = opened + 1
               /\ handles' = handles \cup {opened + 1}
               /\ cap' = [cap EXCEPT !.at = "install", !.new = opened + 1]
      <4>1. opened + 1 \in Handle /\ opened + 1 \in 1 .. MaxHandles
        BY <3>1, FrameBounds DEF Handle
      <4> QED BY <3>1, <4>1
    <3>2. CASE cap' = [cap EXCEPT !.at = "check"] /\ UNCHANGED <<opened, handles>>
      BY <3>2
    <3> QED BY <1>5, <3>1, <3>2 DEF CapOpen
  <2> QED BY <1>5, <2>1 DEF CapOpen
<1>6. CASE CapInstall
  <2>1. cap.new \in 1 .. MaxHandles
    BY <1>6, FrameBounds DEF CapInstall, HandlesInv, Handle
  <2>2. mislaid' \subseteq 1 .. MaxHandles
    BY <1>6, <2>1 DEF CapInstall
  <2> QED BY <1>6, <2>2 DEF CapInstall
<1>7. CASE RefWake
  BY <1>7 DEF RefWake, RefSets
<1>8. CASE RefDrain
  BY <1>8 DEF RefDrain
<1>9. CASE RefOpen
  <2>1. /\ opened' \in Handle /\ handles' \subseteq 1 .. MaxHandles
        /\ ref' \in [at : {"sleep", "drain", "open", "install", "over"},
                     old : Handle, new : Handle]
    <3>1. CASE /\ opened < MaxHandles /\ opened' = opened + 1
               /\ handles' = handles \cup {opened + 1}
               /\ ref' = [ref EXCEPT !.at = "install", !.new = opened + 1]
      <4>1. opened + 1 \in Handle /\ opened + 1 \in 1 .. MaxHandles
        BY <3>1, FrameBounds DEF Handle
      <4> QED BY <3>1, <4>1
    <3>2. CASE ref' = [ref EXCEPT !.at = "sleep", !.old = 0] /\ UNCHANGED <<opened, handles>>
      BY <3>2
    <3> QED BY <1>9, <3>1, <3>2 DEF RefOpen
  <2> QED BY <1>9, <2>1 DEF RefOpen
<1>10. CASE RefInstall
  <2>1. ref.new \in 1 .. MaxHandles
    BY <1>10, FrameBounds DEF RefInstall, HandlesInv, Handle
  <2>2. {capture} \ {0, ref.old} \subseteq 1 .. MaxHandles
    BY FrameBounds DEF Handle
  <2>3. mislaid' \subseteq 1 .. MaxHandles
    BY <1>10, <2>1, <2>2 DEF RefInstall
  <2> QED BY <1>10, <2>3 DEF RefInstall
<1>11. CASE Read
  BY <1>11 DEF Read
<1>12. CASE ReleaseBegins
  BY <1>12 DEF ReleaseBegins
<1>13. CASE ReleaseEnds
  BY <1>13 DEF ReleaseEnds
<1>14. CASE UNCHANGED <<readerVars, mislaid>>
  BY <1>14 DEF readerVars
<1>15. Encoder \/ Publish \/ Unwatched \/ Stop \/ Watch \/ UNCHANGED vars
         => UNCHANGED <<readerVars, mislaid>>
  BY DEF Encoder, EncodeLook, Encode, Publish, Unwatched, Stop, Watch, Serve, Stall, Attach,
         Vanish, Leave, StaleLeave, vars
<1> QED
  BY <1>1, <1>2, <1>3, <1>4, <1>5, <1>6, <1>7, <1>8, <1>9, <1>10, <1>11, <1>12, <1>13, <1>14, <1>15
  DEF Next, CaptureThread, RefreshThread, Watch

(* Every step keeps the types of what follows the reader.                   *)
LEMMA ViewTypes ==
    ASSUME TypeOK, [Next]_vars
    PROVE  ViewTypeOK'
<1> USE Zeros, QueueOfOne DEF TypeOK, ViewTypeOK
<1>1. CASE Read
  BY <1>1 DEF Read, ReaderTypeOK, metaVars
<1>2. CASE Publish \/ Stop \/ ReleaseEnds
  <2>1. CASE Publish
    BY <2>1 DEF Publish, metaVars, imageVars
  <2>2. CASE Stop
    BY <2>2 DEF Stop, metaVars
  <2>3. CASE ReleaseEnds
    BY <2>3 DEF ReleaseEnds, metaVars, imageVars
  <2> QED BY <1>2, <2>1, <2>2, <2>3
<1>3. CASE Unwatched \/ ReleaseBegins
  <2>1. gone' \in Frame
    BY <1>3, LosesNewest DEF Unwatched, ReleaseBegins
  <2> QED BY <1>3, <2>1 DEF Unwatched, ReleaseBegins, metaVars, imageVars
<1>4. CASE EncodeLook
  BY <1>4 DEF EncodeLook, metaVars, imageVars
<1>5. CASE Encode
  <2>1. gone' \in Frame
    BY <1>5, LosesNewest DEF Encode
  <2> QED BY <1>5, <2>1 DEF Encode, metaVars, imageVars
<1>6. CASE Watch
  <2>1. CASE \E v \in Viewers : Serve(v) \/ Stall(v)
    <3>1. PICK v \in Viewers : Serve(v) \/ Stall(v)
      BY <2>1
    <3>2. CASE Serve(v)
      BY <3>2 DEF Serve, metaVars
    <3>3. CASE Stall(v)
      BY <3>3 DEF Stall, metaVars
    <3> QED BY <3>1, <3>2, <3>3
  <2>2. CASE (\E v \in Viewers : Attach(v) \/ Leave(v)) \/ Vanish \/ StaleLeave
    <3>1. conns' \in Nat
      BY <2>2 DEF Attach, Leave, Vanish, StaleLeave, Uncount
    <3> QED BY <2>2, <3>1 DEF Attach, Leave, Vanish, StaleLeave, imageVars
  <2> QED BY <1>6, <2>1, <2>2 DEF Watch
<1>7. CASE RefDrain
  <2>1. gone' \in Frame /\ UNCHANGED viewVars
    BY <1>7, LosesNewest DEF RefDrain, ReaderTypeOK
  <2> QED BY <2>1 DEF viewVars, metaVars, imageVars
<1>8. CASE UNCHANGED <<viewVars, gone>>
  BY <1>8 DEF viewVars, metaVars, imageVars
<1>9. CaptureThread \/ RefWake \/ RefOpen \/ RefInstall \/ UNCHANGED vars
        => UNCHANGED <<viewVars, gone>>
  BY DEF CaptureThread, CapCheck, CapRead, CapReadFails, CapPut, CapOpen, CapInstall,
         RefWake, RefOpen, RefInstall, vars
<1> QED BY <1>1, <1>2, <1>3, <1>4, <1>5, <1>6, <1>7, <1>8, <1>9
        DEF Next, RefreshThread, Encoder, Watch

----------------------------------------------------------------------------
(* Handles.                                                                *)

(* A step that neither opens nor closes, nor puts a handle in place.        *)
LEMMA HandsStay ==
    ASSUME HandlesInv, UNCHANGED <<handles, capture, mislaid>>,
           cap'.new = cap.new, ref'.new = ref.new,
           cap.at = "install" <=> cap'.at = "install",
           ref.at = "install" <=> ref'.at = "install"
    PROVE  HandlesInv'
BY DEF HandlesInv, HandlesAreHeld

(* Every step keeps each open handle in somebody's hand.                    *)
LEMMA HandlesStep ==
    ASSUME TypeOK, HandlesInv, [Next]_vars
    PROVE  HandlesInv'
<1> USE DEF TypeOK, ReaderTypeOK
<1>1. CASE CapCheck \/ CapRead \/ CapReadFails \/ CapPut
  <2>1. /\ UNCHANGED <<handles, capture, mislaid, ref>> /\ cap'.new = cap.new
        /\ cap.at # "install" /\ cap'.at # "install"
    BY <1>1 DEF CapCheck, CapRead, CapReadFails, CapPut
  <2> QED BY <2>1, HandsStay
<1>2. CASE CapOpen
  <2>1. UNCHANGED <<capture, mislaid, ref>> /\ cap.at = "open"
    BY <1>2 DEF CapOpen
  <2>2. CASE /\ handles' = handles \cup {opened + 1}
             /\ cap' = [cap EXCEPT !.at = "install", !.new = opened + 1]
    <3>1. opened + 1 # 0 /\ cap'.new = opened + 1 /\ cap'.at = "install" /\ cap.new = 0
      BY <2>1, <2>2, FrameBounds DEF Handle, HandlesInv
    <3>2. 0 \notin handles
      OBVIOUS
    <3> QED BY <2>1, <2>2, <3>1, <3>2 DEF HandlesInv, HandlesAreHeld
  <2>3. CASE cap' = [cap EXCEPT !.at = "check"] /\ UNCHANGED handles
    <3>1. cap'.new = cap.new /\ cap'.at = "check"
      BY <2>3
    <3> QED BY <2>1, <2>3, <3>1, HandsStay
  <2> QED BY <1>2, <2>2, <2>3 DEF CapOpen
<1>3. CASE CapInstall
  <2>1. /\ handles' = handles \ {capture} /\ capture' = cap.new /\ ref' = ref
        /\ mislaid \subseteq mislaid' /\ cap'.new = 0 /\ cap'.at = "check"
    BY <1>3 DEF CapInstall
  <2> QED BY <2>1 DEF HandlesInv, HandlesAreHeld
<1>4. CASE RefWake \/ RefDrain
  <2>1. /\ UNCHANGED <<handles, capture, mislaid, cap>> /\ ref'.new = ref.new
        /\ ref.at # "install" /\ ref'.at # "install"
    BY <1>4 DEF RefWake, RefDrain, RefSets
  <2> QED BY <2>1, HandsStay
<1>5. CASE RefOpen
  <2>1. UNCHANGED <<capture, mislaid, cap>> /\ ref.at = "open"
    BY <1>5 DEF RefOpen
  <2>2. CASE /\ handles' = handles \cup {opened + 1}
             /\ ref' = [ref EXCEPT !.at = "install", !.new = opened + 1]
    <3>1. opened + 1 # 0 /\ ref'.new = opened + 1 /\ ref'.at = "install" /\ ref.new = 0
      BY <2>1, <2>2, FrameBounds DEF Handle, HandlesInv
    <3>2. 0 \notin handles
      OBVIOUS
    <3> QED BY <2>1, <2>2, <3>1, <3>2 DEF HandlesInv, HandlesAreHeld
  <2>3. CASE ref' = [ref EXCEPT !.at = "sleep", !.old = 0] /\ UNCHANGED handles
    <3>1. ref'.new = ref.new /\ ref'.at = "sleep"
      BY <2>3
    <3> QED BY <2>1, <2>3, <3>1, HandsStay
  <2> QED BY <1>5, <2>2, <2>3 DEF RefOpen
<1>6. CASE RefInstall
  <2>1. /\ handles' = handles \ {ref.old} /\ capture' = ref.new /\ cap' = cap
        /\ mislaid \cup ({capture} \ {0, ref.old}) \subseteq mislaid'
        /\ ref'.new = 0 /\ ref'.at = "sleep"
    BY <1>6 DEF RefInstall
  <2>2. 0 \notin handles
    OBVIOUS
  <2> QED BY <2>1, <2>2 DEF HandlesInv, HandlesAreHeld
<1>7. CASE ReleaseEnds
  BY <1>7 DEF ReleaseEnds, HandlesInv, HandlesAreHeld
<1>8. CASE UNCHANGED <<handles, capture, mislaid, cap, ref>>
  BY <1>8, HandsStay
<1>9. Encoder \/ Read \/ Publish \/ Unwatched \/ Stop \/ ReleaseBegins \/ Watch \/ UNCHANGED vars
        => UNCHANGED <<handles, capture, mislaid, cap, ref>>
  BY DEF Encoder, EncodeLook, Encode, Read, Publish, Unwatched, Stop, ReleaseBegins, Watch, Serve,
         Stall, Attach, Vanish, Leave, StaleLeave, vars, readerVars
<1> QED BY <1>1, <1>2, <1>3, <1>4, <1>5, <1>6, <1>7, <1>8, <1>9
        DEF Next, CaptureThread, RefreshThread, Watch

(* Types, and every open handle in somebody's hand, throughout.             *)
THEOREM PathTypes == Spec => [](TypeOK /\ HandlesInv)
<1>1. Init => TypeOK /\ HandlesInv
  <2> SUFFICES ASSUME Init PROVE TypeOK /\ HandlesInv
    OBVIOUS
  <2>1. 1 \in Handle /\ 1 \in 1 .. MaxHandles
    BY FrameBounds DEF Handle
  <2>2. ReaderTypeOK
    BY <2>1, Zeros, QueueOfOne DEF Init, ReaderTypeOK
  <2>3. ViewTypeOK
    BY Zeros, QueueOfOne DEF Init, ViewTypeOK
  <2>4. HandlesInv
    BY DEF Init, HandlesInv, HandlesAreHeld
  <2> QED BY <2>2, <2>3, <2>4 DEF TypeOK
<1>2. TypeOK /\ HandlesInv /\ [Next]_vars => TypeOK' /\ HandlesInv'
  BY ReaderTypes, ViewTypes, HandlesStep DEF TypeOK
<1> QED BY <1>1, <1>2, PTL DEF Spec

(* HandlesAreHeld for any number of handles: reopening, swapping and        *)
(* releasing at the same time lose none, but for the two races recorded.    *)
THEOREM NoHandleIsLost == Spec => []HandlesAreHeld
<1>1. HandlesInv => HandlesAreHeld
  BY DEF HandlesInv
<1> QED BY <1>1, PathTypes, PTL

----------------------------------------------------------------------------
(* Order.                                                                  *)

(* The camera's number, and the order of what the two queues and the three  *)
(* threads hold, are kept by every step.                                    *)
LEMMA OrderStep ==
    ASSUME TypeOK, TypeOK', InOrder, [Next]_vars
    PROVE  InOrder'
<1>0. /\ {frames, preview, served, cap.frame, con.frame, enc.frame, enc.last} \subseteq Nat
      /\ frames' \in Nat
      /\ latest # <<>> => Head(latest) \in Nat
      /\ jpegs # <<>> => Head(jpegs) \in Nat
  BY Zeros, QueueOfOne DEF TypeOK, ReaderTypeOK, ViewTypeOK
<1>a. cap \in [at : {"check", "read", "put", "open", "install", "over"},
               mine : Handle, new : Handle, frame : Frame]
  BY DEF TypeOK, ReaderTypeOK
<1>b. con \in [at : {"read", "work", "join", "done"}, frame : Frame]
  BY DEF TypeOK, ViewTypeOK
<1>c. enc \in [at : {"look", "encode", "over"}, frame : Frame, last : Frame]
  BY DEF TypeOK, ViewTypeOK
<1>1. CASE CapCheck \/ CapOpen \/ CapInstall
  <2>1. /\ UNCHANGED <<frames, latest, con, preview, enc, jpegs, served>>
        /\ cap'.at # "put"
    BY <1>1, <1>a DEF CapCheck, CapOpen, CapInstall, viewVars, imageVars
  <2> QED BY <2>1 DEF InOrder, Taken
<1>2. CASE CapRead
  <2>1. /\ UNCHANGED <<latest, con, preview, enc, jpegs, served>>
        /\ frames' = frames + 1 /\ cap'.at = "put" /\ cap'.frame = frames + 1
    BY <1>2, <1>a DEF CapRead, viewVars, imageVars
  <2>2. Taken \in Nat
    BY <1>0 DEF Taken
  <2>3. Taken' = Taken
    BY <2>1 DEF Taken
  <2>4. latest # <<>> => Head(latest) <= frames
    <3>1. CASE latest # <<>> /\ Head(latest) = 0
      BY <1>0, <3>1
    <3>2. CASE latest # <<>> /\ Head(latest) # 0
      BY <3>2 DEF InOrder
    <3> QED BY <3>1, <3>2
  <2> QED BY <1>0, <2>1, <2>2, <2>3, <2>4 DEF InOrder
<1>3. CASE CapReadFails
  <2>1. /\ UNCHANGED <<frames, con, preview, enc, jpegs, served>>
        /\ cap'.at = "open" /\ latest' = IF latest = <<>> THEN <<0>> ELSE latest
    BY <1>3, <1>a DEF CapReadFails, viewVars, imageVars
  <2>2. CASE latest = <<>>
    <3>1. Head(latest') = 0
      BY <2>1, <2>2, Zeros, QueueOfOne
    <3> QED BY <2>1, <3>1 DEF InOrder, Taken
  <2>3. CASE latest # <<>>
    BY <2>1, <2>3 DEF InOrder, Taken
  <2> QED BY <2>2, <2>3
<1>4. CASE CapPut
  <2>1. /\ UNCHANGED <<frames, con, preview, enc, jpegs, served>>
        /\ cap'.at = "check" /\ latest' = <<cap.frame>>
    BY <1>4, <1>a DEF CapPut, viewVars, imageVars
  <2>2. Head(latest') = cap.frame /\ cap.frame = frames /\ Taken < frames
    BY <1>4, <1>a, <2>1, QueueOfOne DEF InOrder, CapPut
  <2> QED BY <1>0, <2>1, <2>2 DEF InOrder, Taken
<1>5. CASE RefreshThread
  <2>1. /\ UNCHANGED <<frames, cap, con, preview, enc, jpegs, served>>
        /\ latest' = latest \/ latest' = <<>>
    BY <1>5 DEF RefreshThread, RefWake, RefDrain, RefOpen, RefInstall, viewVars, imageVars
  <2> QED BY <2>1 DEF InOrder, Taken
<1>6. CASE Read
  <2>1. /\ UNCHANGED <<frames, cap, preview, enc, jpegs, served>>
        /\ con.at = "read" /\ latest # <<>> /\ latest' = <<>>
        /\ con' = IF Head(latest) = 0 THEN con ELSE [at |-> "work", frame |-> Head(latest)]
    BY <1>6 DEF Read
  <2>2. Taken = preview
    BY <2>1 DEF Taken
  <2>3. CASE Head(latest) = 0
    BY <2>1, <2>3 DEF InOrder, Taken
  <2>4. CASE Head(latest) # 0
    <3>1. con'.at = "work" /\ con'.frame = Head(latest) /\ Taken' = Head(latest)
      BY <2>1, <2>4 DEF Taken
    <3>2. Taken < Head(latest) /\ Head(latest) <= frames
          /\ (cap.at = "put" => Head(latest) < frames)
      BY <2>1, <2>4 DEF InOrder
    <3> QED BY <1>0, <2>1, <2>2, <3>1, <3>2 DEF InOrder
  <2> QED BY <2>3, <2>4
<1>7. CASE Publish
  <2>1. /\ UNCHANGED <<frames, cap, latest, enc, jpegs, served>>
        /\ con.at = "work" /\ con'.at = "read" /\ preview' = con.frame
    BY <1>7, <1>b DEF Publish, readerVars, imageVars
  <2>2. Taken = con.frame /\ Taken' = con.frame
    BY <2>1 DEF Taken
  <2> QED BY <1>0, <2>1, <2>2 DEF InOrder
<1>8. CASE Stop \/ (Watch /\ ~ \E v \in Viewers : Serve(v)) \/ UNCHANGED vars
  <2>1. UNCHANGED <<frames, cap, latest, con, preview, enc, jpegs, served>>
    BY <1>8 DEF Stop, Watch, Stall, Attach, Vanish, Leave, StaleLeave, vars, readerVars, viewVars,
                imageVars
  <2> QED BY <2>1 DEF InOrder, Taken
<1>9. CASE Unwatched \/ ReleaseBegins \/ ReleaseEnds
  <2>1. /\ UNCHANGED <<frames, cap, latest, preview, enc, jpegs, served>>
        /\ con'.at # "work"
    BY <1>9, <1>b DEF Unwatched, ReleaseBegins, ReleaseEnds, readerVars, imageVars
  <2>2. Taken' = preview /\ preview <= Taken /\ Taken \in Nat
    BY <1>0, <2>1 DEF InOrder, Taken
  <2> QED BY <1>0, <2>1, <2>2 DEF InOrder
<1>10. CASE EncodeLook
  <2>1. UNCHANGED <<frames, cap, latest, con, preview, jpegs, served>>
    BY <1>10 DEF EncodeLook, readerVars, imageVars
  <2>2. Taken' = Taken
    BY <2>1 DEF Taken
  <2>3. CASE enc' = [enc EXCEPT !.at = "over"]
    <3>1. enc'.at = "over" /\ enc'.last = enc.last
      BY <1>c, <2>3
    <3> QED BY <2>1, <2>2, <3>1 DEF InOrder
  <2>4. CASE preview # enc.last /\ enc' = [at |-> "encode", frame |-> preview, last |-> preview]
    <3>1. enc'.at = "encode" /\ enc'.last = preview /\ enc'.frame = preview
      BY <2>4
    <3>2. enc.last < preview
      BY <1>0, <2>4 DEF InOrder
    <3> QED BY <1>0, <2>1, <2>2, <3>1, <3>2 DEF InOrder
  <2> QED BY <1>10, <2>3, <2>4 DEF EncodeLook
<1>11. CASE Encode
  <2>1. /\ UNCHANGED <<frames, cap, latest, con, preview, served>>
        /\ enc.at = "encode" /\ enc'.at = "look" /\ enc'.last = enc.last
        /\ jpegs' = <<enc.frame>> \/ jpegs' = jpegs
    BY <1>11, <1>c DEF Encode, readerVars, imageVars
  <2>2. Taken' = Taken
    BY <2>1 DEF Taken
  <2>3. jpegs' # <<>> => served < Head(jpegs') /\ Head(jpegs') <= enc.last
    <3>1. CASE jpegs' = jpegs
      BY <3>1 DEF InOrder
    <3>2. CASE jpegs' = <<enc.frame>>
      <4>1. Head(jpegs') = enc.frame
        BY <1>c, <3>2, QueueOfOne
      <4>2. enc.frame = enc.last /\ served < enc.frame
        BY <2>1 DEF InOrder
      <4> QED BY <1>0, <4>1, <4>2
    <3> QED BY <2>1, <3>1, <3>2
  <2> QED BY <2>1, <2>2, <2>3 DEF InOrder
<1>12. ASSUME NEW v \in Viewers, Serve(v) PROVE InOrder'
  <2>1. /\ UNCHANGED <<frames, cap, latest, con, preview, enc>>
        /\ jpegs # <<>> /\ jpegs' = <<>> /\ served' = Head(jpegs)
    BY <1>12 DEF Serve, readerVars
  <2>2. Taken' = Taken
    BY <2>1 DEF Taken
  <2> QED BY <2>1, <2>2 DEF InOrder
<1> QED BY <1>1, <1>2, <1>3, <1>4, <1>5, <1>6, <1>7, <1>8, <1>9, <1>10, <1>11, <1>12
        DEF Next, CaptureThread, Encoder, Watch

(* InOrder throughout: each place between the camera and a viewer holds a   *)
(* newer frame than the next has passed on.                                 *)
THEOREM PathInOrder == Spec => []InOrder
<1>1. Init => InOrder
  BY DEF Init, InOrder, Taken
<1>2. TypeOK /\ TypeOK' /\ InOrder /\ [Next]_vars => InOrder'
  BY OrderStep
<1> QED BY <1>1, <1>2, PathTypes, PTL DEF Spec

(* What is shown changes with a JPEG served, which is shown, or a stall.    *)
LEMMA ShownStep ==
    ASSUME [Next]_vars
    PROVE  \/ \E v \in Viewers : Serve(v) \/ Stall(v)
           \/ shown' = shown
<1>1. CASE CaptureThread \/ RefreshThread \/ Encoder \/ UNCHANGED vars
  BY <1>1 DEF CaptureThread, CapCheck, CapRead, CapReadFails, CapPut, CapOpen, CapInstall,
              RefreshThread, RefWake, RefDrain, RefOpen, RefInstall, Encoder, EncodeLook, Encode,
              vars, viewVars, imageVars
<1>2. CASE Read \/ Publish \/ Unwatched \/ Stop \/ ReleaseBegins \/ ReleaseEnds
  BY <1>2 DEF Read, Publish, Unwatched, Stop, ReleaseBegins, ReleaseEnds, imageVars
<1>3. ASSUME NEW v \in Viewers, Attach(v) \/ Leave(v) PROVE shown' = shown
  BY <1>3 DEF Attach, Leave, imageVars
<1>4. CASE Vanish \/ StaleLeave
  BY <1>4 DEF Vanish, StaleLeave, imageVars
<1> QED BY <1>1, <1>2, <1>3, <1>4 DEF Next

(* ServedInOrder for any number of viewers and frames: a JPEG that a        *)
(* generator serves is newer than all served before it by any of them, and  *)
(* only a stall shows an older image.                                       *)
THEOREM NoneServedTwice == Spec => ServedInOrder
<1> DEFINE Order == /\ \A v \in Viewers : Serve(v) => Head(jpegs) > served
                    /\ shown' < shown => shown # served \/ \E v \in Viewers : Stall(v)
<1>1. TypeOK /\ InOrder /\ [Next]_vars => [Order]_vars
  <2> SUFFICES ASSUME TypeOK, InOrder, [Next]_vars PROVE Order
    OBVIOUS
  <2>1. ASSUME NEW v \in Viewers, Serve(v) PROVE Head(jpegs) > served /\ shown' = Head(jpegs)
    <3>1. served < Head(jpegs)
      BY <2>1 DEF InOrder, Serve
    <3>2. served \in Nat /\ Head(jpegs) \in Nat
      BY <2>1, Zeros, QueueOfOne DEF TypeOK, ViewTypeOK, Serve
    <3> QED BY <2>1, <3>1, <3>2 DEF Serve
  <2>2. ASSUME NEW v \in Viewers, Serve(v), shown' < shown PROVE shown # served
    <3>1. shown' > served /\ served \in Nat /\ shown' \in Nat /\ shown \in Nat
      BY <2>1, <2>2, Zeros, QueueOfOne DEF TypeOK, ViewTypeOK, Serve
    <3> QED BY <2>2, <3>1
  <2>3. shown \in Nat
    BY Zeros DEF TypeOK, ViewTypeOK
  <2>4. CASE \E v \in Viewers : Serve(v) \/ Stall(v)
    BY <2>1, <2>2, <2>4
  <2>5. CASE ~ \E v \in Viewers : Serve(v) \/ Stall(v)
    <3>1. ~ (shown' < shown)
      BY <2>3, <2>5, ShownStep
    <3> QED BY <2>5, <3>1
  <2> QED BY <2>4, <2>5
<1> QED BY <1>1, PathInOrder, PathTypes, PTL DEF ServedInOrder, Spec

----------------------------------------------------------------------------
(* The newest.                                                             *)

(* Every step counts who comes and who goes.                                *)
LEMMA CountStep ==
    ASSUME TypeOK, WatchersAreCounted, [Next]_vars
    PROVE  WatchersAreCounted'
<1>0. /\ IsFiniteSet(watching) /\ Cardinality(watching) \in Nat /\ conns \in Nat
  BY FrameBounds, FS_Subset, FS_CardinalityType DEF TypeOK, ViewTypeOK
<1>1. ASSUME NEW v \in Viewers, Attach(v) PROVE WatchersAreCounted'
  <2>1. Cardinality(watching') = Cardinality(watching) + 1
    BY <1>0, <1>1, FS_AddElement DEF Attach
  <2> QED BY <1>0, <1>1, <2>1 DEF Attach, WatchersAreCounted
<1>2. ASSUME NEW v \in Viewers, Leave(v) PROVE WatchersAreCounted'
  <2>1. Cardinality(watching') = Cardinality(watching) - 1
    BY <1>0, <1>2, FS_RemoveElement DEF Leave
  <2>2. Cardinality(watching') \in Nat
    BY <1>0, <1>2, FS_Subset, FS_CardinalityType DEF Leave
  <2>3. conns' >= conns - 1 /\ conns' \in Nat /\ stale' = stale
    BY <1>0, <1>2 DEF Leave, Uncount
  <2> QED BY <1>0, <2>1, <2>2, <2>3 DEF WatchersAreCounted
<1>3. CASE Vanish \/ StaleLeave
  BY <1>0, <1>3 DEF Vanish, StaleLeave, WatchersAreCounted
<1>4. CASE UNCHANGED metaVars
  BY <1>4 DEF metaVars, WatchersAreCounted
<1>5. CaptureThread \/ RefreshThread \/ Encoder \/ UNCHANGED vars => UNCHANGED metaVars
  BY DEF CaptureThread, CapCheck, CapRead, CapReadFails, CapPut, CapOpen, CapInstall,
         RefreshThread, RefWake, RefDrain, RefOpen, RefInstall, Encoder, EncodeLook, Encode,
         vars, viewVars
<1>6. Read \/ Publish \/ Unwatched \/ Stop \/ ReleaseBegins \/ ReleaseEnds => UNCHANGED metaVars
  BY DEF Read, Publish, Unwatched, Stop, ReleaseBegins, ReleaseEnds
<1>7. (\E v \in Viewers : Serve(v) \/ Stall(v)) => UNCHANGED metaVars
  BY DEF Serve, Stall
<1> QED BY <1>1, <1>2, <1>3, <1>4, <1>5, <1>6, <1>7 DEF Next

(* WatchersAreCounted for any number of viewers: nobody who watches goes    *)
(* uncounted but for a generator of an earlier pipeline.                    *)
THEOREM ViewersAreCounted == Spec => []WatchersAreCounted
<1>1. Init => WatchersAreCounted
  BY FS_EmptySet DEF Init, WatchersAreCounted
<1>2. TypeOK /\ WatchersAreCounted /\ [Next]_vars => WatchersAreCounted'
  BY CountStep
<1> QED BY <1>1, <1>2, PathTypes, PTL DEF Spec

(* Every step hands the newest frame on, or accounts for it.                *)
LEMMA WayStep ==
    ASSUME TypeOK, TypeOK', InOrder, WatchersAreCounted, NewestIsOnItsWay, [Next]_vars
    PROVE  NewestIsOnItsWay'
<1>0. /\ {frames, gone, gone', preview, served, con.frame, enc.frame, enc.last} \subseteq Nat
      /\ jpegs # <<>> => Head(jpegs) \in Nat
      /\ enc.last <= preview /\ preview <= Taken /\ Taken <= frames /\ Taken \in Nat
  BY Zeros, QueueOfOne DEF TypeOK, ReaderTypeOK, ViewTypeOK, InOrder, Taken
<1>a. cap \in [at : {"check", "read", "put", "open", "install", "over"},
               mine : Handle, new : Handle, frame : Frame]
  BY DEF TypeOK, ReaderTypeOK
<1>b. con \in [at : {"read", "work", "join", "done"}, frame : Frame]
  BY DEF TypeOK, ViewTypeOK
<1>c. enc \in [at : {"look", "encode", "over"}, frame : Frame, last : Frame]
  BY DEF TypeOK, ViewTypeOK
<1>1. CASE CapCheck \/ CapOpen \/ CapInstall
  <2>1. /\ UNCHANGED <<frames, gone, latest, con, preview, enc, jpegs, served>>
        /\ cap.at # "put"
    BY <1>1 DEF CapCheck, CapOpen, CapInstall, viewVars, imageVars
  <2> QED BY <2>1 DEF NewestIsOnItsWay
<1>2. CASE CapRead
  <2>1. cap'.at = "put"
    BY <1>2, <1>a DEF CapRead
  <2> QED BY <2>1 DEF NewestIsOnItsWay
<1>3. CASE CapReadFails
  <2>1. /\ UNCHANGED <<frames, gone, con, preview, enc, jpegs, served>>
        /\ cap.at # "put" /\ (latest # <<>> => latest' = latest)
    BY <1>3 DEF CapReadFails, viewVars, imageVars
  <2> QED BY <2>1 DEF NewestIsOnItsWay
<1>4. CASE CapPut
  <2>1. latest' = <<cap.frame>> /\ cap.frame = frames /\ frames' = frames
    BY <1>4 DEF CapPut, InOrder
  <2>2. latest' # <<>> /\ Head(latest') = frames
    BY <2>1, <1>a, QueueOfOne
  <2> QED BY <2>1, <2>2 DEF NewestIsOnItsWay
<1>5. CASE RefreshThread
  <2>1. /\ UNCHANGED <<frames, cap, con, preview, enc, jpegs, served>>
        /\ \/ UNCHANGED <<latest, gone>>
           \/ latest # <<>> /\ Lose(Head(latest))
    BY <1>5 DEF RefreshThread, RefWake, RefDrain, RefOpen, RefInstall, viewVars, imageVars
  <2>2. CASE UNCHANGED <<latest, gone>>
    BY <2>1, <2>2 DEF NewestIsOnItsWay
  <2>3. CASE latest # <<>> /\ Lose(Head(latest))
    <3>1. gone' >= gone /\ gone' >= Head(latest)
      BY <2>3, LosesNewest, QueueOfOne DEF TypeOK, ReaderTypeOK, ViewTypeOK
    <3> QED BY <1>0, <2>1, <2>3, <3>1 DEF NewestIsOnItsWay
  <2> QED BY <2>1, <2>2, <2>3
<1>6. CASE Read
  <2>1. /\ UNCHANGED <<frames, gone, cap, preview, enc, jpegs, served>>
        /\ con.at = "read" /\ latest # <<>>
        /\ con' = IF Head(latest) = 0 THEN con ELSE [at |-> "work", frame |-> Head(latest)]
    BY <1>6 DEF Read
  <2>2. CASE frames = 0 \/ Head(latest) # frames
    BY <1>0, <2>1, <2>2 DEF NewestIsOnItsWay
  <2>3. CASE frames # 0 /\ Head(latest) = frames
    <3>1. con'.at = "work" /\ con'.frame = frames
      BY <2>1, <2>3
    <3> QED BY <2>1, <3>1 DEF NewestIsOnItsWay
  <2> QED BY <2>2, <2>3
<1>7. CASE Publish
  <2>1. /\ UNCHANGED <<frames, gone, cap, latest, enc, jpegs, served>>
        /\ con.at = "work" /\ preview' = con.frame
    BY <1>7 DEF Publish, readerVars, imageVars
  <2>2. preview < con.frame /\ con.frame <= frames
    BY <1>0, <2>1 DEF InOrder, Taken
  <2>3. CASE con.frame = frames
    BY <1>0, <2>1, <2>2, <2>3 DEF NewestIsOnItsWay
  <2>4. CASE con.frame # frames
    <3>1. preview # frames
      BY <1>0, <2>2
    <3> QED BY <2>1, <2>4, <3>1 DEF NewestIsOnItsWay
  <2> QED BY <2>3, <2>4
<1>8. CASE Stop \/ (Watch /\ ~ \E v \in Viewers : Serve(v)) \/ UNCHANGED vars
  <2>1. UNCHANGED <<frames, gone, cap, latest, con, preview, enc, jpegs, served>>
    BY <1>8 DEF Stop, Watch, Stall, Attach, Vanish, Leave, StaleLeave, vars, readerVars, viewVars,
                imageVars
  <2> QED BY <2>1 DEF NewestIsOnItsWay
<1>9. CASE Unwatched
  <2>1. /\ UNCHANGED <<frames, cap, latest, preview, enc, jpegs, served>>
        /\ conns = 0 /\ con.at = "work"
    BY <1>9 DEF Unwatched, readerVars, imageVars
  <2>2. watching = {} \/ stale
    <3>1. IsFiniteSet(watching) /\ Cardinality(watching) \in Nat
      BY FrameBounds, FS_Subset, FS_CardinalityType DEF TypeOK, ViewTypeOK
    <3>2. stale \/ Cardinality(watching) = 0
      BY <2>1, <3>1 DEF WatchersAreCounted
    <3> QED BY <3>1, <3>2, FS_EmptySet
  <2>3. Lose(con.frame)
    BY <1>9, <2>2 DEF Unwatched
  <2>4. gone' >= gone /\ gone' >= con.frame
    BY <1>b, <2>3, LosesNewest DEF TypeOK, ViewTypeOK
  <2> QED BY <1>0, <2>1, <2>4 DEF NewestIsOnItsWay
<1>13. CASE ReleaseBegins \/ ReleaseEnds
  <2>1. /\ UNCHANGED <<frames, cap, latest, preview, enc, jpegs, served>>
        /\ \/ con.at # "work" /\ gone' = gone
           \/ Lose(con.frame)
    BY <1>13 DEF ReleaseBegins, ReleaseEnds, imageVars
  <2>2. CASE con.at # "work" /\ gone' = gone
    BY <2>1, <2>2 DEF NewestIsOnItsWay
  <2>3. CASE Lose(con.frame)
    <3>1. gone' >= gone /\ gone' >= con.frame
      BY <1>b, <2>3, LosesNewest DEF TypeOK, ViewTypeOK
    <3> QED BY <1>0, <2>1, <3>1 DEF NewestIsOnItsWay
  <2> QED BY <2>1, <2>2, <2>3
<1>10. CASE EncodeLook
  <2>1. UNCHANGED <<frames, gone, cap, latest, con, preview, jpegs, served>> /\ enc.at = "look"
    BY <1>10 DEF EncodeLook, readerVars, imageVars
  <2>2. CASE enc' = [enc EXCEPT !.at = "over"]
    <3>1. enc'.last = enc.last
      BY <1>c, <2>2
    <3> QED BY <2>1, <3>1 DEF NewestIsOnItsWay
  <2>3. CASE enc' = [at |-> "encode", frame |-> preview, last |-> preview]
    <3>1. enc'.at = "encode"
      BY <2>3
    <3> QED BY <2>1, <3>1 DEF NewestIsOnItsWay
  <2> QED BY <1>10, <2>2, <2>3 DEF EncodeLook
<1>11. CASE Encode
  <2>1. /\ UNCHANGED <<frames, cap, latest, con, preview, served>>
        /\ enc.at = "encode" /\ enc'.last = enc.last
        /\ \/ jpegs' = <<enc.frame>> /\ gone' = gone
           \/ jpegs' = jpegs /\ Lose(enc.frame)
    BY <1>11, <1>c DEF Encode, readerVars, imageVars
  <2>2. enc.frame = enc.last /\ (jpegs # <<>> => Head(jpegs) < enc.frame)
    BY <2>1 DEF InOrder
  <2>5. Lose(enc.frame) => gone' >= gone /\ gone' >= enc.frame
    BY <1>c, LosesNewest DEF TypeOK, ViewTypeOK
  <2>3. CASE preview = frames /\ enc.last = frames
    <3>1. CASE jpegs' = <<enc.frame>>
      <4>1. jpegs' # <<>> /\ Head(jpegs') = frames
        BY <1>c, <2>2, <2>3, <3>1, QueueOfOne
      <4> QED BY <2>1, <2>3, <4>1 DEF NewestIsOnItsWay
    <3>2. CASE Lose(enc.frame)
      BY <1>0, <2>1, <2>2, <2>3, <2>5, <3>2 DEF NewestIsOnItsWay
    <3> QED BY <2>1, <3>1, <3>2
  <2>4. CASE ~(preview = frames /\ enc.last = frames)
    BY <1>0, <2>1, <2>4, <2>5 DEF NewestIsOnItsWay
  <2> QED BY <2>3, <2>4
<1>12. ASSUME NEW v \in Viewers, Serve(v) PROVE NewestIsOnItsWay'
  <2>1. /\ UNCHANGED <<frames, gone, cap, latest, con, preview, enc>>
        /\ jpegs # <<>> /\ served' = Head(jpegs) /\ served < Head(jpegs)
        /\ Head(jpegs) <= enc.last
    BY <1>12 DEF Serve, readerVars, InOrder
  <2>2. served # frames
    BY <1>0, <2>1
  <2> QED BY <2>1, <2>2 DEF NewestIsOnItsWay
<1> QED BY <1>1, <1>2, <1>3, <1>4, <1>5, <1>6, <1>7, <1>8, <1>9, <1>10, <1>11, <1>12, <1>13
        DEF Next, CaptureThread, Encoder, Watch

(* NewestIsOnItsWay for any number of viewers and frames: the safety half   *)
(* of NewestIsServed.                                                       *)
THEOREM NewestIsKept == Spec => []NewestIsOnItsWay
<1>1. Init => NewestIsOnItsWay
  BY DEF Init, NewestIsOnItsWay
<1>2. TypeOK /\ TypeOK' /\ InOrder /\ WatchersAreCounted /\ NewestIsOnItsWay /\ [Next]_vars
        => NewestIsOnItsWay'
  BY WayStep
<1> QED BY <1>1, <1>2, PathInOrder, PathTypes, ViewersAreCounted, PTL DEF Spec
=============================================================================
