-------------------------- MODULE LifecycleProofs --------------------------
(***************************************************************************)
(* Safety of the bootloader with its supervisor, for every set of services *)
(* and of threads that restart them, and of the life cycle of AIOS, for    *)
(* every number of signals.                                                *)
(***************************************************************************)
EXTENDS MCLifecycle, FiniteSetTheorems, TLAPS

-----------------------------------------------------------------------------
(* AIOS.  The invariant says, for each call of stop() in progress, that    *)
(* all it has taken down is still down: calls that interrupt it only take  *)
(* down more.                                                              *)

IsDown(c) == /\ c \notin online
             /\ c = "unmount" => ~mounted
             /\ c = "root" => ~root

\* What the steps of stop() before step n have taken down.
DownTo(n) == \A i \in 1..11 : i < n => IsDown(StopOrder[i])

FramesDown == \A k \in 1..Len(frames) : DownTo(frames[k].at)

\* _running is cleared only at the end of stop(), which then returns.
ClearedLast ==
  main \in {"body", "finally"} /\ ~running => frames # <<>> /\ Top.at = 13

Phases ==
  /\ main \in {"starting", "ended"} => frames = <<>>
  /\ main = "starting" => outcome = "none" /\ ~running
  /\ main = "ended" /\ outcome = "clean" => DownTo(12)

\* What start() brings up before ROOT needs no ROOT.
StartedUnderRoot ==
  main = "starting" =>
    /\ begun < 3 => online \subseteq {"persistence", "cron"} /\ ~mounted
    /\ begun >= 3 => root

\* Nothing but the remote control server is started once ROOT is down.
UnderRoot ==
  main # "starting" /\ ~root =>
    /\ online \cap {"cpu", "server", "router"} = {} /\ ~mounted
    /\ "remote" \in online => outcome = "caught"
    /\ main = "body" /\ frames = <<>> => outcome = "caught"

AiosInv == /\ LayersTypeOK /\ AiosTypeOK /\ FramesDown /\ ClearedLast /\ Phases
       /\ StartedUnderRoot /\ UnderRoot

\* The orders of start() and stop() step by step.
LEMMA Orders ==
  /\ Len(StartOrder) = 10 /\ Len(StopOrder) = 11
  /\ StartOrder[1] = "persistence" /\ StartOrder[2] = "cron" /\ StartOrder[3] = "root"
  /\ StartOrder[4] = "cpu" /\ StartOrder[5] = "server" /\ StartOrder[6] = "home"
  /\ StartOrder[7] = "mount" /\ StartOrder[8] = "router" /\ StartOrder[9] = "heartbeat"
  /\ StartOrder[10] = "remote"
  /\ StopOrder[1] = "state" /\ StopOrder[2] = "heartbeat" /\ StopOrder[3] = "remote"
  /\ StopOrder[4] = "cron" /\ StopOrder[5] = "audit" /\ StopOrder[6] = "server"
  /\ StopOrder[7] = "router" /\ StopOrder[8] = "cpu" /\ StopOrder[9] = "unmount"
  /\ StopOrder[10] = "root" /\ StopOrder[11] = "persistence"
BY DEF StartOrder, StopOrder

\* What start() starts apart from the layers.
LEMMA Parts ==
  Part = {"persistence", "cron", "cpu", "server", "router", "heartbeat", "remote"}
<1>1. 1..10 = {1, 2, 3, 4, 5, 6, 7, 8, 9, 10}
  OBVIOUS
<1>2. {StartOrder[i] : i \in 1..10} =
        {"persistence", "cron", "root", "cpu", "server", "home", "mount",
         "router", "heartbeat", "remote"}
  <2>1. ASSUME NEW c
        PROVE  c \in {StartOrder[i] : i \in 1..10} <=>
                 c \in {"persistence", "cron", "root", "cpu", "server", "home", "mount",
                        "router", "heartbeat", "remote"}
    <3>1. CASE c \in {StartOrder[i] : i \in 1..10}
      BY <1>1, <3>1, Orders
    <3>2. CASE c \in {"persistence", "cron", "root", "cpu", "server", "home", "mount",
                      "router", "heartbeat", "remote"}
      BY <3>2, Orders
    <3> QED BY <3>1, <3>2
  <2> QED BY <2>1
<1> QED BY <1>2, Orders DEF Part, Layer

\* The whole of stop() takes down everything that start() starts, but HOME.
LEMMA AllDown == ASSUME AiosInv, DownTo(12) PROVE online = {} /\ ~root /\ ~mounted
<1>1. \A i \in 1..11 : IsDown(StopOrder[i])
  BY DEF DownTo
<1>2. /\ IsDown("remote") /\ IsDown("heartbeat") /\ IsDown("cron") /\ IsDown("server")
      /\ IsDown("router") /\ IsDown("cpu") /\ IsDown("unmount") /\ IsDown("root")
      /\ IsDown("persistence")
  BY <1>1, Orders
<1> QED BY <1>2, Parts DEF IsDown, AiosInv, AiosTypeOK

LEMMA AiosInvInitially == AiosInit /\ LayersInit => AiosInv
<1> SUFFICES ASSUME AiosInit, LayersInit PROVE AiosInv
  OBVIOUS
<1>1. LayersTypeOK /\ AiosTypeOK
  <2>1. frames \in Seq([at : 1..(Len(StopOrder) + 2), block : Locking \cup {0}])
    BY DEF AiosInit
  <2>2. LayersTypeOK
    BY DEF LayersInit, LayersTypeOK
  <2>3. begun \in 0..Len(StartOrder) /\ signals \in 0..MaxSignals
    BY Orders, SignalAssumption DEF AiosInit
  <2>4. /\ running \in BOOLEAN /\ online \subseteq Part /\ made \in BOOLEAN /\ hung \in BOOLEAN
        /\ main \in {"starting", "body", "finally", "ended"}
        /\ outcome \in {"none", "clean", "raised", "caught"}
    BY DEF AiosInit
  <2> QED BY <2>1, <2>2, <2>3, <2>4 DEF AiosTypeOK
<1>2. FramesDown /\ ClearedLast /\ Phases /\ StartedUnderRoot /\ UnderRoot
  BY DEF AiosInit, LayersInit, FramesDown, ClearedLast, Phases, StartedUnderRoot, UnderRoot
<1> QED BY <1>1, <1>2 DEF AiosInv

FrameSet == [at : 1..13, block : Locking \cup {0}]

\* The calls of stop() in progress after a step are well formed.
LEMMA FrameFacts ==
  ASSUME frames \in Seq(FrameSet)
  PROVE  /\ \A k \in 1..Len(frames) : frames[k] \in FrameSet
         /\ \A b \in Locking \cup {0} : /\ Frame(b) \in FrameSet
                                      /\ <<Frame(b)>> \in Seq(FrameSet)
                                      /\ Append(frames, Frame(b)) \in Seq(FrameSet)
         /\ frames # <<>> /\ Top.at <= 12 =>
              [frames EXCEPT ![Len(frames)].at = @ + 1] \in Seq(FrameSet)
         /\ <<>> \in Seq(FrameSet)
<1>1. \A k \in 1..Len(frames) : frames[k] \in FrameSet
  OBVIOUS
<1>2. ASSUME NEW b \in Locking \cup {0}
      PROVE  /\ Frame(b) \in FrameSet /\ <<Frame(b)>> \in Seq(FrameSet)
             /\ Append(frames, Frame(b)) \in Seq(FrameSet)
  <2>1. Frame(b) \in FrameSet
    BY DEF Frame, FrameSet
  <2> QED BY <2>1
<1>3. ASSUME frames # <<>>, Top.at <= 12
      PROVE  [frames EXCEPT ![Len(frames)].at = @ + 1] \in Seq(FrameSet)
  <2>1. Len(frames) \in 1..Len(frames) /\ Top \in FrameSet
    BY <1>3, <1>1 DEF Top
  <2>2. [Top EXCEPT !.at = @ + 1] \in FrameSet
    BY <2>1, <1>3 DEF FrameSet
  <2>3. [frames EXCEPT ![Len(frames)] = [Top EXCEPT !.at = @ + 1]] \in Seq(FrameSet)
    BY <2>1, <2>2
  <2>4. [frames EXCEPT ![Len(frames)].at = @ + 1]
          = [frames EXCEPT ![Len(frames)] = [Top EXCEPT !.at = @ + 1]]
    BY DEF Top
  <2> QED BY <2>3, <2>4
<1>4. <<>> \in Seq(FrameSet)
  OBVIOUS
<1> QED BY <1>1, <1>2, <1>3, <1>4

\* Whoever takes parts down, the calls in progress stay explained.
LEMMA DownStays ==
  ASSUME \A c : IsDown(c) => IsDown(c)', NEW n \in 1..13, DownTo(n)
  PROVE  DownTo(n)'
BY DEF DownTo, StopOrder

LEMMA TypeNext == ASSUME AiosInv, AiosNext PROVE LayersTypeOK' /\ AiosTypeOK'
<1> USE DEF AiosInv, LayersTypeOK, AiosTypeOK
<1>1. frames \in Seq(FrameSet)
  BY Orders DEF FrameSet
<1>2. frames' \in Seq(FrameSet) => frames' \in Seq([at : 1..(Len(StopOrder) + 2), block : Locking \cup {0}])
  BY Orders DEF FrameSet
<1>3. <<>> \in Seq(FrameSet) /\ <<Frame(0)>> \in Seq(FrameSet)
  BY <1>1, FrameFacts
<1>4. CASE StartStep
  <2>1. begun' \in 0..Len(StartOrder) /\ frames' \in Seq(FrameSet)
    BY <1>4, <1>1, Orders DEF StartStep
  <2>2. online' \subseteq Part /\ root' \in BOOLEAN /\ mounted' \in BOOLEAN /\ home' \in BOOLEAN
    BY <1>4 DEF StartStep, Bring, RootStart, HomeStart, MountHome, layerVars
  <2> QED BY <1>4, <1>2, <2>1, <2>2 DEF StartStep
<1>5. CASE StartWithoutRemote
  BY <1>5, Orders DEF StartWithoutRemote, layerVars
<1>6. CASE StartDone
  BY <1>6 DEF StartDone, layerVars
<1>7. CASE StartFails
  BY <1>7, <1>2, <1>3 DEF StartFails, End, layerVars
<1>8. CASE StartRemote
  <2>1. online' \subseteq Part
    BY <1>8, Parts DEF StartRemote
  <2> QED BY <1>8, <2>1 DEF StartRemote, InBody, layerVars
<1>9. CASE \E c \in Part : StopPart(c)
  BY <1>9 DEF StopPart, InBody, layerVars
<1>10. CASE Leave
  BY <1>10, <1>2, <1>3 DEF Leave, InBody, layerVars
<1>11. CASE Signal
  <2>1. frames' \in Seq(FrameSet)
    BY <1>11, <1>1, FrameFacts DEF Signal
  <2>2. signals' \in 0..MaxSignals
    BY <1>11, SignalAssumption DEF Signal
  <2> QED BY <1>11, <1>2, <2>1, <2>2 DEF Signal, layerVars
<1>12. CASE SignalWhenStopped
  <2>1. signals' \in 0..MaxSignals
    BY <1>12, SignalAssumption DEF SignalWhenStopped
  <2> QED BY <1>12, <1>2, <1>3, <2>1 DEF SignalWhenStopped, End, layerVars
<1>13. CASE StopRaises
  BY <1>13, <1>2, <1>3 DEF StopRaises, End, layerVars
<1>14. CASE StopStep
  <2>3. Len(frames) \in 1..Len(frames)
    BY <1>14, <1>1 DEF StopStep, Stopping
  <2>4. Top.at \in 1..13
    BY <2>3, <1>1, FrameFacts DEF Top, FrameSet
  <2>1. frames' \in Seq(FrameSet)
    BY <1>14, <1>1, <2>4, FrameFacts, Orders DEF StopStep, Stopping
  <2>2. online' \subseteq Part /\ root' \in BOOLEAN /\ mounted' \in BOOLEAN /\ home' \in BOOLEAN
    BY <1>14 DEF StopStep, Take, UnmountHome, RootStop, layerVars
  <2> QED BY <1>14, <1>2, <2>1, <2>2 DEF StopStep
<1>15. CASE StopHangs
  BY <1>15 DEF StopHangs, layerVars
<1>16. CASE StopClears
  <2>1. frames' \in Seq(FrameSet)
    BY <1>16, <1>1, FrameFacts, Orders DEF StopClears
  <2> QED BY <1>16, <1>2, <2>1 DEF StopClears, layerVars
<1>17. CASE StopDone
  BY <1>17, <1>2, <1>3 DEF StopDone, End, layerVars
<1> QED BY <1>4, <1>5, <1>6, <1>7, <1>8, <1>9, <1>10, <1>11, <1>12, <1>13, <1>14, <1>15, <1>16, <1>17
        DEF AiosNext, AiosStep

\* What the top frame takes down next is down, and nothing comes up.
LEMMA TakesDown ==
  ASSUME AiosInv, StopStep
  PROVE  /\ \A c : IsDown(c) => IsDown(c)'
         /\ \A n : n = Top.at => IsDown(StopOrder[n])'
         /\ (mounted' => mounted) /\ (root' => root) /\ online' \subseteq online
<1> DEFINE c0 == StopOrder[Top.at]
<1>1. Take(c0)
  BY DEF StopStep
<1>2. online' = online \ {c0}
  BY <1>1 DEF Take
<1>3. /\ c0 = "unmount" => ~mounted'
      /\ c0 = "root" => ~root'
      /\ mounted' => mounted
      /\ root' => root
  BY <1>1 DEF Take, UnmountHome, RootStop, Layer, layerVars, AiosInv, LayersTypeOK
<1>4. \A c : IsDown(c) => IsDown(c)'
  BY <1>2, <1>3 DEF IsDown
<1>5. ASSUME NEW n, n = Top.at PROVE IsDown(StopOrder[n])'
  BY <1>2, <1>3, <1>5 DEF IsDown, StopOrder
<1> QED BY <1>2, <1>3, <1>4, <1>5

LEMMA FramesDownNext == ASSUME AiosInv, AiosNext PROVE FramesDown'
<1>1. frames \in Seq(FrameSet) /\ FramesDown
  BY Orders DEF FrameSet, AiosInv, AiosTypeOK
<1>2. frames' = <<>> => FramesDown'
  BY DEF FramesDown
<1>3. ASSUME NEW n, n = 1 PROVE DownTo(n)'
  BY <1>3 DEF DownTo
<1>4. CASE StartStep \/ StartWithoutRemote \/ StartDone \/ StartFails \/ SignalWhenStopped \/ StopDone
  <2>1. frames' = <<>>
    BY <1>4 DEF StartStep, StartWithoutRemote, StartDone, StartFails, SignalWhenStopped, StopDone,
                End, AiosInv, Phases
  <2> QED BY <1>2, <2>1
<1>5. CASE StartRemote \/ \E c \in Part : StopPart(c)
  <2>1. frames' = <<>>
    BY <1>5 DEF StartRemote, StopPart, InBody
  <2> QED BY <1>2, <2>1
<1>6. CASE Leave
  <2>1. Len(frames') = 1 /\ frames'[1].at = 1
    BY <1>6 DEF Leave, Frame
  <2> QED BY <1>3, <2>1 DEF FramesDown
<1>7. CASE Signal
  <2>1. PICK b \in Locking \cup {0} : frames' = Append(frames, Frame(b))
    BY <1>7 DEF Signal
  <2>2. \A c : IsDown(c) => IsDown(c)'
    BY <1>7 DEF Signal, IsDown, layerVars
  <2>3. ASSUME NEW k \in 1..Len(frames') PROVE DownTo(frames[k].at)'
    <3>1. CASE k \in 1..Len(frames)
      <4>1. frames'[k].at = frames[k].at /\ frames[k].at \in 1..13
        BY <3>1, <2>1, <1>1, FrameFacts DEF FrameSet
      <4>2. DownTo(frames[k].at)
        BY <3>1, <1>1 DEF FramesDown
      <4>3. ASSUME NEW n \in 1..13, DownTo(n) PROVE DownTo(n)'
        BY <4>3, <2>2, DownStays
      <4> QED BY <4>1, <4>2, <2>2 DEF DownTo, StopOrder
    <3>2. CASE k = Len(frames) + 1
      BY <3>2, <2>1, <1>1, <1>3 DEF Frame
    <3> QED BY <3>1, <3>2, <2>1, <1>1
  <2> QED BY <2>3 DEF FramesDown
<1>8. CASE StopRaises
  <2>1. CASE frames' = <<>>
    BY <1>2, <2>1
  <2>2. CASE frames' = <<Frame(0)>>
    <3>1. Len(frames') = 1 /\ frames'[1].at = 1
      BY <2>2 DEF Frame
    <3> QED BY <1>3, <3>1 DEF FramesDown
  <2> QED BY <1>8, <2>1, <2>2 DEF StopRaises, End
<1>9. CASE StopHangs
  BY <1>9, <1>1 DEF StopHangs, FramesDown, DownTo, IsDown, layerVars
<1>10. CASE StopStep \/ StopClears
  <2>1. /\ Len(frames) \in 1..Len(frames)
        /\ frames' = [frames EXCEPT ![Len(frames)].at = @ + 1]
        /\ \A c : IsDown(c) => IsDown(c)'
        /\ \A n \in 1..11 : n = Top.at => IsDown(StopOrder[n])'
    <3>1. CASE StopStep
      BY <3>1, <1>1, TakesDown DEF StopStep, Stopping
    <3>2. CASE StopClears
      BY <3>2, <1>1, Orders DEF StopClears, IsDown, layerVars
    <3> QED BY <1>10, <3>1, <3>2
  <2>2. ASSUME NEW k \in 1..Len(frames') PROVE DownTo(frames[k].at)'
    <3>1. k \in 1..Len(frames)
      BY <2>1, <1>1
    <3>2. frames[k].at \in 1..13 /\ DownTo(frames[k].at)
      BY <3>1, <1>1, FrameFacts DEF FrameSet, FramesDown
    <3>3. ASSUME NEW n \in 1..13, DownTo(n) PROVE DownTo(n)'
      BY <3>3, <2>1, DownStays
    <3>4. CASE k # Len(frames)
      <4>1. frames'[k] = frames[k]
        BY <3>1, <3>4, <2>1, <1>1
      <4> QED BY <4>1, <3>2, <2>1 DEF DownTo, StopOrder
    <3>5. CASE k = Len(frames)
      <4>1. frames'[k].at = Top.at + 1 /\ Top.at \in 1..13 /\ DownTo(Top.at)
        BY <3>1, <3>2, <3>5, <2>1, <1>1, FrameFacts DEF Top, FrameSet
      <4>2. ASSUME NEW i \in 1..11, i < Top.at + 1 PROVE IsDown(StopOrder[i])'
        <5>1. CASE i = Top.at
          BY <5>1, <4>2, <2>1
        <5>2. CASE i < Top.at
          BY <5>2, <4>1, <2>1 DEF DownTo, StopOrder
        <5> QED BY <4>1, <4>2, <5>1, <5>2
      <4> QED BY <4>1, <4>2 DEF DownTo
    <3> QED BY <3>4, <3>5
  <2> QED BY <2>2 DEF FramesDown
<1> QED BY <1>4, <1>5, <1>6, <1>7, <1>8, <1>9, <1>10 DEF AiosNext, AiosStep

LEMMA ClearedNext == ASSUME AiosInv, AiosNext PROVE ClearedLast' /\ Phases'
<1>1. frames \in Seq(FrameSet) /\ FramesDown /\ ClearedLast /\ Phases /\ running \in BOOLEAN
  BY Orders DEF FrameSet, AiosInv, AiosTypeOK
<1>2. CASE StartStep \/ StartWithoutRemote \/ StartDone \/ StartFails
  BY <1>2, <1>1 DEF StartStep, StartWithoutRemote, StartDone, StartFails, End, ClearedLast, Phases
<1>3. CASE StartRemote \/ Leave \/ \E c \in Part : StopPart(c)
  <2>1. running /\ running' /\ main' \in {"body", "finally"}
    BY <1>3, <1>1 DEF StartRemote, Leave, StopPart, InBody, ClearedLast
  <2> QED BY <2>1 DEF ClearedLast, Phases
<1>4. CASE Signal
  <2>1. running /\ running' /\ main' \in {"body", "finally"}
    BY <1>4 DEF Signal
  <2> QED BY <2>1 DEF ClearedLast, Phases
<1>5. CASE SignalWhenStopped \/ StopDone
  <2>1. Len(frames) \in 1..Len(frames) /\ Top.at = 13
    BY <1>5, <1>1, Orders DEF SignalWhenStopped, StopDone, ClearedLast
  <2>2. DownTo(13)
    BY <2>1, <1>1 DEF FramesDown, Top
  <2>3. DownTo(12)'
    BY <1>5, <2>2 DEF SignalWhenStopped, StopDone, DownTo, IsDown, StopOrder, layerVars
  <2>4. main' = "ended" /\ frames' = <<>>
    BY <1>5 DEF SignalWhenStopped, StopDone, End
  <2> QED BY <2>3, <2>4 DEF ClearedLast, Phases
<1>6. CASE StopStep \/ StopHangs \/ StopRaises
  <2>1. frames # <<>> /\ Top.at <= 11
    BY <1>6, Orders DEF StopStep, StopHangs, StopRaises, Stopping
  <2>2. main \in {"body", "finally"} /\ running /\ running' = running
    BY <1>6, <2>1, <1>1 DEF StopStep, StopHangs, StopRaises, ClearedLast, Phases, AiosInv, AiosTypeOK
  <2>3. main' = "ended" => outcome' = "raised" /\ frames' = <<>>
    BY <1>6, <2>2 DEF StopStep, StopHangs, StopRaises, End
  <2>4. main' \in {"body", "finally", "ended"}
    BY <1>6, <2>2 DEF StopStep, StopHangs, StopRaises, End
  <2> QED BY <2>2, <2>3, <2>4 DEF ClearedLast, Phases
<1>7. CASE StopClears
  <2>1. Len(frames) \in 1..Len(frames) /\ Top.at = 12
    BY <1>7, <1>1, Orders DEF StopClears
  <2>2. main \in {"body", "finally"} /\ main' = main
    BY <1>7, <2>1, <1>1 DEF StopClears, Phases, AiosInv, AiosTypeOK
  <2>3. frames' # <<>> /\ Top'.at = 13
    BY <1>7, <2>1, <1>1, FrameFacts DEF StopClears, Top, FrameSet
  <2> QED BY <2>2, <2>3 DEF ClearedLast, Phases
<1> QED BY <1>2, <1>3, <1>4, <1>5, <1>6, <1>7 DEF AiosNext, AiosStep

LEMMA RootNext == ASSUME AiosInv, AiosNext PROVE StartedUnderRoot' /\ UnderRoot'
<1>1. /\ frames \in Seq(FrameSet) /\ FramesDown /\ Phases /\ StartedUnderRoot /\ UnderRoot
      /\ begun \in 0..10 /\ LayersTypeOK
  BY Orders DEF FrameSet, AiosInv, AiosTypeOK
<1>2. CASE StartStep
  <2>1. Bring(StartOrder[begun + 1]) /\ begun' = begun + 1 /\ main = "starting" /\ main' = main
    BY <1>2 DEF StartStep
  <2>2. CASE begun < 2
    <3>1. StartOrder[begun + 1] \in {"persistence", "cron"}
      BY <2>2, <1>1, Orders
    <3> QED BY <3>1, <2>1, <2>2, <1>1, Parts DEF Bring, StartedUnderRoot, UnderRoot, layerVars
  <2>3. CASE begun = 2
    <3>1. StartOrder[begun + 1] = "root"
      BY <2>3, Orders
    <3> QED BY <3>1, <2>1, <2>3, Parts DEF Bring, RootStart, StartedUnderRoot, UnderRoot
  <2>4. CASE begun >= 3
    <3>1. root'
      BY <2>1, <2>4, <1>1 DEF Bring, RootStart, HomeStart, MountHome, StartedUnderRoot, layerVars
    <3> QED BY <3>1, <2>1, <2>4, <1>1 DEF StartedUnderRoot, UnderRoot
  <2> QED BY <2>2, <2>3, <2>4, <1>1
<1>3. CASE StartWithoutRemote
  BY <1>3, <1>1, Orders DEF StartWithoutRemote, StartedUnderRoot, UnderRoot, layerVars
<1>4. CASE StartDone
  BY <1>4, <1>1, Orders DEF StartDone, StartedUnderRoot, UnderRoot, layerVars
<1>5. CASE StartFails
  BY <1>5, <1>1 DEF StartFails, End, StartedUnderRoot, UnderRoot, layerVars
<1>6. CASE StartRemote \/ Leave \/ \E c \in Part : StopPart(c)
  BY <1>6, <1>1 DEF StartRemote, Leave, StopPart, InBody, StartedUnderRoot, UnderRoot, layerVars
<1>7. CASE Signal
  <2>1. frames' # <<>>
    BY <1>7, <1>1 DEF Signal
  <2> QED BY <1>7, <2>1, <1>1 DEF Signal, StartedUnderRoot, UnderRoot, layerVars
<1>8. CASE SignalWhenStopped \/ StopDone
  <2>1. main' = "ended" /\ frames' = <<>> /\ outcome' = "clean"
    BY <1>8 DEF SignalWhenStopped, StopDone, End
  <2>2. DownTo(12)'
    BY <2>1, ClearedNext DEF Phases
  <2>3. IsDown(StopOrder[3])' /\ IsDown(StopOrder[6])' /\ IsDown(StopOrder[7])'
        /\ IsDown(StopOrder[8])' /\ IsDown(StopOrder[9])'
    BY <2>2 DEF DownTo, StopOrder
  <2> QED BY <2>1, <2>3 DEF IsDown, StopOrder, StartedUnderRoot, UnderRoot
<1>9. CASE StopStep
  <2>1. Len(frames) \in 1..Len(frames) /\ Top.at \in 1..11 /\ DownTo(Top.at)
    BY <1>9, <1>1, FrameFacts, Orders DEF StopStep, Stopping, Top, FrameSet, FramesDown
  <2>2. /\ mounted' => mounted
        /\ root' => root
        /\ online' \subseteq online
        /\ root /\ ~root' => Top.at = 10
    <3>1. Take(StopOrder[Top.at])
      BY <1>9 DEF StopStep
    <3>2. root /\ ~root' => StopOrder[Top.at] = "root"
      BY <3>1 DEF Take, UnmountHome, layerVars
    <3>3. StopOrder[Top.at] = "root" => Top.at = 10
      BY <2>1, Orders
    <3> QED BY <1>9, <3>2, <3>3, TakesDown
  <2>3. Top.at = 10 => online \cap {"cpu", "server", "router", "remote"} = {} /\ ~mounted
    <3> SUFFICES ASSUME Top.at = 10
                 PROVE  online \cap {"cpu", "server", "router", "remote"} = {} /\ ~mounted
      OBVIOUS
    <3>1. IsDown(StopOrder[3]) /\ IsDown(StopOrder[6]) /\ IsDown(StopOrder[7])
          /\ IsDown(StopOrder[8]) /\ IsDown(StopOrder[9])
      BY <2>1 DEF DownTo
    <3> QED BY <3>1, Orders DEF IsDown
  <2>4. main' = main /\ outcome' = outcome /\ main # "starting" /\ frames' # <<>>
    BY <1>9, <2>1, <1>1 DEF StopStep, Phases
  <2> QED BY <2>2, <2>3, <2>4, <1>1 DEF StartedUnderRoot, UnderRoot, LayersTypeOK
<1>10. CASE StopHangs \/ StopClears
  <2>1. main # "starting" /\ frames # <<>> /\ frames' # <<>>
    BY <1>10, <1>1 DEF StopHangs, StopClears, Stopping, Phases
  <2> QED BY <1>10, <2>1, <1>1 DEF StopHangs, StopClears, StartedUnderRoot, UnderRoot, layerVars
<1>11. CASE StopRaises
  <2>1. Len(frames) \in 1..Len(frames) /\ Top.at \in {5, 8} /\ DownTo(Top.at)
    <3>1. Len(frames) \in 1..Len(frames) /\ Top.at \in 1..11 /\ DownTo(Top.at)
      BY <1>11, <1>1, FrameFacts, Orders DEF StopRaises, Stopping, Top, FrameSet, FramesDown
    <3>2. StopOrder[Top.at] \in {"audit", "cpu"}
      BY <1>11 DEF StopRaises, StopMayRaise
    <3> QED BY <3>1, <3>2, Orders
  <2>2. "remote" \notin online
    <3>1. IsDown(StopOrder[3])
      BY <2>1 DEF DownTo
    <3> QED BY <3>1, Orders DEF IsDown
  <2>3. main # "starting" /\ main' # "starting"
    BY <1>11, <2>1, <1>1 DEF StopRaises, End, Phases
  <2>4. root' = root /\ mounted' = mounted /\ online' = online
        /\ (main' = "body" => outcome' = "caught")
    BY <1>11 DEF StopRaises, End, layerVars
  <2> QED BY <2>2, <2>3, <2>4, <1>1 DEF StartedUnderRoot, UnderRoot
<1> QED BY <1>2, <1>3, <1>4, <1>5, <1>6, <1>7, <1>8, <1>9, <1>10, <1>11 DEF AiosNext, AiosStep

LEMMA AiosKeeps == ASSUME AiosInv, AiosNext PROVE AiosInv'
BY TypeNext, FramesDownNext, ClearedNext, RootNext DEF AiosInv

-----------------------------------------------------------------------------
(* The supervisor under boot() and halt().  The invariant follows, for each *)
(* service, the calls that are in progress on it; those that have read its *)
(* budget are counted.                                                     *)

Starting == {"startMark", "startFn", "started", "startFailed", "check", "count", "resume"}
Ending   == {"look", "stopFn", "stopMark"}

\* boot() starts services, halt() stops them, and restart_service does both.
SequenceInv ==
  /\ boot \in {"cold", "ready", "panic", "halted"} => stage = "none"
  /\ boot = "booting" => stage \in {"root", "devices", "home", "mount", "init", "report", "shell"}
  /\ boot = "halting" => stage \in {"stop", "unmount", "down", "halted"}
  /\ call[Boot] # NoCall => /\ ~call[Boot].restart
                            /\ \/ stage = "init" /\ call[Boot].at \in Starting
                               \/ stage = "stop" /\ call[Boot].at \in Ending
  /\ \A t \in Thread : call[t] # NoCall => call[t].restart

\* What halt() has taken down when it comes to a stage.
DownInv ==
  /\ mounted => root
  /\ stage \in {"home", "mount"} => root
  /\ stage \in {"unmount", "down", "halted"} => ~allUp
  /\ stage \in {"down", "halted"} => ~mounted
  /\ stage = "halted" => ~root
  /\ boot = "halted" => ~root /\ ~mounted /\ ~allUp

\* Only a registered service has a state, is up or is called.
OrderInv ==
  \A s \in Svc : \/ svc[s] # "absent" /\ \E i \in 1..Len(order) : order[i] = s
                 \/ /\ svc[s] = "absent" /\ s \notin up /\ \A i \in 1..Len(order) : order[i] # s
                    /\ \A t \in Proc : call[t].on # s

Down(s) == s \in up \cap HasStop => s \in forced

\* Unless halt() has begun, a service that is shown as stopped is about to be
\* started or was not up when it was last looked at.
IdleInv(s) ==
  boot \notin {"halting", "halted"} /\ svc[s] = "stopped" =>
    \/ \E t \in Proc : call[t].on = s /\ call[t].at = "startMark"
    \/ s \notin up /\ \A t \in Proc : call[t].on = s => call[t].at = "look"

\* A service that nobody restarts while halt() runs is stopped by halt(), or
\* its turn is still to come.
HaltInv(s) ==
  boot \in {"halting", "halted"} /\ s \notin late =>
    /\ \A t \in Thread : call[t].on # s
    /\ svc[s] = "stopped" => Down(s)
    /\ call[Boot].on = s /\ call[Boot].at = "stopMark" => Down(s)
    /\ svc[s] \notin {"absent", "stopped"} =>
         stage = "stop" /\ (call[Boot].on = s \/ \E i \in 1..pos : order[i] = s)

AtCount(s) == {t \in Proc : call[t].on = s /\ call[t].at = "count"}

\* Each call that has read the budget may exceed it by one.
BudgetInv(s) == restarts[s] + Cardinality(AtCount(s)) <= MaxRestarts + Cardinality(Thread)

Settled(s) ==
  /\ svc[s] \in {"stopped", "running", "failed"}
  /\ svc[s] = "running" => s \in up
  /\ svc[s] = "failed" /\ s \in OnFailure => restarts[s] = MaxRestarts

\* A service on which calls never overlapped.
AloneInv(s) ==
  s \notin overlapped =>
    /\ restarts[s] <= MaxRestarts
    /\ \A t, u \in Proc : t # u /\ call[t].on = s => call[u].on # s
    /\ (\A t \in Proc : call[t].on # s) /\ svc[s] # "absent" => Settled(s)
    /\ \A t \in Proc : call[t].on = s =>
         /\ call[t].at = "look" => Settled(s)
         /\ call[t].at = "started" => s \in up
         /\ call[t].at = "check" => svc[s] = "failed"
         /\ call[t].at = "count" => restarts[s] < MaxRestarts

ServiceInv == \A s \in Svc : IdleInv(s) /\ HaltInv(s) /\ BudgetInv(s) /\ AloneInv(s)

BootInv == BootTypeOK /\ SequenceInv /\ DownInv /\ OrderInv /\ ServiceInv

-----------------------------------------------------------------------------
(* One step of a call, as a row of a table. *)

\* The call t on s goes from one place to another, or returns.
Move(t, from, to) == call[t].at = from /\ call'[t].at = to
Returns(t, from)   == call[t].at = from /\ call'[t] = NoCall

SameSvc(s) == svc'[s] = svc[s] 
SameUp(s)  == (s \in up' <=> s \in up) /\ (s \in forced' <=> s \in forced)
SameCount(s) == restarts'[s] = restarts[s]

Row(t, s) ==
  \/ /\ SameSvc(s) /\ SameUp(s) /\ SameCount(s)
     /\ \/ svc[s] = "stopped" /\ call[t].restart /\ Move(t, "look", "startMark")
        \/ svc[s] = "stopped" /\ ~call[t].restart /\ Returns(t, "look")
        \/ svc[s] # "stopped" /\ s \in HasStop /\ Move(t, "look", "stopFn")
        \/ svc[s] # "stopped" /\ s \notin HasStop /\ Move(t, "look", "stopMark")
        \/ Move(t, "startFn", "startFailed")
        \/ restarts[s] < MaxRestarts /\ Move(t, "check", "count")
        \/ ~(s \in OnFailure /\ restarts[s] < MaxRestarts) /\ Returns(t, "check")
  \/ /\ SameSvc(s) /\ SameCount(s) /\ Move(t, "stopFn", "stopMark")
     /\ \/ s \notin up' /\ (s \in forced' <=> s \in forced)
        \/ s \in forced' /\ (s \in up' <=> s \in up)
  \/ /\ SameSvc(s) /\ SameCount(s) /\ s \in up' /\ (s \in forced' <=> s \in forced)
     /\ Move(t, "startFn", "started")
  \/ /\ SameUp(s) /\ SameCount(s)
     /\ \/ svc'[s] = "stopped" /\ call[t].restart /\ Move(t, "stopMark", "startMark")
        \/ svc'[s] = "stopped" /\ ~call[t].restart /\ Returns(t, "stopMark")
        \/ svc'[s] = "starting" /\ Move(t, "startMark", "startFn")
        \/ svc'[s] = "running" /\ Returns(t, "started")
        \/ svc'[s] = "failed" /\ Move(t, "startFailed", "check")
        \/ svc'[s] = "restarting" /\ Move(t, "resume", "startMark")
  \/ /\ SameUp(s) /\ SameSvc(s) /\ restarts'[s] = restarts[s] + 1 /\ Move(t, "count", "resume")

\* The step leaves everything else alone.
Apart(t, s) ==
  /\ UNCHANGED <<order, pos, allUp, overlapped>>
  /\ \A u \in Proc \ {t} : call'[u] = call[u]
  /\ \A r \in Svc \ {s} : SameSvc(r) /\ SameUp(r) /\ SameCount(r)

\* A thread is idle, or at a place of a call on some service.
LEMMA Places ==
  ASSUME SupervisorTypeOK, NEW t \in Proc
  PROVE  \/ call[t] = NoCall
         \/ /\ call[t].at \in Starting \cup Ending /\ call[t].on \in Svc
            /\ call[t].restart \in BOOLEAN /\ call[t] # NoCall
BY SupervisorAssumption DEF SupervisorTypeOK, Call, NoCall, Starting, Ending

\* Every step of a call is a row of the table, and keeps the types.
LEMMA Table ==
  ASSUME SupervisorTypeOK, NEW t \in Proc, ServiceStep(t)
  PROVE  /\ call[t].on \in Svc /\ call[t] # NoCall /\ SupervisorTypeOK'
         /\ call'[t] = NoCall \/ (call'[t].on = call[t].on /\ call'[t].restart = call[t].restart)
         /\ Row(t, call[t].on) /\ Apart(t, call[t].on)
<1> DEFINE s == call[t].on
<1>1. call[t].at # "idle"
  BY DEF ServiceStep, At, Look, StopFnReturns, StopFnRaises, StopMark, StartMark, StartFnReturns,
         StartFnRaises, Started, StartFailed, CheckBudget, CountRestart, Resume
<1>2. call[t] # NoCall /\ s \in Svc /\ call[t].restart \in BOOLEAN /\ call[t] \in Call
  BY <1>1, Places DEF NoCall, SupervisorTypeOK
<1>3. ASSUME NEW to \in Starting \cup Ending, Go(t, to)
      PROVE  /\ call'[t].at = to /\ call'[t].on = s /\ call'[t].restart = call[t].restart
             /\ \A u \in Proc \ {t} : call'[u] = call[u]
             /\ call' \in [Proc -> Call \cup {NoCall}]
  BY <1>2, <1>3 DEF Go, SupervisorTypeOK, Call, Starting, Ending
<1>4. ASSUME Return(t)
      PROVE  /\ call'[t] = NoCall /\ \A u \in Proc \ {t} : call'[u] = call[u]
             /\ call' \in [Proc -> Call \cup {NoCall}]
  BY <1>4 DEF Return, SupervisorTypeOK
<1>5. ASSUME NEW st \in {"stopped", "starting", "running", "failed", "restarting"}, Mark(t, st)
      PROVE  /\ svc'[s] = st /\ \A r \in Svc \ {s} : svc'[r] = svc[r]
             /\ svc' \in [Svc -> {"absent", "stopped", "starting", "running", "failed", "restarting"}]
  BY <1>2, <1>5 DEF Mark, SupervisorTypeOK
<1>6. /\ UNCHANGED <<order, pos, allUp, overlapped>>
      /\ order \in Seq(Svc) /\ pos \in 0..Len(order) /\ allUp \in BOOLEAN /\ overlapped \subseteq Svc
      /\ restarts \in [Svc -> Nat] /\ up \subseteq Svc /\ forced \subseteq Svc
      /\ svc \in [Svc -> {"absent", "stopped", "starting", "running", "failed", "restarting"}]
  BY DEF ServiceStep, SupervisorTypeOK
<1> USE DEF SupervisorTypeOK, SameSvc, SameUp, SameCount, At, Starting, Ending, Apart, Move, Returns
<1>7. CASE Look(t)
  BY <1>2, <1>3, <1>4, <1>6, <1>7 DEF Look, Stopped, Row
<1>8. CASE StopFnReturns(t)
  BY <1>2, <1>3, <1>6, <1>8 DEF StopFnReturns, Row
<1>9. CASE StopFnRaises(t)
  BY <1>2, <1>3, <1>6, <1>9 DEF StopFnRaises, Row
<1>10. CASE StopMark(t)
  BY <1>2, <1>3, <1>4, <1>5, <1>6, <1>10 DEF StopMark, Stopped, Row
<1>11. CASE StartMark(t)
  BY <1>2, <1>3, <1>5, <1>6, <1>11 DEF StartMark, Row
<1>12. CASE StartFnReturns(t)
  BY <1>2, <1>3, <1>6, <1>12 DEF StartFnReturns, Row
<1>13. CASE StartFnRaises(t)
  BY <1>2, <1>3, <1>6, <1>13 DEF StartFnRaises, Row
<1>14. CASE Started(t)
  BY <1>2, <1>4, <1>5, <1>6, <1>14 DEF Started, Row
<1>15. CASE StartFailed(t)
  BY <1>2, <1>3, <1>5, <1>6, <1>15 DEF StartFailed, Row
<1>16. CASE CheckBudget(t)
  BY <1>2, <1>3, <1>4, <1>6, <1>16 DEF CheckBudget, Row
<1>17. CASE CountRestart(t)
  BY <1>2, <1>3, <1>6, <1>17 DEF CountRestart, Row
<1>18. CASE Resume(t)
  BY <1>2, <1>3, <1>5, <1>6, <1>18 DEF Resume, Row
<1> QED BY <1>2, <1>7, <1>8, <1>9, <1>10, <1>11, <1>12, <1>13, <1>14, <1>15, <1>16, <1>17, <1>18 DEF ServiceStep

-----------------------------------------------------------------------------
(* Each part of the invariant under a step of a call. *)

LEMMA StepIdle ==
  ASSUME BootInv, NEW t \in Proc, ServiceStep(t), UNCHANGED <<layerVars, bootVars>>, NEW r \in Svc
  PROVE  IdleInv(r)'
<1> DEFINE s == call[t].on
<1>1. s \in Svc /\ Row(t, s) /\ Apart(t, s) /\ (call'[t] = NoCall \/ call'[t].on = s)
  BY Table DEF BootInv, BootTypeOK
<1>2. IdleInv(r) /\ boot' = boot
  BY DEF BootInv, ServiceInv, bootVars
<1>3. NoCall.on # r /\ NoCall.at = "idle" /\ call[t] # NoCall
  BY SupervisorAssumption, Table DEF NoCall, BootInv, BootTypeOK
<1>4. call[t].at = "look" \/ call[t].at = "stopMark" => call[t].restart \/ boot = "halting"
  BY <1>3 DEF BootInv, BootTypeOK, SequenceInv, Proc, Starting
<1>5. CASE r # s
  BY <1>1, <1>2, <1>3, <1>5 DEF IdleInv, Apart, SameSvc, SameUp
<1>6. CASE r = s
  BY <1>1, <1>2, <1>3, <1>4, <1>6 DEF IdleInv, Apart, SameSvc, SameUp, Row, Move, Returns
<1> QED BY <1>5, <1>6

LEMMA StepHalt ==
  ASSUME BootInv, NEW t \in Proc, ServiceStep(t), UNCHANGED <<layerVars, bootVars>>, NEW r \in Svc
  PROVE  HaltInv(r)'
<1> DEFINE s == call[t].on
<1>1. s \in Svc /\ Row(t, s) /\ Apart(t, s) /\ (call'[t] = NoCall \/ call'[t].on = s)
  BY Table DEF BootInv, BootTypeOK
<1>2. HaltInv(r) /\ boot' = boot /\ late' = late /\ stage' = stage
  BY DEF BootInv, ServiceInv, bootVars
<1>3. NoCall.on # r /\ NoCall.at = "idle" /\ Boot \in Proc /\ Boot \notin Thread
  BY SupervisorAssumption DEF NoCall, Proc
<1> SUFFICES ASSUME boot \in {"halting", "halted"}, r \notin late
             PROVE  HaltInv(r)'
  BY <1>2 DEF HaltInv
<1>4. CASE r # s
  BY <1>1, <1>2, <1>3, <1>4 DEF HaltInv, Apart, SameSvc, SameUp, Down, Proc
<1>5. CASE r = s
  <2>1. t = Boot
    BY <1>2, <1>5 DEF HaltInv, Proc
  <2>2. ~call[t].restart /\ call[t].at \in Ending
    BY <2>1, Table DEF BootInv, BootTypeOK, SequenceInv
  <2>3. \A u \in Thread : call'[u] = call[u]
    BY <1>1, <1>3, <2>1 DEF Apart, Proc
  <2> QED BY <1>1, <1>2, <1>3, <1>5, <2>1, <2>2, <2>3
          DEF HaltInv, Apart, SameSvc, SameUp, Row, Move, Returns, Down, Ending, SequenceInv, BootInv
<1> QED BY <1>4, <1>5

\* There are finitely many threads, so the calls at a place can be counted.
LEMMA CountFinite ==
  /\ IsFiniteSet(Proc) /\ Cardinality(Proc) = Cardinality(Thread) + 1 /\ Cardinality(Thread) \in Nat
  /\ \A S \in SUBSET Proc : IsFiniteSet(S) /\ Cardinality(S) \in Nat /\ Cardinality(S) <= Cardinality(Proc)
<1>1. IsFiniteSet(Thread) /\ Cardinality(Thread) \in Nat
  BY SupervisorAssumption, FS_CardinalityType
<1>2. IsFiniteSet(Proc) /\ Cardinality(Proc) = Cardinality(Thread) + 1
  BY <1>1, SupervisorAssumption, FS_AddElement DEF Proc
<1> QED BY <1>1, <1>2, FS_Subset, FS_CardinalityType

LEMMA StepBudget ==
  ASSUME BootInv, NEW t \in Proc, ServiceStep(t), UNCHANGED <<layerVars, bootVars>>, NEW r \in Svc
  PROVE  BudgetInv(r)'
<1> DEFINE s == call[t].on
<1>1. s \in Svc /\ Row(t, s) /\ Apart(t, s) /\ (call'[t] = NoCall \/ call'[t].on = s)
  BY Table DEF BootInv, BootTypeOK
<1>2. BudgetInv(r)
  BY DEF BootInv, ServiceInv
<1>3. NoCall.on # r /\ NoCall.at = "idle"
  BY SupervisorAssumption DEF NoCall
<1>4. restarts[r] \in Nat /\ restarts'[r] \in Nat /\ MaxRestarts \in Nat
  BY Table, SupervisorAssumption DEF BootInv, BootTypeOK, SupervisorTypeOK
<1>5. PICK C, D : C = AtCount(r) /\ D = AtCount(r)'
  OBVIOUS
<1>6. C \subseteq Proc /\ D \subseteq Proc
  BY <1>5 DEF AtCount
<1>7. CASE r = s /\ call[t].at = "count"
  <2>1. restarts'[r] = restarts[r] + 1 /\ D = C \ {t} /\ t \in C
    BY <1>1, <1>3, <1>5, <1>7 DEF Row, Move, Returns, AtCount, Apart
  <2>2. Cardinality(D) = Cardinality(C) - 1
    BY <2>1, <1>6, CountFinite, FS_RemoveElement
  <2> QED BY <1>2, <1>4, <1>5, <1>6, <2>1, <2>2, CountFinite DEF BudgetInv
<1>8. CASE r = s /\ call[t].at = "check"
  <2>1. restarts'[r] = restarts[r]
    BY <1>1, <1>8 DEF Row, Move, Returns, SameCount
  <2>2. CASE call'[t].at = "count"
    <3>1. restarts[r] < MaxRestarts
      BY <1>1, <1>3, <1>8, <2>2 DEF Row, Move, Returns
    <3> QED BY <2>1, <3>1, <1>4, <1>5, <1>6, CountFinite DEF BudgetInv
  <2>3. CASE call'[t].at # "count"
    <3>1. D = C
      BY <1>1, <1>3, <1>5, <1>8, <2>3 DEF AtCount, Apart
    <3> QED BY <1>2, <1>5, <2>1, <3>1 DEF BudgetInv
  <2> QED BY <2>2, <2>3
<1>9. CASE ~(r = s /\ call[t].at \in {"check", "count"})
  <2>1. restarts'[r] = restarts[r]
    BY <1>1, <1>9 DEF Row, Move, Returns, SameCount, Apart
  <2>2. t \notin C /\ t \notin D
    BY <1>1, <1>3, <1>5, <1>9 DEF Row, Move, Returns, AtCount
  <2>3. D = C
    BY <1>1, <1>5, <2>2 DEF AtCount, Apart
  <2> QED BY <1>2, <1>5, <2>1, <2>3 DEF BudgetInv
<1> QED BY <1>7, <1>8, <1>9

LEMMA StepAlone ==
  ASSUME BootInv, NEW t \in Proc, ServiceStep(t), UNCHANGED <<layerVars, bootVars>>, NEW r \in Svc
  PROVE  AloneInv(r)'
<1> DEFINE s == call[t].on
<1>1. s \in Svc /\ Row(t, s) /\ Apart(t, s) /\ (call'[t] = NoCall \/ call'[t].on = s)
  BY Table DEF BootInv, BootTypeOK
<1>2. AloneInv(r)
  BY DEF BootInv, ServiceInv
<1>3. NoCall.on # r /\ NoCall.at = "idle" /\ call[t] # NoCall
  BY SupervisorAssumption, Table DEF NoCall, BootInv, BootTypeOK
<1>4. restarts[r] \in Nat /\ restarts'[r] \in Nat /\ MaxRestarts \in Nat
  BY Table, SupervisorAssumption DEF BootInv, BootTypeOK, SupervisorTypeOK
<1>5. CASE r # s
  BY <1>1, <1>2, <1>3, <1>5 DEF AloneInv, Settled, Apart, SameSvc, SameUp, SameCount
<1>6. CASE r = s
  <2> SUFFICES ASSUME r \notin overlapped PROVE AloneInv(r)'
    BY <1>1 DEF AloneInv, Apart
  <2>1. \A u \in Proc \ {t} : call'[u] = call[u] /\ call[u].on # r
    BY <1>1, <1>2, <1>6 DEF AloneInv, Apart
  <2>2. \A u, v \in Proc : u # v /\ call'[u].on = r => call'[v].on # r
    BY <2>1
  <2>3. svc[r] # "absent"
    BY <1>6, <1>1 DEF BootInv, OrderInv
  <2>4. restarts'[r] <= MaxRestarts
    BY <1>1, <1>2, <1>4, <1>6 DEF AloneInv, Row, Move, Returns, SameCount
  <2>5. call'[t] = NoCall => Settled(r)'
    BY <1>1, <1>2, <1>3, <1>4, <1>6
       DEF AloneInv, Row, Move, Returns, SameCount, SameSvc, SameUp, Settled
  <2>6. call'[t] # NoCall =>
          /\ call'[t].at = "look" => FALSE
          /\ call'[t].at = "started" => r \in up'
          /\ call'[t].at = "check" => svc'[r] = "failed"
          /\ call'[t].at = "count" => restarts'[r] < MaxRestarts
    BY <1>1, <1>2, <1>3, <1>4, <1>6 DEF Row, Move, Returns, SameCount
  <2> QED BY <1>1, <1>3, <1>6, <2>1, <2>2, <2>4, <2>5, <2>6 DEF AloneInv
<1> QED BY <1>5, <1>6

\* No step of start_fn, stop_fn or the marks around them breaks the invariant.
LEMMA StepCall ==
  ASSUME BootInv, NEW t \in Proc, ServiceStep(t), UNCHANGED <<layerVars, bootVars>>
  PROVE  BootInv'
<1> DEFINE s == call[t].on
<1>1. /\ s \in Svc /\ Row(t, s) /\ Apart(t, s) /\ call[t] # NoCall /\ SupervisorTypeOK'
      /\ call'[t] = NoCall \/ (call'[t].on = s /\ call'[t].restart = call[t].restart)
  BY Table DEF BootInv, BootTypeOK
<1>2. UNCHANGED <<boot, stage, late, root, mounted, home>>
  BY DEF bootVars, layerVars
<1>3. NoCall.at = "idle" /\ NoCall.on \notin Svc
  BY SupervisorAssumption DEF NoCall
<1>4. BootTypeOK' /\ DownInv'
  BY <1>1, <1>2 DEF BootInv, BootTypeOK, DownInv, LayersTypeOK, Apart
<1>5. SequenceInv'
  <2>1. \A u \in Proc \ {t} : call'[u] = call[u]
    BY <1>1 DEF Apart
  <2>2. CASE t = Boot
    <3>1. call[t].at \in Starting /\ call'[t] # NoCall => call'[t].at \in Starting
      BY <1>1, <1>3 DEF Row, Move, Returns, Starting
    <3>2. call[t].at \in Ending /\ ~call[t].restart /\ call'[t] # NoCall => call'[t].at \in Ending
      BY <1>1, <1>3 DEF Row, Move, Returns, Ending
    <3>3. \A u \in Thread : call'[u] = call[u]
      BY <2>1, <2>2, SupervisorAssumption DEF Proc
    <3> QED BY <1>1, <1>2, <2>2, <3>1, <3>2, <3>3 DEF BootInv, SequenceInv
  <2>3. CASE t # Boot
    <3>1. call'[Boot] = call[Boot]
      BY <2>1, <2>3 DEF Proc
    <3> QED BY <1>1, <1>2, <2>1, <2>3, <3>1 DEF BootInv, SequenceInv, Proc
  <2> QED BY <2>2, <2>3
<1>6. OrderInv'
  <2> SUFFICES ASSUME NEW r \in Svc
               PROVE  \/ svc'[r] # "absent" /\ \E i \in 1..Len(order) : order[i] = r
                      \/ /\ svc'[r] = "absent" /\ r \notin up' /\ \A i \in 1..Len(order) : order[i] # r
                         /\ \A u \in Proc : call'[u].on # r
    BY <1>1 DEF OrderInv, Apart
  <2>1. CASE r = s
    <3>1. svc[r] # "absent" /\ \E i \in 1..Len(order) : order[i] = r
      BY <2>1 DEF BootInv, OrderInv
    <3>2. svc'[r] # "absent"
      BY <1>1, <2>1, <3>1 DEF Row, SameSvc
    <3> QED BY <3>1, <3>2
  <2>2. CASE r # s
    BY <1>1, <1>3, <2>2 DEF BootInv, OrderInv, Apart, SameSvc, SameUp
  <2> QED BY <2>1, <2>2
<1>7. ServiceInv'
  BY StepIdle, StepHalt, StepBudget, StepAlone DEF ServiceInv
<1> QED BY <1>4, <1>5, <1>6, <1>7 DEF BootInv

-----------------------------------------------------------------------------
(* A call begins. *)

\* What the first step of a call changes.
LEMMA Entered ==
  ASSUME BootInv, NEW t \in Proc, NEW s \in Svc, NEW where \in {"look", "startMark"}, NEW again \in BOOLEAN,
         Enter(t, s, where, again)
  PROVE  /\ call[t] = NoCall /\ call' \in [Proc -> Call \cup {NoCall}]
         /\ call'[t].at = where /\ call'[t].on = s /\ call'[t].restart = again
         /\ \A u \in Proc \ {t} : call'[u] = call[u]
         /\ overlapped' \subseteq Svc /\ overlapped \subseteq overlapped'
         /\ \A r \in Svc \ {s} : r \in overlapped' => r \in overlapped
         /\ s \notin overlapped' => \A u \in Proc : call[u].on # s
<1>1. call \in [Proc -> Call \cup {NoCall}] /\ overlapped \subseteq Svc
  BY DEF BootInv, BootTypeOK, SupervisorTypeOK
<1>2. [at |-> where, on |-> s, restart |-> again] \in Call
  BY DEF Call
<1> QED BY <1>1, <1>2 DEF Enter

\* A call that begins on a registered service starts from one that is settled.
LEMMA EnterKeeps ==
  ASSUME BootInv, NEW t \in Proc, NEW s \in Svc, NEW where \in {"look", "startMark"}, NEW again \in BOOLEAN,
         Enter(t, s, where, again), svc[s] # "absent",
         UNCHANGED <<boot, order, svc, restarts, up, forced>>
  PROVE  OrderInv' /\ \A r \in Svc : IdleInv(r)' /\ BudgetInv(r)' /\ AloneInv(r)'
<1>1. NoCall.at = "idle" /\ NoCall.on \notin Svc
  BY SupervisorAssumption DEF NoCall
<1>2. OrderInv'
  BY Entered DEF BootInv, OrderInv
<1> SUFFICES ASSUME NEW r \in Svc PROVE IdleInv(r)' /\ BudgetInv(r)' /\ AloneInv(r)'
  BY <1>2
<1>3. IdleInv(r) /\ BudgetInv(r) /\ AloneInv(r)
  BY DEF BootInv, ServiceInv
<1>4. IdleInv(r)'
  BY Entered, <1>1, <1>3 DEF IdleInv
<1>5. BudgetInv(r)'
  <2>1. AtCount(r)' = AtCount(r)
    BY Entered, <1>1 DEF AtCount
  <2> QED BY <1>3, <2>1 DEF BudgetInv
<1>6. AloneInv(r)'
  <2> SUFFICES ASSUME r \notin overlapped' PROVE AloneInv(r)'
    BY DEF AloneInv
  <2>1. r \notin overlapped
    BY Entered
  <2>2. CASE r = s
    BY Entered, <1>3, <2>1, <2>2 DEF AloneInv, Settled
  <2>3. CASE r # s
    BY Entered, <1>1, <1>3, <2>1, <2>3 DEF AloneInv, Settled
  <2> QED BY <2>2, <2>3
<1> QED BY <1>4, <1>5, <1>6

\* restart_service, while halt() runs or not.
LEMMA RestartKeeps ==
  ASSUME BootInv, NEW t \in Thread, Restart(t)
  PROVE  BootInv'
<1>1. PICK s \in Svc :
        /\ RestartService(t, s)
        /\ late' = IF boot \in {"halting", "halted"} THEN late \cup {s} ELSE late
  BY DEF Restart
<1>2. /\ s \in Registered /\ Enter(t, s, "look", TRUE) /\ t \in Proc
      /\ UNCHANGED <<order, svc, restarts, up, pos, allUp, forced, boot, stage, root, mounted, home>>
  BY <1>1 DEF Restart, RestartService, Proc, layerVars
<1>3. svc[s] # "absent"
  BY <1>2 DEF BootInv, OrderInv, Registered
<1>4. OrderInv' /\ \A r \in Svc : IdleInv(r)' /\ BudgetInv(r)' /\ AloneInv(r)'
  BY <1>2, <1>3, EnterKeeps
<1>5. BootTypeOK' /\ DownInv'
  <2>1. call' \in [Proc -> Call \cup {NoCall}] /\ overlapped' \subseteq Svc
    BY <1>2, Entered
  <2>2. late' \subseteq Svc
    BY <1>1 DEF BootInv, BootTypeOK
  <2> QED BY <1>2, <2>1, <2>2 DEF BootInv, BootTypeOK, SupervisorTypeOK, LayersTypeOK, DownInv
<1>6. t # Boot /\ Boot \in Proc
  BY SupervisorAssumption DEF Proc
<1>7. SequenceInv'
  BY <1>2, <1>6, Entered DEF BootInv, SequenceInv, Proc
<1>8. ASSUME NEW r \in Svc PROVE HaltInv(r)'
  <2>1. HaltInv(r)
    BY <1>8 DEF BootInv, ServiceInv
  <2>2. call'[Boot] = call[Boot] /\ \A u \in Thread : call'[u] = call[u] \/ call'[u].on = s
    BY <1>2, <1>6, Entered DEF Proc
  <2>3. boot \in {"halting", "halted"} => late' = late \cup {s}
    BY <1>1
  <2>4. boot' = boot /\ svc' = svc /\ stage' = stage /\ pos' = pos /\ order' = order /\ up' = up /\ forced' = forced
    BY <1>2
  <2> QED BY <2>1, <2>2, <2>3, <2>4 DEF HaltInv, Down
<1> QED BY <1>4, <1>5, <1>7, <1>8 DEF BootInv, ServiceInv

\* A service that is registered is stopped, and is not up.
LEMMA RegisterKeeps ==
  ASSUME BootInv, NEW s \in Svc, Register(s), UNCHANGED <<layerVars, bootVars>>
  PROVE  BootInv'
<1>1. /\ svc[s] = "absent" /\ svc'[s] = "stopped" /\ \A r \in Svc \ {s} : svc'[r] = svc[r]
      /\ svc' \in [Svc -> {"absent", "stopped", "starting", "running", "failed", "restarting"}]
      /\ order' = Append(order, s) /\ order \in Seq(Svc)
      /\ UNCHANGED <<restarts, up, call, pos, allUp, overlapped, forced, boot, stage, late, root, mounted, home>>
  BY DEF Register, BootInv, BootTypeOK, SupervisorTypeOK, layerVars, bootVars
<1>2. /\ order' \in Seq(Svc) /\ Len(order') = Len(order) + 1 /\ Len(order) \in Nat
      /\ \A i \in 1..Len(order) : order'[i] = order[i]
      /\ order'[Len(order) + 1] = s
  BY <1>1
<1>3. s \notin up /\ \A t \in Proc : call[t].on # s
  BY <1>1 DEF BootInv, OrderInv
<1>4. pos \in 0..Len(order)
  BY DEF BootInv, BootTypeOK, SupervisorTypeOK
<1>5. BootTypeOK' /\ DownInv' /\ SequenceInv'
  BY <1>1, <1>2, <1>4 DEF BootInv, BootTypeOK, SupervisorTypeOK, LayersTypeOK, DownInv, SequenceInv
<1>6. OrderInv'
  <2> SUFFICES ASSUME NEW r \in Svc
               PROVE  \/ svc'[r] # "absent" /\ \E i \in 1..Len(order') : order'[i] = r
                      \/ /\ svc'[r] = "absent" /\ r \notin up /\ \A i \in 1..Len(order') : order'[i] # r
                         /\ \A t \in Proc : call[t].on # r
    BY <1>1 DEF OrderInv
  <2>1. CASE r = s
    BY <1>1, <1>2, <2>1
  <2>2. CASE r # s
    BY <1>1, <1>2, <2>2 DEF BootInv, OrderInv
  <2> QED BY <2>1, <2>2
<1>7. ASSUME NEW r \in Svc PROVE IdleInv(r)' /\ HaltInv(r)' /\ BudgetInv(r)' /\ AloneInv(r)'
  <2>1. IdleInv(r) /\ HaltInv(r) /\ BudgetInv(r) /\ AloneInv(r)
    BY DEF BootInv, ServiceInv
  <2>2. \A i \in 1..pos : order'[i] = order[i]
    BY <1>2, <1>4
  <2>3. BudgetInv(r)'
    BY <1>1, <2>1 DEF BudgetInv, AtCount
  <2>4. IdleInv(r)' /\ AloneInv(r)'
    BY <1>1, <1>3, <2>1 DEF IdleInv, AloneInv, Settled
  <2>5. Boot \in Proc
    BY DEF Proc
  <2>6. HaltInv(r)'
    BY <1>1, <1>3, <2>1, <2>2, <2>5 DEF HaltInv, Down, Proc
  <2> QED BY <2>3, <2>4, <2>6
<1> QED BY <1>5, <1>6, <1>7 DEF BootInv, ServiceInv
-----------------------------------------------------------------------------
(* The stages of boot() and halt(). *)

\* A step that moves the sequence on and leaves the services alone.
LEMMA StageKeeps ==
  ASSUME BootInv, UNCHANGED <<initVars, late>>, LayersTypeOK', DownInv', SequenceInv',
         boot' \in {"cold", "booting", "ready", "panic", "halting", "halted"},
         boot' \in {"halting", "halted"} <=> boot \in {"halting", "halted"},
         stage' \in {"none", "root", "devices", "home", "mount", "init", "report", "shell",
                    "stop", "unmount", "down", "halted"},
         stage = "stop" => stage' = "stop"
  PROVE  BootInv'
<1>1. UNCHANGED <<order, svc, restarts, up, call, pos, allUp, overlapped, forced>>
  BY DEF initVars
<1>2. BootTypeOK'
  BY <1>1 DEF BootInv, BootTypeOK, SupervisorTypeOK
<1>3. OrderInv'
  BY <1>1 DEF BootInv, OrderInv
<1>4. ASSUME NEW r \in Svc PROVE IdleInv(r)' /\ HaltInv(r)' /\ BudgetInv(r)' /\ AloneInv(r)'
  <2>1. IdleInv(r) /\ HaltInv(r) /\ BudgetInv(r) /\ AloneInv(r)
    BY DEF BootInv, ServiceInv
  <2>2. IdleInv(r)'
    BY <1>1, <2>1 DEF IdleInv
  <2>3. HaltInv(r)'
    BY <1>1, <2>1 DEF HaltInv, Down
  <2>4. BudgetInv(r)'
    BY <1>1, <2>1 DEF BudgetInv, AtCount
  <2>5. AloneInv(r)'
    BY <1>1, <2>1 DEF AloneInv, Settled
  <2> QED BY <2>2, <2>3, <2>4, <2>5
<1> QED BY <1>2, <1>3, <1>4 DEF BootInv, ServiceInv

\* halt() starts from what is registered, when no call of boot() is in progress.
LEMMA BeginHaltKeeps ==
  ASSUME BootInv, BeginHalt
  PROVE  BootInv'
<1>1. /\ boot \in {"ready", "panic"} /\ stage = "none" /\ boot' = "halting" /\ stage' = "stop"
      /\ pos' = Len(order) /\ late' = late \cup InProgress
      /\ UNCHANGED <<order, svc, restarts, up, call, allUp, overlapped, forced, root, mounted, home>>
  BY DEF BeginHalt, StopFrom, layerVars
<1>2. call[Boot] = NoCall /\ Boot \in Proc /\ NoCall.on \notin Svc
  BY <1>1, SupervisorAssumption DEF BootInv, SequenceInv, Proc, NoCall
<1>3. order \in Seq(Svc) /\ Len(order) \in 0..Len(order)
  BY DEF BootInv, BootTypeOK, SupervisorTypeOK
<1>4. BootTypeOK'
  BY <1>1, <1>3 DEF BootInv, BootTypeOK, SupervisorTypeOK, LayersTypeOK, InProgress
<1>5. SequenceInv' /\ DownInv' /\ OrderInv'
  <2>1. SequenceInv'
    BY <1>1, <1>2 DEF BootInv, SequenceInv
  <2>2. DownInv'
    BY <1>1 DEF BootInv, DownInv
  <2>3. OrderInv'
    BY <1>1 DEF BootInv, OrderInv
  <2> QED BY <2>1, <2>2, <2>3
<1>6. ASSUME NEW r \in Svc PROVE IdleInv(r)' /\ HaltInv(r)' /\ BudgetInv(r)' /\ AloneInv(r)'
  <2>1. IdleInv(r) /\ BudgetInv(r) /\ AloneInv(r)
    BY DEF BootInv, ServiceInv
  <2>2. IdleInv(r)'
    BY <1>1 DEF IdleInv
  <2>3. HaltInv(r)'
    <3> SUFFICES ASSUME r \notin late' PROVE HaltInv(r)'
      BY DEF HaltInv
    <3>1. \A t \in Thread : call[t].on # r
      BY <1>1 DEF InProgress
    <3>2. \A t \in Proc : call[t].on # r
      BY <3>1, <1>2 DEF Proc
    <3>3. svc[r] = "stopped" => Down(r)
      BY <1>1, <2>1, <3>2 DEF IdleInv, Down
    <3>4. svc[r] # "absent" => \E i \in 1..Len(order) : order[i] = r
      BY DEF BootInv, OrderInv
    <3> QED BY <1>1, <1>2, <3>1, <3>3, <3>4 DEF HaltInv, Down
  <2>4. BudgetInv(r)'
    BY <1>1, <2>1 DEF BudgetInv, AtCount
  <2>5. AloneInv(r)'
    BY <1>1, <2>1 DEF AloneInv, Settled
  <2> QED BY <2>2, <2>3, <2>4, <2>5
<1> QED BY <1>4, <1>5, <1>6 DEF BootInv, ServiceInv

\* start_all comes to the next service, stop_all to the one before.
LEMMA StartNextKeeps ==
  ASSUME BootInv, StageInit
  PROVE  BootInv'
<1>1. /\ stage = "init" /\ stage' = "init" /\ pos < Len(order) /\ pos' = pos + 1
      /\ Enter(Boot, order[pos + 1], "startMark", FALSE)
      /\ UNCHANGED <<order, svc, restarts, up, allUp, forced, boot, late, root, mounted, home>>
  BY DEF StageInit, Supervised, StartNext, layerVars
<1>2. order \in Seq(Svc) /\ pos \in 0..Len(order) /\ Len(order) \in Nat /\ Boot \in Proc /\ Boot \notin Thread
  BY SupervisorAssumption DEF BootInv, BootTypeOK, SupervisorTypeOK, Proc
<1>3. PICK s \in Svc : s = order[pos + 1]
  BY <1>1, <1>2
<1>4. svc[s] # "absent"
  BY <1>1, <1>2, <1>3 DEF BootInv, OrderInv
<1>5. OrderInv' /\ \A r \in Svc : IdleInv(r)' /\ BudgetInv(r)' /\ AloneInv(r)'
  BY <1>1, <1>2, <1>3, <1>4, EnterKeeps
<1>6. BootTypeOK'
  <2>1. call' \in [Proc -> Call \cup {NoCall}] /\ overlapped' \subseteq Svc
    BY <1>1, <1>2, <1>3, Entered
  <2> QED BY <1>1, <1>2, <2>1 DEF BootInv, BootTypeOK, SupervisorTypeOK, LayersTypeOK
<1>7. SequenceInv'
  <2>1. \A t \in Thread : call'[t] = call[t]
    BY <1>1, <1>2, <1>3, Entered DEF Proc
  <2>2. call'[Boot].at = "startMark" /\ call'[Boot].restart = FALSE
    BY <1>1, <1>2, <1>3, Entered
  <2> QED BY <1>1, <2>1, <2>2 DEF BootInv, SequenceInv, Starting
<1>8. DownInv'
  BY <1>1 DEF BootInv, DownInv
<1>9. \A r \in Svc : HaltInv(r)'
  BY <1>1 DEF BootInv, SequenceInv, HaltInv
<1> QED BY <1>5, <1>6, <1>7, <1>8, <1>9 DEF BootInv, ServiceInv

LEMMA StopNextKeeps ==
  ASSUME BootInv, HaltStop
  PROVE  BootInv'
<1>1. /\ stage = "stop" /\ stage' = "stop" /\ pos > 0 /\ pos' = pos - 1
      /\ Enter(Boot, order[pos], "look", FALSE)
      /\ UNCHANGED <<order, svc, restarts, up, allUp, forced, boot, late, root, mounted, home>>
  BY DEF HaltStop, Supervised, StopNext, layerVars
<1>2. order \in Seq(Svc) /\ pos \in 0..Len(order) /\ Len(order) \in Nat /\ Boot \in Proc /\ Boot \notin Thread
  BY SupervisorAssumption DEF BootInv, BootTypeOK, SupervisorTypeOK, Proc
<1>3. PICK s \in Svc : s = order[pos]
  BY <1>1, <1>2
<1>4. svc[s] # "absent"
  BY <1>1, <1>2, <1>3 DEF BootInv, OrderInv
<1>5. OrderInv' /\ \A r \in Svc : IdleInv(r)' /\ BudgetInv(r)' /\ AloneInv(r)'
  BY <1>1, <1>2, <1>3, <1>4, EnterKeeps
<1>6. BootTypeOK'
  <2>1. call' \in [Proc -> Call \cup {NoCall}] /\ overlapped' \subseteq Svc
    BY <1>1, <1>2, <1>3, Entered
  <2> QED BY <1>1, <1>2, <2>1 DEF BootInv, BootTypeOK, SupervisorTypeOK, LayersTypeOK
<1>7. /\ \A t \in Thread : call'[t] = call[t]
      /\ call[Boot] = NoCall /\ call'[Boot].at = "look" /\ call'[Boot].on = s /\ call'[Boot].restart = FALSE
  BY <1>1, <1>2, <1>3, Entered DEF Proc
<1>8. SequenceInv'
  BY <1>1, <1>7 DEF BootInv, SequenceInv, Ending
<1>9. DownInv'
  BY <1>1 DEF BootInv, DownInv
<1>10. ASSUME NEW r \in Svc PROVE HaltInv(r)'
  <2>1. HaltInv(r) /\ NoCall.on # r
    BY SupervisorAssumption DEF BootInv, ServiceInv, NoCall
  <2>2. (\E i \in 1..pos : order[i] = r) => r = s \/ \E i \in 1..(pos - 1) : order[i] = r
    BY <1>1, <1>2, <1>3
  <2> QED BY <1>1, <1>7, <2>1, <2>2 DEF HaltInv, Down
<1> QED BY <1>5, <1>6, <1>8, <1>9, <1>10 DEF BootInv, ServiceInv

\* start_all and stop_all record that they are done.
LEMMA StopDoneKeeps ==
  ASSUME BootInv, HaltStopDone
  PROVE  BootInv'
<1>1. /\ stage = "stop" /\ stage' = "unmount" /\ call[Boot] = NoCall /\ pos = 0 /\ allUp' = FALSE
      /\ UNCHANGED <<order, svc, restarts, up, call, pos, overlapped, forced, boot, late, root, mounted, home>>
  BY DEF HaltStopDone, Supervised, AllStopped, layerVars
<1>2. BootTypeOK'
  BY <1>1 DEF BootInv, BootTypeOK, SupervisorTypeOK, LayersTypeOK
<1>3. SequenceInv' /\ DownInv'
  BY <1>1 DEF BootInv, SequenceInv, DownInv
<1>4. OrderInv'
  BY <1>1 DEF BootInv, OrderInv
<1>5. ASSUME NEW r \in Svc PROVE IdleInv(r)' /\ HaltInv(r)' /\ BudgetInv(r)' /\ AloneInv(r)'
  <2>1. IdleInv(r) /\ HaltInv(r) /\ BudgetInv(r) /\ AloneInv(r) /\ NoCall.on # r
    BY SupervisorAssumption DEF BootInv, ServiceInv, NoCall
  <2>2. IdleInv(r)'
    BY <1>1, <2>1 DEF IdleInv
  <2>3. HaltInv(r)'
    BY <1>1, <2>1 DEF HaltInv, Down
  <2>4. BudgetInv(r)'
    BY <1>1, <2>1 DEF BudgetInv, AtCount
  <2>5. AloneInv(r)'
    BY <1>1, <2>1 DEF AloneInv, Settled
  <2> QED BY <2>2, <2>3, <2>4, <2>5
<1> QED BY <1>2, <1>3, <1>4, <1>5 DEF BootInv, ServiceInv

LEMMA AllStartedKeeps ==
  ASSUME BootInv, StageInitReport
  PROVE  BootInv'
<1>1. /\ stage = "report" /\ stage' = "shell" /\ allUp' = TRUE
      /\ UNCHANGED <<order, svc, restarts, up, call, pos, overlapped, forced, boot, late, root, mounted, home>>
  BY DEF StageInitReport, Supervised, AllStarted, layerVars
<1>2. BootTypeOK'
  BY <1>1 DEF BootInv, BootTypeOK, SupervisorTypeOK, LayersTypeOK
<1>3. SequenceInv' /\ DownInv'
  BY <1>1 DEF BootInv, BootTypeOK, SequenceInv, DownInv
<1>4. OrderInv'
  BY <1>1 DEF BootInv, OrderInv
<1>5. ASSUME NEW r \in Svc PROVE IdleInv(r)' /\ HaltInv(r)' /\ BudgetInv(r)' /\ AloneInv(r)'
  <2>1. IdleInv(r) /\ HaltInv(r) /\ BudgetInv(r) /\ AloneInv(r)
    BY DEF BootInv, ServiceInv
  <2>2. IdleInv(r)'
    BY <1>1, <2>1 DEF IdleInv
  <2>3. HaltInv(r)'
    BY <1>1, <2>1 DEF HaltInv, Down
  <2>4. BudgetInv(r)'
    BY <1>1, <2>1 DEF BudgetInv, AtCount
  <2>5. AloneInv(r)'
    BY <1>1, <2>1 DEF AloneInv, Settled
  <2> QED BY <2>2, <2>3, <2>4, <2>5
<1> QED BY <1>2, <1>3, <1>4, <1>5 DEF BootInv, ServiceInv

\* Every step of boot(), of halt() and of the threads keeps the invariant.
LEMMA BootStepKeeps ==
  ASSUME BootInv, BootNext
  PROVE  BootInv'
<1> USE DEF initVars, layerVars
<1>1. CASE BeginBoot
  BY <1>1, StageKeeps DEF BeginBoot, BootInv, BootTypeOK, SequenceInv, DownInv, LayersTypeOK
<1>2. CASE BeginHalt
  BY <1>2, BeginHaltKeeps
<1>3. CASE StageRoot
  BY <1>3, StageKeeps DEF StageRoot, Layered, RootStart, BootInv, BootTypeOK, SequenceInv, DownInv, LayersTypeOK
<1>4. CASE StageDevices
  BY <1>4, StageKeeps DEF StageDevices, Quietly, BootInv, BootTypeOK, SequenceInv, DownInv, LayersTypeOK
<1>5. CASE StageHome
  BY <1>5, StageKeeps DEF StageHome, Layered, HomeStart, BootInv, BootTypeOK, SequenceInv, DownInv, LayersTypeOK
<1>6. CASE StageHomeFails
  BY <1>6, StageKeeps DEF StageHomeFails, Panic, BootInv, BootTypeOK, SequenceInv, DownInv, LayersTypeOK
<1>7. CASE StageMount
  BY <1>7, StageKeeps DEF StageMount, Layered, MountHome, BootInv, BootTypeOK, SequenceInv, DownInv, LayersTypeOK
<1>8. CASE StageInit
  BY <1>8, StartNextKeeps
<1>9. CASE StageInitDone
  BY <1>9, StageKeeps
     DEF StageInitDone, Supervised, StartExhausted, BootInv, BootTypeOK, SequenceInv, DownInv, LayersTypeOK
<1>10. CASE StageInitReport
  BY <1>10, AllStartedKeeps
<1>11. CASE Ready
  BY <1>11, StageKeeps DEF Ready, BootInv, BootTypeOK, SequenceInv, DownInv, LayersTypeOK
<1>12. CASE HaltStop
  BY <1>12, StopNextKeeps
<1>13. CASE HaltStopDone
  BY <1>13, StopDoneKeeps
<1>14. CASE HaltUnmount
  BY <1>14, StageKeeps DEF HaltUnmount, Layered, UnmountHome, BootInv, BootTypeOK, SequenceInv, DownInv, LayersTypeOK
<1>15. CASE HaltRoot
  BY <1>15, StageKeeps DEF HaltRoot, Layered, RootStop, BootInv, BootTypeOK, SequenceInv, DownInv, LayersTypeOK
<1>16. CASE Halted
  BY <1>16, StageKeeps DEF Halted, BootInv, BootTypeOK, SequenceInv, DownInv, LayersTypeOK
<1>17. ASSUME NEW t \in Proc, ServiceStep(t), UNCHANGED <<layerVars, bootVars>>
       PROVE  BootInv'
  BY <1>17, StepCall
<1>18. ASSUME NEW t \in Thread, Restart(t)
       PROVE  BootInv'
  BY <1>18, RestartKeeps
<1>19. ASSUME NEW s \in Svc, Register(s), UNCHANGED <<layerVars, bootVars>>
       PROVE  BootInv'
  BY <1>19, RegisterKeeps
<1>20. Boot \in Proc /\ \A t \in Thread : t \in Proc
  BY DEF Proc
<1> QED BY ONLY BootNext, <1>1, <1>2, <1>3, <1>4, <1>5, <1>6, <1>7, <1>8, <1>9, <1>10, <1>11, <1>12, <1>13,
                <1>14, <1>15, <1>16, <1>17, <1>18, <1>19, <1>20 DEF BootNext, BootStep, ThreadStep

LEMMA BootInvInitially ==
  ASSUME BootInit, LayersInit
  PROVE  BootInv
<1>1. /\ order = <<>> /\ svc = [s \in Svc |-> "absent"] /\ restarts = [s \in Svc |-> 0] /\ up = {}
      /\ call = [t \in Proc |-> NoCall] /\ pos = 0 /\ allUp = FALSE /\ overlapped = {} /\ forced = {}
      /\ boot = "cold" /\ stage = "none" /\ late = {} /\ root = FALSE /\ mounted = FALSE /\ home = FALSE
  BY DEF BootInit, SupervisorInit, LayersInit
<1>2. NoCall.on \notin Svc /\ NoCall.at = "idle" /\ Boot \in Proc /\ Thread \subseteq Proc /\ MaxRestarts \in Nat
  BY SupervisorAssumption DEF NoCall, Proc
<1>3. BootTypeOK
  <2>1. order \in Seq(Svc) /\ pos \in 0..Len(order)
    BY <1>1
  <2>2. svc \in [Svc -> {"absent", "stopped", "starting", "running", "failed", "restarting"}]
    BY <1>1
  <2>3. restarts \in [Svc -> Nat] /\ call \in [Proc -> Call \cup {NoCall}]
    BY <1>1
  <2> QED BY <1>1, <2>1, <2>2, <2>3 DEF BootTypeOK, SupervisorTypeOK, LayersTypeOK
<1>4. SequenceInv /\ DownInv
  BY <1>1, <1>2 DEF SequenceInv, DownInv
<1>5. OrderInv
  BY <1>1, <1>2 DEF OrderInv
<1>6. ASSUME NEW r \in Svc PROVE IdleInv(r) /\ HaltInv(r) /\ BudgetInv(r) /\ AloneInv(r)
  <2>1. AtCount(r) = {}
    BY <1>1, <1>2 DEF AtCount
  <2>2. BudgetInv(r)
    BY <1>1, <1>2, <2>1, CountFinite, FS_EmptySet DEF BudgetInv
  <2>3. IdleInv(r) /\ HaltInv(r) /\ AloneInv(r)
    BY <1>1, <1>2 DEF IdleInv, HaltInv, AloneInv
  <2> QED BY <2>2, <2>3
<1> QED BY <1>3, <1>4, <1>5, <1>6 DEF BootInv, ServiceInv

\* The invariant gives what the run checks.
LEMMA BootInvSuffices ==
  ASSUME BootInv
  PROVE  BootKept
<1>1. ASSUME NEW s \in Svc
      PROVE  restarts[s] <= MaxRestarts + Cardinality(Thread)
  <2>1. BudgetInv(s) /\ restarts[s] \in Nat
    BY DEF BootInv, ServiceInv, BootTypeOK, SupervisorTypeOK
  <2>2. PICK n \in Nat : n = Cardinality(AtCount(s))
    BY CountFinite DEF AtCount
  <2> QED BY <2>1, <2>2, CountFinite, SupervisorAssumption DEF BudgetInv
<1>2. ASSUME NEW s \in Registered \ overlapped
      PROVE  /\ s \in Svc /\ restarts[s] <= MaxRestarts
             /\ (\A t \in Proc : call[t].on # s) => Settled(s)
  <2>1. s \in Svc
    BY DEF Registered, BootInv, BootTypeOK, SupervisorTypeOK
  <2>2. svc[s] # "absent"
    BY <2>1 DEF Registered, BootInv, OrderInv
  <2> QED BY <1>2, <2>1, <2>2 DEF BootInv, ServiceInv, AloneInv
<1>3. SupervisorSettled
  BY <1>1, <1>2 DEF SupervisorSettled, Settled
<1>4. HaltComplete
  <2> SUFFICES ASSUME boot = "halted" PROVE HaltComplete
    BY DEF HaltComplete
  <2>1. stage = "none" /\ ~root /\ ~mounted /\ ~allUp
    BY DEF BootInv, SequenceInv, DownInv
  <2>2. ASSUME NEW s \in Svc \ late
        PROVE  svc[s] \in {"absent", "stopped"} /\ Down(s)
    <3>1. HaltInv(s) /\ OrderInv
      BY DEF BootInv, ServiceInv
    <3> QED BY <2>1, <2>2, <3>1 DEF HaltInv, OrderInv, Down
  <2> QED BY <2>1, <2>2 DEF HaltComplete, Down
<1> QED BY <1>3, <1>4 DEF BootKept

-----------------------------------------------------------------------------
(* The two together: one of them drives the layers, the other is at rest. *)

LifecycleInv ==
  \/ by = "bootloader" /\ BootInv /\ AiosInit
  \/ by = "aios" /\ AiosInv /\ BootInit

LEMMA LifecycleInvAlways == Spec => []LifecycleInv
<1>1. Init => LifecycleInv
  BY BootInvInitially, AiosInvInitially DEF Init, LifecycleInv
<1>2. LifecycleInv /\ [Next]_vars => LifecycleInv'
  <2> SUFFICES ASSUME LifecycleInv, [Next]_vars PROVE LifecycleInv'
    OBVIOUS
  <2>1. CASE by = "bootloader" /\ BootNext /\ UNCHANGED <<aiosVars, by>>
    <3>1. BootInv /\ AiosInit
      BY <2>1 DEF LifecycleInv
    <3>2. BootInv'
      BY <2>1, <3>1, BootStepKeeps
    <3>3. AiosInit'
      BY <2>1, <3>1 DEF AiosInit, aiosVars
    <3> QED BY <2>1, <3>2, <3>3 DEF LifecycleInv
  <2>2. CASE by = "aios" /\ AiosNext /\ UNCHANGED <<initVars, bootVars, by>>
    <3>1. AiosInv /\ BootInit
      BY <2>2 DEF LifecycleInv
    <3>2. AiosInv'
      BY <2>2, <3>1, AiosKeeps
    <3>3. BootInit'
      BY <2>2, <3>1 DEF BootInit, SupervisorInit, initVars, bootVars
    <3> QED BY <2>2, <3>2, <3>3 DEF LifecycleInv
  <2>3. CASE UNCHANGED vars
    <3>1. UNCHANGED <<order, svc, restarts, up, call, pos, allUp, overlapped, forced, boot, stage, late,
                      root, mounted, home, running, online, begun, made, main, frames, hung,
                      signals, outcome, by>>
      BY <2>3 DEF vars, layerVars, initVars, bootVars, aiosVars
    <3>2. BootInv => BootInv'
      <4>1. BootTypeOK => BootTypeOK'
        BY <3>1 DEF BootTypeOK, SupervisorTypeOK, LayersTypeOK
      <4>2. (SequenceInv => SequenceInv') /\ (DownInv => DownInv') /\ (OrderInv => OrderInv')
        BY <3>1 DEF SequenceInv, DownInv, OrderInv
      <4>3. ServiceInv => ServiceInv'
        <5>1. \A s \in Svc : AtCount(s)' = AtCount(s)
          BY <3>1 DEF AtCount
        <5> QED BY <3>1, <5>1 DEF ServiceInv, IdleInv, HaltInv, BudgetInv, AloneInv, Settled, Down
      <4> QED BY <4>1, <4>2, <4>3 DEF BootInv
    <3>3. AiosInv => AiosInv'
      BY <3>1 DEF AiosInv, LayersTypeOK, AiosTypeOK, FramesDown, DownTo, IsDown, ClearedLast, Phases,
                  StartedUnderRoot, UnderRoot, Top
    <3>4. (AiosInit => AiosInit') /\ (BootInit => BootInit')
      BY <3>1 DEF AiosInit, BootInit, SupervisorInit
    <3> QED BY <3>1, <3>2, <3>3, <3>4 DEF LifecycleInv
  <2> QED BY <2>1, <2>2, <2>3 DEF Next
<1> QED BY <1>1, <1>2, PTL DEF Spec

\* Before anything is booted.
LEMMA AtRest ==
  ASSUME BootInit, LayersTypeOK
  PROVE  BootTypeOK /\ BootKept
<1>1. Registered = {} /\ boot = "cold" /\ \A s \in Svc : restarts[s] = 0
  BY DEF BootInit, SupervisorInit, Registered
<1>2. BootKept
  BY <1>1, CountFinite, SupervisorAssumption DEF BootKept, SupervisorSettled, HaltComplete
<1>3. BootTypeOK
  <2>1. order \in Seq(Svc) /\ pos \in 0..Len(order)
    BY DEF BootInit, SupervisorInit
  <2>2. svc \in [Svc -> {"absent", "stopped", "starting", "running", "failed", "restarting"}]
    BY DEF BootInit, SupervisorInit
  <2>3. restarts \in [Svc -> Nat] /\ call \in [Proc -> Call \cup {NoCall}]
    BY DEF BootInit, SupervisorInit
  <2> QED BY <2>1, <2>2, <2>3 DEF BootInit, SupervisorInit, BootTypeOK, SupervisorTypeOK
<1> QED BY <1>2, <1>3

\* The state of the supervisor, of the boot and of every call of
\* restart_service, and that of AIOS and of every call of stop() in progress,
\* keeps its type (AURAInit, Bootloader, AIOS.start, AIOS.stop).
THEOREM TypeCorrect == Spec => []LifecycleTypeOK
<1>1. ASSUME LifecycleInv PROVE LifecycleTypeOK
  <2>1. CASE by = "bootloader" /\ BootInv /\ AiosInit
    <3>1. 0 \in 0..Len(StartOrder) /\ 0 \in 0..MaxSignals
      BY Orders, SignalAssumption
    <3>2. frames \in Seq([at : 1..(Len(StopOrder) + 2), block : Locking \cup {0}])
      BY <2>1 DEF AiosInit
    <3>3. AiosTypeOK
      BY <2>1, <3>1, <3>2 DEF AiosInit, AiosTypeOK
    <3> QED BY <2>1, <3>3 DEF BootInv, LifecycleTypeOK
  <2>2. CASE by = "aios" /\ AiosInv /\ BootInit
    BY <2>2, AtRest DEF AiosInv, LifecycleTypeOK
  <2> QED BY <1>1, <2>1, <2>2 DEF LifecycleInv
<1> QED BY <1>1, LifecycleInvAlways, PTL

\* Whatever fails, and however many threads restart services while start_all
\* and stop_all run, a restart budget is exceeded by at most one for each
\* thread, a service that calls never overlapped on shows the truth, and
\* halt() leaves nothing up that nobody restarted (AURAInit._start_service,
\* restart_service, Bootloader.halt).
THEOREM HaltTakesDown == Spec => []BootKept
<1>1. ASSUME LifecycleInv PROVE BootKept
  BY <1>1, BootInvSuffices, AtRest DEF LifecycleInv, AiosInv
<1> QED BY <1>1, LifecycleInvAlways, PTL

\* However many signals interrupt stop(), and wherever they do, a process that
\* ends without an exception has everything down but HOME.
THEOREM StopIsComplete == Spec => []CleanEnd
<1>1. ASSUME LifecycleInv PROVE CleanEnd
  BY <1>1, AllDown DEF LifecycleInv, AiosInit, CleanEnd, AiosInv, Phases
<1> QED BY <1>1, LifecycleInvAlways, PTL

\* "Called last in the shutdown sequence": the servers, the CPU, the router and
\* the mounted HOME never outlive ROOT, through boot and halt, through start()
\* and interrupted stop()s.
THEOREM RootIsLast == Spec => []RootOutlives
<1>1. ASSUME LifecycleInv PROVE RootOutlives
  <2>1. CASE by = "bootloader" /\ BootInv /\ AiosInit
    BY <2>1 DEF RootOutlives, BootInv, DownInv, AiosInit
  <2>2. CASE AiosInv /\ main = "starting"
    BY <2>2, Orders DEF RootOutlives, AiosInv, StartedUnderRoot, AiosTypeOK
  <2>3. CASE AiosInv /\ main # "starting"
    BY <2>3 DEF RootOutlives, AiosInv, UnderRoot
  <2> QED BY <1>1, <2>1, <2>2, <2>3 DEF LifecycleInv
<1> QED BY <1>1, LifecycleInvAlways, PTL
=============================================================================
