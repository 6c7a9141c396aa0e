-------------------------- MODULE KernelSideProofs --------------------------
(***************************************************************************)
(* Proofs about what MCKernelSide composes: services, processes, channels, *)
(* the log, the virtual node and HOME, for any number of services, threads,*)
(* channels, heartbeats, clients, peers and ids, and any processes and     *)
(* packages.                                                               *)
(***************************************************************************)
EXTENDS MCKernelSide, DataLemmas

-----------------------------------------------------------------------------
(* Heartbeat.  A beat after stop() is one that was decided on before: its  *)
(* thread looks at the flag next.  While the flag is up, a start() is about *)
(* to make a thread, or the thread in self._thread is alive or about to be  *)
(* started, by whichever start() comes first.                              *)

Served == \/ \E b \in Beater : beatCall[b] = "make"
          \/ \E b \in beatThread : BeatAlive(b)
          \/ /\ \E b \in beatThread : beater[b] = "made"
             /\ \E b \in Beater : beatCall[b] = "start"

BeatInv ==
  /\ beatOn \in BOOLEAN /\ lateBeats \in [Beater -> Nat]
  /\ beater \in [Beater -> {"new", "made", "check", "beat", "sleep", "gone"}]
  /\ beatCall \in [Beater -> {"no", "make", "start", "over"}]
  /\ beatThread \subseteq Beater /\ \A b, c \in beatThread : b = c
  /\ beatOn => Served
  /\ \A b \in Beater : beatCall[b] \in {"no", "make"} => beater[b] = "new"
  /\ \A b \in Beater : /\ lateBeats[b] <= 1
                       /\ lateBeats[b] = 1 => ~beatOn /\ beater[b] \in {"sleep", "gone"}

LEMMA BeatKeeps == ASSUME BeatInv, BeatNext PROVE BeatInv'
<1>1. CASE BeatStop
  BY <1>1 DEF BeatStop, BeatInv
<1>2. ASSUME NEW b \in Beater, BeatStart(b) PROVE BeatInv'
  <2>1. Served'
    BY <1>2 DEF BeatStart, Calls, BeatInv, Served
  <2> QED BY <1>2, <2>1 DEF BeatStart, Calls, BeatInv
<1>3. ASSUME NEW b \in Beater, BeatMake(b) PROVE BeatInv'
  <2>1. /\ beater[b] = "new" /\ lateBeats[b] # 1 /\ beater'[b] = "made" /\ beatCall'[b] = "start"
        /\ \A c \in Beater \ {b} : beater'[c] = beater[c] /\ beatCall'[c] = beatCall[c]
    BY <1>3 DEF BeatMake, Calls, BeatInv
  <2>2. Served'
    BY <1>3, <2>1 DEF BeatMake, Served
  <2> QED BY <1>3, <2>1, <2>2 DEF BeatMake, Calls, BeatInv
<1>4. ASSUME NEW b \in Beater, BeatThread(b) PROVE BeatInv'
  <2>1. /\ UNCHANGED <<beatOn, beatThread, lateBeats>> /\ beatCall[b] = "start"
        /\ beatCall' = [beatCall EXCEPT ![b] = "over"]
        /\ \A c \in Beater : beater'[c] = IF c \in beatThread /\ beater[c] = "made" THEN "check"
                                          ELSE beater[c]
        /\ beater' \in [Beater -> {"new", "made", "check", "beat", "sleep", "gone"}]
    BY <1>4 DEF BeatThread, Calls, BeatInv
  <2>2. beatOn => Served'
    BY <2>1 DEF BeatInv, Served, BeatAlive
  <2> QED BY <2>1, <2>2 DEF BeatInv
<1>5. ASSUME NEW b \in Beater, BeatLook(b) PROVE BeatInv'
  <2>1. beatOn => Served'
    BY <1>5 DEF BeatLook, BeatInv, Served, BeatAlive
  <2> QED BY <1>5, <2>1 DEF BeatLook, BeatInv
<1>6. ASSUME NEW b \in Beater, Beat(b) PROVE BeatInv'
  <2>1. lateBeats[b] = 0
    BY <1>6 DEF Beat, BeatInv
  <2>2. lateBeats' = [lateBeats EXCEPT ![b] = IF beatOn THEN 0 ELSE 1]
    BY <1>6, <2>1 DEF Beat, BeatInv
  <2>3. beatOn => Served'
    BY <1>6 DEF Beat, BeatInv, Served, BeatAlive
  <2> QED BY <1>6, <2>2, <2>3 DEF Beat, BeatInv
<1> QED BY <1>1, <1>2, <1>3, <1>4, <1>5, <1>6 DEF BeatNext, BeatStep

-----------------------------------------------------------------------------
(* Registration.  As long as nothing is in doubt a request is alone, and   *)
(* the flag lags behind the command center by that request at most; while  *)
(* one that timed out may still be applied, all is in doubt.               *)

RegInv ==
  /\ registered \in BOOLEAN /\ serverHas \in BOOLEAN /\ doubt \in BOOLEAN
  /\ post \in [Client -> [op : {"none", "register", "deregister"},
                          at : {"idle", "sent", "applied"}, alone : BOOLEAN]]
  /\ \A c \in Client : post[c] # NoPost => post[c].at # "idle" /\ post[c].op \in Request
  /\ \A c, d \in Client : c # d /\ post[c] # NoPost /\ post[d] # NoPost => ~post[c].alone
  /\ \A c \in Client : post[c].at = "applied" /\ post[c].alone =>
                         (serverHas <=> post[c].op = "register")
  /\ loose \subseteq Request
  /\ loose # {} => doubt /\ \A c \in Client : post[c] # NoPost => ~post[c].alone
  /\ ~doubt => \A c \in Client : post[c].alone
  /\ ~doubt /\ (\A c \in Client : post[c].at # "applied") => (registered <=> serverHas)

LEMMA RegKeeps == ASSUME RegInv, RegNext PROVE RegInv'
<1> DEFINE Posts == [op : {"none", "register", "deregister"},
                     at : {"idle", "sent", "applied"}, alone : BOOLEAN]
<1>1. post \in [Client -> Posts] /\ NoPost \in Posts /\ NoPost.at = "idle" /\ NoPost.alone
  BY DEF RegInv, NoPost
<1>2. ASSUME NEW c \in Client, NEW op \in Request, PostBegin(c, op)
      PROVE  RegInv'
  <2> DEFINE others == {d \in Client : post[d] # NoPost}
  <2>1. /\ c \notin others
        /\ post'[c] = [op |-> op, at |-> "sent", alone |-> others = {} /\ loose = {}]
        /\ \A d \in Client \ {c} : post'[d] = IF d \in others THEN [post[d] EXCEPT !.alone = FALSE]
                                              ELSE post[d]
        /\ doubt' = (doubt \/ \E d \in Client \ {c} : post[d] # NoPost)
        /\ UNCHANGED <<registered, serverHas, loose>>
    BY <1>2 DEF PostBegin
  <2>2. post' \in [Client -> Posts]
    <3>1. PICK b \in BOOLEAN : b = (others = {} /\ loose = {})
      BY Zenon
    <3>2. [op |-> op, at |-> "sent", alone |-> b] \in Posts
      BY DEF Request
    <3>3. post' = [d \in Client |-> IF d = c THEN [op |-> op, at |-> "sent", alone |-> b]
                                   ELSE IF d \in others THEN [post[d] EXCEPT !.alone = FALSE]
                                   ELSE post[d]]
      BY <1>2, <3>1 DEF PostBegin
    <3>4. \A d \in Client : post[d] \in Posts /\ [post[d] EXCEPT !.alone = FALSE] \in Posts
      BY <1>1
    <3> HIDE DEF Posts, others
    <3> QED BY <3>2, <3>3, <3>4
  <2>3. /\ post'[c].at = "sent" /\ post'[c].op = op /\ (post'[c].alone <=> others = {} /\ loose = {})
        /\ \A d \in Client \ {c} :
             /\ post'[d].at = post[d].at /\ post'[d].op = post[d].op
             /\ d \in others => ~post'[d].alone
             /\ d \notin others => post'[d] = NoPost
    <3>1. post'[c].at = "sent" /\ post'[c].op = op /\ (post'[c].alone <=> others = {} /\ loose = {})
      <4>1. PICK b \in BOOLEAN : (b <=> others = {} /\ loose = {}) /\ b = (others = {} /\ loose = {})
        BY Zenon
      <4>2. post'[c] = [op |-> op, at |-> "sent", alone |-> b]
        BY <2>1, <4>1, Zenon
      <4> QED BY <4>1, <4>2
    <3>2. ASSUME NEW d \in Client \ {c}, d \in others
          PROVE  post'[d].at = post[d].at /\ post'[d].op = post[d].op /\ ~post'[d].alone
      <4>1. post[d] \in Posts /\ post'[d] = [post[d] EXCEPT !.alone = FALSE]
        BY <1>1, <2>1, <3>2
      <4> QED BY <4>1
    <3>3. ASSUME NEW d \in Client \ {c}, d \notin others
          PROVE  post'[d] = post[d] /\ post[d] = NoPost
      BY <2>1, <3>3
    <3> QED BY <3>1, <3>2, <3>3
  <2>4. others # {} => doubt'
    BY <2>1
  <2> HIDE DEF Posts
  <2> QED
    BY <1>1, <2>1, <2>2, <2>3, <2>4 DEF RegInv, Posts, Request
<1>3. ASSUME NEW c \in Client, ServerApplies(c) PROVE RegInv'
  BY <1>1, <1>3 DEF ServerApplies, RegInv
<1>4. ASSUME NEW c \in Client, PostOk(c) PROVE RegInv'
  <2>1. /\ post[c].at = "applied" /\ post' = [post EXCEPT ![c] = NoPost] /\ UNCHANGED <<serverHas, loose>>
        /\ (registered' <=> post[c].op = "register") /\ registered' \in BOOLEAN
        /\ (doubt' <=> doubt /\ ~post[c].alone) /\ doubt' \in BOOLEAN
    BY <1>4 DEF PostOk, RegInv
  <2>2. CASE post[c].alone
    <3>1. \A d \in Client : post'[d] = NoPost
      BY <1>1, <2>1, <2>2 DEF RegInv
    <3>2. loose' = {} /\ registered' \in BOOLEAN /\ (registered' <=> serverHas)
      BY <2>1, <2>2, <1>1 DEF RegInv
    <3> QED BY <1>1, <2>1, <2>2, <3>1, <3>2 DEF RegInv, Request
  <2>3. CASE ~post[c].alone
    BY <1>1, <2>1, <2>3 DEF RegInv, Request
  <2> QED BY <2>2, <2>3
<1>5. ASSUME NEW c \in Client, PostFails(c) PROVE RegInv'
  <2>1. post' = [post EXCEPT ![c] = NoPost] /\ post[c] # NoPost /\ UNCHANGED <<registered, serverHas>>
    BY <1>5 DEF PostFails
  <2>2. CASE UNCHANGED loose
    <3>1. \A d \in Client : post'[d] # NoPost => post[d] # NoPost /\ post'[d] = post[d] /\ d # c
      BY <1>1, <2>1 DEF RegInv
    <3>2. post' \in [Client -> Posts] /\ post'[c] = NoPost /\ \A d \in Client \ {c} : post'[d] = post[d]
      BY <1>1, <2>1
    <3>3. doubt' \in BOOLEAN /\ (doubt => doubt') /\ (post[c].at = "applied" => doubt')
      <4>1. \/ post[c].at = "sent" /\ doubt' = doubt
            \/ doubt' = TRUE
        BY <1>5, Zenon DEF PostFails
      <4>2. doubt \in BOOLEAN
        BY DEF RegInv
      <4>3. CASE post[c].at = "sent" /\ doubt' = doubt
        <5>1. post[c].at # "applied"
          BY <4>3
        <5> QED BY <4>2, <4>3, <5>1, Zenon
      <4>4. CASE doubt' = TRUE
        BY <4>4, Zenon
      <4> QED BY <4>1, <4>3, <4>4
    <3>4. ~doubt' => /\ \A d \in Client : post'[d].alone
                     /\ (\A d \in Client : post'[d].at # "applied") => (registered <=> serverHas)
      BY <1>1, <3>2, <3>3 DEF RegInv
    <3> HIDE DEF Posts
    <3> QED BY <1>1, <2>1, <2>2, <3>1, <3>2, <3>3, <3>4 DEF RegInv, Posts
  <2>3. CASE post[c].at = "sent" /\ loose' = loose \cup {post[c].op} /\ doubt' = TRUE
    <3>1. post[c].op \in Request
      BY <1>1, <2>3 DEF RegInv, Request
    <3>2. \A d \in Client : post'[d] # NoPost => post[d] # NoPost /\ post'[d] = post[d] /\ ~post[d].alone
      BY <1>1, <2>1 DEF RegInv
    <3>3. loose' \subseteq Request
      BY <2>3, <3>1 DEF RegInv
    <3> HIDE DEF Posts
    <3> QED BY <1>1, <2>1, <2>3, <3>2, <3>3 DEF RegInv, Posts
  <2> QED BY <1>5, <2>2, <2>3 DEF PostFails
<1>6. ASSUME NEW op \in Request, AppliesLate(op) \/ LooseEnds(op) PROVE RegInv'
  <2>1. /\ doubt /\ UNCHANGED <<registered, post, doubt>> /\ serverHas' \in BOOLEAN
        /\ loose # {} /\ loose' \subseteq loose /\ \A c \in Client : post[c] # NoPost => ~post[c].alone
    BY <1>6 DEF AppliesLate, LooseEnds, RegInv
  <2>2. \A c \in Client : ~(post[c].at = "applied" /\ post[c].alone)
    BY <1>1, <2>1
  <2> QED BY <1>1, <2>1, <2>2 DEF RegInv
<1> QED BY <1>2, <1>3, <1>4, <1>5, <1>6 DEF RegNext

-----------------------------------------------------------------------------
(* Identity.  While the file is written anew, no id is there to be kept.   *)

IdInv ==
  /\ idFile \in 0..MaxIds /\ myId \in 0..MaxIds /\ lastId \in 0..MaxIds
  /\ idPlace \in [at : {"down", "made", "opened", "up"}, id : 0..MaxIds]
  /\ lastId # 0 => idFile = lastId /\ (idPlace.at = "up" => myId = lastId)
  /\ idPlace.at \in {"made", "opened"} => lastId = 0

LEMMA IdKeeps == ASSUME IdInv, IdNext PROVE IdInv'
<1> USE VNodeAssumption DEF IdInv
<1>1. CASE FoundId
  BY <1>1 DEF FoundId
<1>2. CASE Truncate \/ WriteId
  BY <1>2 DEF Truncate, WriteId
<1>3. CASE CannotOpen \/ CannotWrite \/ NodeDown
  BY <1>3 DEF CannotOpen, CannotWrite, NodeDown
<1>4. ASSUME NEW id \in 1..MaxIds \ {idFile, lastId}, NewId(id) \/ Unreadable(id)
      PROVE  IdInv'
  BY <1>4 DEF NewId, Unreadable
<1> QED BY <1>1, <1>2, <1>3, <1>4 DEF IdNext

-----------------------------------------------------------------------------
(* HOME. *)

\* From the marking on, what is shown as running was spawned after it; what
\* start() has found absent is, unless it was installed meanwhile.
HomeInv ==
  /\ HomeTypeOK /\ PackagesAreThere
  /\ \A n \in absent : package[n] = "none" \/ n \in raced
  /\ entering => ~running
  /\ ~running \/ stopping => \A p \in Process : process[p] = "running" => p \in late

LEMMA HomeKeeps == ASSUME HomeInv, HomeNext PROVE HomeInv'
<1> USE DEF HomeInv, HomeTypeOK, PackagesAreThere
<1>1. CASE HomeOn
  <2>1. tmp' \in {"absent", "empty", "used"}
    BY <1>1 DEF HomeOn, Mounted
  <2> QED BY <1>1, <2>1 DEF HomeOn
<1>9. CASE HomeReady
  BY <1>9 DEF HomeReady
<1>8. ASSUME NEW n \in Default, HomeLooks(n) \/ HomeInstalls(n) PROVE HomeInv'
  <2>1. CASE HomeLooks(n)
    BY <1>8, <2>1, HomeAssumption DEF HomeLooks, Missing
  <2>2. CASE HomeInstalls(n)
    BY <1>8, <2>2, HomeAssumption DEF HomeInstalls
  <2> QED BY <1>8, <2>1, <2>2
<1>2. CASE StopProcesses
  BY <1>2 DEF StopProcesses, startVars
<1>3. CASE StopUnmount
  BY <1>3 DEF StopUnmount, Flushed, startVars
<1>4. ASSUME NEW n \in Package, InstallPackage(n) \/ RemovePackage(n) PROVE HomeInv'
  <2>1. CASE InstallPackage(n)
    BY <1>4, <2>1 DEF InstallPackage, startVars
  <2>2. CASE RemovePackage(n)
    BY <1>4, <2>2 DEF RemovePackage, startVars
  <2> QED BY <1>4, <2>1, <2>2
<1>5. ASSUME NEW n \in Repo, GitBegin(n) \/ GitFails(n) \/ GitDone(n) \/ DeleteOpt(n)
      PROVE  HomeInv'
  BY <1>5, HomeAssumption DEF GitBegin, GitFails, GitDone, DeleteOpt, startVars
<1>6. ASSUME NEW p \in Process, Spawn(p) \/ KillHome(p) PROVE HomeInv'
  BY <1>6 DEF Spawn, KillHome, startVars
<1>7. CASE WriteTmp \/ DeleteTmp
  BY <1>7 DEF WriteTmp, DeleteTmp, startVars
<1> QED BY <1>1, <1>2, <1>3, <1>4, <1>5, <1>6, <1>7, <1>8, <1>9 DEF HomeNext

-----------------------------------------------------------------------------
(* Services.  Unless calls on a service overlapped, the one call on it     *)
(* knows what its stop_fn or start_fn did.                                 *)

OneCall(s) == \A t, u \in Thread : call[t].on = s /\ call[u].on = s => t = u

\* What the call of t on s knows.
Knows(t, s) == /\ call[t].at = "stopped" /\ s \in HasStop => ~up[s]
               /\ call[t].at = "started" => up[s]

Truth(s) ==
  (\A t \in Thread : call[t].on # s) =>
    /\ state[s] = "active" => up[s]
    /\ state[s] = "inactive" /\ s \in HasStop => ~up[s]

ServiceInv ==
  /\ SMTypeOK
  /\ \A t \in Thread : call[t].at = "again" => call[t].retry < MaxAutoRestarts
  /\ \A s \in Service : state[s] = "none" => /\ \A t \in Thread : call[t].on # s
                                             /\ s \notin NoopStart => ~up[s]
  /\ \A s \in Service \ overlapped : OneCall(s)
  /\ \A s \in Service \ (overlapped \cup NoopStart) :
       Truth(s) /\ \A t \in Thread : call[t].on = s => Knows(t, s)

\* A step of t inside its call on s: the call becomes c, and what s is and what
\* is shown of it change.
LEMMA InnerKeeps ==
  ASSUME ServiceInv, NEW t \in Thread, NEW s \in Service, call[t].on = s,
         NEW c, c \in Call \/ c = NoCall, c.at = "again" => c.retry < MaxAutoRestarts,
         c.on = s \/ c.on = NoService, 
         NEW st, st \in {"inactive", "active", "failed"} \/ st = state[s], NEW b \in BOOLEAN,
         call' = [call EXCEPT ![t] = c], state' = [state EXCEPT ![s] = st],
         up' = [up EXCEPT ![s] = b], overlapped' = overlapped,
         s \notin NoopStart \cup overlapped =>
           /\ c.on = s => /\ c.at = "stopped" /\ s \in HasStop => ~b
                          /\ c.at = "started" => b
           /\ c.on # s => /\ st = "active" => b
                          /\ st = "inactive" /\ s \in HasStop => ~b
  PROVE  ServiceInv'
<1> USE ManagerAssumption DEF ServiceInv, SMTypeOK
<1>1. state[s] # "none" /\ st \in {"inactive", "active", "failed"}
  OBVIOUS
<1>2. SMTypeOK'
  BY <1>1
<1>3. /\ call'[t] = c /\ up'[s] = b /\ state'[s] = st
      /\ \A u \in Thread \ {t} : call'[u] = call[u]
      /\ \A r \in Service \ {s} : up'[r] = up[r] /\ state'[r] = state[r]
      /\ s # NoService
  OBVIOUS
<1>4. \A u \in Thread : call'[u].at = "again" => call'[u].retry < MaxAutoRestarts
  BY <1>3
<1>5. \A r \in Service : state'[r] = "none" => /\ \A u \in Thread : call'[u].on # r
                                               /\ r \notin NoopStart => ~up'[r]
  BY <1>1, <1>3
<1>6. \A r \in Service \ overlapped : OneCall(r)'
  BY <1>3 DEF OneCall
<1>7. ASSUME NEW r \in Service \ (overlapped \cup NoopStart)
      PROVE  Truth(r)' /\ \A u \in Thread : call'[u].on = r => Knows(u, r)'
  <2>1. CASE r = s
    <3>1. \A u \in Thread \ {t} : call'[u].on # r
      BY <1>3, <2>1 DEF OneCall
    <3>2. c.on # s => Truth(r)'
      BY <1>3, <2>1 DEF Truth
    <3>3. c.on = s => Truth(r)' /\ Knows(t, r)'
      BY <1>3, <2>1 DEF Truth, Knows
    <3> QED BY <1>3, <2>1, <3>1, <3>2, <3>3
  <2>2. CASE r # s
    <3>1. \A u \in Thread : call'[u].on = r <=> call[u].on = r
      BY <1>3, <2>2
    <3>2. Truth(r)'
      BY <1>3, <2>2, <3>1 DEF Truth
    <3>3. ASSUME NEW u \in Thread, call'[u].on = r PROVE Knows(u, r)'
      <4>1. u # t
        BY <1>3, <2>2, <3>3
      <4> QED BY <1>3, <2>2, <3>1, <3>3, <4>1 DEF Knows
    <3> QED BY <3>2, <3>3
  <2> QED BY <2>1, <2>2
<1> QED BY <1>2, <1>4, <1>5, <1>6, <1>7

LEMMA ServicesKeep == ASSUME ServiceInv, SMNext PROVE ServiceInv'
<1> USE ManagerAssumption
<1>1. ASSUME NEW s \in Service, Register(s) PROVE ServiceInv'
  <2>1. /\ state[s] = "none" /\ state'[s] = "inactive" /\ UNCHANGED <<up, call, overlapped>>
        /\ \A r \in Service \ {s} : state'[r] = state[r]
        /\ SMTypeOK'
    BY <1>1 DEF Register, ServiceInv, SMTypeOK
  <2>2. \A r \in Service \ (overlapped \cup NoopStart) : Truth(r)'
    BY <2>1 DEF ServiceInv, Truth
  <2> QED BY <2>1, <2>2 DEF ServiceInv, OneCall, Knows
<1>2. ASSUME NEW t \in Thread, NEW s \in Service, NEW where, where \in {"stopFn", "stopped", "startFn"},
             where = "stopped" => s \notin HasStop,
             NEW again \in BOOLEAN, Enter(t, s, where, again)
      PROVE  ServiceInv'
  <2>1. PICK c : c = [at |-> where, on |-> s, restart |-> again, retry |-> 0]
    OBVIOUS
  <2>2. c \in Call /\ c.on = s /\ c.at = where
    BY <2>1, <1>2 DEF Call, Place
  <2>3. /\ call[t] = NoCall /\ state[s] # "none" /\ UNCHANGED <<state, up>>
        /\ call' = [call EXCEPT ![t] = c]
        /\ overlapped' = IF \E u \in Thread : call[u].on = s THEN overlapped \cup {s} ELSE overlapped
    BY <1>2, <2>1 DEF Enter
  <2>4. SMTypeOK' /\ call'[t] = c /\ \A u \in Thread \ {t} : call'[u] = call[u]
    BY <2>2, <2>3 DEF ServiceInv, SMTypeOK
  <2>5. \A u \in Thread : call'[u].at = "again" => call'[u].retry < MaxAutoRestarts
    BY <1>2, <2>2, <2>4 DEF ServiceInv
  <2>6. \A r \in Service : state'[r] = "none" => /\ \A u \in Thread : call'[u].on # r
                                                 /\ r \notin NoopStart => ~up'[r]
    BY <2>2, <2>3, <2>4 DEF ServiceInv
  <2>7. \A r \in Service \ overlapped' : OneCall(r)'
    BY <2>2, <2>3, <2>4 DEF ServiceInv, OneCall
  <2>8. ASSUME NEW r \in Service \ (overlapped' \cup NoopStart)
        PROVE  Truth(r)' /\ \A u \in Thread : call'[u].on = r => Knows(u, r)'
    <3>1. r \notin overlapped /\ Truth(r) /\ \A u \in Thread : call[u].on = r => Knows(u, r)
      BY <2>3, <2>8 DEF ServiceInv
    <3>2. Truth(r)'
      <4>1. ASSUME \A u \in Thread : call'[u].on # r PROVE \A u \in Thread : call[u].on # r
        BY <2>2, <2>3, <2>4, <4>1 DEF NoCall
      <4> QED BY <2>3, <3>1, <4>1 DEF Truth
    <3>3. ASSUME NEW u \in Thread, call'[u].on = r PROVE Knows(u, r)'
      BY <1>2, <2>2, <2>3, <2>4, <3>1, <3>3 DEF Knows
    <3> QED BY <3>2, <3>3
  <2> QED BY <2>4, <2>5, <2>6, <2>7, <2>8 DEF ServiceInv
<1>3. CASE Command
  BY <1>1, <1>2, <1>3 DEF Command, StartService, StopService, RestartService, StopEntry
<1>4. ASSUME NEW t \in Thread, CallStep(t) PROVE ServiceInv'
  <2>1. call[t].at # "idle"
    BY <1>4 DEF CallStep, InnerStep, StopRecorded, StartReturns, StartRaises, StartRecorded,
       StartFailed, StartAgain, StopReturns, StopRaises, At
  <2>2. PICK d : d = call[t]
    OBVIOUS
  <2>3. PICK s \in Service : /\ d.on = s /\ d \in Call /\ call[t] = d
                             /\ state[s] \in {"none", "inactive", "active", "failed"}
                             /\ up[s] \in BOOLEAN
    BY <2>1, <2>2 DEF ServiceInv, SMTypeOK, NoCall, Call
  <2>4. /\ state = [state EXCEPT ![s] = state[s]] /\ up = [up EXCEPT ![s] = up[s]]
        /\ call \in [Thread -> Call \cup {NoCall}]
    BY DEF ServiceInv, SMTypeOK
  <2>5. /\ d.at = "again" => d.retry < MaxAutoRestarts
        /\ NoCall.on = NoService /\ NoCall.at = "idle" /\ NoCall.on # s
        /\ s \notin overlapped \cup NoopStart => Knows(t, s)
    BY <2>3 DEF ServiceInv, NoCall
  <2> DEFINE Moves(c, st, b) ==
        /\ call' = [call EXCEPT ![t] = c] /\ state' = [state EXCEPT ![s] = st]
        /\ up' = [up EXCEPT ![s] = b] /\ overlapped' = overlapped
  <2> DEFINE Fits(c, st, b) ==
        /\ c \in Call \/ c = NoCall
        /\ c.at = "again" => c.retry < MaxAutoRestarts
        /\ c.on = s \/ c.on = NoService
        /\ st \in {"inactive", "active", "failed"} \/ st = state[s]
        /\ b \in BOOLEAN
        /\ s \notin NoopStart \cup overlapped =>
             /\ c.on = s => /\ c.at = "stopped" /\ s \in HasStop => ~b
                            /\ c.at = "started" => b
             /\ c.on # s => /\ st = "active" => b
                            /\ st = "inactive" /\ s \in HasStop => ~b
  <2>6. ASSUME NEW to, to \in Place \ {"again"}
        PROVE  /\ [d EXCEPT !.at = to] \in Call /\ [d EXCEPT !.at = to].on = s
               /\ [d EXCEPT !.at = to].at = to
    BY <2>3, <2>6 DEF Call
  <2>7. ASSUME NEW to, Move(t, to) PROVE call' = [call EXCEPT ![t] = [d EXCEPT !.at = to]]
    BY <2>3, <2>7 DEF Move
  <2>8. CASE StopReturns(t)
    <3>1. PICK c : c = [d EXCEPT !.at = "stopped"]
      OBVIOUS
    <3>2. Moves(c, state[s], FALSE)
      BY <2>2, <2>3, <2>4, <2>7, <2>8, <3>1 DEF StopReturns
    <3>3. Fits(c, state[s], FALSE)
      BY <2>5, <2>6, <3>1 DEF Place
    <3> QED BY <3>2, <3>3, <2>3, InnerKeeps
  <2>9. CASE StopRaises(t)
    <3>1. PICK c : c = [d EXCEPT !.at = "stopFailed"]
      OBVIOUS
    <3>2. Moves(c, state[s], up[s])
      BY <2>2, <2>3, <2>4, <2>7, <2>9, <3>1 DEF StopRaises
    <3>3. Fits(c, state[s], up[s])
      BY <2>3, <2>5, <2>6, <3>1 DEF Place
    <3> QED BY <3>2, <3>3, <2>3, InnerKeeps
  <2>10. CASE StopRecorded(t)
    <3>1. PICK st : st = IF d.at = "stopped" THEN "inactive" ELSE "failed"
      OBVIOUS
    <3>2. PICK c : c = IF d.restart THEN [d EXCEPT !.at = "startFn"] ELSE NoCall
      OBVIOUS
    <3>3. Moves(c, st, up[s])
      BY <2>2, <2>3, <2>4, <2>7, <2>10, <3>1, <3>2 DEF StopRecorded, Record, Return, At
    <3>4. /\ c \in Call \/ c = NoCall
          /\ c.on = s \/ c.on = NoService
          /\ c.at \in {"startFn", "idle"}
      BY <2>5, <2>6, <3>2 DEF Place
    <3>5. d.at = "stopped" \/ st = "failed"
      BY <3>1
    <3>6. s \notin NoopStart \cup overlapped /\ d.at = "stopped" /\ s \in HasStop => ~up[s]
      BY <2>3, <2>5 DEF Knows
    <3>7. st \in {"inactive", "failed"}
      BY <3>1
    <3>8. Fits(c, st, up[s])
      BY <2>3, <3>4, <3>5, <3>6, <3>7
    <3> QED BY <3>3, <3>8, <2>3, InnerKeeps
  <2>11. CASE StartReturns(t)
    <3>1. PICK c : c = [d EXCEPT !.at = "started"]
      OBVIOUS
    <3>2. PICK b \in BOOLEAN : (s \in NoopStart /\ b = up[s]) \/ (s \notin NoopStart /\ b = TRUE)
      BY <2>3
    <3>3. Moves(c, state[s], b)
      BY <2>2, <2>3, <2>4, <2>7, <2>11, <3>1, <3>2 DEF StartReturns
    <3>4. Fits(c, state[s], b)
      BY <2>5, <2>6, <3>1, <3>2 DEF Place
    <3> QED BY <3>3, <3>4, <2>3, InnerKeeps
  <2>12. CASE StartRaises(t)
    <3>1. PICK c : c = [d EXCEPT !.at = "startFailed"]
      OBVIOUS
    <3>2. Moves(c, state[s], up[s])
      BY <2>2, <2>3, <2>4, <2>7, <2>12, <3>1 DEF StartRaises
    <3>3. Fits(c, state[s], up[s])
      BY <2>3, <2>5, <2>6, <3>1 DEF Place
    <3> QED BY <3>2, <3>3, <2>3, InnerKeeps
  <2>13. CASE StartRecorded(t)
    <3>1. Moves(NoCall, "active", up[s]) /\ d.at = "started"
      BY <2>2, <2>3, <2>4, <2>13 DEF StartRecorded, Record, Return, At
    <3>2. s \notin NoopStart \cup overlapped => up[s]
      BY <2>3, <2>5, <3>1 DEF Knows
    <3>3. Fits(NoCall, "active", up[s])
      BY <2>3, <2>5, <3>2
    <3> QED BY <3>1, <3>3, <2>3, InnerKeeps
  <2>14. CASE StartFailed(t)
    <3>1. PICK c : c = IF s \in AutoRestart /\ d.retry < MaxAutoRestarts
                       THEN [d EXCEPT !.at = "again"] ELSE NoCall
      OBVIOUS
    <3>2. Moves(c, "failed", up[s])
      BY <2>2, <2>3, <2>4, <2>7, <2>14, <3>1 DEF StartFailed, Record, Return, At
    <3>3. Fits(c, "failed", up[s])
      <4>1. /\ [d EXCEPT !.at = "again"] \in Call /\ [d EXCEPT !.at = "again"].on = s
            /\ [d EXCEPT !.at = "again"].at = "again"
            /\ [d EXCEPT !.at = "again"].retry = d.retry
        BY <2>3 DEF Call, Place
      <4> QED BY <2>3, <2>5, <3>1, <4>1
    <3> QED BY <3>2, <3>3, <2>3, InnerKeeps
  <2>15. CASE StartAgain(t)
    <3>1. PICK c : c = [d EXCEPT !.at = "startFn", !.retry = d.retry + 1]
      OBVIOUS
    <3>2. Moves(c, state[s], up[s]) /\ d.at = "again"
      BY <2>2, <2>3, <2>4, <2>15, <3>1 DEF StartAgain, At
    <3>3. c \in Call /\ c.on = s /\ c.at = "startFn"
      <4>1. d.retry + 1 \in 0..MaxAutoRestarts
        BY <2>3, <2>5, <3>2, ManagerAssumption DEF Call
      <4>2. "startFn" \in Place
        BY DEF Place
      <4> QED BY <2>3, <3>1, <4>1, <4>2 DEF Call
    <3>4. Fits(c, state[s], up[s])
      BY <2>3, <3>3
    <3> QED BY <3>2, <3>4, <2>3, InnerKeeps
  <2> QED BY <1>4, <2>8, <2>9, <2>10, <2>11, <2>12, <2>13, <2>14, <2>15 DEF CallStep, InnerStep
<1> QED BY <1>3, <1>4 DEF SMNext

-----------------------------------------------------------------------------
(* Processes and secrets. *)

TablesInv ==
  /\ TablesTypeOK /\ KillIsFinal
  /\ killed \subseteq Pid /\ secret \in [Secret -> SecretValue \cup {NoSecret}]
  /\ \A p \in Pid : body[p] = "none" <=> proc[p] = "none"

LEMMA ProcKeeps == ASSUME TablesInv, ProcNext, UNCHANGED secret PROVE TablesInv'
<1> USE DEF TablesInv, TablesTypeOK, KillIsFinal
<1>1. ASSUME NEW p \in Pid, SpawnEntry(p) \/ SpawnThread(p) PROVE TablesInv'
  BY <1>1 DEF SpawnEntry, SpawnThread
<1>2. ASSUME NEW p \in Pid, NEW how \in {"return", "raise", "exit"}, FnEnds(p, how) PROVE TablesInv'
  BY <1>2 DEF FnEnds
<1>3. ASSUME NEW p \in Pid, SetState(p) PROVE TablesInv'
  BY <1>3 DEF SetState, EndState
<1>4. ASSUME NEW p \in Pid, Kill(p) PROVE TablesInv'
  BY <1>4 DEF Kill
<1> QED BY <1>1, <1>2, <1>3, <1>4 DEF ProcNext

LEMMA SecretsKeep ==
  ASSUME TablesInv, UNCHANGED procVars, NEW k \in ValidKey, NEW v \in SecretValue \cup {NoSecret},
         secret' = [secret EXCEPT ![k] = v]
  PROVE  TablesInv'
<1>1. /\ secret' \in [Secret -> SecretValue \cup {NoSecret}] /\ secret'[k] = v
      /\ \A j \in Secret \ {k} : secret'[j] = secret[j]
  BY KernelTablesAssumption DEF TablesInv
<1>2. \A j \in Secret : secret'[j] # NoSecret => j \in ValidKey
  BY <1>1 DEF TablesInv, TablesTypeOK
<1> QED BY <1>1, <1>2 DEF TablesInv, TablesTypeOK, KillIsFinal, procVars

-----------------------------------------------------------------------------
(* Channels.  What receivers got from a channel is older than what waits.  *)

Queued == [c \in Channel |-> ToSet(received[c]) \cup ToSet(channel[c])]

\* Each of the numbers up to n is among those drained or in some channel.
Spread(d, n, queued) ==
  /\ d \subseteq 1..n /\ \A c \in Channel : queued[c] \subseteq 1..n
  /\ \A i \in 1..n : i \in d \/ \E c \in Channel : i \in queued[c]

IpcInv ==
  /\ sends \in Nat /\ channel \in [Channel -> Seq(Nat)] /\ received \in [Channel -> Seq(Nat)]
  /\ \A c \in Channel : Ascending(channel[c]) /\ Ascending(received[c])
  /\ \A c \in Channel : \A x \in ToSet(received[c]), y \in ToSet(channel[c]) : x < y
  /\ Spread(drained, sends, Queued)

LEMMA SpreadMore ==
  ASSUME NEW d, NEW n \in Nat, NEW queued, Spread(d, n, queued), NEW m, m = n + 1,
         NEW k \in Channel, NEW after, after[k] = queued[k] \cup {m},
         \A c \in Channel \ {k} : after[c] = queued[c]
  PROVE  Spread(d, m, after)
<1>1. 1..m = (1..n) \cup {m}
  OBVIOUS
<1>2. PICK I, J : I = 1..n /\ J = 1..m
  OBVIOUS
<1>3. J = I \cup {m}
  BY <1>1, <1>2
<1>4. /\ d \subseteq I /\ \A c \in Channel : queued[c] \subseteq I
      /\ \A i \in I : i \in d \/ \E c \in Channel : i \in queued[c]
  BY <1>2 DEF Spread
<1>5. d \subseteq J /\ \A c \in Channel : after[c] \subseteq J
  BY <1>3, <1>4
<1>6. \A i \in J : i \in d \/ \E c \in Channel : i \in after[c]
  BY <1>3, <1>4
<1> QED BY <1>2, <1>5, <1>6 DEF Spread

LEMMA SpreadLess ==
  ASSUME NEW d, NEW n, NEW queued, Spread(d, n, queued), NEW k \in Channel, NEW r \in queued[k],
         NEW after, \A c \in Channel : after[c] \subseteq queued[c] /\ queued[c] \subseteq after[c] \cup {r}
  PROVE  Spread(d \cup {r}, n, after)
<1>1. PICK I : I = 1..n
  OBVIOUS
<1>2. /\ d \subseteq I /\ \A c \in Channel : queued[c] \subseteq I
      /\ \A i \in I : i \in d \/ \E c \in Channel : i \in queued[c]
  BY <1>1 DEF Spread
<1>3. d \cup {r} \subseteq I /\ \A c \in Channel : after[c] \subseteq I
  BY <1>2
<1>4. \A i \in I : i \in d \cup {r} \/ \E c \in Channel : i \in after[c]
  BY <1>2
<1> QED BY <1>1, <1>3, <1>4 DEF Spread

LEMMA SendKeeps == ASSUME IpcInv, NEW k \in Channel, Send(k) PROVE IpcInv'
<1>1. /\ sends' = sends + 1 /\ channel' = [channel EXCEPT ![k] = Append(@, sends + 1)]
      /\ UNCHANGED <<received, drained>> /\ sends \in Nat
  BY DEF Send, IpcInv
<1>2. PICK n \in Nat : n = sends + 1
  BY <1>1
<1>3. channel[k] \in Seq(Nat) /\ Append(channel[k], n) \in Seq(Nat)
  BY DEF IpcInv
<1>4. /\ channel' \in [Channel -> Seq(Nat)] /\ channel'[k] = Append(channel[k], n)
      /\ \A c \in Channel \ {k} : channel'[c] = channel[c]
  BY <1>1, <1>2, <1>3 DEF IpcInv
<1>5. ToSet(channel'[k]) = ToSet(channel[k]) \cup {n}
  BY <1>3, <1>4, SetOfAppend
<1>6. \A c \in Channel : \A x \in Queued[c] : x \in 1..sends /\ x < n
  <2>1. \A c \in Channel : Queued[c] \subseteq 1..sends
    BY DEF IpcInv, Spread
  <2> QED BY <1>1, <1>2, <2>1
<1>7. Ascending(channel'[k])
  <2>1. Ascending(channel[k]) /\ \A x \in ToSet(channel[k]) : x < n
    BY <1>6 DEF IpcInv, Queued
  <2> QED BY <1>4, <2>1, AscendingAppend
<1>8. Queued'[k] = Queued[k] \cup {n} /\ \A c \in Channel \ {k} : Queued'[c] = Queued[c]
  BY <1>1, <1>4, <1>5 DEF Queued
<1>9. \A c \in Channel : Ascending(channel'[c]) /\ Ascending(received'[c])
  BY <1>1, <1>4, <1>7 DEF IpcInv
<1>10. ASSUME NEW c \in Channel, NEW x \in ToSet(received'[c]), NEW y \in ToSet(channel'[c]) PROVE x < y
  BY <1>1, <1>4, <1>5, <1>6 DEF IpcInv, Queued
<1>11. sends' \in Nat /\ received' \in [Channel -> Seq(Nat)]
  BY <1>1 DEF IpcInv
<1>12. Spread(drained', sends', Queued')
  <2>1. PICK h, a : h = Queued /\ a = Queued'
    OBVIOUS
  <2>2. Spread(drained, sends, h) /\ a[k] = h[k] \cup {n} /\ \A c \in Channel \ {k} : a[c] = h[c]
    BY <1>8, <2>1 DEF IpcInv
  <2>3. Spread(drained, n, a)
    BY <1>1, <1>2, <2>2, SpreadMore
  <2> QED BY <1>1, <1>2, <2>1, <2>3
<1> QED BY <1>4, <1>9, <1>10, <1>11, <1>12 DEF IpcInv

LEMMA TakeKeeps == ASSUME IpcInv, NEW k \in Channel, Receive(k) \/ ClearTakes(k) PROVE IpcInv'
<1>1. channel[k] # <<>> /\ channel' = [channel EXCEPT ![k] = Tail(@)] /\ UNCHANGED sends
  BY DEF Receive, ClearTakes
<1>2. Ascending(channel[k]) /\ Ascending(received[k]) /\ channel[k] \in Seq(Nat) /\ received[k] \in Seq(Nat)
  BY DEF IpcInv
<1>3. PICK h : h = Head(channel[k])
  OBVIOUS
<1>4. Ascending(Tail(channel[k])) /\ h \in Nat /\ \A y \in ToSet(Tail(channel[k])) : h < y
  BY <1>1, <1>2, <1>3, AscendingTail
<1>5. ToSet(channel[k]) = {h} \cup ToSet(Tail(channel[k])) /\ Tail(channel[k]) \in Seq(Nat)
  <2>1. Tail(channel[k]) \in Seq(Nat)
    BY <1>4 DEF Ascending
  <2> QED BY <1>1, <1>2, <1>3, <2>1, SetOfTail
<1>6. /\ channel' \in [Channel -> Seq(Nat)] /\ channel'[k] = Tail(channel[k])
      /\ \A c \in Channel \ {k} : channel'[c] = channel[c]
  BY <1>1, <1>5 DEF IpcInv
<1>7. CASE Receive(k)
  <2>1. received' = [received EXCEPT ![k] = Append(@, h)] /\ UNCHANGED drained
    BY <1>3, <1>7 DEF Receive
  <2>2. ToSet(Append(received[k], h)) = ToSet(received[k]) \cup {h} /\ Append(received[k], h) \in Seq(Nat)
    BY <1>2, <1>4, SetOfAppend
  <2>3. Ascending(Append(received[k], h))
    <3>1. \A x \in ToSet(received[k]) : x < h
      BY <1>5 DEF IpcInv
    <3> QED BY <1>2, <1>4, <3>1, AscendingAppend
  <2>4. /\ received' \in [Channel -> Seq(Nat)] /\ received'[k] = Append(received[k], h)
        /\ \A c \in Channel \ {k} : received'[c] = received[c]
    BY <2>1, <2>2 DEF IpcInv
  <2>5. \A c \in Channel : Ascending(channel'[c]) /\ Ascending(received'[c])
    BY <1>4, <1>6, <2>3, <2>4 DEF IpcInv
  <2>6. ASSUME NEW c \in Channel, NEW x \in ToSet(received'[c]), NEW y \in ToSet(channel'[c]) PROVE x < y
    BY <1>4, <1>5, <1>6, <2>2, <2>4 DEF IpcInv
  <2>7. Queued' = Queued
    <3>1. \A c \in Channel : ToSet(received'[c]) \cup ToSet(channel'[c]) = ToSet(received[c]) \cup ToSet(channel[c])
      BY <1>5, <1>6, <2>2, <2>4
    <3> QED BY <3>1 DEF Queued
  <2> QED BY <1>1, <1>6, <2>1, <2>4, <2>5, <2>6, <2>7 DEF IpcInv
<1>8. CASE ClearTakes(k)
  <2>1. drained' = drained \cup {h} /\ UNCHANGED received
    BY <1>3, <1>8 DEF ClearTakes
  <2>2. \A c \in Channel : Ascending(channel'[c]) /\ Ascending(received'[c])
    BY <1>4, <1>6, <2>1 DEF IpcInv
  <2>3. ASSUME NEW c \in Channel, NEW x \in ToSet(received'[c]), NEW y \in ToSet(channel'[c]) PROVE x < y
    BY <1>5, <1>6, <2>1 DEF IpcInv
  <2>4. /\ h \in Queued[k]
        /\ \A c \in Channel : Queued'[c] \subseteq Queued[c] /\ Queued[c] \subseteq Queued'[c] \cup {h}
    BY <1>5, <1>6, <2>1 DEF Queued
  <2>5. Spread(drained', sends', Queued')
    <3>1. PICK q, a : q = Queued /\ a = Queued'
      OBVIOUS
    <3>2. /\ Spread(drained, sends, q) /\ h \in q[k]
          /\ \A c \in Channel : a[c] \subseteq q[c] /\ q[c] \subseteq a[c] \cup {h}
      BY <2>4, <3>1 DEF IpcInv
    <3>3. Spread(drained \cup {h}, sends, a)
      BY <3>2, SpreadLess
    <3> QED BY <1>1, <2>1, <3>1, <3>3
  <2>6. sends' \in Nat /\ received' \in [Channel -> Seq(Nat)]
    BY <1>1, <2>1 DEF IpcInv
  <2> QED BY <1>6, <2>2, <2>3, <2>5, <2>6 DEF IpcInv
<1> QED BY <1>7, <1>8

LEMMA IpcKeeps == ASSUME IpcInv, IpcNext PROVE IpcInv'
<1>1. ASSUME NEW c \in Channel, ClearBegin(c) \/ ClearEnd(c) PROVE IpcInv'
  <2>1. UNCHANGED <<channel, sends, received, drained>>
    BY <1>1 DEF ClearBegin, ClearEnd
  <2>2. Queued' = Queued
    BY <2>1 DEF Queued
  <2> QED BY <2>1, <2>2 DEF IpcInv
<1> QED BY <1>1, SendKeeps, TakeKeeps DEF IpcNext

LEMMA IpcIsInOrder == IpcInv => MessagesInOrder
<1> SUFFICES ASSUME IpcInv PROVE MessagesInOrder
  OBVIOUS
<1> DEFINE all(c) == received[c] \o channel[c]
<1>1. ASSUME NEW c \in Channel
      PROVE  Ascending(all(c)) /\ ToSet(all(c)) = Queued[c]
  <2>1. PICK s, t : s = received[c] /\ t = channel[c]
    OBVIOUS
  <2>2. /\ Ascending(s) /\ Ascending(t) /\ s \in Seq(Nat) /\ t \in Seq(Nat)
        /\ \A x \in ToSet(s), y \in ToSet(t) : x < y
    BY <2>1 DEF IpcInv
  <2>3. Ascending(s \o t)
    BY <2>2, AscendingConcat
  <2>4. ToSet(s \o t) = ToSet(s) \cup ToSet(t)
    BY <2>2, SetOfConcat
  <2>5. Queued[c] = ToSet(s) \cup ToSet(t)
    BY <2>1 DEF Queued
  <2> QED BY <2>1, <2>3, <2>4, <2>5, Zenon
<1> HIDE DEF all
<1>2. \A c \in Channel : \A i, j \in DOMAIN all(c) : i < j => all(c)[i] < all(c)[j]
  BY <1>1 DEF Ascending
<1>3. drained \cup UNION {ToSet(all(c)) : c \in Channel} = 1..sends
  <2>1. UNION {ToSet(all(c)) : c \in Channel} = UNION {Queued[c] : c \in Channel}
    BY <1>1
  <2> QED BY <2>1 DEF IpcInv, Spread
<1> QED BY <1>2, <1>3, Zenon DEF MessagesInOrder, all

-----------------------------------------------------------------------------
(* System log.  Its entries are numbered up to the last one logged.        *)

Entry == [no : Nat, level : SysLevel]

\* A log numbered up to k.
Entries(s, k) == s \in Seq(Entry) /\ \A i \in 1..Len(s) : s[i].no = k - Len(s) + i

Older == {x \in Entry \X Entry : x[1].no < x[2].no}

LogInv == /\ logged \in Nat /\ Entries(syslog, logged)
          /\ Len(syslog) = IF logged < LogMax THEN logged ELSE LogMax

LEMMA EntriesAppend ==
  ASSUME NEW s, NEW k \in Nat, Entries(s, k), NEW e \in Entry, e.no = k + 1
  PROVE  Entries(Append(s, e), k + 1) /\ Len(Append(s, e)) = Len(s) + 1
<1>1. PICK t : t = Append(s, e)
  OBVIOUS
<1>2. PICK n : n = Len(s)
  OBVIOUS
<1>3. n \in Nat /\ t \in Seq(Entry) /\ Len(t) = n + 1 /\ t[n + 1] = e /\ \A i \in 1..n : t[i] = s[i]
  BY <1>1, <1>2 DEF Entries
<1>4. ASSUME NEW i \in 1..(n + 1) PROVE t[i].no = (k + 1) - (n + 1) + i
  <2>1. CASE i = n + 1
    BY <1>3, <2>1
  <2>2. CASE i # n + 1
    <3>1. i \in 1..n
      BY <1>3, <2>2
    <3>2. t[i] = s[i] /\ s[i].no = k - n + i
      BY <1>2, <1>3, <3>1 DEF Entries
    <3> QED BY <1>3, <3>1, <3>2
  <2> QED BY <2>1, <2>2
<1> QED BY <1>1, <1>2, <1>3, <1>4 DEF Entries

LEMMA EntriesTail ==
  ASSUME NEW s, NEW k \in Nat, Entries(s, k), Len(s) > 0
  PROVE  Entries(Tail(s), k) /\ Len(Tail(s)) = Len(s) - 1
<1>1. PICK t : t = Tail(s)
  OBVIOUS
<1>2. PICK n : n = Len(t)
  OBVIOUS
<1>3. n \in Nat /\ t \in Seq(Entry) /\ Len(s) = n + 1 /\ \A i \in 1..n : t[i] = s[i + 1]
  BY <1>1, <1>2 DEF Entries
<1>4. ASSUME NEW i \in 1..n PROVE t[i].no = k - n + i
  <2>1. i + 1 \in 1..(n + 1)
    BY <1>3
  <2>2. s[i + 1].no = k - (n + 1) + (i + 1)
    BY <1>3, <2>1 DEF Entries
  <2> QED BY <1>3, <2>2
<1> QED BY <1>1, <1>2, <1>3, <1>4 DEF Entries

LEMMA LogKeeps == ASSUME LogInv, NEW level \in SysLevel, Log(level) PROVE LogInv'
<1>1. PICK e : e = [no |-> logged + 1, level |-> level]
  OBVIOUS
<1>2. PICK es : es = Append(syslog, e)
  OBVIOUS
<1>3. PICK n : n = Len(syslog)
  OBVIOUS
<1>4. /\ logged' = logged + 1 /\ logged \in Nat /\ Entries(syslog, logged)
      /\ syslog' = IF Len(es) > LogMax THEN Tail(es) ELSE es
      /\ n = IF logged < LogMax THEN logged ELSE LogMax
  BY <1>1, <1>2, <1>3 DEF Log, LogInv
<1>5. e \in Entry /\ e.no = logged + 1
  BY <1>1, <1>4 DEF Entry
<1>6. Entries(es, logged') /\ Len(es) = n + 1 /\ n \in Nat
  BY <1>2, <1>3, <1>4, <1>5, EntriesAppend, KernelTablesAssumption
<1>7. CASE n + 1 > LogMax
  <2>1. syslog' = Tail(es) /\ n = LogMax /\ logged' \in Nat /\ ~(logged' < LogMax)
    BY <1>4, <1>6, <1>7, KernelTablesAssumption
  <2>2. Entries(Tail(es), logged') /\ Len(Tail(es)) = n
    BY <1>6, <2>1, EntriesTail
  <2> QED BY <2>1, <2>2 DEF LogInv
<1>8. CASE ~(n + 1 > LogMax)
  <2>1. syslog' = es /\ logged' \in Nat /\ n + 1 = IF logged' < LogMax THEN logged' ELSE LogMax
    BY <1>4, <1>6, <1>8, KernelTablesAssumption
  <2> QED BY <1>6, <2>1 DEF LogInv
<1> QED BY <1>7, <1>8

\* The last k elements of a list, latest first.
Latest(es, k) == Reverse(SubSeq(es, Len(es) - k + 1, Len(es)))

LEMMA LatestFirst ==
  ASSUME NEW X, NEW es, es \in Seq(X), NEW k, k \in Nat, k <= Len(es)
  PROVE  Len(Latest(es, k)) = k /\ \A i \in 1..k : Latest(es, k)[i] = es[Len(es) - i + 1]
<1>0. PICK q, L : q = Latest(es, k) /\ L = Len(es)
  OBVIOUS
<1>1. PICK b : b = SubSeq(es, L - k + 1, L) /\ q = Reverse(b)
  BY <1>0 DEF Latest
<1>2. L \in Nat /\ k \in Nat /\ k <= L /\ \A i \in 1..L : es[i] \in X
  BY <1>0
<1>3. PICK m : m = L - k + 1
  OBVIOUS
<1>4. m \in Int /\ m - 1 \in Nat /\ L - m + 1 = k /\ (m <= L => k = L - m + 1) /\ (~(m <= L) => k = 0)
  BY <1>2, <1>3
<1>5. /\ Len(b) = k /\ b \in Seq(X) /\ \A i \in 1..k : b[i] = es[m + i - 1]
  <2>1. \A i \in m..L : es[i] \in X
    BY <1>2, <1>4
  <2>2. b = SubSeq(es, m, L) /\ m \in Int /\ L \in Int
    BY <1>1, <1>2, <1>3, <1>4
  <2>3. /\ b \in Seq(X) /\ Len(b) = IF m <= L THEN L - m + 1 ELSE 0
        /\ \A i \in 1..(L - m + 1) : b[i] = es[m + i - 1]
    BY ONLY <2>1, <2>2
  <2> QED BY <1>4, <2>3
<1>6. q = [i \in 1..k |-> b[(k - i) + 1]]
  BY <1>1, <1>5 DEF Reverse
<1>7. ASSUME NEW i \in 1..k PROVE q[i] = es[L - i + 1]
  <2>1. (k - i) + 1 \in 1..k /\ m + ((k - i) + 1) - 1 = L - i + 1
    BY <1>2, <1>3, <1>4
  <2>2. q[i] = b[(k - i) + 1]
    BY <1>6
  <2>3. PICK x \in 1..k : x = (k - i) + 1
    BY <2>1
  <2>4. b[x] = es[m + x - 1]
    BY <1>5
  <2> QED BY <2>1, <2>2, <2>3, <2>4
<1>8. Len(q) = k
  BY <1>2, <1>6
<1> QED BY <1>0, <1>7, <1>8, Zenon

LEMMA QueryIsLatest ==
  ASSUME LogInv, NEW level \in SysLevel, NEW n \in 1..LogMax, NEW q, q = Query(level, n)
  PROVE  /\ Len(q) <= n
         /\ \A i \in DOMAIN syslog : syslog[i].level = level =>
              syslog[i] \in ToSet(q) \/ (Len(q) = n /\ syslog[i].no < q[n].no)
<1>1. PICK A : A = {e \in ToSet(syslog) : e.level = level}
  OBVIOUS
<1>2. PICK es : es = Kept(syslog, A)
  OBVIOUS
<1>3. PICK L : L = Len(es)
  OBVIOUS
<1>4. syslog \in Seq(Entry) /\ es \in Seq(Entry) /\ L \in Nat /\ ToSet(es) = A /\ InOrder(es, Older)
  <2>1. syslog \in Seq(Entry)
    BY DEF LogInv, Entries
  <2>2. es \in Seq(Entry \cap A)
    BY <1>2, <2>1, KeptType
  <2>3. ToSet(es) = ToSet(syslog) \cap A
    BY <1>2, <2>1, KeptSet
  <2>4. InOrder(syslog, Older)
    <3> SUFFICES ASSUME NEW i \in DOMAIN syslog, NEW j \in DOMAIN syslog, i < j
                 PROVE  <<syslog[i], syslog[j]>> \in Older
      BY DEF InOrder
    <3>1. PICK m \in Nat : m = Len(syslog)
      BY <2>1
    <3>2. i \in 1..m /\ j \in 1..m /\ syslog[i] \in Entry /\ syslog[j] \in Entry
      BY <2>1, <3>1
    <3>3. syslog[i].no = logged - m + i /\ syslog[j].no = logged - m + j /\ logged \in Nat
      BY <3>1, <3>2 DEF LogInv, Entries
    <3>4. syslog[i].no < syslog[j].no
      BY <3>2, <3>3
    <3> QED BY <3>2, <3>4 DEF Older
  <2>5. InOrder(es, Older)
    BY <1>2, <2>1, <2>4, InOrderKept
  <2> QED BY <1>1, <1>3, <2>1, <2>2, <2>3, <2>5
<1>5. n \in Nat /\ n # 0
  BY KernelTablesAssumption
<1>6. PICK k \in 0..L : k = (IF n = 0 \/ n > L THEN L ELSE n)
  BY <1>4, <1>5
<1>7. q = Latest(es, k)
  BY <1>1, <1>2, <1>3, <1>6, Zenon DEF Query, Latest
<1>8. Len(q) = k /\ \A i \in 1..k : q[i] = es[L - i + 1]
  <2>1. es \in Seq(Entry)
    BY <1>4
  <2>2. k \in Nat /\ k <= Len(es)
    BY <1>3, <1>4
  <2>3. Len(Latest(es, k)) = k /\ \A i \in 1..k : Latest(es, k)[i] = es[Len(es) - i + 1]
    BY <2>1, <2>2, LatestFirst
  <2> QED BY <1>3, <1>7, <2>3
<1>9. Len(q) <= n
  BY <1>4, <1>5, <1>6, <1>8
<1>10. ASSUME NEW i \in DOMAIN syslog, syslog[i].level = level
       PROVE  syslog[i] \in ToSet(q) \/ (Len(q) = n /\ syslog[i].no < q[n].no)
  <2>1. syslog[i] \in ToSet(es)
    BY <1>1, <1>4, <1>10 DEF ToSet
  <2>2. PICK j \in 1..L : syslog[i] = es[j]
    BY <1>3, <1>4, <2>1 DEF ToSet
  <2>3. CASE L - j + 1 \in 1..k
    <3>1. q[L - j + 1] = es[j]
      <4>1. PICK x \in 1..k : x = L - j + 1
        BY <2>3
      <4>2. L - x + 1 = j
        BY <1>4, <4>1
      <4> QED BY <1>8, <4>1, <4>2
    <3> QED BY <1>8, <2>2, <2>3, <3>1 DEF ToSet
  <2>4. CASE L - j + 1 \notin 1..k
    <3>1. k = n /\ n \in 1..k /\ L - n + 1 \in 1..L /\ j < L - n + 1
      BY <1>4, <1>5, <1>6, <2>4
    <3>2. PICK x \in 1..L : x = L - n + 1
      BY <3>1
    <3>3. <<es[j], es[x]>> \in Older
      <4>1. DOMAIN es = 1..L
        BY <1>3, <1>4
      <4> QED BY <1>4, <3>1, <3>2, <4>1 DEF InOrder
    <3>4. q[n] = es[x]
      BY <1>8, <3>1, <3>2
    <3>5. es[j].no < es[x].no
      BY <3>3 DEF Older
    <3> QED BY <1>8, <2>2, <3>1, <3>4, <3>5
  <2> QED BY <2>3, <2>4
<1> QED BY <1>9, <1>10

LEMMA LogIsLatest == LogInv => LogIsSuffix
<1> SUFFICES ASSUME LogInv PROVE LogIsSuffix
  OBVIOUS
<1>1. Len(syslog) = Min({logged, LogMax})
  <2>1. PICK L \in Nat, M \in Nat : L = logged /\ M = LogMax
    BY KernelTablesAssumption DEF LogInv
  <2>2. Len(syslog) = IF L < M THEN L ELSE M
    BY <2>1 DEF LogInv
  <2>3. Min({L, M}) = IF L < M THEN L ELSE M
    BY <2>1 DEF Min
  <2> QED BY <2>1, <2>2, <2>3
<1>2. \A i \in DOMAIN syslog : syslog[i].no = logged - Len(syslog) + i
  <2>1. DOMAIN syslog = 1..Len(syslog)
    BY DEF LogInv, Entries
  <2> QED BY <2>1 DEF LogInv, Entries
<1> QED BY <1>1, <1>2, QueryIsLatest DEF LogIsSuffix

-----------------------------------------------------------------------------
(* Mesh.  What a node received and what waits for it is in the order of    *)
(* sending.                                                                *)

Waiting(n) == IF n \in Peers THEN inbox[n] ELSE <<>>
All == [n \in Peer |-> got[n] \o Waiting(n)]
Counts == [n \in Peer |-> Len(All[n])]

MeshInv ==
  /\ Peers \subseteq Peer /\ inbox \in [Peers -> Seq(Nat)] /\ got \in [Peer -> Seq(Nat)]
  /\ totalSent \in Nat /\ dropped \in Nat
  /\ \A n \in Peer : Ascending(All[n]) /\ \A x \in ToSet(All[n]) : x <= totalSent
  /\ totalSent = dropped + Total(Counts, Peer)

LEMMA MeshTypes ==
  ASSUME MeshInv, NEW n \in Peer
  PROVE  /\ got[n] \in Seq(Nat) /\ Waiting(n) \in Seq(Nat) /\ All[n] \in Seq(Nat)
         /\ All[n] = got[n] \o Waiting(n) /\ Counts[n] = Len(got[n]) + Len(Waiting(n))
         /\ Counts[n] \in Nat
<1>1. got[n] \in Seq(Nat) /\ Waiting(n) \in Seq(Nat)
  BY DEF MeshInv, Waiting
<1>2. All[n] = got[n] \o Waiting(n)
  BY Zenon DEF All
<1>3. PICK s, t, c : s = got[n] /\ t = Waiting(n) /\ c = All[n]
  OBVIOUS
<1>4. s \in Seq(Nat) /\ t \in Seq(Nat) /\ c = s \o t
  BY <1>1, <1>2, <1>3, Zenon
<1>5. c \in Seq(Nat) /\ Len(c) = Len(s) + Len(t) /\ Len(c) \in Nat
  BY <1>4
<1>6. Counts[n] = Len(All[n])
  BY DEF Counts
<1> QED BY <1>1, <1>2, <1>3, <1>5, <1>6, Zenon

\* A step that moves messages and loses none.
LEMMA SameAll ==
  ASSUME MeshInv, Peers' \subseteq Peer, inbox' \in [Peers' -> Seq(Nat)], got' \in [Peer -> Seq(Nat)],
         UNCHANGED <<totalSent, dropped>>, \A n \in Peer : All'[n] = All[n]
  PROVE  MeshInv'
<1>1. All' = All
  BY DEF All
<1>2. Counts' = Counts
  BY <1>1 DEF Counts
<1> QED BY <1>1, <1>2 DEF MeshInv

LEMMA RegisterKeeps == ASSUME MeshInv, NEW n \in Peer, RegisterPeer(n) PROVE MeshInv'
<1>1. /\ inbox' = [m \in Peers \cup {n} |-> IF m \in Peers THEN inbox[m] ELSE <<>>]
      /\ UNCHANGED <<totalSent, got, dropped>> /\ Peers' = Peers \cup {n}
  BY DEF RegisterPeer, Peers
<1>2. inbox' \in [Peers' -> Seq(Nat)] /\ Peers' \subseteq Peer /\ got' \in [Peer -> Seq(Nat)]
  BY <1>1 DEF MeshInv
<1>3. ASSUME NEW m \in Peer PROVE Waiting(m)' = Waiting(m)
  BY <1>1 DEF Waiting
<1>4. \A m \in Peer : All'[m] = All[m]
  BY <1>1, <1>3, Zenon DEF All
<1> QED BY <1>1, <1>2, <1>4, SameAll

LEMMA ReceiveKeeps == ASSUME MeshInv, NEW n \in Peer, ReceiveAll(n) PROVE MeshInv'
<1>1. /\ n \in Peers /\ inbox' = [inbox EXCEPT ![n] = <<>>] /\ UNCHANGED <<totalSent, dropped>>
      /\ got' = [got EXCEPT ![n] = got[n] \o inbox[n]]
  BY Zenon DEF ReceiveAll
<1>2. Peers' = Peers
  BY <1>1, Zenon DEF Peers
<1>3. PICK g, b, c : g = got[n] /\ b = inbox[n] /\ c = g \o b
  OBVIOUS
<1>4. /\ g \in Seq(Nat) /\ b \in Seq(Nat) /\ c \in Seq(Nat) /\ got' = [got EXCEPT ![n] = c]
  <2>1. g \in Seq(Nat) /\ b \in Seq(Nat)
    BY <1>1, <1>3 DEF MeshInv
  <2>2. got' = [got EXCEPT ![n] = c]
    BY <1>1, <1>3, Zenon
  <2> QED BY <1>3, <2>1, <2>2
<1>5. /\ inbox' \in [Peers' -> Seq(Nat)] /\ Peers' \subseteq Peer /\ got' \in [Peer -> Seq(Nat)]
      /\ inbox'[n] = <<>> /\ \A m \in Peers \ {n} : inbox'[m] = inbox[m]
      /\ got'[n] = c /\ \A m \in Peer \ {n} : got'[m] = got[m]
  <2>1. Peers' \subseteq Peer /\ inbox' \in [Peers' -> Seq(Nat)]
    BY <1>1, <1>2 DEF MeshInv
  <2>2. inbox'[n] = <<>> /\ \A m \in Peers \ {n} : inbox'[m] = inbox[m]
    BY <1>1 DEF MeshInv
  <2>3. got' \in [Peer -> Seq(Nat)]
    BY <1>4 DEF MeshInv
  <2>4. got'[n] = c /\ \A m \in Peer \ {n} : got'[m] = got[m]
    BY <1>4 DEF MeshInv
  <2> QED BY <2>1, <2>2, <2>3, <2>4
<1>6. ASSUME NEW m \in Peer, m # n PROVE All'[m] = All[m]
  <2>1. Waiting(m)' = Waiting(m)
    BY <1>2, <1>5, <1>6 DEF Waiting
  <2> QED BY <1>5, <1>6, <2>1, Zenon DEF All
<1>7. All'[n] = All[n]
  <2>1. Waiting(n)' = <<>> /\ Waiting(n) = b
    BY <1>1, <1>2, <1>3, <1>5 DEF Waiting
  <2>2. All'[n] = c \o <<>>
    BY <1>5, <2>1, Zenon DEF All
  <2>3. All[n] = c
    BY <1>3, <2>1, Zenon DEF All
  <2>4. c \o <<>> = c
    BY <1>4, ConcatEmptySeq
  <2> QED BY <2>2, <2>3, <2>4, Zenon
<1> QED BY <1>1, <1>5, <1>6, <1>7, SameAll

LEMMA UnregisterKeeps == ASSUME MeshInv, NEW n \in Peer, UnregisterPeer(n) PROVE MeshInv'
<1>1. /\ n \in Peers /\ inbox' = [m \in Peers \ {n} |-> inbox[m]] /\ Peers' = Peers \ {n}
      /\ dropped' = dropped + Len(inbox[n]) /\ UNCHANGED <<totalSent, got>>
  BY DEF UnregisterPeer, Peers
<1>2. inbox' \in [Peers' -> Seq(Nat)] /\ Peers' \subseteq Peer /\ got' \in [Peer -> Seq(Nat)]
  BY <1>1 DEF MeshInv
<1>3. ASSUME NEW m \in Peer, m # n PROVE All'[m] = All[m]
  <2>1. Waiting(m)' = Waiting(m)
    BY <1>1, <1>3 DEF Waiting
  <2> QED BY <1>1, <2>1, Zenon DEF All
<1>4. Waiting(n) = inbox[n] /\ Waiting(n)' = <<>>
  BY <1>1 DEF Waiting
<1>5. PICK g, b : g = got[n] /\ b = inbox[n] /\ g \in Seq(Nat) /\ b \in Seq(Nat)
  BY <1>1 DEF MeshInv
<1>6. All[n] = g \o b /\ All'[n] = g
  <2>1. All[n] = g \o b
    BY <1>4, <1>5, Zenon DEF All
  <2>2. All'[n] = g \o <<>>
    BY <1>1, <1>4, <1>5, Zenon DEF All
  <2>3. g \o <<>> = g
    BY <1>5, ConcatEmptySeq
  <2> QED BY <2>1, <2>2, <2>3, Zenon
<1>7. Ascending(g) /\ \A x \in ToSet(g) : x <= totalSent
  <2>1. Ascending(g \o b) /\ \A x \in ToSet(g \o b) : x <= totalSent
    BY <1>6, Zenon DEF MeshInv
  <2>2. ToSet(g \o b) = ToSet(g) \cup ToSet(b)
    BY <1>5, SetOfConcat
  <2> QED BY <1>5, <2>1, <2>2, AscendingPrefix
<1>8. \A m \in Peer : Ascending(All'[m]) /\ \A x \in ToSet(All'[m]) : x <= totalSent'
  <2>1. ASSUME NEW m \in Peer, m # n
        PROVE  Ascending(All'[m]) /\ \A x \in ToSet(All'[m]) : x <= totalSent'
    BY <1>1, <1>3, <2>1 DEF MeshInv
  <2>2. Ascending(All'[n]) /\ \A x \in ToSet(All'[n]) : x <= totalSent'
    BY <1>1, <1>6, <1>7
  <2> QED BY <2>1, <2>2
<1>9. PICK f, e : f = Counts /\ e = Counts'
  OBVIOUS
<1>10. /\ \A m \in Peer \ {n} : e[m] = f[m]
       /\ f[n] = Len(g) + Len(b) /\ e[n] = Len(g) /\ Len(g) \in Nat /\ Len(b) \in Nat
       /\ \A m \in Peer : f[m] \in Int /\ e[m] \in Int
  <2>1. \A m \in Peer \ {n} : e[m] = f[m]
    BY <1>3, <1>9 DEF Counts
  <2>2. f[n] = Len(g) + Len(b)
    BY <1>4, <1>5, <1>9, MeshTypes
  <2>3. e[n] = Len(g)
    BY <1>6, <1>9 DEF Counts
  <2>4. \A m \in Peer : f[m] \in Nat
    BY <1>9, MeshTypes
  <2> QED BY <1>5, <2>1, <2>2, <2>3, <2>4
<1>11. /\ Total(f, Peer) \in Int /\ Total(e, Peer) = Total(f, Peer) + e[n] - f[n]
  <2>1. PICK S : S = Peer
    OBVIOUS
  <2>2. /\ IsFiniteSet(S) /\ n \in S /\ \A m \in S : f[m] \in Int /\ e[m] \in Int
        /\ \A m \in S \ {n} : e[m] = f[m]
    BY <1>10, <2>1, VNodeAssumption
  <2>3. /\ Total(f, S) \in Int /\ Total(e, S) = Total(f, S) + e[n] - f[n]
    BY ONLY <2>2, TotalChange
  <2> QED BY <2>1, <2>3
<1>12. totalSent' = dropped' + Total(e, Peer) /\ totalSent' \in Nat /\ dropped' \in Nat
  <2>1. PICK p, q, r, u : p = Len(g) /\ q = Len(b) /\ r = Total(f, Peer) /\ u = Total(e, Peer)
    OBVIOUS
  <2>2. p \in Nat /\ q \in Nat /\ r \in Int /\ u = r + p - (p + q)
    BY <1>10, <1>11, <2>1
  <2>3. totalSent = dropped + r /\ totalSent \in Nat /\ dropped \in Nat
    BY <1>9, <2>1 DEF MeshInv
  <2>4. dropped' = dropped + q /\ totalSent' = totalSent
    BY <1>1, <1>5, <2>1
  <2> QED BY <2>1, <2>2, <2>3, <2>4
<1> QED BY <1>2, <1>8, <1>9, <1>12 DEF MeshInv

LEMMA DeliverKeeps == ASSUME MeshInv, NEW ns, Deliver(ns) PROVE MeshInv'
<1>1. PICK w \in Nat : w = totalSent + 1
  BY DEF MeshInv
<1>2. /\ ns \subseteq Peers /\ ns \in SUBSET Peer /\ UNCHANGED <<got, dropped>>
      /\ inbox' = [m \in Peers |-> IF m \in ns THEN Append(inbox[m], w) ELSE inbox[m]]
      /\ totalSent' = totalSent + Cardinality(ns) /\ Peers' = Peers
  BY <1>1 DEF Deliver, Peers, MeshInv
<1>3. IsFiniteSet(ns) /\ Cardinality(ns) \in Nat /\ \A m \in ns : Cardinality(ns) >= 1
  <2>1. IsFiniteSet(ns)
    BY <1>2, VNodeAssumption, FS_Subset
  <2>2. Cardinality(ns) \in Nat /\ (Cardinality(ns) = 0 => ns = {})
    BY <2>1, FS_CardinalityType, FS_EmptySet
  <2> QED BY <2>1, <2>2
<1>4. PICK k \in Nat : k = Cardinality(ns) /\ totalSent' = totalSent + k /\ \A m \in ns : k >= 1
  BY <1>2, <1>3
<1>5. inbox' \in [Peers' -> Seq(Nat)] /\ Peers' \subseteq Peer /\ got' \in [Peer -> Seq(Nat)]
  <2>1. \A m \in Peers : inbox[m] \in Seq(Nat) /\ Append(inbox[m], w) \in Seq(Nat)
    BY DEF MeshInv
  <2> QED BY <1>2, <2>1 DEF MeshInv
<1>6. ASSUME NEW m \in Peer \ ns PROVE All'[m] = All[m]
  <2>1. Waiting(m)' = Waiting(m)
    BY <1>2, <1>6 DEF Waiting
  <2> QED BY <1>2, <2>1, Zenon DEF All
<1>7. ASSUME NEW m \in ns PROVE All'[m] = Append(All[m], w)
  <2>1. m \in Peers /\ m \in Peer
    BY <1>2
  <2>2. PICK g, b : g = got[m] /\ b = inbox[m] /\ g \in Seq(Nat) /\ b \in Seq(Nat)
    BY <2>1 DEF MeshInv
  <2>3. Waiting(m) = b /\ Waiting(m)' = Append(b, w)
    BY <1>2, <2>1, <2>2 DEF Waiting
  <2>4. All[m] = g \o b /\ All'[m] = g \o Append(b, w)
    BY <1>2, <2>1, <2>2, <2>3, Zenon DEF All
  <2>5. g \o Append(b, w) = Append(g \o b, w)
    <3>1. PICK N : N = Nat /\ g \in Seq(N) /\ b \in Seq(N) /\ w \in N
      BY <1>1, <2>2
    <3> QED BY <3>1, ConcatAppend
  <2> QED BY <2>4, <2>5, Zenon
<1>8. ASSUME NEW m \in ns
      PROVE  /\ Ascending(All'[m]) /\ \A x \in ToSet(All'[m]) : x <= totalSent'
             /\ Len(All'[m]) = Len(All[m]) + 1
  <2>1. PICK s : s = All[m] /\ Ascending(s) /\ s \in Seq(Nat) /\ \A x \in ToSet(s) : x <= totalSent
    BY <1>2 DEF MeshInv, Ascending
  <2>2. totalSent \in Nat /\ totalSent' \in Nat /\ w <= totalSent' /\ totalSent <= totalSent'
    BY <1>1, <1>4 DEF MeshInv
  <2>3. \A x \in ToSet(s) : x \in Nat /\ x < w /\ x <= totalSent'
    <3>1. \A x \in ToSet(s) : x \in Nat
      BY <2>1, SetOfType
    <3> QED BY <1>1, <2>1, <2>2, <3>1
  <2>4. Ascending(Append(s, w))
    BY <2>1, <2>3, AscendingAppend
  <2>5. ToSet(Append(s, w)) = ToSet(s) \cup {w}
    BY <2>1, SetOfAppend
  <2>6. Len(Append(s, w)) = Len(s) + 1
    BY <2>1
  <2>7. All'[m] = Append(s, w)
    BY <1>7, <2>1
  <2> QED BY <2>1, <2>2, <2>3, <2>4, <2>5, <2>6, <2>7
<1>9. \A m \in Peer : Ascending(All'[m]) /\ \A x \in ToSet(All'[m]) : x <= totalSent'
  <2>1. ASSUME NEW m \in Peer \ ns
        PROVE  Ascending(All'[m]) /\ \A x \in ToSet(All'[m]) : x <= totalSent'
    <3>1. Ascending(All[m]) /\ (\A x \in ToSet(All[m]) : x <= totalSent) /\ totalSent \in Nat
      BY DEF MeshInv
    <3>2. \A x \in ToSet(All[m]) : x \in Nat
      BY <3>1, SetOfType DEF Ascending
    <3> QED BY <1>4, <1>6, <3>1, <3>2
  <2> QED BY <1>8, <2>1
<1>10. PICK f, e : f = Counts /\ e = Counts'
  OBVIOUS
<1>11. /\ \A m \in Peer : f[m] \in Int
       /\ \A m \in ns : e[m] = f[m] + 1
       /\ \A m \in Peer \ ns : e[m] = f[m]
  <2>1. \A m \in Peer : f[m] \in Int
    BY <1>10, MeshTypes
  <2>2. \A m \in ns : e[m] = f[m] + 1
    BY <1>2, <1>8, <1>10 DEF Counts
  <2>3. \A m \in Peer \ ns : e[m] = f[m]
    BY <1>6, <1>10 DEF Counts
  <2> QED BY <2>1, <2>2, <2>3
<1>12. Total(e, Peer) = Total(f, Peer) + k /\ Total(f, Peer) \in Int
  BY <1>2, <1>4, <1>11, VNodeAssumption, TotalMore, TotalType
<1>13. totalSent' = dropped' + Total(e, Peer) /\ totalSent' \in Nat /\ dropped' \in Nat
  <2>1. PICK r : r = Total(f, Peer)
    OBVIOUS
  <2>2. totalSent = dropped + r /\ totalSent \in Nat /\ dropped \in Nat
    BY <1>10, <2>1 DEF MeshInv
  <2> QED BY <1>2, <1>4, <1>12, <2>1, <2>2
<1> QED BY <1>5, <1>9, <1>10, <1>13 DEF MeshInv

LEMMA MeshKeeps == ASSUME MeshInv, MeshNext PROVE MeshInv'
BY RegisterKeeps, UnregisterKeeps, ReceiveKeeps, DeliverKeeps DEF MeshNext

LEMMA InitMeshInv == MeshInit => MeshInv
<1> SUFFICES ASSUME MeshInit PROVE MeshInv
  OBVIOUS
<1>1. Peers = {} /\ got = [n \in Peer |-> <<>>] /\ totalSent = 0 /\ dropped = 0
  BY DEF MeshInit, Peers
<1>2. inbox \in [Peers -> Seq(Nat)] /\ got \in [Peer -> Seq(Nat)]
  BY <1>1 DEF MeshInit
<1>3. \A n \in Peer : All[n] = <<>>
  <2>1. \A n \in Peer : got[n] = <<>> /\ Waiting(n) = <<>>
    BY <1>1 DEF Waiting
  <2>2. <<>> \o <<>> = <<>>
    OBVIOUS
  <2> QED BY <2>1, <2>2, Zenon DEF All
<1>4. \A n \in Peer : Ascending(All[n]) /\ ToSet(All[n]) = {} /\ Len(All[n]) = 0
  <2>1. Ascending(<<>>) /\ ToSet(<<>>) = {} /\ Len(<<>>) = 0
    BY SetOfEmpty DEF Ascending
  <2> QED BY <1>3, <2>1, Zenon
<1>5. Total(Counts, Peer) = 0
  <2>1. \A n \in Peer : Counts[n] = 0
    BY <1>4, Zenon DEF Counts
  <2>2. PICK f : f = Counts /\ \A n \in Peer : f[n] = 0
    BY <2>1, Zenon
  <2> QED BY <2>2, VNodeAssumption, TotalZero
<1> QED BY <1>1, <1>2, <1>4, <1>5 DEF MeshInv

LEMMA MeshIsExact == MeshInv => MeshAccounts
<1> SUFFICES ASSUME MeshInv PROVE MeshAccounts
  OBVIOUS
<1> DEFINE all(n) == got[n] \o (IF n \in Peers THEN inbox[n] ELSE <<>>)
<1>1. \A n \in Peer : all(n) = All[n]
  BY Zenon DEF All, Waiting
<1>2. [n \in Peer |-> Len(all(n))] = Counts
  BY <1>1 DEF Counts
<1>3. totalSent = dropped + SumFunctionOnSet([n \in Peer |-> Len(all(n))], Peer)
  BY <1>2 DEF MeshInv, Total
<1>4. \A n \in Peer : \A i, j \in DOMAIN all(n) : i < j => all(n)[i] < all(n)[j]
  <2>1. ASSUME NEW n \in Peer
        PROVE  \A i, j \in DOMAIN All[n] : i < j => All[n][i] < All[n][j]
    <3>1. PICK s : s = All[n] /\ Ascending(s)
      BY DEF MeshInv
    <3>2. \A i, j \in DOMAIN s : i < j => s[i] < s[j]
      BY <3>1 DEF Ascending
    <3> QED BY <3>1, <3>2, Zenon
  <2> QED BY <1>1, <2>1, Zenon
<1> QED BY <1>3, <1>4, Zenon DEF MeshAccounts

-----------------------------------------------------------------------------
(* The components together. *)

TableInv == TablesInv /\ IpcInv /\ LogInv
VNodeInv == BeatInv /\ RegInv /\ IdInv /\ MeshInv

SideInv ==
  /\ by = "services" => ServiceInv
  /\ by \in {"processes", "ipc", "log"} => TableInv
  /\ by \in {"heartbeat", "registry", "mesh", "identity"} => VNodeInv
  /\ by = "home" => HomeInv

LEMMA InitSideInv == SideInit => SideInv
<1> SUFFICES ASSUME SideInit PROVE ServiceInv /\ TableInv /\ VNodeInv /\ HomeInv
  BY DEF SideInv
<1>1. BeatInv
  <2>1. /\ beatOn = FALSE /\ beater = [b \in Beater |-> "new"] /\ lateBeats = [b \in Beater |-> 0]
        /\ beatCall = [b \in Beater |-> "no"] /\ beatThread = {}
    BY DEF SideInit, BeatInit
  <2>2. beatOn \in BOOLEAN /\ ~beatOn
    BY <2>1
  <2>3. \A b \in Beater : beater[b] = "new" /\ lateBeats[b] = 0
    BY <2>1
  <2>4. lateBeats \in [Beater -> Nat]
        /\ beater \in [Beater -> {"new", "made", "check", "beat", "sleep", "gone"}]
        /\ beatCall \in [Beater -> {"no", "make", "start", "over"}]
    BY <2>1
  <2> QED BY <2>1, <2>2, <2>3, <2>4 DEF BeatInv
<1>2. RegInv
  BY DEF SideInit, RegInit, RegInv, NoPost, Request
<1>3. IdInv
  BY VNodeAssumption DEF SideInit, IdInit, IdInv
<1>4. MeshInv
  BY InitMeshInv DEF SideInit
<1>5. HomeInv
  BY DEF SideInit, HomeInit, HomeInv, HomeTypeOK, PackagesAreThere
<1>6. ServiceInv
  <2>1. /\ state = [s \in Service |-> "none"] /\ up = [s \in Service |-> s \in NoopStart]
        /\ call = [t \in Thread |-> NoCall] /\ overlapped = {}
    BY DEF SideInit, SMInit
  <2>2. SMTypeOK
    BY <2>1 DEF SMTypeOK
  <2>3. \A t \in Thread : call[t] = NoCall /\ NoCall.on = NoService /\ NoCall.at = "idle"
    BY <2>1 DEF NoCall
  <2>4. \A s \in Service : state[s] = "none" /\ (s \notin NoopStart => ~up[s]) /\ s # NoService
    BY <2>1, ManagerAssumption
  <2> QED BY <2>2, <2>3, <2>4 DEF ServiceInv, OneCall, Truth, Knows
<1>7. TablesInv
  <2>1. /\ proc = [p \in Pid |-> "none"] /\ body = [p \in Pid |-> "none"]
        /\ killed = {} /\ secret = [k \in Secret |-> NoSecret]
    BY DEF SideInit, ProcInit, SecretInit
  <2> QED BY <2>1 DEF TablesInv, TablesTypeOK, KillIsFinal
<1>8. IpcInv
  <2>1. /\ channel = [c \in Channel |-> <<>>] /\ sends = 0
        /\ received = [c \in Channel |-> <<>>] /\ drained = {}
    BY DEF SideInit, IpcInit
  <2>2. channel \in [Channel -> Seq(Nat)] /\ received \in [Channel -> Seq(Nat)]
    BY <2>1
  <2>3. \A c \in Channel : channel[c] = <<>> /\ received[c] = <<>>
    BY <2>1
  <2>4. Ascending(<<>>) /\ ToSet(<<>>) = {}
    BY SetOfEmpty DEF Ascending
  <2>5. \A c \in Channel : Ascending(channel[c]) /\ Ascending(received[c])
    BY <2>3, <2>4, Zenon
  <2>6. \A c \in Channel : ToSet(channel[c]) = {} /\ ToSet(received[c]) = {}
    BY <2>3, <2>4, Zenon
  <2>7. \A c \in Channel : Queued[c] = {}
    BY <2>6 DEF Queued
  <2>8. Spread(drained, sends, Queued)
    BY <2>1, <2>7 DEF Spread
  <2> QED BY <2>1, <2>2, <2>5, <2>6, <2>8 DEF IpcInv
<1>9. LogInv
  <2>1. syslog = <<>> /\ logged = 0
    BY DEF SideInit, LogInit
  <2> QED BY <2>1, KernelTablesAssumption DEF LogInv, Entries
<1> QED BY <1>1, <1>2, <1>3, <1>4, <1>5, <1>6, <1>7, <1>8, <1>9 DEF VNodeInv, TableInv

LEMMA SystemLogKeeps == ASSUME TableInv, LogNext, UNCHANGED <<procVars, ipcVars>> PROVE TableInv'
<1>1. IpcInv'
  BY DEF ipcVars, TableInv, IpcInv, Queued
<1>2. ASSUME NEW level \in SysLevel, Log(level), UNCHANGED secret PROVE TableInv'
  <2>1. LogInv'
    BY <1>2, LogKeeps DEF TableInv
  <2>2. TablesInv'
    BY <1>2 DEF procVars, TableInv, TablesInv, TablesTypeOK, KillIsFinal
  <2> QED BY <1>1, <2>1, <2>2 DEF TableInv
<1>3. ASSUME UNCHANGED logVars, NEW k \in ValidKey, NEW v \in SecretValue \cup {NoSecret},
             secret' = [secret EXCEPT ![k] = v]
      PROVE  TableInv'
  <2>1. LogInv'
    BY <1>3 DEF logVars, TableInv, LogInv
  <2>2. TablesInv'
    BY <1>3, SecretsKeep DEF TableInv
  <2> QED BY <1>1, <2>1, <2>2 DEF TableInv
<1> QED BY <1>2, <1>3 DEF LogNext, SetSecret, DeleteSecret, RotateSecret

LEMMA SideKeeps == ASSUME SideInv, [SideNext]_sideVars PROVE SideInv'
<1>1. UNCHANGED beatVars => (BeatInv => BeatInv')
  BY DEF beatVars, BeatInv, Served, BeatAlive
<1>2. UNCHANGED regVars => (RegInv => RegInv')
  BY DEF regVars, RegInv
<1>3. UNCHANGED idVars => (IdInv => IdInv')
  BY DEF idVars, IdInv
<1>4. UNCHANGED meshVars => (MeshInv => MeshInv')
  <2> SUFFICES ASSUME UNCHANGED meshVars, MeshInv PROVE MeshInv'
    OBVIOUS
  <2>1. Peers' = Peers /\ (\A n \in Peer : All'[n] = All[n])
    BY DEF meshVars, Peers, All, Waiting
  <2> QED BY <2>1, SameAll DEF meshVars, MeshInv
<1>5. UNCHANGED homeVars => (HomeInv => HomeInv')
  BY DEF homeVars, startVars, HomeInv, HomeTypeOK, PackagesAreThere
<1>6. CASE Heartbeat /\ BeatNext
  BY <1>2, <1>3, <1>4, <1>6, BeatKeeps DEF Heartbeat, SideInv, VNodeInv
<1>7. CASE Registry /\ RegNext
  BY <1>1, <1>3, <1>4, <1>7, RegKeeps DEF Registry, SideInv, VNodeInv
<1>8. CASE Mesh /\ MeshNext
  BY <1>1, <1>2, <1>3, <1>8, MeshKeeps DEF Mesh, SideInv, VNodeInv
<1>9. CASE NodeId /\ IdNext
  BY <1>1, <1>2, <1>4, <1>9, IdKeeps DEF NodeId, SideInv, VNodeInv
<1>10. CASE Userland /\ HomeNext
  BY <1>10, HomeKeeps DEF Userland, SideInv
<1>11. CASE Services /\ SMNext
  BY <1>11, ServicesKeep DEF Services, SideInv
<1>12. UNCHANGED <<procVars, secret>> => (TablesInv => TablesInv')
  BY DEF procVars, TablesInv, TablesTypeOK, KillIsFinal
<1>13. UNCHANGED ipcVars => (IpcInv => IpcInv')
  BY DEF ipcVars, IpcInv, Queued
<1>14. UNCHANGED logVars => (LogInv => LogInv')
  BY DEF logVars, LogInv
<1>15. CASE Processes /\ ProcNext
  BY <1>13, <1>14, <1>15, ProcKeeps DEF Processes, SideInv, TableInv
<1>16. CASE Ipc /\ IpcNext
  BY <1>12, <1>14, <1>16, IpcKeeps DEF Ipc, SideInv, TableInv
<1>17. CASE SystemLog /\ LogNext
  BY <1>17, SystemLogKeeps DEF SystemLog, SideInv
<1>18. CASE UNCHANGED sideVars
  <2>1. UNCHANGED smVars => (ServiceInv => ServiceInv')
    BY DEF smVars, ServiceInv, SMTypeOK, OneCall, Truth, Knows
  <2>2. UNCHANGED tableVars => (TableInv => TableInv')
    BY <1>12, <1>13, <1>14 DEF tableVars, TableInv
  <2> QED BY <1>1, <1>2, <1>3, <1>4, <1>5, <1>18, <2>1, <2>2 DEF sideVars, vnodeVars, SideInv, VNodeInv
<1> QED BY <1>6, <1>7, <1>8, <1>9, <1>10, <1>11, <1>15, <1>16, <1>17, <1>18 DEF SideNext

\* A heartbeat that is shown as running has a thread or is about to get one,
\* and a stopped one sends at most one beat more; the flag of the registration
\* is right whenever no answer is missing and no request that timed out can
\* still be applied; a node keeps the id it has on disk; HOME that is offline
\* shows no process of before, and its packages are there, one that start()
\* has replaced excepted if it came while start() took it for absent
\* (HeartbeatService, VNodeRegistry, _load_or_create_node_id, HOMELayer).
THEOREM NodeAndHome == SideSpec => []NodeAndHomeKept
<1>1. SideInv => NodeAndHomeKept
  <2>1. VNodeInv => VNodeTypeOK
    BY DEF VNodeInv, BeatInv, RegInv, IdInv, MeshInv, VNodeTypeOK
  <2>2. VNodeInv => HeartbeatKept
    BY DEF VNodeInv, BeatInv, HeartbeatKept, Served
  <2>3. VNodeInv => RegistrationTrue
    BY DEF VNodeInv, RegInv, RegistrationTrue, NoPost
  <2>4. VNodeInv => NodeKeepsId
    BY DEF VNodeInv, IdInv, NodeKeepsId
  <2>5. HomeInv => HomeTypeOK /\ OfflineIsStopped /\ PackagesAreThere
    BY DEF HomeInv, OfflineIsStopped
  <2> QED BY <2>1, <2>2, <2>3, <2>4, <2>5 DEF SideInv, NodeAndHomeKept
<1> QED BY <1>1, InitSideInv, SideKeeps, PTL DEF SideSpec

\* The displayed state of a service is true unless calls on it overlapped; a
\* process that was killed stays stopped; messages of a channel arrive in the
\* order of sending and none is lost; the log holds the latest entries and a
\* query the latest of a level; every message of the mesh is accounted for
\* (ServiceManager, ProcessManager, IPCChannel, SyslogService, MeshBus).
THEOREM TablesTellTruth == SideSpec => []KernelTablesTrue
<1>1. SideInv => KernelTablesTrue
  <2>1. ServiceInv => SMTypeOK /\ StateIsTruth
    BY DEF ServiceInv, StateIsTruth, Truth
  <2>2. TableInv => TablesTypeOK /\ KillIsFinal /\ MessagesInOrder /\ LogIsSuffix
    BY IpcIsInOrder, LogIsLatest DEF TableInv, TablesInv
  <2>3. VNodeInv => MeshAccounts
    BY MeshIsExact DEF VNodeInv
  <2> QED BY <2>1, <2>2, <2>3 DEF SideInv, KernelTablesTrue
<1> QED BY <1>1, InitSideInv, SideKeeps, PTL DEF SideSpec
=============================================================================
