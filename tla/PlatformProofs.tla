--------------------------- MODULE PlatformProofs ---------------------------
(***************************************************************************)
(* Proofs about the components of MCPlatform, for any number of users,     *)
(* servers, requests, mirrors, publishers, watchers, lanes, workers, jobs  *)
(* and work items: what the network reaches (the server of the remote API, *)
(* the mirrors and the dashboard), what observes (event bus, audit log,    *)
(* collector, health monitor and hub), what carries work (lanes, worker    *)
(* pool, vGPU jobs, router, and the task scheduler with its resources) and *)
(* what is kept (files, packages, volumes, the store, plugins, the index   *)
(* and the assistant's history).                                           *)
(***************************************************************************)
EXTENDS MCPlatform, DataLemmas

-----------------------------------------------------------------------------
(* Mirrors.  What failover() listed is what it would list now, as long as  *)
(* nothing moved.                                                          *)

Best == {m \in mirrors \ Primary : status[m] = "online"}

MirrorInv ==
  /\ moves \in Nat /\ mirrors \subseteq Mirror /\ status \in [Mirror -> {"new", "online", "offline", "syncing"}]
  /\ failover \in [at : {"idle", "listed", "picked"}, listed : SUBSET Mirror,
                   pick : Mirror \cup {"none"}, since : Nat]
  /\ failover.since <= moves
  /\ failover.at # "idle" /\ failover.since = moves => failover.listed = Best
  /\ failover.at = "picked" =>
       /\ failover.pick \in failover.listed
       /\ \A m \in failover.listed : Priority[m] <= Priority[failover.pick]

LEMMA MirrorKeeps == ASSUME MirrorInv, MirrorNext PROVE MirrorInv'
<1>1. ASSUME NEW m \in Mirror, AddMirror(m) PROVE MirrorInv'
  BY <1>1 DEF AddMirror, MirrorInv
<1>2. ASSUME NEW m \in Mirror, RemoveMirror(m) PROVE MirrorInv'
  BY <1>2 DEF RemoveMirror, MirrorInv
<1>3. ASSUME NEW m \in Mirror, NEW s \in {"online", "offline", "syncing"}, SetStatus(m, s)
      PROVE  MirrorInv'
  BY <1>3 DEF SetStatus, MirrorInv
<1>4. CASE FailoverList
  BY <1>4 DEF FailoverList, MirrorInv, Best
<1>5. CASE FailoverPick
  BY <1>5 DEF FailoverPick, Pick, MirrorInv, Best
<1>6. CASE FailoverReturn
  BY <1>6 DEF FailoverReturn, NoFailover, MirrorInv, Best
<1> QED BY <1>1, <1>2, <1>3, <1>4, <1>5, <1>6 DEF MirrorNext

-----------------------------------------------------------------------------
(* The server of the remote API.  Who holds its lock is the one that waits *)
(* in stop(), and there is a server to wait for: a thread that is to run   *)
(* it is made by the one start() that is under way.                        *)

RemoteType ==
  /\ server \in 0..MaxStarts /\ serving \in [1..MaxStarts -> {"none", "made", "on", "ended", "freed"}]
  /\ caller \in [User -> {"idle", "threading", "waiting"}] /\ holder \in User \cup {"none"}
  /\ running \in BOOLEAN /\ asked \in {"no", "options", "handled", "sent"}
  /\ answered \in Nat /\ preflights \in Nat /\ counted \in Nat

Live == {n \in 1..MaxStarts : serving[n] \in {"made", "on", "ended"}}

RemoteInv ==
  /\ RemoteType
  /\ \A n, k \in Live : n = k
  /\ server > 0 => server \in Live
  /\ running => server > 0 /\ serving[server] # "ended" /\ holder = "none"
  /\ holder # "none" => server > 0 /\ caller[holder] = "waiting"
  /\ \A u \in User : caller[u] = "waiting" => holder = u
  /\ \A n \in Live : serving[n] # "ended" => n = server
  /\ server > 0 /\ serving[server] = "made" => \E u \in User : caller[u] = "threading"
  /\ \A u \in User : caller[u] = "threading" => server > 0 /\ serving[server] = "made"
  /\ \A u, v \in User : caller[u] = "threading" /\ caller[v] = "threading" => u = v
  /\ answered = preflights + counted + (IF asked = "sent" THEN 1 ELSE 0)

LEMMA RemoteKeeps == ASSUME RemoteInv, RemoteNext PROVE RemoteInv'
<1> USE WebAssumption DEF RemoteInv, RemoteType, Live
<1>1. ASSUME NEW r \in Routes, RegisterRoute(r) PROVE RemoteInv'
  BY <1>1 DEF RegisterRoute
<1>2. ASSUME NEW u \in User, StartServer(u) PROVE RemoteInv'
  BY <1>2 DEF StartServer
<1>3. ASSUME NEW u \in User, StartThread(u) PROVE RemoteInv'
  BY <1>3 DEF StartThread
<1>4. ASSUME NEW u \in User, StopServer(u) PROVE RemoteInv'
  BY <1>4 DEF StopServer
<1>5. ASSUME NEW u \in User, StopReturns(u) PROVE RemoteInv'
  BY <1>5 DEF StopReturns
<1>6. CASE ServerEnds
  BY <1>6 DEF ServerEnds
<1>7. ASSUME NEW n \in 1..MaxStarts, SocketFreed(n) PROVE RemoteInv'
  BY <1>7 DEF SocketFreed
<1>8. CASE TakeRequest
  BY <1>8 DEF TakeRequest
<1>9. CASE SendAnswer
  BY <1>9 DEF SendAnswer
<1>10. CASE IncrementCounter
  BY <1>10 DEF IncrementCounter
<1>11. CASE SendOptions
  <2>1. /\ asked = "options" /\ asked' = "no"
        /\ UNCHANGED <<routes, running, holder, caller, server, serving, counted>>
    BY <1>11 DEF SendOptions
  <2>2. CASE answered' = answered + 1 /\ preflights' = preflights + 1
    BY <2>1, <2>2
  <2>3. CASE UNCHANGED <<answered, preflights>>
    BY <2>1, <2>3
  <2> QED BY <1>11, <2>2, <2>3 DEF SendOptions
<1> QED BY <1>1, <1>2, <1>3, <1>4, <1>5, <1>6, <1>7, <1>8, <1>9, <1>10, <1>11 DEF RemoteNext

LEMMA RemoteIsSettled == RemoteInv => RemoteSettles
<1> SUFFICES ASSUME RemoteInv PROVE RemoteSettles
  OBVIOUS
<1> USE WebAssumption DEF RemoteInv, RemoteType, Live
<1>1. ASSUME NEW u \in User, caller[u] = "waiting"
      PROVE  serving[server] \in {"on", "ended"} \/ \E v \in User : caller[v] = "threading"
  BY <1>1
<1>2. running => server > 0 /\ ((\E u \in User : caller[u] = "threading") \/ serving[server] = "on")
  OBVIOUS
<1>3. \A n, k \in 1..MaxStarts : serving[n] \in {"made", "on", "ended"}
                                 /\ serving[k] \in {"made", "on", "ended"} => n = k
  OBVIOUS
<1> QED BY <1>1, <1>2, <1>3 DEF RemoteSettles

LEMMA ApiIsGuarded == ApiGuarded
<1> SUFFICES ASSUME NEW method \in {"GET", "POST", "OPTIONS"}, NEW path, NEW command,
                    NEW token \in BOOLEAN, NEW raises \in BOOLEAN,
                    NEW q, q = [method |-> method, path |-> path, command |-> command,
                                token |-> token, raises |-> raises]
             PROVE  /\ (AnswerTo(q) = <<401>>) = (~token /\ method # "OPTIONS")
                    /\ (~token \/ method = "OPTIONS") => AnswerTo(q) \in {<<401>>, <<200>>}
                    /\ token /\ Builtin(q) => AnswerTo(q) = <<200>>
  BY DEF ApiGuarded
<1>1. q.token = token /\ q.method = method
  OBVIOUS
<1>2. CASE method = "OPTIONS"
  BY <1>1, <1>2 DEF AnswerTo, Builtin
<1>3. CASE method # "OPTIONS" /\ ~token
  BY <1>1, <1>3 DEF AnswerTo, Respond
<1>4. CASE method # "OPTIONS" /\ token /\ Builtin(q)
  <2>1. Respond(q) = <<200>>
    BY <1>1, <1>4 DEF Respond
  <2>2. AnswerTo(q) = <<200>>
    BY <1>1, <1>4, <2>1 DEF AnswerTo
  <2> QED BY <1>4, <2>2
<1>5. CASE method # "OPTIONS" /\ token /\ ~Builtin(q)
  <2>1. \E x, y : Respond(q) \in {<<x, y>>, <<404>>}
    BY <1>1, <1>5 DEF Respond, Routed
  <2>2. Respond(q) # <<401>>
    BY <2>1
  <2>3. AnswerTo(q) = Respond(q)
    BY <1>1, <1>5 DEF AnswerTo
  <2> QED BY <2>2, <2>3, <1>5
<1> QED BY <1>2, <1>3, <1>4, <1>5

-----------------------------------------------------------------------------
(* Dashboard. *)

DashboardInv ==
  /\ guard \in {"open", "token", "closed"} /\ httpd \in BOOLEAN /\ shutting \in BOOLEAN
  /\ loop \in {"none", "made", "on", "ended"} /\ stopping \in [Stopper -> {"no", "idle", "waiting", "stopped"}]
  /\ visit \in [at : {"served", "done"}, q : SUBSET Request, code : Nat, task : SUBSET Task]
  /\ httpd <=> loop # "none"
  /\ visit.at # "done" => loop = "on"
  /\ StopSilences /\ AnswersTrue

LEMMA CodeTells ==
  ASSUME NEW q
  PROVE  /\ Code(q) \in Nat
         /\ Code(q) = 401 <=> ~Public(q) /\ ~Authorised(q.bearer)
         /\ Code(q) = 202 => ~Public(q) /\ Authorised(q.bearer)
<1>1. CASE Public(q)
  BY <1>1 DEF Code
<1>2. CASE ~Public(q) /\ ~Authorised(q.bearer)
  BY <1>2 DEF Code
<1>3. CASE ~Public(q) /\ Authorised(q.bearer)
  <2>1. Code(q) \in {200, 201, 202, 400, 404}
    BY <1>3 DEF Code
  <2> QED BY <1>3, <2>1
<1> QED BY <1>1, <1>2, <1>3

\* What an answer said stays true when nothing but the sets of tasks moves.
LEMMA AnswersStay ==
  ASSUME AnswersTrue, guard' = guard, (known \cup forgotten)' = known \cup forgotten,
         visit'.q = visit.q, visit'.code = visit.code, visit'.task = visit.task
  PROVE  AnswersTrue'
<1> SUFFICES ASSUME NEW q \in visit'.q
             PROVE  /\ (visit'.code = 401) = (guard' # "open" /\ ~Public(q) /\ (guard' = "closed" \/ ~q.bearer))
                    /\ visit'.code = 202 => visit'.task # {} /\ visit'.task \subseteq (known \cup forgotten)'
                    /\ visit'.task # {} => guard' = "open" \/ q.bearer
  BY DEF AnswersTrue
<1>1. /\ (visit.code = 401) = (guard # "open" /\ ~Public(q) /\ (guard = "closed" \/ ~q.bearer))
      /\ visit.code = 202 => visit.task # {} /\ visit.task \subseteq known \cup forgotten
      /\ visit.task # {} => guard = "open" \/ q.bearer
  BY DEF AnswersTrue
<1> QED BY <1>1

LEMMA HandleKeeps == ASSUME DashboardInv, NEW q \in Request, Handle(q) PROVE DashboardInv'
<1>1. PICK given \in SUBSET Task :
        /\ visit' = Visit(q, given)
        /\ Code(q) = 202 => given # {} /\ given \subseteq known'
        /\ given # {} => Code(q) = 202
  <2>1. CASE Code(q) = 202
    <3>1. PICK t \in Task : known' = known \cup {t} /\ visit' = Visit(q, {t})
      BY <2>1 DEF Handle
    <3> QED BY <2>1, <3>1
  <2>2. CASE Code(q) = 201
    BY <2>2 DEF Handle
  <2>3. CASE Code(q) # 202 /\ Code(q) # 201
    BY <2>3 DEF Handle
  <2> QED BY <2>1, <2>2, <2>3
<1>2. /\ loop = "on" /\ UNCHANGED <<guard, httpd, loop, shutting, stopping, forgotten>>
  BY DEF Handle, serverVars
<1>3. visit' \in [at : {"served", "done"}, q : SUBSET Request, code : Nat, task : SUBSET Task]
      /\ visit'.q = {q} /\ visit'.code = Code(q) /\ visit'.task = given
  BY <1>1, CodeTells DEF Visit
<1>4. ~Authorised(q.bearer) <=> guard # "open" /\ (guard = "closed" \/ ~q.bearer)
  BY DEF Authorised, DashboardInv
<1>5. AnswersTrue'
  <2>1. (visit'.code = 401) <=> guard' # "open" /\ ~Public(q) /\ (guard' = "closed" \/ ~q.bearer)
    BY <1>2, <1>3, <1>4, CodeTells
  <2>2. visit'.code = 202 => visit'.task # {} /\ visit'.task \subseteq known' \cup forgotten'
    BY <1>1, <1>3
  <2>3. visit'.task # {} => guard' = "open" \/ q.bearer
    BY <1>1, <1>2, <1>3, <1>4, CodeTells
  <2>4. ((visit'.code = 401) = (guard' # "open" /\ ~Public(q) /\ (guard' = "closed" \/ ~q.bearer)))
    BY <2>1, Zenon
  <2> QED BY <1>3, <2>2, <2>3, <2>4 DEF AnswersTrue
<1>6. StopSilences'
  BY <1>2 DEF DashboardInv, StopSilences
<1> QED BY <1>2, <1>3, <1>5, <1>6 DEF DashboardInv

LEMMA DashboardKeeps == ASSUME DashboardInv, DashboardNext PROVE DashboardInv'
<1>1. ASSUME UNCHANGED <<guard, visit, systemVars>> PROVE AnswersTrue'
  BY <1>1, AnswersStay DEF systemVars, DashboardInv
<1>2. CASE StartServing
  BY <1>1, <1>2 DEF StartServing, systemVars, DashboardInv, StopSilences
<1>3. CASE LoopBegins
  BY <1>1, <1>3 DEF LoopBegins, systemVars, DashboardInv, StopSilences
<1>4. CASE LoopEnds
  BY <1>1, <1>4 DEF LoopEnds, systemVars, DashboardInv, StopSilences
<1>5. ASSUME NEW s \in Stopper, StopServing(s) PROVE DashboardInv'
  BY <1>1, <1>5 DEF StopServing, systemVars, DashboardInv, StopSilences
<1>6. ASSUME NEW s \in Stopper, StopWaited(s) PROVE DashboardInv'
  BY <1>1, <1>6 DEF StopWaited, systemVars, DashboardInv, StopSilences
<1>7. CASE Reply
  <2>1. visit' \in [at : {"served", "done"}, q : SUBSET Request, code : Nat, task : SUBSET Task]
        /\ visit'.at = "done"
        /\ (visit'.q = {} \/ (visit'.q = visit.q /\ visit'.code = visit.code /\ visit'.task = visit.task))
    BY <1>7 DEF Reply, NoVisit, DashboardInv
  <2>2. AnswersTrue'
    <3>1. AnswersTrue /\ guard' = guard /\ known' = known /\ forgotten' = forgotten
      BY <1>7 DEF Reply, systemVars, DashboardInv
    <3>2. CASE visit'.q = {}
      BY <3>2, Zenon DEF AnswersTrue
    <3>3. CASE visit'.q = visit.q /\ visit'.code = visit.code /\ visit'.task = visit.task
      BY <3>1, <3>3, AnswersStay
    <3> QED BY <2>1, <3>2, <3>3
  <2> QED BY <1>7, <2>1, <2>2 DEF Reply, serverVars, DashboardInv, StopSilences
<1>8. ASSUME NEW t \in Task, TaskEvicted(t) PROVE DashboardInv'
  <2>1. AnswersTrue'
    <3>1. known' \cup forgotten' = known \cup forgotten
      BY <1>8 DEF TaskEvicted
    <3> QED BY <1>8, <3>1, AnswersStay DEF TaskEvicted, DashboardInv
  <2> QED BY <1>8, <2>1 DEF TaskEvicted, serverVars, DashboardInv, StopSilences
<1>9. ASSUME NEW n \in Node, NodeRemoved(n) PROVE DashboardInv'
  <2>1. AnswersTrue'
    BY <1>9, AnswersStay DEF NodeRemoved, DashboardInv
  <2> QED BY <1>9, <2>1 DEF NodeRemoved, serverVars, DashboardInv, StopSilences
<1>10. ASSUME NEW q \in Request, Handle(q) PROVE DashboardInv'
  BY <1>10, HandleKeeps
<1> QED BY <1>2, <1>3, <1>4, <1>5, <1>6, <1>7, <1>8, <1>9, <1>10 DEF DashboardNext

-----------------------------------------------------------------------------
(* The components together. *)

FrontInv ==
  /\ by = "remote" => RemoteInv
  /\ by = "mirrors" => MirrorInv
  /\ by = "dashboard" => DashboardInv

LEMMA InitFrontInv == PlatformInit => FrontInv
<1> SUFFICES ASSUME PlatformInit PROVE RemoteInv /\ MirrorInv /\ DashboardInv
  BY DEF FrontInv
<1>1. RemoteInv
  <2>1. /\ running = FALSE /\ holder = "none" /\ caller = [u \in User |-> "idle"]
        /\ server = 0 /\ serving = [n \in 1..MaxStarts |-> "none"]
        /\ asked = "no" /\ answered = 0 /\ preflights = 0 /\ counted = 0
    BY DEF PlatformInit, RemoteInit
  <2>2. RemoteType
    <3>1. serving \in [1..MaxStarts -> {"none", "made", "on", "ended", "freed"}]
      BY <2>1
    <3>2. caller \in [User -> {"idle", "threading", "waiting"}]
      BY <2>1
    <3>3. server \in 0..MaxStarts
      BY <2>1, WebAssumption
    <3>4. running \in BOOLEAN
      BY <2>1, Zenon
    <3>5. holder \in User \cup {"none"} /\ asked \in {"no", "options", "handled", "sent"}
          /\ answered \in Nat /\ preflights \in Nat /\ counted \in Nat
      BY <2>1
    <3> QED BY <3>1, <3>2, <3>3, <3>4, <3>5 DEF RemoteType
  <2>3. running \in BOOLEAN /\ ~running
    BY <2>1
  <2>4. (\A u \in User : caller[u] = "idle") /\ Live = {} /\ holder = "none" /\ server = 0
    BY <2>1 DEF Live
  <2>5. answered = preflights + counted + (IF asked = "sent" THEN 1 ELSE 0)
    BY <2>1
  <2> QED BY <2>2, <2>3, <2>4, <2>5 DEF RemoteInv
<1>2. MirrorInv
  <2>1. mirrors = {} /\ status = [m \in Mirror |-> "new"] /\ moves = 0 /\ failover = NoFailover
    BY DEF PlatformInit, MirrorInit
  <2> QED BY <2>1 DEF MirrorInv, NoFailover, Best
<1>3. DashboardInv
  <2>1. /\ guard \in {"open", "token", "closed"}
        /\ httpd = FALSE /\ loop = "none" /\ shutting = FALSE /\ stopping = [s \in Stopper |-> "no"]
        /\ visit = NoVisit
    BY DEF PlatformInit, DashboardInit
  <2>2. visit \in [at : {"served", "done"}, q : SUBSET Request, code : Nat, task : SUBSET Task]
        /\ visit.at = "done" /\ visit.q = {}
    BY <2>1 DEF NoVisit
  <2>3. StopSilences
    BY <2>1 DEF StopSilences
  <2>4. AnswersTrue
    BY <2>2 DEF AnswersTrue
  <2> QED BY <2>1, <2>2, <2>3, <2>4 DEF DashboardInv
<1> QED BY <1>1, <1>2, <1>3

LEMMA FrontKeeps == ASSUME FrontInv, PlatformNext PROVE FrontInv'
<1>1. by' = by
  BY DEF PlatformNext
<1>2. CASE by = "remote"
  <2>1. RemoteNext
    BY <1>2 DEF PlatformNext
  <2> QED BY <1>1, <1>2, <2>1, RemoteKeeps DEF FrontInv
<1>3. CASE by = "mirrors"
  <2>1. MirrorNext
    BY <1>3 DEF PlatformNext
  <2> QED BY <1>1, <1>3, <2>1, MirrorKeeps DEF FrontInv
<1>4. CASE by = "dashboard"
  <2>1. DashboardNext
    BY <1>4 DEF PlatformNext
  <2> QED BY <1>1, <1>4, <2>1, DashboardKeeps DEF FrontInv
<1> QED BY <1>1, <1>2, <1>3, <1>4 DEF FrontInv

LEMMA FrontsStay == ASSUME FrontInv, UNCHANGED <<webVars, by>> PROVE FrontInv'
<1>1. UNCHANGED remoteVars => (RemoteInv => RemoteInv')
  BY DEF remoteVars, RemoteInv, RemoteType, Live
<1>2. UNCHANGED mirrorVars => (MirrorInv => MirrorInv')
  BY DEF mirrorVars, MirrorInv, Best
<1>3. UNCHANGED dashboardVars => (DashboardInv => DashboardInv')
  BY DEF dashboardVars, DashboardInv, StopSilences, AnswersTrue
<1> QED BY <1>1, <1>2, <1>3 DEF FrontInv, webVars

\* The API answers nobody without the token; a stop() that waits has a server
\* to wait for, and two servers never listen; failover() takes the best mirror
\* there is unless one changes meanwhile; after stop() the dashboard serves
\* nobody, and its answers are true (WebAPI, RemoteControlServer, MirrorService,
\* VirtualServer).
THEOREM FrontsAreSound == PlatformSpec => []FrontsHold
<1>1. FrontInv => FrontsHold
  <2>1. MirrorInv => FailoverIsBest
    BY DEF MirrorInv, FailoverIsBest, Best
  <2> QED BY <2>1, ApiIsGuarded, RemoteIsSettled DEF FrontInv, FrontsHold, DashboardInv
<1>2. FrontInv /\ [PlatformNext]_<<schedVars, poolsVars, observerVars, fileVars, dispatchVars, keptVars, assistantVars, webVars, by>> => FrontInv'
  BY FrontKeeps, FrontsStay
<1> QED BY InitFrontInv, <1>1, <1>2, PTL DEF PlatformSpec

-----------------------------------------------------------------------------
(* Event bus.  A publisher that is not quiet has an event of its own, and   *)
(* what it has still to call completes what was called.                     *)

EventInv ==
  /\ subscribers \in Seq(Handler) /\ events \in Nat
  /\ publishing \in [Publisher -> [event : 0..events, left : Seq(Handler)]]
  /\ due \in Seq(Seq(Handler)) /\ called \in Seq(Seq(Handler)) /\ Len(due) = events /\ Len(called) = events
  /\ \A p, q \in Publisher : publishing[p].event = publishing[q].event /\ publishing[p].event > 0 => p = q
  /\ \A p \in Publisher : publishing[p].event = 0 => publishing[p] = Quiet
  /\ \A p \in Publisher : publishing[p].event > 0 =>
       due[publishing[p].event] = called[publishing[p].event] \o publishing[p].left
  /\ \A e \in 1..events : (\A p \in Publisher : publishing[p].event # e) => due[e] = called[e]

LEMMA MovedOn ==
  ASSUME NEW X, NEW s \in Seq(X), s # <<>>, NEW t \in Seq(X)
  PROVE  t \o s = Append(t, Head(s)) \o Tail(s) /\ Tail(s) \in Seq(X) /\ Append(t, Head(s)) \in Seq(X)
OBVIOUS

\* A round that ends with its next handler.
LEMMA CutShort ==
  ASSUME NEW X, NEW s \in Seq(X), s # <<>>, NEW t \in Seq(X), NEW d, d = Append(t, Head(s))
  PROVE  d \in Seq(X) /\ SubSeq(t \o s, 1, Len(d)) = d
<1>1. /\ d \in Seq(X) /\ Len(d) = Len(t) + 1 /\ d[Len(t) + 1] = s[1]
      /\ \A i \in 1..Len(t) : d[i] = t[i]
  OBVIOUS
<1>2. PICK u : u = t \o s
  OBVIOUS
<1>3. /\ u \in Seq(X) /\ Len(u) = Len(t) + Len(s) /\ Len(s) >= 1 /\ u[Len(t) + 1] = s[1]
      /\ \A i \in 1..Len(t) : u[i] = t[i]
  BY <1>2
<1>4. \A i \in 1..Len(d) : d[i] = u[i]
  BY <1>1, <1>3
<1>5. PICK v : v = SubSeq(u, 1, Len(d))
  OBVIOUS
<1>6. v \in Seq(X) /\ Len(v) = Len(d) /\ \A i \in 1..Len(d) : v[i] = u[i]
  BY <1>1, <1>3, <1>5
<1>7. v = d
  BY <1>1, <1>4, <1>6, SeqEqual
<1> QED BY <1>1, <1>2, <1>5, <1>7

LEMMA PublisherOwes ==
  ASSUME EventInv, NEW p \in Publisher, publishing[p].event \in 1..events
  PROVE  due[publishing[p].event] = called[publishing[p].event] \o publishing[p].left
<1>1. publishing[p].event > 0
  BY DEF EventInv
<1> QED BY <1>1, Zenon DEF EventInv

LEMMA EventKeeps == ASSUME EventInv, EventNext PROVE EventInv'
<1>1. ASSUME NEW h \in Handler, Subscribe(h) PROVE EventInv'
  <2>1. subscribers' \in Seq(Handler)
    BY <1>1 DEF Subscribe, EventInv
  <2> QED BY <1>1, <2>1 DEF Subscribe, EventInv
<1>2. ASSUME NEW h \in Handler, Unsubscribe(h) PROVE EventInv'
  <2>1. Kept(subscribers, Handler \ {h}) \in Seq(Handler \cap (Handler \ {h}))
    BY KeptType DEF EventInv
  <2>2. subscribers' \in Seq(Handler)
    BY <1>2, <2>1 DEF Unsubscribe
  <2> QED BY <1>2, <2>2 DEF Unsubscribe, EventInv
<1>3. ASSUME NEW p \in Publisher, Publish(p) PROVE EventInv'
  <2> DEFINE e == events + 1
  <2>1. /\ events \in Nat /\ events' = e /\ subscribers' = subscribers
        /\ publishing' = [publishing EXCEPT ![p] = [event |-> e, left |-> subscribers]]
        /\ due' = Append(due, subscribers) /\ called' = Append(called, <<>>)
        /\ publishing[p].event = 0
    BY <1>3 DEF Publish, EventInv, Quiet
  <2>2. subscribers \in Seq(Handler) /\ <<>> \in Seq(Handler)
        /\ due \in Seq(Seq(Handler)) /\ called \in Seq(Seq(Handler)) /\ Len(due) = events /\ Len(called) = events
    BY DEF EventInv
  <2>3. /\ due' \in Seq(Seq(Handler)) /\ Len(due') = e /\ due'[e] = subscribers
        /\ called' \in Seq(Seq(Handler)) /\ Len(called') = e /\ called'[e] = <<>>
        /\ \A i \in 1..events : due'[i] = due[i] /\ called'[i] = called[i]
    <3>1. PICK H : H = Seq(Handler)
      OBVIOUS
    <3>2. subscribers \in H /\ <<>> \in H /\ due \in Seq(H) /\ called \in Seq(H)
      BY <2>2, <3>1
    <3>3. /\ Append(due, subscribers) \in Seq(H) /\ Len(Append(due, subscribers)) = e
          /\ Append(due, subscribers)[e] = subscribers
          /\ \A i \in 1..events : Append(due, subscribers)[i] = due[i]
      BY <2>1, <2>2, <3>2
    <3>4. /\ Append(called, <<>>) \in Seq(H) /\ Len(Append(called, <<>>)) = e
          /\ Append(called, <<>>)[e] = <<>>
          /\ \A i \in 1..events : Append(called, <<>>)[i] = called[i]
      BY <2>1, <2>2, <3>2
    <3> QED BY <2>1, <3>1, <3>3, <3>4
  <2>4. publishing' \in [Publisher -> [event : 0..e, left : Seq(Handler)]]
    BY <2>1 DEF EventInv
  <2>5. /\ publishing'[p].event = e /\ publishing'[p].left = subscribers
        /\ \A q \in Publisher \ {p} : publishing'[q] = publishing[q] /\ publishing[q].event \in 0..events
    BY <2>1 DEF EventInv
  <2>6. subscribers = <<>> \o subscribers
    BY DEF EventInv
  <2>7. \A q \in Publisher : publishing'[q].event = 0 => publishing'[q] = Quiet
    BY <2>1, <2>5 DEF EventInv
  <2>8. \A q, r \in Publisher : publishing'[q].event = publishing'[r].event /\ publishing'[q].event > 0 => q = r
    BY <2>1, <2>5 DEF EventInv
  <2>9. \A q \in Publisher : publishing'[q].event > 0 =>
          due'[publishing'[q].event] = called'[publishing'[q].event] \o publishing'[q].left
    <3> SUFFICES ASSUME NEW q \in Publisher, publishing'[q].event > 0
                 PROVE  due'[publishing'[q].event] = called'[publishing'[q].event] \o publishing'[q].left
      OBVIOUS
    <3>0. publishing'[q].event > 0
      OBVIOUS
    <3>1. CASE q = p
      BY <2>3, <2>5, <2>6, <3>1
    <3>2. CASE q # p
      <4>1. publishing'[q] = publishing[q] /\ publishing[q].event \in 1..events
        BY <2>5, <3>2
      <4>2. due'[publishing[q].event] = due[publishing[q].event]
            /\ called'[publishing[q].event] = called[publishing[q].event]
        BY <2>3, <4>1
      <4>3. due[publishing[q].event] = called[publishing[q].event] \o publishing[q].left
        BY <3>0, <4>1 DEF EventInv
      <4> QED BY <4>1, <4>2, <4>3, Zenon
    <3> QED BY <3>1, <3>2
  <2>10. \A i \in 1..e : (\A q \in Publisher : publishing'[q].event # i) => due'[i] = called'[i]
    <3> SUFFICES ASSUME NEW i \in 1..e, \A q \in Publisher : publishing'[q].event # i
                 PROVE  due'[i] = called'[i]
      OBVIOUS
    <3>1. i # e /\ i \in 1..events
      BY <2>1, <2>5
    <3>2. \A q \in Publisher : publishing[q].event # i
      BY <2>1, <2>5, <3>1
    <3> QED BY <2>3, <3>1, <3>2 DEF EventInv
  <2>11. subscribers' \in Seq(Handler) /\ events' \in Nat
    BY <2>1, <2>2
  <2> HIDE DEF e
  <2> QED BY <2>1, <2>3, <2>4, <2>7, <2>8, <2>9, <2>10, <2>11 DEF EventInv
<1>4. ASSUME NEW p \in Publisher, CallHandler(p) PROVE EventInv'
  <2> DEFINE e == publishing[p].event
             s == publishing[p].left
  <2>1. s # <<>> /\ s \in Seq(Handler) /\ e \in 1..events /\ called[e] \in Seq(Handler)
    BY <1>4 DEF CallHandler, EventInv, Quiet
  <2>2. /\ called' = [called EXCEPT ![e] = Append(@, Head(s))]
        /\ publishing' = [publishing EXCEPT ![p].left = Tail(@)]
        /\ UNCHANGED <<subscribers, events, due>>
    BY <1>4 DEF CallHandler
  <2>3. called[e] \o s = Append(called[e], Head(s)) \o Tail(s) /\ Tail(s) \in Seq(Handler)
        /\ Append(called[e], Head(s)) \in Seq(Handler)
    BY <2>1, MovedOn
  <2>4. /\ called' \in Seq(Seq(Handler)) /\ Len(called') = events /\ called'[e] = Append(called[e], Head(s))
        /\ \A i \in (1..events) \ {e} : called'[i] = called[i]
    BY <2>1, <2>2, <2>3 DEF EventInv
  <2>5. /\ publishing'[p].event = e /\ publishing'[p].left = Tail(s)
        /\ \A q \in Publisher \ {p} : publishing'[q] = publishing[q]
        /\ publishing' \in [Publisher -> [event : 0..events, left : Seq(Handler)]]
    BY <2>1, <2>2, <2>3 DEF EventInv
  <2>6. \A q \in Publisher : publishing'[q].event = publishing[q].event
    BY <2>5
  <2>7. \A q \in Publisher : publishing'[q].event > 0 =>
          due'[publishing'[q].event] = called'[publishing'[q].event] \o publishing'[q].left
    <3> SUFFICES ASSUME NEW q \in Publisher, publishing'[q].event > 0
                 PROVE  due[publishing'[q].event] = called'[publishing'[q].event] \o publishing'[q].left
      BY <2>2
    <3>1. CASE q = p
      BY <2>1, <2>3, <2>4, <2>5, <3>1 DEF EventInv
    <3>2. CASE q # p
      <4>1. publishing'[q] = publishing[q] /\ publishing[q].event \in (1..events) \ {e}
        BY <2>1, <2>5, <3>2 DEF EventInv
      <4> QED BY <2>4, <4>1 DEF EventInv
    <3> QED BY <3>1, <3>2
  <2>8. \A i \in 1..events : (\A q \in Publisher : publishing'[q].event # i) => due[i] = called'[i]
    BY <2>4, <2>5, <2>6 DEF EventInv
  <2>9. \A q \in Publisher : publishing'[q].event = 0 => publishing'[q] = Quiet
    <3> SUFFICES ASSUME NEW q \in Publisher, publishing'[q].event = 0 PROVE publishing'[q] = Quiet
      OBVIOUS
    <3>1. q # p /\ publishing'[q] = publishing[q]
      BY <2>1, <2>5
    <3> QED BY <3>1 DEF EventInv
  <2>10. \A q, r \in Publisher : publishing'[q].event = publishing'[r].event /\ publishing'[q].event > 0 => q = r
    BY <2>6 DEF EventInv
  <2> HIDE DEF e, s
  <2> QED BY <2>2, <2>4, <2>5, <2>7, <2>8, <2>9, <2>10 DEF EventInv
<1>6. ASSUME NEW p \in Publisher, HandlerExits(p) PROVE EventInv'
  <2> DEFINE e == publishing[p].event
             s == publishing[p].left
             done == Append(called[e], Head(s))
  <2>1. s # <<>> /\ s \in Seq(Handler) /\ e \in 1..events /\ called[e] \in Seq(Handler)
    BY <1>6 DEF HandlerExits, EventInv, Quiet
  <2>2. /\ called' = [called EXCEPT ![e] = done] /\ due' = [due EXCEPT ![e] = SubSeq(@, 1, Len(done))]
        /\ publishing' = [publishing EXCEPT ![p].left = <<>>]
        /\ UNCHANGED <<subscribers, events>>
    BY <1>6 DEF HandlerExits
  <2>3. done \in Seq(Handler) /\ SubSeq(due[e], 1, Len(done)) = done
    <3>1. due[e] = called[e] \o s
      BY <2>1, PublisherOwes
    <3>2. done \in Seq(Handler) /\ SubSeq(called[e] \o s, 1, Len(done)) = done
      <4>1. PICK t, d : t = called[e] /\ d = done
        OBVIOUS
      <4>2. t \in Seq(Handler) /\ s \in Seq(Handler) /\ s # <<>> /\ d = Append(t, Head(s))
        BY <2>1, <4>1
      <4> HIDE DEF done, s, e
      <4>3. d \in Seq(Handler) /\ SubSeq(t \o s, 1, Len(d)) = d
        BY <4>2, CutShort
      <4> QED BY <4>1, <4>3
    <3> QED BY <3>1, <3>2
  <2> HIDE DEF done
  <2>4. /\ called' \in Seq(Seq(Handler)) /\ Len(called') = events /\ called'[e] = done
        /\ \A i \in (1..events) \ {e} : called'[i] = called[i]
    BY <2>1, <2>2, <2>3 DEF EventInv
  <2>5. /\ publishing'[p].event = e /\ publishing'[p].left = <<>>
        /\ \A q \in Publisher \ {p} : publishing'[q] = publishing[q]
        /\ publishing' \in [Publisher -> [event : 0..events, left : Seq(Handler)]]
    <3>1. <<>> \in Seq(Handler) /\ publishing \in [Publisher -> [event : 0..events, left : Seq(Handler)]]
      BY DEF EventInv
    <3>2. PICK R : R = Seq(Handler)
      OBVIOUS
    <3>3. <<>> \in R /\ publishing \in [Publisher -> [event : 0..events, left : R]]
      BY <3>1, <3>2
    <3> QED BY <2>2, <3>2, <3>3
  <2>11. /\ due' \in Seq(Seq(Handler)) /\ Len(due') = events /\ due'[e] = done
         /\ \A i \in (1..events) \ {e} : due'[i] = due[i]
    BY <2>1, <2>2, <2>3 DEF EventInv
  <2>6. \A q \in Publisher : publishing'[q].event = publishing[q].event
    BY <2>5
  <2>7. \A q \in Publisher : publishing'[q].event > 0 =>
          due'[publishing'[q].event] = called'[publishing'[q].event] \o publishing'[q].left
    <3> SUFFICES ASSUME NEW q \in Publisher, publishing'[q].event > 0
                 PROVE  due'[publishing'[q].event] = called'[publishing'[q].event] \o publishing'[q].left
      OBVIOUS
    <3>1. CASE q = p
      <4>1. done \o <<>> = done
        BY <2>3, ConcatEmptySeq
      <4> QED BY <2>4, <2>5, <2>11, <3>1, <4>1, Zenon
    <3>2. CASE q # p
      <4>1. publishing'[q] = publishing[q] /\ publishing[q].event \in (1..events) \ {e}
        BY <2>1, <2>5, <3>2 DEF EventInv
      <4>2. due[publishing[q].event] = called[publishing[q].event] \o publishing[q].left
        BY <4>1, PublisherOwes
      <4> QED BY <2>4, <2>11, <4>1, <4>2, Zenon
    <3> QED BY <3>1, <3>2
  <2>8. \A i \in 1..events : (\A q \in Publisher : publishing'[q].event # i) => due'[i] = called'[i]
    BY <2>4, <2>5, <2>6, <2>11 DEF EventInv
  <2>9. \A q \in Publisher : publishing'[q].event = 0 => publishing'[q] = Quiet
    <3> SUFFICES ASSUME NEW q \in Publisher, publishing'[q].event = 0 PROVE publishing'[q] = Quiet
      OBVIOUS
    <3>1. q # p /\ publishing'[q] = publishing[q]
      BY <2>1, <2>5
    <3> QED BY <3>1 DEF EventInv
  <2>10. \A q, r \in Publisher : publishing'[q].event = publishing'[r].event /\ publishing'[q].event > 0 => q = r
    BY <2>6 DEF EventInv
  <2> HIDE DEF e, s
  <2> QED BY <2>2, <2>11, <2>4, <2>5, <2>7, <2>8, <2>9, <2>10 DEF EventInv
<1>5. ASSUME NEW p \in Publisher, PublishEnds(p) PROVE EventInv'
  <2> DEFINE e == publishing[p].event
  <2>1. /\ e \in 1..events /\ publishing[p].left = <<>> /\ publishing' = [publishing EXCEPT ![p] = Quiet]
        /\ UNCHANGED <<subscribers, events, due, called>>
    BY <1>5 DEF PublishEnds, EventInv
  <2>2. due[e] = called[e]
    <3>1. due[e] = called[e] \o publishing[p].left
      BY <2>1, PublisherOwes
    <3>2. due[e] = called[e] \o <<>>
      BY <2>1, <3>1, Zenon
    <3>3. called[e] \in Seq(Handler)
      BY <2>1 DEF EventInv
    <3> QED BY <3>2, <3>3, ConcatEmptySeq
  <2>3. /\ publishing' \in [Publisher -> [event : 0..events, left : Seq(Handler)]]
        /\ publishing'[p] = Quiet /\ publishing'[p].event = 0
        /\ \A q \in Publisher \ {p} : publishing'[q] = publishing[q]
    BY <2>1 DEF EventInv, Quiet
  <2>4. \A i \in 1..events : (\A q \in Publisher : publishing'[q].event # i) => due[i] = called[i]
    <3> SUFFICES ASSUME NEW i \in 1..events, \A q \in Publisher : publishing'[q].event # i, i # e
                 PROVE  due[i] = called[i]
      BY <2>2
    <3>1. \A q \in Publisher : publishing[q].event # i
      BY <2>3
    <3> QED BY <3>1 DEF EventInv
  <2>5. \A q, r \in Publisher : publishing'[q].event = publishing'[r].event /\ publishing'[q].event > 0 => q = r
    <3>1. \A q, r \in Publisher : publishing[q].event = publishing[r].event /\ publishing[q].event > 0 => q = r
      BY DEF EventInv
    <3> QED BY <2>3, <3>1
  <2>6. \A q \in Publisher : publishing'[q].event > 0 =>
          due'[publishing'[q].event] = called'[publishing'[q].event] \o publishing'[q].left
    <3>1. ASSUME NEW q \in Publisher, publishing'[q].event > 0
          PROVE  due'[publishing'[q].event] = called'[publishing'[q].event] \o publishing'[q].left
      <4>1. publishing'[q] = publishing[q] /\ publishing[q].event \in 1..events
        BY <2>3, <3>1 DEF EventInv
      <4>2. due[publishing[q].event] = called[publishing[q].event] \o publishing[q].left
        BY <4>1, PublisherOwes
      <4> QED BY <2>1, <4>1, <4>2, Zenon
    <3> QED BY <3>1, Zenon
  <2>7. \A q \in Publisher : publishing'[q].event = 0 => publishing'[q] = Quiet
    <3> SUFFICES ASSUME NEW q \in Publisher, publishing'[q].event = 0, q # p PROVE publishing'[q] = Quiet
      BY <2>3
    <3>1. publishing'[q] = publishing[q]
      BY <2>3
    <3> QED BY <3>1 DEF EventInv
  <2> HIDE DEF e
  <2> QED BY <2>1, <2>3, <2>4, <2>5, <2>6, <2>7 DEF EventInv
<1> QED BY <1>1, <1>2, <1>3, <1>4, <1>5, <1>6 DEF EventNext

LEMMA EventsAreCalled == EventInv => EveryHandlerCalled
<1> SUFFICES ASSUME EventInv, NEW e \in 1..events, NEW at, at = {p \in Publisher : publishing[p].event = e}
             PROVE  due[e] = called[e] \o (IF at = {} THEN <<>> ELSE publishing[CHOOSE p \in at : TRUE].left)
  BY DEF EveryHandlerCalled
<1>1. CASE at = {}
  <2>1. due[e] = called[e] /\ called[e] \in Seq(Handler)
    BY <1>1 DEF EventInv
  <2>2. called[e] \o <<>> = called[e]
    BY <2>1, ConcatEmptySeq
  <2> QED BY <1>1, <2>1, <2>2, Zenon
<1>2. CASE at # {}
  <2>1. PICK p : p = CHOOSE q \in at : TRUE
    OBVIOUS
  <2>2. p \in Publisher /\ publishing[p].event = e
    BY <1>2, <2>1
  <2>3. due[publishing[p].event] = called[publishing[p].event] \o publishing[p].left
    BY <2>2, PublisherOwes
  <2>4. due[e] = called[e] \o publishing[p].left
    BY <2>2, <2>3, Zenon
  <2> QED BY <1>2, <2>1, <2>4, Zenon
<1> QED BY <1>1, <1>2

-----------------------------------------------------------------------------
(* Audit log. *)

Consecutive(s) == s \in Seq(Nat) /\ \A i \in 2..Len(s) : s[i] = s[i - 1] + 1

AuditInv ==
  /\ written \in Nat /\ Consecutive(audit)
  /\ Len(audit) = IF written < AuditMax THEN written ELSE AuditMax
  /\ \A i \in 1..Len(audit) : audit[i] = written - Len(audit) + i
  /\ flush \in [at : {"no", "copied", "open"}, copy : Seq(Nat)] /\ Consecutive(flush.copy)
  /\ Consecutive(file)
  /\ flush.at = "open" => Len(file) <= Len(flush.copy) /\ \A i \in 1..Len(file) : file[i] = flush.copy[i]

\* A list numbered up to k.
Numbered(s, k) == s \in Seq(Nat) /\ \A i \in 1..Len(s) : s[i] = k - Len(s) + i

LEMMA NumberedRun == ASSUME NEW s, NEW k \in Nat, Numbered(s, k) PROVE Consecutive(s)
<1>1. s \in Seq(Nat) /\ Len(s) \in Nat
  BY DEF Numbered
<1>2. ASSUME NEW i \in 2..Len(s) PROVE s[i] = s[i - 1] + 1
  <2>1. i \in 1..Len(s) /\ i - 1 \in 1..Len(s)
    BY <1>1
  <2>2. s[i] = k - Len(s) + i /\ s[i - 1] = k - Len(s) + (i - 1)
    BY <2>1 DEF Numbered
  <2> QED BY <1>1, <2>2
<1> QED BY <1>1, <1>2 DEF Consecutive

LEMMA NumberedAppend ==
  ASSUME NEW s, NEW k \in Nat, Numbered(s, k)
  PROVE  Numbered(Append(s, k + 1), k + 1) /\ Len(Append(s, k + 1)) = Len(s) + 1
<1> DEFINE es == Append(s, k + 1)
<1>1. s \in Seq(Nat) /\ Len(s) \in Nat
  BY DEF Numbered
<1>2. es \in Seq(Nat) /\ Len(es) = Len(s) + 1 /\ es[Len(s) + 1] = k + 1
      /\ \A i \in 1..Len(s) : es[i] = s[i]
  BY <1>1
<1> HIDE DEF es
<1>3. ASSUME NEW i \in 1..Len(es) PROVE es[i] = (k + 1) - Len(es) + i
  <2>1. CASE i = Len(s) + 1
    BY <1>1, <1>2, <2>1
  <2>2. CASE i # Len(s) + 1
    <3>1. i \in 1..Len(s)
      BY <1>1, <1>2, <2>2
    <3>2. es[i] = s[i] /\ s[i] = k - Len(s) + i
      BY <1>2, <3>1 DEF Numbered
    <3> QED BY <1>1, <1>2, <3>1, <3>2
  <2> QED BY <2>1, <2>2
<1>4. Numbered(es, k + 1) /\ Len(es) = Len(s) + 1
  BY <1>2, <1>3 DEF Numbered
<1> QED BY <1>4 DEF es

LEMMA NumberedTail ==
  ASSUME NEW s, NEW k \in Nat, Numbered(s, k), Len(s) > 0
  PROVE  Numbered(Tail(s), k) /\ Len(Tail(s)) = Len(s) - 1
<1>1. s \in Seq(Nat) /\ Len(s) \in Nat
  BY DEF Numbered
<1>2. PICK t : t = Tail(s)
  OBVIOUS
<1>3. t \in Seq(Nat) /\ Len(t) = Len(s) - 1 /\ \A i \in 1..Len(t) : t[i] = s[i + 1]
  BY <1>1, <1>2
<1>4. ASSUME NEW i \in 1..Len(t) PROVE t[i] = k - Len(t) + i
  <2>1. i + 1 \in 1..Len(s) /\ t[i] = s[i + 1]
    BY <1>1, <1>3
  <2>2. s[i + 1] = k - Len(s) + (i + 1)
    BY <2>1 DEF Numbered
  <2> QED BY <1>1, <1>3, <2>1, <2>2
<1> QED BY <1>2, <1>3, <1>4 DEF Numbered

LEMMA WriteKeeps == ASSUME AuditInv, WriteAudit PROVE AuditInv'
<1> DEFINE es == Append(audit, written + 1)
<1>1. /\ written' = written + 1 /\ UNCHANGED <<flush, file>>
      /\ audit' = IF Len(es) > AuditMax THEN Tail(es) ELSE es
  BY DEF WriteAudit
<1>2. /\ written \in Nat /\ Numbered(audit, written) /\ AuditMax \in Nat \ {0}
      /\ Len(audit) = (IF written < AuditMax THEN written ELSE AuditMax) /\ Len(audit) \in Nat
  BY ObserversAssumption DEF AuditInv, Consecutive, Numbered
<1>3. Numbered(es, written + 1) /\ Len(es) = Len(audit) + 1
  BY <1>2, NumberedAppend
<1> HIDE DEF es
<1>4. Len(es) > 0 /\ written + 1 \in Nat
  BY <1>2, <1>3
<1>5. Numbered(Tail(es), written + 1) /\ Len(Tail(es)) = Len(es) - 1
  BY <1>3, <1>4, NumberedTail
<1>6. Numbered(audit', written')
  BY <1>1, <1>3, <1>5
<1>7. Len(audit') = IF written' < AuditMax THEN written' ELSE AuditMax
  <2>1. CASE Len(es) > AuditMax
    <3>1. audit' = Tail(es)
      BY <1>1, <2>1
    <3>2. Len(audit') = Len(es) - 1
      BY <1>5, <3>1
    <3> QED BY <1>1, <1>2, <1>3, <2>1, <3>2
  <2>2. CASE ~(Len(es) > AuditMax)
    <3>1. audit' = es
      BY <1>1, <2>2
    <3>2. Len(audit') = Len(es)
      BY <3>1
    <3> QED BY <1>1, <1>2, <1>3, <2>2, <3>2
  <2> QED BY <2>1, <2>2
<1>8. written' \in Nat /\ Consecutive(audit')
  BY <1>1, <1>4, <1>6, NumberedRun
<1> QED BY <1>1, <1>6, <1>7, <1>8 DEF AuditInv, Numbered

LEMMA ConsecutiveAppend ==
  ASSUME NEW s, NEW x \in Nat, Consecutive(s), Len(s) > 0 => x = s[Len(s)] + 1
  PROVE  /\ Consecutive(Append(s, x)) /\ Len(Append(s, x)) = Len(s) + 1 /\ Append(s, x)[Len(s) + 1] = x
         /\ \A i \in 1..Len(s) : Append(s, x)[i] = s[i]
<1>1. s \in Seq(Nat) /\ Len(s) \in Nat /\ \A i \in 2..Len(s) : s[i] = s[i - 1] + 1
  BY DEF Consecutive
<1>2. PICK n : n = Len(s)
  OBVIOUS
<1>3. PICK t : t = Append(s, x)
  OBVIOUS
<1>4. t \in Seq(Nat) /\ Len(t) = n + 1 /\ t[n + 1] = x /\ \A i \in 1..n : t[i] = s[i]
  BY <1>1, <1>2, <1>3
<1>5. ASSUME NEW i \in 2..Len(t) PROVE t[i] = t[i - 1] + 1
  <2>1. n \in Nat /\ i \in 2..(n + 1)
    BY <1>1, <1>2, <1>4
  <2>2. i - 1 \in 1..n /\ t[i - 1] = s[i - 1]
    BY <1>4, <2>1
  <2>3. CASE i = n + 1
    <3>1. n > 0 /\ i - 1 = n
      BY <2>1, <2>3
    <3>2. x = s[n] + 1
      BY <1>2, <3>1
    <3> QED BY <1>4, <2>2, <2>3, <3>1, <3>2
  <2>4. CASE i # n + 1
    <3>1. i \in 2..n
      BY <2>1, <2>4
    <3>2. s[i] = s[i - 1] + 1
      BY <1>1, <1>2, <3>1
    <3>3. t[i] = s[i]
      BY <1>4, <3>1
    <3> QED BY <2>2, <3>2, <3>3
  <2> QED BY <2>3, <2>4
<1> QED BY <1>2, <1>3, <1>4, <1>5 DEF Consecutive

LEMMA LineKeeps == ASSUME AuditInv, FlushLine PROVE AuditInv'
<1>1. PICK n : n = Len(file)
  OBVIOUS
<1>2. PICK x : x = flush.copy[n + 1]
  OBVIOUS
<1>3. /\ Consecutive(file) /\ Consecutive(flush.copy) /\ n \in Nat /\ Len(flush.copy) \in Nat
      /\ flush.copy \in Seq(Nat)
  BY <1>1 DEF AuditInv, Consecutive
<1>4. /\ flush.at = "open" /\ n < Len(flush.copy) /\ file' = Append(file, x)
      /\ UNCHANGED <<audit, written, flush>> /\ \A i \in 1..n : file[i] = flush.copy[i]
  BY <1>1, <1>2 DEF FlushLine, AuditInv
<1>5. n + 1 \in 1..Len(flush.copy) /\ x \in Nat
  BY <1>2, <1>3, <1>4
<1>6. n > 0 => x = file[n] + 1
  <2>1. SUFFICES ASSUME n > 0 PROVE x = file[n] + 1
    OBVIOUS
  <2>2. n + 1 \in 2..Len(flush.copy) /\ n \in 1..n /\ (n + 1) - 1 = n
    BY <1>3, <1>5, <2>1
  <2>3. flush.copy[n + 1] = flush.copy[n] + 1
    BY <1>3, <2>2 DEF Consecutive
  <2> QED BY <1>2, <1>4, <2>2, <2>3
<1>7. /\ Consecutive(Append(file, x)) /\ Len(Append(file, x)) = n + 1 /\ Append(file, x)[n + 1] = x
      /\ \A i \in 1..n : Append(file, x)[i] = file[i]
  BY <1>1, <1>3, <1>5, <1>6, ConsecutiveAppend
<1>8. /\ Consecutive(file') /\ Len(file') = n + 1 /\ file'[n + 1] = x
      /\ \A i \in 1..n : file'[i] = file[i]
  BY <1>4, <1>7
<1>9. \A i \in 1..(n + 1) : file'[i] = flush.copy[i]
  <2> SUFFICES ASSUME NEW i \in 1..(n + 1) PROVE file'[i] = flush.copy[i]
    OBVIOUS
  <2>1. CASE i = n + 1
    BY <1>2, <1>8, <2>1
  <2>2. CASE i \in 1..n
    BY <1>4, <1>8, <2>2
  <2> QED BY <1>3, <2>1, <2>2
<1>10. n + 1 <= Len(flush.copy)
  BY <1>3, <1>4
<1> QED BY <1>4, <1>8, <1>9, <1>10 DEF AuditInv

LEMMA AuditKeeps == ASSUME AuditInv, AuditNext PROVE AuditInv'
<1>1. CASE FlushCopy
  BY <1>1 DEF FlushCopy, AuditInv, Consecutive
<1>2. CASE FlushOpen
  <2>1. Consecutive(<<>>)
    BY DEF Consecutive
  <2>2. /\ file' = <<>> /\ flush' = [flush EXCEPT !.at = "open"] /\ UNCHANGED <<audit, written>>
    BY <1>2 DEF FlushOpen
  <2>3. flush' \in [at : {"no", "copied", "open"}, copy : Seq(Nat)] /\ flush'.copy = flush.copy
    BY <2>2 DEF AuditInv
  <2>4. Len(file') = 0 /\ Len(flush'.copy) \in Nat
    BY <2>2, <2>3
  <2> QED BY <2>1, <2>2, <2>3, <2>4 DEF AuditInv
<1>3. CASE FlushDone
  BY <1>3 DEF FlushDone, AuditInv
<1>4. CASE FlushFails
  BY <1>4 DEF FlushFails, AuditInv
<1> QED BY <1>1, <1>2, <1>3, <1>4, WriteKeeps, LineKeeps DEF AuditNext

LEMMA AuditHolds == AuditInv => AuditIsSuffix
<1> SUFFICES ASSUME AuditInv PROVE AuditIsSuffix
  OBVIOUS
<1>1. flush.at = "open" => IsPrefix(file, flush.copy)
  BY DEF IsPrefix, AuditInv, Consecutive
<1>2. \A i \in DOMAIN file : i > 1 => file[i] = file[i - 1] + 1
  <2>1. file \in Seq(Nat) /\ \A i \in 2..Len(file) : file[i] = file[i - 1] + 1
    BY DEF AuditInv, Consecutive
  <2>2. Len(file) \in Nat /\ DOMAIN file = 1..Len(file)
    BY <2>1
  <2>3. ASSUME NEW i \in DOMAIN file, i > 1 PROVE file[i] = file[i - 1] + 1
    <3>1. i \in 2..Len(file)
      BY <2>2, <2>3
    <3> QED BY <2>1, <3>1
  <2> QED BY <2>3
<1>3. Len(audit) = IF written < AuditMax THEN written ELSE AuditMax
  BY DEF AuditInv
<1>4. \A i \in DOMAIN audit : audit[i] = written - Len(audit) + i
  <2>1. audit \in Seq(Nat) /\ DOMAIN audit = 1..Len(audit)
    BY DEF AuditInv, Consecutive
  <2> QED BY <2>1, Zenon DEF AuditInv
<1> QED BY <1>1, <1>2, <1>3, <1>4 DEF AuditIsSuffix

-----------------------------------------------------------------------------
(* Collector.  Only the thread the collector knows may be collecting. *)

CollectorInv ==
  /\ stopFlag \in BOOLEAN /\ current \in Collector \cup {"none"}
  /\ collector \in [Collector -> {"new", "look", "collect", "wait", "gone"}]
  /\ \A c \in Collector : Collecting(c) => c = current

LEMMA CollectorKeeps == ASSUME CollectorInv, CollectorNext PROVE CollectorInv'
<1> USE ObserversAssumption DEF CollectorInv, Collecting
<1>1. CASE CollectorStart
  BY <1>1 DEF CollectorStart
<1>2. CASE CollectorStop
  BY <1>2 DEF CollectorStop
<1>3. ASSUME NEW c \in Collector, Collect(c) PROVE CollectorInv'
  <2>1. PICK x \in {"gone", "collect", "wait", "look"} : collector' = [collector EXCEPT ![c] = x]
    BY <1>3 DEF Collect
  <2>2. UNCHANGED <<stopFlag, current>> /\ Collecting(c)
    BY <1>3 DEF Collect
  <2> QED BY <2>1, <2>2
<1> QED BY <1>1, <1>2, <1>3 DEF CollectorNext

LEMMA CollectorIsOne == CollectorInv => OneCollector
<1> SUFFICES ASSUME CollectorInv PROVE OneCollector
  OBVIOUS
<1>1. {c \in Collector : Collecting(c)} \subseteq {current}
  BY DEF CollectorInv
<1>2. IsFiniteSet({current}) /\ Cardinality({current}) = 1
  BY FS_Singleton
<1>3. Cardinality({c \in Collector : Collecting(c)}) <= 1
  BY <1>1, <1>2, FS_Subset
<1> QED BY <1>3 DEF OneCollector

LEMMA HealthIsByThreshold == HealthByThreshold
<1> DEFINE rank == [ok |-> 0, degraded |-> 1, critical |-> 2]
<1>1. rank["ok"] = 0 /\ rank["degraded"] = 1 /\ rank["critical"] = 2
  OBVIOUS
<1> HIDE DEF rank
<1>2. ASSUME NEW x \in 0..201, NEW y \in 0..201, x <= y
      PROVE  /\ rank[CheckCpu(x)] <= rank[CheckCpu(y)] /\ rank[CheckRam(x)] <= rank[CheckRam(y)]
             /\ (CheckCpu(y) = "critical") = (y >= 200) /\ (CheckRam(y) = "ok") = (y < 80)
             /\ CheckCloud(x) = "ok" => CheckCloud(y) = "ok"
  BY <1>1, <1>2 DEF CheckCpu, CheckRam, CheckCloud, Grade
<1> QED BY <1>2 DEF HealthByThreshold, rank

-----------------------------------------------------------------------------
(* Message hub. *)

HubInv ==
  /\ DOMAIN inbox = DOMAIN clients /\ sent \in Nat
  /\ addressed \in [Client -> Seq(Nat)] /\ got \in [Client -> Seq(Nat)]
  /\ inbox \in [DOMAIN clients -> Seq(Nat)]
  /\ \A c \in Client : /\ c \in DOMAIN inbox => addressed[c] = got[c] \o inbox[c]
                       /\ c \notin DOMAIN inbox => addressed[c] = got[c]

LEMMA NumbersConcatAppend ==
  \A s, t \in Seq(Nat), x \in Nat : Append(s \o t, x) = s \o Append(t, x)
<1>1. PICK S : S = Nat
  OBVIOUS
<1>2. ASSUME NEW s \in Seq(S), NEW t \in Seq(S), NEW x \in S
      PROVE  Append(s \o t, x) = s \o Append(t, x)
  OBVIOUS
<1> QED BY <1>1, <1>2, Zenon

LEMMA HubKeeps == ASSUME HubInv, HubNext PROVE HubInv'
<1>1. ASSUME NEW c \in Client, Connect(c) PROVE HubInv'
  <2>1. /\ clients' = With(clients, c, {}) /\ inbox' = With(inbox, c, <<>>) /\ sent' = sent
        /\ addressed' = [addressed EXCEPT ![c] = <<>>] /\ got' = [got EXCEPT ![c] = <<>>]
    BY <1>1 DEF Connect
  <2>2. DOMAIN clients' = DOMAIN clients \cup {c} /\ DOMAIN inbox' = DOMAIN clients'
    BY <2>1 DEF With, HubInv
  <2>3. /\ inbox' \in [DOMAIN clients' -> Seq(Nat)] /\ inbox'[c] = <<>>
        /\ \A d \in DOMAIN inbox \ {c} : inbox'[d] = inbox[d]
    BY <2>1, <2>2 DEF With, HubInv
  <2>4. /\ addressed' \in [Client -> Seq(Nat)] /\ got' \in [Client -> Seq(Nat)]
        /\ addressed'[c] = <<>> /\ got'[c] = <<>>
        /\ \A d \in Client \ {c} : addressed'[d] = addressed[d] /\ got'[d] = got[d]
    BY <2>1 DEF HubInv
  <2>5. <<>> \o <<>> = <<>>
    OBVIOUS
  <2>6. ASSUME NEW d \in Client
        PROVE  /\ d \in DOMAIN inbox' => addressed'[d] = got'[d] \o inbox'[d]
               /\ d \notin DOMAIN inbox' => addressed'[d] = got'[d]
    <3>1. CASE d = c
      BY <2>3, <2>4, <2>5, <3>1, Zenon
    <3>2. CASE d # c
      <4>1. addressed'[d] = addressed[d] /\ got'[d] = got[d] /\ (d \in DOMAIN inbox' <=> d \in DOMAIN inbox)
            /\ (d \in DOMAIN inbox => inbox'[d] = inbox[d])
        BY <2>2, <2>3, <2>4, <3>2 DEF HubInv
      <4>2. (d \in DOMAIN inbox => addressed[d] = got[d] \o inbox[d])
            /\ (d \notin DOMAIN inbox => addressed[d] = got[d])
        BY Zenon DEF HubInv
      <4> QED BY <4>1, <4>2, Zenon
    <3> QED BY <3>1, <3>2
  <2>7. sent' \in Nat
    BY <2>1 DEF HubInv
  <2> QED BY <2>2, <2>3, <2>4, <2>6, <2>7 DEF HubInv
<1>2. ASSUME NEW c \in Client, Disconnect(c) PROVE HubInv'
  <2>1. /\ clients' = Without(clients, c) /\ inbox' = Without(inbox, c) /\ sent' = sent
        /\ addressed' = [addressed EXCEPT ![c] = <<>>] /\ got' = [got EXCEPT ![c] = <<>>]
    BY <1>2 DEF Disconnect
  <2>2. DOMAIN clients' = DOMAIN clients \ {c} /\ DOMAIN inbox' = DOMAIN clients'
    BY <2>1 DEF Without, HubInv
  <2>3. /\ inbox' \in [DOMAIN clients' -> Seq(Nat)]
        /\ \A d \in DOMAIN inbox \ {c} : inbox'[d] = inbox[d]
    BY <2>1, <2>2 DEF Without, HubInv
  <2>4. /\ addressed' \in [Client -> Seq(Nat)] /\ got' \in [Client -> Seq(Nat)]
        /\ addressed'[c] = <<>> /\ got'[c] = <<>>
        /\ \A d \in Client \ {c} : addressed'[d] = addressed[d] /\ got'[d] = got[d]
    BY <2>1 DEF HubInv
  <2> QED BY <2>1, <2>2, <2>3, <2>4 DEF HubInv
<1>3. ASSUME NEW c \in Client, NEW t \in Topic, SubscribeTo(c, t) \/ UnsubscribeFrom(c, t) PROVE HubInv'
  <2>1. DOMAIN clients' = DOMAIN clients /\ UNCHANGED <<inbox, sent, addressed, got>>
    BY <1>3 DEF SubscribeTo, UnsubscribeFrom
  <2> QED BY <2>1 DEF HubInv
<1>4. ASSUME NEW to \in SUBSET DOMAIN clients, Deliver(to) PROVE HubInv'
  <2> DEFINE m == sent + 1
  <2>1. /\ sent' = m /\ m \in Nat /\ UNCHANGED <<clients, got>>
        /\ inbox' = [c \in DOMAIN inbox |-> IF c \in to THEN Append(inbox[c], m) ELSE inbox[c]]
        /\ addressed' = [c \in Client |-> IF c \in to THEN Append(addressed[c], m) ELSE addressed[c]]
    BY <1>4 DEF Deliver, HubInv
  <2>2. inbox \in [DOMAIN clients -> Seq(Nat)] /\ addressed \in [Client -> Seq(Nat)]
        /\ got \in [Client -> Seq(Nat)] /\ DOMAIN inbox = DOMAIN clients
    BY DEF HubInv
  <2> HIDE DEF m
  <2>3. inbox' \in [DOMAIN clients' -> Seq(Nat)] /\ addressed' \in [Client -> Seq(Nat)]
    BY <2>1, <2>2
  <2>4. ASSUME NEW c \in Client
        PROVE  /\ c \in DOMAIN inbox' => addressed'[c] = got'[c] \o inbox'[c]
               /\ c \notin DOMAIN inbox' => addressed'[c] = got'[c]
    <3>1. CASE c \in to
      <4>1. addressed[c] = got[c] \o inbox[c] /\ c \in DOMAIN inbox
        BY <2>2, <3>1 DEF HubInv
      <4>2. Append(got[c] \o inbox[c], m) = got[c] \o Append(inbox[c], m)
        <5>1. got[c] \in Seq(Nat) /\ inbox[c] \in Seq(Nat) /\ m \in Nat
          BY <2>1, <2>2, <4>1
        <5> QED BY <5>1, NumbersConcatAppend, Zenon
      <4>3. addressed'[c] = Append(addressed[c], m) /\ inbox'[c] = Append(inbox[c], m)
            /\ DOMAIN inbox' = DOMAIN inbox /\ got'[c] = got[c]
        BY <2>1, <3>1, <4>1
      <4> QED BY <4>1, <4>2, <4>3, Zenon
    <3>2. CASE c \notin to
      <4>1. addressed'[c] = addressed[c] /\ DOMAIN inbox' = DOMAIN inbox /\ got'[c] = got[c]
            /\ (c \in DOMAIN inbox => inbox'[c] = inbox[c])
        BY <2>1, <3>2
      <4>2. (c \in DOMAIN inbox => addressed[c] = got[c] \o inbox[c])
            /\ (c \notin DOMAIN inbox => addressed[c] = got[c])
        BY Zenon DEF HubInv
      <4> QED BY <4>1, <4>2, Zenon
    <3> QED BY <3>1, <3>2
  <2> QED BY <2>1, <2>2, <2>3, <2>4 DEF HubInv
<1>5. ASSUME NEW c \in Client, ReceiveFrom(c) PROVE HubInv'
  <2>1. /\ got' = [got EXCEPT ![c] = @ \o inbox[c]] /\ inbox' = [inbox EXCEPT ![c] = <<>>]
        /\ UNCHANGED <<clients, sent, addressed>> /\ c \in DOMAIN clients
    BY <1>5 DEF ReceiveFrom
  <2>2. inbox \in [DOMAIN clients -> Seq(Nat)] /\ addressed \in [Client -> Seq(Nat)]
        /\ got \in [Client -> Seq(Nat)] /\ DOMAIN inbox = DOMAIN clients
    BY DEF HubInv
  <2>3. got[c] \o inbox[c] \in Seq(Nat) /\ <<>> \in Seq(Nat) /\ addressed[c] = got[c] \o inbox[c]
    BY <2>1, <2>2 DEF HubInv
  <2>4. /\ got' \in [Client -> Seq(Nat)] /\ inbox' \in [DOMAIN clients' -> Seq(Nat)]
        /\ DOMAIN inbox' = DOMAIN clients' /\ inbox'[c] = <<>> /\ got'[c] = got[c] \o inbox[c]
        /\ \A d \in Client \ {c} : got'[d] = got[d] /\ (d \in DOMAIN inbox => inbox'[d] = inbox[d])
    BY <2>1, <2>2, <2>3
  <2>5. ASSUME NEW d \in Client
        PROVE  /\ d \in DOMAIN inbox' => addressed'[d] = got'[d] \o inbox'[d]
               /\ d \notin DOMAIN inbox' => addressed'[d] = got'[d]
    <3>1. CASE d = c
      <4>1. (got[c] \o inbox[c]) \o <<>> = got[c] \o inbox[c]
        BY <2>3, ConcatEmptySeq
      <4>2. d \in DOMAIN inbox' /\ addressed'[d] = addressed[c] /\ got'[d] = got[c] \o inbox[c] /\ inbox'[d] = <<>>
        BY <2>1, <2>2, <2>4, <3>1
      <4> QED BY <2>3, <4>1, <4>2, Zenon
    <3>2. CASE d # c
      <4>1. addressed'[d] = addressed[d] /\ DOMAIN inbox' = DOMAIN inbox /\ got'[d] = got[d]
            /\ (d \in DOMAIN inbox => inbox'[d] = inbox[d])
        BY <2>1, <2>2, <2>4, <3>2
      <4>2. (d \in DOMAIN inbox => addressed[d] = got[d] \o inbox[d])
            /\ (d \notin DOMAIN inbox => addressed[d] = got[d])
        BY Zenon DEF HubInv
      <4> QED BY <4>1, <4>2, Zenon
    <3> QED BY <3>1, <3>2
  <2> QED BY <2>1, <2>2, <2>4, <2>5 DEF HubInv
<1>6. ASSUME NEW c \in Client, SendTo(c) PROVE HubInv'
  <2>1. {c} \in SUBSET DOMAIN clients /\ Deliver({c})
    BY <1>6 DEF SendTo
  <2> QED BY <1>4, <2>1
<1>7. ASSUME NEW t \in Topic, Broadcast(t) PROVE HubInv'
  <2>1. {c \in DOMAIN clients : t \in clients[c]} \in SUBSET DOMAIN clients
    OBVIOUS
  <2> QED BY <1>4, <1>7, <2>1 DEF Broadcast
<1> QED BY <1>1, <1>2, <1>3, <1>5, <1>6, <1>7 DEF HubNext

LEMMA HubHolds == HubInv => HubDelivers
<1> SUFFICES ASSUME HubInv, NEW c \in Client
             PROVE  addressed[c] = got[c] \o (IF c \in DOMAIN inbox THEN inbox[c] ELSE <<>>)
  BY DEF HubInv, HubDelivers
<1>1. (c \in DOMAIN inbox => addressed[c] = got[c] \o inbox[c])
      /\ (c \notin DOMAIN inbox => addressed[c] = got[c])
  BY Zenon DEF HubInv
<1>2. got[c] \o <<>> = got[c]
  BY ConcatEmptySeq DEF HubInv
<1> QED BY <1>1, <1>2, Zenon

-----------------------------------------------------------------------------
(* What observes, together. *)

ToldInv ==
  /\ by = "events" => EventInv
  /\ by = "audit" => AuditInv
  /\ by = "collector" => CollectorInv
  /\ by = "hub" => HubInv

LEMMA InitToldInv == PlatformInit => ToldInv
<1> SUFFICES ASSUME PlatformInit PROVE EventInv /\ AuditInv /\ CollectorInv /\ HubInv
  BY DEF ToldInv
<1>1. EventInv
  <2>1. /\ subscribers = <<>> /\ publishing = [p \in Publisher |-> Quiet]
        /\ events = 0 /\ due = <<>> /\ called = <<>>
    BY DEF PlatformInit, EventInit
  <2>2. Quiet \in [event : 0..events, left : Seq(Handler)] /\ Quiet.event = 0
    BY <2>1 DEF Quiet
  <2>3. publishing \in [Publisher -> [event : 0..events, left : Seq(Handler)]]
    BY <2>1, <2>2, Zenon
  <2>4. \A p \in Publisher : publishing[p] = Quiet /\ publishing[p].event = 0
    BY <2>1, <2>2
  <2>5. due \in Seq(Seq(Handler)) /\ called \in Seq(Seq(Handler)) /\ Len(due) = events /\ Len(called) = events
    <3>1. PICK H : H = Seq(Handler)
      OBVIOUS
    <3>2. <<>> \in Seq(H) /\ Len(<<>>) = 0
      OBVIOUS
    <3> QED BY <2>1, <3>1, <3>2
  <2>6. subscribers \in Seq(Handler) /\ events \in Nat /\ \A e \in 1..events : FALSE
    BY <2>1
  <2>7. \A p \in Publisher : ~(publishing[p].event > 0)
    BY <2>4
  <2> QED BY <2>3, <2>4, <2>5, <2>6, <2>7, Zenon DEF EventInv
<1>2. AuditInv
  <2>1. audit = <<>> /\ written = 0 /\ file = <<>> /\ flush = [at |-> "no", copy |-> <<>>]
    BY DEF PlatformInit, AuditInit
  <2>2. Consecutive(<<>>)
    BY DEF Consecutive
  <2>3. flush \in [at : {"no", "copied", "open"}, copy : Seq(Nat)] /\ flush.copy = <<>>
    BY <2>1
  <2>4. AuditMax \in Nat \ {0}
    BY ObserversAssumption
  <2>5. Len(audit) = 0 /\ Len(file) = 0
    BY <2>1
  <2> QED BY <2>1, <2>2, <2>3, <2>4, <2>5 DEF AuditInv
<1>3. CollectorInv
  <2>1. stopFlag = FALSE /\ current = "none" /\ collector = [c \in Collector |-> "new"]
    BY DEF PlatformInit, CollectorInit
  <2>2. collector \in [Collector -> {"new", "look", "collect", "wait", "gone"}]
    BY <2>1
  <2>3. \A c \in Collector : ~Collecting(c)
    BY <2>1 DEF Collecting
  <2>4. stopFlag \in BOOLEAN
    BY <2>1, Zenon
  <2> QED BY <2>1, <2>2, <2>3, <2>4 DEF CollectorInv
<1>4. HubInv
  <2>1. /\ clients = << >> /\ inbox = << >> /\ sent = 0
        /\ addressed = [c \in Client |-> <<>>] /\ got = [c \in Client |-> <<>>]
    BY DEF PlatformInit, HubInit
  <2>2. DOMAIN clients = {} /\ DOMAIN inbox = {} /\ inbox \in [DOMAIN clients -> Seq(Nat)]
    BY <2>1
  <2>3. \A c \in Client : addressed[c] = <<>> /\ got[c] = <<>>
    BY <2>1, Zenon
  <2>4. addressed \in [Client -> Seq(Nat)] /\ got \in [Client -> Seq(Nat)]
    BY <2>1
  <2> QED BY <2>1, <2>2, <2>3, <2>4 DEF HubInv
<1> QED BY <1>1, <1>2, <1>3, <1>4

LEMMA ToldKeeps == ASSUME ToldInv, PlatformNext PROVE ToldInv'
<1>1. by' = by
  BY DEF PlatformNext
<1>2. CASE by = "events"
  <2>1. EventNext
    BY <1>2 DEF PlatformNext
  <2> QED BY <1>1, <1>2, <2>1, EventKeeps DEF ToldInv
<1>3. CASE by = "audit"
  <2>1. AuditNext
    BY <1>3 DEF PlatformNext
  <2> QED BY <1>1, <1>3, <2>1, AuditKeeps DEF ToldInv
<1>4. CASE by = "collector"
  <2>1. CollectorNext
    BY <1>4 DEF PlatformNext
  <2> QED BY <1>1, <1>4, <2>1, CollectorKeeps DEF ToldInv
<1>5. CASE by = "hub"
  <2>1. HubNext
    BY <1>5 DEF PlatformNext
  <2> QED BY <1>1, <1>5, <2>1, HubKeeps DEF ToldInv
<1> QED BY <1>1, <1>2, <1>3, <1>4, <1>5 DEF ToldInv

LEMMA ToldStays == ASSUME ToldInv, UNCHANGED <<observerVars, webVars, by>> PROVE ToldInv'
<1>1. EventInv => EventInv'
  BY Zenon DEF observerVars, busVars, EventInv
<1>2. AuditInv => AuditInv'
  BY DEF observerVars, auditVars, AuditInv, Consecutive
<1>3. CollectorInv => CollectorInv'
  BY DEF observerVars, collectorVars, CollectorInv, Collecting
<1>4. HubInv => HubInv'
  BY Zenon DEF webVars, hubVars, HubInv
<1> QED BY <1>1, <1>2, <1>3, <1>4 DEF ToldInv

\* Every subscriber of an event is called once and in order, the audit log and
\* its file are a run of the latest events, one collector runs at most, a grade
\* follows its thresholds, and a client gets its messages in order and whole
\* (EventBus.publish, AuditLog, MetricsCollector, HealthProbe, MessageHub).
THEOREM ObserversAreTold == PlatformSpec => []ObserversTold
<1>1. ToldInv => ObserversTold
  BY EventsAreCalled, AuditHolds, CollectorIsOne, HealthIsByThreshold, HubHolds DEF ToldInv, ObserversTold
<1>2. ToldInv /\ [PlatformNext]_<<schedVars, poolsVars, observerVars, fileVars, dispatchVars, keptVars, assistantVars, webVars, by>> => ToldInv'
  BY ToldKeeps, ToldStays
<1> QED BY InitToldInv, <1>1, <1>2, PTL DEF PlatformSpec

-----------------------------------------------------------------------------
(* Lanes.  What a lane gave out is older than what waits in it.            *)

Held == [l \in Lane |-> ToSet(popped[l]) \cup ToSet(lane[l])]

\* Each of the numbers up to n is among those withdrawn or in one lane.
Shared(w, n, held) ==
  /\ w \subseteq 1..n /\ \A l \in Lane : held[l] \subseteq 1..n
  /\ \A i \in 1..n : i \in w \/ \E l \in Lane : i \in held[l]
  /\ \A l \in Lane : w \cap held[l] = {}
  /\ \A l, m \in Lane : l # m => held[l] \cap held[m] = {}

LanesInv ==
  /\ pushed \in Nat /\ lane \in [Lane -> Seq(Nat)] /\ popped \in [Lane -> Seq(Nat)]
  /\ \A l \in Lane : Ascending(lane[l]) /\ Ascending(popped[l])
  /\ \A l \in Lane : \A x \in ToSet(popped[l]), y \in ToSet(lane[l]) : x < y
  /\ Shared(withdrawn, pushed, Held)

LEMMA SharedPush ==
  ASSUME NEW w, NEW n \in Nat, NEW held, Shared(w, n, held), NEW m, m = n + 1,
         NEW k \in Lane, NEW after, after[k] = held[k] \cup {m}, \A l \in Lane \ {k} : after[l] = held[l]
  PROVE  Shared(w, m, after)
<1>1. 1..m = (1..n) \cup {m} /\ m \notin 1..n
  OBVIOUS
<1>2. PICK I, J : I = 1..n /\ J = 1..m
  OBVIOUS
<1>3. J = I \cup {m} /\ m \notin I
  BY <1>1, <1>2
<1>4. /\ w \subseteq I /\ \A l \in Lane : held[l] \subseteq I
      /\ \A i \in I : i \in w \/ \E l \in Lane : i \in held[l]
      /\ \A l \in Lane : w \cap held[l] = {}
      /\ \A l, r \in Lane : l # r => held[l] \cap held[r] = {}
  BY <1>2 DEF Shared
<1>5. w \subseteq J /\ \A l \in Lane : after[l] \subseteq J
  BY <1>3, <1>4
<1>6. \A i \in J : i \in w \/ \E l \in Lane : i \in after[l]
  BY <1>3, <1>4
<1>7. \A l \in Lane : w \cap after[l] = {}
  BY <1>3, <1>4
<1>8. \A l, r \in Lane : l # r => after[l] \cap after[r] = {}
  BY <1>3, <1>4
<1> QED BY <1>2, <1>5, <1>6, <1>7, <1>8 DEF Shared

LEMMA SharedTake ==
  ASSUME NEW w, NEW n, NEW held, Shared(w, n, held), NEW k \in Lane, NEW r \in held[k],
         NEW after, after[k] = held[k] \ {r}, \A l \in Lane \ {k} : after[l] = held[l]
  PROVE  Shared(w \cup {r}, n, after)
<1>1. PICK I : I = 1..n
  OBVIOUS
<1>2. /\ w \subseteq I /\ \A l \in Lane : held[l] \subseteq I
      /\ \A i \in I : i \in w \/ \E l \in Lane : i \in held[l]
      /\ \A l \in Lane : w \cap held[l] = {}
      /\ \A l, m \in Lane : l # m => held[l] \cap held[m] = {}
  BY <1>1 DEF Shared
<1>3. \A l \in Lane : after[l] \subseteq held[l] \ {r}
  BY <1>2
<1>4. w \cup {r} \subseteq I /\ \A l \in Lane : after[l] \subseteq I
  BY <1>2, <1>3
<1>5. \A i \in I : i \in w \cup {r} \/ \E l \in Lane : i \in after[l]
  BY <1>2
<1>6. \A l \in Lane : (w \cup {r}) \cap after[l] = {}
  BY <1>2, <1>3
<1>7. \A l, m \in Lane : l # m => after[l] \cap after[m] = {}
  BY <1>2, <1>3
<1> QED BY <1>1, <1>4, <1>5, <1>6, <1>7 DEF Shared

LEMMA LaneOfType == ASSUME NEW p \in Int PROVE LaneOf(p) \in Lane
<1> DEFINE L == Lanes - 1
<1>1. L \in Nat
  BY PoolsAssumption
<1> HIDE DEF L
<1>2. Min({p, L}) \in {p, L} /\ Min({p, L}) <= p /\ Min({p, L}) <= L
  <2>1. \E x \in {p, L} : \A y \in {p, L} : x <= y
    <3>1. CASE p <= L
      BY <1>1, <3>1
    <3>2. CASE ~(p <= L)
      BY <1>1, <3>2
    <3> QED BY <3>1, <3>2
  <2> QED BY <2>1 DEF Min
<1>3. PICK m : m = Min({p, L})
  OBVIOUS
<1>4. m \in Int /\ m <= L
  BY <1>1, <1>2, <1>3
<1>5. Max({0, m}) \in {0, m} /\ Max({0, m}) >= 0 /\ Max({0, m}) >= m
  <2>1. \E x \in {0, m} : \A y \in {0, m} : x >= y
    <3>1. CASE m <= 0
      BY <1>4, <3>1
    <3>2. CASE ~(m <= 0)
      BY <1>4, <3>2
    <3> QED BY <3>1, <3>2
  <2> QED BY <2>1 DEF Max
<1>6. Max({0, m}) \in 0..L
  BY <1>1, <1>4, <1>5
<1> QED BY <1>3, <1>6 DEF LaneOf, Lane, L

LEMMA PushKeeps == ASSUME LanesInv, NEW p \in Ask, Push(p) PROVE LanesInv'
<1>1. PICK k \in Lane : k = LaneOf(p)
  BY LaneOfType, PoolsAssumption
<1>2. /\ pushed' = pushed + 1 /\ lane' = [lane EXCEPT ![k] = Append(@, pushed + 1)]
      /\ UNCHANGED <<popped, withdrawn>> /\ pushed \in Nat
  BY <1>1 DEF Push, LanesInv
<1>3. PICK n \in Nat : n = pushed + 1
  BY <1>2
<1>4. lane[k] \in Seq(Nat) /\ Append(lane[k], n) \in Seq(Nat)
  BY DEF LanesInv
<1>5. /\ lane' \in [Lane -> Seq(Nat)] /\ lane'[k] = Append(lane[k], n)
      /\ \A l \in Lane \ {k} : lane'[l] = lane[l]
  BY <1>2, <1>3, <1>4 DEF LanesInv
<1>6. ToSet(lane'[k]) = ToSet(lane[k]) \cup {n}
  BY <1>4, <1>5, SetOfAppend
<1>7. \A l \in Lane : \A x \in Held[l] : x \in 1..pushed /\ x < n
  <2>1. \A l \in Lane : Held[l] \subseteq 1..pushed
    BY DEF LanesInv, Shared
  <2> QED BY <1>2, <1>3, <2>1
<1>8. Ascending(lane'[k])
  <2>1. Ascending(lane[k]) /\ \A x \in ToSet(lane[k]) : x < n
    BY <1>7 DEF LanesInv, Held
  <2> QED BY <1>5, <2>1, AscendingAppend
<1>9. Held'[k] = Held[k] \cup {n} /\ \A l \in Lane \ {k} : Held'[l] = Held[l]
  BY <1>2, <1>5, <1>6 DEF Held
<1>10. \A l \in Lane : Ascending(lane'[l]) /\ Ascending(popped'[l])
  BY <1>2, <1>5, <1>8 DEF LanesInv
<1>11. ASSUME NEW l \in Lane, NEW x \in ToSet(popped'[l]), NEW y \in ToSet(lane'[l]) PROVE x < y
  BY <1>2, <1>5, <1>6, <1>7 DEF LanesInv, Held
<1>12. pushed' \in Nat /\ popped' \in [Lane -> Seq(Nat)]
  BY <1>2 DEF LanesInv
<1>13. Shared(withdrawn', pushed', Held')
  <2>1. Shared(withdrawn, n, Held')
    <3>1. PICK h, a : h = Held /\ a = Held'
      OBVIOUS
    <3>2. Shared(withdrawn, pushed, h) /\ a[k] = h[k] \cup {n} /\ \A l \in Lane \ {k} : a[l] = h[l]
      BY <1>9, <3>1 DEF LanesInv
    <3> QED BY <1>2, <1>3, <3>1, <3>2, SharedPush
  <2> QED BY <1>2, <1>3, <2>1
<1> QED BY <1>5, <1>10, <1>11, <1>12, <1>13 DEF LanesInv

LEMMA PopKeeps == ASSUME LanesInv, Pop PROVE LanesInv'
<1>1. PICK k \in Lane : /\ lane[k] # <<>> /\ lane' = [lane EXCEPT ![k] = Tail(@)]
                        /\ popped' = [popped EXCEPT ![k] = Append(@, Head(lane[k]))]
                        /\ UNCHANGED <<pushed, withdrawn>>
  BY DEF Pop
<1>2. Ascending(lane[k]) /\ Ascending(popped[k]) /\ lane[k] \in Seq(Nat) /\ popped[k] \in Seq(Nat)
  BY DEF LanesInv
<1>3. PICK h : h = Head(lane[k])
  OBVIOUS
<1>4. Ascending(Tail(lane[k])) /\ h \in Nat /\ \A y \in ToSet(Tail(lane[k])) : h < y
  BY <1>1, <1>2, <1>3, AscendingTail
<1>5. ToSet(lane[k]) = {h} \cup ToSet(Tail(lane[k])) /\ Tail(lane[k]) \in Seq(Nat)
  <2>1. Tail(lane[k]) \in Seq(Nat)
    BY <1>4 DEF Ascending
  <2> QED BY <1>1, <1>2, <1>3, <2>1, SetOfTail
<1>6. ToSet(Append(popped[k], h)) = ToSet(popped[k]) \cup {h} /\ Append(popped[k], h) \in Seq(Nat)
  BY <1>2, <1>4, SetOfAppend
<1>7. Ascending(Append(popped[k], h))
  <2>1. \A x \in ToSet(popped[k]) : x < h
    BY <1>5 DEF LanesInv
  <2> QED BY <1>2, <1>4, <2>1, AscendingAppend
<1>8. /\ lane' \in [Lane -> Seq(Nat)] /\ popped' \in [Lane -> Seq(Nat)]
      /\ lane'[k] = Tail(lane[k]) /\ popped'[k] = Append(popped[k], h)
      /\ \A l \in Lane \ {k} : lane'[l] = lane[l] /\ popped'[l] = popped[l]
  BY <1>1, <1>3, <1>5, <1>6 DEF LanesInv
<1>9. \A l \in Lane : Ascending(lane'[l]) /\ Ascending(popped'[l])
  BY <1>4, <1>7, <1>8 DEF LanesInv
<1>10. ASSUME NEW l \in Lane, NEW x \in ToSet(popped'[l]), NEW y \in ToSet(lane'[l]) PROVE x < y
  BY <1>4, <1>5, <1>6, <1>8 DEF LanesInv
<1>11. Held' = Held
  <2>1. \A l \in Lane : ToSet(popped'[l]) \cup ToSet(lane'[l]) = ToSet(popped[l]) \cup ToSet(lane[l])
    BY <1>5, <1>6, <1>8
  <2> QED BY <2>1 DEF Held
<1> QED BY <1>1, <1>8, <1>9, <1>10, <1>11 DEF LanesInv

LEMMA WithdrawHolds == ASSUME LanesInv, NEW r \in 1..MaxPushed, Withdraw(r) PROVE LanesInv'
<1>1. PICK k \in Lane : /\ r \in ToSet(lane[k]) /\ lane' = [lane EXCEPT ![k] = Kept(@, (1..pushed) \ {r})]
                        /\ withdrawn' = withdrawn \cup {r} /\ UNCHANGED <<pushed, popped>>
  BY DEF Withdraw
<1>2. PICK s : s = Kept(lane[k], (1..pushed) \ {r})
  OBVIOUS
<1>3. Ascending(lane[k]) /\ lane[k] \in Seq(Nat) /\ ToSet(lane[k]) \subseteq 1..pushed
  BY DEF LanesInv, Held, Shared
<1>4. Ascending(s) /\ s \in Seq(Nat)
  BY <1>2, <1>3, AscendingKept DEF Ascending
<1>5. ToSet(s) = ToSet(lane[k]) \ {r}
  <2>1. ToSet(s) = ToSet(lane[k]) \cap ((1..pushed) \ {r})
    BY <1>2, <1>3, KeptSet
  <2> QED BY <1>3, <2>1
<1>6. /\ lane' \in [Lane -> Seq(Nat)] /\ lane'[k] = s /\ \A l \in Lane \ {k} : lane'[l] = lane[l]
  BY <1>1, <1>2, <1>4 DEF LanesInv
<1>7. r \notin ToSet(popped[k])
  <2> SUFFICES ASSUME r \in ToSet(popped[k]) PROVE FALSE
    OBVIOUS
  <2> QED BY <1>1 DEF LanesInv
<1>8. Held'[k] = Held[k] \ {r} /\ (\A l \in Lane \ {k} : Held'[l] = Held[l]) /\ r \in Held[k]
  BY <1>1, <1>5, <1>6, <1>7 DEF Held
<1>9. \A l \in Lane : Ascending(lane'[l]) /\ Ascending(popped'[l])
  BY <1>1, <1>4, <1>6 DEF LanesInv
<1>10. ASSUME NEW l \in Lane, NEW x \in ToSet(popped'[l]), NEW y \in ToSet(lane'[l]) PROVE x < y
  BY <1>1, <1>5, <1>6 DEF LanesInv
<1>11. Shared(withdrawn', pushed', Held')
  <2>1. PICK h, a : h = Held /\ a = Held'
    OBVIOUS
  <2>2. Shared(withdrawn, pushed, h) /\ a[k] = h[k] \ {r} /\ (\A l \in Lane \ {k} : a[l] = h[l]) /\ r \in h[k]
    BY <1>8, <2>1 DEF LanesInv
  <2>3. Shared(withdrawn \cup {r}, pushed, a)
    BY <2>2, SharedTake
  <2> QED BY <1>1, <2>1, <2>3
<1>12. pushed' \in Nat /\ popped' \in [Lane -> Seq(Nat)]
  BY <1>1 DEF LanesInv
<1> QED BY <1>6, <1>9, <1>10, <1>11, <1>12 DEF LanesInv

LEMMA LanesAreFifo == LanesInv => LanesFifo
<1> SUFFICES ASSUME LanesInv PROVE LanesFifo
  OBVIOUS
<1>1. ASSUME NEW l \in Lane
      PROVE  Ascending(popped[l] \o lane[l]) /\ ToSet(popped[l] \o lane[l]) = Held[l]
  <2>1. Ascending(popped[l]) /\ Ascending(lane[l]) /\ \A x \in ToSet(popped[l]), y \in ToSet(lane[l]) : x < y
    BY DEF LanesInv
  <2>2. popped[l] \in Seq(Nat) /\ lane[l] \in Seq(Nat)
    BY <2>1 DEF Ascending
  <2>3. Ascending(popped[l] \o lane[l])
    BY <2>1, AscendingConcat
  <2>4. ToSet(popped[l] \o lane[l]) = ToSet(popped[l]) \cup ToSet(lane[l])
    <3>1. PICK N, a, b : N = Nat /\ a = popped[l] /\ b = lane[l]
      OBVIOUS
    <3>2. a \in Seq(N) /\ b \in Seq(N)
      BY <2>2, <3>1
    <3>3. ToSet(a \o b) = ToSet(a) \cup ToSet(b)
      BY <3>2, SetOfConcat
    <3> QED BY <3>1, <3>3, Zenon
  <2> QED BY <2>3, <2>4 DEF Held
<1>2. ASSUME NEW l \in Lane, NEW i \in DOMAIN (popped[l] \o lane[l]), NEW j \in DOMAIN (popped[l] \o lane[l]), i < j
      PROVE  (popped[l] \o lane[l])[i] < (popped[l] \o lane[l])[j]
  <2>1. PICK s : s = popped[l] \o lane[l]
    OBVIOUS
  <2>2. Ascending(s)
    BY <1>1, <2>1
  <2>3. i \in DOMAIN s /\ j \in DOMAIN s /\ DOMAIN s = 1..Len(s)
    <3>1. s \in Seq(Nat)
      BY <2>2 DEF Ascending
    <3>2. DOMAIN s = 1..Len(s)
      BY <3>1
    <3> QED BY <2>1, <3>2, Zenon
  <2>4. s[i] < s[j]
    BY <1>2, <2>2, <2>3 DEF Ascending
  <2> QED BY <2>1, <2>4
<1>3. Shared(withdrawn, pushed, Held)
  BY DEF LanesInv
<1>4. withdrawn \cup UNION {ToSet(popped[l] \o lane[l]) : l \in Lane} = 1..pushed
  <2>1. \A l \in Lane : ToSet(popped[l] \o lane[l]) = Held[l]
    BY <1>1
  <2>2. UNION {ToSet(popped[l] \o lane[l]) : l \in Lane} = UNION {Held[l] : l \in Lane}
    BY <2>1
  <2>3. withdrawn \cup UNION {Held[l] : l \in Lane} = 1..pushed
    <3>1. PICK h, I : h = Held /\ I = 1..pushed
      OBVIOUS
    <3>2. /\ withdrawn \subseteq I /\ \A l \in Lane : h[l] \subseteq I
          /\ \A i \in I : i \in withdrawn \/ \E l \in Lane : i \in h[l]
      BY <1>3, <3>1 DEF Shared
    <3>3. withdrawn \cup UNION {h[l] : l \in Lane} = I
      BY <3>2
    <3> QED BY <3>1, <3>3
  <2> QED BY <2>2, <2>3
<1>5. \A l \in Lane : withdrawn \cap ToSet(popped[l] \o lane[l]) = {}
  BY <1>1, <1>3 DEF Shared
<1>6. \A l, m \in Lane : l # m => ToSet(popped[l] \o lane[l]) \cap ToSet(popped[m] \o lane[m]) = {}
  BY <1>1, <1>3 DEF Shared
<1> QED BY <1>2, <1>4, <1>5, <1>6, Zenon DEF LanesFifo

-----------------------------------------------------------------------------
(* Pool. *)

Pills(s) == Len(Kept(s, {"pill"}))

Level == idle + busy + poolDied - Pills(work)

\* What the flag, the threads and the list of workers are while the only call
\* is at this place.
Fits(at, n, on, level, size) ==
  /\ at = "no"    => level = (IF on THEN Workers ELSE 0) /\ size = level
  /\ at = "raise" => ~on /\ level = 0 /\ size = 0
  /\ at = "make"  => on /\ n > 0 /\ level = Workers - n /\ size = Workers - n
  /\ at = "list"  => on /\ n > 0 /\ level = Workers - n + 1 /\ size = Workers - n
  /\ at = "lower" => on /\ level = Workers /\ size = Workers
  /\ at = "put"   => ~on /\ n <= Workers /\ level = Workers - n /\ size = Workers
  /\ at = "join"  => ~on /\ level = 0

PoolTypes ==
  /\ poolOn \in BOOLEAN /\ strayed \in BOOLEAN /\ work \in Seq({"item", "pill"})
  /\ idle \in Nat /\ busy \in Nat /\ poolDied \in Nat /\ crew \in Nat
  /\ poolCall \in [PoolCaller -> [at : {"no", "raise", "make", "list", "lower", "put", "join"}, n : Nat]]
  /\ \A c \in PoolCaller : poolCall[c].at \in {"make", "list"} => poolCall[c].n > 0

PoolInv ==
  /\ PoolTypes
  /\ ~strayed /\ (\A c \in PoolCaller : ~InCall(c)) => Fits("no", 0, poolOn, Level, crew)
  /\ ~strayed => \A c \in PoolCaller : InCall(c) =>
       /\ Fits(poolCall[c].at, poolCall[c].n, poolOn, Level, crew)
       /\ \A d \in PoolCaller : d # c => ~InCall(d)

LEMMA PillsTaken ==
  ASSUME NEW s, s \in Seq({"item", "pill"}), s # <<>>
  PROVE  /\ Tail(s) \in Seq({"item", "pill"}) /\ Pills(s) \in Nat
         /\ Pills(s) = Pills(Tail(s)) + (IF Head(s) = "pill" THEN 1 ELSE 0)
<1>1. PICK X : X = {"item", "pill"}
  OBVIOUS
<1>2. s \in Seq(X) /\ Tail(s) \in Seq(X)
  BY <1>1
<1>3. Len(Kept(s, {"pill"})) = Len(Kept(Tail(s), {"pill"})) + (IF Head(s) \in {"pill"} THEN 1 ELSE 0)
  BY <1>2, KeptTail
<1>4. Kept(s, {"pill"}) \in Seq(X \cap {"pill"})
  BY <1>2, KeptType
<1> QED BY <1>1, <1>2, <1>3, <1>4 DEF Pills

LEMMA LevelInt == ASSUME PoolTypes PROVE Level \in Int /\ Pills(work) \in Nat
<1>1. PICK X : X = {"item", "pill"}
  OBVIOUS
<1>2. Kept(work, {"pill"}) \in Seq(X \cap {"pill"})
  BY <1>1, KeptType DEF PoolTypes
<1>3. Pills(work) \in Nat
  BY <1>2 DEF Pills
<1> QED BY <1>3 DEF Level, PoolTypes

\* What is put at the end counts as a pill if it is one.
LEMMA PillsPutIn ==
  ASSUME NEW s \in Seq({"item", "pill"}), NEW x \in {"item", "pill"}
  PROVE  /\ Append(s, x) \in Seq({"item", "pill"})
         /\ Pills(Append(s, x)) = Pills(s) + (IF x = "pill" THEN 1 ELSE 0)
<1>1. PICK X : X = {"item", "pill"}
  OBVIOUS
<1>2. s \in Seq(X) /\ x \in X /\ Append(s, x) \in Seq(X)
  BY <1>1
<1>3. Kept(s, {"pill"}) \in Seq(X \cap {"pill"})
  BY <1>2, KeptType
<1>4. CASE x = "pill"
  <2>1. Kept(Append(s, x), {"pill"}) = Append(Kept(s, {"pill"}), x)
    BY <1>2, <1>4, KeptAppend
  <2> QED BY <1>1, <1>2, <1>3, <1>4, <2>1 DEF Pills
<1>5. CASE x # "pill"
  <2>1. Kept(Append(s, x), {"pill"}) = Kept(s, {"pill"})
    BY <1>2, <1>5, KeptAppend
  <2> QED BY <1>1, <1>2, <1>3, <1>5, <2>1 DEF Pills
<1> QED BY <1>4, <1>5

\* The steps of the workers and of submit(), which move no call.
LEMMA WorkersKeep ==
  ASSUME PoolTypes, PoolSubmit \/ TakePill \/ TakeItem \/ ItemDone \/ ItemDies
  PROVE  PoolTypes' /\ Level' = Level /\ UNCHANGED callVars
<1>0. /\ work \in Seq({"item", "pill"}) /\ idle \in Nat /\ busy \in Nat /\ poolDied \in Nat
      /\ Pills(work) \in Nat
  BY LevelInt DEF PoolTypes
<1>1. SUFFICES /\ work' \in Seq({"item", "pill"}) /\ idle' \in Nat /\ busy' \in Nat
               /\ poolDied' \in Nat /\ UNCHANGED callVars
               /\ idle' + busy' + poolDied' - Pills(work') = idle + busy + poolDied - Pills(work)
  BY DEF PoolTypes, Level, callVars, Pills
<1>2. Free => busy > 0
  <2>1. Cardinality({c \in Inside : InCall(c)}) \in Nat
    BY PoolsAssumption, FS_Subset, FS_CardinalityType
  <2> QED BY <1>0, <2>1 DEF Free
<1>5. CASE PoolSubmit
  <2>1. work' = Append(work, "item") /\ UNCHANGED <<callVars, idle, busy, poolDied>>
    BY <1>5 DEF PoolSubmit
  <2>2. Pills(work') = Pills(work) + 0 /\ work' \in Seq({"item", "pill"})
    BY <1>0, <2>1, PillsPutIn
  <2> QED BY <1>0, <2>1, <2>2
<1>6. CASE TakePill
  <2>1. work # <<>> /\ Head(work) = "pill" /\ work' = Tail(work) /\ idle > 0 /\ idle' = idle - 1
        /\ UNCHANGED <<callVars, busy, poolDied>>
    BY <1>6 DEF TakePill
  <2>2. work' \in Seq({"item", "pill"}) /\ Pills(work) = Pills(work') + 1
    BY <1>0, <2>1, PillsTaken
  <2>3. Pills(work') \in Int
    BY <1>0, <2>1, PillsTaken, KeptType, <2>2 DEF Pills
  <2> QED BY <1>0, <2>1, <2>2, <2>3
<1>7. CASE TakeItem
  <2>1. work # <<>> /\ Head(work) = "item" /\ work' = Tail(work) /\ idle > 0 /\ idle' = idle - 1
        /\ busy' = busy + 1 /\ UNCHANGED <<callVars, poolDied>>
    BY <1>7 DEF TakeItem
  <2>2. work' \in Seq({"item", "pill"}) /\ Pills(work) = Pills(work') + 0 /\ Pills(work') \in Int
    BY <1>0, <2>1, PillsTaken DEF Pills
  <2> QED BY <1>0, <2>1, <2>2
<1>8. CASE ItemDone
  BY <1>0, <1>2, <1>8 DEF ItemDone
<1>9. CASE ItemDies
  BY <1>0, <1>2, <1>9 DEF ItemDies
<1> QED BY <1>5, <1>6, <1>7, <1>8, <1>9

\* A step of a call: its caller moves on, and as long as it is the only one the
\* pool fits its place before and after.
LEMMA CallKeeps ==
  ASSUME PoolTypes, NEW c \in PoolCaller, CallStep(c)
  PROVE  /\ PoolTypes'
         /\ \A d \in PoolCaller \ {c} : poolCall'[d] = poolCall[d]
         /\ ~strayed' => ~strayed /\ (~InCall(c) => \A d \in PoolCaller \ {c} : ~InCall(d))
         /\ ~strayed' /\ Fits(poolCall[c].at, poolCall[c].n, poolOn, Level, crew) =>
              Fits(poolCall'[c].at, poolCall'[c].n, poolOn', Level', crew')
<1> DEFINE Call == [at : {"no", "raise", "make", "list", "lower", "put", "join"}, n : Nat]
           Moves(to, k) == /\ poolCall' = [poolCall EXCEPT ![c] = [at |-> to, n |-> k]]
                           /\ poolCall'[c].at = to /\ poolCall'[c].n = k
                           /\ poolCall' \in [PoolCaller -> Call]
                           /\ \A d \in PoolCaller \ {c} : poolCall'[d] = poolCall[d]
<1>0. /\ poolOn \in BOOLEAN /\ strayed \in BOOLEAN /\ work \in Seq({"item", "pill"})
      /\ idle \in Nat /\ busy \in Nat /\ poolDied \in Nat /\ crew \in Nat /\ Workers \in Nat \ {0}
      /\ poolCall \in [PoolCaller -> Call] /\ poolCall[c] \in Call /\ poolCall[c].n \in Nat
      /\ Level \in Int /\ Pills(work) \in Nat
      /\ \A d \in PoolCaller : poolCall[d].at \in {"make", "list"} => poolCall[d].n > 0
  BY PoolsAssumption, LevelInt DEF PoolTypes
<1>1. ASSUME NEW from, NEW to \in {"no", "raise", "make", "list", "lower", "put", "join"},
             NEW k \in Nat, CallGoes(c, from, to, k)
      PROVE  poolCall[c].at = from /\ Moves(to, k)
  <2>1. [at |-> to, n |-> k] \in Call
    OBVIOUS
  <2>2. poolCall[c].at = from /\ poolCall' = [poolCall EXCEPT ![c] = [at |-> to, n |-> k]]
    BY <1>1 DEF CallGoes
  <2>3. poolCall'[c] = [at |-> to, n |-> k]
    BY <1>0, <2>2
  <2> QED BY <1>0, <2>1, <2>2, <2>3
<1> HIDE DEF Call, Moves
<1> DEFINE Moved(to, k) == /\ Moves(to, k) /\ (to \in {"make", "list"} => k > 0)
                           /\ ~strayed' /\ Fits(poolCall[c].at, poolCall[c].n, poolOn, Level, crew) =>
                                Fits(to, k, poolOn', Level', crew')
           Done == /\ poolOn' \in BOOLEAN /\ strayed' \in BOOLEAN /\ work' \in Seq({"item", "pill"})
                   /\ idle' \in Nat /\ UNCHANGED <<busy, poolDied>> /\ crew' \in Nat /\ \E to, k : Moved(to, k)
                   /\ ~strayed' => ~strayed /\ (~InCall(c) => \A d \in PoolCaller \ {c} : ~InCall(d))
           Goal == /\ PoolTypes'
                   /\ \A d \in PoolCaller \ {c} : poolCall'[d] = poolCall[d]
                   /\ ~strayed' => ~strayed /\ (~InCall(c) => \A d \in PoolCaller \ {c} : ~InCall(d))
                   /\ ~strayed' /\ Fits(poolCall[c].at, poolCall[c].n, poolOn, Level, crew) =>
                        Fits(poolCall'[c].at, poolCall'[c].n, poolOn', Level', crew')
<1>2. ASSUME Done PROVE Goal
  <2>0. PICK to, k : Moved(to, k)
    <3> HIDE DEF Moved
    <3> QED BY <1>2
  <2>1. /\ Moves(to, k) /\ (to \in {"make", "list"} => k > 0)
        /\ ~strayed' /\ Fits(poolCall[c].at, poolCall[c].n, poolOn, Level, crew) =>
             Fits(to, k, poolOn', Level', crew')
    BY <2>0
  <2>2. /\ poolCall'[c].at = to /\ poolCall'[c].n = k /\ poolCall' \in [PoolCaller -> Call]
        /\ \A d \in PoolCaller \ {c} : poolCall'[d] = poolCall[d]
    BY <2>1 DEF Moves
  <2>3. \A d \in PoolCaller : poolCall'[d].at \in {"make", "list"} => poolCall'[d].n > 0
    BY <1>0, <2>1, <2>2
  <2>4. PoolTypes'
    BY <1>0, <1>2, <2>2, <2>3 DEF PoolTypes, Call
  <2> QED BY <1>2, <2>1, <2>2, <2>4
<1>3. ASSUME NEW to, Enters(c, to), to \in {"raise", "lower"}
      PROVE  /\ poolCall[c].at = "no" /\ Moves(to, 0) /\ strayed' \in BOOLEAN
             /\ ~strayed' => ~strayed /\ \A d \in PoolCaller \ {c} : ~InCall(d)
  <2>1. CallGoes(c, "no", to, 0)
        /\ strayed' = (strayed \/ \E d \in PoolCaller \ {c} : InCall(d))
    BY <1>3 DEF Enters
  <2> QED BY <1>0, <1>1, <1>3, <2>1
<1> SUFFICES Done
  BY <1>2
<1>4. CASE StartLooks(c)
  <2>1. ~poolOn /\ Enters(c, "raise") /\ UNCHANGED <<poolOn, crew, work, idle, busy, poolDied>> /\ Level' = Level
    BY <1>4 DEF StartLooks, threadVars, Level, Pills
  <2>2. poolCall[c].at = "no" /\ Moves("raise", 0) /\ strayed' \in BOOLEAN
        /\ (~strayed' => ~strayed /\ \A d \in PoolCaller \ {c} : ~InCall(d))
    BY <1>3, <2>1
  <2> QED BY <1>0, <2>1, <2>2 DEF Fits
<1>5. CASE StartRaises(c)
  <2>1. poolOn' /\ poolOn' \in BOOLEAN /\ CallGoes(c, "raise", "make", Workers)
        /\ UNCHANGED <<strayed, crew, work, idle, busy, poolDied>> /\ Level' = Level
    BY <1>5 DEF StartRaises, threadVars, Level, Pills
  <2>2. poolCall[c].at = "raise" /\ Moves("make", Workers)
    BY <1>0, <1>1, <2>1
  <2> QED BY <1>0, <2>1, <2>2 DEF Fits, InCall
<1>6. CASE StartWorker(c)
  <2>1. idle' = idle + 1 /\ CallGoes(c, "make", "list", poolCall[c].n)
        /\ UNCHANGED <<poolOn, strayed, crew, work, busy, poolDied>>
    BY <1>6 DEF StartWorker
  <2>2. poolCall[c].at = "make" /\ Moves("list", poolCall[c].n)
    BY <1>0, <1>1, <2>1
  <2>3. Level' = Level + 1
    BY <1>0, <2>1 DEF Level, Pills
  <2> QED BY <1>0, <2>1, <2>2, <2>3 DEF Fits, InCall
<1>7. CASE ListWorker(c)
  <2>1. PICK left : left = poolCall[c].n - 1
    OBVIOUS
  <2>2. PICK to : to = IF left > 0 THEN "make" ELSE "no"
    OBVIOUS
  <2>3. CallGoes(c, "list", to, left) /\ crew' = crew + 1
        /\ UNCHANGED <<poolOn, strayed, work, idle, busy, poolDied>> /\ Level' = Level
    BY <1>7, <2>1, <2>2 DEF ListWorker, threadVars, Level, Pills
  <2>4. left \in Nat
    <3>1. poolCall[c].at = "list"
      BY <1>7 DEF ListWorker, CallGoes
    <3> QED BY <1>0, <2>1, <3>1
  <2>5. to \in {"make", "no"} /\ (to = "make" => left > 0) /\ (to = "no" => left = 0)
    BY <2>2, <2>4
  <2>6. poolCall[c].at = "list" /\ Moves(to, left)
    BY <1>1, <2>3, <2>4, <2>5
  <2>7. Fits("list", poolCall[c].n, poolOn, Level, crew) => Fits(to, left, poolOn', Level', crew')
    <3>1. CASE to = "make"
      BY <1>0, <2>1, <2>3, <2>5, <3>1 DEF Fits
    <3>2. CASE to = "no"
      BY <1>0, <2>1, <2>3, <2>5, <3>2 DEF Fits
    <3> QED BY <2>5, <3>1, <3>2
  <2>8. Moved(to, left)
    BY <2>5, <2>6, <2>7
  <2>9. poolCall[c].at # "no"
    BY <2>6
  <2> HIDE DEF Moved
  <2> QED BY <1>0, <2>3, <2>8, <2>9 DEF InCall
<1>8. CASE StopLooks(c)
  <2>1. poolOn /\ Enters(c, "lower") /\ UNCHANGED <<poolOn, crew, work, idle, busy, poolDied>> /\ Level' = Level
    BY <1>8 DEF StopLooks, threadVars, Level, Pills
  <2>2. poolCall[c].at = "no" /\ Moves("lower", 0) /\ strayed' \in BOOLEAN
        /\ (~strayed' => ~strayed /\ \A d \in PoolCaller \ {c} : ~InCall(d))
    BY <1>3, <2>1
  <2> QED BY <1>0, <2>1, <2>2 DEF Fits
<1>9. CASE StopLowers(c)
  <2>1. ~poolOn' /\ poolOn' \in BOOLEAN /\ CallGoes(c, "lower", "put", 0)
        /\ UNCHANGED <<strayed, crew, work, idle, busy, poolDied>> /\ Level' = Level
    BY <1>9 DEF StopLowers, threadVars, Level, Pills
  <2>2. poolCall[c].at = "lower" /\ Moves("put", 0)
    BY <1>1, <2>1
  <2> QED BY <1>0, <2>1, <2>2 DEF Fits, InCall
<1>10. CASE PutPill(c)
  <2>1. poolCall[c].n < crew /\ CallGoes(c, "put", "put", poolCall[c].n + 1) /\ work' = Append(work, "pill")
        /\ UNCHANGED <<poolOn, strayed, crew, idle, busy, poolDied>>
    BY <1>10 DEF PutPill
  <2>2. poolCall[c].at = "put" /\ Moves("put", poolCall[c].n + 1)
    <3>1. PICK k : k = poolCall[c].n + 1
      OBVIOUS
    <3>2. k \in Nat /\ CallGoes(c, "put", "put", k)
      BY <1>0, <2>1, <3>1
    <3>3. poolCall[c].at = "put" /\ Moves("put", k)
      BY <1>1, <3>2
    <3> QED BY <3>1, <3>3
  <2>3. work' \in Seq({"item", "pill"}) /\ Pills(work') = Pills(work) + 1
    BY <1>0, <2>1, PillsPutIn
  <2>4. Level' = Level - 1
    <3>1. Pills(work)' = Pills(work') /\ idle' = idle /\ busy' = busy /\ poolDied' = poolDied
      BY <2>1 DEF Pills
    <3>2. Pills(work)' = Pills(work) + 1
      BY <2>3, <3>1
    <3> QED BY <1>0, <3>1, <3>2 DEF Level
  <2> QED BY <1>0, <2>1, <2>2, <2>3, <2>4 DEF Fits, InCall
<1>11. CASE PillsPut(c)
  <2>1. poolCall[c].n >= crew /\ CallGoes(c, "put", "join", 0)
        /\ UNCHANGED <<poolOn, strayed, crew, work, idle, busy, poolDied>> /\ Level' = Level
    BY <1>11 DEF PillsPut, threadVars, Level, Pills
  <2>2. poolCall[c].at = "put" /\ Moves("join", 0)
    BY <1>1, <2>1
  <2> QED BY <1>0, <2>1, <2>2 DEF Fits, InCall
<1>12. CASE StopEnds(c)
  <2>1. crew' = 0 /\ CallGoes(c, "join", "no", 0)
        /\ UNCHANGED <<poolOn, strayed, work, idle, busy, poolDied>> /\ Level' = Level
    BY <1>12 DEF StopEnds, threadVars, Level, Pills
  <2>2. poolCall[c].at = "join" /\ Moves("no", 0)
    BY <1>1, <2>1
  <2> QED BY <1>0, <2>1, <2>2 DEF Fits, InCall
<1>13. CASE StopRaises(c)
  <2>1. strayed' = TRUE /\ CallGoes(c, "join", "no", 0)
        /\ UNCHANGED <<poolOn, crew, work, idle, busy, poolDied>>
    BY <1>13 DEF StopRaises, threadVars
  <2>2. Moves("no", 0)
    BY <1>1, <2>1
  <2> QED BY <1>0, <2>1, <2>2
<1> QED BY <1>4, <1>5, <1>6, <1>7, <1>8, <1>9, <1>10, <1>11, <1>12, <1>13 DEF CallStep

LEMMA PoolKeeps == ASSUME PoolInv, PoolNext PROVE PoolInv'
<1>0. PoolTypes
  BY DEF PoolInv
<1>1. ASSUME PoolSubmit \/ TakePill \/ TakeItem \/ ItemDone \/ ItemDies
      PROVE  PoolInv'
  <2>1. PoolTypes' /\ Level' = Level /\ UNCHANGED callVars
    BY <1>0, <1>1, WorkersKeep
  <2> QED BY <2>1 DEF PoolInv, callVars, InCall
<1>2. ASSUME NEW c \in PoolCaller, CallStep(c)
      PROVE  PoolInv'
  <2> DEFINE Fit(at, n) == Fits(at, n, poolOn, Level, crew)
  <2>1. /\ PoolTypes'
        /\ \A d \in PoolCaller \ {c} : poolCall'[d] = poolCall[d]
        /\ ~strayed' => ~strayed /\ (~InCall(c) => \A d \in PoolCaller \ {c} : ~InCall(d))
        /\ ~strayed' /\ Fit(poolCall[c].at, poolCall[c].n) =>
             Fits(poolCall'[c].at, poolCall'[c].n, poolOn', Level', crew')
    BY <1>0, <1>2, CallKeeps
  <2>2. CASE strayed'
    BY <2>1, <2>2 DEF PoolInv
  <2>3. CASE ~strayed'
    <3>1. \A d \in PoolCaller \ {c} : ~InCall(d) /\ ~InCall(d)'
      BY <2>1, <2>3 DEF PoolInv, InCall
    <3>2. Fit(poolCall[c].at, poolCall[c].n)
      <4>1. CASE InCall(c)
        BY <2>1, <2>3, <4>1 DEF PoolInv
      <4>2. CASE ~InCall(c)
        <5>1. Fits("no", 0, poolOn, Level, crew) /\ poolCall[c].at = "no"
          BY <2>1, <2>3, <3>1, <4>2 DEF PoolInv, InCall
        <5> QED BY <5>1 DEF Fits
      <4> QED BY <4>1, <4>2
    <3>3. Fits(poolCall'[c].at, poolCall'[c].n, poolOn', Level', crew')
      BY <2>1, <2>3, <3>2
    <3>4. ~InCall(c)' => Fits("no", 0, poolOn', Level', crew')
      BY <3>3 DEF Fits, InCall
    <3> QED BY <2>1, <2>3, <3>1, <3>3, <3>4 DEF PoolInv
  <2> QED BY <2>2, <2>3
<1> QED BY <1>1, <1>2 DEF PoolNext

LEMMA PoolIsSized == ASSUME PoolInv PROVE PoolSize
<1>1. Level \in Int /\ Pills(work) \in Nat
  BY LevelInt DEF PoolInv
<1> QED BY <1>1 DEF PoolInv, PoolSize, Fits, Level, Pills

-----------------------------------------------------------------------------
(* Jobs of /dev/vgpu. *)

Outcome(d) == CASE d = "result" -> "completed" [] d = "error" -> "failed" [] OTHER -> "running"

\* The job and its task are at the same point.
JobAt(g, t, d) ==
  /\ g.status = "none" => g = NoJob /\ t = "none"
  /\ t \in {"none", "queued", "taken", "cancelled"} =>
       d = "nothing" /\ ~g.finished /\ g.status \in {"none", "queued"}
  /\ t = "running" => ~g.finished /\ g.status = "running"
  /\ t = "over" => d # "nothing" /\ g.finished /\ g.status = Outcome(d)

JobsInv ==
  /\ gpu \in [Gpu -> [backend : {"none", "local", "cloud"},
                      status : {"none", "queued", "running", "completed", "failed"},
                      finished : BOOLEAN, known : BOOLEAN]]
  /\ task \in [Gpu -> {"none", "queued", "taken", "running", "over", "cancelled"}]
  /\ did \in [Gpu -> {"nothing", "result", "error", "exit"}]
  /\ \A j \in Gpu : JobAt(gpu[j], task[j], did[j])

LEMMA JobsKeep == ASSUME JobsInv, GpuNext PROVE JobsInv'
<1> DEFINE G == [backend : {"none", "local", "cloud"},
                 status : {"none", "queued", "running", "completed", "failed"},
                 finished : BOOLEAN, known : BOOLEAN]
           T == {"none", "queued", "taken", "running", "over", "cancelled"}
           D == {"nothing", "result", "error", "exit"}
<1>0. PICK j \in Gpu : \/ \E b \in {"auto", "local", "cloud"} : GpuSubmit(j, b)
                       \/ HandOver(j) \/ NoteTask(j) \/ TaskTaken(j) \/ TaskCancelled(j) \/ JobStarts(j)
                       \/ \E how \in {"result", "error", "exit"} : FnReturns(j, how)
                       \/ JobRecorded(j)
  BY DEF GpuNext
<1>1. gpu \in [Gpu -> G] /\ task \in [Gpu -> T] /\ did \in [Gpu -> D]
  BY DEF JobsInv
<1>2. JobAt(gpu[j], task[j], did[j]) /\ gpu[j] \in G /\ task[j] \in T /\ did[j] \in D
  BY <1>1 DEF JobsInv
<1>3. ASSUME NEW g \in G, NEW t \in T, NEW d \in D, JobAt(g, t, d),
             gpu' = [gpu EXCEPT ![j] = g], task' = [task EXCEPT ![j] = t], did' = [did EXCEPT ![j] = d]
      PROVE  JobsInv'
  <2>1. gpu' \in [Gpu -> G] /\ task' \in [Gpu -> T] /\ did' \in [Gpu -> D]
    BY <1>1, <1>3
  <2>2. ASSUME NEW k \in Gpu PROVE JobAt(gpu'[k], task'[k], did'[k])
    <3>1. CASE k = j
      BY <1>1, <1>3, <3>1
    <3>2. CASE k # j
      <4>1. gpu'[k] = gpu[k] /\ task'[k] = task[k] /\ did'[k] = did[k]
        BY <1>1, <1>3, <3>2
      <4> QED BY <4>1 DEF JobsInv
    <3> QED BY <3>1, <3>2
  <2> QED BY <2>1, <2>2 DEF JobsInv
<1>4. UNCHANGED gpu => gpu' = [gpu EXCEPT ![j] = gpu[j]]
  BY <1>1
<1>5. UNCHANGED task => task' = [task EXCEPT ![j] = task[j]]
  BY <1>1
<1>6. UNCHANGED did => did' = [did EXCEPT ![j] = did[j]]
  BY <1>1
<1>10. ASSUME NEW b \in {"auto", "local", "cloud"}, GpuSubmit(j, b) PROVE JobsInv'
  <2>1. gpu[j] = NoJob /\ task[j] = "none" /\ did[j] = "nothing" /\ UNCHANGED <<task, did>>
    BY <1>2, <1>10 DEF GpuSubmit, JobAt, NoJob
  <2>2. PICK r : r = Resolve(b)
    OBVIOUS
  <2>3. r \in {"local", "cloud"}
    BY <2>2 DEF Resolve
  <2>4. PICK g : g = [backend |-> r, status |-> "queued", finished |-> FALSE, known |-> FALSE]
    OBVIOUS
  <2>5. g \in G /\ g.status = "queued" /\ ~g.finished
    BY <2>3, <2>4
  <2>6. gpu' = [gpu EXCEPT ![j] = g]
    BY <1>1, <1>10, <2>1, <2>2, <2>4 DEF GpuSubmit, NoJob
  <2>7. JobAt(g, task[j], did[j])
    BY <2>1, <2>5 DEF JobAt
  <2> HIDE DEF G, T, D
  <2> QED BY <1>2, <1>3, <1>5, <1>6, <2>1, <2>5, <2>6, <2>7
<1>11. CASE HandOver(j)
  <2>1. JobAt(gpu[j], "queued", did[j]) /\ "queued" \in T
    BY <1>2, <1>11 DEF HandOver, JobAt
  <2> HIDE DEF G, T, D
  <2> QED BY <1>2, <1>3, <1>4, <1>6, <1>11, <2>1 DEF HandOver
<1>12. CASE NoteTask(j)
  <2>1. PICK g : g = [gpu[j] EXCEPT !.known = TRUE]
    OBVIOUS
  <2>2. g \in G /\ g.status = gpu[j].status /\ g.finished = gpu[j].finished
    BY <1>2, <2>1
  <2>3. gpu' = [gpu EXCEPT ![j] = g] /\ UNCHANGED <<task, did>> /\ task[j] # "none"
    BY <1>1, <1>12, <2>1 DEF NoteTask
  <2>4. JobAt(g, task[j], did[j])
    BY <1>2, <2>2, <2>3 DEF JobAt
  <2> HIDE DEF G, T, D
  <2> QED BY <1>2, <1>3, <1>5, <1>6, <2>2, <2>3, <2>4
<1>13. CASE TaskTaken(j)
  <2>1. JobAt(gpu[j], "taken", did[j]) /\ "taken" \in T
    BY <1>2, <1>13 DEF TaskTaken, JobAt
  <2> HIDE DEF G, T, D
  <2> QED BY <1>2, <1>3, <1>4, <1>6, <1>13, <2>1 DEF TaskTaken
<1>14. CASE TaskCancelled(j)
  <2>1. JobAt(gpu[j], "cancelled", did[j]) /\ "cancelled" \in T
    BY <1>2, <1>14 DEF TaskCancelled, JobAt
  <2> HIDE DEF G, T, D
  <2> QED BY <1>2, <1>3, <1>4, <1>6, <1>14, <2>1 DEF TaskCancelled
<1>15. CASE JobStarts(j)
  <2>1. PICK g : g = [gpu[j] EXCEPT !.status = "running"]
    OBVIOUS
  <2>2. g \in G /\ g.status = "running" /\ g.finished = gpu[j].finished
    BY <1>2, <2>1
  <2>3. gpu' = [gpu EXCEPT ![j] = g] /\ task' = [task EXCEPT ![j] = "running"] /\ UNCHANGED did
        /\ task[j] = "taken"
    BY <1>1, <1>15, <2>1 DEF JobStarts
  <2>4. JobAt(g, "running", did[j]) /\ "running" \in T
    BY <1>2, <2>2, <2>3 DEF JobAt
  <2> HIDE DEF G, T, D
  <2> QED BY <1>2, <1>3, <1>6, <2>2, <2>3, <2>4
<1>16. ASSUME NEW how \in {"result", "error", "exit"}, FnReturns(j, how) PROVE JobsInv'
  <2>1. JobAt(gpu[j], task[j], how) /\ how \in D
    BY <1>2, <1>16 DEF FnReturns, JobAt
  <2> HIDE DEF G, T, D
  <2> QED BY <1>2, <1>3, <1>4, <1>5, <1>16, <2>1 DEF FnReturns
<1>17. CASE JobRecorded(j)
  <2>1. did[j] # "nothing" /\ task[j] = "running" /\ gpu[j].status = "running"
    BY <1>2, <1>17 DEF JobRecorded, JobAt
  <2>2. PICK g : g = [gpu[j] EXCEPT !.finished = TRUE, !.status = Outcome(did[j])]
    OBVIOUS
  <2>3. Outcome(did[j]) \in {"completed", "failed", "running"}
    BY DEF Outcome
  <2>4. g \in G /\ g.status = Outcome(did[j]) /\ g.finished
    BY <1>2, <2>2, <2>3
  <2>5. Outcome(did[j]) = CASE did[j] = "result" -> "completed" [] did[j] = "error" -> "failed"
                            [] did[j] = "exit" -> gpu[j].status
    BY <1>2, <2>1 DEF Outcome
  <2>6. gpu' = [gpu EXCEPT ![j] = g]
    BY <1>1, <1>17, <2>2, <2>5 DEF JobRecorded
  <2>7. JobAt(g, "over", did[j]) /\ "over" \in T
    <3>1. Outcome(did[j]) # "none"
      BY <2>3
    <3> QED BY <2>1, <2>4, <3>1 DEF JobAt
  <2> HIDE DEF G, T, D
  <2> QED BY <1>2, <1>3, <1>6, <1>17, <2>4, <2>6, <2>7 DEF JobRecorded
<1> QED BY <1>0, <1>10, <1>11, <1>12, <1>13, <1>14, <1>15, <1>16, <1>17

LEMMA JobsAreTrue == JobsInv => JobsTrue
<1> SUFFICES ASSUME JobsInv, NEW j \in Gpu
             PROVE  /\ gpu[j].finished => gpu[j].status = Outcome(did[j])
                    /\ gpu[j].status = "queued" => did[j] = "nothing"
                    /\ task[j] = "cancelled" => gpu[j].status = "queued" /\ ~gpu[j].finished
  BY DEF JobsTrue, Outcome
<1>1. JobAt(gpu[j], task[j], did[j]) /\ task[j] \in {"none", "queued", "taken", "running", "over", "cancelled"}
  BY DEF JobsInv
<1>2. Outcome(did[j]) # "queued"
  BY DEF Outcome
<1> QED BY <1>1, <1>2 DEF JobAt

-----------------------------------------------------------------------------
(* Queries.  Each is at one point, and so is its item in the pool.         *)

QueryPoints == {"new", "inline", "routed", "refused", "waiting", "late", "timeout", "answer", "exit"}
At(s) == {q \in Query : query[q] \in s}
Items == Query \cup Pull
ItemPoints == {"none", "queued", "running", "answer", "error", "exit", "cancelled"}
Entered == {w \in Items : future[w] # "none"}

LEMMA QueriesFinite == IsFiniteSet(Query) /\ IsFiniteSet(Items) /\ \A s : IsFiniteSet(At(s))
<1>1. IsFiniteSet(Query) /\ IsFiniteSet(Items)
  BY DispatchAssumption, FS_Union DEF Items
<1>2. ASSUME NEW s PROVE IsFiniteSet(At(s))
  <2>1. At(s) \in SUBSET Query
    BY DEF At
  <2> QED BY <1>1, <2>1, FS_Subset
<1> QED BY <1>1, <1>2

\* A query that moves enters the counts of where it goes and leaves those of
\* where it was.
LEMMA QueryMoves ==
  ASSUME query \in [Query -> QueryPoints], NEW q \in Query, NEW to \in QueryPoints,
         query' = [query EXCEPT ![q] = to], NEW s
  PROVE  /\ to \in s /\ query[q] \notin s => Cardinality(At(s)') = Cardinality(At(s)) + 1
         /\ (to \in s <=> query[q] \in s) => At(s)' = At(s)
<1>1. CASE to \in s /\ query[q] \notin s
  <2>1. At(s)' = At(s) \cup {q} /\ q \notin At(s)
    BY <1>1 DEF At
  <2>2. IsFiniteSet(At(s))
    BY QueriesFinite
  <2> QED BY <1>1, <2>1, <2>2, FS_AddElement
<1>2. CASE to \in s <=> query[q] \in s
  BY <1>2 DEF At
<1> QED BY <1>1, <1>2

LEMMA ItemMoves ==
  ASSUME future \in [Items -> ItemPoints], NEW w \in Items, NEW to \in ItemPoints, to # "none",
         future' = [future EXCEPT ![w] = to]
  PROVE  /\ future[w] = "none" => Cardinality(Entered') = Cardinality(Entered) + 1
         /\ future[w] # "none" => Entered' = Entered
         /\ future' \in [Items -> ItemPoints] /\ future'[w] = to
         /\ \A v \in Items \ {w} : future'[v] = future[v]
<1>1. future' \in [Items -> ItemPoints] /\ future'[w] = to /\ \A v \in Items \ {w} : future'[v] = future[v]
  OBVIOUS
<1>2. CASE future[w] = "none"
  <2>1. Entered' = Entered \cup {w} /\ w \notin Entered
    BY <1>1, <1>2 DEF Entered
  <2>2. IsFiniteSet(Entered)
    <3>1. Entered \in SUBSET Items
      BY DEF Entered
    <3> QED BY <3>1, QueriesFinite, FS_Subset
  <2> QED BY <1>1, <1>2, <2>1, <2>2, FS_AddElement
<1>3. CASE future[w] # "none"
  <2>1. Entered' = Entered
    BY <1>1, <1>3 DEF Entered
  <2> QED BY <1>1, <1>3, <2>1
<1> QED BY <1>2, <1>3

\* What the invariant says of the counts, and what it says of the items.
CountsInv ==
  /\ count \in [routed : Nat, completed : Nat, failed : Nat, noops : Nat]
  /\ count.completed = Cardinality(At({"answer"})) /\ count.failed = Cardinality(At({"timeout"}))
  /\ count.routed = Cardinality(At(QueryPoints \ {"new"}))
  /\ count.noops = Cardinality(Entered)

ItemsInv ==
  /\ query \in [Query -> QueryPoints] /\ future \in [Items -> ItemPoints]
  /\ poolQueue \in Seq(Items)
  /\ \A q \in Query : future[q] = "none" <=> query[q] \in {"new", "inline", "routed", "refused"}
  /\ \A q \in Query : query[q] = "timeout" => future[q] # "queued"
  /\ \A w \in Items : future[w] = "queued" => w \in ToSet(poolQueue)
  /\ models = {Own} \cup {m \in Pull : future[m] = "answer"}

LEMMA CountsKeep == ASSUME CountsInv, ItemsInv, RouterNext PROVE CountsInv'
<1> DEFINE Past == QueryPoints \ {"new"}
<1>1. /\ count \in [routed : Nat, completed : Nat, failed : Nat, noops : Nat]
      /\ count.completed = Cardinality(At({"answer"})) /\ count.failed = Cardinality(At({"timeout"}))
      /\ count.routed = Cardinality(At(Past)) /\ count.noops = Cardinality(Entered)
      /\ query \in [Query -> QueryPoints] /\ future \in [Items -> ItemPoints]
  BY DEF CountsInv, ItemsInv
<1>2. ASSUME UNCHANGED <<count, query>>, Entered' = Entered PROVE CountsInv'
  <2>1. \A s : At(s)' = At(s)
    BY <1>2 DEF At
  <2> QED BY <1>1, <1>2, <2>1 DEF CountsInv
<1>3. UNCHANGED future => Entered' = Entered
  BY DEF Entered
<1>4. ASSUME NEW q \in Query, NEW i \in BOOLEAN, Route(q, i) PROVE CountsInv'
  <2>1. PICK to \in {"inline", "routed"} : query' = [query EXCEPT ![q] = to]
    BY <1>4 DEF Route
  <2>2. query[q] = "new" /\ count' = [count EXCEPT !.routed = @ + 1] /\ UNCHANGED future
    BY <1>4 DEF Route
  <2>3. to \in QueryPoints /\ to \in Past /\ query[q] \notin Past
    BY <2>1, <2>2 DEF QueryPoints
  <2>4. Cardinality(At(Past)') = Cardinality(At(Past)) + 1
    BY <1>1, <2>1, <2>3, QueryMoves
  <2>5. At({"answer"})' = At({"answer"}) /\ At({"timeout"})' = At({"timeout"})
    BY <1>1, <2>1, <2>2, <2>3, QueryMoves
  <2> QED BY <1>1, <1>3, <2>2, <2>4, <2>5 DEF CountsInv
<1>5. ASSUME NEW q \in Query, Enqueue(q) PROVE CountsInv'
  <2>1. query[q] = "routed"
    BY <1>5 DEF Enqueue
  <2>2. CASE poolDown
    <3>1. query' = [query EXCEPT ![q] = "refused"] /\ UNCHANGED <<count, future>>
      BY <1>5, <2>2 DEF Enqueue
    <3>2. \A s \in {{"answer"}, {"timeout"}, Past} : At(s)' = At(s)
      <4>1. "refused" \in QueryPoints /\ \A s \in {{"answer"}, {"timeout"}, Past} : "refused" \in s <=> query[q] \in s
        BY <2>1 DEF QueryPoints
      <4> QED BY <1>1, <3>1, <4>1, QueryMoves
    <3> QED BY <1>1, <1>3, <3>1, <3>2 DEF CountsInv
  <2>3. CASE ~poolDown
    <3>1. query' = [query EXCEPT ![q] = "waiting"] /\ future' = [future EXCEPT ![q] = "queued"]
          /\ count' = [count EXCEPT !.noops = @ + 1]
      BY <1>5, <2>3 DEF Enqueue
    <3>2. \A s \in {{"answer"}, {"timeout"}, Past} : At(s)' = At(s)
      <4>1. "waiting" \in QueryPoints /\ \A s \in {{"answer"}, {"timeout"}, Past} : "waiting" \in s <=> query[q] \in s
        BY <2>1 DEF QueryPoints
      <4> QED BY <1>1, <3>1, <4>1, QueryMoves
    <3>3. Cardinality(Entered') = Cardinality(Entered) + 1
      <4>1. q \in Items /\ future[q] = "none" /\ "queued" \in ItemPoints
        BY <2>1 DEF Items, ItemPoints, ItemsInv
      <4> QED BY <1>1, <3>1, <4>1, ItemMoves
    <3> QED BY <1>1, <3>1, <3>2, <3>3 DEF CountsInv
  <2> QED BY <2>2, <2>3
<1>6. ASSUME NEW m \in Pull, PullModel(m) PROVE CountsInv'
  <2>1. m \in Items /\ future[m] = "none" /\ future' = [future EXCEPT ![m] = "queued"] /\ "queued" \in ItemPoints
        /\ count' = [count EXCEPT !.noops = @ + 1] /\ UNCHANGED query
    BY <1>6 DEF PullModel, Items, ItemPoints
  <2>2. Cardinality(Entered') = Cardinality(Entered) + 1
    BY <1>1, <2>1, ItemMoves
  <2>3. \A s : At(s)' = At(s)
    BY <2>1 DEF At
  <2> QED BY <1>1, <2>1, <2>2, <2>3 DEF CountsInv
<1>7. CASE WorkerTakes
  <2>1. UNCHANGED <<count, query>> /\ poolQueue # <<>>
    BY <1>7 DEF WorkerTakes
  <2>2. PICK h \in Items : h = Head(poolQueue)
    BY <2>1 DEF ItemsInv
  <2>3. future' = [future EXCEPT ![h] = IF future[h] = "queued" THEN "running" ELSE future[h]]
    BY <1>7, <2>2 DEF WorkerTakes
  <2>4. Entered' = Entered
    BY <1>1, <2>3 DEF Entered
  <2> QED BY <1>2, <2>1, <2>4
<1>8. ASSUME NEW w \in Items, NEW how \in {"answer", "exit", "error"}, WorkDone(w, how) PROVE CountsInv'
  <2>1. UNCHANGED <<count, query>> /\ future[w] = "running" /\ future' = [future EXCEPT ![w] = how]
    BY <1>8 DEF WorkDone
  <2>2. Entered' = Entered
    BY <1>1, <2>1, ItemMoves DEF ItemPoints
  <2> QED BY <1>2, <2>1, <2>2
<1>9. ASSUME NEW q \in Query, Answered(q) PROVE CountsInv'
  <2>1. PICK to \in {"answer", "exit"} : to = future[q] /\ query' = [query EXCEPT ![q] = to]
    BY <1>9 DEF Answered
  <2>2. query[q] = "waiting" /\ UNCHANGED future
        /\ count' = [count EXCEPT !.completed = IF to = "answer" THEN @ + 1 ELSE @]
    BY <1>9, <2>1 DEF Answered
  <2>3. to \in QueryPoints /\ to \in Past /\ query[q] \in Past
    BY <2>1, <2>2 DEF QueryPoints
  <2>4. At(Past)' = At(Past) /\ At({"timeout"})' = At({"timeout"})
    BY <1>1, <2>1, <2>2, <2>3, QueryMoves
  <2>5. CASE to = "answer"
    <3>1. Cardinality(At({"answer"})') = Cardinality(At({"answer"})) + 1
      <4>1. to \in {"answer"} /\ query[q] \notin {"answer"}
        BY <2>2, <2>5
      <4> QED BY <1>1, <2>1, <2>3, <4>1, QueryMoves
    <3>2. count' = [count EXCEPT !.completed = @ + 1]
      BY <2>2, <2>5
    <3> QED BY <1>1, <1>3, <2>2, <2>4, <3>1, <3>2 DEF CountsInv
  <2>6. CASE to = "exit"
    <3>1. At({"answer"})' = At({"answer"})
      BY <1>1, <2>1, <2>2, <2>3, <2>6, QueryMoves
    <3>2. count' = count
      BY <1>1, <2>2, <2>6
    <3> QED BY <1>1, <1>3, <2>2, <2>4, <3>1, <3>2 DEF CountsInv
  <2> QED BY <2>1, <2>5, <2>6
<1>10. ASSUME NEW q \in Query, TimesOut(q) PROVE CountsInv'
  <2>1. query[q] = "waiting" /\ query' = [query EXCEPT ![q] = "late"] /\ UNCHANGED <<count, future>>
    BY <1>10 DEF TimesOut
  <2>2. \A s \in {{"answer"}, {"timeout"}, Past} : At(s)' = At(s)
    <3>1. "late" \in QueryPoints /\ \A s \in {{"answer"}, {"timeout"}, Past} : "late" \in s <=> query[q] \in s
      BY <2>1 DEF QueryPoints
    <3> QED BY <1>1, <2>1, <3>1, QueryMoves
  <2> QED BY <1>1, <1>3, <2>1, <2>2 DEF CountsInv
<1>11. ASSUME NEW q \in Query, GiveUp(q) PROVE CountsInv'
  <2>1. query[q] = "late" /\ query' = [query EXCEPT ![q] = "timeout"] /\ count' = [count EXCEPT !.failed = @ + 1]
        /\ future' = [future EXCEPT ![q] = IF future[q] = "queued" THEN "cancelled" ELSE future[q]]
    BY <1>11 DEF GiveUp
  <2>2. At({"answer"})' = At({"answer"}) /\ At(Past)' = At(Past)
    <3>1. "timeout" \in QueryPoints /\ \A s \in {{"answer"}, Past} : "timeout" \in s <=> query[q] \in s
      BY <2>1 DEF QueryPoints
    <3> QED BY <1>1, <2>1, <3>1, QueryMoves
  <2>3. Cardinality(At({"timeout"})') = Cardinality(At({"timeout"})) + 1
    <3>1. "timeout" \in QueryPoints /\ "timeout" \in {"timeout"} /\ query[q] \notin {"timeout"}
      BY <2>1 DEF QueryPoints
    <3> QED BY <1>1, <2>1, <3>1, QueryMoves
  <2>4. Entered' = Entered
    BY <1>1, <2>1 DEF Entered, Items
  <2> QED BY <1>1, <2>1, <2>2, <2>3, <2>4 DEF CountsInv
<1>12. CASE Shutdown
  BY <1>2, <1>3, <1>12 DEF Shutdown
<1> QED BY <1>4, <1>5, <1>6, <1>7, <1>8, <1>9, <1>10, <1>11, <1>12 DEF RouterNext, Items

LEMMA ItemsKeep == ASSUME ItemsInv, RouterNext PROVE ItemsInv'
<1> USE DispatchAssumption DEF Items
<1>1. ASSUME NEW q \in Query, NEW i \in BOOLEAN, Route(q, i) PROVE ItemsInv'
  BY <1>1 DEF Route, ItemsInv, QueryPoints
<1>2. ASSUME NEW q \in Query, Enqueue(q) PROVE ItemsInv'
  <2>1. CASE poolDown
    BY <1>2, <2>1 DEF Enqueue, ItemsInv, QueryPoints
  <2>2. CASE ~poolDown
    <3>1. /\ query' = [query EXCEPT ![q] = "waiting"] /\ future' = [future EXCEPT ![q] = "queued"]
          /\ poolQueue' = Append(poolQueue, q) /\ models' = models /\ query[q] = "routed"
      BY <1>2, <2>2 DEF Enqueue
    <3>2. ToSet(poolQueue') = ToSet(poolQueue) \cup {q} /\ poolQueue' \in Seq(Items)
      <4>1. q \in Items /\ poolQueue \in Seq(Items)
        BY DEF ItemsInv
      <4> QED BY <3>1, <4>1, SetOfAppend
    <3>3. query' \in [Query -> QueryPoints] /\ future' \in [Items -> ItemPoints]
      BY <3>1 DEF ItemsInv, QueryPoints, ItemPoints
    <3>4. {m \in Pull : future'[m] = "answer"} = {m \in Pull : future[m] = "answer"}
      BY <3>1 DEF ItemsInv
    <3>5. \A w \in Items : future'[w] = "queued" => w \in ToSet(poolQueue')
      BY <3>1, <3>2 DEF ItemsInv
    <3>6. \A p \in Query : /\ future'[p] = "none" <=> query'[p] \in {"new", "inline", "routed", "refused"}
                           /\ query'[p] = "timeout" => future'[p] # "queued"
      BY <3>1 DEF ItemsInv
    <3> QED BY <3>1, <3>2, <3>3, <3>4, <3>5, <3>6 DEF ItemsInv
  <2> QED BY <2>1, <2>2
<1>3. ASSUME NEW m \in Pull, PullModel(m) PROVE ItemsInv'
  <2>1. /\ UNCHANGED <<query, models>> /\ future' = [future EXCEPT ![m] = "queued"]
        /\ poolQueue' = Append(poolQueue, m) /\ future[m] = "none"
    BY <1>3 DEF PullModel
  <2>2. ToSet(poolQueue') = ToSet(poolQueue) \cup {m} /\ poolQueue' \in Seq(Items)
    <3>1. m \in Items /\ poolQueue \in Seq(Items)
      BY DEF ItemsInv
    <3> QED BY <2>1, <3>1, SetOfAppend
  <2>3. {k \in Pull : future'[k] = "answer"} = {k \in Pull : future[k] = "answer"}
    BY <2>1 DEF ItemsInv
  <2>4. \A w \in Items : future'[w] = "queued" => w \in ToSet(poolQueue')
    BY <2>1, <2>2 DEF ItemsInv
  <2>5. future' \in [Items -> ItemPoints] /\ \A q \in Query : future'[q] = future[q]
    BY <2>1 DEF ItemsInv, ItemPoints
  <2> QED BY <2>1, <2>2, <2>3, <2>4, <2>5 DEF ItemsInv
<1>4. CASE WorkerTakes
  <2>1. UNCHANGED <<query, models>> /\ poolQueue # <<>> /\ poolQueue' = Tail(poolQueue)
    BY <1>4 DEF WorkerTakes
  <2>2. PICK h \in Items : h = Head(poolQueue)
    BY <2>1 DEF ItemsInv
  <2>3. future' = [future EXCEPT ![h] = IF future[h] = "queued" THEN "running" ELSE future[h]]
    BY <1>4, <2>2 DEF WorkerTakes
  <2>4. ToSet(poolQueue) = {h} \cup ToSet(poolQueue') /\ poolQueue' \in Seq(Items)
    <3>1. poolQueue \in Seq(Items)
      BY DEF ItemsInv
    <3> QED BY <2>1, <2>2, <3>1, SetOfTail
  <2>5. /\ future' \in [Items -> ItemPoints] /\ future'[h] # "queued"
        /\ \A w \in Items : future'[w] = future[w] \/ (w = h /\ future[w] = "queued" /\ future'[w] = "running")
    BY <2>3 DEF ItemsInv, ItemPoints
  <2>6. {m \in Pull : future'[m] = "answer"} = {m \in Pull : future[m] = "answer"}
    BY <2>5
  <2>7. \A w \in Items : future'[w] = "queued" => w \in ToSet(poolQueue')
    BY <2>4, <2>5 DEF ItemsInv
  <2>8. \A p \in Query : /\ future'[p] = "none" <=> query'[p] \in {"new", "inline", "routed", "refused"}
                         /\ query'[p] = "timeout" => future'[p] # "queued"
    BY <2>1, <2>5 DEF ItemsInv
  <2> QED BY <2>1, <2>4, <2>5, <2>6, <2>7, <2>8 DEF ItemsInv
<1>5. ASSUME NEW w \in Items, NEW how \in {"answer", "exit", "error"}, WorkDone(w, how) PROVE ItemsInv'
  <2>1. /\ UNCHANGED <<query, poolQueue>> /\ future[w] = "running" /\ future' = [future EXCEPT ![w] = how]
        /\ models' = IF w \in Pull /\ how = "answer" THEN models \cup {w} ELSE models
    BY <1>5 DEF WorkDone
  <2>2. future' \in [Items -> ItemPoints] /\ future'[w] = how /\ \A v \in Items \ {w} : future'[v] = future[v]
    BY <2>1 DEF ItemsInv, ItemPoints
  <2>3. models' = {Own} \cup {m \in Pull : future'[m] = "answer"}
    BY <2>1, <2>2 DEF ItemsInv
  <2>4. \A v \in Items : future'[v] = "queued" => v \in ToSet(poolQueue')
    BY <2>1, <2>2 DEF ItemsInv
  <2>5. \A p \in Query : /\ future'[p] = "none" <=> query'[p] \in {"new", "inline", "routed", "refused"}
                         /\ query'[p] = "timeout" => future'[p] # "queued"
    BY <2>1, <2>2 DEF ItemsInv
  <2> QED BY <2>1, <2>2, <2>3, <2>4, <2>5 DEF ItemsInv
<1>6. ASSUME NEW q \in Query, Answered(q) PROVE ItemsInv'
  BY <1>6 DEF Answered, ItemsInv, QueryPoints
<1>7. ASSUME NEW q \in Query, TimesOut(q) PROVE ItemsInv'
  BY <1>7 DEF TimesOut, ItemsInv, QueryPoints
<1>8. ASSUME NEW q \in Query, GiveUp(q) PROVE ItemsInv'
  <2>1. /\ query[q] = "late" /\ query' = [query EXCEPT ![q] = "timeout"] /\ UNCHANGED <<poolQueue, models>>
        /\ future' = [future EXCEPT ![q] = IF future[q] = "queued" THEN "cancelled" ELSE future[q]]
    BY <1>8 DEF GiveUp
  <2>2. /\ future' \in [Items -> ItemPoints] /\ future'[q] # "queued"
        /\ \A w \in Items : future'[w] = future[w] \/ (w = q /\ future[w] = "queued" /\ future'[w] = "cancelled")
    BY <2>1 DEF ItemsInv, ItemPoints
  <2>3. {m \in Pull : future'[m] = "answer"} = {m \in Pull : future[m] = "answer"}
    BY <2>2
  <2>4. \A w \in Items : future'[w] = "queued" => w \in ToSet(poolQueue')
    BY <2>1, <2>2 DEF ItemsInv
  <2>5. \A p \in Query : /\ future'[p] = "none" <=> query'[p] \in {"new", "inline", "routed", "refused"}
                         /\ query'[p] = "timeout" => future'[p] # "queued"
    BY <2>1, <2>2 DEF ItemsInv
  <2>6. query' \in [Query -> QueryPoints]
    BY <2>1 DEF ItemsInv, QueryPoints
  <2> QED BY <2>1, <2>2, <2>3, <2>4, <2>5, <2>6 DEF ItemsInv
<1>9. CASE Shutdown
  BY <1>9 DEF Shutdown, ItemsInv
<1> QED BY <1>1, <1>2, <1>3, <1>4, <1>5, <1>6, <1>7, <1>8, <1>9 DEF RouterNext

LEMMA QueriesAreCounted == CountsInv /\ ItemsInv => QueriesCounted
<1> SUFFICES ASSUME CountsInv, ItemsInv PROVE QueriesCounted
  OBVIOUS
<1> DEFINE Rest == {"inline", "refused", "exit", "routed", "waiting", "late"}
<1>1. count.completed = Cardinality(At({"answer"})) /\ count.failed = Cardinality(At({"timeout"}))
  BY DEF CountsInv
<1>2. count.routed = count.completed + count.failed + Cardinality(At(Rest))
  <2>1. At(QueryPoints \ {"new"}) = (At({"answer"}) \cup At({"timeout"})) \cup At(Rest)
    BY DEF At, QueryPoints
  <2>2. At({"answer"}) \cap At({"timeout"}) = {} /\ (At({"answer"}) \cup At({"timeout"})) \cap At(Rest) = {}
    BY DEF At
  <2>3. \A s : IsFiniteSet(At(s))
    BY QueriesFinite
  <2>4. PICK a, b, c : a = At({"answer"}) /\ b = At({"timeout"}) /\ c = At(Rest)
    OBVIOUS
  <2>5. IsFiniteSet(a) /\ IsFiniteSet(b) /\ IsFiniteSet(c) /\ a \cap b = {} /\ (a \cup b) \cap c = {}
    BY <2>2, <2>3, <2>4
  <2>6. IsFiniteSet(a \cup b) /\ Cardinality(a \cup b) = Cardinality(a) + Cardinality(b) - Cardinality({})
    BY <2>5, FS_Union
  <2>7. Cardinality((a \cup b) \cup c) = Cardinality(a \cup b) + Cardinality(c) - Cardinality({})
    BY <2>5, <2>6, FS_Union
  <2>8. Cardinality(a) \in Nat /\ Cardinality(b) \in Nat /\ Cardinality(c) \in Nat /\ Cardinality({}) = 0
    BY <2>5, FS_CardinalityType, FS_EmptySet
  <2>9. count.routed = Cardinality((a \cup b) \cup c)
    BY <2>1, <2>4 DEF CountsInv
  <2> QED BY <1>1, <2>4, <2>6, <2>7, <2>8, <2>9
<1>3. count.noops = Cardinality({w \in DOMAIN future : future[w] # "none"})
  <2>1. DOMAIN future = Items
    BY DEF ItemsInv
  <2> QED BY <2>1 DEF CountsInv, Entered
<1>4. /\ \A q \in Query : query[q] = "timeout" => future[q] # "queued"
      /\ \A w \in DOMAIN future : future[w] = "queued" => w \in ToSet(poolQueue)
      /\ models = {Own} \cup {m \in Pull : future[m] = "answer"}
  BY DEF ItemsInv
<1> QED BY <1>1, <1>2, <1>3, <1>4 DEF QueriesCounted, At

-----------------------------------------------------------------------------
(* What is queued and reported, together. *)

WorkInv ==
  /\ by = "lanes" => LanesInv
  /\ by = "pool" => PoolInv
  /\ by = "vgpu" => JobsInv
  /\ by = "router" => CountsInv /\ ItemsInv

LEMMA InitWorkInv == PlatformInit => WorkInv
<1> SUFFICES ASSUME PlatformInit PROVE LanesInv /\ PoolInv /\ JobsInv /\ CountsInv /\ ItemsInv
  BY DEF WorkInv
<1>1. LanesInv
  <2>1. /\ lane = [l \in Lane |-> <<>>] /\ pushed = 0 /\ popped = [l \in Lane |-> <<>>] /\ withdrawn = {}
    BY DEF PlatformInit, LaneInit
  <2>2. lane \in [Lane -> Seq(Nat)] /\ popped \in [Lane -> Seq(Nat)]
    BY <2>1
  <2>3. \A l \in Lane : lane[l] = <<>> /\ popped[l] = <<>>
    BY <2>1
  <2>4. Ascending(<<>>)
    BY DEF Ascending
  <2>5. \A l \in Lane : Held[l] = {}
    BY <2>3, SetOfEmpty DEF Held
  <2>6. Shared(withdrawn, pushed, Held)
    <3>1. PICK h : h = Held
      OBVIOUS
    <3>2. withdrawn = {} /\ 1..pushed = {} /\ \A l \in Lane : h[l] = {}
      BY <2>1, <2>5, <3>1
    <3>3. Shared(withdrawn, pushed, h)
      BY <3>2 DEF Shared
    <3> QED BY <3>1, <3>3
  <2>7. \A l \in Lane : \A x \in ToSet(popped[l]), y \in ToSet(lane[l]) : x < y
    BY <2>3, SetOfEmpty
  <2> QED BY <2>1, <2>2, <2>3, <2>4, <2>6, <2>7 DEF LanesInv
<1>2. PoolInv
  <2>1. /\ poolOn = FALSE /\ strayed = FALSE /\ work = <<>> /\ idle = 0 /\ busy = 0 /\ poolDied = 0
        /\ crew = 0 /\ poolCall = [c \in PoolCaller |-> NoPoolCall]
    BY DEF PlatformInit, PoolInit
  <2>2. Kept(work, {"pill"}) = <<>>
    BY <2>1, KeptEmpty
  <2>3. Level = 0
    BY <2>1, <2>2 DEF Level, Pills
  <2>4. poolOn \in BOOLEAN /\ strayed \in BOOLEAN /\ ~poolOn
    BY <2>1, Zenon
  <2>5. \A c \in PoolCaller : ~InCall(c) /\ poolCall[c].at = "no"
    BY <2>1 DEF NoPoolCall, InCall
  <2>6. poolCall \in [PoolCaller -> [at : {"no", "raise", "make", "list", "lower", "put", "join"}, n : Nat]]
    BY <2>1 DEF NoPoolCall
  <2>7. PoolTypes
    BY <2>1, <2>4, <2>5, <2>6 DEF PoolTypes
  <2>8. Fits("no", 0, poolOn, Level, crew)
    BY <2>1, <2>3, <2>4 DEF Fits
  <2> QED BY <2>5, <2>7, <2>8 DEF PoolInv
<1>3. JobsInv
  <2>1. gpu = [j \in Gpu |-> NoJob] /\ task = [j \in Gpu |-> "none"] /\ did = [j \in Gpu |-> "nothing"]
    BY DEF PlatformInit, GpuInit
  <2>2. JobAt(NoJob, "none", "nothing")
    BY DEF JobAt, NoJob
  <2>3. NoJob \in [backend : {"none", "local", "cloud"},
                   status : {"none", "queued", "running", "completed", "failed"},
                   finished : BOOLEAN, known : BOOLEAN]
    BY DEF NoJob
  <2> QED BY <2>1, <2>2, <2>3 DEF JobsInv
<1>4. /\ count = [routed |-> 0, completed |-> 0, failed |-> 0, noops |-> 0]
      /\ query = [q \in Query |-> "new"] /\ future = [w \in Items |-> "none"]
      /\ poolQueue = <<>> /\ models = {Own}
  BY DEF PlatformInit, RouterInit, Items
<1>5. CountsInv
  <2>1. At({"answer"}) = {} /\ At({"timeout"}) = {} /\ At(QueryPoints \ {"new"}) = {} /\ Entered = {}
    BY <1>4 DEF At, Entered
  <2>2. Cardinality({}) = 0
    BY FS_EmptySet
  <2> QED BY <1>4, <2>1, <2>2 DEF CountsInv
<1>6. ItemsInv
  <2>1. query \in [Query -> QueryPoints] /\ future \in [Items -> ItemPoints] /\ poolQueue \in Seq(Items)
    BY <1>4 DEF QueryPoints, ItemPoints
  <2>2. \A q \in Query : query[q] = "new" /\ q \in Items
    BY <1>4 DEF Items
  <2>3. \A w \in Items : future[w] = "none"
    BY <1>4
  <2>4. models = {Own} \cup {m \in Pull : future[m] = "answer"}
    BY <1>4, <2>3 DEF Items
  <2> QED BY <2>1, <2>2, <2>3, <2>4 DEF ItemsInv
<1> QED BY <1>1, <1>2, <1>3, <1>5, <1>6

LEMMA LanesKeep == ASSUME LanesInv, LaneNext PROVE LanesInv'
BY PushKeeps, PopKeeps, WithdrawHolds DEF LaneNext

LEMMA WorkKeeps == ASSUME WorkInv, PlatformNext PROVE WorkInv'
<1>1. by' = by
  BY DEF PlatformNext
<1>2. CASE by = "lanes"
  <2>1. LaneNext
    BY <1>2 DEF PlatformNext
  <2> QED BY <1>1, <1>2, <2>1, LanesKeep DEF WorkInv
<1>3. CASE by = "pool"
  <2>1. PoolNext
    BY <1>3 DEF PlatformNext
  <2> QED BY <1>1, <1>3, <2>1, PoolKeeps DEF WorkInv
<1>4. CASE by = "vgpu"
  <2>1. GpuNext
    BY <1>4 DEF PlatformNext
  <2> QED BY <1>1, <1>4, <2>1, JobsKeep DEF WorkInv
<1>5. CASE by = "router"
  <2>1. RouterNext
    BY <1>5 DEF PlatformNext
  <2> QED BY <1>1, <1>5, <2>1, CountsKeep, ItemsKeep DEF WorkInv
<1> QED BY <1>1, <1>2, <1>3, <1>4, <1>5 DEF WorkInv

LEMMA WorkStays == ASSUME WorkInv, UNCHANGED <<poolsVars, dispatchVars, by>> PROVE WorkInv'
<1>1. LanesInv => LanesInv'
  BY DEF poolsVars, laneVars, LanesInv, Held, Shared
<1>2. PoolInv => PoolInv'
  BY DEF poolsVars, poolVars, threadVars, PoolInv, PoolTypes, InCall, Level, Pills
<1>3. JobsInv => JobsInv'
  BY DEF dispatchVars, gpuVars, JobsInv, JobAt
<1>4. CountsInv => CountsInv'
  BY DEF dispatchVars, routerVars, CountsInv, At, Entered
<1>5. ItemsInv => ItemsInv'
  BY DEF dispatchVars, routerVars, ItemsInv
<1> QED BY <1>1, <1>2, <1>3, <1>4, <1>5 DEF WorkInv

\* What is pushed waits in its lane in order, was popped or withdrawn; the pool
\* keeps its size; a job of /dev/vgpu shows what became of its function; and the
\* router counts each query once (SchedulerQueue, WorkerPool, ComputeDispatcher,
\* CloudAIRouter).
THEOREM WorkIsReported == PlatformSpec => []WorkReported
<1>1. WorkInv => WorkReported
  BY LanesAreFifo, PoolIsSized, JobsAreTrue, QueriesAreCounted DEF WorkInv, WorkReported
<1>2. WorkInv /\ [PlatformNext]_<<schedVars, poolsVars, observerVars, fileVars, dispatchVars, keptVars, assistantVars, webVars, by>> => WorkInv'
  BY WorkKeeps, WorkStays
<1> QED BY InitWorkInv, <1>1, <1>2, PTL DEF PlatformSpec

-----------------------------------------------------------------------------
(* The task scheduler.  What is booked follows how far submit() came, and  *)
(* what cancel() has taken back how far each cancel() is.                  *)

LEMMA MaxOfZeroAnd == ASSUME NEW n \in Int PROVE Max({0, n}) = IF n >= 0 THEN n ELSE 0
<1>1. CASE n >= 0
  <2>1. \A x \in {0, n} : (\A y \in {0, n} : x >= y) => x = n
    BY <1>1
  <2>2. n \in {0, n} /\ \A y \in {0, n} : n >= y
    BY <1>1
  <2> QED BY <1>1, <2>1, <2>2 DEF Max
<1>2. CASE ~(n >= 0)
  <2>1. \A x \in {0, n} : (\A y \in {0, n} : x >= y) => x = 0
    BY <1>2
  <2>2. 0 \in {0, n} /\ \A y \in {0, n} : 0 >= y
    BY <1>2
  <2> QED BY <1>2, <2>1, <2>2 DEF Max
<1> QED BY <1>1, <1>2

Past == {"stored", "raised"}
PastLedger == Past \cup {"ledgered"}
PastCount == PastLedger \cup {"counted"}
PastMemory == PastCount \cup {"allocated"}
OnTheWay == {"looked", "marked", "taken", "released", "discounted"}

SchedTypes ==
  /\ submit \in [Job -> PastMemory \cup {"new", "stuck", "checked"}]
  /\ record \in [Job -> {"none", "pending", "queued", "cancelled"}]
  /\ slot \in Nat /\ active \in Nat /\ ledger \in Seq(Job) /\ closed \subseteq Job
  /\ cancel \in [Canceller -> [at : OnTheWay \cup {"idle"}, job : Job \cup {NoCancel.job}, mb : Nat]]
  /\ uncounted \in [Job -> Nat]

\* A task that can be cancelled was stored, and one that was cancelled keeps
\* a record; a cancel() that has come to the ledger took its task off the count.
CallsInv ==
  /\ \A j \in Job : /\ record[j] # "none" => submit[j] \in Past
                    /\ uncounted[j] > 0 => record[j] # "none"
  /\ \A c \in Canceller :
       /\ cancel[c].at = "idle" => cancel[c] = NoCancel
       /\ cancel[c].at # "idle" => cancel[c].job \in Job /\ record[cancel[c].job] # "none"
       /\ cancel[c].at = "discounted" => uncounted[cancel[c].job] > 0

\* Memory is held from the allocation to the first cancel() that takes it.
MemoryInv ==
  /\ DOMAIN ramOf \subseteq Job
  /\ \A j \in DOMAIN ramOf :
       /\ ramOf[j] = JobMb[j] /\ submit[j] \in PastMemory
       /\ record[j] = "cancelled" =>
            \E c \in Canceller : cancel[c].job = j /\ cancel[c].at = "marked"

BookedJobs == {j \in QuotaJob : submit[j] \in PastCount}
CountInv ==
  /\ active <= Cardinality(BookedJobs)
  /\ (\A j \in Job : uncounted[j] <= 1) =>
       active = Cardinality({j \in BookedJobs : uncounted[j] = 0})

Distinct(s) == \A i, j \in DOMAIN s : s[i] = s[j] => i = j
LedgerInv ==
  /\ Len(ledger) <= LedgerMax /\ Distinct(ledger)
  /\ \A j \in ToSet(ledger) : submit[j] \in PastLedger
  /\ closed \subseteq {j \in Job : uncounted[j] > 0}

SchedInv == SchedTypes /\ CallsInv /\ MemoryInv /\ RamBalanced /\ CountInv /\ LedgerInv

-----------------------------------------------------------------------------

\* The steps of submit() and of cancel(), by name.
Submits(j) == \/ QuotaCheck(j) \/ RamAllocate(j) \/ Counted(j) \/ LedgerStart(j)
              \/ StoreRecord(j) \/ MarkQueued(j)
Cancels(c) == \/ \E j \in Job : CancelLook(c, j)
              \/ CancelMark(c) \/ RamTake(c) \/ SlotRelease(c) \/ CountDown(c) \/ LedgerFinish(c)

LEMMA IdleIsIdle == NoCancel.at = "idle" /\ NoCancel.mb = 0
                    /\ NoCancel \in [at : {"idle"}, job : {NoCancel.job}, mb : {0}]
BY DEF NoCancel

LEMMA SubmitKeepsTypes == ASSUME SchedTypes, CallsInv, NEW j \in Job, Submits(j) PROVE SchedTypes' /\ CallsInv'
<1> USE SchedulingAssumption DEF Goes, PastMemory, PastCount, PastLedger, Past
<1>0. JobMb[j] \in Nat
  OBVIOUS
<1>1. ASSUME QuotaCheck(j) PROVE SchedTypes' /\ CallsInv'
  <2>1. /\ \/ submit' = [submit EXCEPT ![j] = "stuck"]
           \/ submit' = [submit EXCEPT ![j] = "checked"]
        /\ submit[j] = "new"
        /\ UNCHANGED <<record, slot, active, ledger, closed, cancel, uncounted>>
    BY <1>1 DEF QuotaCheck
  <2>2. PICK s \in {"stuck", "checked"} : submit' = [submit EXCEPT ![j] = s]
    BY <2>1
  <2>3. SchedTypes'
    BY <2>1, <2>2 DEF SchedTypes
  <2>4. CallsInv'
    BY <2>1, <2>2 DEF SchedTypes, CallsInv
  <2> QED BY <2>3, <2>4
<1>2. ASSUME RamAllocate(j) PROVE SchedTypes' /\ CallsInv'
  BY <1>0, <1>2 DEF RamAllocate, SchedTypes, CallsInv
<1>3. ASSUME Counted(j) PROVE SchedTypes' /\ CallsInv'
  BY <1>3 DEF Counted, SchedTypes, CallsInv
<1>4. ASSUME LedgerStart(j) PROVE SchedTypes' /\ CallsInv'
  <2>1. Append(ledger, j) \in Seq(Job) /\ Tail(Append(ledger, j)) \in Seq(Job)
    <3>1. PICK s : s = Append(ledger, j)
      OBVIOUS
    <3>2. s \in Seq(Job) /\ s # <<>>
      BY <3>1 DEF SchedTypes
    <3> QED BY <3>1, <3>2
  <2> QED BY <1>4, <2>1 DEF LedgerStart, SchedTypes, CallsInv
<1>5. ASSUME StoreRecord(j) PROVE SchedTypes' /\ CallsInv'
  BY <1>5 DEF StoreRecord, SchedTypes, CallsInv
<1>6. ASSUME MarkQueued(j) PROVE SchedTypes' /\ CallsInv'
  BY <1>6 DEF MarkQueued, SchedTypes, CallsInv
<1> QED BY <1>1, <1>2, <1>3, <1>4, <1>5, <1>6 DEF Submits

\* A cancel() changes its own place only.
LEMMA CancelMoves ==
  ASSUME SchedTypes, CallsInv, MemoryInv, NEW c \in Canceller, Cancels(c)
  PROVE  /\ \A d \in Canceller \ {c} : cancel'[d] = cancel[d]
         /\ cancel' \in [Canceller -> [at : OnTheWay \cup {"idle"}, job : Job \cup {NoCancel.job}, mb : Nat]]
         /\ cancel'[c].at = "idle" => cancel'[c] = NoCancel
<1> DEFINE T == [at : OnTheWay \cup {"idle"}, job : Job \cup {NoCancel.job}, mb : Nat]
<1>1. cancel[c] \in T /\ cancel \in [Canceller -> T]
  BY DEF SchedTypes
<1>2. ASSUME NEW r \in T, cancel' = [cancel EXCEPT ![c] = r], r.at # "idle" \/ r = NoCancel
      PROVE  /\ \A d \in Canceller \ {c} : cancel'[d] = cancel[d]
             /\ cancel' \in [Canceller -> T]
             /\ cancel'[c].at = "idle" => cancel'[c] = NoCancel
  BY <1>1, <1>2
<1>3. ASSUME NEW a \in OnTheWay, NEW m \in Nat
      PROVE  /\ [cancel[c] EXCEPT !.at = a] \in T /\ [cancel[c] EXCEPT !.at = a].at # "idle"
             /\ [cancel[c] EXCEPT !.at = a, !.mb = m] \in T /\ [cancel[c] EXCEPT !.at = a, !.mb = m].at # "idle"
  BY <1>1 DEF OnTheWay
<1>4. ASSUME NEW a \in OnTheWay, cancel' = [cancel EXCEPT ![c].at = a]
      PROVE  cancel' = [cancel EXCEPT ![c] = [cancel[c] EXCEPT !.at = a]]
  BY <1>4
<1>5. ASSUME NEW j \in Job, CancelLook(c, j)
      PROVE  /\ \A d \in Canceller \ {c} : cancel'[d] = cancel[d]
             /\ cancel' \in [Canceller -> T]
             /\ cancel'[c].at = "idle" => cancel'[c] = NoCancel
  <2>1. [NoCancel EXCEPT !.at = "looked", !.job = j] \in T /\ [NoCancel EXCEPT !.at = "looked", !.job = j].at = "looked"
    BY DEF NoCancel, OnTheWay
  <2> HIDE DEF T
  <2> QED BY <1>2, <1>5, <2>1 DEF CancelLook
<1>6. ASSUME CancelMark(c) \/ SlotRelease(c) \/ CountDown(c)
      PROVE  /\ \A d \in Canceller \ {c} : cancel'[d] = cancel[d]
             /\ cancel' \in [Canceller -> T]
             /\ cancel'[c].at = "idle" => cancel'[c] = NoCancel
  <2>1. PICK a \in OnTheWay : cancel' = [cancel EXCEPT ![c].at = a]
    BY <1>6 DEF CancelMark, SlotRelease, CountDown, Step, OnTheWay
  <2> HIDE DEF T
  <2> QED BY <1>2, <1>3, <1>4, <2>1
<1>7. ASSUME RamTake(c)
      PROVE  /\ \A d \in Canceller \ {c} : cancel'[d] = cancel[d]
             /\ cancel' \in [Canceller -> T]
             /\ cancel'[c].at = "idle" => cancel'[c] = NoCancel
  <2> DEFINE m == IF cancel[c].job \in DOMAIN ramOf THEN ramOf[cancel[c].job] ELSE 0
  <2>1. m \in Nat
    BY SchedulingAssumption DEF MemoryInv
  <2>2. cancel' = [cancel EXCEPT ![c].at = "taken", ![c].mb = m]
    BY <1>7 DEF RamTake
  <2> HIDE DEF m
  <2>3. cancel' = [cancel EXCEPT ![c] = [cancel[c] EXCEPT !.at = "taken", !.mb = m]]
    BY <1>1, <2>2
  <2>4. [cancel[c] EXCEPT !.at = "taken", !.mb = m] \in T /\ [cancel[c] EXCEPT !.at = "taken", !.mb = m].at # "idle"
    <3>1. "taken" \in OnTheWay
      BY DEF OnTheWay
    <3> HIDE DEF T
    <3> QED BY <1>3, <2>1, <3>1
  <2> HIDE DEF T
  <2> QED BY <1>2, <2>3, <2>4
<1>8. ASSUME LedgerFinish(c)
      PROVE  /\ \A d \in Canceller \ {c} : cancel'[d] = cancel[d]
             /\ cancel' \in [Canceller -> T]
             /\ cancel'[c].at = "idle" => cancel'[c] = NoCancel
  <2>1. NoCancel \in T
    BY IdleIsIdle
  <2> QED BY <1>2, <1>8, <2>1 DEF LedgerFinish
<1> QED BY <1>5, <1>6, <1>7, <1>8 DEF Cancels

LEMMA CancelEffect ==
  ASSUME SchedTypes, NEW c \in Canceller
  PROVE  /\ \A j \in Job : CancelLook(c, j) => /\ cancel[c].at = "idle" /\ cancel'[c].at = "looked"
                                               /\ cancel'[c].job = j
         /\ CancelMark(c) => /\ cancel[c].at = "looked" /\ cancel'[c].at = "marked"
                             /\ cancel'[c].job = cancel[c].job
         /\ RamTake(c) => /\ cancel[c].at = "marked" /\ cancel'[c].at = "taken"
                          /\ cancel'[c].job = cancel[c].job
                          /\ cancel[c].job \in DOMAIN ramOf => cancel'[c].mb = ramOf[cancel[c].job]
                          /\ cancel[c].job \notin DOMAIN ramOf => cancel'[c].mb = 0
         /\ SlotRelease(c) => /\ cancel[c].at = "taken" /\ cancel'[c].at = "released"
                              /\ cancel'[c].job = cancel[c].job
         /\ CountDown(c) => /\ cancel[c].at = "released" /\ cancel'[c].at = "discounted"
                            /\ cancel'[c].job = cancel[c].job
         /\ LedgerFinish(c) => /\ cancel[c].at = "discounted" /\ cancel'[c] = NoCancel
<1>1. cancel[c] \in [at : OnTheWay \cup {"idle"}, job : Job \cup {NoCancel.job}, mb : Nat]
      /\ cancel \in [Canceller -> [at : OnTheWay \cup {"idle"}, job : Job \cup {NoCancel.job}, mb : Nat]]
  BY DEF SchedTypes
<1>2. \A j \in Job : CancelLook(c, j) => /\ cancel[c].at = "idle" /\ cancel'[c].at = "looked"
                                         /\ cancel'[c].job = j
  BY <1>1, IdleIsIdle DEF CancelLook, NoCancel
<1>3. CancelMark(c) => /\ cancel[c].at = "looked" /\ cancel'[c].at = "marked"
                       /\ cancel'[c].job = cancel[c].job
  BY <1>1 DEF CancelMark, Step
<1>4. RamTake(c) => /\ cancel[c].at = "marked" /\ cancel'[c].at = "taken"
                    /\ cancel'[c].job = cancel[c].job
                    /\ cancel[c].job \in DOMAIN ramOf => cancel'[c].mb = ramOf[cancel[c].job]
                    /\ cancel[c].job \notin DOMAIN ramOf => cancel'[c].mb = 0
  BY <1>1 DEF RamTake
<1>5. SlotRelease(c) => /\ cancel[c].at = "taken" /\ cancel'[c].at = "released"
                        /\ cancel'[c].job = cancel[c].job
  BY <1>1 DEF SlotRelease, Step
<1>6. CountDown(c) => /\ cancel[c].at = "released" /\ cancel'[c].at = "discounted"
                      /\ cancel'[c].job = cancel[c].job
  BY <1>1 DEF CountDown, Step
<1>7. LedgerFinish(c) => /\ cancel[c].at = "discounted" /\ cancel'[c] = NoCancel
  BY <1>1 DEF LedgerFinish
<1> QED BY <1>2, <1>3, <1>4, <1>5, <1>6, <1>7

LEMMA CancelKeepsTypes ==
  ASSUME SchedTypes, CallsInv, MemoryInv, NEW c \in Canceller, Cancels(c)
  PROVE  SchedTypes' /\ CallsInv'
<1> DEFINE j == cancel[c].job
<1>1. /\ \A d \in Canceller \ {c} : cancel'[d] = cancel[d]
      /\ cancel' \in [Canceller -> [at : OnTheWay \cup {"idle"}, job : Job \cup {NoCancel.job}, mb : Nat]]
      /\ cancel'[c].at = "idle" => cancel'[c] = NoCancel
  BY CancelMoves
<1>2. UNCHANGED submit
  BY DEF Cancels, CancelLook, CancelMark, RamTake, SlotRelease, CountDown, LedgerFinish
<1>3. /\ record' \in [Job -> {"none", "pending", "queued", "cancelled"}]
      /\ \A k \in Job : record[k] # "none" <=> record'[k] # "none"
  <2>1. CASE CancelMark(c)
    <3>1. j \in Job /\ record[j] # "none"
      BY <2>1, CancelEffect DEF CallsInv
    <3> QED BY <2>1, <3>1 DEF CancelMark, SchedTypes
  <2>2. CASE UNCHANGED record
    BY <2>2 DEF SchedTypes
  <2> QED BY <2>1, <2>2 DEF Cancels, CancelLook, RamTake, SlotRelease, CountDown, LedgerFinish
<1>4. slot' \in Nat
  <2>1. CASE SlotRelease(c)
    <3>1. PICK n \in Int : n = slot - cancel[c].mb
      BY DEF SchedTypes
    <3>2. slot' = Max({0, n})
      BY <2>1, <3>1 DEF SlotRelease
    <3> QED BY <3>2, MaxOfZeroAnd
  <2>2. CASE UNCHANGED slot
    BY <2>2 DEF SchedTypes
  <2> QED BY <2>1, <2>2 DEF Cancels, CancelLook, RamTake, CancelMark, CountDown, LedgerFinish
<1>5. active' \in Nat
  <2>1. CASE CountDown(c)
    <3>1. PICK n \in Int : n = active - 1
      BY DEF SchedTypes
    <3>2. active' = Max({0, n}) \/ active' = active
      BY <2>1, <3>1 DEF CountDown
    <3>3. Max({0, n}) \in Nat /\ active \in Nat
      <4>1. Max({0, n}) \in Nat
        BY MaxOfZeroAnd
      <4> QED BY <4>1 DEF SchedTypes
    <3> QED BY <3>2, <3>3
  <2>2. CASE UNCHANGED active
    BY <2>2 DEF SchedTypes
  <2> QED BY <2>1, <2>2 DEF Cancels, CancelLook, RamTake, CancelMark, SlotRelease, LedgerFinish
<1>6. /\ uncounted' \in [Job -> Nat] /\ \A k \in Job : uncounted'[k] >= uncounted[k]
      /\ \A k \in Job : uncounted'[k] > 0 => record[k] # "none"
      /\ cancel'[c].at = "discounted" => uncounted'[cancel'[c].job] > 0
  <2>1. CASE CountDown(c)
    <3>1. j \in Job /\ record[j] # "none" /\ cancel'[c].job = j
      BY <2>1, CancelEffect DEF CallsInv
    <3>2. uncounted' = [uncounted EXCEPT ![j] = @ + 1]
      BY <2>1 DEF CountDown
    <3> HIDE DEF j
    <3>3. PICK n \in Nat : n = uncounted[j]
      BY <3>1 DEF SchedTypes
    <3>4. uncounted'[j] = n + 1 /\ \A k \in Job \ {j} : uncounted'[k] = uncounted[k]
      BY <3>1, <3>2, <3>3 DEF SchedTypes
    <3>5. uncounted' \in [Job -> Nat]
      BY <3>1, <3>2, <3>3 DEF SchedTypes
    <3>6. \A k \in Job : uncounted'[k] >= uncounted[k] /\ (uncounted'[k] > 0 => record[k] # "none")
      <4> TAKE k \in Job
      <4>1. uncounted[k] \in Nat /\ (uncounted[k] > 0 => record[k] # "none")
        BY DEF SchedTypes, CallsInv
      <4> QED BY <3>1, <3>3, <3>4, <4>1
    <3> QED BY <3>1, <3>3, <3>4, <3>5, <3>6
  <2>2. CASE UNCHANGED uncounted /\ cancel'[c].at # "discounted"
    <3>1. \A k \in Job : uncounted[k] \in Nat
      BY DEF SchedTypes
    <3> QED BY <2>2, <3>1 DEF SchedTypes, CallsInv
  <2> QED BY <2>1, <2>2, CancelEffect, IdleIsIdle
          DEF Cancels, CancelLook, RamTake, CancelMark, SlotRelease, LedgerFinish
<1>7. cancel'[c].at # "idle" => cancel'[c].job \in Job /\ record'[cancel'[c].job] # "none"
  <2>1. CASE \E k \in Job : CancelLook(c, k)
    <3>1. PICK k \in Job : CancelLook(c, k)
      BY <2>1
    <3>2. cancel'[c].job = k /\ record[k] # "none"
      BY <3>1, CancelEffect DEF CancelLook
    <3> QED BY <1>3, <3>2
  <2>2. CASE cancel'[c].job = j /\ cancel[c].at # "idle"
    BY <1>3, <2>2 DEF CallsInv
  <2>3. CASE cancel'[c].at = "idle"
    BY <2>3
  <2> QED BY <2>1, <2>2, <2>3, CancelEffect, IdleIsIdle DEF Cancels
<1>8. ledger' \in Seq(Job) /\ closed' \subseteq Job
  <2>1. CASE LedgerFinish(c)
    <3>1. j \in Job /\ UNCHANGED ledger
      BY <2>1, CancelEffect DEF CallsInv, LedgerFinish
    <3> QED BY <2>1, <3>1 DEF LedgerFinish, SchedTypes
  <2>2. CASE UNCHANGED <<ledger, closed>>
    BY <2>2 DEF SchedTypes
  <2> QED BY <2>1, <2>2 DEF Cancels, CancelLook, RamTake, CancelMark, CountDown, SlotRelease
<1>9. SchedTypes'
  BY <1>1, <1>2, <1>3, <1>4, <1>5, <1>6, <1>8 DEF SchedTypes
<1>10. CallsInv'
  <2>1. \A k \in Job : /\ record'[k] # "none" => submit'[k] \in Past
                       /\ uncounted'[k] > 0 => record'[k] # "none"
    BY <1>2, <1>3, <1>6 DEF CallsInv
  <2>2. ASSUME NEW d \in Canceller
        PROVE  /\ cancel'[d].at = "idle" => cancel'[d] = NoCancel
               /\ cancel'[d].at # "idle" => cancel'[d].job \in Job /\ record'[cancel'[d].job] # "none"
               /\ cancel'[d].at = "discounted" => uncounted'[cancel'[d].job] > 0
    <3>1. CASE d = c
      BY <1>1, <1>6, <1>7, <3>1
    <3>2. CASE d # c
      <4>1. cancel'[d] = cancel[d]
        BY <1>1, <3>2
      <4>2. /\ cancel[d].at = "idle" => cancel[d] = NoCancel
            /\ cancel[d].at # "idle" => cancel[d].job \in Job /\ record[cancel[d].job] # "none"
            /\ cancel[d].at = "discounted" => uncounted[cancel[d].job] > 0
        BY DEF CallsInv
      <4>3. \A k \in Job : uncounted[k] \in Nat /\ uncounted'[k] \in Nat
        BY <1>6 DEF SchedTypes
      <4>4. PICK k : k = cancel[d].job
        OBVIOUS
      <4>5. cancel[d].at = "discounted" => k \in Job /\ uncounted[k] > 0
        BY <4>2, <4>4
      <4>6. cancel[d].at = "discounted" => uncounted'[k] > 0
        BY <1>6, <4>3, <4>5
      <4> QED BY <1>3, <4>1, <4>2, <4>4, <4>6
    <3> QED BY <3>1, <3>2
  <2> QED BY <2>1, <2>2 DEF CallsInv
<1> QED BY <1>9, <1>10

-----------------------------------------------------------------------------

LEMMA SubmitKeepsMemory ==
  ASSUME SchedTypes, CallsInv, MemoryInv, NEW j \in Job, Submits(j) PROVE MemoryInv'
<1>1. UNCHANGED cancel
  BY DEF Submits, QuotaCheck, RamAllocate, Counted, LedgerStart, StoreRecord, MarkQueued
<1>2. CASE RamAllocate(j)
  <2>1. submit[j] = "checked" /\ submit' = [submit EXCEPT ![j] = "allocated"] /\ UNCHANGED record
    BY <1>2 DEF RamAllocate, Goes
  <2>2. j \notin DOMAIN ramOf /\ record[j] # "cancelled"
    BY <2>1 DEF MemoryInv, CallsInv, PastMemory, PastCount, PastLedger, Past
  <2>3. \A k \in Job \ {j} : submit'[k] = submit[k]
    BY <2>1 DEF SchedTypes
  <2>4. submit'[j] = "allocated"
    BY <2>1 DEF SchedTypes
  <2>5. CASE UNCHANGED ramOf
    BY <1>1, <2>1, <2>2, <2>3, <2>5 DEF MemoryInv
  <2>6. CASE ramOf' = [k \in DOMAIN ramOf \cup {j} |-> JobMb[k]]
    <3>1. DOMAIN ramOf' = DOMAIN ramOf \cup {j} /\ \A k \in DOMAIN ramOf' : ramOf'[k] = JobMb[k]
      BY <2>6
    <3>2. ASSUME NEW k \in DOMAIN ramOf'
          PROVE  /\ submit'[k] \in PastMemory
                 /\ record'[k] = "cancelled" =>
                      \E c \in Canceller : cancel'[c].job = k /\ cancel'[c].at = "marked"
      <4>1. CASE k = j
        BY <2>1, <2>2, <2>4, <4>1 DEF PastMemory
      <4>2. CASE k # j
        BY <1>1, <2>1, <2>3, <3>1, <4>2 DEF MemoryInv
      <4> QED BY <4>1, <4>2
    <3> QED BY <3>1, <3>2 DEF MemoryInv
  <2> QED BY <1>2, <2>5, <2>6 DEF RamAllocate
<1>3. CASE UNCHANGED ramOf /\ (UNCHANGED record \/ record' = [record EXCEPT ![j] = "pending"]
                                \/ record' = [record EXCEPT ![j] = "queued"])
          /\ ~RamAllocate(j)
  <2>1. \A k \in Job : record'[k] = "cancelled" => record[k] = "cancelled"
    BY <1>3 DEF SchedTypes
  <2>2. PICK s \in {"stuck", "checked", "counted", "ledgered", "stored", "raised"} :
           submit' = [submit EXCEPT ![j] = s] /\ (submit[j] \in PastMemory => s \in PastMemory)
    <3> USE DEF Goes, PastMemory, PastCount, PastLedger, Past
    <3>1. CASE QuotaCheck(j)
      BY <3>1 DEF QuotaCheck
    <3>2. CASE Counted(j) \/ LedgerStart(j)
      BY <3>2 DEF Counted, LedgerStart
    <3>3. CASE StoreRecord(j) \/ MarkQueued(j)
      BY <3>3 DEF StoreRecord, MarkQueued
    <3> QED BY <1>3, <3>1, <3>2, <3>3 DEF Submits
  <2>3. \A k \in Job : submit[k] \in PastMemory => submit'[k] \in PastMemory
    BY <2>2 DEF SchedTypes
  <2> QED BY <1>1, <1>3, <2>1, <2>3 DEF MemoryInv
<1> QED BY <1>2, <1>3 DEF Submits, QuotaCheck, Counted, LedgerStart, StoreRecord, MarkQueued

LEMMA CancelKeepsMemory ==
  ASSUME SchedTypes, CallsInv, MemoryInv, NEW c \in Canceller, Cancels(c) PROVE MemoryInv'
<1>1. \A d \in Canceller \ {c} : cancel'[d] = cancel[d]
  BY CancelMoves
<1>2. UNCHANGED submit
  BY DEF Cancels, CancelLook, CancelMark, RamTake, SlotRelease, CountDown, LedgerFinish
<1>3. CASE CancelMark(c)
  <2>1. cancel'[c].at = "marked" /\ cancel[c].at = "looked" /\ cancel'[c].job = cancel[c].job
        /\ cancel[c].job \in Job /\ UNCHANGED ramOf
    BY <1>3, CancelEffect DEF CancelMark, CallsInv
  <2>2. record' = [record EXCEPT ![cancel[c].job] = "cancelled"]
    BY <1>3 DEF CancelMark
  <2>3. ASSUME NEW k \in DOMAIN ramOf, record'[k] = "cancelled"
        PROVE  \E d \in Canceller : cancel'[d].job = k /\ cancel'[d].at = "marked"
    <3>1. CASE k = cancel[c].job
      BY <2>1, <3>1
    <3>2. CASE k # cancel[c].job
      <4>1. record[k] = "cancelled"
        BY <2>2, <2>3, <3>2 DEF SchedTypes, MemoryInv
      <4>2. PICK d \in Canceller : cancel[d].job = k /\ cancel[d].at = "marked"
        BY <4>1 DEF MemoryInv
      <4> QED BY <1>1, <2>1, <4>2
    <3> QED BY <3>1, <3>2
  <2> QED BY <1>2, <2>1, <2>3 DEF MemoryInv
<1>4. CASE RamTake(c)
  <2>1. cancel[c].at = "marked" /\ UNCHANGED record
        /\ ramOf' = [k \in DOMAIN ramOf \ {cancel[c].job} |-> ramOf[k]]
    BY <1>4 DEF RamTake
  <2>2. ASSUME NEW k \in DOMAIN ramOf', record[k] = "cancelled"
        PROVE  \E d \in Canceller : cancel'[d].job = k /\ cancel'[d].at = "marked"
    <3>1. k \in DOMAIN ramOf /\ k # cancel[c].job
      BY <2>1
    <3>2. PICK d \in Canceller : cancel[d].job = k /\ cancel[d].at = "marked"
      BY <2>2, <3>1 DEF MemoryInv
    <3> QED BY <1>1, <3>1, <3>2
  <2> QED BY <1>2, <2>1, <2>2 DEF MemoryInv
<1>5. CASE cancel[c].at # "marked" /\ UNCHANGED <<record, ramOf>>
  <2>1. ASSUME NEW k \in DOMAIN ramOf, record[k] = "cancelled"
        PROVE  \E d \in Canceller : cancel'[d].job = k /\ cancel'[d].at = "marked"
    <3>1. PICK d \in Canceller : cancel[d].job = k /\ cancel[d].at = "marked"
      BY <2>1 DEF MemoryInv
    <3> QED BY <1>1, <1>5, <3>1
  <2> QED BY <1>2, <1>5, <2>1 DEF MemoryInv
<1>6. CASE \E j \in Job : CancelLook(c, j)
  BY <1>5, <1>6, CancelEffect DEF CancelLook
<1>7. CASE SlotRelease(c) \/ CountDown(c) \/ LedgerFinish(c)
  BY <1>5, <1>7, CancelEffect DEF SlotRelease, CountDown, LedgerFinish
<1> QED BY <1>3, <1>4, <1>6, <1>7 DEF Cancels

-----------------------------------------------------------------------------
(* What is handed out is in the table or on its way back. *)

OnWay == {c \in Canceller : cancel[c].at = "taken"}
WayMb == [c \in OnWay |-> cancel[c].mb]

LEMMA BalancedMeans ==
  /\ RamBalanced <=> /\ slot <= PoolMb
                     /\ slot = Total(ramOf, DOMAIN ramOf) + Total(WayMb, OnWay)
  /\ RamBalanced' <=> /\ slot' <= PoolMb
                      /\ slot' = Total(ramOf', DOMAIN ramOf') + Total(WayMb', OnWay')
BY DEF RamBalanced, Total, WayMb, OnWay

LEMMA SumsAreNat ==
  ASSUME SchedTypes, MemoryInv
  PROVE  /\ IsFiniteSet(OnWay) /\ IsFiniteSet(DOMAIN ramOf)
         /\ \A c \in OnWay : WayMb[c] \in Nat
         /\ \A j \in DOMAIN ramOf : ramOf[j] \in Nat
         /\ Total(ramOf, DOMAIN ramOf) \in Nat /\ Total(WayMb, OnWay) \in Nat
<1>1. IsFiniteSet(OnWay) /\ IsFiniteSet(DOMAIN ramOf)
  BY SchedulingAssumption, FS_Subset DEF MemoryInv, OnWay
<1>2. (\A c \in OnWay : WayMb[c] \in Nat) /\ \A j \in DOMAIN ramOf : ramOf[j] \in Nat
  BY SchedulingAssumption DEF MemoryInv, OnWay, WayMb, SchedTypes
<1> QED BY <1>1, <1>2, TotalFewer

LEMMA WayStill ==
  ASSUME SchedTypes, MemoryInv, OnWay' = OnWay, \A c \in OnWay : cancel'[c].mb = cancel[c].mb
  PROVE  Total(WayMb', OnWay') = Total(WayMb, OnWay)
<1>1. \A c \in OnWay : WayMb[c] \in Int /\ WayMb[c] = (WayMb')[c]
  BY SumsAreNat DEF WayMb
<1> QED BY <1>1, TotalAgrees, SumsAreNat

LEMMA SubmitKeepsBalance ==
  ASSUME SchedTypes, CallsInv, MemoryInv, RamBalanced, NEW j \in Job, Submits(j)
  PROVE  RamBalanced'
<1>1. UNCHANGED cancel
  BY DEF Submits, QuotaCheck, RamAllocate, Counted, LedgerStart, StoreRecord, MarkQueued
<1>2. Total(WayMb', OnWay') = Total(WayMb, OnWay)
  BY <1>1, WayStill DEF OnWay
<1>3. CASE UNCHANGED <<ramOf, slot>>
  BY <1>2, <1>3, BalancedMeans
<1>4. CASE RamAllocate(j) /\ ~UNCHANGED <<ramOf, slot>>
  <2>1. ramOf' = [k \in DOMAIN ramOf \cup {j} |-> JobMb[k]] /\ slot' = slot + JobMb[j]
        /\ slot + JobMb[j] <= PoolMb
    BY <1>4 DEF RamAllocate
  <2>2. j \notin DOMAIN ramOf
    BY <1>4 DEF RamAllocate, Goes, MemoryInv, PastMemory, PastCount, PastLedger, Past
  <2>3. JobMb[j] \in Nat
    BY SchedulingAssumption
  <2>4. DOMAIN ramOf' = DOMAIN ramOf \cup {j} /\ ramOf'[j] = JobMb[j]
        /\ \A k \in DOMAIN ramOf : ramOf'[k] = ramOf[k]
    BY <2>1 DEF MemoryInv
  <2>5. /\ \A k \in DOMAIN ramOf : ramOf[k] \in Int /\ ramOf[k] = ramOf'[k]
        /\ \A k \in DOMAIN ramOf \cup {j} : ramOf'[k] \in Int
    BY <2>3, <2>4, SumsAreNat
  <2>6. Total(ramOf, DOMAIN ramOf) = Total(ramOf', DOMAIN ramOf)
    BY <2>5, SumsAreNat, TotalAgrees
  <2>7. Total(ramOf', DOMAIN ramOf \cup {j}) = JobMb[j] + Total(ramOf', DOMAIN ramOf)
    BY <2>2, <2>4, <2>5, SumsAreNat, TotalAdd
  <2>8. PICK a, b, m, s : a = Total(ramOf, DOMAIN ramOf) /\ b = Total(WayMb, OnWay) /\ m = JobMb[j] /\ s = slot
    OBVIOUS
  <2>9. a \in Nat /\ b \in Nat /\ m \in Nat /\ s = a + b
    BY <2>3, <2>8, SumsAreNat, BalancedMeans
  <2>10. slot' = (m + a) + b
    BY <2>1, <2>8, <2>9
  <2>11. Total(ramOf', DOMAIN ramOf') = m + a
    BY <2>4, <2>6, <2>7, <2>8
  <2> QED BY <1>2, <2>1, <2>8, <2>10, <2>11, BalancedMeans
<1> QED BY <1>3, <1>4 DEF Submits, QuotaCheck, Counted, LedgerStart, StoreRecord, MarkQueued

LEMMA CancelKeepsBalance ==
  ASSUME SchedTypes, CallsInv, MemoryInv, RamBalanced, NEW c \in Canceller, Cancels(c),
         SchedTypes', MemoryInv'
  PROVE  RamBalanced'
<1> DEFINE j == cancel[c].job
<1>1. \A d \in Canceller \ {c} : cancel'[d] = cancel[d]
  BY CancelMoves
<1>2. CASE UNCHANGED <<ramOf, slot>> /\ cancel[c].at # "taken" /\ cancel'[c].at # "taken"
  <2>1. OnWay' = OnWay /\ \A d \in OnWay : cancel'[d].mb = cancel[d].mb
    BY <1>1, <1>2 DEF OnWay
  <2>2. Total(WayMb', OnWay') = Total(WayMb, OnWay)
    BY <2>1, WayStill
  <2> QED BY <1>2, <2>2, BalancedMeans
<1>3. CASE RamTake(c)
  <2>1. OnWay' = OnWay \cup {c} /\ c \notin OnWay /\ \A d \in OnWay : cancel'[d] = cancel[d]
    BY <1>1, <1>3, CancelEffect DEF OnWay
  <2>2. /\ \A d \in OnWay : WayMb[d] \in Int /\ WayMb[d] = (WayMb')[d]
        /\ (WayMb')[c] = cancel'[c].mb /\ \A d \in OnWay \cup {c} : (WayMb')[d] \in Int
    <3>1. \A d \in OnWay : WayMb[d] \in Int /\ WayMb[d] = (WayMb')[d]
      BY <2>1, SumsAreNat DEF WayMb
    <3>2. (WayMb')[c] = cancel'[c].mb /\ cancel'[c].mb \in Nat
      BY <2>1 DEF WayMb, SchedTypes
    <3> QED BY <3>1, <3>2
  <2>3. Total(WayMb, OnWay) = Total(WayMb', OnWay)
    BY <2>2, SumsAreNat, TotalAgrees
  <2>4. Total(WayMb', OnWay \cup {c}) = cancel'[c].mb + Total(WayMb', OnWay)
    <3> DEFINE w == WayMb'
    <3>1. \A d \in OnWay \cup {c} : w[d] \in Int
      BY <2>2
    <3>2. w[c] = cancel'[c].mb
      BY <2>2
    <3> HIDE DEF w
    <3>3. PICK W : W = OnWay
      OBVIOUS
    <3>4. IsFiniteSet(W) /\ c \notin W /\ \A d \in W \cup {c} : w[d] \in Int
      BY <2>1, <3>1, <3>3, SumsAreNat
    <3>5. Total(w, W \cup {c}) = w[c] + Total(w, W)
      BY <3>4, TotalAdd
    <3> QED BY <3>2, <3>3, <3>5 DEF w
  <2>5. ramOf' = [k \in DOMAIN ramOf \ {j} |-> ramOf[k]] /\ UNCHANGED slot
    BY <1>3 DEF RamTake
  <2>6. Total(ramOf, DOMAIN ramOf) = cancel'[c].mb + Total(ramOf', DOMAIN ramOf')
    <3> DEFINE R == DOMAIN ramOf \ {j}
    <3>1. DOMAIN ramOf' = R /\ \A k \in R : ramOf'[k] = ramOf[k]
      BY <2>5
    <3>2. IsFiniteSet(R) /\ \A k \in DOMAIN ramOf : ramOf[k] \in Int
      BY SumsAreNat, FS_Subset
    <3>3. Total(ramOf, R) = Total(ramOf', R)
      BY <3>1, <3>2, TotalAgrees
    <3>4. CASE j \in DOMAIN ramOf
      <4>1. R \cup {j} = DOMAIN ramOf /\ j \notin R /\ cancel'[c].mb = ramOf[j]
        BY <1>3, <3>4, CancelEffect
      <4> HIDE DEF R, j
      <4>2. Total(ramOf, R \cup {j}) = ramOf[j] + Total(ramOf, R)
        BY <3>2, <4>1, TotalAdd
      <4> QED BY <3>1, <3>3, <4>1, <4>2
    <3>5. CASE j \notin DOMAIN ramOf
      <4>1. R = DOMAIN ramOf /\ cancel'[c].mb = 0
        BY <1>3, <3>5, CancelEffect
      <4> HIDE DEF R, j
      <4>2. Total(ramOf, DOMAIN ramOf) \in Nat
        BY SumsAreNat
      <4> QED BY <3>1, <3>3, <4>1, <4>2
    <3> QED BY <3>4, <3>5
  <2>7. PICK a, b, m, t : /\ a = Total(ramOf', DOMAIN ramOf') /\ b = Total(WayMb, OnWay)
                          /\ m = cancel'[c].mb /\ t = Total(ramOf, DOMAIN ramOf)
    OBVIOUS
  <2>8. a \in Nat /\ b \in Nat /\ m \in Nat
    <3>1. a \in Nat
      <4>1. IsFiniteSet(DOMAIN ramOf') /\ \A k \in DOMAIN ramOf' : ramOf'[k] \in Nat
        <5>1. DOMAIN ramOf' \subseteq Job /\ \A k \in DOMAIN ramOf' : ramOf'[k] = JobMb[k]
          BY DEF MemoryInv
        <5> QED BY <5>1, SchedulingAssumption, FS_Subset
      <4> QED BY <2>7, <4>1, TotalFewer
    <3> QED BY <2>7, <3>1, SumsAreNat DEF SchedTypes
  <2>9. t = m + a /\ slot = t + b /\ slot' = slot
    BY <2>5, <2>6, <2>7, BalancedMeans
  <2>10. Total(WayMb', OnWay') = m + b
    BY <2>1, <2>3, <2>4, <2>7
  <2>11. slot' = a + (m + b)
    BY <2>8, <2>9
  <2> QED BY <2>5, <2>7, <2>10, <2>11, BalancedMeans
<1>4. CASE SlotRelease(c)
  <2>1. OnWay = OnWay' \cup {c} /\ c \notin OnWay' /\ c \in OnWay /\ \A d \in OnWay' : cancel'[d] = cancel[d]
    BY <1>1, <1>4, CancelEffect DEF OnWay
  <2>2. PICK W, w : W = OnWay' /\ w = WayMb
    OBVIOUS
  <2>3. IsFiniteSet(W) /\ (\A d \in W \cup {c} : w[d] \in Int) /\ OnWay = W \cup {c}
    BY <2>1, <2>2, SumsAreNat, FS_Subset
  <2>4. Total(w, OnWay) = w[c] + Total(w, W)
    BY <2>1, <2>2, <2>3, TotalAdd
  <2>5. \A d \in W : w[d] \in Int /\ w[d] = (WayMb')[d]
    BY <2>1, <2>2, <2>3 DEF WayMb
  <2>6. Total(w, W) = Total(WayMb', OnWay')
    BY <2>2, <2>3, <2>5, TotalAgrees
  <2>7. PICK a, b, m, s : /\ a = Total(ramOf, DOMAIN ramOf) /\ b = Total(w, W)
                          /\ m = cancel[c].mb /\ s = slot
    OBVIOUS
  <2>8. a \in Nat /\ b \in Nat /\ m \in Nat /\ w[c] = m
    <3>1. b \in Nat
      <4>1. \A d \in W : w[d] \in Nat
        BY <2>1, <2>2, SumsAreNat
      <4> QED BY <2>3, <2>7, <4>1, TotalFewer
    <3>2. w[c] = m /\ m \in Nat
      BY <2>1, <2>2, <2>7, SumsAreNat DEF WayMb
    <3> QED BY <2>7, <3>1, <3>2, SumsAreNat
  <2>9. s = a + (m + b) /\ s <= PoolMb
    BY <2>2, <2>4, <2>7, <2>8, BalancedMeans
  <2>10. PICK n \in Int : n = s - m
    BY <2>8, <2>9
  <2>11. slot' = Max({0, n}) /\ UNCHANGED ramOf
    BY <1>4, <2>7, <2>10 DEF SlotRelease
  <2>12. n = a + b /\ n >= 0 /\ n <= PoolMb
    BY <2>8, <2>9, <2>10, SchedulingAssumption
  <2>13. slot' = n
    BY <2>11, <2>12, MaxOfZeroAnd
  <2> QED BY <2>6, <2>7, <2>11, <2>12, <2>13, BalancedMeans
<1>5. CASE \E k \in Job : CancelLook(c, k)
  BY <1>2, <1>5, CancelEffect DEF CancelLook
<1>6. CASE CancelMark(c) \/ CountDown(c)
  BY <1>2, <1>6, CancelEffect DEF CancelMark, CountDown
<1>7. CASE LedgerFinish(c)
  BY <1>2, <1>7, CancelEffect, IdleIsIdle DEF LedgerFinish
<1> QED BY <1>3, <1>4, <1>5, <1>6, <1>7 DEF Cancels

-----------------------------------------------------------------------------
(* The count of the user, and the ledger. *)

Uncancelled == {j \in BookedJobs : uncounted[j] = 0}

LEMMA SubmitKeepsCount ==
  ASSUME SchedTypes, CallsInv, CountInv, NEW j \in Job, Submits(j)
  PROVE  CountInv'
<1> USE DEF Goes, PastMemory, PastCount, PastLedger, Past
<1>1. UNCHANGED uncounted
  BY DEF Submits, QuotaCheck, RamAllocate, Counted, LedgerStart, StoreRecord, MarkQueued
<1>2. IsFiniteSet(BookedJobs) /\ IsFiniteSet(Uncancelled)
  BY SchedulingAssumption, FS_Subset DEF BookedJobs, Uncancelled
<1>3. CASE Counted(j)
  <2>1. submit[j] = "allocated" /\ submit' = [submit EXCEPT ![j] = "counted"]
    BY <1>3 DEF Counted
  <2>2. uncounted[j] = 0 /\ j \notin BookedJobs
    <3>1. uncounted[j] \in Nat /\ ~(uncounted[j] > 0)
      BY <2>1 DEF CallsInv, SchedTypes
    <3> QED BY <2>1, <3>1 DEF BookedJobs
  <2>3. CASE j \in QuotaJob
    <3>1. BookedJobs' = BookedJobs \cup {j} /\ Uncancelled' = Uncancelled \cup {j} /\ j \notin Uncancelled
      BY <1>1, <2>1, <2>2, <2>3, SchedulingAssumption DEF BookedJobs, Uncancelled, SchedTypes
    <3>2. PICK B, U : B = BookedJobs /\ U = Uncancelled
      OBVIOUS
    <3>3. Cardinality(B \cup {j}) = Cardinality(B) + 1 /\ Cardinality(U \cup {j}) = Cardinality(U) + 1
          /\ Cardinality(B) \in Nat /\ Cardinality(U) \in Nat
      BY <1>2, <2>2, <3>1, <3>2, FS_AddElement, FS_CardinalityType
    <3>4. active' = active + 1 /\ active \in Nat
      BY <1>3, <2>3 DEF Counted, SchedTypes
    <3>5. active <= Cardinality(B) /\ ((\A k \in Job : uncounted[k] <= 1) => active = Cardinality(U))
      BY <3>2 DEF CountInv, Uncancelled
    <3>6. active' <= Cardinality(BookedJobs') /\ ((\A k \in Job : uncounted[k] <= 1) => active' = Cardinality(Uncancelled'))
      BY <3>1, <3>2, <3>3, <3>4, <3>5
    <3> QED BY <1>1, <3>6 DEF CountInv, Uncancelled
  <2>4. CASE j \notin QuotaJob
    <3>1. BookedJobs' = BookedJobs /\ active' = active
      BY <1>3, <2>1, <2>4, SchedulingAssumption DEF Counted, BookedJobs, SchedTypes
    <3> QED BY <1>1, <3>1 DEF CountInv
  <2> QED BY <2>3, <2>4
<1>4. CASE ~Counted(j)
  <2>1. PICK s \in PastMemory \cup {"stuck", "checked"} :
          /\ submit' = [submit EXCEPT ![j] = s] /\ (submit[j] \in PastCount <=> s \in PastCount)
    <3>1. CASE QuotaCheck(j)
      BY <3>1 DEF QuotaCheck
    <3>2. CASE RamAllocate(j) \/ LedgerStart(j)
      BY <3>2 DEF RamAllocate, LedgerStart
    <3>3. CASE StoreRecord(j) \/ MarkQueued(j)
      BY <3>3 DEF StoreRecord, MarkQueued
    <3> QED BY <1>4, <3>1, <3>2, <3>3 DEF Submits
  <2>2. BookedJobs' = BookedJobs
    <3>1. \A k \in Job : submit[k] \in PastCount <=> submit'[k] \in PastCount
      BY <2>1 DEF SchedTypes
    <3> QED BY <3>1, SchedulingAssumption DEF BookedJobs
  <2>3. UNCHANGED active
    BY <1>4 DEF Submits, QuotaCheck, RamAllocate, LedgerStart, StoreRecord, MarkQueued
  <2> QED BY <1>1, <2>2, <2>3 DEF CountInv
<1> QED BY <1>3, <1>4

LEMMA CancelKeepsCount ==
  ASSUME SchedTypes, CallsInv, CountInv, NEW c \in Canceller, Cancels(c)
  PROVE  CountInv'
<1>1. BookedJobs' = BookedJobs
  BY DEF Cancels, CancelLook, CancelMark, RamTake, SlotRelease, CountDown, LedgerFinish, BookedJobs
<1>2. CASE CountDown(c)
  <2>1. PICK j \in Job : j = cancel[c].job /\ submit[j] \in Past
    BY <1>2, CancelEffect DEF CallsInv
  <2>2. uncounted' = [uncounted EXCEPT ![j] = @ + 1]
        /\ active' = IF j \in QuotaJob THEN Max({0, active - 1}) ELSE active
    BY <1>2, <2>1 DEF CountDown
  <2>3. /\ uncounted[j] \in Nat /\ uncounted'[j] = uncounted[j] + 1
        /\ \A k \in Job \ {j} : uncounted'[k] = uncounted[k]
    BY <2>2 DEF SchedTypes
  <2>4. ASSUME \A k \in Job : uncounted'[k] <= 1
        PROVE  (\A k \in Job : uncounted[k] <= 1) /\ uncounted[j] = 0
    <3>1. uncounted[j] = 0
      BY <2>3, <2>4
    <3> QED BY <2>3, <2>4, <3>1
  <2>5. CASE j \in QuotaJob
    <3>1. j \in BookedJobs
      BY <2>1, <2>5 DEF BookedJobs, PastCount, PastLedger
    <3>2. PICK n \in Int : n = active - 1
      BY DEF SchedTypes
    <3>3. active' = (IF n >= 0 THEN n ELSE 0)
      BY <2>2, <2>5, <3>2, MaxOfZeroAnd
    <3>4. active' <= active
      BY <3>2, <3>3 DEF SchedTypes
    <3>5. active' <= Cardinality(BookedJobs')
      <4>1. Cardinality(BookedJobs) \in Nat
        BY SchedulingAssumption, FS_Subset, FS_CardinalityType DEF BookedJobs
      <4>2. active \in Nat /\ active' \in Int /\ active <= Cardinality(BookedJobs)
        BY <3>3 DEF CountInv, SchedTypes
      <4> QED BY <1>1, <3>4, <4>1, <4>2
    <3>6. ASSUME \A k \in Job : uncounted'[k] <= 1 PROVE active' = Cardinality(Uncancelled')
      <4>1. uncounted[j] = 0 /\ active = Cardinality(Uncancelled)
        BY <2>4, <3>6 DEF CountInv, Uncancelled
      <4>2. j \in Uncancelled /\ Uncancelled' = Uncancelled \ {j}
        <5>1. Uncancelled' = {k \in BookedJobs : uncounted'[k] = 0}
          BY <1>1 DEF Uncancelled
        <5>2. uncounted'[j] # 0 /\ BookedJobs \subseteq Job
          BY <2>3, <4>1, SchedulingAssumption DEF BookedJobs
        <5> QED BY <2>3, <3>1, <4>1, <5>1, <5>2 DEF Uncancelled
      <4>3. PICK U : U = Uncancelled
        OBVIOUS
      <4>4. IsFiniteSet(U)
        BY <4>3, SchedulingAssumption, FS_Subset DEF BookedJobs, Uncancelled
      <4>5. Cardinality(U \ {j}) = Cardinality(U) - 1 /\ Cardinality(U) \in Nat /\ Cardinality(U \ {j}) \in Nat
        BY <4>2, <4>3, <4>4, FS_RemoveElement, FS_CardinalityType
      <4>6. n = Cardinality(U) - 1 /\ n >= 0
        BY <3>2, <4>1, <4>3, <4>5
      <4> QED BY <3>3, <4>2, <4>3, <4>5, <4>6
    <3> QED BY <3>5, <3>6 DEF CountInv, Uncancelled
  <2>6. CASE j \notin QuotaJob
    <3>1. UNCHANGED active /\ j \notin BookedJobs /\ BookedJobs \subseteq Job
      BY <2>2, <2>6, SchedulingAssumption DEF BookedJobs
    <3>2. Uncancelled' = Uncancelled
      BY <1>1, <2>3, <3>1 DEF Uncancelled
    <3> QED BY <1>1, <2>4, <3>1, <3>2 DEF CountInv, Uncancelled
  <2> QED BY <2>5, <2>6
<1>3. CASE UNCHANGED <<active, uncounted>>
  BY <1>1, <1>3 DEF CountInv
<1> QED BY <1>2, <1>3 DEF Cancels, CancelLook, CancelMark, RamTake, SlotRelease, LedgerFinish

LEMMA DistinctSize ==
  ASSUME NEW X, NEW s \in Seq(X), Distinct(s)
  PROVE  Cardinality(ToSet(s)) = Len(s)
<1> DEFINE n == Len(s)  f == [i \in 1..n |-> s[i]]
<1>1. n \in Nat /\ DOMAIN s = 1..n
  OBVIOUS
<1>2. f \in Bijection(1..n, ToSet(s))
  <2>1. f \in [1..n -> ToSet(s)] /\ \A y \in ToSet(s) : \E i \in 1..n : f[i] = y
    BY <1>1 DEF ToSet
  <2>2. \A i, k \in 1..n : f[i] = f[k] => i = k
    BY <1>1 DEF Distinct
  <2> QED BY <2>1, <2>2 DEF Bijection, Injection, Surjection, IsInjective
<1>3. IsFiniteSet(1..n) /\ Cardinality(1..n) = n
  BY <1>1, FS_Interval
<1>4. ExistsBijection(1..n, ToSet(s))
  BY <1>2 DEF ExistsBijection
<1> QED BY <1>3, <1>4, FS_Bijection

LEMMA DistinctNext ==
  ASSUME NEW X, NEW s \in Seq(X), Distinct(s), NEW x \in X, x \notin ToSet(s)
  PROVE  Distinct(Append(s, x)) /\ Distinct(Tail(Append(s, x)))
<1>1. PICK t : t = Append(s, x)
  OBVIOUS
<1>2. /\ t \in Seq(X) /\ Len(t) = Len(s) + 1 /\ Len(s) \in Nat /\ t[Len(t)] = x
      /\ \A i \in 1..Len(s) : t[i] = s[i] /\ t[i] # x
  BY <1>1 DEF ToSet
<1>3. Distinct(t)
  <2> SUFFICES ASSUME NEW i \in 1..Len(t), NEW k \in 1..Len(t), t[i] = t[k] PROVE i = k
    BY <1>2 DEF Distinct
  <2> QED BY <1>2 DEF Distinct
<1>4. PICK r : r = Tail(t)
  OBVIOUS
<1>5. r \in Seq(X) /\ Len(r) = Len(t) - 1 /\ \A i \in 1..Len(r) : r[i] = t[i + 1] /\ i + 1 \in 1..Len(t)
  BY <1>2, <1>4
<1>6. Distinct(r)
  <2> SUFFICES ASSUME NEW i \in 1..Len(r), NEW k \in 1..Len(r), r[i] = r[k] PROVE i = k
    BY <1>5 DEF Distinct
  <2>1. i + 1 = k + 1
    <3>1. i + 1 \in DOMAIN t /\ k + 1 \in DOMAIN t /\ r[i] = t[i + 1] /\ r[k] = t[k + 1]
      BY <1>2, <1>5
    <3> QED BY <1>3, <3>1 DEF Distinct
  <2> QED BY <2>1, <1>5
<1> QED BY <1>1, <1>3, <1>4, <1>6

LEMMA SubmitKeepsLedger ==
  ASSUME SchedTypes, CallsInv, LedgerInv, NEW j \in Job, Submits(j)
  PROVE  LedgerInv'
<1> USE DEF Goes, PastMemory, PastCount, PastLedger, Past
<1>1. UNCHANGED <<uncounted, closed>>
  BY DEF Submits, QuotaCheck, RamAllocate, Counted, LedgerStart, StoreRecord, MarkQueued
<1>2. CASE LedgerStart(j)
  <2>1. submit[j] = "counted" /\ submit' = [submit EXCEPT ![j] = "ledgered"]
        /\ ledger' = IF Len(Append(ledger, j)) > LedgerMax THEN Tail(Append(ledger, j)) ELSE Append(ledger, j)
    BY <1>2 DEF LedgerStart
  <2>2. j \notin ToSet(ledger) /\ ToSet(ledger) \subseteq Job
    BY <2>1, SetOfType DEF LedgerInv, SchedTypes
  <2>3. PICK s, t : s = Append(ledger, j) /\ t = Tail(s)
    OBVIOUS
  <2>4. /\ s \in Seq(Job) /\ s # <<>> /\ Len(s) = Len(ledger) + 1 /\ ToSet(s) = ToSet(ledger) \cup {j}
    BY <2>3, SetOfAppend DEF SchedTypes
  <2>5. t \in Seq(Job) /\ Len(t) = Len(ledger) /\ ToSet(t) \subseteq ToSet(s)
    <3>1. t \in Seq(Job) /\ Len(t) = Len(s) - 1
      BY <2>3, <2>4
    <3>2. ToSet(t) \subseteq ToSet(s)
      BY <2>3, <2>4, SetOfTail
    <3>3. Len(ledger) \in Nat
      BY DEF SchedTypes
    <3> QED BY <2>4, <3>1, <3>2, <3>3
  <2>6. Distinct(s) /\ Distinct(t)
    BY <2>2, <2>3, DistinctNext DEF LedgerInv, SchedTypes
  <2>7. ledger' = t \/ (ledger' = s /\ ~(Len(s) > LedgerMax))
    BY <2>1, <2>3
  <2>8. Len(ledger') <= LedgerMax /\ Distinct(ledger')
    BY <2>4, <2>5, <2>6, <2>7, SchedulingAssumption DEF LedgerInv
  <2>9. \A k \in ToSet(ledger') : submit'[k] \in PastLedger
    <3>1. \A k \in ToSet(ledger') : k \in ToSet(ledger) \cup {j}
      BY <2>4, <2>5, <2>7
    <3> QED BY <2>1, <2>2, <3>1 DEF LedgerInv, SchedTypes
  <2> QED BY <1>1, <2>8, <2>9 DEF LedgerInv
<1>3. CASE ~LedgerStart(j)
  <2>1. PICK s \in PastMemory \cup {"stuck", "checked"} :
          /\ submit' = [submit EXCEPT ![j] = s] /\ (submit[j] \in PastLedger => s \in PastLedger)
    <3>1. CASE QuotaCheck(j)
      BY <3>1 DEF QuotaCheck
    <3>2. CASE RamAllocate(j) \/ Counted(j)
      BY <3>2 DEF RamAllocate, Counted
    <3>3. CASE StoreRecord(j) \/ MarkQueued(j)
      BY <3>3 DEF StoreRecord, MarkQueued
    <3> QED BY <1>3, <3>1, <3>2, <3>3 DEF Submits
  <2>2. \A k \in Job : submit[k] \in PastLedger => submit'[k] \in PastLedger
    BY <2>1 DEF SchedTypes
  <2>3. UNCHANGED ledger
    BY <1>3 DEF Submits, QuotaCheck, RamAllocate, Counted, StoreRecord, MarkQueued
  <2>4. ToSet(ledger) \subseteq Job
    BY SetOfType DEF SchedTypes
  <2> QED BY <1>1, <2>2, <2>3, <2>4 DEF LedgerInv
<1> QED BY <1>2, <1>3

LEMMA CancelKeepsLedger ==
  ASSUME SchedTypes, CallsInv, LedgerInv, NEW c \in Canceller, Cancels(c)
  PROVE  LedgerInv'
<1>1. UNCHANGED <<submit, ledger>>
  BY DEF Cancels, CancelLook, CancelMark, RamTake, SlotRelease, CountDown, LedgerFinish
<1>2. \A k \in Job : uncounted[k] > 0 => uncounted'[k] > 0
  <2>1. CASE CountDown(c)
    <3>1. uncounted' = [uncounted EXCEPT ![cancel[c].job] = @ + 1]
      BY <2>1 DEF CountDown
    <3> QED BY <3>1 DEF SchedTypes
  <2>2. CASE UNCHANGED uncounted
    BY <2>2
  <2> QED BY <2>1, <2>2 DEF Cancels, CancelLook, CancelMark, RamTake, SlotRelease, LedgerFinish
<1>3. closed' \subseteq {j \in Job : uncounted[j] > 0}
  <2>1. CASE LedgerFinish(c)
    <3>1. cancel[c].job \in Job /\ uncounted[cancel[c].job] > 0
      BY <2>1, CancelEffect DEF CallsInv
    <3>2. closed' = closed \/ closed' = closed \cup {cancel[c].job}
      BY <2>1 DEF LedgerFinish
    <3> QED BY <3>1, <3>2 DEF LedgerInv
  <2>2. CASE UNCHANGED closed
    BY <2>2 DEF LedgerInv
  <2> QED BY <2>1, <2>2 DEF Cancels, CancelLook, CancelMark, RamTake, SlotRelease, CountDown
<1> QED BY <1>1, <1>2, <1>3 DEF LedgerInv

-----------------------------------------------------------------------------

LEMMA SchedKeeps == ASSUME SchedInv, SchedNext PROVE SchedInv'
<1> USE DEF SchedInv
<1>1. (\E j \in Job : Submits(j)) \/ (\E c \in Canceller : Cancels(c))
  BY DEF SchedNext, Submits, Cancels
<1>2. ASSUME NEW j \in Job, Submits(j) PROVE SchedInv'
  BY <1>2, SubmitKeepsTypes, SubmitKeepsMemory, SubmitKeepsBalance, SubmitKeepsCount, SubmitKeepsLedger
<1>3. ASSUME NEW c \in Canceller, Cancels(c) PROVE SchedInv'
  BY <1>3, CancelKeepsTypes, CancelKeepsMemory, CancelKeepsBalance, CancelKeepsCount, CancelKeepsLedger
<1> QED BY <1>1, <1>2, <1>3

LEMMA SchedStarts == SchedInit => SchedInv
<1> SUFFICES ASSUME SchedInit PROVE SchedInv
  OBVIOUS
<1> USE DEF SchedInit
<1>1. SchedTypes /\ CallsInv /\ MemoryInv
  <2>1. <<>> \in Seq(Job) /\ DOMAIN <<>> = {}
    OBVIOUS
  <2>2. NoCancel \in [at : OnTheWay \cup {"idle"}, job : Job \cup {NoCancel.job}, mb : Nat]
    BY IdleIsIdle
  <2>3. SchedTypes
    BY <2>1, <2>2 DEF SchedTypes
  <2>4. CallsInv
    BY IdleIsIdle DEF CallsInv
  <2> QED BY <2>1, <2>3, <2>4 DEF MemoryInv
<1>2. RamBalanced
  <2>1. DOMAIN ramOf = {} /\ OnWay = {} /\ slot = 0
    BY IdleIsIdle DEF OnWay
  <2>2. Total(ramOf, {}) = 0 /\ Total(WayMb, {}) = 0
    BY TotalEmpty
  <2> QED BY <2>1, <2>2, BalancedMeans, SchedulingAssumption
<1>3. CountInv
  <2>1. BookedJobs = {} /\ {j \in BookedJobs : uncounted[j] = 0} = {} /\ active = 0
    BY SchedulingAssumption DEF BookedJobs, PastCount, PastLedger, Past
  <2>2. Cardinality({}) = 0
    BY FS_EmptySet
  <2> QED BY <2>1, <2>2 DEF CountInv
<1>4. LedgerInv
  BY SetOfEmpty, SchedulingAssumption DEF LedgerInv, Distinct
<1> QED BY <1>1, <1>2, <1>3, <1>4 DEF SchedInv

\* Memory is handed out once, within the pool, and given back once, a cancelled
\* task keeps none, the count of the user is exact unless a task was cancelled
\* twice, and the ledger keeps the latest tasks, however the submit() and
\* cancel() calls meet (TaskScheduler, VirtualRAM, ResourceSlot, QuotaEnforcer,
\* ResourceLedger).
THEOREM ResourcesAreBalanced == PlatformSpec => []ResourcesBalance
<1>1. PlatformInit => SchedInv
  BY SchedStarts DEF PlatformInit
<1>2. SchedInv /\ UNCHANGED schedVars => SchedInv'
  BY DEF schedVars, SchedInv, SchedTypes, CallsInv, MemoryInv, RamBalanced, CountInv, BookedJobs, LedgerInv
<1>3. [PlatformNext]_<<schedVars, poolsVars, observerVars, fileVars, dispatchVars, keptVars, assistantVars, webVars, by>>
        => SchedNext \/ UNCHANGED schedVars
  BY DEF PlatformNext
<1>4. SchedInv => ResourcesBalance
  <2> SUFFICES ASSUME SchedInv PROVE SchedTypeOK /\ RamBalanced /\ CancelIsComplete /\ LedgerBounded
    BY DEF ResourcesBalance
  <2> USE DEF SchedInv
  <2>1. SchedTypeOK
    <3>1. Cardinality(BookedJobs) <= Cardinality(Job) /\ Cardinality(BookedJobs) \in Nat /\ Cardinality(Job) \in Nat
      BY SchedulingAssumption, FS_Subset, FS_CardinalityType DEF BookedJobs
    <3>2. active \in 0..Cardinality(Job)
      BY <3>1 DEF SchedTypes, CountInv
    <3> QED BY <3>2 DEF SchedTypeOK, SchedTypes, MemoryInv
  <2>2. CancelIsComplete
    <3>1. ASSUME NEW j \in Job, record[j] = "cancelled", \A c \in Canceller : cancel[c] = NoCancel \/ cancel[c].job # j
          PROVE  j \notin DOMAIN ramOf
      BY <3>1, IdleIsIdle DEF MemoryInv
    <3>2. {j \in {j \in QuotaJob : submit[j] \in {"counted", "ledgered", "stored", "raised"}} : uncounted[j] = 0}
            = {j \in BookedJobs : uncounted[j] = 0}
      BY DEF BookedJobs, PastCount, PastLedger, Past
    <3> QED BY <3>1, <3>2 DEF CancelIsComplete, CountInv
  <2>3. LedgerBounded
    BY DistinctSize DEF LedgerBounded, LedgerInv, SchedTypes
  <2> QED BY <2>1, <2>2, <2>3
<1> QED BY <1>1, <1>2, <1>3, <1>4, SchedKeeps, PTL DEF PlatformSpec

-----------------------------------------------------------------------------
(* The virtual file system.  The paths are sequences of names, and those    *)
(* above one are its prefixes.                                              *)

TreeInv ==
  /\ DOMAIN tree \subseteq Seq(Part)
  /\ TreeSound

LEMMA PathsAreLists == ASSUME NEW path \in Path PROVE path \in Seq(Part) /\ Len(path) > 0
<1>1. PICK d \in 1..MaxDepth : path \in [1..d -> Part]
  BY DEF Path
<1>2. d \in Nat /\ d > 0
  BY <1>1, FilesAssumption
<1>3. path \in Seq(Part) /\ Len(path) = d
  BY <1>1, <1>2
<1> QED BY <1>2, <1>3

LEMMA FrontsAreLists ==
  ASSUME NEW q \in Seq(Part), Len(q) > 0
  PROVE  /\ Front(q) \in Seq(Part) /\ Len(Front(q)) = Len(q) - 1
         /\ \A i \in 1..(Len(q) - 1) : Front(q)[i] = q[i]
BY DEF Front

\* What is above a path is above what is below it, and the root is above all.
LEMMA AboveIsClosed ==
  ASSUME NEW path \in Seq(Part), Len(path) > 0
  PROVE  /\ Above(path) \subseteq Seq(Part) /\ Front(path) \in Above(path) /\ path \notin Above(path)
         /\ \A x \in Above(path) : x # <<>> => Front(x) \in Above(path)
<1>1. PICK n : n = Len(path)
  OBVIOUS
<1>2. n \in Nat /\ n > 0 /\ Above(path) = {SubSeq(path, 1, d) : d \in 0..(n - 1)}
  BY <1>1 DEF Above
<1>3. ASSUME NEW d \in 0..(n - 1)
      PROVE  /\ SubSeq(path, 1, d) \in Seq(Part) /\ Len(SubSeq(path, 1, d)) = d
             /\ \A i \in 1..d : SubSeq(path, 1, d)[i] = path[i]
  BY <1>1, <1>2
<1>4. Front(path) \in Above(path)
  <2>1. Front(path) = SubSeq(path, 1, n - 1) /\ n - 1 \in 0..(n - 1)
    BY <1>1, <1>2 DEF Front
  <2> QED BY <1>2, <2>1
<1>5. ASSUME NEW x \in Above(path), x # <<>> PROVE Front(x) \in Above(path)
  <2>1. PICK d \in 0..(n - 1) : x = SubSeq(path, 1, d)
    BY <1>2
  <2>2. x \in Seq(Part) /\ Len(x) = d /\ \A i \in 1..d : x[i] = path[i]
    BY <1>3, <2>1
  <2>3. d > 0
    BY <1>5, <2>2
  <2>4. PICK y, z : y = Front(x) /\ z = SubSeq(path, 1, d - 1)
    OBVIOUS
  <2>5. y \in Seq(Part) /\ Len(y) = d - 1 /\ \A i \in 1..(d - 1) : y[i] = x[i]
    BY <2>2, <2>3, <2>4, FrontsAreLists
  <2>6. d - 1 \in 0..(n - 1)
    BY <1>2, <2>3
  <2>7. z \in Seq(Part) /\ Len(z) = d - 1 /\ \A i \in 1..(d - 1) : z[i] = path[i]
    BY <1>3, <2>4, <2>6
  <2>8. \A i \in 1..(d - 1) : y[i] = z[i]
    BY <1>2, <2>2, <2>5, <2>7
  <2>9. y = z
    BY <2>5, <2>7, <2>8, SeqEqual
  <2> QED BY <1>2, <2>4, <2>6, <2>9
<1>6. path \notin Above(path)
  BY <1>1, <1>2, <1>3
<1> QED BY <1>2, <1>3, <1>4, <1>5, <1>6

\* What a path is made with: what was missing above it, and itself.
LEMMA GrownKeeps ==
  ASSUME TreeInv, NEW path \in Path, Passable(path), NEW kind,
         tree' = Grown(path, kind), bare' = bare
  PROVE  TreeInv'
<1>1. path \in Seq(Part) /\ Len(path) > 0
  BY PathsAreLists
<1>2. PICK A : A = Above(path)
  OBVIOUS
<1>3. A \subseteq Seq(Part) /\ Front(path) \in A /\ path \notin A /\ \A x \in A : x # <<>> => Front(x) \in A
  BY <1>1, <1>2, AboveIsClosed
<1>4. /\ DOMAIN tree' = (DOMAIN tree \cup A) \cup {path}
      /\ \A q \in A \ DOMAIN tree : q # path => tree'[q] = "dir"
  BY <1>2 DEF Grown
<1>5. \A q \in DOMAIN tree : tree'[q] = tree[q]
  BY <1>2 DEF Grown
<1>6. \A q \in A : tree'[q] = "dir"
  <2>1. \A q \in A \cap DOMAIN tree : tree[q] = "dir"
    BY <1>2 DEF Passable
  <2>2. \A q \in A \ DOMAIN tree : tree'[q] = "dir"
    BY <1>3, <1>4
  <2> QED BY <1>5, <2>1, <2>2
<1>7. ASSUME NEW q \in DOMAIN tree' \ {<<>>} PROVE Front(q) \in DOMAIN tree' /\ tree'[Front(q)] = "dir"
  <2>1. CASE q \in DOMAIN tree
    BY <1>4, <1>5, <2>1 DEF TreeInv, TreeSound
  <2>2. CASE q \in A
    BY <1>3, <1>4, <1>6, <1>7, <2>2
  <2>3. CASE q = path
    BY <1>3, <1>4, <1>6, <2>3
  <2> QED BY <1>4, <1>7, <2>1, <2>2, <2>3
<1> QED BY <1>1, <1>3, <1>4, <1>7 DEF TreeInv, TreeSound

LEMMA TreeKeeps == ASSUME TreeInv, VfsNext PROVE TreeInv'
<1>1. ASSUME NEW path \in Path, Mkdir(path) PROVE TreeInv'
  BY <1>1, GrownKeeps DEF Mkdir
<1>2. ASSUME NEW path \in Path, WriteFile(path) PROVE TreeInv'
  BY <1>2, GrownKeeps DEF WriteFile
<1>3. ASSUME NEW path \in Path, Delete(path) PROVE TreeInv'
  <2>1. PICK gone : gone = {q \in DOMAIN tree : IsPrefix(path, q)}
    OBVIOUS
  <2>2. DOMAIN tree' = DOMAIN tree \ gone /\ (\A q \in DOMAIN tree' : tree'[q] = tree[q]) /\ bare' = bare \ gone
    BY <1>3, <2>1 DEF Delete
  <2>3. ASSUME NEW q \in DOMAIN tree \ {<<>>}, Front(q) \in gone PROVE q \in gone
    <3>1. q \in Seq(Part) /\ Len(q) > 0 /\ path \in Seq(Part)
      BY PathsAreLists DEF TreeInv
    <3>2. PICK f, n : f = Front(q) /\ n = Len(path)
      OBVIOUS
    <3>3. f \in Seq(Part) /\ Len(f) = Len(q) - 1 /\ \A i \in 1..(Len(q) - 1) : f[i] = q[i]
      BY <3>1, <3>2, FrontsAreLists
    <3>4. n \in Nat /\ n <= Len(f) /\ SubSeq(path, 1, n) = SubSeq(f, 1, n)
      BY <2>1, <2>3, <3>1, <3>2 DEF IsPrefix
    <3>5. PICK a, b : a = SubSeq(f, 1, n) /\ b = SubSeq(q, 1, n)
      OBVIOUS
    <3>6. a \in Seq(Part) /\ Len(a) = n /\ \A i \in 1..n : a[i] = f[i]
      BY <3>3, <3>4, <3>5
    <3>7. b \in Seq(Part) /\ Len(b) = n /\ \A i \in 1..n : b[i] = q[i]
      BY <3>1, <3>3, <3>4, <3>5
    <3>8. \A i \in 1..n : a[i] = b[i]
      <4>1. n <= Len(q) - 1 /\ Len(q) \in Nat
        BY <3>1, <3>3, <3>4
      <4>2. \A i \in 1..n : i \in 1..(Len(q) - 1)
        BY <3>4, <4>1
      <4> QED BY <3>3, <3>6, <3>7, <4>2
    <3>9. a = b
      BY <3>6, <3>7, <3>8, SeqEqual
    <3>10. n <= Len(q)
      BY <3>1, <3>3, <3>4
    <3> QED BY <2>1, <3>2, <3>4, <3>5, <3>9, <3>10 DEF IsPrefix
  <2> QED BY <2>2, <2>3 DEF TreeInv, TreeSound
<1>4. ASSUME NEW path \in Path \cup {<<>>}, DeleteMeta(path) PROVE TreeInv'
  BY <1>4 DEF DeleteMeta, TreeInv, TreeSound
<1> QED BY <1>1, <1>2, <1>3, <1>4 DEF VfsNext

LEMMA TreeStarts == VfsInit => TreeInv
<1> SUFFICES ASSUME VfsInit PROVE TreeInv
  OBVIOUS
<1>1. DOMAIN tree = {<<>>} /\ bare = {}
  BY DEF VfsInit
<1>2. <<>> \in Seq(Part)
  OBVIOUS
<1> QED BY <1>1, <1>2 DEF TreeInv, TreeSound

-----------------------------------------------------------------------------
(* FHS paths.  After each entry of the table, the best prefix is the       *)
(* longest of those seen.                                                  *)

Mapping == [path : Path, target : Target]
Fitting(s, n, path) == {s[i].path : i \in {j \in 1..n : IsPrefix(s[j].path, path)}}

\* b[i] is the best of the first i entries.
BestOf(b, s, path) ==
  /\ b \in [0..Len(s) -> Seq(Part)] /\ b[0] = <<>>
  /\ \A i \in 1..Len(s) :
       b[i] = IF IsPrefix(s[i].path, path) /\ Len(s[i].path) > Len(b[i - 1]) THEN s[i].path ELSE b[i - 1]

LEMMA BestSteps ==
  ASSUME mapping \in Seq(Mapping), NEW path
  PROVE  \E b : BestOf(b, mapping, path) /\ BestPrefix(path) = b[Len(mapping)]
<1> DEFINE s == mapping
           I == DOMAIN s
           B == Seq(Part)
           c == [S \in SUBSET I |-> Max(S)]
           g == [p \in Mapping \X B |-> Longer(p[2], p[1], path)]
           Look(h, S) == Longer(h[S \ {Max(S)}], s[Max(S)], path)
           iter == CHOOSE h : h = [S \in SUBSET I |-> IF S = {} THEN <<>> ELSE Look(h, S)]
<1>1. I = 1..Len(s) /\ IsFiniteSet(I) /\ Len(s) \in Nat
  BY FS_Interval
<1>2. \A S \in SUBSET I : S # {} => c[S] \in S
  BY <1>1, PlaceMax
<1>3. <<>> \in B
  OBVIOUS
<1>4. ASSUME NEW x \in Mapping, NEW b \in B PROVE Longer(b, x, path) \in B
  <2>1. x.path \in Seq(Part)
    BY PathsAreLists DEF Mapping
  <2> QED BY <2>1 DEF Longer
<1>5. (\A i \in I : s[i] \in Mapping) /\ \A x \in Mapping, b \in B : g[<<x, b>>] \in B
  BY <1>4
<1> HIDE DEF I, c, g, iter, B
<1>6. PICK h \in [SUBSET I -> B] : Folded(h, I, <<>>, s, g, c)
  BY <1>1, <1>2, <1>3, <1>5, FoldExists
<1>7. \A S \in SUBSET I : h[S] = IF S = {} THEN <<>> ELSE Look(h, S)
  <2> SUFFICES ASSUME NEW S \in SUBSET I, S # {} PROVE h[S] = Look(h, S)
    BY <1>6 DEF Folded
  <2>1. h[S] = g[<<s[c[S]], h[S \ {c[S]}]>>]
    BY <1>6 DEF Folded
  <2>2. s[c[S]] \in Mapping /\ h[S \ {c[S]}] \in B /\ c[S] = Max(S)
    BY <1>2, <1>5 DEF c
  <2> QED BY <2>1, <2>2 DEF g
<1>8. h = [S \in SUBSET I |-> IF S = {} THEN <<>> ELSE Look(h, S)]
  BY <1>7
<1>9. iter = [S \in SUBSET I |-> IF S = {} THEN <<>> ELSE Look(iter, S)]
  BY <1>8 DEF iter
<1>10. BestPrefix(path) = iter[I]
  BY DEF BestPrefix, FoldLeft, MapThenFoldSet, iter, I
<1>11. ASSUME NEW i \in 1..Len(s)
       PROVE  1..i \in SUBSET I /\ 1..i # {} /\ Max(1..i) = i /\ (1..i) \ {i} = 1..(i - 1)
  <2>1. i \in Nat /\ i > 0 /\ 1..i \in SUBSET I
    BY <1>1
  <2>2. 1..i # {} /\ Max(1..i) = i /\ (1..i) \ {i} = 1..(i - 1)
    BY <2>1, UpTo
  <2> QED BY <2>1, <2>2
<1>12. \A i \in 1..Len(s) : iter[1..i] = Longer(iter[1..(i - 1)], s[i], path)
  <2> SUFFICES ASSUME NEW i \in 1..Len(s) PROVE iter[1..i] = Longer(iter[1..(i - 1)], s[i], path)
    OBVIOUS
  <2>1. PICK S : S = 1..i
    OBVIOUS
  <2>2. iter[S] = Look(iter, S)
    BY <1>9, <1>11, <2>1
  <2> QED BY <1>11, <2>1, <2>2
<1>13. iter[1..0] = <<>>
  <2>1. 1..0 = {} /\ {} \in SUBSET I
    OBVIOUS
  <2> QED BY <1>9, <2>1
<1>14. \A i \in 0..Len(s) : iter[1..i] \in B
  <2> DEFINE P == {i \in Nat : i <= Len(s) => iter[1..i] \in B}
  <2>1. 0 \in P
    BY <1>3, <1>13
  <2>2. ASSUME NEW i \in Nat, i \in P PROVE i + 1 \in P
    BY <1>1, <1>4, <1>5, <1>12, <2>2
  <2> HIDE DEF P
  <2>3. Nat \subseteq P
    BY <2>1, <2>2, NatInduct
  <2> QED BY <1>1, <2>3 DEF P
<1> DEFINE b == [i \in 0..Len(s) |-> iter[1..i]]
<1>15. b \in [0..Len(s) -> B] /\ b[0] = <<>> /\ BestPrefix(path) = b[Len(s)]
  BY <1>1, <1>10, <1>13, <1>14
<1>16. \A i \in 1..Len(s) : b[i] = Longer(b[i - 1], s[i], path)
  BY <1>1, <1>12
<1> HIDE DEF b
<1>17. BestOf(b, s, path)
  BY <1>15, <1>16 DEF BestOf, Longer, B
<1> QED BY <1>15, <1>17

LEMMA LongestIsBest == mapping \in Seq(Mapping) => LongestPrefixWins
<1> SUFFICES ASSUME mapping \in Seq(Mapping), NEW path \in Path
             PROVE  /\ Fitting(mapping, Len(mapping), path) = {} => BestPrefix(path) = <<>>
                    /\ Fitting(mapping, Len(mapping), path) # {} =>
                         /\ BestPrefix(path) \in Fitting(mapping, Len(mapping), path)
                         /\ \A q \in Fitting(mapping, Len(mapping), path) : Len(q) <= Len(BestPrefix(path))
  <2>1. DOMAIN mapping = 1..Len(mapping)
    OBVIOUS
  <2> QED BY <2>1, Zenon DEF LongestPrefixWins, Fitting
<1>1. PICK s, n : s = mapping /\ n = Len(mapping)
  OBVIOUS
<1>2. PICK b : BestOf(b, s, path) /\ BestPrefix(path) = b[n]
  BY <1>1, BestSteps
<1>3. n \in Nat /\ \A i \in 1..n : s[i].path \in Seq(Part) /\ Len(s[i].path) > 0
  <2>1. n \in Nat /\ \A i \in 1..n : s[i].path \in Path
    <3>1. n \in Nat /\ \A i \in 1..n : s[i] \in Mapping
      BY <1>1
    <3>2. \A m \in Mapping : m.path \in Path
      BY DEF Mapping
    <3> QED BY <3>1, <3>2
  <2> QED BY <2>1, PathsAreLists
<1> DEFINE Good(i) == /\ Fitting(s, i, path) = {} => b[i] = <<>>
                      /\ Fitting(s, i, path) # {} =>
                           b[i] \in Fitting(s, i, path) /\ \A q \in Fitting(s, i, path) : Len(q) <= Len(b[i])
           P == {i \in Nat : i <= n => Good(i)}
<1>4. 0 \in P
  <2>1. Fitting(s, 0, path) = {} /\ b[0] = <<>>
    BY <1>2 DEF Fitting, BestOf
  <2> QED BY <2>1
<1>5. ASSUME NEW i \in Nat, i \in P PROVE i + 1 \in P
  <2> SUFFICES ASSUME i + 1 <= n PROVE Good(i + 1)
    OBVIOUS
  <2>1. PICK j : j = i + 1
    OBVIOUS
  <2>2. j \in 1..n /\ j - 1 = i /\ i \in 0..n /\ 1..j = 1..i \cup {j} /\ Good(i)
    BY <1>3, <1>5, <2>1
  <2>3. PICK p, u, v : p = s[j].path /\ u = b[i] /\ v = b[j]
    OBVIOUS
  <2>4. p \in Seq(Part) /\ Len(p) > 0 /\ Len(p) \in Nat /\ u \in Seq(Part) /\ Len(u) \in Nat
    BY <1>1, <1>2, <1>3, <2>2, <2>3 DEF BestOf
  <2>5. v = IF IsPrefix(p, path) /\ Len(p) > Len(u) THEN p ELSE u
    BY <1>1, <1>2, <2>2, <2>3 DEF BestOf
  <2>6. PICK E, F : E = Fitting(s, i, path) /\ F = Fitting(s, j, path)
    OBVIOUS
  <2>7. F = IF IsPrefix(p, path) THEN E \cup {p} ELSE E
    BY <2>2, <2>3, <2>6 DEF Fitting
  <2>8. /\ E = {} => u = <<>>
        /\ E # {} => u \in E /\ \A q \in E : Len(q) <= Len(u)
    BY <2>2, <2>3, <2>6
  <2>9. \A q \in E : Len(q) \in Nat
    BY <1>3, <2>2, <2>6 DEF Fitting
  <2>10. /\ F = {} => v = <<>>
         /\ F # {} => v \in F /\ \A q \in F : Len(q) <= Len(v)
    <3>1. CASE ~IsPrefix(p, path)
      BY <2>5, <2>7, <2>8, <3>1
    <3>2. CASE IsPrefix(p, path) /\ E = {}
      <4>1. Len(u) = 0
        BY <2>8, <3>2
      <4>2. v = p /\ F = {p}
        BY <2>4, <2>5, <2>7, <3>2, <4>1
      <4> QED BY <2>4, <4>2
    <3>3. CASE IsPrefix(p, path) /\ E # {}
      BY <2>4, <2>5, <2>7, <2>8, <2>9, <3>3
    <3> QED BY <3>1, <3>2, <3>3
  <2> QED BY <2>1, <2>3, <2>6, <2>10
<1> HIDE DEF P
<1>6. n \in P
  <2>1. Nat \subseteq P
    BY <1>4, <1>5, NatInduct
  <2> QED BY <1>3, <2>1
<1>7. Good(n)
  BY <1>3, <1>6 DEF P
<1> QED BY <1>1, <1>2, <1>7

LEMMA MappingKeeps == ASSUME mapping \in Seq(Mapping), FhsNext PROVE mapping' \in Seq(Mapping)
<1>1. PICK path \in Path, target \in Target : AddMapping(path, target)
  BY DEF FhsNext
<1>2. PICK m : m = [path |-> path, target |-> target]
  OBVIOUS
<1>3. m \in Mapping
  BY <1>2 DEF Mapping
<1>4. CASE mapping' = Append(mapping, m)
  BY <1>3, <1>4
<1>5. ASSUME NEW at, mapping' = [i \in DOMAIN mapping |-> IF i \in at THEN m ELSE mapping[i]]
      PROVE  mapping' \in Seq(Mapping)
  <2>1. \A i \in DOMAIN mapping : mapping'[i] \in Mapping
    BY <1>3, <1>5
  <2>2. DOMAIN mapping = 1..Len(mapping) /\ Len(mapping) \in Nat
    OBVIOUS
  <2> QED BY <1>5, <2>1, <2>2
<1> QED BY <1>1, <1>2, <1>4, <1>5 DEF AddMapping

-----------------------------------------------------------------------------
(* Packages.  As long as nothing changed under a call, what it looked up is *)
(* what is registered, and that is no older than what is installed.         *)

PackagesInv ==
  /\ versions \in Nat
  /\ registry \in [Pkg -> Nat] /\ installed \in [Pkg -> Nat] /\ newest \in [Pkg -> Nat]
  /\ \A n \in Pkg : registry[n] <= versions /\ installed[n] <= versions
  /\ DOMAIN admin = Admin
  /\ \A a \in Admin : admin[a].op # "none" =>
       /\ admin[a].pkg \in Pkg /\ admin[a].version \in Nat
       /\ admin[a].version <= versions /\ admin[a].version > 0
       /\ admin[a].pkg \notin raced => admin[a].version = registry[admin[a].pkg]
  /\ \A n \in Pkg \ raced : /\ installed[n] = newest[n]
                            /\ registry[n] > 0 => installed[n] <= registry[n]

LEMMA PackagesKeep == ASSUME PackagesInv, PkgNext PROVE PackagesInv'
<1>1. ASSUME NEW n \in Pkg, RegisterPkg(n) PROVE PackagesInv'
  BY <1>1 DEF PackagesInv, RegisterPkg, Raced
<1>2. ASSUME NEW n \in Pkg, Unregister(n) PROVE PackagesInv'
  BY <1>2 DEF PackagesInv, Unregister, Raced
<1>3. ASSUME NEW n \in Pkg, Uninstall(n) PROVE PackagesInv'
  BY <1>3 DEF PackagesInv, Uninstall
<1>4. ASSUME NEW n \in Pkg, NEW a \in Admin, NEW op \in {"install", "upgrade"}, LookUp(a, n, op)
      PROVE  PackagesInv'
  <2>1. PICK r : r = [op |-> op, pkg |-> n, version |-> registry[n]]
    OBVIOUS
  <2>2. r.pkg = n /\ r.version = registry[n]
    BY <2>1
  <2>3. admin' = [admin EXCEPT ![a] = r] /\ registry[n] > 0
        /\ UNCHANGED <<registry, installed, versions, newest, raced>>
    BY <1>4, <2>1 DEF LookUp
  <2> QED BY <2>2, <2>3 DEF PackagesInv
<1>5. ASSUME NEW a \in Admin, Commit(a) PROVE PackagesInv'
  <2>1. PICK n, v, to : /\ n = admin[a].pkg /\ v = admin[a].version
                        /\ to = IF installed[n] > 0 /\ admin[a].op = "install" THEN installed[n] ELSE v
    OBVIOUS
  <2>2. /\ admin[a].op # "none" /\ installed' = [installed EXCEPT ![n] = to]
        /\ newest' = [newest EXCEPT ![n] = IF to > @ THEN to ELSE @]
        /\ admin' = [admin EXCEPT ![a] = NoLook] /\ UNCHANGED <<registry, versions, raced>>
    BY <1>5, <2>1 DEF Commit
  <2>3. n \in Pkg /\ v \in Nat /\ v <= versions /\ v > 0 /\ (n \notin raced => v = registry[n])
    BY <2>1, <2>2 DEF PackagesInv
  <2>4. NoLook.op = "none"
    BY DEF NoLook
  <2>5. to \in Nat /\ to <= versions
    BY <2>1, <2>3 DEF PackagesInv
  <2>6. n \notin raced => (IF to > newest[n] THEN to ELSE newest[n]) = to /\ to <= registry[n]
    BY <2>1, <2>3 DEF PackagesInv
  <2> HIDE DEF NoLook
  <2> QED BY <2>2, <2>3, <2>4, <2>5, <2>6 DEF PackagesInv
<1> QED BY <1>1, <1>2, <1>3, <1>4, <1>5 DEF PkgNext

LEMMA PackagesStart == PkgInit => PackagesInv
BY DEF PkgInit, PackagesInv, NoLook

LEMMA VolumesKeep == ASSUME VolumesBacked, VolumeNext PROVE VolumesBacked'
BY DEF VolumesBacked, VolumeNext, MakeDir, ListVolume, DeleteVolume

-----------------------------------------------------------------------------
(* The store.  The writes that returned are in the log, each once, and a    *)
(* key has the value of the newest write to it.                             *)

Newest(S) == CHOOSE i \in S : \A j \in S : j <= i
WritesTo(k, n) == {i \in 1..n : call[log[i]].key = k}
Latest(k, n) == IF WritesTo(k, n) = {} THEN "gone" ELSE call[log[Newest(WritesTo(k, n))]].value

CallKind == [at : {"new", "trying", "returned", "raised", "lost"}, key : Key \cup {NoCall.key},
             value : Value \cup {"gone"}, tries : Nat, hit : BOOLEAN]

StoreTypes ==
  /\ call \in [Writer -> CallKind]
  /\ DOMAIN table = Key /\ log \in Seq(Writer)

StoreInv ==
  /\ StoreTypes /\ Distinct(log)
  /\ ToSet(log) = {w \in Writer : call[w].at = "returned"}
  /\ \A w \in Writer : /\ call[w].tries <= MaxRetries
                       /\ call[w].at = "trying" => call[w].tries < MaxRetries /\ call[w].key \in Key
  /\ \A k \in Key : table[k] = Latest(k, Len(log))
  /\ \A i \in DOMAIN log : call[log[i]].hit = (Latest(call[log[i]].key, i - 1) # "gone")

LEMMA NewestIsLast ==
  ASSUME NEW n \in Nat, NEW S \in SUBSET (1..n), S # {}
  PROVE  Newest(S) \in S /\ \A j \in S : j <= Newest(S)
<1>1. PICK m \in S : \A j \in S : m >= j
  BY PlaceMax
<1>2. \A j \in S : j <= m
  BY <1>1
<1> QED BY <1>2 DEF Newest

\* What was written first stays what it was.
LEMMA LatestStays ==
  ASSUME NEW n \in Nat, NEW k,
         \A i \in 1..n : log'[i] = log[i] /\ call'[log[i]].key = call[log[i]].key
                         /\ call'[log[i]].value = call[log[i]].value
  PROVE  Latest(k, n)' = Latest(k, n)
<1>1. PICK S : S = WritesTo(k, n)
  OBVIOUS
<1>2. S \in SUBSET (1..n) /\ WritesTo(k, n)' = S
  BY <1>1 DEF WritesTo
<1>3. CASE S = {}
  BY <1>1, <1>2, <1>3 DEF Latest
<1>4. CASE S # {}
  <2>1. Newest(S) \in 1..n
    BY <1>2, <1>4, NewestIsLast
  <2> QED BY <1>1, <1>2, <1>4, <2>1 DEF Latest
<1> QED BY <1>3, <1>4

\* A call that commits nothing.
LEMMA NoCommitKeeps ==
  ASSUME StoreInv, StoreTypes', UNCHANGED <<table, log>>,
         \A w \in Writer : /\ call[w].at = "returned" <=> call'[w].at = "returned"
                           /\ call[w].at = "returned" => call'[w] = call[w]
                           /\ call'[w].tries <= MaxRetries
                           /\ call'[w].at = "trying" => call'[w].tries < MaxRetries /\ call'[w].key \in Key
  PROVE  StoreInv'
<1>1. PICK n : n = Len(log)
  OBVIOUS
<1>2. n \in Nat /\ DOMAIN log = 1..n /\ \A i \in 1..n : log[i] \in Writer /\ log[i] \in ToSet(log)
  <2>1. log \in Seq(Writer)
    BY DEF StoreInv, StoreTypes
  <2> QED BY <1>1, <2>1 DEF ToSet
<1>3. \A i \in 1..n : call'[log[i]] = call[log[i]] /\ log'[i] = log[i]
  BY <1>2 DEF StoreInv
<1>4. ASSUME NEW k, NEW m \in 0..n PROVE Latest(k, m)' = Latest(k, m)
  <2>1. m \in Nat /\ \A i \in 1..m : i \in 1..n
    BY <1>2
  <2> QED BY <1>3, <2>1, LatestStays
<1>5. \A k \in Key : table'[k] = Latest(k, n)'
  BY <1>1, <1>2, <1>4 DEF StoreInv
<1>6. ASSUME NEW i \in 1..n PROVE call'[log[i]].hit = (Latest(call[log[i]].key, i - 1) # "gone")'
  <2>1. PICK k : k = call[log[i]].key
    OBVIOUS
  <2>2. PICK m : m = i - 1
    OBVIOUS
  <2>3. m \in 0..n
    BY <1>2, <2>2
  <2>4. Latest(k, m)' = Latest(k, m)
    BY <1>4, <2>3
  <2>5. call'[log[i]].key = k /\ log'[i] = log[i]
    BY <1>3, <2>1
  <2>6. call[log[i]].hit = (Latest(k, m) # "gone")
    BY <1>2, <2>1, <2>2 DEF StoreInv
  <2> QED BY <1>3, <2>1, <2>2, <2>4, <2>5, <2>6
<1> QED BY <1>1, <1>2, <1>3, <1>5, <1>6 DEF StoreInv, Distinct

LEMMA CommitKeeps == ASSUME StoreInv, NEW w \in Writer, CommitWrite(w) PROVE StoreInv'
<1>1. PICK n, c, d, before :
        n = Len(log) /\ c = call[w] /\ d = call'[w] /\ before = table[c.key]
  OBVIOUS
<1>2. /\ n \in Nat /\ DOMAIN log = 1..n /\ \A i \in 1..n : log[i] \in Writer /\ log[i] \in ToSet(log)
      /\ c.at = "trying" /\ c.key \in Key /\ w \notin ToSet(log)
  BY <1>1 DEF StoreInv, StoreTypes, ToSet, CommitWrite
<1>3. /\ d.at = "returned" /\ d.key = c.key /\ d.value = c.value /\ d.tries = c.tries
      /\ d.hit = (before # "gone")
      /\ \A v \in Writer \ {w} : call'[v] = call[v]
      /\ StoreTypes'
  <2>1. /\ call' = [call EXCEPT ![w] = [c EXCEPT !.at = "returned", !.hit = before # "gone"]]
        /\ table' = [table EXCEPT ![c.key] = c.value] /\ log' = Append(log, w)
    BY <1>1 DEF CommitWrite
  <2>2. PICK e : e = [c EXCEPT !.at = "returned", !.hit = before # "gone"]
    OBVIOUS
  <2>3. c \in CallKind
    BY <1>1 DEF StoreInv, StoreTypes
  <2>4. e.at = "returned" /\ e.key = c.key /\ e.value = c.value /\ e.tries = c.tries
        /\ e.hit = (before # "gone") /\ e \in CallKind
    BY <2>2, <2>3 DEF CallKind
  <2>5. call' = [call EXCEPT ![w] = e] /\ DOMAIN call = Writer
    BY <2>1, <2>2 DEF StoreInv, StoreTypes
  <2>6. d = e /\ \A v \in Writer \ {w} : call'[v] = call[v]
    BY <1>1, <2>5
  <2>7. StoreTypes'
    BY <2>1, <2>4, <2>5 DEF StoreInv, StoreTypes
  <2> QED BY <2>4, <2>6, <2>7
<1>4. log' = Append(log, w) /\ Len(log') = n + 1 /\ DOMAIN log' = 1..(n + 1) /\ log'[n + 1] = w
      /\ \A i \in 1..n : log'[i] = log[i]
  BY <1>1, <1>2 DEF CommitWrite, StoreInv, StoreTypes
<1>5. \A i \in 1..n : log[i] # w /\ call'[log[i]] = call[log[i]]
  BY <1>2, <1>3
<1>6. ASSUME NEW k, NEW m \in 0..n PROVE Latest(k, m)' = Latest(k, m)
  <2>1. m \in Nat /\ \A i \in 1..m : i \in 1..n
    BY <1>2
  <2> QED BY <1>4, <1>5, <2>1, LatestStays
<1>7. ASSUME NEW k \in Key PROVE table'[k] = Latest(k, n + 1)'
  <2>1. PICK S, T : S = WritesTo(k, n) /\ T = WritesTo(k, n + 1)'
    OBVIOUS
  <2>2. S \in SUBSET (1..n) /\ T = IF k = c.key THEN S \cup {n + 1} ELSE S
    BY <1>1, <1>2, <1>3, <1>4, <1>5, <2>1 DEF WritesTo
  <2>3. CASE k = c.key
    <3>1. T # {} /\ T \in SUBSET (1..(n + 1)) /\ n + 1 \in T
      BY <1>2, <2>2, <2>3
    <3>2. Newest(T) \in T /\ n + 1 <= Newest(T)
      <4>1. n + 1 \in Nat
        BY <1>2
      <4>2. Newest(T) \in T /\ \A j \in T : j <= Newest(T)
        BY <3>1, <4>1, NewestIsLast
      <4> QED BY <3>1, <4>2
    <3>3. Newest(T) = n + 1
      <4>1. PICK z : z = Newest(T)
        OBVIOUS
      <4>2. z \in 1..(n + 1) /\ n + 1 <= z
        BY <3>1, <3>2, <4>1
      <4> QED BY <1>2, <4>1, <4>2
    <3>4. Latest(k, n + 1)' = d.value
      BY <1>1, <1>4, <2>1, <3>1, <3>3 DEF Latest
    <3>5. table'[k] = c.value
      BY <1>1, <2>3 DEF CommitWrite, StoreInv, StoreTypes
    <3> QED BY <1>3, <3>4, <3>5
  <2>4. CASE k # c.key
    <3>1. table'[k] = Latest(k, n)
      BY <1>1, <2>4 DEF CommitWrite, StoreInv, StoreTypes
    <3>2. Latest(k, n + 1)' = Latest(k, n)
      <4>1. CASE S = {}
        BY <2>1, <2>2, <2>4, <4>1 DEF Latest
      <4>2. CASE S # {}
        <5>1. Newest(S) \in 1..n
          BY <1>2, <2>2, <4>2, NewestIsLast
        <5> QED BY <1>4, <1>5, <2>1, <2>2, <2>4, <4>2, <5>1 DEF Latest
      <4> QED BY <4>1, <4>2
    <3> QED BY <3>1, <3>2
  <2> QED BY <2>3, <2>4
<1>8. ASSUME NEW i \in 1..(n + 1) PROVE call'[log'[i]].hit = (Latest(call[log[i]].key, i - 1) # "gone")'
  <2>1. PICK k, m : k = call'[log'[i]].key /\ m = i - 1
    OBVIOUS
  <2>2. m \in 0..n
    BY <1>2, <2>1
  <2>3. Latest(k, m)' = Latest(k, m)
    BY <1>6, <2>2
  <2>4. call'[log'[i]].hit = (Latest(k, m) # "gone")
    <3>1. CASE i \in 1..n
      <4>1. log'[i] = log[i] /\ call'[log[i]] = call[log[i]]
        BY <1>4, <1>5, <3>1
      <4> QED BY <1>2, <2>1, <3>1, <4>1 DEF StoreInv
    <3>2. CASE i = n + 1
      <4>1. log'[i] = w /\ k = c.key /\ m = n
        BY <1>1, <1>2, <1>3, <1>4, <2>1, <3>2
      <4>2. before = Latest(k, n)
        BY <1>1, <1>2, <4>1 DEF StoreInv
      <4> QED BY <1>1, <1>3, <4>1, <4>2
    <3> QED BY <1>2, <3>1, <3>2
  <2> QED BY <2>1, <2>3, <2>4
<1>9. Distinct(log')
  BY <1>2, <1>4, DistinctNext DEF StoreInv, StoreTypes
<1>10. ToSet(log') = {v \in Writer : call'[v].at = "returned"}
  <2>1. ToSet(log') = ToSet(log) \cup {w}
    BY <1>4, SetOfAppend DEF StoreInv, StoreTypes
  <2> QED BY <1>1, <1>2, <1>3, <2>1 DEF StoreInv
<1>11. \A v \in Writer : /\ call'[v].tries <= MaxRetries
                         /\ call'[v].at = "trying" => call'[v].tries < MaxRetries /\ call'[v].key \in Key
  BY <1>1, <1>3 DEF StoreInv
<1> QED BY <1>3, <1>4, <1>7, <1>8, <1>9, <1>10, <1>11 DEF StoreInv

LEMMA StoreKeeps == ASSUME StoreInv, StoreNext PROVE StoreInv'
<1>1. ASSUME NEW w \in Writer, NEW k \in Key, NEW v \in Value, Write(w, k, v) PROVE StoreInv'
  <2>1. PICK c : c = [NoCall EXCEPT !.at = "trying", !.key = k, !.value = v]
    OBVIOUS
  <2>2. NoCall.at = "new" /\ c = [at |-> "trying", key |-> k, value |-> v, tries |-> 0, hit |-> FALSE]
    BY <2>1 DEF NoCall
  <2>3. call[w] = NoCall /\ call' = [call EXCEPT ![w] = c] /\ UNCHANGED <<table, log>>
    BY <1>1, <2>1 DEF Write
  <2>4. c \in CallKind /\ DOMAIN call = Writer
    BY <2>2 DEF CallKind, StoreInv, StoreTypes
  <2>5. StoreTypes'
    BY <2>3, <2>4 DEF StoreInv, StoreTypes
  <2>6. ASSUME NEW u \in Writer
        PROVE  /\ call[u].at = "returned" <=> call'[u].at = "returned"
               /\ call[u].at = "returned" => call'[u] = call[u]
               /\ call'[u].tries <= MaxRetries
               /\ call'[u].at = "trying" => call'[u].tries < MaxRetries /\ call'[u].key \in Key
    <3>1. CASE u = w
      BY <2>2, <2>3, <2>4, <3>1 DEF MaxRetries
    <3>2. CASE u # w
      BY <2>3, <2>4, <3>2 DEF StoreInv
    <3> QED BY <3>1, <3>2
  <2> QED BY <2>3, <2>5, <2>6, NoCommitKeeps
<1>2. ASSUME NEW w \in Writer, CommitWrite(w) PROVE StoreInv'
  BY <1>2, CommitKeeps
<1>3. ASSUME NEW w \in Writer, Locked(w) PROVE StoreInv'
  <2>1. PICK c : c = [call[w] EXCEPT !.tries = @ + 1, !.at = IF call[w].tries + 1 = MaxRetries THEN "raised" ELSE @]
    OBVIOUS
  <2>2. call[w].at = "trying" /\ call' = [call EXCEPT ![w] = c] /\ UNCHANGED <<table, log>>
    BY <1>3, <2>1 DEF Locked
  <2>3. call[w] \in CallKind /\ DOMAIN call = Writer
    BY DEF StoreInv, StoreTypes
  <2>4. /\ c \in CallKind /\ c.key = call[w].key /\ c.tries = call[w].tries + 1 /\ call[w].tries \in Nat
        /\ c.at = IF c.tries = MaxRetries THEN "raised" ELSE call[w].at
    <3>1. PICK a, b : a = call[w].tries + 1 /\ b = IF a = MaxRetries THEN "raised" ELSE call[w].at
      OBVIOUS
    <3>2. call[w].tries \in Nat /\ call[w].at \in {"new", "trying", "returned", "raised", "lost"}
      BY <2>3 DEF CallKind
    <3>3. a \in Nat /\ b \in {"new", "trying", "returned", "raised", "lost"}
      BY <3>1, <3>2
    <3>4. c = [call[w] EXCEPT !.tries = a, !.at = b]
      BY <2>1, <3>1
    <3>5. c \in CallKind /\ c.key = call[w].key /\ c.tries = a /\ c.at = b
      BY <2>3, <3>3, <3>4 DEF CallKind
    <3> QED BY <3>1, <3>2, <3>5
  <2>5. StoreTypes'
    BY <2>2, <2>4 DEF StoreInv, StoreTypes
  <2>6. ASSUME NEW u \in Writer
        PROVE  /\ call[u].at = "returned" <=> call'[u].at = "returned"
               /\ call[u].at = "returned" => call'[u] = call[u]
               /\ call'[u].tries <= MaxRetries
               /\ call'[u].at = "trying" => call'[u].tries < MaxRetries /\ call'[u].key \in Key
    <3>1. CASE u = w
      <4>1. call[w].tries < MaxRetries /\ call[w].key \in Key
        BY <2>2 DEF StoreInv
      <4> QED BY <2>2, <2>3, <2>4, <3>1, <4>1 DEF MaxRetries
    <3>2. CASE u # w
      BY <2>2, <2>3, <3>2 DEF StoreInv
    <3> QED BY <3>1, <3>2
  <2> QED BY <2>2, <2>5, <2>6, NoCommitKeeps
<1>4. ASSUME NEW w \in Writer, Closed(w) PROVE StoreInv'
  <2>1. PICK c : c = [call[w] EXCEPT !.at = "raised"]
    OBVIOUS
  <2>2. call[w].at = "trying" /\ call' = [call EXCEPT ![w] = c] /\ UNCHANGED <<table, log>>
    BY <1>4, <2>1 DEF Closed
  <2>3. call[w] \in CallKind /\ DOMAIN call = Writer
    BY DEF StoreInv, StoreTypes
  <2>4. c \in CallKind /\ c.tries = call[w].tries /\ c.at = "raised"
    BY <2>1, <2>3 DEF CallKind
  <2>5. StoreTypes'
    BY <2>2, <2>4 DEF StoreInv, StoreTypes
  <2> QED BY <2>2, <2>3, <2>4, <2>5, NoCommitKeeps DEF StoreInv
<1>5. CASE Close
  <2>1. UNCHANGED <<call, table, log>>
    BY <1>5 DEF Close
  <2>2. StoreTypes'
    BY <2>1 DEF StoreInv, StoreTypes
  <2> QED BY <2>1, <2>2, NoCommitKeeps DEF StoreInv
<1>6. CASE Reopen
  <2>1. ASSUME NEW u \in Writer
        PROVE  /\ call'[u] \in CallKind /\ call'[u].tries = call[u].tries /\ call'[u].at # "trying"
               /\ call[u].at = "returned" => call'[u] = call[u]
               /\ call'[u].at = "returned" => call[u].at = "returned"
    <3>1. PICK c : c = [call[u] EXCEPT !.at = IF call[u].at = "trying" THEN "lost" ELSE call[u].at]
      OBVIOUS
    <3>2. call[u] \in CallKind /\ call'[u] = c
      BY <1>6, <3>1 DEF Reopen, StoreInv, StoreTypes
    <3>3. c \in CallKind /\ c.tries = call[u].tries /\ c.at = IF call[u].at = "trying" THEN "lost" ELSE call[u].at
      BY <3>1, <3>2 DEF CallKind
    <3>4. call[u].at = "returned" => c = call[u]
      BY <3>1, <3>2 DEF CallKind
    <3> QED BY <3>2, <3>3, <3>4
  <2>2. StoreTypes' /\ UNCHANGED <<table, log>>
    BY <1>6, <2>1 DEF Reopen, StoreInv, StoreTypes
  <2> QED BY <2>1, <2>2, NoCommitKeeps DEF StoreInv
<1> QED BY <1>1, <1>2, <1>3, <1>4, <1>5, <1>6 DEF StoreNext

LEMMA StoreStarts == StoreInit => StoreInv
<1> SUFFICES ASSUME StoreInit PROVE StoreInv
  OBVIOUS
<1>1. /\ call = [w \in Writer |-> NoCall] /\ table = [k \in Key |-> "gone"] /\ log = <<>>
  BY DEF StoreInit
<1>2. NoCall \in CallKind /\ NoCall.at = "new" /\ NoCall.tries = 0
  BY DEF NoCall, CallKind
<1>3. StoreTypes
  <2>1. <<>> \in Seq(Writer)
    OBVIOUS
  <2> QED BY <1>1, <1>2, <2>1 DEF StoreTypes
<1>4. ToSet(log) = {} /\ DOMAIN log = {} /\ Len(log) = 0
  BY <1>1, SetOfEmpty
<1>5. \A k \in Key : Latest(k, Len(log)) = "gone"
  BY <1>4 DEF Latest, WritesTo
<1> QED BY <1>1, <1>2, <1>3, <1>4, <1>5 DEF StoreInv, Distinct, MaxRetries

LEMMA WritesAreTold == StoreInv => WritesTold
<1> SUFFICES ASSUME StoreInv PROVE WritesTold
  OBVIOUS
<1>1. Cardinality(ToSet(log)) = Len(log)
  BY DistinctSize DEF StoreInv, StoreTypes
<1> QED BY <1>1 DEF StoreInv, WritesTold, Latest, WritesTo, Newest

-----------------------------------------------------------------------------
(* Plugins.  Unless calls crossed, one thread at a time is between finding *)
(* the name free and entering its plugin, and only what is entered is      *)
(* loaded.                                                                 *)

PluginInv ==
  /\ registering \in [Registrar -> [at : {"idle", "free", "entered", "popped"}, plugin : Plugin \cup {"none"}]]
  /\ plugin \in Plugin \cup {"none"} /\ loaded \subseteq Plugin
  /\ \A r \in Registrar : registering[r].at # "idle" => registering[r].plugin \in Plugin
  /\ crossed \/
       /\ \A r, s \in Registrar : registering[r].at = "free" /\ registering[s].at = "free" => r = s
       /\ \A r \in Registrar : /\ registering[r].at = "free" => plugin = "none"
                               /\ registering[r].at = "entered" => registering[r].plugin = plugin
       /\ LoadedIsRegistered

LEMMA PluginKeeps == ASSUME PluginInv, PluginNext PROVE PluginInv'
<1> USE StoresAssumption
<1>1. ASSUME NEW r \in Registrar, NEW p \in Plugin, RegisterLook(r, p) PROVE PluginInv'
  <2>1. /\ registering[r].at = "idle" /\ p \notin loaded /\ plugin = "none"
        /\ registering' = [registering EXCEPT ![r] = [at |-> "free", plugin |-> p]]
        /\ UNCHANGED <<plugin, loaded>>
        /\ ~crossed' => ~crossed /\ \A s \in Registrar : registering[s].at # "free"
    <3>1. crossed' = (crossed \/ \E s \in Registrar : registering[s].at = "free")
      BY <1>1, Zenon DEF RegisterLook
    <3>2. ~crossed' => ~crossed /\ \A s \in Registrar : registering[s].at # "free"
      BY <3>1, Zenon
    <3> QED BY <1>1, <3>2 DEF RegisterLook, Idle
  <2> QED BY <2>1 DEF PluginInv, LoadedIsRegistered
<1>2. ASSUME NEW r \in Registrar, RegisterEnter(r) PROVE PluginInv'
  BY <1>2 DEF RegisterEnter, PluginInv, LoadedIsRegistered
<1>3. ASSUME NEW r \in Registrar, OnLoad(r) PROVE PluginInv'
  BY <1>3 DEF OnLoad, Idle, PluginInv, LoadedIsRegistered
<1>4. ASSUME NEW r \in Registrar, UnregisterPop(r) PROVE PluginInv'
  <2>1. PICK e, p : e = [at |-> "popped", plugin |-> plugin] /\ p = [at |-> "entered", plugin |-> plugin]
    OBVIOUS
  <2>2. /\ registering[r].at = "idle" /\ plugin # "none" /\ plugin' = "none"
        /\ registering' = [registering EXCEPT ![r] = e] /\ UNCHANGED loaded
        /\ ~crossed' => ~crossed /\ \A s \in Registrar : registering[s] # p
    <3>1. crossed' = (crossed \/ \E s \in Registrar : registering[s] = [at |-> "entered", plugin |-> plugin])
      BY <1>4, Zenon DEF UnregisterPop
    <3>2. ~crossed' => ~crossed /\ \A s \in Registrar : registering[s] # p
      BY <2>1, <3>1, Zenon
    <3> QED BY <1>4, <2>1, <3>2 DEF UnregisterPop, Idle
  <2>3. ASSUME NEW s \in Registrar, registering[s].at = "entered", registering[s].plugin = plugin
        PROVE  registering[s] = p
    BY <2>1, <2>3 DEF PluginInv
  <2>4. /\ registering' \in [Registrar -> [at : {"idle", "free", "entered", "popped"}, plugin : Plugin \cup {"none"}]]
        /\ registering'[r] = e /\ \A s \in Registrar \ {r} : registering'[s] = registering[s]
    BY <2>1, <2>2 DEF PluginInv
  <2>5. e.at = "popped" /\ e.plugin = plugin /\ plugin \in Plugin
    BY <2>1, <2>2 DEF PluginInv
  <2>6. ASSUME ~crossed'
        PROVE  /\ \A s, q \in Registrar : registering'[s].at = "free" /\ registering'[q].at = "free" => s = q
               /\ \A s \in Registrar : /\ registering'[s].at = "free" => plugin' = "none"
                                       /\ registering'[s].at # "entered"
               /\ \A x \in loaded : \E s \in Registrar : registering'[s] = [at |-> "popped", plugin |-> x]
    <3>1. ~crossed /\ \A s \in Registrar : registering[s].at # "entered"
      BY <2>2, <2>3, <2>6 DEF PluginInv
    <3>2. ASSUME NEW x \in loaded PROVE \E s \in Registrar : registering'[s] = [at |-> "popped", plugin |-> x]
      <4>1. CASE x = plugin
        BY <2>1, <2>4, <4>1
      <4>2. CASE x # plugin
        <5>1. PICK s \in Registrar : registering[s] = [at |-> "popped", plugin |-> x]
          BY <3>1, <4>2 DEF PluginInv, LoadedIsRegistered
        <5>2. s # r
          BY <2>2, <5>1
        <5> QED BY <2>4, <5>1, <5>2
      <4> QED BY <4>1, <4>2
    <3> QED BY <2>2, <2>4, <2>5, <3>1, <3>2 DEF PluginInv
  <2>7. plugin' \in Plugin \cup {"none"} /\ loaded' \subseteq Plugin
        /\ \A s \in Registrar : registering'[s].at # "idle" => registering'[s].plugin \in Plugin
    BY <2>2, <2>4, <2>5 DEF PluginInv
  <2> QED BY <2>2, <2>4, <2>6, <2>7 DEF PluginInv, LoadedIsRegistered
<1>5. ASSUME NEW r \in Registrar, OnUnload(r) PROVE PluginInv'
  BY <1>5 DEF OnUnload, Idle, PluginInv, LoadedIsRegistered
<1> QED BY <1>1, <1>2, <1>3, <1>4, <1>5 DEF PluginNext

LEMMA PluginStarts == PluginInit => PluginInv
BY StoresAssumption DEF PluginInit, PluginInv, Idle, LoadedIsRegistered

LEMMA PluginsHold == PluginInv => LoadedIsRegistered
BY DEF PluginInv, LoadedIsRegistered

-----------------------------------------------------------------------------
(* The index.  As long as no rating changes, the list of top_n() stays     *)
(* sorted, and its copies are what they were copied from.                  *)

Rated == {m \in Model : rating[m] # -1}

IndexInv ==
  /\ rating \in [Model -> Int] /\ changes \in Nat
  /\ entries \in Seq(Rated)
  /\ ranking.at \in {"idle", "listed", "sorted"} /\ ranking.listed \in Seq(Rated)
  /\ ranking.copied \in Seq(Int) /\ Len(ranking.copied) <= Len(ranking.listed)
  /\ ranking.keys \in Seq(Int) /\ Len(ranking.keys) <= Len(ranking.listed)
  /\ DOMAIN ranking = {"at", "listed", "keys", "copied", "since"}
  /\ ranking.since \in Nat /\ ranking.since <= changes
  /\ ranking.at = "listed" => ranking.copied = <<>>
  /\ ranking.at = "listed" /\ ranking.since = changes =>
       \A i \in DOMAIN ranking.keys : ranking.keys[i] = rating[ranking.listed[i]]
  /\ ranking.at = "sorted" /\ ranking.since = changes =>
       /\ \A i, j \in DOMAIN ranking.listed : i < j => rating[ranking.listed[j]] <= rating[ranking.listed[i]]
       /\ \A i \in DOMAIN ranking.copied : ranking.copied[i] = rating[ranking.listed[i]]

LEMMA SortedAs ==
  ASSUME IndexInv, Len(ranking.keys) = Len(ranking.listed), NEW l, l = Ranked(1)
  PROVE  /\ l \in Seq(Rated) /\ Len(l) = Len(ranking.listed)
         /\ (\A i \in DOMAIN ranking.keys : ranking.keys[i] = rating[ranking.listed[i]]) =>
              \A i, j \in DOMAIN l : i < j => rating[l[j]] <= rating[l[i]]
<1>1. PICK X, n : X = [model : Rated, prio : Int] /\ n = Len(ranking.listed)
  OBVIOUS
<1>2. HavePrio(X) /\ n \in Nat
  BY <1>1 DEF HavePrio, IndexInv
<1>3. PICK s : s = [i \in DOMAIN ranking.listed |->
                     [model |-> ranking.listed[i], prio |-> -(1 * ranking.keys[i])]]
  OBVIOUS
<1>4. /\ DOMAIN s = 1..n
      /\ \A i \in 1..n : s[i] \in X /\ s[i].prio = 0 - ranking.keys[i] /\ s[i].model = ranking.listed[i]
  <2>1. /\ DOMAIN ranking.listed = 1..n
        /\ \A i \in 1..n : ranking.listed[i] \in Rated /\ ranking.keys[i] \in Int
    BY <1>1 DEF IndexInv
  <2>2. ASSUME NEW i \in 1..n
        PROVE  s[i] \in X /\ s[i].prio = 0 - ranking.keys[i] /\ s[i].model = ranking.listed[i]
    <3>1. s[i].model = ranking.listed[i] /\ s[i] = [model |-> ranking.listed[i], prio |-> -(1 * ranking.keys[i])]
      BY <1>3, <2>1
    <3> QED BY <1>1, <2>1, <3>1
  <2> QED BY <1>3, <2>1, <2>2
<1>5. s \in Seq(X) /\ Len(s) = n
  <2>1. s = [i \in 1..n |-> s[i]]
    BY <1>3, <1>4
  <2> QED BY <1>2, <1>4, <2>1
<1>6. PICK b : b = Built(s)
  OBVIOUS
<1>7. Stable(b, s, X) /\ Len(b) = n
  BY <1>2, <1>5, <1>6, BuiltStable
<1>8. b \in Seq(X) /\ ByPrio(b) /\ DOMAIN b = 1..n
  BY <1>7 DEF Stable
<1>9. ASSUME NEW i \in 1..n
      PROVE  \E j \in 1..n : b[i].model = ranking.listed[j] /\ b[i].prio = 0 - ranking.keys[j]
  <2>1. b[i] \in ToSet(s)
    <3>1. ToSet(b) = ToSet(s)
      BY <1>2, <1>7, StableSet
    <3> QED BY <1>8, <3>1 DEF ToSet
  <2>2. PICK j \in 1..n : b[i] = s[j]
    BY <1>4, <2>1 DEF ToSet
  <2> QED BY <1>4, <2>2
<1>10. l = [i \in DOMAIN b |-> b[i].model]
  BY <1>3, <1>6 DEF Ranked
<1>11. \A i \in 1..n : b[i].model \in Rated
  <2>1. \A j \in 1..n : ranking.listed[j] \in Rated
    BY <1>1 DEF IndexInv
  <2> QED BY <1>9, <2>1
<1>12. l \in Seq(Rated) /\ Len(l) = n /\ DOMAIN l = 1..n
  BY <1>2, <1>8, <1>10, <1>11
<1>13. ASSUME \A i \in DOMAIN ranking.keys : ranking.keys[i] = rating[ranking.listed[i]],
              NEW i \in 1..n, NEW j \in 1..n, i < j
       PROVE  rating[l[j]] <= rating[l[i]]
  <2>1. b[i].prio <= b[j].prio
    BY <1>7, <1>13, <1>8 DEF ByPrio
  <2>2. l[i] = b[i].model /\ l[j] = b[j].model
    BY <1>8, <1>10
  <2>3. rating[l[i]] \in Int /\ rating[l[j]] \in Int
    BY <1>11, <2>2 DEF IndexInv, Rated
  <2>4. DOMAIN ranking.keys = 1..n
    BY <1>1 DEF IndexInv
  <2>5. \A k \in 1..n : ranking.keys[k] = rating[ranking.listed[k]]
    BY <1>13, <2>4
  <2>6. \A k \in 1..n : b[k].prio = 0 - rating[b[k].model]
    <3>1. ASSUME NEW k \in 1..n PROVE b[k].prio = 0 - rating[b[k].model]
      <4>1. PICK q \in 1..n : b[k].model = ranking.listed[q] /\ b[k].prio = 0 - ranking.keys[q]
        BY <1>9
      <4> QED BY <2>5, <4>1
    <3> QED BY <3>1
  <2>7. b[i].prio = 0 - rating[l[i]] /\ b[j].prio = 0 - rating[l[j]]
    BY <2>2, <2>6
  <2> QED BY <2>1, <2>3, <2>7
<1> QED BY <1>1, <1>12, <1>13

LEMMA RatedGrows == ASSUME NEW S, NEW T, S \subseteq T, NEW s \in Seq(S) PROVE s \in Seq(T)
OBVIOUS

LEMMA IndexKeeps == ASSUME IndexInv, IndexNext PROVE IndexInv'
<1>1. ASSUME NEW m \in Model, NEW x \in 0..MaxRating, RegisterEntry(m, x) PROVE IndexInv'
  <2>1. /\ rating[m] = -1 /\ entries' = Append(entries, m) /\ rating' = [rating EXCEPT ![m] = x]
        /\ UNCHANGED <<changes, ranking>>
    BY <1>1 DEF RegisterEntry
  <2>2. /\ rating' \in [Model -> Int] /\ rating'[m] = x /\ x # -1 /\ m \notin Rated
        /\ \A n \in Rated : rating'[n] = rating[n]
    BY <2>1, StoresAssumption DEF IndexInv, Rated
  <2>3. Rated' = Rated \cup {m}
    BY <2>1, <2>2 DEF Rated, IndexInv
  <2>4. entries \in Seq(Rated') /\ ranking.listed \in Seq(Rated') /\ m \in Rated'
    BY <2>3, RatedGrows DEF IndexInv
  <2>5. entries' \in Seq(Rated')
    BY <2>1, <2>4
  <2>6. \A i \in DOMAIN ranking.listed : rating'[ranking.listed[i]] = rating[ranking.listed[i]]
    BY <2>2 DEF IndexInv
  <2>7. /\ \A i \in DOMAIN ranking.copied : i \in DOMAIN ranking.listed
        /\ \A i \in DOMAIN ranking.keys : i \in DOMAIN ranking.listed
    BY DEF IndexInv
  <2>8. \A i \in DOMAIN ranking.keys : rating'[ranking.listed[i]] = rating[ranking.listed[i]]
    BY <2>6, <2>7
  <2>9. \A i \in DOMAIN ranking.copied : rating'[ranking.listed[i]] = rating[ranking.listed[i]]
    BY <2>6, <2>7
  <2>10. ranking.at = "listed" /\ ranking.since = changes =>
           \A i \in DOMAIN ranking.keys : ranking.keys[i] = rating'[ranking.listed[i]]
    BY <2>8 DEF IndexInv
  <2>11. ranking.at = "sorted" /\ ranking.since = changes =>
           /\ \A i, j \in DOMAIN ranking.listed : i < j => rating'[ranking.listed[j]] <= rating'[ranking.listed[i]]
           /\ \A i \in DOMAIN ranking.copied : ranking.copied[i] = rating'[ranking.listed[i]]
    BY <2>6, <2>9 DEF IndexInv
  <2> QED BY <2>1, <2>2, <2>4, <2>5, <2>10, <2>11 DEF IndexInv
<1>2. ASSUME NEW m \in Model, NEW x \in 0..MaxRating, UpdateSafety(m, x) PROVE IndexInv'
  <2>1. /\ rating' = [rating EXCEPT ![m] = x] /\ changes' = changes + 1 /\ UNCHANGED <<entries, ranking>>
        /\ x # -1 /\ x \in Int
    BY <1>2, StoresAssumption DEF UpdateSafety
  <2>2. rating' \in [Model -> Int] /\ Rated \subseteq Rated'
    BY <2>1 DEF IndexInv, Rated
  <2>3. entries \in Seq(Rated') /\ ranking.listed \in Seq(Rated')
    BY <2>2, RatedGrows DEF IndexInv
  <2> QED BY <2>1, <2>2, <2>3 DEF IndexInv
<1>3. ASSUME NEW m \in Model, UnregisterEntry(m) PROVE IndexInv'
  <2>1. PICK A : A = Model \ {m}
    OBVIOUS
  <2>2. entries' = Kept(entries, A) /\ UNCHANGED <<rating, changes, ranking>>
    BY <1>3, <2>1 DEF UnregisterEntry
  <2>3. entries' \in Seq(Rated)
    <3>1. entries \in Seq(Rated)
      BY DEF IndexInv
    <3>2. PICK R : R = Rated \cap A
      OBVIOUS
    <3>3. Kept(entries, A) \in Seq(R)
      BY <3>1, <3>2, KeptType
    <3> QED BY <2>2, <3>2, <3>3, RatedGrows
  <2> QED BY <2>2, <2>3 DEF IndexInv, Rated
<1>4. CASE TopList
  <2>1. ranking' = [at |-> "listed", listed |-> entries, keys |-> <<>>, copied |-> <<>>, since |-> 0]
        /\ UNCHANGED <<entries, rating, changes>>
    BY <1>4 DEF TopList, NoRanking
  <2>2. <<>> \in Seq(Int) /\ Len(<<>>) = 0 /\ Len(entries) >= 0
    BY DEF IndexInv
  <2> QED BY <2>1, <2>2 DEF IndexInv, Rated
<1>5. CASE TopSort
  <2>1. PICK l : l = Ranked(1)
    OBVIOUS
  <2>2. /\ ranking.at = "listed" /\ UNCHANGED <<entries, rating, changes>>
        /\ ranking' = [ranking EXCEPT !.at = "sorted", !.listed = l] /\ Len(ranking.keys) = Len(ranking.listed)
    BY <1>5, <2>1 DEF TopSort
  <2>3. /\ l \in Seq(Rated) /\ Len(l) = Len(ranking.listed)
        /\ ranking.since = changes => \A i, j \in DOMAIN l : i < j => rating[l[j]] <= rating[l[i]]
    BY <2>1, <2>2, SortedAs DEF IndexInv
  <2> QED BY <2>2, <2>3 DEF IndexInv, Rated
<1>8. CASE TopKey
  <2>1. PICK i, x : i = Len(ranking.keys) + 1 /\ x = rating[ranking.listed[i]]
    OBVIOUS
  <2>2. PICK c, t : c = Append(ranking.keys, x) /\ t = (IF i = 1 THEN changes ELSE ranking.since)
    OBVIOUS
  <2>3. /\ ranking.at = "listed" /\ i <= Len(ranking.listed) /\ UNCHANGED <<entries, rating, changes>>
        /\ ranking' = [ranking EXCEPT !.keys = c, !.since = t]
    BY <1>8, <2>1, <2>2 DEF TopKey
  <2>4. /\ ranking'.at = "listed" /\ ranking'.listed = ranking.listed /\ ranking'.keys = c
        /\ ranking'.since = t /\ ranking'.copied = ranking.copied /\ DOMAIN ranking' = DOMAIN ranking
    BY <2>3 DEF IndexInv
  <2>5. i \in DOMAIN ranking.listed /\ i \in Nat /\ x \in Int
    BY <2>1, <2>3 DEF IndexInv, Rated
  <2>6. /\ c \in Seq(Int) /\ Len(c) = i /\ DOMAIN c = 1..i /\ c[i] = x
        /\ \A j \in DOMAIN ranking.keys : c[j] = ranking.keys[j]
        /\ \A k \in DOMAIN c : k = i \/ (k \in DOMAIN ranking.keys /\ i # 1)
    <3>1. PICK s : s = ranking.keys
      OBVIOUS
    <3>2. s \in Seq(Int) /\ i = Len(s) + 1 /\ c = Append(s, x) /\ x \in Int
      BY <2>1, <2>2, <2>5, <3>1 DEF IndexInv
    <3>3. c \in Seq(Int) /\ Len(c) = i /\ c[i] = x /\ \A j \in 1..Len(s) : c[j] = s[j]
      BY <3>2
    <3>4. DOMAIN c = 1..i /\ DOMAIN s = 1..Len(s) /\ Len(s) \in Nat
      BY <3>2, <3>3
    <3> QED BY <3>1, <3>2, <3>3, <3>4
  <2>7. ASSUME t = changes, NEW k \in DOMAIN c PROVE c[k] = rating[ranking.listed[k]]
    <3>1. CASE k = i
      BY <2>1, <2>6, <3>1
    <3>2. CASE k # i
      <4>1. k \in DOMAIN ranking.keys /\ ranking.since = changes
        BY <2>2, <2>6, <2>7, <3>2
      <4>2. ranking.keys[k] = rating[ranking.listed[k]]
        BY <2>3, <4>1 DEF IndexInv
      <4> QED BY <2>6, <4>1, <4>2
    <3> QED BY <3>1, <3>2
  <2>8. t \in Nat /\ t <= changes /\ Len(c) <= Len(ranking.listed)
    BY <2>2, <2>3, <2>6 DEF IndexInv
  <2> QED BY <2>3, <2>4, <2>6, <2>7, <2>8 DEF IndexInv, Rated
<1>6. CASE TopCopy
  <2>1. PICK i, x : i = Len(ranking.copied) + 1 /\ x = rating[ranking.listed[i]]
    OBVIOUS
  <2>2. PICK c : c = Append(ranking.copied, x)
    OBVIOUS
  <2>3. /\ ranking.at = "sorted" /\ i <= Len(ranking.listed) /\ UNCHANGED <<entries, rating, changes>>
        /\ ranking' = [ranking EXCEPT !.copied = c]
    BY <1>6, <2>1, <2>2 DEF TopCopy
  <2>4. /\ ranking'.at = "sorted" /\ ranking'.listed = ranking.listed /\ ranking'.copied = c
        /\ ranking'.since = ranking.since /\ DOMAIN ranking' = DOMAIN ranking
    BY <2>3 DEF IndexInv
  <2>5. i \in DOMAIN ranking.listed /\ x \in Int
    BY <2>1, <2>3 DEF IndexInv, Rated
  <2>6. /\ c \in Seq(Int) /\ Len(c) = i /\ DOMAIN c = 1..i /\ c[i] = x
        /\ \A j \in DOMAIN ranking.copied : c[j] = ranking.copied[j]
        /\ \A k \in DOMAIN c : k = i \/ k \in DOMAIN ranking.copied
    <3>1. PICK s : s = ranking.copied
      OBVIOUS
    <3>2. s \in Seq(Int) /\ i = Len(s) + 1 /\ c = Append(s, x) /\ x \in Int
      BY <2>1, <2>2, <2>5, <3>1 DEF IndexInv
    <3>3. c \in Seq(Int) /\ Len(c) = i /\ c[i] = x /\ \A j \in 1..Len(s) : c[j] = s[j]
      BY <3>2
    <3>4. DOMAIN c = 1..i /\ DOMAIN s = 1..Len(s) /\ Len(s) \in Nat
      BY <3>2, <3>3
    <3> QED BY <3>1, <3>2, <3>3, <3>4
  <2>7. ranking.since = changes => \A k \in DOMAIN c : c[k] = rating[ranking.listed[k]]
    <3>1. ranking.since = changes => \A k \in DOMAIN ranking.copied : ranking.copied[k] = rating[ranking.listed[k]]
      BY <2>3 DEF IndexInv
    <3>2. c[i] = rating[ranking.listed[i]]
      BY <2>1, <2>6
    <3>3. ASSUME ranking.since = changes, NEW k \in DOMAIN c PROVE c[k] = rating[ranking.listed[k]]
      <4>1. CASE k = i
        BY <3>2, <4>1
      <4>2. CASE k # i
        <5>1. k \in DOMAIN ranking.copied
          BY <2>6, <3>3, <4>2
        <5>2. c[k] = ranking.copied[k]
          BY <2>6, <5>1
        <5> QED BY <3>1, <3>3, <5>1, <5>2
      <4> QED BY <4>1, <4>2
    <3> QED BY <3>3
  <2>8. ranking.since \in Nat /\ ranking.since <= changes /\ Len(c) <= Len(ranking.listed)
    BY <2>3, <2>6 DEF IndexInv
  <2> QED BY <2>3, <2>4, <2>6, <2>7, <2>8 DEF IndexInv, Rated
<1>7. CASE TopReturn
  BY <1>7 DEF TopReturn, NoRanking, IndexInv, Rated
<1> QED BY <1>1, <1>2, <1>3, <1>4, <1>5, <1>6, <1>7, <1>8 DEF IndexNext

LEMMA IndexStarts == IndexInit => IndexInv
BY StoresAssumption DEF IndexInit, IndexInv, NoRanking, Rated

LEMMA IndexIsSorted == IndexInv => TopSorted
<1> SUFFICES ASSUME IndexInv, ranking.at = "sorted", ranking.since = changes PROVE TopSorted
  BY DEF TopSorted
<1>1. PICK l, c, n, k : l = ranking.listed /\ c = ranking.copied /\ n = Len(l) /\ k = Len(c)
  OBVIOUS
<1>2. /\ n \in Nat /\ k \in Nat /\ k <= n /\ DOMAIN l = 1..n /\ DOMAIN c = 1..k
      /\ \A i \in 1..n : l[i] \in Model /\ rating[l[i]] \in Int
  BY <1>1 DEF IndexInv, Rated
<1>3. /\ \A i, j \in 1..n : i < j => rating[l[j]] <= rating[l[i]]
      /\ \A i \in 1..k : c[i] = rating[l[i]]
  BY <1>1, <1>2 DEF IndexInv
<1>4. ASSUME NEW i \in 2..k PROVE c[i] <= c[i - 1]
  BY <1>2, <1>3
<1>5. ASSUME NEW i \in (k + 1)..n, NEW j \in 1..k PROVE rating[l[i]] <= c[j]
  BY <1>2, <1>3
<1> QED BY <1>1, <1>2, <1>4, <1>5 DEF TopSorted

-----------------------------------------------------------------------------
(* The conversation.  As long as nothing overlapped, one call records at a *)
(* time: between its question and its answer the history is whole          *)
(* exchanges and the question, and otherwise whole exchanges.              *)

Entry == {"user", "assistant"} \X Asker
AskKind == [at : {"new", "answered", "said", "replied", "cut", "over"}, kind : {"ask", "stream"}, cut : Seq(Entry)]

Paired(h) ==
  \E k \in Nat : /\ Len(h) = 2 * k
                 /\ \A i \in 1..k : h[2 * i - 1][1] = "user" /\ h[2 * i] = <<"assistant", h[2 * i - 1][2]>>

AskTypes ==
  /\ asking \in [Asker -> AskKind] /\ history \in Seq(Entry) /\ unchecked \in Nat
  /\ saving.what.history \in Seq(Entry) /\ stateFile.what.history \in Seq(Entry)

\* What was saved, unless it was torn.
SavedInv == /\ saving.what.torn \/ Paired(saving.what.history)
            /\ stateFile.what.torn \/ Paired(stateFile.what.history)

Bound == MaxHistory + 2 * unchecked

TalkInv ==
  /\ \A c, d \in Asker : Recording(c) /\ Recording(d) => c = d
  /\ (\A c \in Asker : asking[c].at # "said") => Paired(history)
  /\ (\A c \in Asker : ~Recording(c)) => Len(history) <= Bound
  /\ \A c \in Asker : asking[c].at = "said" =>
       \E h \in Seq(Entry) : history = Append(h, <<"user", c>>) /\ Paired(h) /\ Len(h) <= Bound
  /\ \A c \in Asker : asking[c].at = "replied" => Len(history) <= Bound + 2
  /\ \A c \in Asker : asking[c].at = "cut" => Paired(asking[c].cut) /\ Len(asking[c].cut) <= MaxHistory

AskInv == AskTypes /\ SavedInv /\ (overlapped \/ TalkInv)

LEMMA EntriesAre == ASSUME NEW c \in Asker PROVE <<"user", c>> \in Entry /\ <<"assistant", c>> \in Entry
BY DEF Entry

LEMMA NothingPaired == Paired(<<>>)
<1>1. Len(<<>>) = 2 * 0 /\ 0 \in Nat /\ 1..0 = {}
  OBVIOUS
<1> QED BY <1>1 DEF Paired

\* One more exchange.
LEMMA PairedNext ==
  ASSUME NEW h \in Seq(Entry), Paired(h), NEW c \in Asker, NEW t, t = Append(Append(h, <<"user", c>>), <<"assistant", c>>)
  PROVE  t \in Seq(Entry) /\ Paired(t) /\ Len(t) = Len(h) + 2
<1>1. PICK u, a : u = <<"user", c>> /\ a = <<"assistant", c>>
  OBVIOUS
<1>2. u \in Entry /\ a \in Entry /\ u[1] = "user" /\ u[2] = c
  BY <1>1, EntriesAre
<1>3. PICK k \in Nat : /\ Len(h) = 2 * k
                       /\ \A i \in 1..k : h[2 * i - 1][1] = "user" /\ h[2 * i] = <<"assistant", h[2 * i - 1][2]>>
  BY DEF Paired
<1>4. /\ t \in Seq(Entry) /\ Len(t) = 2 * k + 2 /\ t[2 * k + 1] = u /\ t[2 * k + 2] = a
      /\ \A i \in 1..(2 * k) : t[i] = h[i]
  BY <1>1, <1>2, <1>3
<1>5. ASSUME NEW i \in 1..(k + 1)
      PROVE  t[2 * i - 1][1] = "user" /\ t[2 * i] = <<"assistant", t[2 * i - 1][2]>>
  <2>1. CASE i = k + 1
    <3>1. 2 * i - 1 = 2 * k + 1 /\ 2 * i = 2 * k + 2
      BY <2>1
    <3>2. t[2 * i - 1] = u /\ t[2 * i] = a
      BY <1>4, <3>1
    <3> QED BY <1>1, <1>2, <3>2
  <2>2. CASE i # k + 1
    <3>1. i \in 1..k /\ 2 * i - 1 \in 1..(2 * k) /\ 2 * i \in 1..(2 * k)
      BY <2>2
    <3> QED BY <1>3, <1>4, <3>1
  <2> QED BY <2>1, <2>2
<1>6. k + 1 \in Nat /\ Len(t) = 2 * (k + 1)
  BY <1>4
<1> QED BY <1>3, <1>4, <1>5, <1>6 DEF Paired

\* What is left when the oldest exchanges go.
LEMMA PairedLast ==
  ASSUME NEW h \in Seq(Entry), NEW t, t = LastOf(h, MaxHistory)
  PROVE  t \in Seq(Entry) /\ Len(t) <= MaxHistory /\ (Paired(h) => Paired(t))
<1>1. PICK m \in Nat : MaxHistory = 2 * m
  <2>1. MaxHistory = 2 * (MaxHistory \div 2) /\ MaxHistory \div 2 \in Nat
    BY AssistantAssumption
  <2> QED BY <2>1
<1>2. PICK n : n = Len(h)
  OBVIOUS
<1>3. n \in Nat
  BY <1>2
<1>4. CASE n <= 2 * m
  BY <1>1, <1>2, <1>3, <1>4 DEF LastOf
<1>5. CASE n > 2 * m
  <2>1. t = SubSeq(h, n - 2 * m + 1, n)
    BY <1>1, <1>2, <1>3, <1>5 DEF LastOf
  <2>2. /\ t \in Seq(Entry) /\ Len(t) = 2 * m
        /\ \A i \in 1..(2 * m) : t[i] = h[n - 2 * m + i]
    BY <1>2, <1>3, <1>5, <2>1
  <2>3. ASSUME Paired(h) PROVE Paired(t)
    <3>1. PICK k \in Nat : /\ n = 2 * k
                           /\ \A i \in 1..k : h[2 * i - 1][1] = "user" /\ h[2 * i] = <<"assistant", h[2 * i - 1][2]>>
      BY <1>2, <2>3 DEF Paired
    <3>2. ASSUME NEW i \in 1..m
          PROVE  t[2 * i - 1][1] = "user" /\ t[2 * i] = <<"assistant", t[2 * i - 1][2]>>
      <4>1. PICK j : j = k - m + i
        OBVIOUS
      <4>2. j \in 1..k /\ 2 * i - 1 \in 1..(2 * m) /\ 2 * i \in 1..(2 * m)
        BY <1>5, <3>1, <4>1
      <4>3. n - 2 * m + (2 * i - 1) = 2 * j - 1 /\ n - 2 * m + 2 * i = 2 * j
        BY <3>1, <4>1
      <4>4. t[2 * i - 1] = h[2 * j - 1] /\ t[2 * i] = h[2 * j]
        BY <2>2, <4>2, <4>3
      <4> QED BY <3>1, <4>2, <4>4
    <3> QED BY <2>2, <3>2 DEF Paired
  <2> QED BY <1>1, <2>2, <2>3
<1> QED BY <1>1, <1>3, <1>4, <1>5

-----------------------------------------------------------------------------

LEMMA OverIs == Over = [at |-> "over", kind |-> "ask", cut |-> <<>>] /\ Over \in AskKind /\ NoAsk \in AskKind /\ NoAsk.at = "new"
<1>1. <<>> \in Seq(Entry)
  OBVIOUS
<1>2. NoAsk = [at |-> "new", kind |-> "ask", cut |-> <<>>]
  BY DEF NoAsk
<1>3. Over = [at |-> "over", kind |-> "ask", cut |-> <<>>]
  BY <1>2 DEF Over
<1>4. PICK e : e = <<>>
  OBVIOUS
<1>5. e \in Seq(Entry)
  BY <1>1, <1>4
<1>6. [at |-> "over", kind |-> "ask", cut |-> e] \in AskKind /\ [at |-> "new", kind |-> "ask", cut |-> e] \in AskKind
  BY <1>5 DEF AskKind
<1> QED BY <1>2, <1>3, <1>4, <1>6

\* A call that neither begins nor ends to record, and leaves the history.
LEMMA BeginKeeps ==
  ASSUME AskInv, NEW c \in Asker, NEW kind \in {"ask", "stream"}, Begin(c, kind)
  PROVE  AskInv'
<1>1. PICK a : a = asking'[c]
  OBVIOUS
<1>2. /\ a \in AskKind /\ a.at \in {"over", "answered"} /\ asking' = [asking EXCEPT ![c] = a]
      /\ asking[c].at = "new" /\ UNCHANGED <<history, overlapped, unchecked, saving, stateFile>>
  <2>1. PICK what : asking' = [asking EXCEPT ![c] = IF what \in {"raise", "dropped"} THEN Over
                                                    ELSE [NoAsk EXCEPT !.at = "answered", !.kind = kind]]
    BY DEF Begin
  <2>2. PICK b : b = [NoAsk EXCEPT !.at = "answered", !.kind = kind]
    OBVIOUS
  <2>3. b.at = "answered" /\ b \in AskKind
    <3>1. <<>> \in Seq(Entry)
      OBVIOUS
    <3> QED BY <2>2, <3>1 DEF NoAsk, AskKind
  <2>4. DOMAIN asking = Asker
    BY DEF AskInv, AskTypes
  <2>5. a = Over \/ a = b
    BY <1>1, <2>1, <2>2, <2>4
  <2>6. asking' = [asking EXCEPT ![c] = a]
    BY <1>1, <2>1, <2>4
  <2>7. asking[c].at = "new" /\ UNCHANGED <<history, overlapped, unchecked, saving, stateFile>>
    BY OverIs DEF Begin
  <2> QED BY <2>3, <2>5, <2>6, <2>7, OverIs
<1>3. AskTypes' /\ SavedInv'
  BY <1>2 DEF AskInv, AskTypes, SavedInv, Paired
<1>4. ASSUME NEW d \in Asker
      PROVE  /\ asking'[d].at = "said" <=> asking[d].at = "said"
             /\ asking'[d].at = "replied" <=> asking[d].at = "replied"
             /\ asking'[d].at = "cut" <=> asking[d].at = "cut"
             /\ asking[d].at = "cut" => asking'[d] = asking[d]
  BY <1>2 DEF AskInv, AskTypes
<1>5. \A d \in Asker : Recording(d)' <=> Recording(d)
  BY <1>4 DEF Recording
<1>6. ASSUME TalkInv PROVE TalkInv'
  <2>1. history' = history /\ Bound' = Bound /\ (Paired(history) => Paired(history'))
    BY <1>2 DEF Bound
  <2>2. \A d, e \in Asker : Recording(d)' /\ Recording(e)' => d = e
    BY <1>5, <1>6 DEF TalkInv
  <2>3. (\A d \in Asker : asking'[d].at # "said") => Paired(history')
    BY <1>4, <1>6, <2>1 DEF TalkInv
  <2>4. (\A d \in Asker : ~Recording(d)') => Len(history') <= Bound'
    BY <1>5, <1>6, <2>1 DEF TalkInv
  <2>5. \A d \in Asker : asking'[d].at = "said" =>
          \E h \in Seq(Entry) : history' = Append(h, <<"user", d>>) /\ Paired(h) /\ Len(h) <= Bound'
    BY <1>4, <1>6, <2>1, Zenon DEF TalkInv
  <2>6. \A d \in Asker : asking'[d].at = "replied" => Len(history') <= Bound' + 2
    BY <1>4, <1>6, <2>1 DEF TalkInv
  <2>7. \A d \in Asker : asking'[d].at = "cut" => Paired(asking'[d].cut) /\ Len(asking'[d].cut) <= MaxHistory
    BY <1>4, <1>6 DEF TalkInv
  <2> QED BY <2>2, <2>3, <2>4, <2>5, <2>6, <2>7 DEF TalkInv
<1> QED BY <1>2, <1>3, <1>6 DEF AskInv

LEMMA UserKeeps == ASSUME AskInv, NEW c \in Asker, SayUser(c) PROVE AskInv'
<1>1. PICK a, u : a = [asking[c] EXCEPT !.at = "said"] /\ u = <<"user", c>>
  OBVIOUS
<1>2. /\ asking[c].at = "answered" /\ asking' = [asking EXCEPT ![c] = a] /\ history' = Append(history, u)
      /\ UNCHANGED <<unchecked, saving, stateFile>>
  BY <1>1 DEF SayUser
<1>3. a \in AskKind /\ a.at = "said" /\ u \in Entry
  BY <1>1, EntriesAre DEF AskInv, AskTypes, AskKind
<1>4. AskTypes' /\ SavedInv'
  <2>1. history' \in Seq(Entry)
    BY <1>2, <1>3 DEF AskInv, AskTypes
  <2>2. asking' \in [Asker -> AskKind]
    BY <1>2, <1>3 DEF AskInv, AskTypes
  <2> QED BY <1>2, <2>1, <2>2 DEF AskInv, AskTypes, SavedInv
<1>5. asking'[c].at = "said" /\ \A d \in Asker : d # c => asking'[d] = asking[d]
  BY <1>2, <1>3 DEF AskInv, AskTypes
<1>6. ASSUME ~overlapped' PROVE TalkInv'
  <2>1. ~overlapped /\ \A d \in Asker : ~Recording(d)
    <3>1. overlapped' = (overlapped \/ \E d \in Asker : Recording(d))
      BY Zenon DEF SayUser
    <3> QED BY <1>6, <3>1, Zenon
  <2>2. Paired(history) /\ Len(history) <= Bound
    BY <2>1 DEF AskInv, TalkInv, Recording
  <2>3. \A d \in Asker : d # c => asking'[d].at \notin {"said", "replied", "cut"}
    BY <1>5, <2>1 DEF Recording
  <2>4. \E h \in Seq(Entry) : history' = Append(h, u) /\ Paired(h) /\ Len(h) <= Bound'
    <3>1. history \in Seq(Entry) /\ Bound' = Bound
      BY <1>2 DEF AskInv, AskTypes, Bound
    <3> QED BY <1>2, <2>2, <3>1
  <2>5. \A d \in Asker : Recording(d)' => d = c
    BY <2>3 DEF Recording
  <2>6. Recording(c)'
    BY <1>5 DEF Recording
  <2> QED BY <1>1, <1>5, <2>3, <2>4, <2>5, <2>6 DEF TalkInv
<1> QED BY <1>4, <1>6 DEF AskInv

LEMMA AnswerKeeps == ASSUME AskInv, NEW c \in Asker, SayAnswer(c) PROVE AskInv'
<1>1. PICK a, s : /\ a = IF asking[c].kind = "ask" THEN [asking[c] EXCEPT !.at = "replied"] ELSE Over
                  /\ s = <<"assistant", c>>
  OBVIOUS
<1>2. /\ asking[c].at = "said" /\ asking' = [asking EXCEPT ![c] = a] /\ history' = Append(history, s)
      /\ UNCHANGED <<overlapped, saving, stateFile>>
      /\ unchecked' = IF asking[c].kind = "stream" THEN unchecked + 1 ELSE unchecked
  BY <1>1 DEF SayAnswer
<1>3. /\ a \in AskKind /\ s \in Entry
      /\ a.at = IF asking[c].kind = "ask" THEN "replied" ELSE "over"
      /\ asking[c].kind \in {"ask", "stream"}
  BY <1>1, EntriesAre, OverIs DEF AskInv, AskTypes, AskKind
<1>4. AskTypes' /\ SavedInv'
  <2>1. history' \in Seq(Entry)
    BY <1>2, <1>3 DEF AskInv, AskTypes
  <2>2. asking' \in [Asker -> AskKind] /\ unchecked' \in Nat
    BY <1>2, <1>3 DEF AskInv, AskTypes
  <2> QED BY <1>2, <2>1, <2>2 DEF AskInv, AskTypes, SavedInv
<1>5. asking'[c] = a /\ \A d \in Asker : d # c => asking'[d] = asking[d]
  BY <1>2, <1>3 DEF AskInv, AskTypes
<1>6. ASSUME TalkInv PROVE TalkInv'
  <2>1. \A d \in Asker : d # c => asking'[d].at \notin {"said", "replied", "cut"}
    BY <1>2, <1>5, <1>6 DEF TalkInv, Recording
  <2>2. PICK h \in Seq(Entry) : history = Append(h, <<"user", c>>) /\ Paired(h) /\ Len(h) <= Bound
    BY <1>2, <1>6 DEF TalkInv
  <2>3. PICK t : t = history'
    OBVIOUS
  <2>4. t = Append(Append(h, <<"user", c>>), <<"assistant", c>>)
    BY <1>1, <1>2, <2>2, <2>3
  <2>5. Paired(t) /\ Len(t) = Len(h) + 2
    BY <2>2, <2>4, PairedNext
  <2>6. /\ asking[c].kind = "ask" => Bound' = Bound
        /\ asking[c].kind = "stream" => Bound' = Bound + 2
        /\ Bound \in Nat
    BY <1>2, AssistantAssumption DEF Bound, AskInv, AskTypes
  <2>7. Len(h) \in Nat
    OBVIOUS
  <2>8. /\ asking[c].kind = "ask" => Len(t) <= Bound' + 2
        /\ asking[c].kind = "stream" => Len(t) <= Bound'
    BY <2>2, <2>5, <2>6, <2>7
  <2>9. \A d \in Asker : Recording(d)' => d = c /\ asking[c].kind = "ask"
    BY <1>3, <1>5, <2>1 DEF Recording
  <2>10. asking[c].kind = "ask" => Recording(c)'
    BY <1>3, <1>5 DEF Recording
  <2> QED BY <1>3, <1>5, <2>1, <2>3, <2>5, <2>8, <2>9, <2>10 DEF TalkInv
<1> QED BY <1>2, <1>4, <1>6 DEF AskInv

LEMMA LookKeeps == ASSUME AskInv, NEW c \in Asker, TrimLook(c) PROVE AskInv'
<1>1. asking[c].at = "replied" /\ UNCHANGED <<history, overlapped, saving, stateFile>> /\ asking[c] \in AskKind
  BY DEF TrimLook, AskInv, AskTypes
<1>2. CASE Len(history) <= MaxHistory
  <2>1. asking' = [asking EXCEPT ![c] = Over] /\ unchecked' = 0
    BY <1>2 DEF TrimLook
  <2>2. AskTypes' /\ SavedInv'
    BY <1>1, <2>1, OverIs DEF AskInv, AskTypes, SavedInv, Paired
  <2>3. asking'[c].at = "over" /\ \A d \in Asker : d # c => asking'[d] = asking[d]
    BY <2>1, OverIs DEF AskInv, AskTypes
  <2>4. ASSUME TalkInv PROVE TalkInv'
    <3>1. \A d \in Asker : asking'[d].at \notin {"said", "replied", "cut"}
      BY <1>1, <2>3, <2>4 DEF TalkInv, Recording
    <3>2. \A d \in Asker : asking[d].at # "said"
      BY <1>1, <2>4 DEF TalkInv, Recording
    <3>3. Paired(history') /\ Len(history') <= Bound'
      BY <1>1, <1>2, <2>1, <2>4, <3>2, AssistantAssumption DEF TalkInv, Bound
    <3> QED BY <3>1, <3>3 DEF TalkInv, Recording
  <2> QED BY <1>1, <2>2, <2>4 DEF AskInv
<1>3. CASE ~(Len(history) <= MaxHistory)
  <2>1. PICK t, a : t = LastOf(history, MaxHistory) /\ a = [asking[c] EXCEPT !.at = "cut", !.cut = t]
    OBVIOUS
  <2>2. asking' = [asking EXCEPT ![c] = a] /\ unchecked' = unchecked
    BY <1>3, <2>1 DEF TrimLook
  <2>3. t \in Seq(Entry) /\ Len(t) <= MaxHistory /\ (Paired(history) => Paired(t))
    BY <2>1, PairedLast DEF AskInv, AskTypes
  <2>4. a \in AskKind /\ a.at = "cut" /\ a.cut = t
    BY <1>1, <2>1, <2>3 DEF AskKind
  <2>5. AskTypes' /\ SavedInv'
    BY <1>1, <2>2, <2>4 DEF AskInv, AskTypes, SavedInv, Paired
  <2>6. asking'[c] = a /\ \A d \in Asker : d # c => asking'[d] = asking[d]
    BY <2>2, <2>4 DEF AskInv, AskTypes
  <2>7. ASSUME TalkInv PROVE TalkInv'
    <3>1. \A d \in Asker : d # c => asking'[d].at \notin {"said", "replied", "cut"}
      BY <1>1, <2>6, <2>7 DEF TalkInv, Recording
    <3>2. \A d \in Asker : asking[d].at # "said"
      BY <1>1, <2>7 DEF TalkInv, Recording
    <3>3. Paired(history') /\ Paired(t)
      BY <1>1, <2>3, <2>7, <3>2 DEF TalkInv
    <3>4. Recording(c)' /\ \A d \in Asker : Recording(d)' => d = c
      BY <2>4, <2>6, <3>1 DEF Recording
    <3> QED BY <2>3, <2>4, <2>6, <3>1, <3>3, <3>4 DEF TalkInv
  <2> QED BY <1>1, <2>5, <2>7 DEF AskInv
<1> QED BY <1>2, <1>3

LEMMA AssignKeeps == ASSUME AskInv, NEW c \in Asker, TrimAssign(c) PROVE AskInv'
<1>1. /\ asking[c].at = "cut" /\ asking' = [asking EXCEPT ![c] = Over] /\ history' = asking[c].cut /\ unchecked' = 0
      /\ UNCHANGED <<overlapped, saving, stateFile>>
  BY DEF TrimAssign
<1>2. asking[c].cut \in Seq(Entry)
  BY DEF AskInv, AskTypes, AskKind
<1>3. AskTypes' /\ SavedInv'
  BY <1>1, <1>2, OverIs DEF AskInv, AskTypes, SavedInv, Paired
<1>4. asking'[c].at = "over" /\ \A d \in Asker : d # c => asking'[d] = asking[d]
  BY <1>1, OverIs DEF AskInv, AskTypes
<1>5. ASSUME TalkInv PROVE TalkInv'
  <2>1. \A d \in Asker : asking'[d].at \notin {"said", "replied", "cut"}
    BY <1>1, <1>4, <1>5 DEF TalkInv, Recording
  <2>2. Paired(history') /\ Len(history') <= Bound'
    <3>1. Paired(asking[c].cut) /\ Len(asking[c].cut) <= MaxHistory /\ Bound' = MaxHistory
      BY <1>1, <1>5, AssistantAssumption DEF TalkInv, Bound
    <3> QED BY <1>1, <3>1
  <2> QED BY <2>1, <2>2 DEF TalkInv, Recording
<1> QED BY <1>1, <1>3, <1>5 DEF AskInv

LEMMA ClearKeeps == ASSUME AskInv, ClearHistory PROVE AskInv'
<1>1. history' = <<>> /\ unchecked' = 0 /\ UNCHANGED <<asking, saving, stateFile>>
  BY DEF ClearHistory
<1>2. AskTypes' /\ SavedInv'
  <2>1. <<>> \in Seq(Entry)
    OBVIOUS
  <2> QED BY <1>1, <2>1 DEF AskInv, AskTypes, SavedInv, Paired
<1>3. ASSUME ~overlapped' PROVE TalkInv'
  <2>1. \A c \in Asker : ~Recording(c)
    <3>1. overlapped' = (\E c \in Asker : Recording(c))
      BY Zenon DEF ClearHistory
    <3> QED BY <1>3, <3>1, Zenon
  <2>2. \A d \in Asker : asking'[d].at \notin {"said", "replied", "cut"}
    BY <1>1, <2>1 DEF Recording
  <2>3. Paired(history') /\ Len(history') <= Bound'
    <3>1. Len(<<>>) = 0 /\ Bound' = MaxHistory
      BY <1>1, AssistantAssumption DEF Bound
    <3> QED BY <1>1, <3>1, NothingPaired, AssistantAssumption
  <2> QED BY <2>2, <2>3 DEF TalkInv, Recording
<1> QED BY <1>2, <1>3 DEF AskInv

LEMMA SaveKeeps == ASSUME AskInv, SaveOpen \/ SaveWrite PROVE AskInv'
<1>1. UNCHANGED <<asking, history, overlapped, unchecked>>
  BY DEF SaveOpen, SaveWrite
<1>2. TalkInv => TalkInv'
  BY <1>1 DEF TalkInv, Recording, Bound, Paired
<1>3. Empty.history = <<>> /\ <<>> \in Seq(Entry)
  BY DEF Empty
<1>4. CASE SaveOpen
  <2>1. PICK torn : torn = (overlapped \/ \E c \in Asker : asking[c].at = "said")
    OBVIOUS
  <2>2. saving'.what.history = history /\ saving'.what.torn = torn /\ stateFile'.what = Empty
    BY <1>4, <2>1, Zenon DEF SaveOpen
  <2>3. torn \/ Paired(history)
    <3>1. ASSUME ~torn PROVE ~overlapped /\ \A c \in Asker : asking[c].at # "said"
      BY <2>1, <3>1, Zenon
    <3> QED BY <3>1 DEF AskInv, TalkInv
  <2>4. saving'.what.torn \/ Paired(saving'.what.history)
    BY <2>2, <2>3, Zenon
  <2>5. Paired(stateFile'.what.history) /\ stateFile'.what.history \in Seq(Entry)
    BY <1>3, <2>2, NothingPaired
  <2>6. AskTypes'
    BY <1>1, <2>2, <2>5 DEF AskInv, AskTypes
  <2>7. SavedInv'
    BY <2>4, <2>5 DEF SavedInv
  <2> QED BY <1>1, <1>2, <2>6, <2>7 DEF AskInv
<1>5. CASE SaveWrite
  <2>1. saving'.what = Empty /\ stateFile'.what = saving.what
    BY <1>5 DEF SaveWrite
  <2>2. Paired(saving'.what.history) /\ saving'.what.history \in Seq(Entry)
    BY <1>3, <2>1, NothingPaired
  <2>3. stateFile'.what.torn \/ Paired(stateFile'.what.history)
    BY <2>1 DEF AskInv, SavedInv
  <2>4. AskTypes'
    BY <1>1, <2>1, <2>2 DEF AskInv, AskTypes
  <2>5. SavedInv'
    BY <2>2, <2>3 DEF SavedInv
  <2> QED BY <1>1, <1>2, <2>4, <2>5 DEF AskInv
<1> QED BY <1>4, <1>5

LEMMA LoadKeeps == ASSUME AskInv, LoadState PROVE AskInv'
<1>1. PICK h, t : h = stateFile.what.history /\ t = LastOf(h, MaxHistory)
  OBVIOUS
<1>2. /\ UNCHANGED stateFile /\ asking' = [c \in Asker |-> NoAsk] /\ saving'.what = Empty
      /\ overlapped' = stateFile.what.torn /\ unchecked' = 0 /\ history' = t
  BY <1>1 DEF LoadState
<1>3. h \in Seq(Entry)
  BY <1>1 DEF AskInv, AskTypes
<1>4. t \in Seq(Entry) /\ Len(t) <= MaxHistory /\ (Paired(h) => Paired(t))
  BY <1>1, <1>3, PairedLast
<1>5. Empty.history = <<>> /\ <<>> \in Seq(Entry)
  BY DEF Empty
<1>6. AskTypes'
  BY <1>2, <1>4, <1>5, OverIs DEF AskInv, AskTypes
<1>7. SavedInv'
  BY <1>2, <1>5, NothingPaired DEF AskInv, SavedInv
<1>8. ASSUME ~overlapped' PROVE TalkInv'
  <2>1. Paired(t)
    BY <1>1, <1>2, <1>4, <1>8 DEF AskInv, SavedInv
  <2>2. \A c \in Asker : asking'[c].at = "new"
    BY <1>2, OverIs
  <2>3. Bound' = MaxHistory
    BY <1>2, AssistantAssumption DEF Bound
  <2> QED BY <1>2, <1>4, <2>1, <2>2, <2>3 DEF TalkInv, Recording
<1> QED BY <1>6, <1>7, <1>8 DEF AskInv

LEMMA AskKeeps == ASSUME AskInv, AssistantNext PROVE AskInv'
<1>1. ASSUME NEW m \in Known, ListModel(m) PROVE AskInv'
  <2>1. UNCHANGED <<asking, history, overlapped, unchecked, saving, stateFile>>
    BY <1>1 DEF ListModel
  <2> QED BY <2>1 DEF AskInv, AskTypes, SavedInv, TalkInv, Recording, Bound, Paired
<1> QED BY <1>1, BeginKeeps, UserKeeps, AnswerKeeps, LookKeeps, AssignKeeps, ClearKeeps, SaveKeeps, LoadKeeps
        DEF AssistantNext

LEMMA AskStarts == AssistantInit => AskInv
<1> SUFFICES ASSUME AssistantInit PROVE AskInv
  OBVIOUS
<1>1. Empty.history = <<>> /\ <<>> \in Seq(Entry) /\ Len(<<>>) = 0
  BY DEF Empty
<1>2. /\ asking = [c \in Asker |-> NoAsk] /\ history = <<>> /\ unchecked = 0
      /\ saving.what = Empty /\ stateFile.what = Empty
  BY DEF AssistantInit
<1>3. AskTypes /\ SavedInv
  BY <1>1, <1>2, NothingPaired, OverIs DEF AskTypes, SavedInv
<1>4. \A c \in Asker : asking[c].at = "new"
  BY <1>2, OverIs
<1>5. Bound = MaxHistory
  BY <1>2, AssistantAssumption DEF Bound
<1>6. TalkInv
  BY <1>1, <1>2, <1>4, <1>5, NothingPaired, AssistantAssumption DEF TalkInv, Recording
<1> QED BY <1>3, <1>6 DEF AskInv

LEMMA HistoryIsPaired == AskInv => HistoryPaired
<1> SUFFICES ASSUME AskInv, ~overlapped, \A c \in Asker : ~Recording(c)
             PROVE  /\ Len(history) <= Bound /\ Len(history) % 2 = 0
                    /\ \A i \in 1..(Len(history) \div 2) :
                         history[2 * i - 1][1] = "user" /\ history[2 * i] = <<"assistant", history[2 * i - 1][2]>>
  BY Zenon DEF HistoryPaired, Bound
<1>1. Paired(history) /\ Len(history) <= Bound
  BY DEF AskInv, TalkInv, Recording
<1>2. PICK k \in Nat : /\ Len(history) = 2 * k
                       /\ \A i \in 1..k : /\ history[2 * i - 1][1] = "user"
                                          /\ history[2 * i] = <<"assistant", history[2 * i - 1][2]>>
  BY <1>1 DEF Paired
<1>3. Len(history) % 2 = 0 /\ Len(history) \div 2 = k
  BY <1>2
<1> QED BY <1>1, <1>2, <1>3

-----------------------------------------------------------------------------
(* What is kept, together. *)

KeepInv ==
  /\ by = "files" => TreeInv
  /\ by = "paths" => mapping \in Seq(Mapping)
  /\ by = "packages" => PackagesInv
  /\ by = "volumes" => VolumesBacked
  /\ by = "store" => StoreInv
  /\ by = "plugins" => PluginInv
  /\ by = "index" => IndexInv
  /\ by = "assistant" => AskInv

LEMMA InitKeepInv == PlatformInit => KeepInv
<1> SUFFICES ASSUME PlatformInit PROVE KeepInv
  OBVIOUS
<1>1. VfsInit /\ FhsInit /\ PkgInit /\ VolumeInit /\ StoreInit /\ PluginInit /\ IndexInit /\ AssistantInit
  BY DEF PlatformInit
<1>2. mapping \in Seq(Mapping)
  BY <1>1 DEF FhsInit
<1>3. VolumesBacked
  BY <1>1 DEF VolumeInit, VolumesBacked
<1> QED BY <1>1, <1>2, <1>3, TreeStarts, PackagesStart, StoreStarts, PluginStarts, IndexStarts, AskStarts DEF KeepInv

LEMMA KeepKeeps == ASSUME KeepInv, PlatformNext PROVE KeepInv'
<1>1. by' = by
  BY DEF PlatformNext
<1>2. CASE by = "files"
  <2>1. VfsNext
    BY <1>2 DEF PlatformNext
  <2> QED BY <1>1, <1>2, <2>1, TreeKeeps DEF KeepInv
<1>3. CASE by = "paths"
  <2>1. FhsNext
    BY <1>3 DEF PlatformNext
  <2> QED BY <1>1, <1>3, <2>1, MappingKeeps DEF KeepInv
<1>4. CASE by = "packages"
  <2>1. PkgNext
    BY <1>4 DEF PlatformNext
  <2> QED BY <1>1, <1>4, <2>1, PackagesKeep DEF KeepInv
<1>5. CASE by = "volumes"
  <2>1. VolumeNext
    BY <1>5 DEF PlatformNext
  <2> QED BY <1>1, <1>5, <2>1, VolumesKeep DEF KeepInv
<1>6. CASE by = "store"
  <2>1. StoreNext
    BY <1>6 DEF PlatformNext
  <2> QED BY <1>1, <1>6, <2>1, StoreKeeps DEF KeepInv
<1>7. CASE by = "plugins"
  <2>1. PluginNext
    BY <1>7 DEF PlatformNext
  <2> QED BY <1>1, <1>7, <2>1, PluginKeeps DEF KeepInv
<1>8. CASE by = "index"
  <2>1. IndexNext
    BY <1>8 DEF PlatformNext
  <2> QED BY <1>1, <1>8, <2>1, IndexKeeps DEF KeepInv
<1>9. CASE by = "assistant"
  <2>1. AssistantNext
    BY <1>9 DEF PlatformNext
  <2> QED BY <1>1, <1>9, <2>1, AskKeeps DEF KeepInv
<1> QED BY <1>1, <1>2, <1>3, <1>4, <1>5, <1>6, <1>7, <1>8, <1>9 DEF KeepInv

LEMMA KeepStays == ASSUME KeepInv, UNCHANGED <<fileVars, dispatchVars, keptVars, assistantVars, by>> PROVE KeepInv'
<1>1. TreeInv => TreeInv'
  BY DEF fileVars, treeVars, TreeInv, TreeSound
<1>2. mapping' = mapping
  BY DEF fileVars
<1>3. PackagesInv => PackagesInv'
  BY DEF fileVars, pkgVars, PackagesInv
<1>4. VolumesBacked => VolumesBacked'
  BY DEF dispatchVars, volumeVars, VolumesBacked
<1>5. StoreInv => StoreInv'
  <2> SUFFICES ASSUME StoreInv PROVE StoreInv'
    OBVIOUS
  <2>1. UNCHANGED <<call, table, log>>
    BY DEF keptVars, storeVars
  <2>2. StoreTypes'
    BY <2>1 DEF StoreInv, StoreTypes
  <2> QED BY <2>1, <2>2, NoCommitKeeps DEF StoreInv
<1>6. PluginInv => PluginInv'
  BY DEF keptVars, pluginVars, PluginInv, LoadedIsRegistered
<1>7. IndexInv => IndexInv'
  BY DEF keptVars, indexVars, IndexInv, Rated
<1>8. AskInv => AskInv'
  BY DEF assistantVars, AskInv, AskTypes, SavedInv, TalkInv, Recording, Bound, Paired
<1> QED BY <1>1, <1>2, <1>3, <1>4, <1>5, <1>6, <1>7, <1>8 DEF KeepInv

\* Every node of the VFS hangs on a directory, resolve() finds the longest mapped
\* prefix, no package is replaced by an older one but for a registration that
\* changed under the call, a listed volume has its directory, a write that
\* returned is in the table in the order of the commits and no other is, what
\* is loaded is the plugin of the name unless calls crossed, top_n() is sorted,
\* and the history is whole exchanges (VirtualFileSystem, FHSMapper,
\* PackageInstaller, VirtualCloud, SQLiteStore, PluginManager,
\* IntelligenceIndex, AIEngine).
THEOREM StoresAreSound == PlatformSpec => []StoresSound
<1>1. KeepInv => StoresSound
  BY LongestIsBest, WritesAreTold, PluginsHold, IndexIsSorted, HistoryIsPaired
     DEF KeepInv, StoresSound, TreeInv, PackagesInv, NeverOlder
<1>2. KeepInv /\ [PlatformNext]_<<schedVars, poolsVars, observerVars, fileVars, dispatchVars, keptVars, assistantVars, webVars, by>> => KeepInv'
  BY KeepKeeps, KeepStays
<1> QED BY InitKeepInv, <1>1, <1>2, PTL DEF PlatformSpec
=============================================================================
