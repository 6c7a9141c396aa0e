--------------------------------- MODULE Web ---------------------------------
(***************************************************************************)
(* What is reached over the network: the message hub and the API of        *)
(* aura/web, the server of aura/remote that exposes the API, and the       *)
(* mirrors of aura/command_center.                                         *)
(***************************************************************************)
EXTENDS Integers, Sequences, FiniteSets, SequencesExt

CONSTANTS
  Client,     \* ids of clients
  Topic,      \* topics
  MaxSent,    \* bound on the messages sent
  Routes,     \* paths of routes, each a sequence of parts
  User,       \* threads that start and stop the server
  MaxStarts,  \* bound on the servers made
  MaxAsked,   \* bound on the requests
  Mirror,     \* the mirrors
  Primary,    \* those of type primary
  Priority,   \* the priority of each
  MaxMoves    \* bound on the changes of a status

ASSUME WebAssumption == /\ {MaxSent, MaxStarts, MaxAsked, MaxMoves} \subseteq Nat /\ "none" \notin User
                        /\ Priority \in [Mirror -> Nat]

VARIABLES
  clients,    \* WebSocketHub._clients: the topics of each
  inbox,      \* WebSocketHub._message_queue
  sent,       \* history: the number of messages
  addressed,        \* history: what each client was sent since it connected
  got,        \* history: and what it received
  routes,     \* WebAPI._routes, in order
  running,    \* RemoteControlServer._running
  holder,     \* who holds its lock
  caller,     \* where the start() or stop() of each thread is
  server,     \* RemoteControlServer._server, 0 if None
  serving,    \* the thread of each server made
  asked,      \* the request that is served
  answered,   \* history: the requests answered
  preflights, \* history: those of them that were OPTIONS
  counted,    \* _request_count
  mirrors,    \* MirrorService._mirrors
  status,     \* the status of each
  moves,      \* history: how often a mirror came, went or changed
  failover    \* failover(): what it listed, what it chose, moves at the listing

hubVars == <<clients, inbox, sent, addressed, got>>
remoteVars == <<routes, running, holder, caller, server, serving, asked, answered, preflights, counted>>
mirrorVars == <<mirrors, status, moves, failover>>

-----------------------------------------------------------------------------
(* Message hub: each call is one step under the lock. *)

HubInit == /\ clients = << >> /\ inbox = << >> /\ sent = 0
           /\ addressed = [c \in Client |-> <<>>] /\ got = [c \in Client |-> <<>>]

With(f, c, v) == [d \in DOMAIN f \cup {c} |-> IF d = c THEN v ELSE f[d]]
Without(f, c) == [d \in DOMAIN f \ {c} |-> f[d]]

\* A client that connects again loses its topics and what waits for it.
Connect(c) == /\ clients' = With(clients, c, {}) /\ inbox' = With(inbox, c, <<>>)
              /\ addressed' = [addressed EXCEPT ![c] = <<>>] /\ got' = [got EXCEPT ![c] = <<>>] /\ UNCHANGED sent
Disconnect(c) == /\ c \in DOMAIN clients /\ clients' = Without(clients, c) /\ inbox' = Without(inbox, c)
                 /\ addressed' = [addressed EXCEPT ![c] = <<>>] /\ got' = [got EXCEPT ![c] = <<>>] /\ UNCHANGED sent
SubscribeTo(c, t)     == /\ c \in DOMAIN clients /\ clients' = [clients EXCEPT ![c] = @ \cup {t}]
                         /\ UNCHANGED <<inbox, sent, addressed, got>>
UnsubscribeFrom(c, t) == /\ c \in DOMAIN clients /\ clients' = [clients EXCEPT ![c] = @ \ {t}]
                         /\ UNCHANGED <<inbox, sent, addressed, got>>
Deliver(to) == /\ sent < MaxSent /\ sent' = sent + 1 /\ UNCHANGED <<clients, got>>
               /\ inbox' = [c \in DOMAIN inbox |-> IF c \in to THEN Append(inbox[c], sent + 1) ELSE inbox[c]]
               /\ addressed' = [c \in Client |-> IF c \in to THEN Append(addressed[c], sent + 1) ELSE addressed[c]]
Broadcast(t) == Deliver({c \in DOMAIN clients : t \in clients[c]})
SendTo(c)    == c \in DOMAIN clients /\ Deliver({c})
\* Mutant of ReceiveFrom: the messages stay.
ReceiveFromKeeps(c) == /\ c \in DOMAIN clients /\ got' = [got EXCEPT ![c] = @ \o inbox[c]]
                       /\ UNCHANGED <<clients, inbox, sent, addressed>>
ReceiveFrom(c) == /\ c \in DOMAIN clients /\ got' = [got EXCEPT ![c] = @ \o inbox[c]]
                  /\ inbox' = [inbox EXCEPT ![c] = <<>>] /\ UNCHANGED <<clients, sent, addressed>>
HubNext == \/ \E c \in Client : Connect(c) \/ Disconnect(c) \/ SendTo(c) \/ ReceiveFrom(c)
           \/ \E c \in Client, t \in Topic : SubscribeTo(c, t) \/ UnsubscribeFrom(c, t)
           \/ \E t \in Topic : Broadcast(t)

-----------------------------------------------------------------------------
(* Web API and the server that exposes it. *)

RemoteInit == /\ routes = <<>> /\ running = FALSE /\ holder = "none" /\ caller = [u \in User |-> "idle"]
              /\ server = 0 /\ serving = [n \in 1..MaxStarts |-> "none"]
              /\ asked = "no" /\ answered = 0 /\ preflights = 0 /\ counted = 0

\* A route registered again keeps its place.
RegisterRoute(r) == /\ r \notin ToSet(routes) /\ routes' = Append(routes, r)
                    /\ UNCHANGED <<running, holder, caller, server, serving, asked, answered, preflights, counted>>

Builtin(q) == q.method = "GET" /\ q.path \in {<<"health">>, <<"status">>}
First(at) == routes[CHOOSE i \in at : \A j \in at : i <= j]
Matching(q) == {i \in DOMAIN routes : IsPrefix(routes[i], q.path)}
\* The handler of the route returns or raises.
Routed(q, r) == <<IF q.raises THEN 500 ELSE 200, r>>
\* Mutant of Respond: the routes are asked before the built-in answers.
RespondRoutesFirst(q) ==
  CASE ~q.token -> <<401>>
    [] q.token /\ Matching(q) # {} -> Routed(q, First(Matching(q)))
    [] q.token /\ Matching(q) = {} -> IF Builtin(q) THEN <<200>> ELSE <<404>>
\* Who answers: nobody without the token, if one is asked for; the built-in
\* answers; a command the route of its name; else the first route registered
\* that is a prefix.
Respond(q) ==
  CASE ~q.token -> <<401>>
    [] q.token /\ Builtin(q) -> <<200>>
    [] q.token /\ ~Builtin(q) /\ q.method = "POST" /\ q.path = <<"command">> ->
         IF q.command \in ToSet(routes) THEN Routed(q, q.command) ELSE <<404>>
    [] OTHER -> IF Matching(q) = {} THEN <<404>> ELSE Routed(q, First(Matching(q)))
\* The server itself answers OPTIONS.
AnswerTo(q) == IF q.method = "OPTIONS" THEN <<200>> ELSE Respond(q)

\* start(): under the lock the server is made, if its port is free; the thread
\* is made outside it.
StartServer(u) ==
  /\ caller[u] = "idle" /\ holder = "none" /\ ~running
  /\ \A n \in 1..MaxStarts : serving[n] \in {"none", "freed"}
  /\ \E n \in 1..MaxStarts : /\ serving[n] = "none" /\ server' = n
                             /\ serving' = [serving EXCEPT ![n] = "made"]
  /\ running' = TRUE /\ caller' = [caller EXCEPT ![u] = "threading"]
  /\ UNCHANGED <<routes, holder, asked, answered, preflights, counted>>
\* Mutant of StartThread: no thread for a server that is stopped already.
StartThreadIfRunning(u) ==
  /\ caller[u] = "threading" /\ caller' = [caller EXCEPT ![u] = "idle"]
  /\ serving' = IF running THEN [serving EXCEPT ![server] = "on"] ELSE serving
  /\ UNCHANGED <<routes, running, holder, server, asked, answered, preflights, counted>>
StartThread(u) ==
  /\ caller[u] = "threading" /\ caller' = [caller EXCEPT ![u] = "idle"]
  /\ serving' = [serving EXCEPT ![server] = "on"]
  /\ UNCHANGED <<routes, running, holder, server, asked, answered, preflights, counted>>
\* stop() waits in shutdown() with the lock in its hands.
StopServer(u) ==
  /\ caller[u] = "idle" /\ holder = "none" /\ running /\ running' = FALSE /\ holder' = u
  /\ caller' = [caller EXCEPT ![u] = "waiting"] /\ UNCHANGED <<routes, server, serving, asked, answered, preflights, counted>>
ServerEnds == /\ holder # "none" /\ server > 0 /\ serving[server] = "on" /\ asked = "no"
              /\ serving' = [serving EXCEPT ![server] = "ended"]
              /\ UNCHANGED <<routes, running, holder, caller, server, asked, answered, preflights, counted>>
StopReturns(u) ==
  /\ caller[u] = "waiting" /\ serving[server] = "ended" /\ server' = 0 /\ holder' = "none"
  /\ caller' = [caller EXCEPT ![u] = "idle"] /\ UNCHANGED <<routes, running, serving, asked, answered, preflights, counted>>
\* Nobody closes the socket: it goes with the last reference to its server.
SocketFreed(n) == /\ serving[n] = "ended" /\ server # n /\ serving' = [serving EXCEPT ![n] = "freed"]
                  /\ UNCHANGED <<routes, running, holder, caller, server, asked, answered, preflights, counted>>

\* The server takes one request at a time; a connection that breaks while the
\* answer is sent is not counted.
TakeRequest == /\ asked = "no" /\ answered < MaxAsked /\ \E n \in 1..MaxStarts : serving[n] = "on"
               /\ asked' \in {"options", "handled"}
               /\ UNCHANGED <<routes, running, holder, caller, server, serving, answered, preflights, counted>>
\* OPTIONS is answered and not counted.
SendOptions == /\ asked = "options" /\ asked' = "no"
               /\ UNCHANGED <<routes, running, holder, caller, server, serving, counted>>
               /\ \/ answered' = answered + 1 /\ preflights' = preflights + 1
                  \/ UNCHANGED <<answered, preflights>>
SendAnswer == /\ asked = "handled" /\ UNCHANGED <<routes, running, holder, caller, server, serving, preflights, counted>>
              /\ \/ asked' = "sent" /\ answered' = answered + 1
                 \/ asked' = "no" /\ UNCHANGED answered
IncrementCounter == /\ asked = "sent" /\ asked' = "no" /\ counted' = counted + 1
                    /\ UNCHANGED <<routes, running, holder, caller, server, serving, answered, preflights>>
RemoteNext == \/ \E r \in Routes : RegisterRoute(r)
              \/ \E u \in User : StartServer(u) \/ StartThread(u) \/ StopServer(u) \/ StopReturns(u)
              \/ ServerEnds \/ (\E n \in 1..MaxStarts : SocketFreed(n))
              \/ TakeRequest \/ SendOptions \/ SendAnswer \/ IncrementCounter

-----------------------------------------------------------------------------
(* Mirrors. *)

NoFailover == [at |-> "idle", listed |-> {}, pick |-> "none", since |-> 0]
MirrorInit == mirrors = {} /\ status = [m \in Mirror |-> "new"] /\ moves = 0 /\ failover = NoFailover

AddMirror(m) == /\ status[m] = "new" /\ mirrors' = mirrors \cup {m} /\ status' = [status EXCEPT ![m] = "online"]
                /\ moves' = moves + 1 /\ UNCHANGED failover
RemoveMirror(m) == /\ m \in mirrors /\ mirrors' = mirrors \ {m} /\ moves' = moves + 1 /\ UNCHANGED <<status, failover>>
SetStatus(m, s) == /\ m \in mirrors /\ moves < MaxMoves /\ moves' = moves + 1
                   /\ status' = [status EXCEPT ![m] = s] /\ UNCHANGED <<mirrors, failover>>
\* failover(): the candidates are listed under the lock; the choice is made
\* outside it, among the live records.
FailoverList == /\ failover.at = "idle" /\ UNCHANGED <<mirrors, status, moves>>
                /\ failover' = [at |-> "listed", pick |-> "none", since |-> moves,
                                listed |-> {m \in mirrors \ Primary : status[m] = "online"}]
Pick(m) == failover' = [at |-> "picked", pick |-> m, since |-> failover.since, listed |-> failover.listed]
\* Mutant of FailoverPick: a smaller number is a higher priority.
FailoverPickLow == /\ failover.at = "listed" /\ failover.listed # {} /\ UNCHANGED <<mirrors, status, moves>>
                   /\ \E m \in failover.listed : /\ \A n \in failover.listed : Priority[m] <= Priority[n]
                                                 /\ Pick(m)
FailoverPick == /\ failover.at = "listed" /\ failover.listed # {} /\ UNCHANGED <<mirrors, status, moves>>
                /\ \E m \in failover.listed : /\ \A n \in failover.listed : Priority[n] <= Priority[m]
                                              /\ Pick(m)
FailoverReturn == /\ failover.at = "picked" \/ (failover.at = "listed" /\ failover.listed = {})
                  /\ failover' = NoFailover /\ UNCHANGED <<mirrors, status, moves>>
MirrorNext == \/ \E m \in Mirror : AddMirror(m) \/ RemoveMirror(m) \/ \E s \in {"online", "offline", "syncing"} : SetStatus(m, s)
              \/ FailoverList \/ FailoverPick \/ FailoverReturn

-----------------------------------------------------------------------------
(* Properties. *)

\* What a client received and what waits for it is what it was sent since it
\* connected, in order, nothing lost and nothing twice (broadcast, receive).
HubDelivers ==
  /\ DOMAIN inbox = DOMAIN clients
  /\ \A c \in Client : addressed[c] = got[c] \o (IF c \in DOMAIN inbox THEN inbox[c] ELSE <<>>)

\* Without the token nothing is handled, whatever the method: OPTIONS needs none
\* and reaches no route; and no route takes the place of the built-in answers
\* (handle_request, do_OPTIONS).
ApiGuarded ==
  \A method \in {"GET", "POST", "OPTIONS"}, path \in Routes \cup {<<"health">>, <<"command">>},
     command \in Routes, token, raises \in BOOLEAN :
    LET q == [method |-> method, path |-> path, command |-> command, token |-> token, raises |-> raises]
    IN  /\ (AnswerTo(q) = <<401>>) = (~token /\ method # "OPTIONS")
        /\ (~token \/ method = "OPTIONS") => AnswerTo(q) \in {<<401>>, <<200>>}
        /\ token /\ Builtin(q) => AnswerTo(q) = <<200>>

\* A stop() that waits has a server thread to wait for, or one that is about to
\* be made; a running server is served once start() is over; two never listen;
\* and the requests counted are those answered, OPTIONS left out, but for the one
\* at hand.
RemoteSettles ==
  LET starting == \E u \in User : caller[u] = "threading"
  IN  /\ \A u \in User : caller[u] = "waiting" => serving[server] \in {"on", "ended"} \/ starting
      /\ running => server > 0 /\ (starting \/ serving[server] = "on")
      /\ \A n, k \in 1..MaxStarts : serving[n] \in {"made", "on", "ended"} /\ serving[k] \in {"made", "on", "ended"} => n = k
      /\ answered = preflights + counted + (IF asked = "sent" THEN 1 ELSE 0)

\* As long as no mirror changes meanwhile, failover() gives an online mirror
\* that is not the primary, and none such has a higher priority (failover).
FailoverIsBest ==
  failover.at = "picked" /\ failover.since = moves =>
    /\ failover.pick \in mirrors \ Primary /\ status[failover.pick] = "online"
    /\ \A m \in mirrors \ Primary : status[m] = "online" => Priority[m] <= Priority[failover.pick]
=============================================================================
