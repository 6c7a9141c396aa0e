------------------------------- MODULE VNode -------------------------------
(***************************************************************************)
(* The virtual node of aura/vnode: its identity on disk, its registration  *)
(* with the command center, its heartbeat and the mesh bus.  Locks cover   *)
(* fields, not requests, threads or files.                                 *)
(***************************************************************************)
EXTENDS Integers, Sequences, FiniteSets, FiniteSetsExt, SequencesExt

CONSTANTS
  Beater,     \* the calls of start() that find the heartbeat's flag down, and
              \* the threads they make
  Client,     \* threads that call register() and deregister()
  Peer,       \* node ids of the mesh
  MaxMsgs,    \* bound on the messages sent in the mesh
  MaxIds      \* bound on the node ids made

ASSUME VNodeAssumption == IsFiniteSet(Peer) /\ MaxMsgs \in Nat /\ MaxIds \in Nat \ {0}

VARIABLES
  beatOn,       \* HeartbeatService._running
  beatCall,     \* where each call of start() is
  beatThread,   \* HeartbeatService._thread: none or one
  beater,       \* where each heartbeat thread is
  lateBeats,    \* history, per thread: beats sent since the flag went down
  registered,   \* VNodeRegistry._registered
  serverHas,    \* whether the command center lists the node
  post,         \* the request each client thread is making
  loose,        \* requests that timed out and may still be applied
  doubt,        \* history: an answer was lost, a request timed out, or requests
                \* overlapped, since a request that was alone was answered
  inbox,        \* MeshBus._inbox; peers are the node ids that have one
  totalSent,    \* MeshBus._total_sent
  got,          \* history: what each node received, in order
  dropped,      \* history: the number of messages unregister_peer dropped
  idFile,       \* the node_id file: 0 if it is empty or absent
  myId,         \* node_id of the running node, 0 while it is down
  idPlace,      \* where _load_or_create_node_id is
  lastId        \* history: node_id of the last node that found or kept it on disk

beatVars == <<beatOn, beatCall, beatThread, beater, lateBeats>>
regVars  == <<registered, serverHas, post, loose, doubt>>
meshVars == <<inbox, totalSent, got, dropped>>
idVars   == <<idFile, myId, idPlace, lastId>>
vnodeVars == <<beatVars, regVars, meshVars, idVars>>

-----------------------------------------------------------------------------
(* Heartbeat. *)

BeatInit == /\ beatOn = FALSE /\ beater = [b \in Beater |-> "new"]
            /\ beatCall = [b \in Beater |-> "no"] /\ beatThread = {}
            /\ lateBeats = [b \in Beater |-> 0]

BeatAlive(b) == beater[b] \in {"check", "beat", "sleep"}
Calls(b, from, to) == beatCall[b] = from /\ beatCall' = [beatCall EXCEPT ![b] = to]

\* start(): the flag is raised under the lock ...
BeatStart(b) ==
  /\ ~beatOn /\ Calls(b, "no", "make") /\ beatOn' = TRUE
  /\ lateBeats' = [c \in Beater |-> 0] /\ UNCHANGED <<beater, beatThread>>

\* ... and without it self._thread is made ...
BeatMake(b) ==
  /\ Calls(b, "make", "start") /\ beatThread' = {b}
  /\ beater' = [beater EXCEPT ![b] = "made"] /\ UNCHANGED <<beatOn, lateBeats>>

\* ... and started, be it that of another start(): a thread that was started
\* already raises RuntimeError.
BeatThread(b) ==
  /\ Calls(b, "start", "over")
  /\ beater' = [c \in Beater |-> IF c \in beatThread /\ beater[c] = "made" THEN "check"
                                 ELSE beater[c]]
  /\ UNCHANGED <<beatOn, beatThread, lateBeats>>

\* stop() neither waits for the thread nor forgets it.
BeatStop == beatOn /\ beatOn' = FALSE /\ UNCHANGED <<beatCall, beatThread, beater, lateBeats>>

\* Mutant of BeatLook: the flag is not looked at between two beats.
BeatLookOnce(b) ==
  /\ \/ beater[b] = "check" /\ beater' = [beater EXCEPT ![b] = IF beatOn THEN "beat" ELSE "gone"]
     \/ beater[b] = "sleep" /\ beater' = [beater EXCEPT ![b] = "beat"]
  /\ UNCHANGED <<beatOn, beatCall, beatThread, lateBeats>>

\* Mutant of BeatLook: the inner loop goes on while the flag is down.
BeatLookSleeps(b) ==
  /\ \/ beater[b] = "check" /\ beater' = [beater EXCEPT ![b] = IF beatOn THEN "beat" ELSE "gone"]
     \/ beater[b] = "sleep"
        /\ \E next \in {"sleep", "check"} :
             beater' = [beater EXCEPT ![b] = IF beatOn THEN next ELSE "sleep"]
  /\ UNCHANGED <<beatOn, beatCall, beatThread, lateBeats>>

\* The looks at the flag: one before each beat, and one before each of the
\* short sleeps between two beats.
BeatLook(b) ==
  /\ \/ beater[b] = "check" /\ beater' = [beater EXCEPT ![b] = IF beatOn THEN "beat" ELSE "gone"]
     \/ beater[b] = "sleep"
        /\ \E next \in {"sleep", "check"} :
             beater' = [beater EXCEPT ![b] = IF beatOn THEN next ELSE "gone"]
  /\ UNCHANGED <<beatOn, beatCall, beatThread, lateBeats>>

\* A beat that fails is recorded like one that succeeds.
Beat(b) ==
  /\ beater[b] = "beat" /\ beater' = [beater EXCEPT ![b] = "sleep"]
  /\ lateBeats' = [lateBeats EXCEPT ![b] = IF beatOn THEN 0 ELSE @ + 1]
  /\ UNCHANGED <<beatOn, beatCall, beatThread>>

BeatStep(b) == BeatMake(b) \/ BeatThread(b) \/ BeatLook(b) \/ Beat(b)
BeatNext == BeatStop \/ \E b \in Beater : BeatStart(b) \/ BeatStep(b)

-----------------------------------------------------------------------------
(* Registration. *)

NoPost == [op |-> "none", at |-> "idle", alone |-> TRUE]

RegInit == /\ registered = FALSE /\ serverHas = FALSE /\ doubt = FALSE
           /\ loose = {}
           /\ post = [c \in Client |-> NoPost]

\* register() and deregister(): without a URL they return False at once.
PostBegin(c, op) ==
  /\ post[c] = NoPost
  /\ LET others == {d \in Client : post[d] # NoPost}
     IN  post' = [d \in Client |->
                    IF d = c THEN [op |-> op, at |-> "sent", alone |-> others = {} /\ loose = {}]
                    ELSE IF d \in others THEN [post[d] EXCEPT !.alone = FALSE] ELSE post[d]]
  /\ doubt' = (doubt \/ \E d \in Client \ {c} : post[d] # NoPost)
  /\ UNCHANGED <<registered, serverHas, loose>>

ServerApplies(c) ==
  /\ post[c].at = "sent" /\ post' = [post EXCEPT ![c].at = "applied"]
  /\ serverHas' = (post[c].op = "register") /\ UNCHANGED <<registered, loose, doubt>>

\* Mutant of PostOk: the flag tells that there was an answer.
PostOkAny(c) ==
  /\ post[c].at = "applied" /\ registered' = TRUE
  /\ doubt' = (doubt /\ ~post[c].alone)
  /\ post' = [post EXCEPT ![c] = NoPost] /\ UNCHANGED <<serverHas, loose>>

PostOk(c) ==
  /\ post[c].at = "applied" /\ registered' = (post[c].op = "register")
  /\ doubt' = (doubt /\ ~post[c].alone)
  /\ post' = [post EXCEPT ![c] = NoPost] /\ UNCHANGED <<serverHas, loose>>

\* An error, and the client goes on as before: the request did not get there,
\* it timed out on its way, or its answer was lost.
PostFails(c) ==
  /\ post[c] # NoPost /\ post' = [post EXCEPT ![c] = NoPost]
  /\ \/ post[c].at = "sent" /\ UNCHANGED <<loose, doubt>>
     \/ post[c].at = "sent" /\ loose' = loose \cup {post[c].op} /\ doubt' = TRUE
     \/ post[c].at = "applied" /\ doubt' = TRUE /\ UNCHANGED loose
  /\ UNCHANGED <<registered, serverHas>>

\* The center applies requests nobody waits for any more, until the last one of
\* the kind is gone.
AppliesLate(op) == /\ op \in loose /\ serverHas' = (op = "register")
                   /\ UNCHANGED <<registered, post, loose, doubt>>
LooseEnds(op)   == /\ op \in loose /\ loose' = loose \ {op}
                   /\ UNCHANGED <<registered, serverHas, post, doubt>>

Request == {"register", "deregister"}
RegNext == \/ \E c \in Client : \/ \E op \in Request : PostBegin(c, op)
                                \/ ServerApplies(c) \/ PostOk(c) \/ PostFails(c)
           \/ \E op \in Request : AppliesLate(op) \/ LooseEnds(op)

-----------------------------------------------------------------------------
(* Mesh. *)

Peers == DOMAIN inbox

MeshInit == /\ inbox = << >> /\ totalSent = 0 /\ dropped = 0
            /\ got = [n \in Peer |-> <<>>]

\* Mutant of RegisterPeer: a peer that registers again starts afresh.
RegisterPeerAfresh(n) == /\ inbox' = [m \in Peers \cup {n} |-> IF m # n THEN inbox[m] ELSE <<>>]
                         /\ UNCHANGED <<totalSent, got, dropped>>

\* register_peer(): a peer that registers again keeps its inbox.
RegisterPeer(n) == /\ inbox' = [m \in Peers \cup {n} |-> IF m \in Peers THEN inbox[m] ELSE <<>>]
                   /\ UNCHANGED <<totalSent, got, dropped>>
UnregisterPeer(n) == /\ n \in Peers /\ inbox' = [m \in Peers \ {n} |-> inbox[m]]
                     /\ dropped' = dropped + Len(inbox[n]) /\ UNCHANGED <<totalSent, got>>

\* send_to_peer() and broadcast(), to the peers there are at that moment.
Deliver(ns) ==
  /\ ns \subseteq Peers /\ totalSent + Cardinality(ns) <= MaxMsgs
  /\ inbox' = [m \in Peers |-> IF m \in ns THEN Append(inbox[m], totalSent + 1) ELSE inbox[m]]
  /\ totalSent' = totalSent + Cardinality(ns) /\ UNCHANGED <<got, dropped>>

\* receive() takes all that waits.
ReceiveAll(n) ==
  /\ n \in Peers /\ inbox' = [inbox EXCEPT ![n] = <<>>]
  /\ got' = [got EXCEPT ![n] = @ \o inbox[n]] /\ UNCHANGED <<totalSent, dropped>>

MeshNext == \/ Deliver(Peers)
            \/ \E n \in Peer : RegisterPeer(n) \/ UnregisterPeer(n) \/ Deliver({n}) \/ ReceiveAll(n)

-----------------------------------------------------------------------------
(* Identity.  Ids are numbered in the order they are made. *)

IdInit == idFile = 0 /\ myId = 0 /\ idPlace = [at |-> "down", id |-> 0] /\ lastId = 0

FoundId == /\ idPlace.at = "down" /\ idFile # 0 /\ myId' = idFile /\ lastId' = idFile
           /\ idPlace' = [at |-> "up", id |-> 0] /\ UNCHANGED idFile

\* Mutant of NewId: the file is not looked for.
NewIdAlways(id) == /\ idPlace.at = "down" /\ idPlace' = [at |-> "made", id |-> id]
                   /\ UNCHANGED <<idFile, myId, lastId>>

\* No file, or an empty one.
NewId(id) == /\ idPlace.at = "down" /\ idFile = 0 /\ idPlace' = [at |-> "made", id |-> id]
             /\ UNCHANGED <<idFile, myId, lastId>>
\* A file that cannot be read is replaced.
Unreadable(id) == /\ idPlace.at = "down" /\ idFile # 0 /\ lastId' = 0
                  /\ idPlace' = [at |-> "made", id |-> id] /\ UNCHANGED <<idFile, myId>>
\* open(..., "w") empties the file; then the id is written.
Truncate  == /\ idPlace.at = "made" /\ idFile' = 0 /\ idPlace' = [idPlace EXCEPT !.at = "opened"]
             /\ UNCHANGED <<myId, lastId>>
WriteId   == /\ idPlace.at = "opened" /\ idFile' = idPlace.id /\ lastId' = idPlace.id
             /\ myId' = idPlace.id /\ idPlace' = [at |-> "up", id |-> 0]
\* Neither error is told to the caller: the node runs under an id it forgets.
CannotOpen == /\ idPlace.at = "made" /\ myId' = idPlace.id
              /\ idPlace' = [at |-> "up", id |-> 0] /\ lastId' = 0 /\ UNCHANGED idFile
CannotWrite == /\ idPlace.at = "opened" /\ myId' = idPlace.id
               /\ idPlace' = [at |-> "up", id |-> 0] /\ lastId' = 0 /\ UNCHANGED idFile
\* The process ends, also in the middle.
NodeDown == /\ idPlace.at # "down" /\ myId' = 0 /\ idPlace' = [at |-> "down", id |-> 0]
            /\ lastId' = (IF idPlace.at = "up" THEN lastId ELSE 0) /\ UNCHANGED idFile

IdNext == \/ FoundId \/ Truncate \/ WriteId \/ CannotOpen \/ CannotWrite \/ NodeDown
          \/ \E id \in 1..MaxIds \ {idFile, lastId} : NewId(id) \/ Unreadable(id)

-----------------------------------------------------------------------------
(* Properties. *)

VNodeTypeOK ==
  /\ beater \in [Beater -> {"new", "made", "check", "beat", "sleep", "gone"}]
  /\ beatThread \subseteq Beater /\ loose \subseteq Request
  /\ post \in [Client -> [op : {"none", "register", "deregister"},
                          at : {"idle", "sent", "applied"}, alone : BOOLEAN]]
  /\ Peers \subseteq Peer /\ {idFile, myId, lastId} \subseteq 0..MaxIds

\* A heartbeat that is shown as running has a thread or a start() about to give
\* it one, even when starts and stops overlap and one start() starts the thread
\* of another; and after stop() each thread sends at most the beat it had
\* already decided on (start, stop, _loop).
HeartbeatKept ==
  /\ beatOn => \E b \in Beater : BeatAlive(b) \/ beatCall[b] \in {"make", "start"}
  /\ \A b \in Beater : lateBeats[b] <= 1

\* The node is shown as registered exactly if the command center lists it,
\* unless a request is under way, or since the last one that had the field for
\* itself an answer was lost, requests overlapped or one timed out, which the
\* center may apply later (_post).
RegistrationTrue ==
  (\A c \in Client : post[c] = NoPost) /\ ~doubt => registered = serverHas

\* Every message counted as sent was received, waits, or was dropped with its
\* peer; each node receives in the order of sending (send_to_peer, broadcast).
MeshAccounts ==
  LET all(n) == got[n] \o (IF n \in Peers THEN inbox[n] ELSE <<>>)
  IN  /\ totalSent = dropped + SumFunctionOnSet([n \in Peer |-> Len(all(n))], Peer)
      /\ \A n \in Peer : \A i, j \in DOMAIN all(n) : i < j => all(n)[i] < all(n)[j]

\* The id of a node that was found or kept on disk stays there, and a later
\* start that can read the file runs under it (_load_or_create_node_id).
NodeKeepsId ==
  lastId # 0 => idFile = lastId /\ (idPlace.at = "up" => myId = lastId)
=============================================================================
