------------------------------ MODULE Dashboard ------------------------------
(***************************************************************************)
(* The HTTP server of aura/server/virtual_server.py: one thread that takes *)
(* one request at a time, the answers to them, and start() and stop(),     *)
(* which the life cycle and `svc stop virtual-server' call, several times  *)
(* if it so happens.  The serve_forever() and shutdown() of the library    *)
(* are modelled by their two flags.                                        *)
(***************************************************************************)
EXTENDS Integers

CONSTANTS
  Stopper,    \* threads that call stop()
  Task,       \* ids of tasks the CPU gives out
  Node        \* ids of nodes of the cloud

VARIABLES
  guard,      \* the configuration: "open", "token", or "closed" (no token is set)
  httpd,      \* VirtualServer._httpd: whether it is there
  loop,       \* its thread: "none", "made", "on" or "ended"
  shutting,   \* the flag of shutdown()
  stopping,   \* where each stop() is
  visit,      \* the last request, where it is, its answer and its task
  known,      \* the CPU's registry
  forgotten,  \* history: the tasks it has evicted
  alive       \* the nodes of the cloud

dashboardVars == <<guard, httpd, loop, shutting, stopping, visit, known, forgotten, alive>>
serverVars == <<httpd, loop, shutting, stopping>>
systemVars == <<known, forgotten, alive>>

Resource == {"health", "report", "ask/stream", "ask", "plan", "analyse", "task", "cloud/nodes", "else"}
              \X {"none"} \cup {"tasks"} \X Task \cup {"nodes"} \X Node
\* `filled' says whether the prompt is there, or the numbers are numbers.
Request == [method : {"GET", "POST", "DELETE", "OPTIONS"}, path : Resource, bearer : BOOLEAN, filled : BOOLEAN]
NoVisit == [at |-> "done", q |-> {}, code |-> 0, task |-> {}]

DashboardInit ==
  /\ guard \in {"open", "token", "closed"}
  /\ httpd = FALSE /\ loop = "none" /\ shutting = FALSE /\ stopping = [s \in Stopper |-> "no"]
  /\ visit = NoVisit /\ known = {} /\ forgotten = {} /\ alive = {}

-----------------------------------------------------------------------------
(* start() and stop(). *)

\* The AI OS is attached and the port bound before the thread is made, so no
\* request finds it missing.
StartServing == /\ loop = "none" /\ httpd' = TRUE /\ loop' = "made" /\ UNCHANGED <<guard, shutting, stopping, visit, systemVars>>
LoopBegins == /\ loop = "made" /\ loop' = "on" /\ UNCHANGED <<guard, httpd, shutting, stopping, visit, systemVars>>
\* The flag is looked at between two requests, and cleared at the end.
LoopEnds == /\ loop = "on" /\ shutting /\ visit.at = "done" /\ loop' = "ended" /\ shutting' = FALSE
            /\ UNCHANGED <<guard, httpd, stopping, visit, systemVars>>
StopServing(s) ==
  /\ stopping[s] = "no" /\ UNCHANGED <<guard, httpd, loop, visit, systemVars>>
  /\ shutting' = (shutting \/ httpd)
  /\ stopping' = [stopping EXCEPT ![s] = IF httpd THEN "waiting" ELSE "idle"]
\* Mutant of StopWaited: shutdown() only raises its flag.
StopWaitedNot(s) == /\ stopping[s] = "waiting" /\ stopping' = [stopping EXCEPT ![s] = "stopped"]
                    /\ UNCHANGED <<guard, httpd, loop, shutting, visit, systemVars>>
\* shutdown() waits for the end of the loop, which a second stop() finds there
\* already.
StopWaited(s) == /\ stopping[s] = "waiting" /\ loop = "ended" /\ stopping' = [stopping EXCEPT ![s] = "stopped"]
                 /\ UNCHANGED <<guard, httpd, loop, shutting, visit, systemVars>>

-----------------------------------------------------------------------------
(* Requests. *)

\* Mutant of Authorised: without a token nothing is asked for.
AuthorisedByDefault(bearer) == guard # "token" \/ bearer
\* Nobody has the token when there is none.
Authorised(bearer) == guard = "open" \/ (guard = "token" /\ bearer)
Public(q) == q.method = "OPTIONS" \/ (q.method = "GET" /\ q.path[1] = "health")

Code(q) ==
  CASE Public(q) -> 200
    [] ~Public(q) /\ ~Authorised(q.bearer) -> 401
    [] OTHER ->
      CASE q.method = "GET" /\ q.path[1] = "report" -> 200
        [] q.method = "GET" /\ q.path[1] = "tasks" -> IF q.path[2] \in known THEN 200 ELSE 404
        [] q.method = "GET" /\ q.path[1] = "ask/stream" -> IF q.filled THEN 200 ELSE 400
        [] q.method = "POST" /\ q.path[1] \in {"ask", "plan"} -> IF q.filled THEN 200 ELSE 400
        [] q.method = "POST" /\ q.path[1] = "analyse" -> 200
        [] q.method = "POST" /\ q.path[1] = "task" -> 202
        [] q.method = "POST" /\ q.path[1] = "cloud/nodes" -> IF q.filled THEN 201 ELSE 400
        [] q.method = "DELETE" /\ q.path[1] = "nodes" -> IF q.path[2] \in alive THEN 200 ELSE 404
        [] OTHER -> 404

Visit(q, task) == [at |-> "served", q |-> {q}, code |-> Code(q), task |-> task]

\* do_GET, do_POST, do_DELETE: what the request changes, and the code it is to
\* be answered.
Handle(q) ==
  /\ loop = "on" /\ visit.at = "done" /\ ~shutting /\ UNCHANGED <<guard, serverVars, forgotten>>
  /\ \/ /\ Code(q) = 202 /\ UNCHANGED alive
        /\ \E t \in Task \ (known \cup forgotten) : known' = known \cup {t} /\ visit' = Visit(q, {t})
     \/ /\ Code(q) = 201 /\ UNCHANGED known
        /\ \E n \in Node \ alive : alive' = alive \cup {n} /\ visit' = Visit(q, {})
     \/ /\ Code(q) \notin {201, 202} /\ UNCHANGED known
        /\ alive' = IF q.method = "DELETE" /\ Code(q) = 200 THEN alive \ {q.path[2]} ELSE alive
        /\ visit' = Visit(q, {})
\* The answer is sent, or the client is gone, or the call raised (the CPU's
\* queue may refuse a task it has registered).
Reply ==
  /\ visit.at = "served" /\ visit' \in {[visit EXCEPT !.at = "done"], NoVisit}
  /\ UNCHANGED <<guard, serverVars, systemVars>>

\* The CPU forgets tasks that have ended, and others remove nodes.
TaskEvicted(t) == /\ t \in known /\ known' = known \ {t} /\ forgotten' = forgotten \cup {t}
                  /\ UNCHANGED <<guard, serverVars, visit, alive>>
NodeRemoved(n) == /\ n \in alive /\ alive' = alive \ {n} /\ UNCHANGED <<guard, serverVars, visit, known, forgotten>>

DashboardNext ==
  \/ StartServing \/ LoopBegins \/ LoopEnds \/ Reply
  \/ \E s \in Stopper : StopServing(s) \/ StopWaited(s)
  \/ \E q \in Request : Handle(q)
  \/ \E t \in Task : TaskEvicted(t)
  \/ \E n \in Node : NodeRemoved(n)

-----------------------------------------------------------------------------
(* Properties. *)

\* After a stop() that had a server to stop nobody is served or will be, one
\* that waits has a thread to wait for, and no second stop() revives or blocks
\* the first (stop, shutdown).
StopSilences ==
  \A s \in Stopper : /\ stopping[s] = "stopped" => loop = "ended" /\ visit.at = "done"
                     /\ stopping[s] = "waiting" => loop = "ended" \/ (loop \in {"made", "on"} /\ shutting)

\* A request is refused exactly when it needs the token and does not bring it;
\* a refused one has changed nothing; and a task that was promised is in the
\* CPU's registry until it is evicted (_is_authorised, do_POST).
AnswersTrue ==
  \A q \in visit.q :
    /\ (visit.code = 401) = (guard # "open" /\ ~Public(q) /\ (guard = "closed" \/ ~q.bearer))
    /\ visit.code = 202 => visit.task # {} /\ visit.task \subseteq known \cup forgotten
    /\ visit.task # {} => guard = "open" \/ q.bearer
=============================================================================
