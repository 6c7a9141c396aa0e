---------------------------- MODULE KernelTables ----------------------------
(***************************************************************************)
(* The process manager, the message channels, the system log and the       *)
(* secrets of aura/kernel.  Processes are threads; everything else is one  *)
(* critical section per operation, except clear(), which drains a channel  *)
(* message by message while others send.                                   *)
(***************************************************************************)
EXTENDS Lists

CONSTANTS
  Pid,        \* process ids
  Channel,    \* names of IPC channels
  MaxSends,   \* bound on the messages sent
  SysLevel,   \* levels of log entries
  LogMax,     \* _MAX_ENTRIES
  MaxLogged,  \* bound on the entries logged
  Secret,     \* keys callers name
  ValidKey,   \* those of them that _validate_key accepts
  SecretValue,
  NoSecret    \* a key without a value

ASSUME KernelTablesAssumption == ValidKey \subseteq Secret /\ LogMax \in Nat \ {0}

VARIABLES
  proc,       \* the state in ProcessManager._processes, "none" before spawn()
  body,       \* where the thread of each process is
  killed,     \* history: processes kill() was called on
  channel,    \* the messages waiting in each queue, numbered as they were sent
  sends,      \* history: the number of messages sent
  received,   \* history, per channel: the messages receive() returned, in order
  drained,    \* history: messages clear() took
  clearing,   \* the channels a clear() is draining
  syslog,     \* SyslogService._entries
  logged,     \* history: the number of entries logged
  secret      \* SecretsManager._store

procVars == <<proc, body, killed>>
ipcVars  == <<channel, sends, received, drained, clearing>>
logVars  == <<syslog, logged>>
tableVars == <<procVars, ipcVars, logVars, secret>>

-----------------------------------------------------------------------------
(* Processes. *)

ProcInit == /\ proc = [p \in Pid |-> "none"] /\ body = [p \in Pid |-> "none"]
            /\ killed = {}

\* spawn() makes the entry under the lock and starts the thread after it.
SpawnEntry(p) ==
  /\ proc[p] = "none" /\ proc' = [proc EXCEPT ![p] = "running"]
  /\ body' = [body EXCEPT ![p] = "due"] /\ UNCHANGED killed
SpawnThread(p) ==
  /\ body[p] = "due" /\ body' = [body EXCEPT ![p] = "fn"] /\ UNCHANGED <<proc, killed>>

\* fn returns, raises, or raises a BaseException, which no handler of _run
\* catches: the entry keeps its state.
FnEnds(p, how) ==
  /\ body[p] = "fn" /\ body' = [body EXCEPT ![p] = how] /\ UNCHANGED <<proc, killed>>

EndState == [return |-> "stopped", raise |-> "zombie"]

\* Mutant of SetState: the state is set whatever it is.
SetStateAlways(p) ==
  /\ body[p] \in {"return", "raise"}
  /\ proc' = [proc EXCEPT ![p] = EndState[body[p]]]
  /\ body' = [body EXCEPT ![p] = "over"] /\ UNCHANGED killed

\* _set_state leaves alone what is no longer running.
SetState(p) ==
  /\ body[p] \in {"return", "raise"}
  /\ proc' = [proc EXCEPT ![p] = IF @ = "running" THEN EndState[body[p]] ELSE @]
  /\ body' = [body EXCEPT ![p] = "over"] /\ UNCHANGED killed

\* kill() does not end the thread, and turns a zombie into a stopped process.
Kill(p) ==
  /\ proc[p] # "none" /\ proc' = [proc EXCEPT ![p] = "stopped"]
  /\ killed' = killed \cup {p} /\ UNCHANGED body

ProcNext == \E p \in Pid : \/ SpawnEntry(p) \/ SpawnThread(p) \/ SetState(p) \/ Kill(p)
                         \/ \E how \in {"return", "raise", "exit"} : FnEnds(p, how)

-----------------------------------------------------------------------------
(* Channels. *)

IpcInit ==
  /\ channel = [c \in Channel |-> <<>>] /\ sends = 0
  /\ received = [c \in Channel |-> <<>>] /\ drained = {} /\ clearing = {}

Send(c) ==
  /\ sends < MaxSends /\ sends' = sends + 1
  /\ channel' = [channel EXCEPT ![c] = Append(@, sends + 1)]
  /\ UNCHANGED <<received, drained, clearing>>

\* receive(): the oldest message; None, and no change, if there is none or
\* the timeout passes.
Receive(c) ==
  /\ channel[c] # <<>>
  /\ channel' = [channel EXCEPT ![c] = Tail(@)]
  /\ received' = [received EXCEPT ![c] = Append(@, Head(channel[c]))]
  /\ UNCHANGED <<sends, drained, clearing>>

\* clear() is a loop of looks and gets; a message sent meanwhile is drained
\* too, and another receiver may be faster between the two.
ClearBegin(c) ==
  /\ c \notin clearing /\ clearing' = clearing \cup {c}
  /\ UNCHANGED <<channel, sends, received, drained>>

\* Mutant of ClearTakes: the latest message goes.
ClearTakesLast(c) ==
  /\ c \in clearing /\ channel[c] # <<>>
  /\ channel' = [channel EXCEPT ![c] = Front(@)]
  /\ drained' = drained \cup {Head(channel[c])}
  /\ UNCHANGED <<sends, received, clearing>>
ClearTakes(c) ==
  /\ c \in clearing /\ channel[c] # <<>>
  /\ channel' = [channel EXCEPT ![c] = Tail(@)]
  /\ drained' = drained \cup {Head(channel[c])}
  /\ UNCHANGED <<sends, received, clearing>>
ClearEnd(c) ==
  /\ c \in clearing /\ channel[c] = <<>> /\ clearing' = clearing \ {c}
  /\ UNCHANGED <<channel, sends, received, drained>>

IpcNext == \E c \in Channel :
             Send(c) \/ Receive(c) \/ ClearBegin(c) \/ ClearTakes(c) \/ ClearEnd(c)

-----------------------------------------------------------------------------
(* The system log and the secrets. *)

LogInit == syslog = <<>> /\ logged = 0

\* Mutant of Log: the limit is noticed one entry late.
LogLate(level) ==
  /\ logged < MaxLogged /\ logged' = logged + 1
  /\ LET es == Append(syslog, [no |-> logged + 1, level |-> level])
     IN  syslog' = IF Len(es) > LogMax + 1 THEN Tail(es) ELSE es

Log(level) ==
  /\ logged < MaxLogged /\ logged' = logged + 1
  /\ LET es == Append(syslog, [no |-> logged + 1, level |-> level])
     IN  syslog' = IF Len(es) > LogMax THEN Tail(es) ELSE es

\* query(level, limit=n): the last n matching entries, newest first; for a
\* limit of 0 the slice [-0:] is the whole log.
Query(level, n) ==
  LET es == Kept(syslog, {e \in ToSet(syslog) : e.level = level})
      k  == IF n = 0 \/ n > Len(es) THEN Len(es) ELSE n
  IN  Reverse(SubSeq(es, Len(es) - k + 1, Len(es)))

SecretInit == secret = [k \in Secret |-> NoSecret]

\* Every operation raises ValueError on a key that is not valid.
SetSecret(k, v)    == k \in ValidKey /\ secret' = [secret EXCEPT ![k] = v]
DeleteSecret(k)    == k \in ValidKey /\ secret' = [secret EXCEPT ![k] = NoSecret]
RotateSecret(k, v) == /\ k \in ValidKey /\ secret[k] # NoSecret
                      /\ secret' = [secret EXCEPT ![k] = v]

LogNext == \/ \E level \in SysLevel : Log(level) /\ UNCHANGED secret
           \/ \E k \in Secret : /\ UNCHANGED logVars
                                /\ \/ DeleteSecret(k)
                                   \/ \E v \in SecretValue : SetSecret(k, v) \/ RotateSecret(k, v)

-----------------------------------------------------------------------------
(* Properties. *)

TablesTypeOK ==
  /\ proc \in [Pid -> {"none", "running", "stopped", "zombie"}]
  /\ body \in [Pid -> {"none", "due", "fn", "return", "raise", "exit", "over"}]
  /\ \A k \in Secret : secret[k] # NoSecret => k \in ValidKey

\* A process that was killed is stopped from then on, also when its fn, which
\* nobody can end, returns or raises later; and a fn that returned or raised
\* an Exception is never left shown as running (kill, _run, _set_state).
KillIsFinal ==
  \A p \in Pid :
    /\ p \in killed => proc[p] = "stopped"
    /\ proc[p] = "running" => body[p] # "over"

\* No message of a channel is lost, duplicated or overtaken: what receivers
\* got is in the order of sending, older than all that waits, and with what
\* clear() drained it is all that was sent.
MessagesInOrder ==
  LET got(c) == received[c] \o channel[c]
  IN  /\ \A c \in Channel : \A i, j \in DOMAIN got(c) : i < j => got(c)[i] < got(c)[j]
      /\ drained \cup UNION {ToSet(got(c)) : c \in Channel} = 1..sends

\* The log holds the latest entries and nothing else, up to its limit, and a
\* query returns the newest ones of a level first (log, query).
LogIsSuffix ==
  /\ Len(syslog) = Min({logged, LogMax})
  /\ \A i \in DOMAIN syslog : syslog[i].no = logged - Len(syslog) + i
  /\ \A level \in SysLevel, n \in 1..LogMax :
       LET q == Query(level, n)
       IN  /\ Len(q) <= n
           /\ \A i \in DOMAIN syslog : syslog[i].level = level =>
                syslog[i] \in ToSet(q) \/ (Len(q) = n /\ syslog[i].no < q[n].no)
=============================================================================
