------------------------------- MODULE Stores -------------------------------
(***************************************************************************)
(* Tables that several threads use: the SQLite store of aura/persistence,  *)
(* the plugins of aura/plugins and the intelligence index of               *)
(* aura/resources.                                                         *)
(***************************************************************************)
EXTENDS Lists, TLC

CONSTANTS
  Key,        \* the keys (or file names) of one namespace
  Writer,     \* the calls that write
  Value,      \* what they write; "gone" for a delete
  Plugin,     \* plugins of one name
  Registrar,  \* threads that register and unregister
  Model,      \* the entries of the index
  MaxRating,  \* ratings are 0..MaxRating
  MaxRatings, \* bound on the updates of a rating
  Top         \* the n of top_n()

\* There is a built-in model, and "none" stands for no plugin.
ASSUME StoresAssumption ==
  {MaxRating, MaxRatings, Top} \subseteq Nat /\ Model # {} /\ "none" \notin Plugin

MaxRetries == 3

VARIABLES
  table,      \* kv_store (file_store is alike)
  call,       \* each write: where it is, its key and value, its attempts
  log,        \* history: the writes that were committed, in order
  open,       \* whether the connection is open
  plugin,     \* PluginManager._plugins of the name
  loaded,     \* those whose on_load ran and whose on_unload did not
  registering,\* the register() or unregister() each thread is in
  crossed,    \* history: whether two register() were between check and entry,
              \* or an unregister() came before on_load was over
  entries,    \* IntelligenceIndex._entries, in order
  rating,     \* the safety rating of each record, -1 before it is made
  changes,    \* history: the number of updates
  ranking     \* top_n(): where it is, what it listed and copied, changes at its sort

storeVars == <<table, call, log, open>>
pluginVars == <<plugin, loaded, registering, crossed>>
indexVars == <<entries, rating, changes, ranking>>

-----------------------------------------------------------------------------
(* Persistence. *)

NoCall == [at |-> "new", key |-> CHOOSE k \in Key : TRUE, value |-> "gone", tries |-> 0, hit |-> FALSE]
StoreInit == /\ table = [k \in Key |-> "gone"] /\ call = [w \in Writer |-> NoCall]
             /\ log = <<>> /\ open = TRUE

\* set, delete, store_file and delete_file, with names that are valid.
Write(w, k, v) ==
  /\ call[w] = NoCall /\ UNCHANGED <<table, log, open>>
  /\ call' = [call EXCEPT ![w] = [NoCall EXCEPT !.at = "trying", !.key = k, !.value = v]]
\* One attempt: the transaction is committed, and a delete says what it found;
CommitWrite(w) ==
  LET c == call[w]
  IN  /\ c.at = "trying" /\ open /\ table' = [table EXCEPT ![c.key] = c.value]
      /\ call' = [call EXCEPT ![w].at = "returned", ![w].hit = table[c.key] # "gone"]
      /\ log' = Append(log, w) /\ UNCHANGED open
\* Mutant of Locked: the last attempt ends like the others.
LockedQuiet(w) ==
  /\ call[w].at = "trying" /\ open /\ UNCHANGED <<table, log, open>>
  /\ call' = [call EXCEPT ![w].tries = @ + 1, ![w].at = IF call[w].tries + 1 = MaxRetries THEN "returned" ELSE @]
\* or the database is locked by another process: rolled back and tried again;
Locked(w) ==
  /\ call[w].at = "trying" /\ open /\ UNCHANGED <<table, log, open>>
  /\ call' = [call EXCEPT ![w].tries = @ + 1, ![w].at = IF call[w].tries + 1 = MaxRetries THEN "raised" ELSE @]
\* or the connection is closed, which is not tried again.
Closed(w) == /\ call[w].at = "trying" /\ ~open /\ call' = [call EXCEPT ![w].at = "raised"]
             /\ UNCHANGED <<table, log, open>>
Close == open /\ open' = FALSE /\ UNCHANGED <<table, call, log>>
\* The process ends; the next engine opens the same file.
Reopen == /\ open' = TRUE /\ UNCHANGED <<table, log>>
          /\ call' = [w \in Writer |-> [call[w] EXCEPT !.at = IF @ = "trying" THEN "lost" ELSE @]]
StoreNext == \/ \E w \in Writer, k \in Key : \E v \in Value : Write(w, k, v)
             \/ \E w \in Writer : CommitWrite(w) \/ Locked(w) \/ Closed(w)
             \/ Close \/ Reopen

-----------------------------------------------------------------------------
(* Plugins.  There is no lock. *)

Idle == [at |-> "idle", plugin |-> "none"]
PluginInit == /\ plugin = "none" /\ loaded = {} /\ crossed = FALSE
              /\ registering = [r \in Registrar |-> Idle]

\* Mutant of RegisterLook: a name that is taken is given to the newcomer.
RegisterLookTaken(r, p) ==
  /\ registering[r] = Idle /\ p \notin loaded /\ \A s \in Registrar : registering[s].plugin # p
  /\ registering' = [registering EXCEPT ![r] = [at |-> "free", plugin |-> p]]
  /\ crossed' = (crossed \/ \E s \in Registrar : registering[s].at = "free")
  /\ UNCHANGED <<plugin, loaded>>
\* register() raises if the name is taken.
RegisterLook(r, p) ==
  /\ registering[r] = Idle /\ p \notin loaded /\ \A s \in Registrar : registering[s].plugin # p
  /\ plugin = "none" /\ registering' = [registering EXCEPT ![r] = [at |-> "free", plugin |-> p]]
  /\ crossed' = (crossed \/ \E s \in Registrar : registering[s].at = "free")
  /\ UNCHANGED <<plugin, loaded>>
RegisterEnter(r) ==
  /\ registering[r].at = "free" /\ plugin' = registering[r].plugin
  /\ registering' = [registering EXCEPT ![r].at = "entered"] /\ UNCHANGED <<loaded, crossed>>
\* on_load runs, or raises and is logged; unregister() pops, then unloads.
OnLoad(r) ==
  /\ registering[r].at = "entered" /\ registering' = [registering EXCEPT ![r] = Idle]
  /\ loaded' \in {loaded, loaded \cup {registering[r].plugin}} /\ UNCHANGED <<plugin, crossed>>
UnregisterPop(r) ==
  /\ registering[r] = Idle /\ plugin # "none" /\ plugin' = "none"
  /\ registering' = [registering EXCEPT ![r] = [at |-> "popped", plugin |-> plugin]]
  /\ crossed' = (crossed \/ \E s \in Registrar : registering[s] = [at |-> "entered", plugin |-> plugin])
  /\ UNCHANGED loaded
OnUnload(r) ==
  /\ registering[r].at = "popped" /\ registering' = [registering EXCEPT ![r] = Idle]
  /\ loaded' = loaded \ {registering[r].plugin} /\ UNCHANGED <<plugin, crossed>>
PluginNext == \E r \in Registrar :
  \/ \E p \in Plugin : RegisterLook(r, p)
  \/ RegisterEnter(r) \/ OnLoad(r) \/ UnregisterPop(r) \/ OnUnload(r)

-----------------------------------------------------------------------------
(* Intelligence index. *)

NoRanking == [at |-> "idle", listed |-> <<>>, keys |-> <<>>, copied |-> <<>>, since |-> 0]
\* The built-in model is listed from the start, and rated high.
IndexInit == LET built == CHOOSE m \in Model : TRUE
             IN  /\ entries = <<built>> /\ rating = [m \in Model |-> IF m = built THEN MaxRating ELSE -1]
                 /\ changes = 0 /\ ranking = NoRanking

RegisterEntry(m, x) == /\ rating[m] = -1 /\ entries' = Append(entries, m)
                       /\ rating' = [rating EXCEPT ![m] = x] /\ UNCHANGED <<changes, ranking>>
UpdateSafety(m, x) == /\ m \in ToSet(entries) /\ rating' = [rating EXCEPT ![m] = x]
                      /\ changes < MaxRatings /\ changes' = changes + 1 /\ UNCHANGED <<entries, ranking>>
UnregisterEntry(m) == /\ m \in ToSet(entries) /\ entries' = Kept(entries, Model \ {m})
                      /\ UNCHANGED <<rating, changes, ranking>>
\* top_n(), by the safety rating: it lists the records under the lock; outside
\* it the ratings of the live records are read one by one, the records sorted by
\* them, stably, and copied one by one.
TopList == /\ ranking.at = "idle" /\ UNCHANGED <<entries, rating, changes>>
           /\ ranking' = [NoRanking EXCEPT !.at = "listed", !.listed = entries]
TopKey ==
  LET i == Len(ranking.keys) + 1
  IN  /\ ranking.at = "listed" /\ i <= Len(ranking.listed) /\ UNCHANGED <<entries, rating, changes>>
      /\ ranking' = [ranking EXCEPT !.keys = Append(@, rating[ranking.listed[i]]),
                                    !.since = IF i = 1 THEN changes ELSE @]
\* Highest first; equals stay as they were listed.
Ranked(sign) ==
  LET sorted == Built([i \in DOMAIN ranking.listed |->
                         [model |-> ranking.listed[i], prio |-> -(sign * ranking.keys[i])]])
  IN  [i \in DOMAIN sorted |-> sorted[i].model]
\* Mutant of TopSort: the lowest come first.
TopSortUp == /\ ranking.at = "listed" /\ Len(ranking.keys) = Len(ranking.listed)
             /\ ranking' = [ranking EXCEPT !.at = "sorted", !.listed = Ranked(-1)]
             /\ UNCHANGED <<entries, rating, changes>>
TopSort == /\ ranking.at = "listed" /\ Len(ranking.keys) = Len(ranking.listed)
           /\ ranking' = [ranking EXCEPT !.at = "sorted", !.listed = Ranked(1)]
           /\ UNCHANGED <<entries, rating, changes>>
TopCopy ==
  LET i == Len(ranking.copied) + 1
  IN  /\ ranking.at = "sorted" /\ i <= Top /\ i <= Len(ranking.listed)
      /\ ranking' = [ranking EXCEPT !.copied = Append(@, rating[ranking.listed[i]])]
      /\ UNCHANGED <<entries, rating, changes>>
TopReturn == /\ ranking.at = "sorted" /\ Len(ranking.copied) \in {Top, Len(ranking.listed)}
             /\ ranking' = NoRanking /\ UNCHANGED <<entries, rating, changes>>
IndexNext == \/ \E m \in Model : (\E x \in 0..MaxRating : RegisterEntry(m, x) \/ UpdateSafety(m, x)) \/ UnregisterEntry(m)
             \/ TopList \/ TopKey \/ TopSort \/ TopCopy \/ TopReturn

-----------------------------------------------------------------------------
(* Properties. *)

\* A write that returned is in the table exactly once, in the order of the
\* commits; one that raised, or was under way when the process ended, left
\* nothing; and a delete says truly whether it deleted (_exec_with_retry).
WritesTold ==
  LET last(k, n) == LET at == {i \in 1..n : call[log[i]].key = k}
                    IN  IF at = {} THEN "gone" ELSE call[log[CHOOSE i \in at : \A j \in at : j <= i]].value
  IN  /\ \A k \in Key : table[k] = last(k, Len(log))
      /\ ToSet(log) = {w \in Writer : call[w].at = "returned"} /\ Cardinality(ToSet(log)) = Len(log)
      /\ \A i \in DOMAIN log : call[log[i]].hit = (last(call[log[i]].key, i - 1) # "gone")
      /\ \A w \in Writer : call[w].tries <= MaxRetries

\* Unless calls overlapped so (crossed), what is loaded is the plugin of the name,
\* or one that is just being unloaded (register, unregister).
LoadedIsRegistered ==
  ~crossed => \A p \in loaded : p = plugin \/ \E r \in Registrar : registering[r] = [at |-> "popped", plugin |-> p]

\* top_n() returns the best in order, unless a rating changed between the first
\* one it read and the last one it copied.
TopSorted ==
  ranking.at = "sorted" /\ ranking.since = changes =>
    /\ \A i \in 2..Len(ranking.copied) : ranking.copied[i] <= ranking.copied[i - 1]
    /\ \A i \in (Len(ranking.copied) + 1)..Len(ranking.listed), j \in DOMAIN ranking.copied :
         rating[ranking.listed[i]] <= ranking.copied[j]
=============================================================================
