----------------------------- MODULE Assistant ------------------------------
(***************************************************************************)
(* The AI engine of aura/ai_engine: its backends, the history of the       *)
(* conversation, which has no lock, and the state file in which AIOS keeps *)
(* the history and the models of VirtualCloud over a restart.              *)
(***************************************************************************)
EXTENDS Integers, Sequences, FiniteSets, SequencesExt

CONSTANTS
  Asker,        \* the calls of ask() and stream()
  Backends,   \* the backends configured, of BackendRegistry or unknown
  MaxHistory, \* AIEngine.MAX_HISTORY
  Known,      \* the models VirtualCloud may list
  MaxSaves    \* bound on the saves

ASSUME AssistantAssumption == MaxHistory \in Nat \ {0} /\ MaxHistory % 2 = 0 /\ MaxSaves \in Nat

VARIABLES
  backend,    \* what create_backend made
  asking,     \* each call: where it is, its kind, the slice it cut
  history,    \* AIEngine._history
  overlapped,      \* history: whether two calls wrote the history at once,
              \* or a save caught a question without its answer
  unchecked,  \* history: the streams recorded since it was last cut
  listed,     \* VirtualCloud._model_registry
  saving,     \* what _save_state has gathered, and whether the file is open
  saves,      \* history: the number of saves
  stateFile   \* state.json: none, broken or whole, and what it keeps

assistantVars == <<backend, asking, history, overlapped, unchecked, listed, saving, saves, stateFile>>

-----------------------------------------------------------------------------
(* Backends. *)

BackendRegistry == {"builtin", "transformers", "openai_compatible", "ollama"}
CreateBackend(name) == IF name \in BackendRegistry THEN name ELSE "builtin"

\* What generate() gives: the text of the model, a stub when it is not ready,
\* an error in words, or an exception.
BuiltinGenerate      == {"text"}
TransformersGenerate == {"text", "stub", "raise"}
OpenAIGenerate       == {"text", "stub", "error"}
OllamaGenerate       == {"text", "stub", "error"}
\* A stream that breaks off yields the error as its last chunk.
OllamaStream         == {"text", "stub", "text+error"}

Generate(kind) ==
  CASE backend = "builtin" -> BuiltinGenerate
    [] backend = "transformers" -> TransformersGenerate
    [] backend = "openai_compatible" -> OpenAIGenerate
    [] backend = "ollama" -> IF kind = "stream" THEN OllamaStream ELSE OllamaGenerate

-----------------------------------------------------------------------------
(* Conversation. *)

NoAsk == [at |-> "new", kind |-> "ask", cut |-> <<>>]
Over == [NoAsk EXCEPT !.at = "over"]
Recording(c) == asking[c].at \in {"said", "replied", "cut"}
LastOf(s, n) == IF Len(s) > n THEN SubSeq(s, Len(s) - n + 1, Len(s)) ELSE s

\* A caller may drop a stream half-way: then, as when the backend raises,
\* nothing is recorded.
Begin(c, kind) ==
  /\ asking[c] = NoAsk /\ UNCHANGED <<backend, history, overlapped, unchecked, listed, saving, saves, stateFile>>
  /\ \E what \in Generate(kind) \cup (IF kind = "stream" THEN {"dropped"} ELSE {}) :
       asking' = [asking EXCEPT ![c] = IF what \in {"raise", "dropped"} THEN Over
                                            ELSE [NoAsk EXCEPT !.at = "answered", !.kind = kind]]
SayUser(c) ==
  /\ asking[c].at = "answered" /\ asking' = [asking EXCEPT ![c].at = "said"]
  /\ history' = Append(history, <<"user", c>>)
  /\ overlapped' = (overlapped \/ \E d \in Asker : Recording(d))
  /\ UNCHANGED <<backend, unchecked, listed, saving, saves, stateFile>>
\* stream() ends here, and cuts nothing.
SayAnswer(c) ==
  /\ asking[c].at = "said"
  /\ asking' = [asking EXCEPT ![c] = IF @.kind = "ask" THEN [@ EXCEPT !.at = "replied"] ELSE Over]
  /\ history' = Append(history, <<"assistant", c>>)
  /\ unchecked' = IF asking[c].kind = "stream" THEN unchecked + 1 ELSE unchecked
  /\ UNCHANGED <<backend, overlapped, listed, saving, saves, stateFile>>
\* Mutant of TrimLook: the slice is one entry short.
TrimLookShort(c) ==
  /\ asking[c].at = "replied" /\ UNCHANGED <<backend, history, overlapped, listed, saving, saves, stateFile>>
  /\ IF Len(history) <= MaxHistory THEN asking' = [asking EXCEPT ![c] = Over] /\ unchecked' = 0
     ELSE /\ asking' = [asking EXCEPT ![c].at = "cut", ![c].cut = LastOf(history, MaxHistory - 1)]
          /\ UNCHANGED unchecked
\* _trim_history: the slice, and then its assignment, which drops whatever was
\* appended in between.
TrimLook(c) ==
  /\ asking[c].at = "replied" /\ UNCHANGED <<backend, history, overlapped, listed, saving, saves, stateFile>>
  /\ IF Len(history) <= MaxHistory THEN asking' = [asking EXCEPT ![c] = Over] /\ unchecked' = 0
     ELSE /\ asking' = [asking EXCEPT ![c].at = "cut", ![c].cut = LastOf(history, MaxHistory)]
          /\ UNCHANGED unchecked
TrimAssign(c) ==
  /\ asking[c].at = "cut" /\ asking' = [asking EXCEPT ![c] = Over] /\ history' = asking[c].cut /\ unchecked' = 0
  /\ UNCHANGED <<backend, overlapped, listed, saving, saves, stateFile>>
ClearHistory ==
  /\ history' = <<>> /\ unchecked' = 0 /\ UNCHANGED <<backend, asking, listed, saving, saves, stateFile>>
  /\ overlapped' = (\E c \in Asker : Recording(c))

-----------------------------------------------------------------------------
(* The state file. *)

Empty == [history |-> <<>>, models |-> {}, torn |-> FALSE]
AssistantInit ==
  /\ \E b \in Backends : backend = CreateBackend(b)
  /\ asking = [c \in Asker |-> NoAsk] /\ history = <<>> /\ overlapped = FALSE /\ unchecked = 0 /\ listed = {}
  /\ saving = [at |-> "no", what |-> Empty] /\ saves = 0 /\ stateFile = [is |-> "none", what |-> Empty]

ListModel(m) == /\ m \notin listed /\ listed' = listed \cup {m}
                /\ UNCHANGED <<backend, asking, history, overlapped, unchecked, saving, saves, stateFile>>
\* _save_state gathers, empties the file, and writes.
SaveOpen ==
  /\ saving.at = "no" /\ saves < MaxSaves /\ saves' = saves + 1
  /\ saving' = [at |-> "open", what |-> [history |-> history, models |-> listed,
                                         torn |-> overlapped \/ \E c \in Asker : asking[c].at = "said"]]
  /\ stateFile' = [is |-> "broken", what |-> Empty]
  /\ UNCHANGED <<backend, asking, history, overlapped, unchecked, listed>>
SaveWrite ==
  /\ saving.at = "open" /\ saving' = [at |-> "no", what |-> Empty] /\ stateFile' = [is |-> "whole", what |-> saving.what]
  /\ UNCHANGED <<backend, asking, history, overlapped, unchecked, listed, saves>>
\* The process ends anywhere and the next one loads; what is no JSON is passed
\* over, and an empty history is not loaded.  Of the models none is replaced.
LoadState ==
  /\ saves > 0 /\ UNCHANGED <<backend, saves, stateFile>> /\ asking' = [c \in Asker |-> NoAsk] /\ saving' = [at |-> "no", what |-> Empty]
  /\ overlapped' = stateFile.what.torn /\ unchecked' = 0
  /\ history' = LastOf(stateFile.what.history, MaxHistory) /\ listed' = stateFile.what.models

AssistantNext ==
  \/ \E c \in Asker : (\E kind \in {"ask", "stream"} : Begin(c, kind)) \/ SayUser(c) \/ SayAnswer(c) \/ TrimLook(c) \/ TrimAssign(c)
  \/ ClearHistory \/ SaveOpen \/ SaveWrite \/ LoadState
  \/ \E m \in Known : ListModel(m)

-----------------------------------------------------------------------------
(* Properties. *)

\* As long as no two calls record at once and no save came in the middle of
\* one, the history is whole exchanges, question before answer, and longer
\* than MAX_HISTORY only by the exchanges streamed since it was last cut
\* (ask, stream, _trim_history); also after any number of restarts (_save_state,
\* _load_state).
HistoryPaired ==
  LET quiet == \A c \in Asker : ~Recording(c)
  IN  ~overlapped /\ quiet =>
        /\ Len(history) <= MaxHistory + 2 * unchecked
        /\ Len(history) % 2 = 0
        /\ \A i \in 1..(Len(history) \div 2) :
             history[2 * i - 1][1] = "user" /\ history[2 * i] = <<"assistant", history[2 * i - 1][2]>>
=============================================================================
