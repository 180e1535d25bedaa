--------------------------- MODULE GeminiAnalyzer ---------------------------
(***************************************************************************)
(* Analyze of llm/gemini.go, called by several goroutines at once (the     *)
(* cron run, a triggered run, a reprocess call).  All of them share the    *)
(* index of the active API key and the name of the active model, each      *)
(* access to which is one step under the analyzer's RWMutex; between two   *)
(* accesses the others go on.  Which keys are over their quota and which   *)
(* models do not exist is chosen once and stays.                           *)
(***************************************************************************)
EXTENDS Integers, Sequences, FiniteSets, SequencesExt

CONSTANTS
  Callers,      \* goroutines that call Analyze, each again and again
  Models,       \* fallbackModels of the analyzer, the primary model first
  KeyCounts     \* possible numbers of API keys

Model  == Range(Models)
Retries == 3

ASSUME GeminiAssumption ==
  /\ Models \in Seq(STRING) /\ Models # <<>> /\ IsInjective(Models)
  /\ KeyCounts \subseteq Nat

VARIABLES
  nkeys,        \* len(apiKeys)
  limited,      \* keys the API answers 429 for
  missing,      \* models the API answers 404 for
  activeKey,    \* activeKeyIdx
  activeModel,
  phase,        \* where each caller is
  first,        \* the model it tries first: activeModel when it began
  turn,         \* its position in modelsToTry
  retry,        \* attempts made at that model
  key,          \* the key of its last attempt, -1 before the first
  asked,        \* history: attempts at each model, Retries + 1 for any more
  result,       \* how its call ended, "none" before
  ctxDone,      \* callers whose context is cancelled
  alone         \* history: callers whose call no other call has overlapped

env        == <<nkeys, limited, missing>>
shared     == <<activeKey, activeModel>>
own        == <<phase, first, turn, retry, key, asked, result>>
geminiVars == <<env, shared, own, ctxDone, alone>>

Keys == 0 .. nkeys - 1

GeminiTypeOK ==
  /\ nkeys \in KeyCounts /\ limited \in SUBSET Keys /\ missing \in SUBSET Model
  /\ activeKey \in Nat /\ (nkeys > 0 => activeKey \in Keys)
  /\ activeModel \in Model
  /\ phase \in [Callers -> {"idle", "key", "answer", "rotate", "wait", "remember", "return"}]
  /\ first \in [Callers -> Model]
  /\ turn \in [Callers -> 1 .. Len(Models)]
  /\ retry \in [Callers -> 0 .. Retries]
  /\ key \in [Callers -> -1 .. nkeys - 1]
  /\ asked \in [Callers -> [Model -> 0 .. Retries]]
  /\ result \in [Callers -> {"none", "ok", "error", "exhausted"}]
  /\ ctxDone \in SUBSET Callers /\ alone \in SUBSET Callers

NotAsked == [m \in Model |-> 0]

GeminiInit ==
  /\ nkeys \in KeyCounts
  /\ limited \in SUBSET Keys
  /\ missing \in SUBSET Model
  /\ activeKey = 0 /\ activeModel = Models[1]
  /\ phase = [c \in Callers |-> "idle"]
  /\ first = [c \in Callers |-> Models[1]]
  /\ turn = [c \in Callers |-> 1] /\ retry = [c \in Callers |-> 0]
  /\ key = [c \in Callers |-> -1]
  /\ asked = [c \in Callers |-> NotAsked]
  /\ result = [c \in Callers |-> "none"]
  /\ ctxDone = {} /\ alone = {}

Move(c, k, l) == phase[c] = k /\ phase' = [phase EXCEPT ![c] = l]
Return(c, k, r) == Move(c, k, "return") /\ result' = [result EXCEPT ![c] = r]

-----------------------------------------------------------------------------
(* The order in which models are tried, and the attempts at each.           *)

\* Mutation: the active model is not left out of the rest.
Bug_ModelsToTry(active) == <<active>> \o Models

Place(m) == CHOOSE i \in DOMAIN Models : Models[i] = m

\* getModelsToTry: the active model, then the others in their order; it is listed
\* once, so those before it move down by one.
ModelsToTry(active) ==
  [i \in DOMAIN Models |->
     IF i = 1 THEN active ELSE Models[IF i <= Place(active) THEN i - 1 ELSE i]]

Trying(c) == ModelsToTry(first[c])[turn[c]]

Start(c) ==
  /\ \/ nkeys > 0 /\ Move(c, "idle", "key") /\ UNCHANGED result
     \/ nkeys = 0 /\ Return(c, "idle", "error")
  /\ first' = [first EXCEPT ![c] = activeModel]
  /\ turn' = [turn EXCEPT ![c] = 1] /\ retry' = [retry EXCEPT ![c] = 0]
  /\ alone' = IF \A d \in Callers \ {c} : phase[d] = "idle" THEN {c} ELSE {}
  /\ UNCHANGED <<env, shared, key, asked, ctxDone>>

ActiveAPIKey == activeKey

\* getActiveAPIKey, and the request that carries the key.
ReadKey(c) ==
  /\ Move(c, "key", "answer")
  /\ key' = [key EXCEPT ![c] = ActiveAPIKey]
  /\ asked' = [asked EXCEPT ![c][Trying(c)] = IF @ <= Retries THEN @ + 1 ELSE @]
  /\ UNCHANGED <<env, shared, first, turn, retry, result, ctxDone>>

\* The retry loop is left for the next model, or for good after the last.
NextModel(c, k) ==
  \/ /\ turn[c] < Len(Models)
     /\ Move(c, k, "key")
     /\ turn' = [turn EXCEPT ![c] = @ + 1] /\ retry' = [retry EXCEPT ![c] = 0]
     /\ UNCHANGED result
  \/ turn[c] = Len(Models) /\ Return(c, k, "exhausted") /\ UNCHANGED <<turn, retry>>

Count(c) == retry[c] + 1

\* continue: the next attempt at this model, or the end of its three.
Retry(c, k) ==
  \/ /\ Count(c) < Retries
     /\ Move(c, k, "key")
     /\ retry' = [retry EXCEPT ![c] = Count(c)]
     /\ UNCHANGED <<turn, result>>
  \/ Count(c) = Retries /\ NextModel(c, k)

-----------------------------------------------------------------------------
(* The answers.                                                             *)

\* isRateLimitError: the key the request carried is over its quota.
QuotaError(c) == key[c] \in limited

\* isModelNotFoundError
ModelNotFound(c) == Trying(c) \in missing

\* 429: with several keys rotate, with one wait.
RateLimited(c) ==
  /\ QuotaError(c)
  /\ Move(c, "answer", IF nkeys > 1 THEN "rotate" ELSE "wait")
  /\ UNCHANGED <<shared, turn, retry, result>>

\* Mutation: a model that is not found ends the call.
Bug_NotFound(c) == ModelNotFound(c) /\ Return(c, "answer", "exhausted") /\ UNCHANGED <<turn, retry>>

\* 404: break.
NotFound(c) == ModelNotFound(c) /\ NextModel(c, "answer")

\* Any other failure, that of a cancelled request among them, is returned.
OtherError(c) == Return(c, "answer", "error") /\ UNCHANGED <<turn, retry>>

Answered(c) ==
  /\ ~QuotaError(c) /\ ~ModelNotFound(c)
  /\ Move(c, "answer", "remember") /\ UNCHANGED <<turn, retry, result>>

Answer(c) ==
  /\ RateLimited(c) \/ NotFound(c) \/ OtherError(c) \/ Answered(c)
  /\ UNCHANGED <<env, shared, first, key, asked, ctxDone>>

NextKey == (activeKey + 1) % nkeys

RotateAPIKey(c) ==
  /\ Retry(c, "rotate")
  /\ activeKey' = NextKey
  /\ UNCHANGED <<env, activeModel, first, key, asked, ctxDone>>

\* The select over the time and the context.
Wait(c) ==
  /\ \/ Retry(c, "wait")
     \/ c \in ctxDone /\ Return(c, "wait", "error") /\ UNCHANGED <<turn, retry>>
  /\ UNCHANGED <<env, shared, first, key, asked, ctxDone>>

-----------------------------------------------------------------------------
(* A success.                                                               *)

\* Mutation: the model after the one that answered is remembered.
Bug_Remembered(c) == ModelsToTry(first[c])[(turn[c] % Len(Models)) + 1]

Remembered(c) == Trying(c)

\* parseResult: not JSON, or a score and a label, which it makes fit the tables.
ParseResult(c) == Return(c, "remember", "error") \/ Return(c, "remember", "ok")

\* setActiveModel, then parseResult.
Remember(c) ==
  /\ activeModel' = Remembered(c)
  /\ ParseResult(c)
  /\ UNCHANGED <<env, activeKey, first, turn, retry, key, asked, ctxDone>>

\* The caller has its result; its next call starts afresh.
Again(c) ==
  /\ Move(c, "return", "idle")
  /\ key' = [key EXCEPT ![c] = -1]
  /\ asked' = [asked EXCEPT ![c] = NotAsked]
  /\ result' = [result EXCEPT ![c] = "none"]
  /\ ctxDone' = ctxDone \ {c}
  /\ UNCHANGED <<env, shared, first, turn, retry>>

Cancel(c) ==
  /\ phase[c] # "idle" /\ ctxDone' = ctxDone \cup {c}
  /\ UNCHANGED <<env, shared, own, alone>>

CallStep(c) == ReadKey(c) \/ Answer(c) \/ RotateAPIKey(c) \/ Wait(c) \/ Remember(c) \/ Again(c)
GeminiNext  == \E c \in Callers : Start(c) \/ (CallStep(c) /\ UNCHANGED alone) \/ Cancel(c)
GeminiSpec  == GeminiInit /\ [][GeminiNext]_geminiVars

-----------------------------------------------------------------------------
(* Properties.                                                              *)

\* The model that is tried first in the next call is the primary one or one that
\* has answered, however the calls overlap (gemini.go 155, 283-307).
ActiveModelWorks == activeModel # Models[1] => activeModel \notin missing

\* "all models exhausted" (gemini.go:202) is told only when every model that
\* exists has been asked three times and every other one at least once.
ExhaustedMeansAsked ==
  \A c \in Callers : result[c] = "exhausted" =>
    \A m \in Model : IF m \in missing THEN asked[c][m] >= 1 ELSE asked[c][m] = Retries

\* A caller that nobody has overlapped and that has at most three keys does not
\* give up while some key has quota left and some model exists, wherever earlier
\* calls have left the index of the key and the active model.
HealthyPairFound ==
  \A c \in alone : result[c] = "exhausted" /\ nkeys <= Retries =>
    Keys \subseteq limited \/ Model \subseteq missing

=============================================================================
