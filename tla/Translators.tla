----------------------------- MODULE Translators -----------------------------
(***************************************************************************)
(* The translators behind a fan-out: Gemma on Ollama, with its limit of     *)
(* requests per server and model and its retries (provider/local/gemma),    *)
(* and Gemini, with its client per API key (provider/gemini/translator.go). *)
(* Both resolve what the settings and the secrets say and use it for a      *)
(* while.  A model stands for the server it is on, too.                     *)
(***************************************************************************)
EXTENDS Integers, FiniteSets

CONSTANTS
  GemmaCalls, GemmaModels,
  Concurrency,      \* Translator.Concurrency
  Retries,          \* Translator.Retries
  GeminiCalls, GoogleKeys, NoKey,
  ConfigTTL,        \* configTTL, translatorConfigTTL
  MaxTranslateTime  \* bound: the clock

ASSUME TranslatorAssumption ==
  /\ {Retries, MaxTranslateTime} \subseteq Nat
  /\ {Concurrency, ConfigTTL} \subseteq Nat \ {0} /\ NoKey \notin GoogleKeys

VARIABLES
  gemmaModel,   \* settings.providers.local.gemmaModel
  gemmaCached,  \* what resolve keeps, and until when
  slots,        \* model -> slots taken of its semaphore
  gemma,        \* call -> where it is, with which model and attempt
  googleKey,    \* the stored key
  clients,      \* models, modelsOf and expires of the Gemini translator
  gemini,       \* call -> the key of the client it was given, and when
  setAt,        \* model or key -> when it was last what is set
  translateTime

gemmaVars == <<gemmaModel, gemmaCached, slots, gemma>>
geminiVars == <<googleKey, clients, gemini>>
translatorVars == <<gemmaVars, geminiVars, setAt, translateTime>>

Unresolved == [is |-> NoKey, expires |-> 0]
NoGemma == [at |-> "idle", model |-> NoKey, tries |-> 0, since |-> 0]
NoGemini == [at |-> "idle", key |-> NoKey, since |-> 0]

TranslatorsInit ==
  /\ gemmaModel \in GemmaModels /\ googleKey \in GoogleKeys \cup {NoKey}
  /\ gemmaCached = Unresolved /\ clients = Unresolved
  /\ slots = [m \in GemmaModels |-> 0]
  /\ gemma = [c \in GemmaCalls |-> NoGemma] /\ gemini = [c \in GeminiCalls |-> NoGemini]
  /\ setAt = [v \in GemmaModels \cup GoogleKeys |-> 0]
  /\ translateTime = 0

-----------------------------------------------------------------------------
(* Gemma *)

GemmaAt(c, at) == gemma[c].at = at
GemmaGoes(c, at) ==
  gemma' = [gemma EXCEPT ![c] = IF at = "idle" THEN NoGemma ELSE [@ EXCEPT !.at = at, !.since = 0]]

\* TranslateStream, or Warm.
AskGemma(c, at) ==
  /\ GemmaAt(c, "idle")
  /\ gemma' = [gemma EXCEPT ![c] = [NoGemma EXCEPT !.at = at]]
  /\ UNCHANGED <<gemmaModel, gemmaCached, slots>>

\* Mutant: what was resolved is kept for as long as it is used.
FreshWhileUsed(cached) == cached.is # NoKey
Fresh(cached) == cached.is # NoKey /\ translateTime < cached.expires

Resolved(v) == [is |-> v, expires |-> translateTime + ConfigTTL]

\* resolve: the cached model, or the settings', or their error.
ResolveGemma(c, fails) ==
  LET warm == GemmaAt(c, "warm")
      next(m) == [gemma EXCEPT ![c] = [at |-> IF warm THEN "load" ELSE "acquire", model |-> m,
                                       tries |-> 0, since |-> translateTime]] IN
  /\ GemmaAt(c, "resolve") \/ warm
  /\ IF Fresh(gemmaCached) THEN gemma' = next(gemmaCached.is) /\ UNCHANGED gemmaCached
     ELSE IF fails THEN GemmaGoes(c, "idle") /\ UNCHANGED gemmaCached
     ELSE gemma' = next(gemmaModel) /\ gemmaCached' = Resolved(gemmaModel)
  /\ UNCHANGED <<gemmaModel, slots>>

\* Warm only loads the model: no slot, no retry.
LoadModel(c) ==
  /\ GemmaAt(c, "load") /\ GemmaGoes(c, "idle")
  /\ UNCHANGED <<gemmaModel, gemmaCached, slots>>

\* acquire: a slot of the model's semaphore, or the caller's context is done.
Acquire(c, done) ==
  LET m == gemma[c].model IN
  /\ GemmaAt(c, "acquire")
  /\ IF done THEN GemmaGoes(c, "idle") /\ UNCHANGED slots
     ELSE /\ slots[m] < Concurrency /\ slots' = [slots EXCEPT ![m] = @ + 1]
          /\ GemmaGoes(c, "post")
  /\ UNCHANGED <<gemmaModel, gemmaCached>>

\* Mutant: the slot of the model that is set now.
SlotOfCached(c) == gemmaCached.is
SlotOf(c) == gemma[c].model

\* TranslateStream returns, with its deferred release.
GemmaReturns(c) ==
  /\ slots[SlotOf(c)] > 0 /\ slots' = [slots EXCEPT ![SlotOf(c)] = @ - 1]
  /\ GemmaGoes(c, "idle")

\* postRetrying: a transient failure is tried again, until there are no
\* retries left; any other failure is the caller's.
PostGemma(c, answer) ==
  /\ GemmaAt(c, "post")
  /\ CASE answer = "ok" -> GemmaGoes(c, "stream") /\ UNCHANGED slots
       [] answer = "transient" /\ gemma[c].tries < Retries ->
            gemma' = [gemma EXCEPT ![c].at = "backoff", ![c].tries = @ + 1] /\ UNCHANGED slots
       [] OTHER -> GemmaReturns(c)
  /\ UNCHANGED <<gemmaModel, gemmaCached>>

\* backoff.Wait, which the caller's context may end.
BackoffGemma(c, done) ==
  /\ GemmaAt(c, "backoff")
  /\ IF done THEN GemmaReturns(c) ELSE GemmaGoes(c, "post") /\ UNCHANGED slots
  /\ UNCHANGED <<gemmaModel, gemmaCached>>

\* The stream ends: done, an error in it, cut off or cancelled.
StreamGemma(c) ==
  /\ GemmaAt(c, "stream") /\ GemmaReturns(c)
  /\ UNCHANGED <<gemmaModel, gemmaCached>>

GemmaStep ==
  \E c \in GemmaCalls :
    \/ AskGemma(c, "resolve") \/ AskGemma(c, "warm") \/ LoadModel(c) \/ StreamGemma(c)
    \/ \E b \in BOOLEAN : ResolveGemma(c, b) \/ Acquire(c, b) \/ BackoffGemma(c, b)
    \/ \E answer \in {"ok", "transient", "refused"} : PostGemma(c, answer)

SetModel(m) ==
  /\ m # gemmaModel /\ gemmaModel' = m
  /\ setAt' = [setAt EXCEPT ![gemmaModel] = translateTime]
  /\ UNCHANGED <<gemmaCached, slots, gemma, geminiVars, translateTime>>

GemmaNext ==
  \/ GemmaStep /\ UNCHANGED <<geminiVars, setAt, translateTime>>
  \/ \E m \in GemmaModels : SetModel(m)

-----------------------------------------------------------------------------
(* Gemini *)

\* Mutant: there is a client.
ReopenOnce(key) == clients.is = NoKey
Reopen(key) == clients.is # key

\* resolve: the client kept, or one of the key that is stored; the settings
\* may fail.  A call that was given one goes on with it.
ResolveGemini(c, fails) ==
  /\ gemini[c].at = "idle"
  /\ IF Fresh(clients) THEN UNCHANGED clients
     ELSE /\ googleKey # NoKey /\ ~fails
          /\ clients' = IF Reopen(googleKey) THEN Resolved(googleKey) ELSE Resolved(clients.is)
  /\ gemini' = [gemini EXCEPT ![c] = [at |-> "call", key |-> clients'.is, since |-> translateTime]]
  /\ UNCHANGED <<googleKey, gemmaVars, setAt, translateTime>>

GeminiReturns(c) ==
  /\ gemini[c].at = "call" /\ gemini' = [gemini EXCEPT ![c] = NoGemini]
  /\ UNCHANGED <<googleKey, clients, gemmaVars, setAt, translateTime>>

SetKey(k) ==
  /\ k # googleKey /\ googleKey' = k
  /\ setAt' = IF googleKey = NoKey THEN setAt ELSE [setAt EXCEPT ![googleKey] = translateTime]
  /\ UNCHANGED <<clients, gemini, gemmaVars, translateTime>>

GeminiNext ==
  \/ \E c \in GeminiCalls : GeminiReturns(c) \/ \E fails \in BOOLEAN : ResolveGemini(c, fails)
  \/ \E k \in GoogleKeys \cup {NoKey} : SetKey(k)

TranslateTick ==
  /\ translateTime < MaxTranslateTime /\ translateTime' = translateTime + 1
  /\ UNCHANGED <<gemmaVars, geminiVars, setAt>>

TranslatorsNext == GemmaNext \/ GeminiNext \/ TranslateTick
TranslatorsSpec == TranslatorsInit /\ [][TranslatorsNext]_translatorVars

-----------------------------------------------------------------------------
(* What holds *)

Holding(m) == {c \in GemmaCalls : gemma[c].model = m /\ gemma[c].at \in {"post", "backoff", "stream"}}

\* The slots taken of a model are those of the calls that are sent to it, at
\* most as many as fit, whichever model others use meanwhile and however a
\* call ends: none is lost, and none is given back twice.
SlotsHeld == \A m \in GemmaModels : slots[m] = Cardinality(Holding(m)) /\ slots[m] <= Concurrency

InUse(v, now, since) == v = now \/ since - setAt[v] < ConfigTTL

\* A model or a key that was replaced is not given to a call any more once
\* the time that settings are reused is over.
SettingsFollowed ==
  /\ \A c \in GemmaCalls : GemmaAt(c, "acquire") => InUse(gemma[c].model, gemmaModel, gemma[c].since)
  /\ \A c \in GeminiCalls : gemini[c].at = "call" => InUse(gemini[c].key, googleKey, gemini[c].since)

CallsFit == SlotsHeld /\ SettingsFollowed
=============================================================================
