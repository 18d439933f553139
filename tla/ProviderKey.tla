----------------------------- MODULE ProviderKey -----------------------------
(***************************************************************************)
(* The Google API key: the secret store (secrets/store.go, file.go), the   *)
(* requests that save, delete and validate it (api/handlers/secrets.go)    *)
(* and the selector that decides on it (provider/selector): a cached read, *)
(* the verdict of the last check and the checks in progress.  Each call of *)
(* the keychain or the file and each critical section of Selector.mu is an *)
(* action.  The environment provides no key (it would make the store       *)
(* read-only).                                                             *)
(***************************************************************************)
EXTENDS Integers, Sequences

CONSTANTS
  ApiKeys,      \* keys that may be saved
  GoodKeys,     \* those Google accepts
  NoKey,
  HasKeychain,  \* the OS keychain answered in New
  HasFile,      \* the master key is set
  KeyRequests,  \* requests at a time
  MaxKeyCalls,  \* bound: requests
  MaxFaults     \* bound: failed calls of the keychain or the file

ASSUME KeyAssumption == GoodKeys \subseteq ApiKeys /\ NoKey \notin ApiKeys

VARIABLES
  keychain, file,
  cached,       \* Selector.key: a key, NoKey, "error", or "none" (not read, or KeyTTL passed)
  verdict,      \* Selector.v
  checks,       \* the flights there were, in order
  inflight,     \* or 0
  req,          \* what each request does
  keyCalls, faults

keyVars == <<keychain, file, cached, verdict, checks, inflight, req, keyCalls, faults>>

KeyStates == {"unknown", "none", "valid", "invalid", "unverified"}
Definite == {"valid", "invalid"}
Idle == [pc |-> "idle", op |-> "none", key |-> NoKey, check |-> 0, answer |-> "unknown"]

KeyInit ==
  /\ keychain = NoKey /\ file \in IF HasFile THEN ApiKeys \cup {NoKey} ELSE {NoKey}
  /\ cached = "none"
  /\ verdict = [key |-> NoKey, state |-> "unknown"]
  /\ checks = <<>> /\ inflight = 0
  /\ req = [r \in KeyRequests |-> Idle]
  /\ keyCalls = 0 /\ faults = 0

At(r, place) == req[r].pc = place
To(r, place) == req' = [req EXCEPT ![r].pc = place]
Fault == faults < MaxFaults /\ faults' = faults + 1
NoFault == faults' = faults
KeepSelector == UNCHANGED <<verdict, checks, inflight, keyCalls>>
KeepStore == UNCHANGED <<keychain, file, keyCalls>>

-----------------------------------------------------------------------------
(* PutSecret and DeleteSecret with SetSecret and DeleteSecret of the store *)

FirstStep(op) ==
  CASE op = "put"      -> IF HasKeychain THEN "setKeychain" ELSE "setFile"
    [] op = "delete"   -> IF HasKeychain THEN "deleteKeychain" ELSE "deleteFile"
    [] op = "validate" -> "validate"
    [] op = "resolve"  -> "read"

Begin(r, op, key) ==
  /\ At(r, "idle") /\ keyCalls < MaxKeyCalls
  /\ op # "put" => key = NoKey
  /\ op = "put" => key # NoKey
  /\ keyCalls' = keyCalls + 1
  /\ req' = [req EXCEPT ![r] = [pc |-> FirstStep(op), op |-> op, key |-> key, check |-> 0,
                                 answer |-> "unknown"]]
  /\ UNCHANGED <<keychain, file, cached, verdict, checks, inflight, faults>>

\* A key the keychain refuses goes to the file.
SetKeychain(r) ==
  /\ At(r, "setKeychain")
  /\ \/ keychain' = req[r].key /\ To(r, IF HasFile THEN "dropCopy" ELSE "forget") /\ NoFault
     \/ Fault /\ To(r, IF HasFile THEN "setFile" ELSE "idle") /\ UNCHANGED keychain
  /\ UNCHANGED <<file, cached>> /\ KeepSelector

\* The older copy in the file goes; when it cannot, a warning is all.
DropCopy(r) ==
  /\ At(r, "dropCopy") /\ To(r, "forget")
  /\ \/ file' = NoKey /\ NoFault
     \/ Fault /\ UNCHANGED file
  /\ UNCHANGED <<keychain, cached>> /\ KeepSelector

SetFile(r) ==
  /\ At(r, "setFile")
  /\ \/ HasFile /\ file' = req[r].key /\ To(r, "forget") /\ NoFault
     \/ ~HasFile /\ To(r, "idle") /\ NoFault /\ UNCHANGED file
     \/ HasFile /\ Fault /\ To(r, "idle") /\ UNCHANGED file
  /\ UNCHANGED <<keychain, cached>> /\ KeepSelector

\* req.key remembers whether a backend held the secret.
DeleteKeychain(r) ==
  /\ At(r, "deleteKeychain")
  /\ \/ keychain' = NoKey /\ NoFault
        /\ req' = [req EXCEPT ![r].pc = "deleteFile", ![r].key = keychain]
     \/ Fault /\ To(r, "idle") /\ UNCHANGED keychain
  /\ UNCHANGED <<file, cached>> /\ KeepSelector

DeleteFile(r) ==
  /\ At(r, "deleteFile")
  /\ \/ file' = NoKey /\ NoFault
        /\ To(r, IF req[r].key # NoKey \/ file # NoKey THEN "forget" ELSE "idle")
     \/ HasFile /\ Fault /\ To(r, "idle") /\ UNCHANGED file
  /\ UNCHANGED <<keychain, cached>> /\ KeepSelector

\* Forget, after which PutSecret validates unless the client opted out.
Forget(r) ==
  /\ At(r, "forget")
  /\ cached' = "none"
  /\ \E validates \in BOOLEAN :
       To(r, IF req[r].op = "put" /\ validates THEN "validate" ELSE "idle")
  /\ UNCHANGED <<keychain, file, faults>> /\ KeepSelector

-----------------------------------------------------------------------------
(* readKey and GetSecret *)

Validate(r) ==
  /\ At(r, "validate") /\ cached' = "none" /\ To(r, "read")
  /\ UNCHANGED <<keychain, file, faults>> /\ KeepSelector

KeyTTLPasses ==
  /\ cached # "none" /\ cached' = "none"
  /\ UNCHANGED <<keychain, file, verdict, checks, inflight, req, keyCalls, faults>>

\* The keychain's copy comes first; one that cannot be read is passed over.
Read(r) ==
  /\ At(r, "read")
  /\ \/ cached # "none" /\ NoFault
        /\ req' = [req EXCEPT ![r].key = cached, ![r].pc = "decide"]
     \/ cached = "none" /\ HasKeychain /\ NoFault
        /\ req' = [req EXCEPT ![r].key = keychain,
                              ![r].pc = IF keychain = NoKey THEN "readFile" ELSE "cache"]
     \/ cached = "none" /\ (HasKeychain => Fault) /\ (~HasKeychain => NoFault)
        /\ To(r, "readFile")
  /\ UNCHANGED <<keychain, file, cached>> /\ KeepSelector

ReadFile(r) ==
  /\ At(r, "readFile")
  /\ \/ NoFault /\ req' = [req EXCEPT ![r].key = file, ![r].pc = "cache"]
     \/ HasFile /\ Fault /\ req' = [req EXCEPT ![r].key = "error", ![r].pc = "cache"]
  /\ UNCHANGED <<keychain, file, cached>> /\ KeepSelector

Cache(r) ==
  /\ At(r, "cache") /\ cached' = req[r].key /\ To(r, "decide")
  /\ UNCHANGED <<keychain, file, faults>> /\ KeepSelector

-----------------------------------------------------------------------------
(* keyState and Validate, with the key they read *)

Answered(r, state) == req' = [req EXCEPT ![r].answer = state, ![r].pc = "idle"]

\* A store error or no key.
DecideWithout(r) ==
  /\ At(r, "decide") /\ req[r].key \in {"error", NoKey}
  /\ Answered(r, IF req[r].key = "error" THEN "unverified" ELSE "none")
  /\ UNCHANGED <<cached, verdict, checks, inflight, faults>> /\ KeepStore

\* startLocked joins the check in progress of the same key.  Mutant: of any.
JoinsAny(key) == inflight # 0
Joins(key) == inflight # 0 /\ checks[inflight].key = key

Check(key) == [key |-> key, at |-> "asking", fresh |-> "unknown", state |-> "unknown"]
\* To be conjoined with an update of req that uses Started.
StartCheck(key) ==
  IF Joins(key) THEN UNCHANGED <<checks, inflight>>
  ELSE checks' = Append(checks, Check(key)) /\ inflight' = Len(checks) + 1
Started(key) == IF Joins(key) THEN inflight ELSE Len(checks) + 1

Known(key) == verdict.key = key /\ verdict.state # "unknown"

\* keyState with a verdict, which may have expired; then a check refreshes it.
DecideKnown(r, expired) ==
  /\ At(r, "decide") /\ req[r].op = "resolve" /\ req[r].key \in ApiKeys /\ Known(req[r].key)
  /\ IF expired /\ inflight = 0 THEN StartCheck(req[r].key) ELSE UNCHANGED <<checks, inflight>>
  /\ Answered(r, verdict.state)
  /\ UNCHANGED <<cached, verdict, faults>> /\ KeepStore

\* Validate within MinRecheck of the last check.
DecideRecent(r) ==
  /\ At(r, "decide") /\ req[r].op # "resolve" /\ req[r].key \in ApiKeys /\ Known(req[r].key)
  /\ Answered(r, verdict.state)
  /\ UNCHANGED <<cached, verdict, checks, inflight, faults>> /\ KeepStore

DecideUnknown(r) ==
  /\ At(r, "decide") /\ req[r].key \in ApiKeys
  /\ req[r].op = "resolve" => ~Known(req[r].key)
  /\ StartCheck(req[r].key)
  /\ req' = [req EXCEPT ![r].pc = "wait", ![r].check = Started(req[r].key)]
  /\ UNCHANGED <<cached, verdict, faults>> /\ KeepStore

CheckDone(r) ==
  /\ At(r, "wait")
  /\ LET f == checks[req[r].check] IN
       /\ f.at = "done"
       /\ Answered(r, IF req[r].op = "resolve" THEN f.state ELSE f.fresh)
  /\ UNCHANGED <<cached, verdict, checks, inflight, faults>> /\ KeepStore

\* The request's context ends.
GiveUp(r) ==
  /\ At(r, "wait") /\ Answered(r, IF req[r].op = "resolve" THEN "unverified" ELSE "unknown")
  /\ UNCHANGED <<cached, verdict, checks, inflight, faults>> /\ KeepStore

-----------------------------------------------------------------------------
(* check *)

\* Google answers, or cannot be asked; then a definite verdict on the same key
\* stays, which is checked again soon.
Asked(c, fresh) ==
  LET f == checks[c]
      kept == fresh = "unverified" /\ verdict.key = f.key /\ verdict.state \in Definite
      state == IF kept THEN verdict.state ELSE fresh
  IN /\ f.at = "asking"
     /\ fresh \in {"unverified", IF f.key \in GoodKeys THEN "valid" ELSE "invalid"}
     /\ verdict' = [key |-> f.key, state |-> state]
     /\ inflight' = IF inflight = c THEN 0 ELSE inflight
     /\ checks' = [checks EXCEPT ![c] =
          [key |-> f.key, at |-> "reading", fresh |-> fresh, state |-> state]]
     /\ UNCHANGED <<cached, req, faults>> /\ KeepStore

\* The check ends with a read, cached as any other, for what is published (the
\* store is read in one step here).
Current == IF keychain # NoKey THEN keychain ELSE file
Checked(c) ==
  LET now == IF cached # "none" THEN cached ELSE Current
  IN /\ checks[c].at = "reading"
     /\ cached' = now
     /\ checks' = [checks EXCEPT ![c].at = "done"]
     /\ UNCHANGED <<verdict, inflight, req, faults>> /\ KeepStore

KeyNext ==
  \/ \E r \in KeyRequests :
       \/ \E op \in {"put", "delete", "validate", "resolve"}, key \in ApiKeys \cup {NoKey} :
            Begin(r, op, key)
       \/ SetKeychain(r) \/ DropCopy(r) \/ SetFile(r) \/ DeleteKeychain(r) \/ DeleteFile(r)
       \/ Forget(r) \/ Validate(r) \/ Read(r) \/ ReadFile(r) \/ Cache(r)
       \/ DecideWithout(r) \/ (\E expired \in BOOLEAN : DecideKnown(r, expired))
       \/ DecideRecent(r) \/ DecideUnknown(r) \/ CheckDone(r) \/ GiveUp(r)
  \/ KeyTTLPasses
  \/ \E c \in DOMAIN checks : (\E fresh \in KeyStates : Asked(c, fresh)) \/ Checked(c)

KeySpec == KeyInit /\ [][KeyNext]_keyVars

-----------------------------------------------------------------------------
(* What holds *)

Said(key, state) ==
  /\ state = "valid" => key \in GoodKeys
  /\ state = "invalid" => key \notin GoodKeys

\* Whatever keys are saved and deleted while checks run, nobody is told of a
\* key what Google said of another: not by the verdict, not by a check and not
\* by an answer to a request that read it.
VerdictsTrue ==
  /\ Said(verdict.key, verdict.state)
  /\ \A c \in DOMAIN checks : Said(checks[c].key, checks[c].state) /\ Said(checks[c].key, checks[c].fresh)
  /\ \A r \in KeyRequests : req[r].key \in ApiKeys => Said(req[r].key, req[r].answer)

(* What the code says and does not hold *)

\* "a key saved or deleted a moment ago is seen by the next decision": when
\* nobody is writing or reading, what is cached is what is stored.
CacheCurrent ==
  (\A r \in KeyRequests : At(r, "idle")) /\ cached \notin {"none", "error"} => cached = Current

\* Writes go to "the keychain when available, else the file"; a saved key is
\* the one that is read.
SavedIsRead ==
  [][\A r \in KeyRequests :
       At(r, "setFile") /\ req'[r].pc = "forget" => Current' = req[r].key]_keyVars
=============================================================================
