----------------------------- MODULE SecretsFile -----------------------------
(***************************************************************************)
(* The encrypted secrets file (secrets/file.go): one map of every secret,   *)
(* loaded, changed and replaced as a whole under one mutex, through a       *)
(* temporary file that is written, synced and renamed.  The process or the  *)
(* power may go at any step; the directory is not synced.                   *)
(***************************************************************************)
EXTENDS Integers, FiniteSets

CONSTANTS
  SecretCalls,    \* callers of set, delete and get
  SecretNames,
  MaxSecretSaves  \* bound: sets and deletes; a set stores its number

ASSUME SecretsAssumption == MaxSecretSaves \in Nat /\ SecretNames # {}

VARIABLES
  secretsMu,    \* who holds fileBackend.mu
  saver,        \* caller -> where it is, what it changes, and the entries its
                \* temporary file holds, synced or not
  secretsFile,  \* what the file decrypts to
  strays,       \* temporary files that a stop left behind
  older,        \* what the file may be again after a power loss
  kept,         \* what callers were told is stored
  keptOnce,     \* all that kept ever was
  saves

secretVars == <<secretsMu, saver, secretsFile, strays, older, kept, keptOnce, saves>>

Empty == [n \in SecretNames |-> 0]  \* 0: not there; a missing file is an empty store
TornSecrets == <<>>                 \* ErrCorrupt or ErrDecrypt
Resting == [at |-> "idle", op |-> "get", name |-> CHOOSE n \in SecretNames : TRUE,
            value |-> 0, entries |-> Empty, synced |-> FALSE]

SecretsInit ==
  /\ secretsMu = {} /\ saver = [c \in SecretCalls |-> Resting]
  /\ secretsFile = Empty /\ strays = FALSE
  /\ older = {} /\ kept = Empty /\ keptOnce = {Empty} /\ saves = 0

SecretsAt(c, at) == saver[c].at = at
SaveGoes(c, at) == saver' = [saver EXCEPT ![c].at = at]
KeepDisk == UNCHANGED <<secretsFile, strays, older, kept, keptOnce>>

\* SetSecret, DeleteSecret; get and all only read, under the mutex.
AskSecrets(c, op, n) ==
  /\ SecretsAt(c, "idle") /\ saves < MaxSecretSaves /\ saves' = saves + 1
  /\ saver' = [saver EXCEPT ![c] = [at |-> "lock", op |-> op, name |-> n,
                  value |-> IF op = "set" THEN saves' ELSE 0, entries |-> Empty, synced |-> FALSE]]
  /\ UNCHANGED secretsMu /\ KeepDisk

\* Mutant: the mutex guards the write alone.
CanLoadUnlocked == TRUE
CanLoad == secretsMu = {}

\* load: it fails on a file that is not whole; deleting nothing writes nothing.
LoadSecrets(c) ==
  LET s == saver[c] IN
  /\ SecretsAt(c, "lock") /\ CanLoad
  /\ IF secretsFile = TornSecrets \/ (s.op = "delete" /\ secretsFile[s.name] = 0)
     THEN SaveGoes(c, "idle") /\ UNCHANGED secretsMu
     ELSE /\ saver' = [saver EXCEPT ![c].at = "temp",
                          ![c].entries = [secretsFile EXCEPT ![s.name] = s.value]]
          /\ secretsMu' = {c}
  /\ UNCHANGED saves /\ KeepDisk

\* writeFileAtomic fails: the temporary file is closed and removed.
SaveFails(c) ==
  /\ \E at \in {"temp", "write", "sync", "rename"} : SecretsAt(c, at)
  /\ SaveGoes(c, "idle") /\ secretsMu' = secretsMu \ {c}
  /\ UNCHANGED saves /\ KeepDisk

CreateTemp(c) ==
  /\ SecretsAt(c, "temp") /\ SaveGoes(c, "write")
  /\ UNCHANGED <<secretsMu, saves>> /\ KeepDisk

\* Mutant: the file is renamed as soon as it is written.
AfterWriteRename == "rename"
AfterWrite == "sync"

WriteTemp(c) ==
  /\ SecretsAt(c, "write") /\ SaveGoes(c, AfterWrite)
  /\ UNCHANGED <<secretsMu, saves>> /\ KeepDisk

\* Sync, and Close.
SyncTemp(c) ==
  /\ SecretsAt(c, "sync")
  /\ saver' = [saver EXCEPT ![c].at = "rename", ![c].synced = TRUE]
  /\ UNCHANGED <<secretsMu, saves>> /\ KeepDisk

\* Rename: the callers are told; the disk may not have it yet.
RenameTemp(c) ==
  LET s == saver[c] IN
  /\ SecretsAt(c, "rename")
  /\ secretsFile' = s.entries
  /\ older' = older \cup {secretsFile} \cup (IF s.synced THEN {} ELSE {TornSecrets})
  /\ kept' = [kept EXCEPT ![s.name] = s.value] /\ keptOnce' = keptOnce \cup {kept'}
  /\ SaveGoes(c, "idle") /\ secretsMu' = secretsMu \ {c}
  /\ UNCHANGED <<strays, saves>>

\* The file system commits the renames so far.
Commit ==
  /\ older # {} /\ older' = {}
  /\ UNCHANGED <<secretsMu, saver, secretsFile, strays, kept, keptOnce, saves>>

Stopped ==
  /\ secretsMu' = {} /\ saver' = [c \in SecretCalls |-> Resting]
  /\ strays' = (strays \/ \E c \in SecretCalls : \E at \in {"write", "sync", "rename"} : SecretsAt(c, at))
  /\ UNCHANGED saves

\* The process ends anywhere, and starts again.
ProcessStops == Stopped /\ UNCHANGED <<secretsFile, older, kept, keptOnce>>

\* The power goes: the file is as some rename left it.
PowerLoss ==
  /\ Stopped
  /\ secretsFile' \in older \cup {secretsFile} /\ older' = {}
  /\ kept' = IF secretsFile' = TornSecrets THEN kept ELSE secretsFile'
  /\ UNCHANGED keptOnce

SecretsNext ==
  \/ \E c \in SecretCalls :
       \/ \E op \in {"set", "delete"}, n \in SecretNames : AskSecrets(c, op, n)
       \/ LoadSecrets(c) \/ SaveFails(c) \/ CreateTemp(c) \/ WriteTemp(c) \/ SyncTemp(c) \/ RenameTemp(c)
  \/ Commit \/ ProcessStops \/ PowerLoss

SecretsSpec == SecretsInit /\ [][SecretsNext]_secretVars

-----------------------------------------------------------------------------
(* What holds *)

\* The file always decrypts, or the server would not start; it holds what
\* callers were told, every other secret too; and after a power loss it holds
\* all that was stored at one moment, never a mix.
SecretsWhole ==
  /\ secretsFile # TornSecrets
  /\ secretsFile = kept
  /\ kept \in keptOnce

\* Does not hold: a power loss may take back what SetSecret answered.
AnsweredSurvives == [][PowerLoss => secretsFile' = secretsFile]_secretVars

\* Does not hold: a stop between CreateTemp and Rename leaves the temporary
\* file, and nothing removes it later.
NoneLeft == strays = FALSE
=============================================================================
