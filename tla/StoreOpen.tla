------------------------------ MODULE StoreOpen ------------------------------
(***************************************************************************)
(* Opening the database (store.Open): every process that opens the file,    *)
(* perhaps two versions of the program at once, applies the migrations that *)
(* are missing, each in an immediate transaction with its row of            *)
(* schema_migrations.  A statement may fail and a process may die at any    *)
(* step; SQLite then drops the transaction.                                 *)
(***************************************************************************)
EXTENDS Integers, Sequences, FiniteSets

CONSTANTS
  Openers,     \* processes that open the file
  Embedded,    \* opener -> the versions of its migrations directory (later
               \* programs add to the end)
  MaxReopens   \* bound: opens after the first of each

ASSUME OpenersAssumption ==
  /\ MaxReopens \in Nat
  /\ \A o \in Openers : IsFiniteSet(Embedded[o]) /\ Embedded[o] = 1 .. Cardinality(Embedded[o])

VARIABLES
  versionsTable,  \* schema_migrations exists
  appliedBodies,  \* the migrations whose statements are in the database, in order
  recordedRows,   \* the versions in schema_migrations
  writeLock,      \* the opener in a transaction
  opener,         \* opener -> [at, left, body, row]
  reopens

openVars == <<versionsTable, appliedBodies, recordedRows, writeLock, opener, reopens>>

\* migrations: sorted by version.
Migrations(o) ==
  LET n == Cardinality(Embedded[o])
      Below(v) == Cardinality({w \in Embedded[o] : w < v})
  IN [i \in 1 .. n |-> CHOOSE v \in Embedded[o] : Below(v) = i - 1]

NotOpen == [at |-> "closed", left |-> <<>>, body |-> FALSE, row |-> FALSE]
OpenInit ==
  /\ versionsTable = FALSE /\ appliedBodies = <<>> /\ recordedRows = {} /\ writeLock = {}
  /\ opener = [o \in Openers |-> NotOpen] /\ reopens = 0

OpenerAt(o, at) == opener[o].at = at
OpenerGoes(o, at) == opener' = [opener EXCEPT ![o].at = at]
KeepDatabase == UNCHANGED <<versionsTable, appliedBodies, recordedRows>>

OpenStore(o) ==
  /\ OpenerAt(o, "closed") /\ OpenerGoes(o, "create")
  /\ KeepDatabase /\ UNCHANGED <<writeLock, reopens>>
CreateVersionsTable(o) ==
  /\ OpenerAt(o, "create") /\ writeLock = {} /\ versionsTable' = TRUE
  /\ opener' = [opener EXCEPT ![o].at = "begin", ![o].left = Migrations(o)]
  /\ UNCHANGED <<appliedBodies, recordedRows, writeLock, reopens>>

\* apply: BEGIN IMMEDIATE waits for the lock.
BeginTx(o) ==
  /\ OpenerAt(o, "begin") /\ opener[o].left # <<>> /\ writeLock = {}
  /\ writeLock' = {o} /\ OpenerGoes(o, "check")
  /\ KeepDatabase /\ UNCHANGED reopens

\* Inside the transaction: is the version recorded?
Missing(o) == Head(opener[o].left) \notin recordedRows

CheckVersion(o) ==
  /\ OpenerAt(o, "check")
  /\ IF Missing(o) THEN OpenerGoes(o, "body") /\ UNCHANGED writeLock
     ELSE /\ writeLock' = {}
          /\ opener' = [opener EXCEPT ![o].at = "begin", ![o].left = Tail(@)]
  /\ KeepDatabase /\ UNCHANGED reopens
\* Mutant: the statements run on the database, not in the transaction.
ExecBodyAtOnce(o) ==
  /\ OpenerAt(o, "body") /\ OpenerGoes(o, "record")
  /\ appliedBodies' = Append(appliedBodies, Head(opener[o].left))
  /\ UNCHANGED <<versionsTable, recordedRows, writeLock, reopens>>
ExecBody(o) ==
  /\ OpenerAt(o, "body") /\ opener' = [opener EXCEPT ![o].at = "record", ![o].body = TRUE]
  /\ KeepDatabase /\ UNCHANGED <<writeLock, reopens>>
InsertVersion(o) ==
  /\ OpenerAt(o, "record") /\ opener' = [opener EXCEPT ![o].at = "commit", ![o].row = TRUE]
  /\ KeepDatabase /\ UNCHANGED <<writeLock, reopens>>
CommitTx(o) ==
  LET v == Head(opener[o].left) IN
  /\ OpenerAt(o, "commit") /\ writeLock' = {}
  /\ appliedBodies' = IF opener[o].body THEN Append(appliedBodies, v) ELSE appliedBodies
  /\ recordedRows' = IF opener[o].row THEN recordedRows \cup {v} ELSE recordedRows
  /\ opener' = [opener EXCEPT ![o] = [at |-> "begin", left |-> Tail(@.left), body |-> FALSE, row |-> FALSE]]
  /\ UNCHANGED <<versionsTable, reopens>>

StoreIsOpen(o) ==
  /\ OpenerAt(o, "begin") /\ opener[o].left = <<>> /\ OpenerGoes(o, "open")
  /\ KeepDatabase /\ UNCHANGED <<writeLock, reopens>>

\* A statement fails, the busy timeout passes, or the process dies: the
\* transaction is rolled back, and Open may be tried again.
FailsOrDies(o) ==
  /\ ~OpenerAt(o, "closed") /\ reopens < MaxReopens /\ reopens' = reopens + 1
  /\ opener' = [opener EXCEPT ![o] = NotOpen] /\ writeLock' = writeLock \ {o}
  /\ KeepDatabase

OpenNext ==
  \E o \in Openers :
    \/ OpenStore(o) \/ CreateVersionsTable(o) \/ BeginTx(o) \/ CheckVersion(o) \/ ExecBody(o)
    \/ InsertVersion(o) \/ CommitTx(o) \/ StoreIsOpen(o) \/ FailsOrDies(o)

OpenSpec == OpenInit /\ [][OpenNext]_openVars

-----------------------------------------------------------------------------
(* What holds *)

\* Whoever opens, fails or dies when: a migration's statements are in the
\* database once, in the order of the versions, and exactly if it is
\* recorded, and an opened store has all of its program's.
SchemaWhole ==
  /\ \A i, j \in 1 .. Len(appliedBodies) : i < j => appliedBodies[i] < appliedBodies[j]
  /\ {appliedBodies[i] : i \in 1 .. Len(appliedBodies)} = recordedRows
  /\ \A o \in Openers : OpenerAt(o, "open") => Embedded[o] \subseteq recordedRows
  /\ Cardinality(writeLock) <= 1
=============================================================================
