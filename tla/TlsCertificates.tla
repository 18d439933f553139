---------------------------- MODULE TlsCertificates ----------------------------
(***************************************************************************)
(* The HTTPS certificate (tlsutil/manager.go, localca.go).  In local-ca    *)
(* mode: the CA that devices install, the leaf it signs, their key pairs   *)
(* on disk and the refresh that renews them, which may find a pair that    *)
(* cannot be read, and may fail or die at each file it writes.  In         *)
(* provided mode: the operator's two files and their reload.  A key pair   *)
(* is a number; its certificate and its key are two files, each of which   *)
(* may be an older pair's.                                                 *)
(***************************************************************************)
EXTENDS Integers, Sequences

CONSTANTS
  CALife,       \* CAValidity less RenewBefore
  LeafLife,     \* LeafValidity less RenewBefore
  MaxTime,      \* bound: the clock
  MaxPairs,     \* bound: key pairs made
  MaxVersions   \* bound: versions of the operator's files

ASSUME TlsAssumption == CALife \in Nat \ {0} /\ LeafLife \in Nat \ {0}

VARIABLES
  stage,        \* where refreshLocalCA is, "idle", or "down" (no server)
  time, lan,    \* now and the SANs wanted; a refresh reads them once
  pairs,        \* the pairs made: when, by which CA (0: it is one), for which SANs
  disk,         \* the pair whose part each file is, 0: no file
  ca, leaf,     \* Manager.ca and the pair that is served, or 0
  caChanged,
  unread,       \* history: the CAs whose files were there and, when last tried, not readable
  devices,      \* the CA that devices have installed, or 0
  current       \* no time has passed and no address has changed since a Refresh without error

localVars == <<stage, time, lan, pairs, disk, ca, leaf, caChanged, unread, devices, current>>

Files == {"ca.key", "ca.crt", "server.key", "server.crt"}

LocalInit ==
  /\ stage = "down" /\ time = 0 /\ lan = "home"
  /\ pairs = <<>> /\ disk = [f \in Files |-> 0]
  /\ ca = 0 /\ leaf = 0 /\ caChanged = FALSE /\ unread = {} /\ devices = 0
  /\ current = FALSE

KeepWorld == UNCHANGED <<time, lan, devices>>

-----------------------------------------------------------------------------
(* refreshLocalCA *)

\* What loadKeyPair makes of two files that it can read and parse: they must be
\* of one pair.
Loaded(cert, key) == IF disk[cert] = disk[key] THEN disk[cert] ELSE 0

NearEnd(c) == time >= pairs[c].made + CALife
\* By 0 is by itself: a CA, which names no addresses.
NewPair(by) ==
  Append(pairs, [made |-> time, by |-> by, lan |-> IF by = 0 THEN "none" ELSE lan])
Newest == Len(pairs)

\* A CA is made when none is known or it is near its end.  Mutant: the new one is
\* offered before it is saved.
CAWhileSavingNew(known, new) == new
CAWhileSaving(known, new) == known
RefreshWith(known) ==
  /\ stage \in {"down", "idle"}
  /\ IF known = 0 \/ NearEnd(known)
     THEN /\ Len(pairs) < MaxPairs
          /\ pairs' = NewPair(0) /\ ca' = CAWhileSaving(known, Len(pairs) + 1) /\ stage' = "ca.key"
     ELSE ca' = known /\ stage' = "leaf" /\ UNCHANGED pairs
  /\ caChanged' = FALSE
  /\ UNCHANGED <<disk, leaf, current>> /\ KeepWorld

\* Start of the server, and the ticker of Run.  Only a server that has no CA yet
\* reads it, and any error of that read, also of a pair that is whole (a file that
\* is damaged, removed or not permitted), is as if there were none.
Refresh ==
  LET found == Loaded("ca.crt", "ca.key") IN
  \/ ca # 0 /\ RefreshWith(ca) /\ UNCHANGED unread
  \/ ca = 0 /\ RefreshWith(found) /\ unread' = unread \ {found}
  \/ ca = 0 /\ found # 0 /\ RefreshWith(0) /\ unread' = unread \cup {found}

\* writeFileAtomic: the whole file or none of it.
Write(name, next) ==
  /\ stage = name /\ stage' = next /\ disk' = [disk EXCEPT ![name] = Newest]
  /\ UNCHANGED <<pairs, unread>> /\ KeepWorld

SaveCAKey == Write("ca.key", "ca.crt") /\ UNCHANGED <<ca, leaf, caChanged, current>>
SaveCACert == Write("ca.crt", "leaf") /\ ca' = Newest /\ caChanged' = TRUE /\ UNCHANGED <<leaf, current>>

\* leafStale.
Stale(l) ==
  \/ l = 0
  \/ pairs[l].by # ca
  \/ time >= pairs[l].made + LeafLife
  \/ pairs[l].lan # lan

LeavesKnown ==
  IF leaf # 0 THEN {leaf} ELSE IF caChanged THEN {0} ELSE {0, Loaded("server.crt", "server.key")}
CheckLeaf ==
  /\ stage = "leaf"
  /\ \E known \in LeavesKnown :
       IF Stale(known)
       THEN /\ Len(pairs) < MaxPairs
            /\ pairs' = NewPair(ca) /\ stage' = "server.key" /\ UNCHANGED <<leaf, current>>
       ELSE leaf' = known /\ current' = TRUE /\ stage' = "idle" /\ UNCHANGED pairs
  /\ UNCHANGED <<disk, ca, caChanged, unread>> /\ KeepWorld

SaveLeafKey == Write("server.key", "server.crt") /\ UNCHANGED <<ca, leaf, caChanged, current>>
SaveLeafCert ==
  Write("server.crt", "idle") /\ leaf' = Newest /\ current' = TRUE /\ UNCHANGED <<ca, caChanged>>

\* An error: at the start of the server it is fatal, later the previous
\* certificate stays in service.
RefreshFails ==
  /\ stage \in Files
  /\ stage' = IF leaf = 0 THEN "down" ELSE "idle"
  /\ ca' = IF leaf = 0 THEN 0 ELSE ca
  /\ UNCHANGED <<pairs, disk, leaf, caChanged, unread, current>> /\ KeepWorld

ServerDies ==
  /\ stage # "down" /\ stage' = "down" /\ ca' = 0 /\ leaf' = 0 /\ current' = FALSE
  /\ UNCHANGED <<pairs, disk, caChanged, unread>> /\ KeepWorld

-----------------------------------------------------------------------------
(* The world *)

\* CACertPEM, which waits for a Refresh in progress.
Install ==
  /\ stage = "idle" /\ devices # ca /\ devices' = ca
  /\ UNCHANGED <<stage, time, lan, pairs, disk, ca, leaf, caChanged, unread, current>>

TimePasses ==
  /\ stage \in {"down", "idle"} /\ time < MaxTime /\ time' = time + 1 /\ current' = FALSE
  /\ UNCHANGED <<stage, lan, pairs, disk, ca, leaf, caChanged, unread, devices>>
LanChanges ==
  /\ stage \in {"down", "idle"} /\ current' = FALSE
  /\ lan' = IF lan = "home" THEN "venue" ELSE "home"
  /\ UNCHANGED <<stage, time, pairs, disk, ca, leaf, caChanged, unread, devices>>

LocalNext ==
  \/ Refresh \/ SaveCAKey \/ SaveCACert \/ CheckLeaf \/ SaveLeafKey \/ SaveLeafCert
  \/ RefreshFails \/ ServerDies
  \/ Install \/ TimePasses \/ LanChanges

LocalSpec == LocalInit /\ [][LocalNext]_localVars

-----------------------------------------------------------------------------
(* loadProvided: each file is looked at, then each is read.  A version of a  *)
(* file has a stamp (time and size) of its own and goes with one key; 0 is   *)
(* no file.                                                                  *)

VARIABLES
  certFile, keyFile,  \* the versions on disk
  version,            \* the latest
  loading,            \* where loadProvided is
  stamps,             \* what it saw
  certRead,           \* the certificate it read
  served, fileStat    \* what is served and the stamps it was loaded after

providedVars == <<certFile, keyFile, version, loading, stamps, certRead, served, fileStat>>

NoStamps == <<0, 0>>

ProvidedInit ==
  /\ certFile = 1 /\ keyFile = 1 /\ version = 1
  /\ loading = "no" /\ stamps = NoStamps /\ certRead = 0 /\ served = 0 /\ fileStat = NoStamps

KeepFiles == UNCHANGED <<certFile, keyFile, version>>

\* The operator writes or removes a file; a new pair takes two writes.
WriteCertFile ==
  /\ certFile' \in {0, version, version + 1} \ {certFile}
  /\ certFile' <= MaxVersions
  /\ version' = IF certFile' > version THEN certFile' ELSE version
  /\ UNCHANGED <<keyFile, loading, stamps, certRead, served, fileStat>>
WriteKeyFile ==
  /\ keyFile' \in {0, version, version + 1} \ {keyFile}
  /\ keyFile' <= MaxVersions
  /\ version' = IF keyFile' > version THEN keyFile' ELSE version
  /\ UNCHANGED <<certFile, loading, stamps, certRead, served, fileStat>>

StatCert ==
  /\ loading = "no" /\ certFile # 0 /\ loading' = "statKey" /\ stamps' = <<certFile, 0>>
  /\ UNCHANGED <<certRead, served, fileStat>> /\ KeepFiles

\* The first load, at startup, does not compare.
StatKey ==
  /\ loading = "statKey"
  /\ stamps' = <<stamps[1], keyFile>>
  /\ loading' = IF keyFile = 0 \/ (served # 0 /\ stamps' = fileStat) THEN "no" ELSE "readCert"
  /\ UNCHANGED <<certRead, served, fileStat>> /\ KeepFiles

ReadCert ==
  /\ loading = "readCert" /\ certRead' = certFile
  /\ loading' = IF certFile = 0 THEN "no" ELSE "readKey"
  /\ UNCHANGED <<stamps, served, fileStat>> /\ KeepFiles

\* LoadX509KeyPair wants the certificate's key.  Mutant: the stamps are taken
\* after the files were read.
StampsAfter == <<certFile, keyFile>>
StampsKept == stamps
ReadKey ==
  /\ loading = "readKey" /\ loading' = "no"
  /\ IF keyFile = certRead THEN served' = certRead /\ fileStat' = StampsKept
     ELSE UNCHANGED <<served, fileStat>>
  /\ UNCHANGED <<stamps, certRead>> /\ KeepFiles

ProvidedNext ==
  WriteCertFile \/ WriteKeyFile \/ StatCert \/ StatKey \/ ReadCert \/ ReadKey

ProvidedSpec == ProvidedInit /\ [][ProvidedNext]_providedVars

-----------------------------------------------------------------------------
(* What holds *)

\* "devices must install it again" only when the CA they have is near its end or
\* its files, though whole, could not be read when the server last started: failed
\* and interrupted refreshes and restarts do not replace it before.  And after a
\* Refresh without an error the served certificate is signed by the CA that is
\* offered, for the addresses of now.
Relied(c) == c # 0 /\ ~NearEnd(c) /\ c \notin unread
TrustKept ==
  stage = "idle" =>
    /\ Relied(devices) => ca = devices
    /\ current => ~Stale(leaf) /\ ~NearEnd(ca)

\* "reloads the files when they change on disk": when the files have the stamps
\* of the pair that is served, they are that pair, so that no change that came
\* while they were read is missed.
ReloadMissesNothing ==
  served # 0 /\ fileStat = <<certFile, keyFile>> => certFile = served /\ keyFile = served

(* What the code says and does not hold *)

\* "The CA stays the same, so devices install it only once": one read that fails
\* at a start replaces a CA that is good for years, also on disk.
InstalledOnce == stage = "idle" /\ devices # 0 /\ ~NearEnd(devices) => ca = devices

\* "On error the previous certificate stays in service": the CA that is offered
\* is the one that signed it.
OfferedSigned == stage = "idle" => pairs[leaf].by = ca
=============================================================================
