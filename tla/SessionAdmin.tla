----------------------------- MODULE SessionAdmin -----------------------------
(***************************************************************************)
(* What admins do to sessions, glossaries and the settings, the UDP ports  *)
(* of SRT sessions, and the runs over SRT or from a file                   *)
(* (handlers/sessions.go, glossaries.go and settings.go over the store,    *)
(* audio/srt).  No lock is held from what a request reads to what it       *)
(* writes: each call is a step.  A run of a session is there or not;       *)
(* SessionManager has its steps.                                           *)
(***************************************************************************)
EXTENDS Integers, FiniteSets, FiniteSetsExt, Functions

CONSTANTS
  AdminRequests,  \* requests under way at once
  AdminSessions,  \* slugs
  Glossaries,     \* ids, which are random: a removed one is never made again
  NoGlossary,
  SrtPorts,       \* values of settings.srt.port
  DefaultPort,    \* srt.DefaultPort, 9000
  LastPort,       \* 65535
  MaxPorts,       \* srt.MaxPorts
  MaxAdminCalls   \* bound: requests

ASSUME SessionAdminAssumption ==
  /\ SrtPorts \subseteq Nat /\ DefaultPort \in SrtPorts
  /\ LastPort \in Nat /\ MaxPorts \in Nat /\ MaxAdminCalls \in Nat
  /\ NoGlossary \notin Glossaries

VARIABLES
  sessions,   \* the sessions table: slug -> its reference to a glossary
  library,    \* the glossaries there are
  settings,   \* settings.defaultGlossaryId
  srtPort,    \* settings.srt.port
  offsets,    \* srt.Service.offsets: slug -> port offset
  running,    \* sessions with a run -> the glossary it loaded and its source
  call,       \* request -> what it is about and where it is
  told,       \* slug -> the port in the last URL it was given, and the base of that port
  ended,      \* slugs and glossaries that were deleted
  asked       \* requests so far

sessionAdminVars == <<sessions, library, settings, srtPort, offsets, running, call, told, ended, asked>>

\* A reference, and whether its writer was under way when a glossary went.
Ref(g, late) == [glossary |-> g, late |-> late]
Dangling(ref) == ref.glossary \notin library \cup {NoGlossary}
NoRequest ==
  [op |-> "none", at |-> "idle", about |-> {}, g |-> NoGlossary, late |-> FALSE, port |-> DefaultPort]

\* Port base + its offset, from settings.srt.port as it was read.
ToldPort(f, s, base) == [port |-> base + f[s], base |-> base]
HasPort(f, s, base) == s \in DOMAIN f /\ base + f[s] <= LastPort

\* The server has just started, or has listed its sessions once: then each
\* has a port and was told its URL.
SessionAdminInit ==
  /\ sessions = [s \in AdminSessions |-> Ref(NoGlossary, FALSE)]
  /\ offsets \in {<<>>} \cup {f \in [AdminSessions -> 0 .. MaxPorts - 1] : IsInjective(f)}
  /\ srtPort \in SrtPorts /\ running = <<>>
  /\ told = [s \in {t \in DOMAIN offsets : HasPort(offsets, t, srtPort)} |-> ToldPort(offsets, s, srtPort)]
  /\ library \in SUBSET Glossaries
  /\ settings \in {Ref(g, FALSE) : g \in library \cup {NoGlossary}}
  /\ call = [r \in AdminRequests |-> NoRequest]
  /\ ended = {} /\ asked = 0

With(f, x, y) == [z \in DOMAIN f \cup {x} |-> IF z = x THEN y ELSE f[z]]
Drop(f, x) == [y \in DOMAIN f \ {x} |-> f[y]]
At(r, at) == call[r].at = at
To(r, at) == call' = [call EXCEPT ![r].at = at]
Answer(r) == call' = [call EXCEPT ![r] = NoRequest]
About(r) == CHOOSE s \in call[r].about : TRUE

KeepRows == UNCHANGED <<sessions, library, settings, srtPort, running, ended, asked>>
KeepPorts == UNCHANGED <<offsets, told>>

-----------------------------------------------------------------------------
(* Every request *)

FirstOf(op) ==
  CASE op \in {"create", "update", "settings"} -> "check"
    [] op = "file" -> "open"
    [] op = "stop" -> "stop"
    [] OTHER -> "read"

\* A request that validateSession lets through: it refuses others at once.
\* Requests are alike: one of those that are idle will do.
Ask(r, op, s, g, port) ==
  /\ At(r, "idle") /\ r = CHOOSE q \in AdminRequests : At(q, "idle")
  /\ asked < MaxAdminCalls /\ asked' = asked + 1
  /\ op \in {"create", "update", "settings", "compose", "detach"} \/ g = NoGlossary
  /\ op \in {"compose", "detach"} => g # NoGlossary
  /\ op # "settings" => port = DefaultPort
  /\ call' = [call EXCEPT ![r] = [op |-> op, at |-> FirstOf(op), g |-> g, late |-> FALSE, port |-> port,
                about |-> IF op \in {"settings", "list", "compose", "detach"} THEN {} ELSE {s}]]
  /\ UNCHANGED <<sessions, library, settings, srtPort, running, ended>> /\ KeepPorts

\* checkGlossaryRef: the request is refused, or goes on.
CheckGlossaryRef(r) ==
  /\ At(r, "check")
  /\ IF call[r].g \notin library \cup {NoGlossary} THEN Answer(r)
     ELSE To(r, CASE call[r].op = "create" -> "defaults" [] call[r].op = "update" -> "read"
                  [] OTHER -> "write")
  /\ KeepRows /\ KeepPorts

\* GetSession, or Manager.Status: 404 without the row.
ReadSession(r) ==
  /\ At(r, "read") /\ call[r].op \in {"get", "update", "delete", "start", "unfile"}
  /\ IF About(r) \notin DOMAIN sessions THEN Answer(r)
     ELSE To(r, CASE call[r].op = "get" -> "present" [] call[r].op = "update" -> "guard"
                  [] call[r].op = "delete" -> "forget" [] call[r].op = "unfile" -> "kind"
                  [] OTHER -> "open")
  /\ KeepRows /\ KeepPorts

\* An update of other fields keeps the glossary of the row it read.
ReadToRename(r) ==
  /\ At(r, "read") /\ call[r].op = "rename"
  /\ IF About(r) \notin DOMAIN sessions THEN Answer(r)
     ELSE LET ref == sessions[About(r)] IN
          call' = [call EXCEPT ![r].at = "write", ![r].g = ref.glossary, ![r].late = @ \/ ref.late]
  /\ KeepRows /\ KeepPorts

\* ListSessions: each row is presented.
ListSessions(r) ==
  /\ At(r, "read") /\ call[r].op = "list"
  /\ IF sessions = <<>> THEN Answer(r)
     ELSE call' = [call EXCEPT ![r].at = "present", ![r].about = DOMAIN sessions]
  /\ KeepRows /\ KeepPorts

-----------------------------------------------------------------------------
(* Ports *)

Used == {offsets[s] : s \in DOMAIN offsets}
\* Mutant: as many as are taken, which a release leaves behind.
FreeCounted == Cardinality(Used)
Free == Min((0 .. MaxPorts) \ Used)

\* Service.offset: -1, and so no URL, when all are taken.
Assigned(s) ==
  IF s \in DOMAIN offsets \/ Free >= MaxPorts THEN offsets ELSE With(offsets, s, Free)

\* config: what settings.srt.port is by then, or its default when the
\* settings cannot be read.  The port is made of it later.
ReadConfig(r, at, base) ==
  /\ base \in {srtPort, DefaultPort}
  /\ call' = [call EXCEPT ![r].at = at, ![r].port = base]

\* The next session of a list, or the answer.
Presented(r) ==
  IF Cardinality(call[r].about) > 1
  THEN call' = [call EXCEPT ![r].at = "present", ![r].about = @ \ {About(r)}] ELSE Answer(r)

\* present: no URL unless SRT is on and ffmpeg has it; nor for the users of
\* a removed glossary when the session is gone meanwhile.
Present(r, base) ==
  /\ At(r, "present")
  /\ ReadConfig(r, "tell", base) \/ Presented(r)
  /\ KeepRows /\ KeepPorts

\* IngestURL: none when no offset is left or the port would be above
\* LastPort, and then the offset is taken all the same.
IngestURL(r) ==
  LET s == About(r)  base == call[r].port IN
  /\ At(r, "tell")
  /\ offsets' = Assigned(s)
  /\ told' = IF HasPort(offsets', s, base) THEN With(told, s, ToldPort(offsets', s, base)) ELSE told
  /\ Presented(r)
  /\ KeepRows

\* DeleteSession after its row is gone; StreamCaptions has Forget.
Release(r) ==
  /\ At(r, "release")
  /\ offsets' = Drop(offsets, About(r))
  /\ Answer(r)
  /\ UNCHANGED told /\ KeepRows

-----------------------------------------------------------------------------
(* Sessions *)

\* sessionDefaults: the settings' glossary, which nothing checks.
Defaults(r) ==
  /\ At(r, "defaults")
  /\ call' = [call EXCEPT ![r].at = "insert",
                ![r].g = IF @ = NoGlossary THEN settings.glossary ELSE @,
                ![r].late = @ \/ (call[r].g = NoGlossary /\ settings.late)]
  /\ KeepRows /\ KeepPorts

\* CreateSession: a taken slug is a 409.
InsertSession(r) ==
  LET s == About(r) IN
  /\ At(r, "insert")
  /\ IF s \in DOMAIN sessions THEN Answer(r) /\ UNCHANGED sessions
     ELSE sessions' = With(sessions, s, Ref(call[r].g, call[r].late)) /\ To(r, "token")
  /\ UNCHANGED <<library, settings, srtPort, running, ended, asked>> /\ KeepPorts

\* RotateIngestToken: an error when the session is gone again.
IngestToken(r) ==
  /\ At(r, "token")
  /\ IF About(r) \in DOMAIN sessions THEN To(r, "present") ELSE Answer(r)
  /\ KeepRows /\ KeepPorts

\* UpdateSession: what a run reads at its start only changes while there is none.
Guard(r) ==
  /\ At(r, "guard")
  /\ IF About(r) \in DOMAIN running THEN Answer(r) ELSE To(r, "write")
  /\ KeepRows /\ KeepPorts

\* The whole row is replaced, by what was read and what the request sets.
WriteSession(r) ==
  LET s == About(r) IN
  /\ At(r, "write") /\ call[r].op \in {"rename", "update"}
  /\ IF s \notin DOMAIN sessions THEN Answer(r) /\ UNCHANGED sessions
     ELSE sessions' = With(sessions, s, Ref(call[r].g, call[r].late)) /\ To(r, "present")
  /\ UNCHANGED <<library, settings, srtPort, running, ended, asked>> /\ KeepPorts

\* Manager.Forget refuses a session with a run.
ForgetSession(r) ==
  /\ At(r, "forget")
  /\ IF About(r) \in DOMAIN running THEN Answer(r) ELSE To(r, "remove")
  /\ KeepRows /\ KeepPorts

DeleteSession(r) ==
  LET s == About(r) IN
  /\ At(r, "remove")
  /\ IF s \notin DOMAIN sessions THEN Answer(r) /\ UNCHANGED <<sessions, ended>>
     ELSE sessions' = Drop(sessions, s) /\ ended' = ended \cup {s} /\ To(r, "release")
  /\ UNCHANGED <<library, settings, srtPort, running, asked>> /\ KeepPorts

-----------------------------------------------------------------------------
(* Runs, over SRT or from a file *)

\* openSRT: refused while a run may hold the port, before it has one, or
\* when SRT is off.
OpenSRT(r, base) ==
  /\ At(r, "open") /\ call[r].op = "start"
  /\ \/ Answer(r)
     \/ About(r) \notin DOMAIN running /\ ReadConfig(r, "listen", base)
  /\ KeepRows /\ KeepPorts

\* Service.Open: it may also fail after the offset was assigned, as when
\* another program, or another session, has the port by then.
Open(r, fails) ==
  LET s == About(r) IN
  /\ At(r, "listen")
  /\ offsets' = Assigned(s)
  /\ IF fails \/ ~HasPort(offsets', s, call[r].port) THEN Answer(r) ELSE To(r, "start")
  /\ UNCHANGED told /\ KeepRows

\* StartFileSource: a file that is not there or not allowed is a 400, also
\* for a session that has a run, or no row.
OpenFileSource(r, fails) ==
  /\ At(r, "open") /\ call[r].op = "file"
  /\ IF fails THEN Answer(r) ELSE To(r, "start")
  /\ KeepRows /\ KeepPorts

\* Manager.Start reads the row, and refuses a session with a run.
StartRun(r) ==
  LET s == About(r) IN
  /\ At(r, "start")
  /\ running' = IF s \in DOMAIN sessions /\ s \notin DOMAIN running
                THEN With(running, s, [glossary |-> sessions[s].glossary, source |-> call[r].op])
                ELSE running
  /\ Answer(r)
  /\ UNCHANGED <<sessions, library, settings, srtPort, ended, asked>> /\ KeepPorts

\* StopFileSource: a 404 unless a file feeds the session.
CheckKind(r) ==
  LET s == About(r) IN
  /\ At(r, "kind")
  /\ IF s \in DOMAIN running /\ running[s].source = "file" THEN To(r, "stop") ELSE Answer(r)
  /\ KeepRows /\ KeepPorts

\* StopSession, and what is left of StopFileSource: Manager.Stop, up to the
\* end of whatever run the session has by now, if it has its row.
StopSession(r) ==
  LET s == About(r) IN
  /\ At(r, "stop")
  /\ running' = IF s \in DOMAIN sessions THEN Drop(running, s) ELSE running
  /\ Answer(r)
  /\ UNCHANGED <<sessions, library, settings, srtPort, ended, asked>> /\ KeepPorts

\* Its source ends, or fails.
RunEnds(s) ==
  /\ s \in DOMAIN running
  /\ running' = Drop(running, s)
  /\ UNCHANGED <<sessions, library, settings, srtPort, call, ended, asked>> /\ KeepPorts

-----------------------------------------------------------------------------
(* Glossaries and settings *)

\* Mutant: the settings' default is left alone.
DetachedRowsOnly(ref, g, default) ==
  IF ref.glossary = g /\ ~default THEN Ref(NoGlossary, FALSE) ELSE ref
Detached(ref, g, default) == IF ref.glossary = g THEN Ref(NoGlossary, FALSE) ELSE ref

\* DeleteGlossary lists its users, for the events after it.
ListUsers(r) ==
  /\ At(r, "read") /\ call[r].op = "detach"
  /\ call' = [call EXCEPT ![r].at = "detach",
                ![r].about = {s \in DOMAIN sessions : sessions[s].glossary = call[r].g}]
  /\ KeepRows /\ KeepPorts

\* normalizeGlossary: a name, a term or a list it does not take is a 400.
RefuseGlossary(r) ==
  /\ At(r, "read") /\ call[r].op = "compose"
  /\ Answer(r)
  /\ KeepRows /\ KeepPorts

\* CreateGlossary, under an id no other has had.
CreateGlossary(r) ==
  /\ At(r, "read") /\ call[r].op = "compose"
  /\ library' = library \cup ({call[r].g} \ ended)
  /\ Answer(r)
  /\ UNCHANGED <<sessions, settings, srtPort, running, ended, asked>> /\ KeepPorts

\* The store removes it, and every reference to it, in one transaction.
DeleteGlossary(r) ==
  LET g == call[r].g IN
  /\ At(r, "detach")
  /\ IF g \notin library THEN Answer(r) /\ UNCHANGED <<library, sessions, settings, ended>>
     ELSE /\ library' = library \ {g} /\ ended' = ended \cup {g}
          /\ sessions' = [s \in DOMAIN sessions |-> Detached(sessions[s], g, FALSE)]
          /\ settings' = Detached(settings, g, TRUE)
          /\ call' = [q \in AdminRequests |->
               IF q # r THEN [call[q] EXCEPT !.late = call[q].op # "none"]
               ELSE IF call[r].about = {} THEN NoRequest ELSE [call[r] EXCEPT !.at = "present"]]
  /\ UNCHANGED <<srtPort, running, asked>> /\ KeepPorts

\* validateSettings, of the body with its defaults filled in: a bad field is
\* a 400, whether or not its glossary is there.
RefuseSettings(r) ==
  /\ At(r, "check") /\ call[r].op = "settings"
  /\ Answer(r)
  /\ KeepRows /\ KeepPorts

\* UpdateSettings: the settings are replaced.
PutSettings(r) ==
  /\ At(r, "write") /\ call[r].op = "settings"
  /\ settings' = Ref(call[r].g, call[r].late) /\ srtPort' = call[r].port
  /\ Answer(r)
  /\ UNCHANGED <<sessions, library, running, ended, asked>> /\ KeepPorts

SessionAdminNext ==
  \/ \E r \in AdminRequests :
       \/ \E op \in {"create", "get", "rename", "update", "delete", "list", "start", "stop", "file", "unfile",
                     "settings", "compose", "detach"},
             s \in AdminSessions, g \in Glossaries \cup {NoGlossary}, port \in SrtPorts : Ask(r, op, s, g, port)
       \/ CheckGlossaryRef(r) \/ ReadSession(r) \/ Defaults(r) \/ InsertSession(r) \/ IngestToken(r)
       \/ \E base \in SrtPorts : Present(r, base) \/ OpenSRT(r, base)
       \/ \E fails \in BOOLEAN : Open(r, fails) \/ OpenFileSource(r, fails)
       \/ IngestURL(r)
       \/ ReadToRename(r) \/ Guard(r) \/ WriteSession(r) \/ ForgetSession(r) \/ DeleteSession(r) \/ Release(r)
       \/ StartRun(r) \/ CheckKind(r) \/ StopSession(r)
       \/ ListSessions(r) \/ CreateGlossary(r) \/ ListUsers(r) \/ DeleteGlossary(r) \/ PutSettings(r)
       \/ RefuseGlossary(r) \/ RefuseSettings(r)
  \/ \E s \in AdminSessions : RunEnds(s)

SessionAdminSpec == SessionAdminInit /\ [][SessionAdminNext]_sessionAdminVars

-----------------------------------------------------------------------------
(* What holds *)

\* A session that was never deleted has the offset its last URL was made
\* of, and no two sessions have the same, whatever others are created,
\* deleted and run: so under one settings.srt.port each keeps the port it
\* was told, and two are never told one.
PortsKept ==
  /\ \A s, t \in DOMAIN offsets : s # t => offsets[s] # offsets[t]
  /\ \A s \in DOMAIN offsets : offsets[s] < MaxPorts
  /\ \A s \in DOMAIN told \ ended : s \in DOMAIN offsets /\ told[s] = ToldPort(offsets, s, told[s].base)
  /\ \A s, t \in DOMAIN told \ ended :
       s # t /\ told[s].base = told[t].base => told[s].port # told[t].port

\* A session or the settings name a removed glossary only if the request
\* that wrote the reference was under way when it was removed.
RefsKnown ==
  /\ Dangling(settings) => settings.late
  /\ \A s \in DOMAIN sessions : Dangling(sessions[s]) => sessions[s].late

\* What admins do leaves ports and references whole.
SessionsKept == PortsKept /\ RefsKnown

\* Does not hold: UpdateSession checks for a run, and writes after it started.
RunHasItsRow ==
  \A s \in DOMAIN running \cap DOMAIN sessions :
    sessions[s].glossary \in {running[s].glossary, NoGlossary}

\* "A session keeps its port for the life of the process, so the URL in
\* SessionUrls.srtIngest doesn't change between runs" (audio/srt).  Does not
\* hold: the port is made of settings.srt.port as it is at each call, and
\* the settings are replaced without a restart.
PortForLife == [][\A s \in DOMAIN told \ ended : told'[s].port = told[s].port]_sessionAdminVars

\* "each session gets its own port" (audio/srt).  Does not hold: one was told
\* its port before settings.srt.port was changed, the other after.
ToldApart ==
  \A s, t \in DOMAIN told \ ended : s # t => told[s].port # told[t].port

\* Does not hold: when the file ends and another run starts between
\* StopFileSource's look at the kind and its Stop, that run is stopped.
FileStopsFile == [][\A r \in AdminRequests, s \in DOMAIN running :
  StopSession(r) /\ call[r].op = "unfile" /\ s = About(r) =>
    running[s].source = "file"]_sessionAdminVars

\* Does not hold: a request that read the row presents it after Release.
OffsetsAreOfSessions ==
  (\A r \in AdminRequests : At(r, "idle")) => DOMAIN offsets \subseteq DOMAIN sessions
=============================================================================
