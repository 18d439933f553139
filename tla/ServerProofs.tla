------------------------------ MODULE ServerProofs ------------------------------
(***************************************************************************)
(* What the parts of the server promise that share no state: SessionAdmin,  *)
(* for any sessions, glossaries, ports and requests that overlap;           *)
(* OverlayPresets, for any calls, names and numbers of presets; StoreOpen,  *)
(* for any programs, of any releases, that open the database and die;       *)
(* HardwareCheck, for any benchmarks, checks, failures and times;           *)
(* AppServer, for any requests, listeners, signals and failures; and        *)
(* ServerMetrics, for any requests, scrapes, families and bounds of buckets. *)
(***************************************************************************)
EXTENDS ServerParts, FiniteSetTheorems, SequenceTheorems, WellFoundedInduction, TLAPS

\* A set of numbers has a least one.
LEMMA LeastOfNat == ASSUME NEW T \in SUBSET Nat, T # {} PROVE \E x \in T : \A y \in T : x <= y
<1>1. PICK x \in T : \A y \in T : ~ (<<y, x>> \in OpToRel(<, Nat))
  BY WFMin, NatLessThanWellFounded
<1>2. \A y \in T : ~ (y < x)
  <2> SUFFICES ASSUME NEW y \in T, y < x PROVE FALSE
    OBVIOUS
  <2>1. <<y, x>> \in Nat \X Nat OBVIOUS
  <2>2. <<y, x>>[1] < <<y, x>>[2] OBVIOUS
  <2>3. <<y, x>> \in OpToRel(<, Nat) BY <2>1, <2>2 DEF OpToRel
  <2> QED BY <1>1, <2>3
<1>3. QED BY <1>2

-----------------------------------------------------------------------------
(* SessionAdmin *)

\* A request is idle or about something.
CallShaped(c) ==
  /\ c = [op |-> c.op, at |-> c.at, about |-> c.about, g |-> c.g, late |-> c.late, port |-> c.port]
  /\ c.late \in BOOLEAN /\ c.port \in SrtPorts
  /\ c.op = "none" => c.at = "idle"

CallsShaped ==
  /\ call = [r \in AdminRequests |-> call[r]]
  /\ \A r \in AdminRequests : CallShaped(call[r])

\* Only a session that is deleted loses its port.
PortsInv ==
  /\ \A s \in DOMAIN offsets : offsets[s] \in 0 .. MaxPorts - 1
  /\ \A s, t \in DOMAIN offsets : s # t => offsets[s] # offsets[t]
  /\ \A s \in DOMAIN told \ ended : s \in DOMAIN offsets /\ told[s] = ToldPort(offsets, s, told[s].base)
  /\ \A s \in DOMAIN told : told[s].base \in SrtPorts
  /\ \A r \in AdminRequests : At(r, "release") => About(r) \in ended

\* Past its check, and until it is written, a reference is held.
Holding(c) ==
  \/ c.at \in {"defaults", "insert", "write", "guard"}
  \/ c.at = "read" /\ c.op = "update"

Known(g, raced) == g \notin library \cup {NoGlossary} => raced

RefsInv ==
  /\ settings.late \in BOOLEAN /\ Known(settings.glossary, settings.late)
  /\ \A s \in DOMAIN sessions :
       sessions[s].late \in BOOLEAN /\ Known(sessions[s].glossary, sessions[s].late)
  /\ \A r \in AdminRequests : Holding(call[r]) => Known(call[r].g, call[r].late)

AdminInv == CallsShaped /\ PortsInv /\ RefsInv

LEMMA FreePort ==
  ASSUME PortsInv PROVE Free \in 0 .. MaxPorts /\ Free \notin Used
<1>1. MaxPorts \in Nat BY SessionAdminAssumption
<1> DEFINE T == (0 .. MaxPorts) \ Used
<1>2. Used \subseteq 0 .. MaxPorts - 1 BY DEF Used, PortsInv
<1>3. MaxPorts \in T /\ T \in SUBSET Nat BY <1>1, <1>2
<1>4. \E x \in T : \A y \in T : x <= y
  <2> HIDE DEF T
  <2> QED BY <1>3, LeastOfNat
<1>5. Free \in T BY <1>4 DEF Free, Min
<1> QED BY <1>5

\* A port is assigned to one more session at most, and is its own.
LEMMA AssignedOne ==
  ASSUME PortsInv, NEW s
  PROVE  /\ DOMAIN offsets \subseteq DOMAIN Assigned(s)
         /\ \A t \in DOMAIN offsets : Assigned(s)[t] = offsets[t]
         /\ \A t \in DOMAIN Assigned(s) : Assigned(s)[t] \in 0 .. MaxPorts - 1
         /\ \A t, u \in DOMAIN Assigned(s) : t # u => Assigned(s)[t] # Assigned(s)[u]
<1>1. CASE s \in DOMAIN offsets \/ Free >= MaxPorts BY <1>1 DEF Assigned, PortsInv
<1>2. CASE ~ (s \in DOMAIN offsets \/ Free >= MaxPorts)
  <2>1. Assigned(s) = [z \in DOMAIN offsets \cup {s} |-> IF z = s THEN Free ELSE offsets[z]]
    BY <1>2 DEF Assigned, With
  <2>2. MaxPorts \in Nat /\ Free \in 0 .. MaxPorts - 1 /\ \A t \in DOMAIN offsets : offsets[t] # Free
    BY <1>2, FreePort, SessionAdminAssumption DEF Used
  <2>3. s \notin DOMAIN offsets BY <1>2
  <2> QED BY ONLY <2>1, <2>2, <2>3, PortsInv DEF PortsInv
<1> QED BY <1>1, <1>2

\* What is left when the ports stay, and no request comes to its release.
LEMMA PortsStay ==
  ASSUME PortsInv, KeepPorts, ended \subseteq ended',
         \A q \in AdminRequests : At(q, "release")' => At(q, "release") /\ About(q)' = About(q)
  PROVE  PortsInv'
BY DEF PortsInv, KeepPorts

LEMMA AdminInitInv == ASSUME SessionAdminInit PROVE AdminInv
<1>1. MaxPorts \in Nat BY SessionAdminAssumption
<1>2. CallsShaped BY SessionAdminAssumption DEF SessionAdminInit, CallsShaped, CallShaped, NoRequest
<1>3. PortsInv
  <2>1. \A s \in DOMAIN offsets : offsets[s] \in 0 .. MaxPorts - 1 BY DEF SessionAdminInit
  <2>2. \A s, t \in DOMAIN offsets : s # t => offsets[s] # offsets[t] BY DEF SessionAdminInit, IsInjective
  <2>3. told = [s \in {t \in DOMAIN offsets : HasPort(offsets, t, srtPort)} |-> ToldPort(offsets, s, srtPort)]
    BY DEF SessionAdminInit
  <2>4. \A s \in DOMAIN told \ ended : s \in DOMAIN offsets /\ told[s] = ToldPort(offsets, s, told[s].base)
    BY <2>3 DEF ToldPort
  <2>5. \A s \in DOMAIN told : told[s].base \in SrtPorts BY <2>3 DEF SessionAdminInit, ToldPort
  <2> QED BY <2>1, <2>2, <2>4, <2>5 DEF SessionAdminInit, PortsInv, At, NoRequest
<1>4. RefsInv
  <2>1. settings.late = FALSE /\ settings.glossary \in library \cup {NoGlossary} BY DEF SessionAdminInit, Ref
  <2>2. \A s \in DOMAIN sessions : sessions[s].late = FALSE /\ sessions[s].glossary = NoGlossary
    BY DEF SessionAdminInit, Ref
  <2>3. \A r \in AdminRequests : ~Holding(call[r]) BY DEF SessionAdminInit, Holding, NoRequest
  <2> QED BY <2>1, <2>2, <2>3 DEF RefsInv, Known
<1> QED BY <1>2, <1>3, <1>4 DEF AdminInv

\* A step of one request that leaves the ports, the references and what there is.
LEMMA OneGoesOn ==
  ASSUME AdminInv, NEW r \in AdminRequests, NEW c, CallShaped(c),
         call' = [call EXCEPT ![r] = c], c.at # "release",
         Holding(c) => Known(c.g, c.late)
  PROVE  /\ CallsShaped'
         /\ \A q \in AdminRequests : At(q, "release")' => At(q, "release") /\ About(q)' = About(q)
         /\ \A q \in AdminRequests : Holding(call'[q]) => Known(call'[q].g, call'[q].late)
<1>1. call'[r] = c /\ \A q \in AdminRequests : q # r => call'[q] = call[q] BY DEF AdminInv, CallsShaped
<1>2. CallsShaped'
  <2>1. call' = [q \in AdminRequests |-> call'[q]] BY DEF AdminInv, CallsShaped
  <2> QED BY <1>1, <2>1 DEF AdminInv, CallsShaped, CallShaped
<1>3. \A q \in AdminRequests : At(q, "release")' => At(q, "release") /\ About(q)' = About(q)
  BY <1>1 DEF At, About
<1> QED BY <1>1, <1>2, <1>3 DEF AdminInv, RefsInv

CallsWell ==
  /\ CallsShaped'
  /\ \A q \in AdminRequests : At(q, "release")' => At(q, "release") /\ About(q)' = About(q)
  /\ \A q \in AdminRequests : Holding(call'[q]) => Known(call'[q].g, call'[q].late)

LEMMA Answered == ASSUME AdminInv, NEW r \in AdminRequests, Answer(r) PROVE CallsWell
<1>1. CallShaped(NoRequest) BY SessionAdminAssumption DEF CallShaped, NoRequest
<1>2. NoRequest.at # "release" /\ ~Holding(NoRequest) BY DEF Holding, NoRequest
<1>3. call' = [call EXCEPT ![r] = NoRequest] BY DEF Answer
<1> QED BY ONLY <1>1, <1>2, <1>3, AdminInv, r \in AdminRequests, OneGoesOn DEF CallsWell

LEMMA Moved ==
  ASSUME AdminInv, NEW r \in AdminRequests, NEW at, To(r, at), at # "release", call[r].op # "none",
         at \in {"defaults", "insert", "write", "guard"} \/ (at = "read" /\ call[r].op = "update")
           => Known(call[r].g, call[r].late)
  PROVE  CallsWell
<1> DEFINE c == [call[r] EXCEPT !.at = at]
<1>1. CallShaped(call[r]) /\ r \in DOMAIN call BY DEF AdminInv, CallsShaped
<1>2. c = [op |-> call[r].op, at |-> at, about |-> call[r].about, g |-> call[r].g, late |-> call[r].late,
          port |-> call[r].port]
  BY <1>1 DEF CallShaped
<1>3. CallShaped(c) /\ c.at # "release" /\ (Holding(c) => Known(c.g, c.late))
  BY <1>1, <1>2 DEF CallShaped, Holding
<1>4. call' = [call EXCEPT ![r] = c] BY <1>1 DEF To
<1> HIDE DEF c
<1> QED BY ONLY <1>3, <1>4, AdminInv, r \in AdminRequests, OneGoesOn DEF CallsWell

\* A step of a request that changes neither the rows nor the ports.
LEMMA Looks ==
  ASSUME AdminInv, CallsWell, UNCHANGED <<sessions, library, settings, ended>>, KeepPorts PROVE AdminInv'
<1>1. ended \subseteq ended' OBVIOUS
<1>2. PortsInv' BY ONLY <1>1, CallsWell, KeepPorts, AdminInv, PortsStay DEF CallsWell, AdminInv
<1>3. RefsInv' BY DEF AdminInv, RefsInv, Known, CallsWell
<1> QED BY <1>2, <1>3 DEF AdminInv, CallsWell

LEMMA AskInv ==
  ASSUME AdminInv, NEW r \in AdminRequests,
         NEW op \in {"create", "get", "rename", "update", "delete", "list", "start", "stop", "file", "unfile",
                     "settings", "compose", "detach"},
         NEW s \in AdminSessions, NEW g \in Glossaries \cup {NoGlossary}, NEW port \in SrtPorts,
         Ask(r, op, s, g, port)
  PROVE  AdminInv'
<1> DEFINE c == [op |-> op, at |-> FirstOf(op), g |-> g, late |-> FALSE, port |-> port,
                about |-> IF op \in {"settings", "list", "compose", "detach"} THEN {} ELSE {s}]
<1>1. call' = [call EXCEPT ![r] = c] BY DEF Ask
<1>2. /\ FirstOf(op) \in {"check", "open", "stop", "read"}
      /\ op = "update" => FirstOf(op) = "check" BY DEF FirstOf
<1>3. CallShaped(c) BY DEF CallShaped
<1>4. c.at # "release" /\ ~Holding(c) BY <1>2 DEF Holding
<1> HIDE DEF c
<1>5. CallsWell BY ONLY <1>1, <1>3, <1>4, AdminInv, r \in AdminRequests, OneGoesOn DEF CallsWell
<1>6. ended \subseteq ended' /\ KeepPorts BY DEF Ask
<1>7. PortsInv' BY ONLY <1>5, <1>6, AdminInv, PortsStay DEF CallsWell, AdminInv
<1>8. RefsInv' BY <1>5 DEF AdminInv, RefsInv, Known, Ask, CallsWell
<1> QED BY <1>5, <1>7, <1>8 DEF AdminInv, CallsWell

\* The steps that look something up, and go on or answer.
LEMMA LookInv ==
  ASSUME AdminInv, NEW r \in AdminRequests,
         \/ CheckGlossaryRef(r) \/ ReadSession(r) \/ IngestToken(r) \/ Guard(r) \/ ForgetSession(r)
         \/ (\E on \in BOOLEAN : OpenFileSource(r, on)) \/ CheckKind(r)
         \/ RefuseGlossary(r) \/ RefuseSettings(r)
  PROVE  AdminInv'
<1>0. call[r].at # "idle" => call[r].op # "none" BY DEF AdminInv, CallsShaped, CallShaped
<1>1. CallsWell
  <2>1. CASE CheckGlossaryRef(r)
    <3>1. CASE call[r].g \notin library \cup {NoGlossary}
      <4>1. Answer(r) BY <2>1, <3>1 DEF CheckGlossaryRef
      <4> QED BY <4>1, Answered
    <3>2. CASE call[r].g \in library \cup {NoGlossary}
      <4>1. PICK at \in {"defaults", "read", "write"} : To(r, at) BY <2>1, <3>2 DEF CheckGlossaryRef
      <4>2. Known(call[r].g, call[r].late) BY <3>2 DEF Known
      <4>3. call[r].op # "none" BY <1>0, <2>1 DEF CheckGlossaryRef, At
      <4> QED BY ONLY <4>1, <4>2, <4>3, AdminInv, r \in AdminRequests, Moved
    <3> QED BY <3>1, <3>2
  <2>2. CASE ReadSession(r)
    <3>1. CASE Answer(r) BY <3>1, Answered
    <3>2. CASE ~Answer(r)
      <4>1. PICK at \in {"present", "guard", "forget", "kind", "open"} :
              To(r, at) /\ (at = "guard" => call[r].op = "update")
        BY <2>2, <3>2 DEF ReadSession
      <4>2. call[r].at = "read" /\ call[r].op # "none" BY <1>0, <2>2 DEF ReadSession, At
      <4>3. at = "guard" => Known(call[r].g, call[r].late)
        BY <4>1, <4>2 DEF AdminInv, RefsInv, Holding
      <4> QED BY ONLY <4>1, <4>2, <4>3, AdminInv, r \in AdminRequests, Moved
    <3> QED BY <3>1, <3>2
  <2>3. CASE IngestToken(r)
    <3>1. CASE Answer(r) BY <3>1, Answered
    <3>2. CASE ~Answer(r)
      <4>1. To(r, "present") /\ call[r].op # "none" BY <1>0, <2>3, <3>2 DEF IngestToken, At
      <4> QED BY ONLY <4>1, AdminInv, r \in AdminRequests, Moved
    <3> QED BY <3>1, <3>2
  <2>4. CASE Guard(r)
    <3>1. CASE Answer(r) BY <3>1, Answered
    <3>2. CASE ~Answer(r)
      <4>1. To(r, "write") /\ call[r].op # "none" BY <1>0, <2>4, <3>2 DEF Guard, At
      <4>2. Known(call[r].g, call[r].late) BY <2>4 DEF Guard, At, AdminInv, RefsInv, Holding
      <4> QED BY ONLY <4>1, <4>2, AdminInv, r \in AdminRequests, Moved
    <3> QED BY <3>1, <3>2
  <2>5. CASE ForgetSession(r)
    <3>1. CASE Answer(r) BY <3>1, Answered
    <3>2. CASE ~Answer(r)
      <4>1. To(r, "remove") /\ call[r].op # "none" BY <1>0, <2>5, <3>2 DEF ForgetSession, At
      <4> QED BY ONLY <4>1, AdminInv, r \in AdminRequests, Moved
    <3> QED BY <3>1, <3>2
  <2>6. CASE \E on \in BOOLEAN : OpenFileSource(r, on)
    <3>1. CASE Answer(r) BY <3>1, Answered
    <3>2. CASE ~Answer(r)
      <4>1. To(r, "start") /\ call[r].op # "none" BY <1>0, <2>6, <3>2 DEF OpenFileSource, At
      <4> QED BY ONLY <4>1, AdminInv, r \in AdminRequests, Moved
    <3> QED BY <3>1, <3>2
  <2>7. CASE CheckKind(r)
    <3>1. CASE Answer(r) BY <3>1, Answered
    <3>2. CASE ~Answer(r)
      <4>1. To(r, "stop") /\ call[r].op # "none" BY <1>0, <2>7, <3>2 DEF CheckKind, At
      <4> QED BY ONLY <4>1, AdminInv, r \in AdminRequests, Moved
    <3> QED BY <3>1, <3>2
  <2>8. CASE RefuseGlossary(r) \/ RefuseSettings(r)
    <3>1. Answer(r) BY <2>8 DEF RefuseGlossary, RefuseSettings
    <3> QED BY <3>1, Answered
  <2> QED BY <2>1, <2>2, <2>3, <2>4, <2>5, <2>6, <2>7, <2>8
<1>2. UNCHANGED <<sessions, library, settings, ended>> /\ KeepPorts
  BY DEF KeepRows, CheckGlossaryRef, ReadSession, IngestToken, Guard, ForgetSession, OpenFileSource, CheckKind,
         RefuseGlossary, RefuseSettings
<1> QED BY ONLY <1>1, <1>2, AdminInv, Looks

\* A call that goes on with another reference, or with other sessions.
LEMMA Changed ==
  ASSUME AdminInv, NEW r \in AdminRequests,
         call' = [q \in AdminRequests |-> call'[q]], \A q \in AdminRequests : q # r => call'[q] = call[q],
         CallShaped(call'[r]), ~ (call'[r].at \in {"release", "read"}),
         Holding(call'[r]) => Known(call'[r].g, call'[r].late)
  PROVE  CallsWell
<1>1. CallsShaped' BY DEF AdminInv, CallsShaped, CallShaped
<1>2. \A q \in AdminRequests : At(q, "release")' => At(q, "release") /\ About(q)' = About(q)
  BY DEF At, About
<1>3. \A q \in AdminRequests : Holding(call'[q]) => Known(call'[q].g, call'[q].late)
  BY DEF AdminInv, RefsInv
<1> QED BY <1>1, <1>2, <1>3 DEF CallsWell

LEMMA ReadsInv ==
  ASSUME AdminInv, NEW r \in AdminRequests, Defaults(r) \/ ReadToRename(r) \/ ListSessions(r) \/ ListUsers(r)
  PROVE  AdminInv'
<1>0. call[r].at # "idle" => call[r].op # "none" BY DEF AdminInv, CallsShaped, CallShaped
<1>s. /\ r \in DOMAIN call /\ call[r].late \in BOOLEAN /\ call[r].port \in SrtPorts
      /\ call[r] = [op |-> call[r].op, at |-> call[r].at, about |-> call[r].about,
                     g |-> call[r].g, late |-> call[r].late, port |-> call[r].port]
  BY DEF AdminInv, CallsShaped, CallShaped
<1>c. call = [q \in AdminRequests |-> call[q]] BY DEF AdminInv, CallsShaped
<1>1. CallsWell
  <2>1. CASE Defaults(r)
    <3> DEFINE g == IF call[r].g = NoGlossary THEN settings.glossary ELSE call[r].g
               raced == call[r].late \/ (call[r].g = NoGlossary /\ settings.late)
    <3>1. /\ call' = [q \in AdminRequests |-> call'[q]] /\ \A q \in AdminRequests : q # r => call'[q] = call[q]
          /\ call'[r] = [op |-> call[r].op, at |-> "insert", about |-> call[r].about, g |-> g, late |-> raced,
                         port |-> call[r].port]
      BY ONLY <1>s, <1>c, <2>1 DEF Defaults
    <3>2. Known(g, raced)
      <4>1. Known(settings.glossary, settings.late) /\ settings.late \in BOOLEAN BY DEF AdminInv, RefsInv
      <4>2. Known(call[r].g, call[r].late) BY <2>1 DEF Defaults, At, AdminInv, RefsInv, Holding
      <4> QED BY ONLY <1>s, <4>1, <4>2 DEF Known
    <3>3. call[r].op # "none" /\ raced \in BOOLEAN BY <1>0, <2>1 DEF Defaults, At
    <3> HIDE DEF g, raced
    <3>4. CallShaped(call'[r]) /\ call'[r].at = "insert" /\ Known(call'[r].g, call'[r].late)
      BY ONLY <1>s, <3>1, <3>2, <3>3 DEF CallShaped
    <3>5. ~ (call'[r].at \in {"release", "read"}) BY ONLY <3>4
    <3> QED BY ONLY <3>1, <3>4, <3>5, AdminInv, r \in AdminRequests, Changed
  <2>2. CASE ReadToRename(r)
    <3>1. CASE Answer(r) BY <3>1, Answered
    <3>2. CASE ~Answer(r)
      <4> DEFINE ref == sessions[About(r)]
                 raced == call[r].late \/ ref.late
      <4>1. About(r) \in DOMAIN sessions BY <2>2, <3>2 DEF ReadToRename
      <4>2. /\ call' = [q \in AdminRequests |-> call'[q]] /\ \A q \in AdminRequests : q # r => call'[q] = call[q]
            /\ call'[r] = [op |-> call[r].op, at |-> "write", about |-> call[r].about,
                           g |-> ref.glossary, late |-> raced, port |-> call[r].port]
        <5>1. call' = [call EXCEPT ![r].at = "write", ![r].g = ref.glossary, ![r].late = @ \/ ref.late]
          BY <2>2, <4>1 DEF ReadToRename
        <5> HIDE DEF ref
        <5> QED BY ONLY <1>s, <1>c, <5>1
      <4>3. Known(ref.glossary, raced) /\ raced \in BOOLEAN BY <1>s, <4>1 DEF AdminInv, RefsInv, Known
      <4>4. call[r].op # "none" BY <1>0, <2>2 DEF ReadToRename, At
      <4> HIDE DEF ref, raced
      <4>5. CallShaped(call'[r]) /\ call'[r].at = "write" /\ Known(call'[r].g, call'[r].late)
        BY ONLY <1>s, <4>2, <4>3, <4>4 DEF CallShaped
      <4>6. ~ (call'[r].at \in {"release", "read"}) BY ONLY <4>5
      <4> QED BY ONLY <4>2, <4>5, <4>6, AdminInv, r \in AdminRequests, Changed
    <3> QED BY <3>1, <3>2
  <2>3. CASE ListSessions(r)
    <3>1. CASE Answer(r) BY <3>1, Answered
    <3>2. CASE ~Answer(r)
      <4> DEFINE rows == DOMAIN sessions
      <4>1. /\ call' = [q \in AdminRequests |-> call'[q]] /\ \A q \in AdminRequests : q # r => call'[q] = call[q]
            /\ call'[r] = [op |-> call[r].op, at |-> "present", about |-> rows,
                           g |-> call[r].g, late |-> call[r].late, port |-> call[r].port]
        <5>1. call' = [call EXCEPT ![r].at = "present", ![r].about = rows] BY <2>3, <3>2 DEF ListSessions
        <5> HIDE DEF rows
        <5> QED BY ONLY <1>s, <1>c, <5>1
      <4>2. call[r].op # "none" BY <1>0, <2>3 DEF ListSessions, At
      <4> HIDE DEF rows
      <4>3. CallShaped(call'[r]) /\ call'[r].at = "present" BY ONLY <1>s, <4>1, <4>2 DEF CallShaped
      <4>4. ~ (call'[r].at \in {"release", "read"}) /\ ~Holding(call'[r]) BY ONLY <4>3 DEF Holding
      <4> QED BY ONLY <4>1, <4>3, <4>4, AdminInv, r \in AdminRequests, Changed
    <3> QED BY <3>1, <3>2
  <2>4. CASE ListUsers(r)
    <3> DEFINE users == {s \in DOMAIN sessions : sessions[s].glossary = call[r].g}
    <3>1. /\ call' = [q \in AdminRequests |-> call'[q]] /\ \A q \in AdminRequests : q # r => call'[q] = call[q]
          /\ call'[r] = [op |-> call[r].op, at |-> "detach", about |-> users,
                         g |-> call[r].g, late |-> call[r].late, port |-> call[r].port]
      <4>1. call' = [call EXCEPT ![r].at = "detach", ![r].about = users] BY <2>4 DEF ListUsers
      <4> HIDE DEF users
      <4> QED BY ONLY <1>s, <1>c, <4>1
    <3>2. call[r].op # "none" BY <1>0, <2>4 DEF ListUsers, At
    <3> HIDE DEF users
    <3>3. CallShaped(call'[r]) /\ call'[r].at = "detach" BY ONLY <1>s, <3>1, <3>2 DEF CallShaped
    <3>4. ~ (call'[r].at \in {"release", "read"}) /\ ~Holding(call'[r]) BY ONLY <3>3 DEF Holding
    <3> QED BY ONLY <3>1, <3>3, <3>4, AdminInv, r \in AdminRequests, Changed
  <2> QED BY <2>1, <2>2, <2>3, <2>4
<1>2. UNCHANGED <<sessions, library, settings, ended>> /\ KeepPorts
  BY DEF KeepRows, Defaults, ReadToRename, ListSessions, ListUsers
<1> QED BY ONLY <1>1, <1>2, AdminInv, Looks

\* A run starts, is stopped or ends.
LEMMA RunInv ==
  ASSUME AdminInv, (\E r \in AdminRequests : StartRun(r) \/ StopSession(r)) \/ (\E s \in AdminSessions : RunEnds(s))
  PROVE  AdminInv'
<1>1. UNCHANGED <<sessions, library, settings, ended>> /\ KeepPorts BY DEF StartRun, StopSession, RunEnds
<1>2. CASE \E r \in AdminRequests : StartRun(r) \/ StopSession(r)
  <2>1. PICK r \in AdminRequests : Answer(r) BY <1>2 DEF StartRun, StopSession
  <2>2. CallsWell BY ONLY <2>1, AdminInv, Answered
  <2> QED BY ONLY <1>1, <2>2, AdminInv, Looks
<1>3. CASE \E s \in AdminSessions : RunEnds(s)
  <2>1. call' = call BY <1>3 DEF RunEnds
  <2>2. CallsWell BY <2>1 DEF CallsWell, AdminInv, CallsShaped, CallShaped, RefsInv, At, About
  <2> QED BY ONLY <1>1, <2>2, AdminInv, Looks
<1> QED BY <1>2, <1>3

\* A URL is told, or a run is to be opened: a session may get its port.
LEMMA PortGiven ==
  ASSUME AdminInv, CallsWell, NEW s, offsets' \in {offsets, Assigned(s)},
         NEW base \in SrtPorts,
         UNCHANGED told \/ (s \in DOMAIN offsets' /\ told' = With(told, s, ToldPort(offsets', s, base))),
         UNCHANGED <<sessions, library, settings, ended>>
  PROVE  AdminInv'
<1>1. PortsInv BY DEF AdminInv
<1>2. /\ DOMAIN offsets \subseteq DOMAIN offsets'
      /\ \A t \in DOMAIN offsets : offsets'[t] = offsets[t]
      /\ \A t \in DOMAIN offsets' : offsets'[t] \in 0 .. MaxPorts - 1
      /\ \A t, u \in DOMAIN offsets' : t # u => offsets'[t] # offsets'[u]
  <2>1. CASE offsets' = offsets BY <1>1, <2>1 DEF PortsInv
  <2>2. CASE offsets' = Assigned(s) BY ONLY <1>1, <2>2, AssignedOne
  <2> QED BY <2>1, <2>2
<1>3. \A t \in DOMAIN told' \ ended' : t \in DOMAIN offsets' /\ told'[t] = ToldPort(offsets', t, told'[t].base)
  BY <1>1, <1>2 DEF PortsInv, With, ToldPort
<1>7. \A t \in DOMAIN told' : told'[t].base \in SrtPorts BY <1>1 DEF PortsInv, With, ToldPort
<1>4. \A r \in AdminRequests : At(r, "release")' => About(r)' \in ended'
  BY <1>1 DEF PortsInv, CallsWell
<1>5. PortsInv' BY ONLY <1>2, <1>3, <1>4, <1>7, MaxPorts' = MaxPorts, SrtPorts' = SrtPorts DEF PortsInv
<1>6. RefsInv' BY DEF AdminInv, RefsInv, Known, CallsWell
<1> QED BY <1>5, <1>6 DEF AdminInv, CallsWell

\* What a request read of the settings goes with it.
LEMMA ConfigRead ==
  ASSUME AdminInv, NEW r \in AdminRequests, NEW at \in {"tell", "listen"}, NEW base \in SrtPorts,
         ReadConfig(r, at, base),
         call[r].op # "none"
  PROVE  CallsWell
<1>1. /\ r \in DOMAIN call /\ call[r].late \in BOOLEAN /\ call[r].port \in SrtPorts /\ call = [q \in AdminRequests |-> call[q]]
      /\ call[r] = [op |-> call[r].op, at |-> call[r].at, about |-> call[r].about,
                     g |-> call[r].g, late |-> call[r].late, port |-> call[r].port]
  BY DEF AdminInv, CallsShaped, CallShaped
<1>2. call' = [call EXCEPT ![r].at = at, ![r].port = base] BY DEF ReadConfig
<1>3. /\ call' = [q \in AdminRequests |-> call'[q]] /\ \A q \in AdminRequests : q # r => call'[q] = call[q]
      /\ call'[r] = [op |-> call[r].op, at |-> at, about |-> call[r].about,
                     g |-> call[r].g, late |-> call[r].late, port |-> base]
  BY ONLY <1>1, <1>2
<1>4. CallShaped(call'[r]) /\ call'[r].at = at
  BY ONLY <1>1, <1>3, call[r].op # "none", base \in SrtPorts, at \in {"tell", "listen"} DEF CallShaped
<1>5. ~ (call'[r].at \in {"release", "read"}) /\ ~Holding(call'[r])
  BY ONLY <1>4, at \in {"tell", "listen"} DEF Holding
<1> QED BY ONLY <1>3, <1>4, <1>5, AdminInv, r \in AdminRequests, Changed

LEMMA PresentedWell ==
  ASSUME AdminInv, NEW r \in AdminRequests, Presented(r), call[r].at # "idle" PROVE CallsWell
<1>1. CASE Answer(r) BY <1>1, Answered
<1>2. CASE ~Answer(r)
  <2>1. call' = [call EXCEPT ![r].at = "present", ![r].about = @ \ {About(r)}]
    BY <1>2 DEF Presented
  <2>2. /\ r \in DOMAIN call /\ call[r].late \in BOOLEAN /\ call[r].port \in SrtPorts /\ call[r].op # "none"
        /\ call[r] = [op |-> call[r].op, at |-> call[r].at, about |-> call[r].about,
                       g |-> call[r].g, late |-> call[r].late, port |-> call[r].port]
    BY DEF AdminInv, CallsShaped, CallShaped
  <2>3. PICK rest : rest = call[r].about \ {About(r)} OBVIOUS
  <2>c. call = [q \in AdminRequests |-> call[q]] BY DEF AdminInv, CallsShaped
  <2>4. /\ call' = [q \in AdminRequests |-> call'[q]] /\ \A q \in AdminRequests : q # r => call'[q] = call[q]
        /\ call'[r] = [op |-> call[r].op, at |-> "present", about |-> rest,
                       g |-> call[r].g, late |-> call[r].late, port |-> call[r].port]
    BY ONLY <2>1, <2>2, <2>3, <2>c
  <2>5. CallShaped(call'[r]) /\ call'[r].at = "present" BY ONLY <2>2, <2>4 DEF CallShaped
  <2>6. ~ (call'[r].at \in {"release", "read"}) /\ ~Holding(call'[r]) BY ONLY <2>5 DEF Holding
  <2> QED BY ONLY <2>4, <2>5, <2>6, AdminInv, r \in AdminRequests, Changed
<1> QED BY <1>1, <1>2

LEMMA PresentInv ==
  ASSUME AdminInv, NEW r \in AdminRequests, NEW base \in SrtPorts, Present(r, base) \/ OpenSRT(r, base) PROVE AdminInv'
<1>1. call[r].at # "idle" /\ call[r].op # "none"
  BY DEF AdminInv, CallsShaped, CallShaped, Present, OpenSRT, At
<1>2. UNCHANGED <<sessions, library, settings, ended>> /\ KeepPorts BY DEF Present, OpenSRT, KeepRows
<1>3. CallsWell
  <2>1. Presented(r) \/ Answer(r) \/ ReadConfig(r, "tell", base) \/ ReadConfig(r, "listen", base)
    BY DEF Present, OpenSRT
  <2>2. "tell" \in {"tell", "listen"} /\ "listen" \in {"tell", "listen"} OBVIOUS
  <2> QED BY ONLY <1>1, <2>1, <2>2, AdminInv, r \in AdminRequests, base \in SrtPorts,
          Answered, PresentedWell, ConfigRead
<1> QED BY ONLY <1>2, <1>3, AdminInv, Looks

LEMMA IngestURLInv == ASSUME AdminInv, NEW r \in AdminRequests, IngestURL(r) PROVE AdminInv'
<1>1. Presented(r) /\ call[r].at # "idle" BY DEF IngestURL, At
<1>2. CallsWell BY ONLY <1>1, AdminInv, r \in AdminRequests, PresentedWell
<1>3. UNCHANGED <<sessions, library, settings, ended>> BY DEF IngestURL, KeepRows
<1>4. PICK s : s = About(r) OBVIOUS
<1>0. PICK base \in SrtPorts : base = call[r].port BY DEF AdminInv, CallsShaped, CallShaped
<1>5. offsets' \in {offsets, Assigned(s)} BY <1>4 DEF IngestURL
<1>6. UNCHANGED told \/ (s \in DOMAIN offsets' /\ told' = With(told, s, ToldPort(offsets', s, base)))
  BY <1>0, <1>4 DEF IngestURL, HasPort
<1> QED BY ONLY <1>0, <1>2, <1>3, <1>5, <1>6, AdminInv, PortGiven

LEMMA OpenPortInv == ASSUME AdminInv, NEW r \in AdminRequests, NEW fails \in BOOLEAN, Open(r, fails) PROVE AdminInv'
<1>1. CallsWell
  <2>1. CASE Answer(r) BY <2>1, Answered
  <2>2. CASE ~Answer(r)
    <3>1. To(r, "start") /\ call[r].op # "none"
      BY <2>2 DEF Open, At, AdminInv, CallsShaped, CallShaped
    <3> QED BY ONLY <3>1, AdminInv, r \in AdminRequests, Moved
  <2> QED BY <2>1, <2>2
<1>2. PICK s : s = About(r) OBVIOUS
<1>3. UNCHANGED told /\ UNCHANGED <<sessions, library, settings, ended>> BY DEF Open, KeepRows
<1>4. offsets' \in {offsets, Assigned(s)} BY <1>2 DEF Open
<1>5. PICK base \in SrtPorts : TRUE BY SessionAdminAssumption
<1> QED BY ONLY <1>1, <1>3, <1>4, <1>5, AdminInv, PortGiven

\* The port of a deleted session is given back.
LEMMA ReleaseInv == ASSUME AdminInv, NEW r \in AdminRequests, Release(r) PROVE AdminInv'
<1>1. CallsWell
  <2>1. Answer(r) BY DEF Release
  <2> QED BY ONLY <2>1, AdminInv, r \in AdminRequests, Answered
<1>2. PICK s : s = About(r) OBVIOUS
<1>3. s \in ended BY <1>2 DEF Release, AdminInv, PortsInv
<1>4. /\ offsets' = [y \in DOMAIN offsets \ {s} |-> offsets[y]] /\ UNCHANGED told
      /\ UNCHANGED <<sessions, library, settings, ended>>
  BY <1>2 DEF Release, Drop, KeepRows
<1>5. \A q \in AdminRequests : At(q, "release")' => About(q)' \in ended'
  BY <1>1, <1>4 DEF AdminInv, PortsInv, CallsWell
<1>6. PortsInv' BY <1>3, <1>4, <1>5 DEF AdminInv, PortsInv, ToldPort
<1>7. RefsInv' BY <1>1, <1>4 DEF AdminInv, RefsInv, Known, CallsWell
<1> QED BY <1>1, <1>6, <1>7 DEF AdminInv, CallsWell

\* A reference that is held is written, to a row or to the settings.
LEMMA WriteInv ==
  ASSUME AdminInv, NEW r \in AdminRequests, InsertSession(r) \/ WriteSession(r) \/ PutSettings(r)
  PROVE  AdminInv'
<1>1. call[r].op # "none" /\ Known(call[r].g, call[r].late) /\ call[r].late \in BOOLEAN /\ call[r].port \in SrtPorts
  BY DEF AdminInv, CallsShaped, CallShaped, RefsInv, Holding, InsertSession, WriteSession, PutSettings, At
<1>2. CallsWell
  <2>1. CASE Answer(r) BY <2>1, Answered
  <2>2. CASE ~Answer(r)
    <3>1. PICK at \in {"token", "present"} : To(r, at) BY <2>2 DEF InsertSession, WriteSession, PutSettings
    <3> QED BY ONLY <1>1, <3>1, AdminInv, r \in AdminRequests, Moved
  <2> QED BY <2>1, <2>2
<1>3. KeepPorts /\ UNCHANGED <<library, ended>> BY DEF InsertSession, WriteSession, PutSettings
<1>4. PICK s : s = About(r) OBVIOUS
<1>5. PICK ref : ref = [glossary |-> call[r].g, late |-> call[r].late] OBVIOUS
<1>6. sessions' \in {sessions, With(sessions, s, ref)} /\ settings' \in {settings, ref}
  BY <1>4, <1>5 DEF InsertSession, WriteSession, PutSettings, Ref
<1>7. ref.late \in BOOLEAN /\ Known(ref.glossary, ref.late) BY <1>1, <1>5
<1>8. settings'.late \in BOOLEAN /\ Known(settings'.glossary, settings'.late)
  BY <1>6, <1>7 DEF AdminInv, RefsInv
<1>9. \A t \in DOMAIN sessions' : sessions'[t].late \in BOOLEAN /\ Known(sessions'[t].glossary, sessions'[t].late)
  BY <1>6, <1>7 DEF AdminInv, RefsInv, With
<1>10. RefsInv' BY <1>2, <1>3, <1>8, <1>9 DEF RefsInv, CallsWell, Known
<1>11. PortsInv'
  <2>1. ended \subseteq ended' BY <1>3
  <2> QED BY ONLY <1>2, <1>3, <2>1, AdminInv, PortsStay DEF CallsWell, AdminInv
<1> QED BY <1>2, <1>10, <1>11 DEF AdminInv, CallsWell

\* A session is deleted, and its port is to be released.
LEMMA DeleteSessionInv == ASSUME AdminInv, NEW r \in AdminRequests, DeleteSession(r) PROVE AdminInv'
<1>1. call[r].at = "remove" /\ call[r].op # "none"
  BY DEF AdminInv, CallsShaped, CallShaped, DeleteSession, At
<1>2. CASE Answer(r) /\ UNCHANGED <<sessions, ended>>
  <2>1. CallsWell BY ONLY <1>2, AdminInv, r \in AdminRequests, Answered
  <2>2. UNCHANGED <<sessions, library, settings, ended>> /\ KeepPorts BY <1>2 DEF DeleteSession
  <2> QED BY ONLY <2>1, <2>2, AdminInv, Looks
<1>3. CASE ~ (Answer(r) /\ UNCHANGED <<sessions, ended>>)
  <2>1. PICK s : s = About(r) OBVIOUS
  <2>2. /\ sessions' = [y \in DOMAIN sessions \ {s} |-> sessions[y]] /\ ended' = ended \cup {s} /\ To(r, "release")
        /\ UNCHANGED <<library, settings>> /\ KeepPorts
    BY <1>3, <2>1 DEF DeleteSession, Drop
  <2>3. /\ r \in DOMAIN call
        /\ call[r] = [op |-> call[r].op, at |-> call[r].at, about |-> call[r].about,
                       g |-> call[r].g, late |-> call[r].late, port |-> call[r].port]
    BY DEF AdminInv, CallsShaped, CallShaped
  <2>4. /\ call'[r] = [op |-> call[r].op, at |-> "release", about |-> call[r].about,
                        g |-> call[r].g, late |-> call[r].late, port |-> call[r].port]
        /\ \A q \in AdminRequests : q # r => call'[q] = call[q]
        /\ call' = [q \in AdminRequests |-> call'[q]]
    BY <2>2, <2>3 DEF To, AdminInv, CallsShaped
  <2>5. CallsShaped' BY <1>1, <2>4 DEF AdminInv, CallsShaped, CallShaped
  <2>6. About(r)' = s BY <2>1, <2>4 DEF About
  <2>7. \A q \in AdminRequests : q # r => (At(q, "release")' <=> At(q, "release")) /\ About(q)' = About(q)
    BY <2>4 DEF At, About
  <2>8. \A q \in AdminRequests : At(q, "release")' => About(q)' \in ended'
    BY <2>2, <2>6, <2>7 DEF AdminInv, PortsInv
  <2>9. PortsInv' BY <2>2, <2>8 DEF AdminInv, PortsInv, KeepPorts
  <2>10. \A q \in AdminRequests : Holding(call'[q]) => Known(call'[q].g, call'[q].late)
    BY <2>4 DEF AdminInv, RefsInv, Holding
  <2>11. RefsInv' BY <2>2, <2>10 DEF AdminInv, RefsInv, Known
  <2> QED BY <2>5, <2>9, <2>11 DEF AdminInv
<1> QED BY <1>2, <1>3

\* There is one more glossary: no reference is lost.
LEMMA CreateGlossaryInv == ASSUME AdminInv, NEW r \in AdminRequests, CreateGlossary(r) PROVE AdminInv'
<1>1. Answer(r) /\ library \subseteq library' /\ UNCHANGED <<sessions, settings, ended>> /\ KeepPorts
  BY DEF CreateGlossary
<1>2. CallsWell BY ONLY <1>1, AdminInv, r \in AdminRequests, Answered
<1>3. ended \subseteq ended' BY <1>1
<1>4. PortsInv' BY ONLY <1>1, <1>2, <1>3, AdminInv, PortsStay DEF CallsWell, AdminInv
<1>5. RefsInv' BY <1>1, <1>2 DEF AdminInv, RefsInv, Known, CallsWell
<1> QED BY <1>2, <1>4, <1>5 DEF AdminInv, CallsWell

\* A glossary goes, with every reference to it, and who is under way is late.
LEMMA DeleteGlossaryInv == ASSUME AdminInv, NEW r \in AdminRequests, DeleteGlossary(r) PROVE AdminInv'
<1>1. call[r].at = "detach" /\ call[r].op # "none"
  BY DEF AdminInv, CallsShaped, CallShaped, DeleteGlossary, At
<1>2. CASE call[r].g \notin library
  <2>1. Answer(r) /\ UNCHANGED <<sessions, library, settings, ended>> /\ KeepPorts BY <1>2 DEF DeleteGlossary
  <2>2. CallsWell BY ONLY <2>1, AdminInv, r \in AdminRequests, Answered
  <2> QED BY ONLY <2>1, <2>2, AdminInv, Looks
<1>3. CASE call[r].g \in library
  <2>1. PICK g : g = call[r].g OBVIOUS
  <2>2. /\ library' = library \ {g} /\ ended' = ended \cup {g}
        /\ sessions' = [s \in DOMAIN sessions |-> Detached(sessions[s], g, FALSE)]
        /\ settings' = Detached(settings, g, TRUE) /\ KeepPorts
    BY <1>3, <2>1 DEF DeleteGlossary
  <2>3. call' = [q \in AdminRequests |->
               IF q # r THEN [call[q] EXCEPT !.late = call[q].op # "none"]
               ELSE IF call[r].about = {} THEN NoRequest ELSE [call[r] EXCEPT !.at = "present"]]
    BY <1>3 DEF DeleteGlossary
  <2>4. ASSUME NEW q \in AdminRequests
        PROVE  /\ CallShaped(call'[q]) /\ (Holding(call'[q]) => call'[q].late)
               /\ call'[q].at = "release" => call[q].at = "release" /\ call'[q].about = call[q].about
    <3>1. /\ call[q].late \in BOOLEAN /\ call[q].port \in SrtPorts /\ (call[q].op = "none" => call[q].at = "idle")
          /\ call[q] = [op |-> call[q].op, at |-> call[q].at, about |-> call[q].about,
                         g |-> call[q].g, late |-> call[q].late, port |-> call[q].port]
      BY DEF AdminInv, CallsShaped, CallShaped
    <3>2. CASE q # r
      <4>1. call'[q] = [call[q] EXCEPT !.late = call[q].op # "none"] BY <2>3, <3>2
      <4>0. PICK raced \in BOOLEAN : raced = (call[q].op # "none") OBVIOUS
      <4>2. call'[q] = [op |-> call[q].op, at |-> call[q].at, about |-> call[q].about,
                         g |-> call[q].g, late |-> raced, port |-> call[q].port]
        BY ONLY <3>1, <4>0, <4>1
      <4>3. CallShaped(call'[q]) BY ONLY <3>1, <4>0, <4>2, raced \in BOOLEAN DEF CallShaped
      <4>4. call[q].op # "none" => raced BY <4>0
      <4>5. Holding(call'[q]) => call[q].op # "none" BY ONLY <3>1, <4>2 DEF Holding
      <4> QED BY ONLY <3>1, <4>2, <4>3, <4>4, <4>5
    <3>3. CASE q = r /\ call[r].about = {}
      <4>1. call'[q] = NoRequest BY <2>3, <3>3
      <4> QED BY ONLY <4>1, SessionAdminAssumption DEF CallShaped, Holding, NoRequest
    <3>4. CASE q = r /\ call[r].about # {}
      <4>1. call'[q] = [call[q] EXCEPT !.at = "present"] BY <2>3, <3>4
      <4>2. call'[q] = [op |-> call[q].op, at |-> "present", about |-> call[q].about,
                         g |-> call[q].g, late |-> call[q].late, port |-> call[q].port]
        BY ONLY <3>1, <4>1
      <4> QED BY ONLY <1>1, <3>1, <3>4, <4>2 DEF CallShaped, Holding
    <3> QED BY <3>2, <3>3, <3>4
  <2>5. CallsShaped'
    <3>1. call' = [q \in AdminRequests |-> call'[q]] BY <2>3
    <3> QED BY ONLY <2>4, <3>1, AdminRequests' = AdminRequests DEF CallsShaped
  <2>6. \A q \in AdminRequests : At(q, "release")' => At(q, "release") /\ About(q)' = About(q)
    BY <2>4 DEF At, About
  <2>7. PortsInv'
    <3>1. PortsInv /\ KeepPorts /\ ended \subseteq ended' BY <2>2 DEF AdminInv
    <3> QED BY ONLY <2>6, <3>1, PortsStay
  <2>8. ASSUME NEW ref, NEW d, ref.late \in BOOLEAN, Known(ref.glossary, ref.late)
        PROVE  Detached(ref, g, d).late \in BOOLEAN /\ Known(Detached(ref, g, d).glossary, Detached(ref, g, d).late)'
    BY <2>2, <2>8 DEF Detached, Ref, Known
  <2>9. RefsInv'
    <3>1. settings'.late \in BOOLEAN /\ (Known(settings.glossary, settings.late)')
      <4>1. settings.late \in BOOLEAN /\ Known(settings.glossary, settings.late) BY DEF AdminInv, RefsInv
      <4> QED BY <2>2, <4>1 DEF Detached, Ref, Known
    <3>2. \A t \in DOMAIN sessions' :
            /\ sessions'[t].late \in BOOLEAN
            /\ sessions'[t].glossary \notin library' \cup {NoGlossary} => sessions'[t].late
      <4>1. \A t \in DOMAIN sessions : sessions[t].late \in BOOLEAN /\ Known(sessions[t].glossary, sessions[t].late)
        BY DEF AdminInv, RefsInv
      <4> QED BY <2>2, <4>1 DEF Detached, Ref, Known
    <3> QED BY <2>4, <3>1, <3>2 DEF RefsInv, Known
  <2> QED BY <2>5, <2>7, <2>9 DEF AdminInv
<1> QED BY <1>2, <1>3

LEMMA AdminStep == ASSUME AdminInv, [SessionAdminNext]_sessionAdminVars PROVE AdminInv'
<1>1. CASE UNCHANGED sessionAdminVars
  BY <1>1 DEF sessionAdminVars, ToldPort, AdminInv, CallsShaped, CallShaped, PortsInv, RefsInv, Known, Holding, At, About
<1>2. CASE \E s \in AdminSessions : RunEnds(s) BY <1>2, RunInv
<1>3. CASE \E r \in AdminRequests :
       \E op \in {"create", "get", "rename", "update", "delete", "list", "start", "stop", "file", "unfile",
                     "settings", "compose", "detach"},
             s \in AdminSessions, g \in Glossaries \cup {NoGlossary}, port \in SrtPorts : Ask(r, op, s, g, port)
  BY <1>3, AskInv
<1>4. ASSUME NEW r \in AdminRequests,
         \/ CheckGlossaryRef(r) \/ ReadSession(r) \/ IngestToken(r) \/ Guard(r) \/ ForgetSession(r)
         \/ (\E on \in BOOLEAN : OpenFileSource(r, on)) \/ CheckKind(r)
         \/ RefuseGlossary(r) \/ RefuseSettings(r)
      PROVE AdminInv'
  BY ONLY <1>4, AdminInv, LookInv
<1>5. ASSUME NEW r \in AdminRequests, Defaults(r) \/ ReadToRename(r) \/ ListSessions(r) \/ ListUsers(r)
      PROVE AdminInv'
  BY ONLY <1>5, AdminInv, ReadsInv
<1>6. ASSUME NEW r \in AdminRequests,
             \/ \E base \in SrtPorts : Present(r, base) \/ OpenSRT(r, base)
             \/ (\E fails \in BOOLEAN : Open(r, fails)) \/ IngestURL(r)
      PROVE AdminInv'
  BY ONLY <1>6, AdminInv, PresentInv, IngestURLInv, OpenPortInv
<1>7. ASSUME NEW r \in AdminRequests, InsertSession(r) \/ WriteSession(r) \/ PutSettings(r) PROVE AdminInv'
  BY ONLY <1>7, AdminInv, WriteInv
<1>8. ASSUME NEW r \in AdminRequests, DeleteSession(r) \/ Release(r) \/ CreateGlossary(r) \/ DeleteGlossary(r)
      PROVE AdminInv'
  BY ONLY <1>8, AdminInv, DeleteSessionInv, ReleaseInv, CreateGlossaryInv, DeleteGlossaryInv
<1>9. ASSUME NEW r \in AdminRequests, StartRun(r) \/ StopSession(r) PROVE AdminInv'
  BY ONLY <1>9, AdminInv, RunInv
<1> QED BY <1>1, <1>2, <1>3, <1>4, <1>5, <1>6, <1>7, <1>8, <1>9 DEF SessionAdminNext

\* handlers/sessions.go, ports, settings: however the requests of admins overlap,
\* and whatever settings.srt.port becomes meanwhile, a session that was told a URL
\* has the offset it was made of until it is deleted, no two sessions have one
\* offset or are told one port of one settings.srt.port, and a session or the
\* settings name a removed glossary only if the request that wrote the reference was
\* under way when it was removed.
THEOREM SessionsAlwaysKept == SessionAdminSpec => []SessionsKept
<1>1. SessionAdminInit => AdminInv BY AdminInitInv
<1>2. AdminInv /\ [SessionAdminNext]_sessionAdminVars => AdminInv' BY AdminStep
<1>3. AdminInv => SessionsKept
  <2> SUFFICES ASSUME AdminInv PROVE SessionsKept OBVIOUS
  <2>1. MaxPorts \in Nat BY SessionAdminAssumption
  <2>2. PortsKept
    <3>1. \A s \in DOMAIN offsets : offsets[s] \in Nat /\ offsets[s] < MaxPorts
      BY <2>1 DEF AdminInv, PortsInv
    <3>2. \A s, t \in DOMAIN offsets : s # t => offsets[s] # offsets[t] BY DEF AdminInv, PortsInv
    <3>3. \A s \in DOMAIN told \ ended : s \in DOMAIN offsets /\ told[s] = ToldPort(offsets, s, told[s].base)
      BY DEF AdminInv, PortsInv
    <3>4. \A s \in DOMAIN told : told[s].base \in Nat
      BY SessionAdminAssumption DEF AdminInv, PortsInv
    <3>5. ASSUME NEW s \in DOMAIN told \ ended, NEW t \in DOMAIN told \ ended, s # t, told[s].base = told[t].base
          PROVE  told[s].port # told[t].port
      <4>1. /\ offsets[s] \in Nat /\ offsets[t] \in Nat /\ offsets[s] # offsets[t] /\ told[t].base \in Nat
            /\ told[s] = ToldPort(offsets, s, told[t].base) /\ told[t] = ToldPort(offsets, t, told[t].base)
        BY <3>1, <3>2, <3>3, <3>4, <3>5
      <4>2. told[s].port = told[t].base + offsets[s] /\ told[t].port = told[t].base + offsets[t]
        BY <4>1 DEF ToldPort
      <4> QED BY ONLY <4>1, <4>2
    <3> QED BY <3>1, <3>2, <3>3, <3>5 DEF PortsKept
  <2>3. RefsKnown BY DEF AdminInv, RefsInv, RefsKnown, Known, Dangling
  <2> QED BY <2>2, <2>3 DEF SessionsKept
<1> QED BY <1>1, <1>2, <1>3, PTL DEF SessionAdminSpec

-----------------------------------------------------------------------------
(* OverlayPresets.  Ids *)

\* Whatever is in a name or an id.
Words ==
  {"-", "preset", "classic", "outline", "lower", "third"} \cup {Numerals[n] : n \in DOMAIN Numerals}
    \cup UNION {{name[i] : i \in DOMAIN name} : name \in PresetNames}

LEMMA OneWord == ASSUME NEW w \in Words PROVE <<w>> \in Seq(Words)
OBVIOUS

LEMMA TwoWords ==
  ASSUME NEW v \in Words, NEW w \in Words
  PROVE  <<v, w>> \in Seq(Words) /\ Len(<<v, w>>) = 2 /\ <<v, w>>[1] = v /\ <<v, w>>[2] = w
OBVIOUS

LEMMA ThreeWords ==
  ASSUME NEW u \in Words, NEW v \in Words, NEW w \in Words PROVE <<u, v, w>> \in Seq(Words)
OBVIOUS

\* f is the walk over the first k words of a name.
SlugFrom == [id |-> <<>>, dash |-> FALSE]
IsWalk(f, name, k) == f = [i \in 0 .. k |-> IF i = 0 THEN SlugFrom ELSE SlugNext(f[i - 1], name[i])]

LEMMA WalkExists == ASSUME NEW name \in Seq(Words) PROVE \E f : IsWalk(f, name, Len(name))
<1> DEFINE Stuck == {k \in 0 .. Len(name) : ~ \E f : IsWalk(f, name, k)}
<1>1. SUFFICES ASSUME Stuck # {} PROVE FALSE
  <2>1. Len(name) \in 0 .. Len(name) BY LenProperties
  <2> QED BY <2>1
<1>2. Stuck \in SUBSET Nat OBVIOUS
<1>3. PICK k \in Stuck : \A j \in Stuck : k <= j
  <2> HIDE DEF Stuck
  <2> QED BY <1>1, <1>2, LeastOfNat
<1>4. k \in 0 .. Len(name) /\ ~ \E f : IsWalk(f, name, k) BY <1>3
<1>5. k # 0
  <2>1. ASSUME k = 0 PROVE IsWalk([i \in 0 .. 0 |-> SlugFrom], name, k) BY <2>1 DEF IsWalk
  <2> QED BY <1>4, <2>1
<1>6. k - 1 \in 0 .. Len(name) /\ k - 1 \notin Stuck BY <1>3, <1>4, <1>5
<1>7. PICK f : IsWalk(f, name, k - 1) BY <1>6
<1> DEFINE g == [i \in 0 .. k |-> IF i = k THEN SlugNext(f[k - 1], name[k]) ELSE f[i]]
<1>8. IsWalk(g, name, k)
  <2>1. ASSUME NEW i \in 0 .. k PROVE g[i] = IF i = 0 THEN SlugFrom ELSE SlugNext(g[i - 1], name[i])
    <3>1. CASE i = k BY <1>4, <1>5, <3>1
    <3>2. CASE i # k
      <4>1. i \in 0 .. k - 1 /\ (i # 0 => i - 1 \in 0 .. k - 1) BY <1>4, <3>2
      <4>2. f[i] = IF i = 0 THEN SlugFrom ELSE SlugNext(f[i - 1], name[i]) BY <1>7, <4>1 DEF IsWalk
      <4> QED BY <1>4, <4>1, <4>2
    <3> QED BY <3>1, <3>2
  <2>2. g = [i \in 0 .. k |-> g[i]] OBVIOUS
  <2> HIDE DEF g
  <2> QED BY <2>1, <2>2 DEF IsWalk
<1> QED BY <1>4, <1>8

SlugStates == [id : Seq(Words), dash : BOOLEAN]

LEMMA SlugNextTyped ==
  ASSUME NEW before \in SlugStates, NEW word \in Words PROVE SlugNext(before, word) \in SlugStates
<1>1. before.id \in Seq(Words) /\ before.dash \in BOOLEAN BY DEF SlugStates
<1>2. PICK more : more = (IF before.dash /\ before.id # <<>> THEN <<"-", word>> ELSE <<word>>) OBVIOUS
<1>3. more \in Seq(Words)
  <2>1. "-" \in Words BY DEF Words
  <2>2. <<word>> \in Seq(Words) BY OneWord
  <2>3. <<"-", word>> \in Seq(Words) BY ONLY <2>1, word \in Words, TwoWords
  <2> QED BY ONLY <1>2, <2>2, <2>3
<1>4. before.id \o more \in Seq(Words) BY <1>1, <1>3, ConcatProperties
<1> QED BY <1>1, <1>2, <1>4 DEF SlugNext, SlugStates

LEMMA SlugWordsTyped == ASSUME NEW name \in Seq(Words) PROVE SlugWords(name) \in Seq(Words)
<1> DEFINE W == CHOOSE f : f = [i \in 0 .. Len(name) |->
                                  IF i = 0 THEN [id |-> <<>>, dash |-> FALSE] ELSE SlugNext(f[i - 1], name[i])]
<1>1. SlugWords(name) = W[Len(name)].id BY DEF SlugWords
<1>2. IsWalk(W, name, Len(name)) BY WalkExists DEF IsWalk, SlugFrom
<1> HIDE DEF W
<1> DEFINE Odd == {k \in 0 .. Len(name) : W[k] \notin SlugStates}
<1>3. Odd = {}
  <2>1. SUFFICES ASSUME Odd # {} PROVE FALSE OBVIOUS
  <2>2. Odd \in SUBSET Nat OBVIOUS
  <2>3. PICK k \in Odd : \A j \in Odd : k <= j
    <3> HIDE DEF Odd
    <3> QED BY <2>1, <2>2, LeastOfNat
  <2>4. k \in 0 .. Len(name) /\ W[k] \notin SlugStates BY <2>3
  <2>5. W[k] = IF k = 0 THEN SlugFrom ELSE SlugNext(W[k - 1], name[k]) BY <1>2, <2>4 DEF IsWalk
  <2>6. SlugFrom \in SlugStates BY EmptySeq DEF SlugFrom, SlugStates
  <2>7. k # 0 => W[k - 1] \in SlugStates /\ name[k] \in Words BY <2>3, <2>4, ElementOfSeq
  <2> QED BY <2>4, <2>5, <2>6, <2>7, SlugNextTyped
<1>4. W[Len(name)] \in SlugStates BY <1>3
<1> QED BY <1>1, <1>4 DEF SlugStates

\* An id is a sequence of words.
LEMMA SlugTyped == ASSUME NEW name \in Seq(Words) PROVE Slug(name) \in Seq(Words)
<1>1. PICK id \in Seq(Words) : id = SlugWords(name) BY SlugWordsTyped
<1>2. MaxSlugWords \in Nat BY PresetsAssumption
<1>3. PICK k \in Nat : k = (IF Len(id) < MaxSlugWords THEN Len(id) ELSE MaxSlugWords) BY <1>2
<1>4. k <= Len(id) BY <1>2, <1>3
<1>5. PICK cut \in Seq(Words) : cut = SubSeq(id, 1, k)
  <2>1. \A i \in 1 .. k : id[i] \in Words BY <1>4, ElementOfSeq
  <2>2. SubSeq(id, 1, k) \in Seq(Words) BY ONLY <2>1, k \in Nat, SubSeqProperties
  <2> QED BY <2>2
<1>6. SubSeq(cut, 1, Len(cut) - 1) \in Seq(Words)
  <2>1. \A i \in 1 .. Len(cut) - 1 : cut[i] \in Words BY ElementOfSeq
  <2> QED BY <2>1, SubSeqProperties
<1>7. <<"preset">> \in Seq(Words)
  <2>1. "preset" \in Words BY DEF Words
  <2> QED BY ONLY <2>1, OneWord
<1> QED BY <1>1, <1>3, <1>5, <1>6, <1>7 DEF Slug

\* What a creation may try.
Tries == 1 .. Cardinality(PresetCalls) + Cardinality(BuiltInIds)

LEMMA BuiltInsCounted ==
  /\ IsFiniteSet(BuiltInIds) /\ Cardinality(BuiltInIds) \in Nat /\ Cardinality(BuiltInIds) >= 1
  /\ BuiltInIds \subseteq Seq(Words)
  /\ Cardinality(PresetCalls) \in Nat
<1>1. BuiltInIds = {<<"classic">>} \cup {<<"outline">>} \cup {<<"lower", "-", "third">>} BY DEF BuiltInIds, BuiltIn
<1>2. IsFiniteSet(BuiltInIds) BY <1>1, FS_Singleton, FS_Union
<1>3. BuiltInIds # {} BY <1>1
<1>4. Cardinality(BuiltInIds) \in Nat /\ Cardinality(BuiltInIds) # 0 BY <1>2, <1>3, FS_CardinalityType, FS_EmptySet
<1>5. BuiltInIds \subseteq Seq(Words)
  <2>1. "classic" \in Words /\ "outline" \in Words /\ "lower" \in Words /\ "-" \in Words /\ "third" \in Words
    BY DEF Words
  <2>2. <<"classic">> \in Seq(Words) /\ <<"outline">> \in Seq(Words) BY ONLY <2>1, OneWord
  <2>3. <<"lower", "-", "third">> \in Seq(Words) BY ONLY <2>1, ThreeWords
  <2> QED BY ONLY <1>1, <2>2, <2>3
<1>6. Cardinality(PresetCalls) \in Nat BY PresetsAssumption, FS_CardinalityType
<1> QED BY <1>2, <1>4, <1>5, <1>6

LEMMA NumeralsDiffer ==
  /\ \A n \in Tries : Numerals[n] \in Words
  /\ \A m, n \in Tries : m # n => Numerals[m] # Numerals[n]
<1>1. Numerals \in Seq(STRING) /\ Len(Numerals) = Cardinality(PresetCalls) + Cardinality(BuiltInIds)
  BY PresetsAssumption
<1>2. DOMAIN Numerals = Tries BY <1>1, LenProperties DEF Tries
<1> QED BY <1>1, <1>2, PresetsAssumption DEF Words

LEMMA NamesTyped == ASSUME NEW name \in PresetNames PROVE name \in Seq(Words)
<1>1. name \in Seq(STRING) BY PresetsAssumption
<1>2. \A i \in DOMAIN name : name[i] \in Words BY DEF Words
<1> QED BY <1>1, <1>2, LenProperties

LEMMA HyphenNumeral ==
  ASSUME NEW n \in Tries
  PROVE  \E t \in Seq(Words) : t = <<"-", Numerals[n]>> /\ t[2] = Numerals[n] /\ Len(t) = 2
<1>1. PICK w \in Words : w = Numerals[n] BY NumeralsDiffer
<1>2. "-" \in Words BY DEF Words
<1>3. PICK t : t = <<"-", w>> OBVIOUS
<1>4. t \in Seq(Words) /\ t[2] = w /\ Len(t) = 2 BY ONLY <1>2, <1>3, w \in Words, TwoWords
<1> QED BY <1>1, <1>3, <1>4

LEMMA CandidateTyped == ASSUME NEW name \in Seq(Words), NEW n \in Tries PROVE Candidate(name, n) \in Seq(Words)
<1>1. PICK s \in Seq(Words) : s = Slug(name) BY SlugTyped
<1>2. PICK t \in Seq(Words) : t = <<"-", Numerals[n]>> BY HyphenNumeral
<1>3. s \o t \in Seq(Words) BY ConcatProperties
<1> QED BY <1>1, <1>2, <1>3 DEF Candidate

\* No two tries of a creation are the same id.
LEMMA CandidatesDiffer ==
  ASSUME NEW name \in Seq(Words), NEW m \in Tries, NEW n \in Tries, m # n
  PROVE  Candidate(name, m) # Candidate(name, n)
<1>1. PICK s \in Seq(Words) : s = Slug(name) BY SlugTyped
<1>2. PICK t \in Seq(Words) : t = <<"-", Numerals[m]>> /\ t[2] = Numerals[m] /\ Len(t) = 2 BY HyphenNumeral
<1>3. PICK u \in Seq(Words) : u = <<"-", Numerals[n]>> /\ u[2] = Numerals[n] /\ Len(u) = 2 BY HyphenNumeral
<1>4. Len(s \o t) = Len(s) + 2 /\ Len(s \o u) = Len(s) + 2
      /\ (s \o t)[Len(s) + 2] = t[2] /\ (s \o u)[Len(s) + 2] = u[2] /\ Len(s) \in Nat
  BY <1>2, <1>3, ConcatProperties
<1>5. t[2] # u[2] BY <1>2, <1>3, NumeralsDiffer
<1>6. s \o t # s /\ s \o u # s /\ s \o t # s \o u BY <1>4, <1>5
<1> QED BY <1>1, <1>2, <1>3, <1>6 DEF Candidate

-----------------------------------------------------------------------------
(* OverlayPresets.  What is saved *)

PresetPlaces == {"new", "body", "work", "refused", "invalid", "failed", "missing", "done"}
PresetOps == {"none", "create", "update", "delete"}
PresetTypes ==
  /\ presetCall \in [PresetCalls ->
       [at : PresetPlaces, op : PresetOps, name : Seq(Words), id : Seq(Words), n : Nat]]
  /\ \A id \in DOMAIN presets : id \in Seq(Words) /\ presets[id] \in [name : Seq(Words), by : PresetCalls]

Created(d) == presetCall[d].at = "done" /\ presetCall[d].op = "create"
Deleted(e) == presetCall[e].at = "done" /\ presetCall[e].op = "delete"

\* A preset stands under the id its creation answered, or was deleted.
Kept(c) ==
  \/ presetCall[c].id \in DOMAIN presets /\ presets[presetCall[c].id].by = c
  \/ \E e \in PresetCalls : Deleted(e) /\ presetCall[e].id = presetCall[c].id

\* Whatever a creation tried is an id of a built-in, or of another creation.
Tried(c) ==
  \A k \in Tries : k < presetCall[c].n =>
    \/ Candidate(presetCall[c].name, k) \in BuiltInIds
    \/ \E d \in PresetCalls : Created(d) /\ presetCall[d].id = Candidate(presetCall[c].name, k)

PresetInv ==
  /\ PresetTypes
  /\ \A id \in DOMAIN presets :
       /\ id \notin BuiltInIds
       /\ \E d \in PresetCalls : presets[id].by = d /\ Created(d) /\ presetCall[d].id = id
  /\ \A c \in PresetCalls : Created(c) =>
       presetCall[c].id = Candidate(presetCall[c].name, presetCall[c].n) /\ Kept(c)
  /\ \A c \in PresetCalls :
       Tried(c) /\ (presetCall[c].n \in Tries \/ (presetCall[c].n = 0 /\ presetCall[c].at = "new"))

LEMMA PresetInitInv == ASSUME PresetsInit PROVE PresetInv
<1>1. <<>> \in Seq(Words) BY EmptySeq
<1>2. PresetTypes BY <1>1 DEF PresetsInit, PresetTypes, NoPresetCall, PresetPlaces, PresetOps
<1>3. \A c \in PresetCalls : presetCall[c].at = "new" /\ presetCall[c].n = 0 BY DEF PresetsInit, NoPresetCall
<1>4. DOMAIN presets = {} BY DEF PresetsInit
<1> QED BY <1>2, <1>3, <1>4 DEF PresetInv, Created, Tried, Tries

\* Nobody is done but an update, and no row comes or goes.
LEMMA PresetGoes ==
  ASSUME PresetInv, NEW c \in PresetCalls, PresetTypes',
         \A d \in PresetCalls : d # c => presetCall'[d] = presetCall[d],
         presetCall[c].at # "done", ~ (presetCall'[c].at = "done" /\ presetCall'[c].op \in {"create", "delete"}),
         \/ presetCall'[c].n = 1
         \/ presetCall'[c].n = presetCall[c].n /\ presetCall'[c].name = presetCall[c].name
             /\ presetCall[c].at # "new",
         DOMAIN presets' = DOMAIN presets, \A id \in DOMAIN presets : presets'[id].by = presets[id].by
  PROVE  PresetInv'
<1>1. \A d \in PresetCalls : (Created(d)' <=> Created(d)) /\ (Deleted(d)' <=> Deleted(d))
                            /\ (d # c => presetCall'[d] = presetCall[d])
  BY DEF Created, Deleted
<1>2. ~Created(c) /\ ~Deleted(c) BY DEF Created, Deleted
<1>3. \A id \in DOMAIN presets' :
       /\ id \notin BuiltInIds
       /\ \E d \in PresetCalls : presets'[id].by = d /\ Created(d)' /\ presetCall'[d].id = id
  <2> TAKE id \in DOMAIN presets'
  <2>1. id \in DOMAIN presets /\ presets'[id].by = presets[id].by OBVIOUS
  <2>2. id \notin BuiltInIds BY <2>1 DEF PresetInv
  <2>3. PICK d \in PresetCalls : presets[id].by = d /\ Created(d) /\ presetCall[d].id = id BY <2>1 DEF PresetInv
  <2>4. d # c BY <1>2, <2>3
  <2>5. Created(d)' /\ presetCall'[d].id = id BY <1>1, <2>3, <2>4
  <2> QED BY <2>1, <2>2, <2>3, <2>5
<1>4. \A d \in PresetCalls : Created(d)' =>
       presetCall'[d].id = Candidate(presetCall'[d].name, presetCall'[d].n) /\ Kept(d)'
  <2> SUFFICES ASSUME NEW d \in PresetCalls, Created(d)
               PROVE  presetCall'[d].id = Candidate(presetCall'[d].name, presetCall'[d].n) /\ Kept(d)'
    BY <1>1
  <2>1. presetCall'[d] = presetCall[d] BY <1>1, <1>2
  <2>2. presetCall[d].id = Candidate(presetCall[d].name, presetCall[d].n) /\ Kept(d) BY DEF PresetInv
  <2>3. Kept(d)'
    <3>1. CASE presetCall[d].id \in DOMAIN presets /\ presets[presetCall[d].id].by = d BY <2>1, <3>1 DEF Kept
    <3>2. CASE \E e \in PresetCalls : Deleted(e) /\ presetCall[e].id = presetCall[d].id
      <4>1. PICK e \in PresetCalls : Deleted(e) /\ presetCall[e].id = presetCall[d].id BY <3>2
      <4>2. presetCall'[e] = presetCall[e] /\ Deleted(e)' BY <1>1, <1>2, <4>1
      <4> QED BY <2>1, <4>1, <4>2 DEF Kept
    <3> QED BY <2>2, <3>1, <3>2 DEF Kept
  <2> QED BY <2>1, <2>2, <2>3
<1>5. \A d \in PresetCalls :
       Tried(d)' /\ (presetCall'[d].n \in Tries \/ (presetCall'[d].n = 0 /\ presetCall'[d].at = "new"))
  <2> TAKE d \in PresetCalls
  <2>1. 1 \in Tries BY BuiltInsCounted DEF Tries
  <2>2. \A k \in Tries : ~ (k < 1) BY BuiltInsCounted DEF Tries
  <2>3. CASE d = c /\ presetCall'[c].n = 1
    <3>1. Tried(d)' BY <2>2, <2>3 DEF Tried
    <3> QED BY <2>1, <2>3, <3>1
  <2>4. CASE presetCall'[d].n = presetCall[d].n /\ presetCall'[d].name = presetCall[d].name
             /\ (d = c => presetCall[c].at # "new")
    <3>1. Tried(d) /\ (presetCall[d].n \in Tries \/ (presetCall[d].n = 0 /\ presetCall[d].at = "new"))
      BY DEF PresetInv
    <3>2. Tried(d)'
      <4>1. ASSUME NEW e \in PresetCalls, Created(e) PROVE Created(e)' /\ presetCall'[e].id = presetCall[e].id
        BY <1>1, <1>2, <4>1
      <4> QED BY <2>4, <3>1, <4>1 DEF Tried
    <3> QED BY <1>1, <2>4, <3>1, <3>2
  <2>5. CASE d # c BY <1>1, <2>4, <2>5
  <2>6. CASE d = c BY <2>3, <2>4, <2>6
  <2> QED BY <2>5, <2>6
<1> QED BY <1>3, <1>4, <1>5 DEF PresetInv

LEMMA PresetAsked ==
  ASSUME PresetInv, NEW c \in PresetCalls, NEW op \in {"create", "update", "delete"}, NEW name \in Seq(Words),
         NEW id \in Seq(Words), AskPreset(c, op, name, id)
  PROVE  PresetInv'
<1>1. /\ presetCall[c].at = "new"
      /\ presetCall' = [presetCall EXCEPT ![c] =
           [at |-> IF op = "delete" THEN "work" ELSE "body", op |-> op, name |-> name, id |-> id, n |-> 1]]
      /\ UNCHANGED presets
  BY DEF AskPreset
<1>2. PresetTypes BY DEF PresetInv
<1>3. /\ PresetTypes' /\ presetCall'[c].n = 1 /\ presetCall'[c].at # "done" /\ presetCall[c].at # "done"
      /\ \A d \in PresetCalls : d # c => presetCall'[d] = presetCall[d]
  BY ONLY <1>1, <1>2, c \in PresetCalls, op \in {"create", "update", "delete"}, name \in Seq(Words), id \in Seq(Words)
  DEF PresetTypes, PresetPlaces, PresetOps
<1> QED BY <1>1, <1>3, PresetGoes

\* A call is answered with no row changed, or with an update.
LEMMA PresetAnswered ==
  ASSUME PresetInv, NEW c \in PresetCalls, NEW at \in PresetPlaces, AnswerPreset(c, at),
         presetCall[c].at \in {"body", "work"}, at = "done" => presetCall[c].op = "update",
         DOMAIN presets' = DOMAIN presets,
         \A id \in DOMAIN presets : presets'[id] \in [name : Seq(Words), by : PresetCalls]
                                   /\ presets'[id].by = presets[id].by
  PROVE  PresetInv'
<1>1. presetCall' = [presetCall EXCEPT ![c].at = at] BY DEF AnswerPreset
<1>2. PresetTypes BY DEF PresetInv
<1>3. PresetTypes' BY <1>1, <1>2 DEF PresetTypes
<1>4. /\ presetCall'[c].n = presetCall[c].n /\ presetCall'[c].name = presetCall[c].name
      /\ presetCall'[c].op = presetCall[c].op /\ presetCall'[c].at = at
      /\ \A d \in PresetCalls : d # c => presetCall'[d] = presetCall[d]
  BY ONLY <1>1, <1>2, c \in PresetCalls DEF PresetTypes
<1> QED BY <1>3, <1>4, PresetGoes

LEMMA PresetChecked ==
  ASSUME PresetInv, NEW c \in PresetCalls, CheckPreset(c) \/ StoreFails(c) PROVE PresetInv'
<1>1. PICK at \in {"refused", "invalid", "work", "failed"} : AnswerPreset(c, at)
  BY DEF CheckPreset, StoreFails
<1>2. presetCall[c].at \in {"body", "work"} /\ UNCHANGED presets BY DEF CheckPreset, StoreFails
<1>3. \A id \in DOMAIN presets : presets'[id] \in [name : Seq(Words), by : PresetCalls]
                                   /\ presets'[id].by = presets[id].by
  BY <1>2 DEF PresetInv, PresetTypes
<1>4. at \in PresetPlaces /\ at # "done" BY DEF PresetPlaces
<1> QED BY <1>1, <1>2, <1>3, <1>4, PresetAnswered

LEMMA PresetUpdated == ASSUME PresetInv, NEW c \in PresetCalls, UpdateOverlayPreset(c) PROVE PresetInv'
<1>1. presetCall[c].at = "work" /\ presetCall[c].op = "update" BY DEF UpdateOverlayPreset, Working
<1>2. PresetTypes /\ presetCall[c].name \in Seq(Words) BY DEF PresetInv, PresetTypes
<1>3. CASE presetCall[c].id \notin DOMAIN presets
  <2>1. AnswerPreset(c, "missing") /\ UNCHANGED presets BY <1>3 DEF UpdateOverlayPreset, Rewritten
  <2>2. \A id \in DOMAIN presets : presets'[id] \in [name : Seq(Words), by : PresetCalls]
                                   /\ presets'[id].by = presets[id].by
    BY <1>2, <2>1 DEF PresetTypes
  <2>3. "missing" \in PresetPlaces BY DEF PresetPlaces
  <2> QED BY <1>1, <2>1, <2>2, <2>3, PresetAnswered
<1>4. CASE presetCall[c].id \in DOMAIN presets
  <2>1. /\ AnswerPreset(c, "done")
        /\ presets' = [i \in DOMAIN presets |->
                         IF i = presetCall[c].id THEN [presets[i] EXCEPT !.name = presetCall[c].name] ELSE presets[i]]
    BY <1>4 DEF UpdateOverlayPreset, Rewritten
  <2>2. DOMAIN presets' = DOMAIN presets BY <2>1
  <2>3. \A id \in DOMAIN presets : presets'[id] \in [name : Seq(Words), by : PresetCalls]
                                   /\ presets'[id].by = presets[id].by
    BY <1>2, <2>1 DEF PresetTypes
  <2>4. "done" \in PresetPlaces BY DEF PresetPlaces
  <2> QED BY <1>1, <2>1, <2>2, <2>3, <2>4, PresetAnswered
<1> QED BY <1>3, <1>4

\* A row goes, with the deletion that says so.
LEMMA PresetDeleted == ASSUME PresetInv, NEW c \in PresetCalls, DeleteOverlayPreset(c) PROVE PresetInv'
<1>1. presetCall[c].at = "work" /\ presetCall[c].op = "delete" BY DEF DeleteOverlayPreset, Working
<1>2. PresetTypes BY DEF PresetInv
<1>3. CASE presetCall[c].id \in BuiltInIds \/ presetCall[c].id \notin DOMAIN presets
  <2>1. PICK at \in {"refused", "missing"} : AnswerPreset(c, at) /\ UNCHANGED presets
    BY <1>3 DEF DeleteOverlayPreset, Rewritten
  <2>2. \A id \in DOMAIN presets : presets'[id] \in [name : Seq(Words), by : PresetCalls]
                                   /\ presets'[id].by = presets[id].by
    BY <1>2, <2>1 DEF PresetTypes
  <2>3. at \in PresetPlaces /\ at # "done" BY DEF PresetPlaces
  <2> QED BY <1>1, <2>1, <2>2, <2>3, PresetAnswered
<1>4. CASE presetCall[c].id \notin BuiltInIds /\ presetCall[c].id \in DOMAIN presets
  <2>1. PICK gone : gone = presetCall[c].id OBVIOUS
  <2>2. /\ presets' = [i \in DOMAIN presets \ {gone} |-> presets[i]]
        /\ presetCall' = [presetCall EXCEPT ![c].at = "done"]
    BY <1>4, <2>1 DEF DeleteOverlayPreset, Rewritten, AnswerPreset
  <2>3. PresetTypes' BY ZenonT(40), <1>2, <2>2 DEF PresetTypes, PresetPlaces
  <2>4. /\ \A d \in PresetCalls : d # c => presetCall'[d] = presetCall[d]
        /\ presetCall'[c].at = "done" /\ presetCall'[c].op = "delete" /\ presetCall'[c].id = gone
        /\ presetCall'[c].n = presetCall[c].n /\ presetCall'[c].name = presetCall[c].name
    BY ONLY <1>1, <1>2, <2>1, <2>2, c \in PresetCalls DEF PresetTypes
  <2>5. ~Created(c) /\ ~Deleted(c) /\ ~Created(c)' /\ Deleted(c)' BY <1>1, <2>4 DEF Created, Deleted
  <2>6. \A d \in PresetCalls : (Created(d)' <=> Created(d)) /\ (Deleted(d) => Deleted(d)' /\ d # c)
    BY <2>4, <2>5 DEF Created, Deleted
  <2>7. \A id \in DOMAIN presets' :
          /\ id \notin BuiltInIds
          /\ \E d \in PresetCalls : presets'[id].by = d /\ Created(d)' /\ presetCall'[d].id = id
    <3> TAKE id \in DOMAIN presets'
    <3>1. id \in DOMAIN presets /\ presets'[id] = presets[id] BY <2>2
    <3>2. id \notin BuiltInIds BY <3>1 DEF PresetInv
    <3>3. PICK d \in PresetCalls : presets[id].by = d /\ Created(d) /\ presetCall[d].id = id BY <3>1 DEF PresetInv
    <3>4. Created(d)' /\ presetCall'[d].id = id BY <2>4, <2>5, <2>6, <3>3
    <3> QED BY <3>1, <3>2, <3>3, <3>4
  <2>8. \A d \in PresetCalls : Created(d)' =>
         presetCall'[d].id = Candidate(presetCall'[d].name, presetCall'[d].n) /\ Kept(d)'
    <3> SUFFICES ASSUME NEW d \in PresetCalls, Created(d)
                 PROVE  presetCall'[d].id = Candidate(presetCall'[d].name, presetCall'[d].n) /\ Kept(d)'
      BY <2>6
    <3>1. presetCall'[d] = presetCall[d] BY <2>4, <2>5
    <3>2. presetCall[d].id = Candidate(presetCall[d].name, presetCall[d].n) /\ Kept(d) BY DEF PresetInv
    <3>i. PICK i : i = presetCall[d].id /\ i = presetCall'[d].id BY <3>1
    <3>3. ASSUME i = gone PROVE Kept(d)'
      <4>1. Deleted(c)' /\ presetCall'[c].id = presetCall'[d].id BY <2>4, <2>5, <3>i, <3>3
      <4> QED BY ONLY <4>1, c \in PresetCalls DEF Kept
    <3>4. ASSUME i # gone /\ i \in DOMAIN presets /\ presets[i].by = d PROVE Kept(d)'
      <4>1. i \in DOMAIN presets' /\ presets'[i].by = d BY <2>2, <3>4
      <4> QED BY ONLY <3>i, <4>1 DEF Kept
    <3>5. ASSUME \E e \in PresetCalls : Deleted(e) /\ presetCall[e].id = i PROVE Kept(d)'
      <4>1. PICK e \in PresetCalls : Deleted(e) /\ presetCall[e].id = i BY <3>5
      <4>2. presetCall'[e] = presetCall[e] /\ Deleted(e)' BY <2>4, <2>6, <4>1
      <4>3. presetCall'[e].id = presetCall'[d].id BY <4>1, <4>2, <3>i
      <4> QED BY ONLY <4>2, <4>3, e \in PresetCalls DEF Kept
    <3>6. Kept(d)' BY <3>2, <3>i, <3>3, <3>4, <3>5 DEF Kept
    <3> QED BY <3>1, <3>2, <3>6
  <2>9. \A d \in PresetCalls :
         Tried(d)' /\ (presetCall'[d].n \in Tries \/ (presetCall'[d].n = 0 /\ presetCall'[d].at = "new"))
    <3> TAKE d \in PresetCalls
    <3>1. Tried(d) /\ (presetCall[d].n \in Tries \/ (presetCall[d].n = 0 /\ presetCall[d].at = "new"))
      BY DEF PresetInv
    <3>2. presetCall'[d].n = presetCall[d].n /\ presetCall'[d].name = presetCall[d].name BY <2>4
    <3>3. \A e \in PresetCalls : Created(e) => Created(e)' /\ presetCall'[e].id = presetCall[e].id
      BY <2>4, <2>5, <2>6
    <3>4. Tried(d)' BY <3>1, <3>2, <3>3 DEF Tried
    <3>5. d = c => presetCall[d].n \in Tries BY <1>1, <3>1
    <3> QED BY <2>4, <3>1, <3>2, <3>4, <3>5
  <2> QED BY <2>3, <2>7, <2>8, <2>9 DEF PresetInv
<1> QED BY <1>3, <1>4

\* As many ids were tried as there are others, at most.
LEMMA TriesBound ==
  ASSUME PresetInv, NEW c \in PresetCalls, presetCall[c].at = "work",
         \/ Candidate(presetCall[c].name, presetCall[c].n) \in BuiltInIds
         \/ \E d \in PresetCalls : Created(d) /\ presetCall[d].id = Candidate(presetCall[c].name, presetCall[c].n)
  PROVE  presetCall[c].n + 1 \in Tries
<1>1. PICK n \in Tries : n = presetCall[c].n BY DEF PresetInv
<1>2. PICK name \in Seq(Words) : name = presetCall[c].name BY DEF PresetInv, PresetTypes
<1> DEFINE Others == PresetCalls \ {c}
           Image == {presetCall[d].id : d \in Others}
           f == [k \in 1 .. n |-> Candidate(name, k)]
           g == [d \in Others |-> presetCall[d].id]
<1>3. n \in Nat /\ 1 .. n \subseteq Tries BY BuiltInsCounted DEF Tries
<1>4. IsFiniteSet(Others) /\ Cardinality(Others) = Cardinality(PresetCalls) - 1
  BY PresetsAssumption, FS_RemoveElement
<1>5. IsFiniteSet(Image) /\ Cardinality(Image) <= Cardinality(Others)
  <2>1. g \in Surjection(Others, Image) BY DEF Surjection
  <2> HIDE DEF g, Image, Others
  <2> QED BY <1>4, <2>1, FS_Surjection
<1>6. ASSUME NEW k \in 1 .. n PROVE f[k] \in BuiltInIds \cup Image
  <2>1. \/ Candidate(name, k) \in BuiltInIds
        \/ \E d \in PresetCalls : Created(d) /\ presetCall[d].id = Candidate(name, k)
    <3>1. CASE k = n BY <1>1, <1>2, <3>1
    <3>2. CASE k < n
      <4>1. Tried(c) BY DEF PresetInv
      <4> QED BY <1>1, <1>2, <1>3, <3>2, <4>1 DEF Tried
    <3> QED BY <3>1, <3>2, <1>3
  <2>2. ~Created(c) BY DEF Created
  <2> QED BY <2>1, <2>2
<1>7. f \in Injection(1 .. n, BuiltInIds \cup Image)
  <2>1. \A j, k \in 1 .. n : f[j] = f[k] => j = k BY <1>3, CandidatesDiffer
  <2> QED BY <1>6, <2>1 DEF Injection, IsInjective
<1>8. IsFiniteSet(BuiltInIds \cup Image) /\
      Cardinality(BuiltInIds \cup Image) <= Cardinality(BuiltInIds) + Cardinality(Image)
  <2>1. PICK m : m = BuiltInIds \cap Image OBVIOUS
  <2>2. IsFiniteSet(m) BY <2>1, BuiltInsCounted, FS_Subset
  <2>3. Cardinality(m) \in Nat BY <2>2, FS_CardinalityType
  <2>4. Cardinality(Image) \in Nat BY <1>5, FS_CardinalityType
  <2> HIDE DEF Image
  <2>5. IsFiniteSet(BuiltInIds \cup Image)
        /\ Cardinality(BuiltInIds \cup Image) = Cardinality(BuiltInIds) + Cardinality(Image) - Cardinality(m)
    BY <1>5, <2>1, BuiltInsCounted, FS_Union
  <2> QED BY <2>3, <2>4, <2>5, BuiltInsCounted
<1>9. Cardinality(1 .. n) = n BY <1>3, FS_Interval
<1>10. n <= Cardinality(BuiltInIds \cup Image)
  <2> HIDE DEF f, Image
  <2> QED BY <1>7, <1>8, <1>9, FS_Injection
<1>11. Cardinality(Image) \in Nat /\ Cardinality(BuiltInIds \cup Image) \in Nat
  <2> HIDE DEF Image
  <2> QED BY <1>5, <1>8, FS_CardinalityType
<1>12. n + 1 <= Cardinality(PresetCalls) + Cardinality(BuiltInIds)
  <2> HIDE DEF Image, Others
  <2> QED BY <1>3, <1>4, <1>5, <1>8, <1>10, <1>11, BuiltInsCounted
<1> QED BY <1>1, <1>3, <1>12, BuiltInsCounted DEF Tries

\* A creation tries the next id, or saves its row under one that is free.
LEMMA PresetCreated == ASSUME PresetInv, NEW c \in PresetCalls, CreateOverlayPreset(c) PROVE PresetInv'
<1>1. presetCall[c].at = "work" /\ presetCall[c].op = "create" BY DEF CreateOverlayPreset, Working
<1>2. PresetTypes BY DEF PresetInv
<1>3. PICK n \in Tries : n = presetCall[c].n BY <1>1 DEF PresetInv
<1>4. PICK name \in Seq(Words) : name = presetCall[c].name BY <1>2 DEF PresetTypes
<1>5. PICK id \in Seq(Words) : id = Candidate(name, n) BY CandidateTyped
<1>6. n \in Nat /\ n >= 1 BY BuiltInsCounted DEF Tries
<1>7. ~Created(c) /\ ~Deleted(c) BY <1>1 DEF Created, Deleted
<1>8. CASE Taken(id)
  <2>1. presetCall' = [presetCall EXCEPT ![c].n = @ + 1] /\ UNCHANGED presets
    BY <1>3, <1>4, <1>5, <1>8 DEF CreateOverlayPreset
  <2>2. /\ \A d \in PresetCalls : d # c => presetCall'[d] = presetCall[d]
        /\ presetCall'[c].at = "work" /\ presetCall'[c].n = n + 1 /\ presetCall'[c].name = name
        /\ presetCall'[c].id = presetCall[c].id /\ presetCall'[c].op = "create"
    BY ONLY <1>1, <1>2, <1>3, <1>4, <2>1, c \in PresetCalls DEF PresetTypes
  <2>3. PresetTypes'
    <3>1. presetCall' = [presetCall EXCEPT ![c] = [presetCall[c] EXCEPT !.n = n + 1]] /\ n + 1 \in Nat
      BY <1>3, <1>6, <2>1
    <3>2. presetCall[c] \in [at : PresetPlaces, op : PresetOps, name : Seq(Words), id : Seq(Words), n : Nat]
      BY <1>2 DEF PresetTypes
    <3>3. [presetCall[c] EXCEPT !.n = n + 1] \in
            [at : PresetPlaces, op : PresetOps, name : Seq(Words), id : Seq(Words), n : Nat]
      BY ONLY <3>1, <3>2
    <3>4. presetCall' \in [PresetCalls ->
             [at : PresetPlaces, op : PresetOps, name : Seq(Words), id : Seq(Words), n : Nat]]
      BY ONLY <1>2, <3>1, <3>3 DEF PresetTypes
    <3> QED BY <1>2, <2>1, <3>4 DEF PresetTypes
  <2>4. \/ id \in BuiltInIds
        \/ \E d \in PresetCalls : Created(d) /\ presetCall[d].id = id
    BY <1>8 DEF Taken, PresetInv
  <2>5. n + 1 \in Tries BY <1>1, <1>3, <1>4, <1>5, <2>4, TriesBound
  <2>6. ~Created(c)' /\ ~Deleted(c)' BY <2>2 DEF Created, Deleted
  <2>7. \A d \in PresetCalls : (Created(d)' <=> Created(d)) /\ (Deleted(d)' <=> Deleted(d))
    BY <1>7, <2>2, <2>6 DEF Created, Deleted
  <2>8. \A d \in PresetCalls : Created(d) \/ Deleted(d) => presetCall'[d] = presetCall[d] BY <1>7, <2>2
  <2>9. \A i \in DOMAIN presets' :
          /\ i \notin BuiltInIds
          /\ \E d \in PresetCalls : presets'[i].by = d /\ Created(d)' /\ presetCall'[d].id = i
    <3> TAKE i \in DOMAIN presets'
    <3>1. i \in DOMAIN presets /\ presets'[i] = presets[i] BY <2>1
    <3>2. i \notin BuiltInIds BY <3>1 DEF PresetInv
    <3>3. PICK d \in PresetCalls : presets[i].by = d /\ Created(d) /\ presetCall[d].id = i BY <3>1 DEF PresetInv
    <3>4. Created(d)' /\ presetCall'[d].id = i BY <2>7, <2>8, <3>3
    <3> QED BY <3>1, <3>2, <3>3, <3>4
  <2>10. \A d \in PresetCalls : Created(d)' =>
         presetCall'[d].id = Candidate(presetCall'[d].name, presetCall'[d].n) /\ Kept(d)'
    <3> SUFFICES ASSUME NEW d \in PresetCalls, Created(d)
                 PROVE  presetCall'[d].id = Candidate(presetCall'[d].name, presetCall'[d].n) /\ Kept(d)'
      BY <2>7
    <3>1. presetCall'[d] = presetCall[d] BY <2>8
    <3>2. presetCall[d].id = Candidate(presetCall[d].name, presetCall[d].n) /\ Kept(d) BY DEF PresetInv
    <3>i. PICK i : i = presetCall[d].id /\ i = presetCall'[d].id BY <3>1
    <3>3. ASSUME i \in DOMAIN presets /\ presets[i].by = d PROVE Kept(d)' BY ONLY <2>1, <3>i, <3>3 DEF Kept
    <3>4. ASSUME \E e \in PresetCalls : Deleted(e) /\ presetCall[e].id = i PROVE Kept(d)'
      <4>1. PICK e \in PresetCalls : Deleted(e) /\ presetCall[e].id = i BY <3>4
      <4>2. presetCall'[e] = presetCall[e] /\ Deleted(e)' BY <2>7, <2>8, <4>1
      <4>3. presetCall'[e].id = presetCall'[d].id BY <4>1, <4>2, <3>i
      <4> QED BY ONLY <4>2, <4>3, e \in PresetCalls DEF Kept
    <3>5. Kept(d)' BY <3>2, <3>i, <3>3, <3>4 DEF Kept
    <3> QED BY <3>1, <3>2, <3>5
  <2>11. \A d \in PresetCalls :
         Tried(d)' /\ (presetCall'[d].n \in Tries \/ (presetCall'[d].n = 0 /\ presetCall'[d].at = "new"))
    <3> TAKE d \in PresetCalls
    <3>1. Tried(d) /\ (presetCall[d].n \in Tries \/ (presetCall[d].n = 0 /\ presetCall[d].at = "new"))
      BY DEF PresetInv
    <3>2. \A e \in PresetCalls : Created(e) => Created(e)' /\ presetCall'[e].id = presetCall[e].id
      BY <2>7, <2>8
    <3>3. CASE d # c
      <4>1. presetCall'[d] = presetCall[d] BY <2>2, <3>3
      <4>2. Tried(d)' BY <3>1, <3>2, <4>1 DEF Tried
      <4> QED BY <3>1, <4>1, <4>2
    <3>4. CASE d = c
      <4>1. \A k \in Tries : k < n + 1 =>
              Candidate(name, k) \in BuiltInIds
                \/ \E e \in PresetCalls : Created(e) /\ presetCall[e].id = Candidate(name, k)
        <5> TAKE k \in Tries
        <5>1. CASE k < n BY <1>3, <1>4, <3>1, <3>4, <5>1 DEF Tried
        <5>2. CASE k = n BY <1>5, <2>4, <5>2
        <5>3. k \in Nat BY BuiltInsCounted DEF Tries
        <5> QED BY <1>6, <5>1, <5>2, <5>3
      <4>2. Tried(d)' BY <2>2, <3>2, <3>4, <4>1 DEF Tried
      <4> QED BY <2>2, <2>5, <3>4, <4>2
    <3> QED BY <3>3, <3>4
  <2> QED BY <2>3, <2>9, <2>10, <2>11 DEF PresetInv
<1>9. CASE ~Taken(id)
  <2>1. presets' = Insert(presets, id, Row(c))
        /\ presetCall' = [presetCall EXCEPT ![c].id = id, ![c].at = "done"]
    BY <1>3, <1>4, <1>5, <1>9 DEF CreateOverlayPreset
  <2>2. /\ \A d \in PresetCalls : d # c => presetCall'[d] = presetCall[d]
        /\ presetCall'[c].at = "done" /\ presetCall'[c].n = n /\ presetCall'[c].name = name
        /\ presetCall'[c].id = id /\ presetCall'[c].op = "create"
    BY ONLY <1>1, <1>2, <1>3, <1>4, <2>1, c \in PresetCalls DEF PresetTypes
  <2>3. id \notin BuiltInIds /\ id \notin DOMAIN presets BY <1>9 DEF Taken
  <2>4. presets' = [i \in DOMAIN presets \cup {id} |-> IF i \in DOMAIN presets THEN presets[i]
                                                    ELSE [name |-> name, by |-> c]]
    BY <1>4, <2>1 DEF Insert, Row
  <2>5. PresetTypes'
    <3>1. presetCall' \in [PresetCalls ->
             [at : PresetPlaces, op : PresetOps, name : Seq(Words), id : Seq(Words), n : Nat]]
      <4>1. presetCall' = [presetCall EXCEPT ![c] = [[presetCall[c] EXCEPT !.id = id] EXCEPT !.at = "done"]]
        BY ONLY <1>2, <2>1, c \in PresetCalls DEF PresetTypes
      <4>2. presetCall[c] \in [at : PresetPlaces, op : PresetOps, name : Seq(Words), id : Seq(Words), n : Nat]
        BY <1>2 DEF PresetTypes
      <4>3. "done" \in PresetPlaces BY DEF PresetPlaces
      <4>4. [[presetCall[c] EXCEPT !.id = id] EXCEPT !.at = "done"] \in
              [at : PresetPlaces, op : PresetOps, name : Seq(Words), id : Seq(Words), n : Nat]
        BY ONLY <4>2, <4>3, id \in Seq(Words)
      <4> QED BY ONLY <1>2, <4>1, <4>4 DEF PresetTypes
    <3>2. \A i \in DOMAIN presets' : i \in Seq(Words) /\ presets'[i] \in [name : Seq(Words), by : PresetCalls]
      BY <1>2, <2>4 DEF PresetTypes
    <3> QED BY <3>1, <3>2 DEF PresetTypes
  <2>6. Created(c)' /\ ~Deleted(c)' BY <2>2 DEF Created, Deleted
  <2>7. \A d \in PresetCalls : (d # c => (Created(d)' <=> Created(d))) /\ (Deleted(d)' <=> Deleted(d))
    BY <1>7, <2>2, <2>6 DEF Created, Deleted
  <2>8. \A d \in PresetCalls : Created(d) \/ Deleted(d) => presetCall'[d] = presetCall[d] /\ d # c BY <1>7, <2>2
  <2>9. \A i \in DOMAIN presets' :
          /\ i \notin BuiltInIds
          /\ \E d \in PresetCalls : presets'[i].by = d /\ Created(d)' /\ presetCall'[d].id = i
    <3> TAKE i \in DOMAIN presets'
    <3>1. CASE i \in DOMAIN presets
      <4>1. presets'[i] = presets[i] BY <2>4, <3>1
      <4>2. i \notin BuiltInIds BY <3>1 DEF PresetInv
      <4>3. PICK d \in PresetCalls : presets[i].by = d /\ Created(d) /\ presetCall[d].id = i BY <3>1 DEF PresetInv
      <4>4. Created(d)' /\ presetCall'[d].id = i BY <2>7, <2>8, <4>3
      <4> QED BY <4>1, <4>2, <4>3, <4>4
    <3>2. CASE i = id /\ i \notin DOMAIN presets BY <2>2, <2>3, <2>4, <2>6, <3>2
    <3> QED BY <2>4, <3>1, <3>2
  <2>10. \A d \in PresetCalls : Created(d)' =>
         presetCall'[d].id = Candidate(presetCall'[d].name, presetCall'[d].n) /\ Kept(d)'
    <3> SUFFICES ASSUME NEW d \in PresetCalls, Created(d) \/ d = c
                 PROVE  presetCall'[d].id = Candidate(presetCall'[d].name, presetCall'[d].n) /\ Kept(d)'
      BY <2>7
    <3>0. CASE d = c
      <4>1. presetCall'[d].id = Candidate(presetCall'[d].name, presetCall'[d].n) BY <1>5, <2>2, <3>0
      <4>2. presetCall'[d].id \in DOMAIN presets' /\ presets'[presetCall'[d].id].by = d BY <2>2, <2>3, <2>4, <3>0
      <4>3. Kept(d)' BY ONLY <4>2 DEF Kept
      <4> QED BY <4>1, <4>3
    <3>7. CASE Created(d)
      <4>1. presetCall'[d] = presetCall[d] BY <2>8, <3>7
      <4>2. presetCall[d].id = Candidate(presetCall[d].name, presetCall[d].n) /\ Kept(d) BY <3>7 DEF PresetInv
      <4>i. PICK i : i = presetCall[d].id /\ i = presetCall'[d].id BY <4>1
      <4>3. ASSUME i \in DOMAIN presets /\ presets[i].by = d PROVE Kept(d)'
        <5>1. i \in DOMAIN presets' /\ presets'[i].by = d BY <2>4, <4>3
        <5> QED BY ONLY <4>i, <5>1 DEF Kept
      <4>4. ASSUME \E e \in PresetCalls : Deleted(e) /\ presetCall[e].id = i PROVE Kept(d)'
        <5>1. PICK e \in PresetCalls : Deleted(e) /\ presetCall[e].id = i BY <4>4
        <5>2. presetCall'[e] = presetCall[e] /\ Deleted(e)' BY <2>7, <2>8, <5>1
        <5>3. presetCall'[e].id = presetCall'[d].id BY <5>1, <5>2, <4>i
        <5> QED BY ONLY <5>2, <5>3, e \in PresetCalls DEF Kept
      <4>5. Kept(d)' BY <4>2, <4>i, <4>3, <4>4 DEF Kept
      <4> QED BY <4>1, <4>2, <4>5
    <3> QED BY <3>0, <3>7
  <2>11. \A d \in PresetCalls :
         Tried(d)' /\ (presetCall'[d].n \in Tries \/ (presetCall'[d].n = 0 /\ presetCall'[d].at = "new"))
    <3> TAKE d \in PresetCalls
    <3>1. Tried(d) /\ (presetCall[d].n \in Tries \/ (presetCall[d].n = 0 /\ presetCall[d].at = "new"))
      BY DEF PresetInv
    <3>2. \A e \in PresetCalls : Created(e) => Created(e)' /\ presetCall'[e].id = presetCall[e].id
      BY <2>7, <2>8
    <3>3. presetCall'[d].n = presetCall[d].n /\ presetCall'[d].name = presetCall[d].name BY <1>3, <1>4, <2>2
    <3>4. Tried(d)' BY <3>1, <3>2, <3>3 DEF Tried
    <3>5. d = c => presetCall[d].n \in Tries BY <1>3
    <3> QED BY <2>2, <3>1, <3>3, <3>4, <3>5
  <2> QED BY <2>5, <2>9, <2>10, <2>11 DEF PresetInv
<1> QED BY <1>8, <1>9

LEMMA PresetStep == ASSUME PresetInv, [PresetsNext]_presetVars PROVE PresetInv'
<1>1. CASE UNCHANGED presetVars
  BY <1>1 DEF presetVars, PresetInv, PresetTypes, Created, Deleted, Kept, Tried
<1>2. CASE PresetsNext
  <2>1. PICK c \in PresetCalls :
    \/ \E name \in PresetNames :
          \/ AskPreset(c, "create", name, <<>>)
          \/ \E id \in BuiltInIds \cup DOMAIN presets : AskPreset(c, "update", name, id)
    \/ \E id \in BuiltInIds \cup DOMAIN presets : AskPreset(c, "delete", <<>>, id)
    \/ CheckPreset(c) \/ StoreFails(c) \/ CreateOverlayPreset(c) \/ UpdateOverlayPreset(c) \/ DeleteOverlayPreset(c)
    BY <1>2 DEF PresetsNext
  <2>2. <<>> \in Seq(Words) /\ BuiltInIds \cup DOMAIN presets \subseteq Seq(Words)
    BY EmptySeq, BuiltInsCounted DEF PresetInv, PresetTypes
  <2>3. CASE \E name \in PresetNames : AskPreset(c, "create", name, <<>>)
    BY <2>2, <2>3, NamesTyped, PresetAsked
  <2>4. CASE \E name \in PresetNames : \E id \in BuiltInIds \cup DOMAIN presets : AskPreset(c, "update", name, id)
    BY <2>2, <2>4, NamesTyped, PresetAsked
  <2>5. CASE \E id \in BuiltInIds \cup DOMAIN presets : AskPreset(c, "delete", <<>>, id)
    BY <2>2, <2>5, PresetAsked
  <2>6. CASE CheckPreset(c) \/ StoreFails(c) BY <2>6, PresetChecked
  <2>7. CASE CreateOverlayPreset(c) BY <2>7, PresetCreated
  <2>8. CASE UpdateOverlayPreset(c) BY <2>8, PresetUpdated
  <2>9. CASE DeleteOverlayPreset(c) BY <2>9, PresetDeleted
  <2> QED BY <2>1, <2>3, <2>4, <2>5, <2>6, <2>7, <2>8, <2>9
<1> QED BY <1>1, <1>2

LEMMA PresetsFollow == ASSUME PresetInv PROVE PresetsApart
<1>1. ASSUME NEW id \in DOMAIN presets
      PROVE  /\ Shown(id) = [builtIn |-> FALSE, name |-> presets[id].name] /\ Listed[id] = Shown(id)
             /\ \E n \in 1 .. presetCall[presets[id].by].n : id = Candidate(presetCall[presets[id].by].name, n)
             /\ presetCall[presets[id].by].id = id
  <2>1. id \notin BuiltInIds BY DEF PresetInv
  <2>2. PICK d \in PresetCalls : presets[id].by = d /\ Created(d) /\ presetCall[d].id = id BY DEF PresetInv
  <2>3. Shown(id) = [builtIn |-> FALSE, name |-> presets[id].name] /\ Listed[id] = Shown(id)
    BY <2>1 DEF Shown, Listed
  <2>4. presetCall[d].n \in Tries BY <2>2 DEF PresetInv, Created
  <2>5. presetCall[d].n \in 1 .. presetCall[d].n BY <2>4, BuiltInsCounted DEF Tries
  <2>6. id = Candidate(presetCall[d].name, presetCall[d].n) BY <2>2 DEF PresetInv
  <2> QED BY <2>2, <2>3, <2>5, <2>6
<1>2. \A c \in PresetCalls : presetCall[c].n <= Cardinality(PresetCalls) + Cardinality(BuiltInIds)
  BY BuiltInsCounted DEF PresetInv, Tries
<1>3. ASSUME NEW c \in PresetCalls, NEW d \in PresetCalls, c # d, Created(c), Created(d),
             presetCall[c].id = presetCall[d].id
      PROVE  \E e \in PresetCalls : Deleted(e) /\ presetCall[e].id = presetCall[c].id
  <2>1. Kept(c) /\ Kept(d) BY <1>3 DEF PresetInv
  <2> QED BY <1>3, <2>1 DEF Kept
<1> QED BY <1>1, <1>2, <1>3 DEF PresetsApart, Created, Deleted

THEOREM PresetsAlwaysApart == PresetsSpec => []PresetsApart
<1>1. PresetsInit => PresetInv BY PresetInitInv
<1>2. PresetInv /\ [PresetsNext]_presetVars => PresetInv' BY PresetStep
<1>3. PresetInv => PresetsApart BY PresetsFollow
<1> QED BY <1>1, <1>2, <1>3, PTL DEF PresetsSpec

-----------------------------------------------------------------------------
(* StoreOpen *)

\* The migrations of a program after the first k.
Releases(o) == Cardinality(Embedded[o])
After(o, k) == [i \in 1 .. Releases(o) - k |-> k + i]

OpenPlaces == {"closed", "create", "begin", "check", "body", "record", "commit", "open"}
InTx == {"check", "body", "record", "commit"}

\* What is recorded is what was applied: the first n, for some n.
Applied(n) == appliedBodies = [i \in 1 .. n |-> i] /\ recordedRows = 1 .. n

\* An opener has the rest of its migrations left, after those it saw recorded;
\* in a transaction it is the one that holds the lock.
OpenerSound(o) ==
  /\ opener[o].at \in OpenPlaces
  /\ opener[o].body \in BOOLEAN /\ opener[o].row \in BOOLEAN
  /\ opener[o].at \notin {"closed", "create"} =>
       \E k \in 0 .. Releases(o) : opener[o].left = After(o, k) /\ 1 .. k \subseteq recordedRows
  /\ opener[o].at \in InTx => writeLock = {o} /\ opener[o].left # <<>>
  /\ opener[o].at \in {"body", "record", "commit"} => Missing(o)
  /\ opener[o].body <=> opener[o].at \in {"record", "commit"}
  /\ opener[o].row <=> opener[o].at = "commit"
  /\ opener[o].at = "open" => opener[o].left = <<>>

OpenInv ==
  /\ opener \in [Openers -> [at : OpenPlaces, left : Seq(Nat), body : BOOLEAN, row : BOOLEAN]]
  /\ writeLock = {} \/ \E o \in Openers : writeLock = {o}
  /\ \E n \in Nat : Applied(n)
  /\ \A o \in Openers : OpenerSound(o)

LEMMA ReleasesNat == ASSUME NEW o \in Openers PROVE Releases(o) \in Nat /\ Embedded[o] = 1 .. Releases(o)
BY OpenersAssumption, FS_CardinalityType DEF Releases

LEMMA ItsElements == ASSUME NEW S, NEW s \in Seq(S) PROVE s = [i \in 1 .. Len(s) |-> s[i]]
OBVIOUS

LEMMA AppendCounts ==
  ASSUME NEW n \in Nat PROVE Append([i \in 1 .. n |-> i], n + 1) = [i \in 1 .. n + 1 |-> i]
<1>1. [i \in 1 .. n |-> i] \in Seq(Nat) /\ Len([i \in 1 .. n |-> i]) = n OBVIOUS
<1>2. PICK s \in Seq(Nat) : s = [i \in 1 .. n |-> i] /\ Len(s) = n BY <1>1
<1>3. Append(s, n + 1) = [i \in 1 .. n + 1 |-> Append(s, n + 1)[i]]
  <2>1. Append(s, n + 1) \in Seq(Nat) /\ Len(Append(s, n + 1)) = n + 1 BY <1>2, AppendProperties
  <2> QED BY <2>1, ItsElements
<1>4. \A i \in 1 .. n + 1 : Append(s, n + 1)[i] = i BY <1>2, AppendProperties
<1> QED BY <1>2, <1>3, <1>4

LEMMA AfterSeq ==
  ASSUME NEW o \in Openers, NEW k \in 0 .. Releases(o)
  PROVE  /\ After(o, k) \in Seq(Nat) /\ Len(After(o, k)) = Releases(o) - k
         /\ After(o, k) # <<>> => k < Releases(o) /\ Head(After(o, k)) = k + 1 /\ Tail(After(o, k)) = After(o, k + 1)
         /\ After(o, k) = <<>> => k = Releases(o)
<1>1. Releases(o) \in Nat BY ReleasesNat
<1>2. Releases(o) - k \in Nat BY <1>1
<1>3. After(o, k) \in Seq(Nat) /\ Len(After(o, k)) = Releases(o) - k BY <1>1, <1>2 DEF After
<1>4. ASSUME k < Releases(o) PROVE Head(After(o, k)) = k + 1 /\ Tail(After(o, k)) = After(o, k + 1)
  <2>1. After(o, k) # <<>> BY <1>1, <1>3, <1>4
  <2>2. Head(After(o, k)) = After(o, k)[1] BY <1>3
  <2>3. After(o, k)[1] = k + 1 BY <1>1, <1>4 DEF After
  <2>4. /\ Tail(After(o, k)) \in Seq(Nat) /\ Len(Tail(After(o, k))) = Releases(o) - k - 1
        /\ \A i \in 1 .. Releases(o) - k - 1 : Tail(After(o, k))[i] = After(o, k)[i + 1]
    BY <1>1, <1>3, <2>1, HeadTailProperties
  <2>5. \A i \in 1 .. Releases(o) - k - 1 : After(o, k)[i + 1] = (k + 1) + i
    BY <1>1 DEF After
  <2>6. Tail(After(o, k)) = [i \in 1 .. Releases(o) - (k + 1) |-> (k + 1) + i]
    <3> HIDE DEF After
    <3> DEFINE t == Tail(After(o, k))
    <3>1. t = [i \in 1 .. Len(t) |-> t[i]] BY <2>4, ItsElements
    <3>2. Len(t) = Releases(o) - (k + 1) BY <2>4, <1>1
    <3> QED BY <3>1, <3>2, <2>4, <2>5, <1>1
  <2> QED BY <2>2, <2>3, <2>6 DEF After
<1>5. After(o, k) # <<>> => k < Releases(o) BY <1>1, <1>3
<1>6. After(o, k) = <<>> => k = Releases(o) BY <1>1, <1>3
<1> QED BY <1>3, <1>4, <1>5, <1>6

LEMMA MigrationsAll == ASSUME NEW o \in Openers PROVE Migrations(o) = After(o, 0)
<1> DEFINE n == Cardinality(Embedded[o])
           Below(v) == Cardinality({w \in Embedded[o] : w < v})
<1>1. n \in Nat /\ Embedded[o] = 1 .. n BY ReleasesNat DEF Releases
<1>2. ASSUME NEW v \in 1 .. n PROVE Below(v) = v - 1
  <2>1. {w \in Embedded[o] : w < v} = 1 .. v - 1 BY <1>1
  <2>2. Cardinality(1 .. v - 1) = v - 1 BY <1>1, FS_Interval
  <2> QED BY <2>1, <2>2
<1>3. ASSUME NEW i \in 1 .. n PROVE (CHOOSE v \in Embedded[o] : Below(v) = i - 1) = i
  <2>1. Below(i) = i - 1 BY <1>2
  <2>2. \A v \in Embedded[o] : Below(v) = i - 1 => v = i
    <3> SUFFICES ASSUME NEW v \in Embedded[o], Below(v) = i - 1 PROVE v = i OBVIOUS
    <3>1. v \in 1 .. n BY <1>1
    <3>2. Below(v) = v - 1 BY <3>1, <1>2
    <3> HIDE DEF Below, n
    <3>3. v - 1 = i - 1 BY <3>2
    <3> QED BY <3>1, <3>3, <1>1
  <2>3. i \in Embedded[o] BY <1>1
  <2> HIDE DEF Below
  <2> QED BY <2>1, <2>2, <2>3
<1>4. Migrations(o) = [i \in 1 .. n |-> CHOOSE v \in Embedded[o] : Below(v) = i - 1] BY DEF Migrations
<1> HIDE DEF Below
<1>5. Migrations(o) = [i \in 1 .. n |-> i] BY <1>3, <1>4
<1>6. [i \in 1 .. n |-> i] = After(o, 0) BY <1>1 DEF After, Releases
<1> QED BY <1>5, <1>6

\* Who holds the lock is the only opener in a transaction.
LEMMA OneInTx ==
  ASSUME OpenInv, NEW o \in Openers, NEW p \in Openers, writeLock = {} \/ writeLock = {o}, p # o
  PROVE  opener[p].at \notin InTx
BY DEF OpenInv, OpenerSound

LEMMA OthersSound ==
  ASSUME OpenInv, NEW p \in Openers, opener'[p] = opener[p], recordedRows \subseteq recordedRows',
         opener[p].at \in InTx => writeLock' = writeLock /\ recordedRows' = recordedRows
  PROVE  OpenerSound(p)'
<1> USE DEF OpenInv
<1>1. opener[p] \in [at : OpenPlaces, left : Seq(Nat), body : BOOLEAN, row : BOOLEAN] OBVIOUS
<1>2. OpenerSound(p) OBVIOUS
<1>3. \A k \in 0 .. Releases(p) : 1 .. k \subseteq recordedRows => 1 .. k \subseteq recordedRows' OBVIOUS
<1>4. opener[p].at \in {"body", "record", "commit"} => Missing(p)' BY <1>2 DEF OpenerSound, Missing, InTx
<1>5. QED BY ONLY <1>1, <1>2, <1>3, <1>4, opener'[p] = opener[p],
              opener[p].at \in InTx => writeLock' = writeLock /\ recordedRows' = recordedRows
          DEF OpenerSound, After, Releases

LEMMA OpenInitInv == ASSUME OpenInit PROVE OpenInv
<1> USE DEF OpenInit
<1>1. <<>> \in Seq(Nat) OBVIOUS
<1>2. opener \in [Openers -> [at : OpenPlaces, left : Seq(Nat), body : BOOLEAN, row : BOOLEAN]]
  BY <1>1 DEF NotOpen, OpenPlaces
<1>3. Applied(0) BY DEF Applied
<1>4. ASSUME NEW o \in Openers PROVE OpenerSound(o)
  BY DEF OpenerSound, NotOpen, OpenPlaces, InTx
<1>5. QED BY <1>2, <1>3, <1>4 DEF OpenInv

LEMMA OpenStoreInv == ASSUME OpenInv, NEW o \in Openers, OpenStore(o) PROVE OpenInv'
<1> USE DEF OpenInv, OpenStore, OpenerAt, OpenerGoes, KeepDatabase
<1>1. opener[o] \in [at : OpenPlaces, left : Seq(Nat), body : BOOLEAN, row : BOOLEAN] OBVIOUS
<1>2. opener'[o] = [opener[o] EXCEPT !.at = "create"] OBVIOUS
<1>3. opener' \in [Openers -> [at : OpenPlaces, left : Seq(Nat), body : BOOLEAN, row : BOOLEAN]]
  BY <1>1 DEF OpenPlaces
<1>4. OpenerSound(o)' BY <1>1, <1>2 DEF OpenerSound, OpenPlaces, InTx
<1>5. ASSUME NEW p \in Openers, p # o PROVE OpenerSound(p)' BY <1>5, OthersSound
<1>6. QED BY <1>3, <1>4, <1>5 DEF Applied

LEMMA CreateVersionsInv == ASSUME OpenInv, NEW o \in Openers, CreateVersionsTable(o) PROVE OpenInv'
<1> USE DEF OpenInv, CreateVersionsTable, OpenerAt
<1>1. opener[o] \in [at : OpenPlaces, left : Seq(Nat), body : BOOLEAN, row : BOOLEAN] OBVIOUS
<1>2. PICK l \in Seq(Nat) : l = Migrations(o) /\ l = After(o, 0)
  <2>1. 0 \in 0 .. Releases(o) BY ReleasesNat
  <2> QED BY <2>1, MigrationsAll, AfterSeq
<1>3. opener' = [opener EXCEPT ![o] = [opener[o] EXCEPT !.at = "begin", !.left = l]] BY <1>2
<1>4. opener'[o] = [opener[o] EXCEPT !.at = "begin", !.left = l] BY <1>3
<1>5. opener' \in [Openers -> [at : OpenPlaces, left : Seq(Nat), body : BOOLEAN, row : BOOLEAN]]
  <2>1. [opener[o] EXCEPT !.at = "begin", !.left = l]
          \in [at : OpenPlaces, left : Seq(Nat), body : BOOLEAN, row : BOOLEAN] BY <1>1 DEF OpenPlaces
  <2> QED BY <2>1, <1>3
<1>6. OpenerSound(o)'
  <2>1. 0 \in 0 .. Releases(o) /\ 1 .. 0 \subseteq recordedRows BY ReleasesNat
  <2>2. ~opener[o].body /\ ~opener[o].row BY DEF OpenerSound
  <2>3. opener'[o].at = "begin" /\ opener'[o].left = l /\ ~opener'[o].body /\ ~opener'[o].row
        /\ opener'[o].body \in BOOLEAN /\ opener'[o].row \in BOOLEAN
    BY ONLY <1>1, <1>4, <2>2
  <2> QED BY ONLY <2>1, <2>3, <1>2, UNCHANGED recordedRows, CreateVersionsTable(o)
          DEF OpenerSound, OpenPlaces, InTx, After, Releases, CreateVersionsTable
<1>7. ASSUME NEW p \in Openers, p # o PROVE OpenerSound(p)' BY <1>7, OthersSound
<1>8. QED BY <1>5, <1>6, <1>7 DEF Applied

LEMMA BeginTxInv == ASSUME OpenInv, NEW o \in Openers, BeginTx(o) PROVE OpenInv'
<1> USE DEF OpenInv, BeginTx, OpenerAt, OpenerGoes, KeepDatabase
<1>1. opener[o] \in [at : OpenPlaces, left : Seq(Nat), body : BOOLEAN, row : BOOLEAN] OBVIOUS
<1>2. opener'[o] = [opener[o] EXCEPT !.at = "check"] OBVIOUS
<1>3. opener' \in [Openers -> [at : OpenPlaces, left : Seq(Nat), body : BOOLEAN, row : BOOLEAN]]
  BY <1>1 DEF OpenPlaces
<1>4. OpenerSound(o)'
  <2>1. OpenerSound(o) OBVIOUS
  <2> QED BY <2>1, <1>1, <1>2 DEF OpenerSound, OpenPlaces, InTx, After, Releases
<1>5. ASSUME NEW p \in Openers, p # o PROVE OpenerSound(p)'
  <2>1. opener[p].at \notin InTx BY <1>5, OneInTx
  <2> QED BY <1>5, <2>1, OthersSound
<1>6. QED BY <1>3, <1>4, <1>5 DEF Applied

LEMMA CheckVersionInv == ASSUME OpenInv, NEW o \in Openers, CheckVersion(o) PROVE OpenInv'
<1> USE DEF OpenInv, CheckVersion, OpenerAt, OpenerGoes, KeepDatabase
<1>1. opener[o] \in [at : OpenPlaces, left : Seq(Nat), body : BOOLEAN, row : BOOLEAN] OBVIOUS
<1>2. OpenerSound(o) /\ opener[o].at = "check" /\ writeLock = {o} /\ opener[o].left # <<>>
      /\ ~opener[o].body /\ ~opener[o].row
  BY DEF OpenerSound, InTx
<1>3. PICK k \in 0 .. Releases(o) : opener[o].left = After(o, k) /\ 1 .. k \subseteq recordedRows
  BY <1>2 DEF OpenerSound
<1>4. ASSUME NEW p \in Openers, p # o PROVE OpenerSound(p)'
  <2>1. opener[p].at \notin InTx BY <1>2, <1>4, OneInTx
  <2>2. opener'[p] = opener[p] BY <1>4
  <2> QED BY <1>4, <2>1, <2>2, OthersSound
<1>5. CASE Missing(o)
  <2>1. opener'[o] = [opener[o] EXCEPT !.at = "body"] /\ writeLock' = writeLock BY <1>5
  <2>2. opener' \in [Openers -> [at : OpenPlaces, left : Seq(Nat), body : BOOLEAN, row : BOOLEAN]]
    <3>1. [opener[o] EXCEPT !.at = "body"] \in [at : OpenPlaces, left : Seq(Nat), body : BOOLEAN, row : BOOLEAN]
      BY <1>1 DEF OpenPlaces
    <3>2. opener' = [opener EXCEPT ![o] = [opener[o] EXCEPT !.at = "body"]] BY <1>5
    <3>3. QED BY ONLY <3>1, <3>2, OpenInv DEF OpenInv
  <2>3. Missing(o)' BY <1>5, <2>1, <1>1 DEF Missing
  <2>4. OpenerSound(o)' BY <1>1, <1>2, <2>1, <2>3 DEF OpenerSound, OpenPlaces, InTx, After, Releases
  <2> QED BY <1>4, <2>1, <2>2, <2>4 DEF Applied
<1>6. CASE ~Missing(o)
  <2>1. opener' = [opener EXCEPT ![o] = [opener[o] EXCEPT !.at = "begin", !.left = Tail(opener[o].left)]]
        /\ writeLock' = {}
    BY <1>6
  <2>2. Releases(o) \in Nat /\ k < Releases(o) /\ Head(opener[o].left) = k + 1
        /\ Tail(opener[o].left) = After(o, k + 1)
    BY <1>2, <1>3, AfterSeq, ReleasesNat
  <2>3. k + 1 \in 0 .. Releases(o) BY <2>2
  <2>4. PICK l \in Seq(Nat) : l = Tail(opener[o].left) /\ l = After(o, k + 1) BY <2>2, <2>3, AfterSeq
  <2>5. opener'[o] = [opener[o] EXCEPT !.at = "begin", !.left = l] BY <2>1, <2>4
  <2>6. [opener[o] EXCEPT !.at = "begin", !.left = l]
          \in [at : OpenPlaces, left : Seq(Nat), body : BOOLEAN, row : BOOLEAN] BY <1>1 DEF OpenPlaces
  <2>7. opener' \in [Openers -> [at : OpenPlaces, left : Seq(Nat), body : BOOLEAN, row : BOOLEAN]]
    BY <2>1, <2>4, <2>6
  <2>8. 1 .. k + 1 \subseteq recordedRows
    <3>1. k + 1 \in recordedRows BY <1>6, <2>2 DEF Missing
    <3>2. 1 .. k + 1 = (1 .. k) \cup {k + 1} OBVIOUS
    <3> QED BY <3>1, <3>2, <1>3
  <2>9. opener'[o].at = "begin" /\ opener'[o].left = l /\ ~opener'[o].body /\ ~opener'[o].row
        /\ opener'[o].body \in BOOLEAN /\ opener'[o].row \in BOOLEAN
    BY ONLY <1>1, <1>2, <2>5
  <2>10. recordedRows' = recordedRows OBVIOUS
  <2>11. OpenerSound(o)'
    BY ONLY <2>3, <2>4, <2>8, <2>9, <2>10 DEF OpenerSound, OpenPlaces, InTx, After, Releases
  <2> QED BY <1>4, <2>1, <2>7, <2>11 DEF Applied
<1>7. QED BY <1>5, <1>6

LEMMA ExecBodyInv == ASSUME OpenInv, NEW o \in Openers, ExecBody(o) PROVE OpenInv'
<1> USE DEF OpenInv, ExecBody, OpenerAt, KeepDatabase
<1>1. opener[o] \in [at : OpenPlaces, left : Seq(Nat), body : BOOLEAN, row : BOOLEAN] OBVIOUS
<1>2. opener'[o] = [opener[o] EXCEPT !.at = "record", !.body = TRUE] OBVIOUS
<1>3. opener' \in [Openers -> [at : OpenPlaces, left : Seq(Nat), body : BOOLEAN, row : BOOLEAN]]
  BY <1>1 DEF OpenPlaces
<1>4. OpenerSound(o)'
  <2>1. OpenerSound(o) OBVIOUS
  <2>2. Missing(o)' BY <2>1, <1>1, <1>2 DEF OpenerSound, Missing
  <2> QED BY <2>1, <2>2, <1>1, <1>2 DEF OpenerSound, OpenPlaces, InTx, After, Releases
<1>5. ASSUME NEW p \in Openers, p # o PROVE OpenerSound(p)' BY <1>5, OthersSound
<1>6. QED BY <1>3, <1>4, <1>5 DEF Applied

LEMMA InsertVersionInv == ASSUME OpenInv, NEW o \in Openers, InsertVersion(o) PROVE OpenInv'
<1> USE DEF OpenInv, InsertVersion, OpenerAt, KeepDatabase
<1>1. opener[o] \in [at : OpenPlaces, left : Seq(Nat), body : BOOLEAN, row : BOOLEAN] OBVIOUS
<1>2. opener'[o] = [opener[o] EXCEPT !.at = "commit", !.row = TRUE] OBVIOUS
<1>3. opener' \in [Openers -> [at : OpenPlaces, left : Seq(Nat), body : BOOLEAN, row : BOOLEAN]]
  BY <1>1 DEF OpenPlaces
<1>4. OpenerSound(o)'
  <2>1. OpenerSound(o) OBVIOUS
  <2>2. Missing(o)' BY <2>1, <1>1, <1>2 DEF OpenerSound, Missing
  <2> QED BY <2>1, <2>2, <1>1, <1>2 DEF OpenerSound, OpenPlaces, InTx, After, Releases
<1>5. ASSUME NEW p \in Openers, p # o PROVE OpenerSound(p)' BY <1>5, OthersSound
<1>6. QED BY <1>3, <1>4, <1>5 DEF Applied

LEMMA CommitTxInv == ASSUME OpenInv, NEW o \in Openers, CommitTx(o) PROVE OpenInv'
<1> USE DEF OpenInv, CommitTx, OpenerAt
<1>1. opener[o] \in [at : OpenPlaces, left : Seq(Nat), body : BOOLEAN, row : BOOLEAN] OBVIOUS
<1>2. OpenerSound(o) /\ writeLock = {o} /\ opener[o].left # <<>> /\ Missing(o) /\ opener[o].body /\ opener[o].row
  BY DEF OpenerSound, InTx
<1>3. PICK k \in 0 .. Releases(o) : opener[o].left = After(o, k) /\ 1 .. k \subseteq recordedRows
  BY <1>2 DEF OpenerSound
<1>4. PICK n \in Nat : Applied(n) OBVIOUS
<1>5. Releases(o) \in Nat /\ k < Releases(o) /\ Head(opener[o].left) = k + 1
      /\ Tail(opener[o].left) = After(o, k + 1)
  BY <1>2, <1>3, AfterSeq, ReleasesNat
<1>6. k = n
  <2>1. 1 .. k \subseteq 1 .. n /\ k + 1 \notin 1 .. n BY <1>2, <1>3, <1>4, <1>5 DEF Missing, Applied
  <2>2. k >= 1 => k \in 1 .. n BY <2>1
  <2> QED BY <2>1, <2>2
<1>7. k + 1 \in 0 .. Releases(o) BY <1>5
<1>8. PICK l \in Seq(Nat) : l = Tail(opener[o].left) /\ l = After(o, k + 1) BY <1>5, <1>7, AfterSeq
<1>9. opener' = [opener EXCEPT ![o] = [at |-> "begin", left |-> l, body |-> FALSE, row |-> FALSE]]
  BY <1>8
<1>10. opener' \in [Openers -> [at : OpenPlaces, left : Seq(Nat), body : BOOLEAN, row : BOOLEAN]]
  <2>1. [at |-> "begin", left |-> l, body |-> FALSE, row |-> FALSE]
          \in [at : OpenPlaces, left : Seq(Nat), body : BOOLEAN, row : BOOLEAN] BY DEF OpenPlaces
  <2> QED BY <1>9, <2>1
<1>11. recordedRows' = 1 .. n + 1
  <2>1. recordedRows' = recordedRows \cup {k + 1} BY <1>2, <1>5
  <2>2. (1 .. n) \cup {n + 1} = 1 .. n + 1 OBVIOUS
  <2> QED BY ONLY <2>1, <2>2, <1>4, <1>6 DEF Applied
<1>12. appliedBodies' = [i \in 1 .. n + 1 |-> i]
  <2>1. appliedBodies' = Append(appliedBodies, k + 1) BY <1>2, <1>5
  <2> QED BY ONLY <2>1, <1>4, <1>6, n \in Nat, AppendCounts DEF Applied
<1>13. Applied(n + 1)' BY <1>11, <1>12 DEF Applied
<1>14. OpenerSound(o)'
  <2>1. 1 .. k + 1 \subseteq recordedRows' BY <1>6, <1>11
  <2>2. opener'[o] = [at |-> "begin", left |-> l, body |-> FALSE, row |-> FALSE]
    BY ONLY <1>9, OpenInv, o \in Openers DEF OpenInv
  <2>3. opener'[o].at = "begin" /\ opener'[o].left = l /\ ~opener'[o].body /\ ~opener'[o].row
        /\ opener'[o].body \in BOOLEAN /\ opener'[o].row \in BOOLEAN
    BY ONLY <2>2
  <2> QED BY ONLY <2>1, <2>3, <1>7, <1>8 DEF OpenerSound, OpenPlaces, InTx, After, Releases
<1>15. ASSUME NEW p \in Openers, p # o PROVE OpenerSound(p)'
  <2>1. opener[p].at \notin InTx BY <1>2, <1>15, OneInTx
  <2>2. opener'[p] = opener[p] /\ recordedRows \subseteq recordedRows' BY <1>15
  <2> QED BY <2>1, <2>2, OthersSound
<1>16. n + 1 \in Nat OBVIOUS
<1>17. QED BY <1>10, <1>13, <1>14, <1>15, <1>16

LEMMA StoreIsOpenInv == ASSUME OpenInv, NEW o \in Openers, StoreIsOpen(o) PROVE OpenInv'
<1> USE DEF OpenInv, StoreIsOpen, OpenerAt, OpenerGoes, KeepDatabase
<1>1. opener[o] \in [at : OpenPlaces, left : Seq(Nat), body : BOOLEAN, row : BOOLEAN] OBVIOUS
<1>2. opener'[o] = [opener[o] EXCEPT !.at = "open"] OBVIOUS
<1>3. opener' \in [Openers -> [at : OpenPlaces, left : Seq(Nat), body : BOOLEAN, row : BOOLEAN]]
  BY <1>1 DEF OpenPlaces
<1>4. OpenerSound(o)'
  <2>1. OpenerSound(o) OBVIOUS
  <2> QED BY <2>1, <1>1, <1>2 DEF OpenerSound, OpenPlaces, InTx, After, Releases
<1>5. ASSUME NEW p \in Openers, p # o PROVE OpenerSound(p)' BY <1>5, OthersSound
<1>6. QED BY <1>3, <1>4, <1>5 DEF Applied

LEMMA FailsOrDiesInv == ASSUME OpenInv, NEW o \in Openers, FailsOrDies(o) PROVE OpenInv'
<1> USE DEF OpenInv, FailsOrDies, KeepDatabase
<1>1. <<>> \in Seq(Nat) OBVIOUS
<1>2. opener'[o] = NotOpen OBVIOUS
<1>3. opener' \in [Openers -> [at : OpenPlaces, left : Seq(Nat), body : BOOLEAN, row : BOOLEAN]]
  BY <1>1 DEF OpenPlaces, NotOpen
<1>4. OpenerSound(o)' BY <1>2 DEF OpenerSound, OpenPlaces, InTx, NotOpen
<1>5. ASSUME NEW p \in Openers, p # o PROVE OpenerSound(p)'
  <2>1. opener[p].at \in InTx => writeLock = {p} BY DEF OpenerSound
  <2>2. opener[p].at \in InTx => writeLock' = writeLock BY <1>5, <2>1
  <2>3. opener'[p] = opener[p] /\ recordedRows' = recordedRows BY <1>5
  <2> QED BY ONLY OpenInv, p \in Openers, <2>2, <2>3, OthersSound
<1>6. writeLock' = {} \/ \E q \in Openers : writeLock' = {q}
  <2>1. CASE writeLock = {} BY <2>1
  <2>2. ASSUME NEW q \in Openers, writeLock = {q} PROVE writeLock' = {} \/ writeLock' = {q} BY <2>2
  <2> QED BY <2>1, <2>2
<1>7. PICK n \in Nat : Applied(n) OBVIOUS
<1>8. Applied(n)' BY <1>7 DEF Applied
<1>9. QED BY ONLY <1>3, <1>4, <1>5, <1>6, <1>8, n \in Nat DEF OpenInv

LEMMA OpenStep == ASSUME OpenInv, [OpenNext]_openVars PROVE OpenInv'
<1>1. CASE UNCHANGED openVars
  <2>1. ASSUME NEW p \in Openers PROVE OpenerSound(p)' BY <1>1, OthersSound DEF openVars
  <2> QED BY <1>1, <2>1 DEF OpenInv, openVars, Applied
<1>2. CASE OpenNext
  BY <1>2, OpenStoreInv, CreateVersionsInv, BeginTxInv, CheckVersionInv, ExecBodyInv, InsertVersionInv,
     CommitTxInv, StoreIsOpenInv, FailsOrDiesInv DEF OpenNext
<1> QED BY <1>1, <1>2

LEMMA OpenInvMeans == ASSUME OpenInv PROVE SchemaWhole
<1> USE DEF OpenInv
<1>1. PICK n \in Nat : Applied(n) OBVIOUS
<1>2. appliedBodies \in Seq(Nat) /\ Len(appliedBodies) = n /\ \A i \in 1 .. n : appliedBodies[i] = i
  BY <1>1 DEF Applied
<1>3. {appliedBodies[i] : i \in 1 .. Len(appliedBodies)} = recordedRows BY <1>1, <1>2 DEF Applied
<1>4. \A i, j \in 1 .. Len(appliedBodies) : i < j => appliedBodies[i] < appliedBodies[j] BY <1>2
<1>5. ASSUME NEW o \in Openers, OpenerAt(o, "open") PROVE Embedded[o] \subseteq recordedRows
  <2>1. opener[o].left = <<>> BY <1>5 DEF OpenerAt, OpenerSound
  <2>2. PICK k \in 0 .. Releases(o) : opener[o].left = After(o, k) /\ 1 .. k \subseteq recordedRows
    BY <1>5 DEF OpenerAt, OpenerSound
  <2>3. k = Releases(o) BY <2>1, <2>2, AfterSeq
  <2>4. Embedded[o] = 1 .. k BY <2>3, ReleasesNat
  <2> QED BY ONLY <2>2, <2>4
<1>6. Cardinality(writeLock) <= 1
  <2>1. Cardinality({}) = 0 BY FS_EmptySet
  <2>2. \A o \in Openers : Cardinality({o}) = 1 BY FS_Singleton
  <2>3. writeLock = {} \/ \E o \in Openers : writeLock = {o} OBVIOUS
  <2> QED BY ONLY <2>1, <2>2, <2>3
<1> QED BY <1>3, <1>4, <1>5, <1>6 DEF SchemaWhole

\* store.go, Open: whichever programs open the database, of whatever releases,
\* and wherever each fails or dies, a migration's statements are in it once, in
\* the order of the versions and exactly if it is recorded, and an opened store
\* has all of its program's.
THEOREM SchemaAlwaysWhole == OpenSpec => []SchemaWhole
<1>1. OpenInit => OpenInv BY OpenInitInv
<1>2. OpenInv /\ [OpenNext]_openVars => OpenInv' BY OpenStep
<1>3. OpenInv => SchemaWhole BY OpenInvMeans
<1>4. QED BY <1>1, <1>2, <1>3, PTL DEF OpenSpec

-----------------------------------------------------------------------------
(* HardwareCheck: benchmarks *)

BenchPlaces == {"idle", "start", "warm", "drain", "hear", "translate", "keep", "truncate", "write"}
Clips == [run : Nat, open : BOOLEAN, feeder : BOOLEAN, fed : BOOLEAN, left : Int, finals : Int,
          failed : BOOLEAN, cancelled : BOOLEAN]

BenchFiles == Nat \cup {TornBench}

BenchTypes ==
  /\ benchLock \subseteq BenchCalls
  /\ benchAt \in [BenchCalls -> BenchPlaces]
  /\ clip \in [BenchCalls -> Clips]
  /\ lastBench \in Nat /\ benchFile \in BenchFiles /\ unsaved \in BOOLEAN /\ benchmarks \in Nat

\* The file is the last result, or torn when there is none to tell.
FileTells == benchFile = lastBench \/ (benchFile = TornBench /\ lastBench = NoBench)

\* One call has the lock and works; its stream is open only in its hands, the
\* result it saves is the last one, and while nobody saves the file tells it.
BenchInv ==
  /\ BenchTypes
  /\ \A c, d \in benchLock : c = d
  /\ \A c \in BenchCalls :
       /\ benchAt[c] # "idle" <=> c \in benchLock
       /\ clip[c].open => benchAt[c] \in {"warm", "drain", "hear"}
       /\ benchAt[c] \in {"truncate", "write"} => lastBench = clip[c].run
  /\ unsaved \/ (\E c \in BenchCalls : benchAt[c] \in {"truncate", "write"}) \/ FileTells

\* A call that goes on, or ends, with its clip as it may be at that place.
LEMMA BenchGoes ==
  ASSUME BenchInv, NEW c \in BenchCalls, NEW at \in BenchPlaces, NEW s \in Clips,
         benchAt' = [benchAt EXCEPT ![c] = at], clip' = [clip EXCEPT ![c] = s],
         IF at = "idle" THEN benchLock' = benchLock \ {c} ELSE benchLock' = benchLock /\ c \in benchLock,
         s.run = clip[c].run, s.open => at \in {"warm", "drain", "hear"},
         at \in {"truncate", "write"} => lastBench' = s.run,
         at \notin {"truncate", "write"} => lastBench' = lastBench,
         c \in benchLock \/ at = "idle",
         lastBench' \in Nat, benchFile' \in BenchFiles, unsaved' \in BOOLEAN, benchmarks' \in Nat,
         lastBench' = lastBench \/ c \in benchLock,
         unsaved' \/ at \in {"truncate", "write"} \/ FileTells'
           \/ (benchAt[c] \notin {"truncate", "write"} /\ UNCHANGED <<lastBench, benchFile, unsaved>>)
  PROVE  BenchInv'
<1> USE DEF BenchInv
<1>1. BenchTypes' BY DEF BenchTypes
<1>2. \A d \in BenchCalls : d # c => benchAt'[d] = benchAt[d] /\ clip'[d] = clip[d] BY DEF BenchTypes
<1>3. benchAt'[c] = at /\ clip'[c] = s BY DEF BenchTypes
<1>4. \A d, e \in benchLock' : d = e OBVIOUS
<1>5. ASSUME NEW d \in BenchCalls
      PROVE  /\ benchAt'[d] # "idle" <=> d \in benchLock'
             /\ clip'[d].open => benchAt'[d] \in {"warm", "drain", "hear"}
             /\ benchAt'[d] \in {"truncate", "write"} => lastBench' = clip'[d].run
  <2>1. CASE d = c BY <1>3, <2>1
  <2>2. CASE d # c
    <3>1. d \in benchLock => c \notin benchLock BY <2>2
    <3>2. benchAt[d] \in {"truncate", "write"} => d \in benchLock OBVIOUS
    <3> QED BY <1>2, <2>2, <3>1, <3>2
  <2> QED BY <2>1, <2>2
<1>6. unsaved' \/ (\E d \in BenchCalls : benchAt'[d] \in {"truncate", "write"}) \/ FileTells'
  <2>1. CASE at \in {"truncate", "write"} BY <1>3, <2>1
  <2>2. CASE unsaved' \/ FileTells' BY <2>2
  <2>3. CASE benchAt[c] \notin {"truncate", "write"} /\ UNCHANGED <<lastBench, benchFile, unsaved>>
    <3>1. ASSUME NEW d \in BenchCalls, benchAt[d] \in {"truncate", "write"}
          PROVE  benchAt'[d] \in {"truncate", "write"}
      BY <1>2, <2>3, <3>1
    <3> QED BY <3>1, <2>3 DEF FileTells
  <2> QED BY <2>1, <2>2, <2>3
<1> QED BY <1>1, <1>4, <1>5, <1>6

\* A clip that changes while its call stays where it is.
LEMMA ClipChanges ==
  ASSUME BenchInv, NEW c \in BenchCalls, NEW s \in Clips,
         clip' = [clip EXCEPT ![c] = s], s.run = clip[c].run,
         s.open => benchAt[c] \in {"warm", "drain", "hear"},
         UNCHANGED <<benchLock, benchAt, benchmarks, lastBench, benchFile, unsaved>>
  PROVE  BenchInv'
<1> USE DEF BenchInv
<1>1. BenchTypes' BY DEF BenchTypes
<1>2. clip'[c] = s /\ \A d \in BenchCalls : d # c => clip'[d] = clip[d] BY DEF BenchTypes
<1>3. ASSUME NEW d \in BenchCalls
      PROVE  /\ benchAt'[d] # "idle" <=> d \in benchLock'
             /\ clip'[d].open => benchAt'[d] \in {"warm", "drain", "hear"}
             /\ benchAt'[d] \in {"truncate", "write"} => lastBench' = clip'[d].run
  BY <1>2
<1> QED BY <1>1, <1>3 DEF FileTells

LEMMA NoClipFits ==
  NoClip \in Clips /\ ~NoClip.open
  /\ \A n \in Nat : [NoClip EXCEPT !.run = n] \in Clips /\ ~[NoClip EXCEPT !.run = n].open
<1>1. NoClip \in Clips /\ ~NoClip.open BY DEF NoClip, Clips
<1>2. ASSUME NEW n \in Nat PROVE [NoClip EXCEPT !.run = n] \in Clips BY <1>1 DEF Clips
<1>3. ASSUME NEW n \in Nat PROVE ~[NoClip EXCEPT !.run = n].open BY DEF NoClip
<1> QED BY <1>1, <1>2, <1>3

LEMMA BenchInitInv == ASSUME HardwareInit PROVE BenchInv
<1> USE DEF HardwareInit
<1>1. NoClip \in Clips /\ ~NoClip.open BY NoClipFits
<1>2. BenchTypes
  <2>1. clip \in [BenchCalls -> Clips]
    <3> HIDE DEF NoClip
    <3> QED BY <1>1
  <2>2. benchAt \in [BenchCalls -> BenchPlaces] BY DEF BenchPlaces
  <2>3. benchLock = {} /\ lastBench = 0 /\ benchFile = 0 /\ unsaved \in BOOLEAN /\ benchmarks = 0
    BY DEF NoBench
  <2> QED BY ONLY <2>1, <2>2, <2>3 DEF BenchTypes, BenchFiles
<1>3. \A c \in BenchCalls : benchAt[c] = "idle" /\ clip[c] = NoClip OBVIOUS
<1>4. QED BY <1>1, <1>2, <1>3 DEF BenchInv, FileTells

LEMMA BenchReturnsInv ==
  ASSUME BenchInv, NEW c \in BenchCalls, BenchReturns(c), benchAt[c] # "idle", ~clip[c].open,
         UNCHANGED <<benchmarks, lastBench>>, benchFile' \in BenchFiles, unsaved' \in BOOLEAN,
         unsaved' \/ FileTells'
           \/ (benchAt[c] \notin {"truncate", "write"} /\ UNCHANGED <<benchFile, unsaved>>)
  PROVE  BenchInv'
<1>1. clip[c] \in Clips /\ lastBench \in Nat /\ benchmarks \in Nat BY DEF BenchInv, BenchTypes
<1> DEFINE s == [clip[c] EXCEPT !.cancelled = TRUE]
<1>2. s \in Clips /\ s.run = clip[c].run /\ ~s.open BY <1>1 DEF Clips
<1>3. clip' = [clip EXCEPT ![c] = s] BY DEF BenchReturns
<1>4. c \in benchLock BY DEF BenchInv
<1> HIDE DEF s
<1>5. benchAt' = [benchAt EXCEPT ![c] = "idle"] /\ benchLock' = benchLock \ {c} BY DEF BenchReturns, Go
<1>6. "idle" \in BenchPlaces BY DEF BenchPlaces
<1>7. lastBench' = lastBench /\ lastBench' \in Nat /\ benchmarks' \in Nat BY <1>1
<1>8. unsaved' \/ FileTells'
        \/ (benchAt[c] \notin {"truncate", "write"} /\ UNCHANGED <<lastBench, benchFile, unsaved>>)
  OBVIOUS
<1> QED BY ONLY BenchInv, c \in BenchCalls, <1>2, <1>3, <1>4, <1>5, <1>6, <1>7, <1>8,
             benchFile' \in BenchFiles, unsaved' \in BOOLEAN, BenchGoes

LEMMA BenchStarts == ASSUME BenchInv, NEW c \in BenchCalls, Bench(c) PROVE BenchInv'
<1> USE DEF BenchInv, Bench, KeepResult
<1>1. CASE CanBench
  <2>1. benchmarks' \in Nat BY HardwareAssumption DEF BenchTypes
  <2> DEFINE s == [NoClip EXCEPT !.run = benchmarks']
  <2>2. s \in Clips /\ ~s.open BY <2>1, NoClipFits
  <2>3. clip' = [clip EXCEPT ![c] = s] /\ benchAt' = [benchAt EXCEPT ![c] = "start"]
        /\ benchLock' = {c}
    BY <1>1 DEF Go, CanBench
  <2> HIDE DEF s
  <2>4. BenchTypes' BY <2>1, <2>2, <2>3 DEF BenchTypes, BenchPlaces
  <2>5. \A d \in BenchCalls : d # c => benchAt'[d] = benchAt[d] /\ clip'[d] = clip[d]
    BY <2>3 DEF BenchTypes
  <2>6. benchAt'[c] = "start" /\ clip'[c] = s BY <2>3 DEF BenchTypes
  <2>7. \A d \in BenchCalls : benchAt[d] = "idle" BY <1>1 DEF CanBench
  <2>8. ASSUME NEW d \in BenchCalls
        PROVE  /\ benchAt'[d] # "idle" <=> d \in benchLock'
               /\ clip'[d].open => benchAt'[d] \in {"warm", "drain", "hear"}
               /\ benchAt'[d] \in {"truncate", "write"} => lastBench' = clip'[d].run
    BY <2>2, <2>3, <2>5, <2>6, <2>7
  <2>9. unsaved \/ FileTells BY <2>7
  <2> QED BY <2>3, <2>4, <2>8, <2>9 DEF FileTells
<1>2. CASE ~CanBench
  <2>1. benchmarks' \in Nat BY HardwareAssumption DEF BenchTypes
  <2> QED BY <1>2, <2>1 DEF BenchTypes, FileTells
<1> QED BY <1>1, <1>2

LEMMA StartAsrInv ==
  ASSUME BenchInv, NEW c \in BenchCalls, NEW fails \in BOOLEAN, StartAsr(c, fails) PROVE BenchInv'
<1> USE DEF BenchInv, StartAsr, KeepResult
<1>1. clip[c] \in Clips /\ lastBench \in Nat /\ benchmarks \in Nat /\ benchFile \in BenchFiles /\ unsaved \in BOOLEAN
  BY DEF BenchTypes
<1>2. ~clip[c].open OBVIOUS
<1>3. CASE fails BY <1>1, <1>2, <1>3, BenchReturnsInv
<1>4. CASE ~fails
  <2> DEFINE s == [clip[c] EXCEPT !.open = TRUE]
  <2>1. s \in Clips /\ s.run = clip[c].run BY <1>1 DEF Clips
  <2>2. clip' = [clip EXCEPT ![c] = s] /\ c \in benchLock BY <1>4
  <2> HIDE DEF s
  <2> QED BY <1>1, <1>4, <2>1, <2>2, BenchGoes DEF Go, BenchPlaces
<1> QED BY <1>3, <1>4

LEMMA WarmGemmaInv ==
  ASSUME BenchInv, NEW c \in BenchCalls, NEW fails \in BOOLEAN, WarmGemma(c, fails) PROVE BenchInv'
<1> USE DEF BenchInv, WarmGemma, KeepResult
<1>1. clip[c] \in Clips /\ lastBench \in Nat /\ benchmarks \in Nat /\ benchFile \in BenchFiles /\ unsaved \in BOOLEAN
  BY DEF BenchTypes
<1>2. c \in benchLock OBVIOUS
<1>3. CASE fails \/ clip[c].cancelled
  <2> DEFINE s == [clip[c] EXCEPT !.cancelled = TRUE]
  <2>1. s \in Clips /\ s.run = clip[c].run BY <1>1 DEF Clips
  <2>2. clip' = [clip EXCEPT ![c] = s] BY <1>3 DEF WarmFails
  <2> HIDE DEF s
  <2> QED BY <1>1, <1>2, <1>3, <2>1, <2>2, BenchGoes DEF Go, BenchPlaces, WarmFails
<1>4. CASE ~(fails \/ clip[c].cancelled)
  <2> DEFINE s == [clip[c] EXCEPT !.feeder = TRUE, !.left = ClipFrames]
  <2>0. ClipFrames \in Int BY HardwareAssumption
  <2>1. s \in Clips /\ s.run = clip[c].run BY <1>1, <2>0 DEF Clips
  <2>2. clip' = [clip EXCEPT ![c] = s] BY ZenonT(40), <1>4
  <2> HIDE DEF s
  <2> QED BY <1>1, <1>2, <1>4, <2>1, <2>2, BenchGoes DEF Go, BenchPlaces
<1> QED BY <1>3, <1>4

LEMMA BenchTimeoutInv == ASSUME BenchInv, NEW c \in BenchCalls, BenchTimeout(c) PROVE BenchInv'
<1> USE DEF BenchInv, BenchTimeout, KeepResult
<1>1. clip[c] \in Clips BY DEF BenchTypes
<1> DEFINE s == [clip[c] EXCEPT !.cancelled = TRUE]
<1>2. s \in Clips /\ s.run = clip[c].run /\ s.open = clip[c].open BY <1>1 DEF Clips
<1>3. clip' = [clip EXCEPT ![c] = s] OBVIOUS
<1> HIDE DEF s
<1>4. UNCHANGED <<benchLock, benchAt, benchmarks, lastBench, benchFile, unsaved>> OBVIOUS
<1>5. s.open => benchAt[c] \in {"warm", "drain", "hear"} BY <1>2
<1> QED BY ONLY BenchInv, c \in BenchCalls, <1>2, <1>3, <1>4, <1>5, ClipChanges

LEMMA FeedInv == ASSUME BenchInv, NEW c \in BenchCalls, Feed(c) PROVE BenchInv'
<1> USE DEF BenchInv, Feed, KeepResult
<1>1. clip[c] \in Clips BY DEF BenchTypes
<1>2. PICK s \in Clips : clip' = [clip EXCEPT ![c] = s] /\ s.run = clip[c].run /\ s.open = clip[c].open
  <2>1. CASE clip' = [clip EXCEPT ![c].left = @ - 1]
    <3>1. [clip[c] EXCEPT !.left = @ - 1] \in Clips BY <1>1 DEF Clips
    <3>2. [clip[c] EXCEPT !.left = @ - 1].run = clip[c].run /\ [clip[c] EXCEPT !.left = @ - 1].open = clip[c].open
      BY <1>1 DEF Clips
    <3> QED BY <2>1, <3>1, <3>2
  <2>2. CASE clip' = [clip EXCEPT ![c].feeder = FALSE, ![c].fed = TRUE]
    <3>1. [clip[c] EXCEPT !.feeder = FALSE, !.fed = TRUE] \in Clips BY <1>1 DEF Clips
    <3>2. /\ [clip[c] EXCEPT !.feeder = FALSE, !.fed = TRUE].run = clip[c].run
          /\ [clip[c] EXCEPT !.feeder = FALSE, !.fed = TRUE].open = clip[c].open
      BY <1>1 DEF Clips
    <3>3. clip' = [clip EXCEPT ![c] = [clip[c] EXCEPT !.feeder = FALSE, !.fed = TRUE]]
      BY <2>2 DEF BenchTypes
    <3> QED BY <3>1, <3>2, <3>3
  <2> QED BY <2>1, <2>2
<1> QED BY <1>2, ClipChanges

LEMMA AsrEventInv ==
  ASSUME BenchInv, NEW c \in BenchCalls, NEW err \in BOOLEAN, AsrEvent(c, err) PROVE BenchInv'
<1> USE DEF BenchInv, AsrEvent, KeepResult
<1>1. clip[c] \in Clips BY DEF BenchTypes
<1>2. PICK s \in Clips : clip' = [clip EXCEPT ![c] = s] /\ s.run = clip[c].run /\ s.open = clip[c].open
  <2>1. CASE clip' = [clip EXCEPT ![c].failed = TRUE]
    <3>1. [clip[c] EXCEPT !.failed = TRUE] \in Clips BY <1>1 DEF Clips
    <3>2. [clip[c] EXCEPT !.failed = TRUE].run = clip[c].run /\ [clip[c] EXCEPT !.failed = TRUE].open = clip[c].open
      BY <1>1 DEF Clips
    <3> QED BY <2>1, <3>1, <3>2
  <2>2. CASE clip' = [clip EXCEPT ![c].finals = @ + 1]
    <3>1. [clip[c] EXCEPT !.finals = @ + 1] \in Clips BY <1>1 DEF Clips
    <3>2. [clip[c] EXCEPT !.finals = @ + 1].run = clip[c].run /\ [clip[c] EXCEPT !.finals = @ + 1].open = clip[c].open
      BY <1>1 DEF Clips
    <3> QED BY <2>2, <3>1, <3>2
  <2> QED BY <2>1, <2>2
<1> QED BY <1>2, ClipChanges

LEMMA AsrEndsInv == ASSUME BenchInv, NEW c \in BenchCalls, AsrEnds(c) PROVE BenchInv'
<1> USE DEF BenchInv, AsrEnds, KeepResult
<1>1. clip[c] \in Clips BY DEF BenchTypes
<1> DEFINE s == [clip[c] EXCEPT !.open = FALSE]
<1>2. s \in Clips /\ s.run = clip[c].run /\ ~s.open BY <1>1 DEF Clips
<1>3. clip' = [clip EXCEPT ![c] = s] OBVIOUS
<1> HIDE DEF s
<1>4. UNCHANGED <<benchLock, benchAt, benchmarks, lastBench, benchFile, unsaved>> OBVIOUS
<1>5. s.open => benchAt[c] \in {"warm", "drain", "hear"} BY <1>2
<1> QED BY ONLY BenchInv, c \in BenchCalls, <1>2, <1>3, <1>4, <1>5, ClipChanges

\* A call goes on and leaves its clip alone.
LEMMA BenchMoves ==
  ASSUME BenchInv, NEW c \in BenchCalls, NEW at \in {"translate", "keep", "truncate", "write"}, Go(c, at),
         benchAt[c] \in {"drain", "hear", "translate", "keep", "truncate"}, ~clip[c].open,
         UNCHANGED <<benchLock, clip, benchmarks>>, lastBench' \in Nat, benchFile' \in BenchFiles, unsaved' \in BOOLEAN,
         at \in {"truncate", "write"} => lastBench' = clip[c].run,
         at \in {"translate", "keep"} => benchAt[c] # "truncate" /\ UNCHANGED <<lastBench, benchFile, unsaved>>
  PROVE  BenchInv'
<1> USE DEF BenchInv
<1>1. clip[c] \in Clips /\ benchmarks \in Nat /\ c \in benchLock BY DEF BenchTypes
<1>2. clip' = [clip EXCEPT ![c] = clip[c]] BY DEF BenchTypes
<1>3. at \in BenchPlaces /\ at # "idle" BY DEF BenchPlaces
<1>4. benchAt' = [benchAt EXCEPT ![c] = at] BY DEF Go
<1>5. lastBench' = lastBench \/ c \in benchLock BY <1>1
<1>6. at \notin {"truncate", "write"} => UNCHANGED <<lastBench, benchFile, unsaved>>
                                          /\ benchAt[c] \notin {"truncate", "write"}
  OBVIOUS
<1>7. benchLock' = benchLock /\ benchmarks' \in Nat /\ clip[c].open = FALSE BY <1>1 DEF Clips
<1>8. lastBench' \in Nat /\ benchFile' \in BenchFiles /\ unsaved' \in BOOLEAN
      /\ (at \in {"truncate", "write"} => lastBench' = clip[c].run)
  OBVIOUS
<1>9. clip' = [clip EXCEPT ![c] = clip[c]] BY <1>2
<1> QED BY ONLY BenchInv, c \in BenchCalls, <1>1, <1>3, <1>4, <1>5, <1>6, <1>7, <1>8, <1>9, BenchGoes

LEMMA HeardInv == ASSUME BenchInv, NEW c \in BenchCalls, Heard(c) PROVE BenchInv'
<1> USE DEF BenchInv, Heard, KeepResult
<1>1. lastBench \in Nat /\ benchmarks \in Nat /\ benchFile \in BenchFiles /\ unsaved \in BOOLEAN BY DEF BenchTypes
<1>2. CASE BenchReturns(c) BY <1>1, <1>2, BenchReturnsInv
<1>3. CASE ~BenchReturns(c) BY <1>1, <1>3, BenchMoves
<1> QED BY <1>2, <1>3

LEMMA TranslateFinalInv ==
  ASSUME BenchInv, NEW c \in BenchCalls, NEW fails \in BOOLEAN, TranslateFinal(c, fails) PROVE BenchInv'
<1> USE DEF BenchInv, TranslateFinal, KeepResult
<1>1. lastBench \in Nat /\ benchmarks \in Nat /\ benchFile \in BenchFiles /\ unsaved \in BOOLEAN BY DEF BenchTypes
<1>2. CASE BenchReturns(c) BY <1>1, <1>2, BenchReturnsInv
<1>3. CASE ~BenchReturns(c) BY <1>1, <1>3, BenchMoves
<1> QED BY <1>2, <1>3

LEMMA KeepLastInv == ASSUME BenchInv, NEW c \in BenchCalls, KeepLast(c) PROVE BenchInv'
<1> USE DEF BenchInv, KeepLast
<1>1. clip[c] \in Clips /\ benchFile \in BenchFiles /\ unsaved \in BOOLEAN BY DEF BenchTypes
<1>2. clip[c].run \in Nat BY <1>1 DEF Clips
<1> QED BY <1>1, <1>2, BenchMoves

LEMMA OpenFileInv ==
  ASSUME BenchInv, NEW c \in BenchCalls, NEW fails \in BOOLEAN, OpenFile(c, fails) PROVE BenchInv'
<1> USE DEF BenchInv, OpenFile
<1>1. lastBench \in Nat /\ benchmarks \in Nat /\ benchFile \in BenchFiles /\ unsaved' \in BOOLEAN BY DEF BenchTypes
<1>2. CASE fails BY <1>1, <1>2, BenchReturnsInv
<1>3. CASE ~fails BY <1>1, <1>3, BenchMoves DEF BenchFiles
<1> QED BY <1>2, <1>3

LEMMA WriteFileInv ==
  ASSUME BenchInv, NEW c \in BenchCalls, NEW fails \in BOOLEAN, WriteFile(c, fails) PROVE BenchInv'
<1> USE DEF BenchInv, WriteFile
<1>1. clip[c] \in Clips /\ lastBench \in Nat /\ benchmarks \in Nat /\ unsaved' \in BOOLEAN BY DEF BenchTypes
<1>2. clip[c].run \in Nat /\ lastBench = clip[c].run BY <1>1 DEF Clips
<1>3. benchFile' \in BenchFiles BY <1>2 DEF BenchFiles
<1>4. unsaved' \/ FileTells' BY <1>2 DEF FileTells
<1> QED BY <1>1, <1>3, <1>4, BenchReturnsInv

LEMMA BenchRestartInv == ASSUME BenchInv, BenchRestart PROVE BenchInv'
<1> USE DEF BenchInv, BenchRestart, Reload
<1>0. NoClip \in Clips BY NoClipFits
<1>1. BenchTypes'
  <2>1. clip' \in [BenchCalls -> Clips] BY <1>0
  <2>2. benchAt' \in [BenchCalls -> BenchPlaces] BY DEF BenchPlaces
  <2>3. benchLock' = {} /\ benchFile' \in BenchFiles /\ unsaved' \in BOOLEAN /\ benchmarks' \in Nat
    BY DEF BenchTypes
  <2>4. lastBench' \in Nat
    <3>1. benchFile \in BenchFiles /\ lastBench \in Nat BY DEF BenchTypes
    <3>2. benchFile = TornBench \/ benchFile \in Nat BY <3>1 DEF BenchFiles
    <3> QED BY <3>1, <3>2 DEF NoBench
  <2> QED BY ONLY <2>1, <2>2, <2>3, <2>4 DEF BenchTypes
<1>2. FileTells' BY DEF FileTells
<1>3. ASSUME NEW c \in BenchCalls
      PROVE  /\ benchAt'[c] # "idle" <=> c \in benchLock'
             /\ clip'[c].open => benchAt'[c] \in {"warm", "drain", "hear"}
             /\ benchAt'[c] \in {"truncate", "write"} => lastBench' = clip'[c].run
  BY DEF NoClip
<1> QED BY <1>1, <1>2, <1>3
LEMMA BenchStep == ASSUME BenchInv, [HardwareNext]_hardwareVars PROVE BenchInv'
<1>1. CASE UNCHANGED benchVars BY <1>1 DEF benchVars, BenchInv, BenchTypes, FileTells
<1>2. CASE BenchNext
  BY <1>2, BenchStarts, StartAsrInv, WarmGemmaInv, BenchTimeoutInv, FeedInv, AsrEventInv, AsrEndsInv, HeardInv,
     TranslateFinalInv, KeepLastInv, OpenFileInv, WriteFileInv, BenchRestartInv DEF BenchNext
<1> QED BY <1>1, <1>2 DEF HardwareNext, RuntimesNext, hardwareVars

LEMMA BenchInvMeans == ASSUME BenchInv PROVE BenchmarkKept
<1> USE DEF BenchInv
<1>1. \A c, d \in BenchCalls : clip[c].open /\ clip[d].open => c = d OBVIOUS
<1>2. benchLock = {} => \A c \in BenchCalls : benchAt[c] = "idle" OBVIOUS
<1> QED BY <1>1, <1>2 DEF BenchmarkKept, FileTells

-----------------------------------------------------------------------------
(* HardwareCheck: the runtimes *)

Seen == [seen : Int, at : Int]

\* What a check saw lies between its start and now, which is within its
\* timeout; what is kept was seen so shortly before it was kept.
RuntimesInv ==
  /\ checkTime \in Nat
  /\ checks \in [RuntimeCalls -> Seen] /\ runtimes \in Seen /\ reported \in Seen
  /\ \A c \in RuntimeCalls : checks[c] # Never =>
       /\ 0 <= checks[c].at /\ checks[c].at <= checkTime /\ checkTime <= checks[c].at + ProbeTime
       /\ checks[c].seen # -1 => checks[c].at <= checks[c].seen /\ checks[c].seen <= checkTime
  /\ runtimes # Never => runtimes.at <= checkTime /\ runtimes.at - runtimes.seen <= ProbeTime
  /\ RuntimesFresh

LEMMA RuntimesInitInv == ASSUME HardwareInit PROVE RuntimesInv
<1> USE DEF HardwareInit
<1>1. Never \in Seen BY DEF Never, Seen
<1>2. checks \in [RuntimeCalls -> Seen] BY <1>1
<1> QED BY <1>1, <1>2 DEF RuntimesInv, RuntimesFresh

LEMMA AskRuntimesInv == ASSUME RuntimesInv, NEW c \in RuntimeCalls, AskRuntimes(c) PROVE RuntimesInv'
<1> USE DEF RuntimesInv, AskRuntimes
<1>0. ProbeTime \in Nat /\ RuntimesTTL \in Nat BY HardwareAssumption
<1>1. CASE Cached
  <2>1. PICK r \in Seen : r = runtimes /\ r # Never /\ checkTime - r.at < RuntimesTTL /\ r.at - r.seen <= ProbeTime
    BY <1>1 DEF Cached
  <2>2. reported' = [r EXCEPT !.at = checkTime] BY <1>1, <2>1
  <2>3. reported' \in Seen /\ reported'.at = checkTime /\ reported'.seen = r.seen BY <2>1, <2>2 DEF Seen
  <2>4. r.at \in Int /\ r.seen \in Int BY <2>1 DEF Seen
  <2>5. RuntimesFresh' BY <1>0, <2>1, <2>3, <2>4 DEF RuntimesFresh
  <2> QED BY <1>1, <2>3, <2>5
<1>2. CASE ~Cached
  <2> DEFINE s == [seen |-> -1, at |-> checkTime]
  <2>1. s \in Seen /\ s.at = checkTime /\ s.seen = -1 BY DEF Seen
  <2>2. checks' = [checks EXCEPT ![c] = s] BY <1>2
  <2> HIDE DEF s
  <2>3. checks' \in [RuntimeCalls -> Seen] BY <2>1, <2>2
  <2>4. ASSUME NEW d \in RuntimeCalls, checks'[d] # Never
        PROVE  /\ 0 <= checks'[d].at /\ checks'[d].at <= checkTime /\ checkTime <= checks'[d].at + ProbeTime
               /\ checks'[d].seen # -1 => checks'[d].at <= checks'[d].seen /\ checks'[d].seen <= checkTime
    <3>1. CASE d = c BY <1>0, <2>1, <2>2, <3>1
    <3>2. CASE d # c BY <2>2, <2>4, <3>2
    <3> QED BY <3>1, <3>2
  <2> QED BY <1>2, <2>3, <2>4 DEF RuntimesFresh
<1> QED BY <1>1, <1>2

LEMMA SeeRuntimesInv == ASSUME RuntimesInv, NEW c \in RuntimeCalls, SeeRuntimes(c) PROVE RuntimesInv'
<1> USE DEF RuntimesInv, SeeRuntimes
<1>0. ProbeTime \in Nat BY HardwareAssumption
<1>1. PICK s \in Seen : /\ checks' = [checks EXCEPT ![c] = s]
                        /\ s.seen = checkTime /\ s.at = checks[c].at
  <2>1. checks[c] \in Seen OBVIOUS
  <2>2. [checks[c] EXCEPT !.seen = checkTime] \in Seen BY <2>1 DEF Seen
  <2>3. [checks[c] EXCEPT !.seen = checkTime].seen = checkTime
        /\ [checks[c] EXCEPT !.seen = checkTime].at = checks[c].at
    BY <2>1 DEF Seen
  <2> QED BY <2>2, <2>3
<1>2. checks' \in [RuntimeCalls -> Seen] BY <1>1
<1>3. ASSUME NEW d \in RuntimeCalls, checks'[d] # Never
      PROVE  /\ 0 <= checks'[d].at /\ checks'[d].at <= checkTime /\ checkTime <= checks'[d].at + ProbeTime
             /\ checks'[d].seen # -1 => checks'[d].at <= checks'[d].seen /\ checks'[d].seen <= checkTime
  <2>1. CASE d = c BY <1>0, <1>1, <2>1
  <2>2. CASE d # c BY <1>1, <1>3, <2>2
  <2> QED BY <2>1, <2>2
<1> QED BY <1>2, <1>3 DEF RuntimesFresh

LEMMA StoreRuntimesInv == ASSUME RuntimesInv, NEW c \in RuntimeCalls, StoreRuntimes(c) PROVE RuntimesInv'
<1> USE DEF RuntimesInv, StoreRuntimes
<1>0. ProbeTime \in Nat /\ RuntimesTTL \in Nat BY HardwareAssumption
<1>1. Never \in Seen /\ Never.seen = -1 BY DEF Never, Seen
<1>2. PICK k \in Seen : k = checks[c] OBVIOUS
<1>3. k.seen \in Int /\ k.at \in Int /\ k # Never /\ k.at <= k.seen /\ checkTime <= k.at + ProbeTime
  BY <1>1, <1>2 DEF Seen
<1> DEFINE r == [seen |-> k.seen, at |-> checkTime]
<1>4. r \in Seen /\ r.at = checkTime /\ r.seen = k.seen BY <1>3 DEF Seen
<1>5. runtimes' = r /\ reported' = r BY <1>2
<1> HIDE DEF r
<1>6. checkTime - k.seen <= ProbeTime BY <1>0, <1>3
<1>7. checks' \in [RuntimeCalls -> Seen] BY <1>1
<1>8. \A d \in RuntimeCalls : checks'[d] # Never => checks'[d] = checks[d] BY <1>1
<1>9. RuntimesFresh' BY <1>0, <1>3, <1>4, <1>5, <1>6 DEF RuntimesFresh
<1> QED BY <1>4, <1>5, <1>6, <1>7, <1>8, <1>9

LEMMA CheckTickInv == ASSUME RuntimesInv, CheckTick PROVE RuntimesInv'
<1> USE DEF RuntimesInv, CheckTick
<1>0. ProbeTime \in Nat BY HardwareAssumption
<1>1. \A c \in RuntimeCalls : checks[c].at \in Int /\ checks[c].seen \in Int BY DEF Seen
<1>2. runtimes.at \in Int BY DEF Seen
<1>3. checkTime' \in Nat /\ checkTime' = checkTime + 1 OBVIOUS
<1> QED BY <1>0, <1>1, <1>2, <1>3 DEF RuntimesFresh

LEMMA RuntimesStep == ASSUME RuntimesInv, [HardwareNext]_hardwareVars PROVE RuntimesInv'
<1>1. CASE UNCHANGED runtimeVars BY <1>1 DEF runtimeVars, RuntimesInv, RuntimesFresh
<1>2. CASE RuntimesNext
  BY <1>2, AskRuntimesInv, SeeRuntimesInv, StoreRuntimesInv, CheckTickInv DEF RuntimesNext
<1> QED BY <1>1, <1>2 DEF HardwareNext, BenchNext, hardwareVars

\* hwcheck/bench.go, hardware.go: never two benchmarks at once, whatever fails,
\* times out or is cancelled; between them the file holds the last result unless
\* writing it failed; and no answer tells of runtimes that were looked at longer
\* ago than a result is kept and a check may take, however checks overlap.
THEOREM HardwareAlwaysSound == HardwareSpec => []HardwareSound
<1>1. HardwareInit => BenchInv /\ RuntimesInv BY BenchInitInv, RuntimesInitInv
<1>2. BenchInv /\ RuntimesInv /\ [HardwareNext]_hardwareVars => BenchInv' /\ RuntimesInv'
  BY BenchStep, RuntimesStep
<1>3. BenchInv /\ RuntimesInv => HardwareSound BY BenchInvMeans DEF HardwareSound, RuntimesInv
<1>4. QED BY <1>1, <1>2, <1>3, PTL DEF HardwareSpec
-----------------------------------------------------------------------------
(* AppServer *)

Due(q) == {q[i] : i \in 1 .. Len(q)}
Shutdowns == {<<>>, <<"http">>, <<"https">>, <<"http", "https">>}
Ends == {"failure", "closed"}
Starting == {"new", "secrets", "listen", "refused"}
Counting == {"select", "shutdown", "wait", "collect", "defers"}

AppTypes ==
  /\ appAt \in Starting \cup Counting \cup {"close"}
  /\ serving \subseteq Servers
  /\ errc \in Seq(Ends)
  /\ requests \in [Servers -> Nat]
  /\ pending \in Int
  /\ first \in Ends \cup {"none", "timeout"}
  /\ toShut \in Shutdowns

\* Who sent what until when; what was not shut down yet may have requests;
\* and whoever listens is to be shut down.
AppInv ==
  /\ AppTypes
  /\ appAt \in {"new", "refused"} => open = <<>>
  /\ appAt \in Starting =>
       /\ serving = {} /\ errc = <<>> /\ toShut = <<>>
       /\ first = "none" /\ failed = "no" /\ ~renewing /\ ~httpsPort
  /\ appAt \in Counting => pending = Cardinality(serving) + Len(errc)
  /\ listening \subseteq serving /\ listening \subseteq Due(toShut)
  /\ appAt = "select" =>
       /\ first = "none" /\ listening = serving /\ failed # "seen"
       /\ \A i \in 1 .. Len(errc) : errc[i] = "failure"
  /\ appAt = "wait" => toShut # <<>> /\ Head(toShut) \notin listening
  /\ appAt \in {"collect", "defers", "close"} => toShut = <<>>
  /\ appAt \in {"defers", "close"} => serving = {} /\ errc = <<>>
  /\ appAt = "close" => ~renewing /\ ~httpsPort
  /\ appAt \in {"select", "shutdown", "wait"} => first # "closed"
  /\ failed = "seen" => first = "failure"
  /\ \A s \in Servers : requests[s] = 0 \/ s \in Due(toShut) \/ first \in {"failure", "timeout"}

LEMMA DueAlone == ASSUME NEW q, q = <<"https">> PROVE Due(q) = {"https"}
<1>1. Len(q) = 1 /\ q[1] = "https" OBVIOUS
<1> QED BY <1>1 DEF Due

LEMMA DueOf ==
  ASSUME NEW q \in Shutdowns
  PROVE  /\ q = <<>> => Due(q) = {}
         /\ q # <<>> => Tail(q) \in Shutdowns /\ Due(q) = {Head(q)} \cup Due(Tail(q))
<1>1. CASE q = <<>> BY <1>1 DEF Due
<1>2. CASE q = <<"http">>
  <2>1. Len(q) = 1 /\ q[1] = "http" /\ Head(q) = "http" /\ Tail(q) = <<>> /\ q # <<>> BY <1>2
  <2>2. Due(q) = {"http"} BY <2>1 DEF Due
  <2>3. Due(Tail(q)) = {} BY <2>1 DEF Due
  <2> QED BY <2>1, <2>2, <2>3 DEF Shutdowns
<1>3. CASE q = <<"https">>
  <2>1. Len(q) = 1 /\ q[1] = "https" /\ Head(q) = "https" /\ Tail(q) = <<>> /\ q # <<>> BY <1>3
  <2>2. Due(q) = {"https"} BY <2>1 DEF Due
  <2>3. Due(Tail(q)) = {} BY <2>1 DEF Due
  <2> QED BY <2>1, <2>2, <2>3 DEF Shutdowns
<1>4. CASE q = <<"http", "https">>
  <2>1. Len(q) = 2 /\ q[1] = "http" /\ q[2] = "https" /\ Head(q) = "http" /\ q # <<>> BY <1>4
  <2>2. Tail(q) = <<"https">> BY <1>4
  <2>3. Due(q) = {"http", "https"} BY <2>1 DEF Due
  <2>4. Due(Tail(q)) = {"https"} BY <2>2, DueAlone
  <2> QED BY <2>1, <2>2, <2>3, <2>4 DEF Shutdowns
<1> QED BY <1>1, <1>2, <1>3, <1>4 DEF Shutdowns

LEMMA ServersCounted ==
  /\ \A S \in SUBSET Servers : IsFiniteSet(S) /\ Cardinality(S) \in Nat /\ (Cardinality(S) = 0 <=> S = {})
  /\ \A S \in SUBSET Servers : \A s \in S : Cardinality(S \ {s}) = Cardinality(S) - 1
  /\ Cardinality({"http"}) = 1 /\ Cardinality(Servers) = 2
<1>1. IsFiniteSet({"http"}) /\ Cardinality({"http"}) = 1 BY FS_Singleton
<1>2. IsFiniteSet({"http"} \cup {"https"}) /\ Cardinality({"http"} \cup {"https"}) = 2 BY <1>1, FS_AddElement
<1>3. Servers = {"http"} \cup {"https"} BY DEF Servers
<1>4. ASSUME NEW S \in SUBSET Servers
      PROVE  /\ IsFiniteSet(S) /\ Cardinality(S) \in Nat /\ (Cardinality(S) = 0 <=> S = {})
             /\ \A s \in S : Cardinality(S \ {s}) = Cardinality(S) - 1
  <2>1. IsFiniteSet(S) BY <1>2, <1>3, FS_Subset
  <2> QED BY <2>1, FS_CardinalityType, FS_EmptySet, FS_RemoveElement
<1> QED BY <1>1, <1>2, <1>3, <1>4

LEMMA AppInitInv == ASSUME AppInit PROVE AppInv
<1> USE DEF AppInit
<1>1. AppTypes
  <2>1. <<>> \in Seq(Ends) OBVIOUS
  <2> QED BY <2>1 DEF AppTypes, Starting, Shutdowns
<1> QED BY <1>1 DEF AppInv, Starting, Counting

LEMMA NewInv == ASSUME AppInv, New PROVE AppInv'
<1> USE DEF AppInv, New, Goroutines
<1>1. appAt \in {"new", "secrets"} /\ appAt' \in Starting BY DEF Starting
<1>2. appAt' = "refused" => open' = <<>> BY <1>1 DEF AfterBadSecrets
<1>3. appAt' # "new" OBVIOUS
<1>4. AppTypes' BY <1>1 DEF AppTypes
<1> QED BY <1>1, <1>2, <1>3, <1>4 DEF Starting, Counting

LEMMA ListenInv == ASSUME AppInv, Listen PROVE AppInv'
<1> USE DEF Listen
<1>1. /\ serving = {} /\ errc = <<>> /\ toShut = <<>> /\ first = "none" /\ failed = "no"
      /\ ~renewing /\ ~httpsPort /\ listening = {} /\ requests \in [Servers -> Nat]
      /\ \A s \in Servers : requests[s] = 0
  <2>1. listening = {} /\ Due(<<>>) = {} BY DueOf DEF AppInv, Starting, Shutdowns
  <2> QED BY <2>1 DEF AppInv, AppTypes, Starting
<1>2. <<>> \in Seq(Ends) OBVIOUS
<1>3. CASE appAt' = "close"
  <2>1. first' = "failure" /\ UNCHANGED <<listening, serving, pending, toShut, renewing, httpsPort>> BY <1>3
  <2>2. AppTypes'
    <3>1. pending \in Int /\ toShut \in Shutdowns BY DEF AppInv, AppTypes
    <3> QED BY <1>1, <1>2, <1>3, <2>1, <3>1 DEF AppTypes, Ends
  <2> QED BY <1>1, <1>3, <2>1, <2>2 DEF AppInv, Starting, Counting
<1>4. CASE appAt' # "close"
  <2>1. PICK on \in {<<"http">>, <<"http", "https">>} :
          /\ listening' = Due(on) /\ serving' = Due(on) /\ pending' = Len(on) /\ toShut' = on
          /\ appAt' = "select" /\ first' = first
    BY <1>4 DEF Due
  <2>2. on \in Shutdowns /\ Due(on) \subseteq Servers /\ Len(on) \in Int /\ Cardinality(Due(on)) = Len(on)
    <3>1. CASE on = <<"http">>
      <4>1. Len(on) = 1 /\ on[1] = "http" BY <3>1
      <4>2. Due(on) = {"http"} BY <4>1 DEF Due
      <4> QED BY <3>1, <4>1, <4>2, ServersCounted DEF Shutdowns, Servers
    <3>2. CASE on = <<"http", "https">>
      <4>1. Len(on) = 2 /\ on[1] = "http" /\ on[2] = "https" BY <3>2
      <4>2. Due(on) = Servers BY <4>1 DEF Due, Servers
      <4> QED BY <3>2, <4>1, <4>2, ServersCounted DEF Shutdowns
    <3> QED BY <3>1, <3>2
  <2>3. AppTypes' BY <1>1, <1>2, <2>1, <2>2 DEF AppTypes, Counting
  <2>4. pending' = Cardinality(serving') + Len(errc')
    <3>1. Len(<<>>) = 0 OBVIOUS
    <3> QED BY <1>1, <2>1, <2>2, <3>1
  <2>5. \A i \in 1 .. Len(errc') : errc'[i] = "failure" BY <1>1
  <2> HIDE DEF Due
  <2> QED BY <1>1, <2>1, <2>3, <2>4, <2>5 DEF AppInv, Starting, Counting
<1> QED BY <1>3, <1>4

LEMMA SignalInv == ASSUME AppInv, Signal PROVE AppInv'
BY DEF AppInv, AppTypes, Signal, Goroutines, Main, Progress

LEMMA RequestInv == ASSUME AppInv, NEW s \in Servers, Request(s) PROVE AppInv'
<1> USE DEF AppInv, Request, Main, Progress
<1>1. requests' \in [Servers -> Nat] /\ \A t \in Servers : t # s => requests'[t] = requests[t]
  BY DEF AppTypes
<1>2. s \in Due(toShut) OBVIOUS
<1>3. AppTypes' BY <1>1 DEF AppTypes
<1> QED BY <1>1, <1>2, <1>3

LEMMA RequestEndsInv == ASSUME AppInv, NEW s \in Servers, RequestEnds(s) PROVE AppInv'
<1> USE DEF AppInv, RequestEnds, Main, Progress
<1>1. requests' \in [Servers -> Nat] /\ \A t \in Servers : requests[t] = 0 => requests'[t] = 0
  BY DEF AppTypes
<1>2. AppTypes' BY <1>1 DEF AppTypes
<1> QED BY <1>1, <1>2

LEMMA ServeReturnsInv == ASSUME AppInv, NEW s \in Servers, ServeReturns(s) PROVE AppInv'
<1> USE DEF AppInv, ServeReturns, Progress
<1>1. PICK e \in Ends : errc' = Append(errc, e) /\ (s \in listening => e = "failure") BY DEF Ends
<1>2. errc' \in Seq(Ends) /\ Len(errc') = Len(errc) + 1 /\ Len(errc) \in Nat
      /\ errc'[Len(errc) + 1] = e /\ \A i \in 1 .. Len(errc) : errc'[i] = errc[i]
  BY <1>1, AppendProperties DEF AppTypes
<1>3. AppTypes' BY <1>2 DEF AppTypes
<1>4. appAt \in Counting BY DEF AppTypes, Starting
<1>5. Cardinality(serving') = Cardinality(serving) - 1 /\ Cardinality(serving) \in Nat
  BY ServersCounted DEF AppTypes
<1>6. pending' = Cardinality(serving') + Len(errc') BY <1>2, <1>4, <1>5
<1>7. appAt = "select" => \A i \in 1 .. Len(errc') : errc'[i] = "failure" BY <1>1, <1>2
<1>8. failed' = "seen" => failed = "seen" OBVIOUS
<1>9. appAt \notin Starting BY <1>4 DEF Starting, Counting
<1> QED BY <1>3, <1>4, <1>6, <1>7, <1>8, <1>9

LEMMA TimesOutInv == ASSUME AppInv, ShutdownTimesOut PROVE AppInv'
BY DEF AppInv, AppTypes, ShutdownTimesOut, Goroutines, Main, Progress

LEMMA RenewEndsInv == ASSUME AppInv, RenewEnds PROVE AppInv'
BY DEF AppInv, AppTypes, RenewEnds, Goroutines

LEMMA SelectInv == ASSUME AppInv, Select PROVE AppInv'
<1> USE DEF AppInv, Select
<1>0. appAt = "select" /\ appAt' = "shutdown" OBVIOUS
<1>1. CASE UNCHANGED <<first, errc, pending, failed>>
  <2>1. AppTypes' BY <1>1 DEF AppTypes, Counting
  <2> QED BY <1>0, <1>1, <2>1 DEF Starting, Counting
<1>2. CASE errc # <<>> /\ first' = Head(errc) /\ errc' = Tail(errc) /\ pending' = AfterFailure(pending)
           /\ failed' = "seen"
  <2>1. errc' \in Seq(Ends) /\ Len(errc') = Len(errc) - 1 /\ Len(errc) \in Nat
    BY <1>2, HeadTailProperties DEF AppTypes
  <2>2. Head(errc) = errc[1] /\ 1 \in 1 .. Len(errc)
    <3>1. errc \in Seq(Ends) /\ errc # <<>> BY <1>2 DEF AppTypes
    <3> QED BY ONLY <3>1
  <2>3. first' = "failure" BY <1>0, <1>2, <2>2
  <2>4. pending' = Cardinality(serving') + Len(errc')
    <3>1. Cardinality(serving) \in Nat BY ServersCounted DEF AppTypes
    <3>2. pending = Cardinality(serving) + Len(errc) BY <1>0 DEF Counting
    <3>3. pending' = pending - 1 BY <1>2 DEF AfterFailure
    <3>4. serving' = serving OBVIOUS
    <3> QED BY ONLY <2>1, <3>1, <3>2, <3>3, <3>4
  <2>5. AppTypes'
    <3>1. pending' \in Int BY <1>2 DEF AppTypes, AfterFailure
    <3> QED BY <1>0, <2>1, <2>3, <3>1 DEF AppTypes, Ends, Counting
  <2> QED BY <1>0, <1>2, <2>3, <2>4, <2>5 DEF Starting
<1> QED BY <1>1, <1>2

LEMMA ShutdownInv == ASSUME AppInv, Shutdown PROVE AppInv'
<1> USE DEF AppInv, Shutdown
<1>1. AppTypes' BY DEF AppTypes, Counting
<1>2. appAt' \in {"collect", "wait"} /\ appAt \in Counting /\ appAt' \in Counting BY DEF Counting
<1>3. listening' \subseteq listening OBVIOUS
<1> QED BY <1>1, <1>2, <1>3 DEF Starting

LEMMA ShutdownReturnsInv == ASSUME AppInv, ShutdownReturns PROVE AppInv'
<1> USE DEF AppInv, ShutdownReturns, Goroutines
<1>0. appAt = "wait" /\ appAt' = "shutdown" /\ toShut' = Tail(toShut) /\ toShut # <<>> BY DEF Rest
<1>1. toShut' \in Shutdowns /\ Due(toShut) = {Head(toShut)} \cup Due(toShut') BY <1>0, DueOf DEF AppTypes
<1>2. first' \in Ends \cup {"none", "timeout"} BY DEF AppTypes
<1>3. AppTypes' BY <1>0, <1>1, <1>2 DEF AppTypes, Counting
<1>4. ASSUME NEW s \in Servers
      PROVE  requests[s] = 0 \/ s \in Due(toShut') \/ first' \in {"failure", "timeout"}
  <2>1. first \in {"failure", "timeout"} => first' = first OBVIOUS
  <2>2. CASE s = Head(toShut)
    <3>1. requests[s] \in Nat BY DEF AppTypes
    <3>2. CASE requests[s] > 0
      <4>1. first = "none" => first' = "timeout" BY <2>2, <3>2
      <4>2. first \in Ends \cup {"none", "timeout"} /\ first # "closed"
        BY <1>0 DEF AppTypes
      <4> QED BY <2>1, <4>1, <4>2 DEF Ends
    <3> QED BY <3>1, <3>2
  <2>3. CASE s # Head(toShut) BY <1>1, <2>1, <2>3
  <2> QED BY <2>2, <2>3
<1>5. listening \subseteq Due(toShut') BY <1>0, <1>1
<1>6. first = "failure" => first' = "failure" OBVIOUS
<1>7. pending = Cardinality(serving) + Len(errc) BY <1>0 DEF Counting
<1> QED BY <1>0, <1>3, <1>4, <1>5, <1>6, <1>7 DEF Starting

LEMMA CollectInv == ASSUME AppInv, Collect PROVE AppInv'
<1> USE DEF AppInv, Collect
<1>0. appAt = "collect" /\ pending = Cardinality(serving) + Len(errc) /\ toShut = <<>> BY DEF Counting
<1>1. Cardinality(serving) \in Nat /\ Len(errc) \in Nat /\ (Cardinality(serving) = 0 <=> serving = {})
      /\ (Len(errc) = 0 <=> errc = <<>>)
  BY ServersCounted DEF AppTypes
<1>2. CASE pending = 0
  <2>1. serving = {} /\ errc = <<>> BY <1>0, <1>1, <1>2
  <2>2. AppTypes' BY <1>2 DEF AppTypes, Counting
  <2> QED BY <1>0, <1>2, <2>1, <2>2 DEF Starting, Counting
<1>3. CASE pending # 0
  <2>1. errc' \in Seq(Ends) /\ Len(errc') = Len(errc) - 1 /\ Head(errc) \in Ends
    BY <1>3, HeadTailProperties DEF AppTypes
  <2>2. pending' = Cardinality(serving') + Len(errc') BY <1>0, <1>1, <1>3, <2>1
  <2>3. AppTypes'
    <3>1. pending' \in Int /\ first' \in Ends \cup {"none", "timeout"} BY <1>3, <2>1 DEF AppTypes
    <3> QED BY <1>3, <2>1, <3>1 DEF AppTypes
  <2>4. first \in {"failure", "timeout"} => first' = first BY <1>3
  <2> QED BY <1>0, <1>3, <2>2, <2>3, <2>4 DEF Starting
<1> QED BY <1>2, <1>3

LEMMA ServeListenersInv == ASSUME AppInv, ServeListenersReturns PROVE AppInv'
<1> USE DEF AppInv, ServeListenersReturns, Goroutines
<1>1. AppTypes' BY DEF AppTypes
<1>2. first \in {"failure", "timeout"} => first' = first OBVIOUS
<1> QED BY <1>1, <1>2 DEF Starting, Counting

LEMMA CloseServicesInv == ASSUME AppInv, Close PROVE AppInv'
<1> USE DEF AppInv, Close, Goroutines
<1>1. AppTypes' BY DEF AppTypes
<1> QED BY <1>1 DEF Starting, Counting

LEMMA AppStep == ASSUME AppInv, [AppNext]_appVars PROVE AppInv'
<1>1. CASE UNCHANGED appVars BY <1>1 DEF appVars, AppInv, AppTypes
<1>2. CASE AppNext
  BY <1>2, NewInv, ListenInv, SignalInv, RequestInv, RequestEndsInv, ServeReturnsInv, TimesOutInv, RenewEndsInv,
     SelectInv, ShutdownInv, ShutdownReturnsInv, CollectInv, ServeListenersInv, CloseServicesInv DEF AppNext
<1> QED BY <1>1, <1>2

LEMMA AppInvMeans == ASSUME AppInv PROVE ServeEnds
<1> USE DEF AppInv
<1>1. toShut = <<>> => Due(toShut) = {} BY DueOf DEF Shutdowns
<1> QED BY <1>1 DEF ServeEnds, Counting

\* app.go, ServeListeners: with any requests, signals and failures of listeners,
\* and wherever the time to shut down runs out, it hears of as many goroutines
\* as it waits for, leaves none and nothing unread behind, returns the failure
\* that ended it, and returns no error only if all requests were answered.
THEOREM ServeAlwaysEnds == AppSpec => []ServeEnds
<1>1. AppInit => AppInv BY AppInitInv
<1>2. AppInv /\ [AppNext]_appVars => AppInv' BY AppStep
<1>3. AppInv => ServeEnds BY AppInvMeans
<1>4. QED BY <1>1, <1>2, <1>3, PTL DEF AppSpec

-----------------------------------------------------------------------------
(* ServerMetrics.  Buckets *)

Bounds == 1 .. Len(BucketBounds)

LEMMA BoundsTyped ==
  /\ Len(BucketBounds) \in Nat /\ \A i \in Bounds : BucketBounds[i] \in Nat
  /\ \A i, j \in Bounds : i < j => BucketBounds[i] < BucketBounds[j]
  /\ IsFiniteSet(Bounds)
<1>1. BucketBounds \in Seq(Nat) BY MetricsAssumption
<1>2. Len(BucketBounds) \in Nat BY <1>1, LenProperties
<1>3. \A i \in Bounds : BucketBounds[i] \in Nat BY <1>1, ElementOfSeq DEF Bounds
<1>4. IsFiniteSet(Bounds) BY <1>2, FS_Interval DEF Bounds
<1> QED BY <1>2, <1>3, <1>4, MetricsAssumption DEF Bounds

\* A value is in a bucket up to the i-th exactly when it is at most the bound.
LEMMA BucketFits ==
  ASSUME NEW v \in Nat
  PROVE  BucketOf(v) \in Buckets /\ \A i \in Bounds : BucketOf(v) <= i <=> v <= BucketBounds[i]
<1> DEFINE D == {i \in Bounds : BucketBounds[i] < v}
<1>1. BucketOf(v) = Cardinality(D) + 1 BY DEF BucketOf, Bounds
<1>2. D \subseteq Bounds /\ IsFiniteSet(D) /\ Cardinality(D) \in Nat
  BY BoundsTyped, FS_Subset, FS_CardinalityType
<1>3. Cardinality(D) <= Len(BucketBounds)
  <2>1. Cardinality(Bounds) = Len(BucketBounds) BY BoundsTyped, FS_Interval DEF Bounds
  <2> HIDE DEF D
  <2> QED BY <1>2, <2>1, BoundsTyped, FS_Subset
<1>4. ASSUME NEW i \in Bounds PROVE BucketOf(v) <= i <=> v <= BucketBounds[i]
  <2>0. i \in Nat /\ i >= 1 BY BoundsTyped DEF Bounds
  <2>1. CASE v <= BucketBounds[i]
    <3>1. D \subseteq 1 .. i - 1
      <4> SUFFICES ASSUME NEW j \in D PROVE j < i BY <1>2, BoundsTyped DEF Bounds
      <4>1. j \in Bounds /\ BucketBounds[j] < v OBVIOUS
      <4>2. BucketBounds[j] < BucketBounds[i] BY <2>1, <4>1, BoundsTyped
      <4>3. ~ (i < j) /\ i # j BY <4>1, <4>2, BoundsTyped
      <4> QED BY <2>0, <4>1, <4>3, BoundsTyped DEF Bounds
    <3>2. IsFiniteSet(1 .. i - 1) /\ Cardinality(1 .. i - 1) = i - 1 BY <2>0, FS_Interval
    <3>3. Cardinality(D) <= i - 1
      <4> HIDE DEF D
      <4> QED BY <3>1, <3>2, FS_Subset
    <3> QED BY <1>1, <1>2, <2>0, <2>1, <3>3
  <2>2. CASE ~ (v <= BucketBounds[i])
    <3>1. 1 .. i \subseteq D
      <4> SUFFICES ASSUME NEW j \in 1 .. i PROVE j \in D OBVIOUS
      <4>1. j \in Bounds BY <2>0, BoundsTyped DEF Bounds
      <4>2. BucketBounds[j] <= BucketBounds[i] BY <2>0, <4>1, BoundsTyped
      <4>3. BucketBounds[j] < v BY <2>2, <4>1, <4>2, BoundsTyped
      <4> QED BY <4>1, <4>3
    <3>2. Cardinality(1 .. i) = i BY <2>0, FS_Interval
    <3>3. i <= Cardinality(D)
      <4> HIDE DEF D
      <4> QED BY <1>2, <3>1, <3>2, FS_Subset
    <3> QED BY <1>1, <1>2, <2>0, <2>2, <3>3
  <2> QED BY <2>1, <2>2
<1>5. BucketOf(v) \in Buckets
  <2> HIDE DEF D
  <2> QED BY <1>1, <1>2, <1>3, BoundsTyped DEF Buckets
<1> QED BY <1>4, <1>5

-----------------------------------------------------------------------------
(* ServerMetrics.  Sums *)

N == Len(BucketBounds) + 1
IsSum(f, counts, n) == f = [i \in 0 .. n |-> IF i = 0 THEN 0 ELSE f[i - 1] + counts[i]]

LEMMA SumExists == ASSUME NEW counts PROVE \E f : IsSum(f, counts, N)
<1> DEFINE Stuck == {k \in 0 .. N : ~ \E f : IsSum(f, counts, k)}
<1>0. N \in Nat BY BoundsTyped DEF N
<1>1. SUFFICES ASSUME Stuck # {} PROVE FALSE
  <2>1. N \in 0 .. N BY <1>0
  <2> QED BY <2>1
<1>2. Stuck \in SUBSET Nat BY <1>0
<1>3. PICK k \in Stuck : \A j \in Stuck : k <= j
  <2> HIDE DEF Stuck
  <2> QED BY <1>1, <1>2, LeastOfNat
<1>4. k \in 0 .. N /\ ~ \E f : IsSum(f, counts, k) BY <1>3
<1>5. k # 0
  <2>1. ASSUME k = 0 PROVE IsSum([i \in 0 .. 0 |-> 0], counts, k) BY <2>1 DEF IsSum
  <2> QED BY <1>4, <2>1
<1>6. k - 1 \in 0 .. N /\ k - 1 \notin Stuck BY <1>0, <1>3, <1>4, <1>5
<1>7. PICK f : IsSum(f, counts, k - 1) BY <1>6
<1> DEFINE g == [i \in 0 .. k |-> IF i = k THEN f[k - 1] + counts[k] ELSE f[i]]
<1>8. IsSum(g, counts, k)
  <2>1. ASSUME NEW i \in 0 .. k PROVE g[i] = IF i = 0 THEN 0 ELSE g[i - 1] + counts[i]
    <3>1. CASE i = k BY <1>0, <1>4, <1>5, <3>1
    <3>2. CASE i # k
      <4>1. i \in 0 .. k - 1 /\ (i # 0 => i - 1 \in 0 .. k - 1) BY <1>0, <1>4, <3>2
      <4>2. f[i] = IF i = 0 THEN 0 ELSE f[i - 1] + counts[i] BY <1>7, <4>1 DEF IsSum
      <4> QED BY <1>0, <1>4, <4>1, <4>2
    <3> QED BY <3>1, <3>2
  <2>2. g = [i \in 0 .. k |-> g[i]] OBVIOUS
  <2> HIDE DEF g
  <2> QED BY <2>1, <2>2 DEF IsSum
<1> QED BY <1>4, <1>8

\* Of what was observed, how much is in the first i buckets, and in the i-th.
Upto(seen, i) == Cardinality({k \in 1 .. Len(seen) : BucketOf(seen[k]) <= i})
Within(seen, i) == Cardinality({k \in 1 .. Len(seen) : BucketOf(seen[k]) = i})

LEMMA UptoFinite ==
  ASSUME NEW seen \in Seq(Nat), NEW i \in Nat
  PROVE  /\ IsFiniteSet({k \in 1 .. Len(seen) : BucketOf(seen[k]) <= i}) /\ Upto(seen, i) \in Nat
         /\ IsFiniteSet({k \in 1 .. Len(seen) : BucketOf(seen[k]) = i}) /\ Within(seen, i) \in Nat
<1>1. IsFiniteSet(1 .. Len(seen)) BY LenProperties, FS_Interval
<1>2. IsFiniteSet({k \in 1 .. Len(seen) : BucketOf(seen[k]) <= i}) BY <1>1, FS_Subset
<1>3. IsFiniteSet({k \in 1 .. Len(seen) : BucketOf(seen[k]) = i}) BY <1>1, FS_Subset
<1> QED BY <1>2, <1>3, FS_CardinalityType DEF Upto, Within

LEMMA UptoNext ==
  ASSUME NEW seen \in Seq(Nat), NEW i \in Nat \ {0}
  PROVE  Upto(seen, i) = Upto(seen, i - 1) + Within(seen, i)
<1> DEFINE A == {k \in 1 .. Len(seen) : BucketOf(seen[k]) <= i - 1}
           B == {k \in 1 .. Len(seen) : BucketOf(seen[k]) = i}
           C == {k \in 1 .. Len(seen) : BucketOf(seen[k]) <= i}
<1>1. \A k \in 1 .. Len(seen) : BucketOf(seen[k]) \in Nat
  <2> TAKE k \in 1 .. Len(seen)
  <2>1. BucketOf(seen[k]) \in Buckets BY ElementOfSeq, BucketFits
  <2> QED BY <2>1, BoundsTyped DEF Buckets
<1>2. C = A \cup B /\ A \cap B = {} BY <1>1
<1>3. IsFiniteSet(A) /\ IsFiniteSet(B) /\ Cardinality(A) \in Nat /\ Cardinality(B) \in Nat
  <2>1. i \in Nat /\ i - 1 \in Nat OBVIOUS
  <2>2. IsFiniteSet(A) /\ Cardinality(A) \in Nat BY <2>1, UptoFinite DEF Upto
  <2>3. IsFiniteSet(B) /\ Cardinality(B) \in Nat BY <2>1, UptoFinite DEF Within
  <2> QED BY <2>2, <2>3
<1>4. Cardinality(A \cup B) = Cardinality(A) + Cardinality(B) - Cardinality(A \cap B)
  <2> HIDE DEF A, B
  <2> QED BY <1>3, FS_Union
<1>5. Cardinality(A \cap B) = 0 BY <1>2, FS_EmptySet
<1>6. Upto(seen, i) = Cardinality(C) /\ Upto(seen, i - 1) = Cardinality(A) /\ Within(seen, i) = Cardinality(B)
  BY DEF Upto, Within
<1> HIDE DEF A, B, C
<1> QED BY <1>2, <1>3, <1>4, <1>5, <1>6

LEMMA UptoEnds ==
  ASSUME NEW seen \in Seq(Nat)
  PROVE  /\ Upto(seen, 0) = 0 /\ Upto(seen, N) = Len(seen)
         /\ \A i \in Bounds : Upto(seen, i) = Cardinality({k \in 1 .. Len(seen) : seen[k] <= BucketBounds[i]})
<1>1. \A k \in 1 .. Len(seen) : seen[k] \in Nat /\ BucketOf(seen[k]) \in Buckets BY ElementOfSeq, BucketFits
<1>2. {k \in 1 .. Len(seen) : BucketOf(seen[k]) <= 0} = {} BY <1>1, BoundsTyped DEF Buckets
<1>3. {k \in 1 .. Len(seen) : BucketOf(seen[k]) <= N} = 1 .. Len(seen) BY <1>1, BoundsTyped DEF Buckets, N
<1>4. Cardinality(1 .. Len(seen)) = Len(seen)
  <2>1. Len(seen) \in Nat /\ 1 \in Int /\ Len(seen) \in Int BY LenProperties
  <2>2. Cardinality(1 .. Len(seen)) = IF 1 > Len(seen) THEN 0 ELSE Len(seen) - 1 + 1 BY ONLY <2>1, FS_Interval
  <2> QED BY ONLY <2>1, <2>2
<1>5. ASSUME NEW i \in Bounds
      PROVE  {k \in 1 .. Len(seen) : BucketOf(seen[k]) <= i} = {k \in 1 .. Len(seen) : seen[k] <= BucketBounds[i]}
  BY <1>1, BucketFits
<1> QED BY <1>2, <1>3, <1>4, <1>5, FS_EmptySet DEF Upto

\* What a scrape writes of a histogram whose counts are right.
LEMMA Cumulates ==
  ASSUME NEW seen \in Seq(Nat), NEW h, \A i \in Buckets : h.counts[i] = Within(seen, i)
  PROVE  Cumulative(h).count = h.count /\ \A i \in Buckets : Cumulative(h).le[i] = Upto(seen, i)
<1> DEFINE W == CHOOSE f : f = [i \in 0 .. Len(BucketBounds) + 1 |-> IF i = 0 THEN 0 ELSE f[i - 1] + h.counts[i]]
<1>1. Cumulative(h) = [le |-> [i \in Buckets |-> W[i]], sum |-> h.sum, count |-> h.count] BY DEF Cumulative
<1>2. IsSum(W, h.counts, N) BY SumExists DEF IsSum, N
<1> HIDE DEF W
<1> DEFINE Odd == {k \in 0 .. N : W[k] # Upto(seen, k)}
<1>0. N \in Nat BY BoundsTyped DEF N
<1>3. Odd = {}
  <2>1. SUFFICES ASSUME Odd # {} PROVE FALSE OBVIOUS
  <2>2. Odd \in SUBSET Nat BY <1>0
  <2>3. PICK k \in Odd : \A j \in Odd : k <= j
    <3> HIDE DEF Odd
    <3> QED BY <2>1, <2>2, LeastOfNat
  <2>4. k \in 0 .. N /\ k \in Nat /\ W[k] # Upto(seen, k) BY <1>0, <2>3
  <2>5. W[k] = IF k = 0 THEN 0 ELSE W[k - 1] + h.counts[k] BY <1>2, <2>4 DEF IsSum
  <2>6. CASE k = 0 BY <2>4, <2>5, <2>6, UptoEnds
  <2>7. CASE k # 0
    <3>1. k - 1 \in 0 .. N /\ k - 1 \notin Odd /\ k \in Buckets BY <1>0, <2>3, <2>4, <2>7 DEF N, Buckets
    <3>2. W[k - 1] = Upto(seen, k - 1) BY <3>1
    <3>3. Upto(seen, k) = Upto(seen, k - 1) + Within(seen, k) BY <2>4, <2>7, UptoNext
    <3> QED BY <2>4, <2>5, <2>7, <3>1, <3>2, <3>3
  <2> QED BY <2>6, <2>7
<1>4. \A i \in Buckets : W[i] = Upto(seen, i) BY <1>0, <1>3 DEF N, Buckets
<1> QED BY <1>1, <1>4

\* One observation more is in its bucket, and in those after it.
LEMMA OneObserved ==
  ASSUME NEW seen \in Seq(Nat), NEW v \in Nat
  PROVE  \A i \in Buckets :
           /\ Within(Append(seen, v), i) = Within(seen, i) + (IF i = BucketOf(v) THEN 1 ELSE 0)
           /\ Upto(seen, i) <= Upto(Append(seen, v), i)
<1> TAKE i \in Buckets
<1>0. i \in Nat BY BoundsTyped DEF Buckets
<1>1. PICK more \in Seq(Nat) : more = Append(seen, v) BY AppendProperties
<1>2. Len(seen) \in Nat /\ Len(more) = Len(seen) + 1 /\ more[Len(seen) + 1] = v
      /\ \A k \in 1 .. Len(seen) : more[k] = seen[k]
  BY <1>1, LenProperties, AppendProperties
<1> DEFINE A == {k \in 1 .. Len(seen) : BucketOf(seen[k]) = i}
           B == {k \in 1 .. Len(more) : BucketOf(more[k]) = i}
           C == {k \in 1 .. Len(seen) : BucketOf(seen[k]) <= i}
           D == {k \in 1 .. Len(more) : BucketOf(more[k]) <= i}
<1>3. B = IF i = BucketOf(v) THEN A \cup {Len(seen) + 1} ELSE A BY <1>2
<1>4. C \subseteq D BY <1>2
<1>5. IsFiniteSet(A) /\ IsFiniteSet(D) /\ Cardinality(A) = Within(seen, i) /\ Cardinality(B) = Within(more, i)
      /\ Cardinality(C) = Upto(seen, i) /\ Cardinality(D) = Upto(more, i)
  BY <1>0, UptoFinite DEF Upto, Within
<1>6. Len(seen) + 1 \notin A BY <1>2
<1>7. Cardinality(B) = Cardinality(A) + (IF i = BucketOf(v) THEN 1 ELSE 0)
  <2>1. Cardinality(A \cup {Len(seen) + 1}) = Cardinality(A) + 1
    <3> HIDE DEF A
    <3> QED BY <1>5, <1>6, FS_AddElement
  <2>2. Cardinality(A) \in Nat BY <1>0, <1>5, UptoFinite
  <2> HIDE DEF A, B
  <2> QED BY <1>3, <2>1, <2>2
<1>8. Cardinality(C) <= Cardinality(D)
  <2> HIDE DEF C, D
  <2> QED BY <1>4, <1>5, FS_Subset
<1> QED BY <1>1, <1>5, <1>7, <1>8

-----------------------------------------------------------------------------
(* ServerMetrics.  What is counted *)

Counters == {"errors", "requests"}
Histograms == {"latency", "duration"}
Values == [counts : [Buckets -> Nat], sum : Nat, count : Nat]
RequestPlaces == {"new", "handler", "count", "panicked", "time", "counted", "done", "aborted"}

CountTypes ==
  /\ counters \in [Counters -> Nat]
  /\ histograms \in [Histograms -> Values]
  /\ observed \in [Histograms -> Seq(Nat)]
  /\ wsOpen \in Int
  /\ request \in [HttpRequests -> [at : RequestPlaces, upgraded : BOOLEAN]]

\* Each observation is in its bucket.
CountsRight ==
  \A h \in Histograms :
    /\ histograms[h].count = Len(observed[h])
    /\ \A i \in Buckets : histograms[h].counts[i] = Within(observed[h], i)

OpenedSet == {r \in HttpRequests : request[r].upgraded /\ request[r].at \notin {"done", "aborted"}}
CountedSet == {r \in HttpRequests : request[r].at \in {"time", "counted", "done"}}
TimedSet == {r \in HttpRequests : request[r].at \in {"counted", "done"} /\ ~request[r].upgraded}

RequestsRight ==
  /\ wsOpen = Cardinality(OpenedSet)
  /\ counters["requests"] = Cardinality(CountedSet)
  /\ histograms["duration"].count = Cardinality(TimedSet)
  /\ \A r \in HttpRequests : request[r].at = "time" => ~request[r].upgraded

CountsInv == CountTypes /\ CountsRight /\ RequestsRight

LEMMA SomeRequests ==
  ASSUME NEW S \in SUBSET HttpRequests
  PROVE  /\ IsFiniteSet(S) /\ Cardinality(S) \in Nat
         /\ \A r \in HttpRequests : r \notin S => Cardinality(S \cup {r}) = Cardinality(S) + 1
         /\ \A r \in S : Cardinality(S \ {r}) = Cardinality(S) - 1
<1>1. IsFiniteSet(S) BY MetricsAssumption, FS_Subset
<1> QED BY <1>1, FS_CardinalityType, FS_AddElement, FS_RemoveElement

LEMMA NothingSeen ==
  /\ <<>> \in Seq(Nat) /\ Len(<<>>) = 0
  /\ \A i \in Buckets : Within(<<>>, i) = 0
<1>1. <<>> \in Seq(Nat) /\ Len(<<>>) = 0 BY EmptySeq
<1>2. \A i \in Buckets : {k \in 1 .. Len(<<>>) : BucketOf(<<>>[k]) = i} = {} BY <1>1
<1> QED BY <1>1, <1>2, FS_EmptySet DEF Within

LEMMA CountsInit == ASSUME MetricsInit PROVE CountsInv
<1>1. CountTypes
  <2>1. NoValues \in Values BY DEF NoValues, Values
  <2> QED BY <2>1, NothingSeen DEF MetricsInit, CountTypes, Counters, Histograms, RequestPlaces
<1>2. CountsRight
  <2>1. ASSUME NEW h \in Histograms PROVE histograms[h] = NoValues /\ observed[h] = <<>>
    BY DEF MetricsInit, Histograms
  <2>2. NoValues.count = 0 /\ \A i \in Buckets : NoValues.counts[i] = 0 BY DEF NoValues
  <2> QED BY <2>1, <2>2, NothingSeen DEF CountsRight
<1>3. RequestsRight
  <2>1. \A r \in HttpRequests : request[r].at = "new" /\ ~request[r].upgraded BY DEF MetricsInit
  <2>2. OpenedSet = {} /\ CountedSet = {} /\ TimedSet = {} BY <2>1 DEF OpenedSet, CountedSet, TimedSet
  <2>3. wsOpen = 0 /\ counters["requests"] = 0 /\ histograms["duration"].count = 0
    BY DEF MetricsInit, NoValues
  <2> QED BY <2>1, <2>2, <2>3, FS_EmptySet DEF RequestsRight
<1> QED BY <1>1, <1>2, <1>3 DEF CountsInv

\* Counters and buckets only grow.
Grown ==
  /\ \A c \in Counters : counters[c] \in Nat /\ counters'[c] \in Nat /\ counters[c] <= counters'[c]
  /\ \A h \in Histograms : \A i \in Buckets :
       Upto(observed[h], i) \in Nat /\ Upto(observed[h], i)' \in Nat /\ Upto(observed[h], i) <= Upto(observed'[h], i)

LEMMA Incremented ==
  ASSUME CountTypes, NEW c \in Counters, Inc(c)
  PROVE  /\ counters' \in [Counters -> Nat] /\ counters'[c] = counters[c] + 1
         /\ \A d \in Counters : counters[d] <= counters'[d] /\ (d # c => counters'[d] = counters[d])
BY DEF CountTypes, Inc

\* What is observed comes into its bucket.
LEMMA Observes ==
  ASSUME CountTypes, CountsRight, NEW f \in Histograms, NEW v \in Nat, Observe(f, v)
  PROVE  /\ histograms' \in [Histograms -> Values] /\ observed' \in [Histograms -> Seq(Nat)] /\ CountsRight'
         /\ histograms'[f].count = histograms[f].count + 1
         /\ \A h \in Histograms : h # f => histograms'[h] = histograms[h] /\ observed'[h] = observed[h]
         /\ \A h \in Histograms : \A i \in Buckets : Upto(observed[h], i) <= Upto(observed'[h], i)
<1>1. histograms[f] \in Values /\ observed[f] \in Seq(Nat) BY DEF CountTypes
<1>2. PICK seen \in Seq(Nat) : seen = observed[f] BY <1>1
<1>3. PICK was \in [Buckets -> Nat], sum \in Nat, count \in Nat :
        histograms[f] = [counts |-> was, sum |-> sum, count |-> count]
  BY <1>1 DEF Values
<1>4. PICK b \in Buckets : b = BucketOf(v) BY BucketFits
<1>5. /\ observed' = [observed EXCEPT ![f] = Append(seen, v)]
      /\ histograms' = [histograms EXCEPT ![f] = [counts |-> [was EXCEPT ![b] = @ + 1], sum |-> sum + v,
                                                   count |-> count + 1]]
  <2>1. histograms' = [histograms EXCEPT ![f] =
          [counts |-> Counted(histograms[f].counts, v), sum |-> histograms[f].sum + v,
           count |-> histograms[f].count + 1]]
    BY DEF Observe, CountTypes
  <2>2. histograms[f].counts = was /\ histograms[f].sum = sum /\ histograms[f].count = count BY <1>3
  <2>3. observed' = [observed EXCEPT ![f] = Append(seen, v)] BY <1>2 DEF Observe, CountTypes
  <2> QED BY ONLY <1>4, <2>1, <2>2, <2>3 DEF Counted
<1>6. PICK more \in Seq(Nat) : more = Append(seen, v) /\ Len(more) = Len(seen) + 1 BY AppendProperties
<1>7. PICK now \in [Buckets -> Nat] : now = [was EXCEPT ![b] = @ + 1]
  <2>1. was[b] + 1 \in Nat BY ONLY was \in [Buckets -> Nat], b \in Buckets
  <2>2. [was EXCEPT ![b] = was[b] + 1] \in [Buckets -> Nat] BY ONLY <2>1, was \in [Buckets -> Nat], b \in Buckets
  <2> QED BY <2>2
<1>8. \A i \in Buckets : now[i] = was[i] + (IF i = b THEN 1 ELSE 0) BY <1>7
<1>9. PICK values \in Values : values = [counts |-> now, sum |-> sum + v, count |-> count + 1]
  <2>1. sum + v \in Nat /\ count + 1 \in Nat BY ONLY sum \in Nat, count \in Nat, v \in Nat
  <2>2. [counts |-> now, sum |-> sum + v, count |-> count + 1] \in Values
    BY ONLY <2>1, now \in [Buckets -> Nat] DEF Values
  <2> QED BY <2>2
<1>10. histograms' = [histograms EXCEPT ![f] = values] /\ observed' = [observed EXCEPT ![f] = more]
  BY <1>5, <1>6, <1>7, <1>9
<1>11. /\ histograms' \in [Histograms -> Values] /\ observed' \in [Histograms -> Seq(Nat)]
       /\ histograms'[f] = values /\ observed'[f] = more
       /\ \A h \in Histograms : h # f => histograms'[h] = histograms[h] /\ observed'[h] = observed[h]
  BY <1>10 DEF CountTypes
<1>12. count = Len(seen) /\ \A i \in Buckets : was[i] = Within(seen, i) BY <1>2, <1>3 DEF CountsRight
<1>13. \A i \in Buckets :
        Within(more, i) = Within(seen, i) + (IF i = b THEN 1 ELSE 0) /\ Upto(seen, i) <= Upto(more, i)
  BY <1>4, <1>6, OneObserved
<1>14. values.count = Len(more) /\ \A i \in Buckets : values.counts[i] = Within(more, i)
  BY <1>6, <1>8, <1>9, <1>12, <1>13
<1>15. CountsRight'
  <2>1. ASSUME NEW h \in Histograms
        PROVE  /\ histograms'[h].count = Len(observed'[h])
               /\ \A i \in Buckets : histograms'[h].counts[i] = Within(observed'[h], i)
    <3>1. CASE h = f BY <1>11, <1>14, <3>1
    <3>2. CASE h # f BY <1>11, <3>2 DEF CountsRight
    <3> QED BY <3>1, <3>2
  <2> QED BY <2>1 DEF CountsRight
<1>16. ASSUME NEW h \in Histograms, NEW i \in Buckets PROVE Upto(observed[h], i) <= Upto(observed'[h], i)
  <2>1. CASE h = f BY <1>2, <1>11, <1>13, <2>1
  <2>2. CASE h # f
    <3>1. observed[h] \in Seq(Nat) /\ i \in Nat BY BoundsTyped DEF CountTypes, Buckets
    <3>2. Upto(observed[h], i) \in Nat BY <3>1, UptoFinite
    <3> QED BY <1>11, <2>2, <3>2
  <2> QED BY <2>1, <2>2
<1>17. histograms'[f].count = histograms[f].count + 1 BY <1>3, <1>9, <1>11
<1> QED BY <1>11, <1>15, <1>16, <1>17

LEMMA GrowsWhen ==
  ASSUME CountTypes, CountTypes', \A c \in Counters : counters[c] <= counters'[c],
         \A h \in Histograms : \A i \in Buckets : Upto(observed[h], i) <= Upto(observed'[h], i)
  PROVE  Grown
<1>1. \A c \in Counters : counters[c] \in Nat /\ counters'[c] \in Nat BY DEF CountTypes
<1>2. ASSUME NEW h \in Histograms, NEW i \in Buckets
      PROVE  Upto(observed[h], i) \in Nat /\ Upto(observed'[h], i) \in Nat
  <2>1. i \in Nat BY BoundsTyped DEF Buckets
  <2>2. PICK seen \in Seq(Nat) : seen = observed[h] BY DEF CountTypes
  <2>3. PICK more \in Seq(Nat) : more = observed'[h] BY DEF CountTypes
  <2> QED BY <2>1, <2>2, <2>3, UptoFinite
<1> QED BY <1>1, <1>2 DEF Grown

LEMMA NothingGrows == ASSUME CountTypes, UNCHANGED <<counters, observed>>, CountTypes' PROVE Grown
<1>1. \A c \in Counters : counters[c] <= counters'[c] BY DEF CountTypes
<1>2. ASSUME NEW h \in Histograms, NEW i \in Buckets PROVE Upto(observed[h], i) <= Upto(observed'[h], i)
  <2>1. i \in Nat /\ observed[h] \in Seq(Nat) BY BoundsTyped DEF Buckets, CountTypes
  <2>2. Upto(observed[h], i) \in Nat BY <2>1, UptoFinite
  <2> QED BY <2>2
<1> QED BY <1>1, <1>2, GrowsWhen

\* An observation or an error of a session.
LEMMA SessionCounts ==
  ASSUME CountsInv, SessionError \/ \E v \in Durations : CaptionLatency(v)
  PROVE  CountsInv' /\ Grown
<1>0. CountTypes /\ CountsRight /\ RequestsRight BY DEF CountsInv
<1>1. CASE SessionError
  <2>1. Inc("errors") /\ UNCHANGED <<histograms, observed, wsOpen, request>> BY <1>1 DEF SessionError
  <2>2. /\ counters' \in [Counters -> Nat] /\ counters'["requests"] = counters["requests"]
        /\ \A d \in Counters : counters[d] <= counters'[d]
    <3>1. "errors" \in Counters /\ "requests" \in Counters /\ "errors" # "requests" BY DEF Counters
    <3> QED BY <1>0, <2>1, <3>1, Incremented
  <2>3. CountTypes' BY <1>0, <2>1, <2>2 DEF CountTypes
  <2>4. CountsRight' BY <1>0, <2>1 DEF CountsRight
  <2>5. RequestsRight' BY <1>0, <2>1, <2>2 DEF RequestsRight, OpenedSet, CountedSet, TimedSet
  <2>6. \A h \in Histograms : \A i \in Buckets : Upto(observed[h], i) <= Upto(observed'[h], i)
    <3> TAKE h \in Histograms
    <3> TAKE i \in Buckets
    <3>1. i \in Nat /\ observed[h] \in Seq(Nat) BY <1>0, BoundsTyped DEF Buckets, CountTypes
    <3>2. Upto(observed[h], i) \in Nat BY <3>1, UptoFinite
    <3> QED BY <2>1, <3>2
  <2>7. Grown BY <1>0, <2>2, <2>3, <2>6, GrowsWhen
  <2> QED BY <2>3, <2>4, <2>5, <2>7 DEF CountsInv
<1>2. CASE \E v \in Durations : CaptionLatency(v)
  <2>1. PICK v \in Nat : Observe("latency", v) /\ UNCHANGED <<counters, wsOpen, request>>
    BY <1>2, MetricsAssumption DEF CaptionLatency
  <2>2. "latency" \in Histograms /\ "duration" \in Histograms /\ "latency" # "duration" BY DEF Histograms
  <2>3. /\ histograms' \in [Histograms -> Values] /\ observed' \in [Histograms -> Seq(Nat)] /\ CountsRight'
        /\ histograms'["duration"] = histograms["duration"]
        /\ \A h \in Histograms : \A i \in Buckets : Upto(observed[h], i) <= Upto(observed'[h], i)
    BY <1>0, <2>1, <2>2, Observes
  <2>4. CountTypes' BY <1>0, <2>1, <2>3 DEF CountTypes
  <2>5. RequestsRight' BY <1>0, <2>1, <2>3 DEF RequestsRight, OpenedSet, CountedSet, TimedSet
  <2>6. \A c \in Counters : counters[c] <= counters'[c] BY <1>0, <2>1 DEF CountTypes
  <2>7. Grown BY <1>0, <2>3, <2>4, <2>6, GrowsWhen
  <2> QED BY <2>3, <2>4, <2>5, <2>7 DEF CountsInv
<1> QED BY <1>1, <1>2

\* A request that goes from one place to another, and is open or not.
LEMMA RequestMoves ==
  ASSUME CountTypes, NEW r \in HttpRequests, NEW at \in RequestPlaces, RequestGoes(r, at)
  PROVE  /\ request' \in [HttpRequests -> [at : RequestPlaces, upgraded : BOOLEAN]]
         /\ request'[r].at = at /\ request'[r].upgraded = request[r].upgraded
         /\ \A q \in HttpRequests : q # r => request'[q] = request[q]
<1>1. request' = [request EXCEPT ![r].at = at] BY DEF RequestGoes
<1>2. request \in [HttpRequests -> [at : RequestPlaces, upgraded : BOOLEAN]] BY DEF CountTypes
<1> QED BY ONLY <1>1, <1>2, r \in HttpRequests, at \in RequestPlaces

\* The steps that count nothing: the sets stay what they are.
LEMMA RequestWalks ==
  ASSUME CountsInv, NEW r \in HttpRequests, StartRequest(r) \/ HandlerReturns(r)
  PROVE  CountsInv' /\ Grown
<1>0. CountTypes /\ CountsRight /\ RequestsRight BY DEF CountsInv
<1>1. PICK at \in {"handler", "count", "panicked"} : RequestGoes(r, at) BY DEF StartRequest, HandlerReturns
<1>2. request[r].at \in {"new", "handler"} /\ UNCHANGED <<counters, histograms, observed, wsOpen>>
  BY DEF StartRequest, HandlerReturns, RequestAt
<1>3. at \in RequestPlaces BY DEF RequestPlaces
<1>4. /\ request' \in [HttpRequests -> [at : RequestPlaces, upgraded : BOOLEAN]]
      /\ request'[r].at = at /\ request'[r].upgraded = request[r].upgraded
      /\ \A q \in HttpRequests : q # r => request'[q] = request[q]
  BY <1>0, <1>1, <1>3, RequestMoves
<1>5. OpenedSet' = OpenedSet /\ CountedSet' = CountedSet /\ TimedSet' = TimedSet
  BY <1>2, <1>4 DEF OpenedSet, CountedSet, TimedSet
<1>6. CountTypes' BY <1>0, <1>2, <1>4 DEF CountTypes
<1>7. CountsRight' BY <1>0, <1>2 DEF CountsRight
<1>8. \A q \in HttpRequests : request'[q].at = "time" => ~request'[q].upgraded
  BY <1>0, <1>1, <1>4 DEF RequestsRight
<1>9. RequestsRight' BY <1>0, <1>2, <1>5, <1>8 DEF RequestsRight
<1>10. Grown BY <1>0, <1>2, <1>6, NothingGrows
<1> QED BY <1>6, <1>7, <1>9, <1>10 DEF CountsInv

LEMMA RequestUpgrades == ASSUME CountsInv, NEW r \in HttpRequests, WriteHeader101(r) PROVE CountsInv' /\ Grown
<1>0. CountTypes /\ CountsRight /\ RequestsRight BY DEF CountsInv
<1>1. /\ request[r].at = "handler" /\ ~request[r].upgraded /\ request' = [request EXCEPT ![r].upgraded = TRUE]
      /\ wsOpen' = wsOpen + 1 /\ UNCHANGED <<counters, histograms, observed>>
  BY DEF WriteHeader101, WSOpened, RequestAt
<1>2. /\ request' \in [HttpRequests -> [at : RequestPlaces, upgraded : BOOLEAN]]
      /\ request'[r].at = "handler" /\ request'[r].upgraded
      /\ \A q \in HttpRequests : q # r => request'[q] = request[q]
  <2>1. request \in [HttpRequests -> [at : RequestPlaces, upgraded : BOOLEAN]] BY <1>0 DEF CountTypes
  <2>2. request'[r].upgraded = TRUE BY ONLY <1>1, <2>1, r \in HttpRequests
  <2>3. /\ request' \in [HttpRequests -> [at : RequestPlaces, upgraded : BOOLEAN]]
        /\ request'[r].at = "handler" /\ \A q \in HttpRequests : q # r => request'[q] = request[q]
    BY ONLY <1>1, <2>1, r \in HttpRequests
  <2> QED BY <2>2, <2>3
<1>3. r \notin OpenedSet /\ OpenedSet' = OpenedSet \cup {r} BY <1>1, <1>2 DEF OpenedSet
<1>4. CountedSet' = CountedSet /\ TimedSet' = TimedSet BY <1>1, <1>2 DEF CountedSet, TimedSet
<1>5. OpenedSet \in SUBSET HttpRequests BY DEF OpenedSet
<1>6. Cardinality(OpenedSet') = Cardinality(OpenedSet) + 1 BY <1>3, <1>5, SomeRequests
<1>7. CountTypes' BY <1>0, <1>1, <1>2 DEF CountTypes
<1>8. CountsRight' BY <1>0, <1>1 DEF CountsRight
<1>9. \A q \in HttpRequests : request'[q].at = "time" => ~request'[q].upgraded
  BY <1>0, <1>2 DEF RequestsRight
<1>10. RequestsRight' BY <1>0, <1>1, <1>4, <1>6, <1>9 DEF RequestsRight
<1>11. Grown BY <1>0, <1>1, <1>7, NothingGrows
<1> QED BY <1>7, <1>8, <1>10, <1>11 DEF CountsInv

LEMMA RequestCounted == ASSUME CountsInv, NEW r \in HttpRequests, CountRequest(r) PROVE CountsInv' /\ Grown
<1>0. CountTypes /\ CountsRight /\ RequestsRight BY DEF CountsInv
<1>1. PICK at \in {"counted", "time"} :
        RequestGoes(r, at) /\ (at = "counted" <=> request[r].upgraded)
  BY <1>0 DEF CountRequest, CountTypes
<1>2. request[r].at = "count" /\ Inc("requests") /\ UNCHANGED <<histograms, observed, wsOpen>>
  BY DEF CountRequest, RequestAt
<1>3. at \in RequestPlaces BY DEF RequestPlaces
<1>4. /\ request' \in [HttpRequests -> [at : RequestPlaces, upgraded : BOOLEAN]]
      /\ request'[r].at = at /\ request'[r].upgraded = request[r].upgraded
      /\ \A q \in HttpRequests : q # r => request'[q] = request[q]
  BY <1>0, <1>1, <1>3, RequestMoves
<1>5. OpenedSet' = OpenedSet /\ TimedSet' = TimedSet BY <1>1, <1>2, <1>4 DEF OpenedSet, TimedSet
<1>6. r \notin CountedSet /\ CountedSet' = CountedSet \cup {r} BY <1>2, <1>4 DEF CountedSet
<1>7. CountedSet \in SUBSET HttpRequests BY DEF CountedSet
<1>8. Cardinality(CountedSet') = Cardinality(CountedSet) + 1 BY <1>6, <1>7, SomeRequests
<1>9. /\ counters' \in [Counters -> Nat] /\ counters'["requests"] = counters["requests"] + 1
      /\ \A d \in Counters : counters[d] <= counters'[d]
  <2>1. "requests" \in Counters BY DEF Counters
  <2> QED BY <1>0, <1>2, <2>1, Incremented
<1>10. CountTypes' BY <1>0, <1>2, <1>4, <1>9 DEF CountTypes
<1>11. CountsRight' BY <1>0, <1>2 DEF CountsRight
<1>12. \A q \in HttpRequests : request'[q].at = "time" => ~request'[q].upgraded
  BY <1>0, <1>1, <1>4 DEF RequestsRight
<1>13. RequestsRight' BY <1>0, <1>2, <1>5, <1>8, <1>9, <1>12 DEF RequestsRight
<1>14. \A h \in Histograms : \A i \in Buckets : Upto(observed[h], i) <= Upto(observed'[h], i)
  <2> TAKE h \in Histograms
  <2> TAKE i \in Buckets
  <2>1. i \in Nat /\ observed[h] \in Seq(Nat) BY <1>0, BoundsTyped DEF Buckets, CountTypes
  <2>2. Upto(observed[h], i) \in Nat BY <2>1, UptoFinite
  <2> QED BY <1>2, <2>2
<1>15. Grown BY <1>0, <1>9, <1>10, <1>14, GrowsWhen
<1> QED BY <1>10, <1>11, <1>13, <1>15 DEF CountsInv

LEMMA RequestTimed ==
  ASSUME CountsInv, NEW r \in HttpRequests, NEW v \in Durations, TimeRequest(r, v) PROVE CountsInv' /\ Grown
<1>0. CountTypes /\ CountsRight /\ RequestsRight /\ v \in Nat BY MetricsAssumption DEF CountsInv
<1>1. /\ request[r].at = "time" /\ Observe("duration", v) /\ RequestGoes(r, "counted")
      /\ UNCHANGED <<counters, wsOpen>>
  BY DEF TimeRequest, RequestAt
<1>2. "counted" \in RequestPlaces /\ "duration" \in Histograms BY DEF RequestPlaces, Histograms
<1>3. /\ request' \in [HttpRequests -> [at : RequestPlaces, upgraded : BOOLEAN]]
      /\ request'[r].at = "counted" /\ request'[r].upgraded = request[r].upgraded
      /\ \A q \in HttpRequests : q # r => request'[q] = request[q]
  BY <1>0, <1>1, <1>2, RequestMoves
<1>4. ~request[r].upgraded BY <1>0, <1>1 DEF RequestsRight
<1>5. OpenedSet' = OpenedSet /\ CountedSet' = CountedSet BY <1>1, <1>3 DEF OpenedSet, CountedSet
<1>6. r \notin TimedSet /\ TimedSet' = TimedSet \cup {r} BY <1>1, <1>3, <1>4 DEF TimedSet
<1>7. TimedSet \in SUBSET HttpRequests BY DEF TimedSet
<1>8. Cardinality(TimedSet') = Cardinality(TimedSet) + 1 BY <1>6, <1>7, SomeRequests
<1>9. /\ histograms' \in [Histograms -> Values] /\ observed' \in [Histograms -> Seq(Nat)] /\ CountsRight'
      /\ histograms'["duration"].count = histograms["duration"].count + 1
      /\ \A h \in Histograms : \A i \in Buckets : Upto(observed[h], i) <= Upto(observed'[h], i)
  BY <1>0, <1>1, <1>2, Observes
<1>10. CountTypes' BY <1>0, <1>1, <1>3, <1>9 DEF CountTypes
<1>11. \A q \in HttpRequests : request'[q].at = "time" => ~request'[q].upgraded
  BY <1>0, <1>3 DEF RequestsRight
<1>12. RequestsRight' BY <1>0, <1>1, <1>5, <1>8, <1>9, <1>11 DEF RequestsRight
<1>13. \A c \in Counters : counters[c] <= counters'[c] BY <1>0, <1>1 DEF CountTypes
<1>14. Grown BY <1>0, <1>9, <1>10, <1>13, GrowsWhen
<1> QED BY <1>9, <1>10, <1>12, <1>14 DEF CountsInv

LEMMA RequestOver == ASSUME CountsInv, NEW r \in HttpRequests, CloseWS(r) PROVE CountsInv' /\ Grown
<1>0. CountTypes /\ CountsRight /\ RequestsRight BY DEF CountsInv
<1>1. PICK at \in {"done", "aborted"} :
        RequestGoes(r, at) /\ request[r].at = (IF at = "done" THEN "counted" ELSE "panicked")
  BY DEF CloseWS, RequestAt
<1>2. UNCHANGED <<counters, histograms, observed>> /\ wsOpen' = IF request[r].upgraded THEN wsOpen - 1 ELSE wsOpen
  BY DEF CloseWS, WSClosed
<1>3. at \in RequestPlaces BY DEF RequestPlaces
<1>4. /\ request' \in [HttpRequests -> [at : RequestPlaces, upgraded : BOOLEAN]]
      /\ request'[r].at = at /\ request'[r].upgraded = request[r].upgraded
      /\ \A q \in HttpRequests : q # r => request'[q] = request[q]
  BY <1>0, <1>1, <1>3, RequestMoves
<1>5. CountedSet' = CountedSet /\ TimedSet' = TimedSet BY <1>1, <1>4 DEF CountedSet, TimedSet
<1>6. OpenedSet' = (IF request[r].upgraded THEN OpenedSet \ {r} ELSE OpenedSet)
      /\ (request[r].upgraded => r \in OpenedSet)
  BY <1>1, <1>4 DEF OpenedSet
<1>7. OpenedSet \in SUBSET HttpRequests BY DEF OpenedSet
<1>8. Cardinality(OpenedSet') = IF request[r].upgraded THEN Cardinality(OpenedSet) - 1 ELSE Cardinality(OpenedSet)
  BY <1>6, <1>7, SomeRequests
<1>9. CountTypes' BY <1>0, <1>2, <1>4 DEF CountTypes
<1>10. CountsRight' BY <1>0, <1>2 DEF CountsRight
<1>11. \A q \in HttpRequests : request'[q].at = "time" => ~request'[q].upgraded
  BY <1>0, <1>1, <1>4 DEF RequestsRight
<1>12. RequestsRight' BY <1>0, <1>2, <1>5, <1>8, <1>11 DEF RequestsRight
<1>13. Grown BY <1>0, <1>2, <1>9, NothingGrows
<1> QED BY <1>9, <1>10, <1>12, <1>13 DEF CountsInv

-----------------------------------------------------------------------------
(* ServerMetrics.  What a scrape writes *)

\* A counter or a histogram is no gauge: its family cannot fail.
LEMMA FamilyKinds ==
  ASSUME NEW i \in 1 .. Len(Families)
  PROVE  /\ Families[i].name \in Counters => Families[i].kind = "counter"
         /\ Families[i].name \in Histograms => Families[i].kind = "histogram"
         /\ Families[i].name \in Counters \cup Histograms => ~MayFail(Families[i])
<1>1. PICK j \in 1 .. Len(AllFamilies) : Families[i] = AllFamilies[j] BY MetricsAssumption
<1>2. j \in 1 .. 10 BY DEF AllFamilies
<1>3. AllFamilies[j].name \in Counters => AllFamilies[j].kind = "counter" BY <1>2 DEF AllFamilies, Counters
<1>4. AllFamilies[j].name \in Histograms => AllFamilies[j].kind = "histogram" BY <1>2 DEF AllFamilies, Histograms
<1> QED BY <1>1, <1>3, <1>4 DEF MayFail

\* What a scrape has written: the families before the one it is at, and no
\* more of each than there is.
OutRight(w, top, seen) ==
  /\ w = [at |-> w.at, family |-> w.family, out |-> w.out, failed |-> w.failed, after |-> w.after]
  /\ w.family \in Nat \ {0} /\ w.failed \in BOOLEAN /\ w.after \in SUBSET ScrapeCalls
  /\ w.at = "idle" => DOMAIN w.out = {}
  /\ w.at = "served" => w.family > Len(Families)
  /\ \A i \in 1 .. Len(Families) : i < w.family =>
       Families[i].name \in DOMAIN w.out \/ (MayFail(Families[i]) /\ w.failed)
  /\ \A c \in Counters \cap DOMAIN w.out : w.out[c] \in Nat /\ w.out[c] <= top[c]
  /\ \A h \in Histograms \cap DOMAIN w.out : \A i \in Buckets :
       w.out[h].le[i] \in Nat /\ w.out[h].le[i] <= Upto(seen[h], i)

NotLess(out, earlier) ==
  /\ \A c \in Counters \cap DOMAIN out : c \in DOMAIN earlier /\ earlier[c] <= out[c]
  /\ \A h \in Histograms \cap DOMAIN out :
       h \in DOMAIN earlier /\ \A i \in Buckets : earlier[h].le[i] <= out[h].le[i]

ScrapesInv ==
  /\ scraper = [s \in ScrapeCalls |-> scraper[s]]
  /\ \A s \in ScrapeCalls : OutRight(scraper[s], counters, observed)
  /\ \A s \in ScrapeCalls : \A t \in scraper[s].after :
       scraper[t].at = "served" /\ NotLess(scraper[s].out, scraper[t].out)

MetricsInv == CountsInv /\ ScrapesInv

LEMMA ScrapesInit == ASSUME MetricsInit PROVE ScrapesInv
<1>1. scraper = [s \in ScrapeCalls |-> NotScraping] BY DEF MetricsInit
<1>2. DOMAIN NotScraping.out = {} BY EmptySeq DEF NotScraping
<1>3. OutRight(NotScraping, counters, observed)
  <2>1. ~ \E i \in 1 .. Len(Families) : i < NotScraping.family BY DEF NotScraping
  <2>2. /\ NotScraping.family \in Nat \ {0} /\ NotScraping.failed \in BOOLEAN
        /\ NotScraping.after \in SUBSET ScrapeCalls /\ NotScraping.at = "idle"
        /\ NotScraping = [at |-> NotScraping.at, family |-> NotScraping.family, out |-> NotScraping.out,
                          failed |-> NotScraping.failed, after |-> NotScraping.after]
    BY DEF NotScraping
  <2> QED BY <1>2, <2>1, <2>2 DEF OutRight
<1>4. NotScraping.after = {} BY DEF NotScraping
<1> QED BY <1>1, <1>3, <1>4 DEF ScrapesInv

\* Counting more leaves what was written right.
LEMMA StillRight ==
  ASSUME NEW w, OutRight(w, counters, observed), Grown
  PROVE  OutRight(w, counters', observed')
<1>1. ASSUME NEW c \in Counters \cap DOMAIN w.out PROVE w.out[c] \in Nat /\ w.out[c] <= counters'[c]
  <2>1. w.out[c] \in Nat /\ w.out[c] <= counters[c] BY <1>1 DEF OutRight
  <2>2. counters[c] \in Nat /\ counters'[c] \in Nat /\ counters[c] <= counters'[c] BY <1>1 DEF Grown
  <2> QED BY <2>1, <2>2
<1>2. ASSUME NEW h \in Histograms \cap DOMAIN w.out, NEW i \in Buckets
      PROVE  w.out[h].le[i] \in Nat /\ w.out[h].le[i] <= Upto(observed'[h], i)
  <2>1. w.out[h].le[i] \in Nat /\ w.out[h].le[i] <= Upto(observed[h], i) BY <1>2 DEF OutRight
  <2>2. Upto(observed[h], i) \in Nat /\ Upto(observed'[h], i) \in Nat
        /\ Upto(observed[h], i) <= Upto(observed'[h], i)
    BY <1>2 DEF Grown
  <2> QED BY <2>1, <2>2
<1> QED BY <1>1, <1>2 DEF OutRight

LEMMA ScrapesStay == ASSUME ScrapesInv, Grown, UNCHANGED scraper PROVE ScrapesInv'
<1>1. \A s \in ScrapeCalls : OutRight(scraper[s], counters', observed') BY StillRight DEF ScrapesInv
<1> QED BY <1>1 DEF ScrapesInv

LEMMA CountsStay == ASSUME CountsInv, KeepCounts PROVE CountsInv' /\ Grown
<1>0. CountTypes /\ CountsRight /\ RequestsRight BY DEF CountsInv
<1>1. CountTypes' BY <1>0 DEF KeepCounts, CountTypes
<1>2. CountsRight' BY <1>0 DEF KeepCounts, CountsRight
<1>3. RequestsRight' BY <1>0 DEF KeepCounts, RequestsRight, OpenedSet, CountedSet, TimedSet
<1>4. Grown BY <1>0, <1>1, NothingGrows DEF KeepCounts
<1> QED BY <1>1, <1>2, <1>3, <1>4 DEF CountsInv

\* One scrape goes on; those served are what they were.
LEMMA ScrapeGoes ==
  ASSUME ScrapesInv, KeepCounts, NEW s \in ScrapeCalls, NEW v, scraper[s].at # "served",
         scraper' = [t \in ScrapeCalls |-> scraper'[t]], scraper'[s] = v,
         \A t \in ScrapeCalls : t # s => scraper'[t] = scraper[t],
         OutRight(v, counters, observed),
         \A t \in v.after : scraper[t].at = "served" /\ NotLess(v.out, scraper[t].out)
  PROVE  ScrapesInv'
<1>1. ASSUME NEW t \in ScrapeCalls PROVE OutRight(scraper'[t], counters', observed')
  <2>1. OutRight(scraper'[t], counters, observed) BY DEF ScrapesInv
  <2>2. counters' = counters /\ observed' = observed BY DEF KeepCounts
  <2> QED BY <2>1, <2>2
<1>2. ASSUME NEW t \in ScrapeCalls, NEW u \in scraper'[t].after
      PROVE  scraper'[u].at = "served" /\ NotLess(scraper'[t].out, scraper'[u].out)
  <2>1. scraper[u].at = "served" /\ NotLess(scraper'[t].out, scraper[u].out)
    BY <1>2 DEF ScrapesInv
  <2>2. u \in ScrapeCalls /\ u # s
    <3>1. OutRight(scraper'[t], counters', observed') BY <1>1
    <3> QED BY <2>1, <3>1 DEF OutRight
  <2> QED BY <2>1, <2>2
<1> QED BY <1>1, <1>2 DEF ScrapesInv

\* The sample of a counter or a histogram is what there is.
LEMMA SampleRight ==
  ASSUME CountTypes, CountsRight, NEW i \in 1 .. Len(Families)
  PROVE  /\ Families[i].name \in Counters => Sample(Families[i]) = counters[Families[i].name]
         /\ Families[i].name \in Histograms => \A b \in Buckets :
              Sample(Families[i]).le[b] = Upto(observed[Families[i].name], b)
<1>1. ASSUME Families[i].name \in Counters PROVE Sample(Families[i]) = counters[Families[i].name]
  <2>1. Families[i].kind = "counter" BY <1>1, FamilyKinds
  <2> QED BY <2>1 DEF Sample
<1>2. ASSUME Families[i].name \in Histograms
      PROVE  \A b \in Buckets : Sample(Families[i]).le[b] = Upto(observed[Families[i].name], b)
  <2>1. Families[i].kind = "histogram" BY <1>2, FamilyKinds
  <2>2. Sample(Families[i]) = Cumulative(histograms[Families[i].name]) BY <2>1 DEF Sample
  <2>3. PICK seen \in Seq(Nat) : seen = observed[Families[i].name] BY <1>2 DEF CountTypes
  <2>4. PICK h : h = histograms[Families[i].name] OBVIOUS
  <2>5. \A b \in Buckets : h.counts[b] = Within(seen, b) BY <1>2, <2>3, <2>4 DEF CountsRight
  <2>6. \A b \in Buckets : Cumulative(h).le[b] = Upto(seen, b) BY ONLY <2>5, seen \in Seq(Nat), Cumulates
  <2> QED BY <2>2, <2>3, <2>4, <2>6
<1> QED BY <1>1, <1>2

\* A field of the scrape's record is set; the others stay.
LEMMA ScrapeSteps ==
  ASSUME ScrapesInv, CountsInv, NEW s \in ScrapeCalls, RefuseScrape(s) \/ StartScrape(s) \/ ServeScrape(s)
  PROVE  ScrapesInv'
<1>1. scraper = [t \in ScrapeCalls |-> scraper[t]] /\ OutRight(scraper[s], counters, observed) /\ KeepCounts
  BY DEF ScrapesInv, RefuseScrape, StartScrape, ServeScrape
<1>2. PICK w : w = scraper[s] OBVIOUS
<1>3. /\ w = [at |-> w.at, family |-> w.family, out |-> w.out, failed |-> w.failed, after |-> w.after]
      /\ OutRight(w, counters, observed)
  BY <1>1, <1>2 DEF OutRight
<1>4. \A t \in w.after : scraper[t].at = "served" /\ NotLess(w.out, scraper[t].out) BY <1>2 DEF ScrapesInv
<1>5. CASE RefuseScrape(s) \/ ServeScrape(s)
  <2>1. PICK at \in {"refused", "served", "lost"} :
          /\ scraper' = [scraper EXCEPT ![s].at = at] /\ w.at # "served"
          /\ at = "served" => w.family > Len(Families)
    BY <1>2, <1>5 DEF RefuseScrape, ServeScrape, ScrapeAt
  <2>2. PICK v : v = [at |-> at, family |-> w.family, out |-> w.out, failed |-> w.failed, after |-> w.after]
    OBVIOUS
  <2>3. /\ scraper' = [t \in ScrapeCalls |-> scraper'[t]] /\ scraper'[s] = v
        /\ \A t \in ScrapeCalls : t # s => scraper'[t] = scraper[t]
    BY ONLY <1>1, <1>2, <1>3, <2>1, <2>2, s \in ScrapeCalls
  <2>4. /\ v.at = at /\ v.family = w.family /\ v.out = w.out /\ v.failed = w.failed /\ v.after = w.after
    BY <2>2
  <2>5. OutRight(v, counters, observed) BY <1>3, <2>1, <2>2, <2>4 DEF OutRight
  <2> QED BY <1>1, <1>2, <1>4, <2>1, <2>3, <2>4, <2>5, ScrapeGoes
<1>6. CASE StartScrape(s)
  <2>1. PICK after \in SUBSET ScrapeCalls :
          /\ scraper' = [scraper EXCEPT ![s] = [@ EXCEPT !.at = "write", !.after = after]]
          /\ \A t \in after : scraper[t].at = "served"
    <3> DEFINE Served == {t \in ScrapeCalls : ScrapeAt(t, "served")}
    <3>1. scraper' = [scraper EXCEPT ![s] = [@ EXCEPT !.at = "write", !.after = Served]]
      BY <1>6 DEF StartScrape
    <3>2. Served \in SUBSET ScrapeCalls /\ \A t \in Served : scraper[t].at = "served" BY DEF ScrapeAt
    <3> HIDE DEF Served
    <3> QED BY ONLY <3>1, <3>2
  <2>2. PICK v : v = [at |-> "write", family |-> w.family, out |-> w.out, failed |-> w.failed, after |-> after]
    OBVIOUS
  <2>3. /\ scraper' = [t \in ScrapeCalls |-> scraper'[t]] /\ scraper'[s] = v
        /\ \A t \in ScrapeCalls : t # s => scraper'[t] = scraper[t]
    BY ONLY <1>1, <1>2, <1>3, <2>1, <2>2, s \in ScrapeCalls
  <2>4. w.at = "idle" /\ DOMAIN w.out = {} BY <1>2, <1>3, <1>6 DEF OutRight, StartScrape, ScrapeAt
  <2>5. /\ v.at = "write" /\ v.family = w.family /\ v.out = w.out /\ v.failed = w.failed /\ v.after = after
    BY <2>2
  <2>6. OutRight(v, counters, observed) BY <1>3, <2>2, <2>5 DEF OutRight
  <2>7. \A t \in v.after : scraper[t].at = "served" /\ NotLess(v.out, scraper[t].out)
    BY <2>1, <2>4, <2>5 DEF NotLess
  <2>8. scraper[s].at # "served" BY <1>2, <2>4
  <2> QED BY <1>1, <2>3, <2>6, <2>7, <2>8, ScrapeGoes
<1> QED BY <1>5, <1>6

LEMMA FamilyWritten == ASSUME ScrapesInv, CountsInv, NEW s \in ScrapeCalls, WriteFamily(s) PROVE ScrapesInv'
<1>0. CountTypes /\ CountsRight BY DEF CountsInv
<1>1. scraper = [t \in ScrapeCalls |-> scraper[t]] /\ OutRight(scraper[s], counters, observed) /\ KeepCounts
  BY DEF ScrapesInv, WriteFamily
<1>2. PICK w : w = scraper[s] OBVIOUS
<1>3. /\ w = [at |-> w.at, family |-> w.family, out |-> w.out, failed |-> w.failed, after |-> w.after]
      /\ OutRight(w, counters, observed)
  BY <1>1, <1>2 DEF OutRight
<1>4. w.at = "write" /\ w.family \in 1 .. Len(Families)
  <2>1. w.family \in Nat \ {0} BY <1>3 DEF OutRight
  <2>2. w.at = "write" /\ w.family <= Len(Families) BY <1>2 DEF WriteFamily, ScrapeAt
  <2> QED BY <2>1, <2>2, MetricsAssumption
<1>5. PICK i \in 1 .. Len(Families) : i = w.family BY <1>4
<1>6. PICK f : f = Families[i] OBVIOUS
<1>7. PICK fails \in BOOLEAN :
        /\ fails => MayFail(f)
        /\ scraper' = [scraper EXCEPT ![s].out = IF fails THEN @ ELSE Written(@, f),
                                      ![s].failed = @ \/ fails, ![s].family = w.family + 1]
  BY <1>2, <1>5, <1>6 DEF WriteFamily, NextFamily, MayFail
<1>8. PICK out : out = IF fails THEN w.out ELSE Written(w.out, f) OBVIOUS
<1>9. PICK anyFailed \in BOOLEAN : anyFailed = (w.failed \/ fails) BY <1>3 DEF OutRight
<1>10. PICK v : v = [at |-> w.at, family |-> i + 1, out |-> out, failed |-> anyFailed, after |-> w.after]
  OBVIOUS
<1>11. /\ scraper' = [t \in ScrapeCalls |-> scraper'[t]] /\ scraper'[s] = v
       /\ \A t \in ScrapeCalls : t # s => scraper'[t] = scraper[t]
  BY ONLY <1>1, <1>2, <1>3, <1>5, <1>7, <1>8, <1>9, <1>10, s \in ScrapeCalls
<1>12. /\ v.at = "write" /\ v.family = i + 1 /\ v.out = out /\ v.failed = anyFailed /\ v.after = w.after
  BY <1>4, <1>10
<1>13. /\ DOMAIN w.out \subseteq DOMAIN out /\ DOMAIN out \subseteq DOMAIN w.out \cup {f.name}
       /\ ~fails => f.name \in DOMAIN out /\ out[f.name] = Sample(f)
       /\ fails => out = w.out
       /\ \A name \in DOMAIN out : name # f.name => name \in DOMAIN w.out /\ out[name] = w.out[name]
  BY <1>8 DEF Written
<1>14. \A name \in Counters \cup Histograms : name = f.name => ~fails BY <1>6, <1>7, FamilyKinds
<1>15. ASSUME NEW c \in Counters \cap DOMAIN out
       PROVE  /\ \/ c \in DOMAIN w.out /\ out[c] = w.out[c]
                 \/ c = f.name /\ out[c] = counters[c]
              /\ out[c] \in Nat /\ out[c] <= counters[c]
  <2>1. CASE c = f.name
    <3>1. out[c] = counters[c] BY <1>0, <1>6, <1>13, <1>14, <2>1, SampleRight
    <3>2. counters[c] \in Nat BY <1>0 DEF CountTypes
    <3> QED BY <2>1, <3>1, <3>2
  <2>2. CASE c # f.name BY <1>3, <1>13, <2>2 DEF OutRight
  <2> QED BY <2>1, <2>2
<1>16. ASSUME NEW h \in Histograms \cap DOMAIN out
       PROVE  /\ \/ h \in DOMAIN w.out /\ out[h] = w.out[h]
                 \/ h = f.name /\ \A b \in Buckets : out[h].le[b] = Upto(observed[h], b)
              /\ \A b \in Buckets : out[h].le[b] \in Nat /\ out[h].le[b] <= Upto(observed[h], b)
  <2>1. CASE h = f.name
    <3>1. \A b \in Buckets : out[h].le[b] = Upto(observed[h], b)
      BY <1>0, <1>6, <1>13, <1>14, <2>1, SampleRight
    <3>2. ASSUME NEW b \in Buckets PROVE Upto(observed[h], b) \in Nat
      <4>1. b \in Nat /\ observed[h] \in Seq(Nat) BY <1>0, BoundsTyped DEF Buckets, CountTypes
      <4> QED BY <4>1, UptoFinite
    <3> QED BY <2>1, <3>1, <3>2
  <2>2. CASE h # f.name BY <1>3, <1>13, <2>2 DEF OutRight
  <2> QED BY <2>1, <2>2
<1>17. ASSUME NEW j \in 1 .. Len(Families), j < v.family
       PROVE  Families[j].name \in DOMAIN out \/ (MayFail(Families[j]) /\ anyFailed)
  <2>1. CASE j = i
    <3>1. CASE fails BY <1>6, <1>7, <1>9, <2>1, <3>1
    <3>2. CASE ~fails BY <1>6, <1>13, <2>1, <3>2
    <3> QED BY <3>1, <3>2
  <2>2. CASE j # i
    <3>1. j < w.family BY <1>5, <1>12, <1>17, <2>2, MetricsAssumption
    <3>2. Families[j].name \in DOMAIN w.out \/ (MayFail(Families[j]) /\ w.failed) BY <1>3, <3>1 DEF OutRight
    <3> QED BY <1>9, <1>13, <3>2
  <2> QED BY <2>1, <2>2
<1>18. OutRight(v, counters, observed)
  <2>1. v = [at |-> v.at, family |-> v.family, out |-> v.out, failed |-> v.failed, after |-> v.after]
    BY <1>10
  <2>2. v.family \in Nat \ {0} /\ v.failed \in BOOLEAN /\ v.after \in SUBSET ScrapeCalls
    BY <1>3, <1>12, MetricsAssumption DEF OutRight
  <2> QED BY <1>12, <1>15, <1>16, <1>17, <2>1, <2>2 DEF OutRight
<1>19. ASSUME NEW t \in v.after PROVE scraper[t].at = "served" /\ NotLess(v.out, scraper[t].out)
  <2>1. scraper[t].at = "served" /\ NotLess(w.out, scraper[t].out) BY <1>2, <1>12, <1>19 DEF ScrapesInv
  <2>2. t \in ScrapeCalls BY <1>3, <1>12, <1>19 DEF OutRight
  <2>3. PICK u : u = scraper[t] OBVIOUS
  <2>4. OutRight(u, counters, observed) /\ u.family > Len(Families)
    BY <2>1, <2>2, <2>3 DEF ScrapesInv, OutRight
  <2>5. ASSUME f.name \in Counters \cup Histograms PROVE f.name \in DOMAIN u.out
    <3>1. i < u.family BY <2>4, MetricsAssumption DEF OutRight
    <3>2. ~MayFail(f) BY <1>6, <2>5, FamilyKinds
    <3> QED BY <1>6, <2>4, <3>1, <3>2 DEF OutRight
  <2>6. ASSUME NEW c \in Counters \cap DOMAIN out PROVE c \in DOMAIN u.out /\ u.out[c] <= out[c]
    <3>1. CASE c \in DOMAIN w.out /\ out[c] = w.out[c] BY <2>1, <2>3, <3>1 DEF NotLess
    <3>2. CASE c = f.name /\ out[c] = counters[c] BY <2>4, <2>5, <3>2 DEF OutRight
    <3> QED BY <1>15, <3>1, <3>2
  <2>7. ASSUME NEW h \in Histograms \cap DOMAIN out
        PROVE  h \in DOMAIN u.out /\ \A b \in Buckets : u.out[h].le[b] <= out[h].le[b]
    <3>1. CASE h \in DOMAIN w.out /\ out[h] = w.out[h] BY <2>1, <2>3, <3>1 DEF NotLess
    <3>2. CASE h = f.name /\ \A b \in Buckets : out[h].le[b] = Upto(observed[h], b)
      BY <2>4, <2>5, <3>2 DEF OutRight
    <3> QED BY <1>16, <3>1, <3>2
  <2>8. NotLess(out, u.out) BY <2>6, <2>7 DEF NotLess
  <2> QED BY <1>12, <2>1, <2>3, <2>8
<1> QED BY <1>1, <1>2, <1>4, <1>11, <1>12, <1>18, <1>19, ScrapeGoes

-----------------------------------------------------------------------------
(* ServerMetrics.  The theorem *)

LEMMA MetricsStep == ASSUME MetricsInv, [MetricsNext]_metricsVars PROVE MetricsInv'
<1>0. CountsInv /\ ScrapesInv /\ CountTypes BY DEF MetricsInv, CountsInv
<1>1. CASE SessionError \/ \E v \in Durations : CaptionLatency(v)
  <2>1. CountsInv' /\ Grown BY <1>0, <1>1, SessionCounts
  <2>2. UNCHANGED scraper BY <1>1 DEF SessionError, CaptionLatency
  <2> QED BY <1>0, <2>1, <2>2, ScrapesStay DEF MetricsInv
<1>2. ASSUME NEW r \in HttpRequests,
             \/ StartRequest(r) \/ WriteHeader101(r) \/ HandlerReturns(r) \/ CountRequest(r) \/ CloseWS(r)
             \/ \E v \in Durations : TimeRequest(r, v)
      PROVE  MetricsInv'
  <2>1. CountsInv' /\ Grown
    BY <1>0, <1>2, RequestWalks, RequestUpgrades, RequestCounted, RequestTimed, RequestOver
  <2>2. UNCHANGED scraper
    BY <1>2 DEF StartRequest, WriteHeader101, HandlerReturns, CountRequest, TimeRequest, CloseWS
  <2> QED BY <1>0, <2>1, <2>2, ScrapesStay DEF MetricsInv
<1>3. ASSUME NEW s \in ScrapeCalls, RefuseScrape(s) \/ StartScrape(s) \/ WriteFamily(s) \/ ServeScrape(s)
      PROVE  MetricsInv'
  <2>1. KeepCounts BY <1>3 DEF RefuseScrape, StartScrape, WriteFamily, ServeScrape
  <2>2. CountsInv' BY <1>0, <2>1, CountsStay
  <2>3. ScrapesInv' BY <1>0, <1>3, ScrapeSteps, FamilyWritten
  <2> QED BY <2>2, <2>3 DEF MetricsInv
<1>4. CASE UNCHANGED metricsVars
  <2>1. KeepCounts /\ UNCHANGED scraper BY <1>4 DEF metricsVars, KeepCounts
  <2>2. CountsInv' /\ Grown BY <1>0, <2>1, CountsStay
  <2> QED BY <1>0, <2>1, <2>2, ScrapesStay DEF MetricsInv
<1> QED BY <1>1, <1>2, <1>3, <1>4 DEF MetricsNext

LEMMA BucketsTrue ==
  ASSUME CountTypes, CountsRight, NEW h \in Histograms
  PROVE  LET sample == Cumulative(histograms[h])
             n      == Len(BucketBounds)
         IN /\ sample.le[n + 1] = sample.count /\ sample.count = Len(observed[h])
            /\ \A i \in 1 .. n :
                 sample.le[i] = Cardinality({k \in 1 .. Len(observed[h]) : observed[h][k] <= BucketBounds[i]})
<1>1. PICK seen \in Seq(Nat) : seen = observed[h] BY DEF CountTypes
<1>2. PICK values : values = histograms[h] OBVIOUS
<1>3. values.count = Len(seen) /\ \A i \in Buckets : values.counts[i] = Within(seen, i)
  BY <1>1, <1>2 DEF CountsRight
<1>4. Cumulative(values).count = values.count /\ \A i \in Buckets : Cumulative(values).le[i] = Upto(seen, i)
  BY ONLY <1>3, seen \in Seq(Nat), Cumulates
<1>5. Cumulative(values).le[Len(BucketBounds) + 1] = Len(seen)
  <2>1. Len(BucketBounds) + 1 \in Buckets BY BoundsTyped DEF Buckets
  <2>2. Upto(seen, Len(BucketBounds) + 1) = Len(seen) BY UptoEnds DEF N
  <2> QED BY <1>4, <2>1, <2>2
<1>6. ASSUME NEW i \in 1 .. Len(BucketBounds)
      PROVE  Cumulative(values).le[i] = Cardinality({k \in 1 .. Len(seen) : seen[k] <= BucketBounds[i]})
  <2>1. i \in Buckets BY BoundsTyped DEF Buckets
  <2>2. i \in Bounds BY DEF Bounds
  <2> QED BY <1>4, <2>1, <2>2, UptoEnds
<1> QED BY <1>1, <1>2, <1>3, <1>4, <1>5, <1>6

LEMMA ServedTrue ==
  ASSUME MetricsInv, NEW s \in ScrapeCalls, ScrapeAt(s, "served")
  PROVE  /\ \A f \in FamilyNames \ DOMAIN scraper[s].out : f \in Failing /\ scraper[s].failed
         /\ \A t \in scraper[s].after :
              /\ \A c \in DOMAIN counters \cap FamilyNames : scraper[t].out[c] <= scraper[s].out[c]
              /\ \A h \in DOMAIN observed \cap FamilyNames : \A i \in Buckets :
                    scraper[t].out[h].le[i] <= scraper[s].out[h].le[i]
<1>1. CountTypes BY DEF MetricsInv, CountsInv
<1>2. PICK w : w = scraper[s] OBVIOUS
<1>3. OutRight(w, counters, observed) /\ w.at = "served" BY <1>2 DEF MetricsInv, ScrapesInv, ScrapeAt
<1>4. ASSUME NEW f \in FamilyNames
      PROVE  f \in DOMAIN w.out \/ (f \in Failing /\ w.failed /\ f \notin Counters \cup Histograms)
  <2>1. PICK i \in 1 .. Len(Families) : f = Families[i].name BY DEF FamilyNames
  <2>2. i < w.family BY <1>3, MetricsAssumption DEF OutRight
  <2>3. Families[i].name \in DOMAIN w.out \/ (MayFail(Families[i]) /\ w.failed) BY <1>3, <2>2 DEF OutRight
  <2>4. MayFail(Families[i]) => f \in Failing BY <2>1 DEF Failing
  <2> QED BY <2>1, <2>3, <2>4, FamilyKinds
<1>5. DOMAIN counters = Counters /\ DOMAIN observed = Histograms BY <1>1 DEF CountTypes
<1>6. ASSUME NEW t \in w.after
      PROVE  /\ \A c \in Counters \cap FamilyNames : scraper[t].out[c] <= w.out[c]
             /\ \A h \in Histograms \cap FamilyNames : \A i \in Buckets :
                  scraper[t].out[h].le[i] <= w.out[h].le[i]
  <2>1. NotLess(w.out, scraper[t].out) BY <1>2, <1>6 DEF MetricsInv, ScrapesInv
  <2> QED BY <1>4, <2>1 DEF NotLess
<1> QED BY <1>2, <1>4, <1>5, <1>6

LEMMA RequestsTrue == ASSUME RequestsRight PROVE RequestsCounted
<1> DEFINE counted == {r \in HttpRequests : request[r].at \in {"time", "counted", "done"}}
           timed   == {r \in counted : ~request[r].upgraded /\ ~RequestAt(r, "time")}
           over    == {r \in HttpRequests : request[r].at \in {"done", "aborted"}}
<1>1. {r \in HttpRequests : request[r].upgraded} \ over = OpenedSet BY DEF OpenedSet
<1>2. counted = CountedSet BY DEF CountedSet
<1>3. timed = TimedSet BY DEF TimedSet, RequestAt
<1> QED BY <1>1, <1>2, <1>3 DEF RequestsRight, RequestsCounted

\* What /metrics says is so: every scrape has cumulative buckets that end in
\* the count and are what was observed, every family or its failure, and
\* nothing less than a scrape served before it; and the count of open
\* WebSockets and of requests is that of the middleware's requests.
THEOREM MetricsAlwaysTrue == MetricsSpec => []MetricsTrue
<1>1. MetricsInit => MetricsInv BY CountsInit, ScrapesInit DEF MetricsInv
<1>2. MetricsInv /\ [MetricsNext]_metricsVars => MetricsInv' BY MetricsStep
<1>3. MetricsInv => MetricsTrue
  <2> SUFFICES ASSUME MetricsInv PROVE MetricsTrue OBVIOUS
  <2>1. CountTypes /\ CountsRight /\ RequestsRight BY DEF MetricsInv, CountsInv
  <2>2. DOMAIN observed = Histograms BY <2>1 DEF CountTypes
  <2>3. ScrapesTrue BY <2>1, <2>2, BucketsTrue, ServedTrue DEF ScrapesTrue
  <2>4. RequestsCounted BY <2>1, RequestsTrue
  <2> QED BY <2>3, <2>4 DEF MetricsTrue
<1> QED BY <1>1, <1>2, <1>3, PTL DEF MetricsSpec

-----------------------------------------------------------------------------
(* ServerParts *)

\* What is saved stays sound, each part on its own.
THEOREM SavedAlwaysSound == SessionAdminSpec /\ PresetsSpec /\ OpenSpec => []SavedSound
<1>1. SavedSound <=> SessionsKept /\ PresetsApart /\ SchemaWhole BY DEF SavedSound
<1> QED BY <1>1, SessionsAlwaysKept, PresetsAlwaysApart, SchemaAlwaysWhole, PTL

\* And what the process promises holds as long as it runs.
THEOREM ProcessAlwaysSound == HardwareSpec /\ AppSpec /\ MetricsSpec => []ProcessSound
<1>1. ProcessSound <=> HardwareSound /\ ServeEnds /\ MetricsTrue BY DEF ProcessSound
<1> QED BY <1>1, HardwareAlwaysSound, ServeAlwaysEnds, MetricsAlwaysTrue, PTL
=================================================================================
