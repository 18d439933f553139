---------------------------- MODULE IngestClient ----------------------------
(***************************************************************************)
(* Capture pages (web/src/realtime/ingest.ts over socket.ts) connected to  *)
(* the session's IngestSource: a page captures one message of audio per    *)
(* unit of time, sends it when its socket is ready and buffers it          *)
(* otherwise; its socket reconnects until another page replaces it.        *)
(***************************************************************************)
EXTENDS IngestSource

CONSTANTS
  Pages, NoPage,
  MaxBuffered   \* messages kept while disconnected

ASSUME ClientAssumption == NoPage \notin Pages /\ MaxBuffered \in Nat

VARIABLES
  status,   \* each page's IngestStatus
  sock,     \* its current connection
  buffer,   \* what it keeps
  owner,    \* the page that dialled a connection
  net,      \* messages on their way to the server
  cut,      \* connections that are broken
  heard     \* what the source has taken, the newest last

page   == <<status, sock, buffer>>
link   == <<owner, net, cut>>
cvars  == <<vars, page, link, heard>>

Statuses == {"connecting", "ready", "reconnecting", "replaced", "closed"}

\* The types of the state; what is buffered is bounded, and only a page that
\* has a socket is ready.
ClientTypeOK ==
  /\ status \in [Pages -> Statuses] /\ sock \in [Pages -> Conns \cup {NoConn}]
  /\ \A p \in Pages : /\ Len(buffer[p]) <= MaxBuffered
                      /\ status[p] = "ready" => sock[p] # NoConn
  /\ owner \in [Conns -> Pages \cup {NoPage}] /\ cut \subseteq Conns

ClientInit ==
  /\ Init
  /\ status = [p \in Pages |-> "connecting"] /\ sock = [p \in Pages |-> NoConn]
  /\ buffer = [p \in Pages |-> <<>>]
  /\ owner = [c \in Conns |-> NoPage] /\ net = [c \in Conns |-> <<>>] /\ cut = {}
  /\ heard = <<>>

-----------------------------------------------------------------------------
(* The page *)

\* connect, and the hello on open.
Dial(p, c) ==
  /\ status[p] \in {"connecting", "reconnecting"} /\ sock[p] = NoConn
  /\ owner[c] = NoPage
  /\ sock' = [sock EXCEPT ![p] = c] /\ owner' = [owner EXCEPT ![c] = p]
  /\ UNCHANGED <<vars, status, buffer, net, cut, heard>>

\* keep drops the oldest.
Kept(p, msg) ==
  LET all == Append(buffer[p], msg)
  IN SubSeq(all, 1 + Len(all) - Least(MaxBuffered, Len(all)), Len(all))

\* What is sent on a broken connection is lost.
Sent(c, msgs) == IF c \in cut THEN net ELSE [net EXCEPT ![c] = @ \o msgs]

\* send, of the message captured since the last tick.
Capture(p) ==
  /\ Tick
  /\ \/ /\ status[p] = "ready" /\ buffer[p] = <<>>
        /\ net' = Sent(sock[p], <<now>>) /\ UNCHANGED buffer
     \/ /\ status[p] \in {"connecting", "reconnecting"}
        /\ buffer' = [buffer EXCEPT ![p] = Kept(p, now)] /\ UNCHANGED net
     \/ /\ status[p] \in {"replaced", "closed"}
        /\ UNCHANGED <<buffer, net>>
  /\ UNCHANGED <<status, sock, owner, cut, heard>>

\* flush empties the buffer.  Mutant: it stays.
Unflushed(p) == buffer
Flushed(p) == [buffer EXCEPT ![p] = <<>>]

\* The server's ready: flush.
Attached(c) == c # NoConn /\ conn[c].at \in {"open", "ending", "left", "gone"}
Ready(p) ==
  /\ status[p] \in {"connecting", "reconnecting"}
  /\ Attached(sock[p]) /\ sock[p] \notin cut
  /\ status' = [status EXCEPT ![p] = "ready"]
  /\ net' = Sent(sock[p], buffer[p]) /\ buffer' = Flushed(p)
  /\ UNCHANGED <<vars, sock, owner, cut, heard>>

\* The error ingest.replaced and close code 4000: the page stops for good.
Replaced(p) ==
  LET c == sock[p] IN
  /\ c # NoConn /\ conn[c].kicked /\ conn[c].at \in {"ending", "gone"} /\ c \notin cut
  /\ status' = [status EXCEPT ![p] = "replaced"] /\ sock' = [sock EXCEPT ![p] = NoConn]
  /\ cut' = cut \cup {c}
  /\ UNCHANGED <<vars, buffer, owner, net, heard>>

\* onclose for any other reason; the backoff delay is the time until Dial.
Dropped(p) ==
  /\ sock[p] # NoConn /\ status[p] # "closed"
  /\ status' = [status EXCEPT ![p] = "reconnecting"] /\ sock' = [sock EXCEPT ![p] = NoConn]
  /\ cut' = cut \cup {sock[p]}
  /\ UNCHANGED <<vars, buffer, owner, net, heard>>

\* close
ClosePage(p) ==
  /\ status[p] \notin {"closed", "replaced"}
  /\ status' = [status EXCEPT ![p] = "closed"] /\ sock' = [sock EXCEPT ![p] = NoConn]
  /\ buffer' = [buffer EXCEPT ![p] = <<>>] /\ cut' = cut \cup ({sock[p]} \ {NoConn})
  /\ UNCHANGED <<vars, owner, net, heard>>

-----------------------------------------------------------------------------
(* The network and the server *)

\* A connection breaks and nobody knows yet.
Cut(c) ==
  /\ owner[c] # NoPage /\ c \notin cut /\ cut' = cut \cup {c}
  /\ UNCHANGED <<vars, page, owner, net, heard>>

\* readLoop: what a replaced connection sends is ignored.
Receive(c) ==
  /\ net[c] # <<>> /\ conn[c].at \in {"open", "ending"}
  /\ net' = [net EXCEPT ![c] = Tail(@)]
  /\ \/ /\ Write(c, 1) /\ heard' = Append(heard, Head(net[c]))
     \/ ~Accepts(c) /\ UNCHANGED <<vars, heard>>
  /\ UNCHANGED <<page, owner, cut>>

ServeDialled(c) ==
  /\ owner[c] # NoPage
  /\ Lookup(c) \/ Attach(c) \/ Kick(c) \/ Evict(c) \/ Detach(c)
  /\ UNCHANGED <<page, link, heard>>

\* The server notices a broken connection.
Noticed(c) == c \in cut /\ Disconnect(c) /\ UNCHANGED <<page, link, heard>>

ClientNext ==
  \/ \E p \in Pages : \/ \E c \in Conns : Dial(p, c)
                      \/ Capture(p) \/ Ready(p) \/ Replaced(p) \/ Dropped(p) \/ ClosePage(p)
  \/ \E c \in Conns : Cut(c) \/ Receive(c) \/ ServeDialled(c) \/ Noticed(c)

ClientSpec == ClientInit /\ [][ClientNext]_cvars

\* Handlers and sockets run, and a broken connection is noticed on both ends.
ClientFairSpec ==
  /\ ClientSpec
  /\ \A c \in Conns : WF_cvars(ServeDialled(c)) /\ WF_cvars(Noticed(c))
  /\ \A p \in Pages : /\ WF_cvars(Replaced(p))
                      /\ WF_cvars(sock[p] \in cut /\ Dropped(p))

-----------------------------------------------------------------------------
(* What holds *)

\* With one page, the source hears the audio in the order it was captured and
\* no message twice, whatever connections it went over.
HeardInOrder == \A i, j \in 1 .. Len(heard) : i < j => heard[i] < heard[j]

\* "ready: audio flows": a page whose connection is no longer the source's
\* active one does not stay ready.
ReadyFlows ==
  \A p \in Pages :
    (status[p] = "ready" /\ active # sock[p]) ~> (status[p] # "ready" \/ active = sock[p])

(* What the documentation says and does not hold *)

\* "replaced: another capture page took over; this one stops for good": never
\* does a page's own older connection, attached late, do it.
ReplacedByAnother ==
  \A p \in Pages : status[p] = "replaced"
    => \E c \in Conns : conn[c].replaces # NoConn /\ owner[c] # p

\* "T jumps forward by [the gap], so T keeps tracking wall time": over a
\* network without delay, the T of what the source heard is the time from the
\* capture of the first message to that of the last one, but for the rounding
\* of the gaps.
PromptSpec ==
  ClientInit /\ [][ClientNext /\ (now' # now => \A c \in Conns : net[c] = <<>>)]_cvars

TracksWallTime ==
  heard # <<>> =>
    2 * (nextT + rem.len) <= 2 * (heard[Len(heard)] + 1 - heard[1]) + Reconnects * FrameDuration
=============================================================================
