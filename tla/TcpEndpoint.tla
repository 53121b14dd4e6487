---------------------------- MODULE TcpEndpoint ----------------------------
(***************************************************************************)
(* One TcpConnection in the hands of any user: what the class promises     *)
(* whoever calls it, where ProxySession checks only what a session makes   *)
(* of it (a session, for one, never asks for a half-close while output     *)
(* waits, so that the deferred FIN of FinishWrite is only reached here).   *)
(*                                                                         *)
(* Every callback to the user is the last thing a method does, so that the *)
(* calls a user makes from a callback are steps of their own, which may    *)
(* come between any two callbacks of a batch.                              *)
(***************************************************************************)
EXTENDS TcpConnection

CONSTANTS
  MaxGiven,    \* bytes the user sends at most (bounds the behaviours)
  MaxLength,   \* longest argument of Send
  SndCap       \* capacity of the socket's send buffer

ASSUME EndpointAssumption ==
  /\ MaxGiven \in Nat
  /\ MaxLength \in Nat \ {0}
  /\ SndCap \in Nat \ {0}

Event == {"CLOSE", "IN", "OUT"}

VARIABLES
  conn,    \* the connection
  phase,   \* "poll" or "dispatch"
  ready,   \* the channel's events of the current batch, not yet handled
  told,    \* the last callback the user got
  given,   \* the bytes that Send has accepted
  snd,     \* the socket's send buffer
  unread,  \* the receive buffer is not empty
  fin,     \* the peer's FIN has arrived
  err,     \* the peer's RST has arrived
  got,     \* bytes the peer has read
  eof      \* the peer has read the end of the stream

kernel == <<snd, unread, fin, err>>
peer   == <<got, eof>>
vars   == <<conn, phase, ready, told, given, kernel, peer>>

TypeOK ==
  /\ conn \in Connection
  /\ phase \in {"poll", "dispatch"}
  /\ ready \in SUBSET Event
  /\ told \in {"none", "message", "eof", "drained", "close"}
  /\ given \in Seq(Nat) /\ Len(given) <= MaxGiven
  /\ snd \in Seq(Nat) /\ Len(snd) <= SndCap
  /\ unread \in BOOLEAN /\ fin \in BOOLEAN /\ err \in BOOLEAN
  /\ got \in Seq(Nat) /\ eof \in BOOLEAN

Init ==
  /\ conn = Blank("Connecting")
  /\ phase = "poll" /\ ready = {} /\ told = "none"
  /\ given = <<>> /\ snd = <<>>
  /\ unread = FALSE /\ fin = FALSE /\ err = FALSE
  /\ got = <<>> /\ eof = FALSE

-----------------------------------------------------------------------------
(* The kernel                                                              *)

Free == SndCap - Len(snd)

\* How many of n bytes a send() may take; 0 is EAGAIN.
Accepted(n) == {k \in 0 .. n : k <= Free /\ (k = 0 => Free = 0)}

\* What epoll_wait reports; EPOLLHUP needs both directions shut.
ReadyEvents ==
  IF ~conn.added THEN {} ELSE
    {ev \in Event :
       \/ ev = "IN"  /\ "IN" \in conn.events  /\ (unread \/ fin \/ err)
       \/ ev = "OUT" /\ "OUT" \in conn.events /\ (Free > 0 \/ err)
       \/ ev = "CLOSE" /\ (err \/ (fin /\ conn.writeShutdown /\ "IN" \notin conn.events))}

\* close() with bytes unread answers with RST and drops what it had to send.
SndAfterClose == IF unread THEN <<>> ELSE snd

\* ForceClose, whoever calls it, tells the user once.
CloseNow ==
  /\ conn' = ForceClose(conn)
  /\ told' = IF IsOpen(conn) THEN "close" ELSE told
  /\ snd' = IF IsOpen(conn) THEN SndAfterClose ELSE snd

-----------------------------------------------------------------------------
(* The user's calls                                                        *)

UserEstablish ==
  /\ conn.state = "Connecting"
  /\ \E startReading \in BOOLEAN : conn' = Establish(conn, startReading)
  /\ UNCHANGED <<phase, ready, told, given, kernel, peer>>

UserStartRead ==
  /\ conn' = StartRead(conn)
  /\ UNCHANGED <<phase, ready, told, given, kernel, peer>>

UserStopRead ==
  /\ conn' = StopRead(conn)
  /\ UNCHANGED <<phase, ready, told, given, kernel, peer>>

UserShutdownWrite ==
  /\ conn' = ShutdownWrite(conn)
  /\ UNCHANGED <<phase, ready, told, given, kernel, peer>>

UserForceClose ==
  /\ IsOpen(conn)
  /\ CloseNow
  /\ UNCHANGED <<phase, ready, given, unread, fin, err, peer>>

\* A byte's value is its position in the user's stream.
Data(n) == [i \in 1 .. n |-> Len(given) + i]

\* Send writes directly if nothing waits; a reset ends the connection.
UserSend ==
  /\ ~Drops(conn)
  /\ \E n \in 1 .. MaxLength :
       /\ Len(given) + n <= MaxGiven
       /\ IF conn.output = <<>> /\ err
          THEN CloseNow /\ UNCHANGED given
          ELSE \E taken \in IF conn.output = <<>> THEN Accepted(n) ELSE {0} :
                 /\ conn' = Send(conn, Data(n), taken)
                 /\ snd' = snd \o SubSeq(Data(n), 1, taken)
                 /\ given' = given \o Data(n)
                 /\ UNCHANGED told
  /\ UNCHANGED <<phase, ready, unread, fin, err, peer>>

User ==
  \/ UserEstablish \/ UserStartRead \/ UserStopRead
  \/ UserShutdownWrite \/ UserForceClose \/ UserSend

-----------------------------------------------------------------------------
(* The event loop                                                          *)

Poll ==
  /\ phase = "poll"
  /\ ReadyEvents # {}
  /\ ready' = ReadyEvents
  /\ phase' = "dispatch"
  /\ UNCHANGED <<conn, told, given, kernel, peer>>

EndOfBatch ==
  /\ phase = "dispatch" /\ ready = {}
  /\ phase' = "poll"
  /\ UNCHANGED <<conn, ready, told, given, kernel, peer>>

\* HandleEventWithGuard: first the close or error callback, then the others.
Dispatch(ev) ==
  /\ phase = "dispatch" /\ ev \in ready
  /\ ev = "IN" => "CLOSE" \notin ready
  /\ ev = "OUT" => ready = {"OUT"}
  /\ ready' = ready \ {ev}
  /\ UNCHANGED <<phase, given, fin, err, peer>>

HandleClose == Dispatch("CLOSE") /\ CloseNow /\ UNCHANGED unread

\* Wrong: HandleRead does not ask whether the connection was closed meanwhile.
CanAlwaysRead == conn.reading \/ "IN" \in conn.events

CanRead == conn.state = "Connected" /\ conn.reading

ReadSkipped ==
  /\ Dispatch("IN")
  /\ ~CanRead
  /\ UNCHANGED <<conn, told, snd, unread>>

\* One batch is read; what it leaves is reported again.
ReadMessage ==
  /\ Dispatch("IN")
  /\ CanRead /\ unread
  /\ unread' \in BOOLEAN
  /\ told' = "message"
  /\ UNCHANGED <<conn, snd>>

ReadEof ==
  /\ Dispatch("IN")
  /\ CanRead /\ ~unread /\ fin
  /\ conn' = StopRead([conn EXCEPT !.receivedEof = TRUE])
  /\ told' = "eof"
  /\ UNCHANGED <<snd, unread>>

ReadError ==
  /\ Dispatch("IN")
  /\ CanRead /\ ~unread /\ err
  /\ CloseNow
  /\ UNCHANGED unread

CanWrite == conn.state = "Connected" /\ conn.output # <<>>

WriteSkipped ==
  /\ Dispatch("OUT")
  /\ ~CanWrite
  /\ UNCHANGED <<conn, told, snd, unread>>

\* Wrong: HandleWrite forgets the shutdown that had to wait.
WriteNoFinish ==
  /\ Dispatch("OUT")
  /\ CanWrite /\ ~err
  /\ \E taken \in Accepted(Len(conn.output)) :
       LET rest == SubSeq(conn.output, taken + 1, Len(conn.output))
       IN  /\ conn' = IF rest = <<>> THEN DisableWriting([conn EXCEPT !.output = rest])
                                     ELSE [conn EXCEPT !.output = rest]
           /\ snd' = snd \o SubSeq(conn.output, 1, taken)
           /\ told' = IF rest = <<>> THEN "drained" ELSE told
  /\ UNCHANGED unread

WriteOutput ==
  /\ Dispatch("OUT")
  /\ CanWrite /\ ~err
  /\ \E taken \in Accepted(Len(conn.output)) :
       /\ conn' = Drained(conn, taken)
       /\ snd' = snd \o SubSeq(conn.output, 1, taken)
       /\ told' = IF conn'.output = <<>> THEN "drained" ELSE told
  /\ UNCHANGED unread

WriteError ==
  /\ Dispatch("OUT")
  /\ CanWrite /\ err
  /\ CloseNow
  /\ UNCHANGED unread

LoopStep ==
  \/ Poll \/ EndOfBatch
  \/ HandleClose
  \/ ReadSkipped \/ ReadMessage \/ ReadEof \/ ReadError
  \/ WriteSkipped \/ WriteOutput \/ WriteError

-----------------------------------------------------------------------------
(* The peer                                                                *)

PeerSend ==
  /\ IsOpen(conn) /\ ~fin /\ ~err /\ ~unread
  /\ unread' = TRUE
  /\ UNCHANGED <<conn, phase, ready, told, given, snd, fin, err, peer>>

PeerFin ==
  /\ IsOpen(conn) /\ ~fin /\ ~err
  /\ fin' = TRUE
  /\ UNCHANGED <<conn, phase, ready, told, given, snd, unread, err, peer>>

PeerReset ==
  /\ IsOpen(conn) /\ ~err
  /\ err' = TRUE /\ snd' = <<>>
  /\ UNCHANGED <<conn, phase, ready, told, given, unread, fin, peer>>

PeerRead ==
  /\ snd # <<>>
  /\ got' = Append(got, Head(snd)) /\ snd' = Tail(snd)
  /\ UNCHANGED <<conn, phase, ready, told, given, unread, fin, err, eof>>

PeerReadEof ==
  /\ conn.writeShutdown /\ snd = <<>> /\ ~err /\ ~eof
  /\ eof' = TRUE
  /\ UNCHANGED <<conn, phase, ready, told, given, kernel, got>>

Peer == PeerSend \/ PeerFin \/ PeerReset \/ PeerRead \/ PeerReadEof

-----------------------------------------------------------------------------

Next == User \/ LoopStep \/ Peer

Spec == Init /\ [][Next]_vars

\* The loop runs, whatever the user does between its steps, and the peer reads.
FairSpec ==
  /\ Spec
  /\ WF_vars(LoopStep) /\ WF_vars(PeerRead) /\ WF_vars(PeerReadEof)

-----------------------------------------------------------------------------
(* Safety                                                                  *)

\* The flags, epoll's interest and the output agree, whoever calls what when.
ConnectionIsSound == TypeOK /\ WellFormed(conn)

\* While the connection is open every byte Send accepted is, in order and
\* once, with the peer, in the send buffer or in output_.
BytesInOrder ==
  conn.state = "Connected" /\ ~err => given = got \o snd \o conn.output

\* The FIN comes behind every byte Send accepted, also behind those that
\* were waiting when ShutdownWrite was called.
FinBehindEveryByte ==
  conn.writeShutdown /\ conn.state = "Connected" /\ ~err => given = got \o snd

\* The connection's state and its two streams, together.
EndpointInv == ConnectionIsSound /\ BytesInOrder /\ FinBehindEveryByte

\* A connection that its user has paused outlives the end of both streams:
\* without a reset, EPOLLHUP never comes alone and closes it with bytes unread.
PausedOutlivesHangup == "CLOSE" \in ready => err \/ conn.state = "Disconnected"

\* The callbacks come in an order a user can rely on: the close callback is
\* the last one, also within its batch, and the end of the peer's stream comes
\* once, with no message behind it even if the user asks to read on.
CallbacksAreOrdered ==
  [][/\ told = "close" => told' = "close"
     /\ conn.receivedEof => told' = told \/ told' \in {"drained", "close"}]_vars

-----------------------------------------------------------------------------
(* Liveness                                                                *)

\* A peer that reads gets what Send accepted and, behind it, the half-close.
EverythingIsDelivered ==
  /\ \A n \in 1 .. MaxGiven :
       Len(given) >= n ~> Len(got) >= n \/ err \/ conn.state = "Disconnected"
  /\ conn.shutdownRequested ~> eof \/ err \/ conn.state = "Disconnected"
=============================================================================
