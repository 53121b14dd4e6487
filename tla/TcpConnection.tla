--------------------------- MODULE TcpConnection ---------------------------
(***************************************************************************)
(* One TcpConnection (l4lb/src/net/TcpConnection.cpp) together with the    *)
(* Channel it registers in epoll (net/Channel.cpp, net/Epoller.cpp).       *)
(*                                                                         *)
(* A connection is a record; every method of the class that only touches   *)
(* the object is an operator from records to records.  What a method does  *)
(* to the socket (send, shutdown, close) is in ProxySession, which owns    *)
(* the kernel's state.  The input buffer is not kept: every message        *)
(* callback empties it before it returns.                                  *)
(***************************************************************************)
EXTENDS Naturals, Sequences

\* The object's state_, plus "None" for a session whose backend_ is null.
ConnState == {"None", "Connecting", "Connected", "Disconnected"}

\* What a channel asks of epoll: "IN" is EPOLLIN | EPOLLPRI | EPOLLRDHUP,
\* "OUT" is EPOLLOUT.
Interest == {"IN", "OUT"}

Connection ==
  [state : ConnState, reading : BOOLEAN, receivedEof : BOOLEAN,
   shutdownRequested : BOOLEAN, writeShutdown : BOOLEAN, output : Seq(Nat),
   events : SUBSET Interest, added : BOOLEAN]

\* A connection of the given state that has done nothing yet.
Blank(state) ==
  [state |-> state, reading |-> FALSE, receivedEof |-> FALSE,
   shutdownRequested |-> FALSE, writeShutdown |-> FALSE, output |-> <<>>,
   events |-> {}, added |-> FALSE]

-----------------------------------------------------------------------------
(* Channel: an update with no event left takes the channel out of epoll.   *)

\* Wrong: a channel without events stays in epoll, where it gets EPOLLHUP.
StayRegistered(c, evs) == [c EXCEPT !.events = evs, !.added = TRUE]

Update(c, evs) == [c EXCEPT !.events = evs, !.added = (evs # {})]

EnableReading(c)  == Update(c, c.events \cup {"IN"})
DisableReading(c) == Update(c, c.events \ {"IN"})
EnableWriting(c)  == Update(c, c.events \cup {"OUT"})
DisableWriting(c) == Update(c, c.events \ {"OUT"})

\* Out of epoll; events_ keeps its last value.
Remove(c) == [c EXCEPT !.added = FALSE]

-----------------------------------------------------------------------------
(* TcpConnection                                                           *)

StartRead(c) ==
  IF c.state = "Connected" /\ ~c.receivedEof /\ ~c.reading
  THEN EnableReading([c EXCEPT !.reading = TRUE])
  ELSE c

StopRead(c) ==
  IF c.reading THEN DisableReading([c EXCEPT !.reading = FALSE]) ELSE c

Establish(c, startReading) ==
  LET up == [c EXCEPT !.state = "Connected"]
  IN  IF startReading THEN StartRead(up) ELSE up

\* Send drops what is sent after ShutdownWrite or ForceClose.
Drops(c) == c.state # "Connected" \/ c.shutdownRequested

\* Wrong: the part of a direct write that the kernel did not take is forgotten.
SendForgetsRest(c, data, taken) ==
  IF Drops(c) \/ taken > 0
  THEN c
  ELSE EnableWriting([c EXCEPT !.output = @ \o data])

\* The first `taken' bytes went to the kernel, the rest waits for EPOLLOUT.
Send(c, data, taken) ==
  IF Drops(c) \/ taken = Len(data)
  THEN c
  ELSE EnableWriting(
         [c EXCEPT !.output = @ \o SubSeq(data, taken + 1, Len(data))])

\* Wrong: FinishWrite does not wait for the output to drain.
FinishAtOnce(c) ==
  IF c.shutdownRequested /\ ~c.writeShutdown
  THEN [c EXCEPT !.writeShutdown = TRUE]
  ELSE c

FinishWrite(c) ==
  IF c.shutdownRequested /\ ~c.writeShutdown /\ c.output = <<>>
  THEN [c EXCEPT !.writeShutdown = TRUE]
  ELSE c

ShutdownWrite(c) ==
  IF c.state = "Connected"
  THEN FinishWrite([c EXCEPT !.shutdownRequested = TRUE])
  ELSE c

\* HandleWrite's bookkeeping after send() took `taken' bytes of the output.
Drained(c, taken) ==
  LET rest == [c EXCEPT !.output = SubSeq(@, taken + 1, Len(@))]
  IN  IF rest.output = <<>> THEN FinishWrite(DisableWriting(rest)) ELSE rest

IsOpen(c) == c.state \in {"Connecting", "Connected"}

\* Wrong: ForceClose without taking the channel out of epoll.
CloseStillRegistered(c) ==
  IF IsOpen(c)
  THEN [c EXCEPT !.state = "Disconnected", !.reading = FALSE]
  ELSE c

ForceClose(c) ==
  IF IsOpen(c)
  THEN Remove([c EXCEPT !.state = "Disconnected", !.reading = FALSE])
  ELSE c

-----------------------------------------------------------------------------
\* The object's invariant: what holds of a connection between two callbacks.
\* Epoll's interest follows the flags, a shut write side has nothing left to
\* write, and a closed connection is out of epoll.
WellFormed(c) ==
  /\ c.state \in {"None", "Connecting"} => c = Blank(c.state)
  /\ c.state = "Disconnected" => ~c.added /\ ~c.reading
  /\ c.state = "Connected" =>
       /\ c.added <=> c.events # {}
       /\ "IN" \in c.events <=> c.reading
       /\ "OUT" \in c.events <=> c.output # <<>>
       /\ c.reading => ~c.receivedEof
  /\ c.writeShutdown => c.shutdownRequested /\ c.output = <<>>
=============================================================================
