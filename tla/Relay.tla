------------------------------- MODULE Relay -------------------------------
(***************************************************************************)
(* What a proxied session promises to the two peers it joins: a pair of    *)
(* reliable, ordered byte pipes with an end of stream each.  As long as no *)
(* fault occurs nothing is lost and everything arrives; once one has, each *)
(* peer still gets a prefix of what the other one sent.                    *)
(*                                                                         *)
(* ProxySession implements this specification (l4lb/README.md describes    *)
(* the promise; the proxy's buffers, events and callbacks are hidden).     *)
(***************************************************************************)
EXTENDS Naturals, Sequences

Ends == {"client", "backend"}

Opposite(s) == IF s = "client" THEN "backend" ELSE "client"

VARIABLES
  sent,    \* bytes sent by each peer
  queue,   \* bytes of each peer on their way to the other one
  got,     \* bytes read by each peer
  fin,     \* the peer has ended its stream
  eof,     \* the peer has read the end of the other one's stream
  fault,   \* something has cut the session short
  lost     \* the tail of this peer's stream is lost

vars == <<sent, queue, got, fin, eof, fault, lost>>

Init ==
  /\ sent = [s \in Ends |-> <<>>]
  /\ queue = [s \in Ends |-> <<>>]
  /\ got = [s \in Ends |-> <<>>]
  /\ fin = [s \in Ends |-> FALSE]
  /\ eof = [s \in Ends |-> FALSE]
  /\ fault = FALSE
  /\ lost = [s \in Ends |-> FALSE]

\* A byte is numbered with its position in its stream.
Send(s) ==
  LET byte == Len(sent[s]) + 1
  IN  /\ ~fin[s]
      /\ sent' = [sent EXCEPT ![s] = Append(@, byte)]
      /\ queue' = IF lost[s] THEN queue ELSE [queue EXCEPT ![s] = Append(@, byte)]
      /\ UNCHANGED <<got, fin, eof, fault, lost>>

Deliver(s) ==
  /\ queue[s] # <<>>
  /\ got' = [got EXCEPT ![Opposite(s)] = Append(@, Head(queue[s]))]
  /\ queue' = [queue EXCEPT ![s] = Tail(@)]
  /\ UNCHANGED <<sent, fin, eof, fault, lost>>

End(s) ==
  /\ ~fin[s]
  /\ fin' = [fin EXCEPT ![s] = TRUE]
  /\ UNCHANGED <<sent, queue, got, eof, fault, lost>>

\* The end of a stream overtakes no byte.
DeliverEnd(s) ==
  /\ queue[s] = <<>> /\ (fin[s] \/ fault) /\ ~eof[Opposite(s)]
  /\ eof' = [eof EXCEPT ![Opposite(s)] = TRUE]
  /\ UNCHANGED <<sent, queue, got, fin, fault, lost>>

StartsWith(seq, prefix) ==
  Len(prefix) <= Len(seq) /\ prefix = SubSeq(seq, 1, Len(prefix))

\* A fault may cut the tail of each stream, for good.
Break ==
  /\ fault' = TRUE
  /\ \A s \in Ends :
       \/ queue'[s] = queue[s] /\ lost'[s] = lost[s]
       \/ lost'[s] /\ StartsWith(queue[s], queue'[s])
  /\ UNCHANGED <<sent, got, fin, eof>>

Next ==
  \/ \E s \in Ends : Send(s) \/ Deliver(s) \/ End(s) \/ DeliverEnd(s)
  \/ Break

\* Without a fault, every byte and every end of stream arrives.
Fairness ==
  \A s \in Ends : WF_vars(~fault /\ Deliver(s)) /\ WF_vars(~fault /\ DeliverEnd(s))

SafeSpec == Init /\ [][Next]_vars

Spec == SafeSpec /\ Fairness
=============================================================================
