----------------------------- MODULE HttpServer -----------------------------
(***************************************************************************)
(* One HTTP connection of the course library (code/day29): HttpServer's    *)
(* callbacks over HttpContext, and TcpConnection's ways of sending: Send,  *)
(* the rest of it by HandleWrite, and SendFile.                            *)
(*                                                                         *)
(* The client sends a request, waits for its answer and sends the next;    *)
(* the network cuts a request into reads anywhere.  Who closes a           *)
(* connection, and what becomes of it then, is TcpServer's matter.         *)
(***************************************************************************)
EXTENDS HttpContext

CONSTANTS
  Requests,     \* what a client may ask, see Render
  MaxRequests,  \* requests on the connection (bounds the behaviours)
  PageLens,     \* lengths of pages, with their heads
  FileLens,     \* lengths of files
  HeadLen,      \* the length of a file's head
  SndCap        \* the kernel's send buffer, large enough for a head

ASSUME HttpAssumption ==
  /\ PageLens \cup FileLens \cup {MaxRequests, HeadLen, SndCap} \subseteq Nat \ {0}
  /\ HeadLen <= SndCap

VARIABLES
  asked,     \* the requests sent, the last one still open
  unread,    \* what the server has not read of it
  reads,     \* the lengths of the reads that took the rest
  context,   \* context_
  state,     \* state_
  output,    \* send_buf_
  file,      \* SendFile in progress: size, offset and what to do after it
  socket,    \* the kernel's send buffer
  received,  \* what the client has got
  answers,   \* history: the answer to each request, and what onRequest saw, if it did
  lost       \* history: how bytes of an answer were lost

httpVars == <<asked, unread, reads, context, state, output, file, socket, received, answers, lost>>

-----------------------------------------------------------------------------
(* The client's side                                                       *)

\* A request as a browser writes it.
RenderParams(params) ==
  FlattenSeq([i \in DOMAIN params |->
    <<IF i = 1 THEN "?" ELSE "&", params[i][1], "=", params[i][2]>>])

RenderHeaders(headers) ==
  FlattenSeq([i \in DOMAIN headers |-> <<headers[i][1], ":", "SP", headers[i][2], "CR", "LF">>])

HeadOf(r) ==
  <<r.method, "SP", "/", "path">> \o RenderParams(r.params) \o <<"SP", "HTTP", "/", r.version>>
  \o <<"CR", "LF">> \o RenderHeaders(r.headers) \o <<"CR", "LF">>

Render(r) == HeadOf(r) \o r.body

\* What the callback should see of it.
Meant(r) ==
  [method |-> r.method, url |-> <<"/", "path">>,
   params |-> {<< <<r.params[i][1]>>, <<r.params[i][2]>> >> : i \in DOMAIN r.params},
   protocol |-> <<"HTTP">>, version |-> r.version,
   headers |-> {<< <<r.headers[i][1]>>, <<r.headers[i][2]>> >> : i \in DOMAIN r.headers},
   body |-> r.body]

\* Words without blanks, and no name twice.
AreFields(pairs) ==
  /\ pairs \in Seq(STRING \X STRING)
  /\ \A i \in DOMAIN pairs : {pairs[i][1], pairs[i][2]} \cap (Ends \cup {"SP"}) = {}
  /\ \A i, j \in DOMAIN pairs : pairs[i][1] = pairs[j][1] => i = j

\* What is asked is well-formed; Content-Length, 0 without it, is that of the body.
ASSUME RequestAssumption ==
  \A r \in Requests :
    /\ r.method \in Methods /\ r.version \in {"1.0", "1.1"}
    /\ AreFields(r.params) /\ AreFields(r.headers)
    /\ r.body \in Seq(STRING) /\ ContentLength(Meant(r)) = Len(r.body)

-----------------------------------------------------------------------------

NoFile == [size |-> 0, offset |-> 0, closes |-> FALSE]

Byte == (1 .. MaxRequests) \X (Nat \ {0})

HttpTypeOK ==
  /\ asked \in Seq(Requests) /\ Len(asked) <= MaxRequests
  /\ \A i \in DOMAIN reads : reads[i] \in Nat \ {0}
  /\ state \in {"Connected", "Disconected"}
  /\ {output, socket, received} \subseteq Seq(Byte)
  /\ file \in [size : FileLens \cup {0}, offset : Nat, closes : BOOLEAN]
  /\ lost \subseteq {"abort", "close", "skip"}

HttpInit ==
  /\ asked = <<>> /\ unread = <<>> /\ reads = <<>>
  /\ context = NewContext
  /\ state = "Connected"
  /\ output = <<>> /\ file = NoFile
  /\ socket = <<>> /\ received = <<>>
  /\ answers = <<>>
  /\ lost = {}

Aborted == "abort" \in lost
Running == ~Aborted /\ file = NoFile

Min2(a, b) == IF a <= b THEN a ELSE b
Space == SndCap - Len(socket)

-----------------------------------------------------------------------------
(* Sending                                                                 *)

\* Wrong: all of the message is kept, not what is left of it.
KeepAll(message, taken) == message

\* What write() did not take waits for EPOLLOUT.
Rest(message, taken) == SubSeq(message, taken + 1, Len(message))

\* Send, with nothing waiting (an answer is complete before the next request).
Send(message) ==
  LET taken == Min2(Space, Len(message))
  IN  /\ socket' = socket \o SubSeq(message, 1, taken)
      /\ output' = IF taken < Len(message) THEN Rest(message, taken) ELSE <<>>

\* WriteNonBlocking on EPOLLOUT; Retrieve asserts that bytes remain.
HandleWrite ==
  /\ Running /\ output # <<>> /\ Space > 0
  /\ LET taken == Min2(Space, Len(output))
     IN  /\ socket' = socket \o SubSeq(output, 1, taken)
         /\ output' = SubSeq(output, taken + 1, Len(output))
         /\ lost' = IF taken < Len(output) THEN lost ELSE lost \cup {"abort"}
  /\ UNCHANGED <<asked, unread, reads, context, state, file, received, answers>>

\* One sendfile() of SendFile's loop, which spins while the socket is full; the
\* call moves the offset on, and so does the code.
SendFile ==
  /\ ~Aborted /\ file # NoFile
  /\ LET taken == Min2(Space, file.size - file.offset)
         offset == file.offset + 2 * taken
     IN  /\ taken > 0
         /\ socket' = socket \o [i \in 1 .. taken |->
                                   <<Len(answers), HeadLen + file.offset + i>>]
         /\ file' = IF offset < file.size THEN [file EXCEPT !.offset = offset] ELSE NoFile
         /\ lost' = IF file.offset + taken < file.size THEN lost \cup {"skip"} ELSE lost
         /\ state' = IF file.closes /\ offset >= file.size THEN "Disconected" ELSE state
  /\ UNCHANGED <<asked, unread, reads, context, output, received, answers>>

-----------------------------------------------------------------------------
(* Receiving                                                               *)

\* onRequest's isclose
AsksToClose(request) ==
  LET connection == GetHeader(request, "Connection")
  IN  \/ connection = <<"Close">>
      \/ request.version = "1.0" /\ connection # <<"keep-alive">>

\* An upload whose body names no file: onRequest returns without an answer.
Nameless(request) ==
  /\ GetHeader(request, "Content-Type") = <<"multipart/form-data">>
  /\ "filename" \notin {request.body[i] : i \in DOMAIN request.body}

Answer(seen, len) ==
  answers' = Append(answers, [seen |-> seen, bytes |-> [i \in 1 .. len |-> <<Len(asked), i>>]])

\* The callback answers with a page, and may ask to close.
AnswerPage(request) ==
  /\ \E len \in PageLens :
       /\ Answer(<<request>>, len)
       /\ Send([i \in 1 .. len |-> <<Len(asked), i>>])
  /\ \E closes \in {TRUE, AsksToClose(request)} :
       state' = IF closes THEN "Disconected" ELSE state
  /\ UNCHANGED file

\* The callback answers with a file: first the head, then SendFile.
AnswerFile(request) ==
  /\ \E len \in FileLens, closes \in {TRUE, AsksToClose(request)} :
       /\ Answer(<<request>>, HeadLen + len)
       /\ file' = [size |-> len, offset |-> 0, closes |-> closes]
  /\ Send([i \in 1 .. HeadLen |-> <<Len(asked), i>>])
  /\ UNCHANGED state

OnRequest(request) ==
  \/ Nameless(request) /\ UNCHANGED <<answers, socket, output, state, file>>
  \/ ~Nameless(request) /\ (AnswerPage(request) \/ AnswerFile(request))

\* The 400 answer, and HandleClose.
RefuseRead ==
  /\ Answer(<<>>, 1)
  /\ Send(<< <<Len(asked), 1>> >>)
  /\ state' = "Disconected"
  /\ UNCHANGED file

\* HandleMessage and onMessage on the next n symbols.
HandleMessage(n) ==
  /\ Running /\ state = "Connected"
  /\ n \in 1 .. Len(unread)
  /\ unread' = SubSeq(unread, n + 1, Len(unread))
  /\ reads' = Append(reads, n)
  /\ LET c == ParaseRequest(context, SubSeq(unread, 1, n))
     IN  \/ /\ ~Accepts(c)
            /\ context' = c
            /\ RefuseRead
         \/ /\ c.state = "BODY"
            /\ context' = c
            /\ UNCHANGED <<answers, socket, output, state, file>>
         \/ /\ c.state = "COMPLETE"
            /\ context' = NewContext
            /\ OnRequest(c.request)
  /\ UNCHANGED <<asked, received, lost>>

\* The connection is destroyed some time after HandleClose, with its send_buf_.
Destroy ==
  /\ Running /\ state = "Disconected" /\ output # <<>>
  /\ output' = <<>>
  /\ lost' = lost \cup {"close"}
  /\ UNCHANGED <<asked, unread, reads, context, state, file, socket, received, answers>>

-----------------------------------------------------------------------------
(* The client                                                              *)

\* The answer to request k has arrived as it was meant.
Arrived(k) ==
  /\ k <= Len(answers)
  /\ {answers[k].bytes[i] : i \in DOMAIN answers[k].bytes}
       \subseteq {received[i] : i \in DOMAIN received}

ClientAsks(r) ==
  /\ state = "Connected" /\ ~Aborted
  /\ Len(asked) < MaxRequests
  /\ asked # <<>> => Arrived(Len(asked))
  /\ asked' = Append(asked, r)
  /\ unread' = Render(r) /\ reads' = <<>>
  /\ UNCHANGED <<context, state, output, file, socket, received, answers, lost>>

ClientReads ==
  /\ socket # <<>>
  /\ socket' = Tail(socket)
  /\ received' = Append(received, socket[1])
  /\ UNCHANGED <<asked, unread, reads, context, state, output, file, answers, lost>>

-----------------------------------------------------------------------------

Deliver == \E n \in 1 .. Len(unread) : HandleMessage(n)

HttpNext ==
  \/ Deliver \/ HandleWrite \/ SendFile \/ Destroy
  \/ ClientReads \/ \E r \in Requests : ClientAsks(r)

HttpSpec == HttpInit /\ [][HttpNext]_httpVars

\* The reactor runs, the network delivers, and the client reads its answer.
FairHttpSpec ==
  /\ HttpSpec
  /\ WF_httpVars(Deliver) /\ WF_httpVars(HandleWrite)
  /\ WF_httpVars(SendFile) /\ WF_httpVars(ClientReads)

-----------------------------------------------------------------------------
(* Safety                                                                  *)

\* What the callback sees is what the client asked, in every part, however the
\* request was cut and whatever was asked before; a read that cannot be taken is
\* refused and never answered.
RequestIsExact ==
  \A k \in DOMAIN answers : answers[k].seen \in {<<>>, <<Meant(asked[k])>>}

Sent == FlattenSeq([k \in DOMAIN answers |-> answers[k].bytes])

\* The client receives the answers' bytes once and in order, over Send, its
\* rest and the file, unless sendfile() was cut short.  A close with output waiting
\* leaves a prefix of them.  That no file overtakes the rest of its head is owed to the
\* client, who waits, and to HttpAssumption.
AnswersInOrder ==
  "skip" \notin lost => IsPrefix(received \o socket \o output, Sent)

HttpInv == HttpTypeOK /\ RequestIsExact

-----------------------------------------------------------------------------
(* Liveness                                                                *)

Newest == Len(asked)

\* The last request was read to its end, its head in one read, and is not a nameless
\* upload, to which onRequest gives no answer at all.
HeadInOneRead ==
  /\ asked # <<>> /\ unread = <<>>
  /\ reads[1] >= Len(HeadOf(asked[Newest]))
  /\ ~Nameless(Meant(asked[Newest]))

\* And its body with the head or in one read of its own.
InAtMostTwoReads ==
  /\ HeadInOneRead
  /\ Len(reads) <= 2
  /\ Len(reads) = 2 => reads[1] = Len(HeadOf(asked[Newest]))

\* An answer that fits the send buffer leaves in one piece: no EPOLLOUT, no sendfile()
\* cut short and no close with output waiting can cost it a byte.
IsLong(k) == k <= Len(answers) /\ Len(answers[k].bytes) > SndCap

\* A request in one read, or in two cut behind its head, is answered, but for a
\* nameless upload; an answer that fits the send buffer arrives whole, also when the
\* connection is closed right behind it.
WholeRequestIsAnswered ==
  \A k \in 1 .. MaxRequests : Newest = k /\ InAtMostTwoReads ~> Arrived(k) \/ IsLong(k)

\* The same of any cut of the body, as the course text says of uploads.
UploadIsAnswered ==
  \A k \in 1 .. MaxRequests : Newest = k /\ HeadInOneRead ~> Arrived(k) \/ IsLong(k)
=============================================================================
