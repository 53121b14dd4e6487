-------------------------- MODULE HttpServerProofs --------------------------
(***************************************************************************)
(* What the HTTP server promises, for any requests, cuts of them into      *)
(* reads and sizes of answers: onRequest sees what was asked, and the      *)
(* client receives the answers' bytes once and in order.                   *)
(***************************************************************************)
EXTENDS AsyncLoggingProofs, HttpServer

-----------------------------------------------------------------------------
(* The parser's run over one read                                          *)

\* a[i] is the cx behind the i-th character.
Restart(cx) == [cx EXCEPT !.start = 1, !.colon = 1]

Trace(cx, msg, n, a) ==
  \A i \in 0 .. n : a[i] = IF i = 0 THEN Restart(cx) ELSE Advance(a[i - 1], msg, i)

\* The equation that a function is the trace of n characters.
Traced(cx, msg, n, a) ==
  [i \in 0 .. n |-> IF i = 0 THEN Restart(cx) ELSE Advance(a[i - 1], msg, i)]

LEMMA TraceExists ==
  ASSUME NEW cx, NEW msg
  PROVE  \A n \in Nat : \E a : a = Traced(cx, msg, n, a)
<1> DEFINE Good == {n \in Nat : \E a : a = Traced(cx, msg, n, a)}
<1>1. 0 \in Good
  <2> DEFINE a == [i \in 0 .. 0 |-> Restart(cx)]
  <2>1. a = Traced(cx, msg, 0, a)
    BY DEF Traced
  <2> QED BY <2>1
<1>2. ASSUME NEW n \in Good PROVE n + 1 \in Good
  <2>0. n \in Nat
    OBVIOUS
  <2>1. PICK a : a = Traced(cx, msg, n, a)
    OBVIOUS
  <2> HIDE DEF Good
  <2> DEFINE b == [i \in 0 .. n + 1 |-> IF i = n + 1 THEN Advance(a[n], msg, n + 1) ELSE a[i]]
  <2>2. \A i \in 0 .. n : a[i] = IF i = 0 THEN Restart(cx) ELSE Advance(a[i - 1], msg, i)
    BY <2>1 DEF Traced
  <2>3. ASSUME NEW i \in 0 .. n + 1
        PROVE  b[i] = IF i = 0 THEN Restart(cx) ELSE Advance(b[i - 1], msg, i)
    <3>1. CASE i = n + 1
      <4>1. i # 0 /\ i - 1 = n /\ n \in 0 .. n + 1 /\ n # n + 1
        BY <2>0, <3>1
      <4>2. b[i - 1] = a[n]
        BY <4>1
      <4>3. b[i] = Advance(a[n], msg, i)
        BY <3>1
      <4> QED BY <4>1, <4>2, <4>3
    <3>2. CASE i # n + 1
      <4>1. i \in 0 .. n /\ (i # 0 => i - 1 \in 0 .. n + 1 /\ i - 1 # n + 1)
        BY <2>0, <3>2
      <4>2. b[i] = a[i] /\ (i # 0 => b[i - 1] = a[i - 1])
        BY <3>2, <4>1
      <4> HIDE DEF b
      <4> QED BY <2>2, <4>1, <4>2
    <3> QED BY <3>1, <3>2
  <2>4. b = [i \in 0 .. n + 1 |-> b[i]]
    OBVIOUS
  <2>5. b = Traced(cx, msg, n + 1, b)
    <3> HIDE DEF b
    <3> QED BY <2>3, <2>4 DEF Traced
  <2> QED BY <2>0, <2>5 DEF Good
<1> HIDE DEF Good
<1>3. Good = Nat
  BY <1>1, <1>2, SetInduction DEF Good
<1> QED BY <1>3 DEF Good

\* ParaseRequest is the end of a trace.
LEMMA ParsesByTrace ==
  ASSUME NEW cx, NEW msg, Len(msg) \in Nat
  PROVE  \E a : /\ Trace(cx, msg, Len(msg) + 1, a)
                /\ ParaseRequest(cx, msg) = a[Len(msg) + 1]
<1> DEFINE n == Len(msg) + 1
           h == CHOOSE a : a = Traced(cx, msg, n, a)
<1>1. n \in Nat
  OBVIOUS
<1>2. h = Traced(cx, msg, n, h)
  BY <1>1, TraceExists
<1>3. ParaseRequest(cx, msg) = h[n]
  BY DEF ParaseRequest, Traced, Restart
<1> HIDE DEF h
<1>4. Trace(cx, msg, n, h)
  BY <1>2 DEF Trace, Traced
<1> QED BY <1>3, <1>4

-----------------------------------------------------------------------------
(* Single characters                                                       *)

At(st, req, start, colon) ==
  [state |-> st, request |-> req, start |-> start, colon |-> colon]

Blank == Ends \cup {"SP"}

\* Where a symbol leads, whatever is known and left.
Leads(st, symbol, nx) == \A req, left : NextState(st, symbol, req, left) = nx

\* Where the symbols of a well-formed head lead.
LEMMA UrlStates ==
  /\ \A m \in Methods : Leads("START", m, "METHOD")
  /\ Leads("METHOD", "SP", "BEFORE_URL")
  /\ Leads("BEFORE_URL", "/", "IN_URL")
  /\ Leads("IN_URL", "path", "IN_URL")
  /\ Leads("IN_URL", "?", "BEFORE_URL_PARAM_KEY")
  /\ Leads("IN_URL", "SP", "BEFORE_PROTOCOL")
  /\ \A w : w \notin Blank => Leads("BEFORE_URL_PARAM_KEY", w, "URL_PARAM_KEY")
  /\ Leads("URL_PARAM_KEY", "=", "BEFORE_URL_PARAM_VALUE")
  /\ \A w : w \notin Blank => Leads("BEFORE_URL_PARAM_VALUE", w, "URL_PARAM_VALUE")
  /\ Leads("URL_PARAM_VALUE", "&", "BEFORE_URL_PARAM_KEY")
  /\ Leads("URL_PARAM_VALUE", "SP", "BEFORE_PROTOCOL")
<1>1. \A m \in Methods : Leads("START", m, "METHOD")
  BY DEF Leads, NextState, Methods, Upper, Ends
<1>2. Leads("METHOD", "SP", "BEFORE_URL") /\ Leads("BEFORE_URL", "/", "IN_URL")
  BY DEF Leads, NextState, Methods, Upper, Ends
<1>3. /\ Leads("IN_URL", "path", "IN_URL")
      /\ Leads("IN_URL", "?", "BEFORE_URL_PARAM_KEY")
      /\ Leads("IN_URL", "SP", "BEFORE_PROTOCOL")
  BY DEF Leads, NextState
<1>4. \A w : w \notin Blank => Leads("BEFORE_URL_PARAM_KEY", w, "URL_PARAM_KEY")
  BY DEF Leads, NextState, Blank
<1>5. Leads("URL_PARAM_KEY", "=", "BEFORE_URL_PARAM_VALUE")
  BY DEF Leads, NextState
<1>6. \A w : w \notin Blank => Leads("BEFORE_URL_PARAM_VALUE", w, "URL_PARAM_VALUE")
  BY DEF Leads, NextState, Blank
<1>7. /\ Leads("URL_PARAM_VALUE", "&", "BEFORE_URL_PARAM_KEY")
      /\ Leads("URL_PARAM_VALUE", "SP", "BEFORE_PROTOCOL")
  BY DEF Leads, NextState
<1> QED BY <1>1, <1>2, <1>3, <1>4, <1>5, <1>6, <1>7

LEMMA LineStates ==
  /\ Leads("BEFORE_PROTOCOL", "HTTP", "PROTOCOL")
  /\ Leads("PROTOCOL", "/", "BEFORE_VERSION")
  /\ \A v \in {"1.0", "1.1"} : Leads("BEFORE_VERSION", v, "VERSION")
  /\ Leads("VERSION", "CR", "WHEN_CR")
  /\ Leads("WHEN_CR", "LF", "CR_LF")
  /\ \A w : w \notin Blank => Leads("CR_LF", w, "HEADER_KEY")
  /\ Leads("HEADER_KEY", ":", "HEADER_VALUE")
  /\ \A w : w # "CR" => Leads("HEADER_VALUE", w, "HEADER_VALUE")
  /\ Leads("HEADER_VALUE", "CR", "WHEN_CR")
  /\ Leads("CR_LF", "CR", "CR_LF_CR")
<1>1. Leads("BEFORE_PROTOCOL", "HTTP", "PROTOCOL") /\ Leads("PROTOCOL", "/", "BEFORE_VERSION")
  BY DEF Leads, NextState
<1>2. \A v \in {"1.0", "1.1"} : Leads("BEFORE_VERSION", v, "VERSION")
  BY DEF Leads, NextState, Digits
<1>3. Leads("VERSION", "CR", "WHEN_CR") /\ Leads("WHEN_CR", "LF", "CR_LF")
  BY DEF Leads, NextState
<1>4. \A w : w \notin Blank => Leads("CR_LF", w, "HEADER_KEY")
  BY DEF Leads, NextState, Blank, Ends
<1>5. /\ Leads("HEADER_KEY", ":", "HEADER_VALUE")
      /\ \A w : w # "CR" => Leads("HEADER_VALUE", w, "HEADER_VALUE")
  BY DEF Leads, NextState
<1>6. Leads("HEADER_VALUE", "CR", "WHEN_CR") /\ Leads("CR_LF", "CR", "CR_LF_CR")
  BY DEF Leads, NextState
<1> QED BY <1>1, <1>2, <1>3, <1>4, <1>5, <1>6

\* Behind the head.
LEMMA BodyStates ==
  \A req, left :
    /\ NextState("CR_LF_CR", "LF", req, left) = AfterHead(req, left > 0)
    /\ \A w : NextState("BODY", w, req, left) =
                IF LongEnough(left, req) THEN "COMPLETE" ELSE "BODY"
BY DEF NextState

\* start and colon behind character i.
StartOf(st, nx, s, i) == IF st \in Cutting /\ nx \notin {st, "kINVALID"} THEN i + 1 ELSE s
ColonOf(st, nx, k, i) ==
  IF nx # st /\ nx \in {"BEFORE_URL_PARAM_VALUE", "HEADER_VALUE"} THEN i ELSE k

\* One character, with the cx's parts by themselves.
LEMMA AdvanceAt ==
  ASSUME NEW st, st \notin {"kINVALID", "COMPLETE"}, NEW req, NEW s, NEW k,
         NEW msg, Len(msg) \in Nat, NEW i \in 1 .. Len(msg), NEW nx,
         nx = NextState(st, msg[i], req, Len(msg) - i + 1)
  PROVE  Advance(At(st, req, s, k), msg, i) =
           At(nx, Learnt(At(st, req, s, k), nx, msg, i),
              StartOf(st, nx, s, i), ColonOf(st, nx, k, i))
<1> DEFINE c == At(st, req, s, k)
<1>1. c.state = st /\ c.request = req /\ c.start = s /\ c.colon = k
  BY DEF At
<1>2. i <= Len(msg)
  OBVIOUS
<1>3. Advance(c, msg, i) = Step(c, msg, i)
  BY <1>1 DEF Advance
<1> HIDE DEF c
<1>4. Step(c, msg, i) =
        [state |-> nx, request |-> Learnt(c, nx, msg, i),
         start |-> StartOf(st, nx, s, i), colon |-> ColonOf(st, nx, k, i)]
  BY <1>1, <1>2 DEF Step, StartOf, ColonOf
<1> QED BY <1>3, <1>4 DEF c, At

\* A read that has a p-th symbol has this one.
Reads(msg, p, symbol) == p <= Len(msg) => msg[p] = symbol

\* What is known behind p symbols, of a read that has them.
Reaches(a, msg, p, cx) == p <= Len(msg) => a[p] = cx

Follows(cx, msg, a) == Len(msg) \in Nat /\ Trace(cx, msg, Len(msg) + 1, a)

\* A request with all that a head tells.
Told(method, url, params, protocol, version, headers) ==
  [method |-> method, url |-> url, params |-> params, protocol |-> protocol,
   version |-> version, headers |-> headers, body |-> <<>>]

\* A part of the request becomes known.
WithMethod(req, method) == [req EXCEPT !.method = method]
WithUrl(req, url) == [req EXCEPT !.url = url]
WithParams(req, params) == [req EXCEPT !.params = params]
WithProtocol(req, protocol) == [req EXCEPT !.protocol = protocol]
WithVersion(req, version) == [req EXCEPT !.version = version]
WithHeaders(req, headers) == [req EXCEPT !.headers = headers]
WithBody(req, body) == [req EXCEPT !.body = body]

\* What becomes of start and colon in a well-formed head.
LEMMA StartMoves ==
  ASSUME NEW s, NEW i
  PROVE  /\ StartOf("START", "METHOD", s, i) = s
         /\ StartOf("METHOD", "BEFORE_URL", s, i) = i + 1
         /\ StartOf("BEFORE_URL", "IN_URL", s, i) = s
         /\ StartOf("IN_URL", "IN_URL", s, i) = s
         /\ StartOf("IN_URL", "BEFORE_URL_PARAM_KEY", s, i) = i + 1
         /\ StartOf("IN_URL", "BEFORE_PROTOCOL", s, i) = i + 1
         /\ StartOf("BEFORE_URL_PARAM_KEY", "URL_PARAM_KEY", s, i) = s
         /\ StartOf("URL_PARAM_KEY", "BEFORE_URL_PARAM_VALUE", s, i) = s
         /\ StartOf("BEFORE_URL_PARAM_VALUE", "URL_PARAM_VALUE", s, i) = s
         /\ StartOf("URL_PARAM_VALUE", "BEFORE_URL_PARAM_KEY", s, i) = i + 1
         /\ StartOf("URL_PARAM_VALUE", "BEFORE_PROTOCOL", s, i) = i + 1
         /\ StartOf("BEFORE_PROTOCOL", "PROTOCOL", s, i) = s
         /\ StartOf("PROTOCOL", "BEFORE_VERSION", s, i) = i + 1
         /\ StartOf("BEFORE_VERSION", "VERSION", s, i) = s
         /\ StartOf("VERSION", "WHEN_CR", s, i) = i + 1
         /\ StartOf("WHEN_CR", "CR_LF", s, i) = i + 1
         /\ StartOf("CR_LF", "HEADER_KEY", s, i) = s
         /\ StartOf("HEADER_KEY", "HEADER_VALUE", s, i) = s
         /\ StartOf("HEADER_VALUE", "HEADER_VALUE", s, i) = s
         /\ StartOf("HEADER_VALUE", "WHEN_CR", s, i) = i + 1
         /\ StartOf("CR_LF", "CR_LF_CR", s, i) = s
         /\ StartOf("CR_LF_CR", "BODY", s, i) = i + 1
         /\ StartOf("CR_LF_CR", "COMPLETE", s, i) = i + 1
         /\ \A nx : StartOf("BODY", nx, s, i) = s
BY DEF StartOf, Cutting

LEMMA ColonMoves ==
  ASSUME NEW k, NEW i
  PROVE  /\ ColonOf("START", "METHOD", k, i) = k
         /\ ColonOf("METHOD", "BEFORE_URL", k, i) = k
         /\ ColonOf("BEFORE_URL", "IN_URL", k, i) = k
         /\ ColonOf("IN_URL", "IN_URL", k, i) = k
         /\ ColonOf("IN_URL", "BEFORE_URL_PARAM_KEY", k, i) = k
         /\ ColonOf("IN_URL", "BEFORE_PROTOCOL", k, i) = k
         /\ ColonOf("BEFORE_URL_PARAM_KEY", "URL_PARAM_KEY", k, i) = k
         /\ ColonOf("URL_PARAM_KEY", "BEFORE_URL_PARAM_VALUE", k, i) = i
         /\ ColonOf("BEFORE_URL_PARAM_VALUE", "URL_PARAM_VALUE", k, i) = k
         /\ ColonOf("URL_PARAM_VALUE", "BEFORE_URL_PARAM_KEY", k, i) = k
         /\ ColonOf("URL_PARAM_VALUE", "BEFORE_PROTOCOL", k, i) = k
         /\ ColonOf("BEFORE_PROTOCOL", "PROTOCOL", k, i) = k
         /\ ColonOf("PROTOCOL", "BEFORE_VERSION", k, i) = k
         /\ ColonOf("BEFORE_VERSION", "VERSION", k, i) = k
         /\ ColonOf("VERSION", "WHEN_CR", k, i) = k
         /\ ColonOf("WHEN_CR", "CR_LF", k, i) = k
         /\ ColonOf("CR_LF", "HEADER_KEY", k, i) = k
         /\ ColonOf("HEADER_KEY", "HEADER_VALUE", k, i) = i
         /\ ColonOf("HEADER_VALUE", "HEADER_VALUE", k, i) = k
         /\ ColonOf("HEADER_VALUE", "WHEN_CR", k, i) = k
         /\ ColonOf("CR_LF", "CR_LF_CR", k, i) = k
         /\ ColonOf("CR_LF_CR", "BODY", k, i) = k
         /\ ColonOf("CR_LF_CR", "COMPLETE", k, i) = k
         /\ ColonOf("BODY", "BODY", k, i) = k
         /\ ColonOf("BODY", "COMPLETE", k, i) = k
BY DEF ColonOf

\* A symbol that leads elsewhere whatever is known.
LEMMA Advances ==
  ASSUME NEW msg, Len(msg) \in Nat, NEW i \in 1 .. Len(msg), NEW req, NEW s, NEW k,
         NEW st, st \notin {"kINVALID", "COMPLETE"}, NEW nx, Leads(st, msg[i], nx)
  PROVE  Advance(At(st, req, s, k), msg, i) =
           At(nx, Learnt(At(st, req, s, k), nx, msg, i),
              StartOf(st, nx, s, i), ColonOf(st, nx, k, i))
<1>1. NextState(st, msg[i], req, Len(msg) - i + 1) = nx
  BY DEF Leads
<1> QED BY <1>1, AdvanceAt

\* The symbols of the method and the path.
LEMMA PathMoves ==
  ASSUME NEW msg, Len(msg) \in Nat, NEW i \in 1 .. Len(msg), NEW req, NEW s, NEW k
  PROVE  /\ msg[i] \in Methods =>
              Advance(At("START", req, s, k), msg, i) = At("METHOD", req, s, k)
         /\ msg[i] = "SP" =>
              Advance(At("METHOD", req, s, k), msg, i) =
                At("BEFORE_URL", WithMethod(req, Method(SubSeq(msg, s, i - 1))), i + 1, k)
         /\ msg[i] = "/" =>
              Advance(At("BEFORE_URL", req, s, k), msg, i) = At("IN_URL", req, s, k)
         /\ msg[i] = "path" =>
              Advance(At("IN_URL", req, s, k), msg, i) = At("IN_URL", req, s, k)
<1>1. ASSUME msg[i] \in Methods
      PROVE  Advance(At("START", req, s, k), msg, i) = At("METHOD", req, s, k)
  <2>1. Leads("START", msg[i], "METHOD")
    BY <1>1, UrlStates
  <2>2. Learnt(At("START", req, s, k), "METHOD", msg, i) = req
    BY DEF Learnt, At, WithMethod
  <2> QED BY <2>1, <2>2, Advances, StartMoves, ColonMoves
<1>2. ASSUME msg[i] = "SP"
      PROVE  Advance(At("METHOD", req, s, k), msg, i) =
               At("BEFORE_URL", WithMethod(req, Method(SubSeq(msg, s, i - 1))), i + 1, k)
  <2>1. Leads("METHOD", msg[i], "BEFORE_URL")
    BY <1>2, UrlStates
  <2>2. Learnt(At("METHOD", req, s, k), "BEFORE_URL", msg, i) =
          WithMethod(req, Method(SubSeq(msg, s, i - 1)))
    BY DEF Learnt, At, WithMethod
  <2> QED BY <2>1, <2>2, Advances, StartMoves, ColonMoves
<1>3. ASSUME msg[i] = "/"
      PROVE  Advance(At("BEFORE_URL", req, s, k), msg, i) = At("IN_URL", req, s, k)
  <2>1. Leads("BEFORE_URL", msg[i], "IN_URL")
    BY <1>3, UrlStates
  <2>2. Learnt(At("BEFORE_URL", req, s, k), "IN_URL", msg, i) = req
    BY DEF Learnt, At, WithMethod
  <2> QED BY <2>1, <2>2, Advances, StartMoves, ColonMoves
<1>4. ASSUME msg[i] = "path"
      PROVE  Advance(At("IN_URL", req, s, k), msg, i) = At("IN_URL", req, s, k)
  <2>1. Leads("IN_URL", msg[i], "IN_URL")
    BY <1>4, UrlStates
  <2>2. Learnt(At("IN_URL", req, s, k), "IN_URL", msg, i) = req
    BY DEF Learnt, At, WithMethod
  <2> QED BY <2>1, <2>2, Advances, StartMoves, ColonMoves
<1> QED BY <1>1, <1>2, <1>3, <1>4
\* The symbols of the parameters.
LEMMA ParamMoves ==
  ASSUME NEW msg, Len(msg) \in Nat, NEW i \in 1 .. Len(msg), NEW req, NEW s, NEW k
  PROVE  /\ msg[i] = "?" =>
              Advance(At("IN_URL", req, s, k), msg, i) =
                At("BEFORE_URL_PARAM_KEY", WithUrl(req, SubSeq(msg, s, i - 1)), i + 1, k)
         /\ msg[i] = "&" =>
              Advance(At("URL_PARAM_VALUE", req, s, k), msg, i) =
                At("BEFORE_URL_PARAM_KEY",
                   WithParams(req, PutPair(req.params, SubSeq(msg, s, k - 1), SubSeq(msg, k + 1, i - 1))), i + 1, k)
         /\ msg[i] \notin Blank =>
              Advance(At("BEFORE_URL_PARAM_KEY", req, s, k), msg, i) =
                At("URL_PARAM_KEY", req, s, k)
         /\ msg[i] = "=" =>
              Advance(At("URL_PARAM_KEY", req, s, k), msg, i) =
                At("BEFORE_URL_PARAM_VALUE", req, s, i)
         /\ msg[i] \notin Blank =>
              Advance(At("BEFORE_URL_PARAM_VALUE", req, s, k), msg, i) =
                At("URL_PARAM_VALUE", req, s, k)
<1>1. ASSUME msg[i] = "?"
      PROVE  Advance(At("IN_URL", req, s, k), msg, i) =
               At("BEFORE_URL_PARAM_KEY", WithUrl(req, SubSeq(msg, s, i - 1)), i + 1, k)
  <2>1. Leads("IN_URL", msg[i], "BEFORE_URL_PARAM_KEY")
    BY <1>1, UrlStates
  <2>2. Learnt(At("IN_URL", req, s, k), "BEFORE_URL_PARAM_KEY", msg, i) =
              WithUrl(req, SubSeq(msg, s, i - 1))
    BY DEF Learnt, At, WithUrl, WithParams, WithProtocol, WithVersion
  <2>3. Advance(At("IN_URL", req, s, k), msg, i) =
          At("BEFORE_URL_PARAM_KEY",
             Learnt(At("IN_URL", req, s, k), "BEFORE_URL_PARAM_KEY", msg, i), i + 1, k)
    BY <2>1, Advances, StartMoves, ColonMoves
  <2> QED BY <2>2, <2>3
<1>2. ASSUME msg[i] = "&"
      PROVE  Advance(At("URL_PARAM_VALUE", req, s, k), msg, i) =
               At("BEFORE_URL_PARAM_KEY",
                  WithParams(req, PutPair(req.params, SubSeq(msg, s, k - 1), SubSeq(msg, k + 1, i - 1))), i + 1, k)
  <2>1. Leads("URL_PARAM_VALUE", msg[i], "BEFORE_URL_PARAM_KEY")
    BY <1>2, UrlStates
  <2>2. Learnt(At("URL_PARAM_VALUE", req, s, k), "BEFORE_URL_PARAM_KEY", msg, i) =
        WithParams(req, PutPair(req.params, SubSeq(msg, s, k - 1), SubSeq(msg, k + 1, i - 1)))
    BY DEF Learnt, At, WithUrl, WithParams, WithProtocol, WithVersion
  <2> QED BY <2>1, <2>2, Advances, StartMoves, ColonMoves
<1>3. ASSUME msg[i] \notin Blank
      PROVE  Advance(At("BEFORE_URL_PARAM_KEY", req, s, k), msg, i) =
               At("URL_PARAM_KEY", req, s, k)
  <2>1. Leads("BEFORE_URL_PARAM_KEY", msg[i], "URL_PARAM_KEY")
    BY <1>3, UrlStates
  <2>2. Learnt(At("BEFORE_URL_PARAM_KEY", req, s, k), "URL_PARAM_KEY", msg, i) = req
    BY DEF Learnt, At, WithUrl, WithParams, WithProtocol, WithVersion
  <2> QED BY <2>1, <2>2, Advances, StartMoves, ColonMoves
<1>4. ASSUME msg[i] = "="
      PROVE  Advance(At("URL_PARAM_KEY", req, s, k), msg, i) =
               At("BEFORE_URL_PARAM_VALUE", req, s, i)
  <2>1. Leads("URL_PARAM_KEY", msg[i], "BEFORE_URL_PARAM_VALUE")
    BY <1>4, UrlStates
  <2>2. Learnt(At("URL_PARAM_KEY", req, s, k), "BEFORE_URL_PARAM_VALUE", msg, i) = req
    BY DEF Learnt, At, WithUrl, WithParams, WithProtocol, WithVersion
  <2> QED BY <2>1, <2>2, Advances, StartMoves, ColonMoves
<1>5. ASSUME msg[i] \notin Blank
      PROVE  Advance(At("BEFORE_URL_PARAM_VALUE", req, s, k), msg, i) =
               At("URL_PARAM_VALUE", req, s, k)
  <2>1. Leads("BEFORE_URL_PARAM_VALUE", msg[i], "URL_PARAM_VALUE")
    BY <1>5, UrlStates
  <2>2. Learnt(At("BEFORE_URL_PARAM_VALUE", req, s, k), "URL_PARAM_VALUE", msg, i) = req
    BY DEF Learnt, At, WithUrl, WithParams, WithProtocol, WithVersion
  <2> QED BY <2>1, <2>2, Advances, StartMoves, ColonMoves
<1> QED BY <1>1, <1>2, <1>3, <1>4, <1>5

\* The rest of the first line.
LEMMA LineMoves ==
  ASSUME NEW msg, Len(msg) \in Nat, NEW i \in 1 .. Len(msg), NEW req, NEW s, NEW k
  PROVE  /\ msg[i] = "SP" =>
              Advance(At("IN_URL", req, s, k), msg, i) =
                At("BEFORE_PROTOCOL", WithUrl(req, SubSeq(msg, s, i - 1)), i + 1, k)
         /\ msg[i] = "SP" =>
              Advance(At("URL_PARAM_VALUE", req, s, k), msg, i) =
                At("BEFORE_PROTOCOL",
                   WithParams(req, PutPair(req.params, SubSeq(msg, s, k - 1), SubSeq(msg, k + 1, i - 1))), i + 1, k)
         /\ msg[i] = "HTTP" =>
              Advance(At("BEFORE_PROTOCOL", req, s, k), msg, i) =
                At("PROTOCOL", req, s, k)
         /\ msg[i] = "/" =>
              Advance(At("PROTOCOL", req, s, k), msg, i) =
                At("BEFORE_VERSION", WithProtocol(req, SubSeq(msg, s, i - 1)), i + 1, k)
         /\ msg[i] \in {"1.0", "1.1"} =>
              Advance(At("BEFORE_VERSION", req, s, k), msg, i) =
                At("VERSION", req, s, k)
         /\ msg[i] = "CR" =>
              Advance(At("VERSION", req, s, k), msg, i) =
                At("WHEN_CR", WithVersion(req, Version(SubSeq(msg, s, i - 1))), i + 1, k)
         /\ msg[i] = "LF" =>
              Advance(At("WHEN_CR", req, s, k), msg, i) =
                At("CR_LF", req, i + 1, k)
<1>1. ASSUME msg[i] = "SP"
      PROVE  Advance(At("IN_URL", req, s, k), msg, i) =
               At("BEFORE_PROTOCOL", WithUrl(req, SubSeq(msg, s, i - 1)), i + 1, k)
  <2>1. Leads("IN_URL", msg[i], "BEFORE_PROTOCOL")
    BY <1>1, UrlStates, LineStates
  <2>2. Learnt(At("IN_URL", req, s, k), "BEFORE_PROTOCOL", msg, i) = WithUrl(req, SubSeq(msg, s, i - 1))
    BY DEF Learnt, At, WithUrl, WithParams, WithProtocol, WithVersion
  <2>3. Advance(At("IN_URL", req, s, k), msg, i) =
          At("BEFORE_PROTOCOL", Learnt(At("IN_URL", req, s, k), "BEFORE_PROTOCOL", msg, i), i + 1, k)
    BY <2>1, Advances, StartMoves, ColonMoves
  <2> QED BY <2>2, <2>3
<1>2. ASSUME msg[i] = "SP"
      PROVE  Advance(At("URL_PARAM_VALUE", req, s, k), msg, i) =
               At("BEFORE_PROTOCOL",
                  WithParams(req, PutPair(req.params, SubSeq(msg, s, k - 1), SubSeq(msg, k + 1, i - 1))), i + 1, k)
  <2>1. Leads("URL_PARAM_VALUE", msg[i], "BEFORE_PROTOCOL")
    BY <1>2, UrlStates, LineStates
  <2>2. Learnt(At("URL_PARAM_VALUE", req, s, k), "BEFORE_PROTOCOL", msg, i) =
        WithParams(req, PutPair(req.params, SubSeq(msg, s, k - 1), SubSeq(msg, k + 1, i - 1)))
    BY DEF Learnt, At, WithUrl, WithParams, WithProtocol, WithVersion
  <2> QED BY <2>1, <2>2, Advances, StartMoves, ColonMoves
<1>3. ASSUME msg[i] = "HTTP"
      PROVE  Advance(At("BEFORE_PROTOCOL", req, s, k), msg, i) =
               At("PROTOCOL", req, s, k)
  <2>1. Leads("BEFORE_PROTOCOL", msg[i], "PROTOCOL")
    BY <1>3, UrlStates, LineStates
  <2>2. Learnt(At("BEFORE_PROTOCOL", req, s, k), "PROTOCOL", msg, i) = req
    BY DEF Learnt, At, WithUrl, WithParams, WithProtocol, WithVersion
  <2> QED BY <2>1, <2>2, Advances, StartMoves, ColonMoves
<1>4. ASSUME msg[i] = "/"
      PROVE  Advance(At("PROTOCOL", req, s, k), msg, i) =
               At("BEFORE_VERSION", WithProtocol(req, SubSeq(msg, s, i - 1)), i + 1, k)
  <2>1. Leads("PROTOCOL", msg[i], "BEFORE_VERSION")
    BY <1>4, UrlStates, LineStates
  <2>2. Learnt(At("PROTOCOL", req, s, k), "BEFORE_VERSION", msg, i) =
              WithProtocol(req, SubSeq(msg, s, i - 1))
    BY DEF Learnt, At, WithUrl, WithParams, WithProtocol, WithVersion
  <2>3. Advance(At("PROTOCOL", req, s, k), msg, i) =
          At("BEFORE_VERSION", Learnt(At("PROTOCOL", req, s, k), "BEFORE_VERSION", msg, i), i + 1, k)
    BY <2>1, Advances, StartMoves, ColonMoves
  <2> QED BY <2>2, <2>3
<1>5. ASSUME msg[i] \in {"1.0", "1.1"}
      PROVE  Advance(At("BEFORE_VERSION", req, s, k), msg, i) =
               At("VERSION", req, s, k)
  <2>1. Leads("BEFORE_VERSION", msg[i], "VERSION")
    BY <1>5, UrlStates, LineStates
  <2>2. Learnt(At("BEFORE_VERSION", req, s, k), "VERSION", msg, i) = req
    BY DEF Learnt, At, WithUrl, WithParams, WithProtocol, WithVersion
  <2> QED BY <2>1, <2>2, Advances, StartMoves, ColonMoves
<1>6. ASSUME msg[i] = "CR"
      PROVE  Advance(At("VERSION", req, s, k), msg, i) =
               At("WHEN_CR", WithVersion(req, Version(SubSeq(msg, s, i - 1))), i + 1, k)
  <2>1. Leads("VERSION", msg[i], "WHEN_CR")
    BY <1>6, UrlStates, LineStates
  <2>2. Learnt(At("VERSION", req, s, k), "WHEN_CR", msg, i) =
              WithVersion(req, Version(SubSeq(msg, s, i - 1)))
    BY DEF Learnt, At, WithUrl, WithParams, WithProtocol, WithVersion
  <2> QED BY <2>1, <2>2, Advances, StartMoves, ColonMoves
<1>7. ASSUME msg[i] = "LF"
      PROVE  Advance(At("WHEN_CR", req, s, k), msg, i) =
               At("CR_LF", req, i + 1, k)
  <2>1. Leads("WHEN_CR", msg[i], "CR_LF")
    BY <1>7, UrlStates, LineStates
  <2>2. Learnt(At("WHEN_CR", req, s, k), "CR_LF", msg, i) = req
    BY DEF Learnt, At, WithUrl, WithParams, WithProtocol, WithVersion
  <2> QED BY <2>1, <2>2, Advances, StartMoves, ColonMoves
<1> QED BY <1>1, <1>2, <1>3, <1>4, <1>5, <1>6, <1>7

\* The symbols of the headers.
LEMMA HeaderMoves ==
  ASSUME NEW msg, Len(msg) \in Nat, NEW i \in 1 .. Len(msg), NEW req, NEW s, NEW k
  PROVE  /\ msg[i] \notin Blank =>
              Advance(At("CR_LF", req, s, k), msg, i) =
                At("HEADER_KEY", req, s, k)
         /\ msg[i] = ":" =>
              Advance(At("HEADER_KEY", req, s, k), msg, i) =
                At("HEADER_VALUE", req, s, i)
         /\ msg[i] # "CR" =>
              Advance(At("HEADER_VALUE", req, s, k), msg, i) =
                At("HEADER_VALUE", req, s, k)
         /\ msg[i] = "CR" =>
              Advance(At("HEADER_VALUE", req, s, k), msg, i) =
                At("WHEN_CR",
                   WithHeaders(req, PutPair(req.headers, SubSeq(msg, s, k - 1), SubSeq(msg, k + 2, i - 1))), i + 1, k)
         /\ msg[i] = "CR" =>
              Advance(At("CR_LF", req, s, k), msg, i) =
                At("CR_LF_CR", req, s, k)
<1>1. ASSUME msg[i] \notin Blank
      PROVE  Advance(At("CR_LF", req, s, k), msg, i) =
               At("HEADER_KEY", req, s, k)
  <2>1. Leads("CR_LF", msg[i], "HEADER_KEY")
    BY <1>1, LineStates
  <2>2. Learnt(At("CR_LF", req, s, k), "HEADER_KEY", msg, i) = req
    BY DEF Learnt, At, ValueOf, WithHeaders
  <2> QED BY <2>1, <2>2, Advances, StartMoves, ColonMoves
<1>2. ASSUME msg[i] = ":"
      PROVE  Advance(At("HEADER_KEY", req, s, k), msg, i) =
               At("HEADER_VALUE", req, s, i)
  <2>1. Leads("HEADER_KEY", msg[i], "HEADER_VALUE")
    BY <1>2, LineStates
  <2>2. Learnt(At("HEADER_KEY", req, s, k), "HEADER_VALUE", msg, i) = req
    BY DEF Learnt, At, ValueOf, WithHeaders
  <2> QED BY <2>1, <2>2, Advances, StartMoves, ColonMoves
<1>3. ASSUME msg[i] # "CR"
      PROVE  Advance(At("HEADER_VALUE", req, s, k), msg, i) =
               At("HEADER_VALUE", req, s, k)
  <2>1. Leads("HEADER_VALUE", msg[i], "HEADER_VALUE")
    BY <1>3, LineStates
  <2>2. Learnt(At("HEADER_VALUE", req, s, k), "HEADER_VALUE", msg, i) = req
    BY DEF Learnt, At, ValueOf, WithHeaders
  <2> QED BY <2>1, <2>2, Advances, StartMoves, ColonMoves
<1>4. ASSUME msg[i] = "CR"
      PROVE  Advance(At("HEADER_VALUE", req, s, k), msg, i) =
               At("WHEN_CR",
                  WithHeaders(req, PutPair(req.headers, SubSeq(msg, s, k - 1), SubSeq(msg, k + 2, i - 1))), i + 1, k)
  <2>1. Leads("HEADER_VALUE", msg[i], "WHEN_CR")
    BY <1>4, LineStates
  <2>2. Learnt(At("HEADER_VALUE", req, s, k), "WHEN_CR", msg, i) =
        WithHeaders(req, PutPair(req.headers, SubSeq(msg, s, k - 1), SubSeq(msg, k + 2, i - 1)))
    BY DEF Learnt, At, ValueOf, WithHeaders
  <2> QED BY <2>1, <2>2, Advances, StartMoves, ColonMoves
<1>5. ASSUME msg[i] = "CR"
      PROVE  Advance(At("CR_LF", req, s, k), msg, i) =
               At("CR_LF_CR", req, s, k)
  <2>1. Leads("CR_LF", msg[i], "CR_LF_CR")
    BY <1>5, LineStates
  <2>2. Learnt(At("CR_LF", req, s, k), "CR_LF_CR", msg, i) = req
    BY DEF Learnt, At, ValueOf, WithHeaders
  <2> QED BY <2>1, <2>2, Advances, StartMoves, ColonMoves
<1> QED BY <1>1, <1>2, <1>3, <1>4, <1>5

-----------------------------------------------------------------------------
(* Runs of symbols                                                         *)

\* What a read is made of: strings.  The provers do not know of a literal that it
\* is one.
Symbols ==
  STRING \cup Methods \cup
  {"CR", "LF", "SP", "/", "path", "?", "&", "=", ":", "HTTP", "1.0", "1.1"}

\* What the request says behind the method, behind the path and so many
\* parameters, and in the headers.
Path == <<"/", "path">>
Asks(m) == Told(m, <<>>, {}, <<>>, "kUnknown", {})
Locates(m, ps) == Told(m, Path, ps, <<>>, "kUnknown", {})
Tells(m, ps, v, hs) == Told(m, Path, ps, <<"HTTP">>, v, hs)

LEMMA ToldGrows ==
  ASSUME NEW m, NEW u, NEW ps, NEW pr, NEW v, NEW hs, NEW x
  PROVE  /\ WithMethod(Told(m, u, ps, pr, v, hs), x) = Told(x, u, ps, pr, v, hs)
         /\ WithUrl(Told(m, u, ps, pr, v, hs), x) = Told(m, x, ps, pr, v, hs)
         /\ WithParams(Told(m, u, ps, pr, v, hs), x) = Told(m, u, x, pr, v, hs)
         /\ WithProtocol(Told(m, u, ps, pr, v, hs), x) = Told(m, u, ps, x, v, hs)
         /\ WithVersion(Told(m, u, ps, pr, v, hs), x) = Told(m, u, ps, pr, x, hs)
         /\ WithHeaders(Told(m, u, ps, pr, v, hs), x) = Told(m, u, ps, pr, v, x)
         /\ Told(m, u, ps, pr, v, hs).params = ps
         /\ Told(m, u, ps, pr, v, hs).headers = hs
<1>1. WithMethod(Told(m, u, ps, pr, v, hs), x) = Told(x, u, ps, pr, v, hs)
  BY DEF Told, WithMethod, WithUrl, WithParams, WithProtocol, WithVersion, WithHeaders
<1>2. WithUrl(Told(m, u, ps, pr, v, hs), x) = Told(m, x, ps, pr, v, hs)
  BY DEF Told, WithMethod, WithUrl, WithParams, WithProtocol, WithVersion, WithHeaders
<1>3. WithParams(Told(m, u, ps, pr, v, hs), x) = Told(m, u, x, pr, v, hs)
  BY DEF Told, WithMethod, WithUrl, WithParams, WithProtocol, WithVersion, WithHeaders
<1>4. WithProtocol(Told(m, u, ps, pr, v, hs), x) = Told(m, u, ps, x, v, hs)
  BY DEF Told, WithMethod, WithUrl, WithParams, WithProtocol, WithVersion, WithHeaders
<1>5. WithVersion(Told(m, u, ps, pr, v, hs), x) = Told(m, u, ps, pr, x, hs)
  BY DEF Told, WithMethod, WithUrl, WithParams, WithProtocol, WithVersion, WithHeaders
<1>6. WithHeaders(Told(m, u, ps, pr, v, hs), x) = Told(m, u, ps, pr, v, x)
  BY DEF Told, WithMethod, WithUrl, WithParams, WithProtocol, WithVersion, WithHeaders
<1>7. Told(m, u, ps, pr, v, hs).params = ps /\ Told(m, u, ps, pr, v, hs).headers = hs
  BY DEF Told, WithMethod, WithUrl, WithParams, WithProtocol, WithVersion, WithHeaders
<1> QED BY <1>1, <1>2, <1>3, <1>4, <1>5, <1>6, <1>7

\* A token of one symbol and one of two.
LEMMA OneSymbol ==
  ASSUME NEW msg \in Seq(Symbols), NEW p \in 1 .. Len(msg)
  PROVE  SubSeq(msg, p, p) = <<msg[p]>>
<1> DEFINE t == SubSeq(msg, p, p)
<1>1. t \in Seq(Symbols) /\ Len(t) = 1 /\ t[1] = msg[p]
  BY ElementOfSeq, SubSeqProperties
<1>2. msg[p] \in Symbols
  BY ElementOfSeq
<1>3. <<msg[p]>> \in Seq(Symbols) /\ Len(<<msg[p]>>) = 1 /\ <<msg[p]>>[1] = msg[p]
  BY <1>2
<1> HIDE DEF t
<1>4. \A i \in 1 .. 1 : t[i] = <<msg[p]>>[i]
  BY <1>1, <1>3
<1> QED BY <1>1, <1>3, <1>4, SeqEqual DEF t

LEMMA TwoSymbols ==
  ASSUME NEW msg \in Seq(Symbols), NEW p \in 1 .. Len(msg), p + 1 <= Len(msg)
  PROVE  SubSeq(msg, p, p + 1) = <<msg[p], msg[p + 1]>>
<1> DEFINE t == SubSeq(msg, p, p + 1)
           u == <<msg[p], msg[p + 1]>>
<1>0. msg[p] \in Symbols /\ msg[p + 1] \in Symbols
  BY ElementOfSeq
<1>1. t \in Seq(Symbols) /\ Len(t) = 2 /\ t[1] = msg[p] /\ t[2] = msg[p + 1]
  BY ElementOfSeq, SubSeqProperties
<1>2. u \in Seq(Symbols) /\ Len(u) = 2 /\ u[1] = msg[p] /\ u[2] = msg[p + 1]
  BY <1>0
<1> HIDE DEF t, u
<1>3. t = u
  <2>1. \A i \in 1 .. 2 : t[i] = u[i]
    BY <1>1, <1>2
  <2> QED BY <1>1, <1>2, <2>1, SeqEqual
<1> QED BY <1>3 DEF t, u

\* The states inside a head.
Inner ==
  {"START", "METHOD", "BEFORE_URL", "IN_URL", "BEFORE_URL_PARAM_KEY", "URL_PARAM_KEY",
   "BEFORE_URL_PARAM_VALUE", "URL_PARAM_VALUE", "BEFORE_PROTOCOL", "PROTOCOL",
   "BEFORE_VERSION", "VERSION", "WHEN_CR", "CR_LF", "HEADER_KEY", "HEADER_VALUE", "CR_LF_CR"}

Inside(a, msg, p) == p <= Len(msg) => a[p].state \in Inner

LEMMA ReachesInside ==
  ASSUME NEW a, NEW msg, NEW p, NEW st \in Inner, NEW req, NEW s, NEW k,
         Reaches(a, msg, p, At(st, req, s, k))
  PROVE  Inside(a, msg, p)
BY DEF Reaches, Inside, At

\* From one symbol to the next.
LEMMA OneMore ==
  ASSUME NEW cx, NEW msg, NEW a, Follows(cx, msg, a), NEW p \in Nat, NEW c, NEW d,
         Reaches(a, msg, p, c), p + 1 <= Len(msg) => Advance(c, msg, p + 1) = d
  PROVE  Reaches(a, msg, p + 1, d)
<1> SUFFICES ASSUME p + 1 <= Len(msg) PROVE a[p + 1] = d
  BY DEF Reaches
<1>0. Len(msg) \in Nat
  BY DEF Follows
<1>1. a[p] = c
  BY <1>0 DEF Reaches
<1>2. p + 1 \in 0 .. Len(msg) + 1 /\ p + 1 # 0 /\ (p + 1) - 1 = p
  BY <1>0
<1>3. a[p + 1] = Advance(a[(p + 1) - 1], msg, p + 1)
  BY <1>2 DEF Trace, Follows
<1> QED BY <1>1, <1>2, <1>3
LEMMA RequestGrows ==
  ASSUME NEW m, NEW ps, NEW v, NEW hs, NEW x
  PROVE  /\ WithMethod(NewRequest, m) = Asks(m)
         /\ WithUrl(Asks(m), Path) = Locates(m, {})
         /\ WithParams(Locates(m, ps), x) = Locates(m, x)
         /\ Locates(m, ps).params = ps
         /\ WithProtocol(Locates(m, ps), <<"HTTP">>) = Tells(m, ps, "kUnknown", {})
         /\ WithVersion(Tells(m, ps, "kUnknown", {}), v) = Tells(m, ps, v, {})
         /\ WithHeaders(Tells(m, ps, v, hs), x) = Tells(m, ps, v, x)
         /\ Tells(m, ps, v, hs).headers = hs
<1>1. NewRequest = Told("kInvalid", <<>>, {}, <<>>, "kUnknown", {})
  BY DEF NewRequest, Told
<1>2. WithUrl(Asks(m), Path) = Locates(m, {})
  BY ToldGrows DEF Asks, Locates
<1>3. WithParams(Locates(m, ps), x) = Locates(m, x) /\ Locates(m, ps).params = ps
  BY ToldGrows DEF Locates
<1>4. WithProtocol(Locates(m, ps), <<"HTTP">>) = Tells(m, ps, "kUnknown", {})
  BY ToldGrows DEF Locates, Tells
<1>5. WithVersion(Tells(m, ps, "kUnknown", {}), v) = Tells(m, ps, v, {})
  BY ToldGrows DEF Tells
<1>6. WithHeaders(Tells(m, ps, v, hs), x) = Tells(m, ps, v, x) /\ Tells(m, ps, v, hs).headers = hs
  BY ToldGrows DEF Tells
<1>7. WithMethod(NewRequest, m) = Asks(m)
  BY <1>1, ToldGrows DEF Asks
<1> QED BY <1>2, <1>3, <1>4, <1>5, <1>6, <1>7

\* A read that begins with these symbols.
Follow(msg, p, w1, w2, w3, w4) ==
  Reads(msg, p + 1, w1) /\ Reads(msg, p + 2, w2) /\ Reads(msg, p + 3, w3) /\ Reads(msg, p + 4, w4)

LEMMA ReadsPath ==
  ASSUME NEW cx, NEW msg \in Seq(Symbols), NEW a, Follows(cx, msg, a),
         NEW p \in Nat, NEW m \in Methods, NEW k, Follow(msg, p, m, "SP", "/", "path"),
         Reaches(a, msg, p, At("START", NewRequest, p + 1, k))
  PROVE  /\ Inside(a, msg, p + 1) /\ Inside(a, msg, p + 2)
         /\ Inside(a, msg, p + 3) /\ Inside(a, msg, p + 4)
         /\ Reaches(a, msg, p + 4, At("IN_URL", Asks(m), p + 3, k))
<1>0. Len(msg) \in Nat
  OBVIOUS
<1>1. Reaches(a, msg, p + 1, At("METHOD", NewRequest, p + 1, k))
  <2>1. p + 1 <= Len(msg) =>
          Advance(At("START", NewRequest, p + 1, k), msg, p + 1) = At("METHOD", NewRequest, p + 1, k)
    BY <1>0, PathMoves DEF Follow, Reads
  <2> QED BY <2>1, OneMore
<1>2. Reaches(a, msg, p + 2, At("BEFORE_URL", Asks(m), p + 3, k))
  <2> DEFINE c == At("METHOD", NewRequest, p + 1, k)
             d == At("BEFORE_URL", Asks(m), p + 3, k)
  <2>1. ASSUME p + 2 <= Len(msg) PROVE Advance(c, msg, p + 2) = d
    <3>1. SubSeq(msg, p + 1, (p + 2) - 1) = <<m>>
      BY <2>1, OneSymbol DEF Follow, Reads
    <3>2. Method(<<m>>) = m
      BY DEF Method
    <3>3. msg[p + 2] = "SP" /\ p + 2 \in 1 .. Len(msg)
      BY <2>1, <1>0 DEF Follow, Reads
    <3>4. Advance(c, msg, p + 2) =
            At("BEFORE_URL", WithMethod(NewRequest, Method(SubSeq(msg, p + 1, (p + 2) - 1))),
               (p + 2) + 1, k)
      BY <1>0, <3>3, PathMoves
    <3>5. (p + 2) + 1 = p + 3
      OBVIOUS
    <3> QED BY <3>1, <3>2, <3>4, <3>5, RequestGrows
  <2>2. p + 2 = (p + 1) + 1 /\ p + 1 \in Nat
    OBVIOUS
  <2> HIDE DEF c, d
  <2>3. Reaches(a, msg, p + 1, c)
    BY <1>1 DEF c
  <2>4. Reaches(a, msg, p + 2, d)
    BY <2>1, <2>2, <2>3, OneMore
  <2> QED BY <2>4 DEF d
<1>3. Reaches(a, msg, p + 3, At("IN_URL", Asks(m), p + 3, k))
  <2>1. p + 3 <= Len(msg) =>
          Advance(At("BEFORE_URL", Asks(m), p + 3, k), msg, p + 3) = At("IN_URL", Asks(m), p + 3, k)
    BY <1>0, PathMoves DEF Follow, Reads
  <2>2. p + 3 = (p + 2) + 1 /\ p + 2 \in Nat
    OBVIOUS
  <2> QED BY <1>2, <2>1, <2>2, OneMore
<1>4. Reaches(a, msg, p + 4, At("IN_URL", Asks(m), p + 3, k))
  <2>1. p + 4 <= Len(msg) =>
          Advance(At("IN_URL", Asks(m), p + 3, k), msg, p + 4) = At("IN_URL", Asks(m), p + 3, k)
    BY <1>0, PathMoves DEF Follow, Reads
  <2>2. p + 4 = (p + 3) + 1 /\ p + 3 \in Nat
    OBVIOUS
  <2> QED BY <1>3, <2>1, <2>2, OneMore
<1>5. {"METHOD", "BEFORE_URL", "IN_URL"} \subseteq Inner
  BY DEF Inner
<1> QED BY <1>1, <1>2, <1>3, <1>4, <1>5, ReachesInside
\* One parameter, from wherever the separator leads to its key.
LEMMA ReadsParam ==
  ASSUME NEW cx, NEW msg \in Seq(Symbols), NEW a, Follows(cx, msg, a),
         NEW p \in Nat, NEW c, Reaches(a, msg, p, c), NEW sep, NEW key, NEW value,
         key \notin Blank, value \notin Blank, Follow(msg, p, sep, key, "=", value),
         NEW req, NEW k,
         p + 1 <= Len(msg) =>
           Advance(c, msg, p + 1) = At("BEFORE_URL_PARAM_KEY", req, p + 2, k)
  PROVE  /\ Inside(a, msg, p + 1) /\ Inside(a, msg, p + 2)
         /\ Inside(a, msg, p + 3) /\ Inside(a, msg, p + 4)
         /\ Reaches(a, msg, p + 4, At("URL_PARAM_VALUE", req, p + 2, p + 3))
<1>0. Len(msg) \in Nat
  OBVIOUS
<1>1. Reaches(a, msg, p + 1, At("BEFORE_URL_PARAM_KEY", req, p + 2, k))
  BY OneMore
<1>2. Reaches(a, msg, p + 2, At("URL_PARAM_KEY", req, p + 2, k))
  <2>1. p + 2 <= Len(msg) =>
          Advance(At("BEFORE_URL_PARAM_KEY", req, p + 2, k), msg, p + 2) =
            At("URL_PARAM_KEY", req, p + 2, k)
    BY <1>0, ParamMoves DEF Follow, Reads
  <2>2. p + 2 = (p + 1) + 1 /\ p + 1 \in Nat
    OBVIOUS
  <2> QED BY <1>1, <2>1, <2>2, OneMore
<1>3. Reaches(a, msg, p + 3, At("BEFORE_URL_PARAM_VALUE", req, p + 2, p + 3))
  <2>1. p + 3 <= Len(msg) =>
          Advance(At("URL_PARAM_KEY", req, p + 2, k), msg, p + 3) =
            At("BEFORE_URL_PARAM_VALUE", req, p + 2, p + 3)
    BY <1>0, ParamMoves DEF Follow, Reads
  <2>2. p + 3 = (p + 2) + 1 /\ p + 2 \in Nat
    OBVIOUS
  <2> QED BY <1>2, <2>1, <2>2, OneMore
<1>4. Reaches(a, msg, p + 4, At("URL_PARAM_VALUE", req, p + 2, p + 3))
  <2>1. p + 4 <= Len(msg) =>
          Advance(At("BEFORE_URL_PARAM_VALUE", req, p + 2, p + 3), msg, p + 4) =
            At("URL_PARAM_VALUE", req, p + 2, p + 3)
    BY <1>0, ParamMoves DEF Follow, Reads
  <2>2. p + 4 = (p + 3) + 1 /\ p + 3 \in Nat
    OBVIOUS
  <2> QED BY <1>3, <2>1, <2>2, OneMore
<1>5. {"BEFORE_URL_PARAM_KEY", "URL_PARAM_KEY", "BEFORE_URL_PARAM_VALUE", "URL_PARAM_VALUE"}
        \subseteq Inner
  BY DEF Inner
<1> QED BY <1>1, <1>2, <1>3, <1>4, <1>5, ReachesInside

\* What the request learns where a path without parameters ends, or a parameter.
LEMMA PathEnds ==
  ASSUME NEW msg \in Seq(Symbols), NEW p \in Nat, p + 3 <= Len(msg),
         msg[p + 1] = "/", msg[p + 2] = "path", NEW m, NEW k
  PROVE  LET c == At("IN_URL", Asks(m), p + 1, k)
         IN  /\ msg[p + 3] = "?" =>
                  Advance(c, msg, p + 3) = At("BEFORE_URL_PARAM_KEY", Locates(m, {}), p + 4, k)
             /\ msg[p + 3] = "SP" =>
                  Advance(c, msg, p + 3) = At("BEFORE_PROTOCOL", Locates(m, {}), p + 4, k)
<1>1. SubSeq(msg, p + 1, (p + 3) - 1) = Path
  BY TwoSymbols DEF Path
<1>2. p + 3 \in 1 .. Len(msg) /\ (p + 3) + 1 = p + 4 /\ Len(msg) \in Nat
  OBVIOUS
<1>3. WithUrl(Asks(m), Path) = Locates(m, {})
  BY RequestGrows
<1> DEFINE c == At("IN_URL", Asks(m), p + 1, k)
           req == WithUrl(Asks(m), SubSeq(msg, p + 1, (p + 3) - 1))
<1>4. msg[p + 3] = "?" => Advance(c, msg, p + 3) = At("BEFORE_URL_PARAM_KEY", req, (p + 3) + 1, k)
  BY <1>2, ParamMoves
<1>5. msg[p + 3] = "SP" => Advance(c, msg, p + 3) = At("BEFORE_PROTOCOL", req, (p + 3) + 1, k)
  BY <1>2, LineMoves
<1>6. req = Locates(m, {})
  BY <1>1, <1>3
<1> HIDE DEF c, req
<1>7. /\ msg[p + 3] = "?" =>
           Advance(c, msg, p + 3) = At("BEFORE_URL_PARAM_KEY", Locates(m, {}), p + 4, k)
      /\ msg[p + 3] = "SP" =>
           Advance(c, msg, p + 3) = At("BEFORE_PROTOCOL", Locates(m, {}), p + 4, k)
  BY <1>2, <1>4, <1>5, <1>6
<1> QED BY <1>7 DEF c

LEMMA ParamEnds ==
  ASSUME NEW msg \in Seq(Symbols), NEW p \in Nat, p + 4 <= Len(msg),
         NEW key, NEW value, msg[p + 1] = key, msg[p + 3] = value, NEW m, NEW ps, NEW qs,
         PutPair(ps, <<key>>, <<value>>) = qs
  PROVE  LET c == At("URL_PARAM_VALUE", Locates(m, ps), p + 1, p + 2)
         IN  /\ msg[p + 4] = "&" =>
                  Advance(c, msg, p + 4) = At("BEFORE_URL_PARAM_KEY", Locates(m, qs), p + 5, p + 2)
             /\ msg[p + 4] = "SP" =>
                  Advance(c, msg, p + 4) = At("BEFORE_PROTOCOL", Locates(m, qs), p + 5, p + 2)
<1>1. SubSeq(msg, p + 1, (p + 2) - 1) = <<key>>
  BY OneSymbol
<1>2. SubSeq(msg, (p + 2) + 1, (p + 4) - 1) = <<value>>
  BY OneSymbol
<1>3. p + 4 \in 1 .. Len(msg) /\ (p + 4) + 1 = p + 5 /\ Len(msg) \in Nat
  OBVIOUS
<1>4. WithParams(Locates(m, ps), PutPair(Locates(m, ps).params, <<key>>, <<value>>)) = Locates(m, qs)
  BY RequestGrows, ZenonT(60)
<1> DEFINE c == At("URL_PARAM_VALUE", Locates(m, ps), p + 1, p + 2)
           req == WithParams(Locates(m, ps),
                    PutPair(Locates(m, ps).params, SubSeq(msg, p + 1, (p + 2) - 1),
                            SubSeq(msg, (p + 2) + 1, (p + 4) - 1)))
<1>5. msg[p + 4] = "&" =>
        Advance(c, msg, p + 4) = At("BEFORE_URL_PARAM_KEY", req, (p + 4) + 1, p + 2)
  BY <1>3, ParamMoves
<1>6. msg[p + 4] = "SP" => Advance(c, msg, p + 4) = At("BEFORE_PROTOCOL", req, (p + 4) + 1, p + 2)
  BY <1>3, LineMoves
<1>7. req = Locates(m, qs)
  BY <1>1, <1>2, <1>4
<1> HIDE DEF c, req
<1>8. /\ msg[p + 4] = "&" =>
           Advance(c, msg, p + 4) = At("BEFORE_URL_PARAM_KEY", Locates(m, qs), p + 5, p + 2)
      /\ msg[p + 4] = "SP" =>
           Advance(c, msg, p + 4) = At("BEFORE_PROTOCOL", Locates(m, qs), p + 5, p + 2)
  BY <1>3, <1>5, <1>6, <1>7
<1> QED BY <1>8 DEF c
\* The rest of the first line.
LEMMA ReadsLine ==
  ASSUME NEW cx, NEW msg \in Seq(Symbols), NEW a, Follows(cx, msg, a),
         NEW p \in Nat, NEW c, Reaches(a, msg, p, c), NEW m, NEW ps, NEW k,
         NEW v \in {"1.0", "1.1"}, Follow(msg, p, "SP", "HTTP", "/", v),
         Reads(msg, p + 5, "CR"), Reads(msg, p + 6, "LF"),
         p + 1 <= Len(msg) =>
           Advance(c, msg, p + 1) = At("BEFORE_PROTOCOL", Locates(m, ps), p + 2, k)
  PROVE  /\ Inside(a, msg, p + 1) /\ Inside(a, msg, p + 2) /\ Inside(a, msg, p + 3)
         /\ Inside(a, msg, p + 4) /\ Inside(a, msg, p + 5) /\ Inside(a, msg, p + 6)
         /\ Reaches(a, msg, p + 6, At("CR_LF", Tells(m, ps, v, {}), p + 7, k))
<1>0. Len(msg) \in Nat
  OBVIOUS
<1>1. Reaches(a, msg, p + 1, At("BEFORE_PROTOCOL", Locates(m, ps), p + 2, k))
  BY OneMore
<1>2. Reaches(a, msg, p + 2, At("PROTOCOL", Locates(m, ps), p + 2, k))
  <2>1. p + 2 <= Len(msg) =>
          Advance(At("BEFORE_PROTOCOL", Locates(m, ps), p + 2, k), msg, p + 2) =
            At("PROTOCOL", Locates(m, ps), p + 2, k)
    BY <1>0, LineMoves DEF Follow, Reads
  <2>2. p + 2 = (p + 1) + 1 /\ p + 1 \in Nat
    OBVIOUS
  <2> QED BY <1>1, <2>1, <2>2, OneMore
<1>3. Reaches(a, msg, p + 3, At("BEFORE_VERSION", Tells(m, ps, "kUnknown", {}), p + 4, k))
  <2> DEFINE b == At("PROTOCOL", Locates(m, ps), p + 2, k)
             d == At("BEFORE_VERSION", Tells(m, ps, "kUnknown", {}), p + 4, k)
             req == WithProtocol(Locates(m, ps), SubSeq(msg, p + 2, (p + 3) - 1))
  <2>1. ASSUME p + 3 <= Len(msg) PROVE Advance(b, msg, p + 3) = d
    <3>1. msg[p + 3] = "/" /\ msg[p + 2] = "HTTP" /\ p + 3 \in 1 .. Len(msg)
      BY <2>1, <1>0 DEF Follow, Reads
    <3>2. SubSeq(msg, p + 2, (p + 3) - 1) = <<"HTTP">>
      BY <3>1, OneSymbol
    <3>3. Advance(b, msg, p + 3) = At("BEFORE_VERSION", req, (p + 3) + 1, k)
      BY <1>0, <3>1, LineMoves
    <3>4. req = Tells(m, ps, "kUnknown", {})
      BY <3>2, RequestGrows
    <3>5. (p + 3) + 1 = p + 4
      OBVIOUS
    <3> HIDE DEF req, b
    <3> QED BY <3>3, <3>4, <3>5
  <2>2. p + 3 = (p + 2) + 1 /\ p + 2 \in Nat
    OBVIOUS
  <2> HIDE DEF b, d
  <2>3. Reaches(a, msg, p + 2, b)
    BY <1>2 DEF b
  <2>4. Reaches(a, msg, p + 3, d)
    BY <2>1, <2>2, <2>3, OneMore
  <2> QED BY <2>4 DEF d
<1>4. Reaches(a, msg, p + 4, At("VERSION", Tells(m, ps, "kUnknown", {}), p + 4, k))
  <2>1. p + 4 <= Len(msg) =>
          Advance(At("BEFORE_VERSION", Tells(m, ps, "kUnknown", {}), p + 4, k), msg, p + 4) =
            At("VERSION", Tells(m, ps, "kUnknown", {}), p + 4, k)
    <3>1. SUFFICES ASSUME p + 4 <= Len(msg)
                   PROVE  Advance(At("BEFORE_VERSION", Tells(m, ps, "kUnknown", {}), p + 4, k), msg, p + 4) =
                            At("VERSION", Tells(m, ps, "kUnknown", {}), p + 4, k)
      OBVIOUS
    <3>2. msg[p + 4] \in {"1.0", "1.1"} /\ p + 4 \in 1 .. Len(msg)
      BY <1>0, <3>1 DEF Follow, Reads
    <3> QED BY <1>0, <3>2, LineMoves
  <2>2. p + 4 = (p + 3) + 1 /\ p + 3 \in Nat
    OBVIOUS
  <2> QED BY <1>3, <2>1, <2>2, OneMore
<1>5. Reaches(a, msg, p + 5, At("WHEN_CR", Tells(m, ps, v, {}), p + 6, k))
  <2> DEFINE b == At("VERSION", Tells(m, ps, "kUnknown", {}), p + 4, k)
             d == At("WHEN_CR", Tells(m, ps, v, {}), p + 6, k)
             req == WithVersion(Tells(m, ps, "kUnknown", {}), Version(SubSeq(msg, p + 4, (p + 5) - 1)))
  <2>1. ASSUME p + 5 <= Len(msg) PROVE Advance(b, msg, p + 5) = d
    <3>1. msg[p + 5] = "CR" /\ msg[p + 4] = v /\ p + 5 \in 1 .. Len(msg)
      BY <2>1, <1>0 DEF Follow, Reads
    <3>2. SubSeq(msg, p + 4, (p + 5) - 1) = <<v>>
      BY <3>1, OneSymbol
    <3>3. Version(<<v>>) = v
      BY DEF Version
    <3>4. Advance(b, msg, p + 5) = At("WHEN_CR", req, (p + 5) + 1, k)
      BY <1>0, <3>1, LineMoves
    <3>5. req = Tells(m, ps, v, {})
      BY <3>2, <3>3, RequestGrows, ZenonT(60)
    <3>6. (p + 5) + 1 = p + 6
      OBVIOUS
    <3> HIDE DEF req, b
    <3> QED BY <3>4, <3>5, <3>6
  <2>2. p + 5 = (p + 4) + 1 /\ p + 4 \in Nat
    OBVIOUS
  <2> HIDE DEF b, d
  <2>3. Reaches(a, msg, p + 4, b)
    BY <1>4 DEF b
  <2>4. Reaches(a, msg, p + 5, d)
    BY <2>1, <2>2, <2>3, OneMore
  <2> QED BY <2>4 DEF d
<1>6. Reaches(a, msg, p + 6, At("CR_LF", Tells(m, ps, v, {}), p + 7, k))
  <2>1. p + 6 <= Len(msg) =>
          Advance(At("WHEN_CR", Tells(m, ps, v, {}), p + 6, k), msg, p + 6) =
            At("CR_LF", Tells(m, ps, v, {}), (p + 6) + 1, k)
    BY <1>0, LineMoves DEF Reads
  <2>2. p + 6 = (p + 5) + 1 /\ p + 5 \in Nat /\ (p + 6) + 1 = p + 7
    OBVIOUS
  <2> QED BY <1>5, <2>1, <2>2, OneMore
<1>7. {"BEFORE_PROTOCOL", "PROTOCOL", "BEFORE_VERSION", "VERSION", "WHEN_CR", "CR_LF"} \subseteq Inner
  BY DEF Inner
<1> QED BY <1>1, <1>2, <1>3, <1>4, <1>5, <1>6, <1>7, ReachesInside

\* One header.
LEMMA ReadsHeader ==
  ASSUME NEW cx, NEW msg \in Seq(Symbols), NEW a, Follows(cx, msg, a),
         NEW p \in Nat, NEW m, NEW ps, NEW v, NEW hs, NEW k,
         Reaches(a, msg, p, At("CR_LF", Tells(m, ps, v, hs), p + 1, k)),
         NEW key, NEW value, key \notin Blank, value \notin Blank,
         Follow(msg, p, key, ":", "SP", value),
         Reads(msg, p + 5, "CR"), Reads(msg, p + 6, "LF"),
         NEW gs, PutPair(hs, <<key>>, <<value>>) = gs
  PROVE  /\ Inside(a, msg, p + 1) /\ Inside(a, msg, p + 2) /\ Inside(a, msg, p + 3)
         /\ Inside(a, msg, p + 4) /\ Inside(a, msg, p + 5) /\ Inside(a, msg, p + 6)
         /\ Reaches(a, msg, p + 6, At("CR_LF", Tells(m, ps, v, gs), p + 7, p + 2))
<1> DEFINE req == Tells(m, ps, v, hs)
<1> HIDE DEF req
<1>0. Len(msg) \in Nat /\ value # "CR"
  BY DEF Blank, Ends
<1>1. Reaches(a, msg, p + 1, At("HEADER_KEY", req, p + 1, k))
  <2>1. p + 1 <= Len(msg) =>
          Advance(At("CR_LF", req, p + 1, k), msg, p + 1) = At("HEADER_KEY", req, p + 1, k)
    BY <1>0, HeaderMoves DEF Follow, Reads
  <2> QED BY <2>1, OneMore DEF req
<1>2. Reaches(a, msg, p + 2, At("HEADER_VALUE", req, p + 1, p + 2))
  <2>1. p + 2 <= Len(msg) =>
          Advance(At("HEADER_KEY", req, p + 1, k), msg, p + 2) =
            At("HEADER_VALUE", req, p + 1, p + 2)
    BY <1>0, HeaderMoves DEF Follow, Reads
  <2>2. p + 2 = (p + 1) + 1 /\ p + 1 \in Nat
    OBVIOUS
  <2> QED BY <1>1, <2>1, <2>2, OneMore
<1>3. Reaches(a, msg, p + 3, At("HEADER_VALUE", req, p + 1, p + 2))
  <2>0. "SP" # "CR"
    OBVIOUS
  <2>1. p + 3 <= Len(msg) =>
          Advance(At("HEADER_VALUE", req, p + 1, p + 2), msg, p + 3) =
            At("HEADER_VALUE", req, p + 1, p + 2)
    BY <1>0, <2>0, HeaderMoves DEF Follow, Reads
  <2>2. p + 3 = (p + 2) + 1 /\ p + 2 \in Nat
    OBVIOUS
  <2> QED BY <1>2, <2>1, <2>2, OneMore
<1>4. Reaches(a, msg, p + 4, At("HEADER_VALUE", req, p + 1, p + 2))
  <2>1. p + 4 <= Len(msg) =>
          Advance(At("HEADER_VALUE", req, p + 1, p + 2), msg, p + 4) =
            At("HEADER_VALUE", req, p + 1, p + 2)
    BY <1>0, HeaderMoves DEF Follow, Reads
  <2>2. p + 4 = (p + 3) + 1 /\ p + 3 \in Nat
    OBVIOUS
  <2> QED BY <1>3, <2>1, <2>2, OneMore
<1>5. Reaches(a, msg, p + 5, At("WHEN_CR", Tells(m, ps, v, gs), p + 6, p + 2))
  <2> DEFINE b == At("HEADER_VALUE", req, p + 1, p + 2)
             d == At("WHEN_CR", Tells(m, ps, v, gs), p + 6, p + 2)
             more == WithHeaders(req, PutPair(req.headers, SubSeq(msg, p + 1, (p + 2) - 1),
                                              SubSeq(msg, (p + 2) + 2, (p + 5) - 1)))
  <2>1. ASSUME p + 5 <= Len(msg) PROVE Advance(b, msg, p + 5) = d
    <3>1. /\ msg[p + 5] = "CR" /\ msg[p + 4] = value /\ msg[p + 1] = key
          /\ p + 5 \in 1 .. Len(msg)
      BY <2>1, <1>0 DEF Follow, Reads
    <3>2. SubSeq(msg, p + 1, (p + 2) - 1) = <<key>>
      BY <3>1, OneSymbol
    <3>3. SubSeq(msg, (p + 2) + 2, (p + 5) - 1) = <<value>>
      BY <3>1, OneSymbol
    <3>4. Advance(b, msg, p + 5) = At("WHEN_CR", more, (p + 5) + 1, p + 2)
      BY <1>0, <3>1, HeaderMoves
    <3>5. req.headers = hs
      BY DEF req, Tells, Told
    <3>6. more = Tells(m, ps, v, gs)
      <4>1. WithHeaders(req, gs) = Tells(m, ps, v, gs)
        BY RequestGrows DEF req
      <4>2. PutPair(req.headers, SubSeq(msg, p + 1, (p + 2) - 1), SubSeq(msg, (p + 2) + 2, (p + 5) - 1)) =
              gs
        BY <3>2, <3>3, <3>5
      <4> QED BY <4>1, <4>2
    <3>7. (p + 5) + 1 = p + 6
      OBVIOUS
    <3> HIDE DEF more, b
    <3> QED BY <3>4, <3>6, <3>7
  <2>2. p + 5 = (p + 4) + 1 /\ p + 4 \in Nat
    OBVIOUS
  <2> HIDE DEF b, d
  <2>3. Reaches(a, msg, p + 4, b)
    BY <1>4 DEF b
  <2>4. Reaches(a, msg, p + 5, d)
    BY <2>1, <2>2, <2>3, OneMore
  <2> QED BY <2>4 DEF d
<1>6. Reaches(a, msg, p + 6, At("CR_LF", Tells(m, ps, v, gs), p + 7, p + 2))
  <2>1. p + 6 <= Len(msg) =>
          Advance(At("WHEN_CR", Tells(m, ps, v, gs), p + 6, p + 2), msg, p + 6) =
            At("CR_LF", Tells(m, ps, v, gs), (p + 6) + 1, p + 2)
    BY <1>0, LineMoves DEF Reads
  <2>2. p + 6 = (p + 5) + 1 /\ p + 5 \in Nat /\ (p + 6) + 1 = p + 7
    OBVIOUS
  <2> QED BY <1>5, <2>1, <2>2, OneMore
<1>7. {"HEADER_KEY", "HEADER_VALUE", "WHEN_CR", "CR_LF"} \subseteq Inner
  BY DEF Inner
<1> QED BY <1>1, <1>2, <1>3, <1>4, <1>5, <1>6, <1>7, ReachesInside

\* The empty line.
LEMMA ReadsEnd ==
  ASSUME NEW cx, NEW msg \in Seq(Symbols), NEW a, Follows(cx, msg, a),
         NEW p \in Nat, NEW req, NEW k, Reaches(a, msg, p, At("CR_LF", req, p + 1, k)),
         Reads(msg, p + 1, "CR"), Reads(msg, p + 2, "LF")
  PROVE  /\ Inside(a, msg, p + 1)
         /\ Reaches(a, msg, p + 2, At(AfterHead(req, TRUE), req, p + 3, k))
<1>0. Len(msg) \in Nat
  OBVIOUS
<1>1. Reaches(a, msg, p + 1, At("CR_LF_CR", req, p + 1, k))
  <2>1. p + 1 <= Len(msg) =>
          Advance(At("CR_LF", req, p + 1, k), msg, p + 1) = At("CR_LF_CR", req, p + 1, k)
    BY <1>0, HeaderMoves DEF Reads
  <2> QED BY <2>1, OneMore
<1>2. Inside(a, msg, p + 1)
  BY <1>1, ReachesInside DEF Inner
<1>3. ASSUME p + 2 <= Len(msg)
      PROVE  Advance(At("CR_LF_CR", req, p + 1, k), msg, p + 2) =
               At(AfterHead(req, TRUE), req, p + 3, k)
  <2> DEFINE nx == AfterHead(req, TRUE)
             left == Len(msg) - (p + 2) + 1
  <2>1. p + 2 \in 1 .. Len(msg) /\ left > 0 /\ (p + 2) + 1 = p + 3
    BY <1>0, <1>3
  <2>2. nx = "BODY" \/ nx = "COMPLETE"
    BY DEF AfterHead
  <2>3. nx = NextState("CR_LF_CR", msg[p + 2], req, left)
    BY <1>3, <2>1, BodyStates DEF Reads
  <2>4. Learnt(At("CR_LF_CR", req, p + 1, k), nx, msg, p + 2) = req
    BY DEF Learnt, At
  <2> HIDE DEF nx
  <2>5. StartOf("CR_LF_CR", nx, p + 1, p + 2) = (p + 2) + 1
    <3>1. /\ StartOf("CR_LF_CR", "BODY", p + 1, p + 2) = (p + 2) + 1
          /\ StartOf("CR_LF_CR", "COMPLETE", p + 1, p + 2) = (p + 2) + 1
      BY StartMoves
    <3> QED BY <2>2, <3>1
  <2>6. ColonOf("CR_LF_CR", nx, k, p + 2) = k
    <3>1. /\ ColonOf("CR_LF_CR", "BODY", k, p + 2) = k
          /\ ColonOf("CR_LF_CR", "COMPLETE", k, p + 2) = k
      BY ColonMoves
    <3> QED BY <2>2, <3>1
  <2>7. Advance(At("CR_LF_CR", req, p + 1, k), msg, p + 2) =
          At(nx, Learnt(At("CR_LF_CR", req, p + 1, k), nx, msg, p + 2),
             StartOf("CR_LF_CR", nx, p + 1, p + 2), ColonOf("CR_LF_CR", nx, k, p + 2))
    BY <1>0, <2>1, <2>3, AdvanceAt
  <2> QED BY <2>1, <2>4, <2>5, <2>6, <2>7 DEF nx
<1>4. p + 2 = (p + 1) + 1 /\ p + 1 \in Nat
  OBVIOUS
<1> QED BY <1>1, <1>2, <1>3, <1>4, OneMore
-----------------------------------------------------------------------------
(* A whole head                                                            *)

\* The first n of these pairs, as the parser keeps them.
PairsIn(pairs, n) == {<< <<pairs[i][1]>>, <<pairs[i][2]>> >> : i \in 1 .. n}

LEMMA FieldProperties ==
  ASSUME NEW pairs, AreFields(pairs)
  PROVE  /\ Len(pairs) \in Nat /\ DOMAIN pairs = 1 .. Len(pairs)
         /\ \A i \in 1 .. Len(pairs) :
              /\ pairs[i][1] \in STRING /\ pairs[i][2] \in STRING
              /\ pairs[i][1] \notin Blank /\ pairs[i][2] \notin Blank
         /\ \A i, j \in 1 .. Len(pairs) : pairs[i][1] = pairs[j][1] => i = j
<1>1. pairs \in Seq(STRING \X STRING) /\ DOMAIN pairs = 1 .. Len(pairs)
  BY DEF AreFields
<1>2. ASSUME NEW i \in 1 .. Len(pairs)
      PROVE  /\ pairs[i][1] \in STRING /\ pairs[i][2] \in STRING
             /\ pairs[i][1] \notin Blank /\ pairs[i][2] \notin Blank
  <2>1. pairs[i] \in STRING \X STRING
    BY <1>1, ElementOfSeq
  <2>2. {pairs[i][1], pairs[i][2]} \cap (Ends \cup {"SP"}) = {}
    BY <1>1 DEF AreFields
  <2> QED BY <2>1, <2>2 DEF Blank
<1> QED BY <1>1, <1>2 DEF AreFields

\* A name that is new takes no other one's place.
LEMMA PutNext ==
  ASSUME NEW pairs, AreFields(pairs), NEW n \in Nat, n + 1 <= Len(pairs)
  PROVE  PutPair(PairsIn(pairs, n), <<pairs[n + 1][1]>>, <<pairs[n + 1][2]>>) = PairsIn(pairs, n + 1)
<1>1. ASSUME NEW e \in PairsIn(pairs, n) PROVE e[1] # <<pairs[n + 1][1]>>
  <2>1. PICK i \in 1 .. n : e = << <<pairs[i][1]>>, <<pairs[i][2]>> >>
    BY DEF PairsIn
  <2>2. e[1] = <<pairs[i][1]>>
    BY <2>1
  <2>3. i \in 1 .. Len(pairs) /\ n + 1 \in 1 .. Len(pairs) /\ i # n + 1
    BY FieldProperties
  <2>4. pairs[i][1] # pairs[n + 1][1]
    BY <2>3, FieldProperties
  <2> QED BY <2>2, <2>4
<1>2. PutPair(PairsIn(pairs, n), <<pairs[n + 1][1]>>, <<pairs[n + 1][2]>>) =
        PairsIn(pairs, n) \cup {<< <<pairs[n + 1][1]>>, <<pairs[n + 1][2]>> >>}
  BY <1>1 DEF PutPair
<1>3. PairsIn(pairs, n + 1) =
        PairsIn(pairs, n) \cup {<< <<pairs[n + 1][1]>>, <<pairs[n + 1][2]>> >>}
  <2>1. 1 .. n + 1 = 1 .. n \cup {n + 1}
    OBVIOUS
  <2> QED BY <2>1, Zenon DEF PairsIn
<1> QED BY <1>2, <1>3

\* What RequestAssumption says of a request.
WellFormed(r) ==
  /\ r.method \in Methods /\ r.version \in {"1.0", "1.1"}
  /\ AreFields(r.params) /\ AreFields(r.headers)
  /\ r.body \in Seq(STRING) /\ ContentLength(Meant(r)) = Len(r.body)

\* The symbols of a read that begins with a head.
ReadsHeadOf(msg, r) ==
  LET n == Len(r.params)
      h == Len(r.headers)
  IN  /\ Follow(msg, 0, r.method, "SP", "/", "path")
      /\ \A j \in 0 .. n - 1 :
           Follow(msg, 4 + 4 * j, IF j = 0 THEN "?" ELSE "&",
                  r.params[j + 1][1], "=", r.params[j + 1][2])
      /\ Follow(msg, 4 + 4 * n, "SP", "HTTP", "/", r.version)
      /\ Reads(msg, 9 + 4 * n, "CR") /\ Reads(msg, 10 + 4 * n, "LF")
      /\ \A j \in 0 .. h - 1 :
           LET p == 10 + 4 * n + 6 * j
           IN  /\ Follow(msg, p, r.headers[j + 1][1], ":", "SP", r.headers[j + 1][2])
               /\ Reads(msg, p + 5, "CR") /\ Reads(msg, p + 6, "LF")
      /\ Reads(msg, 11 + 4 * n + 6 * h, "CR") /\ Reads(msg, 12 + 4 * n + 6 * h, "LF")

HeadSize(r) == 12 + 4 * Len(r.params) + 6 * Len(r.headers)

\* Behind the path and j parameters.
UrlAt(r, j) ==
  IF j = 0 THEN At("IN_URL", Asks(r.method), 3, 1)
  ELSE At("URL_PARAM_VALUE", Locates(r.method, PairsIn(r.params, j - 1)), 4 * j + 2, 4 * j + 3)

\* What follows there.
LEMMA UrlEnds ==
  ASSUME NEW r, WellFormed(r), NEW msg \in Seq(Symbols), ReadsHeadOf(msg, r),
         NEW j \in 0 .. Len(r.params), 5 + 4 * j <= Len(msg)
  PROVE  \E k : LET ps == PairsIn(r.params, j)
                    i == 5 + 4 * j
                IN  /\ msg[i] = (IF j = 0 THEN "?" ELSE "&") =>
                         Advance(UrlAt(r, j), msg, i) =
                           At("BEFORE_URL_PARAM_KEY", Locates(r.method, ps), i + 1, k)
                    /\ msg[i] = "SP" =>
                         Advance(UrlAt(r, j), msg, i) =
                           At("BEFORE_PROTOCOL", Locates(r.method, ps), i + 1, k)
<1>1. CASE j = 0
  <2>1. PICK p \in Nat : p = 2
    OBVIOUS
  <2>2. /\ p + 3 <= Len(msg) /\ p + 3 = 5 + 4 * j /\ p + 4 = (5 + 4 * j) + 1
        /\ p + 1 = 3 /\ p + 1 = 0 + 3 /\ p + 2 = 0 + 4
    BY <1>1, <2>1
  <2>3. msg[p + 1] = "/" /\ msg[p + 2] = "path"
    BY <2>2 DEF ReadsHeadOf, Follow, Reads
  <2>4. PairsIn(r.params, j) = {}
    BY <1>1 DEF PairsIn
  <2> DEFINE c == At("IN_URL", Asks(r.method), p + 1, 1)
  <2>5. UrlAt(r, j) = c
    BY <1>1, <2>2 DEF UrlAt
  <2>6. /\ msg[p + 3] = "?" =>
             Advance(c, msg, p + 3) = At("BEFORE_URL_PARAM_KEY", Locates(r.method, {}), p + 4, 1)
        /\ msg[p + 3] = "SP" =>
             Advance(c, msg, p + 3) = At("BEFORE_PROTOCOL", Locates(r.method, {}), p + 4, 1)
    <3>1. p + 3 <= Len(msg)
      BY <2>2
    <3> QED BY <2>3, <3>1, PathEnds
  <2> HIDE DEF c
  <2> QED BY <1>1, <2>2, <2>4, <2>5, <2>6
<1>2. CASE j # 0
  <2> DEFINE p == 4 * j + 1
             key == r.params[j][1]
             value == r.params[j][2]
  <2>0. Len(r.params) \in Nat
    BY FieldProperties DEF WellFormed
  <2>1. /\ p \in Nat /\ p + 4 <= Len(msg) /\ p + 4 = 5 + 4 * j /\ p + 5 = (5 + 4 * j) + 1
        /\ p + 1 = 4 * j + 2 /\ p + 2 = 4 * j + 3 /\ p + 3 = 4 * j + 4
    BY <1>2, <2>0
  <2>2. Follow(msg, 4 + 4 * (j - 1), IF j - 1 = 0 THEN "?" ELSE "&", r.params[(j - 1) + 1][1], "=",
               r.params[(j - 1) + 1][2])
    <3>1. j - 1 \in 0 .. Len(r.params) - 1
      BY <1>2, <2>0
    <3> QED BY <3>1 DEF ReadsHeadOf
  <2>3. msg[p + 1] = key /\ msg[p + 3] = value
    <3>1. (j - 1) + 1 = j /\ (4 + 4 * (j - 1)) + 2 = p + 1 /\ (4 + 4 * (j - 1)) + 4 = p + 3
      OBVIOUS
    <3>2. p + 1 <= Len(msg) /\ p + 3 <= Len(msg)
      BY <2>1
    <3> HIDE DEF p
    <3> QED BY <2>2, <3>1, <3>2 DEF Follow, Reads
  <2>4. PutPair(PairsIn(r.params, j - 1), <<key>>, <<value>>) = PairsIn(r.params, j)
    <3>1. j - 1 \in Nat /\ (j - 1) + 1 <= Len(r.params) /\ (j - 1) + 1 = j
      BY <1>2, <2>0
    <3> QED BY <3>1, PutNext DEF WellFormed
  <2>5. UrlAt(r, j) =
          At("URL_PARAM_VALUE", Locates(r.method, PairsIn(r.params, j - 1)), p + 1, p + 2)
    BY <1>2, <2>1 DEF UrlAt
  <2> HIDE DEF p, key, value
  <2> DEFINE c == At("URL_PARAM_VALUE", Locates(r.method, PairsIn(r.params, j - 1)), p + 1, p + 2)
             qs == PairsIn(r.params, j)
  <2>6. /\ msg[p + 4] = "&" =>
             Advance(c, msg, p + 4) = At("BEFORE_URL_PARAM_KEY", Locates(r.method, qs), p + 5, p + 2)
        /\ msg[p + 4] = "SP" =>
             Advance(c, msg, p + 4) = At("BEFORE_PROTOCOL", Locates(r.method, qs), p + 5, p + 2)
    BY <2>1, <2>3, <2>4, ParamEnds
  <2> HIDE DEF c, qs
  <2>7. UrlAt(r, j) = c
    BY <2>5 DEF c
  <2> QED BY <1>2, <2>1, <2>6, <2>7 DEF qs
<1> QED BY <1>1, <1>2
LEMMA RestartsAt ==
  ASSUME NEW st, NEW req, NEW s, NEW k
  PROVE  Restart(At(st, req, s, k)) = At(st, req, 1, 1)
<1>1. Restart(At(st, req, s, k)) = [[At(st, req, s, k) EXCEPT !.start = 1] EXCEPT !.colon = 1]
  BY DEF Restart
<1>2. \A x : [At(st, req, s, k) EXCEPT !.start = x] = At(st, req, x, k)
  BY DEF At
<1>3. \A x : [At(st, req, 1, k) EXCEPT !.colon = x] = At(st, req, 1, x)
  BY DEF At
<1> QED BY <1>1, <1>2, <1>3

\* Where a trace of a request begins.
LEMMA TraceBegins ==
  ASSUME NEW msg, NEW a, Follows(NewContext, msg, a)
  PROVE  Reaches(a, msg, 0, At("START", NewRequest, 1, 1)) /\ Inside(a, msg, 0)
<1>1. Len(msg) \in Nat /\ 0 \in 0 .. Len(msg) + 1
  BY DEF Follows
<1>2. a[0] = Restart(NewContext)
  BY <1>1 DEF Follows, Trace
<1>3. Restart(NewContext) = At("START", NewRequest, 1, 1)
  <2>1. NewContext = At("START", NewRequest, 1, 1)
    BY DEF NewContext, At
  <2> QED BY <2>1, RestartsAt
<1>4. Reaches(a, msg, 0, At("START", NewRequest, 1, 1))
  BY <1>2, <1>3 DEF Reaches
<1> QED BY <1>4, ReachesInside DEF Inner

\* The path and the parameters.
LEMMA ReadsUrl ==
  ASSUME NEW r, WellFormed(r), NEW msg \in Seq(Symbols), NEW a, Follows(NewContext, msg, a),
         ReadsHeadOf(msg, r)
  PROVE  \A j \in 0 .. Len(r.params) :
           /\ Reaches(a, msg, 4 + 4 * j, UrlAt(r, j))
           /\ \A p \in 0 .. 4 + 4 * j : Inside(a, msg, p)
<1> DEFINE n == Len(r.params)
           Good == {j \in Nat : j <= n =>
                      /\ Reaches(a, msg, 4 + 4 * j, UrlAt(r, j))
                      /\ \A p \in 0 .. 4 + 4 * j : Inside(a, msg, p)}
<1>0. n \in Nat /\ Len(msg) \in Nat
  BY FieldProperties DEF WellFormed
<1> HIDE DEF n
<1>1. 0 \in Good
  <2>1. PICK b \in Nat : b = 0
    OBVIOUS
  <2>2. Reaches(a, msg, b, At("START", NewRequest, b + 1, 1)) /\ Inside(a, msg, b)
    <3>1. b = 0 /\ b + 1 = 1
      BY <2>1
    <3> QED BY <3>1, TraceBegins
  <2>3. Follow(msg, b, r.method, "SP", "/", "path") /\ r.method \in Methods
    BY <2>1 DEF ReadsHeadOf, WellFormed
  <2>4. /\ Inside(a, msg, b + 1) /\ Inside(a, msg, b + 2)
        /\ Inside(a, msg, b + 3) /\ Inside(a, msg, b + 4)
        /\ Reaches(a, msg, b + 4, At("IN_URL", Asks(r.method), b + 3, 1))
    BY <2>2, <2>3, ReadsPath
  <2>5. Reaches(a, msg, 4, UrlAt(r, 0))
    <3>1. b + 4 = 4 /\ b + 3 = 3
      BY <2>1
    <3> QED BY <2>4, <3>1 DEF UrlAt
  <2>6. \A p \in 0 .. 4 : Inside(a, msg, p)
    <3> TAKE p \in 0 .. 4
    <3>1. p = b \/ p = b + 1 \/ p = b + 2 \/ p = b + 3 \/ p = b + 4
      BY <2>1
    <3> QED BY <2>2, <2>4, <3>1
  <2>7. 4 + 4 * 0 = 4
    OBVIOUS
  <2> QED BY <2>5, <2>6, <2>7
<1>2. ASSUME NEW j \in Good PROVE j + 1 \in Good
  <2>0. j \in Nat
    OBVIOUS
  <2> SUFFICES ASSUME j + 1 <= n
               PROVE  /\ Reaches(a, msg, 4 + 4 * (j + 1), UrlAt(r, j + 1))
                      /\ \A p \in 0 .. 4 + 4 * (j + 1) : Inside(a, msg, p)
    BY <2>0
  <2> DEFINE b == 4 + 4 * j
             sep == IF j = 0 THEN "?" ELSE "&"
             ps == PairsIn(r.params, j)
             key == r.params[j + 1][1]
             value == r.params[j + 1][2]
  <2>1. Reaches(a, msg, b, UrlAt(r, j)) /\ \A p \in 0 .. b : Inside(a, msg, p)
    BY <1>0
  <2> HIDE DEF Good
  <2>2. b \in Nat /\ b + 1 = 5 + 4 * j /\ b + 4 = 4 + 4 * (j + 1) /\ (5 + 4 * j) + 1 = b + 2
    BY <2>0
  <2>3. Follow(msg, b, sep, key, "=", value)
    <3>1. j \in 0 .. n - 1
      BY <1>0, <2>0
    <3> QED BY <3>1 DEF ReadsHeadOf, n
  <2>4. key \notin Blank /\ value \notin Blank
    <3>1. j + 1 \in 1 .. n
      BY <1>0, <2>0
    <3> QED BY <3>1, FieldProperties DEF WellFormed, n
  <2>5. PICK k : b + 1 <= Len(msg) =>
                   Advance(UrlAt(r, j), msg, b + 1) =
                     At("BEFORE_URL_PARAM_KEY", Locates(r.method, ps), b + 2, k)
    <3>1. CASE b + 1 <= Len(msg)
      <4>1. msg[5 + 4 * j] = sep /\ 5 + 4 * j <= Len(msg) /\ j \in 0 .. Len(r.params)
        BY <1>0, <2>0, <2>2, <2>3, <3>1 DEF Follow, Reads, n
      <4>2. \E k : Advance(UrlAt(r, j), msg, 5 + 4 * j) =
                     At("BEFORE_URL_PARAM_KEY", Locates(r.method, ps), (5 + 4 * j) + 1, k)
        BY <4>1, UrlEnds
      <4> QED BY <2>2, <4>2
    <3>2. CASE ~(b + 1 <= Len(msg))
      BY <3>2
    <3> QED BY <3>1, <3>2
  <2> HIDE DEF b, sep, ps, key, value
  <2>6. /\ Inside(a, msg, b + 1) /\ Inside(a, msg, b + 2)
        /\ Inside(a, msg, b + 3) /\ Inside(a, msg, b + 4)
        /\ Reaches(a, msg, b + 4, At("URL_PARAM_VALUE", Locates(r.method, ps), b + 2, b + 3))
    BY <2>1, <2>2, <2>3, <2>4, <2>5, ReadsParam
  <2>7. UrlAt(r, j + 1) = At("URL_PARAM_VALUE", Locates(r.method, ps), b + 2, b + 3)
    <3>1. j + 1 # 0 /\ (j + 1) - 1 = j /\ 4 * (j + 1) + 2 = b + 2 /\ 4 * (j + 1) + 3 = b + 3
      BY <2>0 DEF b
    <3> QED BY <3>1 DEF UrlAt, ps
  <2>8. \A p \in 0 .. b + 4 : Inside(a, msg, p)
    <3> TAKE p \in 0 .. b + 4
    <3>1. p \in 0 .. b \/ p = b + 1 \/ p = b + 2 \/ p = b + 3 \/ p = b + 4
      BY <2>2
    <3> QED BY <2>1, <2>6, <3>1
  <2> QED BY <2>2, <2>6, <2>7, <2>8
<1> HIDE DEF Good
<1>3. Good = Nat
  BY <1>1, <1>2, SetInduction DEF Good
<1>4. ASSUME NEW j \in 0 .. n
      PROVE  /\ Reaches(a, msg, 4 + 4 * j, UrlAt(r, j))
             /\ \A p \in 0 .. 4 + 4 * j : Inside(a, msg, p)
  <2>1. j \in Good /\ j <= n
    BY <1>0, <1>3
  <2> QED BY <2>1 DEF Good
<1> QED BY <1>4 DEF n
LEMMA HeadSizeIs ==
  ASSUME NEW r, WellFormed(r)
  PROVE  /\ HeadSize(r) \in Nat /\ HeadSize(r) >= 12 /\ HeadSize(r) - 2 \in Nat
         /\ HeadSize(r) - 2 = 10 + 4 * Len(r.params) + 6 * Len(r.headers)
<1> DEFINE n == Len(r.params)
           h == Len(r.headers)
<1>1. n \in Nat /\ h \in Nat
  BY FieldProperties DEF WellFormed
<1>2. HeadSize(r) = 12 + 4 * n + 6 * h
  BY DEF HeadSize
<1> HIDE DEF n, h
<1>3. /\ HeadSize(r) \in Nat /\ HeadSize(r) >= 12 /\ HeadSize(r) - 2 \in Nat
      /\ HeadSize(r) - 2 = 10 + 4 * n + 6 * h
  BY <1>1, <1>2
<1> QED BY <1>3 DEF n, h

\* The first line.
LEMMA ReadsFirstLine ==
  ASSUME NEW r, WellFormed(r), NEW msg \in Seq(Symbols), NEW a, Follows(NewContext, msg, a),
         ReadsHeadOf(msg, r)
  PROVE  LET p == 10 + 4 * Len(r.params)
         IN  /\ \E k : Reaches(a, msg, p,
                         At("CR_LF", Tells(r.method, PairsIn(r.params, Len(r.params)), r.version, {}),
                            p + 1, k))
             /\ \A i \in 0 .. p : Inside(a, msg, i)
<1> DEFINE n == Len(r.params)
           b == 4 + 4 * n
           c == UrlAt(r, n)
           ps == PairsIn(r.params, n)
           m == r.method
           v == r.version
<1>0. n \in Nat /\ Len(msg) \in Nat
  BY FieldProperties DEF WellFormed
<1>1. Reaches(a, msg, b, c) /\ \A i \in 0 .. b : Inside(a, msg, i)
  <2>1. n \in 0 .. Len(r.params)
    BY <1>0
  <2> QED BY <2>1, ReadsUrl
<1>2. /\ b \in Nat /\ b + 1 = 5 + 4 * n /\ (5 + 4 * n) + 1 = b + 2 /\ b + 5 = 9 + 4 * n
      /\ b + 6 = 10 + 4 * n /\ b + 7 = (10 + 4 * n) + 1
  BY <1>0
<1>3. /\ Follow(msg, b, "SP", "HTTP", "/", v) /\ Reads(msg, b + 5, "CR") /\ Reads(msg, b + 6, "LF")
      /\ v \in {"1.0", "1.1"}
  BY <1>2 DEF ReadsHeadOf, WellFormed
<1>4. PICK k : b + 1 <= Len(msg) =>
                 Advance(c, msg, b + 1) = At("BEFORE_PROTOCOL", Locates(m, ps), b + 2, k)
  <2>1. CASE b + 1 <= Len(msg)
    <3>1. msg[5 + 4 * n] = "SP" /\ 5 + 4 * n <= Len(msg) /\ n \in 0 .. Len(r.params)
      BY <1>0, <1>2, <1>3, <2>1 DEF Follow, Reads
    <3>2. \E k : Advance(c, msg, 5 + 4 * n) =
                   At("BEFORE_PROTOCOL", Locates(m, ps), (5 + 4 * n) + 1, k)
      BY <3>1, UrlEnds
    <3> QED BY <1>2, <3>2
  <2>2. CASE ~(b + 1 <= Len(msg))
    BY <2>2
  <2> QED BY <2>1, <2>2
<1> HIDE DEF n, b, c, ps, m, v
<1>5. /\ Inside(a, msg, b + 1) /\ Inside(a, msg, b + 2) /\ Inside(a, msg, b + 3)
      /\ Inside(a, msg, b + 4) /\ Inside(a, msg, b + 5) /\ Inside(a, msg, b + 6)
      /\ Reaches(a, msg, b + 6, At("CR_LF", Tells(m, ps, v, {}), b + 7, k))
  BY <1>1, <1>2, <1>3, <1>4, ReadsLine
<1>6. \A i \in 0 .. b + 6 : Inside(a, msg, i)
  <2> TAKE i \in 0 .. b + 6
  <2>1. \/ i \in 0 .. b \/ i = b + 1 \/ i = b + 2 \/ i = b + 3 \/ i = b + 4 \/ i = b + 5
        \/ i = b + 6
    BY <1>2
  <2> QED BY <1>1, <1>5, <2>1
<1>7. b + 6 = 10 + 4 * n /\ b + 7 = (10 + 4 * n) + 1
  BY <1>2
<1> QED BY <1>5, <1>6, <1>7 DEF n, ps, m, v

\* What the request knows behind its head.
HeadMeant(r) ==
  Tells(r.method, PairsIn(r.params, Len(r.params)), r.version,
        PairsIn(r.headers, Len(r.headers)))

LEMMA ReadsHeaders ==
  ASSUME NEW r, WellFormed(r), NEW msg \in Seq(Symbols), NEW a, Follows(NewContext, msg, a),
         ReadsHeadOf(msg, r)
  PROVE  LET p == HeadSize(r) - 2
         IN  /\ \E k : Reaches(a, msg, p, At("CR_LF", HeadMeant(r), p + 1, k))
             /\ \A i \in 0 .. p : Inside(a, msg, i)
<1> DEFINE n == Len(r.params)
           h == Len(r.headers)
           ps == PairsIn(r.params, n)
           m == r.method
           v == r.version
           P(j) == 10 + 4 * n + 6 * j
           Good == {j \in Nat : j <= h =>
                      /\ \E k : Reaches(a, msg, P(j),
                                  At("CR_LF", Tells(m, ps, v, PairsIn(r.headers, j)), P(j) + 1, k))
                      /\ \A i \in 0 .. P(j) : Inside(a, msg, i)}
<1>0. n \in Nat /\ h \in Nat /\ Len(msg) \in Nat
  BY FieldProperties DEF WellFormed
<1>1. 0 \in Good
  <2>1. P(0) = 10 + 4 * n
    BY <1>0
  <2>2. PairsIn(r.headers, 0) = {}
    BY DEF PairsIn
  <2> QED BY <2>1, <2>2, ReadsFirstLine
<1>2. ASSUME NEW j \in Good PROVE j + 1 \in Good
  <2>0. j \in Nat
    OBVIOUS
  <2> SUFFICES ASSUME j + 1 <= h
               PROVE  /\ \E k : Reaches(a, msg, P(j + 1),
                                  At("CR_LF", Tells(m, ps, v, PairsIn(r.headers, j + 1)), P(j + 1) + 1, k))
                      /\ \A i \in 0 .. P(j + 1) : Inside(a, msg, i)
    <3> HIDE DEF n, P, ps, m, v
    <3>1. j + 1 \in Nat
      BY <2>0
    <3> QED BY <3>1
  <2> DEFINE b == 10 + 4 * n + 6 * j
             hs == PairsIn(r.headers, j)
             gs == PairsIn(r.headers, j + 1)
             key == r.headers[j + 1][1]
             value == r.headers[j + 1][2]
  <2>1. /\ \E k : Reaches(a, msg, b, At("CR_LF", Tells(m, ps, v, hs), b + 1, k))
        /\ \A i \in 0 .. b : Inside(a, msg, i)
    <3>1. j <= h /\ P(j) = b
      <4> HIDE DEF n, ps, m, v
      <4> QED BY <1>0, <2>0
    <3> HIDE DEF n, ps, m, v, h
    <3> QED BY <3>1
  <2> HIDE DEF Good
  <2>2. b \in Nat /\ P(j + 1) = b + 6 /\ P(j + 1) + 1 = b + 7
    <3> HIDE DEF n
    <3> QED BY <1>0, <2>0
  <2>3. /\ Follow(msg, b, key, ":", "SP", value)
        /\ Reads(msg, b + 5, "CR") /\ Reads(msg, b + 6, "LF")
    <3>1. j \in 0 .. h - 1
      BY <1>0, <2>0
    <3> QED BY <3>1 DEF ReadsHeadOf
  <2>4. key \notin Blank /\ value \notin Blank
    <3>1. j + 1 \in 1 .. h
      BY <1>0, <2>0
    <3> QED BY <3>1, FieldProperties DEF WellFormed
  <2>5. PutPair(hs, <<key>>, <<value>>) = gs
    BY <1>0, <2>0, PutNext DEF WellFormed
  <2>6. PICK k : Reaches(a, msg, b, At("CR_LF", Tells(m, ps, v, hs), b + 1, k))
    BY <2>1
  <2> HIDE DEF b, hs, gs, key, value, ps, m, v, P
  <2>7. /\ Inside(a, msg, b + 1) /\ Inside(a, msg, b + 2) /\ Inside(a, msg, b + 3)
        /\ Inside(a, msg, b + 4) /\ Inside(a, msg, b + 5) /\ Inside(a, msg, b + 6)
        /\ Reaches(a, msg, b + 6, At("CR_LF", Tells(m, ps, v, gs), b + 7, b + 2))
    BY <2>2, <2>3, <2>4, <2>5, <2>6, ReadsHeader
  <2>8. \A i \in 0 .. b + 6 : Inside(a, msg, i)
    <3> TAKE i \in 0 .. b + 6
    <3>1. \/ i \in 0 .. b \/ i = b + 1 \/ i = b + 2 \/ i = b + 3 \/ i = b + 4 \/ i = b + 5
          \/ i = b + 6
      BY <2>2
    <3> QED BY <2>1, <2>7, <3>1
  <2> QED BY <2>2, <2>7, <2>8 DEF gs
<1>3. Good = Nat
  <2> HIDE DEF Good
  <2> QED BY <1>1, <1>2, SetInduction DEF Good
<1>4. /\ \E k : Reaches(a, msg, P(h), At("CR_LF", Tells(m, ps, v, PairsIn(r.headers, h)), P(h) + 1, k))
      /\ \A i \in 0 .. P(h) : Inside(a, msg, i)
  <2>1. h \in Good /\ h <= h
    <3> HIDE DEF Good
    <3> QED BY <1>0, <1>3
  <2> QED BY <2>1
<1>5. P(h) = HeadSize(r) - 2
  BY HeadSizeIs
<1> HIDE DEF P
<1> QED BY <1>4, <1>5 DEF HeadMeant

\* What a read of a request that begins it leads to: it stays inside the head,
\* up to the empty line.
LEMMA ReadsWholeHead ==
  ASSUME NEW r, WellFormed(r), NEW msg \in Seq(Symbols), NEW a, Follows(NewContext, msg, a),
         ReadsHeadOf(msg, r)
  PROVE  /\ \E k : Reaches(a, msg, HeadSize(r),
                     At(AfterHead(HeadMeant(r), TRUE), HeadMeant(r), HeadSize(r) + 1, k))
         /\ \A i \in 0 .. HeadSize(r) - 1 : Inside(a, msg, i)
<1> DEFINE p == HeadSize(r) - 2
           req == HeadMeant(r)
           n == Len(r.params)
           h == Len(r.headers)
<1>0. n \in Nat /\ h \in Nat
  BY FieldProperties DEF WellFormed
<1>1. /\ p \in Nat /\ p + 1 = HeadSize(r) - 1 /\ p + 2 = HeadSize(r) /\ p + 3 = HeadSize(r) + 1
      /\ p + 1 = 11 + 4 * n + 6 * h
      /\ p + 2 = 12 + 4 * n + 6 * h
  <2>1. HeadSize(r) \in Nat /\ p \in Nat /\ p = 10 + 4 * n + 6 * h
    BY HeadSizeIs
  <2> HIDE DEF n, h
  <2>2. /\ p + 1 = HeadSize(r) - 1 /\ p + 2 = HeadSize(r) /\ p + 3 = HeadSize(r) + 1
    BY <2>1
  <2>3. p + 1 = 11 + 4 * n + 6 * h /\ p + 2 = 12 + 4 * n + 6 * h
    <3> HIDE DEF p
    <3> QED BY <1>0, <2>1
  <2> QED BY <2>1, <2>2, <2>3
<1>2. Reads(msg, p + 1, "CR") /\ Reads(msg, p + 2, "LF")
  BY <1>1 DEF ReadsHeadOf
<1>3. PICK k : Reaches(a, msg, p, At("CR_LF", req, p + 1, k))
  BY ReadsHeaders
<1>4. \A i \in 0 .. p : Inside(a, msg, i)
  BY ReadsHeaders
<1> HIDE DEF p, req
<1>5. /\ Inside(a, msg, p + 1)
      /\ Reaches(a, msg, p + 2, At(AfterHead(req, TRUE), req, p + 3, k))
  BY <1>1, <1>2, <1>3, ReadsEnd
<1>6. \A i \in 0 .. p + 1 : Inside(a, msg, i)
  <2> TAKE i \in 0 .. p + 1
  <2>1. i \in 0 .. p \/ i = p + 1
    BY <1>1
  <2> QED BY <1>4, <1>5, <2>1
<1> QED BY <1>1, <1>5, <1>6 DEF req
-----------------------------------------------------------------------------
(* Behind the head                                                         *)

\* At the end of a read that ends inside a head.
LEMMA NulEnds ==
  ASSUME NEW st \in Inner, NEW req, NEW left
  PROVE  NextState(st, "NUL", req, left) \notin {"BODY", "COMPLETE"}
<1>1. CASE st \in {"START", "METHOD", "BEFORE_URL", "IN_URL", "BEFORE_URL_PARAM_KEY", "URL_PARAM_KEY"}
  BY <1>1 DEF NextState, Ends, Upper, Methods
<1>2. CASE st \in {"BEFORE_URL_PARAM_VALUE", "URL_PARAM_VALUE", "BEFORE_PROTOCOL", "PROTOCOL"}
  BY <1>2 DEF NextState, Ends
<1>3. CASE st \in {"BEFORE_VERSION", "VERSION", "WHEN_CR"}
  BY <1>3 DEF NextState, Digits
<1>4. CASE st \in {"CR_LF", "HEADER_KEY", "HEADER_VALUE", "CR_LF_CR"}
  BY <1>4 DEF NextState
<1> QED BY <1>1, <1>2, <1>3, <1>4 DEF Inner

LEMMA RefusesPart ==
  ASSUME NEW cx, NEW msg, NEW a, Follows(cx, msg, a), Inside(a, msg, Len(msg))
  PROVE  a[Len(msg) + 1].state \notin {"BODY", "COMPLETE"}
<1> DEFINE i == Len(msg) + 1
           c == a[Len(msg)]
<1>1. Len(msg) \in Nat /\ i \in 0 .. Len(msg) + 1 /\ i # 0 /\ i - 1 = Len(msg) /\ ~(i <= Len(msg))
  BY DEF Follows
<1>2. a[i] = Advance(c, msg, i)
  BY <1>1 DEF Follows, Trace
<1>3. c.state \in Inner
  BY <1>1 DEF Inside
<1>4. c.state \notin {"kINVALID", "COMPLETE"}
  BY <1>3 DEF Inner
<1> HIDE DEF c, i
<1>5. Advance(c, msg, i) = Step(c, msg, i)
  BY <1>4 DEF Advance
<1>6. Step(c, msg, i).state = NextState(c.state, "NUL", c.request, Len(msg) - i + 1)
  BY <1>1 DEF Step
<1> QED BY <1>2, <1>3, <1>5, <1>6, NulEnds DEF i

\* The loop has ended.
LEMMA StaysDone ==
  ASSUME NEW cx, NEW msg, NEW a, Follows(cx, msg, a), NEW i \in 0 .. Len(msg) + 1,
         a[i].state = "COMPLETE"
  PROVE  a[Len(msg) + 1] = a[i]
<1> DEFINE Good == {d \in Nat : i + d <= Len(msg) + 1 => a[i + d] = a[i]}
<1>0. Len(msg) \in Nat /\ i \in Nat
  BY DEF Follows
<1>1. 0 \in Good
  BY <1>0
<1>2. ASSUME NEW d \in Good PROVE d + 1 \in Good
  <2>1. d \in Nat
    OBVIOUS
  <2> SUFFICES ASSUME i + (d + 1) <= Len(msg) + 1 PROVE a[i + (d + 1)] = a[i]
    BY <2>1
  <2>2. a[i + d] = a[i]
    BY <1>0, <2>1
  <2>3. i + (d + 1) \in 0 .. Len(msg) + 1 /\ i + (d + 1) # 0 /\ (i + (d + 1)) - 1 = i + d
    BY <1>0, <2>1
  <2>4. a[i + (d + 1)] = Advance(a[i + d], msg, i + (d + 1))
    BY <2>3 DEF Follows, Trace
  <2> QED BY <2>2, <2>4 DEF Advance
<1>3. Good = Nat
  <2> HIDE DEF Good
  <2> QED BY <1>1, <1>2, SetInduction DEF Good
<1>4. Len(msg) + 1 - i \in Good /\ i + (Len(msg) + 1 - i) = Len(msg) + 1
  <2> HIDE DEF Good
  <2> QED BY <1>0, <1>3
<1> QED BY <1>0, <1>4

\* A character of the body, or the NUL behind it.
LEMMA BodyMoves ==
  ASSUME NEW msg, Len(msg) \in Nat, NEW i \in 1 .. Len(msg) + 1, NEW req, NEW s, NEW k
  PROVE  Advance(At("BODY", req, s, k), msg, i) =
           At(IF Len(msg) - i + 1 >= ContentLength(req) THEN "COMPLETE" ELSE "BODY",
              WithBody(req, SubSeq(msg, s, s + Len(msg) - i)), s, k)
<1> DEFINE c == At("BODY", req, s, k)
           left == Len(msg) - i + 1
           nx == IF left >= ContentLength(req) THEN "COMPLETE" ELSE "BODY"
<1>1. c.state = "BODY" /\ c.request = req /\ c.start = s /\ c.colon = k
  BY DEF At
<1>2. nx \in {"BODY", "COMPLETE"}
  OBVIOUS
<1>3. \A ch : NextState("BODY", ch, req, left) = nx
  BY BodyStates DEF LongEnough
<1>4. Learnt(c, nx, msg, i) = WithBody(req, SubSeq(msg, s, s + Len(msg) - i))
  BY DEF Learnt, At, WithBody
<1>5. Advance(c, msg, i) = Step(c, msg, i)
  BY <1>1 DEF Advance
<1> HIDE DEF c, nx
<1>6. StartOf("BODY", nx, s, i) = s /\ ColonOf("BODY", nx, k, i) = k
  BY <1>2 DEF StartOf, ColonOf, Cutting
<1>7. Step(c, msg, i) =
        [state |-> nx, request |-> Learnt(c, nx, msg, i),
         start |-> StartOf("BODY", nx, s, i), colon |-> ColonOf("BODY", nx, k, i)]
  BY <1>1, <1>3 DEF Step, StartOf, ColonOf
<1> QED BY <1>4, <1>5, <1>6, <1>7 DEF c, nx, At

LEMMA BodyOnly ==
  ASSUME NEW req, NEW x, NEW y
  PROVE  /\ WithBody(WithBody(req, x), y) = WithBody(req, y)
         /\ WithBody(req, x).headers = req.headers
         /\ ContentLength(WithBody(req, x)) = ContentLength(req)
<1>1. WithBody(WithBody(req, x), y) = WithBody(req, y)
  BY DEF WithBody
<1>2. WithBody(req, x).headers = req.headers
  BY DEF WithBody
<1> QED BY <1>1, <1>2 DEF ContentLength, GetHeader, HasHeader
\* What is left of a read is the body, if it is long enough; if not the parser has
\* nothing of it when the read ends.
LEMMA ReadsBody ==
  ASSUME NEW cx, NEW msg \in Seq(Symbols), NEW a, Follows(cx, msg, a),
         NEW p \in 0 .. Len(msg), NEW req, NEW k, a[p] = At("BODY", req, p + 1, k),
         ContentLength(req) \in Nat
  PROVE  a[Len(msg) + 1] =
           IF Len(msg) - p >= ContentLength(req)
           THEN At("COMPLETE", WithBody(req, SubSeq(msg, p + 1, Len(msg))), p + 1, k)
           ELSE At("BODY", WithBody(req, <<>>), p + 1, k)
<1> DEFINE L == ContentLength(req)
           n == Len(msg)
<1>0. n \in Nat /\ p \in Nat /\ L \in Nat
  OBVIOUS
<1>1. a[p + 1] = At(IF n - p >= L THEN "COMPLETE" ELSE "BODY",
                    WithBody(req, SubSeq(msg, p + 1, n)), p + 1, k)
  <2> DEFINE i == p + 1
  <2>1. i \in 0 .. n + 1 /\ i # 0 /\ i - 1 = p /\ i \in 1 .. n + 1 /\ n - i + 1 = n - p /\ i + n - i = n
    OBVIOUS
  <2> HIDE DEF i, n
  <2>2. a[i] = Advance(At("BODY", req, p + 1, k), msg, i)
    BY <2>1 DEF Follows, Trace, n
  <2>3. Advance(At("BODY", req, p + 1, k), msg, i) =
          At(IF n - i + 1 >= L THEN "COMPLETE" ELSE "BODY",
             WithBody(req, SubSeq(msg, p + 1, (p + 1) + n - i)), p + 1, k)
    <3>1. PICK s : s = p + 1
      OBVIOUS
    <3>2. Len(msg) \in Nat /\ i \in 1 .. Len(msg) + 1
      BY <2>1 DEF n
    <3>3. Advance(At("BODY", req, s, k), msg, i) =
            At(IF Len(msg) - i + 1 >= L THEN "COMPLETE" ELSE "BODY",
               WithBody(req, SubSeq(msg, s, s + Len(msg) - i)), s, k)
      BY <3>2, BodyMoves
    <3> QED BY <3>1, <3>3 DEF n
  <2>4. (p + 1) + n - i = n
    BY <1>0 DEF i
  <2> QED BY <2>1, <2>2, <2>3, <2>4 DEF i
<1>2. CASE n - p >= L
  <2>1. a[p + 1] = At("COMPLETE", WithBody(req, SubSeq(msg, p + 1, n)), p + 1, k)
    BY <1>1, <1>2
  <2>2. p + 1 \in 0 .. Len(msg) + 1 /\ a[p + 1].state = "COMPLETE"
    BY <2>1 DEF At
  <2>3. a[Len(msg) + 1] = a[p + 1]
    BY <2>2, StaysDone
  <2> QED BY <1>2, <2>1, <2>3
<1>3. CASE ~(n - p >= L)
  <2> DEFINE At2(i) == At("BODY", WithBody(req, SubSeq(msg, p + 1, (p + 1) + n - i)), p + 1, k)
             Good == {d \in Nat : p + 1 + d <= n + 1 => a[p + 1 + d] = At2(p + 1 + d)}
  <2>1. 0 \in Good
    <3>1. p + 1 + 0 = p + 1 /\ (p + 1) + n - (p + 1) = n
      OBVIOUS
    <3> QED BY <1>1, <1>3, <3>1
  <2>2. ASSUME NEW d \in Good PROVE d + 1 \in Good
    <3>0. d \in Nat
      OBVIOUS
    <3> SUFFICES ASSUME p + 1 + (d + 1) <= n + 1 PROVE a[p + 1 + (d + 1)] = At2(p + 1 + (d + 1))
      BY <3>0
    <3> DEFINE i == p + 1 + (d + 1)
               b == WithBody(req, SubSeq(msg, p + 1, (p + 1) + n - (p + 1 + d)))
    <3>1. a[p + 1 + d] = At("BODY", b, p + 1, k)
      BY <3>0
    <3> HIDE DEF Good
    <3>2. /\ i \in 0 .. n + 1 /\ i # 0 /\ i - 1 = p + 1 + d /\ i \in 1 .. n + 1
          /\ ~(n - i + 1 >= L)
      BY <1>3, <3>0
    <3>3. ContentLength(b) = L
      BY BodyOnly
    <3> HIDE DEF i, b, n, L
    <3>4. a[i] = Advance(At("BODY", b, p + 1, k), msg, i)
      BY <3>1, <3>2 DEF Follows, Trace, n
    <3>5. Advance(At("BODY", b, p + 1, k), msg, i) =
            At(IF n - i + 1 >= ContentLength(b) THEN "COMPLETE" ELSE "BODY",
               WithBody(b, SubSeq(msg, p + 1, (p + 1) + n - i)), p + 1, k)
      <4>1. PICK s : s = p + 1
        OBVIOUS
      <4>2. Len(msg) \in Nat /\ i \in 1 .. Len(msg) + 1
        BY <3>2 DEF n
      <4>3. Advance(At("BODY", b, s, k), msg, i) =
              At(IF Len(msg) - i + 1 >= ContentLength(b) THEN "COMPLETE" ELSE "BODY",
                 WithBody(b, SubSeq(msg, s, s + Len(msg) - i)), s, k)
        BY <4>2, BodyMoves
      <4> QED BY <4>1, <4>3 DEF n
    <3>6. WithBody(b, SubSeq(msg, p + 1, (p + 1) + n - i)) =
            WithBody(req, SubSeq(msg, p + 1, (p + 1) + n - i))
      BY BodyOnly DEF b
    <3>7. a[i] = At2(i)
      BY <3>2, <3>3, <3>4, <3>5, <3>6
    <3> QED BY <3>7 DEF i
  <2>3. Good = Nat
    <3> HIDE DEF Good
    <3> QED BY <2>1, <2>2, SetInduction DEF Good
  <2>4. n - p \in Good /\ p + 1 + (n - p) = n + 1 /\ n + 1 <= n + 1
    <3> HIDE DEF Good
    <3> QED BY <1>0, <2>3
  <2>5. a[n + 1] = At2(n + 1)
    <3>1. p + 1 + (n - p) <= n + 1 => a[p + 1 + (n - p)] = At2(p + 1 + (n - p))
      BY <2>4
    <3> HIDE DEF At2, Good
    <3> QED BY <2>4, <3>1
  <2>6. SubSeq(msg, p + 1, (p + 1) + n - (n + 1)) = <<>>
    <3>1. (p + 1) + n - (n + 1) = p
      BY <1>0
    <3> QED BY <1>0, <3>1, SubSeqProperties
  <2> QED BY <1>3, <2>5, <2>6
<1> QED BY <1>2, <1>3
-----------------------------------------------------------------------------
(* The text of a request                                                   *)

\* The lengths of a parameter's text and of a header's.
Widths == {4, 6}

LEMMA Multiples ==
  ASSUME NEW w \in Widths, NEW i \in Nat, NEW j \in Nat
  PROVE  /\ w * i \in Nat /\ w * (i + 1) = w * i + w /\ w * 1 = w /\ w * 0 = 0
         /\ j < i => w * j + w <= w * i
<1>1. CASE w = 4
  BY <1>1
<1>2. CASE w = 6
  BY <1>2
<1> QED BY <1>1, <1>2 DEF Widths

LEMMA ConcatAt ==
  ASSUME NEW S, NEW s \in Seq(S), NEW t \in Seq(S)
  PROVE  /\ s \o t \in Seq(S) /\ Len(s \o t) = Len(s) + Len(t)
         /\ \A i \in 1 .. Len(s) : (s \o t)[i] = s[i]
         /\ \A i \in 1 .. Len(t) : (s \o t)[Len(s) + i] = t[i]
<1>1. /\ s \o t \in Seq(S) /\ Len(s \o t) = Len(s) + Len(t)
      /\ \A i \in 1 .. Len(s) + Len(t) : (s \o t)[i] = IF i <= Len(s) THEN s[i] ELSE t[i - Len(s)]
  BY ConcatProperties
<1>2. Len(s) \in Nat /\ Len(t) \in Nat
  OBVIOUS
<1>3. ASSUME NEW i \in 1 .. Len(t) PROVE (s \o t)[Len(s) + i] = t[i]
  <2>1. Len(s) + i \in 1 .. Len(s) + Len(t) /\ ~(Len(s) + i <= Len(s)) /\ (Len(s) + i) - Len(s) = i
    BY <1>2
  <2> QED BY <1>1, <2>1
<1>4. ASSUME NEW i \in 1 .. Len(s) PROVE (s \o t)[i] = s[i]
  BY <1>1, <1>2
<1> QED BY <1>1, <1>3, <1>4

\* Flattening sequences of one length w puts the j-th behind j - 1 times w.
LEMMA FlattenUniform ==
  ASSUME NEW S, NEW seqs \in Seq(Seq(S)), NEW w \in Widths,
         \A i \in 1 .. Len(seqs) : Len(seqs[i]) = w
  PROVE  /\ FlattenSeq(seqs) \in Seq(S) /\ Len(FlattenSeq(seqs)) = w * Len(seqs)
         /\ \A j \in 0 .. Len(seqs) - 1 : \A q \in 1 .. w :
              FlattenSeq(seqs)[w * j + q] = seqs[j + 1][q]
<1> DEFINE n == Len(seqs)
<1>0. n \in Nat /\ w \in Nat
  BY DEF Widths
<1>1. CASE seqs = <<>>
  <2>1. FlattenSeq(seqs) = <<>> /\ n = 0 /\ Len(<<>>) = 0
    BY <1>1 DEF FlattenSeq
  <2>2. w * 0 = 0
    BY <1>0
  <2> QED BY <2>1, <2>2
<1>2. CASE seqs # <<>>
  <2>1. PICK f \in [1 .. n -> Seq(S)] : Joins(f, seqs, n) /\ FlattenSeq(seqs) = f[n]
    BY <1>2, FlattenIsJoin
  <2>2. n >= 1
    BY <1>2, EmptySeq
  <2> DEFINE Good == {i \in Nat : i \in 1 .. n =>
                        /\ Len(f[i]) = w * i
                        /\ \A j \in 0 .. i - 1 : \A q \in 1 .. w : f[i][w * j + q] = seqs[j + 1][q]}
  <2>3. 0 \in Good
    OBVIOUS
  <2>4. ASSUME NEW i \in Good PROVE i + 1 \in Good
    <3>0. i \in Nat
      OBVIOUS
    <3> SUFFICES ASSUME i + 1 \in 1 .. n
                 PROVE  /\ Len(f[i + 1]) = w * (i + 1)
                        /\ \A j \in 0 .. (i + 1) - 1 : \A q \in 1 .. w :
                             f[i + 1][w * j + q] = seqs[j + 1][q]
      <4>1. i + 1 \in Nat
        BY <3>0
      <4> QED BY <4>1
    <3>1. seqs[i + 1] \in Seq(S) /\ Len(seqs[i + 1]) = w
      BY ElementOfSeq
    <3>2. CASE i = 0
      <4>1. f[i + 1] = seqs[i + 1]
        <5>1. i + 1 \in 1 .. n /\ i + 1 = 1
          BY <3>2
        <5> QED BY <2>1, <5>1 DEF Joins
      <4>2. w * (i + 1) = w
        BY <3>2, Multiples
      <4>3. ASSUME NEW j \in 0 .. (i + 1) - 1, NEW q \in 1 .. w PROVE w * j + q = q /\ j + 1 = i + 1
        <5>1. j = 0 /\ w * 0 = 0
          BY <3>2, Multiples
        <5> QED BY <3>2, <5>1
      <4> QED BY <3>1, <4>1, <4>2, <4>3
    <3>3. CASE i # 0
      <4>1. i \in 1 .. n /\ (i + 1) - 1 = i /\ i + 1 # 1
        BY <1>0, <3>0, <3>3
      <4>2. /\ Len(f[i]) = w * i
            /\ \A j \in 0 .. i - 1 : \A q \in 1 .. w : f[i][w * j + q] = seqs[j + 1][q]
        BY <4>1
      <4> HIDE DEF Good
      <4>3. f[i + 1] = f[i] \o seqs[i + 1]
        <5>1. f[i + 1] = f[(i + 1) - 1] \o seqs[i + 1]
          BY <2>1, <4>1 DEF Joins
        <5> QED BY <4>1, <5>1
      <4>4. f[i] \in Seq(S)
        BY <2>1, <4>1
      <4>5. /\ Len(f[i + 1]) = w * i + w
            /\ \A q \in 1 .. w * i : f[i + 1][q] = f[i][q]
            /\ \A q \in 1 .. w : f[i + 1][w * i + q] = seqs[i + 1][q]
        <5> DEFINE s == f[i]
                   t == seqs[i + 1]
        <5>1. s \in Seq(S) /\ t \in Seq(S) /\ Len(s) = w * i /\ Len(t) = w /\ f[i + 1] = s \o t
          BY <3>1, <4>2, <4>3, <4>4
        <5> HIDE DEF s, t
        <5>2. /\ Len(s \o t) = Len(s) + Len(t)
              /\ \A q \in 1 .. Len(s) : (s \o t)[q] = s[q]
              /\ \A q \in 1 .. Len(t) : (s \o t)[Len(s) + q] = t[q]
          <6>1. s \in Seq(S) /\ t \in Seq(S)
            BY <5>1
          <6> QED BY ONLY <6>1, ConcatAt
        <5>3. /\ Len(f[i + 1]) = w * i + w
              /\ \A q \in 1 .. w * i : f[i + 1][q] = s[q]
              /\ \A q \in 1 .. w : f[i + 1][w * i + q] = t[q]
          BY <5>1, <5>2
        <5> QED BY <5>3 DEF s, t
      <4>6. ASSUME NEW j \in 0 .. i, NEW q \in 1 .. w PROVE f[i + 1][w * j + q] = seqs[j + 1][q]
        <5>1. CASE j = i
          BY <4>5, <5>1
        <5>2. CASE j # i
          <6>1. j \in 0 .. i - 1 /\ j \in Nat /\ j < i
            BY <3>0, <5>2
          <6>2. w * j \in Nat /\ w * i \in Nat /\ w * j + w <= w * i
            BY <3>0, <6>1, Multiples
          <6>3. w * j + q \in 1 .. w * i
            <7> DEFINE x == w * j
                       y == w * i
            <7>1. x \in Nat /\ y \in Nat /\ x + w <= y
              BY <6>2
            <7> HIDE DEF x, y
            <7>2. x + q \in 1 .. y
              BY <1>0, <7>1
            <7> QED BY <7>2 DEF x, y
          <6> QED BY <4>2, <4>5, <6>1, <6>3
        <5> QED BY <5>1, <5>2
      <4>7. w * (i + 1) = w * i + w
        BY <3>0, Multiples
      <4> QED BY <4>1, <4>5, <4>6, <4>7
    <3> QED BY <3>2, <3>3
  <2>5. Good = Nat
    <3> HIDE DEF Good
    <3> QED BY <2>3, <2>4, SetInduction DEF Good
  <2>6. n \in Good /\ n \in 1 .. n
    <3> HIDE DEF Good
    <3> QED BY <1>0, <2>2, <2>5
  <2>7. f[n] \in Seq(S)
    BY <2>1, <2>6
  <2> QED BY <2>1, <2>6, <2>7
<1> QED BY <1>1, <1>2
-----------------------------------------------------------------------------
(* The text of a head                                                      *)

LEMMA TwoOf ==
  ASSUME NEW S, NEW a \in S, NEW b \in S
  PROVE  <<a, b>> \in Seq(S) /\ Len(<<a, b>>) = 2 /\ <<a, b>>[1] = a /\ <<a, b>>[2] = b
OBVIOUS

LEMMA FourOf ==
  ASSUME NEW S, NEW a \in S, NEW b \in S, NEW c \in S, NEW d \in S
  PROVE  /\ <<a, b, c, d>> \in Seq(S) /\ Len(<<a, b, c, d>>) = 4
         /\ <<a, b, c, d>>[1] = a /\ <<a, b, c, d>>[2] = b
         /\ <<a, b, c, d>>[3] = c /\ <<a, b, c, d>>[4] = d
OBVIOUS

LEMMA SixOf ==
  ASSUME NEW S, NEW a \in S, NEW b \in S, NEW c \in S, NEW d \in S, NEW e \in S, NEW f \in S
  PROVE  /\ <<a, b, c, d, e, f>> \in Seq(S) /\ Len(<<a, b, c, d, e, f>>) = 6
         /\ <<a, b, c, d, e, f>>[1] = a /\ <<a, b, c, d, e, f>>[2] = b
         /\ <<a, b, c, d, e, f>>[3] = c /\ <<a, b, c, d, e, f>>[4] = d
         /\ <<a, b, c, d, e, f>>[5] = e /\ <<a, b, c, d, e, f>>[6] = f
OBVIOUS

\* These four symbols from p on.
Spells(t, p, w1, w2, w3, w4) ==
  t[p + 1] = w1 /\ t[p + 2] = w2 /\ t[p + 3] = w3 /\ t[p + 4] = w4

LEMMA ParamsText ==
  ASSUME NEW params, AreFields(params)
  PROVE  /\ RenderParams(params) \in Seq(Symbols) /\ Len(RenderParams(params)) = 4 * Len(params)
         /\ \A j \in 0 .. Len(params) - 1 :
              Spells(RenderParams(params), 4 * j, IF j = 0 THEN "?" ELSE "&",
                     params[j + 1][1], "=", params[j + 1][2])
<1> DEFINE n == Len(params)
           Piece(i) == <<IF i = 1 THEN "?" ELSE "&", params[i][1], "=", params[i][2]>>
           seqs == [i \in 1 .. n |-> Piece(i)]
<1>0. n \in Nat /\ DOMAIN params = 1 .. n
  BY FieldProperties
<1>1. ASSUME NEW i \in 1 .. n
      PROVE  /\ Piece(i) \in Seq(Symbols) /\ Len(Piece(i)) = 4
             /\ Piece(i)[1] = (IF i = 1 THEN "?" ELSE "&") /\ Piece(i)[2] = params[i][1]
             /\ Piece(i)[3] = "=" /\ Piece(i)[4] = params[i][2]
  <2>1. params[i][1] \in STRING /\ params[i][2] \in STRING
    <3>1. i \in 1 .. Len(params)
      OBVIOUS
    <3> QED BY ONLY <3>1, AreFields(params), FieldProperties
  <2>2. /\ params[i][1] \in Symbols /\ params[i][2] \in Symbols
        /\ (IF i = 1 THEN "?" ELSE "&") \in Symbols /\ "=" \in Symbols
    BY <2>1 DEF Symbols
  <2> QED BY ONLY <2>2, FourOf DEF Piece
<1> HIDE DEF Piece, n
<1>2. /\ seqs \in Seq(Seq(Symbols)) /\ Len(seqs) = n
      /\ \A i \in 1 .. n : seqs[i] = Piece(i) /\ Len(seqs[i]) = 4
  BY <1>0, <1>1
<1>3. RenderParams(params) = FlattenSeq(seqs)
  BY <1>0 DEF RenderParams, Piece
<1> HIDE DEF seqs
<1>4. /\ FlattenSeq(seqs) \in Seq(Symbols) /\ Len(FlattenSeq(seqs)) = 4 * n
      /\ \A j \in 0 .. n - 1 : \A q \in 1 .. 4 : FlattenSeq(seqs)[4 * j + q] = seqs[j + 1][q]
  <2>1. PICK w \in Widths : w = 4
    BY DEF Widths
  <2>2. seqs \in Seq(Seq(Symbols)) /\ \A i \in 1 .. Len(seqs) : Len(seqs[i]) = w
    BY <1>2, <2>1
  <2>3. /\ FlattenSeq(seqs) \in Seq(Symbols) /\ Len(FlattenSeq(seqs)) = w * Len(seqs)
        /\ \A j \in 0 .. Len(seqs) - 1 : \A q \in 1 .. w :
             FlattenSeq(seqs)[w * j + q] = seqs[j + 1][q]
    BY ONLY w \in Widths, <2>2, FlattenUniform
  <2> QED BY <1>2, <2>1, <2>3
<1>5. ASSUME NEW j \in 0 .. n - 1
      PROVE  Spells(FlattenSeq(seqs), 4 * j, IF j = 0 THEN "?" ELSE "&",
                    params[j + 1][1], "=", params[j + 1][2])
  <2>1. /\ j + 1 \in 1 .. n /\ (j + 1 = 1 <=> j = 0) /\ 1 \in 1 .. 4 /\ 2 \in 1 .. 4
        /\ 3 \in 1 .. 4 /\ 4 \in 1 .. 4
    BY <1>0
  <2>2. seqs[j + 1] = Piece(j + 1)
    BY <1>2, <2>1
  <2>3. /\ FlattenSeq(seqs)[4 * j + 1] = Piece(j + 1)[1] /\ FlattenSeq(seqs)[4 * j + 2] = Piece(j + 1)[2]
        /\ FlattenSeq(seqs)[4 * j + 3] = Piece(j + 1)[3] /\ FlattenSeq(seqs)[4 * j + 4] = Piece(j + 1)[4]
    BY <1>4, <2>1, <2>2
  <2> QED BY <1>1, <2>1, <2>3 DEF Spells
<1> QED BY <1>3, <1>4, <1>5 DEF n

LEMMA HeadersText ==
  ASSUME NEW headers, AreFields(headers)
  PROVE  /\ RenderHeaders(headers) \in Seq(Symbols) /\ Len(RenderHeaders(headers)) = 6 * Len(headers)
         /\ \A j \in 0 .. Len(headers) - 1 :
              /\ Spells(RenderHeaders(headers), 6 * j, headers[j + 1][1], ":", "SP", headers[j + 1][2])
              /\ RenderHeaders(headers)[6 * j + 5] = "CR" /\ RenderHeaders(headers)[6 * j + 6] = "LF"
<1> DEFINE n == Len(headers)
           Piece(i) == <<headers[i][1], ":", "SP", headers[i][2], "CR", "LF">>
           seqs == [i \in 1 .. n |-> Piece(i)]
<1>0. n \in Nat /\ DOMAIN headers = 1 .. n
  BY FieldProperties
<1>1. ASSUME NEW i \in 1 .. n
      PROVE  /\ Piece(i) \in Seq(Symbols) /\ Len(Piece(i)) = 6
             /\ Piece(i)[1] = headers[i][1] /\ Piece(i)[2] = ":" /\ Piece(i)[3] = "SP"
             /\ Piece(i)[4] = headers[i][2] /\ Piece(i)[5] = "CR" /\ Piece(i)[6] = "LF"
  <2>1. headers[i][1] \in STRING /\ headers[i][2] \in STRING
    <3>1. i \in 1 .. Len(headers)
      OBVIOUS
    <3> QED BY ONLY <3>1, AreFields(headers), FieldProperties
  <2>2. /\ headers[i][1] \in Symbols /\ headers[i][2] \in Symbols
        /\ ":" \in Symbols /\ "SP" \in Symbols /\ "CR" \in Symbols /\ "LF" \in Symbols
    BY <2>1 DEF Symbols
  <2> QED BY ONLY <2>2, SixOf DEF Piece
<1> HIDE DEF Piece, n
<1>2. /\ seqs \in Seq(Seq(Symbols)) /\ Len(seqs) = n
      /\ \A i \in 1 .. n : seqs[i] = Piece(i) /\ Len(seqs[i]) = 6
  BY <1>0, <1>1
<1>3. RenderHeaders(headers) = FlattenSeq(seqs)
  BY <1>0 DEF RenderHeaders, Piece
<1> HIDE DEF seqs
<1>4. /\ FlattenSeq(seqs) \in Seq(Symbols) /\ Len(FlattenSeq(seqs)) = 6 * n
      /\ \A j \in 0 .. n - 1 : \A q \in 1 .. 6 : FlattenSeq(seqs)[6 * j + q] = seqs[j + 1][q]
  <2>1. PICK w \in Widths : w = 6
    BY DEF Widths
  <2>2. seqs \in Seq(Seq(Symbols)) /\ \A i \in 1 .. Len(seqs) : Len(seqs[i]) = w
    BY <1>2, <2>1
  <2>3. /\ FlattenSeq(seqs) \in Seq(Symbols) /\ Len(FlattenSeq(seqs)) = w * Len(seqs)
        /\ \A j \in 0 .. Len(seqs) - 1 : \A q \in 1 .. w :
             FlattenSeq(seqs)[w * j + q] = seqs[j + 1][q]
    BY ONLY w \in Widths, <2>2, FlattenUniform
  <2> QED BY <1>2, <2>1, <2>3
<1>5. ASSUME NEW j \in 0 .. n - 1
      PROVE  /\ Spells(FlattenSeq(seqs), 6 * j, headers[j + 1][1], ":", "SP", headers[j + 1][2])
             /\ FlattenSeq(seqs)[6 * j + 5] = "CR" /\ FlattenSeq(seqs)[6 * j + 6] = "LF"
  <2>1. /\ j + 1 \in 1 .. n
        /\ 1 \in 1 .. 6 /\ 2 \in 1 .. 6 /\ 3 \in 1 .. 6 /\ 4 \in 1 .. 6 /\ 5 \in 1 .. 6 /\ 6 \in 1 .. 6
    BY <1>0
  <2>2. seqs[j + 1] = Piece(j + 1)
    BY <1>2, <2>1
  <2>3. /\ FlattenSeq(seqs)[6 * j + 1] = Piece(j + 1)[1] /\ FlattenSeq(seqs)[6 * j + 2] = Piece(j + 1)[2]
        /\ FlattenSeq(seqs)[6 * j + 3] = Piece(j + 1)[3] /\ FlattenSeq(seqs)[6 * j + 4] = Piece(j + 1)[4]
        /\ FlattenSeq(seqs)[6 * j + 5] = Piece(j + 1)[5] /\ FlattenSeq(seqs)[6 * j + 6] = Piece(j + 1)[6]
    BY <1>4, <2>1, <2>2, SMTT(40)
  <2> QED BY <1>1, <2>1, <2>3 DEF Spells
<1> QED BY <1>3, <1>4, <1>5 DEF n

\* The whole head, and what a read that begins with it reads.
LEMMA HeadText ==
  ASSUME NEW r, WellFormed(r)
  PROVE  LET t == HeadOf(r)
             n == Len(r.params)
             h == Len(r.headers)
         IN  /\ t \in Seq(Symbols) /\ Len(t) = HeadSize(r)
             /\ Spells(t, 0, r.method, "SP", "/", "path")
             /\ \A j \in 0 .. n - 1 :
                  Spells(t, 4 + 4 * j, IF j = 0 THEN "?" ELSE "&",
                         r.params[j + 1][1], "=", r.params[j + 1][2])
             /\ Spells(t, 4 + 4 * n, "SP", "HTTP", "/", r.version)
             /\ t[9 + 4 * n] = "CR" /\ t[10 + 4 * n] = "LF"
             /\ \A j \in 0 .. h - 1 :
                  LET p == 10 + 4 * n + 6 * j
                  IN  /\ Spells(t, p, r.headers[j + 1][1], ":", "SP", r.headers[j + 1][2])
                      /\ t[p + 5] = "CR" /\ t[p + 6] = "LF"
             /\ t[11 + 4 * n + 6 * h] = "CR" /\ t[12 + 4 * n + 6 * h] = "LF"
<1> DEFINE n == Len(r.params)
           h == Len(r.headers)
           A == <<r.method, "SP", "/", "path">>
           P == RenderParams(r.params)
           L == <<"SP", "HTTP", "/", r.version>>
           E == <<"CR", "LF">>
           H == RenderHeaders(r.headers)
<1>0. n \in Nat /\ h \in Nat
  BY FieldProperties DEF WellFormed
<1>1. /\ A \in Seq(Symbols) /\ Len(A) = 4 /\ Spells(A, 0, r.method, "SP", "/", "path")
      /\ L \in Seq(Symbols) /\ Len(L) = 4 /\ Spells(L, 0, "SP", "HTTP", "/", r.version)
      /\ E \in Seq(Symbols) /\ Len(E) = 2 /\ E[1] = "CR" /\ E[2] = "LF"
  <2>1. /\ r.method \in Symbols /\ r.version \in Symbols /\ "SP" \in Symbols /\ "/" \in Symbols
        /\ "path" \in Symbols /\ "HTTP" \in Symbols /\ "CR" \in Symbols /\ "LF" \in Symbols
    <3>1. r.method \in Methods /\ r.version \in {"1.0", "1.1"}
      BY DEF WellFormed
    <3> QED BY ONLY <3>1 DEF Symbols
  <2>2. /\ A \in Seq(Symbols) /\ Len(A) = 4 /\ A[1] = r.method /\ A[2] = "SP" /\ A[3] = "/" /\ A[4] = "path"
    BY ONLY <2>1, FourOf DEF A
  <2>3. /\ L \in Seq(Symbols) /\ Len(L) = 4 /\ L[1] = "SP" /\ L[2] = "HTTP" /\ L[3] = "/"
        /\ L[4] = r.version
    BY ONLY <2>1, FourOf DEF L
  <2>4. E \in Seq(Symbols) /\ Len(E) = 2 /\ E[1] = "CR" /\ E[2] = "LF"
    BY ONLY <2>1, TwoOf DEF E
  <2> HIDE DEF A, L, E
  <2> QED BY <2>2, <2>3, <2>4 DEF Spells
<1>2. /\ P \in Seq(Symbols) /\ Len(P) = 4 * n
      /\ \A j \in 0 .. n - 1 :
           Spells(P, 4 * j, IF j = 0 THEN "?" ELSE "&", r.params[j + 1][1], "=", r.params[j + 1][2])
  BY ParamsText DEF WellFormed
<1>3. /\ H \in Seq(Symbols) /\ Len(H) = 6 * h
      /\ \A j \in 0 .. h - 1 :
           /\ Spells(H, 6 * j, r.headers[j + 1][1], ":", "SP", r.headers[j + 1][2])
           /\ H[6 * j + 5] = "CR" /\ H[6 * j + 6] = "LF"
  BY HeadersText DEF WellFormed
<1> DEFINE U == A \o P
           V == U \o L
           W == V \o E
           X == W \o H
           t == X \o E
<1>4. HeadOf(r) = t
  BY DEF HeadOf
<1> HIDE DEF n, h, A, P, L, E, H, U, V, W, X, t
<1>5. /\ U \in Seq(Symbols) /\ Len(U) = 4 + 4 * n
      /\ \A i \in 1 .. 4 : U[i] = A[i]
      /\ \A i \in 1 .. 4 * n : U[4 + i] = P[i]
  <2>1. A \in Seq(Symbols) /\ P \in Seq(Symbols)
    BY <1>1, <1>2
  <2>2. /\ A \o P \in Seq(Symbols) /\ Len(A \o P) = Len(A) + Len(P)
        /\ \A i \in 1 .. Len(A) : (A \o P)[i] = A[i]
        /\ \A i \in 1 .. Len(P) : (A \o P)[Len(A) + i] = P[i]
    BY ONLY <2>1, ConcatAt
  <2>3. Len(A) = 4 /\ Len(P) = 4 * n
    BY <1>0, <1>1, <1>2
  <2> QED BY <1>0, <2>2, <2>3 DEF U
<1>6. /\ V \in Seq(Symbols) /\ Len(V) = 8 + 4 * n
      /\ \A i \in 1 .. 4 + 4 * n : V[i] = U[i]
      /\ \A i \in 1 .. 4 : V[4 + 4 * n + i] = L[i]
  <2>1. U \in Seq(Symbols) /\ L \in Seq(Symbols)
    BY <1>1, <1>5
  <2>2. /\ U \o L \in Seq(Symbols) /\ Len(U \o L) = Len(U) + Len(L)
        /\ \A i \in 1 .. Len(U) : (U \o L)[i] = U[i]
        /\ \A i \in 1 .. Len(L) : (U \o L)[Len(U) + i] = L[i]
    BY ONLY <2>1, ConcatAt
  <2>3. Len(U) = 4 + 4 * n /\ Len(L) = 4 /\ Len(U) + Len(L) = 8 + 4 * n
    BY <1>0, <1>1, <1>5
  <2> QED BY <1>0, <2>2, <2>3 DEF V
<1>7. /\ W \in Seq(Symbols) /\ Len(W) = 10 + 4 * n
      /\ \A i \in 1 .. 8 + 4 * n : W[i] = V[i]
      /\ \A i \in 1 .. 2 : W[8 + 4 * n + i] = E[i]
  <2>1. V \in Seq(Symbols) /\ E \in Seq(Symbols)
    BY <1>1, <1>6
  <2>2. /\ V \o E \in Seq(Symbols) /\ Len(V \o E) = Len(V) + Len(E)
        /\ \A i \in 1 .. Len(V) : (V \o E)[i] = V[i]
        /\ \A i \in 1 .. Len(E) : (V \o E)[Len(V) + i] = E[i]
    BY ONLY <2>1, ConcatAt
  <2>3. Len(V) = 8 + 4 * n /\ Len(E) = 2 /\ Len(V) + Len(E) = 10 + 4 * n
    BY <1>0, <1>1, <1>6
  <2> QED BY <1>0, <2>2, <2>3 DEF W
<1>8. /\ X \in Seq(Symbols) /\ Len(X) = 10 + 4 * n + 6 * h
      /\ \A i \in 1 .. 10 + 4 * n : X[i] = W[i]
      /\ \A i \in 1 .. 6 * h : X[10 + 4 * n + i] = H[i]
  <2>1. W \in Seq(Symbols) /\ H \in Seq(Symbols)
    BY <1>3, <1>7
  <2>2. /\ W \o H \in Seq(Symbols) /\ Len(W \o H) = Len(W) + Len(H)
        /\ \A i \in 1 .. Len(W) : (W \o H)[i] = W[i]
        /\ \A i \in 1 .. Len(H) : (W \o H)[Len(W) + i] = H[i]
    BY ONLY <2>1, ConcatAt
  <2>3. Len(W) = 10 + 4 * n /\ Len(H) = 6 * h
    BY <1>0, <1>3, <1>7
  <2> QED BY <1>0, <2>2, <2>3 DEF X
<1>9. /\ t \in Seq(Symbols) /\ Len(t) = 12 + 4 * n + 6 * h
      /\ \A i \in 1 .. 10 + 4 * n + 6 * h : t[i] = X[i]
      /\ \A i \in 1 .. 2 : t[10 + 4 * n + 6 * h + i] = E[i]
  <2>1. X \in Seq(Symbols) /\ E \in Seq(Symbols)
    BY <1>1, <1>8
  <2>2. /\ X \o E \in Seq(Symbols) /\ Len(X \o E) = Len(X) + Len(E)
        /\ \A i \in 1 .. Len(X) : (X \o E)[i] = X[i]
        /\ \A i \in 1 .. Len(E) : (X \o E)[Len(X) + i] = E[i]
    BY ONLY <2>1, ConcatAt
  <2>3. Len(X) = 10 + 4 * n + 6 * h /\ Len(E) = 2 /\ Len(X) + Len(E) = 12 + 4 * n + 6 * h
    BY <1>0, <1>1, <1>8
  <2> QED BY <1>0, <2>2, <2>3 DEF t
<1>10. /\ \A i \in 1 .. 4 : t[i] = A[i]
       /\ \A i \in 1 .. 4 * n : t[4 + i] = P[i]
       /\ \A i \in 1 .. 4 : t[4 + 4 * n + i] = L[i]
       /\ \A i \in 1 .. 2 : t[8 + 4 * n + i] = E[i]
       /\ \A i \in 1 .. 6 * h : t[10 + 4 * n + i] = H[i]
       /\ \A i \in 1 .. 2 : t[10 + 4 * n + 6 * h + i] = E[i]
  <2>1. \A i \in 1 .. 8 + 4 * n : t[i] = V[i]
    <3> TAKE i \in 1 .. 8 + 4 * n
    <3>1. i \in 1 .. 10 + 4 * n /\ i \in 1 .. 10 + 4 * n + 6 * h
      BY <1>0
    <3> QED BY <1>7, <1>8, <1>9, <3>1
  <2>2. \A i \in 1 .. 4 + 4 * n : t[i] = U[i]
    BY <1>0, <1>6, <2>1, SMTT(40)
  <2>3. \A i \in 1 .. 4 : t[i] = A[i]
    BY <1>0, <1>5, <2>2
  <2>4. \A i \in 1 .. 4 * n : t[4 + i] = P[i]
    BY <1>0, <1>5, <2>2
  <2>5. \A i \in 1 .. 4 : t[4 + 4 * n + i] = L[i]
    BY <1>0, <1>6, <2>1, SMTT(40)
  <2>6. \A i \in 1 .. 2 : t[8 + 4 * n + i] = E[i]
    <3> TAKE i \in 1 .. 2
    <3>1. 8 + 4 * n + i \in 1 .. 10 + 4 * n /\ 8 + 4 * n + i \in 1 .. 10 + 4 * n + 6 * h
      BY <1>0
    <3> QED BY <1>7, <1>8, <1>9, <3>1
  <2>7. \A i \in 1 .. 6 * h : t[10 + 4 * n + i] = H[i]
    <3> TAKE i \in 1 .. 6 * h
    <3>1. 10 + 4 * n + i \in 1 .. 10 + 4 * n + 6 * h
      BY <1>0
    <3> QED BY <1>8, <1>9, <3>1
  <2> QED BY <1>9, <2>3, <2>4, <2>5, <2>6, <2>7
<1>11. /\ Spells(t, 0, r.method, "SP", "/", "path") /\ Spells(t, 4 + 4 * n, "SP", "HTTP", "/", r.version)
       /\ t[9 + 4 * n] = "CR" /\ t[10 + 4 * n] = "LF"
       /\ t[11 + 4 * n + 6 * h] = "CR" /\ t[12 + 4 * n + 6 * h] = "LF"
  <2>1. Spells(t, 0, r.method, "SP", "/", "path")
    BY <1>1, <1>10 DEF Spells
  <2>2. Spells(t, 4 + 4 * n, "SP", "HTTP", "/", r.version)
    BY <1>0, <1>1, <1>10 DEF Spells
  <2>3. t[9 + 4 * n] = "CR" /\ t[10 + 4 * n] = "LF"
    BY <1>0, <1>1, <1>10
  <2>4. t[11 + 4 * n + 6 * h] = "CR" /\ t[12 + 4 * n + 6 * h] = "LF"
    BY <1>0, <1>1, <1>10
  <2> QED BY <2>1, <2>2, <2>3, <2>4
<1>12. ASSUME NEW j \in 0 .. n - 1
       PROVE  Spells(t, 4 + 4 * j, IF j = 0 THEN "?" ELSE "&", r.params[j + 1][1], "=", r.params[j + 1][2])
  <2>1. /\ 4 * j + 1 \in 1 .. 4 * n /\ 4 * j + 2 \in 1 .. 4 * n /\ 4 * j + 3 \in 1 .. 4 * n
        /\ 4 * j + 4 \in 1 .. 4 * n
    BY <1>0
  <2>2. /\ t[4 + (4 * j + 1)] = P[4 * j + 1] /\ t[4 + (4 * j + 2)] = P[4 * j + 2]
        /\ t[4 + (4 * j + 3)] = P[4 * j + 3] /\ t[4 + (4 * j + 4)] = P[4 * j + 4]
    BY <1>10, <2>1
  <2> QED BY <1>2, <2>2 DEF Spells
<1>13. ASSUME NEW j \in 0 .. h - 1
       PROVE  LET p == 10 + 4 * n + 6 * j
              IN  /\ Spells(t, p, r.headers[j + 1][1], ":", "SP", r.headers[j + 1][2])
                  /\ t[p + 5] = "CR" /\ t[p + 6] = "LF"
  <2>1. /\ 6 * j + 1 \in 1 .. 6 * h /\ 6 * j + 2 \in 1 .. 6 * h /\ 6 * j + 3 \in 1 .. 6 * h
        /\ 6 * j + 4 \in 1 .. 6 * h /\ 6 * j + 5 \in 1 .. 6 * h /\ 6 * j + 6 \in 1 .. 6 * h
    BY <1>0
  <2>2. \A q \in 1 .. 6 : 6 * j + q \in 1 .. 6 * h => t[(10 + 4 * n + 6 * j) + q] = H[6 * j + q]
    <3> TAKE q \in 1 .. 6
    <3>1. (10 + 4 * n + 6 * j) + q = 10 + 4 * n + (6 * j + q)
      BY <1>0
    <3> QED BY <1>10, <3>1
  <2>3. /\ t[(10 + 4 * n + 6 * j) + 1] = H[6 * j + 1] /\ t[(10 + 4 * n + 6 * j) + 2] = H[6 * j + 2]
        /\ t[(10 + 4 * n + 6 * j) + 3] = H[6 * j + 3] /\ t[(10 + 4 * n + 6 * j) + 4] = H[6 * j + 4]
        /\ t[(10 + 4 * n + 6 * j) + 5] = H[6 * j + 5] /\ t[(10 + 4 * n + 6 * j) + 6] = H[6 * j + 6]
    BY <2>1, <2>2
  <2> QED BY <1>3, <2>3 DEF Spells
<1>14. Len(t) = HeadSize(r)
  BY <1>9 DEF HeadSize, n, h
<1> QED BY <1>4, <1>9, <1>11, <1>12, <1>13, <1>14 DEF n, h
-----------------------------------------------------------------------------
(* The parser's run over a request                                         *)

LEMMA WiderSeq ==
  ASSUME NEW S, NEW T, S \subseteq T, NEW s \in Seq(S)
  PROVE  s \in Seq(T) /\ Len(s) \in Nat
OBVIOUS

LEMMA RequestText ==
  ASSUME NEW r, WellFormed(r)
  PROVE  /\ Render(r) \in Seq(Symbols) /\ Len(HeadOf(r)) = HeadSize(r)
         /\ Len(Render(r)) = HeadSize(r) + Len(r.body) /\ Len(r.body) \in Nat
         /\ \A i \in 1 .. HeadSize(r) : Render(r)[i] = HeadOf(r)[i]
         /\ \A i \in 1 .. Len(r.body) : Render(r)[HeadSize(r) + i] = r.body[i]
<1> DEFINE s == HeadOf(r)
           t == r.body
<1>1. s \in Seq(Symbols) /\ Len(s) = HeadSize(r)
  BY HeadText
<1>2. t \in Seq(Symbols) /\ Len(t) \in Nat
  <2>1. t \in Seq(STRING)
    BY DEF WellFormed
  <2>2. STRING \subseteq Symbols
    BY DEF Symbols
  <2> HIDE DEF t
  <2> QED BY ONLY <2>1, <2>2, WiderSeq
<1>3. Render(r) = s \o t
  BY DEF Render
<1> HIDE DEF s, t
<1>4. /\ s \o t \in Seq(Symbols) /\ Len(s \o t) = Len(s) + Len(t)
      /\ \A i \in 1 .. Len(s) : (s \o t)[i] = s[i]
      /\ \A i \in 1 .. Len(t) : (s \o t)[Len(s) + i] = t[i]
  <2>1. s \in Seq(Symbols) /\ t \in Seq(Symbols)
    BY <1>1, <1>2
  <2> QED BY ONLY <2>1, ConcatAt
<1> QED BY <1>1, <1>2, <1>3, <1>4 DEF s, t

\* A read from the request's beginning.
LEMMA PrefixReads ==
  ASSUME NEW r, WellFormed(r), NEW n \in 1 .. Len(Render(r))
  PROVE  LET msg == SubSeq(Render(r), 1, n)
         IN  msg \in Seq(Symbols) /\ Len(msg) = n /\ ReadsHeadOf(msg, r)
<1> DEFINE msg == SubSeq(Render(r), 1, n)
           t == HeadOf(r)
           size == HeadSize(r)
           np == Len(r.params)
           nh == Len(r.headers)
<1>0. np \in Nat /\ nh \in Nat /\ size = 12 + 4 * np + 6 * nh
  BY FieldProperties DEF WellFormed, HeadSize
<1>1. msg \in Seq(Symbols) /\ Len(msg) = n /\ \A i \in 1 .. n : msg[i] = Render(r)[i]
  <2> DEFINE u == Render(r)
  <2>1. u \in Seq(Symbols) /\ n \in 1 .. Len(u)
    BY RequestText
  <2> HIDE DEF u
  <2>2. /\ SubSeq(u, 1, n) \in Seq(Symbols) /\ Len(SubSeq(u, 1, n)) = n
        /\ \A i \in 1 .. n : SubSeq(u, 1, n)[i] = u[i]
    BY <2>1, SubSeqProperties
  <2> QED BY <2>2 DEF u
<1>2. \A i \in 1 .. size : Render(r)[i] = t[i]
  BY RequestText
<1>3. /\ Spells(t, 0, r.method, "SP", "/", "path")
      /\ \A j \in 0 .. np - 1 :
           Spells(t, 4 + 4 * j, IF j = 0 THEN "?" ELSE "&", r.params[j + 1][1], "=", r.params[j + 1][2])
      /\ Spells(t, 4 + 4 * np, "SP", "HTTP", "/", r.version)
      /\ t[9 + 4 * np] = "CR" /\ t[10 + 4 * np] = "LF"
      /\ \A j \in 0 .. nh - 1 :
           /\ Spells(t, 10 + 4 * np + 6 * j, r.headers[j + 1][1], ":", "SP", r.headers[j + 1][2])
           /\ t[(10 + 4 * np + 6 * j) + 5] = "CR" /\ t[(10 + 4 * np + 6 * j) + 6] = "LF"
      /\ t[11 + 4 * np + 6 * nh] = "CR" /\ t[12 + 4 * np + 6 * nh] = "LF"
  BY HeadText
<1> HIDE DEF msg, t, size, np, nh
<1>4. ASSUME NEW p \in 1 .. size, NEW w, t[p] = w PROVE Reads(msg, p, w)
  <2> SUFFICES ASSUME p <= n PROVE msg[p] = w
    BY <1>1 DEF Reads
  <2>1. p \in 1 .. n
    BY <1>0
  <2> QED BY <1>1, <1>2, <1>4, <2>1
<1>5. ASSUME NEW p \in Nat, p + 4 <= size, NEW w1, NEW w2, NEW w3, NEW w4, Spells(t, p, w1, w2, w3, w4)
      PROVE  Follow(msg, p, w1, w2, w3, w4)
  <2>1. p + 1 \in 1 .. size /\ p + 2 \in 1 .. size /\ p + 3 \in 1 .. size /\ p + 4 \in 1 .. size
    BY <1>0, <1>5
  <2> QED BY <1>4, <1>5, <2>1 DEF Spells, Follow
<1>6. Follow(msg, 0, r.method, "SP", "/", "path")
  <2>1. 0 \in Nat /\ 0 + 4 <= size
    BY <1>0
  <2> QED BY <1>3, <1>5, <2>1
<1>7. ASSUME NEW j \in 0 .. np - 1
      PROVE  Follow(msg, 4 + 4 * j, IF j = 0 THEN "?" ELSE "&", r.params[j + 1][1], "=", r.params[j + 1][2])
  <2>1. PICK p \in Nat : p = 4 + 4 * j
    BY <1>0
  <2>2. p + 4 <= size
    BY <1>0, <2>1
  <2>3. Spells(t, p, IF j = 0 THEN "?" ELSE "&", r.params[j + 1][1], "=", r.params[j + 1][2])
    BY <1>3, <2>1
  <2>4. Follow(msg, p, IF j = 0 THEN "?" ELSE "&", r.params[j + 1][1], "=", r.params[j + 1][2])
    BY <1>5, <2>2, <2>3
  <2> QED BY <2>1, <2>4
<1>8. Follow(msg, 4 + 4 * np, "SP", "HTTP", "/", r.version)
  <2>1. PICK p \in Nat : p = 4 + 4 * np
    BY <1>0
  <2>2. p + 4 <= size
    BY <1>0, <2>1
  <2>3. Spells(t, p, "SP", "HTTP", "/", r.version)
    BY <1>3, <2>1
  <2>4. Follow(msg, p, "SP", "HTTP", "/", r.version)
    BY <1>5, <2>2, <2>3
  <2> QED BY <2>1, <2>4
<1>9. Reads(msg, 9 + 4 * np, "CR") /\ Reads(msg, 10 + 4 * np, "LF")
  <2>1. 9 + 4 * np \in 1 .. size /\ 10 + 4 * np \in 1 .. size
    BY <1>0
  <2> QED BY <1>3, <1>4, <2>1
<1>10. ASSUME NEW j \in 0 .. nh - 1
       PROVE  /\ Follow(msg, 10 + 4 * np + 6 * j, r.headers[j + 1][1], ":", "SP", r.headers[j + 1][2])
              /\ Reads(msg, (10 + 4 * np + 6 * j) + 5, "CR") /\ Reads(msg, (10 + 4 * np + 6 * j) + 6, "LF")
  <2>1. PICK p \in Nat : p = 10 + 4 * np + 6 * j
    BY <1>0
  <2>2. p + 4 <= size /\ p + 5 \in 1 .. size /\ p + 6 \in 1 .. size
    BY <1>0, <2>1
  <2>3. /\ Spells(t, p, r.headers[j + 1][1], ":", "SP", r.headers[j + 1][2])
        /\ t[p + 5] = "CR" /\ t[p + 6] = "LF"
    BY <1>3, <2>1
  <2>4. Follow(msg, p, r.headers[j + 1][1], ":", "SP", r.headers[j + 1][2])
    BY <1>5, <2>2, <2>3
  <2>5. Reads(msg, p + 5, "CR") /\ Reads(msg, p + 6, "LF")
    BY <1>4, <2>2, <2>3
  <2> QED BY <2>1, <2>4, <2>5
<1>11. Reads(msg, 11 + 4 * np + 6 * nh, "CR") /\ Reads(msg, 12 + 4 * np + 6 * nh, "LF")
  <2>1. 11 + 4 * np + 6 * nh \in 1 .. size /\ 12 + 4 * np + 6 * nh \in 1 .. size
    BY <1>0
  <2> QED BY <1>3, <1>4, <2>1
<1>12. ReadsHeadOf(msg, r)
  BY <1>6, <1>7, <1>8, <1>9, <1>10, <1>11 DEF ReadsHeadOf, np, nh
<1> QED BY <1>1, <1>12 DEF msg

LEMMA MeantParts ==
  ASSUME NEW r, WellFormed(r)
  PROVE  /\ Meant(r) = WithBody(HeadMeant(r), r.body)
         /\ HeadMeant(r) = WithBody(HeadMeant(r), <<>>)
         /\ ContentLength(HeadMeant(r)) = Len(r.body)
<1>1. DOMAIN r.params = 1 .. Len(r.params) /\ DOMAIN r.headers = 1 .. Len(r.headers)
  BY FieldProperties DEF WellFormed
<1>2. Meant(r) = [method |-> r.method, url |-> Path, params |-> PairsIn(r.params, Len(r.params)),
                  protocol |-> <<"HTTP">>, version |-> r.version,
                  headers |-> PairsIn(r.headers, Len(r.headers)), body |-> r.body]
  BY <1>1, Zenon DEF Meant, PairsIn, Path
<1>3. HeadMeant(r) = [method |-> r.method, url |-> Path, params |-> PairsIn(r.params, Len(r.params)),
                  protocol |-> <<"HTTP">>, version |-> r.version,
                  headers |-> PairsIn(r.headers, Len(r.headers)), body |-> <<>>]
  BY DEF HeadMeant, Tells, Told
<1>4. Meant(r) = WithBody(HeadMeant(r), r.body) /\ HeadMeant(r) = WithBody(HeadMeant(r), <<>>)
  BY <1>2, <1>3 DEF WithBody
<1>5. ContentLength(HeadMeant(r)) = ContentLength(Meant(r))
  BY <1>4, BodyOnly
<1> QED BY <1>4, <1>5 DEF WellFormed
\* The rest of a whole request is its body.
LEMMA BodyText ==
  ASSUME NEW r, WellFormed(r)
  PROVE  SubSeq(SubSeq(Render(r), 1, Len(Render(r))), HeadSize(r) + 1, Len(Render(r))) = r.body
<1> DEFINE u == Render(r)
           b == r.body
           p == HeadSize(r)
           n == Len(u)
           msg == SubSeq(u, 1, n)
           t == SubSeq(msg, p + 1, n)
<1>1. /\ u \in Seq(Symbols) /\ p \in Nat /\ Len(b) \in Nat /\ n = p + Len(b)
      /\ \A i \in 1 .. Len(b) : u[p + i] = b[i]
  BY HeadSizeIs, RequestText
<1>2. b \in Seq(Symbols)
  <2>1. b \in Seq(STRING)
    BY DEF WellFormed
  <2>2. STRING \subseteq Symbols
    BY DEF Symbols
  <2> HIDE DEF b
  <2> QED BY ONLY <2>1, <2>2, WiderSeq
<1> HIDE DEF u, b, p
<1>3. msg \in Seq(Symbols) /\ Len(msg) = n /\ \A i \in 1 .. n : msg[i] = u[i]
  <2> HIDE DEF msg
  <2> QED BY <1>1, ElementOfSeq, SubSeqProperties DEF msg
<1> HIDE DEF msg, n
<1>4. t \in Seq(Symbols) /\ Len(t) = Len(b) /\ \A i \in 1 .. Len(b) : t[i] = b[i]
  <2>1. \A i \in p + 1 .. n : msg[i] \in Symbols
    BY <1>1, <1>3, ElementOfSeq
  <2>2. /\ t \in Seq(Symbols) /\ Len(t) = (IF p + 1 <= n THEN n - (p + 1) + 1 ELSE 0)
        /\ \A i \in 1 .. n - (p + 1) + 1 : t[i] = msg[(p + 1) + i - 1]
    <3>1. PICK q \in Int : q = p + 1
      BY <1>1
    <3>2. n \in Int
      BY <1>1
    <3>3. /\ SubSeq(msg, q, n) \in Seq(Symbols)
          /\ Len(SubSeq(msg, q, n)) = (IF q <= n THEN n - q + 1 ELSE 0)
          /\ \A i \in 1 .. n - q + 1 : SubSeq(msg, q, n)[i] = msg[q + i - 1]
      BY <2>1, <3>1, <3>2, SubSeqProperties
    <3> QED BY <3>1, <3>3
  <2>3. Len(t) = Len(b) /\ n - (p + 1) + 1 = Len(b)
    BY <1>1, <2>2
  <2>4. ASSUME NEW i \in 1 .. Len(b) PROVE t[i] = b[i]
    <3>1. (p + 1) + i - 1 = p + i /\ p + i \in 1 .. n
      BY <1>1
    <3> QED BY <1>1, <1>3, <2>2, <2>3, <3>1
  <2> QED BY <2>2, <2>3, <2>4
<1> HIDE DEF t
<1>5. t = b
  BY <1>2, <1>4, SeqEqual
<1> QED BY <1>5 DEF t, msg, n, u, b, p

\* A request read from its beginning by a parser without state: refused when the
\* read ends inside the head, recognised when it is whole.
LEMMA ParsesRequest ==
  ASSUME NEW r, WellFormed(r), NEW n \in 1 .. Len(Render(r)),
         NEW c, c = ParaseRequest(NewContext, SubSeq(Render(r), 1, n))
  PROVE  /\ n < HeadSize(r) => ~Accepts(c)
         /\ n = Len(Render(r)) => c.state = "COMPLETE" /\ c.request = Meant(r)
         /\ HeadSize(r) <= n /\ n < Len(Render(r)) => \E s, k : c = At("BODY", HeadMeant(r), s, k)
<1> DEFINE msg == SubSeq(Render(r), 1, n)
           req == HeadMeant(r)
           p == HeadSize(r)
           L == Len(r.body)
<1>0. p \in Nat /\ p >= 12 /\ L \in Nat /\ Len(Render(r)) = p + L /\ n \in Nat /\ n \in 1 .. p + L
  <2>1. p \in Nat /\ p >= 12
    BY HeadSizeIs
  <2>2. L \in Nat /\ Len(Render(r)) = p + L
    BY RequestText
  <2> HIDE DEF p, L
  <2> QED BY <2>1, <2>2
<1>1. msg \in Seq(Symbols) /\ Len(msg) = n /\ ReadsHeadOf(msg, r)
  BY PrefixReads
<1>2. ContentLength(req) = L /\ Meant(r) = WithBody(req, r.body) /\ req = WithBody(req, <<>>)
  BY MeantParts
<1>3. n = p + L => SubSeq(msg, p + 1, n) = r.body
  BY <1>0, BodyText
<1> HIDE DEF msg
<1>4. PICK a : Trace(NewContext, msg, Len(msg) + 1, a) /\ ParaseRequest(NewContext, msg) = a[Len(msg) + 1]
  BY <1>0, <1>1, ParsesByTrace
<1>5. Follows(NewContext, msg, a) /\ c = a[Len(msg) + 1]
  BY <1>0, <1>1, <1>4 DEF Follows, msg
<1>6. PICK k : Reaches(a, msg, p, At(AfterHead(req, TRUE), req, p + 1, k))
  BY <1>1, <1>5, ReadsWholeHead
<1>7. \A i \in 0 .. p - 1 : Inside(a, msg, i)
  BY <1>1, <1>5, ReadsWholeHead
<1>8. ASSUME n < p PROVE ~Accepts(c)
  <2>1. Inside(a, msg, Len(msg))
    BY <1>0, <1>1, <1>7, <1>8
  <2> QED BY <1>5, <2>1, RefusesPart DEF Accepts
<1>9. ASSUME p <= n
      PROVE  /\ n = p + L => c.state = "COMPLETE" /\ c.request = Meant(r)
             /\ n < p + L => c = At("BODY", req, p + 1, k)
  <2>1. a[p] = At(AfterHead(req, TRUE), req, p + 1, k)
    BY <1>1, <1>6, <1>9 DEF Reaches
  <2>2. \/ AfterHead(req, TRUE) = "BODY"
        \/ AfterHead(req, TRUE) = "COMPLETE" /\ L = 0
    <3> HIDE DEF req, L
    <3> QED BY <1>0, <1>2 DEF AfterHead
  <2>3. CASE AfterHead(req, TRUE) = "BODY"
    <3>1. a[p] = At("BODY", req, p + 1, k) /\ p \in 0 .. Len(msg) /\ ContentLength(req) \in Nat
      <4> HIDE DEF req, p, L
      <4>1. a[p] = At("BODY", req, p + 1, k)
        BY ONLY <2>1, <2>3
      <4>2. p \in 0 .. Len(msg)
        BY <1>0, <1>1, <1>9
      <4>3. ContentLength(req) \in Nat
        BY <1>0, <1>2
      <4> QED BY <4>1, <4>2, <4>3
    <3> HIDE DEF req, p, L
    <3>2. a[Len(msg) + 1] =
            IF Len(msg) - p >= ContentLength(req)
            THEN At("COMPLETE", WithBody(req, SubSeq(msg, p + 1, Len(msg))), p + 1, k)
            ELSE At("BODY", WithBody(req, <<>>), p + 1, k)
      <4>1. msg \in Seq(Symbols)
        BY <1>1
      <4> QED BY ONLY <1>5, <3>1, <4>1, ReadsBody
    <3>3. ASSUME n = p + L PROVE c.state = "COMPLETE" /\ c.request = Meant(r)
      <4>1. Len(msg) - p >= ContentLength(req) /\ SubSeq(msg, p + 1, Len(msg)) = r.body
        BY <1>0, <1>1, <1>2, <1>3, <3>3
      <4>2. c = At("COMPLETE", WithBody(req, r.body), p + 1, k)
        BY <1>5, <3>2, <4>1
      <4> QED BY <1>2, <4>2 DEF At
    <3>4. ASSUME n < p + L PROVE c = At("BODY", req, p + 1, k)
      <4>1. ~(Len(msg) - p >= ContentLength(req))
        BY <1>0, <1>1, <1>2, <3>4
      <4> QED BY <1>2, <1>5, <3>2, <4>1
    <3> QED BY <3>3, <3>4
  <2>4. CASE AfterHead(req, TRUE) = "COMPLETE" /\ L = 0
    <3>1. n = p /\ ~(n < p + L)
      BY <1>0, <1>9, <2>4
    <3>2. a[p] = At("COMPLETE", req, p + 1, k) /\ a[p].state = "COMPLETE" /\ a[p].request = req
      <4> HIDE DEF req, p
      <4>1. a[p] = At("COMPLETE", req, p + 1, k)
        BY ONLY <2>1, <2>4
      <4> QED BY <4>1 DEF At
    <3>3. c = a[p]
      <4>1. p \in 0 .. Len(msg) + 1
        BY <1>0, <1>1, <3>1
      <4> HIDE DEF p
      <4> QED BY <1>5, <3>2, <4>1, StaysDone
    <3>4. r.body = <<>>
      BY <2>4, EmptySeq DEF WellFormed
    <3> QED BY <1>2, <3>1, <3>2, <3>3, <3>4
  <2> QED BY <2>2, <2>3, <2>4
<1> QED BY <1>0, <1>8, <1>9

\* A later read of the body: the body, if that read has all of it.
LEMMA ParsesBody ==
  ASSUME NEW r, WellFormed(r), NEW s, NEW k, NEW msg \in Seq(Symbols),
         NEW c, c = ParaseRequest(At("BODY", HeadMeant(r), s, k), msg)
  PROVE  /\ Len(msg) >= Len(r.body) =>
              c.state = "COMPLETE" /\ c.request = WithBody(HeadMeant(r), msg)
         /\ Len(msg) < Len(r.body) => c = At("BODY", HeadMeant(r), 1, 1)
<1> DEFINE req == HeadMeant(r)
           L == Len(r.body)
           cx == At("BODY", req, s, k)
           n == Len(msg)
<1>0. n \in Nat /\ L \in Nat
  BY RequestText
<1>1. ContentLength(req) = L /\ req = WithBody(req, <<>>)
  BY MeantParts
<1>2. Restart(cx) = At("BODY", req, 1, 1)
  BY RestartsAt
<1> HIDE DEF cx, req, L, n
<1>3. PICK a : Trace(cx, msg, Len(msg) + 1, a) /\ ParaseRequest(cx, msg) = a[Len(msg) + 1]
  BY <1>0, ParsesByTrace DEF n
<1>4. Follows(cx, msg, a) /\ c = a[Len(msg) + 1]
  BY <1>0, <1>3 DEF Follows, cx, req, n
<1>5. a[0] = At("BODY", req, 1, 1)
  BY <1>0, <1>2, <1>4 DEF Follows, Trace, n
<1>6. PICK p \in 0 .. Len(msg) : p = 0
  BY <1>0 DEF n
<1>7. PICK q : q = p + 1 /\ q = 1
  BY <1>6
<1>8. a[p] = At("BODY", req, p + 1, 1) /\ ContentLength(req) \in Nat
  BY <1>0, <1>1, <1>5, <1>6, <1>7
<1>9. a[Len(msg) + 1] =
        IF Len(msg) - p >= ContentLength(req)
        THEN At("COMPLETE", WithBody(req, SubSeq(msg, p + 1, Len(msg))), p + 1, 1)
        ELSE At("BODY", WithBody(req, <<>>), p + 1, 1)
  BY ONLY msg \in Seq(Symbols), p \in 0 .. Len(msg), <1>4, <1>8, ReadsBody
<1>10. SubSeq(msg, p + 1, Len(msg)) = msg
  <2>1. SubSeq(msg, 1, Len(msg)) = msg
    BY SubSeqFull
  <2> QED BY <1>6, <2>1
<1>11. p + 1 = 1 /\ Len(msg) - p = n
  BY <1>0, <1>6 DEF n
<1>12. c = IF n >= L THEN At("COMPLETE", WithBody(req, msg), 1, 1) ELSE At("BODY", req, 1, 1)
  BY <1>1, <1>4, <1>9, <1>10, <1>11
<1>13. ASSUME n >= L PROVE c.state = "COMPLETE" /\ c.request = WithBody(req, msg)
  BY <1>12, <1>13 DEF At
<1>14. ASSUME n < L PROVE c = At("BODY", req, 1, 1)
  BY <1>0, <1>12, <1>14
<1> QED BY <1>0, <1>13, <1>14 DEF n, L, req
-----------------------------------------------------------------------------
(* The server's invariant                                                  *)

\* Bytes of answer k from p on.
BytesOf(k, p, n) == [i \in 1 .. n |-> <<k, p + i>>]

\* What sendfile() has not taken of a file that nothing was skipped of.
FileLeft == IF file = NoFile THEN <<>> ELSE BytesOf(Len(answers), HeadLen, file.size)

Seen == {<<>>} \cup {<<Meant(r)>> : r \in Requests}
AnswerSet == [seen : Seen, bytes : Seq(Byte)]

Answered ==
  /\ answers \in Seq(AnswerSet)
  /\ Len(asked) \in {Len(answers), Len(answers) + 1}

\* A connected client waits with its request unread, or its body, or nothing.
Waiting ==
  \/ Len(asked) = Len(answers) /\ unread = <<>> /\ context = NewContext
  \/ /\ Len(asked) = Len(answers) + 1
     /\ LET r == asked[Len(asked)]
        IN  \/ context = NewContext /\ unread \in {<<>>, Render(r)}
            \/ /\ \E s, k : context = At("BODY", HeadMeant(r), s, k)
               /\ \E i \in 1 .. Len(r.body) + 1 : unread = SubSeq(r.body, i, Len(r.body))

\* Every byte is sent once; the last one is the end of the last answer.
SentOnce ==
  /\ \A i \in 1 .. Len(Sent) : Sent[i][1] <= Len(answers)
  /\ answers # <<>> =>
       /\ Len(Sent) > 0
       /\ Sent[Len(Sent)] \in {answers[Len(answers)].bytes[i] : i \in DOMAIN answers[Len(answers)].bytes}
       /\ \A i \in 1 .. Len(Sent) - 1 : Sent[i] # Sent[Len(Sent)]

\* The bytes on their way, unless sendfile() skips some.
OnTheWay ==
  /\ "close" \notin lost => received \o socket \o output \o FileLeft = Sent
  /\ "close" \in lost => IsPrefix(received \o socket \o output, Sent)
  /\ file # NoFile => output = <<>> /\ file.offset = 0
  /\ Len(asked) = Len(answers) + 1 => socket = <<>> /\ output = <<>> /\ file = NoFile

HttpIInv ==
  /\ HttpTypeOK /\ reads \in Seq(Nat \ {0}) /\ Len(socket) <= SndCap
  /\ Answered /\ RequestIsExact
  /\ state = "Connected" => Waiting
  /\ SentOnce
  /\ file # NoFile => answers # <<>> /\ "close" \notin lost /\ file.size # 0
  /\ "close" \in lost => output = <<>> /\ state = "Disconected"
  /\ "skip" \notin lost => OnTheWay
-----------------------------------------------------------------------------
(* Sequences cut and joined                                                *)

LEMMA CutSeq ==
  ASSUME NEW S, NEW m \in Seq(S), NEW t \in 0 .. Len(m)
  PROVE  /\ SubSeq(m, 1, t) \in Seq(S) /\ Len(SubSeq(m, 1, t)) = t
         /\ SubSeq(m, t + 1, Len(m)) \in Seq(S) /\ Len(SubSeq(m, t + 1, Len(m))) = Len(m) - t
         /\ \A i \in 1 .. t : SubSeq(m, 1, t)[i] = m[i]
         /\ \A i \in 1 .. Len(m) - t : SubSeq(m, t + 1, Len(m))[i] = m[t + i]
<1>0. Len(m) \in Nat /\ t \in Nat /\ t <= Len(m) /\ \A i \in 1 .. Len(m) : m[i] \in S
  BY ElementOfSeq
<1>1. /\ SubSeq(m, 1, t) \in Seq(S) /\ Len(SubSeq(m, 1, t)) = t
      /\ \A i \in 1 .. t : SubSeq(m, 1, t)[i] = m[i]
  BY <1>0, SubSeqProperties
<1>2. PICK q \in Int : q = t + 1
  BY <1>0
<1>3. \A i \in q .. Len(m) : m[i] \in S
  BY <1>0, <1>2
<1>4. /\ SubSeq(m, q, Len(m)) \in Seq(S)
      /\ Len(SubSeq(m, q, Len(m))) = (IF q <= Len(m) THEN Len(m) - q + 1 ELSE 0)
      /\ \A i \in 1 .. Len(m) - q + 1 : SubSeq(m, q, Len(m))[i] = m[q + i - 1]
  BY <1>0, <1>3, SubSeqProperties
<1>5. (IF q <= Len(m) THEN Len(m) - q + 1 ELSE 0) = Len(m) - t /\ Len(m) - q + 1 = Len(m) - t
  BY <1>0, <1>2
<1>6. \A i \in 1 .. Len(m) - t : q + i - 1 = t + i
  BY <1>0, <1>2
<1> QED BY <1>1, <1>2, <1>4, <1>5, <1>6

LEMMA CutAndJoin ==
  ASSUME NEW S, NEW m \in Seq(S), NEW t \in 0 .. Len(m)
  PROVE  SubSeq(m, 1, t) \o SubSeq(m, t + 1, Len(m)) = m
<1> DEFINE a == SubSeq(m, 1, t)
           b == SubSeq(m, t + 1, Len(m))
<1>0. Len(m) \in Nat /\ t \in Nat /\ t <= Len(m)
  OBVIOUS
<1>1. /\ a \in Seq(S) /\ Len(a) = t /\ b \in Seq(S) /\ Len(b) = Len(m) - t
      /\ \A i \in 1 .. t : a[i] = m[i]
      /\ \A i \in 1 .. Len(m) - t : b[i] = m[t + i]
  BY CutSeq
<1> HIDE DEF a, b
<1>2. /\ a \o b \in Seq(S) /\ Len(a \o b) = Len(a) + Len(b)
      /\ \A i \in 1 .. Len(a) : (a \o b)[i] = a[i]
      /\ \A i \in 1 .. Len(b) : (a \o b)[Len(a) + i] = b[i]
  BY <1>1, ConcatAt
<1>3. Len(a \o b) = Len(m)
  BY <1>0, <1>1, <1>2
<1>4. ASSUME NEW i \in 1 .. Len(m) PROVE (a \o b)[i] = m[i]
  <2>1. CASE i <= t
    <3>1. i \in 1 .. t
      BY <1>0, <2>1
    <3> QED BY <1>1, <1>2, <3>1
  <2>2. CASE ~(i <= t)
    <3>1. i - t \in 1 .. Len(m) - t /\ t + (i - t) = i
      BY <1>0, <2>2
    <3>2. (a \o b)[t + (i - t)] = b[i - t] /\ b[i - t] = m[t + (i - t)]
      BY <1>1, <1>2, <3>1
    <3> QED BY <3>1, <3>2
  <2> QED BY <2>1, <2>2
<1>5. a \o b = m
  BY <1>2, <1>3, <1>4, SeqEqual
<1> QED BY <1>5 DEF a, b

LEMMA JoinSeqs ==
  ASSUME NEW S, NEW a \in Seq(S), NEW b \in Seq(S), NEW c \in Seq(S)
  PROVE  /\ (a \o b) \o c = a \o (b \o c) /\ a \o b \in Seq(S)
         /\ a \o <<>> = a /\ <<>> \o a = a
BY ConcatAssociative, ConcatProperties, ConcatEmptySeq, SMTT(40)

\* Nothing is behind the whole.
LEMMA NothingBehind ==
  ASSUME NEW S, NEW a \in Seq(S), NEW b \in Seq(S), NEW whole, a \o b = whole,
         Len(whole) > 0, NEW i \in 1 .. Len(a), a[i] = whole[Len(whole)],
         \A j \in 1 .. Len(whole) - 1 : whole[j] # whole[Len(whole)]
  PROVE  b = <<>>
<1>1. /\ whole \in Seq(S) /\ Len(whole) = Len(a) + Len(b)
      /\ \A j \in 1 .. Len(a) : whole[j] = a[j]
  BY ConcatAt, ZenonT(60)
<1>2. Len(a) \in Nat /\ Len(b) \in Nat
  OBVIOUS
<1>3. i = Len(whole)
  BY <1>1, <1>2
<1>4. Len(b) = 0
  BY <1>1, <1>2, <1>3
<1> QED BY <1>4, EmptySeq

-----------------------------------------------------------------------------
(* What the answers sent are                                               *)

SentOf(list) == FlattenSeq([k \in DOMAIN list |-> list[k].bytes])

LEMMA SentOfType ==
  ASSUME NEW R, NEW S, \A e \in R : e.bytes \in Seq(S), NEW list \in Seq(R)
  PROVE  SentOf(list) \in Seq(S)
<1> DEFINE f == [k \in DOMAIN list |-> list[k].bytes]
<1>1. \A k \in 1 .. Len(list) : list[k].bytes \in Seq(S)
  BY ElementOfSeq
<1>2. DOMAIN list = 1 .. Len(list) /\ Len(list) \in Nat
  OBVIOUS
<1>3. f \in Seq(Seq(S))
  BY <1>1, <1>2
<1> HIDE DEF f
<1> QED BY <1>3, FlattenType DEF SentOf, f

LEMMA SentOfAppend ==
  ASSUME NEW R, NEW S, \A e \in R : e.bytes \in Seq(S), NEW list \in Seq(R), NEW x \in R
  PROVE  SentOf(Append(list, x)) = SentOf(list) \o x.bytes
<1> DEFINE f == [k \in DOMAIN list |-> list[k].bytes]
           bs == Append(list, x)
           g == [k \in DOMAIN bs |-> bs[k].bytes]
           b == x.bytes
<1>0. DOMAIN list = 1 .. Len(list) /\ Len(list) \in Nat /\ b \in Seq(S)
  OBVIOUS
<1>1. \A k \in 1 .. Len(list) : list[k].bytes \in Seq(S)
  BY ElementOfSeq
<1>2. f \in Seq(Seq(S)) /\ Len(f) = Len(list) /\ \A k \in 1 .. Len(list) : f[k] = list[k].bytes
  BY <1>0, <1>1
<1>3. /\ bs \in Seq(R) /\ Len(bs) = Len(list) + 1
      /\ \A k \in 1 .. Len(list) : bs[k] = list[k]
  BY AppendProperties
<1>4. bs[Len(list) + 1] = x
  BY AppendProperties
<1>5. DOMAIN bs = 1 .. Len(list) + 1
  BY <1>3
<1> HIDE DEF f, b, bs
<1>6. /\ Append(f, b) \in Seq(Seq(S)) /\ Len(Append(f, b)) = Len(list) + 1
      /\ \A k \in 1 .. Len(list) : Append(f, b)[k] = f[k]
      /\ Append(f, b)[Len(list) + 1] = b
  BY <1>0, <1>2, AppendProperties
<1>7. \A k \in 1 .. Len(list) + 1 : bs[k].bytes = Append(f, b)[k]
  <2> TAKE k \in 1 .. Len(list) + 1
  <2>1. k \in 1 .. Len(list) \/ k = Len(list) + 1
    BY <1>0
  <2> QED BY <1>2, <1>3, <1>4, <1>6, <2>1 DEF b
<1>8. g \in Seq(Seq(S)) /\ Len(g) = Len(list) + 1 /\ \A k \in 1 .. Len(list) + 1 : g[k] = Append(f, b)[k]
  <2>1. \A k \in 1 .. Len(list) + 1 : bs[k].bytes \in Seq(S)
    BY <1>3, ElementOfSeq
  <2>2. PICK n \in Nat : n = Len(list) + 1
    BY <1>0
  <2>3. g = [k \in 1 .. n |-> bs[k].bytes]
    BY <1>5, <2>2
  <2> HIDE DEF g
  <2>4. g \in Seq(Seq(S)) /\ Len(g) = n /\ \A k \in 1 .. n : g[k] = bs[k].bytes
    BY <2>1, <2>2, <2>3
  <2> QED BY <1>7, <2>2, <2>4
<1> HIDE DEF g
<1>9. g = Append(f, b)
  BY <1>6, <1>8, SeqEqual
<1>10. FlattenSeq(Append(f, b)) = FlattenSeq(f) \o b
  BY <1>0, <1>2, FlattenAppend
<1> QED BY <1>9, <1>10 DEF SentOf, f, g, b, bs
LEMMA SentIs ==
  ASSUME Answered
  PROVE  Sent = SentOf(answers) /\ Sent \in Seq(Byte)
<1>1. \A e \in AnswerSet : e.bytes \in Seq(Byte)
  BY DEF AnswerSet
<1>2. answers \in Seq(AnswerSet)
  BY DEF Answered
<1>3. SentOf(answers) \in Seq(Byte)
  BY <1>1, <1>2, SentOfType
<1> QED BY <1>3 DEF Sent, SentOf

LEMMA BytesAre ==
  ASSUME NEW k \in 1 .. MaxRequests, NEW p \in Nat, NEW n \in Nat
  PROVE  /\ BytesOf(k, p, n) \in Seq(Byte) /\ Len(BytesOf(k, p, n)) = n
         /\ \A i \in 1 .. n : BytesOf(k, p, n)[i] = <<k, p + i>>
         /\ [i \in 1 .. n |-> <<k, i>>] = BytesOf(k, 0, n)
<1>1. \A i \in 1 .. n : <<k, p + i>> \in Byte
  BY DEF Byte
<1>2. BytesOf(k, p, n) \in Seq(Byte)
  BY <1>1 DEF BytesOf
<1>3. Len(BytesOf(k, p, n)) = n /\ \A i \in 1 .. n : BytesOf(k, p, n)[i] = <<k, p + i>>
  BY DEF BytesOf
<1>4. [i \in 1 .. n |-> <<k, i>>] = BytesOf(k, 0, n)
  <2>1. \A i \in 1 .. n : 0 + i = i
    OBVIOUS
  <2> QED BY <2>1, Zenon DEF BytesOf
<1> QED BY <1>2, <1>3, <1>4

\* An answer's head and its file.
LEMMA BytesJoin ==
  ASSUME NEW k \in 1 .. MaxRequests, NEW p \in Nat, NEW n \in Nat
  PROVE  BytesOf(k, 0, p) \o BytesOf(k, p, n) = BytesOf(k, 0, p + n)
<1> DEFINE a == BytesOf(k, 0, p)
           b == BytesOf(k, p, n)
           c == BytesOf(k, 0, p + n)
<1>1. a \in Seq(Byte) /\ Len(a) = p /\ \A i \in 1 .. p : a[i] = <<k, 0 + i>>
  <2>1. PICK z \in Nat : z = 0
    OBVIOUS
  <2>2. /\ BytesOf(k, z, p) \in Seq(Byte) /\ Len(BytesOf(k, z, p)) = p
        /\ \A i \in 1 .. p : BytesOf(k, z, p)[i] = <<k, z + i>>
    BY BytesAre
  <2> QED BY <2>1, <2>2
<1>2. b \in Seq(Byte) /\ Len(b) = n /\ \A i \in 1 .. n : b[i] = <<k, p + i>>
  BY BytesAre
<1>3. c \in Seq(Byte) /\ Len(c) = p + n /\ \A i \in 1 .. p + n : c[i] = <<k, 0 + i>>
  <2>1. PICK z \in Nat : z = 0
    OBVIOUS
  <2>2. PICK m \in Nat : m = p + n
    OBVIOUS
  <2>3. /\ BytesOf(k, z, m) \in Seq(Byte) /\ Len(BytesOf(k, z, m)) = m
        /\ \A i \in 1 .. m : BytesOf(k, z, m)[i] = <<k, z + i>>
    BY BytesAre
  <2> QED BY <2>1, <2>2, <2>3
<1> HIDE DEF a, b, c
<1>4. /\ a \o b \in Seq(Byte) /\ Len(a \o b) = Len(a) + Len(b)
      /\ \A i \in 1 .. Len(a) : (a \o b)[i] = a[i]
      /\ \A i \in 1 .. Len(b) : (a \o b)[Len(a) + i] = b[i]
  <2>1. a \in Seq(Byte) /\ b \in Seq(Byte)
    BY <1>1, <1>2
  <2> QED BY ONLY <2>1, ConcatAt
<1>5. ASSUME NEW i \in 1 .. p + n PROVE (a \o b)[i] = c[i]
  <2>1. c[i] = <<k, i>>
    <3>1. 0 + i = i
      OBVIOUS
    <3> QED BY <1>3, <3>1
  <2>2. CASE i <= p
    <3>1. i \in 1 .. p /\ 0 + i = i
      BY <2>2
    <3> QED BY <1>1, <1>4, <2>1, <3>1
  <2>3. CASE ~(i <= p)
    <3>1. PICK j \in 1 .. n : i = p + j
      <4>1. i - p \in 1 .. n /\ i = p + (i - p)
        BY <2>3
      <4> QED BY <4>1
    <3>2. (a \o b)[p + j] = b[j] /\ b[j] = <<k, p + j>>
      BY <1>1, <1>2, <1>4
    <3> QED BY <2>1, <3>1, <3>2
  <2> QED BY <2>2, <2>3
<1>6. a \o b = c
  BY <1>1, <1>2, <1>3, <1>4, <1>5, SeqEqual
<1> QED BY <1>6 DEF a, b, c

-----------------------------------------------------------------------------
(* What the socket takes                                                   *)

LEMMA Takes ==
  ASSUME Len(socket) \in Nat, Len(socket) <= SndCap, NEW n \in Nat
  PROVE  Min2(Space, n) \in 0 .. n /\ Len(socket) + Min2(Space, n) <= SndCap
<1>1. SndCap \in Nat
  BY HttpAssumption
<1> QED BY <1>1 DEF Min2, Space

LEMMA Sends ==
  ASSUME socket \in Seq(Byte), Len(socket) <= SndCap, NEW m \in Seq(Byte),
         socket' = socket \o SubSeq(m, 1, Min2(Space, Len(m))),
         output' = SubSeq(m, Min2(Space, Len(m)) + 1, Len(m))
  PROVE  /\ socket' \in Seq(Byte) /\ output' \in Seq(Byte) /\ Len(socket') <= SndCap
         /\ socket' \o output' = socket \o m
         /\ socket = <<>> /\ Len(m) <= SndCap => output' = <<>>
<1> DEFINE t == Min2(Space, Len(m))
           a == SubSeq(m, 1, t)
           b == SubSeq(m, t + 1, Len(m))
<1>1. t \in 0 .. Len(m) /\ Len(socket) + t <= SndCap /\ Len(socket) \in Nat /\ Len(m) \in Nat
  <2>1. Len(socket) \in Nat /\ Len(m) \in Nat
    OBVIOUS
  <2> HIDE DEF t
  <2> QED BY <2>1, Takes DEF t
<1>2. a \in Seq(Byte) /\ Len(a) = t /\ b \in Seq(Byte) /\ Len(b) = Len(m) - t
  BY <1>1, CutSeq
<1>3. a \o b = m
  BY <1>1, CutAndJoin
<1>4. socket' = socket \o a /\ output' = b
  OBVIOUS
<1>5. ASSUME socket = <<>>, Len(m) <= SndCap PROVE t = Len(m)
  <2>1. Len(socket) = 0
    BY <1>5
  <2> QED BY <1>5, <2>1, HttpAssumption DEF Min2, Space
<1> HIDE DEF a, b, t
<1>6. socket' \in Seq(Byte) /\ Len(socket') = Len(socket) + t
  BY <1>2, <1>4, ConcatProperties
<1>7. socket' \o output' = socket \o m
  <2>1. (socket \o a) \o b = socket \o (a \o b)
    <3>1. socket \in Seq(Byte) /\ a \in Seq(Byte) /\ b \in Seq(Byte)
      BY <1>2
    <3> QED BY ONLY <3>1, JoinSeqs
  <2> QED BY <1>3, <1>4, <2>1
<1>8. ASSUME socket = <<>>, Len(m) <= SndCap PROVE output' = <<>>
  <2>1. Len(b) = 0
    BY <1>1, <1>2, <1>5, <1>8
  <2> QED BY <1>2, <1>4, <2>1, EmptySeq
<1> QED BY <1>1, <1>2, <1>4, <1>6, <1>7, <1>8

\* Send keeps the rest; it is nothing when all was taken.
LEMMA SendSends ==
  ASSUME socket \in Seq(Byte), Len(socket) <= SndCap, NEW m \in Seq(Byte), Send(m)
  PROVE  /\ socket' \in Seq(Byte) /\ output' \in Seq(Byte) /\ Len(socket') <= SndCap
         /\ socket' \o output' = socket \o m
         /\ socket = <<>> /\ Len(m) <= SndCap => output' = <<>>
<1> DEFINE t == Min2(Space, Len(m))
<1>1. t \in 0 .. Len(m) /\ Len(m) \in Nat
  <2>1. Len(socket) \in Nat /\ Len(m) \in Nat
    OBVIOUS
  <2> HIDE DEF t
  <2> QED BY <2>1, Takes DEF t
<1>2. /\ socket' = socket \o SubSeq(m, 1, t)
      /\ output' = IF t < Len(m) THEN SubSeq(m, t + 1, Len(m)) ELSE <<>>
  BY DEF Send, Rest
<1>3. ~(t < Len(m)) => SubSeq(m, t + 1, Len(m)) = <<>>
  <2> HIDE DEF t
  <2>1. SUFFICES ASSUME ~(t < Len(m)) PROVE SubSeq(m, t + 1, Len(m)) = <<>>
    OBVIOUS
  <2>2. t = Len(m)
    BY <1>1, <2>1
  <2>3. SubSeq(m, t + 1, Len(m)) \in Seq(Byte) /\ Len(SubSeq(m, t + 1, Len(m))) = Len(m) - t
    BY <1>1, CutSeq
  <2>4. Len(SubSeq(m, t + 1, Len(m))) = 0
    BY <1>1, <2>2, <2>3
  <2> QED BY <2>3, <2>4, EmptySeq
<1>4. output' = SubSeq(m, t + 1, Len(m))
  BY <1>2, <1>3
<1> QED BY <1>2, <1>4, Sends
-----------------------------------------------------------------------------
(* An answer                                                               *)

LEMMA ByteNumbers ==
  ASSUME NEW e \in Byte
  PROVE  e[1] \in Nat
<1>1. MaxRequests \in Nat
  BY HttpAssumption
<1> QED BY <1>1 DEF Byte

\* The last byte of w is that of b and nowhere else; no answer behind k.
EndsOnce(w, b, k) ==
  /\ w \in Seq(Byte) /\ Len(w) > 0
  /\ Len(b) \in DOMAIN b /\ w[Len(w)] = b[Len(b)]
  /\ \A i \in 1 .. Len(w) : w[i][1] <= k
  /\ \A i \in 1 .. Len(w) - 1 : w[i] # w[Len(w)]

LEMMA LastOnce ==
  ASSUME NEW k \in Nat, NEW U \in Seq(Byte), \A i \in 1 .. Len(U) : U[i][1] < k,
         NEW b \in Seq(Byte), Len(b) > 0, \A i \in 1 .. Len(b) : b[i] = <<k, i>>
  PROVE  EndsOnce(U \o b, b, k)
<1> DEFINE W == U \o b
<1>1. PICK n \in Nat : n = Len(b)
  OBVIOUS
<1>2. b \in Seq(Byte) /\ Len(b) = n /\ \A i \in 1 .. n : b[i] = <<k, i>>
  BY <1>1
<1>3. /\ W \in Seq(Byte) /\ Len(W) = Len(U) + n
      /\ \A i \in 1 .. Len(U) : W[i] = U[i]
      /\ \A i \in 1 .. n : W[Len(U) + i] = <<k, i>>
  <2>1. U \in Seq(Byte) /\ b \in Seq(Byte)
    BY <1>2
  <2>2. /\ U \o b \in Seq(Byte) /\ Len(U \o b) = Len(U) + Len(b)
        /\ \A i \in 1 .. Len(U) : (U \o b)[i] = U[i]
        /\ \A i \in 1 .. Len(b) : (U \o b)[Len(U) + i] = b[i]
    BY ONLY <2>1, ConcatAt
  <2> QED BY <1>2, <2>2
<1> HIDE DEF W
<1>4. Len(U) \in Nat /\ n \in Nat /\ n >= 1 /\ k \in Nat
  BY <1>1
<1>5. ASSUME NEW i \in 1 .. Len(W)
      PROVE  \/ i \in 1 .. Len(U) /\ W[i] = U[i]
             \/ \E j \in 1 .. n : i = Len(U) + j /\ W[i] = <<k, j>>
  <2>1. CASE i <= Len(U)
    BY <1>3, <1>4, <2>1
  <2>2. CASE ~(i <= Len(U))
    <3>1. i - Len(U) \in 1 .. n /\ i = Len(U) + (i - Len(U))
      BY <1>3, <1>4, <2>2
    <3>2. W[Len(U) + (i - Len(U))] = <<k, i - Len(U)>>
      BY <1>3, <3>1
    <3> QED BY <3>1, <3>2
  <2> QED BY <2>1, <2>2
<1>6. ASSUME NEW i \in 1 .. Len(W) PROVE W[i][1] <= k
  <2>1. CASE i \in 1 .. Len(U) /\ W[i] = U[i]
    <3>1. U[i] \in Byte
      BY <2>1, ElementOfSeq
    <3>2. U[i][1] \in Nat
      BY <3>1, ByteNumbers
    <3> QED BY <2>1, <3>2
  <2>2. CASE \E j \in 1 .. n : i = Len(U) + j /\ W[i] = <<k, j>>
    BY <1>1, <2>2
  <2> QED BY <1>5, <2>1, <2>2
<1>7. Len(W) = Len(U) + n /\ n \in 1 .. n /\ W[Len(U) + n] = <<k, n>>
  BY <1>3, <1>4
<1>8. W[Len(W)] = <<k, n>>
  BY <1>7
<1>9. ASSUME NEW i \in 1 .. Len(W) - 1 PROVE W[i] # <<k, n>>
  <2>1. i \in 1 .. Len(W) /\ i < Len(U) + n
    BY <1>3, <1>4
  <2>2. CASE i \in 1 .. Len(U) /\ W[i] = U[i]
    <3>1. W[i][1] < k
      BY <2>2
    <3>2. W[i] \in Byte
      BY <2>2, ElementOfSeq
    <3>3. W[i][1] \in Nat
      BY <3>2, ByteNumbers
    <3>4. W[i][1] # k
      BY <1>1, <3>1, <3>3
    <3> QED BY <3>4
  <2>3. CASE \E j \in 1 .. n : i = Len(U) + j /\ W[i] = <<k, j>>
    <3>1. PICK j \in 1 .. n : i = Len(U) + j /\ W[i] = <<k, j>>
      BY <2>3
    <3>2. j # n
      BY <1>4, <2>1, <3>1
    <3> QED BY <3>1, <3>2
  <2> QED BY <1>5, <2>1, <2>2, <2>3
<1>10. n \in DOMAIN b /\ b[n] = <<k, n>>
  BY <1>2, <1>4
<1>11. W \in Seq(Byte) /\ Len(W) > 0
  BY <1>3, <1>4
<1>12. Len(b) \in DOMAIN b /\ W[Len(W)] = b[Len(b)]
  BY <1>1, <1>8, <1>10
<1>13. ASSUME NEW i \in 1 .. Len(W) - 1 PROVE W[i] # W[Len(W)]
  BY <1>8, <1>9
<1> QED BY ONLY <1>6, <1>11, <1>12, <1>13 DEF W, EndsOnce

LEMMA AnswerGrows ==
  ASSUME Answered, RequestIsExact, SentOnce, asked \in Seq(Requests), Len(asked) <= MaxRequests,
         Len(asked) = Len(answers) + 1, NEW seen \in Seen,
         seen \in {<<>>, <<Meant(asked[Len(asked)])>>}, NEW n \in Nat \ {0},
         Answer(seen, n), asked' = asked
  PROVE  /\ answers' \in Seq(AnswerSet) /\ Len(answers') = Len(answers) + 1
         /\ Len(answers') = Len(asked) /\ answers' # <<>> /\ Len(asked) \in 1 .. MaxRequests
         /\ Sent \in Seq(Byte) /\ Sent' = Sent \o BytesOf(Len(asked), 0, n)
         /\ RequestIsExact' /\ SentOnce'
<1> DEFINE K == Len(answers)
           b == BytesOf(K + 1, 0, n)
           x == [seen |-> seen, bytes |-> b]
<1>0. answers \in Seq(AnswerSet) /\ K \in Nat /\ Len(asked) = K + 1 /\ K + 1 \in 1 .. MaxRequests
  <2>1. answers \in Seq(AnswerSet)
    BY DEF Answered
  <2>2. K \in Nat
    BY <2>1
  <2>3. MaxRequests \in Nat
    BY HttpAssumption
  <2> QED BY <2>1, <2>2, <2>3
<1>1. b \in Seq(Byte)
  <2>1. PICK k \in 1 .. MaxRequests : k = K + 1
    BY <1>0
  <2>2. PICK z \in Nat : z = 0
    OBVIOUS
  <2>3. n \in Nat
    OBVIOUS
  <2>4. BytesOf(k, z, n) \in Seq(Byte)
    BY ONLY <2>3, k \in 1 .. MaxRequests, z \in Nat, BytesAre
  <2> QED BY <2>1, <2>2, <2>4
<1>2. [i \in 1 .. n |-> <<Len(asked), i>>] = b
  <2>1. PICK k \in 1 .. MaxRequests : k = K + 1
    BY <1>0
  <2>2. n \in Nat
    OBVIOUS
  <2>3. [i \in 1 .. n |-> <<k, i>>] = BytesOf(k, 0, n)
    BY ONLY <2>2, k \in 1 .. MaxRequests, 0 \in Nat, BytesAre
  <2> QED BY <1>0, <2>1, <2>3
<1>3. answers' = Append(answers, x)
  BY <1>2 DEF Answer
<1>4. x \in AnswerSet
  BY <1>1 DEF AnswerSet
<1>5. x.seen = seen /\ x.bytes = b
  OBVIOUS
<1> HIDE DEF x, b
<1>6. /\ answers' \in Seq(AnswerSet) /\ Len(answers') = K + 1
      /\ \A k \in 1 .. K : answers'[k] = answers[k]
      /\ answers'[K + 1] = x
  BY <1>0, <1>3, <1>4, AppendProperties
<1>7. answers' # <<>>
  BY <1>0, <1>6, EmptySeq
<1>8. Sent' = Sent \o b /\ Sent \in Seq(Byte)
  <2>1. \A e \in AnswerSet : e.bytes \in Seq(Byte)
    BY DEF AnswerSet
  <2>2. SentOf(Append(answers, x)) = SentOf(answers) \o x.bytes
    BY ONLY <1>0, <1>4, <2>1, SentOfAppend
  <2>3. Sent' = SentOf(answers')
    BY DEF Sent, SentOf
  <2> QED BY <1>3, <1>5, <2>2, <2>3, SentIs
<1>9. RequestIsExact'
  <2> SUFFICES ASSUME NEW k \in 1 .. K + 1
               PROVE  answers'[k].seen \in {<<>>, <<Meant(asked[k])>>}
    <3>1. DOMAIN answers' = 1 .. K + 1
      BY <1>6
    <3> QED BY <3>1 DEF RequestIsExact
  <2>1. CASE k = K + 1
    BY <1>0, <1>5, <1>6, <2>1
  <2>2. CASE k # K + 1
    <3>1. k \in 1 .. K
      BY <1>0, <2>2
    <3>2. k \in DOMAIN answers
      BY <1>0, <3>1
    <3> QED BY <1>6, <3>1, <3>2 DEF RequestIsExact
  <2> QED BY <2>1, <2>2
<1>10. /\ Sent' \in Seq(Byte) /\ Len(Sent') > 0 /\ n \in DOMAIN b /\ Sent'[Len(Sent')] = b[n]
       /\ \A i \in 1 .. Len(Sent') : Sent'[i][1] <= K + 1
       /\ \A i \in 1 .. Len(Sent') - 1 : Sent'[i] # Sent'[Len(Sent')]
  <2>1. PICK U : U = Sent
    OBVIOUS
  <2>3. PICK k \in 1 .. MaxRequests : k = K + 1
    BY <1>0
  <2>4. PICK d : d = b
    OBVIOUS
  <2>5. U \in Seq(Byte) /\ \A i \in 1 .. Len(U) : U[i][1] < k
    <3> SUFFICES ASSUME NEW i \in 1 .. Len(U) PROVE U[i][1] < k
      BY <1>8, <2>1
    <3>1. U[i] \in Byte
      BY <1>8, <2>1, ElementOfSeq
    <3>2. U[i][1] \in Nat
      BY <3>1, ByteNumbers
    <3>3. U[i][1] <= K
      BY <2>1 DEF SentOnce
    <3> QED BY <1>0, <2>3, <3>2, <3>3
  <2>6. d \in Seq(Byte) /\ Len(d) = n /\ \A i \in 1 .. n : d[i] = <<k, i>>
    <3>1. PICK z \in Nat : z = 0
      OBVIOUS
    <3>2. n \in Nat
      OBVIOUS
    <3>3. /\ BytesOf(k, z, n) \in Seq(Byte) /\ Len(BytesOf(k, z, n)) = n
          /\ \A i \in 1 .. n : BytesOf(k, z, n)[i] = <<k, z + i>>
      BY ONLY <3>2, k \in 1 .. MaxRequests, z \in Nat, BytesAre
    <3>4. d = BytesOf(k, z, n) /\ \A i \in 1 .. n : z + i = i
      BY <2>3, <2>4, <3>1 DEF b
    <3> QED BY <3>3, <3>4
  <2>7. k \in Nat /\ n \in Nat /\ n >= 1
    BY <1>0, <2>3
  <2>8. EndsOnce(U \o d, d, k)
    <3>1. U \in Seq(Byte) /\ \A i \in 1 .. Len(U) : U[i][1] < k
      BY <2>5
    <3>2. d \in Seq(Byte) /\ Len(d) > 0 /\ \A i \in 1 .. Len(d) : d[i] = <<k, i>>
      BY <2>6, <2>7
    <3>3. k \in Nat
      BY <2>7
    <3> QED BY ONLY <3>1, <3>2, <3>3, LastOnce
  <2>9. Sent' = U \o d
    BY <1>8, <2>1, <2>4
  <2>10. EndsOnce(Sent', b, K + 1) /\ Len(b) = n
    BY <2>3, <2>4, <2>6, <2>8, <2>9
  <2> QED BY <2>10 DEF EndsOnce
<1>11. SentOnce'
  <2>1. answers'[Len(answers')].bytes = b
    BY <1>5, <1>6
  <2>2. Sent'[Len(Sent')] \in {answers'[Len(answers')].bytes[i] : i \in DOMAIN answers'[Len(answers')].bytes}
    BY <1>10, <2>1
  <2> QED BY <1>6, <1>10, <2>2 DEF SentOnce
<1> QED BY <1>0, <1>6, <1>7, <1>8, <1>9, <1>11 DEF b
-----------------------------------------------------------------------------
(* Steps that leave the requests and the answers alone                     *)

LEMMA TypesOfHttp ==
  ASSUME HttpTypeOK
  PROVE  /\ asked \in Seq(Requests) /\ Len(asked) <= MaxRequests /\ Len(asked) \in Nat
         /\ state \in {"Connected", "Disconected"} /\ lost \subseteq {"abort", "close", "skip"}
         /\ output \in Seq(Byte) /\ socket \in Seq(Byte) /\ received \in Seq(Byte)
         /\ file.size \in FileLens \cup {0} /\ file.offset \in Nat /\ file.closes \in BOOLEAN
         /\ file \in [size : FileLens \cup {0}, offset : Nat, closes : BOOLEAN]
         /\ file = [size |-> file.size, offset |-> file.offset, closes |-> file.closes]
         /\ file.size \in Nat
<1>1. file \in [size : FileLens \cup {0}, offset : Nat, closes : BOOLEAN]
  BY DEF HttpTypeOK
<1>2. /\ file.size \in FileLens \cup {0} /\ file.offset \in Nat /\ file.closes \in BOOLEAN
      /\ file = [size |-> file.size, offset |-> file.offset, closes |-> file.closes]
  BY <1>1
<1>3. file.size \in Nat
  BY <1>2, HttpAssumption
<1>4. asked \in Seq(Requests) /\ Len(asked) <= MaxRequests /\ Len(asked) \in Nat
  BY DEF HttpTypeOK
<1>5. output \in Seq(Byte) /\ socket \in Seq(Byte) /\ received \in Seq(Byte)
  BY DEF HttpTypeOK
<1>6. state \in {"Connected", "Disconected"} /\ lost \subseteq {"abort", "close", "skip"}
  BY DEF HttpTypeOK
<1> QED BY <1>1, <1>2, <1>3, <1>4, <1>5, <1>6

LEMMA ToldStays ==
  ASSUME Answered, RequestIsExact, SentOnce, UNCHANGED <<asked, answers>>
  PROVE  Answered' /\ RequestIsExact' /\ SentOnce' /\ Sent' = Sent
<1>1. asked' = asked /\ answers' = answers
  OBVIOUS
<1>2. Sent' = Sent
  BY <1>1 DEF Sent
<1>3. Answered' /\ RequestIsExact'
  BY <1>1 DEF Answered, RequestIsExact
<1>4. SentOnce'
  BY <1>1, <1>2 DEF SentOnce
<1> QED BY <1>2, <1>3, <1>4

LEMMA WaitingStays ==
  ASSUME Waiting, UNCHANGED <<asked, unread, context, answers>>
  PROVE  Waiting'
BY DEF Waiting

LEMMA OnTheWayStays ==
  ASSUME OnTheWay, UNCHANGED <<asked, output, file, socket, received, answers, lost>>
  PROVE  OnTheWay'
<1>1. Sent' = Sent /\ FileLeft' = FileLeft
  BY DEF Sent, FileLeft
<1> QED BY <1>1 DEF OnTheWay

LEMMA StutterKeeps ==
  ASSUME HttpIInv, UNCHANGED httpVars
  PROVE  HttpIInv'
<1>1. /\ UNCHANGED <<asked, answers>> /\ UNCHANGED <<asked, unread, context, answers>>
      /\ UNCHANGED <<asked, output, file, socket, received, answers, lost>>
      /\ state' = state /\ reads' = reads
  BY DEF httpVars
<1>2. HttpTypeOK' /\ reads' \in Seq(Nat \ {0}) /\ Len(socket') <= SndCap
  BY <1>1 DEF HttpTypeOK, HttpIInv
<1>3. Answered' /\ RequestIsExact' /\ SentOnce'
  BY <1>1, ToldStays DEF HttpIInv
<1>4. state' = "Connected" => Waiting'
  BY <1>1, WaitingStays DEF HttpIInv
<1>5. "skip" \notin lost' => OnTheWay'
  BY <1>1, OnTheWayStays DEF HttpIInv
<1>6. /\ file' # NoFile => answers' # <<>> /\ "close" \notin lost' /\ file'.size # 0
      /\ "close" \in lost' => output' = <<>> /\ state' = "Disconected"
  BY <1>1 DEF HttpIInv
<1> QED BY <1>2, <1>3, <1>4, <1>5, <1>6 DEF HttpIInv, NoFile

LEMMA MoveFirst ==
  ASSUME NEW S, NEW a \in Seq(S), NEW b \in Seq(S), b # <<>>
  PROVE  /\ Append(a, b[1]) \in Seq(S) /\ Tail(b) \in Seq(S) /\ Len(Tail(b)) = Len(b) - 1
         /\ Append(a, b[1]) \o Tail(b) = a \o b
<1> DEFINE x == b[1]
           t == Tail(b)
<1>1. Len(b) \in Nat \ {0} /\ 1 \in 1 .. Len(b)
  BY EmptySeq
<1>2. x \in S /\ t \in Seq(S) /\ Len(t) = Len(b) - 1
  BY <1>1, ElementOfSeq, HeadTailProperties
<1>3. <<x>> \o t = b
  <2>1. 1 \in 1 .. Len(b) /\ Len(b) \in 1 .. Len(b)
    BY <1>1
  <2>2. SubSeq(b, 1, Len(b)) = <<b[1]>> \o SubSeq(b, 1 + 1, Len(b))
    BY <2>1, SubSeqRecursiveFirst
  <2>3. SubSeq(b, 1, Len(b)) = b /\ t = SubSeq(b, 2, Len(b))
    BY SubSeqFull, TailIsSubSeq
  <2> QED BY <2>2, <2>3
<1> HIDE DEF x, t
<1>4. Append(a, x) = a \o <<x>> /\ <<x>> \in Seq(S) /\ Append(a, x) \in Seq(S)
  BY <1>2, AppendIsConcat, AppendProperties
<1>5. (a \o <<x>>) \o t = a \o (<<x>> \o t)
  BY <1>2, <1>4, ConcatAssociative
<1> QED BY <1>2, <1>3, <1>4, <1>5 DEF x, t

LEMMA PrefixOfWhole ==
  ASSUME NEW S, NEW a \in Seq(S), NEW b \in Seq(S)
  PROVE  IsPrefix(a, a \o b)
<1>1. /\ a \o b \in Seq(S) /\ Len(a \o b) = Len(a) + Len(b)
      /\ \A i \in 1 .. Len(a) : (a \o b)[i] = a[i]
  BY ConcatAt
<1>2. Len(a) \in Nat /\ Len(b) \in Nat /\ Len(a) <= Len(a \o b)
  BY <1>1
<1> DEFINE w == a \o b
           n == Len(a)
<1>3. n \in 0 .. Len(w) /\ w \in Seq(S) /\ n \in 0 .. Len(a)
  BY <1>1, <1>2
<1> HIDE DEF w
<1>4. SubSeq(w, 1, n) \in Seq(S) /\ Len(SubSeq(w, 1, n)) = n /\ \A i \in 1 .. n : SubSeq(w, 1, n)[i] = w[i]
  BY <1>3, CutSeq
<1>5. SubSeq(a, 1, n) = a
  BY SubSeqFull
<1>6. SubSeq(w, 1, n) = a
  BY <1>1, <1>4, SeqEqual DEF w
<1> QED BY <1>2, <1>5, <1>6 DEF IsPrefix, w

\* Four sequences one behind the other.
\* Steps that send nothing new keep all but the bytes' places.
LEMMA FramedKeeps ==
  ASSUME HttpIInv, UNCHANGED <<asked, unread, reads, context, answers>>,
         state' = state \/ state' = "Disconected"
  PROVE  /\ Answered' /\ RequestIsExact' /\ SentOnce' /\ Sent' = Sent
         /\ state' = "Connected" => Waiting'
         /\ reads' \in Seq(Nat \ {0}) /\ asked' = asked /\ answers' = answers
<1>1. Answered' /\ RequestIsExact' /\ SentOnce' /\ Sent' = Sent
  BY ToldStays DEF HttpIInv
<1>2. state' = "Connected" => Waiting'
  BY WaitingStays DEF HttpIInv
<1> QED BY <1>1, <1>2 DEF HttpIInv

LEMMA FileLeftIs ==
  ASSUME HttpIInv
  PROVE  /\ FileLeft \in Seq(Byte)
         /\ file # NoFile => /\ Len(answers) \in 1 .. MaxRequests
                             /\ FileLeft = BytesOf(Len(answers), HeadLen, file.size)
         /\ file = NoFile => FileLeft = <<>>
<1>1. HeadLen \in Nat /\ MaxRequests \in Nat
  BY HttpAssumption
<1>2. file.size \in Nat /\ Len(asked) <= MaxRequests /\ Len(asked) \in Nat
  BY TypesOfHttp DEF HttpIInv
<1>3. Len(answers) \in Nat /\ (answers # <<>> => Len(answers) >= 1) /\ Len(answers) <= Len(asked)
  BY <1>2, EmptySeq DEF HttpIInv, Answered
<1>4. CASE file = NoFile
  BY <1>4, EmptySeq DEF FileLeft
<1>5. CASE file # NoFile
  <2>1. Len(answers) \in 1 .. MaxRequests
    BY <1>1, <1>2, <1>3, <1>5 DEF HttpIInv
  <2> QED BY <1>1, <1>2, <1>5, <2>1, BytesAre DEF FileLeft
<1> QED BY <1>4, <1>5

LEMMA ReadsKeep ==
  ASSUME HttpIInv, ClientReads
  PROVE  HttpIInv'
<1>0. HttpTypeOK /\ Len(socket) <= SndCap
  BY DEF HttpIInv
<1>1. /\ socket # <<>> /\ socket' = Tail(socket) /\ received' = Append(received, socket[1])
      /\ asked' = asked /\ unread' = unread /\ reads' = reads /\ context' = context
      /\ state' = state /\ output' = output /\ file' = file /\ answers' = answers /\ lost' = lost
  BY DEF ClientReads
<1>2. /\ received' \in Seq(Byte) /\ socket' \in Seq(Byte) /\ Len(socket') <= SndCap
      /\ received' \o socket' = received \o socket
  <2>1. received \in Seq(Byte) /\ socket \in Seq(Byte)
    BY <1>0, TypesOfHttp
  <2>2. /\ Append(received, socket[1]) \in Seq(Byte) /\ Tail(socket) \in Seq(Byte)
        /\ Len(Tail(socket)) = Len(socket) - 1
        /\ Append(received, socket[1]) \o Tail(socket) = received \o socket
    BY <1>1, <2>1, MoveFirst
  <2>3. Len(socket) \in Nat /\ SndCap \in Nat
    BY <2>1, HttpAssumption
  <2>4. Len(socket') <= SndCap
    BY <1>0, <1>1, <2>2, <2>3
  <2> QED BY <1>1, <2>2, <2>4
<1>3. HttpTypeOK'
  BY <1>0, <1>1, <1>2 DEF HttpTypeOK
<1>4. /\ Answered' /\ RequestIsExact' /\ SentOnce' /\ Sent' = Sent
      /\ state' = "Connected" => Waiting'
      /\ reads' \in Seq(Nat \ {0})
  BY <1>1, FramedKeeps
<1>5. ASSUME "skip" \notin lost' PROVE OnTheWay'
  <2>1. OnTheWay
    BY <1>1, <1>5 DEF HttpIInv
  <2>2. FileLeft' = FileLeft
    BY <1>1 DEF FileLeft
  <2>3. Len(asked) # Len(answers) + 1
    BY <1>1, <2>1 DEF OnTheWay
  <2> QED BY <1>1, <1>2, <1>4, <2>1, <2>2, <2>3 DEF OnTheWay, NoFile
<1>6. /\ file' # NoFile' => answers' # <<>> /\ "close" \notin lost' /\ file'.size # 0
      /\ "close" \in lost' => output' = <<>> /\ state' = "Disconected"
  BY <1>1 DEF HttpIInv, NoFile
<1> QED BY <1>2, <1>3, <1>4, <1>5, <1>6 DEF HttpIInv

LEMMA DestroyKeeps ==
  ASSUME HttpIInv, Destroy
  PROVE  HttpIInv'
<1>0. HttpTypeOK /\ Len(socket) <= SndCap
  BY DEF HttpIInv
<1>1. /\ file = NoFile /\ state = "Disconected" /\ output # <<>> /\ output' = <<>>
      /\ lost' = lost \cup {"close"}
      /\ asked' = asked /\ unread' = unread /\ reads' = reads /\ context' = context
      /\ state' = state /\ file' = file /\ socket' = socket /\ received' = received
      /\ answers' = answers
  BY DEF Destroy, Running
<1>2. HttpTypeOK' /\ Len(socket') <= SndCap
  BY <1>0, <1>1, EmptySeq DEF HttpTypeOK
<1>3. /\ Answered' /\ RequestIsExact' /\ SentOnce' /\ Sent' = Sent
      /\ state' = "Connected" => Waiting'
      /\ reads' \in Seq(Nat \ {0})
  BY <1>1, FramedKeeps
<1>4. ASSUME "skip" \notin lost' PROVE OnTheWay'
  <2>1. OnTheWay /\ "close" \notin lost
    BY <1>1, <1>4 DEF HttpIInv
  <2>2. received \o socket \o output \o <<>> = Sent
    BY <1>1, <2>1 DEF OnTheWay, FileLeft
  <2>3. /\ received \in Seq(Byte) /\ socket \in Seq(Byte) /\ output \in Seq(Byte) /\ <<>> \in Seq(Byte)
    BY <1>0, TypesOfHttp, EmptySeq
  <2>4. received \o socket \in Seq(Byte) /\ received \o socket \o <<>> = received \o socket
    BY <2>3, ConcatProperties, ConcatEmptySeq
  <2>5. IsPrefix(received \o socket, (received \o socket) \o output)
    BY <2>3, <2>4, PrefixOfWhole
  <2>50. received \o socket \o output \o <<>> = received \o socket \o output
    <3>1. received \o socket \o output \in Seq(Byte)
      BY <2>3, <2>4, ConcatProperties
    <3> QED BY <3>1, ConcatEmptySeq
  <2>6. IsPrefix(received' \o socket' \o output', Sent')
    BY <1>1, <1>3, <2>2, <2>4, <2>5, <2>50
  <2>7. Len(asked) # Len(answers) + 1
    BY <1>1, <2>1 DEF OnTheWay
  <2> QED BY <1>1, <2>6, <2>7 DEF OnTheWay, NoFile
<1>5. /\ file' # NoFile' => answers' # <<>> /\ "close" \notin lost' /\ file'.size # 0
      /\ "close" \in lost' => output' = <<>> /\ state' = "Disconected"
  BY <1>1 DEF HttpIInv, NoFile
<1> QED BY <1>2, <1>3, <1>4, <1>5 DEF HttpIInv

LEMMA WritesKeep ==
  ASSUME HttpIInv, HandleWrite
  PROVE  HttpIInv'
<1>0. HttpTypeOK /\ Len(socket) <= SndCap
  BY DEF HttpIInv
<1>1. /\ file = NoFile /\ output # <<>>
      /\ socket' = socket \o SubSeq(output, 1, Min2(Space, Len(output)))
      /\ output' = SubSeq(output, Min2(Space, Len(output)) + 1, Len(output))
      /\ lost' \in {lost, lost \cup {"abort"}}
      /\ asked' = asked /\ unread' = unread /\ reads' = reads /\ context' = context
      /\ state' = state /\ file' = file /\ received' = received /\ answers' = answers
  BY DEF HandleWrite, Running
<1>2. socket \in Seq(Byte) /\ output \in Seq(Byte) /\ received \in Seq(Byte)
  BY <1>0, TypesOfHttp
<1>3. /\ socket' \in Seq(Byte) /\ output' \in Seq(Byte) /\ Len(socket') <= SndCap
      /\ socket' \o output' = socket \o output
  BY <1>0, <1>1, <1>2, Sends
<1>4. HttpTypeOK'
  BY <1>0, <1>1, <1>3 DEF HttpTypeOK
<1>5. /\ Answered' /\ RequestIsExact' /\ SentOnce' /\ Sent' = Sent
      /\ state' = "Connected" => Waiting'
      /\ reads' \in Seq(Nat \ {0})
  BY <1>1, FramedKeeps
<1>6. "close" \notin lost /\ "close" \notin lost'
  BY <1>1 DEF HttpIInv
<1>7. ASSUME "skip" \notin lost' PROVE OnTheWay'
  <2>1. OnTheWay
    BY <1>1, <1>7 DEF HttpIInv
  <2>2. FileLeft' = <<>> /\ FileLeft = <<>>
    BY <1>1 DEF FileLeft, NoFile
  <2>3. received \o socket \o output \o FileLeft = Sent
    BY <1>6, <2>1 DEF OnTheWay
  <2>4. /\ received \o socket \o output = received \o (socket \o output)
        /\ received \o socket' \o output' = received \o (socket' \o output')
    <3>1. received \o socket \o output = received \o (socket \o output)
      BY ONLY <1>2, ConcatAssociative
    <3>2. received \in Seq(Byte) /\ socket' \in Seq(Byte) /\ output' \in Seq(Byte)
      BY <1>2, <1>3
    <3>3. PICK a, b, c : a = received /\ b = socket' /\ c = output'
      OBVIOUS
    <3>4. (a \o b) \o c = a \o (b \o c)
      <4>1. a \in Seq(Byte) /\ b \in Seq(Byte) /\ c \in Seq(Byte)
        BY <3>2, <3>3
      <4> QED BY ONLY <4>1, ConcatAssociative
    <3> QED BY <3>1, <3>3, <3>4
  <2>5. received' \o socket' \o output' \o FileLeft' = Sent'
    BY <1>1, <1>3, <1>5, <2>2, <2>3, <2>4
  <2>6. Len(asked) # Len(answers) + 1
    BY <1>1, <2>1 DEF OnTheWay
  <2> QED BY <1>1, <1>6, <2>5, <2>6 DEF OnTheWay, NoFile
<1>8. /\ file' # NoFile' => answers' # <<>> /\ "close" \notin lost' /\ file'.size # 0
      /\ "close" \in lost' => output' = <<>> /\ state' = "Disconected"
  BY <1>1, <1>6 DEF HttpIInv, NoFile
<1> QED BY <1>3, <1>4, <1>5, <1>7, <1>8 DEF HttpIInv

LEMMA FileKeeps ==
  ASSUME HttpIInv, SendFile
  PROVE  HttpIInv'
<1> DEFINE taken == Min2(Space, file.size - file.offset)
           bytes == [i \in 1 .. taken |-> <<Len(answers), HeadLen + file.offset + i>>]
           offset == file.offset + 2 * taken
<1>0. HttpTypeOK /\ Len(socket) <= SndCap
  BY DEF HttpIInv
<1>1. /\ file # NoFile /\ taken > 0 /\ socket' = socket \o bytes
      /\ file' = IF offset < file.size THEN [file EXCEPT !.offset = offset] ELSE NoFile
      /\ lost' = IF file.offset + taken < file.size THEN lost \cup {"skip"} ELSE lost
      /\ state' = IF file.closes /\ offset >= file.size THEN "Disconected" ELSE state
      /\ asked' = asked /\ unread' = unread /\ reads' = reads /\ context' = context
      /\ output' = output /\ received' = received /\ answers' = answers
  BY DEF SendFile
<1>2. /\ socket \in Seq(Byte) /\ output \in Seq(Byte) /\ received \in Seq(Byte)
      /\ file.size \in FileLens \cup {0} /\ file.offset \in Nat /\ file.closes \in BOOLEAN
      /\ file.size \in Nat /\ lost \subseteq {"abort", "close", "skip"}
      /\ state \in {"Connected", "Disconected"}
  BY <1>0, TypesOfHttp
<1>3. HeadLen \in Nat /\ SndCap \in Nat /\ Len(socket) \in Nat
  BY <1>2, HttpAssumption
<1>4. taken \in Nat /\ Len(socket) + taken <= SndCap /\ taken <= file.size - file.offset
  <2>1. Space = SndCap - Len(socket) /\ taken > 0
    BY <1>1 DEF Space
  <2> QED BY <1>0, <1>2, <1>3, <2>1 DEF Min2
<1> HIDE DEF taken
<1>5. offset \in Nat
  BY <1>2, <1>4
<1>6. Len(answers) \in 1 .. MaxRequests /\ FileLeft = BytesOf(Len(answers), HeadLen, file.size)
  BY <1>1, FileLeftIs
<1>7. bytes = BytesOf(Len(answers), HeadLen + file.offset, taken)
  BY DEF BytesOf
<1>8. bytes \in Seq(Byte) /\ Len(bytes) = taken
  <2>1. PICK p \in Nat : p = HeadLen + file.offset
    BY <1>2, <1>3
  <2> HIDE DEF bytes
  <2> QED BY <1>4, <1>6, <1>7, <2>1, BytesAre
<1> HIDE DEF bytes, offset
<1>9. socket' \in Seq(Byte) /\ Len(socket') <= SndCap
  <2>1. socket \o bytes \in Seq(Byte) /\ Len(socket \o bytes) = Len(socket) + Len(bytes)
    BY <1>2, <1>8, ConcatProperties
  <2> QED BY <1>1, <1>4, <1>8, <2>1
<1>10. /\ file' \in [size : FileLens \cup {0}, offset : Nat, closes : BOOLEAN]
       /\ lost' \subseteq {"abort", "close", "skip"} /\ state' \in {"Connected", "Disconected"}
  <2>1. [file EXCEPT !.offset = offset] \in [size : FileLens \cup {0}, offset : Nat, closes : BOOLEAN]
    <3>1. file \in [size : FileLens \cup {0}, offset : Nat, closes : BOOLEAN]
      BY <1>0 DEF HttpTypeOK
    <3> QED BY <1>5, <3>1
  <2>2. NoFile \in [size : FileLens \cup {0}, offset : Nat, closes : BOOLEAN]
    BY DEF NoFile
  <2>3. file' \in {[file EXCEPT !.offset = offset], NoFile}
    BY <1>1
  <2>4. lost' \in {lost, lost \cup {"skip"}} /\ state' \in {"Disconected", state}
    BY <1>1
  <2>5. file' \in [size : FileLens \cup {0}, offset : Nat, closes : BOOLEAN]
    BY <2>1, <2>2, <2>3
  <2> QED BY <1>2, <2>4, <2>5
<1>11. HttpTypeOK'
  BY <1>0, <1>1, <1>2, <1>9, <1>10 DEF HttpTypeOK
<1>12. state' = state \/ state' = "Disconected"
  BY <1>1
<1>13. /\ Answered' /\ RequestIsExact' /\ SentOnce' /\ Sent' = Sent
       /\ state' = "Connected" => Waiting'
       /\ reads' \in Seq(Nat \ {0})
  BY <1>1, <1>12, FramedKeeps
<1>14. "close" \notin lost /\ answers # <<>> /\ "close" \notin lost'
  BY <1>1 DEF HttpIInv
<1>15. ASSUME "skip" \notin lost' PROVE OnTheWay'
  <2>1. "skip" \notin lost /\ ~(file.offset + taken < file.size)
    BY <1>1, <1>15
  <2>2. OnTheWay
    BY <2>1 DEF HttpIInv
  <2>3. output = <<>> /\ file.offset = 0 /\ Len(asked) # Len(answers) + 1
    BY <1>1, <2>2 DEF OnTheWay
  <2>4. taken = file.size /\ ~(offset < file.size)
    BY <1>2, <1>4, <2>1, <2>3 DEF offset
  <2>5. file' = NoFile
    BY <1>1, <2>4
  <2>6. bytes = FileLeft
    <3>1. HeadLen + file.offset = HeadLen
      BY <1>3, <2>3
    <3> QED BY <1>6, <1>7, <2>4, <3>1
  <2>7. received \o socket \o <<>> \o bytes = Sent
    BY <1>14, <2>2, <2>3, <2>6 DEF OnTheWay
  <2>8. received \o (socket \o bytes) \o <<>> \o <<>> = received \o socket \o <<>> \o bytes
    <3>1. <<>> \in Seq(Byte)
      BY EmptySeq
    <3>2. received \o socket \in Seq(Byte) /\ received \o (socket \o bytes) \in Seq(Byte)
      BY <1>2, <1>8, ConcatProperties
    <3>3. /\ received \o socket \o <<>> = received \o socket
          /\ received \o (socket \o bytes) \o <<>> = received \o (socket \o bytes)
      BY <3>2, ConcatEmptySeq
    <3>4. (received \o socket) \o bytes = received \o (socket \o bytes)
      <4>1. PICK S, a, b, c : S = Byte /\ a = received /\ b = socket /\ c = bytes
        OBVIOUS
      <4>2. a \in Seq(S) /\ b \in Seq(S) /\ c \in Seq(S)
        BY <1>2, <1>8, <4>1
      <4>3. (a \o b) \o c = a \o (b \o c)
        BY ONLY <4>2, ConcatAssociative
      <4> QED BY <4>1, <4>3
    <3> QED BY <3>3, <3>4
  <2>9. FileLeft' = <<>>
    BY <2>5 DEF FileLeft, NoFile
  <2>10. received' \o socket' \o output' \o FileLeft' = Sent'
    BY <1>1, <1>13, <2>3, <2>7, <2>8, <2>9
  <2> QED BY <1>1, <1>14, <2>3, <2>5, <2>10 DEF OnTheWay, NoFile
<1>16. /\ file' # NoFile' => answers' # <<>> /\ "close" \notin lost' /\ file'.size # 0
       /\ "close" \in lost' => output' = <<>> /\ state' = "Disconected"
  <2>1. file.size # 0
    BY <1>1 DEF HttpIInv
  <2>2. [file EXCEPT !.offset = offset].size = file.size
    BY <1>0 DEF HttpTypeOK
  <2>3. file' # NoFile' => file' = [file EXCEPT !.offset = offset]
    BY <1>1 DEF NoFile
  <2> QED BY <1>1, <1>14, <2>1, <2>2, <2>3
<1> QED BY <1>9, <1>11, <1>13, <1>15, <1>16 DEF HttpIInv
-----------------------------------------------------------------------------
(* The client asks                                                         *)

LEMMA AsksKeep ==
  ASSUME HttpIInv, NEW r \in Requests, ClientAsks(r)
  PROVE  HttpIInv'
<1> DEFINE n == Len(asked)
<1>0. /\ HttpTypeOK /\ Len(socket) <= SndCap /\ Answered /\ RequestIsExact /\ SentOnce
      /\ state = "Connected" /\ n < MaxRequests
  BY DEF HttpIInv, ClientAsks
<1>1. /\ asked' = Append(asked, r) /\ unread' = Render(r) /\ reads' = <<>>
      /\ context' = context /\ state' = state /\ output' = output /\ file' = file
      /\ socket' = socket /\ received' = received /\ answers' = answers /\ lost' = lost
  BY DEF ClientAsks
<1>2. asked # <<>> => Arrived(n)
  BY DEF ClientAsks
<1>3. /\ asked \in Seq(Requests) /\ n \in Nat /\ MaxRequests \in Nat
      /\ socket \in Seq(Byte) /\ output \in Seq(Byte) /\ received \in Seq(Byte)
  BY <1>0, TypesOfHttp, HttpAssumption
<1>4. answers \in Seq(AnswerSet) /\ Len(answers) \in Nat /\ n \in {Len(answers), Len(answers) + 1}
  BY <1>0 DEF Answered
<1>5. n = Len(answers)
  <2>1. CASE asked = <<>>
    <3>1. n = 0
      BY <2>1
    <3> QED BY <1>4, <3>1
  <2>2. CASE asked # <<>>
    BY <1>2, <1>4, <2>2 DEF Arrived
  <2> QED BY <2>1, <2>2
<1>6. context = NewContext
  <2>1. Waiting
    BY <1>0 DEF HttpIInv
  <2>2. ~(n = Len(answers) + 1)
    BY <1>4, <1>5
  <2> QED BY <2>1, <2>2 DEF Waiting
<1>7. /\ asked' \in Seq(Requests) /\ Len(asked') = n + 1 /\ asked'[n + 1] = r
      /\ \A k \in 1 .. n : asked'[k] = asked[k]
  BY <1>1, <1>3, AppendProperties
<1> HIDE DEF n
<1>8. HttpTypeOK' /\ reads' \in Seq(Nat \ {0}) /\ Len(socket') <= SndCap
  <2>1. Len(asked') <= MaxRequests
    BY <1>0, <1>3, <1>7
  <2>2. reads' \in Seq(Nat \ {0}) /\ \A i \in DOMAIN reads' : reads'[i] \in Nat \ {0}
    <3>1. reads' \in Seq(Nat \ {0}) /\ Len(reads') = 0
      BY <1>1, EmptySeq
    <3>2. DOMAIN reads' = 1 .. 0
      BY <3>1
    <3> QED BY <3>1, <3>2
  <2> QED BY <1>0, <1>1, <1>7, <2>1, <2>2 DEF HttpTypeOK
<1>9. Sent' = Sent /\ FileLeft' = FileLeft
  BY <1>1 DEF Sent, FileLeft
<1>10. Answered'
  BY <1>1, <1>4, <1>5, <1>7 DEF Answered
<1>11. RequestIsExact'
  <2> SUFFICES ASSUME NEW k \in DOMAIN answers
               PROVE  answers[k].seen \in {<<>>, <<Meant(asked'[k])>>}
    BY <1>1 DEF RequestIsExact
  <2>1. k \in 1 .. n
    BY <1>4, <1>5
  <2> QED BY <1>0, <1>7, <2>1 DEF RequestIsExact
<1>12. SentOnce'
  BY <1>0, <1>1, <1>9 DEF SentOnce
<1>13. Waiting'
  <2>1. asked'[Len(asked')] = r
    BY <1>7
  <2> QED BY <1>1, <1>5, <1>6, <1>7, <2>1 DEF Waiting
<1>14. "close" \notin lost
  BY <1>0 DEF HttpIInv
<1>15. ASSUME "skip" \notin lost' PROVE OnTheWay'
  <2>1. OnTheWay
    BY <1>1, <1>15 DEF HttpIInv
  <2>2. received \o socket \o output \o FileLeft = Sent
    BY <1>14, <2>1 DEF OnTheWay
  <2>3. FileLeft \in Seq(Byte)
    BY FileLeftIs
  <2> DEFINE rest == socket \o output \o FileLeft
  <2>4. rest \in Seq(Byte) /\ received \o rest = Sent
    <3>1. /\ received \o socket \o output \o FileLeft = received \o (socket \o output \o FileLeft)
          /\ socket \o output \o FileLeft \in Seq(Byte)
      <4>1. received \in Seq(Byte) /\ socket \in Seq(Byte) /\ output \in Seq(Byte) /\ FileLeft \in Seq(Byte)
        BY <1>3, <2>3
      <4>2. PICK a, b, c, d : a = received /\ b = socket /\ c = output /\ d = FileLeft
        OBVIOUS
      <4>3. a \in Seq(Byte) /\ b \in Seq(Byte) /\ c \in Seq(Byte) /\ d \in Seq(Byte)
        BY <4>1, <4>2
      <4>4. b \o c \in Seq(Byte)
        BY <4>3, ConcatProperties
      <4>5. b \o c \o d \in Seq(Byte)
        BY <4>3, <4>4, ConcatProperties
      <4>6. a \o b \o c = a \o (b \o c)
        <5>1. PICK S : S = Byte
          OBVIOUS
        <5>2. a \in Seq(S) /\ b \in Seq(S) /\ c \in Seq(S)
          BY <4>3, <5>1
        <5> QED BY ONLY <5>2, ConcatAssociative, SMTT(40)
      <4>7. a \o (b \o c) \o d = a \o (b \o c \o d)
        <5>1. PICK e \in Seq(Byte) : e = b \o c
          BY <4>4
        <5>2. PICK S : S = Byte
          OBVIOUS
        <5>3. a \in Seq(S) /\ e \in Seq(S) /\ d \in Seq(S)
          BY <4>3, <5>1, <5>2
        <5>4. a \o e \o d = a \o (e \o d)
          BY ONLY <5>3, ConcatAssociative
        <5> QED BY <5>1, <5>4
      <4> QED BY <4>2, <4>5, <4>6, <4>7
    <3> QED BY <2>2, <3>1
  <2> HIDE DEF rest
  <2>5. rest = <<>>
    <3>1. CASE asked = <<>>
      <4>1. n = 0 /\ answers = <<>>
        <5>1. n = 0
          BY <3>1 DEF n
        <5> QED BY <1>4, <1>5, <5>1, EmptySeq
      <4>2. Sent = <<>>
        <5>1. [k \in DOMAIN answers |-> answers[k].bytes] = <<>>
          BY <4>1
        <5> QED BY <5>1 DEF Sent, FlattenSeq
      <4>3. Len(received \o rest) = Len(received) + Len(rest) /\ Len(received) \in Nat /\ Len(rest) \in Nat
        BY <1>3, <2>4, ConcatProperties
      <4>4. Len(rest) = 0
        BY <2>4, <4>2, <4>3
      <4> QED BY <2>4, <4>4, EmptySeq
    <3>2. CASE asked # <<>>
      <4>1. answers # <<>>
        <5>1. n >= 1
          BY <1>3, <3>2, EmptySeq DEF n
        <5> QED BY <1>5, <5>1
      <4>2. /\ Len(Sent) > 0
            /\ Sent[Len(Sent)] \in {answers[n].bytes[i] : i \in DOMAIN answers[n].bytes}
            /\ \A i \in 1 .. Len(Sent) - 1 : Sent[i] # Sent[Len(Sent)]
        BY <1>0, <1>5, <4>1 DEF SentOnce
      <4>3. {answers[n].bytes[i] : i \in DOMAIN answers[n].bytes}
             \subseteq {received[i] : i \in DOMAIN received}
        BY <1>2, <3>2 DEF Arrived
      <4>4. PICK i \in DOMAIN received : received[i] = Sent[Len(Sent)]
        BY <4>2, <4>3
      <4>5. i \in 1 .. Len(received)
        BY <1>3
      <4>6. PICK whole : whole = Sent
        OBVIOUS
      <4>7. /\ received \o rest = whole /\ Len(whole) > 0 /\ received[i] = whole[Len(whole)]
            /\ \A j \in 1 .. Len(whole) - 1 : whole[j] # whole[Len(whole)]
        BY <2>4, <4>2, <4>4, <4>6
      <4> QED BY ONLY <1>3, <2>4, <4>5, <4>7, NothingBehind
    <3> QED BY <3>1, <3>2
  <2>6. socket = <<>> /\ output = <<>> /\ FileLeft = <<>>
    <3>1. socket \o output \in Seq(Byte)
      BY <1>3, ConcatProperties
    <3>2. Len(socket \o output \o FileLeft) = Len(socket) + Len(output) + Len(FileLeft)
      BY <1>3, <2>3, <3>1, ConcatProperties
    <3>3. Len(socket) \in Nat /\ Len(output) \in Nat /\ Len(FileLeft) \in Nat
      BY <1>3, <2>3
    <3>4. Len(socket \o output \o FileLeft) = 0
      BY <2>5 DEF rest
    <3>5. Len(socket) = 0 /\ Len(output) = 0 /\ Len(FileLeft) = 0
      BY <3>2, <3>3, <3>4
    <3> QED BY <1>3, <2>3, <3>5, EmptySeq
  <2>7. file = NoFile
    <3>1. SUFFICES ASSUME file # NoFile PROVE FALSE
      OBVIOUS
    <3>2. Len(answers) \in 1 .. MaxRequests /\ FileLeft = BytesOf(Len(answers), HeadLen, file.size)
      BY <3>1, FileLeftIs
    <3>3. HeadLen \in Nat /\ file.size \in Nat
      BY <1>0, TypesOfHttp, HttpAssumption
    <3>4. Len(FileLeft) = file.size
      BY <3>2, <3>3, BytesAre, ZenonT(60)
    <3>5. file.size = 0
      BY <2>6, <3>4
    <3> QED BY <3>1, <3>5 DEF HttpIInv
  <2> QED BY <1>1, <1>9, <1>14, <2>1, <2>2, <2>6, <2>7 DEF OnTheWay, NoFile
<1>16. /\ file' # NoFile' => answers' # <<>> /\ "close" \notin lost' /\ file'.size # 0
       /\ "close" \in lost' => output' = <<>> /\ state' = "Disconected"
  BY <1>1 DEF HttpIInv, NoFile
<1> QED BY <1>8, <1>10, <1>11, <1>12, <1>13, <1>15, <1>16 DEF HttpIInv
-----------------------------------------------------------------------------
(* The server reads                                                        *)

LEMMA TailOfTail ==
  ASSUME NEW S, NEW w \in Seq(S), NEW t \in 0 .. Len(w), NEW n \in 0 .. Len(w) - t,
         NEW u, u = SubSeq(w, t + 1, Len(w))
  PROVE  /\ u \in Seq(S) /\ Len(u) = Len(w) - t
         /\ SubSeq(u, 1, n) \in Seq(S) /\ Len(SubSeq(u, 1, n)) = n
         /\ SubSeq(u, n + 1, Len(u)) = SubSeq(w, t + n + 1, Len(w))
         /\ n >= Len(w) => SubSeq(u, 1, n) = w
<1>0. Len(w) \in Nat /\ t \in Nat /\ n \in Nat /\ t + n \in 0 .. Len(w)
  OBVIOUS
<1>1. u \in Seq(S) /\ Len(u) = Len(w) - t /\ \A j \in 1 .. Len(w) - t : u[j] = w[t + j]
  <2>1. /\ SubSeq(w, t + 1, Len(w)) \in Seq(S) /\ Len(SubSeq(w, t + 1, Len(w))) = Len(w) - t
        /\ \A j \in 1 .. Len(w) - t : SubSeq(w, t + 1, Len(w))[j] = w[t + j]
    BY ONLY w \in Seq(S), t \in 0 .. Len(w), CutSeq
  <2> QED BY <2>1
<1>2. n \in 0 .. Len(u)
  BY <1>0, <1>1
<1> DEFINE a == SubSeq(u, 1, n)
           b == SubSeq(u, n + 1, Len(u))
           c == SubSeq(w, t + n + 1, Len(w))
<1>3. /\ a \in Seq(S) /\ Len(a) = n /\ b \in Seq(S) /\ Len(b) = Len(u) - n
      /\ \A j \in 1 .. n : a[j] = u[j]
      /\ \A j \in 1 .. Len(u) - n : b[j] = u[n + j]
  BY <1>1, <1>2, CutSeq
<1>4. c \in Seq(S) /\ Len(c) = Len(w) - (t + n) /\ \A j \in 1 .. Len(w) - (t + n) : c[j] = w[t + n + j]
  <2>1. PICK k \in 0 .. Len(w) : k = t + n
    BY <1>0
  <2>2. /\ SubSeq(w, k + 1, Len(w)) \in Seq(S) /\ Len(SubSeq(w, k + 1, Len(w))) = Len(w) - k
        /\ \A j \in 1 .. Len(w) - k : SubSeq(w, k + 1, Len(w))[j] = w[k + j]
    BY CutSeq
  <2> QED BY <2>1, <2>2
<1> HIDE DEF a, b, c
<1>5. b = c
  <2>1. Len(b) = Len(c) /\ Len(b) = Len(w) - (t + n)
    BY <1>0, <1>1, <1>3, <1>4
  <2>2. ASSUME NEW j \in 1 .. Len(b) PROVE b[j] = c[j]
    <3>1. j \in 1 .. Len(u) - n /\ j \in 1 .. Len(w) - (t + n) /\ n + j \in 1 .. Len(w) - t
      BY <1>0, <1>1, <2>1
    <3>2. b[j] = w[t + (n + j)]
      BY <1>1, <1>3, <3>1
    <3>3. t + (n + j) = t + n + j
      BY <1>0
    <3> QED BY <1>4, <3>1, <3>2, <3>3
  <2> QED BY <1>3, <1>4, <2>1, <2>2, SeqEqual
<1>6. ASSUME n >= Len(w) PROVE a = w
  <2>1. t = 0 /\ n = Len(w)
    BY <1>0, <1>6
  <2>2. ASSUME NEW j \in 1 .. Len(a) PROVE a[j] = w[j]
    <3>1. j \in 1 .. n /\ j \in 1 .. Len(w) - t /\ t + j = j
      BY <1>0, <1>3, <2>1
    <3> QED BY <1>1, <1>3, <3>1
  <2> QED BY <1>3, <2>1, <2>2, SeqEqual
<1> QED BY <1>1, <1>3, <1>5, <1>6 DEF a, b, c

LEMMA BodyIsSymbols ==
  ASSUME NEW r, WellFormed(r)
  PROVE  r.body \in Seq(Symbols)
<1>1. r.body \in Seq(STRING)
  BY DEF WellFormed
<1>2. STRING \subseteq Symbols
  BY DEF Symbols
<1>3. PICK b : b = r.body
  OBVIOUS
<1>4. b \in Seq(STRING)
  BY <1>1, <1>3
<1>5. b \in Seq(Symbols)
  BY ONLY <1>2, <1>4, WiderSeq
<1> QED BY <1>3, <1>5

\* What is behind a read that ends in the body.
LEMMA RenderTail ==
  ASSUME NEW r, WellFormed(r), NEW t \in 0 .. Len(r.body)
  PROVE  SubSeq(Render(r), HeadSize(r) + t + 1, Len(Render(r))) = SubSeq(r.body, t + 1, Len(r.body))
<1> DEFINE u == Render(r)
           w == r.body
           p == HeadSize(r)
<1>1. /\ u \in Seq(Symbols) /\ p \in Nat /\ Len(w) \in Nat /\ Len(u) = p + Len(w)
      /\ \A i \in 1 .. Len(w) : u[p + i] = w[i] /\ w \in Seq(Symbols)
  BY HeadSizeIs, RequestText, BodyIsSymbols
<1>2. w \in Seq(Symbols) /\ t \in 0 .. Len(w)
  BY BodyIsSymbols
<1> HIDE DEF u, w, p
<1> DEFINE a == SubSeq(u, p + t + 1, Len(u))
           b == SubSeq(w, t + 1, Len(w))
<1>3. a \in Seq(Symbols) /\ Len(a) = Len(w) - t /\ \A j \in 1 .. Len(w) - t : a[j] = u[p + t + j]
  <2>1. PICK k \in 0 .. Len(u) : k = p + t
    BY <1>1, <1>2
  <2>2. /\ SubSeq(u, k + 1, Len(u)) \in Seq(Symbols) /\ Len(SubSeq(u, k + 1, Len(u))) = Len(u) - k
        /\ \A j \in 1 .. Len(u) - k : SubSeq(u, k + 1, Len(u))[j] = u[k + j]
    BY <1>1, CutSeq
  <2>3. Len(u) - k = Len(w) - t
    BY <1>1, <1>2, <2>1
  <2> QED BY <2>1, <2>2, <2>3
<1>4. b \in Seq(Symbols) /\ Len(b) = Len(w) - t /\ \A j \in 1 .. Len(w) - t : b[j] = w[t + j]
  BY <1>2, CutSeq
<1> HIDE DEF a, b
<1>5. ASSUME NEW j \in 1 .. Len(a) PROVE a[j] = b[j]
  <2>1. j \in 1 .. Len(w) - t /\ t + j \in 1 .. Len(w) /\ p + (t + j) = p + t + j
    BY <1>1, <1>2, <1>3
  <2> QED BY <1>1, <1>3, <1>4, <2>1
<1>6. a = b
  BY <1>3, <1>4, <1>5, SeqEqual
<1> QED BY <1>6 DEF a, b, u, w, p

\* What HandleMessage learns: too little, a whole head, or the request.
LEMMA ReadMeans ==
  ASSUME HttpIInv, NEW n, HandleMessage(n), NEW r, r = asked[Len(asked)],
         NEW c, c = ParaseRequest(context, SubSeq(unread, 1, n))
  PROVE  /\ Len(asked) = Len(answers) + 1 /\ r \in Requests
         /\ \/ ~Accepts(c)
            \/ /\ \E s, k : c = At("BODY", HeadMeant(r), s, k)
               /\ \E i \in 1 .. Len(r.body) + 1 : unread' = SubSeq(r.body, i, Len(r.body))
            \/ c.state = "COMPLETE" /\ c.request = Meant(r) /\ unread' = <<>>
<1>1. /\ Waiting /\ n \in 1 .. Len(unread) /\ unread' = SubSeq(unread, n + 1, Len(unread))
  BY DEF HandleMessage, HttpIInv
<1>2. unread # <<>>
  <2>1. Len(<<>>) = 0
    OBVIOUS
  <2> QED BY <1>1, <2>1
<1>3. /\ Len(asked) = Len(answers) + 1
      /\ \/ context = NewContext /\ unread = Render(r)
         \/ /\ \E s, k : context = At("BODY", HeadMeant(r), s, k)
            /\ \E i \in 1 .. Len(r.body) + 1 : unread = SubSeq(r.body, i, Len(r.body))
  BY <1>1, <1>2 DEF Waiting
<1>4. r \in Requests
  <2>1. asked \in Seq(Requests) /\ Len(asked) \in Nat /\ Len(answers) \in Nat
    BY TypesOfHttp DEF HttpIInv, Answered
  <2>2. Len(asked) \in 1 .. Len(asked)
    BY <1>3, <2>1
  <2> QED BY <2>1, <2>2, ElementOfSeq
<1>5. WellFormed(r)
  BY <1>4, RequestAssumption DEF WellFormed
<1> DEFINE w == r.body
           L == Len(w)
<1>6. w \in Seq(Symbols) /\ L \in Nat
  BY <1>5, BodyIsSymbols
<1>7. CASE context = NewContext /\ unread = Render(r)
  <2> DEFINE p == HeadSize(r)
             u == Render(r)
  <2>1. u \in Seq(Symbols) /\ p \in Nat /\ Len(u) = p + L
    BY <1>5, HeadSizeIs, RequestText
  <2>2. n \in 1 .. Len(u) /\ c = ParaseRequest(NewContext, SubSeq(u, 1, n))
    BY <1>1, <1>7
  <2>3. /\ n < p => ~Accepts(c)
        /\ n = Len(u) => c.state = "COMPLETE" /\ c.request = Meant(r)
        /\ p <= n /\ n < Len(u) => \E s, k : c = At("BODY", HeadMeant(r), s, k)
    BY <1>5, <2>2, ParsesRequest
  <2>4. ASSUME n = Len(u) PROVE unread' = <<>>
    <3> HIDE DEF u
    <3>1. PICK k \in 0 .. Len(u) : k = n
      BY <2>1, <2>4, <1>6
    <3>2. SubSeq(u, k + 1, Len(u)) \in Seq(Symbols) /\ Len(SubSeq(u, k + 1, Len(u))) = Len(u) - k
      BY <2>1, CutSeq
    <3>3. Len(u) - k = 0
      BY <2>1, <2>4, <3>1, <1>6
    <3>4. SubSeq(u, k + 1, Len(u)) = <<>>
      BY <3>2, <3>3, EmptySeq
    <3> QED BY <1>1, <1>7, <3>1, <3>4 DEF u
  <2>5. ASSUME p <= n, n < Len(u) PROVE \E i \in 1 .. L + 1 : unread' = SubSeq(w, i, L)
    <3>1. PICK t \in 0 .. L : n = p + t
      <4>1. n - p \in 0 .. L /\ n = p + (n - p)
        BY <1>6, <2>1, <2>2, <2>5
      <4> QED BY <4>1
    <3>2. SubSeq(u, p + t + 1, Len(u)) = SubSeq(w, t + 1, Len(w))
      BY <1>5, RenderTail
    <3>3. t + 1 \in 1 .. L + 1
      BY <1>6
    <3> QED BY <1>1, <1>7, <3>1, <3>2, <3>3
  <2> HIDE DEF u, p
  <2>6. n \in Nat /\ n <= Len(u) /\ Len(u) \in Nat
    BY <2>1, <2>2, <1>6
  <2>7. n < p \/ n = Len(u) \/ (p <= n /\ n < Len(u))
    BY <2>1, <2>6
  <2> QED BY <1>3, <1>4, <2>3, <2>4, <2>5, <2>7
<1>8. ASSUME NEW s, NEW k, context = At("BODY", HeadMeant(r), s, k),
             NEW i \in 1 .. L + 1, unread = SubSeq(w, i, L)
      PROVE  \/ c.state = "COMPLETE" /\ c.request = Meant(r) /\ unread' = <<>>
             \/ /\ \E s1, k1 : c = At("BODY", HeadMeant(r), s1, k1)
                /\ \E i1 \in 1 .. L + 1 : unread' = SubSeq(w, i1, L)
  <2> HIDE DEF w
  <2>1. PICK t \in 0 .. L : i = t + 1
    <3>1. i - 1 \in 0 .. L /\ i = (i - 1) + 1
      BY <1>6
    <3> QED BY <3>1
  <2>2. PICK u : u = unread
    OBVIOUS
  <2>3. u = SubSeq(w, t + 1, Len(w)) /\ u \in Seq(Symbols) /\ Len(u) = L - t
    <3>1. u = SubSeq(w, t + 1, Len(w))
      BY <1>8, <2>1, <2>2
    <3>2. SubSeq(w, t + 1, Len(w)) \in Seq(Symbols) /\ Len(SubSeq(w, t + 1, Len(w))) = Len(w) - t
      BY <1>6, CutSeq
    <3> QED BY <3>1, <3>2
  <2>4. n \in 1 .. L - t /\ n \in 0 .. Len(w) - t
    BY <1>1, <1>6, <2>2, <2>3
  <2> DEFINE msg == SubSeq(u, 1, n)
  <2>5. /\ msg \in Seq(Symbols) /\ Len(msg) = n
        /\ SubSeq(u, n + 1, Len(u)) = SubSeq(w, t + n + 1, Len(w))
        /\ n >= Len(w) => msg = w
    BY <1>6, <2>3, <2>4, TailOfTail, SMTT(40)
  <2>6. c = ParaseRequest(At("BODY", HeadMeant(r), s, k), msg)
    BY <1>8, <2>2
  <2> HIDE DEF msg
  <2>7. /\ Len(msg) >= L => c.state = "COMPLETE" /\ c.request = WithBody(HeadMeant(r), msg)
        /\ Len(msg) < L => c = At("BODY", HeadMeant(r), 1, 1)
    BY <1>5, <2>5, <2>6, ParsesBody, SMTT(40) DEF w
  <2>8. unread' = SubSeq(w, t + n + 1, L)
    BY <1>1, <2>2, <2>5
  <2>9. CASE n >= L
    <3>1. c.state = "COMPLETE" /\ c.request = WithBody(HeadMeant(r), w)
      BY <2>5, <2>7, <2>9
    <3>2. Meant(r) = WithBody(HeadMeant(r), w)
      BY <1>5, MeantParts DEF w
    <3>3. t + n = L /\ L \in 0 .. L
      BY <1>6, <2>4, <2>9
    <3>4. SubSeq(w, L + 1, L) = <<>>
      <4>1. PICK j \in 0 .. Len(w) : j = L
        BY <3>3
      <4>2. SubSeq(w, j + 1, Len(w)) \in Seq(Symbols) /\ Len(SubSeq(w, j + 1, Len(w))) = Len(w) - j
        BY <1>6, CutSeq
      <4>3. Len(w) - j = 0
        BY <4>1, <1>6
      <4>4. SubSeq(w, j + 1, Len(w)) = <<>>
        BY <4>2, <4>3, EmptySeq
      <4> QED BY <4>1, <4>4
    <3> QED BY <2>8, <3>1, <3>2, <3>3, <3>4
  <2>10. CASE n < L
    <3>1. c = At("BODY", HeadMeant(r), 1, 1)
      BY <2>5, <2>7, <2>10
    <3>2. t + n + 1 \in 1 .. L + 1
      BY <1>6, <2>4
    <3> QED BY <2>8, <3>1, <3>2
  <2> QED BY <1>6, <2>4, <2>9, <2>10
<1> QED BY <1>3, <1>4, <1>7, <1>8

\* An answer on its way: a page, a refusal, or the head of a file.
LEMMA AnswerKeeps ==
  ASSUME HttpIInv, state = "Connected", file = NoFile, Len(asked) = Len(answers) + 1,
         asked' = asked, received' = received, lost' = lost,
         NEW seen \in Seen, seen \in {<<>>, <<Meant(asked[Len(asked)])>>},
         NEW len \in Nat \ {0}, NEW m \in Nat \ {0}, Answer(seen, len),
         Send([i \in 1 .. m |-> <<Len(asked), i>>]),
         \/ m = len /\ file' = NoFile
         \/ /\ m = HeadLen /\ file' # NoFile /\ file'.offset = 0 /\ file'.size \in Nat
            /\ len = HeadLen + file'.size
  PROVE  /\ Answered' /\ RequestIsExact' /\ SentOnce'
         /\ socket' \in Seq(Byte) /\ output' \in Seq(Byte) /\ Len(socket') <= SndCap
         /\ answers' # <<>> /\ "close" \notin lost' /\ Len(asked) = Len(answers')
         /\ "skip" \notin lost' => OnTheWay'
<1>0. HttpTypeOK /\ Len(socket) <= SndCap /\ Answered /\ RequestIsExact /\ SentOnce /\ "close" \notin lost
  BY DEF HttpIInv
<1>1. /\ asked \in Seq(Requests) /\ Len(asked) <= MaxRequests
      /\ socket \in Seq(Byte) /\ output \in Seq(Byte) /\ received \in Seq(Byte)
  BY <1>0, TypesOfHttp
<1>2. /\ answers' \in Seq(AnswerSet) /\ Len(answers') = Len(asked) /\ answers' # <<>>
      /\ Len(asked) \in 1 .. MaxRequests /\ Sent \in Seq(Byte)
      /\ Sent' = Sent \o BytesOf(Len(asked), 0, len) /\ RequestIsExact' /\ SentOnce'
  BY <1>0, <1>1, AnswerGrows
<1>3. Answered'
  BY <1>2 DEF Answered
<1>4. PICK K \in 1 .. MaxRequests : K = Len(asked)
  BY <1>2
<1>5. PICK M : M = BytesOf(K, 0, m)
  OBVIOUS
<1>6. M \in Seq(Byte) /\ Len(M) = m /\ [i \in 1 .. m |-> <<K, i>>] = M
  <2>1. PICK z \in Nat : z = 0
    OBVIOUS
  <2>2. m \in Nat
    OBVIOUS
  <2>3. /\ BytesOf(K, z, m) \in Seq(Byte) /\ Len(BytesOf(K, z, m)) = m
        /\ [i \in 1 .. m |-> <<K, i>>] = BytesOf(K, 0, m)
    BY ONLY <2>2, K \in 1 .. MaxRequests, z \in Nat, BytesAre
  <2> QED BY <1>5, <2>1, <2>3
<1>7. Send(M)
  BY <1>4, <1>6
<1>8. /\ socket' \in Seq(Byte) /\ output' \in Seq(Byte) /\ Len(socket') <= SndCap
      /\ socket' \o output' = socket \o M
      /\ socket = <<>> /\ Len(M) <= SndCap => output' = <<>>
  BY <1>0, <1>1, <1>6, <1>7, SendSends
<1>9. ASSUME "skip" \notin lost PROVE OnTheWay'
  <2>1. OnTheWay
    BY <1>9 DEF HttpIInv
  <2>2. socket = <<>> /\ output = <<>>
    BY <2>1 DEF OnTheWay
  <2>3. FileLeft = <<>>
    BY FileLeftIs
  <2>4. received = Sent
    <3>1. received \o socket \o output \o FileLeft = Sent
      BY <1>0, <2>1 DEF OnTheWay
    <3>2. PICK a : a = received
      OBVIOUS
    <3>3. a \in Seq(Byte) /\ a \o <<>> \o <<>> \o <<>> = Sent
      BY <1>1, <2>2, <2>3, <3>1, <3>2
    <3>4. a \o <<>> = a
      BY <3>3, ConcatEmptySeq
    <3> QED BY <3>2, <3>3, <3>4
  <2>5. socket' \o output' = M
    <3>1. <<>> \o M = M
      BY <1>6, ConcatEmptySeq
    <3> QED BY <1>8, <2>2, <3>1
  <2>6. FileLeft' \in Seq(Byte) /\ M \o FileLeft' = BytesOf(K, 0, len)
    <3>1. CASE m = len /\ file' = NoFile
      <4>1. FileLeft' = <<>>
        BY <3>1 DEF FileLeft
      <4>2. M \o <<>> = M
        BY <1>6, ConcatEmptySeq
      <4> QED BY <1>5, <3>1, <4>1, <4>2, EmptySeq
    <3>2. CASE /\ m = HeadLen /\ file' # NoFile /\ file'.size \in Nat
               /\ len = HeadLen + file'.size
      <4>1. PICK size \in Nat : size = file'.size
        BY <3>2
      <4>2. FileLeft' = BytesOf(K, HeadLen, size)
        BY <1>2, <1>4, <3>2, <4>1 DEF FileLeft
      <4>3. HeadLen \in Nat
        BY HttpAssumption
      <4>4. BytesOf(K, HeadLen, size) \in Seq(Byte)
        BY ONLY <4>3, K \in 1 .. MaxRequests, size \in Nat, BytesAre
      <4>5. BytesOf(K, 0, HeadLen) \o BytesOf(K, HeadLen, size) = BytesOf(K, 0, HeadLen + size)
        BY ONLY <4>3, K \in 1 .. MaxRequests, size \in Nat, BytesJoin
      <4> QED BY <1>5, <3>2, <4>1, <4>2, <4>4, <4>5
    <3> QED BY <3>1, <3>2
  <2>7. received' \o socket' \o output' \o FileLeft' = Sent'
    <3>1. PICK a, b, c, d : a = received /\ b = socket' /\ c = output' /\ d = FileLeft'
      OBVIOUS
    <3>2. a \in Seq(Byte) /\ b \in Seq(Byte) /\ c \in Seq(Byte) /\ d \in Seq(Byte)
      BY <1>1, <1>8, <2>6, <3>1
    <3>3. a \o b \o c \o d = a \o ((b \o c) \o d)
      <4>1. PICK S, e : S = Byte /\ e = b \o c
        OBVIOUS
      <4>2. a \in Seq(S) /\ b \in Seq(S) /\ c \in Seq(S) /\ d \in Seq(S) /\ e \in Seq(S)
        BY <1>6, <2>5, <3>1, <3>2, <4>1
      <4>3. (a \o b) \o c = a \o (b \o c)
        <5>1. a \in Seq(S) /\ b \in Seq(S) /\ c \in Seq(S)
          BY <4>2
        <5> QED BY ONLY <5>1, ConcatAssociative, SMTT(40)
      <4>4. (a \o e) \o d = a \o (e \o d)
        BY ONLY <4>2, ConcatAssociative, SMTT(40)
      <4> QED BY <4>1, <4>3, <4>4
    <3>4. (b \o c) \o d = BytesOf(K, 0, len)
      BY <2>5, <2>6, <3>1
    <3> QED BY <1>2, <1>4, <2>4, <3>1, <3>3, <3>4
  <2>8. file' # NoFile => output' = <<>> /\ file'.offset = 0
    <3>1. HeadLen <= SndCap
      BY HttpAssumption
    <3> QED BY <1>6, <1>8, <2>2, <3>1
  <2>9. ~(Len(asked') = Len(answers') + 1)
    <3>1. Len(answers') \in Nat
      BY <1>2
    <3> QED BY <1>2, <3>1
  <2> QED BY <1>0, <2>7, <2>8, <2>9 DEF OnTheWay
<1> QED BY <1>0, <1>2, <1>3, <1>8, <1>9

FileRecord == [size : FileLens \cup {0}, offset : Nat, closes : BOOLEAN]

\* What a read leaves, whatever it was.
AfterRead ==
  /\ Answered' /\ RequestIsExact' /\ SentOnce'
  /\ socket' \in Seq(Byte) /\ output' \in Seq(Byte) /\ Len(socket') <= SndCap
  /\ state' \in {"Connected", "Disconected"} /\ file' \in FileRecord
  /\ state' = "Connected" => Waiting'
  /\ file' # NoFile => answers' # <<>> /\ file'.size # 0
  /\ "skip" \notin lost' => OnTheWay'

LEMMA UnansweredKeeps ==
  ASSUME HttpIInv, asked' = asked, received' = received, lost' = lost,
         UNCHANGED <<answers, socket, output, state, file>>, Waiting'
  PROVE  AfterRead
<1>0. HttpTypeOK /\ Len(socket) <= SndCap /\ Answered /\ RequestIsExact /\ SentOnce
  BY DEF HttpIInv
<1>1. /\ socket \in Seq(Byte) /\ output \in Seq(Byte)
      /\ state \in {"Connected", "Disconected"} /\ file \in FileRecord
  BY <1>0, TypesOfHttp DEF FileRecord
<1>2. Answered' /\ RequestIsExact' /\ SentOnce'
  BY <1>0, ToldStays
<1>3. "skip" \notin lost' => OnTheWay'
  BY OnTheWayStays DEF HttpIInv
<1>4. file' # NoFile => answers' # <<>> /\ file'.size # 0
  BY DEF HttpIInv
<1> QED BY <1>0, <1>1, <1>2, <1>3, <1>4 DEF AfterRead

LEMMA PageKeeps ==
  ASSUME HttpIInv, state = "Connected", file = NoFile, Len(asked) = Len(answers) + 1,
         asked' = asked, received' = received, lost' = lost,
         unread' = <<>>, context' = NewContext,
         NEW r \in Requests, r = asked[Len(asked)], AnswerPage(Meant(r))
  PROVE  AfterRead
<1>1. PICK len \in PageLens :
        /\ Answer(<<Meant(r)>>, len)
        /\ Send([i \in 1 .. len |-> <<Len(asked), i>>])
  BY DEF AnswerPage
<1>2. file' = file /\ state' \in {"Disconected", state}
  BY DEF AnswerPage
<1>3. len \in Nat \ {0}
  BY HttpAssumption
<1>4. PICK seen : seen = <<Meant(r)>>
  OBVIOUS
<1>5. seen \in Seen /\ seen \in {<<>>, <<Meant(asked[Len(asked)])>>} /\ Answer(seen, len)
  BY <1>1, <1>4 DEF Seen
<1>6. len = len /\ file' = NoFile
  BY <1>2
<1>7. /\ Answered' /\ RequestIsExact' /\ SentOnce'
      /\ socket' \in Seq(Byte) /\ output' \in Seq(Byte) /\ Len(socket') <= SndCap
      /\ answers' # <<>> /\ "close" \notin lost' /\ Len(asked) = Len(answers')
      /\ "skip" \notin lost' => OnTheWay'
  BY <1>1, <1>3, <1>5, <1>6, AnswerKeeps
<1>8. Waiting'
  BY <1>7 DEF Waiting
<1>9. file' \in FileRecord /\ state' \in {"Connected", "Disconected"}
  BY <1>2, TypesOfHttp DEF HttpIInv, FileRecord
<1> QED BY <1>6, <1>7, <1>8, <1>9 DEF AfterRead

LEMMA FileAnswerKeeps ==
  ASSUME HttpIInv, state = "Connected", file = NoFile, Len(asked) = Len(answers) + 1,
         asked' = asked, received' = received, lost' = lost,
         unread' = <<>>, context' = NewContext,
         NEW r \in Requests, r = asked[Len(asked)], AnswerFile(Meant(r))
  PROVE  AfterRead
<1>1. PICK len \in FileLens, closes \in {TRUE, AsksToClose(Meant(r))} :
        /\ Answer(<<Meant(r)>>, HeadLen + len)
        /\ file' = [size |-> len, offset |-> 0, closes |-> closes]
  BY DEF AnswerFile
<1>2. Send([i \in 1 .. HeadLen |-> <<Len(asked), i>>]) /\ state' = state
  BY DEF AnswerFile
<1>3. len \in Nat \ {0} /\ HeadLen \in Nat \ {0}
  BY HttpAssumption
<1>4. PICK seen : seen = <<Meant(r)>>
  OBVIOUS
<1>5. PICK whole \in Nat \ {0} : whole = HeadLen + len
  BY <1>3
<1>6. seen \in Seen /\ seen \in {<<>>, <<Meant(asked[Len(asked)])>>} /\ Answer(seen, whole)
  BY <1>1, <1>4, <1>5 DEF Seen
<1>7. file'.size = len /\ file'.offset = 0 /\ file' # NoFile
  <2>1. file'.size = len /\ file'.offset = 0
    BY <1>1
  <2>2. NoFile.size = 0
    BY DEF NoFile
  <2> QED BY <1>3, <2>1, <2>2
<1>8. /\ HeadLen = HeadLen /\ file' # NoFile /\ file'.offset = 0 /\ file'.size \in Nat
      /\ whole = HeadLen + file'.size
  BY <1>3, <1>5, <1>7
<1>9. /\ Answered' /\ RequestIsExact' /\ SentOnce'
      /\ socket' \in Seq(Byte) /\ output' \in Seq(Byte) /\ Len(socket') <= SndCap
      /\ answers' # <<>> /\ "close" \notin lost' /\ Len(asked) = Len(answers')
      /\ "skip" \notin lost' => OnTheWay'
  BY <1>2, <1>3, <1>5, <1>6, <1>8, AnswerKeeps
<1>10. Waiting'
  BY <1>9 DEF Waiting
<1>11. file' \in FileRecord
  <2>1. closes \in BOOLEAN
    <3>1. AsksToClose(Meant(r)) \in BOOLEAN
      BY DEF AsksToClose
    <3> QED BY <3>1
  <2> QED BY <1>1, <2>1 DEF FileRecord
<1> QED BY <1>2, <1>3, <1>7, <1>9, <1>10, <1>11 DEF AfterRead

LEMMA RefusalKeeps ==
  ASSUME HttpIInv, state = "Connected", file = NoFile, Len(asked) = Len(answers) + 1,
         asked' = asked, received' = received, lost' = lost, RefuseRead
  PROVE  AfterRead
<1>1. /\ Answer(<<>>, 1) /\ Send(<< <<Len(asked), 1>> >>)
      /\ state' = "Disconected" /\ file' = file
  BY DEF RefuseRead
<1>2. PICK one \in Nat \ {0} : one = 1
  OBVIOUS
<1>3. PICK seen : seen = <<>>
  OBVIOUS
<1>4. seen \in Seen /\ seen \in {<<>>, <<Meant(asked[Len(asked)])>>} /\ Answer(seen, one)
  BY <1>1, <1>2, <1>3 DEF Seen
<1>5. Send([i \in 1 .. one |-> <<Len(asked), i>>])
  <2>1. [i \in 1 .. 1 |-> <<Len(asked), i>>] = << <<Len(asked), 1>> >>
    OBVIOUS
  <2> QED BY <1>1, <1>2, <2>1
<1>6. one = one /\ file' = NoFile
  BY <1>1
<1>7. /\ Answered' /\ RequestIsExact' /\ SentOnce'
      /\ socket' \in Seq(Byte) /\ output' \in Seq(Byte) /\ Len(socket') <= SndCap
      /\ answers' # <<>> /\ "close" \notin lost' /\ Len(asked) = Len(answers')
      /\ "skip" \notin lost' => OnTheWay'
  BY <1>4, <1>5, <1>6, AnswerKeeps
<1>8. file' \in FileRecord
  BY <1>1, TypesOfHttp DEF HttpIInv, FileRecord
<1> QED BY <1>1, <1>6, <1>7, <1>8 DEF AfterRead

LEMMA HandleKeeps ==
  ASSUME HttpIInv, NEW n \in 1 .. Len(unread), HandleMessage(n)
  PROVE  HttpIInv'
<1> DEFINE r == asked[Len(asked)]
           c == ParaseRequest(context, SubSeq(unread, 1, n))
<1>0. /\ HttpTypeOK /\ state = "Connected" /\ file = NoFile /\ "close" \notin lost
      /\ reads \in Seq(Nat \ {0})
  BY DEF HttpIInv, HandleMessage, Running
<1>1. /\ reads' = Append(reads, n)
      /\ asked' = asked /\ received' = received /\ lost' = lost
      /\ \/ ~Accepts(c) /\ RefuseRead
         \/ /\ c.state = "BODY" /\ context' = c
            /\ UNCHANGED <<answers, socket, output, state, file>>
         \/ c.state = "COMPLETE" /\ context' = NewContext /\ OnRequest(c.request)
  BY DEF HandleMessage
<1>2. /\ Len(asked) = Len(answers) + 1 /\ r \in Requests
      /\ \/ ~Accepts(c)
         \/ /\ \E s, k : c = At("BODY", HeadMeant(r), s, k)
            /\ \E i \in 1 .. Len(r.body) + 1 : unread' = SubSeq(r.body, i, Len(r.body))
         \/ c.state = "COMPLETE" /\ c.request = Meant(r) /\ unread' = <<>>
  BY ReadMeans
<1>3. \A s, k : At("BODY", HeadMeant(r), s, k).state = "BODY"
  BY DEF At
<1> HIDE DEF c
<1>4. ASSUME RefuseRead PROVE AfterRead
  BY <1>0, <1>1, <1>2, <1>4, RefusalKeeps
<1>5. ASSUME c.state = "BODY", context' = c, UNCHANGED <<answers, socket, output, state, file>>
      PROVE  AfterRead
  <2>1. Accepts(c) /\ c.state # "COMPLETE"
    BY <1>5 DEF Accepts
  <2>2. Waiting'
    BY <1>1, <1>2, <1>5, <2>1 DEF Waiting
  <2> QED BY <1>1, <1>5, <2>2, UnansweredKeeps
<1>6. ASSUME c.state = "COMPLETE", context' = NewContext, OnRequest(c.request)
      PROVE  AfterRead
  <2>1. Accepts(c) /\ c.state # "BODY"
    BY <1>6 DEF Accepts
  <2>2. c.request = Meant(r) /\ unread' = <<>>
    BY <1>2, <1>3, <2>1
  <2>3. CASE UNCHANGED <<answers, socket, output, state, file>>
    <3>1. Waiting'
      BY <1>1, <1>2, <1>6, <2>2, <2>3 DEF Waiting
    <3> QED BY <1>1, <2>3, <3>1, UnansweredKeeps
  <2>4. CASE AnswerPage(Meant(r))
    BY <1>0, <1>1, <1>2, <1>6, <2>2, <2>4, PageKeeps
  <2>5. CASE AnswerFile(Meant(r))
    BY <1>0, <1>1, <1>2, <1>6, <2>2, <2>5, FileAnswerKeeps
  <2> QED BY <1>6, <2>2, <2>3, <2>4, <2>5 DEF OnRequest
<1>7. AfterRead
  BY <1>1, <1>4, <1>5, <1>6
<1>8. reads' \in Seq(Nat \ {0})
  <2>1. n \in Nat \ {0}
    <3>1. unread' = SubSeq(unread, n + 1, Len(unread)) /\ n \in Int
      BY DEF HandleMessage
    <3> QED BY <3>1
  <2> QED BY <1>0, <1>1, <2>1, AppendProperties
<1>9. HttpTypeOK'
  <2>1. \A i \in DOMAIN reads' : reads'[i] \in Nat \ {0}
    BY <1>8
  <2> QED BY <1>0, <1>1, <1>7, <2>1 DEF HttpTypeOK, AfterRead, FileRecord
<1> QED BY <1>0, <1>1, <1>7, <1>8, <1>9 DEF AfterRead, HttpIInv

-----------------------------------------------------------------------------
(* HttpServer's theorems                                                   *)

LEMMA HttpStarts ==
  ASSUME HttpInit
  PROVE  HttpIInv
<1>1. /\ asked = <<>> /\ unread = <<>> /\ reads = <<>> /\ context = NewContext
      /\ state = "Connected" /\ output = <<>> /\ file = NoFile /\ socket = <<>>
      /\ received = <<>> /\ answers = <<>> /\ lost = {}
  BY DEF HttpInit
<1>2. MaxRequests \in Nat /\ SndCap \in Nat
  BY HttpAssumption
<1>3. HttpTypeOK
  <2>1. NoFile \in [size : FileLens \cup {0}, offset : Nat, closes : BOOLEAN]
    BY DEF NoFile
  <2> QED BY <1>1, <1>2, <2>1 DEF HttpTypeOK
<1>4. Sent = <<>>
  <2>1. [k \in DOMAIN answers |-> answers[k].bytes] = <<>>
    BY <1>1
  <2> QED BY <2>1 DEF Sent, FlattenSeq
<1>5. Answered /\ RequestIsExact /\ Waiting
  BY <1>1 DEF Answered, RequestIsExact, Waiting
<1>6. SentOnce
  BY <1>1, <1>4 DEF SentOnce
<1>7. OnTheWay
  <2>1. <<>> \o <<>> \o <<>> \o <<>> = <<>>
    OBVIOUS
  <2> QED BY <1>1, <1>4, <2>1 DEF OnTheWay, FileLeft
<1> QED BY <1>1, <1>2, <1>3, <1>5, <1>6, <1>7 DEF HttpIInv

LEMMA HttpMoves ==
  ASSUME HttpIInv, [HttpNext]_httpVars
  PROVE  HttpIInv'
<1>1. CASE Deliver
  BY <1>1, HandleKeeps DEF Deliver
<1>2. CASE HandleWrite
  BY <1>2, WritesKeep
<1>3. CASE SendFile
  BY <1>3, FileKeeps
<1>4. CASE Destroy
  BY <1>4, DestroyKeeps
<1>5. CASE ClientReads
  BY <1>5, ReadsKeep
<1>6. ASSUME NEW r \in Requests, ClientAsks(r) PROVE HttpIInv'
  BY <1>6, AsksKeep
<1>7. CASE UNCHANGED httpVars
  BY <1>7, StutterKeeps
<1> QED BY <1>1, <1>2, <1>3, <1>4, <1>5, <1>6, <1>7 DEF HttpNext

LEMMA HttpIsInvariant == HttpSpec => []HttpIInv
<1>1. HttpInit => HttpIInv
  BY HttpStarts
<1>2. HttpIInv /\ [HttpNext]_httpVars => HttpIInv'
  BY HttpMoves
<1> QED BY <1>1, <1>2, PTL DEF HttpSpec

\* For every request a client may make and every cut of it into reads: onRequest sees
\* method, parameters, headers and body exactly as they were asked, or the read is
\* refused; what is sent and received is bytes of answers.
THEOREM RequestsAreExact == HttpSpec => []HttpInv
<1>1. HttpIInv => HttpInv
  BY DEF HttpIInv, HttpInv
<1> QED BY <1>1, HttpIsInvariant, PTL

\* Until sendfile() is cut short, the client receives the answers' bytes in order,
\* each once: over Send, EPOLLOUT, the file behind its head and the next request.
THEOREM AnswersArriveInOrder == HttpSpec => []AnswersInOrder
<1>1. ASSUME HttpIInv PROVE AnswersInOrder
  <2> SUFFICES ASSUME "skip" \notin lost PROVE IsPrefix(received \o socket \o output, Sent)
    BY DEF AnswersInOrder
  <2>1. OnTheWay
    BY <1>1 DEF HttpIInv
  <2>2. CASE "close" \in lost
    BY <2>1, <2>2 DEF OnTheWay
  <2>3. CASE "close" \notin lost
    <3>1. /\ received \in Seq(Byte) /\ socket \in Seq(Byte) /\ output \in Seq(Byte)
          /\ FileLeft \in Seq(Byte)
      BY <1>1, TypesOfHttp, FileLeftIs DEF HttpIInv
    <3>2. PICK u : u = received \o socket \o output
      OBVIOUS
    <3>3. u \in Seq(Byte)
      <4>1. PICK v : v = received \o socket
        OBVIOUS
      <4>2. v \in Seq(Byte)
        BY <3>1, <4>1, ConcatProperties
      <4> QED BY <3>1, <3>2, <4>1, <4>2, ConcatProperties
    <3>4. PICK f : f = FileLeft
      OBVIOUS
    <3>5. f \in Seq(Byte)
      BY <3>1, <3>4
    <3>6. IsPrefix(u, u \o f)
      BY ONLY <3>3, <3>5, PrefixOfWhole
    <3>7. u \o f = Sent
      BY <2>1, <2>3, <3>2, <3>4 DEF OnTheWay
    <3> QED BY <3>2, <3>6, <3>7
  <2> QED BY <2>2, <2>3
<1> QED BY <1>1, HttpIsInvariant, PTL
=============================================================================
