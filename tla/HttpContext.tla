---------------------------- MODULE HttpContext -----------------------------
(***************************************************************************)
(* The request parser of the course library (code/day29/http): a state     *)
(* machine over characters that runs over each read by itself and stores   *)
(* what it recognises by its position in that read.                        *)
(*                                                                         *)
(* A symbol is a character, or a word whose later characters leave the     *)
(* parser in the state its first one leads to; a token is a sequence of    *)
(* symbols.                                                                *)
(***************************************************************************)
EXTENDS Naturals, Sequences, SequencesExt

CONSTANT Number(_)   \* atoi of a token

Methods == {"GET", "POST", "HEAD", "PUT"}
Upper == Methods \cup {"HTTP"}
Digits == {"0", "1", "2", "3", "1.0", "1.1"}
Ends == {"CR", "LF"}

-----------------------------------------------------------------------------
(* HttpRequest                                                             *)

NewRequest ==
  [method |-> "kInvalid", url |-> <<>>, params |-> {}, protocol |-> <<>>,
   version |-> "kUnknown", headers |-> {}, body |-> <<>>]

\* SetMethod and SetVersion
Method(token) == IF token \in {<<m>> : m \in Methods} THEN token[1] ELSE "kInvalid"
Version(token) == IF token \in {<<"1.0">>, <<"1.1">>} THEN token[1] ELSE "kUnknown"

\* A map as a set of pairs; a later value replaces an earlier one.
PutPair(map, key, value) == {pair \in map : pair[1] # key} \cup {<<key, value>>}

HasHeader(request, name) == \E pair \in request.headers : pair[1] = <<name>>
GetHeader(request, name) ==
  IF HasHeader(request, name)
  THEN (CHOOSE pair \in request.headers : pair[1] = <<name>>)[2]
  ELSE <<>>

ContentLength(request) == Number(GetHeader(request, "Content-Length"))

-----------------------------------------------------------------------------
(* HttpContext                                                             *)

\* state_ and request_, and ParaseRequest's start and colon.
NewContext == [state |-> "START", request |-> NewRequest, start |-> 1, colon |-> 1]

\* Behind the empty line; `more` tells that the read does not end before it.
AfterHead(request, more) ==
  IF HasHeader(request, "Content-Length")
  THEN IF ContentLength(request) > 0 THEN "BODY" ELSE "COMPLETE"
  ELSE IF more THEN "BODY" ELSE "COMPLETE"

\* Wrong: a body of exactly Content-Length is not enough.
MoreThan(length, request) == length > ContentLength(request)

\* What is left of this read is the body, if it is long enough.
LongEnough(length, request) == length >= ContentLength(request)

\* The switch: where character ch leads.
NextState(state, ch, request, left) ==
  CASE state = "START" ->
         IF ch \in Ends \cup {"SP"} THEN "START"
         ELSE IF ch \in Upper THEN "METHOD" ELSE "kINVALID"
    [] state = "METHOD" ->
         IF ch \in Upper THEN "METHOD" ELSE IF ch = "SP" THEN "BEFORE_URL" ELSE "kINVALID"
    [] state = "BEFORE_URL" ->
         IF ch = "/" THEN "IN_URL" ELSE IF ch = "SP" THEN "BEFORE_URL" ELSE "kINVALID"
    [] state = "IN_URL" ->
         IF ch = "?" THEN "BEFORE_URL_PARAM_KEY"
         ELSE IF ch = "SP" THEN "BEFORE_PROTOCOL" ELSE "IN_URL"
    [] state = "BEFORE_URL_PARAM_KEY" ->
         IF ch \in Ends \cup {"SP"} THEN "kINVALID" ELSE "URL_PARAM_KEY"
    [] state = "URL_PARAM_KEY" ->
         IF ch = "=" THEN "BEFORE_URL_PARAM_VALUE"
         ELSE IF ch = "SP" THEN "kINVALID" ELSE "URL_PARAM_KEY"
    [] state = "BEFORE_URL_PARAM_VALUE" ->
         IF ch \in Ends \cup {"SP"} THEN "kINVALID" ELSE "URL_PARAM_VALUE"
    [] state = "URL_PARAM_VALUE" ->
         IF ch = "&" THEN "BEFORE_URL_PARAM_KEY"
         ELSE IF ch = "SP" THEN "BEFORE_PROTOCOL" ELSE "URL_PARAM_VALUE"
    [] state = "BEFORE_PROTOCOL" -> IF ch = "SP" THEN "BEFORE_PROTOCOL" ELSE "PROTOCOL"
    [] state = "PROTOCOL" -> IF ch = "/" THEN "BEFORE_VERSION" ELSE "PROTOCOL"
    [] state = "BEFORE_VERSION" -> IF ch \in Digits THEN "VERSION" ELSE "kINVALID"
    [] state = "VERSION" ->
         IF ch = "CR" THEN "WHEN_CR" ELSE IF ch \in Digits THEN "VERSION" ELSE "kINVALID"
    [] state = "HEADER_KEY" -> IF ch = ":" THEN "HEADER_VALUE" ELSE "HEADER_KEY"
    [] state = "HEADER_VALUE" -> IF ch = "CR" THEN "WHEN_CR" ELSE "HEADER_VALUE"
    [] state = "WHEN_CR" -> IF ch = "LF" THEN "CR_LF" ELSE "kINVALID"
    [] state = "CR_LF" ->
         IF ch = "CR" THEN "CR_LF_CR" ELSE IF ch = "SP" THEN "kINVALID" ELSE "HEADER_KEY"
    [] state = "CR_LF_CR" -> IF ch = "LF" THEN AfterHead(request, left > 0) ELSE "kINVALID"
    [] state = "BODY" -> IF LongEnough(left, request) THEN "COMPLETE" ELSE "BODY"

\* Wrong: the value with the blank in front of it.
AfterColon(msg, colon, i) == SubSeq(msg, colon + 1, i - 1)

\* A header's value begins two characters behind the colon.
ValueOf(msg, colon, i) == SubSeq(msg, colon + 2, i - 1)

\* What the request learns from the token that ends at i.
Learnt(c, next, msg, i) ==
  LET token == SubSeq(msg, c.start, i - 1)
      name == SubSeq(msg, c.start, c.colon - 1)
  IN CASE c.state = "METHOD" /\ next = "BEFORE_URL" ->
            [c.request EXCEPT !.method = Method(token)]
       [] c.state = "IN_URL" /\ next # "IN_URL" -> [c.request EXCEPT !.url = token]
       [] c.state = "URL_PARAM_VALUE" /\ next # "URL_PARAM_VALUE" ->
            [c.request EXCEPT !.params = PutPair(@, name, SubSeq(msg, c.colon + 1, i - 1))]
       [] c.state = "PROTOCOL" /\ next # "PROTOCOL" -> [c.request EXCEPT !.protocol = token]
       [] c.state = "VERSION" /\ next = "WHEN_CR" ->
            [c.request EXCEPT !.version = Version(token)]
       [] c.state = "HEADER_VALUE" /\ next = "WHEN_CR" ->
            [c.request EXCEPT !.headers = PutPair(@, name, ValueOf(msg, c.colon, i))]
       [] c.state = "BODY" ->
            [c.request EXCEPT !.body = SubSeq(msg, c.start, c.start + Len(msg) - i)]
       [] OTHER -> c.request

\* The states after whose end start moves on.
Cutting == {"METHOD", "IN_URL", "URL_PARAM_VALUE", "PROTOCOL", "VERSION", "HEADER_VALUE",
            "WHEN_CR", "CR_LF_CR"}

\* One character; the loop also takes the NUL behind the last one.
Step(c, msg, i) ==
  LET ch == IF i <= Len(msg) THEN msg[i] ELSE "NUL"
      next == NextState(c.state, ch, c.request, Len(msg) - i + 1)
  IN  [state |-> next,
       request |-> Learnt(c, next, msg, i),
       start |-> IF c.state \in Cutting /\ next \notin {c.state, "kINVALID"}
                 THEN i + 1 ELSE c.start,
       colon |-> IF next # c.state /\ next \in {"BEFORE_URL_PARAM_VALUE", "HEADER_VALUE"}
                 THEN i ELSE c.colon]

\* The loop ends in these states.
Advance(c, msg, i) == IF c.state \in {"kINVALID", "COMPLETE"} THEN c ELSE Step(c, msg, i)

\* ParaseRequest over one read: the context behind its last character and the NUL.
ParaseRequest(context, msg) ==
  LET after[i \in 0 .. Len(msg) + 1] ==
        IF i = 0 THEN [context EXCEPT !.start = 1, !.colon = 1]
        ELSE Advance(after[i - 1], msg, i)
  IN  after[Len(msg) + 1]

\* ParaseRequest's result.
Accepts(context) == context.state \in {"COMPLETE", "BODY"}
=============================================================================
