---------------------------- MODULE MCHttpServer ----------------------------
(***************************************************************************)
(* HttpServer for TLC.                                                     *)
(***************************************************************************)
EXTENDS HttpServer

\* atoi of the numerals that MCRequests has.
MCNumber(token) ==
  CASE token = <<"1">> -> 1 [] token = <<"2">> -> 2 [] token = <<"3">> -> 3 [] OTHER -> 0

\* Requests with and without parameters, headers, a body and a file in it; one
\* asks for the connection to be kept, one for the opposite.
MCRequests ==
  LET Plain == [method |-> "GET", params |-> <<>>, version |-> "1.1",
                headers |-> <<>>, body |-> <<>>]
      Length(n) == <<"Content-Length", n>>
  IN  {Plain,
       [Plain EXCEPT !.params = <<<<"a", "1">>, <<"b", "2">>>>,
                     !.headers = <<<<"Host", "h">>, <<"Connection", "Close">>>>],
       [Plain EXCEPT !.version = "1.0", !.method = "HEAD"],
       [Plain EXCEPT !.version = "1.0", !.params = <<<<"a", "1">>>>,
                     !.headers = <<<<"Connection", "keep-alive">>>>],
       [Plain EXCEPT !.method = "POST", !.headers = <<Length("0")>>],
       [Plain EXCEPT !.method = "POST", !.headers = <<Length("2")>>, !.body = <<"x", "y">>],
       [Plain EXCEPT !.method = "PUT", !.headers = <<Length("1"), <<"Host", "h">>>>,
                     !.body = <<"x">>],
       [Plain EXCEPT !.method = "POST",
          !.headers = <<Length("3"), <<"Content-Type", "multipart/form-data">>>>,
          !.body = <<"filename", "CR", "LF">>],
       [Plain EXCEPT !.method = "POST",
          !.headers = <<Length("1"), <<"Content-Type", "multipart/form-data">>>>,
          !.body = <<"x">>]}
=============================================================================
