---------------------------- MODULE HttpCapability ----------------------------
(***************************************************************************)
(* The HTTP capability: Get and Post of services/http/pkg/http.go, called  *)
(* by crawlers over Cap'n Proto, and the server behind them                *)
(* (services/http/pkg/server/http.go).  Both are pure: they turn what came *)
(* of the native HTTP call into what their caller sees.                    *)
(*                                                                         *)
(* What can come of it: the request is not made or gets no answer          *)
(* ("refused"), the answer has a body that cannot be read ("unread"), or   *)
(* all is well, whatever the status ("answered").                          *)
(***************************************************************************)

CONSTANTS NoBody, NoOrigin   \* the empty body, the empty URL

Outcome == {"refused", "unread", "answered"}

NoResponse == [status |-> 0, body |-> NoBody, error |-> FALSE, origin |-> NoOrigin]

(* buildResponse gives up when the body cannot be read, before it sets the *)
(* status; the server ignores that error.                                  *)
BuildResponse(outcome, status, body) ==
  IF outcome = "unread" THEN NoResponse
  ELSE [NoResponse EXCEPT !.status = status, !.body = body]

(* The server's Get and Post put a failure in the response, and return it  *)
(* as an error as well.                                                    *)
Serve(outcome, status, body) ==
  IF outcome = "refused"
  THEN [err |-> TRUE, response |-> [NoResponse EXCEPT !.error = TRUE]]
  ELSE [err |-> FALSE, response |-> BuildResponse(outcome, status, body)]

(* A call that returns an error has no results: Struct() fails, and the    *)
(* caller gets the zero Response.  A response's error is never seen.       *)
Get(url, outcome, status, body) ==
  LET served == Serve(outcome, status, body)
  IN  IF served.err THEN [err |-> TRUE, response |-> NoResponse]
      ELSE [err |-> FALSE, response |-> [served.response EXCEPT !.origin = url]]

(* Post does not set the origin. *)
Post(outcome, status, body) ==
  LET served == Serve(outcome, status, body)
  IN  IF served.err THEN [err |-> TRUE, response |-> NoResponse] ELSE served
=============================================================================
