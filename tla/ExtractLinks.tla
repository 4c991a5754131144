----------------------------- MODULE ExtractLinks -----------------------------
(***************************************************************************)
(* How the crawler reads URLs and the links of a page (crawler/http.go).   *)
(*                                                                         *)
(* A text is a record of the parts it is written with, "" where there is   *)
(* none: "http://h:80/a?q" is the scheme "http://", the host "h", the port *)
(* ":80", the path "/a" and the rest "?q".  The rest starts at the first   *)
(* character that the expression does not allow in a path.                 *)
(***************************************************************************)

CONSTANT OddHost   \* hosts with characters other than letters, digits and dots

NoDomain == <<"", "">>
NoText == [scheme |-> "", host |-> "", port |-> "", path |-> "", rest |-> ""]

Protos == {"http:/", "http://", "https:/", "https://"}

(* A port is read as one only after a host.                                *)
WellFormed(text) == text.port # "" => text.host # ""

(* The expression is read from the start of the text: after a scheme it    *)
(* does not know, such as mailto:, every part of it is empty.              *)
Readable(text) == text.scheme \in Protos \cup {""}

(* A host counts only if a port follows it...                              *)
Domain(text) ==
  IF Readable(text) /\ text.port # "" /\ text.host \notin OddHost
  THEN <<text.host, text.port>> ELSE NoDomain

MutPath(text) ==
  IF Readable(text) /\ (text.host = "" \/ Domain(text) # NoDomain) THEN text.path ELSE ""

(* ... and the path only if nothing unread comes before it.  It has at     *)
(* least one character after the slash.                                    *)
Path(text) ==
  IF /\ Readable(text)
     /\ text.host = "" \/ Domain(text) # NoDomain
     /\ text.path # "/"
  THEN text.path ELSE ""

(* linkFromMatch *)
Link(text) ==
  [proto  |-> IF Readable(text) THEN text.scheme ELSE "",
   domain |-> Domain(text),
   path   |-> Path(text)]

NilLink == Link(NoText)

MutString(link) ==
  [scheme |-> "", host |-> link.domain[1], port |-> link.domain[2],
   path |-> link.path, rest |-> ""]

(* The text of a link.  Different links have different texts, unless some  *)
(* scheme is written with one slash and some path begins with two.         *)
String(link) ==
  [scheme |-> link.proto, host |-> link.domain[1], port |-> link.domain[2],
   path |-> link.path, rest |-> ""]

(* "mailto, magnets or similar links" *)
Skipped(link) == link.path = "" /\ link.proto \notin {"", "https://", "http://"}

MutResolve(link, from) ==
  IF link.domain = NoDomain THEN [link EXCEPT !.proto = from.proto] ELSE link

(* "relative paths" *)
Resolve(link, from) ==
  IF link.domain = NoDomain
  THEN [link EXCEPT !.proto = from.proto, !.domain = from.domain]
  ELSE link

MutExtractLinks(from, hrefs) ==
  {Resolve(link, from) : link \in {l \in {Link(text) : text \in hrefs} : ~Skipped(l)}}

(* The links of a page: hrefs are the texts of its anchors.                *)
ExtractLinks(from, hrefs) ==
  LET read == {link \in {Link(text) : text \in hrefs} : ~Skipped(link)}
  IN  {link \in {Resolve(l, from) : l \in read} : String(link) # String(from)}
=============================================================================
