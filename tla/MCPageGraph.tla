----------------------------- MODULE MCPageGraph -----------------------------
(***************************************************************************)
(* Two pages of a site, and the kinds of anchors a page may have.          *)
(***************************************************************************)
EXTENDS PageGraph

Root == [NoText EXCEPT !.scheme = "http://", !.host = "h", !.port = ":80"]
Page == [Root EXCEPT !.path = "/a"]

Anchors ==
  { Root,
    [NoText EXCEPT !.path = "/a", !.rest = "?q"],          \* /a?q
    [NoText EXCEPT !.path = "/", !.rest = "#top"],         \* /#top
    [Root EXCEPT !.scheme = "https://", !.path = "/"],     \* https://h:80/
    [Root EXCEPT !.scheme = "http:/"],                     \* http:/h:80
    [Page EXCEPT !.port = ""],                             \* http://h/a
    [Page EXCEPT !.host = "h-i"],                          \* http://h-i:80/a
    [NoText EXCEPT !.scheme = "mailto:", !.host = "m"],    \* mailto:m
    [NoText EXCEPT !.host = "tel", !.port = ":5"] }        \* tel:5

TheSite == {Root, Page}
UpToTwo == {{x, y} : x, y \in Anchors} \cup {{}}
=============================================================================
