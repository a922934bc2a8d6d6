------------------------------ MODULE MCReports ------------------------------
(* An instance of Reports for TLC.                                         *)
EXTENDS Reports

\* Names shared by two cookies, session cookies, dates within a second of another.
MCCookies == [name : {1, 2}, expires : {-1, 2, 3}]
MCOrigins ==
  {<<>>,
   <<[origin |-> 2, localStorage |-> <<2, 1>>], [origin |-> 1, localStorage |-> <<1>>]>>}

MCStates ==
  [cookies : {<<>>} \cup {<<c>> : c \in MCCookies}
             \cup {<<c, d>> : c \in MCCookies, d \in MCCookies},
   origins : MCOrigins]

Call(method, path, query, status, format, length) ==
  [method |-> method, host |-> "shop", path |-> path, query |-> query,
   status |-> status, format |-> format, length |-> length]

\* Two lists that are told apart by an identifier of 32 hexadecimal digits only, and a
\* path that makes 40 letters and slashes with the last label of the host.
MCShapedSegment == {"5f4d", "9a0b"}
MCShapedHost == {<<"shop", <<"api", "catalogue">>>>}

\* An endpoint that answers in several ways and with several queries, another with
\* JSON, a page that is larger than most, the two lists and the long path.
MCExchanges ==
  {Call("GET", <<"saved">>, "page=1", 200, "json", 3),
   Call("GET", <<"saved">>, "page=2", 304, "none", 0),
   Call("POST", <<"saved">>, "", 200, "json", 1),
   Call("GET", <<>>, "", 200, "text", 2),
   Call("GET", <<"list", "5f4d">>, "", 200, "json", 2),
   Call("GET", <<"list", "9a0b">>, "", 200, "text", 3),
   Call("GET", <<"api", "catalogue">>, "", 200, "json", 1)}
=============================================================================
