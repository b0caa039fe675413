------------------------- MODULE MCStatusEndpoints --------------------------
(* StatusEndpoints, with each endpoint, from clients of each kind. *)
EXTENDS StatusEndpoints

MCRequests ==
  {[path |-> p, iface |-> i, forwarded |-> c[1], remote |-> c[2], debug |-> d, slow |-> s] :
     p \in Endpoints \cup {"/elsewhere"}, i \in BOOLEAN,
     c \in {<<<<>>, None>>, <<<<>>, "loopback">>, <<<<>>, "other">>,
            <<<<"trusted", "other">>, "loopback">>, <<<<"other", "trusted">>, "loopback">>, <<<<"malformed">>, None>>},
     d \in BOOLEAN, s \in BOOLEAN}

MCHeaders == {<<>>, <<<<"Vary", "*">>, <<"Set-Cookie", "a">>, <<"Set-Cookie", "b">>>>}
=============================================================================
