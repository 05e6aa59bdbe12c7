------------------------------- MODULE MCAgent -------------------------------
(***************************************************************************)
(* Values of Agent's constants for model checking.                         *)
(***************************************************************************)
EXTENDS Agent

A(scheme, host, path) == [scheme |-> scheme, host |-> host, path |-> path]

\* With and without a scheme, a host, master's port and a path; and one of each
\* kind that cannot be used.
MCAddresses ==
  {A("wss", "h:9001", "/grpc-ws"), A("wss", "h:9001", ""), A("ws", "h:3000", "/x"),
   A("grpc", "h:9001", "/x"), A("grpc", "", "/x"), A("grpc", "", ""),
   A("http", "h:9001", ""), A("ws", "h:x", ""),
   A("none", "h:9001", ""), A("none", "h:9001", "/x"), A("none", "h:9001", "/grpc-ws"),
   A("none", "h:3000", ""), A("none", "h:3000", "/x"), A("none", "h:3000", "/")}

\* Two that are no period, and one that is.
MCIntervals == {-1, 0, 60}

=============================================================================
