----------------------------- MODULE MCHostTrust -----------------------------
(***************************************************************************)
(* HostTrust on a small instance: one connection to a host, and one to the *)
(* same host through another.                                              *)
(***************************************************************************)
EXTENDS HostTrust, TLC

CONSTANTS direct, jumped, web, jump

P(s, f, u) == [strict |-> s, files |-> f, update |-> u]

MCHops == direct :> <<web>> @@ jumped :> <<jump, web>>
MCPolicies ==
    direct :> {P("ask", FALSE, "no"), P("ask", TRUE, "ask"),
               P("accept-new", TRUE, "yes")}
    @@ jumped :> {P("no", FALSE, "no"), P("ask", TRUE, "yes")}
=============================================================================
