----------------------------- MODULE MCSopBroker -----------------------------
(* Values for the constants of SopBroker.                                  *)
EXTENDS SopBroker, TLC

CONSTANTS http, ws, other, agent, chat, token, P, Q

(* The same paired token over HTTP and over the websocket is one voter. *)
OneToken == [p \in Principals |-> IF p \in {http, ws} THEN token ELSE p]

Group(name, members, quorum) ==
    [policy |-> name, known |-> TRUE, open |-> FALSE, members |-> members, quorum |-> quorum,
     routes |-> {"request"}]

(* A quorum of two with a group; one member leaves; a policy without a     *)
(* group that only escalates to a channel; a name the configuration lacks; *)
(* no policy at all.                                                       *)
FiveConfigs ==
    { Group(P, Principals, 2), Group(P, {http, ws, chat}, 2),
      [Group(Q, {}, 2) EXCEPT !.open = TRUE, !.routes = {"escalation"}],
      [Group(P, {}, 0) EXCEPT !.known = FALSE, !.routes = {}],
      [Group(NoPolicy, {}, 0) EXCEPT !.known = FALSE, !.routes = {}] }

(* Nothing else tells the two transports of the token apart. *)
EitherTransport == Permutations({http, ws})

OnlyAgent == {agent}
OnlyChat == {chat}
=============================================================================
