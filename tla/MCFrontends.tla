---------------------------- MODULE MCFrontends ----------------------------
(***************************************************************************)
(* The parts of the frontends: the UDP frontend, its connection IDs and    *)
(* the HTTP frontend.  They share no state, so a behaviour runs one of     *)
(* them; the process of the other two has ended before it could start.     *)
(***************************************************************************)
EXTENDS UDPFrontend, ConnectionID, HTTPFrontend

VARIABLE part   \* the part that runs

frontendVars == <<vars, idVars, httpVars, part>>

UDPEnded ==
    /\ Started /\ down = "fatal" /\ Sockets = Worker
    /\ pkt = [r \in Req |-> CHOOSE k \in Packet : TRUE]

HTTPEnded ==
    /\ NotStarted /\ ended = "fatal"
    /\ path = [r \in HTTPReq |-> CHOOSE k \in Path : TRUE]

FrontendsInit ==
    /\ part \in {"udp", "id", "http"}
    /\ IF part = "udp" THEN Init ELSE UDPEnded
    /\ IF part = "http" THEN HTTPInit ELSE HTTPEnded
    /\ IDInit

FrontendsNext ==
    \/ part = "udp" /\ Next /\ UNCHANGED <<idVars, httpVars, part>>
    \/ part = "id" /\ IDNext /\ UNCHANGED <<vars, httpVars, part>>
    \/ part = "http" /\ HTTPNext /\ UNCHANGED <<vars, idVars, part>>

FrontendsSpec == FrontendsInit /\ [][FrontendsNext]_frontendVars /\ Fairness /\ HTTPFairness
====
