---------------------------- MODULE MCConnections ----------------------------
(***************************************************************************)
(* The connections between the browser and the server, side by side: the     *)
(* server's end of a tab's websocket, the browser's pool of streams, and a   *)
(* port-forward session with its sockets. A behaviour follows one of them.   *)
(***************************************************************************)
EXTENDS StreamMux, ClusterStream, PortForwards, TLC

CONSTANTS i1, t1, t2, none

\* A stream with a snapshot and a delta, and one with nothing to say.
TwoAndNone == t1 :> 2 @@ t2 :> 0

VARIABLE part   \* the component this behaviour is about

allVars == <<part, vars, streamVars, forwardVars>>

Parts == {"mux", "pool", "forward"}

AnyInit ==
    /\ part \in Parts
    /\ Init /\ StreamInit /\ ForwardInit

AnyNext ==
    \/ /\ part = "mux" /\ Next
       /\ UNCHANGED <<part, streamVars, forwardVars>>
    \/ /\ part = "pool" /\ StreamNext
       /\ UNCHANGED <<part, vars, forwardVars>>
    \/ /\ part = "forward" /\ ForwardNext
       /\ UNCHANGED <<part, vars, streamVars>>

\* The fairness of each component, while it is the one that runs
AnyFairness ==
    /\ \A g \in Services : WF_vars(part = "mux" /\ Shutdown(g))
    /\ WF_vars(part = "mux" /\ ~conn /\ ReadFails)
    /\ WF_vars(part = "mux" /\ (SubscribeFails \/ \E s \in ServerStreams : SubscribeReturns(s)))
    /\ WF_vars(part = "mux" /\ RegisterStream) /\ WF_vars(part = "mux" /\ RegisterPanics)
    /\ WF_vars(part = "mux" /\ Reply) /\ WF_vars(part = "mux" /\ Writer)
    /\ WF_vars(part = "mux" /\ PingerStops)
    /\ WF_vars(part = "mux" /\ at["reader"] = "gone" /\ ContextDone)
    /\ \A s \in ServerStreams : WF_vars(part = "mux" /\ Pump(s))
    /\ \A s \in Streams :
         /\ WF_streamVars(part = "pool" /\ OnClose(s))
         /\ WF_streamVars(part = "pool" /\ CheckAnswered(s))
         /\ WF_streamVars(part = "pool" /\ CheckRetries(s))
         /\ WF_streamVars(part = "pool" /\ DeclareDead(s))
         /\ WF_streamVars(part = "pool" /\ ReconnectTimer(s))
         /\ SF_streamVars(part = "pool" /\ OnOpen(s))
    /\ \A k \in Dials : WF_forwardVars(part = "forward" /\ SocketStep(k))

AnySpec == AnyInit /\ [][AnyNext]_allVars /\ AnyFairness
==============================================================================
