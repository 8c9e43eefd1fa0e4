----------------------------- MODULE MCProgress -----------------------------
(***************************************************************************)
(* What must go on, for TLC: calls through a breaker, a run of the agent   *)
(* loop, the channels of sockets, and the providers of a gateway. They     *)
(* share no state, so a behaviour explores one of them, and nothing is     *)
(* lost.                                                                   *)
(***************************************************************************)
EXTENDS BreakerCalls, AgentLoop, WsChannels, ProviderFallback, TLC

CONSTANTS t1, t2, t3, f1, f2, n1, n2

VARIABLE focus   \* the component that a behaviour explores

Components == {"breaker", "loop", "sockets", "gateway"}

mcVars == <<focus, vars, loopVars, wsVars, gatewayVars>>

MCInit ==
    /\ focus \in Components
    /\ Init
    /\ LoopInit
    /\ WsInit
    /\ GatewayInit

(* Those in which there may be nothing left to do. *)
MayStop == {"loop"}

MCNext ==
    /\ UNCHANGED focus
    /\ \/ /\ focus = "breaker" /\ Next
          /\ UNCHANGED <<loopVars, wsVars, gatewayVars>>
       \/ /\ focus = "loop" /\ LoopNext
          /\ UNCHANGED <<vars, wsVars, gatewayVars>>
       \/ /\ focus = "sockets" /\ WsNext
          /\ UNCHANGED <<vars, loopVars, gatewayVars>>
       \/ /\ focus = "gateway" /\ GatewayNext
          /\ UNCHANGED <<vars, loopVars, wsVars>>
       \/ focus \in MayStop /\ UNCHANGED mcVars

MCSpec == MCInit /\ [][MCNext]_mcVars

(* The fairness of each module, in the behaviours that explore its component. *)
MCFairSpec ==
    /\ MCSpec
    /\ WF_vars(focus = "breaker" /\ Tick)
    /\ \A t \in Threads :
          SF_vars(focus = "breaker" /\ Ask(t)) /\ WF_vars(focus = "breaker" /\ Succeed(t))
    /\ WF_loopVars(focus = "loop" /\ LoopStep)
    /\ WF_wsVars(focus = "sockets" /\ Check) /\ WF_wsVars(focus = "sockets" /\ TickTock)
    /\ \A s \in Sockets : WF_wsVars(focus = "sockets" /\ Handle(s))
    /\ WF_gatewayVars(focus = "gateway" /\ GatewayTick)
    /\ SF_gatewayVars(focus = "gateway" /\ AskChain(FALSE))
    /\ WF_gatewayVars(focus = "gateway" /\ PromptStep)
    /\ WF_gatewayVars(focus = "gateway" /\ prompt.at = "asked" /\ Speak)

(* A run of the loop, and the gateway that it asks. *)
AgentInv == LoopInv /\ GatewayInv

(* A run ends, and the gateway comes back to its first provider. *)
AgentEnds == RunEnds /\ PrimaryComesBack
=============================================================================
