----------------------------- MODULE MCServices -----------------------------
(***************************************************************************)
(* What is served, for TLC: appends to the audit chain, the event stream   *)
(* of a run, and the checks of readiness. A behaviour explores one of      *)
(* them.                                                                   *)
(***************************************************************************)
EXTENDS AuditChain, RunEvents, Readiness, TLC

CONSTANTS w1, w2, w3, p1, p2

TwoServices == <<"checkpoint", "redis">>

ProbeTimes == ("checkpoint" :> 2) @@ ("redis" :> 1)

VARIABLE focus   \* the component that a behaviour explores

Components == {"chain", "events", "ready"}

mcVars == <<focus, chainVars, eventVars, readyVars>>

MCInit ==
    /\ focus \in Components
    /\ ChainInit
    /\ EventsInit
    /\ ReadyInit

MCNext ==
    /\ UNCHANGED focus
    /\ \/ /\ focus = "chain" /\ ChainNext
          /\ UNCHANGED <<eventVars, readyVars>>
       \/ /\ focus = "events" /\ EventsNext
          /\ UNCHANGED <<chainVars, readyVars>>
       \/ /\ focus = "ready" /\ ReadyNext
          /\ UNCHANGED <<chainVars, eventVars>>

MCSpec == MCInit /\ [][MCNext]_mcVars

(* The fairness of each module, in the behaviours that explore its component. *)
MCFairSpec ==
    /\ MCSpec
    /\ \A w \in Writers :
          /\ SF_chainVars(focus = "chain" /\ LockHead(w)) /\ SF_chainVars(focus = "chain" /\ Bootstrap(w))
          /\ WF_chainVars(focus = "chain" /\ Insert(w)) /\ WF_chainVars(focus = "chain" /\ Commit(w))
    /\ WF_eventVars(focus = "events" /\ StreamStep)
    /\ WF_readyVars(focus = "ready" /\ Assigned) /\ WF_readyVars(focus = "ready" /\ Elapse)
    /\ \A p \in Probers :
          WF_readyVars(focus = "ready" /\ TaskStep(p)) /\ WF_readyVars(focus = "ready" /\ GoOn(p))

(* What a client relies on: the events of its run, and the readiness it asks for. *)
ServingInv == EventsInv /\ ReadyInv

(* The stream of a run that is over ends, and whoever asks is answered. *)
ServingEnds == EventStreamEnds /\ EveryoneIsAnswered
=============================================================================
