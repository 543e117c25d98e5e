---------------------------- MODULE MCRecorderLive ----------------------------
(* What the recorder owes its caller, a part at a time: the events it       *)
(* emits, over a channel of one and a queue of two, an endpoint it streams, *)
(* and an endpoint it detects and asks about.  Each part keeps its own      *)
(* fairness.                                                                *)
EXTENDS Emitter, StreamedSource, ProbeHook
CONSTANTS a, b
VARIABLE part
mcvars == <<part, vars, ssvars, phvars>>
OnEvents(A) == part = "events" /\ A /\ UNCHANGED <<part, ssvars, phvars>>
OnStream(A) == part = "endpoint" /\ A /\ UNCHANGED <<part, vars, phvars>>
OnHook(A) == part = "hook" /\ A /\ UNCHANGED <<part, vars, ssvars>>
MCEndpoints ==
    {[speaks |-> s, names |-> Lives, maker |-> [p \in Lives |-> 1], tells |-> TRUE] :
        s \in {"stream", "metrics", "refusal"}}
MCInit ==
    /\ part \in {"events", "endpoint", "hook"}
    /\ Init /\ SSInit /\ PHInit
    /\ part = "endpoint" \/ (onArrival /\ procs = <<NoName>>)
    /\ \/ part = "hook"
       \/ endpoint.speaks = "refusal" /\ ~up
MCNext == OnEvents(Next) \/ OnStream(SSNext) \/ OnHook(PHNext)
\* Each part's fairness; as only one part moves, conditions of two of them
\* are one condition.
MCFairSpec ==
    /\ MCInit /\ [][MCNext]_mcvars
    /\ WF_mcvars(OnEvents(CallStep) \/ OnStream(DriverStep) \/ OnHook(Ticks \/ Works))
    /\ WF_mcvars(OnEvents(TickFlush) \/ OnHook(Detects \/ FirstAskRuns))
    /\ WF_mcvars(OnEvents(HandOff)) /\ WF_mcvars(OnEvents(TaskSend)) /\ WF_mcvars(OnEvents(Recv))
    /\ SF_mcvars(OnStream(Tick)) /\ SF_mcvars(OnStream(Drained))
=============================================================================
