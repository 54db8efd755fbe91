---------------------------- MODULE HookDispatch ----------------------------
(***************************************************************************)
(* What the hooks of a document operation promise, whatever they notify:   *)
(* an operation takes the hooks attached when it starts, tries each of     *)
(* them once, one after the other, and completes.  Only the end of the     *)
(* process stops it.                                                       *)
(***************************************************************************)
EXTENDS Naturals

CONSTANTS Ops, Limit   \* operations; the most hooks an operation may have

VARIABLES stage, total, tried

dispatchVars == <<stage, total, tried>>

Init ==
    /\ stage = [o \in Ops |-> "idle"]
    /\ total = [o \in Ops |-> 0]
    /\ tried = [o \in Ops |-> 0]

Begin(o) ==
    /\ stage[o] = "idle"
    /\ stage' = [stage EXCEPT ![o] = "running"]
    /\ \E n \in 0 .. Limit : total' = [total EXCEPT ![o] = n]
    /\ UNCHANGED tried

Try(o) ==
    /\ stage[o] = "running" /\ tried[o] < total[o]
    /\ tried' = [tried EXCEPT ![o] = @ + 1]
    /\ UNCHANGED <<stage, total>>

Complete(o) ==
    /\ stage[o] = "running" /\ tried[o] = total[o]
    /\ stage' = [stage EXCEPT ![o] = "done"]
    /\ UNCHANGED <<total, tried>>

Abandon ==
    /\ stage' = [o \in Ops |-> IF stage[o] = "running" THEN "abandoned" ELSE stage[o]]
    /\ UNCHANGED <<total, tried>>

Next == Abandon \/ \E o \in Ops : Begin(o) \/ Try(o) \/ Complete(o)

Spec ==
    /\ Init /\ [][Next]_dispatchVars
    /\ \A o \in Ops : WF_dispatchVars(Try(o) \/ Complete(o))
=============================================================================
