---------------------------- MODULE Notifications ----------------------------
(***************************************************************************)
(* One server from start to exit: it connects to the bus, attaches hooks   *)
(* to one hook point (a collection or field and an event) and runs them    *)
(* for every document operation, until a SIGINT or a SIGTERM ends it.      *)
(*                                                                         *)
(* A hook notifies an HTTP endpoint, with a fetch nobody awaits, or        *)
(* publishes to the bus, which is awaited and whose error is swallowed.    *)
(* Payload runs the hooks of an operation one after the other, over the    *)
(* array attached when it started.                                         *)
(***************************************************************************)
EXTENDS MessageBus, Sequences, FiniteSets

CONSTANTS
    Ops,            (* document operations at the hook point *)
    Registered,     (* the targets of the hook point in process.env, in order *)
    Bus,            (* the target "rabbitmq" *)
    BusConfigured,  (* RABBITMQ_URL is set and this is not a build *)
    MaxEnrichments  (* bound: times the hooks are attached *)

MaxHooks == MaxEnrichments * Len(Registered)

ASSUME NotificationsAssumption ==
    /\ MaxEnrichments \in Nat \ {0, 1}
    /\ BusConfigured \in BOOLEAN
    /\ Registered \in Seq({Registered[i] : i \in DOMAIN Registered})
    /\ Events = Ops \X (1 .. MaxHooks)

VARIABLES
    phase,     (* of the server *)
    attached,  (* the hooks at the hook point: how each of them notifies *)
    enriched,  (* how often hooks were attached *)
    stage,     (* of each operation *)
    list,      (* the hooks an operation runs *)
    at,        (* the hook of its list an operation is at *)
    fetched,   (* requests sent *)
    pending    (* requests not answered yet *)

opVars == <<stage, list, at>>
vars == <<busVars, phase, attached, enriched, opVars, fetched, pending>>

Init ==
    /\ BusInit
    /\ phase = "boot"
    /\ attached = <<>> /\ enriched = 0
    /\ stage = [o \in Ops |-> "idle"]
    /\ list = [o \in Ops |-> <<>>]
    /\ at = [o \in Ops |-> 1]
    /\ fetched = {} /\ pending = {}

-----------------------------------------------------------------------------
(* Attaching hooks *)

\* A bus target is skipped while the bus is not connected; when no bus is
\* configured it is taken for a URL.
Skipped(t) == t = Bus /\ BusConfigured /\ ~isConnected

HookFor(t) == IF t = Bus /\ BusConfigured THEN "bus" ELSE "http"
Kept == {i \in DOMAIN Registered : ~Skipped(Registered[i])}
NthKept(n) == CHOOSE i \in Kept : Cardinality({j \in Kept : j <= i}) = n
HooksFor == [n \in 1 .. Cardinality(Kept) |-> HookFor(Registered[NthKept(n)])]

\* The new hooks come after those that are there already.
Enrich ==
    /\ enriched < MaxEnrichments
    /\ enriched' = enriched + 1
    /\ attached' = attached \o HooksFor
    /\ UNCHANGED <<busVars, opVars, fetched, pending>>

\* payload.init starts when connect() has settled, or at once without a bus.
LoadConfig ==
    /\ phase = "boot"
    /\ BusConfigured => connectPc \in {"done", "failed"}
    /\ phase' = "loaded"
    /\ Enrich

OnInit == phase = "loaded" /\ phase' = "serving" /\ Enrich

\* afterChange of admin-webhooks attaches to all collections once more.
AfterChange == phase = "serving" /\ UNCHANGED phase /\ Enrich

-----------------------------------------------------------------------------
(* A document operation *)

StartOperation(o) ==
    /\ phase = "serving" /\ stage[o] = "idle"
    /\ stage' = [stage EXCEPT ![o] = "running"]
    /\ list' = [list EXCEPT ![o] = attached]
    /\ UNCHANGED <<busVars, phase, attached, enriched, at, fetched, pending>>

Running(o, via) == stage[o] = "running" /\ at[o] <= Len(list[o]) /\ list[o][at[o]] = via
Advance(o) == at' = [at EXCEPT ![o] = @ + 1]

\* Mutant: the hook awaits the answer to its request.
FetchHook_Awaited(o) ==
    /\ Running(o, "http")
    /\ fetched' = fetched \cup {<<o, at[o]>>}
    /\ \/ /\ <<o, at[o]>> \notin fetched
          /\ pending' = pending \cup {<<o, at[o]>>}
          /\ UNCHANGED at
       \/ <<o, at[o]>> \in fetched \ pending /\ Advance(o) /\ UNCHANGED pending
    /\ UNCHANGED <<busVars, phase, attached, enriched, stage, list>>

FetchHook(o) ==
    /\ Running(o, "http")
    /\ fetched' = fetched \cup {<<o, at[o]>>}
    /\ pending' = pending \cup {<<o, at[o]>>}
    /\ Advance(o)
    /\ UNCHANGED <<busVars, phase, attached, enriched, stage, list>>

\* Mutant: the publish is not awaited.
PublishHook_NotAwaited(o) ==
    /\ Running(o, "bus")
    /\ BeginPublish(<<o, at[o]>>)
    /\ Advance(o)
    /\ UNCHANGED <<phase, attached, enriched, stage, list, fetched, pending>>

PublishHook(o) ==
    /\ Running(o, "bus")
    /\ BeginPublish(<<o, at[o]>>)
    /\ UNCHANGED <<phase, attached, enriched, opVars, fetched, pending>>

HookReturns(o) ==
    /\ Running(o, "bus")
    /\ send[<<o, at[o]>>] \in {"sent", "rejected"}
    /\ Advance(o)
    /\ UNCHANGED <<busVars, phase, attached, enriched, stage, list, fetched, pending>>

FinishOperation(o) ==
    /\ stage[o] = "running" /\ at[o] = Len(list[o]) + 1
    /\ stage' = [stage EXCEPT ![o] = "done"]
    /\ UNCHANGED <<busVars, phase, attached, enriched, list, at, fetched, pending>>

\* The endpoint answers, or fails: logged, and nothing else.
FetchSettles(r) ==
    /\ phase # "exited" /\ r \in pending
    /\ pending' = pending \ {r}
    /\ UNCHANGED <<busVars, phase, attached, enriched, opVars, fetched>>

-----------------------------------------------------------------------------
Leave ==
    /\ phase # "exited"
    /\ phase' = "exited"
    /\ stage' = [o \in Ops |-> IF stage[o] = "running" THEN "abandoned" ELSE stage[o]]
    /\ UNCHANGED <<busVars, attached, enriched, list, at, fetched, pending>>

\* SIGINT: close the bus, then leave.  A close() that rejects ends the process
\* too, as an unhandled rejection.  The server serves until then.
Exit == (\E s \in Signals : closePc[s] \in {"done", "failed"}) /\ Leave

\* SIGTERM: shut the tracer down, then leave.  The bus is not closed.
Terminate == Leave

BusStep ==
    /\ phase # "exited"
    /\ \/ BusConfigured /\ StartConnect
       \/ ConnectStep
       \/ BrokerRestarts
       \/ \E e \in Events : SendStep(e)
       \/ \E s \in Signals : CloseStep(s)
       \/ /\ BusConfigured => connectPc # "idle"
          /\ \E s \in Signals : BeginClose(s)
    /\ UNCHANGED <<phase, attached, enriched, opVars, fetched, pending>>

OperationStep(o) == FetchHook(o) \/ PublishHook(o) \/ HookReturns(o) \/ FinishOperation(o)

Next ==
    \/ BusStep \/ LoadConfig \/ OnInit \/ AfterChange \/ Exit \/ Terminate
    \/ \E o \in Ops : StartOperation(o) \/ OperationStep(o)
    \/ \E r \in fetched : FetchSettles(r)

\* Hooks run as long as the process does, and a send settles: the client gives
\* up after its timeouts.  Nothing says that an HTTP endpoint ever answers.
Fairness ==
    /\ \A o \in Ops : WF_vars(OperationStep(o))
    /\ \A e \in Events : WF_vars(SendStep(e) /\ BusStep)

Spec == Init /\ [][Next]_vars /\ Fairness

-----------------------------------------------------------------------------
(* Properties *)

Hooks == {"bus", "http"}
TypeOK ==
    /\ BusTypeOK
    /\ phase \in {"boot", "loaded", "serving", "exited"}
    /\ attached \in Seq(Hooks) /\ enriched \in 0 .. MaxEnrichments
    /\ stage \in [Ops -> {"idle", "running", "done", "abandoned"}]
    /\ list \in [Ops -> Seq(Hooks)]
    /\ at \in [Ops -> 1 .. MaxHooks + 1]
    /\ fetched \subseteq Events /\ pending \subseteq fetched

EveryHookTried ==
    \A o \in Ops : stage[o] = "done" =>
        \A i \in DOMAIN list[o] :
            IF list[o][i] = "http" THEN <<o, i>> \in fetched
            ELSE send[<<o, i>>] \in {"sent", "rejected"}

InOrder ==
    \A o \in Ops : \A i, j \in DOMAIN list[o] :
        i < j /\ list[o][i] = "bus" /\ list[o][j] = "bus" /\ send[<<o, j>>] # "new"
            => send[<<o, i>>] \in {"sent", "rejected"}

\* When an operation is done, the request of each HTTP hook was sent and the
\* publish of each bus hook has settled: no hook that fails keeps a later one from
\* running.  And the events of one operation are published in the order of its
\* hooks, none before the one ahead of it has settled.
PublishedInOrder == EveryHookTried /\ InOrder

\* The server implements HookDispatch: how a delivery ends, how slow an endpoint
\* is and what becomes of the bus never shows in the operation.
Dispatch == INSTANCE HookDispatch
                WITH Limit <- MaxHooks,
                     total <- [o \in Ops |-> Len(list[o])],
                     tried <- [o \in Ops |-> at[o] - 1]
ImplementsDispatch == Dispatch!Spec
=============================================================================
