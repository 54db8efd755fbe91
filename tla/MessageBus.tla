----------------------------- MODULE MessageBus -----------------------------
(***************************************************************************)
(* The RabbitMQ client of a server: MessageBusService.  connect() creates  *)
(* the connection object first, then declares two exchanges, binds the     *)
(* transient one to the durable one and creates the publisher; each is an  *)
(* await that may reject.  publishEvent() needs both objects.  close(),    *)
(* run by every SIGINT, releases them one after the other.                 *)
(*                                                                         *)
(* The broker is external: a restart of it drops the transient exchange    *)
(* and its binding; the client reconnects by itself, and its publisher     *)
(* declares its exchanges again, but never the binding.                    *)
(***************************************************************************)
EXTENDS Naturals

CONSTANTS
    Events,            (* calls of publishEvent *)
    Signals,           (* SIGINTs the process receives *)
    MaxBrokerRestarts  (* bound: restarts of the broker *)

ASSUME BusAssumption == MaxBrokerRestarts \in Nat

VARIABLES
    connection,    (* this.connection is not null *)
    publisher,     (* this.publisher is not null *)
    connectPc,     (* the await connect() is at *)
    closePc,       (* the await each close() is at *)
    send,          (* what became of each publishEvent call *)
    exchanges,     (* exchanges that exist in the broker *)
    bound,         (* the broker forwards mzinga_events to mzinga_events_durable *)
    onEvents,      (* events the broker received on mzinga_events *)
    onDurable,     (* events it forwarded to mzinga_events_durable *)
    restarts,      (* restarts of the broker so far *)
    boundAt        (* history: restarts when connect() made the binding *)

client == <<connection, publisher, connectPc, closePc, send>>
broker == <<exchanges, bound, onEvents, onDurable, restarts, boundAt>>
busVars == <<client, broker>>

Connecting == {"events", "durable", "bind"}
ConnectPhases == Connecting \cup {"idle", "done", "failed"}
ClosePhases == {"idle", "publisher", "connection", "done", "failed"}
Both == {"events", "durable"}

BusInit ==
    /\ connection = FALSE /\ publisher = FALSE
    /\ connectPc = "idle"
    /\ closePc = [s \in Signals |-> "idle"]
    /\ send = [e \in Events |-> "new"]
    /\ exchanges \in {{}, {"durable"}, Both}  \* what earlier servers left behind
    /\ bound = (exchanges = Both)
    /\ onEvents = {} /\ onDurable = {}
    /\ restarts = 0 /\ boundAt = 0

isConnected == connection

-----------------------------------------------------------------------------
(* connect *)

\* The first thing a process does, if it has a bus: no signal is handled before.
StartConnect ==
    /\ connectPc = "idle" /\ \A s \in Signals : closePc[s] = "idle"
    /\ connection' = TRUE
    /\ connectPc' = "events"
    /\ UNCHANGED <<publisher, closePc, send, broker>>

DeclareEvents ==
    /\ connectPc = "events" /\ connection
    /\ exchanges' = exchanges \cup {"events"}
    /\ connectPc' = "durable"
    /\ UNCHANGED <<connection, publisher, closePc, send, bound, onEvents, onDurable, restarts, boundAt>>

\* Mutant: the publisher is created before the binding.
DeclareDurable_PublisherFirst ==
    /\ connectPc = "durable" /\ connection
    /\ exchanges' = exchanges \cup {"durable"}
    /\ publisher' = TRUE
    /\ connectPc' = "bind"
    /\ UNCHANGED <<connection, closePc, send, bound, onEvents, onDurable, restarts, boundAt>>

DeclareDurable ==
    /\ connectPc = "durable" /\ connection
    /\ exchanges' = exchanges \cup {"durable"}
    /\ connectPc' = "bind"
    /\ UNCHANGED <<connection, publisher, closePc, send, bound, onEvents, onDurable, restarts, boundAt>>

\* Mutant: exchangeBind is not called.
BindExchanges_Skipped ==
    /\ connectPc = "bind" /\ connection
    /\ publisher' = TRUE
    /\ connectPc' = "done"
    /\ boundAt' = restarts
    /\ UNCHANGED <<connection, closePc, send, exchanges, bound, onEvents, onDurable, restarts>>

\* Mutant: connect() works on an object of its own and stores it at the end.
BindExchanges_StoredLast ==
    /\ connectPc = "bind"
    /\ exchanges = Both
    /\ bound' = TRUE
    /\ connection' = TRUE /\ publisher' = TRUE
    /\ connectPc' = "done"
    /\ boundAt' = restarts
    /\ UNCHANGED <<closePc, send, exchanges, onEvents, onDurable, restarts>>

\* createPublisher is synchronous: it runs as soon as the bind resolves.
BindExchanges ==
    /\ connectPc = "bind" /\ connection
    /\ exchanges = Both
    /\ bound' = TRUE
    /\ publisher' = TRUE
    /\ connectPc' = "done"
    /\ boundAt' = restarts
    /\ UNCHANGED <<connection, closePc, send, exchanges, onEvents, onDurable, restarts>>

\* Any of the awaits rejects, or close() has set the connection to null.  The
\* error is logged and thrown again; the objects stay as they are.
ConnectFails ==
    /\ connectPc \in Connecting
    /\ connectPc' = "failed"
    /\ UNCHANGED <<connection, publisher, closePc, send, broker>>

-----------------------------------------------------------------------------
(* publishEvent *)

BeginPublish(e) ==
    /\ send[e] = "new"
    /\ send' = [send EXCEPT ![e] = IF connection /\ publisher THEN "sending" ELSE "rejected"]
    /\ UNCHANGED <<connection, publisher, connectPc, closePc, broker>>

\* The publisher declares its exchanges when it needs a new channel.  No
\* confirm is asked for, so the event may still be lost on its way.
SendResolves(e) ==
    /\ send[e] = "sending" /\ publisher
    /\ send' = [send EXCEPT ![e] = "sent"]
    /\ exchanges' = Both
    /\ \/ UNCHANGED <<onEvents, onDurable>>
       \/ /\ onEvents' = onEvents \cup {e}
          /\ onDurable' = IF bound THEN onDurable \cup {e} ELSE onDurable
    /\ UNCHANGED <<connection, publisher, connectPc, closePc, bound, restarts, boundAt>>

SendRejects(e) ==
    /\ send[e] = "sending"
    /\ send' = [send EXCEPT ![e] = "rejected"]
    /\ UNCHANGED <<connection, publisher, connectPc, closePc, broker>>

-----------------------------------------------------------------------------
(* close *)

\* Where close() goes once the publisher is out of the way.
CloseConnection == IF connection THEN "connection" ELSE "done"

BeginClose(s) ==
    /\ closePc[s] = "idle"
    /\ closePc' = [closePc EXCEPT ![s] = IF publisher THEN "publisher" ELSE CloseConnection]
    /\ UNCHANGED <<connection, publisher, connectPc, send, broker>>

PublisherClosed(s) ==
    /\ closePc[s] = "publisher"
    /\ publisher' = FALSE
    /\ closePc' = [closePc EXCEPT ![s] = CloseConnection]
    /\ UNCHANGED <<connection, connectPc, send, broker>>

ConnectionClosed(s) ==
    /\ closePc[s] = "connection"
    /\ connection' = FALSE
    /\ closePc' = [closePc EXCEPT ![s] = "done"]
    /\ UNCHANGED <<publisher, connectPc, send, broker>>

CloseFails(s) ==
    /\ closePc[s] \in {"publisher", "connection"}
    /\ closePc' = [closePc EXCEPT ![s] = "failed"]
    /\ UNCHANGED <<connection, publisher, connectPc, send, broker>>

-----------------------------------------------------------------------------
BrokerRestarts ==
    /\ restarts < MaxBrokerRestarts
    /\ restarts' = restarts + 1
    /\ exchanges' = exchanges \ {"events"}
    /\ bound' = FALSE
    /\ UNCHANGED <<client, onEvents, onDurable, boundAt>>

ConnectStep == DeclareEvents \/ DeclareDurable \/ BindExchanges \/ ConnectFails
SendStep(e) == SendResolves(e) \/ SendRejects(e)
CloseStep(s) == PublisherClosed(s) \/ ConnectionClosed(s) \/ CloseFails(s)

BusNext ==
    \/ StartConnect \/ ConnectStep \/ BrokerRestarts
    \/ \E e \in Events : BeginPublish(e) \/ SendStep(e)
    \/ \E s \in Signals : BeginClose(s) \/ CloseStep(s)

BusSpec == BusInit /\ [][BusNext]_busVars

-----------------------------------------------------------------------------
(* Properties *)

BusTypeOK ==
    /\ connection \in BOOLEAN /\ publisher \in BOOLEAN
    /\ connectPc \in ConnectPhases
    /\ closePc \in [Signals -> ClosePhases]
    /\ send \in [Events -> {"new", "sending", "sent", "rejected"}]
    /\ exchanges \subseteq Both /\ bound \in BOOLEAN
    /\ onEvents \subseteq Events /\ onDurable \subseteq Events
    /\ restarts \in 0 .. MaxBrokerRestarts /\ boundAt \in 0 .. MaxBrokerRestarts

\* An event that reaches mzinga_events but not the durable exchange was sent
\* after the broker restarted under a connected server: connect() never hands
\* out a publisher before both exchanges exist and are bound.
OnlyRestartsUnbind == onEvents \subseteq onDurable \/ restarts > boundAt

\* A connect() that failed is never repaired: isConnected may say TRUE, but not
\* one event is sent by this process.
FailedConnectIsMute == connectPc = "failed" => ~publisher /\ \A e \in Events : send[e] # "sent"

\* Once a close() has resolved the bus stays disconnected, even when it ran
\* while connect() was still waiting for the broker.
ClosedStaysClosed == (\E s \in Signals : closePc[s] = "done") => ~isConnected
=============================================================================
