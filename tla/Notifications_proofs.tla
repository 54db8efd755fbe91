------------------------ MODULE Notifications_proofs ------------------------
(***************************************************************************)
(* Proofs about a server and its bus, for any operations, targets, times   *)
(* they are attached, signals and broker restarts: what MessageBus states  *)
(* of the client, the order in which hooks are delivered, and that every   *)
(* step of the server is one of HookDispatch or a stutter.                 *)
(*                                                                         *)
(* What is said of the bus rests on one fact: the publisher exists only    *)
(* after connect() has run to its end, and connect() runs once.            *)
(***************************************************************************)
EXTENDS Notifications, FiniteSetTheorems, SequenceTheorems, TLAPS

USE BusAssumption DEF BusAssumption

\* Nothing is published, and the broker holds nothing, before connect() is done.
MuteBeforeDone ==
    connectPc # "done" =>
        /\ ~publisher /\ onEvents = {}
        /\ \A e \in Events : send[e] \notin {"sending", "sent"}

\* What a close() has given up stays given up.
CloseForgets == \A s \in Signals : closePc[s] = "done" => ~connection

\* Once connect() is done, only a later restart of the broker undoes the binding.
BindingHolds ==
    /\ boundAt <= restarts
    /\ connectPc = "done" => bound \/ restarts > boundAt

Strong == BusTypeOK /\ MuteBeforeDone /\ CloseForgets /\ BindingHolds /\ OnlyRestartsUnbind

-----------------------------------------------------------------------------
LEMMA InitStrong == BusInit => Strong
<1> SUFFICES ASSUME BusInit PROVE Strong
  OBVIOUS
<1> USE DEF BusInit
<1>1. BusTypeOK
  <2>1. bound \in BOOLEAN
    BY Zenon
  <2>2. exchanges \subseteq Both
    BY DEF Both
  <2>3. /\ connectPc \in ConnectPhases
        /\ closePc \in [Signals -> ClosePhases]
        /\ send \in [Events -> {"new", "sending", "sent", "rejected"}]
    BY DEF ConnectPhases, ClosePhases
  <2>4. restarts \in 0 .. MaxBrokerRestarts /\ boundAt \in 0 .. MaxBrokerRestarts
    OBVIOUS
  <2>5. /\ connection \in BOOLEAN /\ publisher \in BOOLEAN
        /\ onEvents \subseteq Events /\ onDurable \subseteq Events
    OBVIOUS
  <2>6. QED
    BY <2>1, <2>2, <2>3, <2>4, <2>5, Zenon DEF BusTypeOK
<1>2. MuteBeforeDone /\ CloseForgets
  BY DEF MuteBeforeDone, CloseForgets
<1>3. BindingHolds /\ OnlyRestartsUnbind
  BY DEF BindingHolds, OnlyRestartsUnbind
<1>4. QED
  BY <1>1, <1>2, <1>3 DEF Strong

LEMMA TypeStep == ASSUME BusTypeOK, [BusNext]_busVars PROVE BusTypeOK'
<1> USE DEF BusTypeOK, ConnectPhases, Connecting, ClosePhases, Both, client, broker
<1>1. CASE StartConnect
  BY <1>1 DEF StartConnect
<1>2. CASE ConnectStep
  BY <1>2 DEF ConnectStep, DeclareEvents, DeclareDurable, BindExchanges, ConnectFails
<1>3. CASE BrokerRestarts
  <2>1. restarts' \in 0 .. MaxBrokerRestarts /\ boundAt' \in 0 .. MaxBrokerRestarts
    BY <1>3 DEF BrokerRestarts
  <2>2. exchanges' \subseteq Both /\ bound' \in BOOLEAN
    BY <1>3 DEF BrokerRestarts
  <2>3. UNCHANGED <<connection, publisher, connectPc, closePc, send, onEvents, onDurable>>
    BY <1>3 DEF BrokerRestarts
  <2>4. QED
    BY <2>1, <2>2, <2>3
<1>4. ASSUME NEW e \in Events, BeginPublish(e) \/ SendStep(e) PROVE BusTypeOK'
  BY <1>4 DEF BeginPublish, SendStep, SendResolves, SendRejects
<1>5. ASSUME NEW s \in Signals, CloseStep(s) \/ BeginClose(s) PROVE BusTypeOK'
  BY <1>5 DEF CloseStep, BeginClose, PublisherClosed, ConnectionClosed, CloseFails, CloseConnection
<1>6. CASE UNCHANGED busVars
  BY <1>6 DEF busVars
<1>7. QED
  BY <1>1, <1>2, <1>3, <1>4, <1>5, <1>6 DEF BusNext

LEMMA MuteStep ==
  ASSUME BusTypeOK, MuteBeforeDone, [BusNext]_busVars PROVE MuteBeforeDone'
<1> USE DEF MuteBeforeDone, client, broker
<1>1. CASE StartConnect
  BY <1>1 DEF StartConnect
<1>2. CASE ConnectStep
  BY <1>2 DEF ConnectStep, DeclareEvents, DeclareDurable, BindExchanges, ConnectFails, Connecting
<1>3. CASE BrokerRestarts
  BY <1>3 DEF BrokerRestarts
<1>4. ASSUME NEW e \in Events, BeginPublish(e) \/ SendStep(e) PROVE MuteBeforeDone'
  BY <1>4 DEF BeginPublish, SendStep, SendResolves, SendRejects, BusTypeOK
<1>5. ASSUME NEW s \in Signals, CloseStep(s) \/ BeginClose(s) PROVE MuteBeforeDone'
  BY <1>5 DEF CloseStep, BeginClose, PublisherClosed, ConnectionClosed, CloseFails
<1>6. CASE UNCHANGED busVars
  BY <1>6 DEF busVars
<1>7. QED
  BY <1>1, <1>2, <1>3, <1>4, <1>5, <1>6 DEF BusNext

LEMMA CloseForgetsStep ==
  ASSUME BusTypeOK, CloseForgets, [BusNext]_busVars PROVE CloseForgets'
<1> USE DEF CloseForgets, client, broker
<1>1. CASE StartConnect
  BY <1>1 DEF StartConnect
<1>2. CASE ConnectStep
  BY <1>2 DEF ConnectStep, DeclareEvents, DeclareDurable, BindExchanges, ConnectFails, Connecting
<1>3. CASE BrokerRestarts
  BY <1>3 DEF BrokerRestarts
<1>4. ASSUME NEW e \in Events, BeginPublish(e) \/ SendStep(e) PROVE CloseForgets'
  BY <1>4 DEF BeginPublish, SendStep, SendResolves, SendRejects
<1>5. ASSUME NEW s \in Signals, CloseStep(s) \/ BeginClose(s) PROVE CloseForgets'
  BY <1>5 DEF CloseStep, BeginClose, PublisherClosed, ConnectionClosed, CloseFails,
              CloseConnection, BusTypeOK, ClosePhases
<1>6. CASE UNCHANGED busVars
  BY <1>6 DEF busVars
<1>7. QED
  BY <1>1, <1>2, <1>3, <1>4, <1>5, <1>6 DEF BusNext

LEMMA BindingStep ==
  ASSUME BusTypeOK, MuteBeforeDone, BindingHolds, OnlyRestartsUnbind, [BusNext]_busVars
  PROVE  BindingHolds' /\ OnlyRestartsUnbind'
<1> USE DEF BindingHolds, OnlyRestartsUnbind, client, broker, BusTypeOK
<1>1. CASE StartConnect
  BY <1>1 DEF StartConnect
<1>2. CASE ConnectStep
  BY <1>2 DEF ConnectStep, DeclareEvents, DeclareDurable, BindExchanges, ConnectFails, Connecting,
              MuteBeforeDone
<1>3. CASE BrokerRestarts
  BY <1>3 DEF BrokerRestarts
<1>4. ASSUME NEW e \in Events, BeginPublish(e) \/ SendRejects(e)
      PROVE  BindingHolds' /\ OnlyRestartsUnbind'
  BY <1>4 DEF BeginPublish, SendRejects
<1>5. ASSUME NEW e \in Events, SendResolves(e) PROVE BindingHolds' /\ OnlyRestartsUnbind'
  <2>1. connectPc = "done"
    BY <1>5 DEF SendResolves, MuteBeforeDone
  <2>2. QED
    BY <1>5, <2>1 DEF SendResolves
<1>6. ASSUME NEW s \in Signals, CloseStep(s) \/ BeginClose(s)
      PROVE  BindingHolds' /\ OnlyRestartsUnbind'
  BY <1>6 DEF CloseStep, BeginClose, PublisherClosed, ConnectionClosed, CloseFails
<1>7. CASE UNCHANGED busVars
  BY <1>7 DEF busVars
<1>8. QED
  BY <1>1, <1>2, <1>3, <1>4, <1>5, <1>6, <1>7 DEF BusNext, SendStep

LEMMA BusStepStrong == ASSUME Strong, [BusNext]_busVars PROVE Strong'
  BY TypeStep, MuteStep, CloseForgetsStep, BindingStep DEF Strong

-----------------------------------------------------------------------------
(* Hooks and operations *)

\* A hook that an operation is past.
Tried(o, i) ==
    IF list[o][i] = "http" THEN <<o, i>> \in fetched
    ELSE send[<<o, i>>] \in {"sent", "rejected"}

\* No list of hooks outgrows the events there are.
HooksTyped ==
    /\ attached \in Seq(Hooks) /\ enriched \in 0 .. MaxEnrichments
    /\ Len(attached) <= enriched * Len(Registered)
    /\ list \in [Ops -> Seq(Hooks)] /\ \A o \in Ops : Len(list[o]) <= MaxHooks
    /\ fetched \subseteq Events /\ pending \subseteq fetched

OperationsTyped ==
    /\ phase \in {"boot", "loaded", "serving", "exited"}
    /\ stage \in [Ops -> {"idle", "running", "done", "abandoned"}]
    /\ at \in [Ops -> Nat \ {0}]
    /\ \A o \in Ops : at[o] <= Len(list[o]) + 1

\* An operation has tried the hooks it is past, and has published for none of
\* those it has yet to come to.
InStep(o) ==
    /\ stage[o] = "idle" => at[o] = 1
    /\ stage[o] = "done" => at[o] = Len(list[o]) + 1
    /\ \A i \in 1 .. MaxHooks :
          /\ i < at[o] => Tried(o, i)
          /\ i > at[o] => send[<<o, i>>] = "new"
OperationsInStep == \A o \in Ops : InStep(o)

IInv == Strong /\ HooksTyped /\ OperationsTyped /\ OperationsInStep

LEMMA Constants ==
    /\ Len(Registered) \in Nat /\ DOMAIN Registered = 1 .. Len(Registered)
    /\ MaxHooks \in Nat
    /\ \A o \in Ops, i \in 1 .. MaxHooks : <<o, i>> \in Events
    /\ \A e \in Events : \E o \in Ops, i \in 1 .. MaxHooks : e = <<o, i>>
<1> DEFINE Targets == {Registered[i] : i \in DOMAIN Registered}
           T == Targets
<1>1. Registered \in Seq(T)  BY NotificationsAssumption DEF NotificationsAssumption
<1> HIDE DEF T
<1>2. Len(Registered) \in Nat /\ DOMAIN Registered = 1 .. Len(Registered)  BY <1>1
<1>3. MaxHooks \in Nat
      BY <1>2, NotificationsAssumption DEF MaxHooks, NotificationsAssumption
<1> QED  BY <1>2, <1>3, NotificationsAssumption DEF NotificationsAssumption

\* The hook an operation is at has an event of its own.
LEMMA AtHook ==
    ASSUME HooksTyped, OperationsTyped, NEW o \in Ops, NEW via, Running(o, via)
    PROVE  /\ at[o] \in 1 .. MaxHooks /\ at[o] \in 1 .. Len(list[o])
           /\ <<o, at[o]>> \in Events
<1>1. list[o] \in Seq(Hooks) /\ Len(list[o]) <= MaxHooks  BY DEF HooksTyped
<1>2. at[o] \in Nat \ {0} /\ at[o] <= Len(list[o])  BY DEF OperationsTyped, Running
<1>3. Len(list[o]) \in Nat  BY <1>1
<1>4. at[o] \in 1 .. MaxHooks /\ at[o] \in 1 .. Len(list[o])  BY <1>1, <1>2, <1>3, Constants
<1> QED  BY <1>4, Constants

LEMMA InitInvariant == Init => IInv
<1> SUFFICES ASSUME Init PROVE IInv  OBVIOUS
<1>1. Strong  BY InitStrong DEF Init
<1>2. HooksTyped
  <2>1. attached \in Seq(Hooks) /\ Len(attached) = 0 /\ enriched = 0  BY DEF Init
  <2>2. 0 <= 0 * Len(Registered)  BY Constants
  <2>3. enriched \in 0 .. MaxEnrichments
        BY <2>1, NotificationsAssumption DEF NotificationsAssumption
  <2>4. list \in [Ops -> Seq(Hooks)] /\ \A o \in Ops : Len(list[o]) <= MaxHooks
        BY Constants DEF Init
  <2> QED  BY <2>1, <2>2, <2>3, <2>4 DEF Init, HooksTyped
<1>3. OperationsTyped
  <2>1. \A o \in Ops : list[o] = <<>> /\ at[o] = 1  BY DEF Init
  <2> QED  BY <2>1 DEF Init, OperationsTyped
<1>4. OperationsInStep
  <2> SUFFICES ASSUME NEW o \in Ops PROVE InStep(o)  BY DEF OperationsInStep
  <2>1. stage[o] = "idle" /\ at[o] = 1  BY DEF Init
  <2>2. \A i \in 1 .. MaxHooks : send[<<o, i>>] = "new"  BY Constants DEF Init, BusInit
  <2> QED  BY <2>1, <2>2, Constants DEF InStep
<1> QED  BY <1>1, <1>2, <1>3, <1>4 DEF IInv

-----------------------------------------------------------------------------
(* The bus of a server takes the steps of MessageBus *)

LEMMA ServerStepsBus ==
    ASSUME IInv, [Next]_vars PROVE [BusNext]_busVars
<1>1. CASE BusStep  BY <1>1 DEF BusStep, BusNext
<1>2. CASE LoadConfig \/ OnInit \/ AfterChange
      BY <1>2 DEF LoadConfig, OnInit, AfterChange, Enrich
<1>3. ASSUME NEW o \in Ops, PublishHook(o) PROVE [BusNext]_busVars
  <2>1. <<o, at[o]>> \in Events  BY <1>3, AtHook DEF PublishHook, IInv
  <2> QED  BY <1>3, <2>1 DEF PublishHook, BusNext
<1>4. ASSUME NEW o \in Ops,
             StartOperation(o) \/ FetchHook(o) \/ HookReturns(o) \/ FinishOperation(o)
      PROVE  [BusNext]_busVars
      BY <1>4 DEF StartOperation, FetchHook, HookReturns, FinishOperation
<1>5. ASSUME NEW r \in fetched, FetchSettles(r) PROVE [BusNext]_busVars
      BY <1>5 DEF FetchSettles
<1>6. CASE Exit \/ Terminate  BY <1>6 DEF Exit, Terminate, Leave
<1>7. CASE UNCHANGED vars  BY <1>7 DEF vars
<1> QED  BY <1>1, <1>2, <1>3, <1>4, <1>5, <1>6, <1>7 DEF Next, OperationStep

\* A send only settles, and only once.
LEMMA BusStepSettles ==
    ASSUME BusTypeOK, BusStep, NEW e \in Events
    PROVE  /\ send[e] = "new" => send'[e] = "new"
           /\ send[e] \in {"sent", "rejected"} => send'[e] = send[e]
<1>1. CASE \E d \in Events : SendStep(d)
      BY <1>1 DEF SendStep, SendResolves, SendRejects, BusTypeOK
<1>2. CASE ~\E d \in Events : SendStep(d)
      BY <1>2 DEF BusStep, StartConnect, ConnectStep, DeclareEvents, DeclareDurable, BindExchanges,
                  ConnectFails, BrokerRestarts, client, CloseStep, PublisherClosed,
                  ConnectionClosed, CloseFails, BeginClose
<1> QED  BY <1>1, <1>2

-----------------------------------------------------------------------------
(* What each step does to the hooks and the operations *)

\* Attaching the hooks once more adds at most one for each target.
LEMMA EnrichTyped ==
    ASSUME HooksTyped, Enrich PROVE HooksTyped'
<1> DEFINE n == Cardinality(Kept)
           L == Len(Registered)
<1>1. n \in Nat /\ n <= L
  <2>1. L \in Nat  BY Constants
  <2>2. Kept \subseteq 1 .. L  BY Constants DEF Kept
  <2> HIDE DEF L
  <2>3. IsFiniteSet(1 .. L) /\ Cardinality(1 .. L) = L
    <3>1. IsFiniteSet(1 .. L) /\ Cardinality(1 .. L) = IF 1 > L THEN 0 ELSE L - 1 + 1
          BY <2>1, FS_Interval
    <3> QED  BY <2>1, <3>1
  <2> QED  BY <2>2, <2>3, FS_Subset, FS_CardinalityType
<1>2. HooksFor \in Seq(Hooks) /\ Len(HooksFor) = n
  <2>1. \A k \in 1 .. n : HookFor(Registered[NthKept(k)]) \in Hooks  BY DEF HookFor, Hooks
  <2> HIDE DEF n
  <2>2. HooksFor = [k \in 1 .. n |-> HookFor(Registered[NthKept(k)])]  BY DEF HooksFor, n
  <2> QED  BY <1>1, <2>1, <2>2
<1>3. /\ attached \in Seq(Hooks) /\ Len(attached) <= enriched * L
      /\ enriched \in Nat /\ enriched < MaxEnrichments
      BY DEF HooksTyped, Enrich
<1>4. enriched' = enriched + 1 /\ attached' = attached \o HooksFor  BY DEF Enrich
<1>5. attached' \in Seq(Hooks) /\ Len(attached') <= enriched * L + L
  <2> HIDE DEF n, L
  <2>1. Len(attached') = Len(attached) + n /\ attached' \in Seq(Hooks)  BY <1>2, <1>3, <1>4, ConcatProperties
  <2>2. L \in Nat  BY Constants DEF L
  <2>3. enriched * L \in Nat /\ Len(attached) \in Nat  BY <1>3, <2>2
  <2> QED  BY <1>1, <1>3, <2>1, <2>2, <2>3
<1>6. Len(attached') <= enriched' * L
  <2>1. L \in Nat  BY Constants
  <2> HIDE DEF L
  <2>2. (enriched + 1) * L = enriched * L + L  BY <1>3, <2>1
  <2> QED  BY <1>4, <1>5, <2>2
<1>7. enriched' \in 0 .. MaxEnrichments
      BY <1>3, <1>4, NotificationsAssumption DEF NotificationsAssumption
<1>8. UNCHANGED <<list, fetched, pending>>  BY DEF Enrich, opVars
<1> QED  BY <1>5, <1>6, <1>7, <1>8 DEF HooksTyped

\* No operation takes more hooks than MaxHooks.
LEMMA AttachedFit == ASSUME HooksTyped PROVE Len(attached) <= MaxHooks
<1> DEFINE L == Len(Registered)
<1>1. L \in Nat  BY Constants
<1>2. MaxEnrichments \in Nat  BY NotificationsAssumption DEF NotificationsAssumption
<1>3. Len(attached) \in Nat /\ Len(attached) <= enriched * L /\ enriched \in 0 .. MaxEnrichments
      BY DEF HooksTyped
<1>4. MaxHooks = MaxEnrichments * L  BY DEF MaxHooks
<1> HIDE DEF L
<1>5. PICK rest \in Nat : MaxEnrichments = enriched + rest
  <2>1. MaxEnrichments - enriched \in Nat /\ MaxEnrichments = enriched + (MaxEnrichments - enriched)
        BY <1>2, <1>3
  <2> QED  BY <2>1
<1>6. MaxEnrichments * L = enriched * L + rest * L  BY <1>1, <1>3, <1>5
<1>7. enriched * L \in Nat /\ rest * L \in Nat  BY <1>1, <1>3, <1>5
<1> QED  BY <1>3, <1>4, <1>6, <1>7

LEMMA EnrichKeeps ==
    ASSUME IInv, LoadConfig \/ OnInit \/ AfterChange
    PROVE  HooksTyped' /\ OperationsTyped' /\ OperationsInStep'
<1>1. Enrich /\ phase' \in {"boot", "loaded", "serving", "exited"}
      BY DEF IInv, OperationsTyped, LoadConfig, OnInit, AfterChange
<1>2. HooksTyped'  BY <1>1, EnrichTyped DEF IInv
<1>3. UNCHANGED <<busVars, opVars, fetched>>  BY <1>1 DEF Enrich
<1>4. OperationsTyped'  BY <1>1, <1>3 DEF IInv, OperationsTyped, opVars
<1>5. OperationsInStep'
      BY <1>3 DEF IInv, OperationsInStep, InStep, Tried, opVars, busVars, client
<1> QED  BY <1>2, <1>4, <1>5

LEMMA BusStepKeeps ==
    ASSUME IInv, BusStep PROVE HooksTyped' /\ OperationsTyped' /\ OperationsInStep'
<1>1. UNCHANGED <<phase, attached, enriched, opVars, fetched, pending>>  BY DEF BusStep
<1>2. HooksTyped' /\ OperationsTyped'
      BY <1>1 DEF IInv, HooksTyped, OperationsTyped, opVars
<1>3. ASSUME NEW o \in Ops, NEW i \in 1 .. MaxHooks
      PROVE  /\ Tried(o, i) => Tried(o, i)'
             /\ send[<<o, i>>] = "new" => send'[<<o, i>>] = "new"
  <2>1. <<o, i>> \in Events /\ BusTypeOK  BY Constants DEF IInv, Strong
  <2> QED  BY <1>1, <2>1, BusStepSettles DEF Tried, opVars
<1>4. OperationsInStep'
      BY <1>1, <1>3 DEF IInv, OperationsInStep, InStep, opVars
<1> QED  BY <1>2, <1>4

LEMMA StartKeeps ==
    ASSUME IInv, NEW o \in Ops, StartOperation(o)
    PROVE  HooksTyped' /\ OperationsTyped' /\ OperationsInStep'
<1>1. /\ stage[o] = "idle" /\ stage' = [stage EXCEPT ![o] = "running"]
      /\ list' = [list EXCEPT ![o] = attached]
      /\ UNCHANGED <<busVars, phase, attached, enriched, at, fetched, pending>>
      BY DEF StartOperation
<1>2. at[o] = 1  BY <1>1 DEF IInv, OperationsInStep, InStep
<1>3. attached \in Seq(Hooks) /\ Len(attached) \in Nat  BY DEF IInv, HooksTyped
<1>4. HooksTyped'
      BY <1>1, <1>3, AttachedFit DEF IInv, HooksTyped
<1>5. OperationsTyped'
      BY <1>1, <1>2, <1>3 DEF IInv, HooksTyped, OperationsTyped
<1>6. ASSUME NEW p \in Ops PROVE InStep(p)'
  <2>1. InStep(p) /\ send' = send /\ fetched' = fetched /\ at' = at
        BY <1>1 DEF IInv, OperationsInStep, busVars, client
  <2>2. CASE p = o
    <3>1. stage'[o] = "running"  BY <1>1 DEF IInv, OperationsTyped
    <3>2. ~\E i \in 1 .. MaxHooks : i < 1  BY Constants
    <3> QED  BY <1>2, <2>1, <2>2, <3>1, <3>2 DEF InStep
  <2>3. CASE p # o
    <3>1. stage'[p] = stage[p] /\ list'[p] = list[p]
          BY <1>1, <2>3 DEF IInv, OperationsTyped, HooksTyped
    <3> QED  BY <2>1, <3>1 DEF InStep, Tried
  <2> QED  BY <2>2, <2>3
<1> QED  BY <1>4, <1>5, <1>6 DEF OperationsInStep

\* An operation goes on to its next hook once it has tried the one it is at.
LEMMA AdvanceKeeps ==
    ASSUME IInv, NEW o \in Ops, NEW via, Running(o, via), Advance(o), NEW n, n = at[o], Tried(o, n)',
           HooksTyped', fetched \subseteq fetched', send' = send,
           UNCHANGED <<phase, stage, list>>
    PROVE  OperationsTyped' /\ OperationsInStep'
<1>1. at[o] \in 1 .. MaxHooks /\ at[o] \in 1 .. Len(list[o]) /\ stage[o] = "running"
      BY AtHook DEF IInv, Running
<1>2. at' \in [Ops -> Nat \ {0}] /\ at'[o] = at[o] + 1 /\ \A p \in Ops \ {o} : at'[p] = at[p]
      BY DEF Advance, IInv, OperationsTyped
<1>3. list[o] \in Seq(Hooks) /\ Len(list[o]) \in Nat  BY DEF IInv, HooksTyped
<1>4. OperationsTyped'
  <2>1. \A p \in Ops : at'[p] <= Len(list[p]) + 1
        BY <1>1, <1>2, <1>3 DEF IInv, OperationsTyped
  <2> QED  BY <1>2, <2>1 DEF IInv, OperationsTyped
<1>5. ASSUME NEW p \in Ops PROVE InStep(p)'
  <2>1. InStep(p) /\ \A i \in 1 .. MaxHooks : Tried(p, i) => Tried(p, i)'
        BY DEF IInv, OperationsInStep, Tried
  <2>2. CASE p = o
    <3>1. at[o] \in Nat /\ at'[o] = at[o] + 1 /\ MaxHooks \in Nat  BY <1>1, <1>2, Constants
    <3>2. ASSUME NEW i \in 1 .. MaxHooks
          PROVE  /\ i < at'[o] => Tried(o, i)'
                 /\ i > at'[o] => send'[<<o, i>>] = "new"
      <4>1. i < at'[o] => i < at[o] \/ i = at[o]  BY <3>1
      <4>2. i = at[o] => Tried(o, i)'  OBVIOUS
      <4>3. i > at'[o] => i > at[o]  BY <3>1
      <4> QED  BY <2>1, <2>2, <4>1, <4>2, <4>3 DEF InStep
    <3> QED  BY <1>1, <2>2, <3>2 DEF InStep
  <2>3. CASE p # o  BY <1>2, <2>1, <2>3 DEF InStep
  <2> QED  BY <2>2, <2>3
<1> QED  BY <1>4, <1>5 DEF OperationsInStep

LEMMA FetchKeeps ==
    ASSUME IInv, NEW o \in Ops, FetchHook(o)
    PROVE  HooksTyped' /\ OperationsTyped' /\ OperationsInStep'
<1>1. /\ Running(o, "http") /\ Advance(o)
      /\ fetched' = fetched \cup {<<o, at[o]>>} /\ pending' = pending \cup {<<o, at[o]>>}
      /\ UNCHANGED <<busVars, phase, attached, enriched, stage, list>>
      BY DEF FetchHook
<1>2. HooksTyped'  BY <1>1, AtHook DEF IInv, HooksTyped
<1>3. PICK n : n = at[o]  OBVIOUS
<1>4. Tried(o, n)'  BY <1>1, <1>3 DEF Tried, Running
<1> QED  BY <1>1, <1>2, <1>3, <1>4, AdvanceKeeps DEF busVars, client

LEMMA PublishKeeps ==
    ASSUME IInv, NEW o \in Ops, PublishHook(o)
    PROVE  HooksTyped' /\ OperationsTyped' /\ OperationsInStep'
<1>1. /\ Running(o, "bus") /\ send' = [send EXCEPT ![<<o, at[o]>>] = send'[<<o, at[o]>>]]
      /\ UNCHANGED <<phase, attached, enriched, opVars, fetched, pending>>
      BY DEF PublishHook, BeginPublish, IInv, Strong, BusTypeOK
<1>2. HooksTyped' /\ OperationsTyped'
      BY <1>1 DEF IInv, HooksTyped, OperationsTyped, opVars
<1>3. ASSUME NEW p \in Ops PROVE InStep(p)'
  <2>1. \A i \in 1 .. MaxHooks : <<p, i>> # <<o, at[o]>> => send'[<<p, i>>] = send[<<p, i>>]
        BY <1>1, Constants DEF IInv, Strong, BusTypeOK
  <2>2. at[o] \in Nat /\ MaxHooks \in Nat
        BY Constants DEF IInv, OperationsTyped
  <2>3. \A i \in 1 .. MaxHooks : i < at[p] \/ i > at[p] => <<p, i>> # <<o, at[o]>>
        BY <2>2
  <2>4. InStep(p)  BY DEF IInv, OperationsInStep
  <2> QED  BY <1>1, <2>1, <2>3, <2>4 DEF InStep, Tried, opVars
<1> QED  BY <1>2, <1>3 DEF OperationsInStep

LEMMA ReturnKeeps ==
    ASSUME IInv, NEW o \in Ops, HookReturns(o)
    PROVE  HooksTyped' /\ OperationsTyped' /\ OperationsInStep'
<1>1. /\ Running(o, "bus") /\ Advance(o) /\ send[<<o, at[o]>>] \in {"sent", "rejected"}
      /\ UNCHANGED <<busVars, phase, attached, enriched, stage, list, fetched, pending>>
      BY DEF HookReturns
<1>2. HooksTyped'  BY <1>1 DEF IInv, HooksTyped
<1>3. PICK n : n = at[o]  OBVIOUS
<1>4. Tried(o, n)'  BY <1>1, <1>3 DEF Tried, Running, busVars, client
<1> QED  BY <1>1, <1>2, <1>3, <1>4, AdvanceKeeps DEF busVars, client

\* An operation that ends, well or with the process, keeps what it has tried.
LEMMA EndKeeps ==
    ASSUME IInv, (\E o \in Ops : FinishOperation(o)) \/ Leave
    PROVE  HooksTyped' /\ OperationsTyped' /\ OperationsInStep'
<1>1. UNCHANGED <<busVars, attached, enriched, list, at, fetched, pending>>
      BY DEF FinishOperation, Leave
<1>2. HooksTyped'  BY <1>1 DEF IInv, HooksTyped
<1>3. OperationsTyped'
  <2>1. phase' \in {"boot", "loaded", "serving", "exited"}
        BY DEF FinishOperation, Leave, IInv, OperationsTyped
  <2>2. stage' \in [Ops -> {"idle", "running", "done", "abandoned"}]
        BY DEF FinishOperation, Leave, IInv, OperationsTyped
  <2> QED  BY <1>1, <2>1, <2>2 DEF IInv, OperationsTyped
<1>4. ASSUME NEW p \in Ops PROVE InStep(p)'
  <2>1. /\ stage'[p] = "idle" => stage[p] = "idle"
        /\ stage'[p] = "done" => stage[p] = "done" \/ at[p] = Len(list[p]) + 1
        BY DEF FinishOperation, Leave, IInv, OperationsTyped
  <2> QED  BY <1>1, <2>1 DEF IInv, OperationsInStep, InStep, Tried, busVars, client
<1> QED  BY <1>2, <1>3, <1>4 DEF OperationsInStep

LEMMA NextInvariant == ASSUME IInv, [Next]_vars PROVE IInv'
<1>1. Strong'  BY ServerStepsBus, BusStepStrong DEF IInv
<1>2. CASE BusStep  BY <1>1, <1>2, BusStepKeeps DEF IInv
<1>3. CASE LoadConfig \/ OnInit \/ AfterChange  BY <1>1, <1>3, EnrichKeeps DEF IInv
<1>4. CASE Exit \/ Terminate  BY <1>1, <1>4, EndKeeps DEF Exit, Terminate, IInv
<1>5. ASSUME NEW o \in Ops, StartOperation(o) \/ OperationStep(o) PROVE IInv'
      BY <1>1, <1>5, StartKeeps, FetchKeeps, PublishKeeps, ReturnKeeps, EndKeeps
         DEF OperationStep, IInv
<1>6. ASSUME NEW r \in fetched, FetchSettles(r) PROVE IInv'
      BY <1>1, <1>6 DEF FetchSettles, IInv, HooksTyped, OperationsTyped, OperationsInStep,
                        InStep, Tried, opVars, busVars, client
<1>7. CASE UNCHANGED vars
      BY <1>1, <1>7 DEF vars, IInv, HooksTyped, OperationsTyped, OperationsInStep,
                        InStep, Tried, opVars, busVars, client
<1> QED  BY <1>2, <1>3, <1>4, <1>5, <1>6, <1>7 DEF Next

LEMMA InvariantHolds == Spec => []IInv
BY InitInvariant, NextInvariant, PTL DEF Spec

-----------------------------------------------------------------------------
(* The server implements HookDispatch *)

LEMMA InitDispatches == Init => Dispatch!Init
BY DEF Init, Dispatch!Init

LEMMA StepsDispatch ==
    ASSUME IInv, [Next]_vars PROVE [Dispatch!Next]_(Dispatch!dispatchVars)
<1> DEFINE total == [o \in Ops |-> Len(list[o])]
           tried == [o \in Ops |-> at[o] - 1]
<1> USE DEF Dispatch!Next, Dispatch!dispatchVars
<1>1. CASE BusStep  BY <1>1 DEF BusStep, opVars
<1>2. CASE LoadConfig \/ OnInit \/ AfterChange
      BY <1>2 DEF LoadConfig, OnInit, AfterChange, Enrich, opVars
<1>3. CASE Exit \/ Terminate  BY <1>3 DEF Exit, Terminate, Leave, Dispatch!Abandon
<1>4. ASSUME NEW o \in Ops, StartOperation(o) PROVE Dispatch!Begin(o)
  <2>1. Len(attached) \in 0 .. MaxHooks
        BY AttachedFit, Constants DEF IInv, HooksTyped
  <2>2. total' = [total EXCEPT ![o] = Len(attached)]
        BY <1>4 DEF StartOperation, IInv, HooksTyped
  <2> QED  BY <1>4, <2>1, <2>2 DEF StartOperation, Dispatch!Begin
<1>5. ASSUME NEW o \in Ops, FetchHook(o) \/ HookReturns(o) PROVE Dispatch!Try(o)
  <2>1. PICK via : Running(o, via)  BY <1>5 DEF FetchHook, HookReturns
  <2>2. at[o] \in 1 .. Len(list[o]) /\ list[o] \in Seq(Hooks)
        BY <2>1, AtHook DEF IInv, HooksTyped
  <2>3. stage[o] = "running" /\ tried[o] < total[o]  BY <2>1, <2>2 DEF Running
  <2>4. at' = [at EXCEPT ![o] = @ + 1] /\ at \in [Ops -> Nat \ {0}] /\ UNCHANGED <<stage, list>>
        BY <1>5 DEF FetchHook, HookReturns, Advance, IInv, OperationsTyped
  <2>5. tried' = [tried EXCEPT ![o] = @ + 1]
    <3>1. /\ at[o] \in Nat /\ at'[o] - 1 = (at[o] - 1) + 1
          /\ \A p \in Ops \ {o} : at'[p] - 1 = at[p] - 1
          BY <2>4
    <3> QED  BY <3>1
  <2> QED  BY <2>3, <2>4, <2>5 DEF Dispatch!Try
<1>6. ASSUME NEW o \in Ops, FinishOperation(o) PROVE Dispatch!Complete(o)
  <2>1. tried[o] = total[o]
        BY <1>6 DEF FinishOperation, IInv, HooksTyped
  <2> QED  BY <1>6, <2>1 DEF FinishOperation, Dispatch!Complete
<1>7. ASSUME NEW o \in Ops, PublishHook(o) PROVE UNCHANGED <<stage, total, tried>>
      BY <1>7 DEF PublishHook, opVars
<1>8. ASSUME NEW r \in fetched, FetchSettles(r) PROVE UNCHANGED <<stage, total, tried>>
      BY <1>8 DEF FetchSettles, opVars
<1>9. CASE UNCHANGED vars  BY <1>9 DEF vars, opVars
<1> QED  BY <1>1, <1>2, <1>3, <1>4, <1>5, <1>6, <1>7, <1>8, <1>9 DEF Next, OperationStep

-----------------------------------------------------------------------------
(* The theorems *)

\* The state of the server and of its bus keeps its type.
THEOREM TypeCorrect == Spec => []TypeOK
<1>1. IInv => TypeOK
  <2> SUFFICES ASSUME IInv PROVE TypeOK  OBVIOUS
  <2>1. ASSUME NEW o \in Ops PROVE at[o] \in 1 .. MaxHooks + 1
    <3>1. at[o] \in Nat \ {0} /\ at[o] <= Len(list[o]) + 1  BY DEF IInv, OperationsTyped
    <3>2. Len(list[o]) \in Nat /\ Len(list[o]) <= MaxHooks  BY DEF IInv, HooksTyped
    <3> QED  BY <3>1, <3>2, Constants
  <2> QED  BY <2>1 DEF IInv, Strong, HooksTyped, OperationsTyped, TypeOK
<1> QED  BY <1>1, InvariantHolds, PTL

\* Whatever fails, comes late or restarts, an operation that is done has tried
\* every hook it started with, and its events are published in their order.
THEOREM AlwaysPublishedInOrder == Spec => []PublishedInOrder
<1>1. IInv => PublishedInOrder
  <2> SUFFICES ASSUME IInv, NEW o \in Ops
               PROVE  /\ stage[o] = "done" => \A i \in DOMAIN list[o] : Tried(o, i)
                      /\ \A i, j \in DOMAIN list[o] :
                            /\ i < j /\ list[o][i] = "bus" /\ list[o][j] = "bus"
                            /\ send[<<o, j>>] # "new"
                            => send[<<o, i>>] \in {"sent", "rejected"}
      BY DEF PublishedInOrder, EveryHookTried, InOrder, Tried
  <2>1. DOMAIN list[o] \subseteq 1 .. MaxHooks /\ DOMAIN list[o] = 1 .. Len(list[o])
    <3>1. list[o] \in Seq(Hooks) /\ Len(list[o]) <= MaxHooks  BY DEF IInv, HooksTyped
    <3> QED  BY <3>1, Constants
  <2>2. InStep(o) /\ at[o] \in Nat  BY DEF IInv, OperationsInStep, OperationsTyped
  <2>3. stage[o] = "done" => \A i \in DOMAIN list[o] : Tried(o, i)
    <3> SUFFICES ASSUME stage[o] = "done", NEW i \in DOMAIN list[o] PROVE Tried(o, i)
        OBVIOUS
    <3>1. Len(list[o]) \in Nat /\ at[o] = Len(list[o]) + 1
          BY <2>2 DEF IInv, HooksTyped, InStep
    <3>2. i \in 1 .. Len(list[o]) /\ i \in 1 .. MaxHooks  BY <2>1
    <3>3. i < at[o]  BY <3>1, <3>2
    <3> QED  BY <2>2, <3>2, <3>3 DEF InStep
  <2>4. ASSUME NEW i \in DOMAIN list[o], NEW j \in DOMAIN list[o], i < j, list[o][i] = "bus",
               send[<<o, j>>] # "new"
        PROVE  send[<<o, i>>] \in {"sent", "rejected"}
    <3>1. i \in 1 .. MaxHooks /\ j \in 1 .. MaxHooks /\ MaxHooks \in Nat  BY <2>1, Constants
    <3>2. ~(j > at[o])  BY <2>2, <2>4, <3>1 DEF InStep
    <3>3. i < at[o]  BY <2>2, <2>4, <3>1, <3>2
    <3> QED  BY <2>2, <2>4, <3>1, <3>3 DEF InStep, Tried
  <2> QED  BY <2>3, <2>4
<1> QED  BY <1>1, InvariantHolds, PTL

\* The safety part of ImplementsDispatch: a server starts as HookDispatch does,
\* and each of its steps is one of HookDispatch or changes nothing there.
THEOREM ServerDispatches ==
    Spec => Dispatch!Init /\ [][Dispatch!Next]_(Dispatch!dispatchVars)
BY InitDispatches, StepsDispatch, InvariantHolds, PTL DEF Spec

\* The bus of a server is that of MessageBus: what a server does with it are
\* steps MessageBus allows.
THEOREM ServerRunsTheBus == Spec => BusSpec
<1>1. Init => BusInit  BY DEF Init
<1> QED  BY <1>1, ServerStepsBus, InvariantHolds, PTL DEF Spec, BusSpec

\* The state of the bus client keeps its type.
THEOREM BusTypeCorrect == Spec => []BusTypeOK
<1>1. IInv => BusTypeOK  BY DEF IInv, Strong
<1> QED  BY <1>1, InvariantHolds, PTL

\* A connect() that failed leaves a client that never sends an event, though
\* isConnected() may say TRUE.
THEOREM FailedConnectStaysMute == Spec => []FailedConnectIsMute
<1>1. IInv => FailedConnectIsMute
      BY DEF IInv, Strong, MuteBeforeDone, FailedConnectIsMute
<1> QED  BY <1>1, InvariantHolds, PTL

\* After a close() that resolved, isConnected() says FALSE for good: no connect()
\* under way brings the connection back.
THEOREM CloseIsFinal == Spec => []ClosedStaysClosed
<1>1. IInv => ClosedStaysClosed
      BY DEF IInv, Strong, CloseForgets, ClosedStaysClosed, isConnected
<1> QED  BY <1>1, InvariantHolds, PTL

\* Events reach the durable exchange unless the broker has restarted since
\* connect() made the binding.
THEOREM BindingLastsUntilRestart == Spec => []OnlyRestartsUnbind
<1>1. IInv => OnlyRestartsUnbind  BY DEF IInv, Strong
<1> QED  BY <1>1, InvariantHolds, PTL
=============================================================================
