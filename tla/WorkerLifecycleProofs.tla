------------------------ MODULE WorkerLifecycleProofs ------------------------
(* Theorems about WorkerLifecycle: its types, the single connection or        *)
(* reconnect, and the drain before close(), for any number of connections,    *)
(* deliveries in flight and faults.                                           *)
EXTENDS WorkerLifecycle, FiniteSetTheorems, TLAPS

\* At most one connection or reconnect timer, and one of them until close().
SingleLink ==
  /\ timers <= 1
  /\ \A c, d \in Connections : conn[c] # "closed" /\ conn[d] # "closed" => c = d
  /\ timers = 1 => \A c \in Connections : conn[c] = "closed"
  /\ stage \notin {"disconnecting", "exited"} =>
       timers = 1 \/ \E c \in Connections : conn[c] # "closed"

\* What the shutdown has waited for stays as it left it: no consumer is
\* registered again, no tick begins.
Quiet ==
  /\ stage \in {"cancelling", "draining", "disconnecting"} /\ relayBusy => "relay" \in gaveUp
  /\ stage \in {"draining", "disconnecting"} => registered = {}
  /\ stage = "disconnecting" => Idle \/ "drain" \in gaveUp

\* The inductive invariant.  Every pending timer was paid for by a fault.
IInv == TypeOK /\ timers <= faults /\ SingleLink /\ Quiet

-----------------------------------------------------------------------------
LEMMA NoHandlersType == NoHandlers \in [Consumers -> 0 .. Prefetch]
  BY BoundsAssumption DEF NoHandlers

LEMMA InitHolds == Init => IInv
<1> SUFFICES ASSUME Init PROVE IInv
  OBVIOUS
<1>1. PICK c \in Connections : conn = [d \in Connections |-> IF d = c THEN "opening" ELSE "closed"]
  BY DEF Init
<1>2. TypeOK
  <2>1. conn \in [Connections -> {"closed", "opening", "open"}]
    BY <1>1
  <2>2. relayBusy \in BOOLEAN
    BY Zenon DEF Init
  <2> QED
    BY <2>1, <2>2, NoHandlersType, BoundsAssumption DEF Init, TypeOK, Stage, BootStages
<1>3. timers <= faults
  BY DEF Init
<1>4. SingleLink
  BY <1>1 DEF Init, SingleLink
<1>5. Quiet
  BY DEF Init, Quiet
<1> QED
  BY <1>2, <1>3, <1>4, <1>5 DEF IInv

\* A process that is gone holds nothing.
LEMMA ExitHolds ==
  ASSUME IInv, Exit, faults' \in 0 .. MaxFaults
  PROVE  IInv'
<1>1. TypeOK'
  <2>1. (conn \in [Connections -> {"closed", "opening", "open"}])'
    BY DEF Exit
  <2>2. (running \in [Consumers -> 0 .. Prefetch])'
    BY NoHandlersType DEF Exit
  <2>3. (relayBusy \in BOOLEAN)'
    BY Zenon DEF Exit
  <2> QED
    BY <2>1, <2>2, <2>3, BoundsAssumption DEF IInv, TypeOK, Exit, Stage
<1>2. (timers <= faults)'
  BY BoundsAssumption DEF Exit
<1>3. SingleLink'
  BY DEF Exit, SingleLink
<1>4. Quiet'
  BY DEF Exit, Quiet
<1> QED
  BY <1>1, <1>2, <1>3, <1>4 DEF IInv

-----------------------------------------------------------------------------
LEMMA BootHolds == IInv /\ Boot => IInv'
<1> SUFFICES ASSUME IInv, Boot PROVE IInv'
  OBVIOUS
<1> USE BoundsAssumption DEF Quiet, Idle
<1>1. CASE Bootstrap
  <2>1. CASE Exit
    BY <1>1, <2>1, ExitHolds DEF Bootstrap, IInv, TypeOK
  <2>2. CASE ~Exit
    BY <1>1, <2>2 DEF Bootstrap, IInv, TypeOK, SingleLink, GoOn, Open, Stage, BootStages, linkVars
  <2> QED
    BY <2>1, <2>2
<1>2. CASE RegisterRejects
  BY <1>2, ExitHolds DEF RegisterRejects, IInv, TypeOK
<1>3. ASSUME NEW k \in Consumers, Register(k) PROVE IInv'
  BY <1>3 DEF Register, IInv, TypeOK, SingleLink, GoOn, Open, Stage, BootStages, linkVars
<1> QED
  BY <1>1, <1>2, <1>3 DEF Boot

LEMMA ReconnectHolds == IInv /\ Reconnect => IInv'
<1> SUFFICES ASSUME IInv, Reconnect PROVE IInv'
  OBVIOUS
<1> USE DEF IInv, TypeOK, SingleLink, Open
<1>1. CASE TimerFires
  <2>1. PICK c \in Connections : conn[c] = "closed" /\ conn' = [conn EXCEPT ![c] = "opening"]
    BY <1>1 DEF TimerFires
  <2>2. timers = 1 /\ timers' = 0
    BY <1>1 DEF TimerFires
  <2>3. UNCHANGED <<stage, channel, captured, registered, running, relayBusy, gaveUp, faults>>
    BY <1>1 DEF TimerFires, consumerVars
  <2>4. TypeOK'
    BY <2>1, <2>2, <2>3, BoundsAssumption
  <2>5. SingleLink'
    BY <2>1, <2>2, <2>3
  <2>6. Quiet'
    BY <2>3 DEF Quiet, Idle
  <2> QED
    BY <2>2, <2>3, <2>4, <2>5, <2>6
<1>2. ASSUME NEW c \in Connections, Install(c) PROVE IInv'
  BY <1>2 DEF Install, Quiet, Idle, GoOn, Stage, BootStages, consumerVars
<1> QED
  BY <1>1, <1>2 DEF Reconnect

LEMMA WorkHolds == IInv /\ Work => IInv'
<1> SUFFICES ASSUME IInv, Work PROVE IInv'
  OBVIOUS
<1> USE BoundsAssumption DEF IInv, TypeOK, SingleLink, Quiet, Idle, Open, NoHandlers
<1>1. CASE TickBegins
  BY <1>1 DEF TickBegins, linkVars, consumerVars
<1>2. CASE TickEnds
  BY <1>2 DEF TickEnds, linkVars, consumerVars
<1>3. ASSUME NEW k \in Consumers, Receive(k) PROVE IInv'
  BY <1>3 DEF Receive, Attached, linkVars
<1>4. ASSUME NEW k \in Consumers, HandlerDone(k) PROVE IInv'
  <2>1. running' \in [Consumers -> 0 .. Prefetch]
    BY <1>4 DEF HandlerDone
  <2>2. running # NoHandlers
    BY <1>4 DEF HandlerDone
  <2> QED
    BY <1>4, <2>1, <2>2 DEF HandlerDone, linkVars
<1> QED
  BY <1>1, <1>2, <1>3, <1>4 DEF Work

LEMMA OutageHolds == IInv /\ Outage => IInv'
<1> SUFFICES ASSUME IInv, NEW c \in Connections, ConnectFails(c) \/ LoseConnection(c) PROVE IInv'
  BY DEF Outage
<1>1. CASE ConnectFails(c)
  <2>1. faults' \in 0 .. MaxFaults
    BY <1>1, BoundsAssumption DEF ConnectFails, Fails, Fault, IInv, TypeOK
  <2>2. CASE Exit
    BY <2>1, <2>2, ExitHolds
  <2>3. CASE ~Exit
    <3> USE DEF IInv, TypeOK, SingleLink, Open
    <3>1. /\ conn[c] = "opening"
          /\ conn' = [conn EXCEPT ![c] = "closed"]
          /\ timers' = timers + 1
          /\ faults' = faults + 1
          /\ UNCHANGED <<stage, channel, captured, registered, running, relayBusy, gaveUp>>
      BY <1>1, <2>3 DEF ConnectFails, Fails, Fault, consumerVars
    <3>2. timers = 0
      BY <3>1, BoundsAssumption
    <3>3. TypeOK'
      BY <2>1, <3>1, <3>2, BoundsAssumption
    <3>4. SingleLink'
      BY <3>1, <3>2
    <3>5. Quiet'
      BY <3>1 DEF Quiet, Idle
    <3> QED
      BY <2>1, <3>1, <3>2, <3>3, <3>4, <3>5, BoundsAssumption
  <2> QED
    BY <2>2, <2>3
<1>2. CASE LoseConnection(c)
  BY <1>2, BoundsAssumption
     DEF LoseConnection, Disconnected, Fault, ShuttingDown, IInv, TypeOK, SingleLink, Quiet, Idle, Open
<1> QED
  BY <1>1, <1>2

LEMMA CloseHolds ==
  ASSUME IInv, stage = "draining", Close, gaveUp' \subseteq {"relay", "drain"},
         gaveUp \subseteq gaveUp', Idle \/ "drain" \in gaveUp'
  PROVE  IInv'
<1> USE DEF IInv, Close, GoOn, Disconnected
<1>1. TypeOK'
  BY DEF TypeOK, Open, Stage, Stopping
<1>2. SingleLink'
  BY DEF TypeOK, SingleLink
<1>3. Quiet'
  BY DEF Quiet, Idle
<1> QED
  BY <1>1, <1>2, <1>3

LEMMA ShutdownHolds == IInv /\ Shutdown => IInv'
<1> SUFFICES ASSUME IInv, Shutdown PROVE IInv'
  OBVIOUS
<1>1. CASE RelayDrained \/ RelayDrainTimesOut \/ CancelConsumers
  <2> USE DEF GoOn, linkVars, consumerVars, IInv, TypeOK, SingleLink, Quiet, Idle, Open, Stage,
              Stopping
  <2>1. CASE RelayDrained
    BY <2>1 DEF RelayDrained
  <2>2. CASE RelayDrainTimesOut
    BY <2>2 DEF RelayDrainTimesOut
  <2>3. CASE CancelConsumers
    BY <2>3 DEF CancelConsumers
  <2> QED
    BY <1>1, <2>1, <2>2, <2>3
<1>2. CASE CancelRejects \/ Disconnect
  BY <1>2, ExitHolds DEF CancelRejects, Disconnect, IInv, TypeOK
<1>3. CASE DrainedAndClose \/ DrainTimesOut
  BY <1>3, CloseHolds DEF DrainedAndClose, DrainTimesOut, IInv, TypeOK
<1> QED
  BY <1>1, <1>2, <1>3 DEF Shutdown

LEMMA NextHolds == IInv /\ [Next]_vars => IInv'
<1> SUFFICES ASSUME IInv, [Next]_vars PROVE IInv'
  OBVIOUS
<1>1. CASE Sigterm
  BY <1>1 DEF Sigterm, GoOn, linkVars, consumerVars, IInv, TypeOK, SingleLink, Quiet, Idle, Open,
              Stage, Stopping
<1>2. CASE UNCHANGED vars
  BY <1>2 DEF vars, linkVars, consumerVars, IInv, TypeOK, SingleLink, Quiet, Idle, Open
<1> QED
  BY <1>1, <1>2, BootHolds, ReconnectHolds, WorkHolds, OutageHolds, ShutdownHolds DEF Next

LEMMA InvariantHolds == Spec => []IInv
  BY InitHolds, NextHolds, PTL DEF Spec

-----------------------------------------------------------------------------
\* The process's state stays well typed: whatever channel AmqpConnection keeps
\* or the bootstrap hook captured belongs to an open connection or is known to
\* be dead.
THEOREM TypeCorrect == Spec => []TypeOK
<1>1. IInv => TypeOK
  BY DEF IInv
<1> QED
  BY <1>1, InvariantHolds, PTL

\* Exactly one of connection, connect() in flight and reconnect timer exists up
\* to close(), at most one after it (amqp.connection.ts).
THEOREM AlwaysOneReconnector == Spec => []OneReconnector
<1>1. IInv => OneReconnector
  <2> SUFFICES ASSUME IInv PROVE OneReconnector
    OBVIOUS
  <2>1. timers \in {0, 1}
    BY DEF IInv, TypeOK, SingleLink
  <2>2. CASE InUse = {}
    <3>1. Cardinality(InUse) = 0
      BY <2>2, FS_EmptySet
    <3>2. \A c \in Connections : conn[c] = "closed"
      BY <2>2 DEF InUse
    <3> QED
      BY <2>1, <3>1, <3>2 DEF OneReconnector, IInv, SingleLink
  <2>3. CASE InUse # {}
    <3>1. PICK c \in Connections : conn[c] # "closed"
      BY <2>3 DEF InUse
    <3>2. InUse = {c}
      BY <3>1 DEF InUse, IInv, SingleLink
    <3>3. Cardinality(InUse) = 1
      BY <3>2, FS_Singleton
    <3>4. timers = 0
      BY <2>1, <3>1 DEF IInv, SingleLink
    <3> QED
      BY <3>3, <3>4 DEF OneReconnector
  <2> QED
    BY <2>2, <2>3
<1> QED
  BY <1>1, InvariantHolds, PTL

\* close() runs under no handler and no relay batch the shutdown had not given
\* up waiting for (PipelineLifecycle.onApplicationShutdown).
THEOREM ClosedOnlyWhenDrained == Spec => []DrainedBeforeClosed
<1>1. IInv => DrainedBeforeClosed
  BY DEF IInv, Quiet, DrainedBeforeClosed
<1> QED
  BY <1>1, InvariantHolds, PTL
=============================================================================
