--------------------------- MODULE WorkerLifecycle ---------------------------
(***************************************************************************)
(* The worker process from boot to exit: AmqpConnection's reconnect loop   *)
(* (apps/worker/src/messaging/amqp.connection.ts) beside the ordered       *)
(* shutdown of PipelineLifecycle (apps/worker/src/app.module.ts).          *)
(*                                                                         *)
(* Timer delays are not modelled: a pending timer may fire at any moment,  *)
(* a bounded wait may end by its deadline at any moment.                   *)
(***************************************************************************)
EXTENDS Integers, FiniteSets

CONSTANTS
  Connections,   \* identities of AMQP connections; a closed one is reused
  Consumers,     \* "moderation" and "aggregation"
  Prefetch,      \* bound: deliveries in flight per consumer
  MaxFaults      \* bound: lost connections and failed connects

ASSUME ConsumersAssumption == Consumers = {"moderation", "aggregation"}
ASSUME BoundsAssumption == Prefetch \in Nat \ {0} /\ MaxFaults \in Nat

VARIABLES
  stage,         \* how far boot or shutdown has come
  conn,          \* "closed", "opening" (connect() still awaits) or "open"
  channel,       \* AmqpConnection.channel: the connection it belongs to
  timers,        \* reconnect timers pending
  captured,      \* the connection whose channel the bootstrap hook captured
  registered,    \* consumers with a handle, not cancelled
  running,       \* inFlightCount of each consumer
  relayBusy,     \* a relay tick is in flight
  gaveUp,        \* waits of the shutdown that ended by their deadline
  faults

linkVars == <<conn, channel, timers>>
consumerVars == <<captured, registered, running>>
vars == <<stage, linkVars, consumerVars, relayBusy, gaveUp, faults>>

-----------------------------------------------------------------------------
None == "none"
Dead == "dead"     \* a captured channel whose connection is gone

BootStages == {"connecting", "bootstrap", "registering"}
Stopping == {"stopping", "cancelling", "draining", "disconnecting"}
Stage == BootStages \union {"running"} \union Stopping \union {"exited"}

NoHandlers == [k \in Consumers |-> 0]
Open(c) == conn[c] = "open"
InUse == {c \in Connections : conn[c] # "closed"}

TypeOK ==
  /\ stage \in Stage
  /\ conn \in [Connections -> {"closed", "opening", "open"}]
  /\ channel = None \/ (channel \in Connections /\ Open(channel))
  /\ captured \in {None, Dead} \/ (captured \in Connections /\ Open(captured))
  /\ timers \in 0 .. MaxFaults
  /\ registered \subseteq Consumers
  /\ running \in [Consumers -> 0 .. Prefetch]
  /\ relayBusy \in BOOLEAN
  /\ gaveUp \subseteq {"relay", "drain"}
  /\ faults \in 0 .. MaxFaults

(* onModuleInit has called connect(). *)
Init ==
  /\ stage = "connecting"
  /\ \E c \in Connections :
       conn = [d \in Connections |-> IF d = c THEN "opening" ELSE "closed"]
  /\ channel = None /\ timers = 0
  /\ captured = None /\ registered = {} /\ running = NoHandlers
  /\ relayBusy = FALSE /\ gaveUp = {} /\ faults = 0

-----------------------------------------------------------------------------
Fault == faults < MaxFaults /\ faults' = faults + 1
GoOn(to) == stage' = to

(* The process is gone, and with it everything it held. *)
Exit ==
  /\ stage' = "exited"
  /\ conn' = [c \in Connections |-> "closed"] /\ channel' = None /\ timers' = 0
  /\ captured' = Dead /\ registered' = {} /\ running' = NoHandlers
  /\ relayBusy' = FALSE
  /\ UNCHANGED gaveUp

-----------------------------------------------------------------------------
(* AmqpConnection. *)

(* connect() has its channel and topology: it keeps both and listens for    *)
(* the connection's end.  The first one lets the boot go on.                *)
Install(c) ==
  /\ conn[c] = "opening"
  /\ conn' = [conn EXCEPT ![c] = "open"]
  /\ channel' = c
  /\ GoOn(IF stage = "connecting" THEN "bootstrap" ELSE stage)
  /\ UNCHANGED <<timers, consumerVars, relayBusy, gaveUp, faults>>

(* connect() rejects: the first time the boot fails, later it is retried. *)
Fails(c, retries) ==
  /\ conn[c] = "opening" /\ Fault
  /\ \/ stage = "connecting" /\ Exit
     \/ /\ stage # "connecting"
        /\ conn' = [conn EXCEPT ![c] = "closed"]
        /\ timers' = timers + retries
        /\ UNCHANGED <<stage, channel, consumerVars, relayBusy, gaveUp>>

(* Mutant: the close listener is attached before the topology is asserted,  *)
(* so that both it and the rejection schedule a reconnect.                  *)
ConnectFailsTwice(c) == Fails(c, 2)

(* Mutant: a failed reconnect is logged and that is it. *)
ConnectFailsForGood(c) == Fails(c, 0)

ConnectFails(c) == Fails(c, 1)

(* The timer of scheduleReconnect.  It does not look at shuttingDown. *)
TimerFires ==
  /\ timers > 0
  /\ \E c \in Connections :
       conn[c] = "closed" /\ conn' = [conn EXCEPT ![c] = "opening"]
  /\ timers' = timers - 1
  /\ UNCHANGED <<stage, channel, consumerVars, relayBusy, gaveUp, faults>>

(* close() has been called: shuttingDown is set. *)
ShuttingDown == stage = "disconnecting"

(* Whatever was captured from a connection dies with it. *)
Disconnected(c) ==
  /\ conn' = [conn EXCEPT ![c] = "closed"]
  /\ captured' = IF captured = c THEN Dead ELSE captured

(* Mutant: the listener schedules a reconnect and forgets the references. *)
LoseConnectionOnly(c) ==
  /\ Open(c) /\ Fault
  /\ Disconnected(c)
  /\ timers' = IF ShuttingDown THEN timers ELSE timers + 1
  /\ UNCHANGED <<stage, channel, registered, running, relayBusy, gaveUp>>

(* The broker or the network ends a connection: the 'close' listener. *)
LoseConnection(c) ==
  /\ Open(c) /\ Fault
  /\ Disconnected(c)
  /\ channel' = None
  /\ timers' = IF ShuttingDown THEN timers ELSE timers + 1
  /\ UNCHANGED <<stage, registered, running, relayBusy, gaveUp>>

-----------------------------------------------------------------------------
(* Boot. *)

(* onApplicationBootstrap asks for the channel once; without one it throws. *)
Bootstrap ==
  /\ stage = "bootstrap"
  /\ \/ channel = None /\ Exit
     \/ /\ channel # None
        /\ captured' = channel /\ GoOn("registering")
        /\ UNCHANGED <<linkVars, registered, running, relayBusy, gaveUp>>
  /\ UNCHANGED faults

(* registerConsumer, moderation first, both on the captured channel. *)
Register(k) ==
  /\ stage = "registering" /\ captured # Dead
  /\ k \notin registered
  /\ k = "aggregation" => "moderation" \in registered
  /\ registered' = registered \union {k}
  /\ GoOn(IF k = "aggregation" THEN "running" ELSE stage)
  /\ UNCHANGED <<linkVars, captured, running, relayBusy, gaveUp, faults>>

(* ... which rejects once that channel is closed, and the boot with it. *)
RegisterRejects ==
  /\ stage = "registering" /\ captured = Dead
  /\ Exit /\ UNCHANGED faults

-----------------------------------------------------------------------------
(* Work. *)

(* The broker sends to a consumer that is still there. *)
Attached(k) == k \in registered /\ captured \in Connections

Receive(k) ==
  /\ Attached(k) /\ running[k] < Prefetch
  /\ running' = [running EXCEPT ![k] = @ + 1]
  /\ UNCHANGED <<stage, linkVars, captured, registered, relayBusy, gaveUp, faults>>

(* The handler is done; its ack may find the channel closed. *)
HandlerDone(k) ==
  /\ running[k] > 0
  /\ running' = [running EXCEPT ![k] = @ - 1]
  /\ UNCHANGED <<stage, linkVars, captured, registered, relayBusy, gaveUp, faults>>

(* A relay tick: the timer starts with the boot hooks and stops first. *)
TickBegins ==
  /\ stage \in {"registering", "running"} /\ ~relayBusy
  /\ relayBusy' = TRUE
  /\ UNCHANGED <<stage, linkVars, consumerVars, gaveUp, faults>>

TickEnds ==
  /\ relayBusy /\ relayBusy' = FALSE
  /\ UNCHANGED <<stage, linkVars, consumerVars, gaveUp, faults>>

-----------------------------------------------------------------------------
(* Shutdown. *)

(* SIGTERM: stopAndDrain stops the poll loop. *)
Sigterm ==
  /\ stage = "running" /\ GoOn("stopping")
  /\ UNCHANGED <<linkVars, consumerVars, relayBusy, gaveUp, faults>>

RelayDrained ==
  /\ stage = "stopping" /\ ~relayBusy /\ GoOn("cancelling")
  /\ UNCHANGED <<linkVars, consumerVars, relayBusy, gaveUp, faults>>

RelayDrainTimesOut ==
  /\ stage = "stopping" /\ relayBusy /\ GoOn("cancelling")
  /\ gaveUp' = gaveUp \union {"relay"}
  /\ UNCHANGED <<linkVars, consumerVars, relayBusy, faults>>

(* Both consumers are cancelled on the channel they were registered on. *)
CancelConsumers ==
  /\ stage = "cancelling" /\ captured # Dead
  /\ registered' = {} /\ GoOn("draining")
  /\ UNCHANGED <<linkVars, captured, running, relayBusy, gaveUp, faults>>

(* cancel() on a closed channel throws, onApplicationShutdown rejects, and  *)
(* the framework ends the process with an error.                            *)
CancelRejects ==
  /\ stage = "cancelling" /\ captured = Dead
  /\ Exit /\ UNCHANGED faults

Idle == running = NoHandlers

(* AmqpConnection.close(): the current connection goes. *)
Close ==
  /\ GoOn("disconnecting")
  /\ channel' = None
  /\ \/ channel # None /\ Disconnected(channel)
     \/ channel = None /\ UNCHANGED <<conn, captured>>
  /\ UNCHANGED <<timers, registered, running, relayBusy, faults>>

(* Mutant: cancelled is taken for drained. *)
CloseAtOnce ==
  /\ stage = "draining"
  /\ Close /\ UNCHANGED gaveUp

(* drainConsumers returns, by itself or at its deadline, and close() runs. *)
DrainedAndClose ==
  /\ stage = "draining" /\ Idle
  /\ Close /\ UNCHANGED gaveUp

(* Mutant: a drain without a deadline. *)
DrainWaits ==
  /\ stage = "draining" /\ Idle
  /\ Close /\ gaveUp' = gaveUp \union {"drain"}

DrainTimesOut ==
  /\ stage = "draining" /\ ~Idle
  /\ Close /\ gaveUp' = gaveUp \union {"drain"}

(* Redis and Prisma are disconnected and the process ends. *)
Disconnect ==
  /\ stage = "disconnecting"
  /\ Exit /\ UNCHANGED faults

-----------------------------------------------------------------------------
Boot == Bootstrap \/ RegisterRejects \/ \E k \in Consumers : Register(k)
Reconnect == TimerFires \/ \E c \in Connections : Install(c)
Shutdown ==
  \/ RelayDrained \/ RelayDrainTimesOut \/ CancelConsumers \/ CancelRejects
  \/ DrainedAndClose \/ DrainTimesOut \/ Disconnect
Work == TickBegins \/ TickEnds \/ \E k \in Consumers : Receive(k) \/ HandlerDone(k)
Outage == \E c \in Connections : ConnectFails(c) \/ LoseConnection(c)

Next == Boot \/ Reconnect \/ Shutdown \/ Work \/ Outage \/ Sigterm

Spec == Init /\ [][Next]_vars

(* The event loop runs what is due: timers, deadlines and answers.  Nothing *)
(* is assumed of handlers and relay ticks, which may hang.                  *)
FairSpec == Spec /\ WF_vars(Boot) /\ WF_vars(Reconnect) /\ WF_vars(Shutdown)

-----------------------------------------------------------------------------
(* From the first connect() to close() there is always exactly one of a     *)
(* live connection, a connect() in flight or a pending timer: no outage     *)
(* leaves the worker without a reconnect, none leaves it with two.          *)
OneReconnector ==
  /\ Cardinality(InUse) + timers <= 1
  /\ stage \notin {"disconnecting", "exited"} => Cardinality(InUse) + timers = 1

(* close() and the disconnects that follow it pull nothing from under a     *)
(* running handler or relay batch, unless the wait for it had run out.      *)
DrainedBeforeClosed ==
  stage = "disconnecting" =>
    /\ Idle \/ "drain" \in gaveUp
    /\ relayBusy => "relay" \in gaveUp

(* Once the broker stays up the worker has a channel, or is going down. *)
EventuallyConnected ==
  <>[](channel # None \/ stage \notin {"registering", "running"})

(* A SIGTERM ends the process whatever handlers, batch and broker do. *)
ShutdownEnds == stage = "stopping" ~> stage = "exited"

(* What the shutdown hook is for: a worker that is told to stop does not    *)
(* drop the deliveries in flight, except at the drain's deadline.           *)
WorkIsFinished ==
  [][(stage \in Stopping /\ stage' = "exited") => Idle \/ "drain" \in gaveUp]_vars

(* What safeAck relies on: deliveries come again once the consumer is back. *)
ConsumersComeBack ==
  \A k \in Consumers : stage = "running" ~> (Attached(k) \/ stage # "running")
=============================================================================
