---------------------------- MODULE ServerTasks ------------------------------
(***************************************************************************)
(* The tasks of the server that run for as long as it does.                *)
(* sensor-link-mqtt, client.rs: the server's MQTT client is two tasks. The *)
(* event loop task owns the connection: it carries out the requests of a   *)
(* bounded channel and hands every incoming message to the task it is for. *)
(* mqtt_task subscribes, announces the server, publishes what the server   *)
(* says and winds everything down. rumqttc and the broker are external:    *)
(* the broker keeps the session and the retained server status, publishes  *)
(* the last will when a connection breaks, and may lose the session.       *)
(* task-supervisor, lib.rs: a supervised background task is restarted when *)
(* it panics or returns, until its Handle is told to shut it down; then a  *)
(* watch channel tells the task, and the supervisor ends with it. The task *)
(* itself is external: it may work, return, panic, and it sees the request *)
(* when it comes round to its select.                                      *)
(***************************************************************************)
EXTENDS Integers, Sequences

CONSTANTS
  MqttTopics,               \* MQTT_TOPICS and the additional ones
  RequestCap,               \* CAPACITY of the request channel
  ConsumerCap,              \* of data_tx and device_tx
  MaxMqttDrops, MaxMqttIn, MaxMqttOut,  \* bounds
  MaxPanics                 \* bound on panics and early returns

(* The other requests are no topics. *)
ASSUME MqttAssumption == MqttTopics \cap {"ok", "offline", "disconnect", "message"} = {}

VARIABLES
  conn,         \* is there a connection?
  subscribed,   \* topics of the session at the broker
  retained,     \* the retained server status: "none" | "ok" | "offline"
  inbox,        \* messages the broker holds for the session
  reqs,         \* the request channel
  signal,       \* connect_rx has changed
  tpc,          \* mqtt_task: "subscribe" | "announce" | "loop" | "resubscribe" | "goodbye" |
                \* "disconnect" | "stop" | "done"
  todo,         \* topics it still has to subscribe to
  stop,         \* shutdown: "no" | "asked" (of mqtt_task) | "loop" (of the event loop too)
  epc,          \* event loop: "poll" | "handle" | "done"
  error_detected, seenStop,
  holding,      \* the message it is handling
  forwarded,    \* what the consumers were given
  consumer,     \* messages waiting in their channel
  lostSession,  \* history: the broker lost the session
  drops, produced, spoken

mqttVars == <<conn, subscribed, retained, inbox, reqs, signal, tpc, todo, stop, epc,
              error_detected, seenStop, holding, forwarded, consumer, lostSession, drops,
              produced, spoken>>
brokerVars == <<conn, subscribed, retained, inbox, lostSession, drops, produced>>
loopVars == <<epc, error_detected, seenStop, holding, forwarded, consumer>>
taskVars == <<tpc, todo, spoken>>

MqttInit ==
  /\ conn = FALSE /\ subscribed = {} /\ retained = "none" /\ inbox = <<>> /\ reqs = <<>>
  /\ signal = FALSE /\ tpc = "subscribe" /\ todo = MqttTopics /\ stop = "no" /\ epc = "poll"
  /\ error_detected = FALSE /\ seenStop = FALSE /\ holding = 0 /\ forwarded = <<>>
  /\ consumer = 0 /\ lostSession = FALSE /\ drops = 0 /\ produced = 0 /\ spoken = 0

-----------------------------------------------------------------------------
(* The broker *)

(* A device publishes; the session keeps the message, also while nobody is connected. *)
DevicePublish ==
  /\ produced < MaxMqttIn /\ subscribed = MqttTopics
  /\ produced' = produced + 1 /\ inbox' = Append(inbox, produced + 1)
  /\ UNCHANGED <<conn, subscribed, retained, reqs, signal, stop, lostSession, drops>>
  /\ UNCHANGED loopVars /\ UNCHANGED taskVars

(* The broker restarts without the session while the server is not connected. *)
LoseSession ==
  /\ ~conn /\ subscribed # {} /\ drops < MaxMqttDrops /\ drops' = drops + 1
  /\ subscribed' = {} /\ inbox' = <<>> /\ lostSession' = TRUE
  /\ UNCHANGED <<conn, retained, reqs, signal, stop, produced>>
  /\ UNCHANGED loopVars /\ UNCHANGED taskVars

-----------------------------------------------------------------------------
(* mqtt_event_loop_task *)

(* An error of poll: the end after a shutdown request, or a reason to try again. *)
PollError ==
  /\ epc' = (IF seenStop THEN "done" ELSE "poll") /\ error_detected' = TRUE
  /\ UNCHANGED <<seenStop, holding, forwarded, consumer>>

(* The connection breaks: the broker publishes the last will. *)
Drop ==
  /\ epc = "poll" /\ conn /\ drops < MaxMqttDrops /\ drops' = drops + 1
  /\ conn' = FALSE /\ retained' = "offline" /\ PollError
  /\ UNCHANGED <<subscribed, inbox, lostSession, produced, reqs, signal, stop>> /\ UNCHANGED taskVars

ConnectError ==
  /\ epc = "poll" /\ ~conn /\ (seenStop \/ ~error_detected) /\ PollError
  /\ UNCHANGED <<reqs, signal, stop>> /\ UNCHANGED brokerVars /\ UNCHANGED taskVars

(* Mutant: mqtt_task is not told of the new connection. *)
ConnAckSilent ==
  /\ epc = "poll" /\ ~conn /\ conn' = TRUE /\ error_detected' = FALSE /\ UNCHANGED signal
  /\ UNCHANGED <<subscribed, retained, inbox, lostSession, drops, produced, reqs, stop>>
  /\ UNCHANGED <<epc, seenStop, holding, forwarded, consumer>> /\ UNCHANGED taskVars

(* Mutant: the session is not kept (clean session). *)
ConnAckClean ==
  /\ epc = "poll" /\ ~conn /\ conn' = TRUE /\ error_detected' = FALSE /\ signal' = TRUE
  /\ subscribed' = {} /\ inbox' = <<>>
  /\ UNCHANGED <<retained, lostSession, drops, produced, reqs, stop>>
  /\ UNCHANGED <<epc, seenStop, holding, forwarded, consumer>> /\ UNCHANGED taskVars

ConnAck ==
  /\ epc = "poll" /\ ~conn /\ conn' = TRUE /\ error_detected' = FALSE /\ signal' = TRUE
  /\ UNCHANGED <<subscribed, retained, inbox, lostSession, drops, produced, reqs, stop>>
  /\ UNCHANGED <<epc, seenStop, holding, forwarded, consumer>> /\ UNCHANGED taskVars

(* poll carries out a request; a disconnect is graceful (no will) and makes poll fail. *)
Perform ==
  /\ epc = "poll" /\ conn /\ reqs # <<>> /\ reqs' = Tail(reqs)
  /\ LET r == Head(reqs) IN
       /\ subscribed' = IF r \in MqttTopics THEN subscribed \cup {r} ELSE subscribed
       /\ retained' = IF r \in {"ok", "offline"} THEN r ELSE retained
       /\ IF r = "disconnect"
          THEN conn' = FALSE /\ PollError
          ELSE error_detected' = FALSE /\ UNCHANGED <<conn, epc, seenStop, holding, forwarded, consumer>>
  /\ UNCHANGED <<inbox, lostSession, drops, produced, signal, stop>> /\ UNCHANGED taskVars

(* A message comes in: process_mqtt_topic parses it and sends it to its task. *)
Incoming ==
  /\ epc = "poll" /\ conn /\ inbox # <<>>
  /\ holding' = Head(inbox) /\ inbox' = Tail(inbox) /\ epc' = "handle" /\ error_detected' = FALSE
  /\ UNCHANGED <<conn, subscribed, retained, lostSession, drops, produced, reqs, signal, stop>>
  /\ UNCHANGED <<seenStop, forwarded, consumer>> /\ UNCHANGED taskVars

(* The consumer's channel blocks the event loop while it is full. *)
Forward ==
  /\ epc = "handle" /\ consumer < ConsumerCap
  /\ forwarded' = Append(forwarded, holding) /\ consumer' = consumer + 1
  /\ holding' = 0 /\ epc' = "poll"
  /\ UNCHANGED <<error_detected, seenStop, reqs, signal, stop>>
  /\ UNCHANGED brokerVars /\ UNCHANGED taskVars

Consume ==
  /\ consumer > 0 /\ consumer' = consumer - 1
  /\ UNCHANGED <<epc, error_detected, seenStop, holding, forwarded, reqs, signal, stop>>
  /\ UNCHANGED brokerVars /\ UNCHANGED taskVars

LoopShutdown ==
  /\ epc = "poll" /\ stop = "loop" /\ ~seenStop /\ seenStop' = TRUE
  /\ epc' = IF error_detected THEN "done" ELSE "poll"
  /\ UNCHANGED <<error_detected, holding, forwarded, consumer, reqs, signal, stop>>
  /\ UNCHANGED brokerVars /\ UNCHANGED taskVars

-----------------------------------------------------------------------------
(* mqtt_task *)

Request(r) == Len(reqs) < RequestCap /\ reqs' = Append(reqs, r)
TaskRest == UNCHANGED brokerVars /\ UNCHANGED loopVars

(* mqtt_subscribe, at the start and for every new connection *)
Subscribe ==
  /\ tpc \in {"subscribe", "resubscribe"}
  /\ IF todo = {}
     THEN tpc' = (IF tpc = "subscribe" THEN "announce" ELSE "loop") /\ UNCHANGED <<todo, reqs>>
     ELSE \E t \in todo : Request(t) /\ todo' = todo \ {t} /\ UNCHANGED tpc
  /\ UNCHANGED <<spoken, signal, stop>> /\ TaskRest

Announce ==
  /\ tpc = "announce" /\ Request("ok") /\ tpc' = "loop"
  /\ UNCHANGED <<todo, spoken, signal, stop>> /\ TaskRest

Connected ==
  /\ tpc = "loop" /\ signal /\ signal' = FALSE /\ tpc' = "resubscribe" /\ todo' = MqttTopics
  /\ UNCHANGED <<spoken, reqs, stop>> /\ TaskRest

(* msg_out: try_publish_to_device waits for room in the request channel. *)
Speak ==
  /\ tpc = "loop" /\ spoken < MaxMqttOut /\ Request("message") /\ spoken' = spoken + 1
  /\ UNCHANGED <<tpc, todo, signal, stop>> /\ TaskRest

(* The supervisor is told to stop the task. *)
AskToStop ==
  /\ stop = "no" /\ stop' = "asked"
  /\ UNCHANGED <<reqs, signal>> /\ UNCHANGED taskVars /\ TaskRest

SeeStop ==
  /\ tpc = "loop" /\ stop = "asked" /\ tpc' = "goodbye"
  /\ UNCHANGED <<todo, spoken, reqs, signal, stop>> /\ TaskRest

(* Mutant: the connection is closed before the goodbye. *)
LastRequestsSwapped == [goodbye |-> "disconnect", disconnect |-> "offline"]

LastRequests == [goodbye |-> "offline", disconnect |-> "disconnect"]

Goodbye ==
  /\ tpc \in {"goodbye", "disconnect"} /\ Request(LastRequests[tpc])
  /\ tpc' = IF tpc = "goodbye" THEN "disconnect" ELSE "stop"
  /\ UNCHANGED <<todo, spoken, signal, stop>> /\ TaskRest

(* shutdown_with_timeout of the event loop *)
StopLoop ==
  /\ tpc = "stop" /\ stop = "asked" /\ stop' = "loop"
  /\ UNCHANGED <<reqs, signal>> /\ UNCHANGED taskVars /\ TaskRest

(* Mutant: shutdown, without a timeout. *)
ExitUntimed ==
  /\ tpc = "stop" /\ stop = "loop" /\ epc = "done" /\ tpc' = "done" /\ conn' = FALSE
  /\ retained' = (IF conn THEN "offline" ELSE retained)
  /\ UNCHANGED <<subscribed, inbox, lostSession, drops, produced, epc, error_detected, seenStop,
                 holding, forwarded, consumer, todo, spoken, reqs, signal, stop>>

(* The event loop has ended, or three seconds have passed. The process ends: a connection *)
(* that is still open breaks.                                                             *)
Exit ==
  /\ tpc = "stop" /\ stop = "loop" /\ tpc' = "done" /\ epc' = "done" /\ conn' = FALSE
  /\ retained' = IF conn THEN "offline" ELSE retained
  /\ UNCHANGED <<subscribed, inbox, lostSession, drops, produced, error_detected, seenStop,
                 holding, forwarded, consumer, todo, spoken, reqs, signal, stop>>

EventLoop == ConnAck \/ Perform \/ Incoming \/ Forward \/ LoopShutdown
MqttTask == Subscribe \/ Announce \/ Connected \/ SeeStop \/ Goodbye \/ StopLoop \/ Exit

MqttNext == EventLoop \/ MqttTask \/ Drop \/ ConnectError \/ DevicePublish \/ LoseSession
            \/ Consume \/ Speak \/ AskToStop

(* Both tasks go on as long as they can, the broker can be reached again, consumers consume. *)
MqttFairness == WF_mqttVars(EventLoop) /\ WF_mqttVars(MqttTask) /\ WF_mqttVars(Consume)

MqttSpec == MqttInit /\ [][MqttNext]_mqttVars /\ MqttFairness

-----------------------------------------------------------------------------

(* Again and again (liveness), connect_tx: on every connection, also to a broker that *)
(* has lost the session, the topics are subscribed, unless the server stops.          *)
Resubscribed == subscribed = MqttTopics \/ stop # "no"

(* "During a graceful shutdown, the server will send the will manually": whatever happens  *)
(* to the connection meanwhile, the retained status of a server that has ended is not ok.   *)
OfflineIsShown == tpc = "done" => retained # "ok"

(* "Ensures we will receive messages from when we were offline": what devices publish is    *)
(* forwarded once and in order, over broken connections, while the broker keeps the session.*)
ForwardedInOrder ==
  ~lostSession => forwarded \o (IF holding = 0 THEN <<>> ELSE <<holding>>) \o inbox = [i \in 1..produced |-> i]

(* In the end (liveness), Handle::shutdown: mqtt_task ends, though the request channel was   *)
(* full or the broker away.                                                                  *)
MqttStopped == stop = "no" \/ tpc = "done"

(* LastWill, ServerStatus::Ok "Server online": a server that runs and is connected is       *)
(* announced as online.                                                                     *)
OnlineIsShown == []<>(retained = "ok" \/ stop # "no")

-----------------------------------------------------------------------------
(* The supervisor *)

VARIABLES
  handle,       \* "held" | "waiting" (in shutdown) | "timed" (in shutdown_with_timeout) | "ok" | "err"
  sup,          \* the supervisor: "select" | "delay" | "exit" | "aborted"
  shutdown_requested,
  task,         \* "running" | "busy" (not polling its receiver) | "returned" | "panicked"
  notified,     \* the watch channel has changed for the task's receiver
  panics        \* nr_panics, and early returns

supVars == <<handle, sup, shutdown_requested, task, notified, panics>>

SupInit ==
  /\ handle = "held" /\ sup = "select" /\ shutdown_requested = FALSE
  /\ task = "running" /\ notified = FALSE /\ panics = 0

Alive == task \in {"running", "busy"}

(* The task works, stops by itself, or sees the request; an aborted supervisor has dropped *)
(* the sender, which the task sees as a change as well.                                    *)
Work ==
  /\ Alive /\ task' = IF task = "running" THEN "busy" ELSE "running"
  /\ UNCHANGED <<handle, sup, shutdown_requested, notified, panics>>

StopByItself(how) ==
  /\ Alive /\ panics < MaxPanics /\ panics' = panics + 1 /\ task' = how
  /\ UNCHANGED <<handle, sup, shutdown_requested, notified>>

SeeRequest ==
  /\ task = "running" /\ (notified \/ sup = "aborted") /\ task' = "returned"
  /\ UNCHANGED <<handle, sup, shutdown_requested, notified, panics>>

-----------------------------------------------------------------------------
(* Handle::new, the supervisor's loop *)

(* Mutant: the request is only noted. *)
ShutdownRequestedQuiet ==
  /\ sup = "select" /\ handle # "held" /\ ~shutdown_requested /\ shutdown_requested' = TRUE
  /\ UNCHANGED <<handle, sup, task, notified, panics>>

(* Mutant: the supervisor does not wait for the task. *)
ShutdownRequestedEager ==
  /\ sup = "select" /\ handle # "held" /\ ~shutdown_requested /\ shutdown_requested' = TRUE
  /\ notified' = Alive /\ sup' = "exit"
  /\ UNCHANGED <<handle, task, panics>>

(* The handle's sender is gone: tell the task. Sending fails when it has no receiver. *)
ShutdownRequested ==
  /\ sup = "select" /\ handle # "held" /\ ~shutdown_requested /\ shutdown_requested' = TRUE
  /\ notified' = Alive
  /\ UNCHANGED <<handle, sup, task, panics>>

(* Mutant: a task that returns by itself is taken to be done. *)
TaskEndedForGood ==
  /\ sup = "select" /\ ~Alive
  /\ sup' = IF shutdown_requested \/ task = "returned" THEN "exit" ELSE "delay"
  /\ UNCHANGED <<handle, shutdown_requested, task, notified, panics>>

(* The task has ended: the end, if that was asked for; otherwise 5 seconds after a panic *)
(* and 10 milliseconds in any case, before it is started again.                          *)
TaskEnded ==
  /\ sup = "select" /\ ~Alive /\ sup' = IF shutdown_requested THEN "exit" ELSE "delay"
  /\ UNCHANGED <<handle, shutdown_requested, task, notified, panics>>

(* A new receiver: it has seen everything sent so far. *)
Respawn ==
  /\ sup = "delay" /\ sup' = "select" /\ task' = "running" /\ notified' = FALSE
  /\ UNCHANGED <<handle, shutdown_requested, panics>>

-----------------------------------------------------------------------------
(* Handle *)

Shutdown(how) ==
  /\ handle = "held" /\ handle' = how
  /\ UNCHANGED <<sup, shutdown_requested, task, notified, panics>>

Joined ==
  /\ handle \in {"waiting", "timed"} /\ sup = "exit" /\ handle' = "ok"
  /\ UNCHANGED <<sup, shutdown_requested, task, notified, panics>>

(* shutdown_with_timeout: join.abort() *)
TimedOut ==
  /\ handle = "timed" /\ sup \notin {"exit", "aborted"} /\ handle' = "err" /\ sup' = "aborted"
  /\ UNCHANGED <<shutdown_requested, task, notified, panics>>

SupStep == ShutdownRequested \/ TaskEnded \/ Respawn \/ Joined

SupNext ==
  \/ SupStep \/ Work \/ SeeRequest \/ TimedOut
  \/ \E how \in {"returned", "panicked"} : StopByItself(how)
  \/ \E how \in {"waiting", "timed"} : Shutdown(how)

TaskWork == task = "busy" /\ Work

(* The supervisor runs; the task comes round to its select and takes the request. *)
SupFairness == WF_supVars(SupStep) /\ SF_supVars(SeeRequest) /\ WF_supVars(TaskWork)

SupSpec == SupInit /\ [][SupNext]_supVars /\ SupFairness

-----------------------------------------------------------------------------

(* In the end (liveness), Handle::shutdown completes, whether the task runs, has         *)
(* panicked or is being restarted at that moment, as long as the task itself watches its *)
(* receiver.                                                                             *)
ShutdownCompleted == handle \notin {"waiting", "timed"}

(* Again and again (liveness): "The task restarts automatically on panic or unexpected   *)
(* exit", until shutdown.                                                                *)
RestartedUntilShutdown == Alive \/ handle # "held"

(* shutdown: when it has returned, the task is gone and will not be started again.       *)
StoppedForGood == handle = "ok" => ~Alive /\ sup = "exit"

(* shutdown_with_timeout, "The task is forced to abort if it has not completed after the *)
(* timeout expires".                                                                     *)
AbortedIsGone == handle = "err" => ~Alive

(* The tasks of the server: a server that has ended is not shown as online, messages of the    *)
(* devices are forwarded once and in order, and a task that was shut down stays down.          *)
ServerIsSafe == OfflineIsShown /\ ForwardedInOrder /\ StoppedForGood

=============================================================================
