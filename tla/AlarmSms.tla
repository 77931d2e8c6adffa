------------------------------ MODULE AlarmSms -------------------------------
(***************************************************************************)
(* sensor-link-notify, alarm.rs and sms.rs, with the responses that        *)
(* sensor-link-mqtt applies: the alarm task polls the event store for      *)
(* alarms that nobody was told of, hands mail to the mail task and text    *)
(* messages to the SMS task, which asks the gateway over MQTT or calls the *)
(* Spryng service. The store, the gateway and Spryng are external: a call  *)
(* may fail, an answer may be late or lost, the server may restart.        *)
(***************************************************************************)
EXTENDS Integers, Sequences, FiniteSets, SequencesExt

CONSTANTS
  EmailEvents, SmsEvents,       \* the events, by their type
  SMS_RETRY_AFTER_SEC, SMS_RETRY_WINDOW_SEC, START_OFFSET_SEC,
  GATEWAY_LIMIT_SEC,            \* a text message this old does not go to the gateway
  Limit,                        \* of one query
  ChannelCap,                   \* of the channels to the SMS task and to the MQTT client
  MaxAlarmNow, MaxAlarmFaults, MaxAlarmRestarts  \* bounds

(* An event is of one type. *)
ASSUME AlarmAssumption ==
  /\ IsFiniteSet(EmailEvents) /\ IsFiniteSet(SmsEvents) /\ EmailEvents \cap SmsEvents = {}
  /\ Limit \in Nat

Events == EmailEvents \cup SmsEvents
Never == -1

VARIABLES
  alarmNow,     \* Utc::now()
  untill,       \* alarms_processed_untill
  occurred,     \* when each event happened, or Never
  sent,         \* its SendStatus
  eventCode,    \* "alarm", or "error" after event_update_code
  apc,          \* the alarm task: "query" | "retry" | "work" | "mark" | "text" | "sleep"
  batch,        \* the events it still has to handle
  texts,        \* the channel to the SMS task
  requests,     \* requests to the gateway that are not answered
  handed,       \* history: events that the mail task or the SMS task was given
  taken,        \* history: text messages that the gateway or Spryng took
  afaults, serverRestarts

alarmVars == <<alarmNow, untill, occurred, sent, eventCode, apc, batch, texts, requests, handed, taken,
               afaults, serverRestarts>>
eventStore == <<occurred, sent, eventCode>>
world == <<requests, taken, serverRestarts>>

AlarmInit ==
  /\ alarmNow = 0 /\ untill = 0 - START_OFFSET_SEC
  /\ occurred = [e \in Events |-> Never] /\ sent = [e \in Events |-> "NotSent"]
  /\ eventCode = [e \in Events |-> "alarm"]
  /\ apc = "query" /\ batch = <<>> /\ texts = <<>> /\ requests = {} /\ handed = {}
  /\ taken = {} /\ afaults = 0 /\ serverRestarts = 0

MayFail == {f \in BOOLEAN : f => afaults < MaxAlarmFaults}
AlarmFault(fails) == afaults' = IF fails THEN afaults + 1 ELSE afaults

(* Another task stores an event with contact details. *)
Raise(e) ==
  /\ occurred[e] = Never /\ alarmNow < MaxAlarmNow
  /\ occurred' = [occurred EXCEPT ![e] = alarmNow]
  /\ UNCHANGED <<alarmNow, untill, sent, eventCode, apc, batch, texts, handed, afaults>> /\ UNCHANGED world

(* query_events: both ends of the range are included, oldest first, those of one instant *)
(* in any order, at most Limit.                                                          *)
EventsFound(S, status, from, until) ==
  {e \in S : occurred[e] # Never /\ occurred[e] >= from /\ occurred[e] <= until /\ sent[e] = status
             /\ eventCode[e] = "alarm"}
OldestFirst(S) ==
  {s \in [1 .. Cardinality(S) -> S] :
     \A i, j \in 1 .. Cardinality(S) : i < j => s[i] # s[j] /\ occurred[s[i]] <= occurred[s[j]]}
Pages(S) == {SubSeq(s, 1, IF Len(s) < Limit THEN Len(s) ELSE Limit) : s \in OldestFirst(S)}

(* Mutant: only what happened since the last poll is looked at. *)
UnsentSincePoll == EventsFound(Events, "NotSent", alarmNow, alarmNow)

Unsent == EventsFound(Events, "NotSent", untill, alarmNow)

TimedOutTexts ==
  EventsFound(SmsEvents, "Sending", untill - SMS_RETRY_WINDOW_SEC, untill - SMS_RETRY_AFTER_SEC)

-----------------------------------------------------------------------------
(* alarm_task and process_alarms *)

(* An error ends the poll; the task sleeps before the next. *)
QueryNew ==
  /\ apc = "query"
  /\ \E fails \in MayFail :
       /\ AlarmFault(fails)
       /\ IF fails THEN apc' = "sleep" /\ UNCHANGED batch
                    ELSE apc' = "retry" /\ batch' \in Pages(Unsent)
  /\ UNCHANGED <<alarmNow, untill, texts, handed>> /\ UNCHANGED eventStore /\ UNCHANGED world

QueryRetry ==
  /\ apc = "retry"
  /\ \E fails \in MayFail :
       /\ AlarmFault(fails)
       /\ IF fails THEN apc' = "sleep" /\ batch' = <<>>
                    ELSE apc' = "work" /\ \E page \in Pages(TimedOutTexts) : batch' = batch \o page
  /\ UNCHANGED <<alarmNow, untill, texts, handed>> /\ UNCHANGED eventStore /\ UNCHANGED world

(* event_mark_sent fails on a status that does not change anything. *)
MarkFails(e, status, fails) == fails \/ sent[e] = status
Marked(e, status, fails) == IF fails THEN sent ELSE [sent EXCEPT ![e] = status]

(* Mutant: the event is marked before the mail is handed over. *)
EmailStepsSwapped == <<"mark", "hand">>

EmailSteps == <<"hand", "mark">>

(* An email event: the mail is built and given to the mail task; only then is it marked. *)
EmailStep(how, e, fails) ==
  IF how = "hand"
  THEN handed' = (IF fails THEN handed ELSE handed \cup {e}) /\ UNCHANGED sent
  ELSE sent' = Marked(e, "Sent", fails) /\ UNCHANGED handed

EmailFirst ==
  /\ apc = "work" /\ batch # <<>> /\ Head(batch) \in EmailEvents
  /\ \E fails \in MayFail :
       /\ EmailStep(EmailSteps[1], Head(batch), fails) /\ AlarmFault(fails)
       /\ IF fails THEN apc' = "sleep" /\ batch' = <<>> ELSE apc' = "mark" /\ UNCHANGED batch
  /\ UNCHANGED <<alarmNow, untill, occurred, eventCode, texts>> /\ UNCHANGED world

EmailSecond ==
  /\ apc = "mark"
  /\ \E fails \in MayFail :
       /\ EmailStep(EmailSteps[2], Head(batch), fails) /\ AlarmFault(fails)
       /\ IF MarkFails(Head(batch), "Sent", fails)
          THEN apc' = "sleep" /\ batch' = <<>>
          ELSE apc' = "work" /\ batch' = Tail(batch)
  /\ UNCHANGED <<alarmNow, untill, occurred, eventCode, texts>> /\ UNCHANGED world

(* A text message is marked Sending first; that failing is only logged. *)
SmsMark ==
  /\ apc = "work" /\ batch # <<>> /\ Head(batch) \in SmsEvents
  /\ \E fails \in MayFail : AlarmFault(fails) /\ sent' = Marked(Head(batch), "Sending", fails)
  /\ apc' = "text"
  /\ UNCHANGED <<alarmNow, untill, occurred, eventCode, batch, texts, handed>> /\ UNCHANGED world

(* build_sms failing ends the poll and leaves the event as Sending; a full channel blocks. *)
SmsHandOver ==
  /\ apc = "text"
  /\ \E fails \in MayFail :
       /\ AlarmFault(fails)
       /\ IF fails
          THEN apc' = "sleep" /\ batch' = <<>> /\ UNCHANGED <<texts, handed>>
          ELSE /\ Len(texts) < ChannelCap
               /\ texts' = Append(texts, Head(batch)) /\ handed' = handed \cup {Head(batch)}
               /\ batch' = Tail(batch) /\ apc' = "work"
  /\ UNCHANGED <<alarmNow, untill>> /\ UNCHANGED eventStore /\ UNCHANGED world

PollDone ==
  /\ apc = "work" /\ batch = <<>> /\ apc' = "sleep"
  /\ UNCHANGED <<alarmNow, untill, batch, texts, handed, afaults>> /\ UNCHANGED eventStore /\ UNCHANGED world

(* POLL_INTERVAL has passed. *)
PollAgain ==
  /\ apc = "sleep" /\ apc' = "query"
  /\ alarmNow' = IF alarmNow < MaxAlarmNow THEN alarmNow + 1 ELSE alarmNow
  /\ UNCHANGED <<untill, batch, texts, handed, afaults>> /\ UNCHANGED eventStore /\ UNCHANGED world

-----------------------------------------------------------------------------
(* sms.rs, send_task *)

(* A recent message goes to the gateway, unless the MQTT client is busy. *)
ToGateway ==
  /\ texts # <<>> /\ alarmNow - occurred[Head(texts)] < GATEWAY_LIMIT_SEC /\ Cardinality(requests) < ChannelCap
  /\ requests' = requests \cup {Head(texts)} /\ texts' = Tail(texts)
  /\ UNCHANGED <<alarmNow, untill, apc, batch, handed, taken, afaults, serverRestarts>> /\ UNCHANGED eventStore

(* Everything else is posted to Spryng: accepted; refused; or the call itself fails, which *)
(* changes the event's code but not its status. A store that fails is only logged.         *)
ToSpryng(jitter) ==
  /\ texts # <<>>
  /\ jitter => (alarmNow - occurred[Head(texts)] >= GATEWAY_LIMIT_SEC \/ Cardinality(requests) >= ChannelCap)
  /\ \E outcome \in {"ok"} \cup {o \in {"refused", "error", "unmarked"} : afaults < MaxAlarmFaults} :
       LET e == Head(texts) IN
       /\ AlarmFault(outcome # "ok")
       /\ taken' = IF outcome \in {"ok", "unmarked"} THEN taken \cup {e} ELSE taken
       /\ sent' = CASE outcome = "ok" -> [sent EXCEPT ![e] = "Sent"]
                    [] outcome = "refused" -> [sent EXCEPT ![e] = "Failed"]
                    [] OTHER -> sent
       /\ eventCode' = IF outcome \in {"refused", "error"} THEN [eventCode EXCEPT ![e] = "error"] ELSE eventCode
  /\ texts' = Tail(texts)
  /\ UNCHANGED <<alarmNow, untill, occurred, apc, batch, requests, handed, serverRestarts>>

(* sensor-link-mqtt: a success of the gateway is recorded; a failure, or silence, is not. *)
GatewayAnswer(e, success) ==
  /\ e \in requests /\ requests' = requests \ {e}
  /\ success \/ afaults < MaxAlarmFaults
  /\ AlarmFault(~success)
  /\ sent' = Marked(e, "Sent", ~success)
  /\ taken' = IF success THEN taken \cup {e} ELSE taken
  /\ UNCHANGED <<alarmNow, untill, occurred, eventCode, apc, batch, texts, handed, serverRestarts>>

(* The server restarts: what it held in memory is gone. *)
ServerRestart ==
  /\ serverRestarts < MaxAlarmRestarts /\ serverRestarts' = serverRestarts + 1
  /\ untill' = alarmNow - START_OFFSET_SEC
  /\ apc' = "query" /\ batch' = <<>> /\ texts' = <<>>
  /\ UNCHANGED <<alarmNow, requests, handed, taken, afaults>> /\ UNCHANGED eventStore

AlarmTask == QueryNew \/ QueryRetry \/ EmailFirst \/ EmailSecond \/ SmsMark \/ SmsHandOver
             \/ PollDone \/ PollAgain
SmsTask == ToGateway \/ \E jitter \in BOOLEAN : ToSpryng(jitter)

AlarmNext ==
  \/ AlarmTask \/ SmsTask \/ ServerRestart
  \/ \E e \in Events : Raise(e) \/ GatewayAnswer(e, TRUE) \/ GatewayAnswer(e, FALSE)

AlarmFairness == WF_alarmVars(AlarmTask) /\ WF_alarmVars(SmsTask)

AlarmSpec == AlarmInit /\ [][AlarmNext]_alarmVars /\ AlarmFairness

-----------------------------------------------------------------------------

(* The mail was given to the mail task, or a provider took the text message. *)
Told(e) == e \in (IF e \in EmailEvents THEN handed ELSE taken)

(* In the end (liveness): "Start processing unsent alarms that occured some time before the  *)
(* task starts". An alarm                                                                   *)
(* inside the task's range leaves NotSent, though a poll fails, the page is full or the     *)
(* server restarts; only a restart that puts it out of range ends its chance.               *)
AlarmsAreHandled ==
  \A e \in Events : occurred[e] = Never \/ occurred[e] < untill \/ sent[e] # "NotSent"

(* process_alarms, "Query events with status sending that have been timed out": a text      *)
(* message whose gateway never answered is sent again.                                      *)
TimedOutIsRetried ==
  \A e \in SmsEvents :
    (sent[e] = "Sending" /\ eventCode[e] = "alarm")
      ~> (sent[e] # "Sending" \/ eventCode[e] # "alarm" \/ (occurred[e] <= alarmNow - SMS_RETRY_AFTER_SEC /\ e \in ToSet(batch)))

=============================================================================
