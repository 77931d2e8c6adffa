------------------------------ MODULE ModemUrc -------------------------------
(***************************************************************************)
(* drivers/quectel.rs, the MQTT client in the modem: acknowledgements and  *)
(* received messages are reported by unsolicited result codes (URCs) that  *)
(* arrive in one channel, whatever the driver is waiting for. The modem    *)
(* and the broker are external.                                            *)
(***************************************************************************)
EXTENDS Integers, Sequences, FiniteSets

CONSTANTS
  Slots,          \* slots of the modem for received messages
  QueueCap,       \* capacity of unexpected_urc_queue
  MaxMsgId,       \* message ids are u16, zero is reserved
  MaxPublishes,   \* bound on the calls of publish and subscribe
  MaxMessages,    \* bound on the messages that the broker sends
  MaxUrcFaults    \* bound on commands that fail, timeouts and duplicates

ASSUME UrcAssumption ==
  /\ Slots \in SUBSET Nat /\ IsFiniteSet(Slots)
  /\ QueueCap \in Nat /\ Cardinality(Slots) <= QueueCap
  /\ MaxMsgId \in Nat /\ MaxPublishes \in Nat /\ MaxMessages \in Nat /\ MaxUrcFaults \in Nat

VARIABLES
  next_tx_msg_id,
  chan,           \* URC_CHANNEL
  queue,          \* unexpected_urc_queue
  urc,            \* the URC that await_response has found
  mpc,            \* "idle" or "await"
  call,           \* the call in progress: variant, id, number
  results,        \* history: calls that returned Ok
  outstanding,    \* calls that the broker has not answered for good
  acked,          \* history: calls that the broker acknowledged
  slot,           \* messages in the slots of the modem, 0 if free
  handled,        \* history: messages that were handed on, in order
  arrived,        \* history: number of messages that were stored in a slot
  foreign,        \* history: another URC was queued, or a message could not be read
  calls, ufaults

driver == <<next_tx_msg_id, mpc, call, calls>>
urcs == <<chan, queue, urc>>
broker == <<outstanding, acked>>
messages == <<slot, handled, arrived>>
urcVars == <<driver, urcs, broker, messages, results, foreign, ufaults>>

NoUrc == [kind |-> "none", id |-> 0, result |-> "none"]
NoCall == [kind |-> "none", id |-> 0, n |-> 0]

UrcInit ==
  /\ next_tx_msg_id = 0
  /\ chan = << >> /\ queue = << >> /\ urc = NoUrc
  /\ mpc = "idle" /\ call = NoCall /\ results = {}
  /\ outstanding = {} /\ acked = {}
  /\ slot = [s \in Slots |-> 0] /\ handled = << >> /\ arrived = 0
  /\ foreign = FALSE /\ calls = 0 /\ ufaults = 0

UrcFault(isFault) ==
  /\ isFault => ufaults < MaxUrcFaults
  /\ ufaults' = IF isFault THEN ufaults + 1 ELSE ufaults

(* tx_msg_id: wraps, and skips zero. *)
TxMsgId == IF next_tx_msg_id = MaxMsgId THEN 1 ELSE next_tx_msg_id + 1

(* publish, subscribe, unsubscribe: the command takes an id, is sent, and its *)
(* acknowledgement is awaited. No acknowledgement is as late as the ids are many: an   *)
(* id is not used again before the answers to its last use were looked at.             *)
CallBroker(kind) ==
  /\ mpc = "idle" /\ calls < MaxPublishes
  /\ \A c \in outstanding : c.id # TxMsgId
  /\ \A i \in DOMAIN chan : chan[i].kind # "receive" => chan[i].id # TxMsgId
  /\ calls' = calls + 1
  /\ next_tx_msg_id' = TxMsgId
  /\ \E fails \in BOOLEAN :
       /\ UrcFault(fails)
       /\ IF fails THEN UNCHANGED <<mpc, call, outstanding>>
          ELSE /\ mpc' = "await"
               /\ call' = [kind |-> kind, id |-> TxMsgId, n |-> calls + 1]
               /\ outstanding' = outstanding \cup {call'}
  /\ UNCHANGED <<urcs, acked, messages, results, foreign>>

(* The broker acknowledges, refuses, or the modem transmits again. *)
Answer(c, result) ==
  /\ c \in outstanding
  /\ \/ /\ result = "Success" /\ acked' = acked \cup {c.n}
        /\ \/ outstanding' = outstanding \ {c} /\ UNCHANGED ufaults
           \/ UrcFault(TRUE) /\ UNCHANGED outstanding
     \/ /\ result = "Failed" /\ outstanding' = outstanding \ {c} /\ UNCHANGED <<acked, ufaults>>
     \/ /\ result = "Retransmission" /\ UrcFault(TRUE) /\ UNCHANGED <<acked, outstanding>>
  /\ chan' = Append(chan, [kind |-> c.kind, result |-> result,
                           id |-> IF result = "Retransmission" THEN 0 ELSE c.id])
  /\ UNCHANGED <<driver, queue, urc, messages, results, foreign>>

(* A message is stored in a free slot and announced. *)
Arrive ==
  /\ arrived < MaxMessages
  /\ arrived' = arrived + 1
  /\ \E s \in Slots :
       /\ slot[s] = 0 /\ \A r \in Slots : slot[r] = 0 => s <= r
       /\ slot' = [slot EXCEPT ![s] = arrived + 1]
       /\ chan' = Append(chan, [kind |-> "receive", id |-> s, result |-> "none"])
  /\ UNCHANGED <<driver, queue, urc, broker, handled, results, foreign, ufaults>>

(* Mutant: the queue of heapless holds one less than its length says. *)
UnexpectedUrcShort(u) ==
  /\ queue' = IF Len(queue) < QueueCap - 1 THEN Append(queue, u) ELSE queue
  /\ foreign' = (foreign \/ u.kind # "receive")

(* unexpected_urc: a full queue drops it. *)
UnexpectedUrc(u) ==
  /\ queue' = IF Len(queue) < QueueCap THEN Append(queue, u) ELSE queue
  /\ foreign' = (foreign \/ u.kind # "receive")

Matches(u) == u.kind = call.kind /\ u.id = call.id

(* Mutant: any acknowledgement of the right kind will do. *)
AwaitAckedAny ==
  /\ mpc = "await" /\ chan # << >>
  /\ chan' = Tail(chan)
  /\ \E u \in {Head(chan)} :
       IF u.kind # call.kind THEN UnexpectedUrc(u) /\ UNCHANGED <<mpc, call, results>>
       ELSE /\ mpc' = "idle" /\ call' = NoCall /\ UNCHANGED <<queue, foreign>>
            /\ results' = IF u.result = "Success" THEN results \cup {call.n} ELSE results
  /\ UNCHANGED <<next_tx_msg_id, calls, urc, broker, messages, ufaults>>

(* await_acked_with_timeout: other URCs are set aside, acknowledgements with another *)
(* id are ignored.                                                                   *)
AwaitAcked ==
  /\ mpc = "await" /\ chan # << >>
  /\ chan' = Tail(chan)
  /\ \E u \in {Head(chan)} :
       \/ /\ u.kind # call.kind /\ UnexpectedUrc(u)
          /\ UNCHANGED <<mpc, call, results>>
       \/ /\ u.kind = call.kind /\ ~Matches(u)
          /\ UNCHANGED <<mpc, call, results, queue, foreign>>
       \/ /\ Matches(u) /\ mpc' = "idle" /\ call' = NoCall
          /\ results' = IF u.result = "Success" THEN results \cup {call.n} ELSE results
          /\ UNCHANGED <<queue, foreign>>
  /\ UNCHANGED <<next_tx_msg_id, calls, urc, broker, messages, ufaults>>

(* The timeout: everything that has arrived was looked at. *)
AckTimeout ==
  /\ mpc = "await" /\ chan = << >> /\ UrcFault(TRUE)
  /\ mpc' = "idle" /\ call' = NoCall
  /\ UNCHANGED <<next_tx_msg_id, calls, urcs, broker, messages, results, foreign>>

(* Mutant: what arrives now is handled before what was set aside. *)
AwaitResponseNewest ==
  /\ mpc = "idle" /\ urc = NoUrc
  /\ \/ chan # << >> /\ urc' = Head(chan) /\ chan' = Tail(chan) /\ UNCHANGED queue
     \/ chan = << >> /\ queue # << >> /\ urc' = Head(queue) /\ queue' = Tail(queue) /\ UNCHANGED chan
  /\ UNCHANGED <<driver, broker, messages, results, foreign, ufaults>>

(* await_response: what was set aside comes first. *)
AwaitResponse ==
  /\ mpc = "idle" /\ urc = NoUrc
  /\ \/ queue # << >> /\ urc' = Head(queue) /\ queue' = Tail(queue) /\ UNCHANGED chan
     \/ queue = << >> /\ chan # << >> /\ urc' = Head(chan) /\ chan' = Tail(chan) /\ UNCHANGED queue
  /\ UNCHANGED <<driver, broker, messages, results, foreign, ufaults>>

(* handle_urc: a message is read from its slot; everything else changes nothing here. *)
HandleUrc ==
  /\ mpc = "idle" /\ urc # NoUrc
  /\ urc' = NoUrc
  /\ \/ /\ urc.kind = "receive"
        /\ handled' = Append(handled, slot[urc.id])
        /\ slot' = [slot EXCEPT ![urc.id] = 0]
        /\ UNCHANGED <<foreign, ufaults>>
     \/ /\ urc.kind = "receive" /\ UrcFault(TRUE) /\ foreign' = TRUE
        /\ UNCHANGED <<handled, slot>>
     \/ /\ urc.kind # "receive" /\ UNCHANGED <<handled, slot, foreign, ufaults>>
  /\ UNCHANGED <<driver, chan, queue, broker, arrived, results>>

UrcNext ==
  \/ \E kind \in {"publish", "subscribe"} : CallBroker(kind)
  \/ \E c \in outstanding, result \in {"Success", "Failed", "Retransmission"} : Answer(c, result)
  \/ Arrive \/ AwaitAcked \/ AckTimeout \/ AwaitResponse \/ HandleUrc

UrcSpec == UrcInit /\ [][UrcNext]_urcVars

-----------------------------------------------------------------------------

(* await_acked_with_timeout: a call returns Ok only when the broker has acknowledged *)
(* that call, whatever late or repeated acknowledgements of earlier calls come in.   *)
OkIsAcked == results \subseteq acked

Announced(s) ==
  LET known == {chan[i] : i \in DOMAIN chan} \cup {queue[i] : i \in DOMAIN queue} \cup {urc}
  IN  \E u \in known : u.kind = "receive" /\ u.id = s

(* URC_QUEUE_LEN, "EC2x and EG915N have 5 slots (0-4) for receiving mqtt messages": as *)
(* long as only messages are set aside, the queue holds them all, and every message in *)
(* a slot of the modem is still going to be read.                                      *)
EveryMessageAnnounced == foreign \/ \A s \in Slots : slot[s] # 0 => Announced(s)

(* Messages are handed on in the order of their arrival, also those that arrived while *)
(* an acknowledgement was awaited.                                                     *)
MessagesInOrder == \A i, j \in DOMAIN handled : i < j => handled[i] < handled[j]

(* quectel.rs, the answers that come unasked: a publish that returns Ok was acknowledged, what *)
(* the server sends is read in its order, and nothing in the modem waits unannounced.          *)
UrcsAreHandled == OkIsAcked /\ MessagesInOrder /\ EveryMessageAnnounced

=============================================================================
