--------------------------- MODULE SessionChannel ----------------------------
(***************************************************************************)
(* sync/session_channel.rs: a data channel that is used in sessions. The   *)
(* receiver starts and finishes a session and tells the sender so through  *)
(* a channel that keeps only the latest value; the sender ends a session   *)
(* with an End marker in the data.                                         *)
(*                                                                         *)
(* The sender keeps to the recommended use: it waits for the start, sends, *)
(* and finishes. After a Restarted it goes on with the session that it has *)
(* heard of. Data carries the session that the sender meant it for.        *)
(***************************************************************************)
EXTENDS Integers, Sequences

CONSTANTS Cap,           \* capacity of the data channel
          MaxSessions,   \* bound: sessions that are started
          MaxSend        \* bound: items and resets in a session

VARIABLES data,          \* the data channel
          life, changed, \* the latest SessionState, and has the sender not seen it?
          spc, sstate,   \* the sender: what it does, SessionSender::state
          sent,          \* items sent in its session
          rpc, activeId, shouldFinish, nextId,   \* the receiver
          received,           \* history: what the receiver has taken in this session
          early, lost    \* history: the receiver has dropped a session before its End;
                         \* something that was sent was thrown away

sessionVars == <<data, life, changed, spc, sstate, sent, rpc, activeId, shouldFinish, nextId, received,
                 early, lost>>
sender == <<spc, sstate, sent>>
receiver == <<rpc, activeId, shouldFinish, nextId, received, early, lost>>

Started(n) == [st |-> "Started", id |-> n]
Finished(n) == [st |-> "Finished", id |-> n]
Msg(k) == [kind |-> k, session |-> sstate.id]

(* LatestValueSendChannel::send, and recv of a new value. *)
Announce(s) == life' = s /\ changed' = TRUE
Hear == changed /\ sstate' = life /\ changed' = FALSE /\ UNCHANGED life

SessionInit ==
  /\ data = <<>> /\ life = Finished(0) /\ changed = FALSE
  /\ spc = "wait" /\ sstate = Finished(0) /\ sent = 0
  /\ rpc = "idle" /\ activeId = -1 /\ shouldFinish = FALSE /\ nextId = 0
  /\ received = <<>> /\ early = FALSE /\ lost = FALSE

-----------------------------------------------------------------------------
(* SessionSender.                                                           *)

(* Mutant: any news of the receiver is taken for the start. *)
WaitStartedAny ==
  /\ spc = "wait"
  /\ Hear
  /\ spc' = "send"
  /\ sent' = 0
  /\ UNCHANGED <<data, receiver>>

WaitStarted ==
  /\ spc = "wait"
  /\ Hear
  /\ spc' = IF life.st = "Started" THEN "send" ELSE "wait"
  /\ sent' = 0
  /\ UNCHANGED <<data, receiver>>

(* send, try_send, send_reset: wait for room, or fail without an effect. *)
Send ==
  /\ spc = "send" /\ sent < MaxSend /\ Len(data) < Cap
  /\ \E k \in {"Data", "Reset"} : data' = Append(data, Msg(k))
  /\ sent' = sent + 1
  /\ UNCHANGED <<spc, sstate, life, changed, receiver>>

(* finish_and_wait sends the End ... *)
Finish ==
  /\ spc = "send" /\ Len(data) < Cap
  /\ data' = Append(data, Msg("End"))
  /\ spc' = IF sstate.st = "Finished" THEN "Ok" ELSE "finish"
  /\ UNCHANGED <<sstate, sent, life, changed, receiver>>

(* Mutant: any answer will do. *)
FinishedOfAny(s) == "Ok"

(* The result of finish_and_wait: the receiver has finished this session, another *)
(* one, or has started anew.                                                      *)
FinishedOf(s) ==
  CASE s.st = "Started" -> "Restarted"
    [] s.st = "Finished" /\ s.id = sstate.id -> "Ok"
    [] OTHER -> "OutOfSync"

(* ... and waits for the answer. *)
FinishWait ==
  /\ spc = "finish"
  /\ Hear
  /\ spc' = FinishedOf(life)
  /\ UNCHANGED <<data, sent, receiver>>

(* The sender starts over. *)
NextSession ==
  /\ spc \in {"Ok", "OutOfSync", "Restarted"}
  /\ spc' = IF spc = "Restarted" THEN "send" ELSE "wait"
  /\ sent' = 0
  /\ UNCHANGED <<sstate, data, life, changed, receiver>>

-----------------------------------------------------------------------------
(* SessionReceiver and SessionActive.                                       *)

Start ==
  /\ rpc = "idle" /\ nextId < MaxSessions
  /\ Announce(Started(nextId))
  /\ activeId' = nextId /\ nextId' = nextId + 1
  /\ shouldFinish' = FALSE /\ rpc' = "active" /\ received' = <<>>
  /\ UNCHANGED <<data, early, lost, sender>>

(* recv, try_recv, flush_until_finish: nothing more is taken after the End. *)
RecvItem ==
  /\ rpc = "active" /\ ~ shouldFinish /\ data # <<>>
  /\ received' = Append(received, Head(data)) /\ data' = Tail(data)
  /\ shouldFinish' = (Head(data).kind = "End")
  /\ UNCHANGED <<life, changed, rpc, activeId, nextId, early, lost, sender>>

(* _inner_finish: the channel is emptied, one item after the other ... *)
Empty ==
  /\ rpc \in {"finish", "drop"} /\ data # <<>>
  /\ data' = Tail(data) /\ lost' = TRUE
  /\ UNCHANGED <<life, changed, rpc, activeId, shouldFinish, nextId, received, early, sender>>

(* Mutant: the sender is not told. *)
InnerFinishSilent ==
  /\ rpc \in {"finish", "drop"} /\ data = <<>>
  /\ rpc' = IF rpc = "finish" THEN "drop" ELSE "idle"
  /\ activeId' = IF rpc = "finish" THEN activeId ELSE -1
  /\ UNCHANGED <<data, life, changed, shouldFinish, nextId, received, early, lost, sender>>

(* ... and the sender is told. finish runs it, and then the drop once more. *)
InnerFinish ==
  /\ rpc \in {"finish", "drop"} /\ data = <<>>
  /\ Announce(Finished(activeId))
  /\ rpc' = IF rpc = "finish" THEN "drop" ELSE "idle"
  /\ activeId' = IF rpc = "finish" THEN activeId ELSE -1
  /\ UNCHANGED <<data, shouldFinish, nextId, received, early, lost, sender>>

FinishActive ==
  /\ rpc = "active"
  /\ rpc' \in {"finish", "drop"}
  /\ early' = (early \/ ~ shouldFinish)
  /\ UNCHANGED <<data, life, changed, activeId, shouldFinish, nextId, received, lost, sender>>

SessionSenderStep == WaitStarted \/ Send \/ Finish \/ FinishWait \/ NextSession
SessionReceiverStep == Start \/ RecvItem \/ Empty \/ InnerFinish \/ FinishActive
SessionNext == SessionSenderStep \/ SessionReceiverStep

SessionSpec == SessionInit /\ [][SessionNext]_sessionVars

-----------------------------------------------------------------------------

(* "When the ReceiveChannel returns FiniteStream::End, the session is finished and  *)
(* should be dropped": as long as the receiver does so, the data of two sessions    *)
(* never mixes and none is thrown away, although the answers of the receiver        *)
(* overwrite each other and finish answers twice.                                   *)
SessionsApart ==
  ~ early => /\ ~ lost
             /\ \A n \in DOMAIN received : received[n].session = nextId - 1

(* finish_and_wait: Ok means that the receiver is done with the session. *)
OkMeansFinished == spc = "Ok" => activeId # sstate.id \/ rpc = "drop"

(* What both ends rely on. *)
SessionsAreApart == SessionsApart /\ OkMeansFinished

(* Again and again (liveness): a session that is ended is answered, whatever the *)
(* receiver starts next.                                                         *)
FinishReturned == spc # "finish"

=============================================================================
