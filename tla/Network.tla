------------------------------ MODULE Network -------------------------------
(***************************************************************************)
(* The network task: it connects, serves uploads, requests of the other     *)
(* tasks and messages from the server until the connection ends, and        *)
(* reconnects with a growing delay until it was offline for too long. Time  *)
(* is in seconds and passes only while the task is offline. The protocol    *)
(* client that it drives connects with its subscriptions and downloads a    *)
(* firmware file chunk by chunk; the driver below the client is external,   *)
(* and each of its calls may fail.                                          *)
(***************************************************************************)
EXTENDS Integers, Sequences, FiniteSets

CONSTANTS FileLen,         \* chunks of the firmware file
          Bad,             \* items whose topic cannot be serialized
          Requests,        \* the network actions that other tasks request
          Items,           \* what other tasks hand over for upload
          Messages,        \* what the server sends, as events of the client
          MIN_RETRY_DELAY_SEC, RETRY_TIMEOUT_SEC, NETWORK_CONNECTING_TIMEOUT_SEC,
          ConnectSecs,     \* how long an attempt to connect takes
          MaxBreaks        \* bound: failures of the connection

ASSUME DelayAssumption ==
  /\ MIN_RETRY_DELAY_SEC \in Nat /\ RETRY_TIMEOUT_SEC \in Nat
  /\ MIN_RETRY_DELAY_SEC <= RETRY_TIMEOUT_SEC
  /\ NETWORK_CONNECTING_TIMEOUT_SEC \in Nat
  /\ ConnectSecs \subseteq 0..NETWORK_CONNECTING_TIMEOUT_SEC

VARIABLES subs,            \* topics subscribed to in the open session
          fwState,         \* Client::state: "Normal" or "FirmwareUpdate"
          updateUrl,       \* an update was announced
          updateSeqNum,
          fileAt,          \* external: the next chunk of the file in the modem
          \* history: the chunks given to the orchestrator since the last start
          chunks

VARIABLES npc,             \* where network_task is
          reason,          \* disconnect_reason
          pendingUpload,   \* State::pending_upload, empty or one item
          disconnectPending,
          actions,         \* requests that wait in the action list
          offline,         \* seconds since offline_since, Online if None
          nextRetry,       \* next_retry_sec
          upq, conf,       \* the upload channel, the confirm channels
          \* history
          signal,          \* the last signal about the connection
          delivered,       \* items that the server has got
          breaks

nvars == <<npc, reason, pendingUpload, disconnectPending, actions, offline, nextRetry, signal,
           delivered, breaks>>
cvars == <<subs, fwState, updateUrl, updateSeqNum, fileAt, chunks>>
download == <<fwState, updateSeqNum, fileAt, chunks>>

Online == -1
NETWORK_DISCONNECTED_TIMEOUT == RETRY_TIMEOUT_SEC + NETWORK_CONNECTING_TIMEOUT_SEC

(* A fault of the connection: the bound on them is used up. *)
Break == breaks < MaxBreaks /\ breaks' = breaks + 1

ClientInit ==
  /\ subs = {}
  /\ fwState = "Normal" /\ updateUrl = FALSE
  /\ updateSeqNum = 0 /\ fileAt = 0 /\ chunks = <<>>

NetworkInit ==
  /\ npc = "connect" /\ reason = "none"
  /\ pendingUpload = <<>> /\ disconnectPending = FALSE /\ actions = {}
  /\ offline = 0 /\ nextRetry = MIN_RETRY_DELAY_SEC
  /\ signal = "none" /\ delivered = {} /\ breaks = 0
  /\ ClientInit

task == <<pendingUpload, actions, nextRetry, delivered, upq, conf>>

-----------------------------------------------------------------------------
(* The client.                                                              *)

(* The steps of connect: the session with its will, a subscription per topic *)
(* and the Online message.                                                   *)
Steps == <<"connect", "serverstatus", "command", "time", "fwupdate", "online">>
Topics == {"command", "time", "fwupdate"}

(* Mutant: only the first and the last step are checked. *)
ConnectUnchecked(failing) ==
  LET stop == {n \in DOMAIN Steps : Steps[n] \in failing \cap {"connect", "online"}}
      done == {n \in DOMAIN Steps : \A m \in stop : n < m}
  IN  [ok |-> stop = {},
       subs |-> {Steps[n] : n \in done} \cap (Topics \ failing)]

(* connect: the first step that fails ends it, but for the status of the server. *)
ConnectResult(failing) ==
  LET stop == {n \in DOMAIN Steps : Steps[n] \in failing \ {"serverstatus"}}
      done == {n \in DOMAIN Steps : \A m \in stop : n < m}
  IN  [ok |-> stop = {},
       subs |-> {Steps[n] : n \in done} \cap (Topics \ failing)]

(* disconnect: publish Offline, ignoring the result, and close the session. The *)
(* state of a download is kept.                                                 *)
Disconnect == subs' = {} /\ UNCHANGED <<download, updateUrl>>

(* download_firmware_update: the download starts, or fails. (An error of the *)
(* connection while the failure is reported changes nothing here.)           *)
DownloadStart ==
  \/ /\ updateUrl
     /\ fwState' = "FirmwareUpdate" /\ updateSeqNum' = 0
     /\ fileAt' = 0 /\ chunks' = <<>>
     /\ UNCHANGED <<subs, updateUrl>>
  \/ UNCHANGED cvars

EndDownload == fwState' = "Normal" /\ UNCHANGED <<updateSeqNum, fileAt, chunks>>

(* Mutant: a chunk that cannot be decoded is skipped. *)
SkipChunk ==
  /\ fileAt' = fileAt + 1
  /\ UNCHANGED <<fwState, updateSeqNum, chunks>>

(* A chunk that cannot be decoded ends the download. *)
DecodeFails == EndDownload

(* handle_update_state: the event of one read of the file. *)
HandleUpdateState(event) ==
  /\ fwState = "FirmwareUpdate"
  /\ \/ /\ event = "FWChunkReceived" /\ fileAt < FileLen
        /\ fileAt' = fileAt + 1
        /\ updateSeqNum' = updateSeqNum + 1
        /\ chunks' = Append(chunks, [seq |-> updateSeqNum, part |-> fileAt])
        /\ UNCHANGED fwState
     \/ event = "FWDownloadFailed" /\ fileAt < FileLen /\ DecodeFails
     \/ event = "FWDownloadFailed" /\ EndDownload
     \/ event = "FWDownloadComplete" /\ fileAt = FileLen /\ EndDownload
  /\ UNCHANGED <<subs, updateUrl>>

(* handle_normal_state: a message on a topic. Messages that cannot be parsed    *)
(* give no event; that the session is gone is the business of the network task. *)
HandleNormalState(event) ==
  /\ fwState = "Normal"
  /\ \/ event \in {"CommandReceived", "TimestampReceived", "none"} /\ UNCHANGED updateUrl
     \/ event = "FirmwareUpdateAnnounced" /\ updateUrl' = TRUE
  /\ UNCHANGED <<subs, download>>

(* handle_response *)
HandleResponse(event) == HandleUpdateState(event) \/ HandleNormalState(event)

-----------------------------------------------------------------------------
(* Connecting.                                                              *)

Elapse(d) == offline' = offline + d

Connect ==
  /\ npc = "connect"
  /\ LET res == ConnectResult({})
     IN  npc' = "serve" /\ subs' = res.subs
  /\ offline' = Online
  /\ disconnectPending' = FALSE
  /\ signal' = "Connected" /\ reason' = "none"
  /\ UNCHANGED <<breaks, task, download, updateUrl>>

(* A step fails: connected all the same if it was the optional one, else the *)
(* task disconnects to reset the client.                                     *)
ConnectFails ==
  /\ npc = "connect"
  /\ Break
  /\ \E failing \in {{Steps[n]} : n \in DOMAIN Steps}, d \in ConnectSecs :
       LET res == ConnectResult(failing)
       IN  IF res.ok
             THEN /\ npc' = "serve" /\ subs' = res.subs /\ offline' = Online
                  /\ disconnectPending' = FALSE /\ signal' = "Connected" /\ reason' = "none"
                  /\ UNCHANGED <<download, updateUrl>>
             ELSE /\ npc' = "decide" /\ reason' = "NotConnected"
                  /\ Elapse(d)
                  /\ Disconnect
                  /\ UNCHANGED <<disconnectPending, signal>>
  /\ UNCHANGED task

ConnectTimeout ==
  /\ npc = "connect"
  /\ Break
  /\ npc' = "decide" /\ reason' = "Fatal"
  /\ Elapse(NETWORK_CONNECTING_TIMEOUT_SEC)
  /\ Disconnect
  /\ UNCHANGED <<disconnectPending, signal, task>>

-----------------------------------------------------------------------------
(* handle_connection: one round of its loop.                                *)

(* handle_connection ends, and the client disconnects. *)
Leave(r) == npc' = "decide" /\ reason' = r /\ Disconnect

(* The select: the client has the highest priority, and is always ready during *)
(* a download.                                                                 *)
Selecting == npc = "serve" /\ pendingUpload = <<>> /\ ~ disconnectPending
ClientFirst == fwState = "Normal"

(* Op::Read *)
OpRead ==
  /\ Selecting
  /\ \E event \in Messages : HandleResponse(event)
  /\ UNCHANGED <<nvars, upq, conf>>

ReadDisconnected ==
  /\ Selecting
  /\ Break
  /\ fwState = "Normal"
  /\ Leave("Unexpected")
  /\ UNCHANGED <<disconnectPending, offline, signal, task>>

(* await_response times out: Op::Stop. *)
Stop ==
  /\ Selecting /\ ClientFirst
  /\ Leave("Success")
  /\ UNCHANGED <<disconnectPending, offline, signal, breaks, task>>

ReceiveUpload ==
  /\ Selecting /\ ClientFirst /\ actions = {}
  /\ upq # <<>>
  /\ pendingUpload' = <<Head(upq)>>
  /\ upq' = Tail(upq)
  /\ npc' = "upload"
  /\ UNCHANGED <<reason, disconnectPending, actions, offline, nextRetry, conf, signal, delivered,
                 breaks, cvars>>

(* An upload that failed is chosen again when no action waits. *)
RetryUpload ==
  /\ npc = "serve" /\ pendingUpload # <<>> /\ actions = {}
  /\ npc' = "upload"
  /\ UNCHANGED <<reason, disconnectPending, offline, signal, breaks, task, cvars>>

(* An action is taken at any time but when the client goes first. *)
ActionTaken(a) ==
  /\ npc = "serve" /\ a \in actions
  /\ Selecting => ClientFirst
  /\ actions' = actions \ {a}

DisconnectHint ==
  /\ ActionTaken("Disconnect")
  /\ disconnectPending' = TRUE
  /\ UNCHANGED <<npc, reason, pendingUpload, offline, nextRetry, upq, conf, signal, delivered,
                 breaks, cvars>>

(* SendDeviceInfo, SendStatus: an error of the connection ends the round. *)
SendInfo ==
  /\ \E a \in {"SendDeviceInfo", "SendStatus"} : ActionTaken(a)
  /\ \/ UNCHANGED <<npc, reason, breaks, cvars>>
     \/ Break /\ Leave("Error")
  /\ UNCHANGED <<pendingUpload, disconnectPending, offline, nextRetry, upq, conf, signal,
                 delivered>>

(* SetTimeout changes how long the select waits: Stop may come at any time. *)
SetTimeout ==
  /\ ActionTaken("SetTimeout")
  /\ UNCHANGED <<npc, reason, pendingUpload, disconnectPending, offline, nextRetry, upq, conf,
                 signal, delivered, breaks, cvars>>

DownloadUpdate ==
  /\ ActionTaken("DownloadUpdate")
  /\ \/ DownloadStart /\ UNCHANGED <<npc, reason, breaks>>
     \/ updateUrl /\ Break /\ Leave("Error")
  /\ UNCHANGED <<pendingUpload, disconnectPending, offline, nextRetry, upq, conf, signal,
                 delivered>>

(* The hint: nothing is left to do. The upload channel is not drained. *)
Drained ==
  /\ npc = "serve" /\ disconnectPending /\ pendingUpload = <<>> /\ actions = {}
  /\ Leave("Success")
  /\ UNCHANGED <<disconnectPending, offline, signal, breaks, task>>

(* Op::Upload succeeds: the upload is confirmed. *)
UploadOk(answered) ==
  /\ npc = "upload"
  /\ Head(pendingUpload).item \notin Bad
  /\ delivered' = delivered \cup {Head(pendingUpload).item}
  /\ conf' = answered
  /\ pendingUpload' = <<>>
  /\ npc' = "serve"
  /\ UNCHANGED <<reason, disconnectPending, actions, offline, nextRetry, upq, signal, breaks,
                 cvars>>

(* The connection breaks during an upload: the server may have got it. *)
UploadFails ==
  /\ npc = "upload"
  /\ Head(pendingUpload).item \notin Bad
  /\ Break
  /\ delivered' \in {delivered, delivered \cup {Head(pendingUpload).item}}
  /\ Leave("Error")
  /\ UNCHANGED <<pendingUpload, disconnectPending, actions, offline, nextRetry, upq, conf,
                 signal>>

(* Error::Serialize and Error::SerializeTopic: the connection is kept, and so *)
(* is the upload.                                                             *)
UploadUnserializable ==
  /\ npc = "upload"
  /\ Head(pendingUpload).item \in Bad
  /\ npc' = "serve"
  /\ UNCHANGED <<reason, disconnectPending, offline, signal, breaks, task, cvars>>

-----------------------------------------------------------------------------
(* After the connection.                                                    *)

(* Mutant: only the time that has passed counts, not the delay to come. *)
WillRetryElapsed == offline = Online \/ offline <= RETRY_TIMEOUT_SEC

WillRetry == offline = Online \/ offline + nextRetry <= RETRY_TIMEOUT_SEC

(* The task returns, dropping the upload that was pending: dropped holds the *)
(* confirm channels after that.                                              *)
ReturnTask(dropped) ==
  /\ npc' = "ended"
  /\ pendingUpload' = <<>>
  /\ conf' = dropped

Decide(dropped) ==
  /\ npc = "decide"
  /\ offline' = IF offline = Online THEN 0 ELSE offline
  /\ \/ /\ reason = "Success"
        /\ signal' = "Final"
        /\ ReturnTask(dropped)
     \/ /\ reason = "Fatal"
        /\ signal' = "Final"
        /\ ReturnTask(dropped)
     \/ /\ reason \in {"NotConnected", "Error", "Unexpected"}
        /\ signal' = CASE reason = "NotConnected" -> "ConnectFailed"
                       [] reason # "NotConnected" /\ WillRetry -> "Retry"
                       [] OTHER -> "Final"
        /\ IF WillRetry THEN npc' = "delay" /\ UNCHANGED <<pendingUpload, conf>>
                        ELSE ReturnTask(dropped)
  /\ UNCHANGED <<reason, disconnectPending, actions, nextRetry, upq, delivered, breaks, cvars>>

Delay ==
  /\ npc = "delay"
  /\ npc' = "connect"
  /\ Elapse(nextRetry)
  /\ nextRetry' = IF 2 * nextRetry > RETRY_TIMEOUT_SEC THEN RETRY_TIMEOUT_SEC ELSE 2 * nextRetry
  /\ UNCHANGED <<reason, disconnectPending, pendingUpload, actions, delivered, upq, conf, signal,
                 breaks, cvars>>

-----------------------------------------------------------------------------
(* The rest of the firmware.                                                *)

RequestAction(a) ==
  /\ a \in Requests \ actions
  /\ actions' = actions \cup {a}
  /\ UNCHANGED <<npc, reason, pendingUpload, disconnectPending, offline, nextRetry, upq, conf,
                 signal, delivered, breaks, cvars>>

(* Another task hands an upload over. *)
OfferUpload(u) ==
  /\ upq = <<>> /\ upq' = <<u>>
  /\ UNCHANGED <<npc, reason, pendingUpload, disconnectPending, actions, offline, nextRetry, conf,
                 signal, delivered, breaks, cvars>>

(* The orchestrator starts the task again. *)
StartTask ==
  /\ npc = "ended"
  /\ npc' = "connect" /\ reason' = "none"
  /\ offline' = 0 /\ nextRetry' = MIN_RETRY_DELAY_SEC
  /\ UNCHANGED <<pendingUpload, disconnectPending, actions, upq, conf, signal, delivered, breaks,
                 cvars>>

NetworkStep(answered, dropped) ==
  \/ Connect \/ ConnectFails \/ ConnectTimeout
  \/ OpRead \/ ReadDisconnected \/ Stop \/ ReceiveUpload \/ RetryUpload
  \/ DisconnectHint \/ SendInfo \/ SetTimeout \/ DownloadUpdate \/ Drained
  \/ UploadOk(answered) \/ UploadFails \/ UploadUnserializable
  \/ Decide(dropped) \/ Delay

(* The network task with the tasks that use it; the confirm channels are left out. *)
NetworkNext ==
  \/ NetworkStep(conf, conf) \/ StartTask
  \/ \E a \in Requests : RequestAction(a)
  \/ \E i \in Items : OfferUpload([item |-> i])

networkVars == <<nvars, cvars, upq, conf>>

NetworkAlone == NetworkInit /\ upq = <<>> /\ conf = <<>>

NetworkSpec == NetworkAlone /\ [][NetworkNext]_networkVars

-----------------------------------------------------------------------------
(* The server is never served half: while the task serves, every topic that the firmware      *)
(* listens to is subscribed to, whichever step of whichever attempt to connect failed before. *)
ServesSubscribed == npc \in {"serve", "upload"} => Topics \subseteq subs

(* The orchestrator gets the chunks of one file from its start, in order and without a gap,   *)
(* though the file is read across reconnects, failed starts and chunks that do not decode.    *)
DownloadInOrder == \A n \in DOMAIN chunks : chunks[n] = [seq |-> n - 1, part |-> n - 1]

(* NETWORK_DISCONNECTED_TIMEOUT bounds how long the task tries: the other tasks take a device *)
(* that is offline for longer than that to be disconnected for good.                          *)
OfflineBounded == npc # "ended" => offline <= NETWORK_DISCONNECTED_TIMEOUT

(* network.rs: every topic is subscribed to while the task serves, the chunks of a download   *)
(* arrive in order, and the task gives up before the others take it for disconnected.         *)
NetworkIsSafe == ServesSubscribed /\ DownloadInOrder /\ OfflineBounded

=============================================================================
