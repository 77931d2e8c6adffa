---------------------------- MODULE DeviceProofs ----------------------------
(***************************************************************************)
(* Parts of the device for every value of their constants: the network     *)
(* task, the modem's unsolicited result codes, the battery charger, the    *)
(* temperature driver, the SPI flash driver and the circular DMA receiver. *)
(* Each has an inductive invariant of its own.                             *)
(***************************************************************************)
EXTENDS Network, ModemUrc, Charger, Rtd, SpiFlash, DmaRing,
        FiniteSetTheorems, FunctionTheorems, SequenceTheorems, TLAPS

(* bq25672.rs: no event of the charger is slept over, the current of the battery is not       *)
(* measured while unused, and what counts as configured is.                                   *)
ChargerIsTrue == NoEventSleptOver /\ IbatOffWhenUnused /\ ConfiguredIsWhole

(* rtd.rs and ads124s08.rs: a temperature is one of the sensor that was found and of a        *)
(* connected reference, and is biased only when a call before it was cut short.               *)
RtdIsTrue == TemperatureIsOfConfig /\ NoTemperatureOfNothing /\ BiasedOnlyAfterFailure

(* What the two measuring drivers report is true: both of the above.                          *)
MeasurementsAreTrue == ChargerIsTrue /\ RtdIsTrue

(* What the drivers of the DMA ring and of the SPI flash give back is what the line and the   *)
(* chip hold: no read of the ring is torn by the DMA and the state of its channel is told     *)
(* truly, no operation of the flash changes more or less than it was asked to, and no read    *)
(* comes from a chip that sleeps or is in the wrong address mode.                             *)
TransfersAreTrue ==
  /\ [](ReadsAreWhole /\ StateMatchesChannel /\ ReadsAreClocked /\ ChangesAreExact)
  /\ [][ReadsAreReal]_flashVars

-----------------------------------------------------------------------------
(* What the operations on sequences do to places. *)

LEMMA TailFacts ==
  ASSUME NEW S, NEW s \in Seq(S), s # <<>>
  PROVE  /\ Head(s) \in S /\ Head(s) = s[1] /\ 1 \in DOMAIN s
         /\ Tail(s) \in Seq(S) /\ Len(s) \in Nat \ {0} /\ Len(Tail(s)) = Len(s) - 1
         /\ DOMAIN s = 1 .. Len(s) /\ DOMAIN Tail(s) = 1 .. Len(s) - 1
         /\ \A n \in DOMAIN Tail(s) : n + 1 \in DOMAIN s /\ n + 1 > 1 /\ Tail(s)[n] = s[n + 1]
         /\ \A n \in DOMAIN s : n = 1 \/ (n - 1 \in DOMAIN Tail(s) /\ Tail(s)[n - 1] = s[n])
<1>1. /\ Head(s) \in S /\ Head(s) = s[1] /\ Tail(s) \in Seq(S) /\ Len(s) \in Nat \ {0}
      /\ Len(Tail(s)) = Len(s) - 1 /\ DOMAIN s = 1 .. Len(s)
      /\ \A n \in 1 .. Len(s) - 1 : Tail(s)[n] = s[n + 1]
  OBVIOUS
<1>2. DOMAIN Tail(s) = 1 .. Len(s) - 1
  BY <1>1
<1>3. QED BY <1>1, <1>2

LEMMA AppendFacts ==
  ASSUME NEW S, NEW s \in Seq(S), NEW x \in S
  PROVE  /\ Append(s, x) \in Seq(S) /\ Len(s) \in Nat /\ Len(Append(s, x)) = Len(s) + 1
         /\ DOMAIN s = 1 .. Len(s) /\ DOMAIN Append(s, x) = 1 .. Len(s) + 1
         /\ Append(s, x)[Len(s) + 1] = x
         /\ \A n \in DOMAIN s : n \in DOMAIN Append(s, x) /\ n <= Len(s) /\ Append(s, x)[n] = s[n]
         /\ \A n \in DOMAIN Append(s, x) : n = Len(s) + 1 \/ n \in DOMAIN s
<1>1. /\ Append(s, x) \in Seq(S) /\ Len(s) \in Nat /\ Len(Append(s, x)) = Len(s) + 1
      /\ DOMAIN s = 1 .. Len(s) /\ Append(s, x)[Len(s) + 1] = x
      /\ \A n \in 1 .. Len(s) : Append(s, x)[n] = s[n]
  OBVIOUS
<1>2. DOMAIN Append(s, x) = 1 .. Len(s) + 1
  BY <1>1
<1>3. QED BY <1>1, <1>2

-----------------------------------------------------------------------------
(* network.rs *)

(* The inductive invariant.                                                 *)

(* The types of the connection and of the download.                                           *)
NetworkTypeOK ==
  /\ npc \in {"connect", "serve", "upload", "decide", "delay", "ended"}
  /\ offline \in Int /\ nextRetry \in Nat
  /\ updateSeqNum \in Nat /\ fileAt \in Nat
  /\ chunks \in Seq([seq : Nat, part : Nat])

(* Time offline passes in connect and in delay, and decide has looked ahead *)
(* over the delay: what is left after it is one attempt to connect.         *)
OfflineSteps ==
  /\ nextRetry <= RETRY_TIMEOUT_SEC
  /\ npc \in {"serve", "upload"} => offline = Online
  /\ npc = "connect" => offline \in 0 .. RETRY_TIMEOUT_SEC
  /\ npc = "decide" => offline \in Online .. NETWORK_DISCONNECTED_TIMEOUT
  /\ npc = "delay" => offline >= 0 /\ offline + nextRetry <= RETRY_TIMEOUT_SEC

(* A download keeps three counts of the chunks it has given out, and they   *)
(* agree: the number, the position in the file and the history.             *)
DownloadCounts ==
  fwState = "FirmwareUpdate" => updateSeqNum = Len(chunks) /\ fileAt = Len(chunks)

NetworkInv ==
  /\ NetworkTypeOK
  /\ OfflineSteps
  /\ DownloadCounts
  /\ ServesSubscribed
  /\ DownloadInOrder

-----------------------------------------------------------------------------
(* What the client does to the subscriptions and to the download.           *)

(* connect succeeds only when every step but the optional one did: all the  *)
(* topics are subscribed to, whichever step failed.                         *)
LEMMA ConnectedIsSubscribed ==
  ASSUME NEW failing, ConnectResult(failing).ok
  PROVE  Topics \subseteq ConnectResult(failing).subs
<1>1. \A n \in DOMAIN Steps : Steps[n] \notin failing \ {"serverstatus"}
  BY DEF ConnectResult
<1>2. /\ "command" \notin failing /\ "time" \notin failing /\ "fwupdate" \notin failing
      /\ \A n \in DOMAIN Steps : Steps[n] \notin failing \ {"serverstatus"}
  BY <1>1 DEF Steps
<1>3. {"command", "time", "fwupdate"} \subseteq {Steps[n] : n \in DOMAIN Steps}
  BY DEF Steps
<1>4. QED
  BY <1>2, <1>3 DEF ConnectResult, Topics

(* Giving out one more chunk keeps the chunks in order and the counts equal. *)
LEMMA OneMoreChunk ==
  ASSUME NetworkTypeOK, DownloadCounts, DownloadInOrder, fwState = "FirmwareUpdate",
         chunks' = Append(chunks, [seq |-> updateSeqNum, part |-> fileAt]),
         fileAt' = fileAt + 1, updateSeqNum' = updateSeqNum + 1
  PROVE  /\ chunks' \in Seq([seq : Nat, part : Nat])
         /\ updateSeqNum' = Len(chunks') /\ fileAt' = Len(chunks')
         /\ updateSeqNum' \in Nat /\ fileAt' \in Nat
         /\ DownloadInOrder'
<1> DEFINE c == [seq |-> updateSeqNum, part |-> fileAt]
<1>1. chunks \in Seq([seq : Nat, part : Nat]) /\ c \in [seq : Nat, part : Nat]
  BY DEF NetworkTypeOK
<1>2. updateSeqNum = Len(chunks) /\ fileAt = Len(chunks) /\ Len(chunks) \in Nat
  BY <1>1 DEF DownloadCounts
<1>3. /\ chunks' \in Seq([seq : Nat, part : Nat]) /\ Len(chunks') = Len(chunks) + 1
      /\ \A n \in 1 .. Len(chunks) : chunks'[n] = chunks[n]
      /\ chunks'[Len(chunks) + 1] = c
  BY <1>1
<1>4. \A n \in DOMAIN chunks' : chunks'[n] = [seq |-> n - 1, part |-> n - 1]
  <2> TAKE n \in DOMAIN chunks'
  <2>1. n \in 1 .. Len(chunks) + 1
    BY <1>3
  <2>2. CASE n \in 1 .. Len(chunks)
    BY SMTT(30), <2>2, <1>1, <1>3 DEF DownloadInOrder
  <2>3. CASE n = Len(chunks) + 1
    BY <2>3, <1>2, <1>3
  <2>4. QED
    BY <2>1, <2>2, <2>3, <1>2
<1>5. QED
  BY <1>2, <1>3, <1>4 DEF DownloadInOrder

(* The part of the invariant that is about the download. *)
DownloadInv ==
  /\ updateSeqNum \in Nat /\ fileAt \in Nat
  /\ chunks \in Seq([seq : Nat, part : Nat])
  /\ DownloadCounts
  /\ DownloadInOrder

(* A download that is left alone, started or ended stays in order. *)
LEMMA DownloadKept ==
  ASSUME NetworkInv
  PROVE  /\ UNCHANGED download => DownloadInv'
         /\ EndDownload => DownloadInv'
         /\ DownloadStart => DownloadInv' /\ subs' = subs
         /\ Disconnect => DownloadInv'
<1>1. DownloadInv
  BY DEF NetworkInv, NetworkTypeOK, DownloadInv
<1>2. UNCHANGED download => DownloadInv'
  BY <1>1 DEF DownloadInv, download, DownloadCounts, DownloadInOrder
<1>3. EndDownload => DownloadInv'
  BY <1>1 DEF DownloadInv, EndDownload, DownloadCounts, DownloadInOrder
<1>4. DownloadStart => DownloadInv' /\ subs' = subs
  <2>1. CASE UNCHANGED cvars
    BY <2>1, <1>2 DEF cvars, download
  <2>2. CASE chunks' = <<>> /\ updateSeqNum' = 0 /\ fileAt' = 0 /\ subs' = subs
    BY <2>2 DEF DownloadInv, DownloadCounts, DownloadInOrder
  <2>3. QED
    BY <2>1, <2>2 DEF DownloadStart
<1>5. QED
  BY <1>2, <1>3, <1>4 DEF Disconnect

(* handle_response keeps the subscriptions and the download in order. *)
LEMMA ResponseKept ==
  ASSUME NetworkInv, NEW event, HandleResponse(event)
  PROVE  DownloadInv' /\ subs' = subs
<1>1. CASE HandleNormalState(event)
  BY <1>1, DownloadKept DEF HandleNormalState
<1>2. CASE HandleUpdateState(event)
  <2>1. subs' = subs /\ fwState = "FirmwareUpdate"
    BY <1>2 DEF HandleUpdateState
  <2>2. CASE EndDownload
    BY <2>1, <2>2, DownloadKept
  <2>3. CASE /\ fileAt' = fileAt + 1 /\ updateSeqNum' = updateSeqNum + 1
             /\ chunks' = Append(chunks, [seq |-> updateSeqNum, part |-> fileAt])
    BY <2>1, <2>3, OneMoreChunk DEF NetworkInv, DownloadInv, DownloadCounts
  <2>4. QED
    BY <1>2, <2>1, <2>2, <2>3 DEF HandleUpdateState, DecodeFails
<1>3. QED
  BY <1>1, <1>2 DEF HandleResponse

-----------------------------------------------------------------------------
(* The steps. What a step leaves for the invariant: the places of the task, *)
(* the time and the subscriptions; the download is in the lemmas above.     *)

(* The part of the invariant that is about the connection. *)
ConnectionInv ==
  /\ npc \in {"connect", "serve", "upload", "decide", "delay", "ended"}
  /\ offline \in Int /\ nextRetry \in Nat
  /\ OfflineSteps
  /\ ServesSubscribed

(* The two parts are the whole. *)
LEMMA TwoParts ==
  /\ NetworkInv <=> ConnectionInv /\ DownloadInv
  /\ NetworkInv' <=> ConnectionInv' /\ DownloadInv'
BY DEF NetworkInv, NetworkTypeOK, ConnectionInv, DownloadInv

(* The steps that end a connection, or an attempt at one. *)
LEMMA LeaveKept ==
  ASSUME NetworkInv, npc' = "decide", UNCHANGED nextRetry,
         offline' \in Online .. NETWORK_DISCONNECTED_TIMEOUT
  PROVE  ConnectionInv'
BY DelayAssumption DEF NetworkInv, NetworkTypeOK, ConnectionInv, OfflineSteps, ServesSubscribed,
       NETWORK_DISCONNECTED_TIMEOUT, Online

(* Connecting: the attempts that succeed subscribe to everything, those that *)
(* fail take no longer than the timeout.                                     *)
LEMMA ConnectKept ==
  ASSUME NetworkInv, Connect \/ ConnectFails \/ ConnectTimeout
  PROVE  NetworkInv'
<1> USE DelayAssumption
<1>1. /\ npc = "connect" /\ nextRetry' = nextRetry
      /\ offline \in 0 .. RETRY_TIMEOUT_SEC /\ nextRetry \in Nat
      /\ nextRetry <= RETRY_TIMEOUT_SEC
  BY DEF NetworkInv, NetworkTypeOK, OfflineSteps, Connect, ConnectFails, ConnectTimeout, task
<1>2. ASSUME NEW failing, ConnectResult(failing).ok, npc' = "serve", offline' = Online,
             subs' = ConnectResult(failing).subs
      PROVE  ConnectionInv'
  <2>1. Topics \subseteq subs'
    BY <1>2, ConnectedIsSubscribed
  <2>2. QED
    BY <1>1, <1>2, <2>1 DEF ConnectionInv, OfflineSteps, ServesSubscribed, Online, Topics
<1>3. ASSUME NEW d \in 0 .. NETWORK_CONNECTING_TIMEOUT_SEC, Elapse(d), npc' = "decide"
      PROVE  ConnectionInv'
  BY <1>1, <1>3, LeaveKept DEF Elapse, NETWORK_DISCONNECTED_TIMEOUT, Online
<1>4. CASE Connect
  <2>1. ConnectResult({}).ok
    BY DEF ConnectResult
  <2>2. ConnectionInv'
    BY <1>2, <1>4, <2>1 DEF Connect
  <2>3. QED
    BY <1>4, <2>2, DownloadKept, TwoParts DEF Connect
<1>5. CASE ConnectFails
  <2>1. PICK failing \in {{Steps[n]} : n \in DOMAIN Steps}, d \in ConnectSecs :
          LET res == ConnectResult(failing)
          IN  IF res.ok
                THEN /\ npc' = "serve" /\ subs' = res.subs /\ offline' = Online
                     /\ disconnectPending' = FALSE /\ signal' = "Connected" /\ reason' = "none"
                     /\ UNCHANGED <<download, updateUrl>>
                ELSE /\ npc' = "decide" /\ reason' = "NotConnected"
                     /\ Elapse(d)
                     /\ Disconnect
                     /\ UNCHANGED <<disconnectPending, signal>>
    BY <1>5, Zenon DEF ConnectFails
  <2>2. CASE ConnectResult(failing).ok
    BY <1>2, <2>1, <2>2, DownloadKept, TwoParts
  <2>3. CASE ~ ConnectResult(failing).ok
    BY <1>3, <2>1, <2>3, DownloadKept, TwoParts
  <2>4. QED
    BY <2>2, <2>3
<1>6. CASE ConnectTimeout
  BY <1>3, <1>6, DownloadKept, TwoParts DEF ConnectTimeout
<1>7. QED
  BY <1>4, <1>5, <1>6

(* A step of a round that does not end it. *)
LEMMA RoundKept ==
  ASSUME NetworkInv, npc \in {"serve", "upload"}, npc' \in {"serve", "upload"},
         UNCHANGED <<subs, offline, nextRetry>>, DownloadInv'
  PROVE  NetworkInv'
<1>1. ConnectionInv'
  BY DEF NetworkInv, NetworkTypeOK, ConnectionInv, OfflineSteps, ServesSubscribed, Topics, Online
<1>2. QED
  BY <1>1, TwoParts

(* A step that ends a round. *)
LEMMA RoundEnds ==
  ASSUME NetworkInv, npc \in {"serve", "upload"}, UNCHANGED <<offline, nextRetry>>,
         NEW r, Leave(r)
  PROVE  NetworkInv'
<1>1. offline' = Online /\ npc' = "decide" /\ Disconnect
  BY DEF NetworkInv, OfflineSteps, Leave
<1>2. ConnectionInv'
  BY <1>1, LeaveKept, DelayAssumption DEF Online, NETWORK_DISCONNECTED_TIMEOUT
<1>3. QED
  BY <1>1, <1>2, DownloadKept, TwoParts

(* A round of handle_connection. *)
LEMMA ServeKept ==
  ASSUME NetworkInv,
         \/ OpRead \/ ReadDisconnected \/ Stop \/ ReceiveUpload \/ RetryUpload
         \/ DisconnectHint \/ SendInfo \/ SetTimeout \/ DownloadUpdate \/ Drained
  PROVE  NetworkInv'
<1>1. CASE OpRead
  <2>1. PICK event : HandleResponse(event)
    BY <1>1 DEF OpRead
  <2>2. QED
    BY <1>1, <2>1, ResponseKept, RoundKept DEF OpRead, Selecting, nvars
<1>2. CASE ReadDisconnected
  BY <1>2, RoundEnds DEF ReadDisconnected, Selecting, task
<1>3. CASE Stop
  BY <1>3, RoundEnds DEF Stop, Selecting, task
<1>4. CASE ReceiveUpload
  BY <1>4, RoundKept, DownloadKept DEF ReceiveUpload, Selecting, cvars, download
<1>5. CASE RetryUpload
  BY <1>5, RoundKept, DownloadKept DEF RetryUpload, cvars, download, task
<1>6. CASE DisconnectHint
  BY <1>6, RoundKept, DownloadKept DEF DisconnectHint, ActionTaken, cvars, download
<1>7. CASE SendInfo
  <2>1. npc = "serve" /\ UNCHANGED <<offline, nextRetry>>
    BY <1>7 DEF SendInfo, ActionTaken
  <2>2. CASE UNCHANGED <<npc, cvars>>
    BY <2>1, <2>2, RoundKept, DownloadKept DEF cvars, download
  <2>3. CASE Leave("Error")
    BY <2>1, <2>3, RoundEnds
  <2>4. QED
    BY <1>7, <2>2, <2>3 DEF SendInfo
<1>8. CASE SetTimeout
  BY <1>8, RoundKept, DownloadKept DEF SetTimeout, ActionTaken, cvars, download
<1>9. CASE DownloadUpdate
  <2>1. npc = "serve" /\ UNCHANGED <<offline, nextRetry>>
    BY <1>9 DEF DownloadUpdate, ActionTaken
  <2>2. CASE DownloadStart /\ UNCHANGED npc
    BY <2>1, <2>2, RoundKept, DownloadKept
  <2>3. CASE Leave("Error")
    BY <2>1, <2>3, RoundEnds
  <2>4. QED
    BY <1>9, <2>2, <2>3 DEF DownloadUpdate
<1>10. CASE Drained
  BY <1>10, RoundEnds DEF Drained, task
<1>11. QED
  BY <1>1, <1>2, <1>3, <1>4, <1>5, <1>6, <1>7, <1>8, <1>9, <1>10

(* An upload. *)
LEMMA UploadKept ==
  ASSUME NetworkInv, NEW answered,
         UploadOk(answered) \/ UploadFails \/ UploadUnserializable
  PROVE  NetworkInv'
<1>1. CASE UploadOk(answered)
  BY <1>1, RoundKept, DownloadKept DEF UploadOk, cvars, download
<1>2. CASE UploadFails
  BY <1>2, RoundEnds DEF UploadFails
<1>3. CASE UploadUnserializable
  BY <1>3, RoundKept, DownloadKept DEF UploadUnserializable, cvars, download, task
<1>4. QED
  BY <1>1, <1>2, <1>3

(* After a connection: the task goes on only if the time it was offline and *)
(* the next delay together are within the timeout.                          *)
LEMMA DecideKept ==
  ASSUME NetworkInv, NEW dropped, Decide(dropped) \/ Delay \/ StartTask
  PROVE  NetworkInv'
<1> USE DelayAssumption DEF Online
<1>1. /\ nextRetry \in Nat /\ nextRetry <= RETRY_TIMEOUT_SEC /\ offline \in Int
  BY DEF NetworkInv, NetworkTypeOK, OfflineSteps
<1>2. DownloadInv'
  BY DownloadKept DEF Decide, Delay, StartTask, cvars, download
<1>3. CASE Decide(dropped)
  <2>1. /\ offline' = IF offline = Online THEN 0 ELSE offline
        /\ nextRetry' = nextRetry
        /\ npc' = "ended" \/ (npc' = "delay" /\ WillRetry)
    BY <1>3 DEF Decide, ReturnTask
  <2>2. offline = Online \/ offline >= 0
    BY <1>3 DEF Decide, NetworkInv, OfflineSteps, NETWORK_DISCONNECTED_TIMEOUT
  <2>3. ConnectionInv'
    BY <1>1, <2>1, <2>2 DEF ConnectionInv, OfflineSteps, ServesSubscribed, WillRetry
  <2>4. QED
    BY <1>2, <2>3, TwoParts
<1>4. CASE Delay
  <2>1. /\ npc' = "connect" /\ offline' = offline + nextRetry
        /\ nextRetry' \in Nat /\ nextRetry' <= RETRY_TIMEOUT_SEC
    BY <1>1, <1>4 DEF Delay, Elapse
  <2>2. offline >= 0 /\ offline + nextRetry <= RETRY_TIMEOUT_SEC
    BY <1>4 DEF Delay, NetworkInv, OfflineSteps
  <2>3. ConnectionInv'
    BY <1>1, <2>1, <2>2 DEF ConnectionInv, OfflineSteps, ServesSubscribed
  <2>4. QED
    BY <1>2, <2>3, TwoParts
<1>5. CASE StartTask
  <2>1. ConnectionInv'
    BY <1>5 DEF StartTask, ConnectionInv, OfflineSteps, ServesSubscribed
  <2>2. QED
    BY <1>2, <2>1, TwoParts
<1>6. QED
  BY <1>3, <1>4, <1>5

(* The invariant holds at first and every step keeps it: faults, reconnects *)
(* and requests in any order.                                               *)
LEMMA NetworkStepKept ==
  ASSUME NetworkInv, [NetworkNext]_networkVars
  PROVE  NetworkInv'
<1>1. ASSUME UNCHANGED <<npc, offline, nextRetry, cvars>>
      PROVE  NetworkInv'
  <2>1. DownloadInv'
    BY <1>1, DownloadKept DEF cvars, download
  <2>2. ConnectionInv'
    BY <1>1 DEF NetworkInv, NetworkTypeOK, ConnectionInv, OfflineSteps, ServesSubscribed, cvars
  <2>3. QED
    BY <2>1, <2>2, TwoParts
<1>2. CASE NetworkStep(conf, conf)
  BY <1>2, ConnectKept, ServeKept, UploadKept, DecideKept DEF NetworkStep
<1>3. CASE StartTask
  BY <1>3, DecideKept
<1>4. CASE \E a \in Requests : RequestAction(a)
  BY <1>1, <1>4 DEF RequestAction
<1>5. CASE \E i \in Items : OfferUpload([item |-> i])
  BY <1>1, <1>5 DEF OfferUpload
<1>6. CASE UNCHANGED networkVars
  BY <1>1, <1>6 DEF networkVars, nvars
<1>7. QED
  BY <1>2, <1>3, <1>4, <1>5, <1>6 DEF NetworkNext

(* The network task is safe for every delay, file, item and request and for *)
(* any number of faults: while it serves, every topic is subscribed to; the *)
(* orchestrator gets the chunks of a file from its start, in order and      *)
(* without a gap; and the task never tries for longer than                  *)
(* NETWORK_DISCONNECTED_TIMEOUT, because it looks ahead over the next delay *)
(* before it decides to go on.                                              *)
THEOREM NetworkServesSafely == NetworkSpec => []NetworkIsSafe
<1>1. NetworkAlone => NetworkInv
  BY DelayAssumption
     DEF NetworkAlone, NetworkInit, ClientInit, NetworkInv, NetworkTypeOK, OfflineSteps,
         DownloadCounts, ServesSubscribed, DownloadInOrder
<1>2. NetworkInv /\ [NetworkNext]_networkVars => NetworkInv'
  BY NetworkStepKept
<1>3. NetworkInv => NetworkIsSafe
  BY DelayAssumption
     DEF NetworkInv, NetworkTypeOK, OfflineSteps, NetworkIsSafe, OfflineBounded, Online,
         NETWORK_DISCONNECTED_TIMEOUT
<1>4. QED
  BY <1>1, <1>2, <1>3, PTL DEF NetworkSpec

-----------------------------------------------------------------------------
(* quectel.rs, the unsolicited result codes *)

(* The URCs of the model and their types. *)
CallKinds == {"publish", "subscribe"}
Urcs == [kind : CallKinds \cup {"receive"}, id : Nat,
         result : {"none", "Success", "Failed", "Retransmission"}]
UrcCalls == [kind : CallKinds, id : Nat, n : Nat]

UrcTypeOK ==
  /\ next_tx_msg_id \in Nat /\ calls \in Nat /\ ufaults \in Nat /\ arrived \in Nat
  /\ chan \in Seq(Urcs) /\ queue \in Seq(Urcs) /\ urc \in Urcs \cup {NoUrc}
  /\ outstanding \in SUBSET UrcCalls /\ (mpc = "await" => call \in UrcCalls)
  /\ slot \in [Slots -> Nat] /\ handled \in Seq(Nat) /\ foreign \in BOOLEAN

(* An acknowledgement that would end the call in progress is one of that call. *)
AcksAreOfCall ==
  mpc = "await" =>
    /\ \A c \in outstanding : c.id = call.id => c.n = call.n
    /\ \A i \in DOMAIN chan :
         Matches(chan[i]) /\ chan[i].result = "Success" => call.n \in acked

(* A message that u announces is in its slot. *)
Stored(u) == u.kind = "receive" => u.id \in Slots /\ slot[u.id] > 0

Earlier(u, v) == u.kind = "receive" /\ v.kind = "receive" => slot[u.id] < slot[v.id]

(* What is announced is in the modem; the announcements are in the order of arrival: *)
(* first the one at hand, then those set aside, then those in the channel.           *)
AnnouncedStored ==
  /\ Stored(urc) /\ (\A i \in DOMAIN queue : Stored(queue[i]))
  /\ \A i \in DOMAIN chan : Stored(chan[i])

AnnouncedInOrder ==
  /\ \A i, j \in DOMAIN chan : i < j => Earlier(chan[i], chan[j])
  /\ \A i, j \in DOMAIN queue : i < j => Earlier(queue[i], queue[j])
  /\ \A i \in DOMAIN queue, j \in DOMAIN chan : Earlier(queue[i], chan[j])
  /\ \A i \in DOMAIN queue : Earlier(urc, queue[i])
  /\ \A i \in DOMAIN chan : Earlier(urc, chan[i])

(* What was handed on came before all that is announced. *)
Later(n, u) == u.kind = "receive" => n < slot[u.id]

HandledFirst ==
  \A h \in DOMAIN handled :
    /\ handled[h] <= arrived /\ Later(handled[h], urc)
    /\ \A i \in DOMAIN queue : Later(handled[h], queue[i])
    /\ \A i \in DOMAIN chan : Later(handled[h], chan[i])

(* Messages are numbered as they arrive.                                                      *)
SlotsArrived == \A s \in Slots : slot[s] <= arrived

(* Only messages were set aside. *)
OnlyMessages == foreign \/ \A i \in DOMAIN queue : queue[i].kind = "receive"

(* The inductive invariant of the unasked answers.                                            *)
UrcInv ==
  /\ UrcTypeOK /\ OkIsAcked /\ AcksAreOfCall
  /\ AnnouncedStored /\ AnnouncedInOrder /\ HandledFirst /\ SlotsArrived
  /\ MessagesInOrder /\ OnlyMessages /\ EveryMessageAnnounced

LEMMA NoUrcKind == NoUrc.kind # "receive" /\ NoUrc.kind = "none" /\ NoUrc \notin Urcs
BY DEF NoUrc, Urcs, CallKinds

LEMMA UrcInitKept == UrcInit => UrcInv
<1> SUFFICES ASSUME UrcInit PROVE UrcInv
  OBVIOUS
<1>1. UrcTypeOK
  <2>1. slot \in [Slots -> Nat]
    BY DEF UrcInit
  <2>2. chan \in Seq(Urcs) /\ queue \in Seq(Urcs) /\ handled \in Seq(Nat)
    BY DEF UrcInit
  <2>3. QED
    BY <2>1, <2>2 DEF UrcInit, UrcTypeOK
<1>2. chan = <<>> /\ queue = <<>> /\ handled = <<>> /\ urc = NoUrc /\ mpc = "idle" /\ results = {}
      /\ (\A s \in Slots : slot[s] = 0) /\ arrived = 0
  BY DEF UrcInit
<1>3. QED
  BY <1>1, <1>2, NoUrcKind DEF UrcInv, OkIsAcked, AcksAreOfCall, AnnouncedStored, AnnouncedInOrder,
    HandledFirst, SlotsArrived, MessagesInOrder, OnlyMessages, EveryMessageAnnounced, Stored, Earlier, Later

LEMMA AnnouncedBy ==
  ASSUME NEW s
  PROVE  Announced(s) <=> \/ \E i \in DOMAIN chan : chan[i].kind = "receive" /\ chan[i].id = s
                          \/ \E i \in DOMAIN queue : queue[i].kind = "receive" /\ queue[i].id = s
                          \/ urc.kind = "receive" /\ urc.id = s
BY DEF Announced

(* The parts of the invariant that only look at the announcements and the slots. *)
LEMMA CallBrokerKept ==
  ASSUME NEW kind \in CallKinds
  PROVE  UrcInv /\ CallBroker(kind) => UrcInv'
<1> SUFFICES ASSUME UrcInv, CallBroker(kind) PROVE UrcInv'
  OBVIOUS
<1> DEFINE c == [kind |-> kind, id |-> TxMsgId, n |-> calls + 1]
<1>0. UrcTypeOK /\ UNCHANGED <<urcs, acked, messages, results, foreign>>
  BY DEF UrcInv, CallBroker
<1>1. TxMsgId \in Nat
  BY <1>0 DEF TxMsgId, UrcTypeOK
<1>2. c \in UrcCalls
  BY <1>0, <1>1 DEF UrcCalls, UrcTypeOK
<1>3. /\ next_tx_msg_id' = TxMsgId /\ calls' = calls + 1 /\ ufaults' \in Nat
      /\ mpc = "idle"
      /\ \/ UNCHANGED <<mpc, call, outstanding>>
         \/ mpc' = "await" /\ call' = c /\ outstanding' = outstanding \cup {c}
  BY <1>0 DEF CallBroker, UrcFault, UrcTypeOK
<1>4. /\ \A o \in outstanding : o.id # TxMsgId
      /\ \A i \in DOMAIN chan : chan[i].kind # "receive" => chan[i].id # TxMsgId
  BY DEF CallBroker
<1>5. UrcTypeOK'
  BY <1>0, <1>1, <1>2, <1>3 DEF UrcTypeOK, urcs, messages
<1>6. AcksAreOfCall'
  <2>1. CASE UNCHANGED <<mpc, call, outstanding>>
    BY <2>1, <1>3 DEF AcksAreOfCall
  <2>2. CASE mpc' = "await" /\ call' = c /\ outstanding' = outstanding \cup {c}
    <3>1. call'.id = TxMsgId /\ call'.kind = kind /\ kind # "receive" /\ call'.n = c.n
      BY <2>2 DEF CallKinds
    <3>2. \A o \in outstanding' : o.id = call'.id => o.n = call'.n
      BY <2>2, <1>4, <3>1
    <3>3. \A i \in DOMAIN chan' : ~Matches(chan[i])'
      BY <3>1, <1>4, <1>0 DEF Matches, urcs
    <3>4. QED
      BY <3>2, <3>3, <1>0 DEF AcksAreOfCall, urcs
  <2>3. QED BY <2>1, <2>2, <1>3
<1>7. QED
  BY <1>0, <1>5, <1>6 DEF UrcInv, urcs, messages, OkIsAcked, AnnouncedStored, AnnouncedInOrder,
    HandledFirst, SlotsArrived, MessagesInOrder, OnlyMessages, EveryMessageAnnounced, Stored, Earlier,
    Later, Announced

LEMMA AnswerKept ==
  ASSUME NEW c \in outstanding, NEW result \in {"Success", "Failed", "Retransmission"}
  PROVE  UrcInv /\ Answer(c, result) => UrcInv'
<1> SUFFICES ASSUME UrcInv, Answer(c, result) PROVE UrcInv'
  OBVIOUS
<1> DEFINE u == [kind |-> c.kind, result |-> result, id |-> IF result = "Retransmission" THEN 0 ELSE c.id]
<1>0. UrcTypeOK /\ UNCHANGED <<driver, queue, urc, messages, results, foreign>>
  BY DEF UrcInv, Answer
<1>1. c \in UrcCalls /\ u \in Urcs /\ u.kind = c.kind /\ u.kind \in CallKinds /\ u.kind # "receive"
  BY <1>0 DEF UrcTypeOK, UrcCalls, Urcs, CallKinds
<1>2. /\ chan' = Append(chan, u) /\ outstanding' \subseteq outstanding /\ acked \subseteq acked'
      /\ ufaults' \in Nat /\ (u.result = "Success" => u.id = c.id /\ c.n \in acked')
  BY <1>0 DEF Answer, UrcFault, UrcTypeOK
<1> HIDE DEF u
<1>3. /\ chan' \in Seq(Urcs)
      /\ \A i \in DOMAIN chan : i \in DOMAIN chan' /\ chan'[i] = chan[i]
      /\ \A i \in DOMAIN chan' : chan'[i] = u \/ (i \in DOMAIN chan /\ chan'[i] = chan[i])
  BY <1>0, <1>1, <1>2, AppendFacts DEF UrcTypeOK
<1>4. UrcTypeOK'
  BY <1>0, <1>2, <1>3 DEF UrcTypeOK, driver, messages
<1>5. AcksAreOfCall'
  <2> SUFFICES ASSUME mpc' = "await"
               PROVE  /\ \A o \in outstanding' : o.id = call'.id => o.n = call'.n
                      /\ \A i \in DOMAIN chan' :
                           Matches(chan[i])' /\ chan'[i].result = "Success" => call'.n \in acked'
    BY DEF AcksAreOfCall
  <2>1. mpc = "await" /\ call' = call
    BY <1>0 DEF driver
  <2>2. \A o \in outstanding : o.id = call.id => o.n = call.n
    BY <2>1 DEF UrcInv, AcksAreOfCall
  <2>3. \A i \in DOMAIN chan : Matches(chan[i]) /\ chan[i].result = "Success" => call.n \in acked
    BY <2>1 DEF UrcInv, AcksAreOfCall
  <2>4. ASSUME NEW i \in DOMAIN chan', Matches(chan[i])', chan'[i].result = "Success"
        PROVE  call'.n \in acked'
    <3>1. CASE chan'[i] = u
      BY <3>1, <2>4, <2>1, <2>2, <1>2 DEF Matches
    <3>2. CASE i \in DOMAIN chan /\ chan'[i] = chan[i]
      BY <3>2, <2>4, <2>1, <2>3, <1>2 DEF Matches
    <3>3. QED BY <3>1, <3>2, <1>3
  <2>5. QED BY <2>1, <2>2, <2>4, <1>2
<1>6. AnnouncedStored' /\ HandledFirst' /\ SlotsArrived' /\ MessagesInOrder' /\ OnlyMessages'
  BY <1>0, <1>1, <1>3 DEF UrcInv, AnnouncedStored, HandledFirst, SlotsArrived, MessagesInOrder,
    OnlyMessages, Stored, Later, messages
<1>7. AnnouncedInOrder'
  BY <1>0, <1>1, <1>3 DEF UrcInv, AnnouncedInOrder, Earlier, messages
<1>8. EveryMessageAnnounced'
  BY <1>0, <1>3 DEF UrcInv, EveryMessageAnnounced, Announced, messages
<1>9. QED
  BY <1>0, <1>2, <1>4, <1>5, <1>6, <1>7, <1>8 DEF UrcInv, OkIsAcked

LEMMA ArriveKept == UrcInv /\ Arrive => UrcInv'
<1> SUFFICES ASSUME UrcInv, Arrive PROVE UrcInv'
  OBVIOUS
<1>0. /\ UrcTypeOK /\ UNCHANGED <<driver, queue, urc, broker, handled, results, foreign, ufaults>>
      /\ arrived' = arrived + 1
  BY DEF UrcInv, Arrive
<1>1. PICK s \in Slots :
        /\ slot[s] = 0 /\ slot' = [slot EXCEPT ![s] = arrived + 1]
        /\ chan' = Append(chan, [kind |-> "receive", id |-> s, result |-> "none"])
  BY DEF Arrive
<1> DEFINE u == [kind |-> "receive", id |-> s, result |-> "none"]
<1>2. u \in Urcs /\ u.kind = "receive" /\ u.id = s
  BY UrcAssumption DEF Urcs
<1> HIDE DEF u
<1>3. chan' = Append(chan, u)
  BY <1>1 DEF u
<1>4. /\ chan' \in Seq(Urcs) /\ Len(chan) \in Nat
      /\ \A i \in DOMAIN chan : i \in DOMAIN chan' /\ i <= Len(chan) /\ chan'[i] = chan[i]
      /\ \A i \in DOMAIN chan' : (i = Len(chan) + 1 /\ chan'[i] = u) \/ (i \in DOMAIN chan /\ chan'[i] = chan[i])
      /\ Len(chan) + 1 \in DOMAIN chan' /\ chan'[Len(chan) + 1] = u
  BY <1>0, <1>2, <1>3, AppendFacts DEF UrcTypeOK
<1>5. /\ slot' \in [Slots -> Nat] /\ slot'[s] = arrived + 1
      /\ \A r \in Slots : r # s => slot'[r] = slot[r]
      /\ \A r \in Slots : slot[r] > 0 => r # s /\ slot'[r] = slot[r] /\ slot'[r] < slot'[s]
  BY <1>0, <1>1 DEF UrcTypeOK, UrcInv, SlotsArrived
<1>6. UrcTypeOK'
  BY <1>0, <1>4, <1>5 DEF UrcTypeOK, driver, broker
<1>7. AcksAreOfCall' /\ OkIsAcked'
  <2>1. OkIsAcked'
    BY <1>0 DEF UrcInv, OkIsAcked, broker
  <2>2. mpc = "await" => call.kind # "receive"
    BY <1>0 DEF UrcTypeOK, UrcCalls, CallKinds
  <2>3. QED
    BY <1>0, <1>2, <1>4, <2>1, <2>2 DEF UrcInv, AcksAreOfCall, Matches, driver, broker
<1>8. AnnouncedStored' /\ SlotsArrived'
  <2>1. SlotsArrived'
    BY <1>0, <1>5 DEF UrcInv, UrcTypeOK, SlotsArrived
  <2>2. Stored(u)'
    BY <1>0, <1>2, <1>5 DEF UrcTypeOK, Stored
  <2>3. Stored(urc)' /\ (\A i \in DOMAIN queue : Stored(queue[i])') /\ (\A i \in DOMAIN chan : Stored(chan[i])')
    BY <1>0, <1>4, <1>5 DEF UrcInv, AnnouncedStored, Stored
  <2>4. QED
    BY <2>1, <2>2, <2>3, <1>0, <1>4 DEF AnnouncedStored, Stored
<1>9. AnnouncedInOrder'
  <2>1. /\ \A i, j \in DOMAIN chan : i < j => Earlier(chan[i], chan[j])'
        /\ \A i, j \in DOMAIN queue : i < j => Earlier(queue[i], queue[j])'
        /\ \A i \in DOMAIN queue, j \in DOMAIN chan : Earlier(queue[i], chan[j])'
        /\ \A i \in DOMAIN queue : Earlier(urc, queue[i])'
        /\ \A i \in DOMAIN chan : Earlier(urc, chan[i])'
    <3>1. \A a, b : Stored(a) /\ Stored(b) /\ Earlier(a, b)
                     => (a.kind = "receive" /\ b.kind = "receive" => slot'[a.id] < slot'[b.id])
      BY <1>5 DEF Stored, Earlier
    <3>2. AnnouncedStored /\ AnnouncedInOrder
      BY DEF UrcInv
    <3>3. /\ \A i, j \in DOMAIN chan : i < j => Earlier(chan[i], chan[j])'
          /\ \A i \in DOMAIN chan : Earlier(urc, chan[i])'
      BY <3>1, <3>2, <1>0, <1>4 DEF AnnouncedStored, AnnouncedInOrder, Earlier
    <3>4. /\ \A i, j \in DOMAIN queue : i < j => Earlier(queue[i], queue[j])'
          /\ \A i \in DOMAIN queue : Earlier(urc, queue[i])'
      BY <3>1, <3>2, <1>0 DEF AnnouncedStored, AnnouncedInOrder, Earlier
    <3>5. \A i \in DOMAIN queue, j \in DOMAIN chan : Earlier(queue[i], chan[j])'
      BY <3>1, <3>2, <1>0, <1>4 DEF AnnouncedStored, AnnouncedInOrder, Earlier
    <3>6. QED BY <3>3, <3>4, <3>5
  <2>2. /\ \A i \in DOMAIN chan \cup DOMAIN queue : i \in Int
        /\ Earlier(urc, u)' /\ (\A i \in DOMAIN queue : Earlier(queue[i], u)')
        /\ \A i \in DOMAIN chan : Earlier(chan[i], u)'
    BY <1>0, <1>2, <1>4, <1>5 DEF UrcInv, UrcTypeOK, AnnouncedStored, Stored, Earlier
  <2>3. ASSUME NEW i \in DOMAIN chan', NEW j \in DOMAIN chan', i < j
        PROVE  Earlier(chan[i], chan[j])'
    BY <2>1, <2>2, <2>3, <1>4 DEF Earlier
  <2>4. QED
    BY <2>1, <2>2, <2>3, <1>0, <1>4 DEF AnnouncedInOrder, Earlier
<1>10. HandledFirst'
  <2>1. \A h \in DOMAIN handled : handled[h] \in Nat /\ handled[h] < slot'[s] /\ handled[h] <= arrived'
    BY <1>0, <1>5 DEF UrcTypeOK, UrcInv, HandledFirst
  <2>2. QED
    BY SMTT(30), <2>1, <1>0, <1>2, <1>4, <1>5 DEF UrcInv, HandledFirst, Later, AnnouncedStored, Stored
<1>11. EveryMessageAnnounced'
  <2> SUFFICES ASSUME ~foreign, NEW r \in Slots, slot'[r] # 0 PROVE Announced(r)'
    BY <1>0 DEF EveryMessageAnnounced
  <2>1. CASE r = s
    BY <2>1, <1>2, <1>4 DEF Announced
  <2>2. CASE r # s
    <3>1. Announced(r)
      BY <2>2, <1>5 DEF UrcInv, EveryMessageAnnounced
    <3>2. QED
      BY <3>1, <1>0, <1>4 DEF Announced
  <2>3. QED BY <2>1, <2>2
<1>12. QED
  BY <1>0, <1>6, <1>7, <1>8, <1>9, <1>10, <1>11 DEF UrcInv, MessagesInOrder, OnlyMessages

(* As long as only messages were set aside, the next one still fits: their slots differ. *)
LEMMA QueueHasRoom ==
  ASSUME UrcInv, ~foreign, chan # <<>>, chan[1].kind = "receive"
  PROVE  Len(queue) < QueueCap
<1> DEFINE n == Len(queue) + 1
           f == [i \in 1 .. n |-> IF i <= Len(queue) THEN queue[i].id ELSE chan[1].id]
<1>1. /\ Len(queue) \in Nat /\ DOMAIN queue = 1 .. Len(queue) /\ 1 \in DOMAIN chan
      /\ (\A i \in DOMAIN queue : queue[i].kind = "receive")
  BY DEF UrcInv, UrcTypeOK, OnlyMessages
<1>2. \A i \in 1 .. n : f[i] \in Slots
  BY <1>1 DEF UrcInv, AnnouncedStored, Stored
<1>3. \A i, j \in 1 .. n : i < j => slot[f[i]] < slot[f[j]]
  BY <1>1 DEF UrcInv, AnnouncedInOrder, Earlier
<1>4. f \in [1 .. n -> Slots] /\ \A i \in 1 .. n : slot[f[i]] \in Nat
  BY <1>2 DEF UrcInv, UrcTypeOK
<1> HIDE DEF f
<1>5. \A i, j \in 1 .. n : f[i] = f[j] => i = j
  BY <1>1, <1>3, <1>4
<1>6. f \in Injection(1 .. n, Slots)
  BY <1>4, <1>5 DEF Injection, IsInjective
<1>7. Cardinality(1 .. n) <= Cardinality(Slots) /\ Cardinality(1 .. n) = n
  BY <1>1, <1>6, FS_Injection, FS_Interval, UrcAssumption
<1>8. Cardinality(Slots) \in Nat
  BY FS_CardinalityType, UrcAssumption
<1>9. QED
  BY <1>1, <1>7, <1>8, UrcAssumption

LEMMA AwaitAckedKept == UrcInv /\ AwaitAcked => UrcInv'
<1> SUFFICES ASSUME UrcInv, AwaitAcked PROVE UrcInv'
  OBVIOUS
<1> DEFINE u == chan[1]
<1>0. /\ UrcTypeOK /\ UNCHANGED <<next_tx_msg_id, calls, urc, broker, messages, ufaults>>
      /\ mpc = "await" /\ chan # <<>> /\ chan' = Tail(chan)
  BY DEF UrcInv, AwaitAcked
<1>1. /\ u = Head(chan) /\ u \in Urcs /\ 1 \in DOMAIN chan /\ chan' \in Seq(Urcs)
      /\ \A i \in DOMAIN chan' : i \in Int /\ i + 1 \in DOMAIN chan /\ 1 < i + 1 /\ chan'[i] = chan[i + 1]
      /\ \A i \in DOMAIN chan : i = 1 \/ (i - 1 \in DOMAIN chan' /\ chan'[i - 1] = chan[i])
  BY <1>0, TailFacts DEF UrcTypeOK
<1>2. \/ /\ u.kind # call.kind /\ UnexpectedUrc(u) /\ UNCHANGED <<mpc, call, results>>
      \/ /\ u.kind = call.kind /\ UNCHANGED <<mpc, call, results, queue, foreign>>
      \/ /\ Matches(u) /\ mpc' = "idle"
         /\ results' = IF u.result = "Success" THEN results \cup {call.n} ELSE results
         /\ UNCHANGED <<queue, foreign>>
  BY <1>1 DEF AwaitAcked
<1>3. call.kind # "receive"
  BY <1>0 DEF UrcTypeOK, UrcCalls, CallKinds
<1>4. /\ queue' \in Seq(Urcs) /\ foreign' \in BOOLEAN /\ (foreign => foreign') /\ Len(queue) \in Nat
      /\ \A i \in DOMAIN queue : i \in Int /\ i \in DOMAIN queue' /\ i < Len(queue) + 1 /\ queue'[i] = queue[i]
      /\ \A i \in DOMAIN queue' : \/ i = Len(queue) + 1 /\ queue'[i] = u /\ (u.kind # "receive" => foreign')
                                  \/ i \in DOMAIN queue /\ queue'[i] = queue[i]
      /\ u.kind = "receive" => \/ Len(queue) >= QueueCap
                               \/ Len(queue) + 1 \in DOMAIN queue' /\ queue'[Len(queue) + 1] = u
  <2>1. Len(queue) \in Nat /\ \A i \in DOMAIN queue : i \in Int /\ i < Len(queue) + 1
    BY <1>0 DEF UrcTypeOK
  <2>2. CASE UNCHANGED <<queue, foreign>> /\ u.kind # "receive"
    BY <2>1, <2>2, <1>0 DEF UrcTypeOK
  <2>3. CASE UnexpectedUrc(u)
    <3>1. foreign' = (foreign \/ u.kind # "receive")
      BY <2>3 DEF UnexpectedUrc
    <3>2. CASE Len(queue) < QueueCap
      <4>1. queue' = Append(queue, u)
        BY <2>3, <3>2 DEF UnexpectedUrc
      <4> HIDE DEF u
      <4>2. /\ queue' \in Seq(Urcs) /\ Len(queue) + 1 \in DOMAIN queue' /\ queue'[Len(queue) + 1] = u
            /\ \A i \in DOMAIN queue : i \in DOMAIN queue' /\ queue'[i] = queue[i]
            /\ \A i \in DOMAIN queue' : i = Len(queue) + 1 \/ i \in DOMAIN queue
        BY <4>1, <1>0, <1>1, AppendFacts DEF UrcTypeOK
      <4>3. QED BY <4>2, <3>1, <2>1, <1>0 DEF UrcTypeOK
    <3>3. CASE ~(Len(queue) < QueueCap)
      <4>1. queue' = queue
        BY <2>3, <3>3 DEF UnexpectedUrc
      <4>2. QED BY <4>1, <3>1, <3>3, <2>1, <1>0, UrcAssumption DEF UrcTypeOK
    <3>4. QED BY <3>2, <3>3
  <2>4. QED BY <2>2, <2>3, <1>2, <1>3 DEF Matches
<1> HIDE DEF u
<1>5. UrcTypeOK'
  BY <1>0, <1>1, <1>2, <1>4 DEF UrcTypeOK, broker, messages
<1>6. OkIsAcked' /\ AcksAreOfCall'
  <2>1. \A i \in DOMAIN chan : Matches(chan[i]) /\ chan[i].result = "Success" => call.n \in acked
    BY <1>0 DEF UrcInv, AcksAreOfCall
  <2>2. OkIsAcked'
    BY <2>1, <1>0, <1>1, <1>2 DEF UrcInv, OkIsAcked, broker, u
  <2>3. mpc' = "await" => call' = call
    BY <1>2
  <2>4. QED
    BY <2>1, <2>2, <2>3, <1>0, <1>1 DEF UrcInv, AcksAreOfCall, Matches, broker
<1>7. AnnouncedStored' /\ HandledFirst'
  BY <1>0, <1>1, <1>4 DEF UrcInv, AnnouncedStored, HandledFirst, Stored, Later, messages, u
<1>8. AnnouncedInOrder'
  <2>1. AnnouncedInOrder /\ slot' = slot /\ urc' = urc /\ \A a, b : Earlier(a, b)' <=> Earlier(a, b)
    BY <1>0 DEF UrcInv, messages, Earlier
  <2>2. /\ \A i, j \in DOMAIN chan' : i < j => Earlier(chan'[i], chan'[j])
        /\ \A i \in DOMAIN chan' : Earlier(urc, chan'[i]) /\ Earlier(u, chan'[i])
    BY <2>1, <1>1 DEF AnnouncedInOrder, u
  <2>3. /\ \A i, j \in DOMAIN queue' : i < j => Earlier(queue'[i], queue'[j])
        /\ \A i \in DOMAIN queue' : Earlier(urc, queue'[i])
    <3>1. Earlier(urc, u) /\ \A i \in DOMAIN queue : Earlier(queue[i], u)
      BY <2>1, <1>1 DEF AnnouncedInOrder, u
    <3>2. /\ \A i, j \in DOMAIN queue : i < j => Earlier(queue[i], queue[j])
          /\ \A i \in DOMAIN queue : Earlier(urc, queue[i])
      BY <2>1 DEF AnnouncedInOrder
    <3>3. \A i \in DOMAIN queue' : Earlier(urc, queue'[i])
      BY <3>1, <3>2, <1>4
    <3>4. ASSUME NEW i \in DOMAIN queue', NEW j \in DOMAIN queue', i < j
          PROVE  Earlier(queue'[i], queue'[j])
      <4>1. i \in DOMAIN queue /\ queue'[i] = queue[i]
        BY <3>4, <1>4
      <4>2. QED BY <4>1, <3>1, <3>2, <3>4, <1>4
    <3>5. QED BY <3>3, <3>4
  <2>4. \A i \in DOMAIN queue', j \in DOMAIN chan' : Earlier(queue'[i], chan'[j])
    BY <2>1, <2>2, <1>1, <1>4 DEF AnnouncedInOrder
  <2>5. QED
    BY <2>1, <2>2, <2>3, <2>4 DEF AnnouncedInOrder, Earlier
<1>9. OnlyMessages'
  BY <1>4 DEF UrcInv, OnlyMessages
<1>10. EveryMessageAnnounced'
  <2> SUFFICES ASSUME ~foreign', NEW r \in Slots, slot[r] # 0 PROVE Announced(r)'
    BY <1>0 DEF EveryMessageAnnounced, messages
  <2>1. ~foreign /\ Announced(r)
    BY <1>4 DEF UrcInv, EveryMessageAnnounced
  <2>2. u.kind = "receive" => Len(queue) + 1 \in DOMAIN queue' /\ queue'[Len(queue) + 1] = u
    BY <2>1, <1>0, <1>4, QueueHasRoom, UrcAssumption DEF u
  <2>3. CASE \E i \in DOMAIN chan : chan[i].kind = "receive" /\ chan[i].id = r
    <3>1. PICK i \in DOMAIN chan : chan[i].kind = "receive" /\ chan[i].id = r
      BY <2>3
    <3>2. CASE i = 1
      BY <3>1, <3>2, <2>2 DEF Announced, u
    <3>3. CASE i # 1
      BY <3>1, <3>3, <1>1 DEF Announced
    <3>4. QED BY <3>2, <3>3
  <2>4. CASE \E i \in DOMAIN queue : queue[i].kind = "receive" /\ queue[i].id = r
    BY <2>4, <1>4 DEF Announced
  <2>5. CASE urc.kind = "receive" /\ urc.id = r
    BY <2>5, <1>0 DEF Announced
  <2>6. QED BY <2>1, <2>3, <2>4, <2>5, AnnouncedBy
<1>11. QED
  BY <1>0, <1>5, <1>6, <1>7, <1>8, <1>9, <1>10 DEF UrcInv, SlotsArrived, MessagesInOrder, messages

LEMMA AwaitResponseKept == UrcInv /\ AwaitResponse => UrcInv'
<1> SUFFICES ASSUME UrcInv, AwaitResponse PROVE UrcInv'
  OBVIOUS
<1>0. /\ UrcTypeOK /\ UNCHANGED <<driver, broker, messages, results, foreign, ufaults>>
      /\ mpc = "idle" /\ urc = NoUrc
  BY DEF UrcInv, AwaitResponse
<1>1. \A a, b : /\ Earlier(a, b)' <=> Earlier(a, b)
                /\ Stored(a)' <=> Stored(a)
                /\ Later(b, a)' <=> Later(b, a)
  BY <1>0 DEF Earlier, Stored, Later, messages
<1>2. CASE queue # <<>> /\ urc' = Head(queue) /\ queue' = Tail(queue) /\ UNCHANGED chan
  <2>1. /\ urc' = queue[1] /\ urc' \in Urcs /\ 1 \in DOMAIN queue /\ queue' \in Seq(Urcs)
        /\ \A i \in DOMAIN queue' : i \in Int /\ i + 1 \in DOMAIN queue /\ 1 < i + 1 /\ queue'[i] = queue[i + 1]
        /\ \A i \in DOMAIN queue : i = 1 \/ (i - 1 \in DOMAIN queue' /\ queue'[i - 1] = queue[i])
    BY <1>0, <1>2, TailFacts DEF UrcTypeOK
  <2>2. UrcTypeOK' /\ AcksAreOfCall' /\ OkIsAcked'
    BY <1>0, <1>2, <2>1 DEF UrcInv, UrcTypeOK, AcksAreOfCall, OkIsAcked, driver, broker, messages
  <2>3. AnnouncedStored' /\ HandledFirst' /\ OnlyMessages'
    <3>1. AnnouncedStored' /\ OnlyMessages'
      BY ZenonT(30), <1>0, <1>1, <1>2, <2>1 DEF UrcInv, AnnouncedStored, OnlyMessages
    <3>2. HandledFirst'
      BY <1>0, <1>1, <1>2, <2>1 DEF UrcInv, HandledFirst, messages
    <3>3. QED BY <3>1, <3>2
  <2>4. AnnouncedInOrder'
    BY <1>1, <1>2, <2>1 DEF UrcInv, AnnouncedInOrder
  <2>5. EveryMessageAnnounced'
    <3> SUFFICES ASSUME ~foreign, NEW r \in Slots, slot[r] # 0 PROVE Announced(r)'
      BY <1>0 DEF EveryMessageAnnounced, messages
    <3>1. Announced(r) /\ ~(urc.kind = "receive")
      BY <1>0, NoUrcKind DEF UrcInv, EveryMessageAnnounced
    <3>2. CASE \E i \in DOMAIN chan : chan[i].kind = "receive" /\ chan[i].id = r
      BY <3>2, <2>1, <1>2 DEF Announced
    <3>3. CASE \E i \in DOMAIN queue : queue[i].kind = "receive" /\ queue[i].id = r
      <4>1. PICK i \in DOMAIN queue : queue[i].kind = "receive" /\ queue[i].id = r
        BY <3>3
      <4>2. CASE i = 1
        BY <4>1, <4>2, <2>1 DEF Announced
      <4>3. CASE i # 1
        BY <4>1, <4>3, <2>1 DEF Announced
      <4>4. QED BY <4>2, <4>3
    <3>4. QED
      BY <3>1, <3>2, <3>3, AnnouncedBy
  <2>6. QED
    BY <1>0, <2>2, <2>3, <2>4, <2>5 DEF UrcInv, SlotsArrived, MessagesInOrder, messages
<1>3. CASE queue = <<>> /\ chan # <<>> /\ urc' = Head(chan) /\ chan' = Tail(chan) /\ UNCHANGED queue
  <2>1. /\ urc' = chan[1] /\ urc' \in Urcs /\ 1 \in DOMAIN chan /\ chan' \in Seq(Urcs) /\ DOMAIN queue = {}
        /\ \A i \in DOMAIN chan' : i \in Int /\ i + 1 \in DOMAIN chan /\ 1 < i + 1 /\ chan'[i] = chan[i + 1]
        /\ \A i \in DOMAIN chan : i = 1 \/ (i - 1 \in DOMAIN chan' /\ chan'[i - 1] = chan[i])
    BY <1>0, <1>3, TailFacts DEF UrcTypeOK
  <2>2. UrcTypeOK' /\ AcksAreOfCall' /\ OkIsAcked'
    BY <1>0, <1>3, <2>1 DEF UrcInv, UrcTypeOK, AcksAreOfCall, OkIsAcked, driver, broker, messages
  <2>3. AnnouncedStored' /\ HandledFirst' /\ OnlyMessages'
    <3>1. AnnouncedStored' /\ OnlyMessages'
      BY <1>0, <1>1, <1>3, <2>1 DEF UrcInv, AnnouncedStored, OnlyMessages
    <3>2. HandledFirst'
      BY <1>0, <1>1, <1>3, <2>1 DEF UrcInv, HandledFirst, messages
    <3>3. QED BY <3>1, <3>2
  <2>4. AnnouncedInOrder'
    BY <1>1, <1>3, <2>1 DEF UrcInv, AnnouncedInOrder
  <2>5. EveryMessageAnnounced'
    <3> SUFFICES ASSUME ~foreign, NEW r \in Slots, slot[r] # 0 PROVE Announced(r)'
      BY <1>0 DEF EveryMessageAnnounced, messages
    <3>1. Announced(r) /\ ~(urc.kind = "receive")
      BY <1>0, NoUrcKind DEF UrcInv, EveryMessageAnnounced
    <3>2. CASE \E i \in DOMAIN queue : queue[i].kind = "receive" /\ queue[i].id = r
      BY <3>2, <2>1, <1>3 DEF Announced
    <3>3. CASE \E i \in DOMAIN chan : chan[i].kind = "receive" /\ chan[i].id = r
      <4>1. PICK i \in DOMAIN chan : chan[i].kind = "receive" /\ chan[i].id = r
        BY <3>3
      <4>2. CASE i = 1
        BY <4>1, <4>2, <2>1 DEF Announced
      <4>3. CASE i # 1
        BY <4>1, <4>3, <2>1 DEF Announced
      <4>4. QED BY <4>2, <4>3
    <3>4. QED
      BY <3>1, <3>2, <3>3, AnnouncedBy
  <2>6. QED
    BY <1>0, <2>2, <2>3, <2>4, <2>5 DEF UrcInv, SlotsArrived, MessagesInOrder, messages
<1>4. QED BY <1>2, <1>3 DEF AwaitResponse

LEMMA HandleUrcKept == UrcInv /\ HandleUrc => UrcInv'
<1> SUFFICES ASSUME UrcInv, HandleUrc PROVE UrcInv'
  OBVIOUS
<1>0. /\ UrcTypeOK /\ UNCHANGED <<driver, chan, queue, broker, arrived, results>>
      /\ mpc = "idle" /\ urc' = NoUrc /\ urc # NoUrc /\ urc'.kind # "receive"
  BY NoUrcKind DEF UrcInv, HandleUrc
<1>1. AcksAreOfCall' /\ OkIsAcked'
  BY <1>0 DEF UrcInv, AcksAreOfCall, OkIsAcked, driver, broker
<1>2. CASE /\ urc.kind = "receive" /\ handled' = Append(handled, slot[urc.id])
           /\ slot' = [slot EXCEPT ![urc.id] = 0] /\ UNCHANGED <<foreign, ufaults>>
  <2>1. urc.id \in Slots /\ slot[urc.id] > 0 /\ slot[urc.id] \in Nat /\ slot' \in [Slots -> Nat]
        /\ \A r \in Slots : (r # urc.id => slot'[r] = slot[r]) /\ (r = urc.id => slot'[r] = 0)
    BY <1>0, <1>2 DEF UrcInv, UrcTypeOK, AnnouncedStored, Stored
  <2>2. /\ handled' \in Seq(Nat) /\ Len(handled) \in Nat
        /\ \A h \in DOMAIN handled' : \/ h = Len(handled) + 1 /\ handled'[h] = slot[urc.id]
                                      \/ h \in DOMAIN handled /\ h < Len(handled) + 1 /\ handled'[h] = handled[h]
    BY <1>0, <1>2, <2>1, AppendFacts DEF UrcTypeOK
  <2>3. UrcTypeOK'
    BY <1>0, <1>2, <2>1, <2>2 DEF UrcTypeOK, driver, broker
  <2>4. /\ \A i \in DOMAIN queue : queue[i].kind = "receive" =>
             queue[i].id \in Slots /\ slot'[queue[i].id] = slot[queue[i].id] /\ slot[urc.id] < slot[queue[i].id]
        /\ \A i \in DOMAIN chan : chan[i].kind = "receive" =>
             chan[i].id \in Slots /\ slot'[chan[i].id] = slot[chan[i].id] /\ slot[urc.id] < slot[chan[i].id]
    BY <1>2, <2>1 DEF UrcInv, AnnouncedStored, AnnouncedInOrder, Stored, Earlier
  <2>5. AnnouncedStored' /\ AnnouncedInOrder' /\ OnlyMessages' /\ SlotsArrived'
    <3>1. AnnouncedStored' /\ OnlyMessages'
      BY <1>0, <1>2, <2>4 DEF UrcInv, AnnouncedStored, OnlyMessages, Stored
    <3>2. AnnouncedInOrder'
      BY <1>0, <2>4 DEF UrcInv, AnnouncedInOrder, Earlier
    <3>3. SlotsArrived'
      BY SMTT(30), <1>0, <2>1 DEF UrcInv, UrcTypeOK, SlotsArrived
    <3>4. QED BY <3>1, <3>2, <3>3
  <2>6. HandledFirst'
    <3>1. slot[urc.id] <= arrived
      BY <2>1 DEF UrcInv, SlotsArrived
    <3>2. QED
      BY <3>1, <1>0, <2>2, <2>4 DEF UrcInv, HandledFirst, Later
  <2>7. MessagesInOrder'
    BY <1>2, <2>2 DEF UrcInv, HandledFirst, MessagesInOrder, Later
  <2>8. EveryMessageAnnounced'
    <3> SUFFICES ASSUME ~foreign, NEW r \in Slots, slot'[r] # 0 PROVE Announced(r)'
      BY <1>2 DEF EveryMessageAnnounced
    <3>1. r # urc.id /\ slot[r] # 0
      BY <2>1
    <3>2. Announced(r)
      BY <3>1 DEF UrcInv, EveryMessageAnnounced
    <3>3. QED
      BY <3>1, <3>2, <1>0, AnnouncedBy DEF Announced
  <2>9. QED
    BY <1>1, <2>3, <2>5, <2>6, <2>7, <2>8 DEF UrcInv
<1>3. CASE UNCHANGED <<handled, slot>> /\ foreign' \in BOOLEAN /\ ufaults' \in Nat
           /\ (foreign' \/ (foreign' = foreign /\ urc.kind # "receive"))
  <2>1. UrcTypeOK'
    BY <1>0, <1>3 DEF UrcTypeOK, driver, broker
  <2>2. AnnouncedStored' /\ AnnouncedInOrder' /\ HandledFirst' /\ SlotsArrived' /\ MessagesInOrder' /\ OnlyMessages'
    BY <1>0, <1>3 DEF UrcInv, AnnouncedStored, AnnouncedInOrder, HandledFirst, SlotsArrived,
      MessagesInOrder, OnlyMessages, Stored, Earlier, Later
  <2>3. EveryMessageAnnounced'
    BY <1>0, <1>3, AnnouncedBy DEF UrcInv, EveryMessageAnnounced, Announced
  <2>4. QED
    BY <1>1, <2>1, <2>2, <2>3 DEF UrcInv
<1>4. CASE urc.kind = "receive" /\ UrcFault(TRUE) /\ foreign' = TRUE /\ UNCHANGED <<handled, slot>>
  BY <1>0, <1>3, <1>4 DEF UrcFault, UrcTypeOK
<1>5. CASE urc.kind # "receive" /\ UNCHANGED <<handled, slot, foreign, ufaults>>
  BY <1>0, <1>3, <1>5 DEF UrcTypeOK
<1>6. QED
  BY <1>2, <1>4, <1>5 DEF HandleUrc

LEMMA AckTimeoutKept == UrcInv /\ AckTimeout => UrcInv'
<1> SUFFICES ASSUME UrcInv, AckTimeout PROVE UrcInv'
  OBVIOUS
<1>1. /\ UrcTypeOK /\ UNCHANGED <<next_tx_msg_id, calls, urcs, broker, messages, results, foreign>>
      /\ mpc' = "idle" /\ ufaults' \in Nat
  BY DEF UrcInv, UrcTypeOK, AckTimeout, UrcFault
<1>2. UrcTypeOK'
  BY <1>1 DEF UrcTypeOK, urcs, broker, messages
<1>3. QED
  BY <1>1, <1>2 DEF UrcInv, urcs, broker, messages, OkIsAcked, AcksAreOfCall, AnnouncedStored,
    AnnouncedInOrder, HandledFirst, SlotsArrived, MessagesInOrder, OnlyMessages,
    EveryMessageAnnounced, Stored, Earlier, Later, Announced

(* quectel.rs, publish, subscribe and receive: whatever result codes arrive while the driver  *)
(* waits for another, Ok from publish means that the broker acknowledged that very call,      *)
(* messages are handed on in the order of their arrival, and no message lies in the modem     *)
(* unannounced. For any number of slots that the queue of unexpected codes has room for.      *)
THEOREM UrcsHandledRight == UrcSpec => []UrcsAreHandled
<1>1. UrcInv /\ [UrcNext]_urcVars => UrcInv'
  <2> SUFFICES ASSUME UrcInv, [UrcNext]_urcVars PROVE UrcInv'
    OBVIOUS
  <2>1. CASE UNCHANGED urcVars
    <3>1. UrcTypeOK'
      BY <2>1 DEF UrcInv, UrcTypeOK, urcVars, driver, urcs, broker, messages
    <3>2. QED
      BY <2>1, <3>1 DEF urcVars, driver, UrcInv, urcs, broker, messages, OkIsAcked, AcksAreOfCall,
        AnnouncedStored, AnnouncedInOrder, HandledFirst, SlotsArrived, MessagesInOrder, OnlyMessages,
        EveryMessageAnnounced, Stored, Earlier, Later, Announced, Matches
  <2>2. QED
    BY <2>1, CallBrokerKept, AnswerKept, ArriveKept, AwaitAckedKept, AckTimeoutKept,
      AwaitResponseKept, HandleUrcKept DEF UrcNext, CallKinds
<1>2. UrcInv => UrcsAreHandled
  BY DEF UrcInv, UrcsAreHandled
<1>3. QED
  BY <1>1, <1>2, UrcInitKept, PTL DEF UrcSpec

-----------------------------------------------------------------------------
(* bq25672.rs *)

LEMMA SeqWidens == ASSUME NEW T PROVE \A S : S \subseteq T => \A s \in Seq(S) : s \in Seq(T)
OBVIOUS

(* The accesses of the charger's registers: writes, reads without an effect, and reads that   *)
(* clear a flag.                                                                              *)
RegValues == {"", "default", "set", "reset", "ibat", "enabled", "start", "BatteryOnly", "Adapter", "USB"}
Settable == ConfigRegs \cup {"Control4", "InputVoltageLimit"}
FlagNames == {"Flag0", "Flag1", "Flag2", "Flag3", "FaultFlag0", "FaultFlag1"}
PlainNames == {"PartInformation", "ReChargeControl", "ADCIbus", "ADCIbat", "ADCVac1", "ADCVac2", "ADCVbat",
               "ADCVsys", "Status0", "Status1", "Status2", "Status3", "Status4", "InputCurrentOptimalLimit",
               "InputVoltageLimit", "InputCurrentLimit", "Fault0", "Fault1"}
Writes == [write : {TRUE}, reg : Settable \cup {"ADCControl"}, val : RegValues]
PlainReads == [write : {FALSE}, reg : PlainNames, val : {""}]
FlagReads == [write : {FALSE}, reg : FlagNames, val : {""}]
Accesses == Writes \cup PlainReads \cup FlagReads

(* Accesses that leave every setting but the watchdog's as configure left it. *)
Harmless ==
  PlainReads \cup
  {a \in Writes : /\ a.val # "reset" /\ a.val # "ibat" /\ a.reg # "Control5"
                  /\ a.reg \in ConfigRegs \ {"Control1"} => a.val = "set"}

Operations == {"none", "configure", "await_change", "select_source", "measure_power", "set_watchdog", "status"}

ChTypeOK ==
  /\ latched \in BOOLEAN /\ unmasked \in BOOLEAN /\ ready \in BOOLEAN
  /\ flags \in SUBSET Events /\ cregs \in [Settable -> RegValues]
  /\ cop \in Operations /\ todo \in Seq(Accesses)
  /\ wait \in {"", "begin", "register", "look", "parked"}
  /\ configured \in BOOLEAN /\ ibatFault \in BOOLEAN

(* While it waits an operation has nothing to do, and only two of them wait. *)
Quiet ==
  /\ cop = "none" => wait = "" /\ todo = <<>>
  /\ wait # "" => todo = <<>> /\ cop \in {"await_change", "measure_power"}

(* An event that await_change would report is still to be read, or its edge is on its way. *)
Toread == UNION {EventsOf[todo[i].reg] : i \in DOMAIN todo}
Waking ==
  /\ cop = "await_change" => todo \in Seq(FlagReads)
  /\ cop = "await_change" /\ wait \in {"", "begin"} => flags \subseteq Insignificant \cup Toread \/ latched \/ ready
  /\ wait \in {"register", "look", "parked"} => unmasked \/ ready
  /\ cop = "await_change" /\ wait \in {"register", "look", "parked"} =>
       flags \subseteq Insignificant \/ (latched /\ unmasked) \/ ready

(* A measurement ends by switching EN_IBAT off. *)
EndsOff ==
  /\ todo # <<>> /\ todo[Len(todo)] = IbatOff
  /\ \A i \in DOMAIN todo : i # Len(todo) => todo[i] \in PlainReads
Measuring ==
  cop = "measure_power" /\ wait = "" =>
    \/ todo = MeasureAccesses
    \/ todo = <<WriteReg("ADCControl", "start"), ReadReg("Flag2")>>
    \/ todo = <<ReadReg("Flag2")>>
    \/ EndsOff
IbatKept == cregs["Control5"] = "ibat" => ibatFault \/ cop = "measure_power"

(* What configure has not set yet it has still to set. *)
Configuring ==
  cop = "configure" =>
    /\ todo # <<>>
    /\ \A i \in DOMAIN todo : todo[i] \in PlainReads \/ (todo[i] \in Writes /\ todo[i].val \in {"set", "reset"})
    /\ \A i \in DOMAIN todo : i > 1 => todo[i].val # "reset"
    /\ \A r \in ConfigRegs : \/ cregs[r] = "set" /\ Head(todo).val # "reset"
                             \/ \E i \in DOMAIN todo : todo[i] = WriteReg(r, "set")

Others == cop \in {"select_source", "set_watchdog", "status"} => todo \in Seq(Harmless)

(* What counts as configured is, but for EN_IBAT while the battery's current is measured.     *)
Whole ==
  configured =>
    /\ cop # "configure"
    /\ \A r \in ConfigRegs \ {"Control1"} :
         cregs[r] = "set" \/ (r = "Control5" /\ (ibatFault \/ cop = "measure_power"))

ChInv ==
  ChTypeOK /\ Quiet /\ Waking /\ Measuring /\ IbatKept /\ Configuring /\ Others /\ Whole

-----------------------------------------------------------------------------
(* What the tables say. *)

LEMMA EventFacts ==
  /\ DOMAIN EventsOf = FlagNames
  /\ EventsOf["Flag0"] = {"dpm", "power"} /\ EventsOf["Flag1"] = {"ico"} /\ EventsOf["Flag2"] = {"adc"}
  /\ EventsOf["Flag3"] = {"temperature"} /\ EventsOf["FaultFlag0"] = {"overvoltage"}
  /\ EventsOf["FaultFlag1"] = {"shutdown"}
<1>1. {FlagRegs[i] : i \in 1 .. 6} = FlagNames
  <2>1. /\ FlagRegs[1] = "Flag0" /\ FlagRegs[2] = "Flag1" /\ FlagRegs[3] = "Flag2" /\ FlagRegs[4] = "Flag3"
        /\ FlagRegs[5] = "FaultFlag0" /\ FlagRegs[6] = "FaultFlag1"
    BY DEF FlagRegs
  <2>2. \A i \in 1 .. 6 : i = 1 \/ i = 2 \/ i = 3 \/ i = 4 \/ i = 5 \/ i = 6
    OBVIOUS
  <2>3. \A i \in 1 .. 6 : FlagRegs[i] \in FlagNames
    BY <2>1, <2>2 DEF FlagNames
  <2>4. \A n \in FlagNames : \E i \in 1 .. 6 : FlagRegs[i] = n
    BY <2>1 DEF FlagNames
  <2>5. QED BY <2>3, <2>4
<1>2. EventsOf = [r \in FlagNames |->
        CASE r = "Flag0" -> {"dpm", "power"}
          [] r = "Flag1" -> {"ico"}
          [] r = "Flag2" -> {"adc"}
          [] r = "Flag3" -> {"temperature"}
          [] r = "FaultFlag0" -> {"overvoltage"}
          [] r = "FaultFlag1" -> {"shutdown"}]
  BY <1>1, Zenon DEF EventsOf
<1>3. QED BY <1>2 DEF FlagNames

LEMMA FlagFacts ==
  /\ FlagAccesses \in Seq(FlagReads) /\ Len(FlagAccesses) = 6 /\ DOMAIN FlagAccesses = 1 .. 6
  /\ Events = UNION {EventsOf[FlagAccesses[i].reg] : i \in DOMAIN FlagAccesses}
  /\ \A r \in FlagNames : Cleared(r) = EventsOf[r] /\ Cleared(r) # {}
  /\ \A r \in PlainNames : Cleared(r) = {}
  /\ \A r \in FlagNames : EventsOf[r] \subseteq Events
<1>1. \A i \in 1 .. 6 : FlagRegs[i] \in FlagNames
  <2>1. \A i \in 1 .. 6 : i = 1 \/ i = 2 \/ i = 3 \/ i = 4 \/ i = 5 \/ i = 6
    OBVIOUS
  <2>2. QED BY <2>1 DEF FlagRegs, FlagNames
<1>2. \A r \in FlagNames : ReadReg(r) \in FlagReads /\ ReadReg(r).reg = r
  BY DEF ReadReg, FlagReads
<1>3. FlagAccesses \in Seq(FlagReads) /\ Len(FlagAccesses) = 6 /\ DOMAIN FlagAccesses = 1 .. 6
  BY <1>1, <1>2 DEF FlagAccesses
<1>4. \A i \in 1 .. 6 : FlagAccesses[i].reg = FlagRegs[i]
  BY <1>1, <1>2 DEF FlagAccesses
<1>5. \A r \in FlagNames : \E i \in 1 .. 6 : FlagRegs[i] = r
  <2>1. /\ FlagRegs[1] = "Flag0" /\ FlagRegs[2] = "Flag1" /\ FlagRegs[3] = "Flag2" /\ FlagRegs[4] = "Flag3"
        /\ FlagRegs[5] = "FaultFlag0" /\ FlagRegs[6] = "FaultFlag1"
    BY DEF FlagRegs
  <2>2. QED BY <2>1 DEF FlagNames
<1>6. Events = UNION {EventsOf[r] : r \in FlagNames}
  BY EventFacts DEF Events
<1>7. Events = UNION {EventsOf[FlagAccesses[i].reg] : i \in DOMAIN FlagAccesses}
  BY <1>1, <1>3, <1>4, <1>5, <1>6
<1>8. \A r \in FlagNames : Cleared(r) = EventsOf[r] /\ Cleared(r) # {}
  BY EventFacts DEF Cleared, FlagNames
<1>9. \A r \in PlainNames : Cleared(r) = {}
  BY EventFacts DEF Cleared, PlainNames, FlagNames
<1>10. QED BY <1>3, <1>6, <1>7, <1>8, <1>9

LEMMA AccessFacts ==
  /\ \A r \in Settable \cup {"ADCControl"}, v \in RegValues :
       WriteReg(r, v) \in Writes /\ WriteReg(r, v).reg = r /\ WriteReg(r, v).val = v
  /\ \A r \in PlainNames : ReadReg(r) \in PlainReads
  /\ IbatOff = WriteReg("Control5", "set") /\ IbatOn = WriteReg("Control5", "ibat")
  /\ ReadReg("Flag2") \in FlagReads /\ ReadReg("Flag2").reg = "Flag2"
  /\ \A a \in Writes : a.write /\ a.reg \in Settable \cup {"ADCControl"} /\ a.val \in RegValues
  /\ \A a \in PlainReads : ~a.write /\ a.reg \in PlainNames /\ a.val = ""
  /\ \A a \in FlagReads : ~a.write /\ a.reg \in FlagNames /\ a.val = ""
<1>1. \A r \in Settable \cup {"ADCControl"}, v \in RegValues :
        WriteReg(r, v) \in Writes /\ WriteReg(r, v).reg = r /\ WriteReg(r, v).val = v
  BY DEF WriteReg, Writes
<1>2. \A r \in PlainNames : ReadReg(r) \in PlainReads
  BY DEF ReadReg, PlainReads
<1>3. IbatOff = WriteReg("Control5", "set") /\ IbatOn = WriteReg("Control5", "ibat")
  BY DEF IbatOn, IbatOff
<1>4. ReadReg("Flag2") \in FlagReads /\ ReadReg("Flag2").reg = "Flag2"
  BY DEF ReadReg, FlagReads, FlagNames
<1>5. \A a \in Writes : a.write /\ a.reg \in Settable \cup {"ADCControl"} /\ a.val \in RegValues
  BY DEF Writes
<1>6. \A a \in PlainReads : ~a.write /\ a.reg \in PlainNames /\ a.val = ""
  BY DEF PlainReads
<1>7. \A a \in FlagReads : ~a.write /\ a.reg \in FlagNames /\ a.val = ""
  BY DEF FlagReads
<1>8. QED BY <1>1, <1>2, <1>3, <1>4, <1>5, <1>6, <1>7

(* A write changes its register, or resets them all. *)
LEMMA WrittenFacts ==
  ASSUME ChTypeOK, NEW a \in Writes
  PROVE  /\ Written(a) \in [Settable -> RegValues]
         /\ a.val = "reset" => \A r \in Settable : Written(a)[r] = "default"
         /\ a.val # "reset" => \A r \in Settable : Written(a)[r] = IF r = a.reg THEN a.val ELSE cregs[r]
<1>1. cregs \in [Settable -> RegValues] /\ DOMAIN cregs = Settable
  BY DEF ChTypeOK
<1>2. Defaults \in [Settable -> RegValues] /\ \A r \in Settable : Defaults[r] = "default"
  BY DEF Defaults, Settable, RegValues
<1>3. a.val \in RegValues
  BY AccessFacts
<1>4. CASE a.val = "reset"
  BY <1>2, <1>4 DEF Written
<1>5. CASE a.val # "reset" /\ a.reg \in Settable
  BY <1>1, <1>3, <1>5 DEF Written
<1>6. CASE a.val # "reset" /\ a.reg \notin Settable
  BY <1>1, <1>6 DEF Written
<1>7. QED BY <1>4, <1>5, <1>6

-----------------------------------------------------------------------------
(* The sequences of the operations. *)

LEMMA Spelled ==
  /\ ConfigRegs \subseteq Settable \cup {"ADCControl"} /\ "ADCControl" \in Settable \cup {"ADCControl"}
  /\ "InputVoltageLimit" \in Settable \cup {"ADCControl"} /\ "Control4" \in Settable \cup {"ADCControl"}
  /\ "InputVoltageLimit" \notin ConfigRegs /\ "Control4" \notin ConfigRegs /\ "ADCControl" \notin Settable
  /\ "Control5" \in ConfigRegs /\ "TerminationControl" \in ConfigRegs /\ "Control0" \in ConfigRegs
  /\ "Control1" \in ConfigRegs /\ "Control5" \in Settable
  /\ "set" \in RegValues /\ "reset" \in RegValues /\ "start" \in RegValues /\ "ibat" \in RegValues
  /\ "Adapter" \in RegValues /\ "USB" \in RegValues /\ "enabled" \in RegValues
BY DEF Settable, ConfigRegs, RegValues

LEMMA NamedAccesses ==
  /\ IbatOn \in Writes /\ IbatOn.reg = "Control5" /\ IbatOn.val = "ibat"
  /\ IbatOff \in Writes /\ IbatOff.reg = "Control5" /\ IbatOff.val = "set"
  /\ WriteReg("ADCControl", "start") \in Writes /\ WriteReg("ADCControl", "start").reg = "ADCControl"
  /\ WriteReg("ADCControl", "start").val = "start"
  /\ WriteReg("TerminationControl", "reset") \in Writes /\ WriteReg("TerminationControl", "reset").val = "reset"
  /\ ReadReg("Flag2") \in FlagReads /\ ReadReg("Flag2").reg = "Flag2"
<1>1. IbatOn \in Writes /\ IbatOn.reg = "Control5" /\ IbatOn.val = "ibat"
  BY Spelled DEF IbatOn, WriteReg, Writes
<1>2. IbatOff \in Writes /\ IbatOff.reg = "Control5" /\ IbatOff.val = "set"
  BY Spelled DEF IbatOff, WriteReg, Writes
<1>3. /\ WriteReg("ADCControl", "start") \in Writes /\ WriteReg("ADCControl", "start").reg = "ADCControl"
      /\ WriteReg("ADCControl", "start").val = "start"
  BY Spelled DEF WriteReg, Writes
<1>4. WriteReg("TerminationControl", "reset") \in Writes /\ WriteReg("TerminationControl", "reset").val = "reset"
  BY Spelled DEF WriteReg, Writes
<1>5. QED BY <1>1, <1>2, <1>3, <1>4, AccessFacts

LEMMA HarmlessFacts ==
  /\ \A a \in Harmless : a \in Accesses /\ (a.write => a \in Writes)
  /\ \A a \in Harmless : a.write => /\ a.val # "reset" /\ a.val # "ibat" /\ a.reg # "Control5"
                                    /\ a.reg \in ConfigRegs \ {"Control1"} => a.val = "set"
  /\ \A a \in Accesses : a.write => a \in Writes
  /\ \A a \in Accesses : ~a.write => a.val = ""
BY AccessFacts DEF Harmless, Accesses

LEMMA OtherSequences ==
  /\ \A source \in {"BatteryOnly", "Adapter", "USB"} : SelectAccesses(source) \in Seq(Harmless)
  /\ \A config \in {"set", "enabled"} : <<WriteReg("Control1", config)>> \in Seq(Harmless)
  /\ \A s \in StatusAccesses : s \in Seq(Harmless)
<1>1. \A r \in PlainNames : ReadReg(r) \in Harmless
  BY AccessFacts DEF Harmless
<1>2. \A source \in {"Adapter", "USB"} :
        WriteReg("InputVoltageLimit", source) \in Harmless /\ WriteReg("Control4", source) \in Harmless
  <2> SUFFICES ASSUME NEW source \in {"Adapter", "USB"}
               PROVE  WriteReg("InputVoltageLimit", source) \in Harmless /\ WriteReg("Control4", source) \in Harmless
    OBVIOUS
  <2>1. source \in RegValues /\ source # "reset" /\ source # "ibat"
    BY Spelled
  <2>2. QED BY <2>1, Spelled DEF WriteReg, Writes, Harmless
<1>3. WriteReg("Control0", "set") \in Harmless
  BY Spelled DEF WriteReg, Writes, Harmless
<1>4. \A config \in {"set", "enabled"} : WriteReg("Control1", config) \in Harmless
  <2> SUFFICES ASSUME NEW config \in {"set", "enabled"} PROVE WriteReg("Control1", config) \in Harmless
    OBVIOUS
  <2>1. config \in RegValues /\ config # "reset" /\ config # "ibat"
    BY Spelled
  <2>2. QED BY <2>1, Spelled DEF WriteReg, Writes, Harmless
<1>5. \A config \in {"set", "enabled"} : <<WriteReg("Control1", config)>> \in Seq(Harmless)
  BY <1>4
<1>6. ASSUME NEW source \in {"BatteryOnly", "Adapter", "USB"} PROVE SelectAccesses(source) \in Seq(Harmless)
  <2> DEFINE s == IF source = "BatteryOnly" THEN <<>> ELSE <<WriteReg("InputVoltageLimit", source)>>
             m == <<WriteReg("Control0", "set")>>
             t == IF source = "BatteryOnly" THEN <<>> ELSE <<WriteReg("Control4", source)>>
  <2>1. s \in Seq(Harmless) /\ t \in Seq(Harmless)
    BY <1>2, <1>6
  <2>2. m \in Seq(Harmless)
    BY <1>3
  <2>3. SelectAccesses(source) = (s \o m) \o t
    BY DEF SelectAccesses
  <2> HIDE DEF s, m, t
  <2>4. s \o m \in Seq(Harmless)
    BY <2>1, <2>2
  <2>5. QED BY <2>1, <2>3, <2>4
<1>7. ASSUME NEW s \in StatusAccesses PROVE s \in Seq(Harmless)
  <2>1. CASE s = <<ReadReg("Status0"), ReadReg("Status1"), ReadReg("Status2"), ReadReg("Status3")>>
    <3>1. /\ ReadReg("Status0") \in Harmless /\ ReadReg("Status1") \in Harmless
          /\ ReadReg("Status2") \in Harmless /\ ReadReg("Status3") \in Harmless
      BY <1>1 DEF PlainNames
    <3>2. QED BY <2>1, <3>1
  <2>2. CASE s = <<ReadReg("Status2"), ReadReg("Status4")>>
    <3>1. ReadReg("Status2") \in Harmless /\ ReadReg("Status4") \in Harmless
      BY <1>1 DEF PlainNames
    <3>2. QED BY <2>2, <3>1
  <2>3. CASE s = <<ReadReg("InputCurrentOptimalLimit"), ReadReg("InputVoltageLimit"), ReadReg("InputCurrentLimit")>>
    <3>1. /\ ReadReg("InputCurrentOptimalLimit") \in Harmless /\ ReadReg("InputVoltageLimit") \in Harmless
          /\ ReadReg("InputCurrentLimit") \in Harmless
      BY <1>1 DEF PlainNames
    <3>2. QED BY <2>3, <3>1
  <2>4. CASE s = <<ReadReg("Fault0"), ReadReg("Fault1")>>
    <3>1. ReadReg("Fault0") \in Harmless /\ ReadReg("Fault1") \in Harmless
      BY <1>1 DEF PlainNames
    <3>2. QED BY <2>4, <3>1
  <2>5. QED BY <1>7, <2>1, <2>2, <2>3, <2>4, Zenon DEF StatusAccesses
<1>8. QED BY <1>5, <1>6, <1>7

LEMMA MeasureSequences ==
  /\ MeasureAccesses \in Seq(Accesses) /\ Len(MeasureAccesses) = 3 /\ Head(MeasureAccesses) = IbatOn
  /\ Tail(MeasureAccesses) = <<WriteReg("ADCControl", "start"), ReadReg("Flag2")>>
  /\ <<WriteReg("ADCControl", "start"), ReadReg("Flag2")>> \in Seq(Accesses)
  /\ Head(<<WriteReg("ADCControl", "start"), ReadReg("Flag2")>>) = WriteReg("ADCControl", "start")
  /\ Tail(<<WriteReg("ADCControl", "start"), ReadReg("Flag2")>>) = <<ReadReg("Flag2")>>
  /\ Len(<<WriteReg("ADCControl", "start"), ReadReg("Flag2")>>) = 2
  /\ <<ReadReg("Flag2")>> \in Seq(Accesses) /\ Head(<<ReadReg("Flag2")>>) = ReadReg("Flag2")
  /\ Len(<<ReadReg("Flag2")>>) = 1
  /\ <<IbatOff>> \in Seq(Accesses) /\ Len(<<IbatOff>>) = 1 /\ <<IbatOff>>[1] = IbatOff
<1>1. /\ IbatOn \in Accesses /\ IbatOff \in Accesses /\ WriteReg("ADCControl", "start") \in Accesses
      /\ ReadReg("Flag2") \in Accesses
  BY NamedAccesses DEF Accesses
<1>2. /\ MeasureAccesses \in Seq(Accesses) /\ Len(MeasureAccesses) = 3 /\ Head(MeasureAccesses) = IbatOn
      /\ Tail(MeasureAccesses) = <<WriteReg("ADCControl", "start"), ReadReg("Flag2")>>
  BY <1>1 DEF MeasureAccesses
<1>3. /\ <<WriteReg("ADCControl", "start"), ReadReg("Flag2")>> \in Seq(Accesses)
      /\ Head(<<WriteReg("ADCControl", "start"), ReadReg("Flag2")>>) = WriteReg("ADCControl", "start")
      /\ Tail(<<WriteReg("ADCControl", "start"), ReadReg("Flag2")>>) = <<ReadReg("Flag2")>>
      /\ Len(<<WriteReg("ADCControl", "start"), ReadReg("Flag2")>>) = 2
  BY <1>1
<1>4. /\ <<ReadReg("Flag2")>> \in Seq(Accesses) /\ Head(<<ReadReg("Flag2")>>) = ReadReg("Flag2")
      /\ Len(<<ReadReg("Flag2")>>) = 1
  BY <1>1
<1>5. /\ <<IbatOff>> \in Seq(Accesses) /\ Len(<<IbatOff>>) = 1
      /\ <<IbatOff>>[1] = IbatOff
  BY <1>1
<1>6. QED BY <1>2, <1>3, <1>4, <1>5

LEMMA ResultSequence ==
  /\ ResultAccesses \in Seq(Accesses) /\ Len(ResultAccesses) = 7 /\ ResultAccesses[7] = IbatOff
  /\ \A i \in DOMAIN ResultAccesses : i # 7 => ResultAccesses[i] \in PlainReads
<1>1. /\ ReadReg("ADCIbus") \in PlainReads /\ ReadReg("ADCIbat") \in PlainReads /\ ReadReg("ADCVac1") \in PlainReads
      /\ ReadReg("ADCVac2") \in PlainReads /\ ReadReg("ADCVbat") \in PlainReads /\ ReadReg("ADCVsys") \in PlainReads
  BY AccessFacts DEF PlainNames
<1>2. IbatOff \in Accesses /\ \A a \in PlainReads : a \in Accesses
  BY NamedAccesses DEF Accesses
<1>3. /\ ResultAccesses \in Seq(Accesses) /\ Len(ResultAccesses) = 7 /\ ResultAccesses[7] = IbatOff
      /\ DOMAIN ResultAccesses = 1 .. 7
  BY <1>1, <1>2 DEF ResultAccesses
<1>4. /\ ResultAccesses[1] \in PlainReads /\ ResultAccesses[2] \in PlainReads /\ ResultAccesses[3] \in PlainReads
      /\ ResultAccesses[4] \in PlainReads /\ ResultAccesses[5] \in PlainReads /\ ResultAccesses[6] \in PlainReads
  BY <1>1 DEF ResultAccesses
<1>5. \A i \in 1 .. 7 : i = 1 \/ i = 2 \/ i = 3 \/ i = 4 \/ i = 5 \/ i = 6 \/ i = 7
  OBVIOUS
<1>6. QED BY <1>3, <1>4, <1>5

LEMMA ConfigureSequence ==
  /\ ConfigureAccesses \in Seq(Accesses) /\ ConfigureAccesses # <<>> /\ DOMAIN ConfigureAccesses = 1 .. 16
  /\ \A i \in 1 .. 16 : /\ \/ ConfigureAccesses[i] \in PlainReads
                           \/ ConfigureAccesses[i] \in Writes /\ ConfigureAccesses[i].val \in {"set", "reset"}
                        /\ i > 1 => ConfigureAccesses[i].val # "reset"
  /\ \A r \in ConfigRegs : \E i \in 1 .. 16 : ConfigureAccesses[i] = WriteReg(r, "set")
<1> DEFINE c == ConfigureAccesses
<1>1. /\ c[1] = WriteReg("TerminationControl", "reset") /\ c[2] = ReadReg("PartInformation")
      /\ c[3] = ReadReg("ReChargeControl") /\ c[4] = WriteReg("MinSystemVoltage", "set")
      /\ c[5] = WriteReg("ChargeVoltageLimit", "set") /\ c[6] = WriteReg("ChargeCurrentLimit", "set")
      /\ c[7] = WriteReg("TerminationControl", "set") /\ c[8] = WriteReg("TimerControl", "set")
      /\ c[9] = WriteReg("Control0", "set") /\ c[10] = WriteReg("Control1", "set")
      /\ c[11] = WriteReg("Control2", "set") /\ c[12] = IbatOff
      /\ c[13] = WriteReg("ADCDisable0", "set") /\ c[14] = WriteReg("ADCDisable1", "set")
      /\ c[15] = WriteReg("Mask0", "set") /\ c[16] = WriteReg("Mask1", "set")
  BY DEF ConfigureAccesses
<1>2. c[12] = WriteReg("Control5", "set")
  BY <1>1, AccessFacts
<1>3. \A r \in ConfigRegs : WriteReg(r, "set") \in Writes /\ WriteReg(r, "set").val = "set"
  BY AccessFacts, Spelled
<1> HIDE DEF c
<1>4. c[1] \in Writes /\ c[1].val = "reset"
  BY <1>1, NamedAccesses
<1>5. c[2] \in PlainReads /\ c[3] \in PlainReads /\ c[2].val = "" /\ c[3].val = ""
  <2>1. ReadReg("PartInformation") \in PlainReads /\ ReadReg("ReChargeControl") \in PlainReads
    BY AccessFacts DEF PlainNames
  <2>2. ReadReg("PartInformation").val = "" /\ ReadReg("ReChargeControl").val = ""
    BY DEF ReadReg
  <2>3. QED BY <1>1, <2>1, <2>2, Zenon
<1>6. \A i \in 4 .. 16 : \E r \in ConfigRegs : c[i] = WriteReg(r, "set")
  <2>1. \A i \in 4 .. 16 : i = 4 \/ i = 5 \/ i = 6 \/ i = 7 \/ i = 8 \/ i = 9 \/ i = 10 \/ i = 11 \/ i = 12 \/ i = 13
                          \/ i = 14 \/ i = 15 \/ i = 16
    OBVIOUS
  <2>2. QED BY <2>1, <1>1, <1>2 DEF ConfigRegs
<1>7. \A r \in ConfigRegs : \E i \in 1 .. 16 : c[i] = WriteReg(r, "set")
  BY <1>1, <1>2 DEF ConfigRegs
<1>8. Len(c) = 16
  BY DEF ConfigureAccesses, c
<1>9. \A i \in 1 .. 16 : (c[i] \in PlainReads \/ (c[i] \in Writes /\ c[i].val \in {"set", "reset"})) /\ (i > 1 => c[i].val # "reset")
  <2> SUFFICES ASSUME NEW i \in 1 .. 16
               PROVE  (c[i] \in PlainReads \/ (c[i] \in Writes /\ c[i].val \in {"set", "reset"})) /\ (i > 1 => c[i].val # "reset")
    OBVIOUS
  <2>1. i = 1 \/ i = 2 \/ i = 3 \/ i \in 4 .. 16
    OBVIOUS
  <2>2. CASE i \in 4 .. 16
    BY <2>2, <1>3, <1>6
  <2>3. CASE i = 1
    BY <2>3, <1>4
  <2>4. CASE i = 2 \/ i = 3
    BY <2>4, <1>5
  <2>5. QED BY <2>1, <2>2, <2>3, <2>4
<1>10. /\ WriteReg("TerminationControl", "reset") \in Accesses /\ ReadReg("PartInformation") \in Accesses
       /\ ReadReg("ReChargeControl") \in Accesses /\ IbatOff \in Accesses
       /\ \A r \in ConfigRegs : WriteReg(r, "set") \in Accesses
  <2>1. ReadReg("PartInformation") \in PlainReads /\ ReadReg("ReChargeControl") \in PlainReads
    BY AccessFacts DEF PlainNames
  <2>2. QED BY <2>1, <1>3, NamedAccesses DEF Accesses
<1>11. /\ WriteReg("MinSystemVoltage", "set") \in Accesses /\ WriteReg("ChargeVoltageLimit", "set") \in Accesses
       /\ WriteReg("ChargeCurrentLimit", "set") \in Accesses /\ WriteReg("TerminationControl", "set") \in Accesses
       /\ WriteReg("TimerControl", "set") \in Accesses /\ WriteReg("Control0", "set") \in Accesses
       /\ WriteReg("Control1", "set") \in Accesses /\ WriteReg("Control2", "set") \in Accesses
       /\ WriteReg("ADCDisable0", "set") \in Accesses /\ WriteReg("ADCDisable1", "set") \in Accesses
       /\ WriteReg("Mask0", "set") \in Accesses /\ WriteReg("Mask1", "set") \in Accesses
  BY <1>10 DEF ConfigRegs
<1>12. c \in Seq(Accesses) /\ c # <<>> /\ DOMAIN c = 1 .. 16
  BY <1>10, <1>11, <1>8 DEF ConfigureAccesses, c
<1>13. QED BY <1>7, <1>9, <1>12 DEF c

-----------------------------------------------------------------------------
(* The steps *)

LEMMA ChInitKept == ChargerInit => ChInv
<1> SUFFICES ASSUME ChargerInit PROVE ChInv
  OBVIOUS
<1>1. cregs \in [Settable -> RegValues] /\ cregs["Control5"] = "default"
  BY DEF ChargerInit, Defaults, Settable, ConfigRegs, RegValues
<1>0. <<>> \in Seq(Accesses)
  OBVIOUS
<1>2. cop = "none" /\ todo = <<>> /\ wait = "" /\ flags = {} /\ configured = FALSE /\ ibatFault = FALSE
      /\ latched = FALSE /\ unmasked = FALSE /\ ready = FALSE
  BY DEF ChargerInit, TriggerInit
<1>3. ChTypeOK
  BY <1>0, <1>1, <1>2 DEF ChTypeOK, Operations
<1>4. Quiet /\ Waking /\ Measuring /\ IbatKept /\ Configuring /\ Others /\ Whole
  BY <1>1, <1>2 DEF Quiet, Waking, Measuring, IbatKept, Configuring, Others, Whole
<1>5. QED BY <1>3, <1>4 DEF ChInv

(* Only the chip or the line moves. *)
LEMMA LineKept ==
  ASSUME ChInv, UNCHANGED <<cregs, cop, todo, wait, configured, ibatFault>>, Waking',
         latched' \in BOOLEAN, unmasked' \in BOOLEAN, ready' \in BOOLEAN, flags' \in SUBSET Events
  PROVE  ChInv'
<1>1. ChTypeOK'
  BY DEF ChInv, ChTypeOK
<1>2. Quiet' /\ IbatKept' /\ Others' /\ Whole'
  BY DEF ChInv, Quiet, IbatKept, Others, Whole
<1>3. Measuring'
  BY DEF ChInv, Measuring, EndsOff
<1>4. Configuring'
  BY DEF ChInv, Configuring
<1>5. QED BY <1>1, <1>2, <1>3, <1>4 DEF ChInv

(* An event that the mask hides is one that await_change does not report. *)
LEMMA LatchKept ==
  ASSUME ChInv, NEW e \in Events, Latch(e),
         UNCHANGED <<cregs, cop, todo, wait, configured, ibatFault, selected_source>>
  PROVE  ChInv'
<1>1. flags' = flags \cup {e} /\ (Edge \/ (e \in ChargerMask /\ UNCHANGED triggerVars))
  BY DEF Latch
<1>2. /\ latched' \in BOOLEAN /\ unmasked' \in BOOLEAN /\ ready' \in BOOLEAN /\ flags' \in SUBSET Events
      /\ unmasked' = unmasked /\ ready' = ready
  BY <1>1 DEF Edge, triggerVars, ChInv, ChTypeOK
<1>3. Insignificant' = Insignificant /\ ChargerMask \subseteq Insignificant /\ Toread' = Toread
  BY DEF Insignificant, Toread
<1>4. latched' \/ (latched' = latched /\ e \in Insignificant)
  BY <1>1, <1>3 DEF Edge, triggerVars
<1>5. Waking'
  <2> USE DEF Waking
  <2>1. (cop = "await_change" => todo \in Seq(FlagReads))' /\ (wait \in {"register", "look", "parked"} => unmasked \/ ready)'
    BY <1>2 DEF ChInv
  <2>2. (cop = "await_change" /\ wait \in {"", "begin"} => flags \subseteq Insignificant \cup Toread \/ latched \/ ready)'
    BY <1>1, <1>2, <1>3, <1>4 DEF ChInv
  <2>3. (cop = "await_change" /\ wait \in {"register", "look", "parked"} =>
           flags \subseteq Insignificant \/ (latched /\ unmasked) \/ ready)'
    BY <1>1, <1>2, <1>3, <1>4 DEF ChInv
  <2>4. QED BY <2>1, <2>2, <2>3
<1>6. QED BY <1>2, <1>5, LineKept

LEMMA ChargerChipKept == ASSUME ChInv, ChipEvent \/ ConversionDone \/ ChargerIsr PROVE ChInv'
<1>1. CASE ChipEvent
  BY <1>1, LatchKept DEF ChipEvent
<1>2. CASE ConversionDone
  <2>1. "adc" \in Events
    BY EventFacts, FlagFacts DEF FlagNames
  <2>2. QED BY <1>2, <2>1, LatchKept DEF ConversionDone
<1>3. CASE ChargerIsr
  <2>1. /\ latched /\ unmasked /\ ready' = TRUE /\ unmasked' = (unmasked /\ ~ready) /\ latched' = FALSE
        /\ UNCHANGED <<flags, cregs, cop, todo, wait, configured, ibatFault, selected_source>>
    BY <1>3 DEF ChargerIsr, Isr, ChInv, ChTypeOK
  <2>2. Waking'
    BY <2>1 DEF ChInv, Waking
  <2>3. QED BY <2>1, <2>2, LineKept DEF ChInv, ChTypeOK
<1>4. QED BY <1>1, <1>2, <1>3

(* An operation begins. *)
LEMMA BeginKept ==
  ASSUME ChInv, NEW name \in Operations \ {"none"}, NEW s \in Seq(Accesses), Begin(name, s),
         configured' = (configured /\ name # "configure"),
         name = "await_change" => s = FlagAccesses,
         name = "measure_power" => s = MeasureAccesses,
         name = "configure" => s = ConfigureAccesses,
         name \in {"select_source", "set_watchdog", "status"} => s \in Seq(Harmless)
  PROVE  ChInv'
<1>1. cop = "none" /\ cop' = name /\ todo' = s /\ UNCHANGED <<latched, unmasked, ready, flags, cregs, wait, ibatFault>>
  BY DEF Begin
<1>2. wait = "" /\ wait' = ""
  BY <1>1 DEF ChInv, Quiet
<1>3. ChTypeOK' /\ Quiet'
  BY <1>1, <1>2 DEF ChInv, ChTypeOK, Quiet
<1>4. Waking'
  <2>1. cop' = "await_change" => todo' \in Seq(FlagReads)
    BY <1>1, FlagFacts
  <2>2. cop' = "await_change" => flags' \subseteq Toread'
    <3>1. SUFFICES ASSUME todo' = FlagAccesses PROVE flags' \subseteq Toread'
      BY <1>1
    <3>2. Toread' = UNION {EventsOf[FlagAccesses[i].reg] : i \in DOMAIN FlagAccesses}
      BY <3>1, Zenon DEF Toread
    <3>3. Toread' = Events
      BY <3>2, FlagFacts, Zenon
    <3>4. QED BY <1>1, <3>3 DEF ChInv, ChTypeOK
  <2>3. QED BY <2>1, <2>2, <1>2 DEF Waking
<1>5. Measuring' /\ Others'
  BY <1>1 DEF Measuring, Others
<1>6. IbatKept' /\ Whole'
  BY <1>1 DEF ChInv, IbatKept, Whole
<1>7. Configuring'
  <2>1. CASE name = "configure"
    BY <1>1, <2>1, ConfigureSequence DEF Configuring
  <2>2. CASE name # "configure"
    BY <1>1, <2>2 DEF Configuring
  <2>3. QED BY <2>1, <2>2
<1>8. QED BY <1>3, <1>4, <1>5, <1>6, <1>7 DEF ChInv

LEMMA OperationKept == ASSUME ChInv, Operation PROVE ChInv'
<1>0. \A S : S \subseteq Accesses => \A s \in Seq(S) : s \in Seq(Accesses)
  BY SeqWidens
<1>00. Harmless \subseteq Accesses /\ FlagReads \subseteq Accesses
  BY HarmlessFacts DEF Accesses
<1>1. CASE Configure
  BY <1>1, BeginKept, ConfigureSequence DEF Configure, Operations, ChInv, ChTypeOK
<1>2. CASE AwaitChargerChange
  <2>1. FlagAccesses \in Seq(Accesses)
    BY <1>0, <1>00, FlagFacts
  <2>2. QED BY <1>2, <2>1, BeginKept DEF AwaitChargerChange, Operations, ChInv, ChTypeOK
<1>3. CASE SelectSource
  <2>1. PICK source \in {"BatteryOnly", "Adapter", "USB"} :
          Begin("select_source", SelectAccesses(source)) /\ configured' = configured
    BY <1>3 DEF SelectSource
  <2>2. SelectAccesses(source) \in Seq(Harmless) /\ SelectAccesses(source) \in Seq(Accesses)
    BY <1>0, <1>00, OtherSequences
  <2>3. QED BY <2>1, <2>2, BeginKept DEF Operations, ChInv, ChTypeOK
<1>4. CASE MeasurePower
  BY <1>4, BeginKept, MeasureSequences DEF MeasurePower, Operations, ChInv, ChTypeOK
<1>5. CASE SetWatchdog
  <2>1. PICK config \in {"set", "enabled"} :
          Begin("set_watchdog", <<WriteReg("Control1", config)>>) /\ configured' = configured
    BY <1>5 DEF SetWatchdog
  <2>2. <<WriteReg("Control1", config)>> \in Seq(Harmless) /\ <<WriteReg("Control1", config)>> \in Seq(Accesses)
    BY <1>0, <1>00, OtherSequences
  <2>3. QED BY <2>1, <2>2, BeginKept DEF Operations, ChInv, ChTypeOK
<1>6. CASE ReadStatus
  <2>1. PICK s \in StatusAccesses : Begin("status", s) /\ configured' = configured
    BY <1>6 DEF ReadStatus
  <2>2. s \in Seq(Harmless) /\ s \in Seq(Accesses)
    BY <1>0, <1>00, OtherSequences
  <2>3. QED BY <2>1, <2>2, BeginKept DEF Operations, ChInv, ChTypeOK
<1>7. CASE SetCharging
  <2>1. UNCHANGED <<latched, unmasked, ready, flags, cregs, cop, todo, wait, configured, ibatFault, selected_source>>
    BY <1>7 DEF SetCharging
  <2>2. Waking'
    BY <2>1 DEF ChInv, Waking, Insignificant, Toread
  <2>3. QED BY <2>1, <2>2, LineKept DEF ChInv, ChTypeOK
<1>8. QED BY <1>1, <1>2, <1>3, <1>4, <1>5, <1>6, <1>7 DEF Operation

(* An operation returns. *)
LEMMA ReturnKept ==
  ASSUME ChInv, NEW ok \in BOOLEAN, Returns(ok), UNCHANGED <<latched, unmasked, ready>>, flags' \in SUBSET Events,
         cregs' \in [Settable -> RegValues], ibatFault' \in BOOLEAN, IbatKept', Whole'
  PROVE  ChInv'
<1>1. cop' = "none" /\ todo' = <<>> /\ wait' = "" /\ configured' \in BOOLEAN
  BY DEF Returns, ChInv, ChTypeOK
<1>0. <<>> \in Seq(Accesses)
  OBVIOUS
<1>2. ChTypeOK'
  BY <1>0, <1>1 DEF ChInv, ChTypeOK, Operations
<1>3. Quiet' /\ Waking' /\ Measuring' /\ Configuring' /\ Others'
  BY <1>1 DEF Quiet, Waking, Measuring, Configuring, Others
<1>4. QED BY <1>2, <1>3 DEF ChInv

-----------------------------------------------------------------------------
(* The accesses *)

LEMMA InTodo ==
  ASSUME ChInv, todo # <<>>
  PROVE  /\ wait = "" /\ cop # "none" /\ Head(todo) = todo[1] /\ Head(todo) \in Accesses /\ 1 \in DOMAIN todo
         /\ Tail(todo) \in Seq(Accesses) /\ Len(todo) \in Nat \ {0}
         /\ cop = "await_change" => Head(todo) \in FlagReads /\ Tail(todo) \in Seq(FlagReads)
         /\ cop \in {"select_source", "set_watchdog", "status"} => Head(todo) \in Harmless /\ Tail(todo) \in Seq(Harmless)
<1>1. wait = "" /\ cop # "none"
  BY DEF ChInv, Quiet
<1>2. /\ Head(todo) = todo[1] /\ Head(todo) \in Accesses /\ 1 \in DOMAIN todo /\ Tail(todo) \in Seq(Accesses)
      /\ Len(todo) \in Nat \ {0}
  BY TailFacts DEF ChInv, ChTypeOK
<1>3. cop = "await_change" => Head(todo) \in FlagReads /\ Tail(todo) \in Seq(FlagReads)
  BY TailFacts DEF ChInv, Waking
<1>4. cop \in {"select_source", "set_watchdog", "status"} => Head(todo) \in Harmless /\ Tail(todo) \in Seq(Harmless)
  BY TailFacts DEF ChInv, Others
<1>5. QED BY <1>1, <1>2, <1>3, <1>4

(* The measurement's next access, and what is left after it. *)
LEMMA InMeasuring ==
  ASSUME ChInv, todo # <<>>, cop = "measure_power"
  PROVE  \/ Head(todo) = IbatOn /\ Len(todo) = 3 /\ Tail(todo) = <<WriteReg("ADCControl", "start"), ReadReg("Flag2")>>
         \/ Head(todo) = WriteReg("ADCControl", "start") /\ Len(todo) = 2 /\ Tail(todo) = <<ReadReg("Flag2")>>
         \/ Head(todo) = ReadReg("Flag2")
         \/ Head(todo) = IbatOff /\ Len(todo) = 1
         \/ Head(todo) \in PlainReads /\ Len(todo) > 1 /\ Tail(todo) # <<>>
            /\ Tail(todo)[Len(Tail(todo))] = IbatOff
            /\ \A i \in DOMAIN Tail(todo) : i # Len(Tail(todo)) => Tail(todo)[i] \in PlainReads
<1>1. wait = ""
  BY InTodo
<1>2. CASE todo = MeasureAccesses
  BY <1>2, MeasureSequences
<1>3. CASE todo = <<WriteReg("ADCControl", "start"), ReadReg("Flag2")>>
  BY <1>3, MeasureSequences
<1>4. CASE todo = <<ReadReg("Flag2")>>
  BY <1>4, MeasureSequences
<1>5. CASE EndsOff
  <2>1. /\ Head(todo) = todo[1] /\ 1 \in DOMAIN todo /\ Len(todo) \in Nat \ {0} /\ Len(Tail(todo)) = Len(todo) - 1
        /\ DOMAIN todo = 1 .. Len(todo) /\ DOMAIN Tail(todo) = 1 .. Len(todo) - 1
        /\ \A n \in DOMAIN Tail(todo) : n + 1 \in DOMAIN todo /\ n + 1 > 1 /\ Tail(todo)[n] = todo[n + 1]
    BY TailFacts DEF ChInv, ChTypeOK
  <2>2. todo[Len(todo)] = IbatOff /\ \A i \in DOMAIN todo : i # Len(todo) => todo[i] \in PlainReads
    BY <1>5 DEF EndsOff
  <2>3. CASE Len(todo) = 1
    BY <2>1, <2>2, <2>3
  <2>4. CASE Len(todo) > 1
    <3>1. Head(todo) \in PlainReads
      BY <2>1, <2>2, <2>4
    <3>2. Tail(todo) # <<>>
      <4>1. 1 \in DOMAIN Tail(todo) /\ DOMAIN <<>> = {}
        BY <2>1, <2>4
      <4>2. QED BY <4>1, Zenon
    <3>3. Len(Tail(todo)) \in DOMAIN Tail(todo) /\ Len(Tail(todo)) + 1 = Len(todo)
      BY <2>1, <2>4
    <3>4. Tail(todo)[Len(Tail(todo))] = IbatOff
      BY <2>1, <2>2, <3>3
    <3>5. \A i \in DOMAIN Tail(todo) : i # Len(Tail(todo)) => Tail(todo)[i] \in PlainReads
      BY <2>1, <2>2
    <3>6. QED BY <2>4, <3>1, <3>2, <3>4, <3>5
  <2>5. QED BY <2>1, <2>3, <2>4
<1>6. QED BY <1>1, <1>2, <1>3, <1>4, <1>5 DEF ChInv, Measuring

LEMMA HarmlessKept ==
  ASSUME ChInv, NEW a \in Harmless, a.write, cregs' = cregs \/ cregs' = Written(a), UNCHANGED ibatFault,
         cop \in {"select_source", "set_watchdog", "status"}, cop' \in {cop, "none"}, UNCHANGED configured
  PROVE  cregs' \in [Settable -> RegValues] /\ IbatKept' /\ Whole'
<1>1. /\ a \in Writes /\ a.val # "reset" /\ a.val # "ibat" /\ a.reg # "Control5"
      /\ a.reg \in ConfigRegs \ {"Control1"} => a.val = "set"
  BY HarmlessFacts
<1>2. ChTypeOK /\ cregs \in [Settable -> RegValues]
  BY DEF ChInv, ChTypeOK
<1>3. /\ cregs' \in [Settable -> RegValues]
      /\ \A r \in Settable : cregs'[r] = cregs[r] \/ (r = a.reg /\ cregs'[r] = a.val)
  BY <1>1, <1>2, WrittenFacts
<1>4. cregs'["Control5"] = cregs["Control5"]
  BY <1>1, <1>3, Spelled
<1>5. IbatKept'
  BY <1>4 DEF ChInv, IbatKept
<1>6. \A r \in ConfigRegs \ {"Control1"} : r \in Settable /\ (cregs[r] = "set" => cregs'[r] = "set")
  BY <1>1, <1>3 DEF Settable
<1>7. Whole'
  BY <1>4, <1>6 DEF ChInv, Whole
<1>8. QED BY <1>3, <1>5, <1>7

(* The operation goes on. *)
LEMMA ContinueKept ==
  ASSUME ChInv, wait = "", UNCHANGED <<cop, wait, configured, latched, unmasked, ready>>, cop # "none",
         cop # "await_change", todo' \in Seq(Accesses), flags' \in SUBSET Events,
         cregs' \in [Settable -> RegValues], ibatFault' \in BOOLEAN,
         Measuring', IbatKept', Configuring', Others', Whole'
  PROVE  ChInv'
<1>1. ChTypeOK' /\ Quiet' /\ Waking'
  BY DEF ChInv, ChTypeOK, Quiet, Waking
<1>2. QED BY <1>1 DEF ChInv

(* An access of configure. *)
LEMMA InConfiguring ==
  ASSUME ChInv, cop = "configure"
  PROVE  /\ todo # <<>> /\ ~configured
         /\ Head(todo) \in PlainReads \/ (Head(todo) \in Writes /\ Head(todo).val \in {"set", "reset"})
         /\ cregs["Control5"] = "ibat" => ibatFault
<1>1. todo # <<>> /\ ~configured
  BY DEF ChInv, Configuring, Whole
<1>2. Head(todo) = todo[1] /\ 1 \in DOMAIN todo
  BY <1>1, InTodo
<1>3. Head(todo) \in PlainReads \/ (Head(todo) \in Writes /\ Head(todo).val \in {"set", "reset"})
  BY <1>2 DEF ChInv, Configuring
<1>4. cregs["Control5"] = "ibat" => ibatFault
  BY DEF ChInv, IbatKept
<1>5. QED BY <1>1, <1>3, <1>4

LEMMA ConfigureWrites ==
  ASSUME ChInv, cop = "configure", Head(todo).write, cregs' = cregs \/ cregs' = Written(Head(todo))
  PROVE  /\ Head(todo) \in Writes /\ Head(todo).val \in {"set", "reset"} /\ cregs' \in [Settable -> RegValues]
         /\ cregs'["Control5"] = "ibat" => cregs["Control5"] = "ibat"
         /\ cregs' = Written(Head(todo)) => (cregs'["Control5"] = "ibat" =>
              cregs["Control5"] = "ibat" /\ Head(todo) # IbatOff /\ Head(todo).val # "reset")
         /\ cregs' = Written(Head(todo)) /\ Head(todo).val # "reset" =>
              \A r \in ConfigRegs : (cregs[r] = "set" \/ r = Head(todo).reg) => cregs'[r] = "set"
<1> DEFINE a == Head(todo)
<1>1. a \in Writes /\ a.val \in {"set", "reset"}
  BY InConfiguring, AccessFacts
<1>2. ChTypeOK /\ cregs \in [Settable -> RegValues]
  BY DEF ChInv, ChTypeOK
<1>3. ConfigRegs \subseteq Settable /\ "Control5" \in Settable /\ "Control5" \in ConfigRegs
  BY Spelled DEF Settable
<1>4. cregs' \in [Settable -> RegValues]
  BY <1>1, <1>2, WrittenFacts
<1>5. cregs' = Written(a) /\ a.val = "reset" => cregs'["Control5"] = "default"
  BY <1>1, <1>2, <1>3, WrittenFacts
<1>6. cregs' = Written(a) /\ a.val # "reset" => \A r \in Settable : cregs'[r] = IF r = a.reg THEN a.val ELSE cregs[r]
  BY <1>1, <1>2, WrittenFacts
<1>7. IbatOff.reg = "Control5"
  BY NamedAccesses
<1> HIDE DEF a
<1>8. cregs' = Written(a) /\ a.val # "reset" => \A r \in ConfigRegs : (cregs[r] = "set" \/ r = a.reg) => cregs'[r] = "set"
  BY <1>1, <1>3, <1>6
<1>9. cregs' = Written(a) => (cregs'["Control5"] = "ibat" => cregs["Control5"] = "ibat" /\ a # IbatOff /\ a.val # "reset")
  <2> SUFFICES ASSUME cregs' = Written(a), cregs'["Control5"] = "ibat"
               PROVE  cregs["Control5"] = "ibat" /\ a # IbatOff /\ a.val # "reset"
    OBVIOUS
  <2>1. a.val # "reset"
    BY <1>5
  <2>2. cregs'["Control5"] = IF "Control5" = a.reg THEN a.val ELSE cregs["Control5"]
    BY <1>3, <1>6, <2>1
  <2>3. a.reg # "Control5" /\ cregs["Control5"] = "ibat"
    BY <1>1, <2>2
  <2>4. QED BY <2>1, <2>3, <1>7
<1>10. cregs'["Control5"] = "ibat" => cregs["Control5"] = "ibat"
  BY <1>9 DEF a
<1>11. QED BY <1>1, <1>4, <1>8, <1>9, <1>10 DEF a

LEMMA ConfigureGoesOn ==
  ASSUME ChInv, cop = "configure", Len(todo) # 1, todo' = Tail(todo), cop' = cop,
         \/ Head(todo).write /\ cregs' = Written(Head(todo))
         \/ ~Head(todo).write /\ cregs' = cregs
  PROVE  Configuring'
<1>1. todo # <<>> /\ (Head(todo) \in PlainReads \/ (Head(todo) \in Writes /\ Head(todo).val \in {"set", "reset"}))
  BY InConfiguring
<1>2. /\ Head(todo) = todo[1] /\ 1 \in DOMAIN todo /\ Len(todo) \in Nat \ {0} /\ Len(Tail(todo)) = Len(todo) - 1
      /\ DOMAIN todo = 1 .. Len(todo) /\ DOMAIN Tail(todo) = 1 .. Len(todo) - 1 /\ Tail(todo) \in Seq(Accesses)
      /\ \A n \in DOMAIN Tail(todo) : n + 1 \in DOMAIN todo /\ n + 1 > 1 /\ Tail(todo)[n] = todo[n + 1]
      /\ \A n \in DOMAIN todo : n = 1 \/ (n - 1 \in DOMAIN Tail(todo) /\ Tail(todo)[n - 1] = todo[n])
  BY <1>1, TailFacts DEF ChInv, ChTypeOK
<1>3. Tail(todo) # <<>> /\ 1 \in DOMAIN Tail(todo)
  <2>1. 1 \in DOMAIN Tail(todo) /\ DOMAIN <<>> = {}
    BY <1>2
  <2>2. QED BY <2>1, Zenon
<1>4. /\ \A i \in DOMAIN todo : todo[i] \in PlainReads \/ (todo[i] \in Writes /\ todo[i].val \in {"set", "reset"})
      /\ \A i \in DOMAIN todo : i > 1 => todo[i].val # "reset"
      /\ \A r \in ConfigRegs : \/ cregs[r] = "set" /\ Head(todo).val # "reset"
                               \/ \E i \in DOMAIN todo : todo[i] = WriteReg(r, "set")
  BY DEF ChInv, Configuring
<1>5. /\ \A i \in DOMAIN Tail(todo) : Tail(todo)[i] \in PlainReads
                                      \/ (Tail(todo)[i] \in Writes /\ Tail(todo)[i].val \in {"set", "reset"})
      /\ \A i \in DOMAIN Tail(todo) : Tail(todo)[i].val # "reset"
  BY <1>2, <1>4
<1>6. Head(Tail(todo)).val # "reset"
  <2>1. Head(Tail(todo)) = Tail(todo)[1]
    BY <1>2, <1>3, TailFacts
  <2>2. QED BY <1>3, <1>5, <2>1
<1>7. ASSUME NEW r \in ConfigRegs
      PROVE  cregs'[r] = "set" \/ \E i \in DOMAIN Tail(todo) : Tail(todo)[i] = WriteReg(r, "set")
  <2>1. WriteReg(r, "set").val = "set" /\ WriteReg(r, "set").reg = r /\ WriteReg(r, "set").write
    BY <1>7 DEF WriteReg
  <2>2. CASE \E i \in DOMAIN todo : i # 1 /\ todo[i] = WriteReg(r, "set")
    BY <2>2, <1>2
  <2>3. CASE Head(todo) = WriteReg(r, "set")
    <3>1. Head(todo).write /\ Head(todo).val # "reset" /\ r = Head(todo).reg
      BY <2>1, <2>3
    <3>2. cregs'[r] = "set"
      BY <3>1, <1>7, ConfigureWrites
    <3>3. QED BY <3>2
  <2>4. CASE cregs[r] = "set" /\ Head(todo).val # "reset"
    <3>1. CASE Head(todo).write /\ cregs' = Written(Head(todo))
      <4>1. cregs'[r] = "set"
        BY <3>1, <2>4, <1>7, ConfigureWrites
      <4>2. QED BY <4>1
    <3>2. CASE cregs' = cregs
      BY <3>2, <2>4
    <3>3. QED BY <3>1, <3>2
  <2>5. QED BY <1>2, <1>4, <1>7, <2>2, <2>3, <2>4
<1>8. QED BY <1>2, <1>3, <1>5, <1>6, <1>7 DEF Configuring

(* A write of measure_power. *)
LEMMA MeasureWrites ==
  ASSUME ChInv, cop = "measure_power", todo # <<>>, Head(todo).write, cregs' = cregs \/ cregs' = Written(Head(todo))
  PROVE  /\ Head(todo) \in {IbatOn, IbatOff, WriteReg("ADCControl", "start")} /\ Head(todo).reg \in {"Control5", "ADCControl"}
         /\ cregs' \in [Settable -> RegValues]
         /\ \A r \in Settable : r # "Control5" => cregs'[r] = cregs[r]
         /\ Head(todo) = IbatOff /\ cregs' = Written(Head(todo)) => cregs'["Control5"] = "set"
         /\ Head(todo).reg = "Control5" \/ cregs' = cregs
<1> DEFINE a == Head(todo)
<1>1. a \in {IbatOn, IbatOff, WriteReg("ADCControl", "start")}
  BY InMeasuring, AccessFacts, NamedAccesses
<1>2. a \in Writes /\ a.reg \in {"Control5", "ADCControl"} /\ a.val # "reset" /\ (a = IbatOff => a.val = "set" /\ a.reg = "Control5")
  BY <1>1, NamedAccesses
<1>3. ChTypeOK /\ cregs \in [Settable -> RegValues]
  BY DEF ChInv, ChTypeOK
<1> HIDE DEF a
<1>4. Written(a) \in [Settable -> RegValues] /\ \A r \in Settable : Written(a)[r] = IF r = a.reg THEN a.val ELSE cregs[r]
  BY <1>2, <1>3, WrittenFacts
<1>5. cregs' = cregs \/ cregs' = Written(a)
  BY DEF a
<1>6. cregs' \in [Settable -> RegValues] /\ \A r \in Settable : r # "Control5" => cregs'[r] = cregs[r]
  BY <1>2, <1>3, <1>4, <1>5, Spelled
<1>7. a = IbatOff /\ cregs' = Written(a) => cregs'["Control5"] = "set"
  BY <1>2, <1>4, Spelled
<1>8. a.reg = "Control5" \/ cregs' = cregs
  <2>1. CASE a.reg = "ADCControl" /\ cregs' = Written(a)
    <3>1. \A r \in Settable : cregs'[r] = cregs[r]
      BY <1>4, <2>1, Spelled
    <3>2. QED BY <3>1, <1>3, <1>6
  <2>2. QED BY <2>1, <1>2, <1>5
<1>9. QED BY <1>1, <1>2, <1>6, <1>7, <1>8 DEF a

LEMMA MeasureWhole ==
  ASSUME ChInv, cop = "measure_power", UNCHANGED configured, \A r \in Settable : r # "Control5" => cregs'[r] = cregs[r],
         cop' = "measure_power" \/ ibatFault' \/ cregs'["Control5"] = "set", cop' # "configure"
  PROVE  IbatKept' /\ Whole'
<1>1. IbatKept'
  BY DEF IbatKept
<1>2. \A r \in ConfigRegs : r \in Settable
  BY DEF Settable
<1>3. Whole'
  BY <1>2 DEF ChInv, Whole
<1>4. QED BY <1>1, <1>3

LEMMA MeasureContinues ==
  ASSUME ChInv, cop = "measure_power", Continue(todo'), todo' \in Seq(Accesses), cregs' \in [Settable -> RegValues],
         UNCHANGED <<latched, unmasked, ready>>, flags' \in SUBSET Events, ibatFault' \in BOOLEAN, wait = "",
         \A r \in Settable : r # "Control5" => cregs'[r] = cregs[r], Measuring'
  PROVE  ChInv'
<1>1. cop' = cop /\ wait' = wait /\ configured' = configured
  BY DEF Continue
<1>2. IbatKept' /\ Whole'
  BY <1>1, MeasureWhole
<1>3. Configuring' /\ Others'
  BY <1>1 DEF Configuring, Others
<1>4. QED BY <1>1, <1>2, <1>3, ContinueKept

LEMMA SwitchesOff ==
  ASSUME todo' = <<IbatOff>>
  PROVE  Measuring'
<1>1. Len(todo') = 1 /\ todo'[1] = IbatOff /\ DOMAIN todo' = {1} /\ todo' # <<>>
  BY MeasureSequences
<1>2. EndsOff'
  BY <1>1 DEF EndsOff
<1>3. QED BY <1>2 DEF Measuring

LEMMA FaultKept == ASSUME ChInv, BusFault PROVE ChInv'
<1> DEFINE a == Head(todo)
<1>1. /\ todo # <<>> /\ Failed(a) /\ (cregs' = cregs \/ (a.write /\ cregs' = Written(a)))
      /\ ibatFault' = (ibatFault \/ (a.write /\ a.reg = "Control5"))
      /\ UNCHANGED <<latched, unmasked, ready, flags>>
  BY DEF BusFault
<1>2. /\ wait = "" /\ cop # "none" /\ a \in Accesses /\ cop \in Operations /\ ibatFault \in BOOLEAN /\ configured \in BOOLEAN
      /\ cregs \in [Settable -> RegValues] /\ flags' \in SUBSET Events
  BY <1>1, InTodo DEF ChInv, ChTypeOK
<1>3. ibatFault' \in BOOLEAN
  BY <1>1, Zenon
<1>4. CASE cop = "measure_power" /\ a.reg # "Control5"
  <2>1. Continue(<<IbatOff>>) /\ todo' = <<IbatOff>>
    BY <1>1, <1>4 DEF Failed, Continue
  <2>2. cregs' = cregs
    BY <1>1, <1>4, MeasureWrites
  <2>3. Measuring'
    BY <2>1, SwitchesOff
  <2>4. todo' \in Seq(Accesses)
    BY <2>1, MeasureSequences
  <2>5. QED BY <1>1, <1>2, <1>3, <1>4, <2>1, <2>2, <2>3, <2>4, MeasureContinues
<1>5. CASE ~(cop = "measure_power" /\ a.reg # "Control5")
  <2>1. Returns(FALSE) /\ cop' = "none" /\ configured' = IF cop = "configure" THEN FALSE ELSE configured
    BY <1>1, <1>5 DEF Failed, Returns
  <2>2. CASE cop = "measure_power"
    <3>1. a.reg = "Control5"
      BY <1>5, <2>2
    <3>2. a.write
      <4>1. a \in {IbatOn, IbatOff, WriteReg("ADCControl", "start"), ReadReg("Flag2")} \/ a \in PlainReads
        BY <1>1, <2>2, InMeasuring
      <4>2. a \notin PlainReads /\ a # ReadReg("Flag2")
        BY <3>1, AccessFacts, NamedAccesses DEF PlainNames
      <4>3. QED BY <4>1, <4>2, NamedAccesses, AccessFacts
    <3>3. cregs' \in [Settable -> RegValues] /\ \A r \in Settable : r # "Control5" => cregs'[r] = cregs[r]
      BY <1>1, <2>2, <3>2, MeasureWrites
    <3>4. ibatFault'
      BY <1>1, <3>1, <3>2
    <3>5. IbatKept' /\ Whole'
      BY <2>1, <2>2, <3>3, <3>4, MeasureWhole
    <3>6. QED BY <1>1, <1>2, <1>3, <2>1, <3>3, <3>5, ReturnKept
  <2>3. CASE cop = "configure"
    <3>1. cregs' \in [Settable -> RegValues] /\ (cregs'["Control5"] = "ibat" => cregs["Control5"] = "ibat")
      BY <1>1, <1>2, <2>3, ConfigureWrites
    <3>2. IbatKept'
      BY <1>1, <2>3, <3>1, InConfiguring DEF IbatKept
    <3>3. Whole'
      BY <2>1, <2>3 DEF Whole
    <3>4. QED BY <1>1, <1>2, <1>3, <2>1, <3>1, <3>2, <3>3, ReturnKept
  <2>4. CASE cop = "await_change"
    <3>1. ~a.write /\ cregs' = cregs /\ ibatFault' = ibatFault
      BY <1>1, <1>2, <2>4, InTodo, AccessFacts
    <3>2. IbatKept' /\ Whole'
      BY <2>1, <2>4, <3>1 DEF ChInv, IbatKept, Whole
    <3>3. QED BY <1>1, <1>2, <1>3, <2>1, <3>1, <3>2, ReturnKept
  <2>5. CASE cop \in {"select_source", "set_watchdog", "status"}
    <3>1. a \in Harmless
      BY <1>1, <2>5, InTodo
    <3>2. CASE a.write
      <4>1. a.reg # "Control5" /\ ibatFault' = ibatFault
        BY <1>1, <1>2, <3>1, <3>2, HarmlessFacts
      <4>2. cregs' \in [Settable -> RegValues] /\ IbatKept' /\ Whole'
        BY <1>1, <2>1, <2>5, <3>1, <3>2, <4>1, HarmlessKept
      <4>3. QED BY <1>1, <1>2, <1>3, <2>1, <4>2, ReturnKept
    <3>3. CASE ~a.write
      <4>1. cregs' = cregs /\ ibatFault' = ibatFault
        BY <1>1, <1>2, <3>3
      <4>2. IbatKept' /\ Whole'
        BY <2>1, <2>5, <4>1 DEF ChInv, IbatKept, Whole
      <4>3. QED BY <1>1, <1>2, <1>3, <2>1, <4>1, <4>2, ReturnKept
    <3>4. QED BY <3>2, <3>3
  <2>6. QED BY <1>2, <2>2, <2>3, <2>4, <2>5 DEF Operations
<1>6. QED BY <1>4, <1>5

LEMMA WriteAccessKept == ASSUME ChInv, WriteAccess PROVE ChInv'
<1> DEFINE a == Head(todo)
<1>1. /\ todo # <<>> /\ a.write /\ cregs' = Written(a)
      /\ ibatFault' = (ibatFault /\ a # IbatOff /\ a.val # "reset")
      /\ (Len(todo) = 1 => Returns(TRUE)) /\ (Len(todo) # 1 => Continue(Tail(todo)))
      /\ UNCHANGED <<latched, unmasked, ready, flags>>
  BY DEF WriteAccess
<1>2. /\ wait = "" /\ cop # "none" /\ a \in Accesses /\ cop \in Operations /\ ibatFault \in BOOLEAN /\ configured \in BOOLEAN
      /\ cregs \in [Settable -> RegValues] /\ flags' \in SUBSET Events /\ Tail(todo) \in Seq(Accesses)
  BY <1>1, InTodo DEF ChInv, ChTypeOK
<1>3. ibatFault' \in BOOLEAN
  BY <1>1, Zenon
<1>4. Len(todo) = 1 => cop' = "none" /\ configured' = IF cop = "configure" THEN TRUE ELSE configured
  BY <1>1 DEF Returns
<1>5. Len(todo) # 1 => cop' = cop /\ todo' = Tail(todo) /\ wait' = wait /\ configured' = configured
  BY <1>1 DEF Continue
<1>6. CASE cop = "measure_power"
  <2>1. cregs' \in [Settable -> RegValues] /\ \A r \in Settable : r # "Control5" => cregs'[r] = cregs[r]
    BY <1>1, <1>6, MeasureWrites
  <2>2. CASE Len(todo) = 1
    <3>1. a = IbatOff
      <4>1. ReadReg("Flag2") \in FlagReads
        BY NamedAccesses
      <4>2. a # ReadReg("Flag2") /\ a \notin PlainReads
        BY <1>1, <4>1, AccessFacts
      <4>3. QED BY <1>1, <1>6, <2>2, <4>2, InMeasuring
    <3>2. cregs'["Control5"] = "set"
      BY <1>1, <1>6, <3>1, MeasureWrites
    <3>3. IbatKept' /\ Whole'
      BY <1>4, <1>6, <2>1, <2>2, <3>2, MeasureWhole
    <3>4. QED BY <1>1, <1>2, <1>3, <2>1, <2>2, <3>3, ReturnKept
  <2>3. CASE Len(todo) # 1
    <3>1. Tail(todo) = <<WriteReg("ADCControl", "start"), ReadReg("Flag2")>> \/ Tail(todo) = <<ReadReg("Flag2")>>
      <4>1. a # ReadReg("Flag2") /\ a \notin PlainReads
        BY <1>1, NamedAccesses, AccessFacts
      <4>2. QED BY <1>1, <1>6, <2>3, <4>1, InMeasuring
    <3>2. Measuring'
      BY <1>5, <2>3, <3>1 DEF Measuring
    <3>3. Continue(todo') /\ todo' \in Seq(Accesses)
      BY <1>1, <1>2, <1>5, <2>3
    <3>4. QED BY <1>1, <1>2, <1>3, <1>6, <2>1, <3>2, <3>3, MeasureContinues
  <2>4. QED BY <2>2, <2>3
<1>7. CASE cop = "configure"
  <2>1. /\ cregs' \in [Settable -> RegValues]
        /\ cregs'["Control5"] = "ibat" => cregs["Control5"] = "ibat" /\ a # IbatOff /\ a.val # "reset"
    BY <1>1, <1>7, ConfigureWrites
  <2>2. IbatKept'
    BY <1>1, <1>7, <2>1, InConfiguring DEF IbatKept
  <2>3. CASE Len(todo) = 1
    <3>1. DOMAIN todo = {1} /\ a = todo[1]
      <4>1. DOMAIN todo = 1 .. Len(todo) /\ a = todo[1]
        BY <1>1, TailFacts DEF ChInv, ChTypeOK
      <4>2. QED BY <2>3, <4>1
    <3>2. \A r \in ConfigRegs : (cregs[r] = "set" /\ a.val # "reset") \/ a = WriteReg(r, "set")
      BY <1>7, <3>1 DEF ChInv, Configuring
    <3>3. \A r \in ConfigRegs : WriteReg(r, "set").val = "set" /\ WriteReg(r, "set").reg = r
      BY DEF WriteReg
    <3>4. a.val # "reset"
      BY <3>2, <3>3, Spelled
    <3>5. \A r \in ConfigRegs : cregs[r] = "set" \/ r = a.reg
      BY <3>2, <3>3
    <3>6. \A r \in ConfigRegs : cregs'[r] = "set"
      BY <1>1, <1>7, <3>4, <3>5, ConfigureWrites
    <3>7. Whole'
      BY <1>4, <2>3, <3>6 DEF Whole
    <3>8. QED BY <1>1, <1>2, <1>3, <2>1, <2>2, <2>3, <3>7, ReturnKept
  <2>4. CASE Len(todo) # 1
    <3>1. Configuring'
      BY <1>1, <1>5, <1>7, <2>4, ConfigureGoesOn
    <3>2. Whole' /\ Measuring' /\ Others'
      BY <1>5, <1>7, <2>4, InConfiguring DEF Whole, Measuring, Others
    <3>3. QED BY <1>1, <1>2, <1>3, <1>5, <1>7, <2>1, <2>2, <2>4, <3>1, <3>2, ContinueKept
  <2>5. QED BY <2>3, <2>4
<1>8. CASE cop = "await_change"
  BY <1>1, <1>8, InTodo, AccessFacts
<1>9. CASE cop \in {"select_source", "set_watchdog", "status"}
  <2>1. a \in Harmless /\ Tail(todo) \in Seq(Harmless)
    BY <1>1, <1>9, InTodo
  <2>2. a.reg # "Control5" /\ a.val # "reset" /\ a # IbatOff
    BY <1>1, <2>1, HarmlessFacts, NamedAccesses
  <2>3. ibatFault' = ibatFault
    BY <1>1, <1>2, <2>2
  <2>4. configured' = configured /\ cop' \in {cop, "none"}
    BY <1>4, <1>5, <1>9
  <2>5. cregs' \in [Settable -> RegValues] /\ IbatKept' /\ Whole'
    BY <1>1, <1>9, <2>1, <2>3, <2>4, HarmlessKept
  <2>6. CASE Len(todo) = 1
    BY <1>1, <1>2, <1>3, <2>5, <2>6, ReturnKept
  <2>7. CASE Len(todo) # 1
    <3>1. Measuring' /\ Configuring' /\ Others'
      BY <1>5, <1>9, <2>1, <2>7 DEF Measuring, Configuring, Others
    <3>2. QED BY <1>1, <1>2, <1>3, <1>5, <1>9, <2>5, <2>7, <3>1, ContinueKept
  <2>8. QED BY <2>6, <2>7
<1>10. QED BY <1>2, <1>6, <1>7, <1>8, <1>9 DEF Operations

LEMMA ReadKept == ASSUME ChInv, ReadAccess PROVE ChInv'
<1> DEFINE a == Head(todo)
<1>1. /\ todo # <<>> /\ ~a.write /\ Cleared(a.reg) = {}
      /\ UNCHANGED <<latched, unmasked, ready, flags, cregs, ibatFault>>
      /\ \/ Len(todo) = 1 /\ Returns(TRUE)
         \/ Len(todo) # 1 /\ Continue(Tail(todo))
         \/ cop = "configure" /\ Returns(FALSE)
  BY DEF ReadAccess
<1>2. /\ wait = "" /\ cop # "none" /\ a \in Accesses /\ cop \in Operations /\ ibatFault' \in BOOLEAN /\ configured \in BOOLEAN
      /\ cregs' \in [Settable -> RegValues] /\ flags' \in SUBSET Events /\ Tail(todo) \in Seq(Accesses)
  BY <1>1, InTodo DEF ChInv, ChTypeOK
<1>3. a \in PlainReads /\ cop # "await_change"
  <2>1. a \notin FlagReads /\ a \notin Writes
    BY <1>1, FlagFacts, AccessFacts
  <2>2. QED BY <1>1, <1>2, <2>1, InTodo DEF Accesses
<1>4. CASE cop = "configure" /\ Returns(FALSE)
  <2>1. IbatKept' /\ Whole'
    BY <1>1, <1>4, InConfiguring DEF Returns, IbatKept, Whole
  <2>2. QED BY <1>1, <1>2, <1>4, <2>1, ReturnKept
<1>5. CASE Len(todo) = 1 /\ Returns(TRUE)
  <2>1. cop' = "none" /\ configured' = IF cop = "configure" THEN TRUE ELSE configured
    BY <1>5 DEF Returns
  <2>2. cop # "measure_power"
    <3>1. a # IbatOff /\ a # ReadReg("Flag2")
      BY <1>3, NamedAccesses, AccessFacts, FlagFacts, <1>1
    <3>2. QED BY <1>1, <1>5, <3>1, InMeasuring
  <2>3. IbatKept'
    BY <1>1, <2>1, <2>2 DEF ChInv, IbatKept
  <2>4. Whole'
    <3>1. CASE cop = "configure"
      <4>1. DOMAIN todo = {1} /\ a = todo[1]
        <5>1. DOMAIN todo = 1 .. Len(todo) /\ a = todo[1]
          BY <1>1, TailFacts DEF ChInv, ChTypeOK
        <5>2. QED BY <1>5, <5>1
      <4>2. \A r \in ConfigRegs : WriteReg(r, "set").write
        BY DEF WriteReg
      <4>3. \A r \in ConfigRegs : cregs[r] = "set"
        BY <1>1, <3>1, <4>1, <4>2 DEF ChInv, Configuring
      <4>4. QED BY <1>1, <2>1, <4>3 DEF Whole
    <3>2. CASE cop # "configure"
      BY <1>1, <2>1, <2>2, <3>2 DEF ChInv, Whole
    <3>3. QED BY <3>1, <3>2
  <2>5. QED BY <1>1, <1>2, <1>5, <2>3, <2>4, ReturnKept
<1>6. CASE Len(todo) # 1 /\ Continue(Tail(todo))
  <2>1. cop' = cop /\ todo' = Tail(todo) /\ wait' = wait /\ configured' = configured
    BY <1>6 DEF Continue
  <2>2. IbatKept' /\ Whole'
    BY <1>1, <2>1 DEF ChInv, IbatKept, Whole
  <2>3. Measuring'
    <3>1. CASE cop = "measure_power"
      <4>1. a # IbatOff /\ a # ReadReg("Flag2") /\ a # IbatOn /\ a # WriteReg("ADCControl", "start")
        BY <1>3, NamedAccesses, AccessFacts, FlagFacts, <1>1
      <4>2. EndsOff'
        BY <1>1, <2>1, <3>1, <4>1, InMeasuring DEF EndsOff
      <4>3. QED BY <4>2 DEF Measuring
    <3>2. CASE cop # "measure_power"
      BY <2>1, <3>2 DEF Measuring
    <3>3. QED BY <3>1, <3>2
  <2>4. Configuring'
    <3>1. CASE cop = "configure"
      BY <1>1, <1>6, <2>1, <3>1, ConfigureGoesOn
    <3>2. CASE cop # "configure"
      BY <2>1, <3>2 DEF Configuring
    <3>3. QED BY <3>1, <3>2
  <2>5. Others'
    BY <1>1, <2>1, InTodo DEF Others
  <2>6. QED BY <1>1, <1>2, <1>3, <2>1, <2>2, <2>3, <2>4, <2>5, ContinueKept
<1>7. QED BY <1>1, <1>4, <1>5, <1>6

-----------------------------------------------------------------------------
(* The flags and the wait *)

(* The operation changes what it is doing without touching a setting. *)
LEMMA WaitKept ==
  ASSUME ChInv, UNCHANGED <<cregs, cop, configured, ibatFault>>, flags' \in SUBSET Events,
         latched' \in BOOLEAN, unmasked' \in BOOLEAN, ready' \in BOOLEAN, todo' \in Seq(Accesses),
         wait' \in {"", "begin", "register", "look", "parked"}, wait' # "" => todo' = <<>>,
         cop \in {"await_change", "measure_power"}, Waking', Measuring'
  PROVE  ChInv'
<1>1. ChTypeOK' /\ Quiet'
  BY DEF ChInv, ChTypeOK, Quiet
<1>2. IbatKept' /\ Configuring' /\ Others' /\ Whole'
  BY DEF ChInv, IbatKept, Configuring, Others, Whole
<1>3. QED BY <1>1, <1>2 DEF ChInv

LEMMA NothingToDo == <<>> \in Seq(Accesses) /\ <<>> \in Seq(FlagReads) /\ DOMAIN <<>> = {}
OBVIOUS

LEMMA FlagsKept == ASSUME ChInv, ReadFlags PROVE ChInv'
<1> DEFINE r == Head(todo).reg
           found == flags \cap Cleared(r)
           counts == significant \/ found \ Insignificant # {}
<1>1. /\ cop = "await_change" /\ todo # <<>> /\ flags' = flags \ found
      /\ UNCHANGED <<latched, unmasked, ready, cregs, selected_source, ibatFault>>
  BY DEF ReadFlags
<1>2. (CASE Len(todo) > 1 -> /\ significant' = counts /\ todo' = Tail(todo)
                             /\ UNCHANGED <<cop, bus, wait, configured>>
         [] Len(todo) = 1 /\ counts -> Returns(TRUE)
         [] OTHER -> /\ todo' = <<>> /\ bus' = "suspended" /\ wait' = "begin"
                     /\ UNCHANGED <<cop, significant, configured>>)
  BY DEF ReadFlags
<1> HIDE DEF counts
<1>3. Len(todo) \in Nat \ {0} /\ wait = "" /\ Head(todo) \in FlagReads /\ Tail(todo) \in Seq(FlagReads)
      /\ Tail(todo) \in Seq(Accesses)
  BY <1>1, InTodo
<1>4. \/ Len(todo) > 1 /\ todo' = Tail(todo) /\ UNCHANGED <<cop, wait, configured>>
      \/ Returns(TRUE)
      \/ Len(todo) = 1 /\ todo' = <<>> /\ wait' = "begin" /\ UNCHANGED <<cop, configured>>
  <2>1. CASE Len(todo) > 1
    BY <1>2, <1>3, <2>1
  <2>2. CASE Len(todo) = 1 /\ counts
    BY <1>2, <1>3, <2>2
  <2>3. CASE Len(todo) = 1 /\ ~counts
    BY <1>2, <1>3, <2>3
  <2>4. Len(todo) > 1 \/ Len(todo) = 1
    <3>1. \A n \in Nat \ {0} : n > 1 \/ n = 1
      OBVIOUS
    <3>2. QED BY <1>3, <3>1, Zenon
  <2>5. QED BY <2>1, <2>2, <2>3, <2>4, Zenon
<1>5. Cleared(r) = EventsOf[r] /\ flags' \in SUBSET Events /\ flags' = flags \ EventsOf[r]
  <2>1. r \in FlagNames
    BY <1>3, AccessFacts
  <2>2. Cleared(r) = EventsOf[r]
    BY <2>1, FlagFacts
  <2>3. QED BY <1>1, <2>2 DEF ChInv, ChTypeOK
<1>6. flags \subseteq Insignificant \cup Toread \/ latched \/ ready
  BY <1>1, <1>3 DEF ChInv, Waking
<1>7. Toread = EventsOf[r] \cup UNION {EventsOf[Tail(todo)[i].reg] : i \in DOMAIN Tail(todo)}
  <2>1. /\ Head(todo) = todo[1] /\ 1 \in DOMAIN todo
        /\ \A n \in DOMAIN Tail(todo) : n + 1 \in DOMAIN todo /\ n + 1 > 1 /\ Tail(todo)[n] = todo[n + 1]
        /\ \A n \in DOMAIN todo : n = 1 \/ (n - 1 \in DOMAIN Tail(todo) /\ Tail(todo)[n - 1] = todo[n])
    BY <1>1, TailFacts DEF ChInv, ChTypeOK
  <2>2. ASSUME NEW e \in Toread PROVE e \in EventsOf[r] \cup UNION {EventsOf[Tail(todo)[i].reg] : i \in DOMAIN Tail(todo)}
    <3>1. PICK n \in DOMAIN todo : e \in EventsOf[todo[n].reg]
      BY <2>2 DEF Toread
    <3>2. CASE n = 1
      BY <3>1, <3>2, <2>1
    <3>3. CASE n - 1 \in DOMAIN Tail(todo) /\ Tail(todo)[n - 1] = todo[n]
      BY <3>1, <3>3
    <3>4. QED BY <2>1, <3>2, <3>3
  <2>3. EventsOf[r] \subseteq Toread
    BY <2>1 DEF Toread
  <2>4. ASSUME NEW n \in DOMAIN Tail(todo) PROVE EventsOf[Tail(todo)[n].reg] \subseteq Toread
    BY <2>1, <2>4 DEF Toread
  <2>5. QED BY <2>2, <2>3, <2>4
<1>8. Insignificant' = Insignificant
  BY <1>1 DEF Insignificant
<1>9. CASE Len(todo) > 1 /\ todo' = Tail(todo) /\ UNCHANGED <<cop, wait, configured>>
  <2>1. Toread' = UNION {EventsOf[Tail(todo)[i].reg] : i \in DOMAIN Tail(todo)}
    BY <1>9, Zenon DEF Toread
  <2>2. flags' \subseteq Insignificant' \cup Toread' \/ latched' \/ ready'
    BY <1>1, <1>5, <1>6, <1>7, <1>8, <2>1
  <2>3. Waking'
    BY <1>3, <1>9, <2>2 DEF Waking
  <2>4. Measuring'
    BY <1>1, <1>9 DEF Measuring
  <2>5. QED BY <1>1, <1>3, <1>5, <1>9, <2>3, <2>4, WaitKept DEF ChInv, ChTypeOK
<1>10. CASE Returns(TRUE)
  <2>1. IbatKept' /\ Whole'
    BY <1>1, <1>10 DEF ChInv, IbatKept, Whole, Returns
  <2>2. QED BY <1>1, <1>5, <1>10, <2>1, ReturnKept DEF ChInv, ChTypeOK
<1>11. CASE Len(todo) = 1 /\ todo' = <<>> /\ wait' = "begin" /\ UNCHANGED <<cop, configured>>
  <2>1. DOMAIN Tail(todo) = {}
    <3>1. DOMAIN Tail(todo) = 1 .. Len(todo) - 1
      BY <1>1, TailFacts DEF ChInv, ChTypeOK
    <3>2. QED BY <1>11, <3>1
  <2>2. Toread = EventsOf[r]
    BY <1>7, <2>1
  <2>3. flags' \subseteq Insignificant' \/ latched' \/ ready'
    BY <1>1, <1>5, <1>6, <1>8, <2>2
  <2>4. Waking'
    BY <1>11, <2>3, NothingToDo DEF Waking
  <2>5. Measuring'
    BY <1>1, <1>11 DEF Measuring
  <2>6. QED BY <1>1, <1>3, <1>5, <1>11, <2>4, <2>5, NothingToDo, WaitKept DEF ChInv, ChTypeOK
<1>12. QED BY <1>4, <1>9, <1>10, <1>11

LEMMA AdcKept == ASSUME ChInv, ReadAdcDone PROVE ChInv'
<1>1. /\ cop = "measure_power" /\ todo # <<>> /\ flags' \in SUBSET Events
      /\ UNCHANGED <<latched, unmasked, ready, cregs, ibatFault, cop, configured>>
      /\ \/ todo' = ResultAccesses /\ wait' = wait
         \/ todo' = <<>> /\ wait' = "begin"
  BY DEF ReadAdcDone, Continue, ChInv, ChTypeOK
<1>2. wait = ""
  BY <1>1, InTodo
<1>3. Measuring'
  <2>1. CASE todo' = ResultAccesses
    <3>1. ResultAccesses # <<>>
      BY ResultSequence
    <3>2. EndsOff'
      BY <2>1, <3>1, ResultSequence DEF EndsOff
    <3>3. QED BY <3>2 DEF Measuring
  <2>2. CASE wait' = "begin"
    BY <2>2 DEF Measuring
  <2>3. QED BY <1>1, <2>1, <2>2
<1>4. Waking'
  BY <1>1, <1>2 DEF Waking
<1>5. todo' \in Seq(Accesses)
  BY <1>1, ResultSequence, NothingToDo
<1>6. QED BY <1>1, <1>2, <1>3, <1>4, <1>5, WaitKept DEF ChInv, ChTypeOK

(* Going back to the flags, await_change reads them all again. *)
LEMMA ResumeKept ==
  ASSUME ChInv, wait # "", Resumed, UNCHANGED <<flags, cregs, cop, configured, ibatFault>>,
         latched' \in BOOLEAN, unmasked' \in BOOLEAN, ready' \in BOOLEAN
  PROVE  ChInv'
<1>1. cop \in {"await_change", "measure_power"} /\ wait' = ""
  BY DEF ChInv, Quiet, Resumed
<1>2. CASE cop = "await_change"
  <2>1. todo' = FlagAccesses
    BY <1>2 DEF Resumed
  <2>2. todo' \in Seq(FlagReads) /\ todo' \in Seq(Accesses)
    <3>1. FlagReads \subseteq Accesses
      BY DEF Accesses
    <3>2. \A s \in Seq(FlagReads) : s \in Seq(Accesses)
      BY <3>1, SeqWidens
    <3>3. QED BY <2>1, <3>2, FlagFacts
  <2>3. Toread' = UNION {EventsOf[FlagAccesses[i].reg] : i \in DOMAIN FlagAccesses}
    BY <2>1, Zenon DEF Toread
  <2>4. flags' \subseteq Toread'
    <3>1. Toread' = Events
      BY <2>3, FlagFacts, Zenon
    <3>2. QED BY <3>1 DEF ChInv, ChTypeOK
  <2>5. Waking'
    BY <1>1, <2>2, <2>4 DEF Waking
  <2>6. Measuring'
    BY <1>2 DEF Measuring
  <2>7. QED BY <1>1, <2>2, <2>5, <2>6, WaitKept DEF ChInv, ChTypeOK
<1>3. CASE cop = "measure_power"
  <2>1. todo' = <<ReadReg("Flag2")>>
    BY <1>3 DEF Resumed
  <2>2. todo' \in Seq(Accesses)
    BY <2>1, MeasureSequences
  <2>3. Measuring'
    BY <2>1 DEF Measuring
  <2>4. Waking'
    BY <1>1, <1>3 DEF Waking
  <2>5. QED BY <1>1, <2>2, <2>3, <2>4, WaitKept DEF ChInv, ChTypeOK
<1>4. QED BY <1>1, <1>2, <1>3

LEMMA WaitsKept ==
  ASSUME ChInv, WaitBegins \/ WaitRegisters \/ WaitLooks \/ WaitTimesOut
  PROVE  ChInv'
<1>1. latched \in BOOLEAN /\ unmasked \in BOOLEAN /\ ready \in BOOLEAN /\ flags \in SUBSET Events
  BY DEF ChInv, ChTypeOK
<1>2. wait # "" /\ cop \in {"await_change", "measure_power"} /\ todo = <<>> /\ Toread = {}
  <2>1. wait # ""
    BY DEF WaitBegins, WaitRegisters, WaitLooks, WaitTimesOut
  <2>2. cop \in {"await_change", "measure_power"} /\ todo = <<>>
    BY <2>1 DEF ChInv, Quiet
  <2>3. Toread = {}
    <3>1. DOMAIN todo = {}
      BY <2>2, NothingToDo
    <3>2. QED BY <3>1 DEF Toread
  <2>4. QED BY <2>1, <2>2, <2>3
<1>3. CASE WaitBegins /\ ready
  BY <1>1, <1>2, <1>3, ResumeKept DEF WaitBegins, BeginWait, ReturnsAtOnce
<1>4. CASE WaitBegins /\ ~ready
  <2>1. /\ wait = "begin" /\ wait' = "register" /\ unmasked' = TRUE /\ ready' = FALSE /\ latched' = latched
        /\ UNCHANGED <<todo, flags, cregs, cop, configured, ibatFault, selected_source>>
    BY <1>4 DEF WaitBegins, BeginWait, ReturnsAtOnce
  <2>2. Insignificant' = Insignificant
    BY <2>1 DEF Insignificant
  <2>3. cop = "await_change" => flags \subseteq Insignificant \/ latched
    BY <1>2, <1>4, <2>1 DEF ChInv, Waking
  <2>4. Waking' /\ Measuring'
    BY <1>2, <2>1, <2>2, <2>3, NothingToDo DEF Waking, Measuring
  <2>5. QED BY <1>1, <1>2, <2>1, <2>4, NothingToDo, WaitKept
<1>5. CASE WaitRegisters
  <2>1. /\ wait \in {"register", "parked"} /\ wait' = "look"
        /\ UNCHANGED <<latched, unmasked, ready, todo, flags, cregs, cop, configured, ibatFault, selected_source>>
    BY <1>5 DEF WaitRegisters, Register
  <2>2. Insignificant' = Insignificant
    BY <2>1 DEF Insignificant
  <2>3. Waking' /\ Measuring'
    BY <1>2, <2>1, <2>2, NothingToDo DEF ChInv, Waking, Measuring
  <2>4. QED BY <1>1, <1>2, <2>1, <2>3, NothingToDo, WaitKept
<1>6. CASE WaitLooks /\ ready
  BY <1>1, <1>2, <1>6, ResumeKept DEF WaitLooks, TakeReady, EdgeSeen
<1>7. CASE WaitLooks /\ ~ready
  <2>1. /\ wait = "look" /\ wait' = "parked" /\ ready' = FALSE
        /\ UNCHANGED <<latched, unmasked, todo, flags, cregs, cop, configured, ibatFault, selected_source>>
    BY <1>7 DEF WaitLooks, TakeReady, EdgeSeen
  <2>2. Insignificant' = Insignificant
    BY <2>1 DEF Insignificant
  <2>3. Waking' /\ Measuring'
    BY <1>2, <1>7, <2>1, <2>2, NothingToDo DEF ChInv, Waking, Measuring
  <2>4. QED BY <1>1, <1>2, <2>1, <2>3, NothingToDo, WaitKept
<1>8. CASE WaitTimesOut /\ cop = "measure_power"
  <2>1. /\ wait' = "" /\ todo' = <<IbatOff>>
        /\ UNCHANGED <<latched, unmasked, ready, flags, cregs, cop, configured, ibatFault>>
    BY <1>8 DEF WaitTimesOut
  <2>2. todo' \in Seq(Accesses) /\ Measuring'
    BY <2>1, MeasureSequences, SwitchesOff
  <2>3. Waking'
    BY <1>8, <2>1 DEF Waking
  <2>4. QED BY <1>1, <1>2, <2>1, <2>2, <2>3, WaitKept
<1>9. CASE WaitTimesOut /\ cop # "measure_power"
  <2>1. /\ Returns(FALSE) /\ cop' = "none" /\ configured' = configured
        /\ UNCHANGED <<latched, unmasked, ready, flags, cregs, ibatFault>>
    BY <1>2, <1>9 DEF WaitTimesOut, Returns
  <2>2. IbatKept' /\ Whole'
    BY <1>9, <2>1 DEF ChInv, IbatKept, Whole
  <2>3. QED BY <1>1, <2>1, <2>2, ReturnKept DEF ChInv, ChTypeOK
<1>10. QED BY <1>1, <1>3, <1>4, <1>5, <1>6, <1>7, <1>8, <1>9

LEMMA ChStep == ChInv /\ [ChargerNext]_chargerVars => ChInv'
<1> SUFFICES ASSUME ChInv, [ChargerNext]_chargerVars PROVE ChInv'
  OBVIOUS
<1>1. CASE UNCHANGED chargerVars
  <2>1. UNCHANGED <<latched, unmasked, ready, flags, cregs, cop, todo, wait, configured, ibatFault, selected_source>>
    BY <1>1 DEF chargerVars
  <2>2. Waking'
    BY <2>1 DEF ChInv, Waking, Insignificant, Toread
  <2>3. QED BY <2>1, <2>2, LineKept DEF ChInv, ChTypeOK
<1>2. CASE ChargerNext
  BY <1>2, ChargerChipKept, OperationKept, FaultKept, WriteAccessKept, ReadKept, FlagsKept, AdcKept, WaitsKept
     DEF ChargerNext, ChargerTask
<1>3. QED BY <1>1, <1>2

LEMMA ChInvTrue == ChInv => ChargerIsTrue
<1> SUFFICES ASSUME ChInv PROVE ChargerIsTrue
  OBVIOUS
<1>1. NoEventSleptOver
  BY DEF ChInv, Waking, NoEventSleptOver
<1>2. IbatOffWhenUnused
  BY DEF ChInv, IbatKept, IbatOffWhenUnused
<1>3. ConfiguredIsWhole
  BY DEF ChInv, Whole, ConfiguredIsWhole
<1>4. QED BY <1>1, <1>2, <1>3 DEF ChargerIsTrue

(* bq25672.rs, with any bus access failing and events of the chip at any moment: await_change *)
(* never sleeps over an event that it would report, the measurement of the battery's current  *)
(* is off between operations unless the write of EN_IBAT itself failed, and a configure that  *)
(* returned Ok has left every setting but the watchdog's in place.                            *)
THEOREM ChargerStaysTrue == ChargerSpec => []ChargerIsTrue
<1>1. ChargerSpec => []ChInv
  BY ChInitKept, ChStep, PTL DEF ChargerSpec
<1>2. QED BY <1>1, ChInvTrue, PTL

-----------------------------------------------------------------------------
(* rtd.rs and ads124s08.rs *)

(* The registers of the converter, what is connected to it, and its conversions.              *)
Settings == {"", "default", "normal", "burnout", "inverted", "internal", "ref0", "rtd", "off", "dummy",
             "analog", "digital", "temperature"}
AdcRegs == [sys : Settings, ref : Settings, input : Settings]
Found == Sensors \cup {"", "none", "other", "Disconnected", "Fault"}
Readings == [sys : Settings, ref : Settings, input : Settings, as : Found, of : Found]
RegSteps == [do : {"write"}, reg : {"sys", "ref", "input"}, val : Settings]
AdcSteps == RegSteps \cup [do : {"detect", "read", "now"}, reg : {""}, val : {""}]

RtdTypeOK ==
  /\ aregs \in AdcRegs /\ conv \in AdcRegs /\ sample \in Readings /\ reading \in Readings
  /\ steps \in Seq(AdcSteps) /\ ch_state \in Found /\ sensor \in Found
  /\ drdy \in BOOLEAN /\ cutShort \in BOOLEAN
  /\ rtdpc \in {"off", "idle", "enable", "autodetect", "read", "dummy", "diagnostics"}

(* A conversion of a temperature's own configuration. *)
Proper(c) == c.ref = "ref0" /\ c.input = "rtd" /\ (cutShort \/ c.sys = "normal")

(* A read, write by write: once the input is written, what converts and what has converted *)
(* is of its configuration.                                                                *)
Sampling ==
  rtdpc = "read" =>
    \/ steps = ReadSteps
    \/ steps = <<Wr("input", "rtd"), Xfer("read")>> /\ aregs.ref = "ref0"
    \/ /\ steps = <<Xfer("read")>> /\ aregs.ref = "ref0" /\ aregs.input = "rtd"
       /\ (conv # NoConv => Proper(conv)) /\ (drdy => Proper(sample))

(* The calls that switch a source on end by switching it off, or are cut short. *)
Restoring ==
  /\ rtdpc \in {"off", "idle"} => steps = <<>>
  /\ rtdpc \in {"enable", "autodetect", "diagnostics"} =>
       LET n == Len(steps) IN
       /\ n > 0
       /\ \/ steps[n] = Wr("sys", "normal")
          \/ /\ steps[n] = Wr("ref", "default")
             /\ n > 1 => steps[n - 1] = Wr("sys", "normal")
             /\ n = 1 => aregs.sys = "normal"
  /\ rtdpc = "dummy" => \A i \in 1 .. Len(steps) : steps[i].reg # "sys"
  /\ rtdpc \in {"idle", "read", "dummy"} /\ ~cutShort => aregs.sys = "normal"

(* What was returned is nothing, or a proper conversion of something that is connected.       *)
Reported == reading = NoReading \/ (Proper(reading) /\ reading.of # "none")

RtdInv == RtdTypeOK /\ Sampling /\ Restoring /\ Reported

LEMMA ReadTails ==
  /\ Head(ReadSteps) = Wr("ref", "ref0") /\ Tail(ReadSteps) = <<Wr("input", "rtd"), Xfer("read")>>
  /\ Head(<<Wr("input", "rtd"), Xfer("read")>>) = Wr("input", "rtd")
  /\ Tail(<<Wr("input", "rtd"), Xfer("read")>>) = <<Xfer("read")>>
  /\ Head(<<Xfer("read")>>) = Xfer("read") /\ Tail(<<Xfer("read")>>) = <<>>
  /\ Tail(ReadSteps) # <<>> /\ <<Xfer("read")>> # <<>>
<1> HIDE DEF Wr, Xfer
<1>1. Head(ReadSteps) = Wr("ref", "ref0") /\ Tail(ReadSteps) = <<Wr("input", "rtd"), Xfer("read")>>
  BY DEF ReadSteps
<1>2. /\ Head(<<Wr("input", "rtd"), Xfer("read")>>) = Wr("input", "rtd")
      /\ Tail(<<Wr("input", "rtd"), Xfer("read")>>) = <<Xfer("read")>>
  OBVIOUS
<1>3. Head(<<Xfer("read")>>) = Xfer("read") /\ Tail(<<Xfer("read")>>) = <<>>
  OBVIOUS
<1>4. Tail(ReadSteps) # <<>> /\ <<Xfer("read")>> # <<>>
  BY <1>1
<1>5. QED BY <1>1, <1>2, <1>3, <1>4

LEMMA StepsSay ==
  /\ \A r, v : Wr(r, v).do = "write" /\ Wr(r, v).reg = r /\ Wr(r, v).val = v
  /\ \A d : Xfer(d).do = d /\ Xfer(d).reg = "" /\ Xfer(d).val = ""
  /\ \A r \in {"sys", "ref", "input"}, v \in Settings : Wr(r, v) \in AdcSteps
  /\ \A d \in {"detect", "read", "now"} : Xfer(d) \in AdcSteps
  /\ \A d : Wr("sys", "normal") # Xfer(d) /\ Wr("ref", "default") # Xfer(d)
BY DEF Wr, Xfer, AdcSteps, RegSteps, Settings

(* The steps that the argument is about. *)
LEMMA NamedSteps ==
  /\ Wr("sys", "normal").do = "write" /\ Wr("sys", "normal").reg = "sys" /\ Wr("sys", "normal").val = "normal"
  /\ Wr("ref", "default").reg = "ref"
  /\ Wr("ref", "ref0").do = "write" /\ Wr("ref", "ref0").reg = "ref" /\ Wr("ref", "ref0").val = "ref0"
  /\ Wr("input", "rtd").do = "write" /\ Wr("input", "rtd").reg = "input" /\ Wr("input", "rtd").val = "rtd"
  /\ Xfer("read").do = "read" /\ Xfer("read").reg = ""
BY DEF Wr, Xfer

(* The first step of a read is one of three. *)
LEMMA ReadHeads ==
  ASSUME Sampling, rtdpc = "read"
  PROVE  Head(steps) = Wr("ref", "ref0") \/ Head(steps) = Wr("input", "rtd") \/ Head(steps) = Xfer("read")
<1>1. steps = ReadSteps \/ steps = <<Wr("input", "rtd"), Xfer("read")>> \/ steps = <<Xfer("read")>>
  BY DEF Sampling
<1>2. QED BY <1>1, ReadTails, Zenon

LEMMA CallSteps ==
  /\ EnableSteps \in Seq(AdcSteps) /\ AutodetectSteps \in Seq(AdcSteps) /\ ReadSteps \in Seq(AdcSteps)
  /\ DummySteps \in Seq(AdcSteps) /\ DiagnosticsSteps \in Seq(AdcSteps)
  /\ \A i \in 1 .. Len(DummySteps) : DummySteps[i].reg # "sys"
  /\ Len(AutodetectSteps) = 5 /\ AutodetectSteps[5] = Wr("sys", "normal")
  /\ \A s \in {EnableSteps, DiagnosticsSteps} :
       Len(s) > 1 /\ s[Len(s)] = Wr("ref", "default") /\ s[Len(s) - 1] = Wr("sys", "normal")
<1>1. AutodetectSteps \in Seq(AdcSteps) /\ Len(AutodetectSteps) = 5 /\ AutodetectSteps[5] = Wr("sys", "normal")
  <2>1. /\ Wr("input", "inverted") \in AdcSteps /\ Wr("sys", "burnout") \in AdcSteps
        /\ Wr("ref", "internal") \in AdcSteps /\ Xfer("read") \in AdcSteps /\ Wr("sys", "normal") \in AdcSteps
    BY StepsSay DEF Settings
  <2>2. QED BY <2>1 DEF AutodetectSteps
<1>2. ReadSteps \in Seq(AdcSteps) /\ DummySteps \in Seq(AdcSteps)
  <2>1. /\ Wr("ref", "ref0") \in AdcSteps /\ Wr("input", "rtd") \in AdcSteps /\ Xfer("read") \in AdcSteps
        /\ Wr("ref", "off") \in AdcSteps /\ Wr("input", "dummy") \in AdcSteps
    BY StepsSay DEF Settings
  <2>2. QED BY <2>1 DEF ReadSteps, DummySteps
<1>3. \A i \in 1 .. Len(DummySteps) : DummySteps[i].reg # "sys"
  <2>1. Len(DummySteps) = 3 /\ DummySteps[1] = Wr("ref", "off") /\ DummySteps[2] = Wr("input", "dummy")
        /\ DummySteps[3] = Xfer("read")
    BY DEF DummySteps
  <2>2. DummySteps[1].reg = "ref" /\ DummySteps[2].reg = "input" /\ DummySteps[3].reg = ""
    <3>1. Wr("ref", "off").reg = "ref" /\ Wr("input", "dummy").reg = "input" /\ Xfer("read").reg = ""
      BY DEF Wr, Xfer
    <3> QED
      BY <2>1, <3>1, Zenon
  <2> SUFFICES ASSUME NEW i \in 1 .. Len(DummySteps) PROVE DummySteps[i].reg # "sys"
    OBVIOUS
  <2>3. i = 1 \/ i = 2 \/ i = 3
    BY <2>1
  <2>4. QED BY <2>2, <2>3
<1>4. /\ ResetAllConfig \in Seq(AdcSteps) /\ Len(ResetAllConfig) = 2
      /\ ResetAllConfig[1] = Wr("sys", "normal") /\ ResetAllConfig[2] = Wr("ref", "default")
  <2>1. Wr("sys", "normal") \in AdcSteps /\ Wr("ref", "default") \in AdcSteps
    BY StepsSay DEF Settings
  <2>2. QED BY <2>1 DEF ResetAllConfig
<1>5. ASSUME NEW s \in Seq(AdcSteps), Len(s) > 0
      PROVE  LET t == s \o ResetAllConfig
             IN  /\ t \in Seq(AdcSteps) /\ Len(t) > 1
                 /\ t[Len(t)] = Wr("ref", "default") /\ t[Len(t) - 1] = Wr("sys", "normal")
  <2> DEFINE t == s \o ResetAllConfig
  <2>1. /\ t \in Seq(AdcSteps) /\ Len(t) = Len(s) + Len(ResetAllConfig)
        /\ \A i \in 1 .. Len(s) + Len(ResetAllConfig) :
             t[i] = IF i <= Len(s) THEN s[i] ELSE ResetAllConfig[i - Len(s)]
    BY <1>4, ConcatProperties
  <2> HIDE DEF t
  <2>2. Len(s) \in Nat /\ Len(t) = Len(s) + 2
    BY <2>1, <1>4
  <2>3. t[Len(s) + 2] = ResetAllConfig[2] /\ t[Len(s) + 1] = ResetAllConfig[1]
    BY <2>1, <2>2, <1>4
  <2>4. QED BY <2>1, <2>2, <2>3, <1>4, <1>5 DEF t
<1>6. <<Xfer("detect")>> \in Seq(AdcSteps) /\ Len(<<Xfer("detect")>>) > 0
  <2>1. Xfer("detect") \in AdcSteps
    BY StepsSay
  <2>2. QED BY <2>1
<1> DEFINE m == <<Wr("input", "dummy"), Wr("sys", "analog"), Xfer("now"), Wr("sys", "digital"), Xfer("now"),
                  Wr("sys", "temperature"), Xfer("now")>>
<1>7. m \in Seq(AdcSteps) /\ Len(m) = 7
  <2>1. /\ Wr("input", "dummy") \in AdcSteps /\ Wr("sys", "analog") \in AdcSteps /\ Xfer("now") \in AdcSteps
        /\ Wr("sys", "digital") \in AdcSteps /\ Wr("sys", "temperature") \in AdcSteps
    BY StepsSay DEF Settings
  <2>2. QED BY <2>1
<1> HIDE DEF m
<1>8. ResetAllConfig \o m \in Seq(AdcSteps) /\ Len(ResetAllConfig \o m) > 0
  BY SMTT(30), <1>4, <1>7, ConcatProperties
<1>9. EnableSteps \in Seq(AdcSteps) /\ Len(EnableSteps) > 1
      /\ EnableSteps[Len(EnableSteps)] = Wr("ref", "default") /\ EnableSteps[Len(EnableSteps) - 1] = Wr("sys", "normal")
  BY <1>5, <1>6 DEF EnableSteps
<1>10. DiagnosticsSteps = (ResetAllConfig \o m) \o ResetAllConfig
  BY DEF DiagnosticsSteps, m
<1>11. DiagnosticsSteps \in Seq(AdcSteps) /\ Len(DiagnosticsSteps) > 1
      /\ DiagnosticsSteps[Len(DiagnosticsSteps)] = Wr("ref", "default")
      /\ DiagnosticsSteps[Len(DiagnosticsSteps) - 1] = Wr("sys", "normal")
  BY <1>5, <1>8, <1>10
<1>12. QED BY <1>1, <1>2, <1>3, <1>9, <1>11

LEMMA RtdInitKept == RtdInit => RtdInv
<1> SUFFICES ASSUME RtdInit PROVE RtdInv
  OBVIOUS
<1>1. NoReading \in Readings /\ [NoReading EXCEPT !.of = "none"] \in Readings
  BY DEF NoReading, Readings, Found, Settings
<1>2. AfterReset \in AdcRegs /\ NoConv \in AdcRegs
  BY DEF AfterReset, AdcRegs, NoConv, Settings
<1>3. RtdTypeOK
  <2>1. aregs \in AdcRegs /\ conv \in AdcRegs /\ reading \in Readings /\ sample \in Readings
    BY <1>1, <1>2, Zenon DEF RtdInit
  <2>2. steps \in Seq(AdcSteps) /\ ch_state \in Found /\ sensor \in Found
    BY DEF RtdInit, Found
  <2>3. QED BY <2>1, <2>2 DEF RtdInit, RtdTypeOK
<1>4. rtdpc = "off" /\ steps = <<>> /\ reading = NoReading
  BY DEF RtdInit
<1>5. Sampling /\ Restoring /\ Reported
  BY <1>4 DEF Sampling, Restoring, Reported
<1>6. QED BY <1>3, <1>5 DEF RtdInv

(* Nothing but the chip moves. *)
LEMMA AdcChipKept ==
  ASSUME RtdInv, Sync \/ Converted \/ Plug PROVE RtdInv'
<1>1. CASE Sync
  <2>1. conv' = aregs /\ UNCHANGED <<aregs, sample, drdy, sensor, ch_state, rtdpc, steps, reading, cutShort>>
    BY <1>1 DEF Sync
  <2>2. RtdTypeOK' /\ Restoring' /\ Reported'
    BY <2>1 DEF RtdInv, RtdTypeOK, Restoring, Reported, Proper
  <2>3. Sampling'
    BY <2>1 DEF RtdInv, Sampling, Restoring, Proper
  <2>4. QED BY <2>2, <2>3 DEF RtdInv
<1>2. CASE Converted
  <2>1. /\ conv # NoConv /\ conv' = NoConv /\ drdy' = TRUE
        /\ sample' = [sys |-> conv.sys, ref |-> conv.ref, input |-> conv.input, as |-> "", of |-> sensor]
        /\ UNCHANGED <<aregs, sensor, ch_state, rtdpc, steps, reading, cutShort>>
    BY <1>2 DEF Converted
  <2>2. sample' \in Readings /\ NoConv \in AdcRegs
    <3>1. conv.sys \in Settings /\ conv.ref \in Settings /\ conv.input \in Settings /\ sensor \in Found /\ "" \in Found
      BY DEF RtdInv, RtdTypeOK, AdcRegs, Found
    <3>2. sample' \in Readings
      BY <2>1, <3>1 DEF Readings
    <3>3. QED BY <3>2 DEF AdcRegs, NoConv, Settings
  <2>3. sample'.sys = conv.sys /\ sample'.ref = conv.ref /\ sample'.input = conv.input
    BY <2>1
  <2>4. RtdTypeOK' /\ Restoring' /\ Reported'
    BY <2>1, <2>2 DEF RtdInv, RtdTypeOK, Restoring, Reported, Proper
  <2>5. Sampling'
    BY <2>1, <2>3 DEF RtdInv, Sampling, Proper
  <2>6. QED BY <2>4, <2>5 DEF RtdInv
<1>3. CASE Plug
  <2>1. sensor' \in Sensors \cup {"none", "other"}
        /\ UNCHANGED <<aregs, conv, sample, drdy, ch_state, rtdpc, steps, reading, cutShort>>
    BY <1>3 DEF Plug
  <2>2. RtdTypeOK'
    BY <2>1 DEF RtdInv, RtdTypeOK, Found
  <2>3. Restoring' /\ Reported' /\ Sampling'
    BY <2>1 DEF RtdInv, Restoring, Reported, Sampling, Proper
  <2>4. QED BY <2>2, <2>3 DEF RtdInv
<1>4. QED BY <1>1, <1>2, <1>3

LEMMA CallKept == ASSUME RtdInv, RtdCall PROVE RtdInv'
<1> USE CallSteps
<1>0. NoReading \in Readings /\ AfterReset \in AdcRegs /\ NoConv \in AdcRegs
  BY DEF NoReading, Readings, Found, Settings, AfterReset, AdcRegs, NoConv
<1>1. CASE Enable
  <2>1. /\ rtdpc' = "enable" /\ steps' = EnableSteps /\ aregs' = AfterReset /\ conv' = NoConv /\ drdy' = FALSE
        /\ UNCHANGED <<sample, sensor, ch_state, reading, cutShort>>
    BY <1>1 DEF Enable, Call
  <2>2. RtdTypeOK'
    BY <2>1, <1>0 DEF RtdInv, RtdTypeOK
  <2>3. Reported' /\ Sampling'
    BY <2>1 DEF RtdInv, Reported, Sampling, Proper
  <2>4. Restoring'
    BY <2>1 DEF RtdInv, Restoring
  <2>5. QED BY <2>2, <2>3, <2>4 DEF RtdInv
<1>2. CASE Disable
  <2>1. rtdpc = "idle" /\ rtdpc' = "off" /\ conv' = NoConv
        /\ UNCHANGED <<aregs, sample, drdy, sensor, ch_state, steps, reading, cutShort>>
    BY <1>2 DEF Disable
  <2>2. RtdTypeOK'
    BY <2>1, <1>0 DEF RtdInv, RtdTypeOK
  <2>3. Reported' /\ Sampling'
    BY <2>1 DEF RtdInv, Reported, Sampling, Proper
  <2>4. Restoring'
    BY <2>1 DEF RtdInv, Restoring
  <2>5. QED BY <2>2, <2>3, <2>4 DEF RtdInv
<1>3. CASE Autodetect
  <2>1. rtdpc' = "autodetect" /\ steps' = AutodetectSteps
        /\ UNCHANGED <<aregs, conv, sample, drdy, sensor, ch_state, reading, cutShort>>
    BY <1>3 DEF Autodetect, Call
  <2>2. RtdTypeOK'
    BY <2>1 DEF RtdInv, RtdTypeOK
  <2>3. Reported' /\ Sampling'
    BY <2>1 DEF RtdInv, Reported, Sampling, Proper
  <2>4. Restoring'
    <3>1. Len(steps') = 5 /\ steps'[5] = Wr("sys", "normal")
      BY <2>1
    <3>2. steps'[Len(steps')] = Wr("sys", "normal") /\ Len(steps') > 0
      BY <3>1
    <3>3. QED BY <2>1, <3>2 DEF Restoring
  <2>5. QED BY <2>2, <2>3, <2>4 DEF RtdInv
<1>4. CASE ReadChannel
  <2>1. /\ rtdpc = "idle" /\ reading' = NoReading
        /\ (rtdpc' = "read" /\ steps' = ReadSteps) \/ (rtdpc' = "dummy" /\ steps' = DummySteps)
        /\ UNCHANGED <<aregs, conv, sample, drdy, sensor, ch_state, cutShort>>
    BY <1>4 DEF ReadChannel, Call
  <2>2. RtdTypeOK' /\ Reported'
    BY <2>1, <1>0 DEF RtdInv, RtdTypeOK, Reported
  <2>3. Restoring'
    BY <2>1 DEF RtdInv, Restoring
  <2>4. Sampling'
    BY <2>1 DEF Sampling
  <2>5. QED BY <2>2, <2>3, <2>4 DEF RtdInv
<1>5. CASE Diagnostics
  <2>1. rtdpc' = "diagnostics" /\ steps' = DiagnosticsSteps
        /\ UNCHANGED <<aregs, conv, sample, drdy, sensor, ch_state, reading, cutShort>>
    BY <1>5 DEF Diagnostics, Call
  <2>2. RtdTypeOK'
    BY <2>1 DEF RtdInv, RtdTypeOK
  <2>3. Reported' /\ Sampling'
    BY <2>1 DEF RtdInv, Reported, Sampling, Proper
  <2>4. Restoring'
    BY <2>1 DEF RtdInv, Restoring
  <2>5. QED BY <2>2, <2>3, <2>4 DEF RtdInv
<1>6. QED BY <1>1, <1>2, <1>3, <1>4, <1>5 DEF RtdCall

(* What is left of a call after its first step. *)
LEMMA TailStep ==
  ASSUME RtdTypeOK, steps # <<>>
  PROVE  /\ Head(steps) \in AdcSteps /\ Tail(steps) \in Seq(AdcSteps) /\ Head(steps) = steps[1]
         /\ Len(steps) \in Nat /\ Len(steps) > 0 /\ Len(Tail(steps)) = Len(steps) - 1
         /\ \A i \in 1 .. Len(steps) - 1 : Tail(steps)[i] = steps[i + 1]
         /\ Tail(steps) = <<>> <=> Len(steps) = 1
<1>0. steps \in Seq(AdcSteps)
  BY DEF RtdTypeOK
<1>1. /\ Head(steps) \in AdcSteps /\ Tail(steps) \in Seq(AdcSteps) /\ Head(steps) = steps[1]
      /\ Len(steps) \in Nat /\ Len(steps) > 0 /\ Len(Tail(steps)) = Len(steps) - 1
      /\ \A i \in 1 .. Len(steps) - 1 : Tail(steps)[i] = steps[i + 1]
  BY <1>0
<1>2. Tail(steps) = <<>> <=> Len(Tail(steps)) = 0
  BY <1>1, EmptySeq
<1>3. QED BY <1>1, <1>2

(* A step of a call other than read leaves what was reported and restores what it has to. *)
LEMMA OtherStep ==
  ASSUME RtdInv, steps # <<>>, Proceed, rtdpc # "read", aregs' \in AdcRegs, conv' \in AdcRegs,
         UNCHANGED <<sample, reading, sensor, cutShort>>, ch_state' \in Found, drdy' \in BOOLEAN,
         Head(steps).do = "write" => aregs' = [aregs EXCEPT ![Head(steps).reg] = Head(steps).val],
         Head(steps).do # "write" => aregs' = aregs
  PROVE  RtdInv'
<1>1. /\ Head(steps) \in AdcSteps /\ Tail(steps) \in Seq(AdcSteps) /\ Head(steps) = steps[1]
      /\ Len(steps) \in Nat /\ Len(steps) > 0 /\ Len(Tail(steps)) = Len(steps) - 1
      /\ \A i \in 1 .. Len(steps) - 1 : Tail(steps)[i] = steps[i + 1]
      /\ Tail(steps) = <<>> <=> Len(steps) = 1
  BY TailStep DEF RtdInv
<1>2. steps' = Tail(steps) /\ rtdpc' = IF Len(steps) = 1 THEN "idle" ELSE rtdpc
  BY <1>1 DEF Proceed
<1>3. rtdpc \in {"enable", "autodetect", "diagnostics", "dummy"}
  BY DEF RtdInv, RtdTypeOK, Restoring
<1>4. RtdTypeOK'
  BY <1>1, <1>2 DEF RtdInv, RtdTypeOK
<1>5. Reported' /\ Sampling'
  BY <1>2, <1>3 DEF RtdInv, Reported, Proper, Sampling
<1>6. Head(steps) = Wr("sys", "normal") => aregs'.sys = "normal"
  BY ZenonT(30), NamedSteps DEF RtdInv, RtdTypeOK, AdcRegs
<1>7. Head(steps).reg # "sys" => aregs'.sys = aregs.sys
  BY <1>1 DEF RtdInv, RtdTypeOK, AdcRegs, AdcSteps, RegSteps
<1>8. CASE rtdpc = "dummy"
  <2>1. Head(steps).reg # "sys"
    BY <1>1, <1>8 DEF RtdInv, Restoring
  <2>2. \A i \in 1 .. Len(steps') : steps'[i].reg # "sys"
    BY <1>1, <1>2, <1>8 DEF RtdInv, Restoring
  <2>3. aregs'.sys = aregs.sys
    BY <2>1, <1>7
  <2>4. ~cutShort' => aregs'.sys = "normal"
    BY <2>3, <1>8 DEF RtdInv, Restoring
  <2>5. rtdpc' = "idle" => steps' = <<>>
    BY <1>1, <1>2, <1>8
  <2>6. Restoring'
    BY <2>2, <2>4, <2>5, <1>2, <1>8 DEF Restoring
  <2>7. QED BY <2>6, <1>4, <1>5 DEF RtdInv
<1>9. CASE rtdpc \in {"enable", "autodetect", "diagnostics"}
  <2> DEFINE n == Len(steps)
  <2>1. /\ n > 0
        /\ \/ steps[n] = Wr("sys", "normal")
           \/ /\ steps[n] = Wr("ref", "default")
              /\ n > 1 => steps[n - 1] = Wr("sys", "normal")
              /\ n = 1 => aregs.sys = "normal"
    BY <1>9 DEF RtdInv, Restoring
  <2>2. CASE n = 1
    <3>1. steps[1] = Wr("sys", "normal") \/ (steps[1].reg # "sys" /\ aregs.sys = "normal")
      BY <2>1, <2>2, NamedSteps
    <3>2. aregs'.sys = "normal"
      BY <3>1, <1>1, <1>6, <1>7
    <3>3. rtdpc' = "idle" /\ steps' = <<>>
      BY <2>2, <1>1, <1>2
    <3>4. Restoring'
      BY <3>2, <3>3 DEF Restoring
    <3>5. QED BY <3>4, <1>4, <1>5 DEF RtdInv
  <2>3. CASE n > 1
    <3>1. rtdpc' = rtdpc /\ Len(steps') = n - 1 /\ n - 1 > 0 /\ steps'[n - 1] = steps[n]
      BY <2>3, <1>1, <1>2
    <3>2. n - 1 > 1 => steps'[n - 1 - 1] = steps[n - 1]
      BY <2>3, <1>1, <1>2
    <3>3. n - 1 = 1 => steps[n - 1] = Head(steps)
      BY <2>3, <1>1
    <3>4. n - 1 = 1 /\ steps[n - 1] = Wr("sys", "normal") => aregs'.sys = "normal"
      BY <3>3, <1>6
    <3>5. Restoring'
      BY <2>1, <2>3, <3>1, <3>2, <3>4, <1>9 DEF Restoring
    <3>6. QED BY <3>5, <1>4, <1>5 DEF RtdInv
  <2>4. QED BY <2>2, <2>3, <1>1
<1>10. QED BY <1>3, <1>8, <1>9

LEMMA AdcWriteKept == ASSUME RtdInv, WriteAndVerify PROVE RtdInv'
<1> DEFINE w == Head(steps)
<1>0. /\ steps # <<>> /\ w.do = "write" /\ aregs' = [aregs EXCEPT ![w.reg] = w.val]
      /\ conv' = IF w.reg = "input" /\ conv # NoConv THEN [aregs EXCEPT !.input = w.val] ELSE conv
      /\ drdy' = (drdy /\ w.reg # "input") /\ Proceed
      /\ UNCHANGED <<sample, sensor, ch_state, reading, cutShort>>
  BY DEF WriteAndVerify, Do, ClearReady
<1>1. w \in RegSteps /\ steps[1] = w
  BY <1>0, TailStep DEF RtdInv, AdcSteps
<1>2. aregs' \in AdcRegs /\ conv' \in AdcRegs /\ drdy' \in BOOLEAN
  BY <1>0, <1>1 DEF RtdInv, RtdTypeOK, AdcRegs, RegSteps
<1>3. CASE rtdpc # "read"
  BY <1>0, <1>2, <1>3, OtherStep DEF RtdInv, RtdTypeOK
<1>4. CASE rtdpc = "read"
  <2>1. CASE steps = ReadSteps
    <3>1. w = Wr("ref", "ref0") /\ steps' = <<Wr("input", "rtd"), Xfer("read")>> /\ rtdpc' = "read"
      BY <2>1, <1>0, <1>4, ReadTails DEF Proceed
    <3>2. w.reg = "ref" /\ w.val = "ref0"
      BY <3>1, NamedSteps
    <3>3. aregs'.ref = "ref0" /\ aregs'.sys = aregs.sys
      BY <3>2, <1>0 DEF RtdInv, RtdTypeOK, AdcRegs
    <3>4. Sampling'
      BY <3>1, <3>3 DEF Sampling
    <3>5. Restoring'
      BY <3>1, <3>3, <1>0, <1>4 DEF RtdInv, Restoring
    <3>6. RtdTypeOK' /\ Reported'
      BY <3>1, <1>0, <1>2, TailStep DEF RtdInv, RtdTypeOK, Reported, Proper, Proceed
    <3>7. QED BY <3>4, <3>5, <3>6 DEF RtdInv
  <2>2. CASE steps = <<Wr("input", "rtd"), Xfer("read")>> /\ aregs.ref = "ref0"
    <3>1. w = Wr("input", "rtd") /\ steps' = <<Xfer("read")>> /\ rtdpc' = "read"
      BY <2>2, <1>0, <1>4, ReadTails DEF Proceed
    <3>2. w.reg = "input" /\ w.val = "rtd"
      BY <3>1, NamedSteps
    <3>3. aregs'.ref = "ref0" /\ aregs'.input = "rtd" /\ aregs'.sys = aregs.sys /\ drdy' = FALSE
      BY <3>2, <2>2, <1>0 DEF RtdInv, RtdTypeOK, AdcRegs
    <3>4. conv' # NoConv => conv' = aregs'
      BY <3>2, <1>0
    <3>5. ~cutShort' => aregs'.sys = "normal"
      BY <3>3, <1>0, <1>4 DEF RtdInv, Restoring
    <3>6. Sampling'
      BY <3>1, <3>3, <3>4, <3>5 DEF Sampling, Proper
    <3>7. Restoring'
      BY <3>1, <3>5 DEF Restoring
    <3>8. RtdTypeOK' /\ Reported'
      BY <3>1, <1>0, <1>2, TailStep DEF RtdInv, RtdTypeOK, Reported, Proper, Proceed
    <3>9. QED BY <3>6, <3>7, <3>8 DEF RtdInv
  <2>3. CASE steps = <<Xfer("read")>>
    BY <2>3, <1>0, ReadTails, NamedSteps
  <2>4. QED BY <2>1, <2>2, <2>3, <1>4 DEF RtdInv, Sampling
<1>5. QED BY <1>3, <1>4

LEMMA DetectKept == ASSUME RtdInv, Detect \/ ReadNow PROVE RtdInv'
<1>0. /\ steps # <<>> /\ Head(steps).do \in {"detect", "now"} /\ Proceed
      /\ UNCHANGED <<aregs, sample, sensor, ch_state, reading, cutShort>>
      /\ (conv' = conv \/ conv' = NoConv) /\ (drdy' = drdy \/ drdy' = FALSE)
  BY DEF Detect, ReadNow, Do
<1>1. rtdpc # "read"
  <2> SUFFICES ASSUME rtdpc = "read" PROVE FALSE
    OBVIOUS
  <2>1. Head(steps) = Wr("ref", "ref0") \/ Head(steps) = Wr("input", "rtd") \/ Head(steps) = Xfer("read")
    BY ReadHeads DEF RtdInv
  <2>2. QED BY <2>1, <1>0, NamedSteps
<1>2. aregs' \in AdcRegs /\ conv' \in AdcRegs /\ drdy' \in BOOLEAN /\ ch_state' \in Found
  <2>1. NoConv \in AdcRegs
    BY DEF AdcRegs, NoConv, Settings
  <2>2. conv' \in AdcRegs
    BY <1>0, <2>1, Zenon DEF RtdInv, RtdTypeOK
  <2>3. QED BY <1>0, <2>2 DEF RtdInv, RtdTypeOK
<1>3. QED BY <1>0, <1>1, <1>2, OtherStep

LEMMA TakeSampleKept == ASSUME RtdInv, TakeSample PROVE RtdInv'
<1>0. /\ steps # <<>> /\ Head(steps).do = "read" /\ drdy /\ drdy' = FALSE /\ Proceed
      /\ UNCHANGED <<aregs, conv, sample, sensor, cutShort>>
  BY DEF TakeSample, Do
<1>1. CASE rtdpc # "read"
  <2>1. reading' = reading /\ (ch_state' = ch_state \/ ch_state' = Detected(sample.of))
    BY <1>1 DEF TakeSample
  <2>2. ch_state' \in Found
    BY <2>1 DEF Detected, RtdInv, RtdTypeOK, Found
  <2>3. aregs' \in AdcRegs /\ conv' \in AdcRegs
    BY <1>0 DEF RtdInv, RtdTypeOK
  <2>4. QED BY <1>0, <1>1, <2>1, <2>2, <2>3, OtherStep
<1>2. CASE rtdpc = "read"
  <2>1. steps = <<Xfer("read")>> /\ Proper(sample)
    <3>1. steps # ReadSteps /\ steps # <<Wr("input", "rtd"), Xfer("read")>>
      BY <1>0, ReadTails, NamedSteps
    <3>2. QED BY <1>0, <1>2, <3>1 DEF RtdInv, Sampling
  <2>2. steps' = <<>> /\ rtdpc' = "idle"
    BY <2>1, <1>0, ReadTails DEF Proceed
  <2>3. \/ reading' = NoReading /\ ch_state' = "Disconnected"
        \/ reading' = [sample EXCEPT !.as = ch_state] /\ sample.of # "none" /\ ch_state' = ch_state
    BY <1>2 DEF TakeSample, ReferenceLost
  <2>4. NoReading \in Readings /\ "Disconnected" \in Found
    BY DEF NoReading, Readings, Found, Settings
  <2>5. RtdTypeOK'
    <3>1. reading' \in Readings /\ ch_state' \in Found
      <4>1. sample \in Readings /\ ch_state \in Found
        BY DEF RtdInv, RtdTypeOK
      <4>2. [sample EXCEPT !.as = ch_state] \in Readings
        BY <4>1 DEF Readings
      <4>3. QED BY <2>3, <2>4, <4>1, <4>2, Zenon
    <3>2. steps' \in Seq(AdcSteps)
      BY <2>2
    <3>3. QED BY <3>1, <3>2, <2>2, <1>0 DEF RtdInv, RtdTypeOK
  <2>6. Reported'
    BY <2>1, <2>3, <1>0 DEF RtdInv, RtdTypeOK, Readings, Reported, Proper
  <2>7. Sampling' /\ Restoring'
    BY <2>2, <1>0, <1>2 DEF RtdInv, Sampling, Restoring
  <2>8. QED BY <2>5, <2>6, <2>7 DEF RtdInv
<1>3. QED BY <1>1, <1>2

LEMMA FailsKept == ASSUME RtdInv, TransferFails PROVE RtdInv'
<1>0. /\ steps # <<>> /\ steps' = <<>> /\ rtdpc' = (IF rtdpc = "enable" THEN "off" ELSE "idle")
      /\ cutShort' = (cutShort \/ rtdpc \in {"autodetect", "diagnostics"})
      /\ drdy' = (drdy /\ Head(steps).do # "read")
      /\ UNCHANGED <<conv, sample, sensor, ch_state, reading>>
      /\ \/ aregs' = aregs
         \/ Head(steps).do = "write" /\ aregs' = [aregs EXCEPT ![Head(steps).reg] = Head(steps).val]
  BY DEF TransferFails, GiveUp, Do
<1>1. Head(steps) \in AdcSteps /\ Head(steps) = steps[1] /\ Len(steps) \in Nat /\ Len(steps) > 0
  BY <1>0, TailStep DEF RtdInv
<1>2. aregs' \in AdcRegs
  <2>1. CASE aregs' = aregs
    BY <2>1 DEF RtdInv, RtdTypeOK
  <2>2. CASE Head(steps).do = "write" /\ aregs' = [aregs EXCEPT ![Head(steps).reg] = Head(steps).val]
    BY <2>2, <1>1 DEF RtdInv, RtdTypeOK, AdcRegs, AdcSteps, RegSteps
  <2>3. QED BY <2>1, <2>2, <1>0
<1>3. RtdTypeOK'
  BY <1>0, <1>2 DEF RtdInv, RtdTypeOK
<1>4. Reported' /\ Sampling'
  BY <1>0 DEF RtdInv, Reported, Proper, Sampling
<1>5. rtdpc \in {"read", "dummy"} => Head(steps).reg # "sys"
  <2>1. CASE rtdpc = "read"
    <3>1. Head(steps) = Wr("ref", "ref0") \/ Head(steps) = Wr("input", "rtd") \/ Head(steps) = Xfer("read")
      BY <2>1, ReadHeads DEF RtdInv
    <3>2. QED BY <3>1, NamedSteps
  <2>2. CASE rtdpc = "dummy"
    BY <2>2, <1>1 DEF RtdInv, Restoring
  <2>3. QED BY <2>1, <2>2
<1>6. Head(steps).reg # "sys" => aregs'.sys = aregs.sys
  BY <1>0, <1>1 DEF RtdInv, RtdTypeOK, AdcRegs, AdcSteps, RegSteps
<1>7. rtdpc' = "idle" /\ ~cutShort' => rtdpc \in {"read", "dummy"} /\ ~cutShort
  BY <1>0 DEF RtdInv, RtdTypeOK, Restoring
<1>8. Restoring'
  BY <1>0, <1>5, <1>6, <1>7 DEF RtdInv, Restoring
<1>9. QED BY <1>3, <1>4, <1>8 DEF RtdInv

LEMMA RtdStep == RtdInv /\ [RtdNext]_rtdVars => RtdInv'
<1> SUFFICES ASSUME RtdInv, [RtdNext]_rtdVars PROVE RtdInv'
  OBVIOUS
<1>1. CASE UNCHANGED rtdVars
  BY <1>1 DEF rtdVars, RtdInv, RtdTypeOK, Sampling, Restoring, Reported, Proper
<1>2. CASE RtdNext
  BY <1>2, AdcChipKept, CallKept, AdcWriteKept, DetectKept, TakeSampleKept, FailsKept DEF RtdNext, AdcStep
<1>3. QED BY <1>1, <1>2

LEMMA RtdInvTrue == RtdInv => RtdIsTrue
<1> SUFFICES ASSUME RtdInv PROVE RtdIsTrue
  OBVIOUS
<1>1. NoReading.of # "none"
  BY DEF NoReading
<1>2. QED BY <1>1 DEF RtdIsTrue, RtdInv, Reported, Proper, TemperatureIsOfConfig, NoTemperatureOfNothing, BiasedOnlyAfterFailure

(* rtd.rs and ads124s08.rs, with any SPI access failing: a temperature that read_temperature  *)
(* returns was converted with the reference and the input of a temperature, with a reference  *)
(* that is connected, and with the bias on only if an autodetection or diagnosis was cut      *)
(* short.                                                                                     *)
THEOREM TemperaturesAreTrue == RtdSpec => []RtdIsTrue
<1>1. RtdInit => RtdInv
  BY RtdInitKept
<1>2. RtdInv /\ [RtdNext]_rtdVars => RtdInv'
  BY RtdStep
<1>3. RtdInv => RtdIsTrue
  BY RtdInvTrue
<1>4. QED BY <1>1, <1>2, <1>3, PTL DEF RtdSpec

-----------------------------------------------------------------------------
(* bq25672.rs, rtd.rs and ads124s08.rs together: the specifications of the two drivers, which *)
(* share no state, imply that what they report is true.                                       *)
THEOREM MeasurementsStayTrue == ChargerSpec /\ RtdSpec => []MeasurementsAreTrue
BY ChargerStaysTrue, TemperaturesAreTrue, PTL DEF MeasurementsAreTrue

-----------------------------------------------------------------------------
(* Remainders. *)
LEMMA RemainderIs ==
  ASSUME NEW w \in Nat \ {0}, NEW a \in Nat
  PROVE  \E q \in Int, r \in 0 .. w - 1 : r = a % w /\ a = w * q + r
<1>1. PICK q \in Int, r \in Int : q = a \div w /\ r = a % w /\ r \in 0 .. w - 1
  OBVIOUS
<1>2. a = q * w + r
  BY <1>1
<1>3. q * w = w * q
  BY <1>1
<1> QED
  BY <1>1, <1>2, <1>3

LEMMA MultiplesApart ==
  ASSUME NEW w \in Nat \ {0}, NEW e \in Int, NEW f \in Int, e > f
  PROVE  w * e - w * f >= w
<1>1. PICK d \in Int : d = e - f /\ d >= 1
  OBVIOUS
<1>2. w * d >= w
  BY <1>1
<1>3. w * d = w * e - w * f
  BY <1>1
<1> QED
  BY <1>2, <1>3

LEMMA RemainderOnly ==
  ASSUME NEW w \in Nat \ {0}, NEW q \in Int, NEW r \in 0 .. w - 1, NEW a \in Nat, a = w * q + r
  PROVE  a % w = r
<1>1. PICK e \in Int, f \in 0 .. w - 1 : f = a % w /\ a = w * e + f
  BY RemainderIs
<1>2. PICK x \in Int, y \in Int : x = w * e /\ y = w * q
  OBVIOUS
<1>3. e > q => x - y >= w
  BY <1>2, MultiplesApart
<1>4. q > e => y - x >= w
  BY <1>2, MultiplesApart
<1>5. x + f = y + r
  BY <1>1, <1>2
<1>6. e = q
  BY <1>3, <1>4, <1>5
<1> QED
  BY <1>1, <1>2, <1>5, <1>6

LEMMA ZeroRemainder ==
  ASSUME NEW w \in Nat \ {0}
  PROVE  0 % w = 0
<1>1. 0 = w * 0 + 0 /\ 0 \in 0 .. w - 1
  OBVIOUS
<1> QED
  BY <1>1, RemainderOnly

(* Sums that stay below w, and that pass it once. *)
LEMMA SumBelow ==
  ASSUME NEW w \in Nat, NEW r \in Nat, NEW i \in Nat, r + i < w
  PROVE  \E s \in 0 .. w - 1 : s = r + i
OBVIOUS

LEMMA SumPast ==
  ASSUME NEW w \in Nat, NEW r \in 0 .. w - 1, NEW i \in Nat, i <= w, r + i >= w
  PROVE  \E s \in 0 .. w - 1 : s = r + i - w
OBVIOUS

(* A number that is a multiple, q times w, and less than w more. *)
LEMMA RemainderOfSum ==
  ASSUME NEW w \in Nat \ {0}, NEW q \in Int, NEW m \in Int, NEW s \in 0 .. w - 1, NEW b \in Nat,
         m = w * q, b = m + s
  PROVE  b % w = s
<1>1. b = w * q + s
  BY Zenon
<1> QED
  BY <1>1, RemainderOnly

(* An address and what follows it in its page. *)
LEMMA RemainderPlus ==
  ASSUME NEW w \in Nat \ {0}, NEW a \in Nat, NEW i \in Nat, (a % w) + i < w
  PROVE  (a + i) % w = (a % w) + i
<1>1. PICK q \in Int, r \in 0 .. w - 1 : r = a % w /\ a = w * q + r
  BY RemainderIs
<1>2. PICK m \in Int : m = w * q /\ a = m + r
  BY <1>1
<1>3. r + i < w /\ r = a % w
  BY <1>1, Zenon
<1>4. \A s \in 0 .. w - 1 : s = r + i => (a + i) % w = s
  <2> SUFFICES ASSUME NEW s \in 0 .. w - 1, s = r + i PROVE (a + i) % w = s
    BY Zenon
  <2>1. a + i \in Nat
    OBVIOUS
  <2>2. a + i = m + s
    <3>1. ASSUME NEW x \in Int, NEW y \in Int, x = m + r, y = r + i PROVE x + i = m + y
      BY <3>1
    <3> QED
      BY <1>2, <3>1
  <2> QED
    BY <1>2, <2>1, <2>2, RemainderOfSum
<1>5. w \in Nat /\ r \in Nat
  OBVIOUS
<1>6. PICK s \in 0 .. w - 1 : s = r + i
  BY <1>3, <1>5, SumBelow
<1> QED
  BY <1>3, <1>4, <1>6, Zenon

LEMMA RemainderWraps ==
  ASSUME NEW w \in Nat \ {0}, NEW a \in Nat, NEW i \in Nat, i <= w, (a % w) + i >= w
  PROVE  (a + i) % w = (a % w) + i - w
<1>1. PICK q \in Int, r \in 0 .. w - 1 : r = a % w /\ a = w * q + r
  BY RemainderIs
<1>2. PICK m \in Int : m = w * q /\ a = m + r
  BY <1>1
<1>3. r + i >= w /\ r = a % w
  BY <1>1, Zenon
<1>4. PICK n \in Int, k \in Int : k = q + 1 /\ n = w * k /\ n = m + w
  <2>1. w * (q + 1) = w * q + w
    BY <1>1
  <2>2. q + 1 \in Int /\ w * (q + 1) \in Int
    BY <1>1
  <2> QED
    BY <1>2, <2>1, <2>2, Zenon
<1>5. PICK s \in 0 .. w - 1 : s = r + i - w
  <2>1. w \in Nat
    OBVIOUS
  <2> QED
    BY <1>3, <2>1, SumPast, Zenon
<1>6. a + i = n + s /\ a + i \in Nat
  <2>1. ASSUME NEW x \in Int, NEW y \in Int, NEW z \in Int, x = m + r, y = m + w, z = r + i - w
        PROVE  x + i = y + z
    BY <2>1
  <2>2. s \in Int
    OBVIOUS
  <2>3. a + i \in Nat
    OBVIOUS
  <2> QED
    BY <1>2, <1>4, <1>5, <2>1, <2>2, <2>3
<1>7. PICK b \in Nat : b = a + i
  BY <1>6, Zenon
<1>8. n = w * k /\ b = n + s
  BY <1>4, <1>6, <1>7, Zenon
<1>9. b % w = s
  BY <1>8, RemainderOfSum
<1> QED
  BY <1>3, <1>5, <1>7, <1>9, Zenon

LEMMA SmallRemainder ==
  ASSUME NEW w \in Nat \ {0}, NEW x \in 0 .. w - 1
  PROVE  x % w = x
<1>1. w * 0 = 0
  OBVIOUS
<1>2. PICK z \in Int : z = 0
  OBVIOUS
<1>3. x = w * z + x
  BY <1>1, <1>2
<1> QED
  BY <1>2, <1>3, RemainderOnly

(* A multiple of the ring that is at least as many, or more, laps. *)
LEMMA LapsTimes ==
  ASSUME NEW w \in Nat \ {0}, NEW m \in Nat, NEW n \in Nat
  PROVE  /\ m * w \in Nat /\ (m + 1) * w = m * w + w
         /\ n > m => n * w >= m * w + w
<1>1. m * w \in Nat /\ (m + 1) * w = m * w + w
  OBVIOUS
<1>2. ASSUME n > m PROVE n * w >= m * w + w
  <2>1. w * n - w * m >= w
    BY <1>2, MultiplesApart
  <2>2. PICK x \in Int, y \in Int : x = w * n /\ y = w * m
    OBVIOUS
  <2>3. n * w = x /\ m * w = y
    BY <2>2
  <2> QED
    BY <2>1, <2>2, <2>3
<1> QED
  BY <1>1, <1>2

(* A multiple and the one after it. *)
LEMMA NextMultiple ==
  ASSUME NEW w \in Nat \ {0}, NEW a \in Nat, NEW b \in Nat, a % w = 0, b % w = 0, a < b
  PROVE  a + w <= b /\ (a + w) % w = 0
<1>1. PICK q \in Int, r \in 0 .. w - 1 : r = a % w /\ a = w * q + r
  BY RemainderIs
<1>2. PICK e \in Int, f \in 0 .. w - 1 : f = b % w /\ b = w * e + f
  BY RemainderIs
<1>3. PICK x \in Int, y \in Int : x = w * q /\ y = w * e
  BY <1>1, <1>2
<1>4. a = x /\ b = y
  BY <1>1, <1>2, <1>3
<1>5. q = e => x = y
  BY <1>3
<1>6. q > e => x - y >= w
  BY <1>1, <1>2, <1>3, MultiplesApart
<1>7. e > q
  BY <1>1, <1>2, <1>4, <1>5, <1>6
<1>8. y - x >= w
  BY <1>1, <1>2, <1>3, <1>7, MultiplesApart
<1>9. w * (q + 1) = x + w
  BY <1>1, <1>3
<1>10. PICK k \in Int : k = q + 1
  BY <1>1
<1>11. PICK c \in Nat : c = a + w
  OBVIOUS
<1>12. PICK z \in 0 .. w - 1 : z = 0
  OBVIOUS
<1>13. PICK m \in Int : m = w * k
  BY <1>10
<1>14. c = m + z
  BY <1>4, <1>9, <1>10, <1>11, <1>12, <1>13
<1>15. c % w = z
  BY <1>10, <1>13, <1>14, RemainderOnly
<1> QED
  BY <1>4, <1>8, <1>11, <1>12, <1>15

-----------------------------------------------------------------------------
(* spi_flash.rs *)

FlashSteps == {"read", "enable", "latch", "change", "poll"}
FlashPcs == {"idle", "wake", "enter4", "jedec", "sleep"} \cup FlashSteps

(* The types of the chip and of the driver. *)
FlashCells == [Addrs -> Bytes \cup {Erased, Mixed}]
Chips == [sleep : BOOLEAN, wel : BOOLEAN, busy : BOOLEAN, four : BOOLEAN, cells : FlashCells]
FlashErrors == {"none", "OutOfBounds", "Alignment", "SPI", "Write", "Timeout", "SizeMismatch"}
FlashCalls == [kind : {"none", "detect", "erase", "program", "read"}, addr : Nat, len : Nat]
Drivers == [pc : FlashPcs, awake : BOOLEAN, mode : {"B24", "B32"}, op : FlashCalls,
            val : Bytes \cup {Erased}, off : Nat, tries : Nat, err : FlashErrors,
            got : {"none", "junk", "cells"}]

FlashTypeOK == chip \in Chips /\ drv \in Drivers /\ ideal \in FlashCells

(* A chip that is busy took its latch and, when it is large, its four-byte mode. *)
ChipSane ==
    /\ chip.busy => ~chip.wel
    /\ chip.four => Large
    /\ chip.busy /\ Large => chip.four

(* What the driver believes of the chip is so. *)
BeliefsHold ==
    /\ drv.awake /\ drv.pc # "sleep" => ~chip.sleep
    /\ drv.pc \notin {"idle", "wake", "sleep"} => drv.awake
    /\ drv.mode = "B32" => Large /\ chip.four
    /\ drv.pc \in FlashSteps => (Large => drv.mode = "B32")
    /\ drv.pc = "change" => chip.wel
    /\ drv.pc = "enter4" => Large

(* Where a running call is in its range. *)
CallInRange ==
    /\ drv.pc = "jedec" => drv.op.kind = "detect"
    /\ drv.pc = "read" => drv.op.kind = "read"
    /\ drv.pc \in {"wake", "enter4"} => drv.off = 0 /\ drv.op.kind # "none"
    /\ drv.pc \in {"enable", "latch", "change", "poll"} =>
         drv.op.kind \in {"erase", "program"} /\ drv.off < drv.op.len /\ InBounds(drv.op)
    /\ drv.pc \in {"enable", "latch", "change", "poll"} /\ drv.op.kind = "erase" =>
         drv.off % erase_size = 0 /\ drv.op.len % erase_size = 0
    /\ drv.pc \in {"wake", "enter4"} => InBounds(drv.op)
    /\ drv.pc \notin {"idle", "sleep"} => drv.err = "none" /\ drv.got = "none"

(* What a cell holding c holds once the call of the driver d has changed it. *)
Becomes(d, c) == IF d.op.kind = "erase" THEN Erased ELSE IF c = Erased THEN d.val ELSE Mixed

(* The cells of d's range from off on are still to be changed, all others are as wanted. *)
Rest(d, off, cells, wanted) ==
    \A x \in Addrs :
        IF d.op.kind \in {"erase", "program"} /\ x \in d.op.addr + off .. d.op.addr + d.op.len - 1
        THEN Becomes(d, cells[x]) = wanted[x] ELSE cells[x] = wanted[x]

CellsInHand ==
    /\ drv.pc \in {"wake", "enter4", "read", "jedec", "enable", "latch", "change"} =>
         Rest(drv, drv.off, chip.cells, ideal)
    /\ drv.pc = "poll" => Rest(drv, drv.off + StepLen, chip.cells, ideal)
    /\ drv.pc \in {"idle", "sleep"} /\ drv.err = "none" /\ drv.op.kind # "none"
         => chip.cells = ideal

FlashInv == FlashTypeOK /\ ChipSane /\ BeliefsHold /\ CallInRange /\ CellsInHand

(* What a command does to the chip. *)
LEMMA QuietCommands ==
  ASSUME NEW cmd \in {"Read", "ReadStatus", "ReadJEDEC"}
  PROVE  ChipDoes(cmd, 0, 0, Erased) = chip
BY DEF ChipDoes

LEMMA WakeCommand == ChipDoes("Wakeup", 0, 0, Erased) = [chip EXCEPT !.sleep = FALSE]
BY DEF ChipDoes

LEMMA SleepCommand ==
  ASSUME FlashTypeOK
  PROVE  ChipDoes("Sleep", 0, 0, Erased) \in {chip, [chip EXCEPT !.sleep = TRUE]}
BY DEF ChipDoes, FlashTypeOK, Chips

LEMMA ModeCommand ==
  ASSUME FlashTypeOK
  PROVE  ChipDoes("Enter4ByteMode", 0, 0, Erased) =
           IF chip.sleep \/ chip.busy THEN chip ELSE [chip EXCEPT !.four = TRUE]
BY DEF ChipDoes, FlashTypeOK, Chips

LEMMA EnableCommand ==
  ASSUME FlashTypeOK
  PROVE  ChipDoes("WriteEnable", 0, 0, Erased) =
           IF chip.sleep \/ chip.busy THEN chip ELSE [chip EXCEPT !.wel = TRUE]
BY DEF ChipDoes, FlashTypeOK, Chips

(* The bytes that a program of one page hits: those asked for, when they stay in the page. *)
LEMMA PageHit ==
  ASSUME NEW a \in Nat, NEW n \in Nat, page_size \in Nat \ {0}, n <= page_size - (a % page_size)
  PROVE  {a - (a % page_size) + ((a + i) % page_size) : i \in 0..n-1} = a .. a + n - 1
<1>1. \A i \in 0..n-1 : a - (a % page_size) + ((a + i) % page_size) = a + i
  <2> SUFFICES ASSUME NEW i \in 0..n-1
               PROVE  a - (a % page_size) + ((a + i) % page_size) = a + i
    OBVIOUS
  <2>1. PICK r \in 0 .. page_size - 1 : r = a % page_size
    OBVIOUS
  <2>2. (a % page_size) + i < page_size
    BY <2>1
  <2>3. (a + i) % page_size = (a % page_size) + i
    <3>1. i \in Nat
      OBVIOUS
    <3> QED
      BY <2>2, <3>1, RemainderPlus
  <2> QED
    BY <2>1, <2>3
<1>2. \A x \in a .. a + n - 1 : x - a \in 0..n-1 /\ a + (x - a) = x
  OBVIOUS
<1>3. \A i \in 0..n-1 : a + i \in a .. a + n - 1
  OBVIOUS
<1>4. {a - (a % page_size) + ((a + i) % page_size) : i \in 0..n-1} = {a + i : i \in 0..n-1}
  BY <1>1, Zenon
<1> QED
  BY <1>2, <1>3, <1>4

USE FlashAssumption

LEMMA FlashStutters ==
  ASSUME FlashInv, UNCHANGED flashVars
  PROVE  FlashInv'
BY DEF FlashInv, FlashTypeOK, ChipSane, BeliefsHold, CallInRange, CellsInHand, flashVars, Rest,
       Becomes, StepLen

LEMMA SleepsFacts ==
  ASSUME NEW d \in Drivers, NEW e \in FlashErrors
  PROVE  /\ Sleeps(d, e) \in Drivers
         /\ Sleeps(d, e).pc = "sleep" /\ Sleeps(d, e).err = e /\ Sleeps(d, e).mode = d.mode
         /\ Sleeps(d, e).op = d.op /\ Sleeps(d, e).off = d.off /\ Sleeps(d, e).val = d.val
         /\ Sleeps(d, e).got = d.got /\ Sleeps(d, e).awake = d.awake
BY DEF Sleeps, Drivers, FlashPcs

(* A call that fails: whatever its last command did to the chip. *)
LEMMA CallFails ==
  ASSUME FlashInv, NEW e \in FlashErrors \ {"none"}, NEW c, chip' = c, c \in Chips,
         drv' = Sleeps(drv, e), UNCHANGED ideal, ChipSane', chip.four => c.four
  PROVE  FlashInv'
<1> USE DEF FlashInv
<1>1. drv \in Drivers
  BY DEF FlashTypeOK
<1>2. drv' \in Drivers /\ drv'.pc = "sleep" /\ drv'.err # "none" /\ drv'.mode = drv.mode
  BY <1>1, SleepsFacts
<1>3. FlashTypeOK'
  BY <1>2 DEF FlashTypeOK
<1>4. BeliefsHold' /\ CallInRange' /\ CellsInHand'
  BY <1>2 DEF BeliefsHold, CallInRange, CellsInHand, FlashSteps
<1> QED
  BY <1>3, <1>4

LEMMA ReadyStep ==
  ASSUME FlashInv, ChipReady
  PROVE  FlashInv'
<1> USE DEF FlashInv
<1>1. chip' = [chip EXCEPT !.busy = FALSE] /\ drv' = drv /\ ideal' = ideal
  BY DEF ChipReady
<1>2. /\ FlashTypeOK' /\ chip'.cells = chip.cells /\ chip'.sleep = chip.sleep
      /\ chip'.wel = chip.wel /\ chip'.four = chip.four /\ ~chip'.busy
  BY ZenonT(30), <1>1 DEF FlashTypeOK, Drivers, Chips, FlashCalls, FlashErrors
<1>3. ChipSane' /\ BeliefsHold'
  BY <1>1, <1>2 DEF ChipSane, BeliefsHold
<1>4. CallInRange'
  BY <1>1 DEF CallInRange
<1>5. CellsInHand'
  BY <1>1, <1>2 DEF CellsInHand, Rest, Becomes, StepLen
<1> QED
  BY <1>2, <1>3, <1>4, <1>5

LEMMA ResetStep ==
  ASSUME FlashInv, FlashReset
  PROVE  FlashInv'
<1> USE DEF FlashInv
<1>1. chip' = chip /\ drv' = FlashIdle /\ ideal' = ideal
  BY DEF FlashReset
<1>2. /\ drv'.pc = "idle" /\ drv'.op.kind = "none" /\ drv'.mode = "B24" /\ ~drv'.awake
      /\ FlashTypeOK'
  BY <1>1 DEF FlashIdle, FlashTypeOK, FlashPcs, Drivers, FlashCalls, FlashErrors
<1>3. ChipSane' /\ BeliefsHold' /\ CallInRange' /\ CellsInHand'
  BY <1>1, <1>2 DEF ChipSane, BeliefsHold, CallInRange, CellsInHand, FlashSteps
<1> QED
  BY <1>2, <1>3

LEMMA ResultCells ==
  ASSUME NEW op \in [kind : {"detect", "erase", "program", "read"}, addr : Nat, len : Nat],
         NEW v \in Bytes, NEW cells \in FlashCells, NEW d,
         d.op = op, d.val = v
  PROVE  /\ Result(cells, op, v) \in FlashCells
         /\ Rest(d, 0, cells, Result(cells, op, v))
<1>1. CASE op.kind = "erase"
  BY <1>1 DEF Result, Rest, Becomes, FlashCells
<1>2. CASE op.kind = "program"
  <2>1. \A x \in Addrs : Programmed(cells, x, v)[x] = IF cells[x] = Erased THEN v ELSE Mixed
    BY DEF Programmed, FlashCells
  <2>2. Result(cells, op, v) =
          [x \in Addrs |-> IF x \in op.addr..op.addr+op.len-1
                           THEN IF cells[x] = Erased THEN v ELSE Mixed ELSE cells[x]]
    BY <1>2, <2>1 DEF Result
  <2> QED
    BY <1>2, <2>2 DEF Rest, Becomes, FlashCells
<1>3. CASE op.kind \in {"detect", "read"}
  BY <1>3 DEF Result, Rest
<1> QED
  BY <1>1, <1>2, <1>3

LEMMA CallStep ==
  ASSUME FlashInv, FlashCall
  PROVE  FlashInv'
<1> USE DEF FlashInv
<1>1. PICK op \in FlashRequests, v \in Bytes :
        /\ drv' = IF InBounds(op)
                  THEN [drv EXCEPT !.pc = "wake", !.op = op, !.val = v, !.off = 0,
                                   !.tries = 0, !.err = "none", !.got = "none"]
                  ELSE [drv EXCEPT !.op = op, !.err = "OutOfBounds", !.got = "none"]
        /\ ideal' = Result(chip.cells, op, v)
  BY DEF FlashCall
<1>2. chip' = chip /\ drv.pc = "idle"
  BY DEF FlashCall
<1>3. op \in [kind : {"detect", "erase", "program", "read"}, addr : Nat, len : Nat]
  OBVIOUS
<1>4. ideal' \in FlashCells
  <2>1. PICK d : d = [op |-> op, val |-> v]
    OBVIOUS
  <2>2. d.op = op /\ d.val = v
    BY <2>1
  <2>3. chip.cells \in FlashCells
    BY DEF FlashTypeOK, Drivers, Chips, FlashCalls, FlashErrors
  <2> QED
    BY <1>1, <1>3, <2>2, <2>3, ResultCells
<1>5. FlashTypeOK' /\ ChipSane'
  BY ZenonT(30), <1>1, <1>2, <1>3, <1>4
     DEF FlashTypeOK, Drivers, Chips, FlashCalls, FlashErrors, ChipSane, FlashPcs
<1>6. CASE InBounds(op)
  <2>1. /\ drv'.pc = "wake" /\ drv'.op = op /\ drv'.val = v /\ drv'.off = 0 /\ drv'.err = "none"
        /\ drv'.got = "none"
        /\ drv'.mode = drv.mode /\ drv'.awake = drv.awake
    BY <1>1, <1>6 DEF FlashTypeOK, Drivers, Chips, FlashCalls, FlashErrors
  <2>2. BeliefsHold'
    BY <1>2, <2>1 DEF BeliefsHold, FlashSteps
  <2>3. CallInRange'
    BY <1>3, <1>6, <2>1 DEF CallInRange, InBounds
  <2>4. Rest(drv', 0, chip.cells, ideal')
    <3>1. chip.cells \in FlashCells
      BY DEF FlashTypeOK, Drivers, Chips, FlashCalls, FlashErrors
    <3> QED
      BY <1>1, <1>3, <2>1, <3>1, ResultCells
  <2>5. CellsInHand'
    BY <1>2, <2>1, <2>4 DEF CellsInHand
  <2> QED
    BY <1>5, <2>2, <2>3, <2>5
<1>7. CASE ~InBounds(op)
  <2>1. /\ drv'.pc = "idle" /\ drv'.err = "OutOfBounds" /\ drv'.mode = drv.mode
        /\ drv'.awake = drv.awake
    BY <1>1, <1>2, <1>7 DEF FlashTypeOK, Drivers, Chips, FlashCalls, FlashErrors
  <2>2. BeliefsHold' /\ CallInRange' /\ CellsInHand'
    BY <1>2, <2>1 DEF BeliefsHold, CallInRange, CellsInHand, FlashSteps
  <2> QED
    BY <1>5, <2>2
<1> QED
  BY <1>6, <1>7

LEMMA FirstFacts ==
  ASSUME NEW d \in Drivers, d.op.kind # "none"
  PROVE  \/ \E p \in {"jedec", "enter4", "read", "enable"} :
              /\ First(d) = [d EXCEPT !.pc = p]
              /\ p = "jedec" => d.op.kind = "detect"
              /\ p = "enter4" => Large
              /\ p = "read" => d.op.kind = "read"
              /\ p \in {"read", "enable"} => (Large => d.mode = "B32")
              /\ p = "enable" => d.op.kind \in {"erase", "program"} /\ d.op.len > 0
              /\ p = "enable" /\ d.op.kind = "erase" => d.op.len % erase_size = 0
         \/ First(d) = Sleeps(d, "Alignment")
         \/ First(d) = Sleeps(d, "none") /\ d.op.len = 0
<1> USE DEF First
<1>1. CASE d.op.kind = "detect"
  BY <1>1
<1>2. CASE d.op.kind # "detect" /\ Large /\ d.mode = "B24"
  BY <1>2
<1>3. CASE d.op.kind = "read" /\ ~(Large /\ d.mode = "B24")
  BY <1>3 DEF Drivers
<1>4. CASE d.op.kind \in {"erase", "program"} /\ ~(Large /\ d.mode = "B24")
  <2>1. d.op.len \in Nat /\ (Large => d.mode = "B32")
    BY <1>4 DEF Drivers, FlashCalls
  <2>2. CASE d.op.kind = "erase" /\ (d.op.addr % erase_size # 0 \/ d.op.len % erase_size # 0)
    BY <1>4, <2>2
  <2>3. CASE /\ ~(d.op.kind = "erase" /\ (d.op.addr % erase_size # 0 \/ d.op.len % erase_size # 0))
             /\ d.op.len = 0
    BY <1>4, <2>3
  <2>4. CASE /\ ~(d.op.kind = "erase" /\ (d.op.addr % erase_size # 0 \/ d.op.len % erase_size # 0))
             /\ d.op.len # 0
    <3>1. First(d) = [d EXCEPT !.pc = "enable"]
      BY <1>4, <2>4
    <3>2. d.op.kind = "erase" => d.op.len % erase_size = 0
      BY <2>4
    <3>3. d.op.len > 0
      BY <2>1, <2>4
    <3> HIDE DEF First
    <3> QED
      BY <1>4, <2>1, <3>1, <3>2, <3>3
  <2> QED
    BY <2>2, <2>3, <2>4
<1> QED
  BY <1>1, <1>2, <1>3, <1>4 DEF Drivers, FlashCalls

(* The chip is awake and the operation begins. *)
LEMMA OperationBegins ==
  ASSUME FlashInv, drv.pc \in {"wake", "enter4"}, NEW d \in Drivers, NEW c \in Chips,
         d.op = drv.op, d.val = drv.val, d.off = drv.off, d.err = "none", d.got = "none", d.awake,
         d.mode = "B32" => Large /\ c.four, ~c.sleep, c.cells = chip.cells,
         drv' = First(d), chip' = c, ChipSane', ideal' = ideal
  PROVE  FlashInv'
<1> USE DEF FlashInv
<1>1. /\ d.op.kind # "none" /\ d.off = 0 /\ InBounds(d.op)
      /\ Rest(drv, 0, chip.cells, ideal)
  BY DEF CallInRange, CellsInHand
<1>2. Rest(d, 0, chip.cells, ideal)
  BY <1>1 DEF Rest, Becomes
<1>3. CASE \E p \in {"jedec", "enter4", "read", "enable"} :
              /\ First(d) = [d EXCEPT !.pc = p]
              /\ p = "jedec" => d.op.kind = "detect"
              /\ p = "enter4" => Large
              /\ p = "read" => d.op.kind = "read"
              /\ p \in {"read", "enable"} => (Large => d.mode = "B32")
              /\ p = "enable" => d.op.kind \in {"erase", "program"} /\ d.op.len > 0
              /\ p = "enable" /\ d.op.kind = "erase" => d.op.len % erase_size = 0
  <2>1. PICK p \in {"jedec", "enter4", "read", "enable"} :
              /\ First(d) = [d EXCEPT !.pc = p]
              /\ p = "jedec" => d.op.kind = "detect"
              /\ p = "enter4" => Large
              /\ p = "read" => d.op.kind = "read"
              /\ p \in {"read", "enable"} => (Large => d.mode = "B32")
              /\ p = "enable" => d.op.kind \in {"erase", "program"} /\ d.op.len > 0
              /\ p = "enable" /\ d.op.kind = "erase" => d.op.len % erase_size = 0
    BY <1>3
  <2>2. drv' = [d EXCEPT !.pc = p] /\ p \in FlashPcs
    BY <2>1 DEF FlashPcs, FlashSteps
  <2>3. /\ drv' \in Drivers /\ drv'.pc = p /\ drv'.op = d.op /\ drv'.val = d.val
        /\ drv'.off = d.off /\ drv'.err = d.err /\ drv'.got = d.got
        /\ drv'.mode = d.mode /\ drv'.awake = d.awake
    BY <2>2 DEF Drivers
  <2>4. FlashTypeOK'
    BY <2>3 DEF FlashTypeOK
  <2>5. BeliefsHold'
    BY <2>1, <2>3 DEF BeliefsHold, FlashSteps
  <2>6. CallInRange'
    <3>1. 0 % erase_size = 0
      BY ZeroRemainder
    <3>2. d.op.len \in Nat
      BY DEF Drivers, FlashCalls
    <3> QED
      BY <1>1, <2>1, <2>3, <3>1, <3>2 DEF CallInRange, InBounds
  <2>7. Rest(drv', 0, chip.cells, ideal)
    BY <1>2, <2>3 DEF Rest, Becomes
  <2>8. CellsInHand'
    BY <1>1, <2>1, <2>3, <2>7 DEF CellsInHand
  <2> QED
    BY <2>4, <2>5, <2>6, <2>8
<1>4. ASSUME NEW e \in {"Alignment", "none"}, First(d) = Sleeps(d, e), e = "none" => d.op.len = 0
      PROVE  FlashInv'
  <2>1. e \in FlashErrors
    BY DEF FlashErrors
  <2>2. /\ drv' \in Drivers /\ drv'.pc = "sleep" /\ drv'.err = e /\ drv'.mode = d.mode
        /\ drv'.op = d.op
    BY <1>4, <2>1, SleepsFacts
  <2>3. FlashTypeOK'
    BY <2>2 DEF FlashTypeOK
  <2>4. BeliefsHold' /\ CallInRange'
    BY <2>2 DEF BeliefsHold, CallInRange, FlashSteps
  <2>5. e = "none" => chip.cells = ideal
    <3> SUFFICES ASSUME e = "none" PROVE chip.cells = ideal
      OBVIOUS
    <3>1. d.op.addr \in Nat /\ d.op.len = 0
      BY <1>4 DEF Drivers, FlashCalls
    <3>2. \A x \in Addrs : x \notin d.op.addr + 0 .. d.op.addr + d.op.len - 1
      BY <3>1
    <3>3. \A x \in Addrs : chip.cells[x] = ideal[x]
      BY <1>2, <3>2 DEF Rest
    <3> QED
      BY <3>3 DEF FlashTypeOK, Chips, FlashCells
  <2>6. CellsInHand'
    BY <2>2, <2>5 DEF CellsInHand
  <2> QED
    BY <2>3, <2>4, <2>6
<1> QED
  BY <1>1, <1>3, <1>4, FirstFacts

LEMMA WakeupStep ==
  ASSUME FlashInv, Wakeup
  PROVE  FlashInv'
<1> USE DEF FlashInv
<1>1. /\ drv.pc = "wake" /\ ideal' = ideal /\ drv \in Drivers /\ chip \in Chips
      /\ drv.err = "none" /\ drv.got = "none" /\ drv.off = 0
  BY DEF Wakeup, FlashTypeOK, CallInRange
<1>2. CASE drv.awake
  <2>1. drv' = First(drv) /\ chip' = chip
    BY <1>2 DEF Wakeup
  <2>2. /\ ~chip.sleep /\ (drv.mode = "B32" => Large /\ chip.four) /\ ChipSane'
    BY <1>1, <1>2, <2>1 DEF BeliefsHold, ChipSane
  <2> QED
    BY <1>1, <1>2, <2>1, <2>2, OperationBegins
<1>3. CASE ~drv.awake
  <2> DEFINE up == [chip EXCEPT !.sleep = FALSE]
  <2>1. PICK ok \in BOOLEAN :
          /\ Spi("Wakeup", 0, 0, Erased, ok)
          /\ drv' = CASE ok -> First([drv EXCEPT !.awake = TRUE, !.tries = 0])
                      [] ~ok /\ drv.tries + 1 < WakeAttempts -> [drv EXCEPT !.tries = @ + 1]
                      [] OTHER -> Sleeps(drv, "SPI")
    BY <1>3 DEF Wakeup
  <2>2. chip' \in {chip, up} /\ (ok => chip' = up)
    BY <2>1, WakeCommand DEF Spi
  <2>3. /\ up \in Chips /\ up.cells = chip.cells /\ up.four = chip.four /\ ~up.sleep
        /\ up.wel = chip.wel /\ up.busy = chip.busy
    BY <1>1 DEF Chips
  <2>4. ChipSane' /\ chip' \in Chips /\ chip'.four = chip.four /\ chip'.cells = chip.cells
    BY <1>1, <2>2, <2>3 DEF ChipSane
  <2>5. CASE ok
    <3> DEFINE d == [drv EXCEPT !.awake = TRUE, !.tries = 0]
    <3>1. drv' = First(d)
      BY <2>1, <2>5
    <3>2. /\ d \in Drivers /\ d.op = drv.op /\ d.val = drv.val /\ d.off = drv.off
          /\ d.err = "none" /\ d.got = "none" /\ d.awake /\ d.mode = drv.mode
      BY <1>1 DEF Drivers
    <3>3. d.mode = "B32" => Large /\ up.four
      BY <2>3, <3>2 DEF BeliefsHold
    <3> HIDE DEF d, up
    <3> QED
      BY <1>1, <2>2, <2>3, <2>4, <2>5, <3>1, <3>2, <3>3, OperationBegins
  <2>6. CASE ~ok /\ drv.tries + 1 < WakeAttempts
    <3>1. drv' = [drv EXCEPT !.tries = @ + 1]
      BY <2>1, <2>6
    <3>2. /\ drv' \in Drivers /\ drv'.pc = "wake" /\ drv'.op = drv.op /\ drv'.val = drv.val
          /\ drv'.off = drv.off /\ drv'.err = drv.err /\ drv'.got = drv.got /\ drv'.mode = drv.mode
          /\ drv'.awake = drv.awake
      BY <1>1, <3>1 DEF Drivers
    <3>3. FlashTypeOK'
      BY <1>1, <2>4, <3>2 DEF FlashTypeOK
    <3>4. BeliefsHold'
      BY <1>1, <1>3, <2>4, <3>2 DEF BeliefsHold, FlashSteps
    <3>5. CallInRange'
      BY <1>1, <3>2 DEF CallInRange, InBounds
    <3>6. CellsInHand'
      BY <1>1, <2>4, <3>2 DEF CellsInHand, Rest, Becomes
    <3> QED
      BY <2>4, <3>3, <3>4, <3>5, <3>6
  <2>7. CASE ~ok /\ ~(drv.tries + 1 < WakeAttempts)
    <3>1. drv' = Sleeps(drv, "SPI") /\ "SPI" \in FlashErrors \ {"none"}
      BY <2>1, <2>7 DEF FlashErrors
    <3> QED
      BY <1>1, <2>4, <3>1, CallFails
  <2> QED
    BY <2>5, <2>6, <2>7
<1> QED
  BY <1>2, <1>3

LEMMA Enter4Step ==
  ASSUME FlashInv, Enter4ByteMode
  PROVE  FlashInv'
<1> USE DEF FlashInv
<1> DEFINE wide == IF chip.sleep \/ chip.busy THEN chip ELSE [chip EXCEPT !.four = TRUE]
<1>1. /\ drv.pc = "enter4" /\ ideal' = ideal /\ drv \in Drivers /\ chip \in Chips
      /\ drv.err = "none" /\ drv.got = "none" /\ drv.off = 0 /\ Large /\ drv.awake /\ ~chip.sleep
  BY DEF Enter4ByteMode, FlashTypeOK, CallInRange, BeliefsHold
<1>2. PICK ok \in BOOLEAN :
        /\ Spi("Enter4ByteMode", 0, 0, Erased, ok)
        /\ drv' = IF ok THEN First([drv EXCEPT !.mode = "B32"]) ELSE Sleeps(drv, "SPI")
  BY DEF Enter4ByteMode
<1>3. chip' \in {chip, wide} /\ (ok => chip' = wide)
  BY <1>2, ModeCommand DEF Spi
<1>4. /\ wide \in Chips /\ wide.cells = chip.cells /\ wide.four /\ ~wide.sleep
      /\ wide.wel = chip.wel /\ wide.busy = chip.busy
  BY <1>1 DEF Chips, ChipSane
<1>5. ChipSane' /\ chip' \in Chips /\ (chip.four => chip'.four)
  BY <1>1, <1>3, <1>4 DEF ChipSane
<1>6. CASE ok
  <2> DEFINE d == [drv EXCEPT !.mode = "B32"]
  <2>1. drv' = First(d)
    BY <1>2, <1>6
  <2>2. /\ d \in Drivers /\ d.op = drv.op /\ d.val = drv.val /\ d.off = drv.off
        /\ d.err = "none" /\ d.got = "none" /\ d.awake
    BY <1>1 DEF Drivers
  <2> HIDE DEF d, wide
  <2> QED
    BY <1>1, <1>3, <1>4, <1>5, <1>6, <2>1, <2>2, OperationBegins
<1>7. CASE ~ok
  <2>1. drv' = Sleeps(drv, "SPI") /\ "SPI" \in FlashErrors \ {"none"}
    BY <1>2, <1>7 DEF FlashErrors
  <2> QED
    BY <1>1, <1>5, <2>1, CallFails
<1> QED
  BY <1>6, <1>7

LEMMA FlashReadStep ==
  ASSUME FlashInv, FlashRead
  PROVE  FlashInv' /\ ReadsAreReal
<1> USE DEF FlashInv
<1>1. /\ drv.pc = "read" /\ ideal' = ideal /\ drv \in Drivers /\ chip \in Chips
      /\ drv.op.kind = "read" /\ (Large => drv.mode = "B32") /\ ~chip.sleep
  BY DEF FlashRead, FlashTypeOK, CallInRange, BeliefsHold, FlashSteps
<1> DEFINE g == IF Deaf \/ chip.four # (drv.mode = "B32") THEN "junk" ELSE "cells"
<1>2. PICK ok \in BOOLEAN :
        /\ Spi("Read", 0, 0, Erased, ok)
        /\ drv' = IF ~ok THEN Sleeps(drv, "SPI") ELSE [Sleeps(drv, "none") EXCEPT !.got = g]
  BY DEF FlashRead
<1>3. chip' = chip
  BY <1>2, QuietCommands DEF Spi
<1>4. ChipSane'
  BY <1>3 DEF ChipSane
<1>5. "SPI" \in FlashErrors \ {"none"} /\ "none" \in FlashErrors
  BY DEF FlashErrors
<1>6. CASE ~ok
  <2>1. drv' = Sleeps(drv, "SPI")
    BY <1>2, <1>6
  <2>2. FlashInv'
    BY <1>1, <1>3, <1>4, <1>5, <2>1, CallFails
  <2>3. drv'.got = "none"
    BY <1>1, <1>5, <2>1, SleepsFacts DEF CallInRange
  <2> QED
    BY <2>2, <2>3 DEF ReadsAreReal
<1>7. CASE ok
  <2> DEFINE d == Sleeps(drv, "none")
  <2>1. /\ d \in Drivers /\ d.pc = "sleep" /\ d.err = "none" /\ d.mode = drv.mode /\ d.op = drv.op
    BY <1>1, <1>5, SleepsFacts
  <2>2. drv' = [d EXCEPT !.got = g] /\ g \in {"none", "junk", "cells"}
    BY <1>2, <1>7
  <2> HIDE DEF d
  <2>3. /\ drv' \in Drivers /\ drv'.pc = "sleep" /\ drv'.mode = drv.mode /\ drv'.op = drv.op
        /\ drv'.got = g
    BY <2>1, <2>2 DEF Drivers
  <2>4. FlashTypeOK'
    BY <1>1, <1>3, <2>3 DEF FlashTypeOK
  <2>5. BeliefsHold' /\ CallInRange'
    BY <1>3, <2>3 DEF BeliefsHold, CallInRange, FlashSteps
  <2>6. \A x \in Addrs : chip.cells[x] = ideal[x]
    BY <1>1 DEF CellsInHand, Rest
  <2>7. chip.cells = ideal
    BY <2>6 DEF FlashTypeOK, Chips, FlashCells
  <2>8. CellsInHand'
    BY <1>1, <1>3, <2>3, <2>7 DEF CellsInHand
  <2>9. ReadsAreReal
    BY <1>1, <2>3 DEF ReadsAreReal, Deaf, BeliefsHold, ChipSane, Chips, Drivers
  <2> QED
    BY <1>4, <2>4, <2>5, <2>8, <2>9
<1> QED
  BY <1>6, <1>7

(* A step of the driver between commands: another place, no cell changed. *)
LEMMA PlaceMoves ==
  ASSUME FlashInv, NEW p \in {"latch", "change"}, NEW c \in Chips,
         drv.pc = IF p = "latch" THEN "enable" ELSE "latch",
         drv' = [drv EXCEPT !.pc = p], chip' = c, ideal' = ideal, ChipSane',
         c.cells = chip.cells, c.sleep = chip.sleep, c.four = chip.four, p = "change" => c.wel
  PROVE  FlashInv'
<1> USE DEF FlashInv
<1>1. drv \in Drivers /\ drv.pc \in FlashSteps /\ p \in FlashSteps /\ p \in FlashPcs
  BY DEF FlashTypeOK, FlashSteps, FlashPcs
<1>2. /\ drv' \in Drivers /\ drv'.pc = p /\ drv'.op = drv.op /\ drv'.val = drv.val
      /\ drv'.off = drv.off /\ drv'.err = drv.err /\ drv'.got = drv.got /\ drv'.mode = drv.mode
      /\ drv'.awake = drv.awake
  BY <1>1 DEF Drivers
<1>3. FlashTypeOK'
  BY <1>2 DEF FlashTypeOK
<1>4. BeliefsHold'
  BY <1>1, <1>2 DEF BeliefsHold, FlashSteps
<1>5. CallInRange'
  BY <1>2 DEF CallInRange, InBounds
<1>6. CellsInHand'
  BY <1>2 DEF CellsInHand, Rest, Becomes
<1> QED
  BY <1>3, <1>4, <1>5, <1>6

LEMMA EnableStep ==
  ASSUME FlashInv, WriteEnable
  PROVE  FlashInv'
<1> USE DEF FlashInv
<1> DEFINE on == IF chip.sleep \/ chip.busy THEN chip ELSE [chip EXCEPT !.wel = TRUE]
<1>1. drv.pc = "enable" /\ ideal' = ideal /\ chip \in Chips
  BY DEF WriteEnable, FlashTypeOK
<1>2. PICK ok \in BOOLEAN :
        /\ Spi("WriteEnable", 0, 0, Erased, ok)
        /\ drv' = IF ok THEN [drv EXCEPT !.pc = "latch"] ELSE Sleeps(drv, "SPI")
  BY DEF WriteEnable
<1>3. chip' \in {chip, on}
  BY <1>2, EnableCommand DEF Spi
<1>4. /\ on \in Chips /\ on.cells = chip.cells /\ on.four = chip.four /\ on.sleep = chip.sleep
      /\ on.busy = chip.busy /\ (on.busy => on.wel = chip.wel)
  BY <1>1 DEF Chips
<1>5. /\ ChipSane' /\ chip' \in Chips /\ chip'.four = chip.four /\ chip'.cells = chip.cells
      /\ chip'.sleep = chip.sleep
  BY <1>1, <1>3, <1>4 DEF ChipSane
<1>6. CASE ok
  <2>1. drv' = [drv EXCEPT !.pc = "latch"]
    BY <1>2, <1>6
  <2> QED
    BY <1>1, <1>5, <2>1, PlaceMoves
<1>7. CASE ~ok
  <2>1. drv' = Sleeps(drv, "SPI") /\ "SPI" \in FlashErrors \ {"none"}
    BY <1>2, <1>7 DEF FlashErrors
  <2> QED
    BY <1>1, <1>5, <2>1, CallFails
<1> QED
  BY <1>6, <1>7

LEMMA LatchStep ==
  ASSUME FlashInv, ReadLatch
  PROVE  FlashInv'
<1> USE DEF FlashInv
<1>1. drv.pc = "latch" /\ ideal' = ideal /\ chip \in Chips
  BY DEF ReadLatch, FlashTypeOK
<1>2. PICK ok \in BOOLEAN :
        /\ Spi("ReadStatus", 0, 0, Erased, ok)
        /\ drv' = CASE ~ok -> Sleeps(drv, "SPI")
                    [] ok /\ chip.wel /\ ~chip.sleep -> [drv EXCEPT !.pc = "change"]
                    [] OTHER -> Sleeps(drv, "Write")
  BY DEF ReadLatch
<1>3. chip' = chip
  BY <1>2, QuietCommands DEF Spi
<1>4. ChipSane'
  BY <1>3 DEF ChipSane
<1>5. CASE ok /\ chip.wel /\ ~chip.sleep
  <2>1. drv' = [drv EXCEPT !.pc = "change"]
    BY <1>2, <1>5
  <2> QED
    BY <1>1, <1>3, <1>4, <1>5, <2>1, PlaceMoves
<1>6. CASE ~(ok /\ chip.wel /\ ~chip.sleep)
  <2>1. \E e \in {"SPI", "Write"} : drv' = Sleeps(drv, e)
    BY <1>2, <1>6
  <2>2. {"SPI", "Write"} \subseteq FlashErrors \ {"none"}
    BY DEF FlashErrors
  <2> QED
    BY <1>1, <1>3, <1>4, <2>1, <2>2, CallFails
<1> QED
  BY <1>5, <1>6

LEMMA SleepStep ==
  ASSUME FlashInv, Sleep
  PROVE  FlashInv'
<1> USE DEF FlashInv
<1>1. drv.pc = "sleep" /\ ideal' = ideal /\ chip \in Chips /\ drv \in Drivers
  BY DEF Sleep, FlashTypeOK
<1>2. PICK ok \in BOOLEAN :
        /\ Spi("Sleep", 0, 0, Erased, ok)
        /\ drv' = IF ok \/ drv.tries = 1 THEN [drv EXCEPT !.pc = "idle", !.awake = FALSE]
                  ELSE [drv EXCEPT !.tries = 1]
  BY DEF Sleep
<1>3. chip' \in {chip, [chip EXCEPT !.sleep = TRUE]}
  BY <1>2, SleepCommand DEF Spi
<1>4. /\ chip' \in Chips /\ chip'.cells = chip.cells /\ chip'.four = chip.four
      /\ chip'.wel = chip.wel /\ chip'.busy = chip.busy
  BY <1>1, <1>3 DEF Chips
<1>5. /\ drv' \in Drivers /\ drv'.pc \in {"idle", "sleep"} /\ drv'.op = drv.op
      /\ drv'.err = drv.err /\ drv'.got = drv.got /\ drv'.mode = drv.mode
      /\ (drv'.pc = "idle" => ~drv'.awake)
  <2>1. {"idle", "sleep"} \subseteq FlashPcs
    BY DEF FlashPcs
  <2> QED
    BY <1>1, <1>2, <2>1 DEF Drivers
<1>6. FlashTypeOK' /\ ChipSane'
  BY <1>1, <1>4, <1>5 DEF FlashTypeOK, ChipSane
<1>7. BeliefsHold' /\ CallInRange'
  BY <1>4, <1>5 DEF BeliefsHold, CallInRange, FlashSteps
<1>8. CellsInHand'
  BY <1>1, <1>4, <1>5 DEF CellsInHand
<1> QED
  BY <1>6, <1>7, <1>8

LEMMA JedecStep ==
  ASSUME FlashInv, ReadJedec
  PROVE  FlashInv'
<1> USE DEF FlashInv
<1>1. /\ drv.pc = "jedec" /\ ideal' = ideal /\ chip \in Chips /\ drv \in Drivers
      /\ drv.op.kind = "detect" /\ drv.err = "none"
  BY DEF ReadJedec, FlashTypeOK, CallInRange
<1>2. PICK ok \in BOOLEAN, fits \in BOOLEAN :
        /\ Spi("ReadJEDEC", 0, 0, Erased, ok)
        /\ drv' = IF ok /\ fits THEN [drv EXCEPT !.pc = "idle"]
                  ELSE Sleeps(drv, IF ok THEN "SizeMismatch" ELSE "SPI")
  BY DEF ReadJedec
<1>3. chip' = chip
  BY <1>2, QuietCommands DEF Spi
<1>4. ChipSane'
  BY <1>3 DEF ChipSane
<1>5. CASE ok /\ fits
  <2>1. drv' = [drv EXCEPT !.pc = "idle"] /\ "idle" \in FlashPcs
    BY <1>2, <1>5 DEF FlashPcs
  <2>2. /\ drv' \in Drivers /\ drv'.pc = "idle" /\ drv'.op = drv.op
        /\ drv'.err = drv.err /\ drv'.got = drv.got /\ drv'.mode = drv.mode
        /\ drv'.awake = drv.awake
    BY <1>1, <2>1 DEF Drivers
  <2>3. FlashTypeOK'
    BY <1>1, <1>3, <2>2 DEF FlashTypeOK
  <2>4. BeliefsHold' /\ CallInRange'
    BY <1>1, <1>3, <2>2 DEF BeliefsHold, CallInRange, FlashSteps
  <2>5. \A x \in Addrs : chip.cells[x] = ideal[x]
    BY <1>1 DEF CellsInHand, Rest
  <2>6. chip.cells = ideal
    BY <2>5 DEF FlashTypeOK, Chips, FlashCells
  <2>7. CellsInHand'
    BY <1>1, <1>3, <2>2, <2>6 DEF CellsInHand
  <2> QED
    BY <1>4, <2>3, <2>4, <2>7
<1>6. CASE ~(ok /\ fits)
  <2>1. \E e \in {"SPI", "SizeMismatch"} : drv' = Sleeps(drv, e)
    BY <1>2, <1>6
  <2>2. {"SPI", "SizeMismatch"} \subseteq FlashErrors \ {"none"}
    BY DEF FlashErrors
  <2> QED
    BY <1>1, <1>3, <1>4, <2>1, <2>2, CallFails
<1> QED
  BY <1>5, <1>6

(* The bytes of one turn of the loop: some, no more than are left, none beyond the page. *)
LEMMA StepLenFacts ==
  ASSUME FlashInv, drv.pc \in {"change", "poll"}
  PROVE  /\ StepLen \in Nat /\ StepLen > 0 /\ drv.off + StepLen <= drv.op.len
         /\ drv.op.kind = "erase" =>
              (drv.off + StepLen) % erase_size = 0
         /\ drv.op.kind = "program" =>
              StepLen <= page_size - ((drv.op.addr + drv.off) % page_size)
<1> USE DEF FlashInv
<1>1. /\ drv.off \in Nat /\ drv.op.addr \in Nat /\ drv.op.len \in Nat /\ drv.off < drv.op.len
      /\ drv.op.kind \in {"erase", "program"}
  BY DEF FlashTypeOK, Drivers, FlashCalls, CallInRange
<1>2. CASE drv.op.kind = "erase"
  <2>1. StepLen = erase_size
    BY <1>2 DEF StepLen
  <2>2. drv.off % erase_size = 0 /\ drv.op.len % erase_size = 0
    BY <1>2 DEF CallInRange
  <2>3. drv.off + erase_size <= drv.op.len /\ (drv.off + erase_size) % erase_size = 0
    BY <1>1, <2>2, NextMultiple
  <2> QED
    BY <1>2, <2>1, <2>3
<1>3. CASE drv.op.kind = "program"
  <2>1. PICK a \in Nat : a = drv.op.addr + drv.off
    BY <1>1
  <2>2. PICK r \in 0 .. page_size - 1 : r = a % page_size
    BY <2>1
  <2>3. StepLen = IF drv.op.len - drv.off < page_size - r THEN drv.op.len - drv.off
                  ELSE page_size - r
    BY <1>3, <2>1, <2>2 DEF StepLen
  <2> QED
    BY <1>1, <1>3, <2>1, <2>2, <2>3
<1> QED
  BY <1>1, <1>2, <1>3

(* The command of one turn changes the cells it names and no other. *)
LEMMA ChangeCommand ==
  ASSUME FlashInv, drv.pc = "change", NEW done,
         done = ChipDoes(IF drv.op.kind = "erase" THEN "Erase" ELSE "Program",
                         drv.op.addr + drv.off, StepLen, drv.val)
  PROVE  /\ done \in Chips /\ ~done.wel /\ done.busy /\ done.four = chip.four
         /\ done.sleep = chip.sleep
         /\ \A x \in Addrs :
              done.cells[x] = IF x \in drv.op.addr + drv.off .. drv.op.addr + drv.off + StepLen - 1
                              THEN Becomes(drv, chip.cells[x]) ELSE chip.cells[x]
<1> USE DEF FlashInv
<1>1. /\ chip \in Chips /\ drv \in Drivers /\ chip.wel /\ ~chip.busy /\ ~chip.sleep
      /\ drv.op.kind \in {"erase", "program"} /\ chip.four = (drv.mode = "B32")
  BY DEF FlashTypeOK, BeliefsHold, ChipSane, CallInRange, FlashSteps, Chips, Drivers
<1>2. PICK a \in Nat : a = drv.op.addr + drv.off
  BY <1>1 DEF Drivers, FlashCalls
<1>3. PICK n \in Nat : n = StepLen
  BY StepLenFacts
<1> DEFINE new == [x \in Addrs |-> IF x \in a .. a + n - 1 THEN Becomes(drv, chip.cells[x])
                                  ELSE chip.cells[x]]
<1>4. ASSUME drv.op.kind = "erase"
      PROVE  done = [chip EXCEPT !.wel = FALSE, !.busy = TRUE, !.cells = new]
  <2>1. done = [chip EXCEPT !.wel = FALSE, !.busy = TRUE,
                  !.cells = [x \in Addrs |-> IF x \in a .. a + n - 1 THEN Erased
                                             ELSE chip.cells[x]]]
    BY <1>1, <1>2, <1>3, <1>4 DEF ChipDoes
  <2>2. new = [x \in Addrs |-> IF x \in a .. a + n - 1 THEN Erased ELSE chip.cells[x]]
    BY <1>4 DEF Becomes
  <2> QED
    BY <2>1, <2>2
<1>5. ASSUME drv.op.kind = "program"
      PROVE  done = [chip EXCEPT !.wel = FALSE, !.busy = TRUE, !.cells = new]
  <2>1. done = [chip EXCEPT !.wel = FALSE, !.busy = TRUE,
                  !.cells = PageProgram(chip.cells, a, n, drv.val)]
    BY <1>1, <1>2, <1>3, <1>5 DEF ChipDoes
  <2>2. {a - (a % page_size) + ((a + i) % page_size) : i \in 0..n-1} = a .. a + n - 1
    <3>1. n <= page_size - (a % page_size)
      BY <1>2, <1>3, <1>5, StepLenFacts
    <3> QED
      BY <3>1, PageHit
  <2>3. \A x \in Addrs : Programmed(chip.cells, x, drv.val)[x] = Becomes(drv, chip.cells[x])
    BY <1>1, <1>5 DEF Programmed, Becomes, Chips, FlashCells
  <2>4. PageProgram(chip.cells, a, n, drv.val) =
          [x \in Addrs |-> IF x \in a .. a + n - 1 THEN Programmed(chip.cells, x, drv.val)[x]
                           ELSE chip.cells[x]]
    BY <2>2 DEF PageProgram
  <2>5. PageProgram(chip.cells, a, n, drv.val) = new
    BY <2>3, <2>4
  <2> QED
    BY <2>1, <2>5
<1>6. done = [chip EXCEPT !.wel = FALSE, !.busy = TRUE, !.cells = new]
  BY <1>1, <1>4, <1>5
<1>7. new \in FlashCells
  BY <1>1 DEF FlashCells, Chips, Becomes, Drivers
<1>8. \A x \in Addrs : new[x] = IF x \in a .. a + n - 1 THEN Becomes(drv, chip.cells[x])
                               ELSE chip.cells[x]
  OBVIOUS
<1> HIDE DEF new
<1>9. /\ done \in Chips /\ ~done.wel /\ done.busy /\ done.four = chip.four
      /\ done.sleep = chip.sleep /\ done.cells = new
  BY <1>1, <1>6, <1>7 DEF Chips
<1> QED
  BY <1>2, <1>3, <1>8, <1>9

LEMMA ChangeStep ==
  ASSUME FlashInv, Change
  PROVE  FlashInv'
<1> USE DEF FlashInv
<1>1. /\ drv.pc = "change" /\ ideal' = ideal /\ chip \in Chips /\ drv \in Drivers
      /\ drv.op.kind \in {"erase", "program"} /\ (Large => drv.mode = "B32")
  BY DEF Change, FlashTypeOK, CallInRange, BeliefsHold, FlashSteps
<1>2. PICK done : done = ChipDoes(IF drv.op.kind = "erase" THEN "Erase" ELSE "Program",
                                  drv.op.addr + drv.off, StepLen, drv.val)
  OBVIOUS
<1>3. PICK ok \in BOOLEAN :
        /\ chip' \in IF ok THEN {done} ELSE {chip, done}
        /\ drv' = IF ok THEN [drv EXCEPT !.pc = "poll", !.tries = 0] ELSE Sleeps(drv, "SPI")
  BY <1>2 DEF Change, Spi
<1>4. /\ done \in Chips /\ ~done.wel /\ done.busy /\ done.four = chip.four
      /\ done.sleep = chip.sleep
      /\ \A x \in Addrs :
           done.cells[x] = IF x \in drv.op.addr + drv.off .. drv.op.addr + drv.off + StepLen - 1
                           THEN Becomes(drv, chip.cells[x]) ELSE chip.cells[x]
  BY <1>1, <1>2, ChangeCommand
<1>5. chip' \in Chips /\ chip'.four = chip.four /\ ChipSane'
  <2>1. Large => chip.four
    BY <1>1 DEF BeliefsHold
  <2>2. chip'.four = chip.four /\ chip' \in Chips
    BY <1>1, <1>3, <1>4
  <2>3. chip' = chip \/ (~chip'.wel /\ chip'.busy)
    BY <1>3, <1>4
  <2> QED
    BY <2>1, <2>2, <2>3 DEF ChipSane
<1>6. CASE ok
  <2>1. drv' = [drv EXCEPT !.pc = "poll", !.tries = 0] /\ "poll" \in FlashPcs /\ chip' = done
    BY <1>3, <1>6 DEF FlashPcs, FlashSteps
  <2>2. /\ drv' \in Drivers /\ drv'.pc = "poll" /\ drv'.op = drv.op /\ drv'.val = drv.val
        /\ drv'.off = drv.off /\ drv'.err = drv.err /\ drv'.got = drv.got
        /\ drv'.mode = drv.mode /\ drv'.awake = drv.awake
    BY <1>1, <2>1 DEF Drivers
  <2>3. FlashTypeOK'
    BY <1>1, <1>5, <2>2 DEF FlashTypeOK
  <2>4. BeliefsHold'
    BY <1>1, <1>4, <2>1, <2>2 DEF BeliefsHold, FlashSteps
  <2>5. CallInRange'
    BY <1>1, <2>2 DEF CallInRange, InBounds
  <2>6. PICK n \in Nat : n = StepLen /\ n > 0 /\ drv.off + n <= drv.op.len /\ StepLen' = n
    BY <1>1, <2>2, StepLenFacts DEF StepLen
  <2>7. Rest(drv, drv.off, chip.cells, ideal)
    BY <1>1 DEF CellsInHand
  <2>8. drv.off \in Nat /\ drv.op.addr \in Nat /\ drv.op.len \in Nat
    BY <1>1 DEF Drivers, FlashCalls
  <2>9. \A x \in Addrs :
          IF x \in drv.op.addr + (drv.off + n) .. drv.op.addr + drv.op.len - 1
          THEN Becomes(drv, done.cells[x]) = ideal[x] ELSE done.cells[x] = ideal[x]
    <3> SUFFICES ASSUME NEW x \in Addrs
                 PROVE  IF x \in drv.op.addr + (drv.off + n) .. drv.op.addr + drv.op.len - 1
                        THEN Becomes(drv, done.cells[x]) = ideal[x]
                        ELSE done.cells[x] = ideal[x]
      OBVIOUS
    <3>1. x \in Int
      BY DEF Addrs
    <3>2. CASE x \in drv.op.addr + drv.off .. drv.op.addr + drv.off + n - 1
      <4>1. /\ x \in drv.op.addr + drv.off .. drv.op.addr + drv.op.len - 1
            /\ x \notin drv.op.addr + (drv.off + n) .. drv.op.addr + drv.op.len - 1
        BY <2>6, <2>8, <3>1, <3>2
      <4>2. done.cells[x] = Becomes(drv, chip.cells[x])
        BY <1>4, <2>6, <3>2
      <4> QED
        BY <1>1, <2>7, <4>1, <4>2 DEF Rest
    <3>3. CASE x \in drv.op.addr + (drv.off + n) .. drv.op.addr + drv.op.len - 1
      <4>1. /\ x \in drv.op.addr + drv.off .. drv.op.addr + drv.op.len - 1
            /\ x \notin drv.op.addr + drv.off .. drv.op.addr + drv.off + n - 1
        BY <2>6, <2>8, <3>1, <3>3
      <4>2. done.cells[x] = chip.cells[x]
        BY <1>4, <2>6, <4>1
      <4> QED
        BY <1>1, <2>7, <3>3, <4>1, <4>2 DEF Rest
    <3>4. CASE /\ x \notin drv.op.addr + drv.off .. drv.op.addr + drv.off + n - 1
               /\ x \notin drv.op.addr + (drv.off + n) .. drv.op.addr + drv.op.len - 1
      <4>1. x \notin drv.op.addr + drv.off .. drv.op.addr + drv.op.len - 1
        BY <2>6, <2>8, <3>1, <3>4
      <4>2. done.cells[x] = chip.cells[x]
        BY <1>4, <2>6, <3>4
      <4> QED
        BY <2>7, <3>4, <4>1, <4>2 DEF Rest
    <3> QED
      BY <3>2, <3>3, <3>4
  <2>10. Rest(drv', drv.off + n, done.cells, ideal)
    BY <1>1, <2>2, <2>9 DEF Rest, Becomes
  <2>11. CellsInHand'
    BY <2>1, <2>2, <2>6, <2>10, <1>1 DEF CellsInHand
  <2> QED
    BY <1>5, <2>3, <2>4, <2>5, <2>11
<1>7. CASE ~ok
  <2>1. drv' = Sleeps(drv, "SPI") /\ "SPI" \in FlashErrors \ {"none"}
    BY <1>3, <1>7 DEF FlashErrors
  <2> QED
    BY <1>1, <1>5, <2>1, CallFails
<1> QED
  BY <1>6, <1>7

LEMMA PollStep ==
  ASSUME FlashInv, Poll
  PROVE  FlashInv'
<1> USE DEF FlashInv
<1>1. /\ drv.pc = "poll" /\ ideal' = ideal /\ chip \in Chips /\ drv \in Drivers
      /\ drv.op.kind \in {"erase", "program"} /\ drv.err = "none"
  BY DEF Poll, FlashTypeOK, CallInRange
<1>2. PICK n \in Nat :
        /\ n = StepLen /\ n > 0 /\ drv.off + n <= drv.op.len
        /\ drv.op.kind = "erase" => (drv.off + n) % erase_size = 0
  BY <1>1, StepLenFacts
<1>3. PICK ok \in BOOLEAN :
        /\ Spi("ReadStatus", 0, 0, Erased, ok)
        /\ drv' = CASE ~ok -> Sleeps(drv, "SPI")
                    [] ok /\ ~chip.busy ->
                         IF drv.off + n < drv.op.len
                         THEN [drv EXCEPT !.pc = "enable", !.off = @ + n]
                         ELSE Sleeps(drv, "none")
                    [] ok /\ chip.busy /\ drv.tries + 1 < ReadyPolls -> [drv EXCEPT !.tries = @ + 1]
                    [] OTHER -> Sleeps(drv, "Timeout")
  BY <1>2 DEF Poll
<1>4. chip' = chip /\ ChipSane'
  BY <1>3, QuietCommands DEF Spi, ChipSane
<1>5. Rest(drv, drv.off + n, chip.cells, ideal)
  BY <1>1, <1>2 DEF CellsInHand
<1>6. CASE ~ok \/ (ok /\ chip.busy /\ ~(drv.tries + 1 < ReadyPolls))
  <2>1. \E e \in {"SPI", "Timeout"} : drv' = Sleeps(drv, e)
    BY <1>3, <1>6
  <2>2. {"SPI", "Timeout"} \subseteq FlashErrors \ {"none"}
    BY DEF FlashErrors
  <2> QED
    BY <1>1, <1>4, <2>1, <2>2, CallFails
<1>7. CASE ok /\ chip.busy /\ drv.tries + 1 < ReadyPolls
  <2>1. drv' = [drv EXCEPT !.tries = @ + 1]
    BY <1>3, <1>7
  <2>2. /\ drv' \in Drivers /\ drv'.pc = "poll" /\ drv'.op = drv.op /\ drv'.val = drv.val
        /\ drv'.off = drv.off /\ drv'.err = drv.err /\ drv'.got = drv.got
        /\ drv'.mode = drv.mode /\ drv'.awake = drv.awake
    BY <1>1, <2>1 DEF Drivers
  <2>3. FlashTypeOK'
    BY <1>1, <1>4, <2>2 DEF FlashTypeOK
  <2>4. BeliefsHold'
    BY <1>1, <1>4, <2>2 DEF BeliefsHold, FlashSteps
  <2>5. CallInRange'
    BY <1>1, <2>2 DEF CallInRange, InBounds
  <2>6. CellsInHand'
    BY <1>1, <1>4, <2>2 DEF CellsInHand, Rest, Becomes, StepLen
  <2> QED
    BY <1>4, <2>3, <2>4, <2>5, <2>6
<1>8. CASE ok /\ ~chip.busy /\ drv.off + n < drv.op.len
  <2>1. drv' = [drv EXCEPT !.pc = "enable", !.off = @ + n] /\ "enable" \in FlashPcs
    BY <1>3, <1>8 DEF FlashPcs, FlashSteps
  <2>2. /\ drv' \in Drivers /\ drv'.pc = "enable" /\ drv'.op = drv.op /\ drv'.val = drv.val
        /\ drv'.off = drv.off + n /\ drv'.err = drv.err /\ drv'.got = drv.got
        /\ drv'.mode = drv.mode /\ drv'.awake = drv.awake
    <3>1. drv.off + n \in Nat /\ drv' = [drv EXCEPT !.pc = "enable", !.off = drv.off + n]
      BY <1>1, <2>1 DEF Drivers
    <3> QED
      BY <1>1, <2>1, <3>1 DEF Drivers
  <2>3. FlashTypeOK'
    BY <1>1, <1>4, <2>2 DEF FlashTypeOK
  <2>4. BeliefsHold'
    BY <1>1, <1>4, <2>2 DEF BeliefsHold, FlashSteps
  <2>5. CallInRange'
    BY <1>1, <1>2, <1>8, <2>2 DEF CallInRange, InBounds
  <2>6. Rest(drv', drv.off + n, chip.cells, ideal)
    BY <1>5, <2>2 DEF Rest, Becomes
  <2>7. CellsInHand'
    BY <1>1, <1>4, <2>2, <2>6 DEF CellsInHand
  <2> QED
    BY <1>4, <2>3, <2>4, <2>5, <2>7
<1>9. CASE ok /\ ~chip.busy /\ ~(drv.off + n < drv.op.len)
  <2>1. drv' = Sleeps(drv, "none") /\ "none" \in FlashErrors
    BY <1>3, <1>9 DEF FlashErrors
  <2>2. drv' \in Drivers /\ drv'.pc = "sleep" /\ drv'.mode = drv.mode
    BY <1>1, <2>1, SleepsFacts
  <2>3. FlashTypeOK'
    BY <1>1, <1>4, <2>2 DEF FlashTypeOK
  <2>4. BeliefsHold' /\ CallInRange'
    BY <1>4, <2>2 DEF BeliefsHold, CallInRange, FlashSteps
  <2>5. drv.off \in Nat /\ drv.op.addr \in Nat /\ drv.op.len \in Nat
    BY <1>1 DEF Drivers, FlashCalls
  <2>6. \A x \in Addrs : x \notin drv.op.addr + (drv.off + n) .. drv.op.addr + drv.op.len - 1
    BY <1>2, <1>9, <2>5
  <2>7. \A x \in Addrs : chip.cells[x] = ideal[x]
    BY <1>5, <2>6 DEF Rest
  <2>8. chip.cells = ideal
    BY <2>7 DEF FlashTypeOK, Chips, FlashCells
  <2>9. CellsInHand'
    BY <1>1, <1>4, <2>2, <2>8 DEF CellsInHand
  <2> QED
    BY <1>4, <2>3, <2>4, <2>9
<1> QED
  BY <1>6, <1>7, <1>8, <1>9

(* spi_flash.rs, for every size of page, sector and chip, every call, any transactions that    *)
(* fail, chip that stays busy and resets of the processor: an erase or a program that returns  *)
(* Ok changed exactly the cells of its range, and a read that returns Ok read the cells.       *)
THEOREM FlashStaysExact == FlashSpec => []ChangesAreExact /\ [][ReadsAreReal]_flashVars
<1>1. FlashInit => FlashInv
  <2> SUFFICES ASSUME FlashInit PROVE FlashInv
    OBVIOUS
  <2>1. /\ drv.pc = "idle" /\ drv.op.kind = "none" /\ drv.mode = "B24" /\ ~drv.awake
        /\ drv \in Drivers
    BY DEF FlashInit, FlashIdle, Drivers, FlashPcs, FlashCalls, FlashErrors
  <2>2. chip \in Chips /\ ideal \in FlashCells /\ ~chip.busy /\ ~chip.four
    BY DEF FlashInit, Chips, FlashCells
  <2> QED
    BY <2>1, <2>2 DEF FlashInv, FlashTypeOK, ChipSane, BeliefsHold, CallInRange, CellsInHand,
                     FlashSteps
<1>2. FlashInv /\ [FlashNext]_flashVars => FlashInv'
  BY FlashStutters, ReadyStep, ResetStep, CallStep, WakeupStep, Enter4Step, FlashReadStep,
     EnableStep, LatchStep, ChangeStep, PollStep, SleepStep, JedecStep DEF FlashNext
<1>3. FlashInv => ChangesAreExact
  BY DEF FlashInv, CellsInHand, ChangesAreExact, Succeeded
<1>4. FlashInv /\ [FlashNext]_flashVars => [ReadsAreReal]_flashVars
  <2> SUFFICES ASSUME FlashInv, FlashNext, drv.pc = "read", ~chip.busy
               PROVE  drv'.got # "junk"
    BY DEF ReadsAreReal
  <2>1. CASE FlashRead
    BY <2>1, FlashReadStep DEF ReadsAreReal
  <2>2. CASE FlashReset
    BY <2>2 DEF FlashReset, FlashIdle
  <2> QED
    BY <2>1, <2>2 DEF FlashNext, FlashCall, Wakeup, Enter4ByteMode, WriteEnable, ReadLatch,
                     Change, Poll, Sleep, ReadJedec, ChipReady
<1> QED
  BY <1>1, <1>2, <1>3, <1>4, PTL DEF FlashSpec

HIDE FlashAssumption

-----------------------------------------------------------------------------
(* dma/circular.rs *)

(* The consumer inside its span of register accesses, and with a position not yet accounted. *)
ReadSpan == {"look", "looked", "swap", "see", "seen", "copy", "check", "checked", "exit"}
FreshLook == {"looked", "seen", "checked"}
Copying == {"copy", "check", "checked"}
Leaving == {"exit", "dostop", "settle"}
RingPcs == ReadSpan \cup {"idle", "service", "start", "commit", "raced", "dostop", "settle"}

Rings == [0 .. RingLen - 1 -> Int]
Channels == [en : BOOLEAN, clk : BOOLEAN, pos : Nat, ht : BOOLEAN, tc : BOOLEAN, te : BOOLEAN,
             unmade : BOOLEAN, ring : Rings]
Counts == 0 .. RingLen
ByteSeqs == Seq(Int)
Consumers == [laps : Nat, prev : Counts, consumed : Nat, looked : Nat, c : Counts,
              produced : Int, got : ByteSeqs, want : Nat, res : {"Empty", "Bytes", "Overrun"}]
Outs == [bytes : ByteSeqs, last : Int, gap : BOOLEAN, was : BOOLEAN]

ControlTypeOK ==
    /\ ring_state \in {"IDLE", "ARMED", "READING", "STOP_REQ", "REARM_REQ"}
    /\ dma \in Channels /\ line \in Nat /\ cpc \in RingPcs
    /\ kpc \in {"idle", "stop", "halt", "stopped"}

BooksTypeOK ==
    /\ isr_laps \in Nat /\ cons \in Consumers /\ out \in Outs
    /\ cpc \in FreshLook => cons.c > 0

(* What control may be doing in each state, and where the consumer is. *)
StatesAgree ==
    /\ ring_state \in {"ARMED", "READING", "REARM_REQ"} => kpc = "idle"
    /\ kpc = "stop" => ring_state = "IDLE" /\ cpc \in {"idle", "service"}
    /\ ring_state = "ARMED" => cpc = "idle"
    /\ ring_state = "READING" => cpc \in ReadSpan
    /\ ring_state = "STOP_REQ" => cpc \in ReadSpan \cup {"dostop", "settle"}
    /\ cpc \in ReadSpan /\ kpc = "halt" => ring_state = "STOP_REQ"
    /\ cpc \in {"start", "commit", "raced"} => ring_state \in {"REARM_REQ", "IDLE"} /\ kpc # "halt"

(* Whether the channel runs and is clocked. *)
ChannelAgrees ==
    /\ ring_state \in {"ARMED", "READING"} => dma.en /\ dma.clk
    /\ cpc \in ReadSpan => dma.clk
    /\ cpc \in ReadSpan /\ ring_state # "READING" /\ kpc # "halt" => ~dma.en
    /\ cpc = "start" => ~dma.en
    /\ cpc \in {"commit", "raced"} => dma.en /\ dma.clk
    /\ cpc = "settle" => ~dma.en /\ ~dma.clk
    /\ cpc \in {"idle", "service"} /\ ring_state \in {"IDLE", "REARM_REQ"} /\ kpc # "stop"
         => ~dma.en /\ (dma.clk => dma.unmade)
    /\ cpc \in ReadSpan /\ ring_state \in {"IDLE", "REARM_REQ"} => dma.unmade
    /\ ~dma.en => NoFlags

ControlInv == ControlTypeOK /\ StatesAgree /\ ChannelAgrees

Floor(x) == x - (x % RingLen)

(* The laps by the consumer's own count, the look it has not accounted for included. *)
OwnLaps == IF cpc \in FreshLook /\ cons.c > cons.prev THEN cons.laps + 1 ELSE cons.laps

(* The counts: the interrupt handler's is never ahead, the consumer's own is right for the last *)
(* place it looked at, or one lap (over) ahead of it.                                           *)
LapsAgree(over) ==
    /\ cons.looked <= dma.pos /\ dma.pos < cons.looked + RingLen
    /\ isr_laps * RingLen + (IF dma.tc THEN RingLen ELSE 0) <= Floor(dma.pos)
    /\ OwnLaps * RingLen = Floor(cons.looked) + over
    /\ IF cpc \in FreshLook THEN cons.c = RingLen - (cons.looked % RingLen)
       ELSE cons.prev = RingLen - (cons.looked % RingLen)

(* at: the place up to which the consumer has read, which its books hold shifted by the laps it *)
(* was ahead at its last resync.                                                                *)
PlaceAgrees(over, shift) ==
    LET at == cons.consumed - shift
    IN  /\ at >= 0 /\ at <= cons.looked /\ shift <= over
        /\ shift < over => dma.pos > at /\ (cpc \in FreshLook => cons.looked > at)

(* The ring holds the last bytes of the line, of which base had come before the channel began. *)
RingHolds(base) ==
    /\ \A q \in 0 .. dma.pos - 1 :
         q >= dma.pos - RingLen => dma.ring[q % RingLen] = base + q + 1
    /\ dma.en => line = base + dma.pos

(* What was copied is what came, unless the engine has run over it. *)
CopyAgrees(base, over, shift) ==
    LET at == cons.consumed - shift
        front == IF cpc = "checked" THEN cons.looked ELSE dma.pos
    IN  /\ cpc \in Copying =>
             /\ cons.want > 0 /\ Len(cons.got) <= cons.want /\ (cpc = "copy" => Len(cons.got) < cons.want)
             /\ cpc # "copy" => Len(cons.got) = cons.want
             /\ shift = over => at + cons.want <= cons.looked
             /\ shift = over /\ front <= at + RingLen =>
                  \A i \in 1 .. Len(cons.got) : cons.got[i] = base + at + i
        /\ cpc \notin Copying \cup Leaving => cons.got = <<>>
        /\ cons.res = "Bytes" =>
             /\ cpc \in Leaving /\ Len(cons.got) > 0
             /\ \A i \in 1 .. Len(cons.got) :
                  cons.got[i] = base + at - Len(cons.got) + i
        /\ cons.res = "Overrun" => cpc \in Leaving

(* The last byte handed out is the one before the place, unless a gap was reported. *)
OutAgrees(base, shift) ==
    LET at == cons.consumed - shift
    IN  /\ cpc \in {"commit", "raced"} => out.gap
        /\ (ring_state = "ARMED" \/ cpc \in ReadSpan \cup Leaving) /\ ~out.gap /\ cons.res # "Overrun" =>
             out.last = base + at - (IF cons.res = "Bytes" THEN Len(cons.got) ELSE 0)

Books(base, over, shift) ==
    /\ LapsAgree(over) /\ PlaceAgrees(over, shift) /\ RingHolds(base)
    /\ CopyAgrees(base, over, shift) /\ OutAgrees(base, shift)

ArmInv == cpc = "start" =>
    /\ isr_laps = 0 /\ cons.laps = 0 /\ cons.prev = RingLen /\ cons.consumed = 0
    /\ cons.looked = 0 /\ cons.got = <<>> /\ cons.res = "Empty"

BooksInv ==
    /\ BooksTypeOK /\ ArmInv /\ ReadsAreWhole
    /\ cpc # "start" => \E base \in 0 .. line, over, shift \in {0, RingLen} : Books(base, over, shift)

USE RingAssumption

LEMMA ControlStutters ==
  ASSUME ControlInv, UNCHANGED ringVars
  PROVE  ControlInv'
BY DEF ControlInv, ControlTypeOK, StatesAgree, ChannelAgrees, NoFlags, ringVars

(* The channel after a byte. *)
LEMMA ByteWritten ==
  ASSUME DmaByte, dma.en, dma \in Channels, line \in Nat
  PROVE  /\ dma' \in Channels /\ dma'.en = dma.en /\ dma'.clk = dma.clk
         /\ dma'.unmade = dma.unmade /\ dma'.pos = dma.pos + 1
         /\ dma'.ring = [dma.ring EXCEPT ![dma.pos % RingLen] = line + 1]
         /\ dma'.tc = (dma.tc \/ (dma.pos + 1) % RingLen = 0)
<1> DEFINE h == dma.ht \/ (dma.pos + 1) % RingLen = RingLen \div 2
           t == dma.tc \/ (dma.pos + 1) % RingLen = 0
           r == [dma.ring EXCEPT ![dma.pos % RingLen] = line + 1]
<1>1. dma.pos \in Nat /\ dma.pos % RingLen \in 0 .. RingLen - 1 /\ line + 1 \in Int
  BY DEF Channels
<1>2. r \in Rings
  BY <1>1 DEF Channels, Rings
<1>3. h \in BOOLEAN /\ t \in BOOLEAN
  OBVIOUS
<1>4. dma' = [dma EXCEPT !.pos = dma.pos + 1, !.ring = r, !.ht = h, !.tc = t]
  BY DEF DmaByte, Channels
<1> HIDE DEF h, t, r
<1>5. dma' \in Channels
  <2>1. dma.pos + 1 \in Nat
    BY <1>1
  <2> QED
    BY <1>2, <1>3, <1>4, <2>1 DEF Channels
<1>6. /\ dma'.en = dma.en /\ dma'.clk = dma.clk
      /\ dma'.unmade = dma.unmade /\ dma'.pos = dma.pos + 1 /\ dma'.ring = r
  BY <1>4 DEF Channels
<1>7. dma'.tc = t
  BY <1>4 DEF Channels
<1> QED
  BY <1>5, <1>6, <1>7 DEF r, t

(* Steps of the engine and of the interrupt handler: what the channel is set to stays. *)
LEMMA EngineKeepsControl ==
  ASSUME ControlInv, DmaByte \/ TransferError \/ HandleInterrupt \/ SignalOverrun
  PROVE  ControlInv'
<1> USE DEF ControlInv
<1>1. dma \in Channels /\ line \in Nat /\ line' \in Nat
  BY DEF ControlTypeOK, DmaByte, TransferError, HandleInterrupt, SignalOverrun
<1>2. UNCHANGED <<ring_state, cpc, kpc>>
  BY DEF DmaByte, TransferError, HandleInterrupt, SignalOverrun
<1>3. /\ dma' \in Channels /\ dma'.en = dma.en /\ dma'.clk = dma.clk
      /\ dma'.unmade = dma.unmade /\ (~dma.en => NoFlags')
  <2>1. CASE DmaByte
    <3>1. CASE ~dma.en
      <4>1. dma' = dma
        BY <2>1, <3>1 DEF DmaByte
      <4> QED
        BY <1>1, <3>1, <4>1 DEF ChannelAgrees, NoFlags
    <3>2. CASE dma.en
      BY <1>1, <2>1, <3>2, ByteWritten
    <3> QED
      BY <3>1, <3>2
  <2>2. CASE TransferError
    BY <1>1, <2>2 DEF TransferError, Channels
  <2>3. CASE HandleInterrupt
    BY <1>1, <2>3 DEF HandleInterrupt, Channels, NoFlags
  <2>4. CASE SignalOverrun
    BY <1>1, <2>4 DEF SignalOverrun, ChannelAgrees, NoFlags
  <2> QED
    BY <2>1, <2>2, <2>3, <2>4
<1>4. ControlTypeOK' /\ StatesAgree'
  BY <1>1, <1>2, <1>3 DEF ControlTypeOK, StatesAgree
<1>5. ChannelAgrees'
  BY <1>2, <1>3 DEF ChannelAgrees
<1> QED
  BY <1>4, <1>5

LEMMA ChannelSettings ==
  ASSUME dma \in Channels
  PROVE  /\ RingStopped(dma) \in Channels /\ ~RingStopped(dma).en /\ ~RingStopped(dma).clk
         /\ ~RingStopped(dma).ht /\ ~RingStopped(dma).tc /\ ~RingStopped(dma).te
         /\ RingStopped(dma).pos = dma.pos /\ RingStopped(dma).ring = dma.ring
         /\ RingStarted(dma) \in Channels /\ RingStarted(dma).en /\ RingStarted(dma).clk
         /\ ~RingStarted(dma).ht /\ ~RingStarted(dma).tc /\ ~RingStarted(dma).te
         /\ RingStarted(dma).pos = 0 /\ RingStarted(dma).ring = dma.ring
BY DEF Channels, RingStopped, RingStarted

(* Steps of control. *)
LEMMA ControlKeepsControl ==
  ASSUME ControlInv, ControlStep
  PROVE  ControlInv'
<1> USE DEF ControlInv
<1>1. dma \in Channels /\ cpc' = cpc /\ line' = line /\ NoFlags
  BY DEF ControlTypeOK, ControlStep, RingStop, StopChannel, RequestRearm
<1>2. CASE RingStop
  <2>1. dma' = dma /\ kpc = "idle"
    BY <1>2 DEF RingStop
  <2>2. \/ ring_state = "ARMED" /\ ring_state' = "IDLE" /\ kpc' = "stop"
        \/ ring_state = "READING" /\ ring_state' = "STOP_REQ" /\ kpc' = "halt"
        \/ ring_state = "REARM_REQ" /\ ring_state' = "IDLE" /\ kpc' = "stopped"
        \/ ring_state \in {"IDLE", "STOP_REQ"} /\ ring_state' = ring_state /\ kpc' = "stopped"
    BY <1>2 DEF RingStop, ControlTypeOK
  <2>3. ControlTypeOK' /\ StatesAgree'
    BY <1>1, <2>1, <2>2 DEF ControlTypeOK, StatesAgree, ReadSpan
  <2>4. ChannelAgrees'
    BY <1>1, <2>1, <2>2 DEF ChannelAgrees, StatesAgree, NoFlags, ReadSpan
  <2> QED
    BY <2>3, <2>4
<1>3. CASE StopChannel
  <2>1. ring_state' = ring_state /\ kpc \in {"stop", "halt"} /\ kpc' = "stopped"
    BY <1>3 DEF StopChannel
  <2>2. /\ dma' \in Channels /\ (dma'.clk => dma.clk) /\ dma'.unmade \in BOOLEAN
        /\ kpc = "stop" => ~dma'.en /\ ~dma'.clk
        /\ kpc = "halt" => dma'.en = (dma.en /\ ~dma.clk) /\ dma'.clk = dma.clk
                           /\ dma'.unmade = dma.unmade
        /\ ~dma'.ht /\ ~dma'.tc /\ ~dma'.te
    <3>1. CASE kpc = "stop"
      BY <1>1, <1>3, <3>1, ChannelSettings DEF StopChannel, Channels
    <3>2. CASE kpc = "halt"
      BY <1>1, <1>3, <3>2 DEF StopChannel, Channels, NoFlags
    <3> QED
      BY <2>1, <3>1, <3>2
  <2>3. ControlTypeOK' /\ StatesAgree'
    BY <1>1, <2>1, <2>2 DEF ControlTypeOK, StatesAgree
  <2>4. ChannelAgrees'
    BY <1>1, <2>1, <2>2 DEF ChannelAgrees, StatesAgree, NoFlags, ReadSpan, ControlTypeOK
  <2> QED
    BY <2>3, <2>4
<1>4. CASE RequestRearm
  <2>1. /\ ring_state' = "REARM_REQ" /\ kpc = "stopped" /\ kpc' = "idle"
        /\ dma' = [dma EXCEPT !.unmade = @ \/ ring_state = "STOP_REQ"]
    BY <1>4 DEF RequestRearm
  <2>2. /\ dma' \in Channels /\ dma'.clk = dma.clk /\ dma'.en = dma.en
        /\ dma'.unmade = (dma.unmade \/ ring_state = "STOP_REQ")
        /\ ~dma'.ht /\ ~dma'.tc /\ ~dma'.te
    BY <1>1, <2>1 DEF Channels, NoFlags
  <2>3. ControlTypeOK' /\ StatesAgree'
    BY <1>1, <2>1, <2>2 DEF ControlTypeOK, StatesAgree, ReadSpan
  <2>4. ChannelAgrees'
    BY <1>1, <2>1, <2>2 DEF ChannelAgrees, StatesAgree, NoFlags, ReadSpan, ControlTypeOK
  <2> QED
    BY <2>3, <2>4
<1> QED
  BY <1>2, <1>3, <1>4 DEF ControlStep

(* Steps of the consumer inside its span. *)
LEMMA SpanSteps ==
  ASSUME SwapOverrun \/ ReadNdtr \/ DataReady \/ DecideRead \/ CopyByte \/ Revalidate
  PROVE  cpc \in ReadSpan \ {"exit"} /\ cpc' \in ReadSpan /\ UNCHANGED <<ring_state, dma, kpc, line>>
<1>1. CASE ReadNdtr
  <2>1. /\ cpc \in {"look", "see", "check"} /\ UNCHANGED <<ring_state, dma, kpc, line>>
        /\ cpc' = [look |-> "looked", see |-> "seen", check |-> "checked"][cpc]
    BY <1>1 DEF ReadNdtr
  <2>2. cpc' \in {"looked", "seen", "checked"}
    BY <2>1
  <2> QED
    BY <2>1, <2>2 DEF ReadSpan
<1>2. CASE DecideRead
  <2>1. cpc' \in {"exit", "copy"}
    BY <1>2 DEF DecideRead
  <2> QED
    BY <1>2, <2>1 DEF DecideRead, ReadSpan
<1> QED
  BY <1>1, <1>2 DEF SwapOverrun, DataReady, CopyByte, Revalidate, ReadSpan

LEMMA SpanKeepsControl ==
  ASSUME ControlInv, NoFlags, SwapOverrun \/ ReadNdtr \/ DataReady \/ DecideRead \/ CopyByte \/ Revalidate
  PROVE  ControlInv'
<1>1. cpc \in ReadSpan /\ cpc' \in ReadSpan /\ UNCHANGED <<ring_state, dma, kpc, line>>
  BY SpanSteps
<1>2. ControlTypeOK' /\ StatesAgree'
  BY <1>1 DEF ControlInv, ControlTypeOK, StatesAgree, RingPcs, ReadSpan
<1>3. ChannelAgrees'
  BY <1>1 DEF ControlInv, ChannelAgrees, NoFlags, ReadSpan
<1> QED
  BY <1>2, <1>3 DEF ControlInv

(* Steps of the consumer that enter, leave, arm and stop. *)
LEMMA ConsumerKeepsControl ==
  ASSUME ControlInv, NoFlags,
         EnterReading \/ Service \/ StartCircular \/ CommitArm \/ ArmRaced \/ DoStop \/ ExitReading
  PROVE  ControlInv'
<1> USE DEF ControlInv
<1>1. dma \in Channels /\ line \in Nat /\ kpc' = kpc /\ line' = line
  BY DEF ControlTypeOK, EnterReading, Service, StartCircular, CommitArm, ArmRaced, DoStop,
         ExitReading
<1>2. CASE EnterReading
  <2>1. /\ dma' = dma /\ cpc = "idle"
        /\ \/ ring_state = "ARMED" /\ ring_state' = "READING" /\ cpc' \in {"look", "swap"}
           \/ ring_state # "ARMED" /\ ring_state' = ring_state /\ cpc' = "service"
    BY <1>2 DEF EnterReading
  <2>2. ControlTypeOK' /\ StatesAgree'
    BY <1>1, <2>1 DEF ControlTypeOK, StatesAgree, ReadSpan, RingPcs
  <2>3. ChannelAgrees'
    BY <1>1, <2>1 DEF ChannelAgrees, StatesAgree, NoFlags, ReadSpan
  <2> QED
    BY <2>2, <2>3
<1>3. CASE Service
  <2>1. /\ dma' = dma /\ ring_state' = ring_state /\ cpc = "service"
        /\ \/ ring_state = "REARM_REQ" /\ cpc' = "start"
           \/ ring_state = "STOP_REQ" /\ cpc' = "dostop"
           \/ ring_state \notin {"REARM_REQ", "STOP_REQ"} /\ cpc' = "idle"
    BY <1>3 DEF Service, ReturnRead
  <2>2. ControlTypeOK' /\ StatesAgree'
    BY <1>1, <2>1 DEF ControlTypeOK, StatesAgree, ReadSpan, RingPcs
  <2>3. ChannelAgrees'
    BY <1>1, <2>1 DEF ChannelAgrees, StatesAgree, NoFlags, ReadSpan
  <2> QED
    BY <2>2, <2>3
<1>4. CASE StartCircular
  <2>1. dma' = RingStarted(dma) /\ ring_state' = ring_state /\ cpc = "start" /\ cpc' = "commit"
    BY <1>4 DEF StartCircular
  <2>2. dma' \in Channels /\ dma'.en /\ dma'.clk
    BY <1>1, <2>1, ChannelSettings
  <2>3. ControlTypeOK' /\ StatesAgree'
    BY <1>1, <2>1, <2>2 DEF ControlTypeOK, StatesAgree, ReadSpan, RingPcs
  <2>4. ChannelAgrees'
    BY <1>1, <2>1, <2>2 DEF ChannelAgrees, StatesAgree, ReadSpan
  <2> QED
    BY <2>3, <2>4
<1>5. CASE CommitArm
  <2>1. /\ dma' = dma /\ cpc = "commit"
        /\ \/ ring_state = "REARM_REQ" /\ ring_state' = "ARMED" /\ cpc' = "idle"
           \/ ring_state # "REARM_REQ" /\ ring_state' = ring_state /\ cpc' = "raced"
    BY <1>5 DEF CommitArm, ReturnRead
  <2>2. ControlTypeOK' /\ StatesAgree'
    BY <1>1, <2>1 DEF ControlTypeOK, StatesAgree, ReadSpan, RingPcs
  <2>3. ChannelAgrees'
    BY <1>1, <2>1 DEF ChannelAgrees, StatesAgree, NoFlags, ReadSpan
  <2> QED
    BY <2>2, <2>3
<1>6. CASE ArmRaced
  <2>1. /\ dma' = dma /\ cpc = "raced"
        /\ \/ ring_state \in {"STOP_REQ", "IDLE"} /\ ring_state' = ring_state /\ cpc' = "dostop"
           \/ ring_state \notin {"STOP_REQ", "IDLE"} /\ ring_state' = "ARMED" /\ cpc' = "idle"
    BY <1>6 DEF ArmRaced, ReturnRead
  <2>2. ControlTypeOK' /\ StatesAgree'
    BY <1>1, <2>1 DEF ControlTypeOK, StatesAgree, ReadSpan, RingPcs
  <2>3. ChannelAgrees'
    BY <1>1, <2>1 DEF ChannelAgrees, StatesAgree, NoFlags, ReadSpan
  <2> QED
    BY <2>2, <2>3
<1>7. CASE DoStop
  <2>1. CASE cpc = "dostop"
    <3>1. dma' = RingStopped(dma) /\ ring_state' = ring_state /\ cpc' = "settle"
      BY <1>7, <2>1 DEF DoStop
    <3>2. dma' \in Channels /\ ~dma'.en /\ ~dma'.clk /\ NoFlags'
      BY <1>1, <3>1, ChannelSettings DEF NoFlags
    <3>3. ControlTypeOK' /\ StatesAgree'
      BY <1>1, <2>1, <3>1, <3>2 DEF ControlTypeOK, StatesAgree, ReadSpan, RingPcs
    <3>4. ChannelAgrees'
      BY <1>1, <2>1, <3>1, <3>2 DEF ChannelAgrees, StatesAgree, ReadSpan
    <3> QED
      BY <3>3, <3>4
  <2>2. CASE cpc = "settle"
    <3>1. /\ dma' = dma /\ cpc' = "idle"
          /\ ring_state' = IF ring_state = "STOP_REQ" THEN "IDLE" ELSE ring_state
      BY <1>7, <2>2 DEF DoStop, ReturnRead
    <3>2. ControlTypeOK' /\ StatesAgree'
      BY <1>1, <2>2, <3>1 DEF ControlTypeOK, StatesAgree, ReadSpan, RingPcs
    <3>3. ChannelAgrees'
      BY <1>1, <2>2, <3>1 DEF ChannelAgrees, StatesAgree, NoFlags, ReadSpan
    <3> QED
      BY <3>2, <3>3
  <2> QED
    BY <1>7, <2>1, <2>2 DEF DoStop
<1>8. CASE ExitReading
  <2>1. /\ dma' = dma /\ cpc = "exit"
        /\ \/ ring_state = "READING" /\ ring_state' = "ARMED" /\ cpc' = "idle"
           \/ ring_state = "STOP_REQ" /\ ring_state' = ring_state /\ cpc' = "dostop"
           \/ ring_state \notin {"READING", "STOP_REQ"} /\ ring_state' = ring_state /\ cpc' = "idle"
    BY <1>8 DEF ExitReading, ReturnRead
  <2>2. ControlTypeOK' /\ StatesAgree'
    BY <1>1, <2>1 DEF ControlTypeOK, StatesAgree, ReadSpan, RingPcs
  <2>3. ChannelAgrees'
    BY <1>1, <2>1 DEF ChannelAgrees, StatesAgree, NoFlags, ReadSpan
  <2> QED
    BY <2>2, <2>3
<1> QED
  BY <1>2, <1>3, <1>4, <1>5, <1>6, <1>7, <1>8

LEMMA ControlStays == RingSpec => []ControlInv
<1>1. RingInit => ControlInv
  BY DEF RingInit, ControlInv, ControlTypeOK, StatesAgree, ChannelAgrees, NoFlags, RingPcs,
         ReadSpan, Channels, Rings
<1>2. ControlInv /\ [RingNext]_ringVars => ControlInv'
  BY ControlStutters, EngineKeepsControl, ControlKeepsControl, SpanKeepsControl,
     ConsumerKeepsControl DEF RingNext, ConsumerStep
<1> QED
  BY <1>1, <1>2, PTL DEF RingSpec

LEMMA PlaceFacts ==
  ASSUME NEW a \in Nat
  PROVE  a % RingLen \in 0 .. RingLen - 1 /\ Floor(a) \in Int /\ Floor(a) = a - (a % RingLen)
<1>1. a % RingLen \in 0 .. RingLen - 1
  OBVIOUS
<1> QED
  BY <1>1 DEF Floor

(* Further on by at most a lap: in the same lap or in the next. *)
LEMMA FurtherOn ==
  ASSUME NEW a \in Nat, NEW d \in Nat, d <= RingLen
  PROVE  \/ /\ (a % RingLen) + d < RingLen
            /\ (a + d) % RingLen = (a % RingLen) + d /\ Floor(a + d) = Floor(a)
         \/ /\ (a % RingLen) + d >= RingLen
            /\ (a + d) % RingLen = (a % RingLen) + d - RingLen
            /\ Floor(a + d) = Floor(a) + RingLen
<1>1. PICK r \in 0 .. RingLen - 1 : r = a % RingLen
  BY PlaceFacts
<1>2. CASE r + d < RingLen
  <2>1. (a + d) % RingLen = r + d
    BY <1>1, <1>2, RemainderPlus
  <2> QED
    BY <1>1, <1>2, <2>1 DEF Floor
<1>3. CASE r + d >= RingLen
  <2>1. (a + d) % RingLen = r + d - RingLen
    BY <1>1, <1>3, RemainderWraps
  <2>2. Floor(a + d) = (a + d) - (r + d - RingLen) /\ Floor(a) = a - r
    BY <1>1, <2>1 DEF Floor
  <2>3. Floor(a + d) = Floor(a) + RingLen
    BY <2>2
  <2> QED
    BY <1>1, <1>3, <2>1, <2>3
<1> QED
  BY <1>2, <1>3

LEMMA PlacesDiffer ==
  ASSUME NEW a \in Nat, NEW b \in Nat, a < b, b < a + RingLen
  PROVE  a % RingLen # b % RingLen
<1>1. PICK d \in Nat : d = b - a
  OBVIOUS
<1>2. PICK r \in 0 .. RingLen - 1 : r = a % RingLen
  BY PlaceFacts
<1>3. b % RingLen = r + d \/ b % RingLen = r + d - RingLen
  <2>1. b = a + d /\ d <= RingLen
    BY <1>1
  <2> QED
    BY <1>2, <2>1, FurtherOn
<1> QED
  BY <1>1, <1>2, <1>3

(* The books: steps of the engine. *)
LEMMA ByteKeepsBooks ==
  ASSUME ControlInv, BooksInv, ConsumerLooks, DmaByte
  PROVE  BooksInv'
<1> USE DEF ControlInv, BooksInv
<1>1. /\ dma \in Channels /\ line \in Nat /\ line' = line + 1 /\ cons' = cons /\ cpc' = cpc
      /\ ring_state' = ring_state /\ isr_laps' = isr_laps /\ cons \in Consumers /\ out \in Outs
      /\ isr_laps \in Nat
  BY DEF ControlTypeOK, BooksTypeOK, DmaByte
<1>2. CASE ~dma.en
  <2>1. dma' = dma /\ out' = [out EXCEPT !.gap = TRUE]
    BY <1>2 DEF DmaByte
  <2>2. out' \in Outs /\ out'.gap /\ out'.bytes = out.bytes /\ out'.was = out.was
    BY <1>1, <2>1 DEF Outs
  <2>3. BooksTypeOK' /\ ArmInv' /\ ReadsAreWhole'
    BY <1>1, <2>2 DEF BooksTypeOK, ArmInv, ReadsAreWhole
  <2>4. ASSUME cpc # "start"
        PROVE  \E base \in 0 .. line', over, shift \in {0, RingLen} : Books(base, over, shift)'
    <3>1. PICK base \in 0 .. line, over \in {0, RingLen}, shift \in {0, RingLen} :
            Books(base, over, shift)
      BY <2>4
    <3>2. base \in 0 .. line'
      BY <1>1
    <3>3. (LapsAgree(over) /\ PlaceAgrees(over, shift))'
      BY <1>1, <2>1, <3>1 DEF Books, LapsAgree, PlaceAgrees, OwnLaps, Floor
    <3>4. (RingHolds(base) /\ CopyAgrees(base, over, shift))'
      BY <1>1, <1>2, <2>1, <3>1 DEF Books, RingHolds, CopyAgrees
    <3>5. OutAgrees(base, shift)'
      BY <1>1, <2>2 DEF OutAgrees
    <3> QED
      BY <3>2, <3>3, <3>4, <3>5 DEF Books
  <2> QED
    BY <1>1, <2>3, <2>4
<1>3. CASE dma.en
  <2>1. /\ out' = out /\ dma' \in Channels /\ dma'.en /\ dma'.pos = dma.pos + 1
        /\ dma'.ring = [dma.ring EXCEPT ![dma.pos % RingLen] = line + 1]
        /\ dma'.tc = (dma.tc \/ (dma.pos + 1) % RingLen = 0)
        /\ dma.pos + 1 < cons.looked + RingLen
    <3>1. out' = out /\ dma.pos + 1 - cons.looked < RingLen
      BY <1>3 DEF DmaByte
    <3>2. dma.pos \in Nat /\ cons.looked \in Nat
      BY <1>1 DEF Channels, Consumers
    <3>3. dma.pos + 1 < cons.looked + RingLen
      BY <3>1, <3>2
    <3> QED
      BY <1>1, <1>3, <3>1, <3>3, ByteWritten
  <2>2. BooksTypeOK' /\ ArmInv' /\ ReadsAreWhole'
    BY <1>1, <2>1 DEF BooksTypeOK, ArmInv, ReadsAreWhole
  <2>3. cpc # "start"
    BY <1>3 DEF ChannelAgrees
  <2>4. PICK base \in 0 .. line, over \in {0, RingLen}, shift \in {0, RingLen} :
          Books(base, over, shift)
    BY <2>3
  <2>5. base \in 0 .. line' /\ base \in Nat
    BY <1>1
  <2>6. PICK pos \in Nat : pos = dma.pos
    BY <1>1 DEF Channels
  <2>7. LapsAgree(over)'
    <3>1. PICK laps \in Int : laps = isr_laps * RingLen
      BY <1>1
    <3>2. laps + (IF dma'.tc THEN RingLen ELSE 0) <= Floor(pos + 1)
      <4>1. laps + (IF dma.tc THEN RingLen ELSE 0) <= Floor(pos)
        BY <2>4, <2>6, <3>1 DEF Books, LapsAgree
      <4>2. pos % RingLen \in 0 .. RingLen - 1 /\ Floor(pos) \in Int
        BY PlaceFacts
      <4>3. 1 \in Nat /\ 1 <= RingLen
        OBVIOUS
      <4>4. \/ (pos + 1) % RingLen = (pos % RingLen) + 1 /\ Floor(pos + 1) = Floor(pos)
            \/ Floor(pos + 1) = Floor(pos) + RingLen
        BY <4>3, FurtherOn
      <4>5. CASE (pos + 1) % RingLen = (pos % RingLen) + 1 /\ Floor(pos + 1) = Floor(pos)
        <5>1. (pos + 1) % RingLen # 0
          BY <4>2, <4>5
        <5>2. dma'.tc = dma.tc
          BY <1>1, <2>1, <2>6, <5>1 DEF Channels
        <5> QED
          BY <4>1, <4>5, <5>2
      <4>6. CASE Floor(pos + 1) = Floor(pos) + RingLen
        BY <4>1, <4>2, <4>6, <3>1
      <4> QED
        BY <4>4, <4>5, <4>6
    <3>3. dma'.pos = pos + 1 /\ cons.looked \in Nat
      BY <1>1, <2>1, <2>6 DEF Consumers
    <3>4. OwnLaps' = OwnLaps
      BY <1>1 DEF OwnLaps
    <3>5. /\ cons'.looked <= dma'.pos /\ dma'.pos < cons'.looked + RingLen
          /\ cons.looked <= pos
      BY <1>1, <2>1, <2>4, <2>6, <3>3 DEF Books, LapsAgree
    <3> QED
      BY <1>1, <2>4, <3>1, <3>2, <3>3, <3>4, <3>5 DEF Books, LapsAgree, Floor
  <2>8. PlaceAgrees(over, shift)'
    <3>1. cons.consumed - shift \in Int
      BY <1>1 DEF Consumers
    <3> QED
      BY <1>1, <2>1, <2>4, <2>6, <3>1 DEF Books, PlaceAgrees
  <2>9. RingHolds(base)'
    <3>1. line = base + pos
      BY <1>3, <2>4, <2>6 DEF Books, RingHolds
    <3>2. ASSUME NEW q \in 0 .. pos, q >= pos + 1 - RingLen
          PROVE  dma'.ring[q % RingLen] = base + q + 1
      <4>1. q \in Nat /\ q % RingLen \in 0 .. RingLen - 1 /\ pos % RingLen \in 0 .. RingLen - 1
        <5>1. q \in Nat
          OBVIOUS
        <5> QED
          BY <5>1, PlaceFacts
      <4>2. dma.ring \in [0 .. RingLen - 1 -> Int]
        BY <1>1 DEF Channels, Rings
      <4>3. CASE q = pos
        BY <2>1, <2>6, <3>1, <4>1, <4>2, <4>3
      <4>4. CASE q < pos
        <5>1. q % RingLen # pos % RingLen
          <6>1. q \in Nat /\ pos < q + RingLen
            BY <3>2
          <6> QED
            BY <4>4, <6>1, PlacesDiffer
        <5>2. dma'.ring[q % RingLen] = dma.ring[q % RingLen]
          BY <2>1, <2>6, <4>1, <4>2, <5>1
        <5>3. q \in 0 .. pos - 1 /\ q >= pos - RingLen
          BY <3>2, <4>1, <4>4
        <5> QED
          BY <2>4, <2>6, <5>2, <5>3 DEF Books, RingHolds
      <4> QED
        BY <4>3, <4>4
    <3>3. dma'.pos = pos + 1
      BY <2>1, <2>6
    <3> QED
      BY <1>1, <3>1, <3>2, <3>3, <2>5 DEF RingHolds
  <2>10. CopyAgrees(base, over, shift)'
    <3>1. cons.consumed - shift \in Int /\ cons.looked \in Nat
      BY <1>1 DEF Consumers
    <3>2. dma'.pos <= (cons.consumed - shift) + RingLen => pos <= (cons.consumed - shift) + RingLen
      BY <2>1, <2>6, <3>1
    <3> QED
      BY <1>1, <2>4, <2>6, <3>2 DEF Books, CopyAgrees
  <2>11. OutAgrees(base, shift)'
    BY <1>1, <2>1, <2>4 DEF Books, OutAgrees
  <2> QED
    BY <2>2, <2>5, <2>7, <2>8, <2>9, <2>10, <2>11 DEF Books
<1> QED
  BY <1>2, <1>3

(* A step that leaves the consumer, the place and the bytes alone. *)
LEMMA BooksFrame ==
  ASSUME ControlInv, BooksInv, UNCHANGED <<cons, out, line, cpc>>, dma' \in Channels,
         dma'.pos = dma.pos, dma'.ring = dma.ring, dma'.en => dma.en,
         ring_state' = "ARMED" => ring_state = "ARMED",
         isr_laps' \in Nat, cpc = "start" => isr_laps' = 0,
         isr_laps * RingLen + (IF dma.tc THEN RingLen ELSE 0) <= Floor(dma.pos) =>
           isr_laps' * RingLen + (IF dma'.tc THEN RingLen ELSE 0) <= Floor(dma.pos)
  PROVE  BooksInv'
<1> USE DEF BooksInv
<1>1. BooksTypeOK' /\ ArmInv' /\ ReadsAreWhole'
  BY DEF BooksTypeOK, ArmInv, ReadsAreWhole
<1>2. ASSUME cpc # "start"
      PROVE  \E base \in 0 .. line', over, shift \in {0, RingLen} : Books(base, over, shift)'
  <2>1. PICK base \in 0 .. line, over \in {0, RingLen}, shift \in {0, RingLen} :
          Books(base, over, shift)
    BY <1>2
  <2>2. base \in 0 .. line' /\ OwnLaps' = OwnLaps
    BY DEF OwnLaps
  <2>3. LapsAgree(over)'
    BY <2>1, <2>2 DEF Books, LapsAgree, Floor
  <2>4. PlaceAgrees(over, shift)' /\ RingHolds(base)'
    BY <2>1 DEF Books, PlaceAgrees, RingHolds
  <2>5. CopyAgrees(base, over, shift)' /\ OutAgrees(base, shift)'
    BY <2>1 DEF Books, CopyAgrees, OutAgrees
  <2> QED
    BY <2>2, <2>3, <2>4, <2>5 DEF Books
<1> QED
  BY <1>1, <1>2

LEMMA EngineKeepsBooks ==
  ASSUME ControlInv, BooksInv, TransferError \/ HandleInterrupt \/ SignalOverrun
  PROVE  BooksInv'
<1>1. /\ dma \in Channels /\ isr_laps \in Nat /\ UNCHANGED <<cons, out, line, cpc, ring_state>>
  BY DEF ControlInv, ControlTypeOK, BooksInv, BooksTypeOK, TransferError, HandleInterrupt,
         SignalOverrun
<1>2. cpc = "start" => isr_laps = 0 /\ NoFlags
  BY DEF ControlInv, ChannelAgrees, BooksInv, ArmInv
<1>3. CASE TransferError
  <2>1. /\ dma' \in Channels /\ dma'.pos = dma.pos /\ dma'.ring = dma.ring
        /\ dma'.en = dma.en /\ dma'.tc = dma.tc /\ isr_laps' = isr_laps
    BY <1>1, <1>3 DEF TransferError, Channels
  <2> QED
    BY <1>1, <1>2, <2>1, BooksFrame
<1>4. CASE SignalOverrun
  <2>1. dma' = dma /\ isr_laps' = isr_laps
    BY <1>4 DEF SignalOverrun
  <2> QED
    BY <1>1, <1>2, <2>1, BooksFrame
<1>5. CASE HandleInterrupt
  <2>1. /\ dma' \in Channels /\ dma'.pos = dma.pos /\ dma'.ring = dma.ring
        /\ dma'.en = dma.en /\ ~dma'.tc /\ cpc # "start"
        /\ isr_laps' = isr_laps \/ (isr_laps' = isr_laps + 1 /\ dma.tc)
    BY <1>1, <1>2, <1>5 DEF HandleInterrupt, Channels
  <2>2. PICK n \in Int : n = isr_laps * RingLen /\ (isr_laps + 1) * RingLen = n + RingLen
    BY <1>1, LapsTimes
  <2>3. Floor(dma.pos) \in Int
    BY <1>1, PlaceFacts DEF Channels
  <2>4. isr_laps * RingLen + (IF dma.tc THEN RingLen ELSE 0) <= Floor(dma.pos) =>
          isr_laps' * RingLen + (IF dma'.tc THEN RingLen ELSE 0) <= Floor(dma.pos)
    <3>1. CASE isr_laps' = isr_laps
      BY <2>1, <2>2, <2>3, <3>1
    <3>2. CASE isr_laps' = isr_laps + 1 /\ dma.tc
      BY <2>1, <2>2, <2>3, <3>2
    <3> QED
      BY <2>1, <3>1, <3>2
  <2>5. isr_laps' \in Nat
    BY <1>1, <2>1
  <2> QED
    BY <1>1, <2>1, <2>4, <2>5, BooksFrame
<1> QED
  BY <1>3, <1>4, <1>5

LEMMA ControlKeepsBooks ==
  ASSUME ControlInv, BooksInv, ControlStep
  PROVE  BooksInv'
<1>1. /\ dma \in Channels /\ isr_laps \in Nat /\ UNCHANGED <<cons, out, line, cpc, isr_laps>>
      /\ NoFlags
  BY DEF ControlInv, ControlTypeOK, BooksInv, BooksTypeOK, ControlStep, RingStop, StopChannel,
         RequestRearm
<1>2. cpc = "start" => isr_laps = 0
  BY DEF BooksInv, ArmInv
<1>3. ring_state' = "ARMED" => ring_state = "ARMED"
  BY DEF ControlStep, RingStop, StopChannel, RequestRearm, ControlInv, ControlTypeOK
<1>4. /\ dma' \in Channels /\ dma'.pos = dma.pos /\ dma'.ring = dma.ring
      /\ (dma'.en => dma.en) /\ ~dma'.tc
  <2>1. CASE RingStop
    BY <1>1, <2>1 DEF RingStop, NoFlags
  <2>2. CASE RequestRearm
    BY <1>1, <2>2 DEF RequestRearm, Channels, NoFlags
  <2>3. CASE StopChannel
    <3>1. CASE kpc = "stop"
      BY <1>1, <2>3, <3>1, ChannelSettings DEF StopChannel
    <3>2. CASE kpc = "halt"
      BY <1>1, <2>3, <3>2 DEF StopChannel, Channels, NoFlags
    <3> QED
      BY <2>3, <3>1, <3>2 DEF StopChannel
  <2> QED
    BY <2>1, <2>2, <2>3 DEF ControlStep
<1> QED
  BY <1>1, <1>2, <1>3, <1>4, BooksFrame DEF NoFlags

(* A call of the consumer ends. *)
LEMMA ReturnKeepsBooks ==
  ASSUME ControlInv, BooksInv, NEW r \in {"Empty", cons.res}, ReturnRead(cons, r),
         UNCHANGED <<dma, isr_laps, line>>, cpc \notin Copying \cup FreshLook \cup {"start"},
         ring_state' = "ARMED" => r = cons.res /\ (cpc \in Leaving \/ out.gap)
  PROVE  BooksInv'
<1> USE DEF BooksInv
<1>1. /\ cpc' = "idle" /\ cons \in Consumers /\ out \in Outs /\ isr_laps \in Nat
      /\ cons' = [cons EXCEPT !.res = "Empty", !.got = <<>>, !.want = 0, !.c = 0, !.produced = 0]
  BY DEF ReturnRead, BooksTypeOK
<1>2. /\ cons' \in Consumers /\ cons'.laps = cons.laps /\ cons'.prev = cons.prev
      /\ cons'.consumed = cons.consumed /\ cons'.looked = cons.looked /\ cons'.got = <<>>
      /\ cons'.res = "Empty"
  <2>1. <<>> \in ByteSeqs /\ 0 \in Counts
    BY DEF ByteSeqs, Counts
  <2>2. PICK none \in ByteSeqs, z \in Counts, w \in Nat, p \in Int :
          none = <<>> /\ z = 0 /\ w = 0 /\ p = 0
    BY <2>1
  <2>3. cons' = [cons EXCEPT !.res = "Empty", !.got = none, !.want = w, !.c = z, !.produced = p]
    BY <1>1, <2>2
  <2>4. cons' \in Consumers
    BY ZenonT(30), <1>1, <2>3 DEF Consumers
  <2> QED
    BY <1>1, <2>2, <2>3, <2>4 DEF Consumers
<1>3. PICK base \in 0 .. line, over \in {0, RingLen}, shift \in {0, RingLen} :
        Books(base, over, shift)
  OBVIOUS
<1>4. base \in Nat /\ cons.consumed - shift \in Int /\ Len(cons.got) \in Nat
      /\ cons.got \in Seq(Int)
  BY <1>1 DEF Consumers, ByteSeqs, ControlInv, ControlTypeOK
<1>5. /\ out' \in Outs /\ ReadsAreWhole'
      /\ (ring_state' = "ARMED" /\ ~out'.gap => out'.last = base + (cons.consumed - shift))
  <2>1. CASE r = "Empty" /\ cons.res # "Bytes"
    <3>1. out' = out
      BY <2>1 DEF ReturnRead
    <3>2. ReadsAreWhole'
      BY <3>1 DEF ReadsAreWhole
    <3>3. ring_state' = "ARMED" /\ ~out'.gap => out'.last = base + (cons.consumed - shift)
      BY <1>3, <1>4, <2>1, <3>1 DEF Books, OutAgrees
    <3> QED
      BY <1>1, <3>1, <3>2, <3>3
  <2>2. CASE r = "Empty" /\ cons.res = "Bytes"
    <3>1. out' = out
      BY <2>2 DEF ReturnRead
    <3>2. ReadsAreWhole'
      BY <3>1 DEF ReadsAreWhole
    <3> QED
      BY <1>1, <2>2, <3>1, <3>2
  <2>3. CASE r = "Overrun"
    <3>1. out' = [out EXCEPT !.gap = TRUE]
      BY <2>3 DEF ReturnRead
    <3>2. out' \in Outs /\ out'.gap /\ out'.bytes = out.bytes /\ out'.was = out.was
      BY <1>1, <3>1 DEF Outs
    <3> QED
      BY <3>2 DEF ReadsAreWhole
  <2>4. CASE r = "Bytes"
    <3>1. /\ cons.res = "Bytes" /\ cpc \in Leaving /\ Len(cons.got) > 0
          /\ \A i \in 1 .. Len(cons.got) :
               cons.got[i] = base + (cons.consumed - shift) - Len(cons.got) + i
      BY <1>3, <2>4 DEF Books, CopyAgrees
    <3>2. ~out.gap => out.last = base + (cons.consumed - shift) - Len(cons.got)
      BY <1>3, <3>1 DEF Books, OutAgrees
    <3>3. PICK n \in Nat : n = Len(cons.got) /\ n > 0
      BY <1>4, <3>1
    <3>4. out' = [bytes |-> cons.got, last |-> cons.got[n], gap |-> FALSE,
                  was |-> out.gap \/ cons.got[1] = out.last + 1]
      BY <2>4, <3>3 DEF ReturnRead
    <3>5. /\ cons.got[n] = base + (cons.consumed - shift)
          /\ cons.got[1] = base + (cons.consumed - shift) - n + 1
      BY SMTT(30), <1>4, <3>1, <3>3
    <3>6. out.gap \/ cons.got[1] = out.last + 1
      BY <1>4, <3>2, <3>3, <3>5
    <3>7. \A i \in 1 .. n - 1 : cons.got[i + 1] = cons.got[i] + 1
      <4> SUFFICES ASSUME NEW i \in 1 .. n - 1 PROVE cons.got[i + 1] = cons.got[i] + 1
        OBVIOUS
      <4>1. PICK z \in Int : z = base + (cons.consumed - shift) - n
        BY <1>4, <3>3
      <4>2. i \in 1 .. n /\ i + 1 \in 1 .. n
        BY <3>3
      <4>3. cons.got[i] = z + i /\ cons.got[i + 1] = z + (i + 1)
        BY <3>1, <3>3, <4>1, <4>2
      <4> QED
        BY <4>1, <4>3
    <3>8. out'.bytes = cons.got /\ out'.last = cons.got[n] /\ out'.was
      BY <3>4, <3>6
    <3>9. out' \in Outs
      BY <1>4, <3>4, <3>5 DEF Outs, ByteSeqs
    <3>10. ReadsAreWhole'
      BY <3>3, <3>7, <3>8 DEF ReadsAreWhole
    <3> QED
      BY <3>5, <3>8, <3>9, <3>10
  <2> QED
    BY <1>1, <2>1, <2>2, <2>3, <2>4 DEF Consumers
<1>6. BooksTypeOK' /\ ArmInv'
  BY <1>1, <1>2, <1>5 DEF BooksTypeOK, ArmInv, FreshLook
<1>7. LapsAgree(over)'
  BY <1>1, <1>2, <1>3 DEF Books, LapsAgree, OwnLaps, Floor, FreshLook
<1>8. PlaceAgrees(over, shift)' /\ RingHolds(base)'
  BY <1>1, <1>2, <1>3 DEF Books, PlaceAgrees, RingHolds, FreshLook
<1>9. CopyAgrees(base, over, shift)'
  BY <1>1, <1>2 DEF CopyAgrees, Copying, Leaving
<1>10. OutAgrees(base, shift)'
  BY <1>1, <1>2, <1>4, <1>5 DEF OutAgrees, ReadSpan, Leaving
<1> QED
  BY <1>1, <1>5, <1>6, <1>7, <1>8, <1>9, <1>10 DEF Books

(* The consumer goes on to another step without touching its books. *)
LEMMA MoveKeepsBooks ==
  ASSUME ControlInv, BooksInv, UNCHANGED <<cons, out, isr_laps, line>>,
         dma' \in Channels, dma'.pos = dma.pos, dma'.ring = dma.ring, dma'.en => dma.en,
         dma'.tc => dma.tc,
         {cpc, cpc'} \cap (FreshLook \cup Copying \cup {"start"}) = {},
         cpc \in Leaving => cpc' \in Leaving, cpc' \in {"commit", "raced"} => out.gap,
         ring_state' = "ARMED" \/ cpc' \in ReadSpan \cup Leaving =>
           ring_state = "ARMED" \/ cpc \in ReadSpan \cup Leaving \/ out.gap
  PROVE  BooksInv'
<1> USE DEF BooksInv
<1>1. cpc \notin FreshLook \cup Copying \cup {"start"} /\ cpc' \notin FreshLook \cup Copying \cup {"start"}
  OBVIOUS
<1>2. BooksTypeOK' /\ ArmInv' /\ ReadsAreWhole'
  BY <1>1 DEF BooksTypeOK, ArmInv, ReadsAreWhole
<1>3. PICK base \in 0 .. line, over \in {0, RingLen}, shift \in {0, RingLen} :
        Books(base, over, shift)
  BY <1>1
<1>4. LapsAgree(over)'
  <2>1. OwnLaps' = OwnLaps
    BY <1>1 DEF OwnLaps
  <2>2. PICK n \in Int : n = isr_laps * RingLen
    BY DEF BooksTypeOK
  <2>3. Floor(dma.pos) \in Int
    BY PlaceFacts DEF ControlInv, ControlTypeOK, Channels
  <2>4. n + (IF dma.tc THEN RingLen ELSE 0) <= Floor(dma.pos)
    BY <1>3, <2>2 DEF Books, LapsAgree
  <2>5. n + (IF dma'.tc THEN RingLen ELSE 0) <= Floor(dma.pos)
    BY <2>2, <2>3, <2>4
  <2>6. isr_laps' * RingLen = n /\ Floor(dma'.pos) = Floor(dma.pos)
    BY <2>2
  <2> QED
    BY <1>1, <1>3, <2>1, <2>5, <2>6 DEF Books, LapsAgree, Floor
<1>5. PlaceAgrees(over, shift)' /\ RingHolds(base)'
  BY <1>1, <1>3 DEF Books, PlaceAgrees, RingHolds
<1>6. CopyAgrees(base, over, shift)'
  BY <1>1, <1>3 DEF Books, CopyAgrees
<1>7. OutAgrees(base, shift)'
  BY <1>1, <1>3 DEF Books, OutAgrees
<1> QED
  BY <1>1, <1>2, <1>3, <1>4, <1>5, <1>6, <1>7 DEF Books

LEMMA ConsumerKeepsBooks ==
  ASSUME ControlInv, BooksInv, NoFlags,
         EnterReading \/ Service \/ StartCircular \/ CommitArm \/ ArmRaced \/ DoStop \/ ExitReading
  PROVE  BooksInv'
<1>1. /\ dma \in Channels /\ line \in Nat /\ line' = line /\ cons \in Consumers /\ out \in Outs
      /\ isr_laps \in Nat
  BY DEF ControlInv, ControlTypeOK, BooksInv, BooksTypeOK, EnterReading, Service, StartCircular,
         CommitArm, ArmRaced, DoStop, ExitReading
<1>2. cpc \notin {"start"} \cup Leaving \cup Copying => cons.res = "Empty" /\ cons.got = <<>>
  BY <1>1 DEF BooksInv, Books, CopyAgrees, Consumers
<1>3. cpc \in {"commit", "raced"} => out.gap
  BY DEF BooksInv, Books, OutAgrees
<1>4. CASE EnterReading
  <2>1. /\ UNCHANGED <<cons, out, isr_laps, dma>> /\ cpc = "idle"
        /\ \/ ring_state = "ARMED" /\ ring_state' = "READING" /\ cpc' \in {"look", "swap"}
           \/ ring_state # "ARMED" /\ ring_state' = ring_state /\ cpc' = "service"
    BY <1>4 DEF EnterReading
  <2>2. {cpc, cpc'} \cap (FreshLook \cup Copying \cup {"start"}) = {}
    BY <2>1 DEF FreshLook, Copying
  <2>3. /\ cpc \notin Leaving /\ cpc' \notin {"commit", "raced"}
        /\ ring_state' = "ARMED" \/ cpc' \in ReadSpan \cup Leaving => ring_state = "ARMED"
    BY <2>1 DEF Leaving, ReadSpan
  <2> QED
    BY <1>1, <2>1, <2>2, <2>3, MoveKeepsBooks
<1>5. CASE Service
  <2>1. UNCHANGED <<ring_state, dma>> /\ cpc = "service" /\ ring_state # "STOP_REQ"
    BY <1>5 DEF Service, ControlInv, StatesAgree, ReadSpan
  <2>2. CASE ring_state = "REARM_REQ"
    <3>1. /\ isr_laps' = 0 /\ cpc' = "start" /\ out' = out
          /\ cons' = [cons EXCEPT !.laps = 0, !.prev = RingLen, !.consumed = 0, !.looked = 0]
      BY <1>5, <2>2 DEF Service
    <3>2. PICK z \in Nat, l \in Counts : z = 0 /\ l = RingLen
      BY DEF Counts
    <3>3. cons' = [cons EXCEPT !.laps = z, !.prev = l, !.consumed = z, !.looked = z]
      BY <3>1, <3>2
    <3>4. /\ cons' \in Consumers /\ cons'.laps = z /\ cons'.prev = l /\ cons'.consumed = z
          /\ cons'.looked = z /\ cons'.got = cons.got /\ cons'.res = cons.res
      BY <1>1, <3>3 DEF Consumers
    <3>5. cons.res = "Empty" /\ cons.got = <<>>
      BY <1>2, <2>1 DEF Leaving, Copying
    <3>6. BooksTypeOK'
      BY <1>1, <3>1, <3>4 DEF BooksTypeOK, FreshLook
    <3>7. ArmInv' /\ ReadsAreWhole'
      BY <3>1, <3>2, <3>4, <3>5 DEF ArmInv, ReadsAreWhole, BooksInv
    <3> QED
      BY <3>1, <3>6, <3>7 DEF BooksInv
  <2>3. CASE ring_state # "REARM_REQ"
    <3>1. ReturnRead(cons, "Empty") /\ isr_laps' = isr_laps
      BY <1>5, <2>1, <2>3 DEF Service
    <3>2. ring_state # "ARMED" /\ cpc \notin Copying \cup FreshLook \cup {"start"}
      BY <2>1 DEF ControlInv, StatesAgree, Copying, FreshLook
    <3> QED
      BY <1>1, <2>1, <3>1, <3>2, ReturnKeepsBooks
  <2> QED
    BY <2>2, <2>3
<1>6. CASE StartCircular
  <2>1. /\ UNCHANGED <<ring_state, cons, isr_laps>> /\ cpc = "start" /\ cpc' = "commit"
        /\ dma' = RingStarted(dma) /\ out' = [out EXCEPT !.gap = TRUE]
    BY <1>6 DEF StartCircular
  <2>2. dma' \in Channels /\ dma'.pos = 0 /\ ~dma'.tc /\ dma'.ring = dma.ring
    BY <1>1, <2>1, ChannelSettings
  <2>3. out' \in Outs /\ out'.gap /\ out'.bytes = out.bytes /\ out'.was = out.was
    BY <1>1, <2>1 DEF Outs
  <2>4. /\ isr_laps = 0 /\ cons.laps = 0 /\ cons.prev = RingLen /\ cons.consumed = 0
        /\ cons.looked = 0 /\ cons.got = <<>> /\ cons.res = "Empty"
    BY <2>1 DEF BooksInv, ArmInv
  <2>5. BooksTypeOK' /\ ArmInv' /\ ReadsAreWhole'
    BY <1>1, <2>1, <2>3 DEF BooksInv, BooksTypeOK, ArmInv, ReadsAreWhole, FreshLook
  <2>6. 0 % RingLen = 0 /\ 0 * RingLen = 0
    BY ZeroRemainder
  <2>7. LapsAgree(0)'
    BY <2>1, <2>2, <2>4, <2>6 DEF LapsAgree, OwnLaps, Floor, FreshLook
  <2>8. PlaceAgrees(0, 0)' /\ RingHolds(line)'
    BY <1>1, <2>1, <2>2, <2>4 DEF PlaceAgrees, RingHolds
  <2>9. CopyAgrees(line, 0, 0)' /\ OutAgrees(line, 0)'
    BY <1>1, <2>1, <2>3, <2>4 DEF CopyAgrees, OutAgrees, Copying, Leaving
  <2>10. Books(line, 0, 0)'
    BY <1>1, <2>7, <2>8, <2>9 DEF Books
  <2>11. line' \in 0 .. line' /\ 0 \in {0, RingLen}
    BY <1>1
  <2> QED
    BY <1>1, <2>1, <2>5, <2>10, <2>11 DEF BooksInv
<1>7. CASE CommitArm
  <2>1. UNCHANGED <<isr_laps, dma>> /\ cpc = "commit"
    BY <1>7 DEF CommitArm
  <2>2. CASE ring_state = "REARM_REQ"
    <3>1. ReturnRead(cons, "Empty") /\ cons.res = "Empty"
      BY <1>2, <1>7, <2>1, <2>2 DEF CommitArm, Leaving, Copying
    <3>2. cpc \notin Copying \cup FreshLook \cup {"start"}
      BY <2>1 DEF Copying, FreshLook
    <3> QED
      BY <1>1, <1>3, <2>1, <3>1, <3>2, ReturnKeepsBooks
  <2>3. CASE ring_state # "REARM_REQ"
    <3>1. cpc' = "raced" /\ UNCHANGED <<ring_state, cons, out>>
      BY <1>7, <2>3 DEF CommitArm
    <3>2. {cpc, cpc'} \cap (FreshLook \cup Copying \cup {"start"}) = {} /\ cpc \notin Leaving
      BY <2>1, <3>1 DEF FreshLook, Copying, Leaving
    <3> QED
      BY <1>1, <1>3, <2>1, <3>1, <3>2, MoveKeepsBooks
  <2> QED
    BY <2>2, <2>3
<1>8. CASE ArmRaced
  <2>1. UNCHANGED <<isr_laps, dma>> /\ cpc = "raced"
    BY <1>8 DEF ArmRaced
  <2>2. CASE ring_state \in {"STOP_REQ", "IDLE"}
    <3>1. cpc' = "dostop" /\ UNCHANGED <<ring_state, cons, out>>
      BY <1>8, <2>2 DEF ArmRaced
    <3>2. {cpc, cpc'} \cap (FreshLook \cup Copying \cup {"start"}) = {} /\ cpc \notin Leaving
      BY <2>1, <3>1 DEF FreshLook, Copying, Leaving
    <3> QED
      BY <1>1, <1>3, <2>1, <3>1, <3>2, MoveKeepsBooks
  <2>3. CASE ring_state \notin {"STOP_REQ", "IDLE"}
    <3>1. ReturnRead(cons, "Empty") /\ cons.res = "Empty"
      BY <1>2, <1>8, <2>1, <2>3 DEF ArmRaced, Leaving, Copying
    <3>2. cpc \notin Copying \cup FreshLook \cup {"start"}
      BY <2>1 DEF Copying, FreshLook
    <3> QED
      BY <1>1, <1>3, <2>1, <3>1, <3>2, ReturnKeepsBooks
  <2> QED
    BY <2>2, <2>3
<1>9. CASE DoStop
  <2>1. CASE cpc = "dostop"
    <3>1. dma' = RingStopped(dma) /\ cpc' = "settle" /\ UNCHANGED <<ring_state, cons, out, isr_laps>>
      BY <1>9, <2>1 DEF DoStop
    <3>2. /\ dma' \in Channels /\ dma'.pos = dma.pos /\ dma'.ring = dma.ring /\ ~dma'.en
          /\ ~dma'.tc
      BY <1>1, <3>1, ChannelSettings
    <3>3. /\ {cpc, cpc'} \cap (FreshLook \cup Copying \cup {"start"}) = {}
          /\ cpc \in Leaving /\ cpc' \in Leaving
      BY <2>1, <3>1 DEF FreshLook, Copying, Leaving
    <3> QED
      BY <1>1, <2>1, <3>1, <3>2, <3>3, MoveKeepsBooks
  <2>2. CASE cpc = "settle"
    <3>1. ReturnRead(cons, cons.res) /\ UNCHANGED <<isr_laps, dma>>
      BY <1>9, <2>2 DEF DoStop
    <3>2. cpc \notin Copying \cup FreshLook \cup {"start"} /\ cpc \in Leaving
      BY <2>2 DEF Copying, FreshLook, Leaving
    <3> QED
      BY <1>1, <3>1, <3>2, ReturnKeepsBooks
  <2> QED
    BY <1>9, <2>1, <2>2 DEF DoStop
<1>10. CASE ExitReading
  <2>1. /\ cpc = "exit" /\ UNCHANGED <<isr_laps, dma>> /\ cpc \in Leaving
        /\ cpc \notin Copying \cup FreshLook \cup {"start"}
    BY <1>10 DEF ExitReading, Leaving, Copying, FreshLook
  <2>2. CASE ring_state = "STOP_REQ"
    <3>1. cpc' = "dostop" /\ UNCHANGED <<ring_state, cons, out>>
      BY <1>10, <2>2 DEF ExitReading
    <3>2. {cpc, cpc'} \cap (FreshLook \cup Copying \cup {"start"}) = {} /\ cpc' \in Leaving
      BY <2>1, <3>1 DEF FreshLook, Copying, Leaving
    <3> QED
      BY <1>1, <2>1, <3>1, <3>2, MoveKeepsBooks
  <2>3. CASE ring_state = "REARM_REQ"
    <3>1. ReturnRead(cons, "Empty") /\ ring_state' = ring_state
      BY <1>10, <2>3 DEF ExitReading
    <3> QED
      BY <1>1, <2>1, <2>3, <3>1, ReturnKeepsBooks
  <2>4. CASE ring_state \notin {"STOP_REQ", "REARM_REQ"}
    <3>1. ReturnRead(cons, cons.res)
      BY <1>10, <2>4 DEF ExitReading
    <3> QED
      BY <1>1, <2>1, <3>1, ReturnKeepsBooks
  <2> QED
    BY <2>2, <2>3, <2>4
<1> QED
  BY <1>4, <1>5, <1>6, <1>7, <1>8, <1>9, <1>10


(* The span in which the registers are read: what its steps leave alone. *)
LEMMA SpanFrame ==
  ASSUME ControlInv, BooksInv, cpc \in ReadSpan \ {"exit"}
  PROVE  /\ dma \in Channels /\ dma.pos \in Nat /\ line \in Nat /\ cons \in Consumers
         /\ isr_laps \in Nat /\ out \in Outs /\ cons.res = "Empty"
         /\ cpc \notin Copying => cons.got = <<>>
         /\ \E base \in 0 .. line, over, shift \in {0, RingLen} : Books(base, over, shift)
<1>1. dma \in Channels /\ line \in Nat /\ cons \in Consumers /\ isr_laps \in Nat /\ out \in Outs
  BY DEF ControlInv, ControlTypeOK, BooksInv, BooksTypeOK
<1>2. cpc # "start" /\ cpc \notin Leaving
  BY DEF ReadSpan, Leaving
<1>3. PICK base \in 0 .. line, over \in {0, RingLen}, shift \in {0, RingLen} :
        Books(base, over, shift)
  BY <1>2 DEF BooksInv
<1>4. cons.res = "Empty" /\ (cpc \notin Copying => cons.got = <<>>)
  BY <1>1, <1>2, <1>3 DEF Books, CopyAgrees, Consumers
<1> QED
  BY <1>1, <1>3, <1>4 DEF Channels

(* What observe() finds: the place it looked at, perhaps a lap too far when the interrupt handler *)
(* has counted a lap that the register did not show yet.                                          *)
LEMMA ObservedIs ==
  ASSUME ControlInv, NoFlags, cons \in Consumers, isr_laps \in Nat, cpc \in FreshLook, cons.c > 0,
         NEW over \in {0, RingLen}, LapsAgree(over)
  PROVE  \E over2 \in {0, RingLen} :
           /\ over <= over2 /\ (over < over2 => dma.pos > cons.looked)
           /\ Observed \in Consumers /\ Observed.laps * RingLen = Floor(cons.looked) + over2
           /\ Observed.prev = cons.c /\ Observed.produced = cons.looked + over2
           /\ Observed.consumed = cons.consumed /\ Observed.looked = cons.looked
           /\ Observed.c = cons.c /\ Observed.got = cons.got /\ Observed.want = cons.want
           /\ Observed.res = cons.res
<1>1. PICK looked \in Nat, pos \in Nat, c \in Counts : looked = cons.looked /\ pos = dma.pos /\ c = cons.c
  BY DEF Consumers, Channels, ControlInv, ControlTypeOK
<1>2. c \in Int /\ cons.laps \in Nat /\ cons.prev \in Int
  BY <1>1 DEF Counts, Consumers
<1>3. PICK own \in Nat : own = OwnLaps
  BY <1>2 DEF OwnLaps
<1>4. LapsSeen = IF isr_laps >= own THEN isr_laps ELSE own
  BY <1>3 DEF LapsSeen, OwnLaps
<1>5. PICK n \in Nat : n = LapsSeen
  BY <1>3, <1>4
<1>6. PICK d \in Nat : d = pos - looked /\ d < RingLen
  BY <1>1 DEF LapsAgree
<1>7. PICK f \in Int, r \in 0 .. RingLen - 1 : f = Floor(looked) /\ r = looked % RingLen /\ f = looked - r
  BY PlaceFacts
<1>8. Floor(pos) = f \/ (Floor(pos) = f + RingLen /\ d > 0)
  <2>1. pos = looked + d /\ d <= RingLen
    BY <1>1, <1>6
  <2>2. Floor(looked + d) = f \/ (Floor(looked + d) = f + RingLen /\ r + d >= RingLen)
    <3>1. d <= RingLen
      BY <2>1
    <3>2. \/ Floor(looked + d) = Floor(looked)
          \/ Floor(looked + d) = Floor(looked) + RingLen /\ (looked % RingLen) + d >= RingLen
      BY <3>1, FurtherOn
    <3> QED
      BY <1>7, <3>2
  <2> QED
    BY <1>7, <2>1, <2>2
<1>9. PICK x \in Int, y \in Int, m \in Int : x = isr_laps * RingLen /\ y = own * RingLen /\ m = n * RingLen
  BY <1>3, <1>5
<1>10. x <= Floor(pos) /\ y = f + over
  BY <1>1, <1>3, <1>7, <1>9 DEF LapsAgree, NoFlags
<1>11. (isr_laps > own => x >= y + RingLen) /\ (isr_laps = own => x = y)
  BY <1>3, <1>9, LapsTimes
<1>12. m = IF isr_laps >= own THEN x ELSE y
  BY <1>4, <1>5, <1>9
<1>13. PICK over2 \in {0, RingLen} :
          over <= over2 /\ (over < over2 => d > 0) /\ m = f + over2
  <2>1. CASE isr_laps > own
    <3>1. m = x /\ x >= y + RingLen
      BY <1>11, <1>12, <2>1, <1>3
    <3>2. over = 0 /\ m = f + RingLen /\ d > 0
      BY <1>8, <1>10, <3>1, <1>7, <1>9
    <3> QED
      BY <3>2
  <2>2. CASE ~(isr_laps > own)
    <3>1. m = y
      BY <1>3, <1>9, <1>11, <1>12, <2>2
    <3> QED
      BY <1>10, <3>1
  <2> QED
    BY <2>1, <2>2
<1>14. c = RingLen - r
  BY <1>1, <1>7 DEF LapsAgree
<1>15. (RingLen - c) % RingLen = r
  <2>1. RingLen - c = r
    BY <1>2, <1>7, <1>14
  <2> QED
    BY <1>7, <2>1, SmallRemainder
<1>16. n * RingLen + ((RingLen - c) % RingLen) = looked + over2
  BY <1>7, <1>9, <1>13, <1>15
<1>17. PICK p \in Int : p = looked + over2
  OBVIOUS
<1>18. Observed = [cons EXCEPT !.laps = n, !.prev = c, !.produced = p]
  BY <1>1, <1>5, <1>16, <1>17 DEF Observed
<1>19. Observed \in Consumers
  BY <1>18 DEF Consumers
<1>20. /\ Observed.laps = n /\ Observed.prev = c /\ Observed.produced = p
       /\ Observed.consumed = cons.consumed /\ Observed.looked = cons.looked
       /\ Observed.c = cons.c /\ Observed.got = cons.got /\ Observed.want = cons.want
       /\ Observed.res = cons.res
  BY <1>18 DEF Consumers
<1>21. over < over2 => pos > looked
  BY <1>6, <1>13
<1> HIDE DEF Observed
<1> QED
  BY <1>1, <1>7, <1>9, <1>13, <1>17, <1>19, <1>20, <1>21

(* The consumer's account of a look enters its books. *)
LEMMA AccountedLook ==
  ASSUME ControlInv, NoFlags, cpc \in FreshLook, cpc' \in ReadSpan \ (FreshLook \cup {"look"}),
         NEW over \in {0, RingLen}, NEW over2 \in {0, RingLen}, LapsAgree(over), over <= over2,
         cons' \in Consumers, UNCHANGED <<dma, isr_laps>>, cons'.looked = cons.looked,
         cons'.prev = cons.c, cons'.laps * RingLen = Floor(cons.looked) + over2
  PROVE  LapsAgree(over2)'
<1>1. OwnLaps' = cons'.laps
  BY DEF OwnLaps
<1>2. Floor(cons'.looked) = Floor(cons.looked) /\ Floor(dma'.pos) = Floor(dma.pos)
  BY DEF Floor
<1> QED
  BY <1>1, <1>2 DEF LapsAgree, Floor
(* The steps of a read keep the books. *)
LEMMA SwapKeepsBooks ==
  ASSUME ControlInv, BooksInv, SwapOverrun
  PROVE  BooksInv'
<1>1. cpc = "swap" /\ UNCHANGED <<ring_state, isr_laps, dma, line, out>>
  BY DEF SwapOverrun
<1>2. cpc \in ReadSpan \ {"exit"} /\ cpc \notin FreshLook \cup Copying \cup Leaving
  BY <1>1 DEF ReadSpan, FreshLook, Copying, Leaving
<1>3. CASE ~overrun
  <2>1. cpc' = "see" /\ cons' = cons
    BY <1>3 DEF SwapOverrun
  <2>2. {cpc, cpc'} \cap (FreshLook \cup Copying \cup {"start"}) = {} /\ cpc' \in ReadSpan
    BY <1>1, <2>1 DEF FreshLook, Copying, ReadSpan
  <2>3. dma \in Channels /\ cpc' \notin {"commit", "raced"}
    BY <1>2, <2>1, SpanFrame
  <2> QED
    BY <1>1, <1>2, <2>1, <2>2, <2>3, MoveKeepsBooks
<1>4. CASE overrun
  <2>1. cpc' = "exit" /\ cons' = [cons EXCEPT !.res = "Overrun"]
    BY <1>4 DEF SwapOverrun
  <2>2. cons \in Consumers
    BY <1>2, SpanFrame
  <2>3. /\ cons' \in Consumers /\ cons'.laps = cons.laps /\ cons'.prev = cons.prev
        /\ cons'.consumed = cons.consumed /\ cons'.looked = cons.looked /\ cons'.res = "Overrun"
    BY <2>1, <2>2 DEF Consumers
  <2>4. PICK base \in 0 .. line, over \in {0, RingLen}, shift \in {0, RingLen} :
          Books(base, over, shift)
    BY <1>2, SpanFrame
  <2>5. cpc' \notin FreshLook \cup Copying /\ cpc' \in Leaving /\ cpc' \notin {"start", "commit", "raced"}
    BY <2>1 DEF FreshLook, Copying, Leaving
  <2>6. BooksTypeOK' /\ ArmInv' /\ ReadsAreWhole'
    BY <1>1, <2>3, <2>5 DEF BooksInv, BooksTypeOK, ArmInv, ReadsAreWhole
  <2>7. LapsAgree(over)'
    BY <1>1, <1>2, <2>3, <2>4, <2>5 DEF Books, LapsAgree, OwnLaps, Floor
  <2>8. PlaceAgrees(over, shift)' /\ RingHolds(base)'
    BY <1>1, <2>3, <2>4, <2>5 DEF Books, PlaceAgrees, RingHolds
  <2>9. CopyAgrees(base, over, shift)' /\ OutAgrees(base, shift)'
    BY <2>3, <2>5 DEF CopyAgrees, OutAgrees
  <2> QED
    BY <1>1, <2>4, <2>6, <2>7, <2>8, <2>9 DEF Books, BooksInv
<1> QED
  BY <1>3, <1>4

LEMMA LookKeepsBooks ==
  ASSUME ControlInv, BooksInv, ReadNdtr
  PROVE  BooksInv'
<1>1. /\ cpc \in {"look", "see", "check"} /\ UNCHANGED <<ring_state, isr_laps, dma, line, out>>
      /\ cons' = [cons EXCEPT !.c = Ndtr, !.looked = dma.pos]
      /\ cpc' = [look |-> "looked", see |-> "seen", check |-> "checked"][cpc]
  BY DEF ReadNdtr
<1>2. /\ cpc = "look" => cpc' = "looked"
      /\ cpc = "see" => cpc' = "seen"
      /\ cpc = "check" => cpc' = "checked"
  BY <1>1
<1>3. cpc \in ReadSpan \ {"exit"} /\ cpc \notin FreshLook \cup Leaving
  BY <1>1 DEF ReadSpan, FreshLook, Leaving
<1>4. /\ cpc' \in FreshLook /\ cpc' \in ReadSpan /\ cpc' \notin Leaving \cup {"start", "commit", "raced", "copy"}
      /\ cpc' \in Copying <=> cpc \in Copying
      /\ cpc' = "checked" <=> cpc \in Copying
  BY <1>1, <1>2 DEF FreshLook, ReadSpan, Leaving, Copying
<1>5. PICK base \in 0 .. line, over \in {0, RingLen}, shift \in {0, RingLen} :
        Books(base, over, shift)
  BY <1>3, SpanFrame
<1>6. cons \in Consumers /\ cons.res = "Empty" /\ isr_laps \in Nat /\ out \in Outs
  BY <1>3, SpanFrame
<1>7. PICK looked \in Nat, pos \in Nat, laps \in Nat : looked = cons.looked /\ pos = dma.pos /\ laps = cons.laps
  BY <1>3, <1>6, SpanFrame DEF Consumers
<1>8. PICK r \in 0 .. RingLen - 1, s \in 0 .. RingLen - 1 : r = looked % RingLen /\ s = pos % RingLen
  BY PlaceFacts
<1>9. PICK c \in Counts : c = Ndtr /\ c = RingLen - s
  BY <1>7, <1>8 DEF Counts, Ndtr
<1>10. c \in Int /\ c > 0
  BY <1>8, <1>9 DEF Counts
<1>11. cons' = [cons EXCEPT !.c = c, !.looked = pos]
  BY <1>1, <1>7, <1>9
<1>12. /\ cons' \in Consumers /\ cons'.laps = laps /\ cons'.prev = cons.prev /\ cons'.c = c
       /\ cons'.consumed = cons.consumed /\ cons'.looked = pos /\ cons'.got = cons.got
       /\ cons'.want = cons.want /\ cons'.res = "Empty"
  BY <1>6, <1>7, <1>11 DEF Consumers
<1>13. BooksTypeOK' /\ ArmInv' /\ ReadsAreWhole'
  BY <1>1, <1>4, <1>6, <1>10, <1>12 DEF BooksInv, BooksTypeOK, ArmInv, ReadsAreWhole
<1>14. /\ looked <= pos /\ pos < looked + RingLen /\ cons.prev = RingLen - r
       /\ laps * RingLen = Floor(looked) + over
       /\ isr_laps * RingLen + (IF dma.tc THEN RingLen ELSE 0) <= Floor(pos)
  BY <1>3, <1>5, <1>7, <1>8 DEF Books, LapsAgree, OwnLaps
<1>15. LapsAgree(over)'
  <2>1. PICK d \in Nat : d = pos - looked /\ pos = looked + d /\ d < RingLen
    BY <1>14
  <2>2. PICK f \in Int, g \in Int : f = Floor(looked) /\ g = Floor(pos)
    BY PlaceFacts
  <2>3. \/ s = r + d /\ g = f
        \/ s = r + d - RingLen /\ g = f + RingLen
    <3>1. d <= RingLen
      BY <2>1
    <3>2. \/ (looked + d) % RingLen = r + d /\ Floor(looked + d) = f
          \/ (looked + d) % RingLen = r + d - RingLen /\ Floor(looked + d) = f + RingLen
      BY <1>8, <2>2, <3>1, FurtherOn
    <3> QED
      BY <1>8, <2>1, <2>2, <3>2
  <2>4. PICK m \in Int : m = laps * RingLen /\ (laps + 1) * RingLen = m + RingLen
    BY LapsTimes
  <2>5. OwnLaps' = IF c > RingLen - r THEN laps + 1 ELSE laps
    BY <1>4, <1>12, <1>14 DEF OwnLaps
  <2>6. OwnLaps' * RingLen = g + over
    <3>1. CASE s = r + d /\ g = f
      <4>1. ~(c > RingLen - r)
        BY <1>8, <1>9, <2>1, <3>1
      <4> QED
        BY <1>14, <2>2, <2>5, <3>1, <4>1
    <3>2. CASE s = r + d - RingLen /\ g = f + RingLen
      <4>1. c > RingLen - r
        BY <1>8, <1>9, <2>1, <3>2
      <4> QED
        BY <1>14, <2>2, <2>4, <2>5, <3>2, <4>1
    <3> QED
      BY <2>3, <3>1, <3>2
  <2>7. Floor(dma'.pos) = Floor(pos) /\ Floor(cons'.looked) = Floor(pos) /\ dma'.tc = dma.tc
    BY <1>1, <1>7, <1>12
  <2>8. pos <= pos /\ pos < pos + RingLen
    OBVIOUS
  <2>9. OwnLaps' * RingLen = Floor(cons'.looked) + over
    BY <2>2, <2>6, <2>7
  <2> QED
    BY <1>1, <1>4, <1>7, <1>8, <1>9, <1>12, <1>14, <2>7, <2>8, <2>9 DEF LapsAgree
<1>16. PICK at \in Int : at = cons.consumed - shift /\ at = cons'.consumed - shift
  BY <1>6, <1>12 DEF Consumers
<1>17. PlaceAgrees(over, shift)' /\ RingHolds(base)'
  <2>1. at >= 0 /\ at <= looked /\ shift <= over /\ (shift < over => pos > at)
    BY <1>5, <1>7, <1>16 DEF Books, PlaceAgrees
  <2>2. PlaceAgrees(over, shift)'
    BY <1>1, <1>7, <1>12, <1>14, <1>16, <2>1 DEF PlaceAgrees
  <2> QED
    BY <1>1, <1>5, <2>2 DEF Books, RingHolds
<1>18. CopyAgrees(base, over, shift)'
  <2>1. cpc' \in Copying => cpc = "check" /\ cpc' = "checked"
    BY <1>1, <1>2, <1>4 DEF Copying
  <2>2. cpc \in Copying => /\ cons.want > 0 /\ Len(cons.got) = cons.want
                           /\ shift = over => at + cons.want <= looked
                           /\ shift = over /\ pos <= at + RingLen =>
                                \A i \in 1 .. Len(cons.got) : cons.got[i] = base + at + i
    BY <1>1, <1>5, <1>7, <1>16 DEF Books, CopyAgrees, Copying
  <2>3. cpc \notin Copying => cons.got = <<>>
    BY <1>3, SpanFrame
  <2>4. shift = over /\ cpc \in Copying => at + cons.want <= pos
    BY <1>6, <1>14, <2>2 DEF Consumers
  <2> QED
    BY SMTT(30), <1>4, <1>6, <1>12, <1>16, <2>1, <2>2, <2>3, <2>4 DEF CopyAgrees, Consumers
<1>19. OutAgrees(base, shift)'
  BY <1>1, <1>3, <1>4, <1>5, <1>6, <1>12 DEF Books, OutAgrees
<1> QED
  BY <1>1, <1>4, <1>13, <1>15, <1>17, <1>18, <1>19 DEF Books, BooksInv
(* What observe() found enters the books, and the read goes on or ends. *)
LEMMA SeenKeepsBooks ==
  ASSUME ControlInv, BooksInv, NoFlags, cpc \in FreshLook, UNCHANGED <<ring_state, isr_laps, dma, line, out>>,
         cpc' \in {"exit", "copy"}, cons' \in Consumers, cons'.laps = Observed.laps,
         cons'.prev = Observed.prev, cons'.looked = Observed.looked, cons'.got = cons.got,
         NEW base \in 0 .. line, NEW over \in {0, RingLen}, NEW shift \in {0, RingLen},
         NEW over2 \in {0, RingLen}, NEW shift2 \in {0, RingLen}, Books(base, over, shift), over <= over2,
         Observed.laps * RingLen = Floor(cons.looked) + over2, Observed.prev = cons.c,
         Observed.looked = cons.looked,
         PlaceAgrees(over2, shift2)', CopyAgrees(base, over2, shift2)', OutAgrees(base, shift2)'
  PROVE  BooksInv'
<1> HIDE DEF Observed
<1>1. cpc' \in ReadSpan \ (FreshLook \cup {"look"}) /\ cpc' # "start" /\ cpc' \notin FreshLook
  BY DEF ReadSpan, FreshLook
<1>2. BooksTypeOK' /\ ArmInv' /\ ReadsAreWhole'
  BY <1>1 DEF BooksInv, BooksTypeOK, ArmInv, ReadsAreWhole
<1>3. LapsAgree(over2)'
  BY <1>1, AccountedLook DEF Books
<1>4. RingHolds(base)'
  BY DEF Books, RingHolds
<1> QED
  BY <1>1, <1>2, <1>3, <1>4 DEF Books, BooksInv

(* The consumer loses its place and goes on from where the engine is. *)
LEMMA ResyncKeepsBooks ==
  ASSUME ControlInv, BooksInv, NoFlags, cpc \in FreshLook, UNCHANGED <<ring_state, isr_laps, dma, line, out>>,
         cpc' = "exit", cons' = [Observed EXCEPT !.consumed = Observed.produced, !.res = "Overrun"]
  PROVE  BooksInv'
<1>1. cpc \in ReadSpan \ {"exit"}
  BY DEF FreshLook, ReadSpan
<1>2. PICK base \in 0 .. line, over \in {0, RingLen}, shift \in {0, RingLen} :
        Books(base, over, shift)
  BY <1>1, SpanFrame
<1>3. cons \in Consumers /\ isr_laps \in Nat /\ cons.c > 0 /\ cons.looked \in Nat
  BY <1>1, SpanFrame DEF BooksInv, BooksTypeOK, Consumers
<1>4. PICK over2 \in {0, RingLen} :
           /\ over <= over2
           /\ Observed \in Consumers /\ Observed.laps * RingLen = Floor(cons.looked) + over2
           /\ Observed.prev = cons.c /\ Observed.produced = cons.looked + over2
           /\ Observed.looked = cons.looked /\ Observed.got = cons.got
  BY <1>2, <1>3, ObservedIs DEF Books
<1> HIDE DEF Observed
<1>5. PICK p \in Nat : p = Observed.produced /\ p = cons.looked + over2
  BY <1>3, <1>4
<1>6. cons' = [Observed EXCEPT !.consumed = p, !.res = "Overrun"]
  BY <1>5
<1>7. /\ cons' \in Consumers /\ cons'.laps = Observed.laps /\ cons'.prev = Observed.prev
      /\ cons'.looked = Observed.looked /\ cons'.got = cons.got /\ cons'.consumed = p
      /\ cons'.res = "Overrun"
  BY <1>4, <1>6 DEF Consumers
<1>8. cpc' \notin FreshLook \cup Copying \cup {"commit", "raced"} /\ cpc' \in Leaving
  BY DEF FreshLook, Copying, Leaving
<1>9. PlaceAgrees(over2, over2)'
  BY <1>3, <1>4, <1>5, <1>7 DEF PlaceAgrees
<1>10. CopyAgrees(base, over2, over2)' /\ OutAgrees(base, over2)'
  BY <1>7, <1>8 DEF CopyAgrees, OutAgrees
<1> QED
  BY <1>2, <1>4, <1>7, <1>9, <1>10, SeenKeepsBooks

(* The consumer keeps its place; a read that has bytes goes on to copy them. *)
LEMMA StayKeepsBooks ==
  ASSUME ControlInv, BooksInv, NoFlags, cpc \in {"looked", "seen"},
         UNCHANGED <<ring_state, isr_laps, dma, line, out>>,
         \/ cpc' = "exit" /\ cons' = Observed
         \/ /\ cpc' = "copy" /\ ~Overtaken(Observed) /\ Observed.produced - Observed.consumed # 0
            /\ cons' = [Observed EXCEPT !.want = IF Observed.produced - Observed.consumed < DstLen
                                                THEN Observed.produced - Observed.consumed ELSE DstLen]
  PROVE  BooksInv'
<1>1. cpc \in ReadSpan \ {"exit"} /\ cpc \in FreshLook /\ cpc \notin Copying \cup Leaving
  BY DEF FreshLook, ReadSpan, Copying, Leaving
<1>2. PICK base \in 0 .. line, over \in {0, RingLen}, shift \in {0, RingLen} :
        Books(base, over, shift)
  BY <1>1, SpanFrame
<1>3. /\ cons \in Consumers /\ isr_laps \in Nat /\ cons.c > 0 /\ cons.looked \in Nat
      /\ cons.consumed \in Nat /\ dma.pos \in Nat /\ cons.res = "Empty" /\ cons.got = <<>>
  BY <1>1, SpanFrame DEF BooksInv, BooksTypeOK, Consumers
<1>4. PICK over2 \in {0, RingLen} :
           /\ over <= over2 /\ (over < over2 => dma.pos > cons.looked)
           /\ Observed \in Consumers /\ Observed.laps * RingLen = Floor(cons.looked) + over2
           /\ Observed.prev = cons.c /\ Observed.produced = cons.looked + over2
           /\ Observed.consumed = cons.consumed /\ Observed.looked = cons.looked
           /\ Observed.got = cons.got /\ Observed.res = cons.res
  BY <1>1, <1>2, <1>3, ObservedIs DEF Books
<1> HIDE DEF Observed
<1>5. PICK avail \in Int : avail = Observed.produced - Observed.consumed
  BY <1>3, <1>4
<1>6. cpc' = "copy" => avail >= 1
  BY <1>3, <1>4, <1>5 DEF Overtaken
<1>7. PICK w \in Int : w = IF avail < DstLen THEN avail ELSE DstLen
  BY <1>5
<1>8. cpc' = "copy" => w \in Nat /\ w > 0 /\ w <= avail
  BY <1>5, <1>6, <1>7
<1>9. /\ cons' \in Consumers /\ cons'.laps = Observed.laps /\ cons'.prev = Observed.prev
      /\ cons'.looked = Observed.looked /\ cons'.got = cons.got /\ cons'.consumed = cons.consumed
      /\ cons'.res = "Empty" /\ (cpc' = "copy" => cons'.want = w)
  <2>1. CASE cpc' = "exit" /\ cons' = Observed
    BY <1>3, <1>4, <2>1
  <2>2. CASE cpc' = "copy" /\ cons' = [Observed EXCEPT !.want = w]
    BY <1>3, <1>4, <1>8, <2>2 DEF Consumers
  <2> QED
    BY <1>5, <1>7, <2>1, <2>2
<1>10. PICK at \in Int : at = cons.consumed - shift /\ at = cons'.consumed - shift
  BY <1>3, <1>9
<1>11. cpc' \in ReadSpan /\ cpc' \notin FreshLook \cup {"commit", "raced"}
  BY DEF ReadSpan, FreshLook
<1>12. /\ at >= 0 /\ at <= cons.looked /\ shift <= over /\ (shift < over => dma.pos > at)
  BY <1>2, <1>10 DEF Books, PlaceAgrees
<1>13. PlaceAgrees(over2, shift)'
  <2>1. shift < over2 => dma.pos > at
    BY <1>3, <1>4, <1>12
  <2>2. shift <= over2
    BY <1>4, <1>12
  <2> QED
    BY <1>4, <1>9, <1>10, <1>11, <1>12, <2>1, <2>2 DEF PlaceAgrees
<1>14. CopyAgrees(base, over2, shift)'
  <2>1. CASE cpc' = "exit"
    BY <1>9, <2>1 DEF CopyAgrees, Copying, Leaving
  <2>2. CASE cpc' = "copy"
    <3>1. cons'.want = w /\ cons'.got = <<>> /\ Len(cons'.got) = 0
      BY <1>3, <1>9, <2>2
    <3>2. shift = over2 => at + w <= cons.looked
      BY SMTT(30), <1>3, <1>4, <1>5, <1>8, <1>10, <2>2
    <3> QED
      BY <1>4, <1>8, <1>9, <1>10, <2>2, <3>1, <3>2 DEF CopyAgrees, Copying, Leaving
  <2> QED
    BY <2>1, <2>2
<1>15. OutAgrees(base, shift)'
  BY <1>1, <1>2, <1>3, <1>9, <1>10, <1>11 DEF Books, OutAgrees
<1> QED
  BY <1>1, <1>2, <1>4, <1>9, <1>13, <1>14, <1>15, SeenKeepsBooks
LEMMA CopyKeepsBooks ==
  ASSUME ControlInv, BooksInv, CopyByte
  PROVE  BooksInv'
<1>1. /\ cpc = "copy" /\ UNCHANGED <<ring_state, isr_laps, dma, line, out>>
      /\ cons' = [cons EXCEPT !.got = Append(@, dma.ring[(cons.consumed + Len(cons.got)) % RingLen])]
      /\ cpc' = IF Len(cons.got) + 1 = cons.want THEN "check" ELSE "copy"
  BY DEF CopyByte
<1>2. /\ cpc \in ReadSpan \ {"exit"} /\ cpc \in Copying /\ cpc \notin FreshLook
      /\ cpc' \in ReadSpan /\ cpc' \in Copying
      /\ cpc' \notin FreshLook \cup Leaving \cup {"start", "commit", "raced", "checked"}
  BY <1>1 DEF ReadSpan, FreshLook, Copying, Leaving
<1>3. PICK base \in 0 .. line, over \in {0, RingLen}, shift \in {0, RingLen} :
        Books(base, over, shift)
  BY <1>2, SpanFrame
<1>4. /\ cons \in Consumers /\ cons.looked \in Nat /\ cons.consumed \in Nat /\ dma.pos \in Nat
      /\ cons.res = "Empty" /\ cons.got \in Seq(Int) /\ cons.want \in Nat /\ dma.ring \in Rings
  BY <1>2, SpanFrame DEF Consumers, ByteSeqs, Channels
<1>5. PICK n \in Nat : n = Len(cons.got)
  BY <1>4
<1>6. PICK k \in Nat : k = cons.consumed + n
  BY <1>4
<1>7. PICK b \in Int : b = dma.ring[k % RingLen]
  BY <1>4, PlaceFacts DEF Rings
<1>8. PICK more \in ByteSeqs : more = Append(cons.got, b)
  <2>1. Append(cons.got, b) \in Seq(Int)
    BY <1>4
  <2> QED
    BY <2>1 DEF ByteSeqs
<1>9. Len(more) = n + 1 /\ more[n + 1] = b /\ \A i \in 1 .. n : more[i] = cons.got[i]
  BY <1>4, <1>5, <1>7, <1>8
<1>10. cons' = [cons EXCEPT !.got = more]
  BY <1>1, <1>5, <1>6, <1>7, <1>8
<1>11. /\ cons' \in Consumers /\ cons'.laps = cons.laps /\ cons'.prev = cons.prev
       /\ cons'.consumed = cons.consumed /\ cons'.looked = cons.looked /\ cons'.got = more
       /\ cons'.want = cons.want /\ cons'.res = "Empty"
  BY <1>4, <1>10 DEF Consumers
<1>12. BooksTypeOK' /\ ArmInv' /\ ReadsAreWhole'
  BY <1>1, <1>2, <1>11 DEF BooksInv, BooksTypeOK, ArmInv, ReadsAreWhole
<1>13. LapsAgree(over)'
  BY <1>1, <1>2, <1>3, <1>11 DEF Books, LapsAgree, OwnLaps, Floor
<1>14. PlaceAgrees(over, shift)' /\ RingHolds(base)'
  BY <1>1, <1>2, <1>3, <1>11 DEF Books, PlaceAgrees, RingHolds
<1>15. PICK at \in Int : at = cons.consumed - shift /\ at = cons'.consumed - shift
  BY <1>4, <1>11
<1>16. CopyAgrees(base, over, shift)'
  <2>1. /\ n < cons.want /\ (shift = over => at + cons.want <= cons.looked)
        /\ shift = over /\ dma.pos <= at + RingLen => \A i \in 1 .. n : cons.got[i] = base + at + i
    BY <1>1, <1>2, <1>3, <1>5, <1>15 DEF Books, CopyAgrees
  <2>2. ASSUME shift = over, dma.pos <= at + RingLen
        PROVE  \A i \in 1 .. n + 1 : more[i] = base + at + i
    <3>1. PICK q \in Nat : q = at + n
      BY <1>3, <1>15 DEF Books, PlaceAgrees
    <3>2. k = q \/ k = q + RingLen
      <4>1. PICK e \in Int : e = cons.consumed /\ at = e - shift /\ k = e + n
        BY <1>4, <1>6, <1>15
      <4> QED
        BY <3>1, <4>1
    <3>3. (q + RingLen) % RingLen = q % RingLen
      <4>1. RingLen \in Nat /\ RingLen <= RingLen
        OBVIOUS
      <4>2. PICK r \in 0 .. RingLen - 1 : r = q % RingLen
        BY PlaceFacts
      <4>3. (q % RingLen) + RingLen >= RingLen
        BY <4>2
      <4>4. (q + RingLen) % RingLen = (q % RingLen) + RingLen - RingLen
        BY <4>1, <4>3, RemainderWraps
      <4> QED
        BY <4>2, <4>4
    <3>4. k % RingLen = q % RingLen
      BY <3>2, <3>3
    <3>5. cons.looked <= dma.pos
      BY <1>3 DEF Books, LapsAgree
    <3>6. q \in 0 .. dma.pos - 1 /\ q >= dma.pos - RingLen
      BY <1>4, <2>1, <2>2, <3>1, <3>5
    <3>7. dma.ring[q % RingLen] = base + q + 1
      BY <1>3, <3>6 DEF Books, RingHolds
    <3>8. base \in Int
      BY SpanFrame, <1>2
    <3>9. b = base + at + (n + 1)
      BY <1>7, <3>1, <3>4, <3>7, <3>8
    <3> SUFFICES ASSUME NEW i \in 1 .. n + 1 PROVE more[i] = base + at + i
      OBVIOUS
    <3>10. CASE i = n + 1
      BY <1>9, <3>9, <3>10
    <3>11. CASE i # n + 1
      <4>1. i \in 1 .. n
        BY <3>11
      <4> QED
        BY <1>9, <2>1, <2>2, <4>1
    <3> QED
      BY <3>10, <3>11
  <2>3. /\ cons.want > 0 /\ n + 1 <= cons.want /\ (cpc' = "copy" => n + 1 < cons.want)
        /\ cpc' # "copy" => n + 1 = cons.want
    <3>1. PICK w \in Nat : w = cons.want /\ n < w
      BY <1>4, <2>1
    <3>2. cpc' = IF n + 1 = w THEN "check" ELSE "copy"
      BY <1>1, <1>5, <3>1, Zenon
    <3>3. w > 0 /\ n + 1 <= w /\ (n + 1 # w => n + 1 < w)
      BY <3>1
    <3>4. (cpc' = "copy" => n + 1 # w) /\ (cpc' # "copy" => n + 1 = w)
      BY <3>2
    <3> QED
      BY <3>1, <3>3, <3>4, Zenon
  <2> QED
    BY <1>1, <1>2, <1>9, <1>11, <1>15, <2>1, <2>2, <2>3 DEF CopyAgrees
<1>17. OutAgrees(base, shift)'
  BY <1>1, <1>2, <1>3, <1>4, <1>11 DEF Books, OutAgrees
<1> QED
  BY <1>1, <1>2, <1>12, <1>13, <1>14, <1>16, <1>17 DEF Books, BooksInv

(* A copy that is found good. *)
LEMMA CommitKeepsBooks ==
  ASSUME ControlInv, BooksInv, NoFlags, cpc = "checked", UNCHANGED <<ring_state, isr_laps, dma, line, out>>,
         cpc' = "exit", ~Overtaken(Observed),
         cons' = [Observed EXCEPT !.consumed = @ + cons.want, !.res = "Bytes"]
  PROVE  BooksInv'
<1>1. cpc \in ReadSpan \ {"exit"} /\ cpc \in FreshLook /\ cpc \in Copying
  BY DEF FreshLook, ReadSpan, Copying
<1>2. PICK base \in 0 .. line, over \in {0, RingLen}, shift \in {0, RingLen} :
        Books(base, over, shift)
  BY <1>1, SpanFrame
<1>3. /\ cons \in Consumers /\ isr_laps \in Nat /\ cons.c > 0 /\ cons.looked \in Nat
      /\ cons.consumed \in Nat /\ dma.pos \in Nat /\ cons.res = "Empty" /\ cons.want \in Nat
      /\ base \in Int /\ cons.got \in Seq(Int)
  BY <1>1, SpanFrame DEF BooksInv, BooksTypeOK, Consumers, ByteSeqs
<1>4. PICK over2 \in {0, RingLen} :
           /\ over <= over2
           /\ Observed \in Consumers /\ Observed.laps * RingLen = Floor(cons.looked) + over2
           /\ Observed.prev = cons.c /\ Observed.produced = cons.looked + over2
           /\ Observed.consumed = cons.consumed /\ Observed.looked = cons.looked
           /\ Observed.got = cons.got
  BY <1>1, <1>2, <1>3, ObservedIs DEF Books
<1> HIDE DEF Observed
<1>5. PICK k \in Nat : k = cons.consumed + cons.want
  BY <1>3
<1>6. cons' = [Observed EXCEPT !.consumed = k, !.res = "Bytes"]
  BY <1>4, <1>5
<1>7. /\ cons' \in Consumers /\ cons'.laps = Observed.laps /\ cons'.prev = Observed.prev
      /\ cons'.looked = Observed.looked /\ cons'.got = cons.got /\ cons'.consumed = k
      /\ cons'.res = "Bytes"
  BY <1>4, <1>6 DEF Consumers
<1>8. PICK at \in Int : at = cons.consumed - shift
  BY <1>3
<1>9. /\ at >= 0 /\ at <= cons.looked /\ shift <= over /\ (shift < over => cons.looked > at)
  BY <1>1, <1>2, <1>8 DEF Books, PlaceAgrees
<1>10. /\ cons.want > 0 /\ Len(cons.got) = cons.want
       /\ shift = over => at + cons.want <= cons.looked
       /\ shift = over /\ cons.looked <= at + RingLen =>
            \A i \in 1 .. Len(cons.got) : cons.got[i] = base + at + i
  BY <1>1, <1>2, <1>8 DEF Books, CopyAgrees
<1>11. cons.looked + over2 - cons.consumed <= RingLen
  BY <1>3, <1>4 DEF Overtaken
<1>12. shift = over2 /\ shift = over /\ cons.looked <= at + RingLen
  <2>1. PICK l \in Int, e \in Int, w \in Int : l = cons.looked /\ e = cons.consumed /\ w = cons.want
    BY <1>3
  <2>2. at = e - shift /\ l + over2 - e <= RingLen /\ shift <= over /\ over <= over2 /\ w > 0
    BY <1>4, <1>8, <1>9, <1>10, <1>11, <2>1
  <2>3. (shift < over => l > at) /\ (shift = over => at + w <= l)
    BY <1>9, <1>10, <2>1
  <2>4. shift = over2 /\ shift = over /\ l <= at + RingLen
    BY <2>2, <2>3
  <2> QED
    BY <2>1, <2>4
<1>13. cpc' \in ReadSpan /\ cpc' \in Leaving /\ cpc' \notin FreshLook \cup Copying \cup {"commit", "raced"}
  BY DEF ReadSpan, FreshLook, Leaving, Copying
<1>14. k - shift = at + cons.want
  BY <1>3, <1>5, <1>8
<1>15. PlaceAgrees(over2, shift)'
  <2>1. at + cons.want >= 0 /\ at + cons.want <= cons.looked
    BY <1>3, <1>9, <1>10, <1>12
  <2> QED
    BY <1>4, <1>7, <1>12, <1>14, <2>1 DEF PlaceAgrees
<1>16. CopyAgrees(base, over2, shift)'
  <2>1. \A i \in 1 .. Len(cons.got) : cons.got[i] = base + (at + cons.want) - Len(cons.got) + i
    BY <1>3, <1>10, <1>12
  <2>2. Len(cons.got) > 0
    BY <1>10
  <2> QED
    BY <1>7, <1>13, <1>14, <2>1, <2>2 DEF CopyAgrees
<1>17. OutAgrees(base, shift)'
  <2>1. ~out.gap => out.last = base + at
    BY <1>1, <1>2, <1>3, <1>8 DEF Books, OutAgrees
  <2>2. ~out.gap => out.last = base + (at + cons.want) - Len(cons.got)
    BY <1>3, <1>10, <2>1
  <2> QED
    BY <1>7, <1>13, <1>14, <2>2 DEF OutAgrees
<1> QED
  BY <1>1, <1>2, <1>4, <1>7, <1>15, <1>16, <1>17, SeenKeepsBooks

LEMMA SpanKeepsBooks ==
  ASSUME ControlInv, BooksInv, NoFlags,
         SwapOverrun \/ ReadNdtr \/ DataReady \/ DecideRead \/ CopyByte \/ Revalidate
  PROVE  BooksInv'
<1>1. CASE DataReady
  <2>1. /\ cpc = "looked" /\ cons' = Observed /\ cpc' = "exit"
        /\ UNCHANGED <<ring_state, isr_laps, dma, line, out>>
    BY <1>1 DEF DataReady
  <2> QED
    BY <2>1, StayKeepsBooks
<1>2. CASE DecideRead
  <2>1. cpc = "seen" /\ cpc \in FreshLook /\ UNCHANGED <<ring_state, isr_laps, dma, line, out>>
    BY <1>2 DEF DecideRead, FreshLook
  <2>2. CASE Overtaken(Observed)
    <3>1. /\ cons' = [Observed EXCEPT !.consumed = Observed.produced, !.res = "Overrun"]
          /\ cpc' = "exit"
      <4>1. cpc \in ReadSpan \ {"exit"}
        BY <2>1 DEF ReadSpan
      <4>2. PICK base \in 0 .. line, over \in {0, RingLen}, shift \in {0, RingLen} :
              Books(base, over, shift)
        BY <4>1, SpanFrame
      <4>3. cons \in Consumers /\ isr_laps \in Nat /\ cons.c > 0
        BY <2>1, <4>1, SpanFrame DEF BooksInv, BooksTypeOK
      <4>4. Observed \in Consumers
        BY <2>1, <4>2, <4>3, ObservedIs DEF Books
      <4> HIDE DEF Observed
      <4>5. Observed.produced \in Int /\ Observed.consumed \in Int
        BY <4>4 DEF Consumers
      <4>6. Observed.produced - Observed.consumed # 0
        BY <2>2, <4>5 DEF Overtaken
      <4> QED
        BY <1>2, <2>2, <4>6 DEF DecideRead
    <3> QED
      BY <2>1, <3>1, ResyncKeepsBooks
  <2>3. CASE ~Overtaken(Observed)
    <3>1. \/ cpc' = "exit" /\ cons' = Observed
          \/ /\ cpc' = "copy" /\ Observed.produced - Observed.consumed # 0
             /\ cons' = [Observed EXCEPT !.want = IF Observed.produced - Observed.consumed < DstLen
                                                THEN Observed.produced - Observed.consumed ELSE DstLen]
      BY <1>2, <2>3 DEF DecideRead
    <3> QED
      BY <2>1, <2>3, <3>1, StayKeepsBooks
  <2> QED
    BY <2>2, <2>3
<1>3. CASE Revalidate
  <2>1. /\ cpc = "checked" /\ cpc \in FreshLook /\ UNCHANGED <<ring_state, isr_laps, dma, line, out>>
        /\ cpc' = "exit"
    BY <1>3 DEF Revalidate, FreshLook
  <2>2. CASE Overtaken(Observed) \/ overrun
    <3>1. cons' = [Observed EXCEPT !.consumed = Observed.produced, !.res = "Overrun"]
      BY <1>3, <2>2 DEF Revalidate
    <3> QED
      BY <2>1, <3>1, ResyncKeepsBooks
  <2>3. CASE ~(Overtaken(Observed) \/ overrun)
    <3>1. cons' = [Observed EXCEPT !.consumed = @ + cons.want, !.res = "Bytes"]
      BY <1>3, <2>3 DEF Revalidate
    <3> QED
      BY <2>1, <2>3, <3>1, CommitKeepsBooks
  <2> QED
    BY <2>2, <2>3
<1> QED
  BY <1>1, <1>2, <1>3, SwapKeepsBooks, LookKeepsBooks, CopyKeepsBooks

LEMMA BooksStutter ==
  ASSUME ControlInv, BooksInv, UNCHANGED ringVars
  PROVE  BooksInv'
<1>1. dma \in Channels /\ isr_laps \in Nat /\ (cpc = "start" => isr_laps = 0)
  BY DEF ControlInv, ControlTypeOK, BooksInv, BooksTypeOK, ArmInv
<1> QED
  BY <1>1, BooksFrame DEF ringVars

(* The initial books. *)
LEMMA FirstBooks ==
  ASSUME RingInit
  PROVE  BooksInv
<1>1. /\ isr_laps = 0 /\ cpc = "idle" /\ line = 0 /\ ring_state = "REARM_REQ"
      /\ dma.pos = 0 /\ ~dma.tc /\ ~dma.en
      /\ cons = [laps |-> 0, prev |-> RingLen, consumed |-> 0, looked |-> 0,
                 c |-> 0, produced |-> 0, got |-> <<>>, want |-> 0, res |-> "Empty"]
      /\ out = [bytes |-> <<>>, last |-> 0, gap |-> TRUE, was |-> TRUE]
  BY DEF RingInit
<1>2. /\ cons.laps = 0 /\ cons.prev = RingLen /\ cons.consumed = 0 /\ cons.looked = 0
      /\ cons.got = <<>> /\ cons.res = "Empty" /\ out.gap /\ out.was /\ out.bytes = <<>>
  BY <1>1
<1>3. BooksTypeOK
  <2>1. RingLen \in Counts /\ 0 \in Counts /\ <<>> \in ByteSeqs
    BY DEF Counts, ByteSeqs
  <2> QED
    BY <1>1, <2>1 DEF BooksTypeOK, Consumers, Outs, FreshLook
<1>4. ArmInv /\ ReadsAreWhole
  BY <1>1, <1>2 DEF ArmInv, ReadsAreWhole
<1>5. 0 % RingLen = 0 /\ 0 * RingLen = 0
  BY ZeroRemainder
<1>6. LapsAgree(0)
  BY <1>1, <1>2, <1>5 DEF LapsAgree, OwnLaps, Floor, FreshLook
<1>7. PlaceAgrees(0, 0) /\ RingHolds(0)
  BY <1>1, <1>2 DEF PlaceAgrees, RingHolds
<1>8. CopyAgrees(0, 0, 0) /\ OutAgrees(0, 0)
  BY <1>1, <1>2 DEF CopyAgrees, OutAgrees, Copying, Leaving
<1>9. Books(0, 0, 0) /\ 0 \in 0 .. line /\ 0 \in {0, RingLen}
  BY <1>1, <1>6, <1>7, <1>8 DEF Books
<1> QED
  BY <1>3, <1>4, <1>9 DEF BooksInv

(* However late the consumer looks: the state tells the truth about the channel, and registers are *)
(* read with the clock on.                                                                         *)
THEOREM ChannelStaysTrue == RingSpec => [](StateMatchesChannel /\ ReadsAreClocked)
<1>1. ControlInv => StateMatchesChannel /\ ReadsAreClocked
  BY DEF ControlInv, StatesAgree, ChannelAgrees, StateMatchesChannel, ReadsAreClocked, ReadSpan
<1> QED
  BY <1>1, ControlStays, PTL

(* A consumer that looks in every lap is handed what came on the line, in order and with every gap *)
(* reported, and the state tells the truth about the channel.                                       *)
THEOREM RingStaysTrue ==
  ConsumerLooks /\ RingSpec => [](ReadsAreWhole /\ StateMatchesChannel /\ ReadsAreClocked)
<1>1. ConsumerLooks /\ RingInit => BooksInv /\ ConsumerLooks
  BY FirstBooks
<1>2. ControlInv /\ (BooksInv /\ ConsumerLooks) /\ [RingNext]_ringVars => (BooksInv /\ ConsumerLooks)'
  BY BooksStutter, ByteKeepsBooks, EngineKeepsBooks, ControlKeepsBooks, SpanKeepsBooks,
     ConsumerKeepsBooks DEF RingNext, ConsumerStep
<1>3. BooksInv => ReadsAreWhole
  BY DEF BooksInv
<1> QED
  BY <1>1, <1>2, <1>3, ControlStays, ChannelStaysTrue, PTL DEF RingSpec

HIDE RingAssumption

-----------------------------------------------------------------------------
(* What the drivers of the ring and of the flash give back is what the line and the chip hold, for *)
(* every ring and every geometry of the chip.                                                      *)
THEOREM TransfersStayTrue ==
  ConsumerLooks /\ RingSpec /\ FlashSpec => TransfersAreTrue
BY RingStaysTrue, FlashStaysExact, PTL DEF TransfersAreTrue

=============================================================================
