----------------------------- MODULE MCProgress -----------------------------
(***************************************************************************)
(* The components that also have to get somewhere, each on a small         *)
(* instance: a behaviour chooses one of them and takes its steps, and the  *)
(* fairness is that of the component. The components about which theorems  *)
(* are proved have their own variables, which stay as they began when      *)
(* another component is chosen; the others share p1 .. p15, which hold the *)
(* state of the one chosen.                                                *)
(***************************************************************************)
EXTENDS BootLoader, Uart, ModemStart, FactoryTest, ServerTasks, Provision,
        DataExport, Mail

VARIABLES
  which,                \* the component
  p1, p2, p3, p4, p5, p6, p7, p8, p9, p10, p11, p12, p13, p14, p15

pool == <<p1, p2, p3, p4, p5, p6, p7, p8, p9, p10, p11, p12, p13, p14, p15>>
owned == <<bootVars, uartVars, downVars, startVars, factoryVars, mqttVars, supVars, provVars,
           matVars, exportVars, alarmVars, mailVars>>
allVars == <<which, owned, pool>>

(* Images of one to three fragments, among them one of another device, an older one *)
(* and unsigned ones.                                                               *)
Build(l, v, d, b) == [level |-> l, version |-> v, dev |-> d, body |-> b]
SmallBuilds ==
  {Build(2, 1, "a", <<"x">>), Build(2, 2, "a", <<"y", "z", "w">>), Build(2, 2, "b", <<"y">>),
   Build(1, 2, "a", <<"w", "w">>), Build(0, 1, "a", <<"y">>)}
(* Three files to provision, one of them empty, and what may be in their place. *)
Certificates == <<<<1, 2, 3>>, <<>>, <<1, 2>>>>
OtherCertificates == {<<>>, <<1, 2, 4>>, <<1, 2, 3>>}
(* A device in the log of an earlier session. *)
SeenBefore == <<"v">>
(* Two resolutions. *)
Resolutions == <<1, 2>>

(* One write. *)
Buffer == INSTANCE DoubleBuffer WITH
  Threads <- {1, 2}, Fields <- {"a", "b"}, VersionMod <- 3, MaxWrites <- 1,
  NoValue <- [a |-> 9, b |-> 9],
  state <- p1, data_version <- p2, buffer <- p3, pc <- p4, op <- p5, st <- p6, ver <- p7,
  copy <- p8, left <- p9, wi <- p10, known <- p11, got <- p12, seen <- p13, quiet <- p14,
  writes <- p15

(* More messages than the channel holds. *)
Session == INSTANCE SessionChannel WITH
  Cap <- 2, MaxSessions <- 3, MaxSend <- 2,
  data <- p1, life <- p2, changed <- p3, spc <- p4, sstate <- p5, sent <- p6, rpc <- p7,
  activeId <- p8, shouldFinish <- p9, nextId <- p10, received <- p11, early <- p12, lost <- p13

(* Edges that an interrupt of another line may hide. *)
Pin == INSTANCE InputPin WITH
  MaxEdges <- 4, MaxOthers <- 2,
  latched <- p1, unmasked <- p2, ready <- p3, woken <- p4, pin <- p5, seen <- p6, ppc <- p7,
  edges <- p8, others <- p9

(* Two orders, one lost control message. *)
Status == INSTANCE DeviceStatus WITH
  Firmwares <- {"f", "g"}, Firmware0 <- "e", Commands <- {"Start", "Stop", "Reboot", "Format"},
  MaxOrders <- 2, MaxLostControls <- 1, OutCap <- 2,
  db <- p1, present <- p2, dstate <- p3, dver <- p4, report <- p5, hpc <- p6, dev <- p7,
  seen <- p8, out <- p9, overrun <- p10, orders <- p11, lostControls <- p12

-----------------------------------------------------------------------------
(* The variables behind the n that a component uses. *)
Idle13 == p14 = "none" /\ p15 = "none"
Idle12 == p13 = "none" /\ Idle13
Idle9 == p10 = "none" /\ p11 = "none" /\ p12 = "none" /\ Idle12
Idle0 == p1 = "none" /\ p2 = "none" /\ p3 = "none" /\ p4 = "none" /\ p5 = "none" /\ p6 = "none" /\ p7 = "none"
         /\ p8 = "none" /\ p9 = "none" /\ Idle9

Keep13 == UNCHANGED <<p14, p15>>
Keep12 == UNCHANGED <<p13>> /\ Keep13
Keep9 == UNCHANGED <<p10, p11, p12>> /\ Keep12

(* A boot loader that is not chosen has nothing to boot; a UART has one of the rates, a     *)
(* download one of the files, and a modem is of one kind and has one of the sets of files. *)
NoBoot ==
  /\ internal = "none" /\ ext = "none" /\ min_security = "none" /\ bpc = "none" /\ frag = "none"
  /\ val = "none" /\ faults = "none" /\ crashes = "none" /\ newest = "none"

ProgressInit ==
  /\ \/ which \in {"boot", "uart", "download", "start", "factory", "mqtt", "super", "provision", "views",
                 "export", "alarm", "mail"} /\ Idle0
     \/ which = "buffer" /\ Buffer!Init
     \/ which = "session" /\ Session!SessionInit /\ Idle13
     \/ which = "pin" /\ Pin!PinInit /\ Idle9
     \/ which = "status" /\ Status!StatusInit /\ Idle12
  /\ IF which = "boot" THEN BootInit ELSE NoBoot
  /\ UartInit /\ (which # "uart" => target = 1)
  /\ DownInit /\ (which # "download" => fileLen = 4)
  /\ StartInit /\ (which # "start" => variant = Eg915 /\ files = [f \in Files |-> <<>>])
  /\ MatInit /\ ExportInit /\ (which # "export" => samples = [c \in Channels |-> {}])
  /\ FactoryInit /\ MqttInit /\ SupInit /\ ProvInit /\ AlarmInit /\ MailInit

(* A step of one component leaves the variables of the others alone. *)
Boots(A) == which = "boot" /\ A /\ UNCHANGED <<which, pool, uartVars, downVars, startVars, factoryVars, mqttVars, supVars, provVars, matVars, exportVars, alarmVars, mailVars>>
Transfers(A) == which = "uart" /\ A /\ UNCHANGED <<which, pool, bootVars, downVars, startVars, factoryVars, mqttVars, supVars, provVars, matVars, exportVars, alarmVars, mailVars>>
Downloads(A) == which = "download" /\ A /\ UNCHANGED <<which, pool, bootVars, uartVars, startVars, factoryVars, mqttVars, supVars, provVars, matVars, exportVars, alarmVars, mailVars>>
Starts(A) == which = "start" /\ A /\ UNCHANGED <<which, pool, bootVars, uartVars, downVars, factoryVars, mqttVars, supVars, provVars, matVars, exportVars, alarmVars, mailVars>>
Tests(A) == which = "factory" /\ A /\ UNCHANGED <<which, pool, bootVars, uartVars, downVars, startVars, mqttVars, supVars, provVars, matVars, exportVars, alarmVars, mailVars>>
Talks(A) == which = "mqtt" /\ A /\ UNCHANGED <<which, pool, bootVars, uartVars, downVars, startVars, factoryVars, supVars, provVars, matVars, exportVars, alarmVars, mailVars>>
Supervises(A) == which = "super" /\ A /\ UNCHANGED <<which, pool, bootVars, uartVars, downVars, startVars, factoryVars, mqttVars, provVars, matVars, exportVars, alarmVars, mailVars>>
Provisions(A) == which = "provision" /\ A /\ UNCHANGED <<which, pool, bootVars, uartVars, downVars, startVars, factoryVars, mqttVars, supVars, matVars, exportVars, alarmVars, mailVars>>
Views(A) == which = "views" /\ A /\ UNCHANGED <<which, pool, bootVars, uartVars, downVars, startVars, factoryVars, mqttVars, supVars, provVars, exportVars, alarmVars, mailVars>>
Alarms(A) == which = "alarm" /\ A /\ UNCHANGED <<which, pool, bootVars, uartVars, downVars, startVars, factoryVars, mqttVars, supVars, provVars, matVars, exportVars, mailVars>>
Mails(A) == which = "mail" /\ A /\ UNCHANGED <<which, pool, bootVars, uartVars, downVars, startVars, factoryVars, mqttVars, supVars, provVars, matVars, exportVars, alarmVars>>
Exports(A) == which = "export" /\ A /\ UNCHANGED <<which, pool, bootVars, uartVars, downVars, startVars, factoryVars, mqttVars, supVars, provVars, matVars, alarmVars, mailVars>>

Shares(name, A) == which = name /\ A /\ UNCHANGED <<which, owned>>

ProgressNext ==
  \/ Boots(BootNext) \/ Transfers(UartNext) \/ Downloads(DownNext) \/ Starts(StartNext) \/ Tests(FactoryNext)
  \/ Talks(MqttNext) \/ Supervises(SupNext) \/ Provisions(ProvNext) \/ Views(MatNext) \/ Exports(ExportNext)
  \/ Alarms(AlarmNext) \/ Mails(MailNext)
  \/ Shares("buffer", Buffer!Next)
  \/ Shares("session", Session!SessionNext /\ Keep13)
  \/ Shares("pin", Pin!PinNext /\ Keep9)
  \/ Shares("status", Status!StatusNext /\ Keep12)

(* The variables of the component that was chosen. *)
chosen ==
  CASE which = "boot" -> bootVars [] which = "uart" -> uartVars [] which = "download" -> downVars
    [] which = "start" -> startVars [] which = "factory" -> factoryVars
    [] which = "mqtt" -> mqttVars [] which = "super" -> supVars [] which = "provision" -> provVars
    [] which = "views" -> matVars [] which = "export" -> exportVars
    [] which = "alarm" -> alarmVars [] which = "mail" -> mailVars
    [] OTHER -> pool

(* The fairness of the components, side by side: a behaviour has one component, so that a    *)
(* condition on a disjunction is the condition on the disjunct of that component.            *)
FirstFair ==
  /\ UNCHANGED which
  /\ \/ which = "boot" /\ BootStep
     \/ which = "uart" /\ HardwareStep
     \/ which = "factory" /\ Sequence
     \/ which = "mqtt" /\ EventLoop
     \/ which = "super" /\ SupStep
     \/ which = "provision" /\ WorkerStep
     \/ which = "buffer" /\ Buffer!ReadingStep(1)
     \/ which = "session" /\ Session!SessionSenderStep /\ Keep13
     \/ which = "download" /\ DownStep
     \/ which = "start" /\ StartStep
     \/ which = "pin" /\ Pin!PinIsr /\ Keep9
     \/ which = "views" /\ MatTask
     \/ which = "export" /\ ExportStep
     \/ which = "mail" /\ MailLoop
     \/ which = "alarm" /\ AlarmTask
     \/ which = "status" /\ Status!Handler /\ Keep12

SecondFair ==
  /\ UNCHANGED which
  /\ \/ which = "uart" /\ WriterStep
     \/ which = "factory" /\ Expire
     \/ which = "mqtt" /\ MqttTask
     \/ which = "super" /\ TaskWork
     \/ which = "provision" /\ HandleEvent
     \/ which = "buffer" /\ Buffer!ReadingStep(2)
     \/ which = "session" /\ Session!SessionReceiverStep /\ Keep13
     \/ which = "download" /\ LateReport
     \/ which = "pin" /\ Pin!Watch /\ Keep9
     \/ which = "views" /\ MatJob
     \/ which = "alarm" /\ SmsTask
     \/ which = "status" /\ Status!SendReport /\ Keep12

ThirdFair ==
  /\ UNCHANGED which
  /\ \/ which = "uart" /\ ReaderStep
     \/ which = "factory" /\ ResetBoard
     \/ which = "mqtt" /\ Consume
     \/ which = "provision" /\ Confirm
     \/ which = "views" /\ MatSend
     \/ which = "status" /\ Status!Obey /\ Keep12

FourthFair ==
  /\ UNCHANGED which
  /\ \/ which = "provision" /\ AnswerDialog
     \/ which = "views" /\ Tick

StronglyFair ==
  /\ UNCHANGED which
  /\ \/ which = "super" /\ SeeRequest
     \/ which = "start" /\ PowerOff
     \/ which = "mail" /\ MailTick

ProgressSpec ==
  /\ ProgressInit /\ [][ProgressNext]_allVars
  /\ WF_chosen(FirstFair) /\ WF_chosen(SecondFair) /\ WF_chosen(ThirdFair)
  /\ WF_chosen(FourthFair)
  /\ SF_chosen(StronglyFair)

-----------------------------------------------------------------------------
(* The parts of the device get on: it runs an application again and again, downloads, starts   *)
(* of the modem, reads, writes and sessions end, the level of a pin is followed, the factory   *)
(* test shows a verdict.                                                                       *)
DeviceGetsOn ==
  /\ []<>(/\ which = "boot" => RunsAgain
          /\ which = "buffer" => Buffer!ReadReturned(1)
          /\ which = "session" => Session!FinishReturned
          /\ which = "download" => DownloadEnded
          /\ which = "start" => ReachedUnlessApart
          /\ which = "uart" => WriteReturned /\ ReadReturned
          /\ which = "pin" => Pin!PinIsFollowed
          /\ which = "factory" => VerdictShown)
  /\ []<>(which = "buffer" => Buffer!ReadReturned(2))

(* The parts of the server get on: views catch up with the data, exports, mails, alarms and    *)
(* jobs come to their end, the topics are subscribed to again, and tasks restart or stop.      *)
ServerGetsOn ==
  []<>(/\ which = "views" => ViewsCatchUp
       /\ which = "export" => ExportEnded
       /\ which = "mail" => QueueMoved
       /\ which = "alarm" => AlarmsAreHandled
       /\ which = "mqtt" => Resubscribed /\ MqttStopped
       /\ which = "super" => ShutdownCompleted /\ RestartedUntilShutdown
       /\ which = "provision" => JobsEnded)

(* A device obeys: a command and a firmware that were ordered for it take effect, though       *)
(* control messages are lost and reports come late, unless a later order replaced them.        *)
OrdersAreObeyed ==
  /\ \A c \in {"Start", "Stop"} :
       (which = "status" /\ Status!CommandOrdered(c)) ~> (which = "status" => Status!CommandObeyed(c))
  /\ (which = "status" /\ Status!FirmwareOrdered("f"))
       ~> (which = "status" => Status!FirmwareObeyed("f"))

(* quectel.rs, "We can try again next power cycle": faults come to an end and a modem that is  *)
(* not reached is powered off and on again, so that it is reached again and again. (It is not: *)
(* the driver keeps the rate it has settled for over the power cycle, see the README.)         *)
ModemIsReached == []<>(which = "start" => Reached)
=============================================================================
