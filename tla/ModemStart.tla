----------------------------- MODULE ModemStart ------------------------------
(***************************************************************************)
(* drivers/quectel.rs, from power-on to an MQTT connection: the baud rate  *)
(* that driver and modem have to agree on, the credentials that are kept   *)
(* in the file system of the modem, connect and disconnect. Any command    *)
(* may fail, before or after the modem has carried it out. The modem is    *)
(* external. With ModemDownload, the safety of the driver.                 *)
(***************************************************************************)
EXTENDS ModemDownload, FiniteSets, SequencesExt

CONSTANTS
  Reference,        \* the credentials: a sequence of file contents
  OldFiles,         \* what each file may hold when the device is first started
  FileChunk,        \* MAX_FILE_CHUNK_LEN
  MaxStartFaults,   \* bound on commands that fail
  MaxRestarts       \* bound on restarts of the device

ASSUME StartAssumption ==
  /\ Reference \in Seq(Seq(Nat)) /\ Reference # << >> /\ OldFiles \subseteq Seq(Nat)
  /\ FileChunk \in Nat \ {0} /\ MaxStartFaults \in Nat /\ MaxRestarts \in Nat

VARIABLES
  variant,          \* TARGET_BAUDRATE and PERSIST_BAUDRATE of the modem
  baudrate_determined, uart, uartSuspended, first_boot, file_handle,
  enabled,          \* the supply pin: is_powered
  on, rate, stored, \* the modem: running, its baud rate, its rate after power-on
  files,            \* the modem: contents of the credential files
  open,             \* the modem: file that is open, and the position in it
  spc,              \* step of initialize or connect
  provisioning,     \* ensure_provisioned: file, offset
  sfaults, restarts

rates == <<baudrate_determined, uart, uartSuspended>>
modem == <<on, rate, stored>>
storage == <<files, open, file_handle>>
startVars == <<variant, rates, first_boot, enabled, modem, storage, spc, provisioning, sfaults, restarts>>

DEFAULT_BAUDRATE == "default"
Target == IF variant.target = "none" THEN DEFAULT_BAUDRATE ELSE variant.target
NoFile == [file |-> 0, pos |-> 0]
Files == DOMAIN Reference

MiniPcie == [target |-> "fast", persist |-> TRUE]
Eg915 == [target |-> "none", persist |-> FALSE]

(* Quectel::new *)
InitialRate(v) == IF v.target = "none" THEN DEFAULT_BAUDRATE ELSE "none"

StartInit ==
  /\ variant \in {MiniPcie, Eg915}
  /\ baudrate_determined = InitialRate(variant) /\ uart = DEFAULT_BAUDRATE
  /\ uartSuspended = FALSE /\ first_boot = TRUE /\ file_handle = 0
  /\ enabled = FALSE /\ on = FALSE /\ rate = DEFAULT_BAUDRATE
  /\ stored \in {DEFAULT_BAUDRATE, Target}
  /\ files \in [Files -> OldFiles] /\ open = NoFile
  /\ spc = "idle" /\ provisioning = NoFile
  /\ sfaults = 0 /\ restarts = 0

(* Whether a command gets an answer: a fault is not needed where the rates differ. *)
Heard == on /\ ~uartSuspended /\ uart = rate
Answered(ok) ==
  /\ ok => Heard
  /\ (Heard /\ ~ok) => sfaults < MaxStartFaults
  /\ sfaults' = IF Heard /\ ~ok THEN sfaults + 1 ELSE sfaults

(* Mutant: the UART is resumed only if the modem is found running. *)
TurnOnSuspended ==
  /\ spc = "idle" /\ spc' = "rate"
  /\ \/ enabled /\ uartSuspended' = FALSE /\ UNCHANGED <<baudrate_determined, uart, enabled, modem>>
     \/ /\ ~enabled /\ enabled' = TRUE /\ on' = TRUE
        /\ rate' = IF on THEN rate ELSE stored
        /\ baudrate_determined' = IF variant.persist THEN baudrate_determined ELSE "none"
        /\ uart' = IF variant.persist THEN uart ELSE DEFAULT_BAUDRATE
        /\ UNCHANGED <<stored, uartSuspended>>
  /\ UNCHANGED <<variant, first_boot, storage, provisioning, sfaults, restarts>>

(* turn_on, variant.rs power_on *)
TurnOn ==
  /\ spc = "idle" /\ spc' = "rate"
  /\ uartSuspended' = FALSE
  /\ \/ enabled /\ UNCHANGED <<baudrate_determined, uart, enabled, modem>>
     \/ /\ ~enabled /\ enabled' = TRUE /\ on' = TRUE
        /\ rate' = IF on THEN rate ELSE stored
        /\ baudrate_determined' = IF variant.persist THEN baudrate_determined ELSE "none"
        /\ uart' = IF variant.persist THEN uart ELSE DEFAULT_BAUDRATE
        /\ UNCHANGED stored
  /\ UNCHANGED <<variant, first_boot, storage, provisioning, sfaults, restarts>>

(* initialize: set_baud_rate, then the commands that have to work at that rate. *)
SetRate ==
  /\ spc = "rate"
  /\ uart' = IF baudrate_determined = "none" THEN Target ELSE baudrate_determined
  /\ spc' = "first"
  /\ UNCHANGED <<variant, baudrate_determined, uartSuspended, first_boot, enabled, modem, storage,
                 provisioning, sfaults, restarts>>

(* The AT at the rate that is known, or the first AT of negotiate_baudrate. *)
FirstAT ==
  /\ spc = "first"
  /\ \E ok \in BOOLEAN :
       /\ Answered(ok)
       /\ \/ /\ ok /\ spc' = "echo" /\ UNCHANGED uart
             /\ baudrate_determined' = IF baudrate_determined = "none" THEN Target
                                       ELSE baudrate_determined
          \/ /\ ~ok /\ baudrate_determined # "none" /\ spc' = "idle"
             /\ UNCHANGED <<baudrate_determined, uart>>
          \/ /\ ~ok /\ baudrate_determined = "none" /\ spc' = "second"
             /\ uart' = DEFAULT_BAUDRATE /\ UNCHANGED baudrate_determined
  /\ UNCHANGED <<variant, uartSuspended, first_boot, enabled, modem, storage, provisioning, restarts>>

(* initialize, when negotiate_baudrate returns an error *)
NegotiationFailed ==
  /\ baudrate_determined' = DEFAULT_BAUDRATE /\ uart' = DEFAULT_BAUDRATE
  /\ spc' = "idle"

SecondAT ==
  /\ spc = "second"
  /\ \E ok \in BOOLEAN :
       /\ Answered(ok)
       /\ \/ ok /\ spc' = "ipr" /\ UNCHANGED <<baudrate_determined, uart>>
          \/ ~ok /\ NegotiationFailed
  /\ UNCHANGED <<variant, uartSuspended, first_boot, enabled, modem, storage, provisioning, restarts>>

(* AT+IPR: the answer may be lost after the modem has changed its rate. *)
SendBaudRate ==
  /\ spc = "ipr" /\ spc' = "check"
  /\ \E ok, done \in BOOLEAN :
       /\ Answered(ok) /\ (ok => done)
       /\ rate' = IF done THEN Target ELSE rate
       /\ uart' = IF ok THEN Target ELSE uart
  /\ UNCHANGED <<variant, baudrate_determined, uartSuspended, first_boot, enabled, on, stored, storage,
                 provisioning, restarts>>

(* Mutant: the new rate is not tried out. *)
CheckRateSkipped ==
  /\ spc = "check" /\ spc' = "store"
  /\ UNCHANGED <<variant, rates, first_boot, enabled, modem, storage, provisioning, sfaults,
                 restarts>>

(* AT, then the model. *)
CheckRate ==
  /\ spc = "check"
  /\ \E ok \in BOOLEAN :
       /\ Answered(ok)
       /\ \/ ok /\ spc' = "store" /\ UNCHANGED <<baudrate_determined, uart>>
          \/ ~ok /\ NegotiationFailed
  /\ UNCHANGED <<variant, uartSuspended, first_boot, enabled, modem, storage, provisioning, restarts>>

(* AT&W: failure is ignored. *)
StoreBaudrate ==
  /\ spc = "store" /\ spc' = "echo"
  /\ baudrate_determined' = Target
  /\ \/ ~variant.persist /\ UNCHANGED <<stored, sfaults>>
     \/ /\ variant.persist
        /\ \E ok, done \in BOOLEAN :
             /\ Answered(ok) /\ (ok => done)
             /\ stored' = IF done THEN rate ELSE stored
  /\ UNCHANGED <<variant, uart, uartSuspended, first_boot, enabled, on, rate, storage, provisioning, restarts>>

(* ATE and CPIN with their retries; try_autodetect_apn falls back when it fails. *)
Echo ==
  /\ spc = "echo"
  /\ \E ok \in BOOLEAN :
       /\ Answered(ok)
       /\ spc' = IF ~ok THEN "idle" ELSE IF first_boot THEN "open" ELSE "ready"
       /\ provisioning' = IF ok /\ first_boot THEN [file |-> 1, pos |-> 0] ELSE NoFile
  /\ UNCHANGED <<variant, rates, first_boot, enabled, modem, storage, restarts>>

(* An error of ensure_provisioned ends it. It is ignored, unless it is a timeout and the *)
(* model cannot be read either.                                                          *)
ProvisioningFailed ==
  /\ spc' \in {"ready", "idle"}
  /\ provisioning' = NoFile /\ UNCHANGED first_boot

NextFile ==
  IF provisioning.file = Len(Reference)
  THEN spc' = "ready" /\ provisioning' = NoFile /\ first_boot' = FALSE
  ELSE /\ spc' = "open" /\ provisioning' = [file |-> provisioning.file + 1, pos |-> 0]
       /\ UNCHANGED first_boot

(* read_file_chunk: open and seek unless a handle is kept. An empty reference is skipped. *)
OpenFile ==
  /\ spc = "open"
  /\ \/ /\ Reference[provisioning.file] = << >> /\ NextFile
        /\ UNCHANGED <<file_handle, open, sfaults>>
     \/ /\ Reference[provisioning.file] # << >> /\ file_handle # 0
        /\ spc' = "compare" /\ UNCHANGED <<file_handle, open, provisioning, first_boot, sfaults>>
     \/ /\ Reference[provisioning.file] # << >> /\ file_handle = 0
        /\ \E opened, sought \in BOOLEAN :
             /\ sought => opened
             /\ Answered(sought)
             /\ file_handle' = IF opened THEN 1 ELSE 0
             /\ open' = IF opened THEN [file |-> provisioning.file, pos |-> 0] ELSE open
             /\ IF sought THEN spc' = "compare" /\ UNCHANGED <<provisioning, first_boot>>
                ELSE ProvisioningFailed
  /\ UNCHANGED <<variant, rates, enabled, modem, files, restarts>>

ChunkRead ==
  LET content == files[open.file]
  IN  SubSeq(content, open.pos + 1,
             IF open.pos + FileChunk < Len(content) THEN open.pos + FileChunk ELSE Len(content))

(* Mutant: a file of the right beginning is not read to its end. *)
CompareFirst(part, ok) ==
  IF ok /\ IsPrefix(part, Reference[provisioning.file]) THEN "match" ELSE "update"

(* ensure_provisioned, one round of its loop. Reading at the end of a file fails. *)
Compare(part, ok) ==
  LET end == provisioning.pos + Len(part)
      reference == Reference[provisioning.file]
  IN  IF ~ok \/ part = << >> \/ end > Len(reference)
         \/ part # SubSeq(reference, provisioning.pos + 1, end)
      THEN "update" ELSE IF end = Len(reference) THEN "match" ELSE "more"

(* close_file, when the loop has ended; its error is ignored. *)
CloseFile == file_handle' = 0 /\ open' = NoFile

CompareFile ==
  /\ spc = "compare"
  /\ \E ok \in BOOLEAN :
       /\ IF open = NoFile THEN ~ok /\ UNCHANGED sfaults ELSE Answered(ok)
       /\ \E part \in {IF ok THEN ChunkRead ELSE << >>} :
            CASE Compare(part, ok) = "more" ->
                   /\ provisioning' = [provisioning EXCEPT !.pos = @ + Len(part)]
                   /\ open' = [open EXCEPT !.pos = @ + Len(part)]
                   /\ UNCHANGED <<spc, file_handle, first_boot>>
              [] Compare(part, ok) = "match" -> CloseFile /\ NextFile
              [] Compare(part, ok) = "update" ->
                   /\ CloseFile /\ spc' = "delete" /\ UNCHANGED <<provisioning, first_boot>>
  /\ UNCHANGED <<variant, rates, enabled, modem, files, restarts>>

(* delete_file: its error is ignored. *)
DeleteFile ==
  /\ spc = "delete" /\ spc' = "upload"
  /\ \E ok, done \in BOOLEAN :
       /\ Answered(ok) /\ (ok => done)
       /\ files' = IF done THEN [files EXCEPT ![provisioning.file] = << >>] ELSE files
  /\ UNCHANGED <<variant, rates, first_boot, enabled, modem, open, file_handle, provisioning, restarts>>

(* Mutant: what the modem has stored is not looked at. *)
UploadUnchecked ==
  /\ spc = "upload"
  /\ \E ok \in BOOLEAN :
       /\ Answered(ok)
       /\ \E n \in 0..Len(Reference[provisioning.file]) :
            files' = [files EXCEPT ![provisioning.file] = SubSeq(Reference[provisioning.file], 1, n)]
       /\ NextFile
  /\ UNCHANGED <<variant, rates, enabled, modem, open, file_handle, restarts>>

(* upload_file: refused by the modem if the file exists; a broken transfer leaves a part. *)
UploadFile ==
  /\ spc = "upload"
  /\ \E reference \in {Reference[provisioning.file]}, ok \in BOOLEAN :
       /\ ok => files[provisioning.file] = << >>
       /\ IF files[provisioning.file] = << >> THEN Answered(ok) ELSE UNCHANGED sfaults
       /\ IF ok THEN files' = [files EXCEPT ![provisioning.file] = reference] /\ NextFile
          ELSE /\ ProvisioningFailed
               /\ \E n \in 0..Len(reference) :
                    /\ files' = IF files[provisioning.file] = << >>
                                THEN [files EXCEPT ![provisioning.file] = SubSeq(reference, 1, n)]
                                ELSE files
  /\ UNCHANGED <<variant, rates, enabled, modem, open, file_handle, restarts>>

(* connect and connect_mqtt: registration is awaited and the will is optional, every *)
(* other command has to work. reconnect is disconnect_mqtt and connect_mqtt.         *)
Connect ==
  /\ spc \in {"ready", "connected"}
  /\ \E ok \in BOOLEAN : Answered(ok) /\ spc' = IF ok THEN "connected" ELSE "idle"
  /\ UNCHANGED <<variant, rates, first_boot, enabled, modem, storage, provisioning, restarts>>

(* disconnect and deinitialize: whatever fails, the modem is powered off. *)
Disconnect ==
  /\ spc \in {"idle", "ready", "connected"} /\ enabled
  /\ spc' = "idle" /\ uartSuspended' = TRUE
  /\ enabled' = FALSE /\ on' = FALSE /\ open' = NoFile
  /\ UNCHANGED <<variant, baudrate_determined, uart, first_boot, rate, stored, files, file_handle,
                 provisioning, sfaults, restarts>>

(* The device restarts, at any point; the modem may keep running. *)
Restart ==
  /\ restarts < MaxRestarts /\ restarts' = restarts + 1
  /\ baudrate_determined' = InitialRate(variant) /\ uart' = DEFAULT_BAUDRATE
  /\ uartSuspended' = FALSE /\ first_boot' = TRUE /\ file_handle' = 0 /\ enabled' = FALSE
  /\ on' \in {on, FALSE} /\ open' = IF on' THEN open ELSE NoFile
  /\ spc' = "idle" /\ provisioning' = NoFile
  /\ UNCHANGED <<variant, rate, stored, files, sfaults>>

StartStep ==
  \/ TurnOn \/ SetRate \/ FirstAT \/ SecondAT \/ SendBaudRate \/ CheckRate \/ StoreBaudrate
  \/ Echo \/ OpenFile \/ CompareFile \/ DeleteFile \/ UploadFile
StartNext == StartStep \/ Connect \/ Disconnect \/ Restart

PowerOff == spc = "idle" /\ Disconnect

StartFairness == WF_startVars(StartStep) /\ SF_startVars(PowerOff)
StartSpec == StartInit /\ [][StartNext]_startVars /\ StartFairness

-----------------------------------------------------------------------------

(* initialize goes on after the negotiation, and returns Ok, only with driver and modem *)
(* at the same rate and the UART running, whichever command of the negotiation was lost *)
(* before or after it took effect, and however often power and device were cycled.      *)
RatesAgree == spc \in {"echo", "ready", "connected"} => on /\ uart = rate /\ ~uartSuspended

(* ensure_provisioned_all: once first_boot is cleared, and the check of the files is   *)
(* skipped, every credential file of the modem starts with the reference, whatever     *)
(* earlier attempts left of it and through whichever handle it was compared. (A longer *)
(* file with the same beginning passes, when the reference is a multiple of a chunk.)  *)
ProvisionedOnce == ~first_boot => \A f \in Files : IsPrefix(Reference[f], files[f])

(* quectel.rs: a download delivers the file in order, in full chunks and up to its end; *)
(* driver and modem talk at one rate, and every file is provisioned once.               *)
ModemIsSafe == FileInOrder /\ ChunksFilled /\ EndIsTheEnd /\ RatesAgree /\ ProvisionedOnce

(* "We can try again next power cycle": faults come to an end and a modem that is not   *)
(* reached is powered off and on again, so it is reached again and again.              *)
Reached == spc \in {"ready", "connected"}

(* The driver has settled for a rate that the modem does not have after power-on. *)
SettledApart == baudrate_determined \notin {"none", stored}

(* Again and again (liveness): initialize, retried with power cycles, reaches the modem once *)
(* faults have ended, except where the driver has settled for another rate than the modem.   *)
ReachedUnlessApart == SettledApart \/ spc \in {"ready", "connected"}

=============================================================================
