----------------------------- MODULE DeviceStatus ----------------------------
(***************************************************************************)
(* sensor-link-server-core, status_handler.rs with command_handler.rs,     *)
(* firmware_handler.rs and the device and firmware stores:                 *)
(* what the server does with a status message of a device. The handler     *)
(* works on a copy of the device that was read before; an operator changes *)
(* the stored device at any moment. Control messages may be lost: the next *)
(* status makes the server repeat them. The device, and the application    *)
(* that stores its version, are external.                                  *)
(***************************************************************************)
EXTENDS Integers, Sequences, FiniteSets

CONSTANTS
  Firmwares,                \* ids; a firmware's version is its id
  Firmware0,                \* the one the device runs at first
  Commands,                 \* commands the operator gives: subset of {"Start", "Stop", "Reboot", "Format"}
  OutCap, MaxOrders, MaxLostControls    \* bounds

None == "None"

VARIABLES
  db,           \* the stored device: [command, marked, version, status, since]
  present,      \* the stored firmwares
  dstate, dver, \* the device: "active" | "idle" | "inactive", and what it runs
  report,       \* a status message on its way, or None
  hpc,          \* the handler: "idle" | "command" | "status" | "firmware"
  dev, seen,    \* its copy of the device, and the status it handles
  out,          \* control messages to the device, in order
  overrun,      \* history: the operator acted while a report or an order was under way
  orders, lostControls

statusVars == <<db, present, dstate, dver, report, hpc, dev, seen, out,
                overrun, orders, lostControls>>

StatusInit ==
  /\ db = [command |-> None, marked |-> None, version |-> Firmware0, status |-> "inactive", since |-> 0]
  /\ present = Firmwares
  /\ dstate = "inactive" /\ dver = Firmware0 /\ report = None
  /\ hpc = "idle" /\ dev = db /\ seen = "inactive" /\ out = <<>> /\ overrun = FALSE
  /\ orders = 0 /\ lostControls = 0

-----------------------------------------------------------------------------
(* The operator *)

Order(field, value) ==
  /\ orders < MaxOrders /\ orders' = orders + 1
  /\ db' = [db EXCEPT ![field] = value] /\ overrun' = (overrun \/ hpc # "idle" \/ report # None \/ out # <<>>)
  /\ UNCHANGED <<present, dstate, dver, report, hpc, dev, seen, out,
                 lostControls>>

RemoveFirmware(f) ==
  /\ f \in present /\ orders < MaxOrders /\ orders' = orders + 1 /\ present' = present \ {f}
  /\ UNCHANGED <<db, dstate, dver, report, hpc, dev, seen, out, overrun, lostControls>>

-----------------------------------------------------------------------------
(* The device *)

SendReport ==
  /\ report = None /\ report' = dstate
  /\ UNCHANGED <<db, present, dstate, dver, hpc, dev, seen, out, overrun, orders,
                 lostControls>>

Obey ==
  /\ out # <<>> /\ out' = Tail(out)
  /\ LET m == Head(out) IN
       /\ dstate' = CASE m = "Start" -> (IF dstate = "inactive" THEN "active" ELSE dstate)
                      [] m = "Stop" -> "inactive"
                      [] OTHER -> dstate
       /\ dver' = IF m \in Firmwares THEN m ELSE dver
  /\ UNCHANGED <<db, present, report, hpc, dev, seen, overrun, orders, lostControls>>

Lose ==
  /\ out # <<>> /\ lostControls < MaxLostControls /\ lostControls' = lostControls + 1
  /\ out' = Tail(out)
  /\ UNCHANGED <<db, present, dstate, dver, report, hpc, dev, seen, overrun, orders>>

(* An active device finds nothing to measure, or something again. *)
ChangeState ==
  /\ dstate # "inactive" /\ dstate' = IF dstate = "active" THEN "idle" ELSE "active"
  /\ UNCHANGED <<db, present, dver, report, hpc, dev, seen, out, overrun, orders,
                 lostControls>>

-----------------------------------------------------------------------------
(* handle_status *)

HandlerRest == UNCHANGED <<present, dstate, dver, overrun, orders,
                           lostControls>>

(* device_by_id, the stored version brought up to date, and update_contact_time *)
ReadDevice ==
  /\ hpc = "idle" /\ report # None /\ Len(out) + 2 <= OutCap
  /\ db' = [db EXCEPT !.version = dver] /\ dev' = [db EXCEPT !.version = dver]
  /\ seen' = report /\ report' = None /\ hpc' = "command" /\ UNCHANGED out /\ HandlerRest

(* Mutant: a command counts as done whatever the status says. *)
CommandDoneOnceSent(c, status) == c \in {"Start", "Stop"}

(* check_send_command: a command that the status shows done is cleared, not sent. *)
CommandDone(c, status) ==
  \/ c = "Start" /\ status \in {"active", "idle"}
  \/ c = "Stop" /\ status = "inactive"

(* A command the protocol does not know ends the handling with an error. *)
HandleCommand ==
  /\ hpc = "command"
  /\ LET c == dev.command IN
       /\ db' = IF CommandDone(c, seen) THEN [db EXCEPT !.command = None] ELSE db
       /\ out' = IF c \in {"Start", "Stop", "Reboot"} /\ (~CommandDone(c, seen) \/ c = "Reboot")
                 THEN Append(out, c) ELSE out
       /\ hpc' = IF c = "Format" THEN "idle" ELSE "status"
  /\ UNCHANGED <<dev, seen, report>> /\ HandlerRest

(* update_status: the time of the last change is kept by comparing with the copy. *)
UpdateStatus ==
  /\ hpc = "status"
  /\ db' = [db EXCEPT !.status = seen, !.since = IF seen # dev.status THEN 1 - @ ELSE @]
  /\ hpc' = "firmware"
  /\ UNCHANGED <<dev, seen, report, out>> /\ HandlerRest

(* Mutant: an announced update counts as done. *)
UpdateDoneAnnounced(f) == TRUE

(* check_and_announce_update: the mark is removed once the device reports that version. *)
UpdateDone(f) == dev.version = f

CheckFirmware ==
  /\ hpc = "firmware"
  /\ LET f == dev.marked
         known == f # None /\ f \in present
     IN  /\ db' = IF known /\ UpdateDone(f) THEN [db EXCEPT !.marked = None] ELSE db
         /\ out' = IF known /\ dev.version # f THEN Append(out, f) ELSE out
  /\ hpc' = "idle" /\ UNCHANGED <<dev, seen, report>> /\ HandlerRest

Handler == ReadDevice \/ HandleCommand \/ UpdateStatus \/ CheckFirmware

StatusNext ==
  \/ Handler \/ SendReport \/ ChangeState \/ Obey \/ Lose
  \/ \E c \in Commands : Order("command", c)
  \/ \E f \in Firmwares : \/ (f \in present /\ Order("marked", f))
                          \/ RemoveFirmware(f)

(* The device reports again and again, the handler runs, control messages are not held for ever. *)
StatusFairness ==
  /\ WF_statusVars(Handler) /\ WF_statusVars(SendReport) /\ WF_statusVars(Obey)

StatusSpec == StatusInit /\ [][StatusNext]_statusVars /\ StatusFairness

-----------------------------------------------------------------------------

(* check_send_command: a command is repeated until the device has carried it out, though     *)
(* control messages are lost. An operator who orders while an earlier report or order is     *)
(* under way is excepted: that report clears the new order as well.                          *)
CommandOrdered(c) == db.command = c
CommandObeyed(c) ==
  (c = "Start" <=> dstate # "inactive") \/ db.command \notin {c, None} \/ overrun

(* check_and_announce_update: a device that is marked for a firmware gets there, as long as  *)
(* the firmware is kept, the mark is not changed and no unsupported command is pending.      *)
FirmwareOrdered(f) == db.marked = f
FirmwareObeyed(f) ==
  \/ dver = f \/ f \notin present \/ db.marked \notin {f, None} \/ overrun
  \/ db.command = "Format"

=============================================================================
