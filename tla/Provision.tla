------------------------------ MODULE Provision ------------------------------
(***************************************************************************)
(* sensor-link-provision: the session screen (app.rs) and the worker       *)
(* thread that owns the hardware (worker.rs), which exchange commands and  *)
(* events over two channels, with the issuance log (log_csv.rs) and the    *)
(* counters. One device after another gets a certificate, firmware and a   *)
(* configuration, is logged and then verified. Signing, the probe and the  *)
(* boot log are external: every step may fail.                             *)
(***************************************************************************)
EXTENDS Integers, Sequences, FiniteSets

CONSTANTS
  Uids,             \* devices the operator scans
  MaxJobs, MaxStepFaults,   \* bounds
  LoggedBefore      \* the devices in the rows of the log of an earlier session

ASSUME ProvAssumption ==
  /\ Uids # {} /\ LoggedBefore \in Seq(Uids) /\ MaxJobs \in Nat /\ MaxStepFaults \in Nat

CertStep == 0
ConfigStep == 5
STEP_LOG == 6
STEP_RTT == 7
NoCert == 0

VARIABLES
  phase,        \* the screen: "idle" | "confirm" | "running" | "failed"
  job,          \* the scanned device: [uid, reprovision]
  cmds, evs,    \* the channels
  wpc,          \* the worker: "idle" | "run" | "ask" | "verify"
  step,         \* the step it is at
  work,         \* the job it works on
  cert,         \* the certificate it issued; certificates are numbered
  issuedCount,
  device,       \* the certificate on every device
  log,          \* rows [uid, cert]
  counts,       \* [ok, unverified, failed]
  last,         \* history: outcome of the last attempt of every device, as the worker saw it
  fresh,        \* history: devices with a finished attempt that was not a re-provision
  ever,         \* history: certificates that were on a device
  stepFaults

provVars == <<phase, job, cmds, evs, wpc, step, work, cert, issuedCount, device, log, counts, last,
              fresh, ever, stepFaults>>
screen == <<phase, job, counts, fresh>>
worker == <<wpc, step, work, cert, issuedCount, device, log, last, ever, stepFaults>>

ProvInit ==
  /\ phase = "idle" /\ job = [uid |-> CHOOSE u \in Uids : TRUE, reprovision |-> FALSE]
  /\ cmds = <<>> /\ evs = <<>> /\ wpc = "idle" /\ step = 0 /\ work = job /\ cert = NoCert
  /\ issuedCount = 0 /\ device = [u \in Uids |-> NoCert]
  /\ log = [i \in 1..Len(LoggedBefore) |-> [uid |-> LoggedBefore[i], cert |-> NoCert]]
  /\ counts = [ok |-> 0, unverified |-> {}, failed |-> {}]
  /\ last = [u \in Uids |-> "none"] /\ fresh = {} /\ ever = {NoCert} /\ stepFaults = 0

-----------------------------------------------------------------------------
(* The screen *)

(* log_csv::contains_uid *)
ContainsUid(uid) == \E i \in 1..Len(log) : log[i].uid = uid

(* prepare_start: the warnings, one of them that the device is in the log *)
PrepareStart(uid) ==
  /\ phase = "idle" /\ phase' = "confirm" /\ issuedCount < MaxJobs
  /\ job' = [uid |-> uid, reprovision |-> ContainsUid(uid)]
  /\ UNCHANGED <<cmds, evs, counts, fresh>> /\ UNCHANGED worker

(* dialogs: without a warning the job is sent at once; the operator decides on the others. *)
Confirm ==
  /\ phase = "confirm" /\ phase' = "running"
  /\ cmds' = Append(cmds, [cmd |-> "Provision", job |-> job])
  /\ UNCHANGED <<job, evs, counts, fresh>> /\ UNCHANGED worker

Cancel ==
  /\ phase = "confirm" /\ phase' = "idle"
  /\ UNCHANGED <<job, cmds, evs, counts, fresh>> /\ UNCHANGED worker

(* Mutant: the dialog stays until the worker reports something. *)
AnswerStays(choice) ==
  /\ phase = "failed" /\ Len(cmds) < 2 /\ cmds' = Append(cmds, [cmd |-> choice, job |-> job])
  /\ UNCHANGED <<phase, job, evs, counts, fresh>> /\ UNCHANGED worker

Answer(choice) ==
  /\ phase = "failed" /\ phase' = "running"
  /\ cmds' = Append(cmds, [cmd |-> choice, job |-> job])
  /\ UNCHANGED <<job, evs, counts, fresh>> /\ UNCHANGED worker

(* Mutant: a device that failed before is not cleared. *)
RecordedTwice(uid, outcome, reprovision) ==
  CASE outcome = "Ok" -> [counts EXCEPT !.ok = @ + 1]
    [] outcome = "Unverified" ->
         [counts EXCEPT !.unverified = IF ~reprovision THEN @ \cup {uid} ELSE @]
    [] OTHER -> [counts EXCEPT !.failed = IF reprovision THEN @ ELSE @ \cup {uid}]

(* Counts::record *)
Recorded(uid, outcome, reprovision) ==
  CASE outcome = "Ok" ->
         [ok |-> IF ~reprovision \/ uid \in counts.unverified \cup counts.failed
                 THEN counts.ok + 1 ELSE counts.ok,
          unverified |-> counts.unverified \ {uid}, failed |-> counts.failed \ {uid}]
    [] outcome = "Unverified" ->
         [counts EXCEPT !.failed = @ \ {uid},
                        !.unverified = IF uid \in counts.failed \/ ~reprovision THEN @ \cup {uid} ELSE @]
    [] OTHER -> [counts EXCEPT !.failed = IF reprovision THEN @ ELSE @ \cup {uid}]

(* Mutant: the last step before the checks has no dialog. *)
AsksOffByOne(index) == index < STEP_LOG

Asks(index) == index < STEP_RTT

(* handle_events: a failed step opens the dialog, unless it is one of the checks. *)
HandleEvent ==
  /\ evs # <<>> /\ evs' = Tail(evs)
  /\ LET e == Head(evs) IN
       CASE e.ev = "Failed" ->
              /\ phase' = IF Asks(e.step) THEN "failed" ELSE phase
              /\ UNCHANGED <<counts, fresh>>
         [] e.ev = "Finished" ->
              /\ phase' = "idle"
              /\ counts' = Recorded(e.job.uid, e.outcome, e.job.reprovision)
              /\ fresh' = IF e.job.reprovision THEN fresh ELSE fresh \cup {e.job.uid}
  /\ UNCHANGED <<job, cmds>> /\ UNCHANGED worker

-----------------------------------------------------------------------------
(* The worker *)

(* run: a Retry or Skip nobody asked for is ignored. *)
TakeCommand ==
  /\ wpc = "idle" /\ cmds # <<>> /\ cmds' = Tail(cmds)
  /\ IF Head(cmds).cmd = "Provision"
     THEN wpc' = "run" /\ step' = 0 /\ work' = Head(cmds).job
     ELSE UNCHANGED <<wpc, step, work>>
  /\ UNCHANGED <<cert, issuedCount, device, log, last, ever, stepFaults, evs>> /\ UNCHANGED screen

Put(uid, c) == device' = [device EXCEPT ![uid] = c] /\ ever' = ever \cup {c}

(* Mutant: the row is written together with the certificate. *)
StepDoneLogFirst ==
  /\ IF step = CertStep
     THEN cert' = issuedCount + 1 /\ issuedCount' = issuedCount + 1
          /\ log' = Append(log, [uid |-> work.uid, cert |-> issuedCount + 1])
     ELSE UNCHANGED <<cert, issuedCount, log>>
  /\ IF step = ConfigStep THEN Put(work.uid, cert) ELSE UNCHANGED <<device, ever>>

(* What a step that succeeds changes: the certificate, the configuration, the log. *)
StepDone ==
  /\ IF step = CertStep
     THEN cert' = issuedCount + 1 /\ issuedCount' = issuedCount + 1
     ELSE UNCHANGED <<cert, issuedCount>>
  /\ IF step = ConfigStep THEN Put(work.uid, cert) ELSE UNCHANGED <<device, ever>>
  /\ log' = IF step = STEP_LOG THEN Append(log, [uid |-> work.uid, cert |-> cert]) ELSE log

RunStep ==
  /\ wpc = "run" /\ StepDone
  /\ IF step = STEP_LOG THEN wpc' = "verify" /\ step' = STEP_RTT
                        ELSE step' = step + 1 /\ UNCHANGED wpc
  /\ UNCHANGED <<work, last, stepFaults, cmds, evs>> /\ UNCHANGED screen

(* A step fails and the operator is asked; a configuration that fails is erased first. *)
FailStep ==
  /\ wpc = "run" /\ stepFaults < MaxStepFaults /\ stepFaults' = stepFaults + 1
  /\ wpc' = "ask" /\ evs' = Append(evs, [ev |-> "Failed", step |-> step, job |-> work, outcome |-> ""])
  /\ device' = IF step = ConfigStep THEN [device EXCEPT ![work.uid] = NoCert] ELSE device
  /\ UNCHANGED <<step, work, cert, issuedCount, log, last, ever, cmds>> /\ UNCHANGED screen

Finish(outcome) ==
  /\ evs' = Append(evs, [ev |-> "Finished", step |-> step, job |-> work, outcome |-> outcome])
  /\ last' = [last EXCEPT ![work.uid] = outcome] /\ wpc' = "idle"

(* Mutant: a skipped device has been provisioned after all. *)
SkippedOutcomeUnverified == "Unverified"

SkippedOutcome == "Fail"

(* step: the answer to the question *)
TakeAnswer ==
  /\ wpc = "ask" /\ cmds # <<>> /\ cmds' = Tail(cmds)
  /\ CASE Head(cmds).cmd = "Retry" -> wpc' = "run" /\ UNCHANGED <<evs, last>>
       [] Head(cmds).cmd = "Skip" -> Finish(SkippedOutcome)
       [] OTHER -> UNCHANGED <<wpc, evs, last>>
  /\ UNCHANGED <<step, work, cert, issuedCount, device, log, ever, stepFaults>> /\ UNCHANGED screen

(* verify: the boot check, and the MQTT check if it is on; a failed check is only reported. *)
Verify(passed, check) ==
  /\ wpc = "verify" /\ wpc' = "idle"
  /\ LET outcome == IF passed THEN "Ok" ELSE "Unverified"
         report == [ev |-> "Failed", step |-> check, job |-> work, outcome |-> ""]
         done == [ev |-> "Finished", step |-> step, job |-> work, outcome |-> outcome]
     IN  /\ evs' = Append(IF passed THEN evs ELSE Append(evs, report), done)
         /\ last' = [last EXCEPT ![work.uid] = outcome]
  /\ UNCHANGED <<step, work, cert, issuedCount, device, log, ever, stepFaults, cmds>> /\ UNCHANGED screen

WorkerStep == TakeCommand \/ RunStep \/ TakeAnswer \/ \E p \in BOOLEAN, c \in {STEP_RTT, STEP_RTT + 1} : Verify(p, c)

AnswerDialog == \E c \in {"Retry", "Skip"} : Answer(c)

ProvNext ==
  \/ WorkerStep \/ FailStep \/ HandleEvent \/ Confirm \/ Cancel
  \/ \E u \in Uids : PrepareStart(u)
  \/ AnswerDialog

(* The worker and the screen run; the operator answers a dialog. *)
ProvFairness ==
  /\ WF_provVars(WorkerStep) /\ WF_provVars(HandleEvent)
  /\ WF_provVars(Confirm) /\ WF_provVars(AnswerDialog)

ProvSpec == ProvInit /\ [][ProvNext]_provVars /\ ProvFairness

-----------------------------------------------------------------------------

LastRow(uid) == log[CHOOSE i \in 1..Len(log) : log[i].uid = uid
                      /\ \A j \in (i + 1)..Len(log) : log[j].uid # uid]

(* Outcome: a device that is reported as provisioned, verified or not, carries the           *)
(* certificate of its last row in the log, whatever was retried, skipped or done again.      *)
ProvisionedIsLogged ==
  wpc = "idle" => \A u \in Uids :
    last[u] \in {"Ok", "Unverified"} =>
      ContainsUid(u) /\ device[u] # NoCert /\ LastRow(u).cert = device[u]

(* log_csv, "one row per provisioned device": a row is about a certificate that reached a    *)
(* device, not about one that was signed for an attempt that failed.                         *)
RowsAreReal == \A i \in 1..Len(log) : log[i].cert \in ever

(* Counts, "a device counts once however many times it fails": every device that was         *)
(* attempted as new in this session is counted in exactly one of the three counters.         *)
CountedOnce ==
  /\ counts.unverified \cap counts.failed = {}
  /\ counts.ok + Cardinality(counts.unverified) + Cardinality(counts.failed) = Cardinality(fresh)

(* Command::Retry and Skip: an answer meets the question it was given for, and is never left *)
(* for a later step or for the next device.                                                  *)
AnswersMeetQuestions ==
  \A i \in 1..Len(cmds) : cmds[i].cmd # "Provision" => (wpc = "ask" /\ Len(cmds) = 1)

(* app.rs of the provisioning tool: a device that counts as provisioned is in the log, rows of *)
(* the log are of real certificates, every device is counted once, and an answer of the        *)
(* operator meets its own question.                                                            *)
ProvisioningIsTrue ==
  ProvisionedIsLogged /\ RowsAreReal /\ CountedOnce /\ AnswersMeetQuestions

(* Again and again (liveness): the screen comes back to idle, neither side waits for  *)
(* the other for ever.                                                                *)
JobsEnded == phase # "running"

=============================================================================
