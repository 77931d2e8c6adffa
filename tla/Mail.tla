--------------------------------- MODULE Mail --------------------------------
(***************************************************************************)
(* sensor-link-notify, mail.rs and mail_throttle.rs: the mail task sends   *)
(* urgent mail at once and keeps the rest in a queue that a sliding-window *)
(* rate limiter empties. Producers fill a channel at any rate. Every time  *)
(* is kept as an age, so that the task can be followed for ever. Metrics   *)
(* and the statistics of a batch are left out; sending itself is external. *)
(***************************************************************************)
EXTENDS AlarmSms

CONSTANTS
  MINUTE, HOUR, DAY, per_minute, per_hour, per_day,   \* the rate limits
  max_queued,
  RELEASE_STARVATION_LIMIT, SHUTDOWN_DRAIN_GRACE,
  Counts,                   \* numbers of recipients
  MailCap,
  MaxSends                  \* bound: urgent mail is produced while fewer sends are recorded

ASSUME MailAssumption ==
  /\ MINUTE \in Nat \ {0} /\ HOUR \in Nat \ {0} /\ DAY \in Nat /\ MINUTE <= DAY /\ HOUR <= DAY
  /\ per_minute \in Nat /\ per_hour \in Nat /\ per_day \in Nat /\ max_queued \in Nat
  /\ SHUTDOWN_DRAIN_GRACE \in Nat /\ Counts \subseteq Nat

Windows == {[window |-> MINUTE, limit |-> per_minute], [window |-> HOUR, limit |-> per_hour],
            [window |-> DAY, limit |-> per_day]}
Off == -1

VARIABLES
  mails,        \* the channel of the task: [urgent, count]
  mailQueue,    \* counts of the queued non-urgent mails
  sends,        \* ages of the recorded sends, oldest first
  eligible,     \* age of eligible_since, or Off
  drain,        \* what is left of the grace period, or Off
  mpc,          \* "loop" | "select" | "sending" | "exit"
  release       \* what release_at says for the head of the queue

mailVars == <<mails, mailQueue, sends, eligible, drain, mpc, release>>

MailInit ==
  /\ mails = <<>> /\ mailQueue = <<>> /\ sends = <<>> /\ eligible = Off /\ drain = Off
  /\ mpc = "loop" /\ release = Off

(* A producer; the channel is bounded. *)
SendMail(urgent, count) ==
  /\ Len(mails) < MailCap /\ mpc # "exit" /\ (urgent => Len(sends) < MaxSends)
  /\ mails' = Append(mails, [urgent |-> urgent, count |-> count])
  /\ UNCHANGED <<mailQueue, sends, eligible, drain, mpc, release>>

-----------------------------------------------------------------------------
(* RateLimiter *)

(* partition_point: how many of the sends, oldest first, are at least that old *)
PartitionPoint(s, age) ==
  CHOOSE k \in 0 .. Len(s) :
    (\A i \in 1 .. k : s[i] >= age) /\ (k = Len(s) \/ s[k + 1] < age)

InWindow(w) == Len(sends) - PartitionPoint(sends, w.window)

(* prune: what is older than the longest window leaves at the front *)
Prune(s) == SubSeq(s, PartitionPoint(s, DAY) + 1, Len(s))

(* Mutant: one send too few has to leave the window. *)
WindowReleaseEarly(w, count) ==
  LET in == InWindow(w)
      must == IF in + count - w.limit - 1 < in THEN in + count - w.limit - 1 ELSE in
      first == Len(sends) - in
  IN  IF in + count <= w.limit \/ in = 0 \/ must <= 0 THEN 0 ELSE w.window - sends[first + must]

(* window_release: how long until count more sends fit; a mail with more recipients than *)
(* the limit waits for the window to be empty.                                           *)
WindowRelease(w, count) ==
  LET in == InWindow(w)
      must == IF in + count - w.limit < in THEN in + count - w.limit ELSE in
      first == Len(sends) - in
  IN  IF in + count <= w.limit \/ in = 0 THEN 0 ELSE w.window - sends[first + must]

(* next_allowed: the latest of the windows *)
NextAllowed(count) ==
  CHOOSE r \in {WindowRelease(w, count) : w \in Windows} :
    \A w \in Windows : WindowRelease(w, count) <= r

(* record *)
RecordSends(count) == sends \o [i \in 1..count |-> 0]

-----------------------------------------------------------------------------
(* send_task *)

(* The head of the loop: done when everything is drained; when may the next go? *)
LoopHead ==
  /\ mpc = "loop"
  /\ IF drain # Off /\ mailQueue = <<>>
     THEN mpc' = "exit" /\ UNCHANGED <<release, eligible>>
     ELSE /\ mpc' = "select"
          /\ release' = IF mailQueue = <<>> THEN Off ELSE NextAllowed(Head(mailQueue))
          /\ eligible' = CASE release' = 0 /\ eligible = Off -> 0
                           [] release' = 0 /\ eligible # Off -> eligible
                           [] OTHER -> Off
  /\ UNCHANGED <<mails, mailQueue, sends, drain>>

(* Mutant: the queue always yields to the channel. *)
StarvingNever == FALSE

Starving == eligible >= RELEASE_STARVATION_LIMIT

Receiving == drain = Off /\ ~Starving /\ mails # <<>>

(* An urgent mail is sent at once, and counted against the limits. *)
ReceiveUrgent ==
  /\ mpc = "select" /\ Receiving /\ Head(mails).urgent
  /\ mails' = Tail(mails) /\ sends' = RecordSends(Head(mails).count)
  /\ mpc' = "sending"
  /\ UNCHANGED <<mailQueue, eligible, drain, release>>

(* Any other is queued; the oldest one makes room and is reported as dropped. *)
ReceiveBulk ==
  /\ mpc = "select" /\ Receiving /\ ~Head(mails).urgent
  /\ mails' = Tail(mails)
  /\ mailQueue' = Append(IF Len(mailQueue) >= max_queued /\ mailQueue # <<>> THEN Tail(mailQueue)
                       ELSE mailQueue, Head(mails).count)
  /\ mpc' = "loop"
  /\ UNCHANGED <<sends, eligible, drain, release>>

(* The select is biased: a mail in the channel comes first. *)
Release ==
  /\ mpc = "select" /\ ~Receiving /\ release = 0
  /\ mailQueue' = Tail(mailQueue) /\ sends' = RecordSends(Head(mailQueue)) /\ eligible' = Off
  /\ mpc' = "sending"
  /\ UNCHANGED <<mails, drain, release>>

(* The grace period ends: what is left is reported as dropped. *)
GraceExpired ==
  /\ mpc = "select" /\ ~Receiving /\ release # 0 /\ drain = 0
  /\ mailQueue' = <<>> /\ mpc' = "exit"
  /\ UNCHANGED <<mails, sends, eligible, drain, release>>

(* Shutdown is requested, or all senders are gone: no mail is accepted any more. *)
DrainMail ==
  /\ mpc = "select" /\ ~Receiving /\ release # 0 /\ drain = Off
  /\ drain' = SHUTDOWN_DRAIN_GRACE /\ mpc' = "loop"
  /\ UNCHANGED <<mails, mailQueue, sends, eligible, release>>

(* send_email returns, after up to three attempts per recipient. *)
SendingDone ==
  /\ mpc = "sending" /\ mpc' = "loop"
  /\ UNCHANGED <<mails, mailQueue, sends, eligible, drain, release>>

Down(x) == IF x > 0 THEN x - 1 ELSE x

(* Time passes; RateLimiter::prune forgets what is older than the longest window. A due *)
(* release, or the end of the grace period, is not slept through.                       *)
MailTick ==
  /\ mpc # "exit"
  /\ mpc = "select" => (~Receiving /\ release # 0 /\ drain # 0)
  /\ sends' = Prune([i \in 1..Len(sends) |-> sends[i] + 1])
  /\ eligible' = IF eligible = Off \/ eligible >= RELEASE_STARVATION_LIMIT THEN eligible ELSE eligible + 1
  /\ drain' = Down(drain) /\ release' = IF mpc = "select" THEN Down(release) ELSE release
  /\ UNCHANGED <<mails, mailQueue, mpc>>

MailLoop == LoopHead \/ ReceiveUrgent \/ ReceiveBulk \/ Release \/ GraceExpired \/ SendingDone

MailNext ==
  \/ MailLoop \/ DrainMail \/ MailTick
  \/ \E u \in BOOLEAN, c \in Counts : SendMail(u, c)

(* The task runs, and time goes on. *)
MailFairness == WF_mailVars(MailLoop) /\ SF_mailVars(MailTick)

MailSpec == MailInit /\ [][MailNext]_mailVars /\ MailFairness

-----------------------------------------------------------------------------

(* mail_throttle, "without exceeding any of those limits": a queued mail is released only  *)
(* when it and every send of the window fit in its limit, urgent mail included, for every  *)
(* window; only a mail with more recipients than the limit goes out into an empty window.  *)
WithinLimits ==
  Release =>
    \A w \in Windows : \/ InWindow(w)' <= w.limit
                       \/ InWindow(w) = 0 /\ Head(mailQueue) > w.limit

(* event_mark_sent: an alarm is shown as Sent only when its mail was given to the mail task  *)
(* or its text message was taken by a provider, whichever step of the poll failed, and also  *)
(* when the server restarts in the middle; and mail stays within the limits of every window. *)
NotificationsAreTrue ==
  /\ [](\A e \in Events : sent[e] = "Sent" => Told(e))
  /\ [][WithinLimits]_mailVars

(* Again and again (liveness), RELEASE_STARVATION_LIMIT: however fast mail comes in, a mail *)
(* that may be sent is not passed over for ever: it is released, or urgent mail has used up  *)
(* its window.                                                                               *)
QueueMoved == eligible = Off \/ mpc = "exit"

=============================================================================
