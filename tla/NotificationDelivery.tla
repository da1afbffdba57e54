------------------------ MODULE NotificationDelivery ------------------------
(***************************************************************************)
(* One notice from the handler that queues it to the last channel it goes  *)
(* out over: the tasks of tasks/notifications.py on Celery workers, which  *)
(* acknowledge a message after its run (acks_late), retry a failed run a   *)
(* bounded number of times, and may die.                                   *)
(*                                                                         *)
(* A user may change preferences and push subscriptions at any time, and   *)
(* each step reads them afresh: it may see any of them.                    *)
(***************************************************************************)
EXTENDS Naturals, SequencesExt

CONSTANTS
  Notice,      \* the kinds of notice a behaviour may be about
  Phone,       \* the users with a phone number on file
  Browser,     \* the users who have allowed push in a browser
  Device,      \* the push subscriptions such a user may have
  Worker,      \* worker processes
  MaxRetries,  \* max_retries of every task, 3 in the code
  MaxTroubles  \* bound: how often something goes wrong beyond a clean refusal

Link    == {"verify link", "reset link"}
Decided == {"verification", "documents", "payout", "refund"}
User    == {"parent", "teacher", "admins"}
Channel == {"email", "sms", "push"} \cup Device

ASSUME NoticeAssumption ==
  /\ Notice \subseteq Link \cup Decided \cup {"booking"}
  /\ MaxRetries \in Nat /\ MaxTroubles \in Nat
  /\ IsFiniteSet(Device) /\ IsFiniteSet(Worker)
  /\ Device \cap {"link", "alert", "email", "sms", "push", "text", "none"} = {}

-----------------------------------------------------------------------------
(* What each task does, step by step.                                      *)
AllChannels(u) == <<<<u, "email">>, <<u, "sms">>, <<u, "push">>>>

send_email_verification_message     == <<<<"parent", "link">>>>
send_password_reset_message         == <<<<"parent", "link">>>>
send_booking_confirmation           == AllChannels("parent") \o AllChannels("teacher")
notify_teacher_verification_result  == AllChannels("teacher")
notify_admin_verification_submitted == <<<<"admins", "alert">>>>
send_payout_notification            == AllChannels("teacher")
send_refund_notification            == AllChannels("parent")

Plan(notice) ==
  CASE notice = "verify link"  -> send_email_verification_message
    [] notice = "reset link"   -> send_password_reset_message
    [] notice = "booking"      -> send_booking_confirmation
    [] notice = "verification" -> notify_teacher_verification_result
    [] notice = "documents"    -> notify_admin_verification_submitted
    [] notice = "payout"       -> send_payout_notification
    [] notice = "refund"       -> send_refund_notification

Recipients(notice) == {Plan(notice)[i][1] : i \in DOMAIN Plan(notice)}

(* A message names a task: the whole notice, or the SMS or push of a user. *)
Job     == {<<"notice">>} \cup ({"sms", "push"} \X User)
Message == [job : Job, retries : 0..MaxRetries]

VARIABLES
  notice,     \* the kind of notice
  smtp,       \* the deployment has an SMTP_HOST
  handler,    \* the steps left to the handler that queues it
  done,       \* the steps it has done
  queue,      \* how often each message is in the broker
  run,        \* the run of each worker
  delivered,  \* committed delivery rows with status "delivered"
  noted,      \* committed rows with status "skipped" or "failed"
  sent,       \* what left, per user and channel
  givenUp,    \* jobs whose last retry failed
  lost,       \* some message was acknowledged before its run had ended
  troubles    \* what went wrong beyond a clean refusal

origin == <<notice, smtp, handler, done>>
rows   == <<delivered, noted>>
broker == <<queue, givenUp, lost>>
vars   == <<origin, broker, run, rows, sent, troubles>>

Idle    == [at |-> "idle"]
Zero    == [u \in User |-> [c \in Channel |-> 0]]
Settled == /\ handler = <<>>
           /\ \A m \in Message : queue[m] = 0
           /\ \A w \in Worker : run[w] = Idle

Init ==
  /\ notice \in Notice
  /\ smtp \in BOOLEAN
  /\ handler = IF notice \in Decided THEN <<"queue", "commit">> ELSE <<"commit", "queue">>
  /\ done = {}
  /\ queue = [m \in Message |-> 0]
  /\ run = [w \in Worker |-> Idle]
  /\ delivered = Zero /\ noted = {} /\ sent = Zero
  /\ givenUp = {} /\ lost = FALSE
  /\ troubles = <<>>

Trouble(what)  == Len(troubles) < MaxTroubles /\ troubles' = Append(troubles, what)
Happened(what) == \E i \in DOMAIN troubles : troubles[i] = what

-----------------------------------------------------------------------------
(* The handler.  Links and confirmations are queued after the commit; the  *)
(* handlers of admins and uploads queue first and commit at their end.     *)
Publish(job, retries) == queue' = [queue EXCEPT ![[job |-> job, retries |-> retries]] = @ + 1]

HandlerStep(step) ==
  /\ handler # <<>> /\ Head(handler) = step
  /\ handler' = Tail(handler)
  /\ done' = done \cup {step}
  /\ UNCHANGED <<notice, smtp, givenUp, lost, run, rows, sent, troubles>>

HandlerQueues  == HandlerStep("queue") /\ Publish(<<"notice">>, 0)
HandlerCommits == HandlerStep("commit") /\ UNCHANGED queue

HandlerDies ==
  /\ handler # <<>>
  /\ handler' = <<>>
  /\ UNCHANGED <<notice, smtp, done, broker, run, rows, sent, troubles>>

-----------------------------------------------------------------------------
(* A worker takes a message, which stays unacknowledged during the run.    *)
(* The steps of a push are the devices subscribed when it starts.          *)
Take(w, m) ==
  /\ run[w] = Idle /\ queue[m] > 0
  /\ queue' = [queue EXCEPT ![m] = @ - 1]
  /\ \E plan \in CASE m.job = <<"notice">> -> {Plan(notice)}
                   [] m.job[1] = "sms"     -> {<<<<m.job[2], "text">>>>}
                   [] m.job[1] = "push"    ->
                        {<<<<m.job[2], "none">>>>}
                          \cup UNION {SetToSeqs({m.job[2]} \X D) : D \in (SUBSET Device) \ {{}}} :
       run' = [run EXCEPT ![w] = [at |-> "plan", message |-> m, plan |-> plan, new |-> {}]]
  /\ UNCHANGED <<origin, givenUp, lost, rows, sent, troubles>>

At(w, step) == run[w].at = step
Task(w)     == run[w].message.job

(* The next step of worker w is of the given kind, for user u.             *)
Does(w, u, kind) == At(w, "plan") /\ run[w].plan # <<>> /\ Head(run[w].plan) = <<u, kind>>

(* The step ends with an uncommitted delivery row.                         *)
Record(w, u, channel, status) ==
  run' = [run EXCEPT ![w].plan = Tail(@), ![w].new = @ \cup {<<u, channel, status>>}]

(* Mutant: the task is retried without the row of its failure.             *)
FailUnrecorded(w, u, channel) ==
  run' = [run EXCEPT ![w].at = "retry", ![w].new = {}]

(* It fails: the row is written, committed next, and the task retried.     *)
RecordFailure(w, u, channel) ==
  run' = [run EXCEPT ![w].at = "keep", ![w].new = @ \cup {<<u, channel, "failed">>}]

Leaves(u, channel) == sent' = [sent EXCEPT ![u][channel] = @ + 1]

Accepted(u, channel) == Leaves(u, channel) /\ UNCHANGED troubles

(* What a mail server or provider refuses may have left all the same.      *)
Refused(u, channel) ==
  \/ UNCHANGED <<sent, troubles>>
  \/ Trouble("sent") /\ Leaves(u, channel)

-----------------------------------------------------------------------------
(* _send: without an SMTP_HOST nothing leaves, and nothing is refused.      *)
MailAccepted(u) ==
  \/ smtp /\ Accepted(u, "email")
  \/ ~smtp /\ UNCHANGED <<sent, troubles>>

MailRefused(u) == smtp /\ Refused(u, "email")

Letter(w, u) ==
  /\ Does(w, u, "link")
  /\ \/ MailAccepted(u) /\ Record(w, u, "email", "delivered")
     \/ MailRefused(u) /\ RecordFailure(w, u, "email")
  /\ UNCHANGED <<origin, broker, rows>>

(* The alert to the admins writes no row.                                  *)
Alert(w, u) ==
  /\ Does(w, u, "alert")
  /\ \/ MailAccepted(u) /\ run' = [run EXCEPT ![w].at = "acknowledge"]
     \/ MailRefused(u) /\ run' = [run EXCEPT ![w].at = "retry"]
  /\ UNCHANGED <<origin, broker, rows>>

Email(w, u) ==
  /\ Does(w, u, "email")
  /\ \/ MailAccepted(u) /\ Record(w, u, "email", "delivered")
     \/ MailRefused(u) /\ RecordFailure(w, u, "email")
     \/ Record(w, u, "email", "skipped") /\ UNCHANGED <<sent, troubles>>
  /\ UNCHANGED <<origin, broker, rows>>

(* A text is queued for a user with a phone number who wants texts.        *)
QueueSms(w, u) ==
  /\ Does(w, u, "sms")
  /\ \/ /\ u \in Phone
        /\ Publish(<<"sms", u>>, 0)
        /\ run' = [run EXCEPT ![w].plan = Tail(@)]
     \/ Record(w, u, "sms", "skipped") /\ UNCHANGED queue
  /\ UNCHANGED <<origin, givenUp, lost, rows, sent, troubles>>

(* _handle_push_delivery_preference                                        *)
QueuePush(w, u) ==
  /\ Does(w, u, "push")
  /\ \/ /\ u \in Browser
        /\ Publish(<<"push", u>>, 0)
        /\ run' = [run EXCEPT ![w].plan = Tail(@)]
     \/ Record(w, u, "push", "skipped") /\ UNCHANGED queue
  /\ UNCHANGED <<origin, givenUp, lost, rows, sent, troubles>>

(* Mutant: a text the provider refused is recorded as delivered.           *)
TextUnchecked(w, u) ==
  /\ Does(w, u, "text")
  /\ \/ Accepted(u, "sms")
     \/ Refused(u, "sms")
  /\ Record(w, u, "sms", "delivered")
  /\ UNCHANGED <<origin, broker, rows>>

(* send_transactional_sms: no provider or a bad number is no failure.      *)
Text(w, u) ==
  /\ Does(w, u, "text")
  /\ \/ Accepted(u, "sms") /\ Record(w, u, "sms", "delivered")
     \/ Record(w, u, "sms", "skipped") /\ UNCHANGED <<sent, troubles>>
     \/ Refused(u, "sms") /\ RecordFailure(w, u, "sms")
  /\ UNCHANGED <<origin, broker, rows>>

(* send_transactional_push: a device that refuses, or is gone, is no       *)
(* reason to retry; a missing configuration ends the run.                  *)
NoDevice(w, u) ==
  /\ Does(w, u, "none")
  /\ Record(w, u, "push", "skipped")
  /\ UNCHANGED <<origin, broker, rows, sent, troubles>>

Push(w, u, d) ==
  /\ Does(w, u, d)
  /\ \/ Accepted(u, d) /\ Record(w, u, d, "delivered")
     \/ Refused(u, d) /\ Record(w, u, d, "failed")
     \/ /\ run' = [run EXCEPT ![w].plan = <<>>, ![w].new = @ \cup {<<u, d, "skipped">>}]
        /\ UNCHANGED <<sent, troubles>>
  /\ UNCHANGED <<origin, broker, rows>>

-----------------------------------------------------------------------------
(* The one commit of a run, at its end or after a failure.                 *)
Keep(w) ==
  LET new == run[w].new IN
  /\ delivered' = [u \in User |-> [c \in Channel |->
       delivered[u][c] + IF <<u, c, "delivered">> \in new THEN 1 ELSE 0]]
  /\ noted' = noted \cup {r \in new : r[3] # "delivered"}

Commit(w) ==
  /\ \/ At(w, "keep")
     \/ At(w, "plan") /\ run[w].plan = <<>>
  /\ Keep(w)
  /\ run' = [run EXCEPT ![w].at = IF @ = "keep" THEN "retry" ELSE "acknowledge", ![w].new = {}]
  /\ UNCHANGED <<origin, broker, sent, troubles>>

(* Mutant: a retry starts counting afresh.                                 *)
RetryAfresh(w) ==
  /\ At(w, "retry")
  /\ Publish(Task(w), 0)
  /\ run' = [run EXCEPT ![w].at = "acknowledge", ![w].plan = <<>>]
  /\ UNCHANGED <<origin, givenUp, lost, rows, sent, troubles>>

(* Mutant: the last failure is neither retried nor raised.                 *)
RetryWithoutEnd(w) ==
  /\ At(w, "retry") /\ run[w].message.retries < MaxRetries
  /\ Publish(Task(w), run[w].message.retries + 1)
  /\ run' = [run EXCEPT ![w].at = "acknowledge", ![w].plan = <<>>]
  /\ UNCHANGED <<origin, givenUp, lost, rows, sent, troubles>>

(* self.retry publishes the message again, or gives the task up.           *)
Retry(w) ==
  /\ At(w, "retry")
  /\ LET m == run[w].message IN
       IF m.retries < MaxRetries
       THEN Publish(m.job, m.retries + 1) /\ UNCHANGED givenUp
       ELSE givenUp' = givenUp \cup {m.job} /\ UNCHANGED queue
  /\ run' = [run EXCEPT ![w].at = "acknowledge", ![w].plan = <<>>]
  /\ UNCHANGED <<origin, lost, rows, sent, troubles>>

Acknowledge(w) ==
  /\ At(w, "acknowledge")
  /\ run' = [run EXCEPT ![w] = Idle]
  /\ UNCHANGED <<origin, broker, rows, sent, troubles>>

-----------------------------------------------------------------------------
(* The database refuses a statement: the run fails and is rolled back.     *)
Fault(w) ==
  /\ run[w] # Idle /\ run[w].at \in {"plan", "keep"}
  /\ Trouble("fault")
  /\ run' = [run EXCEPT ![w].at = "retry", ![w].new = {}]
  /\ UNCHANGED <<origin, broker, rows, sent>>

(* The worker dies and the broker delivers its message again.              *)
WorkerDies(w) ==
  /\ run[w] # Idle
  /\ Trouble("crash")
  /\ queue' = [queue EXCEPT ![run[w].message] = @ + 1]
  /\ run' = [run EXCEPT ![w] = Idle]
  /\ UNCHANGED <<origin, givenUp, lost, rows, sent>>

(* Only the process of the run dies: its worker acknowledges for it.       *)
ProcessDies(w) ==
  /\ run[w] # Idle
  /\ Trouble("crash")
  /\ lost' = TRUE
  /\ run' = [run EXCEPT ![w] = Idle]
  /\ UNCHANGED <<origin, queue, givenUp, rows, sent>>

Work(w) ==
  \/ \E m \in Message : Take(w, m)
  \/ \E u \in User :
       \/ Letter(w, u) \/ Alert(w, u) \/ Email(w, u) \/ QueueSms(w, u) \/ QueuePush(w, u)
       \/ Text(w, u) \/ NoDevice(w, u) \/ \E d \in Device : Push(w, u, d)
  \/ Commit(w) \/ Retry(w) \/ Acknowledge(w)

Next ==
  \/ HandlerQueues \/ HandlerCommits \/ HandlerDies
  \/ \E w \in Worker : Work(w) \/ Fault(w) \/ WorkerDies(w) \/ ProcessDies(w)

(* A handler goes on or dies; workers take messages while there are any.   *)
Fairness ==
  /\ WF_vars(HandlerQueues \/ HandlerCommits \/ HandlerDies)
  /\ \A w \in Worker : WF_vars(Work(w))

Spec == Init /\ [][Next]_vars /\ Fairness

-----------------------------------------------------------------------------
Told(u, c) ==
  \/ delivered[u][c] > 0
  \/ \E status \in {"skipped", "failed"} : <<u, c, status>> \in noted

(* Nobody is forgotten: once all is quiet, every recipient has a delivery  *)
(* row for every channel (for the push: of some device), also after dead   *)
(* workers, rollbacks and refusals.  A notice that was given up on its way *)
(* has left the failed row of the e-mail that stopped it.  Excepted are    *)
(* runs that Celery acknowledged unfinished, and a database that failed    *)
(* the last retry (the commit before self.retry).                          *)
EveryoneIsAccountedFor ==
  Settled /\ "queue" \in done /\ ~lost /\ notice # "documents" =>
    \/ Happened("fault") /\ givenUp # {}
    \/ <<"notice">> \in givenUp /\ \E u \in Recipients(notice) : <<u, "email", "failed">> \in noted
    \/ \A u \in Recipients(notice) :
         /\ Told(u, "email")
         /\ notice \notin Link => /\ Told(u, "sms")
                                  /\ \E c \in {"push"} \cup Device : Told(u, c)

(* The delivery log never claims more than was sent, through rollbacks,    *)
(* retries and repeated runs (the order of sending and recording).  The    *)
(* exception: without an SMTP_HOST _send returns as if it had sent, and    *)
(* the e-mails it drops are logged as delivered.                           *)
Leaving(c) == c = "email" => smtp
DeliveredWasSent ==
  \A u \in User : \A c \in Channel : Leaving(c) => delivered[u][c] <= sent[u][c]

(* Without crashes a task is repeated by its retries alone: a mail leaves  *)
(* at most once per run, and a text or push once per run of each of the    *)
(* tasks that each run of the notice queued.                               *)
RepeatsAreBounded ==
  ~Happened("crash") => \A u \in User : \A c \in Channel :
    sent[u][c] <= IF c = "email" THEN MaxRetries + 1 ELSE (MaxRetries + 1) * (MaxRetries + 1)

(* Every notice comes to rest: retries end, whatever fails.                *)
Settles == <>[]Settled
=============================================================================
