---------------------- MODULE NotificationDeliveryProofs ----------------------
(***************************************************************************)
(* The delivery log of one notice, for any number of workers, devices and  *)
(* retries, and for any number of things that go wrong.                    *)
(***************************************************************************)
EXTENDS NotificationDelivery, FiniteSetTheorems, SequenceTheorems, TLAPS

Status == {"delivered", "skipped", "failed"}
Row    == User \X Channel \X Status
What   == {"link", "alert", "email", "sms", "push", "text", "none"} \cup Device
Plans  == Seq(User \X What)

Run == [at: {"plan", "keep", "retry", "acknowledge"}, message: Message, plan: Plans,
        new: SUBSET Row]

Counts == [User -> [Channel -> Nat]]

(* What the proofs need of the types.                                      *)
TypeOK ==
  /\ notice \in Notice /\ smtp \in BOOLEAN
  /\ queue \in [Message -> Nat]
  /\ run \in [Worker -> Run \cup {Idle}]
  /\ delivered \in Counts /\ sent \in Counts
  /\ noted \subseteq Row
  /\ givenUp \subseteq Job

-----------------------------------------------------------------------------
(* Plans and messages.                                                     *)
LEMMA AllChannelsPlan == ASSUME NEW u \in User PROVE AllChannels(u) \in Plans
  BY DEF AllChannels, Plans, What

LEMMA PlanType == ASSUME NEW n \in Notice PROVE Plan(n) \in Plans
<1>1. "parent" \in User /\ "teacher" \in User /\ "admins" \in User
  BY DEF User
<1>2. <<<<"parent", "link">>>> \in Plans /\ <<<<"admins", "alert">>>> \in Plans
  BY <1>1 DEF Plans, What
<1>3. AllChannels("parent") \in Plans /\ AllChannels("teacher") \in Plans
  BY <1>1, AllChannelsPlan
<1>4. send_booking_confirmation \in Plans
  BY <1>3, ConcatProperties DEF send_booking_confirmation, Plans
<1>5. n \in {"verify link", "reset link", "booking", "verification", "documents", "payout", "refund"}
  BY NoticeAssumption DEF Link, Decided
<1> HIDE DEF Plans
<1> QED
  BY <1>2, <1>3, <1>4, <1>5 DEF Plan, send_email_verification_message, send_password_reset_message,
     notify_teacher_verification_result, notify_admin_verification_submitted,
     send_payout_notification, send_refund_notification

(* The orders in which the subscribed devices of a user may be tried.      *)
LEMMA PushPlan ==
  ASSUME NEW u \in User, NEW D \in SUBSET Device
  PROVE  SetToSeqs({u} \X D) \subseteq Plans
<1>1. IsFiniteSet(D)
  BY NoticeAssumption, FS_Subset
<1>2. IsFiniteSet({u} \X D)
  BY <1>1, FS_Singleton, FS_Product
<1>3. Cardinality({u} \X D) \in Nat
  BY <1>2, FS_CardinalityType
<1>4. {u} \X D \subseteq User \X What
  BY DEF What
<1> DEFINE n == Cardinality({u} \X D)
<1>5. SetToSeqs({u} \X D) \subseteq [1..n -> {u} \X D]
  BY DEF SetToSeqs
<1> HIDE DEF n
<1>6. n \in Nat
  BY <1>3 DEF n
<1>7. [1..n -> {u} \X D] \subseteq Seq({u} \X D)
  BY <1>6
<1>8. Seq({u} \X D) \subseteq Plans
  BY <1>4 DEF Plans
<1> QED
  BY <1>5, <1>7, <1>8

-----------------------------------------------------------------------------
(* The log, and what the runs have yet to commit to it.                    *)

(* The workers whose run has sent to u over c, and not yet committed it.   *)
Held(u, c) == {w \in Worker : run[w] # Idle /\ <<u, c, "delivered">> \in run[w].new}

(* Every delivered row, committed or not, is for something sent.           *)
Logged ==
  \A u \in User : \A c \in Channel :
    Leaving(c) => delivered[u][c] + Cardinality(Held(u, c)) <= sent[u][c]

LogInv == TypeOK /\ Logged

LEMMA HeldCount ==
  ASSUME NEW u, NEW c
  PROVE  IsFiniteSet(Held(u, c)) /\ Cardinality(Held(u, c)) \in Nat
<1>1. Held(u, c) \subseteq Worker
  BY DEF Held
<1> HIDE DEF Held
<1> QED
  BY <1>1, NoticeAssumption, FS_Subset, FS_CardinalityType

(* A step after which no run holds more rows of the channels that work,    *)
(* and no less is sent.                                                    *)
LEMMA NoMoreHeld ==
  ASSUME LogInv, TypeOK', UNCHANGED delivered, UNCHANGED smtp,
         \A u \in User : \A c \in Channel : Leaving(c) => Held(u, c)' \subseteq Held(u, c),
         \A u \in User : \A c \in Channel : sent[u][c] <= sent'[u][c]
  PROVE  LogInv'
<1>1. ASSUME NEW u \in User, NEW c \in Channel, Leaving(c)
      PROVE  delivered'[u][c] + Cardinality(Held(u, c)') <= sent'[u][c]
  <2>1. IsFiniteSet(Held(u, c)) /\ Cardinality(Held(u, c)) \in Nat
    BY HeldCount
  <2>2. Held(u, c)' \in SUBSET Held(u, c)
    BY <1>1
  <2> DEFINE before == Held(u, c)
             after == Held(u, c)'
  <2> HIDE DEF before, after
  <2>3. IsFiniteSet(after) /\ Cardinality(after) <= Cardinality(before)
    BY <2>1, <2>2, FS_Subset DEF before, after
  <2>4. Cardinality(after) \in Nat
    BY <2>3, FS_CardinalityType
  <2>5. /\ delivered[u][c] \in Nat /\ sent[u][c] \in Nat /\ sent'[u][c] \in Nat
        /\ sent[u][c] <= sent'[u][c] /\ delivered'[u][c] = delivered[u][c]
    BY DEF LogInv, TypeOK, Counts
  <2>6. delivered[u][c] + Cardinality(before) <= sent[u][c] /\ Cardinality(before) \in Nat
    BY <1>1, <2>1 DEF LogInv, Logged, before
  <2>7. delivered'[u][c] + Cardinality(after) <= sent'[u][c]
    BY <2>3, <2>4, <2>5, <2>6
  <2> QED
    BY <2>7 DEF after
<1>2. \A c : Leaving(c)' => Leaving(c)
  BY DEF Leaving
<1> QED
  BY <1>1, <1>2 DEF LogInv, Logged

(* A step that sends and notes one delivery.                               *)
LEMMA OneMoreHeld ==
  ASSUME LogInv, TypeOK', UNCHANGED delivered, UNCHANGED smtp,
         NEW w \in Worker, NEW u \in User, NEW c \in Channel,
         sent' = [sent EXCEPT ![u][c] = @ + 1],
         \A x \in User : \A y \in Channel :
           Held(x, y)' \subseteq Held(x, y) \cup (IF x = u /\ y = c THEN {w} ELSE {})
  PROVE  LogInv'
<1>1. ASSUME NEW x \in User, NEW y \in Channel, Leaving(y)
      PROVE  delivered'[x][y] + Cardinality(Held(x, y)') <= sent'[x][y]
  <2> DEFINE before == Held(x, y)
             after == Held(x, y)'
  <2>1. IsFiniteSet(before) /\ Cardinality(before) \in Nat
    BY HeldCount
  <2>2. delivered[x][y] + Cardinality(before) <= sent[x][y]
    BY <1>1 DEF LogInv, Logged
  <2>3. delivered[x][y] \in Nat /\ sent[x][y] \in Nat /\ delivered'[x][y] = delivered[x][y]
    BY DEF LogInv, TypeOK, Counts
  <2>4. CASE x = u /\ y = c
    <3>1. after \subseteq before \cup {w}
      BY <2>4
    <3>2. sent'[x][y] = sent[x][y] + 1
      BY <2>4 DEF LogInv, TypeOK, Counts
    <3> HIDE DEF before, after
    <3> DEFINE wider == before \cup {w}
    <3> HIDE DEF wider
    <3>a. /\ IsFiniteSet(wider)
          /\ Cardinality(wider) = Cardinality(before) \/ Cardinality(wider) = Cardinality(before) + 1
      BY <2>1, FS_AddElement, Zenon DEF wider
    <3>3. IsFiniteSet(wider) /\ Cardinality(wider) <= Cardinality(before) + 1
      BY <2>1, <3>a
    <3>4. IsFiniteSet(after) /\ Cardinality(after) <= Cardinality(wider)
      BY <3>1, <3>3, FS_Subset DEF wider
    <3>5. Cardinality(after) \in Nat /\ Cardinality(wider) \in Nat
      BY <3>3, <3>4, FS_CardinalityType
    <3>6. delivered'[x][y] + Cardinality(after) <= sent'[x][y]
      BY <2>1, <2>2, <2>3, <3>2, <3>3, <3>4, <3>5
    <3> QED
      BY <3>6 DEF after
  <2>5. CASE ~(x = u /\ y = c)
    <3>1. after \subseteq before
      BY <2>5
    <3>2. sent'[x][y] = sent[x][y]
      BY <2>5 DEF LogInv, TypeOK, Counts
    <3> HIDE DEF before, after
    <3>3. IsFiniteSet(after) /\ Cardinality(after) <= Cardinality(before)
      BY <2>1, <3>1, FS_Subset
    <3>4. Cardinality(after) \in Nat
      BY <3>3, FS_CardinalityType
    <3>5. delivered'[x][y] + Cardinality(after) <= sent'[x][y]
      BY <2>1, <2>2, <2>3, <3>2, <3>3, <3>4
    <3> QED
      BY <3>5 DEF after
  <2> QED
    BY <2>4, <2>5
<1>2. \A y : Leaving(y)' => Leaving(y)
  BY DEF Leaving
<1> QED
  BY <1>1, <1>2 DEF LogInv, Logged

-----------------------------------------------------------------------------
(* What a step does to the run of one worker.                              *)
LEMMA RunFields ==
  ASSUME TypeOK, NEW w \in Worker, run[w] # Idle
  PROVE  /\ run[w] \in Run
         /\ run[w].at \in {"plan", "keep", "retry", "acknowledge"}
         /\ run[w].message \in Message /\ run[w].plan \in Plans /\ run[w].new \subseteq Row
<1>1. run[w] \in Run
  BY DEF TypeOK
<1> QED
  BY <1>1 DEF Run

LEMMA AtWork ==
  ASSUME TypeOK, NEW w \in Worker, NEW s \in {"plan", "keep", "retry", "acknowledge"}, At(w, s)
  PROVE  run[w] # Idle
  BY DEF At, Idle

LEMMA RunSet ==
  ASSUME TypeOK, NEW w \in Worker, NEW r \in Run \cup {Idle}, run' = [run EXCEPT ![w] = r]
  PROVE  /\ run' \in [Worker -> Run \cup {Idle}]
         /\ \A x, y, v : v \in Held(x, y)' <=>
              IF v = w THEN r # Idle /\ <<x, y, "delivered">> \in r.new ELSE v \in Held(x, y)
<1>1. run \in [Worker -> Run \cup {Idle}]
  BY DEF TypeOK
<1>2. run'[w] = r /\ \A v \in Worker \ {w} : run'[v] = run[v]
  BY <1>1
<1> HIDE DEF Run, Idle
<1>3. run' \in [Worker -> Run \cup {Idle}]
  BY <1>1
<1> QED
  BY <1>2, <1>3 DEF Held

(* A run that goes on with the same message.                               *)
With(r, a, p, n) == [r EXCEPT !.at = a, !.plan = p, !.new = n]

LEMMA RunRecords ==
  ASSUME TypeOK, NEW w \in Worker, run[w] # Idle,
         NEW a \in {"plan", "keep", "retry", "acknowledge"}, NEW p \in Plans, NEW n \in SUBSET Row,
         run' = [run EXCEPT ![w] = With(run[w], a, p, n)]
  PROVE  /\ run' \in [Worker -> Run \cup {Idle}]
         /\ \A x, y, v : v \in Held(x, y)' <=>
              IF v = w THEN <<x, y, "delivered">> \in n ELSE v \in Held(x, y)
<1> DEFINE r == With(run[w], a, p, n)
<1>1. run[w] \in Run
  BY DEF TypeOK
<1>2. r \in Run /\ r.new = n /\ r.at = a
  BY <1>1 DEF Run, With
<1>3. r # Idle
  BY <1>2 DEF Idle
<1>4. run' = [run EXCEPT ![w] = r]
  BY <1>1 DEF TypeOK
<1> HIDE DEF r
<1>5. r \in Run \cup {Idle}
  BY <1>2
<1> HIDE DEF Run, Idle
<1> QED
  BY <1>2, <1>3, <1>4, <1>5, RunSet

-----------------------------------------------------------------------------
(* The endings of a step.                                                  *)
LEMMA PlanTail ==
  ASSUME NEW p \in Plans, p # <<>>
  PROVE  Tail(p) \in Plans
  BY DEF Plans

(* A row is recorded and the step left behind.                             *)
LEMMA RecordStep ==
  ASSUME TypeOK, NEW w \in Worker, NEW u \in User, NEW c \in Channel, NEW s \in Status, NEW k,
         Does(w, u, k), Record(w, u, c, s)
  PROVE  /\ run' \in [Worker -> Run \cup {Idle}]
         /\ \A x, y : Held(x, y)' \subseteq
              Held(x, y) \cup (IF x = u /\ y = c /\ s = "delivered" THEN {w} ELSE {})
<1>1. run[w] # Idle /\ run[w].plan # <<>> /\ run[w].at = "plan"
  BY AtWork DEF Does, At
<1>2. run[w].plan \in Plans /\ run[w].new \subseteq Row /\ run[w] \in Run
  BY <1>1, RunFields
<1> DEFINE p == Tail(run[w].plan)
           n == run[w].new \cup {<<u, c, s>>}
<1>3. p \in Plans /\ n \in SUBSET Row
  BY <1>1, <1>2, PlanTail DEF Row
<1>4. run' = [run EXCEPT ![w].plan = p, ![w].new = n]
  BY DEF Record
<1>5. run' = [run EXCEPT ![w] = With(run[w], "plan", p, n)]
  <2> HIDE DEF p, n
  <2>1. [run[w] EXCEPT !.plan = p, !.new = n] = With(run[w], "plan", p, n)
    BY <1>1, <1>2 DEF Run, With
  <2>2. run' = [run EXCEPT ![w] = [run[w] EXCEPT !.plan = p, !.new = n]]
    BY <1>4 DEF TypeOK
  <2> QED
    BY <2>1, <2>2
<1>6. /\ run' \in [Worker -> Run \cup {Idle}]
      /\ \A x, y, v : v \in Held(x, y)' <=>
           IF v = w THEN <<x, y, "delivered">> \in n ELSE v \in Held(x, y)
  <2> HIDE DEF p, n
  <2>1. "plan" \in {"plan", "keep", "retry", "acknowledge"}
    OBVIOUS
  <2> QED
    BY <1>1, <1>3, <1>5, <2>1, RunRecords
<1>7. ASSUME NEW x, NEW y, <<x, y, "delivered">> \in n, ~(x = u /\ y = c /\ s = "delivered")
      PROVE  w \in Held(x, y)
  BY <1>1, <1>7 DEF Held
<1> HIDE DEF n, p
<1>8. ASSUME NEW x, NEW y, NEW v \in Held(x, y)'
      PROVE  v \in Held(x, y) \cup (IF x = u /\ y = c /\ s = "delivered" THEN {w} ELSE {})
  <2>1. CASE v = w
    <3>1. <<x, y, "delivered">> \in n
      BY <1>6, <1>8, <2>1
    <3>2. CASE x = u /\ y = c /\ s = "delivered"
      BY <2>1, <3>2
    <3>3. CASE ~(x = u /\ y = c /\ s = "delivered")
      BY <1>7, <2>1, <3>1, <3>3
    <3> QED
      BY <3>2, <3>3
  <2>2. CASE v # w
    BY <1>6, <1>8, <2>2
  <2> QED
    BY <2>1, <2>2
<1> QED
  BY <1>6, <1>8

(* The row of a failure is recorded.                                       *)
LEMMA FailureStep ==
  ASSUME TypeOK, NEW w \in Worker, NEW u \in User, NEW c \in Channel, NEW k,
         Does(w, u, k), RecordFailure(w, u, c)
  PROVE  /\ run' \in [Worker -> Run \cup {Idle}]
         /\ \A x, y : Held(x, y)' \subseteq Held(x, y)
<1>1. run[w] # Idle /\ run[w].plan # <<>> /\ run[w].at = "plan"
  BY AtWork DEF Does, At
<1>2. run[w].plan \in Plans /\ run[w].new \subseteq Row /\ run[w] \in Run
  BY <1>1, RunFields
<1> DEFINE p == run[w].plan
           n == run[w].new \cup {<<u, c, "failed">>}
<1>3. p \in Plans /\ n \in SUBSET Row
  BY <1>2 DEF Row, Status
<1>4. run' = [run EXCEPT ![w].at = "keep", ![w].new = n]
  BY DEF RecordFailure
<1>5. run' = [run EXCEPT ![w] = With(run[w], "keep", p, n)]
  <2>1. [run[w] EXCEPT !.at = "keep", !.new = n] = With(run[w], "keep", p, n)
    <3> HIDE DEF n
    <3> QED
      BY <1>2 DEF Run, With
  <2>2. run' = [run EXCEPT ![w] = [run[w] EXCEPT !.at = "keep", !.new = n]]
    BY <1>4 DEF TypeOK
  <2> QED
    BY <2>1, <2>2
<1>6. /\ run' \in [Worker -> Run \cup {Idle}]
      /\ \A x, y, v : v \in Held(x, y)' <=>
           IF v = w THEN <<x, y, "delivered">> \in n ELSE v \in Held(x, y)
  <2> HIDE DEF p, n
  <2>1. "keep" \in {"plan", "keep", "retry", "acknowledge"}
    OBVIOUS
  <2> QED
    BY <1>1, <1>3, <1>5, <2>1, RunRecords
<1>7. ASSUME NEW x, NEW y, <<x, y, "delivered">> \in n
      PROVE  w \in Held(x, y)
  BY <1>1, <1>7 DEF Held
<1> HIDE DEF n, p
<1>8. ASSUME NEW x, NEW y, NEW v \in Held(x, y)'
      PROVE  v \in Held(x, y)
  <2>1. CASE v = w
    BY <1>6, <1>7, <1>8, <2>1
  <2>2. CASE v # w
    BY <1>6, <1>8, <2>2
  <2> QED
    BY <2>1, <2>2
<1> QED
  BY <1>6, <1>8

(* The run goes on, with another state or a plan cut short.                *)
LEMMA TurnStep ==
  ASSUME TypeOK, NEW w \in Worker, run[w] # Idle,
         NEW a \in {"plan", "keep", "retry", "acknowledge"}, NEW p \in Plans,
         NEW n \in {{}, run[w].new}, run' = [run EXCEPT ![w] = With(run[w], a, p, n)]
  PROVE  /\ run' \in [Worker -> Run \cup {Idle}]
         /\ \A x, y : Held(x, y)' \subseteq Held(x, y)
<1>1. run[w].new \subseteq Row
  BY RunFields
<1>2. n \in SUBSET Row
  BY <1>1
<1>3. /\ run' \in [Worker -> Run \cup {Idle}]
      /\ \A x, y, v : v \in Held(x, y)' <=>
           IF v = w THEN <<x, y, "delivered">> \in n ELSE v \in Held(x, y)
  BY <1>2, RunRecords
<1>4. ASSUME NEW x, NEW y, <<x, y, "delivered">> \in n
      PROVE  w \in Held(x, y)
  BY <1>4 DEF Held
<1>5. ASSUME NEW x, NEW y, NEW v \in Held(x, y)'
      PROVE  v \in Held(x, y)
  <2>1. CASE v = w
    BY <1>3, <1>4, <1>5, <2>1
  <2>2. CASE v # w
    BY <1>3, <1>5, <2>2
  <2> QED
    BY <2>1, <2>2
<1> QED
  BY <1>3, <1>5

(* The run ends.                                                           *)
LEMMA EndStep ==
  ASSUME TypeOK, NEW w \in Worker, run' = [run EXCEPT ![w] = Idle]
  PROVE  /\ run' \in [Worker -> Run \cup {Idle}]
         /\ \A x, y : Held(x, y)' \subseteq Held(x, y)
<1>1. run' \in [Worker -> Run \cup {Idle}]
  BY DEF TypeOK
<1>2. \A v \in Worker : run'[v] = IF v = w THEN Idle ELSE run[v]
  BY DEF TypeOK
<1> QED
  BY <1>1, <1>2 DEF Held

(* One thing more has left, or nothing.                                    *)
LEMMA LeavesStep ==
  ASSUME TypeOK, NEW u \in User, NEW c \in Channel, Leaves(u, c)
  PROVE  /\ sent' \in Counts
         /\ \A x \in User : \A y \in Channel : sent[x][y] <= sent'[x][y]
<1>1. sent \in [User -> [Channel -> Nat]]
  BY DEF TypeOK, Counts
<1>2. sent' = [sent EXCEPT ![u] = [sent[u] EXCEPT ![c] = @ + 1]]
  BY <1>1 DEF Leaves
<1>3. [sent[u] EXCEPT ![c] = @ + 1] \in [Channel -> Nat]
  BY <1>1
<1>4. sent' \in Counts
  BY <1>1, <1>2, <1>3 DEF Counts
<1>5. ASSUME NEW x \in User, NEW y \in Channel
      PROVE  sent[x][y] <= sent'[x][y]
  <2>1. sent[x][y] \in Nat
    BY <1>1
  <2>2. sent'[x][y] = IF x = u /\ y = c THEN sent[x][y] + 1 ELSE sent[x][y]
    BY <1>1, <1>2
  <2> QED
    BY <2>1, <2>2
<1> QED
  BY <1>4, <1>5

-----------------------------------------------------------------------------
(* The steps of the system, gathered by what they do to the log.           *)

(* Nothing new is held, and nothing is unsent.                             *)
LEMMA Quiet ==
  ASSUME LogInv, run' \in [Worker -> Run \cup {Idle}], sent' \in Counts,
         queue' \in [Message -> Nat], givenUp' \subseteq Job, UNCHANGED <<notice, smtp, rows>>,
         \A x, y : Held(x, y)' \subseteq Held(x, y),
         \A x \in User : \A y \in Channel : sent[x][y] <= sent'[x][y]
  PROVE  LogInv'
<1>1. TypeOK'
  BY DEF LogInv, TypeOK, rows
<1>2. UNCHANGED delivered
  BY DEF rows
<1> QED
  BY <1>1, <1>2, NoMoreHeld

LEMMA SameSent ==
  ASSUME LogInv, UNCHANGED sent
  PROVE  sent' \in Counts /\ \A x \in User : \A y \in Channel : sent[x][y] <= sent'[x][y]
  BY DEF LogInv, TypeOK, Counts

LEMMA SameBroker ==
  ASSUME LogInv, UNCHANGED broker
  PROVE  queue' \in [Message -> Nat] /\ givenUp' \subseteq Job
  BY DEF LogInv, TypeOK, broker

LEMMA RefusedStep ==
  ASSUME LogInv, NEW u \in User, NEW c \in Channel, Refused(u, c)
  PROVE  sent' \in Counts /\ \A x \in User : \A y \in Channel : sent[x][y] <= sent'[x][y]
<1>1. CASE UNCHANGED sent
  BY <1>1, SameSent
<1>2. CASE Leaves(u, c)
  BY <1>2, LeavesStep DEF LogInv
<1> QED
  BY <1>1, <1>2 DEF Refused

LEMMA PublishStep ==
  ASSUME LogInv, NEW job \in Job, NEW retries \in 0..MaxRetries, Publish(job, retries)
  PROVE  queue' \in [Message -> Nat]
<1>1. [job |-> job, retries |-> retries] \in Message
  BY DEF Message
<1>2. queue \in [Message -> Nat]
  BY DEF LogInv, TypeOK
<1> DEFINE m == [job |-> job, retries |-> retries]
<1>3. queue' = [queue EXCEPT ![m] = @ + 1]
  BY DEF Publish
<1> HIDE DEF m
<1> QED
  BY <1>1, <1>2, <1>3 DEF m

(* A delivery that is sent and recorded in one step of its run.            *)
LEMMA Delivers ==
  ASSUME LogInv, NEW w \in Worker, NEW u \in User, NEW c \in Channel, NEW k,
         Does(w, u, k), Accepted(u, c), Record(w, u, c, "delivered"), UNCHANGED <<origin, broker, rows>>
  PROVE  LogInv'
<1>1. Leaves(u, c) /\ UNCHANGED <<notice, smtp>> /\ UNCHANGED rows /\ UNCHANGED delivered
  BY DEF Accepted, origin, rows
<1>2. sent' \in Counts
  BY <1>1, LeavesStep DEF LogInv
<1>3. /\ run' \in [Worker -> Run \cup {Idle}]
      /\ \A x, y : Held(x, y)' \subseteq Held(x, y) \cup (IF x = u /\ y = c THEN {w} ELSE {})
  BY RecordStep DEF LogInv, Status
<1>4. queue' \in [Message -> Nat] /\ givenUp' \subseteq Job
  BY SameBroker
<1>5. TypeOK'
  BY <1>1, <1>2, <1>3, <1>4 DEF LogInv, TypeOK, rows
<1> QED
  BY <1>1, <1>3, <1>5, OneMoreHeld DEF Leaves

(* A mail that nothing sends and that its run records all the same.        *)
LEMMA Drops ==
  ASSUME LogInv, NEW w \in Worker, NEW u \in User, NEW k, Does(w, u, k), ~smtp,
         Record(w, u, "email", "delivered"), UNCHANGED <<origin, broker, rows, sent>>
  PROVE  LogInv'
<1>1. UNCHANGED <<notice, smtp>> /\ UNCHANGED rows /\ UNCHANGED delivered /\ UNCHANGED broker /\ UNCHANGED sent
  BY DEF origin, rows
<1>2. "email" \in Channel
  BY DEF Channel
<1>3. /\ run' \in [Worker -> Run \cup {Idle}]
      /\ \A x, y : Held(x, y)' \subseteq Held(x, y) \cup (IF x = u /\ y = "email" THEN {w} ELSE {})
  BY <1>2, RecordStep DEF LogInv, Status
<1>4. queue' \in [Message -> Nat] /\ givenUp' \subseteq Job
  BY <1>1, SameBroker
<1>5. sent' \in Counts /\ \A x \in User : \A y \in Channel : sent[x][y] <= sent'[x][y]
  BY <1>1, SameSent
<1>6. TypeOK'
  BY <1>1, <1>3, <1>4, <1>5 DEF LogInv, TypeOK, rows
<1>7. \A x, y : Leaving(y) => Held(x, y)' \subseteq Held(x, y)
  BY <1>3 DEF Leaving
<1> QED
  BY <1>1, <1>5, <1>6, <1>7, NoMoreHeld

(* A refusal, recorded as a failure.                                       *)
LEMMA Refuses ==
  ASSUME LogInv, NEW w \in Worker, NEW u \in User, NEW c \in Channel, NEW k,
         Does(w, u, k), Refused(u, c), RecordFailure(w, u, c) \/ Record(w, u, c, "failed"),
         UNCHANGED <<origin, broker, rows>>
  PROVE  LogInv'
<1>1. UNCHANGED <<notice, smtp>> /\ UNCHANGED rows /\ UNCHANGED broker
  BY DEF origin
<1>2. /\ run' \in [Worker -> Run \cup {Idle}]
      /\ \A x, y : Held(x, y)' \subseteq Held(x, y)
  <2>1. CASE RecordFailure(w, u, c)
    BY <2>1, FailureStep DEF LogInv
  <2>2. CASE Record(w, u, c, "failed")
    BY <2>2, RecordStep DEF LogInv, Status
  <2> QED
    BY <2>1, <2>2
<1>3. sent' \in Counts /\ \A x \in User : \A y \in Channel : sent[x][y] <= sent'[x][y]
  BY RefusedStep
<1> QED
  BY <1>1, <1>2, <1>3, SameBroker, Quiet

(* A channel that is skipped; the message of another task may be queued.   *)
LEMMA Skips ==
  ASSUME LogInv, NEW w \in Worker, NEW u \in User, NEW c \in Channel, NEW k,
         Does(w, u, k), Record(w, u, c, "skipped"), UNCHANGED <<origin, broker, rows, sent>>
  PROVE  LogInv'
<1>1. UNCHANGED <<notice, smtp>> /\ UNCHANGED rows /\ UNCHANGED broker /\ UNCHANGED sent
  BY DEF origin
<1>2. /\ run' \in [Worker -> Run \cup {Idle}]
      /\ \A x, y : Held(x, y)' \subseteq Held(x, y)
  BY RecordStep DEF LogInv, Status
<1> QED
  BY <1>1, <1>2, SameBroker, SameSent, Quiet

(* Another state of the run, and whatever else leaves the log alone.       *)
LEMMA Turns ==
  ASSUME LogInv, NEW w \in Worker, run[w] # Idle,
         NEW a \in {"plan", "keep", "retry", "acknowledge"}, NEW p \in Plans,
         NEW n \in {{}, run[w].new}, run' = [run EXCEPT ![w] = With(run[w], a, p, n)],
         queue' \in [Message -> Nat], givenUp' \subseteq Job,
         UNCHANGED <<notice, smtp, rows>>,
         sent' \in Counts /\ \A x \in User : \A y \in Channel : sent[x][y] <= sent'[x][y]
  PROVE  LogInv'
<1>1. /\ run' \in [Worker -> Run \cup {Idle}]
      /\ \A x, y : Held(x, y)' \subseteq Held(x, y)
  BY TurnStep DEF LogInv
<1> QED
  BY <1>1, Quiet

LEMMA SameRun ==
  ASSUME LogInv, UNCHANGED run
  PROVE  run' \in [Worker -> Run \cup {Idle}] /\ \A x, y : Held(x, y)' \subseteq Held(x, y)
<1>1. run' \in [Worker -> Run \cup {Idle}]
  BY DEF LogInv, TypeOK
<1>2. \A x, y : Held(x, y)' = Held(x, y)
  BY DEF Held
<1> QED
  BY <1>1, <1>2

-----------------------------------------------------------------------------
(* The handler.                                                            *)
LEMMA HandlerKeepsLog ==
  ASSUME LogInv, HandlerQueues \/ HandlerCommits \/ HandlerDies
  PROVE  LogInv'
<1>1. UNCHANGED <<notice, smtp>> /\ UNCHANGED rows /\ UNCHANGED run /\ UNCHANGED sent /\ UNCHANGED givenUp
  BY DEF HandlerQueues, HandlerCommits, HandlerDies, HandlerStep, broker
<1>2. queue' \in [Message -> Nat]
  <2>1. CASE HandlerQueues
    <3>1. <<"notice">> \in Job /\ 0 \in 0..MaxRetries
      BY NoticeAssumption DEF Job
    <3> QED
      BY <2>1, <3>1, PublishStep DEF HandlerQueues
  <2>2. CASE UNCHANGED queue
    BY <2>2 DEF LogInv, TypeOK
  <2> QED
    BY <2>1, <2>2 DEF HandlerQueues, HandlerCommits, HandlerDies, HandlerStep, broker
<1>3. givenUp' \subseteq Job
  BY <1>1 DEF LogInv, TypeOK
<1> QED
  BY <1>1, <1>2, <1>3, SameRun, SameSent, Quiet

(* A worker takes a message.                                               *)
LEMMA TakeKeepsLog ==
  ASSUME LogInv, NEW w \in Worker, NEW m \in Message, Take(w, m)
  PROVE  LogInv'
<1>1. UNCHANGED <<notice, smtp>> /\ UNCHANGED rows /\ UNCHANGED sent /\ UNCHANGED givenUp
  BY DEF Take, origin
<1>2. givenUp' \subseteq Job
  BY <1>1 DEF LogInv, TypeOK
<1>3. queue' \in [Message -> Nat]
  BY DEF Take, LogInv, TypeOK
<1> DEFINE Starts(plan) == run' = [run EXCEPT ![w] = [at |-> "plan", message |-> m, plan |-> plan, new |-> {}]]
<1>4. m.job \in Job
  BY DEF Message
<1>5. PICK plan \in Plans : Starts(plan)
  <2>1. CASE m.job = <<"notice">>
    <3>1. Starts(Plan(notice))
      BY <2>1 DEF Take
    <3> QED
      BY <3>1, PlanType DEF LogInv, TypeOK
  <2>2. CASE m.job # <<"notice">> /\ m.job[1] = "sms"
    <3>1. m.job[2] \in User
      BY <1>4, <2>2 DEF Job
    <3>2. <<<<m.job[2], "text">>>> \in Plans
      BY <3>1 DEF Plans, What
    <3>3. Starts(<<<<m.job[2], "text">>>>)
      BY <2>2 DEF Take
    <3> QED
      BY <3>2, <3>3
  <2>3. CASE m.job # <<"notice">> /\ m.job[1] = "push"
    <3>1. m.job[2] \in User
      BY <1>4, <2>3 DEF Job
    <3>2. PICK plan \in {<<<<m.job[2], "none">>>>}
                          \cup UNION {SetToSeqs({m.job[2]} \X D) : D \in (SUBSET Device) \ {{}}} :
            Starts(plan)
      BY <2>3 DEF Take
    <3>3. <<<<m.job[2], "none">>>> \in Plans
      BY <3>1 DEF Plans, What
    <3>4. \A D \in SUBSET Device : SetToSeqs({m.job[2]} \X D) \subseteq Plans
      BY <3>1, PushPlan
    <3>5. plan \in Plans
      BY <3>2, <3>3, <3>4
    <3> QED
      BY <3>2, <3>5
  <2> QED
    BY <1>4, <2>1, <2>2, <2>3 DEF Job
<1> DEFINE r == [at |-> "plan", message |-> m, plan |-> plan, new |-> {}]
<1>6. r \in Run \cup {Idle} /\ r.new = {}
  BY DEF Run
<1>7. run' = [run EXCEPT ![w] = r]
  BY <1>5
<1> HIDE DEF r
<1>8. /\ run' \in [Worker -> Run \cup {Idle}]
      /\ \A x, y, v : v \in Held(x, y)' <=>
           IF v = w THEN r # Idle /\ <<x, y, "delivered">> \in r.new ELSE v \in Held(x, y)
  BY <1>6, <1>7, RunSet DEF LogInv
<1>9. \A x, y : Held(x, y)' \subseteq Held(x, y)
  BY <1>6, <1>8
<1> QED
  BY <1>1, <1>2, <1>3, <1>8, <1>9, SameSent, Quiet

-----------------------------------------------------------------------------
(* The steps of a run.                                                     *)
LEMMA Channels == {"email", "sms", "push"} \subseteq Channel /\ Device \subseteq Channel
  BY DEF Channel

LEMMA LetterKeepsLog ==
  ASSUME LogInv, NEW w \in Worker, NEW u \in User, Letter(w, u)
  PROVE  LogInv'
<1>1. Does(w, u, "link") /\ UNCHANGED <<origin, broker, rows>> /\ "email" \in Channel
  BY Channels DEF Letter
<1>2. CASE MailAccepted(u) /\ Record(w, u, "email", "delivered")
  <2>1. CASE smtp /\ Accepted(u, "email")
    BY <1>1, <1>2, <2>1, Delivers
  <2>2. CASE ~smtp /\ UNCHANGED <<sent, troubles>>
    BY <1>1, <1>2, <2>2, Drops
  <2> QED
    BY <1>2, <2>1, <2>2 DEF MailAccepted
<1>3. CASE MailRefused(u) /\ RecordFailure(w, u, "email")
  BY <1>1, <1>3, Refuses DEF MailRefused
<1> QED
  BY <1>2, <1>3 DEF Letter

LEMMA EmailKeepsLog ==
  ASSUME LogInv, NEW w \in Worker, NEW u \in User, Email(w, u)
  PROVE  LogInv'
<1>1. Does(w, u, "email") /\ UNCHANGED <<origin, broker, rows>> /\ "email" \in Channel
  BY Channels DEF Email
<1>2. CASE MailAccepted(u) /\ Record(w, u, "email", "delivered")
  <2>1. CASE smtp /\ Accepted(u, "email")
    BY <1>1, <1>2, <2>1, Delivers
  <2>2. CASE ~smtp /\ UNCHANGED <<sent, troubles>>
    BY <1>1, <1>2, <2>2, Drops
  <2> QED
    BY <1>2, <2>1, <2>2 DEF MailAccepted
<1>3. CASE MailRefused(u) /\ RecordFailure(w, u, "email")
  BY <1>1, <1>3, Refuses DEF MailRefused
<1>4. CASE Record(w, u, "email", "skipped") /\ UNCHANGED <<sent, troubles>>
  BY <1>1, <1>4, Skips
<1> QED
  BY <1>2, <1>3, <1>4 DEF Email

LEMMA TextKeepsLog ==
  ASSUME LogInv, NEW w \in Worker, NEW u \in User, Text(w, u)
  PROVE  LogInv'
<1>1. Does(w, u, "text") /\ UNCHANGED <<origin, broker, rows>> /\ "sms" \in Channel
  BY Channels DEF Text
<1>2. CASE Accepted(u, "sms") /\ Record(w, u, "sms", "delivered")
  BY <1>1, <1>2, Delivers
<1>3. CASE Refused(u, "sms") /\ RecordFailure(w, u, "sms")
  BY <1>1, <1>3, Refuses
<1>4. CASE Record(w, u, "sms", "skipped") /\ UNCHANGED <<sent, troubles>>
  BY <1>1, <1>4, Skips
<1> QED
  BY <1>2, <1>3, <1>4 DEF Text

LEMMA NoDeviceKeepsLog ==
  ASSUME LogInv, NEW w \in Worker, NEW u \in User, NoDevice(w, u)
  PROVE  LogInv'
<1>1. /\ Does(w, u, "none") /\ Record(w, u, "push", "skipped") /\ "push" \in Channel
      /\ UNCHANGED <<origin, broker, rows, sent>>
  BY Channels DEF NoDevice
<1> QED
  BY <1>1, Skips

(* A missing configuration ends the run with a row of its own.             *)
LEMMA PushKeepsLog ==
  ASSUME LogInv, NEW w \in Worker, NEW u \in User, NEW d \in Device, Push(w, u, d)
  PROVE  LogInv'
<1>1. Does(w, u, d) /\ UNCHANGED <<origin, broker, rows>> /\ d \in Channel
  BY Channels DEF Push
<1>2. CASE Accepted(u, d) /\ Record(w, u, d, "delivered")
  BY <1>1, <1>2, Delivers
<1>3. CASE Refused(u, d) /\ Record(w, u, d, "failed")
  BY <1>1, <1>3, Refuses
<1>4. CASE /\ run' = [run EXCEPT ![w].plan = <<>>, ![w].new = @ \cup {<<u, d, "skipped">>}]
           /\ UNCHANGED <<sent, troubles>>
  <2>1. TypeOK
    BY DEF LogInv
  <2>2. run[w] # Idle /\ run[w].at = "plan"
    BY <1>1, <2>1, AtWork DEF Does, At
  <2>3. run[w].new \subseteq Row /\ run[w] \in Run
    BY <2>1, <2>2, RunFields
  <2> DEFINE n == run[w].new \cup {<<u, d, "skipped">>}
             p == <<>>
  <2>4. n \in SUBSET Row /\ p \in Plans
    BY <1>1, <2>3 DEF Row, Status, Plans
  <2>5. run' = [run EXCEPT ![w] = With(run[w], "plan", p, n)]
    <3>1. [run[w] EXCEPT !.plan = p, !.new = n] = With(run[w], "plan", p, n)
      <4> HIDE DEF n, p
      <4> QED
        BY <2>2, <2>3 DEF Run, With
    <3>2. run' = [run EXCEPT ![w] = [run[w] EXCEPT !.plan = p, !.new = n]]
      BY <1>4, <2>1 DEF TypeOK
    <3> QED
      BY <3>1, <3>2
  <2>6. /\ run' \in [Worker -> Run \cup {Idle}]
        /\ \A x, y, v : v \in Held(x, y)' <=>
             IF v = w THEN <<x, y, "delivered">> \in n ELSE v \in Held(x, y)
    <3> HIDE DEF p, n
    <3>1. "plan" \in {"plan", "keep", "retry", "acknowledge"}
      OBVIOUS
    <3> QED
      BY <2>1, <2>2, <2>4, <2>5, <3>1, RunRecords
  <2>7. ASSUME NEW x, NEW y, <<x, y, "delivered">> \in n
        PROVE  w \in Held(x, y)
    BY <2>2, <2>7 DEF Held
  <2> HIDE DEF n, p
  <2>8. ASSUME NEW x, NEW y, NEW v \in Held(x, y)'
        PROVE  v \in Held(x, y)
    <3>1. CASE v = w
      BY <2>6, <2>7, <2>8, <3>1
    <3>2. CASE v # w
      BY <2>6, <2>8, <3>2
    <3> QED
      BY <3>1, <3>2
  <2>9. UNCHANGED <<notice, smtp>> /\ UNCHANGED rows /\ UNCHANGED broker /\ UNCHANGED sent
    BY <1>1, <1>4 DEF origin
  <2> QED
    BY <2>6, <2>8, <2>9, SameBroker, SameSent, Quiet
<1> QED
  BY <1>2, <1>3, <1>4 DEF Push

(* The alert has no row.                                                   *)
LEMMA AlertKeepsLog ==
  ASSUME LogInv, NEW w \in Worker, NEW u \in User, Alert(w, u)
  PROVE  LogInv'
<1>1. Does(w, u, "alert") /\ UNCHANGED <<notice, smtp>> /\ UNCHANGED rows /\ UNCHANGED broker
  BY DEF Alert, origin
<1>2. TypeOK
  BY DEF LogInv
<1>3. run[w] # Idle /\ run[w].plan \in Plans /\ run[w] \in Run
  BY <1>1, <1>2, AtWork, RunFields DEF Does
<1>4. PICK a \in {"acknowledge", "retry"} : run' = [run EXCEPT ![w].at = a]
  BY DEF Alert
<1>5. run' = [run EXCEPT ![w] = With(run[w], a, run[w].plan, run[w].new)]
  <2>1. [run[w] EXCEPT !.at = a] = With(run[w], a, run[w].plan, run[w].new)
    BY <1>3 DEF Run, With
  <2>2. run' = [run EXCEPT ![w] = [run[w] EXCEPT !.at = a]]
    BY <1>2, <1>4 DEF TypeOK
  <2> QED
    BY <2>1, <2>2
<1>6. sent' \in Counts /\ \A x \in User : \A y \in Channel : sent[x][y] <= sent'[x][y]
  <2>1. CASE Accepted(u, "email")
    BY <1>2, <2>1, LeavesStep, Channels DEF Accepted
  <2>2. CASE Refused(u, "email")
    BY <2>2, RefusedStep, Channels
  <2>3. CASE UNCHANGED sent
    BY <2>3, SameSent
  <2> QED
    BY <2>1, <2>2, <2>3 DEF Alert, MailAccepted, MailRefused
<1>7. queue' \in [Message -> Nat] /\ givenUp' \subseteq Job
  BY <1>1, SameBroker
<1> QED
  BY <1>1, <1>3, <1>5, <1>6, <1>7, Turns

(* A text or a push is queued for a task of its own, or skipped.           *)
LEMMA QueuesKeepsLog ==
  ASSUME LogInv, NEW w \in Worker, NEW u \in User, NEW k \in {"sms", "push"},
         Does(w, u, k), UNCHANGED <<origin, givenUp, lost, rows, sent, troubles>>,
         \/ Publish(<<k, u>>, 0) /\ run' = [run EXCEPT ![w].plan = Tail(@)]
         \/ Record(w, u, k, "skipped") /\ UNCHANGED queue
  PROVE  LogInv'
<1>1. k \in Channel /\ <<k, u>> \in Job /\ 0 \in 0..MaxRetries
  BY Channels, NoticeAssumption DEF Job
<1>2. CASE Record(w, u, k, "skipped") /\ UNCHANGED queue
  <2>1. UNCHANGED <<origin, broker, rows, sent>>
    BY <1>2 DEF broker
  <2> QED
    BY <1>1, <1>2, <2>1, Skips
<1>3. CASE Publish(<<k, u>>, 0) /\ run' = [run EXCEPT ![w].plan = Tail(@)]
  <2>1. TypeOK
    BY DEF LogInv
  <2>2. run[w] # Idle /\ run[w].at = "plan" /\ run[w].plan # <<>>
    BY <2>1, AtWork DEF Does, At
  <2>3. run[w].plan \in Plans /\ run[w] \in Run
    BY <2>1, <2>2, RunFields
  <2> DEFINE p == Tail(run[w].plan)
  <2>4. p \in Plans
    BY <2>2, <2>3, PlanTail
  <2>5. run' = [run EXCEPT ![w] = With(run[w], "plan", p, run[w].new)]
    <3>1. [run[w] EXCEPT !.plan = p] = With(run[w], "plan", p, run[w].new)
      <4> HIDE DEF p
      <4> QED
        BY <2>2, <2>3 DEF Run, With
    <3>2. run' = [run EXCEPT ![w] = [run[w] EXCEPT !.plan = p]]
      BY <1>3, <2>1 DEF TypeOK
    <3> QED
      BY <3>1, <3>2
  <2>6. queue' \in [Message -> Nat]
    BY <1>1, <1>3, PublishStep
  <2>7. givenUp' \subseteq Job
    BY <2>1 DEF TypeOK
  <2>8. UNCHANGED <<notice, smtp, rows>> /\ UNCHANGED sent
    BY DEF origin
  <2>9. "plan" \in {"plan", "keep", "retry", "acknowledge"} /\ run[w].new \in {{}, run[w].new}
    OBVIOUS
  <2> HIDE DEF p
  <2>10. sent' \in Counts /\ \A x \in User : \A y \in Channel : sent[x][y] <= sent'[x][y]
    BY <2>8, SameSent
  <2> QED
    BY <2>2, <2>4, <2>5, <2>6, <2>7, <2>8, <2>9, <2>10, Turns
<1> QED
  BY <1>2, <1>3

LEMMA QueueSmsKeepsLog ==
  ASSUME LogInv, NEW w \in Worker, NEW u \in User, QueueSms(w, u)
  PROVE  LogInv'
  BY QueuesKeepsLog DEF QueueSms

LEMMA QueuePushKeepsLog ==
  ASSUME LogInv, NEW w \in Worker, NEW u \in User, QueuePush(w, u)
  PROVE  LogInv'
  BY QueuesKeepsLog DEF QueuePush

(* The commit: what was held becomes part of the log.                      *)
LEMMA CommitKeepsLog ==
  ASSUME LogInv, NEW w \in Worker, Commit(w)
  PROVE  LogInv'
<1>1. TypeOK
  BY DEF LogInv
<1>2. run[w] # Idle /\ run[w].at \in {"plan", "keep"}
  BY <1>1, AtWork DEF Commit, At
<1>3. run[w] \in Run /\ run[w].plan \in Plans /\ run[w].new \subseteq Row
  BY <1>1, <1>2, RunFields
<1> DEFINE a == IF run[w].at = "keep" THEN "retry" ELSE "acknowledge"
           n == {}
<1>4. run' = [run EXCEPT ![w] = With(run[w], a, run[w].plan, n)]
  <2>1. [run[w] EXCEPT !.at = a, !.new = n] = With(run[w], a, run[w].plan, n)
    <3> HIDE DEF a, n
    <3> QED
      BY <1>3 DEF Run, With
  <2>2. run' = [run EXCEPT ![w] = [run[w] EXCEPT !.at = a, !.new = n]]
    BY <1>1, <1>2 DEF TypeOK, Commit
  <2> QED
    BY <2>1, <2>2
<1>5. a \in {"plan", "keep", "retry", "acknowledge"} /\ n \in SUBSET Row
  OBVIOUS
<1>6. /\ run' \in [Worker -> Run \cup {Idle}]
      /\ \A x, y, v : v \in Held(x, y)' <=>
           IF v = w THEN <<x, y, "delivered">> \in n ELSE v \in Held(x, y)
  <2> DEFINE p == run[w].plan
  <2>1. run[w] # Idle /\ p \in Plans /\ run' = [run EXCEPT ![w] = With(run[w], a, p, n)]
    BY <1>2, <1>3, <1>4
  <2> HIDE DEF a, n, p
  <2>2. run' \in [Worker -> Run \cup {Idle}]
    BY <1>1, <1>5, <2>1, RunRecords, Zenon
  <2>3. \A x, y, v : v \in Held(x, y)' <=>
           IF v = w THEN <<x, y, "delivered">> \in n ELSE v \in Held(x, y)
    BY <1>1, <1>5, <2>1, RunRecords
  <2> QED
    BY <2>2, <2>3
<1>7. \A x, y : Held(x, y)' = Held(x, y) \ {w}
  BY <1>6
<1>8. /\ delivered' = [u \in User |-> [c \in Channel |->
            delivered[u][c] + IF <<u, c, "delivered">> \in run[w].new THEN 1 ELSE 0]]
      /\ noted' = noted \cup {r \in run[w].new : r[3] # "delivered"}
      /\ UNCHANGED <<notice, smtp, broker, sent>>
  BY DEF Commit, Keep, origin
<1>9. delivered \in [User -> [Channel -> Nat]] /\ sent \in [User -> [Channel -> Nat]]
  BY <1>1 DEF TypeOK, Counts
<1>10. \A u \in User : \A c \in Channel :
         delivered[u][c] + (IF <<u, c, "delivered">> \in run[w].new THEN 1 ELSE 0) \in Nat
  BY <1>9
<1>11. delivered' \in Counts
  BY <1>8, <1>10 DEF Counts
<1>12. TypeOK'
  BY <1>1, <1>3, <1>6, <1>8, <1>11, SameBroker DEF TypeOK, broker
<1>13. ASSUME NEW u \in User, NEW c \in Channel, Leaving(c)
       PROVE  delivered'[u][c] + Cardinality(Held(u, c)') <= sent'[u][c]
  <2> DEFINE before == Held(u, c)
  <2>1. IsFiniteSet(before) /\ Cardinality(before) \in Nat
    BY HeldCount
  <2>2. Held(u, c)' = before \ {w}
    BY <1>7
  <2>3. w \in before <=> <<u, c, "delivered">> \in run[w].new
    BY <1>2 DEF Held
  <2>4. delivered[u][c] + Cardinality(before) <= sent[u][c]
    BY <1>13 DEF LogInv, Logged
  <2>5. delivered'[u][c] = delivered[u][c] + (IF <<u, c, "delivered">> \in run[w].new THEN 1 ELSE 0)
    BY <1>8
  <2>6. delivered[u][c] \in Nat /\ sent[u][c] \in Nat /\ sent'[u][c] = sent[u][c]
    BY <1>8, <1>9
  <2> HIDE DEF before
  <2> DEFINE after == before \ {w}
  <2>7. Cardinality(after) = IF w \in before THEN Cardinality(before) - 1 ELSE Cardinality(before)
    <3>1. CASE w \in before
      BY <2>1, <3>1, FS_RemoveElement
    <3>2. CASE w \notin before
      <4>1. after = before
        BY <3>2
      <4> QED
        BY <3>2, <4>1
    <3> QED
      BY <3>1, <3>2
  <2> HIDE DEF after
  <2>8. delivered'[u][c] + Cardinality(after) <= sent'[u][c]
    BY <2>1, <2>3, <2>4, <2>5, <2>6, <2>7
  <2> QED
    BY <2>2, <2>8 DEF after
<1>14. \A c : Leaving(c)' => Leaving(c)
  BY <1>8 DEF Leaving
<1> QED
  BY <1>12, <1>13, <1>14 DEF LogInv, Logged

LEMMA RetryKeepsLog ==
  ASSUME LogInv, NEW w \in Worker, Retry(w)
  PROVE  LogInv'
<1>1. TypeOK
  BY DEF LogInv
<1>2. run[w] # Idle /\ run[w].at = "retry"
  BY <1>1, AtWork DEF Retry, At
<1>3. run[w] \in Run /\ run[w].message \in Message
  BY <1>1, <1>2, RunFields
<1> DEFINE p == <<>>
<1>4. p \in Plans
  BY DEF Plans
<1>5. run' = [run EXCEPT ![w] = With(run[w], "acknowledge", p, run[w].new)]
  <2>1. [run[w] EXCEPT !.at = "acknowledge", !.plan = p] = With(run[w], "acknowledge", p, run[w].new)
    <3> HIDE DEF p
    <3> QED
      BY <1>3 DEF Run, With
  <2>2. run' = [run EXCEPT ![w] = [run[w] EXCEPT !.at = "acknowledge", !.plan = p]]
    BY <1>1 DEF TypeOK, Retry
  <2> QED
    BY <2>1, <2>2
<1> DEFINE m == run[w].message
<1>6. m.job \in Job /\ m.retries \in 0..MaxRetries
  BY <1>3 DEF Message
<1>7. queue' \in [Message -> Nat] /\ givenUp' \subseteq Job
  <2>1. CASE m.retries < MaxRetries
    <3>1. m.retries + 1 \in 0..MaxRetries
      BY <1>6, <2>1, NoticeAssumption
    <3>2. Publish(m.job, m.retries + 1) /\ UNCHANGED givenUp
      BY <2>1 DEF Retry
    <3> HIDE DEF m
    <3> QED
      BY <1>1, <1>6, <3>1, <3>2, PublishStep DEF TypeOK
  <2>2. CASE ~(m.retries < MaxRetries)
    <3>1. givenUp' = givenUp \cup {m.job} /\ UNCHANGED queue
      BY <2>2 DEF Retry
    <3> QED
      BY <1>1, <1>6, <3>1 DEF TypeOK
  <2> QED
    BY <2>1, <2>2
<1>8. UNCHANGED <<notice, smtp, rows>> /\ UNCHANGED sent
  BY DEF Retry, origin
<1>9. sent' \in Counts /\ \A x \in User : \A y \in Channel : sent[x][y] <= sent'[x][y]
  BY <1>8, SameSent
<1>10. "acknowledge" \in {"plan", "keep", "retry", "acknowledge"} /\ run[w].new \in {{}, run[w].new}
  OBVIOUS
<1> HIDE DEF p
<1> QED
  BY <1>2, <1>4, <1>5, <1>7, <1>8, <1>9, <1>10, Turns

(* The database refuses a statement: what was held is rolled back.         *)
LEMMA FaultKeepsLog ==
  ASSUME LogInv, NEW w \in Worker, Fault(w)
  PROVE  LogInv'
<1>1. TypeOK /\ run[w] # Idle
  BY DEF LogInv, Fault
<1>2. run[w] \in Run /\ run[w].plan \in Plans
  BY <1>1, RunFields
<1> DEFINE n == {}
           p == run[w].plan
<1>3. run' = [run EXCEPT ![w] = With(run[w], "retry", p, n)]
  <2>1. [run[w] EXCEPT !.at = "retry", !.new = n] = With(run[w], "retry", p, n)
    <3> HIDE DEF n
    <3> QED
      BY <1>2 DEF Run, With
  <2>2. run' = [run EXCEPT ![w] = [run[w] EXCEPT !.at = "retry", !.new = n]]
    BY <1>1 DEF TypeOK, Fault
  <2> QED
    BY <2>1, <2>2
<1>4. "retry" \in {"plan", "keep", "retry", "acknowledge"} /\ n \in {{}, run[w].new} /\ p \in Plans
  BY <1>2
<1>5. UNCHANGED <<notice, smtp, rows>> /\ UNCHANGED broker /\ UNCHANGED sent
  BY DEF Fault, origin
<1>6. sent' \in Counts /\ \A x \in User : \A y \in Channel : sent[x][y] <= sent'[x][y]
  BY <1>5, SameSent
<1>7. queue' \in [Message -> Nat] /\ givenUp' \subseteq Job
  BY <1>5, SameBroker
<1> HIDE DEF n, p
<1> QED
  BY <1>1, <1>3, <1>4, <1>5, <1>6, <1>7, Turns

(* A run ends, by its acknowledgement or by a death.                       *)
LEMMA EndsKeepLog ==
  ASSUME LogInv, NEW w \in Worker, Acknowledge(w) \/ WorkerDies(w) \/ ProcessDies(w)
  PROVE  LogInv'
<1>1. TypeOK
  BY DEF LogInv
<1>2. /\ run' = [run EXCEPT ![w] = Idle]
      /\ UNCHANGED <<notice, smtp>> /\ UNCHANGED rows /\ UNCHANGED sent /\ UNCHANGED givenUp
  BY DEF Acknowledge, WorkerDies, ProcessDies, origin, broker
<1>3. givenUp' \subseteq Job
  BY <1>1, <1>2 DEF TypeOK
<1>4. queue' \in [Message -> Nat]
  <2>1. CASE UNCHANGED queue
    BY <1>1, <2>1 DEF TypeOK
  <2>2. CASE WorkerDies(w)
    <3>1. run[w] # Idle
      BY <2>2 DEF WorkerDies
    <3> DEFINE m == run[w].message
    <3>2. m \in Message
      BY <1>1, <3>1, RunFields
    <3>3. queue' = [queue EXCEPT ![m] = @ + 1]
      BY <2>2 DEF WorkerDies
    <3> HIDE DEF m
    <3> QED
      BY <1>1, <3>2, <3>3 DEF TypeOK
  <2> QED
    BY <2>1, <2>2 DEF Acknowledge, ProcessDies, broker
<1>5. run' \in [Worker -> Run \cup {Idle}] /\ \A x, y : Held(x, y)' \subseteq Held(x, y)
  BY <1>1, <1>2, EndStep
<1> QED
  BY <1>2, <1>3, <1>4, <1>5, SameSent, Quiet

-----------------------------------------------------------------------------
LEMMA LogInit == Init => LogInv
<1> SUFFICES ASSUME Init PROVE LogInv
  OBVIOUS
<1>1. Zero \in Counts /\ \A u \in User : \A c \in Channel : Zero[u][c] = 0
  BY DEF Zero, Counts
<1>2. TypeOK
  BY <1>1 DEF Init, TypeOK
<1>3. \A w \in Worker : run[w] = Idle
  BY DEF Init
<1>4. \A x, y : Held(x, y) = {}
  BY <1>3 DEF Held
<1>5. \A x \in User : \A y \in Channel : delivered[x][y] + Cardinality(Held(x, y)) <= sent[x][y]
  <2> SUFFICES ASSUME NEW x \in User, NEW y \in Channel
               PROVE  delivered[x][y] + Cardinality(Held(x, y)) <= sent[x][y]
    OBVIOUS
  <2>1. Cardinality(Held(x, y)) = 0
    BY <1>4, FS_EmptySet
  <2>2. delivered[x][y] = 0 /\ sent[x][y] = 0
    BY <1>1 DEF Init
  <2> QED
    BY <2>1, <2>2
<1> QED
  BY <1>2, <1>5 DEF LogInv, Logged

LEMMA LogNext == LogInv /\ [Next]_vars => LogInv'
<1> SUFFICES ASSUME LogInv, [Next]_vars PROVE LogInv'
  OBVIOUS
<1>1. CASE UNCHANGED vars
  <2>1. UNCHANGED <<notice, smtp, rows>> /\ UNCHANGED broker /\ UNCHANGED sent /\ UNCHANGED run
    BY <1>1 DEF vars, origin
  <2> QED
    BY <2>1, SameRun, SameSent, SameBroker, Quiet
<1>2. CASE HandlerQueues \/ HandlerCommits \/ HandlerDies
  BY <1>2, HandlerKeepsLog
<1>3. ASSUME NEW w \in Worker, Work(w)
      PROVE  LogInv'
  <2>1. CASE \E m \in Message : Take(w, m)
    BY <2>1, TakeKeepsLog
  <2>2. CASE Commit(w) \/ Retry(w) \/ Acknowledge(w)
    BY <2>2, CommitKeepsLog, RetryKeepsLog, EndsKeepLog
  <2>3. ASSUME NEW u \in User,
               \/ Letter(w, u) \/ Alert(w, u) \/ Email(w, u) \/ QueueSms(w, u) \/ QueuePush(w, u)
               \/ Text(w, u) \/ NoDevice(w, u) \/ \E d \in Device : Push(w, u, d)
        PROVE  LogInv'
    BY <2>3, LetterKeepsLog, AlertKeepsLog, EmailKeepsLog, QueueSmsKeepsLog, QueuePushKeepsLog,
       TextKeepsLog, NoDeviceKeepsLog, PushKeepsLog
  <2> QED
    BY <1>3, <2>1, <2>2, <2>3 DEF Work
<1>4. ASSUME NEW w \in Worker, Fault(w) \/ WorkerDies(w) \/ ProcessDies(w)
      PROVE  LogInv'
  BY <1>4, FaultKeepsLog, EndsKeepLog
<1> QED
  BY <1>1, <1>2, <1>3, <1>4 DEF Next

(* At every moment of every run, the rows that are committed or waiting    *)
(* for the commit of their run are no more than what has left the tasks of *)
(* tasks/notifications.py, per recipient and channel; e-mail without an    *)
(* SMTP_HOST is excepted (Leaving).                                        *)
THEOREM LogSafe == Spec => []LogInv
  BY LogInit, LogNext, PTL DEF Spec

(* The delivery log never claims a delivery that did not leave, through    *)
(* rollbacks, retries, repeated runs and deaths of any number of workers:  *)
(* each task sends first, records then, and commits last.  The exception   *)
(* is the e-mail of a deployment without an SMTP_HOST, which is logged as  *)
(* delivered and dropped.                                                  *)
THEOREM TheLogIsTrue == Spec => []DeliveredWasSent
<1>1. LogInv => DeliveredWasSent
  <2> SUFFICES ASSUME LogInv, NEW u \in User, NEW c \in Channel, Leaving(c)
               PROVE  delivered[u][c] <= sent[u][c]
    BY DEF DeliveredWasSent
  <2>1. Cardinality(Held(u, c)) \in Nat
    BY HeldCount
  <2>2. delivered[u][c] \in Nat /\ sent[u][c] \in Nat
    BY DEF LogInv, TypeOK, Counts
  <2>3. delivered[u][c] + Cardinality(Held(u, c)) <= sent[u][c]
    BY DEF LogInv, Logged
  <2> QED
    BY <2>1, <2>2, <2>3
<1> QED
  BY <1>1, LogSafe, PTL

-----------------------------------------------------------------------------
(* Nobody is forgotten.                                                    *)

Incident == {"sent", "fault", "crash"}

Tasks == {"link", "email", "sms", "push"}
Steps(plan) == {plan[i] : i \in DOMAIN plan}

(* The channels whose rows account for a step.                             *)
Accounts(k) ==
  IF k \in {"link", "email"} THEN {"email"}
  ELSE IF k \in {"sms", "text"} THEN {"sms"} ELSE {"push"} \cup Device

Reported(u, k)  == \E c \in Accounts(k) : Told(u, c)
Jotted(w, u, k) == \E c \in Accounts(k), s \in Status : <<u, c, s>> \in run[w].new

Busy(w, job) == run[w] # Idle /\ run[w].message.job = job

(* Somebody will, or may still, do the job.                                *)
Carried(job) ==
  \/ \E m \in Message : m.job = job /\ queue[m] > 0
  \/ \E w \in Worker : Busy(w, job) /\ run[w].at # "acknowledge"

(* A step of the notice is reported, or left to a job of its own.          *)
Dealt(u, k) == Reported(u, k) \/ (k \in {"sms", "push"} /\ Carried(<<k, u>>))

Duties == Steps(Plan(notice))

(* What the plans of the runs consist of.                                  *)
PlansFit ==
  \A w \in Worker : run[w] # Idle =>
    /\ Busy(w, <<"notice">>) => Steps(run[w].plan) \subseteq Duties
    /\ \A u \in User :
         /\ Busy(w, <<"sms", u>>)  => Steps(run[w].plan) \subseteq {<<u, "text">>}
         /\ Busy(w, <<"push", u>>) => Steps(run[w].plan) \subseteq {u} \X ({"none"} \cup Device)

Stopped == \E u \in Recipients(notice) : <<u, "email", "failed">> \in noted

(* A run of the notice has dealt with what is no longer in its plan.       *)
NoticeRun(w) ==
  Busy(w, <<"notice">>) =>
    /\ At(w, "plan") => \A u \in User, k \in Tasks : <<u, k>> \in Duties =>
         <<u, k>> \in Steps(run[w].plan) \/ Jotted(w, u, k) \/ Dealt(u, k)
    /\ At(w, "keep") => \E u \in Recipients(notice) : <<u, "email", "failed">> \in run[w].new
    /\ At(w, "retry") => Happened("fault") \/ Stopped

(* A run for one channel leaves a row unless the database refuses it.      *)
ChannelRun(w) ==
  \A u \in User, k \in {"sms", "push"} : Busy(w, <<k, u>>) =>
    /\ At(w, "plan") => run[w].plan # <<>> \/ Jotted(w, u, k)
    /\ At(w, "keep") => Jotted(w, u, k)
    /\ At(w, "retry") => Happened("fault") \/ Reported(u, k)

(* The notice is on its way, stopped at an e-mail, or dealt with.          *)
NoticeKept ==
  "queue" \in done =>
    \/ Carried(<<"notice">>)
    \/ <<"notice">> \in givenUp /\ Stopped
    \/ \A u \in User, k \in Tasks : <<u, k>> \in Duties => Dealt(u, k)

Excused == lost \/ notice = "documents" \/ (Happened("fault") /\ givenUp # {})

AccountInv ==
  /\ LogInv /\ troubles \in Seq(Incident) /\ PlansFit
  /\ ~Excused => (\A w \in Worker : NoticeRun(w) /\ ChannelRun(w)) /\ NoticeKept

(* What no step takes back.                                                *)
Grows ==
  /\ notice' = notice /\ done \subseteq done'
  /\ lost => lost'
  /\ Happened("fault") => Happened("fault")'
  /\ Happened("crash") => Happened("crash")'
  /\ givenUp \subseteq givenUp' /\ noted \subseteq noted'
  /\ \A u \in User, c \in Channel : delivered[u][c] > 0 => delivered'[u][c] > 0

SameElsewhere(w) == \A v \in Worker \ {w} : run'[v] = run[v]

(* The run of w goes on with the same message.                             *)
Goes(w, a, p, n) ==
  /\ run[w] # Idle /\ run'[w] # Idle /\ SameElsewhere(w)
  /\ run'[w].message = run[w].message
  /\ run'[w].at = a /\ run'[w].plan = p /\ run'[w].new = n

-----------------------------------------------------------------------------
(* Steps of plans.                                                         *)
LEMMA StepsOfTail ==
  ASSUME NEW p \in Plans, p # <<>>
  PROVE  /\ Head(p) \in Steps(p) /\ Steps(Tail(p)) \subseteq Steps(p)
         /\ Steps(p) \subseteq Steps(Tail(p)) \cup {Head(p)}
<1>1. p \in Seq(User \X What) /\ Len(p) \in Nat /\ DOMAIN p = 1..Len(p) /\ Len(p) > 0
  BY EmptySeq, LenProperties DEF Plans
<1>2. /\ Tail(p) \in Seq(User \X What) /\ Len(Tail(p)) = Len(p) - 1
      /\ \A i \in 1..Len(Tail(p)) : Tail(p)[i] = p[i + 1]
  BY <1>1, HeadTailProperties
<1>3. DOMAIN Tail(p) = 1..(Len(p) - 1)
  BY <1>2, LenProperties
<1>4. Head(p) = p[1] /\ 1 \in 1..Len(p)
  BY <1>1
<1> DEFINE t == Tail(p)
<1> HIDE DEF t
<1>5. ASSUME NEW i \in 1..(Len(p) - 1)
      PROVE  i + 1 \in 1..Len(p) /\ t[i] = p[i + 1]
  BY <1>1, <1>2 DEF t
<1>6. ASSUME NEW i \in 1..Len(p), i # 1
      PROVE  \E j \in 1..(Len(p) - 1) : p[i] = t[j]
  <2>1. i - 1 \in 1..(Len(p) - 1) /\ i = (i - 1) + 1
    BY <1>1, <1>6
  <2> QED
    BY <1>5, <2>1
<1>7. DOMAIN t = 1..(Len(p) - 1)
  BY <1>3 DEF t
<1>8. Head(p) \in Steps(p)
  BY <1>1, <1>4 DEF Steps
<1>9. Steps(t) \subseteq Steps(p)
  BY <1>1, <1>5, <1>7 DEF Steps
<1>10. ASSUME NEW i \in 1..Len(p)
       PROVE  p[i] \in Steps(t) \cup {Head(p)}
  <2>1. CASE i = 1
    BY <1>4, <2>1
  <2>2. CASE i # 1
    BY <1>6, <1>7, <2>2 DEF Steps
  <2> QED
    BY <2>1, <2>2
<1>11. Steps(p) \subseteq Steps(t) \cup {Head(p)}
  BY <1>1, <1>10 DEF Steps
<1> QED
  BY <1>8, <1>9, <1>11 DEF t

LEMMA StepsOfAll ==
  ASSUME NEW u \in User
  PROVE  Steps(AllChannels(u)) = {<<u, "email">>, <<u, "sms">>, <<u, "push">>}
<1>1. DOMAIN AllChannels(u) = {1, 2, 3}
  BY DEF AllChannels
<1> QED
  BY <1>1 DEF Steps, AllChannels

LEMMA StepsOfBoth ==
  ASSUME NEW p \in Plans, NEW q \in Plans
  PROVE  Steps(p \o q) = Steps(p) \cup Steps(q)
<1>1. /\ p \o q \in Seq(User \X What) /\ Len(p \o q) = Len(p) + Len(q)
      /\ \A i \in 1..(Len(p) + Len(q)) : (p \o q)[i] = IF i <= Len(p) THEN p[i] ELSE q[i - Len(p)]
  BY ConcatProperties DEF Plans
<1>2. /\ Len(p) \in Nat /\ DOMAIN p = 1..Len(p) /\ Len(q) \in Nat /\ DOMAIN q = 1..Len(q)
      /\ DOMAIN (p \o q) = 1..(Len(p) + Len(q))
  BY <1>1, LenProperties DEF Plans
<1> DEFINE b == p \o q
<1> HIDE DEF b
<1>3. ASSUME NEW i \in 1..(Len(p) + Len(q))
      PROVE  b[i] \in Steps(p) \cup Steps(q)
  <2>1. CASE i <= Len(p)
    <3>1. i \in 1..Len(p) /\ b[i] = p[i]
      BY <1>1, <1>2, <2>1 DEF b
    <3> QED
      BY <1>2, <3>1 DEF Steps
  <2>2. CASE ~(i <= Len(p))
    <3>1. i - Len(p) \in 1..Len(q)
      BY <1>2, <2>2
    <3>2. b[i] = q[i - Len(p)]
      BY <1>1, <2>2 DEF b
    <3> QED
      BY <1>2, <3>1, <3>2 DEF Steps
  <2> QED
    BY <2>1, <2>2
<1>4. ASSUME NEW i \in 1..Len(p)
      PROVE  i \in 1..(Len(p) + Len(q)) /\ b[i] = p[i]
  BY <1>1, <1>2 DEF b
<1>5. ASSUME NEW i \in 1..Len(q)
      PROVE  i + Len(p) \in 1..(Len(p) + Len(q)) /\ b[i + Len(p)] = q[i]
  BY <1>1, <1>2 DEF b
<1>6. Steps(b) \subseteq Steps(p) \cup Steps(q)
  BY <1>2, <1>3 DEF Steps, b
<1>7. Steps(p) \subseteq Steps(b) /\ Steps(q) \subseteq Steps(b)
  <2>1. DOMAIN b = 1..(Len(p) + Len(q))
    BY <1>2 DEF b
  <2> QED
    BY <1>2, <1>4, <1>5, <2>1 DEF Steps
<1> QED
  BY <1>6, <1>7 DEF b

(* The duties of a notice that is not for the admins.                      *)
LEMMA DutiesAre ==
  ASSUME notice \in Notice, notice # "documents"
  PROVE  /\ Duties \subseteq Recipients(notice) \X Tasks
         /\ Recipients(notice) \subseteq User
         /\ \A u \in Recipients(notice) :
              IF notice \in Link THEN <<u, "link">> \in Duties
              ELSE {<<u, "email">>, <<u, "sms">>, <<u, "push">>} \subseteq Duties
<1>1. "parent" \in User /\ "teacher" \in User
  BY DEF User
<1>2. notice \in {"verify link", "reset link", "booking", "verification", "payout", "refund"}
  BY NoticeAssumption DEF Link, Decided
<1>3. Recipients(notice) = {d[1] : d \in Duties}
  BY DEF Recipients, Duties, Steps
<1> DEFINE To(u) == {<<u, "email">>, <<u, "sms">>, <<u, "push">>}
<1>4. CASE notice \in Link
  <2>1. Plan(notice) = <<<<"parent", "link">>>>
    BY <1>4 DEF Link, Plan, send_email_verification_message, send_password_reset_message
  <2>2. Duties = {<<"parent", "link">>}
    BY <2>1 DEF Duties, Steps
  <2> QED
    BY <1>1, <1>3, <1>4, <2>2 DEF Tasks
<1>5. CASE notice = "booking"
  <2>1. Plan(notice) = AllChannels("parent") \o AllChannels("teacher")
    BY <1>5 DEF Plan, send_booking_confirmation
  <2>2. Duties = To("parent") \cup To("teacher")
    BY <1>1, <2>1, AllChannelsPlan, StepsOfAll, StepsOfBoth DEF Duties
  <2> QED
    BY <1>1, <1>3, <1>5, <2>2 DEF Tasks, Link
<1>6. ASSUME NEW u \in User, Plan(notice) = AllChannels(u), notice \notin Link
      PROVE  /\ Duties \subseteq Recipients(notice) \X Tasks
             /\ Recipients(notice) \subseteq User
             /\ \A x \in Recipients(notice) : To(x) \subseteq Duties
  <2>1. Duties = To(u)
    BY <1>6, StepsOfAll DEF Duties
  <2> QED
    BY <1>3, <2>1 DEF Tasks
<1>7. CASE notice \in {"verification", "payout"}
  <2>1. Plan(notice) = AllChannels("teacher") /\ notice \notin Link
    BY <1>7 DEF Plan, notify_teacher_verification_result, send_payout_notification, Link
  <2> QED
    BY <1>1, <1>6, <2>1
<1>8. CASE notice = "refund"
  <2>1. Plan(notice) = AllChannels("parent") /\ notice \notin Link
    BY <1>8 DEF Plan, send_refund_notification, Link
  <2> QED
    BY <1>1, <1>6, <2>1
<1> QED
  BY <1>2, <1>4, <1>5, <1>7, <1>8 DEF Link

-----------------------------------------------------------------------------
(* Every step only adds: rows, incidents, what has been done or given up.  *)
LEMMA TroubleStep ==
  ASSUME troubles \in Seq(Incident), NEW what \in Incident, Trouble(what)
  PROVE  /\ troubles' \in Seq(Incident)
         /\ \A x : Happened(x) => Happened(x)'
         /\ Happened(what)'
<1>1. troubles' = Append(troubles, what)
  BY DEF Trouble
<1>2. /\ troubles' \in Seq(Incident) /\ Len(troubles') = Len(troubles) + 1
      /\ \A i \in 1..Len(troubles) : troubles'[i] = troubles[i]
      /\ troubles'[Len(troubles) + 1] = what
  BY <1>1
<1>3. DOMAIN troubles = 1..Len(troubles) /\ DOMAIN troubles' = 1..(Len(troubles) + 1) /\ Len(troubles) \in Nat
  BY <1>2, LenProperties
<1>4. ASSUME NEW x, Happened(x)
      PROVE  Happened(x)'
  <2>1. PICK i \in 1..Len(troubles) : troubles[i] = x
    BY <1>3, <1>4 DEF Happened
  <2>2. i \in 1..(Len(troubles) + 1) /\ troubles'[i] = x
    BY <1>2, <1>3, <2>1
  <2> QED
    BY <1>3, <2>2 DEF Happened
<1>5. Len(troubles) + 1 \in DOMAIN troubles'
  BY <1>3
<1> QED
  BY <1>2, <1>4, <1>5 DEF Happened

LEMMA KeepStep ==
  ASSUME TypeOK, NEW w \in Worker, run[w] # Idle, Keep(w)
  PROVE  /\ noted \subseteq noted'
         /\ \A u \in User, c \in Channel :
              /\ delivered[u][c] > 0 => delivered'[u][c] > 0
              /\ <<u, c, "delivered">> \in run[w].new => delivered'[u][c] > 0
         /\ \A r \in run[w].new : r[3] # "delivered" => r \in noted'
<1>1. delivered \in [User -> [Channel -> Nat]]
  BY DEF TypeOK, Counts
<1>2. ASSUME NEW u \in User, NEW c \in Channel
      PROVE  delivered'[u][c] = delivered[u][c] + IF <<u, c, "delivered">> \in run[w].new THEN 1 ELSE 0
  BY DEF Keep
<1>3. ASSUME NEW u \in User, NEW c \in Channel
      PROVE  /\ delivered[u][c] > 0 => delivered'[u][c] > 0
             /\ <<u, c, "delivered">> \in run[w].new => delivered'[u][c] > 0
  <2>1. delivered[u][c] \in Nat
    BY <1>1
  <2> QED
    BY <1>2, <2>1
<1>4. noted' = noted \cup {r \in run[w].new : r[3] # "delivered"}
  BY DEF Keep
<1> QED
  BY <1>3, <1>4

LEMMA SameTroubles ==
  ASSUME troubles \in Seq(Incident), UNCHANGED troubles
  PROVE  troubles' \in Seq(Incident) /\ (\A x : Happened(x) => Happened(x)')
  BY DEF Happened

LEMMA RefusedTroubles ==
  ASSUME troubles \in Seq(Incident), NEW u, NEW c, Refused(u, c) \/ Accepted(u, c) \/ UNCHANGED troubles
  PROVE  troubles' \in Seq(Incident) /\ (\A x : Happened(x) => Happened(x)')
<1>1. UNCHANGED troubles \/ Trouble("sent")
  BY DEF Refused, Accepted
<1> QED
  BY <1>1, TroubleStep, SameTroubles DEF Incident

LEMMA Growing ==
  ASSUME LogInv, troubles \in Seq(Incident), [Next]_vars
  PROVE  Grows /\ troubles' \in Seq(Incident)
<1>1. TypeOK
  BY DEF LogInv
<1> DEFINE Aside == /\ notice' = notice /\ done \subseteq done'
                    /\ (lost => lost') /\ givenUp \subseteq givenUp'
           Rows  == /\ noted \subseteq noted'
                    /\ \A u \in User, c \in Channel : delivered[u][c] > 0 => delivered'[u][c] > 0
           Mess  == troubles' \in Seq(Incident) /\ (\A x : Happened(x) => Happened(x)')
<1>2. UNCHANGED rows => Rows
  BY DEF rows
<1>3. UNCHANGED troubles => Mess
  BY SameTroubles
<1>4. UNCHANGED <<origin, broker>> => Aside
  BY DEF origin, broker
<1>5. SUFFICES Aside /\ Rows /\ Mess
  BY DEF Grows
<1>6. CASE UNCHANGED vars
  <2>1. UNCHANGED rows /\ UNCHANGED troubles /\ UNCHANGED <<origin, broker>>
    BY <1>6 DEF vars
  <2> HIDE DEF Aside, Rows, Mess
  <2> QED
    BY <1>2, <1>3, <1>4, <2>1
<1>7. CASE HandlerQueues \/ HandlerCommits \/ HandlerDies
  <2>1. UNCHANGED rows /\ UNCHANGED troubles
    BY <1>7 DEF HandlerQueues, HandlerCommits, HandlerDies, HandlerStep
  <2>2. Aside
    BY <1>7 DEF HandlerQueues, HandlerCommits, HandlerDies, HandlerStep, broker
  <2> HIDE DEF Aside, Rows, Mess
  <2> QED
    BY <1>2, <1>3, <2>1, <2>2
<1>8. ASSUME NEW w \in Worker, NEW m \in Message, Take(w, m)
      PROVE  Aside /\ Rows /\ Mess
  <2>1. UNCHANGED rows /\ UNCHANGED troubles /\ Aside
    BY <1>8 DEF Take, origin
  <2> HIDE DEF Aside, Rows, Mess
  <2> QED
    BY <1>2, <1>3, <2>1
<1>9. ASSUME NEW w \in Worker, NEW u \in User,
             QueueSms(w, u) \/ QueuePush(w, u)
      PROVE  Aside /\ Rows /\ Mess
  <2>1. UNCHANGED rows /\ UNCHANGED troubles /\ Aside
    BY <1>9 DEF QueueSms, QueuePush, origin
  <2> HIDE DEF Aside, Rows, Mess
  <2> QED
    BY <1>2, <1>3, <2>1
<1>10. ASSUME NEW w \in Worker, NEW u \in User,
              \/ Letter(w, u) \/ Alert(w, u) \/ Email(w, u) \/ Text(w, u) \/ NoDevice(w, u)
              \/ \E d \in Device : Push(w, u, d)
       PROVE  Aside /\ Rows /\ Mess
  <2>1. UNCHANGED rows /\ UNCHANGED <<origin, broker>>
    BY <1>10 DEF Letter, Alert, Email, Text, NoDevice, Push
  <2>2. UNCHANGED troubles \/ (\E c : Refused(u, c) \/ Accepted(u, c))
    BY <1>10 DEF Letter, Alert, Email, Text, NoDevice, Push, MailAccepted, MailRefused
  <2>3. Mess
    <3> HIDE DEF Mess
    <3>1. ASSUME NEW c, Refused(u, c) \/ Accepted(u, c)
          PROVE  Mess
      BY <3>1, RefusedTroubles DEF Mess
    <3> QED
      BY <1>3, <2>2, <3>1
  <2> HIDE DEF Aside, Rows, Mess
  <2> QED
    BY <1>2, <1>4, <2>1, <2>3
<1>11. ASSUME NEW w \in Worker, Commit(w)
       PROVE  Aside /\ Rows /\ Mess
  <2>1. UNCHANGED troubles /\ UNCHANGED <<origin, broker>> /\ Keep(w)
    BY <1>11 DEF Commit
  <2>2. run[w] # Idle
    BY <1>1, <1>11, AtWork DEF Commit
  <2>3. Rows
    BY <1>1, <2>1, <2>2, KeepStep
  <2> HIDE DEF Aside, Rows, Mess
  <2> QED
    BY <1>3, <1>4, <2>1, <2>3
<1>12. ASSUME NEW w \in Worker, Retry(w) \/ Acknowledge(w)
       PROVE  Aside /\ Rows /\ Mess
  <2>1. UNCHANGED rows /\ UNCHANGED troubles /\ Aside
    BY <1>12 DEF Retry, Acknowledge, origin, broker
  <2> HIDE DEF Aside, Rows, Mess
  <2> QED
    BY <1>2, <1>3, <2>1
<1>13. ASSUME NEW w \in Worker, Fault(w) \/ WorkerDies(w) \/ ProcessDies(w)
       PROVE  Aside /\ Rows /\ Mess
  <2>1. UNCHANGED rows /\ Aside
    BY <1>13 DEF Fault, WorkerDies, ProcessDies, origin, broker
  <2>2. Trouble("fault") \/ Trouble("crash")
    BY <1>13 DEF Fault, WorkerDies, ProcessDies
  <2>3. Mess
    BY <2>2, TroubleStep DEF Incident
  <2> HIDE DEF Aside, Rows, Mess
  <2> QED
    BY <1>2, <2>1, <2>3
<1> HIDE DEF Aside, Rows, Mess
<1>14. ASSUME NEW w \in Worker, Work(w)
       PROVE  Aside /\ Rows /\ Mess
  BY <1>8, <1>9, <1>10, <1>11, <1>12, <1>14 DEF Work
<1> QED
  BY <1>6, <1>7, <1>13, <1>14 DEF Next

-----------------------------------------------------------------------------
(* How a step changes the run of one worker.                               *)
LEMMA RunGoes ==
  ASSUME TypeOK, NEW w \in Worker, run[w] # Idle, NEW a, NEW p, NEW n,
         run' = [run EXCEPT ![w] = With(run[w], a, p, n)]
  PROVE  Goes(w, a, p, n)
<1> DEFINE r == With(run[w], a, p, n)
<1>1. run[w] \in Run
  BY DEF TypeOK
<1>2. r.at = a /\ r.plan = p /\ r.new = n /\ r.message = run[w].message /\ r # Idle
  BY <1>1 DEF Run, With, Idle
<1> HIDE DEF r
<1>3. run' = [run EXCEPT ![w] = r]
  BY DEF r
<1>4. run'[w] = r /\ SameElsewhere(w)
  BY <1>3 DEF TypeOK, SameElsewhere
<1> QED
  BY <1>2, <1>4 DEF Goes

LEMMA RecordGoes ==
  ASSUME TypeOK, NEW w \in Worker, NEW u, NEW k, NEW c, NEW s, Does(w, u, k), Record(w, u, c, s)
  PROVE  Goes(w, "plan", Tail(run[w].plan), run[w].new \cup {<<u, c, s>>})
<1>1. run[w] # Idle /\ run[w].at = "plan" /\ run[w] \in Run
  BY AtWork, RunFields DEF Does, At
<1> DEFINE p == Tail(run[w].plan)
           n == run[w].new \cup {<<u, c, s>>}
<1>2. run' = [run EXCEPT ![w].plan = p, ![w].new = n]
  BY DEF Record
<1> HIDE DEF p, n
<1>3. [run[w] EXCEPT !.plan = p, !.new = n] = With(run[w], "plan", p, n)
  BY <1>1 DEF Run, With
<1>4. run' = [run EXCEPT ![w] = [run[w] EXCEPT !.plan = p, !.new = n]]
  BY <1>2 DEF TypeOK
<1>5. Goes(w, "plan", p, n)
  BY <1>1, <1>3, <1>4, RunGoes
<1> QED
  BY <1>5 DEF p, n

LEMMA FailureGoes ==
  ASSUME TypeOK, NEW w \in Worker, NEW u, NEW k, NEW c, Does(w, u, k), RecordFailure(w, u, c)
  PROVE  Goes(w, "keep", run[w].plan, run[w].new \cup {<<u, c, "failed">>})
<1>1. run[w] # Idle /\ run[w].at = "plan" /\ run[w] \in Run
  BY AtWork, RunFields DEF Does, At
<1> DEFINE p == run[w].plan
           n == run[w].new \cup {<<u, c, "failed">>}
<1>2. run' = [run EXCEPT ![w].at = "keep", ![w].new = n]
  BY DEF RecordFailure
<1> HIDE DEF n
<1>3. [run[w] EXCEPT !.at = "keep", !.new = n] = With(run[w], "keep", p, n)
  BY <1>1 DEF Run, With
<1>4. run' = [run EXCEPT ![w] = [run[w] EXCEPT !.at = "keep", !.new = n]]
  BY <1>2 DEF TypeOK
<1>5. Goes(w, "keep", p, n)
  BY <1>1, <1>3, <1>4, RunGoes
<1> QED
  BY <1>5 DEF n

LEMMA TailGoes ==
  ASSUME TypeOK, NEW w \in Worker, run[w] # Idle, run' = [run EXCEPT ![w].plan = Tail(@)]
  PROVE  Goes(w, run[w].at, Tail(run[w].plan), run[w].new)
<1>1. run[w] \in Run
  BY RunFields
<1> DEFINE p == Tail(run[w].plan)
<1>2. run' = [run EXCEPT ![w].plan = p]
  OBVIOUS
<1> HIDE DEF p
<1>3. [run[w] EXCEPT !.plan = p] = With(run[w], run[w].at, p, run[w].new)
  BY <1>1 DEF Run, With
<1>4. run' = [run EXCEPT ![w] = [run[w] EXCEPT !.plan = p]]
  BY <1>2 DEF TypeOK
<1>5. Goes(w, run[w].at, p, run[w].new)
  BY <1>3, <1>4, RunGoes
<1> QED
  BY <1>5 DEF p

LEMMA CutGoes ==
  ASSUME TypeOK, NEW w \in Worker, run[w] # Idle, NEW row,
         run' = [run EXCEPT ![w].plan = <<>>, ![w].new = @ \cup {row}]
  PROVE  Goes(w, run[w].at, <<>>, run[w].new \cup {row})
<1>1. run[w] \in Run
  BY RunFields
<1> DEFINE n == run[w].new \cup {row}
           p == <<>>
<1>2. run' = [run EXCEPT ![w].plan = p, ![w].new = n]
  OBVIOUS
<1> HIDE DEF n, p
<1>3. [run[w] EXCEPT !.plan = p, !.new = n] = With(run[w], run[w].at, p, n)
  BY <1>1 DEF Run, With
<1>4. run' = [run EXCEPT ![w] = [run[w] EXCEPT !.plan = p, !.new = n]]
  BY <1>2 DEF TypeOK
<1>5. Goes(w, run[w].at, p, n)
  BY <1>3, <1>4, RunGoes
<1> QED
  BY <1>5 DEF p, n

LEMMA CommitGoes ==
  ASSUME TypeOK, NEW w \in Worker, Commit(w)
  PROVE  Goes(w, IF run[w].at = "keep" THEN "retry" ELSE "acknowledge", run[w].plan, {})
<1>1. run[w] # Idle /\ run[w] \in Run
  BY AtWork, RunFields DEF Commit
<1> DEFINE a == IF run[w].at = "keep" THEN "retry" ELSE "acknowledge"
           n == {}
<1>2. run' = [run EXCEPT ![w].at = a, ![w].new = n]
  BY DEF Commit
<1> HIDE DEF a, n
<1>3. [run[w] EXCEPT !.at = a, !.new = n] = With(run[w], a, run[w].plan, n)
  BY <1>1 DEF Run, With
<1>4. run' = [run EXCEPT ![w] = [run[w] EXCEPT !.at = a, !.new = n]]
  BY <1>2 DEF TypeOK
<1>5. Goes(w, a, run[w].plan, n)
  BY <1>1, <1>3, <1>4, RunGoes
<1> QED
  BY <1>5 DEF a, n

LEMMA RetryGoes ==
  ASSUME TypeOK, NEW w \in Worker, Retry(w)
  PROVE  Goes(w, "acknowledge", <<>>, run[w].new)
<1>1. run[w] # Idle /\ run[w] \in Run
  BY AtWork, RunFields DEF Retry
<1> DEFINE p == <<>>
<1>2. run' = [run EXCEPT ![w].at = "acknowledge", ![w].plan = p]
  BY DEF Retry
<1> HIDE DEF p
<1>3. [run[w] EXCEPT !.at = "acknowledge", !.plan = p] = With(run[w], "acknowledge", p, run[w].new)
  BY <1>1 DEF Run, With
<1>4. run' = [run EXCEPT ![w] = [run[w] EXCEPT !.at = "acknowledge", !.plan = p]]
  BY <1>2 DEF TypeOK
<1>5. Goes(w, "acknowledge", p, run[w].new)
  BY <1>1, <1>3, <1>4, RunGoes
<1> QED
  BY <1>5 DEF p

LEMMA FaultGoes ==
  ASSUME TypeOK, NEW w \in Worker, Fault(w)
  PROVE  Goes(w, "retry", run[w].plan, {})
<1>1. run[w] # Idle /\ run[w] \in Run
  BY RunFields DEF Fault
<1> DEFINE n == {}
<1>2. run' = [run EXCEPT ![w].at = "retry", ![w].new = n]
  BY DEF Fault
<1> HIDE DEF n
<1>3. [run[w] EXCEPT !.at = "retry", !.new = n] = With(run[w], "retry", run[w].plan, n)
  BY <1>1 DEF Run, With
<1>4. run' = [run EXCEPT ![w] = [run[w] EXCEPT !.at = "retry", !.new = n]]
  BY <1>2 DEF TypeOK
<1>5. Goes(w, "retry", run[w].plan, n)
  BY <1>1, <1>3, <1>4, RunGoes
<1> QED
  BY <1>5 DEF n

LEMMA AlertGoes ==
  ASSUME TypeOK, NEW w \in Worker, NEW u, Alert(w, u)
  PROVE  \E a \in {"acknowledge", "retry"} : Goes(w, a, run[w].plan, run[w].new)
<1>1. run[w] # Idle /\ run[w] \in Run
  BY AtWork, RunFields DEF Alert, Does
<1>2. PICK a \in {"acknowledge", "retry"} : run' = [run EXCEPT ![w].at = a]
  BY DEF Alert
<1>3. [run[w] EXCEPT !.at = a] = With(run[w], a, run[w].plan, run[w].new)
  BY <1>1 DEF Run, With
<1>4. run' = [run EXCEPT ![w] = [run[w] EXCEPT !.at = a]]
  BY <1>2 DEF TypeOK
<1> QED
  BY <1>1, <1>3, <1>4, RunGoes

-----------------------------------------------------------------------------
(* Jobs, and what the plan of a run for one consists of.                   *)
LEMMA JobsDiffer ==
  /\ \A k, u : <<"notice">> # <<k, u>>
  /\ \A k, u, l, v : <<k, u>> = <<l, v>> => k = l /\ u = v
<1>1. ASSUME NEW k, NEW u, <<"notice">> = <<k, u>>
      PROVE  FALSE
  <2>1. Len(<<"notice">>) = 1 /\ Len(<<k, u>>) = 2
    OBVIOUS
  <2> QED
    BY <1>1, <2>1
<1> QED
  BY <1>1

LEMMA JobIs ==
  ASSUME NEW m \in Message
  PROVE  m.job = <<"notice">> \/ \E u \in User, k \in {"sms", "push"} : m.job = <<k, u>>
  BY DEF Message, Job

LEMMA Jobs ==
  ASSUME TypeOK, NEW w \in Worker, run[w] # Idle
  PROVE  Busy(w, <<"notice">>) \/ \E u \in User, k \in {"sms", "push"} : Busy(w, <<k, u>>)
  BY RunFields, JobIs DEF Busy

(* The devices of a push are tried one by one.                             *)
LEMMA PushSteps ==
  ASSUME NEW u \in User, NEW D \in SUBSET Device, D # {}, NEW plan \in SetToSeqs({u} \X D)
  PROVE  plan # <<>> /\ Steps(plan) \subseteq {u} \X Device
<1> DEFINE n == Cardinality({u} \X D)
<1>1. IsFiniteSet({u} \X D)
  BY NoticeAssumption, FS_Subset, FS_Singleton, FS_Product
<1>2. n \in Nat /\ n # 0
  <2>0. PICK d \in D : TRUE
    OBVIOUS
  <2>1. <<u, d>> \in {u} \X D
    OBVIOUS
  <2> QED
    BY <1>1, <2>1, FS_CardinalityType, FS_EmptySet
<1>3. plan \in [1..n -> {u} \X D]
  BY DEF SetToSeqs
<1> HIDE DEF n
<1>4. DOMAIN plan = 1..n /\ 1 \in 1..n
  BY <1>2, <1>3
<1>5. plan # <<>>
  <2>1. plan \in Seq({u} \X D)
    BY <1>2, <1>3
  <2>2. DOMAIN plan = 1..Len(plan)
    BY <2>1, LenProperties
  <2>3. Len(<<>>) = 0
    OBVIOUS
  <2>4. Len(plan) \in Nat
    BY <2>1, LenProperties
  <2>5. 1 \in 1..Len(plan)
    BY <1>4, <2>2, Zenon
  <2>6. Len(plan) # 0
    BY <2>4, <2>5
  <2> QED
    BY <2>3, <2>6
<1>6. Steps(plan) \subseteq {u} \X D
  BY <1>3, <1>4 DEF Steps
<1> QED
  BY <1>5, <1>6

LEMMA TakeIs ==
  ASSUME LogInv, NEW w \in Worker, NEW m \in Message, Take(w, m)
  PROVE  /\ run[w] = Idle /\ run'[w] # Idle /\ SameElsewhere(w)
         /\ run'[w].message = m /\ run'[w].at = "plan"
         /\ m.job = <<"notice">> => run'[w].plan = Plan(notice)
         /\ \A u \in User :
              /\ m.job = <<"sms", u>>  => run'[w].plan = <<<<u, "text">>>>
              /\ m.job = <<"push", u>> =>
                   run'[w].plan # <<>> /\ Steps(run'[w].plan) \subseteq {u} \X ({"none"} \cup Device)
<1> DEFINE PlansFor ==
      CASE m.job = <<"notice">> -> {Plan(notice)}
        [] m.job[1] = "sms"     -> {<<<<m.job[2], "text">>>>}
        [] m.job[1] = "push"    ->
             {<<<<m.job[2], "none">>>>}
               \cup UNION {SetToSeqs({m.job[2]} \X D) : D \in (SUBSET Device) \ {{}}}
<1>1. PICK plan \in PlansFor :
        run' = [run EXCEPT ![w] = [at |-> "plan", message |-> m, plan |-> plan, new |-> {}]]
  BY DEF Take
<1> DEFINE r == [at |-> "plan", message |-> m, plan |-> plan, new |-> {}]
<1>2. r.at = "plan" /\ r.message = m /\ r.plan = plan /\ r # Idle
  BY DEF Idle
<1>3. m.job = <<"notice">> => plan = Plan(notice)
  BY <1>1
<1>4. ASSUME NEW u \in User, m.job = <<"sms", u>>
      PROVE  plan = <<<<u, "text">>>>
  <2>1. m.job # <<"notice">> /\ m.job[1] = "sms" /\ m.job[2] = u
    BY <1>4, JobsDiffer
  <2> QED
    BY <1>1, <2>1
<1>5. ASSUME NEW u \in User, m.job = <<"push", u>>
      PROVE  plan # <<>> /\ Steps(plan) \subseteq {u} \X ({"none"} \cup Device)
  <2>1. m.job # <<"notice">> /\ m.job[1] = "push" /\ m.job[2] = u
    BY <1>5, JobsDiffer
  <2>2. plan \in {<<<<u, "none">>>>} \cup UNION {SetToSeqs({u} \X D) : D \in (SUBSET Device) \ {{}}}
    BY <1>1, <2>1
  <2>3. CASE plan = <<<<u, "none">>>>
    BY <2>3 DEF Steps
  <2>4. ASSUME NEW D \in (SUBSET Device) \ {{}}, plan \in SetToSeqs({u} \X D)
        PROVE  plan # <<>> /\ Steps(plan) \subseteq {u} \X Device
    <3>1. D \in SUBSET Device /\ D # {}
      OBVIOUS
    <3> QED
      BY <2>4, <3>1, PushSteps
  <2> QED
    BY <2>2, <2>3, <2>4
<1> HIDE DEF r, PlansFor
<1>6. run' = [run EXCEPT ![w] = r]
  BY <1>1 DEF r
<1>7. run'[w] = r /\ SameElsewhere(w) /\ run[w] = Idle
  BY <1>6 DEF LogInv, TypeOK, SameElsewhere, Take
<1> QED
  BY <1>2, <1>3, <1>4, <1>5, <1>7

(* The step a run takes next belongs to its job.                           *)
LEMMA FitNow ==
  ASSUME LogInv, PlansFit, NEW w \in Worker, NEW u \in User, NEW k, Does(w, u, k)
  PROVE  /\ run[w] # Idle /\ run[w].plan \in Plans /\ run[w].plan # <<>> /\ run[w].at = "plan"
         /\ Head(run[w].plan) = <<u, k>>
         /\ Busy(w, <<"notice">>) => <<u, k>> \in Duties
         /\ \A x \in User : /\ Busy(w, <<"sms", x>>)  => u = x /\ k = "text"
                            /\ Busy(w, <<"push", x>>) => u = x /\ k \in {"none"} \cup Device
<1>1. TypeOK
  BY DEF LogInv
<1>2. run[w] # Idle /\ run[w].plan # <<>> /\ run[w].at = "plan" /\ Head(run[w].plan) = <<u, k>>
  BY <1>1, AtWork DEF Does, At
<1>3. run[w].plan \in Plans
  BY <1>1, <1>2, RunFields
<1>4. <<u, k>> \in Steps(run[w].plan)
  BY <1>2, <1>3, StepsOfTail
<1>5. Busy(w, <<"notice">>) => <<u, k>> \in Duties
  BY <1>2, <1>4 DEF PlansFit
<1>6. ASSUME NEW x \in User
      PROVE  /\ Busy(w, <<"sms", x>>)  => <<u, k>> \in {<<x, "text">>}
             /\ Busy(w, <<"push", x>>) => <<u, k>> \in {x} \X ({"none"} \cup Device)
  BY <1>2, <1>4 DEF PlansFit
<1> QED
  BY <1>2, <1>3, <1>5, <1>6

LEMMA FitStays ==
  ASSUME LogInv, troubles \in Seq(Incident), PlansFit, [Next]_vars
  PROVE  PlansFit'
<1>1. TypeOK
  BY DEF LogInv
<1>2. Duties' = Duties
  <2>1. notice' = notice
    BY Growing DEF Grows
  <2> QED
    BY <2>1 DEF Duties
<1> DEFINE Fits(v) == run[v] # Idle =>
             /\ Busy(v, <<"notice">>) => Steps(run[v].plan) \subseteq Duties
             /\ \A u \in User :
                  /\ Busy(v, <<"sms", u>>)  => Steps(run[v].plan) \subseteq {<<u, "text">>}
                  /\ Busy(v, <<"push", u>>) => Steps(run[v].plan) \subseteq {u} \X ({"none"} \cup Device)
<1>3. SUFFICES ASSUME NEW v \in Worker PROVE Fits(v)'
  BY DEF PlansFit
<1>4. Fits(v)
  BY DEF PlansFit
<1>5. run'[v] = run[v] => Fits(v)'
  BY <1>2, <1>4 DEF Busy
<1>6. run'[v] = Idle => Fits(v)'
  OBVIOUS
<1>7. ASSUME NEW w \in Worker, NEW a, NEW p, NEW n, Goes(w, a, p, n), Steps(p) \subseteq Steps(run[w].plan)
      PROVE  Fits(v)'
  <2>1. CASE v = w
    <3>1. run[w] # Idle /\ run'[w].message = run[w].message /\ Steps(run'[w].plan) \subseteq Steps(run[w].plan)
      BY <1>7 DEF Goes
    <3> QED
      BY <1>2, <1>4, <2>1, <3>1 DEF Busy
  <2>2. CASE v # w
    <3>1. run'[v] = run[v]
      BY <1>7, <2>2 DEF Goes, SameElsewhere
    <3> HIDE DEF Fits
    <3> QED
      BY <1>5, <3>1
  <2> QED
    BY <2>1, <2>2
<1>8. ASSUME NEW w \in Worker, NEW m \in Message, Take(w, m)
      PROVE  Fits(v)'
  <2>1. CASE v = w
    <3>1. run'[w].message = m /\ (m.job = <<"notice">> => run'[w].plan = Plan(notice))
      BY <1>8, TakeIs
    <3>2. Busy(w, <<"notice">>)' => Steps(run'[w].plan) \subseteq Duties
      BY <3>1 DEF Busy, Duties
    <3>3. ASSUME NEW u \in User
          PROVE  /\ Busy(w, <<"sms", u>>)'  => Steps(run'[w].plan) \subseteq {<<u, "text">>}
                 /\ Busy(w, <<"push", u>>)' => Steps(run'[w].plan) \subseteq {u} \X ({"none"} \cup Device)
      <4>1. Steps(<<<<u, "text">>>>) \subseteq {<<u, "text">>}
        BY DEF Steps
      <4>2. /\ m.job = <<"sms", u>>  => run'[w].plan = <<<<u, "text">>>>
            /\ m.job = <<"push", u>> => Steps(run'[w].plan) \subseteq {u} \X ({"none"} \cup Device)
        BY <1>8, TakeIs
      <4> QED
        BY <3>1, <4>1, <4>2 DEF Busy
    <3> QED
      BY <1>2, <2>1, <3>2, <3>3
  <2>2. CASE v # w
    <3>1. run'[v] = run[v]
      BY <1>8, <2>2, TakeIs DEF SameElsewhere
    <3> HIDE DEF Fits
    <3> QED
      BY <1>5, <3>1
  <2> QED
    BY <2>1, <2>2
<1> HIDE DEF Fits
<1>9. CASE UNCHANGED run
  BY <1>5, <1>9
<1>10. ASSUME NEW w \in Worker, NEW u \in User, NEW k, NEW c, NEW s, Does(w, u, k),
              Record(w, u, c, s) \/ RecordFailure(w, u, c) \/ run' = [run EXCEPT ![w].plan = Tail(@)]
       PROVE  Fits(v)'
  <2>1. run[w] # Idle /\ run[w].plan \in Plans /\ run[w].plan # <<>>
    BY <1>10, FitNow
  <2>2. Steps(Tail(run[w].plan)) \subseteq Steps(run[w].plan)
    BY <2>1, StepsOfTail
  <2>3. CASE Record(w, u, c, s)
    BY <1>1, <1>7, <1>10, <2>2, <2>3, RecordGoes
  <2>4. CASE RecordFailure(w, u, c)
    BY <1>1, <1>7, <1>10, <2>4, FailureGoes
  <2>5. CASE run' = [run EXCEPT ![w].plan = Tail(@)]
    BY <1>1, <1>7, <2>1, <2>2, <2>5, TailGoes
  <2> QED
    BY <1>10, <2>3, <2>4, <2>5
<1>11. ASSUME NEW w \in Worker, NEW u \in User, NEW d \in Device, Push(w, u, d)
       PROVE  Fits(v)'
  <2>1. CASE run' = [run EXCEPT ![w].plan = <<>>, ![w].new = @ \cup {<<u, d, "skipped">>}]
    <3>1. run[w] # Idle
      BY <1>11, FitNow DEF Push
    <3>2. Steps(<<>>) \subseteq Steps(run[w].plan)
      BY DEF Steps
    <3> QED
      BY <1>1, <1>7, <2>1, <3>1, <3>2, CutGoes
  <2> QED
    BY <1>10, <1>11, <2>1 DEF Push
<1>12. ASSUME NEW w \in Worker, NEW u \in User,
              \/ Letter(w, u) \/ Email(w, u) \/ QueueSms(w, u) \/ QueuePush(w, u)
              \/ Text(w, u) \/ NoDevice(w, u)
       PROVE  Fits(v)'
  BY <1>10, <1>12 DEF Letter, Email, QueueSms, QueuePush, Text, NoDevice
<1>13. ASSUME NEW w \in Worker, NEW u \in User, Alert(w, u)
       PROVE  Fits(v)'
  BY <1>1, <1>7, <1>13, AlertGoes
<1>14. ASSUME NEW w \in Worker, Commit(w) \/ Retry(w) \/ Fault(w)
       PROVE  Fits(v)'
  <2>1. Steps(<<>>) \subseteq Steps(run[w].plan)
    BY DEF Steps
  <2> QED
    BY <1>1, <1>7, <1>14, <2>1, CommitGoes, RetryGoes, FaultGoes
<1>15. ASSUME NEW w \in Worker, Acknowledge(w) \/ WorkerDies(w) \/ ProcessDies(w)
       PROVE  Fits(v)'
  <2>1. run'[v] = Idle \/ run'[v] = run[v]
    BY <1>1, <1>15 DEF Acknowledge, WorkerDies, ProcessDies, TypeOK
  <2> QED
    BY <1>5, <1>6, <2>1
<1>16. CASE UNCHANGED vars \/ HandlerQueues \/ HandlerCommits \/ HandlerDies
  BY <1>9, <1>16 DEF vars, HandlerQueues, HandlerCommits, HandlerDies, HandlerStep
<1>17. ASSUME NEW w \in Worker, Work(w)
       PROVE  Fits(v)'
  BY <1>8, <1>11, <1>12, <1>13, <1>14, <1>15, <1>17 DEF Work
<1> QED
  BY <1>14, <1>15, <1>16, <1>17 DEF Next

-----------------------------------------------------------------------------
(* What has been reported, carried or dealt with stays so.                 *)
LEMMA AccountsAre ==
  ASSUME NEW k PROVE Accounts(k) \subseteq Channel
  BY Channels DEF Accounts

LEMMA TellsOn ==
  ASSUME Grows, NEW u \in User, NEW c \in Channel, Told(u, c)
  PROVE  Told(u, c)'
  BY DEF Grows, Told

LEMMA ReportsOn ==
  ASSUME Grows, NEW u \in User, NEW k, Reported(u, k)
  PROVE  Reported(u, k)'
<1>1. PICK c \in Accounts(k) : Told(u, c)
  BY DEF Reported
<1>2. Told(u, c)'
  BY <1>1, AccountsAre, TellsOn
<1> QED
  BY <1>2 DEF Reported

LEMMA StoppedOn == ASSUME Grows, Stopped PROVE Stopped'
  BY DEF Grows, Stopped

(* The broker keeps its messages.                                          *)
NoneTaken == \A m \in Message : queue[m] > 0 => queue'[m] > 0

LEMMA CarriesOn ==
  ASSUME NoneTaken, NEW w \in Worker, SameElsewhere(w), NEW job, Carried(job),
         Busy(w, job) /\ run[w].at # "acknowledge" => Carried(job)'
  PROVE  Carried(job)'
<1>1. CASE \E m \in Message : m.job = job /\ queue[m] > 0
  BY <1>1 DEF NoneTaken, Carried
<1>2. ASSUME NEW v \in Worker \ {w}, Busy(v, job), run[v].at # "acknowledge"
      PROVE  Carried(job)'
  <2>1. run'[v] = run[v]
    BY DEF SameElsewhere
  <2>2. Busy(v, job)' /\ run'[v].at # "acknowledge"
    BY <1>2, <2>1 DEF Busy
  <2> QED
    BY <2>2 DEF Carried
<1> QED
  BY <1>1, <1>2 DEF Carried

LEMMA CarriesWith ==
  ASSUME NoneTaken, NEW w \in Worker, NEW a, NEW p, NEW n, Goes(w, a, p, n),
         a # "acknowledge" \/ run[w].at = "acknowledge", NEW job, Carried(job)
  PROVE  Carried(job)'
<1>1. Busy(w, job) /\ run[w].at # "acknowledge" => Busy(w, job)' /\ run'[w].at # "acknowledge"
  BY DEF Goes, Busy
<1>2. Busy(w, job) /\ run[w].at # "acknowledge" => Carried(job)'
  BY <1>1 DEF Carried
<1> QED
  BY <1>2, CarriesOn DEF Goes

(* The condition for what is dealt with to stay so.                        *)
LEMMA DealsOn ==
  ASSUME Grows, NEW u \in User, NEW k \in Tasks, Dealt(u, k),
         k \in {"sms", "push"} /\ Carried(<<k, u>>) => Dealt(u, k)'
  PROVE  Dealt(u, k)'
  BY ReportsOn DEF Dealt

DealtStays == \A u \in User, k \in Tasks : Dealt(u, k) => Dealt(u, k)'

LEMMA DutiesStay == Grows => Duties' = Duties
  BY DEF Grows, Duties

LEMMA RecipientsStay == Grows => Recipients(notice') = Recipients(notice)
  BY DEF Grows

(* A run that a step leaves alone is as good as before.                    *)
LEMMA RunStands ==
  ASSUME Grows, DealtStays, NEW v \in Worker, run'[v] = run[v], NoticeRun(v), ChannelRun(v)
  PROVE  NoticeRun(v)' /\ ChannelRun(v)'
<1>1. run'[v] = run[v]
  OBVIOUS
<1>2. Duties' = Duties /\ Recipients(notice') = Recipients(notice)
  BY DutiesStay, RecipientsStay
<1>3. /\ \A job : Busy(v, job)' = Busy(v, job)
      /\ \A s : At(v, s)' = At(v, s)
      /\ \A u, k : Jotted(v, u, k)' = Jotted(v, u, k)
  BY <1>1 DEF Busy, At, Jotted
<1>4. /\ Happened("fault") => Happened("fault")'
      /\ Stopped => Stopped'
  BY StoppedOn DEF Grows
<1>5. NoticeRun(v)'
  <2> SUFFICES ASSUME Busy(v, <<"notice">>)'
               PROVE  /\ At(v, "plan")' => \A u \in User, k \in Tasks : <<u, k>> \in Duties' =>
                           <<u, k>> \in Steps(run[v].plan)' \/ Jotted(v, u, k)' \/ Dealt(u, k)'
                      /\ At(v, "keep")' => \E u \in Recipients(notice') : <<u, "email", "failed">> \in run'[v].new
                      /\ At(v, "retry")' => Happened("fault")' \/ Stopped'
    BY DEF NoticeRun
  <2>1. Busy(v, <<"notice">>)
    BY <1>3
  <2>2. At(v, "plan")' => \A u \in User, k \in Tasks : <<u, k>> \in Duties' =>
          <<u, k>> \in Steps(run[v].plan)' \/ Jotted(v, u, k)' \/ Dealt(u, k)'
    <3>1. Steps(run[v].plan)' = Steps(run[v].plan)
      BY <1>1
    <3> SUFFICES ASSUME At(v, "plan"), NEW u \in User, NEW k \in Tasks, <<u, k>> \in Duties
                 PROVE  <<u, k>> \in Steps(run[v].plan) \/ Jotted(v, u, k) \/ Dealt(u, k)'
      BY <1>2, <1>3, <3>1
    <3>2. <<u, k>> \in Steps(run[v].plan) \/ Jotted(v, u, k) \/ Dealt(u, k)
      BY <2>1 DEF NoticeRun
    <3> QED
      BY <3>2 DEF DealtStays
  <2>3. At(v, "keep")' => \E u \in Recipients(notice') : <<u, "email", "failed">> \in run'[v].new
    BY <1>1, <1>2, <1>3, <2>1 DEF NoticeRun
  <2>4. At(v, "retry")' => Happened("fault")' \/ Stopped'
    BY <1>3, <1>4, <2>1 DEF NoticeRun
  <2> QED
    BY <2>2, <2>3, <2>4
<1>6. ASSUME NEW u \in User, NEW k \in {"sms", "push"}, Busy(v, <<k, u>>)'
      PROVE  /\ At(v, "plan")' => run'[v].plan # <<>> \/ Jotted(v, u, k)'
             /\ At(v, "keep")' => Jotted(v, u, k)'
             /\ At(v, "retry")' => Happened("fault")' \/ Reported(u, k)'
  <2>1. Busy(v, <<k, u>>)
    BY <1>3, <1>6
  <2>2. Reported(u, k) => Reported(u, k)'
    BY ReportsOn
  <2> QED
    BY <1>1, <1>3, <1>4, <2>1, <2>2 DEF ChannelRun
<1> QED
  BY <1>5, <1>6 DEF ChannelRun

(* What is left to show of a step that changes the run of w.               *)
LEMMA AccountStands ==
  ASSUME AccountInv, [Next]_vars, ~Excused', NEW w \in Worker, SameElsewhere(w), DealtStays,
         NoticeRun(w)', ChannelRun(w)', done' = done,
         Carried(<<"notice">>) =>
           \/ Carried(<<"notice">>)'
           \/ <<"notice">> \in givenUp' /\ Stopped'
           \/ \A u \in User, k \in Tasks : <<u, k>> \in Duties => Dealt(u, k)'
  PROVE  AccountInv'
<1>1. LogInv' /\ Grows /\ troubles' \in Seq(Incident) /\ PlansFit'
  BY LogNext, Growing, FitStays DEF AccountInv
<1>2. ~Excused
  BY <1>1 DEF Excused, Grows
<1>3. \A v \in Worker : NoticeRun(v)' /\ ChannelRun(v)'
  <2>1. ASSUME NEW v \in Worker \ {w}
        PROVE  NoticeRun(v)' /\ ChannelRun(v)'
    <3>1. NoticeRun(v) /\ ChannelRun(v)
      BY <1>2 DEF AccountInv
    <3> QED
      BY <1>1, <3>1, RunStands DEF SameElsewhere
  <2> QED
    BY <2>1
<1>4. NoticeKept'
  <2>1. NoticeKept
    BY <1>2 DEF AccountInv
  <2>2. Duties' = Duties
    BY <1>1, DutiesStay
  <2>3. <<"notice">> \in givenUp /\ Stopped => <<"notice">> \in givenUp' /\ Stopped'
    BY <1>1, StoppedOn DEF Grows
  <2>4. (\A u \in User, k \in Tasks : <<u, k>> \in Duties => Dealt(u, k)) =>
          \A u \in User, k \in Tasks : <<u, k>> \in Duties => Dealt(u, k)'
    BY DEF DealtStays
  <2> QED
    BY <2>1, <2>2, <2>3, <2>4 DEF NoticeKept
<1> QED
  BY <1>1, <1>3, <1>4 DEF AccountInv

-----------------------------------------------------------------------------
(* The steps, one by one.                                                  *)
LEMMA Publishes ==
  ASSUME LogInv, NEW job \in Job, NEW retries \in 0..MaxRetries, Publish(job, retries)
  PROVE  NoneTaken /\ Carried(job)'
<1> DEFINE m == [job |-> job, retries |-> retries]
<1>1. m \in Message /\ m.job = job
  BY DEF Message
<1>2. queue' = [queue EXCEPT ![m] = @ + 1] /\ queue \in [Message -> Nat]
  BY DEF Publish, LogInv, TypeOK
<1> HIDE DEF m
<1>3. queue'[m] > 0
  BY <1>1, <1>2
<1>4. NoneTaken
  BY <1>1, <1>2 DEF NoneTaken
<1> QED
  BY <1>1, <1>3, <1>4 DEF Carried

LEMMA BrokerIdle == ASSUME UNCHANGED queue PROVE NoneTaken
  BY DEF NoneTaken

(* What a run of the notice has to do is known.                            *)
LEMMA DutyKnown ==
  ASSUME AccountInv, ~Excused, NEW u \in User, NEW k, <<u, k>> \in Duties
  PROVE  k \in Tasks /\ u \in Recipients(notice)
<1>1. notice \in Notice /\ notice # "documents"
  BY DEF AccountInv, LogInv, TypeOK, Excused
<1> QED
  BY <1>1, DutiesAre

LEMMA NotExcused ==
  ASSUME AccountInv, [Next]_vars, ~Excused'
  PROVE  ~Excused /\ Grows /\ LogInv /\ TypeOK /\ PlansFit
<1>1. Grows /\ LogInv
  BY Growing DEF AccountInv
<1> QED
  BY <1>1 DEF Excused, Grows, AccountInv, LogInv

(* A row is added, and the step left behind.                               *)
LEMMA RowAccount ==
  ASSUME AccountInv, [Next]_vars, ~Excused', NEW w \in Worker, NEW u \in User, NEW k, Does(w, u, k),
         NEW c \in Accounts(k), NEW s \in Status, NEW p,
         Goes(w, "plan", p, run[w].new \cup {<<u, c, s>>}), p = Tail(run[w].plan) \/ k \notin Tasks,
         NoneTaken, done' = done
  PROVE  AccountInv'
<1>1. ~Excused /\ Grows /\ LogInv /\ PlansFit /\ NoticeRun(w) /\ ChannelRun(w)
  BY NotExcused DEF AccountInv
<1>2. /\ run[w] # Idle /\ run[w].plan \in Plans /\ run[w].plan # <<>> /\ run[w].at = "plan"
      /\ Head(run[w].plan) = <<u, k>>
      /\ Busy(w, <<"notice">>) => <<u, k>> \in Duties
      /\ \A x \in User : /\ Busy(w, <<"sms", x>>)  => u = x /\ k = "text"
                         /\ Busy(w, <<"push", x>>) => u = x /\ k \in {"none"} \cup Device
  BY <1>1, FitNow
<1>3. \A job : Carried(job) => Carried(job)'
  BY CarriesWith
<1>4. DealtStays
  BY <1>1, <1>3, DealsOn DEF DealtStays, Dealt
<1>5. /\ run'[w].at = "plan" /\ run'[w].plan = p /\ run'[w].new = run[w].new \cup {<<u, c, s>>}
      /\ \A job : Busy(w, job)' <=> Busy(w, job)
      /\ SameElsewhere(w)
  BY DEF Goes, Busy
<1>6. ASSUME NEW x, NEW l, Jotted(w, x, l)
      PROVE  Jotted(w, x, l)'
  BY <1>5, <1>6 DEF Jotted
<1>7. ASSUME NEW l, Accounts(l) = Accounts(k)
      PROVE  Jotted(w, u, l)'
  BY <1>5, <1>7 DEF Jotted
<1>8. NoticeRun(w)'
  <2>1. CASE ~Busy(w, <<"notice">>)
    BY <1>5, <2>1 DEF NoticeRun
  <2>2. CASE Busy(w, <<"notice">>)
    <3>1. k \in Tasks /\ p = Tail(run[w].plan)
      BY <1>1, <1>2, <2>2, DutyKnown
    <3>2. Steps(run[w].plan) \subseteq Steps(p) \cup {<<u, k>>}
      BY <1>2, <3>1, StepsOfTail
    <3>3. ASSUME NEW x \in User, NEW l \in Tasks, <<x, l>> \in Duties
          PROVE  <<x, l>> \in Steps(p) \/ Jotted(w, x, l)' \/ Dealt(x, l)'
      <4>1. <<x, l>> \in Steps(run[w].plan) \/ Jotted(w, x, l) \/ Dealt(x, l)
        BY <1>1, <1>2, <2>2, <3>3 DEF NoticeRun, At
      <4>2. CASE <<x, l>> = <<u, k>>
        BY <1>7, <4>2
      <4>3. CASE <<x, l>> # <<u, k>>
        BY <1>4, <1>6, <3>2, <4>1, <4>3 DEF DealtStays
      <4> QED
        BY <4>2, <4>3
    <3>4. Duties' = Duties
      BY <1>1, DutiesStay
    <3>5. ~At(w, "keep")' /\ ~At(w, "retry")'
      BY <1>5 DEF At
    <3>6. Steps(run[w].plan)' = Steps(p)
      BY <1>5
    <3> QED
      BY <3>3, <3>4, <3>5, <3>6 DEF NoticeRun
  <2> QED
    BY <2>1, <2>2
<1>9. ChannelRun(w)'
  <2>1. ASSUME NEW x \in User, NEW l \in {"sms", "push"}, Busy(w, <<l, x>>)
        PROVE  Jotted(w, x, l)'
    <3>1. u = x /\ Accounts(l) = Accounts(k)
      BY <1>2, <2>1, NoticeAssumption DEF Accounts
    <3> QED
      BY <1>7, <3>1
  <2>2. ~At(w, "keep")' /\ ~At(w, "retry")'
    BY <1>5 DEF At
  <2> QED
    BY <1>5, <2>1, <2>2 DEF ChannelRun
<1> QED
  BY <1>3, <1>4, <1>5, <1>8, <1>9, AccountStands

(* The failure that ends a run is written down.                            *)
LEMMA FailureAccount ==
  ASSUME AccountInv, [Next]_vars, ~Excused', NEW w \in Worker, NEW u \in User, NEW k, Does(w, u, k),
         NEW c \in Accounts(k), c = "email" \/ k = "text", RecordFailure(w, u, c),
         UNCHANGED <<origin, broker>>
  PROVE  AccountInv'
<1>1. ~Excused /\ Grows /\ LogInv /\ TypeOK /\ PlansFit
  BY NotExcused
<1>2. /\ Busy(w, <<"notice">>) => <<u, k>> \in Duties
      /\ \A x \in User : /\ Busy(w, <<"sms", x>>)  => u = x /\ k = "text"
                         /\ Busy(w, <<"push", x>>) => u = x /\ k \in {"none"} \cup Device
  BY <1>1, FitNow
<1>3. Goes(w, "keep", run[w].plan, run[w].new \cup {<<u, c, "failed">>})
  BY <1>1, FailureGoes
<1>4. NoneTaken /\ done' = done
  BY BrokerIdle DEF broker, origin
<1>5. \A job : Carried(job) => Carried(job)'
  BY <1>3, <1>4, CarriesWith
<1>6. DealtStays
  BY <1>1, <1>5, DealsOn DEF DealtStays, Dealt
<1>7. /\ run'[w].at = "keep" /\ <<u, c, "failed">> \in run'[w].new
      /\ \A job : Busy(w, job)' <=> Busy(w, job)
      /\ SameElsewhere(w)
  BY <1>3 DEF Goes, Busy
<1>8. ~At(w, "plan")' /\ ~At(w, "retry")'
  BY <1>7 DEF At
<1>9. NoticeRun(w)'
  <2>1. ASSUME Busy(w, <<"notice">>)
        PROVE  c = "email" /\ u \in Recipients(notice')
    <3>1. k \in Tasks /\ u \in Recipients(notice)
      BY <1>1, <1>2, <2>1, DutyKnown
    <3> QED
      BY <1>1, <3>1, RecipientsStay DEF Tasks
  <2> QED
    BY <1>7, <1>8, <2>1 DEF NoticeRun
<1>10. ChannelRun(w)'
  <2>1. ASSUME NEW x \in User, NEW l \in {"sms", "push"}, Busy(w, <<l, x>>)
        PROVE  Jotted(w, x, l)'
    <3>1. u = x /\ Accounts(l) = Accounts(k)
      BY <1>2, <2>1, NoticeAssumption DEF Accounts
    <3> QED
      BY <1>7, <3>1 DEF Jotted, Status
  <2> QED
    BY <1>7, <1>8, <2>1 DEF ChannelRun
<1> QED
  BY <1>4, <1>5, <1>6, <1>7, <1>9, <1>10, AccountStands

(* A text or a push becomes a job of its own.                              *)
LEMMA QueueAccount ==
  ASSUME AccountInv, [Next]_vars, ~Excused', NEW w \in Worker, NEW u \in User, NEW k \in {"sms", "push"},
         Does(w, u, k), Publish(<<k, u>>, 0), run' = [run EXCEPT ![w].plan = Tail(@)], done' = done
  PROVE  AccountInv'
<1>1. ~Excused /\ Grows /\ LogInv /\ TypeOK /\ PlansFit /\ NoticeRun(w)
  BY NotExcused DEF AccountInv
<1>2. /\ run[w] # Idle /\ run[w].plan \in Plans /\ run[w].plan # <<>> /\ run[w].at = "plan"
      /\ Head(run[w].plan) = <<u, k>>
      /\ \A x \in User : /\ Busy(w, <<"sms", x>>)  => k = "text"
                         /\ Busy(w, <<"push", x>>) => k \in {"none"} \cup Device
  BY <1>1, FitNow
<1>3. \A x \in User, l \in {"sms", "push"} : ~Busy(w, <<l, x>>)
  BY <1>2, NoticeAssumption
<1>4. Goes(w, "plan", Tail(run[w].plan), run[w].new)
  BY <1>1, <1>2, TailGoes
<1>5. NoneTaken /\ Carried(<<k, u>>)'
  <2>1. <<k, u>> \in Job /\ 0 \in 0..MaxRetries
    BY NoticeAssumption DEF Job
  <2> QED
    BY <1>1, <2>1, Publishes
<1>6. \A job : Carried(job) => Carried(job)'
  BY <1>4, <1>5, CarriesWith
<1>7. DealtStays
  BY <1>1, <1>6, DealsOn DEF DealtStays, Dealt
<1>8. /\ run'[w].at = "plan" /\ run'[w].plan = Tail(run[w].plan) /\ run'[w].new = run[w].new
      /\ \A job : Busy(w, job)' <=> Busy(w, job)
      /\ SameElsewhere(w)
  BY <1>4 DEF Goes, Busy
<1>9. NoticeRun(w)'
  <2> SUFFICES ASSUME Busy(w, <<"notice">>) PROVE NoticeRun(w)'
    BY <1>8 DEF NoticeRun
  <2>1. Steps(run[w].plan) \subseteq Steps(Tail(run[w].plan)) \cup {<<u, k>>}
    BY <1>2, StepsOfTail
  <2>2. ASSUME NEW x \in User, NEW l \in Tasks, <<x, l>> \in Duties
        PROVE  <<x, l>> \in Steps(Tail(run[w].plan)) \/ Jotted(w, x, l)' \/ Dealt(x, l)'
    <3>1. <<x, l>> \in Steps(run[w].plan) \/ Jotted(w, x, l) \/ Dealt(x, l)
      BY <1>1, <1>2, <2>2 DEF NoticeRun, At
    <3>2. Jotted(w, x, l) => Jotted(w, x, l)'
      BY <1>8 DEF Jotted
    <3>3. CASE <<x, l>> = <<u, k>>
      <4>1. x = u /\ l = k
        BY <3>3
      <4> QED
        BY <1>5, <4>1 DEF Dealt
    <3>4. CASE <<x, l>> # <<u, k>>
      BY <1>7, <2>1, <3>1, <3>2, <3>4 DEF DealtStays
    <3> QED
      BY <3>3, <3>4
  <2>3. Duties' = Duties /\ Steps(run[w].plan)' = Steps(Tail(run[w].plan))
    BY <1>1, <1>8, DutiesStay
  <2>4. ~At(w, "keep")' /\ ~At(w, "retry")'
    BY <1>8 DEF At
  <2> QED
    BY <2>2, <2>3, <2>4 DEF NoticeRun
<1>10. ChannelRun(w)'
  BY <1>3, <1>8 DEF ChannelRun
<1> QED
  BY <1>6, <1>7, <1>8, <1>9, <1>10, AccountStands

(* The commit puts down what the run has written.                          *)
LEMMA CommitReports ==
  ASSUME TypeOK, NEW w \in Worker, Commit(w), NEW u \in User, NEW k, Jotted(w, u, k)
  PROVE  Reported(u, k)'
<1>1. PICK c \in Accounts(k), s \in Status : <<u, c, s>> \in run[w].new
  BY DEF Jotted
<1>2. c \in Channel
  BY <1>1, AccountsAre
<1>3. run[w] # Idle /\ Keep(w)
  BY AtWork DEF Commit
<1>4. CASE s = "delivered"
  <2>1. delivered'[u][c] > 0
    BY <1>1, <1>2, <1>3, <1>4, KeepStep
  <2> QED
    BY <1>1, <2>1 DEF Reported, Told
<1>5. CASE s # "delivered"
  <2>1. <<u, c, s>>[3] = s
    OBVIOUS
  <2>2. <<u, c, s>> \in noted' /\ s \in {"skipped", "failed"}
    BY <1>1, <1>3, <1>5, <2>1, KeepStep DEF Status
  <2> QED
    BY <1>1, <2>2 DEF Reported, Told
<1> QED
  BY <1>4, <1>5

LEMMA CommitAccount ==
  ASSUME AccountInv, [Next]_vars, ~Excused', NEW w \in Worker, Commit(w)
  PROVE  AccountInv'
<1>1. ~Excused /\ Grows /\ LogInv /\ TypeOK /\ PlansFit /\ NoticeRun(w) /\ ChannelRun(w)
  BY NotExcused DEF AccountInv
<1>2. /\ NoneTaken /\ done' = done
      /\ Keep(w) /\ run[w] # Idle
  BY <1>1, AtWork, BrokerIdle DEF Commit, broker, origin
<1>3. CASE At(w, "keep")
  <2>1. Goes(w, "retry", run[w].plan, {})
    BY <1>1, <1>3, CommitGoes DEF At
  <2>2. \A job : Carried(job) => Carried(job)'
    BY <1>2, <2>1, CarriesWith
  <2>3. DealtStays
    BY <1>1, <2>2, DealsOn DEF DealtStays, Dealt
  <2>4. /\ run'[w].at = "retry" /\ SameElsewhere(w)
        /\ \A job : Busy(w, job)' <=> Busy(w, job)
    BY <2>1 DEF Goes, Busy
  <2>5. ~At(w, "plan")' /\ ~At(w, "keep")'
    BY <2>4 DEF At
  <2>6. NoticeRun(w)'
    <3>1. ASSUME Busy(w, <<"notice">>)
          PROVE  Stopped'
      <4>1. PICK u \in Recipients(notice) : <<u, "email", "failed">> \in run[w].new
        BY <1>1, <1>3, <3>1 DEF NoticeRun
      <4>2. <<u, "email", "failed">>[3] # "delivered"
        OBVIOUS
      <4>3. <<u, "email", "failed">> \in noted'
        BY <1>1, <1>2, <4>1, <4>2, KeepStep
      <4> QED
        BY <1>1, <4>1, <4>3, RecipientsStay DEF Stopped
    <3> QED
      BY <2>4, <2>5, <3>1 DEF NoticeRun
  <2>7. ChannelRun(w)'
    <3>1. ASSUME NEW u \in User, NEW k \in {"sms", "push"}, Busy(w, <<k, u>>)
          PROVE  Reported(u, k)'
      <4>1. Jotted(w, u, k)
        BY <1>1, <1>3, <3>1 DEF ChannelRun
      <4> QED
        BY <1>1, <4>1, CommitReports
    <3> QED
      BY <2>4, <2>5, <3>1 DEF ChannelRun
  <2> QED
    BY <1>2, <2>2, <2>3, <2>4, <2>6, <2>7, AccountStands
<1>4. CASE At(w, "plan") /\ run[w].plan = <<>>
  <2>1. Goes(w, "acknowledge", run[w].plan, {})
    BY <1>1, <1>4, CommitGoes DEF At
  <2>2. /\ run'[w].at = "acknowledge" /\ SameElsewhere(w)
    BY <2>1 DEF Goes
  <2>3. \A job : Carried(job) /\ ~Busy(w, job) => Carried(job)'
    BY <1>2, <2>2, CarriesOn
  <2>4. ASSUME NEW u \in User, NEW k \in {"sms", "push"}, Busy(w, <<k, u>>)
        PROVE  Reported(u, k)'
    <3>1. Jotted(w, u, k)
      BY <1>1, <1>4, <2>4 DEF ChannelRun
    <3> QED
      BY <1>1, <3>1, CommitReports
  <2>5. DealtStays
    <3> SUFFICES ASSUME NEW u \in User, NEW k \in Tasks, Dealt(u, k) PROVE Dealt(u, k)'
      BY DEF DealtStays
    <3>1. k \in {"sms", "push"} /\ Carried(<<k, u>>) => Dealt(u, k)'
      BY <2>3, <2>4 DEF Dealt
    <3> QED
      BY <1>1, <3>1, DealsOn
  <2>6. NoticeRun(w)' /\ ChannelRun(w)'
    BY <2>2 DEF NoticeRun, ChannelRun, At
  <2>7. ASSUME Busy(w, <<"notice">>), NEW u \in User, NEW k \in Tasks, <<u, k>> \in Duties
        PROVE  Dealt(u, k)'
    <3>1. <<u, k>> \notin Steps(run[w].plan)
      BY <1>4 DEF Steps
    <3>2. Jotted(w, u, k) \/ Dealt(u, k)
      BY <1>1, <1>4, <2>7, <3>1 DEF NoticeRun
    <3>3. Jotted(w, u, k) => Reported(u, k)'
      BY <1>1, CommitReports
    <3> QED
      BY <2>5, <3>2, <3>3 DEF DealtStays, Dealt
  <2> QED
    BY <1>2, <2>2, <2>3, <2>5, <2>6, <2>7, AccountStands
<1> QED
  BY <1>3, <1>4 DEF Commit

(* A retry, or the end of the last one.                                    *)
LEMMA RetryAccount ==
  ASSUME AccountInv, [Next]_vars, ~Excused', NEW w \in Worker, Retry(w)
  PROVE  AccountInv'
<1>1. ~Excused /\ Grows /\ LogInv /\ TypeOK /\ PlansFit /\ NoticeRun(w) /\ ChannelRun(w)
  BY NotExcused DEF AccountInv
<1>2. Goes(w, "acknowledge", <<>>, run[w].new)
  BY <1>1, RetryGoes
<1>3. /\ run'[w].at = "acknowledge" /\ SameElsewhere(w) /\ run[w] # Idle /\ done' = done
  BY <1>2 DEF Goes, Retry, origin
<1>4. PICK mine \in Job, tried \in 0..MaxRetries :
        run[w].message.job = mine /\ run[w].message.retries = tried
  <2>1. run[w].message \in Message
    BY <1>1, <1>3, RunFields
  <2> QED
    BY <2>1 DEF Message
<1>5. \/ NoneTaken /\ Carried(mine)'
      \/ NoneTaken /\ mine \in givenUp' /\ ~Happened("fault")
  <2>1. CASE tried < MaxRetries
    <3>1. tried + 1 \in 0..MaxRetries
      BY <2>1, NoticeAssumption
    <3>2. Publish(mine, tried + 1)
      BY <1>4, <2>1 DEF Retry
    <3> QED
      BY <1>1, <3>1, <3>2, Publishes
  <2>2. CASE ~(tried < MaxRetries)
    <3>1. mine \in givenUp' /\ UNCHANGED queue
      BY <1>4, <2>2 DEF Retry
    <3>2. ~Happened("fault")
      BY <1>1, <3>1 DEF Excused, Grows
    <3> QED
      BY <3>1, <3>2, BrokerIdle
  <2> QED
    BY <2>1, <2>2
<1>6. ASSUME NEW job, Busy(w, job) PROVE job = mine
  BY <1>4, <1>6 DEF Busy
<1>7. ASSUME NEW job, Carried(job)
      PROVE  Carried(job)' \/ (Busy(w, job) /\ job \in givenUp' /\ ~Happened("fault"))
  <2>1. NoneTaken
    BY <1>5
  <2>2. CASE ~Busy(w, job)
    BY <1>3, <1>7, <2>1, <2>2, CarriesOn
  <2>3. CASE Busy(w, job)
    <3>1. job = mine
      BY <1>6, <2>3
    <3> QED
      BY <1>5, <2>3, <3>1
  <2> QED
    BY <2>2, <2>3
<1>8. DealtStays
  <2> SUFFICES ASSUME NEW u \in User, NEW k \in Tasks, Dealt(u, k) PROVE Dealt(u, k)'
    BY DEF DealtStays
  <2>1. ASSUME k \in {"sms", "push"}, Carried(<<k, u>>)
        PROVE  Dealt(u, k)'
    <3>1. CASE Carried(<<k, u>>)'
      BY <2>1, <3>1 DEF Dealt
    <3>2. CASE Busy(w, <<k, u>>) /\ ~Happened("fault")
      <4>1. Reported(u, k)
        BY <1>1, <2>1, <3>2 DEF ChannelRun, Retry
      <4> QED
        BY <1>1, <4>1, ReportsOn DEF Dealt
    <3> QED
      BY <1>7, <2>1, <3>1, <3>2
  <2> QED
    BY <1>1, <2>1, DealsOn
<1>9. NoticeRun(w)' /\ ChannelRun(w)'
  BY <1>3 DEF NoticeRun, ChannelRun, At
<1>10. Carried(<<"notice">>) => Carried(<<"notice">>)' \/ (<<"notice">> \in givenUp' /\ Stopped')
  <2>1. ASSUME Busy(w, <<"notice">>), ~Happened("fault")
        PROVE  Stopped'
    <3>1. Stopped
      BY <1>1, <2>1 DEF NoticeRun, Retry
    <3> QED
      BY <1>1, <3>1, StoppedOn
  <2> QED
    BY <1>7, <2>1
<1> QED
  BY <1>3, <1>8, <1>9, <1>10, AccountStands

(* The database refuses a statement: the task is tried again.              *)
LEMMA FaultAccount ==
  ASSUME AccountInv, [Next]_vars, ~Excused', NEW w \in Worker, Fault(w)
  PROVE  AccountInv'
<1>1. ~Excused /\ Grows /\ LogInv /\ TypeOK /\ PlansFit
  BY NotExcused
<1>2. Goes(w, "retry", run[w].plan, {})
  BY <1>1, FaultGoes
<1>3. NoneTaken /\ done' = done
  BY BrokerIdle DEF Fault, broker, origin
<1>4. \A job : Carried(job) => Carried(job)'
  BY <1>2, <1>3, CarriesWith
<1>5. DealtStays
  BY <1>1, <1>4, DealsOn DEF DealtStays, Dealt
<1>6. run'[w].at = "retry" /\ SameElsewhere(w)
  BY <1>2 DEF Goes
<1>7. Happened("fault")'
  BY TroubleStep DEF Fault, AccountInv, Incident
<1>8. ~At(w, "plan")' /\ ~At(w, "keep")'
  BY <1>6 DEF At
<1>9. NoticeRun(w)' /\ ChannelRun(w)'
  BY <1>7, <1>8 DEF NoticeRun, ChannelRun
<1> QED
  BY <1>3, <1>4, <1>5, <1>6, <1>9, AccountStands

(* A message is taken: its run carries the job.                            *)
LEMMA TakeAccount ==
  ASSUME AccountInv, [Next]_vars, ~Excused', NEW w \in Worker, NEW m \in Message, Take(w, m)
  PROVE  AccountInv'
<1>1. ~Excused /\ Grows /\ LogInv /\ TypeOK /\ PlansFit
  BY NotExcused
<1>2. /\ run[w] = Idle /\ run'[w] # Idle /\ SameElsewhere(w)
      /\ run'[w].message = m /\ run'[w].at = "plan"
      /\ m.job = <<"notice">> => run'[w].plan = Plan(notice)
      /\ \A u \in User :
           /\ m.job = <<"sms", u>>  => run'[w].plan = <<<<u, "text">>>>
           /\ m.job = <<"push", u>> => run'[w].plan # <<>>
  BY <1>1, TakeIs
<1>3. queue' = [queue EXCEPT ![m] = @ - 1] /\ queue \in [Message -> Nat] /\ done' = done
  BY <1>1 DEF Take, TypeOK, origin
<1>4. Busy(w, m.job)' /\ \A job : Busy(w, job)' <=> job = m.job
  BY <1>2 DEF Busy
<1>5. Carried(m.job)'
  BY <1>2, <1>4 DEF Carried
<1>6. ASSUME NEW job, Carried(job)
      PROVE  Carried(job)'
  <2>1. CASE job = m.job
    BY <1>5, <2>1
  <2>2. ASSUME job # m.job, NEW l \in Message, l.job = job, queue[l] > 0
        PROVE  Carried(job)'
    <3>1. queue'[l] = queue[l]
      BY <1>3, <2>2
    <3> QED
      BY <2>2, <3>1 DEF Carried
  <2>3. ASSUME NEW v \in Worker, Busy(v, job), run[v].at # "acknowledge"
        PROVE  Carried(job)'
    <3>1. v # w
      BY <1>2, <2>3 DEF Busy
    <3>2. run'[v] = run[v]
      BY <1>2, <3>1 DEF SameElsewhere
    <3>3. Busy(v, job)' /\ run'[v].at # "acknowledge"
      BY <2>3, <3>2 DEF Busy
    <3> QED
      BY <3>3 DEF Carried
  <2> QED
    BY <1>6, <2>1, <2>2, <2>3 DEF Carried
<1>7. DealtStays
  BY <1>1, <1>6, DealsOn DEF DealtStays, Dealt
<1>8. ~At(w, "keep")' /\ ~At(w, "retry")'
  BY <1>2 DEF At
<1>9. NoticeRun(w)'
  <2>1. ASSUME Busy(w, <<"notice">>)'
        PROVE  Steps(run[w].plan)' = Duties'
    <3>1. run'[w].plan = Plan(notice)
      BY <1>2, <1>4, <2>1
    <3> QED
      BY <1>1, <3>1 DEF Duties, Grows
  <2> QED
    BY <1>8, <2>1 DEF NoticeRun
<1>10. ChannelRun(w)'
  <2>1. ASSUME NEW u \in User, NEW k \in {"sms", "push"}, Busy(w, <<k, u>>)'
        PROVE  run'[w].plan # <<>>
    <3>1. m.job = <<k, u>>
      <4>1. run'[w].message.job = <<k, u>>
        BY <2>1 DEF Busy
      <4>2. run'[w].message = m
        BY <1>2
      <4> QED
        BY <4>1, <4>2, Zenon
    <3>2. CASE k = "sms"
      <4>1. run'[w].plan = <<<<u, "text">>>>
        BY <1>2, <3>1, <3>2
      <4>2. Len(<<<<u, "text">>>>) = 1 /\ Len(<<>>) = 0
        OBVIOUS
      <4> QED
        BY <4>1, <4>2
    <3>3. CASE k = "push"
      BY <1>2, <3>1, <3>3
    <3> QED
      BY <3>2, <3>3
  <2> QED
    BY <1>8, <2>1 DEF ChannelRun
<1> QED
  BY <1>2, <1>3, <1>6, <1>7, <1>9, <1>10, AccountStands

(* A run ends: it is over, or its message goes back to the broker.         *)
LEMMA EndAccount ==
  ASSUME AccountInv, [Next]_vars, ~Excused', NEW w \in Worker,
         Acknowledge(w) \/ WorkerDies(w) \/ ProcessDies(w)
  PROVE  AccountInv'
<1>1. ~Excused /\ Grows /\ LogInv /\ TypeOK /\ PlansFit
  BY NotExcused
<1>2. ~ProcessDies(w)
  BY DEF ProcessDies, Excused
<1>3. run'[w] = Idle /\ SameElsewhere(w) /\ done' = done
  BY <1>1 DEF Acknowledge, WorkerDies, ProcessDies, TypeOK, SameElsewhere, origin
<1>4. ASSUME NEW job, Carried(job)
      PROVE  Carried(job)'
  <2>1. CASE Acknowledge(w)
    <3>1. NoneTaken /\ run[w].at = "acknowledge"
      BY <2>1, BrokerIdle DEF Acknowledge, broker, At
    <3> QED
      BY <1>3, <1>4, <3>1, CarriesOn
  <2>2. CASE WorkerDies(w)
    <3> DEFINE m == run[w].message
    <3>1. m \in Message
      BY <1>1, <2>2, RunFields DEF WorkerDies
    <3>2. queue' = [queue EXCEPT ![m] = @ + 1] /\ queue \in [Message -> Nat]
      BY <1>1, <2>2 DEF WorkerDies, TypeOK
    <3>3. Busy(w, job) => m.job = job
      BY DEF Busy
    <3> HIDE DEF m
    <3>4. queue'[m] > 0 /\ NoneTaken
      BY <3>1, <3>2 DEF NoneTaken
    <3>5. Busy(w, job) => Carried(job)'
      BY <3>1, <3>3, <3>4 DEF Carried
    <3> QED
      BY <1>3, <1>4, <3>4, <3>5, CarriesOn
  <2> QED
    BY <1>2, <2>1, <2>2
<1>5. DealtStays
  BY <1>1, <1>4, DealsOn DEF DealtStays, Dealt
<1>6. NoticeRun(w)' /\ ChannelRun(w)'
  BY <1>3 DEF NoticeRun, ChannelRun, Busy
<1> QED
  BY <1>3, <1>4, <1>5, <1>6, AccountStands

(* The alert to the admins is no step of any other notice.                 *)
LEMMA NoAlert ==
  ASSUME AccountInv, ~Excused, NEW w \in Worker, NEW u \in User, Alert(w, u)
  PROVE  FALSE
<1>1. Does(w, u, "alert") /\ LogInv /\ TypeOK /\ PlansFit
  BY DEF Alert, AccountInv, LogInv
<1>2. run[w] # Idle /\ (Busy(w, <<"notice">>) => <<u, "alert">> \in Duties)
  BY <1>1, FitNow
<1>3. <<u, "alert">> \notin Duties
  BY DutyKnown DEF Tasks
<1>4. \A x \in User : ~Busy(w, <<"sms", x>>) /\ ~Busy(w, <<"push", x>>)
  BY <1>1, FitNow, NoticeAssumption
<1> QED
  BY <1>1, <1>2, <1>3, <1>4, Jobs

(* The handler, and steps that change no run.                              *)
LEMMA HandlerAccount ==
  ASSUME AccountInv, [Next]_vars, ~Excused', UNCHANGED run,
         \/ HandlerQueues
         \/ UNCHANGED queue /\ ("queue" \in done' => "queue" \in done)
  PROVE  AccountInv'
<1>1. ~Excused /\ Grows /\ LogInv /\ NoticeKept
  BY NotExcused DEF AccountInv
<1>2. LogInv' /\ troubles' \in Seq(Incident) /\ PlansFit'
  BY LogNext, Growing, FitStays DEF AccountInv
<1>3. NoneTaken /\ (HandlerQueues => Carried(<<"notice">>)')
  <2>1. CASE HandlerQueues
    <3>1. <<"notice">> \in Job /\ 0 \in 0..MaxRetries
      BY NoticeAssumption DEF Job
    <3> QED
      BY <1>1, <2>1, <3>1, Publishes DEF HandlerQueues
  <2>2. CASE UNCHANGED queue /\ ~HandlerQueues
    BY <2>2, BrokerIdle
  <2> QED
    BY <2>1, <2>2
<1>4. ASSUME NEW job, Carried(job)
      PROVE  Carried(job)'
  <2>1. \A w \in Worker : Busy(w, job)' <=> Busy(w, job)
    BY DEF Busy
  <2> QED
    BY <1>3, <1>4, <2>1 DEF Carried, NoneTaken
<1>5. DealtStays
  BY <1>1, <1>4, DealsOn DEF DealtStays, Dealt
<1>6. \A w \in Worker : NoticeRun(w)' /\ ChannelRun(w)'
  <2>1. ASSUME NEW w \in Worker
        PROVE  NoticeRun(w)' /\ ChannelRun(w)'
    <3>1. NoticeRun(w) /\ ChannelRun(w) /\ run'[w] = run[w]
      BY <1>1 DEF AccountInv
    <3> QED
      BY <1>1, <1>5, <3>1, RunStands
  <2> QED
    BY <2>1
<1>7. NoticeKept'
  <2>1. Duties' = Duties
    BY <1>1, DutiesStay
  <2>2. <<"notice">> \in givenUp /\ Stopped => <<"notice">> \in givenUp' /\ Stopped'
    BY <1>1, StoppedOn DEF Grows
  <2>3. (\A u \in User, k \in Tasks : <<u, k>> \in Duties => Dealt(u, k)) =>
          \A u \in User, k \in Tasks : <<u, k>> \in Duties => Dealt(u, k)'
    BY <1>5 DEF DealtStays
  <2> QED
    BY <1>1, <1>3, <1>4, <2>1, <2>2, <2>3 DEF NoticeKept
<1> QED
  BY <1>2, <1>6, <1>7 DEF AccountInv

(* The steps that write a row.                                             *)
LEMMA WritesAccount ==
  ASSUME AccountInv, [Next]_vars, ~Excused', NEW w \in Worker, NEW u \in User, NEW k, Does(w, u, k),
         NEW c \in Accounts(k), NEW s \in Status, Record(w, u, c, s), NoneTaken, done' = done
  PROVE  AccountInv'
<1>1. Goes(w, "plan", Tail(run[w].plan), run[w].new \cup {<<u, c, s>>})
  BY RecordGoes DEF AccountInv, LogInv
<1> QED
  BY <1>1, RowAccount

LEMMA StepAccount ==
  ASSUME AccountInv, [Next]_vars, ~Excused', NEW w \in Worker, NEW u \in User,
         \/ Letter(w, u) \/ Alert(w, u) \/ Email(w, u) \/ QueueSms(w, u) \/ QueuePush(w, u)
         \/ Text(w, u) \/ NoDevice(w, u) \/ \E d \in Device : Push(w, u, d)
  PROVE  AccountInv'
<1>1. /\ UNCHANGED broker => NoneTaken
      /\ UNCHANGED queue => NoneTaken
      /\ UNCHANGED origin => done' = done
  BY BrokerIdle DEF broker, origin
<1>2. /\ "email" \in Accounts("link") /\ "email" \in Accounts("email") /\ "sms" \in Accounts("text")
      /\ "sms" \in Accounts("sms") /\ "push" \in Accounts("push") /\ "push" \in Accounts("none")
      /\ \A d \in Device : d \in Accounts(d) /\ d \notin Tasks
  BY NoticeAssumption DEF Accounts, Tasks
<1>3. {"delivered", "skipped", "failed"} \subseteq Status
  BY DEF Status
<1>4. CASE Letter(w, u)
  <2>1. Does(w, u, "link") /\ UNCHANGED <<origin, broker>>
    BY <1>4 DEF Letter
  <2>2. CASE Record(w, u, "email", "delivered")
    BY <1>1, <1>2, <1>3, <2>1, <2>2, WritesAccount
  <2>3. CASE RecordFailure(w, u, "email")
    BY <1>2, <2>1, <2>3, FailureAccount
  <2> QED
    BY <1>4, <2>2, <2>3 DEF Letter
<1>5. CASE Email(w, u)
  <2>1. Does(w, u, "email") /\ UNCHANGED <<origin, broker>>
    BY <1>5 DEF Email
  <2>2. CASE Record(w, u, "email", "delivered") \/ Record(w, u, "email", "skipped")
    BY <1>1, <1>2, <1>3, <2>1, <2>2, WritesAccount
  <2>3. CASE RecordFailure(w, u, "email")
    BY <1>2, <2>1, <2>3, FailureAccount
  <2> QED
    BY <1>5, <2>2, <2>3 DEF Email
<1>6. CASE Text(w, u)
  <2>1. Does(w, u, "text") /\ UNCHANGED <<origin, broker>>
    BY <1>6 DEF Text
  <2>2. CASE Record(w, u, "sms", "delivered") \/ Record(w, u, "sms", "skipped")
    BY <1>1, <1>2, <1>3, <2>1, <2>2, WritesAccount
  <2>3. CASE RecordFailure(w, u, "sms")
    BY <1>2, <2>1, <2>3, FailureAccount
  <2> QED
    BY <1>6, <2>2, <2>3 DEF Text
<1>7. CASE QueueSms(w, u)
  <2>1. Does(w, u, "sms") /\ UNCHANGED origin
    BY <1>7 DEF QueueSms
  <2>2. CASE Publish(<<"sms", u>>, 0) /\ run' = [run EXCEPT ![w].plan = Tail(@)]
    BY <1>1, <2>1, <2>2, QueueAccount
  <2>3. CASE Record(w, u, "sms", "skipped") /\ UNCHANGED queue
    BY <1>1, <1>2, <1>3, <2>1, <2>3, WritesAccount
  <2> QED
    BY <1>7, <2>2, <2>3 DEF QueueSms
<1>8. CASE QueuePush(w, u)
  <2>1. Does(w, u, "push") /\ UNCHANGED origin
    BY <1>8 DEF QueuePush
  <2>2. CASE Publish(<<"push", u>>, 0) /\ run' = [run EXCEPT ![w].plan = Tail(@)]
    BY <1>1, <2>1, <2>2, QueueAccount
  <2>3. CASE Record(w, u, "push", "skipped") /\ UNCHANGED queue
    BY <1>1, <1>2, <1>3, <2>1, <2>3, WritesAccount
  <2> QED
    BY <1>8, <2>2, <2>3 DEF QueuePush
<1>9. CASE NoDevice(w, u)
  <2>1. /\ Does(w, u, "none") /\ UNCHANGED <<origin, broker>> /\ Record(w, u, "push", "skipped")
    BY <1>9 DEF NoDevice
  <2> QED
    BY <1>1, <1>2, <1>3, <2>1, WritesAccount
<1>10. ASSUME NEW d \in Device, Push(w, u, d)
       PROVE  AccountInv'
  <2>1. Does(w, u, d) /\ UNCHANGED <<origin, broker>>
    BY <1>10 DEF Push
  <2>2. CASE Record(w, u, d, "delivered") \/ Record(w, u, d, "failed")
    BY <1>1, <1>2, <1>3, <2>1, <2>2, WritesAccount
  <2>3. CASE run' = [run EXCEPT ![w].plan = <<>>, ![w].new = @ \cup {<<u, d, "skipped">>}]
    <3>1. run[w] # Idle /\ run[w].at = "plan" /\ TypeOK
      BY <2>1, FitNow DEF AccountInv, LogInv
    <3>2. Goes(w, "plan", <<>>, run[w].new \cup {<<u, d, "skipped">>})
      BY <2>3, <3>1, CutGoes
    <3> QED
      BY <1>1, <1>2, <1>3, <2>1, <3>2, RowAccount
  <2> QED
    BY <1>10, <2>2, <2>3 DEF Push
<1>11. ~Alert(w, u)
  BY NotExcused, NoAlert
<1> QED
  BY <1>4, <1>5, <1>6, <1>7, <1>8, <1>9, <1>10, <1>11

-----------------------------------------------------------------------------
LEMMA AccountInit == Init => AccountInv
<1> SUFFICES ASSUME Init PROVE AccountInv
  OBVIOUS
<1>1. \A w \in Worker : run[w] = Idle
  BY DEF Init
<1>2. troubles \in Seq(Incident) /\ "queue" \notin done
  BY DEF Init
<1> QED
  BY <1>1, <1>2, LogInit DEF AccountInv, PlansFit, NoticeRun, ChannelRun, Busy, NoticeKept

LEMMA AccountNext == AccountInv /\ [Next]_vars => AccountInv'
<1> SUFFICES ASSUME AccountInv, [Next]_vars PROVE AccountInv'
  OBVIOUS
<1>1. CASE Excused'
  BY <1>1, LogNext, Growing, FitStays DEF AccountInv
<1>2. CASE ~Excused'
  <2>1. CASE UNCHANGED vars \/ HandlerQueues \/ HandlerCommits \/ HandlerDies
    <3>1. UNCHANGED run
      BY <2>1 DEF vars, HandlerQueues, HandlerCommits, HandlerDies, HandlerStep
    <3>2. HandlerQueues \/ (UNCHANGED queue /\ ("queue" \in done' => "queue" \in done))
      BY <2>1 DEF vars, origin, broker, HandlerQueues, HandlerCommits, HandlerDies, HandlerStep
    <3> QED
      BY <1>2, <3>1, <3>2, HandlerAccount
  <2>2. ASSUME NEW w \in Worker, Work(w)
        PROVE  AccountInv'
    BY <1>2, <2>2, TakeAccount, StepAccount, CommitAccount, RetryAccount, EndAccount DEF Work
  <2>3. ASSUME NEW w \in Worker, Fault(w) \/ WorkerDies(w) \/ ProcessDies(w)
        PROVE  AccountInv'
    BY <1>2, <2>3, FaultAccount, EndAccount
  <2> QED
    BY <2>1, <2>2, <2>3 DEF Next
<1> QED
  BY <1>1, <1>2

(* At every moment, unless a process died under its worker or the database *)
(* failed a last retry: a queued notice is on its way, was stopped by a    *)
(* failed e-mail that is in the log, or has each of its channels reported  *)
(* in the log or left to a job that is itself on its way                   *)
(* (tasks/notifications.py, any number of workers, devices and retries).   *)
THEOREM NoticesAreCarried == Spec => []AccountInv
  BY AccountInit, AccountNext, PTL DEF Spec

(* Once all is quiet, every recipient of a notice has a delivery row for   *)
(* every channel, through retries, rollbacks and dead workers; but for a   *)
(* notice given up, which has left the failed row of the e-mail that       *)
(* stopped it, and the exceptions the property names.                      *)
THEOREM NobodyIsForgotten == Spec => []EveryoneIsAccountedFor
<1>1. AccountInv => EveryoneIsAccountedFor
  <2> SUFFICES ASSUME AccountInv, Settled, "queue" \in done, ~lost, notice # "documents",
                      ~(Happened("fault") /\ givenUp # {}), ~(<<"notice">> \in givenUp /\ Stopped),
                      NEW u \in Recipients(notice)
               PROVE  /\ Told(u, "email")
                      /\ notice \notin Link => /\ Told(u, "sms")
                                               /\ \E c \in {"push"} \cup Device : Told(u, c)
    BY DEF EveryoneIsAccountedFor, Stopped
  <2>1. NoticeKept /\ notice \in Notice
    BY DEF AccountInv, Excused, LogInv, TypeOK
  <2>2. \A job : ~Carried(job)
    BY DEF Carried, Settled, Busy
  <2>3. \A k \in Tasks : <<u, k>> \in Duties => Reported(u, k)
    <3>1. u \in User
      BY <2>1, DutiesAre
    <3> QED
      BY <2>1, <2>2, <3>1 DEF NoticeKept, Dealt
  <2>4. CASE notice \in Link
    <3>1. Reported(u, "link")
      BY <2>1, <2>3, <2>4, DutiesAre DEF Tasks
    <3> QED
      BY <2>4, <3>1 DEF Reported, Accounts
  <2>5. CASE notice \notin Link
    <3>1. Reported(u, "email") /\ Reported(u, "sms") /\ Reported(u, "push")
      BY <2>1, <2>3, <2>5, DutiesAre DEF Tasks
    <3> QED
      BY <3>1 DEF Reported, Accounts
  <2> QED
    BY <2>4, <2>5
<1> QED
  BY <1>1, NoticesAreCarried, PTL

-----------------------------------------------------------------------------
(* Repeats.  Without crashes the notice has one token, a message or a run, *)
(* and every chance to send again is a retry of somebody's.                *)
Mail       == {"link", "alert", "email"}
Generation == 0..MaxRetries

(* The steps of the notice that lead to a channel, the kind of job that    *)
(* they may leave it to, and the step of that job that sends.              *)
Starts(c) == IF c = "email" THEN Mail ELSE IF c = "sms" THEN {"sms"} ELSE {"push"}
Kind(c)   == IF c = "email" THEN "mail" ELSE IF c = "sms" THEN "sms" ELSE "push"
Final(c)  == IF c = "sms" THEN "text" ELSE c

Live(w, job) == Busy(w, job) /\ run[w].at # "acknowledge"

(* A run or a later retry of it may still take one of these steps.         *)
Ahead(w, r, steps) ==
  \/ run[w].message.retries < r
  \/ run[w].message.retries = r /\ At(w, "plan") /\ Steps(run[w].plan) \cap steps # {}

MayStart(u, c, r) ==
  \/ "queue" \notin done
  \/ \E m \in Message : m.job = <<"notice">> /\ queue[m] > 0 /\ m.retries <= r
  \/ \E w \in Worker : Live(w, <<"notice">>) /\ Ahead(w, r, {u} \X Starts(c))

(* The chances that are left to send to u over c: those of a generation of *)
(* the notice that may still start it, of a job waiting in the broker and  *)
(* of a job under way, by the number of the retry.                         *)
StartTag(r)    == <<"turn", r, 0>>
WaitTag(m, i) == <<"message", m, i>>
RunTag(w)     == <<"run", w, 0>>

Openings(u, c) ==
  {StartTag(r) : r \in {g \in Generation : MayStart(u, c, g)}} \X (IF c = "email" THEN {0} ELSE Generation)

Waits(m) == {WaitTag(m, i) : i \in 1..queue[m]} \X (m.retries..MaxRetries)

Tries(w, u, c) == {RunTag(w)} \X {r \in Generation : Ahead(w, r, {<<u, Final(c)>>})}

Left(u, c) ==
  Openings(u, c)
    \cup (UNION {Waits(m) : m \in {n \in Message : n.job = <<Kind(c), u>>}})
    \cup (UNION {Tries(w, u, c) : w \in {v \in Worker : Live(v, <<Kind(c), u>>)}})

Limit(c) == IF c = "email" THEN MaxRetries + 1 ELSE (MaxRetries + 1) * (MaxRetries + 1)

Bounded ==
  \A u \in User, c \in Channel :
    IsFiniteSet(Left(u, c)) /\ sent[u][c] + Cardinality(Left(u, c)) <= Limit(c)

(* The handler queues the notice once.                                     *)
HandlerOnce ==
  /\ handler \in {<<>>, <<"queue">>, <<"commit">>, <<"queue", "commit">>, <<"commit", "queue">>}
  /\ "queue" \in done => handler \in {<<>>, <<"commit">>}

(* A plan takes no step twice.                                             *)
Distinct(p) == \A i, j \in DOMAIN p : p[i] = p[j] => i = j
PlansOnce == \A w \in Worker : run[w] # Idle => Distinct(run[w].plan)

(* The notice is one message, or one run, at a time.                       *)
Waiting(m) == m.job = <<"notice">> /\ queue[m] > 0
Sole ==
  /\ \A m \in Message : Waiting(m) =>
       /\ "queue" \in done /\ queue[m] = 1
       /\ \A n \in Message : Waiting(n) => n = m
       /\ \A w \in Worker : ~Live(w, <<"notice">>)
  /\ \A v \in Worker : Live(v, <<"notice">>) =>
       /\ "queue" \in done
       /\ \A w \in Worker : Live(w, <<"notice">>) => w = v

RepeatInv ==
  /\ LogInv /\ troubles \in Seq(Incident) /\ PlansFit /\ HandlerOnce /\ PlansOnce
  /\ ~Happened("crash") => Sole /\ Bounded

-----------------------------------------------------------------------------
(* What is in the set of chances.                                          *)
LEMMA TagsDiffer ==
  /\ \A r, q : StartTag(r) = StartTag(q) <=> r = q
  /\ \A m, n, i, j : WaitTag(m, i) = WaitTag(n, j) <=> m = n /\ i = j
  /\ \A v, w : RunTag(v) = RunTag(w) <=> v = w
  /\ \A r, m, i : StartTag(r) # WaitTag(m, i)
  /\ \A r, w : StartTag(r) # RunTag(w)
  /\ \A m, i, w : WaitTag(m, i) # RunTag(w)
  BY DEF StartTag, WaitTag, RunTag

Span(c) == IF c = "email" THEN {0} ELSE Generation

(* The chances by their tags.                                              *)
Tagged(S, u, c) ==
  /\ \A r, s : <<StartTag(r), s>> \in S <=> r \in Generation /\ MayStart(u, c, r) /\ s \in Span(c)
  /\ \A m, i, s : <<WaitTag(m, i), s>> \in S <=>
       m \in Message /\ m.job = <<Kind(c), u>> /\ i \in 1..queue[m] /\ s \in m.retries..MaxRetries
  /\ \A w, s : <<RunTag(w), s>> \in S <=>
       /\ w \in Worker /\ Live(w, <<Kind(c), u>>)
       /\ s \in Generation /\ Ahead(w, s, {<<u, Final(c)>>})
  /\ \A x \in S : \E t, s : x = <<t, s>> /\ \/ \E r : t = StartTag(r)
                                            \/ \E m, i : t = WaitTag(m, i)
                                            \/ \E w : t = RunTag(w)

LEMMA PairsIn ==
  ASSUME NEW A, NEW B
  PROVE  /\ \A t, s : <<t, s>> \in A \X B <=> t \in A /\ s \in B
         /\ \A x \in A \X B : \E t \in A, s \in B : x = <<t, s>>
  OBVIOUS

LEMMA OpeningsHave ==
  ASSUME NEW u, NEW c
  PROVE  /\ \A t, s : <<t, s>> \in Openings(u, c) <=>
              (\E r \in Generation : t = StartTag(r) /\ MayStart(u, c, r)) /\ s \in Span(c)
         /\ \A x \in Openings(u, c) : \E t, s : x = <<t, s>>
<1> DEFINE A == {StartTag(r) : r \in {g \in Generation : MayStart(u, c, g)}}
<1>1. Openings(u, c) = A \X Span(c)
  BY DEF Openings, Span
<1>2. \A t : t \in A <=> \E r \in Generation : t = StartTag(r) /\ MayStart(u, c, r)
  OBVIOUS
<1> HIDE DEF A
<1> QED
  BY <1>1, <1>2, PairsIn

LEMMA WaitsHave ==
  ASSUME NEW m
  PROVE  /\ \A t, s : <<t, s>> \in Waits(m) <=>
              (\E i \in 1..queue[m] : t = WaitTag(m, i)) /\ s \in m.retries..MaxRetries
         /\ \A x \in Waits(m) : \E t, s : x = <<t, s>>
<1> DEFINE A == {WaitTag(m, i) : i \in 1..queue[m]}
           B == m.retries..MaxRetries
<1>1. Waits(m) = A \X B
  BY DEF Waits
<1>2. \A t : t \in A <=> \E i \in 1..queue[m] : t = WaitTag(m, i)
  OBVIOUS
<1>3. /\ \A t, s : <<t, s>> \in Waits(m) <=> t \in A /\ s \in B
      /\ \A x \in Waits(m) : \E t, s : x = <<t, s>>
  <2> HIDE DEF A, B
  <2> QED
    BY <1>1, PairsIn
<1> HIDE DEF A
<1> QED
  BY <1>2, <1>3

LEMMA TriesHave ==
  ASSUME NEW w, NEW u, NEW c
  PROVE  \A t, s : <<t, s>> \in Tries(w, u, c) <=>
           t = RunTag(w) /\ s \in Generation /\ Ahead(w, s, {<<u, Final(c)>>})
<1> DEFINE B == {r \in Generation : Ahead(w, r, {<<u, Final(c)>>})}
<1>1. Tries(w, u, c) = {RunTag(w)} \X B
  BY DEF Tries
<1>2. \A s : s \in B <=> s \in Generation /\ Ahead(w, s, {<<u, Final(c)>>})
  OBVIOUS
<1> HIDE DEF B
<1> QED
  BY <1>1, <1>2

LEMMA TriesArePairs ==
  ASSUME NEW w, NEW u, NEW c, NEW x \in Tries(w, u, c)
  PROVE  \E t, s : x = <<t, s>>
  BY DEF Tries

LEMMA LeftIs == ASSUME NEW u, NEW c PROVE Tagged(Left(u, c), u, c)
<1> DEFINE job == <<Kind(c), u>>
<1>1. \A x : x \in Left(u, c) <=>
        \/ x \in Openings(u, c)
        \/ \E m \in Message : m.job = job /\ x \in Waits(m)
        \/ \E w \in Worker : Live(w, job) /\ x \in Tries(w, u, c)
  BY DEF Left
<1> HIDE DEF job
<1>2. ASSUME NEW t, NEW s
      PROVE  <<t, s>> \in Left(u, c) <=>
        \/ \E r \in Generation : t = StartTag(r) /\ MayStart(u, c, r) /\ s \in Span(c)
        \/ \E m \in Message : \E i \in 1..queue[m] :
             m.job = job /\ t = WaitTag(m, i) /\ s \in m.retries..MaxRetries
        \/ \E w \in Worker : /\ Live(w, job) /\ t = RunTag(w)
                             /\ s \in Generation /\ Ahead(w, s, {<<u, Final(c)>>})
  <2>1. <<t, s>> \in Openings(u, c) <=>
          \E r \in Generation : t = StartTag(r) /\ MayStart(u, c, r) /\ s \in Span(c)
    BY OpeningsHave
  <2>2. ASSUME NEW m \in Message
        PROVE  m.job = job /\ <<t, s>> \in Waits(m) <=>
                 \E i \in 1..queue[m] : m.job = job /\ t = WaitTag(m, i) /\ s \in m.retries..MaxRetries
    BY WaitsHave
  <2>3. ASSUME NEW w \in Worker
        PROVE  <<t, s>> \in Tries(w, u, c) <=>
                 t = RunTag(w) /\ s \in Generation /\ Ahead(w, s, {<<u, Final(c)>>})
    BY TriesHave
  <2> QED
    BY <1>1, <2>1, <2>2, <2>3
<1>3. ASSUME NEW r, NEW s
      PROVE  <<StartTag(r), s>> \in Left(u, c) <=> r \in Generation /\ MayStart(u, c, r) /\ s \in Span(c)
  <2> DEFINE t == StartTag(r)
  <2>1. (\A q : t = StartTag(q) <=> q = r) /\ (\A m, i : t # WaitTag(m, i)) /\ \A w : t # RunTag(w)
    BY TagsDiffer
  <2> HIDE DEF t
  <2>2. <<t, s>> \in Left(u, c) <=> r \in Generation /\ MayStart(u, c, r) /\ s \in Span(c)
    BY <1>2, <2>1
  <2> QED
    BY <2>2 DEF t
<1>4. ASSUME NEW m, NEW i, NEW s
      PROVE  <<WaitTag(m, i), s>> \in Left(u, c) <=>
               m \in Message /\ m.job = job /\ i \in 1..queue[m] /\ s \in m.retries..MaxRetries
  <2> DEFINE t == WaitTag(m, i)
  <2>1. /\ \A q : t # StartTag(q)
        /\ \A n, j : t = WaitTag(n, j) <=> n = m /\ j = i
        /\ \A w : t # RunTag(w)
    BY TagsDiffer
  <2> HIDE DEF t
  <2>2. <<t, s>> \in Left(u, c) <=>
          m \in Message /\ m.job = job /\ i \in 1..queue[m] /\ s \in m.retries..MaxRetries
    BY <1>2, <2>1
  <2> QED
    BY <2>2 DEF t
<1>5. ASSUME NEW w, NEW s
      PROVE  <<RunTag(w), s>> \in Left(u, c) <=>
               /\ w \in Worker /\ Live(w, job)
               /\ s \in Generation /\ Ahead(w, s, {<<u, Final(c)>>})
  <2> DEFINE t == RunTag(w)
  <2>1. (\A q : t # StartTag(q)) /\ (\A n, j : t # WaitTag(n, j)) /\ \A v : t = RunTag(v) <=> v = w
    BY TagsDiffer
  <2> HIDE DEF t
  <2>2. <<t, s>> \in Left(u, c) <=>
          /\ w \in Worker /\ Live(w, job)
          /\ s \in Generation /\ Ahead(w, s, {<<u, Final(c)>>})
    BY <1>2, <2>1
  <2> QED
    BY <2>2 DEF t
<1>6. ASSUME NEW x \in Left(u, c)
      PROVE  \E t, s : x = <<t, s>> /\ \/ \E r : t = StartTag(r)
                                       \/ \E m, i : t = WaitTag(m, i)
                                       \/ \E w : t = RunTag(w)
  <2>1. ASSUME x \in Openings(u, c) PROVE \E t, s : x = <<t, s>>
    BY <2>1, OpeningsHave
  <2>2. ASSUME NEW m, x \in Waits(m) PROVE \E t, s : x = <<t, s>>
    BY <2>2, WaitsHave
  <2>3. ASSUME NEW w, x \in Tries(w, u, c) PROVE \E t, s : x = <<t, s>>
    BY <2>3, TriesArePairs
  <2>4. \/ x \in Openings(u, c)
        \/ \E m \in Message : m.job = job /\ x \in Waits(m)
        \/ \E w \in Worker : Live(w, job) /\ x \in Tries(w, u, c)
    BY <1>1
  <2>5. \E t, s : x = <<t, s>>
    BY <2>1, <2>2, <2>3, <2>4, Zenon
  <2>6. PICK t, s : x = <<t, s>>
    BY <2>5
  <2>7. (\E r : t = StartTag(r)) \/ (\E m, i : t = WaitTag(m, i)) \/ \E w : t = RunTag(w)
    <3>1. \/ \E r \in Generation : t = StartTag(r) /\ MayStart(u, c, r) /\ s \in Span(c)
          \/ \E m \in Message : \E i \in 1..queue[m] :
               m.job = job /\ t = WaitTag(m, i) /\ s \in m.retries..MaxRetries
          \/ \E w \in Worker : /\ Live(w, job) /\ t = RunTag(w)
                               /\ s \in Generation /\ Ahead(w, s, {<<u, Final(c)>>})
      BY <1>2, <2>6
    <3> QED
      BY <3>1, Zenon
  <2> QED
    BY <2>6, <2>7
<1> QED
  BY <1>3, <1>4, <1>5, <1>6 DEF Tagged, job

LEMMA LeftStillIs == ASSUME NEW u, NEW c PROVE Tagged(Left(u, c), u, c)'
<1>1. Tagged(Left(u, c), u, c)
  BY LeftIs
<1> QED
  BY <1>1, PTL

-----------------------------------------------------------------------------
(* Counting chances.                                                       *)
LEMMA Renamed ==
  ASSUME NEW S, NEW T, IsFiniteSet(T), NEW old, NEW new,
         \A x \in S : x = <<x[1], x[2]>>,
         \A x \in S : IF x[1] = new THEN <<old, x[2]>> \in T ELSE x \in T /\ x[1] # old
  PROVE  IsFiniteSet(S) /\ Cardinality(S) <= Cardinality(T)
<1> DEFINE F(x) == IF x[1] = new THEN <<old, x[2]>> ELSE x
           f == [x \in S |-> F(x)]
<1>1. f \in [S -> T]
  OBVIOUS
<1>2. ASSUME NEW x \in S, NEW y \in S, F(x) = F(y)
      PROVE  x = y
  <2>1. x = <<x[1], x[2]>> /\ y = <<y[1], y[2]>>
    OBVIOUS
  <2>2. CASE x[1] = new /\ y[1] = new
    <3>1. <<old, x[2]>> = <<old, y[2]>>
      BY <1>2, <2>2
    <3> QED
      BY <2>1, <2>2, <3>1
  <2>3. CASE x[1] = new /\ y[1] # new
    <3>1. <<old, x[2]>> = y
      BY <1>2, <2>3
    <3>2. y[1] = old
      BY <3>1
    <3> QED
      BY <2>3, <3>2
  <2>4. CASE x[1] # new /\ y[1] = new
    <3>1. x = <<old, y[2]>>
      BY <1>2, <2>4
    <3>2. x[1] = old
      BY <3>1
    <3> QED
      BY <2>4, <3>2
  <2>5. CASE x[1] # new /\ y[1] # new
    BY <1>2, <2>5
  <2> QED
    BY <2>2, <2>3, <2>4, <2>5
<1>3. DOMAIN f = S /\ \A x \in S : f[x] = F(x)
  OBVIOUS
<1> HIDE DEF f, F
<1>4. f \in Injection(S, T)
  BY <1>1, <1>2, <1>3 DEF Injection, IsInjective
<1> QED
  BY <1>4, FS_Injection

LEMMA OneSpent ==
  ASSUME NEW T, IsFiniteSet(T), NEW e \in T, NEW S \in SUBSET (T \ {e})
  PROVE  IsFiniteSet(S) /\ Cardinality(S) \in Nat /\ Cardinality(T) \in Nat
         /\ Cardinality(S) + 1 <= Cardinality(T)
<1>1. IsFiniteSet(T \ {e}) /\ Cardinality(T \ {e}) = Cardinality(T) - 1
  BY FS_RemoveElement
<1> DEFINE U == T \ {e}
<1> HIDE DEF U
<1>2. IsFiniteSet(U) /\ Cardinality(U) = Cardinality(T) - 1 /\ S \in SUBSET U
  BY <1>1 DEF U
<1>3. IsFiniteSet(S) /\ Cardinality(S) <= Cardinality(U)
  BY <1>2, FS_Subset
<1>4. Cardinality(S) \in Nat /\ Cardinality(T) \in Nat /\ Cardinality(U) \in Nat
  BY <1>2, <1>3, FS_CardinalityType
<1> QED
  BY <1>2, <1>3, <1>4

(* How a step may change the chances of one user and channel.              *)
Spent(S, T, a, b) ==
  \/ S \subseteq T /\ b = a
  \/ \E e \in T : S \subseteq T \ {e} /\ b = a + 1
  \/ \E old, new : /\ \A x \in S : x = <<x[1], x[2]>>
                   /\ \A x \in S : IF x[1] = new THEN <<old, x[2]>> \in T ELSE x \in T /\ x[1] # old
                   /\ b = a

LEMMA SpentCount ==
  ASSUME NEW S, NEW T, NEW a \in Nat, NEW b \in Nat, IsFiniteSet(T), Spent(S, T, a, b),
         NEW n \in Nat, a + Cardinality(T) <= n
  PROVE  IsFiniteSet(S) /\ b + Cardinality(S) <= n
<1>1. Cardinality(T) \in Nat
  BY FS_CardinalityType
<1>2. CASE S \subseteq T /\ b = a
  <2>1. IsFiniteSet(S) /\ Cardinality(S) <= Cardinality(T)
    BY <1>2, FS_Subset
  <2>2. Cardinality(S) \in Nat
    BY <2>1, FS_CardinalityType
  <2> QED
    BY <1>1, <1>2, <2>1, <2>2
<1>3. CASE \E e \in T : S \subseteq T \ {e} /\ b = a + 1
  <2>1. PICK e \in T : S \subseteq T \ {e} /\ b = a + 1
    BY <1>3
  <2>2. IsFiniteSet(S) /\ Cardinality(S) \in Nat /\ Cardinality(S) + 1 <= Cardinality(T)
    BY <2>1, OneSpent
  <2> QED
    BY <1>1, <2>1, <2>2
<1>4. CASE \E old, new : /\ \A x \in S : x = <<x[1], x[2]>>
                         /\ \A x \in S : IF x[1] = new THEN <<old, x[2]>> \in T ELSE x \in T /\ x[1] # old
                         /\ b = a
  <2>1. PICK old, new : /\ \A x \in S : x = <<x[1], x[2]>>
                        /\ \A x \in S : IF x[1] = new THEN <<old, x[2]>> \in T ELSE x \in T /\ x[1] # old
                        /\ b = a
    BY <1>4
  <2>2. IsFiniteSet(S) /\ Cardinality(S) <= Cardinality(T)
    BY <2>1, Renamed
  <2>3. Cardinality(S) \in Nat
    BY <2>2, FS_CardinalityType
  <2> QED
    BY <1>1, <2>1, <2>2, <2>3
<1> QED
  BY <1>2, <1>3, <1>4 DEF Spent

LEMMA LimitType == ASSUME NEW c PROVE Limit(c) \in Nat
<1> DEFINE n == MaxRetries + 1
<1>1. n \in Nat
  BY NoticeAssumption
<1> HIDE DEF n
<1>2. n * n \in Nat
  BY <1>1
<1> QED
  BY <1>1, <1>2 DEF Limit, n

LEMMA BoundStays ==
  ASSUME Bounded, TypeOK, TypeOK',
         \A u \in User, c \in Channel : Spent(Left(u, c)', Left(u, c), sent[u][c], sent'[u][c])
  PROVE  Bounded'
<1>1. ASSUME NEW u \in User, NEW c \in Channel
      PROVE  IsFiniteSet(Left(u, c)') /\ sent'[u][c] + Cardinality(Left(u, c)') <= Limit(c)
  <2> DEFINE S == Left(u, c)'
             T == Left(u, c)
             a == sent[u][c]
             b == sent'[u][c]
             n == Limit(c)
  <2>1. a \in Nat /\ b \in Nat
    BY DEF TypeOK, Counts
  <2>2. IsFiniteSet(T) /\ a + Cardinality(T) <= n
    BY DEF Bounded
  <2>3. Spent(S, T, a, b)
    OBVIOUS
  <2>4. n \in Nat
    BY LimitType
  <2> HIDE DEF S, T, a, b, n
  <2>5. IsFiniteSet(S) /\ b + Cardinality(S) <= n
    BY <2>1, <2>2, <2>3, <2>4, SpentCount
  <2> QED
    BY <2>5 DEF S, b, n
<1>2. \A c : Limit(c)' = Limit(c)
  BY DEF Limit
<1> QED
  BY <1>1, <1>2 DEF Bounded

-----------------------------------------------------------------------------
(* Plans take no step twice.                                               *)
LEMMA OnceTail ==
  ASSUME NEW p \in Plans, p # <<>>, Distinct(p)
  PROVE  Distinct(Tail(p)) /\ Head(p) \notin Steps(Tail(p))
<1>1. p \in Seq(User \X What) /\ Len(p) \in Nat /\ DOMAIN p = 1..Len(p) /\ Len(p) > 0
  BY EmptySeq, LenProperties DEF Plans
<1>2. /\ Tail(p) \in Seq(User \X What) /\ Len(Tail(p)) = Len(p) - 1
      /\ \A i \in 1..Len(Tail(p)) : Tail(p)[i] = p[i + 1]
  BY <1>1, HeadTailProperties
<1> DEFINE t == Tail(p)
<1>3. DOMAIN t = 1..(Len(p) - 1) /\ \A i \in 1..(Len(p) - 1) : t[i] = p[i + 1]
  BY <1>2, LenProperties
<1>4. Head(p) = p[1]
  BY <1>1
<1> HIDE DEF t
<1>5. \A i, j \in 1..Len(p) : p[i] = p[j] => i = j
  BY <1>1 DEF Distinct
<1>6. Distinct(t)
  <2> SUFFICES ASSUME NEW i \in 1..(Len(p) - 1), NEW j \in 1..(Len(p) - 1), t[i] = t[j] PROVE i = j
    BY <1>3 DEF Distinct
  <2>1. i + 1 \in 1..Len(p) /\ j + 1 \in 1..Len(p) /\ p[i + 1] = p[j + 1]
    BY <1>1, <1>3
  <2>2. i + 1 = j + 1
    BY <1>5, <2>1
  <2> QED
    BY <2>2
<1>7. ASSUME NEW i \in 1..(Len(p) - 1)
      PROVE  p[1] # t[i]
  <2>1. i + 1 \in 1..Len(p) /\ 1 \in 1..Len(p) /\ i + 1 # 1 /\ t[i] = p[i + 1]
    BY <1>1, <1>3
  <2> QED
    BY <1>5, <2>1
<1>8. Head(p) \notin Steps(t)
  BY <1>3, <1>4, <1>7 DEF Steps
<1> QED
  BY <1>6, <1>8 DEF t

LEMMA OnceAll ==
  ASSUME NEW u \in User
  PROVE  Distinct(AllChannels(u)) /\ Len(AllChannels(u)) = 3
<1>1. DOMAIN AllChannels(u) = 1..3 /\ Len(AllChannels(u)) = 3
  BY DEF AllChannels
<1>2. /\ AllChannels(u)[1] = <<u, "email">> /\ AllChannels(u)[2] = <<u, "sms">>
      /\ AllChannels(u)[3] = <<u, "push">>
  BY DEF AllChannels
<1> QED
  BY <1>1, <1>2 DEF Distinct

LEMMA OnceBoth ==
  ASSUME NEW p \in Plans, NEW q \in Plans, Distinct(p), Distinct(q), Steps(p) \cap Steps(q) = {}
  PROVE  Distinct(p \o q)
<1>1. /\ p \o q \in Seq(User \X What) /\ Len(p \o q) = Len(p) + Len(q)
      /\ \A i \in 1..(Len(p) + Len(q)) : (p \o q)[i] = IF i <= Len(p) THEN p[i] ELSE q[i - Len(p)]
  BY ConcatProperties DEF Plans
<1>2. /\ Len(p) \in Nat /\ DOMAIN p = 1..Len(p) /\ Len(q) \in Nat /\ DOMAIN q = 1..Len(q)
      /\ DOMAIN (p \o q) = 1..(Len(p) + Len(q))
  BY <1>1, LenProperties DEF Plans
<1> DEFINE b == p \o q
<1>3. /\ DOMAIN b = 1..(Len(p) + Len(q))
      /\ \A i \in DOMAIN b : b[i] = IF i <= Len(p) THEN p[i] ELSE q[i - Len(p)]
  BY <1>1, <1>2
<1> HIDE DEF b
<1>4. \A i \in 1..Len(p), j \in 1..Len(q) : p[i] # q[j]
  BY <1>2 DEF Steps
<1> SUFFICES ASSUME NEW i \in DOMAIN b, NEW j \in DOMAIN b, b[i] = b[j] PROVE i = j
  BY DEF Distinct, b
<1>5. CASE i <= Len(p) /\ j <= Len(p)
  BY <1>2, <1>3, <1>5 DEF Distinct
<1>6. CASE i > Len(p) /\ j > Len(p)
  <2>1. i - Len(p) \in 1..Len(q) /\ j - Len(p) \in 1..Len(q)
    BY <1>2, <1>3, <1>6
  <2>2. b[i] = q[i - Len(p)] /\ b[j] = q[j - Len(p)]
    BY <1>2, <1>3, <1>6
  <2>3. i - Len(p) = j - Len(p)
    BY <1>2, <2>1, <2>2 DEF Distinct
  <2> QED
    BY <1>2, <1>3, <2>3
<1>7. CASE i <= Len(p) /\ j > Len(p)
  <2>1. i \in 1..Len(p) /\ j - Len(p) \in 1..Len(q)
    BY <1>2, <1>3, <1>7
  <2>2. b[i] = p[i] /\ b[j] = q[j - Len(p)]
    BY <1>2, <1>3, <1>7
  <2> QED
    BY <1>4, <2>1, <2>2
<1>8. CASE i > Len(p) /\ j <= Len(p)
  <2>1. j \in 1..Len(p) /\ i - Len(p) \in 1..Len(q)
    BY <1>2, <1>3, <1>8
  <2>2. b[j] = p[j] /\ b[i] = q[i - Len(p)]
    BY <1>2, <1>3, <1>8
  <2> QED
    BY <1>4, <2>1, <2>2
<1> QED
  BY <1>2, <1>3, <1>5, <1>6, <1>7, <1>8

LEMMA OnceSingle ==
  ASSUME NEW e
  PROVE  Distinct(<<e>>) /\ Steps(<<e>>) = {e}
  BY DEF Distinct, Steps

(* Each plan of a notice takes each step once, and mails each user once.   *)
LEMMA OnceNotice ==
  ASSUME NEW n \in Notice
  PROVE  /\ Distinct(Plan(n))
         /\ \A u, k, l : <<u, k>> \in Steps(Plan(n)) /\ <<u, l>> \in Steps(Plan(n)) /\ k \in Mail /\ l \in Mail
              => k = l
<1>1. "parent" \in User /\ "teacher" \in User /\ "admins" \in User
  BY DEF User
<1>2. n \in {"verify link", "reset link", "booking", "verification", "documents", "payout", "refund"}
  BY NoticeAssumption DEF Link, Decided
<1> DEFINE Once(p) == /\ Distinct(p)
                      /\ \A u, k, l : <<u, k>> \in Steps(p) /\ <<u, l>> \in Steps(p) /\ k \in Mail /\ l \in Mail
                           => k = l
<1>3. ASSUME NEW u \in User
      PROVE  Once(AllChannels(u))
  BY OnceAll, StepsOfAll DEF Mail
<1>4. ASSUME NEW u, NEW k
      PROVE  Once(<<<<u, k>>>>)
  BY OnceSingle
<1>5. Once(AllChannels("parent") \o AllChannels("teacher"))
  <2> DEFINE p == AllChannels("parent")
             q == AllChannels("teacher")
  <2>1. p \in Plans /\ q \in Plans /\ Distinct(p) /\ Distinct(q)
    BY <1>1, OnceAll, AllChannelsPlan
  <2>2. /\ Steps(p) = {<<"parent", "email">>, <<"parent", "sms">>, <<"parent", "push">>}
        /\ Steps(q) = {<<"teacher", "email">>, <<"teacher", "sms">>, <<"teacher", "push">>}
    BY <1>1, StepsOfAll
  <2> HIDE DEF p, q
  <2>3. Steps(p \o q) = Steps(p) \cup Steps(q)
    BY <2>1, StepsOfBoth
  <2>4. Distinct(p \o q)
    BY <2>1, <2>2, OnceBoth
  <2>5. ASSUME NEW u, NEW k \in Mail, <<u, k>> \in Steps(p) \cup Steps(q)
        PROVE  k = "email"
    BY <2>2, <2>5 DEF Mail
  <2>6. Once(p \o q)
    BY <2>3, <2>4, <2>5
  <2> HIDE DEF Once
  <2> QED
    BY <2>6 DEF p, q
<1> HIDE DEF Once
<1>6. Once(Plan(n))
  <2>1. Plan(n) \in {<<<<"parent", "link">>>>, <<<<"admins", "alert">>>>, AllChannels("parent"),
                     AllChannels("teacher"), AllChannels("parent") \o AllChannels("teacher")}
    BY <1>2
    DEF Plan, send_email_verification_message, send_password_reset_message, send_booking_confirmation,
        notify_teacher_verification_result, notify_admin_verification_submitted,
        send_payout_notification, send_refund_notification
  <2>2. /\ Once(<<<<"parent", "link">>>>) /\ Once(<<<<"admins", "alert">>>>)
        /\ Once(AllChannels("parent")) /\ Once(AllChannels("teacher"))
    BY <1>1, <1>3, <1>4
  <2> QED
    BY <1>5, <2>1, <2>2, Zenon
<1> QED
  BY <1>6 DEF Once

LEMMA OncePush ==
  ASSUME NEW u, NEW D, NEW plan \in SetToSeqs({u} \X D)
  PROVE  Distinct(plan)
<1> DEFINE n == Cardinality({u} \X D)
<1>1. plan \in [1..n -> {u} \X D] /\ \A i, j \in 1..n : i # j => plan[i] # plan[j]
  BY DEF SetToSeqs
<1> HIDE DEF n
<1> QED
  BY <1>1 DEF Distinct

LEMMA TakeOnce ==
  ASSUME LogInv, NEW w \in Worker, NEW m \in Message, Take(w, m)
  PROVE  Distinct(run'[w].plan)
<1> DEFINE PlansFor ==
      CASE m.job = <<"notice">> -> {Plan(notice)}
        [] m.job[1] = "sms"     -> {<<<<m.job[2], "text">>>>}
        [] m.job[1] = "push"    ->
             {<<<<m.job[2], "none">>>>}
               \cup UNION {SetToSeqs({m.job[2]} \X D) : D \in (SUBSET Device) \ {{}}}
<1>1. PICK plan \in PlansFor :
        run' = [run EXCEPT ![w] = [at |-> "plan", message |-> m, plan |-> plan, new |-> {}]]
  BY DEF Take
<1> DEFINE r == [at |-> "plan", message |-> m, plan |-> plan, new |-> {}]
<1>2. r.plan = plan
  OBVIOUS
<1>3. ASSUME m.job = <<"notice">>
      PROVE  Distinct(plan)
  <2>1. plan = Plan(notice)
    BY <1>1, <1>3
  <2> QED
    BY <1>1, <2>1, OnceNotice DEF LogInv, TypeOK
<1>4. ASSUME NEW u \in User, m.job = <<"sms", u>>
      PROVE  Distinct(plan)
  <2>1. m.job # <<"notice">> /\ m.job[1] = "sms" /\ m.job[2] = u
    BY <1>4, JobsDiffer
  <2> QED
    BY <1>1, <2>1, OnceSingle
<1>5. ASSUME NEW u \in User, m.job = <<"push", u>>
      PROVE  Distinct(plan)
  <2>1. m.job # <<"notice">> /\ m.job[1] = "push" /\ m.job[2] = u
    BY <1>5, JobsDiffer
  <2>2. plan \in {<<<<u, "none">>>>} \cup UNION {SetToSeqs({u} \X D) : D \in (SUBSET Device) \ {{}}}
    BY <1>1, <2>1
  <2>3. CASE plan = <<<<u, "none">>>>
    BY <2>3, OnceSingle
  <2>4. ASSUME NEW D \in (SUBSET Device) \ {{}}, plan \in SetToSeqs({u} \X D)
        PROVE  Distinct(plan)
    BY <2>4, OncePush
  <2> QED
    BY <2>2, <2>3, <2>4
<1> HIDE DEF r, PlansFor
<1>6. run' = [run EXCEPT ![w] = r]
  BY <1>1 DEF r
<1>7. run'[w] = r
  BY <1>6 DEF LogInv, TypeOK
<1>8. m.job = <<"notice">> \/ \E u \in User, k \in {"sms", "push"} : m.job = <<k, u>>
  BY JobIs
<1>9. Distinct(plan)
  BY <1>3, <1>4, <1>5, <1>8
<1>10. run'[w].plan = plan
  BY <1>2, <1>7
<1> QED
  BY <1>9, <1>10, Zenon

LEMMA HandlerStays == ASSUME HandlerOnce, [Next]_vars PROVE HandlerOnce'
<1>1. CASE HandlerQueues \/ HandlerCommits
  <2>1. PICK step \in {"queue", "commit"} : HandlerStep(step)
    BY <1>1 DEF HandlerQueues, HandlerCommits
  <2>2. /\ handler \in {<<"queue">>, <<"commit">>, <<"queue", "commit">>, <<"commit", "queue">>}
        /\ Head(handler) = step /\ handler' = Tail(handler) /\ done' = done \cup {step}
    BY <2>1 DEF HandlerStep, HandlerOnce
  <2>3. CASE handler = <<"queue">>
    BY <2>2, <2>3 DEF HandlerOnce
  <2>4. CASE handler = <<"commit">>
    BY <2>2, <2>4 DEF HandlerOnce
  <2>5. CASE handler = <<"queue", "commit">>
    BY <2>2, <2>5 DEF HandlerOnce
  <2>6. CASE handler = <<"commit", "queue">>
    <3>1. step = "commit" /\ handler' = <<"queue">>
      BY <2>2, <2>6
    <3>2. "queue" \notin done
      BY <2>6 DEF HandlerOnce
    <3> QED
      BY <2>2, <3>1, <3>2 DEF HandlerOnce
  <2> QED
    BY <2>2, <2>3, <2>4, <2>5, <2>6
<1>2. CASE HandlerDies
  BY <1>2 DEF HandlerDies, HandlerOnce
<1>3. UNCHANGED origin => HandlerOnce'
  BY DEF origin, HandlerOnce
<1>4. ASSUME NEW w \in Worker, Work(w) \/ Fault(w) \/ WorkerDies(w) \/ ProcessDies(w)
      PROVE  UNCHANGED origin
  BY <1>4
  DEF Work, Take, Letter, Alert, Email, QueueSms, QueuePush, Text, NoDevice, Push, Commit, Retry,
      Acknowledge, Fault, WorkerDies, ProcessDies
<1>5. CASE UNCHANGED vars
  BY <1>3, <1>5 DEF vars
<1> QED
  BY <1>1, <1>2, <1>3, <1>4, <1>5 DEF Next

LEMMA OnceStays ==
  ASSUME LogInv, PlansFit, PlansOnce, [Next]_vars
  PROVE  PlansOnce'
<1>1. TypeOK
  BY DEF LogInv
<1> SUFFICES ASSUME NEW v \in Worker, run'[v] # Idle PROVE Distinct(run'[v].plan)
  BY DEF PlansOnce
<1>2. run'[v] = run[v] => Distinct(run'[v].plan)
  BY DEF PlansOnce
<1>3. ASSUME NEW w \in Worker, NEW a, NEW p, NEW n, Goes(w, a, p, n), Distinct(p)
      PROVE  Distinct(run'[v].plan)
  <2>1. CASE v = w
    BY <1>3, <2>1 DEF Goes
  <2>2. CASE v # w
    BY <1>2, <1>3, <2>2 DEF Goes, SameElsewhere
  <2> QED
    BY <2>1, <2>2
<1>4. ASSUME NEW w \in Worker, NEW m \in Message, Take(w, m)
      PROVE  Distinct(run'[v].plan)
  <2>1. CASE v = w
    BY <1>4, <2>1, TakeOnce
  <2>2. CASE v # w
    BY <1>2, <1>4, <2>2, TakeIs DEF SameElsewhere
  <2> QED
    BY <2>1, <2>2
<1>5. CASE UNCHANGED run
  BY <1>2, <1>5
<1>6. Distinct(<<>>)
  BY DEF Distinct
<1>7. ASSUME NEW w \in Worker, NEW u \in User, NEW k, NEW c, NEW s, Does(w, u, k),
             Record(w, u, c, s) \/ RecordFailure(w, u, c) \/ run' = [run EXCEPT ![w].plan = Tail(@)]
      PROVE  Distinct(run'[v].plan)
  <2>1. run[w] # Idle /\ run[w].plan \in Plans /\ run[w].plan # <<>>
    BY <1>7, FitNow
  <2>2. Distinct(run[w].plan)
    BY <2>1 DEF PlansOnce
  <2>3. Distinct(Tail(run[w].plan))
    BY <2>1, <2>2, OnceTail
  <2>4. CASE Record(w, u, c, s)
    BY <1>1, <1>3, <1>7, <2>3, <2>4, RecordGoes
  <2>5. CASE RecordFailure(w, u, c)
    BY <1>1, <1>3, <1>7, <2>2, <2>5, FailureGoes
  <2>6. CASE run' = [run EXCEPT ![w].plan = Tail(@)]
    BY <1>1, <1>3, <2>1, <2>3, <2>6, TailGoes
  <2> QED
    BY <1>7, <2>4, <2>5, <2>6
<1>8. ASSUME NEW w \in Worker, NEW u \in User, NEW d \in Device, Push(w, u, d)
      PROVE  Distinct(run'[v].plan)
  <2>1. CASE run' = [run EXCEPT ![w].plan = <<>>, ![w].new = @ \cup {<<u, d, "skipped">>}]
    <3>1. run[w] # Idle
      BY <1>8, FitNow DEF Push
    <3> QED
      BY <1>1, <1>3, <1>6, <2>1, <3>1, CutGoes
  <2> QED
    BY <1>7, <1>8, <2>1 DEF Push
<1>9. ASSUME NEW w \in Worker, NEW u \in User,
             \/ Letter(w, u) \/ Email(w, u) \/ QueueSms(w, u) \/ QueuePush(w, u)
             \/ Text(w, u) \/ NoDevice(w, u)
      PROVE  Distinct(run'[v].plan)
  BY <1>7, <1>9 DEF Letter, Email, QueueSms, QueuePush, Text, NoDevice
<1>10. ASSUME NEW w \in Worker, run[w] # Idle
       PROVE  Distinct(run[w].plan)
  BY <1>10 DEF PlansOnce
<1>11. ASSUME NEW w \in Worker, NEW u \in User, Alert(w, u)
       PROVE  Distinct(run'[v].plan)
  <2>1. run[w] # Idle
    BY <1>11, FitNow DEF Alert
  <2> QED
    BY <1>1, <1>3, <1>10, <1>11, <2>1, AlertGoes
<1>12. ASSUME NEW w \in Worker, Commit(w) \/ Retry(w) \/ Fault(w)
       PROVE  Distinct(run'[v].plan)
  <2>1. run[w] # Idle
    BY <1>1, <1>12, AtWork DEF Commit, Retry, Fault
  <2> QED
    BY <1>1, <1>3, <1>6, <1>10, <1>12, <2>1, CommitGoes, RetryGoes, FaultGoes
<1>13. ASSUME NEW w \in Worker, Acknowledge(w) \/ WorkerDies(w) \/ ProcessDies(w)
       PROVE  Distinct(run'[v].plan)
  <2>1. run'[v] = Idle \/ run'[v] = run[v]
    BY <1>1, <1>13 DEF Acknowledge, WorkerDies, ProcessDies, TypeOK
  <2> QED
    BY <1>2, <2>1
<1>14. CASE UNCHANGED vars \/ HandlerQueues \/ HandlerCommits \/ HandlerDies
  BY <1>5, <1>14 DEF vars, HandlerQueues, HandlerCommits, HandlerDies, HandlerStep
<1>15. ASSUME NEW w \in Worker, Work(w)
       PROVE  Distinct(run'[v].plan)
  BY <1>4, <1>8, <1>9, <1>11, <1>12, <1>13, <1>15 DEF Work
<1> QED
  BY <1>12, <1>13, <1>14, <1>15 DEF Next

-----------------------------------------------------------------------------
(* How the chances change with the broker and the runs.                    *)

LEMMA Shrinks ==
  ASSUME NEW u, NEW c,
         \A r \in Generation : MayStart(u, c, r)' => MayStart(u, c, r),
         \A m \in Message : m.job = <<Kind(c), u>> => (1..queue[m])' \subseteq 1..queue[m],
         \A w \in Worker : Live(w, <<Kind(c), u>>)' =>
           /\ Live(w, <<Kind(c), u>>)
           /\ \A r \in Generation : Ahead(w, r, {<<u, Final(c)>>})' => Ahead(w, r, {<<u, Final(c)>>})
  PROVE  Left(u, c)' \subseteq Left(u, c)
<1>1. Tagged(Left(u, c), u, c) /\ Tagged(Left(u, c), u, c)'
  BY LeftIs, LeftStillIs
<1> SUFFICES ASSUME NEW x \in Left(u, c)' PROVE x \in Left(u, c)
  OBVIOUS
<1>2. PICK t, s : x = <<t, s>> /\ \/ \E r : t = StartTag(r)
                                  \/ \E m, i : t = WaitTag(m, i)
                                  \/ \E w : t = RunTag(w)
  BY <1>1 DEF Tagged
<1>3. ASSUME NEW r, t = StartTag(r) PROVE x \in Left(u, c)
  BY <1>1, <1>2, <1>3 DEF Tagged
<1>4. ASSUME NEW m, NEW i, t = WaitTag(m, i) PROVE x \in Left(u, c)
  <2>1. m \in Message /\ m.job = <<Kind(c), u>> /\ i \in (1..queue[m])' /\ s \in m.retries..MaxRetries
    BY <1>1, <1>2, <1>4 DEF Tagged
  <2>2. i \in 1..queue[m]
    BY <2>1
  <2> QED
    BY <1>1, <1>2, <1>4, <2>1, <2>2 DEF Tagged
<1>5. ASSUME NEW w, t = RunTag(w) PROVE x \in Left(u, c)
  BY <1>1, <1>2, <1>5 DEF Tagged
<1> QED
  BY <1>2, <1>3, <1>4, <1>5

(* A chance to send is exchanged for another, with the same retries left.  *)
Swapped(u, c, old, new) ==
  /\ UNCHANGED sent
  /\ \A s : <<new, s>> \in Left(u, c)' => <<old, s>> \in Left(u, c)
  /\ \A r \in Generation : MayStart(u, c, r)' => MayStart(u, c, r) /\ StartTag(r) # old
  /\ \A m \in Message : m.job = <<Kind(c), u>> => \A i \in (1..queue[m])' :
       WaitTag(m, i) # new => i \in 1..queue[m] /\ WaitTag(m, i) # old
  /\ \A w \in Worker : Live(w, <<Kind(c), u>>)' /\ RunTag(w) # new =>
       /\ Live(w, <<Kind(c), u>>) /\ RunTag(w) # old
       /\ \A r \in Generation : Ahead(w, r, {<<u, Final(c)>>})' => Ahead(w, r, {<<u, Final(c)>>})

LEMMA Swaps ==
  ASSUME NEW u \in User, NEW c \in Channel, NEW old, NEW new, Swapped(u, c, old, new)
  PROVE  Spent(Left(u, c)', Left(u, c), sent[u][c], sent'[u][c])
<1>1. Tagged(Left(u, c), u, c) /\ Tagged(Left(u, c), u, c)'
  BY LeftIs, LeftStillIs
<1>2. ASSUME NEW t, NEW s, <<t, s>> \in Left(u, c)', t # new
      PROVE  <<t, s>> \in Left(u, c) /\ t # old
  <2>1. \/ \E r : t = StartTag(r)
        \/ \E m, i : t = WaitTag(m, i)
        \/ \E w : t = RunTag(w)
    <3>1. PICK x, y : /\ <<t, s>> = <<x, y>>
                      /\ \/ \E r : x = StartTag(r)
                         \/ \E m, i : x = WaitTag(m, i)
                         \/ \E w : x = RunTag(w)
      BY <1>1, <1>2 DEF Tagged
    <3>2. t = x
      BY <3>1
    <3> QED
      BY <3>1, <3>2
  <2>2. ASSUME NEW r, t = StartTag(r) PROVE <<t, s>> \in Left(u, c) /\ t # old
    BY <1>1, <1>2, <2>2 DEF Tagged, Swapped
  <2>3. ASSUME NEW m, NEW i, t = WaitTag(m, i) PROVE <<t, s>> \in Left(u, c) /\ t # old
    <3>1. m \in Message /\ m.job = <<Kind(c), u>> /\ i \in (1..queue[m])' /\ s \in m.retries..MaxRetries
      BY <1>1, <1>2, <2>3 DEF Tagged
    <3>2. i \in 1..queue[m] /\ t # old
      BY <1>2, <2>3, <3>1 DEF Swapped
    <3> QED
      BY <1>1, <2>3, <3>1, <3>2 DEF Tagged
  <2>4. ASSUME NEW w, t = RunTag(w) PROVE <<t, s>> \in Left(u, c) /\ t # old
    BY <1>1, <1>2, <2>4 DEF Tagged, Swapped
  <2> QED
    BY <2>1, <2>2, <2>3, <2>4
<1> DEFINE S == Left(u, c)'
           T == Left(u, c)
<1>3. \A x \in S : \E t, s : x = <<t, s>>
  BY <1>1 DEF Tagged
<1>4. \A t, s : <<t, s>> \in S => IF t = new THEN <<old, s>> \in T ELSE <<t, s>> \in T /\ t # old
  BY <1>2 DEF Swapped
<1> HIDE DEF S, T
<1>5. ASSUME NEW x \in S
      PROVE  /\ x = <<x[1], x[2]>>
             /\ IF x[1] = new THEN <<old, x[2]>> \in T ELSE x \in T /\ x[1] # old
  <2>1. PICK t, s : x = <<t, s>>
    BY <1>3
  <2>2. x[1] = t /\ x[2] = s
    BY <2>1
  <2>3. <<t, s>> \in S
    BY <2>1
  <2> QED
    BY <1>4, <2>1, <2>2, <2>3
<1>6. Spent(S, T, sent[u][c], sent'[u][c])
  <2>1. sent'[u][c] = sent[u][c]
    BY DEF Swapped
  <2> QED
    BY <1>5, <2>1 DEF Spent
<1> QED
  BY <1>6 DEF S, T

LEMMA PublishIs ==
  ASSUME TypeOK, NEW job \in Job, NEW retries \in 0..MaxRetries, Publish(job, retries)
  PROVE  \E m \in Message :
           /\ m.job = job /\ m.retries = retries
           /\ queue[m] \in Nat /\ queue'[m] = queue[m] + 1
           /\ \A n \in Message : n # m => queue'[n] = queue[n]
<1> DEFINE m == [job |-> job, retries |-> retries]
<1>1. m \in Message /\ m.job = job /\ m.retries = retries
  BY DEF Message
<1>2. queue' = [queue EXCEPT ![m] = @ + 1] /\ queue \in [Message -> Nat]
  BY DEF Publish, TypeOK
<1> HIDE DEF m
<1>3. /\ queue[m] \in Nat /\ queue'[m] = queue[m] + 1
      /\ \A n \in Message : n # m => queue'[n] = queue[n]
  BY <1>1, <1>2
<1> QED
  BY <1>1, <1>3

LEMMA TakesOne ==
  ASSUME TypeOK, NEW w \in Worker, NEW m \in Message, Take(w, m)
  PROVE  /\ queue[m] \in Nat \ {0} /\ queue'[m] = queue[m] - 1
         /\ \A n \in Message : n # m => queue'[n] = queue[n]
  BY DEF Take, TypeOK

(* No run gets to do what it could not do before.                          *)
Calm ==
  \A v \in Worker : \A job : Live(v, job)' =>
    /\ Live(v, job)
    /\ \A r, steps : Ahead(v, r, steps)' => Ahead(v, r, steps)

LEMMA GoesCalm ==
  ASSUME NEW w \in Worker, NEW a, NEW p, NEW n, Goes(w, a, p, n),
         run[w].at = "acknowledge" => a = "acknowledge",
         a = "plan" => run[w].at = "plan" /\ Steps(p) \subseteq Steps(run[w].plan)
  PROVE  Calm
<1> SUFFICES ASSUME NEW v \in Worker, NEW job, Live(v, job)'
             PROVE  /\ Live(v, job)
                    /\ \A r, steps : Ahead(v, r, steps)' => Ahead(v, r, steps)
  BY DEF Calm
<1>1. CASE v = w
  <2>1. /\ run[w] # Idle /\ run'[w].message = run[w].message
        /\ run'[w].at = a /\ run'[w].plan = p
    BY DEF Goes
  <2>2. Live(w, job)
    BY <1>1, <2>1 DEF Live, Busy
  <2>3. ASSUME NEW r, NEW steps, Ahead(w, r, steps)'
        PROVE  Ahead(w, r, steps)
    <3>1. CASE run'[w].message.retries < r
      BY <2>1, <3>1 DEF Ahead
    <3>2. CASE run'[w].message.retries = r /\ At(w, "plan")' /\ Steps(run'[w].plan) \cap steps # {}
      BY <2>1, <3>2 DEF Ahead, At
    <3> QED
      BY <2>3, <3>1, <3>2 DEF Ahead
  <2> QED
    BY <1>1, <2>2, <2>3
<1>2. CASE v # w
  <2>1. run'[v] = run[v]
    BY <1>2 DEF Goes, SameElsewhere
  <2> QED
    BY <2>1 DEF Live, Busy, Ahead, At
<1> QED
  BY <1>1, <1>2

LEMMA IdleCalm ==
  ASSUME \A v \in Worker : run'[v] = Idle \/ run'[v] = run[v]
  PROVE  Calm
<1> SUFFICES ASSUME NEW v \in Worker, NEW job, Live(v, job)'
             PROVE  /\ Live(v, job)
                    /\ \A r, steps : Ahead(v, r, steps)' => Ahead(v, r, steps)
  BY DEF Calm
<1>1. run'[v] = run[v]
  BY DEF Live, Busy
<1> QED
  BY <1>1 DEF Live, Busy, Ahead, At

LEMMA CalmStarts ==
  ASSUME Calm, "queue" \notin done' => "queue" \notin done,
         \A m \in Message : Waiting(m)' => Waiting(m) \/ "queue" \notin done,
         NEW u, NEW c, NEW r \in Generation, MayStart(u, c, r)'
  PROVE  MayStart(u, c, r)
<1>1. CASE "queue" \notin done'
  BY <1>1 DEF MayStart
<1>2. CASE \E m \in Message : m.job = <<"notice">> /\ queue'[m] > 0 /\ m.retries <= r
  BY <1>2 DEF MayStart, Waiting
<1>3. CASE \E w \in Worker : Live(w, <<"notice">>)' /\ Ahead(w, r, {u} \X Starts(c))'
  BY <1>3 DEF Calm, MayStart
<1> QED
  BY <1>1, <1>2, <1>3 DEF MayStart

LEMMA CalmShrinks ==
  ASSUME Calm, "queue" \notin done' => "queue" \notin done,
         \A m \in Message : Waiting(m)' => Waiting(m) \/ "queue" \notin done,
         NEW u, NEW c,
         \A m \in Message : m.job = <<Kind(c), u>> => (1..queue[m])' \subseteq 1..queue[m]
  PROVE  Left(u, c)' \subseteq Left(u, c)
<1>1. \A r \in Generation : MayStart(u, c, r)' => MayStart(u, c, r)
  BY CalmStarts
<1>2. \A w \in Worker : Live(w, <<Kind(c), u>>)' =>
        /\ Live(w, <<Kind(c), u>>)
        /\ \A r \in Generation : Ahead(w, r, {<<u, Final(c)>>})' => Ahead(w, r, {<<u, Final(c)>>})
  BY DEF Calm
<1> QED
  BY <1>1, <1>2, Shrinks

(* Nobody else gets hold of the notice.                                    *)
LEMMA SoleStays ==
  ASSUME Sole, done \subseteq done',
         \A m \in Message : Waiting(m)' => Waiting(m) /\ queue'[m] = queue[m],
         \A w \in Worker : Live(w, <<"notice">>)' => Live(w, <<"notice">>)
  PROVE  Sole'
<1>1. ASSUME NEW m \in Message, Waiting(m)'
      PROVE  /\ "queue" \in done' /\ queue'[m] = 1
             /\ \A n \in Message : Waiting(n)' => n = m
             /\ \A w \in Worker : ~Live(w, <<"notice">>)'
  BY <1>1 DEF Sole
<1>2. ASSUME NEW v \in Worker, Live(v, <<"notice">>)'
      PROVE  /\ "queue" \in done'
             /\ \A w \in Worker : Live(w, <<"notice">>)' => w = v
  BY <1>2 DEF Sole
<1> QED
  BY <1>1, <1>2 DEF Sole

LEMMA CalmSole ==
  ASSUME Sole, Calm, done \subseteq done',
         \A m \in Message : m.job = <<"notice">> => queue'[m] = queue[m]
  PROVE  Sole'
<1>1. \A m \in Message : Waiting(m)' => Waiting(m) /\ queue'[m] = queue[m]
  BY DEF Waiting
<1>2. \A w \in Worker : Live(w, <<"notice">>)' => Live(w, <<"notice">>)
  BY DEF Calm
<1> QED
  BY <1>1, <1>2, SoleStays

-----------------------------------------------------------------------------
(* Steps that only lose chances, or spend one.                             *)
LEMMA QuietBound ==
  ASSUME Bounded, TypeOK, TypeOK', UNCHANGED sent,
         \A u \in User, c \in Channel : Left(u, c)' \subseteq Left(u, c)
  PROVE  Bounded'
<1>1. \A u \in User, c \in Channel : Spent(Left(u, c)', Left(u, c), sent[u][c], sent'[u][c])
  BY DEF Spent
<1> QED
  BY <1>1, BoundStays

LEMMA SendBound ==
  ASSUME Bounded, TypeOK, TypeOK', NEW x \in User, NEW y \in Channel, Leaves(x, y),
         \A u \in User, c \in Channel : Left(u, c)' \subseteq Left(u, c),
         \E e \in Left(x, y) : e \notin Left(x, y)'
  PROVE  Bounded'
<1>1. ASSUME NEW u \in User, NEW c \in Channel
      PROVE  Spent(Left(u, c)', Left(u, c), sent[u][c], sent'[u][c])
  <2>1. CASE u = x /\ c = y
    <3>1. sent'[x][y] = sent[x][y] + 1
      BY DEF Leaves, TypeOK, Counts
    <3>2. PICK e \in Left(x, y) : e \notin Left(x, y)'
      OBVIOUS
    <3>3. Left(x, y)' \subseteq Left(x, y) \ {e}
      BY <3>2
    <3> QED
      BY <2>1, <3>1, <3>2, <3>3 DEF Spent
  <2>2. CASE ~(u = x /\ c = y)
    <3>1. sent'[u][c] = sent[u][c]
      BY <2>2 DEF Leaves, TypeOK, Counts
    <3> QED
      BY <3>1 DEF Spent
  <2> QED
    BY <2>1, <2>2
<1> QED
  BY <1>1, BoundStays

(* The chance that a run of the notice takes when it takes a step.         *)
LEMMA StartSpent ==
  ASSUME LogInv, PlansFit, PlansOnce, Sole, done' = done,
         \A m \in Message : Waiting(m)' => Waiting(m),
         NEW w \in Worker, NEW u \in User, NEW k, Does(w, u, k), Busy(w, <<"notice">>),
         NEW a, NEW p, NEW n, Goes(w, a, p, n), a = "plan" => p = Tail(run[w].plan),
         NEW c, k \in Starts(c), \A l \in Starts(c) : <<u, l>> \in Duties => l = k,
         NEW r, r = run[w].message.retries
  PROVE  r \in Generation /\ MayStart(u, c, r) /\ ~MayStart(u, c, r)'
<1>1. /\ run[w] # Idle /\ run[w].plan \in Plans /\ run[w].plan # <<>> /\ run[w].at = "plan"
      /\ Head(run[w].plan) = <<u, k>>
  BY FitNow
<1>2. r \in Generation
  <2>1. run[w].message \in Message
    BY <1>1, RunFields DEF LogInv
  <2> QED
    BY <2>1 DEF Message, Generation
<1>3. Live(w, <<"notice">>)
  BY <1>1 DEF Live
<1>4. "queue" \in done /\ (\A v \in Worker : Live(v, <<"notice">>) => v = w) /\ \A m \in Message : ~Waiting(m)
  BY <1>3 DEF Sole
<1>5. <<u, k>> \in Steps(run[w].plan)
  BY <1>1, StepsOfTail
<1>6. MayStart(u, c, r)
  <2>1. <<u, k>> \in {u} \X Starts(c)
    OBVIOUS
  <2>2. Ahead(w, r, {u} \X Starts(c))
    BY <1>1, <1>5, <2>1 DEF Ahead, At
  <2> QED
    BY <1>3, <2>2 DEF MayStart
<1>7. Calm
  <2>1. Steps(Tail(run[w].plan)) \subseteq Steps(run[w].plan)
    BY <1>1, StepsOfTail
  <2> QED
    BY <1>1, <2>1, GoesCalm
<1>8. ~Ahead(w, r, {u} \X Starts(c))'
  <2>1. run'[w].message.retries = r /\ r \in Nat /\ run'[w].at = a /\ run'[w].plan = p
    BY <1>2, NoticeAssumption DEF Goes, Generation
  <2>2. ASSUME a = "plan" PROVE Steps(p) \cap ({u} \X Starts(c)) = {}
    <3>1. p = Tail(run[w].plan) /\ <<u, k>> \notin Steps(p)
      BY <1>1, <2>2, OnceTail DEF PlansOnce
    <3>2. Steps(p) \subseteq Duties
      BY <1>1, <3>1, StepsOfTail DEF PlansFit
    <3> QED
      BY <3>1, <3>2
  <2>3. ~(r < r)
    BY <2>1
  <2> QED
    BY <2>1, <2>2, <2>3 DEF Ahead, At
<1>9. ~MayStart(u, c, r)'
  <2>1. "queue" \in done'
    BY <1>4
  <2>2. \A m \in Message : ~(m.job = <<"notice">> /\ queue'[m] > 0)
    BY <1>4 DEF Waiting
  <2>3. ASSUME NEW v \in Worker, Live(v, <<"notice">>)', Ahead(v, r, {u} \X Starts(c))'
        PROVE  FALSE
    <3>1. v = w
      BY <1>4, <1>7, <2>3 DEF Calm
    <3> QED
      BY <1>8, <2>3, <3>1
  <2> QED
    BY <2>1, <2>2, <2>3 DEF MayStart
<1> QED
  BY <1>2, <1>6, <1>9

LEMMA PlanNames ==
  ASSUME NEW n \in Notice
  PROVE  Steps(Plan(n)) \subseteq User \X {"link", "alert", "email", "sms", "push"}
<1>1. "parent" \in User /\ "teacher" \in User /\ "admins" \in User
  BY DEF User
<1>2. n \in {"verify link", "reset link", "booking", "verification", "documents", "payout", "refund"}
  BY NoticeAssumption DEF Link, Decided
<1> DEFINE Named(p) == Steps(p) \subseteq User \X {"link", "alert", "email", "sms", "push"}
<1>3. ASSUME NEW u \in User
      PROVE  Named(AllChannels(u)) /\ Named(<<<<u, "link">>>>) /\ Named(<<<<u, "alert">>>>)
  BY StepsOfAll, OnceSingle
<1>4. Named(AllChannels("parent") \o AllChannels("teacher"))
  <2> DEFINE p == AllChannels("parent")
             q == AllChannels("teacher")
  <2>1. p \in Plans /\ q \in Plans /\ Named(p) /\ Named(q)
    BY <1>1, <1>3, AllChannelsPlan
  <2> HIDE DEF p, q
  <2>2. Named(p \o q)
    BY <2>1, StepsOfBoth
  <2> HIDE DEF Named
  <2> QED
    BY <2>2 DEF p, q
<1> HIDE DEF Named
<1>5. Named(Plan(n))
  <2>1. Plan(n) \in {<<<<"parent", "link">>>>, <<<<"admins", "alert">>>>, AllChannels("parent"),
                     AllChannels("teacher"), AllChannels("parent") \o AllChannels("teacher")}
    BY <1>2
    DEF Plan, send_email_verification_message, send_password_reset_message, send_booking_confirmation,
        notify_teacher_verification_result, notify_admin_verification_submitted,
        send_payout_notification, send_refund_notification
  <2>2. /\ Named(<<<<"parent", "link">>>>) /\ Named(<<<<"admins", "alert">>>>)
        /\ Named(AllChannels("parent")) /\ Named(AllChannels("teacher"))
    BY <1>1, <1>3
  <2> QED
    BY <1>4, <2>1, <2>2, Zenon
<1> QED
  BY <1>5 DEF Named

(* A mail is sent by a run of the notice, a text or push by a run of its   *)
(* own.                                                                    *)
LEMMA WhoSends ==
  ASSUME LogInv, PlansFit, NEW w \in Worker, NEW u \in User, NEW k, Does(w, u, k)
  PROVE  /\ k \in Mail \cup {"sms", "push"} => Busy(w, <<"notice">>)
         /\ k = "text" => Busy(w, <<"sms", u>>)
         /\ k \in Device => Busy(w, <<"push", u>>)
<1>1. /\ Busy(w, <<"notice">>) => <<u, k>> \in Duties
      /\ \A x \in User : /\ Busy(w, <<"sms", x>>)  => u = x /\ k = "text"
                         /\ Busy(w, <<"push", x>>) => u = x /\ k \in {"none"} \cup Device
  BY FitNow
<1>2. Busy(w, <<"notice">>) \/ \E x \in User, j \in {"sms", "push"} : Busy(w, <<j, x>>)
  BY FitNow, Jobs DEF LogInv
<1>3. Duties \subseteq User \X {"link", "alert", "email", "sms", "push"}
  BY PlanNames DEF Duties, LogInv, TypeOK
<1>4. Device \cap {"link", "alert", "email", "sms", "push", "text", "none"} = {}
  BY NoticeAssumption
<1>5. Busy(w, <<"notice">>) => k \in {"link", "alert", "email", "sms", "push"}
  BY <1>1, <1>3
<1>6. \/ Busy(w, <<"notice">>) /\ k \in {"link", "alert", "email", "sms", "push"}
      \/ Busy(w, <<"sms", u>>) /\ k = "text"
      \/ Busy(w, <<"push", u>>) /\ k \in {"none"} \cup Device
  BY <1>1, <1>2, <1>5
<1> QED
  BY <1>4, <1>6 DEF Mail

LEMMA MailSpent ==
  ASSUME LogInv, PlansFit, PlansOnce, Sole, UNCHANGED <<queue, done>>,
         NEW w \in Worker, NEW u \in User, NEW k \in Mail, Does(w, u, k),
         NEW a, NEW p, NEW n, Goes(w, a, p, n), a = "plan" => p = Tail(run[w].plan)
  PROVE  \E e \in Left(u, "email") : e \notin Left(u, "email")'
<1> PICK r : r = run[w].message.retries
  OBVIOUS
<1>1. Busy(w, <<"notice">>)
  BY WhoSends
<1>2. k \in Starts("email") /\ Starts("email") = Mail
  BY DEF Starts
<1>3. ASSUME NEW l \in Mail, <<u, l>> \in Duties PROVE l = k
  <2>1. <<u, k>> \in Duties
    BY <1>1, FitNow
  <2> QED
    BY <1>3, <2>1, OnceNotice DEF Duties, LogInv, TypeOK
<1>4. \A m \in Message : Waiting(m)' => Waiting(m)
  BY DEF Waiting
<1>5. r \in Generation /\ MayStart(u, "email", r) /\ ~MayStart(u, "email", r)'
  <2>1. done' = done
    OBVIOUS
  <2> QED
    BY <1>1, <1>2, <1>3, <1>4, <2>1, StartSpent
<1>6. Tagged(Left(u, "email"), u, "email") /\ Tagged(Left(u, "email"), u, "email")'
  BY LeftIs, LeftStillIs
<1>7. 0 \in Span("email")
  BY DEF Span
<1>8. <<StartTag(r), 0>> \in Left(u, "email")
  BY <1>5, <1>6, <1>7 DEF Tagged
<1>9. <<StartTag(r), 0>> \notin Left(u, "email")'
  BY <1>5, <1>6 DEF Tagged
<1> QED
  BY <1>8, <1>9

LEMMA JobSpent ==
  ASSUME LogInv, PlansFit, PlansOnce, UNCHANGED <<queue, done>>,
         NEW w \in Worker, NEW u \in User, NEW c \in {"sms"} \cup Device, Does(w, u, Final(c)),
         NEW a, NEW p, NEW n, Goes(w, a, p, n), a = "plan" => p = Tail(run[w].plan)
  PROVE  \E e \in Left(u, c) : e \notin Left(u, c)'
<1> PICK r : r = run[w].message.retries
  OBVIOUS
<1> PICK step : step = <<u, Final(c)>>
  OBVIOUS
<1>1. /\ run[w] # Idle /\ run[w].plan \in Plans /\ run[w].plan # <<>> /\ run[w].at = "plan"
      /\ Head(run[w].plan) = step
  BY FitNow
<1>2. Busy(w, <<Kind(c), u>>)
  <2>1. CASE c = "sms"
    BY <2>1, WhoSends DEF Kind, Final
  <2>2. CASE c # "sms"
    <3>1. c \in Device /\ c # "email"
      BY <2>2, NoticeAssumption
    <3>2. Final(c) = c /\ Kind(c) = "push"
      BY <2>2, <3>1 DEF Final, Kind
    <3> QED
      BY <3>1, <3>2, WhoSends
  <2> QED
    BY <2>1, <2>2
<1>3. r \in Generation
  <2>1. run[w].message \in Message
    BY <1>1, RunFields DEF LogInv
  <2> QED
    BY <2>1 DEF Message, Generation
<1>4. step \in Steps(run[w].plan)
  BY <1>1, StepsOfTail
<1>5. Live(w, <<Kind(c), u>>) /\ Ahead(w, r, {step})
  BY <1>1, <1>2, <1>4 DEF Live, Ahead, At
<1>6. ~Ahead(w, r, {step})'
  <2>1. run'[w].message.retries = r /\ r \in Nat /\ run'[w].at = a /\ run'[w].plan = p
    BY <1>3, NoticeAssumption DEF Goes, Generation
  <2>2. ASSUME a = "plan" PROVE step \notin Steps(p)
    BY <1>1, <2>2, OnceTail DEF PlansOnce
  <2>3. ~(r < r)
    BY <2>1
  <2>4. At(w, "plan")' => a = "plan"
    BY <2>1 DEF At
  <2>5. run'[w].message.retries = r
    BY <2>1
  <2> QED
    BY <2>1, <2>2, <2>3, <2>4, <2>5 DEF Ahead
<1>7. Tagged(Left(u, c), u, c) /\ Tagged(Left(u, c), u, c)'
  BY LeftIs, LeftStillIs
<1>8. <<RunTag(w), r>> \in Left(u, c)
  BY <1>3, <1>5, <1>7 DEF Tagged
<1>9. <<RunTag(w), r>> \notin Left(u, c)'
  BY <1>6, <1>7 DEF Tagged
<1> QED
  BY <1>8, <1>9

-----------------------------------------------------------------------------
(* Each kind of step, while nothing has crashed.                           *)
Together == TypeOK' /\ LogInv /\ PlansFit /\ PlansOnce /\ HandlerOnce /\ Sole /\ Bounded

LEMMA GoesBound ==
  ASSUME Together, UNCHANGED <<queue, done>>, NEW w \in Worker, NEW a, NEW p, NEW n, Goes(w, a, p, n),
         run[w].at = "acknowledge" => a = "acknowledge",
         a = "plan" => run[w].at = "plan" /\ Steps(p) \subseteq Steps(run[w].plan),
         \/ UNCHANGED sent
         \/ \E u \in User, c \in Channel : Leaves(u, c) /\ \E e \in Left(u, c) : e \notin Left(u, c)'
  PROVE  Sole' /\ Bounded'
<1>1. Calm
  BY GoesCalm
<1>2. Sole'
  BY <1>1, CalmSole DEF Together
<1>3. \A m \in Message : Waiting(m)' => Waiting(m)
  BY DEF Waiting
<1>4. \A u \in User, c \in Channel : Left(u, c)' \subseteq Left(u, c)
  BY <1>1, <1>3, CalmShrinks
<1>5. ASSUME UNCHANGED sent PROVE Bounded'
  BY <1>4, <1>5, QuietBound DEF Together, LogInv
<1>6. ASSUME NEW u \in User, NEW c \in Channel, Leaves(u, c), \E e \in Left(u, c) : e \notin Left(u, c)'
      PROVE  Bounded'
  BY <1>4, <1>6, SendBound DEF Together, LogInv
<1> QED
  BY <1>2, <1>5, <1>6

LEMMA IdleBound ==
  ASSUME Together, UNCHANGED sent, done \subseteq done', "queue" \notin done' => "queue" \notin done,
         UNCHANGED queue, \A v \in Worker : run'[v] = Idle \/ run'[v] = run[v]
  PROVE  Sole' /\ Bounded'
<1>1. Calm
  BY IdleCalm
<1>2. Sole'
  BY <1>1, CalmSole DEF Together
<1>3. \A m \in Message : Waiting(m)' => Waiting(m)
  BY DEF Waiting
<1>4. \A u \in User, c \in Channel : Left(u, c)' \subseteq Left(u, c)
  BY <1>1, <1>3, CalmShrinks
<1> QED
  BY <1>2, <1>4, QuietBound DEF Together, LogInv

LEMMA HandlerBound ==
  ASSUME Together, HandlerQueues
  PROVE  Sole' /\ Bounded'
<1>1. "queue" \notin done /\ done' = done \cup {"queue"} /\ UNCHANGED <<run, sent>>
  BY DEF HandlerQueues, HandlerStep, Together, HandlerOnce
<1>2. PICK m \in Message :
        /\ m.job = <<"notice">> /\ m.retries = 0
        /\ queue[m] \in Nat /\ queue'[m] = queue[m] + 1
        /\ \A n \in Message : n # m => queue'[n] = queue[n]
  <2>1. <<"notice">> \in Job /\ 0 \in 0..MaxRetries
    BY NoticeAssumption DEF Job
  <2> QED
    BY <2>1, PublishIs DEF HandlerQueues, Together, LogInv
<1>3. Calm
  BY <1>1, IdleCalm
<1>4. /\ \A n \in Message : ~Waiting(n)
      /\ \A v \in Worker : ~Live(v, <<"notice">>)
  BY <1>1 DEF Together, Sole
<1>5. Sole'
  <2>1. queue[m] = 0
    BY <1>2, <1>4 DEF Waiting
  <2>2. \A n \in Message : Waiting(n)' => n = m
    BY <1>2, <1>4 DEF Waiting
  <2>3. \A v \in Worker : ~Live(v, <<"notice">>)'
    BY <1>3, <1>4 DEF Calm
  <2>4. queue'[m] = 1 /\ "queue" \in done'
    BY <1>1, <1>2, <2>1
  <2>5. ASSUME NEW x \in Message, Waiting(x)'
        PROVE  /\ "queue" \in done' /\ queue'[x] = 1
               /\ \A n \in Message : Waiting(n)' => n = x
               /\ \A v \in Worker : ~Live(v, <<"notice">>)'
    BY <2>2, <2>3, <2>4, <2>5
  <2> QED
    BY <2>3, <2>5 DEF Sole
<1>6. ASSUME NEW u \in User, NEW c \in Channel
      PROVE  Left(u, c)' \subseteq Left(u, c)
  <2>1. ASSUME NEW n \in Message, n.job = <<Kind(c), u>>
        PROVE  (1..queue[n])' \subseteq 1..queue[n]
    <3>1. n # m
      BY <1>2, <2>1, JobsDiffer
    <3> QED
      BY <1>2, <3>1
  <2> QED
    BY <1>1, <1>3, <2>1, CalmShrinks
<1> QED
  BY <1>1, <1>5, <1>6, QuietBound DEF Together, LogInv

(* Taking a message.                                                       *)
LEMMA TakeNoticeBound ==
  ASSUME Together, UNCHANGED <<sent, done>>, NEW w \in Worker, NEW m \in Message, Take(w, m),
         m.job = <<"notice">>
  PROVE  Sole' /\ Bounded'
<1>1. LogInv /\ TypeOK /\ TypeOK' /\ Bounded /\ Sole
  BY DEF Together, LogInv
<1>2. /\ queue[m] \in Nat \ {0} /\ queue'[m] = queue[m] - 1
      /\ \A n \in Message : n # m => queue'[n] = queue[n]
  BY <1>1, TakesOne
<1>3. /\ run[w] = Idle /\ run'[w] # Idle /\ SameElsewhere(w)
      /\ run'[w].message = m /\ run'[w].at = "plan"
  BY <1>1, TakeIs
<1>4. Waiting(m)
  BY <1>2 DEF Waiting
<1>5. /\ "queue" \in done /\ queue[m] = 1
      /\ \A n \in Message : Waiting(n) => n = m
      /\ \A v \in Worker : ~Live(v, <<"notice">>)
  BY <1>1, <1>4 DEF Sole
<1>6. \A n \in Message : ~Waiting(n)'
  BY <1>2, <1>5 DEF Waiting
<1>7. ASSUME NEW v \in Worker, NEW job, v # w, Live(v, job)'
      PROVE  Live(v, job) /\ run'[v] = run[v]
  BY <1>3, <1>7 DEF SameElsewhere, Live, Busy
<1>8. \A v \in Worker : Live(v, <<"notice">>)' => v = w
  BY <1>5, <1>7
<1>9. Sole'
  BY <1>5, <1>6, <1>8 DEF Sole
<1>10. ASSUME NEW u \in User, NEW c \in Channel
       PROVE  Left(u, c)' \subseteq Left(u, c)
  <2>1. ASSUME NEW r \in Generation, MayStart(u, c, r)'
        PROVE  MayStart(u, c, r)
    <3>1. PICK v \in Worker : Live(v, <<"notice">>)' /\ Ahead(v, r, {u} \X Starts(c))'
      BY <1>5, <1>6, <2>1 DEF MayStart, Waiting
    <3>2. m.retries <= r
      <4>1. m.retries < r \/ m.retries = r
        BY <1>3, <1>8, <3>1 DEF Ahead
      <4>2. m.retries \in Nat /\ r \in Nat
        BY NoticeAssumption DEF Message, Generation
      <4> QED
        BY <4>1, <4>2
    <3> QED
      BY <1>4, <3>2 DEF MayStart, Waiting
  <2>2. \A n \in Message : (1..queue[n])' \subseteq 1..queue[n]
    <3> TAKE n \in Message
    <3>1. CASE n = m
      BY <1>2, <3>1
    <3>2. CASE n # m
      BY <1>2, <3>2
    <3> QED
      BY <3>1, <3>2
  <2>3. Kind(c) # "notice" /\ <<"notice">> # <<Kind(c), u>>
    BY JobsDiffer DEF Kind
  <2>4. ASSUME NEW v \in Worker, Live(v, <<Kind(c), u>>)'
        PROVE  Live(v, <<Kind(c), u>>) /\ run'[v] = run[v]
    <3>1. v # w
      BY <1>3, <2>3, <2>4 DEF Live, Busy
    <3> QED
      BY <1>7, <2>4, <3>1
  <2>5. \A v \in Worker : Live(v, <<Kind(c), u>>)' =>
          /\ Live(v, <<Kind(c), u>>)
          /\ \A r \in Generation : Ahead(v, r, {<<u, Final(c)>>})' => Ahead(v, r, {<<u, Final(c)>>})
    BY <2>4 DEF Ahead, At
  <2> QED
    BY <2>1, <2>2, <2>5, Shrinks
<1> QED
  BY <1>1, <1>9, <1>10, QuietBound

LEMMA TakeJobBound ==
  ASSUME Together, UNCHANGED <<sent, done>>, NEW w \in Worker, NEW m \in Message, Take(w, m),
         m.job # <<"notice">>
  PROVE  Sole' /\ Bounded'
<1>1. LogInv /\ TypeOK /\ TypeOK' /\ Bounded /\ Sole
  BY DEF Together, LogInv
<1> PICK q : q = queue[m]
  OBVIOUS
<1>2. /\ q \in Nat \ {0} /\ queue'[m] = q - 1
      /\ \A n \in Message : n # m => queue'[n] = queue[n]
  BY <1>1, TakesOne
<1>3. /\ run[w] = Idle /\ run'[w] # Idle /\ SameElsewhere(w)
      /\ run'[w].message = m /\ run'[w].at = "plan"
  BY <1>1, TakeIs
<1>4. \A n \in Message : Waiting(n)' => Waiting(n) /\ queue'[n] = queue[n]
  BY <1>2 DEF Waiting
<1>5. ASSUME NEW v \in Worker, NEW job, v # w, Live(v, job)'
      PROVE  Live(v, job) /\ run'[v] = run[v]
  BY <1>3, <1>5 DEF SameElsewhere, Live, Busy
<1>6. ASSUME NEW v \in Worker, Live(v, <<"notice">>)'
      PROVE  Live(v, <<"notice">>) /\ run'[v] = run[v]
  <2>1. v # w
    BY <1>3, <1>6 DEF Live, Busy
  <2> QED
    BY <1>5, <1>6, <2>1
<1>7. Sole'
  BY <1>1, <1>4, <1>6, SoleStays
<1>8. ASSUME NEW u \in User, NEW c \in Channel
      PROVE  Spent(Left(u, c)', Left(u, c), sent[u][c], sent'[u][c])
  <2> DEFINE old == WaitTag(m, q)
             new == RunTag(w)
  <2>1. Tagged(Left(u, c), u, c) /\ Tagged(Left(u, c), u, c)'
    BY LeftIs, LeftStillIs
  <2>2. ASSUME NEW s, <<new, s>> \in Left(u, c)'
        PROVE  <<old, s>> \in Left(u, c)
    <3>1. Live(w, <<Kind(c), u>>)' /\ s \in Generation /\ Ahead(w, s, {<<u, Final(c)>>})'
      BY <2>1, <2>2 DEF Tagged
    <3>2. m.job = <<Kind(c), u>>
      BY <1>3, <3>1 DEF Live, Busy
    <3>3. m.retries < s \/ m.retries = s
      BY <1>3, <3>1 DEF Ahead
    <3>4. s \in m.retries..MaxRetries
      BY <3>1, <3>3, NoticeAssumption DEF Generation, Message
    <3>5. q \in 1..queue[m]
      BY <1>2
    <3> QED
      BY <2>1, <3>2, <3>4, <3>5 DEF Tagged
  <2>3. ASSUME NEW r \in Generation, MayStart(u, c, r)'
        PROVE  MayStart(u, c, r) /\ StartTag(r) # old
    <3>1. CASE "queue" \notin done'
      BY <3>1, TagsDiffer DEF MayStart
    <3>2. CASE \E n \in Message : n.job = <<"notice">> /\ queue'[n] > 0 /\ n.retries <= r
      BY <1>4, <3>2, TagsDiffer DEF MayStart, Waiting
    <3>3. ASSUME NEW v \in Worker, Live(v, <<"notice">>)', Ahead(v, r, {u} \X Starts(c))'
          PROVE  MayStart(u, c, r)
      <4>1. Live(v, <<"notice">>) /\ run'[v] = run[v]
        BY <1>6, <3>3
      <4>2. Ahead(v, r, {u} \X Starts(c))
        BY <3>3, <4>1 DEF Ahead, At
      <4> QED
        BY <4>1, <4>2 DEF MayStart
    <3>4. \/ "queue" \notin done'
          \/ \E n \in Message : n.job = <<"notice">> /\ queue'[n] > 0 /\ n.retries <= r
          \/ \E v \in Worker : Live(v, <<"notice">>)' /\ Ahead(v, r, {u} \X Starts(c))'
      BY <2>3 DEF MayStart
    <3>5. StartTag(r) # old
      BY TagsDiffer
    <3> QED
      BY <3>1, <3>2, <3>3, <3>4, <3>5
  <2>4. ASSUME NEW n \in Message, NEW i \in (1..queue[n])'
        PROVE  i \in 1..queue[n] /\ WaitTag(n, i) # old
    <3>1. CASE n = m
      <4>1. i \in 1..(q - 1)
        BY <1>2, <3>1
      <4>2. i # q /\ i \in 1..queue[m]
        BY <1>2, <4>1
      <4> QED
        BY <3>1, <4>2, TagsDiffer
    <3>2. CASE n # m
      BY <1>2, <3>2, TagsDiffer
    <3> QED
      BY <3>1, <3>2
  <2>5. ASSUME NEW v \in Worker, Live(v, <<Kind(c), u>>)', RunTag(v) # new
        PROVE  /\ Live(v, <<Kind(c), u>>) /\ RunTag(v) # old
               /\ \A r \in Generation : Ahead(v, r, {<<u, Final(c)>>})' => Ahead(v, r, {<<u, Final(c)>>})
    <3>1. v # w
      BY <2>5
    <3>2. Live(v, <<Kind(c), u>>) /\ run'[v] = run[v]
      BY <1>5, <2>5, <3>1
    <3> QED
      BY <3>2, TagsDiffer DEF Ahead, At
  <2> HIDE DEF old, new
  <2>6. Swapped(u, c, old, new)
    BY <2>2, <2>3, <2>4, <2>5 DEF Swapped
  <2> QED
    BY <2>6, Swaps
<1> QED
  BY <1>1, <1>7, <1>8, BoundStays

(* Queueing a text or a push: a turn becomes a message.                    *)
LEMMA QueueBound ==
  ASSUME Together, UNCHANGED <<sent, done>>, NEW w \in Worker, NEW x \in User, NEW k \in {"sms", "push"},
         Does(w, x, k), Publish(<<k, x>>, 0), NEW n, Goes(w, "plan", Tail(run[w].plan), n)
  PROVE  Sole' /\ Bounded'
<1>1. LogInv /\ TypeOK /\ TypeOK' /\ Bounded /\ Sole /\ PlansFit /\ PlansOnce
  BY DEF Together, LogInv
<1>2. 0 \in 0..MaxRetries /\ <<k, x>> \in Job
  BY NoticeAssumption DEF Job
<1>3. PICK m \in Message :
        /\ m.job = <<k, x>> /\ m.retries = 0
        /\ queue[m] \in Nat /\ queue'[m] = queue[m] + 1
        /\ \A l \in Message : l # m => queue'[l] = queue[l]
  BY <1>1, <1>2, PublishIs
<1> PICK q : q = queue'[m]
  OBVIOUS
<1>4. Calm
  <2>1. /\ run[w].plan \in Plans /\ run[w].plan # <<>> /\ run[w].at = "plan"
    BY <1>1, FitNow
  <2>2. Steps(Tail(run[w].plan)) \subseteq Steps(run[w].plan)
    BY <2>1, StepsOfTail
  <2> QED
    BY <2>1, <2>2, GoesCalm
<1>5. \A l \in Message : l.job = <<"notice">> => queue'[l] = queue[l]
  <2>1. <<k, x>> # <<"notice">>
    BY JobsDiffer
  <2> QED
    BY <1>3, <2>1
<1>6. Sole'
  BY <1>1, <1>4, <1>5, CalmSole
<1>7. \A l \in Message : Waiting(l)' => Waiting(l)
  BY <1>5 DEF Waiting
<1>8. ASSUME NEW u \in User, NEW c \in Channel
      PROVE  Spent(Left(u, c)', Left(u, c), sent[u][c], sent'[u][c])
  <2>1. CASE <<Kind(c), u>> = <<k, x>>
    <3> PICK r : r = run[w].message.retries
      OBVIOUS
    <3>1. u = x /\ Kind(c) = k /\ c # "email"
      BY <2>1 DEF Kind
    <3>2. Starts(c) = {k}
      BY <3>1 DEF Kind, Starts
    <3>3. r \in Generation /\ MayStart(u, c, r) /\ ~MayStart(u, c, r)'
      <4>1. Busy(w, <<"notice">>)
        BY <1>1, WhoSends
      <4> QED
        BY <1>1, <1>7, <3>1, <3>2, <4>1, StartSpent
    <3> DEFINE old == StartTag(r)
               new == WaitTag(m, q)
    <3>4. Tagged(Left(u, c), u, c) /\ Tagged(Left(u, c), u, c)'
      BY LeftIs, LeftStillIs
    <3>5. ASSUME NEW s, <<new, s>> \in Left(u, c)'
          PROVE  <<old, s>> \in Left(u, c)
      <4>1. s \in Generation
        BY <1>3, <3>4, <3>5 DEF Tagged, Generation
      <4>2. s \in Span(c)
        BY <3>1, <4>1 DEF Span
      <4> QED
        BY <3>3, <3>4, <4>2 DEF Tagged
    <3>6. ASSUME NEW g \in Generation, MayStart(u, c, g)'
          PROVE  MayStart(u, c, g) /\ StartTag(g) # old
      BY <1>4, <1>7, <3>3, <3>6, CalmStarts, TagsDiffer
    <3>7. ASSUME NEW l \in Message, NEW i \in (1..queue[l])', WaitTag(l, i) # new
          PROVE  i \in 1..queue[l] /\ WaitTag(l, i) # old
      <4>1. CASE l = m
        <5>1. i \in 1..q /\ i # q
          BY <3>7, <4>1
        <5>2. i \in 1..queue[m]
          BY <1>3, <5>1
        <5> QED
          BY <4>1, <5>2, TagsDiffer
      <4>2. CASE l # m
        BY <1>3, <4>2, TagsDiffer
      <4> QED
        BY <4>1, <4>2
    <3>8. ASSUME NEW v \in Worker, Live(v, <<Kind(c), u>>)'
          PROVE  /\ Live(v, <<Kind(c), u>>) /\ RunTag(v) # old
                 /\ \A g \in Generation : Ahead(v, g, {<<u, Final(c)>>})' => Ahead(v, g, {<<u, Final(c)>>})
      BY <1>4, <3>8, TagsDiffer DEF Calm
    <3> HIDE DEF old, new
    <3>9. Swapped(u, c, old, new)
      BY <3>5, <3>6, <3>7, <3>8 DEF Swapped
    <3> QED
      BY <3>9, Swaps
  <2>2. CASE <<Kind(c), u>> # <<k, x>>
    <3>1. \A l \in Message : l.job = <<Kind(c), u>> => (1..queue[l])' \subseteq 1..queue[l]
      BY <1>3, <2>2
    <3>2. Left(u, c)' \subseteq Left(u, c)
      BY <1>4, <1>7, <3>1, CalmShrinks
    <3> QED
      BY <3>2 DEF Spent
  <2> QED
    BY <2>1, <2>2
<1> QED
  BY <1>1, <1>6, <1>8, BoundStays

(* Retrying: a run becomes the message of the next.                        *)
LEMMA RetryNoticeBound ==
  ASSUME Together, UNCHANGED <<sent, done>>, NEW w \in Worker, NEW n, Goes(w, "acknowledge", <<>>, n),
         NEW m0 \in Message, m0 = run[w].message, m0.job = <<"notice">>, run[w].at = "retry",
         NEW m \in Message, m.job = m0.job, m.retries = m0.retries + 1,
         queue[m] \in Nat, queue'[m] = queue[m] + 1, \A l \in Message : l # m => queue'[l] = queue[l]
  PROVE  Sole' /\ Bounded'
<1>1. LogInv /\ TypeOK /\ TypeOK' /\ Bounded /\ Sole
  BY DEF Together, LogInv
<1>2. Live(w, <<"notice">>)
  BY DEF Live, Busy, Goes
<1>3. /\ "queue" \in done
      /\ \A v \in Worker : Live(v, <<"notice">>) => v = w
      /\ \A l \in Message : ~Waiting(l)
  BY <1>1, <1>2 DEF Sole
<1>4. Calm
  BY GoesCalm
<1>5. \A v \in Worker : ~Live(v, <<"notice">>)'
  <2>1. ~Live(w, <<"notice">>)'
    BY DEF Goes, Live
  <2> QED
    BY <1>3, <1>4, <2>1 DEF Calm
<1>6. /\ \A l \in Message : Waiting(l)' => l = m
      /\ queue'[m] = 1
  BY <1>3 DEF Waiting
<1>7. Sole'
  BY <1>3, <1>5, <1>6 DEF Sole
<1>8. ASSUME NEW u \in User, NEW c \in Channel
      PROVE  Left(u, c)' \subseteq Left(u, c)
  <2>1. ASSUME NEW r \in Generation, MayStart(u, c, r)'
        PROVE  MayStart(u, c, r)
    <3>1. PICK l \in Message : Waiting(l)' /\ l.retries <= r
      BY <1>3, <1>5, <2>1 DEF MayStart, Waiting
    <3>2. m0.retries + 1 <= r
      BY <1>6, <3>1
    <3>3. m0.retries < r
      BY <3>2, NoticeAssumption DEF Message, Generation
    <3>4. Ahead(w, r, {u} \X Starts(c))
      BY <3>3 DEF Ahead
    <3> QED
      BY <1>2, <3>4 DEF MayStart
  <2>2. \A l \in Message : l.job = <<Kind(c), u>> => (1..queue[l])' \subseteq 1..queue[l]
    <3>1. <<"notice">> # <<Kind(c), u>>
      BY JobsDiffer DEF Kind
    <3> QED
      BY <3>1
  <2>3. \A v \in Worker : Live(v, <<Kind(c), u>>)' =>
          /\ Live(v, <<Kind(c), u>>)
          /\ \A r \in Generation : Ahead(v, r, {<<u, Final(c)>>})' => Ahead(v, r, {<<u, Final(c)>>})
    BY <1>4 DEF Calm
  <2> QED
    BY <2>1, <2>2, <2>3, Shrinks
<1> QED
  BY <1>1, <1>7, <1>8, QuietBound

LEMMA RetryJobBound ==
  ASSUME Together, UNCHANGED <<sent, done>>, NEW w \in Worker, NEW n, Goes(w, "acknowledge", <<>>, n),
         NEW m0 \in Message, m0 = run[w].message, m0.job # <<"notice">>, run[w].at = "retry",
         NEW m \in Message, m.job = m0.job, m.retries = m0.retries + 1,
         queue[m] \in Nat, queue'[m] = queue[m] + 1, \A l \in Message : l # m => queue'[l] = queue[l]
  PROVE  Sole' /\ Bounded'
<1>1. LogInv /\ TypeOK /\ TypeOK' /\ Bounded /\ Sole
  BY DEF Together, LogInv
<1> PICK q : q = queue'[m]
  OBVIOUS
<1>2. run[w] # Idle /\ \A job : ~Live(w, job)'
  BY DEF Goes, Live
<1>3. Calm
  BY GoesCalm
<1>4. \A l \in Message : l.job = <<"notice">> => queue'[l] = queue[l]
  OBVIOUS
<1>5. Sole'
  BY <1>1, <1>3, <1>4, CalmSole
<1>6. \A l \in Message : Waiting(l)' => Waiting(l)
  BY <1>4 DEF Waiting
<1>7. ASSUME NEW u \in User, NEW c \in Channel
      PROVE  Spent(Left(u, c)', Left(u, c), sent[u][c], sent'[u][c])
  <2> DEFINE old == RunTag(w)
             new == WaitTag(m, q)
  <2>1. Tagged(Left(u, c), u, c) /\ Tagged(Left(u, c), u, c)'
    BY LeftIs, LeftStillIs
  <2>2. ASSUME NEW s, <<new, s>> \in Left(u, c)'
        PROVE  <<old, s>> \in Left(u, c)
    <3>1. m0.job = <<Kind(c), u>> /\ s \in (m0.retries + 1)..MaxRetries
      BY <2>1, <2>2 DEF Tagged
    <3>2. s \in Generation /\ m0.retries < s
      BY <3>1, NoticeAssumption DEF Message, Generation
    <3>3. Live(w, <<Kind(c), u>>) /\ Ahead(w, s, {<<u, Final(c)>>})
      BY <1>2, <3>1, <3>2 DEF Live, Busy, Ahead
    <3> QED
      BY <2>1, <3>2, <3>3 DEF Tagged
  <2>3. ASSUME NEW g \in Generation, MayStart(u, c, g)'
        PROVE  MayStart(u, c, g) /\ StartTag(g) # old
    BY <1>3, <1>6, <2>3, CalmStarts, TagsDiffer
  <2>4. ASSUME NEW l \in Message, NEW i \in (1..queue[l])', WaitTag(l, i) # new
        PROVE  i \in 1..queue[l] /\ WaitTag(l, i) # old
    <3>1. CASE l = m
      <4>1. i \in 1..q /\ i # q
        BY <2>4, <3>1
      <4>2. i \in 1..queue[m]
        BY <4>1
      <4> QED
        BY <3>1, <4>2, TagsDiffer
    <3>2. CASE l # m
      BY <3>2, TagsDiffer
    <3> QED
      BY <3>1, <3>2
  <2>5. ASSUME NEW v \in Worker, Live(v, <<Kind(c), u>>)'
        PROVE  /\ Live(v, <<Kind(c), u>>) /\ RunTag(v) # old
               /\ \A g \in Generation : Ahead(v, g, {<<u, Final(c)>>})' => Ahead(v, g, {<<u, Final(c)>>})
    BY <1>2, <1>3, <2>5, TagsDiffer DEF Calm
  <2> HIDE DEF old, new
  <2>6. Swapped(u, c, old, new)
    BY <2>2, <2>3, <2>4, <2>5 DEF Swapped
  <2> QED
    BY <2>6, Swaps
<1> QED
  BY <1>1, <1>5, <1>7, BoundStays

LEMMA RetryBound ==
  ASSUME Together, NEW w \in Worker, Retry(w)
  PROVE  Sole' /\ Bounded'
<1>1. TypeOK
  BY DEF Together, LogInv
<1>2. Goes(w, "acknowledge", <<>>, run[w].new) /\ run[w].at = "retry" /\ run[w].message \in Message
  BY <1>1, RetryGoes, RunFields DEF Retry, At, Goes
<1>3. UNCHANGED <<done, sent>>
  BY DEF Retry, origin
<1> PICK m0 \in Message : m0 = run[w].message
  BY <1>2
<1>4. CASE m0.retries < MaxRetries
  <2>1. Publish(m0.job, m0.retries + 1)
    BY <1>4 DEF Retry
  <2>2. m0.job \in Job /\ m0.retries + 1 \in 0..MaxRetries
    BY <1>4, NoticeAssumption DEF Message
  <2>3. PICK m \in Message :
          /\ m.job = m0.job /\ m.retries = m0.retries + 1
          /\ queue[m] \in Nat /\ queue'[m] = queue[m] + 1
          /\ \A l \in Message : l # m => queue'[l] = queue[l]
    BY <1>1, <2>1, <2>2, PublishIs
  <2>4. CASE m0.job = <<"notice">>
    BY <1>2, <1>3, <2>3, <2>4, RetryNoticeBound
  <2>5. CASE m0.job # <<"notice">>
    BY <1>2, <1>3, <2>3, <2>5, RetryJobBound
  <2> QED
    BY <2>4, <2>5
<1>5. CASE ~(m0.retries < MaxRetries)
  <2>1. UNCHANGED <<queue, done>> /\ UNCHANGED sent
    BY <1>3, <1>5 DEF Retry
  <2>2. "acknowledge" # "plan"
    OBVIOUS
  <2> QED
    BY <1>2, <2>1, <2>2, GoesBound, Zenon
<1> QED
  BY <1>4, <1>5

(* A step of a run that may send something.                                *)
LEMMA SendsBound ==
  ASSUME Together, UNCHANGED <<queue, done>>, NEW w \in Worker, NEW u \in User, NEW k, Does(w, u, k),
         NEW c \in Channel, (c = "email" /\ k \in Mail) \/ (c \in {"sms"} \cup Device /\ k = Final(c)),
         NEW a, NEW p, NEW n, Goes(w, a, p, n), a = "plan" => p = Tail(run[w].plan),
         UNCHANGED sent \/ Leaves(u, c)
  PROVE  Sole' /\ Bounded'
<1>1. LogInv /\ PlansFit /\ PlansOnce /\ Sole
  BY DEF Together
<1>2. run[w].plan \in Plans /\ run[w].plan # <<>> /\ run[w].at = "plan"
  BY <1>1, FitNow
<1>3. Steps(Tail(run[w].plan)) \subseteq Steps(run[w].plan)
  BY <1>2, StepsOfTail
<1>4. \E e \in Left(u, c) : e \notin Left(u, c)'
  <2>1. CASE c = "email" /\ k \in Mail
    BY <1>1, <2>1, MailSpent
  <2>2. CASE c \in {"sms"} \cup Device /\ k = Final(c)
    BY <1>1, <2>2, JobSpent
  <2> QED
    BY <2>1, <2>2
<1>5. run[w].at = "acknowledge" => a = "acknowledge"
  BY <1>2
<1>6. a = "plan" => run[w].at = "plan" /\ Steps(p) \subseteq Steps(run[w].plan)
  BY <1>2, <1>3
<1>7. UNCHANGED sent \/ \E x \in User, y \in Channel : Leaves(x, y) /\ \E e \in Left(x, y) : e \notin Left(x, y)'
  BY <1>4
<1> QED
  BY <1>5, <1>6, <1>7, GoesBound

LEMMA StepBound ==
  ASSUME Together, NEW w \in Worker, NEW u \in User,
         \/ Letter(w, u) \/ Alert(w, u) \/ Email(w, u) \/ QueueSms(w, u) \/ QueuePush(w, u)
         \/ Text(w, u) \/ NoDevice(w, u) \/ \E d \in Device : Push(w, u, d)
  PROVE  Sole' /\ Bounded'
<1>1. LogInv /\ TypeOK /\ PlansFit
  BY DEF Together, LogInv
<1>2. "email" \in Channel /\ "sms" \in Channel /\ Device \subseteq Channel
  BY Channels
<1>3. /\ UNCHANGED <<origin, broker>> => UNCHANGED <<queue, done>>
      /\ UNCHANGED origin => UNCHANGED done
  BY DEF origin, broker
<1>4. /\ \A c : Accepted(u, c) \/ Refused(u, c) => UNCHANGED sent \/ Leaves(u, c)
      /\ MailAccepted(u) \/ MailRefused(u) => UNCHANGED sent \/ Leaves(u, "email")
  BY DEF Accepted, Refused, MailAccepted, MailRefused
<1>5. ASSUME NEW k, Does(w, u, k), NEW c \in Channel,
             (c = "email" /\ k \in Mail) \/ (c \in {"sms"} \cup Device /\ k = Final(c)),
             UNCHANGED <<queue, done>>, UNCHANGED sent \/ Leaves(u, c),
             RecordFailure(w, u, c) \/ \E s : Record(w, u, c, s)
      PROVE  Sole' /\ Bounded'
  <2>1. CASE RecordFailure(w, u, c)
    <3>1. Goes(w, "keep", run[w].plan, run[w].new \cup {<<u, c, "failed">>})
      BY <1>1, <1>5, <2>1, FailureGoes
    <3>2. "keep" # "plan"
      OBVIOUS
    <3> QED
      BY <1>5, <3>1, <3>2, SendsBound
  <2>2. ASSUME NEW s, Record(w, u, c, s)
        PROVE  Sole' /\ Bounded'
    <3>1. Goes(w, "plan", Tail(run[w].plan), run[w].new \cup {<<u, c, s>>})
      BY <1>1, <1>5, <2>2, RecordGoes
    <3> QED
      BY <1>5, <3>1, SendsBound
  <2> QED
    BY <1>5, <2>1, <2>2
<1>6. ASSUME NEW k, Does(w, u, k), NEW c, NEW s, Record(w, u, c, s), UNCHANGED <<queue, done>>, UNCHANGED sent
      PROVE  Sole' /\ Bounded'
  <2>1. Goes(w, "plan", Tail(run[w].plan), run[w].new \cup {<<u, c, s>>})
    BY <1>1, <1>6, RecordGoes
  <2>2. run[w].plan \in Plans /\ run[w].plan # <<>> /\ run[w].at = "plan"
    BY <1>1, <1>6, FitNow
  <2>3. Steps(Tail(run[w].plan)) \subseteq Steps(run[w].plan)
    BY <2>2, StepsOfTail
  <2> QED
    BY <1>6, <2>1, <2>2, <2>3, GoesBound
<1>7. ASSUME NEW k \in {"sms", "push"}, Does(w, u, k), Publish(<<k, u>>, 0),
             run' = [run EXCEPT ![w].plan = Tail(@)], UNCHANGED <<sent, done>>
      PROVE  Sole' /\ Bounded'
  <2>1. run[w] # Idle /\ run[w].at = "plan"
    BY <1>1, <1>7, FitNow
  <2>2. Goes(w, "plan", Tail(run[w].plan), run[w].new)
    BY <1>1, <1>7, <2>1, TailGoes
  <2> QED
    BY <1>7, <2>2, QueueBound
<1>8. CASE Letter(w, u)
  BY <1>2, <1>3, <1>4, <1>5, <1>8 DEF Letter, Mail
<1>9. CASE Email(w, u)
  BY <1>2, <1>3, <1>4, <1>5, <1>9 DEF Email, Mail
<1>10. CASE Text(w, u)
  <2>1. "text" = Final("sms")
    BY DEF Final
  <2> QED
    BY <1>2, <1>3, <1>4, <1>5, <1>10, <2>1 DEF Text
<1>11. CASE NoDevice(w, u)
  BY <1>3, <1>6, <1>11 DEF NoDevice
<1>12. CASE QueueSms(w, u)
  <2>1. Does(w, u, "sms") /\ UNCHANGED <<sent, done>> /\ UNCHANGED sent
    BY <1>12 DEF QueueSms, origin
  <2>2. CASE Publish(<<"sms", u>>, 0) /\ run' = [run EXCEPT ![w].plan = Tail(@)]
    BY <1>7, <2>1, <2>2
  <2>3. CASE Record(w, u, "sms", "skipped") /\ UNCHANGED queue
    BY <1>6, <2>1, <2>3
  <2> QED
    BY <1>12, <2>2, <2>3 DEF QueueSms
<1>13. CASE QueuePush(w, u)
  <2>1. Does(w, u, "push") /\ UNCHANGED <<sent, done>> /\ UNCHANGED sent
    BY <1>13 DEF QueuePush, origin
  <2>2. CASE Publish(<<"push", u>>, 0) /\ run' = [run EXCEPT ![w].plan = Tail(@)]
    BY <1>7, <2>1, <2>2
  <2>3. CASE Record(w, u, "push", "skipped") /\ UNCHANGED queue
    BY <1>6, <2>1, <2>3
  <2> QED
    BY <1>13, <2>2, <2>3 DEF QueuePush
<1>14. ASSUME NEW d \in Device, Push(w, u, d)
       PROVE  Sole' /\ Bounded'
  <2>1. Does(w, u, d) /\ UNCHANGED <<queue, done>> /\ d \in Channel /\ d = Final(d)
    BY <1>2, <1>3, <1>14, NoticeAssumption DEF Push, Final
  <2>2. CASE \E s : Record(w, u, d, s) /\ (Accepted(u, d) \/ Refused(u, d))
    BY <1>4, <1>5, <2>1, <2>2
  <2>3. CASE run' = [run EXCEPT ![w].plan = <<>>, ![w].new = @ \cup {<<u, d, "skipped">>}] /\ UNCHANGED sent
    <3>1. run[w] # Idle /\ run[w].at = "plan"
      BY <1>1, <2>1, FitNow
    <3>2. Goes(w, "plan", <<>>, run[w].new \cup {<<u, d, "skipped">>})
      BY <1>1, <2>3, <3>1, CutGoes
    <3>3. Steps(<<>>) \subseteq Steps(run[w].plan)
      BY DEF Steps
    <3> QED
      BY <2>1, <2>3, <3>1, <3>2, <3>3, GoesBound
  <2> QED
    BY <1>14, <2>2, <2>3 DEF Push
<1>15. CASE Alert(w, u)
  <2>1. /\ Does(w, u, "alert") /\ UNCHANGED <<queue, done>>
        /\ UNCHANGED sent \/ Leaves(u, "email")
    BY <1>3, <1>4, <1>15 DEF Alert
  <2>2. PICK a \in {"acknowledge", "retry"} : Goes(w, a, run[w].plan, run[w].new)
    BY <1>1, <1>15, AlertGoes
  <2>3. a # "plan" /\ "alert" \in Mail
    BY DEF Mail
  <2> QED
    BY <1>2, <2>1, <2>2, <2>3, SendsBound
<1> QED
  BY <1>8, <1>9, <1>10, <1>11, <1>12, <1>13, <1>14, <1>15

-----------------------------------------------------------------------------
LEMMA FirstBound ==
  ASSUME Init
  PROVE  Bounded
<1> SUFFICES ASSUME NEW u \in User, NEW c \in Channel
             PROVE  IsFiniteSet(Left(u, c)) /\ sent[u][c] + Cardinality(Left(u, c)) <= Limit(c)
  BY DEF Bounded
<1> DEFINE S == Left(u, c)
           T == Generation \X Span(c)
           k == MaxRetries + 1
<1>1. ASSUME NEW x \in S
      PROVE  \E r \in Generation, s \in Span(c) : x = <<StartTag(r), s>>
  <2>1. Tagged(S, u, c)
    BY LeftIs
  <2>2. \A m \in Message : \A i : i \notin 1..queue[m]
    BY DEF Init
  <2>3. \A w \in Worker : \A job : ~Live(w, job)
    BY DEF Init, Live, Busy
  <2>4. PICK t, s : x = <<t, s>> /\ \/ \E r : t = StartTag(r)
                                    \/ \E m, i : t = WaitTag(m, i)
                                    \/ \E w : t = RunTag(w)
    BY <1>1, <2>1 DEF Tagged
  <2>5. <<t, s>> \in S
    BY <2>4
  <2> HIDE DEF S
  <2>6. ASSUME NEW m, NEW i, t = WaitTag(m, i) PROVE FALSE
    BY <2>1, <2>2, <2>5, <2>6 DEF Tagged
  <2>7. ASSUME NEW w, t = RunTag(w) PROVE FALSE
    BY <2>1, <2>3, <2>5, <2>7 DEF Tagged
  <2>8. PICK r : t = StartTag(r)
    BY <2>4, <2>6, <2>7
  <2>9. r \in Generation /\ s \in Span(c)
    BY <2>1, <2>5, <2>8 DEF Tagged
  <2> QED
    BY <2>4, <2>8, <2>9
<1> HIDE DEF S
<1>2. k \in Nat /\ k * k \in Nat
  <2>1. k \in Nat
    BY NoticeAssumption
  <2> HIDE DEF k
  <2> QED
    BY <2>1
<1>3. IsFiniteSet(Generation) /\ Cardinality(Generation) = k
  BY FS_Interval, NoticeAssumption DEF Generation
<1>4. IsFiniteSet(T) /\ Cardinality(T) = Limit(c)
  <2>1. CASE c = "email"
    <3>1. IsFiniteSet({0}) /\ Cardinality({0}) = 1
      BY FS_Singleton
    <3>2. IsFiniteSet(Generation \X {0}) /\ Cardinality(Generation \X {0}) = k * 1
      BY <1>3, <3>1, FS_Product
    <3> QED
      BY <1>2, <2>1, <3>2 DEF Span, Limit
  <2>2. CASE c # "email"
    <3>1. IsFiniteSet(Generation \X Generation) /\ Cardinality(Generation \X Generation) = k * k
      BY <1>3, FS_Product
    <3> QED
      BY <2>2, <3>1 DEF Span, Limit
  <2> QED
    BY <2>1, <2>2
<1>5. IsFiniteSet(S) /\ Cardinality(S) <= Cardinality(T)
  <2> DEFINE f == [x \in S |-> <<x[1][2], x[2]>>]
  <2>1. ASSUME NEW x \in S
        PROVE  f[x] \in T /\ x = <<StartTag(f[x][1]), f[x][2]>>
    <3>1. PICK r \in Generation, s \in Span(c) : x = <<StartTag(r), s>>
      BY <1>1
    <3>2. x[1][2] = r /\ x[2] = s
      BY <3>1 DEF StartTag
    <3> QED
      BY <3>1, <3>2
  <2> HIDE DEF T
  <2>2. f \in [S -> T]
    BY <2>1
  <2> HIDE DEF f
  <2>3. \A x, y \in S : f[x] = f[y] => x = y
    BY <2>1
  <2>4. f \in Injection(S, T)
    BY <2>2, <2>3 DEF Injection, IsInjective
  <2> QED
    BY <1>4, <2>4, FS_Injection DEF T
<1>6. sent[u][c] = 0
  BY DEF Init, Zero
<1>7. Cardinality(S) \in Nat
  BY <1>5, FS_CardinalityType
<1>8. sent[u][c] + Cardinality(S) <= Limit(c)
  BY <1>4, <1>5, <1>6, <1>7
<1> QED
  BY <1>5, <1>8 DEF S

LEMMA RepeatInit == Init => RepeatInv
<1> SUFFICES ASSUME Init PROVE RepeatInv
  OBVIOUS
<1>1. \A m \in Message : ~Waiting(m)
  BY DEF Init, Waiting
<1>2. \A w \in Worker : run[w] = Idle
  BY DEF Init
<1>3. \A w \in Worker : ~Live(w, <<"notice">>)
  BY <1>2 DEF Live, Busy
<1>4. Sole
  BY <1>1, <1>3 DEF Sole
<1>5. LogInv /\ Bounded
  BY LogInit, FirstBound
<1>6. PlansFit /\ PlansOnce
  BY <1>2 DEF PlansFit, PlansOnce
<1>7. HandlerOnce /\ troubles \in Seq(Incident)
  BY DEF Init, HandlerOnce
<1> QED
  BY <1>4, <1>5, <1>6, <1>7 DEF RepeatInv

LEMMA RepeatNext == RepeatInv /\ [Next]_vars => RepeatInv'
<1> SUFFICES ASSUME RepeatInv, [Next]_vars PROVE RepeatInv'
  OBVIOUS
<1>1. LogInv /\ troubles \in Seq(Incident) /\ PlansFit /\ HandlerOnce /\ PlansOnce
  BY DEF RepeatInv
<1>2. LogInv' /\ TypeOK' /\ TypeOK
  BY <1>1, LogNext DEF LogInv
<1>3. PlansFit' /\ HandlerOnce' /\ PlansOnce' /\ troubles' \in Seq(Incident) /\ Grows
  BY <1>1, FitStays, HandlerStays, OnceStays, Growing
<1>4. ASSUME ~Happened("crash")' PROVE Sole' /\ Bounded'
  <2>1. ~Happened("crash")
    BY <1>3, <1>4 DEF Grows
  <2>2. Together
    BY <1>1, <1>2, <2>1 DEF RepeatInv, Together
  <2>3. CASE UNCHANGED vars \/ HandlerCommits \/ HandlerDies
    <3>1. UNCHANGED <<sent, queue, run>> /\ (done' = done \/ done' = done \cup {"commit"})
      BY <2>3 DEF vars, origin, broker, HandlerCommits, HandlerDies, HandlerStep
    <3> QED
      BY <2>2, <3>1, IdleBound
  <2>4. CASE HandlerQueues
    BY <2>2, <2>4, HandlerBound
  <2>5. ASSUME NEW w \in Worker, NEW m \in Message, Take(w, m)
        PROVE  Sole' /\ Bounded'
    <3>1. UNCHANGED <<sent, done>>
      BY <2>5 DEF Take, origin
    <3> QED
      BY <2>2, <2>5, <3>1, TakeNoticeBound, TakeJobBound
  <2>6. ASSUME NEW w \in Worker, NEW u \in User,
               \/ Letter(w, u) \/ Alert(w, u) \/ Email(w, u) \/ QueueSms(w, u) \/ QueuePush(w, u)
               \/ Text(w, u) \/ NoDevice(w, u) \/ \E d \in Device : Push(w, u, d)
        PROVE  Sole' /\ Bounded'
    BY <2>2, <2>6, StepBound
  <2>7. ASSUME NEW w \in Worker, Commit(w)
        PROVE  Sole' /\ Bounded'
    <3>1. PICK a \in {"retry", "acknowledge"} : Goes(w, a, run[w].plan, {})
      BY <1>2, <2>7, CommitGoes
    <3>2. run[w].at # "acknowledge" /\ a # "plan"
      BY <2>7 DEF Commit, At
    <3>3. UNCHANGED <<queue, done>> /\ UNCHANGED sent
      BY <2>7 DEF Commit, origin, broker
    <3> QED
      BY <2>2, <3>1, <3>2, <3>3, GoesBound
  <2>8. ASSUME NEW w \in Worker, Retry(w)
        PROVE  Sole' /\ Bounded'
    BY <2>2, <2>8, RetryBound
  <2>9. ASSUME NEW w \in Worker, Acknowledge(w)
        PROVE  Sole' /\ Bounded'
    <3>1. UNCHANGED <<sent, queue, done>> /\ \A v \in Worker : run'[v] = Idle \/ run'[v] = run[v]
      BY <1>2, <2>9 DEF Acknowledge, origin, broker, TypeOK
    <3> QED
      BY <2>2, <3>1, IdleBound
  <2>10. ASSUME NEW w \in Worker, Fault(w)
         PROVE  Sole' /\ Bounded'
    <3>1. Goes(w, "retry", run[w].plan, {}) /\ run[w].at # "acknowledge" /\ "retry" # "plan"
      BY <1>2, <2>10, FaultGoes DEF Fault
    <3>2. UNCHANGED <<queue, done>> /\ UNCHANGED sent
      BY <2>10 DEF Fault, origin, broker
    <3> QED
      BY <2>2, <3>1, <3>2, GoesBound
  <2>11. ASSUME NEW w \in Worker, WorkerDies(w) \/ ProcessDies(w)
         PROVE  FALSE
    <3>1. Trouble("crash")
      BY <2>11 DEF WorkerDies, ProcessDies
    <3> QED
      BY <1>1, <1>4, <3>1, TroubleStep DEF Incident
  <2> QED
    BY <2>3, <2>4, <2>5, <2>6, <2>7, <2>8, <2>9, <2>10, <2>11 DEF Next, Work
<1> QED
  BY <1>2, <1>3, <1>4 DEF RepeatInv

(* While no worker has died, the notice is one message or one run, and     *)
(* what was sent over a channel and the chances that are left, counted in  *)
(* turns of the notice, messages and runs of a channel's own job and       *)
(* their retries, stay within the limit of the channel.                    *)
THEOREM RepeatsAreLimited == Spec => []RepeatInv
  BY RepeatInit, RepeatNext, PTL DEF Spec

(* Without crashes a mail leaves at most once per run of the notice, and a *)
(* text or push once per run of each task that each run queued (retries of *)
(* tasks/notifications.py, for any number of retries, workers, devices).   *)
THEOREM RepeatsStayBounded == Spec => []RepeatsAreBounded
<1>1. RepeatInv => RepeatsAreBounded
  <2> SUFFICES ASSUME RepeatInv, ~Happened("crash"), NEW u \in User, NEW c \in Channel
               PROVE  sent[u][c] <= Limit(c)
    BY DEF RepeatsAreBounded, Limit
  <2>1. IsFiniteSet(Left(u, c)) /\ sent[u][c] + Cardinality(Left(u, c)) <= Limit(c)
    BY DEF RepeatInv, Bounded
  <2>2. Cardinality(Left(u, c)) \in Nat /\ sent[u][c] \in Nat /\ Limit(c) \in Nat
    BY <2>1, FS_CardinalityType, LimitType DEF RepeatInv, LogInv, TypeOK, Counts
  <2> QED
    BY <2>1, <2>2
<1> QED
  BY <1>1, RepeatsAreLimited, PTL
=============================================================================
