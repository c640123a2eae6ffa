----------------------------- MODULE PushDelivery -----------------------------
(***************************************************************************)
(* Push notifications of one user: rows of im_push_outbox are claimed in   *)
(* batches with a lease of five minutes, checked once more against the     *)
(* message, sent to the devices that were read with the claim, and         *)
(* settled or put back.  Devices whose token a provider refuses are        *)
(* switched off.  In an enterprise rows carry the epoch of the user's      *)
(* session and going offline withdraws them.                               *)
(***************************************************************************)
EXTENDS Naturals, FiniteSets

CONSTANTS
    Push,        \* notifications
    Getui,       \* devices of the user, by provider
    WebPush,
    Voip,
    Call,        \* notifications of a call; only these go to VoIP devices
    Dispatcher,  \* servers
    LastToken,   \* bound on the tokens of one device
    MaxAttempt,  \* 10 in the code
    MaxPushCrash, MaxOffline   \* bounds

ASSUME PushAssumption ==
    /\ Call \subseteq Push /\ LastToken \in Nat \ {0} /\ MaxAttempt \in Nat \ {0}
    /\ MaxPushCrash \in Nat /\ MaxOffline \in Nat

Device == Getui \cup WebPush \cup Voip

VARIABLES
    outbox,     \* im_push_outbox
    device,     \* im_devices: token, 0 if erased, of an enabled device
    current,    \* the token the platform gave the device; older ones are refused
    job,        \* deliveries of each dispatcher
    retracted,  \* notifications whose message was deleted or recalled
    shown,      \* tokens each notification was handed to
    asked,      \* the devices of the delivery that settled a notification
    epoch, active, crashes

pushVars == <<outbox, device, current, job, retracted, shown, asked, epoch, active, crashes>>

NoJob == [step |-> "none"]
Settled2 == {"sent", "failed"}

PushInit ==
    /\ outbox = [p \in Push |-> [status |-> "none", attempts |-> 0, epoch |-> 0]]
    /\ device = [d \in Device |-> 1] /\ current = [d \in Device |-> 1]
    /\ job = [w \in Dispatcher |-> [p \in Push |-> NoJob]]
    /\ retracted = {} /\ shown = [p \in Push |-> {}] /\ asked = [p \in Push |-> {}]
    /\ epoch = 1 /\ active = TRUE /\ crashes = 0

Held(w) == {p \in Push : job[w][p] # NoJob}
JobAt(w, p, step) == job[w][p].step = step
JobTo(w, p, new) == job' = [job EXCEPT ![w][p] = new]

(***************************************************************************)
(* The user and the platform.                                              *)
(***************************************************************************)
\* An insertion; the trigger of an enterprise stamps the epoch and fails rows of
\* a user who is offline.
EnqueuePush(p) ==
    /\ outbox[p].status = "none"
    /\ outbox' = [outbox EXCEPT ![p] =
           [status |-> IF active THEN "pending" ELSE "failed", attempts |-> 0, epoch |-> epoch]]
    /\ UNCHANGED <<device, current, job, retracted, shown, asked, epoch, active, crashes>>

RetractMessage(p) ==
    /\ p \notin retracted /\ retracted' = retracted \cup {p}
    /\ UNCHANGED <<outbox, device, current, job, shown, asked, epoch, active, crashes>>

RotateToken(d) ==
    /\ current[d] < LastToken /\ current' = [current EXCEPT ![d] = @ + 1]
    /\ UNCHANGED <<outbox, device, job, retracted, shown, asked, epoch, active, crashes>>

RegisterDevice(d) ==
    /\ active /\ device[d] # current[d] /\ device' = [device EXCEPT ![d] = current[d]]
    /\ UNCHANGED <<outbox, current, job, retracted, shown, asked, epoch, active, crashes>>

UnregisterDevice(d) ==
    /\ device[d] # 0 /\ device' = [device EXCEPT ![d] = 0]
    /\ UNCHANGED <<outbox, current, job, retracted, shown, asked, epoch, active, crashes>>

\* Rows to withdraw are looked for under 'pending' and under 'sending', which no
\* row ever has.
GoOffline ==
    /\ active /\ epoch <= MaxOffline /\ active' = FALSE /\ epoch' = epoch + 1
    /\ device' = [d \in Device |-> 0]
    /\ outbox' = [p \in Push |-> IF outbox[p].status \in {"pending", "sending"}
                                 THEN [outbox[p] EXCEPT !.status = "failed"] ELSE outbox[p]]
    /\ UNCHANGED <<current, job, retracted, shown, asked, crashes>>

GoOnline ==
    /\ ~active /\ active' = TRUE
    /\ UNCHANGED <<outbox, device, current, job, retracted, shown, asked, epoch, crashes>>

(***************************************************************************)
(* Dispatchers.                                                            *)
(***************************************************************************)
\* A plausible slip: rows of a server that stopped are not taken over.
DuePending == {p \in Push : outbox[p].status = "pending"}

\* Back-off and lease run out with time; a server that pauses may outlive its lease.
Due == {p \in Push : outbox[p].status \in {"pending", "processing"}}

AtMost(n, bound) == IF n < bound THEN n ELSE bound

ClaimPush(w) ==
    /\ Held(w) = {} /\ Due # {}
    /\ outbox' = [p \in Push |-> IF p \in Due
           THEN [outbox[p] EXCEPT !.status = "processing", !.attempts = AtMost(@ + 1, MaxAttempt)]
           ELSE outbox[p]]
    /\ LET enabled == {d \in Device : device[d] # 0} IN
         job' = [job EXCEPT ![w] = [p \in Push |->
             IF p \in Due THEN [step |-> "check", since |-> epoch, to |-> [d \in enabled |-> device[d]]] ELSE NoJob]]
    /\ UNCHANGED <<device, current, retracted, shown, asked, epoch, active, crashes>>

\* The message was not deleted or recalled; personal notices always pass.
CanPresentPush(w, p) ==
    /\ JobAt(w, p, "check")
    /\ JobTo(w, p, IF p \in retracted \/ DOMAIN job[w][p].to = {}
                   THEN [job[w][p] EXCEPT !.step = "sent"] ELSE [job[w][p] EXCEPT !.step = "scope"])
    /\ UNCHANGED <<outbox, device, current, retracted, shown, asked, epoch, active, crashes>>

\* The look-up or the whole delivery fails or runs out of time.
DeliveryFails(w, p) ==
    /\ job[w][p].step \in {"check", "scope", "send"}
    /\ JobTo(w, p, [job[w][p] EXCEPT !.step = "retry"])
    /\ UNCHANGED <<outbox, device, current, retracted, shown, asked, epoch, active, crashes>>

\* A plausible slip: the user is in this enterprise, in whatever session.
ActiveIsEnough(p) == active

EpochMatches(p) == active /\ outbox[p].epoch = epoch

\* In an enterprise the row must be of the session the user has now.
EnterpriseSend(w, p) ==
    /\ JobAt(w, p, "scope")
    /\ JobTo(w, p, [job[w][p] EXCEPT !.step = IF EpochMatches(p) THEN "send" ELSE "failed"])
    /\ UNCHANGED <<outbox, device, current, retracted, shown, asked, epoch, active, crashes>>

\* What a provider says of one device: an old token is refused.
GetuiOutcome(d, token) == {"retry", IF token = current[d] THEN "ok" ELSE "invalid"}
WebPushOutcome(d, token) == GetuiOutcome(d, token) \cup {"permanent"}
VoipOutcome(d, token) == GetuiOutcome(d, token) \cup {"permanent"}

Outcome(p, d, token) ==
    IF d \in Getui THEN GetuiOutcome(d, token)
    ELSE IF d \in WebPush THEN WebPushOutcome(d, token)
    ELSE IF p \in Call THEN VoipOutcome(d, token) ELSE {"skip"}

\* One provider's answer to all its devices.
ProviderSend(ds, said) ==
    [failed      |-> \E d \in ds : said[d] \notin {"ok", "skip"},
     invalid     |-> {d \in ds : said[d] = "invalid"},
     retryable   |-> \E d \in ds : said[d] = "retry",
     invalidOnly |-> \A d \in ds : said[d] \in {"ok", "skip", "invalid"}]

AllInvalidOnly(failing) == \A r \in failing : r.invalidOnly

\* Every provider is tried, whatever the others answered.
MultiSend(ds, said) ==
    LET failing == {r \in {ProviderSend(ds \cap Getui, said), ProviderSend(ds \cap WebPush, said),
                           ProviderSend(ds \cap Voip, said)} : r.failed}
    IN  [invalid |-> UNION {r.invalid : r \in failing},
         then |-> IF failing = {} \/ AllInvalidOnly(failing) THEN "sent"
                  ELSE IF \E r \in failing : r.retryable THEN "retry" ELSE "failed"]

SendPush(w, p) ==
    /\ JobAt(w, p, "send")
    /\ LET to == job[w][p].to IN
         \E said \in [DOMAIN to -> {"ok", "skip", "invalid", "retry", "permanent"}] :
           /\ \A d \in DOMAIN to : said[d] \in Outcome(p, d, to[d])
           /\ shown' = [shown EXCEPT ![p] = @ \cup {<<d, to[d]>> : d \in {x \in DOMAIN to : said[x] = "ok"}}]
           /\ LET answer == MultiSend(DOMAIN to, said) IN
                JobTo(w, p, IF answer.invalid = {} THEN [job[w][p] EXCEPT !.step = answer.then]
                            ELSE [step |-> "invalidate", since |-> job[w][p].since, to |-> to,
                                  invalid |-> answer.invalid, then |-> answer.then])
    /\ UNCHANGED <<outbox, device, current, retracted, asked, epoch, active, crashes>>

\* By the id of the device alone, whatever its token is by now.
SwitchOff(ids) == [d \in Device |-> IF d \in ids THEN 0 ELSE device[d]]

InvalidatePushDevices(w, p) ==
    /\ JobAt(w, p, "invalidate")
    /\ \/ /\ device' = SwitchOff(job[w][p].invalid)
          /\ JobTo(w, p, [step |-> job[w][p].then, since |-> job[w][p].since, to |-> job[w][p].to])
       \/ /\ JobTo(w, p, [step |-> "retry", since |-> job[w][p].since, to |-> job[w][p].to]) /\ UNCHANGED device
    /\ UNCHANGED <<outbox, current, retracted, shown, asked, epoch, active, crashes>>

StillProcessing(p) == outbox[p].status = "processing"

\* The row is recognised by its status alone: it may be the claim of another server.
CompletePush(w, p) ==
    /\ job[w][p].step \in {"sent", "retry", "failed"}
    /\ IF StillProcessing(p)
       THEN LET end == IF job[w][p].step = "retry"
                       THEN IF outbox[p].attempts >= MaxAttempt THEN "failed" ELSE "pending"
                       ELSE job[w][p].step
            IN  /\ outbox' = [outbox EXCEPT ![p].status = end]
                /\ asked' = [asked EXCEPT ![p] =
                       {<<d, job[w][p].to[d]>> : d \in DOMAIN job[w][p].to}]
       ELSE UNCHANGED <<outbox, asked>>
    /\ JobTo(w, p, NoJob)
    /\ UNCHANGED <<device, current, retracted, shown, epoch, active, crashes>>

\* The server stops, or the outcome cannot be written: the lease has to run out.
DispatcherStops(w) ==
    /\ Held(w) # {} /\ crashes < MaxPushCrash /\ crashes' = crashes + 1
    /\ job' = [job EXCEPT ![w] = [p \in Push |-> NoJob]]
    /\ UNCHANGED <<outbox, device, current, retracted, shown, asked, epoch, active>>

Deliver(w, p) ==
    \/ CanPresentPush(w, p) \/ DeliveryFails(w, p) \/ EnterpriseSend(w, p) \/ SendPush(w, p)
    \/ InvalidatePushDevices(w, p) \/ CompletePush(w, p)

PushNext ==
    \/ \E p \in Push : EnqueuePush(p) \/ RetractMessage(p)
    \/ \E d \in Device : RotateToken(d) \/ RegisterDevice(d) \/ UnregisterDevice(d)
    \/ GoOffline \/ GoOnline
    \/ \E w \in Dispatcher :
         ClaimPush(w) \/ (\E p \in Push : Deliver(w, p)) \/ DispatcherStops(w)

\* Dispatchers look for rows at every tick and every delivery has a time limit.
PushFairness == \A w \in Dispatcher :
    WF_pushVars(ClaimPush(w)) /\ \A p \in Push : WF_pushVars(Deliver(w, p))

PushSpec == PushInit /\ [][PushNext]_pushVars /\ PushFairness

(***************************************************************************)
(* Properties.                                                             *)
(***************************************************************************)
\* A notification is sent or given up in the end, though servers stop and
\* providers fail.
EventuallyPushed == \A p \in Push :
    outbox[p].status \in {"pending", "processing"} ~> outbox[p].status \in Settled2

\* A settled notification stays so, though dispatchers that lost their lease
\* report late.
PushSettlesOnce == [][\A p \in Push :
    outbox[p].status \in Settled2 => outbox'[p].status = outbox[p].status]_pushVars

\* 'sent' is honest: each device the delivery knew was handed the notification
\* by somebody or has a token its provider refuses, or the message was withdrawn.
SentIsHonest == \A p \in Push : outbox[p].status = "sent" =>
    p \in retracted \/ \A a \in asked[p] :
        a \in shown[p] \/ a[2] # current[a[1]] \/ (a[1] \in Voip /\ p \notin Call)

\* A token that was refused is not tried by every later notification: once a row
\* is settled as sent, no device of its delivery still has a refused token,
\* unless the message was withdrawn before anything was tried.
RefusedIsSwitchedOff == [][\A p \in Push :
    outbox[p].status = "processing" /\ outbox'[p].status = "sent" =>
        \A a \in asked'[p] : device[a[1]] = a[2] /\ a \notin shown[p] =>
            p \in retracted \/ (a[1] \in Voip /\ p \notin Call)]_pushVars

\* What is left of a session the user has ended is not presented: a delivery that
\* began in one session hands over notifications of that session only.
OldSessionStaysQuiet == [][\A w \in Dispatcher, p \in Push :
    JobAt(w, p, "send") /\ shown'[p] # shown[p] => outbox[p].epoch = job[w][p].since]_pushVars

\* What is settled is settled once, honestly and for the session it belongs to.
PushKept ==
    /\ []SentIsHonest /\ PushSettlesOnce /\ RefusedIsSwitchedOff
    /\ OldSessionStaysQuiet
=============================================================================
