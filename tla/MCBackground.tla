----------------------------- MODULE MCBackground -----------------------------
(* Small instances of the work the server does behind its requests: queues,  *)
(* caches, retries and leases, with the liveness they owe.  "part" says      *)
(* which component a behaviour is about; the variables of the others keep    *)
(* their initial values.                                                     *)
EXTENDS AccessRecorder, PresenceCache, WebhookInbox, PushDelivery, ScheduledSend, MediaStore,
        BusinessChannels, Announcements

VARIABLE part

CONSTANTS r1, r2   \* model values

MCAudience == {{r1, r2}, {r1}}

\* Some components have several parts, each of which leaves alone what the other
\* parts are about.
Parts == {"recorder", "presence", "webhook", "pushProviders", "pushLeases", "pushOffline",
          "scheduled", "media", "mail", "roll", "slowMode", "storedBoard", "memoryBoard"}
PushParts == {"pushProviders", "pushLeases", "pushOffline"}
MediaParts == {"media", "mail"}
BizParts == {"roll", "slowMode"}
BoardParts == {"storedBoard", "memoryBoard"}

MCInit ==
    /\ part \in Parts
    /\ RecorderInit /\ PresenceInit /\ WebhookInit /\ PushInit /\ SchedInit /\ MediaInit /\ BizInit
    /\ AnnouncementsInit
    /\ part # "webhook" => \A e \in Event : receipt[e] = NoReceipt
    /\ part # "slowMode" => slow = 0
    /\ part # "roll" => reconcileDue = {}
    /\ part \notin BizParts => \A u \in Member \ {Founder} : roll[Community][u].role = "none"

\* Any two of an edit, an outage and a crash.
SchedPart == SchedNext /\ edited' + outage' + crashed' <= 2

First == CHOOSE w \in Dispatcher : TRUE

PushPart ==
    /\ PushNext
    /\ part # "pushLeases" => crashes' = crashes /\ \A w \in Dispatcher \ {First} : job'[w] = job[w]
    /\ part # "pushProviders" => current' = current
    /\ part # "pushOffline" => epoch' = epoch
    /\ part = "pushLeases" => retracted' = retracted /\ \A d \in Device : device'[d] \in {0, device[d]}

\* Two cleaners without messages, and one beside the messages that bind media, without
\* faults.
MayClean(w) == part = "media" \/ (part = "mail" /\ w = CHOOSE v \in Cleaner : TRUE)
MediaPart ==
    /\ MediaNext
    /\ part = "media" => mail' = mail
    /\ part = "mail" => faults' = faults
    /\ \A w \in Cleaner : ~MayClean(w) => cleaner'[w] = cleaner[w]

MCNext ==
    /\ part' = part
    /\ \/ part = "recorder" /\ RecorderNext
       \/ part = "presence" /\ PresenceNext
       \/ part = "webhook" /\ WebhookNext
       \/ part \in PushParts /\ PushPart
       \/ part = "scheduled" /\ SchedPart
       \/ part \in MediaParts /\ MediaPart
       \/ part = "roll" /\ (BizTick \/ RollNext)
       \/ part = "slowMode" /\ (BizTick \/ SlowNext)
       \/ part = "storedBoard" /\ StoreNext
       \/ part = "memoryBoard" /\ MemoryNext
    /\ part # "recorder" => UNCHANGED recorderVars
    /\ part # "presence" => UNCHANGED presenceVars
    /\ part # "webhook" => UNCHANGED webhookVars
    /\ part \notin PushParts => UNCHANGED pushVars
    /\ part # "scheduled" => UNCHANGED schedVars
    /\ part \notin MediaParts => UNCHANGED mediaVars
    /\ part \notin BizParts => UNCHANGED bizVars
    /\ part \notin BoardParts => UNCHANGED announcementVars

\* The fairness of each component, in the behaviours that are about it: in the
\* others its actions cannot happen, however long they are enabled.
MCFairness ==
    /\ \A e \in Login : WF_recorderVars(part = "recorder" /\ EnqueuePut(e))
    /\ \A w \in Worker : WF_recorderVars(part = "recorder" /\ RecorderStep(w))
    /\ \A f \in Fetch : WF_presenceVars(part = "presence" /\ FetchStep(f))
    /\ \A q \in Query : WF_presenceVars(part = "presence" /\ QueryStep(q))
    /\ \A s \in Starter : WF_webhookVars(part = "webhook" /\ StarterStep(s))
    /\ \A w \in Dispatcher : /\ WF_pushVars(part \in PushParts /\ ClaimPush(w))
                             /\ \A p \in Push : WF_pushVars(part \in PushParts /\ Deliver(w, p))
    /\ WF_schedVars(part = "scheduled" /\ LeaseScheduledMessages)
    /\ WF_schedVars(part = "scheduled" /\ WorkerStep)
    /\ \A m \in Msg : /\ WF_schedVars(part = "scheduled" /\ ComeDue(m))
                      /\ WF_schedVars(part = "scheduled" /\ LeaseLapses(m))
    /\ \A w \in Cleaner : /\ WF_mediaVars(MayClean(w) /\ LeaseMediaCleanup(w))
                          /\ WF_mediaVars(MayClean(w) /\ CleanerStep(w))
    /\ \A x \in Media : WF_mediaVars(part \in MediaParts /\ CleanupLapses(x))
    /\ WF_bizVars(part \in BizParts /\ BizTick)
    /\ WF_bizVars(part = "roll" /\ ExpireBusinessChannelMemberships)
    /\ \A c \in Channel : WF_bizVars(part = "roll" /\ ReconcileBusinessChannel(c))
    /\ \A t \in Topic : WF_bizVars(part = "roll" /\ (InsertTopic(t) \/ SeedTopic(t) \/ CommitTopic(t)))
    /\ WF_announcementVars(part \in BoardParts /\ promoteScheduledAnnouncements)

MCSpec ==
    /\ MCInit
    /\ [][MCNext]_<<part, recorderVars, presenceVars, webhookVars, pushVars, schedVars, mediaVars,
                    bizVars, announcementVars>>
    /\ MCFairness

\* What waits is attended to in the end: records, queries, reports left by an
\* earlier version, pushes, scheduled messages, abandoned objects, subscriptions
\* and announcements, each as its component says.
WorkIsDone ==
    /\ EventuallySettled /\ EventuallyAnswered /\ EventuallyRecovered /\ EventuallyPushed
    /\ EventuallySettledMsg /\ AbandonedIsRemoved /\ EventuallySubscribed /\ EventuallyPublished
===============================================================================
