------------------------------ MODULE MCPlatform ------------------------------
(* Small instances of messages and their extensions, calls, the reconcile    *)
(* cycle and the enterprises, with the liveness they owe.  "part" says which *)
(* component a behaviour is about; the variables of the others keep their    *)
(* initial values.                                                           *)
EXTENDS MessageExtras, CallSession, ReconcileCycle, EnterpriseSwitch, TenantDirectory, TLC

VARIABLE part

CONSTANTS a, b, c, g, d   \* model values

MCMsg == {1, 2}
MCAuthor == 1 :> "bob" @@ 2 :> "ann"
MCUserOf == "phone" :> "bob" @@ "web" :> "bob" @@ "desk" :> "ann"
Try(ops, clients, size) == [ops |-> ops, clients |-> clients, size |-> size]
MCScenario == {
    Try({"edit", "recall", "expiry"}, {"phone", "web"}, 1),
    Try({"edit", "recall", "delete"}, {"phone", "desk"}, 1),
    Try({"pin", "unpin", "recall", "delete", "roles"}, {"phone", "desk"}, 1),
    Try({"delete", "roles"}, {"phone", "desk"}, 2),
    Try({"react", "unreact", "recall", "adminRecall", "favorites", "expiry"},
        {"phone", "desk"}, 1),
    Try({"store", "resend", "delete", "reminders", "favorites", "joins"}, {"desk"}, 2),
    Try({"store", "marks", "joins", "history", "roles"}, {"phone"}, 2),
    Try({"recall", "delete", "sync"}, {"desk", "phone"}, 2)}
\* Recalls of two messages next to a client that synchronises.
MCGapScenario == {Try({"recall", "sync"}, {"desk", "phone"}, 2)}

\* Calls of a group, of two users, and of two users who share a group; the
\* enterprises are explored in several parts, each of which leaves alone what
\* the others are about.
SwitchParts == {"moves", "phones", "profile", "devices"}
DirectoryParts == {"numbers", "companies", "import"}
CallParts == {"groupCalls", "directCalls", "mixedCalls"}
Parts == {"messages", "cycle"} \cup CallParts \cup SwitchParts \cup DirectoryParts

MCInit ==
    /\ part \in Parts
    /\ ExtrasInit /\ CallInit /\ CycleInit /\ SwitchInit /\ DirectoryInit
    /\ part # "messages" => scenario = (CHOOSE s \in Scenario : TRUE) /\ kind = "group"
    /\ part # "directCalls" => members[d] = {a, b}
    /\ part # "groupCalls" => members[g] = {a, b}
    /\ part # "cycle" => channels = {}

Kinds == CASE part = "moves" -> {"switch", "ban"}
           [] part = "phones" -> {"phone", "switch"}
           [] OTHER -> {"switch"}

CallPart ==
    /\ CallNext
    /\ part = "groupCalls" => members'[d] = {a, b} /\ \A x \in Call : conv'[x] # d
    /\ part = "directCalls" => members'[g] = {a, b} /\ \A x \in Call : conv'[x] # g

SwitchPart ==
    /\ SwitchNext
    /\ part # "profile" => snapshot' = snapshot /\ profileEdits' = profileEdits
    /\ part \in {"profile", "devices"} => operation'[2].phase = "none"
    /\ part # "devices" => issuing' = issuing
    /\ \A o \in Operation : operation'[o].phase # "none" => operation'[o].kind \in Kinds

DirectoryPart ==
    /\ DirectoryNext
    /\ part # "numbers" => numberVars' = numberVars
    /\ part # "companies" => companyVars' = companyVars
    /\ part # "import" => importVars' = importVars

MCNext ==
    /\ part' = part
    /\ \/ part = "messages" /\ ExtrasNext
       \/ part \in CallParts /\ CallPart
       \/ part = "cycle" /\ CycleNext
       \/ part \in SwitchParts /\ SwitchPart
       \/ part \in DirectoryParts /\ DirectoryPart
    /\ part # "messages" => UNCHANGED extrasVars
    /\ part \notin CallParts => UNCHANGED callVars
    /\ part # "cycle" => UNCHANGED cycleVars
    /\ part \notin SwitchParts => UNCHANGED switchVars
    /\ part \notin DirectoryParts => UNCHANGED directoryVars

\* The fairness of each component, in the behaviours that are about it: in the
\* others its actions cannot happen, however long they are enabled.
MCFairness ==
    /\ \A m \in Msg : WF_extrasVars(part = "messages" /\ PutWukongWebhookEvent(m, TRUE))
    /\ \A x \in Call : WF_callVars(part \in CallParts /\ BecomesDue(x))
    /\ WF_callVars(part \in CallParts /\ TimeoutBatch(Overdue))
    /\ WF_cycleVars(part = "cycle" /\ RunPage)
    /\ SF_cycleVars(part = "cycle" /\ UserUpToDate)
    /\ <>[][~Restart /\ channels' = channels]_cycleVars
    /\ WF_switchVars(part \in SwitchParts /\ Delivered)
    /\ \A t \in Tenant : WF_switchVars(part \in SwitchParts /\ SyncOnce(t))
    /\ WF_directoryVars(part = "import" /\ ImportNext)

MCSpec ==
    /\ MCInit
    /\ [][MCNext]_<<part, extrasVars, callVars, cycleVars, switchVars, directoryVars>>
    /\ MCFairness

\* What is retried succeeds in the end: WuKongIM's reports of messages, an
\* enterprise's reports of a profile, an import that was interrupted, and a
\* reconcile cycle that was put off.
RetriesSucceed ==
    EventuallyIndexed /\ EventuallySynced /\ EventuallyImported /\ EveryChannelReached
===============================================================================
