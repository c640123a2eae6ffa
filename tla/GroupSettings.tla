----------------------------- MODULE GroupSettings -----------------------------
(* The settings of one group, changed by its managers, by console pages that *)
(* send back the time stamp they were shown, and by single console switches, *)
(* with the events that tell the members.  Events go through the outbox,     *)
(* where a row with a key that was used before is not inserted again; the    *)
(* key is a digest of the event, its data and the members, who are fixed.    *)
EXTENDS Integers, FiniteSets

CONSTANTS
    Manager,   \* owner and administrators of the group
    Page,      \* console pages of the group
    Edit,      \* changes a request asks for: functions from fields to values
    Closed,    \* no page, no request
    MaxAt      \* bound: requests that took a time stamp

Field == {"name", "announcement", "rate", "visible", "join", "mute", "ban"}
Versioned == {"announcement", "rate", "visible", "join"}

ASSUME GroupSettingsAssumption ==
    /\ MaxAt \in Nat
    /\ \A u \in Edit : DOMAIN u \subseteq Field /\ \A f \in DOMAIN u : u[f] \in {0, 1}

VARIABLES
    setting,     \* the value of every field
    version,     \* versions of the announcement, rate, history and join policy
    touchedAt,   \* im_groups.updated_at
    timeNow,       \* the next time stamp: requests read distinct ones
    dissolved,       \* the group is dissolved
    inCharge,    \* managers who still have their role
    asked,       \* what a manager's request has been admitted to do
    shown,       \* what a console page shows
    announced         \* keys of the events in the outbox

settingsVars == <<setting, version, touchedAt, timeNow, dissolved, inCharge, asked, shown, announced>>

GroupSettingsInit ==
    /\ setting = [f \in Field |-> 0]
    /\ version = [f \in Versioned |-> 0]
    /\ touchedAt = 0 /\ timeNow = 1 /\ dissolved = FALSE
    /\ inCharge = Manager
    /\ asked = [m \in Manager |-> Closed]
    /\ shown = [c \in Page |-> Closed]
    /\ announced = {}

TakesTime == timeNow <= MaxAt /\ timeNow' = timeNow + 1

\* The settings with those of u, its fields that differ, and the versions after them.
Edited(u) == [f \in Field |-> IF f \in DOMAIN u THEN u[f] ELSE setting[f]]
Changed(u) == {f \in DOMAIN u : u[f] # setting[f]}
NextVersions(fields) == [f \in Versioned |-> version[f] + (IF f \in fields THEN 1 ELSE 0)]

Published(f, n) == [event |-> f, data |-> n]

\* Versions tell one publication from the next; a switch has only its values.
Events(u) ==
    {Published(f, version[f] + 1) : f \in Changed(u) \cap {"announcement", "rate", "visible"}}
    \cup {[event |-> f, data |-> u[f]] : f \in Changed(u) \cap {"mute", "ban"}}

\* A dissolved group has no members to tell.
emitGroupSystem(rows) == announced' = IF dissolved THEN announced ELSE announced \cup rows

(***************************************************************************)
(* Managers: the role is read first, without a lock.                       *)
(***************************************************************************)
canUpdateGroupProfile(m, u) == m \in inCharge /\ "ban" \notin DOMAIN u

groupActor(m, u) ==
    /\ asked[m] = Closed /\ ~dissolved /\ canUpdateGroupProfile(m, u)
    /\ TakesTime
    /\ asked' = [asked EXCEPT ![m] = [edit |-> u, at |-> timeNow]]
    /\ UNCHANGED <<setting, version, touchedAt, dissolved, inCharge, shown, announced>>

\* History and join policy look once more whether the group is dissolved.
UpdateGroupProfile(m) ==
    LET u == asked[m].edit IN
    /\ asked[m] # Closed /\ "announcement" \notin DOMAIN u
    /\ asked' = [asked EXCEPT ![m] = Closed]
    /\ IF dissolved /\ DOMAIN u \cap {"visible", "join"} # {}
       THEN UNCHANGED <<setting, version, touchedAt, announced>>
       ELSE /\ setting' = Edited(u)
            /\ version' = NextVersions(Changed(u))
            /\ touchedAt' = asked[m].at
            /\ emitGroupSystem(Events(u) \cup
                   (IF DOMAIN u \subseteq {"rate", "mute"} THEN {}
                    ELSE {[event |-> "profile", data |-> m]}))
    /\ UNCHANGED <<timeNow, dissolved, inCharge, shown>>

\* A plausible slip: the announcement is written without the time stamp.
AnnouncementUntouched(m) ==
    /\ asked[m] # Closed /\ DOMAIN asked[m].edit = {"announcement"}
    /\ asked' = [asked EXCEPT ![m] = Closed]
    /\ setting' = Edited(asked[m].edit)
    /\ version' = NextVersions({"announcement"})
    /\ emitGroupSystem({Published("announcement", version["announcement"] + 1)})
    /\ UNCHANGED <<touchedAt, timeNow, dissolved, inCharge, shown>>

\* The same text again is another version.
SetGroupAnnouncement(m) ==
    /\ asked[m] # Closed /\ DOMAIN asked[m].edit = {"announcement"}
    /\ asked' = [asked EXCEPT ![m] = Closed]
    /\ setting' = Edited(asked[m].edit)
    /\ version' = NextVersions({"announcement"})
    /\ touchedAt' = asked[m].at
    /\ emitGroupSystem({Published("announcement", version["announcement"] + 1)})
    /\ UNCHANGED <<timeNow, dissolved, inCharge, shown>>

(***************************************************************************)
(* The console: every change takes the group's row first.                  *)
(***************************************************************************)
OpenPage(c) ==
    /\ shown[c] = Closed
    /\ shown' = [shown EXCEPT ![c] = [setting |-> setting, at |-> touchedAt]]
    /\ UNCHANGED <<setting, version, touchedAt, timeNow, dissolved, inCharge, asked, announced>>

Admissible(u) == DOMAIN u # {} /\ "ban" \notin DOMAIN u

AdminUpdateGroupSettings(c, u) ==
    /\ shown[c] # Closed /\ Admissible(u) /\ TakesTime
    /\ shown' = [shown EXCEPT ![c] = Closed]
    /\ IF dissolved \/ touchedAt # shown[c].at \/ Changed(u) = {}
       THEN UNCHANGED <<setting, version, touchedAt, announced>>
       ELSE /\ setting' = Edited(u)
            /\ version' = NextVersions(Changed(u))
            /\ touchedAt' = timeNow
            /\ emitGroupSystem(Events(u) \cup {[event |-> "refresh", data |-> timeNow]})
    /\ UNCHANGED <<dissolved, inCharge, asked>>

\* The edit of one switch.
Switched(f, v) == [g \in {f} |-> v]
AdminSwitch(f, v) ==
    /\ ~dissolved /\ setting[f] # v /\ TakesTime
    /\ setting' = [setting EXCEPT ![f] = v]
    /\ version' = NextVersions({f})
    /\ touchedAt' = timeNow
    /\ emitGroupSystem(Events(Switched(f, v)))
    /\ UNCHANGED <<dissolved, inCharge, asked, shown>>

AdminSetGroupMuteAll(v) == AdminSwitch("mute", v)
AdminSetGroupBan(v) == AdminSwitch("ban", v)
SetAdminGroupHistoryVisibility(v) == AdminSwitch("visible", v)

(***************************************************************************)
(* Dissolution and loss of the role, seen from here.                       *)
(***************************************************************************)
DisbandGroupRecord ==
    /\ ~dissolved /\ TakesTime
    /\ dissolved' = TRUE /\ touchedAt' = timeNow
    /\ setting' = [setting EXCEPT !["ban"] = 0]
    /\ emitGroupSystem({[event |-> "disbanded", data |-> 0]})
    /\ UNCHANGED <<version, inCharge, asked, shown>>

LoseRole(m) ==
    /\ m \in inCharge /\ inCharge' = inCharge \ {m}
    /\ UNCHANGED <<setting, version, touchedAt, timeNow, dissolved, asked, shown, announced>>

GroupSettingsNext ==
    \/ \E m \in Manager : \/ \E u \in Edit : groupActor(m, u)
                          \/ UpdateGroupProfile(m) \/ SetGroupAnnouncement(m) \/ LoseRole(m)
    \/ \E c \in Page : OpenPage(c) \/ \E u \in Edit : AdminUpdateGroupSettings(c, u)
    \/ \E v \in {0, 1} : \/ AdminSetGroupMuteAll(v) \/ AdminSetGroupBan(v)
                         \/ SetAdminGroupHistoryVisibility(v)
    \/ DisbandGroupRecord

GroupSettingsSpec == GroupSettingsInit /\ [][GroupSettingsNext]_settingsVars

(***************************************************************************)
(* Properties.                                                             *)
(***************************************************************************)
\* postgres.go:3378: without a version "every publication by the same actor is
\* deduplicated as the first update".  Each version of the announcement, of the
\* rate and of the history policy has its own event, whoever published it.
PublicationsTold == dissolved \/ \A f \in {"announcement", "rate", "visible"} :
    Cardinality({e \in announced : e.event = f}) = version[f]

\* A console page is only saved over the settings it shows: no change that was
\* made after it was opened, by whatever path, is overwritten unseen.
NoBlindEdit == [][\A c \in Page :
    shown[c] # Closed /\ shown'[c] = Closed /\ setting' # setting
        => shown[c].setting = setting]_settingsVars

\* Changes of settings are told, one by one, and none is made over another unseen.
SettingsKept == []PublicationsTold /\ NoBlindEdit
===============================================================================
