------------------------------ MODULE Notices -------------------------------
(***************************************************************************)
(* Notifications of one guild (src/src/notification.rs): the preferences   *)
(* decide whether a notice is stored for the dashboard, and a Discord      *)
(* webhook may get it afterwards.                                          *)
(***************************************************************************)
EXTENDS Integers, FiniteSets

CONSTANTS
    Sends,          \* notices to be sent, by id of their row
    Events,         \* event types
    DefaultEvents,  \* those enabled by default
    MaxAttempts,    \* max_attempts
    MaxTime         \* bound: the clock

\* Assumed by the module that instantiates this one.
ConstantsFit ==
    /\ MaxAttempts \in Nat \ {0} /\ MaxTime \in Nat
    /\ DefaultEvents \subseteq Events

VARIABLES
    clock,
    prefs,      \* the row of preferences, or the defaults
    send,       \* per notice: its step
    notices,    \* rows of notifications: ids
    read,       \* those marked as read
    delivered   \* notices the webhook got

vars == <<clock, prefs, send, notices, read, delivered>>

(* Low, medium, high, critical.                                            *)
Priorities == 0..3
Preferences == [webhook : BOOLEAN, threshold : Priorities, events : SUBSET Events, muted : Nat]
DefaultPreferences == [webhook |-> FALSE, threshold |-> 1, events |-> DefaultEvents, muted |-> 0]
New == [pc |-> "new"]
Done == [pc |-> "done"]

TypeOK ==
    /\ clock \in Nat /\ prefs \in Preferences
    /\ send \in [Sends -> {New, Done} \cup [pc : {"store"}, webhook : BOOLEAN]
                                       \cup [pc : {"webhook"}, attempts : 0..MaxAttempts - 1]]
    /\ notices \subseteq Sends /\ read \subseteq Sends /\ delivered \subseteq Sends

Init ==
    /\ clock = 0 /\ prefs = DefaultPreferences
    /\ send = [n \in Sends |-> New]
    /\ notices = {} /\ read = {} /\ delivered = {}

Goto(n, step) == send' = [send EXCEPT ![n] = step]

MeetsThreshold(priority, threshold) == priority >= threshold

Wanted(event, priority) ==
    /\ clock >= prefs.muted
    /\ event \in prefs.events
    /\ MeetsThreshold(priority, prefs.threshold)

(* send: what the preferences say now holds for all that follows, however  *)
(* they change meanwhile; an error of get_preferences sends nothing.       *)
GetPreferences(n, event, priority) ==
    /\ send[n] = New
    /\ \/ Goto(n, IF Wanted(event, priority) THEN [pc |-> "store", webhook |-> prefs.webhook] ELSE Done)
       \/ Goto(n, Done)
    /\ UNCHANGED <<clock, prefs, notices, read, delivered>>

(* send_in_app; the broadcast's error is ignored, the statement's is not.  *)
SendInApp(n) ==
    /\ send[n].pc = "store"
    /\ \/ /\ notices' = notices \cup {n}
          /\ Goto(n, IF send[n].webhook THEN [pc |-> "webhook", attempts |-> 0] ELSE Done)
       \/ Goto(n, Done) /\ UNCHANGED notices
    /\ UNCHANGED <<clock, prefs, read, delivered>>

(* send_discord_webhook: up to MaxAttempts, an attempt whose answer is an  *)
(* error may have been delivered all the same.                             *)
SendDiscordWebhook(n) ==
    /\ send[n].pc = "webhook"
    /\ \/ delivered' = delivered \cup {n} /\ Goto(n, Done)
       \/ /\ delivered' \in {delivered, delivered \cup {n}}
          /\ Goto(n, IF send[n].attempts + 1 < MaxAttempts
                     THEN [send[n] EXCEPT !.attempts = @ + 1] ELSE Done)
    /\ UNCHANGED <<clock, prefs, notices, read>>

(* The dashboard writes the whole row.                                     *)
UpdatePreferences(new) ==
    /\ prefs' = new
    /\ UNCHANGED <<clock, send, notices, read, delivered>>

(* mark_as_read and mark_as_unread: no such row is an error.               *)
MarkAsRead(n) ==
    /\ n \in notices /\ read' = read \cup {n}
    /\ UNCHANGED <<clock, prefs, send, notices, delivered>>

MarkAsUnread(n) ==
    /\ n \in notices /\ read' = read \ {n}
    /\ UNCHANGED <<clock, prefs, send, notices, delivered>>

Tick ==
    /\ clock < MaxTime
    /\ clock' = clock + 1
    /\ UNCHANGED <<prefs, send, notices, read, delivered>>

Next ==
    \/ \E n \in Sends :
          \/ \E event \in Events, priority \in Priorities : GetPreferences(n, event, priority)
          \/ SendInApp(n) \/ SendDiscordWebhook(n) \/ MarkAsRead(n) \/ MarkAsUnread(n)
    \/ \E new \in [webhook : BOOLEAN, threshold : {1, 3}, events : {{}, Events}, muted : {0, clock + 1}] :
          UpdatePreferences(new)
    \/ Tick

Spec == Init /\ [][Next]_vars

(* What the webhook got is in the dashboard's list as well, whatever fails *)
(* and however the preferences change in between; and only what is there   *)
(* can be read (send, mark_as_read).                                       *)
NoticesAreStored == delivered \subseteq notices /\ read \subseteq notices
=============================================================================
