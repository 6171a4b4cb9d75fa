------------------------------ MODULE Gateway -------------------------------
(***************************************************************************)
(* The gateway's event handlers (src/src/main.rs) around the raid          *)
(* detector: a message is counted, checked for spam and for a flood, and   *)
(* then enters the pipeline, which first notes it in the conversation      *)
(* context of its channel (src/src/context.rs).  One guild, one channel.   *)
(***************************************************************************)
EXTENDS RaidDetector

CONSTANT MaxContext    \* MAX_CONTEXT_MESSAGES

ASSUME ContextAssumption == MaxContext \in Nat \ {0}

VARIABLES
    counted,   \* metrics: messages_processed of the guild
    context    \* the channel's recent messages, by author

gvars == <<vars, counted, context>>

(* The context never outgrows its limit, whoever adds to it.               *)
GTypeOK ==
    /\ TypeOK
    /\ counted \in Nat
    /\ context \in Seq(Users) /\ Len(context) <= MaxContext

GInit == Init /\ counted = 0 /\ context = <<>>

(* MurdochHandler::message counts the message before it checks anything.   *)
Receive(h, u, c) ==
    /\ Message(h, u, c)
    /\ counted' = counted + 1
    /\ UNCHANGED context

(* ContextTracker::add_message: push, then trim from the front.            *)
AddMessage(u) ==
    LET all == Append(context, u)
    IN  context' = IF Len(all) > MaxContext THEN Tail(all) ELSE all

(* process_message begins with the context; the rest is module Pipeline's. *)
ProcessMessage(h) ==
    /\ Leave(h)
    /\ AddMessage(task[h].user)
    /\ UNCHANGED counted

ClearChannel == context' = <<>> /\ UNCHANGED <<vars, counted>>

Detect(h) ==
    /\ \/ \E new \in BOOLEAN : Join(h, new)
       \/ RecordJoin(h) \/ CheckUserSpam(h) \/ RecordMessage(h) \/ ActivateRaidMode(h)
    /\ UNCHANGED <<counted, context>>

GNext ==
    \/ \E h \in Tasks : Detect(h) \/ ProcessMessage(h) \/ \E u \in Users, c \in Contents : Receive(h, u, c)
    \/ Surroundings /\ UNCHANGED <<counted, context>>
    \/ ClearChannel

GSpec == GInit /\ [][GNext]_gvars

=============================================================================
