------------------------------ MODULE Analyzer ------------------------------
(***************************************************************************)
(* The client of Gemini (src/src/analyzer.rs): a call waits for a permit   *)
(* of the rate limiter, sends its request, sends it again after a network  *)
(* error, and parses the answer.                                           *)
(*                                                                         *)
(* One permit serves all attempts of a call, so Gemini may get up to       *)
(* MaxAttempts times the requests the limiter allows.                      *)
(***************************************************************************)
EXTENDS Integers, FiniteSets

CONSTANTS
    Callers,      \* tasks that call analyze_with_context
    Quota,        \* permits: requests_per_minute, replenished one by one
    MaxAttempts   \* 3

\* Assumed by the module that instantiates this one.
ConstantsFit == {Quota, MaxAttempts} \subseteq Nat \ {0}

VARIABLES
    permits,   \* what the limiter has left
    call       \* per caller the attempt it is at, 0 before its permit

vars == <<permits, call>>

TypeOK ==
    /\ permits \in 0..Quota
    /\ call \in [Callers -> 0..MaxAttempts]

Init == permits = Quota /\ call = [t \in Callers |-> 0]

(***************************************************************************)
(* Answers                                                                 *)
(***************************************************************************)

(* What is in the block of JSON of an answer, if there is one: which       *)
(* formats its violations have, whether it says that an attack was         *)
(* detected, and how many participants it names.  The hardened format has  *)
(* the field sanitized_reason, the legacy format reason; every other field *)
(* has a default.                                                          *)
Formats == {"hardened", "legacy"}
Answers ==
    [json : BOOLEAN, violations : SUBSET SUBSET Formats, detected : BOOLEAN, participants : 0..2]

Has(a, format) == a.json /\ \A v \in a.violations : format \in v

(* parse_enhanced_response: the hardened format is tried first, and an     *)
(* answer without violations has both.                                     *)
Parses(a) == Has(a, "hardened") \/ Has(a, "legacy")

(* CoordinatedHarassment::is_valid: the hardened format names nobody.      *)
CoordinatedHarassment(a) ==
    ~Has(a, "hardened") /\ Has(a, "legacy") /\ a.detected /\ a.participants >= 2

(* What comes back: 429, another error status, a body that is no answer,   *)
(* or an answer.                                                           *)
Replies == [kind : {"limited", "status", "body"}] \cup [kind : {"answer"}, answer : Answers]
Good(reply) == reply.kind = "answer" /\ Parses(reply.answer)
GoodReplies == {reply \in Replies : Good(reply)}

(***************************************************************************)
(* A call                                                                  *)
(***************************************************************************)

UntilReady(t) ==
    /\ call[t] = 0 /\ permits > 0
    /\ permits' = permits - 1
    /\ call' = [call EXCEPT ![t] = 1]

(* A network error; after a second, and two, it is tried again.            *)
Retry(t) ==
    /\ call[t] \in 1..MaxAttempts - 1
    /\ call' = [call EXCEPT ![t] = @ + 1]
    /\ UNCHANGED permits

(* A network error of the last attempt ends the call.                      *)
GiveUp(t) ==
    /\ call[t] = MaxAttempts
    /\ call' = [call EXCEPT ![t] = 0]
    /\ UNCHANGED permits

(* Any reply at all ends it.                                               *)
Reply(t) ==
    /\ call[t] > 0
    /\ call' = [call EXCEPT ![t] = 0]
    /\ UNCHANGED permits

Succeed(t) == Reply(t) /\ GoodReplies # {}
Fail(t) == GiveUp(t) \/ (Reply(t) /\ Replies \ GoodReplies # {})

(* Mutant: an empty limiter stays empty.                                   *)
FaultyReplenish ==
    /\ permits \in 1..Quota - 1
    /\ permits' = permits + 1
    /\ UNCHANGED call

Replenish ==
    /\ permits < Quota
    /\ permits' = permits + 1
    /\ UNCHANGED call
=============================================================================
