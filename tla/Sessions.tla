------------------------------ MODULE Sessions ------------------------------
(***************************************************************************)
(* One browser's session with the dashboard: the row of the sessions table *)
(* (src/src/session.rs, src/src/database.rs), the Discord tokens it holds  *)
(* and their refresh (src/src/oauth.rs), and the cached list of guilds by  *)
(* which every request for a guild is checked (src/src/web.rs).            *)
(*                                                                         *)
(* Discord hands out pairs of an access and a refresh token; a pair is a   *)
(* number here.  A refresh token works once.                               *)
(***************************************************************************)
EXTENDS Integers, Sequences, FiniteSets

CONSTANTS
    Requests,        \* requests that may be under way at the same time
    Nobody,          \* not a request
    TokenLife,       \* expires_in
    RefreshBefore,   \* tokens_need_refresh: five minutes
    GuildTtl,        \* GUILD_CACHE_TTL
    MaxFetch,        \* bound: from Discord's answer to its entry in the cache
    MaxPairs,        \* bound: token pairs
    MaxTime          \* bound: the clock

ASSUME SessionsAssumption ==
    /\ {TokenLife, RefreshBefore, MaxFetch, MaxPairs, MaxTime} \subseteq Nat
    /\ GuildTtl \in Nat \ {0}
    /\ Nobody \notin Requests

VARIABLES
    clock,
    row,         \* the session's row, or NoRow
    pairs,       \* number of pairs Discord has issued
    valid,       \* pairs whose refresh token has not been used
    admin,       \* is the user an administrator of the guild, at Discord
    demoted,     \* when that last ended
    guildCache,  \* per pair (cache_key of the access token): the cached answer, or NoEntry
    fetching,    \* per pair: the request that holds its fetch lock, or Nobody
    req,         \* per request: its step and what it holds
    lost         \* a pair meant for the row was lost on the way (for properties)

discord == <<pairs, valid, admin, demoted>>
guilds == <<guildCache, fetching>>
vars == <<clock, row, discord, guilds, req, lost>>

NoRow == [sid |-> 0]
NoEntry == [at |-> -1, admin |-> FALSE]
Idle == [pc |-> "idle"]

Pairs == 1..MaxPairs
Row == [sid : Pairs, pair : Pairs, expires : Nat, selected : BOOLEAN]
Steps == {"lookup", "refresh", "store", "guilds", "lock", "recheck", "fetch", "insert", "act"}

(* What an endpoint asks for before it does its own work: a session, the   *)
(* list of guilds, or the administrator of a guild.                        *)
Kinds == {"session", "list", "guild"}
Request == [pc : Steps, kind : Kinds, sid : Pairs, pair : 0..MaxPairs, admin : BOOLEAN, at : Nat]

(* The last conjunct: a fetch lock is held by a request that is fetching.  *)
TypeOK ==
    /\ clock \in Nat
    /\ row \in {NoRow} \cup Row
    /\ pairs \in 0..MaxPairs /\ valid \subseteq 1..pairs
    /\ admin \in BOOLEAN /\ demoted \in Nat \cup {-1}
    /\ guildCache \in [Pairs -> [at : Nat, admin : BOOLEAN] \cup {NoEntry}]
    /\ fetching \in [Pairs -> Requests \cup {Nobody}]
    /\ req \in [Requests -> {Idle} \cup Request]
    /\ lost \in BOOLEAN
    /\ \A p \in Pairs : fetching[p] # Nobody =>
          LET r == req[fetching[p]]
          IN  r.pc \in {"recheck", "fetch", "insert"} /\ r.pair = p

Init ==
    /\ clock = 0
    /\ row = NoRow
    /\ pairs = 0 /\ valid = {}
    /\ admin \in BOOLEAN /\ demoted = -1
    /\ guildCache = [p \in Pairs |-> NoEntry]
    /\ fetching = [p \in Pairs |-> Nobody]
    /\ req = [r \in Requests |-> Idle]
    /\ lost = FALSE

(***************************************************************************)
(* Discord                                                                 *)
(***************************************************************************)

(* Issues the next pair in place of the pairs in spent.                    *)
Issue(spent) ==
    /\ pairs < MaxPairs
    /\ pairs' = pairs + 1
    /\ valid' = (valid \ spent) \cup {pairs + 1}
    /\ UNCHANGED <<admin, demoted>>

AdminChanges ==
    /\ admin' = ~admin
    /\ demoted' = IF admin THEN clock ELSE demoted
    /\ UNCHANGED <<clock, row, pairs, valid, guilds, req, lost>>

(***************************************************************************)
(* Login, logout, clean-up                                                 *)
(***************************************************************************)

(* auth_callback: the code is exchanged and the row inserted; the browser  *)
(* gets the row's id as its cookie only then.                              *)
AuthCallback ==
    /\ row = NoRow
    /\ Issue({})
    /\ row' = [sid |-> pairs + 1, pair |-> pairs + 1, expires |-> clock + TokenLife, selected |-> FALSE]
    /\ lost' = FALSE
    /\ UNCHANGED <<clock, guilds, req>>

AuthLogout ==
    /\ row # NoRow
    /\ row' = NoRow
    /\ UNCHANGED <<clock, discord, guilds, req, lost>>

(* The hourly task deletes what a request could still have refreshed.      *)
CleanupExpired ==
    /\ row # NoRow /\ row.expires < clock
    /\ row' = NoRow
    /\ UNCHANGED <<clock, discord, guilds, req, lost>>

(***************************************************************************)
(* get_session                                                             *)
(***************************************************************************)

Goto(r, step) == req' = [req EXCEPT ![r] = step]
Fail(r) == Goto(r, Idle)
At(r, step) == req[r].pc = step

Begin(kind, sid, step) == [pc |-> step, kind |-> kind, sid |-> sid, pair |-> 0, admin |-> FALSE, at |-> 0]
Act(r) == Goto(r, Begin(req[r].kind, req[r].sid, "act"))

(* Some endpoints need a session and no more.                              *)
WithSession(r, pair) ==
    IF req[r].kind = "session" THEN Act(r) ELSE Goto(r, [req[r] EXCEPT !.pc = "guilds", !.pair = pair])

Arrive(r, kind) ==
    /\ req[r] = Idle
    /\ row # NoRow                    \* the browser has a cookie
    /\ Goto(r, Begin(kind, row.sid, "lookup"))
    /\ UNCHANGED <<clock, row, discord, guilds, lost>>

TokensNeedRefresh(s) == s.expires <= clock + RefreshBefore

LookUp(r) ==
    /\ At(r, "lookup")
    /\ IF row = NoRow \/ row.sid # req[r].sid
       THEN Fail(r)
       ELSE IF TokensNeedRefresh(row)
            THEN Goto(r, [req[r] EXCEPT !.pair = row.pair, !.pc = "refresh"])
            ELSE WithSession(r, row.pair)
    /\ UNCHANGED <<clock, row, discord, guilds, lost>>

(* The row still is the one this request was started with.                 *)
RowOf(r) == row # NoRow /\ row.sid = req[r].sid

(* The used refresh token is gone for good; whether the answer arrives ...  *)
RefreshTokens(r) ==
    /\ At(r, "refresh")
    /\ \/ /\ req[r].pair \in valid
          /\ Issue({req[r].pair})
          /\ \/ Goto(r, [req[r] EXCEPT !.pc = "store", !.pair = pairs + 1]) /\ UNCHANGED lost
             \/ Fail(r) /\ lost' = (lost \/ RowOf(r))
       \/ Fail(r) /\ UNCHANGED <<discord, lost>>
    /\ UNCHANGED <<clock, row, guilds>>

(* Mutant: inserts the row when there is none.                             *)
FaultyUpdateTokens(r) ==
    /\ At(r, "store")
    /\ row' = [sid |-> req[r].sid, pair |-> req[r].pair, expires |-> clock + TokenLife, selected |-> FALSE]
    /\ WithSession(r, req[r].pair)
    /\ UNCHANGED <<clock, discord, guilds, lost>>

(* Mutant: stores the new access token and keeps the old refresh token.    *)
FaultyUpdateAccess(r) ==
    /\ At(r, "store") /\ RowOf(r)
    /\ row' = [row EXCEPT !.expires = clock + TokenLife]
    /\ WithSession(r, req[r].pair)
    /\ UNCHANGED <<clock, discord, guilds, lost>>

(* ... the UPDATE finds no row after a logout or a clean-up, and it may    *)
(* fail; either way the request fails and the new pair with it.            *)
UpdateTokens(r) ==
    /\ At(r, "store")
    /\ \/ /\ RowOf(r)
          /\ row' = [row EXCEPT !.pair = req[r].pair, !.expires = clock + TokenLife]
          /\ WithSession(r, req[r].pair)
          /\ UNCHANGED lost
       \/ Fail(r) /\ lost' = (lost \/ RowOf(r)) /\ UNCHANGED row
    /\ UNCHANGED <<clock, discord, guilds>>

(***************************************************************************)
(* get_user_guilds, get_admin_guilds and the check of verify_guild_admin   *)
(***************************************************************************)

(* Mutant: an entry as old as the TTL is still served.                     *)
FaultyFresh(entry) == entry # NoEntry /\ clock - entry.at <= GuildTtl

Fresh(entry) == entry # NoEntry /\ clock - entry.at < GuildTtl

(* list_servers answers the list, all others look for their guild in it.     *)
Checked(r, isAdmin) ==
    IF isAdmin \/ req[r].kind = "list" THEN Act(r) ELSE Fail(r)

Entry(r) == guildCache[req[r].pair]

CheckCache(r) ==
    /\ At(r, "guilds")
    /\ IF Fresh(Entry(r)) THEN Checked(r, Entry(r).admin) ELSE Goto(r, [req[r] EXCEPT !.pc = "lock"])
    /\ UNCHANGED <<clock, row, discord, guilds, lost>>

LockFetch(r) ==
    /\ At(r, "lock") /\ fetching[req[r].pair] = Nobody
    /\ fetching' = [fetching EXCEPT ![req[r].pair] = r]
    /\ Goto(r, [req[r] EXCEPT !.pc = "recheck"])
    /\ UNCHANGED <<clock, row, discord, guildCache, lost>>

(* The lock's guard is dropped with the request.                           *)
Unlocked(r) == [p \in Pairs |-> IF fetching[p] = r THEN Nobody ELSE fetching[p]]

(* Another request may have filled the cache while this one waited.        *)
RecheckCache(r) ==
    /\ At(r, "recheck")
    /\ IF Fresh(Entry(r))
       THEN Checked(r, Entry(r).admin) /\ fetching' = Unlocked(r)
       ELSE Goto(r, [req[r] EXCEPT !.pc = "fetch"]) /\ UNCHANGED fetching
    /\ UNCHANGED <<clock, row, discord, guildCache, lost>>

(* Discord answers with what holds at that time, or refuses.               *)
FetchGuilds(r) ==
    /\ At(r, "fetch")
    /\ \/ Goto(r, [req[r] EXCEPT !.pc = "insert", !.admin = admin, !.at = clock]) /\ UNCHANGED fetching
       \/ Fail(r) /\ fetching' = Unlocked(r)
    /\ UNCHANGED <<clock, row, discord, guildCache, lost>>

(* The entry's age counts from here, not from Discord's answer.            *)
InsertGuilds(r) ==
    /\ At(r, "insert")
    /\ guildCache' = [guildCache EXCEPT ![req[r].pair] = [at |-> clock, admin |-> req[r].admin]]
    /\ fetching' = Unlocked(r)
    /\ Checked(r, req[r].admin)
    /\ UNCHANGED <<clock, row, discord, lost>>

VerifyGuildAdmin(r) ==
    CheckCache(r) \/ LockFetch(r) \/ RecheckCache(r) \/ FetchGuilds(r) \/ InsertGuilds(r)

GetSession(r) == LookUp(r) \/ RefreshTokens(r) \/ UpdateTokens(r)

(***************************************************************************)
(* The endpoints.  What they do to rules, settings and warnings is for     *)
(* modules Settings and Warnings.                                          *)
(***************************************************************************)

(* set_selected_guild is an UPDATE: no row, no effect, and an error.       *)
SelectServer(r) ==
    /\ At(r, "act") /\ req[r].kind = "guild"
    /\ row' = IF RowOf(r) THEN [row EXCEPT !.selected = TRUE] ELSE row
    /\ Fail(r)
    /\ UNCHANGED <<clock, discord, guilds, lost>>

(* auth_me, list_servers and all others leave the session as it is.        *)
Answer(r) ==
    /\ At(r, "act")
    /\ Fail(r)
    /\ UNCHANGED <<clock, row, discord, guilds, lost>>

(* The browser goes away: the request is dropped at an await, the guard of *)
(* the fetch lock with it.                                                 *)
Dropped(r) ==
    /\ req[r] # Idle
    /\ fetching' = Unlocked(r)
    /\ lost' = (lost \/ (At(r, "store") /\ RowOf(r)))
    /\ Fail(r)
    /\ UNCHANGED <<clock, row, discord, guildCache>>

Tick ==
    /\ clock < MaxTime
    /\ \A r \in Requests : At(r, "insert") => clock < req[r].at + MaxFetch
    /\ clock' = clock + 1
    /\ UNCHANGED <<row, discord, guilds, req, lost>>

RequestStep(r) ==
    \/ \E kind \in Kinds : Arrive(r, kind)
    \/ GetSession(r) \/ VerifyGuildAdmin(r)
    \/ SelectServer(r) \/ Answer(r) \/ Dropped(r)

Next ==
    \/ \E r \in Requests : RequestStep(r)
    \/ AdminChanges \/ AuthCallback \/ AuthLogout \/ CleanupExpired \/ Tick

Spec == Init /\ [][Next]_vars

(***************************************************************************)
(* Properties                                                              *)
(***************************************************************************)

(* However many requests refresh a session at once, its row ends with a    *)
(* refresh token Discord still accepts: the token's single use lets one of *)
(* them win, and only a request that is cut off with the new pair in hand  *)
(* leaves a session that can never be refreshed (get_session in web.rs).   *)
SessionUsable ==
    row # NoRow =>
        \/ row.pair \in valid
        \/ \E r \in Requests : At(r, "store") /\ RowOf(r) /\ req[r].pair \in valid
        \/ lost

(* A session that was logged out or cleaned up is never brought back by a  *)
(* request that still holds a copy of it (update_session_tokens,           *)
(* set_selected_guild): only a login makes a row, with an id of its own.   *)
LoggedOutStaysOut ==
    [][row = NoRow /\ row' # NoRow =>
          \A r \in Requests : req[r] # Idle => row'.sid # req[r].sid]_vars

(* Whoever passes the check for a guild was its administrator within the   *)
(* last GuildTtl and one fetch, whichever request filled the cache         *)
(* (get_user_guilds, verify_guild_admin).                                  *)
AdminWasRecent ==
    [][\A r \in Requests :
          ~At(r, "act") /\ req'[r].pc = "act" /\ req[r].kind = "guild"
          => admin \/ (demoted >= 0 /\ clock - demoted < GuildTtl + MaxFetch)]_vars
=============================================================================
