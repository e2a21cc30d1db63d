---------------------------- MODULE AccountSession ----------------------------
(***************************************************************************)
(* The account's session: how the coordinator's poll and the tasks that    *)
(* pushes start keep it alive together (custom_components/botslab:         *)
(* coordinator.py, api.py, quc_login.py, __init__.py).                     *)
(*                                                                         *)
(* The login tokens Q/T are exchanged for a session id, the sid, that goes *)
(* with every call.  The cloud keeps one active login per account, so the  *)
(* phone app can take it over, and it lets sids expire.  Every task that   *)
(* is refused climbs the same ladder -- app_login, then a full re-login -- *)
(* on the same shared api object, suspended at every call.  A re-login     *)
(* also rewrites the config entry, and that reloads the integration.       *)
(*                                                                         *)
(* What the pages of events hold is module EventFeed; here an event is     *)
(* only noticed or not.                                                    *)
(***************************************************************************)
EXTENDS Integers

CONSTANTS
    Poll,      \* the coordinator's refresh
    Pushers,   \* tasks started by pushes (_on_push)
    MaxNews,   \* events, and pushes, that may come (bounds the model)
    MaxThefts, \* log-ins on another device
    MaxExpiries, \* times the cloud lets every sid expire
    MaxFaults  \* answers that fail or get lost

Tasks == {Poll} \cup Pushers

ASSUME SourceAssumption ==
    /\ Poll \notin Pushers
    /\ MaxNews \in Nat /\ MaxThefts \in Nat /\ MaxExpiries \in Nat /\ MaxFaults \in Nat

VARIABLES
    \* the cloud
    minted,    \* tokens issued so far; the last ones are the valid ones
    epoch,     \* sids of this epoch are valid
    password,  \* the password in the entry is right
    news,      \* events so far
    \* Home Assistant
    status,    \* the entry: "setup", "loaded" or "down" (to be set up again)
    stored,    \* the tokens in the entry's data
    asking,    \* a reauth flow is open, and the coordinator no longer polls
    reloads,   \* reloads asked for
    pushes,    \* pushes on their way
    known,     \* history: the newest event processed
    \* the api object
    tok,       \* q and t
    sid,       \* sid, 0 for ""
    \* the tasks
    at,        \* the call each one awaits, "idle" for none
    asked,     \* the tokens and sid in its request's header
    answer,    \* what it brought back
    \* bounds
    thefts, faults

cloud == <<minted, epoch, password, news, thefts, faults>>
entry == <<status, stored, asking, reloads>>
history == <<known>>
api == <<tok, sid>>
tasks == <<at, asked, answer>>
vars == <<cloud, entry, pushes, history, api, tasks>>

Logins == {"login", "login again", "login after relogin", "login for messages", "login to retry"}
Relogins == {"relogin", "relogin to retry"}
Queries == {"devices", "properties", "messages", "messages again"}
Points == {"idle"} \cup Logins \cup Relogins \cup Queries

None == [is |-> "none", val |-> 0]
Answers == [is : {"ok", "auth", "session", "error", "timeout"}, val : Nat]

TypeOK ==
    /\ minted \in Nat /\ epoch \in Nat /\ news \in 0..MaxNews
    /\ password \in BOOLEAN /\ asking \in BOOLEAN
    /\ status \in {"setup", "loaded", "down"}
    /\ stored \in 1..minted /\ tok \in 1..minted /\ sid \in 0..epoch
    /\ reloads \in Nat /\ pushes \in 0..MaxNews /\ known \in 0..MaxNews
    /\ at \in [Tasks -> Points]
    /\ asked \in [Tasks -> [tok : 0..minted, sid : 0..epoch]]
    /\ answer \in [Tasks -> Answers \cup {None}]
    /\ thefts \in 0..MaxThefts /\ faults \in 0..MaxFaults

NoHeader == [tok |-> 0, sid |-> 0]

Init ==
    /\ minted = 1 /\ epoch = 1 /\ password = TRUE /\ news = 0
    /\ status = "setup" /\ stored = 1 /\ asking = FALSE /\ reloads = 0
    /\ pushes = 0 /\ known = 0
    /\ tok = 1 /\ sid = 0
    /\ at = [p \in Tasks |-> "idle"]
    /\ asked = [p \in Tasks |-> NoHeader]
    /\ answer = [p \in Tasks |-> None]
    /\ thefts = 0 /\ faults = 0

-----------------------------------------------------------------------------
(* The cloud, the network and the user.                                    *)

NewEvent ==
    /\ news < MaxNews
    /\ news' = news + 1
    /\ pushes' = pushes + 1
    /\ UNCHANGED <<minted, epoch, password, thefts, faults, entry, history, api, tasks>>

\* The phone app logs in: the tokens in use until now are refused from here on.
TakeOver ==
    /\ thefts < MaxThefts
    /\ thefts' = thefts + 1
    /\ minted' = minted + 1
    /\ UNCHANGED <<epoch, password, news, faults, entry, pushes, history, api, tasks>>

ExpireSids ==
    /\ epoch <= MaxExpiries
    /\ epoch' = epoch + 1
    /\ UNCHANGED <<minted, password, news, thefts, faults, entry, pushes, history, api, tasks>>

\* The user changes the password, which ends every login.
ChangePassword ==
    /\ thefts < MaxThefts /\ password
    /\ thefts' = thefts + 1
    /\ password' = FALSE
    /\ minted' = minted + 1
    /\ UNCHANGED <<epoch, news, faults, entry, pushes, history, api, tasks>>

Answer(p, is, val) == answer' = [answer EXCEPT ![p] = [is |-> is, val |-> val]]
Waiting(p) == at[p] # "idle" /\ answer[p] = None

\* _call's answers: app_login (any valid tokens), the account's data (a valid sid
\* too), and the log-in with email and password.
ServeLogin(p) ==
    /\ Waiting(p) /\ at[p] \in Logins
    /\ IF asked[p].tok = minted THEN Answer(p, "ok", epoch) ELSE Answer(p, "auth", 0)
    /\ UNCHANGED <<cloud, entry, pushes, history, api, at, asked>>

ServeQuery(p) ==
    /\ Waiting(p) /\ at[p] \in Queries
    /\ \/ asked[p].tok # minted /\ Answer(p, "auth", 0)
       \/ asked[p].tok = minted /\ asked[p].sid # epoch /\ Answer(p, "session", 0)
       \/ asked[p].tok = minted /\ asked[p].sid = epoch /\ Answer(p, "ok", news)
    /\ UNCHANGED <<cloud, entry, pushes, history, api, at, asked>>

ServeRelogin(p) ==
    /\ Waiting(p) /\ at[p] \in Relogins
    /\ IF password
       THEN minted' = minted + 1 /\ Answer(p, "ok", minted + 1)
       ELSE Answer(p, "auth", 0) /\ UNCHANGED minted
    /\ UNCHANGED <<epoch, password, news, thefts, faults, entry, pushes, history, api, at, asked>>

\* The request or its answer is lost or spoilt: an error of the transport or an
\* unknown code, a timeout (which _call does not catch), an app_login that brings
\* no sid.
Fail(p) ==
    /\ faults < MaxFaults /\ at[p] # "idle"
    /\ faults' = faults + 1
    /\ \/ Answer(p, "error", 0)
       \/ Answer(p, "timeout", 0)
       \/ at[p] \in Logins /\ Answer(p, "ok", 0)
    /\ UNCHANGED <<minted, epoch, password, news, thefts, entry, pushes, history, api, at, asked>>

-----------------------------------------------------------------------------
(* Steps of a task, from one call to the next.                             *)

\* The task makes a call; its header is built here.
Call(p, point, t, s) ==
    /\ at' = [at EXCEPT ![p] = point]
    /\ asked' = [asked EXCEPT ![p] = [tok |-> t, sid |-> s]]
    /\ answer' = [answer EXCEPT ![p] = None]

\* The task is over.
End(p) ==
    /\ at' = [at EXCEPT ![p] = "idle"]
    /\ asked' = [asked EXCEPT ![p] = NoHeader]
    /\ answer' = [answer EXCEPT ![p] = None]

\* What follows ensure_session.
Proceed(p, s) == Call(p, IF p = Poll THEN "devices" ELSE "messages", tok, s)

\* An exception leaves the task.  A push task drops it (ConfigEntryAuthFailed, which
\* is no BotslabError, ends the task too).  A failed first refresh fails the set-up.
Drop(p) ==
    /\ End(p)
    /\ status' = IF p = Poll /\ status = "setup" THEN "down" ELSE status
    /\ UNCHANGED <<asking, stored, reloads>>

\* Mutated form of Refused: the refresh only fails.
RefusedGivesUp(p) == Drop(p)

\* BotslabAuthError out of _async_update_data's try block: log in anew.
Refused(p) ==
    IF p = Poll
    THEN Call(p, "relogin to retry", tok, sid) /\ UNCHANGED entry
    ELSE Drop(p)

\* ConfigEntryAuthFailed: the poll opens the reauth flow and is not scheduled again.
AskUser(p) ==
    IF p = Poll
    THEN /\ End(p)
         /\ asking' = TRUE
         /\ status' = IF status = "setup" THEN "down" ELSE status
         /\ UNCHANGED <<stored, reloads>>
    ELSE Drop(p)

Ensure(p) ==
    IF sid = 0 THEN Call(p, "login", tok, sid) ELSE Proceed(p, sid)

\* The refresh is scheduled again after each that did not end in ConfigEntryAuthFailed.
StartPoll ==
    /\ at[Poll] = "idle" /\ status \in {"setup", "loaded"} /\ ~asking
    /\ Ensure(Poll)
    /\ UNCHANGED <<cloud, entry, pushes, history, api>>

\* handle_push.
StartPush(p) ==
    /\ p \in Pushers /\ at[p] = "idle" /\ status = "loaded" /\ pushes > 0
    /\ pushes' = pushes - 1
    /\ Ensure(p)
    /\ UNCHANGED <<cloud, entry, history, api>>

Is(p, point, is) == at[p] = point /\ answer[p].is = is

\* app_login's answer: the sid is stored, "" too, for which it raises.
LoggedIn(p, point) == Is(p, point, "ok") /\ answer[p].val # 0
NoSid(p, point) == Is(p, point, "ok") /\ answer[p].val = 0
Failed(p, point) == at[p] = point /\ answer[p].is \in {"error", "timeout"}
StoreSid(p) == sid' = answer[p].val /\ UNCHANGED tok

\* Mutated form of LoginSucceeds: what app_login brings is not stored.
LoginKeepsSid(p) ==
    /\ \E point \in {"login", "login again", "login after relogin"} : LoggedIn(p, point)
    /\ UNCHANGED <<api, entry>>
    /\ Proceed(p, sid)

\* ensure_session's app_login, the one after a bare SessionError, and the one after a
\* re-login succeed.
LoginSucceeds(p) ==
    /\ \E point \in {"login", "login again", "login after relogin"} : LoggedIn(p, point)
    /\ StoreSid(p)
    /\ Proceed(p, answer[p].val)
    /\ UNCHANGED entry

\* ensure_session: app_login failed.
LoginFails(p) ==
    \/ NoSid(p, "login") /\ StoreSid(p) /\ Call(p, "login again", tok, 0) /\ UNCHANGED entry
    \/ Is(p, "login", "auth") /\ Call(p, "relogin", tok, sid) /\ UNCHANGED <<api, entry>>
    \/ Failed(p, "login") /\ Drop(p) /\ UNCHANGED api
    \/ \E point \in {"login again", "login after relogin"} :
        \/ NoSid(p, point) /\ StoreSid(p) /\ Drop(p)
        \/ Is(p, point, "auth") /\ Refused(p) /\ UNCHANGED api
        \/ Failed(p, point) /\ Drop(p) /\ UNCHANGED api

\* Mutated form of Persist: the new tokens stay in the api object.
PersistNothing(t) == UNCHANGED <<stored, reloads>>

\* The tokens go into the entry's data, which asks for a reload once the set-up has
\* registered the update listener.
Persist(t) ==
    /\ stored' = t
    /\ reloads' = IF status = "loaded" THEN reloads + 1 ELSE reloads

\* _full_relogin has new tokens: they go into the entry and into the api, whose sid is
\* reset.
ReloginSucceeds(p) ==
    /\ \E point \in Relogins : Is(p, point, "ok")
    /\ Persist(answer[p].val)
    /\ tok' = answer[p].val
    /\ sid' = 0
    /\ Call(p, IF at[p] = "relogin" THEN "login after relogin" ELSE "login to retry",
            answer[p].val, 0)
    /\ UNCHANGED <<status, asking>>

\* Mutated form of ReloginFails: any failure asks the user.
ReloginAsksAlways(p) ==
    /\ \E point \in Relogins : Is(p, point, "auth") \/ Failed(p, point)
    /\ AskUser(p)
    /\ UNCHANGED api

\* _full_relogin: wrong credentials, or a call that failed.
ReloginFails(p) ==
    /\ \E point \in Relogins :
        \/ Is(p, point, "auth") /\ AskUser(p)
        \/ Failed(p, point) /\ Drop(p)
    /\ UNCHANGED api

\* The app_login after the re-login of a refused refresh: whatever it brings, the
\* refresh has failed (UpdateFailed, or the error itself).
RetryLogin(p) ==
    /\ at[p] = "login to retry" /\ answer[p] # None
    /\ IF answer[p].is = "ok" THEN StoreSid(p) ELSE UNCHANGED api
    /\ Drop(p)

\* device_list, then device_property for each device in turn, of which only a timeout
\* or nothing at all comes through.
ListDevices(p) ==
    /\ \/ Is(p, "devices", "ok") /\ Call(p, "properties", tok, sid) /\ UNCHANGED entry
       \/ Is(p, "devices", "auth") /\ Refused(p)
       \/ Is(p, "devices", "session") /\ Drop(p)
       \/ Failed(p, "devices") /\ Drop(p)
       \/ /\ at[p] = "properties" /\ answer[p].is \notin {"none", "timeout"}
          /\ Call(p, "messages", tok, sid)
          /\ UNCHANGED entry
       \/ Is(p, "properties", "timeout") /\ Drop(p)
    /\ UNCHANGED api

\* message_list fails: the poll mends an expired sid on the spot.
MessagesFail(p) ==
    \/ /\ Is(p, "messages", "session") /\ p = Poll
       /\ Call(p, "login for messages", tok, sid)
       /\ UNCHANGED <<api, entry>>
    \/ Is(p, "messages", "session") /\ p # Poll /\ Drop(p) /\ UNCHANGED api
    \/ Is(p, "messages again", "session") /\ Drop(p) /\ UNCHANGED api
    \/ \E point \in {"messages", "messages again"} :
        \/ Is(p, point, "auth") /\ Refused(p) /\ UNCHANGED api
        \/ Failed(p, point) /\ Drop(p) /\ UNCHANGED api
    \/ /\ LoggedIn(p, "login for messages") /\ StoreSid(p)
       /\ Call(p, "messages again", tok, answer[p].val)
       /\ UNCHANGED entry
    \/ NoSid(p, "login for messages") /\ StoreSid(p) /\ Drop(p)
    \/ Is(p, "login for messages", "auth") /\ Refused(p) /\ UNCHANGED api
    \/ Failed(p, "login for messages") /\ Drop(p) /\ UNCHANGED api

\* The page of events is processed; the first refresh completes the set-up.
MessagesCome(p) ==
    /\ \E point \in {"messages", "messages again"} : Is(p, point, "ok")
    /\ known' = IF known < answer[p].val THEN answer[p].val ELSE known
    /\ status' = "loaded"
    /\ End(p)
    /\ UNCHANGED <<stored, asking, reloads, api>>

GoOn(p) ==
    /\ \/ LoginSucceeds(p)
       \/ LoginFails(p)
       \/ ReloginSucceeds(p)
       \/ ReloginFails(p)
       \/ RetryLogin(p)
       \/ ListDevices(p)
       \/ MessagesFail(p)
    /\ UNCHANGED history

Resume(p) ==
    /\ GoOn(p) \/ MessagesCome(p)
    /\ UNCHANGED <<cloud, pushes>>

-----------------------------------------------------------------------------
(* The entry.                                                              *)

\* Mutated form of NewApi: the entry's tokens are not passed on.
NewApiWithoutTokens == tok' = 0 /\ sid' = 0

NewApi == tok' = stored /\ sid' = 0

\* Unloading cancels the entry's tasks; the set-up starts with a new api object and
\* the stored tokens.
SetUp ==
    /\ status' = "setup"
    /\ asking' = FALSE
    /\ NewApi
    /\ at' = [p \in Tasks |-> "idle"]
    /\ asked' = [p \in Tasks |-> NoHeader]
    /\ answer' = [p \in Tasks |-> None]
    /\ UNCHANGED <<cloud, stored, pushes, history>>

\* Reloads asked for take their turn, each after the set-up before it; a set-up that
\* failed is tried again unless the user has to log in first (a reauth flow that is
\* still open when a reload overtakes it is left out).
Reload ==
    \/ status # "setup" /\ reloads > 0 /\ reloads' = reloads - 1 /\ SetUp
    \/ status = "down" /\ reloads = 0 /\ ~asking /\ UNCHANGED reloads /\ SetUp

\* The reauth flow: log in with the right password, store the tokens, reload.
Reauth ==
    /\ asking
    /\ password' = TRUE
    /\ minted' = minted + 1
    /\ stored' = minted + 1
    /\ asking' = FALSE
    /\ reloads' = reloads + 1
    /\ UNCHANGED <<epoch, news, thefts, faults, status, pushes, history, api, tasks>>

Next ==
    \/ NewEvent
    \/ TakeOver
    \/ ExpireSids
    \/ ChangePassword
    \/ \E p \in Tasks :
        \/ ServeLogin(p)
        \/ ServeQuery(p)
        \/ ServeRelogin(p)
        \/ Fail(p)
        \/ StartPush(p)
        \/ Resume(p)
    \/ StartPoll
    \/ Reload
    \/ Reauth

Fairness ==
    /\ WF_vars(StartPoll)
    /\ WF_vars(Reload)
    /\ \A p \in Tasks :
        /\ WF_vars(ServeLogin(p))
        /\ WF_vars(ServeQuery(p))
        /\ WF_vars(ServeRelogin(p))
        /\ WF_vars(Resume(p))

Spec == Init /\ [][Next]_vars
FairSpec == Spec /\ Fairness

-----------------------------------------------------------------------------
(* Properties.                                                             *)

\* The user is asked for a password only when the one in the entry is wrong: neither
\* the phone app's log-ins nor lost answers nor tasks refused at the same time do it.
AskedWithCause == asking => ~password

\* Unless a reload is due, the tokens in use are those a restart would start with,
\* although several tasks may log in anew at once.
TokensAreStored == reloads = 0 => stored = tok

Healthy == status = "loaded" /\ reloads = 0 /\ tok = minted /\ sid = epoch

\* An expired sid is kept: device_list, which comes first, is refused each time.
Stuck == status = "loaded" /\ reloads = 0 /\ tok = minted /\ sid \notin {0, epoch}

\* However the account is taken over, calls fail and tasks climb the ladder at the
\* same time: in the end the session is valid, unless the user is being asked for the
\* password, or an expired sid was kept.
SessionHeals == <>[](Healthy \/ asking \/ Stuck)

\* Every event is processed in the end, with the same two exceptions.
EventsAreNoticed ==
    \/ <>[](asking \/ Stuck)
    \/ \A n \in 1..MaxNews : (news >= n) ~> (known >= n)
=============================================================================
