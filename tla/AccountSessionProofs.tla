------------------------- MODULE AccountSessionProofs -------------------------
(***************************************************************************)
(* Proofs about AccountSession for any number of push tasks, events,       *)
(* log-ins elsewhere, expiries and failures.                               *)
(***************************************************************************)
EXTENDS AccountSession, TLAPS

(***************************************************************************)
(* The inductive invariant.  The user is asked by the poll alone, which    *)
(* then rests: so no refusal of an old password is on its way to a task    *)
(* that asks again when the new one is there.  The tokens in use and those *)
(* in the entry are changed together, but for the reauth flow, which asks  *)
(* for a reload.                                                           *)
(***************************************************************************)

\* What an answer brings depends on the call.
AnswersFit ==
    \A p \in Tasks : answer[p].is = "ok" =>
        /\ at[p] \in Logins => answer[p].val \in 0..epoch
        /\ at[p] \in Relogins => answer[p].val \in 1..minted
        /\ at[p] \in Queries => answer[p].val \in 0..news

RefusedWithCause == at[Poll] \in Relogins /\ answer[Poll].is = "auth" => ~password

AskingRests == asking => at[Poll] = "idle"

IInv ==
    /\ TypeOK
    /\ pushes <= news
    /\ AnswersFit
    /\ RefusedWithCause
    /\ AskingRests
    /\ AskedWithCause
    /\ TokensAreStored

USE SourceAssumption

\* The points of a task, apart.
LEMMA PointsApart ==
    /\ Poll \in Tasks
    /\ "idle" \in Points /\ Logins \subseteq Points /\ Relogins \subseteq Points /\ Queries \subseteq Points
    /\ \A x \in Logins : x \notin Relogins \cup Queries \cup {"idle"}
    /\ \A x \in Relogins : x \notin Queries \cup {"idle"}
    /\ "idle" \notin Queries
  BY DEF Tasks, Points, Logins, Relogins, Queries

LEMMA InitInvariant == Init => IInv
  <1> SUFFICES ASSUME Init PROVE IInv
    OBVIOUS
  <1> USE DEF Init
  <1>1. TypeOK
    <2>1. /\ password \in BOOLEAN /\ asking \in BOOLEAN /\ status \in {"setup", "loaded", "down"}
      BY Zenon
    <2>2. /\ minted \in Nat /\ epoch \in Nat /\ news \in 0..MaxNews
          /\ stored \in 1..minted /\ tok \in 1..minted /\ sid \in 0..epoch
          /\ reloads \in Nat /\ pushes \in 0..MaxNews /\ known \in 0..MaxNews
          /\ thefts \in 0..MaxThefts /\ faults \in 0..MaxFaults
      OBVIOUS
    <2>3. at \in [Tasks -> Points] /\ answer \in [Tasks -> Answers \cup {None}]
      BY DEF Points
    <2>4. asked \in [Tasks -> [tok : 0..minted, sid : 0..epoch]]
      BY DEF NoHeader
    <2> QED BY <2>1, <2>2, <2>3, <2>4 DEF TypeOK
  <1>2. AnswersFit /\ RefusedWithCause
    BY PointsApart DEF AnswersFit, RefusedWithCause, None
  <1> QED BY <1>1, <1>2 DEF IInv, AskingRests, AskedWithCause, TokensAreStored

(***************************************************************************)
(* A task that goes on makes a call, or ends, which is as good as one.     *)
(***************************************************************************)

Moves(p) == \E point \in Points, t \in 0..minted, s \in 0..epoch : Call(p, point, t, s)

EntryKept == UNCHANGED <<stored, reloads, asking>> /\ status' \in {"setup", "loaded", "down"}

\* Only the task that moves is changed, and it has no answer then.
LEMMA MovesTyped ==
    ASSUME IInv, NEW p \in Tasks, Moves(p), UNCHANGED <<minted, epoch, news>>
    PROVE  /\ at' \in [Tasks -> Points]
           /\ asked' \in [Tasks -> [tok : 0..minted, sid : 0..epoch]]
           /\ answer' \in [Tasks -> Answers \cup {None}]
           /\ \A q \in Tasks \ {p} : at'[q] = at[q] /\ answer'[q] = answer[q]
           /\ answer'[p].is = "none"
           /\ AnswersFit'
  <1> TypeOK
    BY DEF IInv
  <1>1. PICK point \in Points, t \in 0..minted, s \in 0..epoch : Call(p, point, t, s)
    BY DEF Moves
  <1>2. /\ at' \in [Tasks -> Points]
        /\ asked' \in [Tasks -> [tok : 0..minted, sid : 0..epoch]]
        /\ answer' \in [Tasks -> Answers \cup {None}]
    BY <1>1 DEF Call, TypeOK
  <1>3. /\ \A q \in Tasks \ {p} : at'[q] = at[q] /\ answer'[q] = answer[q]
        /\ answer'[p].is = "none"
    BY <1>1 DEF Call, TypeOK, None
  <1>4. AnswersFit'
    BY <1>3 DEF IInv, AnswersFit
  <1> QED BY <1>2, <1>3, <1>4

LEMMA EndMoves ==
    ASSUME TypeOK, NEW p \in Tasks, End(p)
    PROVE  Moves(p) /\ at'[p] = "idle"
  <1>1. Call(p, "idle", 0, 0)
    BY DEF End, Call, NoHeader
  <1>2. 0 \in 0..minted /\ 0 \in 0..epoch
    BY DEF TypeOK
  <1> QED BY <1>1, <1>2, PointsApart DEF Moves, End, TypeOK

LEMMA CallMoves ==
    ASSUME TypeOK, NEW p \in Tasks, NEW point \in Points, NEW s \in 0..epoch, Call(p, point, tok, s)
    PROVE  Moves(p)
  BY DEF Moves, TypeOK

\* An exception that leaves the task, or sends the poll to log in anew.
LEMMA DropMoves ==
    ASSUME TypeOK, NEW p \in Tasks, Drop(p) \/ Refused(p)
    PROVE  Moves(p) /\ EntryKept
  <1>1. CASE Drop(p)
    BY <1>1, EndMoves DEF Drop, EntryKept, TypeOK
  <1>2. CASE ~Drop(p)
    <2>1. Call(p, "relogin to retry", tok, sid) /\ UNCHANGED entry
      BY <1>2 DEF Refused
    <2> QED BY <2>1, CallMoves DEF TypeOK, Points, Relogins, EntryKept, entry
  <1> QED BY <1>1, <1>2

LEMMA ProceedMoves ==
    ASSUME TypeOK, NEW p \in Tasks, NEW s \in 0..epoch, Proceed(p, s)
    PROVE  Moves(p)
  BY CallMoves DEF Proceed, Points, Queries

LEMMA EnsureMoves ==
    ASSUME TypeOK, NEW p \in Tasks, Ensure(p)
    PROVE  Moves(p)
  <1>1. sid \in 0..epoch
    BY DEF TypeOK
  <1> QED BY <1>1, CallMoves, ProceedMoves DEF Ensure, Points, Logins

(***************************************************************************)
(* Resume, in what it does to the task, the api object and the entry.      *)
(***************************************************************************)

\* What all ways of going on have in common, but for asking.
Goes(p) ==
    /\ Moves(p)
    /\ sid' \in 0..epoch /\ tok' \in 1..minted
    /\ stored' \in 1..minted /\ reloads' \in Nat
    /\ status' \in {"setup", "loaded", "down"}
    /\ UNCHANGED <<tok, stored, reloads>> \/ stored' = tok'

\* The poll asks only when its re-login was refused.
AsksRightly(p) ==
    \/ UNCHANGED asking
    \/ p = Poll /\ at[p] \in Relogins /\ answer[p].is = "auth" /\ asking' = TRUE /\ at'[p] = "idle"

LEMMA QuietGoes ==
    ASSUME TypeOK, NEW p \in Tasks, Moves(p), EntryKept, UNCHANGED tok, sid' \in 0..epoch
    PROVE  Goes(p) /\ AsksRightly(p)
  BY DEF TypeOK, EntryKept, Goes, AsksRightly

LEMMA StoredSid ==
    ASSUME IInv, NEW p \in Tasks, at[p] \in Logins, answer[p].is = "ok", StoreSid(p)
    PROVE  answer[p].val \in 0..epoch /\ sid' \in 0..epoch /\ UNCHANGED tok
  BY DEF IInv, AnswersFit, StoreSid

LEMMA EntryUnchanged ==
    ASSUME TypeOK, UNCHANGED entry
    PROVE  EntryKept
  BY DEF TypeOK, EntryKept, entry

LEMMA GoOnGoes ==
    ASSUME IInv, NEW p \in Tasks, GoOn(p)
    PROVE  Goes(p) /\ AsksRightly(p)
  <1> TypeOK
    BY DEF IInv
  <1> USE DEF Is, LoggedIn, NoSid, Failed
  <1>1. sid \in 0..epoch /\ tok \in 0..minted /\ 0 \in 0..epoch
    BY DEF TypeOK
  <1>2. CASE LoginSucceeds(p)
    <2>1. at[p] \in Logins /\ answer[p].is = "ok"
      BY <1>2 DEF LoginSucceeds, Logins
    <2> QED BY <1>2, <2>1, StoredSid, ProceedMoves, EntryUnchanged, QuietGoes DEF LoginSucceeds
  <1>3. CASE LoginFails(p)
    <2>1. CASE NoSid(p, "login") /\ StoreSid(p) /\ Call(p, "login again", tok, 0) /\ UNCHANGED entry
      <3>1. at[p] \in Logins /\ answer[p].is = "ok" /\ "login again" \in Points
        BY <2>1 DEF Logins, Points
      <3> QED BY <1>1, <2>1, <3>1, StoredSid, CallMoves, EntryUnchanged, QuietGoes
    <2>2. CASE Is(p, "login", "auth") /\ Call(p, "relogin", tok, sid) /\ UNCHANGED <<api, entry>>
      <3>1. "relogin" \in Points
        BY DEF Relogins, Points
      <3> QED BY <1>1, <2>2, <3>1, CallMoves, EntryUnchanged, QuietGoes DEF api
    <2>3. CASE Failed(p, "login") /\ Drop(p) /\ UNCHANGED api
      BY <1>1, <2>3, DropMoves, QuietGoes DEF api
    <2>4. ASSUME NEW point \in {"login again", "login after relogin"},
                 \/ NoSid(p, point) /\ StoreSid(p) /\ Drop(p)
                 \/ Is(p, point, "auth") /\ Refused(p) /\ UNCHANGED api
                 \/ Failed(p, point) /\ Drop(p) /\ UNCHANGED api
          PROVE  Goes(p) /\ AsksRightly(p)
      <3>1. point \in Logins
        BY DEF Logins
      <3> QED BY <1>1, <2>4, <3>1, StoredSid, DropMoves, QuietGoes DEF api
    <2> QED BY <1>3, <2>1, <2>2, <2>3, <2>4 DEF LoginFails
  <1>4. CASE ReloginSucceeds(p)
    <2>1. /\ at[p] \in Relogins /\ answer[p].is = "ok" /\ Persist(answer[p].val)
          /\ tok' = answer[p].val /\ sid' = 0 /\ UNCHANGED <<status, asking>>
          /\ \E point \in {"login after relogin", "login to retry"} : Call(p, point, answer[p].val, 0)
      BY <1>4 DEF ReloginSucceeds
    <2>2. answer[p].val \in 1..minted
      BY <2>1 DEF IInv, AnswersFit
    <2>3. minted \in Nat /\ reloads \in Nat /\ status \in {"setup", "loaded", "down"}
      BY DEF TypeOK
    <2>4. Moves(p)
      <3>1. answer[p].val \in 0..minted
        BY <2>2, <2>3
      <3>2. "login after relogin" \in Points /\ "login to retry" \in Points
        BY DEF Points, Logins
      <3> QED BY <1>1, <2>1, <3>1, <3>2 DEF Moves
    <2>5. stored' = answer[p].val /\ reloads' \in Nat
      <3>1. stored' = answer[p].val
        BY Zenon, <2>1 DEF Persist
      <3>2. reloads' = reloads \/ reloads' = reloads + 1
        BY Zenon, <2>1 DEF Persist
      <3>3. reloads' \in Nat
        BY Z3, <2>3, <3>2
      <3> QED BY Zenon, <3>1, <3>3
    <2> QED BY <1>1, <2>1, <2>2, <2>3, <2>4, <2>5 DEF Goes, AsksRightly
  <1>5. CASE ReloginFails(p)
    <2>1. UNCHANGED api
      BY <1>5 DEF ReloginFails
    <2>2. CASE Drop(p)
      BY <1>1, <2>1, <2>2, DropMoves, QuietGoes DEF api
    <2>3. CASE ~Drop(p)
      <3>1. at[p] \in Relogins /\ answer[p].is = "auth" /\ AskUser(p)
        BY <1>5, <2>3 DEF ReloginFails
      <3>2. /\ p = Poll /\ End(p) /\ asking' = TRUE /\ UNCHANGED <<stored, reloads>>
            /\ status' = IF status = "setup" THEN "down" ELSE status
        BY <2>3, <3>1 DEF AskUser
      <3> QED BY <1>1, <2>1, <3>1, <3>2, EndMoves DEF Goes, AsksRightly, TypeOK, api
    <2> QED BY <2>2, <2>3
  <1>6. CASE RetryLogin(p)
    <2>1. Drop(p) /\ at[p] \in Logins
      BY <1>6 DEF RetryLogin, Logins
    <2>2. CASE answer[p].is = "ok"
      BY <1>6, <2>1, <2>2, StoredSid, DropMoves, QuietGoes DEF RetryLogin
    <2>3. CASE answer[p].is # "ok"
      BY <1>1, <1>6, <2>1, <2>3, DropMoves, QuietGoes DEF RetryLogin, api
    <2> QED BY <2>2, <2>3
  <1>7. CASE ListDevices(p)
    <2>1. UNCHANGED api
      BY <1>7 DEF ListDevices
    <2>2. CASE Drop(p) \/ Refused(p)
      BY <1>1, <2>1, <2>2, DropMoves, QuietGoes DEF api
    <2>3. CASE ~(Drop(p) \/ Refused(p))
      <3>1. PICK point \in {"properties", "messages"} : Call(p, point, tok, sid) /\ UNCHANGED entry
        BY <1>7, <2>3 DEF ListDevices
      <3>2. point \in Points
        BY DEF Points, Queries
      <3> QED BY <1>1, <2>1, <3>1, <3>2, CallMoves, EntryUnchanged, QuietGoes DEF api
    <2> QED BY <2>2, <2>3
  <1>8. CASE MessagesFail(p)
    <2>1. CASE /\ LoggedIn(p, "login for messages") /\ StoreSid(p)
               /\ Call(p, "messages again", tok, answer[p].val) /\ UNCHANGED entry
      <3>1. at[p] \in Logins /\ answer[p].is = "ok" /\ "messages again" \in Points
        BY <2>1 DEF Logins, Points, Queries
      <3> QED BY <2>1, <3>1, StoredSid, CallMoves, EntryUnchanged, QuietGoes
    <2>2. CASE NoSid(p, "login for messages") /\ StoreSid(p) /\ Drop(p)
      <3>1. at[p] \in Logins
        BY <2>2 DEF Logins
      <3> QED BY <2>2, <3>1, StoredSid, DropMoves, QuietGoes
    <2>3. CASE Call(p, "login for messages", tok, sid) /\ UNCHANGED <<api, entry>>
      <3>1. "login for messages" \in Points
        BY DEF Points, Logins
      <3> QED BY <1>1, <2>3, <3>1, CallMoves, EntryUnchanged, QuietGoes DEF api
    <2>4. CASE (Drop(p) \/ Refused(p)) /\ UNCHANGED api
      BY <1>1, <2>4, DropMoves, QuietGoes DEF api
    <2> QED BY <1>8, <2>1, <2>2, <2>3, <2>4 DEF MessagesFail
  <1> QED BY <1>2, <1>3, <1>4, <1>5, <1>6, <1>7, <1>8 DEF GoOn

LEMMA MessagesComeGoes ==
    ASSUME IInv, NEW p \in Tasks, MessagesCome(p)
    PROVE  Goes(p) /\ AsksRightly(p) /\ known' \in 0..MaxNews
  <1> TypeOK
    BY DEF IInv
  <1>1. End(p) /\ status' = "loaded" /\ UNCHANGED <<stored, asking, reloads, api>>
    BY DEF MessagesCome
  <1>2. Goes(p) /\ AsksRightly(p)
    BY <1>1, EndMoves DEF Goes, AsksRightly, TypeOK, api
  <1>3. answer[p].is = "ok" /\ at[p] \in Queries
    BY DEF MessagesCome, Is, Queries
  <1>4. answer[p].val \in 0..news
    BY <1>3 DEF IInv, AnswersFit
  <1>5. known' = known \/ known' = answer[p].val
    BY DEF MessagesCome
  <1> QED BY <1>2, <1>4, <1>5 DEF TypeOK

LEMMA ResumeInvariant ==
    ASSUME IInv, NEW p \in Tasks, Resume(p)
    PROVE  IInv'
  <1> TypeOK
    BY DEF IInv
  <1>1. UNCHANGED <<cloud, pushes>>
    BY DEF Resume
  <1>2. Goes(p) /\ AsksRightly(p) /\ known' \in 0..MaxNews
    BY GoOnGoes, MessagesComeGoes DEF Resume, GoOn, history, TypeOK
  <1>3. /\ at' \in [Tasks -> Points]
        /\ asked' \in [Tasks -> [tok : 0..minted, sid : 0..epoch]]
        /\ answer' \in [Tasks -> Answers \cup {None}]
        /\ \A q \in Tasks \ {p} : at'[q] = at[q] /\ answer'[q] = answer[q]
        /\ answer'[p].is = "none"
        /\ AnswersFit'
    BY <1>1, <1>2, MovesTyped DEF Goes, cloud
  <1>4. asking' \in BOOLEAN
    BY Zenon, <1>2 DEF AsksRightly, TypeOK
  <1>5. TypeOK'
    BY <1>1, <1>2, <1>3, <1>4 DEF TypeOK, Goes, cloud
  <1>6. RefusedWithCause'
    BY <1>1, <1>3, PointsApart DEF IInv, RefusedWithCause, cloud
  <1>7. AskingRests' /\ AskedWithCause'
    <2>1. CASE UNCHANGED asking
      <3>1. asking => p # Poll
        BY <1>2, PointsApart DEF IInv, AskingRests, Resume, GoOn, MessagesCome, LoginSucceeds, LoginFails,
              ReloginSucceeds, ReloginFails, RetryLogin, ListDevices, MessagesFail, Is, LoggedIn, NoSid,
              Failed, Relogins
      <3> QED BY <1>1, <1>3, <2>1, <3>1, PointsApart DEF IInv, AskingRests, AskedWithCause, cloud
    <2>2. CASE ~UNCHANGED asking
      BY <1>1, <1>2, <2>2 DEF AsksRightly, IInv, RefusedWithCause, AskingRests, AskedWithCause, cloud
    <2> QED BY <2>1, <2>2
  <1>8. TokensAreStored'
    BY <1>2 DEF Goes, IInv, TokensAreStored
  <1> QED BY <1>1, <1>3, <1>5, <1>6, <1>7, <1>8 DEF IInv, cloud

(***************************************************************************)
(* The other steps.                                                        *)
(***************************************************************************)

LEMMA StartInvariant ==
    ASSUME IInv, StartPoll \/ \E p \in Tasks : StartPush(p)
    PROVE  IInv'
  <1> TypeOK
    BY DEF IInv
  <1>1. PICK p \in Tasks : Ensure(p) /\ (asking => p # Poll)
    BY PointsApart DEF StartPoll, StartPush
  <1>2. UNCHANGED <<cloud, entry, known, api>> /\ pushes' \in 0..pushes
    BY DEF StartPoll, StartPush, history, TypeOK
  <1>3. /\ at' \in [Tasks -> Points]
        /\ asked' \in [Tasks -> [tok : 0..minted, sid : 0..epoch]]
        /\ answer' \in [Tasks -> Answers \cup {None}]
        /\ \A q \in Tasks \ {p} : at'[q] = at[q] /\ answer'[q] = answer[q]
        /\ answer'[p].is = "none"
        /\ AnswersFit'
    BY <1>1, <1>2, EnsureMoves, MovesTyped DEF cloud
  <1>4. TypeOK' /\ pushes' <= news'
    BY <1>2, <1>3 DEF IInv, TypeOK, cloud, entry, api
  <1>5. RefusedWithCause' /\ AskingRests'
    BY <1>1, <1>2, <1>3, PointsApart DEF IInv, RefusedWithCause, AskingRests, cloud, entry
  <1>6. AskedWithCause' /\ TokensAreStored'
    BY <1>2 DEF IInv, AskedWithCause, TokensAreStored, cloud, entry, api
  <1> QED BY <1>3, <1>4, <1>5, <1>6 DEF IInv

\* What the cloud answers fits the call, and it refuses a password only if it is wrong.
LEMMA AnswerInvariant ==
    ASSUME IInv, NEW p \in Tasks, ServeLogin(p) \/ ServeQuery(p) \/ ServeRelogin(p) \/ Fail(p)
    PROVE  IInv'
  <1> TypeOK
    BY DEF IInv
  <1>1. UNCHANGED <<epoch, password, news, thefts, entry, pushes, history, api, at, asked>>
    BY DEF ServeLogin, ServeQuery, ServeRelogin, Fail, cloud
  <1>2. minted' \in {minted, minted + 1} /\ faults' \in 0..MaxFaults
    BY DEF ServeLogin, ServeQuery, ServeRelogin, Fail, cloud, TypeOK
  <1>3. PICK is \in {"ok", "auth", "session", "error", "timeout"}, val \in Nat :
            /\ Answer(p, is, val)
            /\ is = "ok" => /\ at[p] \in Logins => val \in 0..epoch
                            /\ at[p] \in Relogins => val \in 1..minted'
                            /\ at[p] \in Queries => val \in 0..news
            /\ is = "auth" /\ at[p] \in Relogins => ~password
    <2> USE PointsApart DEF TypeOK
    <2>1. CASE ServeLogin(p)
      BY <2>1 DEF ServeLogin
    <2>2. CASE ServeQuery(p)
      BY <2>2 DEF ServeQuery
    <2>3. CASE ServeRelogin(p)
      BY <2>3 DEF ServeRelogin
    <2>4. CASE Fail(p)
      BY <2>4 DEF Fail
    <2> QED BY <2>1, <2>2, <2>3, <2>4
  <1>4. /\ answer' \in [Tasks -> Answers \cup {None}]
        /\ answer'[p] = [is |-> is, val |-> val]
        /\ \A q \in Tasks \ {p} : answer'[q] = answer[q]
    BY <1>3 DEF Answer, Answers, TypeOK
  <1>5. AnswersFit'
    <2>1. ASSUME NEW q \in Tasks \ {p}, answer'[q].is = "ok"
          PROVE  /\ at[q] \in Logins => answer'[q].val \in 0..epoch
                 /\ at[q] \in Relogins => answer'[q].val \in 1..minted'
                 /\ at[q] \in Queries => answer'[q].val \in 0..news
      <3>1. minted \in Nat
        BY DEF TypeOK
      <3> QED BY <1>2, <1>4, <2>1, <3>1 DEF IInv, AnswersFit
    <2> QED BY <1>1, <1>3, <1>4, <2>1 DEF AnswersFit
  <1>6. TypeOK'
    <2>1. minted \in Nat /\ minted' \in Nat /\ minted <= minted'
      BY <1>2 DEF TypeOK
    <2>2. stored \in 1..minted' /\ tok \in 1..minted'
      BY <2>1 DEF TypeOK
    <2>3. asked \in [Tasks -> [tok : 0..minted', sid : 0..epoch]]
      BY <2>1 DEF TypeOK
    <2> QED BY <1>1, <1>2, <1>4, <2>1, <2>2, <2>3 DEF TypeOK, entry, history, api
  <1>7. RefusedWithCause'
    <2>1. CASE p = Poll
      BY <1>1, <1>3, <1>4, <2>1 DEF RefusedWithCause
    <2>2. CASE p # Poll
      BY <1>1, <1>4, <2>2, PointsApart DEF IInv, RefusedWithCause
    <2> QED BY <2>1, <2>2
  <1>8. AskingRests' /\ AskedWithCause' /\ TokensAreStored' /\ pushes' <= news'
    BY <1>1 DEF IInv, AskingRests, AskedWithCause, TokensAreStored, entry, api
  <1> QED BY <1>5, <1>6, <1>7, <1>8 DEF IInv

LEMMA CloudInvariant ==
    ASSUME IInv, NewEvent \/ TakeOver \/ ExpireSids \/ ChangePassword
    PROVE  IInv'
  <1> TypeOK
    BY DEF IInv
  <1>1. UNCHANGED <<entry, history, api, tasks, faults>>
    BY DEF NewEvent, TakeOver, ExpireSids, ChangePassword
  <1>2. /\ minted' \in {minted, minted + 1} /\ epoch' \in {epoch, epoch + 1}
        /\ news' \in 0..MaxNews /\ news <= news'
        /\ pushes' \in 0..MaxNews /\ pushes' <= news'
        /\ thefts' \in 0..MaxThefts
    BY DEF NewEvent, TakeOver, ExpireSids, ChangePassword, IInv, TypeOK
  <1>3. password' \in BOOLEAN /\ (password' => password)
    <2>1. password' = password \/ password' = FALSE
      BY DEF NewEvent, TakeOver, ExpireSids, ChangePassword
    <2>2. password \in BOOLEAN
      BY DEF TypeOK
    <2>3. CASE password' = password
      BY Zenon, <2>2, <2>3
    <2>4. CASE password' = FALSE
      BY Zenon, <2>4
    <2> QED BY <2>1, <2>3, <2>4
  <1>4. minted \in Nat /\ epoch \in Nat /\ minted' \in Nat /\ epoch' \in Nat
        /\ minted <= minted' /\ epoch <= epoch' /\ news \in Nat /\ news' \in Nat
    BY <1>2 DEF TypeOK
  <1>5. TypeOK'
    <2>1. stored \in 1..minted' /\ tok \in 1..minted' /\ sid \in 0..epoch'
      BY <1>4 DEF TypeOK
    <2>2. asked \in [Tasks -> [tok : 0..minted', sid : 0..epoch']]
      BY <1>4 DEF TypeOK
    <2> QED BY <1>1, <1>2, <1>3, <1>4, <2>1, <2>2 DEF TypeOK, entry, history, api, tasks
  <1>6. AnswersFit'
    <2>1. ASSUME NEW q \in Tasks, answer[q].is = "ok"
          PROVE  /\ at[q] \in Logins => answer[q].val \in 0..epoch'
                 /\ at[q] \in Relogins => answer[q].val \in 1..minted'
                 /\ at[q] \in Queries => answer[q].val \in 0..news'
      BY <1>2, <1>4, <2>1 DEF IInv, AnswersFit
    <2> QED BY <1>1, <2>1 DEF AnswersFit, tasks
  <1>7. RefusedWithCause' /\ AskingRests' /\ AskedWithCause' /\ TokensAreStored'
    BY <1>1, <1>3 DEF IInv, RefusedWithCause, AskingRests, AskedWithCause, TokensAreStored, entry, api,
                      tasks
  <1> QED BY <1>2, <1>5, <1>6, <1>7 DEF IInv

LEMMA ReloadInvariant ==
    ASSUME IInv, Reload
    PROVE  IInv'
  <1> TypeOK
    BY DEF IInv
  <1>1. SetUp /\ reloads' \in Nat
    BY DEF Reload, TypeOK
  <1>2. /\ status' = "setup" /\ asking' = FALSE /\ tok' = stored /\ sid' = 0
        /\ at' = [p \in Tasks |-> "idle"]
        /\ asked' = [p \in Tasks |-> NoHeader]
        /\ answer' = [p \in Tasks |-> None]
        /\ UNCHANGED <<cloud, stored, pushes, known>>
    BY <1>1 DEF SetUp, NewApi, history
  <1>3. TypeOK'
    <2>1. at' \in [Tasks -> Points] /\ answer' \in [Tasks -> Answers \cup {None}]
      BY <1>2, PointsApart
    <2>2. asked' \in [Tasks -> [tok : 0..minted, sid : 0..epoch]]
      BY <1>2 DEF NoHeader, TypeOK
    <2>3. password' \in BOOLEAN /\ asking' \in BOOLEAN
      BY Zenon, <1>2 DEF TypeOK, cloud
    <2>4. tok' \in 1..minted' /\ sid' \in 0..epoch' /\ stored' \in 1..minted'
      BY <1>2 DEF TypeOK, cloud
    <2>5. status' \in {"setup", "loaded", "down"}
      BY <1>2
    <2>6. /\ minted' \in Nat /\ epoch' \in Nat /\ news' \in 0..MaxNews
          /\ pushes' \in 0..MaxNews /\ known' \in 0..MaxNews
          /\ thefts' \in 0..MaxThefts /\ faults' \in 0..MaxFaults
      BY <1>2 DEF TypeOK, cloud
    <2>7. UNCHANGED <<minted, epoch>>
      BY <1>2 DEF cloud
    <2> QED BY <1>1, <2>1, <2>2, <2>3, <2>4, <2>5, <2>6, <2>7 DEF TypeOK
  <1>4. AnswersFit' /\ RefusedWithCause'
    BY <1>2, PointsApart DEF AnswersFit, RefusedWithCause, None
  <1>5. AskingRests' /\ AskedWithCause' /\ TokensAreStored' /\ pushes' <= news'
    BY <1>2 DEF IInv, AskingRests, AskedWithCause, TokensAreStored, cloud
  <1> QED BY <1>3, <1>4, <1>5 DEF IInv

\* The poll rests while the user is asked, so no refusal outlives the new password there.
LEMMA ReauthInvariant ==
    ASSUME IInv, Reauth
    PROVE  IInv'
  <1> TypeOK
    BY DEF IInv
  <1>1. /\ asking /\ password' = TRUE /\ minted' = minted + 1 /\ stored' = minted + 1
        /\ asking' = FALSE /\ reloads' = reloads + 1
        /\ UNCHANGED <<epoch, news, thefts, faults, status, pushes, known, api, tasks>>
    BY DEF Reauth, history
  <1>2. minted \in Nat
    BY DEF TypeOK
  <1>3. TypeOK'
    <2>1. stored' \in 1..minted' /\ tok \in 1..minted'
      BY <1>1, <1>2 DEF TypeOK
    <2>2. asked \in [Tasks -> [tok : 0..minted', sid : 0..epoch]]
      BY <1>1, <1>2 DEF TypeOK
    <2>3. password' \in BOOLEAN /\ asking' \in BOOLEAN
      BY Zenon, <1>1
    <2>4. UNCHANGED <<epoch, news, thefts, faults, status, pushes, known, tok, sid, at, asked, answer>>
      BY <1>1 DEF api, tasks
    <2>5. minted' \in Nat /\ reloads' \in Nat
      BY <1>1, <1>2 DEF TypeOK
    <2> QED BY <2>1, <2>2, <2>3, <2>4, <2>5 DEF TypeOK
  <1>4. AnswersFit'
    BY <1>1, <1>2 DEF IInv, AnswersFit, tasks
  <1>5. RefusedWithCause'
    BY <1>1, PointsApart DEF IInv, AskingRests, RefusedWithCause, tasks
  <1>6. TokensAreStored'
    BY <1>1 DEF TokensAreStored, TypeOK
  <1>7. AskingRests' /\ AskedWithCause' /\ pushes' <= news'
    BY <1>1 DEF IInv, AskingRests, AskedWithCause
  <1> QED BY <1>3, <1>4, <1>5, <1>6, <1>7 DEF IInv

LEMMA NextInvariant ==
    ASSUME IInv, [Next]_vars
    PROVE  IInv'
  <1>1. CASE UNCHANGED vars
    <2>1. TypeOK' /\ AnswersFit'
      BY <1>1 DEF IInv, vars, cloud, entry, history, api, tasks, TypeOK, AnswersFit
    <2>2. RefusedWithCause' /\ AskingRests' /\ AskedWithCause' /\ TokensAreStored' /\ pushes' <= news'
      BY <1>1 DEF IInv, vars, cloud, entry, history, api, tasks, RefusedWithCause, AskingRests,
                  AskedWithCause, TokensAreStored
    <2> QED BY <2>1, <2>2 DEF IInv
  <1>2. CASE Next
    BY <1>2, CloudInvariant, AnswerInvariant, StartInvariant, ResumeInvariant, ReloadInvariant,
       ReauthInvariant DEF Next
  <1> QED BY <1>1, <1>2

\* The invariant holds in every state: each step of the tasks, the cloud and the entry
\* preserves it.
THEOREM Invariance == Spec => []IInv
  BY InitInvariant, NextInvariant, PTL DEF Spec

(***************************************************************************)
(* The theorems.                                                           *)
(***************************************************************************)

\* Tokens, session ids and answers are always ones the cloud has given out (api.py).
THEOREM AccountTyped == Spec => []TypeOK
  BY Invariance, PTL DEF IInv

\* The user is asked for a password only while the one in the entry is wrong
\* (_async_update_data's ConfigEntryAuthFailed).
THEOREM AskedRightly == Spec => []AskedWithCause
  BY Invariance, PTL DEF IInv

\* Unless a reload is due, the tokens in use are those in the entry (_full_relogin).
THEOREM TokensPersist == Spec => []TokensAreStored
  BY Invariance, PTL DEF IInv
=============================================================================
