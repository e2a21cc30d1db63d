------------------------------ MODULE EventFeed ------------------------------
(***************************************************************************)
(* The coordinator's event feed: BotslabCoordinator._process_poll_events,  *)
(* dispatch_event and the snapshot cache                                   *)
(* (custom_components/botslab/coordinator.py).                             *)
(*                                                                         *)
(* The cloud lists an account's events newest first, one page at a time.   *)
(* The poll and the tasks that pushes start ask for pages of different     *)
(* sizes; the answers come back in any order.  The coordinator tells new   *)
(* events from those it has seen by a dict of ids with room for SeenMax,   *)
(* and keeps for each device the picture of its newest event, downloaded   *)
(* by tasks that also end in any order.                                    *)
(*                                                                         *)
(* An event is its position in the order of creation.  How a page is       *)
(* fetched (sessions, tokens, retries) is module AccountSession.           *)
(***************************************************************************)
EXTENDS Integers, FiniteSets

CONSTANTS
    N,         \* events the account ever has (bounds the model)
    Device,    \* [Events -> devices]
    Ctime,     \* [Events -> Nat]: the event's own clock, which decides about pictures
    Pictured,  \* the events with an image_url
    Mapped,    \* those with an ha_event on a device that _sn_filter lets through
    SeenMax,   \* _SEEN_MAX: ids remembered
    PollPage,  \* page_size of the poll
    PushPage,  \* page_size after a push
    Lag        \* events that can be created while a request is under way

Events == 1..N
Devices == {Device[e] : e \in Events}

\* The events reached back for at most, when the page asked for is Lag events old.
Reach == Lag + PollPage

ASSUME SourceAssumption ==
    /\ N \in Nat /\ Lag \in Nat
    /\ DOMAIN Device = Events
    /\ Ctime \in [Events -> Nat]
    /\ Pictured \subseteq Events /\ Mapped \subseteq Events
    /\ PollPage \in Nat \ {0} /\ PushPage \in 1..PollPage-1
    /\ SeenMax \in Nat

\* The dict has room for every event a page can bring back late: 512 against
\* pages of twenty.
ASSUME RoomAssumption == SeenMax >= 2 * Reach - 1

VARIABLES
    created,   \* the account's events so far are 1..created
    pages,     \* the pages fetched and not yet handed to _process_poll_events
    page,      \* the page it is processing, NoPage when it is not
    next,      \* the next event of that page, oldest first
    primed,    \* _primed
    order,     \* [Events -> Nat]: when an id was put into _seen, 0 if it never was
    puts,      \* ids put into _seen so far
    base,      \* history: the newest event of the page that primed
    sent,      \* history: how often an event was dispatched
    want,      \* _snapshot_ctime, 0 where the dict has no entry
    shown,     \* the ctime of the picture in snapshot_bytes, 0 without one
    loads,     \* the events whose picture is being downloaded
    failed     \* history: the events whose download failed

feedVars == <<created, pages>>
pageVars == <<page, next, primed, base>>
seenVars == <<order, puts, sent>>
snapVars == <<want, shown, loads, failed>>
vars == <<feedVars, pageVars, seenVars, snapVars>>

Sizes == {PollPage, PushPage}
Pages == [top : 0..N, size : Sizes]
NoPage == [top |-> 0, size |-> 0]

TypeOK ==
    /\ created \in 0..N
    /\ pages \in SUBSET Pages
    /\ page \in Pages \cup {NoPage}
    /\ next \in 1..N+1
    /\ primed \in BOOLEAN
    /\ base \in 0..N
    /\ order \in [Events -> Nat]
    /\ puts \in Nat
    /\ sent \in [Events -> Nat]
    /\ want \in [Devices -> Nat]
    /\ shown \in [Devices -> Nat]
    /\ loads \in SUBSET Events
    /\ failed \in SUBSET Events

Init ==
    /\ created = 0
    /\ pages = {}
    /\ page = NoPage
    /\ next = 1
    /\ primed = FALSE
    /\ base = 0
    /\ order = [e \in Events |-> 0]
    /\ puts = 0
    /\ sent = [e \in Events |-> 0]
    /\ want = [d \in Devices |-> 0]
    /\ shown = [d \in Devices |-> 0]
    /\ loads = {}
    /\ failed = {}

\* _process_poll_events has no await: nothing comes between its steps.
Idle == page = NoPage

-----------------------------------------------------------------------------
(* The cloud.                                                              *)

\* The doorbell rings or sees someone; no page under way gets older than Lag.
CreateEvent ==
    /\ Idle /\ created < N
    /\ \A pg \in pages : created - pg.top < Lag
    /\ created' = created + 1
    /\ UNCHANGED <<pages, pageVars, seenVars, snapVars>>

\* message_list is answered, for the poll (one at a time) or for a push; pushes
\* are only listened to after the first refresh.
AnswerPage ==
    /\ Idle
    /\ \E size \in Sizes :
        /\ size = PollPage => \A pg \in pages : pg.size # PollPage
        /\ size = PushPage => primed
        /\ pages' = pages \cup {[top |-> created, size |-> size]}
    /\ UNCHANGED <<created, pageVars, seenVars, snapVars>>

\* The answer does not arrive.
LosePage ==
    /\ Idle
    /\ \E pg \in pages : pages' = pages \ {pg}
    /\ UNCHANGED <<created, pageVars, seenVars, snapVars>>

-----------------------------------------------------------------------------
(* _process_poll_events.                                                   *)

\* The oldest event of a page, and its events.
Oldest(pg) == IF pg.top < pg.size THEN 1 ELSE pg.top - pg.size + 1
EventsOf(pg) == Oldest(pg)..pg.top

BeginPage ==
    /\ Idle
    /\ \E pg \in pages :
        /\ pages' = pages \ {pg}
        /\ page' = pg
        /\ next' = Oldest(pg)
    /\ UNCHANGED <<created, primed, base, seenVars, snapVars>>

\* Mutated form of Seen: an id goes out one insertion early.
SeenShort(e) == order[e] > 0 /\ order[e] > puts - SeenMax + 1

\* An id is remembered until SeenMax others have been put in after it.
Seen(e) == order[e] > 0 /\ order[e] > puts - SeenMax

\* _maybe_cache_snapshot's condition.
Newer(e) == e \in Pictured /\ Ctime[e] > want[Device[e]]

\* _maybe_cache_snapshot.
MaybeCache(e) ==
    IF Newer(e)
    THEN /\ want' = [want EXCEPT ![Device[e]] = Ctime[e]]
         /\ loads' = loads \cup {e}
         /\ UNCHANGED <<shown, failed>>
    ELSE UNCHANGED snapVars

\* Mutated form of Announces: the first page is announced like any other.
AnnouncesPriming(e) == e \in Mapped

\* An event that is passed on: not while priming.
Announces(e) == primed /\ e \in Mapped

\* dispatch_event, for the next event of the page.
DispatchEvent ==
    /\ ~Idle /\ next <= page.top
    /\ next' = next + 1
    /\ IF Seen(next)
       THEN UNCHANGED <<seenVars, snapVars>>
       ELSE /\ order' = [order EXCEPT ![next] = puts + 1]
            /\ puts' = puts + 1
            /\ IF Announces(next)
               THEN /\ sent' = [sent EXCEPT ![next] = @ + 1]
                    /\ MaybeCache(next)
               ELSE UNCHANGED <<sent, snapVars>>
    /\ UNCHANGED <<feedVars, page, primed, base>>

IsNewestPicture(e, pg) ==
    /\ e \in EventsOf(pg) \cap Pictured
    /\ \A f \in EventsOf(pg) \cap Pictured : f <= e

\* The end of _process_poll_events; the first time, it asks for the newest picture.
FinishPage ==
    /\ ~Idle /\ next > page.top
    /\ page' = NoPage
    /\ next' = 1
    /\ primed' = TRUE
    /\ base' = IF primed THEN base ELSE page.top
    /\ \/ /\ primed \/ EventsOf(page) \cap Pictured = {}
          /\ UNCHANGED snapVars
       \/ /\ ~primed
          /\ \E e \in EventsOf(page) : IsNewestPicture(e, page) /\ MaybeCache(e)
    /\ UNCHANGED <<feedVars, seenVars>>

-----------------------------------------------------------------------------
(* _cache_snapshot, after the download.                                    *)

\* Mutated form of StillNewest: no look at what was asked for since.
StillNewestAlways(e) == TRUE

\* Mutated form of StillNewest: strictly newer than what was asked for.
StillNewestStrict(e) == Ctime[e] > want[Device[e]]

StillNewest(e) == Ctime[e] >= want[Device[e]]

FinishLoad ==
    /\ Idle
    /\ \E e \in loads :
        /\ loads' = loads \ {e}
        /\ shown' = IF StillNewest(e) THEN [shown EXCEPT ![Device[e]] = Ctime[e]] ELSE shown
    /\ UNCHANGED <<feedVars, pageVars, seenVars, want, failed>>

FailLoad ==
    /\ Idle
    /\ \E e \in loads : loads' = loads \ {e} /\ failed' = failed \cup {e}
    /\ UNCHANGED <<feedVars, pageVars, seenVars, want, shown>>

-----------------------------------------------------------------------------
(* The entry is reloaded (or Home Assistant restarts, or the set-up is     *)
(* tried again): the entry's tasks are cancelled, a new coordinator starts *)
(* with nothing.                                                           *)
Reload ==
    /\ Idle
    /\ pages' = {}
    /\ primed' = FALSE
    /\ base' = 0
    /\ order' = [e \in Events |-> 0]
    /\ puts' = 0
    /\ want' = [d \in Devices |-> 0]
    /\ shown' = [d \in Devices |-> 0]
    /\ loads' = {}
    /\ failed' = {}
    /\ UNCHANGED <<created, page, next, sent>>

Next ==
    \/ CreateEvent
    \/ AnswerPage
    \/ LosePage
    \/ BeginPage
    \/ DispatchEvent
    \/ FinishPage
    \/ FinishLoad
    \/ FailLoad
    \/ Reload

Spec == Init /\ [][Next]_vars

-----------------------------------------------------------------------------
(* Properties.                                                             *)

\* However pages overlap, arrive late or out of order, and although ids are
\* forgotten, an event is dispatched at most once, over reloads too; and one that
\* is new since the set-up, mapped and taken note of has been dispatched.
ExactlyOnce ==
    \A e \in Events :
        /\ sent[e] <= 1
        /\ primed /\ order[e] > 0 /\ e > base /\ e \in Mapped => sent[e] = 1

\* Nothing that was there when the integration was set up is ever announced as new.
OnlyNew ==
    [][\A e \in Events : sent'[e] > sent[e] => primed /\ e > base]_vars

\* The picture shown for a device never goes back to an older event, in whatever
\* order the downloads end (a reload starts anew).
PictureNeverGoesBack ==
    [][primed' => \A d \in Devices : shown'[d] >= shown[d]]_vars

\* Once an event with a picture is announced, that picture or a newer one of the
\* device is shown, or on its way, or could not be downloaded.
PictureFollows ==
    \A e \in Pictured \cap Mapped :
        primed /\ order[e] > 0 /\ e > base =>
            \/ shown[Device[e]] >= Ctime[e]
            \/ \E f \in loads \cup failed : Device[f] = Device[e] /\ Ctime[f] >= Ctime[e]

-----------------------------------------------------------------------------
(* The inductive invariant behind them.                                    *)

\* No page is further behind the account than Lag; before the priming page is
\* processed there is no other.
PagesAreRecent ==
    /\ \A pg \in pages \cup {page} : pg # NoPage =>
        /\ pg.top <= created /\ created - pg.top <= Lag
        /\ primed => base <= pg.top
        /\ ~primed => pg.size = PollPage /\ \A e \in Events : sent[e] > 0 => e <= pg.top
    /\ \A p, q \in pages : p.size = PollPage /\ q.size = PollPage => p = q
    /\ ~primed /\ ~Idle => pages = {}

\* What of the page has been processed has been taken note of.
PageProgress ==
    /\ ~Idle => next \in Oldest(page)..page.top + 1
    /\ ~Idle => \A e \in Oldest(page)..next - 1 : order[e] > 0
    /\ ~primed => \A e \in Events : order[e] > 0 => ~Idle /\ e < next
    /\ primed => base <= created
    /\ primed => \A e \in EventsOf([top |-> base, size |-> PollPage]) : order[e] > 0

\* The ids are put in one after the other, and never one far older than an earlier one.
OrderIsInsertion ==
    /\ \A e \in Events : order[e] > 0 => e <= created /\ order[e] <= puts
    /\ \A i \in 1..puts : \E e \in Events : order[e] = i
    /\ \A e, f \in Events : order[e] > 0 /\ order[e] = order[f] => e = f
    /\ \A e, f \in Events : 0 < order[e] /\ order[e] < order[f] => e - f < Reach

SentIsNoted ==
    \A e \in Events : sent[e] > 0 =>
        /\ e <= created
        /\ primed => e <= base \/ order[e] > 0

\* The newest picture asked for is shown, or under way, or failed.
PicturesAreAsked ==
    /\ \A d \in Devices :
        /\ shown[d] <= want[d]
        /\ \/ shown[d] = want[d]
           \/ \E f \in loads \cup failed : Device[f] = d /\ Ctime[f] = want[d]
    /\ \A f \in loads : Ctime[f] <= want[Device[f]]
    /\ \A e \in Pictured \cap Mapped :
        primed /\ order[e] > 0 /\ e > base => Ctime[e] <= want[Device[e]]

IInv ==
    /\ TypeOK
    /\ PagesAreRecent
    /\ PageProgress
    /\ OrderIsInsertion
    /\ SentIsNoted
    /\ ExactlyOnce
    /\ PicturesAreAsked

=============================================================================
