--------------------------- MODULE EventFeedProofs ---------------------------
(***************************************************************************)
(* Proofs about EventFeed for every number of events, every assignment of  *)
(* devices, clocks and pictures, every page size and delay, as long as the *)
(* dict of ids has the room of RoomAssumption.                             *)
(***************************************************************************)
EXTENDS EventFeed, FiniteSetTheorems, TLAPS

(***************************************************************************)
(* Facts about the definitions.                                            *)
(***************************************************************************)

\* What the assumptions say of the constants, in one place.
LEMMA Constants ==
    /\ N \in Nat /\ Lag \in Nat /\ PollPage \in Nat /\ PollPage > 0
    /\ PushPage \in Nat /\ PushPage > 0 /\ PushPage < PollPage
    /\ SeenMax \in Nat /\ Reach \in Nat /\ Reach > 0 /\ Reach = Lag + PollPage
    /\ SeenMax >= 2 * Reach - 1
    /\ Events \subseteq Nat \ {0}
    /\ \A e \in Events : Device[e] \in Devices /\ Ctime[e] \in Nat
  <1>1. /\ N \in Nat /\ Lag \in Nat /\ PollPage \in Nat /\ PollPage > 0
        /\ PushPage \in Nat /\ PushPage > 0 /\ PushPage < PollPage /\ SeenMax \in Nat
    BY SourceAssumption
  <1>2. \A e \in Events : Device[e] \in Devices
    BY DEF Devices
  <1>3. \A e \in Events : Ctime[e] \in Nat
    BY SourceAssumption
  <1>4. Events \subseteq Nat \ {0}
    BY <1>1 DEF Events
  <1> QED BY <1>1, <1>2, <1>3, <1>4, RoomAssumption DEF Reach

\* A page is a page: the sentinel is not one.
LEMMA PagesAreNotNoPage ==
    ASSUME NEW pg \in Pages
    PROVE  /\ pg # NoPage
           /\ pg.top \in 0..N /\ pg.size \in Nat /\ pg.size > 0 /\ pg.size <= PollPage
           /\ pg.size = PollPage \/ pg.size = PushPage
  <1>1. pg.size = PollPage \/ pg.size = PushPage
    BY DEF Pages, Sizes
  <1>2. NoPage.size = 0
    BY DEF NoPage
  <1> QED BY <1>1, <1>2, Constants DEF Pages

\* The oldest event of a page.
LEMMA OldestOfPage ==
    ASSUME NEW pg, pg.top \in 0..N, pg.size \in Nat, pg.size > 0
    PROVE  /\ Oldest(pg) \in 1..N+1
           /\ Oldest(pg) <= pg.top + 1
           /\ pg.top - pg.size < Oldest(pg)
           /\ pg.top >= pg.size => Oldest(pg) = pg.top - pg.size + 1
           /\ pg.top < pg.size => Oldest(pg) = 1
  <1>1. CASE pg.top < pg.size BY <1>1, Constants DEF Oldest
  <1>2. CASE ~(pg.top < pg.size) BY <1>2, Constants DEF Oldest
  <1> QED BY <1>1, <1>2

\* An id that a page can still bring back is remembered: all the ids put in after
\* it, and itself, lie in an interval that is shorter than the dict's room.
LEMMA Remembered ==
    ASSUME TypeOK, OrderIsInsertion, NEW e \in Events, order[e] > 0, created - e < Reach
    PROVE  Seen(e)
  <1> DEFINE S == order[e]..puts
             T == (e - Reach + 1)..(e + Reach - 1)
             g == [j \in S |-> CHOOSE f \in Events : order[f] = j]
  <1> SUFFICES ASSUME order[e] <= puts - SeenMax PROVE FALSE
    <2>1. order[e] \in Nat /\ puts \in Nat BY DEF TypeOK
    <2> QED BY <2>1, Constants DEF Seen
  <1>1. /\ order[e] \in Nat /\ puts \in Nat /\ created \in Int /\ e \in Int
        /\ Reach \in Nat /\ Reach > 0 /\ SeenMax \in Nat /\ SeenMax >= 2 * Reach - 1
    BY Constants DEF TypeOK
  <1>2. IsFiniteSet(S) /\ Cardinality(S) = puts - order[e] + 1
    <2>1. order[e] \in Int /\ puts \in Int /\ ~(order[e] > puts) BY <1>1
    <2> QED BY <2>1, FS_Interval
  <1>3. IsFiniteSet(T) /\ Cardinality(T) = 2 * Reach - 1
    <2>1. /\ e - Reach + 1 \in Int /\ e + Reach - 1 \in Int
          /\ ~(e - Reach + 1 > e + Reach - 1)
          /\ (e + Reach - 1) - (e - Reach + 1) + 1 = 2 * Reach - 1
      BY <1>1
    <2> QED BY <2>1, FS_Interval
  <1>4. \A j \in S : g[j] \in Events /\ order[g[j]] = j
    <2> SUFFICES ASSUME NEW j \in S PROVE g[j] \in Events /\ order[g[j]] = j
      OBVIOUS
    <2>1. j \in 1..puts BY <1>1
    <2>2. \E f \in Events : order[f] = j BY <2>1 DEF OrderIsInsertion
    <2> QED BY <2>2
  <1>5. \A j \in S : g[j] \in T
    <2> HIDE DEF g
    <2> SUFFICES ASSUME NEW j \in S PROVE g[j] \in T
      OBVIOUS
    <2>1. g[j] \in Events /\ order[g[j]] = j BY <1>4
    <2>2. g[j] \in Nat /\ j \in Int /\ j >= order[e] /\ j > 0
      <3>1. g[j] \in Nat BY <2>1, Constants
      <3>2. j \in Int /\ j >= order[e] BY <1>1
      <3> QED BY <3>1, <3>2, <1>1
    <2>3. g[j] <= created BY <2>1, <2>2, <1>1 DEF OrderIsInsertion
    <2>4. CASE j = order[e]
      <3>1. g[j] = e BY <2>1, <2>2, <2>4 DEF OrderIsInsertion
      <3> QED BY <3>1, <1>1
    <2>5. CASE j > order[e]
      <3>1. e - g[j] < Reach BY <2>1, <2>5 DEF OrderIsInsertion
      <3> QED BY <3>1, <2>2, <2>3, <1>1
    <2> QED BY <2>2, <2>4, <2>5, <1>1
  <1>6. g \in [S -> T]
    BY <1>5
  <1>7. Cardinality(T) < Cardinality(S)
    BY <1>1, <1>2, <1>3
  <1>8. \E x, y \in S : x # y /\ g[x] = g[y]
    <2> HIDE DEF S, T, g
    <2> QED BY <1>2, <1>3, <1>6, <1>7, FS_PigeonHole
  <1> QED BY <1>4, <1>8

\* The page being processed: what it can still bring back is remembered.
LEMMA PageIsRecent ==
    ASSUME TypeOK, PagesAreRecent, PageProgress, ~Idle, next <= page.top
    PROVE  /\ page \in Pages /\ next \in Events /\ next <= created
           /\ created - next < Reach
           /\ primed => base < next \/ order[next] > 0
  <1>1. page \in Pages /\ page # NoPage
    BY DEF TypeOK, Idle
  <1>2. page.top \in 0..N /\ page.size \in Nat /\ page.size > 0 /\ page.size <= PollPage
    BY <1>1, PagesAreNotNoPage
  <1>3. page.top <= created /\ created - page.top <= Lag /\ (primed => base <= page.top)
    BY <1>1 DEF PagesAreRecent
  <1>4. next \in Oldest(page)..page.top + 1
    BY DEF PageProgress
  <1>5. Oldest(page) \in 1..N+1 /\ page.top - page.size < Oldest(page)
        /\ (page.top >= page.size => Oldest(page) = page.top - page.size + 1)
        /\ (page.top < page.size => Oldest(page) = 1)
    BY <1>2, OldestOfPage
  <1>6. created \in 0..N /\ base \in 0..N
    BY DEF TypeOK
  <1>7. next \in Events
    BY <1>2, <1>4, <1>5, Constants DEF Events
  <1>8. created - next < Reach
    BY <1>2, <1>3, <1>4, <1>5, <1>6, Constants
  <1>9. ASSUME primed, next <= base PROVE order[next] > 0
    <2> DEFINE first == [top |-> base, size |-> PollPage]
    <2>1. first.top \in 0..N /\ first.size \in Nat /\ first.size > 0
          /\ first.top = base /\ first.size = PollPage
      BY <1>6, Constants
    <2>2. /\ Oldest(first) \in 1..N+1
          /\ (base >= PollPage => Oldest(first) = base - PollPage + 1)
          /\ (base < PollPage => Oldest(first) = 1)
      <3> HIDE DEF first
      <3> QED BY <2>1, OldestOfPage
    <2>3. next >= Oldest(first)
      BY <2>2, <1>2, <1>3, <1>4, <1>5, <1>6, <1>9, Constants
    <2>4. next \in EventsOf(first)
      <3>1. next \in Int /\ Oldest(first) \in Int BY <1>7, <2>2, Constants
      <3> QED BY <2>1, <2>3, <3>1, <1>6, <1>9 DEF EventsOf
    <2> QED BY <2>4, <1>9 DEF PageProgress
  <1> QED BY <1>1, <1>2, <1>3, <1>4, <1>6, <1>7, <1>8, <1>9, Constants

\* An event that dispatch_event does not find among the ids is one it never put
\* there, nor dispatched, nor had at the set-up.
LEMMA UnseenIsNew ==
    ASSUME IInv, ~Idle, next <= page.top, ~Seen(next)
    PROVE  /\ next \in Events /\ order[next] = 0
           /\ primed => base < next /\ sent[next] = 0
  <1>0. TypeOK /\ PagesAreRecent /\ PageProgress /\ OrderIsInsertion /\ SentIsNoted
    BY DEF IInv
  <1>1. /\ next \in Events /\ created - next < Reach
        /\ primed => base < next \/ order[next] > 0
    BY <1>0, PageIsRecent
  <1>2. order[next] \in Nat /\ sent[next] \in Nat /\ base \in Nat /\ next \in Nat
    BY <1>0, <1>1, Constants DEF TypeOK
  <1>3. ~(order[next] > 0)
    BY <1>0, <1>1, Remembered
  <1>4. primed => base < next
    BY <1>1, <1>3
  <1>5. primed => ~(sent[next] > 0)
    BY <1>0, <1>1, <1>2, <1>3, <1>4 DEF SentIsNoted
  <1> QED BY <1>1, <1>2, <1>3, <1>4, <1>5

(***************************************************************************)
(* What the steps do, in the form the proofs use.                          *)
(***************************************************************************)

\* dispatch_event either knows the event or puts a new one in.
LEMMA DispatchEffect ==
    ASSUME IInv, DispatchEvent
    PROVE  /\ ~Idle /\ next <= page.top /\ next' = next + 1
           /\ created' = created /\ pages' = pages /\ page' = page
           /\ primed' = primed /\ base' = base
           /\ \/ /\ Seen(next)
                 /\ order' = order /\ puts' = puts /\ sent' = sent
                 /\ want' = want /\ shown' = shown /\ loads' = loads /\ failed' = failed
              \/ /\ ~Seen(next)
                 /\ order' = [order EXCEPT ![next] = puts + 1] /\ puts' = puts + 1
                 /\ Announces(next) => sent' = [sent EXCEPT ![next] = @ + 1] /\ MaybeCache(next)
                 /\ ~Announces(next) => /\ sent' = sent /\ want' = want /\ shown' = shown
                                        /\ loads' = loads /\ failed' = failed
  <1>1. /\ ~Idle /\ next <= page.top /\ next' = next + 1
        /\ created' = created /\ pages' = pages /\ page' = page
        /\ primed' = primed /\ base' = base
    BY DEF DispatchEvent, feedVars
  <1>2. CASE Seen(next)
    BY <1>1, <1>2 DEF DispatchEvent, seenVars, snapVars
  <1>3. CASE ~Seen(next)
    <2>1. CASE Announces(next)
      BY <1>1, <1>3, <2>1 DEF DispatchEvent
    <2>2. CASE ~Announces(next)
      BY <1>1, <1>3, <2>2 DEF DispatchEvent, snapVars
    <2> QED BY <2>1, <2>2
  <1> QED BY <1>2, <1>3

\* _maybe_cache_snapshot.
LEMMA MaybeCacheEffect ==
    ASSUME TypeOK, NEW e \in Events, MaybeCache(e)
    PROVE  /\ shown' = shown /\ failed' = failed
           /\ want' \in [Devices -> Nat] /\ loads' \in SUBSET Events
           /\ loads \subseteq loads'
           /\ \A d \in Devices : want[d] <= want'[d]
           /\ \A d \in Devices : want'[d] = want[d] \/ (d = Device[e] /\ want'[d] = Ctime[e] /\ e \in loads')
           /\ e \in Pictured => Ctime[e] <= want'[Device[e]]
  <1>1. Device[e] \in Devices /\ Ctime[e] \in Nat
    BY Constants
  <1>2. want \in [Devices -> Nat] /\ loads \in SUBSET Events
    BY DEF TypeOK
  <1>3. CASE Newer(e)
    <2>1. /\ want' = [want EXCEPT ![Device[e]] = Ctime[e]] /\ loads' = loads \cup {e}
          /\ shown' = shown /\ failed' = failed /\ Ctime[e] > want[Device[e]]
      BY <1>3 DEF MaybeCache, Newer
    <2>2. want' \in [Devices -> Nat] BY <2>1, <1>1, <1>2
    <2>3. \A d \in Devices : want'[d] = IF d = Device[e] THEN Ctime[e] ELSE want[d]
      BY <2>1, <1>2
    <2>4. \A d \in Devices : want[d] \in Nat BY <1>2
    <2>5. \A d \in Devices : want[d] <= want'[d] BY <2>1, <2>3, <2>4, <1>1
    <2>6. Ctime[e] <= want'[Device[e]] BY <2>3, <1>1
    <2>7. \A d \in Devices : want'[d] = want[d] \/ (d = Device[e] /\ want'[d] = Ctime[e] /\ e \in loads')
      BY <2>1, <2>3
    <2>8. loads' \in SUBSET Events /\ loads \subseteq loads'
      BY <2>1, <1>2
    <2> QED BY <2>1, <2>2, <2>5, <2>6, <2>7, <2>8
  <1>4. CASE ~Newer(e)
    <2>1. want' = want /\ loads' = loads /\ shown' = shown /\ failed' = failed
      BY <1>4 DEF MaybeCache, snapVars
    <2>2. \A d \in Devices : want[d] \in Nat BY <1>2
    <2>3. e \in Pictured => Ctime[e] <= want[Device[e]]
      BY <1>1, <1>4, <2>2 DEF Newer
    <2>4. \A d \in Devices : want[d] <= want'[d] BY <2>1, <2>2
    <2>5. want' \in [Devices -> Nat] /\ loads' \in SUBSET Events
      BY <2>1, <1>2
    <2>6. \A d \in Devices : want'[d] = want[d] \/ (d = Device[e] /\ want'[d] = Ctime[e] /\ e \in loads')
      BY <2>1
    <2>7. e \in Pictured => Ctime[e] <= want'[Device[e]]
      BY <2>1, <2>3
    <2> QED BY <2>1, <2>4, <2>5, <2>6, <2>7
  <1> QED BY <1>3, <1>4

\* The end of a page.
LEMMA FinishEffect ==
    ASSUME IInv, FinishPage
    PROVE  /\ ~Idle /\ next > page.top /\ page' = NoPage /\ next' = 1 /\ primed' = TRUE
           /\ base' = IF primed THEN base ELSE page.top
           /\ created' = created /\ pages' = pages
           /\ order' = order /\ puts' = puts /\ sent' = sent
           /\ \/ want' = want /\ shown' = shown /\ loads' = loads /\ failed' = failed
              \/ ~primed /\ \E e \in Events : MaybeCache(e)
  <1>1. /\ ~Idle /\ next > page.top /\ page' = NoPage /\ next' = 1 /\ primed' = TRUE
        /\ base' = IF primed THEN base ELSE page.top
        /\ created' = created /\ pages' = pages
        /\ order' = order /\ puts' = puts /\ sent' = sent
    BY DEF FinishPage, feedVars, seenVars
  <1>2. \/ UNCHANGED snapVars
        \/ ~primed /\ \E e \in EventsOf(page) : IsNewestPicture(e, page) /\ MaybeCache(e)
    BY DEF FinishPage
  <1>3. ASSUME NEW e \in EventsOf(page), IsNewestPicture(e, page) PROVE e \in Events
    BY <1>3, SourceAssumption DEF IsNewestPicture
  <1> QED BY <1>1, <1>2, <1>3 DEF snapVars

(***************************************************************************)
(* The initial state.                                                      *)
(***************************************************************************)
LEMMA InitInv == Init => IInv
  <1> SUFFICES ASSUME Init PROVE IInv
    OBVIOUS
  <1> USE DEF Init
  <1>1. TypeOK
    <2>1. created \in 0..N /\ next \in 1..N+1 /\ base \in 0..N
      BY Constants
    <2>2. /\ order \in [Events -> Nat] /\ sent \in [Events -> Nat]
          /\ want \in [Devices -> Nat] /\ shown \in [Devices -> Nat] /\ puts \in Nat
      OBVIOUS
    <2>3. page \in Pages \cup {NoPage} /\ pages \in SUBSET Pages /\ primed \in BOOLEAN
      OBVIOUS
    <2> QED BY <2>1, <2>2, <2>3 DEF TypeOK
  <1>2. NoPage.size = 0 /\ Idle /\ ~primed
    BY DEF NoPage, Idle
  <1>3. PagesAreRecent
    BY <1>2 DEF PagesAreRecent
  <1>4. PageProgress
    BY <1>2 DEF PageProgress
  <1>5. OrderIsInsertion
    BY DEF OrderIsInsertion
  <1>6. SentIsNoted
    BY DEF SentIsNoted
  <1>7. ExactlyOnce
    BY DEF ExactlyOnce
  <1>8. PicturesAreAsked
    BY DEF PicturesAreAsked
  <1> QED BY <1>1, <1>3, <1>4, <1>5, <1>6, <1>7, <1>8 DEF IInv

(***************************************************************************)
(* Every step preserves every part.                                        *)
(***************************************************************************)
LEMMA TypeStep ==
    ASSUME IInv, [Next]_vars
    PROVE  TypeOK'
  <1> USE DEF TypeOK
  <1>0. TypeOK BY DEF IInv
  <1>1. CASE CreateEvent
    <2>1. created' \in 0..N BY <1>0, <1>1, Constants DEF CreateEvent
    <2> QED BY <1>0, <1>1, <2>1 DEF CreateEvent, pageVars, seenVars, snapVars
  <1>2. CASE AnswerPage
    <2>1. pages' \in SUBSET Pages
      BY <1>0, <1>2 DEF AnswerPage, Pages
    <2> QED BY <1>0, <1>2, <2>1 DEF AnswerPage, pageVars, seenVars, snapVars
  <1>3. CASE LosePage
    BY <1>0, <1>3 DEF LosePage, pageVars, seenVars, snapVars
  <1>4. CASE BeginPage
    <2>1. PICK pg \in pages : pages' = pages \ {pg} /\ page' = pg /\ next' = Oldest(pg)
      BY <1>4 DEF BeginPage
    <2>2. pg \in Pages BY <1>0, <2>1
    <2>3. pg.top \in 0..N /\ pg.size \in Nat /\ pg.size > 0
      BY <2>2, PagesAreNotNoPage
    <2>4. next' \in 1..N+1
      BY <2>1, <2>3, OldestOfPage
    <2> QED BY <1>0, <1>4, <2>1, <2>2, <2>4 DEF BeginPage, seenVars, snapVars
  <1>5. CASE DispatchEvent
    <2>1. ~Idle /\ next <= page.top /\ next' = next + 1 /\ created' = created /\ pages' = pages
          /\ page' = page /\ primed' = primed /\ base' = base
      BY <1>5, DispatchEffect
    <2>2. next \in Events
      BY <1>0, <2>1, PageIsRecent DEF IInv
    <2>3. next' \in 1..N+1
      BY <2>1, <2>2, Constants DEF Events
    <2>4. CASE Seen(next)
      BY <1>0, <1>5, <2>1, <2>3, <2>4, DispatchEffect
    <2>5. CASE ~Seen(next)
      <3>1. order' \in [Events -> Nat] /\ puts' \in Nat
        BY <1>0, <1>5, <2>2, <2>5, DispatchEffect
      <3>2. CASE Announces(next)
        <4>1. sent' \in [Events -> Nat] /\ MaybeCache(next)
          BY <1>0, <1>5, <2>2, <2>5, <3>2, DispatchEffect
        <4>2. want' \in [Devices -> Nat] /\ loads' \in SUBSET Events /\ shown' = shown /\ failed' = failed
          BY <1>0, <2>2, <4>1, MaybeCacheEffect
        <4> QED BY <1>0, <2>1, <2>3, <3>1, <4>1, <4>2
      <3>3. CASE ~Announces(next)
        <4>1. sent' = sent /\ want' = want /\ shown' = shown /\ loads' = loads /\ failed' = failed
          BY <1>5, <2>5, <3>3, DispatchEffect
        <4> QED BY <1>0, <2>1, <2>3, <3>1, <4>1
      <3> QED BY <3>2, <3>3
    <2> QED BY <2>4, <2>5
  <1>6. CASE FinishPage
    <2>1. /\ ~Idle /\ page' = NoPage /\ next' = 1 /\ primed' = TRUE
          /\ base' = IF primed THEN base ELSE page.top
          /\ created' = created /\ pages' = pages
          /\ order' = order /\ puts' = puts /\ sent' = sent
      BY <1>6, FinishEffect
    <2>2. page \in Pages BY <1>0, <2>1 DEF Idle
    <2>3. page.top \in 0..N BY <2>2, PagesAreNotNoPage
    <2>4. base' \in 0..N /\ next' \in 1..N+1 BY <1>0, <2>1, <2>3, Constants
    <2>5. /\ want' \in [Devices -> Nat] /\ shown' \in [Devices -> Nat]
          /\ loads' \in SUBSET Events /\ failed' \in SUBSET Events
      <3>1. CASE want' = want /\ shown' = shown /\ loads' = loads /\ failed' = failed
        BY <1>0, <3>1
      <3>2. ASSUME NEW e \in Events, MaybeCache(e)
            PROVE /\ want' \in [Devices -> Nat] /\ shown' \in [Devices -> Nat]
                  /\ loads' \in SUBSET Events /\ failed' \in SUBSET Events
        <4>1. /\ want' \in [Devices -> Nat] /\ loads' \in SUBSET Events
              /\ shown' = shown /\ failed' = failed
          BY <1>0, <3>2, MaybeCacheEffect
        <4> QED BY <1>0, <4>1
      <3> QED BY <1>6, <3>1, <3>2, FinishEffect
    <2> QED BY <1>0, <2>1, <2>4, <2>5
  <1>7. CASE FinishLoad
    <2>1. PICK e \in loads : /\ loads' = loads \ {e}
                             /\ shown' = IF StillNewest(e) THEN [shown EXCEPT ![Device[e]] = Ctime[e]] ELSE shown
      BY <1>7 DEF FinishLoad
    <2>2. e \in Events /\ Ctime[e] \in Nat
      BY <1>0, <2>1, Constants
    <2>3. shown' \in [Devices -> Nat] BY <1>0, <2>1, <2>2
    <2> QED BY <1>0, <1>7, <2>1, <2>3 DEF FinishLoad, feedVars, pageVars, seenVars
  <1>8. CASE FailLoad
    BY <1>0, <1>8 DEF FailLoad, feedVars, pageVars, seenVars
  <1>9. CASE Reload
    <2>1. base' \in 0..N BY <1>9, Constants DEF Reload
    <2> QED BY <1>0, <1>9, <2>1 DEF Reload
  <1>10. CASE UNCHANGED vars
    BY <1>0, <1>10 DEF vars, feedVars, pageVars, seenVars, snapVars
  <1> QED BY <1>1, <1>2, <1>3, <1>4, <1>5, <1>6, <1>7, <1>8, <1>9, <1>10 DEF Next

LEMMA RecentStep ==
    ASSUME IInv, [Next]_vars
    PROVE  PagesAreRecent'
  <1>0. TypeOK /\ PagesAreRecent /\ PageProgress /\ SentIsNoted BY DEF IInv
  <1>a. created \in Nat /\ base \in Nat /\ Lag \in Nat /\ \A pg \in pages : pg \in Pages
    BY <1>0, Constants DEF TypeOK
  <1>b. \A pg \in pages : pg # NoPage /\ pg.top \in Nat
    <2> SUFFICES ASSUME NEW pg \in pages PROVE pg # NoPage /\ pg.top \in Nat
      OBVIOUS
    <2> QED BY <1>a, PagesAreNotNoPage
  <1>1. CASE CreateEvent
    <2>1. /\ Idle /\ created' = created + 1 /\ pages' = pages /\ page' = page /\ primed' = primed
          /\ base' = base /\ sent' = sent
          /\ \A pg \in pages : created - pg.top < Lag
      BY <1>1 DEF CreateEvent, pageVars, seenVars
    <2>2. ASSUME NEW pg \in pages PROVE pg.top <= created' /\ created' - pg.top <= Lag
      <3>1. pg.top <= created BY <1>0, <1>b DEF PagesAreRecent
      <3> QED BY <1>a, <1>b, <2>1, <3>1
    <2> QED BY <1>0, <2>1, <2>2 DEF PagesAreRecent, Idle
  <1>2. CASE AnswerPage
    <2>1. /\ Idle /\ created' = created /\ page' = page /\ primed' = primed
          /\ base' = base /\ sent' = sent
      BY <1>2 DEF AnswerPage, pageVars, seenVars
    <2>2. PICK size \in Sizes :
            /\ size = PollPage => \A pg \in pages : pg.size # PollPage
            /\ size = PushPage => primed
            /\ pages' = pages \cup {[top |-> created, size |-> size]}
      BY <1>2 DEF AnswerPage
    <2> DEFINE new == [top |-> created, size |-> size]
    <2>3. /\ new.top = created /\ new.size = size
          /\ ~primed => size = PollPage
      BY <2>2 DEF Sizes
    <2>4. ASSUME NEW pg \in pages' \cup {page'}, pg # NoPage
          PROVE /\ pg.top <= created' /\ created' - pg.top <= Lag
                /\ primed' => base' <= pg.top
                /\ ~primed' => pg.size = PollPage /\ \A e \in Events : sent'[e] > 0 => e <= pg.top
      <3>1. CASE pg = new
        <4>1. primed => base <= created BY <1>0 DEF PageProgress
        <4>2. \A e \in Events : sent[e] > 0 => e <= created BY <1>0 DEF SentIsNoted
        <4> HIDE DEF new
        <4> QED BY <1>a, <2>1, <2>3, <3>1, <4>1, <4>2
      <3>2. CASE pg \in pages \cup {page}
        BY <1>0, <2>1, <2>4, <3>2 DEF PagesAreRecent
      <3> QED BY <2>1, <2>2, <3>1, <3>2
    <2>5. ASSUME NEW p \in pages', NEW q \in pages', p.size = PollPage, q.size = PollPage
          PROVE p = q
      <3>1. p \in pages \/ p = new BY <2>2
      <3>2. q \in pages \/ q = new BY <2>2
      <3> HIDE DEF new
      <3> QED BY <1>0, <2>2, <2>3, <2>5, <3>1, <3>2 DEF PagesAreRecent
    <2>6. Idle' BY <2>1 DEF Idle
    <2> QED BY <2>4, <2>5, <2>6 DEF PagesAreRecent
  <1>3. CASE LosePage
    <2>1. /\ pages' \subseteq pages /\ Idle /\ created' = created /\ page' = page /\ primed' = primed
          /\ base' = base /\ sent' = sent
      BY <1>3 DEF LosePage, pageVars, seenVars
    <2> QED BY <1>0, <2>1 DEF PagesAreRecent, Idle
  <1>4. CASE BeginPage
    <2>1. PICK pg \in pages : pages' = pages \ {pg} /\ page' = pg
      BY <1>4 DEF BeginPage
    <2>2. created' = created /\ primed' = primed /\ base' = base /\ sent' = sent
      BY <1>4 DEF BeginPage, seenVars
    <2>3. \A p \in pages' \cup {page'} : p \in pages
      BY <2>1
    <2>4. ~primed => pages' = {}
      <3> SUFFICES ASSUME ~primed, NEW p \in pages' PROVE FALSE
        OBVIOUS
      <3>1. p \in pages /\ p # pg BY <2>1
      <3>2. p.size = PollPage /\ pg.size = PollPage
        BY <1>0, <1>b, <3>1 DEF PagesAreRecent
      <3> QED BY <1>0, <3>1, <3>2 DEF PagesAreRecent
    <2> QED BY <1>0, <2>2, <2>3, <2>4 DEF PagesAreRecent
  <1>5. CASE DispatchEvent
    <2>1. /\ ~Idle /\ created' = created /\ pages' = pages /\ page' = page
          /\ primed' = primed /\ base' = base
      BY <1>5, DispatchEffect
    <2>2. ~primed => sent' = sent
      BY <1>5, DispatchEffect DEF Announces
    <2> QED BY <1>0, <2>1, <2>2 DEF PagesAreRecent, Idle
  <1>6. CASE FinishPage
    <2>1. /\ ~Idle /\ page' = NoPage /\ primed' /\ created' = created /\ pages' = pages
          /\ base' = IF primed THEN base ELSE page.top
      BY <1>6, FinishEffect
    <2>2. ~primed => pages = {} BY <1>0, <2>1 DEF PagesAreRecent
    <2>3. Idle' BY <2>1 DEF Idle
    <2> QED BY <1>0, <2>1, <2>2, <2>3 DEF PagesAreRecent
  <1>7. CASE FinishLoad
    BY <1>0, <1>7 DEF FinishLoad, feedVars, pageVars, seenVars, PagesAreRecent, Idle
  <1>8. CASE FailLoad
    BY <1>0, <1>8 DEF FailLoad, feedVars, pageVars, seenVars, PagesAreRecent, Idle
  <1>9. CASE Reload
    BY <1>9 DEF Reload, PagesAreRecent, Idle
  <1>10. CASE UNCHANGED vars
    BY <1>0, <1>10 DEF vars, feedVars, pageVars, seenVars, PagesAreRecent, Idle
  <1> QED BY <1>1, <1>2, <1>3, <1>4, <1>5, <1>6, <1>7, <1>8, <1>9, <1>10 DEF Next

LEMMA ProgressStep ==
    ASSUME IInv, [Next]_vars
    PROVE  PageProgress'
  <1>0. TypeOK /\ PagesAreRecent /\ PageProgress BY DEF IInv
  <1>a. created \in Nat /\ base \in Nat /\ next \in Nat /\ order \in [Events -> Nat] /\ puts \in Nat
    BY <1>0, Constants DEF TypeOK
  <1>1. CASE CreateEvent
    <2>1. /\ Idle /\ created' = created + 1 /\ page' = page /\ next' = next /\ primed' = primed
          /\ base' = base /\ order' = order
      BY <1>1 DEF CreateEvent, pageVars, seenVars
    <2>2. primed => base <= created' BY <1>0, <1>a, <2>1 DEF PageProgress
    <2> QED BY <1>0, <2>1, <2>2 DEF PageProgress, Idle
  <1>2. CASE AnswerPage
    BY <1>0, <1>2 DEF AnswerPage, pageVars, seenVars, PageProgress, Idle
  <1>3. CASE LosePage
    BY <1>0, <1>3 DEF LosePage, pageVars, seenVars, PageProgress, Idle
  <1>4. CASE BeginPage
    <2>1. PICK pg \in pages : page' = pg /\ next' = Oldest(pg)
      BY <1>4 DEF BeginPage
    <2>2. Idle /\ created' = created /\ primed' = primed /\ base' = base /\ order' = order
      BY <1>4 DEF BeginPage, seenVars
    <2>3. pg \in Pages BY <1>0, <2>1 DEF TypeOK
    <2>4. pg.top \in 0..N /\ pg.size \in Nat /\ pg.size > 0
      BY <2>3, PagesAreNotNoPage
    <2>5. Oldest(pg) \in 1..N+1 /\ Oldest(pg) <= pg.top + 1
      BY <2>4, OldestOfPage
    <2>6. Oldest(page)' = Oldest(pg) /\ page'.top = pg.top
      BY <2>1 DEF Oldest
    <2>7. next' \in Oldest(page)'..page'.top + 1
      BY <2>1, <2>4, <2>5, <2>6
    <2>8. \A e \in Oldest(page)'..next' - 1 : order'[e] > 0
      BY <2>1, <2>5, <2>6
    <2> QED BY <1>0, <2>2, <2>7, <2>8 DEF PageProgress
  <1>5. CASE DispatchEvent
    <2>1. /\ ~Idle /\ next <= page.top /\ next' = next + 1 /\ created' = created /\ page' = page
          /\ primed' = primed /\ base' = base
      BY <1>5, DispatchEffect
    <2>2. next \in Events
      BY <1>0, <2>1, PageIsRecent
    <2>3. order'[next] > 0 /\ \A e \in Events : e # next => order'[e] = order[e]
      <3>1. CASE Seen(next)
        BY <1>5, <3>1, DispatchEffect DEF Seen
      <3>2. CASE ~Seen(next)
        <4>1. order' = [order EXCEPT ![next] = puts + 1]
          BY <1>5, <3>2, DispatchEffect
        <4> QED BY <1>a, <2>2, <4>1
      <3> QED BY <3>1, <3>2
    <2>4. page \in Pages BY <1>0, <2>1 DEF TypeOK, Idle
    <2>5. page.top \in 0..N /\ page.size \in Nat /\ page.size > 0
      BY <2>4, PagesAreNotNoPage
    <2>6. Oldest(page) \in 1..N+1 /\ Oldest(page)' = Oldest(page)
      BY <2>1, <2>5, OldestOfPage DEF Oldest
    <2>7. next' \in Oldest(page)'..page'.top + 1
      <3>1. next \in Oldest(page)..page.top + 1 BY <1>0, <2>1 DEF PageProgress
      <3> QED BY <1>a, <2>1, <2>5, <2>6, <3>1
    <2>8. \A e \in Oldest(page)'..next' - 1 : order'[e] > 0
      <3> SUFFICES ASSUME NEW e \in Oldest(page)..next PROVE order'[e] > 0
        BY <1>a, <2>1, <2>6
      <3>1. e \in Events
        BY <1>a, <2>2, <2>6, Constants DEF Events
      <3>2. CASE e = next BY <2>3, <3>2
      <3>3. CASE e # next
        <4>1. e \in Oldest(page)..next - 1 BY <1>a, <2>6, <3>3
        <4> QED BY <1>0, <2>1, <2>3, <3>1, <3>3, <4>1 DEF PageProgress
      <3> QED BY <3>2, <3>3
    <2>9. ASSUME ~primed, NEW e \in Events, order'[e] > 0 PROVE e < next'
      <3>1. e \in Nat BY Constants
      <3>2. CASE e = next BY <1>a, <2>1, <3>2
      <3>3. CASE e # next
        <4>1. e < next BY <1>0, <2>3, <2>9, <3>3 DEF PageProgress
        <4> QED BY <1>a, <2>1, <3>1, <4>1
      <3> QED BY <3>2, <3>3
    <2>10. ASSUME primed, NEW e \in EventsOf([top |-> base, size |-> PollPage])
           PROVE order'[e] > 0
      <3> DEFINE first == [top |-> base, size |-> PollPage]
      <3>1. first.top = base /\ first.size = PollPage /\ first.top \in 0..N
        BY <1>0 DEF TypeOK
      <3>2. Oldest(first) \in 1..N+1
        <4> HIDE DEF first
        <4> QED BY <3>1, OldestOfPage, Constants
      <3>3. e \in Oldest(first)..first.top BY <2>10 DEF EventsOf
      <3>4. e \in Events
        <4> HIDE DEF first
        <4> QED BY <3>1, <3>2, <3>3, Constants DEF Events
      <3>5. order[e] > 0 BY <1>0, <2>10 DEF PageProgress
      <3> QED BY <2>3, <3>4, <3>5
    <2>11. (~Idle)' BY <2>1 DEF Idle
    <2> QED BY <1>0, <2>1, <2>7, <2>8, <2>9, <2>10, <2>11 DEF PageProgress
  <1>6. CASE FinishPage
    <2>1. /\ ~Idle /\ next > page.top /\ page' = NoPage /\ primed' = TRUE
          /\ base' = IF primed THEN base ELSE page.top
          /\ created' = created /\ order' = order
      BY <1>6, FinishEffect
    <2>2. Idle' BY <2>1 DEF Idle
    <2>3. page \in Pages /\ page # NoPage BY <1>0, <2>1 DEF TypeOK, Idle
    <2>4. page.top \in 0..N /\ page.size \in Nat /\ page.size > 0
      BY <2>3, PagesAreNotNoPage
    <2>5. base' <= created'
      BY <1>0, <2>1, <2>3 DEF PagesAreRecent, PageProgress
    <2>6. \A e \in EventsOf([top |-> base', size |-> PollPage]) : order[e] > 0
      <3>1. CASE primed
        BY <1>0, <2>1, <3>1 DEF PageProgress
      <3>2. CASE ~primed
        <4>1. page.size = PollPage BY <1>0, <2>3, <3>2 DEF PagesAreRecent
        <4>2. page = [top |-> base', size |-> PollPage]
          BY <2>1, <2>3, <3>2, <4>1 DEF Pages
        <4>3. Oldest(page) \in Int BY <2>4, OldestOfPage
        <4>4. EventsOf(page) \subseteq Oldest(page)..next - 1
          BY <1>a, <2>1, <2>4, <4>3 DEF EventsOf
        <4>5. \A e \in Oldest(page)..next - 1 : order[e] > 0
          BY <1>0, <2>1 DEF PageProgress
        <4> QED BY <4>2, <4>4, <4>5
      <3> QED BY <3>1, <3>2
    <2> QED BY <2>1, <2>2, <2>5, <2>6 DEF PageProgress
  <1>7. CASE FinishLoad
    BY <1>0, <1>7 DEF FinishLoad, feedVars, pageVars, seenVars, PageProgress, Idle
  <1>8. CASE FailLoad
    BY <1>0, <1>8 DEF FailLoad, feedVars, pageVars, seenVars, PageProgress, Idle
  <1>9. CASE Reload
    BY <1>9 DEF Reload, PageProgress, Idle
  <1>10. CASE UNCHANGED vars
    BY <1>0, <1>10 DEF vars, feedVars, pageVars, seenVars, PageProgress, Idle
  <1> QED BY <1>1, <1>2, <1>3, <1>4, <1>5, <1>6, <1>7, <1>8, <1>9, <1>10 DEF Next

LEMMA OrderStep ==
    ASSUME IInv, [Next]_vars
    PROVE  OrderIsInsertion'
  <1>0. TypeOK /\ PagesAreRecent /\ PageProgress /\ OrderIsInsertion BY DEF IInv
  <1>a. created \in Nat /\ order \in [Events -> Nat] /\ puts \in Nat /\ Events \subseteq Nat
    BY <1>0, Constants DEF TypeOK
  <1>1. CASE CreateEvent
    <2>1. created' = created + 1 /\ order' = order /\ puts' = puts
      BY <1>1 DEF CreateEvent, seenVars
    <2>2. ASSUME NEW e \in Events, order[e] > 0 PROVE e <= created'
      <3>1. e <= created BY <1>0, <2>2 DEF OrderIsInsertion
      <3> QED BY <1>a, <2>1, <3>1
    <2> QED BY <1>0, <2>1, <2>2 DEF OrderIsInsertion
  <1>2. CASE AnswerPage
    BY <1>0, <1>2 DEF AnswerPage, seenVars, OrderIsInsertion
  <1>3. CASE LosePage
    BY <1>0, <1>3 DEF LosePage, seenVars, OrderIsInsertion
  <1>4. CASE BeginPage
    BY <1>0, <1>4 DEF BeginPage, seenVars, OrderIsInsertion
  <1>5. CASE DispatchEvent
    <2>1. ~Idle /\ next <= page.top /\ created' = created
      BY <1>5, DispatchEffect
    <2>2. CASE Seen(next)
      <3>1. order' = order /\ puts' = puts BY <1>5, <2>2, DispatchEffect
      <3> QED BY <1>0, <2>1, <3>1 DEF OrderIsInsertion
    <2>3. CASE ~Seen(next)
      <3>1. order' = [order EXCEPT ![next] = puts + 1] /\ puts' = puts + 1
        BY <1>5, <2>3, DispatchEffect
      <3>2. next \in Events /\ order[next] = 0
        BY <2>1, <2>3, UnseenIsNew
      <3>3. next <= created /\ created - next < Reach
        BY <1>0, <2>1, PageIsRecent
      <3>4. /\ order'[next] = puts + 1
            /\ \A e \in Events : e # next => order'[e] = order[e]
        BY <1>a, <3>1, <3>2
      <3>5. \A e \in Events : order[e] \in Nat /\ (order[e] > 0 => e <= created /\ order[e] <= puts)
        BY <1>0, <1>a DEF OrderIsInsertion
      <3>6. ASSUME NEW e \in Events, order'[e] > 0 PROVE e <= created' /\ order'[e] <= puts'
        <4>1. CASE e = next BY <1>a, <2>1, <3>1, <3>3, <3>4, <4>1
        <4>2. CASE e # next BY <1>a, <2>1, <3>1, <3>4, <3>5, <3>6, <4>2
        <4> QED BY <4>1, <4>2
      <3>7. ASSUME NEW i \in 1..puts' PROVE \E e \in Events : order'[e] = i
        <4>1. CASE i = puts + 1 BY <3>2, <3>4, <4>1
        <4>2. CASE i # puts + 1
          <5>1. i \in 1..puts BY <1>a, <3>1, <4>2
          <5>2. PICK e \in Events : order[e] = i BY <1>0, <5>1 DEF OrderIsInsertion
          <5>3. e # next BY <3>2, <5>1, <5>2
          <5> QED BY <3>4, <5>2, <5>3
        <4> QED BY <4>1, <4>2
      <3>8. ASSUME NEW e \in Events, NEW f \in Events, order'[e] > 0, order'[e] = order'[f]
            PROVE e = f
        <4>1. CASE e = next /\ f # next BY <1>a, <3>4, <3>5, <3>8, <4>1
        <4>2. CASE e # next /\ f = next BY <1>a, <3>4, <3>5, <3>8, <4>2
        <4>3. CASE e # next /\ f # next
          <5>1. order[e] > 0 /\ order[e] = order[f] BY <3>4, <3>8, <4>3
          <5> QED BY <1>0, <5>1 DEF OrderIsInsertion
        <4> QED BY <4>1, <4>2, <4>3
      <3>9. ASSUME NEW e \in Events, NEW f \in Events, 0 < order'[e], order'[e] < order'[f]
            PROVE e - f < Reach
        <4>1. CASE e = next
          <5>1. f # next BY <1>a, <3>4, <3>9, <4>1
          <5>2. order[f] <= puts /\ order[f] \in Nat BY <1>a, <3>4, <3>5, <3>9, <5>1
          <5> QED BY <1>a, <3>4, <3>9, <4>1, <5>1, <5>2
        <4>2. CASE e # next /\ f = next
          <5>1. e <= created BY <3>4, <3>5, <3>9, <4>2
          <5> QED BY <1>a, <3>3, <4>2, <5>1, Constants
        <4>3. CASE e # next /\ f # next
          <5>1. 0 < order[e] /\ order[e] < order[f] BY <3>4, <3>9, <4>3
          <5> QED BY <1>0, <5>1 DEF OrderIsInsertion
        <4> QED BY <4>1, <4>2, <4>3
      <3> QED BY <3>6, <3>7, <3>8, <3>9, <2>1 DEF OrderIsInsertion
    <2> QED BY <2>2, <2>3
  <1>6. CASE FinishPage
    <2>1. created' = created /\ order' = order /\ puts' = puts BY <1>6, FinishEffect
    <2> QED BY <1>0, <2>1 DEF OrderIsInsertion
  <1>7. CASE FinishLoad
    BY <1>0, <1>7 DEF FinishLoad, feedVars, seenVars, OrderIsInsertion
  <1>8. CASE FailLoad
    BY <1>0, <1>8 DEF FailLoad, feedVars, seenVars, OrderIsInsertion
  <1>9. CASE Reload
    BY <1>9 DEF Reload, OrderIsInsertion
  <1>10. CASE UNCHANGED vars
    BY <1>0, <1>10 DEF vars, feedVars, seenVars, OrderIsInsertion
  <1> QED BY <1>1, <1>2, <1>3, <1>4, <1>5, <1>6, <1>7, <1>8, <1>9, <1>10 DEF Next

LEMMA SentStep ==
    ASSUME IInv, [Next]_vars
    PROVE  SentIsNoted'
  <1>0. TypeOK /\ PagesAreRecent /\ PageProgress /\ SentIsNoted BY DEF IInv
  <1>a. created \in Nat /\ sent \in [Events -> Nat] /\ order \in [Events -> Nat] /\ puts \in Nat /\ Events \subseteq Nat
    BY <1>0, Constants DEF TypeOK
  <1>1. CASE CreateEvent
    <2>1. created' = created + 1 /\ sent' = sent /\ order' = order /\ primed' = primed /\ base' = base
      BY <1>1 DEF CreateEvent, seenVars, pageVars
    <2>2. ASSUME NEW e \in Events, sent[e] > 0 PROVE e <= created'
      <3>1. e <= created BY <1>0, <2>2 DEF SentIsNoted
      <3> QED BY <1>a, <2>1, <3>1
    <2> QED BY <1>0, <2>1, <2>2 DEF SentIsNoted
  <1>2. CASE AnswerPage
    BY <1>0, <1>2 DEF AnswerPage, seenVars, pageVars, SentIsNoted
  <1>3. CASE LosePage
    BY <1>0, <1>3 DEF LosePage, seenVars, pageVars, SentIsNoted
  <1>4. CASE BeginPage
    BY <1>0, <1>4 DEF BeginPage, seenVars, SentIsNoted
  <1>5. CASE DispatchEvent
    <2>1. ~Idle /\ next <= page.top /\ created' = created /\ primed' = primed /\ base' = base
      BY <1>5, DispatchEffect
    <2>2. CASE Seen(next)
      <3>1. order' = order /\ sent' = sent BY <1>5, <2>2, DispatchEffect
      <3> QED BY <1>0, <2>1, <3>1 DEF SentIsNoted
    <2>3. CASE ~Seen(next)
      <3>1. next \in Events /\ next <= created
        BY <1>0, <2>1, PageIsRecent
      <3>2. order' = [order EXCEPT ![next] = puts + 1]
        BY <1>5, <2>3, DispatchEffect
      <3>3. order'[next] > 0 /\ \A e \in Events : e # next => order'[e] = order[e]
        BY <1>a, <3>1, <3>2
      <3>4. \A e \in Events : e # next => sent'[e] = sent[e]
        <4>1. sent' = sent \/ sent' = [sent EXCEPT ![next] = @ + 1]
          BY <1>5, <2>3, DispatchEffect
        <4> QED BY <1>a, <4>1
      <3> QED BY <1>0, <2>1, <3>1, <3>3, <3>4 DEF SentIsNoted
    <2> QED BY <2>2, <2>3
  <1>6. CASE FinishPage
    <2>1. /\ ~Idle /\ primed' = TRUE /\ base' = (IF primed THEN base ELSE page.top)
          /\ created' = created /\ order' = order /\ sent' = sent
      BY <1>6, FinishEffect
    <2>2. page \in Pages /\ page # NoPage BY <1>0, <2>1 DEF TypeOK, Idle
    <2>3. ~primed => \A e \in Events : sent[e] > 0 => e <= page.top
      BY <1>0, <2>2 DEF PagesAreRecent
    <2> QED BY <1>0, <2>1, <2>3 DEF SentIsNoted
  <1>7. CASE FinishLoad
    BY <1>0, <1>7 DEF FinishLoad, feedVars, pageVars, seenVars, SentIsNoted
  <1>8. CASE FailLoad
    BY <1>0, <1>8 DEF FailLoad, feedVars, pageVars, seenVars, SentIsNoted
  <1>9. CASE Reload
    BY <1>0, <1>9 DEF Reload, SentIsNoted
  <1>10. CASE UNCHANGED vars
    BY <1>0, <1>10 DEF vars, feedVars, pageVars, seenVars, SentIsNoted
  <1> QED BY <1>1, <1>2, <1>3, <1>4, <1>5, <1>6, <1>7, <1>8, <1>9, <1>10 DEF Next

LEMMA OnceStep ==
    ASSUME IInv, [Next]_vars
    PROVE  ExactlyOnce'
  <1>0. TypeOK /\ PageProgress /\ ExactlyOnce BY DEF IInv
  <1>a. sent \in [Events -> Nat] /\ order \in [Events -> Nat] /\ puts \in Nat /\ next \in Nat /\ Events \subseteq Nat
    BY <1>0, Constants DEF TypeOK
  <1>1. CASE CreateEvent
    BY <1>0, <1>1 DEF CreateEvent, seenVars, pageVars, ExactlyOnce
  <1>2. CASE AnswerPage
    BY <1>0, <1>2 DEF AnswerPage, seenVars, pageVars, ExactlyOnce
  <1>3. CASE LosePage
    BY <1>0, <1>3 DEF LosePage, seenVars, pageVars, ExactlyOnce
  <1>4. CASE BeginPage
    BY <1>0, <1>4 DEF BeginPage, seenVars, ExactlyOnce
  <1>5. CASE DispatchEvent
    <2>1. ~Idle /\ next <= page.top /\ primed' = primed /\ base' = base
      BY <1>5, DispatchEffect
    <2>2. CASE Seen(next)
      <3>1. order' = order /\ sent' = sent BY <1>5, <2>2, DispatchEffect
      <3> QED BY <1>0, <2>1, <3>1 DEF ExactlyOnce
    <2>3. CASE ~Seen(next)
      <3>1. next \in Events /\ order[next] = 0 /\ (primed => sent[next] = 0)
        BY <2>1, <2>3, UnseenIsNew
      <3>2. \A e \in Events : e # next => order'[e] = order[e]
        <4>1. order' = [order EXCEPT ![next] = puts + 1] BY <1>5, <2>3, DispatchEffect
        <4> QED BY <1>a, <4>1
      <3>3. CASE Announces(next)
        <4>1. sent' = [sent EXCEPT ![next] = @ + 1]
          BY <1>5, <2>3, <3>3, DispatchEffect
        <4>2. sent'[next] = 1 /\ \A e \in Events : e # next => sent'[e] = sent[e]
          <5>1. sent[next] = 0 BY <3>1, <3>3 DEF Announces
          <5> QED BY <1>a, <3>1, <4>1, <5>1
        <4> QED BY <1>0, <2>1, <3>2, <4>2 DEF ExactlyOnce
      <3>4. CASE ~Announces(next)
        <4>1. sent' = sent BY <1>5, <2>3, <3>4, DispatchEffect
        <4> QED BY <1>0, <2>1, <3>2, <3>4, <4>1 DEF ExactlyOnce, Announces
      <3> QED BY <3>3, <3>4
    <2> QED BY <2>2, <2>3
  <1>6. CASE FinishPage
    <2>1. /\ ~Idle /\ next > page.top /\ primed' = TRUE /\ base' = (IF primed THEN base ELSE page.top)
          /\ order' = order /\ sent' = sent
      BY <1>6, FinishEffect
    <2>2. CASE primed BY <1>0, <2>1, <2>2 DEF ExactlyOnce
    <2>3. CASE ~primed
      <3>1. page.top \in Nat
        <4>1. page \in Pages BY <1>0, <2>1 DEF TypeOK, Idle
        <4>2. page.top \in 0..N BY <4>1, PagesAreNotNoPage
        <4> QED BY <4>2
      <3>2. next <= page.top + 1
        <4>1. next \in Oldest(page)..page.top + 1 BY <1>0, <2>1 DEF PageProgress
        <4> QED BY <4>1
      <3>3. ASSUME NEW e \in Events, order[e] > 0 PROVE ~(e > base')
        <4>1. e < next BY <1>0, <2>3, <3>3 DEF PageProgress
        <4> QED BY <1>a, <2>1, <2>3, <3>1, <3>2, <4>1
      <3> QED BY <1>0, <2>1, <3>3 DEF ExactlyOnce
    <2> QED BY <2>2, <2>3
  <1>7. CASE FinishLoad
    BY <1>0, <1>7 DEF FinishLoad, feedVars, pageVars, seenVars, ExactlyOnce
  <1>8. CASE FailLoad
    BY <1>0, <1>8 DEF FailLoad, feedVars, pageVars, seenVars, ExactlyOnce
  <1>9. CASE Reload
    BY <1>0, <1>9 DEF Reload, ExactlyOnce
  <1>10. CASE UNCHANGED vars
    BY <1>0, <1>10 DEF vars, feedVars, pageVars, seenVars, ExactlyOnce
  <1> QED BY <1>1, <1>2, <1>3, <1>4, <1>5, <1>6, <1>7, <1>8, <1>9, <1>10 DEF Next

\* Asking for a picture keeps the two facts about pictures asked for and under way.
LEMMA MaybeCacheKeeps ==
    ASSUME TypeOK, PicturesAreAsked, NEW e \in Events, MaybeCache(e)
    PROVE  /\ \A d \in Devices :
                /\ shown'[d] <= want'[d]
                /\ \/ shown'[d] = want'[d]
                   \/ \E f \in loads' \cup failed' : Device[f] = d /\ Ctime[f] = want'[d]
           /\ \A f \in loads' : Ctime[f] <= want'[Device[f]]
  <1>1. /\ shown' = shown /\ failed' = failed /\ loads \subseteq loads'
        /\ \A d \in Devices : want[d] <= want'[d]
        /\ \A d \in Devices : want'[d] = want[d] \/ (d = Device[e] /\ want'[d] = Ctime[e] /\ e \in loads')
        /\ want' \in [Devices -> Nat]
    BY MaybeCacheEffect
  <1>2. want \in [Devices -> Nat] /\ shown \in [Devices -> Nat] /\ loads \subseteq Events
    BY DEF TypeOK
  <1>3. ASSUME NEW d \in Devices PROVE shown'[d] <= want'[d]
    <2>1. shown[d] <= want[d] BY DEF PicturesAreAsked
    <2>2. shown[d] \in Nat /\ want[d] \in Nat /\ want'[d] \in Nat /\ want[d] <= want'[d] BY <1>1, <1>2
    <2> QED BY <1>1, <2>1, <2>2
  <1>4. ASSUME NEW d \in Devices
        PROVE \/ shown'[d] = want'[d]
              \/ \E f \in loads' \cup failed' : Device[f] = d /\ Ctime[f] = want'[d]
    <2>1. CASE want'[d] = want[d]
      <3>1. \/ shown[d] = want[d]
            \/ \E f \in loads \cup failed : Device[f] = d /\ Ctime[f] = want[d]
        BY DEF PicturesAreAsked
      <3> QED BY <1>1, <2>1, <3>1
    <2>2. CASE d = Device[e] /\ want'[d] = Ctime[e] /\ e \in loads'
      BY <2>2
    <2> QED BY <1>1, <2>1, <2>2
  <1>5. ASSUME NEW f \in loads' PROVE Ctime[f] <= want'[Device[f]]
    <2>1. CASE f \in loads
      <3>1. f \in Events /\ Device[f] \in Devices /\ Ctime[f] \in Nat BY <1>2, <2>1, Constants
      <3>2. Ctime[f] <= want[Device[f]] BY <2>1 DEF PicturesAreAsked
      <3>3. want[Device[f]] \in Nat /\ want'[Device[f]] \in Nat /\ want[Device[f]] <= want'[Device[f]]
        BY <1>1, <1>2, <3>1
      <3> QED BY <3>1, <3>2, <3>3
    <2>2. CASE f \notin loads
      <3>1. Newer(e) /\ loads' = loads \cup {e} /\ want' = [want EXCEPT ![Device[e]] = Ctime[e]]
        BY <2>2 DEF MaybeCache, snapVars
      <3>2. f = e BY <2>2, <3>1
      <3>3. want'[Device[e]] = Ctime[e] /\ Ctime[e] \in Nat BY <1>2, <3>1, Constants
      <3> QED BY <3>2, <3>3
    <2> QED BY <2>1, <2>2
  <1> QED BY <1>3, <1>4, <1>5

LEMMA PictureStep ==
    ASSUME IInv, [Next]_vars
    PROVE  PicturesAreAsked'
  <1>0. TypeOK /\ PageProgress /\ PicturesAreAsked BY DEF IInv
  <1>a. /\ want \in [Devices -> Nat] /\ shown \in [Devices -> Nat] /\ loads \subseteq Events
        /\ order \in [Events -> Nat] /\ Events \subseteq Nat /\ next \in Nat
    BY <1>0, Constants DEF TypeOK
  <1>1. CASE CreateEvent
    BY <1>0, <1>1 DEF CreateEvent, seenVars, pageVars, snapVars, PicturesAreAsked
  <1>2. CASE AnswerPage
    BY <1>0, <1>2 DEF AnswerPage, seenVars, pageVars, snapVars, PicturesAreAsked
  <1>3. CASE LosePage
    BY <1>0, <1>3 DEF LosePage, seenVars, pageVars, snapVars, PicturesAreAsked
  <1>4. CASE BeginPage
    BY <1>0, <1>4 DEF BeginPage, seenVars, snapVars, PicturesAreAsked
  <1>5. CASE DispatchEvent
    <2>1. ~Idle /\ next <= page.top /\ primed' = primed /\ base' = base
      BY <1>5, DispatchEffect
    <2>2. CASE Seen(next)
      <3>1. order' = order /\ want' = want /\ shown' = shown /\ loads' = loads /\ failed' = failed
        BY <1>5, <2>2, DispatchEffect
      <3> QED BY <1>0, <2>1, <3>1 DEF PicturesAreAsked
    <2>3. CASE ~Seen(next)
      <3>1. next \in Events BY <2>1, <2>3, UnseenIsNew
      <3>2. \A e \in Events : e # next => order'[e] = order[e]
        <4>1. order' = [order EXCEPT ![next] = puts + 1] BY <1>5, <2>3, DispatchEffect
        <4> QED BY <1>a, <4>1
      <3>3. CASE Announces(next)
        <4>1. MaybeCache(next) BY <1>5, <2>3, <3>3, DispatchEffect
        <4>2. /\ \A d \in Devices : want[d] <= want'[d]
              /\ next \in Pictured => Ctime[next] <= want'[Device[next]]
              /\ want' \in [Devices -> Nat]
          BY <1>0, <3>1, <4>1, MaybeCacheEffect
        <4>3. ASSUME NEW e \in Pictured \cap Mapped, primed, order'[e] > 0, e > base
              PROVE Ctime[e] <= want'[Device[e]]
          <5>1. e \in Events BY SourceAssumption
          <5>2. CASE e = next BY <4>2, <5>2
          <5>3. CASE e # next
            <6>1. Ctime[e] <= want[Device[e]]
              BY <1>0, <3>2, <4>3, <5>1, <5>3 DEF PicturesAreAsked
            <6>2. Device[e] \in Devices /\ Ctime[e] \in Nat BY <5>1, Constants
            <6>3. want[Device[e]] \in Nat /\ want'[Device[e]] \in Nat /\ want[Device[e]] <= want'[Device[e]]
              BY <1>a, <4>2, <6>2
            <6> QED BY <6>1, <6>2, <6>3
          <5> QED BY <5>2, <5>3
        <4>4. /\ \A d \in Devices :
                   /\ shown'[d] <= want'[d]
                   /\ \/ shown'[d] = want'[d]
                      \/ \E f \in loads' \cup failed' : Device[f] = d /\ Ctime[f] = want'[d]
              /\ \A f \in loads' : Ctime[f] <= want'[Device[f]]
          BY <1>0, <3>1, <4>1, MaybeCacheKeeps
        <4> QED BY <2>1, <4>3, <4>4 DEF PicturesAreAsked
      <3>4. CASE ~Announces(next)
        <4>1. want' = want /\ shown' = shown /\ loads' = loads /\ failed' = failed
          BY <1>5, <2>3, <3>4, DispatchEffect
        <4>2. ASSUME NEW e \in Pictured \cap Mapped, primed, order'[e] > 0, e > base
              PROVE Ctime[e] <= want[Device[e]]
          <5>1. e \in Events /\ e # next BY <3>4, <4>2, SourceAssumption DEF Announces
          <5>2. order[e] > 0 BY <3>2, <4>2, <5>1
          <5> QED BY <1>0, <4>2, <5>2 DEF PicturesAreAsked
        <4> QED BY <1>0, <2>1, <4>1, <4>2 DEF PicturesAreAsked
      <3> QED BY <3>3, <3>4
    <2> QED BY <2>2, <2>3
  <1>6. CASE FinishPage
    <2>1. /\ ~Idle /\ next > page.top /\ primed' = TRUE
          /\ base' = (IF primed THEN base ELSE page.top) /\ order' = order
      BY <1>6, FinishEffect
    <2>2. CASE primed
      <3>1. want' = want /\ shown' = shown /\ loads' = loads /\ failed' = failed
        BY <1>6, <2>2, FinishEffect
      <3> QED BY <1>0, <2>1, <2>2, <3>1 DEF PicturesAreAsked
    <2>3. CASE ~primed
      <3>1. page.top \in Nat
        <4>1. page \in Pages BY <1>0, <2>1 DEF TypeOK, Idle
        <4>2. page.top \in 0..N BY <4>1, PagesAreNotNoPage
        <4> QED BY <4>2
      <3>2. next <= page.top + 1
        <4>1. next \in Oldest(page)..page.top + 1 BY <1>0, <2>1 DEF PageProgress
        <4> QED BY <4>1
      <3>3. ASSUME NEW e \in Pictured \cap Mapped, order[e] > 0 PROVE ~(e > base')
        <4>0. e \in Events BY SourceAssumption
        <4>1. e < next BY <1>0, <2>3, <3>3, <4>0 DEF PageProgress
        <4> QED BY <1>a, <2>1, <2>3, <3>1, <3>2, <4>0, <4>1
      <3>4. /\ \A d \in Devices :
                 /\ shown'[d] <= want'[d]
                 /\ \/ shown'[d] = want'[d]
                    \/ \E f \in loads' \cup failed' : Device[f] = d /\ Ctime[f] = want'[d]
            /\ \A f \in loads' : Ctime[f] <= want'[Device[f]]
        <4>1. CASE want' = want /\ shown' = shown /\ loads' = loads /\ failed' = failed
          BY <1>0, <4>1 DEF PicturesAreAsked
        <4>2. CASE \E e \in Events : MaybeCache(e)
          <5>1. PICK e \in Events : MaybeCache(e) BY <4>2
          <5> QED BY <1>0, <5>1, MaybeCacheKeeps
        <4> QED BY <1>6, <4>1, <4>2, FinishEffect
      <3> QED BY <2>1, <3>3, <3>4 DEF PicturesAreAsked
    <2> QED BY <2>2, <2>3
  <1>7. CASE FinishLoad
    <2>1. PICK e \in loads : /\ loads' = loads \ {e}
                             /\ shown' = IF StillNewest(e) THEN [shown EXCEPT ![Device[e]] = Ctime[e]] ELSE shown
      BY <1>7 DEF FinishLoad
    <2>2. want' = want /\ failed' = failed /\ primed' = primed /\ base' = base /\ order' = order
      BY <1>7 DEF FinishLoad, pageVars, seenVars
    <2>3. e \in Events /\ Device[e] \in Devices /\ Ctime[e] \in Nat /\ Ctime[e] <= want[Device[e]]
      BY <1>0, <1>a, <2>1, Constants DEF PicturesAreAsked
    <2>4. StillNewest(e) <=> Ctime[e] = want[Device[e]]
      BY <1>a, <2>3 DEF StillNewest
    <2>5. ASSUME NEW d \in Devices
          PROVE /\ shown'[d] <= want[d]
                /\ \/ shown'[d] = want[d]
                   \/ \E f \in loads' \cup failed : Device[f] = d /\ Ctime[f] = want[d]
      <3>1. /\ shown[d] <= want[d]
            /\ \/ shown[d] = want[d]
               \/ \E f \in loads \cup failed : Device[f] = d /\ Ctime[f] = want[d]
        BY <1>0 DEF PicturesAreAsked
      <3>2. CASE StillNewest(e) /\ d = Device[e]
        <4>1. shown'[d] = want[d] BY <1>a, <2>1, <2>4, <3>2
        <4> QED BY <1>a, <4>1
      <3>3. CASE ~(StillNewest(e) /\ d = Device[e])
        <4>1. shown'[d] = shown[d] BY <1>a, <2>1, <3>3
        <4>2. ASSUME NEW f \in loads \cup failed, Device[f] = d, Ctime[f] = want[d]
              PROVE f \in loads' \cup failed
          <5>1. f # e BY <2>4, <3>3, <4>2
          <5> QED BY <2>1, <5>1
        <4> QED BY <3>1, <4>1, <4>2
      <3> QED BY <3>2, <3>3
    <2>6. \A f \in loads' : Ctime[f] <= want[Device[f]]
      BY <1>0, <2>1 DEF PicturesAreAsked
    <2> QED BY <1>0, <2>2, <2>5, <2>6 DEF PicturesAreAsked
  <1>8. CASE FailLoad
    <2>1. loads' \subseteq loads /\ loads' \cup failed' = loads \cup failed
      BY <1>8 DEF FailLoad
    <2>2. want' = want /\ shown' = shown /\ primed' = primed /\ base' = base /\ order' = order
      BY <1>8 DEF FailLoad, pageVars, seenVars
    <2> QED BY <1>0, <2>1, <2>2 DEF PicturesAreAsked
  <1>9. CASE Reload
    BY <1>9 DEF Reload, PicturesAreAsked
  <1>10. CASE UNCHANGED vars
    BY <1>0, <1>10 DEF vars, pageVars, seenVars, snapVars, PicturesAreAsked
  <1> QED BY <1>1, <1>2, <1>3, <1>4, <1>5, <1>6, <1>7, <1>8, <1>9, <1>10 DEF Next

(***************************************************************************)
(* The theorems.                                                           *)
(***************************************************************************)

\* The inductive invariant: holds in every state of every behaviour.
THEOREM Invariance == Spec => []IInv
  <1>1. Init => IInv
    BY InitInv
  <1>2. IInv /\ [Next]_vars => IInv'
    BY TypeStep, RecentStep, ProgressStep, OrderStep, SentStep, OnceStep, PictureStep DEF IInv
  <1> QED BY <1>1, <1>2, PTL DEF Spec

\* Type correctness of the feed.
THEOREM TypeCorrect == Spec => []TypeOK
  <1>1. IInv => TypeOK
    BY DEF IInv
  <1> QED BY <1>1, Invariance, PTL

\* _seen and the priming page together give exactly-once announcement, whatever
\* the pages' order and age.
THEOREM DispatchedExactlyOnce == Spec => []ExactlyOnce
  <1>1. IInv => ExactlyOnce
    BY DEF IInv
  <1> QED BY <1>1, Invariance, PTL

\* dispatch_event never announces what the priming page, or an older one, held.
THEOREM NothingOldIsAnnounced == Spec => OnlyNew
  <1>1. IInv /\ [Next]_vars => [\A e \in Events : sent'[e] > sent[e] => primed /\ e > base]_vars
    <2> SUFFICES ASSUME IInv, Next, NEW e \in Events, sent'[e] > sent[e]
                 PROVE  primed /\ e > base
      BY DEF vars
    <2>0. TypeOK BY DEF IInv
    <2>1. sent \in [Events -> Nat] /\ base \in Nat /\ Events \subseteq Nat
      BY <2>0, Constants DEF TypeOK
    <2>2. DispatchEvent
      <3> SUFFICES ASSUME ~DispatchEvent PROVE sent' = sent
        BY <2>1
      <3>1. CASE FinishPage BY <3>1, FinishEffect
      <3> QED BY <3>1 DEF Next, CreateEvent, AnswerPage, LosePage, BeginPage, FinishLoad, FailLoad,
                     Reload, seenVars
    <2>3. ~Seen(next) /\ Announces(next) /\ sent' = [sent EXCEPT ![next] = @ + 1]
      BY <2>1, <2>2, DispatchEffect
    <2>4. ~Idle /\ next <= page.top BY <2>2, DispatchEffect
    <2>5. e = next BY <2>1, <2>3
    <2>6. primed BY <2>3 DEF Announces
    <2>7. base < next /\ next \in Nat BY <2>1, <2>3, <2>4, <2>6, UnseenIsNew
    <2> QED BY <2>1, <2>5, <2>6, <2>7
  <1> QED BY <1>1, Invariance, PTL DEF Spec, OnlyNew

\* _cache_snapshot never replaces a device's picture by an older one.
THEOREM PicturesMoveForward == Spec => PictureNeverGoesBack
  <1>1. IInv /\ [Next]_vars => [primed' => \A d \in Devices : shown'[d] >= shown[d]]_vars
    <2> SUFFICES ASSUME IInv, Next, primed', NEW d \in Devices
                 PROVE  shown'[d] >= shown[d]
      BY DEF vars
    <2>0. TypeOK /\ PicturesAreAsked BY DEF IInv
    <2>1. shown \in [Devices -> Nat] /\ want \in [Devices -> Nat] /\ shown[d] <= want[d]
      BY <2>0 DEF TypeOK, PicturesAreAsked
    <2>2. CASE FinishLoad
      <3>1. PICK e \in loads :
              shown' = IF StillNewest(e) THEN [shown EXCEPT ![Device[e]] = Ctime[e]] ELSE shown
        BY <2>2 DEF FinishLoad
      <3>2. Ctime[e] \in Nat /\ Device[e] \in Devices BY <2>0, <3>1, Constants DEF TypeOK
      <3>3. CASE StillNewest(e) /\ d = Device[e]
        <4>1. shown'[d] = Ctime[e] /\ Ctime[e] >= want[d]
          BY <2>1, <3>1, <3>3 DEF StillNewest
        <4> QED BY <2>1, <3>2, <4>1
      <3>4. CASE ~(StillNewest(e) /\ d = Device[e])
        <4>1. shown'[d] = shown[d] BY <2>1, <3>1, <3>4
        <4> QED BY <2>1, <4>1
      <3> QED BY <3>3, <3>4
    <2>3. CASE DispatchEvent
      <3>1. ~Idle /\ next <= page.top BY <2>3, DispatchEffect
      <3>2. shown' = shown
        <4>1. CASE ~Seen(next) /\ Announces(next)
          <5>1. next \in Events /\ MaybeCache(next) BY <2>3, <3>1, <4>1, UnseenIsNew, DispatchEffect
          <5> QED BY <2>0, <5>1, MaybeCacheEffect
        <4>2. CASE ~(~Seen(next) /\ Announces(next)) BY <2>3, <4>2, DispatchEffect
        <4> QED BY <4>1, <4>2
      <3> QED BY <2>1, <3>2
    <2>4. CASE FinishPage
      <3>1. shown' = shown
        <4>1. ASSUME NEW e \in Events, MaybeCache(e) PROVE shown' = shown
          BY <2>0, <4>1, MaybeCacheEffect
        <4> QED BY <2>4, <4>1, FinishEffect
      <3> QED BY <2>1, <3>1
    <2>5. CASE Reload
      BY <2>5 DEF Reload
    <2>6. CASE CreateEvent \/ AnswerPage \/ LosePage \/ BeginPage \/ FailLoad
      <3>1. shown' = shown
        BY <2>6 DEF CreateEvent, AnswerPage, LosePage, BeginPage, FailLoad, snapVars
      <3> QED BY <2>1, <3>1
    <2> QED BY <2>2, <2>3, <2>4, <2>5, <2>6 DEF Next
  <1> QED BY <1>1, Invariance, PTL DEF Spec, PictureNeverGoesBack

\* _maybe_cache_snapshot and _cache_snapshot together: an announced event's picture,
\* or a newer one, is shown, under way or failed.
THEOREM AnnouncedIsPictured == Spec => []PictureFollows
  <1>1. IInv => PictureFollows
    <2> SUFFICES ASSUME IInv, NEW e \in Pictured \cap Mapped,
                        primed, order[e] > 0, e > base
                 PROVE  \/ shown[Device[e]] >= Ctime[e]
                        \/ \E f \in loads \cup failed : Device[f] = Device[e] /\ Ctime[f] >= Ctime[e]
      BY DEF PictureFollows
    <2>1. TypeOK /\ PicturesAreAsked BY DEF IInv
    <2>2. e \in Events BY SourceAssumption
    <2>3. Device[e] \in Devices /\ Ctime[e] \in Nat BY <2>2, Constants
    <2>4. Ctime[e] <= want[Device[e]] BY <2>1 DEF PicturesAreAsked
    <2>5. want[Device[e]] \in Nat BY <2>1, <2>3 DEF TypeOK
    <2>6. \/ shown[Device[e]] = want[Device[e]]
          \/ \E f \in loads \cup failed : Device[f] = Device[e] /\ Ctime[f] = want[Device[e]]
      BY <2>1, <2>3 DEF PicturesAreAsked
    <2> QED BY <2>3, <2>4, <2>5, <2>6
  <1> QED BY <1>1, Invariance, PTL
=============================================================================
