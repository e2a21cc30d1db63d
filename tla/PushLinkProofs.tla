---------------------------- MODULE PushLinkProofs ----------------------------
(***************************************************************************)
(* Proofs about PushLink for every set of pushes and every bound.          *)
(***************************************************************************)
EXTENDS PushLink, FiniteSetTheorems, FunctionTheorems, TLAPS

(***************************************************************************)
(* The inductive invariant.  The writer is the last connection made and    *)
(* there is one only while run is on it, so that a new connection is made  *)
(* only when the one before it was closed.                                 *)
(***************************************************************************)

SockStates == {"free", "open", "dead", "lost", "closed"}

LinkTyped ==
    /\ sock \in [Conns -> SockStates]
    /\ writer \in Nat /\ dials \in Nat

WriterIsConn == writer # 0 => writer = conn /\ OnConn

\* The part of OneSocket that is not about where run is.
OpenIsWriter == \A c \in Conns : sock[c] \in {"open", "dead"} => writer = c

IInv == LinkTyped /\ WriterIsConn /\ OpenIsWriter

LEMMA ConnsArePositive == \A c \in Conns : c \in Nat /\ c # 0
  BY SourceAssumption DEF Conns

LEMMA OneSocketFollows == IInv => OneSocket
  BY ConnsArePositive DEF IInv, LinkTyped, WriterIsConn, OpenIsWriter, OneSocket

LEMMA InitInvariant == Init => IInv
  BY DEF Init, IInv, LinkTyped, WriterIsConn, OpenIsWriter, SockStates

(***************************************************************************)
(* Closing the writer leaves no connection open, wherever run goes next.   *)
(***************************************************************************)

LEMMA CloseWriterClosesAll ==
    ASSUME IInv, CloseWriter, UNCHANGED dials
    PROVE  IInv' /\ \A c \in Conns : sock'[c] \notin {"open", "dead"}
  <1> USE DEF IInv
  <1>1. LinkTyped'
    BY DEF LinkTyped, CloseWriter, SockStates
  <1>2. writer' = 0
    BY DEF CloseWriter
  <1>3. ASSUME NEW c \in Conns
        PROVE  sock'[c] \notin {"open", "dead"}
    <2>1. CASE writer = c
      BY <2>1, ConnsArePositive DEF CloseWriter, LinkTyped
    <2>2. CASE writer # c
      <3>1. sock'[c] = sock[c]
        BY <2>2 DEF CloseWriter, LinkTyped
      <3> QED BY <2>2, <3>1 DEF OpenIsWriter
    <2> QED BY <2>1, <2>2
  <1> QED BY <1>1, <1>2, <1>3 DEF WriterIsConn, OpenIsWriter

LEMMA RaiseInvariant ==
    ASSUME IInv, Raise
    PROVE  IInv'
  BY CloseWriterClosesAll DEF Raise

(***************************************************************************)
(* Steps that leave the sockets and the writer as they are.                *)
(***************************************************************************)

\* Off the connection there is no writer, so run may go anywhere; on it, it has to stay.
LEMMA MoveInvariant ==
    ASSUME IInv, UNCHANGED <<sock, writer, dials>>, OnConn => OnConn'
    PROVE  IInv'
  BY DEF IInv, LinkTyped, WriterIsConn, OpenIsWriter, conn

\* A connection that breaks, and a break that comes to light.
LEMMA SocketWorsens ==
    ASSUME IInv, NEW c, NEW how \in {"lost", "dead"},
           sock[c] \in {"open", "dead"}, sock' = [sock EXCEPT ![c] = how],
           UNCHANGED <<at, writer, dials>>
    PROVE  IInv'
  <1>1. LinkTyped' /\ WriterIsConn'
    BY DEF IInv, LinkTyped, SockStates, WriterIsConn, conn, OnConn
  <1>2. ASSUME NEW d \in Conns, sock'[d] \in {"open", "dead"}
        PROVE  writer' = d
    <2>1. sock[d] \in {"open", "dead"}
      BY <1>2 DEF IInv, LinkTyped
    <2> QED BY <2>1 DEF IInv, OpenIsWriter
  <1> QED BY <1>1, <1>2 DEF IInv, OpenIsWriter

LEMMA ConnectInvariant ==
    ASSUME IInv, Connect
    PROVE  IInv'
  <1> USE DEF IInv, Connect, Step
  <1>1. LinkTyped'
    <2>1. sock' \in [Conns -> SockStates]
      BY Zenon DEF LinkTyped, SockStates
    <2>2. writer' \in Nat /\ dials' \in Nat
      BY DEF LinkTyped
    <2> QED BY <2>1, <2>2 DEF LinkTyped
  <1>2. WriterIsConn'
    BY DEF WriterIsConn, conn, OnConn
  <1>3. writer = 0
    BY DEF WriterIsConn, OnConn
  <1>4. ASSUME NEW c \in Conns, sock'[c] \in {"open", "dead"}
        PROVE  writer' = c
    <2>1. CASE c = dials + 1
      BY <2>1
    <2>2. CASE c # dials + 1
      <3>1. sock[c] \in {"open", "dead"}
        BY <1>4, <2>2 DEF LinkTyped
      <3> QED BY <1>3, <3>1, ConnsArePositive DEF OpenIsWriter
    <2> QED BY <2>1, <2>2
  <1> QED BY <1>1, <1>2, <1>4 DEF OpenIsWriter

LEMMA RunInvariant ==
    ASSUME IInv, RunSteps
    PROVE  IInv'
  <1>1. CASE Prepare
    <2>1. UNCHANGED <<sock, writer, dials>> /\ ~OnConn
      BY <1>1 DEF Prepare, Step, OnConn
    <2> QED BY <2>1, MoveInvariant
  <1>2. CASE Connect
    BY <1>2, ConnectInvariant
  <1>3. CASE Drained
    <2>1. UNCHANGED <<sock, writer, dials>> /\ OnConn'
      BY <1>3 DEF Drained, Step, OnConn
    <2> QED BY <2>1, MoveInvariant
  <1>4. CASE ReadMessage
    <2>1. CASE Raise
      BY <2>1, RaiseInvariant
    <2>2. CASE ~Raise
      <3>1. UNCHANGED <<sock, writer, dials>> /\ OnConn'
        BY <1>4, <2>2 DEF ReadMessage, OnConn
      <3> QED BY <3>1, MoveInvariant
    <2> QED BY <2>1, <2>2
  <1>5. CASE ReadPush
    <2>1. UNCHANGED <<sock, writer, dials, at>>
      BY <1>5 DEF ReadPush, SameTask, task
    <2> QED BY <2>1, MoveInvariant DEF OnConn
  <1>6. CASE Disconnected
    BY <1>6, RaiseInvariant DEF Disconnected
  <1>7. CASE WaitEnds
    <2>1. UNCHANGED <<sock, writer, dials>> /\ ~OnConn
      BY <1>7 DEF WaitEnds, Step, OnConn
    <2> QED BY <2>1, MoveInvariant
  <1> QED BY <1>1, <1>2, <1>3, <1>4, <1>5, <1>6, <1>7 DEF RunSteps

LEMMA NextInvariant ==
    ASSUME IInv, [Next]_vars
    PROVE  IInv'
  <1>1. CASE AckBind \/ SendPush \/ TakeAck \/ UNCHANGED vars
    <2>1. UNCHANGED <<sock, writer, dials, at>>
      BY <1>1 DEF AckBind, SendPush, TakeAck, SameTask, task, vars
    <2> QED BY <2>1, MoveInvariant DEF OnConn
  <1>2. CASE Break
    BY <1>2, SocketWorsens DEF Break, SameTask, task
  <1>3. CASE RunSteps
    BY <1>3, RunInvariant
  <1>4. CASE PrepareFails
    BY <1>4, RaiseInvariant DEF PrepareFails
  <1>5. ASSUME NEW c \in Conns, Beat(c)
        PROVE  IInv'
    <2>1. UNCHANGED <<at, writer, dials>>
      BY <1>5 DEF Beat, task
    <2>2. CASE sock[c] = "dead"
      BY <1>5, <2>1, <2>2, SocketWorsens DEF Beat
    <2>3. CASE sock[c] # "dead"
      <3>1. UNCHANGED sock
        BY <1>5, <2>3 DEF Beat
      <3> QED BY <2>1, <3>1, MoveInvariant DEF OnConn
    <2> QED BY <2>2, <2>3
  <1>6. CASE Stop \/ Cancelled
    <2>1. CloseWriter /\ UNCHANGED dials
      BY <1>6 DEF Stop, Cancelled
    <2> QED BY <2>1, CloseWriterClosesAll
  <1> QED BY <1>1, <1>2, <1>3, <1>4, <1>5, <1>6 DEF Next

\* The invariant holds in every state: each step of run, the heartbeats and the gateway
\* preserves it.
THEOREM Invariance == Spec => []IInv
  BY InitInvariant, NextInvariant, PTL DEF Spec

(***************************************************************************)
(* The theorems.                                                           *)
(***************************************************************************)

\* At most one socket is open, the one that run is on and that stop would close
\* (_session_once, _close_writer).
THEOREM SocketUnique == Spec => []OneSocket
  BY Invariance, OneSocketFollows, PTL

\* Once the entry is unloaded no socket is open, from the very step of stop on, and none is
\* opened again before run sees its cancellation (stop, run).
NoSocketAfterStop == closing => writer = 0 /\ \A c \in Conns : sock[c] \notin {"open", "dead"}

THEOREM StopClosesTheSocket == Spec => []NoSocketAfterStop
  <1>1. Init => NoSocketAfterStop
    BY DEF Init, NoSocketAfterStop
  <1>2. ASSUME IInv, NoSocketAfterStop, [Next]_vars
        PROVE  NoSocketAfterStop'
    <2>1. CASE Stop \/ Cancelled
      <3>1. CloseWriter /\ UNCHANGED dials
        BY <2>1 DEF Stop, Cancelled
      <3> QED BY <1>2, <3>1, CloseWriterClosesAll DEF NoSocketAfterStop, CloseWriter
    <2>2. CASE RunSteps \/ PrepareFails
      BY <2>2 DEF RunSteps, PrepareFails, Prepare, Connect, Drained, ReadMessage, ReadPush, Disconnected,
                  WaitEnds, Step, Received, Raise, SameTask, task, NoSocketAfterStop
    <2>3. CASE Break
      <3>1. closing => UNCHANGED <<sock, writer, closing>>
        BY <1>2, <2>3 DEF Break, SameTask, task, IInv, LinkTyped, NoSocketAfterStop
      <3> QED BY <1>2, <2>3, <3>1 DEF NoSocketAfterStop, Break, SameTask, task
    <2>4. CASE \E c \in Conns : Beat(c)
      <3>1. PICK c \in Conns : Beat(c)
        BY <2>4
      <3>2. UNCHANGED <<writer, closing>>
        BY <3>1 DEF Beat, task
      <3>3. closing => UNCHANGED sock
        BY <1>2, <3>1 DEF Beat, NoSocketAfterStop
      <3> QED BY <1>2, <3>2, <3>3 DEF NoSocketAfterStop
    <2>5. CASE AckBind \/ SendPush \/ TakeAck \/ UNCHANGED vars
      <3>1. UNCHANGED <<sock, writer, closing>>
        BY <2>5 DEF AckBind, SendPush, TakeAck, SameTask, task, vars
      <3> QED BY <1>2, <3>1 DEF NoSocketAfterStop
    <2> QED BY <1>2, <2>1, <2>2, <2>3, <2>4, <2>5 DEF Next
  <1> QED BY <1>1, <1>2, Invariance, PTL DEF Spec

(***************************************************************************)
(* Type correctness.  Two bounds of it are not local.  A connection is     *)
(* made only when a fault has been paid for every one before it, so the    *)
(* connections do not run out; and a heartbeat is started only for an      *)
(* acknowledgement of the bind that was read, so heartbeats do not.        *)
(***************************************************************************)

\* The acknowledgements of the bind that wait in an inbox.
AckPlaces(s) == {i \in DOMAIN s : s[i] = "bind_ack"}
Acks(s) == Cardinality(AckPlaces(s))

\* The refusal of the bind waits in an inbox.
Refused(s) == \E i \in DOMAIN s : s[i] = "bind_refused"

\* A connection not made yet has heard nothing.
FreshBeyond == \A c \in Conns : c > dials => inbox[c] = <<>> /\ bound[c] = 0

\* Every connection but the last was paid for by a fault, and the last one too once run
\* has left it, or it broke, or its bind was refused.
DialsPaid ==
    /\ dials <= faults + 1
    /\ ~closing /\ (\/ ~OnConn
                    \/ sock[conn] \in {"dead", "lost"}
                    \/ Refused(inbox[conn])) => dials <= faults
    /\ OnConn => dials # 0

\* A heartbeat stands for an acknowledgement of the bind, and so does the alias that is
\* being sent.
Answered == IF at = "alias" THEN beat + 1 ELSE beat
BeatsPaid ==
    /\ ~OnConn => beat = 0
    /\ OnConn => Acks(inbox[conn]) + Answered <= bound[conn]

JInv == TypeOK /\ FreshBeyond /\ DialsPaid /\ BeatsPaid

\* Counting the acknowledgements in an inbox.
LEMMA AcksFinite ==
    ASSUME NEW s \in Seq(Messages)
    PROVE  IsFiniteSet(AckPlaces(s)) /\ Acks(s) \in Nat /\ DOMAIN s = 1..Len(s)
  <1>1. DOMAIN s = 1..Len(s) /\ Len(s) \in Nat
    OBVIOUS
  <1>2. IsFiniteSet(1..Len(s))
    BY <1>1, FS_Interval
  <1>3. AckPlaces(s) \in SUBSET (1..Len(s))
    BY <1>1 DEF AckPlaces
  <1> QED BY <1>1, <1>2, <1>3, FS_Subset, FS_CardinalityType DEF Acks

LEMMA AcksEmpty == Acks(<<>>) = 0
  <1>1. AckPlaces(<<>>) = {}
    BY DEF AckPlaces
  <1> QED BY <1>1, FS_EmptySet DEF Acks

LEMMA AcksAppend ==
    ASSUME NEW s \in Seq(Messages), NEW m \in Messages
    PROVE  Acks(Append(s, m)) = IF m = "bind_ack" THEN Acks(s) + 1 ELSE Acks(s)
  <1> DEFINE t == Append(s, m)
             n == Len(s)
  <1>1. /\ t \in Seq(Messages) /\ n \in Nat
        /\ DOMAIN t = 1..n+1 /\ DOMAIN s = 1..n
        /\ t[n + 1] = m /\ \A i \in 1..n : t[i] = s[i]
    OBVIOUS
  <1>2. AckPlaces(t) = IF m = "bind_ack" THEN AckPlaces(s) \cup {n + 1} ELSE AckPlaces(s)
    <2> HIDE DEF t, n
    <2> QED BY <1>1 DEF AckPlaces
  <1>3. n + 1 \notin AckPlaces(s)
    BY <1>1 DEF AckPlaces
  <1> QED BY <1>2, <1>3, AcksFinite, FS_AddElement DEF Acks

LEMMA AcksTail ==
    ASSUME NEW s \in Seq(Messages), s # <<>>
    PROVE  Acks(Tail(s)) = IF Head(s) = "bind_ack" THEN Acks(s) - 1 ELSE Acks(s)
  <1> DEFINE t == Tail(s)
             n == Len(s)
             f == [i \in AckPlaces(t) |-> i + 1]
             later == AckPlaces(s) \ {1}
  <1>1. /\ t \in Seq(Messages) /\ n \in Nat \ {0}
        /\ DOMAIN t = 1..n-1 /\ DOMAIN s = 1..n
        /\ Head(s) = s[1] /\ \A i \in 1..n-1 : t[i] = s[i + 1]
    OBVIOUS
  <1>2. 1 \in AckPlaces(s) <=> Head(s) = "bind_ack"
    BY <1>1 DEF AckPlaces
  <1>3. IsFiniteSet(AckPlaces(s)) /\ IsFiniteSet(AckPlaces(t))
    BY <1>1, AcksFinite
  <1>4. f \in Bijection(AckPlaces(t), later)
    <2> HIDE DEF t, n
    <2>1. AckPlaces(t) \subseteq 1..n-1
      BY <1>1 DEF AckPlaces
    <2>2. \A i \in AckPlaces(t) : i + 1 \in later
      BY <1>1, <2>1 DEF AckPlaces
    <2>3. f \in [AckPlaces(t) -> later] /\ \A a, b \in AckPlaces(t) : f[a] = f[b] => a = b
      BY <2>1, <2>2
    <2>4. ASSUME NEW j \in later PROVE \E i \in AckPlaces(t) : f[i] = j
      <3>1. j \in 2..n /\ s[j] = "bind_ack"
        BY <1>1 DEF AckPlaces
      <3>2. j - 1 \in 1..n-1 /\ (j - 1) + 1 = j
        BY <1>1, <3>1
      <3>3. j - 1 \in AckPlaces(t)
        BY <1>1, <3>1, <3>2 DEF AckPlaces
      <3> QED BY <3>2, <3>3
    <2> HIDE DEF f, later
    <2> QED BY <2>3, <2>4, Fun_IsBij
  <1>5. Cardinality(later) = Cardinality(AckPlaces(t))
    BY <1>3, <1>4, FS_Bijection, Fun_ExistsBij
  <1>6. Cardinality(later) = IF 1 \in AckPlaces(s) THEN Acks(s) - 1 ELSE Acks(s)
    BY <1>3, FS_RemoveElement DEF Acks
  <1> QED BY <1>2, <1>5, <1>6 DEF Acks

LEMMA InitJInv == Init => JInv
  <1> SUFFICES ASSUME Init PROVE JInv
    OBVIOUS
  <1> USE SourceAssumption DEF Init
  <1>1. closing \in BOOLEAN
    BY Zenon
  <1>2. sock \in [Conns -> {"free", "open", "dead", "lost", "closed"}]
    BY Zenon
  <1>3. TypeOK
    BY <1>1, <1>2 DEF TypeOK, Points
  <1>4. FreshBeyond /\ DialsPaid /\ BeatsPaid
    BY DEF FreshBeyond, DialsPaid, BeatsPaid, OnConn
  <1> QED BY <1>3, <1>4 DEF JInv

\* The connection run is on is one of Conns.
LEMMA OnConnIs ==
    ASSUME TypeOK, DialsPaid, OnConn
    PROVE  conn \in Conns
  BY SourceAssumption DEF TypeOK, DialsPaid, conn, Conns

\* A step that leaves run where it is, the inboxes and the faults alone, and breaks no
\* connection.
LEMMA QuietStep ==
    ASSUME JInv, UNCHANGED <<at, dials, beat, inbox, bound, faults>>,
           closing' = closing, TypeOK',
           OnConn => (sock'[conn] \in {"dead", "lost"} => sock[conn] \in {"dead", "lost"})
    PROVE  JInv'
  <1>1. FreshBeyond'
    BY DEF JInv, FreshBeyond
  <1>2. DialsPaid'
    BY DEF JInv, DialsPaid, OnConn, conn
  <1>3. BeatsPaid'
    BY DEF JInv, BeatsPaid, OnConn, conn, Answered
  <1> QED BY <1>1, <1>2, <1>3 DEF JInv

\* What run is told on its connection.
LEMMA AckBindJ ==
    ASSUME JInv, AckBind
    PROVE  JInv'
  <1> USE SourceAssumption DEF SameTask, task
  <1>0. TypeOK /\ FreshBeyond /\ DialsPaid /\ BeatsPaid /\ OnConn
    BY DEF JInv, AckBind
  <1>1. conn \in Conns /\ conn = dials /\ inbox[conn] \in Seq(Messages) /\ bound[conn] \in 0..MaxAcks
    BY <1>0, OnConnIs DEF TypeOK, conn
  <1>2. beat \in Nat /\ Answered \in Nat /\ faults \in Nat /\ dials \in Nat
    BY <1>0 DEF TypeOK, Answered, Beats, Conns
  <1>3. /\ UNCHANGED <<at, backoff, closing, writer, beat, dials, beats, sock, alias, acked, owed, handled>>
    BY DEF AckBind
  <1>4. \E m \in {"bind_ack", "bind_refused"} :
           /\ inbox' = [inbox EXCEPT ![conn] = Append(@, m)]
           /\ m = "bind_ack" => /\ bound' = [bound EXCEPT ![conn] = @ + 1]
                                /\ bound[conn] < MaxAcks /\ faults' = faults
           /\ m = "bind_refused" => /\ bound' = [bound EXCEPT ![conn] = MaxAcks]
                                    /\ faults < MaxFaults /\ faults' = faults + 1
    BY DEF AckBind, Send
  <1>5. PICK m \in {"bind_ack", "bind_refused"} :
           /\ inbox' = [inbox EXCEPT ![conn] = Append(@, m)]
           /\ m = "bind_ack" => /\ bound' = [bound EXCEPT ![conn] = @ + 1]
                                /\ bound[conn] < MaxAcks /\ faults' = faults
           /\ m = "bind_refused" => /\ bound' = [bound EXCEPT ![conn] = MaxAcks]
                                    /\ faults < MaxFaults /\ faults' = faults + 1
    BY <1>4
  <1>6. /\ m \in Messages /\ inbox'[conn] = Append(inbox[conn], m)
        /\ Append(inbox[conn], m) \in Seq(Messages)
        /\ \A c \in Conns \ {conn} : inbox'[c] = inbox[c] /\ bound'[c] = bound[c]
    <2>1. m \in Messages
      BY DEF Messages
    <2>2. inbox'[conn] = Append(inbox[conn], m) /\ Append(inbox[conn], m) \in Seq(Messages)
      BY <1>0, <1>1, <1>5, <2>1 DEF TypeOK
    <2> QED BY <1>0, <1>5, <2>1, <2>2 DEF TypeOK
  <1>7. TypeOK'
    <2>1. inbox' \in [Conns -> Seq(Messages)]
      BY <1>0, <1>5, <1>6 DEF TypeOK
    <2>2. bound' \in [Conns -> 0..MaxAcks]
      BY <1>0, <1>1, <1>5 DEF TypeOK
    <2>3. faults' \in 0..MaxFaults
      BY <1>0, <1>5 DEF TypeOK
    <2>4. closing' \in BOOLEAN
      BY <1>0, <1>3, Zenon DEF TypeOK
    <2> QED BY <1>0, <1>3, <2>1, <2>2, <2>3, <2>4 DEF TypeOK
  <1>8. FreshBeyond'
    <2> SUFFICES ASSUME NEW c \in Conns, c > dials PROVE inbox'[c] = <<>> /\ bound'[c] = 0
      BY <1>3 DEF FreshBeyond
    <2>1. c # conn
      BY <1>1, <1>2
    <2> QED BY <2>1, <1>0, <1>6 DEF FreshBeyond
  <1>9. DialsPaid'
    <2>1. CASE m = "bind_refused"
      BY <2>1, <1>0, <1>2, <1>3, <1>5 DEF DialsPaid, OnConn
    <2>2. CASE m = "bind_ack"
      <3>1. Refused(inbox'[conn]) => Refused(inbox[conn])
        <4>1. \A i \in DOMAIN inbox'[conn] :
                 inbox'[conn][i] = "bind_refused"
                 => i \in DOMAIN inbox[conn] /\ inbox[conn][i] = "bind_refused"
          BY <1>1, <1>6, <2>2
        <4> QED BY <4>1 DEF Refused
      <3> QED BY <2>2, <3>1, <1>0, <1>3, <1>5 DEF DialsPaid, OnConn, conn
    <2> QED BY <2>1, <2>2
  <1>10. BeatsPaid'
    <2>1. Acks(inbox'[conn]) = IF m = "bind_ack" THEN Acks(inbox[conn]) + 1 ELSE Acks(inbox[conn])
      BY <1>1, <1>6, AcksAppend
    <2>2. bound'[conn] = IF m = "bind_ack" THEN bound[conn] + 1 ELSE MaxAcks
      BY <1>0, <1>1, <1>5 DEF TypeOK
    <2>3. Acks(inbox[conn]) + Answered <= bound[conn]
      BY <1>0 DEF BeatsPaid
    <2>4. Acks(inbox[conn]) \in Nat
      BY <1>1, AcksFinite
    <2>5. Acks(inbox'[conn]) + Answered <= bound'[conn]
      BY <2>1, <2>2, <2>3, <2>4, <1>1, <1>2
    <2> QED BY <2>5, <1>0, <1>3 DEF BeatsPaid, OnConn, Answered, conn
  <1> QED BY <1>7, <1>8, <1>9, <1>10 DEF JInv

\* A push is no answer to the bind.
LEMMA SendPushJ ==
    ASSUME JInv, SendPush
    PROVE  JInv'
  <1> USE SourceAssumption DEF SameTask, task, gateway
  <1>0. TypeOK /\ FreshBeyond /\ DialsPaid /\ BeatsPaid
    BY DEF JInv
  <1>1. PICK p \in owed : inbox' = [inbox EXCEPT ![conn] = Append(@, p)]
    BY DEF SendPush, Send
  <1>2. p \in Pushes /\ p \in Messages /\ p # "bind_ack" /\ p # "bind_refused"
    BY <1>0 DEF TypeOK, Messages
  <1>3. UNCHANGED <<at, backoff, closing, writer, beat, dials, beats, sock, bound, alias, owed,
                    acked, handled, faults>>
    BY DEF SendPush
  <1>4. conn \in Conns /\ conn = dials /\ inbox[conn] \in Seq(Messages)
    BY <1>0 DEF SendPush, TypeOK, conn
  <1>5. /\ inbox'[conn] = Append(inbox[conn], p)
        /\ Append(inbox[conn], p) \in Seq(Messages)
        /\ \A c \in Conns \ {conn} : inbox'[c] = inbox[c]
        /\ inbox' \in [Conns -> Seq(Messages)]
    <2>1. inbox'[conn] = Append(inbox[conn], p) /\ Append(inbox[conn], p) \in Seq(Messages)
      BY <1>0, <1>1, <1>2, <1>4 DEF TypeOK
    <2> QED BY <2>1, <1>0, <1>1, <1>4 DEF TypeOK
  <1>6. TypeOK'
    <2>1. closing' \in BOOLEAN
      BY <1>0, <1>3, Zenon DEF TypeOK
    <2> QED BY <2>1, <1>0, <1>3, <1>5 DEF TypeOK
  <1>7. FreshBeyond'
    <2> SUFFICES ASSUME NEW c \in Conns, c > dials PROVE inbox'[c] = <<>> /\ bound'[c] = 0
      BY <1>3 DEF FreshBeyond
    <2>1. c # conn
      BY <1>0, <1>4 DEF TypeOK, Conns
    <2> QED BY <2>1, <1>0, <1>3, <1>5 DEF FreshBeyond
  <1>8. DialsPaid'
    <2>1. Refused(inbox'[conn]) => Refused(inbox[conn])
      <3>1. \A i \in DOMAIN inbox'[conn] :
               inbox'[conn][i] = "bind_refused"
               => i \in DOMAIN inbox[conn] /\ inbox[conn][i] = "bind_refused"
        BY <1>2, <1>4, <1>5
      <3> QED BY <3>1 DEF Refused
    <2> QED BY <2>1, <1>0, <1>3 DEF DialsPaid, OnConn, conn
  <1>9. BeatsPaid'
    <2>1. Acks(inbox'[conn]) = Acks(inbox[conn])
      BY <1>2, <1>4, <1>5, AcksAppend
    <2> QED BY <2>1, <1>0, <1>3 DEF BeatsPaid, OnConn, conn, Answered
  <1> QED BY <1>6, <1>7, <1>8, <1>9 DEF JInv

\* The break is the fault that pays for the connection.
LEMMA BreakJ ==
    ASSUME JInv, Break
    PROVE  JInv'
  <1> USE SourceAssumption DEF SameTask, task, gateway
  <1>0. TypeOK /\ FreshBeyond /\ DialsPaid /\ BeatsPaid /\ OnConn
    BY DEF JInv, Break
  <1>1. /\ UNCHANGED <<at, backoff, closing, writer, beat, dials, beats, inbox, bound, alias, owed,
                       handled>>
        /\ faults < MaxFaults /\ faults' = faults + 1
        /\ acked' \in SUBSET acked
        /\ \E how \in {"lost", "dead"} : sock' = [sock EXCEPT ![conn] = how]
    BY DEF Break
  <1>2. TypeOK'
    <2>1. closing' \in BOOLEAN
      BY <1>0, <1>1, Zenon DEF TypeOK
    <2>2. sock' \in [Conns -> {"free", "open", "dead", "lost", "closed"}]
      BY <1>0, <1>1 DEF TypeOK
    <2>3. faults' \in 0..MaxFaults
      BY <1>0, <1>1 DEF TypeOK
    <2>4. acked' \in SUBSET (Conns \X Pushes)
      BY <1>0, <1>1, Zenon DEF TypeOK
    <2> QED BY <2>1, <2>2, <2>3, <2>4, <1>0, <1>1 DEF TypeOK
  <1>3. FreshBeyond'
    BY <1>0, <1>1 DEF FreshBeyond
  <1>4. DialsPaid'
    <2>1. dials \in Int /\ faults \in Int
      BY <1>0 DEF TypeOK, Conns
    <2> QED BY <2>1, <1>0, <1>1 DEF DialsPaid, OnConn
  <1>5. BeatsPaid'
    BY <1>0, <1>1 DEF BeatsPaid, OnConn, conn, Answered
  <1> QED BY <1>2, <1>3, <1>4, <1>5 DEF JInv

\* Run leaves the connection: the one it leaves is paid for.
LEMMA RaiseJ ==
    ASSUME JInv, Raise, UNCHANGED <<bound, alias, owed, acked, handled>>,
           faults' \in 0..MaxFaults, inbox' \in [Conns -> Seq(Messages)],
           \A c \in Conns : c > dials => inbox'[c] = inbox[c],
           dials <= faults'
    PROVE  JInv'
  <1> USE SourceAssumption
  <1>0. TypeOK /\ FreshBeyond
    BY DEF JInv
  <1>1. /\ at' = "wait" /\ UNCHANGED <<backoff, closing, dials>> /\ beat' = 0
        /\ CancelBeat /\ CloseWriter
    BY DEF Raise, CancelBeat
  <1>2. TypeOK'
    <2>1. closing' \in BOOLEAN
      BY <1>0, <1>1, Zenon DEF TypeOK
    <2>2. sock' \in [Conns -> {"free", "open", "dead", "lost", "closed"}] /\ writer' \in Conns \cup {0}
      BY <1>0, <1>1 DEF TypeOK, CloseWriter
    <2>3. beats' \in [Conns -> SUBSET Beats] /\ beat' \in Beats \cup {0}
      BY <1>0, <1>1 DEF TypeOK, CancelBeat
    <2>4. at' \in Points
      BY <1>1 DEF Points
    <2> QED BY <2>1, <2>2, <2>3, <2>4, <1>0, <1>1 DEF TypeOK
  <1>3. FreshBeyond'
    BY <1>0, <1>1 DEF FreshBeyond
  <1>4. DialsPaid'
    <2>1. dials \in Int /\ faults' \in Int
      BY <1>0 DEF TypeOK, Conns
    <2>2. \A a, b \in Int : a <= b => a <= b + 1
      OBVIOUS
    <2>3. dials' = dials
      BY <1>1
    <2>4. dials' <= faults' /\ dials' <= faults' + 1
      BY <2>1, <2>2, <2>3, Zenon
    <2>5. ~OnConn'
      BY <1>1 DEF OnConn
    <2> QED BY <2>4, <2>5 DEF DialsPaid
  <1>5. BeatsPaid'
    BY <1>1 DEF BeatsPaid, OnConn
  <1> QED BY <1>2, <1>3, <1>4, <1>5 DEF JInv

\* The next connection is one of Conns, and nothing was heard on it.
LEMMA ConnectJ ==
    ASSUME JInv, Connect
    PROVE  JInv'
  <1> USE SourceAssumption DEF gateway
  <1>0. TypeOK /\ FreshBeyond /\ DialsPaid /\ BeatsPaid /\ ~OnConn /\ ~closing
    BY DEF JInv, Connect, Step, OnConn
  <1>1. /\ at' = "bind" /\ dials' = dials + 1 /\ writer' = dials + 1
        /\ sock' = [sock EXCEPT ![dials + 1] = "open"]
        /\ UNCHANGED <<backoff, closing, beat, beats, inbox, bound, alias, owed, acked, handled, faults>>
    BY DEF Connect, Step
  <1>2. dials <= faults /\ dials \in Nat /\ faults \in 0..MaxFaults
    BY <1>0 DEF DialsPaid, TypeOK, Conns
  <1>3. dials + 1 \in Conns
    BY <1>2 DEF Conns
  <1>4. inbox[dials + 1] = <<>> /\ bound[dials + 1] = 0 /\ beat = 0
    BY <1>0, <1>2, <1>3 DEF FreshBeyond, BeatsPaid
  <1>5. TypeOK'
    <2>1. closing' \in BOOLEAN
      BY <1>0, <1>1, Zenon DEF TypeOK
    <2>2. sock' \in [Conns -> {"free", "open", "dead", "lost", "closed"}]
      BY <1>0, <1>1 DEF TypeOK
    <2>3. at' \in Points
      BY <1>1 DEF Points
    <2> QED BY <2>1, <2>2, <2>3, <1>0, <1>1, <1>3 DEF TypeOK
  <1>6. FreshBeyond'
    <2>1. \A c \in Conns : c > dials + 1 => c > dials
      BY <1>2 DEF Conns
    <2> QED BY <2>1, <1>0, <1>1 DEF FreshBeyond
  <1>7. DialsPaid'
    <2>1. sock'[dials + 1] = "open"
      BY <1>0, <1>1, <1>3 DEF TypeOK
    <2>2. ~Refused(inbox[dials + 1])
      BY <1>4 DEF Refused
    <2> QED BY <2>1, <2>2, <1>0, <1>1, <1>2 DEF DialsPaid, OnConn, conn
  <1>8. BeatsPaid'
    BY <1>1, <1>4, AcksEmpty DEF BeatsPaid, OnConn, conn, Answered
  <1> QED BY <1>5, <1>6, <1>7, <1>8 DEF JInv

\* A drain returns; after the alias a heartbeat starts, in the place of the
\* acknowledgement that was read.
LEMMA DrainedJ ==
    ASSUME JInv, Drained
    PROVE  JInv'
  <1> USE SourceAssumption
  <1>0. TypeOK /\ FreshBeyond /\ DialsPaid /\ BeatsPaid /\ OnConn /\ OnConn'
    BY DEF JInv, Drained, Step, OnConn
  <1>1. /\ at' = "read" /\ ~closing /\ at \in {"bind", "alias"}
        /\ UNCHANGED <<backoff, closing, writer, dials, sock, inbox, bound, acked, owed, handled, faults>>
    BY DEF Drained, Step
  <1>2. conn \in Conns /\ conn = dials /\ inbox[conn] \in Seq(Messages) /\ bound[conn] \in 0..MaxAcks
    BY <1>0, OnConnIs DEF TypeOK, conn
  <1>3. Acks(inbox[conn]) \in Nat /\ Acks(inbox[conn]) + Answered <= bound[conn] /\ beat \in Nat
    BY <1>0, <1>2, AcksFinite DEF BeatsPaid, TypeOK, Beats
  <1>4. /\ beat' = Answered /\ Answered \in Beats \cup {0}
        /\ beats' \in [Conns -> SUBSET Beats] /\ alias' \in SUBSET Conns
    <2>1. CASE at = "bind"
      <3>1. UNCHANGED <<beat, beats, alias>>
        BY <2>1 DEF Drained, Step
      <3> QED BY <2>1, <3>1, <1>0 DEF TypeOK, Answered
    <2>2. CASE at = "alias"
      <3>1. StartBeat /\ alias' \in {alias, alias \cup {conn}}
        BY <2>2 DEF Drained, Step
      <3>2. Answered = beat + 1 /\ beat + 1 \in Beats
        BY <2>2, <1>2, <1>3 DEF Answered, Beats
      <3>3. alias' \in SUBSET Conns
        BY <3>1, <1>0, <1>2 DEF TypeOK
      <3> QED BY <3>1, <3>2, <3>3, <1>0 DEF StartBeat, TypeOK
    <2> QED BY <2>1, <2>2, <1>1
  <1>5. TypeOK'
    <2>1. closing' \in BOOLEAN
      BY <1>0, <1>1, Zenon DEF TypeOK
    <2>2. at' \in Points
      BY <1>1 DEF Points
    <2> QED BY <2>1, <2>2, <1>0, <1>1, <1>4 DEF TypeOK
  <1>6. FreshBeyond' /\ DialsPaid'
    BY <1>0, <1>1 DEF FreshBeyond, DialsPaid, OnConn, conn
  <1>7. BeatsPaid'
    BY <1>0, <1>1, <1>3, <1>4 DEF BeatsPaid, OnConn, conn, Answered
  <1> QED BY <1>5, <1>6, <1>7 DEF JInv

\* What is read leaves the inbox.
LEMMA ReadJ ==
    ASSUME JInv, NEW m, Received(m)
    PROVE  /\ conn \in Conns /\ conn = dials /\ inbox[conn] \in Seq(Messages) /\ OnConn
           /\ inbox' \in [Conns -> Seq(Messages)]
           /\ inbox'[conn] = Tail(inbox[conn])
           /\ \A c \in Conns : c > dials => inbox'[c] = inbox[c]
           /\ m = "bind_refused" => Refused(inbox[conn])
           /\ Refused(inbox'[conn]) => Refused(inbox[conn])
           /\ Acks(inbox'[conn]) = IF m = "bind_ack" THEN Acks(inbox[conn]) - 1 ELSE Acks(inbox[conn])
           /\ Acks(inbox[conn]) \in Nat
  <1> USE SourceAssumption
  <1>0. TypeOK /\ DialsPaid /\ OnConn
    BY DEF JInv, Received, OnConn
  <1>1. conn \in Conns /\ conn = dials /\ inbox[conn] \in Seq(Messages)
    BY <1>0, OnConnIs DEF TypeOK, conn
  <1> DEFINE s == inbox[conn]
  <1>2. s # <<>> /\ Head(s) = m /\ inbox' = [inbox EXCEPT ![conn] = Tail(@)]
    BY DEF Received
  <1>3. /\ inbox' \in [Conns -> Seq(Messages)] /\ inbox'[conn] = Tail(s)
        /\ \A c \in Conns : c # conn => inbox'[c] = inbox[c]
    <2>1. Tail(s) \in Seq(Messages)
      BY <1>1, <1>2
    <2> HIDE DEF s
    <2> QED BY <2>1, <1>0, <1>1, <1>2 DEF TypeOK, s
  <1>4. \A c \in Conns : c > dials => inbox'[c] = inbox[c]
    BY <1>1, <1>3 DEF Conns
  <1>5. /\ DOMAIN s = 1..Len(s) /\ Len(s) \in Nat \ {0} /\ s[1] = m
        /\ DOMAIN Tail(s) = 1..Len(s)-1 /\ \A i \in 1..Len(s)-1 : Tail(s)[i] = s[i + 1]
    BY <1>1, <1>2
  <1> HIDE DEF s
  <1>6. m = "bind_refused" => Refused(s)
    BY <1>5 DEF Refused
  <1>7. Refused(Tail(s)) => Refused(s)
    <2>1. \A i \in 1..Len(s)-1 : i + 1 \in DOMAIN s
      BY <1>5
    <2> QED BY <2>1, <1>5 DEF Refused
  <1>8. /\ Acks(Tail(s)) = IF m = "bind_ack" THEN Acks(s) - 1 ELSE Acks(s)
        /\ Acks(s) \in Nat
    BY <1>1, <1>2, AcksTail, AcksFinite DEF s
  <1> QED BY <1>0, <1>1, <1>3, <1>4, <1>6, <1>7, <1>8 DEF s

\* A refused bind is left, and was paid for when it was refused; an acknowledged one is
\* answered with the alias.
LEMMA ReadMessageJ ==
    ASSUME JInv, ReadMessage
    PROVE  JInv'
  <1> USE SourceAssumption DEF gateway
  <1>0. TypeOK /\ FreshBeyond /\ DialsPaid /\ BeatsPaid
    BY DEF JInv
  <1>1. CASE Received("bind_refused") /\ Raise
    <2>1. UNCHANGED <<bound, alias, owed, acked, handled, faults>>
      BY DEF ReadMessage
    <2>2. /\ inbox' \in [Conns -> Seq(Messages)] /\ Refused(inbox[conn])
          /\ \A c \in Conns : c > dials => inbox'[c] = inbox[c]
      BY <1>1, ReadJ
    <2>3. dials <= faults'
      BY <2>1, <2>2, <1>0, <1>1 DEF DialsPaid, Received
    <2>4. faults' \in 0..MaxFaults
      BY <2>1, <1>0 DEF TypeOK
    <2> QED BY <2>1, <2>2, <2>3, <2>4, <1>1, RaiseJ
  <1>2. CASE Received("bind_ack") /\ at' = "alias"
             /\ UNCHANGED <<backoff, closing, writer, beat, dials, beats, sock>>
    <2>1. UNCHANGED <<bound, alias, owed, acked, handled, faults>>
      BY DEF ReadMessage
    <2>2. /\ inbox' \in [Conns -> Seq(Messages)] /\ OnConn
          /\ \A c \in Conns : c > dials => inbox'[c] = inbox[c]
          /\ Refused(inbox'[conn]) => Refused(inbox[conn])
          /\ Acks(inbox'[conn]) = Acks(inbox[conn]) - 1
          /\ Acks(inbox[conn]) \in Nat
      BY <1>2, ReadJ
    <2>3. TypeOK'
      <3>1. closing' \in BOOLEAN
        BY <1>0, <1>2, Zenon DEF TypeOK
      <3>2. at' \in Points
        BY <1>2 DEF Points
      <3> QED BY <3>1, <3>2, <2>1, <2>2, <1>0, <1>2 DEF TypeOK
    <2>4. FreshBeyond'
      BY <2>1, <2>2, <1>0, <1>2 DEF FreshBeyond
    <2>5. DialsPaid'
      BY <2>1, <2>2, <1>0, <1>2 DEF DialsPaid, OnConn, conn
    <2>6. BeatsPaid'
      <3>1. at = "read" /\ beat \in Nat
        BY <1>0, <1>2 DEF Received, TypeOK, Beats
      <3>2. Acks(inbox[conn]) + beat <= bound[conn]
        BY <3>1, <2>2, <1>0 DEF BeatsPaid, Answered
      <3>3. Acks(inbox'[conn]) + (beat + 1) <= bound[conn]
        BY <3>1, <3>2, <2>2
      <3> QED BY <3>3, <2>1, <1>2 DEF BeatsPaid, OnConn, conn, Answered
    <2> QED BY <2>3, <2>4, <2>5, <2>6 DEF JInv
  <1> QED BY <1>1, <1>2 DEF ReadMessage

LEMMA ReadPushJ ==
    ASSUME JInv, ReadPush
    PROVE  JInv'
  <1> USE SourceAssumption DEF SameTask, task, gateway
  <1>0. TypeOK /\ FreshBeyond /\ DialsPaid /\ BeatsPaid
    BY DEF JInv
  <1>1. PICK p \in Pushes : Received(p) /\ HandlePush(p)
    BY DEF ReadPush
  <1>2. UNCHANGED <<at, backoff, closing, writer, beat, dials, beats, sock, bound, alias, owed, faults>>
    BY DEF ReadPush
  <1>3. /\ conn \in Conns /\ inbox' \in [Conns -> Seq(Messages)]
        /\ \A c \in Conns : c > dials => inbox'[c] = inbox[c]
        /\ Refused(inbox'[conn]) => Refused(inbox[conn])
        /\ Acks(inbox'[conn]) = Acks(inbox[conn])
    BY <1>1, ReadJ
  <1>4. TypeOK'
    <2>1. closing' \in BOOLEAN
      BY <1>0, <1>2, Zenon DEF TypeOK
    <2>2. acked' \in SUBSET (Conns \X Pushes) /\ handled' \in SUBSET Pushes
      BY <1>0, <1>1, <1>3 DEF HandlePush, TypeOK
    <2> QED BY <2>1, <2>2, <1>0, <1>2, <1>3 DEF TypeOK
  <1>5. FreshBeyond'
    BY <1>0, <1>2, <1>3 DEF FreshBeyond
  <1>6. DialsPaid' /\ BeatsPaid'
    BY <1>0, <1>2, <1>3 DEF DialsPaid, BeatsPaid, OnConn, conn, Answered
  <1> QED BY <1>4, <1>5, <1>6 DEF JInv

\* Off the connection run goes on towards the next one.
LEMMA PrepareJ ==
    ASSUME JInv, Prepare \/ WaitEnds
    PROVE  JInv'
  <1> USE SourceAssumption DEF gateway
  <1>0. TypeOK /\ FreshBeyond /\ DialsPaid /\ BeatsPaid
    BY DEF JInv
  <1>1. /\ ~OnConn /\ ~OnConn' /\ at' \in {"session", "dispatcher", "connect"}
        /\ backoff' \in {backoff, Longer}
        /\ UNCHANGED <<closing, writer, beat, dials, beats, sock, inbox, bound, alias, owed,
                       acked, handled, faults>>
    BY DEF Prepare, WaitEnds, Step, OnConn
  <1>2. TypeOK'
    <2>1. closing' \in BOOLEAN
      BY <1>0, <1>1, Zenon DEF TypeOK
    <2>2. backoff' \in MinWait..MaxWait
      BY <1>0, <1>1 DEF TypeOK, Longer
    <2>3. at' \in Points
      BY <1>1 DEF Points
    <2> QED BY <2>1, <2>2, <2>3, <1>0, <1>1 DEF TypeOK
  <1>3. FreshBeyond' /\ DialsPaid' /\ BeatsPaid'
    BY <1>0, <1>1 DEF FreshBeyond, DialsPaid, BeatsPaid
  <1> QED BY <1>2, <1>3 DEF JInv

LEMMA RunStepsJ ==
    ASSUME JInv, RunSteps
    PROVE  JInv'
  <1>1. CASE Prepare \/ WaitEnds
    BY <1>1, PrepareJ
  <1>2. CASE Connect
    BY <1>2, ConnectJ
  <1>3. CASE Drained
    BY <1>3, DrainedJ
  <1>4. CASE ReadMessage
    BY <1>4, ReadMessageJ
  <1>5. CASE ReadPush
    BY <1>5, ReadPushJ
  <1>6. CASE Disconnected
    <2>1. Raise /\ Lost /\ UNCHANGED <<inbox, bound, alias, owed, acked, handled, faults>>
      BY <1>6 DEF Disconnected, gateway
    <2>2. dials <= faults /\ faults \in 0..MaxFaults /\ inbox \in [Conns -> Seq(Messages)]
      BY <2>1 DEF JInv, DialsPaid, Lost, Raise, TypeOK
    <2> QED BY <2>1, <2>2, RaiseJ
  <1> QED BY <1>1, <1>2, <1>3, <1>4, <1>5, <1>6 DEF RunSteps

LEMMA PrepareFailsJ ==
    ASSUME JInv, PrepareFails
    PROVE  JInv'
  <1>1. Raise /\ ~OnConn /\ UNCHANGED <<inbox, bound, alias, owed, acked, handled>>
    BY DEF PrepareFails, gateway, OnConn
  <1>2. faults \in 0..MaxFaults /\ faults < MaxFaults /\ faults' = faults + 1
    BY DEF PrepareFails, JInv, TypeOK
  <1>3. dials <= faults /\ dials \in Int
    BY <1>1, SourceAssumption DEF JInv, DialsPaid, Raise, TypeOK, Conns
  <1>4. faults' \in 0..MaxFaults /\ dials <= faults'
    BY <1>2, <1>3, SourceAssumption
  <1>5. inbox' \in [Conns -> Seq(Messages)] /\ \A c \in Conns : inbox'[c] = inbox[c]
    BY <1>1 DEF JInv, TypeOK
  <1> QED BY <1>1, <1>4, <1>5, RaiseJ

LEMMA BeatJ ==
    ASSUME JInv, NEW c \in Conns, Beat(c)
    PROVE  JInv'
  <1> USE SourceAssumption DEF task, gateway
  <1>1. UNCHANGED <<at, backoff, closing, writer, beat, dials, inbox, bound, alias, owed, acked,
                    handled, faults>>
    BY DEF Beat
  <1>2. \/ sock[c] = "dead" /\ sock' = [sock EXCEPT ![c] = "lost"] /\ UNCHANGED beats
        \/ /\ \E b \in beats[c] : beats' = [beats EXCEPT ![c] = @ \ {b}]
           /\ UNCHANGED sock
    BY DEF Beat
  <1>3. TypeOK'
    <2>1. closing' \in BOOLEAN
      BY <1>1, Zenon DEF JInv, TypeOK
    <2>2. sock' \in [Conns -> {"free", "open", "dead", "lost", "closed"}]
      BY <1>2 DEF JInv, TypeOK
    <2>3. beats' \in [Conns -> SUBSET Beats]
      BY <1>2 DEF JInv, TypeOK
    <2> QED BY <2>1, <2>2, <2>3, <1>1 DEF JInv, TypeOK
  <1>4. sock'[conn] \in {"dead", "lost"} => sock[conn] \in {"dead", "lost"}
    <2>1. CASE sock[c] = "dead" /\ sock' = [sock EXCEPT ![c] = "lost"]
      BY <2>1 DEF JInv, TypeOK
    <2> QED BY <1>2, <2>1
  <1> QED BY <1>1, <1>3, <1>4, QuietStep

\* The unload: nothing is owed any more for the connection.
LEMMA UnloadJ ==
    ASSUME JInv, Stop \/ Cancelled
    PROVE  JInv'
  <1> USE SourceAssumption DEF gateway
  <1>0. TypeOK /\ FreshBeyond /\ DialsPaid /\ BeatsPaid
    BY DEF JInv
  <1>1. /\ closing' = TRUE /\ CloseWriter
        /\ UNCHANGED <<backoff, dials, inbox, bound, alias, owed, acked, handled, faults>>
        /\ \/ UNCHANGED <<at, beat, beats>>
           \/ at' = "ended" /\ CancelBeat
    BY DEF Stop, Cancelled
  <1>2. TypeOK'
    <2>1. closing' \in BOOLEAN
      BY <1>1
    <2>2. sock' \in [Conns -> {"free", "open", "dead", "lost", "closed"}] /\ writer' \in Conns \cup {0}
      BY <1>0, <1>1 DEF TypeOK, CloseWriter
    <2>3. beats' \in [Conns -> SUBSET Beats] /\ beat' \in Beats \cup {0}
      BY <1>0, <1>1 DEF TypeOK, CancelBeat
    <2>4. at' \in Points
      BY <1>0, <1>1 DEF Points, TypeOK
    <2> QED BY <2>1, <2>2, <2>3, <2>4, <1>0, <1>1 DEF TypeOK
  <1>3. FreshBeyond' /\ DialsPaid'
    BY <1>0, <1>1 DEF FreshBeyond, DialsPaid, OnConn
  <1>4. BeatsPaid'
    <2>1. CASE UNCHANGED <<at, beat, beats>>
      BY <2>1, <1>0, <1>1 DEF BeatsPaid, OnConn, conn, Answered
    <2>2. CASE at' = "ended" /\ CancelBeat
      BY <2>2 DEF BeatsPaid, OnConn, CancelBeat
    <2> QED BY <2>1, <2>2, <1>1
  <1> QED BY <1>2, <1>3, <1>4 DEF JInv

LEMMA NextJInv ==
    ASSUME JInv, [Next]_vars
    PROVE  JInv'
  <1>1. CASE AckBind
    BY <1>1, AckBindJ
  <1>2. CASE SendPush
    BY <1>2, SendPushJ
  <1>3. CASE TakeAck
    <2>1. /\ UNCHANGED <<at, backoff, closing, writer, beat, dials, beats, sock, inbox, bound,
                         alias, handled, faults>>
          /\ acked' \in SUBSET acked /\ owed' \in SUBSET owed
      BY <1>3 DEF TakeAck, SameTask, task
    <2>2. closing' \in BOOLEAN
      BY <2>1, Zenon DEF JInv, TypeOK
    <2>3. acked' \in SUBSET (Conns \X Pushes) /\ owed' \in SUBSET Pushes
      BY <2>1, Zenon DEF JInv, TypeOK
    <2>4. TypeOK'
      BY <2>1, <2>2, <2>3 DEF JInv, TypeOK
    <2> QED BY <2>1, <2>4, QuietStep
  <1>4. CASE Break
    BY <1>4, BreakJ
  <1>5. CASE RunSteps
    BY <1>5, RunStepsJ
  <1>6. CASE PrepareFails
    BY <1>6, PrepareFailsJ
  <1>7. CASE \E c \in Conns : Beat(c)
    BY <1>7, BeatJ
  <1>8. CASE Stop \/ Cancelled
    BY <1>8, UnloadJ
  <1>9. CASE UNCHANGED vars
    <2>1. UNCHANGED <<at, backoff, closing, writer, beat, dials, beats, sock, inbox, bound,
                      alias, owed, acked, handled, faults>>
      BY <1>9 DEF vars, task, gateway
    <2>2. closing' \in BOOLEAN
      BY <2>1, Zenon DEF JInv, TypeOK
    <2>3. TypeOK'
      BY <2>1, <2>2 DEF JInv, TypeOK
    <2> QED BY <2>1, <2>3, QuietStep
  <1> QED BY <1>1, <1>2, <1>3, <1>4, <1>5, <1>6, <1>7, <1>8, <1>9 DEF Next

\* Type correctness: neither the connections nor the heartbeats of one run out, and the
\* wait stays between its bounds (run, _session_once).
THEOREM LinkTypeCorrect == Spec => []TypeOK
  <1>1. JInv => TypeOK
    BY DEF JInv
  <1> QED BY <1>1, InitJInv, NextJInv, PTL DEF Spec

\* A connection is made again only after a fault: run never leaves a connection that
\* works for another one (run, _session_once).
RedialsArePaid == dials <= faults + 1

THEOREM NoIdleRedial == Spec => []RedialsArePaid
  <1>1. JInv => RedialsArePaid
    BY DEF JInv, DialsPaid, RedialsArePaid
  <1> QED BY <1>1, InitJInv, NextJInv, PTL DEF Spec

(***************************************************************************)
(* No push is given up.                                                    *)
(***************************************************************************)

\* The gateway forgets a push, and an acknowledgement is sent, only after the coordinator has
\* been called with it, whatever breaks in between (_handle_push).
NoPushGivenUp ==
    /\ \A c \in Conns, p \in Pushes : <<c, p>> \in acked => p \in handled
    /\ \A p \in Pushes : p \in owed \/ p \in handled

THEOREM PushesAreKept == Spec => []NoPushGivenUp
  <1>1. Init => NoPushGivenUp
    BY DEF Init, NoPushGivenUp
  <1>2. ASSUME NoPushGivenUp, [Next]_vars
        PROVE  NoPushGivenUp'
    <2>1. CASE TakeAck
      BY <1>2, <2>1 DEF TakeAck, NoPushGivenUp
    <2>2. CASE Break
      BY <1>2, <2>2 DEF Break, gateway, NoPushGivenUp
    <2>3. CASE ReadPush
      <3>1. PICK q \in Pushes : HandlePush(q)
        BY <2>3 DEF ReadPush
      <3>2. owed' = owed
        BY <2>3 DEF ReadPush, gateway
      <3> QED BY <1>2, <3>1, <3>2 DEF HandlePush, NoPushGivenUp
    <2>4. CASE ~(TakeAck \/ Break \/ ReadPush)
      <3>1. UNCHANGED <<acked, owed, handled>>
        BY <1>2, <2>4 DEF Next, RunSteps, vars, gateway, AckBind, SendPush, Prepare, Connect, Drained,
                          ReadMessage, Disconnected, WaitEnds, PrepareFails, Beat, Stop, Cancelled
      <3> QED BY <1>2, <3>1 DEF NoPushGivenUp
    <2> QED BY <2>1, <2>2, <2>3, <2>4
  <1> QED BY <1>1, <1>2, PTL DEF Spec
=============================================================================
