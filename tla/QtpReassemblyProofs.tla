------------------------ MODULE QtpReassemblyProofs --------------------------
(***************************************************************************)
(* For every plain stream (its numbers neither start at zero nor wrap, its *)
(* ciphertext never reads as a head), every number of datagrams, frame     *)
(* layout and gap limit: the reassembly hands over frames whole, once and  *)
(* in order, drops nothing new, and never stalls.                          *)
(***************************************************************************)
EXTENDS QtpReassembly, FiniteSetTheorems, WellFoundedInduction, TLAPS

\* Without a wrap the numbers on the wire are those sent.
LEMMA SnPlain ==
    ASSUME Plain, NEW d \in Datagrams
    PROVE  Sn(d) = StartSn + d
<1>1. StartSn + d \in Nat /\ StartSn + d < SnMod
  BY SourceAssumption DEF Plain, Datagrams
<1>2. \A m \in Nat \ {0}, x \in Nat : x < m => x % m = x
  OBVIOUS
<1> QED
  BY <1>1, <1>2, SourceAssumption DEF Sn

\* Numbers on the wire are numbers.
LEMMA SnTyped == \A d \in Datagrams : Sn(d) \in Int
  BY SourceAssumption DEF Sn, Datagrams

\* A drain appends the datagrams from one number to another, with none left out.
LEMMA RunIs ==
    ASSUME Plain, NEW S \in SUBSET Datagrams, NEW from \in Int, NEW to \in Int,
           DrainsTo(S, from, to)
    PROVE  /\ Run(S, from, to) \in Seq(Datagrams)
           /\ Len(Run(S, from, to)) = to - from
           /\ \A i \in 1..to-from : Run(S, from, to)[i] = from + i - StartSn
<1> USE SourceAssumption
<1>1. ASSUME NEW i \in 1..to-from
      PROVE  (CHOOSE d \in S : Sn(d) = from + i) = from + i - StartSn
  <2>1. from + i \in Sns(S)
    BY DEF DrainsTo
  <2>2. PICK e \in S : Sn(e) = from + i
    BY <2>1 DEF Sns
  <2>3. \A d \in S : Sn(d) = from + i <=> d = from + i - StartSn
    BY SnPlain DEF Datagrams
  <2> QED
    BY <2>2, <2>3
<1>2. ASSUME NEW i \in 1..to-from
      PROVE  from + i - StartSn \in Datagrams
  <2>1. from + i \in Sns(S)
    BY DEF DrainsTo
  <2>2. PICK e \in S : Sn(e) = from + i
    BY <2>1 DEF Sns
  <2> QED
    BY <2>2, SnPlain DEF Datagrams
<1>3. Run(S, from, to) = [i \in 1..to-from |-> from + i - StartSn]
  BY <1>1, Zenon DEF Run
<1>4. to - from \in Nat
  BY DEF DrainsTo
<1> QED
  BY <1>2, <1>3, <1>4

\* What a drain leaves is not in the order's way: past the next number.
LEMMA RestIs ==
    ASSUME Plain, NEW S \in SUBSET Datagrams, NEW from \in Int, NEW to \in Int,
           DrainsTo(S, from, to), \A d \in S : Sn(d) > from
    PROVE  /\ \A d \in Rest(S, from, to) : Sn(d) > to + 1
           /\ \A d \in S \ Rest(S, from, to) : Sn(d) <= to
           /\ from # to => \E d \in S \ Rest(S, from, to) : Sn(d) = to
<1> USE SourceAssumption DEF Datagrams
<1>1. ASSUME NEW d \in Rest(S, from, to) PROVE Sn(d) > to + 1
  BY <1>1, SnPlain DEF Rest, DrainsTo, Sns
<1>2. ASSUME NEW d \in S \ Rest(S, from, to) PROVE Sn(d) <= to
  BY <1>2, SnPlain DEF Rest, DrainsTo, Sns
<1>3. ASSUME from # to PROVE \E d \in S \ Rest(S, from, to) : Sn(d) = to
  <2>1. to \in from+1..to
    BY <1>3 DEF DrainsTo
  <2>2. PICK d \in S : Sn(d) = to
    BY <2>1 DEF DrainsTo, Sns
  <2> QED
    BY <2>1, <2>2 DEF Rest
<1> QED
  BY <1>1, <1>2, <1>3

\* A stream that ends at `from' is continued from there without a gap.
LEMMA Continued ==
    ASSUME Plain, NEW s \in Seq(Datagrams), NEW g \in SUBSET Nat, Marked(s, g),
           NEW r \in Seq(Datagrams), NEW from \in Int,
           s # <<>> => Sn(s[Len(s)]) = from,
           \A i \in 1..Len(r) : r[i] = from + i - StartSn
    PROVE  Marked(s \o r, g)
<1> USE SourceAssumption
<1> DEFINE t == s \o r
<1>1. Len(t) = Len(s) + Len(r) /\ t \in Seq(Datagrams)
  OBVIOUS
<1>2. \A i \in 1..Len(s) : t[i] = s[i]
  OBVIOUS
<1>3. \A i \in 1..Len(r) : t[Len(s) + i] = from + i - StartSn
  OBVIOUS
<1>4. s # <<>> => s[Len(s)] = from - StartSn /\ Len(s) \in 1..Len(s)
  <2> SUFFICES ASSUME s # <<>> PROVE s[Len(s)] = from - StartSn /\ Len(s) \in 1..Len(s)
    OBVIOUS
  <2>1. s[Len(s)] \in Datagrams /\ Len(s) \in 1..Len(s)
    OBVIOUS
  <2> QED
    BY <2>1, SnPlain DEF Datagrams
<1> SUFFICES ASSUME NEW i \in 1..Len(t), NEW j \in 1..Len(t), i < j
             PROVE  \/ t[j] = t[i] + (j - i)
                    \/ /\ t[j] > t[i] + (j - i)
                       /\ \E x \in g : i <= x /\ x < j
  BY DEF Marked
<1> HIDE DEF t
<1> USE <1>1
<1>8. Len(s) \in Nat /\ Len(r) \in Nat /\ i \in Nat /\ j \in Nat
  OBVIOUS
<1>5. CASE j <= Len(s)
  <2>1. i \in 1..Len(s) /\ j \in 1..Len(s) /\ t[i] = s[i] /\ t[j] = s[j]
    BY <1>2, <1>5, <1>8
  <2> QED
    BY <2>1 DEF Marked
<1>6. CASE i > Len(s)
  <2>1. t[j] = from + (j - Len(s)) - StartSn /\ t[i] = from + (i - Len(s)) - StartSn
    <3>1. i - Len(s) \in 1..Len(r) /\ j - Len(s) \in 1..Len(r)
      BY <1>6, <1>8
    <3>2. t[Len(s) + (i - Len(s))] = from + (i - Len(s)) - StartSn
      BY <1>3, <3>1
    <3>3. t[Len(s) + (j - Len(s))] = from + (j - Len(s)) - StartSn
      BY <1>3, <3>1
    <3>4. Len(s) + (i - Len(s)) = i /\ Len(s) + (j - Len(s)) = j
      BY <1>8
    <3> QED
      BY <3>2, <3>3, <3>4
  <2> QED
    BY <2>1
<1>7. CASE i <= Len(s) /\ j > Len(s)
  <2>1. t[j] = from + (j - Len(s)) - StartSn /\ t[i] = s[i] /\ s # <<>>
    <3>1. j - Len(s) \in 1..Len(r) /\ i \in 1..Len(s)
      BY <1>7, <1>8
    <3>2. t[Len(s) + (j - Len(s))] = from + (j - Len(s)) - StartSn
      BY <1>3, <3>1
    <3>3. Len(s) + (j - Len(s)) = j
      BY <1>8
    <3> QED
      BY <1>2, <3>1, <3>2, <3>3
  <2>2. s[i] \in Int /\ i \in 1..Len(s) /\ Len(s) \in Nat
    BY <1>7 DEF Datagrams
  <2>3. CASE i = Len(s)
    BY <2>1, <2>2, <2>3, <1>4, <1>8
  <2>4. CASE i < Len(s)
    <3>1. \/ s[Len(s)] = s[i] + (Len(s) - i)
          \/ /\ s[Len(s)] > s[i] + (Len(s) - i)
             /\ \E x \in g : i <= x /\ x < Len(s)
      BY <2>1, <2>2, <2>4, <1>4 DEF Marked
    <3> QED
      <4>1. t[j] = s[Len(s)] + (j - Len(s)) /\ s[Len(s)] \in Int
        <5>1. s[Len(s)] = from - StartSn
          BY <2>1, <1>4
        <5>2. t[j] = from + (j - Len(s)) - StartSn
          BY <2>1
        <5>3. from - StartSn \in Int
          OBVIOUS
        <5>4. from + (j - Len(s)) - StartSn = (from - StartSn) + (j - Len(s))
          BY <1>8
        <5>5. t[j] = s[Len(s)] + (j - Len(s))
          BY <5>1, <5>2, <5>4
        <5>6. s[Len(s)] \in Int
          BY <5>1, <5>3
        <5> QED
          BY <5>5, <5>6
      <4>2. CASE s[Len(s)] = s[i] + (Len(s) - i)
        <5>1. s[Len(s)] + (j - Len(s)) = s[i] + (j - i)
          BY <4>2, <2>2, <1>8
        <5>2. t[j] = t[i] + (j - i)
          BY <5>1, <4>1, <2>1
        <5> QED
          BY <5>2
      <4>3. CASE s[Len(s)] > s[i] + (Len(s) - i) /\ \E x \in g : i <= x /\ x < Len(s)
        <5>1. t[j] > t[i] + (j - i)
          BY <4>1, <4>3, <2>1, <2>2, <1>8
        <5>2. \E x \in g : i <= x /\ x < j
          BY <4>3, <1>7, <1>8
        <5> QED
          BY <5>1, <5>2
      <4> QED
        BY <3>1, <4>2, <4>3
  <2> QED
    BY <2>2, <2>3, <2>4, <1>7
<1> QED
  BY <1>1, <1>5, <1>6, <1>7

\* A stream that is continued later than where it ends has a gap noted at its end.
LEMMA Skipped ==
    ASSUME Plain, NEW s \in Seq(Datagrams), NEW g \in SUBSET Nat, Marked(s, g),
           NEW r \in Seq(Datagrams), NEW from \in Int, NEW last \in Int,
           s # <<>> => Sn(s[Len(s)]) = last, last < from,
           \A i \in 1..Len(r) : r[i] = from + i - StartSn
    PROVE  Marked(s \o r, g \cup {Len(s)})
<1> USE SourceAssumption
<1> DEFINE t == s \o r
           h == g \cup {Len(s)}
<1>1. Len(t) = Len(s) + Len(r) /\ t \in Seq(Datagrams)
  OBVIOUS
<1>2. \A i \in 1..Len(s) : t[i] = s[i]
  OBVIOUS
<1>3. \A i \in 1..Len(r) : t[Len(s) + i] = from + i - StartSn
  OBVIOUS
<1>4. s # <<>> => s[Len(s)] = last - StartSn /\ Len(s) \in 1..Len(s)
  <2> SUFFICES ASSUME s # <<>> PROVE s[Len(s)] = last - StartSn /\ Len(s) \in 1..Len(s)
    OBVIOUS
  <2>1. s[Len(s)] \in Datagrams /\ Len(s) \in 1..Len(s)
    OBVIOUS
  <2> QED
    BY <2>1, SnPlain DEF Datagrams
<1> SUFFICES ASSUME NEW i \in 1..Len(t), NEW j \in 1..Len(t), i < j
             PROVE  \/ t[j] = t[i] + (j - i)
                    \/ /\ t[j] > t[i] + (j - i)
                       /\ \E x \in h : i <= x /\ x < j
  BY DEF Marked
<1> HIDE DEF t
<1> USE <1>1
<1>8. Len(s) \in Nat /\ Len(r) \in Nat /\ i \in Nat /\ j \in Nat
  OBVIOUS
<1>5. CASE j <= Len(s)
  <2>1. i \in 1..Len(s) /\ j \in 1..Len(s) /\ t[i] = s[i] /\ t[j] = s[j]
    BY <1>2, <1>5, <1>8
  <2> QED
    BY <2>1 DEF Marked
<1>6. CASE i > Len(s)
  <2>1. t[j] = from + (j - Len(s)) - StartSn /\ t[i] = from + (i - Len(s)) - StartSn
    <3>1. i - Len(s) \in 1..Len(r) /\ j - Len(s) \in 1..Len(r)
      BY <1>6, <1>8
    <3>2. t[Len(s) + (i - Len(s))] = from + (i - Len(s)) - StartSn
      BY <1>3, <3>1
    <3>3. t[Len(s) + (j - Len(s))] = from + (j - Len(s)) - StartSn
      BY <1>3, <3>1
    <3>4. Len(s) + (i - Len(s)) = i /\ Len(s) + (j - Len(s)) = j
      BY <1>8
    <3> QED
      BY <3>2, <3>3, <3>4
  <2> QED
    BY <2>1
<1>7. CASE i <= Len(s) /\ j > Len(s)
  <2>1. t[j] = from + (j - Len(s)) - StartSn /\ t[i] = s[i] /\ s # <<>>
    <3>1. j - Len(s) \in 1..Len(r) /\ i \in 1..Len(s)
      BY <1>7, <1>8
    <3>2. t[Len(s) + (j - Len(s))] = from + (j - Len(s)) - StartSn
      BY <1>3, <3>1
    <3>3. Len(s) + (j - Len(s)) = j
      BY <1>8
    <3> QED
      BY <1>2, <3>1, <3>2, <3>3
  <2>2. s[i] \in Int /\ i \in 1..Len(s) /\ Len(s) \in Nat
    BY <1>7 DEF Datagrams
  <2>3. s[Len(s)] >= s[i] + (Len(s) - i)
    <3>1. CASE i = Len(s)
      BY <3>1, <2>2
    <3>2. CASE i < Len(s)
      <4>1. \/ s[Len(s)] = s[i] + (Len(s) - i)
            \/ s[Len(s)] > s[i] + (Len(s) - i)
        BY <3>2, <2>1, <2>2, <1>4 DEF Marked
      <4> QED
        BY <4>1, <2>1, <2>2, <1>4
    <3> QED
      BY <3>1, <3>2, <2>2
  <2>4. t[j] > t[i] + (j - i)
    BY <2>1, <2>2, <2>3, <1>4, <1>8
  <2>5. i <= Len(s) /\ Len(s) < j /\ Len(s) \in h
    BY <1>7
  <2> QED
    BY <2>4, <2>5
<1> QED
  BY <1>1, <1>5, <1>6, <1>7

\* The initial state has the inductive invariant.
LEMMA InitIInv == Init => IInv
<1> SUFFICES ASSUME Init PROVE IInv
  OBVIOUS
<1> USE SourceAssumption DEF Init
<1>5. parsing \in BOOLEAN
  BY Zenon
<1>1. TypeOK
  BY <1>5 DEF TypeOK
<1>2. CursorAtLast /\ GapsRecorded /\ NothingNewIsDropped
  BY DEF CursorAtLast, GapsRecorded, Marked, NothingNewIsDropped
<1>3. WindowBounded
  BY FS_EmptySet DEF WindowBounded
<1>4. EmittedIntact /\ EmittedInOrder
  BY DEF EmittedIntact, EmittedInOrder
<1> QED
  BY <1>1, <1>2, <1>3, <1>4 DEF IInv

\* What a first drain does to a stream and a cursor that have the invariant, with the
\* datagram that arrived among those held.
LEMMA FirstDrain ==
    ASSUME Plain, IInv, NEW d \in Datagrams, ~Stale(d),
           NEW from \in Cursors, NEW to \in Cursors,
           NEW held, held = {e \in seg : Sn(e) # Sn(d)} \cup {d},
           StartsFrom(held, from), DrainsTo(held, from, to)
    PROVE  /\ held = seg \cup {d}
           /\ held \in SUBSET Datagrams
           /\ \A e \in held : Sn(e) > from
           /\ from >= rcvNxt /\ from >= 0 /\ to >= from /\ to > 0
           /\ stream # <<>> => Sn(stream[Len(stream)]) = from
           /\ \E t \in taken \cup (held \ Rest(held, from, to)) : Sn(t) = to
<1> USE SourceAssumption DEF IInv, TypeOK, Cursors
<1>1. held = seg \cup {d} /\ held \in SUBSET Datagrams
  <2>1. \A e \in seg : Sn(e) = Sn(d) => e = d
    BY SnPlain DEF Datagrams
  <2> QED
    BY <2>1
<1>2. \A e \in Datagrams : Sn(e) \in Nat /\ Sn(e) > 0
  BY SnPlain DEF Datagrams, Plain
<1>5. from \in Int /\ to \in Int /\ rcvNxt \in Int
  OBVIOUS
<1>6. ASSUME \A e \in held : Sn(e) > from, from # to
      PROVE  \E t \in held \ Rest(held, from, to) : Sn(t) = to
  BY <1>1, <1>5, <1>6, RestIs, Zenon
<1>3. CASE rcvNxt = 0
  <2>1. held = {d} /\ stream = <<>>
    BY <1>1, <1>3 DEF CursorAtLast
  <2>2. Sn(d) = from + 1
    BY <2>1, <1>3 DEF StartsFrom, IsLowest, Sns
  <2>3. from >= 0 /\ to > from
    BY <2>1, <2>2, <1>2 DEF DrainsTo, Sns
  <2>4. \A e \in held : Sn(e) > from
    BY <2>1, <2>2
  <2>5. \E t \in held \ Rest(held, from, to) : Sn(t) = to
    <3>1. from # to
      BY <2>3, <1>5
    <3> QED
      BY <3>1, <2>4, <1>6, Zenon
  <2>6. from >= rcvNxt /\ to >= from /\ to > 0
    BY <1>3, <1>5, <2>3
  <2> QED
    BY <1>1, <2>1, <2>3, <2>4, <2>5, <2>6, Zenon
<1>4. CASE rcvNxt # 0
  <2>1. from = rcvNxt /\ rcvNxt > 0
    BY <1>4 DEF StartsFrom, CursorAtLast
  <2>2. \A e \in held : Sn(e) > from
    BY <2>1, <1>1, <1>2, <1>4 DEF Stale, WindowBounded
  <2>3. to >= from
    BY DEF DrainsTo
  <2>4. \E t \in taken \cup (held \ Rest(held, from, to)) : Sn(t) = to
    <3>1. CASE from = to
      BY <3>1, <2>1, <1>4 DEF CursorAtLast
    <3>2. CASE from # to
      BY <3>2, <2>2, <1>6
    <3> QED
      BY <3>1, <3>2
  <2>5. from >= rcvNxt /\ from >= 0 /\ to > 0
    BY <1>5, <2>1, <2>3
  <2>6. stream # <<>> => Sn(stream[Len(stream)]) = from
    BY <2>1 DEF CursorAtLast
  <2> QED
    BY <1>1, <2>2, <2>3, <2>4, <2>5, <2>6, Zenon
<1> QED
  BY <1>3, <1>4

\* A stream that a run continues ends where the run does.
LEMMA EndsAt ==
    ASSUME Plain, NEW s \in Seq(Datagrams), NEW S \in SUBSET Datagrams,
           NEW from \in Int, NEW to \in Int, DrainsTo(S, from, to),
           from = to => (s # <<>> => Sn(s[Len(s)]) = to)
    PROVE  /\ s \o Run(S, from, to) \in Seq(Datagrams)
           /\ Len(s \o Run(S, from, to)) = Len(s) + (to - from)
           /\ s \o Run(S, from, to) # <<>>
              => Sn((s \o Run(S, from, to))[Len(s \o Run(S, from, to))]) = to
           /\ \A j \in 1..Len(s \o Run(S, from, to)) :
                 \/ j \in 1..Len(s) /\ (s \o Run(S, from, to))[j] = s[j]
                 \/ Sn((s \o Run(S, from, to))[j]) > from
<1> DEFINE r == Run(S, from, to)
           t == s \o Run(S, from, to)
<1> USE SourceAssumption
<1>7. t = s \o r
  OBVIOUS
<1>1. /\ r \in Seq(Datagrams) /\ Len(r) = to - from
      /\ \A i \in 1..to-from : r[i] = from + i - StartSn
  BY RunIs
<1>2. to - from \in Nat
  BY DEF DrainsTo
<1> HIDE DEF r, t
<1>3. t \in Seq(Datagrams) /\ Len(t) = Len(s) + (to - from)
  <2>1. r \in Seq(Datagrams) /\ Len(r) = to - from
    BY <1>1
  <2>2. t \in Seq(Datagrams) /\ Len(t) = Len(s) + Len(r)
    <3>1. s \o r \in Seq(Datagrams) /\ Len(s \o r) = Len(s) + Len(r)
      <4>1. \A u \in Seq(Datagrams) : s \o u \in Seq(Datagrams) /\ Len(s \o u) = Len(s) + Len(u)
        OBVIOUS
      <4> QED
        BY <4>1, <2>1, Zenon
    <3> QED
      BY <3>1, <1>7, Zenon
  <2> QED
    BY <2>1, <2>2
<1>4. ASSUME NEW i \in 1..to-from PROVE t[Len(s) + i] = r[i] /\ Sn(r[i]) = from + i
  <2>1. t[Len(s) + i] = r[i] /\ r[i] \in Datagrams
    BY <1>1, <1>7
  <2>2. Sn(r[i]) = StartSn + r[i]
    BY <2>1, SnPlain
  <2> QED
    BY <1>1, <2>1, <2>2
<1>5. ASSUME t # <<>> PROVE Sn(t[Len(t)]) = to
  <2>1. CASE from = to
    <3>1. t = s
      BY <1>1, <1>7, <2>1
    <3> QED
      BY <3>1, <2>1, <1>5
  <2>2. CASE from # to
    <3>1. to - from \in 1..to-from
      BY <2>2, <1>2
    <3>2. from + (to - from) = to
      OBVIOUS
    <3> QED
      BY <3>1, <3>2, <1>3, <1>4
  <2> QED
    BY <2>1, <2>2
<1>6. ASSUME NEW j \in 1..Len(t)
      PROVE  (j \in 1..Len(s) /\ t[j] = s[j]) \/ Sn(t[j]) > from
  <2>1. CASE j <= Len(s)
    BY <1>1, <1>3, <1>7, <2>1
  <2>2. CASE j > Len(s)
    <3>1. j - Len(s) \in 1..to-from /\ Len(s) + (j - Len(s)) = j
      BY <1>3, <2>2
    <3>2. Sn(t[j]) = from + (j - Len(s))
      BY <3>1, <1>4
    <3> QED
      BY <3>1, <3>2
  <2> QED
    BY <2>1, <2>2, <1>3
<1> QED
  BY <1>3, <1>5, <1>6 DEF t


\* What joins the stream comes after every frame returned.
LEMMA GrownInOrder ==
    ASSUME Plain, IInv, emitted' = emitted, rcvNxt' \in Int, rcvNxt' >= rcvNxt,
           stream' \in Seq(Datagrams),
           \A j \in 1..Len(stream') : \/ j \in 1..Len(stream) /\ stream'[j] = stream[j]
                                      \/ Sn(stream'[j]) > rcvNxt
    PROVE  EmittedInOrder'
<1> USE SourceAssumption
<1> SUFFICES ASSUME NEW i \in DOMAIN emitted
             PROVE  /\ emitted[i] # <<>>
                    /\ Sn(emitted[i][1]) <= rcvNxt'
                    /\ \A j \in DOMAIN stream' : emitted[i][1] < stream'[j]
                    /\ \A j \in DOMAIN emitted : i < j => emitted[i][1] < emitted[j][1]
  BY DEF EmittedInOrder
<1>1. /\ emitted[i] # <<>>
      /\ Sn(emitted[i][1]) <= rcvNxt
      /\ \A j \in DOMAIN stream : emitted[i][1] < stream[j]
      /\ \A j \in DOMAIN emitted : i < j => emitted[i][1] < emitted[j][1]
  BY DEF IInv, EmittedInOrder
<1>2. emitted[i][1] \in Datagrams /\ rcvNxt \in Int
  <2>1. emitted[i] \in Seq(Datagrams)
    BY DEF IInv, TypeOK
  <2> QED
    BY <2>1, <1>1 DEF IInv, TypeOK
<1>3. Sn(emitted[i][1]) = StartSn + emitted[i][1]
  BY <1>2, SnPlain
<1>4. Sn(emitted[i][1]) <= rcvNxt'
  BY <1>1, <1>2, <1>3 DEF Datagrams
<1>5. ASSUME NEW j \in 1..Len(stream') PROVE emitted[i][1] < stream'[j]
  <2>1. CASE j \in 1..Len(stream) /\ stream'[j] = stream[j]
    BY <2>1, <1>1 DEF IInv, TypeOK
  <2>2. CASE Sn(stream'[j]) > rcvNxt
    <3>1. stream'[j] \in Datagrams
      OBVIOUS
    <3>2. Sn(stream'[j]) = StartSn + stream'[j]
      BY <3>1, SnPlain
    <3> QED
      BY <3>1, <3>2, <2>2, <1>1, <1>2, <1>3 DEF Datagrams
  <2> QED
    BY <2>1, <2>2, <1>5
<1>6. DOMAIN stream' = 1..Len(stream')
  OBVIOUS
<1> QED
  BY <1>1, <1>4, <1>5, <1>6

\* Everything absorb does preserves the invariant.
LEMMA AbsorbInv ==
    ASSUME Plain, IInv, NEW d \in Datagrams, Absorb(d)
    PROVE  IInv'
<1>1. CASE Stale(d) /\ UNCHANGED <<rcvNxt, seg, stream, gaps, taken>>
  <2> USE <1>1, SourceAssumption DEF IInv, Absorb
  <2>1. parsing' \in BOOLEAN
    BY Zenon DEF TypeOK
  <2>2. TypeOK'
    BY <2>1 DEF TypeOK
  <2>3. (CursorAtLast /\ WindowBounded /\ GapsRecorded)'
    BY DEF CursorAtLast, WindowBounded, GapsRecorded
  <2>4. (EmittedIntact /\ EmittedInOrder)'
    BY DEF EmittedIntact, EmittedInOrder
  <2>5. NothingNewIsDropped'
    <3>1. PICK t \in taken : Sn(t) = rcvNxt
      BY DEF Stale, CursorAtLast
    <3>2. d = t \/ t > d
      BY <3>1, SnPlain DEF Stale, TypeOK, Datagrams
    <3> QED
      BY <3>1, <3>2 DEF NothingNewIsDropped
  <2> QED
    BY <2>2, <2>3, <2>4, <2>5
<1>2. CASE ~Stale(d)
  <2> DEFINE held == {e \in seg : Sn(e) # Sn(d)} \cup {d}
  <2>1. PICK from \in Cursors, to \in Cursors :
          /\ StartsFrom(held, from)
          /\ DrainsTo(held, from, to)
          /\ LET rest == Rest(held, from, to)
                 grown == stream \o Run(held, from, to)
             IN Waits(rest, grown, to) \/ GivesUp(rest, grown)
    BY <1>2 DEF Absorb
  <2> DEFINE rest == Rest(held, from, to)
             grown == stream \o Run(held, from, to)
  <2>2. /\ taken' = taken \cup (held \ seg')
        /\ arrived' = arrived \cup {d}
        /\ UNCHANGED <<parsing, emitted>>
    BY <1>2 DEF Absorb
  <2>3. /\ held = seg \cup {d}
        /\ held \in SUBSET Datagrams
        /\ \A e \in held : Sn(e) > from
        /\ from >= rcvNxt /\ from >= 0 /\ to >= from /\ to > 0
        /\ stream # <<>> => Sn(stream[Len(stream)]) = from
        /\ \E t \in taken \cup (held \ rest) : Sn(t) = to
    BY <1>2, <2>1, FirstDrain
  <2> HIDE DEF held
  <2>4. /\ from \in Int /\ to \in Int /\ rcvNxt \in Int
        /\ stream \in Seq(Datagrams) /\ gaps \in SUBSET Nat
        /\ taken \in SUBSET Datagrams
    BY SourceAssumption DEF Cursors, IInv, TypeOK
  <2>5. /\ Run(held, from, to) \in Seq(Datagrams)
        /\ Len(Run(held, from, to)) = to - from
        /\ \A i \in 1..to-from : Run(held, from, to)[i] = from + i - StartSn
    BY <2>1, <2>3, <2>4, RunIs, Zenon
  <2>6. /\ \A e \in rest : Sn(e) > to + 1
        /\ \A e \in held \ rest : Sn(e) <= to
    BY <2>1, <2>3, <2>4, RestIs, Zenon
  <2>7. Marked(grown, gaps)
    BY <2>3, <2>4, <2>5, Continued DEF IInv, GapsRecorded
  <2>8. /\ grown \in Seq(Datagrams) /\ Len(grown) = Len(stream) + (to - from)
        /\ grown # <<>> => Sn(grown[Len(grown)]) = to
        /\ \A j \in 1..Len(grown) : \/ j \in 1..Len(stream) /\ grown[j] = stream[j]
                                    \/ Sn(grown[j]) > from
    <3>1. from = to => (stream # <<>> => Sn(stream[Len(stream)]) = to)
      BY <2>3
    <3>2. DrainsTo(held, from, to)
      BY <2>1
    <3>3. held \in SUBSET Datagrams
      BY <2>3
    <3>4. stream \in Seq(Datagrams) /\ from \in Int /\ to \in Int
      BY <2>4
    <3> QED
      BY <3>1, <3>2, <3>3, <3>4, EndsAt
  <2>9. rest \in SUBSET held
    BY DEF Rest
  <2> HIDE DEF rest, grown
  <2>10. \A t \in taken : Sn(t) <= rcvNxt
    BY DEF IInv, CursorAtLast
  <2>11. NothingNewIsDropped'
    BY <2>2, <2>3 DEF IInv, NothingNewIsDropped
  <2>12. EmittedIntact'
    BY <2>2 DEF IInv, EmittedIntact
  <2>15. parsing' \in BOOLEAN
    BY <2>2, Zenon DEF IInv, TypeOK
  <2>13. CASE Waits(rest, grown, to)
    <3> USE <2>13 DEF Waits
    <3>1. TypeOK'
      BY <2>2, <2>3, <2>4, <2>8, <2>9, <2>15, SourceAssumption
         DEF IInv, TypeOK, Cursors
    <3>2. CursorAtLast'
      <4>1. rcvNxt' >= 0 /\ rcvNxt' # 0
        BY <2>3, <2>4
      <4>2. ASSUME NEW t \in taken' PROVE Sn(t) <= rcvNxt'
        <5>1. t \in taken \/ t \in held \ rest
          BY <2>2
        <5>2. Sn(t) \in Int
          BY <5>1, <2>3, <2>4, SnTyped
        <5> QED
          BY <5>1, <5>2, <2>3, <2>4, <2>6, <2>10
      <4>3. \E t \in taken' : Sn(t) = rcvNxt'
        BY <2>2, <2>3
      <4>4. \A g \in gaps' : g <= Len(stream')
        BY <2>3, <2>4, <2>8 DEF IInv, CursorAtLast
      <4> QED
        BY <4>1, <4>2, <4>3, <4>4, <2>8 DEF CursorAtLast
    <3>3. WindowBounded'
      BY <2>6 DEF WindowBounded
    <3>4. GapsRecorded'
      BY <2>7 DEF GapsRecorded
    <3>5. EmittedInOrder'
      <4>1. rcvNxt' \in Int /\ rcvNxt' >= rcvNxt
        BY <2>3, <2>4
      <4>2. \A j \in 1..Len(grown) : \/ j \in 1..Len(stream) /\ grown[j] = stream[j]
                                     \/ Sn(grown[j]) > rcvNxt
        <5>1. \A j \in 1..Len(grown) : Sn(grown[j]) \in Int
          BY <2>8, SnTyped
        <5> QED
          BY <5>1, <2>3, <2>4, <2>8
      <4> QED
        BY <4>1, <4>2, <2>2, <2>8, GrownInOrder
    <3> QED
      BY <3>1, <3>2, <3>3, <3>4, <3>5, <2>11, <2>12 DEF IInv
  <2>14. CASE GivesUp(rest, grown)
    <3>1. PICK from2 \in Cursors, to2 \in Cursors :
            /\ IsLowest(rest, from2 + 1)
            /\ DrainsTo(rest, from2, to2)
            /\ rcvNxt' = to2
            /\ seg' = Rest(rest, from2, to2)
            /\ stream' = grown \o Run(rest, from2, to2)
            /\ gaps' = gaps \cup {Len(grown)}
      BY <2>14 DEF GivesUp
    <3>2. from2 \in Int /\ to2 \in Int
      BY SourceAssumption DEF Cursors
    <3>3. rest \in SUBSET Datagrams
      BY <2>3, <2>9
    <3>4. PICK low \in rest : Sn(low) = from2 + 1
      BY <3>1 DEF IsLowest, Sns
    <3>5. \A e \in rest : Sn(e) > from2
      BY <3>1, <3>2, <3>3, SnPlain, SourceAssumption DEF IsLowest, Datagrams
    <3>6. from2 > to /\ to2 > from2
      <4>1. from2 > to
        BY <3>2, <3>4, <2>4, <2>6
      <4>2. to2 >= from2 /\ to2 + 1 # from2 + 1
        BY <3>1, <3>4 DEF DrainsTo, Sns
      <4> QED
        BY <4>1, <4>2, <3>2
    <3>7. /\ Run(rest, from2, to2) \in Seq(Datagrams)
          /\ \A i \in 1..Len(Run(rest, from2, to2)) :
                Run(rest, from2, to2)[i] = from2 + i - StartSn
      <4>1. /\ Run(rest, from2, to2) \in Seq(Datagrams)
            /\ Len(Run(rest, from2, to2)) = to2 - from2
            /\ \A i \in 1..to2-from2 :
                  Run(rest, from2, to2)[i] = from2 + i - StartSn
        BY <3>1, <3>2, <3>3, RunIs, Zenon
      <4> QED
        BY <4>1
    <3>8. /\ \A e \in seg' : Sn(e) > to2 + 1
          /\ \A e \in rest \ seg' : Sn(e) <= to2
          /\ \E e \in rest \ seg' : Sn(e) = to2
      <4>1. from2 # to2
        BY <3>2, <3>6
      <4> QED
        BY <4>1, <3>1, <3>2, <3>3, <3>5, RestIs, Zenon
    <3>9. Marked(stream', gaps')
      BY <3>1, <3>2, <3>6, <3>7, <2>4, <2>7, <2>8, Skipped
    <3>10. /\ stream' \in Seq(Datagrams)
           /\ Len(stream') = Len(grown) + (to2 - from2)
           /\ stream' # <<>> => Sn(stream'[Len(stream')]) = to2
           /\ \A j \in 1..Len(stream') :
                 \/ j \in 1..Len(grown) /\ stream'[j] = grown[j]
                 \/ Sn(stream'[j]) > from2
      <4>1. from2 # to2
        BY <3>2, <3>6
      <4> QED
        <5>1. DrainsTo(rest, from2, to2) /\ stream' = grown \o Run(rest, from2, to2)
          BY <3>1
        <5>2. grown \in Seq(Datagrams)
          BY <2>8
        <5>3. from2 = to2 => (grown # <<>> => Sn(grown[Len(grown)]) = to2)
          BY <4>1
        <5> QED
          BY <5>1, <5>2, <5>3, <3>2, <3>3, EndsAt
    <3>11. seg' \in SUBSET rest
      BY <3>1 DEF Rest
    <3>12. TypeOK'
      <4>1. rcvNxt' \in -1..SnMod
        BY <3>1 DEF Cursors
      <4>2. seg' \in SUBSET Datagrams /\ taken' \in SUBSET Datagrams
        BY <2>2, <2>3, <2>4, <3>3, <3>11
      <4>3. gaps' \in SUBSET Nat
        <5>1. Len(grown) \in Nat
          BY <2>8
        <5> QED
          BY <5>1, <2>4, <3>1
      <4>4. arrived' \in SUBSET Datagrams /\ emitted' \in Seq(Seq(Datagrams))
        BY <2>2 DEF IInv, TypeOK
      <4> QED
        BY <4>1, <4>2, <4>3, <4>4, <2>15, <3>10 DEF TypeOK
    <3>13. CursorAtLast'
      <4>1. rcvNxt' >= 0 /\ rcvNxt' # 0
        BY <2>3, <2>4, <3>1, <3>2, <3>6
      <4>2. ASSUME NEW t \in taken' PROVE Sn(t) <= rcvNxt'
        <5>1. t \in taken \/ t \in held \ rest \/ t \in rest \ seg'
          BY <2>2
        <5>2. Sn(t) \in Int
            BY <5>1, <2>3, <2>4, <2>9, SnTyped
        <5> QED
          BY <5>1, <5>2, <2>3, <2>4, <2>6, <2>10, <3>1, <3>2, <3>6, <3>8
      <4>3. \E t \in taken' : Sn(t) = rcvNxt'
        BY <2>2, <2>9, <3>1, <3>8
      <4>4. \A g \in gaps' : g <= Len(stream')
        <5>1. \A g \in gaps : g <= Len(stream)
          BY DEF IInv, CursorAtLast
        <5>2. Len(stream) \in Nat /\ Len(grown) \in Nat
          BY <2>4, <2>8
        <5> QED
          BY <5>1, <5>2, <2>3, <2>4, <2>8, <3>1, <3>2, <3>6, <3>10
      <4> QED
        BY <4>1, <4>2, <4>3, <4>4, <3>1, <3>10 DEF CursorAtLast
    <3>14. WindowBounded'
      <4>1. Cardinality(seg) <= GapSkip /\ IsFiniteSet(seg)
        <5>1. IsFiniteSet(Datagrams)
          BY FS_Interval, SourceAssumption DEF Datagrams
        <5> QED
          BY <5>1, FS_Subset DEF IInv, WindowBounded, TypeOK
      <4>2. IsFiniteSet(held) /\ Cardinality(held) <= GapSkip + 1
        <5>1. /\ IsFiniteSet(seg \cup {d})
              /\ \/ Cardinality(seg \cup {d}) = Cardinality(seg)
                 \/ Cardinality(seg \cup {d}) = Cardinality(seg) + 1
          BY <4>1, FS_AddElement
        <5>2. Cardinality(seg) \in Nat
          BY <4>1, FS_CardinalityType
        <5> QED
          BY <5>1, <5>2, <4>1, <2>3, SourceAssumption
      <4>3. low \in held /\ low \notin seg'
        <5>1. Sn(low) <= to2 + 1
          BY <3>2, <3>4, <3>6
        <5>2. ~(Sn(low) > to2 + 1)
          BY <5>1, <3>2, <3>4
        <5> QED
          BY <5>2, <3>4, <3>8, <2>9
      <4>4. seg' \in SUBSET (held \ {low})
        BY <4>3, <3>11, <2>9
      <4>5. IsFiniteSet(held \ {low}) /\ Cardinality(held \ {low}) = Cardinality(held) - 1
        BY <4>2, <4>3, FS_RemoveElement
      <4>6. Cardinality(seg') <= Cardinality(held \ {low})
        BY <4>4, <4>5, FS_Subset
      <4>7. IsFiniteSet(seg')
        BY <4>4, <4>5, FS_Subset
      <4>8. Cardinality(seg') \in Nat /\ Cardinality(held) \in Nat
        BY <4>2, <4>7, FS_CardinalityType
      <4>9. Cardinality(seg') <= GapSkip
        BY <4>2, <4>5, <4>6, <4>8, SourceAssumption
      <4> QED
        BY <4>9, <3>1, <3>8 DEF WindowBounded
    <3>15. GapsRecorded'
      BY <3>9 DEF GapsRecorded
    <3>16. EmittedInOrder'
      <4>1. rcvNxt' \in Int /\ rcvNxt' >= rcvNxt
        BY <2>3, <2>4, <3>1, <3>2, <3>6
      <4>2. ASSUME NEW j \in 1..Len(stream')
            PROVE  \/ j \in 1..Len(stream) /\ stream'[j] = stream[j]
                   \/ Sn(stream'[j]) > rcvNxt
        <5>1. Sn(stream'[j]) \in Int
          BY <3>10, SnPlain, SourceAssumption DEF Datagrams
        <5>2. CASE j \in 1..Len(grown) /\ stream'[j] = grown[j]
          BY <5>1, <5>2, <2>3, <2>4, <2>8
        <5>3. CASE Sn(stream'[j]) > from2
          BY <5>1, <5>3, <2>3, <2>4, <3>2, <3>6
        <5> QED
          BY <5>2, <5>3, <3>10
      <4> QED
        BY <4>1, <4>2, <2>2, <3>10, GrownInOrder
    <3> QED
      BY <3>12, <3>13, <3>14, <3>15, <3>16, <2>11, <2>12 DEF IInv
  <2> QED
    BY <2>1, <2>13, <2>14 DEF rest, grown
<1> QED
  BY <1>1, <1>2 DEF Absorb


\* What is left of the stream when its first datagrams are dropped.
LEMMA ConsumedStream ==
    ASSUME IInv, NEW k \in 0..Len(stream), Consume(k)
    PROVE  /\ stream' \in Seq(Datagrams)
           /\ Len(stream') = Len(stream) - k
           /\ \A j \in 1..Len(stream') : j + k \in 1..Len(stream) /\ stream'[j] = stream[j + k]
           /\ gaps' \in SUBSET Nat
           /\ \A g \in gaps' : g + k \in gaps
           /\ \A g \in gaps : g > k => g - k \in gaps'
<1> USE DEF IInv, TypeOK, Consume
<1>1. Len(stream) \in Nat
  OBVIOUS
<1>2. stream' \in Seq(Datagrams) /\ Len(stream') = Len(stream) - k
  BY <1>1
<1>3. ASSUME NEW j \in 1..Len(stream')
      PROVE  j + k \in 1..Len(stream) /\ stream'[j] = stream[j + k]
  BY <1>1, <1>2
<1>4. gaps' \in SUBSET Nat
  OBVIOUS
<1>5. \A g \in gaps' : g + k \in gaps
  OBVIOUS
<1>6. \A g \in gaps : g > k => g - k \in gaps'
  OBVIOUS
<1> QED
  BY <1>2, <1>3, <1>4, <1>5, <1>6

\* Dropping the first datagrams preserves what the invariant says of the stream.
LEMMA ConsumeInv ==
    ASSUME IInv, NEW k \in 0..Len(stream), Consume(k),
           UNCHANGED <<rcvNxt, seg, arrived, taken>>
    PROVE  (CursorAtLast /\ WindowBounded /\ GapsRecorded /\ NothingNewIsDropped)'
<1>1. /\ stream' \in Seq(Datagrams)
      /\ Len(stream') = Len(stream) - k
      /\ \A j \in 1..Len(stream') : j + k \in 1..Len(stream) /\ stream'[j] = stream[j + k]
      /\ gaps' \in SUBSET Nat
      /\ \A g \in gaps' : g + k \in gaps
      /\ \A g \in gaps : g > k => g - k \in gaps'
  BY ConsumedStream
<1>2. stream \in Seq(Datagrams) /\ gaps \in SUBSET Nat /\ Len(stream) \in Nat
  BY DEF IInv, TypeOK
<1>3. CursorAtLast'
  <2>1. ASSUME rcvNxt = 0 PROVE stream' = <<>>
    <3>1. stream = <<>>
      BY <2>1 DEF IInv, CursorAtLast
    <3>2. Len(stream') = 0
      BY <3>1, <1>1, <1>2
    <3> QED
      BY <3>2, <1>1
  <2>2. ASSUME stream' # <<>> PROVE Sn(stream'[Len(stream')]) = rcvNxt
    <3>1. Len(stream') \in 1..Len(stream') /\ stream # <<>>
      BY <1>1, <1>2, <2>2
    <3>2. Len(stream') + k = Len(stream)
      BY <1>1, <1>2
    <3> QED
      BY <1>1, <3>1, <3>2 DEF IInv, CursorAtLast
  <2>3. \A g \in gaps' : g <= Len(stream')
    BY <1>1, <1>2 DEF IInv, CursorAtLast
  <2> QED
    BY <2>1, <2>2, <2>3 DEF IInv, CursorAtLast
<1>4. GapsRecorded'
  <2> SUFFICES ASSUME NEW i \in 1..Len(stream'), NEW j \in 1..Len(stream'), i < j
               PROVE  \/ stream'[j] = stream'[i] + (j - i)
                      \/ /\ stream'[j] > stream'[i] + (j - i)
                         /\ \E x \in gaps' : i <= x /\ x < j
    BY DEF GapsRecorded, Marked
  <2>1. /\ i + k \in 1..Len(stream) /\ stream'[i] = stream[i + k]
        /\ j + k \in 1..Len(stream) /\ stream'[j] = stream[j + k]
        /\ i + k < j + k /\ (j + k) - (i + k) = j - i
    <3>1. i + k < j + k /\ (j + k) - (i + k) = j - i
      BY <1>2
    <3> QED
      BY <3>1, <1>1
  <2>2. \/ stream[j + k] = stream[i + k] + (j - i)
        \/ /\ stream[j + k] > stream[i + k] + (j - i)
           /\ \E x \in gaps : i + k <= x /\ x < j + k
    BY <2>1 DEF IInv, GapsRecorded, Marked
  <2>3. ASSUME NEW x \in gaps, i + k <= x, x < j + k
        PROVE  \E y \in gaps' : i <= y /\ y < j
    <3>1. x > k /\ i <= x - k /\ x - k < j
      BY <1>1, <1>2, <2>3
    <3> QED
      BY <3>1, <1>1
  <2> QED
    BY <2>1, <2>2, <2>3
<1>5. (WindowBounded /\ NothingNewIsDropped)'
  BY DEF IInv, WindowBounded, NothingNewIsDropped
<1> QED
  BY <1>3, <1>4, <1>5

\* A turn of take_frames that returns no frame preserves the invariant.
LEMMA DropInv ==
    ASSUME IInv, NEW k \in 0..Len(stream), Consume(k),
           UNCHANGED <<rcvNxt, seg, arrived, taken, emitted>>, parsing' \in BOOLEAN
    PROVE  IInv'
<1>1. /\ stream' \in Seq(Datagrams)
      /\ \A j \in 1..Len(stream') : j + k \in 1..Len(stream) /\ stream'[j] = stream[j + k]
      /\ gaps' \in SUBSET Nat
  BY ConsumedStream
<1>2. TypeOK'
  BY <1>1 DEF IInv, TypeOK
<1>3. (CursorAtLast /\ WindowBounded /\ GapsRecorded /\ NothingNewIsDropped)'
  BY ConsumeInv
<1>4. EmittedIntact'
  BY DEF IInv, EmittedIntact
<1>5. EmittedInOrder'
  <2>1. DOMAIN stream' = 1..Len(stream') /\ DOMAIN stream = 1..Len(stream)
    BY <1>1 DEF IInv, TypeOK
  <2> QED
    BY <1>1, <2>1 DEF IInv, EmittedInOrder
<1> QED
  BY <1>2, <1>3, <1>4, <1>5 DEF IInv

\* A frame without a gap is at the stream's start as it was sent, and comes after
\* every frame returned before.
LEMMA FrameIsWhole ==
    ASSUME Plain, IInv, EmitFrame
    PROVE  /\ stream[1] \in Heads /\ Size[stream[1]] \in 1..Len(stream)
           /\ SubSeq(stream, 1, Size[stream[1]]) = Frame(stream[1])
           /\ \A i \in DOMAIN emitted : emitted[i][1] < stream[1]
<1> DEFINE h == stream[1]
           n == Size[h]
<1>1. h \in Heads /\ h \in Datagrams
  BY SourceAssumption DEF EmitFrame, OnHead, Plain, Heads, Looks
<1>2. n \in Nat \ {0} /\ n <= Len(stream)
  BY <1>1, SourceAssumption DEF EmitFrame, Complete, Heads
<1>3. stream \in Seq(Datagrams) /\ gaps \in SUBSET Nat /\ Len(stream) \in Nat
  BY DEF IInv, TypeOK
<1>4. ASSUME NEW i \in 1..n PROVE stream[i] = h + i - 1
  <2>1. CASE i = 1
    BY <2>1, <1>1 DEF Datagrams
  <2>2. CASE i > 1
    <3>1. 1 \in 1..Len(stream) /\ i \in 1..Len(stream)
      BY <1>2, <1>3
    <3>2. stream[i] = h + (i - 1) \/ \E x \in gaps : 1 <= x /\ x < i
      BY <2>2, <3>1 DEF IInv, GapsRecorded, Marked
    <3>3. ~ \E x \in gaps : 1 <= x /\ x < i
      BY <1>2, <1>3 DEF EmitFrame, Straddles
    <3> QED
      BY <3>2, <3>3, <1>1 DEF Datagrams
  <2> QED
    BY <2>1, <2>2
<1>5. SubSeq(stream, 1, n) = [i \in 1..n |-> stream[i]]
  BY <1>2, <1>3
<1>6. SubSeq(stream, 1, n) = Frame(h)
  BY <1>4, <1>5 DEF Frame
<1>7. \A i \in DOMAIN emitted : emitted[i][1] < h
  BY <1>2, <1>3 DEF IInv, EmittedInOrder
<1> QED
  BY <1>1, <1>2, <1>3, <1>6, <1>7


\* A frame returned to the engine preserves the invariant.
LEMMA EmitInv ==
    ASSUME Plain, IInv, EmitFrame
    PROVE  IInv'
<1> DEFINE h == stream[1]
           n == Size[h]
           m == Len(emitted)
<1>1. /\ h \in Heads /\ n \in 1..Len(stream)
      /\ SubSeq(stream, 1, n) = Frame(h)
      /\ \A i \in DOMAIN emitted : emitted[i][1] < h
  BY FrameIsWhole
<1>2. /\ emitted' = Append(emitted, SubSeq(stream, 1, n)) /\ Consume(n)
      /\ UNCHANGED <<rcvNxt, seg, parsing, arrived, taken>>
  BY DEF EmitFrame, Continue
<1>3. n \in 0..Len(stream)
  BY <1>1
<1> HIDE DEF h, n
<1>4. /\ stream' \in Seq(Datagrams)
      /\ \A j \in 1..Len(stream') : j + n \in 1..Len(stream) /\ stream'[j] = stream[j + n]
      /\ gaps' \in SUBSET Nat
  BY <1>2, <1>3, ConsumedStream
<1>5. (CursorAtLast /\ WindowBounded /\ GapsRecorded /\ NothingNewIsDropped)'
  BY <1>2, <1>3, ConsumeInv
<1>6. /\ stream \in Seq(Datagrams) /\ Len(stream) \in Nat
      /\ emitted \in Seq(Seq(Datagrams)) /\ m \in Nat
  BY DEF IInv, TypeOK
<1>7. SubSeq(stream, 1, n) \in Seq(Datagrams)
  BY <1>1, <1>6
<1>8. /\ emitted' \in Seq(Seq(Datagrams))
      /\ DOMAIN emitted' = 1..m+1 /\ DOMAIN emitted = 1..m
      /\ \A i \in 1..m : emitted'[i] = emitted[i]
      /\ emitted'[m + 1] = Frame(h)
  BY <1>1, <1>2, <1>6, <1>7
<1>9. h \in Datagrams /\ Frame(h)[1] = h /\ Frame(h) # <<>>
  <2>1. h \in Datagrams /\ 1 \in 1..Size[h]
    BY <1>1, SourceAssumption DEF Heads, h, n
  <2>2. DOMAIN Frame(h) = 1..Size[h] /\ Frame(h)[1] = h + 1 - 1
    BY <2>1 DEF Frame
  <2>3. DOMAIN <<>> = {}
    OBVIOUS
  <2>4. h + 1 - 1 = h
    BY <2>1 DEF Datagrams
  <2> QED
    BY <2>1, <2>2, <2>3, <2>4
<1>10. parsing' \in BOOLEAN
  BY <1>2, Zenon DEF IInv, TypeOK
<1>11. TypeOK'
  BY <1>2, <1>4, <1>8, <1>10 DEF IInv, TypeOK
<1>12. EmittedIntact'
  <2> SUFFICES ASSUME NEW i \in DOMAIN emitted'
               PROVE  emitted'[i][1] \in Heads /\ emitted'[i] = Frame(emitted'[i][1])
    BY DEF EmittedIntact
  <2>1. CASE i \in 1..m
    BY <2>1, <1>8 DEF IInv, EmittedIntact
  <2>2. CASE i = m + 1
    BY <2>2, <1>1, <1>8, <1>9
  <2> QED
    BY <2>1, <2>2, <1>6, <1>8
<1>13. Sn(h) <= rcvNxt /\ \A j \in 1..Len(stream') : h < stream'[j]
  <2>1. ASSUME NEW j \in 1..Len(stream), 1 < j PROVE h < stream[j]
    <3>1. 1 \in 1..Len(stream) /\ h \in Int
      BY <1>6, <1>9, <2>1 DEF Datagrams
    <3>2. stream[j] = h + (j - 1) \/ stream[j] > h + (j - 1)
      BY <2>1, <3>1 DEF IInv, GapsRecorded, Marked, h
    <3>3. stream[j] \in Datagrams
      BY <1>6
    <3> QED
      BY <2>1, <3>1, <3>2, <3>3, SourceAssumption DEF Datagrams
  <2>2. ASSUME NEW j \in 1..Len(stream') PROVE h < stream'[j]
    <3>1. j + n \in 1..Len(stream) /\ 1 < j + n /\ stream'[j] = stream[j + n]
      BY <1>1, <1>4
    <3> QED
      BY <2>1, <3>1
  <2>3. Sn(stream[Len(stream)]) = rcvNxt /\ Len(stream) \in 1..Len(stream)
    BY <1>1, <1>6 DEF IInv, CursorAtLast
  <2>4. stream[Len(stream)] \in Datagrams /\ h <= stream[Len(stream)]
    <3>1. CASE Len(stream) = 1
      BY <3>1, <1>6, <1>9 DEF Datagrams, h
    <3>3. stream[Len(stream)] \in Datagrams
      BY <2>3, <1>6
    <3>2. CASE Len(stream) > 1
      <4>1. h < stream[Len(stream)]
        BY <3>2, <2>1, <2>3
      <4> QED
        BY <4>1, <3>3, <1>9 DEF Datagrams
    <3>4. Len(stream) = 1 \/ Len(stream) > 1
      <4>1. \A x \in Nat : x \in 1..x => x = 1 \/ x > 1
        OBVIOUS
      <4> QED
        BY <4>1, <2>3, <1>6, Zenon
    <3> QED
      BY <3>1, <3>2, <3>3, <3>4, Zenon
  <2>5. Sn(h) <= rcvNxt
    BY <2>3, <2>4, <1>9, SnPlain, SourceAssumption DEF Datagrams
  <2> QED
    BY <2>2, <2>5
<1>14. EmittedInOrder'
  <2> SUFFICES ASSUME NEW i \in DOMAIN emitted'
               PROVE  /\ emitted'[i] # <<>>
                      /\ Sn(emitted'[i][1]) <= rcvNxt'
                      /\ \A j \in DOMAIN stream' : emitted'[i][1] < stream'[j]
                      /\ \A j \in DOMAIN emitted' : i < j => emitted'[i][1] < emitted'[j][1]
    BY DEF EmittedInOrder
  <2>1. DOMAIN stream' = 1..Len(stream') /\ DOMAIN stream = 1..Len(stream)
    BY <1>4, <1>6
  <2>2. CASE i \in 1..m
    <3>1. /\ emitted[i] # <<>> /\ Sn(emitted[i][1]) <= rcvNxt
          /\ \A j \in 1..Len(stream) : emitted[i][1] < stream[j]
          /\ \A j \in 1..m : i < j => emitted[i][1] < emitted[j][1]
      BY <2>1, <2>2, <1>8 DEF IInv, EmittedInOrder
    <3>2. \A j \in 1..m+1 : i < j => emitted[i][1] < emitted'[j][1]
      <4>1. emitted[i][1] < emitted'[m + 1][1]
        BY <2>2, <1>1, <1>8, <1>9
      <4>2. \A j \in 1..m+1 : j \in 1..m \/ j = m + 1
        BY <1>6
      <4> QED
        BY <4>1, <4>2, <3>1, <1>8
    <3> QED
      BY <2>1, <2>2, <3>1, <3>2, <1>2, <1>4, <1>8
  <2>3. CASE i = m + 1
    <3>1. emitted'[i] # <<>> /\ emitted'[i][1] = h
      BY <2>3, <1>8, <1>9
    <3>2. \A j \in 1..m+1 : ~(i < j)
      BY <2>3, <1>6
    <3> QED
      BY <3>1, <3>2, <2>1, <1>2, <1>8, <1>13
  <2> QED
    BY <2>2, <2>3, <1>6, <1>8
<1> QED
  BY <1>5, <1>11, <1>12, <1>14 DEF IInv

\* Every step preserves the invariant.
LEMMA NextIInv ==
    ASSUME Plain, IInv, [Next]_vars
    PROVE  IInv'
<1>1. CASE \E d \in Datagrams : Absorb(d)
  BY <1>1, AbsorbInv
<1>2. CASE TakeFrames
  <2>1. parsing' \in BOOLEAN
    BY <1>2, Zenon DEF TakeFrames
  <2> QED
    BY <1>2, <2>1
       DEF TakeFrames, IInv, TypeOK, CursorAtLast, WindowBounded, GapsRecorded,
           NothingNewIsDropped, EmittedIntact, EmittedInOrder
<1>3. CASE EmitFrame
  BY <1>3, EmitInv
<1>4. CASE ResyncToKeyframe
  <2>1. PICK i \in DOMAIN stream : Consume(i - 1)
    BY <1>4 DEF ResyncToKeyframe
  <2>2. i - 1 \in 0..Len(stream)
    BY DEF IInv, TypeOK
  <2>3. parsing' \in BOOLEAN /\ UNCHANGED <<rcvNxt, seg, arrived, taken, emitted>>
    BY <1>4, Zenon DEF ResyncToKeyframe, Continue, IInv, TypeOK
  <2> QED
    BY <2>1, <2>2, <2>3, DropInv
<1>5. CASE ResyncToHead
  <2>1. PICK i \in DOMAIN stream : Consume(i - 1)
    BY <1>5 DEF ResyncToHead
  <2>2. i - 1 \in 0..Len(stream)
    BY DEF IInv, TypeOK
  <2>3. parsing' \in BOOLEAN /\ UNCHANGED <<rcvNxt, seg, arrived, taken, emitted>>
    BY <1>5, Zenon DEF ResyncToHead, Continue, IInv, TypeOK
  <2> QED
    BY <2>1, <2>2, <2>3, DropInv
<1>6. CASE TakeFramesReturns
  <2>1. parsing' \in BOOLEAN /\ UNCHANGED <<rcvNxt, seg, arrived, taken, emitted>>
    BY <1>6, Zenon DEF TakeFramesReturns, Break
  <2>2. CASE UNCHANGED <<stream, gaps>>
    BY <2>1, <2>2
       DEF IInv, TypeOK, CursorAtLast, WindowBounded, GapsRecorded,
           NothingNewIsDropped, EmittedIntact, EmittedInOrder
  <2>3. CASE Consume(Len(stream))
    <3>1. Len(stream) \in 0..Len(stream)
      BY DEF IInv, TypeOK
    <3> QED
      BY <2>1, <2>3, <3>1, DropInv
  <2> QED
    BY <1>6, <2>2, <2>3 DEF TakeFramesReturns
<1>7. CASE UNCHANGED vars
  BY <1>7
     DEF vars, IInv, TypeOK, CursorAtLast, WindowBounded, GapsRecorded,
         NothingNewIsDropped, EmittedIntact, EmittedInOrder
<1> QED
  BY <1>1, <1>2, <1>3, <1>4, <1>5, <1>6, <1>7 DEF Next, Parse

\* The inductive invariant holds throughout, for every plain stream.
THEOREM Invariance == ASSUME Plain PROVE Spec => []IInv
<1>1. Init => IInv
  BY InitIInv
<1>2. IInv /\ [Next]_vars => IInv'
  BY NextIInv
<1> QED
  BY <1>1, <1>2, PTL DEF Spec

\* Type correctness.
THEOREM TypeCorrect == ASSUME Plain PROVE Spec => []TypeOK
<1>1. IInv => TypeOK
  BY DEF IInv
<1> QED
  BY <1>1, Invariance, PTL

\* A lost datagram never holds back more than GapSkip others, however many arrive.
THEOREM LossNeverStalls == ASSUME Plain PROVE Spec => []WindowBounded
<1>1. IInv => WindowBounded
  BY DEF IInv
<1> QED
  BY <1>1, Invariance, PTL

\* What is missing from the stream is noted, and the rest is in order and there once.
THEOREM LossesAreNoted == ASSUME Plain PROVE Spec => []GapsRecorded
<1>1. IInv => GapsRecorded
  BY DEF IInv
<1> QED
  BY <1>1, Invariance, PTL

\* No datagram newer than the stream is ever dropped.
THEOREM NewIsKept == ASSUME Plain PROVE Spec => []NothingNewIsDropped
<1>1. IInv => NothingNewIsDropped
  BY DEF IInv
<1> QED
  BY <1>1, Invariance, PTL

\* Whatever is lost, repeated or reordered, the engine gets frames as they were sent.
THEOREM FramesAreIntact == ASSUME Plain PROVE Spec => []EmittedIntact
<1>1. IInv => EmittedIntact
  BY DEF IInv
<1> QED
  BY <1>1, Invariance, PTL

-----------------------------------------------------------------------------
(* A keyframe whose datagrams all came through is returned.                *)

\* A set of natural numbers has a least element.
LEMMA LeastOf ==
    ASSUME NEW T \in SUBSET Nat, T # {}
    PROVE  \E x \in T : \A y \in T : x <= y
<1>1. PICK x \in T : \A y \in T : ~(<<y, x>> \in OpToRel(<, Nat))
  <2>1. T \subseteq Nat
    OBVIOUS
  <2> QED
    BY <2>1, NatLessThanWellFounded, WFMin, Zenon
<1>2. ASSUME NEW y \in T PROVE x <= y
  <2>1. <<y, x>> \in Nat \X Nat /\ <<y, x>>[1] = y /\ <<y, x>>[2] = x
    OBVIOUS
  <2>2. ~(y < x)
    BY <1>1, <2>1 DEF OpToRel
  <2> QED
    BY <2>2
<1> QED
  BY <1>2

\* The stream is in the order it was sent.
LEMMA InOrder ==
    ASSUME IInv, NEW i \in 1..Len(stream), NEW j \in 1..Len(stream), i < j
    PROVE  stream[i] < stream[j]
<1>1. stream[j] = stream[i] + (j - i) \/ stream[j] > stream[i] + (j - i)
  BY DEF IInv, GapsRecorded, Marked
<1>2. stream[i] \in Int /\ stream[j] \in Int /\ i \in Int /\ j \in Int
  BY SourceAssumption DEF IInv, TypeOK, Datagrams
<1> QED
  BY <1>1, <1>2

\* What a drain does not leave is in what it appends.
LEMMA RunHolds ==
    ASSUME Plain, NEW S \in SUBSET Datagrams, NEW from \in Int, NEW to \in Int,
           DrainsTo(S, from, to), NEW d \in S \ Rest(S, from, to)
    PROVE  \E i \in 1..Len(Run(S, from, to)) : Run(S, from, to)[i] = d
<1>1. /\ Len(Run(S, from, to)) = to - from
      /\ \A i \in 1..to-from : Run(S, from, to)[i] = from + i - StartSn
  BY RunIs
<1>2. Sn(d) \in from+1..to /\ Sn(d) = StartSn + d /\ d \in Int
  BY SnPlain, SourceAssumption DEF Rest, Datagrams
<1>3. Sn(d) - from \in 1..to-from /\ from + (Sn(d) - from) - StartSn = d
  BY <1>2, SourceAssumption
<1> QED
  BY <1>1, <1>3

\* A concatenation holds both of its parts.
LEMMA Concatenated ==
    ASSUME NEW s \in Seq(Datagrams), NEW r \in Seq(Datagrams)
    PROVE  /\ s \o r \in Seq(Datagrams) /\ Len(s \o r) = Len(s) + Len(r)
           /\ \A i \in 1..Len(s) : i \in 1..Len(s \o r) /\ (s \o r)[i] = s[i]
           /\ \A i \in 1..Len(r) : Len(s) + i \in 1..Len(s \o r) /\ (s \o r)[Len(s) + i] = r[i]
  OBVIOUS

\* What absorb does to the stream: it grows by datagrams past the cursor, the ones
\* newly taken among them, and a gap is noted only in front of a later datagram.
LEMMA Absorbed ==
    ASSUME Plain, IInv, NEW d \in Datagrams, Absorb(d)
    PROVE  /\ emitted' = emitted /\ taken \subseteq taken'
           /\ stream' \in Seq(Datagrams) /\ rcvNxt' >= rcvNxt
           /\ \A i \in 1..Len(stream) : i \in 1..Len(stream') /\ stream'[i] = stream[i]
           /\ stream = <<>> /\ stream' # <<>> => StartSn + stream'[1] > rcvNxt
           /\ \A t \in taken' \ taken :
                 StartSn + t > rcvNxt /\ \E i \in 1..Len(stream') : stream'[i] = t
           /\ \A g \in gaps' \ gaps :
                 g < Len(stream') /\ (0 < g => stream'[g + 1] # stream'[g] + 1)
<1> USE SourceAssumption
<1>0. /\ stream \in Seq(Datagrams) /\ gaps \in SUBSET Nat /\ rcvNxt \in Int
      /\ taken \in SUBSET Datagrams
  BY DEF IInv, TypeOK
<1>1. CASE Stale(d) /\ UNCHANGED <<rcvNxt, seg, stream, gaps, taken>>
  BY <1>0, <1>1 DEF Absorb
<1>2. CASE ~Stale(d)
  <2> DEFINE held == {e \in seg : Sn(e) # Sn(d)} \cup {d}
  <2>1. PICK from \in Cursors, to \in Cursors :
          /\ StartsFrom(held, from)
          /\ DrainsTo(held, from, to)
          /\ LET rest == Rest(held, from, to)
                 grown == stream \o Run(held, from, to)
             IN Waits(rest, grown, to) \/ GivesUp(rest, grown)
    BY <1>2 DEF Absorb
  <2> DEFINE rest == Rest(held, from, to)
             run == Run(held, from, to)
             grown == stream \o run
  <2>2. taken' = taken \cup (held \ seg') /\ emitted' = emitted
    BY <1>2 DEF Absorb
  <2>3. /\ held \in SUBSET Datagrams
        /\ \A e \in held : Sn(e) > from
        /\ from >= rcvNxt /\ to >= from
        /\ stream # <<>> => Sn(stream[Len(stream)]) = from
    BY <1>2, <2>1, FirstDrain
  <2> HIDE DEF held
  <2>4. from \in Int /\ to \in Int
    BY DEF Cursors
  <2>5. /\ run \in Seq(Datagrams) /\ Len(run) = to - from
        /\ \A i \in 1..to-from : run[i] = from + i - StartSn
    BY <2>1, <2>3, <2>4, RunIs, Zenon
  <2>6. ASSUME NEW t \in held \ rest PROVE \E i \in 1..Len(run) : run[i] = t
    <3>1. DrainsTo(held, from, to) /\ held \in SUBSET Datagrams
      BY <2>1, <2>3
    <3>2. t \in held \ Rest(held, from, to)
      OBVIOUS
    <3>3. \E i \in 1..Len(Run(held, from, to)) : Run(held, from, to)[i] = t
      BY <3>1, <3>2, <2>4, RunHolds
    <3> QED
      BY <3>3
  <2>7. \A t \in held : StartSn + t > rcvNxt
    <3>1. \A t \in held : Sn(t) = StartSn + t /\ t \in Int
      BY <2>3, SnPlain DEF Datagrams
    <3> QED
      BY <3>1, <2>3, <2>4, <1>0
  <2>8. /\ grown \in Seq(Datagrams) /\ Len(grown) = Len(stream) + (to - from)
        /\ grown # <<>> => Sn(grown[Len(grown)]) = to
    <3>1. from = to => (stream # <<>> => Sn(stream[Len(stream)]) = to)
      BY <2>3
    <3>2. DrainsTo(held, from, to)
      BY <2>1
    <3>3. held \in SUBSET Datagrams
      BY <2>3
    <3>4. stream \in Seq(Datagrams) /\ from \in Int /\ to \in Int
      BY <1>0, <2>4
    <3> QED
      BY <3>1, <3>2, <3>3, <3>4, EndsAt
  <2>9. /\ \A i \in 1..Len(stream) : i \in 1..Len(grown) /\ grown[i] = stream[i]
        /\ \A i \in 1..Len(run) : Len(stream) + i \in 1..Len(grown)
                                  /\ grown[Len(stream) + i] = run[i]
    <3>1. grown = stream \o run
      OBVIOUS
    <3> QED
      BY <3>1, <1>0, <2>5, Concatenated, Zenon
  <2>10. stream = <<>> /\ grown # <<>> => StartSn + grown[1] > rcvNxt
    <3> SUFFICES ASSUME stream = <<>>, grown # <<>> PROVE StartSn + grown[1] > rcvNxt
      OBVIOUS
    <3> HIDE DEF grown, run
    <3>1. Len(stream) = 0 /\ Len(grown) > 0
      BY <2>8
    <3>2. 1 \in 1..to-from
      BY <3>1, <2>4, <2>8
    <3>3. grown[Len(stream) + 1] = run[1] /\ run[1] = from + 1 - StartSn
      BY <3>2, <2>5, <2>9
    <3>4. grown[1] = from + 1 - StartSn
      BY <3>1, <3>3
    <3> QED
      BY <3>4, <2>3, <2>4, <1>0
  <2> HIDE DEF run, grown, rest
  <2>11. CASE Waits(rest, grown, to)
    <3>1. stream' = grown /\ gaps' = gaps /\ rcvNxt' = to /\ seg' = rest
      BY <2>11 DEF Waits
    <3>2. ASSUME NEW t \in taken' \ taken PROVE \E i \in 1..Len(stream') : stream'[i] = t
      <4>1. PICK i \in 1..Len(run) : run[i] = t
        BY <2>2, <2>6, <3>1
      <4> QED
        BY <4>1, <2>9, <3>1
    <3>3. rcvNxt' >= rcvNxt
      BY <3>1, <1>0, <2>3, <2>4
    <3> QED
      BY <3>1, <3>2, <3>3, <2>2, <2>7, <2>8, <2>9, <2>10
  <2>12. CASE GivesUp(rest, grown)
    <3>1. PICK from2 \in Cursors, to2 \in Cursors :
            /\ IsLowest(rest, from2 + 1)
            /\ DrainsTo(rest, from2, to2)
            /\ rcvNxt' = to2
            /\ seg' = Rest(rest, from2, to2)
            /\ stream' = grown \o Run(rest, from2, to2)
            /\ gaps' = gaps \cup {Len(grown)}
      BY <2>12 DEF GivesUp
    <3> DEFINE late == Run(rest, from2, to2)
    <3>2. from2 \in Int /\ to2 \in Int
      BY DEF Cursors
    <3>3. rest \in SUBSET held /\ rest \in SUBSET Datagrams
      BY <2>3 DEF rest, Rest
    <3>4. \A e \in rest : Sn(e) > to + 1
      <4>1. DrainsTo(held, from, to) /\ \A e \in held : Sn(e) > from
        BY <2>1, <2>3
      <4> QED
        BY <4>1, <2>3, <2>4, RestIs, Zenon DEF rest
    <3>5. from2 > to /\ to2 > from2
      <4>1. PICK low \in rest : Sn(low) = from2 + 1
        BY <3>1 DEF IsLowest, Sns
      <4>2. from2 > to
        BY <3>2, <3>4, <4>1, <2>4
      <4>3. to2 >= from2 /\ to2 + 1 # from2 + 1
        BY <3>1, <4>1 DEF DrainsTo, Sns
      <4> QED
        BY <4>2, <4>3, <3>2
    <3>6. /\ late \in Seq(Datagrams) /\ Len(late) = to2 - from2
          /\ \A i \in 1..to2-from2 : late[i] = from2 + i - StartSn
      BY <3>1, <3>2, <3>3, RunIs, Zenon
    <3>7. ASSUME NEW t \in rest \ seg' PROVE \E i \in 1..Len(late) : late[i] = t
      <4>1. t \in rest \ Rest(rest, from2, to2) /\ DrainsTo(rest, from2, to2)
        BY <3>1
      <4>2. \E i \in 1..Len(Run(rest, from2, to2)) : Run(rest, from2, to2)[i] = t
        BY <4>1, <3>2, <3>3, RunHolds
      <4> QED
        BY <4>2
    <3>8. /\ stream' \in Seq(Datagrams) /\ Len(stream') = Len(grown) + Len(late)
          /\ \A i \in 1..Len(grown) : i \in 1..Len(stream') /\ stream'[i] = grown[i]
          /\ \A i \in 1..Len(late) : Len(grown) + i \in 1..Len(stream')
                                     /\ stream'[Len(grown) + i] = late[i]
      <4>1. stream' = grown \o late
        BY <3>1
      <4> QED
        BY <4>1, <2>8, <3>6, Concatenated, Zenon
    <3> HIDE DEF late
    <3>9. ASSUME NEW t \in taken' \ taken PROVE \E i \in 1..Len(stream') : stream'[i] = t
      <4>1. t \in held /\ t \notin seg'
        BY <2>2
      <4>2. CASE t \in rest
        <5>1. PICK i \in 1..Len(late) : late[i] = t
          BY <4>1, <4>2, <3>7
        <5> QED
          BY <5>1, <3>8
      <4>3. CASE t \notin rest
        <5>1. PICK i \in 1..Len(run) : run[i] = t
          BY <4>1, <4>3, <2>6
        <5>2. Len(stream) + i \in 1..Len(grown) /\ grown[Len(stream) + i] = t
          BY <5>1, <2>9
        <5> QED
          BY <5>2, <3>8
      <4> QED
        BY <4>2, <4>3
    <3>10. \A i \in 1..Len(stream) : i \in 1..Len(stream') /\ stream'[i] = stream[i]
      BY <2>9, <3>8
    <3>11. ASSUME stream = <<>> PROVE StartSn + stream'[1] > rcvNxt
      <4>1. CASE grown = <<>>
        <5>1. Len(grown) = 0 /\ 1 \in 1..to2-from2
          BY <4>1, <3>2, <3>5
        <5>2. stream'[Len(grown) + 1] = late[1] /\ late[1] = from2 + 1 - StartSn
          BY <5>1, <3>6, <3>8
        <5>3. stream'[1] = from2 + 1 - StartSn
          BY <5>1, <5>2
        <5> QED
          BY <5>3, <3>2, <3>5, <2>3, <2>4, <1>0
      <4>2. CASE grown # <<>>
        <5>1. 1 \in 1..Len(grown)
          BY <4>2, <2>8
        <5> QED
          BY <5>1, <4>2, <3>11, <3>8, <2>10
      <4> QED
        BY <4>1, <4>2
    <3>12. /\ Len(grown) < Len(stream')
           /\ 0 < Len(grown) => stream'[Len(grown) + 1] # stream'[Len(grown)] + 1
      <4>1. Len(grown) \in Nat /\ 1 \in 1..to2-from2
        BY <2>8, <3>2, <3>5
      <4>2. stream'[Len(grown) + 1] = from2 + 1 - StartSn
        BY <4>1, <3>6, <3>8
      <4>3. ASSUME 0 < Len(grown) PROVE stream'[Len(grown)] = to - StartSn
        <5>1. Len(grown) \in 1..Len(grown) /\ grown # <<>>
          BY <4>1, <4>3
        <5>2. grown[Len(grown)] \in Datagrams /\ Sn(grown[Len(grown)]) = to
          BY <5>1, <2>8
        <5>3. grown[Len(grown)] = to - StartSn
          BY <5>2, SnPlain DEF Datagrams
        <5> QED
          BY <5>1, <5>3, <3>8
      <4>4. from2 + 1 - StartSn # (to - StartSn) + 1
        BY <3>2, <3>5, <2>4
      <4> QED
        BY <4>1, <4>2, <4>3, <4>4, <3>2, <3>5, <3>6, <3>8
    <3>13. rcvNxt' >= rcvNxt
      BY <3>1, <3>2, <3>5, <1>0, <2>3, <2>4
    <3> QED
      BY <3>1, <3>8, <3>9, <3>10, <3>11, <3>12, <3>13, <2>2, <2>7
  <2> QED
    BY <2>1, <2>11, <2>12 DEF rest, grown, run
<1> QED
  BY <1>1, <1>2 DEF Absorb

\* Absorbing a datagram loses no keyframe.
LEMMA AbsorbKept ==
    ASSUME Plain, IInv, KInv, NEW d \in Datagrams, Absorb(d)
    PROVE  KInv'
<1> USE SourceAssumption
<1>1. /\ emitted' = emitted /\ taken \subseteq taken'
      /\ stream' \in Seq(Datagrams) /\ rcvNxt' >= rcvNxt
      /\ \A i \in 1..Len(stream) : i \in 1..Len(stream') /\ stream'[i] = stream[i]
      /\ stream = <<>> /\ stream' # <<>> => StartSn + stream'[1] > rcvNxt
      /\ \A t \in taken' \ taken :
            StartSn + t > rcvNxt /\ \E i \in 1..Len(stream') : stream'[i] = t
      /\ \A g \in gaps' \ gaps :
            g < Len(stream') /\ (0 < g => stream'[g + 1] # stream'[g] + 1)
  BY Absorbed
<1>2. /\ stream \in Seq(Datagrams) /\ gaps \in SUBSET Nat /\ rcvNxt \in Int
      /\ taken \in SUBSET Datagrams
  BY DEF IInv, TypeOK
<1>3. DOMAIN stream = 1..Len(stream) /\ DOMAIN stream' = 1..Len(stream')
  BY <1>1, <1>2
<1>4. ASSUME NEW g \in gaps'
      PROVE  g < Len(stream') /\ (0 < g => stream'[g + 1] # stream'[g] + 1)
  <2>1. CASE g \in gaps
    <3>1. g < Len(stream) /\ (0 < g => stream[g + 1] # stream[g] + 1)
      BY <2>1 DEF KInv, GapsAreReal
    <3>2. g \in Nat /\ Len(stream) \in Nat /\ g + 1 \in 1..Len(stream)
      BY <1>2, <2>1, <3>1
    <3>3. 0 < g => g \in 1..Len(stream)
      BY <3>1, <3>2
    <3>4. g + 1 \in 1..Len(stream') /\ Len(stream') \in Nat
      BY <1>1, <3>2
    <3> QED
      BY <1>1, <3>1, <3>2, <3>3, <3>4
  <2>2. CASE g \notin gaps
    BY <1>1, <2>2
  <2> QED
    BY <2>1, <2>2
<1>5. ASSUME stream' # <<>>, NEW t \in taken', t >= stream'[1]
      PROVE  \E i \in 1..Len(stream') : stream'[i] = t
  <2>1. CASE t \notin taken
    BY <1>1, <2>1
  <2>2. CASE t \in taken /\ stream # <<>>
    <3>1. stream'[1] = stream[1]
      BY <1>1, <1>2, <2>2
    <3>2. PICK i \in 1..Len(stream) : stream[i] = t
      BY <1>3, <1>5, <2>2, <3>1 DEF KInv, StreamIsLatest
    <3> QED
      BY <1>1, <3>2
  <2>3. CASE t \in taken /\ stream = <<>>
    <3>1. Sn(t) <= rcvNxt /\ Sn(t) = StartSn + t /\ t \in Int
      BY <1>2, <2>3, SnPlain DEF IInv, CursorAtLast, Datagrams
    <3>2. stream'[1] \in Int
      BY <1>1, <1>5 DEF Datagrams
    <3> QED
      BY <1>1, <1>2, <1>5, <2>3, <3>1, <3>2
  <2> QED
    BY <2>1, <2>2, <2>3
<1>6. ASSUME NEW h \in Key \cap Heads, h \in taken'
      PROVE  \/ \E i \in DOMAIN emitted' : emitted'[i][1] = h
             \/ \E i \in DOMAIN stream' : stream'[i] = h
             \/ LostForGood(h)'
  <2>1. CASE h \notin taken
    BY <1>1, <1>3, <1>6, <2>1
  <2>2. CASE h \in taken /\ ~LostForGood(h)
    BY <1>1, <1>3, <2>2 DEF KInv, KeyframesKept
  <2>3. CASE LostForGood(h)
    <3>1. PICK i \in 1..Size[h] : h + i - 1 \notin taken /\ StartSn + h + i - 1 < rcvNxt
      BY <2>3 DEF LostForGood
    <3>2. h \in Int /\ i \in Int /\ rcvNxt' \in Int
      <4>1. Size[h] \in Nat /\ h \in Datagrams
        BY DEF Heads
      <4>2. IInv'
        BY AbsorbInv
      <4> QED
        BY <4>1, <4>2 DEF Datagrams, IInv, TypeOK
    <3>3. h + i - 1 \notin taken'
      BY <1>1, <1>2, <3>1, <3>2
    <3>4. StartSn + h + i - 1 < rcvNxt'
      BY <1>1, <1>2, <3>1, <3>2
    <3> QED
      BY <3>3, <3>4 DEF LostForGood
  <2> QED
    BY <2>1, <2>2, <2>3
<1> QED
  BY <1>3, <1>4, <1>5, <1>6 DEF KInv, GapsAreReal, StreamIsLatest, KeyframesKept

\* Dropping the first datagrams loses no keyframe, if each keyframe's head among them
\* was returned or can never be whole.
LEMMA ConsumeKept ==
    ASSUME Plain, IInv, KInv, NEW k \in 0..Len(stream), Consume(k),
           UNCHANGED <<rcvNxt, taken>>,
           \A i \in DOMAIN emitted : i \in DOMAIN emitted' /\ emitted'[i] = emitted[i],
           \A j \in 1..k : stream[j] \in Key \cap Heads =>
               \/ \E i \in DOMAIN emitted' : emitted'[i][1] = stream[j]
               \/ LostForGood(stream[j])
    PROVE  KInv'
<1>1. /\ stream' \in Seq(Datagrams)
      /\ Len(stream') = Len(stream) - k
      /\ \A j \in 1..Len(stream') : j + k \in 1..Len(stream) /\ stream'[j] = stream[j + k]
      /\ gaps' \in SUBSET Nat
      /\ \A g \in gaps' : g + k \in gaps
  BY ConsumedStream
<1>2. /\ stream \in Seq(Datagrams) /\ gaps \in SUBSET Nat /\ taken \in SUBSET Datagrams
      /\ Len(stream) \in Nat
      /\ DOMAIN stream = 1..Len(stream) /\ DOMAIN stream' = 1..Len(stream')
  BY <1>1 DEF IInv, TypeOK
<1>3. ASSUME NEW j \in 1..Len(stream), j > k
      PROVE  j - k \in 1..Len(stream') /\ stream'[j - k] = stream[j]
  <2>1. j - k \in 1..Len(stream') /\ (j - k) + k = j
    BY <1>1, <1>2, <1>3
  <2> QED
    BY <1>1, <2>1
<1>4. ASSUME NEW g \in gaps'
      PROVE  g < Len(stream') /\ (0 < g => stream'[g + 1] # stream'[g] + 1)
  <2>1. g + k \in gaps /\ g \in Nat
    BY <1>1
  <2>2. g + k < Len(stream) /\ (0 < g + k => stream[(g + k) + 1] # stream[g + k] + 1)
    BY <2>1 DEF KInv, GapsAreReal
  <2>3. g < Len(stream') /\ g + 1 \in 1..Len(stream')
    BY <1>1, <1>2, <2>1, <2>2
  <2>4. ASSUME 0 < g PROVE stream'[g + 1] # stream'[g] + 1
    <3>1. g \in 1..Len(stream') /\ 0 < g + k /\ (g + 1) + k = (g + k) + 1
      BY <2>1, <2>3, <2>4
    <3>2. stream'[g] = stream[g + k] /\ stream'[g + 1] = stream[(g + k) + 1]
      BY <1>1, <2>3, <3>1
    <3> QED
      BY <2>2, <3>1, <3>2
  <2> QED
    BY <2>3, <2>4
<1>5. ASSUME stream' # <<>>, NEW t \in taken, t >= stream'[1]
      PROVE  \E i \in 1..Len(stream') : stream'[i] = t
  <2>1. 1 \in 1..Len(stream') /\ k + 1 \in 1..Len(stream) /\ stream'[1] = stream[k + 1]
    <3>1. 1 \in 1..Len(stream')
      BY <1>1, <1>5
    <3>2. 1 + k = k + 1
      OBVIOUS
    <3> QED
      BY <1>1, <3>1, <3>2
  <2>2. stream # <<>> /\ t \in Int /\ \A j \in 1..Len(stream) : stream[j] \in Int
    BY <1>2, <2>1, SourceAssumption DEF Datagrams
  <2>3. 1 \in 1..Len(stream)
    BY <1>2, <2>1
  <2>4. t >= stream[1]
    <3>1. CASE k = 0
      BY <3>1, <2>1, <1>5
    <3>2. CASE k > 0
      <4>1. stream[1] < stream[k + 1]
        BY <3>2, <2>1, <2>3, InOrder
      <4> QED
        BY <4>1, <2>1, <2>2, <2>3, <1>5
    <3> QED
      BY <3>1, <3>2
  <2>5. PICK j \in 1..Len(stream) : stream[j] = t
    BY <1>2, <2>2, <2>4 DEF KInv, StreamIsLatest
  <2>6. j > k
    <3>1. CASE j < k + 1
      <4>1. stream[j] < stream[k + 1]
        BY <3>1, <2>1, InOrder
      <4> QED
        BY <4>1, <2>1, <2>2, <2>5, <1>5
    <3> QED
      BY <3>1
  <2> QED
    BY <1>3, <2>5, <2>6
<1>6. ASSUME NEW h \in Key \cap Heads, h \in taken
      PROVE  \/ \E i \in DOMAIN emitted' : emitted'[i][1] = h
             \/ \E i \in DOMAIN stream' : stream'[i] = h
             \/ LostForGood(h)'
  <2>1. LostForGood(h) => LostForGood(h)'
    BY DEF LostForGood
  <2>2. ASSUME NEW j \in 1..Len(stream), stream[j] = h, ~LostForGood(h)
        PROVE  \/ \E i \in DOMAIN emitted' : emitted'[i][1] = h
               \/ \E i \in DOMAIN stream' : stream'[i] = h
    <3>1. CASE j > k
      BY <1>2, <1>3, <2>2, <3>1
    <3>2. CASE ~(j > k)
      <4>1. j \in 1..k
        BY <3>2
      <4> QED
        BY <4>1, <2>2
    <3> QED
      BY <3>1, <3>2
  <2> QED
    BY <1>2, <1>6, <2>1, <2>2 DEF KInv, KeyframesKept
<1> QED
  BY <1>2, <1>4, <1>5, <1>6 DEF KInv, GapsAreReal, StreamIsLatest, KeyframesKept

\* The frame of a keyframe that straddles a gap can never be whole.
LEMMA StraddlesIsLost ==
    ASSUME Plain, IInv, KInv, OnHead, Complete, Straddles
    PROVE  LostForGood(stream[1])
<1> USE SourceAssumption
<1> DEFINE h == stream[1]
           inside == {g \in gaps : 0 < g /\ g < Size[h]}
<1>1. /\ stream \in Seq(Datagrams) /\ gaps \in SUBSET Nat /\ rcvNxt \in Int
      /\ taken \in SUBSET Datagrams /\ Len(stream) \in Nat
      /\ \A j \in 1..Len(stream) : stream[j] \in Datagrams
  BY DEF IInv, TypeOK
<1>2. h \in Looks /\ Size[h] \in Nat /\ Size[h] <= Len(stream) /\ 1 \in 1..Len(stream)
  BY <1>1 DEF OnHead, Complete
<1>3. PICK x \in inside : \A y \in inside : x <= y
  <2>1. inside \in SUBSET Nat /\ inside # {}
    BY <1>1 DEF Straddles
  <2> QED
    BY <2>1, LeastOf, Zenon
<1>4. x \in gaps /\ x \in 1..Len(stream) /\ x + 1 \in 1..Len(stream) /\ x + 1 \in 1..Size[h]
  BY <1>1, <1>2, <1>3
<1>5. h \in Int /\ stream[x] \in Int /\ stream[x + 1] \in Int
  BY <1>1, <1>2, <1>4 DEF Datagrams
<1>6. stream[x] = h + x - 1
  <2>1. CASE x = 1
    BY <2>1, <1>5
  <2>2. CASE x > 1
    <3>1. stream[x] = h + (x - 1) \/ \E y \in gaps : 1 <= y /\ y < x
      BY <2>2, <1>2, <1>4 DEF IInv, GapsRecorded, Marked
    <3>2. ASSUME NEW y \in gaps, 1 <= y, y < x PROVE FALSE
      <4>1. y \in inside
        BY <1>1, <1>2, <1>4, <3>2
      <4> QED
        BY <4>1, <1>1, <1>3, <1>4, <3>2
    <3> QED
      BY <3>1, <3>2, <1>4, <1>5
  <2> QED
    BY <2>1, <2>2, <1>4
<1>7. stream[x + 1] > h + x
  <2>1. stream[x + 1] # stream[x] + 1
    BY <1>3, <1>4 DEF KInv, GapsAreReal
  <2>2. stream[x] < stream[x + 1]
    BY <1>4, InOrder
  <2> QED
    BY <2>1, <2>2, <1>4, <1>5, <1>6
<1>8. ASSUME NEW j \in 1..Len(stream) PROVE stream[j] # h + x
  <2>0. stream[j] \in Int
    BY <1>1 DEF Datagrams
  <2>1. CASE j = x
    BY <2>1, <1>4, <1>5, <1>6
  <2>2. CASE j < x
    <3>1. stream[j] < stream[x]
      BY <2>2, <1>4, InOrder
    <3> QED
      BY <3>1, <2>0, <1>4, <1>5, <1>6
  <2>3. CASE j = x + 1
    BY <2>3, <1>4, <1>5, <1>7
  <2>4. CASE j > x + 1
    <3>1. stream[x + 1] < stream[j]
      BY <2>4, <1>4, InOrder
    <3> QED
      BY <3>1, <2>0, <1>4, <1>5, <1>7
  <2> QED
    BY <2>1, <2>2, <2>3, <2>4, <1>4
<1>9. h + x \notin taken
  <2>1. SUFFICES ASSUME h + x \in taken PROVE FALSE
    OBVIOUS
  <2>2. h + x >= stream[1] /\ stream # <<>>
    BY <1>2, <1>4, <1>5
  <2>3. \E j \in DOMAIN stream : stream[j] = h + x
    BY <2>1, <2>2 DEF KInv, StreamIsLatest
  <2> QED
    BY <2>3, <1>1, <1>8
<1>10. StartSn + stream[x + 1] <= rcvNxt
  <2>1. Len(stream) \in 1..Len(stream) /\ stream # <<>>
    BY <1>1, <1>2
  <2>2. stream[Len(stream)] \in Datagrams /\ stream[Len(stream)] \in Int
    BY <2>1, <1>1 DEF Datagrams
  <2>3. StartSn + stream[Len(stream)] = rcvNxt
    BY <2>1, <2>2, SnPlain DEF IInv, CursorAtLast
  <2>4. CASE x + 1 = Len(stream)
    BY <2>2, <2>3, <2>4
  <2>5. CASE x + 1 < Len(stream)
    <3>1. stream[x + 1] < stream[Len(stream)]
      BY <2>1, <2>5, <1>4, InOrder
    <3> QED
      BY <3>1, <2>2, <2>3, <1>5
  <2> QED
    BY <2>4, <2>5, <1>1, <1>4
<1>11. /\ h + (x + 1) - 1 \notin taken
       /\ StartSn + h + (x + 1) - 1 < rcvNxt
  <2>1. h + (x + 1) - 1 = h + x
    BY <1>4, <1>5
  <2>2. StartSn + h + (x + 1) - 1 < rcvNxt
    BY <1>1, <1>4, <1>5, <1>7, <1>10
  <2> QED
    BY <2>1, <2>2, <1>9
<1> QED
  BY <1>4, <1>11 DEF LostForGood

\* A keyframe's head is a head; and one that is not at the stream's start is not
\* dropped by a search for the next head.
LEMMA KeysAreLooks == Key \cap Heads \subseteq Looks /\ Key \cap Heads \subseteq Key
  BY DEF Heads

\* A turn of take_frames that returns no frame and searches for the next keyframe or
\* head loses no keyframe.
LEMMA ResyncKept ==
    ASSUME Plain, IInv, KInv, NEW k \in 0..Len(stream), Consume(k),
           UNCHANGED <<rcvNxt, taken, emitted>>,
           \A j \in 2..k : stream[j] \notin Key \cap Heads,
           stream # <<>> /\ stream[1] \in Key \cap Heads => LostForGood(stream[1])
    PROVE  KInv'
<1>1. Len(stream) \in Nat
  BY DEF IInv, TypeOK
<1>2. ASSUME NEW j \in 1..k, stream[j] \in Key \cap Heads PROVE LostForGood(stream[j])
  <2>1. CASE j = 1
    <3>1. stream # <<>>
      BY <1>1, <2>1
    <3> QED
      BY <3>1, <2>1, <1>2
  <2>2. CASE j # 1
    <3>1. j \in 2..k
      BY <2>2
    <3> QED
      BY <3>1, <1>2
  <2> QED
    BY <2>1, <2>2
<1>3. \A i \in DOMAIN emitted : i \in DOMAIN emitted' /\ emitted'[i] = emitted[i]
  OBVIOUS
<1> QED
  BY <1>2, <1>3, ConsumeKept

\* Returning a frame loses no keyframe: no other head is inside it.
LEMMA EmitKept ==
    ASSUME Plain, IInv, KInv, EmitFrame
    PROVE  KInv'
<1> USE SourceAssumption
<1> DEFINE h == stream[1]
           n == Size[h]
           m == Len(emitted)
<1>1. /\ h \in Heads /\ n \in 1..Len(stream)
      /\ SubSeq(stream, 1, n) = Frame(h)
  BY FrameIsWhole
<1>2. /\ emitted' = Append(emitted, Frame(h)) /\ Consume(n)
      /\ UNCHANGED <<rcvNxt, taken>>
  BY <1>1 DEF EmitFrame, Continue
<1>3. /\ stream \in Seq(Datagrams) /\ Len(stream) \in Nat
      /\ emitted \in Seq(Seq(Datagrams)) /\ m \in Nat
      /\ \A j \in 1..Len(stream) : stream[j] \in Datagrams
  BY DEF IInv, TypeOK
<1>4. h \in Int /\ n \in Nat \ {0} /\ n \in 0..Len(stream)
  BY <1>1, <1>3 DEF Datagrams
<1>5. Frame(h) \in Seq(Datagrams) /\ Frame(h)[1] = h
  <2>1. SubSeq(stream, 1, n) \in Seq(Datagrams)
    BY <1>1, <1>3
  <2>2. Frame(h)[1] = h
    BY <1>4 DEF Frame
  <2> QED
    BY <1>1, <2>1, <2>2
<1>6. /\ m + 1 \in DOMAIN emitted' /\ emitted'[m + 1] = Frame(h)
      /\ \A i \in DOMAIN emitted : i \in DOMAIN emitted' /\ emitted'[i] = emitted[i]
  BY <1>2, <1>3, <1>5
<1>7. ASSUME NEW j \in 1..n, stream[j] \in Heads PROVE j = 1
  <2>1. stream[j] = h + j - 1
    <3>1. SubSeq(stream, 1, n)[j] = stream[j]
      BY <1>1, <1>3
    <3> QED
      BY <3>1, <1>1 DEF Frame
  <2>2. h < stream[j] => h + n <= stream[j]
    BY <1>1, <1>7, FramesAreApart
  <2> QED
    BY <2>1, <2>2, <1>4
<1>8. ASSUME NEW j \in 1..n, stream[j] \in Key \cap Heads
      PROVE  \E i \in DOMAIN emitted' : emitted'[i][1] = stream[j]
  <2>1. j = 1
    BY <1>7, <1>8
  <2> QED
    BY <2>1, <1>5, <1>6
<1> QED
  BY <1>2, <1>4, <1>6, <1>8, ConsumeKept

\* Every step loses no keyframe.
LEMMA NextKInv ==
    ASSUME Plain, IInv, KInv, [Next]_vars
    PROVE  KInv'
<1>0. stream \in Seq(Datagrams) /\ DOMAIN stream = 1..Len(stream) /\ Len(stream) \in Nat
  BY DEF IInv, TypeOK
<1>1. CASE \E d \in Datagrams : Absorb(d)
  BY <1>1, AbsorbKept
<1>2. CASE TakeFrames
  BY <1>2
     DEF TakeFrames, KInv, GapsAreReal, StreamIsLatest, KeyframesKept, LostForGood
<1>3. CASE EmitFrame
  BY <1>3, EmitKept
<1>4. CASE ResyncToKeyframe
  <2>1. PICK i \in DOMAIN stream : IsNext(i, Key) /\ Consume(i - 1)
    BY <1>4 DEF ResyncToKeyframe
  <2>2. i - 1 \in 0..Len(stream) /\ \A j \in 2..i-1 : stream[j] \notin Key
    BY <1>0, <2>1 DEF IsNext
  <2>3. UNCHANGED <<rcvNxt, taken, emitted>>
    BY <1>4 DEF ResyncToKeyframe, Continue
  <2>4. LostForGood(stream[1])
    BY <1>4, StraddlesIsLost DEF ResyncToKeyframe
  <2> QED
    BY <2>1, <2>2, <2>3, <2>4, ResyncKept
<1>5. CASE ResyncToHead
  <2>1. PICK i \in DOMAIN stream : IsNext(i, Looks) /\ Consume(i - 1)
    BY <1>5 DEF ResyncToHead
  <2>2. i - 1 \in 0..Len(stream) /\ \A j \in 2..i-1 : stream[j] \notin Looks
    BY <1>0, <2>1 DEF IsNext
  <2>3. UNCHANGED <<rcvNxt, taken, emitted>>
    BY <1>5 DEF ResyncToHead, Continue
  <2>4. stream[1] \notin Looks
    BY <1>5 DEF ResyncToHead, OnHead
  <2>5. \A j \in 2..i-1 : stream[j] \notin Key \cap Heads
    BY <2>2, KeysAreLooks
  <2> QED
    BY <2>1, <2>2, <2>3, <2>4, <2>5, KeysAreLooks, ResyncKept
<1>6. CASE TakeFramesReturns
  <2>1. UNCHANGED <<rcvNxt, taken, emitted>>
    BY <1>6 DEF TakeFramesReturns, Break
  <2>2. CASE UNCHANGED <<stream, gaps>>
    BY <2>1, <2>2 DEF KInv, GapsAreReal, StreamIsLatest, KeyframesKept, LostForGood
  <2>3. CASE /\ stream # <<>> /\ ~OnHead /\ parsing
             /\ \A i \in 2..Len(stream) : stream[i] \notin Looks
             /\ Consume(Len(stream))
    <3>1. stream[1] \notin Looks
      BY <2>3 DEF OnHead
    <3>2. \A j \in 2..Len(stream) : stream[j] \notin Key \cap Heads
      BY <2>3, KeysAreLooks
    <3>3. Len(stream) \in 0..Len(stream)
      BY <1>0
    <3> QED
      BY <2>1, <2>3, <3>1, <3>2, <3>3, KeysAreLooks, ResyncKept
  <2> QED
    BY <1>6, <2>2, <2>3 DEF TakeFramesReturns
<1>7. CASE UNCHANGED vars
  BY <1>7 DEF vars, KInv, GapsAreReal, StreamIsLatest, KeyframesKept, LostForGood
<1> QED
  BY <1>1, <1>2, <1>3, <1>4, <1>5, <1>6, <1>7 DEF Next, Parse

\* A keyframe whose datagrams all made it to the stream reaches the engine, whatever is
\* lost, repeated or reordered around it.
THEOREM KeyframesComeThrough == ASSUME Plain PROVE Spec => []KeyframesSurvive
<1>1. Init => KInv
  BY DEF Init, KInv, GapsAreReal, StreamIsLatest, KeyframesKept
<1>2. IInv /\ KInv /\ [Next]_vars => KInv'
  BY NextKInv
<1>3. KInv => KeyframesSurvive
  <2> SUFFICES ASSUME KInv, NEW h \in Key \cap Heads,
                      \A i \in 1..Size[h] : h + i - 1 \in taken
               PROVE  \/ \E i \in DOMAIN emitted : emitted[i][1] = h
                      \/ \E i \in DOMAIN stream : stream[i] = h
    BY DEF KeyframesSurvive
  <2>1. h \in Int /\ 1 \in 1..Size[h]
    BY SourceAssumption DEF Heads, Datagrams
  <2>2. h + 1 - 1 \in taken /\ h + 1 - 1 = h
    BY <2>1
  <2>3. ~LostForGood(h)
    BY DEF LostForGood
  <2> QED
    BY <2>2, <2>3 DEF KInv, KeyframesKept
<1> QED
  BY <1>1, <1>2, <1>3, Invariance, PTL DEF Spec

\* Every turn of take_frames that goes on has consumed something: its loop has a
\* measure, whatever the stream holds.
THEOREM TurnsConsume ==
    ASSUME Plain
    PROVE  Spec => [][EmitFrame \/ ResyncToKeyframe \/ ResyncToHead
                      => Len(stream') < Len(stream)]_vars
<1>1. ASSUME IInv, EmitFrame \/ ResyncToKeyframe \/ ResyncToHead
      PROVE  Len(stream') < Len(stream)
  <2>1. ASSUME NEW k \in 1..Len(stream), Consume(k) PROVE Len(stream') < Len(stream)
    <3>1. Len(stream) \in Nat /\ k \in 0..Len(stream)
      BY DEF IInv, TypeOK
    <3> QED
      BY <1>1, <2>1, <3>1, ConsumedStream
  <2>2. CASE EmitFrame
    <3>1. Consume(Size[stream[1]])
      BY <2>2 DEF EmitFrame
    <3> QED
      BY <2>1, <2>2, <3>1, <1>1, FrameIsWhole
  <2>3. CASE ResyncToKeyframe
    <3>1. PICK i \in DOMAIN stream : IsNext(i, Key) /\ Consume(i - 1)
      BY <2>3 DEF ResyncToKeyframe
    <3>2. i - 1 \in 1..Len(stream)
      BY <3>1 DEF IsNext
    <3> QED
      BY <2>1, <3>1, <3>2
  <2>4. CASE ResyncToHead
    <3>1. PICK i \in DOMAIN stream : IsNext(i, Looks) /\ Consume(i - 1)
      BY <2>4 DEF ResyncToHead
    <3>2. i - 1 \in 1..Len(stream)
      BY <3>1 DEF IsNext
    <3> QED
      BY <2>1, <3>1, <3>2
  <2> QED
    BY <1>1, <2>2, <2>3, <2>4
<1> QED
  BY <1>1, Invariance, PTL DEF Spec

-----------------------------------------------------------------------------
\* The reassembly implements the lossy channel of whole frames.
THEOREM Refinement == ASSUME Plain PROVE Spec => ImplementsChannel
<1>1. Init => Channel!Init
  BY DEF Init, Channel!Init
<1>2. ASSUME IInv, [Next]_vars PROVE [Channel!Next]_emitted
  <2>1. CASE EmitFrame
    <3>1. /\ stream[1] \in Heads
          /\ SubSeq(stream, 1, Size[stream[1]]) = Frame(stream[1])
          /\ \A i \in DOMAIN emitted : emitted[i][1] < stream[1]
      BY <1>2, <2>1, FrameIsWhole
    <3>2. emitted' = Append(emitted, Frame(stream[1]))
      BY <2>1, <3>1 DEF EmitFrame
    <3>3. Channel!Deliver(stream[1])
      BY <3>1, <3>2 DEF Channel!Deliver, Channel!LastBefore
    <3> QED
      BY <3>1, <3>3 DEF Channel!Next
  <2>2. CASE UNCHANGED emitted
    BY <2>2
  <2> QED
    BY <1>2, <2>1, <2>2
       DEF Next, Parse, Absorb, TakeFrames, ResyncToKeyframe, ResyncToHead,
           TakeFramesReturns, Break, vars
<1> QED
  BY <1>1, <1>2, Invariance, PTL DEF Spec, ImplementsChannel, Channel!Spec

=============================================================================
