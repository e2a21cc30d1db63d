------------------------------ MODULE ClipProofs ------------------------------
(***************************************************************************)
(* Proofs about a clip on its way to the viewer: ClipDecryption, which     *)
(* gets back what the camera recorded, for any clip, and ClipCache, which  *)
(* keeps it on the disk, for any number of requests and clips.             *)
(***************************************************************************)
EXTENDS ClipCache, ClipDecryption, FiniteSetTheorems, WellFoundedInduction, SequenceTheorems, TLAPS

(***************************************************************************)
(* The clip cache.                                                         *)
(***************************************************************************)

(***************************************************************************)
(* The inductive invariant.  A file has one name and one creator, so that  *)
(* what a thread does to a file it does to one clip; of a clip that no two *)
(* threads disturbed, a writer has the file under the temporary name for   *)
(* itself, from the opening to the rename, and what is renamed is whole.   *)
(***************************************************************************)

Held == {"write", "rename"}

HandsTyped ==
    \A r \in Requests : /\ pc[r] = "remove" => victim[r] \in Clips \X Names
                        /\ pc[r] \in Held => fd[r] \in Requests

\* No inode is linked twice.
OneName == \A e, f \in Clips \X Names : entry[e] # None /\ entry[e] = entry[f] => e = f

\* An inode is there once its creator has opened it.
CreatedOnce ==
    \A e \in Clips \X Names, r \in Requests :
        entry[e] = r => pc[r] \in Held \cup {"open", "done"}

OpenFindsIt ==
    \A r \in Requests : pc[r] = "open" /\ clip[r] \notin disturbed => entry[Path(r)] # None

WriterAlone ==
    \A r, q \in Requests :
        pc[r] \in Held /\ pc[q] \in Held /\ clip[r] = clip[q] /\ r # q => clip[r] \in disturbed

WriterHoldsTmp ==
    \A r \in Requests : pc[r] \in Held /\ clip[r] \notin disturbed =>
        entry[Tmp(r)] = fd[r] /\ fd[r] \notin old

WrittenIsWhole ==
    \A r \in Requests : pc[r] = "rename" /\ clip[r] \notin disturbed => fd[r] \in whole

Files == OneName /\ CreatedOnce /\ NameMeansWhole

Hands == OpenFindsIt /\ WriterAlone /\ WriterHoldsTmp /\ WrittenIsWhole

IInv == TypeOK /\ HandsTyped /\ Files /\ Hands /\ OnlyRacesSpoilClips

USE NoneIsNoRequest

LEMMA InitInvariant == Init => IInv
  <1> SUFFICES ASSUME Init PROVE IInv
    OBVIOUS
  <1> USE DEF Init
  <1>1. TypeOK
    BY DEF TypeOK, Outcomes, Pc
  <1>2. HandsTyped /\ Files /\ Hands /\ OnlyRacesSpoilClips
    BY DEF HandsTyped, Files, Hands, OnlyRacesSpoilClips, OneName, CreatedOnce, NameMeansWhole,
           OpenFindsIt, WriterAlone, WriterHoldsTmp, WrittenIsWhole, Held, Names
  <1> QED BY <1>1, <1>2 DEF IInv

\* The names of a request's files.
LEMMA NamesOfFiles ==
    ASSUME TypeOK, NEW r \in Requests
    PROVE  /\ clip[r] \in Clips
           /\ Path(r) \in Clips \X Names /\ Tmp(r) \in Clips \X Names
           /\ Path(r) # Tmp(r)
           /\ \A q \in Requests : clip[q] # clip[r] => Path(q) # Path(r) /\ Tmp(q) # Tmp(r)
           /\ \A q \in Requests : Path(q) # Tmp(r)
  BY DEF TypeOK, Path, Tmp, Names

(***************************************************************************)
(* Steps of a request that leave the files alone.                          *)
(***************************************************************************)

LEMMA MoveInvariant ==
    ASSUME IInv, NEW r \in Requests, NEW to, Goes(r, to), UNCHANGED <<clip, files>>,
           to \notin Held \cup {"remove"},
           pc[r] \in Held \cup {"open", "done"} => to \in {"open", "done"},
           to = "open" => entry[Path(r)] # None
    PROVE  HandsTyped' /\ Files' /\ Hands'
  <1> USE DEF files
  <1>1. \A q \in Requests : pc'[q] = IF q = r THEN to ELSE pc[q]
    BY DEF Goes, IInv, TypeOK
  <1>2. HandsTyped'
    BY <1>1 DEF IInv, HandsTyped
  <1>3. Files'
    <2>1. OneName' /\ NameMeansWhole'
      BY DEF IInv, Files, OneName, NameMeansWhole
    <2>2. CreatedOnce'
      BY <1>1 DEF IInv, Files, CreatedOnce, Held
    <2> QED BY <2>1, <2>2 DEF Files
  <1>4. Hands'
    <2>1. OpenFindsIt'
      BY <1>1 DEF IInv, Hands, OpenFindsIt, Path
    <2>2. WriterAlone'
      BY <1>1 DEF IInv, Hands, WriterAlone
    <2>3. WriterHoldsTmp'
      BY <1>1 DEF IInv, Hands, WriterHoldsTmp, Tmp
    <2>4. WrittenIsWhole'
      BY <1>1 DEF IInv, Hands, WrittenIsWhole, Held
    <2> QED BY <2>1, <2>2, <2>3, <2>4 DEF Hands
  <1> QED BY <1>2, <1>3, <1>4

\* A request that does not end, or ends without a file's answer, keeps OnlyRacesSpoilClips.
LEMMA OutcomeUntouched ==
    ASSUME IInv, UNCHANGED clip, disturbed \subseteq disturbed',
           \A r \in Requests : outcome'[r] = outcome[r] \/ outcome'[r] \notin {"short", "missing"}
    PROVE  OnlyRacesSpoilClips'
  BY DEF IInv, OnlyRacesSpoilClips

\* Mutual facts of the steps below: what one request does to pc.
LEMMA GoesOn ==
    ASSUME TypeOK, NEW r \in Requests, NEW to, Goes(r, to)
    PROVE  /\ \A q \in Requests : pc'[q] = IF q = r THEN to ELSE pc[q]
           /\ to \in Pc =>
                pc' \in [Requests -> Pc]
  BY DEF TypeOK, Goes

LEMMA AnswerTyped ==
    ASSUME TypeOK, NEW r \in Requests, NEW what, Answers(r, what)
    PROVE  /\ Goes(r, "done")
           /\ \A q \in Requests : outcome'[q] = IF q = r THEN what ELSE outcome[q]
           /\ what \in Outcomes => outcome' \in [Requests -> Outcomes]
  BY DEF TypeOK, Answers

\* The steps of a request that neither touch a file nor answer with one.
Quiet(r) ==
    \/ Look(r) \/ Fetched(r) \/ FetchFails(r) \/ Evicted(r)
    \/ MakesWork(r) \/ Prepared(r) \/ WorkFails(r)
    \/ RemuxFails(r) \/ Remuxed(r) \/ Cleaned(r)

LEMMA QuietInvariant ==
    ASSUME IInv, NEW r \in Requests, Quiet(r)
    PROVE  IInv'
  <1> TypeOK
    BY DEF IInv
  <1>1. UNCHANGED <<clip, files>> /\ gone' = gone
    BY DEF Quiet, Look, Fetched, FetchFails, Evicted, MakesWork, Prepared, WorkFails,
           RemuxFails, Remuxed, Cleaned
  <1>2. work' \in SUBSET Requests /\ broken' \in SUBSET Requests
    BY DEF Quiet, Look, Fetched, FetchFails, Evicted, MakesWork, Prepared, WorkFails,
           RemuxFails, Remuxed, Cleaned, TypeOK
  <1>3. outcome' = outcome \/ Answers(r, "failed")
    BY DEF Quiet, Look, Fetched, FetchFails, Evicted, MakesWork, Prepared, WorkFails,
           RemuxFails, Remuxed, Cleaned
  <1>4. PICK to \in {"open", "fetch", "prepare", "done", "evict", "create"} \cup Working :
            /\ Goes(r, to)
            /\ pc[r] \notin Held \cup {"open", "done"}
            /\ to = "open" => entry[Path(r)] # None
    <2>1. CASE Look(r)
      BY <2>1 DEF Look, Valid, Held
    <2>2. CASE Fetched(r) \/ FetchFails(r) \/ Remuxed(r) \/ RemuxFails(r) \/ Evicted(r)
      BY <2>2 DEF Fetched, FetchFails, Remuxed, RemuxFails, Evicted, Answers, Held, Working
    <2>3. CASE MakesWork(r) \/ Prepared(r) \/ WorkFails(r)
      BY <2>3 DEF MakesWork, Prepared, WorkFails, Answers, Held, Working
    <2>4. CASE Cleaned(r)
      BY <2>4 DEF Cleaned, Answers, Held
    <2> QED BY <2>1, <2>2, <2>3, <2>4 DEF Quiet
  <1>5. HandsTyped' /\ Files' /\ Hands'
    BY <1>1, <1>4, MoveInvariant DEF Held, Working
  <1>6. outcome' \in [Requests -> Outcomes]
        /\ \A q \in Requests : outcome'[q] = outcome[q] \/ outcome'[q] = "failed"
    BY <1>3, AnswerTyped DEF TypeOK, Outcomes
  <1>7. OnlyRacesSpoilClips'
    BY <1>1, <1>6, OutcomeUntouched DEF files
  <1>8. TypeOK'
    <2>1. pc' \in [Requests -> Pc]
      BY <1>4, GoesOn DEF Pc, Writing
    <2> QED BY <1>1, <1>2, <1>6, <2>1 DEF TypeOK, files
  <1> QED BY <1>5, <1>7, <1>8 DEF IInv

LEMMA CancelledInvariant ==
    ASSUME IInv, NEW r \in Requests, Cancelled(r)
    PROVE  IInv'
  <1> TypeOK
    BY DEF IInv
  <1>1. UNCHANGED <<clip, files, broken>> /\ gone' \in SUBSET Requests /\ work' \in SUBSET Requests
    BY DEF Cancelled, TypeOK
  <1>2. CASE pc[r] \in {"new", "fetch", "remux", "clean", "undo"}
    <2>1. PICK to \in {"done", "undo"} : Goes(r, to) /\ pc[r] \notin Held \cup {"open", "done"}
      BY <1>2 DEF Cancelled, Answers, Held, Writing
    <2>2. HandsTyped' /\ Files' /\ Hands'
      BY <1>1, <2>1, MoveInvariant DEF Held
    <2>3. outcome' = outcome \/ Answers(r, "failed")
      BY DEF Cancelled
    <2>4. outcome' \in [Requests -> Outcomes]
          /\ \A q \in Requests : outcome'[q] = outcome[q] \/ outcome'[q] = "failed"
      BY <2>3, AnswerTyped DEF TypeOK, Outcomes
    <2>5. OnlyRacesSpoilClips'
      BY <1>1, <2>4, OutcomeUntouched DEF files
    <2>6. pc' \in [Requests -> Pc]
      BY <2>1, GoesOn DEF Pc, Working
    <2>7. TypeOK'
      BY <1>1, <2>4, <2>6 DEF TypeOK, files
    <2> QED BY <2>2, <2>5, <2>7 DEF IInv
  <1>3. CASE pc[r] \notin {"new", "fetch", "remux", "clean", "undo"}
    <2>1. UNCHANGED <<clip, pc, outcome, entry, whole, old, fd, victim, disturbed>>
      BY <1>3 DEF Cancelled, files
    <2>2. TypeOK'
      BY <1>1, <2>1 DEF TypeOK
    <2>3. HandsTyped' /\ Files' /\ Hands' /\ OnlyRacesSpoilClips'
      BY <2>1 DEF IInv, HandsTyped, Files, Hands, OnlyRacesSpoilClips, OneName, CreatedOnce,
                  NameMeansWhole, OpenFindsIt, WriterAlone, WriterHoldsTmp, WrittenIsWhole, Path, Tmp
    <2> QED BY <2>2, <2>3 DEF IInv
  <1> QED BY <1>2, <1>3

\* A request whose path holds a whole file serves it; the others' clip was disturbed.
LEMMA ServesInvariant ==
    ASSUME IInv, NEW r \in Requests, Serves(r)
    PROVE  IInv'
  <1> TypeOK
    BY DEF IInv
  <1> DEFINE what == CASE entry[Path(r)] = None -> "missing"
                       [] entry[Path(r)] \in whole -> "whole"
                       [] OTHER -> "short"
  <1>1. Answers(r, what) /\ pc[r] = "open" /\ UNCHANGED <<clip, gone, work, broken, files>>
    BY DEF Serves
  <1>2. what \in Outcomes /\ (clip[r] \notin disturbed => what = "whole")
    <2>1. CASE entry[Path(r)] = None
      BY <1>1, <2>1 DEF Outcomes, IInv, Hands, OpenFindsIt
    <2>2. CASE entry[Path(r)] # None
      <3>1. clip[r] \notin disturbed => entry[Path(r)] \in whole
        BY <2>2, NamesOfFiles DEF IInv, Files, NameMeansWhole, Path
      <3> QED BY <2>2, <3>1 DEF Outcomes
    <2> QED BY <2>1, <2>2
  <1> HIDE DEF what
  <1>3. HandsTyped' /\ Files' /\ Hands'
    BY <1>1, AnswerTyped, MoveInvariant DEF Held
  <1>4. OnlyRacesSpoilClips'
    BY <1>1, <1>2, AnswerTyped DEF IInv, OnlyRacesSpoilClips, files
  <1>5. TypeOK'
    BY <1>1, <1>2, AnswerTyped, GoesOn DEF TypeOK, Pc, files
  <1> QED BY <1>3, <1>4, <1>5 DEF IInv

(***************************************************************************)
(* The directory.                                                          *)
(***************************************************************************)

LEMMA FindsStaleInvariant ==
    ASSUME IInv, NEW r \in Requests, FindsStale(r)
    PROVE  IInv'
  <1> TypeOK
    BY DEF IInv
  <1>1. PICK e \in Clips \X Names : victim' = [victim EXCEPT ![r] = e]
    BY DEF FindsStale
  <1>2. Goes(r, "remove") /\ pc[r] = "evict"
        /\ UNCHANGED <<clip, gone, outcome, work, broken, entry, whole, old, fd, disturbed>>
    BY DEF FindsStale
  <1>3. \A q \in Requests : pc'[q] = IF q = r THEN "remove" ELSE pc[q]
    BY <1>2, GoesOn
  <1>4. TypeOK'
    BY <1>1, <1>2, GoesOn DEF TypeOK, Pc, Writing
  <1>5. HandsTyped'
    BY <1>1, <1>2, <1>3 DEF IInv, HandsTyped, TypeOK, Held
  <1>6. Files' /\ OnlyRacesSpoilClips'
    BY <1>2, <1>3 DEF IInv, Files, OneName, CreatedOnce, NameMeansWhole, OnlyRacesSpoilClips, Held
  <1>7. Hands'
    BY <1>2, <1>3 DEF IInv, Hands, OpenFindsIt, WriterAlone, WriterHoldsTmp, WrittenIsWhole, Path, Tmp,
                      Held
  <1> QED BY <1>4, <1>5, <1>6, <1>7 DEF IInv

LEMMA RemovesStaleInvariant ==
    ASSUME IInv, NEW r \in Requests, RemovesStale(r)
    PROVE  IInv'
  <1> TypeOK
    BY DEF IInv
  <1> DEFINE e == victim[r]
  <1>1. /\ Goes(r, "evict") /\ pc[r] = "remove"
        /\ entry' = [entry EXCEPT ![e] = None]
        /\ disturbed' = IF entry[e] \in old /\ \A q \in Requests : pc[q] = "open" => Path(q) # e
                        THEN disturbed ELSE disturbed \cup {e[1]}
        /\ victim' = [victim EXCEPT ![r] = None]
        /\ UNCHANGED <<clip, gone, outcome, work, broken, whole, old, fd>>
    BY DEF RemovesStale
  <1>2. e \in Clips \X Names
    BY <1>1 DEF IInv, HandsTyped
  <1> HIDE DEF e
  <1>3. \A q \in Requests : pc'[q] = IF q = r THEN "evict" ELSE pc[q]
    BY <1>1, GoesOn
  <1>4. \A f \in Clips \X Names : entry'[f] = IF f = e THEN None ELSE entry[f]
    BY <1>1, <1>2 DEF TypeOK
  <1>5. TypeOK'
    <2>1. e[1] \in Clips
      BY <1>2
    <2>2. disturbed' \in SUBSET Clips
      BY <1>1, <2>1 DEF TypeOK
    <2>3. entry' \in [Clips \X Names -> Requests \cup {None}]
      BY <1>1, <1>2 DEF TypeOK
    <2>4. victim' \in [Requests -> (Clips \X Names) \cup {None}]
      BY <1>1 DEF TypeOK
    <2>5. pc' \in [Requests -> Pc]
      BY <1>1, GoesOn DEF Pc, Writing
    <2> QED BY <1>1, <2>2, <2>3, <2>4, <2>5 DEF TypeOK
  <1>6. HandsTyped'
    BY <1>1, <1>3 DEF IInv, HandsTyped, Held, TypeOK
  <1>7. Files'
    <2>1. OneName'
      BY <1>4 DEF IInv, Files, OneName
    <2>2. CreatedOnce'
      BY <1>1, <1>3, <1>4 DEF IInv, Files, CreatedOnce, Held
    <2>3. NameMeansWhole'
      BY <1>1, <1>4 DEF IInv, Files, NameMeansWhole, Names
    <2> QED BY <2>1, <2>2, <2>3 DEF Files
  <1>8. Hands'
    <2>1. ASSUME NEW q \in Requests, pc'[q] = "open", clip'[q] \notin disturbed'
          PROVE  entry'[Path(q)] # None
      <3>1. pc[q] = "open" /\ clip[q] \notin disturbed
        BY <1>1, <1>3, <2>1
      <3>2. CASE Path(q) = e
        <4>1. e[1] = clip[q]
          BY <3>2 DEF Path
        <4> QED BY <1>1, <2>1, <3>1, <3>2, <4>1
      <3>3. CASE Path(q) # e
        BY <1>4, <3>1, <3>3, NamesOfFiles DEF IInv, Hands, OpenFindsIt
      <3> QED BY <3>2, <3>3
    <2>2. WriterAlone'
      BY <1>1, <1>3 DEF IInv, Hands, WriterAlone, Held
    <2>3. ASSUME NEW q \in Requests, pc'[q] \in Held, clip'[q] \notin disturbed'
          PROVE  entry'[Tmp(q)] = fd'[q] /\ fd'[q] \notin old'
      <3>1. pc[q] \in Held /\ clip[q] \notin disturbed
        BY <1>1, <1>3, <2>3 DEF Held
      <3>2. entry[Tmp(q)] = fd[q] /\ fd[q] \notin old
        BY <3>1 DEF IInv, Hands, WriterHoldsTmp
      <3>3. Tmp(q) # e
        <4>1. SUFFICES ASSUME Tmp(q) = e PROVE FALSE
          OBVIOUS
        <4>2. e[1] = clip[q]
          BY <4>1 DEF Tmp
        <4> QED BY <1>1, <2>3, <3>2, <4>1, <4>2
      <3> QED BY <1>1, <1>4, <3>2, <3>3, NamesOfFiles
    <2>4. WrittenIsWhole'
      BY <1>1, <1>3 DEF IInv, Hands, WrittenIsWhole
    <2> QED BY <1>1, <2>1, <2>2, <2>3, <2>4 DEF Hands, OpenFindsIt, WriterHoldsTmp, Path, Tmp
  <1>9. OnlyRacesSpoilClips'
    BY <1>1, OutcomeUntouched
  <1> QED BY <1>5, <1>6, <1>7, <1>8, <1>9 DEF IInv

\* The file that a writer opens: new, or the one that is there under the temporary name.
LEMMA CreatesInvariant ==
    ASSUME IInv, NEW r \in Requests, Creates(r)
    PROVE  IInv'
  <1> TypeOK
    BY DEF IInv
  <1> DEFINE inode == IF entry[Tmp(r)] = None THEN r ELSE entry[Tmp(r)]
  <1>1. /\ Goes(r, "write") /\ pc[r] = "create"
        /\ entry' = [entry EXCEPT ![Tmp(r)] = inode]
        /\ fd' = [fd EXCEPT ![r] = inode]
        /\ whole' = whole \ {inode} /\ old' = old \ {inode}
        /\ disturbed' = IF \E q \in Requests \ {r} :
                             clip[q] = clip[r] /\ pc[q] \in {"write", "rename"}
                        THEN disturbed \cup {clip[r]} ELSE disturbed
        /\ UNCHANGED <<clip, gone, outcome, work, broken, victim>>
    BY DEF Creates
  <1>2. inode \in Requests
    BY NamesOfFiles DEF TypeOK
  <1>3. \A e \in Clips \X Names : entry[e] = inode => e = Tmp(r)
    BY <1>1, NamesOfFiles DEF IInv, Files, OneName, CreatedOnce, Held
  <1> HIDE DEF inode
  <1>4. \A q \in Requests : pc'[q] = IF q = r THEN "write" ELSE pc[q]
    BY <1>1, GoesOn
  <1>5. \A e \in Clips \X Names : entry'[e] = IF e = Tmp(r) THEN inode ELSE entry[e]
    BY <1>1, NamesOfFiles DEF TypeOK
  <1>6. \A q \in Requests : fd'[q] = IF q = r THEN inode ELSE fd[q]
    BY <1>1 DEF TypeOK
  <1>7. TypeOK'
    <2>1. entry' \in [Clips \X Names -> Requests \cup {None}]
      BY <1>1, <1>2, NamesOfFiles DEF TypeOK
    <2>2. fd' \in [Requests -> Requests \cup {None}]
      BY <1>1, <1>2 DEF TypeOK
    <2>3. pc' \in [Requests -> Pc]
      BY <1>1, GoesOn DEF Pc, Writing
    <2> QED BY <1>1, <2>1, <2>2, <2>3, NamesOfFiles DEF TypeOK
  <1>8. HandsTyped'
    BY <1>1, <1>2, <1>4, <1>6 DEF IInv, HandsTyped, Held
  <1>9. Files'
    <2>1. OneName'
      BY <1>3, <1>5 DEF IInv, Files, OneName
    <2>2. CreatedOnce'
      <3>1. inode = r \/ (pc[inode] \in Held \cup {"open", "done"})
        BY <1>2, NamesOfFiles DEF inode, IInv, Files, CreatedOnce
      <3> QED BY <1>4, <1>5, <3>1 DEF IInv, Files, CreatedOnce, Held
    <2>3. NameMeansWhole'
      <3>1. ASSUME NEW c \in Clips \ disturbed, entry[<<c, "file">>] # None
            PROVE  entry'[<<c, "file">>] = entry[<<c, "file">>] /\ entry'[<<c, "file">>] \in whole'
        <4>1. <<c, "file">> \in Clips \X Names /\ <<c, "file">> # Tmp(r)
          BY DEF Names, Tmp
        <4>2. entry[<<c, "file">>] \in whole
          BY <3>1 DEF IInv, Files, NameMeansWhole
        <4> QED BY <1>1, <1>3, <1>5, <4>1, <4>2
      <3>2. \A c \in Clips : entry[<<c, "file">>] = None => entry'[<<c, "file">>] = None
        <4>1. \A c \in Clips : <<c, "file">> \in Clips \X Names /\ <<c, "file">> # Tmp(r)
          BY DEF Names, Tmp
        <4> QED BY <1>5, <4>1
      <3> QED BY <1>1, <3>1, <3>2 DEF NameMeansWhole
    <2> QED BY <2>1, <2>2, <2>3 DEF Files
  <1>10. Hands'
    <2>1. OpenFindsIt'
      <3>1. \A q \in Requests : entry'[Path(q)] = entry[Path(q)]
        BY <1>5, NamesOfFiles
      <3> QED BY <1>1, <1>4, <3>1 DEF IInv, Hands, OpenFindsIt, Path
    <2>2. WriterAlone'
      BY <1>1, <1>4 DEF IInv, Hands, WriterAlone, Held
    <2>3. ASSUME NEW q \in Requests, q # r, pc'[q] \in Held, clip'[q] \notin disturbed'
          PROVE  /\ pc[q] \in Held /\ clip[q] \notin disturbed /\ clip[q] # clip[r]
                 /\ fd'[q] = fd[q] /\ fd[q] # inode /\ entry'[Tmp(q)] = fd[q] /\ fd[q] \notin old
      <3>1. pc[q] \in Held /\ clip[q] \notin disturbed /\ clip[q] # clip[r]
        BY <1>1, <1>4, <2>3 DEF Held
      <3>2. entry[Tmp(q)] = fd[q] /\ fd[q] \notin old
        BY <3>1 DEF IInv, Hands, WriterHoldsTmp
      <3>3. Tmp(q) # Tmp(r) /\ Tmp(q) \in Clips \X Names
        BY <3>1, NamesOfFiles
      <3> QED BY <1>3, <1>5, <1>6, <2>3, <3>1, <3>2, <3>3
    <2>4. WriterHoldsTmp'
      <3>1. entry'[Tmp(r)] = fd'[r] /\ fd'[r] \notin old'
        BY <1>1, <1>5, <1>6, NamesOfFiles
      <3> QED BY <1>1, <2>3, <3>1 DEF WriterHoldsTmp, Tmp
    <2>5. WrittenIsWhole'
      <3>1. ASSUME NEW q \in Requests, pc'[q] = "rename", clip'[q] \notin disturbed'
            PROVE  fd'[q] \in whole'
        <4>1. q # r /\ pc[q] = "rename"
          BY <1>4, <3>1
        <4>2. fd[q] \in whole
          BY <2>3, <3>1, <4>1 DEF IInv, Hands, WrittenIsWhole, Held
        <4> QED BY <1>1, <2>3, <3>1, <4>1, <4>2 DEF Held
      <3> QED BY <3>1 DEF WrittenIsWhole
    <2> QED BY <2>1, <2>2, <2>4, <2>5 DEF Hands
  <1>11. OnlyRacesSpoilClips'
    BY <1>1, OutcomeUntouched
  <1> QED BY <1>7, <1>8, <1>9, <1>10, <1>11 DEF IInv

LEMMA WritesInvariant ==
    ASSUME IInv, NEW r \in Requests, Writes(r)
    PROVE  IInv'
  <1> TypeOK
    BY DEF IInv
  <1>1. /\ Goes(r, "rename") /\ pc[r] = "write"
        /\ whole' = whole \cup {fd[r]} /\ old' = old \ {fd[r]}
        /\ UNCHANGED <<clip, gone, outcome, work, broken, entry, fd, victim, disturbed>>
    BY DEF Writes
  <1>2. \A q \in Requests : pc'[q] = IF q = r THEN "rename" ELSE pc[q]
    BY <1>1, GoesOn
  <1>3. TypeOK'
    <2>1. fd[r] \in Requests
      BY <1>1 DEF IInv, HandsTyped, Held
    <2>2. pc' \in [Requests -> Pc]
      BY <1>1, GoesOn DEF Pc, Writing
    <2> QED BY <1>1, <2>1, <2>2 DEF TypeOK
  <1>4. HandsTyped'
    BY <1>1, <1>2 DEF IInv, HandsTyped, Held
  <1>5. Files' /\ OnlyRacesSpoilClips'
    BY <1>1, <1>2 DEF IInv, Files, OneName, CreatedOnce, NameMeansWhole, OnlyRacesSpoilClips, Held
  <1>6. Hands'
    BY <1>1, <1>2 DEF IInv, Hands, OpenFindsIt, WriterAlone, WriterHoldsTmp, WrittenIsWhole, Path, Tmp,
                      Held
  <1> QED BY <1>3, <1>4, <1>5, <1>6 DEF IInv

\* The rename: the only step that gives a clip its file.
LEMMA RenamesInvariant ==
    ASSUME IInv, NEW r \in Requests, Renames(r)
    PROVE  IInv'
  <1> TypeOK
    BY DEF IInv
  <1>1. /\ pc[r] = "rename" /\ fd' = [fd EXCEPT ![r] = None]
        /\ UNCHANGED <<clip, gone, work, broken, whole, old, victim, disturbed>>
    BY DEF Renames
  <1>2. \A q \in Requests : fd'[q] = IF q = r THEN None ELSE fd[q]
    BY <1>1 DEF TypeOK
  <1>3. fd' \in [Requests -> Requests \cup {None}]
    BY <1>1 DEF TypeOK
  <1>4. clip[r] \notin disturbed => entry[Tmp(r)] = fd[r] /\ fd[r] \in whole /\ fd[r] # None
    BY <1>1 DEF IInv, Hands, WriterHoldsTmp, WrittenIsWhole, HandsTyped, Held
  <1>5. CASE entry[Tmp(r)] = None
    <2>1. Answers(r, "missing") /\ UNCHANGED entry /\ clip[r] \in disturbed
      BY <1>4, <1>5 DEF Renames
    <2>2. \A q \in Requests : pc'[q] = IF q = r THEN "done" ELSE pc[q]
      BY <2>1, AnswerTyped, GoesOn
    <2>3. TypeOK'
      BY <1>1, <1>3, <2>1, AnswerTyped, GoesOn DEF TypeOK, Pc, Outcomes
    <2>4. OnlyRacesSpoilClips'
      BY <1>1, <2>1, AnswerTyped DEF IInv, OnlyRacesSpoilClips
    <2>5. HandsTyped' /\ Files'
      BY <1>1, <1>2, <2>1, <2>2 DEF IInv, HandsTyped, Files, OneName, CreatedOnce, NameMeansWhole, Held
    <2>6. Hands'
      BY <1>1, <1>2, <2>1, <2>2 DEF IInv, Hands, OpenFindsIt, WriterAlone, WriterHoldsTmp,
                                    WrittenIsWhole, Path, Tmp, Held
    <2> QED BY <2>3, <2>4, <2>5, <2>6 DEF IInv
  <1>6. CASE entry[Tmp(r)] # None
    <2> DEFINE to == IF r \in gone THEN "done" ELSE "open"
    <2>1. /\ entry' = [entry EXCEPT ![Path(r)] = entry[Tmp(r)], ![Tmp(r)] = None]
          /\ Goes(r, to) /\ UNCHANGED outcome /\ to \in {"done", "open"}
      BY <1>6 DEF Renames
    <2> HIDE DEF to
    <2>2. \A q \in Requests : pc'[q] = IF q = r THEN to ELSE pc[q]
      BY <2>1, GoesOn
    <2>3. \A e \in Clips \X Names : entry'[e] = IF e = Tmp(r) THEN None
                                               ELSE IF e = Path(r) THEN entry[Tmp(r)] ELSE entry[e]
      BY <2>1, NamesOfFiles DEF TypeOK
    <2>4. TypeOK'
      <3>1. entry' \in [Clips \X Names -> Requests \cup {None}]
        BY <2>1, NamesOfFiles DEF TypeOK
      <3>2. pc' \in [Requests -> Pc]
        BY <2>1, GoesOn DEF Pc
      <3> QED BY <1>1, <1>3, <2>1, <3>1, <3>2 DEF TypeOK
    <2>5. HandsTyped' /\ OnlyRacesSpoilClips'
      BY <1>1, <1>2, <2>1, <2>2 DEF IInv, HandsTyped, OnlyRacesSpoilClips, Held
    <2>6. Files'
      <3>1. OneName'
        BY <2>3, NamesOfFiles DEF IInv, Files, OneName
      <3>2. CreatedOnce'
        BY <2>1, <2>2, <2>3, NamesOfFiles DEF IInv, Files, CreatedOnce, Held
      <3>3. ASSUME NEW c \in Clips \ disturbed, entry'[<<c, "file">>] # None
            PROVE  entry'[<<c, "file">>] \in whole
        <4>1. <<c, "file">> \in Clips \X Names /\ <<c, "file">> # Tmp(r)
          BY DEF Names, Tmp
        <4>2. CASE c = clip[r]
          BY <1>4, <2>3, <4>1, <4>2 DEF Path
        <4>3. CASE c # clip[r]
          <5>1. entry'[<<c, "file">>] = entry[<<c, "file">>]
            BY <2>3, <4>1, <4>3 DEF Path
          <5> QED BY <3>3, <5>1 DEF IInv, Files, NameMeansWhole
        <4> QED BY <4>2, <4>3
      <3> QED BY <1>1, <3>1, <3>2, <3>3 DEF Files, NameMeansWhole
    <2>7. Hands'
      <3>1. ASSUME NEW q \in Requests, pc'[q] = "open", clip'[q] \notin disturbed'
            PROVE  entry'[Path(q)] # None
        <4>1. CASE Path(q) = Path(r)
          BY <1>6, <2>3, <4>1, NamesOfFiles
        <4>2. CASE Path(q) # Path(r)
          <5>1. pc[q] = "open" /\ entry'[Path(q)] = entry[Path(q)]
            BY <2>2, <2>3, <3>1, <4>2, NamesOfFiles
          <5> QED BY <1>1, <3>1, <5>1 DEF IInv, Hands, OpenFindsIt
        <4> QED BY <4>1, <4>2
      <3>2. WriterAlone'
        BY <1>1, <2>1, <2>2 DEF IInv, Hands, WriterAlone, Held
      <3>3. ASSUME NEW q \in Requests, pc'[q] \in Held, clip'[q] \notin disturbed'
            PROVE  entry'[Tmp(q)] = fd'[q] /\ fd'[q] \notin old'
        <4>1. q # r /\ pc[q] \in Held /\ clip[q] \notin disturbed
          BY <1>1, <2>1, <2>2, <3>3 DEF Held
        <4>2. clip[q] # clip[r]
          BY <1>1, <4>1 DEF IInv, Hands, WriterAlone, Held
        <4>3. Tmp(q) # Tmp(r) /\ Tmp(q) # Path(r) /\ Tmp(q) \in Clips \X Names
          BY <4>2, NamesOfFiles
        <4> QED BY <1>1, <1>2, <2>3, <4>1, <4>3 DEF IInv, Hands, WriterHoldsTmp
      <3>4. WrittenIsWhole'
        BY <1>1, <1>2, <2>1, <2>2 DEF IInv, Hands, WrittenIsWhole
      <3> QED BY <1>1, <3>1, <3>2, <3>3, <3>4 DEF Hands, OpenFindsIt, WriterHoldsTmp, Path, Tmp
    <2> QED BY <2>4, <2>5, <2>6, <2>7 DEF IInv
  <1> QED BY <1>5, <1>6

(***************************************************************************)
(* Time and restarts.                                                      *)
(***************************************************************************)

LEMMA AgesInvariant ==
    ASSUME IInv, NEW i \in Requests, Ages(i)
    PROVE  IInv'
  <1>1. /\ old' = old \cup {i} /\ \A r \in Requests : fd[r] # i
        /\ UNCHANGED <<clip, pc, gone, outcome, entry, whole, fd, victim, work, disturbed, broken>>
    BY DEF Ages
  <1>2. TypeOK' /\ HandsTyped' /\ OnlyRacesSpoilClips'
    BY <1>1 DEF IInv, TypeOK, HandsTyped, OnlyRacesSpoilClips
  <1>3. Files'
    BY <1>1 DEF IInv, Files, OneName, CreatedOnce, NameMeansWhole
  <1>4. Hands'
    BY <1>1 DEF IInv, Hands, OpenFindsIt, WriterAlone, WriterHoldsTmp, WrittenIsWhole, Path, Tmp
  <1> QED BY <1>2, <1>3, <1>4 DEF IInv

\* A restart leaves a file under the temporary name, and no writer.
LEMMA RestartInvariant ==
    ASSUME IInv, Restart
    PROVE  IInv'
  <1> TypeOK
    BY DEF IInv
  <1>1. /\ pc' = [r \in Requests |-> IF pc[r] = "new" THEN "new" ELSE "done"]
        /\ outcome' = [r \in Requests |->
                         IF pc[r] \in {"new", "done"} THEN outcome[r] ELSE "failed"]
        /\ fd' = [r \in Requests |-> None] /\ victim' = [r \in Requests |-> None]
        /\ broken' = broken \cup work
        /\ UNCHANGED <<clip, gone, entry, whole, old, work, disturbed>>
    BY DEF Restart
  <1>2. TypeOK'
    BY <1>1 DEF TypeOK, Pc, Outcomes
  <1>3. HandsTyped' /\ Hands'
    BY <1>1 DEF HandsTyped, Hands, OpenFindsIt, WriterAlone, WriterHoldsTmp, WrittenIsWhole, Held
  <1>4. Files'
    BY <1>1 DEF IInv, Files, OneName, CreatedOnce, NameMeansWhole, Held
  <1>5. OnlyRacesSpoilClips'
    BY <1>1, OutcomeUntouched
  <1> QED BY <1>2, <1>3, <1>4, <1>5 DEF IInv

LEMMA NextInvariant ==
    ASSUME IInv, [Next]_vars
    PROVE  IInv'
  <1>1. ASSUME NEW r \in Requests, Request(r)
        PROVE  IInv'
    BY <1>1, QuietInvariant, CancelledInvariant, ServesInvariant, FindsStaleInvariant,
       RemovesStaleInvariant, CreatesInvariant, WritesInvariant, RenamesInvariant DEF Request, Quiet
  <1>2. CASE UNCHANGED vars
    <2>1. TypeOK' /\ HandsTyped' /\ OnlyRacesSpoilClips'
      BY <1>2 DEF IInv, vars, TypeOK, HandsTyped, OnlyRacesSpoilClips
    <2>2. Files' /\ Hands'
      BY <1>2 DEF IInv, vars, Files, Hands, OneName, CreatedOnce, NameMeansWhole, OpenFindsIt,
                  WriterAlone, WriterHoldsTmp, WrittenIsWhole, Path, Tmp
    <2> QED BY <2>1, <2>2 DEF IInv
  <1> QED BY <1>1, <1>2, AgesInvariant, RestartInvariant DEF Next

\* The invariant holds in every state: each step of the requests, the hour and the restart
\* preserves it.
THEOREM Invariance == Spec => []IInv
  BY InitInvariant, NextInvariant, PTL DEF Spec

(***************************************************************************)
(* The theorems.                                                           *)
(***************************************************************************)

\* Type correctness: of the requests, the work directories and the directory of the cache (get,
\* _write_cache, _remux).
THEOREM TypeCorrect == Spec => []TypeOK
  BY Invariance, PTL DEF IInv

\* A request ends in a short or a missing file only if two threads had the clip's file in
\* their hands at once (_write_cache, get).
THEOREM RacesAloneSpoil == Spec => []OnlyRacesSpoilClips
  BY Invariance, PTL DEF IInv

\* What is under the name of a clip that was not disturbed is whole (_write_cache's rename).
THEOREM NamesMeanWhole == Spec => []NameMeansWhole
  BY Invariance, PTL DEF IInv, Files

\* A work directory belongs to a request that works in it, unless its client left, the disk
\* failed or the process was restarted (_write_work_dir, _remux's finally).
THEOREM WorkDirectoriesGo == Spec => []WorkIsCleaned
  <1>1. Init => WorkIsCleaned
    BY DEF Init, WorkIsCleaned
  <1>2. ASSUME TypeOK, WorkIsCleaned, [Next]_vars
        PROVE  WorkIsCleaned'
    <2>1. ASSUME NEW r \in Requests, Request(r)
          PROVE  WorkIsCleaned'
      <3>1. CASE MakesWork(r) \/ Prepared(r) \/ WorkFails(r)
        BY <1>2, <3>1 DEF MakesWork, Prepared, WorkFails, Answers, Goes, TypeOK, WorkIsCleaned, Working
      <3>2. CASE RemuxFails(r) \/ Remuxed(r)
        BY <1>2, <3>2 DEF RemuxFails, Remuxed, Goes, TypeOK, WorkIsCleaned, Working
      <3>3. CASE Cleaned(r)
        BY <1>2, <3>3 DEF Cleaned, Answers, Goes, TypeOK, WorkIsCleaned
      <3>4. CASE Cancelled(r)
        BY <1>2, <3>4 DEF Cancelled, Answers, Goes, TypeOK, WorkIsCleaned, Working
      <3>5. CASE \/ Look(r) \/ Fetched(r) \/ FetchFails(r) \/ FindsStale(r) \/ RemovesStale(r)
                 \/ Evicted(r) \/ Creates(r) \/ Writes(r) \/ Renames(r) \/ Serves(r)
        <4>1. UNCHANGED <<gone, work, broken>> /\ pc[r] \notin Working /\ \E to : Goes(r, to)
          BY <3>5 DEF Look, Fetched, FetchFails, FindsStale, RemovesStale, Evicted,
                      Creates, Writes, Renames, Serves, Answers, Working
        <4> QED BY <1>2, <4>1 DEF Goes, TypeOK, WorkIsCleaned
      <3> QED BY <2>1, <3>1, <3>2, <3>3, <3>4, <3>5 DEF Request
    <2>2. CASE Restart
      BY <2>2 DEF Restart, WorkIsCleaned
    <2>3. CASE UNCHANGED vars \/ \E i \in Requests : Ages(i)
      BY <1>2, <2>3 DEF vars, Ages, WorkIsCleaned
    <2> QED BY <1>2, <2>1, <2>2, <2>3 DEF Next
  <1> QED BY <1>1, <1>2, Invariance, PTL DEF Spec, IInv

-------------------------------------------------------------------------------
(***************************************************************************)
(* Numbers and sequences. The provers have no induction to apply, but      *)
(* every set of natural numbers has a least element: what holds of zero    *)
(* and of the number behind every number it holds of holds of all          *)
(* (AllNumbers), and blocks of bytes are found at the sums of the lengths  *)
(* before them.                                                            *)
(***************************************************************************)

\* A set of natural numbers has a least element.
LEMMA LeastOf ==
    ASSUME NEW T \in SUBSET Nat, T # {}
    PROVE  \E x \in T : \A y \in T : x <= y
<1>1. PICK x \in T : \A y \in T : ~(<<y, x>> \in OpToRel(<, Nat))
  <2>1. T \subseteq Nat
    OBVIOUS
  <2> QED
    BY <2>1, NatLessThanWellFounded, WFMin, Zenon
<1>2. ASSUME NEW y \in T PROVE x <= y
  <2>1. <<y, x>> \in Nat \X Nat /\ <<y, x>>[1] = y /\ <<y, x>>[2] = x
    OBVIOUS
  <2>2. ~(y < x)
    BY <1>1, <2>1 DEF OpToRel
  <2> QED
    BY <2>2
<1> QED
  BY <1>2

\* Induction, over the set of the numbers for which something holds.
LEMMA AllNumbers ==
    ASSUME NEW T, 0 \in T, \A n \in Nat : n \in T => n + 1 \in T
    PROVE  \A n \in Nat : n \in T
<1> DEFINE others == {n \in Nat : n \notin T}
<1>1. SUFFICES ASSUME others # {} PROVE FALSE
  OBVIOUS
<1>2. PICK x \in others : \A y \in others : x <= y
  <2>1. others \in SUBSET Nat
    OBVIOUS
  <2> HIDE DEF others
  <2> QED
    BY <1>1, <2>1, LeastOf
<1>3. x - 1 \in Nat /\ x - 1 \in T
  BY <1>2
<1> QED
  BY <1>2, <1>3

-----------------------------------------------------------------------------
(* FlattenSeq.                                                             *)

Joins(f, s, n) == f = [i \in 1..n |-> IF i = 1 THEN s[i] ELSE f[i - 1] \o s[i]]

\* The recursion of FlattenSeq has a solution.
LEMMA JoinsExist ==
    ASSUME NEW s, NEW m \in Nat
    PROVE  \E f : Joins(f, s, m)
<1> DEFINE T == {n \in Nat : \E f : Joins(f, s, n)}
<1>1. 0 \in T
  <2>1. Joins([i \in 1..0 |-> 0], s, 0)
    BY DEF Joins
  <2> QED
    BY <2>1
<1>2. ASSUME NEW n \in Nat, n \in T PROVE n + 1 \in T
  <2>1. PICK f : Joins(f, s, n)
    BY <1>2
  <2> DEFINE last == IF n = 0 THEN s[1] ELSE f[n] \o s[n + 1]
             g == [i \in 1..n + 1 |-> IF i = n + 1 THEN last ELSE f[i]]
  <2>2. ASSUME NEW i \in 1..n + 1 PROVE g[i] = IF i = 1 THEN s[i] ELSE g[i - 1] \o s[i]
    <3>1. CASE i = n + 1
      BY <3>1
    <3>2. CASE i # n + 1
      <4>1. i \in 1..n /\ (i # 1 => i - 1 \in 1..n)
        BY <3>2
      <4>2. f[i] = IF i = 1 THEN s[i] ELSE f[i - 1] \o s[i]
        BY <2>1, <4>1 DEF Joins
      <4> QED
        BY <4>1, <4>2
    <3> QED
      BY <3>1, <3>2
  <2>3. Joins(g, s, n + 1)
    BY <2>2 DEF Joins
  <2> QED
    BY <2>3
<1> HIDE DEF T
<1>3. m \in T
  BY <1>1, <1>2, AllNumbers
<1> QED
  BY <1>3 DEF T

\* Block i of the sequences s lies behind off[i - 1] in t, and t is nothing else.
Blocks(s, off, t) ==
    /\ off \in [0..Len(s) -> Nat] /\ off[0] = 0 /\ Len(t) = off[Len(s)]
    /\ \A i \in 1..Len(s) : off[i] = off[i - 1] + Len(s[i])
    /\ \A i \in 1..Len(s) : \A k \in 1..Len(s[i]) : t[off[i - 1] + k] = s[i][k]

\* What never decreases from one number to the next never decreases.
LEMMA Ascends ==
    ASSUME NEW N \in Nat, NEW off \in [0..N -> Nat], \A i \in 1..N : off[i - 1] <= off[i]
    PROVE  \A i, j \in 0..N : i <= j => off[i] <= off[j]
<1> TAKE i \in 0..N
<1> DEFINE T == {n \in Nat : i + n <= N => off[i] <= off[i + n]}
<1>1. 0 \in T
  OBVIOUS
<1>2. ASSUME NEW n \in Nat, n \in T PROVE n + 1 \in T
  <2>1. SUFFICES ASSUME i + (n + 1) <= N PROVE off[i] <= off[i + (n + 1)]
    OBVIOUS
  <2>2. i + n \in 0..N /\ i + (n + 1) \in 1..N /\ (i + (n + 1)) - 1 = i + n
    BY <2>1
  <2>3. off[i + n] <= off[i + (n + 1)]
    BY <2>2
  <2>4. off[i] <= off[i + n]
    BY <1>2, <2>2
  <2>5. off[i] \in Nat /\ off[i + n] \in Nat /\ off[i + (n + 1)] \in Nat
    BY <2>2
  <2> QED
    BY <2>3, <2>4, <2>5
<1> HIDE DEF T
<1>3. \A n \in Nat : n \in T
  BY <1>1, <1>2, AllNumbers
<1> TAKE j \in 0..N
<1>4. SUFFICES ASSUME i <= j PROVE off[i] <= off[j]
  OBVIOUS
<1>5. j - i \in Nat /\ i + (j - i) = j /\ j <= N
  BY <1>4
<1>6. j - i \in T
  BY <1>3, <1>5
<1>7. i + (j - i) <= N => off[i] <= off[i + (j - i)]
  BY <1>6 DEF T
<1> QED
  BY <1>5, <1>7

\* Each number up to the last one lies between two that follow each other.
LEMMA Covers ==
    ASSUME NEW N \in Nat, NEW off \in [0..N -> Nat], off[0] = 0, NEW q \in 1..off[N]
    PROVE  \E i \in 1..N : off[i - 1] < q /\ q <= off[i]
<1> DEFINE T == {n \in 0..N : q <= off[n]}
<1>0. N \in 0..N /\ off[N] \in Nat
  OBVIOUS
<1>1. T \in SUBSET Nat /\ N \in T
  BY <1>0
<1>2. PICK i \in T : \A j \in T : i <= j
  <2> HIDE DEF T
  <2> QED
    BY <1>1, LeastOf
<1>3. i \in 0..N /\ q <= off[i] /\ i # 0
  BY <1>0, <1>2
<1>4. i - 1 \in 0..N /\ i - 1 \notin T
  BY <1>2, <1>3
<1> QED
  BY <1>0, <1>3, <1>4

\* Each place of the whole is in a block.
LEMMA BlocksCover ==
    ASSUME NEW s, Len(s) \in Nat, NEW off, NEW t, Blocks(s, off, t),
           \A i \in 1..Len(s) : Len(s[i]) \in Nat,
           NEW q \in 1..Len(t)
    PROVE  \E i \in 1..Len(s) : \E k \in 1..Len(s[i]) : q = off[i - 1] + k
<1>1. off \in [0..Len(s) -> Nat] /\ off[0] = 0 /\ q \in 1..off[Len(s)]
  BY DEF Blocks
<1>2. PICK i \in 1..Len(s) : off[i - 1] < q /\ q <= off[i]
  BY <1>1, Covers
<1>3. off[i - 1] \in Nat /\ off[i] = off[i - 1] + Len(s[i]) /\ Len(s[i]) \in Nat
  BY <1>1 DEF Blocks
<1>4. q - off[i - 1] \in 1..Len(s[i]) /\ q = off[i - 1] + (q - off[i - 1])
  BY <1>2, <1>3
<1> QED
  BY <1>4

LEMMA PairsEqual ==
    ASSUME NEW a, NEW b, NEW c, NEW d, <<a, b>> = <<c, d>>
    PROVE  a = c /\ b = d
  OBVIOUS

\* A function of the numbers up to n is a sequence, and a sequence is such a function.
LEMMA IsSequence ==
    ASSUME NEW A, NEW n \in Nat, NEW f, f = [k \in 1..n |-> f[k]], \A k \in 1..n : f[k] \in A
    PROVE  f \in Seq(A) /\ Len(f) = n /\ DOMAIN f = 1..n
  OBVIOUS

LEMMA SequenceIs ==
    ASSUME NEW A, NEW f \in Seq(A)
    PROVE  /\ f = [k \in 1..Len(f) |-> f[k]] /\ Len(f) \in Nat /\ DOMAIN f = 1..Len(f)
           /\ \A k \in 1..Len(f) : f[k] \in A
  OBVIOUS

\* What a concatenation is made of.
LEMMA ConcatIs ==
    ASSUME NEW A, NEW u \in Seq(A), NEW v \in Seq(A), NEW w, w = u \o v
    PROVE  /\ w \in Seq(A) /\ Len(w) = Len(u) + Len(v)
           /\ \A k \in 1..Len(u) : w[k] = u[k]
           /\ \A k \in 1..Len(v) : w[Len(u) + k] = v[k]
  OBVIOUS

\* A flattened sequence is its blocks, one behind the other.
LEMMA FlattenIsBlocks ==
    ASSUME NEW A, NEW s \in Seq(Seq(A))
    PROVE  /\ FlattenSeq(s) \in Seq(A)
           /\ \E off : Blocks(s, off, FlattenSeq(s))
<1> DEFINE N == Len(s)
<1>1. N \in Nat /\ \A i \in 1..N : s[i] \in Seq(A) /\ Len(s[i]) \in Nat
  OBVIOUS
<1>2. CASE N = 0
  <2>1. FlattenSeq(s) = s /\ s = <<>> /\ Len(s) = 0
    BY <1>2 DEF FlattenSeq
  <2>2. Blocks(s, [i \in 0..0 |-> 0], s)
    BY <2>1 DEF Blocks
  <2> QED
    BY <2>1, <2>2
<1>3. CASE N # 0
  <2> DEFINE f == CHOOSE g : g = [i \in 1..N |-> IF i = 1 THEN s[i] ELSE g[i - 1] \o s[i]]
  <2>1. \E g : g = [i \in 1..N |-> IF i = 1 THEN s[i] ELSE g[i - 1] \o s[i]]
    BY <1>1, JoinsExist DEF Joins
  <2>2. f = [i \in 1..N |-> IF i = 1 THEN s[i] ELSE f[i - 1] \o s[i]]
    BY <2>1
  <2>3. FlattenSeq(s) = f[N]
    BY <1>1, <1>3 DEF FlattenSeq
  <2> HIDE DEF f
  <2> DEFINE off == [i \in 0..N |-> IF i = 0 THEN 0 ELSE Len(f[i])]
             Good(n) == /\ f[n] \in Seq(A)
                        /\ \A i \in 0..n : off[i] \in Nat /\ off[i] <= off[n]
                        /\ \A i \in 1..n : off[i] = off[i - 1] + Len(s[i])
                        /\ \A i \in 1..n : \A k \in 1..Len(s[i]) : f[n][off[i - 1] + k] = s[i][k]
             T == {n \in Nat : n + 1 <= N => Good(n + 1)}
  <2>4. off[0] = 0 /\ \A i \in 1..N : off[i] = Len(f[i])
    BY <1>1
  <2>5. Good(1)
    <3>1. f[1] = s[1] /\ 1 \in 1..N
      BY <1>1, <1>3, <2>2
    <3>2. off[1] = Len(s[1])
      BY <3>1, <2>4
    <3> HIDE DEF off
    <3> QED
      BY <1>1, <2>4, <3>1, <3>2
  <2>6. ASSUME NEW n \in Nat, n + 1 \in 1..N, n # 0, Good(n) PROVE Good(n + 1)
    <3>1. n \in 1..N /\ (n + 1) - 1 = n /\ n + 1 # 1
      BY <1>1, <2>6
    <3>2. f[n + 1] = f[n] \o s[n + 1]
      BY ZenonT(30), <2>2, <2>6, <3>1
    <3>3. f[n] \in Seq(A) /\ s[n + 1] \in Seq(A) /\ off[n] = Len(f[n]) /\ off[n + 1] = Len(f[n + 1])
      BY <1>1, <2>4, <2>6, <3>1
    <3> HIDE DEF off
    <3>4. /\ f[n + 1] \in Seq(A) /\ Len(f[n + 1]) = Len(f[n]) + Len(s[n + 1])
          /\ \A k \in 1..Len(f[n]) : f[n + 1][k] = f[n][k]
          /\ \A k \in 1..Len(s[n + 1]) : f[n + 1][Len(f[n]) + k] = s[n + 1][k]
      <4> DEFINE u == f[n]
                 v == s[n + 1]
                 w == f[n + 1]
      <4>1. u \in Seq(A) /\ v \in Seq(A) /\ w = u \o v
        BY <3>2, <3>3
      <4> HIDE DEF u, v, w
      <4>2. /\ w \in Seq(A) /\ Len(w) = Len(u) + Len(v)
            /\ \A k \in 1..Len(u) : w[k] = u[k]
            /\ \A k \in 1..Len(v) : w[Len(u) + k] = v[k]
        BY <4>1, ConcatIs
      <4> QED
        BY <4>2 DEF u, v, w
    <3>5. off[n + 1] = off[n] + Len(s[n + 1]) /\ Len(s[n + 1]) \in Nat /\ off[n] \in Nat /\ off[n + 1] \in Nat
      <4>1. Len(s[n + 1]) \in Nat /\ Len(f[n]) \in Nat
        BY <3>3
      <4>2. off[n] \in Nat
        BY <3>3, <4>1
      <4>3. Len(f[n + 1]) = Len(f[n]) + Len(s[n + 1])
        BY <3>4
      <4>4. off[n + 1] = off[n] + Len(s[n + 1])
        BY <3>3, <4>3
      <4>5. off[n + 1] \in Nat
        BY <4>1, <4>2, <4>4
      <4> QED
        BY <4>1, <4>2, <4>4, <4>5
    <3>6. ASSUME NEW i \in 0..n + 1 PROVE off[i] \in Nat /\ off[i] <= off[n + 1]
      <4>1. i = n + 1 \/ i \in 0..n
        OBVIOUS
      <4>2. CASE i \in 0..n
        <5>1. off[i] \in Nat /\ off[i] <= off[n]
          BY <4>2, <2>6
        <5> QED
          BY <5>1, <3>5
      <4> QED
        BY <4>1, <4>2, <3>5
    <3>7. ASSUME NEW i \in 1..n + 1 PROVE off[i] = off[i - 1] + Len(s[i])
      <4>1. i = n + 1 \/ i \in 1..n
        OBVIOUS
      <4> QED
        BY <4>1, <2>6, <3>1, <3>5
    <3>8. ASSUME NEW i \in 1..n + 1, NEW k \in 1..Len(s[i]) PROVE f[n + 1][off[i - 1] + k] = s[i][k]
      <4>1. i = n + 1 \/ i \in 1..n
        OBVIOUS
      <4>2. CASE i = n + 1
        BY <4>2, <3>1, <3>3, <3>4
      <4>3. CASE i \in 1..n
        <5>1. i - 1 \in 0..n /\ i \in 0..n /\ i \in 1..N
          BY <4>3, <1>1, <3>1
        <5>2. /\ off[i - 1] \in Nat /\ off[i] <= off[n] /\ off[i] \in Nat
              /\ off[i] = off[i - 1] + Len(s[i]) /\ f[n][off[i - 1] + k] = s[i][k] /\ Len(s[i]) \in Nat
          BY <4>3, <5>1, <2>6, <1>1
        <5>3. off[i - 1] + k \in 1..Len(f[n])
          BY SMTT(30), <5>2, <3>3, <3>5
        <5> QED
          BY <5>2, <5>3, <3>4
      <4> QED
        BY <4>1, <4>2, <4>3
    <3> QED
      BY <3>4, <3>6, <3>7, <3>8
  <2>7. Good(N)
    <3>1. 0 \in T
      <4> HIDE DEF Good
      <4> QED
        BY <2>5
    <3>2. ASSUME NEW m \in Nat, m \in T PROVE m + 1 \in T
      <4> DEFINE n == m + 1
      <4>1. n \in Nat /\ n # 0
        OBVIOUS
      <4> HIDE DEF Good
      <4>2. SUFFICES ASSUME n + 1 <= N PROVE Good(n + 1)
        OBVIOUS
      <4>3. n <= N /\ n + 1 \in 1..N
        BY <1>1, <4>2
      <4>4. Good(n)
        BY <3>2, <4>3
      <4> HIDE DEF n
      <4> QED
        BY <2>6, <4>1, <4>3, <4>4
    <3>3. N - 1 \in Nat /\ (N - 1) + 1 = N
      BY <1>1, <1>3
    <3> HIDE DEF T
    <3>4. N - 1 \in T
      BY <3>1, <3>2, <3>3, AllNumbers
    <3> HIDE DEF Good
    <3> QED
      BY <3>3, <3>4, <1>1 DEF T
  <2>8. Blocks(s, off, f[N])
    <3>1. off \in [0..N -> Nat]
      <4>1. ASSUME NEW i \in 0..N PROVE off[i] \in Nat
        BY <2>7, <1>1
      <4> QED
        BY <4>1
    <3>2. Len(f[N]) = off[N]
      BY <1>1, <1>3, <2>4
    <3> HIDE DEF off
    <3> QED
      BY <3>1, <3>2, <2>4, <2>7 DEF Blocks
  <2> QED
    BY <2>3, <2>7, <2>8
<1> QED
  BY <1>2, <1>3


-------------------------------------------------------------------------------
(***************************************************************************)
(* Streams in packets. PidPositions lists a PID's bytes packet by packet;  *)
(* what _decrypt_pid reads is the stream the packets carry, and what it    *)
(* puts back is the packets with the new stream in them and nothing else   *)
(* changed.                                                                *)
(***************************************************************************)

Packet == [pid : {"video", "audio"}, pes : Nat, bytes : Seq(Nat)]

\* What _pid_payload leaves out of packet i, and how many bytes it takes from it.
SkipOf(P, strip, i) == IF strip THEN P[i].pes ELSE 0
Slots(P, pid, strip, i) == IF P[i].pid # pid THEN 0 ELSE Len(P[i].bytes) - SkipOf(P, strip, i)

\* The PES header of a packet is in it.
PesFits(P) == \A i \in 1..Len(P) : P[i].pid = "audio" => P[i].pes <= Len(P[i].bytes)

\* Where the bytes of each packet begin in the stream of a PID.
Places(P, pid, strip, off) ==
    /\ off \in [0..Len(P) -> Nat] /\ off[0] = 0
    /\ \A i \in 1..Len(P) : off[i] = off[i - 1] + Slots(P, pid, strip, i)

\* There is one way only to place them.
LEMMA OnePlace ==
    ASSUME NEW P \in Seq(Packet), NEW pid, NEW strip, NEW off, NEW off2,
           Places(P, pid, strip, off), Places(P, pid, strip, off2)
    PROVE  off = off2
<1> DEFINE T == {n \in Nat : n <= Len(P) => off[n] = off2[n]}
<1>1. 0 \in T
  BY DEF Places
<1>2. ASSUME NEW n \in Nat, n \in T PROVE n + 1 \in T
  <2>1. SUFFICES ASSUME n + 1 <= Len(P) PROVE off[n + 1] = off2[n + 1]
    OBVIOUS
  <2>2. n + 1 \in 1..Len(P) /\ (n + 1) - 1 = n /\ off[n] = off2[n]
    BY <1>2, <2>1
  <2> QED
    BY <2>2 DEF Places
<1>3. \A n \in 0..Len(P) : n \in T
  <2> HIDE DEF T
  <2>1. \A n \in Nat : n \in T
    BY <1>1, <1>2, AllNumbers
  <2> QED
    BY <2>1
<1> QED
  BY <1>3 DEF Places

\* A packet that is looked at has no fewer bytes than are left out of it.
LEMMA SlotsTyped ==
    ASSUME NEW P \in Seq(Packet), PesFits(P), NEW pid \in {"video", "audio"},
           NEW strip \in BOOLEAN, strip => pid = "audio", NEW i \in 1..Len(P)
    PROVE  /\ P[i] \in Packet /\ P[i].bytes \in Seq(Nat) /\ Len(P[i].bytes) \in Nat /\ P[i].pes \in Nat
           /\ Slots(P, pid, strip, i) \in Nat /\ SkipOf(P, strip, i) \in Nat
           /\ P[i].pid = pid => Slots(P, pid, strip, i) + SkipOf(P, strip, i) = Len(P[i].bytes)
<1>1. P[i] \in Packet
  OBVIOUS
<1>2. P[i].bytes \in Seq(Nat) /\ P[i].pes \in Nat
  BY <1>1 DEF Packet
<1>3. Len(P[i].bytes) \in Nat
  BY <1>2
<1>4. P[i].pid = "audio" => P[i].pes <= Len(P[i].bytes)
  BY DEF PesFits
<1> QED
  BY <1>1, <1>2, <1>3, <1>4 DEF Slots, SkipOf

\* What PidPositions returns: each byte of the PID's packets behind what is left out.
Positioned(P, pid, strip, off, pos) ==
    /\ Places(P, pid, strip, off)
    /\ pos \in Seq(Nat \X Nat) /\ Len(pos) = off[Len(P)]
    /\ \A i \in 1..Len(P) : \A k \in 1..Slots(P, pid, strip, i) :
           pos[off[i - 1] + k] = <<i, SkipOf(P, strip, i) + k>>
    /\ \A q \in 1..Len(pos) : \E i \in 1..Len(P) : \E k \in 1..Slots(P, pid, strip, i) :
           q = off[i - 1] + k

LEMMA PositionsAre ==
    ASSUME NEW P \in Seq(Packet), PesFits(P), NEW pid \in {"video", "audio"},
           NEW strip \in BOOLEAN, strip => pid = "audio"
    PROVE  \E off : Positioned(P, pid, strip, off, PidPositions(P, pid, strip))
<1> DEFINE s == [i \in 1..Len(P) |->
                    IF P[i].pid # pid THEN <<>>
                    ELSE [k \in 1..Len(P[i].bytes) - SkipOf(P, strip, i) |-> <<i, SkipOf(P, strip, i) + k>>]]
           pos == PidPositions(P, pid, strip)
<1>1. pos = FlattenSeq(s)
  BY DEF PidPositions, SkipOf
<1>2. ASSUME NEW i \in 1..Len(P)
      PROVE  /\ s[i] \in Seq(Nat \X Nat) /\ Len(s[i]) = Slots(P, pid, strip, i)
             /\ \A k \in 1..Slots(P, pid, strip, i) : s[i][k] = <<i, SkipOf(P, strip, i) + k>>
  <2>1. /\ Slots(P, pid, strip, i) \in Nat /\ SkipOf(P, strip, i) \in Nat
        /\ P[i].pid = pid => Len(P[i].bytes) - SkipOf(P, strip, i) = Slots(P, pid, strip, i)
    BY SlotsTyped DEF Slots
  <2>2. CASE P[i].pid # pid
    <3>1. s[i] = <<>> /\ Slots(P, pid, strip, i) = 0
      BY <2>2 DEF Slots
    <3> HIDE DEF s
    <3>2. <<>> \in Seq(Nat \X Nat) /\ Len(<<>>) = 0
      OBVIOUS
    <3>3. \A k \in 1..0 : FALSE
      OBVIOUS
    <3> QED
      BY <3>1, <3>2, <3>3, Zenon
  <2>3. CASE P[i].pid = pid
    <3> DEFINE n == Slots(P, pid, strip, i)
               d == SkipOf(P, strip, i)
    <3>1. s[i] = [k \in 1..n |-> <<i, d + k>>] /\ n \in Nat /\ d \in Nat
      BY <2>1, <2>3
    <3> HIDE DEF n, d, s
    <3>2. \A k \in 1..n : <<i, d + k>> \in Nat \X Nat
      BY <3>1
    <3>3. s[i] \in Seq(Nat \X Nat) /\ Len(s[i]) = n
      BY <3>1, <3>2
    <3> QED
      BY <3>1, <3>3 DEF n, d
  <2> QED
    BY <2>2, <2>3
<1>3. Len(s) = Len(P) /\ Len(P) \in Nat
  OBVIOUS
<1> HIDE DEF s
<1>4. s \in Seq(Seq(Nat \X Nat))
  <2>1. s = [i \in 1..Len(P) |-> s[i]]
    BY DEF s
  <2> QED
    BY <1>2, <1>3, <2>1
<1>5. pos \in Seq(Nat \X Nat) /\ \E off : Blocks(s, off, pos)
  BY <1>1, <1>4, FlattenIsBlocks
<1>6. PICK off : Blocks(s, off, pos)
  BY <1>5
<1> HIDE DEF pos
<1>7. Places(P, pid, strip, off)
  BY <1>2, <1>3, <1>6 DEF Blocks, Places
<1>8. ASSUME NEW i \in 1..Len(P), NEW k \in 1..Slots(P, pid, strip, i)
      PROVE  pos[off[i - 1] + k] = <<i, SkipOf(P, strip, i) + k>>
  <2>1. i \in 1..Len(s) /\ k \in 1..Len(s[i]) /\ s[i][k] = <<i, SkipOf(P, strip, i) + k>>
    BY <1>2, <1>3
  <2>2. pos[off[i - 1] + k] = s[i][k]
    BY <2>1, <1>6 DEF Blocks
  <2> QED
    BY <2>1, <2>2
<1>9. ASSUME NEW q \in 1..Len(pos)
      PROVE  \E i \in 1..Len(P) : \E k \in 1..Slots(P, pid, strip, i) : q = off[i - 1] + k
  <2>1. \A i \in 1..Len(s) : Len(s[i]) \in Nat
    BY <1>2, <1>3
  <2>2. \E i \in 1..Len(s) : \E k \in 1..Len(s[i]) : q = off[i - 1] + k
    BY <1>3, <1>6, <2>1, BlocksCover
  <2> QED
    BY <1>2, <1>3, <2>2
<1>10. Len(pos) = off[Len(P)]
  BY <1>3, <1>6 DEF Blocks
<1> QED
  BY <1>5, <1>7, <1>8, <1>9, <1>10 DEF Positioned, pos

\* A byte that is looked at has a place in the stream.
LEMMA PlaceInside ==
    ASSUME NEW P \in Seq(Packet), PesFits(P), NEW pid \in {"video", "audio"},
           NEW strip \in BOOLEAN, strip => pid = "audio",
           NEW off, NEW pos, Positioned(P, pid, strip, off, pos),
           NEW i \in 1..Len(P), NEW k \in 1..Slots(P, pid, strip, i)
    PROVE  off[i - 1] + k \in 1..Len(pos)
<1>0. Len(P) \in Nat /\ Len(pos) \in Nat /\ Slots(P, pid, strip, i) \in Nat
  BY SlotsTyped DEF Positioned
<1>1. off[i] <= off[Len(P)] 
  <2>1. ASSUME NEW j \in 1..Len(P) PROVE off[j - 1] <= off[j]
    <3>1. Slots(P, pid, strip, j) \in Nat
      BY SlotsTyped
    <3>2. off[j - 1] \in Nat /\ off[j] = off[j - 1] + Slots(P, pid, strip, j)
      <4>1. /\ off \in [0..Len(P) -> Nat]
            /\ \A l \in 1..Len(P) : off[l] = off[l - 1] + Slots(P, pid, strip, l)
        BY DEF Positioned, Places
      <4>2. j - 1 \in 0..Len(P)
        BY <1>0
      <4> QED
        BY <4>1, <4>2
    <3> QED
      BY <3>1, <3>2
  <2>2. off \in [0..Len(P) -> Nat]
    BY DEF Positioned, Places
  <2>3. \A j, l \in 0..Len(P) : j <= l => off[j] <= off[l]
    BY <1>0, <2>1, <2>2, Ascends, Zenon
  <2>4. i \in 0..Len(P) /\ Len(P) \in 0..Len(P) /\ i <= Len(P)
    BY <1>0
  <2> QED
    BY <2>3, <2>4
<1>2. off[i] = off[i - 1] + Slots(P, pid, strip, i) /\ off[i - 1] \in Nat /\ Len(pos) = off[Len(P)] /\ off[i] \in Nat
  <2>1. i - 1 \in 0..Len(P) /\ i \in 0..Len(P)
    BY <1>0
  <2> QED
    BY <2>1 DEF Positioned, Places
<1> QED
  BY <1>1, <1>2, <1>0, <1>0

\* The bytes at the positions are the stream.
LEMMA BytesAtIs ==
    ASSUME NEW P \in Seq(Packet), PesFits(P), NEW pid \in {"video", "audio"},
           NEW strip \in BOOLEAN, strip => pid = "audio",
           NEW off, NEW pos, Positioned(P, pid, strip, off, pos)
    PROVE  /\ BytesAt(P, pos) \in Seq(Nat) /\ Len(BytesAt(P, pos)) = Len(pos)
           /\ \A i \in 1..Len(P) : \A k \in 1..Slots(P, pid, strip, i) :
                  BytesAt(P, pos)[off[i - 1] + k] = P[i].bytes[SkipOf(P, strip, i) + k]
<1>1. /\ Len(pos) \in Nat /\ Len(P) \in Nat /\ DOMAIN pos = 1..Len(pos) 
      /\ BytesAt(P, pos) = [q \in 1..Len(pos) |-> P[pos[q][1]].bytes[pos[q][2]]]
  BY DEF BytesAt, Positioned
<1>2. ASSUME NEW i \in 1..Len(P), NEW k \in 1..Slots(P, pid, strip, i)
      PROVE  /\ off[i - 1] + k \in 1..Len(pos)
             /\ BytesAt(P, pos)[off[i - 1] + k] = P[i].bytes[SkipOf(P, strip, i) + k]
             /\ P[i].bytes[SkipOf(P, strip, i) + k] \in Nat
  <2>1. /\ P[i].bytes \in Seq(Nat) /\ Slots(P, pid, strip, i) \in Nat /\ SkipOf(P, strip, i) \in Nat
        /\ P[i].pid = pid => Slots(P, pid, strip, i) + SkipOf(P, strip, i) = Len(P[i].bytes)
    BY SlotsTyped
  <2>2. P[i].pid = pid
    BY <2>1 DEF Slots
  <2>3. SkipOf(P, strip, i) + k \in 1..Len(P[i].bytes)
    BY <2>1, <2>2
  <2>4. off[i - 1] + k \in 1..Len(pos)
    BY PlaceInside
  <2>5. pos[off[i - 1] + k] = <<i, SkipOf(P, strip, i) + k>>
    BY DEF Positioned
  <2>6. P[i].bytes[SkipOf(P, strip, i) + k] \in Nat
    BY <2>1, <2>3
  <2> QED
    BY <1>1, <2>4, <2>5, <2>6
<1>3. ASSUME NEW q \in 1..Len(pos) PROVE BytesAt(P, pos)[q] \in Nat
  <2>1. PICK i \in 1..Len(P) : \E k \in 1..Slots(P, pid, strip, i) : q = off[i - 1] + k
    BY DEF Positioned
  <2> QED
    BY <1>2, <2>1
<1>4. BytesAt(P, pos) \in Seq(Nat) /\ Len(BytesAt(P, pos)) = Len(pos)
  <2>1. BytesAt(P, pos) = [q \in 1..Len(pos) |-> BytesAt(P, pos)[q]]
    BY <1>1
  <2> QED
    BY <1>1, <1>3, <2>1
<1> QED
  BY <1>2, <1>4

\* A position belongs to one byte only.
LEMMA PositionsDiffer ==
    ASSUME NEW P \in Seq(Packet), PesFits(P), NEW pid \in {"video", "audio"},
           NEW strip \in BOOLEAN, strip => pid = "audio",
           NEW off, NEW pos, Positioned(P, pid, strip, off, pos),
           NEW q \in 1..Len(pos), NEW r \in 1..Len(pos), pos[q] = pos[r]
    PROVE  q = r
<1>1. PICK i \in 1..Len(P) : \E k \in 1..Slots(P, pid, strip, i) : q = off[i - 1] + k
  BY DEF Positioned
<1>2. PICK k \in 1..Slots(P, pid, strip, i) : q = off[i - 1] + k
  BY <1>1
<1>3. PICK j \in 1..Len(P) : \E l \in 1..Slots(P, pid, strip, j) : r = off[j - 1] + l
  BY DEF Positioned
<1>4. PICK l \in 1..Slots(P, pid, strip, j) : r = off[j - 1] + l
  BY <1>3
<1>5. pos[q] = <<i, SkipOf(P, strip, i) + k>> /\ pos[r] = <<j, SkipOf(P, strip, j) + l>>
  BY <1>2, <1>4 DEF Positioned
<1>6. i = j /\ SkipOf(P, strip, i) + k = SkipOf(P, strip, i) + l
  <2>1. <<i, SkipOf(P, strip, i) + k>> = <<j, SkipOf(P, strip, j) + l>>
    BY <1>5
  <2>2. i = j /\ SkipOf(P, strip, i) + k = SkipOf(P, strip, j) + l
    BY <2>1, PairsEqual, Zenon
  <2> QED
    BY <2>2
<1>7. SkipOf(P, strip, i) \in Nat /\ k \in Int /\ l \in Int
  BY SlotsTyped
<1> QED
  BY <1>2, <1>4, <1>6, <1>7

\* Rewritten changes the bytes of the PID's packets behind what is left out, to those of dec,
\* and nothing else.
LEMMA RewrittenIs ==
    ASSUME NEW P \in Seq(Packet), PesFits(P), NEW pid \in {"video", "audio"},
           NEW strip \in BOOLEAN, strip => pid = "audio",
           NEW off, NEW pos, Positioned(P, pid, strip, off, pos),
           NEW dec \in Seq(Nat), Len(dec) = Len(pos)
    PROVE  LET R == Rewritten(P, pos, dec)
           IN /\ R \in Seq(Packet) /\ PesFits(R) /\ Len(R) = Len(P)
              /\ \A i \in 1..Len(P) :
                    /\ R[i].pid = P[i].pid /\ R[i].pes = P[i].pes /\ Len(R[i].bytes) = Len(P[i].bytes)
                    /\ P[i].pid # pid => R[i] = P[i]
                    /\ P[i].pid = pid =>
                          /\ \A k \in 1..SkipOf(P, strip, i) : R[i].bytes[k] = P[i].bytes[k]
                          /\ \A k \in 1..Slots(P, pid, strip, i) :
                                R[i].bytes[SkipOf(P, strip, i) + k] = dec[off[i - 1] + k]
<1> DEFINE at == [w \in ToSet(pos) |-> dec[CHOOSE q \in DOMAIN pos : pos[q] = w]]
           R == Rewritten(P, pos, dec)
           new(i) == [k \in DOMAIN P[i].bytes |-> IF <<i, k>> \in DOMAIN at THEN at[<<i, k>>] ELSE P[i].bytes[k]]
<1>1. R = [i \in DOMAIN P |-> [P[i] EXCEPT !.bytes = new(i)]]
  BY DEF Rewritten
<1>2. DOMAIN P = 1..Len(P) /\ Len(P) \in Nat /\ pos \in Seq(Nat \X Nat) /\ DOMAIN pos = 1..Len(pos)
      /\ DOMAIN at = {pos[q] : q \in 1..Len(pos)} /\ Len(pos) \in Nat
  BY SMTT(30) DEF Positioned, ToSet
<1>3. ASSUME NEW q \in 1..Len(pos) PROVE at[pos[q]] = dec[q] /\ dec[q] \in Nat
  <2> DEFINE c == CHOOSE r \in DOMAIN pos : pos[r] = pos[q]
  <2>1. c \in 1..Len(pos) /\ pos[c] = pos[q]
    BY <1>2
  <2>2. c = q
    <3> HIDE DEF c
    <3> QED
      BY <2>1, PositionsDiffer
  <2>3. pos[q] \in DOMAIN at
    BY <1>2
  <2>4. at[pos[q]] = dec[c]
    BY <2>3
  <2>5. dec[q] \in Nat
    BY <1>2
  <2> HIDE DEF at, c
  <2> QED
    BY <2>2, <2>4, <2>5
<1>4. ASSUME NEW i \in 1..Len(P), NEW k \in 1..Slots(P, pid, strip, i)
      PROVE  /\ <<i, SkipOf(P, strip, i) + k>> \in DOMAIN at
             /\ at[<<i, SkipOf(P, strip, i) + k>>] = dec[off[i - 1] + k]
  <2>1. pos[off[i - 1] + k] = <<i, SkipOf(P, strip, i) + k>>
    BY DEF Positioned
  <2>2. off[i - 1] + k \in 1..Len(pos)
    <3>1. BytesAt(P, pos) \in Seq(Nat)
      BY BytesAtIs
    <3> QED
      BY PlaceInside
  <2> HIDE DEF at
  <2> QED
    BY <1>2, <1>3, <2>1, <2>2
<1>5. ASSUME NEW i \in 1..Len(P), NEW k \in Nat, <<i, k>> \in DOMAIN at
      PROVE  P[i].pid = pid /\ SkipOf(P, strip, i) < k
  <2>1. PICK q \in 1..Len(pos) : pos[q] = <<i, k>>
    BY <1>2, <1>5
  <2>2. PICK j \in 1..Len(P) : \E l \in 1..Slots(P, pid, strip, j) : q = off[j - 1] + l
    BY DEF Positioned
  <2>3. PICK l \in 1..Slots(P, pid, strip, j) : q = off[j - 1] + l
    BY <2>2
  <2>4. pos[q] = <<j, SkipOf(P, strip, j) + l>>
    BY <2>3 DEF Positioned
  <2>5. j = i /\ k = SkipOf(P, strip, i) + l
    BY <2>1, <2>4
  <2>6. SkipOf(P, strip, i) \in Nat /\ l \in Int /\ l >= 1
    BY SlotsTyped
  <2>7. P[i].pid = pid
    BY <2>3, <2>5 DEF Slots
  <2> QED
    BY <2>5, <2>6, <2>7
<1>6. ASSUME NEW i \in 1..Len(P), NEW k \in DOMAIN P[i].bytes, <<i, k>> \in DOMAIN at
      PROVE  at[<<i, k>>] \in Nat
  <2>1. PICK q \in 1..Len(pos) : pos[q] = <<i, k>>
    BY <1>2, <1>6
  <2> HIDE DEF at
  <2> QED
    BY <1>3, <2>1
<1> HIDE DEF at
<1>7. ASSUME NEW i \in 1..Len(P)
      PROVE  /\ P[i] \in Packet /\ P[i].bytes \in Seq(Nat) /\ DOMAIN P[i].bytes = 1..Len(P[i].bytes)
             /\ new(i) \in Seq(Nat) /\ Len(new(i)) = Len(P[i].bytes)
             /\ R[i] = [P[i] EXCEPT !.bytes = new(i)]
  <2>1. P[i] \in Packet /\ P[i].bytes \in Seq(Nat) /\ Len(P[i].bytes) \in Nat
    BY SlotsTyped
  <2>2. \A k \in 1..Len(P[i].bytes) : P[i].bytes[k] \in Nat
    BY <2>1
  <2>3. DOMAIN P[i].bytes = 1..Len(P[i].bytes)
    BY <2>1
  <2>4. \A k \in 1..Len(P[i].bytes) : new(i)[k] \in Nat
    BY <2>2, <2>3, <1>6
  <2>5. new(i) = [k \in 1..Len(P[i].bytes) |-> new(i)[k]]
    BY <2>3
  <2>6. new(i) \in Seq(Nat) /\ Len(new(i)) = Len(P[i].bytes)
    <3> DEFINE f == new(i)
               n == Len(P[i].bytes)
    <3>1. n \in Nat /\ f = [k \in 1..n |-> f[k]] /\ \A k \in 1..n : f[k] \in Nat
      BY <2>1, <2>4, <2>5
    <3> HIDE DEF f, n
    <3>2. f \in Seq(Nat) /\ Len(f) = n
      BY <3>1, IsSequence
    <3> QED
      BY <3>2 DEF f, n
  <2> QED
    BY <1>1, <1>2, <2>1, <2>3, <2>6
<1>8. ASSUME NEW i \in 1..Len(P)
      PROVE  R[i] \in Packet /\ R[i].pid = P[i].pid /\ R[i].pes = P[i].pes /\ R[i].bytes = new(i)
  <2> HIDE DEF new, R
  <2> QED
    BY <1>7 DEF Packet
<1>9. R \in Seq(Packet) /\ Len(R) = Len(P)
  <2>1. R = [i \in 1..Len(P) |-> R[i]]
    BY <1>1, <1>2
  <2> HIDE DEF R
  <2> QED
    BY <1>2, <1>8, <2>1, IsSequence
<1>10. ASSUME NEW i \in 1..Len(P), P[i].pid # pid PROVE R[i] = P[i]
  <2>1. \A k \in DOMAIN P[i].bytes : <<i, k>> \notin DOMAIN at
    <3> TAKE k \in DOMAIN P[i].bytes
    <3>1. DOMAIN P[i].bytes = 1..Len(P[i].bytes)
      BY <1>7
    <3>2. k \in Nat
      BY <3>1
    <3> QED
      BY <3>2, <1>5, <1>10
  <2>2. new(i) = P[i].bytes
    <3>1. new(i) = [k \in DOMAIN P[i].bytes |-> P[i].bytes[k]]
      BY <2>1
    <3> DEFINE b == P[i].bytes
    <3>2. b \in Seq(Nat)
      BY <1>7
    <3> HIDE DEF new, b
    <3>3. b = [k \in DOMAIN b |-> b[k]]
      BY <3>2
    <3> QED
      BY <3>1, <3>3 DEF b
  <2> DEFINE p == P[i]
             r == R[i]
  <2>3. p \in Packet /\ r = [p EXCEPT !.bytes = p.bytes]
    BY <2>2, <1>7
  <2> HIDE DEF new, R, p, r
  <2>4. r = p
    BY <2>3 DEF Packet
  <2> QED
    BY <2>4 DEF p, r
<1>11. ASSUME NEW i \in 1..Len(P), P[i].pid = pid, NEW k \in 1..SkipOf(P, strip, i)
       PROVE  R[i].bytes[k] = P[i].bytes[k]
  <2>1. SkipOf(P, strip, i) \in Nat /\ Slots(P, pid, strip, i) \in Nat
        /\ Slots(P, pid, strip, i) + SkipOf(P, strip, i) = Len(P[i].bytes) /\ Len(P[i].bytes) \in Nat
    BY <1>11, SlotsTyped
  <2>2. k \in DOMAIN P[i].bytes /\ k \in Nat /\ ~(SkipOf(P, strip, i) < k)
    BY <1>7, <2>1
  <2>3. <<i, k>> \notin DOMAIN at
    BY <2>2, <1>5
  <2> QED
    BY <1>8, <2>2, <2>3
<1>12. ASSUME NEW i \in 1..Len(P), P[i].pid = pid, NEW k \in 1..Slots(P, pid, strip, i)
       PROVE  R[i].bytes[SkipOf(P, strip, i) + k] = dec[off[i - 1] + k]
  <2>1. SkipOf(P, strip, i) \in Nat /\ Slots(P, pid, strip, i) \in Nat
        /\ Slots(P, pid, strip, i) + SkipOf(P, strip, i) = Len(P[i].bytes) /\ Len(P[i].bytes) \in Nat
    BY <1>12, SlotsTyped
  <2>2. SkipOf(P, strip, i) + k \in DOMAIN P[i].bytes
    BY <1>7, <2>1
  <2>3. new(i)[SkipOf(P, strip, i) + k] = at[<<i, SkipOf(P, strip, i) + k>>]
    BY <1>4, <2>2
  <2> HIDE DEF new, R
  <2> QED
    BY <1>8, <1>4, <2>3
<1>13. PesFits(R)
  <2> HIDE DEF R, new
  <2> QED
    BY <1>7, <1>8, <1>9 DEF PesFits
<1> QED
  <2> HIDE DEF new
  <2>1. \A i \in 1..Len(P) : Len(R[i].bytes) = Len(P[i].bytes)
    BY <1>7, <1>8
  <2> HIDE DEF R
  <2> QED
    BY <1>8, <1>9, <1>10, <1>11, <1>12, <1>13, <2>1 DEF R

\* What BytesOf reads, of any packets.
StreamIn(P, pid) ==
    FlattenSeq([i \in DOMAIN P |->
        IF P[i].pid # pid THEN <<>>
        ELSE IF pid = "audio" THEN SubSeq(P[i].bytes, P[i].pes + 1, Len(P[i].bytes))
        ELSE P[i].bytes])

\* t has the bytes of a PID's packets at their places, and no others.
Streams(P, pid, off, t) ==
    /\ Places(P, pid, pid = "audio", off)
    /\ t \in Seq(Nat) /\ Len(t) = off[Len(P)]
    /\ \A i \in 1..Len(P) : \A k \in 1..Slots(P, pid, pid = "audio", i) :
           t[off[i - 1] + k] = P[i].bytes[SkipOf(P, pid = "audio", i) + k]
    /\ \A q \in 1..Len(t) : \E i \in 1..Len(P) : \E k \in 1..Slots(P, pid, pid = "audio", i) :
           q = off[i - 1] + k

LEMMA StreamsEqual ==
    ASSUME NEW P \in Seq(Packet), NEW pid \in {"video", "audio"},
           NEW off, NEW t, NEW off2, NEW t2,
           Streams(P, pid, off, t), Streams(P, pid, off2, t2)
    PROVE  t = t2
<1>1. off = off2
  BY OnePlace DEF Streams
<1>2. Len(t) = Len(t2) /\ t \in Seq(Nat) /\ t2 \in Seq(Nat)
  BY <1>1 DEF Streams
<1>3. ASSUME NEW q \in 1..Len(t) PROVE t[q] = t2[q]
  <2>1. PICK i \in 1..Len(P) : \E k \in 1..Slots(P, pid, pid = "audio", i) : q = off[i - 1] + k
    BY DEF Streams
  <2>2. PICK k \in 1..Slots(P, pid, pid = "audio", i) : q = off[i - 1] + k
    BY <2>1
  <2>3. t[off[i - 1] + k] = P[i].bytes[SkipOf(P, pid = "audio", i) + k]
    BY DEF Streams
  <2>4. t2[off2[i - 1] + k] = P[i].bytes[SkipOf(P, pid = "audio", i) + k]
    BY DEF Streams
  <2> QED
    BY <1>1, <2>2, <2>3, <2>4
<1> QED
  BY <1>2, <1>3, SeqEqual

\* A part of a sequence, from its middle to an end.
LEMMA SubSeqIs ==
    ASSUME NEW A, NEW u \in Seq(A), NEW a \in Nat, NEW b \in Nat, a <= b, b <= Len(u)
    PROVE  /\ SubSeq(u, a + 1, b) \in Seq(A) /\ Len(SubSeq(u, a + 1, b)) = b - a
           /\ \A k \in 1..b - a : SubSeq(u, a + 1, b)[k] = u[a + k]
  OBVIOUS

LEMMA StreamInIs ==
    ASSUME NEW P \in Seq(Packet), PesFits(P), NEW pid \in {"video", "audio"}
    PROVE  \E off : Streams(P, pid, off, StreamIn(P, pid))
<1> DEFINE strip == pid = "audio"
           s == [i \in DOMAIN P |->
                    IF P[i].pid # pid THEN <<>>
                    ELSE IF pid = "audio" THEN SubSeq(P[i].bytes, P[i].pes + 1, Len(P[i].bytes))
                    ELSE P[i].bytes]
           t == StreamIn(P, pid)
<1>1. t = FlattenSeq(s)
  BY DEF StreamIn
<1>2. DOMAIN P = 1..Len(P) /\ Len(P) \in Nat /\ strip \in BOOLEAN /\ (strip => pid = "audio")
  OBVIOUS
<1>3. ASSUME NEW i \in 1..Len(P)
      PROVE  /\ s[i] \in Seq(Nat) /\ Len(s[i]) = Slots(P, pid, strip, i) /\ Slots(P, pid, strip, i) \in Nat
             /\ \A k \in 1..Slots(P, pid, strip, i) : s[i][k] = P[i].bytes[SkipOf(P, strip, i) + k]
  <2>1. /\ Slots(P, pid, strip, i) \in Nat /\ SkipOf(P, strip, i) \in Nat /\ P[i].bytes \in Seq(Nat)
        /\ P[i].pid = pid => Slots(P, pid, strip, i) + SkipOf(P, strip, i) = Len(P[i].bytes)
        /\ Len(P[i].bytes) \in Nat /\ P[i].pes \in Nat
    BY <1>2, SlotsTyped
  <2>2. CASE P[i].pid # pid
    <3>1. s[i] = <<>> /\ Slots(P, pid, strip, i) = 0
      BY <2>2, <1>2 DEF Slots
    <3> HIDE DEF s, strip
    <3>2. <<>> \in Seq(Nat) /\ Len(<<>>) = 0 /\ 0 \in Nat
      OBVIOUS
    <3>3. \A k \in 1..0 : FALSE
      OBVIOUS
    <3> QED
      BY <3>1, <3>2, <3>3, Zenon
  <2>3. CASE P[i].pid = pid /\ pid = "audio"
    <3> DEFINE u == P[i].bytes
               a == P[i].pes
    <3>1. s[i] = SubSeq(u, a + 1, Len(u)) /\ SkipOf(P, strip, i) = a /\ Slots(P, pid, strip, i) = Len(u) - a
      BY <2>3, <1>2 DEF Slots, SkipOf
    <3>2. u \in Seq(Nat) /\ a \in Nat /\ a <= Len(u) /\ Len(u) \in Nat /\ Slots(P, pid, strip, i) \in Nat
      BY <2>1, <2>3, <3>1
    <3> HIDE DEF u, a, s, strip
    <3>3. /\ SubSeq(u, a + 1, Len(u)) \in Seq(Nat) /\ Len(SubSeq(u, a + 1, Len(u))) = Len(u) - a
          /\ \A k \in 1..Len(u) - a : SubSeq(u, a + 1, Len(u))[k] = u[a + k]
      <4> DEFINE b == Len(u)
      <4>1. b \in Nat /\ b <= Len(u) /\ a <= b
        BY <3>2
      <4> HIDE DEF b
      <4>2. /\ SubSeq(u, a + 1, b) \in Seq(Nat) /\ Len(SubSeq(u, a + 1, b)) = b - a
            /\ \A k \in 1..b - a : SubSeq(u, a + 1, b)[k] = u[a + k]
        BY <3>2, <4>1, SubSeqIs
      <4> QED
        BY <4>2 DEF b
    <3> QED
      BY <3>1, <3>2, <3>3 DEF u
  <2>4. CASE P[i].pid = pid /\ pid # "audio"
    <3>1. s[i] = P[i].bytes /\ SkipOf(P, strip, i) = 0 /\ Slots(P, pid, strip, i) = Len(P[i].bytes)
      BY <2>1, <2>4, <1>2 DEF Slots, SkipOf
    <3> HIDE DEF s, strip
    <3> QED
      BY <3>1, <2>1
  <2> QED
    BY <2>2, <2>3, <2>4
<1>4. Len(s) = Len(P) /\ s \in Seq(Seq(Nat))
  <2>1. s = [i \in 1..Len(P) |-> s[i]]
    BY <1>2
  <2> HIDE DEF s, strip
  <2> QED
    BY <1>2, <1>3, <2>1, IsSequence
<1> HIDE DEF s, strip
<1>5. t \in Seq(Nat) /\ \E off : Blocks(s, off, t)
  BY <1>1, <1>4, FlattenIsBlocks
<1> HIDE DEF t
<1>6. PICK off : Blocks(s, off, t)
  BY <1>5
<1>7. Places(P, pid, strip, off)
  BY <1>3, <1>4, <1>6 DEF Blocks, Places
<1>8. ASSUME NEW i \in 1..Len(P), NEW k \in 1..Slots(P, pid, strip, i)
      PROVE  t[off[i - 1] + k] = P[i].bytes[SkipOf(P, strip, i) + k]
  <2>1. i \in 1..Len(s) /\ k \in 1..Len(s[i]) /\ s[i][k] = P[i].bytes[SkipOf(P, strip, i) + k]
    BY <1>3, <1>4
  <2>2. t[off[i - 1] + k] = s[i][k]
    BY <2>1, <1>6 DEF Blocks
  <2> QED
    BY <2>1, <2>2
<1>9. ASSUME NEW q \in 1..Len(t)
      PROVE  \E i \in 1..Len(P) : \E k \in 1..Slots(P, pid, strip, i) : q = off[i - 1] + k
  <2>1. \A i \in 1..Len(s) : Len(s[i]) \in Nat
    BY <1>3, <1>4
  <2>2. \E i \in 1..Len(s) : \E k \in 1..Len(s[i]) : q = off[i - 1] + k
    <3>1. Len(s) \in Nat /\ q \in 1..Len(t)
      BY <1>4
    <3> QED
      BY ONLY <1>6, <2>1, <3>1, BlocksCover, SMTT(30)
  <2> QED
    BY <1>3, <1>4, <2>2
<1>10. Len(t) = off[Len(P)]
  BY <1>4, <1>6 DEF Blocks
<1> QED
  <2>1. Streams(P, pid, off, t)
    BY <1>5, <1>7, <1>8, <1>9, <1>10 DEF Streams, strip
  <2> QED
    BY <2>1 DEF t

\* The bytes at a PID's positions are its stream.
LEMMA StreamAtPositions ==
    ASSUME NEW P \in Seq(Packet), PesFits(P), NEW pid \in {"video", "audio"}
    PROVE  /\ BytesAt(P, PidPositions(P, pid, pid = "audio")) = StreamIn(P, pid)
           /\ StreamIn(P, pid) \in Seq(Nat)
           /\ Len(PidPositions(P, pid, pid = "audio")) = Len(StreamIn(P, pid))
<1> DEFINE strip == pid = "audio"
           pos == PidPositions(P, pid, strip)
<1>1. strip \in BOOLEAN /\ (strip => pid = "audio")
  OBVIOUS
<1> HIDE DEF strip
<1>2. PICK off : Positioned(P, pid, strip, off, pos)
  BY <1>1, PositionsAre
<1> HIDE DEF pos
<1>3. /\ BytesAt(P, pos) \in Seq(Nat) /\ Len(BytesAt(P, pos)) = Len(pos)
      /\ \A i \in 1..Len(P) : \A k \in 1..Slots(P, pid, strip, i) :
             BytesAt(P, pos)[off[i - 1] + k] = P[i].bytes[SkipOf(P, strip, i) + k]
  BY <1>1, <1>2, BytesAtIs
<1>4. Streams(P, pid, off, BytesAt(P, pos))
  BY <1>2, <1>3 DEF Positioned, Streams, strip
<1>5. PICK off2 : Streams(P, pid, off2, StreamIn(P, pid))
  BY StreamInIs
<1>6. BytesAt(P, pos) = StreamIn(P, pid)
  BY <1>4, <1>5, StreamsEqual
<1> QED
  BY <1>3, <1>6 DEF pos, strip

\* After the bytes of a PID's stream are rewritten its stream is the new one, and the other
\* PID's stream, its packets and the PES headers are what they were.
LEMMA StreamRewritten ==
    ASSUME NEW P \in Seq(Packet), PesFits(P), NEW pid \in {"video", "audio"},
           NEW dec \in Seq(Nat), Len(dec) = Len(StreamIn(P, pid))
    PROVE  LET R == Rewritten(P, PidPositions(P, pid, pid = "audio"), dec)
           IN /\ R \in Seq(Packet) /\ PesFits(R) /\ Len(R) = Len(P)
              /\ StreamIn(R, pid) = dec
              /\ \A other \in {"video", "audio"} \ {pid} : StreamIn(R, other) = StreamIn(P, other)
              /\ \A i \in 1..Len(P) :
                    /\ R[i].pid = P[i].pid /\ R[i].pes = P[i].pes
                    /\ P[i].pid # pid => R[i] = P[i]
                    /\ pid = "audio" /\ P[i].pid = pid =>
                          Len(R[i].bytes) = Len(P[i].bytes)
                          /\ \A k \in 1..P[i].pes : R[i].bytes[k] = P[i].bytes[k]
<1> DEFINE strip == pid = "audio"
           pos == PidPositions(P, pid, strip)
           R == Rewritten(P, pos, dec)
<1>1. strip \in BOOLEAN /\ (strip => pid = "audio")
  OBVIOUS
<1>2. \A i \in 1..Len(P) : strip => SkipOf(P, strip, i) = P[i].pes
  BY DEF SkipOf
<1> HIDE DEF strip
<1>3. PICK off : Positioned(P, pid, strip, off, pos)
  BY <1>1, PositionsAre
<1>4. Len(dec) = Len(pos)
  BY StreamAtPositions DEF strip
<1> HIDE DEF pos
<1>5. /\ R \in Seq(Packet) /\ PesFits(R) /\ Len(R) = Len(P)
      /\ \A i \in 1..Len(P) :
            /\ R[i].pid = P[i].pid /\ R[i].pes = P[i].pes /\ Len(R[i].bytes) = Len(P[i].bytes)
            /\ P[i].pid # pid => R[i] = P[i]
            /\ P[i].pid = pid =>
                  /\ \A k \in 1..SkipOf(P, strip, i) : R[i].bytes[k] = P[i].bytes[k]
                  /\ \A k \in 1..Slots(P, pid, strip, i) :
                        R[i].bytes[SkipOf(P, strip, i) + k] = dec[off[i - 1] + k]
  BY <1>1, <1>3, <1>4, RewrittenIs
<1> HIDE DEF R
<1>6. StreamIn(R, pid) = dec
  <2>1. ASSUME NEW i \in 1..Len(P)
        PROVE  SkipOf(R, strip, i) = SkipOf(P, strip, i) /\ Slots(R, pid, strip, i) = Slots(P, pid, strip, i)
    BY <1>5 DEF SkipOf, Slots
  <2>2. Places(R, pid, strip, off)
    BY <1>3, <1>5, <2>1 DEF Positioned, Places
  <2>3. ASSUME NEW i \in 1..Len(R), NEW k \in 1..Slots(R, pid, strip, i)
        PROVE  dec[off[i - 1] + k] = R[i].bytes[SkipOf(R, strip, i) + k]
    <3>1. i \in 1..Len(P) /\ k \in 1..Slots(P, pid, strip, i)
      BY <1>5, <2>1
    <3>2. P[i].pid = pid
      BY <3>1 DEF Slots
    <3>3. \A j \in 1..Slots(P, pid, strip, i) : R[i].bytes[SkipOf(P, strip, i) + j] = dec[off[i - 1] + j]
      BY ONLY <1>5, <3>1, <3>2
    <3>4. R[i].bytes[SkipOf(P, strip, i) + k] = dec[off[i - 1] + k]
      BY ONLY <3>1, <3>3
    <3>5. SkipOf(R, strip, i) = SkipOf(P, strip, i)
      BY <2>1, <3>1
    <3> QED
      BY ONLY <3>4, <3>5
  <2>4. ASSUME NEW q \in 1..Len(dec)
        PROVE  \E i \in 1..Len(R) : \E k \in 1..Slots(R, pid, strip, i) : q = off[i - 1] + k
    <3>1. \E i \in 1..Len(P) : \E k \in 1..Slots(P, pid, strip, i) : q = off[i - 1] + k
      BY <1>3, <1>4 DEF Positioned
    <3> QED
      BY <3>1, <2>1, <1>5
  <2>5. Len(dec) = off[Len(R)]
    BY <1>3, <1>4, <1>5 DEF Positioned
  <2>6. Streams(R, pid, off, dec)
    BY <2>2, <2>3, <2>4, <2>5 DEF Streams, strip
  <2>7. PICK off2 : Streams(R, pid, off2, StreamIn(R, pid))
    BY <1>5, StreamInIs
  <2> QED
    BY <1>5, <2>6, <2>7, StreamsEqual
<1>7. ASSUME NEW other \in {"video", "audio"} \ {pid} PROVE StreamIn(R, other) = StreamIn(P, other)
  <2>1. DOMAIN R = 1..Len(P) /\ DOMAIN P = 1..Len(P)
    BY <1>5
  <2>2. \A i \in 1..Len(P) : R[i].pid = P[i].pid /\ (P[i].pid = other => R[i] = P[i])
    BY <1>5
  <2> QED
    BY <2>1, <2>2 DEF StreamIn
<1> QED
  BY <1>2, <1>5, <1>6, <1>7 DEF R, pos, strip

-------------------------------------------------------------------------------
(***************************************************************************)
(* The packets the camera makes of its streams.                            *)
(***************************************************************************)

Pieces == [pid : {"video", "audio"}, from : Nat, to : Nat, starts : BOOLEAN]

Mine(packets, pid, n) == {i \in 1..n : packets[i].pid = pid}
Reach(packets, pid, n) ==
    IF Mine(packets, pid, n) = {} THEN 0 ELSE packets[Max(Mine(packets, pid, n))].to

\* How far the packets reach into their stream.
LEMMA ReachIs ==
    ASSUME NEW packets \in Seq(Pieces), NEW pid, NEW n \in Nat, n + 1 <= Len(packets)
    PROVE  Reach(packets, pid, n + 1) =
               IF packets[n + 1].pid = pid THEN packets[n + 1].to ELSE Reach(packets, pid, n)
<1>1. CASE packets[n + 1].pid # pid
  <2>1. Mine(packets, pid, n + 1) = Mine(packets, pid, n)
    BY <1>1 DEF Mine
  <2> QED
    BY <1>1, <2>1 DEF Reach
<1>2. CASE packets[n + 1].pid = pid
  <2> DEFINE S == Mine(packets, pid, n + 1)
             m == CHOOSE x \in S : \A y \in S : x >= y
  <2>1. n + 1 \in S /\ \A y \in S : n + 1 >= y /\ y \in Nat
    BY <1>2 DEF Mine
  <2>2. m \in S /\ m >= n + 1
    <3> HIDE DEF S
    <3> QED
      BY <2>1
  <2>3. m = n + 1
    <3> HIDE DEF S, m
    <3> QED
      BY <2>1, <2>2
  <2>4. Max(S) = n + 1 /\ S # {}
    BY <2>1, <2>3 DEF Max
  <2> HIDE DEF S
  <2>5. Reach(packets, pid, n + 1) = packets[n + 1].to
    BY <2>4 DEF Reach, S
  <2> QED
    BY <1>2, <2>5
<1> QED
  BY <1>1, <1>2

LEMMA PacketIs ==
    ASSUME NEW e, e = [pid |-> e.pid, pes |-> e.pes, bytes |-> e.bytes],
           e.pid \in {"video", "audio"}, e.pes \in Nat, e.bytes \in Seq(Nat)
    PROVE  e \in Packet
  BY DEF Packet

\* The packets the camera sends carry its streams.
LEMMA EncodedCarries ==
    ASSUME NEW c, c.packets \in Seq(Pieces), NEW pid \in {"video", "audio"},
           \A id \in {"video", "audio"} : StreamOf(c, id) \in Seq(Nat) /\ Carry(c.packets, id, Len(StreamOf(c, id)))
    PROVE  /\ Encoded(c) \in Seq(Packet) /\ PesFits(Encoded(c))
           /\ StreamIn(Encoded(c), pid) = StreamOf(c, pid)
           /\ \A i \in 1..Len(Encoded(c)) :
                 Encoded(c)[i].pid = "audio" /\ Encoded(c)[i].pes > 0 =>
                    /\ Encoded(c)[i].pes = 4 /\ Len(Encoded(c)[i].bytes) >= 4
                    /\ \A k \in 1..4 : Encoded(c)[i].bytes[k] = PesHeader[k]
<1> DEFINE N == Len(c.packets)
           E == Encoded(c)
           p(i) == c.packets[i]
           reach(id, n) == Reach(c.packets, id, n)
           carried(i) == SubSeq(StreamOf(c, p(i).pid), p(i).from + 1, p(i).to)
<1>1. N \in Nat /\ DOMAIN c.packets = 1..N /\ \A i \in 1..N : p(i) \in Pieces
  OBVIOUS
<1>2. ASSUME NEW id \in {"video", "audio"}
      PROVE  /\ reach(id, 0) = 0 /\ \A n \in 0..N : reach(id, n) \in Nat
             /\ \A i \in 1..N : reach(id, i) = IF p(i).pid = id THEN p(i).to ELSE reach(id, i - 1)
  <2>1. reach(id, 0) = 0
    BY DEF Reach, Mine
  <2>2. ASSUME NEW n \in Nat, n + 1 <= N
        PROVE  reach(id, n + 1) = IF p(n + 1).pid = id THEN p(n + 1).to ELSE reach(id, n)
    BY <2>2, ReachIs
  <2> DEFINE T == {n \in Nat : n <= N => reach(id, n) \in Nat}
  <2>3. 0 \in T
    BY <2>1
  <2>4. ASSUME NEW n \in Nat, n \in T PROVE n + 1 \in T
    <3>1. SUFFICES ASSUME n + 1 <= N PROVE reach(id, n + 1) \in Nat
      OBVIOUS
    <3>2. p(n + 1).to \in Nat
      <4>1. p(n + 1) \in Pieces
        BY <1>1, <3>1
      <4> QED
        BY <4>1 DEF Pieces
    <3> HIDE DEF reach, p
    <3> QED
      BY SMTT(30), <1>1, <2>2, <2>4, <3>1, <3>2
  <2>5. \A n \in 0..N : reach(id, n) \in Nat
    <3> HIDE DEF T
    <3>1. \A n \in Nat : n \in T
      BY <2>3, <2>4, AllNumbers
    <3> QED
      BY <1>1, <3>1 DEF T
  <2>6. ASSUME NEW i \in 1..N
        PROVE  reach(id, i) = IF p(i).pid = id THEN p(i).to ELSE reach(id, i - 1)
    <3>1. i - 1 \in Nat /\ (i - 1) + 1 = i /\ i <= N
      BY <1>1
    <3> HIDE DEF reach, p
    <3> QED
      BY <2>2, <3>1
  <2> QED
    BY <2>1, <2>5, <2>6
<1>3. ASSUME NEW id \in {"video", "audio"}
      PROVE  /\ \A i \in 1..N : p(i).pid = id => p(i).from = reach(id, i - 1) /\ p(i).from <= p(i).to
             /\ reach(id, N) = Len(StreamOf(c, id))
  <2>1. Carry(c.packets, id, Len(StreamOf(c, id)))
    OBVIOUS
  <2> QED
    BY <2>1 DEF Carry, Reach, Mine
<1>4. ASSUME NEW id \in {"video", "audio"}
      PROVE  \A i, j \in 0..N : i <= j => reach(id, i) <= reach(id, j)
  <2> DEFINE off == [n \in 0..N |-> reach(id, n)]
  <2> HIDE DEF reach, p
  <2>1. off \in [0..N -> Nat]
    BY <1>2
  <2>2. ASSUME NEW i \in 1..N PROVE off[i - 1] <= off[i]
    <3>1. i - 1 \in 0..N /\ i \in 0..N
      BY <1>1
    <3>2. reach(id, i - 1) \in Nat /\ reach(id, i) \in Nat
      BY <1>2, <3>1
    <3>3. reach(id, i - 1) <= reach(id, i)
      BY SMTT(30), <1>2, <1>3, <3>2
    <3> QED
      BY <3>1, <3>3
  <2>3. \A i, j \in 0..N : i <= j => off[i] <= off[j]
    <3> HIDE DEF off
    <3> QED
      BY <1>1, <2>1, <2>2, Ascends
  <2> QED
    BY <2>3
<1>5. ASSUME NEW i \in 1..N
      PROVE  /\ p(i).pid \in {"video", "audio"} /\ p(i).starts \in BOOLEAN
             /\ p(i).from \in Nat /\ p(i).to \in Nat /\ p(i).from <= p(i).to
             /\ p(i).from = reach(p(i).pid, i - 1) /\ p(i).to = reach(p(i).pid, i)
             /\ carried(i) \in Seq(Nat) /\ Len(carried(i)) = p(i).to - p(i).from /\ Len(carried(i)) \in Nat
             /\ \A k \in 1..p(i).to - p(i).from : carried(i)[k] = StreamOf(c, p(i).pid)[p(i).from + k]
  <2>1. /\ p(i).pid \in {"video", "audio"} /\ p(i).starts \in BOOLEAN
        /\ p(i).from \in Nat /\ p(i).to \in Nat
    BY <1>1 DEF Pieces
  <2> DEFINE u == StreamOf(c, p(i).pid)
             a == p(i).from
             b == p(i).to
             id == p(i).pid
  <2>2. u \in Seq(Nat)
    BY <2>1
  <2>3. a = reach(id, i - 1) /\ a <= b /\ b = reach(id, i) /\ reach(id, N) = Len(u)
    BY <1>2, <1>3, <2>1
  <2>4. reach(id, i) <= reach(id, N)
    <3>1. i \in 0..N /\ N \in 0..N /\ i <= N
      BY <1>1
    <3> HIDE DEF reach
    <3> QED
      BY <1>4, <2>1, <3>1
  <2>5. a \in Nat /\ b \in Nat /\ a <= b /\ b <= Len(u)
    BY <2>1, <2>3, <2>4
  <2> HIDE DEF u, a, b, id, reach
  <2>6. /\ SubSeq(u, a + 1, b) \in Seq(Nat) /\ Len(SubSeq(u, a + 1, b)) = b - a
        /\ \A k \in 1..b - a : SubSeq(u, a + 1, b)[k] = u[a + k]
    BY ONLY <2>2, <2>5, SubSeqIs
  <2>7. b - a \in Nat
    BY <2>5
  <2> QED
    BY <2>1, <2>3, <2>5, <2>6, <2>7 DEF u, a, b, id
<1>6. Len(PesHeader) = 4 /\ PesHeader \in Seq(Nat)
  BY DEF PesHeader
<1>7. ASSUME NEW i \in 1..N
      PROVE  /\ E[i].pid = p(i).pid
             /\ E[i].pes = IF p(i).starts THEN 4 ELSE 0
             /\ E[i].bytes = IF p(i).starts /\ p(i).pid = "audio" THEN PesHeader \o carried(i) ELSE carried(i)
             /\ E[i] = [pid |-> E[i].pid, pes |-> E[i].pes, bytes |-> E[i].bytes]
  BY <1>1, <1>6 DEF Encoded
<1> HIDE DEF carried, p, reach, E
<1>8. ASSUME NEW i \in 1..N
      PROVE  /\ PesHeader \o carried(i) \in Seq(Nat) /\ Len(PesHeader \o carried(i)) = 4 + Len(carried(i))
             /\ \A k \in 1..4 : (PesHeader \o carried(i))[k] = PesHeader[k]
             /\ \A k \in 1..Len(carried(i)) : (PesHeader \o carried(i))[4 + k] = carried(i)[k]
  <2> DEFINE u == PesHeader
             v == carried(i)
             w == u \o v
  <2>0. Len(u) = 4
    BY <1>6
  <2>1. u \in Seq(Nat)
    BY <1>6
  <2>2. v \in Seq(Nat)
    BY <1>5
  <2>3. w = u \o v
    OBVIOUS
  <2> HIDE DEF u, v, w
  <2>4. /\ w \in Seq(Nat) /\ Len(w) = Len(u) + Len(v)
        /\ \A k \in 1..Len(u) : w[k] = u[k]
        /\ \A k \in 1..Len(v) : w[Len(u) + k] = v[k]
    BY ONLY <2>1, <2>2, <2>3, ConcatIs
  <2> QED
    BY <2>0, <2>4 DEF u, v, w
<1>9. ASSUME NEW i \in 1..N
      PROVE  /\ E[i] \in Packet /\ E[i].pid \in {"video", "audio"}
             /\ E[i].pid = "audio" => E[i].pes <= Len(E[i].bytes)
             /\ \A id \in {"video", "audio"} :
                   /\ Slots(E, id, id = "audio", i) = IF p(i).pid = id THEN Len(carried(i)) ELSE 0
                   /\ p(i).pid = id => \A k \in 1..Len(carried(i)) :
                         E[i].bytes[SkipOf(E, id = "audio", i) + k] = carried(i)[k]
  <2>1. CASE p(i).starts /\ p(i).pid = "audio"
    <3>1. E[i].pid = "audio" /\ E[i].pes = 4 /\ E[i].bytes = PesHeader \o carried(i)
      BY <2>1, <1>7
    <3>2. E[i].bytes \in Seq(Nat) /\ Len(E[i].bytes) = 4 + Len(carried(i)) /\ Len(carried(i)) \in Nat
      BY <3>1, <1>5, <1>8
    <3>3. E[i] \in Packet
      <4> DEFINE e == E[i]
      <4>1. e = [pid |-> e.pid, pes |-> e.pes, bytes |-> e.bytes]
        BY <1>7, Zenon
      <4>2. e.pid \in {"video", "audio"} /\ e.pes \in Nat
        BY <3>1, <3>2
      <4>3. e.bytes \in Seq(Nat)
        BY <3>2
      <4> HIDE DEF e
      <4>4. e \in Packet
        BY <4>1, <4>2, <4>3, PacketIs
      <4> QED
        BY <4>4 DEF e
    <3>4. \A k \in 1..Len(carried(i)) : E[i].bytes[4 + k] = carried(i)[k]
      <4>1. \A k \in 1..Len(carried(i)) : (PesHeader \o carried(i))[4 + k] = carried(i)[k]
        BY <1>8
      <4>2. E[i].bytes = PesHeader \o carried(i)
        BY <3>1
      <4> QED
        BY ONLY <4>1, <4>2
    <3> QED
      BY SMTT(30), <2>1, <3>1, <3>2, <3>3, <3>4 DEF Slots, SkipOf
  <2>2. CASE ~(p(i).starts /\ p(i).pid = "audio")
    <3>1. E[i].pid = p(i).pid /\ E[i].pes \in {0, 4} /\ E[i].bytes = carried(i) /\ (E[i].pid = "audio" => E[i].pes = 0)
      BY <2>2, <1>7, <1>5
    <3>2. E[i].bytes \in Seq(Nat) /\ Len(carried(i)) \in Nat /\ E[i].pid \in {"video", "audio"}
      BY <3>1, <1>5
    <3>3. E[i] \in Packet
      <4> DEFINE e == E[i]
      <4>1. e = [pid |-> e.pid, pes |-> e.pes, bytes |-> e.bytes]
        BY <1>7, Zenon
      <4>2. e.pid \in {"video", "audio"} /\ e.pes \in Nat
        BY <3>1, <3>2
      <4>3. e.bytes \in Seq(Nat)
        BY <3>2
      <4> HIDE DEF e
      <4>4. e \in Packet
        BY <4>1, <4>2, <4>3, PacketIs
      <4> QED
        BY <4>4 DEF e
    <3>4. \A id \in {"video", "audio"} : p(i).pid = id => SkipOf(E, id = "audio", i) = 0
      BY <3>1 DEF SkipOf
    <3>5. \A k \in 1..Len(carried(i)) : 0 + k = k
      BY <3>2
    <3> QED
      BY <3>1, <3>2, <3>3, <3>4, <3>5 DEF Slots
  <2> QED
    BY <2>1, <2>2
<1>10. E \in Seq(Packet) /\ Len(E) = N
  <2>1. E = [i \in 1..N |-> E[i]]
    BY <1>1 DEF Encoded, E
  <2> QED
    <3>1. \A i \in 1..N : E[i] \in Packet
      BY <1>9
    <3> QED
      BY <1>1, <2>1, <3>1, IsSequence
<1>11. PesFits(E)
  BY <1>9, <1>10 DEF PesFits
<1>12. StreamIn(E, pid) = StreamOf(c, pid)
  <2> DEFINE off == [n \in 0..N |-> reach(pid, n)]
             u == StreamOf(c, pid)
  <2>1. off \in [0..N -> Nat] /\ off[0] = 0 /\ off[N] = Len(u)
    BY <1>1, <1>2, <1>3
  <2>2. ASSUME NEW i \in 1..N
        PROVE  off[i] = off[i - 1] + Slots(E, pid, pid = "audio", i) /\ off[i - 1] \in Nat
               /\ Slots(E, pid, pid = "audio", i) \in Nat
    <3>1. i - 1 \in 0..N /\ i \in 0..N /\ off[i] = reach(pid, i) /\ off[i - 1] = reach(pid, i - 1)
      BY <1>1
    <3>2. reach(pid, i - 1) \in Nat
      BY <1>2, <3>1
    <3>3. CASE p(i).pid = pid
      <4>1. Slots(E, pid, pid = "audio", i) = Len(carried(i))
        BY <3>3, <1>9
      <4>2. /\ Len(carried(i)) = p(i).to - p(i).from /\ p(i).from = reach(pid, i - 1)
            /\ p(i).to = reach(pid, i) /\ p(i).from \in Nat /\ p(i).to \in Nat /\ Len(carried(i)) \in Nat
        BY <3>3, <1>5
      <4> HIDE DEF off
      <4> QED
        BY <3>1, <3>2, <4>1, <4>2
    <3>4. CASE p(i).pid # pid
      BY <3>1, <3>2, <3>4, <1>2, <1>9
    <3> QED
      BY <3>3, <3>4
  <2>3. ASSUME NEW i \in 1..N, NEW k \in 1..Slots(E, pid, pid = "audio", i)
        PROVE  u[off[i - 1] + k] = E[i].bytes[SkipOf(E, pid = "audio", i) + k]
    <3>1. p(i).pid = pid /\ k \in 1..Len(carried(i))
      <4>1. Slots(E, pid, pid = "audio", i) = IF p(i).pid = pid THEN Len(carried(i)) ELSE 0
        BY <1>9
      <4>2. k \in 1..Slots(E, pid, pid = "audio", i)
        OBVIOUS
      <4>3. p(i).pid = pid
        BY ONLY <4>1, <4>2
      <4> QED
        BY ONLY <4>1, <4>2, <4>3
    <3>2. carried(i)[k] = u[p(i).from + k]
      BY <3>1, <1>5
    <3>3. off[i - 1] = p(i).from
      BY <3>1, <1>1, <1>5
    <3> QED
      BY <3>1, <3>2, <3>3, <1>9
  <2> HIDE DEF off
  <2>4. ASSUME NEW q \in 1..Len(u)
        PROVE  \E i \in 1..N : \E k \in 1..Slots(E, pid, pid = "audio", i) : q = off[i - 1] + k
    <3>1. PICK i \in 1..N : off[i - 1] < q /\ q <= off[i]
      BY <1>1, <2>1, Covers
    <3>2. q - off[i - 1] \in 1..Slots(E, pid, pid = "audio", i) /\ q = off[i - 1] + (q - off[i - 1])
      BY SMTT(30), <2>2, <3>1
    <3> QED
      BY <3>2
  <2>5. u \in Seq(Nat)
    OBVIOUS
  <2> HIDE DEF u
  <2>6. Streams(E, pid, off, u)
    BY <1>10, <2>1, <2>2, <2>3, <2>4, <2>5 DEF Streams, Places
  <2>7. PICK off2 : Streams(E, pid, off2, StreamIn(E, pid))
    BY <1>10, <1>11, StreamInIs
  <2> QED
    BY <1>10, <2>6, <2>7, StreamsEqual DEF u
<1>13. ASSUME NEW i \in 1..N, E[i].pid = "audio", E[i].pes > 0
       PROVE  E[i].pes = 4 /\ Len(E[i].bytes) >= 4 /\ \A k \in 1..4 : E[i].bytes[k] = PesHeader[k]
  <2>1. p(i).starts /\ p(i).pid = "audio"
    <3>1. E[i].pid = p(i).pid /\ E[i].pes = (IF p(i).starts THEN 4 ELSE 0)
      BY <1>7
    <3>2. CASE ~p(i).starts
      BY <3>1, <3>2, <1>13
    <3> QED
      BY <3>1, <3>2, <1>13
  <2>2. E[i].bytes = PesHeader \o carried(i) /\ E[i].pes = 4
    BY <2>1, <1>7
  <2> QED
    BY SMTT(30), <2>2, <1>5, <1>8
<1> QED
  BY <1>10, <1>11, <1>12, <1>13 DEF E

-------------------------------------------------------------------------------
(***************************************************************************)
(* Audio. The frames found are the camera's, one behind the other, and a   *)
(* byte is decrypted with the keystream of the one frame that holds it.    *)
(***************************************************************************)

\* Xor is a byte, whatever the keystream is, and undoes itself.
LEMMA XorIs ==
    ASSUME NEW a, NEW x
    PROVE  Xor(a, x) \in Bytes /\ (a \in Bytes => Xor(Xor(a, x), x) = a)
<1> DEFINE Good(b, c) == \A w \in {1, 2} : w \in Bits(c) <=> (w \in Bits(b)) # (w \in Bits(x))
<1>1. Bytes = {0, 1, 2, 3}
  BY DEF Bytes
<1>2. 1 \notin Bits(0) /\ 2 \notin Bits(0) /\ 1 \in Bits(1) /\ 2 \notin Bits(1)
      /\ 1 \notin Bits(2) /\ 2 \in Bits(2) /\ 1 \in Bits(3) /\ 2 \in Bits(3)
  BY DEF Bits
<1>3. ASSUME NEW b PROVE \E c \in Bytes : Good(b, c)
  <2>1. CASE (1 \in Bits(b)) = (1 \in Bits(x)) /\ (2 \in Bits(b)) = (2 \in Bits(x))
    <3>1. Good(b, 0)
      BY <2>1, <1>2
    <3> QED
      BY <3>1, <1>1
  <2>2. CASE (1 \in Bits(b)) # (1 \in Bits(x)) /\ (2 \in Bits(b)) = (2 \in Bits(x))
    <3>1. Good(b, 1)
      BY <2>2, <1>2
    <3> QED
      BY <3>1, <1>1
  <2>3. CASE (1 \in Bits(b)) = (1 \in Bits(x)) /\ (2 \in Bits(b)) # (2 \in Bits(x))
    <3>1. Good(b, 2)
      BY <2>3, <1>2
    <3> QED
      BY <3>1, <1>1
  <2>4. CASE (1 \in Bits(b)) # (1 \in Bits(x)) /\ (2 \in Bits(b)) # (2 \in Bits(x))
    <3>1. Good(b, 3)
      BY <2>4, <1>2
    <3> QED
      BY <3>1, <1>1
  <2> QED
    BY <2>1, <2>2, <2>3, <2>4
<1>4. ASSUME NEW b PROVE Xor(b, x) \in Bytes /\ Good(b, Xor(b, x))
  <2>1. Xor(b, x) = CHOOSE c \in Bytes : Good(b, c)
    BY DEF Xor
  <2> HIDE DEF Good
  <2> QED
    BY <1>3, <2>1
<1>5. ASSUME NEW b \in Bytes, NEW c \in Bytes, \A w \in {1, 2} : w \in Bits(b) <=> w \in Bits(c) PROVE b = c
  <2>1. (1 \in Bits(b) <=> 1 \in Bits(c)) /\ (2 \in Bits(b) <=> 2 \in Bits(c))
    BY <1>5
  <2>2. b \in {0, 1, 2, 3} /\ c \in {0, 1, 2, 3}
    BY <1>1
  <2> QED
    BY <1>2, <2>1, <2>2
<1>6. ASSUME a \in Bytes PROVE Xor(Xor(a, x), x) = a
  <2> DEFINE y == Xor(a, x)
             z == Xor(y, x)
  <2>1. Good(a, y) /\ Good(y, z) /\ z \in Bytes
    BY <1>4
  <2>2. \A w \in {1, 2} : w \in Bits(z) <=> w \in Bits(a)
    <3> HIDE DEF y, z
    <3> QED
      BY <2>1
  <2> QED
    BY <1>5, <1>6, <2>1, <2>2
<1> QED
  BY <1>4, <1>6

AudioFrame == [sync : {2, 3}, body : Seq(Bytes)]

LEMMA FrameHead ==
    ASSUME NEW A, Nat \subseteq A, NEW u \in Seq(A), NEW s \in Nat, NEW n \in Nat
    PROVE  /\ <<s, n>> \o u \in Seq(A) /\ Len(<<s, n>> \o u) = 2 + Len(u)
           /\ (<<s, n>> \o u)[1] = s /\ (<<s, n>> \o u)[2] = n
           /\ \A k \in 1..Len(u) : (<<s, n>> \o u)[2 + k] = u[k]
  OBVIOUS

LEMMA FrameParts ==
    ASSUME NEW f \in AudioFrame, AudioOff \in Nat
    PROVE  /\ f.sync \in {2, 3} /\ f.sync \in Nat /\ f.body \in Seq(Bytes) /\ f.body \in Seq(Nat)
           /\ Len(f.body) \in Nat
           /\ ClearLen(f) \in Nat /\ AudioOff <= ClearLen(f)
           /\ HeaderLen(f.sync) \in Nat /\ HeaderLen(f.sync) + AudioOff = 2 + ClearLen(f)
<1>1. f.sync \in {2, 3} /\ f.body \in Seq(Bytes)
  BY DEF AudioFrame
<1>2. HeaderLen(f.sync) = IF f.sync = 3 THEN 4 ELSE 2
  BY <1>1 DEF HeaderLen, AudioHead
<1>3. ClearLen(f) = IF f.sync = 3 THEN 2 + AudioOff ELSE AudioOff
  BY <1>2 DEF ClearLen, AudioHead
<1>4. f.body \in Seq(Nat) /\ Len(f.body) \in Nat
  BY <1>1 DEF Bytes
<1> QED
  BY <1>1, <1>2, <1>3, <1>4

LEMMA PlainFrameIs ==
    ASSUME NEW f, f.sync \in Nat, f.body \in Seq(Nat)
    PROVE  /\ PlainFrame(f) \in Seq(Nat) /\ Len(PlainFrame(f)) = 2 + Len(f.body)
           /\ PlainFrame(f)[1] = f.sync /\ PlainFrame(f)[2] = 2 + Len(f.body)
           /\ \A k \in 1..Len(f.body) : PlainFrame(f)[2 + k] = f.body[k]
<1>1. 2 + Len(f.body) \in Nat
  OBVIOUS
<1> QED
  BY <1>1, FrameHead DEF PlainFrame, AudioHead

\* What the camera makes of an audio frame.
LEMMA EncryptedFrameIs ==
    ASSUME NEW f \in AudioFrame, AudioOff \in Nat
    PROVE  /\ EncryptedFrame(f) \in Seq(Nat) /\ Len(EncryptedFrame(f)) = 2 + Len(f.body)
           /\ EncryptedFrame(f)[1] = f.sync /\ EncryptedFrame(f)[2] = 2 + Len(f.body)
           /\ \A k \in 1..Len(f.body) :
                 EncryptedFrame(f)[2 + k] =
                     IF k <= ClearLen(f) THEN f.body[k]
                     ELSE Xor(f.body[k], Keystream(SubSeq(f.body, ClearLen(f) - AudioOff + 1, ClearLen(f)),
                                                   k - ClearLen(f)))
<1> DEFINE payload == f.body
           c == ClearLen(f)
           n == Len(payload)
           iv == SubSeq(payload, c - AudioOff + 1, c)
<1>1. /\ n \in Nat /\ payload \in Seq(Nat) /\ f.sync \in Nat /\ c \in Nat /\ Len(payload) = n
  BY FrameParts
<1>2. CASE n <= c
  <2>1. EncryptedFrame(f) = PlainFrame(f)
    BY <1>2 DEF EncryptedFrame
  <2>2. /\ PlainFrame(f) \in Seq(Nat) /\ Len(PlainFrame(f)) = 2 + n
        /\ PlainFrame(f)[1] = f.sync /\ PlainFrame(f)[2] = 2 + n
        /\ \A k \in 1..n : PlainFrame(f)[2 + k] = payload[k]
    BY <1>1, PlainFrameIs
  <2>3. \A k \in 1..n : k <= c
    BY <1>1, <1>2
  <2> QED
    BY <2>1, <2>2, <2>3
<1>3. CASE ~(n <= c)
  <2> DEFINE h == SubSeq(payload, 1, c)
             u == SubSeq(payload, c + 1, n)
             v == Chacha(iv, u)
             w == h \o v
             g == [f EXCEPT !.body = w]
  <2>1. EncryptedFrame(f) = PlainFrame(g)
    BY <1>3 DEF EncryptedFrame
  <2>2. g.sync = f.sync /\ g.body = w
    BY DEF AudioFrame
  <2> HIDE DEF g, iv, payload, n, c
  <2>3. h \in Seq(Nat) /\ Len(h) = c /\ \A k \in 1..c : h[k] = payload[k]
    <3>1. 0 \in Nat /\ 0 <= c /\ c <= Len(payload) /\ c - 0 = c /\ 0 + 1 = 1
      BY <1>1, <1>3
    <3>2. /\ SubSeq(payload, 0 + 1, c) \in Seq(Nat) /\ Len(SubSeq(payload, 0 + 1, c)) = c - 0
          /\ \A k \in 1..c - 0 : SubSeq(payload, 0 + 1, c)[k] = payload[0 + k]
      BY <1>1, <3>1, SubSeqIs
    <3>3. \A k \in 1..c : 0 + k = k
      BY <1>1
    <3> QED
      BY <3>1, <3>2, <3>3
  <2>4. u \in Seq(Nat) /\ Len(u) = n - c /\ \A k \in 1..n - c : u[k] = payload[c + k]
    <3>1. payload \in Seq(Nat) /\ c \in Nat /\ n \in Nat /\ c <= n /\ n <= Len(payload)
      BY <1>1, <1>3
    <3> QED
      BY ONLY <3>1, SubSeqIs
  <2> HIDE DEF u, h
  <2>5. /\ v \in Seq(Nat) /\ Len(v) = n - c
        /\ \A k \in 1..n - c : v[k] = Xor(payload[c + k], Keystream(iv, k))
    <3>1. v = [k \in 1..Len(u) |-> Xor(u[k], Keystream(iv, k))] /\ Len(u) \in Nat
      BY <2>4 DEF Chacha
    <3>2. \A k \in 1..Len(u) : v[k] = Xor(u[k], Keystream(iv, k)) /\ v[k] \in Nat
      <4> TAKE k \in 1..Len(u)
      <4>1. v[k] = Xor(u[k], Keystream(iv, k))
        BY <3>1
      <4>2. Xor(u[k], Keystream(iv, k)) \in Bytes
        BY XorIs
      <4> HIDE DEF v
      <4> QED
        BY <4>1, <4>2 DEF Bytes
    <3>3. v = [k \in 1..Len(u) |-> v[k]]
      BY <3>1
    <3> HIDE DEF v
    <3>4. v \in Seq(Nat) /\ Len(v) = Len(u)
      BY ONLY <3>1, <3>2, <3>3, IsSequence
    <3> QED
      BY <2>4, <3>2, <3>4
  <2> HIDE DEF v
  <2>6. h \in Seq(Nat) /\ v \in Seq(Nat) /\ w = h \o v
    BY <2>3, <2>5
  <2> HIDE DEF w
  <2>7. /\ w \in Seq(Nat) /\ Len(w) = Len(h) + Len(v)
        /\ \A k \in 1..Len(h) : w[k] = h[k]
        /\ \A k \in 1..Len(v) : w[Len(h) + k] = v[k]
    BY ONLY <2>6, ConcatIs
  <2>8. Len(w) = n
    BY <1>1, <1>3, <2>3, <2>5, <2>7
  <2>9. ASSUME NEW k \in 1..n
        PROVE  w[k] = IF k <= c THEN payload[k] ELSE Xor(payload[k], Keystream(iv, k - c))
    <3>1. CASE k <= c
      <4>1. k \in 1..Len(h)
        BY <1>1, <2>3, <3>1
      <4> QED
        BY <2>3, <2>7, <3>1, <4>1
    <3>2. CASE ~(k <= c)
      <4> DEFINE j == k - c
      <4>1. j \in 1..n - c /\ c + j = k
        BY <1>1, <3>2
      <4> HIDE DEF j
      <4>2. w[c + j] = v[j] /\ v[j] = Xor(payload[c + j], Keystream(iv, j))
        BY <2>3, <2>5, <2>7, <4>1
      <4> QED
        BY <3>2, <4>1, <4>2 DEF j
    <3> QED
      BY <3>1, <3>2
  <2>10. /\ PlainFrame(g) \in Seq(Nat) /\ Len(PlainFrame(g)) = 2 + n
         /\ PlainFrame(g)[1] = f.sync /\ PlainFrame(g)[2] = 2 + n
         /\ \A k \in 1..n : PlainFrame(g)[2 + k] = w[k]
    BY <1>1, <2>2, <2>7, <2>8, PlainFrameIs
  <2>11. /\ EncryptedFrame(f) \in Seq(Nat) /\ Len(EncryptedFrame(f)) = 2 + n
         /\ EncryptedFrame(f)[1] = f.sync /\ EncryptedFrame(f)[2] = 2 + n
         /\ \A k \in 1..n : EncryptedFrame(f)[2 + k] =
                IF k <= c THEN payload[k] ELSE Xor(payload[k], Keystream(iv, k - c))
    BY <2>1, <2>9, <2>10
  <2> QED
    BY <2>11 DEF n, c, iv, payload
<1> QED
  BY <1>2, <1>3

\* What AdtsFrames finds from byte i on, when g is what it finds from later ones.
FramesAt(g, data, i) ==
    IF i + 2 > Len(data) + 1 THEN {}
    ELSE IF data[i] \notin {2, 3} \/ data[i + 1] < 2 \/ i + data[i + 1] > Len(data) + 1 THEN g[i + 1]
    ELSE {i} \cup g[i + data[i + 1]]

\* The search for frames ends.
LEMMA FramesExist ==
    ASSUME NEW data \in Seq(Nat)
    PROVE  \E g : g = [i \in 1..Len(data) + 1 |-> FramesAt(g, data, i)]
<1> DEFINE n == Len(data)
           Down(g, d) == g = [i \in n + 1 - d..n + 1 |-> FramesAt(g, data, i)]
           T == {d \in Nat : d <= n => \E g : Down(g, d)}
<1>1. n \in Nat /\ \A i \in 1..n : data[i] \in Nat
  OBVIOUS
<1> HIDE DEF n
<1>2. 0 \in T
  <2> DEFINE g == [i \in n + 1 - 0..n + 1 |-> {}]
  <2>1. ASSUME NEW i \in n + 1 - 0..n + 1 PROVE FramesAt(g, data, i) = {}
    <3>1. i + 2 > Len(data) + 1
      BY <1>1 DEF n
    <3> QED
      BY <3>1 DEF FramesAt
  <2>2. Down(g, 0)
    BY <2>1
  <2> QED
    BY <2>2
<1>3. ASSUME NEW d \in Nat, d \in T PROVE d + 1 \in T
  <2>1. SUFFICES ASSUME d + 1 <= n PROVE \E g : Down(g, d + 1)
    OBVIOUS
  <2>2. PICK g : Down(g, d)
    BY <1>1, <1>3, <2>1
  <2> DEFINE lo == n - d
             h == [i \in lo..n + 1 |-> IF i = lo THEN FramesAt(g, data, lo) ELSE g[i]]
  <2>3. lo \in 1..n /\ n + 1 - d = lo + 1 /\ n + 1 - (d + 1) = lo
    BY <1>1, <2>1
  <2> HIDE DEF lo
  <2>4. ASSUME NEW i \in lo..n + 1 PROVE FramesAt(h, data, i) = FramesAt(g, data, i)
    <3>1. CASE i + 2 > n + 1
      BY <3>1 DEF FramesAt, n
    <3>2. CASE ~(i + 2 > n + 1)
      <4>1. i \in 1..n /\ i + 1 \in lo + 1..n + 1 /\ i + 1 \in 1..n
        BY <1>1, <2>3, <3>2
      <4>2. h[i + 1] = g[i + 1]
        BY <2>3, <4>1
      <4>3. ASSUME ~(data[i + 1] < 2 \/ i + data[i + 1] > n + 1) PROVE h[i + data[i + 1]] = g[i + data[i + 1]]
        <5>1. data[i + 1] \in Nat
          BY <1>1, <4>1
        <5>2. i + data[i + 1] \in lo..n + 1 /\ i + data[i + 1] # lo
          BY <1>1, <2>3, <4>1, <4>3, <5>1
        <5> QED
          BY <5>2
      <4> HIDE DEF h
      <4> QED
        BY <4>2, <4>3 DEF FramesAt, n
    <3> QED
      BY <3>1, <3>2
  <2>5. ASSUME NEW i \in lo..n + 1 PROVE h[i] = FramesAt(h, data, i)
    <3>1. CASE i = lo
      <4>1. h[i] = FramesAt(g, data, lo)
        BY <3>1
      <4> QED
        BY <2>4, <3>1, <4>1
    <3>2. CASE i # lo
      <4>1. i \in n + 1 - d..n + 1
        BY <1>1, <2>3, <3>2
      <4>2. g[i] = FramesAt(g, data, i)
        BY <2>2, <4>1
      <4>3. h[i] = g[i]
        BY <3>2
      <4> HIDE DEF h
      <4> QED
        BY <2>4, <4>2, <4>3
    <3> QED
      BY <3>1, <3>2
  <2>6. h = [i \in lo..n + 1 |-> h[i]]
    OBVIOUS
  <2>7. h = [i \in lo..n + 1 |-> FramesAt(h, data, i)]
    <3> HIDE DEF h
    <3> QED
      BY <2>5, <2>6
  <2> HIDE DEF h
  <2>8. Down(h, d + 1)
    BY <2>3, <2>7
  <2> QED
    BY <2>8
<1>4. n \in T
  <2> HIDE DEF T
  <2> QED
    BY <1>1, <1>2, <1>3, AllNumbers
<1>5. PICK g : Down(g, n)
  BY <1>1, <1>4
<1>6. n + 1 - n = 1
  BY <1>1
<1>7. g = [i \in 1..n + 1 |-> FramesAt(g, data, i)]
  BY <1>5, <1>6
<1> QED
  BY <1>7 DEF n

\* The frames found from byte i on are not before it.
LEMMA FramesBehind ==
    ASSUME NEW data \in Seq(Nat), NEW g, g = [i \in 1..Len(data) + 1 |-> FramesAt(g, data, i)],
           NEW x \in 1..Len(data) + 1
    PROVE  \A y \in g[x] : y \in Nat /\ x <= y
<1> DEFINE n == Len(data)
           Behind(d) == \A z \in 1..n + 1 : n + 1 - d <= z => \A y \in g[z] : y \in Nat /\ z <= y
           T == {d \in Nat : d <= n => Behind(d)}
<1>1. n \in Nat /\ \A i \in 1..n : data[i] \in Nat
  OBVIOUS
<1>2. \A i \in 1..n + 1 : g[i] = FramesAt(g, data, i)
  OBVIOUS
<1> HIDE DEF n
<1>3. 0 \in T
  <2>1. ASSUME NEW z \in 1..n + 1, n + 1 - 0 <= z PROVE g[z] = {}
    <3>1. z + 2 > n + 1
      BY <1>1, <2>1
    <3> QED
      BY <1>2, <3>1 DEF FramesAt, n
  <2> QED
    BY <2>1
<1>4. ASSUME NEW d \in Nat, d \in T PROVE d + 1 \in T
  <2>0. SUFFICES ASSUME d + 1 <= n PROVE Behind(d + 1)
    <3> HIDE DEF Behind
    <3> QED
      OBVIOUS
  <2> TAKE z \in 1..n + 1
  <2>1. HAVE n + 1 - (d + 1) <= z
  <2> TAKE y \in g[z]
  <2>2. \A w \in 1..n + 1 : n + 1 - d <= w => \A v \in g[w] : v \in Nat /\ w <= v
    <3>1. d <= n
      BY <1>1, <2>0
    <3> QED
      BY <1>4, <3>1
  <2>3. CASE z + 2 > n + 1
    <3>1. g[z] = {}
      BY <1>2, <2>3 DEF FramesAt, n
    <3> QED
      BY <3>1
  <2>4. CASE ~(z + 2 > n + 1) /\ (data[z] \notin {2, 3} \/ data[z + 1] < 2 \/ z + data[z + 1] > n + 1)
    <3>1. g[z] = g[z + 1]
      BY <1>2, <2>4 DEF FramesAt, n
    <3>2. z + 1 \in 1..n + 1 /\ n + 1 - d <= z + 1
      BY <1>1, <2>0, <2>1, <2>4
    <3>3. y \in Nat /\ z + 1 <= y
      BY <2>2, <3>1, <3>2
    <3> QED
      BY <1>1, <3>3
  <2>5. CASE ~(z + 2 > n + 1) /\ ~(data[z] \notin {2, 3} \/ data[z + 1] < 2 \/ z + data[z + 1] > n + 1)
    <3> DEFINE w == z + data[z + 1]
    <3>1. g[z] = {z} \cup g[w]
      BY <1>2, <2>5 DEF FramesAt, n
    <3>2. data[z + 1] \in Nat
      <4>1. z + 1 \in 1..n
        BY <1>1, <2>5
      <4> QED
        BY <1>1, <4>1
    <3>3. w \in 1..n + 1 /\ n + 1 - d <= w /\ z < w
      BY SMTT(30), <1>1, <2>0, <2>1, <2>5, <3>2
    <3>4. y = z \/ y \in g[w]
      BY <3>1
    <3> HIDE DEF w
    <3>5. y \in g[w] => y \in Nat /\ w <= y
      BY <2>2, <3>3
    <3> QED
      BY <1>1, <3>3, <3>4, <3>5
  <2> QED
    BY <2>3, <2>4, <2>5
<1>5. n \in T
  <2> HIDE DEF T
  <2> QED
    BY <1>1, <1>3, <1>4, AllNumbers
<1>6. x \in 1..n + 1 /\ n + 1 - n <= x
  BY <1>1 DEF n
<1> QED
  BY SMTT(30), <1>1, <1>5, <1>6

\* The frames frames[1..m] of the camera are the first ones in data, behind off[i - 1] each.
FramesLie(frames, m, off, data) ==
    /\ m \in 0..Len(frames)
    /\ off \in [0..m -> Nat] /\ off[0] = 0 /\ off[m] <= Len(data)
    /\ \A i \in 1..m : off[i] = off[i - 1] + (2 + Len(frames[i].body))
    /\ \A i \in 1..m : \A k \in 1..2 + Len(frames[i].body) :
           data[off[i - 1] + k] = EncryptedFrame(frames[i])[k]

\* Where the frames are, their sync bytes and lengths are those of the camera.
LEMMA FramesStand ==
    ASSUME NEW frames \in Seq(AudioFrame), AudioOff \in Nat, NEW m, NEW off, NEW data \in Seq(Nat),
           FramesLie(frames, m, off, data)
    PROVE  /\ m \in Nat
           /\ \A i, j \in 0..m : i <= j => off[i] <= off[j]
           /\ \A i \in 1..m :
                 /\ i - 1 \in 0..m /\ i \in 0..m
                 /\ frames[i] \in AudioFrame /\ Len(frames[i].body) \in Nat
                 /\ off[i - 1] \in Nat /\ off[i] \in Nat /\ off[i] <= Len(data)
                 /\ off[i] = off[i - 1] + (2 + Len(frames[i].body))
                 /\ frames[i].sync \in {2, 3} /\ data[off[i - 1] + 1] = frames[i].sync
                 /\ data[off[i - 1] + 2] = 2 + Len(frames[i].body)
<1>1. m \in Nat /\ m <= Len(frames) /\ Len(frames) \in Nat /\ off \in [0..m -> Nat] /\ Len(data) \in Nat
      /\ off[m] <= Len(data)
  BY DEF FramesLie
<1>2. ASSUME NEW i \in 1..m
      PROVE  /\ i - 1 \in 0..m /\ i \in 0..m
             /\ frames[i] \in AudioFrame /\ Len(frames[i].body) \in Nat
             /\ off[i - 1] \in Nat /\ off[i] \in Nat
             /\ off[i] = off[i - 1] + (2 + Len(frames[i].body))
             /\ frames[i].sync \in {2, 3} /\ data[off[i - 1] + 1] = frames[i].sync
             /\ data[off[i - 1] + 2] = 2 + Len(frames[i].body)
  <2>1. i - 1 \in 0..m /\ i \in 0..m /\ i \in 1..Len(frames)
    BY <1>1
  <2>2. off[i - 1] \in Nat /\ off[i] \in Nat
    BY <1>1, <2>1
  <2>3. frames[i] \in AudioFrame
    BY <2>1
  <2>4. Len(frames[i].body) \in Nat /\ frames[i].sync \in {2, 3}
    BY <2>3, FrameParts
  <2>5. off[i] = off[i - 1] + (2 + Len(frames[i].body))
    BY DEF FramesLie
  <2>6. 1 \in 1..2 + Len(frames[i].body) /\ 2 \in 1..2 + Len(frames[i].body)
    BY <2>4
  <2>7. data[off[i - 1] + 1] = EncryptedFrame(frames[i])[1] /\ data[off[i - 1] + 2] = EncryptedFrame(frames[i])[2]
    BY <2>6 DEF FramesLie
  <2>8. EncryptedFrame(frames[i])[1] = frames[i].sync /\ EncryptedFrame(frames[i])[2] = 2 + Len(frames[i].body)
    BY <2>3, EncryptedFrameIs
  <2> QED
    BY <2>1, <2>2, <2>3, <2>4, <2>5, <2>7, <2>8
<1>3. \A i, j \in 0..m : i <= j => off[i] <= off[j]
  <2>1. ASSUME NEW i \in 1..m PROVE off[i - 1] <= off[i]
    <3> DEFINE a == off[i - 1]
               b == off[i]
               l == Len(frames[i].body)
    <3>1. a \in Nat /\ b = a + (2 + l) /\ l \in Nat
      BY <1>2
    <3> HIDE DEF a, b, l
    <3>2. a <= b
      BY <3>1
    <3> QED
      BY <3>2 DEF a, b
  <2> QED
    BY <1>1, <2>1, Ascends
<1>4. ASSUME NEW i \in 1..m PROVE off[i] <= Len(data)
  <2>1. i \in 0..m /\ m \in 0..m /\ i <= m
    BY <1>1
  <2>2. off[i] <= off[m] /\ off[i] \in Nat /\ off[m] \in Nat
    BY <1>1, <1>3, <2>1
  <2> QED
    BY <1>1, <2>2
<1> QED
  BY <1>1, <1>2, <1>3, <1>4

\* They are found, and what else is found is behind them.
LEMMA FramesFound ==
    ASSUME NEW frames \in Seq(AudioFrame), AudioOff \in Nat, NEW m, NEW off, NEW data \in Seq(Nat),
           FramesLie(frames, m, off, data)
    PROVE  /\ \A i \in 1..m : off[i - 1] + 1 \in AdtsFrames(data)
           /\ \A f \in AdtsFrames(data) :
                 f \in Nat /\ (f > off[m] \/ \E i \in 1..m : f = off[i - 1] + 1)
<1> DEFINE from == CHOOSE g : g = [i \in 1..Len(data) + 1 |-> FramesAt(g, data, i)]
<1>1. AdtsFrames(data) = from[1]
  BY DEF AdtsFrames, FramesAt, AudioHead
<1>2. from = [i \in 1..Len(data) + 1 |-> FramesAt(from, data, i)]
  BY FramesExist
<1> HIDE DEF from
<1>3. /\ m \in Nat /\ Len(data) \in Nat
      /\ \A i \in 1..m :
                 /\ i - 1 \in 0..m /\ i \in 0..m
                 /\ frames[i] \in AudioFrame /\ Len(frames[i].body) \in Nat
                 /\ off[i - 1] \in Nat /\ off[i] \in Nat /\ off[i] <= Len(data)
                 /\ off[i] = off[i - 1] + (2 + Len(frames[i].body))
                 /\ frames[i].sync \in {2, 3} /\ data[off[i - 1] + 1] = frames[i].sync
                 /\ data[off[i - 1] + 2] = 2 + Len(frames[i].body)
  BY FramesStand
<1>4. ASSUME NEW i \in 1..m PROVE from[off[i - 1] + 1] = {off[i - 1] + 1} \cup from[off[i] + 1]
  <2> DEFINE x == off[i - 1] + 1
             l == 2 + Len(frames[i].body)
  <2>1. x \in 1..Len(data) + 1 /\ l \in Nat /\ l >= 2 /\ x + l = off[i] + 1 /\ off[i] <= Len(data)
        /\ x + 1 = off[i - 1] + 2 /\ off[i] \in Nat
    <3> DEFINE a == off[i - 1]
               b == off[i]
               k == Len(frames[i].body)
    <3>1. a \in Nat /\ b \in Nat /\ b = a + (2 + k) /\ k \in Nat /\ b <= Len(data) /\ Len(data) \in Nat
      BY <1>3
    <3>2. x = a + 1 /\ l = 2 + k
      OBVIOUS
    <3> HIDE DEF a, b, k, x, l
    <3>3. x \in 1..Len(data) + 1 /\ l \in Nat /\ l >= 2 /\ x + l = b + 1 /\ b <= Len(data)
          /\ x + 1 = a + 2 /\ b \in Nat
      BY <3>1, <3>2
    <3> QED
      BY <3>3 DEF a, b
  <2>2. data[x] \in {2, 3} /\ data[x + 1] = l
    BY <1>3, <2>1
  <2>3. from[x] = FramesAt(from, data, x)
    BY <1>2, <2>1
  <2> HIDE DEF x, l
  <2>4. ~(x + 2 > Len(data) + 1) /\ ~(data[x] \notin {2, 3} \/ data[x + 1] < 2 \/ x + data[x + 1] > Len(data) + 1)
    <3> DEFINE b == off[i]
               n == Len(data)
    <3>1. x \in Nat /\ b \in Nat /\ n \in Nat /\ x + l = b + 1 /\ b <= n /\ l \in Nat /\ l >= 2
      BY <1>3, <2>1
    <3> HIDE DEF b, n
    <3>2. ~(x + 2 > n + 1) /\ ~(l < 2) /\ ~(x + l > n + 1)
      BY <3>1
    <3> QED
      BY <2>2, <3>2 DEF n
  <2>5. from[x] = {x} \cup from[x + l]
    BY <2>2, <2>3, <2>4 DEF FramesAt
  <2> QED
    BY <2>1, <2>5 DEF x
<1> DEFINE T == {j \in Nat : j <= m => from[1] = {off[i - 1] + 1 : i \in 1..j} \cup from[off[j] + 1]}
<1>5. 0 \in T
  <2>1. off[0] + 1 = 1
    BY DEF FramesLie
  <2> QED
    BY <2>1
<1>6. ASSUME NEW j \in Nat, j \in T PROVE j + 1 \in T
  <2>1. SUFFICES ASSUME j + 1 <= m
                 PROVE  from[1] = {off[i - 1] + 1 : i \in 1..j + 1} \cup from[off[j + 1] + 1]
    OBVIOUS
  <2>2. from[1] = {off[i - 1] + 1 : i \in 1..j} \cup from[off[j] + 1]
    BY <1>3, <1>6, <2>1
  <2>3. from[off[j] + 1] = {off[j] + 1} \cup from[off[j + 1] + 1]
    <3>1. j + 1 \in 1..m /\ (j + 1) - 1 = j
      BY <1>3, <2>1
    <3> QED
      BY <1>4, <3>1
  <2>4. {off[i - 1] + 1 : i \in 1..j + 1} = {off[i - 1] + 1 : i \in 1..j} \cup {off[j] + 1}
    <3>1. (j + 1) - 1 = j /\ \A i \in 1..j + 1 : i \in 1..j \/ i = j + 1
      OBVIOUS
    <3>2. 1..j \subseteq 1..j + 1 /\ j + 1 \in 1..j + 1
      OBVIOUS
    <3> QED
      BY <3>1, <3>2
  <2> QED
    BY <2>2, <2>3, <2>4
<1>7. from[1] = {off[i - 1] + 1 : i \in 1..m} \cup from[off[m] + 1]
  <2>1. m \in T
    <3> HIDE DEF T
    <3> QED
      BY <1>3, <1>5, <1>6, AllNumbers
  <2> QED
    BY <1>3, <2>1
<1>8. ASSUME NEW f \in from[off[m] + 1] PROVE f \in Nat /\ f > off[m]
  <2>1. off[m] \in Nat /\ off[m] <= Len(data)
    <3>1. m \in 0..m
      BY <1>3
    <3> QED
      BY <3>1 DEF FramesLie
  <2> DEFINE x == off[m] + 1
  <2>2. x \in 1..Len(data) + 1 /\ f \in from[x]
    BY <1>3, <2>1
  <2> HIDE DEF x
  <2>3. f \in Nat /\ x <= f
    BY <1>2, <2>2, FramesBehind
  <2> QED
    BY <2>1, <2>3 DEF x
<1> QED
  <2>1. ASSUME NEW i \in 1..m PROVE off[i - 1] + 1 \in from[1]
    BY <1>7
  <2>2. ASSUME NEW f \in from[1]
        PROVE  f \in Nat /\ (f > off[m] \/ \E i \in 1..m : f = off[i - 1] + 1)
    <3>1. CASE f \in from[off[m] + 1]
      BY <1>8, <3>1
    <3>2. CASE f \notin from[off[m] + 1]
      <4>1. PICK i \in 1..m : f = off[i - 1] + 1
        BY <1>7, <3>2
      <4> QED
        BY SMTT(30), <1>3, <4>1
    <3> QED
      BY <3>1, <3>2
  <2> QED
    BY <1>1, <2>1, <2>2

LEMMA BytesAreNumbers ==
    ASSUME NEW u \in Seq(Bytes)
    PROVE  u \in Seq(Nat)
  BY DEF Bytes

LEMMA HeaderLenIs == \A sync : HeaderLen(sync) \in Nat /\ HeaderLen(sync) >= 2
  BY DEF HeaderLen, AudioHead

LEMMA AdtsByteIs ==
    ASSUME NEW data, NEW p, NEW i, NEW F, NEW start,
           F = Holding(data, AdtsFrames(data), p), i = CHOOSE f \in F : TRUE,
           start = CipherAt(data, i)
    PROVE  AdtsByte(data, AdtsFrames(data), p) =
               IF F = {} THEN data[p]
               ELSE Xor(data[p], Keystream(SubSeq(data, start - AudioOff, start - 1), p - start + 1))
  BY DEF AdtsByte

LEMMA HoldingIs ==
    ASSUME NEW data, NEW p
    PROVE  Holding(data, AdtsFrames(data), p) =
               {i \in AdtsFrames(data) : CipherAt(data, i) <= p /\ p < i + data[i + 1]}
  BY DEF Holding

\* What DecryptAdts does with each byte.
LEMMA AdtsBytes ==
    ASSUME NEW data
    PROVE  /\ DecryptAdts(data) = [p \in 1..Len(data) |-> AdtsByte(data, AdtsFrames(data), p)]
           /\ \A p \in 1..Len(data) : DecryptAdts(data)[p] = AdtsByte(data, AdtsFrames(data), p)
  BY DEF DecryptAdts

\* _decrypt_adts keeps the length and leaves bytes.
LEMMA DecryptAdtsTyped ==
    ASSUME NEW data \in Seq(Nat)
    PROVE  DecryptAdts(data) \in Seq(Nat) /\ Len(DecryptAdts(data)) = Len(data)
<1> DEFINE f == DecryptAdts(data)
           n == Len(data)
<1>1. n \in Nat /\ \A p \in 1..n : data[p] \in Nat
  OBVIOUS
<1>2. f = [p \in 1..n |-> f[p]]
  BY AdtsBytes
<1>3. \A p \in 1..n : f[p] \in Nat
  <2> TAKE p \in 1..n
  <2> DEFINE F == Holding(data, AdtsFrames(data), p)
             i == CHOOSE g \in F : TRUE
             start == CipherAt(data, i)
             key == Keystream(SubSeq(data, start - AudioOff, start - 1), p - start + 1)
  <2>1. f[p] = AdtsByte(data, AdtsFrames(data), p)
    BY AdtsBytes
  <2>2. f[p] = IF F = {} THEN data[p] ELSE Xor(data[p], key)
    <3>1. F = Holding(data, AdtsFrames(data), p) /\ i = (CHOOSE g \in F : TRUE) /\ start = CipherAt(data, i)
      OBVIOUS
    <3> HIDE DEF f, i, F, start
    <3> QED
      BY <2>1, <3>1, AdtsByteIs
  <2>3. Xor(data[p], key) \in Bytes
    BY XorIs
  <2> HIDE DEF f, key, i, F
  <2>4. Xor(data[p], key) \in Nat
    BY <2>3 DEF Bytes
  <2> QED
    BY <1>1, <2>2, <2>4
<1> HIDE DEF f, n
<1>4. f \in Seq(Nat) /\ Len(f) = n
  BY ONLY <1>1, <1>2, <1>3, IsSequence
<1> QED
  BY <1>4 DEF f, n

\* A byte of a frame is decrypted with that frame's IV.
LEMMA FrameDecrypted ==
    ASSUME NEW frames \in Seq(AudioFrame), AudioOff \in Nat, NEW m, NEW off, NEW data \in Seq(Nat),
           FramesLie(frames, m, off, data),
           NEW i \in 1..m, NEW k \in 1..2 + Len(frames[i].body)
    PROVE  /\ off[i - 1] + k \in 1..Len(data)
           /\ DecryptAdts(data)[off[i - 1] + k] = PlainFrame(frames[i])[k]
<1> DEFINE a == off[i - 1]
           l == Len(frames[i].body)
           p == a + k
           frame == frames[i]
           holds == Holding(data, AdtsFrames(data), p)
           c == ClearLen(frame)
           iv == SubSeq(frame.body, c - AudioOff + 1, c)
<1>1. /\ m \in Nat /\ Len(data) \in Nat
      /\ \A x, y \in 0..m : x <= y => off[x] <= off[y]
      /\ \A j \in 1..m :
                 /\ j - 1 \in 0..m /\ j \in 0..m
                 /\ frames[j] \in AudioFrame /\ Len(frames[j].body) \in Nat
                 /\ off[j - 1] \in Nat /\ off[j] \in Nat /\ off[j] <= Len(data)
                 /\ off[j] = off[j - 1] + (2 + Len(frames[j].body))
                 /\ frames[j].sync \in {2, 3} /\ data[off[j - 1] + 1] = frames[j].sync
                 /\ data[off[j - 1] + 2] = 2 + Len(frames[j].body)
  BY FramesStand
<1>2. /\ a \in Nat /\ l \in Nat /\ k \in 1..2 + l /\ off[i] = a + (2 + l) /\ off[i] <= Len(data)
      /\ off[i] \in Nat /\ frame \in AudioFrame /\ Len(frame.body) = l
  BY <1>1
<1>0. /\ frame.sync \in Nat /\ frame.body \in Seq(Bytes) /\ frame.body \in Seq(Nat)
      /\ c \in Nat /\ AudioOff <= c /\ HeaderLen(frame.sync) + AudioOff = 2 + c
      /\ HeaderLen(frame.sync) \in Nat
  BY <1>2, FrameParts
<1>3. p \in 1..Len(data) /\ a < p /\ p <= off[i] /\ p = a + k
  <2> HIDE DEF a, l
  <2> QED
    BY <1>1, <1>2
<1>4. data[p] = EncryptedFrame(frame)[k]
  BY DEF FramesLie
<1>5. /\ EncryptedFrame(frame) \in Seq(Nat)
      /\ EncryptedFrame(frame)[1] = frame.sync /\ EncryptedFrame(frame)[2] = 2 + l
      /\ \A j \in 1..l : EncryptedFrame(frame)[2 + j] =
                     IF j <= c THEN frame.body[j] ELSE Xor(frame.body[j], Keystream(iv, j - c))
  BY <1>2, EncryptedFrameIs
<1>6. /\ PlainFrame(frame)[1] = frame.sync /\ PlainFrame(frame)[2] = 2 + l
      /\ \A j \in 1..l : PlainFrame(frame)[2 + j] = frame.body[j]
  BY <1>0, <1>2, PlainFrameIs
<1> DEFINE f0 == CHOOSE f \in holds : TRUE
           start == CipherAt(data, f0)
<1>7. DecryptAdts(data)[p] =
          IF holds = {} THEN data[p]
          ELSE Xor(data[p], Keystream(SubSeq(data, start - AudioOff, start - 1), p - start + 1))
  <2>1. DecryptAdts(data)[p] = AdtsByte(data, AdtsFrames(data), p)
    BY <1>3, AdtsBytes
  <2>2. holds = Holding(data, AdtsFrames(data), p) /\ f0 = (CHOOSE f \in holds : TRUE) /\ start = CipherAt(data, f0)
    OBVIOUS
  <2> HIDE DEF p, f0, holds, start
  <2> QED
    BY <2>1, <2>2, AdtsByteIs
<1> HIDE DEF c, start
<1>8. \A f \in holds : f = a + 1
  <2> TAKE f \in holds
  <2>0. f \in AdtsFrames(data) /\ CipherAt(data, f) <= p /\ p < f + data[f + 1]
    BY HoldingIs
  <2>2. f \in Nat /\ (f > off[m] \/ \E j \in 1..m : f = off[j - 1] + 1)
    BY <2>0, FramesFound
  <2>1. f <= p /\ p < f + data[f + 1]
    <3> DEFINE h == HeaderLen(data[f])
    <3>1. CipherAt(data, f) = f + h + AudioOff /\ h \in Nat
      BY HeaderLenIs DEF CipherAt
    <3>2. p \in Nat
      BY <1>1, <1>3
    <3> HIDE DEF h, p
    <3> QED
      BY <2>0, <2>2, <3>1, <3>2
  <2>3. ~(f > off[m])
    <3>1. off[i] <= off[m] /\ off[m] \in Nat
      <4>1. i \in 0..m /\ m \in 0..m /\ i <= m
        BY <1>1
      <4> QED
        BY <1>1, <4>1 DEF FramesLie
    <3> HIDE DEF p, a
    <3> QED
      BY SMTT(30), <1>2, <1>3, <2>1, <2>2, <3>1
  <2>4. PICK j \in 1..m : f = off[j - 1] + 1
    BY <2>2, <2>3
  <2> DEFINE b == off[j - 1]
             d == off[j]
  <2>5. b \in Nat /\ d \in Nat /\ d = b + (2 + Len(frames[j].body)) /\ Len(frames[j].body) \in Nat
        /\ data[b + 2] = 2 + Len(frames[j].body) /\ f = b + 1
    BY <1>1, <2>4
  <2> HIDE DEF p, a, b, d, l
  <2>6. f + 1 = b + 2
    BY <2>5
  <2>7. b < p /\ p <= d /\ p \in Nat
    <3>1. data[f + 1] = 2 + Len(frames[j].body)
      BY <2>5, <2>6
    <3> DEFINE x == Len(frames[j].body)
    <3>2. p < f + (2 + x) /\ f <= p
      BY <2>1, <3>1
    <3>0. p \in Nat
      BY <1>1, <1>3
    <3>3. x \in Nat /\ d = b + (2 + x) /\ p < f + (2 + x) /\ f = b + 1 /\ b \in Nat /\ d \in Nat
      BY <2>5, <3>2
    <3> HIDE DEF x
    <3> QED
      BY <3>0, <3>2, <3>3
  <2>8. ~(i < j)
    <3>1. SUFFICES ASSUME i < j PROVE FALSE
      OBVIOUS
    <3>2. i \in 0..m /\ j - 1 \in 0..m /\ i <= j - 1
      BY <1>1, <3>1
    <3>3. off[i] <= b
      BY <1>1, <3>2 DEF b
    <3> QED
      BY <1>2, <1>3, <2>5, <2>7, <3>3
  <2>9. ~(j < i)
    <3>1. SUFFICES ASSUME j < i PROVE FALSE
      OBVIOUS
    <3>2. j \in 0..m /\ i - 1 \in 0..m /\ j <= i - 1
      BY <1>1, <3>1
    <3>3. d <= a
      BY <1>1, <3>2 DEF d, a
    <3> QED
      BY <1>2, <1>3, <2>5, <2>7, <3>3
  <2>10. i = j
    BY <1>1, <2>8, <2>9
  <2> QED
    BY <2>4, <2>10 DEF a
<1>9. a + 1 \in AdtsFrames(data)
  BY FramesFound
<1>10. data[a + 1 + 1] = 2 + l
  <2>1. data[a + 2] = 2 + l
    BY <1>1
  <2>2. a + 1 + 1 = a + 2
    BY <1>2
  <2> QED
    BY <2>1, <2>2
<1>11. CipherAt(data, a + 1) = a + 1 + 2 + c
  <2>1. data[a + 1] = frame.sync
    BY <1>1
  <2>2. CipherAt(data, a + 1) = a + 1 + HeaderLen(frame.sync) + AudioOff
    BY <2>1 DEF CipherAt
  <2> DEFINE h == HeaderLen(frame.sync)
             begins == CipherAt(data, a + 1)
  <2>3. begins = a + 1 + h + AudioOff /\ h \in Nat /\ h + AudioOff = 2 + c /\ c \in Nat /\ a \in Nat
    BY <1>0, <1>2, <2>2
  <2> HIDE DEF a, h, begins
  <2>4. begins = a + 1 + 2 + c
    BY <2>3
  <2> QED
    BY <2>4 DEF begins
<1>12. CASE k <= 2 + c
  <2>1. holds = {}
    <3>1. SUFFICES ASSUME holds # {} PROVE FALSE
      OBVIOUS
    <3>2. PICK f \in holds : TRUE
      BY <3>1
    <3>3. f = a + 1 /\ CipherAt(data, f) <= p
      BY <1>8, <3>2, HoldingIs
    <3>4. a + 1 + 2 + c <= p
      BY <1>11, <3>3
    <3> HIDE DEF a, p, l, frame
    <3> QED
      BY <1>0, <1>2, <1>3, <1>12, <3>4
  <2>2. DecryptAdts(data)[p] = EncryptedFrame(frame)[k]
    BY <1>4, <1>7, <2>1
  <2>3. EncryptedFrame(frame)[k] = PlainFrame(frame)[k]
    <3>1. CASE k = 1 \/ k = 2
      BY <1>5, <1>6, <3>1
    <3>2. CASE ~(k = 1 \/ k = 2)
      <4> DEFINE j == k - 2
      <4>1. j \in 1..l /\ 2 + j = k /\ j <= c
        <5> HIDE DEF l, frame
        <5> QED
          BY <1>0, <1>2, <1>12, <3>2
      <4> HIDE DEF j
      <4> QED
        BY <1>5, <1>6, <4>1
    <3> QED
      BY <3>1, <3>2
  <2> QED
    BY <1>3, <2>2, <2>3
<1>13. CASE ~(k <= 2 + c)
  <2> DEFINE j == k - 2
             body == frame.body
  <2>1. j \in 1..l /\ 2 + j = k /\ j > c /\ c <= l /\ j \in Nat
    <3> HIDE DEF l, frame
    <3> QED
      BY <1>0, <1>2, <1>13
  <2>2. a + 1 \in holds
    <3>1. a + 1 + 2 + c <= p /\ p < a + 1 + (2 + l)
      <4> HIDE DEF a, l, p, frame
      <4> QED
        BY <1>0, <1>2, <1>3, <1>13
    <3>2. CipherAt(data, a + 1) <= p
      BY <1>11, <3>1
    <3> QED
      BY <1>9, <1>10, <3>1, <3>2, HoldingIs
  <2> DEFINE key == SubSeq(data, start - AudioOff, start - 1)
  <2>3. start = a + 1 + 2 + c
    <3>1. f0 = a + 1
      BY <1>8, <2>2
    <3> QED
      BY <1>11, <3>1 DEF start
  <2>4. DecryptAdts(data)[p] = Xor(data[p], Keystream(key, p - start + 1))
    BY <1>7, <2>2
  <2> DEFINE x == (a + 2) + (c - AudioOff)
             y == (a + 2) + c
  <2>5. p - start + 1 = j - c /\ start - AudioOff = x + 1 /\ start - 1 = y
    <3> HIDE DEF a, p, l, frame
    <3> QED
      BY <1>0, <1>2, <1>3, <2>1, <2>3 DEF j
  <2>6. key = iv
    <3>1. key = SubSeq(data, x + 1, y)
      BY <2>5
    <3>2. x \in Nat /\ y \in Nat /\ x <= y /\ y <= Len(data) /\ y - x = AudioOff
      <4> HIDE DEF a, l, p, j, frame
      <4> QED
        BY <1>0, <1>1, <1>2, <2>1
    <3> HIDE DEF x, y, key
    <3>3. SubSeq(data, x + 1, y) \in Seq(Nat) /\ Len(SubSeq(data, x + 1, y)) = y - x
          /\ \A z \in 1..y - x : SubSeq(data, x + 1, y)[z] = data[x + z]
      <4>1. data \in Seq(Nat)
        OBVIOUS
      <4> QED
        BY ONLY <3>2, <4>1, SubSeqIs
    <3> DEFINE lo == c - AudioOff
    <3>4. iv \in Seq(Nat) /\ Len(iv) = AudioOff /\ \A z \in 1..AudioOff : iv[z] = body[lo + z]
      <4>1. body \in Seq(Nat) /\ lo \in Nat /\ c \in Nat /\ lo <= c /\ c <= Len(body) /\ c - lo = AudioOff
        <5> HIDE DEF frame, l
        <5> QED
          BY <1>0, <1>2, <2>1
      <4>2. iv = SubSeq(body, lo + 1, c)
        OBVIOUS
      <4> HIDE DEF body, lo, iv
      <4>3. /\ SubSeq(body, lo + 1, c) \in Seq(Nat) /\ Len(SubSeq(body, lo + 1, c)) = c - lo
            /\ \A z \in 1..c - lo : SubSeq(body, lo + 1, c)[z] = body[lo + z]
        BY ONLY <4>1, SubSeqIs
      <4> QED
        BY <4>1, <4>2, <4>3
    <3>5. ASSUME NEW z \in 1..AudioOff PROVE data[x + z] = body[lo + z]
      <4> DEFINE w == lo + z
      <4>1. w \in 1..l /\ 2 + w \in 1..2 + l /\ x + z = a + (2 + w) /\ w <= c
        <5> HIDE DEF a, l, frame
        <5> QED
          BY <1>0, <1>2, <2>1 DEF x
      <4> HIDE DEF w
      <4>2. data[a + (2 + w)] = EncryptedFrame(frame)[2 + w]
        BY <4>1 DEF FramesLie
      <4>3. EncryptedFrame(frame)[2 + w] = body[w]
        BY <1>5, <4>1
      <4> QED
        BY <4>1, <4>2, <4>3 DEF w
    <3> HIDE DEF iv, lo, body
    <3> DEFINE s == SubSeq(data, x + 1, y)
    <3>6. s \in Seq(Nat) /\ iv \in Seq(Nat) /\ Len(s) = Len(iv) /\ \A z \in 1..Len(s) : s[z] = iv[z]
      BY <3>2, <3>3, <3>4, <3>5
    <3> HIDE DEF s
    <3>7. s = iv
      BY <3>6, SeqEqual
    <3> QED
      BY <3>1, <3>7 DEF s
  <2>7. data[p] = Xor(body[j], Keystream(iv, j - c))
    <3>1. data[p] = EncryptedFrame(frame)[2 + j]
      BY <1>4, <2>1
    <3>2. ~(j <= c)
      <4> HIDE DEF frame
      <4> QED
        BY <1>0, <2>1
    <3> HIDE DEF p, j, iv, l
    <3>3. EncryptedFrame(frame)[2 + j] = IF j <= c THEN body[j] ELSE Xor(body[j], Keystream(iv, j - c))
      BY <1>5, <2>1
    <3> HIDE DEF body, frame
    <3> QED
      BY <3>1, <3>2, <3>3
  <2>8. DecryptAdts(data)[p] = Xor(Xor(body[j], Keystream(iv, j - c)), Keystream(iv, j - c))
    BY <2>4, <2>5, <2>6, <2>7
  <2>9. body[j] \in Bytes
    BY <1>0, <1>2, <2>1
  <2>10. DecryptAdts(data)[p] = body[j]
    BY <2>8, <2>9, XorIs
  <2> QED
    BY <1>3, <1>6, <2>1, <2>10
<1> QED
  BY <1>12, <1>13

\* Blocks as long as others end where they end.
LEMMA SameEnds ==
    ASSUME NEW N \in Nat, NEW e, NEW f, e[0] = f[0],
           \A i \in 1..N : e[i - 1] = f[i - 1] => e[i] = f[i]
    PROVE  \A i \in 0..N : e[i] = f[i]
<1> DEFINE T == {n \in Nat : n <= N => e[n] = f[n]}
<1>1. 0 \in T
  OBVIOUS
<1>2. ASSUME NEW n \in Nat, n \in T PROVE n + 1 \in T
  <2>1. SUFFICES ASSUME n + 1 <= N PROVE e[n + 1] = f[n + 1]
    OBVIOUS
  <2>2. n + 1 \in 1..N /\ (n + 1) - 1 = n /\ e[n] = f[n]
    BY <1>2, <2>1
  <2> QED
    BY <2>2
<1> HIDE DEF T
<1>3. \A n \in Nat : n \in T
  BY <1>1, <1>2, AllNumbers
<1> QED
  BY <1>3 DEF T

\* A sequence whose elements another one begins with is its prefix.
LEMMA PrefixIs ==
    ASSUME NEW A, NEW s \in Seq(A), NEW t \in Seq(A), Len(s) <= Len(t),
           \A q \in 1..Len(s) : s[q] = t[q]
    PROVE  IsPrefix(s, t)
<1> DEFINE n == Len(s)
           u == SubSeq(s, 1, n)
           v == SubSeq(t, 1, n)
<1>1. n \in Nat /\ n <= Len(t) /\ Len(t) \in Nat
  OBVIOUS
<1>2. u \in Seq(A) /\ v \in Seq(A) /\ Len(u) = n /\ Len(v) = n
      /\ \A q \in 1..n : u[q] = s[q] /\ v[q] = t[q]
  OBVIOUS
<1> HIDE DEF u, v
<1>3. u = v
  BY <1>2, SeqEqual
<1> QED
  BY <1>1, <1>3 DEF IsPrefix, u, v

AudioFits(c) ==
    /\ c.frames \in Seq(AudioFrame) /\ c.drop \in Nat
    /\ c.drop > 0 => c.frames # <<>> /\ c.drop <= AudioHead + Len(c.frames[Len(c.frames)].body)

\* The audio the camera sends: its frames, and of the last one what is left.
LEMMA AudioStreamIs ==
    ASSUME NEW c, AudioFits(c), AudioOff \in Nat
    PROVE  /\ EncryptedAudio(c) \in Seq(Nat)
           /\ \E off : FramesLie(c.frames, IF c.drop = 0 THEN Len(c.frames) ELSE Len(c.frames) - 1,
                                 off, EncryptedAudio(c))
<1> DEFINE frames == c.frames
           M == Len(frames)
           W == [i \in DOMAIN frames |-> EncryptedFrame(frames[i])]
           flat == FlattenSeq(W)
           drop == c.drop
           n == Len(flat) - drop
           u == EncryptedAudio(c)
           m == IF drop = 0 THEN M ELSE M - 1
<1>1. frames \in Seq(AudioFrame) /\ M \in Nat /\ DOMAIN frames = 1..M /\ drop \in Nat
  BY DEF AudioFits
<1>2. ASSUME NEW i \in 1..M
      PROVE  /\ frames[i] \in AudioFrame /\ Len(frames[i].body) \in Nat
             /\ W[i] = EncryptedFrame(frames[i]) /\ W[i] \in Seq(Nat) /\ Len(W[i]) = 2 + Len(frames[i].body)
  <2>1. frames[i] \in AudioFrame /\ Len(frames[i].body) \in Nat /\ W[i] = EncryptedFrame(frames[i])
    BY <1>1, FrameParts
  <2>2. EncryptedFrame(frames[i]) \in Seq(Nat) /\ Len(EncryptedFrame(frames[i])) = 2 + Len(frames[i].body)
    BY <2>1, EncryptedFrameIs
  <2> HIDE DEF W
  <2> QED
    BY <2>1, <2>2
<1>3. W \in Seq(Seq(Nat)) /\ Len(W) = M
  <2>1. W = [i \in 1..M |-> W[i]]
    BY <1>1
  <2> HIDE DEF W, M
  <2> QED
    BY <1>1, <1>2, <2>1, IsSequence
<1> HIDE DEF W
<1>4. flat \in Seq(Nat) /\ \E off : Blocks(W, off, flat)
  BY <1>3, FlattenIsBlocks
<1>5. PICK off : Blocks(W, off, flat)
  BY <1>4
<1>6. u = SubSeq(flat, 1, n)
  BY DEF EncryptedAudio, W
<1> HIDE DEF flat, u, M, frames, drop
<1>7. /\ off \in [0..M -> Nat] /\ off[0] = 0 /\ Len(flat) = off[M] /\ Len(flat) \in Nat
      /\ \A i \in 1..M : off[i] = off[i - 1] + (2 + Len(frames[i].body))
      /\ \A i \in 1..M : \A k \in 1..2 + Len(frames[i].body) : flat[off[i - 1] + k] = EncryptedFrame(frames[i])[k]
  <2>1. /\ off \in [0..M -> Nat] /\ off[0] = 0 /\ Len(flat) = off[M]
        /\ \A i \in 1..M : off[i] = off[i - 1] + Len(W[i])
        /\ \A i \in 1..M : \A k \in 1..Len(W[i]) : flat[off[i - 1] + k] = W[i][k]
    BY <1>3, <1>5 DEF Blocks
  <2>2. Len(flat) \in Nat
    BY <1>4
  <2>3. \A i \in 1..M : off[i] = off[i - 1] + (2 + Len(frames[i].body))
    BY <1>2, <2>1
  <2>4. ASSUME NEW i \in 1..M, NEW k \in 1..2 + Len(frames[i].body)
        PROVE  flat[off[i - 1] + k] = EncryptedFrame(frames[i])[k]
    BY <1>2, <2>1
  <2> QED
    BY <2>1, <2>2, <2>3, <2>4
<1>8. m \in 0..M /\ n \in Nat /\ n <= Len(flat) /\ off[m] <= n /\ off[m] \in Nat
  <2>1. CASE drop = 0
    BY <1>1, <1>7, <2>1
  <2>2. CASE drop # 0
    <3>1. M # 0 /\ drop <= 2 + Len(frames[M].body)
      <4>1. drop > 0
        BY <1>1, <2>2
      <4>2. frames # <<>> /\ drop <= 2 + Len(frames[M].body)
        BY <4>1 DEF AudioFits, AudioHead, frames, M, drop
      <4>3. M = 0 => frames = <<>>
        BY <1>1 DEF M
      <4> QED
        BY <4>2, <4>3
    <3>2. M \in 1..M /\ M - 1 \in 0..M /\ m = M - 1
      BY <1>1, <2>2, <3>1
    <3> DEFINE a == off[M - 1]
               b == off[M]
               l == Len(frames[M].body)
    <3>3. a \in Nat /\ b \in Nat /\ l \in Nat /\ b = a + (2 + l) /\ Len(flat) = b /\ drop <= 2 + l
      BY <1>2, <1>7, <3>1, <3>2
    <3>4. off[m] = a
      BY <3>2
    <3> HIDE DEF a, b, l, m
    <3> QED
      BY <1>1, <3>2, <3>3, <3>4
  <2> QED
    BY <2>1, <2>2
<1> HIDE DEF m, n
<1>9. u \in Seq(Nat) /\ Len(u) = n /\ \A q \in 1..n : u[q] = flat[q]
  <2>1. 0 \in Nat /\ 0 <= n /\ n - 0 = n /\ 0 + 1 = 1
    BY <1>8
  <2>2. /\ SubSeq(flat, 0 + 1, n) \in Seq(Nat) /\ Len(SubSeq(flat, 0 + 1, n)) = n - 0
        /\ \A q \in 1..n - 0 : SubSeq(flat, 0 + 1, n)[q] = flat[0 + q]
    BY <1>4, <1>8, <2>1, SubSeqIs
  <2>3. \A q \in 1..n : 0 + q = q
    BY <1>8
  <2> QED
    BY <1>6, <2>1, <2>2, <2>3
<1> DEFINE ends == [i \in 0..m |-> off[i]]
<1>10. ASSUME NEW i \in 0..m PROVE ends[i] = off[i] /\ i \in 0..M /\ off[i] \in Nat
  BY <1>1, <1>7, <1>8
<1>11. ASSUME NEW i, NEW j, i \in 0..M, j \in 0..M, i <= j PROVE off[i] <= off[j]
  <2>1. ASSUME NEW k \in 1..M PROVE off[k - 1] <= off[k]
    <3> DEFINE a == off[k - 1]
               b == off[k]
               l == Len(frames[k].body)
    <3>1. a \in Nat /\ b = a + (2 + l) /\ l \in Nat
      BY <1>1, <1>2, <1>7
    <3> HIDE DEF a, b, l
    <3>2. a <= b
      BY <3>1
    <3> QED
      BY <3>2 DEF a, b
  <2>2. \A x, y \in 0..M : x <= y => off[x] <= off[y]
    BY <1>1, <1>7, <2>1, Ascends
  <2> QED
    BY <1>11, <2>2
<1>12. FramesLie(frames, m, ends, u)
  <2>1. ends \in [0..m -> Nat] /\ ends[0] = 0 /\ ends[m] <= Len(u) /\ m \in 0..Len(frames)
    <3>1. 0 \in 0..m /\ m \in 0..m
      BY <1>1, <1>8
    <3>2. ends[0] = off[0] /\ ends[m] = off[m]
      BY <3>1
    <3>3. ends \in [0..m -> Nat]
      BY <1>10
    <3> QED
      BY <1>7, <1>8, <1>9, <3>2, <3>3 DEF M
  <2>2. ASSUME NEW i \in 1..m
        PROVE  i \in 1..M /\ i - 1 \in 0..m /\ i \in 0..m /\ ends[i] = off[i] /\ ends[i - 1] = off[i - 1]
    BY <1>1, <1>8
  <2>3. \A i \in 1..m : ends[i] = ends[i - 1] + (2 + Len(frames[i].body))
    BY <1>7, <2>2
  <2>4. ASSUME NEW i \in 1..m, NEW k \in 1..2 + Len(frames[i].body)
        PROVE  u[ends[i - 1] + k] = EncryptedFrame(frames[i])[k]
    <3> DEFINE a == off[i - 1]
               b == off[i]
               l == Len(frames[i].body)
    <3>1. a \in Nat /\ b \in Nat /\ b = a + (2 + l) /\ l \in Nat /\ k \in 1..2 + l
      BY <1>2, <1>7, <1>10, <2>2
    <3>2. b <= off[m]
      <4>1. i \in 0..M /\ m \in 0..M /\ i <= m
        BY <1>1, <1>8, <2>2
      <4> QED
        BY <1>11, <4>1
    <3>3. flat[a + k] = EncryptedFrame(frames[i])[k]
      BY <1>7, <2>2
    <3>4. ends[i - 1] = a
      BY <2>2
    <3> HIDE DEF a, b, l, ends
    <3>5. a + k \in 1..n
      BY <1>8, <3>1, <3>2
    <3> QED
      BY <1>9, <3>3, <3>4, <3>5
  <2> HIDE DEF ends
  <2> QED
    BY <2>1, <2>3, <2>4 DEF FramesLie
<1> QED
  <2>1. FramesLie(c.frames, IF c.drop = 0 THEN Len(c.frames) ELSE Len(c.frames) - 1, ends, EncryptedAudio(c))
    BY <1>12 DEF frames, m, u, M, drop
  <2>2. EncryptedAudio(c) \in Seq(Nat)
    BY <1>9 DEF u
  <2> HIDE DEF ends
  <2> QED
    BY <2>1, <2>2

\* _decrypt_adts makes the camera's frames of them, each one that is in the clip to its end.
LEMMA AudioDecrypts ==
    ASSUME NEW c, AudioFits(c), AudioOff \in Nat
    PROVE  LET full == IF c.drop = 0 THEN c.frames ELSE Front(c.frames)
               plain == FlattenSeq([i \in DOMAIN full |-> PlainFrame(full[i])])
           IN IsPrefix(plain, DecryptAdts(EncryptedAudio(c)))
<1> DEFINE frames == c.frames
           M == Len(frames)
           m == IF c.drop = 0 THEN Len(c.frames) ELSE Len(c.frames) - 1
           full == IF c.drop = 0 THEN c.frames ELSE Front(c.frames)
           Pl == [i \in DOMAIN full |-> PlainFrame(full[i])]
           plain == FlattenSeq(Pl)
           data == EncryptedAudio(c)
           dec == DecryptAdts(data)
<1>1. frames \in Seq(AudioFrame) /\ M \in Nat
  BY DEF AudioFits
<1>2. data \in Seq(Nat) /\ \E e : FramesLie(frames, m, e, data)
  BY AudioStreamIs
<1>3. PICK off : FramesLie(frames, m, off, data)
  BY <1>2
<1>4. m \in 0..M /\ m \in Nat /\ off \in [0..m -> Nat] /\ off[0] = 0 /\ off[m] <= Len(data)
      /\ \A i \in 1..m : off[i] = off[i - 1] + (2 + Len(frames[i].body))
  BY <1>1, <1>3 DEF FramesLie
<1>5. dec \in Seq(Nat) /\ Len(dec) = Len(data)
  BY <1>2, DecryptAdtsTyped
<1>6. ASSUME NEW i \in 1..m, NEW k \in 1..2 + Len(frames[i].body)
      PROVE  dec[off[i - 1] + k] = PlainFrame(frames[i])[k]
  <2>1. i \in 1..m /\ k \in 1..2 + Len(frames[i].body) /\ data \in Seq(Nat)
    BY <1>2
  <2> HIDE DEF data, frames, m
  <2> QED
    BY <1>1, <1>3, <2>1, FrameDecrypted
<1>7. Len(full) = m /\ DOMAIN full = 1..m /\ \A i \in 1..m : full[i] = frames[i]
  <2>1. CASE c.drop = 0
    BY <1>1, <2>1
  <2>2. CASE c.drop # 0
    <3>1. full = SubSeq(frames, 1, M - 1) /\ m = M - 1 /\ 0 <= M - 1
      BY <1>4, <2>2 DEF Front
    <3>2. /\ Len(SubSeq(frames, 1, M - 1)) = M - 1 /\ DOMAIN SubSeq(frames, 1, M - 1) = 1..M - 1
          /\ \A i \in 1..M - 1 : SubSeq(frames, 1, M - 1)[i] = frames[i]
      BY <1>1, <3>1
    <3> HIDE DEF full, m, frames, M
    <3> QED
      BY <3>1, <3>2
  <2> QED
    BY <2>1, <2>2
<1> HIDE DEF full, m, data, dec
<1>8. ASSUME NEW i \in 1..m
      PROVE  /\ Pl[i] = PlainFrame(frames[i]) /\ Pl[i] \in Seq(Nat) /\ Len(Pl[i]) = 2 + Len(frames[i].body)
             /\ Len(frames[i].body) \in Nat
  <2>1. frames[i] \in AudioFrame
    <3>1. i \in 1..M
      BY <1>1, <1>4
    <3> QED
      BY <1>1, <3>1
  <2>2. Pl[i] = PlainFrame(frames[i])
    BY <1>7
  <2>3. PlainFrame(frames[i]) \in Seq(Nat) /\ Len(PlainFrame(frames[i])) = 2 + Len(frames[i].body)
    BY <2>1, FrameParts, PlainFrameIs
  <2>4. Len(frames[i].body) \in Nat
    BY <2>1, FrameParts
  <2> HIDE DEF Pl
  <2> QED
    BY <2>1, <2>2, <2>3, <2>4
<1>9. Pl \in Seq(Seq(Nat)) /\ Len(Pl) = m
  <2>1. Pl = [i \in 1..m |-> Pl[i]]
    BY <1>7
  <2> HIDE DEF Pl
  <2> QED
    BY <1>4, <1>8, <2>1, IsSequence
<1> HIDE DEF Pl
<1>10. plain \in Seq(Nat) /\ \E e : Blocks(Pl, e, plain)
  BY <1>9, FlattenIsBlocks
<1>11. PICK e : Blocks(Pl, e, plain)
  BY <1>10
<1> HIDE DEF plain
<1>12. \A i \in 0..m : e[i] = off[i]
  <2>1. e[0] = off[0] /\ m \in Nat
    BY <1>4, <1>11 DEF Blocks
  <2>2. ASSUME NEW i \in 1..m, e[i - 1] = off[i - 1] PROVE e[i] = off[i]
    <3>1. e[i] = e[i - 1] + Len(Pl[i])
      BY <1>9, <1>11 DEF Blocks
    <3> QED
      BY <1>4, <1>8, <2>2, <3>1
  <2> QED
    BY <2>1, <2>2, SameEnds
<1>13. Len(plain) = off[m]
  <2>1. Len(plain) = e[m] /\ m \in 0..m
    BY <1>4, <1>9, <1>11 DEF Blocks
  <2> QED
    BY <1>12, <2>1
<1>14. ASSUME NEW q \in 1..Len(plain) PROVE plain[q] = dec[q]
  <2>1. PICK i \in 1..m : \E k \in 1..Len(Pl[i]) : q = e[i - 1] + k
    <3>1. \A i \in 1..Len(Pl) : Len(Pl[i]) \in Nat
      BY <1>8, <1>9
    <3>2. Len(Pl) = m /\ Len(Pl) \in Nat
      BY <1>4, <1>9
    <3>3. \E i \in 1..Len(Pl) : \E k \in 1..Len(Pl[i]) : q = e[i - 1] + k
      BY <1>11, <3>1, <3>2, BlocksCover
    <3> QED
      BY <3>2, <3>3
  <2>2. PICK k \in 1..Len(Pl[i]) : q = e[i - 1] + k
    BY <2>1
  <2>3. plain[e[i - 1] + k] = Pl[i][k]
    BY <1>9, <1>11 DEF Blocks
  <2>4. e[i - 1] = off[i - 1]
    <3>1. i - 1 \in 0..m
      BY <1>4
    <3> QED
      BY <1>12, <3>1
  <2>5. k \in 1..2 + Len(frames[i].body) /\ Pl[i][k] = PlainFrame(frames[i])[k]
    BY <1>8
  <2> QED
    BY <1>6, <2>2, <2>3, <2>4, <2>5
<1>15. IsPrefix(plain, dec)
  <2>1. Len(plain) <= Len(dec)
    BY <1>4, <1>5, <1>13
  <2> QED
    BY <1>5, <1>10, <1>14, <2>1, PrefixIs
<1> QED
  BY <1>15 DEF plain, Pl, full, dec, data

-------------------------------------------------------------------------------
(***************************************************************************)
(* Escaped NAL units. Escaping puts byte j of a unit at a place at[j], and *)
(* only emulation prevention bytes between; so start codes are where the   *)
(* camera put them, and nowhere in a unit.                                 *)
(***************************************************************************)

\* Two zeros end at p.
Zeros(x, p) == p > 1 /\ x[p] = 0 /\ x[p - 1] = 0

\* What one more byte makes of the bytes escaped so far.
EscapedBy(e, byte) == IF Zeros(e, Len(e)) THEN e \o <<3, byte>> ELSE e \o <<byte>>

EscapesAs(f, r) == f = [j \in 0..Len(r) |-> IF j = 0 THEN <<>> ELSE EscapedBy(f[j - 1], r[j])]

\* The recursion of the escaping has a solution.
LEMMA EscapesExist ==
    ASSUME NEW r, Len(r) \in Nat
    PROVE  \E f : EscapesAs(f, r)
<1> DEFINE Up(f, n) == f = [j \in 0..n |-> IF j = 0 THEN <<>> ELSE EscapedBy(f[j - 1], r[j])]
           T == {n \in Nat : \E f : Up(f, n)}
<1>1. 0 \in T
  <2>1. Up([j \in 0..0 |-> <<>>], 0)
    OBVIOUS
  <2> QED
    BY <2>1
<1>2. ASSUME NEW n \in Nat, n \in T PROVE n + 1 \in T
  <2>1. PICK f : Up(f, n)
    BY <1>2
  <2> DEFINE g == [j \in 0..n + 1 |-> IF j = n + 1 THEN EscapedBy(f[n], r[n + 1]) ELSE f[j]]
  <2>2. ASSUME NEW j \in 0..n + 1 PROVE g[j] = IF j = 0 THEN <<>> ELSE EscapedBy(g[j - 1], r[j])
    <3>1. CASE j = n + 1
      <4>1. g[j] = EscapedBy(f[n], r[n + 1]) /\ j # 0 /\ j - 1 = n /\ g[n] = f[n]
        BY <3>1
      <4> HIDE DEF g
      <4> QED
        BY <3>1, <4>1
    <3>2. CASE j # n + 1
      <4>1. j \in 0..n /\ g[j] = f[j] /\ (j # 0 => g[j - 1] = f[j - 1])
        BY <3>2
      <4>2. f[j] = IF j = 0 THEN <<>> ELSE EscapedBy(f[j - 1], r[j])
        BY <2>1, <4>1
      <4> HIDE DEF g
      <4> QED
        BY <4>1, <4>2
    <3> QED
      BY <3>1, <3>2
  <2>3. g = [j \in 0..n + 1 |-> g[j]]
    OBVIOUS
  <2> HIDE DEF g
  <2>4. Up(g, n + 1)
    BY <2>2, <2>3
  <2> QED
    BY <2>4
<1>3. Len(r) \in T
  <2> HIDE DEF T
  <2> QED
    BY <1>1, <1>2, AllNumbers
<1>4. \E f : Up(f, Len(r))
  BY <1>3
<1> QED
  BY <1>4 DEF EscapesAs

LEMMA EscapedSolves ==
    ASSUME NEW r, Len(r) \in Nat
    PROVE  EscapesAs(Escaped(r), r)
<1> DEFINE f == CHOOSE g : EscapesAs(g, r)
<1>1. EscapesAs(f, r)
  BY EscapesExist
<1>2. Escaped(r) = f
  BY DEF Escaped, EscapesAs, EscapedBy, Zeros
<1> QED
  BY <1>1, <1>2

\* Where the bytes of r are in x, which is r escaped: an emulation prevention byte is before a
\* byte that follows two zeros, and nowhere else.
EscapesTo(r, at, x) ==
    /\ x \in Seq(Nat) /\ at \in [0..Len(r) -> Nat] /\ at[0] = 0 /\ at[Len(r)] = Len(x)
    /\ \A j \in 1..Len(r) : at[j] = at[j - 1] + (IF Zeros(x, at[j - 1]) THEN 2 ELSE 1)
    /\ \A j \in 1..Len(r) : x[at[j]] = r[j]
    /\ \A j \in 1..Len(r) : Zeros(x, at[j - 1]) => x[at[j - 1] + 1] = 3

LEMMA EscapedByIs ==
    ASSUME NEW e \in Seq(Nat), NEW byte \in Nat
    PROVE  LET x == EscapedBy(e, byte)
           IN /\ x \in Seq(Nat) /\ Len(x) = Len(e) + (IF Zeros(e, Len(e)) THEN 2 ELSE 1)
              /\ x[Len(x)] = byte /\ (Zeros(e, Len(e)) => x[Len(e) + 1] = 3)
              /\ \A k \in 1..Len(e) : x[k] = e[k]
<1>1. /\ e \o <<3, byte>> \in Seq(Nat) /\ Len(e \o <<3, byte>>) = Len(e) + 2
      /\ (e \o <<3, byte>>)[Len(e) + 2] = byte /\ (e \o <<3, byte>>)[Len(e) + 1] = 3
      /\ \A k \in 1..Len(e) : (e \o <<3, byte>>)[k] = e[k]
  OBVIOUS
<1>2. /\ e \o <<byte>> \in Seq(Nat) /\ Len(e \o <<byte>>) = Len(e) + 1
      /\ (e \o <<byte>>)[Len(e) + 1] = byte
      /\ \A k \in 1..Len(e) : (e \o <<byte>>)[k] = e[k]
  OBVIOUS
<1> QED
  BY <1>1, <1>2 DEF EscapedBy

LEMMA EscapedIs ==
    ASSUME NEW r \in Seq(Nat)
    PROVE  \E at : /\ EscapesTo(r, at, Escape(r))
                   /\ \A j \in 0..Len(r) : RawAt(r, j) = at[j]
<1> DEFINE n == Len(r)
           f == Escaped(r)
           at == [j \in 0..n |-> Len(f[j])]
<1>1. n \in Nat /\ \A j \in 1..n : r[j] \in Nat
  OBVIOUS
<1>2. f = [j \in 0..n |-> IF j = 0 THEN <<>> ELSE EscapedBy(f[j - 1], r[j])]
  BY <1>1, EscapedSolves DEF EscapesAs
<1>3. Escape(r) = f[n] /\ \A j \in 0..n : RawAt(r, j) = at[j]
  BY DEF Escape, RawAt
<1> HIDE DEF f, n
<1> DEFINE Good(j) ==
             /\ f[j] \in Seq(Nat)
             /\ \A i \in 0..j : at[i] \in Nat /\ at[i] <= at[j]
             /\ \A i \in 1..j : at[i] = at[i - 1] + (IF Zeros(f[j], at[i - 1]) THEN 2 ELSE 1)
             /\ \A i \in 1..j : f[j][at[i]] = r[i]
             /\ \A i \in 1..j : Zeros(f[j], at[i - 1]) => f[j][at[i - 1] + 1] = 3
           T == {j \in Nat : j <= n => Good(j)}
<1>4. \A j \in 0..n : at[j] = Len(f[j])
  OBVIOUS
<1>5. f[0] = <<>>
  BY <1>1, <1>2
<1> HIDE DEF at
<1>6. Good(0)
  <2>1. f[0] \in Seq(Nat) /\ at[0] = 0
    BY <1>1, <1>4, <1>5
  <2> QED
    BY <2>1
<1>7. ASSUME NEW j \in Nat, j + 1 <= n, Good(j) PROVE Good(j + 1)
  <2> DEFINE e == f[j]
             x == f[j + 1]
             byte == r[j + 1]
             a == at[j]
  <2>1. x = EscapedBy(e, byte) /\ e \in Seq(Nat) /\ byte \in Nat /\ a = Len(e) /\ at[j + 1] = Len(x) /\ a \in Nat
    <3>1. j + 1 \in 0..n /\ j + 1 # 0 /\ (j + 1) - 1 = j /\ j + 1 \in 1..n /\ j \in 0..n
      BY <1>1, <1>7
    <3>2. f[j + 1] = EscapedBy(f[j], r[j + 1])
      BY <1>2, <3>1
    <3> HIDE DEF f
    <3> QED
      BY <1>1, <1>4, <1>7, <3>1, <3>2
  <2> HIDE DEF e, x, byte, a
  <2>2. /\ x \in Seq(Nat) /\ Len(x) = Len(e) + (IF Zeros(e, Len(e)) THEN 2 ELSE 1)
        /\ x[Len(x)] = byte /\ (Zeros(e, Len(e)) => x[Len(e) + 1] = 3)
        /\ \A k \in 1..Len(e) : x[k] = e[k]
    BY <2>1, EscapedByIs
  <2>3. ASSUME NEW p \in 0..a PROVE Zeros(x, p) <=> Zeros(e, p)
    <3>1. CASE p > 1
      <4>1. p \in 1..Len(e) /\ p - 1 \in 1..Len(e)
        BY <2>1, <3>1
      <4> QED
        BY <2>2, <4>1 DEF Zeros
    <3>2. CASE ~(p > 1)
      BY <3>2 DEF Zeros
    <3> QED
      BY <3>1, <3>2
  <2>4. \A i \in 0..j : at[i] \in Nat /\ at[i] <= a
    BY <1>7 DEF a
  <2>5. at[j + 1] \in Nat /\ at[j + 1] = a + (IF Zeros(x, a) THEN 2 ELSE 1) /\ a < at[j + 1]
    <3>1. a \in 0..a
      BY <2>1
    <3> QED
      BY <2>1, <2>2, <2>3, <3>1
  <2>6. ASSUME NEW i \in 0..j + 1 PROVE at[i] \in Nat /\ at[i] <= at[j + 1]
    <3>1. i = j + 1 \/ i \in 0..j
      OBVIOUS
    <3>2. CASE i \in 0..j
      BY <2>1, <2>4, <2>5, <3>2
    <3> QED
      BY <2>5, <3>1, <3>2
  <2>7. ASSUME NEW i \in 1..j + 1
        PROVE  /\ at[i] = at[i - 1] + (IF Zeros(x, at[i - 1]) THEN 2 ELSE 1)
               /\ x[at[i]] = r[i]
               /\ Zeros(x, at[i - 1]) => x[at[i - 1] + 1] = 3
    <3>1. i = j + 1 \/ i \in 1..j
      OBVIOUS
    <3>2. CASE i = j + 1
      <4>1. at[i - 1] = a /\ at[i] = Len(x) /\ r[i] = byte
        BY <2>1, <3>2 DEF a, byte
      <4>2. Zeros(x, a) <=> Zeros(e, a)
        <5>1. a \in 0..a
          BY <2>1
        <5> QED
          BY <2>3, <5>1
      <4> QED
        BY <2>1, <2>2, <2>5, <3>2, <4>1, <4>2
    <3>3. CASE i \in 1..j
      <4>1. i \in 0..j /\ i - 1 \in 0..j
        BY <3>3
      <4> DEFINE c == at[i - 1]
                 d == at[i]
      <4>2. c \in 0..a /\ d \in 0..a
        BY <2>1, <2>4, <4>1
      <4>3. /\ d = c + (IF Zeros(e, c) THEN 2 ELSE 1) /\ e[d] = r[i]
            /\ (Zeros(e, c) => e[c + 1] = 3)
        BY <1>7, <3>3 DEF e
      <4> HIDE DEF c, d
      <4>4. Zeros(x, c) <=> Zeros(e, c)
        BY <2>3, <4>2
      <4>5. d \in 1..Len(e) /\ (Zeros(e, c) => c + 1 \in 1..Len(e))
        BY <2>1, <4>2, <4>3
      <4>6. x[d] = e[d] /\ (Zeros(e, c) => x[c + 1] = e[c + 1])
        BY <2>2, <4>5
      <4> QED
        BY <4>3, <4>4, <4>6 DEF c, d
    <3> QED
      BY <3>1, <3>2, <3>3
  <2> QED
    BY <2>2, <2>6, <2>7 DEF x
<1>8. Good(n)
  <2> HIDE DEF Good
  <2>1. 0 \in T
    BY <1>6
  <2>2. ASSUME NEW j \in Nat, j \in T PROVE j + 1 \in T
    <3>1. SUFFICES ASSUME j + 1 <= n PROVE Good(j + 1)
      OBVIOUS
    <3>2. j <= n
      BY <1>1, <3>1
    <3>3. Good(j)
      BY <2>2, <3>2
    <3> QED
      BY <1>7, <3>1, <3>3
  <2>3. n \in T
    <3> HIDE DEF T
    <3> QED
      BY <1>1, <2>1, <2>2, AllNumbers
  <2> QED
    BY <1>1, <2>3
<1>9. at \in [0..n -> Nat] /\ at[0] = 0 /\ at[n] = Len(f[n])
  <2>1. at = [j \in 0..n |-> at[j]]
    BY DEF at
  <2>2. \A j \in 0..n : at[j] \in Nat
    BY <1>8
  <2>3. 0 \in 0..n /\ n \in 0..n
    BY <1>1
  <2>4. at[0] = Len(f[0]) /\ at[n] = Len(f[n])
    BY <1>4, <2>3
  <2> QED
    BY <1>5, <2>1, <2>2, <2>4
<1>10. EscapesTo(r, at, f[n])
  BY <1>8, <1>9 DEF EscapesTo, n
<1> QED
  BY <1>3, <1>10 DEF n

\* Until the byte before b, and in the place of byte b, sequences that begin alike are escaped alike.
LEMMA EscapedAlike ==
    ASSUME NEW r \in Seq(Nat), NEW t \in Seq(Nat), NEW b \in 1..Len(r), b <= Len(t),
           \A j \in 1..b - 1 : r[j] = t[j]
    PROVE  \A j \in 0..b : RawAt(r, j) = RawAt(t, j)
<1> DEFINE f == Escaped(r)
           g == Escaped(t)
           T == {j \in Nat : j < b => f[j] = g[j] /\ f[j] \in Seq(Nat)}
<1>1. /\ f = [j \in 0..Len(r) |-> IF j = 0 THEN <<>> ELSE EscapedBy(f[j - 1], r[j])]
      /\ g = [j \in 0..Len(t) |-> IF j = 0 THEN <<>> ELSE EscapedBy(g[j - 1], t[j])]
  BY EscapedSolves DEF EscapesAs
<1> HIDE DEF f, g
<1>2. Len(r) \in Nat /\ Len(t) \in Nat /\ b \in Nat /\ b >= 1 /\ b <= Len(r)
  OBVIOUS
<1>3. f[0] = <<>> /\ g[0] = <<>>
  <2>1. 0 \in 0..Len(r) /\ 0 \in 0..Len(t)
    BY <1>2
  <2> QED
    BY <1>1, <2>1
<1>4. ASSUME NEW j \in 1..b
      PROVE  /\ f[j] = EscapedBy(f[j - 1], r[j]) /\ g[j] = EscapedBy(g[j - 1], t[j])
             /\ r[j] \in Nat /\ t[j] \in Nat
  <2>1. j \in 0..Len(r) /\ j \in 0..Len(t) /\ j # 0 /\ j \in 1..Len(r) /\ j \in 1..Len(t)
    BY <1>2
  <2>2. r[j] \in Nat /\ t[j] \in Nat
    BY <2>1
  <2>3. f[j] = EscapedBy(f[j - 1], r[j])
    BY <1>1, <2>1
  <2>4. g[j] = EscapedBy(g[j - 1], t[j])
    BY <1>1, <2>1
  <2> QED
    BY <2>2, <2>3, <2>4
<1>5. 0 \in T
  <2>1. <<>> \in Seq(Nat)
    OBVIOUS
  <2> QED
    BY <1>3, <2>1
<1>6. ASSUME NEW j \in Nat, j \in T PROVE j + 1 \in T
  <2>1. SUFFICES ASSUME j + 1 < b PROVE f[j + 1] = g[j + 1] /\ f[j + 1] \in Seq(Nat)
    OBVIOUS
  <2>2. j + 1 \in 1..b /\ j + 1 \in 1..b - 1 /\ (j + 1) - 1 = j /\ j < b
    BY <1>2, <2>1
  <2>3. f[j] = g[j] /\ f[j] \in Seq(Nat)
    BY <1>6, <2>2
  <2>4. f[j + 1] = EscapedBy(f[j], r[j + 1]) /\ g[j + 1] = EscapedBy(f[j], r[j + 1]) /\ r[j + 1] \in Nat
    BY <1>4, <2>2, <2>3
  <2>5. EscapedBy(f[j], r[j + 1]) \in Seq(Nat)
    BY <2>3, <2>4, EscapedByIs
  <2> QED
    BY <2>4, <2>5
<1>7. \A j \in 0..b - 1 : f[j] = g[j] /\ f[j] \in Seq(Nat)
  <2> HIDE DEF T
  <2>1. \A j \in Nat : j \in T
    BY <1>5, <1>6, AllNumbers
  <2> TAKE j \in 0..b - 1
  <2>2. j \in T /\ j < b
    BY <1>2, <2>1
  <2> QED
    BY <2>2 DEF T
<1>8. Len(f[b]) = Len(g[b])
  <2> DEFINE e == f[b - 1]
  <2>1. b - 1 \in 0..b - 1 /\ b \in 1..b
    BY <1>2
  <2>2. e \in Seq(Nat) /\ f[b] = EscapedBy(e, r[b]) /\ g[b] = EscapedBy(e, t[b]) /\ r[b] \in Nat /\ t[b] \in Nat
    BY <1>4, <1>7, <2>1
  <2> HIDE DEF e
  <2>3. /\ Len(EscapedBy(e, r[b])) = Len(e) + (IF Zeros(e, Len(e)) THEN 2 ELSE 1)
        /\ Len(EscapedBy(e, t[b])) = Len(e) + (IF Zeros(e, Len(e)) THEN 2 ELSE 1)
    BY <2>2, EscapedByIs
  <2> QED
    BY <2>2, <2>3
<1>9. ASSUME NEW j \in 0..b PROVE Len(f[j]) = Len(g[j])
  <2>1. j = b \/ j \in 0..b - 1
    BY <1>2
  <2> QED
    BY <1>7, <1>8, <2>1
<1> QED
  BY <1>9 DEF RawAt, f, g

\* The bytes of r are apart in x, and between them emulation prevention bytes only: those are the
\* threes behind two zeros, and nothing else follows two zeros.
LEMMA EscapedPlaces ==
    ASSUME NEW r \in Seq(Nat), NEW at, NEW x, EscapesTo(r, at, x)
    PROVE  /\ \A i, j \in 0..Len(r) : i < j => at[i] < at[j]
           /\ \A j \in 1..Len(r) : at[j] \in 1..Len(x)
           /\ \A p \in 1..Len(x) : Zeros(x, p - 1) => x[p] = 3
           /\ \A p \in 1..Len(x) : (\E j \in 1..Len(r) : p = at[j]) <=> ~(x[p] = 3 /\ Zeros(x, p - 1))
<1> DEFINE n == Len(r)
<1>1. /\ n \in Nat /\ at \in [0..n -> Nat] /\ at[0] = 0 /\ at[n] = Len(x) /\ x \in Seq(Nat) /\ Len(x) \in Nat
      /\ \A j \in 1..n : at[j] = at[j - 1] + (IF Zeros(x, at[j - 1]) THEN 2 ELSE 1)
      /\ \A j \in 1..n : Zeros(x, at[j - 1]) => x[at[j - 1] + 1] = 3
  BY DEF EscapesTo
<1> HIDE DEF n
<1>2. ASSUME NEW j \in 1..n
      PROVE  /\ at[j - 1] \in Nat /\ at[j] \in Nat /\ j - 1 \in 0..n /\ j \in 0..n
             /\ at[j] = at[j - 1] + (IF Zeros(x, at[j - 1]) THEN 2 ELSE 1)
             /\ at[j - 1] < at[j]
  <2>1. j - 1 \in 0..n /\ j \in 0..n
    BY <1>1
  <2>2. at[j - 1] \in Nat /\ at[j] \in Nat
    BY <1>1, <2>1
  <2> DEFINE a == at[j - 1]
             b == at[j]
  <2>3. b = a + (IF Zeros(x, a) THEN 2 ELSE 1)
    BY <1>1
  <2>4. a < b
    <3>1. a \in Nat
      BY <2>2
    <3> HIDE DEF a, b
    <3> QED
      BY <2>3, <3>1
  <2> QED
    BY <2>1, <2>2, <2>3, <2>4
<1>3. \A i, j \in 0..n : i <= j => at[i] <= at[j]
  <2>1. ASSUME NEW i \in 1..n PROVE at[i - 1] <= at[i]
    BY <1>2
  <2> QED
    BY <1>1, <2>1, Ascends
<1>4. ASSUME NEW i \in 0..n, NEW j \in 0..n, i < j PROVE at[i] < at[j]
  <2>1. j \in 1..n /\ j - 1 \in 0..n /\ i <= j - 1
    BY <1>1, <1>4
  <2>2. at[i] <= at[j - 1] /\ at[j - 1] < at[j]
    BY <1>2, <1>3, <2>1
  <2>3. at[i] \in Nat /\ at[j - 1] \in Nat /\ at[j] \in Nat
    BY <1>1, <2>1
  <2> QED
    BY <2>2, <2>3
<1>5. ASSUME NEW j \in 1..n PROVE at[j] \in 1..Len(x)
  <2>1. 0 \in 0..n /\ j \in 0..n /\ n \in 0..n /\ 0 < j /\ j <= n
    BY <1>1
  <2>2. at[0] < at[j] /\ at[j] <= at[n] /\ at[j] \in Nat
    BY <1>2, <1>3, <1>4, <2>1
  <2> QED
    BY <1>1, <2>2
<1>6. ASSUME NEW p \in 1..Len(x)
      PROVE  \E j \in 1..n : p = at[j] \/ (Zeros(x, at[j - 1]) /\ p = at[j - 1] + 1 /\ p < at[j])
  <2>1. PICK j \in 1..n : at[j - 1] < p /\ p <= at[j]
    BY <1>1, Covers
  <2> DEFINE a == at[j - 1]
             b == at[j]
  <2>2. a \in Nat /\ b = a + (IF Zeros(x, a) THEN 2 ELSE 1) /\ a < p /\ p <= b /\ b \in Nat
    BY <1>2, <2>1
  <2>3. p = b \/ (Zeros(x, a) /\ p = a + 1 /\ p < b)
    <3> HIDE DEF a, b
    <3> QED
      BY <2>2
  <2> QED
    BY <2>3
<1>7. ASSUME NEW j \in 1..n, Zeros(x, at[j] - 1) PROVE FALSE
  <2> DEFINE a == at[j - 1]
             b == at[j]
  <2>1. a \in Nat /\ b = a + (IF Zeros(x, a) THEN 2 ELSE 1) /\ (Zeros(x, a) => x[a + 1] = 3)
    BY <1>1, <1>2
  <2>2. Zeros(x, b - 1)
    BY <1>7
  <2> HIDE DEF a, b
  <2>3. CASE Zeros(x, a)
    <3>1. b - 1 = a + 1 /\ x[b - 1] = 3
      BY <2>1, <2>3
    <3> QED
      BY <2>2, <3>1 DEF Zeros
  <2>4. CASE ~Zeros(x, a)
    BY <2>1, <2>2, <2>4
  <2> QED
    BY <2>3, <2>4
<1>8. ASSUME NEW p \in 1..Len(x), ~\E j \in 1..n : p = at[j]
      PROVE  x[p] = 3 /\ Zeros(x, p - 1)
  <2>1. PICK j \in 1..n : Zeros(x, at[j - 1]) /\ p = at[j - 1] + 1
    BY <1>6, <1>8
  <2>2. p - 1 = at[j - 1]
    BY <1>2, <2>1
  <2> QED
    BY <1>1, <2>1, <2>2
<1>9. ASSUME NEW p \in 1..Len(x), Zeros(x, p - 1) PROVE x[p] = 3
  <2>1. ~\E j \in 1..n : p = at[j]
    BY <1>7, <1>9
  <2> QED
    BY <1>8, <2>1
<1>10. ASSUME NEW p \in 1..Len(x)
       PROVE  (\E j \in 1..n : p = at[j]) <=> ~(x[p] = 3 /\ Zeros(x, p - 1))
  BY <1>7, <1>8
<1> QED
  BY <1>4, <1>5, <1>9, <1>10 DEF n

\* Where the encryption of an RBSP begins.
LEMMA BoundaryIs ==
    ASSUME NEW r \in Seq(Nat)
    PROVE  /\ Boundary(r) \in 0..Len(r)
           /\ Boundary(r) # 0 => /\ r[1] = 1 /\ RawAt(r, Boundary(r)) > PayloadOff
                                 /\ \A k \in 1..Len(r) : RawAt(r, k) > PayloadOff => Boundary(r) <= k
           /\ Boundary(r) = 0 => r[1] # 1 \/ \A k \in 1..Len(r) : ~(RawAt(r, k) > PayloadOff)
<1> DEFINE past == {j \in DOMAIN r : RawAt(r, j) > PayloadOff}
           b == CHOOSE j \in past : \A k \in past : j <= k
<1>1. DOMAIN r = 1..Len(r) /\ Len(r) \in Nat
  OBVIOUS
<1>2. Boundary(r) = IF r[1] # 1 \/ past = {} THEN 0 ELSE b
  BY DEF Boundary
<1>3. past \in SUBSET Nat
  BY <1>1
<1>4. ASSUME past # {} PROVE b \in past /\ \A k \in past : b <= k
  <2> HIDE DEF past
  <2>1. \E j \in past : \A k \in past : j <= k
    BY <1>3, <1>4, LeastOf
  <2> QED
    BY <2>1
<1> HIDE DEF b
<1>5. CASE r[1] # 1 \/ past = {}
  BY <1>1, <1>2, <1>5
<1>6. CASE ~(r[1] # 1 \/ past = {})
  <2>1. Boundary(r) = b /\ r[1] = 1 /\ b \in past /\ \A k \in past : b <= k
    BY <1>2, <1>4, <1>6
  <2>2. b \in 1..Len(r)
    BY <1>1, <2>1
  <2> QED
    BY <1>1, <2>1, <2>2
<1> QED
  BY <1>5, <1>6

\* What the camera makes of an RBSP.
LEMMA EncryptedIs ==
    ASSUME NEW r \in Seq(Bytes), IvLen \in Nat, IvLen >= 1
    PROVE  LET b == Boundary(r)
           IN /\ Encrypted(r) \in Seq(Nat) /\ Len(Encrypted(r)) = Len(r)
              /\ b <= IvLen => Encrypted(r) = r
              /\ b > IvLen => /\ \A j \in 1..b - 1 : Encrypted(r)[j] = r[j]
                              /\ \A j \in b..Len(r) :
                                    Encrypted(r)[j] = Xor(r[j], Keystream(SubSeq(r, b - IvLen, b - 1), j - b + 1))
<1> DEFINE b == Boundary(r)
           n == Len(r)
           iv == SubSeq(r, b - IvLen, b - 1)
           u == SubSeq(r, 1, b - 1)
           w == SubSeq(r, b, n)
           v == Chacha(iv, w)
           s == u \o v
<1>1. r \in Seq(Nat) /\ n \in Nat
  BY BytesAreNumbers
<1>2. b \in 0..n
  BY <1>1, BoundaryIs
<1>3. Encrypted(r) = IF b <= IvLen THEN r ELSE s
  BY DEF Encrypted
<1>4. CASE b <= IvLen
  <2>1. Encrypted(r) = r /\ ~(b > IvLen)
    BY <1>2, <1>3, <1>4
  <2> HIDE DEF b
  <2> QED
    BY <1>1, <2>1, <1>4 DEF b
<1>5. CASE ~(b <= IvLen)
  <2>1. b \in 1..n /\ b \in Nat
    BY <1>1, <1>2, <1>5
  <2> HIDE DEF b, n
  <2>2. u \in Seq(Nat) /\ Len(u) = b - 1 /\ \A j \in 1..b - 1 : u[j] = r[j]
    <3>1. 0 \in Nat /\ 0 <= b - 1 /\ b - 1 <= Len(r) /\ (b - 1) - 0 = b - 1 /\ 0 + 1 = 1 /\ b - 1 \in Nat
      BY <1>1, <2>1 DEF n
    <3> DEFINE m == b - 1
    <3> HIDE DEF m
    <3>2. m \in Nat /\ 0 <= m /\ m <= Len(r)
      BY <3>1 DEF m
    <3>3. /\ SubSeq(r, 0 + 1, m) \in Seq(Nat) /\ Len(SubSeq(r, 0 + 1, m)) = m - 0
          /\ \A j \in 1..m - 0 : SubSeq(r, 0 + 1, m)[j] = r[0 + j]
      BY <1>1, <3>2, SubSeqIs
    <3>4. m - 0 = m /\ \A j \in 1..m : 0 + j = j
      BY <3>2
    <3>5. /\ SubSeq(r, 1, m) \in Seq(Nat) /\ Len(SubSeq(r, 1, m)) = m
          /\ \A j \in 1..m : SubSeq(r, 1, m)[j] = r[j]
      BY <3>1, <3>3, <3>4
    <3> QED
      BY <3>5 DEF m
  <2>3. w \in Seq(Nat) /\ Len(w) = n - (b - 1) /\ \A j \in 1..n - (b - 1) : w[j] = r[(b - 1) + j]
    <3> DEFINE m == b - 1
    <3>1. m \in Nat /\ m <= n /\ n <= Len(r) /\ m + 1 = b /\ n \in Nat
      BY <1>1, <2>1 DEF n
    <3> HIDE DEF m
    <3>2. /\ SubSeq(r, m + 1, n) \in Seq(Nat) /\ Len(SubSeq(r, m + 1, n)) = n - m
          /\ \A j \in 1..n - m : SubSeq(r, m + 1, n)[j] = r[m + j]
      BY <1>1, <3>1, SubSeqIs
    <3>3. w = SubSeq(r, m + 1, n)
      BY <3>1
    <3> HIDE DEF w
    <3> QED
      BY <3>2, <3>3 DEF m
  <2> HIDE DEF u, w, iv
  <2>4. v \in Seq(Nat) /\ Len(v) = Len(w) /\ \A k \in 1..Len(w) : v[k] = Xor(w[k], Keystream(iv, k))
    <3>1. v = [k \in 1..Len(w) |-> Xor(w[k], Keystream(iv, k))] /\ Len(w) \in Nat
      BY <2>3 DEF Chacha
    <3>2. \A k \in 1..Len(w) : v[k] = Xor(w[k], Keystream(iv, k)) /\ v[k] \in Nat
      <4> TAKE k \in 1..Len(w)
      <4>1. v[k] = Xor(w[k], Keystream(iv, k))
        BY <3>1
      <4>2. Xor(w[k], Keystream(iv, k)) \in Bytes
        BY XorIs
      <4> HIDE DEF v
      <4> QED
        BY <4>1, <4>2 DEF Bytes
    <3>3. v = [k \in 1..Len(w) |-> v[k]]
      BY <3>1
    <3> HIDE DEF v
    <3>4. v \in Seq(Nat) /\ Len(v) = Len(w)
      BY ONLY <3>1, <3>2, <3>3, IsSequence
    <3> QED
      BY <3>2, <3>4
  <2> HIDE DEF v
  <2>5. u \in Seq(Nat) /\ v \in Seq(Nat) /\ s = u \o v
    BY <2>2, <2>4
  <2> HIDE DEF s
  <2>6. /\ s \in Seq(Nat) /\ Len(s) = Len(u) + Len(v)
        /\ \A k \in 1..Len(u) : s[k] = u[k]
        /\ \A k \in 1..Len(v) : s[Len(u) + k] = v[k]
    BY ONLY <2>5, ConcatIs
  <2>7. Len(s) = n
    BY <1>1, <2>1, <2>2, <2>3, <2>4, <2>6
  <2>8. \A j \in 1..b - 1 : s[j] = r[j]
    BY <2>2, <2>6
  <2>9. ASSUME NEW j \in b..n PROVE s[j] = Xor(r[j], Keystream(iv, j - b + 1))
    <3> DEFINE k == j - b + 1
    <3>1. k \in 1..Len(v) /\ Len(u) + k = j /\ k \in 1..n - (b - 1) /\ (b - 1) + k = j /\ k \in 1..Len(w)
      BY <1>1, <2>1, <2>2, <2>3, <2>4
    <3> HIDE DEF k
    <3>2. s[j] = v[k] /\ v[k] = Xor(w[k], Keystream(iv, k)) /\ w[k] = r[j]
      BY <2>3, <2>4, <2>6, <3>1
    <3> QED
      BY <3>2 DEF k
  <2>10. Encrypted(r) = s
    BY <1>3, <1>5
  <2> QED
    BY <1>5, <2>6, <2>7, <2>8, <2>9, <2>10 DEF b, n, iv
<1> QED
  BY <1>4, <1>5

\* N NAL units x[i], each behind a start code of code[i] bytes; unit i ends at ends[i].
UnitsLie(x, code, N, ends, data) ==
    /\ N \in Nat /\ ends \in [0..N -> Nat] /\ ends[0] = 0 /\ data \in Seq(Nat) /\ Len(data) = ends[N]
    /\ \A i \in 1..N : code[i] \in {3, 4} /\ x[i] \in Seq(Nat) /\ Len(x[i]) >= 1
    /\ \A i \in 1..N : ends[i] = ends[i - 1] + (code[i] + Len(x[i]))
    /\ \A i \in 1..N : /\ \A k \in 1..code[i] - 1 : data[ends[i - 1] + k] = 0
                       /\ data[ends[i - 1] + code[i]] = 1
                       /\ \A k \in 1..Len(x[i]) : data[ends[i - 1] + (code[i] + k)] = x[i][k]
    /\ \A i \in 1..N : \A p \in 1..Len(x[i]) : Zeros(x[i], p - 1) => x[i][p] = 3

\* The start code that decrypt_annexb finds of unit i.
CodeOf(code, ends, i) == ends[i - 1] + (code[i] - 2)

LEMMA UnitIs ==
    ASSUME NEW x, NEW code, NEW N, NEW ends, NEW data, UnitsLie(x, code, N, ends, data), NEW i \in 1..N
    PROVE  /\ N \in Nat /\ i - 1 \in 0..N /\ i \in 0..N
           /\ ends[i - 1] \in Nat /\ ends[i] \in Nat /\ Len(x[i]) \in Nat /\ Len(x[i]) >= 1
           /\ code[i] \in {3, 4} /\ ends[i] = ends[i - 1] + (code[i] + Len(x[i]))
           /\ CodeOf(code, ends, i) \in Nat /\ ends[i - 1] < CodeOf(code, ends, i)
           /\ CodeOf(code, ends, i) + 2 < ends[i] /\ CodeOf(code, ends, i) + 2 = ends[i - 1] + code[i]
           /\ ends[i] <= Len(data) /\ ends[i - 1] < ends[i]
<1>1. N \in Nat /\ i - 1 \in 0..N /\ i \in 0..N /\ N \in 0..N /\ i <= N
  BY DEF UnitsLie
<1>2. ends \in [0..N -> Nat] /\ Len(data) = ends[N]
  BY DEF UnitsLie
<1>3. \A j \in 1..N : /\ ends[j - 1] \in Nat /\ ends[j] \in Nat /\ Len(x[j]) \in Nat /\ Len(x[j]) >= 1
                      /\ code[j] \in {3, 4} /\ ends[j] = ends[j - 1] + (code[j] + Len(x[j]))
  <2> TAKE j \in 1..N
  <2>1. j - 1 \in 0..N /\ j \in 0..N
    BY <1>1
  <2>2. ends[j - 1] \in Nat /\ ends[j] \in Nat
    BY <1>2, <2>1
  <2>3. x[j] \in Seq(Nat) /\ Len(x[j]) >= 1 /\ code[j] \in {3, 4} /\ ends[j] = ends[j - 1] + (code[j] + Len(x[j]))
    BY DEF UnitsLie
  <2>4. Len(x[j]) \in Nat
    BY <2>3
  <2> QED
    BY <2>2, <2>3, <2>4
<1>4. \A j \in 1..N : ends[j - 1] < ends[j]
  <2> TAKE j \in 1..N
  <2> DEFINE a == ends[j - 1]
             b == ends[j]
             l == Len(x[j])
             d == code[j]
  <2>1. a \in Nat /\ b \in Nat /\ l \in Nat /\ d \in {3, 4} /\ b = a + (d + l)
    BY <1>3
  <2> HIDE DEF a, b, l, d
  <2>2. a < b
    BY <2>1
  <2> QED
    BY <2>2 DEF a, b
<1>5. ends[i] <= ends[N]
  <2>1. \A j \in 1..N : ends[j - 1] <= ends[j]
    BY <1>3, <1>4
  <2>2. \A j, k \in 0..N : j <= k => ends[j] <= ends[k]
    BY <1>1, <1>2, <2>1, Ascends
  <2> QED
    BY <1>1, <2>2
<1>6. /\ CodeOf(code, ends, i) \in Nat /\ ends[i - 1] < CodeOf(code, ends, i)
      /\ CodeOf(code, ends, i) + 2 < ends[i] /\ CodeOf(code, ends, i) + 2 = ends[i - 1] + code[i]
  <2> DEFINE a == ends[i - 1]
             b == ends[i]
             l == Len(x[i])
             d == code[i]
             s == CodeOf(code, ends, i)
  <2>1. a \in Nat /\ b \in Nat /\ l \in Nat /\ l >= 1 /\ d \in {3, 4} /\ b = a + (d + l) /\ s = a + (d - 2)
    BY <1>3 DEF CodeOf
  <2> HIDE DEF a, b, l, d, s
  <2>2. s \in Nat /\ a < s /\ s + 2 < b /\ s + 2 = a + d
    BY <2>1
  <2> QED
    BY <2>2 DEF a, b, d, s
<1> QED
  BY <1>1, <1>2, <1>3, <1>4, <1>5, <1>6

\* Units come one after the other.
LEMMA UnitsAscend ==
    ASSUME NEW x, NEW code, NEW N, NEW ends, NEW data, UnitsLie(x, code, N, ends, data),
           NEW i \in 1..N, NEW j \in 1..N, i < j
    PROVE  ends[i] <= ends[j - 1] /\ ends[i] < CodeOf(code, ends, j)
<1>1. N \in Nat /\ ends \in [0..N -> Nat]
  BY DEF UnitsLie
<1>2. \A k \in 1..N : ends[k - 1] <= ends[k]
  <2> TAKE k \in 1..N
  <2>1. ends[k - 1] < ends[k] /\ ends[k - 1] \in Nat /\ ends[k] \in Nat
    BY UnitIs
  <2> QED
    BY <2>1
<1>3. \A k, l \in 0..N : k <= l => ends[k] <= ends[l]
  BY <1>1, <1>2, Ascends
<1>4. i \in 0..N /\ j - 1 \in 0..N /\ i <= j - 1
  BY <1>1
<1>5. ends[i] <= ends[j - 1]
  BY <1>3, <1>4
<1>6. ends[j - 1] < CodeOf(code, ends, j) /\ ends[j - 1] \in Nat /\ CodeOf(code, ends, j) \in Nat /\ ends[i] \in Nat
  BY UnitIs
<1> QED
  BY <1>5, <1>6

\* decrypt_annexb finds the start codes of the units, and no others.
LEMMA StartsAre ==
    ASSUME NEW x, NEW code, NEW N, NEW ends, NEW data, UnitsLie(x, code, N, ends, data)
    PROVE  /\ \A i \in 1..N : CodeOf(code, ends, i) \in Starts(data)
           /\ \A s \in Starts(data) : \E i \in 1..N : s = CodeOf(code, ends, i)
<1>1. N \in Nat /\ ends \in [0..N -> Nat] /\ ends[0] = 0 /\ Len(data) = ends[N] /\ Len(data) \in Nat
  BY DEF UnitsLie
<1>2. ASSUME NEW i \in 1..N
      PROVE  /\ \A k \in 1..code[i] - 1 : data[ends[i - 1] + k] = 0
             /\ data[ends[i - 1] + code[i]] = 1
             /\ \A k \in 1..Len(x[i]) : data[ends[i - 1] + (code[i] + k)] = x[i][k]
             /\ \A p \in 1..Len(x[i]) : Zeros(x[i], p - 1) => x[i][p] = 3
  BY DEF UnitsLie
<1>3. ASSUME NEW i \in 1..N
      PROVE  /\ ends[i - 1] \in Nat /\ ends[i] \in Nat /\ Len(x[i]) \in Nat /\ Len(x[i]) >= 1
             /\ code[i] \in {3, 4} /\ ends[i] = ends[i - 1] + (code[i] + Len(x[i]))
             /\ CodeOf(code, ends, i) \in Nat /\ CodeOf(code, ends, i) + 2 = ends[i - 1] + code[i]
             /\ CodeOf(code, ends, i) + 2 < ends[i] /\ ends[i] <= Len(data)
             /\ ends[i - 1] < CodeOf(code, ends, i)
  BY UnitIs
<1>4. ASSUME NEW i \in 1..N PROVE CodeOf(code, ends, i) \in Starts(data)
  <2> DEFINE s == CodeOf(code, ends, i)
             a == ends[i - 1]
             d == code[i]
  <2>1. s \in Nat /\ a \in Nat /\ a < s /\ s + 2 = a + d /\ d \in {3, 4} /\ s + 2 <= Len(data)
    BY <1>1, <1>3
  <2>2. /\ \A k \in 1..d - 1 : data[a + k] = 0
        /\ data[a + d] = 1
    BY <1>2
  <2> HIDE DEF s, a, d
  <2>3. s \in 1..Len(data) - 2 /\ s = a + (d - 2) /\ s + 1 = a + (d - 1) /\ d - 2 \in 1..d - 1 /\ d - 1 \in 1..d - 1
    BY <1>1, <2>1
  <2>4. data[s] = 0 /\ data[s + 1] = 0 /\ data[s + 2] = 1
    BY <2>1, <2>2, <2>3
  <2> QED
    BY <2>3, <2>4 DEF Starts, s
<1>5. ASSUME NEW s \in Starts(data) PROVE \E i \in 1..N : s = CodeOf(code, ends, i)
  <2>1. s \in 1..Len(data) - 2 /\ data[s] = 0 /\ data[s + 1] = 0 /\ data[s + 2] = 1
    BY DEF Starts
  <2>2. s \in 1..ends[N] /\ s + 2 <= ends[N] /\ s \in Nat
    BY <1>1, <2>1
  <2>3. PICK i \in 1..N : ends[i - 1] < s /\ s <= ends[i]
    BY <1>1, <2>2, Covers
  <2> DEFINE a == ends[i - 1]
             b == ends[i]
             d == code[i]
             u == x[i]
             l == Len(u)
             q == s - a
  <2>4. /\ a \in Nat /\ b \in Nat /\ l \in Nat /\ l >= 1 /\ d \in {3, 4} /\ b = a + (d + l)
        /\ a < s /\ s <= b
    BY <1>3, <2>3
  <2>5. /\ \A k \in 1..d - 1 : data[a + k] = 0
        /\ data[a + d] = 1
        /\ \A k \in 1..l : data[a + (d + k)] = u[k]
        /\ \A p \in 1..l : Zeros(u, p - 1) => u[p] = 3
    BY <1>2
  <2>6. ASSUME b < s + 2 PROVE data[b + 1] = 0 /\ data[b + 2] = 0
    <3>1. i # N
      BY <2>2, <2>4, <2>6
    <3>2. i + 1 \in 1..N /\ (i + 1) - 1 = i
      BY <1>1, <3>1
    <3>3. code[i + 1] \in {3, 4} /\ \A k \in 1..code[i + 1] - 1 : data[ends[i] + k] = 0
      BY <1>2, <1>3, <3>2
    <3>4. 1 \in 1..code[i + 1] - 1 /\ 2 \in 1..code[i + 1] - 1
      BY <3>3
    <3> QED
      BY <3>3, <3>4
  <2> HIDE DEF a, b, d, u, l
  <2>7. q \in 1..d + l /\ s = a + q /\ s + 1 = a + (q + 1) /\ s + 2 = a + (q + 2)
    BY <2>2, <2>4
  <2> HIDE DEF q
  <2>8. ~(q < d - 2)
    <3>1. SUFFICES ASSUME q < d - 2 PROVE FALSE
      OBVIOUS
    <3>2. q + 2 \in 1..d - 1
      BY <2>4, <2>7, <3>1
    <3> QED
      BY <2>1, <2>5, <2>7, <3>2
  <2>9. q # d - 1
    <3>1. SUFFICES ASSUME q = d - 1 PROVE FALSE
      OBVIOUS
    <3>2. q + 1 = d
      BY <2>4, <3>1
    <3> QED
      BY <2>1, <2>5, <2>7, <3>2
  <2>10. q # d
    BY <2>1, <2>5, <2>7
  <2>11. ~(q > d)
    <3>1. SUFFICES ASSUME q > d PROVE FALSE
      OBVIOUS
    <3> DEFINE p == q - d
    <3>2. p \in 1..l /\ q = d + p /\ q + 1 = d + (p + 1) /\ q + 2 = d + (p + 2) /\ p \in Nat
      BY <2>4, <2>7, <3>1
    <3> HIDE DEF p
    <3>3. CASE p + 2 <= l
      <4>1. p + 1 \in 1..l /\ p + 2 \in 1..l /\ (p + 2) - 1 = p + 1 /\ p + 1 > 1 /\ (p + 1) - 1 = p
        BY <2>4, <3>2, <3>3
      <4>2. u[p] = 0 /\ u[p + 1] = 0 /\ u[p + 2] = 1
        BY <2>1, <2>5, <2>7, <3>2, <4>1
      <4>3. Zeros(u, p + 1)
        BY <4>1, <4>2 DEF Zeros
      <4>4. u[p + 2] = 3
        BY <2>5, <4>1, <4>3
      <4> QED
        BY <4>2, <4>4
    <3>4. CASE p + 1 = l
      <4>1. s + 2 = b + 1 /\ b < s + 2
        BY <2>4, <2>7, <3>2, <3>4
      <4> QED
        BY <2>1, <2>6, <4>1
    <3>5. CASE p = l
      <4>1. s = b /\ s + 2 = b + 2 /\ b < s + 2
        BY <2>4, <2>7, <3>2, <3>5
      <4> QED
        BY <2>1, <2>6, <4>1
    <3> QED
      BY <2>4, <3>2, <3>3, <3>4, <3>5
  <2>12. q = d - 2
    BY <2>4, <2>7, <2>8, <2>9, <2>10, <2>11
  <2>13. s = CodeOf(code, ends, i)
    BY <2>7, <2>12 DEF CodeOf, a, d
  <2> QED
    BY <2>13
<1> QED
  BY <1>4, <1>5

\* A unit's last byte is taken for the next start code's when it is a zero, and that code has
\* no fourth byte.
DropsLast(x, code, N, i) ==
    Len(x[i]) > 1 /\ x[i][Len(x[i])] = 0 /\ (i = N \/ code[i + 1] = 3)

LEMMA NalLastIs ==
    ASSUME NEW x, NEW code, NEW N, NEW ends, NEW data, UnitsLie(x, code, N, ends, data), NEW i \in 1..N
    PROVE  NalLast(data, CodeOf(code, ends, i)) =
               IF DropsLast(x, code, N, i) THEN ends[i] - 1 ELSE ends[i]
<1> DEFINE s == CodeOf(code, ends, i)
           later == {t \in Starts(data) : t > s}
           first == CHOOSE t \in later : \A u \in later : t <= u
           last == IF later = {} THEN Len(data) ELSE first - 1
           a == ends[i - 1]
           b == ends[i]
           d == code[i]
           l == Len(x[i])
<1>1. /\ N \in Nat /\ a \in Nat /\ b \in Nat /\ l \in Nat /\ l >= 1 /\ d \in {3, 4} /\ b = a + (d + l)
      /\ s \in Nat /\ s + 2 = a + d
  BY UnitIs
<1>2. NalLast(data, s) = IF last > s + 3 /\ data[last] = 0 THEN last - 1 ELSE last
  BY DEF NalLast
<1>3. data[b] = x[i][l]
  <2>1. l \in 1..l /\ b = a + (d + l)
    BY <1>1
  <2>2. \A k \in 1..l : data[a + (d + k)] = x[i][k]
    BY DEF UnitsLie
  <2> QED
    BY <2>1, <2>2
<1>4. ASSUME NEW t \in later PROVE \E j \in 1..N : i < j /\ t = CodeOf(code, ends, j)
  <2>1. t \in Starts(data) /\ t > s
    OBVIOUS
  <2>2. PICK j \in 1..N : t = CodeOf(code, ends, j)
    BY <2>1, StartsAre
  <2>3. ~(j < i)
    <3>1. SUFFICES ASSUME j < i PROVE FALSE
      OBVIOUS
    <3>2. ends[j] < s /\ t + 2 < ends[j] /\ t \in Nat /\ ends[j] \in Nat
      BY <2>2, <3>1, UnitsAscend, UnitIs
    <3> HIDE DEF s
    <3> QED
      BY <1>1, <2>1, <3>2
  <2>4. j # i
    <3> HIDE DEF s
    <3>1. s = CodeOf(code, ends, i)
      BY DEF s
    <3> QED
      BY <1>1, <2>1, <2>2, <3>1
  <2> QED
    BY <1>1, <2>2, <2>3, <2>4
<1>5. CASE i = N
  <2>1. later = {}
    <3>1. ASSUME NEW t \in later PROVE FALSE
      <4>1. PICK j \in 1..N : i < j
        BY <1>4
      <4> QED
        BY <1>1, <1>5, <4>1
    <3> HIDE DEF later
    <3> QED
      BY <3>1
  <2>2. last = b
    <3>1. Len(data) = ends[N]
      BY DEF UnitsLie
    <3> QED
      BY <2>1, <3>1, <1>5
  <2> HIDE DEF last, s, a, b, d, l
  <2>3. b > s + 3 <=> l > 1
    BY <1>1
  <2>4. NalLast(data, s) = IF l > 1 /\ x[i][l] = 0 THEN b - 1 ELSE b
    BY <1>2, <1>3, <2>2, <2>3
  <2> QED
    BY <1>5, <2>4 DEF DropsLast, s, b, l
<1>6. CASE i # N
  <2> DEFINE e == code[i + 1]
             t == CodeOf(code, ends, i + 1)
  <2>1. i + 1 \in 1..N /\ (i + 1) - 1 = i /\ i < i + 1
    BY <1>1, <1>6
  <2>2. t \in Nat /\ t = b + (e - 2) /\ e \in {3, 4} /\ t \in Starts(data) /\ b < t /\ s < t
    <3>1. t \in Nat /\ e \in {3, 4} /\ b < t /\ s + 2 < b
      BY <2>1, UnitIs
    <3>2. t = b + (e - 2)
      BY <2>1 DEF CodeOf
    <3>3. t \in Starts(data)
      BY <2>1, StartsAre
    <3>4. s < t
      <4> HIDE DEF s, b, t
      <4> QED
        BY <1>1, <3>1
    <3> QED
      BY <3>1, <3>2, <3>3, <3>4
  <2>3. t \in later
    <3> HIDE DEF t, s
    <3> QED
      BY <1>1, <2>2
  <2>4. ASSUME NEW u \in later PROVE t <= u /\ u \in Nat
    <3>1. PICK j \in 1..N : i < j /\ u = CodeOf(code, ends, j)
      BY <1>4
    <3>2. j = i + 1 \/ i + 1 < j
      BY <1>1, <3>1
    <3>3. CASE i + 1 < j
      <4>1. ends[i + 1] < u /\ t + 2 < ends[i + 1] /\ ends[i + 1] \in Nat /\ u \in Nat
        BY <2>1, <3>1, <3>3, UnitsAscend, UnitIs
      <4> HIDE DEF t
      <4> QED
        BY <2>2, <4>1
    <3>4. CASE j = i + 1
      <4>1. u = t
        BY <3>1, <3>4
      <4> HIDE DEF t
      <4> QED
        BY <2>2, <4>1
    <3> QED
      BY <3>2, <3>3, <3>4
  <2>5. first = t
    <3>1. first \in later /\ \A u \in later : first <= u
      <4> HIDE DEF later, t
      <4> QED
        BY <2>3, <2>4
    <3> HIDE DEF first, later, t
    <3>2. t <= first /\ first <= t /\ first \in Nat
      BY <2>3, <2>4, <3>1
    <3> QED
      BY <2>2, <3>2
  <2> HIDE DEF first
  <2>6. last = t - 1
    BY <2>3, <2>5
  <2> HIDE DEF last, later
  <2>7. CASE e = 3
    <3>1. last = b
      <4> HIDE DEF b, t, e
      <4> QED
        BY <1>1, <2>2, <2>6, <2>7
    <3> HIDE DEF s, a, b, d, l
    <3>2. b > s + 3 <=> l > 1
      BY <1>1
    <3>3. NalLast(data, s) = IF l > 1 /\ x[i][l] = 0 THEN b - 1 ELSE b
      BY <1>2, <1>3, <3>1, <3>2
    <3> QED
      BY <2>7, <3>3 DEF DropsLast, s, b, l
  <2>8. CASE e = 4
    <3>1. last = b + 1
      <4> HIDE DEF b, t, e
      <4> QED
        BY <1>1, <2>2, <2>6, <2>8
    <3>2. data[b + 1] = 0
      <4>1. \A k \in 1..e - 1 : data[ends[(i + 1) - 1] + k] = 0
        BY <2>1 DEF UnitsLie
      <4>2. 1 \in 1..e - 1
        BY <2>2
      <4> QED
        BY <2>1, <4>1, <4>2
    <3>3. ~DropsLast(x, code, N, i)
      BY <1>6, <2>8 DEF DropsLast
    <3> HIDE DEF s, a, b, d, l
    <3>4. last > s + 3 /\ last - 1 = b
      BY <1>1, <3>1
    <3>5. NalLast(data, s) = b
      BY <1>2, <3>1, <3>2, <3>4
    <3> QED
      BY <3>3, <3>5 DEF s, b
  <2> QED
    BY <2>2, <2>7, <2>8
<1> QED
  BY <1>5, <1>6

-------------------------------------------------------------------------------
(***************************************************************************)
(* The payload of a unit: its places, its initialisation vector and the    *)
(* number of each byte in the keystream.                                   *)
(***************************************************************************)

\* The places base + at[j] of the bytes lo..hi.
PlacesOf(base, at, lo, hi) == {base + at[j] : j \in lo..hi}

\* There are as many places as bytes.
LEMMA CountOf ==
    ASSUME NEW n \in Nat, NEW at \in [0..n -> Nat], \A i, j \in 0..n : i < j => at[i] < at[j],
           NEW base \in Nat, NEW lo \in 1..n + 1, NEW hi \in 0..n, lo <= hi + 1
    PROVE  /\ IsFiniteSet(PlacesOf(base, at, lo, hi))
           /\ Cardinality(PlacesOf(base, at, lo, hi)) = hi - lo + 1
<1> DEFINE S == PlacesOf(base, at, lo, hi)
           f == [j \in lo..hi |-> base + at[j]]
<1>1. \A j \in lo..hi : j \in 0..n /\ at[j] \in Nat
  <2> TAKE j \in lo..hi
  <2>1. j \in 0..n
    OBVIOUS
  <2> QED
    BY <2>1
<1>2. ASSUME NEW i \in lo..hi, NEW j \in lo..hi, f[i] = f[j] PROVE i = j
  <2>1. at[i] = at[j] /\ at[i] \in Nat
    <3>1. base + at[i] = base + at[j]
      BY <1>2
    <3>2. at[i] \in Nat /\ at[j] \in Nat
      BY <1>1
    <3> QED
      BY <3>1, <3>2
  <2>2. i \in 0..n /\ j \in 0..n
    BY <1>1
  <2>3. ~(i < j) /\ ~(j < i)
    BY <2>1, <2>2
  <2> QED
    BY <2>2, <2>3
<1>3. S = {f[j] : j \in lo..hi}
  BY DEF PlacesOf
<1> HIDE DEF S
<1>4. f \in Bijection(lo..hi, S)
  BY <1>2, <1>3 DEF Bijection, Injection, Surjection, IsInjective
<1>5. ExistsBijection(lo..hi, S)
  BY <1>4 DEF ExistsBijection
<1>6. lo \in Int /\ hi \in Int
  OBVIOUS
<1>7. IsFiniteSet(lo..hi) /\ Cardinality(lo..hi) = (IF lo > hi THEN 0 ELSE hi - lo + 1)
  BY <1>6, FS_Interval
<1>8. Cardinality(lo..hi) = hi - lo + 1
  BY <1>7
<1>9. IsFiniteSet(S) /\ Cardinality(S) = Cardinality(lo..hi)
  BY <1>5, <1>7, FS_Bijection
<1> QED
  BY <1>8, <1>9 DEF S

\* The bytes of the RBSP in a unit, without a last one that is dropped.
LEMMA RbspIs ==
    ASSUME NEW x, NEW code, NEW N, NEW ends, NEW data, UnitsLie(x, code, N, ends, data), NEW i \in 1..N,
           NEW t \in Seq(Nat), NEW at, EscapesTo(t, at, x[i])
    PROVE  LET s == CodeOf(code, ends, i)
           IN Rbsp(data, s + 3, NalLast(data, s)) =
                  PlacesOf(s + 2, at, 1, IF DropsLast(x, code, N, i) THEN Len(t) - 1 ELSE Len(t))
<1> DEFINE s == CodeOf(code, ends, i)
           base == s + 2
           u == x[i]
           l == Len(u)
           n == Len(t)
           m == IF DropsLast(x, code, N, i) THEN n - 1 ELSE n
           last == NalLast(data, s)
           to == IF DropsLast(x, code, N, i) THEN l - 1 ELSE l
<1>1. /\ s \in Nat /\ l \in Nat /\ l >= 1 /\ base = ends[i - 1] + code[i] /\ ends[i - 1] \in Nat
      /\ code[i] \in {3, 4} /\ ends[i] = base + l /\ ends[i] \in Nat
  <2>1. /\ s \in Nat /\ l \in Nat /\ l >= 1 /\ base = ends[i - 1] + code[i] /\ ends[i - 1] \in Nat
        /\ code[i] \in {3, 4} /\ ends[i] = ends[i - 1] + (code[i] + l) /\ ends[i] \in Nat
    BY UnitIs
  <2> DEFINE a == ends[i - 1]
             d == code[i]
             b == ends[i]
  <2>2. base = a + d /\ a \in Nat /\ d \in {3, 4} /\ b = a + (d + l) /\ b \in Nat
    BY <2>1
  <2>3. l \in Nat
    BY <2>1
  <2> HIDE DEF a, b, d, l, base
  <2>4. b = base + l
    BY <2>2, <2>3
  <2> QED
    BY <2>1, <2>4 DEF b, base
<1>2. last = base + to
  <2>1. last = IF DropsLast(x, code, N, i) THEN ends[i] - 1 ELSE ends[i]
    BY NalLastIs
  <2>2. base \in Nat /\ l \in Nat /\ ends[i] = base + l
    BY <1>1
  <2> DEFINE drops == DropsLast(x, code, N, i)
             b == ends[i]
  <2>3. last = (IF drops THEN b - 1 ELSE b) /\ to = (IF drops THEN l - 1 ELSE l) /\ b = base + l
    BY <2>1, <2>2
  <2> HIDE DEF last, base, l, drops, b, to
  <2> QED
    BY <2>2, <2>3
<1>3. ASSUME NEW q \in 1..l PROVE data[base + q] = u[q]
  <2>1. data[ends[i - 1] + (code[i] + q)] = u[q]
    BY DEF UnitsLie
  <2>2. ends[i - 1] + (code[i] + q) = base + q
    <3> DEFINE a == ends[i - 1]
               d == code[i]
    <3>1. base = a + d /\ a \in Nat /\ d \in Nat /\ q \in Nat
      BY <1>1
    <3> HIDE DEF a, d, base, l
    <3>2. a + (d + q) = base + q
      BY <3>1
    <3> QED
      BY <3>2 DEF a, d
  <2> QED
    BY <2>1, <2>2
<1>4. /\ \A j, k \in 0..n : j < k => at[j] < at[k]
      /\ \A j \in 1..n : at[j] \in 1..l
      /\ \A p \in 1..l : (\E j \in 1..n : p = at[j]) <=> ~(u[p] = 3 /\ Zeros(u, p - 1))
  <2>1. t \in Seq(Nat) /\ EscapesTo(t, at, u)
    OBVIOUS
  <2> HIDE DEF u
  <2> QED
    BY <2>1, EscapedPlaces
<1>5. at \in [0..n -> Nat] /\ at[n] = l /\ n \in Nat
  BY DEF EscapesTo
<1> HIDE DEF s, u, l, n, last
<1>6. Rbsp(data, base + 1, last) =
          {p \in base + 1..last : ~(p >= (base + 1) + 2 /\ data[p] = 3 /\ data[p - 1] = 0 /\ data[p - 2] = 0)}
  BY DEF Rbsp
<1> HIDE DEF base, m, to
<1>7. base \in Nat
  BY <1>1 DEF base
<1>8. ASSUME NEW q \in 1..l
      PROVE  ((base + q) >= (base + 1) + 2 /\ data[base + q] = 3 /\ data[(base + q) - 1] = 0 /\ data[(base + q) - 2] = 0)
                 <=> (u[q] = 3 /\ Zeros(u, q - 1))
  <2>0. q \in Nat /\ q >= 1 /\ q <= l /\ l \in Nat /\ base \in Nat
    BY <1>1, <1>7
  <2>1. (base + q) >= (base + 1) + 2 <=> q - 1 > 1
    BY <2>0
  <2>2. q - 1 > 1 => /\ q - 1 \in 1..l /\ q - 2 \in 1..l /\ (base + q) - 1 = base + (q - 1)
                     /\ (base + q) - 2 = base + (q - 2) /\ (q - 1) - 1 = q - 2
    BY <1>1, <1>7
  <2>3. q - 1 > 1 => data[(base + q) - 1] = u[q - 1] /\ data[(base + q) - 2] = u[q - 2]
    BY <1>3, <2>2
  <2> QED
    BY <1>3, <2>1, <2>2, <2>3 DEF Zeros
<1>9. to <= l /\ to \in Nat /\ m \in Nat /\ m <= n
  <2>1. to \in {l, l - 1} /\ to <= l /\ to \in Nat
    BY <1>1 DEF to
  <2>2. n # 0
    BY <1>1, <1>5 DEF EscapesTo, n
  <2> QED
    BY <1>5, <2>1, <2>2 DEF m
<1>10. ASSUME NEW j \in 1..n PROVE j <= m <=> at[j] <= to
  <2>1. j \in 0..n /\ n \in 0..n /\ at[j] \in 1..l
    BY <1>4, <1>5
  <2>2. j < n => at[j] < l
    BY <1>4, <1>5, <2>1
  <2> QED
    BY <1>1, <1>5, <2>1, <2>2 DEF m, to
<1>11. ASSUME NEW p \in Rbsp(data, base + 1, last) PROVE p \in PlacesOf(base, at, 1, m)
  <2> DEFINE q == p - base
  <2>1. p \in base + 1..last /\ ~(p >= (base + 1) + 2 /\ data[p] = 3 /\ data[p - 1] = 0 /\ data[p - 2] = 0)
    BY <1>6
  <2>2. q \in 1..l /\ q <= to /\ p = base + q
    <3>1. p \in Int /\ p >= base + 1 /\ p <= base + to /\ base \in Nat /\ to \in Nat /\ l \in Nat /\ to <= l
      <4>1. p \in base + 1..base + to
        BY <1>2, <2>1
      <4> QED
        BY <1>1, <1>7, <1>9, <4>1
    <3> QED
      BY <3>1
  <2> HIDE DEF q
  <2>3. ~(u[q] = 3 /\ Zeros(u, q - 1))
    BY <1>8, <2>1, <2>2
  <2>4. PICK j \in 1..n : q = at[j]
    BY <1>4, <2>2, <2>3
  <2>5. j \in 1..m
    BY <1>5, <1>9, <1>10, <2>2, <2>4
  <2> QED
    BY <2>2, <2>4, <2>5 DEF PlacesOf
<1>12. ASSUME NEW p \in PlacesOf(base, at, 1, m) PROVE p \in Rbsp(data, base + 1, last)
  <2>1. PICK j \in 1..m : p = base + at[j]
    BY DEF PlacesOf
  <2> DEFINE q == at[j]
  <2>2. j \in 1..n /\ j <= m
    BY <1>5, <1>9
  <2>3. q \in 1..l /\ q <= to /\ p = base + q
    BY <1>4, <1>10, <2>1, <2>2
  <2>4. ~(u[q] = 3 /\ Zeros(u, q - 1))
    BY <1>4, <2>2, <2>3
  <2> HIDE DEF q
  <2>5. p \in base + 1..last
    BY <1>2, <1>7, <1>9, <2>3
  <2>6. ~((base + q) >= (base + 1) + 2 /\ data[base + q] = 3 /\ data[(base + q) - 1] = 0 /\ data[(base + q) - 2] = 0)
    BY <1>8, <2>3, <2>4
  <2> QED
    BY <1>6, <2>3, <2>5, <2>6
<1>13. base + 1 = s + 3
  BY <1>1 DEF base
<1> QED
  <2>1. Rbsp(data, base + 1, last) = PlacesOf(base, at, 1, m)
    BY <1>11, <1>12
  <2> QED
    BY <1>13, <2>1 DEF base, last, m, n, s

\* The order of places is that of the bytes.
LEMMA PlacesOrder ==
    ASSUME NEW n \in Nat, NEW at \in [0..n -> Nat], \A i, j \in 0..n : i < j => at[i] < at[j],
           NEW base \in Nat, NEW i \in 0..n, NEW j \in 0..n
    PROVE  /\ base + at[i] <= base + at[j] <=> i <= j
           /\ base + at[i] = base + at[j] <=> i = j
<1>1. at[i] \in Nat /\ at[j] \in Nat /\ i \in Nat /\ j \in Nat
  OBVIOUS
<1>2. /\ i < j => at[i] < at[j]
      /\ j < i => at[j] < at[i]
      /\ i = j => at[i] = at[j]
  OBVIOUS
<1> DEFINE a == at[i]
           b == at[j]
<1>3. a \in Nat /\ b \in Nat /\ (i < j => a < b) /\ (j < i => b < a) /\ (i = j => a = b)
  BY <1>1, <1>2
<1> HIDE DEF a, b
<1>4. (base + a <= base + b <=> i <= j) /\ (base + a = base + b <=> i = j)
  BY <1>1, <1>3
<1> QED
  BY <1>4 DEF a, b

UpTo(S, p) == {q \in S : q <= p}
From(S, p) == {q \in S : q >= p}

\* The places up to one of them, and from one of them on.
LEMMA PlacesCut ==
    ASSUME NEW n \in Nat, NEW at \in [0..n -> Nat], \A i, j \in 0..n : i < j => at[i] < at[j],
           NEW base \in Nat, NEW lo \in 1..n + 1, NEW hi \in 0..n, NEW j \in lo..hi
    PROVE  /\ UpTo(PlacesOf(base, at, lo, hi), base + at[j]) = PlacesOf(base, at, lo, j)
           /\ From(PlacesOf(base, at, lo, hi), base + at[j]) = PlacesOf(base, at, j, hi)
<1>1. lo \in Nat /\ hi \in Nat /\ j \in Nat /\ j \in 0..n /\ lo >= 1 /\ hi <= n
  OBVIOUS
<1>2. \A i \in lo..hi : i \in 0..n /\ (base + at[i] <= base + at[j] <=> i <= j)
                        /\ (base + at[j] <= base + at[i] <=> j <= i) /\ base + at[i] \in Nat
  <2> TAKE i \in lo..hi
  <2>1. i \in 0..n
    BY <1>1
  <2>2. at[i] \in Nat
    BY <2>1
  <2> QED
    BY <1>1, <2>1, <2>2, PlacesOrder
<1>3. base + at[j] \in Nat
  BY <1>2
<1> DEFINE P(i) == base + at[i]
           c == base + at[j]
<1>4. \A i \in lo..hi : (P(i) <= c <=> i <= j) /\ (P(i) >= c <=> j <= i)
  <2> TAKE i \in lo..hi
  <2>1. P(i) \in Nat /\ c \in Nat /\ (P(i) <= c <=> i <= j) /\ (c <= P(i) <=> j <= i)
    BY <1>2, <1>3
  <2> HIDE DEF P, c
  <2> QED
    BY <2>1
<1>5. \A l, h : PlacesOf(base, at, l, h) = {P(i) : i \in l..h}
  BY DEF PlacesOf
<1> HIDE DEF P, c
<1>6. {q \in {P(i) : i \in lo..hi} : q <= c} = {P(i) : i \in lo..j}
  BY <1>1, <1>4
<1>7. {q \in {P(i) : i \in lo..hi} : q >= c} = {P(i) : i \in j..hi}
  BY <1>1, <1>4
<1> QED
  BY <1>5, <1>6, <1>7 DEF c, UpTo, From

\* The number of an encrypted byte.
LEMMA NumberIs ==
    ASSUME NEW n \in Nat, NEW at \in [0..n -> Nat], \A i, j \in 0..n : i < j => at[i] < at[j],
           NEW base \in Nat, NEW lo \in 1..n + 1, NEW hi \in 0..n, NEW j \in lo..hi
    PROVE  NumberOf(PlacesOf(base, at, lo, hi), base + at[j]) = j - lo + 1
<1>1. j \in 0..n /\ lo <= j + 1
  OBVIOUS
<1>2. Cardinality(PlacesOf(base, at, lo, j)) = j - lo + 1
  BY <1>1, CountOf
<1>3. UpTo(PlacesOf(base, at, lo, hi), base + at[j]) = PlacesOf(base, at, lo, j)
  BY PlacesCut
<1> QED
  BY <1>2, <1>3 DEF NumberOf, UpTo

\* The bytes in clear, from the last one.
LEMMA BeforeEndIs ==
    ASSUME NEW n \in Nat, NEW at \in [0..n -> Nat], \A i, j \in 0..n : i < j => at[i] < at[j],
           NEW base \in Nat, NEW hi \in 0..n, NEW k \in 1..hi
    PROVE  BeforeEnd(PlacesOf(base, at, 1, hi), k) = base + at[hi + 1 - k]
<1> DEFINE clear == PlacesOf(base, at, 1, hi)
           from(p) == Cardinality(From(clear, p))
           i == hi + 1 - k
<1>1. i \in 1..hi /\ hi \in Nat /\ k \in Nat
  OBVIOUS
<1>2. ASSUME NEW h \in 1..hi PROVE from(base + at[h]) = hi - h + 1
  <2>1. h \in 0..n /\ h \in 1..n + 1 /\ h <= hi + 1
    OBVIOUS
  <2>2. From(PlacesOf(base, at, 1, hi), base + at[h]) = PlacesOf(base, at, h, hi)
    <3> HIDE DEF i
    <3> QED
      BY ONLY n \in Nat, at \in [0..n -> Nat], \A g, j \in 0..n : g < j => at[g] < at[j], base \in Nat,
              1 \in 1..n + 1, hi \in 0..n, h \in 1..hi, PlacesCut
  <2>3. Cardinality(PlacesOf(base, at, h, hi)) = hi - h + 1
    BY <2>1, CountOf
  <2> QED
    BY <2>2, <2>3
<1>3. clear = {base + at[h] : h \in 1..hi}
  BY DEF PlacesOf
<1>4. BeforeEnd(clear, k) = CHOOSE p \in clear : from(p) = k
  BY DEF BeforeEnd, From
<1> HIDE DEF clear, from
<1>5. base + at[i] \in clear /\ from(base + at[i]) = k
  <2>1. from(base + at[i]) = hi - i + 1
    BY <1>1, <1>2
  <2>2. hi - i + 1 = k
    BY <1>1
  <2> QED
    BY <1>1, <1>3, <2>1, <2>2
<1>6. ASSUME NEW p \in clear, from(p) = k PROVE p = base + at[i]
  <2>1. PICK h \in 1..hi : p = base + at[h]
    BY <1>3
  <2>2. hi - h + 1 = k
    BY <1>2, <1>6, <2>1
  <2>3. h = i
    BY <1>1, <2>2
  <2> QED
    BY <2>1, <2>3
<1> HIDE DEF i
<1>7. (CHOOSE p \in clear : from(p) = k) = base + at[i]
  BY <1>5, <1>6
<1> QED
  BY <1>4, <1>7 DEF clear, i

\* Where the ciphertext begins in the escaped unit: the encryption does not move the boundary.
LEMMA CodedFrom ==
    ASSUME NEW r \in Seq(Bytes), IvLen \in Nat, IvLen >= 1, NEW at,
           EscapesTo(Encrypted(r), at, Escape(Encrypted(r))),
           \A j \in 0..Len(r) : RawAt(Encrypted(r), j) = at[j],
           NEW k \in 1..Len(r)
    PROVE  /\ Boundary(r) # 0 => (at[k] > PayloadOff <=> k >= Boundary(r))
           /\ Boundary(r) = 0 /\ r[1] = 1 => ~(at[k] > PayloadOff)
<1> DEFINE t == Encrypted(r)
           b == Boundary(r)
           n == Len(r)
<1>1. r \in Seq(Nat) /\ t \in Seq(Nat) /\ Len(t) = n /\ n \in Nat /\ b \in 0..n
  BY BytesAreNumbers, BoundaryIs, EncryptedIs
<1>2. \A j \in 0..b : RawAt(r, j) = at[j]
  <2>1. CASE b <= IvLen
    <3>1. t = r
      BY <2>1, EncryptedIs
    <3>2. \A j \in 0..b : j \in 0..n
      BY <1>1
    <3> QED
      BY <3>1, <3>2
  <2>2. CASE b > IvLen
    <3>1. \A j \in 1..b - 1 : t[j] = r[j]
      BY <2>2, EncryptedIs
    <3>2. b \in 1..n /\ b <= Len(t)
      BY <1>1, <2>2
    <3> HIDE DEF t, b
    <3>3. \A j \in 0..b : RawAt(r, j) = RawAt(t, j)
      BY <1>1, <3>1, <3>2, EscapedAlike
    <3>4. \A j \in 0..b : j \in 0..n
      BY <1>1
    <3> QED
      BY <3>3, <3>4 DEF t
  <2>3. b <= IvLen \/ b > IvLen
    BY <1>1
  <2> QED
    BY <2>1, <2>2, <2>3
<1>3. \A i, j \in 0..n : i < j => at[i] < at[j]
  <2>1. EscapesTo(t, at, Escape(t))
    OBVIOUS
  <2> HIDE DEF t
  <2> QED
    BY <1>1, <2>1, EscapedPlaces
<1>4. \A j \in 0..n : at[j] \in Nat
  BY <1>1 DEF EscapesTo
<1>5. PayloadOff \in Nat
  BY OffsetsAreOffsets
<1>6. CASE b = 0
  <2>1. t = r
    BY <1>6, EncryptedIs
  <2>2. r[1] # 1 \/ ~(RawAt(r, k) > PayloadOff)
    BY <1>1, <1>6, BoundaryIs
  <2>3. RawAt(r, k) = at[k]
    BY <2>1
  <2> QED
    BY <1>6, <2>2, <2>3
<1>7. CASE b # 0
  <2>1. /\ RawAt(r, b) > PayloadOff
        /\ RawAt(r, k) > PayloadOff => b <= k
    BY <1>1, <1>7, BoundaryIs
  <2>2. at[b] > PayloadOff /\ b \in 1..n
    BY <1>1, <1>2, <1>7, <2>1
  <2>3. b <= k => at[k] > PayloadOff
    <3>1. b = k \/ b < k => at[b] <= at[k]
      BY <1>1, <1>3, <1>4, <2>2
    <3>2. at[b] \in Nat /\ at[k] \in Nat
      BY <1>1, <1>4
    <3> QED
      BY <1>1, <1>5, <2>2, <3>1, <3>2
  <2>4. at[k] > PayloadOff => b <= k
    <3>1. k <= b => RawAt(r, k) = at[k]
      BY <1>1, <1>2
    <3> QED
      BY <1>1, <2>1, <3>1
  <2> QED
    BY <1>1, <1>7, <2>3, <2>4
<1> QED
  BY <1>6, <1>7

\* The bytes of a set of positions that are encrypted.
CodedOf(rbsp, first) == {p \in rbsp : p - first >= PayloadOff}
ClearOf(rbsp, coded) == rbsp \ coded
IvOf(r, b) == SubSeq(r, b - IvLen, b - 1)

\* Payload, with its parts named.
LEMMA PayloadParts ==
    ASSUME NEW data, NEW s, NEW first, NEW rbsp, NEW coded, NEW clear, NEW iv,
           first = s + 3, rbsp = Rbsp(data, first, NalLast(data, s)), coded = CodedOf(rbsp, first),
           clear = ClearOf(rbsp, coded), iv = IvIn(data, clear)
    PROVE  Payload(data, s) =
               IF coded = {} \/ data[first] # 1 \/ Cardinality(clear) < IvLen THEN <<>>
               ELSE [p \in coded |-> Xor(data[p], Keystream(iv, NumberOf(coded, p)))]
  BY DEF Payload, CodedOf, ClearOf

\* n bytes are at their places one after the other; byte b is the first one to encrypt; the bytes
\* before it are in data as they are in r.
Rising(at, n) == n \in Nat /\ at \in [0..n -> Nat] /\ \A i, j \in 0..n : i < j => at[i] < at[j]
FirstIs(at, n, b) == \A k \in 1..n : at[k] > PayloadOff <=> k >= b
ClearBefore(data, base, at, r, b) == \A j \in 1..b - 1 : data[base + at[j]] = r[j]

\* Which bytes of a unit are encrypted.
LEMMA CodedIs ==
    ASSUME NEW n, NEW at, NEW base, NEW m, NEW b, Rising(at, n), base \in Nat, m \in 0..n, b \in 1..n,
           b <= m + 1, PayloadOff \in Nat, FirstIs(at, n, b)
    PROVE  /\ CodedOf(PlacesOf(base, at, 1, m), base + 1) = PlacesOf(base, at, b, m)
           /\ ClearOf(PlacesOf(base, at, 1, m), PlacesOf(base, at, b, m)) = PlacesOf(base, at, 1, b - 1)
<1> DEFINE P(i) == base + at[i]
<1>0. /\ n \in Nat /\ at \in [0..n -> Nat] /\ \A i, j \in 0..n : i < j => at[i] < at[j]
      /\ \A k \in 1..n : at[k] > PayloadOff <=> k >= b
  BY DEF Rising, FirstIs
<1>1. \A l, h : PlacesOf(base, at, l, h) = {P(i) : i \in l..h}
  BY DEF PlacesOf
<1>2. \A j \in 1..m : P(j) \in Nat /\ (P(j) - (base + 1) >= PayloadOff <=> j >= b)
  <2> TAKE j \in 1..m
  <2>1. j \in 0..n /\ j \in 1..n
    BY <1>0
  <2> DEFINE a == at[j]
  <2>2. a \in Nat /\ (a > PayloadOff <=> j >= b)
    BY <1>0, <2>1
  <2> HIDE DEF a
  <2>3. base + a \in Nat /\ ((base + a) - (base + 1) >= PayloadOff <=> j >= b)
    BY <1>0, <2>2
  <2> QED
    BY <2>3 DEF a
<1>3. \A i, j \in 1..m : P(i) = P(j) <=> i = j
  <2> TAKE i, j \in 1..m
  <2>1. i \in 0..n /\ j \in 0..n
    BY <1>0
  <2> QED
    BY ONLY <1>0, <2>1, base \in Nat, PlacesOrder
<1> HIDE DEF P
<1>4. CodedOf({P(i) : i \in 1..m}, base + 1) = {P(i) : i \in b..m}
  BY <1>2 DEF CodedOf
<1>5. {P(i) : i \in 1..m} \ {P(i) : i \in b..m} = {P(i) : i \in 1..b - 1}
  <2>1. \A i \in 1..b - 1 : i \in 1..m /\ i \notin b..m
    BY <1>0
  <2>2. \A i \in 1..m : i \notin b..m => i \in 1..b - 1
    BY <1>0
  <2>3. \A i \in b..m : i \in 1..m
    BY <1>0
  <2> QED
    BY <1>3, <2>1, <2>2, <2>3
<1> QED
  BY <1>1, <1>4, <1>5 DEF ClearOf

\* The IV in a unit is the one the camera took.
LEMMA IvIs ==
    ASSUME NEW r, NEW at, NEW base, NEW b, NEW data, r \in Seq(Nat), Rising(at, Len(r)), base \in Nat,
           b \in 1..Len(r), IvLen \in Nat, IvLen >= 1, b > IvLen, ClearBefore(data, base, at, r, b)
    PROVE  IvIn(data, PlacesOf(base, at, 1, b - 1)) = IvOf(r, b)
<1> DEFINE clear == PlacesOf(base, at, 1, b - 1)
           iv == IvIn(data, clear)
           v == SubSeq(r, b - IvLen, b - 1)
           c == b - IvLen - 1
           n == Len(r)
<1>0. /\ at \in [0..n -> Nat] /\ \A i, j \in 0..n : i < j => at[i] < at[j]
      /\ \A j \in 1..b - 1 : data[base + at[j]] = r[j]
  BY DEF Rising, ClearBefore
<1>1. n \in Nat /\ c \in Nat /\ b - 1 \in 0..n /\ b - 1 \in Nat /\ c <= b - 1 /\ b - 1 <= Len(r)
      /\ c + 1 = b - IvLen /\ (b - 1) - c = IvLen
  OBVIOUS
<1>2. Len(v) = IvLen /\ v \in Seq(Nat) /\ \A k \in 1..IvLen : v[k] = r[c + k]
  <2> HIDE DEF c
  <2>1. /\ SubSeq(r, c + 1, b - 1) \in Seq(Nat) /\ Len(SubSeq(r, c + 1, b - 1)) = (b - 1) - c
        /\ \A k \in 1..(b - 1) - c : SubSeq(r, c + 1, b - 1)[k] = r[c + k]
    BY <1>1, SubSeqIs
  <2> QED
    BY <1>1, <2>1
<1>3. iv = [k \in 1..IvLen |-> data[BeforeEnd(clear, IvLen + 1 - k)]]
  BY DEF IvIn
<1>4. ASSUME NEW k \in 1..IvLen PROVE data[BeforeEnd(clear, IvLen + 1 - k)] = r[c + k]
  <2> DEFINE h == b - 1
             g == IvLen + 1 - k
  <2>1. h \in 0..n /\ g \in 1..h /\ h + 1 - g = c + k /\ c + k \in 1..b - 1
    OBVIOUS
  <2> HIDE DEF h, g
  <2>2. BeforeEnd(PlacesOf(base, at, 1, h), g) = base + at[h + 1 - g]
    <3> HIDE DEF n
    <3> QED
      BY ONLY <1>0, <1>1, <2>1, base \in Nat, BeforeEndIs
  <2>3. BeforeEnd(clear, IvLen + 1 - k) = base + at[c + k]
    BY <2>1, <2>2 DEF h, g
  <2> QED
    BY <1>0, <2>1, <2>3
<1> HIDE DEF iv, v, c, clear
<1>5. iv = [k \in 1..IvLen |-> iv[k]] /\ \A k \in 1..IvLen : iv[k] = v[k]
  BY <1>2, <1>3, <1>4
<1>6. v = [k \in 1..IvLen |-> v[k]]
  BY <1>2
<1>7. iv = v
  BY <1>5, <1>6
<1> QED
  BY <1>7 DEF iv, v, clear, IvOf

\* decrypt_annexb's plaintext of one unit: of an encrypted slice's bytes from the boundary on, what
\* they were; of any other unit, nothing.
LEMMA PayloadIs ==
    ASSUME NEW r \in Seq(Bytes), Len(r) >= 1, NEW at, NEW u, u = Escape(Encrypted(r)),
           EscapesTo(Encrypted(r), at, u), \A j \in 0..Len(r) : RawAt(Encrypted(r), j) = at[j],
           NEW data, NEW s \in Nat, NEW m, m = Len(r) \/ m = Len(r) - 1,
           \A q \in 1..Len(u) : data[(s + 2) + q] = u[q],
           Rbsp(data, s + 3, NalLast(data, s)) = PlacesOf(s + 2, at, 1, m)
    PROVE  /\ Boundary(r) <= IvLen => DOMAIN Payload(data, s) = {}
           /\ Boundary(r) > IvLen =>
                 /\ DOMAIN Payload(data, s) = PlacesOf(s + 2, at, Boundary(r), m)
                 /\ \A j \in Boundary(r)..m : Payload(data, s)[(s + 2) + at[j]] = r[j]
<1> DEFINE t == Encrypted(r)
           b == Boundary(r)
           n == Len(r)
           base == s + 2
           first == s + 3
           rbsp == PlacesOf(base, at, 1, m)
           coded == CodedOf(rbsp, first)
           clear == ClearOf(rbsp, coded)
           iv == IvIn(data, clear)
           pay == Payload(data, s)
<1>0. IvLen \in Nat /\ IvLen >= 1 /\ PayloadOff \in Nat
  BY OffsetsAreOffsets
<1>1. r \in Seq(Nat) /\ t \in Seq(Nat) /\ Len(t) = n /\ n \in Nat /\ n >= 1 /\ b \in 0..n
      /\ m \in 0..n /\ b <= m + 1 /\ base \in Nat /\ first = base + 1
  BY <1>0, BytesAreNumbers, BoundaryIs, EncryptedIs
<1>2. /\ at \in [0..n -> Nat] /\ \A i, j \in 0..n : i < j => at[i] < at[j]
      /\ \A j \in 1..n : at[j] \in 1..Len(u) /\ u[at[j]] = t[j]
      /\ at[1] = 1
  <2>1. EscapesTo(t, at, u)
    OBVIOUS
  <2> HIDE DEF t, n
  <2>2. /\ \A i, j \in 0..Len(t) : i < j => at[i] < at[j]
        /\ \A j \in 1..Len(t) : at[j] \in 1..Len(u)
    BY <1>1, <2>1, EscapedPlaces
  <2>3. /\ at \in [0..n -> Nat] /\ \A j \in 1..n : u[at[j]] = t[j]
        /\ at[0] = 0 /\ at[1] = at[1 - 1] + (IF Zeros(u, at[1 - 1]) THEN 2 ELSE 1)
    <3>1. 1 \in 1..n
      BY <1>1
    <3> QED
      BY <1>1, <2>1, <3>1 DEF EscapesTo
  <2>4. ~Zeros(u, at[1 - 1])
    BY <2>3 DEF Zeros
  <2>5. at[1] = 1
    BY <2>3, <2>4
  <2> QED
    BY <1>1, <2>2, <2>3, <2>5
<1>3. \A j \in 1..n : data[base + at[j]] = t[j]
  <2> TAKE j \in 1..n
  <2> DEFINE q == at[j]
  <2>1. q \in 1..Len(u) /\ u[q] = t[j]
    BY <1>2
  <2> HIDE DEF q
  <2>2. data[base + q] = u[q]
    BY <2>1
  <2> QED
    BY <2>1, <2>2 DEF q
<1>4. t[1] = r[1] /\ data[first] = r[1]
  <2>1. t[1] = r[1]
    <3>1. CASE b <= IvLen
      BY <1>0, <3>1, EncryptedIs
    <3>2. CASE b > IvLen
      <4>1. 1 \in 1..b - 1
        BY <1>0, <1>1, <3>2
      <4>2. \A j \in 1..b - 1 : t[j] = r[j]
        BY <1>0, <3>2, EncryptedIs
      <4> QED
        BY <4>1, <4>2
    <3> QED
      BY <1>0, <1>1, <3>1, <3>2
  <2>2. 1 \in 1..n
    BY <1>1
  <2>3. data[base + at[1]] = t[1]
    BY <1>3, <2>2
  <2> QED
    BY <1>1, <1>2, <2>1, <2>3
<1>5. pay = IF coded = {} \/ data[first] # 1 \/ Cardinality(clear) < IvLen THEN <<>>
            ELSE [p \in coded |-> Xor(data[p], Keystream(iv, NumberOf(coded, p)))]
  <2>1. /\ first = s + 3 /\ rbsp = Rbsp(data, first, NalLast(data, s)) /\ coded = CodedOf(rbsp, first)
        /\ clear = ClearOf(rbsp, coded) /\ iv = IvIn(data, clear)
    OBVIOUS
  <2> HIDE DEF first, rbsp, coded, clear, iv
  <2> QED
    BY ONLY <2>1, PayloadParts
<1>6. \A k \in 1..n : /\ b # 0 => (at[k] > PayloadOff <=> k >= b)
                      /\ b = 0 /\ r[1] = 1 => ~(at[k] > PayloadOff)
  BY <1>0, CodedFrom
<1> HIDE DEF t, b, n, base, first, rbsp, coded, clear, iv, pay
<1>7. CASE b = 0
  <2>1. r[1] = 1 => coded = {}
    <3> SUFFICES ASSUME r[1] = 1, NEW p \in coded PROVE FALSE
      OBVIOUS
    <3>1. p \in rbsp /\ p - first >= PayloadOff
      BY DEF coded, CodedOf
    <3>2. PICK j \in 1..m : p = base + at[j]
      BY <3>1 DEF rbsp, PlacesOf
    <3>3. j \in 1..n /\ j \in 0..n
      BY <1>1
    <3> DEFINE a == at[j]
    <3>4. ~(a > PayloadOff) /\ a \in Nat /\ (base + a) - (base + 1) >= PayloadOff
      BY <1>1, <1>2, <1>6, <1>7, <3>1, <3>2, <3>3
    <3> HIDE DEF a
    <3> QED
      BY <1>0, <1>1, <3>4
  <2>2. pay = <<>>
    BY <1>4, <1>5, <2>1
  <2>3. DOMAIN pay = {}
    BY <2>2
  <2> QED
    BY <1>0, <1>7, <2>3 DEF pay, b
<1>8. CASE b # 0
  <2>1. b \in 1..n
    BY <1>1, <1>8
  <2>2. coded = PlacesOf(base, at, b, m) /\ clear = PlacesOf(base, at, 1, b - 1)
    <3>1. \A k \in 1..n : at[k] > PayloadOff <=> k >= b
      BY <1>6, <1>8
    <3> QED
      <4>1. /\ CodedOf(PlacesOf(base, at, 1, m), base + 1) = PlacesOf(base, at, b, m)
            /\ ClearOf(PlacesOf(base, at, 1, m), PlacesOf(base, at, b, m)) = PlacesOf(base, at, 1, b - 1)
        <5>1. Rising(at, n) /\ FirstIs(at, n, b)
          BY <1>1, <1>2, <3>1 DEF Rising, FirstIs
        <5>2. base \in Nat /\ m \in 0..n /\ b \in 1..n /\ b <= m + 1 /\ PayloadOff \in Nat
          BY <1>0, <1>1, <2>1
        <5> QED
          BY ONLY <5>1, <5>2, CodedIs
      <4>2. coded = PlacesOf(base, at, b, m)
        BY <1>1, <4>1 DEF coded, rbsp
      <4> QED
        BY <4>1, <4>2 DEF clear, rbsp
  <2>3. Cardinality(clear) = b - 1
    <3>1. 1 \in 1..n + 1 /\ b - 1 \in 0..n /\ 1 <= (b - 1) + 1 /\ (b - 1) - 1 + 1 = b - 1
      BY <1>1, <2>1
    <3> DEFINE h == b - 1
    <3> HIDE DEF h
    <3>2. h \in 0..n /\ 1 \in 1..n + 1 /\ 1 <= h + 1
      BY <3>1 DEF h
    <3>3. Cardinality(PlacesOf(base, at, 1, h)) = h - 1 + 1
      <4>1. at \in [0..n -> Nat] /\ (\A i, j \in 0..n : i < j => at[i] < at[j])
            /\ base \in Nat /\ n \in Nat
        BY <1>1, <1>2
      <4> QED
        BY ONLY <3>2, <4>1, CountOf
    <3> QED
      BY <2>2, <3>1, <3>3 DEF h
  <2>4. CASE b <= IvLen
    <3>1. pay = <<>>
      BY <1>0, <1>1, <1>5, <2>1, <2>3, <2>4
    <3>2. DOMAIN pay = {}
      BY <3>1
    <3> QED
      BY <1>0, <1>1, <2>4, <3>2 DEF pay, b
  <2>5. CASE b > IvLen
    <3>1. r[1] = 1
      BY <1>8, <1>1, BoundaryIs DEF b
    <3>2. ~(Cardinality(clear) < IvLen)
      BY <1>0, <1>1, <2>1, <2>3, <2>5
    <3>3. /\ \A j \in 1..b - 1 : t[j] = r[j]
          /\ \A j \in b..n : t[j] = Xor(r[j], Keystream(SubSeq(r, b - IvLen, b - 1), j - b + 1))
      BY <1>0, <2>5, EncryptedIs DEF t, b, n
    <3>4. iv = SubSeq(r, b - IvLen, b - 1)
      <4>1. \A j \in 1..b - 1 : data[base + at[j]] = r[j]
        BY SMTT(30), <1>1, <1>3, <2>1, <3>3
      <4>2. n = Len(r)
        BY DEF n
      <4>3. IvIn(data, PlacesOf(base, at, 1, b - 1)) = IvOf(r, b)
        <5>1. Rising(at, Len(r)) /\ ClearBefore(data, base, at, r, b) /\ b \in 1..Len(r)
          BY <1>1, <1>2, <2>1, <4>1, <4>2 DEF Rising, ClearBefore
        <5> QED
          BY ONLY <1>0, <1>1, <2>5, <5>1, IvIs, SMTT(30)
      <4> QED
        BY <2>2, <4>3 DEF iv, IvOf
    <3>5. pay = IF coded = {} THEN <<>> ELSE [p \in coded |-> Xor(data[p], Keystream(iv, NumberOf(coded, p)))]
      BY <1>4, <1>5, <3>1, <3>2
    <3>6. DOMAIN pay = coded
      BY <3>5
    <3>7. ASSUME NEW j \in b..m PROVE pay[base + at[j]] = r[j]
      <4>1. j \in 1..n /\ j \in b..n /\ j \in Nat
        BY SMTT(30), <1>1, <2>1
      <4> DEFINE p == base + at[j]
      <4>2. p \in coded
        BY <2>2 DEF PlacesOf
      <4>3. NumberOf(PlacesOf(base, at, b, m), p) = j - b + 1
        <5>1. b \in 1..n + 1 /\ m \in 0..n /\ j \in b..m
          BY <1>1, <2>1
        <5>2. at \in [0..n -> Nat] /\ (\A i, l \in 0..n : i < l => at[i] < at[l])
              /\ base \in Nat /\ n \in Nat
          BY <1>1, <1>2
        <5> QED
          BY ONLY <5>1, <5>2, NumberIs DEF p
      <4>4. data[p] = t[j]
        BY <1>3, <4>1
      <4>5. pay[p] = Xor(data[p], Keystream(iv, NumberOf(coded, p)))
        BY <3>5, <4>2
      <4>6. pay[p] = Xor(Xor(r[j], Keystream(iv, j - b + 1)), Keystream(iv, j - b + 1))
        BY <2>2, <3>3, <3>4, <4>1, <4>3, <4>4, <4>5
      <4>7. r[j] \in Bytes
        BY <4>1 DEF n
      <4> QED
        BY <4>6, <4>7, XorIs
    <3> QED
      BY <1>0, <1>1, <2>2, <2>5, <3>6, <3>7 DEF pay, b, base
  <2> QED
    BY <1>0, <1>1, <2>4, <2>5
<1> QED
  BY <1>7, <1>8

-------------------------------------------------------------------------------
(***************************************************************************)
(* Video. Every unit is found at its start code and decrypted to what the  *)
(* camera encrypted.                                                       *)
(***************************************************************************)

\* q is a byte's place that decrypt_annexb decrypts, of the unit with RBSP r and bytes at `at', when
\* m bytes are looked at.
Decrypts(r, at, m, q) == Boundary(r) > IvLen /\ \E j \in Boundary(r)..m : q = at[j]

\* nal is the unit u with the bytes of r from the boundary on, up to byte m.
Shows(r, at, u, m, nal) ==
    /\ \A q \in 1..Len(u) : ~Decrypts(r, at, m, q) => nal[q] = u[q]
    /\ Boundary(r) > IvLen => \A j \in Boundary(r)..m : nal[at[j]] = r[j]

\* The encoder escapes r to u, byte j to place at[j].
Escaping(r, at, u) ==
    /\ u = Escape(Encrypted(r)) /\ EscapesTo(Encrypted(r), at, u)
    /\ \A j \in 0..Len(r) : RawAt(Encrypted(r), j) = at[j]

\* The last byte that is the slice's own.
LastOwn(c, i) == IF KeepsLast(c, i) THEN Len(c.nals[i].rbsp) - 1 ELSE Len(c.nals[i].rbsp)

\* What the decoder shall get.
LEMMA PlainNalIs ==
    ASSUME NEW c, NEW i, NEW at, NEW u, c.nals[i].rbsp \in Seq(Bytes), Len(c.nals[i].rbsp) >= 1,
           Escaping(c.nals[i].rbsp, at, u)
    PROVE  /\ PlainNal(c, i) \in Seq(Nat) /\ Len(PlainNal(c, i)) = Len(u)
           /\ Shows(c.nals[i].rbsp, at, u, LastOwn(c, i), PlainNal(c, i))
<1> DEFINE r == c.nals[i].rbsp
           m == LastOwn(c, i)
           t == Encrypted(r)
           b == Boundary(r)
           n == Len(r)
           keeps == KeepsLast(c, i)
           raws(p) == RawsAt(t, p)
           nal == PlainNal(c, i)
<1>0. IvLen \in Nat /\ IvLen >= 1
  BY OffsetsAreOffsets
<1>20. /\ u = Escape(t) /\ EscapesTo(t, at, u) /\ \A j \in 0..n : RawAt(t, j) = at[j]
      /\ (keeps => m = n - 1) /\ (~keeps => m = n) /\ r \in Seq(Bytes) /\ n >= 1
  BY DEF Escaping, LastOwn
<1>1. r \in Seq(Nat) /\ t \in Seq(Nat) /\ Len(t) = n /\ n \in Nat /\ n >= 1 /\ b \in 0..n
      /\ DOMAIN t = 1..n /\ DOMAIN r = 1..n
  BY <1>0, BytesAreNumbers, BoundaryIs, EncryptedIs
<1>2. /\ u \in Seq(Nat) /\ at \in [0..n -> Nat] /\ at[n] = Len(u) /\ \A j \in 1..n : u[at[j]] = t[j]
  BY <1>1, <1>20 DEF EscapesTo
<1>3. /\ \A j, k \in 0..n : j < k => at[j] < at[k]
      /\ \A j \in 1..n : at[j] \in 1..Len(u)
  <2>1. EscapesTo(t, at, u)
    BY <1>20
  <2> HIDE DEF t
  <2> QED
    BY <1>1, <2>1, EscapedPlaces
<1>4. Len(u) \in Nat /\ DOMAIN u = 1..Len(u)
  BY <1>2
<1>5. /\ nal = [p \in DOMAIN u |-> IF raws(p) = {} \/ (keeps /\ p = Len(u)) THEN u[p]
                                   ELSE r[CHOOSE j \in raws(p) : TRUE]]
      /\ keeps => b > IvLen
  <2>1. nal = [p \in DOMAIN u |-> IF raws(p) = {} \/ (keeps /\ p = Len(u)) THEN u[p]
                                  ELSE r[CHOOSE j \in raws(p) : TRUE]]
    <3>1. nal = [p \in DOMAIN Escape(t) |->
                    IF raws(p) = {} \/ (keeps /\ p = Len(Escape(t))) THEN Escape(t)[p]
                    ELSE r[CHOOSE j \in raws(p) : TRUE]]
      BY DEF PlainNal
    <3> QED
      BY <1>20, <3>1
  <2>2. keeps => b > IvLen
    BY DEF KeepsLast
  <2> QED
    BY <2>1, <2>2
<1>6. \A p : raws(p) = {j \in 1..n : at[j] = p}
  <2>1. \A p : raws(p) = {j \in 1..n : RawAt(t, j) = p}
    BY <1>1 DEF RawsAt
  <2>2. \A j \in 1..n : RawAt(t, j) = at[j]
    BY <1>1, <1>20
  <2> HIDE DEF raws
  <2> QED
    BY <2>1, <2>2
<1>7. b > IvLen => \A j \in 1..b - 1 : t[j] = r[j]
  BY <1>0, EncryptedIs
<1>8. b <= IvLen => t = r
  BY <1>0, EncryptedIs
<1>9. m \in 0..n /\ (keeps => m = n - 1) /\ (~keeps => m = n)
  BY <1>1, <1>20
<1> HIDE DEF r, m, t, b, n, keeps, raws, nal
<1>10. ASSUME NEW j \in 1..n PROVE raws(at[j]) = {j}
  <2>1. \A k \in 1..n : at[k] = at[j] => k = j
    <3> TAKE k \in 1..n
    <3>1. k \in 0..n /\ j \in 0..n
      BY <1>1
    <3>2. (k < j => at[k] < at[j]) /\ (j < k => at[j] < at[k]) /\ at[j] \in Nat /\ at[k] \in Nat
      BY <1>2, <1>3, <3>1
    <3> QED
      BY <3>1, <3>2
  <2> QED
    BY <1>6, <2>1
<1>11. ASSUME NEW j \in 1..n
       PROVE  nal[at[j]] = IF keeps /\ at[j] = Len(u) THEN u[at[j]] ELSE r[j]
  <2> DEFINE q == at[j]
  <2>1. q \in DOMAIN u /\ raws(q) = {j}
    BY <1>3, <1>4, <1>10
  <2>2. (CHOOSE k \in {j} : TRUE) = j
    OBVIOUS
  <2> HIDE DEF q
  <2> QED
    BY <1>5, <2>1, <2>2 DEF q
<1>12. ASSUME NEW q \in 1..Len(u), ~\E j \in 1..n : q = at[j] PROVE nal[q] = u[q]
  <2>1. raws(q) = {}
    BY <1>6, <1>12
  <2> QED
    BY <1>4, <1>5, <2>1
<1>13. ASSUME NEW j \in 1..n PROVE at[j] = Len(u) <=> j = n
  <2>1. j \in 0..n /\ n \in 0..n /\ (j < n => at[j] < at[n]) /\ at[j] \in Nat /\ at[n] \in Nat
    BY <1>1, <1>2, <1>3
  <2> QED
    BY <1>2, <2>1
<1>14. ASSUME NEW q \in 1..Len(u), ~Decrypts(r, at, m, q) PROVE nal[q] = u[q]
  <2>1. CASE \E j \in 1..n : q = at[j]
    <3>1. PICK j \in 1..n : q = at[j]
      BY <2>1
    <3>2. CASE b <= IvLen
      <4>1. ~keeps /\ t[j] = r[j]
        BY <1>0, <1>1, <1>5, <1>8, <3>2
      <4> QED
        BY <1>2, <1>11, <3>1, <4>1
    <3>3. CASE b > IvLen
      <4>1. ~(j \in b..m)
        BY <1>14, <3>1, <3>3 DEF Decrypts, b
      <4>2. CASE j < b
        <5>1. j \in 1..b - 1
          BY <1>1, <4>2
        <5>2. t[j] = r[j]
          BY <1>7, <3>3, <5>1
        <5> QED
          BY <1>2, <1>11, <3>1, <5>2
      <4>3. CASE j > m
        <5>1. keeps /\ j = n
          BY <1>1, <1>9, <4>3
        <5> QED
          BY <1>11, <1>13, <3>1, <5>1
      <4> QED
        BY <1>1, <1>9, <4>1, <4>2, <4>3
    <3> QED
      BY <1>0, <1>1, <3>2, <3>3
  <2> QED
    BY <1>12, <2>1
<1>15. ASSUME b > IvLen, NEW j \in b..m PROVE nal[at[j]] = r[j]
  <2>1. j \in 1..n
    BY <1>0, <1>1, <1>9, <1>15
  <2>2. ~(keeps /\ at[j] = Len(u))
    BY <1>1, <1>9, <1>13, <2>1
  <2> QED
    BY <1>11, <2>1, <2>2
<1>16. nal \in Seq(Nat) /\ Len(nal) = Len(u)
  <2>1. nal = [q \in 1..Len(u) |-> nal[q]]
    BY <1>4, <1>5
  <2>2. ASSUME NEW q \in 1..Len(u) PROVE nal[q] \in Nat
    <3>1. u[q] \in Nat
      BY <1>2
    <3>2. CASE \E j \in 1..n : q = at[j]
      <4>1. PICK j \in 1..n : q = at[j]
        BY <3>2
      <4>2. r[j] \in Nat
        BY ONLY <1>1, j \in 1..n DEF n
      <4> QED
        BY <1>11, <3>1, <4>1, <4>2
    <3> QED
      BY <1>12, <3>1, <3>2
  <2> QED
    BY <1>4, <2>1, <2>2, IsSequence
<1> QED
  BY <1>14, <1>15, <1>16 DEF nal, b, r, m, Shows

\* unit i of data is NAL i of c.
NalIs(c, x, code, N, i) ==
    /\ N = Len(c.nals) /\ \A j \in 1..N : code[j] = c.nals[j].code
    /\ x[i] = Escape(Encrypted(c.nals[i].rbsp))
    /\ c.nals[i].rbsp \in Seq(Bytes) /\ Len(c.nals[i].rbsp) >= 1

\* The last byte that decrypt_annexb leaves out is the one that stays.
LEMMA LastKept ==
    ASSUME NEW c, NEW x, NEW code, NEW N \in Nat, NEW i \in 1..N, NalIs(c, x, code, N, i),
           Boundary(c.nals[i].rbsp) > IvLen, Len(x[i]) > 1
    PROVE  KeepsLast(c, i) <=> DropsLast(x, code, N, i)
<1> DEFINE u == x[i]
<1>1. KeepsLast(c, i) <=> u[Len(u)] = 0 /\ (i < N => c.nals[i + 1].code = 3)
  BY DEF KeepsLast, NalIs
<1>2. DropsLast(x, code, N, i) <=> u[Len(u)] = 0 /\ (i = N \/ code[i + 1] = 3)
  BY DEF DropsLast
<1>3. i < N => code[i + 1] = c.nals[i + 1].code
  BY DEF NalIs
<1>4. i < N <=> ~(i = N)
  OBVIOUS
<1> QED
  BY <1>1, <1>2, <1>3, <1>4

\* The plaintext of the unit u, whose start code is at s, is that of nal, and the rest of u is as in nal.
Recovers(data, s, u, nal) ==
    /\ \A p \in DOMAIN Payload(data, s) : \E q \in 1..Len(u) : p = (s + 2) + q /\ Payload(data, s)[p] = nal[q]
    /\ \A q \in 1..Len(u) : (s + 2) + q \notin DOMAIN Payload(data, s) => nal[q] = u[q]

\* decrypt_annexb's plaintext of a unit is what the decoder shall get, and the rest of the unit is
\* that already.
LEMMA UnitPayload ==
    ASSUME NEW c, NEW x, NEW code, NEW N, NEW ends, NEW data, UnitsLie(x, code, N, ends, data), NEW i \in 1..N,
           NalIs(c, x, code, N, i)
    PROVE  /\ PlainNal(c, i) \in Seq(Nat) /\ Len(PlainNal(c, i)) = Len(x[i])
           /\ Recovers(data, CodeOf(code, ends, i), x[i], PlainNal(c, i))
<1> DEFINE r == c.nals[i].rbsp
           t == Encrypted(r)
           u == x[i]
           b == Boundary(r)
           n == Len(r)
           s == CodeOf(code, ends, i)
           base == s + 2
           pay == Payload(data, s)
           nal == PlainNal(c, i)
           m == IF DropsLast(x, code, N, i) THEN n - 1 ELSE n
           k == LastOwn(c, i)
<1>0. IvLen \in Nat /\ IvLen >= 1 /\ PayloadOff \in Nat /\ PayloadOff >= 1
  BY OffsetsAreOffsets
<1>1. r \in Seq(Bytes) /\ r \in Seq(Nat) /\ n >= 1 /\ n \in Nat /\ t \in Seq(Nat) /\ Len(t) = n /\ u = Escape(t)
      /\ b \in 0..n
  BY <1>0, BytesAreNumbers, BoundaryIs, EncryptedIs DEF NalIs
<1>2. PICK at : EscapesTo(t, at, u) /\ \A j \in 0..n : RawAt(t, j) = at[j]
  <2> HIDE DEF t
  <2> QED
    BY <1>1, EscapedIs
<1>3. s \in Nat /\ N \in Nat /\ base = ends[i - 1] + code[i] /\ ends[i - 1] \in Nat /\ code[i] \in Nat
  <2>1. code[i] \in {3, 4}
    BY UnitIs
  <2> QED
    BY <2>1, UnitIs
<1>4. \A q \in 1..Len(u) : data[base + q] = u[q]
  <2> TAKE q \in 1..Len(u)
  <2>1. data[ends[i - 1] + (code[i] + q)] = u[q]
    BY DEF UnitsLie
  <2>2. ends[i - 1] + (code[i] + q) = base + q
    <3> DEFINE a == ends[i - 1]
               d == code[i]
               l == Len(u)
    <3>1. base = a + d /\ a \in Nat /\ d \in Nat /\ q \in Int
      BY <1>3
    <3> HIDE DEF base, a, d
    <3>2. a + (d + q) = base + q
      BY <3>1
    <3> QED
      BY <3>2 DEF a, d
  <2> QED
    BY <2>1, <2>2
<1>5. Rbsp(data, s + 3, NalLast(data, s)) = PlacesOf(base, at, 1, m)
  <2>1. UnitsLie(x, code, N, ends, data) /\ i \in 1..N /\ t \in Seq(Nat) /\ EscapesTo(t, at, x[i])
    BY <1>1, <1>2
  <2>2. Len(t) = n
    BY <1>1
  <2> HIDE DEF t, n, base
  <2>3. Rbsp(data, CodeOf(code, ends, i) + 3, NalLast(data, CodeOf(code, ends, i))) =
            PlacesOf(CodeOf(code, ends, i) + 2, at, 1, IF DropsLast(x, code, N, i) THEN Len(t) - 1 ELSE Len(t))
    BY ONLY <2>1, RbspIs
  <2> QED
    BY <2>2, <2>3 DEF base
<1>6. \A j \in 1..n : at[j] \in 1..Len(u)
  <2> HIDE DEF t
  <2> QED
    BY <1>1, <1>2, EscapedPlaces
<1> HIDE DEF t, pay, nal, b, s, base, m, k
<1>7. /\ b <= IvLen => DOMAIN pay = {}
      /\ b > IvLen => /\ DOMAIN pay = PlacesOf(base, at, b, m)
                      /\ \A j \in b..m : pay[base + at[j]] = r[j]
  <2>1. m = n \/ m = n - 1
    BY DEF m
  <2>2. \A q \in 1..Len(u) : data[(s + 2) + q] = u[q]
    BY <1>4 DEF base
  <2>3. Rbsp(data, s + 3, NalLast(data, s)) = PlacesOf(s + 2, at, 1, m)
    BY <1>5 DEF base
  <2> HIDE DEF r, u, n
  <2>4. /\ Boundary(r) <= IvLen => DOMAIN Payload(data, s) = {}
        /\ Boundary(r) > IvLen =>
              /\ DOMAIN Payload(data, s) = PlacesOf(s + 2, at, Boundary(r), m)
              /\ \A j \in Boundary(r)..m : Payload(data, s)[(s + 2) + at[j]] = r[j]
    <3>1. /\ r \in Seq(Bytes) /\ Len(r) >= 1 /\ u = Escape(Encrypted(r)) /\ EscapesTo(Encrypted(r), at, u)
          /\ \A j \in 0..Len(r) : RawAt(Encrypted(r), j) = at[j]
          /\ s \in Nat /\ (m = Len(r) \/ m = Len(r) - 1)
      BY <1>1, <1>2, <1>3, <2>1 DEF t, n
    <3> QED
      BY ONLY <2>2, <2>3, <3>1, PayloadIs
  <2> QED
    BY <2>4 DEF b, pay, base
<1>8. /\ nal \in Seq(Nat) /\ Len(nal) = Len(u)
      /\ \A q \in 1..Len(u) : ~Decrypts(r, at, k, q) => nal[q] = u[q]
      /\ b > IvLen => \A j \in b..k : nal[at[j]] = r[j]
  <2>1. r \in Seq(Bytes) /\ Len(r) >= 1 /\ Escaping(r, at, u)
    BY <1>1, <1>2 DEF t, Escaping
  <2>2. /\ PlainNal(c, i) \in Seq(Nat) /\ Len(PlainNal(c, i)) = Len(u)
        /\ Shows(r, at, u, LastOwn(c, i), PlainNal(c, i))
    BY ONLY <2>1, PlainNalIs
  <2> QED
    BY <2>2 DEF nal, b, Shows, k
<1>9. b > IvLen => k = m
  <2> SUFFICES ASSUME b > IvLen PROVE k = m
    OBVIOUS
  <2>1. Len(u) > 1
    <3>1. b \in 1..n /\ b # 0
      BY <1>0, <1>1
    <3>2. at[b] > PayloadOff
      <4>1. Boundary(r) # 0 => (at[b] > PayloadOff <=> b >= Boundary(r))
        BY <1>0, <1>1, <1>2, <3>1, CodedFrom DEF t, n
      <4> QED
        BY <3>1, <4>1 DEF b
    <3>3. at[b] \in 1..Len(u)
      BY <1>6, <3>1
    <3>4. u \in Seq(Nat)
      BY <1>2 DEF EscapesTo
    <3>5. Len(u) \in Nat
      BY <3>4
    <3> DEFINE l == Len(u)
               a == at[b]
    <3>6. a > PayloadOff /\ a \in 1..l /\ l \in Nat
      BY <3>2, <3>3, <3>5
    <3> HIDE DEF l, a
    <3>7. l > 1
      BY <1>0, <3>6
    <3> QED
      BY <3>7 DEF l
  <2>2. KeepsLast(c, i) <=> DropsLast(x, code, N, i)
    BY <1>3, <2>1, LastKept DEF b
  <2> QED
    BY <2>2 DEF k, m, LastOwn
<1>10. ASSUME NEW p \in DOMAIN pay PROVE \E q \in 1..Len(u) : p = base + q /\ pay[p] = nal[q]
  <2>1. b > IvLen
    BY <1>0, <1>1, <1>7
  <2>2. PICK j \in b..m : p = base + at[j]
    BY <1>7, <2>1 DEF PlacesOf
  <2>3. j \in 1..n
    <3>1. m <= n /\ m \in Int
      BY <1>1 DEF m
    <3> QED
      BY <1>0, <1>1, <2>1, <3>1
  <2>4. pay[p] = r[j] /\ nal[at[j]] = r[j]
    BY <1>7, <1>8, <1>9, <2>1, <2>2
  <2>5. at[j] \in 1..Len(u)
    BY <1>6, <2>3
  <2> QED
    BY <2>2, <2>4, <2>5
<1>11. ASSUME NEW q \in 1..Len(u), base + q \notin DOMAIN pay PROVE nal[q] = u[q]
  <2>1. ~Decrypts(r, at, k, q)
    <3> SUFFICES ASSUME Decrypts(r, at, k, q) PROVE FALSE
      OBVIOUS
    <3>1. b > IvLen /\ \E j \in b..k : q = at[j]
      BY DEF Decrypts, b
    <3>2. PICK j \in b..m : q = at[j]
      BY <1>9, <3>1
    <3> QED
      BY <1>7, <1>11, <3>1, <3>2 DEF PlacesOf
  <2> QED
    BY <1>8, <2>1
<1> QED
  BY <1>8, <1>10, <1>11 DEF nal, pay, base, s, Recovers

\* A start code and its unit's bytes.
Unit(nal, u) == StartCode(nal) \o u

LEMMA UnitBytesAre ==
    ASSUME NEW nal, NEW u, nal.code \in {3, 4}, u \in Seq(Nat)
    PROVE  /\ Unit(nal, u) \in Seq(Nat) /\ Len(Unit(nal, u)) = nal.code + Len(u)
           /\ \A k \in 1..nal.code - 1 : Unit(nal, u)[k] = 0
           /\ Unit(nal, u)[nal.code] = 1
           /\ \A k \in 1..Len(u) : Unit(nal, u)[nal.code + k] = u[k]
<1> DEFINE v == Unit(nal, u)
<1>1. CASE nal.code = 4
  <2>1. v = <<0, 0, 0, 1>> \o u
    BY <1>1 DEF StartCode, Unit
  <2>2. v \in Seq(Nat) /\ Len(v) = 4 + Len(u) /\ v[1] = 0 /\ v[2] = 0 /\ v[3] = 0 /\ v[4] = 1
        /\ \A k \in 1..Len(u) : v[4 + k] = u[k]
    BY <2>1
  <2>3. \A k \in 1..3 : k = 1 \/ k = 2 \/ k = 3
    OBVIOUS
  <2> QED
    BY <1>1, <2>2, <2>3
<1>2. CASE nal.code = 3
  <2>1. v = <<0, 0, 1>> \o u
    BY <1>2 DEF StartCode, Unit
  <2>2. v \in Seq(Nat) /\ Len(v) = 3 + Len(u) /\ v[1] = 0 /\ v[2] = 0 /\ v[3] = 1
        /\ \A k \in 1..Len(u) : v[3 + k] = u[k]
    BY <2>1
  <2>3. \A k \in 1..2 : k = 1 \/ k = 2
    OBVIOUS
  <2> QED
    BY <1>2, <2>2, <2>3
<1> QED
  BY <1>1, <1>2

\* data is the units xs[i], each behind its start code; unit i ends at ends[i].
Units(nals, xs, N, ends, data) ==
    /\ ends \in [0..N -> Nat] /\ ends[0] = 0 /\ data \in Seq(Nat) /\ Len(data) = ends[N]
    /\ \A i \in 1..N : ends[i] = ends[i - 1] + (nals[i].code + Len(xs[i]))
    /\ \A i \in 1..N : /\ \A k \in 1..nals[i].code - 1 : data[ends[i - 1] + k] = 0
                       /\ data[ends[i - 1] + nals[i].code] = 1
                       /\ \A k \in 1..Len(xs[i]) : data[ends[i - 1] + (nals[i].code + k)] = xs[i][k]

\* The flattened sequence of units.
LEMMA UnitsFlatten ==
    ASSUME NEW N \in Nat, NEW nals, NEW xs, NEW w,
           w = [i \in 1..N |-> w[i]],
           \A i \in 1..N : nals[i].code \in {3, 4} /\ xs[i] \in Seq(Nat),
           \A i \in 1..N : w[i] = Unit(nals[i], xs[i])
    PROVE  /\ FlattenSeq(w) \in Seq(Nat)
           /\ \E ends : Units(nals, xs, N, ends, FlattenSeq(w))
<1> DEFINE data == FlattenSeq(w)
<1>1. ASSUME NEW i \in 1..N
      PROVE  /\ nals[i].code \in {3, 4} /\ Len(xs[i]) \in Nat
             /\ w[i] \in Seq(Nat) /\ Len(w[i]) = nals[i].code + Len(xs[i])
             /\ \A k \in 1..nals[i].code - 1 : w[i][k] = 0
             /\ w[i][nals[i].code] = 1
             /\ \A k \in 1..Len(xs[i]) : w[i][nals[i].code + k] = xs[i][k]
  <2>1. nals[i].code \in {3, 4} /\ xs[i] \in Seq(Nat) /\ w[i] = Unit(nals[i], xs[i])
    OBVIOUS
  <2>2. Len(xs[i]) \in Nat
    BY <2>1
  <2> DEFINE nal == nals[i]
             u == xs[i]
             v == w[i]
  <2>3. nal.code \in {3, 4} /\ u \in Seq(Nat) /\ v = Unit(nal, u)
    BY <2>1
  <2> HIDE DEF nal, u, v
  <2>4. /\ v \in Seq(Nat) /\ Len(v) = nal.code + Len(u)
        /\ \A k \in 1..nal.code - 1 : v[k] = 0
        /\ v[nal.code] = 1
        /\ \A k \in 1..Len(u) : v[nal.code + k] = u[k]
    <3>1. /\ Unit(nal, u) \in Seq(Nat) /\ Len(Unit(nal, u)) = nal.code + Len(u)
          /\ \A k \in 1..nal.code - 1 : Unit(nal, u)[k] = 0
          /\ Unit(nal, u)[nal.code] = 1
          /\ \A k \in 1..Len(u) : Unit(nal, u)[nal.code + k] = u[k]
      BY ONLY <2>3, UnitBytesAre
    <3> QED
      BY <2>3, <3>1
  <2> QED
    BY <2>1, <2>2, <2>4 DEF nal, u, v
<1>2. w \in Seq(Seq(Nat)) /\ Len(w) = N
  BY <1>1, IsSequence
<1>3. data \in Seq(Nat) /\ \E ends : Blocks(w, ends, data)
  BY <1>2, FlattenIsBlocks
<1>4. PICK ends : Blocks(w, ends, data)
  BY <1>3
<1> HIDE DEF data
<1>5. /\ ends \in [0..N -> Nat] /\ ends[0] = 0 /\ Len(data) = ends[N]
      /\ \A i \in 1..N : ends[i] = ends[i - 1] + Len(w[i])
      /\ \A i \in 1..N : \A k \in 1..Len(w[i]) : data[ends[i - 1] + k] = w[i][k]
  BY <1>2, <1>4 DEF Blocks
<1>6. ASSUME NEW i \in 1..N
      PROVE  /\ ends[i] = ends[i - 1] + (nals[i].code + Len(xs[i]))
             /\ \A k \in 1..nals[i].code - 1 : data[ends[i - 1] + k] = 0
             /\ data[ends[i - 1] + nals[i].code] = 1
             /\ \A k \in 1..Len(xs[i]) : data[ends[i - 1] + (nals[i].code + k)] = xs[i][k]
  <2> DEFINE d == nals[i].code
             l == Len(xs[i])
             v == w[i]
             a == ends[i - 1]
  <2>1. /\ d \in {3, 4} /\ l \in Nat /\ Len(v) = d + l
        /\ \A k \in 1..d - 1 : v[k] = 0
        /\ v[d] = 1
        /\ \A k \in 1..l : v[d + k] = xs[i][k]
    BY <1>1
  <2>2. \A k \in 1..Len(v) : data[a + k] = v[k]
    BY <1>5
  <2>3. ends[i] = a + (d + l)
    BY <1>5, <2>1
  <2> HIDE DEF d, l, v, a
  <2>4. \A k \in 1..d - 1 : data[a + k] = 0
    BY <2>1, <2>2
  <2>5. data[a + d] = 1
    BY <2>1, <2>2
  <2>6. \A k \in 1..l : data[a + (d + k)] = xs[i][k]
    <3> TAKE k \in 1..l
    <3>1. d + k \in 1..Len(v)
      BY <2>1
    <3> QED
      BY <2>1, <2>2, <3>1
  <2> QED
    BY <2>3, <2>4, <2>5, <2>6 DEF d, l, a
<1>7. Units(nals, xs, N, ends, data)
  BY <1>3, <1>5, <1>6 DEF Units
<1> QED
  BY <1>3, <1>7 DEF data

\* The NAL units of a clip, as the camera escapes them.
Nals == [code : {3, 4}, rbsp : Seq(Bytes) \ {<<>>}]
VideoFits(c) == c.nals \in Seq(Nals)
NalUnits(c) == [i \in 1..Len(c.nals) |-> Escape(Encrypted(c.nals[i].rbsp))]
Codes(c) == [i \in 1..Len(c.nals) |-> c.nals[i].code]

LEMMA NalUnitIs ==
    ASSUME NEW c, VideoFits(c), NEW i \in 1..Len(c.nals)
    PROVE  /\ Len(c.nals) \in Nat /\ NalIs(c, NalUnits(c), Codes(c), Len(c.nals), i) /\ c.nals[i].code \in {3, 4}
           /\ NalUnits(c)[i] \in Seq(Nat) /\ Len(NalUnits(c)[i]) >= 1
           /\ \A p \in 1..Len(NalUnits(c)[i]) : Zeros(NalUnits(c)[i], p - 1) => NalUnits(c)[i][p] = 3
<1> DEFINE N == Len(c.nals)
           nal == c.nals[i]
           r == nal.rbsp
           t == Encrypted(r)
           u == NalUnits(c)[i]
<1>0. IvLen \in Nat /\ IvLen >= 1
  BY OffsetsAreOffsets
<1>1. N \in Nat /\ nal \in Nals
  BY DEF VideoFits
<1>2. nal.code \in {3, 4} /\ r \in Seq(Bytes) /\ r # <<>>
  BY <1>1 DEF Nals
<1>3. Len(r) \in Nat /\ Len(r) >= 1
  <2> HIDE DEF r
  <2> QED
    BY <1>2
<1>4. u = Escape(t)
  BY DEF NalUnits
<1>5. NalIs(c, NalUnits(c), Codes(c), N, i)
  BY <1>2, <1>3, <1>4 DEF NalIs, Codes
<1>6. t \in Seq(Nat) /\ Len(t) = Len(r)
  BY <1>0, <1>2, EncryptedIs
<1>7. PICK at : EscapesTo(t, at, u)
  <2> HIDE DEF t, u
  <2> QED
    BY <1>4, <1>6, EscapedIs
<1> HIDE DEF t, u, r
<1>8. u \in Seq(Nat)
  BY <1>7 DEF EscapesTo
<1>9. /\ at[1] \in 1..Len(u)
      /\ \A p \in 1..Len(u) : Zeros(u, p - 1) => u[p] = 3
  <2>1. 1 \in 1..Len(t)
    BY <1>3, <1>6
  <2>2. /\ \A j \in 1..Len(t) : at[j] \in 1..Len(u)
        /\ \A p \in 1..Len(u) : Zeros(u, p - 1) => u[p] = 3
    BY <1>6, <1>7, EscapedPlaces
  <2> QED
    BY <2>1, <2>2
<1>10. Len(u) >= 1
  <2>1. Len(u) \in Nat
    BY <1>8
  <2> QED
    BY <1>9, <2>1
<1> QED
  BY <1>1, <1>2, <1>5, <1>8, <1>9, <1>10 DEF u

\* The video the camera sends is NAL units that start codes do not occur in.
LEMMA VideoStreamIs ==
    ASSUME NEW c, VideoFits(c)
    PROVE  /\ EncryptedVideo(c) \in Seq(Nat) /\ Len(c.nals) \in Nat
           /\ \E ends : /\ Units(c.nals, NalUnits(c), Len(c.nals), ends, EncryptedVideo(c))
                        /\ UnitsLie(NalUnits(c), Codes(c), Len(c.nals), ends, EncryptedVideo(c))
<1> DEFINE nals == c.nals
           N == Len(nals)
           x == NalUnits(c)
           code == Codes(c)
           w == [i \in DOMAIN nals |-> StartCode(nals[i]) \o Escape(Encrypted(nals[i].rbsp))]
           data == EncryptedVideo(c)
<1>1. N \in Nat /\ DOMAIN nals = 1..N
  BY DEF VideoFits
<1>2. ASSUME NEW i \in 1..N
      PROVE  /\ nals[i].code \in {3, 4} /\ x[i] \in Seq(Nat) /\ Len(x[i]) >= 1 /\ code[i] = nals[i].code
             /\ \A p \in 1..Len(x[i]) : Zeros(x[i], p - 1) => x[i][p] = 3
  <2>1. code[i] = nals[i].code
    BY DEF Codes
  <2> HIDE DEF x, code
  <2> QED
    BY <2>1, NalUnitIs DEF x
<1>3. \A i \in 1..N : w[i] = Unit(nals[i], x[i])
  BY <1>1 DEF Unit, NalUnits
<1>4. w = [i \in 1..N |-> w[i]]
  BY <1>1
<1>5. data = FlattenSeq(w)
  BY DEF EncryptedVideo
<1> HIDE DEF w, x, code, data, nals, N
<1>6. FlattenSeq(w) \in Seq(Nat) /\ \E ends : Units(nals, x, N, ends, FlattenSeq(w))
  <2>1. \A i \in 1..N : nals[i].code \in {3, 4} /\ x[i] \in Seq(Nat)
    BY <1>2
  <2> QED
    BY ONLY <1>1, <1>3, <1>4, <2>1, UnitsFlatten
<1>7. PICK ends : Units(nals, x, N, ends, data)
  BY <1>5, <1>6
<1>8. UnitsLie(x, code, N, ends, data)
  <2>1. /\ ends \in [0..N -> Nat] /\ ends[0] = 0 /\ data \in Seq(Nat) /\ Len(data) = ends[N]
        /\ \A i \in 1..N : ends[i] = ends[i - 1] + (nals[i].code + Len(x[i]))
        /\ \A i \in 1..N : /\ \A k \in 1..nals[i].code - 1 : data[ends[i - 1] + k] = 0
                           /\ data[ends[i - 1] + nals[i].code] = 1
                           /\ \A k \in 1..Len(x[i]) : data[ends[i - 1] + (nals[i].code + k)] = x[i][k]
    BY <1>7 DEF Units
  <2>2. \A i \in 1..N : code[i] \in {3, 4} /\ x[i] \in Seq(Nat) /\ Len(x[i]) >= 1
    BY <1>2
  <2>3. \A i \in 1..N : ends[i] = ends[i - 1] + (code[i] + Len(x[i]))
    BY <1>2, <2>1
  <2>4. ASSUME NEW i \in 1..N
        PROVE  /\ \A k \in 1..code[i] - 1 : data[ends[i - 1] + k] = 0
               /\ data[ends[i - 1] + code[i]] = 1
               /\ \A k \in 1..Len(x[i]) : data[ends[i - 1] + (code[i] + k)] = x[i][k]
    BY <1>2, <2>1
  <2>5. \A i \in 1..N : \A p \in 1..Len(x[i]) : Zeros(x[i], p - 1) => x[i][p] = 3
    BY <1>2
  <2> QED
    BY <1>1, <2>1, <2>2, <2>3, <2>4, <2>5 DEF UnitsLie
<1> QED
  BY <1>1, <1>5, <1>6, <1>7, <1>8 DEF data, x, code, N, nals

\* The NAL units with byte p among their encrypted ones.
Holders(data, p) == {s \in Starts(data) : p \in DOMAIN Payload(data, s)}

\* What decrypt_annexb does with each byte.
LEMMA AnnexbBytes ==
    ASSUME NEW data
    PROVE  /\ DecryptAnnexb(data) = [p \in 1..Len(data) |-> DecryptAnnexb(data)[p]]
           /\ \A p \in 1..Len(data) :
                 DecryptAnnexb(data)[p] =
                     IF Holders(data, p) = {} THEN data[p]
                     ELSE Payload(data, CHOOSE s \in Holders(data, p) : TRUE)[p]
<1> DEFINE plain == [s \in Starts(data) |-> Payload(data, s)]
           dec == DecryptAnnexb(data)
<1>1. dec = [p \in 1..Len(data) |-> AnnexbByte(data, plain, p)]
  BY DEF DecryptAnnexb
<1>2. ASSUME NEW p
      PROVE  AnnexbByte(data, plain, p) =
                 IF Holders(data, p) = {} THEN data[p]
                 ELSE Payload(data, CHOOSE s \in Holders(data, p) : TRUE)[p]
  <2> DEFINE holds == {s \in DOMAIN plain : p \in DOMAIN plain[s]}
             first == CHOOSE s \in holds : TRUE
  <2>1. AnnexbByte(data, plain, p) = IF holds = {} THEN data[p] ELSE plain[first][p]
    BY DEF AnnexbByte
  <2>2. holds = Holders(data, p)
    BY DEF Holders
  <2>3. ASSUME NEW s \in Holders(data, p) PROVE plain[s] = Payload(data, s)
    BY DEF Holders
  <2> HIDE DEF holds, plain
  <2>4. holds # {} => first \in Holders(data, p)
    BY <2>2
  <2> QED
    BY <2>1, <2>2, <2>3, <2>4
<1> HIDE DEF plain, dec
<1>3. dec = [p \in 1..Len(data) |-> dec[p]]
  BY <1>1
<1>4. \A p \in 1..Len(data) : dec[p] = AnnexbByte(data, plain, p)
  BY <1>1
<1> QED
  BY <1>2, <1>3, <1>4 DEF dec

\* Byte k of what is behind ends[i - 1]: one of the start code, or of NAL i.
ByteIs(c, code, ends, data, i, k) ==
    /\ k <= code[i] => DecryptAnnexb(data)[ends[i - 1] + k] = data[ends[i - 1] + k]
    /\ k > code[i] => DecryptAnnexb(data)[ends[i - 1] + k] = PlainNal(c, i)[k - code[i]]

\* decrypt_annexb leaves start codes alone, and decrypts each unit with its own IV.
LEMMA UnitDecrypted ==
    ASSUME NEW c, NEW x, NEW code, NEW N, NEW ends, NEW data, UnitsLie(x, code, N, ends, data),
           \A j \in 1..N : NalIs(c, x, code, N, j),
           NEW i \in 1..N, NEW k \in 1..code[i] + Len(x[i])
    PROVE  ByteIs(c, code, ends, data, i, k)
<1> DEFINE a == ends[i - 1]
           b == ends[i]
           d == code[i]
           l == Len(x[i])
           p == a + k
           s == CodeOf(code, ends, i)
           base == s + 2
           pay == Payload(data, s)
           holds == Holders(data, p)
           dec == DecryptAnnexb(data)
           nal == PlainNal(c, i)
<1>1. /\ a \in Nat /\ b \in Nat /\ d \in {3, 4} /\ l \in Nat /\ l >= 1 /\ b = a + (d + l) /\ s \in Nat
      /\ base = a + d /\ b <= Len(data)
  BY UnitIs
<1>2. data \in Seq(Nat) /\ Len(data) \in Nat
  BY DEF UnitsLie
<1>3. p \in 1..Len(data) /\ a < p /\ p <= b /\ k \in 1..d + l /\ k \in Nat
  <2>1. k \in 1..d + l
    OBVIOUS
  <2> HIDE DEF a, b, d, l
  <2> QED
    BY <1>1, <1>2, <2>1
<1>4. /\ nal \in Seq(Nat) /\ Len(nal) = l
      /\ \A z \in DOMAIN pay : \E q \in 1..l : z = base + q /\ pay[z] = nal[q]
      /\ \A q \in 1..l : base + q \notin DOMAIN pay => nal[q] = x[i][q]
  <2>1. NalIs(c, x, code, N, i) /\ UnitsLie(x, code, N, ends, data) /\ i \in 1..N
    OBVIOUS
  <2>2. /\ PlainNal(c, i) \in Seq(Nat) /\ Len(PlainNal(c, i)) = Len(x[i])
        /\ Recovers(data, CodeOf(code, ends, i), x[i], PlainNal(c, i))
    BY ONLY <2>1, UnitPayload
  <2> QED
    BY <2>2 DEF Recovers
<1>5. ASSUME NEW j \in 1..N, p \in DOMAIN Payload(data, CodeOf(code, ends, j)) PROVE j = i
  <2> DEFINE e == ends[j - 1]
             f == ends[j]
             g == CodeOf(code, ends, j) + 2
             m == Len(x[j])
  <2>1. /\ e \in Nat /\ f \in Nat /\ code[j] \in {3, 4} /\ m \in Nat /\ f = e + (code[j] + m)
        /\ g = e + code[j]
    BY UnitIs
  <2>2. PICK q \in 1..m : p = g + q
    <3>1. \A z \in DOMAIN Payload(data, CodeOf(code, ends, j)) :
              \E q \in 1..m : z = g + q /\ Payload(data, CodeOf(code, ends, j))[z] = PlainNal(c, j)[q]
      <4>1. NalIs(c, x, code, N, j) /\ UnitsLie(x, code, N, ends, data) /\ j \in 1..N
        OBVIOUS
      <4>2. Recovers(data, CodeOf(code, ends, j), x[j], PlainNal(c, j))
        BY ONLY <4>1, UnitPayload
      <4> QED
        BY <4>2 DEF Recovers
    <3> QED
      BY <1>5, <3>1
  <2>3. (i < j => b <= e) /\ (j < i => f <= a)
    BY UnitsAscend
  <2>4. e < p /\ p <= f
    <3> DEFINE h == code[j]
    <3>1. e \in Nat /\ h \in {3, 4} /\ m \in Nat /\ f = e + (h + m) /\ g = e + h
      BY <2>1
    <3> HIDE DEF e, f, g, h, m, p
    <3> QED
      BY <2>2, <3>1
  <2>5. N \in Nat
    BY DEF UnitsLie
  <2>6. i \in Nat /\ j \in Nat /\ p \in Nat
    BY <1>2, <1>3, <2>5
  <2> HIDE DEF a, b, e, f, p
  <2> QED
    BY SMTT(30), <1>1, <1>3, <2>1, <2>3, <2>4, <2>6
<1>6. ASSUME NEW z \in holds PROVE z = s /\ p \in DOMAIN pay
  <2>1. z \in Starts(data) /\ p \in DOMAIN Payload(data, z)
    BY DEF Holders
  <2>2. PICK j \in 1..N : z = CodeOf(code, ends, j)
    BY <2>1, StartsAre
  <2>3. j = i
    BY <1>5, <2>1, <2>2
  <2> QED
    BY <2>1, <2>2, <2>3
<1>7. s \in Starts(data)
  BY StartsAre
<1>8. p \in DOMAIN pay => s \in holds
  BY <1>7 DEF Holders
<1>9. dec[p] = IF holds = {} THEN data[p] ELSE Payload(data, CHOOSE z \in holds : TRUE)[p]
  BY <1>3, AnnexbBytes
<1>10. \A q \in 1..l : data[base + q] = x[i][q]
  <2> TAKE q \in 1..l
  <2>1. data[ends[i - 1] + (code[i] + q)] = x[i][q]
    BY DEF UnitsLie
  <2>2. a + (d + q) = base + q
    <3>1. q \in Nat
      BY <1>1
    <3> HIDE DEF a, d, base
    <3> QED
      BY <1>1, <3>1
  <2> QED
    BY <2>1, <2>2
<1> HIDE DEF a, b, d, l, p, s, base, pay, holds, dec, nal
<1>11. CASE holds = {}
  <2>1. dec[p] = data[p] /\ p \notin DOMAIN pay
    BY <1>8, <1>9, <1>11
  <2>2. k > d => dec[p] = nal[k - d]
    <3> SUFFICES ASSUME k > d PROVE dec[p] = nal[k - d]
      OBVIOUS
    <3>1. k - d \in 1..l /\ base + (k - d) = p
      BY <1>1, <1>3 DEF p
    <3> QED
      BY <1>4, <1>10, <2>1, <3>1
  <2> QED
    BY <1>3, <2>1, <2>2 DEF p, a, d, dec, nal, ByteIs
<1>12. CASE holds # {}
  <2> DEFINE z == CHOOSE y \in holds : TRUE
  <2>1. z \in holds
    BY <1>12
  <2>2. z = s /\ p \in DOMAIN pay
    BY <1>6, <2>1
  <2>3. dec[p] = pay[p]
    BY <1>9, <1>12, <2>2 DEF pay
  <2>4. PICK q \in 1..l : p = base + q /\ pay[p] = nal[q]
    BY <1>4, <2>2
  <2>5. k > d /\ k - d = q
    BY <1>1, <1>3, <2>4 DEF p
  <2>6. ~(k <= d) /\ dec[p] = nal[k - d]
    BY <1>1, <1>3, <2>3, <2>4, <2>5
  <2> QED
    BY <2>5, <2>6 DEF p, a, d, dec, nal, ByteIs
<1> QED
  BY <1>11, <1>12

\* decrypt_annexb makes the camera's NAL units of the video.
LEMMA VideoDecrypts ==
    ASSUME NEW c, VideoFits(c)
    PROVE  /\ DecryptAnnexb(EncryptedVideo(c)) \in Seq(Nat)
           /\ Len(DecryptAnnexb(EncryptedVideo(c))) = Len(EncryptedVideo(c))
           /\ DecryptAnnexb(EncryptedVideo(c)) =
                  FlattenSeq([i \in DOMAIN c.nals |-> StartCode(c.nals[i]) \o PlainNal(c, i)])
<1> DEFINE nals == c.nals
           N == Len(nals)
           x == NalUnits(c)
           code == Codes(c)
           plain == [i \in 1..N |-> PlainNal(c, i)]
           w == [i \in DOMAIN nals |-> StartCode(nals[i]) \o PlainNal(c, i)]
           flat == FlattenSeq(w)
           data == EncryptedVideo(c)
           dec == DecryptAnnexb(data)
<1>1. N \in Nat /\ DOMAIN nals = 1..N
  BY DEF VideoFits
<1>2. PICK ends : Units(nals, x, N, ends, data) /\ UnitsLie(x, code, N, ends, data)
  BY VideoStreamIs
<1>3. data \in Seq(Nat) /\ Len(data) \in Nat
  BY VideoStreamIs
<1>4. ASSUME NEW i \in 1..N
      PROVE  /\ nals[i].code \in {3, 4} /\ code[i] = nals[i].code /\ NalIs(c, x, code, N, i)
             /\ x[i] \in Seq(Nat) /\ Len(x[i]) \in Nat
  <2>1. code[i] = nals[i].code
    BY DEF Codes
  <2>2. NalIs(c, x, code, N, i) /\ nals[i].code \in {3, 4} /\ x[i] \in Seq(Nat)
    BY NalUnitIs
  <2> HIDE DEF x, code
  <2> QED
    BY <2>1, <2>2
<1>5. \A i \in 1..N : w[i] = Unit(nals[i], plain[i])
  BY <1>1 DEF Unit
<1>6. w = [i \in 1..N |-> w[i]]
  BY <1>1
<1>7. \A i \in 1..N : plain[i] = PlainNal(c, i)
  OBVIOUS
<1> HIDE DEF nals, N, x, code, plain, w, data, dec
<1>8. ASSUME NEW i \in 1..N PROVE plain[i] \in Seq(Nat) /\ Len(plain[i]) = Len(x[i])
  <2>1. NalIs(c, x, code, N, i) /\ UnitsLie(x, code, N, ends, data) /\ i \in 1..N
    BY <1>2, <1>4
  <2>2. PlainNal(c, i) \in Seq(Nat) /\ Len(PlainNal(c, i)) = Len(x[i])
    BY ONLY <2>1, UnitPayload
  <2> QED
    BY <1>7, <2>2
<1>9. flat \in Seq(Nat) /\ \E e : Units(nals, plain, N, e, flat)
  <2>1. \A i \in 1..N : nals[i].code \in {3, 4} /\ plain[i] \in Seq(Nat)
    BY <1>4, <1>8
  <2> QED
    BY ONLY <1>1, <1>5, <1>6, <2>1, UnitsFlatten
<1>10. PICK e : Units(nals, plain, N, e, flat)
  BY <1>9
<1> HIDE DEF flat
<1>11. /\ ends \in [0..N -> Nat] /\ ends[0] = 0 /\ Len(data) = ends[N]
       /\ \A i \in 1..N : ends[i] = ends[i - 1] + (nals[i].code + Len(x[i]))
       /\ \A i \in 1..N : /\ \A k \in 1..nals[i].code - 1 : data[ends[i - 1] + k] = 0
                          /\ data[ends[i - 1] + nals[i].code] = 1
  BY <1>2 DEF Units
<1>12. /\ e \in [0..N -> Nat] /\ e[0] = 0 /\ Len(flat) = e[N]
       /\ \A i \in 1..N : e[i] = e[i - 1] + (nals[i].code + Len(plain[i]))
       /\ \A i \in 1..N : /\ \A k \in 1..nals[i].code - 1 : flat[e[i - 1] + k] = 0
                          /\ flat[e[i - 1] + nals[i].code] = 1
                          /\ \A k \in 1..Len(plain[i]) : flat[e[i - 1] + (nals[i].code + k)] = plain[i][k]
  BY <1>10 DEF Units
<1>13. \A i \in 0..N : e[i] = ends[i]
  <2>1. e[0] = ends[0]
    BY <1>11, <1>12
  <2>2. ASSUME NEW i \in 1..N, e[i - 1] = ends[i - 1] PROVE e[i] = ends[i]
    BY <1>8, <1>11, <1>12, <2>2
  <2>3. \A i \in 1..N : e[i - 1] = ends[i - 1] => e[i] = ends[i]
    BY <2>2
  <2>4. N \in Nat
    BY <1>1
  <2> QED
    BY ONLY <2>1, <2>3, <2>4, SameEnds
<1>14. Len(flat) = Len(data)
  BY <1>1, <1>11, <1>12, <1>13
<1>15. ASSUME NEW p \in 1..Len(data) PROVE dec[p] = flat[p]
  <2>1. PICK i \in 1..N : ends[i - 1] < p /\ p <= ends[i]
    BY <1>1, <1>11, Covers
  <2> DEFINE a == ends[i - 1]
             d == nals[i].code
             l == Len(x[i])
             k == p - a
  <2>2. a \in Nat /\ d \in {3, 4} /\ l \in Nat /\ ends[i] = a + (d + l) /\ a < p /\ p <= ends[i] /\ p \in Nat
        /\ e[i - 1] = a
    <3>1. i - 1 \in 0..N
      BY <1>1
    <3>2. a \in Nat /\ e[i - 1] = a
      BY <1>11, <1>13, <3>1
    <3>3. ends[i] = a + (d + l) /\ d \in {3, 4} /\ l \in Nat
      BY <1>4, <1>11
    <3>4. p \in Nat
      BY <1>3
    <3> HIDE DEF a, d, l
    <3> QED
      BY <2>1, <3>2, <3>3, <3>4 DEF a
  <2>3. k \in 1..d + l /\ k \in Nat /\ p = a + k
    <3> DEFINE f == ends[i]
    <3>1. a \in Nat /\ d \in {3, 4} /\ l \in Nat /\ f = a + (d + l) /\ a < p /\ p <= f /\ p \in Nat
      BY <2>2
    <3> HIDE DEF a, d, l, f
    <3> QED
      BY <3>1
  <2>4. \A j \in 1..N : NalIs(c, x, code, N, j)
    BY <1>4
  <2>5. code[i] = d
    BY <1>4
  <2> HIDE DEF a, d, l, k
  <2>6. /\ k <= d => dec[p] = data[p]
        /\ k > d => dec[p] = PlainNal(c, i)[k - d]
    <3>1. /\ k <= code[i] => DecryptAnnexb(data)[ends[i - 1] + k] = data[ends[i - 1] + k]
          /\ k > code[i] => DecryptAnnexb(data)[ends[i - 1] + k] = PlainNal(c, i)[k - code[i]]
      <4>1. k \in 1..code[i] + Len(x[i])
        BY <2>3, <2>5 DEF l
      <4> QED
        <5>1. ByteIs(c, code, ends, data, i, k)
          BY ONLY <1>2, <2>4, <4>1, i \in 1..N, UnitDecrypted
        <5> QED
          BY <5>1 DEF ByteIs
    <3> QED
      BY <2>3, <2>5, <3>1 DEF dec, a
  <2>7. /\ \A q \in 1..d - 1 : data[a + q] = 0 /\ flat[a + q] = 0
        /\ data[a + d] = 1 /\ flat[a + d] = 1
        /\ \A q \in 1..l : flat[a + (d + q)] = PlainNal(c, i)[q]
    <3>1. /\ \A q \in 1..d - 1 : data[a + q] = 0
          /\ data[a + d] = 1
      BY <1>11 DEF a, d
    <3>2. /\ \A q \in 1..d - 1 : flat[a + q] = 0
          /\ flat[a + d] = 1
          /\ \A q \in 1..l : flat[a + (d + q)] = plain[i][q]
      BY <1>8, <1>12, <2>2 DEF d, l
    <3> QED
      BY <1>7, <3>1, <3>2
  <2>8. CASE k > d
    <3>1. k - d \in 1..l /\ a + (d + (k - d)) = p
      BY <2>2, <2>3, <2>8
    <3> QED
      BY <2>6, <2>7, <2>8, <3>1
  <2>9. CASE k <= d
    <3>1. k = d \/ k \in 1..d - 1
      BY <2>2, <2>3, <2>9
    <3> QED
      BY <2>3, <2>6, <2>7, <2>9, <3>1
  <2> QED
    BY <2>2, <2>3, <2>8, <2>9
<1>16. dec = flat /\ dec \in Seq(Nat) /\ Len(dec) = Len(data)
  <2>1. dec = [p \in 1..Len(data) |-> dec[p]]
    BY AnnexbBytes DEF dec
  <2>2. flat = [p \in 1..Len(data) |-> flat[p]]
    BY <1>9, <1>14
  <2>3. dec = flat
    BY <1>15, <2>1, <2>2
  <2> QED
    BY <1>9, <1>14, <2>3
<1> QED
  BY <1>16 DEF dec, data, flat, w, nals

-------------------------------------------------------------------------------
(***************************************************************************)
(* The invariant of decrypt_mpegts, and the clip that comes out.           *)
(***************************************************************************)

\* An audio packet that a PES packet starts with begins with its header.
HeadersKept(packets) ==
    \A i \in 1..Len(packets) :
        packets[i].pid = "audio" /\ packets[i].pes > 0 =>
            /\ packets[i].pes = 4 /\ Len(packets[i].bytes) >= 4
            /\ \A k \in 1..4 : packets[i].bytes[k] = PesHeader[k]

\* What the packets carry at each stage.
AudioAt(c, packets, at) ==
    IF at = "done" /\ FindsPid(packets, "audio") THEN DecryptAdts(EncryptedAudio(c)) ELSE EncryptedAudio(c)
VideoAt(c, packets, at) ==
    IF at # "video" /\ FindsPid(packets, "video") THEN DecryptAnnexb(EncryptedVideo(c)) ELSE EncryptedVideo(c)

RecoveryInv ==
    /\ recording \in Recordings /\ stage \in {"video", "audio", "done"}
    /\ ts \in Seq(Packet) /\ PesFits(ts) /\ HeadersKept(ts)
    /\ StreamIn(ts, "audio") = AudioAt(recording, ts, stage)
    /\ StreamIn(ts, "video") = VideoAt(recording, ts, stage)

\* What there is to download.
LEMMA RecordingFits ==
    ASSUME NEW c \in Recordings
    PROVE  /\ AudioFits(c) /\ VideoFits(c) /\ c.packets \in Seq(Pieces)
           /\ \A pid \in {"video", "audio"} : Carry(c.packets, pid, Len(StreamOf(c, pid)))
<1>1. /\ c.nals \in Seq([code : {3, 4}, rbsp : Seq(Bytes) \ {<<>>}])
      /\ c.packets \in Seq([pid : {"video", "audio"}, from : Nat, to : Nat, starts : BOOLEAN])
      /\ \A pid \in {"video", "audio"} : Carry(c.packets, pid, Len(StreamOf(c, pid)))
  BY RecordingsAreClips
<1>2. AudioFits(c)
  BY RecordingsAreClips DEF AudioFits, AudioFrame
<1> QED
  BY <1>1, <1>2 DEF VideoFits, Nals, Pieces

LEMMA StreamsFit ==
    ASSUME NEW c \in Recordings
    PROVE  /\ EncryptedAudio(c) \in Seq(Nat) /\ EncryptedVideo(c) \in Seq(Nat)
           /\ DecryptAdts(EncryptedAudio(c)) \in Seq(Nat)
           /\ Len(DecryptAdts(EncryptedAudio(c))) = Len(EncryptedAudio(c))
           /\ DecryptAnnexb(EncryptedVideo(c)) \in Seq(Nat)
           /\ Len(DecryptAnnexb(EncryptedVideo(c))) = Len(EncryptedVideo(c))
<1>1. AudioFits(c) /\ VideoFits(c)
  BY RecordingFits
<1>2. AudioOff \in Nat
  BY OffsetsAreOffsets
<1>3. EncryptedAudio(c) \in Seq(Nat)
  BY <1>1, <1>2, AudioStreamIs
<1>4. EncryptedVideo(c) \in Seq(Nat)
  BY <1>1, VideoStreamIs
<1>5. DecryptAdts(EncryptedAudio(c)) \in Seq(Nat) /\ Len(DecryptAdts(EncryptedAudio(c))) = Len(EncryptedAudio(c))
  BY <1>3, DecryptAdtsTyped
<1>6. /\ DecryptAnnexb(EncryptedVideo(c)) \in Seq(Nat)
      /\ Len(DecryptAnnexb(EncryptedVideo(c))) = Len(EncryptedVideo(c))
  BY <1>1, VideoDecrypts
<1> QED
  BY <1>3, <1>4, <1>5, <1>6

\* The packets, as the camera made them.
LEMMA RecoveryInit == DecryptionInit => RecoveryInv
<1> SUFFICES ASSUME DecryptionInit PROVE RecoveryInv
  OBVIOUS
<1> DEFINE c == recording
<1>1. c \in Recordings /\ ts = Encoded(c) /\ stage = "video"
  BY DEF DecryptionInit
<1>2. /\ c.packets \in Seq(Pieces)
      /\ \A id \in {"video", "audio"} : StreamOf(c, id) \in Seq(Nat) /\ Carry(c.packets, id, Len(StreamOf(c, id)))
  <2>1. StreamOf(c, "video") = EncryptedVideo(c) /\ StreamOf(c, "audio") = EncryptedAudio(c)
    BY DEF StreamOf
  <2> QED
    BY <1>1, <2>1, RecordingFits, StreamsFit
<1> HIDE DEF c
<1>3. ASSUME NEW pid \in {"video", "audio"}
      PROVE  /\ Encoded(c) \in Seq(Packet) /\ PesFits(Encoded(c))
             /\ StreamIn(Encoded(c), pid) = StreamOf(c, pid)
             /\ HeadersKept(Encoded(c))
  BY <1>2, EncodedCarries DEF HeadersKept
<1>4. /\ StreamIn(ts, "video") = EncryptedVideo(c) /\ StreamIn(ts, "audio") = EncryptedAudio(c)
  BY <1>1, <1>3 DEF StreamOf
<1> QED
  BY <1>1, <1>3, <1>4 DEF RecoveryInv, AudioAt, VideoAt, c

\* _decrypt_pid's putting back leaves what a PID is found by.
LEMMA RewrittenKeeps ==
    ASSUME NEW P \in Seq(Packet), PesFits(P), HeadersKept(P), NEW pid \in {"video", "audio"},
           NEW dec \in Seq(Nat), Len(dec) = Len(StreamIn(P, pid)), NEW R,
           R = Rewritten(P, PidPositions(P, pid, pid = "audio"), dec)
    PROVE  /\ R \in Seq(Packet) /\ PesFits(R) /\ HeadersKept(R)
           /\ StreamIn(R, pid) = dec
           /\ \A other \in {"video", "audio"} \ {pid} : StreamIn(R, other) = StreamIn(P, other)
           /\ \A other : FindsPid(R, other) <=> FindsPid(P, other)
<1>1. /\ R \in Seq(Packet) /\ PesFits(R) /\ Len(R) = Len(P)
      /\ StreamIn(R, pid) = dec
      /\ \A other \in {"video", "audio"} \ {pid} : StreamIn(R, other) = StreamIn(P, other)
      /\ \A i \in 1..Len(P) :
            /\ R[i].pid = P[i].pid /\ R[i].pes = P[i].pes
            /\ P[i].pid # pid => R[i] = P[i]
            /\ pid = "audio" /\ P[i].pid = pid =>
                  Len(R[i].bytes) = Len(P[i].bytes)
                  /\ \A k \in 1..P[i].pes : R[i].bytes[k] = P[i].bytes[k]
  BY StreamRewritten
<1>2. HeadersKept(R)
  <2> SUFFICES ASSUME NEW i \in 1..Len(P), R[i].pid = "audio", R[i].pes > 0
               PROVE  /\ R[i].pes = 4 /\ Len(R[i].bytes) >= 4
                      /\ \A k \in 1..4 : R[i].bytes[k] = PesHeader[k]
    BY <1>1 DEF HeadersKept
  <2>1. P[i].pid = "audio" /\ P[i].pes > 0
    BY <1>1
  <2>2. P[i].pes = 4 /\ Len(P[i].bytes) >= 4 /\ \A k \in 1..4 : P[i].bytes[k] = PesHeader[k]
    BY <2>1 DEF HeadersKept
  <2>3. CASE pid = "audio"
    <3>1. /\ R[i].pes = 4 /\ Len(R[i].bytes) = Len(P[i].bytes)
          /\ \A k \in 1..4 : R[i].bytes[k] = P[i].bytes[k]
      BY <1>1, <2>1, <2>2, <2>3
    <3> QED
      BY <2>2, <3>1
  <2>4. CASE pid # "audio"
    <3>1. R[i] = P[i]
      BY <1>1, <2>1, <2>4
    <3> QED
      BY <2>2, <3>1
  <2> QED
    BY <2>3, <2>4
<1>3. ASSUME NEW other PROVE FindsPid(R, other) <=> FindsPid(P, other)
  <2>1. Len(R) = Len(P) /\ \A i \in 1..Len(P) - 1 : R[i].pid = P[i].pid /\ R[i].pes = P[i].pes
    <3>1. Len(P) \in Nat
      OBVIOUS
    <3>2. \A i \in 1..Len(P) - 1 : i \in 1..Len(P)
      BY <3>1
    <3> QED
      BY <1>1, <3>2
  <2> QED
    BY <2>1 DEF FindsPid
<1> QED
  BY <1>1, <1>2, <1>3

LEMMA VideoStep == RecoveryInv /\ DecryptVideo => RecoveryInv'
<1> SUFFICES ASSUME RecoveryInv, DecryptVideo PROVE RecoveryInv'
  OBVIOUS
<1> DEFINE c == recording
           dec == DecryptAnnexb(EncryptedVideo(c))
           positions == PidPositions(ts, "video", FALSE)
<1>1. /\ c \in Recordings /\ ts \in Seq(Packet) /\ PesFits(ts) /\ HeadersKept(ts) /\ stage = "video"
      /\ StreamIn(ts, "audio") = EncryptedAudio(c) /\ StreamIn(ts, "video") = EncryptedVideo(c)
  BY DEF RecoveryInv, DecryptVideo, AudioAt, VideoAt
<1>2. /\ stage' = "audio" /\ recording' = c
      /\ ts' = IF FindsPid(ts, "video")
               THEN Rewritten(ts, positions, DecryptAnnexb(BytesAt(ts, positions))) ELSE ts
  BY DEF DecryptVideo
<1>3. dec \in Seq(Nat) /\ Len(dec) = Len(EncryptedVideo(c))
  BY <1>1, StreamsFit
<1>4. positions = PidPositions(ts, "video", "video" = "audio")
  <2>1. ("video" = "audio") = FALSE
    OBVIOUS
  <2> QED
    BY <2>1
<1>5. BytesAt(ts, positions) = EncryptedVideo(c)
  <2>1. BytesAt(ts, PidPositions(ts, "video", "video" = "audio")) = StreamIn(ts, "video")
    BY <1>1, StreamAtPositions
  <2> QED
    BY <1>1, <1>4, <2>1
<1> HIDE DEF c, dec, positions
<1>6. CASE FindsPid(ts, "video")
  <2>1. ts' = Rewritten(ts, PidPositions(ts, "video", "video" = "audio"), dec)
    BY <1>2, <1>4, <1>5, <1>6 DEF dec
  <2>2. /\ ts' \in Seq(Packet) /\ PesFits(ts') /\ HeadersKept(ts')
        /\ StreamIn(ts', "video") = dec
        /\ \A other \in {"video", "audio"} \ {"video"} : StreamIn(ts', other) = StreamIn(ts, other)
        /\ \A other : FindsPid(ts', other) <=> FindsPid(ts, other)
    BY <1>1, <1>3, <2>1, RewrittenKeeps
  <2>3. "audio" \in {"video", "audio"} \ {"video"}
    OBVIOUS
  <2>4. StreamIn(ts', "audio") = EncryptedAudio(c)
    BY <1>1, <2>2, <2>3
  <2> QED
    BY <1>1, <1>2, <1>6, <2>2, <2>4 DEF RecoveryInv, AudioAt, VideoAt, dec, c
<1>7. CASE ~FindsPid(ts, "video")
  <2>1. ts' = ts
    BY <1>2, <1>7
  <2> QED
    BY <1>1, <1>2, <1>7, <2>1 DEF RecoveryInv, AudioAt, VideoAt, c
<1> QED
  BY <1>6, <1>7

LEMMA AudioStep == RecoveryInv /\ DecryptAudio => RecoveryInv'
<1> SUFFICES ASSUME RecoveryInv, DecryptAudio PROVE RecoveryInv'
  OBVIOUS
<1> DEFINE c == recording
           dec == DecryptAdts(EncryptedAudio(c))
           video == VideoAt(c, ts, "audio")
           positions == PidPositions(ts, "audio", TRUE)
<1>1. /\ c \in Recordings /\ ts \in Seq(Packet) /\ PesFits(ts) /\ HeadersKept(ts) /\ stage = "audio"
      /\ StreamIn(ts, "audio") = EncryptedAudio(c) /\ StreamIn(ts, "video") = video
  BY DEF RecoveryInv, DecryptAudio, AudioAt, VideoAt
<1>2. /\ stage' = "done" /\ recording' = c
      /\ ts' = IF FindsPid(ts, "audio")
               THEN Rewritten(ts, positions, DecryptAdts(BytesAt(ts, positions))) ELSE ts
  BY DEF DecryptAudio
<1>3. dec \in Seq(Nat) /\ Len(dec) = Len(EncryptedAudio(c))
  BY <1>1, StreamsFit
<1>4. positions = PidPositions(ts, "audio", "audio" = "audio")
  <2>1. ("audio" = "audio") = TRUE
    OBVIOUS
  <2> QED
    BY <2>1
<1>5. BytesAt(ts, positions) = EncryptedAudio(c)
  <2>1. BytesAt(ts, PidPositions(ts, "audio", "audio" = "audio")) = StreamIn(ts, "audio")
    BY <1>1, StreamAtPositions
  <2> QED
    BY <1>1, <1>4, <2>1
<1>6. \A packets : (\A other : FindsPid(packets, other) <=> FindsPid(ts, other)) =>
          VideoAt(c, packets, "done") = video
  BY DEF VideoAt
<1> HIDE DEF c, dec, positions, video
<1>7. CASE FindsPid(ts, "audio")
  <2>1. ts' = Rewritten(ts, PidPositions(ts, "audio", "audio" = "audio"), dec)
    BY <1>2, <1>4, <1>5, <1>7 DEF dec
  <2>2. /\ ts' \in Seq(Packet) /\ PesFits(ts') /\ HeadersKept(ts')
        /\ StreamIn(ts', "audio") = dec
        /\ \A other \in {"video", "audio"} \ {"audio"} : StreamIn(ts', other) = StreamIn(ts, other)
        /\ \A other : FindsPid(ts', other) <=> FindsPid(ts, other)
    BY <1>1, <1>3, <2>1, RewrittenKeeps
  <2>3. "video" \in {"video", "audio"} \ {"audio"}
    OBVIOUS
  <2>4. StreamIn(ts', "video") = video
    BY <1>1, <2>2, <2>3
  <2>5. VideoAt(c, ts', "done") = video
    BY <1>6, <2>2
  <2>6. AudioAt(c, ts', "done") = dec
    BY <1>7, <2>2 DEF AudioAt, dec
  <2> QED
    BY <1>1, <1>2, <2>2, <2>4, <2>5, <2>6 DEF RecoveryInv, c
<1>8. CASE ~FindsPid(ts, "audio")
  <2>1. ts' = ts
    BY <1>2, <1>8
  <2>2. VideoAt(c, ts, "done") = video
    BY <1>6
  <2>3. AudioAt(c, ts, "done") = EncryptedAudio(c)
    BY <1>8 DEF AudioAt
  <2> QED
    BY <1>1, <1>2, <2>1, <2>2, <2>3 DEF RecoveryInv, c
<1> QED
  BY <1>7, <1>8

LEMMA RecoveryHolds == DecryptionSpec => []RecoveryInv
<1>1. RecoveryInv /\ UNCHANGED decryptionVars => RecoveryInv'
  BY DEF RecoveryInv, decryptionVars
<1>2. RecoveryInv /\ [DecryptionNext]_decryptionVars => RecoveryInv'
  BY <1>1, VideoStep, AudioStep DEF DecryptionNext
<1> QED
  BY <1>2, RecoveryInit, PTL DEF DecryptionSpec

\* decrypt_annexb behind decrypt_mpegts: whatever the NAL units are, however the encoder's emulation
\* prevention moves their bytes, and wherever the packets cut them, every slice of the video comes
\* out as the camera saw it, and the start codes, PES headers and other units as they were.
THEOREM VideoIsRecovered == DecryptionSpec => []VideoRecovered
<1>1. RecoveryInv => VideoRecovered
  <2> SUFFICES ASSUME RecoveryInv, stage # "video", FindsPid(ts, "video")
               PROVE  BytesOf("video") =
                          FlattenSeq([i \in DOMAIN recording.nals |->
                              StartCode(recording.nals[i]) \o PlainNal(recording, i)])
    BY DEF VideoRecovered
  <2>1. BytesOf("video") = StreamIn(ts, "video")
    BY DEF BytesOf, StreamIn
  <2>2. StreamIn(ts, "video") = DecryptAnnexb(EncryptedVideo(recording)) /\ recording \in Recordings
    BY DEF RecoveryInv, VideoAt
  <2> QED
    BY <2>1, <2>2, RecordingFits, VideoDecrypts
<1> QED
  BY <1>1, RecoveryHolds, PTL

\* _decrypt_adts behind decrypt_mpegts: every audio frame that is in the clip to its end comes out
\* as the camera recorded it, also one that two PES packets or a cut packet have between them, and
\* the PES headers, which are not in the audio's stream, are not touched.
THEOREM AudioIsRecovered == DecryptionSpec => []AudioRecovered
<1>1. RecoveryInv => AudioRecovered
  <2> SUFFICES ASSUME RecoveryInv, stage = "done", FindsPid(ts, "audio")
               PROVE  LET full == IF recording.drop = 0 THEN recording.frames ELSE Front(recording.frames)
                          plain == FlattenSeq([i \in DOMAIN full |-> PlainFrame(full[i])])
                      IN /\ IsPrefix(plain, BytesOf("audio"))
                         /\ \A i \in DOMAIN ts : ts[i].pid = "audio" /\ ts[i].pes > 0 =>
                                                 IsPrefix(PesHeader, ts[i].bytes)
    BY DEF AudioRecovered
  <2>1. BytesOf("audio") = StreamIn(ts, "audio")
    BY DEF BytesOf, StreamIn
  <2>2. StreamIn(ts, "audio") = DecryptAdts(EncryptedAudio(recording)) /\ recording \in Recordings
        /\ ts \in Seq(Packet) /\ HeadersKept(ts)
    BY DEF RecoveryInv, AudioAt
  <2>3. AudioFits(recording) /\ AudioOff \in Nat
    BY <2>2, RecordingFits, OffsetsAreOffsets
  <2>4. ASSUME NEW i \in DOMAIN ts, ts[i].pid = "audio", ts[i].pes > 0 PROVE IsPrefix(PesHeader, ts[i].bytes)
    <3>1. ts[i] \in Packet /\ i \in 1..Len(ts)
      BY <2>2
    <3>2. ts[i].bytes \in Seq(Nat)
      BY <3>1 DEF Packet
    <3>3. Len(ts[i].bytes) >= 4 /\ \A k \in 1..4 : ts[i].bytes[k] = PesHeader[k]
      BY <2>2, <2>4, <3>1 DEF HeadersKept
    <3>4. PesHeader \in Seq(Nat) /\ Len(PesHeader) = 4
      BY DEF PesHeader
    <3> QED
      BY <3>2, <3>3, <3>4, PrefixIs
  <2> QED
    BY <2>1, <2>2, <2>3, <2>4, AudioDecrypts
<1> QED
  BY <1>1, RecoveryHolds, PTL
===============================================================================
