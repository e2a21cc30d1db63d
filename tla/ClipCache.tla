------------------------------ MODULE ClipCache ------------------------------
(***************************************************************************)
(* The clip view and its cache on disk (custom_components/botslab/http.py):*)
(* requests for recorded clips, each of which either finds a remuxed clip  *)
(* in the cache or makes one and puts it there.                            *)
(*                                                                         *)
(* A step is what happens between two suspension points of the handler, or *)
(* one system call of the executor thread it waits for; a thread goes on   *)
(* when the request that started it is gone.  A file is its inode, named   *)
(* after the request that created it, and either whole or short; a write   *)
(* of the clip is one system call, which the kernel does not interleave    *)
(* with a truncation.                                                      *)
(***************************************************************************)
EXTENDS Naturals

CONSTANTS
    Requests,   \* calls of BotslabClipView.get
    Clips,      \* the clips, each with its token and its path
    None        \* no file

ASSUME NoneIsNoRequest == None \notin Requests

Names == {"file", "tmp"}   \* the clip's path, and the name it is written under

VARIABLES
    clip,      \* the clip each request is for
    pc,        \* where each request, or the thread it waits for, is
    gone,      \* the requests that were cancelled: their client left
    outcome,   \* what each request was answered
    entry,     \* the directory: for a clip and a name, the inode or None
    whole,     \* the inodes that hold a whole clip
    old,       \* the inodes older than _CACHE_TTL
    fd,        \* the inode each writer has open
    victim,    \* the directory entry that each evicting thread found stale
    work,      \* the requests whose temporary work directory is there
    disturbed, \* history: clips whose files two threads handled at once
    broken     \* history: the requests that the disk or a restart kept from cleaning up

vars == <<clip, pc, gone, outcome, entry, whole, old, fd, victim, work, disturbed, broken>>
files == <<entry, whole, old, fd, victim, disturbed>>

Outcomes == {"none", "whole", "short", "missing", "failed"}

\* The thread of _write_cache: from its look at the directory to the rename.
Writing == {"evict", "remove", "create", "write", "rename"}

\* _remux with its work directory: while it is filled, used, and removed after a success or not.
Working == {"fill", "remux", "clean", "undo"}

Pc == {"new", "fetch", "prepare", "open", "done"} \cup Working \cup Writing

TypeOK ==
    /\ clip \in [Requests -> Clips]
    /\ pc \in [Requests -> Pc]
    /\ gone \in SUBSET Requests
    /\ outcome \in [Requests -> Outcomes]
    /\ entry \in [Clips \X Names -> Requests \cup {None}]
    /\ whole \in SUBSET Requests /\ old \in SUBSET Requests
    /\ fd \in [Requests -> Requests \cup {None}]
    /\ victim \in [Requests -> (Clips \X Names) \cup {None}]
    /\ work \in SUBSET Requests
    /\ disturbed \in SUBSET Clips
    /\ broken \in SUBSET Requests

Init ==
    /\ clip \in [Requests -> Clips]
    /\ pc = [r \in Requests |-> "new"]
    /\ gone = {}
    /\ outcome = [r \in Requests |-> "none"]
    /\ entry = [e \in Clips \X Names |-> None]
    /\ whole = {} /\ old = {}
    /\ fd = [r \in Requests |-> None]
    /\ victim = [r \in Requests |-> None]
    /\ work = {} /\ disturbed = {} /\ broken = {}

Path(r) == <<clip[r], "file">>
Tmp(r)  == <<clip[r], "tmp">>

Goes(r, to) == pc' = [pc EXCEPT ![r] = to]

Answers(r, what) ==
    /\ Goes(r, "done")
    /\ outcome' = [outcome EXCEPT ![r] = what]

-----------------------------------------------------------------------------
(* get: the look at the cache, and the clip from the cloud.                *)

\* _cache_valid looks at the path's size and age.
Valid(e) == entry[e] # None /\ entry[e] \in whole \ old

\* A hit goes on to open the file; a short file passes the look as well, unless it is empty.
Look(r) ==
    /\ pc[r] = "new"
    /\ \/ /\ Valid(Path(r))
          /\ Goes(r, "open")
       \/ /\ entry[Path(r)] \notin {None} \cup whole \cup old
          /\ \E to \in {"open", "fetch"} : Goes(r, to)
       \/ /\ entry[Path(r)] \in {None} \cup old
          /\ Goes(r, "fetch")
    /\ UNCHANGED <<clip, gone, outcome, work, broken, files>>

\* The session, the clip's address, its playlist and its segments, decrypted.
Fetched(r) ==
    /\ pc[r] = "fetch"
    /\ Goes(r, "prepare")
    /\ UNCHANGED <<clip, gone, outcome, work, broken, files>>

\* The account is not loaded, the session is refused, the cloud does not answer, the
\* clip is empty: 404, 502, or an error that nothing in the handler catches.
FetchFails(r) ==
    /\ pc[r] = "fetch"
    /\ Answers(r, "failed")
    /\ UNCHANGED <<clip, gone, work, broken, files>>

-----------------------------------------------------------------------------
(* _remux, in a work directory of the request's own.                       *)

\* The executor makes the directory ...
MakesWork(r) ==
    /\ pc[r] = "prepare"
    /\ work' = work \cup {r}
    /\ Goes(r, "fill")
    /\ UNCHANGED <<clip, gone, outcome, broken, files>>

\* ... and writes the segments into it; a request that is gone by then never learns the
\* directory's name.
Prepared(r) ==
    /\ pc[r] = "fill"
    /\ Goes(r, IF r \in gone THEN "done" ELSE "remux")
    /\ UNCHANGED <<clip, gone, outcome, work, broken, files>>

\* The disk takes no directory, or not all of the segments: the error comes before the try
\* whose finally removes the directory.  Or the executor never began, as the request is gone.
WorkFails(r) ==
    /\ pc[r] \in {"prepare", "fill"}
    /\ Answers(r, "failed")
    /\ broken' = IF pc[r] = "fill" THEN broken \cup {r} ELSE broken
    /\ UNCHANGED <<clip, gone, work, files>>

\* Mutated form of RemuxFails: an ffmpeg that failed leaves the directory to the next.
RemuxFailsUncleaned(r) ==
    /\ pc[r] = "remux"
    /\ Answers(r, "failed")
    /\ UNCHANGED <<clip, gone, work, broken, files>>

\* ffmpeg cannot be started, ends with an error, or leaves no result ...
RemuxFails(r) ==
    /\ pc[r] = "remux"
    /\ Goes(r, "undo")
    /\ UNCHANGED <<clip, gone, outcome, work, broken, files>>

\* ... or it is done and the result has been read: finally has the executor remove the
\* directory in either case.
Remuxed(r) ==
    /\ pc[r] = "remux"
    /\ Goes(r, "clean")
    /\ UNCHANGED <<clip, gone, outcome, work, broken, files>>

\* rmtree is told to ignore what the disk says.  Of a request that is gone it may find the
\* directory not empty in the end, since its ffmpeg was not killed, or never be begun.
Cleaned(r) ==
    /\ pc[r] \in {"clean", "undo"}
    /\ \/ work' = work \ {r} /\ UNCHANGED broken
       \/ broken' = broken \cup {r} /\ UNCHANGED work
       \/ r \in gone /\ UNCHANGED <<work, broken>>
    /\ \/ pc[r] = "clean" /\ Goes(r, "evict") /\ UNCHANGED outcome
       \/ pc[r] = "undo" /\ Answers(r, "failed")
    /\ UNCHANGED <<clip, gone, files>>

\* The client leaves: the handler is cancelled where it waits.  From the start of ffmpeg on
\* finally has the directory removed, if it has not begun to; a thread goes on.
Cancelled(r) ==
    /\ r \notin gone
    /\ pc[r] \notin {"open", "done"}
    /\ gone' = gone \cup {r}
    /\ \/ pc[r] \in {"new", "fetch"} /\ Answers(r, "failed")
       \/ pc[r] \in {"remux", "clean", "undo"} /\ Goes(r, "undo") /\ UNCHANGED outcome
       \/ pc[r] \in {"prepare", "fill"} \cup Writing /\ UNCHANGED <<pc, outcome>>
    /\ UNCHANGED <<clip, work, broken, files>>

-----------------------------------------------------------------------------
(* _write_cache, in its system calls.                                      *)

\* An entry of the directory is older than the hour...
FindsStale(r) ==
    /\ pc[r] = "evict"
    /\ \E e \in Clips \X Names :
        /\ entry[e] \in old
        /\ victim' = [victim EXCEPT ![r] = e]
    /\ Goes(r, "remove")
    /\ UNCHANGED <<clip, gone, outcome, work, broken, entry, whole, old, fd, disturbed>>

\* ... and is removed, whatever it has become in the meantime.
RemovesStale(r) ==
    /\ pc[r] = "remove"
    /\ LET e == victim[r] IN
        /\ entry' = [entry EXCEPT ![e] = None]
        /\ disturbed' = IF entry[e] \in old /\ \A q \in Requests : pc[q] = "open" => Path(q) # e
                        THEN disturbed ELSE disturbed \cup {e[1]}
    /\ victim' = [victim EXCEPT ![r] = None]
    /\ Goes(r, "evict")
    /\ UNCHANGED <<clip, gone, outcome, work, broken, whole, old, fd>>

Evicted(r) ==
    /\ pc[r] = "evict"
    /\ \A e \in Clips \X Names : entry[e] \notin old
    /\ Goes(r, "create")
    /\ UNCHANGED <<clip, gone, outcome, work, broken, files>>

\* Mutated form of Creates: the clip is written under its own name.
CreatesInPlace(r) ==
    /\ pc[r] = "create"
    /\ entry' = [entry EXCEPT ![Path(r)] = r]
    /\ fd' = [fd EXCEPT ![r] = r]
    /\ Goes(r, "write")
    /\ UNCHANGED <<clip, gone, outcome, work, broken, whole, old, victim, disturbed>>

\* open(tmp, "wb"): the name is the same for every request of the process, so a file that
\* is there is truncated, also one that another thread writes or is about to rename.
Creates(r) ==
    /\ pc[r] = "create"
    /\ LET there == entry[Tmp(r)]
           inode == IF there = None THEN r ELSE there IN
        /\ entry' = [entry EXCEPT ![Tmp(r)] = inode]
        /\ fd' = [fd EXCEPT ![r] = inode]
        /\ whole' = whole \ {inode}
        /\ old' = old \ {inode}
    /\ disturbed' = IF \E q \in Requests \ {r} :
                         clip[q] = clip[r] /\ pc[q] \in {"write", "rename"}
                    THEN disturbed \cup {clip[r]} ELSE disturbed
    /\ Goes(r, "write")
    /\ UNCHANGED <<clip, gone, outcome, work, broken, victim>>

Writes(r) ==
    /\ pc[r] = "write"
    /\ whole' = whole \cup {fd[r]}
    /\ old' = old \ {fd[r]}
    /\ Goes(r, "rename")
    /\ UNCHANGED <<clip, gone, outcome, work, broken, entry, fd, victim, disturbed>>

\* os.replace: the file under the temporary name, by whomever, becomes the clip's; when
\* another thread has renamed it away the request fails.
Renames(r) ==
    /\ pc[r] = "rename"
    /\ fd' = [fd EXCEPT ![r] = None]
    /\ \/ /\ entry[Tmp(r)] = None
          /\ Answers(r, "missing")
          /\ UNCHANGED entry
       \/ /\ entry[Tmp(r)] # None
          /\ entry' = [entry EXCEPT ![Path(r)] = entry[Tmp(r)], ![Tmp(r)] = None]
          /\ Goes(r, IF r \in gone THEN "done" ELSE "open")
          /\ UNCHANGED outcome
    /\ UNCHANGED <<clip, gone, work, broken, whole, old, victim, disturbed>>

\* FileResponse opens the file and sends what is in it.
Serves(r) ==
    /\ pc[r] = "open"
    /\ Answers(r, CASE entry[Path(r)] = None -> "missing"
                    [] entry[Path(r)] \in whole -> "whole"
                    [] OTHER -> "short")
    /\ UNCHANGED <<clip, gone, work, broken, files>>

-----------------------------------------------------------------------------
(* The hour passes; Home Assistant is restarted.                           *)

Ages(i) ==
    /\ \E e \in Clips \X Names : entry[e] = i
    /\ i \notin old
    /\ \A r \in Requests : fd[r] # i
    /\ old' = old \cup {i}
    /\ UNCHANGED <<clip, pc, gone, outcome, entry, whole, fd, victim, work, disturbed, broken>>

\* The process ends with its threads and its requests; what is on disk stays.
Restart ==
    /\ \E r \in Requests : pc[r] \notin {"new", "done"}
    /\ pc' = [r \in Requests |-> IF pc[r] = "new" THEN "new" ELSE "done"]
    /\ outcome' = [r \in Requests |->
                     IF pc[r] \in {"new", "done"} THEN outcome[r] ELSE "failed"]
    /\ fd' = [r \in Requests |-> None]
    /\ victim' = [r \in Requests |-> None]
    /\ broken' = broken \cup work
    /\ UNCHANGED <<clip, gone, entry, whole, old, work, disturbed>>

-----------------------------------------------------------------------------

Request(r) ==
    \/ Look(r) \/ Fetched(r) \/ FetchFails(r)
    \/ MakesWork(r) \/ Prepared(r) \/ WorkFails(r)
    \/ RemuxFails(r) \/ Remuxed(r) \/ Cleaned(r) \/ Cancelled(r)
    \/ FindsStale(r) \/ RemovesStale(r) \/ Evicted(r)
    \/ Creates(r) \/ Writes(r) \/ Renames(r) \/ Serves(r)

Next == (\E r \in Requests : Request(r) \/ Ages(r)) \/ Restart

Spec == Init /\ [][Next]_vars

-----------------------------------------------------------------------------

\* A clip goes wrong only where two threads had the same file in their hands: a second
\* writer between a first one's opening and its rename, or an eviction between a look and
\* the open.  Neither a restart in the middle of a write, nor an hour that passes, nor a
\* client that leaves, makes a request of the others end in a short or a missing file.
OnlyRacesSpoilClips ==
    \A r \in Requests : outcome[r] \in {"short", "missing"} => clip[r] \in disturbed

\* What is under a clip's name is a whole clip, at every moment in which it could be opened:
\* the promise of the temporary name.
NameMeansWhole ==
    \A c \in Clips \ disturbed : entry[<<c, "file">>] # None => entry[<<c, "file">>] \in whole

\* Work directories do not pile up: one that is there belongs to a request under way, unless
\* its client left, the disk failed while it was filled or removed, or the process was
\* restarted.  An ffmpeg that fails, a clip that ends in an error and a race between
\* requests leave none.
WorkIsCleaned ==
    \A r \in work : pc[r] \in Working \/ r \in gone \cup broken

=============================================================================
