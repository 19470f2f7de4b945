------------------------------ MODULE Downloads ------------------------------
(***************************************************************************)
(* The download client (internal/downloadclient): a file comes from the    *)
(* cache if what lies there passes the checks of the request, else from    *)
(* one of several addresses, and is then put into the cache.  All          *)
(* downloads of a cache key share the name of its file and the name under  *)
(* which that file is written; nothing keeps them apart.                   *)
(*                                                                         *)
(* A file is named by the download that writes it, so that whoever goes on *)
(* writing after the name has passed to another file, or after the file    *)
(* got its final name, is seen to do so.  Old is a file from before.       *)
(***************************************************************************)
EXTENDS Naturals

CONSTANTS
    Fetches,        \* downloads of one cache key, each with a destination of its own
    MaxAttempts     \* addresses times retries

Old == "old"
NoFile == "no file"

ASSUME FetchesAssumption == Old \notin Fetches /\ NoFile \notin Fetches

VARIABLES
    bytes,      \* how much of a file is there: none, half, whole
    cache,      \* the file under the name of the key
    part,       \* the file under the name it is written under
    fetch,      \* the downloads: place, attempts made, file opened, what lies at the destination
    crossed     \* history: two downloads have written to the cache at the same time

downloadVars == <<bytes, cache, part, fetch, crossed>>

DownloadInit ==
    /\ bytes \in {[x \in Fetches \cup {Old} |-> IF x = Old THEN b ELSE "none"] : b \in {"half", "whole"}}
    /\ cache \in {NoFile, Old}
    /\ part \in {NoFile, Old} /\ (part = Old => cache = NoFile)
    /\ fetch = [d \in Fetches |-> [at |-> "new", tries |-> 0, source |-> NoFile, got |-> "none"]]
    /\ crossed = FALSE

Storing == {"create", "fill", "replace", "rename"}
To(d, at) == fetch' = [fetch EXCEPT ![d].at = at]
Stored == cache # NoFile

\* restoreCache: what does not pass, a missing file too, is removed by its name, whatever file has
\* that name by then.
CheckCache_open(d) ==
    /\ fetch[d].at = "new"
    /\ To(d, IF Stored THEN "restore" ELSE "load")
    /\ UNCHANGED <<bytes, cache, part, crossed>>

CheckCache(d) ==
    /\ fetch[d].at = "new"
    /\ To(d, IF Stored /\ bytes[cache] = "whole" THEN "restore" ELSE "discard")
    /\ UNCHANGED <<bytes, cache, part, crossed>>

DiscardCache(d) ==
    /\ fetch[d].at = "discard"
    /\ cache' = NoFile
    /\ To(d, "load")
    /\ UNCHANGED <<bytes, part, crossed>>

\* The copy opens the file anew, and takes what is in it when it is read.
OpenCache(d) ==
    /\ fetch[d].at = "restore"
    /\ \/ Stored /\ fetch' = [fetch EXCEPT ![d].at = "copy", ![d].source = cache]
       \/ To(d, "load")
    /\ UNCHANGED <<bytes, cache, part, crossed>>

CopyCache(d) ==
    /\ fetch[d].at = "copy"
    /\ \/ fetch' = [fetch EXCEPT ![d].at = "done", ![d].source = NoFile, ![d].got = bytes[fetch[d].source]]
       \/ fetch' = [fetch EXCEPT ![d].at = "load", ![d].source = NoFile]
    /\ UNCHANGED <<bytes, cache, part, crossed>>

\* downloadOnce: an answer that fails a check counts like no answer.
FetchOnce(d) ==
    /\ fetch[d].at = "load"
    /\ \/ fetch' = [fetch EXCEPT ![d].at = "store", ![d].got = "whole"]
       \/ fetch' = [fetch EXCEPT ![d].tries = @ + 1, ![d].at = IF fetch[d].tries + 1 < MaxAttempts THEN "load" ELSE "failed"]
       \/ To(d, "failed")
    /\ UNCHANGED <<bytes, cache, part, crossed>>

-----------------------------------------------------------------------------
(* storeCache, whose errors do not matter to the download. *)

ClearPart(d) ==
    /\ fetch[d].at = "store"
    /\ part' = NoFile
    /\ To(d, "create")
    /\ crossed' = (crossed \/ \E o \in Fetches : fetch[o].at \in Storing)
    /\ UNCHANGED <<bytes, cache>>

CreatePart(d) ==
    /\ fetch[d].at = "create"
    /\ IF part = NoFile
       THEN /\ part' = d /\ bytes' = [bytes EXCEPT ![d] = "half"]
            /\ To(d, "fill")
       ELSE To(d, "done") /\ UNCHANGED <<bytes, part>>
    /\ UNCHANGED <<cache, crossed>>

\* A copy that fails removes the file under the name it wrote to, which may be another one's.
FillPart(d) ==
    /\ fetch[d].at = "fill"
    /\ \/ bytes' = [bytes EXCEPT ![d] = "whole"] /\ To(d, "replace") /\ UNCHANGED part
       \/ part' = NoFile /\ To(d, "done") /\ UNCHANGED bytes
    /\ UNCHANGED <<cache, crossed>>

RemoveCache(d) ==
    /\ fetch[d].at = "replace"
    /\ cache' = NoFile
    /\ To(d, "rename")
    /\ UNCHANGED <<bytes, part, crossed>>

RenamePart(d) ==
    /\ fetch[d].at = "rename"
    /\ IF part = NoFile THEN UNCHANGED <<cache, part>> ELSE cache' = part /\ part' = NoFile
    /\ To(d, "done")
    /\ UNCHANGED <<bytes, crossed>>

\* The panel dies: what was half written stays so.
DownloadsEnd ==
    /\ \E d \in Fetches : fetch[d].at \notin {"new", "done", "failed"}
    /\ fetch' = [d \in Fetches |-> IF fetch[d].at \in {"new", "done"} THEN fetch[d] ELSE [fetch[d] EXCEPT !.at = "failed", !.source = NoFile]]
    /\ UNCHANGED <<bytes, cache, part, crossed>>

DownloadNext ==
    \/ \E d \in Fetches :
          \/ CheckCache(d) \/ DiscardCache(d) \/ OpenCache(d) \/ CopyCache(d) \/ FetchOnce(d)
          \/ ClearPart(d) \/ CreatePart(d) \/ FillPart(d) \/ RemoveCache(d) \/ RenamePart(d)
    \/ DownloadsEnd

DownloadSpec == DownloadInit /\ [][DownloadNext]_downloadVars

\* A download that succeeds has delivered a whole file, also after a crash has left half ones and
\* with other downloads replacing and discarding the file it copies, as long as no two of them
\* have written to the cache at the same time: the name under which they write is the same, and
\* one may give its final name to the file the other is still writing.
DeliveredWhole == \A d \in Fetches : fetch[d].at = "done" => fetch[d].got = "whole" \/ crossed
=============================================================================
