----------------------------- MODULE ImageViews -----------------------------
(***************************************************************************)
(* Covers and avatars: the image views of the pages and reused cells, and  *)
(* the SDWebImage code that loads into them (UIView+WebCache.m,            *)
(* SDWebImageManager.m, SDWebImageDownloader.m,                            *)
(* SDWebImageDownloaderOperation.m), with the default options the app uses.*)
(*                                                                         *)
(* A view asks for a URL and cancels what it asked for before.  The load   *)
(* queries memory at once, the disk on an I/O queue, then the downloader,  *)
(* where loads of one URL share one operation: each leaves a token on it.  *)
(* Views, the manager's completions and new tokens are the main thread's;  *)
(* start, the session's callback, decoding and the completion block of an  *)
(* operation run on other threads, with a lock around single accesses      *)
(* only.  What the caches hold is left open: any query may hit or miss.    *)
(***************************************************************************)
EXTENDS Naturals, Sequences

CONSTANTS
  Views,          \* image views
  URLs,
  None,
  maxLoads,       \* bound: loads begun
  maxDownloads    \* bound: download operations created

ASSUME NoneAssumption ==
  None \notin Views /\ None \notin URLs /\ None \notin Nat /\ None \notin [load : Nat, to : Nat]
ASSUME Bounds == maxLoads \in Nat /\ maxDownloads \in Nat

VARIABLES
  wanted,         \* sd_imageURL of each view
  shown,          \* the URL whose image it shows, None for its placeholder
  current,        \* sd_operationDictionary: the view's load, held weakly
  loads,          \* SDWebImageCombinedOperations, by number
  downloads,      \* SDWebImageDownloaderOperations, by number
  URLOperations,  \* the operation to share, per URL
  failedURLs,     \* URLs that are not tried again
  mainQueue,      \* blocks: a load, where its answer comes from, is there an image
  adding,         \* the main thread is about to leave this load's token on this operation
  dropped         \* history: loads whose token got lost

viewVars == <<wanted, shown, current>>
vars == <<viewVars, loads, downloads, URLOperations, failedURLs, mainQueue, adding, dropped>>

Load == [view : Views, url : URLs, state : {"query", "download", "ended"}]
Loads == 1 .. Len(loads)
(* told: tokens whose completion has been dispatched; pending: tokens to   *)
(* be told next, of an error or of what the decoder makes of the data.     *)
Download ==
  [url : URLs, tokens : SUBSET Nat, told : SUBSET Nat, pending : SUBSET Nat, cancelled : BOOLEAN,
   phase : {"ready", "executing", "telling", "decoding", "finished", "gone"}]
Downloads == 1 .. Len(downloads)

(* The type of the views', the manager's and the downloader's state.       *)
TypeOK ==
  /\ wanted \in [Views -> URLs \cup {None}] /\ shown \in [Views -> URLs \cup {None}]
  /\ current \in [Views -> Loads \cup {None}]
  /\ loads \in Seq(Load) /\ downloads \in Seq(Download)
  /\ URLOperations \in [URLs -> Downloads \cup {None}] /\ failedURLs \subseteq URLs
  /\ mainQueue \in Seq([load : Loads, from : {"disk", "network"}, image : BOOLEAN])
  /\ adding \in [load : Loads, to : Downloads] \cup {None} /\ dropped \subseteq Loads

Init ==
  /\ wanted = [v \in Views |-> None] /\ shown = [v \in Views |-> None]
  /\ current = [v \in Views |-> None]
  /\ loads = << >> /\ downloads = << >>
  /\ URLOperations = [u \in URLs |-> None] /\ failedURLs = {}
  /\ mainQueue = << >> /\ adding = None /\ dropped = {}

-----------------------------------------------------------------------------
(* The downloader's operation d, as values *)

newDownload(u, n) ==
  [url |-> u, tokens |-> {n}, told |-> {}, pending |-> {}, cancelled |-> FALSE, phase |-> "ready"]

(* finished = YES and reset.  When a cancel does this, every token left to *)
(* tell is a cancelled load's, whose completion does nothing.              *)
finish(op) == [op EXCEPT !.phase = "finished", !.tokens = {}, !.pending = {}]

(* cancel: with the token of load n.  The last token cancels the operation,*)
(* which does not finish before it has started.                            *)
cancelToken(op, n) ==
  IF op.phase \in {"finished", "gone"} THEN op
  ELSE IF op.tokens # {n} THEN [op EXCEPT !.tokens = @ \ {n}]
  ELSE [(IF op.phase = "ready" THEN [op EXCEPT !.tokens = {}] ELSE finish(op))
          EXCEPT !.cancelled = TRUE]

reusable(d) == d # None /\ downloads[d].phase \notin {"finished", "gone"} /\ ~downloads[d].cancelled

block(n, from, image) == [load |-> n, from |-> from, image |-> image]

-----------------------------------------------------------------------------
(* A view asks for an image, on the main thread *)

KeepLoad(v) == loads
(* The load it had is cancelled: its completions do nothing from now on.   *)
cancelLoad(v) ==
  IF current[v] = None THEN loads ELSE [loads EXCEPT ![current[v]].state = "ended"]
cancelTokenOf(v) ==
  [d \in Downloads |-> IF current[v] \in downloads[d].tokens
                       THEN cancelToken(downloads[d], current[v]) ELSE downloads[d]]

(* No URL, or one that has failed: the placeholder stays.                  *)
ShowPlaceholder(v, u) ==
  /\ u = None \/ u \in failedURLs
  /\ shown' = [shown EXCEPT ![v] = None] /\ current' = [current EXCEPT ![v] = None]
  /\ loads' = cancelLoad(v)

ShowFromMemory(v, u) ==
  /\ u # None /\ u \notin failedURLs
  /\ shown' = [shown EXCEPT ![v] = u] /\ current' = [current EXCEPT ![v] = None]
  /\ loads' = cancelLoad(v)

LoadNotRun(v, u) ==
  /\ u # None /\ u \notin failedURLs /\ Len(loads) < maxLoads
  /\ shown' = [shown EXCEPT ![v] = None]
  /\ current' = [current EXCEPT ![v] = Len(loads) + 1]
  /\ loads' = cancelLoad(v)
BeginLoad(v, u) ==
  /\ u # None /\ u \notin failedURLs /\ Len(loads) < maxLoads
  /\ shown' = [shown EXCEPT ![v] = None]
  /\ current' = [current EXCEPT ![v] = Len(loads) + 1]
  /\ loads' = Append(cancelLoad(v), [view |-> v, url |-> u, state |-> "query"])

sd_setImageWithURL(v, u) ==
  /\ adding = None
  /\ wanted' = [wanted EXCEPT ![v] = u]
  /\ downloads' = cancelTokenOf(v)
  /\ ShowPlaceholder(v, u) \/ ShowFromMemory(v, u) \/ BeginLoad(v, u)
  /\ UNCHANGED <<URLOperations, failedURLs, mainQueue, adding, dropped>>

(* The I/O queue looks on the disk and dispatches what it found.           *)
queryDisk(n) ==
  /\ loads[n].state = "query" /\ \A i \in 1 .. Len(mainQueue) : mainQueue[i].load # n
  /\ \E image \in BOOLEAN : mainQueue' = Append(mainQueue, block(n, "disk", image))
  /\ UNCHANGED <<viewVars, loads, downloads, URLOperations, failedURLs, adding, dropped>>

-----------------------------------------------------------------------------
(* The manager's completions, blocks of the main queue for load n *)

CompletionIgnored(n) ==
  /\ loads[n].state = "ended"
  /\ UNCHANGED <<viewVars, loads, downloads, URLOperations, failedURLs, adding>>

endLoad(n) ==
  /\ loads' = [loads EXCEPT ![n].state = "ended"]
  /\ current' = [current EXCEPT ![loads[n].view] = None]

ShowLoaded(n) ==
  /\ loads[n].state # "ended" /\ endLoad(n)
  /\ shown' = [shown EXCEPT ![loads[n].view] = loads[n].url]
  /\ UNCHANGED <<wanted, downloads, URLOperations, failedURLs, adding>>

(* Some errors, and data that is no image, put the URL on the list.        *)
LoadFails(n) ==
  /\ loads[n].state # "ended" /\ endLoad(n)
  /\ failedURLs' \in {failedURLs, failedURLs \cup {loads[n].url}}
  /\ UNCHANGED <<wanted, shown, downloads, URLOperations, adding>>

(* Not in the cache: a new operation, or the one at work on the URL, whose *)
(* state is looked at here and which gets the token under another lock.    *)
downloadImageWithURL(n) ==
  /\ loads[n].state = "query" /\ loads' = [loads EXCEPT ![n].state = "download"]
  /\ LET u == loads[n].url
     IN  \/ /\ reusable(URLOperations[u])
            /\ adding' = [load |-> n, to |-> URLOperations[u]]
            /\ UNCHANGED <<downloads, URLOperations>>
         \/ /\ ~reusable(URLOperations[u]) /\ Len(downloads) < maxDownloads
            /\ downloads' = Append(downloads, newDownload(u, n))
            /\ URLOperations' = [URLOperations EXCEPT ![u] = Len(downloads) + 1]
            /\ UNCHANGED adding
  /\ UNCHANGED <<viewVars, failedURLs>>

RunBlock ==
  /\ adding = None /\ mainQueue # << >> /\ mainQueue' = Tail(mainQueue)
  /\ LET b == Head(mainQueue)
     IN  \/ CompletionIgnored(b.load)
         \/ b.image /\ ShowLoaded(b.load)
         \/ ~b.image /\ b.from = "disk" /\ downloadImageWithURL(b.load)
         \/ ~b.image /\ b.from = "network" /\ LoadFails(b.load)
  /\ UNCHANGED dropped

(* A token left on an operation that has finished meanwhile is lost.       *)
addHandlersForProgress ==
  /\ adding # None /\ adding' = None
  /\ LET d == adding.to
     IN  /\ downloads' = [downloads EXCEPT ![d].tokens = @ \cup {adding.load}]
         /\ dropped' = IF downloads[d].phase \in {"finished", "gone"}
                       THEN dropped \cup {adding.load} ELSE dropped
  /\ UNCHANGED <<viewVars, loads, URLOperations, failedURLs, mainQueue>>

-----------------------------------------------------------------------------
(* An operation, on its other threads *)

operationStep == UNCHANGED <<viewVars, loads, failedURLs, adding>>

start(d) ==
  /\ downloads[d].phase = "ready"
  /\ downloads' = [downloads EXCEPT ![d] =
                     IF @.cancelled THEN finish(@) ELSE [@ EXCEPT !.phase = "executing"]]
  /\ operationStep /\ UNCHANGED <<URLOperations, mainQueue, dropped>>

(* The session's callback: an error goes to the tokens of this moment, the *)
(* data to the decoder.                                                    *)
didCompleteWithError(d) ==
  /\ downloads[d].phase = "executing"
  /\ \E phase \in {"telling", "decoding"} :
       downloads' = [downloads EXCEPT ![d].phase = phase, ![d].pending = downloads[d].tokens]
  /\ operationStep /\ UNCHANGED <<URLOperations, mainQueue, dropped>>

callCompletionBlock(d) ==
  /\ \E n \in downloads[d].pending :
       /\ downloads' = [downloads EXCEPT ![d].pending = @ \ {n}, ![d].told = @ \cup {n}]
       /\ \E image \in BOOLEAN :
            /\ image => downloads[d].phase = "decoding"
            /\ mainQueue' = Append(mainQueue, block(n, "network", image))
  /\ operationStep /\ UNCHANGED <<URLOperations, dropped>>

(* After an error: finished, whatever tokens have come since.              *)
done(d) ==
  /\ downloads[d].phase = "telling" /\ downloads[d].pending = {}
  /\ downloads' = [downloads EXCEPT ![d] = finish(@)]
  /\ dropped' = dropped \cup (downloads[d].tokens \ downloads[d].told)
  /\ operationStep /\ UNCHANGED <<URLOperations, mainQueue>>

CheckDoneForgets(d) ==
  /\ downloads[d].phase = "decoding" /\ downloads[d].pending = {}
  /\ downloads' = [downloads EXCEPT ![d] = finish(@)]
  /\ operationStep /\ UNCHANGED <<URLOperations, mainQueue, dropped>>
(* After the decoder: tokens that have come since are served as well.      *)
checkDoneWithImageData(d) ==
  /\ downloads[d].phase = "decoding" /\ downloads[d].pending = {}
  /\ LET rest == downloads[d].tokens \ downloads[d].told
     IN  downloads' = [downloads EXCEPT ![d] = IF rest = {} THEN finish(@)
                                               ELSE [@ EXCEPT !.pending = rest]]
  /\ operationStep /\ UNCHANGED <<URLOperations, mainQueue, dropped>>

BlockKeepsEntry(d) ==
  /\ downloads[d].phase = "finished"
  /\ downloads' = [downloads EXCEPT ![d].phase = "gone"]
  /\ operationStep /\ UNCHANGED <<URLOperations, mainQueue, dropped>>
(* Removes the URL's entry, whichever operation it names.                  *)
completionBlock(d) ==
  /\ downloads[d].phase = "finished"
  /\ downloads' = [downloads EXCEPT ![d].phase = "gone"]
  /\ URLOperations' = [URLOperations EXCEPT ![downloads[d].url] = None]
  /\ operationStep /\ UNCHANGED <<mainQueue, dropped>>

OperationRuns(d) ==
  \/ start(d) \/ didCompleteWithError(d) \/ callCompletionBlock(d) \/ done(d)
  \/ checkDoneWithImageData(d) \/ completionBlock(d)

-----------------------------------------------------------------------------
Next ==
  \/ \E v \in Views, u \in URLs \cup {None} : sd_setImageWithURL(v, u)
  \/ RunBlock \/ addHandlersForProgress
  \/ \E n \in Loads : queryDisk(n)
  \/ \E d \in Downloads : OperationRuns(d)

(* Fairness: the main thread and every queue get on with their work, and a *)
(* download ends, after its 15 s at the latest.                            *)
Spec ==
  /\ Init /\ [][Next]_vars
  /\ WF_vars(RunBlock) /\ WF_vars(addHandlersForProgress)
  /\ \A n \in 1 .. maxLoads : WF_vars(n \in Loads /\ queryDisk(n))
  /\ \A d \in 1 .. maxDownloads : WF_vars(d \in Downloads /\ OperationRuns(d))

-----------------------------------------------------------------------------
(* Properties *)

(* A view never shows the image of another URL than the one it was last    *)
(* asked for, in whatever order cancelled loads end: reused cells do not   *)
(* flash a former row's picture.                                           *)
NoStaleImage == \A v \in Views : shown[v] \in {wanted[v], None}

Open(n) == n \in Loads /\ loads[n].state # "ended"

(* Every load ends, with an image or an error, unless its token was lost:  *)
(* nothing else in caches, shared operations, cancels of other loads and   *)
(* decoding leaves a view waiting.                                         *)
LoadsEnd == \A n \in 1 .. maxLoads : Open(n) ~> (~Open(n) \/ n \in dropped)

(* The entry of a URL names an operation on that URL which has not been    *)
(* forgotten: a load that finds no reusable one never waits for a dead one.*)
EntryIsKnown ==
  \A u \in URLs : LET d == URLOperations[u]
                  IN  d # None => downloads[d].url = u /\ downloads[d].phase # "gone"
=============================================================================
