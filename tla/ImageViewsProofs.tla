-------------------------- MODULE ImageViewsProofs --------------------------
(***************************************************************************)
(* Proofs about ImageViews: the type of its state, that a reused view never*)
(* shows a former URL's image, that the table of shared operations names   *)
(* operations that are known, and that every load not yet ended is owed an *)
(* answer by a thread, the safety half of LoadsEnd.                        *)
(***************************************************************************)
EXTENDS ImageViews, TLAPS, SequenceTheorems

-----------------------------------------------------------------------------
(* The inductive invariant *)

(* A load that has not ended is its view's current one, and for the URL    *)
(* the view wants.                                                         *)
OpenIsCurrent ==
  \A n \in Loads : loads[n].state # "ended" =>
    current[loads[n].view] = n /\ wanted[loads[n].view] = loads[n].url

(* Tokens are loads' that have asked the downloader, each of them once.    *)
Asked(n) == n \in Loads /\ loads[n].state # "query" /\ (adding = None \/ adding.load # n)
TokensAsked ==
  \A d \in Downloads :
    \A n \in downloads[d].tokens \cup downloads[d].pending \cup downloads[d].told : Asked(n)

AddingAsked == adding # None => loads[adding.load].state # "query"

(* A completion has been dispatched for a token that was told.             *)
Answered(n) ==
  \/ loads[n].state = "ended"
  \/ \E i \in 1 .. Len(mainQueue) : mainQueue[i].load = n
ToldIsAnswered == \A d \in Downloads : \A n \in downloads[d].told : Answered(n)

(* An operation cancelled before its start serves no load.                 *)
CancelledIsEmpty ==
  \A d \in Downloads : downloads[d].cancelled /\ downloads[d].phase = "ready" =>
    downloads[d].tokens = {} /\ (adding = None \/ adding.to # d)

(* Who owes a load that has not ended its answer: the I/O queue, a block   *)
(* of the main queue, the main thread in the middle of leaving its token,  *)
(* or an operation that has not finished; otherwise its token was lost.    *)
Live == {"ready", "executing", "telling", "decoding"}
Serves(d, n) ==
  /\ n \in downloads[d].tokens \ downloads[d].told
  /\ downloads[d].phase \in Live
Owed(n) ==
  \/ loads[n].state = "query"
  \/ Answered(n)
  \/ adding # None /\ adding.load = n
  \/ n \in dropped
  \/ \E d \in Downloads : Serves(d, n)
OpenIsOwed == \A n \in Loads : Owed(n)

IInv ==
  /\ TypeOK /\ NoStaleImage /\ EntryIsKnown
  /\ OpenIsCurrent /\ TokensAsked /\ AddingAsked
  /\ ToldIsAnswered /\ CancelledIsEmpty /\ OpenIsOwed

-----------------------------------------------------------------------------
(* Sequences and operations as values *)

(* A function on an initial segment is a sequence.                         *)
LEMMA FunctionIsSeq ==
  ASSUME NEW n \in Nat, NEW S, NEW f \in [1 .. n -> S]
  PROVE  f \in Seq(S) /\ Len(f) = n
OBVIOUS

(* Finishing an operation takes its tokens from it, nothing else.          *)
LEMMA FinishValue ==
  ASSUME NEW op \in Download
  PROVE  /\ finish(op) \in Download
         /\ finish(op).url = op.url /\ finish(op).told = op.told
         /\ finish(op).tokens = {} /\ finish(op).pending = {}
         /\ finish(op).phase = "finished" /\ finish(op).cancelled = op.cancelled
BY DEF finish, Download

(* A cancel with the token of load n changes nothing for another load that *)
(* a live operation serves; an operation that is not gone does not go.     *)
LEMMA CancelTokenValue ==
  ASSUME NEW op \in Download, NEW n
  PROVE  LET new == cancelToken(op, n)
         IN  /\ new \in Download
             /\ new.url = op.url /\ new.told = op.told
             /\ new.tokens \subseteq op.tokens /\ new.pending \subseteq op.pending
             /\ new.phase = op.phase \/ (new.phase = "finished" /\ op.phase \in Live)
             /\ \A m \in op.tokens : m # n /\ op.phase \in Live =>
                  m \in new.tokens /\ new.phase = op.phase
             /\ new.cancelled /\ new.phase = "ready" =>
                  new.tokens = {} \/ (op.cancelled /\ op.phase = "ready")
             /\ new.cancelled /\ ~op.cancelled => n \in op.tokens
<1> DEFINE new == cancelToken(op, n)
<1>1. CASE op.phase \in {"finished", "gone"}
  <2>1. new = op
    BY <1>1 DEF cancelToken
  <2> QED BY <1>1, <2>1 DEF Live, Download
<1>2. CASE op.phase \notin {"finished", "gone"} /\ op.tokens # {n}
  <2>1. new = [op EXCEPT !.tokens = op.tokens \ {n}]
    BY <1>2 DEF cancelToken
  <2> QED BY <1>2, <2>1 DEF Live, Download
<1>3. CASE op.phase = "ready" /\ op.tokens = {n}
  <2> DEFINE yes == TRUE
  <2>1. new = [[op EXCEPT !.tokens = {}] EXCEPT !.cancelled = yes]
    BY <1>3 DEF cancelToken
  <2>2. yes = TRUE
    OBVIOUS
  <2> HIDE DEF yes
  <2> QED BY <1>3, <2>1, <2>2 DEF Live, Download
<1>4. CASE op.phase \notin {"ready", "finished", "gone"} /\ op.tokens = {n}
  <2> DEFINE yes == TRUE
             done1 == finish(op)
  <2>1. new = [done1 EXCEPT !.cancelled = yes]
    BY <1>4 DEF cancelToken
  <2>2. yes = TRUE
    OBVIOUS
  <2>3. /\ done1 \in Download /\ done1.url = op.url /\ done1.told = op.told
        /\ done1.tokens = {} /\ done1.pending = {} /\ done1.phase = "finished"
    BY FinishValue
  <2>4. op.phase \in Live
    BY <1>4 DEF Live, Download
  <2> HIDE DEF yes, done1
  <2>5. /\ new \in Download /\ new.url = op.url /\ new.told = op.told
        /\ new.tokens = {} /\ new.pending = {} /\ new.phase = "finished"
    BY <2>1, <2>2, <2>3 DEF Download
  <2> HIDE DEF new
  <2> QED BY <1>4, <2>4, <2>5 DEF new
<1> QED BY <1>1, <1>2, <1>3, <1>4
-----------------------------------------------------------------------------
(* The steps of an operation *)

Block == [load : Loads, from : {"disk", "network"}, image : BOOLEAN]

(* What the type invariant says of single entries, as values.              *)
LEMMA Entries ==
  ASSUME TypeOK
  PROVE  /\ Len(loads) \in Nat /\ Len(downloads) \in Nat /\ Len(mainQueue) \in Nat
         /\ \A n \in Loads : loads[n] \in Load
         /\ \A d \in Downloads : downloads[d] \in Download
         /\ \A i \in 1 .. Len(mainQueue) : mainQueue[i] \in Block
<1>1. loads \in Seq(Load) /\ downloads \in Seq(Download) /\ mainQueue \in Seq(Block)
  BY DEF TypeOK, Block
<1> QED BY <1>1, ElementOfSeq, LenProperties DEF Loads, Downloads

(* What a step of operation d that leaves it as op must respect.           *)
OperationFrame(d, op) ==
  /\ operationStep
  /\ op \in Download /\ op.url = downloads[d].url
  /\ downloads' = [downloads EXCEPT ![d] = op]
  /\ op.tokens \cup op.pending \cup op.told \subseteq
       downloads[d].tokens \cup downloads[d].pending \cup downloads[d].told
  /\ \A n \in op.told : Answered(n)'
  /\ op.cancelled /\ op.phase = "ready" =>
       downloads[d].cancelled /\ downloads[d].phase = "ready" /\ op.tokens \subseteq downloads[d].tokens
  /\ \A n \in Loads : Serves(d, n) =>
       (n \in op.tokens \ op.told /\ op.phase \in Live) \/ n \in dropped' \/ Answered(n)'
  /\ \/ URLOperations' = URLOperations /\ (op.phase = "gone" => downloads[d].phase = "gone")
     \/ URLOperations' = [URLOperations EXCEPT ![op.url] = None]
  /\ dropped \subseteq dropped' /\ dropped' \subseteq Loads
  /\ mainQueue' \in Seq(Block) /\ \A n \in Loads : Answered(n) => Answered(n)'

(* Every step within the frame keeps the invariant.                        *)
LEMMA OperationKeeps ==
  ASSUME IInv, NEW d \in Downloads, NEW op, OperationFrame(d, op)
  PROVE  IInv'
<1> USE DEF OperationFrame
<1>1. /\ wanted' = wanted /\ shown' = shown /\ current' = current /\ loads' = loads
      /\ failedURLs' = failedURLs /\ adding' = adding /\ Loads' = Loads
  BY DEF operationStep, viewVars, Loads
<1>2. /\ TypeOK /\ NoStaleImage /\ EntryIsKnown
      /\ OpenIsCurrent /\ TokensAsked /\ AddingAsked
      /\ ToldIsAnswered /\ CancelledIsEmpty /\ OpenIsOwed
  BY DEF IInv
<1>3. /\ downloads' \in Seq(Download) /\ Len(downloads') = Len(downloads) /\ Downloads' = Downloads
      /\ downloads'[d] = op
      /\ \A e \in Downloads : e # d => downloads'[e] = downloads[e]
  BY <1>2, ExceptSeq DEF TypeOK, Downloads
<1>4. \A e \in Downloads : downloads[e] \in Download
  BY <1>2, Entries
<1>5. Block' = Block
  BY <1>1 DEF Block
<1>6. TypeOK'
  <2>1. URLOperations' \in [URLs -> Downloads \cup {None}]
    BY <1>2 DEF TypeOK, Download
  <2> QED BY <1>1, <1>2, <1>3, <2>1 DEF TypeOK, Block
<1>7. NoStaleImage'
  BY <1>1, <1>2 DEF NoStaleImage
<1>8. EntryIsKnown'
  <2> SUFFICES ASSUME NEW u \in URLs, URLOperations'[u] # None
               PROVE  /\ downloads'[URLOperations'[u]].url = u
                      /\ downloads'[URLOperations'[u]].phase # "gone"
    BY DEF EntryIsKnown
  <2> DEFINE e == URLOperations[u]
  <2>1. URLOperations'[u] = e /\ e # None /\ e \in Downloads
    BY <1>2 DEF TypeOK
  <2>2. downloads[e].url = u /\ downloads[e].phase # "gone"
    BY <1>2, <2>1 DEF EntryIsKnown
  <2>3. CASE e = d
    <3>1. op.phase # "gone"
      <4>1. ASSUME URLOperations' = [URLOperations EXCEPT ![op.url] = None] PROVE FALSE
        BY <1>2, <2>1, <2>2, <2>3, <4>1 DEF TypeOK
      <4> QED BY <2>2, <2>3, <4>1
    <3> QED BY <1>3, <2>1, <2>2, <2>3, <3>1
  <2>4. CASE e # d
    BY <1>3, <2>1, <2>2, <2>4
  <2> QED BY <2>3, <2>4
<1>9. OpenIsCurrent'
  BY <1>1, <1>2 DEF OpenIsCurrent
<1>10. TokensAsked'
  <2>1. \A n : Asked(n) <=> Asked(n)'
    BY <1>1 DEF Asked
  <2>2. ASSUME NEW e \in Downloads,
               NEW n \in downloads'[e].tokens \cup downloads'[e].pending \cup downloads'[e].told
        PROVE  Asked(n)
    <3>1. n \in downloads[e].tokens \cup downloads[e].pending \cup downloads[e].told
      BY <1>3, <2>2
    <3> QED BY <1>2, <3>1 DEF TokensAsked
  <2> QED BY <1>3, <2>1, <2>2 DEF TokensAsked
<1>11. AddingAsked'
  BY <1>1, <1>2 DEF AddingAsked
<1>12. ToldIsAnswered'
  <2>1. ASSUME NEW e \in Downloads, NEW n \in downloads'[e].told
        PROVE  Answered(n)'
    <3>1. CASE e = d
      BY <1>3, <2>1, <3>1
    <3>2. CASE e # d
      <4>1. n \in downloads[e].told
        BY <1>3, <2>1, <3>2
      <4>2. n \in Loads /\ Answered(n)
        BY <1>2, <4>1 DEF ToldIsAnswered, TokensAsked, Asked
      <4> QED BY <4>2
    <3> QED BY <3>1, <3>2
  <2> QED BY <1>3, <2>1 DEF ToldIsAnswered
<1>13. CancelledIsEmpty'
  BY <1>1, <1>2, <1>3 DEF CancelledIsEmpty
<1>14. OpenIsOwed'
  <2> SUFFICES ASSUME NEW n \in Loads PROVE Owed(n)'
    BY <1>1 DEF OpenIsOwed
  <2>1. Owed(n)
    BY <1>2 DEF OpenIsOwed
  <2>2. CASE loads[n].state = "query" \/ (adding # None /\ adding.load = n) \/ n \in dropped
    BY <1>1, <2>2 DEF Owed
  <2>3. CASE Answered(n)
    BY <2>3 DEF Owed
  <2>4. ASSUME NEW e \in Downloads, Serves(e, n)
        PROVE  Owed(n)'
    <3>1. CASE e = d
      BY <1>3, <2>4, <3>1 DEF Owed, Serves
    <3>2. CASE e # d
      BY <1>3, <2>4, <3>2 DEF Owed, Serves
    <3> QED BY <3>1, <3>2
  <2> QED BY <2>1, <2>2, <2>3, <2>4 DEF Owed
<1> QED BY <1>6, <1>7, <1>8, <1>9, <1>10, <1>11, <1>12, <1>13, <1>14 DEF IInv

(* A block more in the main queue answers its load and forgets none.       *)
LEMMA AnsweredByAppend ==
  ASSUME TypeOK, loads' = loads, NEW b \in Block, mainQueue' = Append(mainQueue, b)
  PROVE  /\ mainQueue' \in Seq(Block) /\ Answered(b.load)'
         /\ \A n : Answered(n) => Answered(n)'
<1>1. mainQueue \in Seq(Block)
  BY DEF TypeOK, Block
<1>2. /\ mainQueue' \in Seq(Block) /\ Len(mainQueue') = Len(mainQueue) + 1 /\ Len(mainQueue) \in Nat
      /\ \A i \in 1 .. Len(mainQueue) : mainQueue'[i] = mainQueue[i]
      /\ mainQueue'[Len(mainQueue) + 1] = b
  BY <1>1, AppendProperties, LenProperties
<1>3. Answered(b.load)'
  BY <1>2 DEF Answered
<1>4. ASSUME NEW n, Answered(n) PROVE Answered(n)'
  BY <1>2, <1>4 DEF Answered
<1> QED BY <1>2, <1>3, <1>4

(* Each step of an operation respects the frame.                           *)
LEMMA OperationRunsKeeps ==
  ASSUME IInv, NEW d \in Downloads, OperationRuns(d)
  PROVE  IInv'
<1>1. /\ TypeOK /\ TokensAsked /\ ToldIsAnswered /\ CancelledIsEmpty
  BY DEF IInv
<1>2. downloads[d] \in Download /\ dropped \subseteq Loads
  BY <1>1, Entries DEF TypeOK
<1>3. mainQueue \in Seq(Block)
  BY <1>1 DEF TypeOK, Block
<1>4. ASSUME operationStep, mainQueue' = mainQueue
      PROVE  /\ mainQueue' \in Seq(Block) /\ \A n : Answered(n) => Answered(n)'
             /\ \A n \in downloads[d].told : Answered(n)'
  BY <1>1, <1>3, <1>4 DEF Answered, operationStep, ToldIsAnswered
<1>5. /\ downloads[d].tokens \subseteq Loads /\ downloads[d].pending \subseteq Loads
      /\ downloads[d].told \subseteq Loads
  BY <1>1 DEF TokensAsked, Asked
<1>6. CASE start(d)
  <2>1. CASE downloads[d].cancelled
    <3> DEFINE op == finish(downloads[d])
    <3>1. downloads' = [downloads EXCEPT ![d] = op]
      BY <1>6, <2>1 DEF start
    <3>2. downloads[d].tokens = {}
      BY <1>1, <1>6, <2>1 DEF CancelledIsEmpty, start
    <3>3. /\ op \in Download /\ op.url = downloads[d].url /\ op.told = downloads[d].told
          /\ op.tokens = {} /\ op.pending = {} /\ op.phase = "finished"
      BY <1>2, FinishValue
    <3> HIDE DEF op
    <3>4. OperationFrame(d, op)
      BY <1>2, <1>4, <1>6, <3>1, <3>2, <3>3 DEF OperationFrame, start, Serves
    <3> QED BY <3>4, OperationKeeps
  <2>2. CASE ~downloads[d].cancelled
    <3> DEFINE op == [downloads[d] EXCEPT !.phase = "executing"]
    <3>1. downloads' = [downloads EXCEPT ![d] = op]
      BY <1>6, <2>2 DEF start
    <3>2. /\ op \in Download /\ op.url = downloads[d].url /\ op.told = downloads[d].told
          /\ op.tokens = downloads[d].tokens /\ op.pending = downloads[d].pending
          /\ op.phase = "executing"
      BY <1>2 DEF Download
    <3> HIDE DEF op
    <3>3. OperationFrame(d, op)
      BY <1>2, <1>4, <1>6, <3>1, <3>2 DEF OperationFrame, start, Serves, Live
    <3> QED BY <3>3, OperationKeeps
  <2> QED BY <2>1, <2>2
<1>7. CASE didCompleteWithError(d)
  <2>1. PICK phase \in {"telling", "decoding"} :
          downloads' = [downloads EXCEPT ![d].phase = phase, ![d].pending = downloads[d].tokens]
    BY <1>7 DEF didCompleteWithError
  <2> DEFINE op == [downloads[d] EXCEPT !.phase = phase, !.pending = downloads[d].tokens]
  <2>2. downloads' = [downloads EXCEPT ![d] = op]
    <3>1. downloads \in [1 .. Len(downloads) -> Download] /\ d \in 1 .. Len(downloads)
      BY <1>1, LenProperties DEF TypeOK, Downloads
    <3> QED BY <2>1, <3>1 DEF Download
  <2>3. /\ op \in Download /\ op.url = downloads[d].url /\ op.told = downloads[d].told
        /\ op.tokens = downloads[d].tokens /\ op.pending = downloads[d].tokens
        /\ op.phase = phase
    BY <1>2 DEF Download
  <2> HIDE DEF op
  <2>4. OperationFrame(d, op)
    BY <1>2, <1>4, <1>7, <2>2, <2>3 DEF OperationFrame, didCompleteWithError, Serves, Live
  <2> QED BY <2>4, OperationKeeps
<1>8. CASE callCompletionBlock(d)
  <2>1. PICK n \in downloads[d].pending :
          /\ downloads' = [downloads EXCEPT ![d].pending = @ \ {n}, ![d].told = @ \cup {n}]
          /\ \E image \in BOOLEAN : mainQueue' = Append(mainQueue, block(n, "network", image))
    BY <1>8 DEF callCompletionBlock
  <2>2. PICK image \in BOOLEAN : mainQueue' = Append(mainQueue, block(n, "network", image))
    BY <2>1
  <2> DEFINE op == [downloads[d] EXCEPT !.pending = downloads[d].pending \ {n},
                                        !.told = downloads[d].told \cup {n}]
  <2>3. downloads' = [downloads EXCEPT ![d] = op]
    <3>1. downloads \in [1 .. Len(downloads) -> Download] /\ d \in 1 .. Len(downloads)
      BY <1>1, LenProperties DEF TypeOK, Downloads
    <3> QED BY <2>1, <3>1 DEF Download
  <2>4. n \in Loads /\ n \in Nat
    BY <1>1, <1>5, <2>1, Entries DEF Loads
  <2>5. /\ op \in Download /\ op.url = downloads[d].url /\ op.told = downloads[d].told \cup {n}
        /\ op.tokens = downloads[d].tokens /\ op.pending = downloads[d].pending \ {n}
        /\ op.phase = downloads[d].phase /\ op.cancelled = downloads[d].cancelled
    BY <1>2, <2>4 DEF Download
  <2>6. block(n, "network", image) \in Block /\ block(n, "network", image).load = n
    BY <2>4 DEF block, Block
  <2>7. operationStep /\ URLOperations' = URLOperations /\ dropped' = dropped
    BY <1>8 DEF callCompletionBlock
  <2>8. /\ mainQueue' \in Seq(Block) /\ Answered(n)' /\ \A m : Answered(m) => Answered(m)'
    BY <1>1, <2>2, <2>6, <2>7, AnsweredByAppend DEF operationStep
  <2>9. \A m \in op.told : Answered(m)'
    BY <1>1, <2>5, <2>8 DEF ToldIsAnswered
  <2>10. \A m \in Loads : Serves(d, m) =>
           (m \in op.tokens \ op.told /\ op.phase \in Live) \/ m \in dropped' \/ Answered(m)'
    BY <2>5, <2>8 DEF Serves
  <2> HIDE DEF op
  <2>11. OperationFrame(d, op)
    BY <1>2, <2>1, <2>3, <2>5, <2>7, <2>8, <2>9, <2>10 DEF OperationFrame
  <2> QED BY <2>11, OperationKeeps
<1>9. CASE done(d)
  <2> DEFINE op == finish(downloads[d])
  <2>1. downloads' = [downloads EXCEPT ![d] = op]
    BY <1>9 DEF done
  <2>2. /\ op \in Download /\ op.url = downloads[d].url /\ op.told = downloads[d].told
        /\ op.tokens = {} /\ op.pending = {} /\ op.phase = "finished"
    BY <1>2, FinishValue
  <2> HIDE DEF op
  <2>3. OperationFrame(d, op)
    BY <1>2, <1>4, <1>5, <1>9, <2>1, <2>2 DEF OperationFrame, done, Serves
  <2> QED BY <2>3, OperationKeeps
<1>10. CASE checkDoneWithImageData(d)
  <2> DEFINE rest == downloads[d].tokens \ downloads[d].told
  <2>1. CASE rest = {}
    <3> DEFINE op == finish(downloads[d])
    <3>1. downloads' = [downloads EXCEPT ![d] = op]
      BY <1>10, <2>1 DEF checkDoneWithImageData
    <3>2. /\ op \in Download /\ op.url = downloads[d].url /\ op.told = downloads[d].told
          /\ op.tokens = {} /\ op.pending = {} /\ op.phase = "finished"
      BY <1>2, FinishValue
    <3> HIDE DEF op
    <3>3. OperationFrame(d, op)
      BY <1>2, <1>4, <1>10, <2>1, <3>1, <3>2
         DEF OperationFrame, checkDoneWithImageData, Serves
    <3> QED BY <3>3, OperationKeeps
  <2>2. CASE rest # {}
    <3> DEFINE op == [downloads[d] EXCEPT !.pending = rest]
    <3>1. downloads' = [downloads EXCEPT ![d] = op]
      BY <1>10, <2>2 DEF checkDoneWithImageData
    <3>2. /\ op \in Download /\ op.url = downloads[d].url /\ op.told = downloads[d].told
          /\ op.tokens = downloads[d].tokens /\ op.pending = rest
          /\ op.phase = "decoding"
      BY <1>2, <1>10 DEF Download, checkDoneWithImageData
    <3> HIDE DEF op
    <3>3. OperationFrame(d, op)
      BY <1>2, <1>4, <1>10, <2>2, <3>1, <3>2
         DEF OperationFrame, checkDoneWithImageData, Serves, Live
    <3> QED BY <3>3, OperationKeeps
  <2> QED BY <2>1, <2>2
<1>11. CASE completionBlock(d)
  <2> DEFINE op == [downloads[d] EXCEPT !.phase = "gone"]
  <2>1. downloads' = [downloads EXCEPT ![d] = op]
    <3>1. downloads \in [1 .. Len(downloads) -> Download] /\ d \in 1 .. Len(downloads)
      BY <1>1, LenProperties DEF TypeOK, Downloads
    <3> QED BY <1>11, <3>1 DEF completionBlock, Download
  <2>2. /\ op \in Download /\ op.url = downloads[d].url /\ op.told = downloads[d].told
        /\ op.tokens = downloads[d].tokens /\ op.pending = downloads[d].pending
        /\ op.phase = "gone"
    BY <1>2 DEF Download
  <2> HIDE DEF op
  <2>3. OperationFrame(d, op)
    BY <1>2, <1>4, <1>11, <2>1, <2>2 DEF OperationFrame, completionBlock, Serves, Live
  <2> QED BY <2>3, OperationKeeps
<1> QED BY <1>6, <1>7, <1>8, <1>9, <1>10, <1>11 DEF OperationRuns

-----------------------------------------------------------------------------
(* The I/O queue and the tokens *)

(* The I/O queue dispatches its answer for a load.                         *)
LEMMA QueryDiskKeeps ==
  ASSUME IInv, NEW n \in Loads, queryDisk(n)
  PROVE  IInv'
<1>1. PICK image \in BOOLEAN : mainQueue' = Append(mainQueue, block(n, "disk", image))
  BY DEF queryDisk
<1>2. /\ wanted' = wanted /\ shown' = shown /\ current' = current /\ loads' = loads
      /\ failedURLs' = failedURLs /\ adding' = adding /\ downloads' = downloads
      /\ URLOperations' = URLOperations /\ dropped' = dropped
      /\ Loads' = Loads /\ Downloads' = Downloads
  BY DEF queryDisk, viewVars, Loads, Downloads
<1>3. block(n, "disk", image) \in Block
  BY DEF block, Block
<1>4. mainQueue' \in Seq(Block) /\ \A m : Answered(m) => Answered(m)'
  BY <1>1, <1>2, <1>3, AnsweredByAppend DEF IInv
<1>5. TypeOK'
  BY <1>2, <1>4 DEF IInv, TypeOK, Block
<1>6. NoStaleImage' /\ EntryIsKnown' /\ OpenIsCurrent' /\ AddingAsked' /\ CancelledIsEmpty'
  BY <1>2 DEF IInv, NoStaleImage, EntryIsKnown, OpenIsCurrent, AddingAsked, CancelledIsEmpty
<1>7. TokensAsked'
  BY <1>2 DEF IInv, TokensAsked, Asked
<1>8. ToldIsAnswered'
  BY <1>2, <1>4 DEF IInv, ToldIsAnswered
<1>9. OpenIsOwed'
  BY <1>2, <1>4 DEF IInv, OpenIsOwed, Owed, Serves
<1> QED BY <1>5, <1>6, <1>7, <1>8, <1>9 DEF IInv

(* A token is left on an operation, or lost if that has finished.          *)
LEMMA AddHandlersKeeps ==
  ASSUME IInv, addHandlersForProgress
  PROVE  IInv'
<1>0. PICK n \in Loads, d \in Downloads :
       adding # None /\ adding.load = n /\ adding.to = d
  BY DEF IInv, TypeOK, addHandlersForProgress
<1> DEFINE op == [downloads[d] EXCEPT !.tokens = downloads[d].tokens \cup {n}]
<1>1. /\ wanted' = wanted /\ shown' = shown /\ current' = current /\ loads' = loads
      /\ failedURLs' = failedURLs /\ adding' = None /\ adding # None
      /\ URLOperations' = URLOperations /\ mainQueue' = mainQueue /\ Loads' = Loads
      /\ downloads' = [downloads EXCEPT ![d].tokens = @ \cup {n}]
      /\ dropped' = IF downloads[d].phase \in {"finished", "gone"} THEN dropped \cup {n} ELSE dropped
  BY <1>0 DEF addHandlersForProgress, viewVars, Loads
<1>2. /\ TypeOK /\ NoStaleImage /\ EntryIsKnown
      /\ OpenIsCurrent /\ TokensAsked /\ AddingAsked
      /\ ToldIsAnswered /\ CancelledIsEmpty /\ OpenIsOwed
  BY DEF IInv
<1>3. n \in Loads /\ d \in Downloads /\ n \in Nat
  BY <1>1, <1>2, Entries DEF Loads
<1>4. downloads[d] \in Download
  BY <1>2, <1>3, Entries
<1>5. downloads' = [downloads EXCEPT ![d] = op]
  <2>1. downloads \in [1 .. Len(downloads) -> Download] /\ d \in 1 .. Len(downloads)
    BY <1>2, <1>3, LenProperties DEF TypeOK, Downloads
  <2> QED BY <1>1, <2>1 DEF Download
<1>6. /\ op \in Download /\ op.url = downloads[d].url /\ op.told = downloads[d].told
      /\ op.tokens = downloads[d].tokens \cup {n} /\ op.pending = downloads[d].pending
      /\ op.phase = downloads[d].phase /\ op.cancelled = downloads[d].cancelled
  BY <1>3, <1>4 DEF Download
<1> HIDE DEF op
<1>7. /\ downloads' \in Seq(Download) /\ Len(downloads') = Len(downloads) /\ Downloads' = Downloads
      /\ downloads'[d] = op
      /\ \A e \in Downloads : e # d => downloads'[e] = downloads[e]
  BY <1>2, <1>3, <1>5, <1>6, ExceptSeq DEF TypeOK, Downloads
<1>8. TypeOK'
  BY <1>1, <1>2, <1>3, <1>7 DEF TypeOK
<1>9. NoStaleImage' /\ OpenIsCurrent' /\ AddingAsked'
  BY <1>1, <1>2 DEF NoStaleImage, OpenIsCurrent, AddingAsked
<1>10. EntryIsKnown'
  BY <1>1, <1>2, <1>6, <1>7 DEF EntryIsKnown, TypeOK
<1>11. TokensAsked'
  <2>1. Asked(n)' /\ \A m : Asked(m) => Asked(m)'
    BY <1>1, <1>2, <1>0 DEF Asked, AddingAsked
  <2> SUFFICES ASSUME NEW e \in Downloads,
                      NEW m \in downloads'[e].tokens \cup downloads'[e].pending \cup downloads'[e].told
               PROVE  Asked(m)'
    BY <1>7 DEF TokensAsked
  <2>2. m = n \/ m \in downloads[e].tokens \cup downloads[e].pending \cup downloads[e].told
    BY <1>6, <1>7
  <2> QED BY <1>2, <2>1, <2>2 DEF TokensAsked
<1>12. ToldIsAnswered'
  BY <1>1, <1>2, <1>6, <1>7 DEF ToldIsAnswered, Answered
<1>13. CancelledIsEmpty'
  <2>1. ~(downloads[d].cancelled /\ downloads[d].phase = "ready")
    BY <1>1, <1>2, <1>0 DEF CancelledIsEmpty
  <2> QED BY <1>1, <1>2, <1>6, <1>7, <2>1 DEF CancelledIsEmpty
<1>14. OpenIsOwed'
  <2> SUFFICES ASSUME NEW m \in Loads PROVE Owed(m)'
    BY <1>1 DEF OpenIsOwed
  <2>1. CASE m = n
    <3>1. n \notin downloads[d].told
      BY <1>1, <1>2, <1>0 DEF TokensAsked, Asked
    <3>2. CASE downloads[d].phase \in {"finished", "gone"}
      BY <1>1, <2>1, <3>2 DEF Owed
    <3>3. CASE downloads[d].phase \notin {"finished", "gone"}
      <4>1. downloads[d].phase \in Live
        BY <1>4, <3>3 DEF Download, Live
      <4>2. Serves(d, m)'
        BY <1>6, <1>7, <2>1, <3>1, <4>1 DEF Serves
      <4> QED BY <1>3, <1>7, <4>2 DEF Owed
    <3> QED BY <3>2, <3>3
  <2>2. CASE m # n
    <3>1. Owed(m)
      BY <1>2 DEF OpenIsOwed
    <3>2. CASE loads[m].state = "query" \/ m \in dropped \/ Answered(m)
      BY <1>1, <3>2 DEF Owed, Answered
    <3>3. ASSUME NEW e \in Downloads, Serves(e, m)
          PROVE  Owed(m)'
      <4>1. Serves(e, m)'
        BY <1>6, <1>7, <3>3 DEF Serves
      <4> QED BY <1>7, <4>1 DEF Owed
    <3> QED BY <1>0, <2>2, <3>1, <3>2, <3>3 DEF Owed
  <2> QED BY <2>1, <2>2
<1> QED BY <1>8, <1>9, <1>10, <1>11, <1>12, <1>13, <1>14 DEF IInv

-----------------------------------------------------------------------------
(* A view asks for an image *)

(* What the cancel of view v's load leaves of the loads.                   *)
LEMMA CancelLoadValue ==
  ASSUME TypeOK, NEW v \in Views
  PROVE  /\ cancelLoad(v) \in Seq(Load) /\ Len(cancelLoad(v)) = Len(loads)
         /\ \A n \in Loads :
              /\ cancelLoad(v)[n].view = loads[n].view /\ cancelLoad(v)[n].url = loads[n].url
              /\ cancelLoad(v)[n].state = IF n = current[v] THEN "ended" ELSE loads[n].state
<1>1. loads \in Seq(Load) /\ current[v] \in Loads \cup {None} /\ None \notin Loads
  BY NoneAssumption, Entries DEF TypeOK, Loads
<1>2. CASE current[v] = None
  BY <1>1, <1>2 DEF cancelLoad
<1>3. CASE current[v] # None
  <2> DEFINE c == current[v]
             ended == [loads[c] EXCEPT !.state = "ended"]
  <2>1. c \in Loads /\ loads[c] \in Load
    BY <1>1, <1>3, Entries
  <2>2. cancelLoad(v) = [loads EXCEPT ![c] = ended]
    <3>1. loads \in [1 .. Len(loads) -> Load] /\ c \in 1 .. Len(loads)
      BY <1>1, <2>1, LenProperties DEF Loads
    <3> QED BY <1>3, <3>1 DEF cancelLoad, Load
  <2>3. ended \in Load /\ ended.view = loads[c].view /\ ended.url = loads[c].url /\ ended.state = "ended"
    BY <2>1 DEF Load
  <2> HIDE DEF ended
  <2> QED BY <1>1, <2>1, <2>2, <2>3, ExceptSeq DEF Loads
<1> QED BY <1>2, <1>3

(* What it leaves of the operations.                                       *)
LEMMA CancelTokenOfValue ==
  ASSUME TypeOK, NEW v \in Views
  PROVE  LET new == cancelTokenOf(v)
         IN  /\ new \in Seq(Download) /\ Len(new) = Len(downloads)
             /\ \A d \in Downloads :
                  /\ new[d].url = downloads[d].url /\ new[d].told = downloads[d].told
                  /\ new[d].tokens \subseteq downloads[d].tokens
                  /\ new[d].pending \subseteq downloads[d].pending
                  /\ new[d].phase = "gone" => downloads[d].phase = "gone"
                  /\ \A m \in downloads[d].tokens :
                       m # current[v] /\ downloads[d].phase \in Live =>
                         m \in new[d].tokens /\ new[d].phase = downloads[d].phase
                  /\ new[d].cancelled /\ new[d].phase = "ready" => new[d].tokens = {} \/
                       (downloads[d].cancelled /\ downloads[d].phase = "ready")
<1> DEFINE new == cancelTokenOf(v)
<1>1. Len(downloads) \in Nat /\ \A d \in Downloads : downloads[d] \in Download
  BY Entries
<1>2. \A d \in Downloads : new[d] = downloads[d] \/ new[d] = cancelToken(downloads[d], current[v])
  BY DEF cancelTokenOf
<1>3. \A d \in Downloads : new[d] \in Download
  BY <1>1, <1>2, CancelTokenValue
<1>4. new \in Seq(Download) /\ Len(new) = Len(downloads)
  <2>1. new \in [1 .. Len(downloads) -> Download]
    BY <1>3 DEF cancelTokenOf, Downloads
  <2> HIDE DEF new
  <2> QED BY <1>1, <2>1, FunctionIsSeq
<1> HIDE DEF new
<1>5. ASSUME NEW d \in Downloads
      PROVE  /\ new[d].url = downloads[d].url /\ new[d].told = downloads[d].told
             /\ new[d].tokens \subseteq downloads[d].tokens
             /\ new[d].pending \subseteq downloads[d].pending
             /\ new[d].phase = "gone" => downloads[d].phase = "gone"
             /\ \A m \in downloads[d].tokens :
                  m # current[v] /\ downloads[d].phase \in Live =>
                    m \in new[d].tokens /\ new[d].phase = downloads[d].phase
             /\ new[d].cancelled /\ new[d].phase = "ready" => new[d].tokens = {} \/
                  (downloads[d].cancelled /\ downloads[d].phase = "ready")
  <2>1. CASE new[d] = downloads[d]
    BY <2>1
  <2>2. CASE new[d] = cancelToken(downloads[d], current[v])
    BY <1>1, <2>2, CancelTokenValue
  <2> QED BY <1>2, <2>1, <2>2
<1> QED BY <1>4, <1>5 DEF new

(* A view that asks again ends its former load only; the new one, if any,  *)
(* is current, and its query is owed by the I/O queue.                     *)
LEMMA SetImageKeeps ==
  ASSUME IInv, NEW v \in Views, NEW u \in URLs \cup {None}, sd_setImageWithURL(v, u)
  PROVE  IInv'
<1> DEFINE L == cancelLoad(v)
           new == [view |-> v, url |-> u, state |-> "query"]
<1>1. /\ adding = None /\ adding' = None /\ wanted' = [wanted EXCEPT ![v] = u]
      /\ downloads' = cancelTokenOf(v)
      /\ URLOperations' = URLOperations /\ failedURLs' = failedURLs
      /\ mainQueue' = mainQueue /\ dropped' = dropped
  BY DEF sd_setImageWithURL
<1>2. /\ TypeOK /\ NoStaleImage /\ EntryIsKnown
      /\ OpenIsCurrent /\ TokensAsked /\ AddingAsked
      /\ ToldIsAnswered /\ CancelledIsEmpty /\ OpenIsOwed
  BY DEF IInv
<1>3. /\ L \in Seq(Load) /\ Len(L) = Len(loads) /\ Len(loads) \in Nat
      /\ \A n \in Loads :
           /\ L[n].view = loads[n].view /\ L[n].url = loads[n].url
           /\ L[n].state = IF n = current[v] THEN "ended" ELSE loads[n].state
  BY <1>2, CancelLoadValue, Entries
<1> HIDE DEF L
<1>4. /\ shown' = [shown EXCEPT ![v] = None] \/ (u \in URLs /\ shown' = [shown EXCEPT ![v] = u])
      /\ \/ loads' = L /\ current' = [current EXCEPT ![v] = None]
         \/ /\ u \in URLs /\ loads' = Append(L, new)
            /\ current' = [current EXCEPT ![v] = Len(loads) + 1]
  BY DEF sd_setImageWithURL, ShowPlaceholder, ShowFromMemory, BeginLoad, L
<1>5. u \in URLs => new \in Load
  BY DEF Load
<1>6. /\ loads' \in Seq(Load) /\ Loads \subseteq Loads'
      /\ \A n \in Loads :
           /\ loads'[n].view = loads[n].view /\ loads'[n].url = loads[n].url
           /\ loads'[n].state = IF n = current[v] THEN "ended" ELSE loads[n].state
      /\ \A n \in Loads' : n \notin Loads =>
           /\ n = Len(loads) + 1 /\ loads'[n] = new
           /\ current' = [current EXCEPT ![v] = n]
  <2>1. CASE loads' = L
    BY <1>3, <2>1 DEF Loads
  <2>2. CASE u \in URLs /\ loads' = Append(L, new) /\ current' = [current EXCEPT ![v] = Len(loads) + 1]
    <3> HIDE DEF new
    <3>1. /\ loads' \in Seq(Load) /\ Len(loads') = Len(loads) + 1
          /\ \A n \in Loads : loads'[n] = L[n]
          /\ loads'[Len(loads) + 1] = new
      BY <1>3, <1>5, <2>2, AppendProperties DEF Loads
    <3>2. Loads' = Loads \cup {Len(loads) + 1} /\ Len(loads) + 1 \notin Loads
      BY <1>3, <3>1 DEF Loads
    <3> QED BY <1>3, <2>2, <3>1, <3>2
  <2> QED BY <1>4, <2>1, <2>2
<1>7. current' \in [Views -> Loads' \cup {None}] /\ \A w \in Views : w # v => current'[w] = current[w]
  <2>1. CASE loads' = L /\ current' = [current EXCEPT ![v] = None]
    BY <1>2, <1>6, <2>1 DEF TypeOK
  <2>2. CASE loads' = Append(L, new) /\ u \in URLs /\ current' = [current EXCEPT ![v] = Len(loads) + 1]
    <3>1. Len(loads) + 1 \in Loads'
      BY <1>3, <1>5, <2>2, AppendProperties DEF Loads
    <3> QED BY <1>2, <1>6, <2>2, <3>1 DEF TypeOK
  <2> QED BY <1>4, <2>1, <2>2
<1>8. /\ downloads' \in Seq(Download) /\ Downloads' = Downloads
      /\ \A d \in Downloads :
           /\ downloads'[d].url = downloads[d].url /\ downloads'[d].told = downloads[d].told
           /\ downloads'[d].tokens \subseteq downloads[d].tokens
           /\ downloads'[d].pending \subseteq downloads[d].pending
           /\ downloads'[d].phase = "gone" => downloads[d].phase = "gone"
           /\ \A m \in downloads[d].tokens :
                m # current[v] /\ downloads[d].phase \in Live =>
                  m \in downloads'[d].tokens /\ downloads'[d].phase = downloads[d].phase
           /\ downloads'[d].cancelled /\ downloads'[d].phase = "ready" => downloads'[d].tokens = {} \/
                (downloads[d].cancelled /\ downloads[d].phase = "ready")
  BY <1>1, <1>2, CancelTokenOfValue DEF Downloads
<1>9. TypeOK'
  <2>1. mainQueue' \in Seq([load : Loads', from : {"disk", "network"}, image : BOOLEAN])
    <3>1. mainQueue \in Seq(Block) /\ Len(mainQueue) \in Nat
      BY <1>2, Entries DEF TypeOK, Block
    <3> DEFINE Later == [load : Loads', from : {"disk", "network"}, image : BOOLEAN]
    <3>2. Block \subseteq Later
      BY <1>6 DEF Block
    <3> HIDE DEF Later
    <3>3. mainQueue \in [1 .. Len(mainQueue) -> Block]
      BY <3>1, LenProperties
    <3>4. mainQueue \in [1 .. Len(mainQueue) -> Later]
      BY <3>2, <3>3
    <3>5. mainQueue \in Seq(Later)
      BY <3>1, <3>4, FunctionIsSeq
    <3> QED BY <1>1, <3>5 DEF Later
  <2>2. wanted' \in [Views -> URLs \cup {None}] /\ shown' \in [Views -> URLs \cup {None}]
    BY <1>1, <1>2, <1>4 DEF TypeOK
  <2> QED BY <1>1, <1>2, <1>6, <1>7, <1>8, <2>1, <2>2 DEF TypeOK
<1>10. NoStaleImage'
  BY <1>1, <1>2, <1>4 DEF NoStaleImage, TypeOK
<1>11. EntryIsKnown'
  BY <1>1, <1>2, <1>8 DEF EntryIsKnown, TypeOK
<1>12. OpenIsCurrent'
  <2> SUFFICES ASSUME NEW n \in Loads', loads'[n].state # "ended"
               PROVE  current'[loads'[n].view] = n /\ wanted'[loads'[n].view] = loads'[n].url
    BY DEF OpenIsCurrent
  <2>1. CASE n \in Loads
    <3>1. n # current[v] /\ loads[n].state # "ended"
      BY <1>6, <2>1
    <3>2. /\ current[loads[n].view] = n /\ wanted[loads[n].view] = loads[n].url
          /\ loads[n].view \in Views /\ loads[n].view # v
      <4>1. loads[n].view \in Views
        BY <1>2, <2>1, Entries DEF Load
      <4> QED BY <1>2, <2>1, <3>1, <4>1 DEF OpenIsCurrent
    <3> QED BY <1>1, <1>2, <1>6, <1>7, <2>1, <3>2 DEF TypeOK
  <2>2. CASE n \notin Loads
    <3>1. loads'[n] = new /\ current' = [current EXCEPT ![v] = n]
      BY <1>6, <2>2
    <3> QED BY <1>1, <1>2, <3>1 DEF TypeOK
  <2> QED BY <2>1, <2>2
<1>13. TokensAsked'
  <2>1. \A n : Asked(n) => Asked(n)'
    BY <1>1, <1>6 DEF Asked
  <2> SUFFICES ASSUME NEW e \in Downloads,
                      NEW m \in downloads'[e].tokens \cup downloads'[e].pending \cup downloads'[e].told
               PROVE  Asked(m)'
    BY <1>8 DEF TokensAsked
  <2>2. m \in downloads[e].tokens \cup downloads[e].pending \cup downloads[e].told
    BY <1>8
  <2> QED BY <1>2, <2>1, <2>2 DEF TokensAsked
<1>14. AddingAsked'
  BY <1>1 DEF AddingAsked
<1>15. \A n \in Loads : Answered(n) => Answered(n)'
  BY <1>1, <1>6 DEF Answered
<1>16. ToldIsAnswered'
  <2>1. ASSUME NEW e \in Downloads, NEW n \in downloads'[e].told PROVE Answered(n)'
    <3>1. n \in downloads[e].told
      BY <1>8, <2>1
    <3>2. n \in Loads /\ Answered(n)
      BY <1>2, <3>1 DEF ToldIsAnswered, TokensAsked, Asked
    <3> QED BY <1>15, <3>2
  <2> QED BY <1>8, <2>1 DEF ToldIsAnswered
<1>17. CancelledIsEmpty'
  BY <1>1, <1>2, <1>8 DEF CancelledIsEmpty
<1>18. OpenIsOwed'
  <2> SUFFICES ASSUME NEW n \in Loads' PROVE Owed(n)'
    BY DEF OpenIsOwed
  <2>1. CASE n \notin Loads
    BY <1>6, <2>1 DEF Owed
  <2>2. CASE n \in Loads /\ n = current[v]
    BY <1>6, <2>2 DEF Owed, Answered
  <2>3. CASE n \in Loads /\ n # current[v]
    <3>1. Owed(n)
      BY <1>2, <2>3 DEF OpenIsOwed
    <3>2. CASE loads[n].state = "query" \/ n \in dropped \/ Answered(n)
      BY <1>1, <1>6, <1>15, <2>3, <3>2 DEF Owed
    <3>3. ASSUME NEW e \in Downloads, Serves(e, n)
          PROVE  Owed(n)'
      <4>1. Serves(e, n)'
        BY <1>8, <2>3, <3>3 DEF Serves
      <4> QED BY <1>8, <4>1 DEF Owed
    <3> QED BY <1>1, <3>1, <3>2, <3>3 DEF Owed
  <2> QED BY <2>1, <2>2, <2>3
<1> QED BY <1>9, <1>10, <1>11, <1>12, <1>13, <1>14, <1>16, <1>17, <1>18 DEF IInv

-----------------------------------------------------------------------------
(* The blocks of the main queue *)

(* With the first block gone every other load that was answered still is.  *)
LEMMA TailBlocks ==
  ASSUME TypeOK, mainQueue # << >>, mainQueue' = Tail(mainQueue)
  PROVE  /\ Head(mainQueue) \in Block /\ mainQueue' \in Seq(Block)
         /\ \A n : /\ n # Head(mainQueue).load /\ Answered(n)
                   /\ loads[n].state = "ended" => loads'[n].state = "ended"
                   => Answered(n)'
<1>1. mainQueue \in Seq(Block)
  BY DEF TypeOK, Block
<1>2. /\ Head(mainQueue) \in Block /\ mainQueue' \in Seq(Block)
      /\ Len(mainQueue') = Len(mainQueue) - 1 /\ Len(mainQueue) \in Nat
      /\ \A i \in 1 .. Len(mainQueue') : mainQueue'[i] = mainQueue[i + 1]
      /\ Head(mainQueue) = mainQueue[1]
  BY <1>1, HeadTailProperties, LenProperties
<1>3. ASSUME NEW n, n # Head(mainQueue).load,
             NEW i \in 1 .. Len(mainQueue), mainQueue[i].load = n
      PROVE  Answered(n)'
  <2>1. i # 1
    BY <1>2, <1>3
  <2>2. i - 1 \in 1 .. Len(mainQueue') /\ mainQueue'[i - 1] = mainQueue[i]
    BY <1>2, <1>3, <2>1
  <2> QED BY <1>3, <2>2 DEF Answered
<1> QED BY <1>2, <1>3 DEF Answered

(* A block that ends its load, or finds it ended, is its last answer.      *)
LEMMA EndKeeps ==
  ASSUME IInv, NEW n \in Loads,
         mainQueue # << >>, mainQueue' = Tail(mainQueue), Head(mainQueue).load = n,
         loads' \in Seq(Load), Len(loads') = Len(loads),
         \A m \in Loads : /\ loads'[m].view = loads[m].view /\ loads'[m].url = loads[m].url
                          /\ loads'[m].state = IF m = n THEN "ended" ELSE loads[m].state,
         current' = current \/ (loads[n].state # "ended" /\
                                  current' = [current EXCEPT ![loads[n].view] = None]),
         shown' = shown \/ (loads[n].state # "ended" /\
                              shown' = [shown EXCEPT ![loads[n].view] = loads[n].url]),
         wanted' = wanted, downloads' = downloads, URLOperations' = URLOperations,
         failedURLs' \subseteq URLs, adding = None, adding' = None, dropped' = dropped
  PROVE  IInv'
<1>1. /\ TypeOK /\ NoStaleImage /\ EntryIsKnown
      /\ OpenIsCurrent /\ TokensAsked /\ AddingAsked
      /\ ToldIsAnswered /\ CancelledIsEmpty /\ OpenIsOwed
  BY DEF IInv
<1>2. Loads' = Loads /\ Downloads' = Downloads /\ Block' = Block
  BY DEF Loads, Downloads, Block
<1>3. /\ mainQueue' \in Seq(Block)
      /\ \A m \in Loads : m # n /\ Answered(m) => Answered(m)'
  BY <1>1, TailBlocks
<1>4. Answered(n)'
  BY DEF Answered
<1>5. loads[n] \in Load /\ loads[n].view \in Views /\ loads[n].url \in URLs
  BY <1>1, Entries DEF Load
<1>6. TypeOK'
  BY <1>1, <1>2, <1>3, <1>5 DEF TypeOK, Block
<1>7. NoStaleImage'
  BY <1>1, <1>5 DEF NoStaleImage, OpenIsCurrent, TypeOK
<1>8. EntryIsKnown' /\ AddingAsked' /\ CancelledIsEmpty'
  BY <1>1, <1>2 DEF EntryIsKnown, AddingAsked, CancelledIsEmpty
<1>9. OpenIsCurrent'
  <2> SUFFICES ASSUME NEW m \in Loads, loads'[m].state # "ended"
               PROVE  current'[loads'[m].view] = m /\ wanted'[loads'[m].view] = loads'[m].url
    BY <1>2 DEF OpenIsCurrent
  <2>1. m # n /\ loads[m].state # "ended"
    OBVIOUS
  <2>2. current[loads[m].view] = m /\ wanted[loads[m].view] = loads[m].url
    BY <1>1, <2>1 DEF OpenIsCurrent
  <2>3. loads[m].view \in Views
    BY <1>1, Entries DEF Load
  <2>4. loads[n].state # "ended" => loads[m].view # loads[n].view
    BY <1>1, <2>1, <2>2 DEF OpenIsCurrent
  <2> QED BY <1>1, <2>2, <2>3, <2>4 DEF TypeOK
<1>10. TokensAsked'
  <2>1. \A m : Asked(m) => Asked(m)'
    BY <1>2 DEF Asked
  <2> QED BY <1>1, <1>2, <2>1 DEF TokensAsked
<1>11. ToldIsAnswered'
  <2>1. ASSUME NEW d \in Downloads, NEW m \in downloads[d].told PROVE Answered(m)'
    <3>1. m \in Loads /\ Answered(m)
      BY <1>1, <2>1 DEF ToldIsAnswered, TokensAsked, Asked
    <3> QED BY <1>3, <1>4, <3>1
  <2> QED BY <1>2, <2>1 DEF ToldIsAnswered
<1>12. OpenIsOwed'
  <2> SUFFICES ASSUME NEW m \in Loads PROVE Owed(m)'
    BY <1>2 DEF OpenIsOwed
  <2>1. CASE m = n
    BY <1>4, <2>1 DEF Owed
  <2>2. CASE m # n
    <3>1. Owed(m)
      BY <1>1 DEF OpenIsOwed
    <3>2. \A d \in Downloads : Serves(d, m) => Serves(d, m)'
      BY DEF Serves
    <3> QED BY <1>2, <1>3, <2>2, <3>1, <3>2 DEF Owed
  <2> QED BY <2>1, <2>2
<1> QED BY <1>6, <1>7, <1>8, <1>9, <1>10, <1>11, <1>12 DEF IInv

(* A load the disk has no image for is handed to the downloader, where a   *)
(* reusable operation is about to get its token or a new one has it.       *)
LEMMA DownloadKeeps ==
  ASSUME IInv, NEW n \in Loads,
         mainQueue # << >>, mainQueue' = Tail(mainQueue), Head(mainQueue).load = n,
         downloadImageWithURL(n), adding = None, dropped' = dropped
  PROVE  IInv'
<1> DEFINE asked == [loads[n] EXCEPT !.state = "download"]
           u == loads[n].url
<1>1. /\ TypeOK /\ NoStaleImage /\ EntryIsKnown
      /\ OpenIsCurrent /\ TokensAsked /\ AddingAsked
      /\ ToldIsAnswered /\ CancelledIsEmpty /\ OpenIsOwed
  BY DEF IInv
<1>2. /\ wanted' = wanted /\ shown' = shown /\ current' = current /\ failedURLs' = failedURLs
      /\ loads[n].state = "query"
      /\ loads' = [loads EXCEPT ![n].state = "download"]
  BY DEF downloadImageWithURL, viewVars
<1>3. loads[n] \in Load /\ Len(loads) \in Nat /\ Len(downloads) \in Nat /\ n \in Nat
  BY <1>1, Entries DEF Loads
<1>4. loads' = [loads EXCEPT ![n] = asked]
  <2>1. loads \in [1 .. Len(loads) -> Load] /\ n \in 1 .. Len(loads)
    BY <1>1, LenProperties DEF TypeOK, Loads
  <2> QED BY <1>2, <2>1 DEF Load
<1>5. /\ asked \in Load /\ asked.view = loads[n].view /\ asked.url = loads[n].url
      /\ asked.state = "download" /\ u \in URLs
  BY <1>3 DEF Load
<1> HIDE DEF asked, u
<1>6. /\ loads' \in Seq(Load) /\ Loads' = Loads
      /\ \A m \in Loads : /\ loads'[m].view = loads[m].view /\ loads'[m].url = loads[m].url
                          /\ loads'[m].state = IF m = n THEN "download" ELSE loads[m].state
  BY <1>1, <1>4, <1>5, ExceptSeq DEF TypeOK, Loads
<1>7. /\ mainQueue' \in Seq(Block) /\ Block' = Block
      /\ \A m \in Loads : m # n /\ Answered(m) => Answered(m)'
  BY <1>1, <1>6, TailBlocks DEF Block
<1>8. \A d \in Downloads : n \notin downloads[d].tokens \cup downloads[d].pending \cup downloads[d].told
  BY <1>1, <1>2 DEF TokensAsked, Asked
<1>9. OpenIsCurrent' /\ NoStaleImage'
  BY <1>1, <1>2, <1>6 DEF OpenIsCurrent, NoStaleImage
<1>10. CASE /\ reusable(URLOperations[u])
            /\ adding' = [load |-> n, to |-> URLOperations[u]]
            /\ downloads' = downloads /\ URLOperations' = URLOperations
  <2> DEFINE d == URLOperations[u]
  <2>1. d \in Downloads /\ ~downloads[d].cancelled /\ Downloads' = Downloads
    BY <1>1, <1>5, <1>10 DEF reusable, TypeOK, Downloads
  <2>2. adding' \in [load : Loads, to : Downloads] /\ adding'.load = n /\ adding'.to = d
    BY <1>10, <2>1
  <2>3. adding' # None
    BY <1>3, <1>10, <2>1, NoneAssumption DEF Downloads
  <2> HIDE DEF d
  <2>4. TypeOK'
    BY <1>1, <1>2, <1>6, <1>7, <1>10, <2>1, <2>2 DEF TypeOK, Block
  <2>5. EntryIsKnown' /\ AddingAsked' /\ CancelledIsEmpty'
    BY <1>1, <1>6, <1>10, <2>1, <2>2 DEF EntryIsKnown, AddingAsked, CancelledIsEmpty
  <2>6. TokensAsked'
    BY <1>1, <1>6, <1>8, <1>10, <2>1, <2>2 DEF TokensAsked, Asked
  <2>7. ToldIsAnswered'
    <3>1. ASSUME NEW e \in Downloads, NEW m \in downloads[e].told PROVE Answered(m)'
      <4>1. m \in Loads /\ Answered(m) /\ m # n
        BY <1>1, <1>8, <3>1 DEF ToldIsAnswered, TokensAsked, Asked
      <4> QED BY <1>7, <4>1
    <3> QED BY <1>10, <2>1, <3>1 DEF ToldIsAnswered
  <2>8. OpenIsOwed'
    <3> SUFFICES ASSUME NEW m \in Loads PROVE Owed(m)'
      BY <1>6 DEF OpenIsOwed
    <3>1. CASE m = n
      BY <2>2, <2>3, <3>1 DEF Owed
    <3>2. CASE m # n
      <4>1. Owed(m)
        BY <1>1 DEF OpenIsOwed
      <4>2. \A e \in Downloads : Serves(e, m) => Serves(e, m)'
        BY <1>10 DEF Serves
      <4> QED BY <1>6, <1>7, <2>1, <3>2, <4>1, <4>2 DEF Owed
    <3> QED BY <3>1, <3>2
  <2> QED BY <1>9, <2>4, <2>5, <2>6, <2>7, <2>8 DEF IInv
<1>11. CASE /\ downloads' = Append(downloads, newDownload(u, n))
            /\ URLOperations' = [URLOperations EXCEPT ![u] = Len(downloads) + 1]
            /\ adding' = adding
  <2> DEFINE op == newDownload(u, n)
             no == FALSE
  <2>0. PICK d \in Nat : d = Len(downloads) + 1
    BY <1>3
  <2>1. /\ op \in Download /\ op.url = u /\ op.tokens = {n} /\ op.told = {} /\ op.pending = {}
        /\ op.phase = "ready" /\ ~op.cancelled
    <3>1. op = [url |-> u, tokens |-> {n}, told |-> {}, pending |-> {}, cancelled |-> no,
                phase |-> "ready"] /\ no = FALSE
      BY DEF newDownload
    <3> HIDE DEF op, no
    <3> QED BY <1>3, <1>5, <3>1 DEF Download
  <2> HIDE DEF op
  <2>2. /\ downloads' \in Seq(Download) /\ Len(downloads') = d /\ downloads'[d] = op
        /\ \A e \in Downloads : downloads'[e] = downloads[e]
    BY <1>1, <1>11, <2>0, <2>1, AppendProperties DEF TypeOK, Downloads, op
  <2>3. Downloads' = Downloads \cup {d} /\ d \notin Downloads
    BY <1>3, <2>0, <2>2 DEF Downloads
  <2>4. TypeOK'
    <3>1. URLOperations' \in [URLs -> Downloads' \cup {None}]
      BY <1>1, <1>5, <1>11, <2>0, <2>3 DEF TypeOK
    <3> QED BY <1>1, <1>2, <1>6, <1>7, <1>11, <2>2, <3>1 DEF TypeOK, Block
  <2>5. EntryIsKnown'
    <3> SUFFICES ASSUME NEW w \in URLs, URLOperations'[w] # None
                 PROVE  /\ downloads'[URLOperations'[w]].url = w
                        /\ downloads'[URLOperations'[w]].phase # "gone"
      BY DEF EntryIsKnown
    <3>1. CASE w = u
      <4>1. URLOperations'[w] = d
        BY <1>1, <1>11, <2>0, <3>1 DEF TypeOK
      <4> QED BY <2>1, <2>2, <3>1, <4>1
    <3>2. CASE w # u
      <4>1. URLOperations'[w] = URLOperations[w]
        BY <1>1, <1>11, <3>2 DEF TypeOK
      <4>2. URLOperations[w] \in Downloads
        BY <1>1, <4>1 DEF TypeOK
      <4> QED BY <1>1, <2>2, <4>1, <4>2 DEF EntryIsKnown
    <3> QED BY <3>1, <3>2
  <2>6. AddingAsked' /\ CancelledIsEmpty'
    <3>1. AddingAsked'
      BY <1>11 DEF AddingAsked
    <3>2. ASSUME NEW e \in Downloads', downloads'[e].cancelled, downloads'[e].phase = "ready"
          PROVE  downloads'[e].tokens = {} /\ adding' = None
      <4>1. e # d
        BY <2>1, <2>2, <3>2
      <4> QED BY <1>1, <1>11, <2>2, <2>3, <3>2, <4>1 DEF CancelledIsEmpty
    <3> QED BY <3>1, <3>2 DEF CancelledIsEmpty
  <2>7. TokensAsked'
    <3>1. Asked(n)' /\ \A m : Asked(m) => Asked(m)'
      BY <1>6, <1>11, <1>2 DEF Asked
    <3> QED BY <1>1, <2>1, <2>2, <2>3, <3>1 DEF TokensAsked
  <2>8. ToldIsAnswered'
    <3>1. ASSUME NEW e \in Downloads, NEW m \in downloads[e].told PROVE Answered(m)'
      <4>1. m \in Loads /\ Answered(m) /\ m # n
        BY <1>1, <1>8, <3>1 DEF ToldIsAnswered, TokensAsked, Asked
      <4> QED BY <1>7, <4>1
    <3> QED BY <2>1, <2>2, <2>3, <3>1 DEF ToldIsAnswered
  <2>9. OpenIsOwed'
    <3> SUFFICES ASSUME NEW m \in Loads PROVE Owed(m)'
      BY <1>6 DEF OpenIsOwed
    <3>1. CASE m = n
      <4>1. Serves(d, m)'
        BY <2>1, <2>2, <3>1 DEF Serves, Live
      <4> QED BY <2>3, <4>1 DEF Owed
    <3>2. CASE m # n
      <4>1. Owed(m)
        BY <1>1 DEF OpenIsOwed
      <4>2. \A e \in Downloads : Serves(e, m) => Serves(e, m)'
        BY <2>2 DEF Serves
      <4> QED BY <1>6, <1>7, <1>11, <2>3, <3>2, <4>1, <4>2 DEF Owed
    <3> QED BY <3>1, <3>2
  <2> QED BY <1>9, <2>4, <2>5, <2>6, <2>7, <2>8, <2>9 DEF IInv
<1> QED BY <1>10, <1>11 DEF downloadImageWithURL, u

(* Any block of the main queue.                                            *)
LEMMA RunBlockKeeps ==
  ASSUME IInv, RunBlock
  PROVE  IInv'
<1> DEFINE b == Head(mainQueue)
<1>1. /\ mainQueue # << >> /\ mainQueue' = Tail(mainQueue) /\ adding = None /\ dropped' = dropped
      /\ \/ CompletionIgnored(b.load)
         \/ ShowLoaded(b.load)
         \/ downloadImageWithURL(b.load)
         \/ LoadFails(b.load)
  BY DEF RunBlock
<1>2. TypeOK /\ b \in Block
  BY <1>1, TailBlocks DEF IInv
<1>3. PICK n \in Loads : b.load = n
  BY <1>2 DEF Block
<1>4. loads \in Seq(Load) /\ loads[n] \in Load /\ failedURLs \subseteq URLs /\ loads[n].url \in URLs
  BY <1>2, Entries DEF TypeOK, Load
<1>5. CASE CompletionIgnored(n)
  <2>1. /\ loads[n].state = "ended" /\ loads' = loads /\ current' = current /\ shown' = shown
        /\ wanted' = wanted /\ downloads' = downloads /\ URLOperations' = URLOperations
        /\ failedURLs' = failedURLs /\ adding' = adding
    BY <1>5 DEF CompletionIgnored, viewVars
  <2> QED BY <1>1, <1>3, <1>4, <2>1, EndKeeps
<1>6. ASSUME endLoad(n)
      PROVE  /\ loads' \in Seq(Load) /\ Len(loads') = Len(loads)
             /\ \A m \in Loads : /\ loads'[m].view = loads[m].view /\ loads'[m].url = loads[m].url
                                 /\ loads'[m].state = IF m = n THEN "ended" ELSE loads[m].state
  <2> DEFINE ended == [loads[n] EXCEPT !.state = "ended"]
  <2>1. loads' = [loads EXCEPT ![n] = ended]
    <3>1. loads \in [1 .. Len(loads) -> Load] /\ n \in 1 .. Len(loads)
      BY <1>4, LenProperties DEF Loads
    <3> QED BY <1>6, <3>1 DEF endLoad, Load
  <2>2. ended \in Load /\ ended.view = loads[n].view /\ ended.url = loads[n].url /\ ended.state = "ended"
    BY <1>4 DEF Load
  <2> HIDE DEF ended
  <2> QED BY <1>4, <2>1, <2>2, ExceptSeq DEF Loads
<1>7. CASE ShowLoaded(n)
  <2>1. /\ endLoad(n) /\ loads[n].state # "ended"
        /\ current' = [current EXCEPT ![loads[n].view] = None]
        /\ shown' = [shown EXCEPT ![loads[n].view] = loads[n].url]
        /\ wanted' = wanted /\ downloads' = downloads /\ URLOperations' = URLOperations
        /\ failedURLs' = failedURLs /\ adding' = adding
    BY <1>7 DEF ShowLoaded, endLoad
  <2> QED BY <1>1, <1>3, <1>4, <1>6, <2>1, EndKeeps
<1>8. CASE LoadFails(n)
  <2>1. /\ endLoad(n) /\ loads[n].state # "ended"
        /\ current' = [current EXCEPT ![loads[n].view] = None]
        /\ shown' = shown /\ wanted' = wanted
        /\ downloads' = downloads /\ URLOperations' = URLOperations
        /\ failedURLs' \subseteq URLs /\ adding' = adding
    BY <1>4, <1>8 DEF LoadFails, endLoad
  <2> QED BY <1>1, <1>3, <1>4, <1>6, <2>1, EndKeeps
<1>9. CASE downloadImageWithURL(n)
  BY <1>1, <1>3, <1>9, DownloadKeeps
<1> QED BY <1>1, <1>3, <1>5, <1>7, <1>8, <1>9

-----------------------------------------------------------------------------
(* IInv is inductive, for any number of views, URLs, loads and downloads.  *)
LEMMA InitIInv == Init => IInv
<1> SUFFICES ASSUME Init PROVE IInv
  OBVIOUS
<1>1. /\ loads = << >> /\ downloads = << >> /\ mainQueue = << >>
      /\ Len(loads) = 0 /\ Len(downloads) = 0
  BY DEF Init
<1>2. Loads = {} /\ Downloads = {}
  BY <1>1 DEF Loads, Downloads
<1>3. TypeOK
  BY <1>1 DEF Init, TypeOK
<1> QED BY <1>2, <1>3 DEF Init, IInv, NoStaleImage, EntryIsKnown, OpenIsCurrent, TokensAsked,
                          AddingAsked, ToldIsAnswered, CancelledIsEmpty, OpenIsOwed

(* Every step of the specification keeps it.                               *)
LEMMA NextIInv == IInv /\ [Next]_vars => IInv'
<1> SUFFICES ASSUME IInv, [Next]_vars PROVE IInv'
  OBVIOUS
<1>1. ASSUME NEW v \in Views, NEW u \in URLs \cup {None}, sd_setImageWithURL(v, u) PROVE IInv'
  BY <1>1, SetImageKeeps
<1>2. CASE RunBlock
  BY <1>2, RunBlockKeeps
<1>3. CASE addHandlersForProgress
  BY <1>3, AddHandlersKeeps
<1>4. ASSUME NEW n \in Loads, queryDisk(n) PROVE IInv'
  BY <1>4, QueryDiskKeeps
<1>5. ASSUME NEW d \in Downloads, OperationRuns(d) PROVE IInv'
  BY <1>5, OperationRunsKeeps
<1>6. CASE UNCHANGED vars
  BY <1>6 DEF vars, viewVars, IInv, TypeOK, Loads, Downloads, NoStaleImage, EntryIsKnown,
     OpenIsCurrent, TokensAsked, Asked, AddingAsked, ToldIsAnswered, Answered,
     CancelledIsEmpty, OpenIsOwed, Owed, Serves
<1> QED BY <1>1, <1>2, <1>3, <1>4, <1>5, <1>6 DEF Next

(* It holds in every reachable state.                                      *)
LEMMA Inductive == Spec => []IInv
BY InitIInv, NextIInv, PTL DEF Spec

-----------------------------------------------------------------------------
(* The state keeps its type, whatever is shared, cancelled and answered.   *)
THEOREM ImagesTypeCorrect == Spec => []TypeOK
<1>1. IInv => TypeOK
  BY DEF IInv
<1> QED BY <1>1, Inductive, PTL

(* No view shows the image of another URL than the one it was last asked   *)
(* for: a load that is not cancelled is its view's current one, which a    *)
(* new request on the main thread ends before it begins another.           *)
THEOREM NeverStale == Spec => []NoStaleImage
<1>1. IInv => NoStaleImage
  BY DEF IInv
<1> QED BY <1>1, Inductive, PTL

(* The operation the downloader keeps for a URL loads that URL and has not *)
(* been forgotten, though completion blocks clear entries by URL alone.    *)
THEOREM EntriesKnown == Spec => []EntryIsKnown
<1>1. IInv => EntryIsKnown
  BY DEF IInv
<1> QED BY <1>1, Inductive, PTL

(* What LoadsEnd rests on: at any moment each load that has not ended and  *)
(* whose token was not lost in the race of a shared operation's end is     *)
(* owed its answer by the I/O queue, by a block of the main queue, by the  *)
(* main thread leaving its token, or by a live operation with its token.   *)
Awaited(n) ==
  \/ loads[n].state = "query"
  \/ \E i \in 1 .. Len(mainQueue) : mainQueue[i].load = n
  \/ adding # None /\ adding.load = n
  \/ \E d \in Downloads : Serves(d, n)
NoLoadForgotten == \A n \in Loads : Open(n) /\ n \notin dropped => Awaited(n)
(* No load is forgotten: see NoLoadForgotten.                              *)
THEOREM LoadsAreAwaited == Spec => []NoLoadForgotten
<1>1. IInv => NoLoadForgotten
  BY DEF IInv, OpenIsOwed, Owed, Answered, NoLoadForgotten, Awaited, Open
<1> QED BY <1>1, Inductive, PTL
=============================================================================
