----------------------------- MODULE APIClient -----------------------------
(***************************************************************************)
(* SpotifyAPIManager.mm's GET and the AFNetworking code under it           *)
(* (AFHTTPSessionManager.m, AFURLSessionManager.m), down to NSURLSession.  *)
(*                                                                         *)
(* Four threads of control meet here.  GET runs on the main thread: it     *)
(* creates a task, registers a delegate for it and resumes it.             *)
(* NSURLSession's callbacks run one after the other on operationQueue.     *)
(* Answers are parsed on a concurrent queue, and the completion runs as a  *)
(* block of the main queue.  The fourth is the callback that init asks the *)
(* session for: some time later it registers a delegate without completion *)
(* for every task it is told of.  NSLock covers one registration, lookup   *)
(* or removal at a time.                                                   *)
(***************************************************************************)
EXTENDS Naturals, Sequences

CONSTANTS
  Requests,    \* calls of GET, one data task each
  None,
  maxChunks    \* bound: pieces a body arrives in

ASSUME ChunkBound == maxChunks \in Nat

VARIABLES
  issuing,         \* the call of GET the main thread is inside and its next step, or None
  asked,           \* history: the calls of GET made
  task,            \* the state of each call's NSURLSessionDataTask
  arrived,         \* pieces of the body that the session has handed over
  delegates,       \* mutableTaskDelegatesKeyedByTaskIdentifier
  operationQueue,  \* the session's callbacks, in order
  processing,      \* answers on the processing queue
  mainQueue,       \* completion blocks
  replies,         \* what each call's completion was given
  listing,         \* init waits for its callback
  listed,          \* tasks the callback has still to register
  replaced         \* history: calls that lost a delegate to the callback, or got one after their end

calls == <<issuing, asked, task>>
callback == <<listing, listed, replaced>>
vars == <<calls, arrived, delegates, operationQueue, processing, mainQueue, replies, callback>>

(* A delegate: has it the caller's completionHandler, and how much of the  *)
(* body it has collected.  Its answer and the block that passes it on.     *)
Delegate == [handler : BOOLEAN, data : Nat]
newDelegateNoData(handler) == [handler |-> handler]
newDelegate(handler) == [handler |-> handler, data |-> 0]
ASSUME NoneAssumption == None \notin Delegate /\ None \notin Requests \X {"add", "resume"}

Answer == [of : Requests, by : Delegate]
Block == [of : Requests, by : Delegate, outcome : {"object", "error"}]

(* The type of the client's state.                                         *)
TypeOK ==
  /\ issuing \in (Requests \X {"add", "resume"}) \cup {None} /\ asked \subseteq Requests
  /\ task \in [Requests -> {"absent", "suspended", "running", "done"}]
  /\ arrived \in [Requests -> 0 .. maxChunks]
  /\ delegates \in [Requests -> Delegate \cup {None}]
  /\ operationQueue \in Seq([of : Requests, event : {"data", "end", "error", "remove"}])
  /\ processing \subseteq Answer
  /\ mainQueue \in Seq(Block)
  /\ replies \in [Requests -> Seq({"object", "error"})]
  /\ listing \in BOOLEAN /\ listed \subseteq Requests /\ replaced \subseteq Requests

(* sharedManager's init: the session is created and asked for its tasks.   *)
Init ==
  /\ issuing = None /\ asked = {}
  /\ task = [r \in Requests |-> "absent"] /\ arrived = [r \in Requests |-> 0]
  /\ delegates = [r \in Requests |-> None]
  /\ operationQueue = << >> /\ processing = {} /\ mainQueue = << >>
  /\ replies = [r \in Requests |-> << >>]
  /\ listing = TRUE /\ listed = {} /\ replaced = {}

dispatch_main(r, delegate, outcome) ==
  Append(mainQueue, [of |-> r, by |-> delegate, outcome |-> outcome])
enqueue(r, event) == Append(operationQueue, [of |-> r, event |-> event])

-----------------------------------------------------------------------------
(* GET, on the main thread *)

(* The request could not be built: failure is dispatched, there is no task.*)
RequestSerializationFails(r) ==
  /\ issuing = None /\ r \notin asked /\ asked' = asked \cup {r}
  /\ mainQueue' = dispatch_main(r, newDelegate(TRUE), "error")
  /\ UNCHANGED <<issuing, task, arrived, delegates, operationQueue, processing, replies, callback>>

dataTaskWithRequest(r) ==
  /\ issuing = None /\ r \notin asked /\ asked' = asked \cup {r}
  /\ issuing' = <<r, "add">> /\ task' = [task EXCEPT ![r] = "suspended"]
  /\ UNCHANGED <<arrived, delegates, operationQueue, processing, mainQueue, replies, callback>>

AddKeepsRegistered(r) ==
  /\ issuing = <<r, "add">> /\ issuing' = <<r, "resume">>
  /\ delegates' = [delegates EXCEPT ![r] = IF @ = None THEN newDelegate(TRUE) ELSE @]
  /\ UNCHANGED <<asked, task, arrived, operationQueue, processing, mainQueue, replies, callback>>
(* The delegate with the caller's completion replaces any other.           *)
addDelegateForDataTask(r) ==
  /\ issuing = <<r, "add">> /\ issuing' = <<r, "resume">>
  /\ delegates' = [delegates EXCEPT ![r] = newDelegate(TRUE)]
  /\ UNCHANGED <<asked, task, arrived, operationQueue, processing, mainQueue, replies, callback>>

resume(r) ==
  /\ issuing = <<r, "resume">> /\ issuing' = None
  /\ task' = [task EXCEPT ![r] = "running"]
  /\ UNCHANGED <<asked, arrived, delegates, operationQueue, processing, mainQueue, replies, callback>>

GET(r) ==
  \/ RequestSerializationFails(r) \/ dataTaskWithRequest(r)
  \/ addDelegateForDataTask(r) \/ resume(r)

-----------------------------------------------------------------------------
(* NSURLSession hands over the body and ends the task: answer, error, or   *)
(* 15 s without either.                                                    *)

SessionReceives(r) ==
  /\ task[r] = "running" /\ arrived[r] < maxChunks
  /\ arrived' = [arrived EXCEPT ![r] = @ + 1]
  /\ operationQueue' = enqueue(r, "data")
  /\ UNCHANGED <<calls, delegates, processing, mainQueue, replies, callback>>

SessionEnds(r) ==
  /\ task[r] = "running" /\ task' = [task EXCEPT ![r] = "done"]
  /\ \E event \in {"end", "error"} : operationQueue' = enqueue(r, event)
  /\ UNCHANGED <<issuing, asked, arrived, delegates, processing, mainQueue, replies, callback>>

-----------------------------------------------------------------------------
(* The manager's callbacks, on operationQueue; e is the first of them.     *)

(* The delegate, if there is one, appends the piece to its data.           *)
appendData(d) == IF d = None THEN None ELSE [d EXCEPT !.data = @ + 1]

DataDropped(e) ==
  /\ e.event = "data" /\ operationQueue' = Tail(operationQueue)
  /\ UNCHANGED <<delegates, processing, mainQueue>>
didReceiveData(e) ==
  /\ e.event = "data" /\ operationQueue' = Tail(operationQueue)
  /\ delegates' = [delegates EXCEPT ![e.of] = appendData(@)]
  /\ UNCHANGED <<processing, mainQueue>>

CompleteTwice(e) ==
  /\ e.event \in {"end", "error"}
  /\ mainQueue' = dispatch_main(e.of, newDelegate(TRUE), "error")
  /\ \/ operationQueue' = <<[e EXCEPT !.event = "remove"]>> \o Tail(operationQueue)
     \/ UNCHANGED operationQueue
  /\ UNCHANGED <<delegates, processing>>
(* Looks the delegate up and tells it: an error goes to the main queue, an *)
(* answer is parsed first.  Then, and not within the same lock, the        *)
(* delegate is removed.  Without a delegate nobody is told.                *)
didCompleteWithError(e) ==
  /\ e.event \in {"end", "error"}
  /\ LET delegate == delegates[e.of]
         told == delegate # None
     IN  /\ operationQueue' = (IF told THEN <<[e EXCEPT !.event = "remove"]>> ELSE << >>)
                                \o Tail(operationQueue)
         /\ mainQueue' = IF told /\ e.event = "error"
                         THEN dispatch_main(e.of, delegate, "error") ELSE mainQueue
         /\ processing' = IF told /\ e.event = "end"
                          THEN processing \cup {[of |-> e.of, by |-> delegate]} ELSE processing
  /\ UNCHANGED delegates

RemoveSkipped(e) ==
  /\ e.event = "remove" /\ operationQueue' = Tail(operationQueue)
  /\ UNCHANGED <<delegates, processing, mainQueue>>
removeDelegateForTask(e) ==
  /\ e.event = "remove" /\ operationQueue' = Tail(operationQueue)
  /\ delegates' = [delegates EXCEPT ![e.of] = None]
  /\ UNCHANGED <<processing, mainQueue>>

RunCallback ==
  /\ operationQueue # << >>
  /\ LET e == Head(operationQueue)
     IN  didReceiveData(e) \/ didCompleteWithError(e) \/ removeDelegateForTask(e)
  /\ UNCHANGED <<calls, arrived, replies, callback>>

-----------------------------------------------------------------------------
(* The processing queue runs its blocks concurrently.  The status, the     *)
(* content type and the JSON may each turn the answer into an error.       *)
responseObjectForResponse ==
  /\ \E a \in processing :
       /\ processing' = processing \ {a}
       /\ \E outcome \in {"object", "error"} :
            mainQueue' = dispatch_main(a.of, a.by, outcome)
  /\ UNCHANGED <<calls, arrived, delegates, operationQueue, replies, callback>>

(* A completion block: runs when the main thread is not inside GET.        *)
RunBlock ==
  /\ issuing = None /\ mainQueue # << >> /\ mainQueue' = Tail(mainQueue)
  /\ LET b == Head(mainQueue)
     IN  replies' = IF b.by.handler THEN [replies EXCEPT ![b.of] = Append(@, b.outcome)]
                                    ELSE replies
  /\ UNCHANGED <<calls, arrived, delegates, operationQueue, processing, callback>>

-----------------------------------------------------------------------------
(* The callback of getTasksWithCompletionHandler in init.                  *)

getTasks ==
  /\ listing /\ listing' = FALSE
  /\ listed' \in SUBSET {r \in Requests : task[r] \in {"suspended", "running"}}
  /\ UNCHANGED <<calls, arrived, delegates, operationQueue, processing, mainQueue, replies, replaced>>

(* Its loop: one registration, with no completionHandler.                  *)
addDelegateForListed(r) ==
  /\ r \in listed /\ listed' = listed \ {r}
  /\ delegates' = [delegates EXCEPT ![r] = newDelegate(FALSE)]
  /\ replaced' = IF delegates[r] # None \/ task[r] = "done" THEN replaced \cup {r} ELSE replaced
  /\ UNCHANGED <<calls, arrived, operationQueue, processing, mainQueue, replies, listing>>

-----------------------------------------------------------------------------
Next ==
  \/ \E r \in Requests :
       GET(r) \/ SessionReceives(r) \/ SessionEnds(r) \/ addDelegateForListed(r)
  \/ RunCallback \/ responseObjectForResponse \/ RunBlock \/ getTasks

(* Fairness: every queue and thread is served and a task ends, within its  *)
(* 15 s at the latest.  Nobody has to call GET.                            *)
Spec ==
  /\ Init /\ [][Next]_vars
  /\ \A r \in Requests : WF_vars(addDelegateForDataTask(r) \/ resume(r)) /\ WF_vars(SessionEnds(r))
  /\ WF_vars(RunCallback) /\ WF_vars(responseObjectForResponse) /\ WF_vars(RunBlock)

-----------------------------------------------------------------------------
(* Properties *)

RR == INSTANCE RequestReply

(* Four threads and three queues come to what RequestReply says of GET: no *)
(* completion runs twice and none before its GET, however late init's      *)
(* callback is.                                                            *)
AnswersOnce == RR!ReplySpec

(* A call gets its answer, unless init's callback replaced its delegate.   *)
AnsweredUnlessReplaced ==
  \A r \in Requests : (r \in asked) ~> (replies[r] # << >> \/ r \in replaced)

(* A parsed answer was read from the whole body: no piece comes after the  *)
(* end, or went to another delegate than the one that has the completion.  *)
WholeBody ==
  /\ \A a \in processing : a.by.handler => a.by.data = arrived[a.of]
  /\ \A i \in 1 .. Len(mainQueue) :
       LET b == mainQueue[i]
       IN  b.by.handler /\ b.outcome = "object" => b.by.data = arrived[b.of]

(* A finished task leaves no delegate behind, again unless the callback    *)
(* put one there.                                                          *)
DelegatesFreed ==
  operationQueue = << >> =>
    \A r \in Requests : task[r] = "done" => delegates[r] = None \/ r \in replaced
=============================================================================
