-------------------------- MODULE APIClientProofs --------------------------
(***************************************************************************)
(* What GET of SpotifyAPIManager.mm owes its callers, for any number of    *)
(* calls and of pieces a body arrives in.                                  *)
(***************************************************************************)
EXTENDS APIClient, TLAPS, FunctionTheorems, FiniteSetTheorems, SequenceTheorems

Callback == [of : Requests, event : {"data", "end", "error", "remove"}]
EndEvents == {"end", "error"}

(* Where the one answer of call r may be: its task's last callback, an     *)
(* answer being parsed, a completion block; or it has been given.          *)
Ending(r) ==
  \E i \in 1 .. Len(operationQueue) :
     operationQueue[i].of = r /\ operationQueue[i].event \in EndEvents
Parsing(r) == \E a \in processing : a.of = r
Completing(r) == \E i \in 1 .. Len(mainQueue) : mainQueue[i].of = r
Replied(r) == replies[r] # << >>
Answered(r) == Parsing(r) \/ Completing(r) \/ Replied(r)

(* GET is inside the call whose task is not resumed yet.                   *)
IssuingIsSuspended ==
  \A r \in Requests : task[r] = "suspended" <=> issuing \in {<<r, "add">>, <<r, "resume">>}

(* Nothing happens to a task before it is resumed.                         *)
IdleBeforeResume ==
  \A r \in Requests : task[r] \in {"absent", "suspended"} =>
    /\ arrived[r] = 0
    /\ \A i \in 1 .. Len(operationQueue) : operationQueue[i].of # r

(* A callback that is not "data" belongs to a task that is done, and is    *)
(* the last one of its task.                                               *)
EndsAreLast ==
  /\ \A i \in 1 .. Len(operationQueue) :
       operationQueue[i].event # "data" => task[operationQueue[i].of] = "done"
  /\ \A i, j \in 1 .. Len(operationQueue) :
       i < j /\ operationQueue[i].of = operationQueue[j].of => operationQueue[i].event = "data"

(* The answer of a call is in one place at a time, and there once.         *)
OneAnswer ==
  /\ \A r \in Requests :
       /\ r \notin asked => task[r] = "absent" /\ ~Answered(r)
       /\ task[r] \in {"suspended", "running"} \/ Ending(r) => ~Answered(r)
       /\ Parsing(r) => ~Completing(r) /\ ~Replied(r)
       /\ Completing(r) => ~Replied(r)
  /\ \A a, b \in processing : a.of = b.of => a = b
  /\ \A i, j \in 1 .. Len(mainQueue) : mainQueue[i].of = mainQueue[j].of => i = j

(* A delegate with the completion has collected every piece but the ones   *)
(* whose callbacks still wait.                                             *)
Waiting(q, r) == {i \in 1 .. Len(q) : q[i].of = r /\ q[i].event = "data"}
Collected ==
  \A r \in Requests : delegates[r] # None /\ delegates[r].handler =>
    delegates[r].data + Cardinality(Waiting(operationQueue, r)) = arrived[r]

(* The delegate of a finished task has a callback coming that removes it.  *)
Removal ==
  \A r \in Requests : task[r] = "done" =>
    \/ delegates[r] = None \/ r \in replaced
    \/ \E i \in 1 .. Len(operationQueue) :
         operationQueue[i].of = r /\ operationQueue[i].event # "data"

IInv ==
  /\ TypeOK /\ IssuingIsSuspended /\ IdleBeforeResume /\ EndsAreLast
  /\ OneAnswer /\ Collected /\ WholeBody /\ Removal

-----------------------------------------------------------------------------
(* The queue of the session's callbacks.                                   *)

(* Appended callbacks leave the others in place.                           *)
LEMMA QueueAppend ==
  ASSUME NEW q \in Seq(Callback), NEW e \in Callback
  PROVE  LET p == Append(q, e)
         IN  /\ p \in Seq(Callback) /\ Len(p) = Len(q) + 1 /\ Len(q) \in Nat
             /\ p[Len(q) + 1] = e
             /\ \A i \in 1 .. Len(q) : p[i] = q[i]
             /\ \A r \in Requests : Waiting(p, r) =
                  IF e.of = r /\ e.event = "data" THEN Waiting(q, r) \cup {Len(q) + 1}
                                                  ELSE Waiting(q, r)
<1> DEFINE p == Append(q, e)
<1>1. /\ p \in Seq(Callback) /\ Len(p) = Len(q) + 1 /\ Len(q) \in Nat
      /\ p[Len(q) + 1] = e /\ \A i \in 1 .. Len(q) : p[i] = q[i]
  BY AppendProperties, LenProperties
<1> HIDE DEF p
<1>2. ASSUME NEW r \in Requests
      PROVE  Waiting(p, r) = IF e.of = r /\ e.event = "data" THEN Waiting(q, r) \cup {Len(q) + 1}
                                                             ELSE Waiting(q, r)
  <2>1. 1 .. Len(p) = (1 .. Len(q)) \cup {Len(q) + 1}
    BY <1>1
  <2> QED BY <1>1, <2>1 DEF Waiting
<1> QED BY <1>1, <1>2 DEF p

(* The pieces waiting are finitely many.                                   *)
LEMMA WaitingFinite ==
  ASSUME NEW q \in Seq(Callback), NEW r
  PROVE  /\ IsFiniteSet(Waiting(q, r)) /\ Cardinality(Waiting(q, r)) \in Nat
         /\ Waiting(q, r) \subseteq 1 .. Len(q)
<1>1. IsFiniteSet(1 .. Len(q)) /\ Waiting(q, r) \subseteq 1 .. Len(q)
  BY FS_Interval, LenProperties DEF Waiting
<1> QED BY <1>1, FS_Subset, FS_CardinalityType

(* The first callback gone, the others move up.                            *)
LEMMA QueueTail ==
  ASSUME NEW q \in Seq(Callback), q # << >>
  PROVE  LET p == Tail(q)
         IN  /\ p \in Seq(Callback) /\ Len(p) = Len(q) - 1 /\ Len(p) \in Nat
             /\ Head(q) = q[1] /\ q[1] \in Callback /\ 1 \in 1 .. Len(q)
             /\ \A i \in 1 .. Len(p) : p[i] = q[i + 1]
             /\ \A r \in Requests : Cardinality(Waiting(q, r)) =
                  IF q[1].of = r /\ q[1].event = "data" THEN Cardinality(Waiting(p, r)) + 1
                                                        ELSE Cardinality(Waiting(p, r))
<1> DEFINE p == Tail(q)
<1>1. /\ p \in Seq(Callback) /\ Len(p) = Len(q) - 1 /\ Len(p) \in Nat
      /\ Head(q) = q[1] /\ q[1] \in Callback /\ 1 \in 1 .. Len(q)
      /\ \A i \in 1 .. Len(p) : p[i] = q[i + 1]
  <2>1. /\ p \in Seq(Callback) /\ Len(p) = Len(q) - 1
        /\ \A i \in 1 .. Len(p) : p[i] = q[i + 1] /\ Head(q) = q[1]
    BY HeadTailProperties
  <2>2. Len(q) \in Nat \ {0} /\ Head(q) = q[1]
    BY EmptySeq, LenProperties
  <2>3. 1 \in 1 .. Len(q)
    BY <2>2
  <2>4. q[1] \in Callback
    BY <2>3, ElementOfSeq
  <2> QED BY <2>1, <2>2, <2>3, <2>4
<1> HIDE DEF p
<1>2. ASSUME NEW r \in Requests
      PROVE  Cardinality(Waiting(q, r)) =
               IF q[1].of = r /\ q[1].event = "data" THEN Cardinality(Waiting(p, r)) + 1
                                                     ELSE Cardinality(Waiting(p, r))
  <2> DEFINE W == Waiting(q, r) \ {1}
             f == [i \in W |-> i - 1]
  <2>1. IsFiniteSet(Waiting(q, r)) /\ Waiting(q, r) \subseteq 1 .. Len(q)
    BY WaitingFinite
  <2>2. IsFiniteSet(W)
    BY <2>1, FS_RemoveElement
  <2>3. f \in Bijection(W, Waiting(p, r))
    <3>1. ASSUME NEW i \in W PROVE i - 1 \in Waiting(p, r)
      <4>1. i \in 1 .. Len(q) /\ i # 1 /\ q[i].of = r /\ q[i].event = "data"
        BY <2>1 DEF Waiting
      <4>2. i - 1 \in 1 .. Len(p) /\ p[i - 1] = q[i]
        BY <1>1, <4>1
      <4> QED BY <4>1, <4>2 DEF Waiting
    <3>2. ASSUME NEW j \in Waiting(p, r) PROVE \E i \in W : f[i] = j
      <4>1. j \in 1 .. Len(p) /\ p[j].of = r /\ p[j].event = "data"
        BY DEF Waiting
      <4>2. j + 1 \in 1 .. Len(q) /\ j + 1 # 1 /\ q[j + 1] = p[j]
        BY <1>1, <4>1
      <4>3. j + 1 \in W /\ (j + 1) - 1 = j
        BY <4>1, <4>2 DEF Waiting
      <4> QED BY <4>3
    <3>3. \A i, j \in W : f[i] = f[j] => i = j
      BY <2>1
    <3>4. f \in [W -> Waiting(p, r)]
      BY <3>1
    <3> QED BY <3>2, <3>3, <3>4, Fun_IsBij
  <2>4. Cardinality(W) = Cardinality(Waiting(p, r))
    BY <2>2, <2>3, FS_Bijection DEF ExistsBijection
  <2>5. 1 \in Waiting(q, r) <=> q[1].of = r /\ q[1].event = "data"
    BY <1>1 DEF Waiting
  <2>6. Cardinality(Waiting(q, r)) \in Nat
    BY WaitingFinite
  <2>7. Cardinality(W) = IF 1 \in Waiting(q, r) THEN Cardinality(Waiting(q, r)) - 1
                                                ELSE Cardinality(Waiting(q, r))
    BY <2>1, FS_RemoveElement
  <2> HIDE DEF f, W
  <2> QED BY <2>4, <2>5, <2>6, <2>7
<1> QED BY <1>1, <1>2 DEF p

(* The callback that ends a task becomes the removal of its delegate.      *)
LEMMA QueueEndTold ==
  ASSUME NEW q \in Seq(Callback), q # << >>, Head(q).event # "data"
  PROVE  LET p == <<[Head(q) EXCEPT !.event = "remove"]>> \o Tail(q)
         IN  /\ p \in Seq(Callback) /\ Len(p) = Len(q)
             /\ p[1].of = q[1].of /\ p[1].event = "remove"
             /\ \A i \in 2 .. Len(q) : p[i] = q[i]
             /\ \A r \in Requests : Waiting(p, r) = Waiting(q, r)
<1> DEFINE t == Tail(q)
           h == [Head(q) EXCEPT !.event = "remove"]
           p == <<h>> \o t
<1>1. /\ t \in Seq(Callback) /\ Len(t) = Len(q) - 1 /\ Len(t) \in Nat
      /\ Head(q) = q[1] /\ q[1] \in Callback /\ 1 \in 1 .. Len(q)
      /\ \A i \in 1 .. Len(t) : t[i] = q[i + 1]
  BY QueueTail
<1>2. h \in Callback /\ h.of = q[1].of /\ h.event = "remove"
  BY <1>1 DEF Callback
<1> HIDE DEF h, t
<1>3. <<h>> \in Seq(Callback) /\ Len(<<h>>) = 1 /\ <<h>>[1] = h
  BY <1>2
<1>4. /\ p \in Seq(Callback) /\ Len(p) = 1 + Len(t)
      /\ \A i \in 1 .. 1 + Len(t) : p[i] = IF i <= 1 THEN <<h>>[i] ELSE t[i - 1]
  BY <1>1, <1>3, ConcatProperties
<1> HIDE DEF p
<1>5. p[1] = h /\ Len(p) = Len(q) /\ Len(q) \in Nat
  BY <1>1, <1>3, <1>4
<1>6. \A i \in 2 .. Len(q) : p[i] = q[i]
  <2> SUFFICES ASSUME NEW i \in 2 .. Len(q) PROVE p[i] = q[i]
    OBVIOUS
  <2>1. i - 1 \in 1 .. Len(t) /\ i \in 1 .. 1 + Len(t) /\ ~(i <= 1) /\ (i - 1) + 1 = i
    BY <1>1
  <2> QED BY <1>1, <1>4, <2>1
<1>7. ASSUME NEW r \in Requests PROVE Waiting(p, r) = Waiting(q, r)
  <2>1. p[1].event # "data" /\ q[1].event # "data"
    BY <1>1, <1>2, <1>5
  <2>2. 1 .. Len(q) = {1} \cup 2 .. Len(q)
    BY <1>1
  <2> QED BY <1>5, <1>6, <2>1, <2>2 DEF Waiting
<1> QED BY <1>2, <1>4, <1>5, <1>6, <1>7 DEF p, h, t

-----------------------------------------------------------------------------
(* Init and the steps of GET.                                              *)
LEMMA InitIInv == Init => IInv
<1> SUFFICES ASSUME Init PROVE IInv
  OBVIOUS
<1>1. operationQueue = << >> /\ mainQueue = << >> /\ processing = {}
  BY DEF Init
<1>2. TypeOK
  <2>1. operationQueue \in Seq(Callback) /\ mainQueue \in Seq(Block)
    BY <1>1, EmptySeq
  <2>2. replies \in [Requests -> Seq({"object", "error"})]
    BY EmptySeq DEF Init
  <2>3. /\ issuing = None /\ asked = {} /\ listing \in BOOLEAN /\ listed = {} /\ replaced = {}
        /\ task \in [Requests -> {"absent", "suspended", "running", "done"}]
        /\ arrived \in [Requests -> 0 .. maxChunks]
        /\ delegates \in [Requests -> Delegate \cup {None}]
    BY ChunkBound DEF Init
  <2> QED BY <1>1, <2>1, <2>2, <2>3 DEF TypeOK, Callback
<1>3. Len(operationQueue) = 0 /\ Len(mainQueue) = 0
  BY <1>1, EmptySeq
<1>4. IssuingIsSuspended
  <2>1. \A r \in Requests : <<r, "add">> # None /\ <<r, "resume">> # None
    BY NoneAssumption
  <2> QED BY <2>1 DEF Init, IssuingIsSuspended
<1>5. IdleBeforeResume /\ EndsAreLast /\ WholeBody
  BY <1>1, <1>3 DEF Init, IdleBeforeResume, EndsAreLast, WholeBody
<1>6. OneAnswer
  BY <1>1, <1>3 DEF Init, OneAnswer, Answered, Ending, Parsing, Completing, Replied
<1>7. Collected /\ Removal
  BY DEF Init, Collected, Removal
<1> QED BY <1>2, <1>4, <1>5, <1>6, <1>7 DEF IInv

(* A completion block joins the main queue.                                *)
LEMMA MainQueueAppend ==
  ASSUME NEW q \in Seq(Block), NEW b \in Block
  PROVE  /\ Append(q, b) \in Seq(Block) /\ Len(Append(q, b)) = Len(q) + 1 /\ Len(q) \in Nat
         /\ Append(q, b)[Len(q) + 1] = b
         /\ \A i \in 1 .. Len(q) : Append(q, b)[i] = q[i]
  BY AppendProperties, LenProperties

(* What the types of the queues say of their members.                      *)
LEMMA QueueTypes ==
  ASSUME TypeOK
  PROVE  /\ operationQueue \in Seq(Callback) /\ Len(operationQueue) \in Nat
         /\ \A i \in 1 .. Len(operationQueue) : operationQueue[i] \in Callback
         /\ mainQueue \in Seq(Block) /\ Len(mainQueue) \in Nat
         /\ \A i \in 1 .. Len(mainQueue) : mainQueue[i] \in Block
<1>1. operationQueue \in Seq(Callback) /\ mainQueue \in Seq(Block)
  BY DEF TypeOK, Callback
<1> QED BY <1>1, LenProperties, ElementOfSeq

(* A request that cannot be built: its one answer is the block.            *)
LEMMA SerializationStep ==
  ASSUME IInv, NEW r \in Requests, RequestSerializationFails(r) PROVE IInv'
<1> DEFINE yes == TRUE
           d == newDelegate(yes)
           b == [of |-> r, by |-> d, outcome |-> "error"]
<1>1. b \in Block /\ b.of = r /\ b.outcome = "error"
  BY DEF Block, Delegate, newDelegate
<1>2. mainQueue' = Append(mainQueue, b)
  BY DEF RequestSerializationFails, dispatch_main
<1> HIDE DEF b
<1>3. /\ mainQueue' \in Seq(Block) /\ Len(mainQueue') = Len(mainQueue) + 1 /\ Len(mainQueue) \in Nat
      /\ mainQueue'[Len(mainQueue) + 1] = b
      /\ \A i \in 1 .. Len(mainQueue) : mainQueue'[i] = mainQueue[i]
  BY <1>1, <1>2, MainQueueAppend, QueueTypes DEF IInv
<1>4. /\ UNCHANGED <<issuing, task, arrived, delegates, operationQueue, processing, replies>>
      /\ UNCHANGED <<listing, listed, replaced>>
      /\ r \notin asked /\ asked' = asked \cup {r}
  BY DEF RequestSerializationFails, callback
<1>5. TypeOK'
  BY <1>3, <1>4 DEF IInv, TypeOK
<1>6. IssuingIsSuspended' /\ IdleBeforeResume' /\ EndsAreLast' /\ Collected' /\ Removal'
  BY <1>4 DEF IInv, IssuingIsSuspended, IdleBeforeResume, EndsAreLast, Collected, Removal
<1>7. OneAnswer'
  <2>1. /\ task[r] = "absent" /\ ~Answered(r) /\ ~Ending(r)
    BY <1>4 DEF IInv, OneAnswer, IdleBeforeResume, Ending
  <2>2. \A s \in Requests : Completing(s)' <=> Completing(s) \/ s = r
    BY <1>1, <1>3 DEF Completing
  <2>3. \A s \in Requests : /\ Parsing(s)' = Parsing(s) /\ Replied(s)' = Replied(s)
                            /\ Ending(s)' = Ending(s)
    BY <1>4 DEF Parsing, Replied, Ending
  <2>4. \A i, j \in 1 .. Len(mainQueue') : mainQueue'[i].of = mainQueue'[j].of => i = j
    <3>1. \A i \in 1 .. Len(mainQueue) : mainQueue[i].of # r
      BY <2>1 DEF Answered, Completing
    <3> QED BY <1>1, <1>3, <3>1 DEF IInv, OneAnswer
  <2>5. \A s \in Requests :
       /\ s \notin asked' => task[s]' = "absent" /\ ~Answered(s)'
       /\ task[s]' \in {"suspended", "running"} \/ Ending(s)' => ~Answered(s)'
       /\ Parsing(s)' => ~Completing(s)' /\ ~Replied(s)'
       /\ Completing(s)' => ~Replied(s)'
    BY <1>4, <2>1, <2>2, <2>3 DEF IInv, OneAnswer, Answered
  <2> QED BY <1>4, <2>4, <2>5 DEF IInv, OneAnswer
<1>8. WholeBody'
  BY <1>1, <1>3, <1>4 DEF IInv, WholeBody
<1> QED BY <1>5, <1>6, <1>7, <1>8 DEF IInv

(* GET creates its task.                                                   *)
LEMMA TaskStep == ASSUME IInv, NEW r \in Requests, dataTaskWithRequest(r) PROVE IInv'
<1>1. /\ UNCHANGED <<arrived, delegates, operationQueue, processing, mainQueue, replies>>
      /\ UNCHANGED <<listing, listed, replaced>>
      /\ issuing = None /\ r \notin asked /\ asked' = asked \cup {r}
      /\ issuing' = <<r, "add">> /\ task' = [task EXCEPT ![r] = "suspended"]
  BY DEF dataTaskWithRequest, callback
<1>2. task[r] = "absent" /\ ~Answered(r) /\ \A i \in 1 .. Len(operationQueue) : operationQueue[i].of # r
  BY <1>1 DEF IInv, OneAnswer, IdleBeforeResume
<1>3. /\ task' \in [Requests -> {"absent", "suspended", "running", "done"}]
      /\ task'[r] = "suspended" /\ \A s \in Requests \ {r} : task'[s] = task[s]
  BY <1>1 DEF IInv, TypeOK
<1>4. TypeOK'
  BY <1>1, <1>3 DEF IInv, TypeOK
<1>5. IssuingIsSuspended'
  <2>1. \A s \in Requests : task[s] # "suspended"
    BY <1>1, NoneAssumption DEF IInv, IssuingIsSuspended
  <2> QED BY <1>1, <1>3, <2>1 DEF IssuingIsSuspended
<1>6. IdleBeforeResume'
  BY <1>1, <1>2, <1>3 DEF IInv, IdleBeforeResume
<1>7. EndsAreLast'
  BY <1>1, <1>2, <1>3, QueueTypes DEF IInv, EndsAreLast, Callback
<1>8. OneAnswer'
  <2>1. \A s \in Requests : /\ Answered(s)' = Answered(s) /\ Parsing(s)' = Parsing(s)
                            /\ Completing(s)' = Completing(s) /\ Replied(s)' = Replied(s)
                            /\ Ending(s)' = Ending(s)
    BY <1>1 DEF Answered, Parsing, Completing, Replied, Ending
  <2> QED BY <1>1, <1>2, <1>3, <2>1 DEF IInv, OneAnswer
<1>9. Collected' /\ WholeBody' /\ Removal'
  BY <1>1, <1>3 DEF IInv, Collected, WholeBody, Removal
<1> QED BY <1>4, <1>5, <1>6, <1>7, <1>8, <1>9 DEF IInv

(* Its delegate, new and with the completion, has missed nothing.          *)
LEMMA DelegateStep == ASSUME IInv, NEW r \in Requests, addDelegateForDataTask(r) PROVE IInv'
<1> DEFINE yes == TRUE
           d == newDelegate(yes)
<1>1. /\ UNCHANGED <<asked, task, arrived, operationQueue, processing, mainQueue, replies>>
      /\ UNCHANGED <<listing, listed, replaced>>
      /\ issuing = <<r, "add">> /\ issuing' = <<r, "resume">>
      /\ delegates' = [delegates EXCEPT ![r] = d]
  BY DEF addDelegateForDataTask, callback
<1>2. d \in Delegate /\ d.data = 0
  BY DEF newDelegate, Delegate
<1> HIDE DEF d
<1>3. /\ delegates' \in [Requests -> Delegate \cup {None}]
      /\ delegates'[r] = d /\ \A s \in Requests \ {r} : delegates'[s] = delegates[s]
  BY <1>1, <1>2 DEF IInv, TypeOK
<1>4. task[r] = "suspended"
  BY <1>1 DEF IInv, IssuingIsSuspended
<1>5. TypeOK'
  BY <1>1, <1>3 DEF IInv, TypeOK
<1>6. IssuingIsSuspended'
  BY <1>1 DEF IInv, IssuingIsSuspended
<1>7. IdleBeforeResume' /\ EndsAreLast' /\ WholeBody'
  BY <1>1 DEF IInv, IdleBeforeResume, EndsAreLast, WholeBody
<1>8. OneAnswer'
  BY <1>1 DEF IInv, OneAnswer, Answered, Parsing, Completing, Replied, Ending
<1>9. Collected'
  <2>1. arrived[r] = 0 /\ Waiting(operationQueue, r) = {}
    BY <1>4 DEF IInv, IdleBeforeResume, Waiting
  <2>2. Cardinality({}) = 0
    BY FS_EmptySet
  <2> QED BY <1>1, <1>2, <1>3, <2>1, <2>2 DEF IInv, Collected
<1>10. Removal'
  BY <1>1, <1>3, <1>4 DEF IInv, Removal
<1> QED BY <1>5, <1>6, <1>7, <1>8, <1>9, <1>10 DEF IInv

(* The task is resumed.                                                    *)
LEMMA ResumeStep == ASSUME IInv, NEW r \in Requests, resume(r) PROVE IInv'
<1>1. /\ UNCHANGED <<asked, arrived, delegates, operationQueue, processing, mainQueue, replies>>
      /\ UNCHANGED <<listing, listed, replaced>>
      /\ issuing = <<r, "resume">> /\ issuing' = None
      /\ task' = [task EXCEPT ![r] = "running"]
  BY DEF resume, callback
<1>2. task[r] = "suspended" /\ \A s \in Requests \ {r} : task[s] # "suspended"
  BY <1>1 DEF IInv, IssuingIsSuspended
<1>3. /\ task' \in [Requests -> {"absent", "suspended", "running", "done"}]
      /\ task'[r] = "running" /\ \A s \in Requests \ {r} : task'[s] = task[s]
  BY <1>1 DEF IInv, TypeOK
<1>4. TypeOK'
  BY <1>1, <1>3 DEF IInv, TypeOK
<1>5. IssuingIsSuspended'
  BY <1>1, <1>2, <1>3, NoneAssumption DEF IssuingIsSuspended
<1>6. IdleBeforeResume' /\ EndsAreLast'
  BY <1>1, <1>2, <1>3, QueueTypes DEF IInv, IdleBeforeResume, EndsAreLast, Callback
<1>7. OneAnswer'
  <2>1. \A s \in Requests : /\ Answered(s)' = Answered(s) /\ Parsing(s)' = Parsing(s)
                            /\ Completing(s)' = Completing(s) /\ Replied(s)' = Replied(s)
                            /\ Ending(s)' = Ending(s)
    BY <1>1 DEF Answered, Parsing, Completing, Replied, Ending
  <2> QED BY <1>1, <1>2, <1>3, <2>1 DEF IInv, OneAnswer
<1>8. Collected' /\ WholeBody' /\ Removal'
  BY <1>1, <1>3 DEF IInv, Collected, WholeBody, Removal
<1> QED BY <1>4, <1>5, <1>6, <1>7, <1>8 DEF IInv

-----------------------------------------------------------------------------
(* The session's steps.                                                    *)

(* A piece of the body arrives.                                            *)
LEMMA ReceiveStep == ASSUME IInv, NEW r \in Requests, SessionReceives(r) PROVE IInv'
<1> DEFINE e == [of |-> r, event |-> "data"]
<1>1. /\ UNCHANGED <<issuing, asked, task, delegates, processing, mainQueue, replies>>
      /\ UNCHANGED <<listing, listed, replaced>>
      /\ task[r] = "running" /\ arrived[r] < maxChunks
      /\ arrived' = [arrived EXCEPT ![r] = @ + 1]
      /\ operationQueue' = Append(operationQueue, e)
  BY DEF SessionReceives, calls, callback, enqueue
<1>2. e \in Callback /\ e.of = r /\ e.event = "data"
  BY DEF Callback
<1> HIDE DEF e
<1>3. /\ operationQueue \in Seq(Callback) /\ Len(operationQueue) \in Nat
      /\ operationQueue' \in Seq(Callback) /\ Len(operationQueue') = Len(operationQueue) + 1
      /\ operationQueue'[Len(operationQueue) + 1] = e
      /\ \A i \in 1 .. Len(operationQueue) : operationQueue'[i] = operationQueue[i]
      /\ \A s \in Requests : Waiting(operationQueue', s) =
           IF s = r THEN Waiting(operationQueue, s) \cup {Len(operationQueue) + 1}
                    ELSE Waiting(operationQueue, s)
  BY <1>1, <1>2, QueueAppend, QueueTypes DEF IInv
<1>4. /\ arrived' \in [Requests -> 0 .. maxChunks]
      /\ arrived'[r] = arrived[r] + 1 /\ arrived[r] \in Nat
      /\ \A s \in Requests \ {r} : arrived'[s] = arrived[s]
  BY <1>1, ChunkBound DEF IInv, TypeOK
<1>5. ~Ending(r) /\ ~Answered(r)
  <2>1. ~Answered(r)
    BY <1>1 DEF IInv, OneAnswer
  <2>2. ~Ending(r)
    BY <1>1 DEF IInv, EndsAreLast, Ending, EndEvents
  <2> QED BY <2>1, <2>2
<1>6. TypeOK'
  BY <1>1, <1>3, <1>4 DEF IInv, TypeOK, Callback
<1>7. IssuingIsSuspended' /\ IdleBeforeResume'
  BY <1>1, <1>2, <1>3, <1>4 DEF IInv, IssuingIsSuspended, IdleBeforeResume
<1>8. EndsAreLast'
  <2>1. \A i \in 1 .. Len(operationQueue) :
          operationQueue[i].event # "data" => operationQueue[i].of # r
    BY <1>1 DEF IInv, EndsAreLast
  <2> QED BY <1>1, <1>2, <1>3, <2>1 DEF IInv, EndsAreLast
<1>9. OneAnswer'
  <2>1. \A s \in Requests : /\ Answered(s)' = Answered(s) /\ Parsing(s)' = Parsing(s)
                            /\ Completing(s)' = Completing(s) /\ Replied(s)' = Replied(s)
    BY <1>1 DEF Answered, Parsing, Completing, Replied
  <2>2. \A s \in Requests : Ending(s)' => Ending(s)
    BY <1>2, <1>3 DEF Ending, EndEvents
  <2> QED BY <1>1, <2>1, <2>2 DEF IInv, OneAnswer
<1>10. Collected'
  <2>1. Cardinality(Waiting(operationQueue', r)) = Cardinality(Waiting(operationQueue, r)) + 1
    <3>1. Len(operationQueue) + 1 \notin Waiting(operationQueue, r)
      BY <1>3, WaitingFinite
    <3> QED BY <1>3, <3>1, WaitingFinite, FS_AddElement
  <2>2. Cardinality(Waiting(operationQueue, r)) \in Nat
    BY <1>3, WaitingFinite
  <2>3. \A s \in Requests : delegates[s] # None => delegates[s].data \in Nat
    BY DEF IInv, TypeOK, Delegate
  <2>4. ASSUME NEW s \in Requests, delegates[s] # None, delegates[s].handler
        PROVE  delegates[s].data + Cardinality(Waiting(operationQueue', s)) = arrived'[s]
    <3>1. delegates[s].data + Cardinality(Waiting(operationQueue, s)) = arrived[s]
      BY <2>4 DEF IInv, Collected
    <3>2. CASE s = r
      BY <1>4, <2>1, <2>2, <2>3, <2>4, <3>1, <3>2
    <3>3. CASE s # r
      BY <1>3, <1>4, <3>1, <3>3
    <3> QED BY <3>2, <3>3
  <2> QED BY <1>1, <2>4 DEF Collected
<1>11. WholeBody'
  <2>1. /\ \A a \in processing : a.of # r /\ a.of \in Requests
        /\ \A i \in 1 .. Len(mainQueue) : mainQueue[i].of # r /\ mainQueue[i].of \in Requests
    BY <1>5, QueueTypes DEF IInv, TypeOK, Answered, Parsing, Completing, Answer, Block
  <2> QED BY <1>1, <1>4, <2>1 DEF IInv, WholeBody
<1>12. Removal'
  <2>1. \A s \in Requests : (\E i \in 1 .. Len(operationQueue) :
          operationQueue[i].of = s /\ operationQueue[i].event # "data") =>
        (\E i \in 1 .. Len(operationQueue') :
          operationQueue'[i].of = s /\ operationQueue'[i].event # "data")
    BY <1>3
  <2> QED BY <1>1, <2>1 DEF IInv, Removal
<1> QED BY <1>6, <1>7, <1>8, <1>9, <1>10, <1>11, <1>12 DEF IInv

(* The task ends.                                                          *)
LEMMA EndStep == ASSUME IInv, NEW r \in Requests, SessionEnds(r) PROVE IInv'
<1>1. PICK event \in EndEvents : operationQueue' = Append(operationQueue, [of |-> r, event |-> event])
  BY DEF SessionEnds, enqueue, EndEvents
<1> DEFINE e == [of |-> r, event |-> event]
<1>2. /\ UNCHANGED <<issuing, asked, arrived, delegates, processing, mainQueue, replies>>
      /\ UNCHANGED <<listing, listed, replaced>>
      /\ task[r] = "running" /\ task' = [task EXCEPT ![r] = "done"]
  BY DEF SessionEnds, callback
<1>3. e \in Callback /\ e.of = r /\ e.event = event /\ event # "data"
  BY DEF Callback, EndEvents
<1>4. operationQueue' = Append(operationQueue, e)
  BY <1>1
<1> HIDE DEF e
<1>5. /\ operationQueue \in Seq(Callback) /\ Len(operationQueue) \in Nat
      /\ operationQueue' \in Seq(Callback) /\ Len(operationQueue') = Len(operationQueue) + 1
      /\ operationQueue'[Len(operationQueue) + 1] = e
      /\ \A i \in 1 .. Len(operationQueue) : operationQueue'[i] = operationQueue[i]
      /\ \A s \in Requests : Waiting(operationQueue', s) = Waiting(operationQueue, s)
  BY <1>3, <1>4, QueueAppend, QueueTypes DEF IInv
<1>6. /\ task' \in [Requests -> {"absent", "suspended", "running", "done"}]
      /\ task'[r] = "done" /\ \A s \in Requests \ {r} : task'[s] = task[s]
  BY <1>2 DEF IInv, TypeOK
<1>7. /\ \A i \in 1 .. Len(operationQueue) :
           operationQueue[i].event # "data" => operationQueue[i].of # r
      /\ ~Answered(r)
  BY <1>2 DEF IInv, EndsAreLast, OneAnswer
<1>8. TypeOK'
  BY <1>2, <1>5, <1>6 DEF IInv, TypeOK, Callback
<1>9. IssuingIsSuspended' /\ IdleBeforeResume'
  BY <1>2, <1>3, <1>5, <1>6 DEF IInv, IssuingIsSuspended, IdleBeforeResume
<1>10. EndsAreLast'
  <2>1. \A i \in 1 .. Len(operationQueue) : operationQueue[i].of \in Requests
    BY QueueTypes DEF IInv, Callback
  <2> QED BY <1>3, <1>5, <1>6, <1>7, <2>1 DEF IInv, EndsAreLast
<1>11. OneAnswer'
  <2>1. \A s \in Requests : /\ Answered(s)' = Answered(s) /\ Parsing(s)' = Parsing(s)
                            /\ Completing(s)' = Completing(s) /\ Replied(s)' = Replied(s)
    BY <1>2 DEF Answered, Parsing, Completing, Replied
  <2>2. \A s \in Requests \ {r} : Ending(s)' => Ending(s)
    BY <1>3, <1>5 DEF Ending
  <2> QED BY <1>2, <1>6, <1>7, <2>1, <2>2 DEF IInv, OneAnswer
<1>12. Collected' /\ WholeBody'
  BY <1>2, <1>5 DEF IInv, Collected, WholeBody
<1>13. Removal'
  <2>1. \A s \in Requests : s = r \/ (\E i \in 1 .. Len(operationQueue) :
          operationQueue[i].of = s /\ operationQueue[i].event # "data") =>
        (\E i \in 1 .. Len(operationQueue') :
          operationQueue'[i].of = s /\ operationQueue'[i].event # "data")
    BY <1>3, <1>5
  <2> QED BY <1>2, <1>6, <2>1 DEF IInv, Removal
<1> QED BY <1>8, <1>9, <1>10, <1>11, <1>12, <1>13 DEF IInv

-----------------------------------------------------------------------------
(* The callbacks on operationQueue.                                        *)

(* What the manager's callbacks leave alone.                               *)
CallbackFrame == UNCHANGED <<issuing, asked, task, arrived, replies, listing, listed, replaced>>

(* The first callback gone, what is known of the queue still holds.        *)
LEMMA TailKeeps ==
  ASSUME IInv, operationQueue # << >>, operationQueue' = Tail(operationQueue), CallbackFrame
  PROVE  /\ operationQueue' \in Seq(Callback)
         /\ IssuingIsSuspended' /\ IdleBeforeResume' /\ EndsAreLast'
         /\ \A s \in Requests : Ending(s)' => Ending(s)
<1>1. /\ operationQueue' \in Seq(Callback) /\ Len(operationQueue') = Len(operationQueue) - 1
      /\ Len(operationQueue') \in Nat
      /\ \A i \in 1 .. Len(operationQueue') : operationQueue'[i] = operationQueue[i + 1]
  BY QueueTail, QueueTypes DEF IInv
<1>2. \A i \in 1 .. Len(operationQueue') :
        i + 1 \in 1 .. Len(operationQueue) /\ operationQueue'[i] = operationQueue[i + 1]
  BY <1>1
<1>3. IssuingIsSuspended' /\ IdleBeforeResume'
  BY <1>2 DEF IInv, IssuingIsSuspended, IdleBeforeResume, CallbackFrame
<1>4. EndsAreLast'
  <2>1. \A i, j \in 1 .. Len(operationQueue') : i < j => i + 1 < j + 1
    BY <1>1
  <2> QED BY <1>2, <2>1 DEF IInv, EndsAreLast, CallbackFrame
<1>5. \A s \in Requests : Ending(s)' => Ending(s)
  BY <1>2 DEF Ending
<1> QED BY <1>1, <1>3, <1>4, <1>5

(* A callback of another kind than "end" in front leaves the others there. *)
LEMMA TailRemoval ==
  ASSUME IInv, operationQueue # << >>, operationQueue' = Tail(operationQueue),
         NEW s, s # Head(operationQueue).of \/ Head(operationQueue).event = "data",
         \E i \in 1 .. Len(operationQueue) :
           operationQueue[i].of = s /\ operationQueue[i].event # "data"
  PROVE  \E i \in 1 .. Len(operationQueue') :
           operationQueue'[i].of = s /\ operationQueue'[i].event # "data"
<1>1. PICK i \in 1 .. Len(operationQueue) :
        operationQueue[i].of = s /\ operationQueue[i].event # "data"
  OBVIOUS
<1>2. /\ Len(operationQueue') = Len(operationQueue) - 1
      /\ Len(operationQueue') \in Nat /\ Head(operationQueue) = operationQueue[1]
      /\ \A j \in 1 .. Len(operationQueue') : operationQueue'[j] = operationQueue[j + 1]
  BY QueueTail, QueueTypes DEF IInv
<1>3. i # 1
  BY <1>1, <1>2
<1>4. i - 1 \in 1 .. Len(operationQueue') /\ (i - 1) + 1 = i
  BY <1>2, <1>3
<1> QED BY <1>1, <1>2, <1>4

(* A piece reaches the delegate.                                           *)
LEMMA DataStep ==
  ASSUME IInv, operationQueue # << >>, CallbackFrame, didReceiveData(Head(operationQueue)) PROVE IInv'
<1> DEFINE e == Head(operationQueue)
           r == e.of
           new == appendData(delegates[r])
<1>1. /\ e.event = "data" /\ operationQueue' = Tail(operationQueue)
      /\ delegates' = [delegates EXCEPT ![r] = new]
      /\ UNCHANGED <<processing, mainQueue>>
  BY DEF didReceiveData
<1>2. /\ e \in Callback /\ e = operationQueue[1] /\ r \in Requests
      /\ \A s \in Requests : Cardinality(Waiting(operationQueue, s)) =
           IF s = r THEN Cardinality(Waiting(operationQueue', s)) + 1
                    ELSE Cardinality(Waiting(operationQueue', s))
  BY <1>1, QueueTail, QueueTypes DEF IInv, Callback
<1>3. /\ operationQueue' \in Seq(Callback)
      /\ IssuingIsSuspended' /\ IdleBeforeResume' /\ EndsAreLast'
      /\ \A s \in Requests : Ending(s)' => Ending(s)
  BY <1>1, TailKeeps
<1> HIDE DEF e, r
<1>4. /\ delegates' \in [Requests -> Delegate \cup {None}]
      /\ \A s \in Requests \ {r} : delegates'[s] = delegates[s]
      /\ delegates[r] = None => delegates'[r] = None
      /\ delegates[r] # None => /\ delegates'[r].handler = delegates[r].handler
                                /\ delegates'[r].data = delegates[r].data + 1
                                /\ delegates[r].data \in Nat
  <2>1. delegates \in [Requests -> Delegate \cup {None}]
    BY DEF IInv, TypeOK
  <2>2. ASSUME NEW d \in Delegate
        PROVE  /\ [d EXCEPT !.data = @ + 1] \in Delegate /\ d.data \in Nat
               /\ [d EXCEPT !.data = @ + 1].handler = d.handler
               /\ [d EXCEPT !.data = @ + 1].data = d.data + 1
    BY DEF Delegate
  <2>3. /\ new \in Delegate \cup {None} /\ (delegates[r] = None => new = None)
        /\ delegates[r] # None => /\ new.handler = delegates[r].handler
                                  /\ new.data = delegates[r].data + 1 /\ delegates[r].data \in Nat
    BY <1>2, <2>1, <2>2, NoneAssumption DEF appendData
  <2> HIDE DEF new
  <2>4. /\ delegates' \in [Requests -> Delegate \cup {None}] /\ delegates'[r] = new
        /\ \A s \in Requests \ {r} : delegates'[s] = delegates[s]
    BY <1>1, <1>2, <2>1, <2>3
  <2> QED BY <2>3, <2>4
<1>5. TypeOK'
  BY <1>1, <1>3, <1>4 DEF IInv, TypeOK, CallbackFrame, Callback
<1>6. OneAnswer'
  <2>1. \A s \in Requests : /\ Answered(s)' = Answered(s) /\ Parsing(s)' = Parsing(s)
                            /\ Completing(s)' = Completing(s) /\ Replied(s)' = Replied(s)
    BY <1>1 DEF Answered, Parsing, Completing, Replied, CallbackFrame
  <2> QED BY <1>1, <1>3, <2>1 DEF IInv, OneAnswer, CallbackFrame
<1>7. Collected'
  <2>1. \A s \in Requests : Cardinality(Waiting(operationQueue', s)) \in Nat
    BY <1>3, WaitingFinite
  <2>2. \A s \in Requests : s # r => UNCHANGED delegates[s]
    BY <1>4
  <2>3. ASSUME NEW s \in Requests, delegates'[s] # None, delegates'[s].handler
        PROVE  delegates'[s].data + Cardinality(Waiting(operationQueue', s)) = arrived[s]
    <3>1. CASE s = r
      BY <1>2, <1>4, <2>1, <2>3, <3>1 DEF IInv, Collected
    <3>2. CASE s # r
      BY <1>2, <1>4, <2>3, <3>2 DEF IInv, Collected
    <3> QED BY <3>1, <3>2
  <2> QED BY <2>3 DEF Collected, CallbackFrame
<1>8. WholeBody'
  BY <1>1 DEF IInv, WholeBody, CallbackFrame
<1>9. Removal'
  <2>1. ASSUME NEW s \in Requests, task[s] = "done", delegates[s] # None, s \notin replaced
        PROVE  \E i \in 1 .. Len(operationQueue') :
                 operationQueue'[i].of = s /\ operationQueue'[i].event # "data"
    BY <1>1, <2>1, TailRemoval DEF IInv, Removal, e
  <2> QED BY <1>4, <2>1 DEF Removal, CallbackFrame
<1> QED BY <1>3, <1>5, <1>6, <1>7, <1>8, <1>9 DEF IInv

(* The delegate is removed.                                                *)
LEMMA RemoveStep ==
  ASSUME IInv, operationQueue # << >>, CallbackFrame, removeDelegateForTask(Head(operationQueue))
  PROVE  IInv'
<1> DEFINE e == Head(operationQueue)
           r == e.of
<1>1. /\ e.event = "remove" /\ operationQueue' = Tail(operationQueue)
      /\ delegates' = [delegates EXCEPT ![r] = None]
      /\ UNCHANGED <<processing, mainQueue>>
  BY DEF removeDelegateForTask
<1>2. /\ e \in Callback /\ e = operationQueue[1] /\ r \in Requests
      /\ \A s \in Requests :
           Cardinality(Waiting(operationQueue, s)) = Cardinality(Waiting(operationQueue', s))
  BY <1>1, QueueTail, QueueTypes DEF IInv, Callback
<1>3. /\ operationQueue' \in Seq(Callback)
      /\ IssuingIsSuspended' /\ IdleBeforeResume' /\ EndsAreLast'
      /\ \A s \in Requests : Ending(s)' => Ending(s)
  BY <1>1, TailKeeps
<1> HIDE DEF e, r
<1>4. /\ delegates' \in [Requests -> Delegate \cup {None}] /\ delegates'[r] = None
      /\ \A s \in Requests \ {r} : delegates'[s] = delegates[s]
  <2>1. delegates \in [Requests -> Delegate \cup {None}]
    BY DEF IInv, TypeOK
  <2> HIDE DEF Delegate
  <2> QED BY <1>1, <1>2, <2>1
<1>5. TypeOK'
  BY <1>1, <1>3, <1>4 DEF IInv, TypeOK, CallbackFrame, Callback
<1>6. OneAnswer'
  <2>1. \A s \in Requests : /\ Answered(s)' = Answered(s) /\ Parsing(s)' = Parsing(s)
                            /\ Completing(s)' = Completing(s) /\ Replied(s)' = Replied(s)
    BY <1>1 DEF Answered, Parsing, Completing, Replied, CallbackFrame
  <2> QED BY <1>1, <1>3, <2>1 DEF IInv, OneAnswer, CallbackFrame
<1>7. Collected' /\ WholeBody'
  BY <1>1, <1>2, <1>4 DEF IInv, Collected, WholeBody, CallbackFrame
<1>8. Removal'
  <2>1. ASSUME NEW s \in Requests, s # r, task[s] = "done", delegates[s] # None, s \notin replaced
        PROVE  \E i \in 1 .. Len(operationQueue') :
                 operationQueue'[i].of = s /\ operationQueue'[i].event # "data"
    BY <1>1, <2>1, TailRemoval DEF IInv, Removal, e, r
  <2> QED BY <1>4, <2>1 DEF Removal, CallbackFrame
<1> QED BY <1>3, <1>5, <1>6, <1>7, <1>8 DEF IInv

(* The task's last callback: its delegate, if there is one, gets the       *)
(* answer or the error, and will be removed.                               *)
LEMMA CompleteStep ==
  ASSUME IInv, operationQueue # << >>, CallbackFrame, didCompleteWithError(Head(operationQueue))
  PROVE  IInv'
<1> DEFINE e == Head(operationQueue)
           r == e.of
           d == delegates[r]
<1>1. e.event \in EndEvents /\ UNCHANGED delegates
  BY DEF didCompleteWithError, EndEvents
<1>2. /\ e \in Callback /\ e = operationQueue[1] /\ r \in Requests /\ 1 \in 1 .. Len(operationQueue)
      /\ operationQueue \in Seq(Callback) /\ Len(operationQueue) \in Nat
  BY QueueTail, QueueTypes DEF IInv, Callback
<1>3. \A s \in Requests : s = r => ~Answered(s) /\ task[s] = "done"
  <2> SUFFICES ASSUME NEW s \in Requests, s = r PROVE ~Answered(s) /\ task[s] = "done"
    OBVIOUS
  <2>1. Ending(s) /\ task[s] = "done"
    BY <1>1, <1>2 DEF IInv, Ending, EndsAreLast, EndEvents
  <2> QED BY <2>1 DEF IInv, OneAnswer
<1>4. Waiting(operationQueue, r) = {}
  BY <1>1, <1>2 DEF IInv, EndsAreLast, Waiting, EndEvents
<1>5. ASSUME d = None PROVE IInv'
  <2>1. operationQueue' = << >> \o Tail(operationQueue) /\ UNCHANGED <<mainQueue, processing>>
    BY <1>5 DEF didCompleteWithError
  <2>2. operationQueue' = Tail(operationQueue)
    BY <1>2, <2>1, HeadTailProperties, ConcatEmptySeq
  <2>3. /\ operationQueue' \in Seq(Callback)
        /\ IssuingIsSuspended' /\ IdleBeforeResume' /\ EndsAreLast'
        /\ \A s \in Requests : Ending(s)' => Ending(s)
    BY <2>2, TailKeeps
  <2>4. TypeOK'
    BY <1>1, <2>1, <2>3 DEF IInv, TypeOK, CallbackFrame, Callback
  <2>5. OneAnswer'
    <3>1. \A s \in Requests : /\ Answered(s)' = Answered(s) /\ Parsing(s)' = Parsing(s)
                              /\ Completing(s)' = Completing(s) /\ Replied(s)' = Replied(s)
      BY <2>1 DEF Answered, Parsing, Completing, Replied, CallbackFrame
    <3> QED BY <2>1, <2>3, <3>1 DEF IInv, OneAnswer, CallbackFrame
  <2>6. Collected' /\ WholeBody'
    <3>1. \A s \in Requests : s # r =>
            Cardinality(Waiting(operationQueue, s)) = Cardinality(Waiting(operationQueue', s))
      BY <1>2, <2>2, QueueTail
    <3> QED BY <1>1, <1>5, <2>1, <3>1 DEF IInv, Collected, WholeBody, CallbackFrame
  <2>7. Removal'
    <3>1. ASSUME NEW s \in Requests, s # r, task[s] = "done", delegates[s] # None, s \notin replaced
          PROVE  \E i \in 1 .. Len(operationQueue') :
                   operationQueue'[i].of = s /\ operationQueue'[i].event # "data"
      BY <2>2, <3>1, TailRemoval DEF IInv, Removal, e, r
    <3> QED BY <1>1, <1>5, <3>1 DEF Removal, CallbackFrame
  <2> QED BY <2>3, <2>4, <2>5, <2>6, <2>7 DEF IInv
<1>6. ASSUME d # None PROVE IInv'
  <2>1. operationQueue' = <<[e EXCEPT !.event = "remove"]>> \o Tail(operationQueue)
    BY <1>6 DEF didCompleteWithError
  <2>2. e.event # "data"
    BY <1>1 DEF EndEvents
  <2>3. /\ operationQueue' \in Seq(Callback) /\ Len(operationQueue') = Len(operationQueue)
        /\ operationQueue'[1].of = r /\ operationQueue'[1].event = "remove"
        /\ \A i \in 2 .. Len(operationQueue) : operationQueue'[i] = operationQueue[i]
        /\ \A s \in Requests : Waiting(operationQueue', s) = Waiting(operationQueue, s)
    BY <1>2, <2>1, <2>2, QueueEndTold
  <2>4. \A i \in 1 .. Len(operationQueue) : i = 1 \/ i \in 2 .. Len(operationQueue)
    BY <1>2
  <2>5. \A i \in 1 .. Len(operationQueue) :
          /\ operationQueue'[i].of = operationQueue[i].of
          /\ i # 1 => operationQueue'[i] = operationQueue[i]
          /\ operationQueue'[i].event = "data" <=> operationQueue[i].event = "data"
    BY <1>2, <2>2, <2>3, <2>4
  <2>6. IssuingIsSuspended' /\ IdleBeforeResume' /\ EndsAreLast'
    BY <2>3, <2>5
       DEF IInv, IssuingIsSuspended, IdleBeforeResume, EndsAreLast, CallbackFrame
  <2>7. \A s \in Requests : Ending(s)' => Ending(s) /\ s # r
    <3>1. \A i \in 1 .. Len(operationQueue) : i # 1 => operationQueue[i].of # r
      BY <1>1, <1>2, <2>4 DEF IInv, EndsAreLast, EndEvents
    <3> QED BY <2>3, <2>5, <3>1 DEF Ending, EndEvents
  <2>8. Collected'
    BY <1>1, <2>3 DEF IInv, Collected, CallbackFrame
  <2>9. Removal'
    BY <1>1, <2>3, <2>5 DEF IInv, Removal, CallbackFrame
  <2>10. d \in Delegate /\ (d.handler => d.data = arrived[r])
    <3>1. d \in Delegate
      BY <1>2, <1>6 DEF IInv, TypeOK
    <3>2. d.data \in Nat
      BY <3>1 DEF Delegate
    <3>3. d.handler => d.data + 0 = arrived[r]
      BY <1>2, <1>4, <1>6, FS_EmptySet DEF IInv, Collected
    <3> QED BY <3>1, <3>2, <3>3
  <2> HIDE DEF d
  <2>11. CASE e.event = "error"
    <3> DEFINE b == [of |-> r, by |-> d, outcome |-> "error"]
    <3>1. mainQueue' = Append(mainQueue, b) /\ UNCHANGED processing
      BY <1>6, <2>11 DEF didCompleteWithError, dispatch_main, d
    <3>2. b \in Block /\ b.of = r /\ b.outcome = "error"
      BY <1>2, <2>10 DEF Block
    <3> HIDE DEF b
    <3>3. /\ mainQueue' \in Seq(Block) /\ Len(mainQueue') = Len(mainQueue) + 1 /\ Len(mainQueue) \in Nat
          /\ mainQueue'[Len(mainQueue) + 1] = b
          /\ \A i \in 1 .. Len(mainQueue) : mainQueue'[i] = mainQueue[i]
      BY <3>1, <3>2, MainQueueAppend, QueueTypes DEF IInv
    <3>4. TypeOK'
      BY <1>1, <2>3, <3>1, <3>3 DEF IInv, TypeOK, CallbackFrame, Callback
    <3>5. OneAnswer'
      <4>1. \A s \in Requests : Completing(s)' <=> Completing(s) \/ s = r
        BY <3>2, <3>3 DEF Completing
      <4>2. \A s \in Requests : Parsing(s)' = Parsing(s) /\ Replied(s)' = Replied(s)
        BY <3>1 DEF Parsing, Replied, CallbackFrame
      <4>3. \A i, j \in 1 .. Len(mainQueue') : mainQueue'[i].of = mainQueue'[j].of => i = j
        <5>1. \A i \in 1 .. Len(mainQueue) : mainQueue[i].of # r
          BY <1>2, <1>3 DEF Answered, Completing
        <5> QED BY <3>2, <3>3, <5>1 DEF IInv, OneAnswer
      <4>4. \A s \in Requests :
           /\ s \notin asked' => task[s]' = "absent" /\ ~Answered(s)'
           /\ task[s]' \in {"suspended", "running"} \/ Ending(s)' => ~Answered(s)'
           /\ Parsing(s)' => ~Completing(s)' /\ ~Replied(s)'
           /\ Completing(s)' => ~Replied(s)'
        <5> SUFFICES ASSUME NEW s \in Requests
                     PROVE  /\ s \notin asked => task[s] = "absent" /\ ~Answered(s)'
                            /\ task[s] \in {"suspended", "running"} \/ Ending(s)' => ~Answered(s)'
                            /\ Parsing(s)' => ~Completing(s)' /\ ~Replied(s)'
                            /\ Completing(s)' => ~Replied(s)'
          BY DEF CallbackFrame
        <5>1. CASE s = r
          BY <1>2, <1>3, <2>7, <4>1, <4>2, <5>1 DEF IInv, OneAnswer, Answered
        <5>2. CASE s # r
          BY <2>7, <4>1, <4>2, <5>2 DEF IInv, OneAnswer, Answered
        <5> QED BY <5>1, <5>2
      <4> QED BY <3>1, <4>3, <4>4 DEF IInv, OneAnswer
    <3>6. WholeBody'
      BY <3>1, <3>2, <3>3 DEF IInv, WholeBody, CallbackFrame
    <3> QED BY <2>6, <2>8, <2>9, <3>4, <3>5, <3>6 DEF IInv
  <2>12. CASE e.event = "end"
    <3> DEFINE a == [of |-> r, by |-> d]
    <3>1. processing' = processing \cup {a} /\ UNCHANGED mainQueue
      BY <1>6, <2>12 DEF didCompleteWithError, d
    <3>2. a \in Answer /\ a.of = r /\ a.by = d
      BY <1>2, <2>10 DEF Answer
    <3> HIDE DEF a
    <3>3. TypeOK'
      BY <1>1, <2>3, <3>1, <3>2 DEF IInv, TypeOK, CallbackFrame, Callback
    <3>4. OneAnswer'
      <4>1. \A s \in Requests : Parsing(s)' <=> Parsing(s) \/ s = r
        BY <3>1, <3>2 DEF Parsing
      <4>2. \A s \in Requests : Completing(s)' = Completing(s) /\ Replied(s)' = Replied(s)
        BY <3>1 DEF Completing, Replied, CallbackFrame
      <4>3. \A x, y \in processing' : x.of = y.of => x = y
        <5>1. \A x \in processing : x.of # r
          BY <1>2, <1>3 DEF Answered, Parsing
        <5> QED BY <3>1, <3>2, <5>1 DEF IInv, OneAnswer
      <4>4. \A s \in Requests :
           /\ s \notin asked' => task[s]' = "absent" /\ ~Answered(s)'
           /\ task[s]' \in {"suspended", "running"} \/ Ending(s)' => ~Answered(s)'
           /\ Parsing(s)' => ~Completing(s)' /\ ~Replied(s)'
           /\ Completing(s)' => ~Replied(s)'
        <5> SUFFICES ASSUME NEW s \in Requests
                     PROVE  /\ s \notin asked => task[s] = "absent" /\ ~Answered(s)'
                            /\ task[s] \in {"suspended", "running"} \/ Ending(s)' => ~Answered(s)'
                            /\ Parsing(s)' => ~Completing(s)' /\ ~Replied(s)'
                            /\ Completing(s)' => ~Replied(s)'
          BY DEF CallbackFrame
        <5>1. CASE s = r
          BY <1>2, <1>3, <2>7, <4>1, <4>2, <5>1 DEF IInv, OneAnswer, Answered
        <5>2. CASE s # r
          BY <2>7, <4>1, <4>2, <5>2 DEF IInv, OneAnswer, Answered
        <5> QED BY <5>1, <5>2
      <4> QED BY <3>1, <4>3, <4>4 DEF IInv, OneAnswer
    <3>5. WholeBody'
      BY <2>10, <3>1, <3>2 DEF IInv, WholeBody, CallbackFrame
    <3> QED BY <2>6, <2>8, <2>9, <3>3, <3>4, <3>5 DEF IInv
  <2> QED BY <1>1, <2>11, <2>12 DEF EndEvents
<1> QED BY <1>5, <1>6

-----------------------------------------------------------------------------
(* Parsing, completion blocks and init's callback.                         *)

(* A parsed answer becomes a block.                                        *)
LEMMA ParseStep == ASSUME IInv, responseObjectForResponse PROVE IInv'
<1>1. PICK a \in processing, outcome \in {"object", "error"} :
        /\ processing' = processing \ {a}
        /\ mainQueue' = Append(mainQueue, [of |-> a.of, by |-> a.by, outcome |-> outcome])
  BY DEF responseObjectForResponse, dispatch_main
<1> DEFINE b == [of |-> a.of, by |-> a.by, outcome |-> outcome]
           r == a.of
<1>2. UNCHANGED <<issuing, asked, task, arrived, delegates, operationQueue, replies,
                  listing, listed, replaced>>
  BY DEF responseObjectForResponse, calls, callback
<1>3. b \in Block /\ b.of = r /\ b.by = a.by /\ r \in Requests
  BY DEF IInv, TypeOK, Answer, Block
<1>4. mainQueue' = Append(mainQueue, b)
  BY <1>1
<1> HIDE DEF b
<1>5. /\ mainQueue' \in Seq(Block) /\ Len(mainQueue') = Len(mainQueue) + 1 /\ Len(mainQueue) \in Nat
      /\ mainQueue'[Len(mainQueue) + 1] = b
      /\ \A i \in 1 .. Len(mainQueue) : mainQueue'[i] = mainQueue[i]
  BY <1>3, <1>4, MainQueueAppend, QueueTypes DEF IInv
<1>6. TypeOK'
  BY <1>1, <1>2, <1>5 DEF IInv, TypeOK
<1>7. IssuingIsSuspended' /\ IdleBeforeResume' /\ EndsAreLast' /\ Collected' /\ Removal'
  BY <1>2 DEF IInv, IssuingIsSuspended, IdleBeforeResume, EndsAreLast, Collected, Removal
<1>8. OneAnswer'
  <2>1. Parsing(r) /\ Answered(r) /\ ~Completing(r) /\ ~Replied(r)
    BY <1>3 DEF IInv, OneAnswer, Parsing, Answered
  <2>2. \A s \in Requests : Completing(s)' <=> Completing(s) \/ s = r
    BY <1>3, <1>5 DEF Completing
  <2>3. \A s \in Requests : Parsing(s)' <=> Parsing(s) /\ s # r
    BY <1>1 DEF IInv, OneAnswer, Parsing
  <2>4. \A s \in Requests : Replied(s)' = Replied(s) /\ Ending(s)' = Ending(s)
    BY <1>2 DEF Replied, Ending
  <2>5. \A i, j \in 1 .. Len(mainQueue') : mainQueue'[i].of = mainQueue'[j].of => i = j
    <3>1. \A i \in 1 .. Len(mainQueue) : mainQueue[i].of # r
      BY <2>1 DEF Completing
    <3> QED BY <1>3, <1>5, <3>1 DEF IInv, OneAnswer
  <2>6. \A x, y \in processing' : x.of = y.of => x = y
    BY <1>1 DEF IInv, OneAnswer
  <2>7. \A s \in Requests :
       /\ s \notin asked' => task[s]' = "absent" /\ ~Answered(s)'
       /\ task[s]' \in {"suspended", "running"} \/ Ending(s)' => ~Answered(s)'
       /\ Parsing(s)' => ~Completing(s)' /\ ~Replied(s)'
       /\ Completing(s)' => ~Replied(s)'
    BY <1>2, <1>3, <2>1, <2>2, <2>3, <2>4 DEF IInv, OneAnswer, Answered
  <2> QED BY <2>5, <2>6, <2>7 DEF OneAnswer
<1>9. WholeBody'
  <2>1. b.by.handler => b.by.data = arrived[b.of]
    BY <1>3 DEF IInv, WholeBody
  <2> QED BY <1>1, <1>2, <1>5, <2>1 DEF IInv, WholeBody
<1> QED BY <1>6, <1>7, <1>8, <1>9 DEF IInv

(* The block gives the answer, if its delegate has the completion.         *)
LEMMA BlockStep == ASSUME IInv, RunBlock PROVE IInv'
<1> DEFINE b == Head(mainQueue)
           r == b.of
<1>1. /\ mainQueue # << >> /\ mainQueue' = Tail(mainQueue)
      /\ replies' = IF b.by.handler THEN [replies EXCEPT ![r] = Append(@, b.outcome)] ELSE replies
      /\ UNCHANGED <<issuing, asked, task, arrived, delegates, operationQueue, processing,
                     listing, listed, replaced>>
  BY DEF RunBlock, calls, callback
<1>2. /\ mainQueue \in Seq(Block) /\ Len(mainQueue) \in Nat
      /\ mainQueue' \in Seq(Block) /\ Len(mainQueue') = Len(mainQueue) - 1 /\ Len(mainQueue') \in Nat
      /\ \A i \in 1 .. Len(mainQueue') : mainQueue'[i] = mainQueue[i + 1]
      /\ b = mainQueue[1] /\ 1 \in 1 .. Len(mainQueue)
  <2>1. mainQueue \in Seq(Block) /\ Len(mainQueue) \in Nat \ {0}
    BY <1>1, QueueTypes, EmptySeq DEF IInv
  <2> QED BY <1>1, <2>1, HeadTailProperties
<1>3. b \in Block /\ r \in Requests /\ b.outcome \in {"object", "error"}
  <2>1. b \in Block
    BY <1>2, ElementOfSeq
  <2> HIDE DEF b
  <2> QED BY <2>1 DEF Block
<1>4. /\ replies' \in [Requests -> Seq({"object", "error"})]
      /\ \A s \in Requests \ {r} : replies'[s] = replies[s]
  <2>1. Append(replies[r], b.outcome) \in Seq({"object", "error"})
    BY <1>3, AppendProperties DEF IInv, TypeOK
  <2> QED BY <1>1, <1>3, <2>1 DEF IInv, TypeOK
<1> HIDE DEF b, r
<1>5. TypeOK'
  BY <1>1, <1>2, <1>4 DEF IInv, TypeOK
<1>6. IssuingIsSuspended' /\ IdleBeforeResume' /\ EndsAreLast' /\ Collected' /\ Removal'
  BY <1>1 DEF IInv, IssuingIsSuspended, IdleBeforeResume, EndsAreLast, Collected, Removal
<1>7. \A i \in 1 .. Len(mainQueue') :
        i + 1 \in 1 .. Len(mainQueue) /\ i + 1 # 1 /\ mainQueue'[i] = mainQueue[i + 1]
  BY <1>2
<1>8. OneAnswer'
  <2>1. \A s \in Requests : s = r =>
          Completing(s) /\ Answered(s) /\ ~Parsing(s) /\ ~Replied(s)
    <3> SUFFICES ASSUME NEW s \in Requests, s = r
                 PROVE  Completing(s) /\ Answered(s) /\ ~Parsing(s) /\ ~Replied(s)
      OBVIOUS
    <3>1. Completing(s)
      BY <1>2 DEF Completing, r
    <3> QED BY <3>1 DEF IInv, OneAnswer, Answered
  <2>2. \A s \in Requests : Completing(s)' => Completing(s) /\ s # r
    <3>1. ASSUME NEW i \in 1 .. Len(mainQueue') PROVE mainQueue'[i].of # r
      <4>1. mainQueue[i + 1].of # mainQueue[1].of
        BY <1>2, <1>7 DEF IInv, OneAnswer
      <4> QED BY <1>2, <1>7, <4>1 DEF r
    <3> SUFFICES ASSUME NEW s \in Requests, Completing(s)' PROVE Completing(s) /\ s # r
      OBVIOUS
    <3>2. PICK i \in 1 .. Len(mainQueue') : mainQueue'[i].of = s
      BY DEF Completing
    <3> QED BY <1>7, <3>1, <3>2 DEF Completing
  <2>3. \A s \in Requests \ {r} : Replied(s)' = Replied(s)
    BY <1>4 DEF Replied
  <2>4. \A s \in Requests : Parsing(s)' = Parsing(s) /\ Ending(s)' = Ending(s)
    BY <1>1 DEF Parsing, Ending
  <2>5. \A i, j \in 1 .. Len(mainQueue') : mainQueue'[i].of = mainQueue'[j].of => i = j
    <3> SUFFICES ASSUME NEW i \in 1 .. Len(mainQueue'), NEW j \in 1 .. Len(mainQueue'),
                        mainQueue'[i].of = mainQueue'[j].of
                 PROVE  i = j
      OBVIOUS
    <3>1. i + 1 = j + 1
      BY <1>7 DEF IInv, OneAnswer
    <3> QED BY <3>1
  <2>6. \A s \in Requests :
       /\ s \notin asked' => task[s]' = "absent" /\ ~Answered(s)'
       /\ task[s]' \in {"suspended", "running"} \/ Ending(s)' => ~Answered(s)'
       /\ Parsing(s)' => ~Completing(s)' /\ ~Replied(s)'
       /\ Completing(s)' => ~Replied(s)'
    <3> SUFFICES ASSUME NEW s \in Requests
                 PROVE  /\ s \notin asked => task[s] = "absent" /\ ~Answered(s)'
                        /\ task[s] \in {"suspended", "running"} \/ Ending(s)' => ~Answered(s)'
                        /\ Parsing(s)' => ~Completing(s)' /\ ~Replied(s)'
                        /\ Completing(s)' => ~Replied(s)'
      BY <1>1
    <3>1. CASE s = r
      BY <1>3, <2>1, <2>2, <2>4, <3>1 DEF IInv, OneAnswer, Answered
    <3>2. CASE s # r
      BY <2>2, <2>3, <2>4, <3>2 DEF IInv, OneAnswer, Answered
    <3> QED BY <3>1, <3>2
  <2> QED BY <1>1, <2>5, <2>6 DEF IInv, OneAnswer
<1>9. WholeBody'
  BY <1>1, <1>7 DEF IInv, WholeBody
<1> QED BY <1>5, <1>6, <1>8, <1>9 DEF IInv

(* init's callback registers a delegate without completion.                *)
LEMMA ListedStep == ASSUME IInv, NEW r \in Requests, addDelegateForListed(r) PROVE IInv'
<1> DEFINE no == FALSE
           d == newDelegate(no)
<1>1. /\ UNCHANGED <<issuing, asked, task, arrived, operationQueue, processing, mainQueue,
                     replies, listing>>
      /\ listed' = listed \ {r} /\ delegates' = [delegates EXCEPT ![r] = d]
      /\ replaced' = IF delegates[r] # None \/ task[r] = "done" THEN replaced \cup {r} ELSE replaced
  BY DEF addDelegateForListed, calls
<1>2. d \in Delegate /\ ~d.handler
  BY DEF newDelegate, Delegate
<1> HIDE DEF d
<1>3. /\ delegates' \in [Requests -> Delegate \cup {None}]
      /\ delegates'[r] = d /\ \A s \in Requests \ {r} : delegates'[s] = delegates[s]
  BY <1>1, <1>2 DEF IInv, TypeOK
<1>4. TypeOK'
  BY <1>1, <1>3 DEF IInv, TypeOK
<1>5. IssuingIsSuspended' /\ IdleBeforeResume' /\ EndsAreLast' /\ WholeBody'
  BY <1>1 DEF IInv, IssuingIsSuspended, IdleBeforeResume, EndsAreLast, WholeBody
<1>6. OneAnswer'
  BY <1>1 DEF IInv, OneAnswer, Answered, Parsing, Completing, Replied, Ending
<1>7. Collected' /\ Removal'
  BY <1>1, <1>2, <1>3 DEF IInv, Collected, Removal
<1> QED BY <1>4, <1>5, <1>6, <1>7 DEF IInv

-----------------------------------------------------------------------------
(* Every step keeps the invariant.                                         *)
LEMMA NextIInv == ASSUME IInv, [Next]_vars PROVE IInv'
<1>1. CASE UNCHANGED vars
  BY <1>1 DEF vars, calls, callback, IInv, TypeOK, IssuingIsSuspended, IdleBeforeResume,
              EndsAreLast, OneAnswer, Answered, Parsing, Completing, Replied, Ending,
              Collected, WholeBody, Removal
<1>2. ASSUME NEW r \in Requests, GET(r) PROVE IInv'
  BY <1>2, SerializationStep, TaskStep, DelegateStep, ResumeStep DEF GET
<1>3. CASE RunCallback
  <2>1. operationQueue # << >> /\ CallbackFrame
    BY <1>3 DEF RunCallback, CallbackFrame, calls, callback
  <2>2. \/ didReceiveData(Head(operationQueue)) \/ didCompleteWithError(Head(operationQueue))
        \/ removeDelegateForTask(Head(operationQueue))
    BY <1>3 DEF RunCallback
  <2> QED BY <2>1, <2>2, DataStep, CompleteStep, RemoveStep
<1>4. CASE getTasks
  <2>1. /\ listing' = FALSE /\ listed' \subseteq Requests
        /\ UNCHANGED <<issuing, asked, task, arrived, delegates, operationQueue, processing,
                       mainQueue, replies, replaced>>
    BY <1>4 DEF getTasks, calls
  <2>2. TypeOK'
    BY <2>1 DEF IInv, TypeOK
  <2> QED BY <2>1, <2>2 DEF IInv, IssuingIsSuspended, IdleBeforeResume, EndsAreLast, OneAnswer,
              Answered, Parsing, Completing, Replied, Ending, Collected, WholeBody, Removal
<1> QED
  BY <1>1, <1>2, <1>3, <1>4, ReceiveStep, EndStep, ParseStep, BlockStep, ListedStep DEF Next

(* It holds in every reachable state.                                      *)
LEMMA InductiveIInv == Spec => []IInv
  BY InitIInv, NextIInv, PTL DEF Spec

(* The client's state keeps its type.                                      *)
THEOREM ClientTypeCorrect == Spec => []TypeOK
<1>1. IInv => TypeOK
  BY DEF IInv
<1> QED BY <1>1, InductiveIInv, PTL

(* An answer is parsed from the whole body, however many pieces it came in *)
(* and whenever init's callback exchanged the delegate.                    *)
THEOREM WholeBodyParsed == Spec => []WholeBody
<1>1. IInv => WholeBody
  BY DEF IInv
<1> QED BY <1>1, InductiveIInv, PTL

(* Once the session's callbacks have run, a finished task has no delegate, *)
(* unless init's callback gave it one.                                     *)
THEOREM FinishedTasksFreed == Spec => []DelegatesFreed
<1>1. IInv => DelegatesFreed
  BY EmptySeq DEF IInv, Removal, DelegatesFreed
<1> QED BY <1>1, InductiveIInv, PTL

(* The client implements RequestReply: GET is Ask, the completion block of *)
(* a delegate with the completion is Reply, and all else is invisible.     *)
THEOREM ClientAnswersOnce == Spec => AnswersOnce
<1>1. Init => RR!ReplyInit
  BY DEF Init, RR!ReplyInit
<1>2. ASSUME IInv, [Next]_vars PROVE [RR!ReplyNext]_(RR!replyVars)
  <2>1. ASSUME NEW r \in Requests, RequestSerializationFails(r) \/ dataTaskWithRequest(r)
        PROVE  RR!Ask(r)
    BY <2>1 DEF RequestSerializationFails, dataTaskWithRequest, RR!Ask
  <2>2. ASSUME RunBlock PROVE RR!ReplyNext \/ UNCHANGED RR!replyVars
    <3> DEFINE b == Head(mainQueue)
               r == b.of
    <3>1. b = mainQueue[1] /\ 1 \in 1 .. Len(mainQueue) /\ b \in Block
      <4>1. mainQueue \in Seq(Block) /\ Len(mainQueue) \in Nat \ {0}
        <5>1. TypeOK /\ mainQueue # << >>
          BY <1>2, <2>2 DEF IInv, RunBlock
        <5> QED BY <5>1, QueueTypes, EmptySeq
      <4>2. b = mainQueue[1] /\ 1 \in 1 .. Len(mainQueue)
        BY <4>1
      <4> QED BY <4>1, <4>2, ElementOfSeq
    <3>2. r \in Requests /\ b.outcome \in {"object", "error"}
      <4> HIDE DEF b
      <4> QED BY <3>1 DEF Block
    <3>3. Completing(r) /\ r \in asked /\ replies[r] = << >>
      <4>1. Completing(r)
        BY <3>1 DEF Completing
      <4> QED BY <1>2, <3>2, <4>1 DEF IInv, OneAnswer, Answered, Replied
    <3>4. CASE ~b.by.handler
      BY <2>2, <3>4 DEF RunBlock, calls, RR!replyVars
    <3>5. CASE b.by.handler
      <4>1. UNCHANGED asked /\ replies' = [replies EXCEPT ![r] = Append(@, b.outcome)]
        BY <2>2, <3>5 DEF RunBlock, calls
      <4>2. Append(replies[r], b.outcome) = <<b.outcome>>
        BY <3>3
      <4>3. replies' = [replies EXCEPT ![r] = <<b.outcome>>]
        BY <4>1, <4>2
      <4> QED BY <3>2, <3>3, <4>1, <4>3 DEF RR!ReplyNext, RR!Reply
    <3> QED BY <3>4, <3>5
  <2>3. ASSUME NEW r \in Requests,
               \/ addDelegateForDataTask(r) \/ resume(r) \/ SessionReceives(r) \/ SessionEnds(r)
               \/ addDelegateForListed(r)
        PROVE  UNCHANGED RR!replyVars
    BY <2>3 DEF addDelegateForDataTask, resume, SessionReceives, SessionEnds, addDelegateForListed,
                calls, RR!replyVars
  <2>4. ASSUME RunCallback \/ responseObjectForResponse \/ getTasks \/ UNCHANGED vars
        PROVE  UNCHANGED RR!replyVars
    BY <2>4 DEF RunCallback, responseObjectForResponse, getTasks, calls, vars, RR!replyVars
  <2>5. CASE \E r \in Requests : RequestSerializationFails(r) \/ dataTaskWithRequest(r)
    BY <2>1, <2>5 DEF RR!ReplyNext
  <2> QED BY <1>2, <2>2, <2>3, <2>4, <2>5 DEF Next, GET
<1> QED BY <1>1, <1>2, InductiveIInv, PTL DEF Spec, AnswersOnce, RR!ReplySpec
=============================================================================
