----------------------------- MODULE QueueProofs ------------------------------
(***************************************************************************)
(* What holds of packages/core/src/queue.ts for any messages, any initial  *)
(* array and any choice of handlers: its invariants, that it implements the *)
(* line of WorkQueue, and that no message is lost or handled twice.        *)
(***************************************************************************)
EXTENDS Queue, SequenceFacts

\* Two facts about sequences of at most one element, which handling is.
LEMMA SingleHandler ==
    ASSUME NEW S, NEW s \in Seq(S), Len(s) <= 1, NEW i \in DOMAIN s
    PROVE  s = <<s[i]>> /\ s[i] \in S /\ RemoveAt(s, i) = <<>>
<1>1. Len(s) = 1 /\ i = 1
  <2>1. PICK n \in Nat : n = Len(s) /\ i \in 1..n
    BY LenProperties
  <2>2. n = 1 /\ i = 1
    BY <2>1
  <2> QED
    BY <2>1, <2>2
<1>2. s = <<s[1]>> /\ s[1] \in S
  BY <1>1
<1>3. SubSeq(s, 1, 0) = <<>> /\ SubSeq(s, 2, 1) = <<>>
  BY <1>1, SubSeqEmpty
<1>4. RemoveAt(s, 1) = <<>>
  BY <1>1, <1>3 DEF RemoveAt
<1> QED
  BY <1>1, <1>2, <1>4

\* A process() leaves well-typed arrays behind and starts at most one handler,
\* and only when none is running.
LEMMA ProcessKeeps ==
    ASSUME NEW q \in Seq(Message), QueueTypeOK, OneHandler, Process(q)
    PROVE  /\ pending' \in Seq(Message) /\ handling' \in Seq(Message)
           /\ processing' \in BOOLEAN
           /\ Len(handling') <= 1
           /\ handling' # <<>> => processing'
           /\ processing' /\ handling' = <<>> => SaveThrows
<1>1. CASE processing \/ q = <<>>
  BY <1>1 DEF Process, QueueTypeOK, OneHandler
<1>2. CASE ~processing /\ q # <<>>
  <2>1. handling = <<>>
    BY <1>2 DEF OneHandler
  <2>2. Head(q) \in Message /\ Tail(q) \in Seq(Message)
    BY <1>2
  <2>3. pending' = Tail(q)
    BY <1>2 DEF Process
  <2>4. CASE Head(q) \in Falsy
    <3>1. UNCHANGED <<processing, handling>>
      BY <1>2, <2>4 DEF Process
    <3>2. processing' = FALSE
      BY <1>2, <3>1 DEF QueueTypeOK
    <3>3. handling' = <<>>
      BY <2>1, <3>1
    <3>4. <<>> \in Seq(Message) /\ Len(<<>>) <= 1
      OBVIOUS
    <3> QED
      BY <2>2, <2>3, <3>2, <3>3, <3>4
  <2>5. CASE Head(q) \notin Falsy
    <3>1. processing' = TRUE /\ handling' = <<Head(q)>>
      BY <1>2, <2>1, <2>5 DEF Process
    <3> QED
      BY <2>2, <2>3, <3>1
  <2> QED
    BY <2>4, <2>5
<1> QED
  BY <1>1, <1>2 DEF QueueTypeOK

\* The type invariant and the exclusion of handlers are inductive together: the
\* types say that a handler's message may go back into the array.
QueueInv == QueueTypeOK /\ OneHandler

LEMMA QueueInvStep == QueueInv /\ [QueueNext]_queueVars => QueueInv'
<1> SUFFICES ASSUME QueueInv, [QueueNext]_queueVars PROVE QueueInv'
  OBVIOUS
<1> USE QueueAssumption
<1>1. ASSUME NEW m \in Message, Enqueue(m) PROVE QueueInv'
  <2>1. Append(pending, m) \in Seq(Message)
    BY DEF QueueInv, QueueTypeOK
  <2>2. ticks' \in Nat /\ unseen' \subseteq Message /\ finished' \in Seq(Message)
    BY <1>1 DEF Enqueue, QueueInv, QueueTypeOK
  <2>3. CASE SaveThrows
    BY <1>1, <2>1, <2>2, <2>3 DEF Enqueue, QueueInv, QueueTypeOK, OneHandler
  <2>4. CASE ~SaveThrows
    BY <1>1, <2>1, <2>2, <2>4, ProcessKeeps DEF Enqueue, QueueInv, QueueTypeOK, OneHandler
  <2> QED
    BY <2>3, <2>4
<1>2. ASSUME NEW i \in DOMAIN handling, HandlerNext(i) PROVE QueueInv'
  <2>1. handling[i] \in Message /\ handling' = <<>> /\ handling # <<>>
    BY <1>2, SingleHandler
       DEF QueueInv, QueueTypeOK, OneHandler, HandlerNext, HandlerAccepts, HandlerRefuses
  <2>2. processing' = (processing /\ SaveThrows)
    BY <1>2 DEF HandlerNext, HandlerAccepts, HandlerRefuses
  <2>3. OneHandler'
    BY <2>1, <2>2 DEF OneHandler
  <2>4. processing' \in BOOLEAN
    BY <2>2
  <2>5. handling' \in Seq(Message)
    BY <2>1
  <2>6. /\ pending' \in Seq(Message) /\ ticks' \in Nat
        /\ unseen' \subseteq Message /\ finished' \in Seq(Message)
    <3>1. CASE HandlerAccepts(i)
      BY <2>1, <3>1 DEF QueueInv, QueueTypeOK, HandlerAccepts
    <3>2. CASE HandlerRefuses(i)
      BY <2>1, <3>2 DEF QueueInv, QueueTypeOK, HandlerRefuses
    <3> QED
      BY <1>2, <3>1, <3>2 DEF HandlerNext
  <2> QED
    BY <2>3, <2>4, <2>5, <2>6 DEF QueueInv, QueueTypeOK
<1>3. CASE Tick
  BY <1>3, ProcessKeeps DEF Tick, QueueInv, QueueTypeOK, OneHandler
<1>4. CASE CallProcess
  BY <1>4, ProcessKeeps DEF CallProcess, QueueInv, QueueTypeOK, OneHandler
<1>5. CASE UNCHANGED queueVars
  BY <1>5 DEF queueVars, QueueInv, QueueTypeOK, OneHandler
<1> QED
  BY <1>1, <1>2, <1>3, <1>4, <1>5 DEF QueueNext

LEMMA QueueInitInv == QueueInit => QueueInv
<1> SUFFICES ASSUME QueueInit PROVE QueueInv
  OBVIOUS
<1>1. QueueTypeOK
  <2>1. Initial \in Seq(Message) /\ <<>> \in Seq(Message)
    BY QueueAssumption
  <2>2. processing \in BOOLEAN
    BY DEF QueueInit
  <2> QED
    BY <2>1, <2>2 DEF QueueInit, QueueTypeOK
<1>2. OneHandler
  BY DEF QueueInit, OneHandler
<1> QED
  BY <1>1, <1>2 DEF QueueInv

LEMMA QueueInvariant == QueueSpec => []QueueInv
BY QueueInitInv, QueueInvStep, PTL DEF QueueSpec

\* The queue's fields always hold what the code declares of them.
THEOREM QueueTypeCorrect == QueueSpec => []QueueTypeOK
BY QueueInvariant, PTL DEF QueueInv

\* Two handlers never run at once, and a queue whose save() works is never left
\* marked as processing when no handler runs (queue.ts:52-71).
THEOREM HandlersExclude == QueueSpec => []OneHandler
BY QueueInvariant, PTL DEF QueueInv

-----------------------------------------------------------------------------
\* A process() moves the head of the line to its handler, which leaves the line
\* as it is, or loses a falsy message that has come first.
LEMMA ProcessKeepsLine ==
    ASSUME NEW q \in Seq(Message), QueueInv, Process(q)
    PROVE  LET all == handling \o q IN
           \/ handling' \o pending' = all
           \/ all # <<>> /\ Head(all) \in Falsy /\ handling' \o pending' = Tail(all)
<1>1. CASE processing \/ q = <<>>
  BY <1>1 DEF Process
<1>2. CASE ~processing /\ q # <<>>
  <2>1. handling = <<>> /\ handling \o q = q
    <3>1. handling = <<>>
      BY <1>2 DEF QueueInv, OneHandler
    <3>2. <<>> \o q = q
      OBVIOUS
    <3> QED
      BY <3>1, <3>2
  <2>2. Head(q) \in Message /\ Tail(q) \in Seq(Message)
    BY <1>2
  <2>3. CASE Head(q) \in Falsy
    <3>1. handling' = handling /\ pending' = Tail(q)
      BY <1>2, <2>3 DEF Process
    <3>2. <<>> \o Tail(q) = Tail(q)
      BY <2>2
    <3> QED
      BY <1>2, <2>1, <2>3, <3>1, <3>2
  <2>4. CASE Head(q) \notin Falsy
    <3>1. handling' = <<Head(q)>> /\ pending' = Tail(q)
      <4>1. handling' = Append(handling, Head(q)) /\ pending' = Tail(q)
        BY <1>2, <2>4 DEF Process
      <4> QED
        BY <2>1, <4>1
    <3>2. <<Head(q)>> \o Tail(q) = q
      BY <1>2, <2>2
    <3> QED
      BY <2>1, <3>1, <3>2
  <2> QED
    BY <2>3, <2>4
<1> QED
  BY <1>1, <1>2

LEMMA LineStep ==
    ASSUME QueueInv, [QueueNext]_queueVars
    PROVE  [Line!Next]_(Line!vars)
<1> DEFINE line == handling \o pending
<1>t. pending \in Seq(Message) /\ handling \in Seq(Message)
  BY DEF QueueInv, QueueTypeOK
<1>1. ASSUME NEW m \in Message, Enqueue(m) PROVE Line!Accept(m)
  <2>1. handling \o Append(pending, m) = Append(line, m)
    BY <1>t
  <2>2. Append(pending, m) \in Seq(Message)
    BY <1>t
  <2>3. finished' = finished
    BY <1>1 DEF Enqueue
  <2>4. CASE SaveThrows
    BY <1>1, <2>1, <2>3, <2>4 DEF Enqueue, Line!Accept, Line!Becomes
  <2>5. CASE ~SaveThrows
    <3>1. Process(Append(pending, m))
      BY <1>1, <2>5 DEF Enqueue
    <3> QED
      BY <2>1, <2>2, <2>3, <3>1, ProcessKeepsLine DEF Line!Accept, Line!Becomes
  <2> QED
    BY <2>4, <2>5
<1>2. ASSUME NEW i \in DOMAIN handling, HandlerNext(i)
      PROVE  Line!Serve \/ Line!Refuse
  <2>1. handling = <<handling[i]>> /\ handling[i] \in Message /\ handling' = <<>>
    BY <1>2, SingleHandler
       DEF QueueInv, QueueTypeOK, OneHandler, HandlerNext, HandlerAccepts, HandlerRefuses
  <2> DEFINE h == handling[i]
  <2>2. line = <<h>> \o pending
    BY <2>1
  <2>3. line # <<>> /\ Head(line) = h /\ Tail(line) = pending
    <3> HIDE DEF h
    <3>1. h \in Message
      BY <2>1 DEF h
    <3>2. /\ <<h>> \o pending # <<>>
          /\ Head(<<h>> \o pending) = h
          /\ Tail(<<h>> \o pending) = pending
      BY <1>t, <3>1
    <3> QED
      BY <2>2, <3>2
  <2>4. CASE HandlerAccepts(i)
    <3>1. handling' \o pending' = pending
      BY <1>t, <2>1, <2>4 DEF HandlerAccepts
    <3> QED
      BY <2>3, <2>4, <3>1 DEF Line!Serve, HandlerAccepts
  <2>5. CASE HandlerRefuses(i)
    <3>1. handling' \o pending' = Append(pending, h)
      BY <1>t, <2>1, <2>5 DEF HandlerRefuses
    <3> QED
      BY <2>3, <2>5, <3>1 DEF Line!Refuse, HandlerRefuses
  <2> QED
    BY <1>2, <2>4, <2>5 DEF HandlerNext
<1>3. ASSUME Tick \/ CallProcess PROVE Line!Lose
  <2>1. Process(pending) /\ finished' = finished
    BY <1>3 DEF Tick, CallProcess
  <2> QED
    BY <1>t, <2>1, ProcessKeepsLine DEF Line!Lose, Line!Becomes
<1>4. CASE UNCHANGED queueVars
  BY <1>4 DEF queueVars, Line!vars
<1> QED
  BY <1>1, <1>2, <1>3, <1>4 DEF QueueNext, Line!Next

\* Messages are served in the order of the line, which loses only falsy ones:
\* the queue implements WorkQueue, whatever the callers and the handlers do.
THEOREM QueueServesInOrder == QueueSpec => ServesInOrder
<1>1. QueueInit => Line!Init
  BY QueueAssumption DEF QueueInit, Line!Init
<1>2. QueueInv /\ [QueueNext]_queueVars => [Line!Next]_(Line!vars)
  BY LineStep
<1> QED
  BY <1>1, <1>2, QueueInvariant, PTL DEF QueueSpec, ServesInOrder, Line!Spec

-----------------------------------------------------------------------------
\* The messages of the line are all different, and callers have enqueued them.
LineOnce ==
    /\ IsInjective(pending)
    /\ ToSet(pending) \cap ToSet(handling) = {}
    /\ ToSet(pending) \union ToSet(handling) \subseteq Message \ unseen

\* What is finished is finished once, and no longer in the line.
FinishedOnce ==
    /\ IsInjective(finished)
    /\ ToSet(finished) \cap (ToSet(pending) \union ToSet(handling)) = {}
    /\ ToSet(finished) \subseteq Message \ unseen

\* Only falsy messages go missing.
NothingLost ==
    Message \ unseen \subseteq
        ToSet(pending) \union ToSet(handling) \union ToSet(finished) \union Falsy

\* The message a process() takes leaves the array for its handler, and nothing
\* else moves.
LEMMA ProcessMoves ==
    ASSUME NEW q \in Seq(Message), QueueInv, Process(q),
           IsInjective(q), ToSet(q) \cap ToSet(handling) = {}
    PROVE  /\ IsInjective(pending') /\ ToSet(pending') \cap ToSet(handling') = {}
           /\ ToSet(pending') \union ToSet(handling') \subseteq ToSet(q) \union ToSet(handling)
           /\ ToSet(q) \union ToSet(handling)
              \subseteq ToSet(pending') \union ToSet(handling') \union Falsy
<1>1. CASE processing \/ q = <<>>
  <2>1. pending' = q /\ handling' = handling
    BY <1>1 DEF Process
  <2> QED
    BY <2>1
<1>2. CASE ~processing /\ q # <<>>
  <2>1. handling = <<>> /\ ToSet(handling) = {}
    BY <1>2, ElementsOfNothing DEF QueueInv, OneHandler
  <2>2. /\ Head(q) \in Message /\ Tail(q) \in Seq(Message) /\ IsInjective(Tail(q))
        /\ ToSet(q) = {Head(q)} \union ToSet(Tail(q)) /\ Head(q) \notin ToSet(Tail(q))
    BY <1>2, ElementsOfTail
  <2>3. CASE Head(q) \in Falsy
    <3>1. pending' = Tail(q) /\ handling' = handling
      BY <1>2, <2>3 DEF Process
    <3> QED
      BY <2>1, <2>2, <2>3, <3>1
  <2>4. CASE Head(q) \notin Falsy
    <3>1. pending' = Tail(q) /\ handling' = Append(handling, Head(q))
      BY <1>2, <2>4 DEF Process
    <3>2. handling' = <<Head(q)>>
      BY <2>1, <3>1
    <3>3. ToSet(handling') = {Head(q)}
      BY <3>2, ElementsOfNothing
    <3> QED
      BY <2>1, <2>2, <3>1, <3>3
  <2> QED
    BY <2>3, <2>4
<1> QED
  BY <1>1, <1>2

\* The message of the handler that calls next(): it leaves handling.
LEMMA HandlerLeaves ==
    ASSUME QueueInv, LineOnce, NEW i \in DOMAIN handling, handling' = RemoveAt(handling, i)
    PROVE  /\ handling[i] \in Message /\ ToSet(handling) = {handling[i]}
           /\ ToSet(handling') = {} /\ handling[i] \notin ToSet(pending)
<1>1. handling = <<handling[i]>> /\ handling[i] \in Message /\ RemoveAt(handling, i) = <<>>
  BY SingleHandler DEF QueueInv, QueueTypeOK, OneHandler
<1>2. ToSet(handling) = {handling[i]} /\ ToSet(<<>>) = {}
  BY <1>1, ElementsOfNothing
<1> QED
  BY <1>1, <1>2 DEF LineOnce

LEMMA EnqueueMoves ==
    ASSUME QueueInv, LineOnce, NEW m \in Message, Enqueue(m)
    PROVE  /\ IsInjective(pending') /\ ToSet(pending') \cap ToSet(handling') = {}
           /\ ToSet(pending') \union ToSet(handling')
              \subseteq ToSet(pending) \union ToSet(handling) \union {m}
           /\ ToSet(pending) \union ToSet(handling) \union {m}
              \subseteq ToSet(pending') \union ToSet(handling') \union Falsy
<1> DEFINE q == Append(pending, m)
<1>1. m \in unseen
  BY DEF Enqueue
<1>2. q \in Seq(Message) /\ ToSet(q) = ToSet(pending) \union {m} /\ IsInjective(q)
  <2>1. pending \in Seq(Message) /\ m \notin ToSet(pending) /\ IsInjective(pending)
    BY <1>1 DEF QueueInv, QueueTypeOK, LineOnce
  <2> QED
    BY <2>1, ElementsOfAppend
<1>3. ToSet(q) \cap ToSet(handling) = {}
  BY <1>1, <1>2 DEF LineOnce
<1>4. CASE SaveThrows
  <2>1. pending' = q /\ handling' = handling
    BY <1>4 DEF Enqueue
  <2> QED
    BY <1>2, <1>3, <2>1
<1>5. CASE ~SaveThrows
  <2>1. Process(q)
    BY <1>5 DEF Enqueue
  <2> QED
    BY <1>2, <1>3, <2>1, ProcessMoves
<1> QED
  BY <1>4, <1>5

\* What a next() does to the line and to what is finished.
LEMMA AcceptMoves ==
    ASSUME QueueInv, LineOnce, NEW i \in DOMAIN handling, HandlerAccepts(i)
    PROVE  /\ pending' = pending /\ ToSet(handling') = {}
           /\ handling[i] \in Message /\ ToSet(handling) = {handling[i]}
           /\ ToSet(finished') = ToSet(finished) \union {handling[i]}
           /\ FinishedOnce => IsInjective(finished')
<1>1. /\ handling' = RemoveAt(handling, i) /\ pending' = pending
      /\ finished' = Append(finished, handling[i])
  BY DEF HandlerAccepts
<1>2. /\ handling[i] \in Message /\ ToSet(handling) = {handling[i]}
      /\ ToSet(handling') = {} /\ handling[i] \notin ToSet(pending)
  BY <1>1, HandlerLeaves
<1>3. finished \in Seq(Message)
  BY DEF QueueInv, QueueTypeOK
<1>4. FinishedOnce => IsInjective(finished) /\ handling[i] \notin ToSet(finished)
  BY <1>2 DEF FinishedOnce
<1> QED
  BY <1>1, <1>2, <1>3, <1>4, ElementsOfAppend

LEMMA RefuseMoves ==
    ASSUME QueueInv, LineOnce, NEW i \in DOMAIN handling, HandlerRefuses(i)
    PROVE  /\ IsInjective(pending') /\ ToSet(handling') = {}
           /\ handling[i] \in Message /\ ToSet(handling) = {handling[i]}
           /\ ToSet(pending') = ToSet(pending) \union {handling[i]}
<1>1. /\ handling' = RemoveAt(handling, i)
      /\ pending' = Append(pending, handling[i])
  BY DEF HandlerRefuses
<1>2. /\ handling[i] \in Message /\ ToSet(handling) = {handling[i]}
      /\ ToSet(handling') = {} /\ handling[i] \notin ToSet(pending)
  BY <1>1, HandlerLeaves
<1>3. pending \in Seq(Message) /\ IsInjective(pending)
  BY DEF QueueInv, QueueTypeOK, LineOnce
<1> QED
  BY <1>1, <1>2, <1>3, ElementsOfAppend

LEMMA PendingProcessed ==
    ASSUME QueueInv, LineOnce, Process(pending)
    PROVE  /\ IsInjective(pending') /\ ToSet(pending') \cap ToSet(handling') = {}
           /\ ToSet(pending') \union ToSet(handling') \subseteq ToSet(pending) \union ToSet(handling)
           /\ ToSet(pending) \union ToSet(handling)
              \subseteq ToSet(pending') \union ToSet(handling') \union Falsy
<1>1. pending \in Seq(Message)
  BY DEF QueueInv, QueueTypeOK
<1> QED
  BY <1>1, ProcessMoves DEF LineOnce

LEMMA LineOnceStep == QueueInv /\ LineOnce /\ [QueueNext]_queueVars => LineOnce'
<1> SUFFICES ASSUME QueueInv, LineOnce, [QueueNext]_queueVars PROVE LineOnce'
  OBVIOUS
<1>1. ASSUME NEW m \in Message, Enqueue(m) PROVE LineOnce'
  <2>1. unseen' = unseen \ {m}
    BY <1>1 DEF Enqueue
  <2> QED
    BY <1>1, <2>1, EnqueueMoves DEF LineOnce
<1>2. ASSUME NEW i \in DOMAIN handling, HandlerAccepts(i) PROVE LineOnce'
  <2>1. unseen' = unseen
    BY <1>2 DEF HandlerAccepts
  <2> QED
    BY <1>2, <2>1, AcceptMoves DEF LineOnce
<1>3. ASSUME NEW i \in DOMAIN handling, HandlerRefuses(i) PROVE LineOnce'
  <2>1. unseen' = unseen
    BY <1>3 DEF HandlerRefuses
  <2> QED
    BY <1>3, <2>1, RefuseMoves DEF LineOnce
<1>4. ASSUME Tick \/ CallProcess PROVE LineOnce'
  <2>1. unseen' = unseen /\ Process(pending)
    BY <1>4 DEF Tick, CallProcess
  <2> QED
    BY <2>1, PendingProcessed DEF LineOnce
<1>5. CASE UNCHANGED queueVars
  BY <1>5 DEF queueVars, LineOnce
<1> QED
  BY <1>1, <1>2, <1>3, <1>4, <1>5 DEF QueueNext, HandlerNext

LEMMA FinishedOnceStep ==
    QueueInv /\ LineOnce /\ FinishedOnce /\ [QueueNext]_queueVars => FinishedOnce'
<1> SUFFICES ASSUME QueueInv, LineOnce, FinishedOnce, [QueueNext]_queueVars PROVE FinishedOnce'
  OBVIOUS
<1>1. ASSUME NEW m \in Message, Enqueue(m) PROVE FinishedOnce'
  <2>1. unseen' = unseen \ {m} /\ finished' = finished /\ m \in unseen
    BY <1>1 DEF Enqueue
  <2> QED
    BY <1>1, <2>1, EnqueueMoves DEF FinishedOnce
<1>2. ASSUME NEW i \in DOMAIN handling, HandlerAccepts(i) PROVE FinishedOnce'
  <2>1. unseen' = unseen
    BY <1>2 DEF HandlerAccepts
  <2> QED
    BY <1>2, <2>1, AcceptMoves DEF FinishedOnce, LineOnce
<1>3. ASSUME NEW i \in DOMAIN handling, HandlerRefuses(i) PROVE FinishedOnce'
  <2>1. unseen' = unseen /\ finished' = finished
    BY <1>3 DEF HandlerRefuses
  <2> QED
    BY <1>3, <2>1, RefuseMoves DEF FinishedOnce
<1>4. ASSUME Tick \/ CallProcess PROVE FinishedOnce'
  <2>1. unseen' = unseen /\ finished' = finished /\ Process(pending)
    BY <1>4 DEF Tick, CallProcess
  <2> QED
    BY <2>1, PendingProcessed DEF FinishedOnce
<1>5. CASE UNCHANGED queueVars
  BY <1>5 DEF queueVars, FinishedOnce
<1> QED
  BY <1>1, <1>2, <1>3, <1>4, <1>5 DEF QueueNext, HandlerNext

LEMMA NothingLostStep ==
    QueueInv /\ LineOnce /\ NothingLost /\ [QueueNext]_queueVars => NothingLost'
<1> SUFFICES ASSUME QueueInv, LineOnce, NothingLost, [QueueNext]_queueVars PROVE NothingLost'
  OBVIOUS
<1>1. ASSUME NEW m \in Message, Enqueue(m) PROVE NothingLost'
  <2>1. unseen' = unseen \ {m} /\ finished' = finished
    BY <1>1 DEF Enqueue
  <2> QED
    BY <1>1, <2>1, EnqueueMoves DEF NothingLost
<1>2. ASSUME NEW i \in DOMAIN handling, HandlerAccepts(i) PROVE NothingLost'
  <2>1. unseen' = unseen
    BY <1>2 DEF HandlerAccepts
  <2> QED
    BY <1>2, <2>1, AcceptMoves DEF NothingLost
<1>3. ASSUME NEW i \in DOMAIN handling, HandlerRefuses(i) PROVE NothingLost'
  <2>1. unseen' = unseen /\ finished' = finished
    BY <1>3 DEF HandlerRefuses
  <2> QED
    BY <1>3, <2>1, RefuseMoves DEF NothingLost
<1>4. ASSUME Tick \/ CallProcess PROVE NothingLost'
  <2>1. unseen' = unseen /\ finished' = finished /\ Process(pending)
    BY <1>4 DEF Tick, CallProcess
  <2> QED
    BY <2>1, PendingProcessed DEF NothingLost
<1>5. CASE UNCHANGED queueVars
  BY <1>5 DEF queueVars, NothingLost
<1> QED
  BY <1>1, <1>2, <1>3, <1>4, <1>5 DEF QueueNext, HandlerNext

LEMMA OnceInitially ==
    ASSUME QueueInit
    PROVE  LineOnce /\ FinishedOnce /\ NothingLost
<1>1. ToSet(Initial) \subseteq Message
  BY QueueAssumption, ElementsOf
<1>2. /\ pending = Initial /\ handling = <<>> /\ finished = <<>>
      /\ unseen = Message \ ToSet(Initial)
  BY DEF QueueInit
<1>3. ToSet(handling) = {} /\ ToSet(finished) = {} /\ IsInjective(finished)
  BY <1>2, ElementsOfNothing
<1> QED
  BY <1>1, <1>2, <1>3, InitialAssumption DEF LineOnce, FinishedOnce, NothingLost

LEMMA ConservedEnough ==
    ASSUME QueueInv, LineOnce, FinishedOnce, NothingLost
    PROVE  Conserved
<1>1. pending \in Seq(Message) /\ handling \in Seq(Message) /\ finished \in Seq(Message)
  BY DEF QueueInv, QueueTypeOK
<1>2. IsInjective(handling)
  <2>1. \A i \in DOMAIN handling : i = 1
    <3>1. DOMAIN handling = 1..Len(handling) /\ Len(handling) \in Nat /\ Len(handling) <= 1
      BY <1>1, LenProperties DEF QueueInv, OneHandler
    <3> QED
      BY <3>1
  <2> QED
    BY <2>1 DEF IsInjective
<1> DEFINE l == pending \o handling
<1>3. l \in Seq(Message) /\ ToSet(l) = ToSet(pending) \union ToSet(handling) /\ IsInjective(l)
  BY <1>1, <1>2, ElementsOfConcat DEF LineOnce
<1>4. ToSet(l) \cap ToSet(finished) = {} /\ IsInjective(finished)
  BY <1>3 DEF FinishedOnce
<1>5. l \o finished = Everywhere
  BY DEF Everywhere
<1> HIDE DEF l
<1>6. IsInjective(l \o finished) /\ ToSet(l \o finished) = ToSet(l) \union ToSet(finished)
  BY <1>1, <1>3, <1>4, ElementsOfConcat
<1> QED
  BY <1>3, <1>5, <1>6 DEF Conserved, LineOnce, FinishedOnce, NothingLost

\* Every message of a caller is in one place, once, unless it is falsy: waiting,
\* with its handler, or finished, and none comes from nowhere (queue.ts:40-75).
THEOREM MessagesAreConserved == QueueSpec => []Conserved
<1>1. QueueInit => LineOnce /\ FinishedOnce /\ NothingLost
  BY OnceInitially
<1>2. QueueInv /\ LineOnce /\ FinishedOnce /\ NothingLost /\ [QueueNext]_queueVars
      => LineOnce' /\ FinishedOnce' /\ NothingLost'
  BY LineOnceStep, FinishedOnceStep, NothingLostStep
<1>3. QueueInv /\ LineOnce /\ FinishedOnce /\ NothingLost => Conserved
  BY ConservedEnough
<1> QED
  BY <1>1, <1>2, <1>3, QueueInvariant, PTL DEF QueueSpec
=============================================================================
