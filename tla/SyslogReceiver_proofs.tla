----------------------- MODULE SyslogReceiver_proofs -----------------------
(***************************************************************************)
(* Proofs about SyslogReceiver, for any channel capacity and any number of *)
(* datagrams: its type invariant, that it implements LossyLog, and that    *)
(* what the channel took is kept.                                          *)
(***************************************************************************)
EXTENDS SyslogReceiver, TLAPS

Ascending(s) == \A i, j \in DOMAIN s : i < j => s[i] < s[j]

\* Every entry of s is less than n.
Below(s, n) == \A i \in DOMAIN s : s[i] < n

\* The loop has a datagram in its hands that it has not offered yet.
Fresh == loop \in {"resolve", "offer"}

\* An entry on its way from the loop to a row stays between those before it and
\* those after it: rows, the entry being stored, the channel, the datagram in
\* the loop's hands.
Queue ==
  /\ Ascending(rows) /\ Ascending(entryCh)
  /\ \A m \in DOMAIN entryCh : Below(rows, entryCh[m])
  /\ holding # 0 => /\ Below(rows, holding)
                    /\ \A m \in DOMAIN entryCh : holding < entryCh[m]
  /\ Below(rows, received + 1) /\ Below(entryCh, received + 1) /\ holding <= received
  /\ Fresh => /\ received > 0
              /\ Below(rows, received) /\ Below(entryCh, received) /\ holding < received

IInv == TypeOK /\ Queue

-----------------------------------------------------------------------------
(* Sequences of numbers.                                                   *)

LEMMA AppendAscending ==
  ASSUME NEW N \in Nat, NEW s \in Seq(1..N), NEW n \in 1..N, Ascending(s), Below(s, n)
  PROVE  Ascending(Append(s, n)) /\ Append(s, n) \in Seq(1..N)
  BY DEF Ascending, Below

LEMMA AppendBelow ==
  ASSUME NEW N \in Nat, NEW s \in Seq(1..N), NEW n \in 1..N,
         NEW b \in Nat, Below(s, b), n < b
  PROVE  Below(Append(s, n), b)
  BY DEF Below

LEMMA TailAscending ==
  ASSUME NEW N \in Nat, NEW s \in Seq(1..N), s # <<>>, Ascending(s)
  PROVE  /\ Tail(s) \in Seq(1..N) /\ Head(s) \in 1..N /\ Len(Tail(s)) = Len(s) - 1
         /\ Ascending(Tail(s))
         /\ \A m \in DOMAIN Tail(s) : Head(s) < Tail(s)[m]
         /\ \A m \in DOMAIN Tail(s) : m + 1 \in DOMAIN s /\ Tail(s)[m] = s[m + 1]
         /\ 1 \in DOMAIN s /\ Head(s) = s[1]
  BY DEF Ascending

LEMMA BelowMonotone ==
  ASSUME NEW N \in Nat, NEW s \in Seq(1..N), NEW a \in Nat, NEW b \in Nat,
         a <= b, Below(s, a)
  PROVE  Below(s, b)
  BY DEF Below

-----------------------------------------------------------------------------
LEMMA InitIInv == Init => IInv
<1> SUFFICES ASSUME Init PROVE IInv
  OBVIOUS
<1> USE SyslogReceiverAssumption DEF Init
<1>1. TypeOK
  <2>1. cancelled \in BOOLEAN /\ chClosed \in BOOLEAN /\ panicked \in BOOLEAN
    OBVIOUS
  <2>. QED BY <2>1 DEF TypeOK
<1>2. Queue
  BY DEF Queue, Ascending, Below, Fresh
<1>. QED BY <1>1, <1>2 DEF IInv

-----------------------------------------------------------------------------
LEMMA LoopTypeOK == ASSUME TypeOK, Loop, Fresh => received > 0 PROVE TypeOK'
<1> USE SyslogReceiverAssumption DEF TypeOK, LoopStep, Use, writerVars
<1>1. CASE Listen
  BY <1>1 DEF Listen
<1>2. CASE ListenFails
  BY <1>2 DEF ListenFails
<1>3. CASE CheckContext
  BY <1>3 DEF CheckContext
<1>4. CASE SetReadDeadline
  BY <1>4 DEF SetReadDeadline
<1>5. CASE BeginRead
  BY <1>5 DEF BeginRead
<1>6. CASE ReadDatagram
  BY <1>6 DEF ReadDatagram
<1>7. CASE ReadTimeout
  BY <1>7 DEF ReadTimeout
<1>8. CASE ReadOnClosed
  BY <1>8 DEF ReadOnClosed
<1>9. CASE AfterReadError
  BY <1>9 DEF AfterReadError
<1>10. CASE ResolveAsset
  BY <1>10 DEF ResolveAsset
<1>11. CASE Offer
  <2>1. received \in 1..MaxDatagrams
    BY <1>11 DEF Offer, Fresh
  <2>2. /\ Append(entryCh, received) \in Seq(1..MaxDatagrams)
        /\ Append(accepted, received) \in Seq(1..MaxDatagrams)
        /\ Len(Append(entryCh, received)) = Len(entryCh) + 1
    BY <2>1
  <2>3. CASE Len(entryCh) < Cap
    <3>1. entryCh' = Append(entryCh, received) /\ accepted' = Append(accepted, received)
      BY <1>11, <2>3 DEF Offer
    <3>2. Len(entryCh') <= Cap
      BY <2>2, <2>3, <3>1
    <3>. QED BY <1>11, <2>2, <3>1, <3>2 DEF Offer
  <2>4. CASE ~(Len(entryCh) < Cap)
    BY <1>11, <2>4 DEF Offer
  <2>. QED BY <2>3, <2>4
<1>12. CASE ReturnClosing
  BY <1>12 DEF ReturnClosing
<1>. QED BY <1>1, <1>2, <1>3, <1>4, <1>5, <1>6, <1>7, <1>8, <1>9, <1>10,
            <1>11, <1>12, Loop DEF Loop

LEMMA NextTypeOK ==
  ASSUME TypeOK, [Next]_vars, Fresh => received > 0 PROVE TypeOK'
<1> USE SyslogReceiverAssumption DEF TypeOK, loopVars, writerVars
<1>1. CASE Loop
  BY <1>1, LoopTypeOK
<1>2. CASE TakeEntry
  <2>1. /\ Tail(entryCh) \in Seq(1..MaxDatagrams)
        /\ Len(Tail(entryCh)) <= Cap
        /\ Head(entryCh) \in 1..MaxDatagrams
    BY <1>2 DEF TakeEntry
  <2>2. CASE cancelled
    <3>1. lost' \subseteq 1..MaxDatagrams
      BY <1>2, <2>1, <2>2 DEF TakeEntry
    <3>. QED BY <1>2, <2>1, <2>2, <3>1 DEF TakeEntry
  <2>3. CASE ~cancelled
    <3>1. /\ writer' = "writing" /\ holding' \in 1..MaxDatagrams /\ loop' # "start"
          /\ entryCh' = Tail(entryCh)
      BY <1>2, <2>1, <2>3 DEF TakeEntry
    <3>2. UNCHANGED <<main, cancelled, conn, socket, loop, received, chClosed,
                      rows, lost, faults, panicked, accepted>>
      BY <1>2, <2>3 DEF TakeEntry
    <3>. QED BY <2>1, <3>1, <3>2
  <2>. QED BY <2>2, <2>3
<1>3. CASE Store
  BY <1>3 DEF Store
<1>4. CASE StoreFails
  BY <1>4 DEF StoreFails
<1>5. CASE WriterReturns
  BY <1>5 DEF WriterReturns
<1>6. CASE Signal
  BY <1>6 DEF Signal, MainStep
<1>7. CASE Cancel
  BY <1>7 DEF Cancel, MainStep
<1>8. CASE StopTest
  BY <1>8 DEF StopTest, MainStep
<1>9. CASE StopClose
  BY <1>9 DEF StopClose, MainStep
<1>10. CASE StopForget
  BY <1>10 DEF StopForget, MainStep
<1>11. CASE Exit
  BY <1>11 DEF Exit, MainStep
<1>12. CASE UNCHANGED vars
  BY <1>12 DEF vars
<1>. QED BY <1>1, <1>2, <1>3, <1>4, <1>5, <1>6, <1>7, <1>8, <1>9, <1>10,
            <1>11, <1>12 DEF Next, Writer, Main, Gone

-----------------------------------------------------------------------------
\* A step that moves no entry and takes no datagram keeps the queue.
LEMMA QueueKept ==
  ASSUME Queue, UNCHANGED <<rows, entryCh, holding, received>>, Fresh' => Fresh
  PROVE  Queue'
  BY DEF Queue, Ascending, Below

\* The loop reads a datagram: it is newer than all there is.
LEMMA ReadQueue == ASSUME IInv, ReadDatagram PROVE Queue'
<1> USE SyslogReceiverAssumption
<1>1. /\ received' = received + 1 /\ received \in Nat
      /\ UNCHANGED <<rows, entryCh, holding>>
  BY DEF IInv, TypeOK, ReadDatagram, writerVars
<1>2. /\ rows \in Seq(1..MaxDatagrams) /\ entryCh \in Seq(1..MaxDatagrams)
      /\ MaxDatagrams \in Nat /\ holding \in Nat
  BY DEF IInv, TypeOK
<1>3. Below(rows, received + 2) /\ Below(entryCh, received + 2)
  BY <1>1, <1>2, BelowMonotone DEF IInv, Queue
<1>. QED BY <1>1, <1>2, <1>3 DEF IInv, Queue, Ascending, Below

\* The loop offers it: it becomes the last of the channel.
LEMMA OfferQueue == ASSUME IInv, Offer PROVE Queue'
<1> USE SyslogReceiverAssumption
<1>1. /\ UNCHANGED <<rows, holding, received>> /\ loop = "offer" /\ loop' = "check"
  BY DEF Offer, LoopStep, writerVars
<1>2. /\ rows \in Seq(1..MaxDatagrams) /\ entryCh \in Seq(1..MaxDatagrams)
      /\ MaxDatagrams \in Nat /\ received \in 1..MaxDatagrams /\ holding \in Nat
      /\ Below(rows, received) /\ Below(entryCh, received) /\ holding < received
  BY <1>1 DEF IInv, TypeOK, Queue, Fresh
<1>3. CASE entryCh' = entryCh
  BY <1>1, <1>3, QueueKept DEF IInv, Fresh
<1>4. CASE entryCh' = Append(entryCh, received)
  <2>1. Ascending(entryCh') /\ Below(entryCh', received + 1)
    <3>1. Ascending(entryCh)
      BY DEF IInv, Queue
    <3>2. Below(entryCh, received + 1)
      BY <1>2, BelowMonotone
    <3>3. Below(Append(entryCh, received), received + 1)
      BY <1>2, <3>2, AppendBelow
    <3>. QED BY <1>2, <1>4, <3>1, <3>3, AppendAscending
  <2>2. \A m \in DOMAIN entryCh' :
          entryCh'[m] = received \/ (m \in DOMAIN entryCh /\ entryCh'[m] = entryCh[m])
    BY <1>2, <1>4
  <2>3. ~Fresh'
    BY <1>1 DEF Fresh
  <2>4. \A m \in DOMAIN entryCh' : Below(rows, entryCh'[m])
    BY <1>2, <2>2 DEF IInv, Queue
  <2>5. holding # 0 => \A m \in DOMAIN entryCh' : holding < entryCh'[m]
    BY <1>2, <2>2 DEF IInv, Queue
  <2>. QED BY <1>1, <2>1, <2>3, <2>4, <2>5 DEF IInv, Queue, Below, Ascending
<1>. QED BY <1>3, <1>4 DEF Offer

\* The writer takes the first of the channel; it is stored or lost.
LEMMA TakeQueue == ASSUME IInv, TakeEntry PROVE Queue'
<1> USE SyslogReceiverAssumption
<1>1. /\ UNCHANGED <<rows, received, loop>> /\ entryCh # <<>> /\ entryCh' = Tail(entryCh)
      /\ holding' = holding \/ holding' = Head(entryCh)
      /\ holding = 0
  BY DEF IInv, TypeOK, TakeEntry, loopVars
<1>2. /\ rows \in Seq(1..MaxDatagrams) /\ entryCh \in Seq(1..MaxDatagrams)
      /\ MaxDatagrams \in Nat /\ received \in Nat
  BY DEF IInv, TypeOK
<1>3. /\ Ascending(entryCh') /\ Head(entryCh) \in 1..MaxDatagrams
      /\ \A m \in DOMAIN entryCh' : /\ Head(entryCh) < entryCh'[m]
                                    /\ m + 1 \in DOMAIN entryCh
                                    /\ entryCh'[m] = entryCh[m + 1]
      /\ 1 \in DOMAIN entryCh /\ Head(entryCh) = entryCh[1]
  BY <1>1, <1>2, TailAscending DEF IInv, Queue
<1>. QED BY <1>1, <1>2, <1>3 DEF IInv, Queue, Below, Ascending, Fresh

\* The writer stores what it holds: it becomes the last row.
LEMMA StoreQueue == ASSUME IInv, Store PROVE Queue'
<1> USE SyslogReceiverAssumption
<1>1. /\ UNCHANGED <<entryCh, received, loop>> /\ rows' = Append(rows, holding)
      /\ holding # 0 /\ holding' = 0
  BY DEF IInv, TypeOK, Store, loopVars
<1>2. /\ rows \in Seq(1..MaxDatagrams) /\ entryCh \in Seq(1..MaxDatagrams)
      /\ MaxDatagrams \in Nat /\ received \in Nat /\ holding \in 1..MaxDatagrams
      /\ Below(rows, holding) /\ Ascending(rows)
  BY <1>1 DEF IInv, TypeOK, Queue
<1>3. Ascending(rows')
  BY <1>1, <1>2, AppendAscending
<1>4. \A m \in DOMAIN rows' :
        rows'[m] = holding \/ (m \in DOMAIN rows /\ rows'[m] = rows[m])
  BY <1>1, <1>2
<1>. QED BY <1>1, <1>2, <1>3, <1>4 DEF IInv, Queue, Below, Fresh, Ascending

LEMMA NextQueue == ASSUME IInv, [Next]_vars PROVE Queue'
<1>1. CASE ReadDatagram
  BY <1>1, ReadQueue
<1>2. CASE Offer
  BY <1>2, OfferQueue
<1>3. CASE TakeEntry
  BY <1>3, TakeQueue
<1>4. CASE Store
  BY <1>4, StoreQueue
<1>5. CASE StoreFails
  <2>1. UNCHANGED <<rows, entryCh, received, loop>> /\ holding' = 0
    BY <1>5 DEF StoreFails, loopVars
  <2>. QED BY <2>1 DEF IInv, TypeOK, Queue, Ascending, Below, Fresh
<1>6. CASE \/ Listen \/ ListenFails \/ CheckContext \/ SetReadDeadline \/ BeginRead
           \/ ReadTimeout \/ ReadOnClosed \/ AfterReadError \/ ReturnClosing
  <2>1. UNCHANGED <<rows, entryCh, holding, received>>
    BY <1>6 DEF Listen, ListenFails, CheckContext, SetReadDeadline, BeginRead,
                ReadTimeout, ReadOnClosed, AfterReadError, ReturnClosing, writerVars
  <2>2. Fresh' => Fresh
    BY <1>6 DEF Listen, ListenFails, CheckContext, SetReadDeadline, BeginRead,
                ReadTimeout, ReadOnClosed, AfterReadError, ReturnClosing, Use, Fresh
  <2>. QED BY <2>1, <2>2, QueueKept DEF IInv
<1>7. CASE ResolveAsset
  <2>1. UNCHANGED <<rows, entryCh, holding, received>> /\ Fresh
    BY <1>7 DEF ResolveAsset, LoopStep, Fresh, writerVars
  <2>. QED BY <2>1, QueueKept DEF IInv
<1>8. CASE WriterReturns \/ Signal \/ Main \/ UNCHANGED vars
  <2>1. UNCHANGED <<rows, entryCh, holding, received, loop>>
    BY <1>8 DEF WriterReturns, Signal, Main, Cancel, StopTest, StopClose, StopForget,
                Exit, loopVars, writerVars, vars
  <2>. QED BY <2>1, QueueKept DEF IInv, Fresh
<1>. QED BY <1>1, <1>2, <1>3, <1>4, <1>5, <1>6, <1>7, <1>8
         DEF Next, Loop, Writer, Gone

THEOREM SyslogInvariant == Spec => []IInv
<1>1. IInv /\ [Next]_vars => IInv'
  BY NextTypeOK, NextQueue DEF IInv, Queue
<1>. QED BY InitIInv, <1>1, PTL DEF Spec

\* Type correctness: in particular the channel never holds more than Cap.
THEOREM SyslogTypeCorrect == Spec => []TypeOK
  BY SyslogInvariant, PTL DEF IInv

-----------------------------------------------------------------------------
(* The receiver implements the lossy log.                                  *)

LEMMA InitRefines == Init => LogOf!Init
  BY DEF Init, LogOf!Init

LEMMA StepRefines ==
  ASSUME IInv, [Next]_vars
  PROVE  [LogOf!Arrive \/ LogOf!Keep]_<<received, rows>>
<1>1. CASE ReadDatagram
  <2>1. LogOf!Arrive
    BY <1>1 DEF ReadDatagram, writerVars, LogOf!Arrive
  <2>. QED BY <2>1
<1>2. CASE Store
  <2>1. /\ rows' = Append(rows, holding) /\ received' = received
        /\ holding \in 1..received
        /\ rows \in Seq(1..MaxDatagrams) /\ Below(rows, holding)
    BY <1>2, SyslogReceiverAssumption
    DEF IInv, TypeOK, Queue, Store, loopVars
  <2>2. rows # <<>> => rows[Len(rows)] < holding
    BY <2>1 DEF Below
  <2>. QED BY <2>1, <2>2 DEF LogOf!Keep
<1>3. CASE ~ReadDatagram /\ ~Store
  <2>1. UNCHANGED <<received, rows>>
    BY <1>3 DEF Next, Loop, Writer, Main, Gone, Listen, ListenFails, CheckContext,
                SetReadDeadline, BeginRead, ReadTimeout, ReadOnClosed,
                AfterReadError, ResolveAsset, Offer, ReturnClosing, TakeEntry,
                StoreFails, WriterReturns, Signal, Cancel, StopTest, StopClose,
                StopForget, Exit, loopVars, writerVars, vars
  <2>. QED BY <2>1
<1>. QED BY <1>1, <1>2, <1>3

\* The rows are the datagrams received, less some, in their order and without
\* repetition, however many there are and whatever fails or is cut off.
THEOREM SyslogKeepsOrder == Spec => KeepsOrder
<1>1. Init => LogOf!Init
  BY InitRefines
<1>2. IInv /\ [Next]_vars => [LogOf!Arrive \/ LogOf!Keep]_<<received, rows>>
  BY StepRefines
<1>. QED BY <1>1, <1>2, SyslogInvariant, PTL DEF Spec, KeepsOrder, LogOf!Spec

-----------------------------------------------------------------------------
(* When the connection can be missing.                                     *)

StopIInv ==
  /\ main \notin {"up", "cancel"} => cancelled
  /\ conn = "nil" => loop \in {"start", "done"} \/ main \in {"shutdown", "exited"}
  /\ PanicOnlyAtStop

LEMMA NextStopIInv == ASSUME StopIInv, [Next]_vars PROVE StopIInv'
<1> USE DEF StopIInv, PanicOnlyAtStop
<1>1. CASE Listen \/ ListenFails \/ CheckContext \/ AfterReadError
  BY <1>1 DEF Listen, ListenFails, CheckContext, AfterReadError, LoopStep, Running
<1>2. CASE SetReadDeadline \/ BeginRead \/ ReturnClosing
  BY <1>2 DEF SetReadDeadline, BeginRead, ReturnClosing, Use, LoopStep, Running
<1>3. CASE ReadDatagram \/ ReadTimeout \/ ReadOnClosed \/ ResolveAsset \/ Offer
  BY <1>3 DEF ReadDatagram, ReadTimeout, ReadOnClosed, ResolveAsset, Offer,
              LoopStep, Running
<1>4. CASE Writer
  <2>1. UNCHANGED <<main, cancelled, conn, loop, panicked>>
    BY <1>4 DEF Writer, TakeEntry, Store, StoreFails, WriterReturns, loopVars
  <2>. QED BY <2>1
<1>5. CASE Signal \/ Main
  BY <1>5 DEF Signal, Main, Cancel, StopTest, StopClose, StopForget, Exit,
              MainStep, Running, loopVars
<1>6. CASE UNCHANGED vars
  BY <1>6 DEF vars, loopVars
<1>. QED BY <1>1, <1>2, <1>3, <1>4, <1>5, <1>6 DEF Next, Loop, Gone

\* The loop runs into a nil connection only while main is stopping the
\* receiver, whatever the channel's capacity and the traffic.
THEOREM SyslogPanicOnlyAtStop == Spec => []PanicOnlyAtStop
<1>1. Init => StopIInv
  BY DEF Init, StopIInv, PanicOnlyAtStop
<1>2. StopIInv /\ [Next]_vars => StopIInv'
  BY NextStopIInv
<1>3. StopIInv => PanicOnlyAtStop
  BY DEF StopIInv
<1>. QED BY <1>1, <1>2, <1>3, PTL DEF Spec
-----------------------------------------------------------------------------
(* What the channel took.                                                  *)

\* What is stored, in work and waiting, in this order.
InHand == IF holding = 0 THEN <<>> ELSE <<holding>>
Kept == rows \o InHand \o entryCh

LEMMA KeptAppend ==
  ASSUME NEW S, NEW r \in Seq(S), NEW h \in Seq(S), NEW q \in Seq(S), NEW e \in S
  PROVE  r \o h \o Append(q, e) = Append(r \o h \o q, e)
  OBVIOUS

LEMMA KeptTake ==
  ASSUME NEW S, NEW r \in Seq(S), NEW q \in Seq(S), q # <<>>
  PROVE  r \o <<Head(q)>> \o Tail(q) = r \o <<>> \o q
<1>1. Head(q) \in S /\ Tail(q) \in Seq(S) /\ Len(Tail(q)) = Len(q) - 1
  OBVIOUS
<1>. DEFINE a == r \o <<Head(q)>> \o Tail(q)
            b == r \o <<>> \o q
<1>2. a \in Seq(S) /\ b \in Seq(S) /\ Len(a) = Len(b)
  BY <1>1
<1>3. ASSUME NEW i \in 1..Len(a)
      PROVE  a[i] = b[i]
  BY <1>1, <1>2
<1>. QED BY <1>2, <1>3

LEMMA KeptStore ==
  ASSUME NEW S, NEW r \in Seq(S), NEW q \in Seq(S), NEW e \in S
  PROVE  Append(r, e) \o <<>> \o q = r \o <<e>> \o q
  OBVIOUS

\* Only the offer, the take and the store move entries, and each keeps them in line.
LEMMA NextKept == ASSUME IInv, AcceptedIsKept, [Next]_vars PROVE AcceptedIsKept'
<1>. DEFINE Entries == 1..MaxDatagrams
<1>1. /\ rows \in Seq(Entries) /\ entryCh \in Seq(Entries) /\ InHand \in Seq(Entries)
      /\ writer = "writing" <=> holding # 0
  <2>1. holding # 0 => holding \in Entries
    BY DEF IInv, TypeOK
  <2>2. holding # 0 => <<holding>> \in Seq(Entries)
    BY <2>1
  <2>3. InHand \in Seq(Entries)
    <3>1. <<>> \in Seq(Entries)
      OBVIOUS
    <3>. HIDE DEF Entries
    <3>. QED BY <2>2, <3>1 DEF InHand
  <2>4. rows \in Seq(Entries) /\ entryCh \in Seq(Entries)
    BY DEF IInv, TypeOK
  <2>5. writer = "writing" <=> holding # 0
    BY DEF IInv, TypeOK
  <2>. QED BY <2>3, <2>4, <2>5
<1>2. ASSUME UNCHANGED <<accepted, rows, holding, entryCh>>,
             cancelled => cancelled', lost \subseteq lost'
      PROVE  AcceptedIsKept'
  BY <1>2 DEF AcceptedIsKept
<1>3. CASE Offer
  <2>1. UNCHANGED <<cancelled, lost, rows, holding>> /\ received \in Entries
    BY <1>3 DEF Offer, LoopStep, writerVars, IInv, TypeOK, Queue, Fresh
  <2>2. CASE Len(entryCh) < Cap
    <3>1. entryCh' = Append(entryCh, received) /\ accepted' = Append(accepted, received)
      BY <1>3, <2>2 DEF Offer
    <3>2. rows \o InHand \o Append(entryCh, received) = Append(rows \o InHand \o entryCh, received)
      BY <1>1, <2>1, KeptAppend
    <3>. QED BY <2>1, <3>1, <3>2 DEF AcceptedIsKept, InHand
  <2>3. CASE ~(Len(entryCh) < Cap)
    BY <1>2, <1>3, <2>1, <2>3 DEF Offer
  <2>. QED BY <2>2, <2>3
<1>4. CASE TakeEntry
  <2>1. UNCHANGED <<accepted, rows, cancelled>> /\ entryCh # <<>> /\ holding = 0
        /\ entryCh' = Tail(entryCh)
    BY <1>1, <1>4 DEF TakeEntry
  <2>2. CASE ~cancelled
    <3>1. lost' = lost /\ holding' = Head(entryCh)
      BY <1>4, <2>2 DEF TakeEntry
    <3>2. rows \o <<Head(entryCh)>> \o Tail(entryCh) = rows \o <<>> \o entryCh
      BY <1>1, <2>1, KeptTake
    <3>3. Head(entryCh) # 0
      <4>. HIDE DEF Entries
      <4>1. Head(entryCh) \in Entries
        BY <1>1, <2>1
      <4>. USE DEF Entries
      <4>. QED BY <4>1
    <3>. QED BY <2>1, <3>1, <3>2, <3>3 DEF AcceptedIsKept
  <2>. QED BY <2>1, <2>2 DEF AcceptedIsKept
<1>5. CASE Store
  <2>1. UNCHANGED <<accepted, entryCh, cancelled, lost>> /\ holding # 0 /\ holding' = 0
        /\ rows' = Append(rows, holding)
    BY <1>1, <1>5 DEF Store
  <2>2. holding \in Entries
    BY <2>1 DEF IInv, TypeOK
  <2>3. Append(rows, holding) \o <<>> \o entryCh = rows \o <<holding>> \o entryCh
    BY <1>1, <2>2, KeptStore
  <2>. QED BY <2>1, <2>3 DEF AcceptedIsKept
<1>6. CASE StoreFails
  BY <1>6 DEF StoreFails, AcceptedIsKept
<1>7. CASE WriterReturns \/ Signal \/ Cancel \/ StopTest \/ StopClose \/ StopForget \/ Exit
  BY <1>2, <1>7 DEF WriterReturns, Signal, Cancel, StopTest, StopClose, StopForget, Exit, writerVars
<1>8. CASE \/ Listen \/ ListenFails \/ CheckContext \/ SetReadDeadline \/ BeginRead
           \/ ReadDatagram \/ ReadTimeout \/ ReadOnClosed \/ AfterReadError
           \/ ResolveAsset \/ ReturnClosing
  BY <1>2, <1>8 DEF Listen, ListenFails, CheckContext, SetReadDeadline, BeginRead, ReadDatagram,
     ReadTimeout, ReadOnClosed, AfterReadError, ResolveAsset, ReturnClosing, writerVars
<1>9. CASE Gone \/ UNCHANGED vars
  BY <1>2, <1>9 DEF Gone, vars, writerVars, loopVars
<1>. QED BY <1>3, <1>4, <1>5, <1>6, <1>7, <1>8, <1>9 DEF Next, Loop, Writer, Main

\* Until main cancels the receiver or an insert fails, nothing the channel took is
\* lost or overtaken, for any capacity.
THEOREM SyslogAcceptedIsKept == Spec => []AcceptedIsKept
<1>1. Init => AcceptedIsKept
  <2>1. <<>> = <<>> \o <<>> \o <<>>
    OBVIOUS
  <2>. QED BY <2>1 DEF Init, AcceptedIsKept
<1>2. IInv /\ AcceptedIsKept /\ [Next]_vars => AcceptedIsKept'
  BY NextKept
<1>. QED BY <1>1, <1>2, SyslogInvariant, PTL DEF Spec
=============================================================================
