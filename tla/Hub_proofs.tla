----------------------------- MODULE Hub_proofs -----------------------------
(* Theorems about Hub, for any set of clients and any capacities.          *)
EXTENDS Hub, TLAPS

\* A client Run has not received yet is untouched: nobody can have closed,
\* kicked or written to it.
Fresh ==
  \A c \in Clients :
    handler[c] \in {"start", "registering"} =>
      /\ c \notin clients
      /\ ~closed[c]
      /\ writer[c] = "none"
      /\ send[c] = <<>>
      /\ written[c] = <<>>
      /\ offered[c] = <<>>

\* The dispatch loop ranges over the map of registered clients, and the send
\* channel of a registered client is open.
OpenWhileRegistered ==
  /\ todo \subseteq clients
  /\ \A c \in clients : ~closed[c]

\* The inductive invariant behind both safety theorems.
IInv ==
  /\ TypeOK
  /\ NoPanic
  /\ Fresh
  /\ OpenWhileRegistered
  /\ CompleteUntilDropped

-----------------------------------------------------------------------------
\* Dropping the head of a channel after delivering it changes nothing of what
\* was delivered followed by what waits.
LEMMA MoveHead ==
  ASSUME NEW S, NEW w \in Seq(S), NEW s \in Seq(S), s # <<>>
  PROVE  /\ Append(w, Head(s)) \o Tail(s) = w \o s
         /\ Head(s) \in S
         /\ Tail(s) \in Seq(S)
<1>1. Head(s) \in S /\ Tail(s) \in Seq(S)
  OBVIOUS
<1>2. DEFINE l == Append(w, Head(s)) \o Tail(s)
             r == w \o s
<1>3. l \in Seq(S) /\ r \in Seq(S) /\ Len(l) = Len(r)
  BY <1>1
<1>4. ASSUME NEW i \in 1..Len(l)
      PROVE  l[i] = r[i]
  BY <1>1, <1>3
<1> QED
  BY <1>1, <1>3, <1>4

\* Appending to the channel appends to what was delivered and what waits.
LEMMA AppendWaiting ==
  ASSUME NEW S, NEW w \in Seq(S), NEW s \in Seq(S), NEW m \in S
  PROVE  w \o Append(s, m) = Append(w \o s, m)
  OBVIOUS

-----------------------------------------------------------------------------
\* In its initial state the hub has no client and nothing is in flight.
LEMMA InitIInv == Init => IInv
<1> SUFFICES ASSUME Init PROVE IInv
  OBVIOUS
<1>1. TypeOK
  <2>1. published \in 0..MaxMsgs
    BY HubAssumption DEF Init
  <2>2. \A S : <<>> \in Seq(S)
    OBVIOUS
  <2>3. /\ [c \in Clients |-> <<>>] \in [Clients -> Seq(Message)]
        /\ broadcast \in Seq(Message)
    BY <2>2 DEF Init
  <2> QED
    BY <2>1, <2>3 DEF Init, TypeOK
<1>2. NoPanic /\ Fresh /\ OpenWhileRegistered /\ CompleteUntilDropped
  BY DEF Init, NoPanic, Fresh, OpenWhileRegistered, CompleteUntilDropped
<1> QED
  BY <1>1, <1>2 DEF IInv

\* Every step keeps every variable in its type.
LEMMA NextTypeOK == TypeOK /\ [Next]_vars => TypeOK'
<1> SUFFICES ASSUME TypeOK, [Next]_vars
             PROVE  TypeOK'
  OBVIOUS
<1> USE DEF TypeOK, hubVars, clientVars
<1>1. ASSUME NEW c \in Clients, Upgrade(c) PROVE TypeOK'
  BY <1>1 DEF Upgrade
<1>2. ASSUME NEW c \in Clients, StartPumps(c) PROVE TypeOK'
  BY <1>2 DEF StartPumps
<1>3. ASSUME NEW c \in Clients, RunRegister(c) PROVE TypeOK'
  BY <1>3 DEF RunRegister
<1>4. ASSUME NEW c \in Clients, RunUnregisterReader(c) PROVE TypeOK'
  BY <1>4 DEF RunUnregisterReader, Remove
<1>5. ASSUME NEW c \in Clients, RunUnregisterKick(c) PROVE TypeOK'
  <2>1. kicks[c] - 1 \in Nat
    BY <1>5 DEF RunUnregisterKick
  <2>2. kicks' \in [Clients -> Nat]
    BY <1>5, <2>1 DEF RunUnregisterKick
  <2> QED
    BY <1>5, <2>2 DEF RunUnregisterKick, Remove
<1>6. ASSUME NEW c \in Clients, RunOffer(c) PROVE TypeOK'
  <2>1. current \in Message
    BY <1>6 DEF RunOffer
  <2>2. /\ Append(send[c], current) \in Seq(Message)
        /\ Append(offered[c], current) \in Seq(Message)
    BY <2>1
  <2>3. offered' \in [Clients -> Seq(Message)]
    BY <1>6, <2>2 DEF RunOffer
  <2>4. send' \in [Clients -> Seq(Message)]
    BY <1>6, <2>2 DEF RunOffer
  <2>5. kicks' \in [Clients -> Nat]
    BY <1>6 DEF RunOffer
  <2>6. panicked' \in BOOLEAN
    BY <1>6 DEF RunOffer
  <2> QED
    BY <1>6, <2>1, <2>3, <2>4, <2>5, <2>6 DEF RunOffer
<1>7. ASSUME NEW c \in Clients, ReadError(c) PROVE TypeOK'
  BY <1>7 DEF ReadError
<1>8. ASSUME NEW c \in Clients, ReaderClose(c) PROVE TypeOK'
  BY <1>8 DEF ReaderClose
<1>9. ASSUME NEW c \in Clients, Write(c) PROVE TypeOK'
  <2>1. /\ Head(send[c]) \in Message
        /\ Tail(send[c]) \in Seq(Message)
    BY <1>9, MoveHead DEF Write
  <2>2. Append(written[c], Head(send[c])) \in Seq(Message)
    BY <2>1
  <2> QED
    BY <1>9, <2>1, <2>2 DEF Write, WriterReturns
<1>10. ASSUME NEW c \in Clients, WriteClose(c) PROVE TypeOK'
  BY <1>10 DEF WriteClose, WriterReturns
<1>11. ASSUME NEW c \in Clients, PingError(c) PROVE TypeOK'
  BY <1>11 DEF PingError, WriterReturns
<1>12. ASSUME NEW c \in Clients, Break(c) PROVE TypeOK'
  BY <1>12 DEF Break
<1>13. ASSUME NEW c \in Clients, NEW t \in Topics, Subscribe(c, t) PROVE TypeOK'
  BY <1>13 DEF Subscribe
<1>14. ASSUME NEW c \in Clients, NEW t \in Topics, Unsubscribe(c, t) PROVE TypeOK'
  BY <1>14 DEF Unsubscribe
<1>15. ASSUME NEW t \in Topics, Broadcast(t) PROVE TypeOK'
  <2> DEFINE m == [id |-> published + 1, topic |-> t]
  <2>1. published + 1 \in 1..MaxMsgs
    BY <1>15, HubAssumption DEF Broadcast
  <2>2. m \in Message
    BY <2>1 DEF Message
  <2>3. Append(broadcast, m) \in Seq(Message)
    BY <2>2
  <2> QED
    BY <1>15, <2>1, <2>3 DEF Broadcast
<1>16. CASE RunTake
  BY <1>16 DEF RunTake
<1>17. CASE Finished \/ UNCHANGED vars
  BY <1>17 DEF Finished, vars
<1> QED
  BY <1>1, <1>2, <1>3, <1>4, <1>5, <1>6, <1>7, <1>8, <1>9, <1>10, <1>11, <1>12, <1>13, <1>14, <1>15, <1>16, <1>17 DEF Next

\* Every step keeps the hub from panicking, a client not yet received
\* untouched, and the send channels of registered clients open.
LEMMA NextOpen ==
  IInv /\ [Next]_vars => (NoPanic /\ Fresh /\ OpenWhileRegistered)'
<1> SUFFICES ASSUME IInv, [Next]_vars
             PROVE  (NoPanic /\ Fresh /\ OpenWhileRegistered)'
  OBVIOUS
<1> DEFINE Safe == NoPanic /\ Fresh /\ OpenWhileRegistered
<1> USE DEF IInv, TypeOK, NoPanic, Fresh, OpenWhileRegistered, hubVars, clientVars
<1>1. ASSUME NEW c \in Clients, Upgrade(c) PROVE Safe'
  BY <1>1 DEF Upgrade
<1>2. ASSUME NEW c \in Clients, StartPumps(c) PROVE Safe'
  BY <1>2 DEF StartPumps
<1>3. ASSUME NEW c \in Clients, RunRegister(c) PROVE Safe'
  BY <1>3 DEF RunRegister, AtSelect
<1>4. ASSUME NEW c \in Clients, RunUnregisterReader(c) PROVE Safe'
  BY <1>4 DEF RunUnregisterReader, Remove, AtSelect
<1>5. ASSUME NEW c \in Clients, RunUnregisterKick(c) PROVE Safe'
  BY <1>5 DEF RunUnregisterKick, Remove, AtSelect
<1>6. ASSUME NEW c \in Clients, RunOffer(c) PROVE Safe'
  BY <1>6 DEF RunOffer
<1>7. ASSUME NEW c \in Clients, ReadError(c) PROVE Safe'
  BY <1>7 DEF ReadError
<1>8. ASSUME NEW c \in Clients, ReaderClose(c) PROVE Safe'
  BY <1>8 DEF ReaderClose
<1>9. ASSUME NEW c \in Clients, Write(c) PROVE Safe'
  BY <1>9 DEF Write, WriterReturns
<1>10. ASSUME NEW c \in Clients, WriteClose(c) PROVE Safe'
  BY <1>10 DEF WriteClose, WriterReturns
<1>11. ASSUME NEW c \in Clients, PingError(c) PROVE Safe'
  BY <1>11 DEF PingError, WriterReturns
<1>12. ASSUME NEW c \in Clients, Break(c) PROVE Safe'
  BY <1>12 DEF Break
<1>13. ASSUME NEW c \in Clients, NEW t \in Topics, Subscribe(c, t) PROVE Safe'
  BY <1>13 DEF Subscribe
<1>14. ASSUME NEW c \in Clients, NEW t \in Topics, Unsubscribe(c, t) PROVE Safe'
  BY <1>14 DEF Unsubscribe
<1>15. ASSUME NEW t \in Topics, Broadcast(t) PROVE Safe'
  BY <1>15 DEF Broadcast
<1>16. CASE RunTake
  BY <1>16 DEF RunTake, AtSelect
<1>17. CASE Finished \/ UNCHANGED vars
  BY <1>17 DEF Finished, vars
<1> QED
  BY <1>1, <1>2, <1>3, <1>4, <1>5, <1>6, <1>7, <1>8, <1>9, <1>10, <1>11, <1>12, <1>13, <1>14, <1>15, <1>16, <1>17 DEF Next

\* Every step keeps the registered clients complete until they are dropped.
LEMMA NextComplete == IInv /\ [Next]_vars => CompleteUntilDropped'
<1> SUFFICES ASSUME IInv, [Next]_vars
             PROVE  CompleteUntilDropped'
  OBVIOUS
<1> USE DEF IInv, CompleteUntilDropped, hubVars, clientVars
<1>1. ASSUME NEW c \in Clients, Upgrade(c) PROVE CompleteUntilDropped'
  <2>1. c \notin clients
    BY <1>1 DEF Fresh, Upgrade
  <2> QED
    BY <1>1, <2>1 DEF Upgrade, TypeOK
<1>2. ASSUME NEW c \in Clients, StartPumps(c) PROVE CompleteUntilDropped'
  BY <1>2 DEF StartPumps
<1>3. ASSUME NEW c \in Clients, RunRegister(c) PROVE CompleteUntilDropped'
  <2>1. written[c] \o send[c] = offered[c]
    <3>1. written[c] = <<>> /\ send[c] = <<>> /\ offered[c] = <<>>
      BY <1>3 DEF Fresh, RunRegister
    <3> QED
      BY <3>1
  <2> QED
    BY <1>3, <2>1 DEF RunRegister
<1>4. ASSUME NEW c \in Clients, RunUnregisterReader(c) PROVE CompleteUntilDropped'
  <2>1. c \notin clients'
    BY <1>4 DEF RunUnregisterReader, Remove
  <2>2. clients' \subseteq clients
    BY <1>4 DEF RunUnregisterReader, Remove
  <2> QED
    BY <1>4, <2>1, <2>2 DEF RunUnregisterReader
<1>5. ASSUME NEW c \in Clients, RunUnregisterKick(c) PROVE CompleteUntilDropped'
  <2>1. c \notin clients'
    BY <1>5 DEF RunUnregisterKick, Remove
  <2>2. clients' \subseteq clients
    BY <1>5 DEF RunUnregisterKick, Remove
  <2>3. \A b \in Clients \ {c} : kicks'[b] = kicks[b]
    BY <1>5 DEF RunUnregisterKick, TypeOK
  <2> QED
    BY <1>5, <2>1, <2>2, <2>3 DEF RunUnregisterKick, TypeOK
<1>6. ASSUME NEW c \in Clients, RunOffer(c) PROVE CompleteUntilDropped'
  <2>1. c \in clients /\ ~closed[c] /\ current \in Message
    BY <1>6 DEF RunOffer, OpenWhileRegistered, TypeOK
  <2>2. CASE ~IsSubscribed(c, current.topic)
    BY <1>6, <2>2 DEF RunOffer
  <2>3. CASE IsSubscribed(c, current.topic) /\ Len(send[c]) < SendCap
    <3>1. /\ send' = [send EXCEPT ![c] = Append(@, current)]
          /\ offered' = [offered EXCEPT ![c] = Append(@, current)]
          /\ UNCHANGED <<clients, kicks, conn, written>>
      BY <1>6, <2>1, <2>3 DEF RunOffer
    <3>2. written[c] \o Append(send[c], current)
            = Append(written[c] \o send[c], current)
      BY <2>1, AppendWaiting DEF TypeOK
    <3>3. ASSUME NEW b \in clients', conn'[b] = "open" /\ kicks'[b] = 0
          PROVE  written'[b] \o send'[b] = offered'[b]
      <4>1. CASE b = c
        BY <3>1, <3>2, <3>3, <4>1 DEF TypeOK
      <4>2. CASE b # c
        BY <3>1, <3>3, <4>2 DEF TypeOK
      <4> QED
        BY <4>1, <4>2
    <3> QED
      BY <3>3
  <2>4. CASE IsSubscribed(c, current.topic) /\ ~(Len(send[c]) < SendCap)
    <3>1. /\ kicks' = [kicks EXCEPT ![c] = @ + 1]
          /\ offered' = [offered EXCEPT ![c] = Append(@, current)]
          /\ UNCHANGED <<clients, send, conn, written>>
      BY <1>6, <2>1, <2>4 DEF RunOffer
    <3>2. kicks'[c] # 0
      BY <3>1 DEF TypeOK
    <3>3. \A b \in Clients \ {c} : /\ kicks'[b] = kicks[b]
                                   /\ offered'[b] = offered[b]
      BY <3>1 DEF TypeOK
    <3> QED
      BY <3>1, <3>2, <3>3 DEF TypeOK
  <2> QED
    BY <2>2, <2>3, <2>4
<1>7. ASSUME NEW c \in Clients, ReadError(c) PROVE CompleteUntilDropped'
  BY <1>7 DEF ReadError
<1>8. ASSUME NEW c \in Clients, ReaderClose(c) PROVE CompleteUntilDropped'
  <2>1. conn'[c] # "open" /\ \A b \in Clients \ {c} : conn'[b] = conn[b]
    BY <1>8 DEF ReaderClose, TypeOK
  <2> QED
    BY <1>8, <2>1 DEF ReaderClose, TypeOK
<1>9. ASSUME NEW c \in Clients, Write(c) PROVE CompleteUntilDropped'
  <2>1. /\ UNCHANGED <<clients, kicks, offered>>
        /\ send[c] # <<>>
        /\ \A b \in Clients \ {c} : /\ send'[b] = send[b]
                                   /\ written'[b] = written[b]
                                   /\ conn'[b] = conn[b]
    BY <1>9 DEF Write, WriterReturns, TypeOK
  <2>2. CASE conn'[c] # "open"
    BY <2>1, <2>2 DEF TypeOK
  <2>3. CASE conn'[c] = "open"
    <3>1. /\ conn[c] = "open"
          /\ send'[c] = Tail(send[c])
          /\ written'[c] = Append(written[c], Head(send[c]))
      BY <1>9, <2>3 DEF Write, WriterReturns, TypeOK
    <3>2. written'[c] \o send'[c] = written[c] \o send[c]
      BY <2>1, <3>1, MoveHead DEF TypeOK
    <3>3. ASSUME NEW b \in clients', conn'[b] = "open" /\ kicks'[b] = 0
          PROVE  written'[b] \o send'[b] = offered'[b]
      <4>1. CASE b = c
        BY <2>1, <3>1, <3>2, <3>3, <4>1
      <4>2. CASE b # c
        BY <2>1, <3>3, <4>2 DEF TypeOK
      <4> QED
        BY <4>1, <4>2
    <3> QED
      BY <3>3
  <2> QED
    BY <2>2, <2>3
<1>10. ASSUME NEW c \in Clients, WriteClose(c) PROVE CompleteUntilDropped'
  <2>1. conn'[c] # "open" /\ \A b \in Clients \ {c} : conn'[b] = conn[b]
    BY <1>10 DEF WriteClose, WriterReturns, TypeOK
  <2> QED
    BY <1>10, <2>1 DEF WriteClose, TypeOK
<1>11. ASSUME NEW c \in Clients, PingError(c) PROVE CompleteUntilDropped'
  <2>1. conn'[c] # "open" /\ \A b \in Clients \ {c} : conn'[b] = conn[b]
    BY <1>11 DEF PingError, WriterReturns, TypeOK
  <2> QED
    BY <1>11, <2>1 DEF PingError, TypeOK
<1>12. ASSUME NEW c \in Clients, Break(c) PROVE CompleteUntilDropped'
  <2>1. conn'[c] # "open" /\ \A b \in Clients \ {c} : conn'[b] = conn[b]
    BY <1>12 DEF Break, TypeOK
  <2> QED
    BY <1>12, <2>1 DEF Break, TypeOK
<1>13. ASSUME NEW c \in Clients, NEW t \in Topics, Subscribe(c, t) PROVE CompleteUntilDropped'
  BY <1>13 DEF Subscribe
<1>14. ASSUME NEW c \in Clients, NEW t \in Topics, Unsubscribe(c, t) PROVE CompleteUntilDropped'
  BY <1>14 DEF Unsubscribe
<1>15. ASSUME NEW t \in Topics, Broadcast(t) PROVE CompleteUntilDropped'
  BY <1>15 DEF Broadcast
<1>16. CASE RunTake
  BY <1>16 DEF RunTake, AtSelect
<1>17. CASE Finished \/ UNCHANGED vars
  BY <1>17 DEF Finished, vars
<1> QED
  BY <1>1, <1>2, <1>3, <1>4, <1>5, <1>6, <1>7, <1>8, <1>9, <1>10, <1>11, <1>12, <1>13, <1>14, <1>15, <1>16, <1>17 DEF Next

\* The inductive step.
LEMMA NextIInv == IInv /\ [Next]_vars => IInv'
  BY NextTypeOK, NextOpen, NextComplete DEF IInv

-----------------------------------------------------------------------------
\* The inductive invariant holds in every reachable state.
THEOREM HubInvariant == Spec => []IInv
  BY InitIInv, NextIInv, PTL DEF Spec

\* The variables of the hub keep their types (TypeOK).
THEOREM HubTypeCorrect == Spec => []TypeOK
<1>1. IInv => TypeOK
  BY DEF IInv
<1> QED
  BY <1>1, HubInvariant, PTL

\* The hub goroutine never sends on, nor closes, a channel closed before.
THEOREM HubNeverPanics == Spec => []NoPanic
<1>1. IInv => NoPanic
  BY DEF IInv
<1> QED
  BY <1>1, HubInvariant, PTL

\* A registered, connected client that no kick is about to remove has been
\* given every message dispatched to it, in order.
THEOREM HubCompleteUntilDropped == Spec => []CompleteUntilDropped
<1>1. IInv => CompleteUntilDropped
  BY DEF IInv
<1> QED
  BY <1>1, HubInvariant, PTL

-----------------------------------------------------------------------------
(* The order of messages.                                                  *)

Increasing(s) == \A i, j \in DOMAIN s : i < j => s[i].id < s[j].id
UpTo(s, n) == \A i \in DOMAIN s : s[i].id <= n
Beyond(s, n) == \A i \in DOMAIN s : s[i].id > n

\* The number of the message dispatched last; 0 before the first one.
Dispatched == IF current \in Message THEN current.id ELSE 0

\* InOrder is inductive together with where the messages are: the channel holds
\* later ones than dispatch has seen, the clients earlier ones or the same, and
\* those that dispatch has still to visit earlier ones.
Order ==
  /\ Increasing(broadcast) /\ Beyond(broadcast, Dispatched) /\ UpTo(broadcast, published)
  /\ Dispatched <= published
  /\ \A c \in Clients : /\ Increasing(written[c] \o send[c])
                        /\ UpTo(written[c] \o send[c], Dispatched)
  /\ \A c \in todo : UpTo(written[c] \o send[c], Dispatched - 1)

LEMMA Numbers ==
  ASSUME NEW s \in Seq(Message)
  PROVE  /\ DOMAIN s = 1..Len(s) /\ Len(s) \in Nat
         /\ \A i \in DOMAIN s : s[i] \in Message /\ s[i].id \in Nat
<1>1. \A m \in Message : m.id \in Nat
  BY HubAssumption DEF Message
<1>2. \A i \in DOMAIN s : s[i] \in Message
  OBVIOUS
<1>. QED BY <1>1, <1>2

\* A message that is later than those of a channel goes to its end.
LEMMA LaterMessage ==
  ASSUME NEW s \in Seq(Message), NEW m \in Message, Increasing(s), UpTo(s, m.id - 1)
  PROVE  Increasing(Append(s, m)) /\ UpTo(Append(s, m), m.id)
<1>1. /\ DOMAIN s = 1..Len(s) /\ Len(s) \in Nat
      /\ \A i \in 1..Len(s) : s[i].id \in Nat
  BY Numbers
<1>2. m.id \in Nat
  BY HubAssumption DEF Message
<1>3. DOMAIN Append(s, m) = 1..Len(s) + 1
  OBVIOUS
<1>4. Append(s, m)[Len(s) + 1].id = m.id /\ \A i \in 1..Len(s) : Append(s, m)[i].id = s[i].id
  OBVIOUS
<1>5. \A i \in 1..Len(s) : s[i].id < m.id
  BY <1>1, <1>2 DEF UpTo
<1>6. Increasing(Append(s, m))
  <2>1. SUFFICES ASSUME NEW i \in 1..Len(s) + 1, NEW j \in 1..Len(s) + 1, i < j
                 PROVE  Append(s, m)[i].id < Append(s, m)[j].id
    BY <1>3 DEF Increasing
  <2>2. i \in 1..Len(s)
    BY <1>1, <2>1
  <2>3. CASE j = Len(s) + 1
    BY <1>4, <1>5, <2>2, <2>3
  <2>4. CASE j \in 1..Len(s)
    BY <1>1, <1>4, <2>1, <2>2, <2>4 DEF Increasing
  <2>. QED BY <1>1, <2>3, <2>4
<1>7. UpTo(Append(s, m), m.id)
  <2>1. \A i \in 1..Len(s) + 1 : i = Len(s) + 1 \/ i \in 1..Len(s)
    BY <1>1
  <2>. QED BY <1>1, <1>2, <1>3, <1>4, <1>5, <2>1 DEF UpTo
<1>. QED BY <1>6, <1>7

\* What is left of a channel, and its head, when the head is taken.
LEMMA TakeHead ==
  ASSUME NEW s \in Seq(Message), s # <<>>, Increasing(s), NEW n \in Nat, UpTo(s, n)
  PROVE  /\ Increasing(Tail(s)) /\ UpTo(Tail(s), n)
         /\ Beyond(Tail(s), Head(s).id) /\ Head(s).id <= n
         /\ \A k : Beyond(s, k) => Beyond(Tail(s), k) /\ Head(s).id > k
<1>1. DOMAIN Tail(s) = 1..Len(s) - 1 /\ DOMAIN s = 1..Len(s) /\ Len(s) \in Nat \ {0}
  OBVIOUS
<1>2. \A i \in 1..Len(s) - 1 : Tail(s)[i] = s[i + 1] /\ i + 1 \in 1..Len(s)
  BY <1>1
<1>3. Head(s) = s[1] /\ 1 \in 1..Len(s)
  BY <1>1
<1>. QED BY <1>1, <1>2, <1>3 DEF Increasing, UpTo, Beyond

\* A message that is lost between what was written and what waits.
LEMMA LoseHead ==
  ASSUME NEW w \in Seq(Message), NEW s \in Seq(Message), s # <<>>, Increasing(w \o s)
  PROVE  /\ Increasing(w \o Tail(s))
         /\ \A n : UpTo(w \o s, n) => UpTo(w \o Tail(s), n)
<1>. DEFINE old == w \o s
            new == w \o Tail(s)
            From(i) == IF i <= Len(w) THEN i ELSE i + 1
<1>1. Tail(s) \in Seq(Message) /\ Len(Tail(s)) = Len(s) - 1 /\ Len(s) \in Nat \ {0} /\ Len(w) \in Nat
  OBVIOUS
<1>2. DOMAIN old = 1..Len(w) + Len(s) /\ DOMAIN new = 1..Len(w) + Len(s) - 1
  BY <1>1
<1>3. \A i \in DOMAIN new : From(i) \in DOMAIN old /\ new[i] = old[From(i)]
  <2>1. ASSUME NEW i \in DOMAIN new, i <= Len(w)
        PROVE  new[i] = w[i] /\ old[i] = w[i]
    BY <1>1, <1>2, <2>1
  <2>2. ASSUME NEW i \in DOMAIN new, ~(i <= Len(w))
        PROVE  new[i] = Tail(s)[i - Len(w)] /\ old[i + 1] = s[i + 1 - Len(w)]
               /\ Tail(s)[i - Len(w)] = s[i + 1 - Len(w)]
    BY <1>1, <1>2, <2>2
  <2>. QED BY <1>1, <1>2, <2>1, <2>2
<1>4. \A i, j \in DOMAIN new : i < j => From(i) < From(j)
  BY <1>1, <1>2
<1>. QED BY <1>3, <1>4 DEF Increasing, UpTo

LEMMA InitOrder == Init => Order
<1> SUFFICES ASSUME Init PROVE Order
  OBVIOUS
<1>1. \A c \in Clients : written[c] \o send[c] = <<>>
  BY DEF Init
<1>2. broadcast = <<>> /\ todo = {} /\ published = 0
  BY DEF Init
<1>3. <<>> \notin Message
  BY DEF Message
<1>. QED BY <1>1, <1>2, <1>3 DEF Init, Order, Dispatched, Increasing, UpTo, Beyond

\* Dispatch offers the current message to a client that has seen earlier ones only.
LEMMA OfferOrder ==
  ASSUME IInv, Order, NEW c \in Clients, RunOffer(c)
  PROVE  Order'
<1>1. current \in Message /\ current' = current /\ Dispatched = current.id /\ Dispatched' = Dispatched
  BY DEF IInv, TypeOK, RunOffer, Dispatched
<1>2. UNCHANGED <<broadcast, published, written>> /\ todo' = todo \ {c}
  BY DEF RunOffer
<1>3. \A b \in Clients \ {c} : send'[b] = send[b]
  BY DEF IInv, TypeOK, RunOffer
<1>4. send'[c] = send[c] \/ send'[c] = Append(send[c], current)
  BY DEF IInv, TypeOK, RunOffer
<1>5. UpTo(written[c] \o send[c], current.id - 1) /\ Increasing(written[c] \o send[c])
  BY <1>1 DEF RunOffer, Order
<1>6. written[c] \o Append(send[c], current) = Append(written[c] \o send[c], current)
  BY <1>1, AppendWaiting DEF IInv, TypeOK
<1>7. written[c] \o send[c] \in Seq(Message)
  BY DEF IInv, TypeOK
<1>8. /\ Increasing(Append(written[c] \o send[c], current))
      /\ UpTo(Append(written[c] \o send[c], current), current.id)
  BY <1>1, <1>5, <1>7, LaterMessage
<1>9. Increasing(written'[c] \o send'[c]) /\ UpTo(written'[c] \o send'[c], Dispatched')
  BY <1>1, <1>2, <1>4, <1>6, <1>8 DEF Order
<1>10. \A b \in Clients \ {c} : written'[b] \o send'[b] = written[b] \o send[b]
  BY <1>2, <1>3
<1>11. \A b \in Clients : Increasing(written'[b] \o send'[b]) /\ UpTo(written'[b] \o send'[b], Dispatched')
  BY <1>1, <1>9, <1>10 DEF Order
<1>12. \A b \in todo' : UpTo(written'[b] \o send'[b], Dispatched' - 1)
  BY <1>1, <1>2, <1>10 DEF Order, IInv, TypeOK
<1>. QED BY <1>1, <1>2, <1>11, <1>12 DEF Order

\* Dispatch takes the oldest message of the channel.
LEMMA TakeOrder ==
  ASSUME IInv, Order, RunTake
  PROVE  Order'
<1>1. /\ broadcast \in Seq(Message) /\ broadcast # <<>> /\ broadcast' = Tail(broadcast)
      /\ UNCHANGED <<published, written, send>> /\ published \in Nat /\ todo = {}
  BY HubAssumption DEF IInv, TypeOK, RunTake, AtSelect, clientVars
<1>2. Head(broadcast) \in Message /\ Head(broadcast).id \in Nat
  <2>1. Head(broadcast) = broadcast[1] /\ 1 \in DOMAIN broadcast
    BY <1>1
  <2>. QED BY <1>1, <2>1, Numbers
<1>3. /\ Increasing(Tail(broadcast)) /\ UpTo(Tail(broadcast), published)
      /\ Beyond(Tail(broadcast), Head(broadcast).id) /\ Head(broadcast).id <= published
      /\ Beyond(Tail(broadcast), Dispatched) /\ Head(broadcast).id > Dispatched
  BY <1>1, TakeHead DEF Order
<1>4. CASE UNCHANGED <<current, todo>>
  BY <1>1, <1>3, <1>4 DEF Order, Dispatched
<1>5. CASE current' = Head(broadcast) /\ todo' = clients
  <2>1. Dispatched' = Head(broadcast).id /\ Dispatched \in Nat
    BY <1>2, <1>5 DEF Dispatched, Message
  <2>2. ASSUME NEW c \in Clients
        PROVE  UpTo(written[c] \o send[c], Dispatched' - 1)
    <3>1. written[c] \o send[c] \in Seq(Message) /\ UpTo(written[c] \o send[c], Dispatched)
      BY DEF IInv, TypeOK, Order
    <3>2. \A i \in DOMAIN (written[c] \o send[c]) : (written[c] \o send[c])[i].id \in Nat
      BY <3>1, Numbers
    <3>3. \A i \in DOMAIN (written[c] \o send[c]) :
             (written[c] \o send[c])[i].id <= Dispatched
      BY <3>1 DEF UpTo
    <3>4. \A k \in Nat : k <= Dispatched => k <= Dispatched' - 1
      BY <1>2, <1>3, <2>1
    <3>. QED BY <3>2, <3>3, <3>4 DEF UpTo
  <2>3. ASSUME NEW c \in Clients
        PROVE  UpTo(written[c] \o send[c], Dispatched')
    <3>1. written[c] \o send[c] \in Seq(Message)
      BY DEF IInv, TypeOK
    <3>2. \A i \in DOMAIN (written[c] \o send[c]) : (written[c] \o send[c])[i].id \in Nat
      BY <3>1, Numbers
    <3>3. \A k \in Nat : k <= Dispatched' - 1 => k <= Dispatched'
      BY <1>2, <2>1
    <3>. QED BY <2>2, <3>2, <3>3 DEF UpTo
  <2>. QED BY <1>1, <1>3, <1>5, <2>1, <2>2, <2>3 DEF Order, IInv, TypeOK
<1>. QED BY <1>4, <1>5 DEF RunTake

\* A write moves the head of what waits to what was written, or loses it.
LEMMA WriteOrder ==
  ASSUME IInv, Order, NEW c \in Clients, Write(c)
  PROVE  Order'
<1>1. /\ UNCHANGED <<broadcast, current, todo, published>> /\ send[c] # <<>>
      /\ \A b \in Clients \ {c} : send'[b] = send[b] /\ written'[b] = written[b]
      /\ send'[c] = Tail(send[c])
      /\ written'[c] \in {written[c], Append(written[c], Head(send[c]))}
  BY DEF Write, WriterReturns, IInv, TypeOK, hubVars
<1>2. Dispatched' = Dispatched
  BY <1>1 DEF Dispatched
<1>3. Increasing(written[c] \o send[c])
  BY DEF Order
<1>4. CASE written'[c] = written[c]
  <2>1. /\ Increasing(written'[c] \o send'[c])
        /\ \A n : UpTo(written[c] \o send[c], n) => UpTo(written'[c] \o send'[c], n)
    BY <1>1, <1>3, <1>4, LoseHead DEF IInv, TypeOK
  <2>2. \A b \in Clients : \A n : UpTo(written[b] \o send[b], n) => UpTo(written'[b] \o send'[b], n)
    BY <1>1, <2>1
  <2>3. \A b \in Clients : Increasing(written'[b] \o send'[b])
    BY <1>1, <2>1 DEF Order
  <2>. QED BY <1>1, <1>2, <2>2, <2>3 DEF Order, IInv, TypeOK
<1>5. CASE written'[c] = Append(written[c], Head(send[c]))
  <2>1. written'[c] \o send'[c] = written[c] \o send[c]
    BY <1>1, <1>5, MoveHead DEF IInv, TypeOK
  <2>2. \A b \in Clients : written'[b] \o send'[b] = written[b] \o send[b]
    BY <1>1, <2>1
  <2>. QED BY <1>1, <1>2, <2>2 DEF Order, IInv, TypeOK
<1>. QED BY <1>1, <1>4, <1>5

\* Broadcast numbers a message after all earlier ones.
LEMMA BroadcastOrder ==
  ASSUME IInv, Order, NEW t \in Topics, Broadcast(t)
  PROVE  Order'
<1>. DEFINE m == [id |-> published + 1, topic |-> t]
<1>1. UNCHANGED <<current, todo, written, send>> /\ published' = published + 1 /\ published \in Nat
  BY HubAssumption DEF Broadcast, IInv, TypeOK, clientVars
<1>2. Dispatched' = Dispatched /\ Dispatched \in Nat
  BY <1>1 DEF Dispatched, Message
<1>3. m \in Message /\ m.id = published + 1
  BY <1>1, HubAssumption DEF Message, Broadcast
<1>4. broadcast \in Seq(Message) /\ broadcast' \in {broadcast, Append(broadcast, m)}
  BY DEF Broadcast, IInv, TypeOK
<1>5. Increasing(Append(broadcast, m)) /\ UpTo(Append(broadcast, m), published + 1)
  BY <1>1, <1>3, <1>4, LaterMessage DEF Order
<1>6. \A i \in DOMAIN broadcast : broadcast[i].id \in Nat
  BY <1>4, Numbers
<1>7. UpTo(broadcast, published + 1)
  BY <1>1, <1>6 DEF UpTo, Order
<1>8. Beyond(Append(broadcast, m), Dispatched)
  <2>1. \A i \in DOMAIN Append(broadcast, m) :
           Append(broadcast, m)[i] = IF i = Len(broadcast) + 1 THEN m ELSE broadcast[i]
    BY <1>4
  <2>2. \A i \in DOMAIN Append(broadcast, m) : i # Len(broadcast) + 1 => i \in DOMAIN broadcast
    BY <1>4
  <2>. QED BY <1>1, <1>2, <1>3, <2>1, <2>2 DEF Beyond, Order
<1>9. /\ Increasing(broadcast') /\ Beyond(broadcast', Dispatched')
      /\ UpTo(broadcast', published') /\ Dispatched' <= published'
  <2>1. Dispatched <= published + 1
    BY <1>1, <1>2 DEF Order
  <2>2. Increasing(broadcast) /\ Beyond(broadcast, Dispatched)
    BY DEF Order
  <2>. QED BY <1>1, <1>2, <1>4, <1>5, <1>7, <1>8, <2>1, <2>2
<1>. QED BY <1>1, <1>2, <1>9 DEF Order

\* No other step touches a message.
LEMMA NextOrder == IInv /\ Order /\ [Next]_vars => Order'
<1> SUFFICES ASSUME IInv, Order, [Next]_vars PROVE Order'
  OBVIOUS
<1>1. ASSUME UNCHANGED <<broadcast, current, todo, published, written, send>>
      PROVE  Order'
  BY <1>1 DEF Order, Dispatched
<1>2. ASSUME NEW c \in Clients,
             \/ Upgrade(c) \/ StartPumps(c) \/ RunRegister(c)
             \/ RunUnregisterReader(c) \/ RunUnregisterKick(c)
             \/ ReadError(c) \/ ReaderClose(c) \/ WriteClose(c) \/ PingError(c) \/ Break(c)
      PROVE  Order'
  BY <1>1, <1>2 DEF Upgrade, StartPumps, RunRegister, RunUnregisterReader, RunUnregisterKick,
     ReadError, ReaderClose, WriteClose, PingError, Break, hubVars
<1>3. ASSUME NEW c \in Clients, NEW t \in Topics, Subscribe(c, t) \/ Unsubscribe(c, t)
      PROVE  Order'
  BY <1>1, <1>3 DEF Subscribe, Unsubscribe, hubVars
<1>4. CASE Finished \/ UNCHANGED vars
  BY <1>1, <1>4 DEF Finished, vars, hubVars, clientVars
<1>. QED BY <1>2, <1>3, <1>4, OfferOrder, TakeOrder, WriteOrder, BroadcastOrder DEF Next

\* Every client gets its messages in the order Broadcast accepted them, whatever
\* full buffers and failed writes drop on the way.
THEOREM HubKeepsOrder == Spec => []InOrder
<1>1. Order => InOrder
  BY DEF Order, InOrder, Increasing
<1>. QED BY <1>1, InitOrder, NextOrder, HubInvariant, PTL DEF Spec

=============================================================================
