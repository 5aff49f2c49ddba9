-------------------------------- MODULE Hub --------------------------------
(***************************************************************************)
(* The WebSocket hub of the Go core (internal/websocket/hub.go).           *)
(*                                                                         *)
(* One goroutine (Hub.Run) owns the set of registered clients; for every   *)
(* connection a handler goroutine (HandleWS) registers a Client and starts *)
(* its readPump and writePump; a client whose send buffer is full when a   *)
(* message is dispatched is removed by a goroutine of its own ("kick").    *)
(* They meet on four channels: register and unregister (unbuffered),       *)
(* broadcast (BroadcastCap slots) and one send channel per client (SendCap *)
(* slots; the message a blocked write holds counts as one of them).        *)
(*                                                                         *)
(* A Client value is one connection: it registers once and is never        *)
(* reused.  Messages are numbered in the order Broadcast is called.        *)
(***************************************************************************)
EXTENDS Naturals, Sequences, FiniteSets

CONSTANTS
  Clients,       \* connections that may be made
  Topics,        \* topics a message can carry or a client can follow
  Parent,        \* Parent[t]: the part of t before its ':' (t itself if none)
  SendCap,       \* capacity of a client's send channel (256 in the code)
  BroadcastCap,  \* capacity of the broadcast channel (256 in the code)
  MaxMsgs        \* bound: how many times Broadcast is called

ASSUME HubAssumption ==
  /\ Parent \in [Topics -> Topics]
  /\ SendCap \in Nat \ {0}
  /\ BroadcastCap \in Nat \ {0}
  /\ MaxMsgs \in Nat

VARIABLES
  clients,    \* Hub.clients
  broadcast,  \* contents of Hub.broadcast
  current,    \* the message Run is dispatching (or dispatched last)
  todo,       \* clients that dispatch has still to visit; Run is at its
              \* select exactly when todo is empty
  panicked,   \* a send on a closed channel, or a second close, has happened
  published,  \* calls to Broadcast so far
  handler,    \* HandleWS goroutine of each client
  reader,     \* readPump goroutine of each client
  writer,     \* writePump goroutine of each client
  kicks,      \* goroutines blocked on h.unregister <- c after a full buffer
  conn,       \* the network connection
  topics,     \* Client.topics
  send,       \* contents of Client.send
  closed,     \* Client.send has been closed
  written,    \* history: messages written to the connection
  offered     \* history: messages dispatched while c was subscribed

hubVars    == <<clients, broadcast, current, todo, panicked, published>>
clientVars == <<handler, reader, writer, kicks, conn, topics, send, closed,
                written, offered>>
vars       == <<hubVars, clientVars>>

Message == [id : 1..MaxMsgs, topic : Topics]

-----------------------------------------------------------------------------
Init ==
  /\ clients = {}
  /\ broadcast = <<>>
  /\ current = <<>>
  /\ todo = {}
  /\ panicked = FALSE
  /\ published = 0
  /\ handler = [c \in Clients |-> "start"]
  /\ reader = [c \in Clients |-> "none"]
  /\ writer = [c \in Clients |-> "none"]
  /\ kicks = [c \in Clients |-> 0]
  /\ conn = [c \in Clients |-> "none"]
  /\ topics = [c \in Clients |-> {}]
  /\ send = [c \in Clients |-> <<>>]
  /\ closed = [c \in Clients |-> FALSE]
  /\ written = [c \in Clients |-> <<>>]
  /\ offered = [c \in Clients |-> <<>>]

-----------------------------------------------------------------------------
(* HandleWS: upgrade the request, hand the new client to Run, start pumps. *)

Upgrade(c) ==
  /\ handler[c] = "start"
  /\ handler' = [handler EXCEPT ![c] = "registering"]
  /\ conn' = [conn EXCEPT ![c] = "open"]
  /\ UNCHANGED <<hubVars, reader, writer, kicks, topics, send, closed,
                 written, offered>>

StartPumps(c) ==
  /\ handler[c] = "registered"
  /\ handler' = [handler EXCEPT ![c] = "served"]
  /\ reader' = [reader EXCEPT ![c] = "reading"]
  /\ writer' = [writer EXCEPT ![c] = "running"]
  /\ UNCHANGED <<hubVars, kicks, conn, topics, send, closed, written, offered>>

-----------------------------------------------------------------------------
(* Broadcast: a full channel drops the message, the caller never blocks.   *)

Broadcast(t) ==
  /\ published < MaxMsgs
  /\ published' = published + 1
  /\ broadcast' = IF Len(broadcast) < BroadcastCap
                    THEN Append(broadcast, [id |-> published + 1, topic |-> t])
                    ELSE broadcast
  /\ UNCHANGED <<clients, current, todo, panicked, clientVars>>

-----------------------------------------------------------------------------
(* Run: one case of its select, or one iteration of the dispatch loop.     *)

AtSelect == todo = {} /\ ~panicked

RunRegister(c) ==
  /\ AtSelect
  /\ handler[c] = "registering"
  /\ handler' = [handler EXCEPT ![c] = "registered"]
  /\ clients' = clients \cup {c}
  /\ UNCHANGED <<broadcast, current, todo, panicked, published, reader, writer,
                 kicks, conn, topics, send, closed, written, offered>>

\* Faulty variant, for testing the properties: no test of membership.
RemoveUnguarded(c) ==
  /\ clients' = clients \ {c}
  /\ closed' = [closed EXCEPT ![c] = TRUE]
  /\ panicked' = closed[c]

\* The unregister case: only a client still in the map is removed and closed.
Remove(c) ==
  IF c \in clients
    THEN /\ clients' = clients \ {c}
         /\ closed' = [closed EXCEPT ![c] = TRUE]
         /\ panicked' = closed[c]
    ELSE UNCHANGED <<clients, closed, panicked>>

RunUnregisterReader(c) ==
  /\ AtSelect
  /\ reader[c] = "leaving"
  /\ reader' = [reader EXCEPT ![c] = "closing"]
  /\ Remove(c)
  /\ UNCHANGED <<broadcast, current, todo, published, handler, writer, kicks,
                 conn, topics, send, written, offered>>

RunUnregisterKick(c) ==
  /\ AtSelect
  /\ kicks[c] > 0
  /\ kicks' = [kicks EXCEPT ![c] = @ - 1]
  /\ Remove(c)
  /\ UNCHANGED <<broadcast, current, todo, published, handler, reader, writer,
                 conn, topics, send, written, offered>>

\* Faulty variant, for testing the properties: the message stays in the channel.
RunTakeAgain ==
  /\ AtSelect
  /\ broadcast # <<>>
  /\ current' = Head(broadcast)
  /\ todo' = clients
  /\ UNCHANGED <<broadcast, clients, panicked, published, clientVars>>

\* The broadcast case; a message json.Marshal rejects is dropped here.
RunTake ==
  /\ AtSelect
  /\ broadcast # <<>>
  /\ broadcast' = Tail(broadcast)
  /\ \/ /\ current' = Head(broadcast)
        /\ todo' = clients
     \/ UNCHANGED <<current, todo>>
  /\ UNCHANGED <<clients, panicked, published, clientVars>>

IsSubscribed(c, t) == t \in topics[c] \/ Parent[t] \in topics[c]

\* Faulty variant, for testing the properties: a full buffer only drops the message.
RunOfferDrops(c) ==
  /\ ~panicked
  /\ c \in todo
  /\ todo' = todo \ {c}
  /\ IF IsSubscribed(c, current.topic)
       THEN /\ offered' = [offered EXCEPT ![c] = Append(@, current)]
            /\ panicked' = closed[c]
            /\ send' = IF Len(send[c]) < SendCap
                         THEN [send EXCEPT ![c] = Append(@, current)]
                         ELSE send
       ELSE UNCHANGED <<offered, panicked, send>>
  /\ UNCHANGED <<clients, broadcast, current, published, handler, reader, kicks,
                 writer, conn, topics, closed, written>>

\* Offer the current message to one client: skip, enqueue, or start a kick.
RunOffer(c) ==
  /\ ~panicked
  /\ c \in todo
  /\ todo' = todo \ {c}
  /\ IF IsSubscribed(c, current.topic)
       THEN /\ offered' = [offered EXCEPT ![c] = Append(@, current)]
            /\ panicked' = closed[c]
            /\ IF closed[c]
                 THEN UNCHANGED <<send, kicks>>
                 ELSE IF Len(send[c]) < SendCap
                   THEN /\ send' = [send EXCEPT ![c] = Append(@, current)]
                        /\ UNCHANGED kicks
                   ELSE /\ kicks' = [kicks EXCEPT ![c] = @ + 1]
                        /\ UNCHANGED send
       ELSE UNCHANGED <<offered, panicked, send, kicks>>
  /\ UNCHANGED <<clients, broadcast, current, published, handler, reader,
                 writer, conn, topics, closed, written>>

-----------------------------------------------------------------------------
(* readPump.                                                               *)

Subscribe(c, t) ==
  /\ reader[c] = "reading"
  /\ conn[c] # "closed"
  /\ topics' = [topics EXCEPT ![c] = @ \cup {t}]
  /\ UNCHANGED <<hubVars, handler, reader, writer, kicks, conn, send, closed,
                 written, offered>>

Unsubscribe(c, t) ==
  /\ reader[c] = "reading"
  /\ conn[c] # "closed"
  /\ topics' = [topics EXCEPT ![c] = @ \ {t}]
  /\ UNCHANGED <<hubVars, handler, reader, writer, kicks, conn, send, closed,
                 written, offered>>

\* Faulty variant, for testing the properties: readPump returns without unregistering.
ReadErrorForgets(c) ==
  /\ reader[c] = "reading"
  /\ reader' = [reader EXCEPT ![c] = "closing"]
  /\ UNCHANGED <<hubVars, handler, writer, kicks, conn, topics, send, closed,
                 written, offered>>

\* ReadMessage fails: the connection is gone, or the peer closed it, sent an
\* oversized frame, or let the pong deadline pass.
ReadError(c) ==
  /\ reader[c] = "reading"
  /\ reader' = [reader EXCEPT ![c] = "leaving"]
  /\ UNCHANGED <<hubVars, handler, writer, kicks, conn, topics, send, closed,
                 written, offered>>

\* The deferred conn.Close, after the unregister has been received.
ReaderClose(c) ==
  /\ reader[c] = "closing"
  /\ reader' = [reader EXCEPT ![c] = "done"]
  /\ conn' = [conn EXCEPT ![c] = "closed"]
  /\ UNCHANGED <<hubVars, handler, writer, kicks, topics, send, closed,
                 written, offered>>

-----------------------------------------------------------------------------
(* writePump: the deferred conn.Close is part of every step that returns.  *)

WriterReturns(c) ==
  /\ writer' = [writer EXCEPT ![c] = "done"]
  /\ conn' = [conn EXCEPT ![c] = "closed"]

Write(c) ==
  /\ writer[c] = "running"
  /\ send[c] # <<>>
  /\ send' = [send EXCEPT ![c] = Tail(@)]
  /\ \/ /\ conn[c] = "open"
        /\ written' = [written EXCEPT ![c] = Append(@, Head(send[c]))]
        /\ UNCHANGED <<writer, conn>>
     \/ /\ WriterReturns(c)          \* write error or writeWait exceeded
        /\ UNCHANGED written
  /\ UNCHANGED <<hubVars, handler, reader, kicks, topics, closed, offered>>

\* The send channel is closed and drained: write a Close frame and return.
WriteClose(c) ==
  /\ writer[c] = "running"
  /\ closed[c]
  /\ send[c] = <<>>
  /\ WriterReturns(c)
  /\ UNCHANGED <<hubVars, handler, reader, kicks, topics, send, closed,
                 written, offered>>

\* The ping of the ticker fails because the connection is gone.
PingError(c) ==
  /\ writer[c] = "running"
  /\ conn[c] # "open"
  /\ WriterReturns(c)
  /\ UNCHANGED <<hubVars, handler, reader, kicks, topics, send, closed,
                 written, offered>>

-----------------------------------------------------------------------------
(* The network: a connection may break at any time.                        *)

Break(c) ==
  /\ conn[c] = "open"
  /\ conn' = [conn EXCEPT ![c] = "broken"]
  /\ UNCHANGED <<hubVars, handler, reader, writer, kicks, topics, send, closed,
                 written, offered>>

Gone(c) == /\ c \notin clients
           /\ reader[c] = "done"
           /\ writer[c] = "done"
           /\ kicks[c] = 0

\* Every bounded input is used up and every goroutine has returned.
Finished ==
  /\ \A c \in Clients : Gone(c)
  /\ published = MaxMsgs
  /\ broadcast = <<>>
  /\ UNCHANGED vars

-----------------------------------------------------------------------------
Next ==
  \/ \E c \in Clients :
       \/ Upgrade(c) \/ StartPumps(c)
       \/ RunRegister(c) \/ RunUnregisterReader(c) \/ RunUnregisterKick(c)
       \/ RunOffer(c)
       \/ ReadError(c) \/ ReaderClose(c)
       \/ Write(c) \/ WriteClose(c) \/ PingError(c)
       \/ Break(c)
  \/ \E c \in Clients, t \in Topics : Subscribe(c, t) \/ Unsubscribe(c, t)
  \/ \E t \in Topics : Broadcast(t)
  \/ RunTake
  \/ Finished

\* Goroutines keep running; Go's select picks at random among the channels
\* that are ready, so Run starves none of the senders blocked on it; reads and
\* writes end because both carry deadlines; peers owe nothing.
Fairness ==
  /\ WF_vars(RunTake)
  /\ \A c \in Clients :
       /\ WF_vars(StartPumps(c))
       /\ SF_vars(RunRegister(c))
       /\ SF_vars(RunUnregisterReader(c))
       /\ SF_vars(RunUnregisterKick(c))
       /\ WF_vars(RunOffer(c))
       /\ WF_vars(conn[c] # "open" /\ ReadError(c))
       /\ WF_vars(ReaderClose(c))
       /\ WF_vars(Write(c))
       /\ WF_vars(WriteClose(c))
       /\ WF_vars(PingError(c))

Spec == Init /\ [][Next]_vars
FairSpec == Spec /\ Fairness

-----------------------------------------------------------------------------
TypeOK ==
  /\ clients \subseteq Clients
  /\ broadcast \in Seq(Message)
  /\ current \in Message \cup {<<>>}
  /\ todo \subseteq Clients
  /\ todo # {} => current \in Message
  /\ panicked \in BOOLEAN
  /\ published \in 0..MaxMsgs
  /\ handler \in [Clients -> {"start", "registering", "registered", "served"}]
  /\ reader \in [Clients -> {"none", "reading", "leaving", "closing", "done"}]
  /\ writer \in [Clients -> {"none", "running", "done"}]
  /\ kicks \in [Clients -> Nat]
  /\ conn \in [Clients -> {"none", "open", "broken", "closed"}]
  /\ topics \in [Clients -> SUBSET Topics]
  /\ send \in [Clients -> Seq(Message)]
  /\ closed \in [Clients -> BOOLEAN]
  /\ written \in [Clients -> Seq(Message)]
  /\ offered \in [Clients -> Seq(Message)]

\* The hub goroutine never panics: whatever the order in which a client's own
\* readPump and any number of kicks unregister it, its send channel is closed
\* at most once and nothing is sent on it afterwards (a panic in Run would
\* take the whole server down).
NoPanic == ~panicked

\* A client that is registered, connected and not about to be removed has
\* missed nothing: what it was written, followed by what waits in its send
\* channel, is every message dispatched to it, in dispatch order.  The hub
\* may lose messages of a slow client only by giving that client up.
CompleteUntilDropped ==
  \A c \in clients :
    conn[c] = "open" /\ kicks[c] = 0 => written[c] \o send[c] = offered[c]

\* Messages reach a client in the order Broadcast accepted them, whatever was
\* dropped on the way.
InOrder ==
  \A c \in Clients :
    LET s == written[c] \o send[c]
    IN  \A i, j \in DOMAIN s : i < j => s[i].id < s[j].id

\* A connection that breaks or is closed, or whose client is too slow for its buffer,
\* leaves nothing behind: the client leaves the map, its channel is closed, both pumps
\* return and no kick stays blocked on unregister.
LostIsCleanedUp ==
  \A c \in Clients :
    conn[c] \in {"broken", "closed"} \/ kicks[c] > 0 ~> Gone(c)
=============================================================================
