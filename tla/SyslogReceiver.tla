--------------------------- MODULE SyslogReceiver ---------------------------
(***************************************************************************)
(* The syslog receiver of the Go core (internal/syslog/receiver.go) and    *)
(* the part of main that stops it (cmd/server/main.go).                    *)
(*                                                                         *)
(* Three goroutines share the receiver: the loop of Start reads datagrams  *)
(* and offers entries to a bounded channel, the writer stores them, and    *)
(* main cancels their context and calls Stop when a signal arrives.  Stop  *)
(* closes the socket and sets the field r.conn to nil; nothing orders its  *)
(* two steps with the loop, which reads r.conn afresh whenever it uses it. *)
(* A method call on the nil pointer panics and ends the process.           *)
(*                                                                         *)
(* Datagrams are numbered in the order they are read.                      *)
(***************************************************************************)
EXTENDS Naturals, Sequences

CONSTANTS
  Cap,           \* capacity of the entry channel (1024 in the code)
  MaxDatagrams,  \* bound: datagrams read
  MaxFaults      \* bound: inserts that fail while the receiver is up

ASSUME SyslogReceiverAssumption ==
  /\ Cap \in Nat \ {0}
  /\ {MaxDatagrams, MaxFaults} \subseteq Nat

VARIABLES
  main,       \* the next step of main
  cancelled,  \* the context of the receiver is cancelled
  conn,       \* the field r.conn: "nil" or "set"
  socket,     \* the UDP socket: "none", "open" or "closed"
  loop,       \* the next step of Start
  received,   \* datagrams read so far; the last one is in the loop's hands
  entryCh,    \* contents of the entry channel
  chClosed,   \* the entry channel is closed
  writer,     \* the next step of the writer
  holding,    \* the entry it is storing (0: none)
  rows,       \* entries stored in syslog_entries, in order
  panicked,   \* the process died of a nil pointer
  accepted,   \* history: entries the channel took, in order
  lost,       \* history: entries whose insert failed
  faults      \* counter of the bound

loopVars   == <<loop, received>>
writerVars == <<writer, holding, rows, lost, faults>>
vars       == <<main, cancelled, conn, socket, loopVars, entryCh, chClosed,
                writerVars, panicked, accepted>>

\* Until the process is gone.
Running == main # "exited" /\ ~panicked

-----------------------------------------------------------------------------
Init ==
  /\ main = "up"
  /\ cancelled = FALSE
  /\ conn = "nil"
  /\ socket = "none"
  /\ loop = "start"
  /\ received = 0
  /\ entryCh = <<>>
  /\ chClosed = FALSE
  /\ writer = "none"
  /\ holding = 0
  /\ rows = <<>>
  /\ panicked = FALSE
  /\ accepted = <<>>
  /\ lost = {}
  /\ faults = 0

-----------------------------------------------------------------------------
(* Start.                                                                  *)

LoopStep(from) == Running /\ loop = from

\* The socket is open, the writer starts.
Listen ==
  /\ LoopStep("start")
  /\ conn' = "set"
  /\ socket' = "open"
  /\ writer' = "select"
  /\ loop' = "check"
  /\ UNCHANGED <<main, cancelled, received, entryCh, chClosed, holding, rows,
                 lost, faults, panicked, accepted>>

\* The address is in use: Start returns an error that main only logs.
ListenFails ==
  /\ LoopStep("start")
  /\ loop' = "done"
  /\ UNCHANGED <<main, cancelled, conn, socket, received, entryCh, chClosed,
                 writerVars, panicked, accepted>>

CheckContext ==
  /\ LoopStep("check")
  /\ loop' = IF cancelled THEN "return" ELSE "deadline"
  /\ UNCHANGED <<main, cancelled, conn, socket, received, entryCh, chClosed,
                 writerVars, panicked, accepted>>

\* A use of r.conn by the loop, on the way from one step to another.
Use(from, to) ==
  /\ LoopStep(from)
  /\ IF conn = "nil"
       THEN panicked' = TRUE /\ UNCHANGED loop
       ELSE loop' = to /\ UNCHANGED panicked

SetReadDeadline ==
  /\ Use("deadline", "read")
  /\ UNCHANGED <<main, cancelled, conn, socket, received, entryCh, chClosed,
                 writerVars, accepted>>

BeginRead ==
  /\ Use("read", "reading")
  /\ UNCHANGED <<main, cancelled, conn, socket, received, entryCh, chClosed,
                 writerVars, accepted>>

\* A datagram that does not parse is logged and forgotten.
ReadDatagram ==
  /\ LoopStep("reading")
  /\ socket = "open"
  /\ received < MaxDatagrams
  /\ received' = received + 1
  /\ loop' \in {"resolve", "check"}
  /\ UNCHANGED <<main, cancelled, conn, socket, entryCh, chClosed, writerVars,
                 panicked, accepted>>

ReadTimeout ==
  /\ LoopStep("reading")
  /\ socket = "open"
  /\ loop' = "check"
  /\ UNCHANGED <<main, cancelled, conn, socket, received, entryCh, chClosed,
                 writerVars, panicked, accepted>>

ReadOnClosed ==
  /\ LoopStep("reading")
  /\ socket = "closed"
  /\ loop' = "failed"
  /\ UNCHANGED <<main, cancelled, conn, socket, received, entryCh, chClosed,
                 writerVars, panicked, accepted>>

\* After a read error: with r.conn gone Start returns, else it tries again.
AfterReadError ==
  /\ LoopStep("failed")
  /\ IF conn = "nil"
       THEN loop' = "done" /\ chClosed' = TRUE
       ELSE loop' = "check" /\ UNCHANGED chClosed
  /\ UNCHANGED <<main, cancelled, conn, socket, received, entryCh, writerVars,
                 panicked, accepted>>

\* The lookup of the sender's asset: up to two seconds, whatever its outcome.
ResolveAsset ==
  /\ LoopStep("resolve")
  /\ loop' = "offer"
  /\ UNCHANGED <<main, cancelled, conn, socket, received, entryCh, chClosed,
                 writerVars, panicked, accepted>>

\* Faulty variant, for testing the properties: a full channel drops its oldest entry.
OfferDropsOldest ==
  /\ LoopStep("offer")
  /\ loop' = "check"
  /\ entryCh' = Append(IF Len(entryCh) < Cap THEN entryCh ELSE Tail(entryCh), received)
  /\ accepted' = Append(accepted, received)
  /\ UNCHANGED <<main, cancelled, conn, socket, received, chClosed, writerVars,
                 panicked>>

\* A full channel drops the entry.
Offer ==
  /\ LoopStep("offer")
  /\ loop' = "check"
  /\ IF Len(entryCh) < Cap
       THEN /\ entryCh' = Append(entryCh, received)
            /\ accepted' = Append(accepted, received)
       ELSE UNCHANGED <<entryCh, accepted>>
  /\ UNCHANGED <<main, cancelled, conn, socket, received, chClosed, writerVars,
                 panicked>>

\* The context is cancelled: close the socket and return.
ReturnClosing ==
  /\ Use("return", "done")
  /\ IF conn = "nil"
       THEN UNCHANGED <<socket, chClosed>>
       ELSE socket' = "closed" /\ chClosed' = TRUE
  /\ UNCHANGED <<main, cancelled, conn, received, entryCh, writerVars, accepted>>

-----------------------------------------------------------------------------
(* The writer.                                                             *)

\* Its select picks at random among an entry, a cancelled context and a closed
\* channel.  With a cancelled context the insert fails at once.
TakeEntry ==
  /\ Running
  /\ writer = "select"
  /\ entryCh # <<>>
  /\ entryCh' = Tail(entryCh)
  /\ IF cancelled
       THEN /\ lost' = lost \cup {Head(entryCh)}
            /\ UNCHANGED <<writer, holding>>
       ELSE /\ writer' = "writing"
            /\ holding' = Head(entryCh)
            /\ UNCHANGED lost
  /\ UNCHANGED <<main, cancelled, conn, socket, loopVars, chClosed, rows, faults,
                 panicked, accepted>>

Store ==
  /\ Running
  /\ writer = "writing"
  /\ rows' = Append(rows, holding)
  /\ writer' = "select"
  /\ holding' = 0
  /\ UNCHANGED <<main, cancelled, conn, socket, loopVars, entryCh, chClosed,
                 lost, faults, panicked, accepted>>

\* Faulty variant, for testing the properties: the entry is put back.
StoreFailsRetries ==
  /\ Running
  /\ writer = "writing"
  /\ faults < MaxFaults /\ faults' = faults + 1
  /\ entryCh' = Append(entryCh, holding)
  /\ writer' = "select"
  /\ holding' = 0
  /\ UNCHANGED <<main, cancelled, conn, socket, loopVars, chClosed, rows, lost,
                 panicked, accepted>>

\* Faulty variant, for testing the properties: the writer returns on an error.
StoreFailsReturns ==
  /\ Running
  /\ writer = "writing"
  /\ faults < MaxFaults /\ faults' = faults + 1
  /\ lost' = lost \cup {holding}
  /\ writer' = "done"
  /\ holding' = 0
  /\ UNCHANGED <<main, cancelled, conn, socket, loopVars, entryCh, chClosed, rows,
                 panicked, accepted>>

\* The insert fails or takes more than 5 s; so does one that is still going on
\* when the context is cancelled.  It is not tried again.
StoreFails ==
  /\ Running
  /\ writer = "writing"
  /\ \/ faults < MaxFaults /\ faults' = faults + 1
     \/ cancelled /\ UNCHANGED faults
  /\ lost' = lost \cup {holding}
  /\ writer' = "select"
  /\ holding' = 0
  /\ UNCHANGED <<main, cancelled, conn, socket, loopVars, entryCh, chClosed, rows,
                 panicked, accepted>>

\* It returns when it sees the context cancelled, or the channel closed and empty.
WriterReturns ==
  /\ Running
  /\ writer = "select"
  /\ cancelled \/ (chClosed /\ entryCh = <<>>)
  /\ writer' = "done"
  /\ UNCHANGED <<main, cancelled, conn, socket, loopVars, entryCh, chClosed,
                 holding, rows, lost, faults, panicked, accepted>>

-----------------------------------------------------------------------------
(* main, once a signal has arrived.                                        *)

MainStep(from, to) == Running /\ main = from /\ main' = to

Signal ==
  /\ MainStep("up", "cancel")
  /\ UNCHANGED <<cancelled, conn, socket, loopVars, entryCh, chClosed, writerVars,
                 panicked, accepted>>

\* Faulty variant, for testing the properties: Stop is called first.
CancelLate ==
  /\ MainStep("cancel", "stop")
  /\ UNCHANGED <<cancelled, conn, socket, loopVars, entryCh, chClosed, writerVars,
                 panicked, accepted>>

Cancel ==
  /\ MainStep("cancel", "stop")
  /\ cancelled' = TRUE
  /\ UNCHANGED <<conn, socket, loopVars, entryCh, chClosed, writerVars, panicked,
                 accepted>>

\* Stop: a receiver that does not listen has nothing to close.
StopTest ==
  /\ MainStep("stop", IF conn = "nil" THEN "shutdown" ELSE "close")
  /\ UNCHANGED <<cancelled, conn, socket, loopVars, entryCh, chClosed, writerVars,
                 panicked, accepted>>

StopClose ==
  /\ MainStep("close", "forget")
  /\ socket' = "closed"
  /\ UNCHANGED <<cancelled, conn, loopVars, entryCh, chClosed, writerVars,
                 panicked, accepted>>

StopForget ==
  /\ MainStep("forget", "shutdown")
  /\ conn' = "nil"
  /\ UNCHANGED <<cancelled, socket, loopVars, entryCh, chClosed, writerVars,
                 panicked, accepted>>

\* The server's Shutdown, which ends after at most 10 s, the pool's Close, which
\* waits for statements that are going on, and the end of the process.
Exit ==
  /\ MainStep("shutdown", "exited")
  /\ writer # "writing" /\ loop # "resolve"
  /\ UNCHANGED <<cancelled, conn, socket, loopVars, entryCh, chClosed, writerVars,
                 panicked, accepted>>

-----------------------------------------------------------------------------
Loop == \/ Listen \/ ListenFails \/ CheckContext \/ SetReadDeadline \/ BeginRead
        \/ ReadDatagram \/ ReadTimeout \/ ReadOnClosed \/ AfterReadError
        \/ ResolveAsset \/ Offer \/ ReturnClosing

Writer == TakeEntry \/ Store \/ StoreFails \/ WriterReturns

Main == Cancel \/ StopTest \/ StopClose \/ StopForget \/ Exit

Gone == ~Running /\ UNCHANGED vars

Next == Loop \/ Writer \/ Signal \/ Main \/ Gone

\* Every goroutine goes on: reads and statements have deadlines.
Fairness == WF_vars(Loop) /\ WF_vars(Writer) /\ WF_vars(Main)

Spec == Init /\ [][Next]_vars
FairSpec == Spec /\ Fairness

-----------------------------------------------------------------------------
TypeOK ==
  /\ main \in {"up", "cancel", "stop", "close", "forget", "shutdown", "exited"}
  /\ cancelled \in BOOLEAN
  /\ conn \in {"nil", "set"}
  /\ socket \in {"none", "open", "closed"}
  /\ loop \in {"start", "check", "deadline", "read", "reading", "failed",
               "resolve", "offer", "return", "done"}
  /\ received \in 0..MaxDatagrams
  /\ entryCh \in Seq(1..MaxDatagrams) /\ Len(entryCh) <= Cap
  /\ chClosed \in BOOLEAN
  /\ writer \in {"none", "select", "writing", "done"}
  /\ holding \in 0..MaxDatagrams
  /\ writer = "writing" <=> holding # 0
  /\ loop = "start" => writer = "none"
  /\ rows \in Seq(1..MaxDatagrams)
  /\ panicked \in BOOLEAN
  /\ accepted \in Seq(1..MaxDatagrams)
  /\ lost \subseteq 1..MaxDatagrams
  /\ faults \in 0..MaxFaults

\* As long as main has not cancelled the receiver and no insert has failed,
\* nothing the channel took is lost: the rows, the entry being stored and the
\* channel's contents are the accepted entries, in order.
AcceptedIsKept ==
  ~cancelled /\ lost = {} =>
    accepted = rows \o (IF holding = 0 THEN <<>> ELSE <<holding>>) \o entryCh

\* The loop can lose its connection under its feet only while main is stopping
\* it, and by then the context is cancelled.
PanicOnlyAtStop == panicked => cancelled /\ main \in {"shutdown", "exited"}

\* The rows are the datagrams received, less some, in their order: the receiver
\* implements the lossy log, whatever is dropped, fails or is cut off.
LogOf == INSTANCE LossyLog WITH arrived <- received, kept <- rows
KeepsOrder == LogOf!Spec

\* While the server is up, every entry the channel took is stored in the end,
\* unless its own insert fails; a failure stops nobody else's.
Stored(i) == \E k \in DOMAIN rows : rows[k] = i
AcceptedIsStored ==
  \A i \in 1..MaxDatagrams :
    (\E k \in DOMAIN accepted : accepted[k] = i)
      ~> (Stored(i) \/ i \in lost \/ main # "up")

\* "Graceful shutdown", and Start "blocks until ctx is cancelled or Stop is
\* called": the receiver ends without taking the process down.
StopsGracefully == ~panicked
=============================================================================
