--------------------------- MODULE SandboxMonitor ---------------------------
(***************************************************************************)
(* The monitor of a claw sandbox (SandboxMonitor with SandboxSocket): the  *)
(* parent's event loop that forwards the kernel's ASK events to the app    *)
(* over a Unix socket, writes the app's answers back to the device, rides  *)
(* out a lost connection, and reaps the sandboxed child.                   *)
(*                                                                         *)
(* The loop is one thread.  What runs beside it is the environment: the    *)
(* app sends requests, closes its end and listens again, the kernel raises *)
(* events, the device fails, the child exits.  One epoll_wait returns a    *)
(* snapshot of the ready descriptors (batch), which is stale by the time   *)
(* its later members are handled.  A handler is split at its system calls, *)
(* because the environment moves between them.                             *)
(*                                                                         *)
(* A message is its type, its identifier and the size of its body; bytes   *)
(* are abstracted to whether a message is still in the Tx buffer, entirely *)
(* or in part, or has been handed over to the kernel as a whole.           *)
(***************************************************************************)
EXTENDS Naturals, Sequences

CONSTANTS
  ReportSizes,    \* sizes of the body of an event report
  DetailSizes,    \* sizes of the body of a partial add-policy response
  MaxBody,        \* MAX_BODY_LENGTH
  MaxQueueBytes,  \* MAX_SOCKET_TX_QUEUE_BYTES
  MaxQueueCount,  \* MAX_SOCKET_TX_QUEUE_COUNT
  MaxPending,     \* MAX_PENDING_ANSWER_COUNT
  MaxAttempts,    \* MONITOR_RECONNECT_MAX_ATTEMPTS
  MaxEvents,      \* bound: events the kernel raises
  MaxRequests,    \* bound: requests the app sends
  MaxFaults       \* bound: closed connections and failing system calls

ASSUME SizeAssumption ==
  /\ ReportSizes \subseteq 1..MaxBody
  /\ DetailSizes \subseteq Nat
  /\ MaxBody \in Nat /\ MaxQueueBytes \in Nat
  /\ MaxBody <= MaxQueueBytes

ASSUME LimitAssumption ==
  /\ MaxQueueCount \in Nat \ {0} /\ MaxPending \in Nat \ {0}
  /\ MaxAttempts \in Nat \ {0}
  /\ MaxEvents \in Nat /\ MaxRequests \in Nat /\ MaxFaults \in Nat

VARIABLES
  pc,        \* where the loop is
  batch,     \* what epoll_wait returned and is not handled yet
  cur,       \* the event being handled
  state,     \* state_
  open,      \* socket_ is not null
  tx,        \* messages with bytes left in the Tx buffer, oldest first
  wr,        \* socketWriteEnabled_: EPOLLOUT is armed
  queue,     \* socketTxQueue_
  bytes,     \* socketTxBytes_
  pending,   \* pendingAnswers_
  attempts,  \* reconnectAttemptsLeft_
  device,    \* deviceFd_ is open
  peer,      \* the app's end of the connection: "up" or "gone"
  inbound,   \* requests the app wrote and the monitor has not read
  devq,      \* events in the device
  devFail,   \* the device has failed
  child,     \* "running", "zombie" or "reaped"
  events,    \* events raised so far
  requests,  \* requests sent so far
  faults,    \* faults so far
  sent,      \* history: messages handed over to the kernel as a whole
  answered   \* history: event ids whose answer the device accepted

loopVars == <<pc, batch, cur>>
tables == <<queue, bytes, pending>>
env == <<peer, inbound, devq, devFail, child, events, requests>>
hist == <<sent, answered>>
vars == <<pc, batch, cur, state, open, tx, wr, queue, bytes, pending, attempts,
          device, peer, inbound, devq, devFail, child, events, requests, faults,
          sent, answered>>

Message == [type : {"report", "response"}, id : Nat, size : Nat]
Request == [kind : {"answer", "policy", "refused", "garbage"}, id : Nat, event : Nat]
Wakeup == [src : {"none", "child", "sock", "dev"}, in : BOOLEAN, out : BOOLEAN,
           fail : BOOLEAN]
None == [src |-> "none", in |-> FALSE, out |-> FALSE, fail |-> FALSE]

-----------------------------------------------------------------------------
(* The two tables *)

(* The bytes of the first messages of a queue, and of all of them.             *)
Totals(q) ==
  LET total[i \in 0..Len(q)] == IF i = 0 THEN 0 ELSE total[i - 1] + q[i].size
  IN  total

BodyBytes(q) == Totals(q)[Len(q)]

(* PushSocketMessage: the oldest messages go until the new one fits both the  *)
(* count and the byte budget.  n messages are enough when:                    *)
Evicts(n, size) ==
  \/ n = Len(queue)
  \/ /\ Len(queue) - n < MaxQueueCount
     /\ bytes - BodyBytes(SubSeq(queue, 1, n)) + size <= MaxQueueBytes

PushedMutant(m) == [queue |-> Append(queue, m), bytes |-> bytes + m.size]
PushedFrontMutant(m) == [queue |-> <<m>> \o queue, bytes |-> bytes + m.size]
Pushed(m) ==
  IF m.size > MaxQueueBytes THEN [queue |-> queue, bytes |-> bytes]
  ELSE LET n == CHOOSE i \in 0..Len(queue) :
                  Evicts(i, m.size) /\ \A j \in 0..(i - 1) : ~ Evicts(j, m.size)
       IN  [queue |-> Append(SubSeq(queue, n + 1, Len(queue)), m),
            bytes |-> bytes - BodyBytes(SubSeq(queue, 1, n)) + m.size]

Push(m) == queue' = Pushed(m).queue /\ bytes' = Pushed(m).bytes

PushPendingAnswer(id) ==
  Append(IF Len(pending) >= MaxPending THEN Tail(pending) ELSE pending, id)

(* What sending m adds to the table of outstanding answers.                   *)
Awaited(m) == IF m.type = "report" THEN PushPendingAnswer(m.id) ELSE pending

-----------------------------------------------------------------------------
(* Channel state *)

(* The connection is closed from our side; what the app wrote and we did not  *)
(* read, and what is left in the Tx buffer, is gone.                          *)
CloseSocket ==
  /\ open' = FALSE
  /\ tx' = <<>>
  /\ wr' = FALSE
  /\ inbound' = <<>>

DiscardAllEvents == queue' = <<>> /\ bytes' = 0 /\ pending' = <<>>

DegradeMutant ==
  /\ CloseSocket
  /\ attempts' = 0
  /\ UNCHANGED tables
  /\ state' = "degraded"
Degrade ==
  /\ CloseSocket
  /\ attempts' = 0
  /\ DiscardAllEvents
  /\ state' = "degraded"

(* DropSocketChannel, with the queue the caller leaves behind.  There is a    *)
(* socket only when a path was configured (ConnectMonitorSocket), so the      *)
(* branch for an empty path is never taken.                                   *)
DropSocketChannel(q, b) ==
  /\ CloseSocket
  /\ queue' = q /\ bytes' = b
  /\ attempts' = MaxAttempts
  /\ state' = "reconnecting"
  /\ UNCHANGED pending

(* ApplyAction(MONITOR_ACTION_RECONNECT) at the end of the current event.     *)
Reconnecting(q, b) ==
  /\ DropSocketChannel(q, b)
  /\ pc' = "dispatch" /\ cur' = None
  /\ UNCHANGED <<batch, device>>

Fault == faults < MaxFaults /\ faults' = faults + 1

(* MONITOR_ACTION_STOP: the monitor's own plumbing broke.                     *)
Stop == pc' = "stopped" /\ batch' = {} /\ cur' = None

-----------------------------------------------------------------------------
(* The loop *)

(* CheckChildExit(WNOHANG) before the loop.                                   *)
RunStart ==
  /\ pc = "start"
  /\ \/ /\ child = "zombie"
        /\ child' = "reaped" /\ pc' = "stopped"
     \/ /\ pc' = "wait" /\ UNCHANGED child
  /\ UNCHANGED <<batch, cur, state, open, tx, wr, tables, attempts, device, peer,
                 inbound, devq, devFail, events, requests, faults, hist>>

(* What epoll_wait may report.  A closed peer shows as EPOLLIN and EPOLLRDHUP *)
(* together; a failed device by EPOLLERR or only by its read.                 *)
Ready ==
  LET sock(o) == [src |-> "sock", in |-> inbound # <<>> \/ peer = "gone",
                  out |-> wr /\ (o \/ peer = "gone"), fail |-> peer = "gone"]
      dev(f) == [src |-> "dev", in |-> TRUE, out |-> FALSE, fail |-> devFail /\ f]
      pid == [None EXCEPT !.src = "child", !.in = TRUE]
  IN  {B \in {(IF open /\ (sock(o).in \/ sock(o).out) THEN {sock(o)} ELSE {})
              \cup (IF device /\ (devq # <<>> \/ devFail) THEN {dev(f)} ELSE {})
              \cup (IF child = "zombie" THEN {pid} ELSE {}) :
                o \in BOOLEAN, f \in BOOLEAN} : B # {}}

EpollWait ==
  /\ pc = "wait"
  /\ batch' \in Ready
  /\ pc' = "dispatch"
  /\ UNCHANGED <<cur, state, open, tx, wr, tables, attempts, device, env, faults, hist>>

(* NextEpollTimeout: the wait ends by itself only while attempts are left.    *)
EpollTimeout ==
  /\ pc = "wait"
  /\ attempts > 0
  /\ pc' = "reconnect"
  /\ UNCHANGED <<batch, cur, state, open, tx, wr, tables, attempts, device, env,
                 faults, hist>>

EpollError ==
  /\ pc = "wait"
  /\ Fault
  /\ Stop
  /\ UNCHANGED <<state, open, tx, wr, tables, attempts, device, env, hist>>

(* The four stages of HandleSocketEvent, from the event on.                   *)
StageMutant(s) ==
  IF s = "event" THEN "fail" ELSE IF s = "fail" THEN "read"
  ELSE IF s = "read" THEN "write" ELSE "resume"
Stage(s) ==
  IF s = "event" THEN "read" ELSE IF s = "read" THEN "write"
  ELSE IF s = "write" THEN "fail" ELSE "resume"

(* DispatchEpollEvent: the members of the batch come in any order; one whose  *)
(* socket or device was closed meanwhile is skipped.                          *)
Dispatch ==
  /\ pc = "dispatch"
  /\ \E e \in batch :
       /\ batch' = batch \ {e}
       /\ \/ e.src = "sock" /\ open /\ pc' = Stage("event") /\ cur' = e
          \/ e.src = "dev" /\ device /\ pc' = "device" /\ cur' = e
          \/ e.src = "child" /\ pc' = "child" /\ cur' = e
          \/ /\ (e.src = "sock" /\ ~ open) \/ (e.src = "dev" /\ ~ device)
             /\ UNCHANGED <<pc, cur>>
  /\ UNCHANGED <<state, open, tx, wr, tables, attempts, device, env, faults, hist>>

(* The end of a batch: a reconnect may have become due meanwhile.             *)
EndBatch ==
  /\ pc = "dispatch" /\ batch = {}
  /\ \/ pc' = "wait"
     \/ attempts > 0 /\ pc' = "reconnect"
  /\ UNCHANGED <<batch, cur, state, open, tx, wr, tables, attempts, device, env,
                 faults, hist>>

(* HandleChildExitEvent: the pidfd may wake before the child can be reaped;   *)
(* then the second, blocking waitpid reaps it.                                *)
HandleChildExitEventMutant ==
  /\ pc = "child"
  /\ \/ child' = "reaped" /\ Stop
     \/ pc' = "dispatch" /\ cur' = None /\ UNCHANGED <<batch, child>>
  /\ UNCHANGED <<state, open, tx, wr, tables, attempts, device, peer, inbound, devq,
                 devFail, events, requests, faults, hist>>
HandleChildExitEvent ==
  /\ pc = "child"
  /\ child' = "reaped"
  /\ Stop
  /\ UNCHANGED <<state, open, tx, wr, tables, attempts, device, peer, inbound, devq,
                 devFail, events, requests, faults, hist>>

(* waitpid fails, or the pidfd reports an error.                              *)
ChildWatchFailed ==
  /\ pc = "child"
  /\ Fault
  /\ Stop
  /\ UNCHANGED <<state, open, tx, wr, tables, attempts, device, env, hist>>

-----------------------------------------------------------------------------
(* Socket events *)

NextStage == pc' = Stage(pc) /\ UNCHANGED <<batch, cur>>

(* WriteEventAnswer succeeded: the event is no longer outstanding.            *)
ForgottenMutant(e) == pending
Forgotten(e) ==
  LET found == CHOOSE i \in 1..Len(pending) :
                 pending[i] = e /\ \A j \in 1..(i - 1) : pending[j] # e
  IN  SubSeq(pending, 1, found - 1) \o SubSeq(pending, found + 1, Len(pending))

(* HandleEventAnswer: only an outstanding event is written to the device; a   *)
(* full or failing device keeps it outstanding.                               *)
HandleEventAnswer(e) ==
  \/ /\ device /\ state # "degraded"
     /\ \E i \in 1..Len(pending) : pending[i] = e
     /\ pending' = Forgotten(e)
     /\ answered' = Append(answered, e)
  \/ UNCHANGED <<pending, answered>>

(* A refused request and an added policy change nothing of the monitor's.     *)
DispatchSocketMessage(r) ==
  IF r.kind = "answer" THEN HandleEventAnswer(r.event)
  ELSE UNCHANGED <<pending, answered>>

(* HandleSocketReadable, one request: it is dispatched and its response goes  *)
(* to the queue.  Only a partial add-policy result has a body.                *)
QueueResponse ==
  /\ pc = "read" /\ cur.in /\ inbound # <<>>
  /\ LET r == Head(inbound)
     IN  /\ r.kind # "garbage"
         /\ DispatchSocketMessage(r)
         /\ \E d \in (IF r.kind = "policy" THEN DetailSizes ELSE {}) \cup {0} :
              Push([type |-> "response", id |-> r.id, size |-> d])
  /\ inbound' = Tail(inbound)
  /\ UNCHANGED <<loopVars, state, open, tx, wr, attempts, device, peer, devq,
                 devFail, child, events, requests, faults, sent>>

(* The stream is drained, or there was nothing to read.                       *)
ReadDrained ==
  /\ pc = "read"
  /\ ~ cur.in \/ (inbound = <<>> /\ peer = "up")
  /\ NextStage
  /\ UNCHANGED <<state, open, tx, wr, tables, attempts, device, env, faults, hist>>

(* End of file, or a header that is not of this protocol.                     *)
ReadFailed ==
  /\ pc = "read" /\ cur.in
  /\ IF inbound = <<>> THEN peer = "gone" ELSE Head(inbound).kind = "garbage"
  /\ Reconnecting(queue, bytes)
  /\ UNCHANGED <<peer, devq, devFail, child, events, requests, faults, hist>>

(* A read or send fails with another error.                                   *)
SocketError ==
  /\ pc \in {"read", "write"} /\ (IF pc = "read" THEN cur.in ELSE cur.out /\ tx # <<>>)
  /\ Fault
  /\ Reconnecting(queue, bytes)
  /\ UNCHANGED <<peer, devq, devFail, child, events, requests, hist>>

(* HandleSocketWritable: some of the Tx buffer goes out.                      *)
HandleSocketWritable ==
  /\ pc = "write"
  /\ IF cur.out /\ peer = "up"
     THEN \E n \in 0..Len(tx) :
            /\ sent' = sent \o SubSeq(tx, 1, n)
            /\ tx' = SubSeq(tx, n + 1, Len(tx))
     ELSE (cur.out => tx = <<>>) /\ UNCHANGED <<sent, tx>>
  /\ NextStage
  /\ UNCHANGED <<state, open, wr, tables, attempts, device, env, faults, answered>>

WritableClosed ==
  /\ pc = "write" /\ cur.out /\ peer = "gone" /\ tx # <<>>
  /\ Reconnecting(queue, bytes)
  /\ UNCHANGED <<peer, devq, devFail, child, events, requests, faults, hist>>

CheckSocketFailureEvents ==
  /\ pc = "fail"
  /\ IF cur.fail
     THEN /\ Reconnecting(queue, bytes)
          /\ UNCHANGED <<peer, devq, devFail, child, events, requests>>
     ELSE /\ NextStage
          /\ UNCHANGED <<state, open, tx, wr, tables, attempts, device, env>>
  /\ UNCHANGED <<faults, hist>>

(* FlushSocketTxQueue hands over the front message while the Tx buffer is     *)
(* empty; "replay" is the flush right after a reconnect.                      *)
Flushing == pc \in {"resume", "replay"} /\ queue # <<>> /\ tx = <<>>

(* A response whose body is too large for the socket is sent without it.      *)
FlushBare ==
  /\ Flushing /\ Head(queue).size > MaxBody
  /\ queue' = <<[Head(queue) EXCEPT !.size = 0]>> \o Tail(queue)
  /\ bytes' = bytes - Head(queue).size
  /\ UNCHANGED <<loopVars, state, open, tx, wr, pending, attempts, device, env,
                 faults, hist>>

(* The message goes out as a whole, or (EAGAIN) stays in the Tx buffer.       *)
FlushOne ==
  /\ Flushing /\ Head(queue).size <= MaxBody /\ peer = "up"
  /\ \/ sent' = Append(sent, Head(queue)) /\ UNCHANGED tx
     \/ tx' = <<Head(queue)>> /\ UNCHANGED sent
  /\ pending' = Awaited(Head(queue))
  /\ queue' = Tail(queue)
  /\ bytes' = bytes - Head(queue).size
  /\ UNCHANGED <<loopVars, state, open, wr, attempts, device, env, faults, answered>>

(* The send fails: the message stays in the queue for the reconnect.          *)
FlushFailed ==
  /\ Flushing /\ Head(queue).size <= MaxBody
  /\ \/ peer = "gone" /\ UNCHANGED faults
     \/ Fault
  /\ Reconnecting(queue, bytes)
  /\ UNCHANGED <<peer, devq, devFail, child, events, requests, hist>>

(* UpdateSocketEpollEvents                                                    *)
WantsWriteMutant == queue # <<>>
WantsWrite == tx # <<>> \/ queue # <<>>
UpdateSocketEpollEvents == wr' = (open /\ WantsWrite)

FlushEnds ==
  /\ pc \in {"resume", "replay"} /\ ~ Flushing
  /\ UpdateSocketEpollEvents
  /\ pc' = "dispatch" /\ cur' = None
  /\ UNCHANGED <<batch, state, open, tx, tables, attempts, device, env, faults, hist>>

(* epoll_ctl fails: the loop stops, right after a reconnect it drops the      *)
(* channel.                                                                   *)
UpdateFailed ==
  /\ pc \in {"resume", "replay"} /\ ~ Flushing /\ wr # WantsWrite
  /\ Fault
  /\ IF pc = "replay"
     THEN /\ Reconnecting(queue, bytes)
          /\ UNCHANGED <<peer, devq, devFail, child, events, requests>>
     ELSE /\ Stop
          /\ UNCHANGED <<state, open, tx, wr, tables, attempts, device, env>>
  /\ UNCHANGED hist

-----------------------------------------------------------------------------
(* Device events *)

(* ApplyAction(MONITOR_ACTION_DEGRADE)                                        *)
DeviceLost ==
  /\ pc = "device"
  /\ cur.fail \/ (devq = <<>> /\ devFail)
  /\ Degrade
  /\ device' = FALSE
  /\ pc' = "dispatch" /\ cur' = None
  /\ UNCHANGED <<batch, peer, devq, devFail, child, events, requests, faults, hist>>

Reading == pc = "device" /\ ~ cur.fail /\ devq # <<>>

(* DeliverDeviceEvent: nothing is ahead of this event.                        *)
Direct == open /\ queue = <<>> /\ tx = <<>>

(* An unusable event, or one nobody will ever be there for.                   *)
IgnoreEvent ==
  /\ Reading
  /\ ~ Head(devq).usable \/ (~ open /\ attempts = 0)
  /\ devq' = Tail(devq)
  /\ UNCHANGED <<loopVars, state, open, tx, wr, tables, attempts, device, peer,
                 inbound, devFail, child, events, requests, faults, hist>>

PushEventReport ==
  /\ Reading /\ Head(devq).usable
  /\ open \/ attempts > 0
  /\ ~ Direct
  /\ Push(Head(devq).report)
  /\ devq' = Tail(devq)
  /\ UNCHANGED <<loopVars, state, open, tx, wr, pending, attempts, device, peer,
                 inbound, devFail, child, events, requests, faults, hist>>

(* SendEventReport: out as a whole, or left in the Tx buffer.                 *)
SendEventReport ==
  /\ Reading /\ Head(devq).usable
  /\ Direct /\ peer = "up"
  /\ LET m == Head(devq).report
     IN  /\ \/ sent' = Append(sent, m) /\ UNCHANGED tx
            \/ tx' = Append(tx, m) /\ UNCHANGED sent
         /\ pending' = Awaited(m)
  /\ devq' = Tail(devq)
  /\ UNCHANGED <<loopVars, state, open, wr, queue, bytes, attempts, device, peer,
                 inbound, devFail, child, events, requests, faults, answered>>

(* The send fails: the event is kept for the reconnect.                       *)
SendFailed ==
  /\ Reading /\ Head(devq).usable
  /\ Direct
  /\ \/ peer = "gone" /\ UNCHANGED faults
     \/ Fault
  /\ LET p == Pushed(Head(devq).report) IN Reconnecting(p.queue, p.bytes)
  /\ devq' = Tail(devq)
  /\ UNCHANGED <<peer, devFail, child, events, requests, hist>>

(* The device is drained (EAGAIN): EPOLLOUT is brought up to date.            *)
DeviceDrained ==
  /\ pc = "device" /\ ~ cur.fail /\ devq = <<>> /\ ~ devFail
  /\ UpdateSocketEpollEvents
  /\ pc' = "dispatch" /\ cur' = None
  /\ UNCHANGED <<batch, state, open, tx, tables, attempts, device, env, faults, hist>>

DeviceUpdateFailed ==
  /\ pc = "device" /\ ~ cur.fail /\ devq = <<>> /\ ~ devFail
  /\ open /\ wr # WantsWrite
  /\ Fault
  /\ Stop
  /\ UNCHANGED <<state, open, tx, wr, tables, attempts, device, env, hist>>

-----------------------------------------------------------------------------
(* Reconnect, and the end *)

SpentMutant == attempts
Spent == attempts - 1

(* TryReconnect: the app does not listen, or its backlog is full.             *)
ReconnectFailed ==
  /\ pc = "reconnect"
  /\ IF Spent > 0
     THEN /\ attempts' = Spent
          /\ UNCHANGED <<state, open, tx, wr, tables, inbound>>
     ELSE Degrade
  /\ pc' = "wait"
  /\ UNCHANGED <<batch, cur, device, peer, devq, devFail, child, events, requests,
                 faults, hist>>

(* The new connection is adopted; both tables survive.                        *)
ReconnectAdopted ==
  /\ pc = "reconnect"
  /\ open' = TRUE /\ tx' = <<>> /\ wr' = FALSE /\ inbound' = <<>> /\ peer' = "up"
  /\ attempts' = 0
  /\ state' = "active"
  /\ pc' = "replay"
  /\ UNCHANGED <<batch, cur, tables, device, devq, devFail, child, events, requests,
                 faults, hist>>

(* The new socket cannot be registered with epoll.                            *)
AdoptFailed ==
  /\ pc = "reconnect"
  /\ Fault
  /\ Degrade
  /\ pc' = "wait"
  /\ UNCHANGED <<batch, cur, device, peer, devq, devFail, child, events, requests, hist>>

(* RunMonitorForChild returns, the destructor closes everything, and a parent *)
(* whose monitor stopped early waits for the child itself.                    *)
ParentAfterFork ==
  /\ pc = "stopped" /\ child # "running"
  /\ child' = "reaped"
  /\ CloseSocket
  /\ device' = FALSE
  /\ pc' = "ended"
  /\ UNCHANGED <<batch, cur, state, tables, attempts, peer, devq, devFail, events,
                 requests, faults, hist>>

Monitor ==
  \/ RunStart \/ EpollWait \/ EpollTimeout \/ EpollError \/ Dispatch \/ EndBatch
  \/ HandleChildExitEvent \/ ChildWatchFailed
  \/ QueueResponse \/ ReadDrained \/ ReadFailed \/ SocketError
  \/ HandleSocketWritable \/ WritableClosed \/ CheckSocketFailureEvents
  \/ FlushBare \/ FlushOne \/ FlushFailed \/ FlushEnds \/ UpdateFailed
  \/ DeviceLost \/ IgnoreEvent \/ PushEventReport \/ SendEventReport \/ SendFailed
  \/ DeviceDrained \/ DeviceUpdateFailed
  \/ ReconnectFailed \/ ReconnectAdopted \/ AdoptFailed \/ ParentAfterFork

-----------------------------------------------------------------------------
(* The environment (external) *)

monitorVars == <<pc, batch, cur, state, open, tx, wr, tables, attempts, device>>

AppSends ==
  /\ open /\ peer = "up" /\ requests < MaxRequests
  /\ \E k \in {"answer", "policy", "refused", "garbage"}, e \in 0..MaxEvents :
       /\ (k = "answer") = (e # 0)
       /\ inbound' = Append(inbound, [kind |-> k, id |-> requests + 1, event |-> e])
  /\ requests' = requests + 1
  /\ UNCHANGED <<monitorVars, peer, devq, devFail, child, events, faults, hist>>

AppCloses ==
  /\ open /\ peer = "up"
  /\ Fault
  /\ peer' = "gone"
  /\ UNCHANGED <<monitorVars, inbound, devq, devFail, child, events, requests, hist>>

KernelRaises ==
  /\ device /\ ~ devFail /\ events < MaxEvents
  /\ \E s \in ReportSizes, u \in BOOLEAN :
       devq' = Append(devq, [usable |-> u,
                             report |-> [type |-> "report", id |-> events + 1, size |-> s]])
  /\ events' = events + 1
  /\ UNCHANGED <<monitorVars, peer, inbound, devFail, child, requests, faults, hist>>

DeviceFails ==
  /\ device /\ ~ devFail
  /\ Fault
  /\ devFail' = TRUE
  /\ UNCHANGED <<monitorVars, peer, inbound, devq, child, events, requests, hist>>

ChildExits ==
  /\ child = "running"
  /\ child' = "zombie"
  /\ UNCHANGED <<monitorVars, peer, inbound, devq, devFail, events, requests, faults,
                 hist>>

Environment == AppSends \/ AppCloses \/ KernelRaises \/ DeviceFails \/ ChildExits

(* The monitor was initialised; a caller without a socket gets none.          *)
Init ==
  /\ pc = "start" /\ batch = {} /\ cur = None
  /\ state = "active"
  /\ open \in BOOLEAN
  /\ tx = <<>> /\ wr = FALSE
  /\ queue = <<>> /\ bytes = 0 /\ pending = <<>>
  /\ attempts = 0
  /\ device = TRUE
  /\ peer = "up" /\ inbound = <<>>
  /\ devq = <<>> /\ devFail = FALSE
  /\ child = "running"
  /\ events = 0 /\ requests = 0 /\ faults = 0
  /\ sent = <<>> /\ answered = <<>>

Next == Monitor \/ Environment

Spec == Init /\ [][Next]_vars

(* The monitor is a process of its own and is scheduled whenever it can run.  *)
FairSpec == Spec /\ WF_vars(Monitor)
-----------------------------------------------------------------------------
(* Properties *)

TypeOK ==
  /\ pc \in {"start", "wait", "dispatch", "child", "read", "write", "fail", "resume",
             "replay", "device", "reconnect", "stopped", "ended"}
  /\ batch \subseteq Wakeup /\ cur \in Wakeup
  /\ state \in {"active", "reconnecting", "degraded"}
  /\ {open, wr, device, devFail} \subseteq BOOLEAN
  /\ tx \in Seq(Message) /\ queue \in Seq(Message) /\ bytes \in Nat
  /\ pending \in Seq(1..MaxEvents)
  /\ attempts \in 0..MaxAttempts
  /\ peer \in {"up", "gone"} /\ inbound \in Seq(Request)
  /\ devq \in Seq([usable : BOOLEAN, report : Message])
  /\ child \in {"running", "zombie", "reaped"}
  /\ events \in 0..MaxEvents /\ requests \in 0..MaxRequests /\ faults \in 0..MaxFaults
  /\ sent \in Seq(Message) /\ answered \in Seq(1..MaxEvents)

Running == pc \notin {"stopped", "ended"}

(* What was sent, is being sent and will be sent, in that order.              *)
Stream == sent \o tx \o queue

(* The app's stream stays in order: over direct sends, queueing, eviction, a  *)
(* full Tx buffer, failed sends and reconnects, reports reach the app in the  *)
(* order the kernel raised them and responses in the order of the requests,   *)
(* and none of them twice (DeliverDeviceEvent, FlushSocketTxQueue).           *)
StreamInOrder ==
  \A i, j \in 1..Len(Stream) :
    i < j /\ Stream[i].type = Stream[j].type => Stream[i].id < Stream[j].id

(* One verdict per event: the device never gets a second answer for an event, *)
(* and an answered event is never outstanding again, although the table of    *)
(* outstanding answers survives reconnects, keeps an entry whose write failed *)
(* and forgets its oldest entries (HandleEventAnswer).                        *)
OneVerdictPerEvent ==
  /\ \A i, j \in 1..Len(answered) : i # j => answered[i] # answered[j]
  /\ \A i \in 1..Len(answered), j \in 1..Len(pending) : answered[i] # pending[j]
  /\ \A i, j \in 1..Len(pending) : i # j => pending[i] # pending[j]

(* The queue keeps its budget: both limits hold, the running byte count is    *)
(* the sum of the bodies also after evictions, bare responses and             *)
(* reconnects, and at most one message is in the Tx buffer, where it cannot   *)
(* be evicted any more.                                                       *)
QueueWithinBudget ==
  /\ bytes = BodyBytes(queue)
  /\ bytes <= MaxQueueBytes
  /\ Len(queue) <= MaxQueueCount
  /\ Len(pending) <= MaxPending
  /\ Len(tx) <= 1

(* No lost wakeup: when the loop goes to sleep, EPOLLOUT is armed exactly     *)
(* when something waits to be sent; otherwise a message would wait forever,   *)
(* or the loop would spin on a socket it has nothing for.                     *)
SleepsOnlyIfArmed ==
  pc = "wait" /\ open => wr = (tx # <<>> \/ queue # <<>>)

(* Nothing is kept for nobody: without a channel and without an attempt left  *)
(* to get one, both tables are empty and stay so; the retry budget runs       *)
(* exactly while the state says so, and only with a device to read from.      *)
NothingKeptForNobody ==
  Running =>
    /\ (attempts > 0) = (state = "reconnecting")
    /\ open => state = "active"
    /\ state # "degraded" => device
    /\ ~ open /\ attempts = 0 => queue = <<>> /\ pending = <<>> /\ bytes = 0

(* What the two invariants above rest on: the handlers that use the socket or *)
(* the device run with it open, a retry is due only while attempts are left,  *)
(* and between two events EPOLLOUT is up to date.                             *)
StagesHaveTheirDescriptor ==
  /\ attempts \in Nat
  /\ pc \in {"read", "write", "fail", "resume", "replay"} => open
  /\ pc = "device" => device
  /\ pc = "reconnect" => attempts > 0
  /\ pc \in {"start", "wait", "dispatch", "reconnect"} /\ open =>
       wr = (tx # <<>> \/ queue # <<>>)

ChannelInv == NothingKeptForNobody /\ SleepsOnlyIfArmed /\ StagesHaveTheirDescriptor

(* The order of HandleSocketEvent's stages: a peer that sent requests and     *)
(* closed straight after has all of them dispatched before its hangup closes  *)
(* the channel, up to one that breaks the protocol or a failing read.         *)
HangupWaitsForRequests ==
  [][cur.src = "sock" /\ cur.fail /\ open /\ ~ open' /\ faults' = faults =>
       inbound = <<>> \/ Head(inbound).kind = "garbage"]_vars

(* The child is always reaped: whatever happened to channel, device and       *)
(* monitor, an exited child ends in waitpid, the monitor's or the parent's.   *)
ChildIsReaped == child = "zombie" ~> child = "reaped"

(* The reconnect sequence is bounded: it ends in a connection or in the       *)
(* degraded state, unless the monitor ends first.                             *)
ReconnectEnds == state = "reconnecting" ~> (state # "reconnecting" \/ ~ Running)
=============================================================================
