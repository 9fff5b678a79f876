------------------------ MODULE SandboxMonitorProofs ------------------------
(***************************************************************************)
(* Proofs about SandboxMonitor for every value of its limits.              *)
(*                                                                         *)
(* The channel: nothing is kept for a peer that cannot come back, and the  *)
(* loop never sleeps on unsent messages.  Neither is inductive alone.  A   *)
(* handler leaves EPOLLOUT out of date while it runs and repairs it in its *)
(* last step, so the wakeup part has to be known between all events, not   *)
(* only before the wait; and the last steps rely on the descriptor the     *)
(* event was dispatched for.                                               *)
(*                                                                         *)
(* Hangups: StageInv follows a wakeup from epoll_wait to its last stage.   *)
(*                                                                         *)
(* The stream and the verdicts: DataInv relates every place a message can  *)
(* be in (device, request stream, queue, Tx buffer, kernel, outstanding    *)
(* and answered) to the ones it comes from.                                *)
(*                                                                         *)
(* The budget: the byte count is a sum over the queue, and what eviction,  *)
(* hand-over and a bare response do to that sum is proved by induction on  *)
(* its length, as the search for a least counterexample (LeastNat).        *)
(***************************************************************************)
EXTENDS SandboxMonitor, SequenceTheorems, WellFoundedInduction, TLAPS

(* The channel is empty initially.                                            *)
LEMMA ChannelInit == Init => ChannelInv
<1> SUFFICES ASSUME Init
             PROVE  ChannelInv
  OBVIOUS
<1>1. wr = (tx # <<>> \/ queue # <<>>)
  BY Zenon DEF Init
<1>2. NothingKeptForNobody
  BY DEF Init, NothingKeptForNobody, Running
<1>3. SleepsOnlyIfArmed /\ StagesHaveTheirDescriptor
  BY <1>1 DEF Init, SleepsOnlyIfArmed, StagesHaveTheirDescriptor
<1> QED BY <1>2, <1>3 DEF ChannelInv

(* Dropping the channel leaves the tables to the retries that now begin.      *)
LEMMA DropKeepsInv ==
  ASSUME ChannelInv, Running, open, NEW q, NEW b, Reconnecting(q, b)
  PROVE  ChannelInv'
  BY LimitAssumption
     DEF ChannelInv, NothingKeptForNobody, SleepsOnlyIfArmed, LimitAssumption,
         StagesHaveTheirDescriptor, Running, Reconnecting, DropSocketChannel, CloseSocket

(* The loop itself: waiting, dispatching, the child.                          *)
LEMMA LoopKeepsInv ==
  ASSUME ChannelInv,
         RunStart \/ EpollWait \/ EpollTimeout \/ EpollError \/ Dispatch \/ EndBatch
           \/ HandleChildExitEvent \/ ChildWatchFailed
  PROVE  ChannelInv'
<1> USE DEF ChannelInv, NothingKeptForNobody, SleepsOnlyIfArmed,
            StagesHaveTheirDescriptor, Running, tables, env, hist, Stop
<1>1. CASE RunStart
  BY <1>1 DEF RunStart
<1>2. CASE EpollWait
  BY <1>2 DEF EpollWait
<1>3. CASE EpollTimeout
  BY <1>3 DEF EpollTimeout
<1>4. CASE EpollError
  BY <1>4 DEF EpollError
<1>5. CASE Dispatch
  BY <1>5 DEF Dispatch, Stage
<1>6. CASE EndBatch
  BY <1>6 DEF EndBatch
<1>7. CASE HandleChildExitEvent
  BY <1>7 DEF HandleChildExitEvent
<1>8. CASE ChildWatchFailed
  BY <1>8 DEF ChildWatchFailed
<1> QED BY <1>1, <1>2, <1>3, <1>4, <1>5, <1>6, <1>7, <1>8

(* The stages of a socket event, and the flush after a reconnect.             *)
LEMMA SocketKeepsInv ==
  ASSUME ChannelInv,
         QueueResponse \/ ReadDrained \/ ReadFailed \/ SocketError
           \/ HandleSocketWritable \/ WritableClosed \/ CheckSocketFailureEvents
           \/ FlushBare \/ FlushOne \/ FlushFailed \/ FlushEnds \/ UpdateFailed
  PROVE  ChannelInv'
<1>1. Running /\ open
  BY DEF ChannelInv, StagesHaveTheirDescriptor, Running, QueueResponse, ReadDrained,
         ReadFailed, SocketError, HandleSocketWritable, WritableClosed,
         CheckSocketFailureEvents, FlushBare, FlushOne, FlushFailed, FlushEnds,
         UpdateFailed, Flushing
<1>2. CASE ReadFailed
  BY <1>1, <1>2, DropKeepsInv DEF ReadFailed
<1>3. CASE SocketError
  BY <1>1, <1>3, DropKeepsInv DEF SocketError
<1>4. CASE WritableClosed
  BY <1>1, <1>4, DropKeepsInv DEF WritableClosed
<1>5. CASE FlushFailed
  BY <1>1, <1>5, DropKeepsInv DEF FlushFailed
<1>6. CASE CheckSocketFailureEvents /\ cur.fail
  BY <1>1, <1>6, DropKeepsInv DEF CheckSocketFailureEvents
<1>7. CASE UpdateFailed /\ pc = "replay"
  BY <1>1, <1>7, DropKeepsInv DEF UpdateFailed
<1> USE <1>1 DEF ChannelInv, NothingKeptForNobody, SleepsOnlyIfArmed,
            StagesHaveTheirDescriptor, Running, loopVars, tables, env, hist
<1>8. CASE QueueResponse
  BY <1>8 DEF QueueResponse
<1>9. CASE ReadDrained
  BY <1>9 DEF ReadDrained, NextStage, Stage
<1>10. CASE HandleSocketWritable
  BY <1>10 DEF HandleSocketWritable, NextStage, Stage
<1>11. CASE CheckSocketFailureEvents /\ ~ cur.fail
  BY <1>11 DEF CheckSocketFailureEvents, NextStage, Stage
<1>12. CASE FlushBare
  BY <1>12 DEF FlushBare, Flushing
<1>13. CASE FlushOne
  BY <1>13 DEF FlushOne, Flushing
<1>14. CASE FlushEnds
  BY <1>14 DEF FlushEnds, UpdateSocketEpollEvents, WantsWrite
<1>15. CASE UpdateFailed /\ pc # "replay"
  BY <1>15 DEF UpdateFailed, Stop
<1> QED BY <1>2, <1>3, <1>4, <1>5, <1>6, <1>7, <1>8, <1>9, <1>10, <1>11, <1>12,
           <1>13, <1>14, <1>15

(* The device loop.                                                           *)
LEMMA DeviceKeepsInv ==
  ASSUME ChannelInv,
         DeviceLost \/ IgnoreEvent \/ PushEventReport \/ SendEventReport \/ SendFailed
           \/ DeviceDrained \/ DeviceUpdateFailed
  PROVE  ChannelInv'
<1> USE DEF ChannelInv, NothingKeptForNobody, SleepsOnlyIfArmed,
            StagesHaveTheirDescriptor, Running, loopVars, tables, env, hist, Reading
<1>1. CASE DeviceLost
  BY <1>1 DEF DeviceLost, Degrade, CloseSocket, DiscardAllEvents
<1>2. CASE IgnoreEvent
  BY <1>2 DEF IgnoreEvent
<1>3. CASE PushEventReport
  BY <1>3 DEF PushEventReport
<1>4. CASE SendEventReport
  BY <1>4 DEF SendEventReport, Direct
<1>5. CASE SendFailed
  BY <1>5, DropKeepsInv DEF SendFailed, Direct
<1>6. CASE DeviceDrained
  BY <1>6 DEF DeviceDrained, UpdateSocketEpollEvents, WantsWrite
<1>7. CASE DeviceUpdateFailed
  BY <1>7 DEF DeviceUpdateFailed, Stop
<1> QED BY <1>1, <1>2, <1>3, <1>4, <1>5, <1>6, <1>7

(* Retries and the end.                                                       *)
LEMMA ReconnectKeepsInv ==
  ASSUME ChannelInv,
         ReconnectFailed \/ ReconnectAdopted \/ AdoptFailed \/ ParentAfterFork
  PROVE  ChannelInv'
<1> USE DEF ChannelInv, NothingKeptForNobody, SleepsOnlyIfArmed,
            StagesHaveTheirDescriptor, Running, tables, Degrade, CloseSocket,
            DiscardAllEvents
<1>1. CASE ReconnectFailed
  BY <1>1 DEF ReconnectFailed, Spent
<1>2. CASE ReconnectAdopted
  BY <1>2 DEF ReconnectAdopted
<1>3. CASE AdoptFailed
  BY <1>3 DEF AdoptFailed
<1>4. CASE ParentAfterFork
  BY <1>4 DEF ParentAfterFork
<1> QED BY <1>1, <1>2, <1>3, <1>4

(* The environment touches nothing the invariant speaks of.                   *)
LEMMA EnvironmentKeepsInv ==
  ASSUME ChannelInv, Environment
  PROVE  ChannelInv'
  BY DEF Environment, AppSends, AppCloses, KernelRaises, DeviceFails, ChildExits,
         monitorVars, tables, ChannelInv, NothingKeptForNobody, SleepsOnlyIfArmed,
         StagesHaveTheirDescriptor, Running

(* The channel invariant holds in every reachable state, whatever the app,    *)
(* the kernel and the failing system calls do.                                *)
THEOREM ChannelIsConsistent == Spec => []ChannelInv
<1>1. Init => ChannelInv
  BY ChannelInit
<1>2. ASSUME ChannelInv, [Next]_vars
      PROVE  ChannelInv'
  <2>1. CASE Monitor
    BY <1>2, <2>1, LoopKeepsInv, SocketKeepsInv, DeviceKeepsInv, ReconnectKeepsInv
       DEF Monitor
  <2>2. CASE Environment
    BY <1>2, <2>2, EnvironmentKeepsInv
  <2>3. CASE UNCHANGED vars
    BY <1>2, <2>3 DEF vars, ChannelInv, NothingKeptForNobody, SleepsOnlyIfArmed,
       StagesHaveTheirDescriptor, Running
  <2> QED BY <1>2, <2>1, <2>2, <2>3 DEF Next
<1> QED BY <1>1, <1>2, PTL DEF Spec

(* Without a channel and without an attempt left the monitor keeps neither    *)
(* messages nor outstanding answers, for every size of the tables.            *)
THEOREM NothingIsKeptForNobody == Spec => []NothingKeptForNobody
<1>1. ChannelInv => NothingKeptForNobody
  BY DEF ChannelInv
<1> QED BY <1>1, ChannelIsConsistent, PTL

(* The loop never goes to sleep with something to send and EPOLLOUT off, nor  *)
(* with nothing to send and EPOLLOUT on.                                      *)
THEOREM NoLostWakeup == Spec => []SleepsOnlyIfArmed
<1>1. ChannelInv => SleepsOnlyIfArmed
  BY DEF ChannelInv
<1> QED BY <1>1, ChannelIsConsistent, PTL

-----------------------------------------------------------------------------
(* Hangups *)

(* Where a hangup may be met: the wakeups of the socket run through the four  *)
(* stages and nowhere else, one that carries a failure also tells to read     *)
(* from a peer that is gone, and its first stage never ends in the next one,  *)
(* because a stream without a peer ends by end of file or by a bad header.    *)
StageInv ==
  /\ faults \in Nat
  /\ cur.src = "sock" => pc \in {"read", "write", "fail", "resume"}
  /\ cur.src = "sock" /\ cur.fail => pc = "read" /\ cur.in /\ peer = "gone"
  /\ \A e \in batch : e.src = "sock" /\ e.fail => e.in /\ peer = "gone"
  /\ pc \in {"start", "wait", "reconnect", "replay", "stopped", "ended"} => batch = {}

(* What epoll_wait reports of a socket whose peer is gone.                    *)
LEMMA ReadyHangup ==
  ASSUME NEW B \in Ready, NEW e \in B, e.src = "sock", e.fail
  PROVE  e.in /\ peer = "gone"
<1> DEFINE sock(o) == [src |-> "sock", in |-> inbound # <<>> \/ peer = "gone",
                       out |-> wr /\ (o \/ peer = "gone"), fail |-> peer = "gone"]
           dev(f) == [src |-> "dev", in |-> TRUE, out |-> FALSE, fail |-> devFail /\ f]
           pid == [None EXCEPT !.src = "child", !.in = TRUE]
<1>1. PICK o \in BOOLEAN, f \in BOOLEAN : e \in {sock(o), dev(f), pid}
  BY DEF Ready
<1>2. dev(f).src = "dev" /\ pid.src = "child"
  BY DEF None
<1>3. e = sock(o)
  BY <1>1, <1>2
<1>4. sock(o).in = (inbound # <<>> \/ peer = "gone") /\ sock(o).fail = (peer = "gone")
  OBVIOUS
<1>5. peer = "gone"
  BY <1>3, <1>4, Zenon
<1> QED BY <1>3, <1>4, <1>5, Zenon

(* The steps of the event loop keep the stages.                               *)
LEMMA StageLoop ==
  ASSUME StageInv,
         RunStart \/ EpollWait \/ EpollTimeout \/ EpollError \/ Dispatch \/ EndBatch
           \/ HandleChildExitEvent \/ ChildWatchFailed
  PROVE  StageInv'
<1> USE DEF StageInv, env, Stop, None, Fault
<1>1. CASE RunStart
  BY <1>1 DEF RunStart
<1>2. CASE EpollWait
  BY <1>2, ReadyHangup DEF EpollWait
<1>3. CASE EpollTimeout
  BY <1>3 DEF EpollTimeout
<1>4. CASE EpollError
  BY <1>4 DEF EpollError
<1>5. CASE Dispatch
  BY <1>5 DEF Dispatch, Stage
<1>6. CASE EndBatch
  BY <1>6 DEF EndBatch
<1>7. CASE HandleChildExitEvent
  BY <1>7 DEF HandleChildExitEvent
<1>8. CASE ChildWatchFailed
  BY <1>8 DEF ChildWatchFailed
<1> QED BY <1>1, <1>2, <1>3, <1>4, <1>5, <1>6, <1>7, <1>8

(* So do the steps on the socket.                                             *)
LEMMA StageSocket ==
  ASSUME StageInv,
         QueueResponse \/ ReadDrained \/ ReadFailed \/ SocketError
           \/ HandleSocketWritable \/ WritableClosed \/ CheckSocketFailureEvents
           \/ FlushBare \/ FlushOne \/ FlushFailed \/ FlushEnds \/ UpdateFailed
  PROVE  StageInv'
<1> USE DEF StageInv, loopVars, env, Stop, None, Fault, NextStage, Stage, Flushing,
            Reconnecting
<1>1. CASE QueueResponse
  BY <1>1 DEF QueueResponse
<1>2. CASE ReadDrained
  BY <1>2 DEF ReadDrained
<1>3. CASE ReadFailed
  BY <1>3 DEF ReadFailed
<1>4. CASE SocketError
  BY <1>4 DEF SocketError
<1>5. CASE HandleSocketWritable
  BY <1>5 DEF HandleSocketWritable
<1>6. CASE WritableClosed
  BY <1>6 DEF WritableClosed
<1>7. CASE CheckSocketFailureEvents
  BY <1>7 DEF CheckSocketFailureEvents
<1>8. CASE FlushBare
  BY <1>8 DEF FlushBare
<1>9. CASE FlushOne
  BY <1>9 DEF FlushOne
<1>10. CASE FlushFailed
  BY <1>10 DEF FlushFailed
<1>11. CASE FlushEnds
  BY <1>11 DEF FlushEnds
<1>12. CASE UpdateFailed
  BY <1>12 DEF UpdateFailed
<1> QED BY <1>1, <1>2, <1>3, <1>4, <1>5, <1>6, <1>7, <1>8, <1>9, <1>10, <1>11, <1>12

(* So do the steps on the device.                                             *)
LEMMA StageDevice ==
  ASSUME StageInv,
         DeviceLost \/ IgnoreEvent \/ PushEventReport \/ SendEventReport \/ SendFailed
           \/ DeviceDrained \/ DeviceUpdateFailed \/ ReconnectFailed
           \/ ReconnectAdopted \/ AdoptFailed \/ ParentAfterFork
  PROVE  StageInv'
<1> USE DEF StageInv, loopVars, env, Stop, None, Fault, Reading, Reconnecting
<1>1. CASE DeviceLost
  BY <1>1 DEF DeviceLost
<1>2. CASE IgnoreEvent
  BY <1>2 DEF IgnoreEvent
<1>3. CASE PushEventReport
  BY <1>3 DEF PushEventReport
<1>4. CASE SendEventReport
  BY <1>4 DEF SendEventReport
<1>5. CASE SendFailed
  BY <1>5 DEF SendFailed
<1>6. CASE DeviceDrained
  BY <1>6 DEF DeviceDrained
<1>7. CASE DeviceUpdateFailed
  BY <1>7 DEF DeviceUpdateFailed
<1>8. CASE ReconnectFailed
  BY <1>8 DEF ReconnectFailed
<1>9. CASE ReconnectAdopted
  BY <1>9 DEF ReconnectAdopted
<1>10. CASE AdoptFailed
  BY <1>10 DEF AdoptFailed
<1>11. CASE ParentAfterFork
  BY <1>11 DEF ParentAfterFork
<1> QED BY <1>1, <1>2, <1>3, <1>4, <1>5, <1>6, <1>7, <1>8, <1>9, <1>10, <1>11

(* So does every step.                                                        *)
LEMMA StageStep ==
  ASSUME StageInv, [Next]_vars
  PROVE  StageInv'
<1>1. CASE Monitor
  BY <1>1, StageLoop, StageSocket, StageDevice DEF Monitor
<1>2. CASE Environment
  BY <1>2 DEF Environment, AppSends, AppCloses, KernelRaises, DeviceFails, ChildExits,
     monitorVars, StageInv, Fault
<1>3. CASE UNCHANGED vars
  BY <1>3 DEF vars, StageInv
<1> QED BY <1>1, <1>2, <1>3 DEF Next

(* Who closes the channel in a step: a handler of the socket in one of its    *)
(* stages, the device loop, or a retry or the end, which handle no event.     *)
LEMMA HangupStep ==
  ASSUME StageInv, [Next]_vars, cur.src = "sock", cur.fail, open, ~ open',
         faults' = faults
  PROVE  inbound = <<>> \/ Head(inbound).kind = "garbage"
<1>1. pc = "read" /\ faults \in Nat /\ ~ Fault
  BY DEF StageInv, Fault
<1>2. Next
  BY DEF vars
<1>3. CASE Environment
  BY <1>3 DEF Environment, AppSends, AppCloses, KernelRaises, DeviceFails, ChildExits,
     monitorVars
<1>4. CASE Monitor
  <2>1. QueueResponse \/ ReadDrained \/ ReadFailed \/ SocketError
    BY <1>1, <1>4 DEF Monitor, RunStart, EpollWait, EpollTimeout, EpollError, Dispatch,
       EndBatch, HandleChildExitEvent, ChildWatchFailed, HandleSocketWritable,
       WritableClosed, CheckSocketFailureEvents, FlushBare, FlushOne, FlushFailed,
       FlushEnds, UpdateFailed, Flushing, DeviceLost, IgnoreEvent, PushEventReport,
       SendEventReport, SendFailed, Reading, DeviceDrained, DeviceUpdateFailed,
       ReconnectFailed, ReconnectAdopted, AdoptFailed, ParentAfterFork
  <2> QED BY <1>1, <2>1 DEF QueueResponse, ReadDrained, ReadFailed, SocketError
<1> QED BY <1>2, <1>3, <1>4 DEF Next

(* A peer that sent requests and closed at once has them all dispatched       *)
(* before its hangup closes the channel.                                      *)
THEOREM HangupComesLast == Spec => HangupWaitsForRequests
<1>1. Init => StageInv
  BY DEF Init, StageInv, None
<1>2. StageInv /\ [Next]_vars => StageInv'
  BY StageStep
<1>3. StageInv /\ [Next]_vars =>
        [cur.src = "sock" /\ cur.fail /\ open /\ ~ open' /\ faults' = faults =>
           inbound = <<>> \/ Head(inbound).kind = "garbage"]_vars
  BY HangupStep
<1> QED BY <1>1, <1>2, <1>3, PTL DEF Spec, HangupWaitsForRequests

-----------------------------------------------------------------------------
(* The order of the stream *)

(* Messages of one type have increasing identifiers in s, and those of s are  *)
(* smaller than those of t.                                                   *)
Sorted(s) ==
  \A i, j \in 1..Len(s) : i < j /\ s[i].type = s[j].type => s[i].id < s[j].id
Ahead(s, t) ==
  \A i \in 1..Len(s), j \in 1..Len(t) : s[i].type = t[j].type => s[i].id < t[j].id

(* A message has left the place it came from: its event was read from the     *)
(* device, its request from the socket.                                       *)
Passed(m, ev, dq, rq, ib) ==
  /\ m.type = "report" =>
       m.id \in 1..ev /\ \A k \in 1..Len(dq) : m.id < dq[k].report.id
  /\ m.type = "response" =>
       m.id \in 1..rq /\ \A k \in 1..Len(ib) : m.id < ib[k].id
AllPassed(s, ev, dq, rq, ib) == \A i \in 1..Len(s) : Passed(s[i], ev, dq, rq, ib)

(* An event was reported: read from the device, and no report that still      *)
(* waits in the queue is its own or an older one.                             *)
Reported(e, ev, dq, q) ==
  /\ e \in 1..ev
  /\ \A k \in 1..Len(dq) : e < dq[k].report.id
  /\ \A k \in 1..Len(q) : q[k].type = "report" => e < q[k].id
AllReported(s, ev, dq, q) == \A i \in 1..Len(s) : Reported(s[i], ev, dq, q)

Event == [usable : BOOLEAN, report : Message]

(* The two sources are numbered in the order they are filled.                 *)
SourceInv ==
  /\ events \in 0..MaxEvents /\ requests \in 0..MaxRequests
  /\ devq \in Seq(Event) /\ inbound \in Seq(Request)
  /\ \A i \in 1..Len(devq) :
       /\ devq[i].report.type = "report"
       /\ devq[i].report.size \in ReportSizes
       /\ devq[i].report.id \in 1..events
  /\ \A i, j \in 1..Len(devq) : i < j => devq[i].report.id < devq[j].report.id
  /\ \A i \in 1..Len(inbound) : inbound[i].id \in 1..requests
  /\ \A i, j \in 1..Len(inbound) : i < j => inbound[i].id < inbound[j].id

StreamInv ==
  /\ sent \in Seq(Message) /\ tx \in Seq(Message) /\ queue \in Seq(Message)
  /\ Sorted(sent) /\ Sorted(tx) /\ Sorted(queue)
  /\ Ahead(sent, tx) /\ Ahead(sent, queue) /\ Ahead(tx, queue)
  /\ AllPassed(sent, events, devq, requests, inbound)
  /\ AllPassed(tx, events, devq, requests, inbound)
  /\ AllPassed(queue, events, devq, requests, inbound)

VerdictInv ==
  /\ pending \in Seq(Nat) /\ answered \in Seq(Nat)
  /\ AllReported(pending, events, devq, queue)
  /\ AllReported(answered, events, devq, queue)
  /\ OneVerdictPerEvent

DataInv == SourceInv /\ StreamInv /\ VerdictInv

-----------------------------------------------------------------------------
(* Facts about sequences and about the table of messages *)

(* A nonempty set of numbers has a least one.                                 *)
LEMMA LeastNat ==
  ASSUME NEW T, T \subseteq Nat, T # {}
  PROVE  \E x \in T : \A y \in T : x <= y
<1> DEFINE R == OpToRel(<, Nat)
<1>1. IsWellFoundedOn(R, Nat)
  BY NatLessThanWellFounded
<1>2. \A x, y \in Nat : y < x => <<y, x>> \in R
  BY DEF OpToRel
<1> HIDE DEF R
<1>3. PICK x \in T : \A y \in T : ~ (<<y, x>> \in R)
  BY <1>1, WFMin
<1>4. ASSUME NEW y \in T PROVE x <= y
  <2>1. x \in Nat /\ y \in Nat
    OBVIOUS
  <2>2. ~ (y < x)
    BY <1>2, <1>3, <2>1, Zenon
  <2> QED BY <2>1, <2>2
<1> QED BY <1>4

(* The tail, element by element.                                              *)
LEMMA TailFacts ==
  ASSUME NEW S, NEW s \in Seq(S), s # <<>>
  PROVE  /\ Tail(s) \in Seq(S) /\ Head(s) = s[1] /\ s[1] \in S
         /\ Len(s) \in Nat /\ Len(s) > 0 /\ 1 \in 1..Len(s)
         /\ Len(Tail(s)) = Len(s) - 1
         /\ \A i \in 1..Len(Tail(s)) : i + 1 \in 1..Len(s) /\ Tail(s)[i] = s[i + 1]
  OBVIOUS

(* A sequence with one more element, element by element.                      *)
LEMMA AppendFacts ==
  ASSUME NEW S, NEW s \in Seq(S), NEW e \in S
  PROVE  /\ Append(s, e) \in Seq(S) /\ Len(s) \in Nat
         /\ Len(Append(s, e)) = Len(s) + 1
         /\ \A i \in 1..(Len(s) + 1) :
              \/ i \in 1..Len(s) /\ Append(s, e)[i] = s[i]
              \/ i = Len(s) + 1 /\ Append(s, e)[i] = e
  OBVIOUS

(* A part of a sequence, element by element.                                  *)
LEMMA SubSeqFacts ==
  ASSUME NEW S, NEW s \in Seq(S), NEW n \in 0..Len(s)
  PROVE  /\ SubSeq(s, 1, n) \in Seq(S) /\ Len(SubSeq(s, 1, n)) = n
         /\ \A i \in 1..n : SubSeq(s, 1, n)[i] = s[i] /\ i \in 1..Len(s)
         /\ SubSeq(s, n + 1, Len(s)) \in Seq(S)
         /\ Len(SubSeq(s, n + 1, Len(s))) = Len(s) - n
         /\ \A i \in 1..(Len(s) - n) :
              SubSeq(s, n + 1, Len(s))[i] = s[i + n] /\ i + n \in 1..Len(s)
  OBVIOUS

(* The message to evict up to exists, so PushSocketMessage keeps a suffix of  *)
(* the queue and appends to it, or refuses a message over the whole budget.   *)
LEMMA PushedIs ==
  ASSUME queue \in Seq(Message), NEW m \in Message
  PROVE  \/ m.size > MaxQueueBytes /\ Pushed(m).queue = queue /\ Pushed(m).bytes = bytes
         \/ /\ ~ (m.size > MaxQueueBytes)
            /\ \E n \in 0..Len(queue) :
                 /\ Evicts(n, m.size)
                 /\ Pushed(m).queue = Append(SubSeq(queue, n + 1, Len(queue)), m)
                 /\ Pushed(m).bytes = bytes - BodyBytes(SubSeq(queue, 1, n)) + m.size
<1> DEFINE T == {i \in 0..Len(queue) : Evicts(i, m.size)}
           Least(i) == Evicts(i, m.size) /\ \A j \in 0..(i - 1) : ~ Evicts(j, m.size)
           n == CHOOSE i \in 0..Len(queue) : Least(i)
           q == Append(SubSeq(queue, n + 1, Len(queue)), m)
           b == bytes - BodyBytes(SubSeq(queue, 1, n)) + m.size
<1>1. Len(queue) \in Nat /\ Len(queue) \in T
  BY DEF Evicts
<1>2. T \subseteq Nat /\ T # {}
  BY <1>1
<1>3. PICK x \in T : \A y \in T : x <= y
  BY <1>2, LeastNat, Zenon
<1>4. x \in 0..Len(queue) /\ Evicts(x, m.size)
  BY <1>3
<1>5. \A j \in 0..(x - 1) : ~ Evicts(j, m.size)
  <2> SUFFICES ASSUME NEW j \in 0..(x - 1), Evicts(j, m.size) PROVE FALSE
    OBVIOUS
  <2>1. j \in 0..Len(queue) /\ ~ (x <= j)
    BY <1>1, <1>4
  <2> QED BY <1>3, <2>1
<1>6. n \in 0..Len(queue) /\ Least(n)
  BY <1>4, <1>5, Zenon
<1>7. ~ (m.size > MaxQueueBytes) => Pushed(m) = [queue |-> q, bytes |-> b]
  BY Zenon DEF Pushed
<1>8. m.size > MaxQueueBytes => Pushed(m) = [queue |-> queue, bytes |-> bytes]
  BY Zenon DEF Pushed
<1>9. \E k \in 0..Len(queue) :
        /\ Evicts(k, m.size)
        /\ q = Append(SubSeq(queue, k + 1, Len(queue)), m)
        /\ b = bytes - BodyBytes(SubSeq(queue, 1, k)) + m.size
  BY <1>6, Zenon
<1> HIDE DEF q, b
<1>10. ~ (m.size > MaxQueueBytes) => Pushed(m).queue = q /\ Pushed(m).bytes = b
  BY <1>7
<1>11. m.size > MaxQueueBytes => Pushed(m).queue = queue /\ Pushed(m).bytes = bytes
  BY <1>8
<1> QED BY <1>9, <1>10, <1>11, Zenon

(* The same, message by message.                                              *)
LEMMA PushedSeq ==
  ASSUME queue \in Seq(Message), NEW m \in Message
  PROVE  LET q == Pushed(m).queue
         IN  /\ q \in Seq(Message)
             /\ \/ q = queue
                \/ \E n \in 0..Len(queue) :
                     /\ Len(q) = Len(queue) - n + 1
                     /\ \A i \in 1..Len(q) :
                          \/ i + n \in 1..Len(queue) /\ q[i] = queue[i + n]
                          \/ i = Len(q) /\ q[i] = m
<1>1. CASE Pushed(m).queue = queue
  BY <1>1
<1>2. ASSUME NEW n \in 0..Len(queue),
             Pushed(m).queue = Append(SubSeq(queue, n + 1, Len(queue)), m)
      PROVE  /\ Pushed(m).queue \in Seq(Message)
             /\ Len(Pushed(m).queue) = Len(queue) - n + 1
             /\ \A i \in 1..Len(Pushed(m).queue) :
                  \/ i + n \in 1..Len(queue) /\ Pushed(m).queue[i] = queue[i + n]
                  \/ i = Len(Pushed(m).queue) /\ Pushed(m).queue[i] = m
  <2> DEFINE s == SubSeq(queue, n + 1, Len(queue))
  <2>1. /\ s \in Seq(Message) /\ Len(s) = Len(queue) - n
        /\ \A i \in 1..(Len(queue) - n) : s[i] = queue[i + n] /\ i + n \in 1..Len(queue)
    BY SubSeqFacts
  <2>2. Pushed(m).queue = Append(s, m)
    BY <1>2
  <2> HIDE DEF s
  <2>3. /\ Append(s, m) \in Seq(Message) /\ Len(Append(s, m)) = Len(s) + 1
        /\ \A i \in 1..(Len(s) + 1) :
              \/ i \in 1..Len(s) /\ Append(s, m)[i] = s[i]
              \/ i = Len(s) + 1 /\ Append(s, m)[i] = m
    BY <2>1, AppendFacts
  <2> QED BY <2>1, <2>2, <2>3
<1> QED BY <1>1, <1>2, PushedIs

-----------------------------------------------------------------------------
(* The steps, by what they do to messages and answers *)

DataSame ==
  UNCHANGED <<tx, queue, bytes, pending, inbound, devq, events, requests, sent, answered>>

(* The connection is closed or replaced.                                      *)
DataCut ==
  /\ tx' = <<>> /\ inbound' = <<>>
  /\ UNCHANGED <<queue, bytes, pending, devq, events, requests, sent, answered>>

(* The channel is given up.                                                   *)
DataDrop ==
  /\ tx' = <<>> /\ inbound' = <<>> /\ queue' = <<>> /\ bytes' = 0 /\ pending' = <<>>
  /\ UNCHANGED <<devq, events, requests, sent, answered>>

(* A step leaves the data alone, loses some, or is one that moves it.         *)
LEMMA DataMoves ==
  ASSUME [Next]_vars
  PROVE  \/ DataSame \/ DataCut \/ DataDrop
         \/ QueueResponse \/ HandleSocketWritable \/ FlushBare \/ FlushOne
         \/ IgnoreEvent \/ PushEventReport \/ SendEventReport \/ SendFailed
         \/ AppSends \/ KernelRaises
<1>1. CASE \/ RunStart \/ EpollWait \/ EpollTimeout \/ EpollError \/ Dispatch
           \/ EndBatch \/ HandleChildExitEvent \/ ChildWatchFailed
  BY <1>1 DEF RunStart, EpollWait, EpollTimeout, EpollError, Dispatch, EndBatch,
     HandleChildExitEvent, ChildWatchFailed, DataSame, tables, env, hist
<1>2. CASE \/ ReadDrained \/ ReadFailed \/ SocketError \/ WritableClosed
           \/ CheckSocketFailureEvents \/ FlushFailed \/ FlushEnds \/ UpdateFailed
  BY <1>2 DEF ReadDrained, ReadFailed, SocketError, WritableClosed,
     CheckSocketFailureEvents, FlushFailed, FlushEnds, UpdateFailed, DataSame, DataCut,
     Reconnecting, DropSocketChannel, CloseSocket, tables, env, hist
<1>3. CASE \/ DeviceLost \/ DeviceDrained \/ DeviceUpdateFailed \/ ReconnectFailed
           \/ ReconnectAdopted \/ AdoptFailed \/ ParentAfterFork
  BY <1>3 DEF DeviceLost, DeviceDrained, DeviceUpdateFailed, ReconnectFailed,
     ReconnectAdopted, AdoptFailed, ParentAfterFork, DataSame, DataCut, DataDrop,
     Degrade, CloseSocket, DiscardAllEvents, tables, env, hist
<1>4. CASE AppCloses \/ DeviceFails \/ ChildExits
  BY <1>4 DEF AppCloses, DeviceFails, ChildExits, DataSame, monitorVars, tables, hist
<1>5. CASE UNCHANGED vars
  BY <1>5 DEF vars, DataSame
<1> QED BY <1>1, <1>2, <1>3, <1>4, <1>5 DEF Next, Monitor, Environment

(* Steps that only drop messages keep the order of the rest.                  *)
LEMMA OrderPlain ==
  ASSUME DataInv, DataSame \/ DataCut \/ DataDrop
  PROVE  DataInv'
<1> USE DEF DataInv
<1>1. SourceInv'
  <2>1. events' = events /\ requests' = requests /\ devq' = devq
    BY DEF DataSame, DataCut, DataDrop
  <2>2. inbound' = inbound \/ inbound' = <<>>
    BY DEF DataSame, DataCut, DataDrop
  <2>3. CASE inbound' = inbound
    BY <2>1, <2>3, Zenon DEF SourceInv
  <2>4. CASE inbound' = <<>>
    <3>1. /\ <<>> \in Seq(Request) /\ Len(<<>>) = 0
          /\ \A i \in 1..0 : FALSE
      OBVIOUS
    <3> QED BY <2>1, <2>4, <3>1, Zenon DEF SourceInv
  <2> QED BY <2>2, <2>3, <2>4
<1>2. StreamInv'
  <2>1. CASE DataSame
    BY <2>1 DEF StreamInv, DataSame, Sorted, Ahead, Passed, AllPassed
  <2>2. CASE DataCut
    BY <2>2 DEF StreamInv, DataCut, Sorted, Ahead, Passed, AllPassed
  <2>3. CASE DataDrop
    BY <2>3 DEF StreamInv, DataDrop, Sorted, Ahead, Passed, AllPassed
  <2> QED BY <2>1, <2>2, <2>3
<1>3. VerdictInv'
  <2>1. CASE DataSame
    BY <2>1 DEF VerdictInv, DataSame, Reported, AllReported, OneVerdictPerEvent
  <2>2. CASE DataCut
    BY <2>2 DEF VerdictInv, DataCut, Reported, AllReported, OneVerdictPerEvent
  <2>3. CASE DataDrop
    BY <2>3 DEF VerdictInv, DataDrop, Reported, AllReported, OneVerdictPerEvent
  <2> QED BY <2>1, <2>2, <2>3
<1> QED BY <1>1, <1>2, <1>3

(* A message pushed behind everything of its type keeps the stream sorted,    *)
(* whatever is evicted for it.                                                *)
LEMMA PushOrder ==
  ASSUME StreamInv, NEW m \in Message, queue' = Pushed(m).queue,
         \A i \in 1..Len(sent) : sent[i].type = m.type => sent[i].id < m.id,
         \A i \in 1..Len(tx) : tx[i].type = m.type => tx[i].id < m.id,
         \A i \in 1..Len(queue) : queue[i].type = m.type => queue[i].id < m.id
  PROVE  /\ queue' \in Seq(Message)
         /\ Sorted(queue') /\ Ahead(sent, queue') /\ Ahead(tx, queue')
         /\ \A i \in 1..Len(queue') :
              queue'[i] = m \/ \E k \in 1..Len(queue) : queue'[i] = queue[k]
<1>1. /\ queue \in Seq(Message) /\ sent \in Seq(Message) /\ tx \in Seq(Message)
      /\ Sorted(queue) /\ Ahead(sent, queue) /\ Ahead(tx, queue)
  BY DEF StreamInv
<1>2. /\ queue' \in Seq(Message)
      /\ \/ queue' = queue
         \/ \E n \in 0..Len(queue) :
              /\ Len(queue') = Len(queue) - n + 1
              /\ \A i \in 1..Len(queue') :
                   \/ i + n \in 1..Len(queue) /\ queue'[i] = queue[i + n]
                   \/ i = Len(queue') /\ queue'[i] = m
  BY <1>1, PushedSeq, Zenon
<1>3. CASE queue' = queue
  BY <1>1, <1>3, Zenon
<1>4. CASE queue' # queue
  <2>1. PICK n \in 0..Len(queue) :
          \A i \in 1..Len(queue') :
            \/ i + n \in 1..Len(queue) /\ queue'[i] = queue[i + n]
            \/ i = Len(queue') /\ queue'[i] = m
    BY <1>2, <1>4
  <2>2. Len(queue) \in Nat /\ Len(queue') \in Nat
    BY <1>1, <1>2
  <2>3. Sorted(queue')
    <3> SUFFICES ASSUME NEW i \in 1..Len(queue'), NEW j \in 1..Len(queue'), i < j,
                        queue'[i].type = queue'[j].type
                 PROVE  queue'[i].id < queue'[j].id
      BY DEF Sorted
    <3>1. i + n \in 1..Len(queue) /\ queue'[i] = queue[i + n]
      BY <2>1, <2>2
    <3>2. CASE j + n \in 1..Len(queue) /\ queue'[j] = queue[j + n]
      <4>1. i + n < j + n
        BY <2>2
      <4> QED BY <1>1, <3>1, <3>2, <4>1, Zenon DEF Sorted
    <3>3. CASE queue'[j] = m
      BY <3>1, <3>3
    <3> QED BY <2>1, <3>2, <3>3
  <2>4. Ahead(sent, queue')
    BY <1>1, <2>1 DEF Ahead
  <2>5. Ahead(tx, queue')
    BY <1>1, <2>1 DEF Ahead
  <2>6. \A i \in 1..Len(queue') :
          queue'[i] = m \/ \E k \in 1..Len(queue) : queue'[i] = queue[k]
    BY <2>1
  <2> QED BY <1>2, <2>3, <2>4, <2>5, <2>6
<1> QED BY <1>3, <1>4

(* HandleEventAnswer forgets one entry and moves up those behind it.          *)
LEMMA ForgottenIs ==
  ASSUME pending \in Seq(Nat), NEW e, \E i \in 1..Len(pending) : pending[i] = e
  PROVE  \E f \in 1..Len(pending) :
           /\ pending[f] = e
           /\ Forgotten(e) \in Seq(Nat)
           /\ Len(Forgotten(e)) = Len(pending) - 1
           /\ \A i \in 1..(Len(pending) - 1) :
                \/ i < f /\ Forgotten(e)[i] = pending[i]
                \/ i >= f /\ Forgotten(e)[i] = pending[i + 1]
<1> DEFINE T == {i \in 1..Len(pending) : pending[i] = e}
           First(i) == pending[i] = e /\ \A j \in 1..(i - 1) : pending[j] # e
           f == CHOOSE i \in 1..Len(pending) : First(i)
<1>1. T \subseteq Nat /\ T # {} /\ Len(pending) \in Nat
  OBVIOUS
<1>2. PICK x \in T : \A y \in T : x <= y
  BY <1>1, LeastNat, Zenon
<1>3. x \in 1..Len(pending) /\ pending[x] = e
  BY <1>2
<1>4. \A j \in 1..(x - 1) : pending[j] # e
  <2> SUFFICES ASSUME NEW j \in 1..(x - 1), pending[j] = e PROVE FALSE
    OBVIOUS
  <2>1. j \in 1..Len(pending) /\ ~ (x <= j)
    BY <1>1, <1>3
  <2> QED BY <1>2, <2>1
<1>5. f \in 1..Len(pending) /\ First(f)
  BY <1>3, <1>4, Zenon
<1>6. Forgotten(e) = SubSeq(pending, 1, f - 1) \o SubSeq(pending, f + 1, Len(pending))
  BY Zenon DEF Forgotten
<1>7. pending[f] = e
  BY <1>5
<1> HIDE DEF f
<1> DEFINE a == SubSeq(pending, 1, f - 1)
           b == SubSeq(pending, f + 1, Len(pending))
<1>8. /\ a \in Seq(Nat) /\ Len(a) = f - 1
      /\ \A i \in 1..(f - 1) : a[i] = pending[i]
  BY <1>5
<1>9. /\ b \in Seq(Nat) /\ Len(b) = Len(pending) - f
      /\ \A i \in 1..(Len(pending) - f) : b[i] = pending[i + f]
  BY <1>5
<1>10. Forgotten(e) = a \o b
  BY <1>6
<1> HIDE DEF a, b
<1>11. /\ a \o b \in Seq(Nat) /\ Len(a \o b) = Len(a) + Len(b)
       /\ \A i \in 1..(Len(a) + Len(b)) :
            (a \o b)[i] = IF i <= Len(a) THEN a[i] ELSE b[i - Len(a)]
  <2>1. a \in Seq(Nat) /\ b \in Seq(Nat)
    BY <1>8, <1>9
  <2> QED BY <2>1
<1>12. Len(a) + Len(b) = Len(pending) - 1
  BY <1>1, <1>5, <1>8, <1>9
<1>13. ASSUME NEW i \in 1..(Len(pending) - 1)
       PROVE  \/ i < f /\ Forgotten(e)[i] = pending[i]
              \/ i >= f /\ Forgotten(e)[i] = pending[i + 1]
  <2>1. CASE i < f
    <3>1. i <= Len(a) /\ i \in 1..(f - 1)
      BY <1>5, <1>8, <2>1
    <3> QED BY <1>8, <1>10, <1>11, <1>12, <2>1, <3>1
  <2>2. CASE ~ (i < f)
    <3>1. ~ (i <= Len(a)) /\ i - Len(a) \in 1..(Len(pending) - f)
          /\ (i - Len(a)) + f = i + 1 /\ i >= f
      BY <1>1, <1>5, <1>8, <2>2
    <3>2. Forgotten(e)[i] = b[i - Len(a)]
      BY <1>10, <1>11, <1>12, <3>1
    <3> QED BY <1>9, <3>1, <3>2
  <2> QED BY <2>1, <2>2
<1> QED BY <1>5, <1>7, <1>10, <1>11, <1>12, <1>13

(* Taking it over to the answered ones keeps one verdict per event.           *)
LEMMA AnswerOnce ==
  ASSUME VerdictInv, NEW e, HandleEventAnswer(e)
  PROVE  /\ pending' \in Seq(Nat) /\ answered' \in Seq(Nat)
         /\ \A i \in 1..Len(pending') : \E k \in 1..Len(pending) : pending'[i] = pending[k]
         /\ \A i \in 1..Len(answered') :
              \/ \E k \in 1..Len(pending) : answered'[i] = pending[k]
              \/ \E k \in 1..Len(answered) : answered'[i] = answered[k]
         /\ OneVerdictPerEvent'
<1>0. pending \in Seq(Nat) /\ answered \in Seq(Nat) /\ OneVerdictPerEvent
  BY DEF VerdictInv
<1>1. CASE UNCHANGED <<pending, answered>>
  BY <1>0, <1>1 DEF OneVerdictPerEvent
<1>2. CASE /\ \E i \in 1..Len(pending) : pending[i] = e
           /\ pending' = Forgotten(e)
           /\ answered' = Append(answered, e)
  <2>1. PICK f \in 1..Len(pending) :
           /\ pending[f] = e
           /\ pending' \in Seq(Nat)
           /\ Len(pending') = Len(pending) - 1
           /\ \A i \in 1..(Len(pending) - 1) :
                \/ i < f /\ pending'[i] = pending[i]
                \/ i >= f /\ pending'[i] = pending[i + 1]
    BY <1>0, <1>2, ForgottenIs, Zenon
  <2>2. e \in Nat /\ Len(pending) \in Nat
    BY <1>0, <2>1
  <2>3. /\ answered' \in Seq(Nat) /\ Len(answered') = Len(answered) + 1
        /\ \A i \in 1..(Len(answered) + 1) :
              \/ i \in 1..Len(answered) /\ answered'[i] = answered[i]
              \/ i = Len(answered) + 1 /\ answered'[i] = e
    BY <1>0, <1>2, <2>2, AppendFacts
  <2>4. /\ \A i, j \in 1..Len(answered) : i # j => answered[i] # answered[j]
        /\ \A i \in 1..Len(answered), j \in 1..Len(pending) : answered[i] # pending[j]
        /\ \A i, j \in 1..Len(pending) : i # j => pending[i] # pending[j]
    BY <1>0 DEF OneVerdictPerEvent
  <2>5. \A i \in 1..Len(pending') :
          \E k \in 1..Len(pending) : k # f /\ pending'[i] = pending[k]
    BY <2>1, <2>2
  <2>6. \A i, j \in 1..Len(answered') : i # j => answered'[i] # answered'[j]
    <3> SUFFICES ASSUME NEW i \in 1..Len(answered'), NEW j \in 1..Len(answered'),
                        i # j, answered'[i] = answered'[j]
                 PROVE  FALSE
      OBVIOUS
    <3>1. CASE i \in 1..Len(answered) /\ j \in 1..Len(answered)
      BY <2>3, <2>4, <3>1
    <3>2. CASE answered'[i] = e /\ j \in 1..Len(answered) /\ answered'[j] = answered[j]
      BY <2>1, <2>4, <3>2
    <3>3. CASE answered'[j] = e /\ i \in 1..Len(answered) /\ answered'[i] = answered[i]
      BY <2>1, <2>4, <3>3
    <3> QED BY <2>3, <3>1, <3>2, <3>3
  <2>7. \A i \in 1..Len(answered'), j \in 1..Len(pending') : answered'[i] # pending'[j]
    <3> SUFFICES ASSUME NEW i \in 1..Len(answered'), NEW j \in 1..Len(pending')
                 PROVE  answered'[i] # pending'[j]
      OBVIOUS
    <3>1. PICK k \in 1..Len(pending) : k # f /\ pending'[j] = pending[k]
      BY <2>5
    <3> QED BY <2>1, <2>3, <2>4, <3>1
  <2>8. \A i, j \in 1..Len(pending') : i # j => pending'[i] # pending'[j]
    <3> SUFFICES ASSUME NEW i \in 1..Len(pending'), NEW j \in 1..Len(pending'), i < j
                 PROVE  pending'[i] # pending'[j]
      BY <2>1, <2>2
    <3> DEFINE at(x) == IF x < f THEN x ELSE x + 1
    <3>1. at(i) \in 1..Len(pending) /\ at(j) \in 1..Len(pending) /\ at(i) # at(j)
      BY <2>1, <2>2
    <3>2. pending'[i] = pending[at(i)]
      BY <2>1, <2>2
    <3>3. pending'[j] = pending[at(j)]
      BY <2>1, <2>2
    <3> HIDE DEF at
    <3> QED BY <2>4, <3>1, <3>2, <3>3
  <2>9. \A i \in 1..Len(answered') :
              \/ \E k \in 1..Len(pending) : answered'[i] = pending[k]
              \/ \E k \in 1..Len(answered) : answered'[i] = answered[k]
    BY <2>1, <2>3
  <2> QED BY <2>1, <2>3, <2>5, <2>6, <2>7, <2>8, <2>9 DEF OneVerdictPerEvent
<1> QED BY <1>1, <1>2 DEF HandleEventAnswer

(* The request at the front: its response comes behind every earlier one.     *)
LEMMA FrontRequest ==
  ASSUME DataInv, inbound # <<>>
  PROVE  /\ Head(inbound) \in Request /\ Head(inbound).id \in 1..requests
         /\ Tail(inbound) \in Seq(Request)
         /\ \A k \in 1..Len(Tail(inbound)) :
              /\ Head(inbound).id < Tail(inbound)[k].id
              /\ \E l \in 1..Len(inbound) : Tail(inbound)[k] = inbound[l]
         /\ \A i, j \in 1..Len(Tail(inbound)) :
              i < j => Tail(inbound)[i].id < Tail(inbound)[j].id
         /\ \A i \in 1..Len(sent) : sent[i].type = "response" => sent[i].id < Head(inbound).id
         /\ \A i \in 1..Len(tx) : tx[i].type = "response" => tx[i].id < Head(inbound).id
         /\ \A i \in 1..Len(queue) :
              queue[i].type = "response" => queue[i].id < Head(inbound).id
<1>1. /\ inbound \in Seq(Request)
      /\ \A i \in 1..Len(inbound) : inbound[i].id \in 1..requests
      /\ \A i, j \in 1..Len(inbound) : i < j => inbound[i].id < inbound[j].id
  BY DEF DataInv, SourceInv
<1>2. /\ Tail(inbound) \in Seq(Request) /\ Head(inbound) = inbound[1]
      /\ inbound[1] \in Request
      /\ Len(inbound) \in Nat /\ Len(inbound) > 0 /\ 1 \in 1..Len(inbound)
      /\ Len(Tail(inbound)) = Len(inbound) - 1
      /\ \A i \in 1..Len(Tail(inbound)) :
           i + 1 \in 1..Len(inbound) /\ Tail(inbound)[i] = inbound[i + 1]
  BY <1>1, TailFacts
<1>3. \A k \in 1..Len(Tail(inbound)) :
        /\ Head(inbound).id < Tail(inbound)[k].id
        /\ \E l \in 1..Len(inbound) : Tail(inbound)[k] = inbound[l]
  BY <1>1, <1>2
<1>4. \A i, j \in 1..Len(Tail(inbound)) :
        i < j => Tail(inbound)[i].id < Tail(inbound)[j].id
  BY <1>1, <1>2
<1>5. \A i \in 1..Len(sent) : sent[i].type = "response" => sent[i].id < Head(inbound).id
  BY <1>2 DEF DataInv, StreamInv, Passed, AllPassed
<1>6. \A i \in 1..Len(tx) : tx[i].type = "response" => tx[i].id < Head(inbound).id
  BY <1>2 DEF DataInv, StreamInv, Passed, AllPassed
<1>7. \A i \in 1..Len(queue) : queue[i].type = "response" => queue[i].id < Head(inbound).id
  BY <1>2 DEF DataInv, StreamInv, Passed, AllPassed
<1> QED BY <1>1, <1>2, <1>3, <1>4, <1>5, <1>6, <1>7

(* The event at the front of the device: everything reported is older.        *)
LEMMA FrontEvent ==
  ASSUME DataInv, devq # <<>>
  PROVE  /\ Head(devq) \in Event
         /\ Head(devq).report \in Message /\ Head(devq).report.type = "report"
         /\ Head(devq).report.size \in ReportSizes
         /\ Head(devq).report.id \in 1..events
         /\ Tail(devq) \in Seq(Event)
         /\ \A k \in 1..Len(Tail(devq)) :
              /\ Head(devq).report.id < Tail(devq)[k].report.id
              /\ \E l \in 1..Len(devq) : Tail(devq)[k] = devq[l]
         /\ \A i, j \in 1..Len(Tail(devq)) :
              i < j => Tail(devq)[i].report.id < Tail(devq)[j].report.id
         /\ \A i \in 1..Len(sent) :
              sent[i].type = "report" => sent[i].id < Head(devq).report.id
         /\ \A i \in 1..Len(tx) :
              tx[i].type = "report" => tx[i].id < Head(devq).report.id
         /\ \A i \in 1..Len(queue) :
              queue[i].type = "report" => queue[i].id < Head(devq).report.id
         /\ \A i \in 1..Len(pending) : pending[i] < Head(devq).report.id
         /\ \A i \in 1..Len(answered) : answered[i] < Head(devq).report.id
<1>1. /\ devq \in Seq(Event)
      /\ \A i \in 1..Len(devq) :
           /\ devq[i].report.type = "report"
           /\ devq[i].report.size \in ReportSizes
           /\ devq[i].report.id \in 1..events
      /\ \A i, j \in 1..Len(devq) : i < j => devq[i].report.id < devq[j].report.id
  BY DEF DataInv, SourceInv
<1>2. /\ Tail(devq) \in Seq(Event) /\ Head(devq) = devq[1] /\ devq[1] \in Event
      /\ Len(devq) \in Nat /\ Len(devq) > 0 /\ 1 \in 1..Len(devq)
      /\ Len(Tail(devq)) = Len(devq) - 1
      /\ \A i \in 1..Len(Tail(devq)) :
           i + 1 \in 1..Len(devq) /\ Tail(devq)[i] = devq[i + 1]
  BY <1>1, TailFacts
<1>3. \A k \in 1..Len(Tail(devq)) :
        /\ Head(devq).report.id < Tail(devq)[k].report.id
        /\ \E l \in 1..Len(devq) : Tail(devq)[k] = devq[l]
  BY <1>1, <1>2
<1>4. \A i, j \in 1..Len(Tail(devq)) :
        i < j => Tail(devq)[i].report.id < Tail(devq)[j].report.id
  BY <1>1, <1>2
<1>5. \A i \in 1..Len(sent) : sent[i].type = "report" => sent[i].id < Head(devq).report.id
  BY <1>2 DEF DataInv, StreamInv, Passed, AllPassed
<1>6. \A i \in 1..Len(tx) : tx[i].type = "report" => tx[i].id < Head(devq).report.id
  BY <1>2 DEF DataInv, StreamInv, Passed, AllPassed
<1>7. \A i \in 1..Len(queue) : queue[i].type = "report" => queue[i].id < Head(devq).report.id
  BY <1>2 DEF DataInv, StreamInv, Passed, AllPassed
<1>8. \A i \in 1..Len(pending) : pending[i] < Head(devq).report.id
  BY <1>2 DEF DataInv, VerdictInv, Reported, AllReported
<1>9. \A i \in 1..Len(answered) : answered[i] < Head(devq).report.id
  BY <1>2 DEF DataInv, VerdictInv, Reported, AllReported
<1>10. Head(devq).report \in Message
  BY <1>2 DEF Event
<1> QED BY <1>1, <1>2, <1>3, <1>4, <1>5, <1>6, <1>7, <1>8, <1>9, <1>10

(* Reading the front event keeps the device's own order.                      *)
LEMMA SourceEvent ==
  ASSUME DataInv, devq # <<>>, devq' = Tail(devq), UNCHANGED <<events, requests>>,
         inbound' = inbound \/ inbound' = <<>>
  PROVE  SourceInv'
<1>1. SourceInv
  BY DEF DataInv
<1>2. /\ Tail(devq) \in Seq(Event)
      /\ \A k \in 1..Len(Tail(devq)) : \E l \in 1..Len(devq) : Tail(devq)[k] = devq[l]
      /\ \A i, j \in 1..Len(Tail(devq)) :
              i < j => Tail(devq)[i].report.id < Tail(devq)[j].report.id
  BY FrontEvent
<1>3. \A i \in 1..Len(devq') :
       /\ devq'[i].report.type = "report"
       /\ devq'[i].report.size \in ReportSizes
       /\ devq'[i].report.id \in 1..events'
  BY <1>1, <1>2, Zenon DEF SourceInv
<1>4. /\ inbound' \in Seq(Request)
      /\ \A i \in 1..Len(inbound') : inbound'[i].id \in 1..requests'
      /\ \A i, j \in 1..Len(inbound') : i < j => inbound'[i].id < inbound'[j].id
  <2>1. CASE inbound' = inbound
    BY <1>1, <2>1, Zenon DEF SourceInv
  <2>2. CASE inbound' = <<>>
    BY <2>2
  <2> QED BY <2>1, <2>2
<1> QED BY <1>1, <1>2, <1>3, <1>4 DEF SourceInv

(* A response is pushed: HandleSocketReadable.                                *)
LEMMA OrderQueueResponse ==
  ASSUME DataInv, QueueResponse
  PROVE  DataInv'
<1> DEFINE r == Head(inbound)
<1>1. /\ inbound # <<>> /\ inbound' = Tail(inbound)
      /\ DispatchSocketMessage(r)
      /\ UNCHANGED <<tx, devq, events, requests, sent>>
  BY DEF QueueResponse
<1>2. PICK d \in (IF r.kind = "policy" THEN DetailSizes ELSE {}) \cup {0} :
        Push([type |-> "response", id |-> r.id, size |-> d])
  BY DEF QueueResponse
<1> DEFINE m == [type |-> "response", id |-> r.id, size |-> d]
<1>3. d \in Nat
  BY SizeAssumption DEF SizeAssumption
<1>4. /\ r \in Request /\ r.id \in 1..requests
      /\ Tail(inbound) \in Seq(Request)
      /\ \A k \in 1..Len(Tail(inbound)) :
              /\ r.id < Tail(inbound)[k].id
              /\ \E l \in 1..Len(inbound) : Tail(inbound)[k] = inbound[l]
      /\ \A i, j \in 1..Len(Tail(inbound)) :
              i < j => Tail(inbound)[i].id < Tail(inbound)[j].id
      /\ \A i \in 1..Len(sent) : sent[i].type = "response" => sent[i].id < r.id
      /\ \A i \in 1..Len(tx) : tx[i].type = "response" => tx[i].id < r.id
      /\ \A i \in 1..Len(queue) : queue[i].type = "response" => queue[i].id < r.id
  BY <1>1, FrontRequest
<1> HIDE DEF r
<1>5. m \in Message /\ m.type = "response" /\ m.id = r.id
  BY <1>3, <1>4 DEF Message, Request
<1>6. queue' = Pushed(m).queue
  BY <1>2 DEF Push
<1> HIDE DEF m
<1>7. SourceInv /\ StreamInv /\ VerdictInv
  BY DEF DataInv
<1>8. /\ queue' \in Seq(Message)
      /\ Sorted(queue') /\ Ahead(sent, queue') /\ Ahead(tx, queue')
      /\ \A i \in 1..Len(queue') :
              queue'[i] = m \/ \E k \in 1..Len(queue) : queue'[i] = queue[k]
  BY <1>4, <1>5, <1>6, <1>7, PushOrder
<1>9. SourceInv'
  <2>1. \A i \in 1..Len(inbound') : inbound'[i].id \in 1..requests'
    BY <1>1, <1>4, <1>7, Zenon DEF SourceInv
  <2>2. inbound' \in Seq(Request)
        /\ \A i, j \in 1..Len(inbound') : i < j => inbound'[i].id < inbound'[j].id
    BY <1>1, <1>4, Zenon
  <2> QED BY <1>1, <1>7, <2>1, <2>2, Zenon DEF SourceInv
<1>10. \A x : Passed(x, events, devq, requests, inbound) =>
              Passed(x, events', devq', requests', inbound')
  BY <1>1, <1>4, Zenon DEF Passed
<1>11. Passed(m, events', devq', requests', inbound')
  BY <1>1, <1>4, <1>5 DEF Passed
<1>12. StreamInv'
  <2>1. AllPassed(queue', events', devq', requests', inbound')
    BY <1>7, <1>8, <1>10, <1>11, Zenon DEF StreamInv, AllPassed
  <2>2. AllPassed(sent', events', devq', requests', inbound')
    BY <1>1, <1>7, <1>10, Zenon DEF StreamInv, AllPassed
  <2>3. AllPassed(tx', events', devq', requests', inbound')
    BY <1>1, <1>7, <1>10, Zenon DEF StreamInv, AllPassed
  <2>4. /\ Sorted(sent') /\ Sorted(tx') /\ Ahead(sent', tx')
        /\ sent' \in Seq(Message) /\ tx' \in Seq(Message)
    BY <1>1, <1>7, Zenon DEF StreamInv
  <2>5. Ahead(sent', queue') /\ Ahead(tx', queue')
    BY <1>1, <1>8, Zenon
  <2> QED BY <1>8, <2>1, <2>2, <2>3, <2>4, <2>5, Zenon DEF StreamInv, Sorted, Ahead
<1>13. \A e : Reported(e, events, devq, queue) => Reported(e, events', devq', queue')
  <2> SUFFICES ASSUME NEW e, Reported(e, events, devq, queue)
               PROVE  Reported(e, events', devq', queue')
    OBVIOUS
  <2>1. \A k \in 1..Len(queue') : queue'[k].type = "report" => e < queue'[k].id
    BY <1>5, <1>8 DEF Reported
  <2> QED BY <1>1, <2>1, Zenon DEF Reported
<1>14. VerdictInv'
  <2>1. /\ pending' \in Seq(Nat) /\ answered' \in Seq(Nat)
        /\ \A i \in 1..Len(pending') : \E k \in 1..Len(pending) : pending'[i] = pending[k]
        /\ \A i \in 1..Len(answered') :
              \/ \E k \in 1..Len(pending) : answered'[i] = pending[k]
              \/ \E k \in 1..Len(answered) : answered'[i] = answered[k]
        /\ OneVerdictPerEvent'
    <3>1. HandleEventAnswer(r.event)
      BY <1>1 DEF DispatchSocketMessage, HandleEventAnswer
    <3> QED BY <1>7, <3>1, AnswerOnce, Zenon
  <2>2. AllReported(pending', events', devq', queue')
    BY <1>7, <1>13, <2>1, Zenon DEF VerdictInv, AllReported
  <2>3. AllReported(answered', events', devq', queue')
    BY <1>7, <1>13, <2>1, Zenon DEF VerdictInv, AllReported
  <2> QED BY <2>1, <2>2, <2>3, Zenon DEF VerdictInv
<1> QED BY <1>9, <1>12, <1>14 DEF DataInv

(* A report that goes out is outstanding once, the oldest entry may go for it. *)
LEMMA AwaitOnce ==
  ASSUME VerdictInv, NEW m \in Message, pending' = Awaited(m), answered' = answered,
         m.type = "report" => /\ \A i \in 1..Len(pending) : pending[i] < m.id
                              /\ \A i \in 1..Len(answered) : answered[i] < m.id
  PROVE  /\ pending' \in Seq(Nat)
         /\ \A i \in 1..Len(pending') :
              \/ m.type = "report" /\ pending'[i] = m.id
              \/ \E k \in 1..Len(pending) : pending'[i] = pending[k]
         /\ OneVerdictPerEvent'
<1>1. pending \in Seq(Nat) /\ answered \in Seq(Nat) /\ OneVerdictPerEvent
  BY DEF VerdictInv
<1>2. CASE m.type # "report"
  <2>1. pending' = pending
    BY <1>2 DEF Awaited
  <2> QED BY <1>1, <2>1, Zenon DEF OneVerdictPerEvent
<1>3. CASE m.type = "report"
  <2> DEFINE p == IF Len(pending) >= MaxPending THEN Tail(pending) ELSE pending
  <2>1. pending' = Append(p, m.id)
    BY <1>3 DEF Awaited, PushPendingAnswer
  <2>2. /\ p \in Seq(Nat)
        /\ \E n \in 0..1 : \A i \in 1..Len(p) :
             i + n \in 1..Len(pending) /\ p[i] = pending[i + n]
    <3>1. CASE Len(pending) >= MaxPending
      <4>1. pending # <<>>
        BY <1>1, <3>1, LimitAssumption DEF LimitAssumption
      <4>2. /\ Tail(pending) \in Seq(Nat)
            /\ \A i \in 1..Len(Tail(pending)) :
                 i + 1 \in 1..Len(pending) /\ Tail(pending)[i] = pending[i + 1]
        BY <1>1, <4>1, TailFacts
      <4>3. p = Tail(pending)
        BY <3>1
      <4> HIDE DEF p
      <4> QED BY <4>2, <4>3
    <3>2. CASE ~ (Len(pending) >= MaxPending)
      <4>1. p = pending
        BY <3>2
      <4> HIDE DEF p
      <4>2. \A i \in 1..Len(pending) : i + 0 = i
        BY <1>1
      <4>3. 0 \in 0..1
        OBVIOUS
      <4> QED BY <1>1, <4>1, <4>2, <4>3
    <3> QED BY <3>1, <3>2
  <2> HIDE DEF p
  <2>3. PICK n \in 0..1 : \A i \in 1..Len(p) :
             i + n \in 1..Len(pending) /\ p[i] = pending[i + n]
    BY <2>2
  <2>4. m.id \in Nat
    BY DEF Message
  <2>5. /\ pending' \in Seq(Nat) /\ Len(p) \in Nat /\ Len(pending') = Len(p) + 1
        /\ \A i \in 1..(Len(p) + 1) :
             \/ i \in 1..Len(p) /\ pending'[i] = p[i]
             \/ i = Len(p) + 1 /\ pending'[i] = m.id
    BY <2>1, <2>2, <2>4, AppendFacts
  <2>6. \A i \in 1..Len(pending') :
          \/ i = Len(pending') /\ pending'[i] = m.id
          \/ i + n \in 1..Len(pending) /\ pending'[i] = pending[i + n]
    BY <2>3, <2>5
  <2>7. /\ \A i, j \in 1..Len(answered) : i # j => answered[i] # answered[j]
        /\ \A i \in 1..Len(answered), j \in 1..Len(pending) : answered[i] # pending[j]
        /\ \A i, j \in 1..Len(pending) : i # j => pending[i] # pending[j]
    BY <1>1 DEF OneVerdictPerEvent
  <2>8. /\ \A i \in 1..Len(pending) : pending[i] \in Nat /\ pending[i] # m.id
        /\ \A i \in 1..Len(answered) : answered[i] \in Nat /\ answered[i] # m.id
    BY <1>1, <1>3, <2>4
  <2>9. \A i \in 1..Len(answered), j \in 1..Len(pending') : answered[i] # pending'[j]
    BY <2>6, <2>7, <2>8
  <2>10. \A i, j \in 1..Len(pending') : i # j => pending'[i] # pending'[j]
    <3> SUFFICES ASSUME NEW i \in 1..Len(pending'), NEW j \in 1..Len(pending'), i # j
                 PROVE  pending'[i] # pending'[j]
      OBVIOUS
    <3>1. i + n # j + n
      BY <2>5
    <3> QED BY <2>6, <2>7, <2>8, <3>1
  <2>11. OneVerdictPerEvent'
    BY <2>7, <2>9, <2>10, Zenon DEF OneVerdictPerEvent
  <2>12. \A i \in 1..Len(pending') :
              \/ m.type = "report" /\ pending'[i] = m.id
              \/ \E k \in 1..Len(pending) : pending'[i] = pending[k]
    BY <1>3, <2>6
  <2> QED BY <2>5, <2>11, <2>12
<1> QED BY <1>2, <1>3

(* What is left of the Tx buffer stays behind what went out of it.            *)
LEMMA OrderWritable ==
  ASSUME DataInv, HandleSocketWritable
  PROVE  DataInv'
<1>1. UNCHANGED <<queue, pending, answered, devq, inbound, events, requests>>
  BY DEF HandleSocketWritable, tables, env
<1>2. SourceInv /\ StreamInv /\ VerdictInv
  BY DEF DataInv
<1>3. SourceInv' /\ VerdictInv'
  BY <1>1, <1>2, Zenon DEF SourceInv, VerdictInv, OneVerdictPerEvent
<1>4. CASE UNCHANGED <<sent, tx>>
  BY <1>1, <1>2, <1>3, <1>4, Zenon DEF StreamInv, DataInv
<1>5. CASE ~ UNCHANGED <<sent, tx>>
  <2>1. PICK n \in 0..Len(tx) :
          sent' = sent \o SubSeq(tx, 1, n) /\ tx' = SubSeq(tx, n + 1, Len(tx))
    BY <1>5 DEF HandleSocketWritable
  <2>2. sent \in Seq(Message) /\ tx \in Seq(Message)
    BY <1>2 DEF StreamInv
  <2> DEFINE a == SubSeq(tx, 1, n)
  <2>3. /\ a \in Seq(Message) /\ Len(a) = n
        /\ \A i \in 1..n : a[i] = tx[i] /\ i \in 1..Len(tx)
        /\ tx' \in Seq(Message)
        /\ Len(tx') = Len(tx) - n
        /\ \A i \in 1..(Len(tx) - n) : tx'[i] = tx[i + n] /\ i + n \in 1..Len(tx)
    BY <2>1, <2>2, SubSeqFacts
  <2>4. sent' = sent \o a
    BY <2>1
  <2> HIDE DEF a
  <2>5. /\ sent' \in Seq(Message) /\ Len(sent') = Len(sent) + n /\ Len(sent) \in Nat
        /\ \A i \in 1..Len(sent') :
             \/ i \in 1..Len(sent) /\ sent'[i] = sent[i]
             \/ i > Len(sent) /\ i - Len(sent) \in 1..n /\ sent'[i] = tx[i - Len(sent)]
                /\ i - Len(sent) \in 1..Len(tx)
    <3>1. /\ sent \o a \in Seq(Message) /\ Len(sent \o a) = Len(sent) + Len(a)
          /\ Len(sent) \in Nat
          /\ \A i \in 1..(Len(sent) + Len(a)) :
               (sent \o a)[i] = IF i <= Len(sent) THEN sent[i] ELSE a[i - Len(sent)]
      <4>1. sent \in Seq(Message) /\ a \in Seq(Message)
        BY <2>2, <2>3
      <4> QED BY <4>1
    <3>2. n \in Nat
      OBVIOUS
    <3>3. ASSUME NEW i \in 1..(Len(sent) + n), i <= Len(sent)
          PROVE  i \in 1..Len(sent) /\ sent'[i] = sent[i]
      BY <2>3, <2>4, <3>1, <3>2, <3>3
    <3>4. ASSUME NEW i \in 1..(Len(sent) + n), ~ (i <= Len(sent))
          PROVE  i > Len(sent) /\ i - Len(sent) \in 1..n /\ sent'[i] = tx[i - Len(sent)]
                 /\ i - Len(sent) \in 1..Len(tx)
      <4>1. i > Len(sent) /\ i - Len(sent) \in 1..n
        BY <3>1, <3>2, <3>4
      <4>2. sent'[i] = a[i - Len(sent)]
        BY <2>3, <2>4, <3>1, <3>4
      <4> QED BY <2>3, <4>1, <4>2
    <3> QED BY <2>3, <2>4, <3>1, <3>3, <3>4
  <2>6. /\ Sorted(sent) /\ Sorted(tx) /\ Sorted(queue)
        /\ Ahead(sent, tx) /\ Ahead(sent, queue) /\ Ahead(tx, queue)
        /\ AllPassed(sent, events, devq, requests, inbound)
        /\ AllPassed(tx, events, devq, requests, inbound)
        /\ AllPassed(queue, events, devq, requests, inbound)
        /\ queue \in Seq(Message)
    BY <1>2 DEF StreamInv
  <2>7. Sorted(sent')
    <3> SUFFICES ASSUME NEW i \in 1..Len(sent'), NEW j \in 1..Len(sent'), i < j,
                        sent'[i].type = sent'[j].type
                 PROVE  sent'[i].id < sent'[j].id
      BY DEF Sorted
    <3>1. CASE i \in 1..Len(sent) /\ j \in 1..Len(sent)
      <4>1. sent'[i] = sent[i] /\ sent'[j] = sent[j]
        BY <2>5, <3>1
      <4> QED BY <2>6, <3>1, <4>1, Zenon DEF Sorted
    <3>2. CASE i \in 1..Len(sent) /\ ~ (j \in 1..Len(sent))
      <4>1. sent'[i] = sent[i]
        BY <2>5, <3>2
      <4>2. PICK k \in 1..Len(tx) : sent'[j] = tx[k]
        BY <2>5, <3>2
      <4> QED BY <2>6, <3>2, <4>1, <4>2, Zenon DEF Ahead
    <3>3. CASE ~ (i \in 1..Len(sent))
      <4>1. ~ (j \in 1..Len(sent)) /\ i - Len(sent) < j - Len(sent)
        BY <2>5, <3>3
      <4>2. PICK x \in 1..Len(tx) : x = i - Len(sent) /\ sent'[i] = tx[x]
        BY <2>5, <3>3
      <4>3. PICK y \in 1..Len(tx) : y = j - Len(sent) /\ sent'[j] = tx[y]
        BY <2>5, <4>1
      <4>4. x < y
        BY <4>1, <4>2, <4>3
      <4> QED BY <2>6, <4>2, <4>3, <4>4, Zenon DEF Sorted
    <3> QED BY <3>1, <3>2, <3>3
  <2>8. Sorted(tx')
    <3> SUFFICES ASSUME NEW i \in 1..Len(tx'), NEW j \in 1..Len(tx'), i < j,
                        tx'[i].type = tx'[j].type
                 PROVE  tx'[i].id < tx'[j].id
      BY DEF Sorted
    <3>1. i + n < j + n
      BY <2>3
    <3>2. PICK x \in 1..Len(tx) : x = i + n /\ tx'[i] = tx[x]
      BY <2>3
    <3>3. PICK y \in 1..Len(tx) : y = j + n /\ tx'[j] = tx[y]
      BY <2>3
    <3> QED BY <2>6, <3>1, <3>2, <3>3, Zenon DEF Sorted
  <2>9. Ahead(sent', tx')
    <3> SUFFICES ASSUME NEW i \in 1..Len(sent'), NEW j \in 1..Len(tx'),
                        sent'[i].type = tx'[j].type
                 PROVE  sent'[i].id < tx'[j].id
      BY DEF Ahead
    <3>1. CASE i \in 1..Len(sent)
      <4>1. sent'[i] = sent[i]
        BY <2>5, <3>1
      <4>2. PICK k \in 1..Len(tx) : tx'[j] = tx[k]
        BY <2>3
      <4> QED BY <2>6, <3>1, <4>1, <4>2, Zenon DEF Ahead
    <3>2. CASE ~ (i \in 1..Len(sent))
      <4>1. i - Len(sent) < j + n
        BY <2>3, <2>5, <3>2
      <4>2. PICK x \in 1..Len(tx) : x = i - Len(sent) /\ sent'[i] = tx[x]
        BY <2>5, <3>2
      <4>3. PICK y \in 1..Len(tx) : y = j + n /\ tx'[j] = tx[y]
        BY <2>3
      <4>4. x < y
        BY <4>1, <4>2, <4>3
      <4> QED BY <2>6, <4>2, <4>3, <4>4, Zenon DEF Sorted
    <3> QED BY <3>1, <3>2
  <2>10. Ahead(sent', queue)
    BY <2>5, <2>6 DEF Ahead
  <2>11. Ahead(tx', queue)
    BY <2>3, <2>6 DEF Ahead
  <2>12. AllPassed(sent', events, devq, requests, inbound)
    BY <2>5, <2>6, Zenon DEF AllPassed
  <2>13. AllPassed(tx', events, devq, requests, inbound)
    BY <2>3, <2>6, Zenon DEF AllPassed
  <2>14. StreamInv'
    BY <1>1, <2>3, <2>5, <2>6, <2>7, <2>8, <2>9, <2>10, <2>11, <2>12, <2>13, Zenon
       DEF StreamInv
  <2> QED BY <1>3, <2>14 DEF DataInv
<1> QED BY <1>4, <1>5

(* A bare response keeps its place and its identifier.                        *)
LEMMA BareIs ==
  ASSUME queue \in Seq(Message), FlushBare
  PROVE  /\ queue # <<>> /\ queue' \in Seq(Message) /\ Len(queue') = Len(queue)
         /\ queue'[1].size = 0 /\ Tail(queue') = Tail(queue) /\ queue' # <<>>
         /\ \A i \in 1..Len(queue) :
              queue'[i].type = queue[i].type /\ queue'[i].id = queue[i].id
<1> DEFINE h == [Head(queue) EXCEPT !.size = 0]
<1>1. queue # <<>> /\ queue' = <<h>> \o Tail(queue)
  BY DEF FlushBare, Flushing
<1>2. /\ Tail(queue) \in Seq(Message) /\ Head(queue) = queue[1] /\ queue[1] \in Message
      /\ Len(queue) \in Nat /\ Len(queue) > 0
      /\ Len(Tail(queue)) = Len(queue) - 1
      /\ \A i \in 1..Len(Tail(queue)) : Tail(queue)[i] = queue[i + 1]
  BY <1>1, TailFacts
<1>3. /\ h \in Message /\ h.type = queue[1].type /\ h.id = queue[1].id /\ h.size = 0
  BY <1>2 DEF Message
<1> HIDE DEF h
<1> DEFINE t == Tail(queue)
<1>4. /\ <<h>> \o t \in Seq(Message) /\ Len(<<h>> \o t) = 1 + Len(t)
      /\ (<<h>> \o t)[1] = h /\ Tail(<<h>> \o t) = t
      /\ \A i \in 2..(1 + Len(t)) : (<<h>> \o t)[i] = t[i - 1]
  <2>1. t \in Seq(Message)
    BY <1>2
  <2> HIDE DEF t
  <2> QED BY <1>3, <2>1
<1>5. \A i \in 1..Len(queue) :
              queue'[i].type = queue[i].type /\ queue'[i].id = queue[i].id
  <2> SUFFICES ASSUME NEW i \in 1..Len(queue)
               PROVE  queue'[i].type = queue[i].type /\ queue'[i].id = queue[i].id
    OBVIOUS
  <2>1. CASE i = 1
    BY <1>1, <1>3, <1>4, <2>1
  <2>2. CASE i # 1
    <3>1. i \in 2..(1 + Len(t)) /\ i - 1 \in 1..Len(t) /\ (i - 1) + 1 = i
      BY <1>2, <2>2
    <3>2. queue'[i] = t[i - 1] /\ t[i - 1] = queue[(i - 1) + 1]
      BY <1>1, <1>2, <1>4, <3>1
    <3> QED BY <3>1, <3>2
  <2> QED BY <2>1, <2>2
<1> QED BY <1>1, <1>2, <1>3, <1>4, <1>5

(* Leaving out the body of a response keeps the order of the stream.          *)
LEMMA OrderFlushBare ==
  ASSUME DataInv, FlushBare
  PROVE  DataInv'
<1>1. SourceInv /\ StreamInv /\ VerdictInv
  BY DEF DataInv
<1>2. UNCHANGED <<tx, pending, inbound, devq, events, requests, sent, answered>>
  BY DEF FlushBare, env, hist
<1>3. /\ queue' \in Seq(Message) /\ Len(queue') = Len(queue)
      /\ \A i \in 1..Len(queue) :
              queue'[i].type = queue[i].type /\ queue'[i].id = queue[i].id
  BY <1>1, BareIs DEF StreamInv
<1>4. Sorted(queue') /\ Ahead(sent, queue') /\ Ahead(tx, queue')
  BY <1>1, <1>3, Zenon DEF StreamInv, Sorted, Ahead
<1>5. AllPassed(queue', events, devq, requests, inbound)
  BY <1>1, <1>3, Zenon DEF StreamInv, AllPassed, Passed
<1>6. AllReported(pending, events, devq, queue')
  BY <1>1, <1>3, Zenon DEF VerdictInv, AllReported, Reported
<1>7. AllReported(answered, events, devq, queue')
  BY <1>1, <1>3, Zenon DEF VerdictInv, AllReported, Reported
<1>8. SourceInv'
  BY <1>1, <1>2, Zenon DEF SourceInv
<1>9. StreamInv'
  BY <1>1, <1>2, <1>3, <1>4, <1>5, Zenon DEF StreamInv
<1>10. VerdictInv'
  BY <1>1, <1>2, <1>6, <1>7, Zenon DEF VerdictInv, OneVerdictPerEvent
<1> QED BY <1>8, <1>9, <1>10 DEF DataInv

(* The Tx buffer is empty, and one message goes to the kernel or into it:     *)
(* what was sent before is older, what stays queued is newer.                 *)
LEMMA HandOver ==
  ASSUME NEW m \in Message, NEW q \in Seq(Message), NEW ev, NEW dq, NEW rq, NEW ib,
         sent \in Seq(Message), Sorted(sent), Sorted(q), Ahead(sent, q), tx = <<>>,
         AllPassed(sent, ev, dq, rq, ib), AllPassed(q, ev, dq, rq, ib),
         Passed(m, ev, dq, rq, ib),
         \A i \in 1..Len(sent) : sent[i].type = m.type => sent[i].id < m.id,
         \A i \in 1..Len(q) : q[i].type = m.type => m.id < q[i].id,
         \/ sent' = Append(sent, m) /\ tx' = tx
         \/ tx' = <<m>> /\ sent' = sent
  PROVE  /\ sent' \in Seq(Message) /\ tx' \in Seq(Message)
         /\ Sorted(sent') /\ Sorted(tx')
         /\ Ahead(sent', tx') /\ Ahead(sent', q) /\ Ahead(tx', q)
         /\ AllPassed(sent', ev, dq, rq, ib) /\ AllPassed(tx', ev, dq, rq, ib)
<1>1. CASE sent' = Append(sent, m) /\ tx' = tx
  <2>1. /\ sent' \in Seq(Message) /\ Len(sent) \in Nat
        /\ Len(sent') = Len(sent) + 1
        /\ \A i \in 1..Len(sent') :
              \/ i \in 1..Len(sent) /\ sent'[i] = sent[i]
              \/ i = Len(sent) + 1 /\ sent'[i] = m
    BY <1>1, AppendFacts
  <2>2. tx' \in Seq(Message) /\ Len(tx') = 0
    BY <1>1
  <2>3. Sorted(sent')
    <3> SUFFICES ASSUME NEW i \in 1..Len(sent'), NEW j \in 1..Len(sent'), i < j,
                        sent'[i].type = sent'[j].type
                 PROVE  sent'[i].id < sent'[j].id
      BY DEF Sorted
    <3>1. i \in 1..Len(sent) /\ sent'[i] = sent[i]
      BY <2>1
    <3> QED BY <2>1, <3>1 DEF Sorted
  <2>4. Sorted(tx') /\ Ahead(sent', tx') /\ Ahead(tx', q)
    BY <2>2 DEF Sorted, Ahead
  <2>5. Ahead(sent', q)
    BY <2>1 DEF Ahead
  <2>6. AllPassed(sent', ev, dq, rq, ib)
    BY <2>1, Zenon DEF AllPassed
  <2>7. AllPassed(tx', ev, dq, rq, ib)
    BY <2>2 DEF AllPassed
  <2> QED BY <2>1, <2>2, <2>3, <2>4, <2>5, <2>6, <2>7
<1>2. CASE tx' = <<m>> /\ sent' = sent
  <2>1. tx' \in Seq(Message) /\ Len(tx') = 1 /\ tx'[1] = m
    BY <1>2
  <2>2. \A i \in 1..Len(tx') : i = 1 /\ tx'[i] = m
    BY <2>1
  <2>3. Sorted(tx')
    BY <2>2 DEF Sorted
  <2>4. Ahead(sent', tx') /\ Ahead(tx', q)
    <3>1. Ahead(sent', tx')
      BY <1>2, <2>2 DEF Ahead
    <3>2. Ahead(tx', q)
      BY <2>2 DEF Ahead
    <3> QED BY <3>1, <3>2
  <2>5. AllPassed(tx', ev, dq, rq, ib)
    BY <2>2, Zenon DEF AllPassed
  <2> QED BY <1>2, <2>1, <2>3, <2>4, <2>5, Zenon
<1> QED BY <1>1, <1>2

(* FlushSocketTxQueue: the front of the queue.                                *)
LEMMA OrderFlushOne ==
  ASSUME DataInv, FlushOne
  PROVE  DataInv'
<1> DEFINE m == Head(queue)
           q == Tail(queue)
<1>1. SourceInv /\ StreamInv /\ VerdictInv
  BY DEF DataInv
<1>2. /\ queue # <<>> /\ tx = <<>> /\ queue' = q /\ pending' = Awaited(m)
      /\ \/ sent' = Append(sent, m) /\ tx' = tx
         \/ tx' = <<m>> /\ sent' = sent
      /\ UNCHANGED <<inbound, devq, events, requests, answered>>
  BY DEF FlushOne, Flushing, env
<1>3. /\ q \in Seq(Message) /\ m = queue[1] /\ m \in Message
      /\ Len(queue) \in Nat /\ 1 \in 1..Len(queue)
      /\ Len(q) = Len(queue) - 1
      /\ \A i \in 1..Len(q) : i + 1 \in 1..Len(queue) /\ q[i] = queue[i + 1]
  BY <1>1, <1>2, TailFacts DEF StreamInv
<1> HIDE DEF m, q
<1>4. /\ sent \in Seq(Message) /\ Sorted(sent) /\ Sorted(queue) /\ Ahead(sent, queue)
      /\ AllPassed(sent, events, devq, requests, inbound)
      /\ AllPassed(queue, events, devq, requests, inbound)
  BY <1>1 DEF StreamInv
<1>5. /\ Ahead(sent, q)
      /\ \A i \in 1..Len(sent) : sent[i].type = m.type => sent[i].id < m.id
  BY <1>3, <1>4 DEF Ahead
<1>6. \A i \in 1..Len(q) : q[i].type = m.type => m.id < q[i].id
  <2> SUFFICES ASSUME NEW i \in 1..Len(q), q[i].type = m.type PROVE m.id < q[i].id
    OBVIOUS
  <2>1. 1 < i + 1 /\ i + 1 \in 1..Len(queue) /\ q[i] = queue[i + 1]
    BY <1>3
  <2> QED BY <1>3, <1>4, <2>1 DEF Sorted
<1>7. Sorted(q)
  <2> SUFFICES ASSUME NEW i \in 1..Len(q), NEW j \in 1..Len(q), i < j,
                      q[i].type = q[j].type
               PROVE  q[i].id < q[j].id
    BY DEF Sorted
  <2>1. i + 1 < j + 1
    BY <1>3
  <2> QED BY <1>3, <1>4, <2>1, Zenon DEF Sorted
<1>8. /\ AllPassed(q, events, devq, requests, inbound)
      /\ Passed(m, events, devq, requests, inbound)
  BY <1>3, <1>4, Zenon DEF AllPassed
<1>9. StreamInv'
  <2>1. /\ sent' \in Seq(Message) /\ tx' \in Seq(Message)
        /\ Sorted(sent') /\ Sorted(tx')
        /\ Ahead(sent', tx') /\ Ahead(sent', q) /\ Ahead(tx', q)
        /\ AllPassed(sent', events, devq, requests, inbound)
        /\ AllPassed(tx', events, devq, requests, inbound)
    BY <1>2, <1>3, <1>4, <1>5, <1>6, <1>7, <1>8, HandOver
  <2> QED BY <1>2, <1>3, <1>7, <1>8, <2>1, Zenon DEF StreamInv
<1>10. SourceInv'
  BY <1>1, <1>2, Zenon DEF SourceInv
<1>11. VerdictInv'
  <2>1. m.type = "report" => /\ \A i \in 1..Len(pending) : pending[i] < m.id
                             /\ \A i \in 1..Len(answered) : answered[i] < m.id
    BY <1>1, <1>3, Zenon DEF VerdictInv, AllReported, Reported
  <2>2. /\ pending' \in Seq(Nat)
        /\ \A i \in 1..Len(pending') :
              \/ m.type = "report" /\ pending'[i] = m.id
              \/ \E k \in 1..Len(pending) : pending'[i] = pending[k]
        /\ OneVerdictPerEvent'
    BY <1>1, <1>2, <1>3, <2>1, AwaitOnce, Zenon
  <2>3. \A e : Reported(e, events, devq, queue) => Reported(e, events, devq, q)
    BY <1>3, Zenon DEF Reported
  <2>4. m.type = "report" => Reported(m.id, events, devq, q)
    BY <1>6, <1>8 DEF Reported, Passed
  <2>5. AllReported(pending', events, devq, q)
    BY <1>1, <2>2, <2>3, <2>4, Zenon DEF VerdictInv, AllReported
  <2>6. AllReported(answered, events, devq, q)
    BY <1>1, <2>3, Zenon DEF VerdictInv, AllReported
  <2> QED BY <1>1, <1>2, <2>2, <2>5, <2>6, Zenon DEF VerdictInv
<1> QED BY <1>9, <1>10, <1>11 DEF DataInv

(* An event leaves the device: nothing that was reported is younger than      *)
(* what the device still holds.                                               *)
LEMMA EventRead ==
  ASSUME DataInv, devq # <<>>, NEW ib, ib = inbound \/ ib = <<>>
  PROVE  /\ \A x : Passed(x, events, devq, requests, inbound) =>
                   Passed(x, events, Tail(devq), requests, ib)
         /\ \A e, s : Reported(e, events, devq, s) => Reported(e, events, Tail(devq), s)
         /\ Passed(Head(devq).report, events, Tail(devq), requests, ib)
<1>1. \A k \in 1..Len(Tail(devq)) :
        /\ Head(devq).report.id < Tail(devq)[k].report.id
        /\ \E l \in 1..Len(devq) : Tail(devq)[k] = devq[l]
  BY FrontEvent
<1>2. Head(devq).report.type = "report" /\ Head(devq).report.id \in 1..events
  BY FrontEvent
<1>3. \A x : Passed(x, events, devq, requests, inbound) =>
             Passed(x, events, Tail(devq), requests, ib)
  <2>1. \A k \in 1..Len(ib) : ib = inbound
    OBVIOUS
  <2> QED BY <1>1, <2>1, Zenon DEF Passed
<1>4. \A e, s : Reported(e, events, devq, s) => Reported(e, events, Tail(devq), s)
  BY <1>1, Zenon DEF Reported
<1>5. Passed(Head(devq).report, events, Tail(devq), requests, ib)
  <2> DEFINE m == Head(devq).report
             t == Tail(devq)
  <2>1. m.type = "report" /\ m.id \in 1..events
        /\ \A k \in 1..Len(t) : m.id < t[k].report.id
    BY <1>1, <1>2
  <2> HIDE DEF m, t
  <2>2. Passed(m, events, t, requests, ib)
    BY <2>1 DEF Passed
  <2> QED BY <2>2 DEF m, t
<1> QED BY <1>3, <1>4, <1>5

(* An ignored event keeps the order of the stream.                            *)
LEMMA OrderIgnore ==
  ASSUME DataInv, IgnoreEvent
  PROVE  DataInv'
<1>1. SourceInv /\ StreamInv /\ VerdictInv
  BY DEF DataInv
<1>2. /\ devq # <<>> /\ devq' = Tail(devq)
      /\ UNCHANGED <<tx, queue, pending, inbound, events, requests, sent, answered>>
  BY DEF IgnoreEvent, Reading, tables, hist
<1>3. SourceInv'
  BY <1>2, SourceEvent
<1>4. /\ \A x : Passed(x, events, devq, requests, inbound) =>
                Passed(x, events, Tail(devq), requests, inbound)
      /\ \A e, s : Reported(e, events, devq, s) => Reported(e, events, Tail(devq), s)
  BY <1>2, EventRead
<1>5. StreamInv'
  BY <1>1, <1>2, <1>4, Zenon DEF StreamInv, AllPassed
<1>6. VerdictInv'
  BY <1>1, <1>2, <1>4, Zenon DEF VerdictInv, AllReported, OneVerdictPerEvent
<1> QED BY <1>3, <1>5, <1>6 DEF DataInv

(* The event is queued, with the channel up or just dropped.                  *)
LEMMA OrderPushEvent ==
  ASSUME DataInv, PushEventReport \/ SendFailed
  PROVE  DataInv'
<1> DEFINE m == Head(devq).report
<1>1. SourceInv /\ StreamInv /\ VerdictInv
  BY DEF DataInv
<1>2. /\ devq # <<>> /\ devq' = Tail(devq) /\ queue' = Pushed(m).queue
      /\ \/ tx' = tx /\ inbound' = inbound
         \/ tx' = <<>> /\ inbound' = <<>>
      /\ UNCHANGED <<pending, events, requests, sent, answered>>
  BY DEF PushEventReport, SendFailed, Reading, Push, Reconnecting, DropSocketChannel,
         CloseSocket, hist
<1>3. SourceInv'
  BY <1>2, SourceEvent
<1>4. /\ \A x : Passed(x, events, devq, requests, inbound) =>
                Passed(x, events, Tail(devq), requests, inbound')
      /\ \A e, s : Reported(e, events, devq, s) => Reported(e, events, Tail(devq), s)
      /\ Passed(m, events, Tail(devq), requests, inbound')
  BY <1>2, EventRead
<1>5. /\ m \in Message /\ m.type = "report"
      /\ \A i \in 1..Len(sent) : sent[i].type = "report" => sent[i].id < m.id
      /\ \A i \in 1..Len(tx) : tx[i].type = "report" => tx[i].id < m.id
      /\ \A i \in 1..Len(queue) : queue[i].type = "report" => queue[i].id < m.id
      /\ \A i \in 1..Len(pending) : pending[i] < m.id
      /\ \A i \in 1..Len(answered) : answered[i] < m.id
  BY <1>2, FrontEvent
<1> HIDE DEF m
<1>6. /\ queue' \in Seq(Message)
      /\ Sorted(queue') /\ Ahead(sent, queue') /\ Ahead(tx, queue')
      /\ \A i \in 1..Len(queue') :
           queue'[i] = m \/ \E k \in 1..Len(queue) : queue'[i] = queue[k]
  BY <1>1, <1>2, <1>5, PushOrder
<1>7. /\ tx' \in Seq(Message) /\ Sorted(tx') /\ Ahead(sent, tx') /\ Ahead(tx', queue')
      /\ AllPassed(tx', events, devq', requests, inbound')
  <2>1. CASE tx' = tx
    BY <1>1, <1>2, <1>4, <1>6, <2>1, Zenon DEF StreamInv, AllPassed
  <2>2. CASE tx' = <<>>
    BY <2>2 DEF Sorted, Ahead, AllPassed
  <2> QED BY <1>2, <2>1, <2>2
<1>8. AllPassed(queue', events, devq', requests, inbound')
  BY <1>1, <1>2, <1>4, <1>6, Zenon DEF StreamInv, AllPassed
<1>9. AllPassed(sent, events, devq', requests, inbound')
  BY <1>1, <1>2, <1>4, Zenon DEF StreamInv, AllPassed
<1>10. StreamInv'
  BY <1>1, <1>2, <1>6, <1>7, <1>8, <1>9, Zenon DEF StreamInv
<1>11. \A e : Reported(e, events, devq, queue) /\ e < m.id =>
              Reported(e, events, devq', queue')
  <2> SUFFICES ASSUME NEW e, Reported(e, events, devq, queue), e < m.id
               PROVE  Reported(e, events, devq', queue')
    OBVIOUS
  <2>1. Reported(e, events, devq', queue)
    BY <1>2, <1>4, Zenon
  <2>2. \A k \in 1..Len(queue') : queue'[k].type = "report" => e < queue'[k].id
    BY <1>6, <2>1, Zenon DEF Reported
  <2> QED BY <2>1, <2>2, Zenon DEF Reported
<1>12. /\ AllReported(pending, events, devq', queue')
       /\ AllReported(answered, events, devq', queue')
  BY <1>1, <1>5, <1>11, Zenon DEF VerdictInv, AllReported
<1>13. VerdictInv'
  BY <1>1, <1>2, <1>12, Zenon DEF VerdictInv, OneVerdictPerEvent
<1> QED BY <1>3, <1>10, <1>13 DEF DataInv

(* The event goes straight to the socket: nothing is ahead of it.             *)
LEMMA OrderSendEvent ==
  ASSUME DataInv, SendEventReport
  PROVE  DataInv'
<1> DEFINE m == Head(devq).report
<1>1. SourceInv /\ StreamInv /\ VerdictInv
  BY DEF DataInv
<1>2. /\ devq # <<>> /\ devq' = Tail(devq) /\ pending' = Awaited(m)
      /\ queue = <<>> /\ tx = <<>>
      /\ UNCHANGED <<queue, inbound, events, requests, answered>>
  BY DEF SendEventReport, Reading, Direct
<1>3. \/ sent' = Append(sent, m) /\ tx' = tx
      \/ tx' = <<m>> /\ sent' = sent
  <2>1. tx' = Append(tx, m) => tx' = <<m>>
    BY <1>2
  <2> QED BY <2>1 DEF SendEventReport
<1>4. SourceInv'
  BY <1>2, SourceEvent
<1>5. /\ \A x : Passed(x, events, devq, requests, inbound) =>
                Passed(x, events, Tail(devq), requests, inbound)
      /\ \A e, s : Reported(e, events, devq, s) => Reported(e, events, Tail(devq), s)
      /\ Passed(m, events, Tail(devq), requests, inbound)
  BY <1>2, EventRead
<1>6. /\ m \in Message /\ m.type = "report"
      /\ \A i \in 1..Len(sent) : sent[i].type = "report" => sent[i].id < m.id
      /\ \A i \in 1..Len(pending) : pending[i] < m.id
      /\ \A i \in 1..Len(answered) : answered[i] < m.id
  BY <1>2, FrontEvent
<1> HIDE DEF m
<1>7. /\ queue \in Seq(Message) /\ Len(queue) = 0
      /\ sent \in Seq(Message) /\ Sorted(sent) /\ Sorted(queue) /\ Ahead(sent, queue)
      /\ AllPassed(sent, events, devq', requests, inbound)
      /\ AllPassed(queue, events, devq', requests, inbound)
  <2>1. queue \in Seq(Message) /\ Len(queue) = 0
    BY <1>2
  <2> QED BY <1>1, <1>2, <1>5, <2>1, Zenon DEF StreamInv, AllPassed
<1>8. /\ \A i \in 1..Len(queue) : queue[i].type = m.type => m.id < queue[i].id
      /\ \A i \in 1..Len(sent) : sent[i].type = m.type => sent[i].id < m.id
  BY <1>6, <1>7
<1>9. StreamInv'
  <2>1. /\ sent' \in Seq(Message) /\ tx' \in Seq(Message)
        /\ Sorted(sent') /\ Sorted(tx')
        /\ Ahead(sent', tx') /\ Ahead(sent', queue) /\ Ahead(tx', queue)
        /\ AllPassed(sent', events, devq', requests, inbound)
        /\ AllPassed(tx', events, devq', requests, inbound)
    <3>1. Passed(m, events, devq', requests, inbound)
      BY <1>2, <1>5, Zenon
    <3> QED BY <1>2, <1>3, <1>6, <1>7, <1>8, <3>1, HandOver
  <2> QED BY <1>2, <1>7, <2>1, Zenon DEF StreamInv
<1>10. VerdictInv'
  <2>1. /\ pending' \in Seq(Nat)
        /\ \A i \in 1..Len(pending') :
              \/ m.type = "report" /\ pending'[i] = m.id
              \/ \E k \in 1..Len(pending) : pending'[i] = pending[k]
        /\ OneVerdictPerEvent'
    BY <1>1, <1>2, <1>6, AwaitOnce, Zenon
  <2>2. Reported(m.id, events, devq', queue)
    <3>1. m.id \in 1..events /\ \A k \in 1..Len(devq') : m.id < devq'[k].report.id
      BY <1>2, <1>5, <1>6, Zenon DEF Passed
    <3> QED BY <1>7, <3>1 DEF Reported
  <2>3. AllReported(pending', events, devq', queue)
    BY <1>1, <1>2, <1>5, <2>1, <2>2, Zenon DEF VerdictInv, AllReported
  <2>4. AllReported(answered, events, devq', queue)
    BY <1>1, <1>2, <1>5, Zenon DEF VerdictInv, AllReported
  <2> QED BY <1>1, <1>2, <2>1, <2>3, <2>4, Zenon DEF VerdictInv
<1> QED BY <1>4, <1>9, <1>10 DEF DataInv

(* The app sends a request, with the next number.                             *)
LEMMA OrderAppSends ==
  ASSUME DataInv, AppSends
  PROVE  DataInv'
<1>1. SourceInv /\ StreamInv /\ VerdictInv
  BY DEF DataInv
<1>2. PICK k \in {"answer", "policy", "refused", "garbage"}, e \in 0..MaxEvents :
        inbound' = Append(inbound, [kind |-> k, id |-> requests + 1, event |-> e])
  BY DEF AppSends
<1>3. /\ requests' = requests + 1 /\ requests < MaxRequests
      /\ UNCHANGED <<tx, queue, pending, devq, events, sent, answered>>
  BY DEF AppSends, monitorVars, tables, hist
<1> DEFINE r == [kind |-> k, id |-> requests + 1, event |-> e]
<1>4. inbound \in Seq(Request) /\ requests \in 0..MaxRequests /\ MaxRequests \in Nat
  BY <1>1, LimitAssumption DEF SourceInv, LimitAssumption
<1>5. e \in Nat
  BY LimitAssumption DEF LimitAssumption
<1>6. r \in Request /\ r.id = requests + 1
  BY <1>4, <1>5 DEF Request
<1> HIDE DEF r
<1>7. /\ inbound' \in Seq(Request) /\ Len(inbound) \in Nat
      /\ Len(inbound') = Len(inbound) + 1
      /\ \A i \in 1..Len(inbound') :
              \/ i \in 1..Len(inbound) /\ inbound'[i] = inbound[i]
              \/ i = Len(inbound) + 1 /\ inbound'[i] = r
  BY <1>2, <1>4, <1>6, AppendFacts DEF r
<1>8. \A i \in 1..Len(inbound) : inbound[i].id \in 1..requests
  BY <1>1 DEF SourceInv
<1>9. SourceInv'
  <2>1. requests' \in 0..MaxRequests
    BY <1>3, <1>4
  <2>2. \A i \in 1..Len(inbound') : inbound'[i].id \in 1..requests'
    BY <1>3, <1>4, <1>6, <1>7, <1>8
  <2>3. \A i, j \in 1..Len(inbound') : i < j => inbound'[i].id < inbound'[j].id
    <3> SUFFICES ASSUME NEW i \in 1..Len(inbound'), NEW j \in 1..Len(inbound'), i < j
                 PROVE  inbound'[i].id < inbound'[j].id
      OBVIOUS
    <3>1. i \in 1..Len(inbound) /\ inbound'[i] = inbound[i]
      BY <1>7
    <3>2. CASE j \in 1..Len(inbound) /\ inbound'[j] = inbound[j]
      BY <1>1, <3>1, <3>2, Zenon DEF SourceInv
    <3>3. CASE inbound'[j] = r
      BY <1>4, <1>6, <1>8, <3>1, <3>3
    <3> QED BY <1>7, <3>2, <3>3
  <2> QED BY <1>1, <1>3, <1>7, <2>1, <2>2, <2>3, Zenon DEF SourceInv
<1>10. \A x : Passed(x, events, devq, requests, inbound) =>
              Passed(x, events, devq, requests', inbound')
  <2> SUFFICES ASSUME NEW x, Passed(x, events, devq, requests, inbound)
               PROVE  Passed(x, events, devq, requests', inbound')
    OBVIOUS
  <2>1. x.type = "response" =>
          x.id \in 1..requests' /\ \A i \in 1..Len(inbound') : x.id < inbound'[i].id
    <3> SUFFICES ASSUME x.type = "response"
                 PROVE  x.id \in 1..requests' /\ \A i \in 1..Len(inbound') : x.id < inbound'[i].id
      OBVIOUS
    <3>1. x.id \in 1..requests /\ \A i \in 1..Len(inbound) : x.id < inbound[i].id
      BY DEF Passed
    <3>2. x.id \in 1..requests' /\ x.id < requests + 1
      BY <1>3, <1>4, <3>1
    <3>3. \A i \in 1..Len(inbound') : x.id < inbound'[i].id
      BY <1>6, <1>7, <3>1, <3>2, Zenon
    <3> QED BY <3>2, <3>3
  <2> QED BY <2>1, Zenon DEF Passed
<1>11. StreamInv'
  BY <1>1, <1>3, <1>10, Zenon DEF StreamInv, AllPassed
<1>12. VerdictInv'
  BY <1>1, <1>3, Zenon DEF VerdictInv, OneVerdictPerEvent
<1> QED BY <1>9, <1>11, <1>12 DEF DataInv

(* The kernel raises an event, with the next number.                          *)
LEMMA OrderKernelRaises ==
  ASSUME DataInv, KernelRaises
  PROVE  DataInv'
<1>1. SourceInv /\ StreamInv /\ VerdictInv
  BY DEF DataInv
<1>2. PICK s \in ReportSizes, u \in BOOLEAN :
        devq' = Append(devq, [usable |-> u,
                              report |-> [type |-> "report", id |-> events + 1, size |-> s]])
  BY DEF KernelRaises
<1>3. /\ events' = events + 1 /\ events < MaxEvents
      /\ UNCHANGED <<tx, queue, pending, inbound, requests, sent, answered>>
  BY DEF KernelRaises, monitorVars, tables, hist
<1>4. devq \in Seq(Event) /\ events \in 0..MaxEvents /\ MaxEvents \in Nat /\ s \in Nat
  BY <1>1, LimitAssumption, SizeAssumption DEF SourceInv, LimitAssumption, SizeAssumption
<1> DEFINE m == [type |-> "report", id |-> events + 1, size |-> s]
           v == [usable |-> u, report |-> m]
<1>5. m \in Message /\ m.type = "report" /\ m.id = events + 1 /\ m.size = s
  BY <1>4 DEF Message
<1> HIDE DEF m
<1>6. v \in Event /\ v.report = m
  BY <1>5 DEF Event
<1>7. devq' = Append(devq, v)
  BY <1>2 DEF m
<1> HIDE DEF v
<1>8. /\ devq' \in Seq(Event) /\ Len(devq) \in Nat /\ Len(devq') = Len(devq) + 1
      /\ \A i \in 1..Len(devq') :
              \/ i \in 1..Len(devq) /\ devq'[i] = devq[i]
              \/ i = Len(devq) + 1 /\ devq'[i] = v
  BY <1>4, <1>6, <1>7, AppendFacts
<1>9. \A i \in 1..Len(devq) :
        /\ devq[i].report.type = "report"
        /\ devq[i].report.size \in ReportSizes
        /\ devq[i].report.id \in 1..events
  BY <1>1 DEF SourceInv
<1>10. SourceInv'
  <2>1. events' \in 0..MaxEvents
    BY <1>3, <1>4
  <2>2. \A i \in 1..Len(devq') :
          /\ devq'[i].report.type = "report"
          /\ devq'[i].report.size \in ReportSizes
          /\ devq'[i].report.id \in 1..events'
    <3> SUFFICES ASSUME NEW i \in 1..Len(devq')
                 PROVE  /\ devq'[i].report.type = "report"
                        /\ devq'[i].report.size \in ReportSizes
                        /\ devq'[i].report.id \in 1..events'
      OBVIOUS
    <3>1. CASE i \in 1..Len(devq) /\ devq'[i] = devq[i]
      BY <1>3, <1>4, <1>9, <3>1
    <3>2. CASE devq'[i] = v
      BY <1>3, <1>4, <1>5, <1>6, <3>2
    <3> QED BY <1>8, <3>1, <3>2
  <2>3. \A i, j \in 1..Len(devq') : i < j => devq'[i].report.id < devq'[j].report.id
    <3> SUFFICES ASSUME NEW i \in 1..Len(devq'), NEW j \in 1..Len(devq'), i < j
                 PROVE  devq'[i].report.id < devq'[j].report.id
      OBVIOUS
    <3>1. i \in 1..Len(devq) /\ devq'[i] = devq[i]
      BY <1>8
    <3>2. CASE j \in 1..Len(devq) /\ devq'[j] = devq[j]
      BY <1>1, <3>1, <3>2, Zenon DEF SourceInv
    <3>3. CASE devq'[j] = v
      BY <1>4, <1>5, <1>6, <1>9, <3>1, <3>3
    <3> QED BY <1>8, <3>2, <3>3
  <2> QED BY <1>1, <1>3, <1>8, <2>1, <2>2, <2>3, Zenon DEF SourceInv
<1>11. ASSUME NEW e, e \in 1..events, \A i \in 1..Len(devq) : e < devq[i].report.id
       PROVE  e \in 1..events' /\ \A i \in 1..Len(devq') : e < devq'[i].report.id
  <2>1. e \in 1..events' /\ e < events + 1
    BY <1>3, <1>4, <1>11
  <2>2. \A i \in 1..Len(devq') : e < devq'[i].report.id
    BY <1>5, <1>6, <1>8, <1>11, <2>1, Zenon
  <2> QED BY <2>1, <2>2
<1>12. \A x : Passed(x, events, devq, requests, inbound) =>
              Passed(x, events', devq', requests, inbound)
  BY <1>11, Zenon DEF Passed
<1>13. \A e : Reported(e, events, devq, queue) => Reported(e, events', devq', queue)
  BY <1>11, Zenon DEF Reported
<1>14. StreamInv'
  BY <1>1, <1>3, <1>12, Zenon DEF StreamInv, AllPassed
<1>15. VerdictInv'
  BY <1>1, <1>3, <1>13, Zenon DEF VerdictInv, AllReported, OneVerdictPerEvent
<1> QED BY <1>10, <1>14, <1>15 DEF DataInv

(* The invariant about data always holds.                                     *)
LEMMA DataAlways == Spec => []DataInv
<1>1. Init => DataInv
  <2> SUFFICES ASSUME Init PROVE DataInv
    OBVIOUS
  <2>1. SourceInv
    BY LimitAssumption DEF Init, SourceInv, LimitAssumption
  <2>2. StreamInv
    BY DEF Init, StreamInv, Sorted, Ahead, AllPassed
  <2>3. VerdictInv
    BY DEF Init, VerdictInv, AllReported, OneVerdictPerEvent
  <2> QED BY <2>1, <2>2, <2>3 DEF DataInv
<1>2. DataInv /\ [Next]_vars => DataInv'
  BY DataMoves, OrderPlain, OrderQueueResponse, OrderWritable, OrderFlushBare,
     OrderFlushOne, OrderIgnore, OrderPushEvent, OrderSendEvent, OrderAppSends,
     OrderKernelRaises
<1> QED BY <1>1, <1>2, PTL DEF Spec

(* The device never gets a second answer for an event, for every size of the  *)
(* tables and however answers, evictions and reconnects interleave.           *)
THEOREM EventsAreAnsweredOnce == Spec => []OneVerdictPerEvent
<1>1. DataInv => OneVerdictPerEvent
  BY DEF DataInv, VerdictInv
<1> QED BY <1>1, DataAlways, PTL

(* Sorted parts in order are a sorted whole.                                  *)
LEMMA StreamIsSorted ==
  ASSUME NEW a \in Seq(Message), NEW b \in Seq(Message), Sorted(a), Sorted(b), Ahead(a, b)
  PROVE  /\ a \o b \in Seq(Message) /\ Sorted(a \o b)
         /\ \A i \in 1..Len(a \o b) :
              \/ \E k \in 1..Len(a) : (a \o b)[i] = a[k]
              \/ \E k \in 1..Len(b) : (a \o b)[i] = b[k]
<1> DEFINE c == a \o b
<1>1. /\ c \in Seq(Message) /\ Len(c) = Len(a) + Len(b)
      /\ Len(a) \in Nat /\ Len(b) \in Nat
      /\ \A i \in 1..(Len(a) + Len(b)) :
           c[i] = IF i <= Len(a) THEN a[i] ELSE b[i - Len(a)]
  OBVIOUS
<1> HIDE DEF c
<1>2. \A i \in 1..Len(c) :
        \/ i \in 1..Len(a) /\ c[i] = a[i]
        \/ i > Len(a) /\ i - Len(a) \in 1..Len(b) /\ c[i] = b[i - Len(a)]
  BY <1>1
<1>3. Sorted(c)
  <2> SUFFICES ASSUME NEW i \in 1..Len(c), NEW j \in 1..Len(c), i < j,
                      c[i].type = c[j].type
               PROVE  c[i].id < c[j].id
    BY DEF Sorted
  <2>1. CASE j \in 1..Len(a) /\ c[j] = a[j]
    <3>1. i \in 1..Len(a) /\ c[i] = a[i]
      BY <1>1, <1>2, <2>1
    <3> QED BY <2>1, <3>1, Zenon DEF Sorted
  <2>2. CASE j > Len(a) /\ j - Len(a) \in 1..Len(b) /\ c[j] = b[j - Len(a)]
    <3>1. CASE i \in 1..Len(a) /\ c[i] = a[i]
      BY <2>2, <3>1, Zenon DEF Ahead
    <3>2. CASE i > Len(a) /\ i - Len(a) \in 1..Len(b) /\ c[i] = b[i - Len(a)]
      <4>1. i - Len(a) < j - Len(a)
        BY <1>1
      <4> QED BY <2>2, <3>2, <4>1, Zenon DEF Sorted
    <3> QED BY <1>2, <3>1, <3>2
  <2> QED BY <1>2, <2>1, <2>2
<1>4. \A i \in 1..Len(c) :
        \/ \E k \in 1..Len(a) : c[i] = a[k]
        \/ \E k \in 1..Len(b) : c[i] = b[k]
  BY <1>2
<1> QED BY <1>1, <1>3, <1>4 DEF c

(* What the app receives is in order and without a repetition, for every size *)
(* of queue and buffers and over any number of reconnects.                    *)
THEOREM StreamIsInOrder == Spec => []StreamInOrder
<1>1. ASSUME StreamInv PROVE StreamInOrder
  <2> USE <1>1
  <2> DEFINE a == sent \o tx
  <2>1. /\ sent \in Seq(Message) /\ tx \in Seq(Message) /\ queue \in Seq(Message)
        /\ Sorted(sent) /\ Sorted(tx) /\ Sorted(queue)
        /\ Ahead(sent, tx) /\ Ahead(sent, queue) /\ Ahead(tx, queue)
    BY DEF StreamInv
  <2>2. /\ a \in Seq(Message) /\ Sorted(a)
        /\ \A i \in 1..Len(a) :
              \/ \E k \in 1..Len(sent) : a[i] = sent[k]
              \/ \E k \in 1..Len(tx) : a[i] = tx[k]
    BY <2>1, StreamIsSorted
  <2>3. Stream = a \o queue
    BY DEF Stream
  <2> HIDE DEF a
  <2>4. Ahead(a, queue)
    BY <2>1, <2>2, Zenon DEF Ahead
  <2>5. Sorted(a \o queue)
    BY <2>1, <2>2, <2>4, StreamIsSorted
  <2> QED BY <2>3, <2>5, Zenon DEF StreamInOrder, Sorted
<1>2. DataInv => StreamInOrder
  BY <1>1 DEF DataInv
<1> QED BY <1>2, DataAlways, PTL

-----------------------------------------------------------------------------
(* The budget of the queue *)

(* Partial sums of f: what the recursive definition of Totals asks for.       *)
Sums(f, q, n) ==
  /\ f \in [0..n -> Nat] /\ f[0] = 0
  /\ \A i \in 1..n : f[i] = f[i - 1] + q[i].size

(* A message has a size.                                                      *)
LEMMA SizeIsNat ==
  ASSUME NEW q \in Seq(Message), NEW i \in 1..Len(q)
  PROVE  q[i] \in Message /\ q[i].size \in Nat
<1>1. q[i] \in Message
  OBVIOUS
<1>2. \A m \in Message : m.size \in Nat
  BY DEF Message
<1> QED BY <1>1, <1>2

(* They exist for every queue, by the least length that had none.             *)
LEMMA SumsExist ==
  ASSUME NEW q \in Seq(Message)
  PROVE  \E f : Sums(f, q, Len(q))
<1> DEFINE T == {n \in 0..Len(q) : ~ \E f : Sums(f, q, n)}
<1>1. Len(q) \in Nat
  OBVIOUS
<1>2. CASE T = {}
  <2>1. Len(q) \in 0..Len(q)
    BY <1>1
  <2> QED BY <1>2, <2>1, Zenon
<1>3. CASE T # {}
  <2>1. T \subseteq Nat
    BY <1>1
  <2>2. PICK x \in T : \A y \in T : x <= y
    BY <1>3, <2>1, LeastNat, Zenon
  <2>3. x \in 0..Len(q) /\ ~ \E f : Sums(f, q, x)
    BY <2>2, Zenon
  <2>4. x # 0
    <3>1. Sums([i \in 0..0 |-> 0], q, 0)
      BY DEF Sums
    <3> QED BY <2>3, <3>1, Zenon
  <2>5. x - 1 \in 0..Len(q) /\ ~ (x <= x - 1) /\ x \in 1..Len(q)
    BY <1>1, <2>3, <2>4
  <2>6. x - 1 \notin T
    BY <2>2, <2>5, Zenon
  <2>7. PICK f : Sums(f, q, x - 1)
    BY <2>5, <2>6, Zenon
  <2> DEFINE g == [i \in 0..x |-> IF i = x THEN f[x - 1] + q[x].size ELSE f[i]]
  <2>8. q[x] \in Message /\ q[x].size \in Nat
    BY <2>5, SizeIsNat
  <2>9. f \in [0..(x - 1) -> Nat] /\ f[0] = 0 /\ \A i \in 1..(x - 1) : f[i] = f[i - 1] + q[i].size
    BY <2>7 DEF Sums
  <2>10. g \in [0..x -> Nat]
    <3> SUFFICES ASSUME NEW i \in 0..x
                 PROVE  (IF i = x THEN f[x - 1] + q[x].size ELSE f[i]) \in Nat
      OBVIOUS
    <3>1. CASE i = x
      BY <2>5, <2>8, <2>9, <3>1
    <3>2. CASE i # x
      <4>1. i \in 0..(x - 1)
        BY <2>5, <3>2
      <4> QED BY <2>9, <3>2, <4>1
    <3> QED BY <3>1, <3>2
  <2>11. g[0] = 0
    BY <2>4, <2>5, <2>9
  <2>12. \A i \in 1..x : g[i] = g[i - 1] + q[i].size
    <3> SUFFICES ASSUME NEW i \in 1..x PROVE g[i] = g[i - 1] + q[i].size
      OBVIOUS
    <3>1. i - 1 \in 0..x /\ i - 1 # x /\ i \in 0..x
      BY <2>5
    <3>2. g[i - 1] = f[i - 1]
      BY <3>1
    <3>3. CASE i = x
      BY <3>1, <3>2, <3>3
    <3>4. CASE i # x
      <4>1. i \in 1..(x - 1) /\ g[i] = f[i]
        BY <2>5, <3>1, <3>4
      <4> QED BY <2>9, <3>2, <4>1
    <3> QED BY <3>3, <3>4
  <2> HIDE DEF g
  <2>13. Sums(g, q, x)
    BY <2>10, <2>11, <2>12, Zenon DEF Sums
  <2> QED BY <2>3, <2>13, Zenon
<1> QED BY <1>2, <1>3

(* The partial sums, one by one.                                              *)
LEMMA TotalsIs ==
  ASSUME NEW q \in Seq(Message)
  PROVE  Sums(Totals(q), q, Len(q))
<1> DEFINE Def(f) == f = [i \in 0..Len(q) |-> IF i = 0 THEN 0 ELSE f[i - 1] + q[i].size]
<1>1. PICK f : Sums(f, q, Len(q))
  BY SumsExist
<1>2. Len(q) \in Nat /\ \A i \in 1..Len(q) : q[i].size \in Nat
  BY SizeIsNat
<1>3. Def(f)
  <2> DEFINE g == [i \in 0..Len(q) |-> IF i = 0 THEN 0 ELSE f[i - 1] + q[i].size]
  <2>1. f \in [0..Len(q) -> Nat] /\ f[0] = 0
        /\ \A i \in 1..Len(q) : f[i] = f[i - 1] + q[i].size
    BY <1>1 DEF Sums
  <2>2. \A i \in 0..Len(q) : f[i] = g[i]
    <3> SUFFICES ASSUME NEW i \in 0..Len(q) PROVE f[i] = g[i]
      OBVIOUS
    <3>1. CASE i = 0
      BY <2>1, <3>1
    <3>2. CASE i # 0
      <4>1. i \in 1..Len(q)
        BY <1>2, <3>2
      <4> QED BY <2>1, <3>2, <4>1
    <3> QED BY <3>1, <3>2
  <2>3. f = [i \in 0..Len(q) |-> f[i]]
    BY <2>1
  <2>4. f = g
    BY <2>2, <2>3
  <2> QED BY <2>4
<1>4. Totals(q) = CHOOSE f0 : Def(f0)
  BY Zenon DEF Totals
<1>5. Def(Totals(q))
  BY <1>3, <1>4, Zenon
<1> DEFINE t == Totals(q)
<1>6. DOMAIN t = 0..Len(q) /\ t = [i \in 0..Len(q) |-> t[i]]
  BY <1>5
<1>7. t[0] = 0 /\ \A i \in 1..Len(q) : t[i] = t[i - 1] + q[i].size
  <2>1. \A i \in 0..Len(q) : t[i] = IF i = 0 THEN 0 ELSE t[i - 1] + q[i].size
    BY <1>5, Zenon
  <2> HIDE DEF t
  <2> QED BY <1>2, <2>1
<1> HIDE DEF t
<1>8. \A i \in 0..Len(q) : t[i] \in Nat
  <2> DEFINE T == {i \in 0..Len(q) : t[i] \notin Nat}
  <2>1. CASE T = {}
    BY <2>1, Zenon
  <2>2. CASE T # {}
    <3>1. T \subseteq Nat
      BY <1>2
    <3>2. PICK x \in T : \A y \in T : x <= y
      BY <2>2, <3>1, LeastNat, Zenon
    <3>3. x \in 0..Len(q) /\ t[x] \notin Nat
      BY <3>2, Zenon
    <3>4. x # 0
      BY <1>7, <3>3
    <3>5. x - 1 \in 0..Len(q) /\ ~ (x <= x - 1) /\ x \in 1..Len(q)
      BY <1>2, <3>3, <3>4
    <3>6. t[x - 1] \in Nat
      BY <3>2, <3>5, Zenon
    <3>7. t[x] = t[x - 1] + q[x].size /\ q[x].size \in Nat
      BY <1>2, <1>7, <3>5, Zenon
    <3>8. t[x] \in Nat
      BY <3>6, <3>7
    <3> QED BY <3>3, <3>8
  <2> QED BY <2>1, <2>2
<1>9. t \in [0..Len(q) -> Nat]
  BY <1>6, <1>8
<1>10. Sums(t, q, Len(q))
  BY <1>7, <1>9, Zenon DEF Sums
<1> QED BY <1>10 DEF t

(* A queue that continues another one after n messages has its totals, less   *)
(* those of the n messages.                                                   *)
LEMMA TotalsShift ==
  ASSUME NEW p \in Seq(Message), NEW q \in Seq(Message), NEW n \in Nat,
         Len(p) + n <= Len(q),
         \A i \in 1..Len(p) : p[i].size = q[n + i].size
  PROVE  \A i \in 0..Len(p) : Totals(q)[n + i] = Totals(q)[n] + Totals(p)[i]
<1> DEFINE s == Totals(p)
           t == Totals(q)
           T == {i \in 0..Len(p) : ~ (t[n + i] = t[n] + s[i])}
<1>1. Sums(s, p, Len(p)) /\ Sums(t, q, Len(q))
  BY TotalsIs
<1>2. Len(p) \in Nat /\ Len(q) \in Nat
  OBVIOUS
<1> HIDE DEF s, t
<1>3. CASE T = {}
  <2>1. \A i \in 0..Len(p) : t[n + i] = t[n] + s[i]
    BY <1>3, Zenon
  <2> QED BY <2>1 DEF s, t
<1>4. CASE T # {}
  <2>1. T \subseteq Nat
    BY <1>2
  <2>2. PICK x \in T : \A y \in T : x <= y
    BY <1>4, <2>1, LeastNat, Zenon
  <2>3. x \in 0..Len(p) /\ ~ (t[n + x] = t[n] + s[x])
    BY <2>2, Zenon
  <2>4. x # 0
    <3>1. t[n] \in Nat /\ s[0] = 0 /\ n + 0 = n
      BY <1>1, <1>2 DEF Sums
    <3> QED BY <2>3, <3>1
  <2>5. /\ x - 1 \in 0..Len(p) /\ ~ (x <= x - 1) /\ x \in 1..Len(p)
        /\ n + x \in 1..Len(q) /\ (n + x) - 1 = n + (x - 1)
        /\ n \in 0..Len(q) /\ n + (x - 1) \in 0..Len(q)
    BY <1>2, <2>3, <2>4
  <2>6. t[n + (x - 1)] = t[n] + s[x - 1]
    BY <2>2, <2>5, Zenon
  <2>7. t[n + x] = t[n + (x - 1)] + q[n + x].size
    BY <1>1, <2>5 DEF Sums
  <2>8. s[x] = s[x - 1] + p[x].size
    BY <1>1, <2>5 DEF Sums
  <2>9. p[x].size = q[n + x].size
    BY <2>5
  <2>10. t[n] \in Nat /\ s[x - 1] \in Nat /\ p[x].size \in Nat
    BY <1>1, <2>5, SizeIsNat DEF Sums
  <2>11. \A a, b, c \in Nat : (a + b) + c = a + (b + c)
    OBVIOUS
  <2>12. (t[n] + s[x - 1]) + p[x].size = t[n] + (s[x - 1] + p[x].size)
    BY <2>10, <2>11, Zenon
  <2>13. t[n + x] = (t[n] + s[x - 1]) + p[x].size
    BY <2>6, <2>7, <2>9, Zenon
  <2>14. t[n] + s[x] = t[n] + (s[x - 1] + p[x].size)
    BY <2>8, Zenon
  <2> QED BY <2>3, <2>12, <2>13, <2>14, Zenon
<1> QED BY <1>3, <1>4

(* They are numbers.                                                          *)
LEMMA TotalsNat ==
  ASSUME NEW q \in Seq(Message), NEW n \in 0..Len(q)
  PROVE  Totals(q)[n] \in Nat /\ Totals(q)[0] = 0 /\ BodyBytes(q) \in Nat
<1>1. Sums(Totals(q), q, Len(q))
  BY TotalsIs
<1>2. Len(q) \in 0..Len(q)
  OBVIOUS
<1> QED BY <1>1, <1>2 DEF Sums, BodyBytes

(* The bytes of a queue are those of its first n messages and of the rest.    *)
LEMMA SplitBytes ==
  ASSUME NEW q \in Seq(Message), NEW n \in 0..Len(q)
  PROVE  /\ BodyBytes(SubSeq(q, 1, n)) \in Nat
         /\ BodyBytes(SubSeq(q, n + 1, Len(q))) \in Nat
         /\ BodyBytes(q) = BodyBytes(SubSeq(q, 1, n)) + BodyBytes(SubSeq(q, n + 1, Len(q)))
<1> DEFINE a == SubSeq(q, 1, n)
           b == SubSeq(q, n + 1, Len(q))
<1>1. /\ a \in Seq(Message) /\ Len(a) = n
      /\ \A i \in 1..n : a[i] = q[i] /\ i \in 1..Len(q)
      /\ b \in Seq(Message) /\ Len(b) = Len(q) - n
      /\ \A i \in 1..(Len(q) - n) : b[i] = q[i + n] /\ i + n \in 1..Len(q)
  BY SubSeqFacts
<1> HIDE DEF a, b
<1>2. Len(q) \in Nat /\ n \in Nat /\ 0 \in Nat /\ Len(b) \in Nat
  BY <1>1
<1>3. Totals(q)[n] = BodyBytes(a)
  <2>1. Len(a) + 0 <= Len(q) /\ \A i \in 1..Len(a) : a[i].size = q[0 + i].size
    BY <1>1, <1>2
  <2>2. \A i \in 0..Len(a) : Totals(q)[0 + i] = Totals(q)[0] + Totals(a)[i]
    BY <1>1, <1>2, <2>1, TotalsShift
  <2>3. n \in 0..Len(a) /\ 0 + n = n
    BY <1>1, <1>2
  <2>4. Totals(q)[0] = 0 /\ Totals(a)[n] \in Nat
    BY <1>1, <2>3, TotalsNat
  <2>5. Totals(q)[0 + n] = Totals(q)[0] + Totals(a)[n]
    BY <2>2, <2>3, Zenon
  <2> QED BY <1>1, <2>3, <2>4, <2>5 DEF BodyBytes
<1>4. Totals(q)[Len(q)] = Totals(q)[n] + BodyBytes(b)
  <2>1. Len(b) + n <= Len(q)
    BY <1>1, <1>2
  <2>2. \A i \in 1..Len(b) : b[i].size = q[n + i].size
    <3> SUFFICES ASSUME NEW i \in 1..Len(b) PROVE b[i].size = q[n + i].size
      OBVIOUS
    <3>1. n + i = i + n /\ b[i] = q[i + n]
      BY <1>1, <1>2
    <3> QED BY <3>1
  <2>3. \A i \in 0..Len(b) : Totals(q)[n + i] = Totals(q)[n] + Totals(b)[i]
    BY <1>1, <1>2, <2>1, <2>2, TotalsShift
  <2>4. Len(b) \in 0..Len(b) /\ n + Len(b) = Len(q)
    BY <1>1, <1>2
  <2> QED BY <2>3, <2>4, Zenon DEF BodyBytes
<1>5. BodyBytes(a) \in Nat /\ BodyBytes(b) \in Nat
  <2>1. 0 \in 0..Len(a) /\ 0 \in 0..Len(b)
    BY <1>1, <1>2
  <2> QED BY <1>1, <2>1, TotalsNat
<1>6. BodyBytes(q) = BodyBytes(a) + BodyBytes(b)
  BY <1>3, <1>4, Zenon DEF BodyBytes
<1> QED BY <1>5, <1>6 DEF a, b

(* One more message adds its size.                                            *)
LEMMA AppendBytes ==
  ASSUME NEW q \in Seq(Message), NEW m \in Message
  PROVE  BodyBytes(Append(q, m)) = BodyBytes(q) + m.size
<1> DEFINE p == Append(q, m)
<1>1. /\ p \in Seq(Message) /\ Len(q) \in Nat /\ Len(p) = Len(q) + 1
      /\ \A i \in 1..(Len(q) + 1) :
           \/ i \in 1..Len(q) /\ p[i] = q[i]
           \/ i = Len(q) + 1 /\ p[i] = m
  BY AppendFacts
<1> HIDE DEF p
<1>2. Totals(p)[Len(q)] = BodyBytes(q)
  <2>1. 0 \in Nat /\ Len(q) + 0 <= Len(p)
    BY <1>1
  <2>2. \A i \in 1..Len(q) : q[i].size = p[0 + i].size
    BY <1>1
  <2>3. \A i \in 0..Len(q) : Totals(p)[0 + i] = Totals(p)[0] + Totals(q)[i]
    BY <1>1, <2>1, <2>2, TotalsShift
  <2>4. Len(q) \in 0..Len(q) /\ 0 + Len(q) = Len(q) /\ 0 \in 0..Len(p)
    BY <1>1
  <2>5. Totals(p)[0] = 0 /\ Totals(q)[Len(q)] \in Nat
    BY <1>1, <2>4, TotalsNat
  <2>6. Totals(p)[0 + Len(q)] = Totals(p)[0] + Totals(q)[Len(q)]
    BY <2>3, <2>4, Zenon
  <2> QED BY <2>4, <2>5, <2>6 DEF BodyBytes
<1>3. Totals(p)[Len(p)] = Totals(p)[Len(q)] + m.size
  <2>1. Sums(Totals(p), p, Len(p))
    BY <1>1, TotalsIs
  <2>2. Len(p) \in 1..Len(p) /\ Len(p) - 1 = Len(q) /\ p[Len(p)] = m
    BY <1>1
  <2>3. Totals(p)[Len(p)] = Totals(p)[Len(p) - 1] + p[Len(p)].size
    BY <2>1, <2>2, Zenon DEF Sums
  <2> QED BY <2>2, <2>3, Zenon
<1>4. BodyBytes(p) = BodyBytes(q) + m.size
  BY <1>2, <1>3, Zenon DEF BodyBytes
<1> QED BY <1>4 DEF p

(* One message less takes its size away.                                      *)
LEMMA TailBytes ==
  ASSUME NEW q \in Seq(Message), q # <<>>
  PROVE  /\ BodyBytes(q) = q[1].size + BodyBytes(Tail(q))
         /\ q[1].size \in Nat /\ BodyBytes(Tail(q)) \in Nat
<1> DEFINE t == Tail(q)
<1>1. /\ t \in Seq(Message) /\ Len(q) \in Nat /\ Len(q) > 0 /\ 1 \in 1..Len(q)
      /\ Len(t) = Len(q) - 1
      /\ \A i \in 1..Len(t) : i + 1 \in 1..Len(q) /\ t[i] = q[i + 1]
  BY TailFacts
<1> HIDE DEF t
<1>2. \A i \in 0..Len(t) : Totals(q)[1 + i] = Totals(q)[1] + Totals(t)[i]
  <2>1. 1 \in Nat /\ Len(t) + 1 <= Len(q)
    BY <1>1
  <2>2. \A i \in 1..Len(t) : t[i].size = q[1 + i].size
    <3> SUFFICES ASSUME NEW i \in 1..Len(t) PROVE t[i].size = q[1 + i].size
      OBVIOUS
    <3>1. 1 + i = i + 1 /\ t[i] = q[i + 1]
      BY <1>1
    <3> QED BY <3>1
  <2> QED BY <1>1, <2>1, <2>2, TotalsShift
<1>3. Len(t) \in 0..Len(t) /\ 1 + Len(t) = Len(q) /\ 0 \in 0..Len(t) /\ 0 \in 0..Len(q)
  BY <1>1
<1>4. BodyBytes(q) = Totals(q)[1] + BodyBytes(t)
  BY <1>2, <1>3, Zenon DEF BodyBytes
<1>5. q[1].size \in Nat /\ BodyBytes(t) \in Nat /\ Totals(q)[0] = 0
  BY <1>1, <1>3, SizeIsNat, TotalsNat
<1>6. Totals(q)[1] = q[1].size
  <2>1. Sums(Totals(q), q, Len(q))
    BY TotalsIs
  <2>2. Totals(q)[1] = Totals(q)[1 - 1] + q[1].size
    BY <1>1, <2>1, Zenon DEF Sums
  <2>3. 1 - 1 = 0
    OBVIOUS
  <2> QED BY <1>5, <2>2, <2>3
<1>7. BodyBytes(q) = q[1].size + BodyBytes(t)
  BY <1>4, <1>6, Zenon
<1> QED BY <1>5, <1>7 DEF t

(* PushSocketMessage keeps count and byte budget: it evicts until the new     *)
(* message fits, and a message alone fits because larger ones are refused.    *)
LEMMA PushBudget ==
  ASSUME queue \in Seq(Message), QueueWithinBudget, NEW m \in Message
  PROVE  /\ Pushed(m).bytes = BodyBytes(Pushed(m).queue)
         /\ Pushed(m).bytes <= MaxQueueBytes
         /\ Len(Pushed(m).queue) <= MaxQueueCount
<1>1. /\ bytes = BodyBytes(queue) /\ bytes <= MaxQueueBytes /\ Len(queue) <= MaxQueueCount
      /\ MaxQueueBytes \in Nat /\ MaxQueueCount \in Nat \ {0}
  BY SizeAssumption, LimitAssumption
     DEF QueueWithinBudget, SizeAssumption, LimitAssumption
<1>2. m.size \in Nat
  BY DEF Message
<1>3. CASE Pushed(m).queue = queue /\ Pushed(m).bytes = bytes
  BY <1>1, <1>3, Zenon
<1>4. ASSUME ~ (m.size > MaxQueueBytes), NEW n \in 0..Len(queue), Evicts(n, m.size),
             Pushed(m).queue = Append(SubSeq(queue, n + 1, Len(queue)), m),
             Pushed(m).bytes = bytes - BodyBytes(SubSeq(queue, 1, n)) + m.size
      PROVE  /\ Pushed(m).bytes = BodyBytes(Pushed(m).queue)
             /\ Pushed(m).bytes <= MaxQueueBytes
             /\ Len(Pushed(m).queue) <= MaxQueueCount
  <2> DEFINE a == SubSeq(queue, 1, n)
             b == SubSeq(queue, n + 1, Len(queue))
             A == BodyBytes(a)
             B == BodyBytes(b)
  <2>1. A \in Nat /\ B \in Nat /\ bytes = A + B
    BY <1>1, SplitBytes, Zenon
  <2>2. /\ b \in Seq(Message) /\ Len(b) = Len(queue) - n /\ Len(queue) \in Nat
    OBVIOUS
  <2>3. Pushed(m).queue = Append(b, m) /\ Pushed(m).bytes = bytes - A + m.size
    BY <1>4, Zenon
  <2>4. \/ n = Len(queue)
        \/ Len(queue) - n < MaxQueueCount /\ bytes - A + m.size <= MaxQueueBytes
    BY <1>4, Zenon DEF Evicts
  <2> HIDE DEF a
  <2>5. BodyBytes(Append(b, m)) = B + m.size /\ Len(Append(b, m)) = Len(b) + 1
    <3> HIDE DEF b
    <3>1. BodyBytes(Append(b, m)) = BodyBytes(b) + m.size
      BY <2>2, AppendBytes, Zenon
    <3>2. Len(Append(b, m)) = Len(b) + 1
      BY <2>2
    <3> QED BY <3>1, <3>2 DEF B
  <2>6. n = Len(queue) => B = 0
    <3> SUFFICES ASSUME n = Len(queue) PROVE B = 0
      OBVIOUS
    <3>1. Len(b) = 0
      BY <2>2
    <3>2. 0 \in 0..Len(b)
      BY <3>1
    <3> HIDE DEF b
    <3>3. Totals(b)[0] = 0
      BY <2>2, <3>2, TotalsNat
    <3> QED BY <3>1, <3>3, Zenon DEF B, BodyBytes
  <2> HIDE DEF b, A, B
  <2>7. bytes - A + m.size = B + m.size
    BY <1>2, <2>1
  <2>8. B + m.size <= MaxQueueBytes
    <3>1. CASE n = Len(queue)
      BY <1>1, <1>2, <1>4, <2>6, <3>1
    <3>2. CASE bytes - A + m.size <= MaxQueueBytes
      BY <2>7, <3>2, Zenon
    <3> QED BY <2>4, <3>1, <3>2
  <2>9. Len(b) + 1 <= MaxQueueCount
    BY <1>1, <2>2, <2>4
  <2> QED BY <2>3, <2>5, <2>7, <2>8, <2>9, Zenon
<1> QED BY <1>3, <1>4, PushedIs

(* Handing over the front message takes its bytes with it.                    *)
LEMMA PopBudget ==
  ASSUME queue \in Seq(Message), QueueWithinBudget, queue # <<>>
  PROVE  /\ bytes - Head(queue).size = BodyBytes(Tail(queue))
         /\ bytes - Head(queue).size <= MaxQueueBytes
         /\ Len(Tail(queue)) <= MaxQueueCount
<1> DEFINE B == BodyBytes(Tail(queue))
           s == queue[1].size
<1>1. /\ bytes = BodyBytes(queue) /\ bytes <= MaxQueueBytes /\ Len(queue) <= MaxQueueCount
      /\ MaxQueueBytes \in Nat /\ MaxQueueCount \in Nat
  BY SizeAssumption, LimitAssumption
     DEF QueueWithinBudget, SizeAssumption, LimitAssumption
<1>2. bytes = s + B /\ s \in Nat /\ B \in Nat
  BY <1>1, TailBytes, Zenon
<1>3. Head(queue).size = s /\ Len(Tail(queue)) = Len(queue) - 1 /\ Len(queue) \in Nat
  OBVIOUS
<1> HIDE DEF B, s
<1>4. bytes - s = B /\ bytes - s <= MaxQueueBytes
  BY <1>1, <1>2
<1>5. Len(Tail(queue)) <= MaxQueueCount
  BY <1>1, <1>3
<1> QED BY <1>3, <1>4, <1>5, Zenon DEF B

(* The table of outstanding answers never grows over its limit.               *)
LEMMA AwaitBudget ==
  ASSUME pending \in Seq(Nat), Len(pending) <= MaxPending, NEW m \in Message
  PROVE  Len(Awaited(m)) <= MaxPending
<1>1. MaxPending \in Nat /\ MaxPending # 0
  BY LimitAssumption DEF LimitAssumption
<1>2. m.id \in Nat
  BY DEF Message
<1>3. CASE Len(pending) >= MaxPending
  <2>1. pending # <<>> /\ Len(pending) = MaxPending
    BY <1>1, <1>3
  <2>2. Tail(pending) \in Seq(Nat) /\ Len(Tail(pending)) = MaxPending - 1
    BY <2>1
  <2>3. Len(Append(Tail(pending), m.id)) = MaxPending
    BY <1>1, <1>2, <2>2
  <2> QED BY <1>1, <1>3, <2>3 DEF Awaited, PushPendingAnswer
<1>4. CASE ~ (Len(pending) >= MaxPending)
  <2>1. Len(Append(pending, m.id)) = Len(pending) + 1 /\ Len(pending) \in Nat
    BY <1>2
  <2> QED BY <1>1, <1>4, <2>1 DEF Awaited, PushPendingAnswer
<1> QED BY <1>3, <1>4

(* Every step keeps the queue within its budget.                              *)
LEMMA BudgetStep ==
  ASSUME DataInv, QueueWithinBudget, [Next]_vars
  PROVE  QueueWithinBudget'
<1>1. /\ queue \in Seq(Message) /\ tx \in Seq(Message) /\ pending \in Seq(Nat)
      /\ MaxQueueBytes \in Nat /\ MaxQueueCount \in Nat /\ MaxPending \in Nat
  BY SizeAssumption, LimitAssumption
     DEF DataInv, StreamInv, VerdictInv, SizeAssumption, LimitAssumption
<1>2. /\ bytes = BodyBytes(queue) /\ bytes <= MaxQueueBytes /\ Len(queue) <= MaxQueueCount
      /\ Len(pending) <= MaxPending /\ Len(tx) <= 1
  BY DEF QueueWithinBudget
<1>3. CASE DataSame \/ DataCut
  <2>1. UNCHANGED <<queue, bytes, pending>> /\ (tx' = tx \/ tx' = <<>>)
    BY <1>3 DEF DataSame, DataCut
  <2>2. Len(tx') <= 1
    BY <1>2, <2>1
  <2> QED BY <1>2, <2>1, <2>2, Zenon DEF QueueWithinBudget
<1>4. CASE DataDrop
  <2>1. bytes' = 0 /\ queue' = <<>> /\ pending' = <<>> /\ tx' = <<>>
    BY <1>4 DEF DataDrop
  <2>2. queue' \in Seq(Message) /\ 0 \in 0..Len(queue') /\ Len(queue') = 0
    BY <2>1
  <2>3. BodyBytes(queue') = 0
    BY <2>2, TotalsNat, Zenon DEF BodyBytes
  <2>4. 0 <= MaxQueueBytes /\ Len(queue') <= MaxQueueCount /\ Len(pending') <= MaxPending
        /\ Len(tx') <= 1
    BY <1>1, <2>1
  <2> QED BY <2>1, <2>3, <2>4, Zenon DEF QueueWithinBudget
<1>5. CASE QueueResponse
  <2>1. UNCHANGED tx /\ inbound # <<>> /\ DispatchSocketMessage(Head(inbound))
    BY <1>5 DEF QueueResponse
  <2>2. PICK d \in (IF Head(inbound).kind = "policy" THEN DetailSizes ELSE {}) \cup {0} :
          Push([type |-> "response", id |-> Head(inbound).id, size |-> d])
    BY <1>5 DEF QueueResponse
  <2> DEFINE m == [type |-> "response", id |-> Head(inbound).id, size |-> d]
  <2>3. d \in Nat
    BY SizeAssumption DEF SizeAssumption
  <2>4. Head(inbound) \in Request
    BY <2>1, FrontRequest
  <2>5. m \in Message
    BY <2>3, <2>4 DEF Message, Request
  <2>6. queue' = Pushed(m).queue /\ bytes' = Pushed(m).bytes
    BY <2>2 DEF Push
  <2> HIDE DEF m
  <2>7. bytes' = BodyBytes(queue') /\ bytes' <= MaxQueueBytes /\ Len(queue') <= MaxQueueCount
    BY <1>1, <2>5, <2>6, PushBudget, Zenon
  <2>8. Len(pending') <= MaxPending
    <3>1. CASE pending' = pending
      BY <1>2, <3>1, Zenon
    <3>2. CASE pending' # pending
      <4>1. PICK e : pending' = Forgotten(e) /\ \E i \in 1..Len(pending) : pending[i] = e
        BY <2>1, <3>2 DEF DispatchSocketMessage, HandleEventAnswer
      <4>2. Len(pending') = Len(pending) - 1
        BY <1>1, <4>1, ForgottenIs, Zenon
      <4> QED BY <1>1, <1>2, <4>2
    <3> QED BY <3>1, <3>2
  <2> QED BY <1>2, <2>1, <2>7, <2>8, Zenon DEF QueueWithinBudget
<1>6. CASE HandleSocketWritable
  <2>1. UNCHANGED <<queue, bytes, pending>>
    BY <1>6 DEF HandleSocketWritable, tables
  <2>2. Len(tx') <= 1
    <3>1. CASE tx' = tx
      BY <1>2, <3>1, Zenon
    <3>2. ASSUME NEW n \in 0..Len(tx), tx' = SubSeq(tx, n + 1, Len(tx))
          PROVE  Len(tx') <= 1
      <4>1. Len(tx') = Len(tx) - n /\ Len(tx) \in Nat
        BY <1>1, <3>2
      <4> QED BY <1>2, <4>1
    <3> QED BY <1>6, <3>1, <3>2 DEF HandleSocketWritable
  <2> QED BY <1>2, <2>1, <2>2, Zenon DEF QueueWithinBudget
<1>7. CASE FlushBare
  <2>1. UNCHANGED <<tx, pending>> /\ bytes' = bytes - Head(queue).size /\ queue # <<>>
    BY <1>7 DEF FlushBare, Flushing
  <2>2. /\ queue' \in Seq(Message) /\ Len(queue') = Len(queue)
        /\ queue'[1].size = 0 /\ Tail(queue') = Tail(queue) /\ queue' # <<>>
    BY <1>1, <1>7, BareIs
  <2>3. bytes' = BodyBytes(Tail(queue)) /\ bytes' <= MaxQueueBytes
    BY <1>1, <2>1, PopBudget, Zenon
  <2>4. BodyBytes(queue') = 0 + BodyBytes(Tail(queue)) /\ BodyBytes(Tail(queue)) \in Nat
    BY <2>2, TailBytes, Zenon
  <2>5. BodyBytes(queue') = bytes'
    BY <2>3, <2>4
  <2> QED BY <1>2, <2>1, <2>2, <2>3, <2>5, Zenon DEF QueueWithinBudget
<1>8. CASE FlushOne
  <2>1. /\ queue # <<>> /\ queue' = Tail(queue) /\ bytes' = bytes - Head(queue).size
        /\ pending' = Awaited(Head(queue)) /\ (tx' = tx \/ tx' = <<Head(queue)>>)
    BY <1>8 DEF FlushOne, Flushing
  <2>2. Len(tx') <= 1
    <3>1. CASE tx' = tx
      BY <1>2, <3>1, Zenon
    <3>2. CASE tx' = <<Head(queue)>>
      <4>1. \A m : Len(<<m>>) = 1
        OBVIOUS
      <4>2. Len(tx') = 1
        BY <3>2, <4>1, Zenon
      <4> QED BY <4>2
    <3> QED BY <2>1, <3>1, <3>2
  <2>3. Head(queue) \in Message
    BY <1>1, <2>1
  <2>4. Len(pending') <= MaxPending
    BY <1>1, <1>2, <2>1, <2>3, AwaitBudget, Zenon
  <2> QED BY <1>1, <2>1, <2>2, <2>4, PopBudget, Zenon DEF QueueWithinBudget
<1>9. CASE IgnoreEvent \/ AppSends \/ KernelRaises
  <2>1. UNCHANGED <<tx, queue, bytes, pending>>
    BY <1>9 DEF IgnoreEvent, AppSends, KernelRaises, monitorVars, tables
  <2> QED BY <1>2, <2>1, Zenon DEF QueueWithinBudget
<1>10. CASE PushEventReport \/ SendFailed
  <2> DEFINE m == Head(devq).report
  <2>1. /\ devq # <<>> /\ queue' = Pushed(m).queue /\ bytes' = Pushed(m).bytes
        /\ pending' = pending /\ (tx' = tx \/ tx' = <<>>)
    BY <1>10 DEF PushEventReport, SendFailed, Reading, Push, Reconnecting,
       DropSocketChannel, CloseSocket
  <2>2. m \in Message
    BY <2>1, FrontEvent
  <2> HIDE DEF m
  <2>3. bytes' = BodyBytes(queue') /\ bytes' <= MaxQueueBytes /\ Len(queue') <= MaxQueueCount
    BY <1>1, <2>1, <2>2, PushBudget, Zenon
  <2>4. Len(tx') <= 1
    BY <1>2, <2>1
  <2> QED BY <1>2, <2>1, <2>3, <2>4, Zenon DEF QueueWithinBudget
<1>11. CASE SendEventReport
  <2> DEFINE m == Head(devq).report
  <2>1. /\ devq # <<>> /\ UNCHANGED <<queue, bytes>> /\ pending' = Awaited(m)
        /\ tx = <<>> /\ (tx' = tx \/ tx' = Append(tx, m))
    BY <1>11 DEF SendEventReport, Reading, Direct
  <2>2. m \in Message
    BY <2>1, FrontEvent
  <2> HIDE DEF m
  <2>3. Len(tx') <= 1
    BY <2>1
  <2>4. Len(pending') <= MaxPending
    BY <1>1, <1>2, <2>1, <2>2, AwaitBudget, Zenon
  <2> QED BY <1>2, <2>1, <2>3, <2>4, Zenon DEF QueueWithinBudget
<1> QED BY <1>3, <1>4, <1>5, <1>6, <1>7, <1>8, <1>9, <1>10, <1>11, DataMoves

(* Both tables keep their limits and the byte count is exact, for every       *)
(* limit and every size of reports and details.                               *)
THEOREM BudgetIsKept == Spec => []QueueWithinBudget
<1>1. Init => QueueWithinBudget
  <2> SUFFICES ASSUME Init PROVE QueueWithinBudget
    OBVIOUS
  <2>1. bytes = 0 /\ queue = <<>> /\ pending = <<>> /\ tx = <<>>
    BY DEF Init
  <2>2. queue \in Seq(Message) /\ 0 \in 0..Len(queue) /\ Len(queue) = 0
    BY <2>1
  <2>3. BodyBytes(queue) = 0
    BY <2>2, TotalsNat, Zenon DEF BodyBytes
  <2>4. 0 <= MaxQueueBytes /\ Len(queue) <= MaxQueueCount /\ Len(pending) <= MaxPending
        /\ Len(tx) <= 1
    BY <2>1, SizeAssumption, LimitAssumption DEF SizeAssumption, LimitAssumption
  <2> QED BY <2>1, <2>3, <2>4, Zenon DEF QueueWithinBudget
<1>2. DataInv /\ QueueWithinBudget /\ [Next]_vars => QueueWithinBudget'
  BY BudgetStep
<1> QED BY <1>1, <1>2, DataAlways, PTL DEF Spec
-----------------------------------------------------------------------------
(* The type of the state: where the loop is, and what it holds.               *)

Places == {"start", "wait", "dispatch", "child", "read", "write", "fail", "resume",
           "replay", "device", "reconnect", "stopped", "ended"}

LoopTypes ==
  /\ pc \in Places
  /\ batch \subseteq Wakeup /\ cur \in Wakeup
  /\ state \in {"active", "reconnecting", "degraded"}
  /\ open \in BOOLEAN /\ wr \in BOOLEAN /\ device \in BOOLEAN /\ devFail \in BOOLEAN
  /\ attempts \in 0..MaxAttempts
  /\ peer \in {"up", "gone"}
  /\ child \in {"running", "zombie", "reaped"}
  /\ faults \in 0..MaxFaults

(* No event is an event.                                                      *)
LEMMA NoneIsWakeup == None \in Wakeup
  BY DEF None, Wakeup

(* What epoll_wait reports.                                                   *)
LEMMA ReadyIsWakeups ==
  ASSUME NEW B \in Ready
  PROVE  B \subseteq Wakeup
<1> DEFINE sock(o) == [src |-> "sock", in |-> inbound # <<>> \/ peer = "gone",
                       out |-> wr /\ (o \/ peer = "gone"), fail |-> peer = "gone"]
           dev(f) == [src |-> "dev", in |-> TRUE, out |-> FALSE, fail |-> devFail /\ f]
           pid == [None EXCEPT !.src = "child", !.in = TRUE]
<1> SUFFICES ASSUME NEW e \in B PROVE e \in Wakeup
  OBVIOUS
<1>1. PICK o \in BOOLEAN, f \in BOOLEAN : e \in {sock(o), dev(f), pid}
  BY DEF Ready
<1>2. sock(o) \in Wakeup /\ dev(f) \in Wakeup /\ pid \in Wakeup
  BY DEF Wakeup, None
<1> QED BY <1>1, <1>2

(* A fault is one of those that are left.                                     *)
LEMMA FaultCounts == faults \in 0..MaxFaults /\ (Fault \/ UNCHANGED faults) => faults' \in 0..MaxFaults
  BY LimitAssumption DEF Fault, LimitAssumption

(* The channel is given up or the retries begin.                              *)
LEMMA ChannelTypes ==
  ASSUME LoopTypes, pc' \in Places, batch' = batch, cur' \in Wakeup,
         Fault \/ UNCHANGED faults, device' \in {device, FALSE}, UNCHANGED <<peer, devFail, child>>,
         Degrade \/ \E q, b : DropSocketChannel(q, b)
  PROVE  LoopTypes'
<1>1. faults' \in 0..MaxFaults
  BY FaultCounts DEF LoopTypes
<1>2. attempts' \in 0..MaxAttempts /\ state' \in {"degraded", "reconnecting"}
  BY LimitAssumption DEF LimitAssumption, Degrade, DropSocketChannel
<1>3. open' = FALSE /\ wr' = FALSE
  BY DEF Degrade, DropSocketChannel, CloseSocket
<1> QED BY <1>1, <1>2, <1>3 DEF LoopTypes

(* The same from the handler of an event.                                     *)
LEMMA DropTypes ==
  ASSUME LoopTypes, NEW q, NEW b, Reconnecting(q, b), Fault \/ UNCHANGED faults,
         UNCHANGED <<peer, devFail, child>>
  PROVE  LoopTypes'
<1>1. pc' \in Places /\ cur' \in Wakeup
  BY NoneIsWakeup DEF Reconnecting, Places
<1> QED BY <1>1, ChannelTypes DEF Reconnecting

(* The steps of the event loop keep the types.                                *)
LEMMA TypesLoop ==
  ASSUME LoopTypes,
         RunStart \/ EpollWait \/ EpollTimeout \/ EpollError \/ Dispatch \/ EndBatch
           \/ HandleChildExitEvent \/ ChildWatchFailed
  PROVE  LoopTypes'
<1>1. Fault \/ UNCHANGED faults
  BY DEF RunStart, EpollWait, EpollTimeout, EpollError, Dispatch, EndBatch,
     HandleChildExitEvent, ChildWatchFailed
<1>2. faults' \in 0..MaxFaults
  BY <1>1, FaultCounts DEF LoopTypes
<1>3. UNCHANGED <<state, open, wr, device, attempts, peer, devFail>>
  BY DEF RunStart, EpollWait, EpollTimeout, EpollError, Dispatch, EndBatch,
     HandleChildExitEvent, ChildWatchFailed, env
<1>4. child' \in {"reaped", child}
  BY DEF RunStart, EpollWait, EpollTimeout, EpollError, Dispatch, EndBatch,
     HandleChildExitEvent, ChildWatchFailed, env
<1>5. pc' \in Places /\ batch' \subseteq Wakeup /\ cur' \in Wakeup
  <2>1. CASE Dispatch
    BY <2>1 DEF Dispatch, Stage, LoopTypes, Places
  <2>2. CASE EpollWait
    BY <2>2, ReadyIsWakeups DEF EpollWait, LoopTypes, Places
  <2>3. CASE RunStart \/ EpollTimeout \/ EpollError \/ EndBatch
             \/ HandleChildExitEvent \/ ChildWatchFailed
    BY <2>3, NoneIsWakeup DEF RunStart, EpollTimeout, EpollError, EndBatch,
       HandleChildExitEvent, ChildWatchFailed, Stop, LoopTypes, Places
  <2> QED BY <2>1, <2>2, <2>3
<1> QED BY <1>2, <1>3, <1>4, <1>5 DEF LoopTypes

(* So do the steps on the socket.                                             *)
LEMMA TypesSocket ==
  ASSUME LoopTypes,
         QueueResponse \/ ReadDrained \/ ReadFailed \/ SocketError
           \/ HandleSocketWritable \/ WritableClosed \/ CheckSocketFailureEvents
           \/ FlushBare \/ FlushOne \/ FlushFailed \/ FlushEnds \/ UpdateFailed
  PROVE  LoopTypes'
<1>1. Fault \/ UNCHANGED faults
  BY DEF QueueResponse, ReadDrained, ReadFailed, SocketError, HandleSocketWritable,
     WritableClosed, CheckSocketFailureEvents, FlushBare, FlushOne, FlushFailed, FlushEnds,
     UpdateFailed
<1>2. UNCHANGED <<peer, devFail, child>>
  BY DEF QueueResponse, ReadDrained, ReadFailed, SocketError, HandleSocketWritable,
     WritableClosed, CheckSocketFailureEvents, FlushBare, FlushOne, FlushFailed, FlushEnds,
     UpdateFailed, env
<1>3. CASE \E q, b : Reconnecting(q, b)
  BY <1>1, <1>2, <1>3, DropTypes
<1>4. CASE ~ \E q, b : Reconnecting(q, b)
  <2>1. UNCHANGED <<state, open, device, attempts>> /\ wr' \in BOOLEAN
    BY <1>4 DEF LoopTypes, QueueResponse, ReadDrained, ReadFailed, SocketError,
       HandleSocketWritable, WritableClosed, CheckSocketFailureEvents, FlushBare, FlushOne,
       FlushFailed, FlushEnds, UpdateFailed, UpdateSocketEpollEvents
  <2>2. pc' \in Places /\ batch' \subseteq Wakeup /\ cur' \in Wakeup
    BY <1>4, NoneIsWakeup DEF LoopTypes, QueueResponse, ReadDrained, ReadFailed, SocketError,
       HandleSocketWritable, WritableClosed, CheckSocketFailureEvents, FlushBare, FlushOne,
       FlushFailed, FlushEnds, UpdateFailed, loopVars, NextStage, Stage, Stop, Places
  <2>3. faults' \in 0..MaxFaults
    BY <1>1, FaultCounts DEF LoopTypes
  <2> QED BY <1>2, <2>1, <2>2, <2>3 DEF LoopTypes
<1> QED BY <1>3, <1>4

(* So do the steps on the device, the retries and the end.                    *)
LEMMA TypesDevice ==
  ASSUME LoopTypes,
         DeviceLost \/ IgnoreEvent \/ PushEventReport \/ SendEventReport \/ SendFailed
           \/ DeviceDrained \/ DeviceUpdateFailed \/ ReconnectFailed
           \/ ReconnectAdopted \/ AdoptFailed \/ ParentAfterFork
  PROVE  LoopTypes'
<1>1. CASE SendFailed
  BY <1>1, DropTypes DEF SendFailed
<1>2. CASE DeviceLost
  <2>1. pc' \in Places /\ cur' \in Wakeup
    BY <1>2, NoneIsWakeup DEF DeviceLost, Places
  <2> QED BY <1>2, <2>1, ChannelTypes DEF DeviceLost
<1>3. CASE AdoptFailed \/ (ReconnectFailed /\ ~(Spent > 0))
  <2>1. pc' \in Places /\ cur' \in Wakeup
    BY <1>3 DEF AdoptFailed, ReconnectFailed, Places, LoopTypes
  <2> QED BY <1>3, <2>1, ChannelTypes DEF AdoptFailed, ReconnectFailed
<1>4. CASE ReconnectFailed /\ Spent > 0
  <2>1. attempts' \in 0..MaxAttempts
    BY <1>4, LimitAssumption DEF ReconnectFailed, Spent, LoopTypes, LimitAssumption
  <2> QED BY <1>4, <2>1 DEF ReconnectFailed, LoopTypes, Places
<1>5. CASE ReconnectAdopted
  <2>1. 0 \in 0..MaxAttempts
    BY LimitAssumption DEF LimitAssumption
  <2> QED BY <1>5, <2>1 DEF ReconnectAdopted, LoopTypes, Places
<1>6. CASE ParentAfterFork
  BY <1>6 DEF ParentAfterFork, CloseSocket, LoopTypes, Places
<1>7. CASE IgnoreEvent \/ PushEventReport \/ SendEventReport
  BY <1>7 DEF IgnoreEvent, PushEventReport, SendEventReport, loopVars, LoopTypes
<1>8. CASE DeviceDrained \/ DeviceUpdateFailed
  <2>1. Fault \/ UNCHANGED faults
    BY <1>8 DEF DeviceDrained, DeviceUpdateFailed
  <2>2. faults' \in 0..MaxFaults
    BY <2>1, FaultCounts DEF LoopTypes
  <2>3. wr' \in BOOLEAN
    BY <1>8 DEF DeviceDrained, DeviceUpdateFailed, UpdateSocketEpollEvents, LoopTypes
  <2>4. UNCHANGED <<state, open, device, attempts, peer, devFail, child>>
    BY <1>8 DEF DeviceDrained, DeviceUpdateFailed, env
  <2>5. pc' \in Places /\ batch' \subseteq Wakeup /\ cur' \in Wakeup
    BY <1>8, NoneIsWakeup DEF DeviceDrained, DeviceUpdateFailed, Stop, LoopTypes, Places
  <2> QED BY <2>2, <2>3, <2>4, <2>5 DEF LoopTypes
<1> QED BY <1>1, <1>2, <1>3, <1>4, <1>5, <1>6, <1>7, <1>8

(* So do the app, the kernel and the child.                                   *)
LEMMA TypesEnvironment == LoopTypes /\ Environment => LoopTypes'
<1> SUFFICES ASSUME LoopTypes, Environment PROVE LoopTypes'
  OBVIOUS
<1>1. Fault \/ UNCHANGED faults
  BY DEF Environment, AppSends, AppCloses, KernelRaises, DeviceFails, ChildExits
<1>2. faults' \in 0..MaxFaults
  BY <1>1, FaultCounts DEF LoopTypes
<1>3. /\ UNCHANGED <<pc, batch, cur, state, open, wr, device, attempts>>
      /\ peer' \in {peer, "gone"} /\ devFail' \in {devFail, TRUE} /\ child' \in {child, "zombie"}
  BY DEF Environment, AppSends, AppCloses, KernelRaises, DeviceFails, ChildExits, monitorVars
<1> QED BY <1>2, <1>3 DEF LoopTypes

(* Initially they hold.                                                       *)
LEMMA TypesInit == Init => LoopTypes
<1> SUFFICES ASSUME Init PROVE LoopTypes
  OBVIOUS
<1>1. 0 \in 0..MaxAttempts /\ 0 \in 0..MaxFaults
  BY LimitAssumption DEF LimitAssumption
<1>2. attempts \in 0..MaxAttempts /\ faults \in 0..MaxFaults
  BY <1>1 DEF Init
<1>3. open \in BOOLEAN /\ wr \in BOOLEAN /\ device \in BOOLEAN /\ devFail \in BOOLEAN
  BY DEF Init
<1>4. batch \subseteq Wakeup /\ cur \in Wakeup
  BY NoneIsWakeup DEF Init
<1>5. /\ pc \in Places /\ state \in {"active", "reconnecting", "degraded"}
      /\ peer \in {"up", "gone"} /\ child \in {"running", "zombie", "reaped"}
  BY DEF Init, Places
<1> QED BY <1>2, <1>3, <1>4, <1>5 DEF LoopTypes

(* The state keeps its type whatever the app sends, the device raises and the *)
(* limits are: the retries never leave their range (TryReconnect, Degrade),   *)
(* the byte count of the queue never drops below zero (PushSocketMessage,     *)
(* FlushSocketTxQueue), and what is outstanding or answered is an event the   *)
(* kernel raised.                                                             *)
THEOREM TypeCorrect == Spec => []TypeOK
<1>1. ASSUME NEW s \in Seq(Nat), AllReported(s, events, devq, queue), events \in 0..MaxEvents
      PROVE  s \in Seq(1..MaxEvents)
  <2>1. \A i \in 1..Len(s) : s[i] \in 1..MaxEvents
    BY <1>1, LimitAssumption DEF AllReported, Reported, LimitAssumption
  <2>2. Len(s) \in Nat /\ s \in [1..Len(s) -> 1..MaxEvents]
    BY <2>1
  <2>3. s \in UNION {[1..n -> 1..MaxEvents] : n \in Nat}
    BY <2>2
  <2> QED BY <2>3, SeqDef
<1>2. ASSUME LoopTypes, DataInv, QueueWithinBudget PROVE TypeOK
  <2>1. /\ tx \in Seq(Message) /\ queue \in Seq(Message) /\ sent \in Seq(Message)
        /\ inbound \in Seq(Request) /\ devq \in Seq(Event)
        /\ events \in 0..MaxEvents /\ requests \in 0..MaxRequests
    BY <1>2 DEF DataInv, SourceInv, StreamInv
  <2>2. pending \in Seq(1..MaxEvents) /\ answered \in Seq(1..MaxEvents)
    BY <1>1, <1>2, <2>1 DEF DataInv, VerdictInv
  <2>3. bytes \in Nat
    <3>1. bytes = BodyBytes(queue) /\ 0 \in 0..Len(queue)
      BY <1>2, <2>1 DEF QueueWithinBudget
    <3> QED BY <2>1, <3>1, TotalsNat, Zenon
  <2> QED BY <1>2, <2>1, <2>2, <2>3 DEF TypeOK, LoopTypes, Places, Event
<1>3. Init => LoopTypes
  BY TypesInit
<1>4. LoopTypes /\ [Next]_vars => LoopTypes'
  <2>1. CASE UNCHANGED vars
    BY <2>1 DEF vars, LoopTypes
  <2> QED BY <2>1, TypesLoop, TypesSocket, TypesDevice, TypesEnvironment DEF Next, Monitor
<1> QED BY <1>2, <1>3, <1>4, DataAlways, BudgetIsKept, PTL DEF Spec
=============================================================================
