-------------------------- MODULE SessionTx_proofs --------------------------
(***************************************************************************)
(* Proofs about SessionTx: neither a transmit event nor a dequeue          *)
(* notification is lost, whatever the size of the fifo, the window, the    *)
(* number of bytes and the threshold.                                      *)
(***************************************************************************)
EXTENDS SessionTx, TLAPS

-----------------------------------------------------------------------------
(* The inductive invariant.                                                *)

\* What each thread holds at each of its steps.
WrkOK ==
    \/ wrk \in [at : {"idle", "clear", "notify", "resched"}]
    \/ wrk \in [at : {"unset", "look", "set"}, acked : Nat, then : {"tx", "ack", "end"}]
    \/ wrk \in [at : {"drop", "want"}, acked : Nat]
    \/ wrk \in [at : {"needs"}, acked : Nat, want : SUBSET {NTF, IF_FULL}]

AppOK ==
    \/ app \in [at : {"write", "set_event", "post", "written", "done", "loop", "want",
                      "mq_wait", "ctl", "ctl_ntf", "epoll_wait"}]
    \/ app \in [at : {"ctl_flag"}, ready : BOOLEAN]

\* The session queue node and the end of a reschedule have nothing to drop;
\* a reschedule clears F_DESCHED before it looks at the fifo.
HandlerOK ==
    wrk.at \in {"unset", "look", "set"} =>
        /\ wrk.then # "ack" => wrk.acked = 0
        /\ ~desched

\* Acknowledged bytes that are still in the fifo, and bytes never sent.
Acked  == IF wrk.at \in {"unset", "look", "set", "drop"} THEN wrk.acked ELSE 0
Unsent == used - sent - Acked

\* Bytes in flight are in the fifo and inside the window.
BytesOK == 0 <= Unsent /\ sent <= wnd

\* The transport answers for the session: it has descheduled it, and there is
\* no window or the handler under way ends with WrkReschedule.
TransportOwns ==
    /\ desched
    /\ \/ SndSpace(wnd, sent) = 0
       \/ wrk.at \in {"want", "needs", "clear", "notify", "resched"}
       \/ wrk.at = "drop" /\ wrk.acked > 0

\* has_event means what it says: an event is queued or about to be posted,
\* or the transport will queue one.
EventOK ==
    has_event => \/ vppq + elts > 0
                 \/ app.at = "post"
                 \/ TransportOwns
                 \/ wrk.at = "unset"

\* Unsent bytes come with has_event, or with somebody about to set it.
BytesHaveEvent ==
    ~has_event => \/ Unsent = 0
                  \/ app.at = "set_event"
                  \/ wrk.at \in {"look", "set"}

\* An epolled application keeps its registration and never blocks.
EpollOK ==
    mode = "epoll" =>
        /\ want_deq_ntf = {IF_FULL}
        /\ wrk.at = "needs" => wrk.want = {IF_FULL}
        /\ app.at \in {"write", "set_event", "post", "written", "done", "epoll_wait"}
        /\ has_deq_ntf => (appq > 0 \/ wrk.at = "notify")

\* The writer asleep is in front of a full fifo, or a notification is queued
\* or is going to be by the handler that made the room.
SleeperOK ==
    (mode = "epoll" /\ app.at = "epoll_wait" /\ used < Size) =>
        \/ appq > 0
        \/ wrk.at \in {"clear", "notify"}
        \/ wrk.at \in {"want", "needs"} /\ used + wrk.acked >= Size

IInv ==
    /\ TypeOK /\ WrkOK /\ AppOK /\ HandlerOK /\ BytesOK
    /\ EventOK /\ BytesHaveEvent /\ EpollOK /\ SleeperOK

-----------------------------------------------------------------------------
(* Preservation.                                                           *)

\* The inductive invariant holds when the session is connected.
LEMMA InitInv == Init => IInv
<1> SUFFICES ASSUME Init
             PROVE  IInv
  OBVIOUS
<1> USE ConstantsOK DEF Init, NTF, IF_FULL
<1>1. TypeOK
  <2>1. {has_event, has_deq_ntf, desched} \subseteq BOOLEAN
    BY Zenon
  <2> QED
    BY <2>1 DEF TypeOK
<1>2. WrkOK /\ AppOK /\ HandlerOK /\ BytesOK
  BY DEF WrkOK, AppOK, HandlerOK, BytesOK, Unsent, Acked
<1>3. EventOK /\ BytesHaveEvent
  BY DEF EventOK, BytesHaveEvent, Unsent, Acked
<1>4. EpollOK /\ SleeperOK
  BY DEF EpollOK, SleeperOK
<1> QED
  BY <1>1, <1>2, <1>3, <1>4 DEF IInv

\* The application's calls keep the invariant: it enqueues before it sets
\* has_event, posts only if the flag was clear, and sleeps only in front of
\* a full fifo.
LEMMA AppInv == IInv /\ App => IInv'
<1> SUFFICES ASSUME IInv, App
             PROVE  IInv'
  OBVIOUS
<1> USE ConstantsOK DEF IInv, fifo, tcp, NTF, IF_FULL
<1>1. CASE AppWrite
  <2>1. TypeOK' /\ WrkOK' /\ AppOK'
    BY <1>1 DEF AppWrite, AppGoes, AppEnqueue, Min2, TypeOK, WrkOK, AppOK, BytesOK,
       Unsent, Acked
  <2>2. HandlerOK' /\ BytesOK'
    BY <1>1 DEF AppWrite, AppGoes, AppEnqueue, Min2, TypeOK, WrkOK, HandlerOK, BytesOK,
       Unsent, Acked
  <2>3. EventOK' /\ BytesHaveEvent'
    BY <1>1 DEF AppWrite, AppGoes, AppEnqueue, Min2, TypeOK, WrkOK, AppOK, HandlerOK,
       BytesOK, EventOK, BytesHaveEvent, TransportOwns, SndSpace, Unsent, Acked
  <2>4. EpollOK' /\ SleeperOK'
    BY <1>1 DEF AppWrite, AppGoes, AppEnqueue, Min2, TypeOK, WrkOK, AppOK, EpollOK,
       SleeperOK
  <2> QED
    BY <2>1, <2>2, <2>3, <2>4
<1>2. CASE AppSetEvent
  <2>1. TypeOK' /\ WrkOK' /\ AppOK'
    BY <1>2 DEF AppSetEvent, AppGoes, TypeOK, WrkOK, AppOK, BytesOK, Unsent, Acked
  <2>2. HandlerOK' /\ BytesOK'
    BY <1>2 DEF AppSetEvent, AppGoes, TypeOK, WrkOK, HandlerOK, BytesOK, Unsent, Acked
  <2>3. EventOK' /\ BytesHaveEvent'
    BY <1>2 DEF AppSetEvent, AppGoes, TypeOK, WrkOK, AppOK, HandlerOK, BytesOK, EventOK,
       BytesHaveEvent, TransportOwns, SndSpace, Unsent, Acked
  <2>4. EpollOK' /\ SleeperOK'
    BY <1>2 DEF AppSetEvent, AppGoes, TypeOK, WrkOK, AppOK, EpollOK, SleeperOK
  <2> QED
    BY <2>1, <2>2, <2>3, <2>4
<1>3. CASE AppPost
  <2>1. TypeOK' /\ WrkOK' /\ AppOK'
    BY <1>3 DEF AppPost, AppGoes, TypeOK, WrkOK, AppOK, BytesOK, Unsent, Acked
  <2>2. HandlerOK' /\ BytesOK'
    BY <1>3 DEF AppPost, AppGoes, TypeOK, WrkOK, HandlerOK, BytesOK, Unsent, Acked
  <2>3. EventOK' /\ BytesHaveEvent'
    BY <1>3 DEF AppPost, AppGoes, TypeOK, WrkOK, AppOK, HandlerOK, BytesOK, EventOK,
       BytesHaveEvent, TransportOwns, SndSpace, Unsent, Acked
  <2>4. EpollOK' /\ SleeperOK'
    BY <1>3 DEF AppPost, AppGoes, TypeOK, WrkOK, AppOK, EpollOK, SleeperOK
  <2> QED
    BY <2>1, <2>2, <2>3, <2>4
<1>4. CASE AppWritten
  <2>1. TypeOK' /\ WrkOK' /\ AppOK'
    BY <1>4 DEF AppWritten, AppGoes, TypeOK, WrkOK, AppOK, BytesOK, Unsent, Acked
  <2>2. HandlerOK' /\ BytesOK'
    BY <1>4 DEF AppWritten, AppGoes, TypeOK, WrkOK, HandlerOK, BytesOK, Unsent, Acked
  <2>3. EventOK' /\ BytesHaveEvent'
    BY <1>4 DEF AppWritten, AppGoes, TypeOK, WrkOK, AppOK, HandlerOK, BytesOK, EventOK,
       BytesHaveEvent, TransportOwns, SndSpace, Unsent, Acked
  <2>4. EpollOK' /\ SleeperOK'
    BY <1>4 DEF AppWritten, AppGoes, TypeOK, WrkOK, AppOK, EpollOK, SleeperOK
  <2> QED
    BY <2>1, <2>2, <2>3, <2>4
<1>5. CASE AppLoop
  <2>1. TypeOK' /\ WrkOK' /\ AppOK'
    BY <1>5 DEF AppLoop, AppGoes, AppEnqueue, Min2, TypeOK, WrkOK, AppOK, BytesOK, Unsent,
       Acked
  <2>2. HandlerOK' /\ BytesOK'
    BY <1>5 DEF AppLoop, AppGoes, AppEnqueue, Min2, TypeOK, WrkOK, HandlerOK, BytesOK,
       Unsent, Acked
  <2>3. EventOK' /\ BytesHaveEvent'
    BY <1>5 DEF AppLoop, AppGoes, AppEnqueue, Min2, TypeOK, WrkOK, AppOK, HandlerOK,
       BytesOK, EventOK, BytesHaveEvent, TransportOwns, SndSpace, Unsent, Acked
  <2>4. EpollOK' /\ SleeperOK'
    BY <1>5 DEF AppLoop, AppGoes, AppEnqueue, Min2, TypeOK, WrkOK, AppOK, EpollOK,
       SleeperOK
  <2> QED
    BY <2>1, <2>2, <2>3, <2>4
<1>6. CASE AppWant
  <2>1. TypeOK' /\ WrkOK' /\ AppOK'
    BY <1>6 DEF AppWant, AppGoes, TypeOK, WrkOK, AppOK, BytesOK, Unsent, Acked
  <2>2. HandlerOK' /\ BytesOK'
    BY <1>6 DEF AppWant, AppGoes, TypeOK, WrkOK, HandlerOK, BytesOK, Unsent, Acked
  <2>3. EventOK' /\ BytesHaveEvent'
    BY <1>6 DEF AppWant, AppGoes, TypeOK, WrkOK, AppOK, HandlerOK, BytesOK, EventOK,
       BytesHaveEvent, TransportOwns, SndSpace, Unsent, Acked
  <2>4. EpollOK' /\ SleeperOK'
    BY <1>6 DEF AppWant, AppGoes, TypeOK, WrkOK, AppOK, EpollOK, SleeperOK
  <2> QED
    BY <2>1, <2>2, <2>3, <2>4
<1>7. CASE AppMqWait
  <2>1. TypeOK' /\ WrkOK' /\ AppOK'
    BY <1>7 DEF AppMqWait, AppGoes, TypeOK, WrkOK, AppOK, BytesOK, Unsent, Acked
  <2>2. HandlerOK' /\ BytesOK'
    BY <1>7 DEF AppMqWait, AppGoes, TypeOK, WrkOK, HandlerOK, BytesOK, Unsent, Acked
  <2>3. EventOK' /\ BytesHaveEvent'
    BY <1>7 DEF AppMqWait, AppGoes, TypeOK, WrkOK, AppOK, HandlerOK, BytesOK, EventOK,
       BytesHaveEvent, TransportOwns, SndSpace, Unsent, Acked
  <2>4. EpollOK' /\ SleeperOK'
    BY <1>7 DEF AppMqWait, AppGoes, TypeOK, WrkOK, AppOK, EpollOK, SleeperOK
  <2> QED
    BY <2>1, <2>2, <2>3, <2>4
<1>8. CASE AppCtl
  <2>1. TypeOK' /\ WrkOK' /\ AppOK'
    BY <1>8 DEF AppCtl, TypeOK, WrkOK, AppOK, BytesOK, Unsent, Acked
  <2>2. HandlerOK' /\ BytesOK'
    BY <1>8 DEF AppCtl, TypeOK, WrkOK, HandlerOK, BytesOK, Unsent, Acked
  <2>3. EventOK' /\ BytesHaveEvent'
    BY <1>8 DEF AppCtl, TypeOK, WrkOK, AppOK, HandlerOK, BytesOK, EventOK, BytesHaveEvent,
       TransportOwns, SndSpace, Unsent, Acked
  <2>4. EpollOK' /\ SleeperOK'
    BY <1>8 DEF AppCtl, TypeOK, WrkOK, AppOK, EpollOK, SleeperOK
  <2> QED
    BY <2>1, <2>2, <2>3, <2>4
<1>9. CASE AppCtlFlag
  <2>1. TypeOK' /\ WrkOK' /\ AppOK'
    BY <1>9 DEF AppCtlFlag, AppGoes, TypeOK, WrkOK, AppOK, BytesOK, Unsent, Acked
  <2>2. HandlerOK' /\ BytesOK'
    BY <1>9 DEF AppCtlFlag, AppGoes, TypeOK, WrkOK, HandlerOK, BytesOK, Unsent, Acked
  <2>3. EventOK' /\ BytesHaveEvent'
    BY <1>9 DEF AppCtlFlag, AppGoes, TypeOK, WrkOK, AppOK, HandlerOK, BytesOK, EventOK,
       BytesHaveEvent, TransportOwns, SndSpace, Unsent, Acked
  <2>4. EpollOK' /\ SleeperOK'
    BY <1>9 DEF AppCtlFlag, AppGoes, TypeOK, WrkOK, AppOK, EpollOK, SleeperOK
  <2> QED
    BY <2>1, <2>2, <2>3, <2>4
<1>10. CASE AppCtlNtf
  <2>1. TypeOK' /\ WrkOK' /\ AppOK'
    BY <1>10 DEF AppCtlNtf, AppGoes, TypeOK, WrkOK, AppOK, BytesOK, Unsent, Acked
  <2>2. HandlerOK' /\ BytesOK'
    BY <1>10 DEF AppCtlNtf, AppGoes, TypeOK, WrkOK, HandlerOK, BytesOK, Unsent, Acked
  <2>3. EventOK' /\ BytesHaveEvent'
    BY <1>10 DEF AppCtlNtf, AppGoes, TypeOK, WrkOK, AppOK, HandlerOK, BytesOK, EventOK,
       BytesHaveEvent, TransportOwns, SndSpace, Unsent, Acked
  <2>4. EpollOK' /\ SleeperOK'
    BY <1>10 DEF AppCtlNtf, AppGoes, TypeOK, WrkOK, AppOK, EpollOK, SleeperOK
  <2> QED
    BY <2>1, <2>2, <2>3, <2>4
<1>11. CASE AppEpollWait
  <2>1. TypeOK' /\ WrkOK' /\ AppOK'
    <3>1. has_event' \in BOOLEAN /\ has_deq_ntf' \in BOOLEAN /\ desched' \in BOOLEAN
      BY <1>11 DEF AppEpollWait, AppGoes, TypeOK
    <3>2. /\ used' \in 0 .. Size /\ sent' \in 0 .. Size /\ wnd' \in 0 .. MaxWnd
          /\ want_deq_ntf' \subseteq {NTF, IF_FULL}
          /\ {vppq', elts', appq'} \subseteq Nat
          /\ left' \in 0 .. Total /\ mode' \in Modes
      BY <1>11 DEF AppEpollWait, AppGoes, TypeOK, BytesOK
    <3>3. WrkOK' /\ AppOK'
      BY <1>11 DEF AppEpollWait, AppGoes, TypeOK, WrkOK, AppOK
    <3> QED
      BY <3>1, <3>2, <3>3 DEF TypeOK
  <2>2. HandlerOK' /\ BytesOK'
    BY <1>11 DEF AppEpollWait, AppGoes, TypeOK, WrkOK, HandlerOK, BytesOK, Unsent, Acked
  <2>3. EventOK' /\ BytesHaveEvent'
    BY <1>11 DEF AppEpollWait, AppGoes, TypeOK, WrkOK, AppOK, HandlerOK, BytesOK, EventOK,
       BytesHaveEvent, TransportOwns, SndSpace, Unsent, Acked
  <2>4. EpollOK' /\ SleeperOK'
    BY <1>11 DEF AppEpollWait, AppGoes, TypeOK, WrkOK, AppOK, EpollOK, SleeperOK
  <2> QED
    BY <2>1, <2>2, <2>3, <2>4
<1> QED
  BY <1>1, <1>2, <1>3, <1>4, <1>5, <1>6, <1>7, <1>8, <1>9, <1>10, <1>11 DEF App

\* The session queue node keeps the invariant: it looks at the fifo again
\* after it has cleared has_event.
LEMMA SessionNodeInv == IInv /\ SessionNode => IInv'
<1> SUFFICES ASSUME IInv, SessionNode
             PROVE  IInv'
  OBVIOUS
<1> USE ConstantsOK DEF IInv, fifo, tcp, NTF, IF_FULL
<1>1. CASE WrkHandleMq
  <2>1. TypeOK' /\ WrkOK' /\ AppOK'
    BY <1>1 DEF WrkHandleMq, TypeOK, WrkOK, AppOK, BytesOK, Unsent, Acked
  <2>2. HandlerOK' /\ BytesOK'
    BY <1>1 DEF WrkHandleMq, TypeOK, WrkOK, HandlerOK, BytesOK, Unsent, Acked
  <2>3. EventOK' /\ BytesHaveEvent'
    BY <1>1 DEF WrkHandleMq, TypeOK, WrkOK, AppOK, HandlerOK, BytesOK, EventOK,
       BytesHaveEvent, TransportOwns, SndSpace, Unsent, Acked
  <2>4. EpollOK' /\ SleeperOK'
    BY <1>1 DEF WrkHandleMq, TypeOK, WrkOK, AppOK, EpollOK, SleeperOK
  <2> QED
    BY <2>1, <2>2, <2>3, <2>4
<1>2. CASE WrkTxEvent
  <2>1. TypeOK' /\ WrkOK' /\ AppOK'
    BY <1>2 DEF WrkTxEvent, SndSpace, Min2, TypeOK, WrkOK, AppOK, BytesOK, Unsent, Acked
  <2>2. HandlerOK' /\ BytesOK'
    <3> DEFINE space == SndSpace(wnd, sent)
               avail == used - sent
               n == Min2(avail, space)
    <3>1. /\ space \in Nat /\ avail \in Nat /\ n \in Nat /\ n <= avail /\ n <= space
          /\ sent' = sent + n /\ sent' <= wnd
          /\ wrk' = IF space > 0 /\ n = avail
                    THEN [at |-> "unset", acked |-> 0, then |-> "tx"] ELSE wrk
      BY <1>2 DEF WrkTxEvent, SndSpace, Min2, TypeOK, BytesOK, Unsent, Acked
    <3>4. desched' <=> space = 0
      BY <1>2, Zenon DEF WrkTxEvent
    <3>2. HandlerOK'
      <4>1. CASE space > 0 /\ n = avail
        <5>1. wrk' = [at |-> "unset", acked |-> 0, then |-> "tx"] /\ ~desched'
          BY <3>1, <3>4, <4>1
        <5> QED
          BY <5>1 DEF HandlerOK
      <4>2. CASE ~(space > 0 /\ n = avail)
        BY <1>2, <3>1, <3>4, <4>2 DEF WrkTxEvent, HandlerOK
      <4> QED
        BY <4>1, <4>2
    <3>3. BytesOK'
      BY <1>2, <3>1 DEF WrkTxEvent, TypeOK, BytesOK, Unsent, Acked
    <3> QED
      BY <3>2, <3>3
  <2>3. EventOK' /\ BytesHaveEvent'
    BY <1>2 DEF WrkTxEvent, SndSpace, Min2, TypeOK, WrkOK, AppOK, HandlerOK, BytesOK,
       EventOK, BytesHaveEvent, TransportOwns, Unsent, Acked
  <2>4. EpollOK' /\ SleeperOK'
    BY <1>2 DEF WrkTxEvent, SndSpace, Min2, TypeOK, WrkOK, AppOK, EpollOK, SleeperOK
  <2> QED
    BY <2>1, <2>2, <2>3, <2>4
<1>3. CASE WrkUnsetEvent
  <2>1. TypeOK' /\ WrkOK' /\ AppOK'
    BY <1>3 DEF WrkUnsetEvent, TypeOK, WrkOK, AppOK, BytesOK, Unsent, Acked
  <2>2. HandlerOK' /\ BytesOK'
    BY <1>3 DEF WrkUnsetEvent, TypeOK, WrkOK, HandlerOK, BytesOK, Unsent, Acked
  <2>3. EventOK' /\ BytesHaveEvent'
    BY <1>3 DEF WrkUnsetEvent, TypeOK, WrkOK, AppOK, HandlerOK, BytesOK, EventOK,
       BytesHaveEvent, TransportOwns, SndSpace, Unsent, Acked
  <2>4. EpollOK' /\ SleeperOK'
    BY <1>3 DEF WrkUnsetEvent, TypeOK, WrkOK, AppOK, EpollOK, SleeperOK
  <2> QED
    BY <2>1, <2>2, <2>3, <2>4
<1>4. CASE WrkLookAgain
  <2>1. /\ wrk.at = "look" /\ wrk.acked \in Nat /\ wrk.then \in {"tx", "ack", "end"}
        /\ wrk = [at |-> "look", acked |-> wrk.acked, then |-> wrk.then]
    BY <1>4 DEF WrkLookAgain, WrkOK
  <2>2. CASE used > (IF wrk.then = "tx" THEN sent ELSE 0)
    <3>1. /\ wrk' = [at |-> "set", acked |-> wrk.acked, then |-> wrk.then]
          /\ UNCHANGED <<fifo, tcp, vppq, elts, appq, mode, left, app>>
      BY <1>4, <2>1, <2>2 DEF WrkLookAgain
    <3>2. TypeOK' /\ WrkOK' /\ AppOK'
      BY <2>1, <3>1 DEF TypeOK, WrkOK, AppOK, BytesOK, Unsent, Acked
    <3>3. HandlerOK' /\ BytesOK'
      BY <2>1, <3>1 DEF TypeOK, WrkOK, HandlerOK, BytesOK, Unsent, Acked
    <3>4. EventOK' /\ BytesHaveEvent'
      BY <2>1, <3>1 DEF TypeOK, WrkOK, AppOK, HandlerOK, BytesOK, EventOK, BytesHaveEvent,
         TransportOwns, SndSpace, Unsent, Acked
    <3>5. EpollOK' /\ SleeperOK'
      BY <2>1, <3>1 DEF TypeOK, WrkOK, AppOK, EpollOK, SleeperOK
    <3> QED
      BY <3>2, <3>3, <3>4, <3>5
  <2>3. CASE used <= sent /\ wrk.then = "tx"
    <3>0. ~(used > (IF wrk.then = "tx" THEN sent ELSE 0))
      BY <2>3 DEF TypeOK
    <3>1. /\ wrk' = [at |-> "idle"] /\ desched'
          /\ UNCHANGED <<fifo, sent, wnd, vppq, elts, appq, mode, left, app>>
      BY <1>4, <2>1, <2>3, <3>0, Zenon DEF WrkLookAgain, WrkBack, WrkAfter
    <3>2. TypeOK' /\ WrkOK' /\ AppOK'
      BY <2>1, <2>3, <3>1 DEF TypeOK, WrkOK, AppOK, BytesOK, Unsent, Acked
    <3>3. HandlerOK' /\ BytesOK'
      BY <2>1, <2>3, <3>1 DEF TypeOK, WrkOK, HandlerOK, BytesOK, Unsent, Acked
    <3>4. EventOK' /\ BytesHaveEvent'
      BY <2>1, <2>3, <3>1 DEF TypeOK, WrkOK, AppOK, HandlerOK, BytesOK, EventOK,
         BytesHaveEvent, TransportOwns, SndSpace, Unsent, Acked
    <3>5. EpollOK' /\ SleeperOK'
      BY <2>1, <2>3, <3>1 DEF TypeOK, WrkOK, AppOK, EpollOK, SleeperOK
    <3> QED
      BY <3>2, <3>3, <3>4, <3>5
  <2>4. CASE used = 0 /\ wrk.then # "tx"
    <3>1. /\ wrk' = IF wrk.then = "end" THEN [at |-> "idle"]
                    ELSE [at |-> "drop", acked |-> wrk.acked]
          /\ UNCHANGED <<fifo, tcp, vppq, elts, appq, mode, left, app>>
      BY <1>4, <2>1, <2>4 DEF WrkLookAgain, WrkBack, WrkAfter, TypeOK
    <3>2. TypeOK' /\ WrkOK' /\ AppOK'
      BY <2>1, <2>4, <3>1 DEF TypeOK, WrkOK, AppOK, BytesOK, Unsent, Acked
    <3>3. HandlerOK' /\ BytesOK'
      BY <2>1, <2>4, <3>1 DEF TypeOK, WrkOK, HandlerOK, BytesOK, Unsent, Acked
    <3>4. EventOK' /\ BytesHaveEvent'
      BY <2>1, <2>4, <3>1 DEF TypeOK, WrkOK, AppOK, HandlerOK, BytesOK, EventOK,
         BytesHaveEvent, TransportOwns, SndSpace, Unsent, Acked
    <3>5. EpollOK' /\ SleeperOK'
      BY <2>1, <2>4, <3>1 DEF TypeOK, WrkOK, AppOK, EpollOK, SleeperOK
    <3> QED
      BY <3>2, <3>3, <3>4, <3>5
  <2> QED
    BY <2>1, <2>2, <2>3, <2>4 DEF TypeOK
<1>5. CASE WrkSetEvent
  <2>1. TypeOK' /\ WrkOK' /\ AppOK'
    BY <1>5 DEF WrkSetEvent, WrkBack, WrkAfter, TypeOK, WrkOK, AppOK, BytesOK, Unsent,
       Acked
  <2>2. HandlerOK' /\ BytesOK'
    BY <1>5 DEF WrkSetEvent, WrkBack, WrkAfter, TypeOK, WrkOK, HandlerOK, BytesOK, Unsent,
       Acked
  <2>3. EventOK' /\ BytesHaveEvent'
    BY <1>5 DEF WrkSetEvent, WrkBack, WrkAfter, TypeOK, WrkOK, AppOK, HandlerOK, BytesOK,
       EventOK, BytesHaveEvent, TransportOwns, SndSpace, Unsent, Acked
  <2>4. EpollOK' /\ SleeperOK'
    BY <1>5 DEF WrkSetEvent, WrkBack, WrkAfter, TypeOK, WrkOK, AppOK, EpollOK, SleeperOK
  <2> QED
    BY <2>1, <2>2, <2>3, <2>4
<1> QED
  BY <1>1, <1>2, <1>3, <1>4, <1>5 DEF SessionNode

\* TCP input keeps the invariant: it reads the request flags before it
\* decides, and puts a descheduled session back before it is done.
LEMMA TcpInputInv == IInv /\ TcpInput => IInv'
<1> SUFFICES ASSUME IInv, TcpInput
             PROVE  IInv'
  OBVIOUS
<1> USE ConstantsOK DEF IInv, fifo, tcp, NTF, IF_FULL
<1>1. ASSUME NEW n \in 0 .. Size, NEW w \in 0 .. MaxWnd, WrkAck(n, w)
      PROVE  IInv'
  <2>1. TypeOK' /\ WrkOK' /\ AppOK'
    <3>1. has_event' \in BOOLEAN /\ has_deq_ntf' \in BOOLEAN /\ desched' \in BOOLEAN
      BY <1>1 DEF WrkAck, Reschedule, SndSpace, TypeOK
    <3>2. /\ used' \in 0 .. Size /\ sent' \in 0 .. Size /\ wnd' \in 0 .. MaxWnd
          /\ want_deq_ntf' \subseteq {NTF, IF_FULL}
          /\ {vppq', elts', appq'} \subseteq Nat
          /\ left' \in 0 .. Total /\ mode' \in Modes
      BY <1>1 DEF WrkAck, Reschedule, SndSpace, TypeOK, BytesOK
    <3>3. WrkOK' /\ AppOK'
      BY <1>1 DEF WrkAck, Reschedule, SndSpace, TypeOK, WrkOK, AppOK
    <3> QED
      BY <3>1, <3>2, <3>3 DEF TypeOK
  <2>2. HandlerOK' /\ BytesOK'
    BY <1>1 DEF WrkAck, Reschedule, SndSpace, TypeOK, WrkOK, HandlerOK, BytesOK, Unsent,
       Acked
  <2>3. EventOK' /\ BytesHaveEvent'
    BY <1>1 DEF WrkAck, Reschedule, SndSpace, TypeOK, WrkOK, AppOK, HandlerOK, BytesOK,
       EventOK, BytesHaveEvent, TransportOwns, Unsent, Acked
  <2>4. EpollOK' /\ SleeperOK'
    BY <1>1 DEF WrkAck, Reschedule, SndSpace, TypeOK, WrkOK, AppOK, EpollOK, SleeperOK
  <2> QED
    BY <2>1, <2>2, <2>3, <2>4
<1>2. CASE WrkDrop
  <2>1. TypeOK' /\ WrkOK' /\ AppOK'
    BY <1>2 DEF WrkDrop, TypeOK, WrkOK, AppOK, BytesOK, Unsent, Acked
  <2>2. HandlerOK' /\ BytesOK'
    BY <1>2 DEF WrkDrop, TypeOK, WrkOK, HandlerOK, BytesOK, Unsent, Acked
  <2>3. EventOK' /\ BytesHaveEvent'
    BY <1>2 DEF WrkDrop, TypeOK, WrkOK, AppOK, HandlerOK, BytesOK, EventOK,
       BytesHaveEvent, TransportOwns, SndSpace, Unsent, Acked
  <2>4. EpollOK' /\ SleeperOK'
    BY <1>2 DEF WrkDrop, TypeOK, WrkOK, AppOK, EpollOK, SleeperOK
  <2> QED
    BY <2>1, <2>2, <2>3, <2>4
<1>3. CASE WrkReadWant
  <2>1. TypeOK' /\ WrkOK' /\ AppOK'
    BY <1>3 DEF WrkReadWant, TypeOK, WrkOK, AppOK, BytesOK, Unsent, Acked
  <2>2. HandlerOK' /\ BytesOK'
    BY <1>3 DEF WrkReadWant, TypeOK, WrkOK, HandlerOK, BytesOK, Unsent, Acked
  <2>3. EventOK' /\ BytesHaveEvent'
    BY <1>3 DEF WrkReadWant, TypeOK, WrkOK, AppOK, HandlerOK, BytesOK, EventOK,
       BytesHaveEvent, TransportOwns, SndSpace, Unsent, Acked
  <2>4. EpollOK' /\ SleeperOK'
    BY <1>3 DEF WrkReadWant, TypeOK, WrkOK, AppOK, EpollOK, SleeperOK
  <2> QED
    BY <2>1, <2>2, <2>3, <2>4
<1>4. CASE WrkNeedsNtf
  <2>1. TypeOK' /\ WrkOK' /\ AppOK'
    BY <1>4 DEF WrkNeedsNtf, NeedsDeqNtf, TypeOK, WrkOK, AppOK, BytesOK, Unsent, Acked
  <2>2. HandlerOK' /\ BytesOK'
    BY <1>4 DEF WrkNeedsNtf, NeedsDeqNtf, TypeOK, WrkOK, HandlerOK, BytesOK, Unsent, Acked
  <2>3. EventOK' /\ BytesHaveEvent'
    BY <1>4 DEF WrkNeedsNtf, NeedsDeqNtf, TypeOK, WrkOK, AppOK, HandlerOK, BytesOK,
       EventOK, BytesHaveEvent, TransportOwns, SndSpace, Unsent, Acked
  <2>4. EpollOK' /\ SleeperOK'
    BY <1>4 DEF WrkNeedsNtf, NeedsDeqNtf, TypeOK, WrkOK, AppOK, EpollOK, SleeperOK
  <2> QED
    BY <2>1, <2>2, <2>3, <2>4
<1>5. CASE WrkClearNtf
  <2>1. TypeOK' /\ WrkOK' /\ AppOK'
    BY <1>5 DEF WrkClearNtf, TypeOK, WrkOK, AppOK, BytesOK, Unsent, Acked
  <2>2. HandlerOK' /\ BytesOK'
    BY <1>5 DEF WrkClearNtf, TypeOK, WrkOK, HandlerOK, BytesOK, Unsent, Acked
  <2>3. EventOK' /\ BytesHaveEvent'
    BY <1>5 DEF WrkClearNtf, TypeOK, WrkOK, AppOK, HandlerOK, BytesOK, EventOK,
       BytesHaveEvent, TransportOwns, SndSpace, Unsent, Acked
  <2>4. EpollOK' /\ SleeperOK'
    BY <1>5 DEF WrkClearNtf, TypeOK, WrkOK, AppOK, EpollOK, SleeperOK
  <2> QED
    BY <2>1, <2>2, <2>3, <2>4
<1>6. CASE WrkNotify
  <2>1. TypeOK' /\ WrkOK' /\ AppOK'
    BY <1>6 DEF WrkNotify, TypeOK, WrkOK, AppOK, BytesOK, Unsent, Acked
  <2>2. HandlerOK' /\ BytesOK'
    BY <1>6 DEF WrkNotify, TypeOK, WrkOK, HandlerOK, BytesOK, Unsent, Acked
  <2>3. EventOK' /\ BytesHaveEvent'
    BY <1>6 DEF WrkNotify, TypeOK, WrkOK, AppOK, HandlerOK, BytesOK, EventOK,
       BytesHaveEvent, TransportOwns, SndSpace, Unsent, Acked
  <2>4. EpollOK' /\ SleeperOK'
    BY <1>6 DEF WrkNotify, TypeOK, WrkOK, AppOK, EpollOK, SleeperOK
  <2> QED
    BY <2>1, <2>2, <2>3, <2>4
<1>7. CASE WrkReschedule
  <2>1. TypeOK' /\ WrkOK' /\ AppOK'
    <3>1. has_event' \in BOOLEAN /\ has_deq_ntf' \in BOOLEAN /\ desched' \in BOOLEAN
      BY <1>7 DEF WrkReschedule, Reschedule, SndSpace, TypeOK
    <3>2. /\ used' \in 0 .. Size /\ sent' \in 0 .. Size /\ wnd' \in 0 .. MaxWnd
          /\ want_deq_ntf' \subseteq {NTF, IF_FULL}
          /\ {vppq', elts', appq'} \subseteq Nat
          /\ left' \in 0 .. Total /\ mode' \in Modes
      BY <1>7 DEF WrkReschedule, Reschedule, SndSpace, TypeOK, BytesOK
    <3>3. WrkOK' /\ AppOK'
      BY <1>7 DEF WrkReschedule, Reschedule, SndSpace, TypeOK, WrkOK, AppOK
    <3> QED
      BY <3>1, <3>2, <3>3 DEF TypeOK
  <2>2. HandlerOK' /\ BytesOK'
    BY <1>7 DEF WrkReschedule, Reschedule, SndSpace, TypeOK, WrkOK, HandlerOK, BytesOK,
       Unsent, Acked
  <2>3. EventOK' /\ BytesHaveEvent'
    BY <1>7 DEF WrkReschedule, Reschedule, SndSpace, TypeOK, WrkOK, AppOK, HandlerOK,
       BytesOK, EventOK, BytesHaveEvent, TransportOwns, Unsent, Acked
  <2>4. EpollOK' /\ SleeperOK'
    BY <1>7 DEF WrkReschedule, Reschedule, SndSpace, TypeOK, WrkOK, AppOK, EpollOK,
       SleeperOK
  <2> QED
    BY <2>1, <2>2, <2>3, <2>4
<1> QED
  BY <1>1, <1>2, <1>3, <1>4, <1>5, <1>6, <1>7 DEF TcpInput

\* Every step, a stuttering one included, keeps the invariant.
LEMMA NextInv == IInv /\ [Next]_vars => IInv'
<1> SUFFICES ASSUME IInv, [Next]_vars
             PROVE  IInv'
  OBVIOUS
<1>1. CASE UNCHANGED vars
    BY <1>1 DEF IInv, vars, fifo, tcp, SndSpace, TypeOK, WrkOK, AppOK, BytesOK, Unsent,
       Acked, HandlerOK, EventOK, BytesHaveEvent, TransportOwns, EpollOK, SleeperOK
<1> QED
  BY <1>1, AppInv, SessionNodeInv, TcpInputInv DEF Next

\* The inductive invariant holds in every reachable state.
LEMMA Inductive == Spec => []IInv
  BY InitInv, NextInv, PTL DEF Spec

-----------------------------------------------------------------------------
(* What follows from it.                                                   *)

\* Type correctness.  The fifo never holds more bytes than its size and no
\* more than that is ever in flight (svm_fifo_enqueue, session_tx_fifo_dequeue_drop).
THEOREM TypeCorrect == Spec => []TypeOK
<1>1. IInv => TypeOK
  BY DEF IInv
<1> QED
  BY <1>1, Inductive, PTL

\* No transmit event is lost between svm_fifo_set_event in the application
\* and the worker that clears the flag, for every fifo and window size.
THEOREM NoLostEvent == Spec => []TxCovered
<1>1. IInv => TxCovered
  BY ConstantsOK DEF IInv, TypeOK, TxCovered, BytesOK, EventOK, BytesHaveEvent,
     TransportOwns, Unsent, Acked
<1> QED
  BY <1>1, Inductive, PTL

\* No dequeue notification is lost: an application registered for EPOLLOUT
\* that sleeps in front of a fifo with room has been told, for every size.
THEOREM NoLostNotification == Spec => []WriterCovered
<1>1. IInv => WriterCovered
  BY DEF IInv, WriterCovered, SleeperOK
<1> QED
  BY <1>1, Inductive, PTL
=============================================================================
