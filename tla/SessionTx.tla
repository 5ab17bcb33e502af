------------------------------ MODULE SessionTx ------------------------------
(***************************************************************************)
(* How an application that writes to a TCP session and the VPP worker that *)
(* sends its bytes wake each other up.  The two share the transmit fifo    *)
(* (svm/svm_fifo.h) and two message queues; nothing else synchronises      *)
(* them.                                                                   *)
(*                                                                         *)
(*   has_event       set by whoever has posted, or will serve, a transmit  *)
(*                   event: the application posts one only if it was clear *)
(*   want_deq_ntf    the application's requests to be told of dequeues     *)
(*   has_deq_ntf     one notification per "if full" request is under way   *)
(*   F_DESCHED       the transport took the session off the scheduler and  *)
(*                   answers for putting it back                           *)
(*                                                                         *)
(* The fifo is the number of bytes in it and, of those, the number sent    *)
(* and not yet acknowledged (SvmFifo is the model of its inside).  TCP is  *)
(* the window the peer last announced, in segments of one byte.            *)
(***************************************************************************)
EXTENDS Integers, FiniteSets

CONSTANTS
    Size,       \* bytes the fifo holds
    Total,      \* bytes the application has to write
    MaxWnd,     \* largest window the peer announces
    Thresh,     \* shr->deq_thresh
    Modes       \* how the application waits: subset of {"block", "epoll", "mod"}

ASSUME ConstantsOK ==
    /\ {Size, Total, MaxWnd} \subseteq Nat \ {0}
    /\ Thresh \in 0 .. Size
    /\ Modes \subseteq {"block", "epoll", "mod"}

VARIABLES
    used, sent,         \* bytes in the fifo; of those in flight (tx_offset)
    wnd,                \* snd_wnd
    has_event, want_deq_ntf, has_deq_ntf,
    desched,            \* TRANSPORT_CONNECTION_F_DESCHED
    vppq, elts,         \* transmit events in the worker's mq and on its lists
    appq,               \* transmit events in the application's mq
    mode, left,         \* how the application waits, bytes it still has to write
    app, wrk            \* where each of the two threads is

fifo == <<used, has_event, want_deq_ntf, has_deq_ntf>>
tcp == <<sent, wnd, desched>>
vars == <<fifo, tcp, vppq, elts, appq, mode, left, app, wrk>>

NTF == "SVM_FIFO_WANT_DEQ_NOTIF"
IF_FULL == "SVM_FIFO_WANT_DEQ_NOTIF_IF_FULL"

Min2(a, b) == IF a < b THEN a ELSE b

\* A connected session: an epolled one was registered for EPOLLOUT when it was
\* set up, one in mode "mod" registers only when a write would block.
Init ==
    /\ mode \in Modes
    /\ used = 0 /\ sent = 0 /\ wnd = MaxWnd
    /\ has_event = FALSE /\ has_deq_ntf = FALSE /\ desched = FALSE
    /\ want_deq_ntf = IF mode = "epoll" THEN {IF_FULL} ELSE {}
    /\ vppq = 0 /\ elts = 0 /\ appq = 0
    /\ left = Total
    /\ app = [at |-> "write"] /\ wrk = [at |-> "idle"]

-----------------------------------------------------------------------------
(* The application thread (vppcom_session_write_inline, vppcom_epoll_ctl,  *)
(* vcl_epoll_wait_handle_mq_event).                                        *)
AppGoes(to) == app' = [at |-> to]

\* Fault: all the bytes are enqueued, whether they fit or not.
AppEnqueueAll == used' = used + left /\ left' = 0 /\ AppGoes("set_event")

\* svm_fifo_enqueue of the bytes that fit
AppEnqueue ==
    LET n == Min2(Size - used, left) IN
    /\ used' = used + n /\ left' = left - n
    /\ AppGoes("set_event")

\* The write call; on a full fifo it waits, or returns VPPCOM_EWOULDBLOCK.
AppWrite ==
    /\ app.at = "write" /\ left > 0
    /\ IF used < Size THEN AppEnqueue
       ELSE /\ AppGoes(CASE mode = "block" -> "loop"
                         [] mode = "epoll" -> "epoll_wait"
                         [] mode = "mod" -> "ctl")
            /\ UNCHANGED <<used, left>>
    /\ UNCHANGED <<has_event, want_deq_ntf, has_deq_ntf, tcp, vppq, elts, appq, mode, wrk>>

\* svm_fifo_set_event; an event is posted when the flag was clear.
AppSetEvent ==
    /\ app.at = "set_event"
    /\ has_event' = TRUE
    /\ AppGoes(IF has_event THEN "written" ELSE "post")
    /\ UNCHANGED <<used, want_deq_ntf, has_deq_ntf, tcp, vppq, elts, appq, mode, left, wrk>>

AppPost ==
    /\ app.at = "post"
    /\ vppq' = vppq + 1
    /\ AppGoes("written")
    /\ UNCHANGED <<fifo, tcp, elts, appq, mode, left, wrk>>

\* The call returns.  An application that registered for EPOLLOUT only to get
\* past a full fifo takes the registration back.
AppWritten ==
    /\ app.at = "written"
    /\ want_deq_ntf' = IF mode = "mod" THEN want_deq_ntf \ {IF_FULL} ELSE want_deq_ntf
    /\ AppGoes(IF left = 0 THEN "done" ELSE "write")
    /\ UNCHANGED <<used, has_event, has_deq_ntf, tcp, vppq, elts, appq, mode, left, wrk>>

\* The loop of a blocking write: look, ask for a notification, wait, flush.
AppLoop ==
    /\ app.at = "loop"
    /\ IF used < Size THEN AppEnqueue
       ELSE AppGoes("want") /\ UNCHANGED <<used, left>>
    /\ UNCHANGED <<has_event, want_deq_ntf, has_deq_ntf, tcp, vppq, elts, appq, mode, wrk>>

AppWant ==
    /\ app.at = "want"
    /\ want_deq_ntf' = want_deq_ntf \union {NTF}
    /\ AppGoes("mq_wait")
    /\ UNCHANGED <<used, has_event, has_deq_ntf, tcp, vppq, elts, appq, mode, left, wrk>>

AppMqWait ==
    /\ app.at = "mq_wait" /\ appq > 0
    /\ appq' = 0
    /\ AppGoes("loop")
    /\ UNCHANGED <<fifo, tcp, vppq, elts, mode, left, wrk>>

\* vppcom_epoll_ctl, EPOLL_CTL_MOD: whether the session can be written is read
\* before the flag is set; if it could not, every dequeue is asked for.
AppCtl ==
    /\ app.at = "ctl"
    /\ app' = [at |-> "ctl_flag", ready |-> used < Size]
    /\ UNCHANGED <<fifo, tcp, vppq, elts, appq, mode, left, wrk>>

AppCtlFlag ==
    /\ app.at = "ctl_flag"
    /\ want_deq_ntf' = want_deq_ntf \union {IF_FULL}
    /\ AppGoes(IF app.ready THEN "write" ELSE "ctl_ntf")
    /\ UNCHANGED <<used, has_event, has_deq_ntf, tcp, vppq, elts, appq, mode, left, wrk>>

AppCtlNtf ==
    /\ app.at = "ctl_ntf"
    /\ want_deq_ntf' = want_deq_ntf \union {NTF}
    /\ AppGoes("epoll_wait")
    /\ UNCHANGED <<used, has_event, has_deq_ntf, tcp, vppq, elts, appq, mode, left, wrk>>

\* Fault: the event is taken and has_deq_ntf stays set.
AppEpollWaitKeeps ==
    /\ app.at = "epoll_wait" /\ appq > 0
    /\ appq' = appq - 1
    /\ AppGoes("write")
    /\ UNCHANGED <<fifo, tcp, vppq, elts, mode, left, wrk>>

\* A transmit event from the worker makes EPOLLOUT.
AppEpollWait ==
    /\ app.at = "epoll_wait" /\ appq > 0
    /\ appq' = appq - 1
    /\ has_deq_ntf' = FALSE
    /\ AppGoes("write")
    /\ UNCHANGED <<used, has_event, want_deq_ntf, tcp, vppq, elts, mode, left, wrk>>

-----------------------------------------------------------------------------
(* The worker: the session queue node.                                     *)
SndSpace(w, s) == IF s < w THEN w - s ELSE 0

\* session_wrk_handle_mq
WrkHandleMq ==
    /\ wrk.at = "idle" /\ vppq > 0
    /\ elts' = elts + vppq /\ vppq' = 0
    /\ UNCHANGED <<fifo, tcp, appq, mode, left, app, wrk>>

\* session_tx_fifo_read_and_snd_i for a transport that peeks: no window, the
\* transport deschedules the session; nothing to send, look again; otherwise
\* send, and if that was not all, stay on the list.
WrkTxEvent ==
    /\ wrk.at = "idle" /\ elts > 0
    /\ LET space == SndSpace(wnd, sent)
           avail == used - sent
           n == Min2(avail, space)
           all == space > 0 /\ n = avail
       IN  /\ desched' = (space = 0)
           /\ sent' = sent + n
           /\ elts' = IF space > 0 /\ n < avail THEN elts ELSE elts - 1
           /\ wrk' = IF all THEN [at |-> "unset", acked |-> 0, then |-> "tx"] ELSE wrk
    /\ UNCHANGED <<fifo, wnd, vppq, appq, mode, left, app>>

\* session_tx_maybe_reschedule and the end of transport_connection_reschedule:
\* clear the flag, look again, and take the event back if bytes have come in.
WrkUnsetEvent ==
    /\ wrk.at = "unset"
    /\ has_event' = FALSE
    /\ wrk' = [wrk EXCEPT !.at = "look"]
    /\ UNCHANGED <<used, want_deq_ntf, has_deq_ntf, tcp, vppq, elts, appq, mode, left, app>>

WrkAfter(w) == IF w.then = "tx" THEN [at |-> "idle"] ELSE [at |-> "drop", acked |-> w.acked]
WrkBack == wrk' = IF wrk.then = "end" THEN [at |-> "idle"] ELSE WrkAfter(wrk)

\* Fault: the flag is cleared and nobody looks again.
WrkLookNoMore ==
    /\ wrk.at = "look"
    /\ WrkBack
    /\ desched' = (IF wrk.then = "tx" THEN TRUE ELSE desched)
    /\ UNCHANGED <<fifo, sent, wnd, vppq, elts, appq, mode, left, app>>

WrkLookAgain ==
    /\ wrk.at = "look"
    /\ IF used > (IF wrk.then = "tx" THEN sent ELSE 0)
       THEN wrk' = [wrk EXCEPT !.at = "set"] /\ UNCHANGED desched
       ELSE /\ WrkBack
            /\ desched' = (IF wrk.then = "tx" THEN TRUE ELSE desched)
    /\ UNCHANGED <<fifo, sent, wnd, vppq, elts, appq, mode, left, app>>

WrkSetEvent ==
    /\ wrk.at = "set"
    /\ has_event' = TRUE
    /\ elts' = IF has_event THEN elts ELSE elts + 1
    /\ WrkBack
    /\ UNCHANGED <<used, want_deq_ntf, has_deq_ntf, tcp, vppq, appq, mode, left, app>>

-----------------------------------------------------------------------------
(* The worker: the TCP input node.                                         *)

\* tcp_reschedule once a descheduled session has space again; n acknowledged
\* bytes are still to be dequeued when n # 0.
Reschedule(n, end) ==
    IF used > 0
    THEN /\ elts' = elts + 1
         /\ wrk' = IF end THEN [at |-> "idle"] ELSE [at |-> "drop", acked |-> n]
    ELSE /\ elts' = elts
         /\ wrk' = [at |-> "unset", acked |-> n, then |-> IF end THEN "end" ELSE "ack"]

\* tcp_rcv_ack: the window first (tcp_update_snd_wnd), then the bytes.
WrkAck(n, w) ==
    /\ wrk.at = "idle" /\ n <= sent /\ (n > 0 \/ w # wnd)
    /\ n + w >= wnd                    \* a peer takes back no window it gave
    /\ wnd' = w
    /\ sent' = sent - n
    /\ IF w > 0 /\ desched /\ SndSpace(w, sent) > 0
       THEN desched' = FALSE /\ Reschedule(n, FALSE)
       ELSE /\ wrk' = [at |-> "drop", acked |-> n]
            /\ UNCHANGED <<desched, elts>>
    /\ UNCHANGED <<fifo, vppq, appq, mode, left, app>>

\* tcp_handle_postponed_dequeues: session_tx_fifo_dequeue_drop
WrkDrop ==
    /\ wrk.at = "drop"
    /\ used' = used - wrk.acked
    /\ wrk' = IF wrk.acked = 0 THEN [at |-> "idle"] ELSE [at |-> "want", acked |-> wrk.acked]
    /\ UNCHANGED <<has_event, want_deq_ntf, has_deq_ntf, tcp, vppq, elts, appq, mode, left, app>>

\* svm_fifo_needs_deq_ntf: first the request flags, then the state of the fifo.
WrkReadWant ==
    /\ wrk.at = "want"
    /\ wrk' = [at |-> "needs", acked |-> wrk.acked, want |-> want_deq_ntf]
    /\ UNCHANGED <<fifo, tcp, vppq, elts, appq, mode, left, app>>

\* Fault: the fifo counts as having been full only if it was overfull.
NeedsDeqNtfStrict ==
    IF NTF \in wrk.want THEN Size - used >= Thresh
    ELSE IF_FULL \in wrk.want /\ used < Size /\ used + wrk.acked > Size /\ ~has_deq_ntf

NeedsDeqNtf ==
    IF NTF \in wrk.want THEN Size - used >= Thresh
    ELSE /\ IF_FULL \in wrk.want
         /\ used < Size /\ used + wrk.acked >= Size
         /\ ~has_deq_ntf

WrkNeedsNtf ==
    /\ wrk.at = "needs"
    /\ wrk' = [at |-> IF NeedsDeqNtf THEN "clear" ELSE "resched"]
    /\ UNCHANGED <<fifo, tcp, vppq, elts, appq, mode, left, app>>

\* session_dequeue_notify: svm_fifo_clear_deq_ntf, then the event.
WrkClearNtf ==
    /\ wrk.at = "clear"
    /\ has_deq_ntf' = (has_deq_ntf \/ IF_FULL \in want_deq_ntf)
    /\ want_deq_ntf' = want_deq_ntf \ {NTF}
    /\ wrk' = [at |-> "notify"]
    /\ UNCHANGED <<used, has_event, tcp, vppq, elts, appq, mode, left, app>>

WrkNotify ==
    /\ wrk.at = "notify"
    /\ appq' = appq + 1
    /\ wrk' = [at |-> "resched"]
    /\ UNCHANGED <<fifo, tcp, vppq, elts, mode, left, app>>

WrkReschedule ==
    /\ wrk.at = "resched"
    /\ IF desched /\ SndSpace(wnd, sent) > 0
       THEN desched' = FALSE /\ Reschedule(0, TRUE)
       ELSE wrk' = [at |-> "idle"] /\ UNCHANGED <<desched, elts>>
    /\ UNCHANGED <<fifo, sent, wnd, vppq, appq, mode, left, app>>

-----------------------------------------------------------------------------
App ==
    \/ AppWrite \/ AppSetEvent \/ AppPost \/ AppWritten
    \/ AppLoop \/ AppWant \/ AppMqWait
    \/ AppCtl \/ AppCtlFlag \/ AppCtlNtf \/ AppEpollWait

SessionNode ==
    \/ WrkHandleMq \/ WrkTxEvent \/ WrkUnsetEvent \/ WrkLookAgain \/ WrkSetEvent

TcpInput ==
    \/ \E n \in 0 .. Size, w \in 0 .. MaxWnd : WrkAck(n, w)
    \/ WrkDrop \/ WrkReadWant \/ WrkNeedsNtf \/ WrkClearNtf \/ WrkNotify \/ WrkReschedule

Next == App \/ SessionNode \/ TcpInput

\* The peer acknowledges what it got and opens its window.
OpenAck == \E n \in 0 .. Size : n = sent /\ WrkAck(n, MaxWnd)

\* The application thread runs; the worker polls, so it serves its queues and
\* lists and finishes each handler; the peer answers again and again.
Fairness ==
    /\ WF_vars(App)
    /\ SF_vars(WrkHandleMq) /\ SF_vars(WrkTxEvent)
    /\ WF_vars(wrk.at # "idle" /\ (SessionNode \/ TcpInput))
    /\ SF_vars(OpenAck)

Spec == Init /\ [][Next]_vars /\ Fairness

-----------------------------------------------------------------------------
(* Properties.                                                             *)

\* The variables keep their types.
TypeOK ==
    /\ used \in 0 .. Size /\ sent \in 0 .. Size /\ wnd \in 0 .. MaxWnd
    /\ {has_event, has_deq_ntf, desched} \subseteq BOOLEAN
    /\ want_deq_ntf \subseteq {NTF, IF_FULL}
    /\ {vppq, elts, appq} \subseteq Nat
    /\ left \in 0 .. Total /\ mode \in Modes

\* No transmit event is lost: when neither thread is in the middle of a call
\* and bytes wait to be sent, an event is queued or the transport has the
\* session descheduled for want of a window, and then it will put it back.
TxCovered ==
    (wrk.at = "idle" /\ app.at \notin {"set_event", "post"} /\ sent < used) =>
        \/ vppq + elts > 0
        \/ desched /\ SndSpace(wnd, sent) = 0

\* No dequeue notification is lost: an application that was registered for
\* EPOLLOUT before it filled the fifo and now sleeps in epoll_wait has a full
\* fifo before it, or a notification waiting (svm_fifo_needs_deq_ntf).
WriterCovered ==
    (mode = "epoll" /\ app.at = "epoll_wait" /\ wrk.at = "idle" /\ used < Size) =>
        appq > 0

\* Every byte an application so registered has to write is sent and
\* acknowledged: neither thread waits for the other for ever.
AllDelivered == (mode = "epoll") => <>[](left = 0 /\ used = 0)

\* vppcom_epoll_ctl: "Request deq ntf in case dequeue happened while updating
\* flag".  A writer that asks for EPOLLOUT because the fifo was full is woken.
WriterWoken == [](app.at = "epoll_wait" => <>(app.at # "epoll_wait"))
=============================================================================
