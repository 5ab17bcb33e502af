--------------------------- MODULE WorkerBarrier ---------------------------
(***************************************************************************)
(* The worker thread barrier of vlib: the protocol by which the main       *)
(* thread stops every worker, changes state the workers read, and lets     *)
(* them go again (src/vpp-src/vpp/src/vlib/threads.c and threads.h), with  *)
(* the code that depends on it:                                            *)
(*                                                                         *)
(*   - the re-cloning of the node graph by the workers (refork);           *)
(*   - vlib_workers_sync / vlib_workers_continue, by which a worker stops  *)
(*     the other workers, and the RPC by which it asks main for a barrier; *)
(*   - vlib_worker_wait_one_loop, the grace period after which an object   *)
(*     unlinked without the barrier may be freed.                          *)
(*                                                                         *)
(* Every read and every atomic update of a shared word is a step of its    *)
(* own; memory is sequentially consistent.  The barrier hold-down timer,   *)
(* event logging, statistics and clocks are left out; the expiry of a      *)
(* BARRIER_SYNC_TIMEOUT deadline is a step that may happen at any time.    *)
(***************************************************************************)
EXTENDS Naturals, FiniteSets

CONSTANTS
    Workers,            \* the worker threads (vlib_mains[1..])
    MaxGraph,           \* bound: how often main changes the node graph
    MaxRecursion,       \* bound: nesting depth of barrier sections
    MaxSyncs,           \* bound: vlib_workers_sync calls of a worker
                        \*        between two of its barrier checks
    BarrierFreeRoutes,  \* main also removes routes without the barrier
    Timeouts            \* BARRIER_SYNC_TIMEOUT may expire

ASSUME WorkersAssumption == IsFiniteSet(Workers) /\ Workers # {}
ASSUME BoundsAssumption  == /\ MaxGraph \in Nat
                            /\ MaxRecursion \in Nat \ {0}
                            /\ MaxSyncs \in Nat
ASSUME FlagsAssumption   == BarrierFreeRoutes \in BOOLEAN /\ Timeouts \in BOOLEAN

VARIABLES
    \* words shared by all threads (vlib_worker_threads[0])
    wait_at_barrier, workers_at_barrier, node_reforks_required,
    wait_before_barrier, workers_before_barrier, done_work_before_barrier,
    pending_rpc,        \* sync requests queued for main
    \* the main thread
    mpc, phase, recursion_level, need_update, refork_needed,
    processing_rpc,     \* sync requests taken from the queue, not yet run
    graph,              \* version of the node graph
    entry,              \* a forwarding entry the workers look up
    behind,             \* wait_one_loop: workers still in the same loop
    \* the workers
    wpc, clone, syncs, tmp,
    ref                 \* workers holding a pointer to the entry

sharedVars == << wait_at_barrier, workers_at_barrier, node_reforks_required,
                 wait_before_barrier, workers_before_barrier,
                 done_work_before_barrier, pending_rpc >>
mainVars   == << mpc, phase, recursion_level, need_update, refork_needed,
                 processing_rpc, graph, entry, behind >>
workerVars == << wpc, clone, syncs, tmp, ref >>
vars       == << sharedVars, mainVars, workerVars >>

\* vlib_get_n_threads () - 1, and vlib_num_workers ()
N == Cardinality(Workers)

MainPcs  == {"loop", "closing", "held", "opening", "reforking",
             "initial", "oneloop", "panic"}
BarrierPcs == {"check", "arrive", "parked", "leave", "reforkchk", "refork",
               "reforkdec", "reforkwait"}
InitPcs    == {"init", "initparked", "initleave"}
SyncPcs    == {"syncswap", "syncrpc", "syncwait", "syncarrive", "syncspin",
               "syncspin_before", "syncspin_at"}
ContPcs    == {"contspin", "contspin_before", "contspin_done",
               "contdone", "contbefore"}
WorkerPcs  == BarrierPcs \cup InitPcs \cup SyncPcs \cup ContPcs
                \cup {"dispatch", "excl"}

TypeOK ==
    /\ wait_at_barrier \in BOOLEAN
    /\ workers_at_barrier \in Nat
    /\ node_reforks_required \in Nat
    /\ wait_before_barrier \in BOOLEAN
    /\ workers_before_barrier \in Nat
    /\ done_work_before_barrier \in Nat
    /\ pending_rpc \in Nat
    /\ mpc \in MainPcs
    /\ phase \in {"boot", "init", "run"}
    /\ recursion_level \in 0 .. MaxRecursion
    /\ need_update \in BOOLEAN
    /\ refork_needed \in BOOLEAN
    /\ processing_rpc \in Nat
    /\ graph \in 0 .. MaxGraph
    /\ entry \in {"linked", "unlinked", "freed"}
    /\ behind \subseteq Workers
    /\ wpc \in [Workers -> WorkerPcs]
    /\ clone \in [Workers -> 0 .. MaxGraph]
    /\ syncs \in [Workers -> 0 .. MaxSyncs]
    /\ tmp \in [Workers -> Nat]
    /\ ref \subseteq Workers

-----------------------------------------------------------------------------
(* Initial states.                                                         *)

QuietInit ==
    /\ workers_at_barrier = 0
    /\ node_reforks_required = 0
    /\ wait_before_barrier = FALSE
    /\ workers_before_barrier = 0
    /\ done_work_before_barrier = 0
    /\ pending_rpc = 0
    /\ mpc = "loop"
    /\ recursion_level = 0
    /\ need_update = FALSE
    /\ refork_needed = FALSE
    /\ processing_rpc = 0
    /\ graph = 0
    /\ entry = "linked"
    /\ behind = {}
    /\ clone = [w \in Workers |-> 0]
    /\ syncs = [w \in Workers |-> 0]
    /\ tmp = [w \in Workers |-> 0]
    /\ ref = {}

\* start_workers has set up the shared words, asked for the initial
\* barrier and launched the workers.
BootInit ==
    /\ QuietInit
    /\ wait_at_barrier = TRUE
    /\ phase = "boot"
    /\ wpc = [w \in Workers |-> "init"]

\* Startup is over and every worker is at the head of its main loop.
SteadyInit ==
    /\ QuietInit
    /\ wait_at_barrier = FALSE
    /\ phase = "run"
    /\ wpc = [w \in Workers |-> "check"]

-----------------------------------------------------------------------------
(* The main thread.                                                        *)

\* os_panic () after "worker thread deadlock"
Deadline ==
    /\ Timeouts
    /\ mpc \in {"closing", "opening", "reforking", "initial"}
    /\ mpc' = "panic"
    /\ UNCHANGED << sharedVars, phase, recursion_level, need_update,
                    refork_needed, processing_rpc, graph, entry, behind,
                    workerVars >>

\* The outermost vlib_worker_thread_barrier_sync, up to its spin.
BarrierSyncEnter ==
    /\ recursion_level' = recursion_level + 1
    /\ wait_at_barrier' = TRUE
    /\ mpc' = "closing"
    /\ UNCHANGED << workers_at_barrier, node_reforks_required,
                    wait_before_barrier, workers_before_barrier,
                    done_work_before_barrier, phase, need_update,
                    refork_needed, graph, entry, behind, workerVars >>

\* Any caller of the main thread but the RPC handler.
BarrierSync ==
    /\ mpc = "loop"
    /\ phase \in {"boot", "run"}
    /\ BarrierSyncEnter
    /\ UNCHANGED << pending_rpc, processing_rpc >>

\* vl_mem_api_handle_rpc with a non-empty vector: swap the two vectors,
\* then take the barrier around all of them.
HandleRpc ==
    /\ mpc = "loop"
    /\ phase = "run"
    /\ pending_rpc > 0
    /\ processing_rpc' = pending_rpc
    /\ pending_rpc' = 0
    /\ BarrierSyncEnter

\* while (*workers_at_barrier != count)
BarrierClosed ==
    /\ mpc = "closing"
    /\ workers_at_barrier = N
    /\ mpc' = "held"
    /\ UNCHANGED << sharedVars, phase, recursion_level, need_update,
                    refork_needed, processing_rpc, graph, entry, behind,
                    workerVars >>

\* A nested vlib_worker_thread_barrier_sync.
NestedSync ==
    /\ mpc = "held"
    /\ recursion_level < MaxRecursion
    /\ recursion_level' = recursion_level + 1
    /\ UNCHANGED << sharedVars, mpc, phase, need_update, refork_needed,
                    processing_rpc, graph, entry, behind, workerVars >>

\* vlib_worker_thread_barrier_release that leaves recursion_level > 0.
NestedRelease ==
    /\ mpc = "held"
    /\ recursion_level > 1
    /\ recursion_level' = recursion_level - 1
    /\ UNCHANGED << sharedVars, mpc, phase, need_update, refork_needed,
                    processing_rpc, graph, entry, behind, workerVars >>

\* Fault: a graph change forgets vlib_worker_thread_node_runtime_update.
ChangeGraphSilent ==
    /\ mpc = "held"
    /\ phase = "run"
    /\ graph < MaxGraph
    /\ graph' = graph + 1
    /\ UNCHANGED << sharedVars, need_update, mpc, phase, recursion_level, refork_needed,
                    processing_rpc, entry, behind, workerVars >>

\* A barrier section that changes the node graph (vlib_node_add_next,
\* vlib_process_create, a CLI session) and calls
\* vlib_worker_thread_node_runtime_update.
ChangeGraph ==
    /\ mpc = "held"
    /\ phase = "run"
    /\ graph < MaxGraph
    /\ graph' = graph + 1
    /\ need_update' = TRUE
    /\ UNCHANGED << sharedVars, mpc, phase, recursion_level, refork_needed,
                    processing_rpc, entry, behind, workerVars >>

\* Fault: the RPC does not clear wait_before_barrier.
RunRpcNoReset ==
    /\ mpc = "held"
    /\ processing_rpc > 0
    /\ processing_rpc' = processing_rpc - 1
    /\ wait_before_barrier' = wait_before_barrier
    /\ UNCHANGED << wait_at_barrier, workers_at_barrier,
                    node_reforks_required, workers_before_barrier,
                    done_work_before_barrier, pending_rpc, mpc, phase,
                    recursion_level, need_update, refork_needed, graph,
                    entry, behind, workerVars >>

\* vl_api_rpc_call_t_handler on a request of vlib_workers_sync: the nested
\* sync and release around vlib_worker_sync_rpc cancel out.
RunRpc ==
    /\ mpc = "held"
    /\ processing_rpc > 0
    /\ processing_rpc' = processing_rpc - 1
    /\ wait_before_barrier' = FALSE
    /\ UNCHANGED << wait_at_barrier, workers_at_barrier,
                    node_reforks_required, workers_before_barrier,
                    done_work_before_barrier, pending_rpc, mpc, phase,
                    recursion_level, need_update, refork_needed, graph,
                    entry, behind, workerVars >>

\* Fault: one refork too few is asked for.
BarrierReleaseShort ==
    /\ mpc = "held"
    /\ recursion_level = 1
    /\ processing_rpc = 0
    /\ recursion_level' = 0
    /\ refork_needed' = need_update
    /\ node_reforks_required' =
            IF need_update THEN node_reforks_required + N - 1
                           ELSE node_reforks_required
    /\ need_update' = FALSE
    /\ wait_at_barrier' = FALSE
    /\ mpc' = "opening"
    /\ UNCHANGED << workers_at_barrier, wait_before_barrier,
                    workers_before_barrier, done_work_before_barrier,
                    pending_rpc, phase, processing_rpc, graph, entry, behind,
                    workerVars >>

\* vlib_worker_thread_barrier_release at recursion level 0, up to its spin.
BarrierRelease ==
    /\ mpc = "held"
    /\ recursion_level = 1
    /\ processing_rpc = 0
    /\ recursion_level' = 0
    /\ refork_needed' = need_update
    /\ node_reforks_required' =
            IF need_update THEN node_reforks_required + N
                           ELSE node_reforks_required
    /\ need_update' = FALSE
    /\ wait_at_barrier' = FALSE
    /\ mpc' = "opening"
    /\ UNCHANGED << workers_at_barrier, wait_before_barrier,
                    workers_before_barrier, done_work_before_barrier,
                    pending_rpc, phase, processing_rpc, graph, entry, behind,
                    workerVars >>

\* Fault: release does not wait for the workers to leave.
BarrierOpenedEarly ==
    /\ mpc = "opening"
    /\ mpc' = IF refork_needed THEN "reforking" ELSE "loop"
    /\ phase' = IF phase = "boot" THEN "init" ELSE phase
    /\ UNCHANGED << sharedVars, recursion_level, need_update, refork_needed,
                    processing_rpc, graph, entry, behind, workerVars >>

\* while (*workers_at_barrier > 0)
BarrierOpened ==
    /\ mpc = "opening"
    /\ workers_at_barrier = 0
    /\ mpc' = IF refork_needed THEN "reforking" ELSE "loop"
    /\ phase' = IF phase = "boot" THEN "init" ELSE phase
    /\ UNCHANGED << sharedVars, recursion_level, need_update, refork_needed,
                    processing_rpc, graph, entry, behind, workerVars >>

\* while (*node_reforks_required > 0); the local refork_needed goes out of
\* scope with the return.
ReforksDone ==
    /\ mpc = "reforking"
    /\ node_reforks_required = 0
    /\ mpc' = "loop"
    /\ refork_needed' = FALSE
    /\ UNCHANGED << sharedVars, phase, recursion_level, need_update,
                    processing_rpc, graph, entry, behind, workerVars >>

\* vlib_worker_thread_initial_barrier_sync_and_release: close ...
InitialSync ==
    /\ mpc = "loop"
    /\ phase = "init"
    /\ wait_at_barrier' = TRUE
    /\ mpc' = "initial"
    /\ UNCHANGED << workers_at_barrier, node_reforks_required,
                    wait_before_barrier, workers_before_barrier,
                    done_work_before_barrier, pending_rpc, phase,
                    recursion_level, need_update, refork_needed,
                    processing_rpc, graph, entry, behind, workerVars >>

\* ... and open again, without waiting for the workers to leave.
InitialRelease ==
    /\ mpc = "initial"
    /\ workers_at_barrier = N
    /\ wait_at_barrier' = FALSE
    /\ mpc' = "loop"
    /\ phase' = "run"
    /\ UNCHANGED << workers_at_barrier, node_reforks_required,
                    wait_before_barrier, workers_before_barrier,
                    done_work_before_barrier, pending_rpc, recursion_level,
                    need_update, refork_needed, processing_rpc, graph, entry,
                    behind, workerVars >>

\* fib_entry_src_action_uninstall with the barrier: vlib_worker_wait_one_loop
\* returns at once and the entry is freed.
RouteDelBarrier ==
    /\ mpc = "held"
    /\ phase = "run"
    /\ entry = "linked"
    /\ entry' = "freed"
    /\ UNCHANGED << sharedVars, mpc, phase, recursion_level, need_update,
                    refork_needed, processing_rpc, graph, behind,
                    workerVars >>

\* The same without the barrier: unlink, then record the loop counts.
RouteDelFree ==
    /\ BarrierFreeRoutes
    /\ mpc = "loop"
    /\ phase = "run"
    /\ entry = "linked"
    /\ entry' = "unlinked"
    /\ behind' = Workers
    /\ mpc' = "oneloop"
    /\ UNCHANGED << sharedVars, phase, recursion_level, need_update,
                    refork_needed, processing_rpc, graph, workerVars >>

\* Fault: wait_one_loop returns when the first worker has moved on.
OneLoopDoneFirst ==
    /\ mpc = "oneloop"
    /\ behind # Workers
    /\ entry' = "freed"
    /\ mpc' = "loop"
    /\ UNCHANGED << sharedVars, phase, recursion_level, need_update,
                    refork_needed, processing_rpc, graph, behind,
                    workerVars >>

\* Every loop count has changed: vlib_worker_wait_one_loop returns and
\* dpo_reset frees the entry.
OneLoopDone ==
    /\ mpc = "oneloop"
    /\ behind = {}
    /\ entry' = "freed"
    /\ mpc' = "loop"
    /\ UNCHANGED << sharedVars, phase, recursion_level, need_update,
                    refork_needed, processing_rpc, graph, behind,
                    workerVars >>

\* A new entry is installed in the forwarding table.
RouteAdd ==
    /\ mpc \in {"loop", "held"}
    /\ phase = "run"
    /\ entry = "freed"
    /\ entry' = "linked"
    /\ UNCHANGED << sharedVars, mpc, phase, recursion_level, need_update,
                    refork_needed, processing_rpc, graph, behind,
                    workerVars >>

MainNext ==
    \/ BarrierSync
    \/ HandleRpc
    \/ BarrierClosed
    \/ NestedSync
    \/ NestedRelease
    \/ ChangeGraph
    \/ RunRpc
    \/ BarrierRelease
    \/ BarrierOpened
    \/ ReforksDone
    \/ InitialSync
    \/ InitialRelease
    \/ RouteDelBarrier
    \/ RouteDelFree
    \/ OneLoopDone
    \/ RouteAdd
    \/ Deadline

-----------------------------------------------------------------------------
(* The workers.                                                            *)

\* Worker w takes a step to pc; os_panic stops every thread of the process.
Goto(w, pc) ==
    /\ mpc # "panic"
    /\ wpc' = [wpc EXCEPT ![w] = pc]

\* A step of w that changes nothing but w's program counter.
Move(w, pc) ==
    /\ Goto(w, pc)
    /\ UNCHANGED << sharedVars, mainVars, clone, syncs, tmp, ref >>

SetAtBarrier(n) ==
    /\ workers_at_barrier' = n
    /\ UNCHANGED << wait_at_barrier, node_reforks_required,
                    wait_before_barrier, workers_before_barrier,
                    done_work_before_barrier, pending_rpc, mainVars, clone,
                    syncs, tmp, ref >>

\* vlib_worker_thread_init: enter the initial barrier,
InitArrive(w) ==
    /\ wpc[w] = "init"
    /\ SetAtBarrier(workers_at_barrier + 1)
    /\ Goto(w, "initparked")

\* spin until it opens,
InitUnpark(w) ==
    /\ wpc[w] = "initparked"
    /\ ~wait_at_barrier
    /\ Move(w, "initleave")

\* Fault: a worker leaves the initial barrier without uncounting itself.
InitLeaveUncounted(w) ==
    /\ wpc[w] = "initleave"
    /\ SetAtBarrier(workers_at_barrier)
    /\ Goto(w, "check")

\* and go on to the worker's main loop.
InitLeave(w) ==
    /\ wpc[w] = "initleave"
    /\ SetAtBarrier(workers_at_barrier - 1)
    /\ Goto(w, "check")

\* The head of vlib_worker_thread_barrier_check; parked_at_barrier is set
\* here.  The bound on syncs starts afresh at each check.
BarrierCheck(w) ==
    /\ wpc[w] = "check"
    /\ Goto(w, IF wait_at_barrier THEN "arrive" ELSE "dispatch")
    /\ syncs' = [syncs EXCEPT ![w] = 0]
    /\ UNCHANGED << sharedVars, mainVars, clone, tmp, ref >>

Arrive(w) ==
    /\ wpc[w] = "arrive"
    /\ SetAtBarrier(workers_at_barrier + 1)
    /\ Goto(w, "parked")

\* while (*wait_at_barrier); parked_at_barrier is cleared.
Unpark(w) ==
    /\ wpc[w] = "parked"
    /\ ~wait_at_barrier
    /\ Move(w, "leave")

Leave(w) ==
    /\ wpc[w] = "leave"
    /\ SetAtBarrier(workers_at_barrier - 1)
    /\ Goto(w, "reforkchk")

\* Fault: node_reforks_required is not looked at.
ReforkCheckSkipped(w) ==
    /\ wpc[w] = "reforkchk"
    /\ Move(w, "dispatch")

\* if (*node_reforks_required)
ReforkCheck(w) ==
    /\ wpc[w] = "reforkchk"
    /\ Move(w, IF node_reforks_required > 0 THEN "refork" ELSE "dispatch")

\* vlib_worker_thread_node_refork: re-clone main's node graph.
Refork(w) ==
    /\ wpc[w] = "refork"
    /\ clone' = [clone EXCEPT ![w] = graph]
    /\ Goto(w, "reforkdec")
    /\ UNCHANGED << sharedVars, mainVars, syncs, tmp, ref >>

ReforkDone(w) ==
    /\ wpc[w] = "reforkdec"
    /\ node_reforks_required' = node_reforks_required - 1
    /\ Goto(w, "reforkwait")
    /\ UNCHANGED << wait_at_barrier, workers_at_barrier, wait_before_barrier,
                    workers_before_barrier, done_work_before_barrier,
                    pending_rpc, mainVars, clone, syncs, tmp, ref >>

\* Fault: a worker does not wait for the reforks of the others.
ReforkWaitSkipped(w) ==
    /\ wpc[w] = "reforkwait"
    /\ Move(w, "dispatch")

\* while (*node_reforks_required)
ReforkWait(w) ==
    /\ wpc[w] = "reforkwait"
    /\ node_reforks_required = 0
    /\ Move(w, "dispatch")

\* A node looks the forwarding entry up and keeps a pointer to it.
Lookup(w) ==
    /\ mpc # "panic"
    /\ wpc[w] = "dispatch"
    /\ entry = "linked"
    /\ w \notin ref
    /\ ref' = ref \cup {w}
    /\ UNCHANGED << sharedVars, mainVars, wpc, clone, syncs, tmp >>

\* Fault: the loop count does not change.
LoopEndUncounted(w) ==
    /\ wpc[w] = "dispatch"
    /\ Goto(w, "check")
    /\ ref' = ref \ {w}
    /\ behind' = behind
    /\ UNCHANGED << sharedVars, mpc, phase, recursion_level, need_update,
                    refork_needed, processing_rpc, graph, entry, clone,
                    syncs, tmp >>

\* The end of an iteration of vlib_main_or_worker_loop: nothing looked up in
\* it is kept, and main_loop_count changes.
LoopEnd(w) ==
    /\ wpc[w] = "dispatch"
    /\ Goto(w, "check")
    /\ ref' = ref \ {w}
    /\ behind' = behind \ {w}
    /\ UNCHANGED << sharedVars, mpc, phase, recursion_level, need_update,
                    refork_needed, processing_rpc, graph, entry, clone,
                    syncs, tmp >>

\* vlib_workers_sync: !(*wait_at_barrier) && ...
WorkersSync(w) ==
    /\ wpc[w] = "dispatch"
    /\ syncs[w] < MaxSyncs
    /\ syncs' = [syncs EXCEPT ![w] = @ + 1]
    /\ Goto(w, IF wait_at_barrier THEN "syncwait" ELSE "syncswap")
    /\ UNCHANGED << sharedVars, mainVars, clone, tmp, ref >>

\* ... !clib_atomic_swap_rel_n (&wait_before_barrier, 1)
SyncSwap(w) ==
    /\ wpc[w] = "syncswap"
    /\ wait_before_barrier' = TRUE
    /\ Goto(w, IF wait_before_barrier THEN "syncwait" ELSE "syncrpc")
    /\ UNCHANGED << wait_at_barrier, workers_at_barrier,
                    node_reforks_required, workers_before_barrier,
                    done_work_before_barrier, pending_rpc, mainVars, clone,
                    syncs, tmp, ref >>

\* vlib_rpc_call_main_thread and vlib_worker_flush_pending_rpc_requests
SyncRpc(w) ==
    /\ wpc[w] = "syncrpc"
    /\ pending_rpc' = pending_rpc + 1
    /\ Goto(w, "syncwait")
    /\ UNCHANGED << wait_at_barrier, workers_at_barrier,
                    node_reforks_required, wait_before_barrier,
                    workers_before_barrier, done_work_before_barrier,
                    mainVars, clone, syncs, tmp, ref >>

\* while (!(*wait_at_barrier))
SyncWait(w) ==
    /\ wpc[w] = "syncwait"
    /\ wait_at_barrier
    /\ Move(w, "syncarrive")

SyncArrive(w) ==
    /\ wpc[w] = "syncarrive"
    /\ workers_before_barrier' = workers_before_barrier + 1
    /\ Goto(w, "syncspin")
    /\ UNCHANGED << wait_at_barrier, workers_at_barrier,
                    node_reforks_required, wait_before_barrier,
                    done_work_before_barrier, pending_rpc, mainVars, clone,
                    syncs, tmp, ref >>

\* The two words of the sum are read one after the other, in either order.
Read(w, value, pc) ==
    /\ tmp' = [tmp EXCEPT ![w] = value]
    /\ Goto(w, pc)
    /\ UNCHANGED << sharedVars, mainVars, clone, syncs, ref >>

SyncRead(w) ==
    /\ wpc[w] = "syncspin"
    /\ \/ Read(w, workers_at_barrier, "syncspin_before")
       \/ Read(w, workers_before_barrier, "syncspin_at")

\* Fault: vlib_workers_sync does not wait for the last worker.
SyncTestShort(w) ==
    /\ wpc[w] \in {"syncspin_before", "syncspin_at"}
    /\ LET other == IF wpc[w] = "syncspin_before" THEN workers_before_barrier
                                                  ELSE workers_at_barrier
       IN  Read(w, 0, IF N - 1 > tmp[w] + other THEN "syncspin" ELSE "excl")

\* while (vlib_num_workers () > (*workers_at_barrier + workers_before_barrier))
SyncTest(w) ==
    /\ wpc[w] \in {"syncspin_before", "syncspin_at"}
    /\ LET other == IF wpc[w] = "syncspin_before" THEN workers_before_barrier
                                                  ELSE workers_at_barrier
       IN  Read(w, 0, IF N > tmp[w] + other THEN "syncspin" ELSE "excl")

\* vlib_workers_continue: atomic add to done_work_before_barrier
Continue(w) ==
    /\ wpc[w] = "excl"
    /\ done_work_before_barrier' = done_work_before_barrier + 1
    /\ Goto(w, "contspin")
    /\ UNCHANGED << wait_at_barrier, workers_at_barrier,
                    node_reforks_required, wait_before_barrier,
                    workers_before_barrier, pending_rpc, mainVars, clone,
                    syncs, tmp, ref >>

ContinueRead(w) ==
    /\ wpc[w] = "contspin"
    /\ \/ Read(w, done_work_before_barrier, "contspin_before")
       \/ Read(w, workers_before_barrier, "contspin_done")

\* while (done_work_before_barrier < workers_before_barrier)
ContinueTest(w) ==
    /\ wpc[w] \in {"contspin_before", "contspin_done"}
    /\ LET again == IF wpc[w] = "contspin_before"
                       THEN tmp[w] < workers_before_barrier
                       ELSE done_work_before_barrier < tmp[w]
       IN  Read(w, 0, IF again THEN "contspin" ELSE "contdone")

ContinueDone(w) ==
    /\ wpc[w] = "contdone"
    /\ done_work_before_barrier' = done_work_before_barrier - 1
    /\ Goto(w, "contbefore")
    /\ UNCHANGED << wait_at_barrier, workers_at_barrier,
                    node_reforks_required, wait_before_barrier,
                    workers_before_barrier, pending_rpc, mainVars, clone,
                    syncs, tmp, ref >>

\* Fault: vlib_workers_continue leaves workers_before_barrier raised.
ContinueBeforeUncounted(w) ==
    /\ wpc[w] = "contbefore"
    /\ workers_before_barrier' = workers_before_barrier
    /\ Goto(w, "dispatch")
    /\ UNCHANGED << wait_at_barrier, workers_at_barrier,
                    node_reforks_required, wait_before_barrier,
                    done_work_before_barrier, pending_rpc, mainVars, clone,
                    syncs, tmp, ref >>

ContinueBefore(w) ==
    /\ wpc[w] = "contbefore"
    /\ workers_before_barrier' = workers_before_barrier - 1
    /\ Goto(w, "dispatch")
    /\ UNCHANGED << wait_at_barrier, workers_at_barrier,
                    node_reforks_required, wait_before_barrier,
                    done_work_before_barrier, pending_rpc, mainVars, clone,
                    syncs, tmp, ref >>

WorkerNext(w) ==
    \/ InitArrive(w)  \/ InitUnpark(w)   \/ InitLeave(w)
    \/ BarrierCheck(w) \/ Arrive(w)      \/ Unpark(w)      \/ Leave(w)
    \/ ReforkCheck(w) \/ Refork(w)       \/ ReforkDone(w)  \/ ReforkWait(w)
    \/ Lookup(w)      \/ LoopEnd(w)
    \/ WorkersSync(w) \/ SyncSwap(w)     \/ SyncRpc(w)     \/ SyncWait(w)
    \/ SyncArrive(w)  \/ SyncRead(w)     \/ SyncTest(w)
    \/ Continue(w)    \/ ContinueRead(w) \/ ContinueTest(w)
    \/ ContinueDone(w) \/ ContinueBefore(w)

-----------------------------------------------------------------------------

\* os_panic aborts the process: nothing happens any more.
Panicked == mpc = "panic" /\ UNCHANGED vars

Next ==
    \/ MainNext
    \/ \E w \in Workers : WorkerNext(w)
    \/ Panicked

BootSpec   == BootInit   /\ [][Next]_vars
SteadySpec == SteadyInit /\ [][Next]_vars

(***************************************************************************)
(* Every thread has a core of its own and polls.  The outermost release of *)
(* a barrier section is reached because the section is finite.  The API    *)
(* process is signalled from every main loop iteration that finds pending  *)
(* requests (memclnt_queue_callback), so a request is served even when     *)
(* main does other work in between: strong fairness.                       *)
(***************************************************************************)
Fairness ==
    /\ WF_vars(BarrierClosed)
    /\ WF_vars(RunRpc)
    /\ WF_vars(BarrierRelease)
    /\ WF_vars(BarrierOpened)
    /\ WF_vars(ReforksDone)
    /\ WF_vars(InitialSync)
    /\ WF_vars(InitialRelease)
    /\ WF_vars(OneLoopDone)
    /\ SF_vars(HandleRpc)
    /\ \A w \in Workers : WF_vars(WorkerNext(w))

FairBootSpec   == BootSpec   /\ Fairness /\ WF_vars(BarrierSync /\ phase = "boot")
FairSteadySpec == SteadySpec /\ Fairness

-----------------------------------------------------------------------------
(* Properties.                                                             *)

\* vm->parked_at_barrier of worker w (kept by the code in debug images).
parked_at_barrier(w) == wpc[w] \in {"arrive", "parked"}

\* A worker that may be running graph nodes.
Running(w) == wpc[w] \in {"dispatch", "excl"} \cup SyncPcs \cup ContPcs

\* Mutual exclusion.  Inside a barrier section of main (between the return of
\* vlib_worker_thread_barrier_sync and the matching release) every worker
\* spins in vlib_worker_thread_barrier_check: what the ASSERT in
\* __foreach_vlib_main_helper requires of every walk over the workers.
ParkedWhileHeld ==
    mpc = "held" /\ phase = "run" => \A w \in Workers : parked_at_barrier(w)

\* No worker runs nodes from a clone of an older node graph: after a section
\* that called vlib_worker_thread_node_runtime_update, each worker re-clones
\* before it dispatches again.
NoStaleClone ==
    \A w \in Workers : Running(w) => clone[w] = graph

\* A worker re-clones only while main waits in
\* vlib_worker_thread_barrier_release, and no other worker runs nodes with
\* the new graph until every worker has finished its clone.
ReforkIsolated ==
    \A w \in Workers : wpc[w] \in {"refork", "reforkdec"} =>
        /\ mpc \in {"opening", "reforking", "panic"}
        /\ \A v \in Workers : ~Running(v) /\ wpc[v] # "check"

\* Grace period.  An entry is freed, with or without the barrier, only when
\* no worker holds a pointer to it.
NoUseAfterFree == entry = "freed" => ref = {}

\* A worker that stands still until main or another worker lets it go.
Stopped(w) == wpc[w] \in {"parked", "syncspin", "syncspin_at", "syncspin_before",
                          "excl", "contspin", "contspin_before", "contspin_done"}

\* vlib_workers_sync stops the others, however often each worker calls it.
\* While a worker does the work between sync and continue, main has not got
\* the barrier, and each other worker is stopped at the barrier, in
\* vlib_workers_sync, or between the two calls itself.  The one exception is
\* the caller's own second sync in a loop iteration: the workers that
\* vlib_workers_continue is letting go are still counted for a while, so it
\* may find enough of them and return while they go on to the barrier.
SyncExclusive ==
    \A w \in Workers : wpc[w] = "excl" =>
        /\ mpc \in {"closing", "panic"}
        /\ \A v \in Workers \ {w} :
              \/ Stopped(v)
              \/ syncs[w] > 1 /\ (syncs[v] > 0 \/ wpc[v] = "arrive")

\* No lost wake-up.  A worker that waits in vlib_workers_sync for a barrier
\* nobody has asked for yet has a request on its way to main, its own or the
\* one another worker queued or is about to queue.
SyncRequested ==
    \A w \in Workers : wpc[w] = "syncwait" /\ ~wait_at_barrier /\ mpc # "panic" =>
        \/ pending_rpc > 0
        \/ \E v \in Workers : wpc[v] = "syncrpc"

\* Startup ends: main and the workers pass both initial barriers.
StartupCompletes == phase = "boot" ~> phase = "run"

\* A barrier that is being closed is eventually held.
BarrierCloses == mpc = "closing" ~> mpc = "held"

\* A barrier that is released ends with main back at work (the workers have
\* left and re-cloned).
BarrierOpens == mpc = "opening" ~> mpc \in {"loop", "oneloop"}

\* A worker that calls vlib_workers_sync gets to do its work, unless main is
\* caught in vlib_worker_wait_one_loop, and vlib_workers_continue lets it go on.
SyncServed == \A w \in Workers :
    /\ []<>(mpc # "oneloop") => (wpc[w] = "syncwait" ~> wpc[w] = "excl")
    /\ wpc[w] = "excl" ~> wpc[w] = "dispatch"

\* "Wait until each of the workers has been once around the track":
\* vlib_worker_wait_one_loop returns, unless a worker it waits for stands in
\* vlib_workers_sync and waits for the barrier that main will not take there.
\* No other spin of a worker, and no pair of calls, can hold main up.
OneLoopReturns ==
    <>[](mpc = "oneloop") =>
        \E w \in Workers : <>[](w \in behind /\ wpc[w] = "syncwait")

=============================================================================
