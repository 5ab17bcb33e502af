------------------------ MODULE WorkerBarrier_proofs ------------------------
(***************************************************************************)
(* Proofs about WorkerBarrier for every finite set of workers and every    *)
(* value of the bounds.  They are about SteadySpec: the race of the        *)
(* initial barrier makes the mutual exclusion false for BootSpec.          *)
(***************************************************************************)
EXTENDS WorkerBarrier, FiniteSetTheorems, TLAPS

\* The workers of f that are at one of the points in S.
At(f, S) == {w \in Workers : f[w] \in S}

AtPcs     == {"parked", "leave", "initparked", "initleave"}
BeforePcs == {"syncspin", "syncspin_before", "syncspin_at", "excl",
              "contspin", "contspin_before", "contspin_done",
              "contdone", "contbefore"}
DonePcs   == {"contspin", "contspin_before", "contspin_done", "contdone"}
OwingPcs  == {"parked", "leave", "reforkchk", "refork", "reforkdec"}

-----------------------------------------------------------------------------
(* The inductive invariant, part by part.                                  *)

\* Startup is over.
Started ==
    /\ phase = "run"
    /\ mpc # "initial"
    /\ \A w \in Workers : wpc[w] \notin InitPcs

\* Each counter counts the workers between its increment and its decrement.
AtCount     == workers_at_barrier = Cardinality(At(wpc, AtPcs))
BeforeCount == workers_before_barrier = Cardinality(At(wpc, BeforePcs))
DoneCount   == done_work_before_barrier = Cardinality(At(wpc, DonePcs))

Counters == AtCount /\ BeforeCount /\ DoneCount

\* Where the workers can be while main is where it is.
MainPoint ==
    /\ mpc # "panic" => (wait_at_barrier <=> mpc \in {"closing", "held"})
    /\ \A w \in Workers :
        /\ mpc \in {"loop", "oneloop", "reforking"} =>
                wpc[w] \notin {"arrive", "parked", "leave"}
        /\ mpc = "closing" => wpc[w] # "leave"
        /\ mpc = "held"    => wpc[w] = "parked"
        /\ mpc = "opening" => wpc[w] # "arrive"

\* recursion_level is positive exactly inside a barrier section.
Recursion ==
    /\ mpc \in {"loop", "oneloop", "opening", "reforking"} => recursion_level = 0
    /\ mpc = "closing" => recursion_level = 1
    /\ mpc = "held" => recursion_level > 0

\* node_reforks_required counts the workers that still owe a clone to the
\* release in progress, and while one does, none has gone back to its loop.
ReforkCount ==
    /\ mpc = "reforking" => refork_needed
    /\ refork_needed => mpc \in {"opening", "reforking", "panic"}
    /\ need_update => mpc = "held"
    /\ node_reforks_required = IF refork_needed THEN Cardinality(At(wpc, OwingPcs))
                                                ELSE 0
    /\ \A w \in Workers : wpc[w] \in {"refork", "reforkdec"} => refork_needed
    /\ \A w, v \in Workers :
          refork_needed /\ wpc[w] \in OwingPcs
             => wpc[v] \in OwingPcs \cup {"reforkwait"}

\* Who may have an old clone.
CloneInv ==
    \A w \in Workers :
        \/ clone[w] = graph
        \/ mpc = "held" /\ need_update
        \/ refork_needed /\ wpc[w] \in {"parked", "leave", "reforkchk", "refork"}

\* Who may hold a pointer to the entry.
RefInv ==
    /\ \A w \in ref : Running(w)
    /\ entry = "unlinked" => mpc = "oneloop" /\ ref \subseteq behind
    /\ entry = "freed" => ref = {}
    /\ mpc = "oneloop" => entry = "unlinked"

\* The flag wait_before_barrier stands for a request that is on its way.
RpcInv ==
    /\ processing_rpc > 0 => mpc \in {"closing", "held", "panic"}
    /\ wait_before_barrier =>
          \/ pending_rpc > 0
          \/ processing_rpc > 0
          \/ \E v \in Workers : wpc[v] = "syncrpc"
    /\ \A w \in Workers :
          /\ wpc[w] = "syncrpc" => wait_before_barrier
          /\ wpc[w] = "syncwait" /\ ~wait_at_barrier /\ mpc # "panic"
                => wait_before_barrier

IInv ==
    /\ TypeOK
    /\ Started
    /\ Counters
    /\ MainPoint
    /\ Recursion
    /\ ReforkCount
    /\ CloneInv
    /\ RefInv
    /\ RpcInv

-----------------------------------------------------------------------------
(* Counting the workers at a set of points.                                *)

\* The workers at a set of points are finitely many, no more than N.
LEMMA AtFinite ==
  ASSUME NEW f, NEW S
  PROVE  /\ IsFiniteSet(At(f, S))
         /\ Cardinality(At(f, S)) \in Nat
         /\ Cardinality(At(f, S)) = N => At(f, S) = Workers
         /\ Cardinality(At(f, S)) = 0 <=> At(f, S) = {}
<1>1. At(f, S) \subseteq Workers
  BY DEF At
<1>2. IsFiniteSet(At(f, S)) /\ Cardinality(At(f, S)) <= Cardinality(Workers)
      /\ (Cardinality(At(f, S)) = Cardinality(Workers) => At(f, S) = Workers)
  BY <1>1, WorkersAssumption, FS_Subset
<1>3. Cardinality(At(f, S)) \in Nat
  BY <1>2, FS_CardinalityType
<1>4. Cardinality(At(f, S)) = 0 <=> At(f, S) = {}
  BY <1>2, FS_EmptySet
<1>. QED
  BY <1>2, <1>3, <1>4 DEF N

-----------------------------------------------------------------------------
(* The invariant holds initially.                                          *)

\* Startup leaves all counters at zero and every worker at its loop's head.
LEMMA InitIInv == SteadyInit => IInv
<1>. SUFFICES ASSUME SteadyInit PROVE IInv
  OBVIOUS
<1>. USE DEF SteadyInit, QuietInit
<1>1. At(wpc, AtPcs) = {} /\ At(wpc, BeforePcs) = {} /\ At(wpc, DonePcs) = {}
  BY DEF At, AtPcs, BeforePcs, DonePcs
<1>2. Counters
  BY <1>1, FS_EmptySet DEF Counters, AtCount, BeforeCount, DoneCount
<1>3. TypeOK
  <2>1. 0 \in 0 .. MaxRecursion /\ 0 \in 0 .. MaxGraph /\ 0 \in 0 .. MaxSyncs
    BY BoundsAssumption
  <2>. QED
    BY <2>1 DEF TypeOK, MainPcs, WorkerPcs, BarrierPcs
<1>4. Started /\ MainPoint /\ Recursion /\ ReforkCount /\ CloneInv
  BY DEF Started, InitPcs, MainPoint, Recursion, ReforkCount, CloneInv
<1>5. RefInv /\ RpcInv
  BY DEF RefInv, RpcInv
<1>. QED
  BY <1>2, <1>3, <1>4, <1>5 DEF IInv

-----------------------------------------------------------------------------
(* The steps of main preserve the invariant.                               *)

\* Every step of main, the deadlines included.
LEMMA MainIInv ==
  ASSUME IInv, MainNext
  PROVE  IInv'
<1>. USE DEF IInv, TypeOK, Started, MainPoint, Recursion, ReforkCount, CloneInv,
             RefInv, RpcInv, Counters, AtCount, BeforeCount, DoneCount, sharedVars, workerVars, MainPcs
<1>1. CASE BarrierSync
  BY <1>1, BoundsAssumption DEF BarrierSync, BarrierSyncEnter, Running
<1>2. CASE HandleRpc
  BY <1>2, BoundsAssumption DEF HandleRpc, BarrierSyncEnter, Running
<1>4. CASE NestedSync
  BY <1>4, BoundsAssumption DEF NestedSync, Running
<1>5. CASE NestedRelease
  BY <1>5, BoundsAssumption DEF NestedRelease, Running
<1>6. CASE ChangeGraph
  BY <1>6, BoundsAssumption DEF ChangeGraph, Running
<1>7. CASE RunRpc
  <2>1. \A w \in Workers : wpc[w] = "parked"
    BY <1>7 DEF RunRpc
  <2>2. RpcInv'
    BY <1>7, <2>1 DEF RunRpc
  <2>3. TypeOK'
    <3>1. processing_rpc' \in Nat
      BY <1>7 DEF RunRpc
    <3>2. wait_before_barrier' = FALSE
      BY <1>7 DEF RunRpc
    <3>. QED
      BY <1>7, <3>1, <3>2 DEF RunRpc
  <2>4. (Started /\ Counters /\ MainPoint /\ Recursion)'
    BY <1>7 DEF RunRpc
  <2>5. (ReforkCount /\ CloneInv /\ RefInv)'
    BY <1>7 DEF RunRpc, Running
  <2>. QED
    BY <2>2, <2>3, <2>4, <2>5
<1>3. CASE BarrierClosed
  <2>1. At(wpc, AtPcs) = Workers
    BY <1>3, AtFinite DEF BarrierClosed
  <2>2. \A w \in Workers : wpc[w] = "parked"
    BY <1>3, <2>1 DEF BarrierClosed, At, AtPcs, InitPcs
  <2>3. (TypeOK /\ Started /\ Counters)'
    BY <1>3 DEF BarrierClosed
  <2>4. (MainPoint /\ Recursion /\ CloneInv)'
    BY <1>3, <2>2 DEF BarrierClosed
  <2>5. (ReforkCount /\ RefInv /\ RpcInv)'
    BY <1>3, <2>2 DEF BarrierClosed, Running
  <2>. QED
    BY <2>3, <2>4, <2>5
<1>8. CASE BarrierRelease
  <2>1. \A w \in Workers : wpc[w] = "parked"
    BY <1>8 DEF BarrierRelease
  <2>2. At(wpc, OwingPcs) = Workers
    BY <2>1 DEF At, OwingPcs
  <2>3. N \in Nat
    BY WorkersAssumption, FS_CardinalityType DEF N
  <2>8. refork_needed = FALSE /\ node_reforks_required = 0
    BY <1>8 DEF BarrierRelease
  <2>9. /\ node_reforks_required' = IF need_update THEN N ELSE 0
        /\ refork_needed' = need_update
        /\ need_update' = FALSE
        /\ mpc' = "opening"
        /\ wpc' = wpc
    BY <1>8, <2>3, <2>8 DEF BarrierRelease
  <2>10. ReforkCount'
    <3>1. node_reforks_required' =
            IF refork_needed' THEN Cardinality(At(wpc', OwingPcs)) ELSE 0
      BY <2>2, <2>9 DEF N
    <3>. QED
      BY <2>1, <2>9, <3>1 DEF OwingPcs
  <2>4. TypeOK'
    <3>1. /\ node_reforks_required' \in Nat
          /\ recursion_level' \in 0 .. MaxRecursion
      BY <1>8, <2>3, <2>9, BoundsAssumption DEF BarrierRelease
    <3>2. refork_needed' \in BOOLEAN
      BY <2>9
    <3>. QED
      BY <1>8, <2>9, <3>1, <3>2 DEF BarrierRelease
  <2>5. (Started /\ Counters /\ MainPoint /\ Recursion)'
    BY <1>8, <2>1 DEF BarrierRelease
  <2>6. (CloneInv /\ RefInv)'
    BY <1>8, <2>1 DEF BarrierRelease, Running
  <2>7. RpcInv'
    BY <1>8, <2>1 DEF BarrierRelease
  <2>. QED
    BY <2>4, <2>5, <2>6, <2>7, <2>10
<1>9. CASE BarrierOpened
  <2>1. At(wpc, AtPcs) = {}
    BY <1>9, AtFinite DEF BarrierOpened
  <2>2. \A w \in Workers : wpc[w] \notin {"arrive", "parked", "leave"}
    BY <1>9, <2>1 DEF BarrierOpened, At, AtPcs
  <2>. QED
    BY <1>9, <2>2 DEF BarrierOpened, Running
<1>10. CASE ReforksDone
  <2>1. At(wpc, OwingPcs) = {}
    BY <1>10, AtFinite DEF ReforksDone
  <2>2. \A w \in Workers : wpc[w] \notin OwingPcs
    BY <2>1 DEF At
  <2>. QED
    BY <1>10, <2>2 DEF ReforksDone, Running, OwingPcs
<1>11. CASE InitialSync \/ InitialRelease
  BY <1>11 DEF InitialSync, InitialRelease
<1>12. CASE RouteDelBarrier
  <2>1. ref = {}
    BY <1>12 DEF RouteDelBarrier, Running, SyncPcs, ContPcs
  <2>. QED
    BY <1>12, <2>1 DEF RouteDelBarrier, Running
<1>13. CASE RouteDelFree
  BY <1>13 DEF RouteDelFree, Running
<1>14. CASE OneLoopDone
  BY <1>14 DEF OneLoopDone, Running
<1>15. CASE RouteAdd
  BY <1>15 DEF RouteAdd, Running
<1>16. CASE Deadline
  BY <1>16 DEF Deadline, Running
<1>. QED
  BY <1>1, <1>2, <1>3, <1>4, <1>5, <1>6, <1>7, <1>8, <1>9, <1>10, <1>11, <1>12,
     <1>13, <1>14, <1>15, <1>16 DEF MainNext

-----------------------------------------------------------------------------
(* The steps of the workers preserve the invariant.                        *)

\* How the number of workers at a point of S changes when w moves to pc.
LEMMA GotoCount ==
  ASSUME TypeOK, NEW w \in Workers, NEW pc, Goto(w, pc), NEW S
  PROVE  /\ (wpc[w] \in S <=> pc \in S) =>
                Cardinality(At(wpc', S)) = Cardinality(At(wpc, S))
         /\ wpc[w] \notin S /\ pc \in S =>
                Cardinality(At(wpc', S)) = Cardinality(At(wpc, S)) + 1
         /\ wpc[w] \in S /\ pc \notin S =>
                /\ Cardinality(At(wpc', S)) = Cardinality(At(wpc, S)) - 1
                /\ Cardinality(At(wpc, S)) > 0
<1>0. wpc \in [Workers -> WorkerPcs] /\ wpc' = [wpc EXCEPT ![w] = pc]
  BY DEF TypeOK, Goto
<1>1. CASE wpc[w] \in S <=> pc \in S
  <2>1. At(wpc', S) = At(wpc, S)
    BY <1>0, <1>1 DEF At
  <2>. QED  BY <1>1, <2>1
<1>2. CASE wpc[w] \notin S /\ pc \in S
  <2>1. At(wpc', S) = At(wpc, S) \cup {w} /\ w \notin At(wpc, S)
    BY <1>0, <1>2 DEF At
  <2>. QED  BY <1>2, <2>1, AtFinite, FS_AddElement
<1>3. CASE wpc[w] \in S /\ pc \notin S
  <2>1. At(wpc', S) = At(wpc, S) \ {w} /\ w \in At(wpc, S)
    BY <1>0, <1>3 DEF At
  <2>2. Cardinality(At(wpc', S)) = Cardinality(At(wpc, S)) - 1
    BY <2>1, AtFinite, FS_RemoveElement
  <2>3. Cardinality(At(wpc, S)) # 0
    BY <2>1, AtFinite
  <2>. QED  BY <1>3, <2>2, <2>3, AtFinite
<1>. QED
  BY <1>1, <1>2, <1>3

\* The points of a worker that runs graph nodes.
RunPcs == {"dispatch", "excl"} \cup SyncPcs \cup ContPcs

\* A worker that goes on running nodes disturbs only the counters and the
\* requests of vlib_workers_sync.
LEMMA RunningStep ==
  ASSUME IInv, NEW w \in Workers, NEW pc \in RunPcs, wpc[w] \in RunPcs,
         Goto(w, pc),
         UNCHANGED << mainVars, wait_at_barrier, workers_at_barrier,
                      node_reforks_required, clone, ref >>
  PROVE  (Started /\ AtCount /\ MainPoint /\ Recursion /\ ReforkCount
            /\ CloneInv /\ RefInv)'
<1>1. wpc \in [Workers -> WorkerPcs] /\ wpc' = [wpc EXCEPT ![w] = pc]
  BY DEF IInv, TypeOK, Goto
<1>2. /\ RunPcs \cap AtPcs = {}
      /\ RunPcs \cap OwingPcs = {}
      /\ RunPcs \cap InitPcs = {}
      /\ \A q \in RunPcs : q \notin {"arrive", "parked", "leave", "reforkchk",
                                     "refork", "reforkdec", "reforkwait"}
  BY DEF RunPcs, SyncPcs, ContPcs, AtPcs, OwingPcs, InitPcs
<1>3. /\ Cardinality(At(wpc', AtPcs)) = Cardinality(At(wpc, AtPcs))
      /\ Cardinality(At(wpc', OwingPcs)) = Cardinality(At(wpc, OwingPcs))
  BY <1>2, GotoCount DEF IInv
<1>4. AtCount'
  BY <1>3 DEF IInv, Counters, AtCount
<1>5. (Started /\ MainPoint /\ Recursion)'
  BY <1>1, <1>2 DEF IInv, Started, MainPoint, Recursion, mainVars
<1>6. ReforkCount'
  BY <1>1, <1>2, <1>3 DEF IInv, ReforkCount, mainVars
<1>7. CloneInv'
  BY <1>1, <1>2 DEF IInv, CloneInv, mainVars
<1>8. RefInv'
  BY <1>1 DEF IInv, RefInv, mainVars, Running, RunPcs
<1>. QED
  BY <1>4, <1>5, <1>6, <1>7, <1>8

\* The steps of vlib_workers_sync and vlib_workers_continue.
LEMMA SyncIInv ==
  ASSUME IInv, mpc # "panic", NEW w \in Workers,
         \/ WorkersSync(w) \/ SyncSwap(w) \/ SyncRpc(w) \/ SyncWait(w)
         \/ SyncArrive(w) \/ SyncRead(w) \/ SyncTest(w)
         \/ Continue(w) \/ ContinueRead(w) \/ ContinueTest(w)
         \/ ContinueDone(w) \/ ContinueBefore(w)
  PROVE  IInv'
<1>. DEFINE Rest == (Started /\ AtCount /\ MainPoint /\ Recursion /\ ReforkCount
                       /\ CloneInv /\ RefInv)
<1>0. TypeOK /\ Counters /\ RpcInv /\ MainPoint
  BY DEF IInv
<1>a. ASSUME TypeOK', (BeforeCount /\ DoneCount)', RpcInv', Rest'
      PROVE  IInv'
  BY <1>a DEF IInv, Counters
<1>. HIDE DEF Rest
<1>b. ASSUME NEW pc \in RunPcs, wpc[w] \in RunPcs, Goto(w, pc),
             UNCHANGED << mainVars, wait_at_barrier, workers_at_barrier,
                          node_reforks_required, clone, ref >>
      PROVE  Rest' /\ wpc' = [wpc EXCEPT ![w] = pc] /\ pc \in WorkerPcs
  BY <1>b, RunningStep DEF Rest, Goto, RunPcs, WorkerPcs
<1>1. CASE WorkersSync(w)
  <2>1. PICK pc \in {"syncwait", "syncswap"} : WorkersSync(w) /\ Goto(w, pc)
    BY <1>1 DEF WorkersSync
  <2>2. /\ wpc[w] \in RunPcs /\ pc \in RunPcs
        /\ (wpc[w] \in BeforePcs <=> pc \in BeforePcs)
        /\ (wpc[w] \in DonePcs <=> pc \in DonePcs)
    BY <2>1 DEF WorkersSync, RunPcs, SyncPcs, ContPcs, BeforePcs, DonePcs
  <2>3. Rest' /\ wpc' = [wpc EXCEPT ![w] = pc] /\ pc \in WorkerPcs
    BY <1>b, <2>1, <2>2 DEF WorkersSync, sharedVars
  <2>4. /\ Cardinality(At(wpc', BeforePcs)) = Cardinality(At(wpc, BeforePcs))
        /\ Cardinality(At(wpc', DonePcs)) = Cardinality(At(wpc, DonePcs))
    BY <1>0, <2>1, <2>2, GotoCount
  <2>5. (BeforeCount /\ DoneCount)'
    BY <1>0, <2>1, <2>4 DEF WorkersSync, Counters, BeforeCount, DoneCount, sharedVars
  <2>6. TypeOK'
    <3>1. syncs[w] + 1 \in 0 .. MaxSyncs
      BY <1>0, <2>1, BoundsAssumption DEF WorkersSync, TypeOK
    <3>2. syncs' \in [Workers -> 0 .. MaxSyncs]
      BY <1>0, <2>1, <3>1 DEF WorkersSync, TypeOK
    <3>. QED
      BY <1>0, <2>1, <2>3, <3>2 DEF WorkersSync, TypeOK, sharedVars, mainVars
  <2>7. RpcInv'
    <3>1. wpc[w] = "dispatch" /\ (pc = "syncwait" => wait_at_barrier)
      BY <1>0, <2>1 DEF WorkersSync, Goto, TypeOK
    <3>2. \A v \in Workers : wpc'[v] = IF v = w THEN pc ELSE wpc[v]
      BY <1>0, <2>3 DEF TypeOK
    <3>3. wait_before_barrier /\ pending_rpc = 0 /\ processing_rpc = 0
             => \E v \in Workers : wpc'[v] = "syncrpc"
      BY <1>0, <3>1, <3>2 DEF RpcInv, TypeOK
    <3>4. \A v \in Workers :
              /\ wpc'[v] = "syncrpc" => wait_before_barrier
              /\ wpc'[v] = "syncwait" /\ ~wait_at_barrier => wait_before_barrier
      BY <1>0, <2>1, <3>1, <3>2 DEF RpcInv
    <3>. QED
      BY <1>0, <2>1, <3>3, <3>4 DEF WorkersSync, RpcInv, TypeOK, sharedVars, mainVars
  <2>. QED
    BY <1>a, <2>3, <2>5, <2>6, <2>7
<1>2. CASE SyncSwap(w)
  <2>1. PICK pc \in {"syncwait", "syncrpc"} : SyncSwap(w) /\ Goto(w, pc)
    BY <1>2 DEF SyncSwap
  <2>2. /\ wpc[w] \in RunPcs /\ pc \in RunPcs
        /\ (wpc[w] \in BeforePcs <=> pc \in BeforePcs)
        /\ (wpc[w] \in DonePcs <=> pc \in DonePcs)
    BY <2>1 DEF SyncSwap, RunPcs, SyncPcs, ContPcs, BeforePcs, DonePcs
  <2>3. Rest' /\ wpc' = [wpc EXCEPT ![w] = pc] /\ pc \in WorkerPcs
    BY <1>b, <2>1, <2>2 DEF SyncSwap, sharedVars
  <2>4. /\ Cardinality(At(wpc', BeforePcs)) = Cardinality(At(wpc, BeforePcs))
        /\ Cardinality(At(wpc', DonePcs)) = Cardinality(At(wpc, DonePcs))
    BY <1>0, <2>1, <2>2, GotoCount
  <2>5. (BeforeCount /\ DoneCount)'
    BY <1>0, <2>1, <2>4 DEF SyncSwap, Counters, BeforeCount, DoneCount, sharedVars
  <2>6. TypeOK'
    BY <1>0, <2>1, <2>3, <2>4 DEF SyncSwap, TypeOK, Counters, BeforeCount, DoneCount, sharedVars, mainVars
  <2>7. RpcInv'
    <3>1. wpc[w] = "syncswap" /\ (~wait_before_barrier => pc = "syncrpc")
      BY <1>0, <2>1 DEF SyncSwap, Goto, TypeOK
    <3>2. \A v \in Workers : wpc'[v] = IF v = w THEN pc ELSE wpc[v]
      BY <1>0, <2>3 DEF TypeOK
    <3>3. pending_rpc = 0 /\ processing_rpc = 0
             => \E v \in Workers : wpc'[v] = "syncrpc"
      BY <1>0, <3>1, <3>2 DEF RpcInv, TypeOK
    <3>. QED
      BY <1>0, <2>1, <3>3 DEF SyncSwap, RpcInv, TypeOK, mainVars
  <2>. QED
    BY <1>a, <2>3, <2>5, <2>6, <2>7
<1>3. CASE SyncRpc(w)
  <2>1. PICK pc \in {"syncwait"} : SyncRpc(w) /\ Goto(w, pc)
    BY <1>3 DEF SyncRpc
  <2>2. /\ wpc[w] \in RunPcs /\ pc \in RunPcs
        /\ (wpc[w] \in BeforePcs <=> pc \in BeforePcs)
        /\ (wpc[w] \in DonePcs <=> pc \in DonePcs)
    BY <2>1 DEF SyncRpc, RunPcs, SyncPcs, ContPcs, BeforePcs, DonePcs
  <2>3. Rest' /\ wpc' = [wpc EXCEPT ![w] = pc] /\ pc \in WorkerPcs
    BY <1>b, <2>1, <2>2 DEF SyncRpc, sharedVars
  <2>4. /\ Cardinality(At(wpc', BeforePcs)) = Cardinality(At(wpc, BeforePcs))
        /\ Cardinality(At(wpc', DonePcs)) = Cardinality(At(wpc, DonePcs))
    BY <1>0, <2>1, <2>2, GotoCount
  <2>5. (BeforeCount /\ DoneCount)'
    BY <1>0, <2>1, <2>4 DEF SyncRpc, Counters, BeforeCount, DoneCount, sharedVars
  <2>6. TypeOK'
    BY <1>0, <2>1, <2>3, <2>4 DEF SyncRpc, TypeOK, Counters, BeforeCount, DoneCount, sharedVars, mainVars
  <2>7. RpcInv'
    BY <1>0, <2>1, <2>3 DEF SyncRpc, TypeOK, RpcInv, MainPoint, sharedVars, mainVars
  <2>. QED
    BY <1>a, <2>3, <2>5, <2>6, <2>7
<1>4. CASE SyncWait(w)
  <2>1. PICK pc \in {"syncarrive"} : SyncWait(w) /\ Goto(w, pc)
    BY <1>4 DEF SyncWait, Move
  <2>2. /\ wpc[w] \in RunPcs /\ pc \in RunPcs
        /\ (wpc[w] \in BeforePcs <=> pc \in BeforePcs)
        /\ (wpc[w] \in DonePcs <=> pc \in DonePcs)
    BY <2>1 DEF SyncWait, RunPcs, SyncPcs, ContPcs, BeforePcs, DonePcs
  <2>3. Rest' /\ wpc' = [wpc EXCEPT ![w] = pc] /\ pc \in WorkerPcs
    BY <1>b, <2>1, <2>2 DEF SyncWait, Move, sharedVars
  <2>4. /\ Cardinality(At(wpc', BeforePcs)) = Cardinality(At(wpc, BeforePcs))
        /\ Cardinality(At(wpc', DonePcs)) = Cardinality(At(wpc, DonePcs))
    BY <1>0, <2>1, <2>2, GotoCount
  <2>5. (BeforeCount /\ DoneCount)'
    BY <1>0, <2>1, <2>4 DEF SyncWait, Move, Counters, BeforeCount, DoneCount, sharedVars
  <2>6. TypeOK'
    BY <1>0, <2>1, <2>3, <2>4 DEF SyncWait, Move, TypeOK, Counters, BeforeCount, DoneCount, sharedVars, mainVars
  <2>7. RpcInv'
    BY <1>0, <2>1, <2>3 DEF SyncWait, Move, TypeOK, RpcInv, MainPoint, sharedVars, mainVars
  <2>. QED
    BY <1>a, <2>3, <2>5, <2>6, <2>7
<1>5. CASE SyncArrive(w)
  <2>1. PICK pc \in {"syncspin"} : SyncArrive(w) /\ Goto(w, pc)
    BY <1>5 DEF SyncArrive
  <2>2. /\ wpc[w] \in RunPcs /\ pc \in RunPcs
        /\ wpc[w] \notin BeforePcs /\ pc \in BeforePcs
        /\ (wpc[w] \in DonePcs <=> pc \in DonePcs)
    BY <2>1 DEF SyncArrive, RunPcs, SyncPcs, ContPcs, BeforePcs, DonePcs
  <2>3. Rest' /\ wpc' = [wpc EXCEPT ![w] = pc] /\ pc \in WorkerPcs
    BY <1>b, <2>1, <2>2 DEF SyncArrive, sharedVars
  <2>4. /\ Cardinality(At(wpc', BeforePcs)) = Cardinality(At(wpc, BeforePcs)) + 1
        /\ Cardinality(At(wpc', DonePcs)) = Cardinality(At(wpc, DonePcs))
    BY <1>0, <2>1, <2>2, GotoCount
  <2>5. (BeforeCount /\ DoneCount)'
    BY <1>0, <2>1, <2>4 DEF SyncArrive, Counters, BeforeCount, DoneCount, sharedVars
  <2>6. TypeOK'
    BY <1>0, <2>1, <2>3, <2>4 DEF SyncArrive, TypeOK, Counters, BeforeCount, DoneCount, sharedVars, mainVars
  <2>7. RpcInv'
    BY <1>0, <2>1, <2>3 DEF SyncArrive, TypeOK, RpcInv, MainPoint, sharedVars, mainVars
  <2>. QED
    BY <1>a, <2>3, <2>5, <2>6, <2>7
<1>6. CASE SyncRead(w)
  <2>1. PICK pc \in {"syncspin_before", "syncspin_at"} : SyncRead(w) /\ Goto(w, pc)
    BY <1>6 DEF SyncRead, Read
  <2>2. /\ wpc[w] \in RunPcs /\ pc \in RunPcs
        /\ (wpc[w] \in BeforePcs <=> pc \in BeforePcs)
        /\ (wpc[w] \in DonePcs <=> pc \in DonePcs)
    BY <2>1 DEF SyncRead, RunPcs, SyncPcs, ContPcs, BeforePcs, DonePcs
  <2>3. Rest' /\ wpc' = [wpc EXCEPT ![w] = pc] /\ pc \in WorkerPcs
    BY <1>b, <2>1, <2>2 DEF SyncRead, Read, sharedVars
  <2>4. /\ Cardinality(At(wpc', BeforePcs)) = Cardinality(At(wpc, BeforePcs))
        /\ Cardinality(At(wpc', DonePcs)) = Cardinality(At(wpc, DonePcs))
    BY <1>0, <2>1, <2>2, GotoCount
  <2>5. (BeforeCount /\ DoneCount)'
    BY <1>0, <2>1, <2>4 DEF SyncRead, Read, Counters, BeforeCount, DoneCount, sharedVars
  <2>6. TypeOK'
    BY <1>0, <2>1, <2>3, <2>4 DEF SyncRead, Read, TypeOK, Counters, BeforeCount, DoneCount, sharedVars, mainVars
  <2>7. RpcInv'
    BY <1>0, <2>1, <2>3 DEF SyncRead, Read, TypeOK, RpcInv, MainPoint, sharedVars, mainVars
  <2>. QED
    BY <1>a, <2>3, <2>5, <2>6, <2>7
<1>7. CASE SyncTest(w)
  <2>1. PICK pc \in {"syncspin", "excl"} : SyncTest(w) /\ Goto(w, pc)
    BY <1>7 DEF SyncTest, Read
  <2>2. /\ wpc[w] \in RunPcs /\ pc \in RunPcs
        /\ (wpc[w] \in BeforePcs <=> pc \in BeforePcs)
        /\ (wpc[w] \in DonePcs <=> pc \in DonePcs)
    BY <2>1 DEF SyncTest, RunPcs, SyncPcs, ContPcs, BeforePcs, DonePcs
  <2>3. Rest' /\ wpc' = [wpc EXCEPT ![w] = pc] /\ pc \in WorkerPcs
    BY <1>b, <2>1, <2>2 DEF SyncTest, Read, sharedVars
  <2>4. /\ Cardinality(At(wpc', BeforePcs)) = Cardinality(At(wpc, BeforePcs))
        /\ Cardinality(At(wpc', DonePcs)) = Cardinality(At(wpc, DonePcs))
    BY <1>0, <2>1, <2>2, GotoCount
  <2>5. (BeforeCount /\ DoneCount)'
    BY <1>0, <2>1, <2>4 DEF SyncTest, Read, Counters, BeforeCount, DoneCount, sharedVars
  <2>6. TypeOK'
    BY <1>0, <2>1, <2>3, <2>4 DEF SyncTest, Read, TypeOK, Counters, BeforeCount, DoneCount, sharedVars, mainVars
  <2>7. RpcInv'
    BY <1>0, <2>1, <2>3 DEF SyncTest, Read, TypeOK, RpcInv, MainPoint, sharedVars, mainVars
  <2>. QED
    BY <1>a, <2>3, <2>5, <2>6, <2>7
<1>8. CASE Continue(w)
  <2>1. PICK pc \in {"contspin"} : Continue(w) /\ Goto(w, pc)
    BY <1>8 DEF Continue
  <2>2. /\ wpc[w] \in RunPcs /\ pc \in RunPcs
        /\ (wpc[w] \in BeforePcs <=> pc \in BeforePcs)
        /\ wpc[w] \notin DonePcs /\ pc \in DonePcs
    BY <2>1 DEF Continue, RunPcs, SyncPcs, ContPcs, BeforePcs, DonePcs
  <2>3. Rest' /\ wpc' = [wpc EXCEPT ![w] = pc] /\ pc \in WorkerPcs
    BY <1>b, <2>1, <2>2 DEF Continue, sharedVars
  <2>4. /\ Cardinality(At(wpc', BeforePcs)) = Cardinality(At(wpc, BeforePcs))
        /\ Cardinality(At(wpc', DonePcs)) = Cardinality(At(wpc, DonePcs)) + 1
    BY <1>0, <2>1, <2>2, GotoCount
  <2>5. (BeforeCount /\ DoneCount)'
    BY <1>0, <2>1, <2>4 DEF Continue, Counters, BeforeCount, DoneCount, sharedVars
  <2>6. TypeOK'
    BY <1>0, <2>1, <2>3, <2>4 DEF Continue, TypeOK, Counters, BeforeCount, DoneCount, sharedVars, mainVars
  <2>7. RpcInv'
    BY <1>0, <2>1, <2>3 DEF Continue, TypeOK, RpcInv, MainPoint, sharedVars, mainVars
  <2>. QED
    BY <1>a, <2>3, <2>5, <2>6, <2>7
<1>9. CASE ContinueRead(w)
  <2>1. PICK pc \in {"contspin_before", "contspin_done"} : ContinueRead(w) /\ Goto(w, pc)
    BY <1>9 DEF ContinueRead, Read
  <2>2. /\ wpc[w] \in RunPcs /\ pc \in RunPcs
        /\ (wpc[w] \in BeforePcs <=> pc \in BeforePcs)
        /\ (wpc[w] \in DonePcs <=> pc \in DonePcs)
    BY <2>1 DEF ContinueRead, RunPcs, SyncPcs, ContPcs, BeforePcs, DonePcs
  <2>3. Rest' /\ wpc' = [wpc EXCEPT ![w] = pc] /\ pc \in WorkerPcs
    BY <1>b, <2>1, <2>2 DEF ContinueRead, Read, sharedVars
  <2>4. /\ Cardinality(At(wpc', BeforePcs)) = Cardinality(At(wpc, BeforePcs))
        /\ Cardinality(At(wpc', DonePcs)) = Cardinality(At(wpc, DonePcs))
    BY <1>0, <2>1, <2>2, GotoCount
  <2>5. (BeforeCount /\ DoneCount)'
    BY <1>0, <2>1, <2>4 DEF ContinueRead, Read, Counters, BeforeCount, DoneCount, sharedVars
  <2>6. TypeOK'
    BY <1>0, <2>1, <2>3, <2>4 DEF ContinueRead, Read, TypeOK, Counters, BeforeCount, DoneCount, sharedVars, mainVars
  <2>7. RpcInv'
    BY <1>0, <2>1, <2>3 DEF ContinueRead, Read, TypeOK, RpcInv, MainPoint, sharedVars, mainVars
  <2>. QED
    BY <1>a, <2>3, <2>5, <2>6, <2>7
<1>10. CASE ContinueTest(w)
  <2>1. PICK pc \in {"contspin", "contdone"} : ContinueTest(w) /\ Goto(w, pc)
    BY <1>10 DEF ContinueTest, Read
  <2>2. /\ wpc[w] \in RunPcs /\ pc \in RunPcs
        /\ (wpc[w] \in BeforePcs <=> pc \in BeforePcs)
        /\ (wpc[w] \in DonePcs <=> pc \in DonePcs)
    BY <2>1 DEF ContinueTest, RunPcs, SyncPcs, ContPcs, BeforePcs, DonePcs
  <2>3. Rest' /\ wpc' = [wpc EXCEPT ![w] = pc] /\ pc \in WorkerPcs
    BY <1>b, <2>1, <2>2 DEF ContinueTest, Read, sharedVars
  <2>4. /\ Cardinality(At(wpc', BeforePcs)) = Cardinality(At(wpc, BeforePcs))
        /\ Cardinality(At(wpc', DonePcs)) = Cardinality(At(wpc, DonePcs))
    BY <1>0, <2>1, <2>2, GotoCount
  <2>5. (BeforeCount /\ DoneCount)'
    BY <1>0, <2>1, <2>4 DEF ContinueTest, Read, Counters, BeforeCount, DoneCount, sharedVars
  <2>6. TypeOK'
    BY <1>0, <2>1, <2>3, <2>4 DEF ContinueTest, Read, TypeOK, Counters, BeforeCount, DoneCount, sharedVars, mainVars
  <2>7. RpcInv'
    BY <1>0, <2>1, <2>3 DEF ContinueTest, Read, TypeOK, RpcInv, MainPoint, sharedVars, mainVars
  <2>. QED
    BY <1>a, <2>3, <2>5, <2>6, <2>7
<1>11. CASE ContinueDone(w)
  <2>1. PICK pc \in {"contbefore"} : ContinueDone(w) /\ Goto(w, pc)
    BY <1>11 DEF ContinueDone
  <2>2. /\ wpc[w] \in RunPcs /\ pc \in RunPcs
        /\ (wpc[w] \in BeforePcs <=> pc \in BeforePcs)
        /\ wpc[w] \in DonePcs /\ pc \notin DonePcs
    BY <2>1 DEF ContinueDone, RunPcs, SyncPcs, ContPcs, BeforePcs, DonePcs
  <2>3. Rest' /\ wpc' = [wpc EXCEPT ![w] = pc] /\ pc \in WorkerPcs
    BY <1>b, <2>1, <2>2 DEF ContinueDone, sharedVars
  <2>4. /\ Cardinality(At(wpc', BeforePcs)) = Cardinality(At(wpc, BeforePcs))
        /\ Cardinality(At(wpc', DonePcs)) = Cardinality(At(wpc, DonePcs)) - 1
        /\ Cardinality(At(wpc, DonePcs)) > 0
    BY <1>0, <2>1, <2>2, GotoCount
  <2>5. (BeforeCount /\ DoneCount)'
    BY <1>0, <2>1, <2>4 DEF ContinueDone, Counters, BeforeCount, DoneCount, sharedVars
  <2>6. TypeOK'
    BY <1>0, <2>1, <2>3, <2>4 DEF ContinueDone, TypeOK, Counters, BeforeCount, DoneCount, sharedVars, mainVars
  <2>7. RpcInv'
    BY <1>0, <2>1, <2>3 DEF ContinueDone, TypeOK, RpcInv, MainPoint, sharedVars, mainVars
  <2>. QED
    BY <1>a, <2>3, <2>5, <2>6, <2>7
<1>12. CASE ContinueBefore(w)
  <2>1. PICK pc \in {"dispatch"} : ContinueBefore(w) /\ Goto(w, pc)
    BY <1>12 DEF ContinueBefore
  <2>2. /\ wpc[w] \in RunPcs /\ pc \in RunPcs
        /\ wpc[w] \in BeforePcs /\ pc \notin BeforePcs
        /\ (wpc[w] \in DonePcs <=> pc \in DonePcs)
    BY <2>1 DEF ContinueBefore, RunPcs, SyncPcs, ContPcs, BeforePcs, DonePcs
  <2>3. Rest' /\ wpc' = [wpc EXCEPT ![w] = pc] /\ pc \in WorkerPcs
    BY <1>b, <2>1, <2>2 DEF ContinueBefore, sharedVars
  <2>4. /\ Cardinality(At(wpc', BeforePcs)) = Cardinality(At(wpc, BeforePcs)) - 1
        /\ Cardinality(At(wpc, BeforePcs)) > 0
        /\ Cardinality(At(wpc', DonePcs)) = Cardinality(At(wpc, DonePcs))
    BY <1>0, <2>1, <2>2, GotoCount
  <2>5. (BeforeCount /\ DoneCount)'
    BY <1>0, <2>1, <2>4 DEF ContinueBefore, Counters, BeforeCount, DoneCount, sharedVars
  <2>6. TypeOK'
    BY <1>0, <2>1, <2>3, <2>4 DEF ContinueBefore, TypeOK, Counters, BeforeCount, DoneCount, sharedVars, mainVars
  <2>7. RpcInv'
    BY <1>0, <2>1, <2>3 DEF ContinueBefore, TypeOK, RpcInv, MainPoint, sharedVars, mainVars
  <2>. QED
    BY <1>a, <2>3, <2>5, <2>6, <2>7
<1>. QED
  BY <1>1, <1>2, <1>3, <1>4, <1>5, <1>6, <1>7, <1>8, <1>9, <1>10, <1>11, <1>12

\* The steps of vlib_worker_thread_barrier_check and of the worker's loop.
LEMMA CheckIInv ==
  ASSUME IInv, mpc # "panic", NEW w \in Workers,
         \/ BarrierCheck(w) \/ Arrive(w) \/ Unpark(w) \/ Leave(w)
         \/ ReforkCheck(w) \/ Refork(w) \/ ReforkDone(w) \/ ReforkWait(w)
         \/ LoopEnd(w)
  PROVE  IInv'
<1>0. /\ TypeOK /\ Started /\ Counters /\ MainPoint /\ Recursion /\ ReforkCount
      /\ CloneInv /\ RefInv /\ RpcInv
  BY DEF IInv
<1>a. ASSUME NEW pc, Goto(w, pc)
      PROVE  \A v \in Workers : wpc'[v] = IF v = w THEN pc ELSE wpc[v]
  BY <1>0, <1>a DEF Goto, TypeOK
<1>b. ASSUME refork_needed, wpc[w] \in OwingPcs
      PROVE  node_reforks_required > 0
  <2>1. At(wpc, OwingPcs) # {}
    BY <1>b DEF At
  <2>2. Cardinality(At(wpc, OwingPcs)) \in Nat \ {0}
    BY <2>1, AtFinite
  <2>. QED
    BY <1>0, <1>b, <2>2 DEF ReforkCount
<1>c. ASSUME refork_needed, node_reforks_required = 0
      PROVE  \A v \in Workers : wpc[v] \notin OwingPcs
  <2>1. At(wpc, OwingPcs) = {}
    BY <1>0, <1>c, AtFinite DEF ReforkCount
  <2>. QED
    BY <2>1 DEF At
<1>d. wpc[w] = "arrive" => ~refork_needed
  BY <1>0 DEF MainPoint, ReforkCount, TypeOK, MainPcs, Started
<1>1. CASE BarrierCheck(w)
  <2>1. PICK pc \in {"arrive", "dispatch"} : BarrierCheck(w) /\ Goto(w, pc)
    BY <1>1 DEF BarrierCheck
  <2>2. /\ pc \in WorkerPcs /\ pc \notin InitPcs
        /\ (wpc[w] \in AtPcs <=> pc \in AtPcs)
        /\ (wpc[w] \in BeforePcs <=> pc \in BeforePcs)
        /\ (wpc[w] \in DonePcs <=> pc \in DonePcs)
    BY <2>1 DEF BarrierCheck, AtPcs, BeforePcs, DonePcs, WorkerPcs, BarrierPcs, InitPcs
  <2>3. (wpc[w] \in OwingPcs <=> pc \in OwingPcs)
    BY <2>1 DEF BarrierCheck, OwingPcs, TypeOK, Goto
  <2>4. \A v \in Workers : wpc'[v] = IF v = w THEN pc ELSE wpc[v]
    BY <1>a, <2>1
  <2>5. /\ Cardinality(At(wpc', AtPcs)) = Cardinality(At(wpc, AtPcs))
        /\ Cardinality(At(wpc', BeforePcs)) = Cardinality(At(wpc, BeforePcs))
        /\ Cardinality(At(wpc', DonePcs)) = Cardinality(At(wpc, DonePcs))
    BY <1>0, <2>1, <2>2, GotoCount
  <2>6. Cardinality(At(wpc', OwingPcs)) = Cardinality(At(wpc, OwingPcs))
    BY <1>0, <2>1, <2>3, GotoCount
  <2>7. Counters'
    BY <1>0, <2>1, <2>5 DEF BarrierCheck, Counters, AtCount, BeforeCount, DoneCount, sharedVars
  <2>8. TypeOK'
    <3>1. 0 \in 0 .. MaxSyncs
      BY BoundsAssumption
    <3>. QED
      BY <1>0, <2>1, <2>2, <3>1 DEF BarrierCheck, Goto, TypeOK, sharedVars, mainVars
  <2>9. ReforkCount'
    BY <1>0, <1>b, <1>c, <1>d, <2>1, <2>3, <2>4, <2>6 DEF BarrierCheck, ReforkCount, OwingPcs, sharedVars, mainVars
  <2>14. pc = "arrive" => wait_at_barrier
    BY <1>0, <2>1, <2>4 DEF BarrierCheck, Goto, TypeOK
  <2>10. (Started /\ MainPoint /\ Recursion)'
    BY <1>0, <2>1, <2>2, <2>4, <2>14 DEF BarrierCheck, Started, MainPoint, Recursion, sharedVars, mainVars
  <2>11. CloneInv'
    BY <1>0, <1>b, <2>1, <2>4 DEF BarrierCheck, CloneInv, OwingPcs, ReforkCount, TypeOK, sharedVars, mainVars
  <2>12. RefInv'
    BY <1>0, <2>1, <2>4 DEF BarrierCheck, RefInv, Running, SyncPcs, ContPcs, TypeOK, sharedVars, mainVars
  <2>13. RpcInv'
    BY <1>0, <2>1, <2>4 DEF BarrierCheck, RpcInv, TypeOK, sharedVars, mainVars
  <2>. QED
    BY <2>7, <2>8, <2>9, <2>10, <2>11, <2>12, <2>13 DEF IInv
<1>2. CASE Arrive(w)
  <2>1. PICK pc \in {"parked"} : Arrive(w) /\ Goto(w, pc)
    BY <1>2 DEF Arrive, SetAtBarrier
  <2>2. /\ pc \in WorkerPcs /\ pc \notin InitPcs
        /\ wpc[w] \notin AtPcs /\ pc \in AtPcs
        /\ (wpc[w] \in BeforePcs <=> pc \in BeforePcs)
        /\ (wpc[w] \in DonePcs <=> pc \in DonePcs)
    BY <2>1 DEF Arrive, AtPcs, BeforePcs, DonePcs, WorkerPcs, BarrierPcs, InitPcs
  <2>3. wpc[w] \notin OwingPcs /\ pc \in OwingPcs
    BY <2>1 DEF Arrive, SetAtBarrier, OwingPcs, TypeOK, Goto
  <2>4. \A v \in Workers : wpc'[v] = IF v = w THEN pc ELSE wpc[v]
    BY <1>a, <2>1
  <2>5. /\ Cardinality(At(wpc', AtPcs)) = Cardinality(At(wpc, AtPcs)) + 1
        /\ Cardinality(At(wpc', BeforePcs)) = Cardinality(At(wpc, BeforePcs))
        /\ Cardinality(At(wpc', DonePcs)) = Cardinality(At(wpc, DonePcs))
    BY <1>0, <2>1, <2>2, GotoCount
  <2>6. Cardinality(At(wpc', OwingPcs)) = Cardinality(At(wpc, OwingPcs)) + 1
    BY <1>0, <2>1, <2>3, GotoCount
  <2>7. Counters'
    BY <1>0, <2>1, <2>5 DEF Arrive, SetAtBarrier, Counters, AtCount, BeforeCount, DoneCount, sharedVars
  <2>8. TypeOK'
    BY <1>0, <2>1, <2>2, <2>5, <2>6 DEF Arrive, SetAtBarrier, Goto, TypeOK, Counters, AtCount, ReforkCount, sharedVars, mainVars
  <2>9. ReforkCount'
    BY <1>0, <1>b, <1>c, <1>d, <2>1, <2>3, <2>4, <2>6 DEF Arrive, SetAtBarrier, ReforkCount, OwingPcs, sharedVars, mainVars
  <2>10. (Started /\ MainPoint /\ Recursion)'
    BY <1>0, <2>1, <2>2, <2>4 DEF Arrive, SetAtBarrier, Started, MainPoint, Recursion, sharedVars, mainVars
  <2>11. CloneInv'
    BY <1>0, <1>b, <2>1, <2>4 DEF Arrive, SetAtBarrier, CloneInv, OwingPcs, ReforkCount, TypeOK, sharedVars, mainVars
  <2>12. RefInv'
    BY <1>0, <2>1, <2>4 DEF Arrive, SetAtBarrier, RefInv, Running, SyncPcs, ContPcs, TypeOK, sharedVars, mainVars
  <2>13. RpcInv'
    BY <1>0, <2>1, <2>4 DEF Arrive, SetAtBarrier, RpcInv, TypeOK, sharedVars, mainVars
  <2>. QED
    BY <2>7, <2>8, <2>9, <2>10, <2>11, <2>12, <2>13 DEF IInv
<1>3. CASE Unpark(w)
  <2>1. PICK pc \in {"leave"} : Unpark(w) /\ Goto(w, pc)
    BY <1>3 DEF Unpark, Move
  <2>2. /\ pc \in WorkerPcs /\ pc \notin InitPcs
        /\ (wpc[w] \in AtPcs <=> pc \in AtPcs)
        /\ (wpc[w] \in BeforePcs <=> pc \in BeforePcs)
        /\ (wpc[w] \in DonePcs <=> pc \in DonePcs)
    BY <2>1 DEF Unpark, AtPcs, BeforePcs, DonePcs, WorkerPcs, BarrierPcs, InitPcs
  <2>3. (wpc[w] \in OwingPcs <=> pc \in OwingPcs)
    BY <2>1 DEF Unpark, Move, OwingPcs, TypeOK, Goto
  <2>4. \A v \in Workers : wpc'[v] = IF v = w THEN pc ELSE wpc[v]
    BY <1>a, <2>1
  <2>5. /\ Cardinality(At(wpc', AtPcs)) = Cardinality(At(wpc, AtPcs))
        /\ Cardinality(At(wpc', BeforePcs)) = Cardinality(At(wpc, BeforePcs))
        /\ Cardinality(At(wpc', DonePcs)) = Cardinality(At(wpc, DonePcs))
    BY <1>0, <2>1, <2>2, GotoCount
  <2>6. Cardinality(At(wpc', OwingPcs)) = Cardinality(At(wpc, OwingPcs))
    BY <1>0, <2>1, <2>3, GotoCount
  <2>7. Counters'
    BY <1>0, <2>1, <2>5 DEF Unpark, Move, Counters, AtCount, BeforeCount, DoneCount, sharedVars
  <2>8. TypeOK'
    BY <1>0, <2>1, <2>2, <2>5, <2>6 DEF Unpark, Move, Goto, TypeOK, Counters, AtCount, ReforkCount, sharedVars, mainVars
  <2>9. ReforkCount'
    BY <1>0, <1>b, <1>c, <1>d, <2>1, <2>3, <2>4, <2>6 DEF Unpark, Move, ReforkCount, OwingPcs, sharedVars, mainVars
  <2>10. (Started /\ MainPoint /\ Recursion)'
    BY <1>0, <2>1, <2>2, <2>4 DEF Unpark, Move, Started, MainPoint, Recursion, sharedVars, mainVars
  <2>11. CloneInv'
    BY <1>0, <1>b, <2>1, <2>4 DEF Unpark, Move, CloneInv, OwingPcs, ReforkCount, TypeOK, sharedVars, mainVars
  <2>12. RefInv'
    BY <1>0, <2>1, <2>4 DEF Unpark, Move, RefInv, Running, SyncPcs, ContPcs, TypeOK, sharedVars, mainVars
  <2>13. RpcInv'
    BY <1>0, <2>1, <2>4 DEF Unpark, Move, RpcInv, TypeOK, sharedVars, mainVars
  <2>. QED
    BY <2>7, <2>8, <2>9, <2>10, <2>11, <2>12, <2>13 DEF IInv
<1>4. CASE Leave(w)
  <2>1. PICK pc \in {"reforkchk"} : Leave(w) /\ Goto(w, pc)
    BY <1>4 DEF Leave, SetAtBarrier
  <2>2. /\ pc \in WorkerPcs /\ pc \notin InitPcs
        /\ wpc[w] \in AtPcs /\ pc \notin AtPcs
        /\ (wpc[w] \in BeforePcs <=> pc \in BeforePcs)
        /\ (wpc[w] \in DonePcs <=> pc \in DonePcs)
    BY <2>1 DEF Leave, AtPcs, BeforePcs, DonePcs, WorkerPcs, BarrierPcs, InitPcs
  <2>3. (wpc[w] \in OwingPcs <=> pc \in OwingPcs)
    BY <2>1 DEF Leave, SetAtBarrier, OwingPcs, TypeOK, Goto
  <2>4. \A v \in Workers : wpc'[v] = IF v = w THEN pc ELSE wpc[v]
    BY <1>a, <2>1
  <2>5. /\ Cardinality(At(wpc', AtPcs)) = Cardinality(At(wpc, AtPcs)) - 1
        /\ Cardinality(At(wpc, AtPcs)) > 0
        /\ Cardinality(At(wpc', BeforePcs)) = Cardinality(At(wpc, BeforePcs))
        /\ Cardinality(At(wpc', DonePcs)) = Cardinality(At(wpc, DonePcs))
    BY <1>0, <2>1, <2>2, GotoCount
  <2>6. Cardinality(At(wpc', OwingPcs)) = Cardinality(At(wpc, OwingPcs))
    BY <1>0, <2>1, <2>3, GotoCount
  <2>7. Counters'
    BY <1>0, <2>1, <2>5 DEF Leave, SetAtBarrier, Counters, AtCount, BeforeCount, DoneCount, sharedVars
  <2>8. TypeOK'
    BY <1>0, <2>1, <2>2, <2>5, <2>6 DEF Leave, SetAtBarrier, Goto, TypeOK, Counters, AtCount, ReforkCount, sharedVars, mainVars
  <2>9. ReforkCount'
    BY <1>0, <1>b, <1>c, <1>d, <2>1, <2>3, <2>4, <2>6 DEF Leave, SetAtBarrier, ReforkCount, OwingPcs, sharedVars, mainVars
  <2>10. (Started /\ MainPoint /\ Recursion)'
    BY <1>0, <2>1, <2>2, <2>4 DEF Leave, SetAtBarrier, Started, MainPoint, Recursion, sharedVars, mainVars
  <2>11. CloneInv'
    BY <1>0, <1>b, <2>1, <2>4 DEF Leave, SetAtBarrier, CloneInv, OwingPcs, ReforkCount, TypeOK, sharedVars, mainVars
  <2>12. RefInv'
    BY <1>0, <2>1, <2>4 DEF Leave, SetAtBarrier, RefInv, Running, SyncPcs, ContPcs, TypeOK, sharedVars, mainVars
  <2>13. RpcInv'
    BY <1>0, <2>1, <2>4 DEF Leave, SetAtBarrier, RpcInv, TypeOK, sharedVars, mainVars
  <2>. QED
    BY <2>7, <2>8, <2>9, <2>10, <2>11, <2>12, <2>13 DEF IInv
<1>5. CASE ReforkCheck(w)
  <2>1. PICK pc \in {"refork", "dispatch"} : ReforkCheck(w) /\ Goto(w, pc)
    BY <1>5 DEF ReforkCheck, Move
  <2>2. /\ pc \in WorkerPcs /\ pc \notin InitPcs
        /\ (wpc[w] \in AtPcs <=> pc \in AtPcs)
        /\ (wpc[w] \in BeforePcs <=> pc \in BeforePcs)
        /\ (wpc[w] \in DonePcs <=> pc \in DonePcs)
    BY <2>1 DEF ReforkCheck, AtPcs, BeforePcs, DonePcs, WorkerPcs, BarrierPcs, InitPcs
  <2>3. (refork_needed => (wpc[w] \in OwingPcs <=> pc \in OwingPcs))
    BY <2>1, <1>0, <1>b DEF ReforkCheck, Move, OwingPcs, TypeOK, Goto
  <2>4. \A v \in Workers : wpc'[v] = IF v = w THEN pc ELSE wpc[v]
    BY <1>a, <2>1
  <2>5. /\ Cardinality(At(wpc', AtPcs)) = Cardinality(At(wpc, AtPcs))
        /\ Cardinality(At(wpc', BeforePcs)) = Cardinality(At(wpc, BeforePcs))
        /\ Cardinality(At(wpc', DonePcs)) = Cardinality(At(wpc, DonePcs))
    BY <1>0, <2>1, <2>2, GotoCount
  <2>6. refork_needed => Cardinality(At(wpc', OwingPcs)) = Cardinality(At(wpc, OwingPcs))
    BY <1>0, <2>1, <2>3, GotoCount
  <2>7. Counters'
    BY <1>0, <2>1, <2>5 DEF ReforkCheck, Move, Counters, AtCount, BeforeCount, DoneCount, sharedVars
  <2>8. TypeOK'
    BY <1>0, <2>1, <2>2, <2>5, <2>6 DEF ReforkCheck, Move, Goto, TypeOK, Counters, AtCount, ReforkCount, sharedVars, mainVars
  <2>14. IF node_reforks_required > 0 THEN pc = "refork" ELSE pc = "dispatch" /\ ~refork_needed
    BY <1>0, <1>b, <2>1, <2>4 DEF ReforkCheck, Move, Goto, TypeOK, OwingPcs
  <2>15. node_reforks_required > 0 => refork_needed
    BY <1>0 DEF ReforkCount
  <2>9. ReforkCount'
    BY <1>0, <2>1, <2>3, <2>4, <2>6, <2>14, <2>15 DEF ReforkCheck, Move, ReforkCount, OwingPcs, sharedVars, mainVars
  <2>10. (Started /\ MainPoint /\ Recursion)'
    BY <1>0, <2>1, <2>2, <2>4 DEF ReforkCheck, Move, Started, MainPoint, Recursion, sharedVars, mainVars
  <2>11. CloneInv'
    BY <1>0, <2>1, <2>4, <2>14, <2>15 DEF ReforkCheck, Move, CloneInv, OwingPcs, ReforkCount, TypeOK, sharedVars, mainVars
  <2>12. RefInv'
    BY <1>0, <2>1, <2>4 DEF ReforkCheck, Move, RefInv, Running, SyncPcs, ContPcs, TypeOK, sharedVars, mainVars
  <2>13. RpcInv'
    BY <1>0, <2>1, <2>4 DEF ReforkCheck, Move, RpcInv, TypeOK, sharedVars, mainVars
  <2>. QED
    BY <2>7, <2>8, <2>9, <2>10, <2>11, <2>12, <2>13 DEF IInv
<1>6. CASE Refork(w)
  <2>1. PICK pc \in {"reforkdec"} : Refork(w) /\ Goto(w, pc)
    BY <1>6 DEF Refork
  <2>2. /\ pc \in WorkerPcs /\ pc \notin InitPcs
        /\ (wpc[w] \in AtPcs <=> pc \in AtPcs)
        /\ (wpc[w] \in BeforePcs <=> pc \in BeforePcs)
        /\ (wpc[w] \in DonePcs <=> pc \in DonePcs)
    BY <2>1 DEF Refork, AtPcs, BeforePcs, DonePcs, WorkerPcs, BarrierPcs, InitPcs
  <2>3. (wpc[w] \in OwingPcs <=> pc \in OwingPcs)
    BY <2>1 DEF Refork, OwingPcs, TypeOK, Goto
  <2>4. \A v \in Workers : wpc'[v] = IF v = w THEN pc ELSE wpc[v]
    BY <1>a, <2>1
  <2>5. /\ Cardinality(At(wpc', AtPcs)) = Cardinality(At(wpc, AtPcs))
        /\ Cardinality(At(wpc', BeforePcs)) = Cardinality(At(wpc, BeforePcs))
        /\ Cardinality(At(wpc', DonePcs)) = Cardinality(At(wpc, DonePcs))
    BY <1>0, <2>1, <2>2, GotoCount
  <2>6. Cardinality(At(wpc', OwingPcs)) = Cardinality(At(wpc, OwingPcs))
    BY <1>0, <2>1, <2>3, GotoCount
  <2>7. Counters'
    BY <1>0, <2>1, <2>5 DEF Refork, Counters, AtCount, BeforeCount, DoneCount, sharedVars
  <2>8. TypeOK'
    BY <1>0, <2>1, <2>2, <2>5, <2>6 DEF Refork, Goto, TypeOK, Counters, AtCount, ReforkCount, sharedVars, mainVars
  <2>9. ReforkCount'
    BY <1>0, <1>b, <1>c, <1>d, <2>1, <2>3, <2>4, <2>6 DEF Refork, ReforkCount, OwingPcs, sharedVars, mainVars
  <2>10. (Started /\ MainPoint /\ Recursion)'
    BY <1>0, <2>1, <2>2, <2>4 DEF Refork, Started, MainPoint, Recursion, sharedVars, mainVars
  <2>11. CloneInv'
    BY <1>0, <1>b, <2>1, <2>4 DEF Refork, CloneInv, OwingPcs, ReforkCount, TypeOK, sharedVars, mainVars
  <2>12. RefInv'
    BY <1>0, <2>1, <2>4 DEF Refork, RefInv, Running, SyncPcs, ContPcs, TypeOK, sharedVars, mainVars
  <2>13. RpcInv'
    BY <1>0, <2>1, <2>4 DEF Refork, RpcInv, TypeOK, sharedVars, mainVars
  <2>. QED
    BY <2>7, <2>8, <2>9, <2>10, <2>11, <2>12, <2>13 DEF IInv
<1>7. CASE ReforkDone(w)
  <2>1. PICK pc \in {"reforkwait"} : ReforkDone(w) /\ Goto(w, pc)
    BY <1>7 DEF ReforkDone
  <2>2. /\ pc \in WorkerPcs /\ pc \notin InitPcs
        /\ (wpc[w] \in AtPcs <=> pc \in AtPcs)
        /\ (wpc[w] \in BeforePcs <=> pc \in BeforePcs)
        /\ (wpc[w] \in DonePcs <=> pc \in DonePcs)
    BY <2>1 DEF ReforkDone, AtPcs, BeforePcs, DonePcs, WorkerPcs, BarrierPcs, InitPcs
  <2>3. wpc[w] \in OwingPcs /\ pc \notin OwingPcs
    BY <2>1 DEF ReforkDone, OwingPcs, TypeOK, Goto
  <2>4. \A v \in Workers : wpc'[v] = IF v = w THEN pc ELSE wpc[v]
    BY <1>a, <2>1
  <2>5. /\ Cardinality(At(wpc', AtPcs)) = Cardinality(At(wpc, AtPcs))
        /\ Cardinality(At(wpc', BeforePcs)) = Cardinality(At(wpc, BeforePcs))
        /\ Cardinality(At(wpc', DonePcs)) = Cardinality(At(wpc, DonePcs))
    BY <1>0, <2>1, <2>2, GotoCount
  <2>6. Cardinality(At(wpc', OwingPcs)) = Cardinality(At(wpc, OwingPcs)) - 1
        /\ Cardinality(At(wpc, OwingPcs)) > 0
    BY <1>0, <2>1, <2>3, GotoCount
  <2>7. Counters'
    BY <1>0, <2>1, <2>5 DEF ReforkDone, Counters, AtCount, BeforeCount, DoneCount, sharedVars
  <2>8. TypeOK'
    BY <1>0, <2>1, <2>2, <2>5, <2>6 DEF ReforkDone, Goto, TypeOK, Counters, AtCount, ReforkCount, sharedVars, mainVars
  <2>9. ReforkCount'
    BY <1>0, <1>b, <1>c, <1>d, <2>1, <2>3, <2>4, <2>6 DEF ReforkDone, ReforkCount, OwingPcs, sharedVars, mainVars
  <2>10. (Started /\ MainPoint /\ Recursion)'
    BY <1>0, <2>1, <2>2, <2>4 DEF ReforkDone, Started, MainPoint, Recursion, sharedVars, mainVars
  <2>11. CloneInv'
    BY <1>0, <1>b, <2>1, <2>4 DEF ReforkDone, CloneInv, OwingPcs, ReforkCount, TypeOK, sharedVars, mainVars
  <2>12. RefInv'
    BY <1>0, <2>1, <2>4 DEF ReforkDone, RefInv, Running, SyncPcs, ContPcs, TypeOK, sharedVars, mainVars
  <2>13. RpcInv'
    BY <1>0, <2>1, <2>4 DEF ReforkDone, RpcInv, TypeOK, sharedVars, mainVars
  <2>. QED
    BY <2>7, <2>8, <2>9, <2>10, <2>11, <2>12, <2>13 DEF IInv
<1>8. CASE ReforkWait(w)
  <2>1. PICK pc \in {"dispatch"} : ReforkWait(w) /\ Goto(w, pc)
    BY <1>8 DEF ReforkWait, Move
  <2>2. /\ pc \in WorkerPcs /\ pc \notin InitPcs
        /\ (wpc[w] \in AtPcs <=> pc \in AtPcs)
        /\ (wpc[w] \in BeforePcs <=> pc \in BeforePcs)
        /\ (wpc[w] \in DonePcs <=> pc \in DonePcs)
    BY <2>1 DEF ReforkWait, AtPcs, BeforePcs, DonePcs, WorkerPcs, BarrierPcs, InitPcs
  <2>3. (wpc[w] \in OwingPcs <=> pc \in OwingPcs)
    BY <2>1 DEF ReforkWait, Move, OwingPcs, TypeOK, Goto
  <2>4. \A v \in Workers : wpc'[v] = IF v = w THEN pc ELSE wpc[v]
    BY <1>a, <2>1
  <2>5. /\ Cardinality(At(wpc', AtPcs)) = Cardinality(At(wpc, AtPcs))
        /\ Cardinality(At(wpc', BeforePcs)) = Cardinality(At(wpc, BeforePcs))
        /\ Cardinality(At(wpc', DonePcs)) = Cardinality(At(wpc, DonePcs))
    BY <1>0, <2>1, <2>2, GotoCount
  <2>6. Cardinality(At(wpc', OwingPcs)) = Cardinality(At(wpc, OwingPcs))
    BY <1>0, <2>1, <2>3, GotoCount
  <2>7. Counters'
    BY <1>0, <2>1, <2>5 DEF ReforkWait, Move, Counters, AtCount, BeforeCount, DoneCount, sharedVars
  <2>8. TypeOK'
    BY <1>0, <2>1, <2>2, <2>5, <2>6 DEF ReforkWait, Move, Goto, TypeOK, Counters, AtCount, ReforkCount, sharedVars, mainVars
  <2>9. ReforkCount'
    BY <1>0, <1>b, <1>c, <1>d, <2>1, <2>3, <2>4, <2>6 DEF ReforkWait, Move, ReforkCount, OwingPcs, sharedVars, mainVars
  <2>10. (Started /\ MainPoint /\ Recursion)'
    BY <1>0, <2>1, <2>2, <2>4 DEF ReforkWait, Move, Started, MainPoint, Recursion, sharedVars, mainVars
  <2>11. CloneInv'
    BY <1>0, <1>b, <2>1, <2>4 DEF ReforkWait, Move, CloneInv, OwingPcs, ReforkCount, TypeOK, sharedVars, mainVars
  <2>12. RefInv'
    BY <1>0, <2>1, <2>4 DEF ReforkWait, Move, RefInv, Running, SyncPcs, ContPcs, TypeOK, sharedVars, mainVars
  <2>13. RpcInv'
    BY <1>0, <2>1, <2>4 DEF ReforkWait, Move, RpcInv, TypeOK, sharedVars, mainVars
  <2>. QED
    BY <2>7, <2>8, <2>9, <2>10, <2>11, <2>12, <2>13 DEF IInv
<1>9. CASE LoopEnd(w)
  <2>1. PICK pc \in {"check"} : LoopEnd(w) /\ Goto(w, pc)
    BY <1>9 DEF LoopEnd
  <2>2. /\ pc \in WorkerPcs /\ pc \notin InitPcs
        /\ (wpc[w] \in AtPcs <=> pc \in AtPcs)
        /\ (wpc[w] \in BeforePcs <=> pc \in BeforePcs)
        /\ (wpc[w] \in DonePcs <=> pc \in DonePcs)
    BY <2>1 DEF LoopEnd, AtPcs, BeforePcs, DonePcs, WorkerPcs, BarrierPcs, InitPcs
  <2>3. (wpc[w] \in OwingPcs <=> pc \in OwingPcs)
    BY <2>1 DEF LoopEnd, OwingPcs, TypeOK, Goto
  <2>4. \A v \in Workers : wpc'[v] = IF v = w THEN pc ELSE wpc[v]
    BY <1>a, <2>1
  <2>5. /\ Cardinality(At(wpc', AtPcs)) = Cardinality(At(wpc, AtPcs))
        /\ Cardinality(At(wpc', BeforePcs)) = Cardinality(At(wpc, BeforePcs))
        /\ Cardinality(At(wpc', DonePcs)) = Cardinality(At(wpc, DonePcs))
    BY <1>0, <2>1, <2>2, GotoCount
  <2>6. Cardinality(At(wpc', OwingPcs)) = Cardinality(At(wpc, OwingPcs))
    BY <1>0, <2>1, <2>3, GotoCount
  <2>7. Counters'
    BY <1>0, <2>1, <2>5 DEF LoopEnd, Counters, AtCount, BeforeCount, DoneCount, sharedVars
  <2>8. TypeOK'
    BY <1>0, <2>1, <2>2, <2>5, <2>6 DEF LoopEnd, Goto, TypeOK, Counters, AtCount, ReforkCount, sharedVars, mainVars
  <2>9. ReforkCount'
    BY <1>0, <1>b, <1>c, <1>d, <2>1, <2>3, <2>4, <2>6 DEF LoopEnd, ReforkCount, OwingPcs, sharedVars, mainVars
  <2>10. (Started /\ MainPoint /\ Recursion)'
    BY <1>0, <2>1, <2>2, <2>4 DEF LoopEnd, Started, MainPoint, Recursion, sharedVars, mainVars
  <2>11. CloneInv'
    BY <1>0, <1>b, <2>1, <2>4 DEF LoopEnd, CloneInv, OwingPcs, ReforkCount, TypeOK, sharedVars, mainVars
  <2>12. RefInv'
    BY <1>0, <2>1, <2>4 DEF LoopEnd, RefInv, Running, SyncPcs, ContPcs, TypeOK, sharedVars, mainVars
  <2>13. RpcInv'
    BY <1>0, <2>1, <2>4 DEF LoopEnd, RpcInv, TypeOK, sharedVars, mainVars
  <2>. QED
    BY <2>7, <2>8, <2>9, <2>10, <2>11, <2>12, <2>13 DEF IInv
<1>. QED
  BY <1>1, <1>2, <1>3, <1>4, <1>5, <1>6, <1>7, <1>8, <1>9

\* All the steps of a worker.
LEMMA WorkerIInv ==
  ASSUME IInv, NEW w \in Workers, WorkerNext(w)
  PROVE  IInv'
<1>0. mpc # "panic"
  BY DEF WorkerNext, InitArrive, InitUnpark, InitLeave, BarrierCheck, Arrive, Unpark,
         Leave, ReforkCheck, Refork, ReforkDone, ReforkWait, Lookup, LoopEnd,
         WorkersSync, SyncSwap, SyncRpc, SyncWait, SyncArrive, SyncRead, SyncTest,
         Continue, ContinueRead, ContinueTest, ContinueDone, ContinueBefore,
         Move, Read, Goto
<1>1. CASE Lookup(w)
  BY <1>1 DEF IInv, Lookup, TypeOK, Started, Counters, AtCount, BeforeCount, DoneCount,
              MainPoint, Recursion, ReforkCount, CloneInv, RefInv, RpcInv, Running,
              sharedVars, mainVars
<1>2. CASE InitArrive(w) \/ InitUnpark(w) \/ InitLeave(w)
  BY <1>2 DEF IInv, Started, InitPcs, InitArrive, InitUnpark, InitLeave
<1>. QED
  BY <1>0, <1>1, <1>2, CheckIInv, SyncIInv DEF WorkerNext

-----------------------------------------------------------------------------
(* The theorems.                                                           *)

\* The inductive invariant holds in every behaviour of SteadySpec.
THEOREM Invariant == SteadySpec => []IInv
<1>1. IInv /\ [Next]_vars => IInv'
  <2>1. IInv /\ UNCHANGED vars => IInv'
    BY DEF IInv, vars, sharedVars, mainVars, workerVars, TypeOK, Started, Counters,
           AtCount, BeforeCount, DoneCount, MainPoint, Recursion, ReforkCount, CloneInv,
           RefInv, RpcInv, Running
  <2>. QED
    BY <2>1, MainIInv, WorkerIInv DEF Next, Panicked
<1>. QED
  BY <1>1, InitIInv, PTL DEF SteadySpec

\* Every variable keeps its type: no counter is ever decremented below zero.
THEOREM TypeCorrect == SteadySpec => []TypeOK
BY Invariant, PTL DEF IInv

\* A barrier section of main runs only while every worker is parked.
THEOREM MutualExclusion == SteadySpec => []ParkedWhileHeld
<1>1. IInv => ParkedWhileHeld
  BY DEF IInv, MainPoint, ParkedWhileHeld, parked_at_barrier
<1>. QED
  BY <1>1, Invariant, PTL

\* No worker runs nodes from an old clone of the node graph.
THEOREM CloneFresh == SteadySpec => []NoStaleClone
<1>1. IInv => NoStaleClone
  <2>. SUFFICES ASSUME IInv, NEW w \in Workers, Running(w) PROVE clone[w] = graph
    BY DEF NoStaleClone
  <2>. QED
    BY DEF IInv, CloneInv, MainPoint, Running, SyncPcs, ContPcs
<1>. QED
  BY <1>1, Invariant, PTL

\* Clones are taken from a graph at rest, and all are finished before any
\* worker runs nodes again.
THEOREM ReforkIsolation == SteadySpec => []ReforkIsolated
<1>1. IInv => ReforkIsolated
  <2>. SUFFICES ASSUME IInv, NEW w \in Workers, wpc[w] \in {"refork", "reforkdec"}
                PROVE  /\ mpc \in {"opening", "reforking", "panic"}
                       /\ \A v \in Workers : ~Running(v) /\ wpc[v] # "check"
    BY DEF ReforkIsolated
  <2>. QED
    BY DEF IInv, ReforkCount, OwingPcs, Running, SyncPcs, ContPcs
<1>. QED
  BY <1>1, Invariant, PTL

\* A forwarding entry is freed only when no worker points to it.
THEOREM GracePeriod == SteadySpec => []NoUseAfterFree
<1>1. IInv => NoUseAfterFree
  BY DEF IInv, RefInv, NoUseAfterFree
<1>. QED
  BY <1>1, Invariant, PTL

\* A worker waiting in vlib_workers_sync always has a request on its way.
THEOREM NoLostRequest == SteadySpec => []SyncRequested
<1>1. IInv => SyncRequested
  BY DEF IInv, RpcInv, MainPoint, TypeOK, SyncRequested
<1>. QED
  BY <1>1, Invariant, PTL
=============================================================================
