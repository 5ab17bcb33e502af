------------------------- MODULE WorkersSync_proofs -------------------------
(***************************************************************************)
(* vlib_workers_sync stops every other worker, for any number of workers   *)
(* and of calls.                                                           *)
(***************************************************************************)
EXTENDS WorkerBarrier_proofs

SpinPcs     == {"syncspin", "syncspin_before", "syncspin_at"}
ContSpinPcs == {"contspin", "contspin_before", "contspin_done"}

\* Some worker has not finished its work between sync and continue.
Unfinished == \E u \in Workers : wpc[u] \in SpinPcs \cup {"excl"}

\* v has done the work of its first call since its last barrier check.
Moving(v) ==
    \/ wpc[v] \in ContPcs
    \/ wpc[v] \in {"dispatch", "check"} /\ syncs[v] > 0
    \/ wpc[v] \in SyncPcs \cup {"excl"} /\ syncs[v] > 1

Finished(v) == Moving(v) \/ wpc[v] \in {"arrive", "parked"}

\* v has got through vlib_workers_sync and has not reached the barrier yet.
Passed(v) == Moving(v) \/ wpc[v] = "excl"

\* Every worker has been stopped and none has been let go.
AllStopped ==
    \A v \in Workers : wpc[v] \in SpinPcs \cup ContSpinPcs \cup {"excl", "parked"}

\* Every worker has finished a call; those let go are on their way to the
\* barrier, or in a further call.
Draining == \A v \in Workers : Finished(v)

\* A worker inside sync or continue has made a call, one past its barrier
\* check none, and from its increment of workers_before_barrier until it
\* reaches the barrier main is closing it.
InSync ==
    \A w \in Workers :
        /\ wpc[w] \in SyncPcs \cup ContPcs \cup {"excl"} => syncs[w] > 0
        /\ wpc[w] \in BarrierPcs \ {"check"} => syncs[w] = 0
        /\ Passed(w) \/ wpc[w] \in SpinPcs \cup {"syncarrive"} =>
              mpc \in {"closing", "panic"}

\* What the first of two reads is worth when the second is made, as long as
\* a worker has not finished.
ReadInv ==
    Draining \/
    \A w \in Workers :
        /\ wpc[w] = "syncspin_before" => tmp[w] <= workers_at_barrier
        /\ wpc[w] = "syncspin_at" => tmp[w] <= workers_before_barrier
        /\ wpc[w] = "contspin_before" => tmp[w] <= done_work_before_barrier
        /\ wpc[w] = "contspin_done" => tmp[w] >= workers_before_barrier

\* Once a worker has got through vlib_workers_sync.
StoppedInv == (\E w \in Workers : Passed(w)) => AllStopped \/ Draining

SyncInv == InSync /\ ReadInv /\ StoppedInv

-----------------------------------------------------------------------------
(* Two facts on the counters.                                              *)

\* While a worker is unfinished fewer are done than are stopped.
LEMMA DoneLess ==
  ASSUME IInv, Unfinished
  PROVE  done_work_before_barrier < workers_before_barrier
<1>1. At(wpc, DonePcs) \subseteq At(wpc, BeforePcs)
  BY DEF At, DonePcs, BeforePcs
<1>2. At(wpc, DonePcs) # At(wpc, BeforePcs)
  BY DEF At, DonePcs, BeforePcs, Unfinished, SpinPcs
<1>3. /\ Cardinality(At(wpc, DonePcs)) <= Cardinality(At(wpc, BeforePcs))
      /\ Cardinality(At(wpc, DonePcs)) # Cardinality(At(wpc, BeforePcs))
  BY <1>1, <1>2, AtFinite, FS_Subset
<1>4. Cardinality(At(wpc, DonePcs)) \in Nat /\ Cardinality(At(wpc, BeforePcs)) \in Nat
  BY AtFinite
<1>. QED
  BY <1>3, <1>4 DEF IInv, Counters, DoneCount, BeforeCount

\* If the two counters add up to N, every worker is at the barrier or before it.
LEMMA AllCounted ==
  ASSUME IInv, mpc = "closing",
         N <= workers_at_barrier + workers_before_barrier
  PROVE  \A v \in Workers : wpc[v] = "parked" \/ wpc[v] \in BeforePcs
<1>. DEFINE A == At(wpc, AtPcs)
            B == At(wpc, BeforePcs)
<1>1. A \cap B = {}
  BY DEF At, AtPcs, BeforePcs
<1>2. IsFiniteSet(A) /\ IsFiniteSet(B) /\ Cardinality(A) \in Nat /\ Cardinality(B) \in Nat
  BY AtFinite
<1>. HIDE DEF A, B
<1>3. IsFiniteSet(A \cup B) /\ Cardinality(A \cup B) = Cardinality(A) + Cardinality(B)
  BY <1>1, <1>2, FS_Union, FS_EmptySet
<1>4. A \cup B \subseteq Workers
  BY DEF A, B, At
<1>5. N \in Nat /\ Cardinality(A \cup B) <= N
  BY <1>4, FS_Subset, FS_CardinalityType, WorkersAssumption DEF N
<1>6. Cardinality(A \cup B) = N
  BY <1>2, <1>3, <1>5 DEF A, B, IInv, Counters, AtCount, BeforeCount
<1>7. A \cup B = Workers
  BY <1>4, <1>6, FS_Subset, WorkersAssumption DEF N
<1>8. \A v \in Workers : wpc[v] \in AtPcs \cup BeforePcs
  BY <1>7 DEF A, B, At
<1>. QED
  BY <1>8 DEF AtPcs, IInv, MainPoint, Started, InitPcs

-----------------------------------------------------------------------------
(* SyncInv is inductive relative to IInv.                                  *)

\* Main changes none of the words the workers compare, and holds the barrier
\* only when all are parked.
LEMMA MainSyncInv ==
  ASSUME IInv, IInv', SyncInv, MainNext
  PROVE  SyncInv'
<1>1. UNCHANGED << workers_at_barrier, workers_before_barrier,
                   done_work_before_barrier, wpc, syncs, tmp >>
  BY DEF MainNext, BarrierSync, BarrierSyncEnter, HandleRpc, BarrierClosed, NestedSync,
         NestedRelease, ChangeGraph, RunRpc, BarrierRelease, BarrierOpened, ReforksDone,
         InitialSync, InitialRelease, RouteDelBarrier, RouteDelFree, OneLoopDone,
         RouteAdd, Deadline, sharedVars, workerVars
<1>2. (ReadInv /\ StoppedInv)'
  BY <1>1 DEF SyncInv, ReadInv, StoppedInv, AllStopped, Draining, Finished, Passed, Moving
<1>3. mpc = "closing" => mpc' \in {"closing", "held", "panic"}
  BY DEF MainNext, BarrierSync, BarrierSyncEnter, HandleRpc, BarrierClosed, NestedSync,
         NestedRelease, ChangeGraph, RunRpc, BarrierRelease, BarrierOpened, ReforksDone,
         InitialSync, InitialRelease, RouteDelBarrier, RouteDelFree, OneLoopDone,
         RouteAdd, Deadline
<1>4. mpc # "panic"
  BY DEF MainNext, BarrierSync, BarrierSyncEnter, HandleRpc, BarrierClosed, NestedSync,
         NestedRelease, ChangeGraph, RunRpc, BarrierRelease, BarrierOpened, ReforksDone,
         InitialSync, InitialRelease, RouteDelBarrier, RouteDelFree, OneLoopDone,
         RouteAdd, Deadline
<1>5. mpc' = "held" => \A w \in Workers : wpc'[w] = "parked"
  BY DEF IInv, MainPoint
<1>6. InSync'
  BY <1>1, <1>3, <1>4, <1>5
     DEF SyncInv, InSync, Passed, Moving, ContPcs, SpinPcs, SyncPcs
<1>. QED
  BY <1>2, <1>6 DEF SyncInv

\* The steps outside vlib_workers_sync and vlib_workers_continue.
OutsideStep(w) ==
    \/ BarrierCheck(w) \/ Arrive(w) \/ Unpark(w) \/ Leave(w) \/ ReforkCheck(w)
    \/ Refork(w) \/ ReforkDone(w) \/ ReforkWait(w) \/ LoopEnd(w) \/ Lookup(w)

\* The steps up to the first shared increment.
EnterStep(w) == WorkersSync(w) \/ SyncSwap(w) \/ SyncRpc(w) \/ SyncWait(w)

\* The spin of vlib_workers_sync and the work after it.
SpinStep(w) == SyncArrive(w) \/ SyncRead(w) \/ SyncTest(w) \/ Continue(w)

\* vlib_workers_continue, from its spin to its end.
ContStep(w) == ContinueRead(w) \/ ContinueTest(w) \/ ContinueDone(w) \/ ContinueBefore(w)

SyncStep(w) == OutsideStep(w) \/ EnterStep(w) \/ SpinStep(w) \/ ContStep(w)

\* A step of w leaves main and the other workers where they are.
LEMMA Frame ==
  ASSUME IInv, NEW w \in Workers, SyncStep(w)
  PROVE  /\ mpc # "panic"
         /\ mpc' = mpc
         /\ wait_at_barrier' = wait_at_barrier
         /\ \A v \in Workers : v # w =>
              wpc'[v] = wpc[v] /\ syncs'[v] = syncs[v] /\ tmp'[v] = tmp[v]
<1>1. /\ wpc \in [Workers -> WorkerPcs] /\ syncs \in [Workers -> 0 .. MaxSyncs]
      /\ tmp \in [Workers -> Nat]
  BY DEF IInv, TypeOK
<1>2. CASE OutsideStep(w)
  BY <1>1, <1>2 DEF OutsideStep, BarrierCheck, Arrive, Unpark, Leave, ReforkCheck, Refork, ReforkDone,
         ReforkWait, LoopEnd, Lookup, Move, Goto, SetAtBarrier, sharedVars, mainVars
<1>3. CASE EnterStep(w)
  BY <1>1, <1>3 DEF EnterStep, WorkersSync, SyncSwap, SyncRpc, SyncWait, Move, Goto, sharedVars, mainVars
<1>4. CASE SpinStep(w)
  BY <1>1, <1>4 DEF SpinStep, SyncArrive, SyncRead, SyncTest, Continue, Read, Goto, sharedVars, mainVars
<1>5. CASE ContStep(w)
  BY <1>1, <1>5 DEF ContStep, ContinueRead, ContinueTest, ContinueDone, ContinueBefore, Read, Goto,
         sharedVars, mainVars
<1>. QED
  BY <1>2, <1>3, <1>4, <1>5 DEF SyncStep

\* Where w goes, and its calls.
LEMMA Steps ==
  ASSUME IInv, SyncInv, NEW w \in Workers, SyncStep(w)
  PROVE  /\ OutsideStep(w) =>
              \/ /\ wpc[w] = "check" /\ syncs'[w] = 0
                 /\ wpc'[w] = IF wait_at_barrier THEN "arrive" ELSE "dispatch"
              \/ wpc[w] = "arrive" /\ wpc'[w] = "parked" /\ syncs'[w] = syncs[w]
              \/ /\ wpc[w] = "parked" /\ wpc'[w] = "leave" /\ syncs'[w] = syncs[w]
                 /\ ~wait_at_barrier
              \/ /\ wpc[w] \in {"leave", "reforkchk", "refork", "reforkdec", "reforkwait"}
                 /\ wpc'[w] \in {"reforkchk", "refork", "reforkdec", "reforkwait", "dispatch"}
                 /\ syncs'[w] = syncs[w]
              \/ /\ wpc[w] = "dispatch" /\ wpc'[w] \in {"dispatch", "check"}
                 /\ syncs'[w] = syncs[w]
         /\ EnterStep(w) =>
              \/ /\ wpc[w] = "dispatch" /\ wpc'[w] \in {"syncwait", "syncswap"}
                 /\ syncs'[w] = syncs[w] + 1
              \/ /\ wpc[w] \in {"syncswap", "syncrpc"} /\ wpc'[w] \in {"syncrpc", "syncwait"}
                 /\ syncs'[w] = syncs[w]
              \/ /\ wpc[w] = "syncwait" /\ wpc'[w] = "syncarrive" /\ syncs'[w] = syncs[w]
                 /\ wait_at_barrier
         /\ SpinStep(w) =>
              /\ wpc[w] \in SpinPcs \cup {"excl", "syncarrive"}
              /\ wpc'[w] \in SpinPcs \cup {"excl", "contspin"}
              /\ wpc'[w] = "contspin" <=> wpc[w] = "excl"
              /\ syncs'[w] = syncs[w]
         /\ ContStep(w) =>
              /\ wpc[w] \in ContPcs
              /\ wpc'[w] \in ContPcs \cup {"dispatch"}
              /\ syncs'[w] = syncs[w]
<1>1. /\ wpc \in [Workers -> WorkerPcs] /\ syncs \in [Workers -> 0 .. MaxSyncs]
  BY DEF IInv, TypeOK
<1>2. OutsideStep(w) =>
              \/ /\ wpc[w] = "check" /\ syncs'[w] = 0
                 /\ wpc'[w] = IF wait_at_barrier THEN "arrive" ELSE "dispatch"
              \/ wpc[w] = "arrive" /\ wpc'[w] = "parked" /\ syncs'[w] = syncs[w]
              \/ /\ wpc[w] = "parked" /\ wpc'[w] = "leave" /\ syncs'[w] = syncs[w]
                 /\ ~wait_at_barrier
              \/ /\ wpc[w] \in {"leave", "reforkchk", "refork", "reforkdec", "reforkwait"}
                 /\ wpc'[w] \in {"reforkchk", "refork", "reforkdec", "reforkwait", "dispatch"}
                 /\ syncs'[w] = syncs[w]
              \/ /\ wpc[w] = "dispatch" /\ wpc'[w] \in {"dispatch", "check"}
                 /\ syncs'[w] = syncs[w]
  BY <1>1 DEF OutsideStep, BarrierCheck, Arrive, Unpark, Leave, ReforkCheck, Refork, ReforkDone,
         ReforkWait, LoopEnd, Lookup, Move, Goto, SetAtBarrier
<1>3. EnterStep(w) =>
              \/ /\ wpc[w] = "dispatch" /\ wpc'[w] \in {"syncwait", "syncswap"}
                 /\ syncs'[w] = syncs[w] + 1
              \/ /\ wpc[w] \in {"syncswap", "syncrpc"} /\ wpc'[w] \in {"syncrpc", "syncwait"}
                 /\ syncs'[w] = syncs[w]
              \/ /\ wpc[w] = "syncwait" /\ wpc'[w] = "syncarrive" /\ syncs'[w] = syncs[w]
                 /\ wait_at_barrier
  BY <1>1 DEF EnterStep, WorkersSync, SyncSwap, SyncRpc, SyncWait, Move, Goto
<1>4. SpinStep(w) =>
              /\ wpc[w] \in SpinPcs \cup {"excl", "syncarrive"}
              /\ wpc'[w] \in SpinPcs \cup {"excl", "contspin"}
              /\ wpc'[w] = "contspin" <=> wpc[w] = "excl"
              /\ syncs'[w] = syncs[w]
  BY <1>1 DEF SpinStep, SyncArrive, SyncRead, SyncTest, Continue, Read, Goto, SpinPcs
<1>5. ContStep(w) =>
              /\ wpc[w] \in ContPcs
              /\ wpc'[w] \in ContPcs \cup {"dispatch"}
              /\ syncs'[w] = syncs[w]
  BY <1>1 DEF ContStep, ContinueRead, ContinueTest, ContinueDone, ContinueBefore, Read, Goto, ContPcs
<1>. QED
  BY <1>2, <1>3, <1>4, <1>5

\* InSync is preserved, and no worker has got through vlib_workers_sync that
\* had not, but by the last test of its spin.
LEMMA InSyncStep ==
  ASSUME IInv, SyncInv, NEW w \in Workers, SyncStep(w)
  PROVE  /\ InSync'
         /\ Moving(w)' /\ ~(wpc[w] = "excl") => Moving(w)
<1>0. syncs[w] \in Nat
  BY BoundsAssumption DEF IInv, TypeOK
<1>1. mpc # "panic" /\ (mpc = "closing" <=> wait_at_barrier /\ mpc # "held")
  BY Frame DEF IInv, MainPoint
<1>2. mpc = "held" => wpc[w] = "parked"
  BY DEF IInv, MainPoint
<1>3. Moving(w)' /\ ~(wpc[w] = "excl") => Moving(w)
  BY <1>0, Steps DEF SyncStep, Moving, SyncInv, InSync, SyncPcs, ContPcs, SpinPcs, BarrierPcs
<1>4. Passed(w)' \/ wpc'[w] \in SpinPcs \cup {"syncarrive"} =>
        Passed(w) \/ wpc[w] \in SpinPcs \cup {"syncarrive"} \/ (wait_at_barrier /\ mpc # "held")
  BY <1>2, <1>3, Steps DEF SyncStep, Passed, SyncPcs, ContPcs, SpinPcs
<1>5. /\ wpc'[w] \in SyncPcs \cup ContPcs \cup {"excl"} => syncs'[w] > 0
      /\ wpc'[w] \in BarrierPcs \ {"check"} => syncs'[w] = 0
  BY <1>0, Steps DEF SyncStep, SyncInv, InSync, SyncPcs, ContPcs, SpinPcs, BarrierPcs
<1>6. \A v \in Workers : v # w => (Passed(v)' <=> Passed(v))
  BY Frame DEF Passed, Moving
<1>7. InSync'
  BY <1>1, <1>4, <1>5, <1>6, Frame DEF SyncInv, InSync
<1>. QED
  BY <1>3, <1>7

\* While main is closing the barrier, finished workers stay so.
LEMMA DrainingStays ==
  ASSUME IInv, SyncInv, wait_at_barrier, NEW w \in Workers, SyncStep(w), Draining
  PROVE  Draining'
<1>0. syncs[w] \in Nat
  BY BoundsAssumption DEF IInv, TypeOK
<1>1. Finished(w)
  BY DEF Draining
<1>2. Finished(w)'
  BY <1>0, <1>1, Steps DEF SyncStep, Finished, Moving, SyncInv, InSync, SyncPcs, ContPcs, SpinPcs,
     BarrierPcs
<1>. QED
  BY <1>2, Frame DEF Draining, Finished, Moving

\* While the barrier is open nobody is past the head of vlib_workers_sync.
LEMMA OpenSyncInv ==
  ASSUME IInv, SyncInv, ~wait_at_barrier, NEW w \in Workers, SyncStep(w)
  PROVE  SyncInv'
<1>1. InSync'
  BY InSyncStep
<1>2. mpc' = mpc /\ mpc # "panic" /\ mpc # "closing"
  BY Frame DEF IInv, MainPoint
<1>3. \A v \in Workers : ~Passed(v)' /\ wpc'[v] \notin SpinPcs
  BY <1>1, <1>2 DEF InSync
<1>. QED
  BY <1>1, <1>3 DEF SyncInv, ReadInv, StoppedInv, Passed, Moving, SpinPcs, ContPcs

\* What a step preserves once every worker has been let go.
LEMMA DrainSyncInv ==
  ASSUME IInv, SyncInv, wait_at_barrier, NEW w \in Workers, SyncStep(w), Draining
  PROVE  SyncInv'
BY DrainingStays, InSyncStep DEF SyncInv, ReadInv, StoppedInv

\* Once a worker has passed vlib_workers_sync, the barrier that main is
\* closing lets the others go no further than to be parked.
LEMMA OutsideSyncInv ==
  ASSUME IInv, SyncInv, wait_at_barrier, ~Draining, NEW w \in Workers, OutsideStep(w)
  PROVE  SyncInv'
<1>. SyncStep(w)
  BY DEF SyncStep
<1>1. InSync'
  BY InSyncStep
<1>2. UNCHANGED << workers_before_barrier, done_work_before_barrier, tmp >>
  BY DEF OutsideStep, BarrierCheck, Arrive, Unpark, Leave, ReforkCheck, Refork, ReforkDone,
         ReforkWait, LoopEnd, Lookup, Move, Goto, SetAtBarrier, sharedVars, mainVars
<1>3. workers_at_barrier \in Nat /\ workers_at_barrier' \in Nat
      /\ workers_at_barrier <= workers_at_barrier'
  <2>1. workers_at_barrier \in Nat
    BY DEF IInv, TypeOK
  <2>2. wpc[w] # "leave"
    BY Frame DEF IInv, MainPoint
  <2>3. \/ workers_at_barrier' = workers_at_barrier
        \/ workers_at_barrier' = workers_at_barrier + 1
        \/ wpc[w] = "leave"
    BY DEF OutsideStep, BarrierCheck, Arrive, Unpark, Leave, ReforkCheck, Refork, ReforkDone,
           ReforkWait, LoopEnd, Lookup, Move, Goto, SetAtBarrier, sharedVars
  <2>. QED
    BY <2>1, <2>2, <2>3
<1>4. wpc'[w] \notin SyncPcs \cup ContPcs \cup {"excl"}
  BY Steps DEF SyncPcs, ContPcs
<1>5. ReadInv'
  <2>1. tmp \in [Workers -> Nat]
    BY DEF IInv, TypeOK
  <2>2. \A v \in Workers : wpc'[v] \in SyncPcs \cup ContPcs => wpc'[v] = wpc[v]
    BY <1>4, Frame
  <2>3. \A v \in Workers : wpc'[v] = "syncspin_before" => tmp'[v] <= workers_at_barrier'
    <3>. SUFFICES ASSUME NEW v \in Workers, wpc'[v] = "syncspin_before"
                  PROVE  tmp[v] <= workers_at_barrier'
      BY <1>2
    <3>1. tmp[v] <= workers_at_barrier
      BY <2>2 DEF SyncInv, ReadInv, SyncPcs
    <3>. QED
      BY <1>3, <2>1, <3>1
  <2>. QED
    BY <1>2, <2>2, <2>3 DEF SyncInv, ReadInv, SyncPcs, ContPcs
<1>6. StoppedInv'
  <2>. SUFFICES ASSUME NEW u \in Workers, Passed(u)'
                PROVE  AllStopped'
    BY DEF StoppedInv
  <2>1. Passed(u)
    BY <1>4, InSyncStep, Frame DEF Passed, Moving
  <2>2. AllStopped
    BY <2>1 DEF SyncInv, StoppedInv
  <2>3. wpc[w] \in {"parked"}
    BY <2>2, Steps DEF AllStopped, SpinPcs, ContSpinPcs
  <2>. QED
    BY <2>3, Steps
<1>. QED
  BY <1>1, <1>5, <1>6 DEF SyncInv

\* A worker enters once another has passed vlib_workers_sync only when all
\* have finished.
LEMMA EnterSyncInv ==
  ASSUME IInv, SyncInv, wait_at_barrier, ~Draining, NEW w \in Workers, EnterStep(w)
  PROVE  SyncInv'
<1>. SyncStep(w)
  BY DEF SyncStep
<1>1. InSync'
  BY InSyncStep
<1>2. UNCHANGED << workers_at_barrier, workers_before_barrier, done_work_before_barrier, tmp >>
  BY DEF EnterStep, WorkersSync, SyncSwap, SyncRpc, SyncWait, Move, Goto, sharedVars, mainVars
<1>3. /\ wpc[w] \in {"dispatch", "syncswap", "syncrpc", "syncwait"}
      /\ wpc'[w] \in {"syncswap", "syncrpc", "syncwait", "syncarrive"}
  BY Steps
<1>4. \A v \in Workers : ~Passed(v)
  BY <1>3 DEF SyncInv, StoppedInv, AllStopped, SpinPcs, ContSpinPcs
<1>5. \A v \in Workers : ~Passed(v)'
  BY <1>3, <1>4, InSyncStep, Frame DEF Passed, Moving
<1>6. ReadInv'
  BY <1>2, <1>3, Frame DEF SyncInv, ReadInv
<1>. QED
  BY <1>1, <1>5, <1>6 DEF SyncInv, StoppedInv

\* The spin of vlib_workers_sync and the work after it.
LEMMA SpinSyncInv ==
  ASSUME IInv, SyncInv, wait_at_barrier, ~Draining, NEW w \in Workers, SpinStep(w)
  PROVE  SyncInv'
<1>. SyncStep(w)
  BY DEF SyncStep
<1>a. /\ wpc \in [Workers -> WorkerPcs] /\ tmp \in [Workers -> Nat]
      /\ workers_at_barrier \in Nat /\ workers_before_barrier \in Nat
      /\ done_work_before_barrier \in Nat
  BY DEF IInv, TypeOK
<1>0. UNCHANGED workers_at_barrier
  BY DEF SpinStep, SyncArrive, SyncRead, SyncTest, Continue, Read, sharedVars
<1>1. InSync'
  BY InSyncStep
<1>2. mpc = "closing"
  BY Steps, Frame DEF SyncInv, InSync, Passed
<1>3. \A v \in Workers : Passed(v) => AllStopped
  BY DEF SyncInv, StoppedInv
<1>4. CASE SyncArrive(w)
  <2>1. wpc[w] = "syncarrive" /\ wpc'[w] = "syncspin"
        /\ workers_before_barrier' = workers_before_barrier + 1
        /\ UNCHANGED << done_work_before_barrier, tmp >>
    BY <1>4, <1>a DEF SyncArrive, Goto
  <2>2. \A v \in Workers : ~Passed(v)
    BY <1>3, <2>1 DEF AllStopped, SpinPcs, ContSpinPcs
  <2>3. \A v \in Workers : ~Passed(v)'
    BY <2>1, <2>2, InSyncStep, Frame DEF Passed, Moving
  <2>4. \A v \in Workers : wpc[v] = "syncspin_at" => tmp[v] <= workers_before_barrier'
    <3>. SUFFICES ASSUME NEW v \in Workers, wpc[v] = "syncspin_at"
                  PROVE  tmp[v] <= workers_before_barrier'
      OBVIOUS
    <3>1. tmp[v] <= workers_before_barrier /\ tmp[v] \in Nat
      BY <1>a DEF SyncInv, ReadInv
    <3>. QED
      BY <1>a, <2>1, <3>1
  <2>5. \A v \in Workers : wpc[v] \notin ContPcs
    BY <2>2 DEF Passed, Moving
  <2>6. ReadInv'
    BY <1>0, <2>1, <2>4, <2>5, Frame DEF SyncInv, ReadInv, ContPcs
  <2>. QED
    BY <1>1, <2>3, <2>6 DEF SyncInv, StoppedInv
<1>5. CASE SyncRead(w)
  <2>1. UNCHANGED << workers_before_barrier, done_work_before_barrier >>
    BY <1>5 DEF SyncRead, Read, sharedVars
  <2>2. /\ wpc[w] = "syncspin"
        /\ \/ wpc'[w] = "syncspin_before" /\ tmp'[w] = workers_at_barrier
           \/ wpc'[w] = "syncspin_at" /\ tmp'[w] = workers_before_barrier
    BY <1>5, <1>a DEF SyncRead, Read, Goto
  <2>3. ReadInv'
    <3>1. tmp'[w] <= tmp'[w] /\ tmp'[w] >= tmp'[w]
      BY <1>a, <2>2
    <3>2. /\ wpc'[w] = "syncspin_before" => tmp'[w] <= workers_at_barrier'
          /\ wpc'[w] = "syncspin_at" => tmp'[w] <= workers_before_barrier'
          /\ wpc'[w] = "contspin_before" => tmp'[w] <= done_work_before_barrier'
          /\ wpc'[w] = "contspin_done" => tmp'[w] >= workers_before_barrier'
      BY <1>0, <2>1, <2>2, <3>1
    <3>. QED
      BY <1>0, <2>1, <3>2, Frame DEF SyncInv, ReadInv
  <2>4. \A v \in Workers : Passed(v)' => Passed(v)
    BY <2>2, InSyncStep, Frame DEF Passed, Moving
  <2>5. AllStopped => AllStopped'
    BY <2>2, Frame DEF AllStopped, SpinPcs
  <2>. QED
    BY <1>1, <1>3, <2>3, <2>4, <2>5 DEF SyncInv, StoppedInv
<1>6. CASE SyncTest(w)
  <2>1. UNCHANGED << workers_before_barrier, done_work_before_barrier >>
    BY <1>6 DEF SyncTest, Read, sharedVars
  <2>2. /\ wpc[w] \in {"syncspin_before", "syncspin_at"}
        /\ wpc'[w] \in {"syncspin", "excl"}
    BY <1>6, <1>a DEF SyncTest, Read, Goto
  <2>3. ReadInv'
    BY <1>0, <2>1, <2>2, Frame DEF SyncInv, ReadInv
  <2>4. CASE wpc'[w] = "syncspin"
    <3>1. \A v \in Workers : Passed(v)' => Passed(v)
      BY <2>2, <2>4, InSyncStep, Frame DEF Passed, Moving
    <3>2. AllStopped => AllStopped'
      BY <2>4, Frame DEF AllStopped, SpinPcs
    <3>. QED
      BY <1>1, <1>3, <2>3, <3>1, <3>2 DEF SyncInv, StoppedInv
  <2>5. CASE wpc'[w] = "excl"
    <3>1. N \in Nat
      BY WorkersAssumption, FS_CardinalityType DEF N
    <3>2. \/ wpc[w] = "syncspin_before" /\ ~(N > tmp[w] + workers_before_barrier)
          \/ wpc[w] = "syncspin_at" /\ ~(N > tmp[w] + workers_at_barrier)
      BY <1>6, <1>a, <2>5 DEF SyncTest, Read, Goto
    <3>3. N <= workers_at_barrier + workers_before_barrier
      BY <1>a, <3>1, <3>2 DEF SyncInv, ReadInv
    <3>4. \A v \in Workers : wpc[v] = "parked" \/ wpc[v] \in BeforePcs
      BY <1>2, <3>3, AllCounted
    <3>5. \A v \in Workers : wpc[v] \notin {"contdone", "contbefore"}
      BY <1>3 DEF Passed, Moving, AllStopped, SpinPcs, ContSpinPcs, ContPcs
    <3>6. AllStopped'
      BY <2>5, <3>4, <3>5, Frame DEF AllStopped, BeforePcs, SpinPcs, ContSpinPcs
    <3>. QED
      BY <1>1, <2>3, <3>6 DEF SyncInv, StoppedInv
  <2>. QED
    BY <2>2, <2>4, <2>5
<1>7. CASE Continue(w)
  <2>1. /\ wpc[w] = "excl" /\ wpc'[w] = "contspin"
        /\ done_work_before_barrier' = done_work_before_barrier + 1
        /\ UNCHANGED << workers_before_barrier, tmp >>
    BY <1>7, <1>a DEF Continue, Goto
  <2>2. AllStopped
    BY <1>3, <2>1 DEF Passed
  <2>3. AllStopped'
    BY <2>1, <2>2, Frame DEF AllStopped, ContSpinPcs
  <2>4. \A v \in Workers : wpc[v] = "contspin_before" => tmp[v] <= done_work_before_barrier'
    <3>. SUFFICES ASSUME NEW v \in Workers, wpc[v] = "contspin_before"
                  PROVE  tmp[v] <= done_work_before_barrier'
      OBVIOUS
    <3>1. tmp[v] <= done_work_before_barrier /\ tmp[v] \in Nat
      BY <1>a DEF SyncInv, ReadInv
    <3>. QED
      BY <1>a, <2>1, <3>1
  <2>5. ReadInv'
    BY <1>0, <2>1, <2>4, Frame DEF SyncInv, ReadInv
  <2>. QED
    BY <1>1, <2>3, <2>5 DEF SyncInv, StoppedInv
<1>. QED
  BY <1>4, <1>5, <1>6, <1>7 DEF SpinStep

\* vlib_workers_continue: the first worker to leave its spin finds every
\* worker finished.
LEMMA ContinueSyncInv ==
  ASSUME IInv, SyncInv, wait_at_barrier, ~Draining, NEW w \in Workers, ContStep(w)
  PROVE  SyncInv'
<1>. SyncStep(w)
  BY DEF SyncStep
<1>a. /\ wpc \in [Workers -> WorkerPcs] /\ tmp \in [Workers -> Nat]
      /\ workers_before_barrier \in Nat /\ done_work_before_barrier \in Nat
  BY DEF IInv, TypeOK
<1>0. UNCHANGED workers_at_barrier
  BY DEF ContStep, ContinueRead, ContinueTest, ContinueDone, ContinueBefore, Read, sharedVars
<1>1. InSync'
  BY InSyncStep
<1>2. AllStopped
  BY Steps DEF SyncInv, StoppedInv, Passed, Moving
<1>3. Unfinished
  BY <1>2 DEF AllStopped, Unfinished, Draining, Finished, Moving, ContSpinPcs, ContPcs
<1>4. CASE ContinueRead(w)
  <2>1. UNCHANGED << workers_before_barrier, done_work_before_barrier >>
    BY <1>4 DEF ContinueRead, Read, sharedVars
  <2>2. /\ wpc[w] = "contspin"
        /\ \/ wpc'[w] = "contspin_before" /\ tmp'[w] = done_work_before_barrier
           \/ wpc'[w] = "contspin_done" /\ tmp'[w] = workers_before_barrier
    BY <1>4, <1>a DEF ContinueRead, Read, Goto
  <2>3. ReadInv'
    <3>1. tmp'[w] <= tmp'[w] /\ tmp'[w] >= tmp'[w]
      BY <1>a, <2>2
    <3>2. /\ wpc'[w] = "syncspin_before" => tmp'[w] <= workers_at_barrier'
          /\ wpc'[w] = "syncspin_at" => tmp'[w] <= workers_before_barrier'
          /\ wpc'[w] = "contspin_before" => tmp'[w] <= done_work_before_barrier'
          /\ wpc'[w] = "contspin_done" => tmp'[w] >= workers_before_barrier'
      BY <1>0, <2>1, <2>2, <3>1
    <3>. QED
      BY <1>0, <2>1, <3>2, Frame DEF SyncInv, ReadInv
  <2>4. AllStopped'
    BY <1>2, <2>2, Frame DEF AllStopped, ContSpinPcs
  <2>. QED
    BY <1>1, <2>3, <2>4 DEF SyncInv, StoppedInv
<1>5. CASE ContinueTest(w)
  <2>1. UNCHANGED << workers_before_barrier, done_work_before_barrier >>
    BY <1>5 DEF ContinueTest, Read, sharedVars
  <2>2. wpc'[w] = "contspin"
    <3>. SUFFICES ASSUME wpc'[w] # "contspin" PROVE FALSE
      OBVIOUS
    <3>1. \/ wpc[w] = "contspin_before" /\ ~(tmp[w] < workers_before_barrier)
          \/ wpc[w] = "contspin_done" /\ ~(done_work_before_barrier < tmp[w])
      BY <1>5, <1>a DEF ContinueTest, Read, Goto
    <3>2. done_work_before_barrier < workers_before_barrier
      BY <1>3, DoneLess
    <3>. QED
      BY <1>a, <3>1, <3>2 DEF SyncInv, ReadInv
  <2>3. ReadInv'
    BY <1>0, <2>1, <2>2, Frame DEF SyncInv, ReadInv
  <2>4. AllStopped'
    BY <1>2, <2>2, Frame DEF AllStopped, ContSpinPcs
  <2>. QED
    BY <1>1, <2>3, <2>4 DEF SyncInv, StoppedInv
<1>6. CASE ContinueDone(w) \/ ContinueBefore(w)
  <2>1. wpc[w] \in {"contdone", "contbefore"}
    BY <1>6 DEF ContinueDone, ContinueBefore
  <2>. QED
    BY <1>2, <2>1 DEF AllStopped, SpinPcs, ContSpinPcs
<1>. QED
  BY <1>4, <1>5, <1>6 DEF ContStep

-----------------------------------------------------------------------------

\* The exclusion of vlib_workers_sync, for any number of workers and of calls:
\* while a worker does its work, main has not got the barrier, and after its
\* first call in a loop iteration each other worker is stopped or between the
\* two calls itself; after a later one only workers move that
\* vlib_workers_continue has let go.
THEOREM SyncExclusion == SteadySpec => []SyncExclusive
<1>1. SteadyInit => SyncInv
  BY DEF SteadyInit, QuietInit, SyncInv, InSync, ReadInv, StoppedInv, Passed, Moving,
         SyncPcs, ContPcs, SpinPcs
<1>2. IInv /\ IInv' /\ SyncInv /\ [Next]_vars => SyncInv'
  <2>. SUFFICES ASSUME IInv, IInv', SyncInv, [Next]_vars PROVE SyncInv'
    OBVIOUS
  <2>1. CASE MainNext
    BY <2>1, MainSyncInv
  <2>2. ASSUME NEW w \in Workers, WorkerNext(w)
        PROVE  SyncInv'
    <3>1. ~(InitArrive(w) \/ InitUnpark(w) \/ InitLeave(w))
      BY DEF IInv, Started, InitPcs, InitArrive, InitUnpark, InitLeave
    <3>2. SyncStep(w)
      BY <2>2, <3>1 DEF WorkerNext, SyncStep, OutsideStep, EnterStep, SpinStep, ContStep
    <3>3. CASE ~wait_at_barrier
      BY <3>2, <3>3, OpenSyncInv
    <3>4. CASE wait_at_barrier /\ Draining
      BY <3>2, <3>4, DrainSyncInv
    <3>5. CASE wait_at_barrier /\ ~Draining
      BY <3>2, <3>5, OutsideSyncInv, EnterSyncInv, SpinSyncInv, ContinueSyncInv DEF SyncStep
    <3>. QED
      BY <3>3, <3>4, <3>5
  <2>3. CASE UNCHANGED vars
    BY <2>3 DEF SyncInv, InSync, ReadInv, StoppedInv, AllStopped, Draining, Finished, Passed,
           Moving, vars, sharedVars, mainVars, workerVars
  <2>. QED
    BY <2>1, <2>2, <2>3 DEF Next, Panicked
<1>3. IInv /\ SyncInv => SyncExclusive
  <2>. SUFFICES ASSUME IInv, SyncInv, NEW w \in Workers, wpc[w] = "excl"
                PROVE  /\ mpc \in {"closing", "panic"}
                       /\ \A v \in Workers \ {w} :
                             Stopped(v) \/ (syncs[w] > 1 /\ (syncs[v] > 0 \/ wpc[v] = "arrive"))
    BY DEF SyncExclusive
  <2>1. mpc \in {"closing", "panic"} /\ (AllStopped \/ Draining)
    BY DEF SyncInv, InSync, StoppedInv, Passed
  <2>2. AllStopped => \A v \in Workers : Stopped(v)
    BY DEF AllStopped, Stopped, SpinPcs, ContSpinPcs
  <2>3. \A v \in Workers : syncs[v] \in Nat
    BY BoundsAssumption DEF IInv, TypeOK
  <2>4. Draining => syncs[w] > 1
    BY DEF Draining, Finished, Moving, ContPcs
  <2>5. Draining => \A v \in Workers : Stopped(v) \/ syncs[v] > 0 \/ wpc[v] = "arrive"
    BY <2>3 DEF Draining, Finished, Moving, Stopped, SyncInv, InSync
  <2>. QED
    BY <2>1, <2>2, <2>4, <2>5
<1>. QED
  BY <1>1, <1>2, <1>3, Invariant, PTL DEF SteadySpec
=============================================================================
