------------------------ MODULE HostOperationProofs ------------------------
(***************************************************************************)
(* Theorems about HostOperation, for any operations, hosts, systems,       *)
(* changes and faults. The inductive invariant is OperationInv.            *)
(***************************************************************************)
EXTENDS HostOperation, TLAPS

\* The type of w.
Steps == {"idle", "client", "power", "setboot", "reset", "update"}
Reads == Object \cup {None}
Tries == 0..MaxRetries
Statuses == {Unset} \cup Terminal

Working ==
    [pc: Steps, op: Ops \cup {None}, read: Reads, todo: SUBSET Systems,
     system: Systems \cup {None}, try: Tries, status: Statuses]

\* The worker has read an operation that was not done and, while it deals
\* with a system, knows which; a PXE restart follows a boot override.
AtWork ==
    /\ w.pc = "idle" => w = Idle
    /\ w.pc # "idle" =>
          /\ w.op \in Ops /\ w.read \in Object /\ w.read.status = Unset
          /\ w.todo \subseteq MySystems
          /\ IF w.pc \in {"setboot", "reset"} THEN w.system \in MySystems
             ELSE w.system = None
    /\ w.pc = "setboot" => w.op \in Pxe
    /\ w.pc = "reset" /\ w.op \in Pxe => w.system \in armed
    /\ w.pc = "update" <=> w.status \in Terminal

\* A uid is never given twice.
Dated ==
    /\ \A o \in Ops :
          /\ obj[o] # None => obj[o].uid <= changes
          /\ seen[o] # None => seen[o].uid <= changes
    /\ w.pc # "idle" => w.read.uid <= changes

\* What the worker has ticked off has been restarted for the object it read.
TickedOff ==
    /\ w.pc \in {"power", "setboot", "reset"} /\ Mine =>
          MySystems \ w.todo \subseteq restarted[w.op]
    /\ w.pc = "update" /\ w.status = "success" /\ Mine =>
          MySystems # {} /\ MySystems \subseteq restarted[w.op]

\* Nobody has heard of operation o yet.
Unheard(o) == o \notin queue /\ o \notin timers /\ w.op # o /\ runs[o] = 0

\* The informer may lag behind the API server in two ways: it has not seen o
\* at all, or not yet that o is done. In neither case does anyone but the
\* informer have the name of o.
Lags(o) ==
    /\ obj[o] = None \/ seen[o] = None => seen[o] = None /\ Unheard(o)
    /\ seen[o] # None => obj[o] # None /\ seen[o].uid = obj[o].uid
    /\ seen[o] # obj[o] /\ seen[o] # None =>
          /\ obj[o].status \in Terminal /\ seen[o].status = Unset
          /\ o \notin queue /\ o \notin timers /\ w.op # o

\* The name of o is in one place at most. As long as o is not done and not
\* with the worker, it has not been executed.
InOnePlace(o) ==
    /\ w.op = o =>
          /\ o \notin queue /\ o \notin timers
          /\ seen[o] = obj[o] /\ obj[o] = w.read
          /\ w.pc = "client" => runs[o] = 0
    /\ ~(o \in queue /\ o \in timers)
    /\ obj[o] # None /\ obj[o].status = Unset /\ w.op # o => runs[o] = 0

Undisturbed == \A o \in Ops \ disturbed : Lags(o) /\ InOnePlace(o)

OperationInv ==
    /\ TypeOK
    /\ AtWork
    /\ Dated
    /\ TickedOff
    /\ Undisturbed
    /\ SuccessMeansAll
    /\ OnceUnlessDisturbed
    /\ OverrideUsedUp

-----------------------------------------------------------------------------
(* The type of the worker                                                    *)

\* A worker that has finished is typed.
LEMMA FinishTyped ==
    ASSUME w \in Working, NEW st \in Terminal, Finish(st)
    PROVE  w' \in Working
<1>1. "update" \in Steps /\ 0 \in Tries /\ st \in Statuses
  BY DEF Steps, Tries, Statuses, MaxRetries
<1> QED
  BY <1>1 DEF Working, Finish

\* A worker that tries again is typed: there are no more than MaxRetries turns.
LEMMA RetryTyped ==
    ASSUME w \in Working, Retry
    PROVE  w' \in Working
<1>1. CASE w.try < MaxRetries /\ w' = [w EXCEPT !.pc = "setboot", !.try = @ + 1]
  <2>1. "setboot" \in Steps
    BY DEF Steps
  <2>2. w.try + 1 \in Tries
    BY <1>1 DEF Tries, MaxRetries, Working
  <2> QED
    BY <1>1, <2>1, <2>2 DEF Working
<1>2. CASE Finish("failure")
  BY <1>2, FinishTyped DEF Terminal
<1> QED
  BY <1>1, <1>2 DEF Retry

\* Every step of the worker leaves it typed.
LEMMA WorkerTyped ==
    ASSUME OperationInv, WorkerNext
    PROVE  w' \in Working
<1>1. w \in Working
  BY DEF OperationInv, TypeOK, Working, Steps, Reads, Tries, Statuses
<1>2. CASE NewClient
  <2>1. CASE Finish("failure")
    BY <1>1, <2>1, FinishTyped DEF Terminal
  <2>2. CASE w' = [w EXCEPT !.pc = "power", !.todo = MySystems]
    <3>1. "power" \in Steps
      BY DEF Steps
    <3>2. MySystems \in SUBSET Systems
      BY <1>2, HostOperationAssumption DEF NewClient, OperationInv, AtWork, MySystems
    <3> QED
      BY <1>1, <2>2, <3>1, <3>2 DEF Working
  <2> QED
    BY <1>2, <2>1, <2>2 DEF NewClient
<1>3. CASE PowerDone \/ PowerFails
  BY <1>1, <1>3, FinishTyped DEF PowerDone, PowerFails, Terminal
<1>4. ASSUME NEW s \in Systems, PowerNext(s)
      PROVE  w' \in Working
  <2>1. "setboot" \in Steps /\ "reset" \in Steps /\ 1 \in Tries
    BY DEF Steps, Tries, MaxRetries
  <2> QED
    BY <1>1, <1>4, <2>1 DEF PowerNext, Working
<1>5. CASE SetBoot
  <2>1. "reset" \in Steps
    BY DEF Steps
  <2> QED
    BY <1>1, <1>5, <2>1, RetryTyped DEF SetBoot, Working
<1>6. CASE Reset
  <2>1. "power" \in Steps /\ 0 \in Tries
    BY DEF Steps, Tries, MaxRetries
  <2>2. w' = [w EXCEPT !.pc = "power", !.todo = @ \ {w.system}, !.system = None,
     !.try = 0]
            => w' \in Working
    BY ZenonT(60), <1>1, <2>1 DEF Working
  <2> QED
    BY <1>1, <1>6, <2>2, FinishTyped, RetryTyped DEF Reset, Terminal
<1>7. CASE UpdateStatus \/ UpdateConflict \/ UpdateFails
  <2>1. "idle" \in Steps /\ 0 \in Tries /\ Unset \in Statuses /\ None \in Reads
    BY DEF Steps, Tries, MaxRetries, Statuses, Reads
  <2> QED
    BY <1>7, <2>1 DEF UpdateStatus, UpdateConflict, UpdateFails, Failed, Idle, Working
<1> QED
  BY <1>2, <1>3, <1>4, <1>5, <1>6, <1>7 DEF WorkerNext

-----------------------------------------------------------------------------
(* Every step keeps the invariant                                            *)

\* Users create operations under a new uid, and a name they have deleted
\* counts as disturbed.
LEMMA UsersKeepInv ==
    ASSUME OperationInv, NEW o \in Ops, CreateOp(o) \/ DeleteOp(o)
    PROVE  OperationInv'
<1> USE HostOperationAssumption
      DEF OperationInv, TypeOK, Idle, Unset, Object, Terminal, MaxRetries
<1>1. CASE CreateOp(o)
  <2>1. TypeOK'
    BY <1>1 DEF CreateOp, UserChange, ctlVars
  <2>2. Dated'
    BY <1>1, <2>1 DEF CreateOp, UserChange, ctlVars, Dated, AtWork
  <2>3. TickedOff'
    BY <1>1, <2>1 DEF CreateOp, UserChange, ctlVars, TickedOff, Mine, MySystems, Dated
  <2>4. Undisturbed'
    <3>1. SUFFICES ASSUME NEW p \in Ops \ disturbed'
            PROVE  Lags(p)' /\ InOnePlace(p)'
      BY DEF Undisturbed
    <3>2. Lags(p) /\ InOnePlace(p)
      BY <1>1 DEF CreateOp, UserChange, ctlVars, Undisturbed
    <3>3. Lags(p)'
      BY <1>1, <2>1, <3>2 DEF CreateOp, UserChange, ctlVars, Lags, Unheard
    <3>4. InOnePlace(p)'
      BY <1>1, <2>1, <3>2 DEF CreateOp, UserChange, ctlVars, InOnePlace, Lags, Unheard
    <3> QED
      BY <3>3, <3>4
  <2>5. SuccessMeansAll'
    BY <1>1, <2>1 DEF CreateOp, UserChange, ctlVars, SuccessMeansAll
  <2>6. OnceUnlessDisturbed'
    BY <1>1, <2>1 DEF CreateOp, UserChange, ctlVars, OnceUnlessDisturbed
  <2>7. AtWork' /\ OverrideUsedUp'
    BY <1>1 DEF CreateOp, UserChange, ctlVars, AtWork, MySystems, OverrideUsedUp
  <2> QED
    BY <2>1, <2>2, <2>3, <2>4, <2>5, <2>6, <2>7 DEF OperationInv
<1>2. CASE DeleteOp(o)
  <2>1. TypeOK'
    BY <1>2 DEF DeleteOp, UserChange, Disturb, ctlVars
  <2>2. Dated'
    BY <1>2, <2>1 DEF DeleteOp, UserChange, Disturb, ctlVars, Dated, AtWork
  <2>3. TickedOff'
    BY <1>2, <2>1 DEF DeleteOp, UserChange, Disturb, ctlVars, TickedOff, Mine, MySystems
  <2>4. Undisturbed'
    <3>1. SUFFICES ASSUME NEW p \in Ops \ disturbed'
            PROVE  Lags(p)' /\ InOnePlace(p)'
      BY DEF Undisturbed
    <3>2. Lags(p) /\ InOnePlace(p)
      BY <1>2 DEF DeleteOp, UserChange, Disturb, ctlVars, Undisturbed
    <3>3. Lags(p)'
      BY <1>2, <2>1, <3>2 DEF DeleteOp, UserChange, Disturb, ctlVars, Lags, Unheard
    <3>4. InOnePlace(p)'
      BY <1>2, <2>1, <3>2 DEF DeleteOp, UserChange, Disturb, ctlVars, InOnePlace, Lags,
         Unheard
    <3> QED
      BY <3>3, <3>4
  <2>5. SuccessMeansAll'
    BY <1>2, <2>1 DEF DeleteOp, UserChange, Disturb, ctlVars, SuccessMeansAll
  <2>6. OnceUnlessDisturbed'
    BY <1>2, <2>1 DEF DeleteOp, UserChange, Disturb, ctlVars, OnceUnlessDisturbed
  <2>7. AtWork' /\ OverrideUsedUp'
    BY <1>2 DEF DeleteOp, UserChange, Disturb, ctlVars, AtWork, MySystems,
       OverrideUsedUp
  <2> QED
    BY <2>1, <2>2, <2>3, <2>4, <2>5, <2>6, <2>7 DEF OperationInv
<1> QED
  BY <1>1, <1>2

\* RedfishStatus objects and their cache are independent of the operations.
LEMMA HostsKeepInv ==
    ASSUME OperationInv, NEW h \in Hosts,
           \/ \E v \in {"absent", "unhealthy", "healthy"} : RedfishStatusChanges(h, v)
           \/ CacheAdd(h) \/ CacheDelete(h)
    PROVE  OperationInv'
<1> USE HostOperationAssumption
      DEF OperationInv, TypeOK, Idle, Unset, Object, Terminal, MaxRetries
<1>1. CASE \E v \in {"absent", "unhealthy", "healthy"} : RedfishStatusChanges(h, v)
  <2>1. TypeOK'
    BY <1>1 DEF RedfishStatusChanges, UserChange, ctlVars, history
  <2>2. Dated'
    BY <1>1, <2>1 DEF RedfishStatusChanges, UserChange, ctlVars, history, Dated, AtWork
  <2>3. AtWork' /\ TickedOff' /\ Undisturbed' /\ SuccessMeansAll' /\
     OnceUnlessDisturbed' /\ OverrideUsedUp'
    BY <1>1 DEF RedfishStatusChanges, UserChange, ctlVars, history, AtWork, MySystems,
       TickedOff, Mine, Undisturbed, Lags, InOnePlace, Unheard, SuccessMeansAll,
       OnceUnlessDisturbed, OverrideUsedUp
  <2> QED
    BY <2>1, <2>2, <2>3 DEF OperationInv
<1>2. CASE CacheAdd(h)
  <2>1. TypeOK'
    BY <1>2 DEF CacheAdd, apiVars, history
  <2>2. AtWork' /\ Dated' /\ TickedOff' /\ Undisturbed' /\ SuccessMeansAll' /\
     OnceUnlessDisturbed' /\ OverrideUsedUp'
    BY <1>2 DEF CacheAdd, apiVars, history, AtWork, MySystems, Dated, TickedOff, Mine,
       Undisturbed, Lags, InOnePlace, Unheard, SuccessMeansAll, OnceUnlessDisturbed,
       OverrideUsedUp
  <2> QED
    BY <2>1, <2>2 DEF OperationInv
<1>3. CASE CacheDelete(h)
  <2>1. TypeOK'
    BY <1>3 DEF CacheDelete, apiVars, history
  <2>2. AtWork' /\ Dated' /\ TickedOff' /\ Undisturbed' /\ SuccessMeansAll' /\
     OnceUnlessDisturbed' /\ OverrideUsedUp'
    BY <1>3 DEF CacheDelete, apiVars, history, AtWork, MySystems, Dated, TickedOff,
       Mine, Undisturbed, Lags, InOnePlace, Unheard, SuccessMeansAll,
       OnceUnlessDisturbed, OverrideUsedUp
  <2> QED
    BY <2>1, <2>2 DEF OperationInv
<1> QED
  BY <1>1, <1>2, <1>3

\* The informer and the delays pass names on.
LEMMA InformerKeepsInv ==
    ASSUME OperationInv, NEW o \in Ops, InformerSync(o) \/ Resync(o) \/ TimerFires(o)
    PROVE  OperationInv'
<1> USE HostOperationAssumption
      DEF OperationInv, TypeOK, Idle, Unset, Object, Terminal, MaxRetries
<1>1. CASE InformerSync(o)
  <2>1. TypeOK'
    BY <1>1 DEF InformerSync, apiVars, history
  <2>2. Dated'
    BY <1>1, <2>1 DEF InformerSync, apiVars, history, Dated
  <2>3. Undisturbed'
    <3>1. SUFFICES ASSUME NEW p \in Ops \ disturbed'
            PROVE  Lags(p)' /\ InOnePlace(p)'
      BY DEF Undisturbed
    <3>2. Lags(p) /\ InOnePlace(p)
      BY <1>1 DEF InformerSync, apiVars, history, Undisturbed
    <3>3. Lags(p)'
      BY <1>1, <2>1, <3>2 DEF InformerSync, apiVars, history, Lags, Unheard
    <3>4. InOnePlace(p)'
      BY <1>1, <2>1, <3>2 DEF InformerSync, apiVars, history, InOnePlace, Lags, Unheard
    <3> QED
      BY <3>3, <3>4
  <2>4. AtWork' /\ TickedOff' /\ SuccessMeansAll' /\ OnceUnlessDisturbed' /\
     OverrideUsedUp'
    BY <1>1 DEF InformerSync, apiVars, history, AtWork, MySystems, TickedOff, Mine,
       SuccessMeansAll, OnceUnlessDisturbed, OverrideUsedUp
  <2> QED
    BY <2>1, <2>2, <2>3, <2>4 DEF OperationInv
<1>2. CASE Resync(o)
  <2>1. TypeOK'
    BY <1>2 DEF Resync, Fault, Disturb, apiVars
  <2>2. Undisturbed'
    <3>1. SUFFICES ASSUME NEW p \in Ops \ disturbed'
            PROVE  Lags(p)' /\ InOnePlace(p)'
      BY DEF Undisturbed
    <3>2. Lags(p) /\ InOnePlace(p)
      BY <1>2 DEF Resync, Fault, Disturb, apiVars, Undisturbed
    <3>3. Lags(p)'
      BY <1>2, <2>1, <3>2 DEF Resync, Fault, Disturb, apiVars, Lags, Unheard
    <3>4. InOnePlace(p)'
      BY <1>2, <2>1, <3>2 DEF Resync, Fault, Disturb, apiVars, InOnePlace, Lags, Unheard
    <3> QED
      BY <3>3, <3>4
  <2>3. OnceUnlessDisturbed'
    BY <1>2, <2>1 DEF Resync, Fault, Disturb, apiVars, OnceUnlessDisturbed
  <2>4. AtWork' /\ Dated' /\ TickedOff' /\ SuccessMeansAll' /\ OverrideUsedUp'
    BY <1>2 DEF Resync, Fault, Disturb, apiVars, AtWork, MySystems, Dated, TickedOff,
       Mine, SuccessMeansAll, OverrideUsedUp
  <2> QED
    BY <2>1, <2>2, <2>3, <2>4 DEF OperationInv
<1>3. CASE TimerFires(o)
  <2>1. TypeOK'
    BY <1>3 DEF TimerFires, apiVars, history
  <2>2. Undisturbed'
    <3>1. SUFFICES ASSUME NEW p \in Ops \ disturbed'
            PROVE  Lags(p)' /\ InOnePlace(p)'
      BY DEF Undisturbed
    <3>2. Lags(p) /\ InOnePlace(p)
      BY <1>3 DEF TimerFires, apiVars, history, Undisturbed
    <3>3. Lags(p)'
      BY <1>3, <2>1, <3>2 DEF TimerFires, apiVars, history, Lags, Unheard
    <3>4. InOnePlace(p)'
      BY <1>3, <2>1, <3>2 DEF TimerFires, apiVars, history, InOnePlace, Lags, Unheard
    <3> QED
      BY <3>3, <3>4
  <2>3. AtWork' /\ Dated' /\ TickedOff' /\ SuccessMeansAll' /\ OnceUnlessDisturbed' /\
     OverrideUsedUp'
    BY <1>3 DEF TimerFires, apiVars, history, AtWork, MySystems, Dated, TickedOff, Mine,
       SuccessMeansAll, OnceUnlessDisturbed, OverrideUsedUp
  <2> QED
    BY <2>1, <2>2, <2>3 DEF OperationInv
<1> QED
  BY <1>1, <1>2, <1>3

\* Reconcile starts an operation that is not done only.
LEMMA ReconcileKeepsInv ==
    ASSUME OperationInv, NEW o \in Ops, ReconcileNext(o)
    PROVE  OperationInv'
<1> USE HostOperationAssumption
      DEF OperationInv, TypeOK, Idle, Unset, Object, Terminal, MaxRetries
<1>1. CASE ReconcileGone(o)
  <2>1. TypeOK'
    BY <1>1 DEF ReconcileGone, Take, apiVars, history
  <2>2. Undisturbed'
    <3>1. SUFFICES ASSUME NEW p \in Ops \ disturbed'
            PROVE  Lags(p)' /\ InOnePlace(p)'
      BY DEF Undisturbed
    <3>2. Lags(p) /\ InOnePlace(p)
      BY <1>1 DEF ReconcileGone, Take, apiVars, history, Undisturbed
    <3>3. Lags(p)'
      BY <1>1, <2>1, <3>2 DEF ReconcileGone, Take, apiVars, history, Lags, Unheard
    <3>4. InOnePlace(p)'
      BY <1>1, <2>1, <3>2 DEF ReconcileGone, Take, apiVars, history, InOnePlace, Lags,
         Unheard
    <3> QED
      BY <3>3, <3>4
  <2>3. AtWork' /\ Dated' /\ TickedOff' /\ SuccessMeansAll' /\ OnceUnlessDisturbed' /\
     OverrideUsedUp'
    BY <1>1 DEF ReconcileGone, Take, apiVars, history, AtWork, MySystems, Dated,
       TickedOff, Mine, SuccessMeansAll, OnceUnlessDisturbed, OverrideUsedUp
  <2> QED
    BY <2>1, <2>2, <2>3 DEF OperationInv
<1>2. CASE ReconcileNoRedfish(o)
  <2>1. TypeOK'
    BY <1>2 DEF ReconcileNoRedfish, Take, apiVars, history
  <2>2. Undisturbed'
    <3>1. SUFFICES ASSUME NEW p \in Ops \ disturbed'
            PROVE  Lags(p)' /\ InOnePlace(p)'
      BY DEF Undisturbed
    <3>2. Lags(p) /\ InOnePlace(p)
      BY <1>2 DEF ReconcileNoRedfish, Take, apiVars, history, Undisturbed
    <3>3. Lags(p)'
      BY <1>2, <2>1, <3>2 DEF ReconcileNoRedfish, Take, apiVars, history, Lags, Unheard
    <3>4. InOnePlace(p)'
      BY <1>2, <2>1, <3>2 DEF ReconcileNoRedfish, Take, apiVars, history, InOnePlace,
         Lags, Unheard
    <3> QED
      BY <3>3, <3>4
  <2>3. AtWork' /\ Dated' /\ TickedOff' /\ SuccessMeansAll' /\ OnceUnlessDisturbed' /\
     OverrideUsedUp'
    BY <1>2 DEF ReconcileNoRedfish, Take, apiVars, history, AtWork, MySystems, Dated,
       TickedOff, Mine, SuccessMeansAll, OnceUnlessDisturbed, OverrideUsedUp
  <2> QED
    BY <2>1, <2>2, <2>3 DEF OperationInv
<1>3. CASE ReconcileProcessed(o)
  <2>1. TypeOK'
    BY <1>3 DEF ReconcileProcessed, Take, Present, apiVars, history
  <2>2. Undisturbed'
    <3>1. SUFFICES ASSUME NEW p \in Ops \ disturbed'
            PROVE  Lags(p)' /\ InOnePlace(p)'
      BY DEF Undisturbed
    <3>2. Lags(p) /\ InOnePlace(p)
      BY <1>3 DEF ReconcileProcessed, Take, Present, apiVars, history, Undisturbed
    <3>3. Lags(p)'
      BY <1>3, <2>1, <3>2 DEF ReconcileProcessed, Take, Present, apiVars, history, Lags,
         Unheard
    <3>4. InOnePlace(p)'
      BY <1>3, <2>1, <3>2 DEF ReconcileProcessed, Take, Present, apiVars, history,
         InOnePlace, Lags, Unheard
    <3> QED
      BY <3>3, <3>4
  <2>3. AtWork' /\ Dated' /\ TickedOff' /\ SuccessMeansAll' /\ OnceUnlessDisturbed' /\
     OverrideUsedUp'
    BY <1>3 DEF ReconcileProcessed, Take, Present, apiVars, history, AtWork, MySystems,
       Dated, TickedOff, Mine, SuccessMeansAll, OnceUnlessDisturbed, OverrideUsedUp
  <2> QED
    BY <2>1, <2>2, <2>3 DEF OperationInv
<1>4. CASE ReconcileNotCached(o)
  <2>1. TypeOK'
    BY <1>4 DEF ReconcileNotCached, Take, Present, apiVars, history
  <2>2. Undisturbed'
    <3>1. SUFFICES ASSUME NEW p \in Ops \ disturbed'
            PROVE  Lags(p)' /\ InOnePlace(p)'
      BY DEF Undisturbed
    <3>2. Lags(p) /\ InOnePlace(p)
      BY <1>4 DEF ReconcileNotCached, Take, Present, apiVars, history, Undisturbed
    <3>3. Lags(p)'
      BY <1>4, <2>1, <3>2 DEF ReconcileNotCached, Take, Present, apiVars, history, Lags,
         Unheard
    <3>4. InOnePlace(p)'
      BY <1>4, <2>1, <3>2 DEF ReconcileNotCached, Take, Present, apiVars, history,
         InOnePlace, Lags, Unheard
    <3> QED
      BY <3>3, <3>4
  <2>3. AtWork' /\ Dated' /\ TickedOff' /\ SuccessMeansAll' /\ OnceUnlessDisturbed' /\
     OverrideUsedUp'
    BY <1>4 DEF ReconcileNotCached, Take, Present, apiVars, history, AtWork, MySystems,
       Dated, TickedOff, Mine, SuccessMeansAll, OnceUnlessDisturbed, OverrideUsedUp
  <2> QED
    BY <2>1, <2>2, <2>3 DEF OperationInv
<1>5. CASE ReconcileStart(o)
  <2>1. TypeOK'
    BY <1>5 DEF ReconcileStart, Take, Present, apiVars, history
  <2>2. AtWork'
    BY <1>5, <2>1 DEF ReconcileStart, Take, Present, apiVars, history, AtWork, MySystems
  <2>3. Dated'
    BY <1>5, <2>1 DEF ReconcileStart, Take, Present, apiVars, history, Dated
  <2>4. TickedOff'
    BY <1>5, <2>1 DEF ReconcileStart, Take, Present, apiVars, history, TickedOff, Mine,
       MySystems
  <2>5. Undisturbed'
    <3>1. SUFFICES ASSUME NEW p \in Ops \ disturbed'
            PROVE  Lags(p)' /\ InOnePlace(p)'
      BY DEF Undisturbed
    <3>2. Lags(p) /\ InOnePlace(p)
      BY <1>5 DEF ReconcileStart, Take, Present, apiVars, history, Undisturbed
    <3>3. Lags(p)'
      BY <1>5, <2>1, <3>2 DEF ReconcileStart, Take, Present, apiVars, history, Lags,
         Unheard
    <3>4. InOnePlace(p)'
      BY <1>5, <2>1, <3>2 DEF ReconcileStart, Take, Present, apiVars, history,
         InOnePlace, Lags, Unheard
    <3> QED
      BY <3>3, <3>4
  <2>6. OverrideUsedUp'
    BY <1>5, <2>1 DEF ReconcileStart, Take, Present, apiVars, history, OverrideUsedUp
  <2>7. SuccessMeansAll' /\ OnceUnlessDisturbed'
    BY <1>5 DEF ReconcileStart, Take, Present, apiVars, history, SuccessMeansAll,
       OnceUnlessDisturbed
  <2> QED
    BY <2>1, <2>2, <2>3, <2>4, <2>5, <2>6, <2>7 DEF OperationInv
<1> QED
  BY <1>1, <1>2, <1>3, <1>4, <1>5 DEF ReconcileNext

\* Power goes through the systems one by one.
LEMMA PowerKeepsInv ==
    ASSUME OperationInv, WorkerNext /\ w.pc # "update", w' \in Working
    PROVE  OperationInv'
<1> USE HostOperationAssumption
      DEF OperationInv, TypeOK, Idle, Unset, Object, Terminal, MaxRetries
<1>1. ASSUME NewClient
      PROVE  OperationInv'
  <2>0. w.pc = "client" /\ InPower /\ UNCHANGED <<armed, restarted>>
    BY <1>1 DEF NewClient
  <2>1. CASE /\ w' = [w EXCEPT !.pc = "power", !.todo = MySystems]
             /\ runs' = IF Mine /\ runs[w.op] < 2 THEN [runs EXCEPT ![w.op] = @ + 1] ELSE runs
             /\ UNCHANGED troubled
    <3>1. TypeOK'
      <4>1. runs' \in [Ops -> 0..2]
        BY <2>0, <2>1 DEF InPower, apiVars, AtWork, MySystems
      <4> QED
        BY <2>0, <2>1, <4>1 DEF InPower, apiVars, Working, Steps, Reads, Tries, Statuses
    <3>2. AtWork'
      BY <2>0, <2>1, <3>1 DEF InPower, apiVars, AtWork, MySystems
    <3>3. Dated'
      BY <2>0, <2>1, <3>1 DEF InPower, apiVars, Dated
    <3>4. TickedOff'
      BY <2>0, <2>1, <3>1 DEF InPower, apiVars, TickedOff, Mine, MySystems
    <3>5. Undisturbed'
      <4>1. SUFFICES ASSUME NEW p \in Ops \ disturbed'
              PROVE  Lags(p)' /\ InOnePlace(p)'
        BY DEF Undisturbed
      <4>2. Lags(p) /\ InOnePlace(p)
        BY <2>0, <2>1 DEF InPower, apiVars, Undisturbed
      <4>3. Lags(p)'
        BY <2>0, <2>1, <3>1, <4>2 DEF InPower, apiVars, Lags, Unheard
      <4>4. InOnePlace(p)'
        BY <2>0, <2>1, <3>1, <4>2 DEF InPower, apiVars, InOnePlace, Lags, Unheard
      <4> QED
        BY <4>3, <4>4
    <3>6. OnceUnlessDisturbed'
      BY <2>0, <2>1, <3>1 DEF InPower, apiVars, OnceUnlessDisturbed, Undisturbed,
         InOnePlace
    <3>7. OverrideUsedUp'
      BY <2>0, <2>1, <3>1 DEF InPower, apiVars, OverrideUsedUp
    <3>8. SuccessMeansAll'
      BY <2>0, <2>1 DEF InPower, apiVars, SuccessMeansAll
    <3> QED
      BY <3>1, <3>2, <3>3, <3>4, <3>5, <3>6, <3>7, <3>8 DEF OperationInv
  <2>2. CASE Finish("failure") /\ UNCHANGED runs
    <3>1. TypeOK'
      <4>1. troubled' \subseteq Systems
        BY <2>0, <2>2 DEF Finish, InPower, apiVars, AtWork, MySystems
      <4> QED
        BY <2>0, <2>2, <4>1 DEF Finish, InPower, apiVars, Working, Steps, Reads, Tries,
           Statuses
    <3>2. AtWork'
      BY <2>0, <2>2, <3>1 DEF Finish, InPower, apiVars, AtWork, MySystems
    <3>3. Dated'
      BY <2>0, <2>2, <3>1 DEF Finish, InPower, apiVars, Dated
    <3>4. TickedOff'
      BY <2>0, <2>2, <3>1 DEF Finish, InPower, apiVars, TickedOff, Mine, MySystems
    <3>5. Undisturbed'
      <4>1. SUFFICES ASSUME NEW p \in Ops \ disturbed'
              PROVE  Lags(p)' /\ InOnePlace(p)'
        BY DEF Undisturbed
      <4>2. Lags(p) /\ InOnePlace(p)
        BY <2>0, <2>2 DEF Finish, InPower, apiVars, Undisturbed
      <4>3. Lags(p)'
        BY <2>0, <2>2, <3>1, <4>2 DEF Finish, InPower, apiVars, Lags, Unheard
      <4>4. InOnePlace(p)'
        BY <2>0, <2>2, <3>1, <4>2 DEF Finish, InPower, apiVars, InOnePlace, Lags,
           Unheard
      <4> QED
        BY <4>3, <4>4
    <3>6. OverrideUsedUp'
      BY <2>0, <2>2, <3>1 DEF Finish, InPower, apiVars, OverrideUsedUp, AtWork
    <3>7. SuccessMeansAll' /\ OnceUnlessDisturbed'
      BY <2>0, <2>2 DEF Finish, InPower, apiVars, SuccessMeansAll, OnceUnlessDisturbed
    <3> QED
      BY <3>1, <3>2, <3>3, <3>4, <3>5, <3>6, <3>7 DEF OperationInv
  <2> QED
    BY <1>1, <2>1, <2>2 DEF NewClient
<1>2. ASSUME PowerDone
      PROVE  OperationInv'
  <2>1. TypeOK'
    <3>1. troubled' \subseteq Systems
      BY <1>2 DEF PowerDone, Finish, InPower, apiVars, AtWork, MySystems
    <3> QED
      BY <1>2, <3>1 DEF PowerDone, Finish, InPower, apiVars, Working, Steps, Reads,
         Tries, Statuses
  <2>2. AtWork'
    BY <1>2, <2>1 DEF PowerDone, Finish, InPower, apiVars, AtWork, MySystems
  <2>3. Dated'
    BY <1>2, <2>1 DEF PowerDone, Finish, InPower, apiVars, Dated
  <2>4. TickedOff'
    BY <1>2, <2>1 DEF PowerDone, Finish, InPower, apiVars, TickedOff, Mine, MySystems
  <2>5. Undisturbed'
    <3>1. SUFFICES ASSUME NEW p \in Ops \ disturbed'
            PROVE  Lags(p)' /\ InOnePlace(p)'
      BY DEF Undisturbed
    <3>2. Lags(p) /\ InOnePlace(p)
      BY <1>2 DEF PowerDone, Finish, InPower, apiVars, Undisturbed
    <3>3. Lags(p)'
      BY <1>2, <2>1, <3>2 DEF PowerDone, Finish, InPower, apiVars, Lags, Unheard
    <3>4. InOnePlace(p)'
      BY <1>2, <2>1, <3>2 DEF PowerDone, Finish, InPower, apiVars, InOnePlace, Lags,
         Unheard
    <3> QED
      BY <3>3, <3>4
  <2>6. OverrideUsedUp'
    BY <1>2, <2>1 DEF PowerDone, Finish, InPower, apiVars, OverrideUsedUp, AtWork
  <2>7. SuccessMeansAll' /\ OnceUnlessDisturbed'
    BY <1>2 DEF PowerDone, Finish, InPower, apiVars, SuccessMeansAll,
       OnceUnlessDisturbed
  <2> QED
    BY <2>1, <2>2, <2>3, <2>4, <2>5, <2>6, <2>7 DEF OperationInv
<1>3. ASSUME PowerFails
      PROVE  OperationInv'
  <2>1. TypeOK'
    <3>1. troubled' \subseteq Systems
      BY <1>3 DEF PowerFails, Finish, InPower, apiVars, AtWork, MySystems
    <3> QED
      BY <1>3, <3>1 DEF PowerFails, Finish, InPower, apiVars, Working, Steps, Reads,
         Tries, Statuses
  <2>2. AtWork'
    BY <1>3, <2>1 DEF PowerFails, Finish, InPower, apiVars, AtWork, MySystems
  <2>3. Dated'
    BY <1>3, <2>1 DEF PowerFails, Finish, InPower, apiVars, Dated
  <2>4. TickedOff'
    BY <1>3, <2>1 DEF PowerFails, Finish, InPower, apiVars, TickedOff, Mine, MySystems
  <2>5. Undisturbed'
    <3>1. SUFFICES ASSUME NEW p \in Ops \ disturbed'
            PROVE  Lags(p)' /\ InOnePlace(p)'
      BY DEF Undisturbed
    <3>2. Lags(p) /\ InOnePlace(p)
      BY <1>3 DEF PowerFails, Finish, InPower, apiVars, Undisturbed
    <3>3. Lags(p)'
      BY <1>3, <2>1, <3>2 DEF PowerFails, Finish, InPower, apiVars, Lags, Unheard
    <3>4. InOnePlace(p)'
      BY <1>3, <2>1, <3>2 DEF PowerFails, Finish, InPower, apiVars, InOnePlace, Lags,
         Unheard
    <3> QED
      BY <3>3, <3>4
  <2>6. OverrideUsedUp'
    BY <1>3, <2>1 DEF PowerFails, Finish, InPower, apiVars, OverrideUsedUp, AtWork
  <2>7. SuccessMeansAll' /\ OnceUnlessDisturbed'
    BY <1>3 DEF PowerFails, Finish, InPower, apiVars, SuccessMeansAll,
       OnceUnlessDisturbed
  <2> QED
    BY <2>1, <2>2, <2>3, <2>4, <2>5, <2>6, <2>7 DEF OperationInv
<1>4. ASSUME NEW s \in Systems, PowerNext(s)
      PROVE  OperationInv'
  <2>1. TypeOK'
    <3> QED
      BY <1>4 DEF PowerNext, InPower, apiVars, Working, Steps, Reads, Tries, Statuses
  <2>2. AtWork'
    BY <1>4, <2>1 DEF PowerNext, InPower, apiVars, AtWork, MySystems
  <2>3. Dated'
    BY <1>4, <2>1 DEF PowerNext, InPower, apiVars, Dated
  <2>4. TickedOff'
    BY <1>4, <2>1 DEF PowerNext, InPower, apiVars, TickedOff, Mine, MySystems
  <2>5. Undisturbed'
    <3>1. SUFFICES ASSUME NEW p \in Ops \ disturbed'
            PROVE  Lags(p)' /\ InOnePlace(p)'
      BY DEF Undisturbed
    <3>2. Lags(p) /\ InOnePlace(p)
      BY <1>4 DEF PowerNext, InPower, apiVars, Undisturbed
    <3>3. Lags(p)'
      BY <1>4, <2>1, <3>2 DEF PowerNext, InPower, apiVars, Lags, Unheard
    <3>4. InOnePlace(p)'
      BY <1>4, <2>1, <3>2 DEF PowerNext, InPower, apiVars, InOnePlace, Lags, Unheard
    <3> QED
      BY <3>3, <3>4
  <2>6. OverrideUsedUp'
    BY <1>4, <2>1 DEF PowerNext, InPower, apiVars, OverrideUsedUp, AtWork
  <2>7. SuccessMeansAll' /\ OnceUnlessDisturbed'
    BY <1>4 DEF PowerNext, InPower, apiVars, SuccessMeansAll, OnceUnlessDisturbed
  <2> QED
    BY <2>1, <2>2, <2>3, <2>4, <2>5, <2>6, <2>7 DEF OperationInv
<1>5. ASSUME SetBoot
      PROVE  OperationInv'
  <2>0. w.pc = "setboot" /\ InPower /\ UNCHANGED <<runs, restarted>>
    BY <1>5 DEF SetBoot
  <2>1. CASE /\ armed' = armed \cup {w.system}
             /\ w' = [w EXCEPT !.pc = "reset"]
             /\ UNCHANGED troubled
    <3>1. TypeOK'
      <4>1. armed' \subseteq Systems
        BY <2>0, <2>1 DEF InPower, apiVars, AtWork, MySystems
      <4> QED
        BY <2>0, <2>1, <4>1 DEF InPower, apiVars, Working, Steps, Reads, Tries, Statuses
    <3>2. AtWork'
      BY <2>0, <2>1, <3>1 DEF InPower, apiVars, AtWork, MySystems
    <3>3. Dated'
      BY <2>0, <2>1, <3>1 DEF InPower, apiVars, Dated
    <3>4. TickedOff'
      BY <2>0, <2>1, <3>1 DEF InPower, apiVars, TickedOff, Mine, MySystems
    <3>5. Undisturbed'
      <4>1. SUFFICES ASSUME NEW p \in Ops \ disturbed'
              PROVE  Lags(p)' /\ InOnePlace(p)'
        BY DEF Undisturbed
      <4>2. Lags(p) /\ InOnePlace(p)
        BY <2>0, <2>1 DEF InPower, apiVars, Undisturbed
      <4>3. Lags(p)'
        BY <2>0, <2>1, <3>1, <4>2 DEF InPower, apiVars, Lags, Unheard
      <4>4. InOnePlace(p)'
        BY <2>0, <2>1, <3>1, <4>2 DEF InPower, apiVars, InOnePlace, Lags, Unheard
      <4> QED
        BY <4>3, <4>4
    <3>6. OverrideUsedUp'
      BY <2>0, <2>1, <3>1 DEF InPower, apiVars, OverrideUsedUp, AtWork
    <3>7. SuccessMeansAll' /\ OnceUnlessDisturbed'
      BY <2>0, <2>1 DEF InPower, apiVars, SuccessMeansAll, OnceUnlessDisturbed
    <3> QED
      BY <3>1, <3>2, <3>3, <3>4, <3>5, <3>6, <3>7 DEF OperationInv
  <2>2. CASE /\ armed' \in {armed, armed \cup {w.system}}
             /\ w.try < MaxRetries
             /\ w' = [w EXCEPT !.pc = "setboot", !.try = @ + 1]
             /\ UNCHANGED troubled
    <3>1. TypeOK'
      <4>1. armed' \subseteq Systems
        BY <2>0, <2>2 DEF InPower, apiVars, AtWork, MySystems
      <4> QED
        BY <2>0, <2>2, <4>1 DEF InPower, apiVars, Working, Steps, Reads, Tries, Statuses
    <3>2. AtWork'
      BY <2>0, <2>2, <3>1 DEF InPower, apiVars, AtWork, MySystems
    <3>3. Dated'
      BY <2>0, <2>2, <3>1 DEF InPower, apiVars, Dated
    <3>4. TickedOff'
      BY <2>0, <2>2, <3>1 DEF InPower, apiVars, TickedOff, Mine, MySystems
    <3>5. Undisturbed'
      <4>1. SUFFICES ASSUME NEW p \in Ops \ disturbed'
              PROVE  Lags(p)' /\ InOnePlace(p)'
        BY DEF Undisturbed
      <4>2. Lags(p) /\ InOnePlace(p)
        BY <2>0, <2>2 DEF InPower, apiVars, Undisturbed
      <4>3. Lags(p)'
        BY <2>0, <2>2, <3>1, <4>2 DEF InPower, apiVars, Lags, Unheard
      <4>4. InOnePlace(p)'
        BY <2>0, <2>2, <3>1, <4>2 DEF InPower, apiVars, InOnePlace, Lags, Unheard
      <4> QED
        BY <4>3, <4>4
    <3>6. OverrideUsedUp'
      BY <2>0, <2>2, <3>1 DEF InPower, apiVars, OverrideUsedUp, AtWork
    <3>7. SuccessMeansAll' /\ OnceUnlessDisturbed'
      BY <2>0, <2>2 DEF InPower, apiVars, SuccessMeansAll, OnceUnlessDisturbed
    <3> QED
      BY <3>1, <3>2, <3>3, <3>4, <3>5, <3>6, <3>7 DEF OperationInv
  <2>3. CASE armed' \in {armed, armed \cup {w.system}} /\ Finish("failure")
    <3>1. TypeOK'
      <4>1. armed' \subseteq Systems
        BY <2>0, <2>3 DEF Finish, InPower, apiVars, AtWork, MySystems
      <4>2. troubled' \subseteq Systems
        BY <2>0, <2>3 DEF Finish, InPower, apiVars, AtWork, MySystems
      <4> QED
        BY <2>0, <2>3, <4>1, <4>2 DEF Finish, InPower, apiVars, Working, Steps, Reads,
           Tries, Statuses
    <3>2. AtWork'
      BY <2>0, <2>3, <3>1 DEF Finish, InPower, apiVars, AtWork, MySystems
    <3>3. Dated'
      BY <2>0, <2>3, <3>1 DEF Finish, InPower, apiVars, Dated
    <3>4. TickedOff'
      BY <2>0, <2>3, <3>1 DEF Finish, InPower, apiVars, TickedOff, Mine, MySystems
    <3>5. Undisturbed'
      <4>1. SUFFICES ASSUME NEW p \in Ops \ disturbed'
              PROVE  Lags(p)' /\ InOnePlace(p)'
        BY DEF Undisturbed
      <4>2. Lags(p) /\ InOnePlace(p)
        BY <2>0, <2>3 DEF Finish, InPower, apiVars, Undisturbed
      <4>3. Lags(p)'
        BY <2>0, <2>3, <3>1, <4>2 DEF Finish, InPower, apiVars, Lags, Unheard
      <4>4. InOnePlace(p)'
        BY <2>0, <2>3, <3>1, <4>2 DEF Finish, InPower, apiVars, InOnePlace, Lags,
           Unheard
      <4> QED
        BY <4>3, <4>4
    <3>6. OverrideUsedUp'
      BY <2>0, <2>3, <3>1 DEF Finish, InPower, apiVars, OverrideUsedUp, AtWork
    <3>7. SuccessMeansAll' /\ OnceUnlessDisturbed'
      BY <2>0, <2>3 DEF Finish, InPower, apiVars, SuccessMeansAll, OnceUnlessDisturbed
    <3> QED
      BY <3>1, <3>2, <3>3, <3>4, <3>5, <3>6, <3>7 DEF OperationInv
  <2> QED
    BY <1>5, <2>1, <2>2, <2>3 DEF SetBoot, Retry
<1>6. ASSUME Reset
      PROVE  OperationInv'
  <2>0. w.pc = "reset" /\ InPower /\ UNCHANGED runs
    BY <1>6 DEF Reset
  <2>1. CASE /\ Restart(w.system)
             /\ w' = [w EXCEPT !.pc = "power", !.todo = @ \ {w.system},
                              !.system = None, !.try = 0]
             /\ UNCHANGED troubled
    <3>1. TypeOK'
      <4>1. armed' \subseteq Systems
        BY <2>0, <2>1 DEF Restart, InPower, apiVars, AtWork, MySystems
      <4>2. restarted' \in [Ops -> SUBSET Systems]
        BY <2>0, <2>1 DEF Restart, InPower, apiVars, AtWork, MySystems
      <4> QED
        BY <2>0, <2>1, <4>1, <4>2 DEF Restart, InPower, apiVars, Working, Steps, Reads,
           Tries, Statuses
    <3>2. AtWork'
      BY <2>0, <2>1, <3>1 DEF Restart, InPower, apiVars, AtWork, MySystems
    <3>3. Dated'
      BY <2>0, <2>1, <3>1 DEF Restart, InPower, apiVars, Dated
    <3>4. TickedOff'
      BY <2>0, <2>1, <3>1 DEF Restart, InPower, apiVars, TickedOff, Mine, MySystems,
         AtWork
    <3>5. Undisturbed'
      <4>1. SUFFICES ASSUME NEW p \in Ops \ disturbed'
              PROVE  Lags(p)' /\ InOnePlace(p)'
        BY DEF Undisturbed
      <4>2. Lags(p) /\ InOnePlace(p)
        BY <2>0, <2>1 DEF Restart, InPower, apiVars, Undisturbed
      <4>3. Lags(p)'
        BY <2>0, <2>1, <3>1, <4>2 DEF Restart, InPower, apiVars, Lags, Unheard
      <4>4. InOnePlace(p)'
        BY <2>0, <2>1, <3>1, <4>2 DEF Restart, InPower, apiVars, InOnePlace, Lags,
           Unheard
      <4> QED
        BY <4>3, <4>4
    <3>6. SuccessMeansAll'
      BY <2>0, <2>1, <3>1 DEF Restart, InPower, apiVars, SuccessMeansAll
    <3>7. OverrideUsedUp'
      BY <2>0, <2>1, <3>1 DEF Restart, InPower, apiVars, OverrideUsedUp
    <3>8. OnceUnlessDisturbed'
      BY <2>0, <2>1 DEF Restart, InPower, apiVars, OnceUnlessDisturbed
    <3> QED
      BY <3>1, <3>2, <3>3, <3>4, <3>5, <3>6, <3>7, <3>8 DEF OperationInv
  <2>2. CASE /\ Restart(w.system) \/ NoRestart
             /\ w.op \in Pxe /\ w.try < MaxRetries
             /\ w' = [w EXCEPT !.pc = "setboot", !.try = @ + 1]
             /\ UNCHANGED troubled
    <3>1. TypeOK'
      <4>1. armed' \subseteq Systems
        BY <2>0, <2>2 DEF Restart, NoRestart, InPower, apiVars, AtWork, MySystems
      <4>2. restarted' \in [Ops -> SUBSET Systems]
        BY <2>0, <2>2 DEF Restart, NoRestart, InPower, apiVars, AtWork, MySystems
      <4> QED
        BY <2>0, <2>2, <4>1, <4>2 DEF Restart, NoRestart, InPower, apiVars, Working,
           Steps, Reads, Tries, Statuses
    <3>2. AtWork'
      BY <2>0, <2>2, <3>1 DEF Restart, NoRestart, InPower, apiVars, AtWork, MySystems
    <3>3. Dated'
      BY <2>0, <2>2, <3>1 DEF Restart, NoRestart, InPower, apiVars, Dated
    <3>4. TickedOff'
      BY <2>0, <2>2, <3>1 DEF Restart, NoRestart, InPower, apiVars, TickedOff, Mine,
         MySystems
    <3>5. Undisturbed'
      <4>1. SUFFICES ASSUME NEW p \in Ops \ disturbed'
              PROVE  Lags(p)' /\ InOnePlace(p)'
        BY DEF Undisturbed
      <4>2. Lags(p) /\ InOnePlace(p)
        BY <2>0, <2>2 DEF Restart, NoRestart, InPower, apiVars, Undisturbed
      <4>3. Lags(p)'
        BY <2>0, <2>2, <3>1, <4>2 DEF Restart, NoRestart, InPower, apiVars, Lags,
           Unheard
      <4>4. InOnePlace(p)'
        BY <2>0, <2>2, <3>1, <4>2 DEF Restart, NoRestart, InPower, apiVars, InOnePlace,
           Lags, Unheard
      <4> QED
        BY <4>3, <4>4
    <3>6. SuccessMeansAll'
      BY <2>0, <2>2, <3>1 DEF Restart, NoRestart, InPower, apiVars, SuccessMeansAll
    <3>7. OverrideUsedUp'
      BY <2>0, <2>2, <3>1 DEF Restart, NoRestart, InPower, apiVars, OverrideUsedUp
    <3>8. OnceUnlessDisturbed'
      BY <2>0, <2>2 DEF Restart, NoRestart, InPower, apiVars, OnceUnlessDisturbed
    <3> QED
      BY <3>1, <3>2, <3>3, <3>4, <3>5, <3>6, <3>7, <3>8 DEF OperationInv
  <2>3. CASE (Restart(w.system) \/ NoRestart) /\ Finish("failure")
    <3>1. TypeOK'
      <4>1. armed' \subseteq Systems
        BY <2>0, <2>3 DEF Restart, NoRestart, Finish, InPower, apiVars, AtWork,
           MySystems
      <4>2. restarted' \in [Ops -> SUBSET Systems]
        BY <2>0, <2>3 DEF Restart, NoRestart, Finish, InPower, apiVars, AtWork,
           MySystems
      <4>3. troubled' \subseteq Systems
        BY <2>0, <2>3 DEF Restart, NoRestart, Finish, InPower, apiVars, AtWork,
           MySystems
      <4> QED
        BY <2>0, <2>3, <4>1, <4>2, <4>3 DEF Restart, NoRestart, Finish, InPower,
           apiVars, Working, Steps, Reads, Tries, Statuses
    <3>2. AtWork'
      BY <2>0, <2>3, <3>1 DEF Restart, NoRestart, Finish, InPower, apiVars, AtWork,
         MySystems
    <3>3. Dated'
      BY <2>0, <2>3, <3>1 DEF Restart, NoRestart, Finish, InPower, apiVars, Dated
    <3>4. TickedOff'
      BY <2>0, <2>3, <3>1 DEF Restart, NoRestart, Finish, InPower, apiVars, TickedOff,
         Mine, MySystems
    <3>5. Undisturbed'
      <4>1. SUFFICES ASSUME NEW p \in Ops \ disturbed'
              PROVE  Lags(p)' /\ InOnePlace(p)'
        BY DEF Undisturbed
      <4>2. Lags(p) /\ InOnePlace(p)
        BY <2>0, <2>3 DEF Restart, NoRestart, Finish, InPower, apiVars, Undisturbed
      <4>3. Lags(p)'
        BY <2>0, <2>3, <3>1, <4>2 DEF Restart, NoRestart, Finish, InPower, apiVars,
           Lags, Unheard
      <4>4. InOnePlace(p)'
        BY <2>0, <2>3, <3>1, <4>2 DEF Restart, NoRestart, Finish, InPower, apiVars,
           InOnePlace, Lags, Unheard
      <4> QED
        BY <4>3, <4>4
    <3>6. SuccessMeansAll'
      BY <2>0, <2>3, <3>1 DEF Restart, NoRestart, Finish, InPower, apiVars,
         SuccessMeansAll
    <3>7. OverrideUsedUp'
      BY <2>0, <2>3, <3>1 DEF Restart, NoRestart, Finish, InPower, apiVars,
         OverrideUsedUp, AtWork
    <3>8. OnceUnlessDisturbed'
      BY <2>0, <2>3 DEF Restart, NoRestart, Finish, InPower, apiVars,
         OnceUnlessDisturbed
    <3> QED
      BY <3>1, <3>2, <3>3, <3>4, <3>5, <3>6, <3>7, <3>8 DEF OperationInv
  <2> QED
    BY <1>6, <2>1, <2>2, <2>3 DEF Reset, Retry
<1> QED
  BY <1>1, <1>2, <1>3, <1>4, <1>5, <1>6 DEF WorkerNext, UpdateStatus, UpdateConflict,
     UpdateFails

\* The status that is stored is that of the object that was read.
LEMMA UpdateKeepsInv ==
    ASSUME OperationInv, UpdateStatus \/ UpdateConflict \/ UpdateFails, w' \in Working
    PROVE  OperationInv'
<1> USE HostOperationAssumption
      DEF OperationInv, TypeOK, Idle, Unset, Object, Terminal, MaxRetries
<1>1. ASSUME UpdateStatus
      PROVE  OperationInv'
  <2>1. TypeOK'
    <3>1. obj' \in [Ops -> Object \cup {None}]
      BY <1>1 DEF UpdateStatus, Current, Store, history, AtWork, MySystems
    <3> QED
      BY <1>1, <3>1 DEF UpdateStatus, Current, Store, history, Working, Steps, Reads,
         Tries, Statuses
  <2>2. AtWork'
    BY <1>1, <2>1 DEF UpdateStatus, Current, Store, history, AtWork, MySystems
  <2>3. Dated'
    BY <1>1, <2>1 DEF UpdateStatus, Current, Store, history, Dated
  <2>4. TickedOff'
    BY <1>1, <2>1 DEF UpdateStatus, Current, Store, history, TickedOff, Mine, MySystems
  <2>5. Undisturbed'
    <3>1. SUFFICES ASSUME NEW p \in Ops \ disturbed'
            PROVE  Lags(p)' /\ InOnePlace(p)'
      BY DEF Undisturbed
    <3>2. Lags(p) /\ InOnePlace(p)
      BY <1>1 DEF UpdateStatus, Current, Store, history, Undisturbed
    <3>3. Lags(p)'
      BY <1>1, <2>1, <3>2 DEF UpdateStatus, Current, Store, history, Lags, Unheard,
         AtWork, InOnePlace
    <3>4. InOnePlace(p)'
      BY <1>1, <2>1, <3>2 DEF UpdateStatus, Current, Store, history, InOnePlace, Lags,
         Unheard, AtWork
    <3> QED
      BY <3>3, <3>4
  <2>6. SuccessMeansAll'
    BY <1>1, <2>1 DEF UpdateStatus, Current, Store, history, SuccessMeansAll, AtWork,
       MySystems, TickedOff, Mine
  <2>7. OverrideUsedUp'
    BY <1>1, <2>1 DEF UpdateStatus, Current, Store, history, OverrideUsedUp, AtWork
  <2>8. OnceUnlessDisturbed'
    BY <1>1 DEF UpdateStatus, Current, Store, history, OnceUnlessDisturbed
  <2> QED
    BY <2>1, <2>2, <2>3, <2>4, <2>5, <2>6, <2>7, <2>8 DEF OperationInv
<1>2. ASSUME UpdateConflict
      PROVE  OperationInv'
  <2>1. TypeOK'
    <3>1. timers' \subseteq Ops
      BY <1>2 DEF UpdateConflict, Current, Failed, apiVars, history, AtWork, MySystems
    <3> QED
      BY <1>2, <3>1 DEF UpdateConflict, Current, Failed, apiVars, history, Working,
         Steps, Reads, Tries, Statuses
  <2>2. AtWork'
    BY <1>2, <2>1 DEF UpdateConflict, Current, Failed, apiVars, history, AtWork,
       MySystems
  <2>3. Dated'
    BY <1>2, <2>1 DEF UpdateConflict, Current, Failed, apiVars, history, Dated
  <2>4. TickedOff'
    BY <1>2, <2>1 DEF UpdateConflict, Current, Failed, apiVars, history, TickedOff,
       Mine, MySystems
  <2>5. Undisturbed'
    <3>1. SUFFICES ASSUME NEW p \in Ops \ disturbed'
            PROVE  Lags(p)' /\ InOnePlace(p)'
      BY DEF Undisturbed
    <3>2. Lags(p) /\ InOnePlace(p)
      BY <1>2 DEF UpdateConflict, Current, Failed, apiVars, history, Undisturbed
    <3>3. Lags(p)'
      BY <1>2, <2>1, <3>2 DEF UpdateConflict, Current, Failed, apiVars, history, Lags,
         Unheard
    <3>4. InOnePlace(p)'
      BY <1>2, <2>1, <3>2 DEF UpdateConflict, Current, Failed, apiVars, history,
         InOnePlace, Lags, Unheard
    <3> QED
      BY <3>3, <3>4
  <2>6. OverrideUsedUp'
    BY <1>2, <2>1 DEF UpdateConflict, Current, Failed, apiVars, history, OverrideUsedUp,
       AtWork
  <2>7. SuccessMeansAll' /\ OnceUnlessDisturbed'
    BY <1>2 DEF UpdateConflict, Current, Failed, apiVars, history, SuccessMeansAll,
       OnceUnlessDisturbed
  <2> QED
    BY <2>1, <2>2, <2>3, <2>4, <2>5, <2>6, <2>7 DEF OperationInv
<1>3. ASSUME UpdateFails
      PROVE  OperationInv'
  <2>1. TypeOK'
    <3>1. obj' \in [Ops -> Object \cup {None}]
      BY <1>3 DEF UpdateFails, Current, Store, Failed, Fault, Disturb, AtWork, MySystems
    <3>2. timers' \subseteq Ops
      BY <1>3 DEF UpdateFails, Current, Store, Failed, Fault, Disturb, AtWork, MySystems
    <3>3. disturbed' \subseteq Ops
      BY <1>3 DEF UpdateFails, Current, Store, Failed, Fault, Disturb, AtWork, MySystems
    <3>4. faults' \in 0..MaxFaults
      BY <1>3 DEF UpdateFails, Current, Store, Failed, Fault, Disturb, AtWork, MySystems
    <3> QED
      BY <1>3, <3>1, <3>2, <3>3, <3>4 DEF UpdateFails, Current, Store, Failed, Fault,
         Disturb, Working, Steps, Reads, Tries, Statuses
  <2>2. AtWork'
    BY <1>3, <2>1 DEF UpdateFails, Current, Store, Failed, Fault, Disturb, AtWork,
       MySystems
  <2>3. Dated'
    BY <1>3, <2>1 DEF UpdateFails, Current, Store, Failed, Fault, Disturb, Dated
  <2>4. TickedOff'
    BY <1>3, <2>1 DEF UpdateFails, Current, Store, Failed, Fault, Disturb, TickedOff,
       Mine, MySystems
  <2>5. Undisturbed'
    <3>1. SUFFICES ASSUME NEW p \in Ops \ disturbed'
            PROVE  Lags(p)' /\ InOnePlace(p)'
      BY DEF Undisturbed
    <3>2. Lags(p) /\ InOnePlace(p)
      BY <1>3 DEF UpdateFails, Current, Store, Failed, Fault, Disturb, Undisturbed
    <3>3. Lags(p)'
      BY <1>3, <2>1, <3>2 DEF UpdateFails, Current, Store, Failed, Fault, Disturb, Lags,
         Unheard
    <3>4. InOnePlace(p)'
      BY <1>3, <2>1, <3>2 DEF UpdateFails, Current, Store, Failed, Fault, Disturb,
         InOnePlace, Lags, Unheard
    <3> QED
      BY <3>3, <3>4
  <2>6. SuccessMeansAll'
    BY <1>3, <2>1 DEF UpdateFails, Current, Store, Failed, Fault, Disturb,
       SuccessMeansAll, AtWork, MySystems, TickedOff, Mine
  <2>7. OnceUnlessDisturbed'
    BY <1>3, <2>1 DEF UpdateFails, Current, Store, Failed, Fault, Disturb,
       OnceUnlessDisturbed
  <2>8. OverrideUsedUp'
    BY <1>3, <2>1 DEF UpdateFails, Current, Store, Failed, Fault, Disturb,
       OverrideUsedUp, AtWork
  <2> QED
    BY <2>1, <2>2, <2>3, <2>4, <2>5, <2>6, <2>7, <2>8 DEF OperationInv
<1> QED
  BY <1>1, <1>2, <1>3

\* A restart disturbs the operation the worker was at.
LEMMA RestartKeepsInv ==
    ASSUME OperationInv, AgentRestart
    PROVE  OperationInv'
<1> USE HostOperationAssumption
      DEF OperationInv, TypeOK, Idle, Unset, Object, Terminal, MaxRetries
<1>1. ASSUME AgentRestart
      PROVE  OperationInv'
  <2>1. TypeOK'
    BY <1>1 DEF AgentRestart, Fault, apiVars
  <2>2. AtWork'
    BY <1>1, <2>1 DEF AgentRestart, Fault, apiVars, AtWork, MySystems
  <2>3. Dated'
    BY <1>1, <2>1 DEF AgentRestart, Fault, apiVars, Dated
  <2>4. TickedOff'
    BY <1>1, <2>1 DEF AgentRestart, Fault, apiVars, TickedOff, Mine, MySystems
  <2>5. Undisturbed'
    <3>1. SUFFICES ASSUME NEW p \in Ops \ disturbed'
            PROVE  Lags(p)' /\ InOnePlace(p)'
      BY DEF Undisturbed
    <3>2. Lags(p) /\ InOnePlace(p)
      BY <1>1 DEF AgentRestart, Fault, apiVars, Undisturbed
    <3>3. Lags(p)'
      BY <1>1, <2>1, <3>2 DEF AgentRestart, Fault, apiVars, Lags, Unheard
    <3>4. InOnePlace(p)'
      BY <1>1, <2>1, <3>2 DEF AgentRestart, Fault, apiVars, InOnePlace, Lags, Unheard
    <3> QED
      BY <3>3, <3>4
  <2>6. OnceUnlessDisturbed'
    BY <1>1, <2>1 DEF AgentRestart, Fault, apiVars, OnceUnlessDisturbed
  <2>7. OverrideUsedUp'
    BY <1>1, <2>1 DEF AgentRestart, Fault, apiVars, OverrideUsedUp, AtWork, MySystems
  <2>8. SuccessMeansAll'
    BY <1>1 DEF AgentRestart, Fault, apiVars, SuccessMeansAll
  <2> QED
    BY <2>1, <2>2, <2>3, <2>4, <2>5, <2>6, <2>7, <2>8 DEF OperationInv
<1> QED
  BY <1>1

\* No operation exists and the worker is idle.
LEMMA InitEstablishesInv == Init => OperationInv
<1> SUFFICES ASSUME Init PROVE OperationInv
  OBVIOUS
<1> USE HostOperationAssumption DEF Init, Idle
<1>1. TypeOK
  <2>1. w \in Working
    <3>1. "idle" \in Steps /\ 0 \in Tries /\ Unset \in Statuses /\ None \in Reads
      BY DEF Steps, Tries, MaxRetries, Statuses, Reads
    <3> QED
      BY <3>1 DEF Working
  <2>2. changes \in 0..MaxChanges /\ faults \in 0..MaxFaults
    OBVIOUS
  <2> QED
    BY <2>1, <2>2 DEF TypeOK, Working, Steps, Reads, Tries, Statuses
<1>2. AtWork /\ Dated /\ TickedOff
  BY DEF AtWork, Dated, TickedOff, Unset, Terminal
<1>3. Undisturbed
  BY DEF Undisturbed, Lags, InOnePlace, Unheard
<1>4. SuccessMeansAll /\ OnceUnlessDisturbed /\ OverrideUsedUp
  BY DEF SuccessMeansAll, OnceUnlessDisturbed, OverrideUsedUp
<1> QED
  BY <1>1, <1>2, <1>3, <1>4 DEF OperationInv

\* OperationInv is inductive.
LEMMA NextKeepsInv == OperationInv /\ [Next]_vars => OperationInv'
<1> SUFFICES ASSUME OperationInv, [Next]_vars PROVE OperationInv'
  OBVIOUS
<1>1. CASE UNCHANGED vars
  BY <1>1 DEF vars, apiVars, ctlVars, history, OperationInv, TypeOK, AtWork, MySystems,
     Dated, TickedOff, Mine, Undisturbed, Lags, InOnePlace, Unheard, SuccessMeansAll,
     OnceUnlessDisturbed, OverrideUsedUp
<1>2. CASE UserNext \/ CacheNext
  BY <1>2, UsersKeepInv, HostsKeepInv DEF UserNext, CacheNext
<1>3. ASSUME NEW o \in Ops,
             InformerSync(o) \/ Resync(o) \/ TimerFires(o) \/ ReconcileNext(o)
      PROVE  OperationInv'
  BY <1>3, InformerKeepsInv, ReconcileKeepsInv
<1>4. CASE WorkerNext
  <2>1. w' \in Working
    BY <1>4, WorkerTyped
  <2>2. CASE w.pc # "update"
    BY <1>4, <2>1, <2>2, PowerKeepsInv
  <2>3. CASE w.pc = "update"
    <3>1. UpdateStatus \/ UpdateConflict \/ UpdateFails
      BY <1>4, <2>3 DEF WorkerNext, NewClient, PowerDone, PowerFails, PowerNext,
         SetBoot,
         Reset
    <3> QED
      BY <2>1, <3>1, UpdateKeepsInv
  <2> QED
    BY <2>2, <2>3
<1>5. CASE AgentRestart
  BY <1>5, RestartKeepsInv
<1> QED
  BY <1>1, <1>2, <1>3, <1>4, <1>5 DEF Next

-----------------------------------------------------------------------------
(* The theorems                                                              *)

\* OperationInv holds in every reachable state.
THEOREM OperationInvariant == Spec => []OperationInv
  BY InitEstablishesInv, NextKeepsInv, PTL DEF Spec

\* Type correctness of the operations, the worker and the BMCs.
THEOREM OperationTypeCorrect == Spec => []TypeOK
<1>1. OperationInv => TypeOK
  BY DEF OperationInv
<1> QED
  BY <1>1, OperationInvariant, PTL

\* An operation whose stored status is success has restarted every system of
\* its host, from PXE for a PxeReboot.
THEOREM SuccessMeansAllAlways == Spec => []SuccessMeansAll
<1>1. OperationInv => SuccessMeansAll
  BY DEF OperationInv
<1> QED
  BY <1>1, OperationInvariant, PTL

\* An operation that nothing disturbs is executed once at most.
THEOREM OnceUnlessDisturbedAlways == Spec => []OnceUnlessDisturbed
<1>1. OperationInv => OnceUnlessDisturbed
  BY DEF OperationInv
<1> QED
  BY <1>1, OperationInvariant, PTL

\* A boot override outlives its PxeReboot only if that failed or was cut short.
THEOREM OverrideUsedUpAlways == Spec => []OverrideUsedUp
<1>1. OperationInv => OverrideUsedUp
  BY DEF OperationInv
<1> QED
  BY <1>1, OperationInvariant, PTL

\* A status that is stored when it is terminal was read as not terminal: a
\* final status never changes, whatever is executed again.
THEOREM FinalStatusAlways == Spec => FinalStatus
<1> DEFINE Kept(o) ==
       (/\ obj[o] # None /\ obj[o].status \in Terminal
        /\ obj'[o] # None /\ obj'[o].uid = obj[o].uid)
           => obj'[o].status = obj[o].status
<1>1. ASSUME OperationInv, [Next]_vars
      PROVE  [\A o \in Ops : Kept(o)]_vars
  <2> SUFFICES ASSUME Next, NEW o \in Ops PROVE Kept(o)
    BY <1>1
  <2>1. CASE UNCHANGED obj
    BY <2>1
  <2>2. ASSUME NEW p \in Ops, CreateOp(p) \/ DeleteOp(p)
        PROVE  Kept(o)
    BY <1>1, <2>2 DEF OperationInv, TypeOK, CreateOp, DeleteOp
  <2>3. CASE w.pc = "update" /\ Current /\ Store
    BY <1>1, <2>3 DEF OperationInv, TypeOK, AtWork, Current, Store, Terminal, Unset
  <2> QED
    BY <2>1, <2>2, <2>3
       DEF Next, UserNext, CacheNext, RedfishStatusChanges, CacheAdd, CacheDelete,
           InformerSync, Resync, TimerFires, ReconcileNext, ReconcileGone,
           ReconcileNoRedfish, ReconcileProcessed, ReconcileNotCached, ReconcileStart,
           Take, WorkerNext, NewClient, PowerDone, PowerFails, PowerNext, SetBoot, Reset,
           InPower, UpdateStatus, UpdateConflict, UpdateFails, AgentRestart, apiVars
<1> QED
  BY <1>1, OperationInvariant, PTL DEF Spec, FinalStatus
=============================================================================
