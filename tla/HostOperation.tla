---------------------------- MODULE HostOperation ----------------------------
(***************************************************************************)
(* HostOperation objects and the controller that executes them: the work   *)
(* queue and the informer of the controller, Reconcile, redfishClient.     *)
(* Power with its loop over the systems of a BMC and its retries for a PXE *)
(* boot, and the status that is written when the action has been done.     *)
(*                                                                         *)
(* The controller has one worker. Requests to the BMC may fail, with or    *)
(* without having had their effect; the write of the status may fail,      *)
(* likewise; the agent may restart at any time.                            *)
(*                                                                         *)
(* An object is its uid and its status: its spec cannot be updated (the    *)
(* webhook refuses) and every write of the status changes it, so the pair  *)
(* identifies a resourceVersion.                                           *)
(***************************************************************************)
EXTENDS Naturals, FiniteSets

CONSTANTS Ops,        \* names of HostOperation objects
          Hosts,      \* names of RedfishStatus objects
          Systems,
          SystemsOf,  \* SystemsOf[h]: the computer systems of the BMC of h
          Target,     \* Target[o]: spec.redfishStatusName
          Pxe,        \* the operations with action PxeReboot
          None,       \* nil
          MaxChanges, \* bound on what users change
          MaxFaults   \* bound on restarts, resyncs and failed status writes

MaxRetries == 3

Unset == "unset"  \* the empty string
Terminal == {"success", "failure"}
Object == [uid: 1..MaxChanges, status: {Unset} \cup Terminal]

ASSUME HostOperationAssumption ==
    /\ SystemsOf \in [Hosts -> SUBSET Systems]
    /\ Target \in [Ops -> Hosts]
    /\ Pxe \subseteq Ops
    /\ MaxChanges \in Nat
    /\ MaxFaults \in Nat
    /\ None \notin Object
    /\ None \notin Ops
    /\ None \notin Systems

VARIABLES
    obj,       \* API server: the HostOperations, None if absent
    redfish,   \* API server: the RedfishStatuses
    seen,      \* informer cache of HostOperations
    queue,     \* work queue
    timers,    \* names to be added to the queue after a delay
    cached,    \* hosts in RedfishCacheDatabase
    w,         \* the worker
    armed,     \* BMC: systems set to boot from PXE once
    changes, faults,
    runs,      \* history: how often an operation was executed, 2 is many
    restarted, \* history: the systems an operation restarted
    disturbed, \* history: see Disturb
    troubled   \* history: systems where a PXE boot failed or was cut short

apiVars == <<obj, redfish>>
ctlVars == <<seen, queue, timers, cached, w>>
history == <<runs, restarted, disturbed, troubled>>
vars == <<apiVars, ctlVars, armed, changes, faults, history>>

Idle == [pc |-> "idle", op |-> None, read |-> None, todo |-> {}, system |-> None,
         try |-> 0, status |-> Unset]

TypeOK ==
    /\ obj \in [Ops -> Object \cup {None}]
    /\ redfish \in [Hosts -> {"absent", "unhealthy", "healthy"}]
    /\ seen \in [Ops -> Object \cup {None}]
    /\ queue \subseteq Ops
    /\ timers \subseteq Ops
    /\ cached \subseteq Hosts
    /\ w \in [pc: {"idle", "client", "power", "setboot", "reset", "update"},
              op: Ops \cup {None}, read: Object \cup {None},
              todo: SUBSET Systems, system: Systems \cup {None},
              try: 0..MaxRetries, status: {Unset} \cup Terminal]
    /\ armed \subseteq Systems
    /\ changes \in 0..MaxChanges
    /\ faults \in 0..MaxFaults
    /\ runs \in [Ops -> 0..2]
    /\ restarted \in [Ops -> SUBSET Systems]
    /\ disturbed \subseteq Ops
    /\ troubled \subseteq Systems

Init ==
    /\ obj = [o \in Ops |-> None]
    /\ redfish = [h \in Hosts |-> "healthy"]
    /\ seen = [o \in Ops |-> None]
    /\ queue = {}
    /\ timers = {}
    /\ cached = {}
    /\ w = Idle
    /\ armed = {}
    /\ changes = 0
    /\ faults = 0
    /\ runs = [o \in Ops |-> 0]
    /\ restarted = [o \in Ops |-> {}]
    /\ disturbed = {}
    /\ troubled = {}

UserChange == changes < MaxChanges /\ changes' = changes + 1
Fault == faults < MaxFaults /\ faults' = faults + 1

\* Operation o is executed under circumstances in which nothing keeps it
\* from being executed twice.
Disturb(o) == disturbed' = disturbed \cup {o}

-----------------------------------------------------------------------------
(* Users, and what the rest of the agent does                                *)

\* ValidateCreate wants a healthy RedfishStatus.
CreateOp(o) ==
    /\ UserChange
    /\ obj[o] = None
    /\ redfish[Target[o]] = "healthy"
    /\ obj' = [obj EXCEPT ![o] = [uid |-> changes + 1, status |-> Unset]]
    /\ runs' = [runs EXCEPT ![o] = 0]
    /\ restarted' = [restarted EXCEPT ![o] = {}]
    /\ UNCHANGED <<redfish, ctlVars, armed, faults, disturbed, troubled>>

\* An operation that takes the name of a deleted one may find the name in
\* the queue, or the worker at it: it counts as disturbed.
DeleteOp(o) ==
    /\ UserChange
    /\ obj[o] # None
    /\ obj' = [obj EXCEPT ![o] = None]
    /\ Disturb(o)
    /\ UNCHANGED <<redfish, ctlVars, armed, faults, runs, restarted, troubled>>

RedfishStatusChanges(h, v) ==
    /\ UserChange
    /\ redfish[h] # v
    /\ redfish' = [redfish EXCEPT ![h] = v]
    /\ UNCHANGED <<obj, ctlVars, armed, faults, history>>

\* RedfishCacheDatabase follows the RedfishStatus objects.
CacheAdd(h) ==
    /\ redfish[h] # "absent"
    /\ h \notin cached
    /\ cached' = cached \cup {h}
    /\ UNCHANGED <<apiVars, seen, queue, timers, w, armed, changes, faults, history>>

CacheDelete(h) ==
    /\ redfish[h] = "absent"
    /\ h \in cached
    /\ cached' = cached \ {h}
    /\ UNCHANGED <<apiVars, seen, queue, timers, w, armed, changes, faults, history>>

\* A watch event: the informer takes it and queues the name.
InformerSync(o) ==
    /\ seen[o] # obj[o]
    /\ seen' = [seen EXCEPT ![o] = obj[o]]
    /\ queue' = queue \cup {o}
    /\ UNCHANGED <<apiVars, timers, cached, w, armed, changes, faults, history>>

\* The periodic resync of the informer queues a name without any event.
Resync(o) ==
    /\ Fault
    /\ seen[o] # None
    /\ queue' = queue \cup {o}
    /\ Disturb(o)
    /\ UNCHANGED <<apiVars, seen, timers, cached, w, armed, changes,
                   runs, restarted, troubled>>

\* A delay (backoff after an error, or RequeueAfter) is over.
TimerFires(o) ==
    /\ o \in timers
    /\ timers' = timers \ {o}
    /\ queue' = queue \cup {o}
    /\ UNCHANGED <<apiVars, seen, cached, w, armed, changes, faults, history>>

AgentRestart ==
    /\ Fault
    /\ seen' = obj
    /\ queue' = {o \in Ops : obj[o] # None}
    /\ timers' = {}
    /\ cached' = {}
    /\ w' = Idle
    /\ disturbed' = disturbed \cup ({w.op} \cap Ops)
    /\ troubled' = IF w.op \in Pxe THEN troubled \cup SystemsOf[Target[w.op]]
                   ELSE troubled
    /\ UNCHANGED <<apiVars, armed, changes, runs, restarted>>

-----------------------------------------------------------------------------
(* HostOperationController.Reconcile, up to the choice of what to do         *)

Take(o) ==
    /\ w = Idle
    /\ o \in queue
    /\ queue' = queue \ {o}
    /\ UNCHANGED <<apiVars, seen, cached, armed, changes, faults, history>>

ReconcileGone(o) ==
    /\ Take(o)
    /\ seen[o] = None
    /\ UNCHANGED <<timers, w>>

ReconcileNoRedfish(o) ==
    /\ Take(o)
    /\ seen[o] # None
    /\ redfish[Target[o]] = "absent"
    /\ timers' = timers \cup {o}
    /\ UNCHANGED w

\* What remains of an operation to be reconciled.
Present(o) == seen[o] # None /\ redfish[Target[o]] # "absent"

ReconcileProcessed(o) ==
    /\ Take(o)
    /\ Present(o)
    /\ seen[o].status \in Terminal
    /\ UNCHANGED <<timers, w>>

\* Mutant: no RequeueAfter when the connect config is missing.
ReconcileGivesUp(o) ==
    /\ Take(o)
    /\ Present(o)
    /\ seen[o].status \notin Terminal
    /\ Target[o] \notin cached
    /\ UNCHANGED <<timers, w>>

ReconcileNotCached(o) ==
    /\ Take(o)
    /\ Present(o)
    /\ seen[o].status \notin Terminal
    /\ Target[o] \notin cached
    /\ timers' = timers \cup {o}
    /\ UNCHANGED w

\* Mutant: the stored status is not looked at.
ReconcileStartsAny(o) ==
    /\ Take(o)
    /\ Present(o)
    /\ Target[o] \in cached
    /\ w' = [Idle EXCEPT !.pc = "client", !.op = o, !.read = seen[o]]
    /\ UNCHANGED timers

\* pending is noted in the worker's copy of the object only.
ReconcileStart(o) ==
    /\ Take(o)
    /\ Present(o)
    /\ seen[o].status \notin Terminal
    /\ Target[o] \in cached
    /\ w' = [Idle EXCEPT !.pc = "client", !.op = o, !.read = seen[o]]
    /\ UNCHANGED timers

-----------------------------------------------------------------------------
(* redfishClient.Power                                                       *)

MySystems == SystemsOf[Target[w.op]]

\* The action is over and its status is known.
Finish(st) ==
    /\ w' = [w EXCEPT !.pc = "update", !.todo = {}, !.system = None, !.try = 0,
                      !.status = st]
    /\ troubled' = IF st = "failure" /\ w.op \in Pxe THEN troubled \cup MySystems
                   ELSE troubled

InPower ==
    UNCHANGED <<apiVars, seen, queue, timers, cached, changes, faults, disturbed>>

\* The history is that of the object the worker has read, if it is there.
Mine == obj[w.op] # None /\ obj[w.op].uid = w.read.uid

NewClient ==
    /\ w.pc = "client"
    /\ \/ /\ w' = [w EXCEPT !.pc = "power", !.todo = MySystems]
          /\ runs' = IF Mine /\ runs[w.op] < 2 THEN [runs EXCEPT ![w.op] = @ + 1]
                     ELSE runs
          /\ UNCHANGED troubled
       \/ Finish("failure") /\ UNCHANGED runs
    /\ InPower
    /\ UNCHANGED <<armed, restarted>>

\* Mutant: one system is enough.
PowerDoneEarly ==
    /\ w.pc = "power"
    /\ w.todo # MySystems
    /\ Finish("success")
    /\ InPower
    /\ UNCHANGED <<armed, runs, restarted>>

PowerDone ==
    /\ w.pc = "power"
    /\ w.todo = {} /\ MySystems # {}
    /\ Finish("success")
    /\ InPower
    /\ UNCHANGED <<armed, runs, restarted>>

\* There is no system, or what is asked of the BMC before the action fails,
\* or it lacks the reset types of a PXE boot.
PowerFails ==
    /\ w.pc = "power"
    /\ w.todo # {} \/ MySystems = {}
    /\ Finish("failure")
    /\ InPower
    /\ UNCHANGED <<armed, runs, restarted>>

\* Mutant: the cases of the switch fall through to the last one.
PowerNextFallsThrough(s) ==
    /\ w.pc = "power"
    /\ s \in w.todo
    /\ w' = [w EXCEPT !.pc = "setboot", !.system = s, !.try = 1]
    /\ InPower
    /\ UNCHANGED <<armed, runs, restarted, troubled>>

PowerNext(s) ==
    /\ w.pc = "power"
    /\ s \in w.todo
    /\ w' = IF w.op \in Pxe
            THEN [w EXCEPT !.pc = "setboot", !.system = s, !.try = 1]
            ELSE [w EXCEPT !.pc = "reset", !.system = s]
    /\ InPower
    /\ UNCHANGED <<armed, runs, restarted, troubled>>

\* Mutant: one turn too many.
RetryOnceMore ==
    \/ /\ w.try <= MaxRetries
       /\ w' = [w EXCEPT !.pc = "setboot", !.try = @ + 1]
       /\ UNCHANGED troubled
    \/ Finish("failure")

\* The next turn of the loop of pxeRebootWithRetry, if there is one: it
\* starts with a refresh of the systems, which may fail.
Retry ==
    \/ /\ w.try < MaxRetries
       /\ w' = [w EXCEPT !.pc = "setboot", !.try = @ + 1]
       /\ UNCHANGED troubled
    \/ Finish("failure")

SetBoot ==
    /\ w.pc = "setboot"
    /\ \/ /\ armed' = armed \cup {w.system}
          /\ w' = [w EXCEPT !.pc = "reset"]
          /\ UNCHANGED troubled
       \/ /\ armed' \in {armed, armed \cup {w.system}}
          /\ Retry
    /\ InPower
    /\ UNCHANGED <<runs, restarted>>

\* The system restarts, and a boot override is used up. For a PxeReboot it
\* counts only if there was an override.
Restart(s) ==
    /\ armed' = armed \ {s}
    /\ restarted' = IF Mine /\ (w.op \in Pxe => s \in armed)
                    THEN [restarted EXCEPT ![w.op] = @ \cup {s}]
                    ELSE restarted

NoRestart == UNCHANGED <<armed, restarted>>

\* system.Reset succeeds, or fails before or after the restart.
Reset ==
    /\ w.pc = "reset"
    /\ \/ /\ Restart(w.system)
          /\ w' = [w EXCEPT !.pc = "power", !.todo = @ \ {w.system},
                            !.system = None, !.try = 0]
          /\ UNCHANGED troubled
       \/ /\ Restart(w.system) \/ NoRestart
          /\ IF w.op \in Pxe THEN Retry ELSE Finish("failure")
    /\ InPower
    /\ UNCHANGED runs

-----------------------------------------------------------------------------
(* Status().Update, the last step of Reconcile                               *)

\* The object read is still the current one.
Current == obj[w.op] = w.read

Store == obj' = [obj EXCEPT ![w.op].status = w.status]

\* An error of Reconcile: the name comes back after a backoff.
Failed == w' = Idle /\ timers' = timers \cup {w.op}

UpdateStatus ==
    /\ w.pc = "update"
    /\ Current
    /\ Store
    /\ w' = Idle
    /\ UNCHANGED <<redfish, seen, queue, timers, cached, armed, changes, faults,
                   history>>

\* Mutant: the resourceVersion is not compared.
UpdateForced ==
    /\ w.pc = "update"
    /\ ~Current
    /\ IF obj[w.op] # None THEN Store ELSE UNCHANGED obj
    /\ w' = Idle
    /\ UNCHANGED <<redfish, seen, queue, timers, cached, armed, changes, faults,
                   history>>

UpdateConflict ==
    /\ w.pc = "update"
    /\ ~Current
    /\ Failed
    /\ UNCHANGED <<apiVars, seen, queue, cached, armed, changes, faults, history>>

\* The request, or the answer to it, is lost.
UpdateFails ==
    /\ w.pc = "update"
    /\ Fault
    /\ IF Current THEN Store \/ UNCHANGED obj ELSE UNCHANGED obj
    /\ Failed
    /\ Disturb(w.op)
    /\ UNCHANGED <<redfish, seen, queue, cached, armed, changes,
                   runs, restarted, troubled>>

-----------------------------------------------------------------------------
UserNext ==
    \/ \E o \in Ops : CreateOp(o) \/ DeleteOp(o)
    \/ \E h \in Hosts, v \in {"absent", "unhealthy", "healthy"} :
          RedfishStatusChanges(h, v)

CacheNext == \E h \in Hosts : CacheAdd(h) \/ CacheDelete(h)

ReconcileNext(o) ==
    \/ ReconcileGone(o) \/ ReconcileNoRedfish(o) \/ ReconcileProcessed(o)
    \/ ReconcileNotCached(o) \/ ReconcileStart(o)

WorkerNext ==
    \/ NewClient \/ PowerDone \/ PowerFails
    \/ \E s \in Systems : PowerNext(s)
    \/ SetBoot \/ Reset
    \/ UpdateStatus \/ UpdateConflict \/ UpdateFails

Next ==
    \/ UserNext \/ CacheNext
    \/ \E o \in Ops :
          InformerSync(o) \/ Resync(o) \/ TimerFires(o) \/ ReconcileNext(o)
    \/ WorkerNext \/ AgentRestart

Spec == Init /\ [][Next]_vars

-----------------------------------------------------------------------------
(***************************************************************************)
(* Properties                                                              *)
(***************************************************************************)

\* Status success is only stored when Power has restarted every system of
\* the host on behalf of this very object, from PXE for a PxeReboot: no
\* early return, retry, restart or object of the same name before it makes
\* an unfinished operation look done.
SuccessMeansAll ==
    \A o \in Ops :
        (obj[o] # None /\ obj[o].status = "success") =>
            SystemsOf[Target[o]] # {} /\ SystemsOf[Target[o]] \subseteq restarted[o]

\* An operation whose status write did not fail, during which the agent was
\* not restarted and whose name is new is executed once: informer events,
\* delayed queue entries, missing connect configs and stale reads of its
\* status never run it again.
OnceUnlessDisturbed == \A o \in Ops \ disturbed : runs[o] <= 1

\* A status that says success or failure never changes again: an execution
\* repeated after a restart, a lost answer or a stale read of the informer
\* does not overwrite it.
FinalStatus ==
    [][\A o \in Ops :
          (/\ obj[o] # None /\ obj[o].status \in Terminal
           /\ obj'[o] # None /\ obj'[o].uid = obj[o].uid)
              => obj'[o].status = obj[o].status]_vars

\* The boot override a PxeReboot sets does not outlive it, so that no later
\* restart boots a system from PXE, unless a PxeReboot of that system
\* failed or was cut short.
OverrideUsedUp ==
    armed \subseteq troubled \cup (IF w.op \in Pxe THEN {w.system} ELSE {})

-----------------------------------------------------------------------------
(***************************************************************************)
(* Fairness: the worker, the cache, the informer, the delays and the queue *)
(* go on. Which name the informer, the delays or the queue serve next is   *)
(* left open.                                                              *)
(***************************************************************************)
Fairness ==
    /\ WF_vars(WorkerNext)
    /\ WF_vars(CacheNext)
    /\ WF_vars(\E o \in Ops : InformerSync(o))
    /\ WF_vars(\E o \in Ops : TimerFires(o))
    /\ WF_vars(\E o \in Ops : ReconcileNext(o))

FairSpec == Spec /\ Fairness

\* Every operation on a host that stays known is finished, one way or the
\* other: no queue entry is lost on the way through missing connect
\* configs, errors, conflicts and restarts.
EventuallyFinished ==
    <>[](\A o \in Ops :
            (obj[o] # None /\ redfish[Target[o]] # "absent")
                => obj[o].status \in Terminal)

=============================================================================
