------------------------------ MODULE SinkLocks ------------------------------
(***************************************************************************)
(* The two locks around the shutdown of the media sink: _critSec of        *)
(* CMediaSink and _critSec of StspMediaSinkProxy.  Both are recursive.     *)
(* Three kinds of threads shut the sink down:                              *)
(*   - the pipeline calls CMediaSink::Shutdown, which gives its lock up    *)
(*     before it tells the proxy;                                          *)
(*   - a continuation that fails calls HandleError, and so Shutdown, while *)
(*     it still holds the sink's lock itself;                              *)
(*   - the application disposes of the proxy, whose destructor holds the   *)
(*     proxy's lock and calls Shutdown.                                    *)
(* A step takes one lock, or does something and gives locks up.            *)
(***************************************************************************)
EXTENDS Naturals

CONSTANTS Pipeline, Handlers, Application, \* the threads of each kind
          Free                                  \* nobody: a lock not held

Threads == Pipeline \cup Handlers \cup Application

ASSUME ThreadsAssumption ==
    /\ Free \notin Threads
    /\ Pipeline \cap Handlers = {}
    /\ Pipeline \cap Application = {}
    /\ Handlers \cap Application = {}

VARIABLES pc,           \* where each thread is
          sinkLock,     \* the thread that holds CMediaSink::_critSec
          proxyLock,    \* the thread that holds StspMediaSinkProxy::_critSec
          shutDown,     \* _IsShutdown of the sink
          toReport,     \* threads that have yet to call OnShutdown
          proxyHasSink  \* does the proxy hold the sink?

lockVars == <<pc, sinkLock, proxyLock, shutDown, toReport, proxyHasSink>>

Locations == {"idle", "disposing", "shutting down", "reporting", "returning", "done"}

LocksInit ==
    /\ pc = [t \in Threads |-> "idle"]
    /\ sinkLock = Free
    /\ proxyLock = Free
    /\ shutDown = FALSE
    /\ toReport = {}
    /\ proxyHasSink = TRUE

Goes(t, from, to) == pc[t] = from /\ pc' = [pc EXCEPT ![t] = to]

MayTake(t, lock) == lock \in {Free, t}

(* Pipeline: the call of Shutdown takes the sink's lock.  A continuation   *)
(* takes it first and fails then.                                          *)
TakeSinkLock(t) ==
    /\ t \in Pipeline \cup Handlers
    /\ Goes(t, "idle", "shutting down")
    /\ MayTake(t, sinkLock)
    /\ sinkLock' = t
    /\ UNCHANGED <<proxyLock, shutDown, toReport, proxyHasSink>>

(* The destructor of the proxy.                                            *)
TakeProxyLock(t) ==
    /\ t \in Application
    /\ MayTake(t, proxyLock)
    /\ proxyLock' = t
    /\ Goes(t, "idle", IF proxyHasSink THEN "disposing" ELSE "returning")
    /\ UNCHANGED <<sinkLock, shutDown, toReport, proxyHasSink>>

DisposeSink(t) ==
    /\ Goes(t, "disposing", "shutting down")
    /\ MayTake(t, sinkLock)
    /\ sinkLock' = t
    /\ UNCHANGED <<proxyLock, shutDown, toReport, proxyHasSink>>

(* Variant: the proxy is told from inside the lock.                        *)
KeepsLockToReport(t) == t \in Handlers \/ ~shutDown

(* Who still holds the sink's lock when Shutdown gives up its own hold.    *)
KeepsLock(t) == t \in Handlers

(* The body of Shutdown: only the first one reports.                       *)
ShutdownBody(t) ==
    /\ Goes(t, "shutting down", IF shutDown THEN "returning" ELSE "reporting")
    /\ sinkLock = t
    /\ sinkLock' = IF KeepsLock(t) THEN t ELSE Free
    /\ shutDown' = TRUE
    /\ toReport' = IF shutDown THEN toReport ELSE toReport \cup {t}
    /\ UNCHANGED <<proxyLock, proxyHasSink>>

(* OnShutdown takes the proxy's lock and drops the sink.  The lock is held *)
(* on only by the destructor, which had it before.                         *)
ReportShutdown(t) ==
    /\ Goes(t, "reporting", "returning")
    /\ MayTake(t, proxyLock)
    /\ toReport' = toReport \ {t}
    /\ proxyHasSink' = FALSE
    /\ UNCHANGED <<sinkLock, proxyLock, shutDown>>

(* Variant: a handler that has failed forgets the lock.                    *)
ReturnKeepingLock(t) ==
    /\ Goes(t, "returning", "done")
    /\ proxyLock' = IF proxyLock = t THEN Free ELSE proxyLock
    /\ proxyHasSink' = IF t \in Application THEN FALSE ELSE proxyHasSink
    /\ UNCHANGED <<sinkLock, shutDown, toReport>>

(* The call returns and its locks are given up.                            *)
Return(t) ==
    /\ Goes(t, "returning", "done")
    /\ sinkLock' = IF sinkLock = t THEN Free ELSE sinkLock
    /\ proxyLock' = IF proxyLock = t THEN Free ELSE proxyLock
    /\ proxyHasSink' = IF t \in Application THEN FALSE ELSE proxyHasSink
    /\ UNCHANGED <<shutDown, toReport>>

Step(t) ==
    \/ TakeSinkLock(t) \/ TakeProxyLock(t) \/ DisposeSink(t)
    \/ ShutdownBody(t) \/ ReportShutdown(t) \/ Return(t)

LocksNext == \E t \in Threads : Step(t)

LocksSpec == LocksInit /\ [][LocksNext]_lockVars

(* A thread that can go on does, also when others compete for the lock.    *)
FairLocksSpec == LocksSpec /\ \A t \in Threads : SF_lockVars(Step(t))
-----------------------------------------------------------------------------
(* The fields hold what their declarations allow.                          *)
LocksTypeOK ==
    /\ pc \in [Threads -> Locations]
    /\ {sinkLock, proxyLock} \subseteq Threads \cup {Free}
    /\ shutDown \in BOOLEAN /\ proxyHasSink \in BOOLEAN
    /\ toReport \in SUBSET Threads

(* A thread holds exactly the locks that belong to the place it is at: so  *)
(* none is left behind by a call that has returned, and only a failed      *)
(* handler reports with the sink's lock.                                   *)
LocksMatchPlaces ==
    \A t \in Threads :
        /\ pc[t] \in {"idle", "done"} => sinkLock # t /\ proxyLock # t
        /\ pc[t] = "disposing" =>
               t \in Application /\ sinkLock # t /\ proxyLock = t
        /\ pc[t] = "shutting down" =>
               sinkLock = t /\ (proxyLock = t <=> t \in Application)
        /\ pc[t] = "reporting" =>
               /\ sinkLock = t <=> t \in Handlers
               /\ proxyLock = t <=> t \in Application

Consistent == LocksTypeOK /\ LocksMatchPlaces

WaitsForSink(t) == pc[t] = "disposing" /\ sinkLock \notin {Free, t}
WaitsForProxy(t) == pc[t] = "reporting" /\ proxyLock \notin {Free, t}

(* An error in a continuation meets the disposal of the proxy: each holds  *)
(* the lock the other one waits for.                                       *)
ErrorMeetsDispose ==
    \E c \in Handlers, a \in Application :
        /\ WaitsForProxy(c) /\ proxyLock = a
        /\ WaitsForSink(a) /\ sinkLock = c

(* No other deadlock exists: whenever a thread waits for the sink while it *)
(* holds the proxy, or the other way round, the thread it waits for can go *)
(* on, but for an error that meets the disposal of the proxy.              *)
OnlyErrorMeetsDispose ==
    \A t, u \in Threads :
        /\ WaitsForProxy(t) /\ proxyLock = u
        /\ WaitsForSink(u) /\ sinkLock = t
        => t \in Handlers /\ u \in Application

(* Every call that has begun returns, unless an error meets the disposal.  *)
CallsReturn ==
    \A t \in Threads : pc[t] # "idle" ~> pc[t] = "done" \/ ErrorMeetsDispose
=============================================================================
