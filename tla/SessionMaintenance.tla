------------------------- MODULE SessionMaintenance -------------------------
(***************************************************************************)
(* The operations that rewrite the history of one session while nothing    *)
(* runs: rollback-and-retry, the /compact command, and the plain /rollback *)
(* route.  The first two hold a lease in the session's metadata: a token   *)
(* and an expiry that a heartbeat pushes out.  Starting or resuming a run  *)
(* looks at the lease; nothing else does, and the writes of the holder     *)
(* itself do not look at it either.  An expired lease stays in the row     *)
(* until somebody overwrites it, and its holder may renew it.              *)
(*                                                                         *)
(* Each operation is one call with a token of its own.  The stops at an    *)
(* await of the call are the values of pc.  The rows that commands leave   *)
(* behind (echo and result) are no part of what a model reads and are left *)
(* out, as is the restoring of files that precedes a deletion.             *)
(***************************************************************************)
EXTENDS Integers, FiniteSets

CONSTANTS
  Retry,        \* calls of startRollbackRetry
  Compact,      \* /compact commands of a user
  None,         \* no token
  Earlier,      \* messages of earlier runs
  MaxMessages,  \* bound: messages, those of the operations not counted
  MaxRollbacks, \* bound: calls of the route /rollback
  MaxCrashes    \* bound: crashes

ASSUME MaintenanceConstants ==
  /\ Retry \cap Compact = {}
  /\ None \notin Retry \cup Compact
  /\ Earlier \in Nat /\ MaxMessages \in Nat
  /\ MaxRollbacks \in Nat /\ MaxCrashes \in Nat

VARIABLES
  lease,      \* sessions.metadata.runtime_maintenance
  root,       \* the status of the session's active root run
  child,      \* whether a background child run is active
  rows,       \* the messages of the root thread
  top,        \* the autoincrement counter of messages.seq
  made,       \* messages ever written; the next one gets the next id
  pc,         \* [Op -> the await the call is at]
  anchor,     \* [Op -> seq of the first message to delete]
  loaded,     \* [Op -> what the summary will stand for]
  beat,       \* [Op -> the heartbeat's timer is set]
  lost,       \* [Op -> maintenanceLost]
  aborted,    \* [Op -> compactAbort.signal.aborted]
  controller, \* statusTracker.maintenanceControllers of the session
  lapsed,     \* history: holders whose lease has expired since they last had it confirmed
  overtaken,  \* history: operations during which a run was started without a lease
  crossed,    \* history: operations during which another retry started its run
  rollbacks, crashes

vars == <<lease, root, child, rows, top, made, pc, anchor, loaded, beat, lost,
          aborted, controller, lapsed, overtaken, crossed, rollbacks, crashes>>
session == <<lease, root, child>>
history == <<rows, top, made>>
local == <<anchor, loaded, beat, lost, aborted, controller>>
bounds == <<rollbacks, crashes>>

Op == Retry \cup Compact

NoLease == [token |-> None, live |-> FALSE]
NothingLoaded == [upTo |-> 0, knows |-> {}]

\* A summary (upTo > 0) carries replaces_up_to_seq; `knows' are the messages
\* whose content went into its text, directly or by an older summary.
Message == [seq : Nat, id : Nat, upTo : Nat, knows : SUBSET Nat]

\* Where a call that has claimed the lease may stand before it has let go of it.
Holding == {"claimed", "rewind", "renew", "send", "start", "join", "load", "summarise", "settle"}

Active == root # "none" \/ child

-----------------------------------------------------------------------------
(* The lease.                                                              *)

\* Mutants, here and below: the definition that follows, with a plausible bug.
ActiveLeaseForEver == lease.token

\* activeMaintenance without includeExpired.
ActiveLease == IF lease.live THEN lease.token ELSE None

\* The check of startOrAppendRoot and claimSessionMaintenance for a caller with token t.
Blocked(t) == ActiveLease \notin {None, t}

\* startOrAppendRoot compares the token of the active lease with that of its
\* caller.  With neither (undefined === undefined) it also takes away an
\* expired lease that is still in the row.
Cleared(t) == IF ActiveLease = t THEN NoLease ELSE lease

\* renewSessionMaintenance accepts the token of an expired lease.
Renewable(o) == lease.token = o

Renewed(o) ==
  /\ lease' = [token |-> o, live |-> TRUE]
  /\ lapsed' = lapsed \ {o}

-----------------------------------------------------------------------------
(* Messages.                                                               *)

NextSeqOfRows ==
  LET used == {0} \cup {r.seq : r \in rows}
  IN 1 + CHOOSE n \in used : \A k \in used : k <= n

\* AUTOINCREMENT: the number of a deleted row is not used again.
NextSeq == top + 1

Append1(upTo, knows) ==
  /\ rows' = rows \cup {[seq |-> NextSeq, id |-> made + 1, upTo |-> upTo, knows |-> knows]}
  /\ top' = NextSeq
  /\ made' = made + 1

Summaries == {r \in rows : r.upTo > 0}
Newest == {s \in Summaries : \A t \in Summaries : t.seq <= s.seq}

\* resolveCompressionViewDetailed, without the summary itself.
Visible == {r \in rows \ Summaries : \A s \in Newest : r.seq > s.upTo}

Room == made < MaxMessages

-----------------------------------------------------------------------------
(* Runs.                                                                   *)

\* The transaction of startOrAppendRoot that creates a run.
StartRun(t) ==
  /\ ~Blocked(t)
  /\ root = "none"
  /\ root' = "running"
  /\ lease' = Cleared(t)
  /\ Append1(0, {})

Underway == {o \in Op : pc[o] \in Holding}

\* A user's message, a notice or a continuation starts a run.
OthersStart ==
  /\ Room
  /\ StartRun(None)
  /\ overtaken' = overtaken \cup Underway
  /\ UNCHANGED <<child, pc, local, lapsed, crossed, bounds>>

RunWrites ==
  /\ Room
  /\ root = "running" \/ child
  /\ Append1(0, {})
  /\ UNCHANGED <<session, pc, local, lapsed, overtaken, crossed, bounds>>

Suspend ==
  /\ root = "running"
  /\ root' = "suspended"
  /\ UNCHANGED <<lease, child, history, pc, local, lapsed, overtaken, crossed, bounds>>

\* claimResume
Resume ==
  /\ root = "suspended"
  /\ ActiveLease = None
  /\ root' = "running"
  /\ UNCHANGED <<lease, child, history, pc, local, lapsed, overtaken, crossed, bounds>>

RootEnds ==
  /\ root = "running"
  /\ root' = "none"
  /\ UNCHANGED <<lease, child, history, pc, local, lapsed, overtaken, crossed, bounds>>

\* A background child has a lease of its own and outlives its root.
ChildStarts ==
  /\ root = "running"
  /\ ~child
  /\ child' = TRUE
  /\ UNCHANGED <<lease, root, history, pc, local, lapsed, overtaken, crossed, bounds>>

ChildEnds ==
  /\ child
  /\ child' = FALSE
  /\ UNCHANGED <<lease, root, history, pc, local, lapsed, overtaken, crossed, bounds>>

\* stopSession.  A running root is aborted and ends by RootEnds.
StopsCompaction ==
  /\ root # "running"
  /\ controller # None
  /\ aborted' = [aborted EXCEPT ![controller] = TRUE]
  /\ UNCHANGED <<session, history, pc, anchor, loaded, beat, lost, controller, lapsed, overtaken, crossed, bounds>>

InterruptSession ==
  /\ root # "running"
  /\ controller = None
  /\ root' = "none"
  /\ child' = FALSE
  /\ UNCHANGED <<lease, history, pc, local, lapsed, overtaken, crossed, bounds>>

-----------------------------------------------------------------------------
(* The operations.                                                         *)

Goto(o, where) == pc' = [pc EXCEPT ![o] = where]

\* The busy checks before any lease, and the message to go back to.
Check(o) ==
  /\ pc[o] = "idle"
  /\ root = "none"
  /\ IF o \in Compact
       THEN UNCHANGED anchor
       ELSE \E r \in rows \ Summaries : anchor' = [anchor EXCEPT ![o] = r.seq]
  /\ Goto(o, "claim")
  /\ UNCHANGED <<session, history, loaded, beat, lost, aborted, controller, lapsed, overtaken, crossed, bounds>>

ClaimableOverChildren(o) == root = "none" /\ ~Blocked(o)

Claimable(o) == ~Active /\ ~Blocked(o)

\* claimSessionMaintenance
Claim(o) ==
  /\ pc[o] = "claim"
  /\ IF Claimable(o)
       THEN Renewed(o) /\ Goto(o, "claimed") /\ UNCHANGED anchor
       ELSE Goto(o, "done") /\ UNCHANGED <<lease, lapsed>> /\ anchor' = [anchor EXCEPT ![o] = 0]
  /\ UNCHANGED <<root, child, history, loaded, beat, lost, aborted, controller, overtaken, crossed, bounds>>

\* setInterval, and for a compaction registerMaintenanceAbort.
Begin(o) ==
  /\ pc[o] = "claimed"
  /\ beat' = [beat EXCEPT ![o] = TRUE]
  /\ IF o \in Compact
       THEN controller' = o /\ Goto(o, "load")
       ELSE UNCHANGED controller /\ Goto(o, "rewind")
  /\ UNCHANGED <<session, history, anchor, loaded, lost, aborted, lapsed, overtaken, crossed, bounds>>

Without(seq) == {r \in rows : r.seq < seq}

\* rollbackMessages: deletes, without a look at the lease or at the runs.
Delete(o) ==
  /\ pc[o] = "rewind"
  /\ rows' = Without(anchor[o])
  /\ anchor' = [anchor EXCEPT ![o] = 0]
  /\ Goto(o, "renew")
  /\ UNCHANGED <<session, top, made, loaded, beat, lost, aborted, controller, lapsed, overtaken, crossed, bounds>>

\* The check of the lease after a deletion and after a compaction.
Renew(o) ==
  /\ pc[o] \in {"renew", "settle"}
  /\ IF ~lost[o] /\ Renewable(o)
       THEN Renewed(o) /\ Goto(o, IF pc[o] = "renew" THEN "send" ELSE "finish")
       ELSE Goto(o, "finish") /\ UNCHANGED <<lease, lapsed>>
  /\ UNCHANGED <<root, child, history, local, overtaken, crossed, bounds>>

\* sendUserMessage: the text of the message may be a /compact command; else the
\* policy `reject' refuses a busy session before attachments are resolved.
Send(o) ==
  /\ pc[o] = "send"
  /\ \/ Goto(o, "join")
     \/ Goto(o, IF root = "none" THEN "start" ELSE "finish")
  /\ UNCHANGED <<session, history, local, lapsed, overtaken, crossed, bounds>>

\* startOrAppendRoot with the token; `reject' queues nothing.
Start(o) ==
  /\ pc[o] = "start"
  /\ Goto(o, "finish")
  /\ IF Blocked(o) \/ root # "none"
       THEN UNCHANGED <<lease, root, history, crossed>>
       ELSE StartRun(o) /\ crossed' = crossed \cup (Underway \ {o})
  /\ UNCHANGED <<child, local, lapsed, overtaken, bounds>>

\* A /compact under the retry's token renews instead of claiming, and has a
\* maintenanceLost of its own.
Join(o) ==
  /\ pc[o] = "join"
  /\ lost' = [lost EXCEPT ![o] = FALSE]
  /\ IF root = "none" /\ Renewable(o)
       THEN Renewed(o) /\ controller' = o /\ Goto(o, "load")
       ELSE Goto(o, "finish") /\ UNCHANGED <<lease, lapsed, controller>>
  /\ UNCHANGED <<root, child, history, anchor, loaded, beat, aborted, overtaken, crossed, bounds>>

\* loadHistory and selectCompressibleSegment: any prefix of what is visible.
Load(o) ==
  /\ pc[o] = "load"
  /\ \/ /\ \E last \in Visible :
             loaded' = [loaded EXCEPT ![o] =
               [upTo |-> last.seq,
                knows |-> {r.id : r \in {v \in Visible : v.seq <= last.seq}}
                            \cup UNION {s.knows : s \in Newest}]]
        /\ Goto(o, "summarise")
     \/ Goto(o, "settle") /\ UNCHANGED loaded  \* nothing to compress
  /\ UNCHANGED <<session, history, anchor, beat, lost, aborted, controller, lapsed, overtaken, crossed, bounds>>

\* summarizeSegment, and insertCompressionMessage in the same turn.
Summarise(o) ==
  /\ pc[o] = "summarise"
  /\ IF aborted[o]
       THEN Goto(o, "finish") /\ UNCHANGED history
       ELSE \/ Append1(loaded[o].upTo, loaded[o].knows) /\ Goto(o, "settle")
            \/ UNCHANGED history /\ Goto(o, "settle")  \* no model has answered
  /\ UNCHANGED <<session, local, lapsed, overtaken, crossed, bounds>>

Forget(o) ==
  /\ lapsed' = lapsed \ {o}
  /\ overtaken' = overtaken \ {o}
  /\ crossed' = crossed \ {o}

\* unregisterMaintenanceAbort takes away the controller of this call only.
Unregistered(o) == IF controller = o THEN None ELSE controller

\* The finally blocks: clearInterval, unregisterMaintenanceAbort, releaseSessionMaintenance.
Finish(o) ==
  /\ pc[o] = "finish"
  /\ Goto(o, "done")
  /\ beat' = [beat EXCEPT ![o] = FALSE]
  /\ controller' = Unregistered(o)
  /\ lease' = IF lease.token = o THEN NoLease ELSE lease
  /\ loaded' = [loaded EXCEPT ![o] = NothingLoaded]
  /\ lost' = [lost EXCEPT ![o] = FALSE]
  /\ aborted' = [aborted EXCEPT ![o] = FALSE]
  /\ Forget(o)
  /\ UNCHANGED <<root, child, history, anchor, bounds>>

\* A tick of the heartbeat's timer; the renewal may also fail.
Heartbeat(o) ==
  /\ beat[o]
  /\ \/ /\ Renewable(o)
        /\ Renewed(o)
        /\ UNCHANGED lost
     \/ /\ lost' = [lost EXCEPT ![o] = TRUE]
        /\ UNCHANGED <<lease, lapsed>>
  /\ UNCHANGED <<root, child, history, pc, anchor, loaded, beat, aborted, controller, overtaken, crossed, bounds>>

\* The route /rollback takes no lease.  It asks isSessionBusy, then awaits the
\* restoring of files: when it deletes, nothing of that answer need hold.
PlainRollback ==
  /\ rollbacks < MaxRollbacks
  /\ rollbacks' = rollbacks + 1
  /\ \E r \in rows \ Summaries : rows' = Without(r.seq)
  /\ UNCHANGED <<session, top, made, pc, local, lapsed, overtaken, crossed, crashes>>

-----------------------------------------------------------------------------
(* Time and the process.                                                   *)

Lapse ==
  /\ lease.live
  /\ lease' = [lease EXCEPT !.live = FALSE]
  /\ lapsed' = lapsed \cup ({lease.token} \cap Underway)
  /\ UNCHANGED <<root, child, history, pc, local, overtaken, crossed, bounds>>

\* The calls, timers and controllers are gone; recoverOrphanedRuns interrupts
\* the runs that were running, or suspends those that wait for an answer.
Crash ==
  /\ crashes < MaxCrashes
  /\ crashes' = crashes + 1
  /\ root' \in IF root = "running" THEN {"none", "suspended"} ELSE {root}
  /\ child' \in {FALSE, child}
  /\ pc' = [o \in Op |-> IF pc[o] = "idle" THEN "idle" ELSE "done"]
  /\ beat' = [o \in Op |-> FALSE]
  /\ anchor' = [o \in Op |-> 0]
  /\ loaded' = [o \in Op |-> NothingLoaded]
  /\ lost' = [o \in Op |-> FALSE]
  /\ aborted' = [o \in Op |-> FALSE]
  /\ controller' = None
  /\ lapsed' = {} /\ overtaken' = {} /\ crossed' = {}
  /\ UNCHANGED <<lease, history, rollbacks>>

-----------------------------------------------------------------------------
Init ==
  /\ lease = NoLease
  /\ root = "none"
  /\ child = FALSE
  /\ rows = {[seq |-> n, id |-> n, upTo |-> 0, knows |-> {}] : n \in 1..Earlier}
  /\ top = Earlier
  /\ made = Earlier
  /\ pc = [o \in Op |-> "idle"]
  /\ anchor = [o \in Op |-> 0]
  /\ loaded = [o \in Op |-> NothingLoaded]
  /\ beat = [o \in Op |-> FALSE]
  /\ lost = [o \in Op |-> FALSE]
  /\ aborted = [o \in Op |-> FALSE]
  /\ controller = None
  /\ lapsed = {}
  /\ overtaken = {}
  /\ crossed = {}
  /\ rollbacks = 0
  /\ crashes = 0

Runs ==
  \/ OthersStart \/ RunWrites \/ Suspend \/ Resume \/ RootEnds
  \/ ChildStarts \/ ChildEnds \/ StopsCompaction \/ InterruptSession

\* What a call does next once it is past its checks.
Proceeds(o) ==
  \/ Claim(o) \/ Begin(o) \/ Delete(o) \/ Renew(o) \/ Send(o) \/ Start(o)
  \/ Join(o) \/ Load(o) \/ Summarise(o) \/ Finish(o)

Next ==
  \/ Runs
  \/ \E o \in Op : Check(o) \/ Proceeds(o) \/ Heartbeat(o)
  \/ PlainRollback
  \/ Lapse
  \/ Crash

Spec == Init /\ [][Next]_vars

\* A lease that no heartbeat renews runs out.
Expires == Lapse /\ ~(lease.token \in Op /\ beat[lease.token])

\* Calls come back from what they await: storage answers, and the requests to
\* a model have a timeout.
FairSpec == Spec /\ WF_vars(Expires) /\ \A o \in Op : WF_vars(Proceeds(o))

-----------------------------------------------------------------------------
(* Properties.                                                             *)

\* A call holds the lease only between its claim and its release, a heartbeat
\* and a stop switch belong to such a call, ids and numbers are below their counters.
MaintTypeOK ==
  /\ lease \in [token : Op \cup {None}, live : BOOLEAN]
  /\ lease.live => lease.token # None
  /\ root \in {"none", "running", "suspended"} /\ child \in BOOLEAN
  /\ rows \subseteq Message
  /\ \A r \in rows : r.seq \in 1..top /\ r.id \in 1..made
  /\ top \in Nat /\ made \in Nat
  /\ pc \in [Op -> Holding \cup {"idle", "claim", "finish", "done"}]
  /\ anchor \in [Op -> Nat]
  /\ loaded \in [Op -> [upTo : Nat, knows : SUBSET Nat]]
  /\ beat \in [Op -> BOOLEAN] /\ lost \in [Op -> BOOLEAN] /\ aborted \in [Op -> BOOLEAN]
  /\ controller \in Op \cup {None}
  /\ lapsed \subseteq Op /\ overtaken \subseteq Op /\ crossed \subseteq Op
  /\ rollbacks \in 0..MaxRollbacks /\ crashes \in 0..MaxCrashes
  /\ \A o \in Op : beat[o] => pc[o] \in Holding \cup {"finish"}
  /\ controller # None => pc[controller] \in {"load", "summarise", "settle", "finish"}

\* While the row still names a call, expired or not, no run has started since
\* its claim: that is what makes it sound to renew an expired lease.  (A retry
\* that starts its run without a lease leaves the expired lease of another call.)
NamedMeansAlone ==
  \A o \in Op \ crossed : lease.token = o /\ pc[o] \in Holding =>
    ~Active /\ o \notin overtaken

\* A call whose lease has not expired since it was last confirmed still has it,
\* and rewrites the history with no run active.
RewritesAlone ==
  \A o \in Op \ crossed : pc[o] \in Holding /\ o \notin lapsed =>
    lease = [token |-> o, live |-> TRUE] /\ ~Active

\* The run of a retry follows directly on its deletion: nobody has started a
\* run in between, unless the lease expired after the last check.
RetryFollowsDeletion ==
  [][\A o \in Retry \ crossed : pc[o] = "start" /\ pc'[o] # "start" /\ root' # root =>
       o \in lapsed \/ o \notin overtaken]_vars

\* No summary hides a message whose content did not go into it, whatever was
\* deleted and written while the model worked on it, and whichever of several
\* summaries a later rollback makes the newest.
NothingHidden ==
  \A s \in Summaries, r \in rows \ Summaries : r.seq <= s.upTo => r.id \in s.knows

\* The session does not stay closed: calls release their lease, and what a
\* crash leaves behind expires.
SessionReopens == [](ActiveLease # None => <>(ActiveLease = None))

=============================================================================
