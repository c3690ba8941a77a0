---------------------- MODULE SessionMaintenance_proofs ----------------------
(***************************************************************************)
(* Proofs about SessionMaintenance, for any number of calls, messages,     *)
(* rollbacks and crashes.                                                  *)
(*                                                                         *)
(* The lease: whoever starts a run without a token takes an expired lease  *)
(* out of the row, so a row that still names a call has seen no run since  *)
(* the claim of that call (NamedMeansAlone), and renewing it is sound.     *)
(* The history: what a summary will hide is fixed below the counter of     *)
(* messages, and the counter never goes back.                              *)
(***************************************************************************)
EXTENDS SessionMaintenance, TLAPS

\* The history variables speak of calls that hold or are about to let go.
Marked ==
  \A o \in Op : o \in lapsed \cup overtaken \cup crossed => pc[o] \in Holding \cup {"finish"}

LeaseInv == MaintTypeOK /\ Marked /\ NamedMeansAlone /\ RewritesAlone

LEMMA PcTypes ==
  ASSUME MaintTypeOK, NEW o \in Op, NEW w \in Holding \cup {"idle", "claim", "finish", "done"}, Goto(o, w)
  PROVE  /\ pc' \in [Op -> Holding \cup {"idle", "claim", "finish", "done"}]
         /\ pc'[o] = w
         /\ \A q \in Op \ {o} : pc'[q] = pc[q]
  BY DEF MaintTypeOK, Goto

LEMMA AppendTypes ==
  ASSUME MaintTypeOK, NEW u \in Nat, NEW k \in SUBSET Nat, Append1(u, k)
  PROVE  /\ rows' \subseteq Message
         /\ top' \in Nat /\ made' \in Nat
         /\ \A r \in rows' : r.seq \in 1..top' /\ r.id \in 1..made'
<1> DEFINE new == [seq |-> top + 1, id |-> made + 1, upTo |-> u, knows |-> k]
<1>1. /\ top \in Nat /\ made \in Nat
      /\ top' = top + 1 /\ made' = made + 1
      /\ rows' = rows \cup {new}
  BY DEF MaintTypeOK, Append1, NextSeq
<1>2. top + 1 \in Nat /\ made + 1 \in Nat
  BY <1>1
<1>3. new \in Message /\ new.seq = top + 1 /\ new.id = made + 1
  BY <1>2 DEF Message
<1>4. \A r \in rows : r \in Message /\ r.seq \in 1..top /\ r.id \in 1..made
  BY DEF MaintTypeOK
<1> HIDE DEF new
<1>5. \A r \in rows' : r.seq \in 1..(top + 1) /\ r.id \in 1..(made + 1)
  <2>1. SUFFICES ASSUME NEW r \in rows' PROVE r.seq \in 1..(top + 1) /\ r.id \in 1..(made + 1)
    OBVIOUS
  <2>2. CASE r = new
    BY <1>1, <1>3, <2>2
  <2>3. CASE r \in rows
    BY <1>1, <1>4, <2>3
  <2> QED BY <1>1, <2>2, <2>3
<1> QED BY <1>1, <1>2, <1>3, <1>4, <1>5

LEMMA PlainAppendTypes ==
  ASSUME MaintTypeOK, Append1(0, {})
  PROVE  /\ rows' \subseteq Message
         /\ top' \in Nat /\ made' \in Nat
         /\ \A r \in rows' : r.seq \in 1..top' /\ r.id \in 1..made'
<1>1. 0 \in Nat /\ {} \in SUBSET Nat
  OBVIOUS
<1> HIDE DEF MaintTypeOK, Append1
<1> QED BY <1>1, AppendTypes, Zenon

LEMMA RenewedTypes ==
  ASSUME MaintTypeOK, NEW o \in Op, Renewed(o)
  PROVE  /\ lease' \in [token : Op \cup {None}, live : BOOLEAN]
         /\ lease'.live => lease'.token # None
         /\ lapsed' \subseteq Op
  BY MaintenanceConstants DEF MaintTypeOK, Renewed, Op

LEMMA StartTypes ==
  ASSUME MaintTypeOK, NEW t, StartRun(t)
  PROVE  /\ lease' \in [token : Op \cup {None}, live : BOOLEAN]
         /\ lease'.live => lease'.token # None
         /\ root' = "running"
         /\ rows' \subseteq Message
         /\ top' \in Nat /\ made' \in Nat
         /\ \A r \in rows' : r.seq \in 1..top' /\ r.id \in 1..made'
<1>1. lease' \in [token : Op \cup {None}, live : BOOLEAN] /\ (lease'.live => lease'.token # None)
  BY DEF MaintTypeOK, StartRun, Cleared, NoLease
<1>2. Append1(0, {}) /\ root' = "running"
  BY DEF StartRun
<1>3. /\ rows' \subseteq Message
      /\ top' \in Nat /\ made' \in Nat
      /\ \A r \in rows' : r.seq \in 1..top' /\ r.id \in 1..made'
  BY <1>2, PlainAppendTypes
<1> QED BY <1>1, <1>2, <1>3

LEMMA TypeInit == Init => MaintTypeOK /\ Marked
<1> SUFFICES ASSUME Init PROVE MaintTypeOK /\ Marked
  OBVIOUS
<1>1. rows \subseteq Message /\ \A r \in rows : r.seq \in 1..top /\ r.id \in 1..made
  BY MaintenanceConstants DEF Init, Message
<1>2. lease \in [token : Op \cup {None}, live : BOOLEAN] /\ (lease.live => lease.token # None)
  BY DEF Init, NoLease
<1>3. loaded \in [Op -> [upTo : Nat, knows : SUBSET Nat]]
  BY DEF Init, NothingLoaded
<1>4. pc \in [Op -> Holding \cup {"idle", "claim", "finish", "done"}] /\ anchor \in [Op -> Nat]
  BY DEF Init
<1>5. /\ beat \in [Op -> BOOLEAN] /\ lost \in [Op -> BOOLEAN] /\ aborted \in [Op -> BOOLEAN]
      /\ \A o \in Op : ~beat[o]
  BY DEF Init
<1>6. /\ root = "none" /\ child = FALSE /\ controller = None /\ top = Earlier /\ made = Earlier
      /\ lapsed = {} /\ overtaken = {} /\ crossed = {} /\ rollbacks = 0 /\ crashes = 0
  BY DEF Init
<1>7. top \in Nat /\ made \in Nat /\ rollbacks \in 0..MaxRollbacks /\ crashes \in 0..MaxCrashes
  BY <1>6, MaintenanceConstants
<1>8. MaintTypeOK
  BY <1>1, <1>2, <1>3, <1>4, <1>5, <1>6, <1>7 DEF MaintTypeOK
<1> QED BY <1>6, <1>8 DEF Marked

LEMMA TypeStep == MaintTypeOK /\ [Next]_vars => MaintTypeOK'
<1> SUFFICES ASSUME MaintTypeOK, [Next]_vars PROVE MaintTypeOK'
  OBVIOUS
<1> USE MaintenanceConstants
<1>1. CASE OthersStart
  <2>1. StartRun(None)
    BY <1>1 DEF OthersStart
  <2> HIDE DEF StartRun
  <2>2. overtaken' \subseteq Op
    BY <1>1 DEF OthersStart, MaintTypeOK, Underway
  <2> QED BY <1>1, <2>1, <2>2, StartTypes DEF OthersStart, MaintTypeOK, local, bounds
<1>2. CASE RunWrites
  <2>1. Append1(0, {})
    BY <1>2 DEF RunWrites
  <2>2. /\ rows' \subseteq Message
        /\ top' \in Nat /\ made' \in Nat
        /\ \A r \in rows' : r.seq \in 1..top' /\ r.id \in 1..made'
    BY <2>1, PlainAppendTypes
  <2> QED BY <1>2, <2>2 DEF RunWrites, MaintTypeOK, local, session, bounds
<1>3. CASE Suspend \/ Resume \/ RootEnds \/ ChildStarts \/ ChildEnds
  BY <1>3 DEF Suspend, Resume, RootEnds, ChildStarts, ChildEnds, MaintTypeOK, history, local, bounds
<1>4. CASE StopsCompaction
  BY <1>4 DEF StopsCompaction, MaintTypeOK, history, session, bounds
<1>5. CASE InterruptSession
  BY <1>5 DEF InterruptSession, MaintTypeOK, history, local, bounds
<1>6. ASSUME NEW o \in Op, Check(o) \/ Send(o) \/ Load(o)
      PROVE  MaintTypeOK'
  <2>1. CASE Check(o)
    <3>1. anchor' \in [Op -> Nat]
      BY <2>1 DEF Check, MaintTypeOK, Message, Summaries
    <3>2. Goto(o, "claim") /\ pc[o] = "idle"
      BY <2>1 DEF Check
    <3> QED BY <2>1, <3>1, <3>2, PcTypes DEF Check, MaintTypeOK, history, session, bounds, Holding
  <2>2. CASE Send(o)
    <3>1. PICK w \in {"join", "start", "finish"} : Goto(o, w)
      BY <2>2 DEF Send
    <3>2. pc[o] = "send"
      BY <2>2 DEF Send
    <3>3. /\ pc' \in [Op -> Holding \cup {"idle", "claim", "finish", "done"}]
          /\ pc'[o] \in Holding \cup {"finish"}
          /\ \A q \in Op \ {o} : pc'[q] = pc[q]
      BY <3>1, PcTypes DEF Holding
    <3>4. controller # o
      BY <3>2 DEF MaintTypeOK, Op
    <3>8. controller \in Op \cup {None}
      BY DEF MaintTypeOK
    <3>5. controller # None => pc'[controller] = pc[controller]
      BY <3>3, <3>4, <3>8
    <3>6. UNCHANGED <<session, history, local, lapsed, overtaken, crossed, bounds>>
      BY <2>2 DEF Send
    <3>7. \A q \in Op : beat[q] => pc'[q] \in Holding \cup {"finish"}
      BY <3>3 DEF MaintTypeOK
    <3> QED BY <3>3, <3>5, <3>6, <3>7 DEF MaintTypeOK, history, session, local, bounds
  <2>3. CASE Load(o)
    <3>1. PICK w \in {"summarise", "settle"} : Goto(o, w)
      BY <2>3 DEF Load
    <3>2. pc[o] = "load"
      BY <2>3 DEF Load
    <3>3. \A r \in rows : r.seq \in Nat /\ r.id \in Nat /\ r.knows \in SUBSET Nat
      BY DEF MaintTypeOK, Message
    <3>4. loaded' \in [Op -> [upTo : Nat, knows : SUBSET Nat]]
      <4>1. CASE UNCHANGED loaded
        BY <4>1 DEF MaintTypeOK
      <4>2. CASE ~UNCHANGED loaded
        <5>1. PICK last \in Visible :
                loaded' = [loaded EXCEPT ![o] =
                   [upTo |-> last.seq,
                    knows |-> {r.id : r \in {v \in Visible : v.seq <= last.seq}}
                                \cup UNION {s.knows : s \in Newest}]]
          BY <2>3, <4>2 DEF Load
        <5>2. Visible \subseteq rows /\ Newest \subseteq rows
          BY DEF Visible, Newest, Summaries
        <5>3. last.seq \in Nat
          BY <3>3, <5>2
        <5>4. {r.id : r \in {v \in Visible : v.seq <= last.seq}} \subseteq Nat
          BY <3>3, <5>2
        <5>5. UNION {s.knows : s \in Newest} \subseteq Nat
          BY <3>3, <5>2
        <5> DEFINE k == {r.id : r \in {v \in Visible : v.seq <= last.seq}}
                          \cup UNION {s.knows : s \in Newest}
        <5>6. k \in SUBSET Nat
          BY <5>4, <5>5
        <5> HIDE DEF k
        <5>7. loaded' = [loaded EXCEPT ![o] = [upTo |-> last.seq, knows |-> k]]
          BY <5>1 DEF k
        <5> QED BY <5>3, <5>6, <5>7 DEF MaintTypeOK
      <4> QED BY <4>1, <4>2
    <3> QED BY <2>3, <3>1, <3>2, <3>4, PcTypes DEF Load, MaintTypeOK, history, session, bounds, Holding
  <2> QED BY <1>6, <2>1, <2>2, <2>3
<1>7. ASSUME NEW o \in Op, Claim(o)
      PROVE  MaintTypeOK'
  <2>1. PICK w \in {"claimed", "done"} : Goto(o, w)
    BY <1>7 DEF Claim
  <2>2. pc[o] = "claim"
    BY <1>7 DEF Claim
  <2>3. Renewed(o) \/ UNCHANGED <<lease, lapsed>>
    BY <1>7 DEF Claim
  <2>4. /\ lease' \in [token : Op \cup {None}, live : BOOLEAN]
        /\ lease'.live => lease'.token # None
        /\ lapsed' \subseteq Op
    BY <2>3, RenewedTypes DEF MaintTypeOK
  <2>5. anchor' \in [Op -> Nat]
    BY <1>7 DEF Claim, MaintTypeOK
  <2> QED BY <1>7, <2>1, <2>2, <2>4, <2>5, PcTypes DEF Claim, MaintTypeOK, history, bounds, Holding
<1>8. ASSUME NEW o \in Op, Begin(o)
      PROVE  MaintTypeOK'
  <2>1. pc[o] = "claimed" /\ beat' = [beat EXCEPT ![o] = TRUE]
    BY <1>8 DEF Begin
  <2>2. \/ controller' = o /\ Goto(o, "load")
        \/ UNCHANGED controller /\ Goto(o, "rewind")
    BY <1>8 DEF Begin
  <2>3. beat' \in [Op -> BOOLEAN] /\ \A q \in Op \ {o} : beat'[q] = beat[q]
    BY <2>1 DEF MaintTypeOK
  <2>4. CASE controller' = o /\ Goto(o, "load")
    BY <1>8, <2>1, <2>3, <2>4, PcTypes DEF Begin, MaintTypeOK, history, session, bounds, Holding
  <2>5. CASE UNCHANGED controller /\ Goto(o, "rewind")
    BY <1>8, <2>1, <2>3, <2>5, PcTypes DEF Begin, MaintTypeOK, history, session, bounds, Holding
  <2> QED BY <2>2, <2>4, <2>5
<1>9. ASSUME NEW o \in Op, Delete(o)
      PROVE  MaintTypeOK'
  <2>1. pc[o] = "rewind" /\ Goto(o, "renew")
    BY <1>9 DEF Delete
  <2>2. rows' \subseteq rows
    BY <1>9 DEF Delete, Without
  <2>3. anchor' \in [Op -> Nat]
    BY <1>9 DEF Delete, MaintTypeOK
  <2> QED BY <1>9, <2>1, <2>2, <2>3, PcTypes DEF Delete, MaintTypeOK, session, bounds, Holding
<1>10. ASSUME NEW o \in Op, Renew(o)
       PROVE  MaintTypeOK'
  <2>1. PICK w \in {"send", "finish"} : Goto(o, w)
    BY <1>10 DEF Renew
  <2>2. pc[o] \in {"renew", "settle"} /\ (pc[o] = "settle" => Goto(o, "finish"))
    BY <1>10 DEF Renew
  <2>3. Renewed(o) \/ UNCHANGED <<lease, lapsed>>
    BY <1>10 DEF Renew
  <2>4. /\ lease' \in [token : Op \cup {None}, live : BOOLEAN]
        /\ lease'.live => lease'.token # None
        /\ lapsed' \subseteq Op
    BY <2>3, RenewedTypes DEF MaintTypeOK
  <2>5. pc[o] = "settle" => pc'[o] = "finish"
    BY <2>2, PcTypes
  <2> QED BY <1>10, <2>1, <2>2, <2>4, <2>5, PcTypes DEF Renew, MaintTypeOK, history, local, bounds, Holding
<1>11. ASSUME NEW o \in Op, Start(o)
       PROVE  MaintTypeOK'
  <2>1. pc[o] = "start" /\ Goto(o, "finish")
    BY <1>11 DEF Start
  <2>2. CASE UNCHANGED <<lease, root, history, crossed>>
    BY <1>11, <2>1, <2>2, PcTypes DEF Start, MaintTypeOK, history, local, bounds, Holding
  <2>3. CASE StartRun(o) /\ crossed' = crossed \cup (Underway \ {o})
    <3>1. crossed' \subseteq Op
      BY <2>3 DEF MaintTypeOK, Underway
    <3>2. /\ lease' \in [token : Op \cup {None}, live : BOOLEAN]
          /\ lease'.live => lease'.token # None
          /\ root' = "running"
          /\ rows' \subseteq Message
          /\ top' \in Nat /\ made' \in Nat
          /\ \A r \in rows' : r.seq \in 1..top' /\ r.id \in 1..made'
      BY <2>3, StartTypes
    <3>3. /\ pc' \in [Op -> Holding \cup {"idle", "claim", "finish", "done"}]
          /\ pc'[o] = "finish"
          /\ \A q \in Op \ {o} : pc'[q] = pc[q]
      BY <2>1, PcTypes
    <3>4. UNCHANGED <<child, local, lapsed, overtaken, bounds>>
      BY <1>11 DEF Start
    <3> QED BY <2>1, <3>1, <3>2, <3>3, <3>4 DEF MaintTypeOK, local, bounds
  <2> QED BY <1>11, <2>2, <2>3 DEF Start
<1>12. ASSUME NEW o \in Op, Join(o)
       PROVE  MaintTypeOK'
  <2>1. pc[o] = "join"
    BY <1>12 DEF Join
  <2>2. CASE Renewed(o) /\ controller' = o /\ Goto(o, "load")
    BY <1>12, <2>1, <2>2, RenewedTypes, PcTypes DEF Join, MaintTypeOK, history, bounds, Holding
  <2>3. CASE Goto(o, "finish") /\ UNCHANGED <<lease, lapsed, controller>>
    BY <1>12, <2>1, <2>3, PcTypes DEF Join, MaintTypeOK, history, bounds, Holding
  <2> QED BY <1>12, <2>2, <2>3 DEF Join
<1>13. ASSUME NEW o \in Op, Summarise(o)
       PROVE  MaintTypeOK'
  <2>1. pc[o] = "summarise"
    BY <1>13 DEF Summarise
  <2>2. PICK w \in {"settle", "finish"} : Goto(o, w)
    BY <1>13 DEF Summarise
  <2>3. CASE UNCHANGED history
    BY <1>13, <2>1, <2>2, <2>3, PcTypes DEF Summarise, MaintTypeOK, history, session, local, bounds, Holding
  <2>4. CASE Append1(loaded[o].upTo, loaded[o].knows)
    <3>1. loaded[o].upTo \in Nat /\ loaded[o].knows \in SUBSET Nat
      BY DEF MaintTypeOK
    <3> QED BY <1>13, <2>1, <2>2, <2>4, <3>1, AppendTypes, PcTypes
            DEF Summarise, MaintTypeOK, session, local, bounds, Holding
  <2> QED BY <1>13, <2>3, <2>4 DEF Summarise
<1>14. ASSUME NEW o \in Op, Finish(o)
       PROVE  MaintTypeOK'
  <2>1. pc[o] = "finish" /\ Goto(o, "done")
    BY <1>14 DEF Finish
  <2>2. beat' \in [Op -> BOOLEAN] /\ beat'[o] = FALSE /\ \A q \in Op \ {o} : beat'[q] = beat[q]
    BY <1>14 DEF Finish, MaintTypeOK
  <2>3. controller' \in Op \cup {None} /\ (controller' # None => controller' = controller /\ controller' # o)
    BY <1>14 DEF Finish, Unregistered, MaintTypeOK
  <2>4. lease' \in [token : Op \cup {None}, live : BOOLEAN] /\ (lease'.live => lease'.token # None)
    BY <1>14 DEF Finish, NoLease, MaintTypeOK
  <2>5. /\ loaded' \in [Op -> [upTo : Nat, knows : SUBSET Nat]]
        /\ lost' \in [Op -> BOOLEAN] /\ aborted' \in [Op -> BOOLEAN]
    BY <1>14 DEF Finish, NothingLoaded, MaintTypeOK
  <2>6. lapsed' \subseteq Op /\ overtaken' \subseteq Op /\ crossed' \subseteq Op
    BY <1>14 DEF Finish, Forget, MaintTypeOK
  <2> QED BY <1>14, <2>1, <2>2, <2>3, <2>4, <2>5, <2>6, PcTypes DEF Finish, MaintTypeOK, history, bounds, Holding
<1>15. ASSUME NEW o \in Op, Heartbeat(o)
       PROVE  MaintTypeOK'
  <2>1. Renewed(o) \/ UNCHANGED <<lease, lapsed>>
    BY <1>15 DEF Heartbeat
  <2>2. /\ lease' \in [token : Op \cup {None}, live : BOOLEAN]
        /\ lease'.live => lease'.token # None
        /\ lapsed' \subseteq Op
    BY <2>1, RenewedTypes DEF MaintTypeOK
  <2>3. lost' \in [Op -> BOOLEAN]
    BY <1>15 DEF Heartbeat, MaintTypeOK
  <2> QED BY <1>15, <2>2, <2>3 DEF Heartbeat, MaintTypeOK, history, bounds
<1>16. CASE PlainRollback
  <2>1. rows' \subseteq rows
    BY <1>16 DEF PlainRollback, Without
  <2>2. rollbacks' \in 0..MaxRollbacks
    BY <1>16 DEF PlainRollback, MaintTypeOK
  <2> QED BY <1>16, <2>1, <2>2 DEF PlainRollback, MaintTypeOK, session, local
<1>17. CASE Lapse
  BY <1>17 DEF Lapse, MaintTypeOK, Underway, history, local, bounds
<1>18. CASE Crash
  <2>1. crashes' \in 0..MaxCrashes
    BY <1>18 DEF Crash, MaintTypeOK
  <2>2. pc' \in [Op -> Holding \cup {"idle", "claim", "finish", "done"}]
    BY <1>18 DEF Crash, Holding
  <2>3. loaded' \in [Op -> [upTo : Nat, knows : SUBSET Nat]] /\ anchor' \in [Op -> Nat]
    BY <1>18 DEF Crash, NothingLoaded
  <2> QED BY <1>18, <2>1, <2>2, <2>3 DEF Crash, MaintTypeOK, history
<1>19. CASE UNCHANGED vars
  BY <1>19 DEF vars, MaintTypeOK
<1> QED
  BY <1>1, <1>2, <1>3, <1>4, <1>5, <1>6, <1>7, <1>8, <1>9, <1>10, <1>11, <1>12, <1>13, <1>14,
     <1>15, <1>16, <1>17, <1>18, <1>19 DEF Next, Runs, Proceeds

-----------------------------------------------------------------------------
(* The lease.                                                              *)

\* Steps that neither touch the lease nor make the session active, and in which
\* no call begins to hold it.
Quiet ==
  /\ UNCHANGED <<lease, lapsed, overtaken, crossed>>
  /\ Active' => Active
  /\ \A q \in Op : /\ pc'[q] \in Holding => pc[q] \in Holding
                   /\ pc[q] \in Holding => pc'[q] \in Holding \cup {"finish"}
                   /\ pc[q] = "finish" => pc'[q] = "finish"

LEMMA QuietStep ==
  ASSUME LeaseInv, Quiet
  PROVE  Marked' /\ NamedMeansAlone' /\ RewritesAlone'
<1>1. Marked'
  BY DEF LeaseInv, Quiet, Marked
<1>2. NamedMeansAlone'
  BY DEF LeaseInv, Quiet, NamedMeansAlone
<1>3. RewritesAlone'
  BY DEF LeaseInv, Quiet, RewritesAlone
<1> QED BY <1>1, <1>2, <1>3

LEMMA Distinct == None \notin Op /\ \A w \in Holding : w \notin {"idle", "claim", "finish", "done"}
  BY MaintenanceConstants DEF Op, Holding

\* What a call that still holds its lease knows about another call that does.
LEMMA OneHolder ==
  ASSUME LeaseInv, NEW q \in Op \ crossed, pc[q] \in Holding, q \notin lapsed
  PROVE  lease = [token |-> q, live |-> TRUE] /\ ~Active /\ ActiveLease = q
  BY DEF LeaseInv, RewritesAlone, ActiveLease

\* A renewal by the call the row names.
LEMMA RenewStep ==
  ASSUME LeaseInv, NEW o \in Op, Renewable(o), Renewed(o),
         UNCHANGED <<root, child, overtaken, crossed>>,
         pc[o] \in Holding \cup {"finish"},
         pc'[o] \in Holding \cup {"finish"},
         pc[o] = "finish" => pc'[o] = "finish",
         \A q \in Op \ {o} : pc'[q] = pc[q]
  PROVE  Marked' /\ NamedMeansAlone' /\ RewritesAlone'
<1>1. lease.token = o /\ lease' = [token |-> o, live |-> TRUE] /\ lapsed' = lapsed \ {o}
  BY DEF Renewable, Renewed
<1>2. Active' = Active
  BY DEF Active
<1>3. Marked'
  BY <1>1 DEF LeaseInv, Marked
<1>4. NamedMeansAlone'
  <2>1. SUFFICES ASSUME NEW q \in Op \ crossed', lease'.token = q, pc'[q] \in Holding
                 PROVE  ~Active' /\ q \notin overtaken'
    BY DEF NamedMeansAlone
  <2>2. q = o
    BY <1>1, <2>1
  <2>3. pc[o] \in Holding
    BY <2>1, <2>2, Distinct
  <2> QED BY <1>1, <1>2, <2>1, <2>2, <2>3 DEF LeaseInv, NamedMeansAlone
<1>5. RewritesAlone'
  <2>1. SUFFICES ASSUME NEW q \in Op \ crossed', pc'[q] \in Holding, q \notin lapsed'
                 PROVE  lease' = [token |-> q, live |-> TRUE] /\ ~Active'
    BY DEF RewritesAlone
  <2>2. CASE q = o
    BY <1>1, <1>4, <2>1, <2>2 DEF NamedMeansAlone
  <2>3. CASE q # o
    <3>1. q \in Op \ crossed /\ pc[q] \in Holding /\ q \notin lapsed
      BY <1>1, <2>1, <2>3
    <3>2. lease = [token |-> q, live |-> TRUE]
      BY <3>1, OneHolder
    <3> QED BY <1>1, <2>3, <3>2
  <2> QED BY <2>2, <2>3
<1> QED BY <1>3, <1>4, <1>5

LEMMA LeaseStep == LeaseInv /\ [Next]_vars => LeaseInv'
<1> SUFFICES ASSUME LeaseInv, [Next]_vars PROVE Marked' /\ NamedMeansAlone' /\ RewritesAlone'
  BY TypeStep DEF LeaseInv
<1>0. MaintTypeOK
  BY DEF LeaseInv
<1>1. CASE OthersStart
  <2>1. /\ StartRun(None) /\ overtaken' = overtaken \cup Underway
        /\ UNCHANGED <<pc, lapsed, crossed>>
    BY <1>1 DEF OthersStart
  <2>2. ActiveLease = None /\ lease' = NoLease
    BY <2>1 DEF StartRun, Blocked, Cleared
  <2>3. Marked'
    BY <2>1 DEF LeaseInv, Marked, Underway
  <2>4. NamedMeansAlone'
    BY <2>2, Distinct DEF NamedMeansAlone, NoLease
  <2>5. RewritesAlone'
    BY <2>1, <2>2, OneHolder, Distinct DEF RewritesAlone
  <2> QED BY <2>3, <2>4, <2>5
<1>2. CASE RunWrites \/ Suspend \/ Resume \/ RootEnds \/ ChildStarts \/ ChildEnds
             \/ StopsCompaction \/ InterruptSession \/ PlainRollback
  <2>1. UNCHANGED <<lease, lapsed, overtaken, crossed, pc>>
    BY <1>2 DEF RunWrites, Suspend, Resume, RootEnds, ChildStarts, ChildEnds,
                StopsCompaction, InterruptSession, PlainRollback, session, local
  <2>2. Active' => Active
    BY <1>2 DEF RunWrites, Suspend, Resume, RootEnds, ChildStarts, ChildEnds,
                StopsCompaction, InterruptSession, PlainRollback, session, Active
  <2> QED BY <2>1, <2>2, QuietStep DEF Quiet
<1>3. ASSUME NEW o \in Op, Check(o) \/ Begin(o) \/ Delete(o) \/ Send(o) \/ Load(o) \/ Summarise(o)
      PROVE  Marked' /\ NamedMeansAlone' /\ RewritesAlone'
  <2>1. UNCHANGED <<lease, root, child, lapsed, overtaken, crossed>>
    BY <1>3 DEF Check, Begin, Delete, Send, Load, Summarise, session
  <2>2. \/ pc[o] = "idle" /\ Goto(o, "claim")
        \/ /\ pc[o] \in {"claimed", "rewind", "send", "load", "summarise"}
           /\ \E w \in {"rewind", "load", "renew", "join", "start", "finish", "summarise", "settle"} : Goto(o, w)
    BY <1>3 DEF Check, Begin, Delete, Send, Load, Summarise
  <2>3. \A q \in Op \ {o} : pc'[q] = pc[q]
    BY <1>0, <2>2, PcTypes DEF Goto, MaintTypeOK
  <2>4. \/ pc[o] = "idle" /\ pc'[o] = "claim"
        \/ pc[o] \in Holding /\ pc'[o] \in Holding \cup {"finish"}
    BY <1>0, <2>2 DEF Goto, MaintTypeOK, Holding
  <2>5. Quiet
    BY <2>1, <2>3, <2>4, Distinct DEF Quiet, Active
  <2> QED BY <2>5, QuietStep
<1>4. ASSUME NEW o \in Op, Claim(o)
      PROVE  Marked' /\ NamedMeansAlone' /\ RewritesAlone'
  <2>1. pc[o] = "claim" /\ UNCHANGED <<root, child, overtaken, crossed>>
    BY <1>4 DEF Claim
  <2>2. pc[o] \notin Holding \cup {"finish"} /\ o \notin lapsed \cup overtaken \cup crossed
    BY <2>1, Distinct DEF LeaseInv, Marked
  <2>3. CASE Claimable(o)
    <3>1. Renewed(o) /\ Goto(o, "claimed") /\ ~Active /\ ~Blocked(o)
      BY <1>4, <2>3 DEF Claim, Claimable
    <3>2. /\ lease' = [token |-> o, live |-> TRUE] /\ lapsed' = lapsed \ {o}
          /\ ActiveLease \in {None, o}
      BY <3>1 DEF Renewed, Blocked
    <3>3. pc'[o] = "claimed" /\ \A q \in Op \ {o} : pc'[q] = pc[q]
      BY <1>0, <3>1 DEF Goto, MaintTypeOK
    <3>4. ~Active'
      BY <2>1, <3>1 DEF Active
    <3>5. Marked'
      BY <2>1, <2>2, <3>2, <3>3 DEF LeaseInv, Marked, Holding
    <3>6. NamedMeansAlone'
      BY <2>1, <2>2, <3>2, <3>4 DEF NamedMeansAlone
    <3>7. RewritesAlone'
      <4>1. SUFFICES ASSUME NEW q \in Op \ crossed', pc'[q] \in Holding, q \notin lapsed', q # o
                     PROVE  FALSE
        BY <3>2, <3>4 DEF RewritesAlone
      <4>2. ActiveLease = q
        BY <2>1, <3>2, <3>3, <4>1, OneHolder
      <4> QED BY <3>2, <4>1, <4>2, Distinct
    <3> QED BY <3>5, <3>6, <3>7
  <2>4. CASE ~Claimable(o)
    <3>1. Goto(o, "done") /\ UNCHANGED <<lease, lapsed>>
      BY <1>4, <2>4 DEF Claim
    <3>2. pc'[o] = "done" /\ \A q \in Op \ {o} : pc'[q] = pc[q]
      BY <1>0, <3>1 DEF Goto, MaintTypeOK
    <3> QED BY <2>1, <2>2, <3>1, <3>2, QuietStep, Distinct DEF Quiet, Active
  <2> QED BY <2>3, <2>4
<1>5. ASSUME NEW o \in Op, Renew(o)
      PROVE  Marked' /\ NamedMeansAlone' /\ RewritesAlone'
  <2>1. pc[o] \in Holding /\ UNCHANGED <<root, child, overtaken, crossed>>
    BY <1>5 DEF Renew, Holding
  <2>2. PICK w \in {"send", "finish"} : Goto(o, w)
    BY <1>5 DEF Renew
  <2>3. pc'[o] \in Holding \cup {"finish"} /\ \A q \in Op \ {o} : pc'[q] = pc[q]
    BY <1>0, <2>2 DEF Goto, MaintTypeOK, Holding
  <2>4. CASE Renewable(o) /\ Renewed(o)
    BY <2>1, <2>3, <2>4, RenewStep, Distinct
  <2>5. CASE UNCHANGED <<lease, lapsed>>
    BY <2>1, <2>3, <2>5, QuietStep, Distinct DEF Quiet, Active
  <2> QED BY <1>5, <2>4, <2>5 DEF Renew
<1>6. ASSUME NEW o \in Op, Start(o)
      PROVE  Marked' /\ NamedMeansAlone' /\ RewritesAlone'
  <2>1. pc[o] = "start" /\ Goto(o, "finish") /\ UNCHANGED <<child, lapsed, overtaken>>
    BY <1>6 DEF Start
  <2>2. pc[o] \in Holding /\ pc'[o] = "finish" /\ \A q \in Op \ {o} : pc'[q] = pc[q]
    BY <1>0, <2>1 DEF Goto, MaintTypeOK, Holding
  <2>3. CASE UNCHANGED <<lease, root, history, crossed>>
    BY <2>1, <2>2, <2>3, QuietStep, Distinct DEF Quiet, Active
  <2>4. CASE crossed' = crossed \cup (Underway \ {o})
    <3>1. \A q \in Op \ crossed' : pc'[q] \notin Holding
      BY <2>2, <2>4, Distinct DEF Underway
    <3>2. Marked'
      BY <2>1, <2>2, <2>4 DEF LeaseInv, Marked, Underway
    <3> QED BY <3>1, <3>2 DEF NamedMeansAlone, RewritesAlone
  <2> QED BY <1>6, <2>3, <2>4 DEF Start
<1>7. ASSUME NEW o \in Op, Join(o)
      PROVE  Marked' /\ NamedMeansAlone' /\ RewritesAlone'
  <2>1. pc[o] = "join" /\ UNCHANGED <<root, child, overtaken, crossed>>
    BY <1>7 DEF Join
  <2>2. PICK w \in {"load", "finish"} : Goto(o, w)
    BY <1>7 DEF Join
  <2>3. pc[o] \in Holding /\ pc'[o] \in Holding \cup {"finish"} /\ \A q \in Op \ {o} : pc'[q] = pc[q]
    BY <1>0, <2>1, <2>2 DEF Goto, MaintTypeOK, Holding
  <2>4. CASE Renewable(o) /\ Renewed(o)
    BY <2>1, <2>3, <2>4, RenewStep, Distinct
  <2>5. CASE UNCHANGED <<lease, lapsed>>
    BY <2>1, <2>3, <2>5, QuietStep, Distinct DEF Quiet, Active
  <2> QED BY <1>7, <2>4, <2>5 DEF Join
<1>8. ASSUME NEW o \in Op, Finish(o)
      PROVE  Marked' /\ NamedMeansAlone' /\ RewritesAlone'
  <2>1. /\ Goto(o, "done")
        /\ lease' = IF lease.token = o THEN NoLease ELSE lease
        /\ lapsed' = lapsed \ {o} /\ overtaken' = overtaken \ {o} /\ crossed' = crossed \ {o}
        /\ UNCHANGED <<root, child>>
    BY <1>8 DEF Finish, Forget
  <2>2. pc'[o] = "done" /\ \A q \in Op \ {o} : pc'[q] = pc[q]
    BY <1>0, <2>1 DEF Goto, MaintTypeOK
  <2>3. Active' = Active
    BY <2>1 DEF Active
  <2>4. Marked'
    BY <2>1, <2>2 DEF LeaseInv, Marked
  <2>5. NamedMeansAlone'
    BY <2>1, <2>2, <2>3, Distinct DEF LeaseInv, NamedMeansAlone, NoLease
  <2>6. RewritesAlone'
    <3>1. SUFFICES ASSUME NEW q \in Op \ crossed', pc'[q] \in Holding, q \notin lapsed'
                   PROVE  lease' = [token |-> q, live |-> TRUE] /\ ~Active'
      BY DEF RewritesAlone
    <3>2. q # o
      BY <2>2, <3>1, Distinct
    <3>3. lease = [token |-> q, live |-> TRUE] /\ ~Active
      BY <2>1, <2>2, <3>1, <3>2, OneHolder
    <3> QED BY <2>1, <2>3, <3>2, <3>3
  <2> QED BY <2>4, <2>5, <2>6
<1>9. ASSUME NEW o \in Op, Heartbeat(o)
      PROVE  Marked' /\ NamedMeansAlone' /\ RewritesAlone'
  <2>1. /\ beat[o] /\ UNCHANGED <<root, child, pc, overtaken, crossed>>
        /\ pc[o] \in Holding \cup {"finish"}
    BY <1>0, <1>9 DEF Heartbeat, MaintTypeOK
  <2>2. CASE Renewable(o) /\ Renewed(o)
    BY <2>1, <2>2, RenewStep
  <2>3. CASE UNCHANGED <<lease, lapsed>>
    BY <2>1, <2>3, QuietStep DEF Quiet, Active
  <2> QED BY <1>9, <2>2, <2>3 DEF Heartbeat
<1>10. CASE Lapse
  <2>1. /\ lease' = [lease EXCEPT !.live = FALSE]
        /\ lapsed' = lapsed \cup ({lease.token} \cap Underway)
        /\ UNCHANGED <<root, child, pc, overtaken, crossed>>
    BY <1>10 DEF Lapse
  <2>2. lease'.token = lease.token
    BY <1>0, <2>1 DEF MaintTypeOK
  <2>3. Active' = Active
    BY <2>1 DEF Active
  <2>4. Marked'
    BY <2>1 DEF LeaseInv, Marked, Underway
  <2>5. NamedMeansAlone'
    BY <2>1, <2>2, <2>3 DEF LeaseInv, NamedMeansAlone
  <2>6. RewritesAlone'
    <3>1. SUFFICES ASSUME NEW q \in Op \ crossed', pc'[q] \in Holding, q \notin lapsed'
                   PROVE  FALSE
      BY DEF RewritesAlone
    <3>2. lease.token = q
      BY <2>1, <3>1, OneHolder
    <3> QED BY <2>1, <3>1, <3>2 DEF Underway
  <2> QED BY <2>4, <2>5, <2>6
<1>11. CASE Crash
  <2>1. /\ \A q \in Op : pc'[q] \in {"idle", "done"}
        /\ lapsed' = {} /\ overtaken' = {} /\ crossed' = {}
    BY <1>11 DEF Crash
  <2> QED BY <2>1, Distinct DEF Marked, NamedMeansAlone, RewritesAlone
<1>12. CASE UNCHANGED vars
  BY <1>12, QuietStep DEF Quiet, vars, Active
<1> QED
  BY <1>1, <1>2, <1>3, <1>4, <1>5, <1>6, <1>7, <1>8, <1>9, <1>10, <1>11, <1>12
     DEF Next, Runs, Proceeds

-----------------------------------------------------------------------------
(* The history.                                                            *)

\* A summary up to u that knows k may stand in for the messages now and later.
Covered(u, k) == u <= top /\ \A r \in rows \ Summaries : r.seq <= u => r.id \in k

HistInv ==
  /\ MaintTypeOK
  /\ \A s \in Summaries : Covered(s.upTo, s.knows)
  /\ \A o \in Op : Covered(loaded[o].upTo, loaded[o].knows)

LEMMA RowTypes ==
  ASSUME MaintTypeOK, NEW r \in rows
  PROVE  r.seq \in Nat /\ r.seq > 0 /\ r.seq <= top /\ r.upTo \in Nat
  BY DEF MaintTypeOK, Message

\* Rows only go, and what calls have loaded stays or is forgotten.
LEMMA ShrinkStep ==
  ASSUME HistInv, rows' \subseteq rows, top' = top,
         \A o \in Op : loaded'[o] \in {loaded[o], NothingLoaded}
  PROVE  /\ \A s \in Summaries' : Covered(s.upTo, s.knows)'
         /\ \A o \in Op : Covered(loaded[o].upTo, loaded[o].knows)'
<1>1. Summaries' \subseteq Summaries /\ rows' \ Summaries' \subseteq rows \ Summaries
  BY DEF Summaries
<1>2. \A s \in Summaries' : Covered(s.upTo, s.knows)'
  BY <1>1 DEF HistInv, Covered
<1>3. ASSUME NEW o \in Op PROVE Covered(loaded[o].upTo, loaded[o].knows)'
  <2>1. CASE loaded'[o] = loaded[o]
    BY <1>1, <2>1 DEF HistInv, Covered
  <2>2. CASE loaded'[o] = NothingLoaded
    <3>1. top \in Nat /\ loaded'[o].upTo = 0
      BY <2>2 DEF NothingLoaded, HistInv, MaintTypeOK
    <3>2. \A r \in rows' : r.seq \in Nat /\ r.seq > 0
      BY RowTypes DEF HistInv
    <3> QED BY <3>1, <3>2 DEF Covered
  <2> QED BY <2>1, <2>2
<1> QED BY <1>2, <1>3

\* A new row lies above what any summary stands for, and a new summary knows
\* the messages it hides.
LEMMA AppendStep ==
  ASSUME HistInv, NEW u \in Nat, NEW k, Append1(u, k), Covered(u, k), loaded' = loaded
  PROVE  /\ \A s \in Summaries' : Covered(s.upTo, s.knows)'
         /\ \A o \in Op : Covered(loaded[o].upTo, loaded[o].knows)'
<1> DEFINE new == [seq |-> top + 1, id |-> made + 1, upTo |-> u, knows |-> k]
<1>1. top \in Nat /\ top' = top + 1 /\ rows' = rows \cup {new}
  BY DEF Append1, NextSeq, HistInv, MaintTypeOK
<1>2. new.seq = top + 1 /\ new.upTo = u /\ new.knows = k
  OBVIOUS
<1> HIDE DEF new
<1>3. ASSUME NEW v \in Nat, NEW h, Covered(v, h) PROVE v <= top' /\ \A r \in rows' \ Summaries' : r.seq <= v => r.id \in h
  <2>1. v <= top /\ \A r \in rows \ Summaries : r.seq <= v => r.id \in h
    BY <1>3 DEF Covered
  <2>2. SUFFICES ASSUME NEW r \in rows' \ Summaries', r.seq <= v PROVE r.id \in h
    BY <1>1, <2>1
  <2>3. CASE r = new
    BY <1>1, <1>2, <2>1, <2>2, <2>3
  <2>4. CASE r # new
    <3>1. r \in rows \ Summaries
      BY <1>1, <2>2, <2>4 DEF Summaries
    <3> QED BY <2>1, <2>2, <3>1
  <2> QED BY <2>3, <2>4
<1>4. ASSUME NEW s \in Summaries' PROVE Covered(s.upTo, s.knows)'
  <2>1. CASE s = new
    BY <1>2, <1>3, <2>1 DEF Covered
  <2>2. CASE s # new
    <3>1. s \in Summaries
      BY <1>1, <2>2 DEF Summaries
    <3>2. s.upTo \in Nat /\ Covered(s.upTo, s.knows)
      BY <3>1, RowTypes DEF HistInv, Summaries
    <3> QED BY <1>3, <3>2 DEF Covered
  <2> QED BY <2>1, <2>2
<1>5. ASSUME NEW o \in Op PROVE Covered(loaded[o].upTo, loaded[o].knows)'
  <2>1. loaded[o].upTo \in Nat /\ Covered(loaded[o].upTo, loaded[o].knows)
    BY DEF HistInv, MaintTypeOK
  <2> QED BY <1>3, <2>1 DEF Covered
<1> QED BY <1>4, <1>5

\* What a call loads knows every message up to the last one it takes: those it
\* sees by themselves, the others by the newest summary.
LEMMA LoadStep ==
  ASSUME HistInv, NEW o \in Op, Load(o)
  PROVE  /\ \A s \in Summaries' : Covered(s.upTo, s.knows)'
         /\ \A q \in Op : Covered(loaded[q].upTo, loaded[q].knows)'
<1>1. rows' = rows /\ top' = top
  BY DEF Load, history
<1>2. CASE loaded' = loaded
  BY <1>1, <1>2, ShrinkStep
<1>3. CASE loaded' # loaded
  <2>1. PICK last \in Visible :
          loaded' = [loaded EXCEPT ![o] =
             [upTo |-> last.seq,
              knows |-> {r.id : r \in {v \in Visible : v.seq <= last.seq}}
                          \cup UNION {s.knows : s \in Newest}]]
    BY <1>3 DEF Load
  <2> DEFINE k == {r.id : r \in {v \in Visible : v.seq <= last.seq}}
                    \cup UNION {s.knows : s \in Newest}
  <2>2. last \in rows /\ last.seq <= top
    BY RowTypes DEF Visible, HistInv
  <2>3. ASSUME NEW r \in rows \ Summaries, r.seq <= last.seq PROVE r.id \in k
    <3>1. CASE r \in Visible
      BY <2>3, <3>1
    <3>2. CASE r \notin Visible
      <4>1. PICK s \in Newest : ~(r.seq > s.upTo)
        BY <2>3, <3>2 DEF Visible
      <4>2. s \in Summaries
        BY <4>1 DEF Newest
      <4>3. r.seq <= s.upTo
        BY <2>3, <4>1, <4>2, RowTypes DEF Summaries, HistInv
      <4>4. r.id \in s.knows
        BY <2>3, <4>2, <4>3 DEF HistInv, Covered
      <4> QED BY <4>1, <4>4
    <3> QED BY <3>1, <3>2
  <2>4. Covered(last.seq, k)
    BY <2>2, <2>3 DEF Covered
  <2> HIDE DEF k
  <2>5. loaded' = [loaded EXCEPT ![o] = [upTo |-> last.seq, knows |-> k]]
    BY <2>1 DEF k
  <2>6. loaded'[o] = [upTo |-> last.seq, knows |-> k] /\ \A q \in Op \ {o} : loaded'[q] = loaded[q]
    BY <2>5 DEF HistInv, MaintTypeOK
  <2>7. \A u, h : Covered(u, h) => u <= top' /\ \A r \in rows' \ Summaries' : r.seq <= u => r.id \in h
    BY <1>1 DEF Covered, Summaries
  <2>8. Summaries' = Summaries
    BY <1>1 DEF Summaries
  <2>9. \A s \in Summaries' : Covered(s.upTo, s.knows)'
    BY <2>7, <2>8 DEF HistInv, Covered
  <2>10. ASSUME NEW q \in Op PROVE Covered(loaded[q].upTo, loaded[q].knows)'
    <3>1. CASE q = o
      BY <2>4, <2>6, <2>7, <3>1 DEF Covered
    <3>2. CASE q # o
      BY <2>6, <2>7, <3>2 DEF HistInv, Covered
    <3> QED BY <3>1, <3>2
  <2> QED BY <2>9, <2>10
<1> QED BY <1>2, <1>3

LEMMA HistInit == Init => HistInv
<1> SUFFICES ASSUME Init PROVE HistInv
  OBVIOUS
<1>1. MaintTypeOK
  BY TypeInit
<1>2. Summaries = {}
  BY DEF Init, Summaries
<1>3. \A o \in Op : loaded[o].upTo = 0
  BY DEF Init, NothingLoaded
<1>4. top \in Nat /\ \A r \in rows : r.seq \in Nat /\ r.seq > 0
  BY <1>1, RowTypes DEF MaintTypeOK
<1>5. \A o \in Op : Covered(loaded[o].upTo, loaded[o].knows)
  BY <1>3, <1>4 DEF Covered
<1> QED BY <1>1, <1>2, <1>5 DEF HistInv

LEMMA HistStep == HistInv /\ [Next]_vars => HistInv'
<1> SUFFICES ASSUME HistInv, [Next]_vars
             PROVE  /\ \A s \in Summaries' : Covered(s.upTo, s.knows)'
                    /\ \A o \in Op : Covered(loaded[o].upTo, loaded[o].knows)'
  BY TypeStep DEF HistInv
<1>0. MaintTypeOK
  BY DEF HistInv
<1>1. ASSUME Append1(0, {}), UNCHANGED loaded
      PROVE  /\ \A s \in Summaries' : Covered(s.upTo, s.knows)'
             /\ \A o \in Op : Covered(loaded[o].upTo, loaded[o].knows)'
  <2>1. Covered(0, {})
    BY <1>0, RowTypes DEF Covered, MaintTypeOK
  <2> QED BY <1>1, <2>1, AppendStep
<1>2. ASSUME UNCHANGED <<rows, top, loaded>>
      PROVE  /\ \A s \in Summaries' : Covered(s.upTo, s.knows)'
             /\ \A o \in Op : Covered(loaded[o].upTo, loaded[o].knows)'
  BY <1>2, ShrinkStep
<1>3. CASE OthersStart \/ RunWrites
  BY <1>1, <1>3 DEF OthersStart, RunWrites, StartRun, local
<1>4. CASE Suspend \/ Resume \/ RootEnds \/ ChildStarts \/ ChildEnds
             \/ StopsCompaction \/ InterruptSession \/ Lapse
  BY <1>2, <1>4 DEF Suspend, Resume, RootEnds, ChildStarts, ChildEnds,
                    StopsCompaction, InterruptSession, Lapse, history, local
<1>5. ASSUME NEW o \in Op, Check(o) \/ Claim(o) \/ Begin(o) \/ Renew(o) \/ Send(o) \/ Join(o) \/ Heartbeat(o)
      PROVE  /\ \A s \in Summaries' : Covered(s.upTo, s.knows)'
             /\ \A q \in Op : Covered(loaded[q].upTo, loaded[q].knows)'
  BY <1>2, <1>5 DEF Check, Claim, Begin, Renew, Send, Join, Heartbeat, history, local
<1>6. ASSUME NEW o \in Op, Delete(o)
      PROVE  /\ \A s \in Summaries' : Covered(s.upTo, s.knows)'
             /\ \A q \in Op : Covered(loaded[q].upTo, loaded[q].knows)'
  BY <1>6, ShrinkStep DEF Delete, Without
<1>7. ASSUME NEW o \in Op, Start(o)
      PROVE  /\ \A s \in Summaries' : Covered(s.upTo, s.knows)'
             /\ \A q \in Op : Covered(loaded[q].upTo, loaded[q].knows)'
  BY <1>1, <1>2, <1>7 DEF Start, StartRun, history, local
<1>8. ASSUME NEW o \in Op, Summarise(o)
      PROVE  /\ \A s \in Summaries' : Covered(s.upTo, s.knows)'
             /\ \A q \in Op : Covered(loaded[q].upTo, loaded[q].knows)'
  <2>1. loaded' = loaded
    BY <1>8 DEF Summarise, local
  <2>2. CASE UNCHANGED history
    BY <1>2, <2>1, <2>2 DEF history
  <2>3. CASE Append1(loaded[o].upTo, loaded[o].knows)
    <3>1. loaded[o].upTo \in Nat /\ Covered(loaded[o].upTo, loaded[o].knows)
      BY <1>0 DEF HistInv, MaintTypeOK
    <3> QED BY <2>1, <2>3, <3>1, AppendStep
  <2> QED BY <1>8, <2>2, <2>3 DEF Summarise
<1>9. ASSUME NEW o \in Op, Finish(o)
      PROVE  /\ \A s \in Summaries' : Covered(s.upTo, s.knows)'
             /\ \A q \in Op : Covered(loaded[q].upTo, loaded[q].knows)'
  <2>1. UNCHANGED <<rows, top>> /\ loaded' = [loaded EXCEPT ![o] = NothingLoaded]
    BY <1>9 DEF Finish, history
  <2>2. \A q \in Op : loaded'[q] \in {loaded[q], NothingLoaded}
    BY <1>0, <2>1 DEF MaintTypeOK
  <2> QED BY <2>1, <2>2, ShrinkStep
<1>10. CASE PlainRollback
  BY <1>10, ShrinkStep DEF PlainRollback, Without, local
<1>11. CASE Crash
  BY <1>11, ShrinkStep DEF Crash, history
<1>12. CASE UNCHANGED vars
  BY <1>2, <1>12 DEF vars
<1> QED
  BY <1>3, <1>4, <1>5, <1>6, <1>7, <1>8, <1>9, <1>10, <1>11, <1>12, LoadStep
     DEF Next, Runs, Proceeds

-----------------------------------------------------------------------------
(* Theorems.                                                               *)

LEMMA LeaseInvariant == Spec => []LeaseInv
<1>1. Init => LeaseInv
  <2>1. Init => NamedMeansAlone /\ RewritesAlone
    BY Distinct DEF Init, NamedMeansAlone, RewritesAlone
  <2> QED BY <2>1, TypeInit DEF LeaseInv
<1> QED BY <1>1, LeaseStep, PTL DEF Spec

\* The rows, the lease and the calls keep their shapes: a heartbeat and a stop
\* switch never outlive the call they belong to.
THEOREM MaintTypeCorrect == Spec => []MaintTypeOK
<1>1. LeaseInv => MaintTypeOK
  BY DEF LeaseInv
<1> QED BY <1>1, LeaseInvariant, PTL

\* A row that names a call has seen no run since the call's claim, so that
\* renewing an expired lease is sound (renewSessionMaintenance).
THEOREM NamedHoldersAlone == Spec => []NamedMeansAlone
<1>1. LeaseInv => NamedMeansAlone
  BY DEF LeaseInv
<1> QED BY <1>1, LeaseInvariant, PTL

\* A holder whose lease has not expired since it was confirmed still has it and
\* rewrites the history with no run active (claimSessionMaintenance, startOrAppendRoot).
THEOREM HoldersRewriteAlone == Spec => []RewritesAlone
<1>1. LeaseInv => RewritesAlone
  BY DEF LeaseInv
<1> QED BY <1>1, LeaseInvariant, PTL

\* A retry starts its run right after its deletion (startRollbackRetry, sendUserMessage).
THEOREM RetryNext == Spec => RetryFollowsDeletion
<1>1. ASSUME LeaseInv, [Next]_vars
      PROVE  [\A o \in Retry \ crossed : pc[o] = "start" /\ pc'[o] # "start" /\ root' # root =>
                o \in lapsed \/ o \notin overtaken]_vars
  <2>1. SUFFICES ASSUME NEW o \in Retry \ crossed, pc[o] = "start", o \notin lapsed
                 PROVE  o \notin overtaken
    OBVIOUS
  <2>2. o \in Op \ crossed /\ pc[o] \in Holding
    BY <2>1 DEF Op, Holding
  <2>3. lease.token = o
    BY <2>1, <2>2, <1>1, OneHolder
  <2> QED BY <1>1, <2>2, <2>3 DEF LeaseInv, NamedMeansAlone
<1>2. Spec => [][Next]_vars
  BY DEF Spec
<1> QED BY <1>1, <1>2, LeaseInvariant, PTL DEF RetryFollowsDeletion

\* No summary hides a message whose content did not go into it
\* (selectCompressibleSegment, insertCompressionMessage, rollbackMessages).
THEOREM SummariesHideNothingUnread == Spec => []NothingHidden
<1>1. HistInv => NothingHidden
  BY DEF HistInv, Covered, NothingHidden
<1> QED BY <1>1, HistInit, HistStep, PTL DEF Spec

=============================================================================
