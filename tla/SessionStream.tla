--------------------------- MODULE SessionStream ---------------------------
(***************************************************************************)
(* One client of one session: the durable log the outbox writes, the hub   *)
(* that fans published envelopes out to WebSocket handlers, the handler of *)
(* a connection in recovery mode (snapshot, catch-up, buffered and live    *)
(* events, heartbeat), and the transport of the client with its cursor and *)
(* its reconnects.                                                         *)
(*                                                                         *)
(* Of the outbox only what EnvelopeDelivery promises is used: an envelope  *)
(* is its number, it is recorded once, published in any order or never,    *)
(* perhaps several times, and its row may be deleted after that.           *)
(*                                                                         *)
(* A handler reads the log in pages; what happens between two of its       *)
(* database calls is one step.  Frames of a connection arrive in order     *)
(* until it breaks.  A handler whose client has given its socket up        *)
(* changes nothing but itself and is left out from there; the frames that  *)
(* are still under way on that socket are not.                             *)
(***************************************************************************)
EXTENDS Integers, Sequences, FiniteSets

CONSTANTS
  Conn,         \* sockets, used again when both ends are done with one
  None,
  PageSize,     \* rows per page of a catch-up (500 in the code)
  MaxHistory,   \* RealtimeEventHub.maxHistory (1000 in the code)
  MaxRetries,   \* ReconnectPolicy.maxRetries (10 in the code)
  MaxSeq,       \* bound: envelopes
  MaxRepeats,   \* bound: repeated publications
  MaxBreaks,    \* bound: lost connections, failed connects and manual reconnects
  MaxCrashes    \* bound: crashes of the server

ASSUME StreamConstants ==
  /\ None \notin Conn
  /\ PageSize \in Nat \ {0} /\ MaxHistory \in Nat \ {0} /\ MaxRetries \in Nat
  /\ MaxSeq \in Nat /\ MaxRepeats \in Nat /\ MaxBreaks \in Nat /\ MaxCrashes \in Nat

VARIABLES
  last,      \* session_event_seq.last_seq
  sent,      \* numbers published at least once
  cleaned,   \* numbers whose rows are deleted
  hub,       \* RealtimeEventHub: the last MaxHistory numbers it has fanned out
  handler,   \* the server's side of the connection the client listens to
  net,       \* [Conn -> frames under way to the client]
  client,    \* the transport: status, socket, attempts, cursor
  applied,   \* history: the numbers the client has taken since its last snapshot
  base,      \* history: the watermark of that snapshot
  repeats, breaks, crashes

log == <<last, sent, cleaned>>
counters == <<repeats, breaks, crashes>>
vars == <<last, sent, cleaned, hub, handler, net, client, applied, base, repeats, breaks, crashes>>

Seqs == 1..MaxSeq

\* Frames: the snapshot with its watermark, an envelope with its number, the close.
Frame == [kind : {"snapshot", "event", "close"}, seq : 0..MaxSeq]

SnapshotFrame(w) == [kind |-> "snapshot", seq |-> w]
EventFrame(n) == [kind |-> "event", seq |-> n]
CloseFrame == [kind |-> "close", seq |-> 0]

\* An operation is the number of a live envelope; 0 is a heartbeat.
Heartbeat == 0

Handler == [pc      : {"off", "opening", "subscribed", "snapshotted", "replaying", "draining", "live"},
            lastSeq : 0..MaxSeq,
            buffer  : SUBSET Seqs,       \* bufferedLiveEvents
            batch   : SUBSET Seqs,       \* what is left of the batch taken from it
            queue   : Seq(0..MaxSeq),    \* liveDeliveryChain
            task    : {"none", "replay", "event", "heartbeat"}, \* what the catch-up is for
            cursor  : 0..MaxSeq,
            target  : 0..MaxSeq]

NoHandler == [pc |-> "off", lastSeq |-> 0, buffer |-> {}, batch |-> {}, queue |-> <<>>,
              task |-> "none", cursor |-> 0, target |-> 0]

Transport == [status   : {"resolving", "open", "waiting", "disconnected"},
              socket   : Conn \cup {None},
              attempts : 0..MaxRetries,
              cursor   : 0..MaxSeq]

-----------------------------------------------------------------------------
(* The log and the hub.                                                    *)

Record ==
  /\ last < MaxSeq
  /\ last' = last + 1
  /\ UNCHANGED <<sent, cleaned, hub, handler, net, client, applied, base, repeats, breaks, crashes>>

Fanned(h, n) ==
  IF h.pc \in {"off", "opening"} THEN h
  ELSE IF h.pc = "live" THEN [h EXCEPT !.queue = Append(@, n)]
  ELSE [h EXCEPT !.buffer = @ \cup {n}]

\* publish: fan-out unless the number is among the last ones.
Remembered(n) == \E i \in 1..Len(hub) : hub[i] = n

Publish(n) ==
  /\ n \in 1..last
  /\ IF n \in sent THEN repeats < MaxRepeats /\ repeats' = repeats + 1 ELSE UNCHANGED repeats
  /\ sent' = sent \cup {n}
  /\ IF Remembered(n)
       THEN UNCHANGED <<hub, handler>>
       ELSE /\ hub' = LET h == Append(hub, n) IN IF Len(h) > MaxHistory THEN Tail(h) ELSE h
            /\ handler' = Fanned(handler, n)
  /\ UNCHANGED <<last, cleaned, net, client, applied, base, breaks, crashes>>

Delete(n) ==
  /\ n \in sent \ cleaned
  /\ cleaned' = cleaned \cup {n}
  /\ UNCHANGED <<last, sent, hub, handler, net, client, applied, base, repeats, breaks, crashes>>

-----------------------------------------------------------------------------
(* The handler of a connection (routes/agent/ws.ts, recovery_snapshot=1).  *)

Transmit(frames) == net' = [net EXCEPT ![client.socket] = @ \o frames]

ServerOnly == UNCHANGED <<last, sent, cleaned, hub, client, applied, base, repeats, breaks, crashes>>

Subscribe ==
  /\ handler.pc = "opening"
  /\ handler' = [handler EXCEPT !.pc = "subscribed"]
  /\ UNCHANGED net /\ ServerOnly

\* getRecoverySnapshot reads everything, the watermark too, in one transaction.
SendSnapshot ==
  /\ handler.pc = "subscribed"
  /\ Transmit(<<SnapshotFrame(last)>>)
  /\ handler' = [handler EXCEPT !.pc = "snapshotted", !.lastSeq = last]
  /\ ServerOnly

CatchUpTo(h, task, target) == [h EXCEPT !.task = task, !.cursor = h.lastSeq, !.target = target]

\* Mutant: lastSeq is raised to the watermark before the catch-up, not after it.
ReadReplayWatermarkRaised ==
  /\ handler.pc = "snapshotted"
  /\ handler' = CatchUpTo([handler EXCEPT !.pc = "replaying", !.lastSeq = last], "replay", last)
  /\ UNCHANGED net /\ ServerOnly

ReadReplayWatermark ==
  /\ handler.pc = "snapshotted"
  /\ handler' = CatchUpTo([handler EXCEPT !.pc = "replaying"], "replay", last)
  /\ UNCHANGED net /\ ServerOnly

Close ==
  /\ Transmit(<<CloseFrame>>)
  /\ handler' = NoHandler

\* listOutboxForReplay: the first rows after the cursor.
Page(after) ==
  {n \in 1..last : /\ n > after /\ n \notin cleaned
                   /\ Cardinality({m \in 1..last : m > after /\ m < n /\ m \notin cleaned}) < PageSize}

EventFrames(from, to) == [i \in 1..(to - from) |-> EventFrame(from + i)]

CatchingUp == handler.task # "none" /\ handler.cursor < handler.target

\* A page without a gap is sent; a short one is the last.
CatchUpPage ==
  LET h == handler
      rows == Page(h.cursor)
  IN /\ CatchingUp
     /\ \E to \in h.lastSeq..last :
          /\ rows = (h.lastSeq + 1)..to
          /\ Transmit(EventFrames(h.lastSeq, to))
          /\ handler' = [h EXCEPT !.lastSeq = to,
                                 !.cursor = IF Cardinality(rows) < PageSize THEN h.target ELSE to]
     /\ ServerOnly

\* A gap: the rows before it are sent.  Before the connection is live, and in a
\* heartbeat, the exception closes it; a live event is only logged.
CatchUpGap ==
  LET h == handler
      rows == Page(h.cursor)
      closes == h.pc # "live" \/ h.task = "heartbeat"
  IN /\ CatchingUp
     /\ \E to \in h.lastSeq..last :
          /\ (h.lastSeq + 1)..to \subseteq rows /\ rows # (h.lastSeq + 1)..to
          /\ to + 1 \notin rows
          /\ Transmit(EventFrames(h.lastSeq, to) \o IF closes THEN <<CloseFrame>> ELSE <<>>)
          /\ handler' = IF closes THEN NoHandler ELSE [h EXCEPT !.lastSeq = to, !.task = "none"]
     /\ ServerOnly

CaughtUp(task) == handler.task = task /\ handler.cursor >= handler.target

\* The window of the log does not reach the watermark: a new snapshot is needed.
FallsShort ==
  /\ CaughtUp("replay") \/ CaughtUp("heartbeat")
  /\ handler.lastSeq < handler.target
  /\ Close
  /\ ServerOnly

ReplayDone ==
  /\ CaughtUp("replay")
  /\ handler.lastSeq >= handler.target
  /\ handler' = [handler EXCEPT !.pc = "draining", !.task = "none"]
  /\ UNCHANGED net /\ ServerOnly

\* What arrived meanwhile goes the way of live events, until nothing is left.
DrainBuffer ==
  /\ handler.pc = "draining" /\ handler.task = "none" /\ handler.batch = {}
  /\ handler' = IF handler.buffer = {} THEN [handler EXCEPT !.pc = "live"]
                 ELSE [handler EXCEPT !.batch = handler.buffer, !.buffer = {}]
  /\ UNCHANGED net /\ ServerOnly

HeartbeatTick ==
  /\ handler.pc = "live"
  /\ \A i \in 1..Len(handler.queue) : handler.queue[i] # Heartbeat
  /\ handler' = [handler EXCEPT !.queue = Append(@, Heartbeat)]
  /\ UNCHANGED net /\ ServerOnly

\* Mutant: a heartbeat does not look at the log.
StartedOnEvents(h, op) == IF op > h.lastSeq THEN CatchUpTo(h, "event", op) ELSE h

\* deliverLiveEventOrdered, or the heartbeat: the log is read up to the number.
Started(h, op) ==
  CASE op = Heartbeat -> CatchUpTo(h, "heartbeat", last)
    [] op # Heartbeat /\ op > h.lastSeq -> CatchUpTo(h, "event", op)
    [] OTHER -> h

\* A batch in the order of its numbers, the chain in its own.
StartOperation ==
  /\ handler.task = "none"
  /\ \/ \E n \in handler.batch :
          /\ \A m \in handler.batch : n <= m
          /\ handler' = Started([handler EXCEPT !.batch = @ \ {n}], n)
     \/ /\ handler.queue # <<>>
        /\ handler' = Started([handler EXCEPT !.queue = Tail(@)], Head(handler.queue))
  /\ UNCHANGED net /\ ServerOnly

OperationDone ==
  /\ \/ CaughtUp("event")
     \/ CaughtUp("heartbeat") /\ handler.lastSeq >= handler.target
  /\ handler' = [handler EXCEPT !.task = "none"]
  /\ UNCHANGED net /\ ServerOnly

ServerCrash ==
  /\ crashes < MaxCrashes
  /\ crashes' = crashes + 1
  /\ hub' = <<>>
  /\ IF handler.pc = "off" THEN UNCHANGED <<handler, net>> ELSE Close
  /\ UNCHANGED <<last, sent, cleaned, client, applied, base, repeats, breaks>>

-----------------------------------------------------------------------------
(* The client (ChatWebSocketTransport with its EnvelopeDeliveryCursor).    *)

ClientOnly == UNCHANGED <<last, sent, cleaned, hub, repeats, crashes>>

\* scheduleReconnect
Rescheduled(t) ==
  IF t.attempts >= MaxRetries
  THEN [t EXCEPT !.status = "disconnected", !.socket = None]
  ELSE [t EXCEPT !.status = "waiting", !.socket = None, !.attempts = @ + 1]

ReconnectTimer ==
  /\ client.status = "waiting"
  /\ client' = [client EXCEPT !.status = "resolving"]
  /\ UNCHANGED <<handler, net, applied, base, breaks>> /\ ClientOnly

\* openResolved: a ticket, then a socket on which the server starts its handler.
OpenSocket(c) ==
  /\ client.status = "resolving"
  /\ net[c] = <<>>
  /\ client' = [client EXCEPT !.status = "open", !.socket = c]
  /\ handler' = [NoHandler EXCEPT !.pc = "opening"]
  /\ UNCHANGED <<net, applied, base, breaks>> /\ ClientOnly

Spend == breaks < MaxBreaks /\ breaks' = breaks + 1

OpenFails ==
  /\ client.status = "resolving"
  /\ Spend
  /\ client' = Rescheduled(client)
  /\ UNCHANGED <<handler, net, applied, base>> /\ ClientOnly

StaysConnected ==
  /\ client.status = "open" /\ client.attempts # 0
  /\ client' = [client EXCEPT !.attempts = 0]
  /\ UNCHANGED <<handler, net, applied, base, breaks>> /\ ClientOnly

\* Mutant: the handlers of an old socket stay installed.
HearsAll(c) == TRUE

\* Frames of a socket that the client has given up are not looked at.
Hears(c) == client.socket = c

\* EnvelopeDeliveryCursor.accept
Accept(f) ==
  CASE f.kind = "snapshot" ->
         /\ client' = [client EXCEPT !.cursor = f.seq]
         /\ base' = f.seq /\ applied' = <<>>
    [] f.kind = "event" /\ f.seq > client.cursor ->
         /\ client' = [client EXCEPT !.cursor = f.seq]
         /\ applied' = Append(applied, f.seq) /\ UNCHANGED base
    [] f.kind = "close" ->
         /\ client' = Rescheduled(client)
         /\ UNCHANGED <<base, applied>>
    [] OTHER -> UNCHANGED <<client, base, applied>>

Receive(c) ==
  /\ net[c] # <<>>
  /\ IF Hears(c) THEN Accept(Head(net[c])) ELSE UNCHANGED <<client, base, applied>>
  /\ net' = [net EXCEPT ![c] = Tail(@)]
  /\ UNCHANGED <<handler, breaks>> /\ ClientOnly

\* The connection is lost, or nothing was heard for 60 seconds.
Break ==
  /\ client.status = "open"
  /\ Spend
  /\ client' = Rescheduled(client)
  /\ handler' = NoHandler
  /\ UNCHANGED <<net, applied, base>> /\ ClientOnly

\* reconnect(): whatever was under way is dropped, the count starts again.
Reconnect ==
  /\ Spend
  /\ client' = [client EXCEPT !.status = "resolving", !.socket = None, !.attempts = 0]
  /\ handler' = NoHandler
  /\ UNCHANGED <<net, applied, base>> /\ ClientOnly

-----------------------------------------------------------------------------
Init ==
  /\ last = 0 /\ sent = {} /\ cleaned = {}
  /\ hub = <<>>
  /\ handler = NoHandler
  /\ net = [c \in Conn |-> <<>>]
  /\ client = [status |-> "resolving", socket |-> None, attempts |-> 0, cursor |-> 0]
  /\ applied = <<>> /\ base = 0
  /\ repeats = 0 /\ breaks = 0 /\ crashes = 0

LogNext == Record \/ \E n \in Seqs : Publish(n) \/ Delete(n)

HandlerStep ==
  \/ Subscribe \/ SendSnapshot \/ ReadReplayWatermark
  \/ CatchUpPage \/ CatchUpGap \/ FallsShort \/ ReplayDone
  \/ DrainBuffer \/ StartOperation \/ OperationDone

Next ==
  \/ LogNext
  \/ HandlerStep \/ HeartbeatTick \/ ServerCrash
  \/ \E c \in Conn : Receive(c) \/ OpenSocket(c)
  \/ ReconnectTimer \/ OpenFails \/ StaysConnected \/ Break \/ Reconnect

Spec == Init /\ [][Next]_vars

\* Promises are settled, the timers fire, frames arrive; nothing is said of the
\* outbox, of failures or of the user who reconnects by hand.
Fairness ==
  /\ WF_vars(HandlerStep) /\ WF_vars(HeartbeatTick) /\ WF_vars(ReconnectTimer)
  /\ \A c \in Conn : WF_vars(Receive(c))
  /\ WF_vars(\E c \in Conn : OpenSocket(c))

FairSpec == Spec /\ Fairness

-----------------------------------------------------------------------------
(* Properties.                                                             *)

StreamTypeOK ==
  /\ last \in 0..MaxSeq /\ sent \subseteq 1..last /\ cleaned \subseteq sent
  /\ hub \in Seq(Seqs) /\ Len(hub) <= MaxHistory
  /\ handler \in Handler
  /\ net \in [Conn -> Seq(Frame)]
  /\ client \in Transport
  /\ applied \in Seq(Seqs) /\ base \in 0..MaxSeq
  /\ repeats \in 0..MaxRepeats /\ breaks \in 0..MaxBreaks /\ crashes \in 0..MaxCrashes
  /\ client.status = "open" <=> client.socket # None
  /\ handler.pc # "off" => client.status = "open"

\* What the client has taken since its last snapshot is every envelope after the
\* watermark of that snapshot up to its cursor, once and in order, whatever order
\* the outbox publishes in and whatever it repeats or never publishes.
NothingMissed ==
  /\ client.cursor = base + Len(applied)
  /\ \A i \in 1..Len(applied) : applied[i] = base + i

\* No frame, not even a snapshot of an older connection, takes the client back.
NeverBack == [][client'.cursor >= client.cursor]_vars

\* A client that is not disconnected for good reaches the end of the log, by frames
\* or by a new snapshot, even if the outbox gives envelopes up or deletes rows.
CatchesUp == <>[](client.status = "disconnected" \/ client.cursor = last)
=============================================================================
