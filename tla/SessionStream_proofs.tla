------------------------ MODULE SessionStream_proofs ------------------------
(***************************************************************************)
(* Theorems about the stream of a session, for any number of sockets and   *)
(* any bounds: nothing is missed and nothing takes the client back.        *)
(*                                                                         *)
(* The argument is about the frames under way on the socket the client     *)
(* listens to: a snapshot comes first if at all, and every envelope is the *)
(* one after the frame before it, or after the cursor.  The handler keeps  *)
(* that up because its lastSeq is the number the client will have reached  *)
(* once those frames are there.                                            *)
(***************************************************************************)
EXTENDS SessionStream, SequenceTheorems, TLAPS

FollowOn(f, cur, bound) == \A i \in 1..Len(f) :
  /\ f[i].seq <= bound
  /\ f[i].kind = "snapshot" => i = 1 /\ f[i].seq >= cur
  /\ f[i].kind = "event" /\ i = 1 => f[i].seq = cur + 1
  /\ f[i].kind = "event" /\ i # 1 => f[i-1].kind # "close" /\ f[i].seq = f[i-1].seq + 1

Unclosed(f) == \A i \in 1..Len(f) : f[i].kind # "close"

\* The number the client will have reached once these frames are there.
Tip(f, cur) == IF Len(f) = 0 THEN cur ELSE f[Len(f)].seq

Silent(h) == h.pc \in {"opening", "subscribed"}
Sending(h) == h.pc \in {"snapshotted", "replaying", "draining", "live"}

StreamSound == client.socket # None =>
  /\ FollowOn(net[client.socket], client.cursor, last)
  /\ handler.pc # "off" => Unclosed(net[client.socket])
  /\ Silent(handler) => net[client.socket] = <<>>
  /\ Sending(handler) => handler.lastSeq = Tip(net[client.socket], client.cursor)

\* Nothing is delivered before the snapshot is sent.
AtRest(h) == ~Sending(h) => h.task = "none" /\ h.batch = {} /\ h.queue = <<>>

Bounded == client.cursor <= last /\ handler.lastSeq <= last

StreamInv ==
  /\ StreamTypeOK
  /\ NothingMissed
  /\ Bounded
  /\ StreamSound
  /\ AtRest(handler)

\* A step of the handler that sends nothing.
HandlerKept ==
  /\ handler' \in Handler
  /\ handler'.lastSeq = handler.lastSeq
  /\ handler'.pc = "off" <=> handler.pc = "off"
  /\ Silent(handler') <=> Silent(handler)
  /\ AtRest(handler')

USE StreamConstants

-----------------------------------------------------------------------------
(* The operators on frames and handlers.                                   *)

LEMMA FrameTypes ==
  /\ CloseFrame \in Frame /\ CloseFrame.kind = "close" /\ CloseFrame.seq = 0
  /\ \A n \in 0..MaxSeq : /\ SnapshotFrame(n) \in Frame /\ EventFrame(n) \in Frame
                          /\ SnapshotFrame(n).kind = "snapshot" /\ SnapshotFrame(n).seq = n
                          /\ EventFrame(n).kind = "event" /\ EventFrame(n).seq = n
  BY DEF CloseFrame, SnapshotFrame, EventFrame, Frame

LEMMA EventFramesTyped ==
  ASSUME NEW from \in 0..MaxSeq, NEW to \in from..MaxSeq
  PROVE  /\ EventFrames(from, to) \in Seq(Frame)
         /\ Len(EventFrames(from, to)) = to - from
         /\ \A i \in 1..(to - from) : EventFrames(from, to)[i] = EventFrame(from + i)
<1>1. \A i \in 1..(to - from) : from + i \in 0..MaxSeq /\ EventFrame(from + i) \in Frame
  BY FrameTypes
<1>2. EventFrames(from, to) \in [1..(to - from) -> Frame] /\ to - from \in Nat
  BY <1>1 DEF EventFrames
<1>3. EventFrames(from, to) \in Seq(Frame)
  BY <1>2
<1>4. QED BY <1>2, <1>3 DEF EventFrames

LEMMA MoreEvents ==
  ASSUME NEW f \in Seq(Frame), NEW cur \in 0..MaxSeq, NEW bound \in 0..MaxSeq,
         NEW from \in 0..MaxSeq, NEW to \in from..bound,
         FollowOn(f, cur, bound), Unclosed(f), from = Tip(f, cur)
  PROVE  LET g == f \o EventFrames(from, to) IN
         /\ g \in Seq(Frame) /\ FollowOn(g, cur, bound) /\ Unclosed(g) /\ Tip(g, cur) = to
<1> DEFINE e == EventFrames(from, to)
           g == f \o e
<1>0. from \in Nat /\ to \in Nat /\ to \in from..MaxSeq /\ to - from \in Nat /\ bound <= MaxSeq
  OBVIOUS
<1>1. /\ e \in Seq(Frame) /\ Len(e) = to - from
      /\ \A i \in 1..(to - from) : e[i].kind = "event" /\ e[i].seq = from + i
  <2>1. /\ e \in Seq(Frame) /\ Len(e) = to - from
        /\ \A i \in 1..(to - from) : e[i] = EventFrame(from + i)
    BY <1>0, EventFramesTyped
  <2>2. \A i \in 1..(to - from) : from + i \in 0..MaxSeq
    BY <1>0
  <2> HIDE DEF e
  <2>3. \A i \in 1..(to - from) : EventFrame(from + i).kind = "event" /\ EventFrame(from + i).seq = from + i
    BY <2>2, FrameTypes
  <2>4. QED BY <2>1, <2>3
<1> HIDE DEF e
<1>2. /\ g \in Seq(Frame) /\ Len(g) = Len(f) + (to - from) /\ Len(f) \in Nat
      /\ \A i \in 1..Len(f) : g[i] = f[i]
      /\ \A i \in (Len(f) + 1)..Len(g) : g[i] = e[i - Len(f)] /\ i - Len(f) \in 1..(to - from)
  <2>1. Len(f) \in Nat
    BY LenProperties
  <2>2. /\ g \in Seq(Frame) /\ Len(g) = Len(f) + Len(e)
        /\ \A i \in 1..(Len(f) + Len(e)) : g[i] = IF i <= Len(f) THEN f[i] ELSE e[i - Len(f)]
    BY <1>1, ConcatProperties
  <2> HIDE DEF g
  <2>3. \A i \in 1..Len(f) : i \in 1..(Len(f) + Len(e)) /\ i <= Len(f)
    BY <1>0, <1>1, <2>1
  <2>4. \A i \in (Len(f) + 1)..(Len(f) + Len(e)) :
          i \in 1..(Len(f) + Len(e)) /\ ~(i <= Len(f)) /\ i - Len(f) \in 1..Len(e)
    BY <1>0, <1>1, <2>1
  <2>5. QED BY <1>1, <2>1, <2>2, <2>3, <2>4
<1> HIDE DEF g
<1>3. \A i \in (Len(f) + 1)..Len(g) : g[i].kind = "event" /\ g[i].seq = from + (i - Len(f))
  BY <1>1, <1>2
<1>4. Len(f) # 0 => from = g[Len(f)].seq /\ g[Len(f)].kind # "close"
  <2>1. Len(f) # 0 => Len(f) \in 1..Len(f)
    BY <1>2
  <2>2. Len(f) # 0 => g[Len(f)] = f[Len(f)] /\ f[Len(f)].kind # "close"
    BY <1>2, <2>1 DEF Unclosed
  <2>3. QED BY <2>2 DEF Tip
<1>5. Len(f) = 0 => from = cur
  BY <1>2 DEF Tip
<1>6. FollowOn(g, cur, bound)
  <2> SUFFICES ASSUME NEW i \in 1..Len(g)
               PROVE  /\ g[i].seq <= bound
                      /\ g[i].kind = "snapshot" => i = 1 /\ g[i].seq >= cur
                      /\ g[i].kind = "event" /\ i = 1 => g[i].seq = cur + 1
                      /\ g[i].kind = "event" /\ i # 1 => g[i-1].kind # "close" /\ g[i].seq = g[i-1].seq + 1
    BY DEF FollowOn
  <2>1. CASE i <= Len(f)
    <3>1. i \in 1..Len(f) /\ g[i] = f[i] /\ (i # 1 => i - 1 \in 1..Len(f) /\ g[i-1] = f[i-1])
      BY <1>2, <2>1
    <3>2. QED BY <3>1 DEF FollowOn
  <2>2. CASE i = Len(f) + 1
    <3>0. i \in (Len(f) + 1)..Len(g) /\ i - Len(f) = 1 /\ to - from >= 1
      BY <1>0, <1>2, <2>2
    <3>1. g[i].kind = "event" /\ g[i].seq = from + (i - Len(f)) /\ from + (i - Len(f)) = from + 1
      BY <1>3, <3>0
    <3>2. i - 1 = Len(f) /\ (i = 1 <=> Len(f) = 0)
      BY <1>2, <2>2
    <3>3. from + 1 <= bound
      BY <1>0, <3>0
    <3>4. QED BY <1>4, <1>5, <3>1, <3>2, <3>3
  <2>3. CASE i > Len(f) + 1
    <3>1. /\ i - 1 \in (Len(f) + 1)..Len(g) /\ i \in (Len(f) + 1)..Len(g) /\ i # 1
      BY <1>2, <2>3
    <3>2. g[i].kind = "event" /\ g[i].seq = from + (i - Len(f)) /\ g[i-1].kind = "event"
          /\ g[i-1].seq = from + ((i - 1) - Len(f))
      BY <1>3, <3>1
    <3>3. i - Len(f) \in 1..(to - from) /\ i \in Nat /\ Len(f) \in Nat
      BY <1>2, <3>1
    <3>4. from + (i - Len(f)) = (from + ((i - 1) - Len(f))) + 1 /\ from + (i - Len(f)) <= bound
      BY <1>0, <3>3
    <3>5. QED BY <3>1, <3>2, <3>4
  <2>4. i <= Len(f) \/ i = Len(f) + 1 \/ i > Len(f) + 1
    BY <1>2
  <2>5. QED BY <2>1, <2>2, <2>3, <2>4
<1>7. Unclosed(g)
  <2>1. \A i \in 1..Len(g) : i \in 1..Len(f) \/ i \in (Len(f) + 1)..Len(g)
    BY <1>0, <1>2
  <2>2. QED BY <1>2, <1>3, <2>1 DEF Unclosed
<1>8. Tip(g, cur) = to
  <2>1. CASE to = from
    <3>1. Len(g) = Len(f)
      BY <1>0, <1>2, <2>1
    <3>2. QED BY <1>4, <1>5, <2>1, <3>1 DEF Tip
  <2>2. CASE to # from
    <3>1. /\ Len(g) \in (Len(f) + 1)..Len(g) /\ Len(g) # 0
          /\ from + (Len(g) - Len(f)) = to
      BY <1>0, <1>2, <2>2
    <3>2. QED BY <1>3, <3>1 DEF Tip
  <2>3. QED BY <2>1, <2>2
<1>9. QED BY <1>2, <1>6, <1>7, <1>8 DEF g, e

LEMMA ThenClose ==
  ASSUME NEW f \in Seq(Frame), NEW cur \in 0..MaxSeq, NEW bound \in 0..MaxSeq, FollowOn(f, cur, bound)
  PROVE  f \o <<CloseFrame>> \in Seq(Frame) /\ FollowOn(f \o <<CloseFrame>>, cur, bound)
<1> DEFINE g == f \o <<CloseFrame>>
<1>1. <<CloseFrame>> \in Seq(Frame) /\ Len(<<CloseFrame>>) = 1 /\ <<CloseFrame>>[1] = CloseFrame
  BY FrameTypes
<1>2. /\ g \in Seq(Frame) /\ Len(g) = Len(f) + 1 /\ Len(f) \in Nat
      /\ \A i \in 1..Len(f) : g[i] = f[i]
      /\ g[Len(f) + 1] = CloseFrame
  BY <1>1, ConcatProperties, LenProperties
<1> HIDE DEF g
<1>3. FollowOn(g, cur, bound)
  <2> SUFFICES ASSUME NEW i \in 1..Len(g)
               PROVE  /\ g[i].seq <= bound
                      /\ g[i].kind = "snapshot" => i = 1 /\ g[i].seq >= cur
                      /\ g[i].kind = "event" /\ i = 1 => g[i].seq = cur + 1
                      /\ g[i].kind = "event" /\ i # 1 => g[i-1].kind # "close" /\ g[i].seq = g[i-1].seq + 1
    BY DEF FollowOn
  <2>1. CASE i <= Len(f)
    <3>1. i \in 1..Len(f) /\ g[i] = f[i] /\ (i # 1 => i - 1 \in 1..Len(f) /\ g[i-1] = f[i-1])
      BY <1>2, <2>1
    <3>2. QED BY <3>1 DEF FollowOn
  <2>2. CASE i = Len(f) + 1
    BY <1>2, <2>2, FrameTypes
  <2>3. QED BY <1>2, <2>1, <2>2
<1>4. QED BY <1>2, <1>3 DEF g

LEMMA SnapshotAlone ==
  ASSUME NEW cur \in 0..MaxSeq, NEW w \in cur..MaxSeq
  PROVE  LET g == <<>> \o <<SnapshotFrame(w)>> IN
         g \in Seq(Frame) /\ FollowOn(g, cur, w) /\ Unclosed(g) /\ Tip(g, cur) = w
<1> DEFINE g == <<>> \o <<SnapshotFrame(w)>>
<1>1. SnapshotFrame(w) \in Frame /\ SnapshotFrame(w).kind = "snapshot" /\ SnapshotFrame(w).seq = w
  BY FrameTypes
<1>2. g \in Seq(Frame) /\ Len(g) = 1 /\ g[1] = SnapshotFrame(w) /\ g # <<>>
  BY <1>1
<1>3. QED BY <1>1, <1>2 DEF FollowOn, Unclosed, Tip

LEMMA HeadTaken ==
  ASSUME NEW f \in Seq(Frame), f # <<>>, NEW cur \in 0..MaxSeq, NEW bound \in 0..MaxSeq,
         FollowOn(f, cur, bound), NEW new \in 0..MaxSeq,
         new = IF Head(f).kind = "close" THEN cur ELSE Head(f).seq
  PROVE  /\ Tail(f) \in Seq(Frame)
         /\ Head(f).kind # "close" => FollowOn(Tail(f), new, bound) /\ Tip(Tail(f), new) = Tip(f, cur)
         /\ Unclosed(f) => Unclosed(Tail(f)) /\ Head(f).kind # "close"
<1> DEFINE t == Tail(f)
<1>1. /\ t \in Seq(Frame) /\ Len(t) = Len(f) - 1 /\ Len(f) \in Nat \ {0} /\ Head(f) = f[1]
      /\ \A i \in 1..Len(t) : t[i] = f[i+1] /\ i + 1 \in 1..Len(f)
  BY HeadTailProperties, LenProperties, EmptySeq
<1> HIDE DEF t
<1>2. ASSUME Head(f).kind # "close" PROVE FollowOn(t, new, bound)
  <2> SUFFICES ASSUME NEW i \in 1..Len(t)
               PROVE  /\ t[i].seq <= bound
                      /\ t[i].kind = "snapshot" => i = 1 /\ t[i].seq >= new
                      /\ t[i].kind = "event" /\ i = 1 => t[i].seq = new + 1
                      /\ t[i].kind = "event" /\ i # 1 => t[i-1].kind # "close" /\ t[i].seq = t[i-1].seq + 1
    BY DEF FollowOn
  <2>1. /\ t[i] = f[i+1] /\ i + 1 \in 1..Len(f) /\ i + 1 # 1 /\ (i + 1) - 1 = i
        /\ i # 1 => t[i-1] = f[i]
    BY <1>1
  <2>2. /\ f[i+1].seq <= bound /\ f[i+1].kind # "snapshot"
        /\ f[i+1].kind = "event" => f[i].kind # "close" /\ f[i+1].seq = f[i].seq + 1
    BY <2>1 DEF FollowOn
  <2>3. QED BY <1>1, <1>2, <2>1, <2>2
<1>3. ASSUME Head(f).kind # "close" PROVE Tip(t, new) = Tip(f, cur)
  <2>1. CASE Len(t) = 0
    <3>1. Len(f) = 1 /\ new = f[1].seq
      BY <1>1, <1>3, <2>1
    <3>2. QED BY <2>1, <3>1 DEF Tip
  <2>2. CASE Len(t) # 0
    <3>1. Len(t) \in 1..Len(t) /\ Len(t) + 1 = Len(f) /\ Len(f) # 0
      BY <1>1, <2>2
    <3>2. t[Len(t)] = f[Len(f)]
      BY <1>1, <3>1
    <3>3. QED BY <2>2, <3>1, <3>2 DEF Tip
  <2>3. QED BY <2>1, <2>2
<1>4. Unclosed(f) => Unclosed(t) /\ Head(f).kind # "close"
  BY <1>1 DEF Unclosed
<1>5. QED BY <1>1, <1>2, <1>3, <1>4 DEF t

LEMMA HigherBound ==
  ASSUME NEW f \in Seq(Frame), NEW cur, NEW b \in Nat, NEW c \in Nat, b <= c, FollowOn(f, cur, b)
  PROVE  FollowOn(f, cur, c)
<1>1. \A i \in 1..Len(f) : f[i] \in Frame
  BY ElementOfSeq
<1>2. \A i \in 1..Len(f) : f[i].seq \in 0..MaxSeq
  BY <1>1 DEF Frame
<1>3. QED BY <1>2 DEF FollowOn

LEMMA NoHandlerTyped ==
  NoHandler \in Handler /\ NoHandler.pc = "off" /\ NoHandler.lastSeq = 0 /\ AtRest(NoHandler)
<1>1. <<>> \in Seq(0..MaxSeq)
  BY EmptySeq
<1>2. QED BY <1>1 DEF NoHandler, Handler, AtRest

LEMMA HandlerFields ==
  ASSUME NEW h \in Handler
  PROVE  /\ h.pc \in {"off", "opening", "subscribed", "snapshotted", "replaying", "draining", "live"}
         /\ h.lastSeq \in 0..MaxSeq /\ h.cursor \in 0..MaxSeq /\ h.target \in 0..MaxSeq
         /\ h.buffer \in SUBSET Seqs /\ h.batch \in SUBSET Seqs /\ h.queue \in Seq(0..MaxSeq)
         /\ h.task \in {"none", "replay", "event", "heartbeat"}
         /\ Sending(h) <=> ~(h.pc = "off" \/ Silent(h))
  BY DEF Handler, Sending, Silent

LEMMA CatchUpTyped ==
  ASSUME NEW h \in Handler, NEW target \in 0..MaxSeq, NEW task \in {"replay", "event", "heartbeat"}
  PROVE  /\ CatchUpTo(h, task, target) \in Handler
         /\ CatchUpTo(h, task, target).pc = h.pc
         /\ CatchUpTo(h, task, target).lastSeq = h.lastSeq
  BY DEF CatchUpTo, Handler

LEMMA StartedTyped ==
  ASSUME NEW h \in Handler, NEW op \in 0..MaxSeq, last \in 0..MaxSeq
  PROVE  Started(h, op) \in Handler /\ Started(h, op).pc = h.pc /\ Started(h, op).lastSeq = h.lastSeq
  BY CatchUpTyped DEF Started, Heartbeat

LEMMA FannedTyped ==
  ASSUME NEW h \in Handler, NEW n \in Seqs
  PROVE  /\ Fanned(h, n) \in Handler /\ Fanned(h, n).pc = h.pc /\ Fanned(h, n).lastSeq = h.lastSeq
         /\ AtRest(h) => AtRest(Fanned(h, n))
<1>1. Append(h.queue, n) \in Seq(0..MaxSeq)
  <2>1. n \in 0..MaxSeq
    BY DEF Seqs
  <2>2. QED BY <2>1, HandlerFields, AppendProperties
<1>2. h.buffer \cup {n} \in SUBSET Seqs
  BY HandlerFields
<1>3. QED BY <1>1, <1>2 DEF Fanned, Handler, AtRest, Sending

LEMMA RescheduledTyped ==
  ASSUME NEW t \in Transport
  PROVE  /\ Rescheduled(t) \in Transport /\ Rescheduled(t).socket = None
         /\ Rescheduled(t).status # "open" /\ Rescheduled(t).cursor = t.cursor
<1>1. t.attempts \in 0..MaxRetries
  BY DEF Transport
<1>2. t.attempts < MaxRetries => t.attempts + 1 \in 0..MaxRetries
  BY <1>1
<1>3. CASE t.attempts >= MaxRetries
  BY <1>3 DEF Rescheduled, Transport
<1>4. CASE ~(t.attempts >= MaxRetries)
  <2> DEFINE more == t.attempts + 1
  <2>1. more \in 0..MaxRetries
    BY <1>1, <1>2, <1>4
  <2>2. Rescheduled(t) = [t EXCEPT !.status = "waiting", !.socket = None, !.attempts = more]
    BY <1>4 DEF Rescheduled
  <2> HIDE DEF more
  <2>3. QED BY <2>1, <2>2 DEF Transport
<1>5. QED BY <1>3, <1>4

-----------------------------------------------------------------------------
(* What keeps the invariant.                                               *)

\* The log moves on, or stays.
LogTyped ==
  /\ last' \in last..MaxSeq /\ sent' \subseteq 1..last' /\ cleaned' \subseteq sent'
  /\ hub' \in Seq(Seqs) /\ Len(hub') <= MaxHistory
  /\ repeats' \in 0..MaxRepeats /\ breaks' \in 0..MaxBreaks /\ crashes' \in 0..MaxCrashes

LEMMA SameFrames ==
  ASSUME StreamInv, LogTyped, HandlerKept, UNCHANGED <<net, client, applied, base>>
  PROVE  StreamInv'
<1>1. StreamTypeOK'
  BY DEF StreamInv, StreamTypeOK, LogTyped, HandlerKept
<1>2. NothingMissed'
  BY DEF StreamInv, NothingMissed
<1>3. last \in Nat /\ last' \in Nat /\ last <= last' /\ client.cursor \in Nat /\ handler.lastSeq \in Nat
  BY DEF StreamInv, StreamTypeOK, LogTyped, Handler, Transport
<1>4. Bounded'
  BY <1>3 DEF StreamInv, Bounded, HandlerKept
<1>5. StreamSound'
  <2> SUFFICES ASSUME client.socket # None
               PROVE  /\ FollowOn(net[client.socket], client.cursor, last')
                      /\ handler'.pc # "off" => Unclosed(net[client.socket])
                      /\ Silent(handler') => net[client.socket] = <<>>
                      /\ Sending(handler') => handler'.lastSeq = Tip(net[client.socket], client.cursor)
    BY DEF StreamSound
  <2>1. net[client.socket] \in Seq(Frame)
    BY DEF StreamInv, StreamTypeOK, Transport
  <2>2. FollowOn(net[client.socket], client.cursor, last')
    BY <1>3, <2>1, HigherBound DEF StreamInv, StreamSound
  <2>3. handler \in Handler /\ handler' \in Handler
    BY DEF StreamInv, StreamTypeOK, HandlerKept
  <2>4. Sending(handler') <=> Sending(handler)
    BY <2>3, HandlerFields DEF HandlerKept
  <2>5. QED BY <2>2, <2>4 DEF StreamInv, StreamSound, HandlerKept
<1>6. QED BY <1>1, <1>2, <1>4, <1>5 DEF StreamInv, HandlerKept

LEMMA FramesSent ==
  ASSUME StreamInv, LogTyped, client.socket # None, NEW g \in Seq(Frame),
         net' = [net EXCEPT ![client.socket] = g], FollowOn(g, client.cursor, last),
         handler' \in Handler, handler'.lastSeq <= last, ~Silent(handler'), AtRest(handler'),
         handler'.pc # "off" => Unclosed(g),
         Sending(handler') => handler'.lastSeq = Tip(g, client.cursor),
         UNCHANGED <<last, client, applied, base>>
  PROVE  StreamInv'
<1>1. client.socket \in Conn /\ client.status = "open"
  BY DEF StreamInv, StreamTypeOK, Transport
<1>2. net' \in [Conn -> Seq(Frame)] /\ net'[client.socket] = g
  BY <1>1 DEF StreamInv, StreamTypeOK
<1>3. StreamTypeOK'
  BY <1>1, <1>2 DEF StreamInv, StreamTypeOK, LogTyped
<1>4. NothingMissed' /\ Bounded' /\ StreamSound'
  BY <1>2 DEF StreamInv, NothingMissed, Bounded, StreamSound
<1>5. QED BY <1>3, <1>4 DEF StreamInv

LEMMA GivenUp ==
  ASSUME StreamInv, LogTyped, UNCHANGED <<last, applied, base>>,
         client' \in Transport, client'.socket = None, client'.status # "open",
         client'.cursor = client.cursor, handler' \in {handler, NoHandler}, handler'.pc = "off",
         net' \in [Conn -> Seq(Frame)]
  PROVE  StreamInv'
<1>1. handler' \in Handler /\ handler'.lastSeq <= last' /\ AtRest(handler')
  <2>1. last \in Nat
    BY DEF StreamInv, StreamTypeOK
  <2>2. QED BY <2>1, NoHandlerTyped DEF StreamInv, StreamTypeOK, Bounded, AtRest
<1>2. StreamTypeOK'
  BY <1>1 DEF StreamInv, StreamTypeOK, LogTyped
<1>3. NothingMissed' /\ Bounded' /\ StreamSound'
  BY <1>1 DEF StreamInv, NothingMissed, Bounded, StreamSound
<1>4. QED BY <1>1, <1>2, <1>3 DEF StreamInv

LEMMA SameLog ==
  ASSUME StreamInv, UNCHANGED <<last, sent, cleaned, hub>>,
         repeats' \in 0..MaxRepeats, breaks' \in 0..MaxBreaks, crashes' \in 0..MaxCrashes
  PROVE  LogTyped
  BY DEF StreamInv, StreamTypeOK, LogTyped

-----------------------------------------------------------------------------
(* The steps.                                                              *)

LEMMA CountersTyped ==
  ASSUME StreamInv
  PROVE  /\ repeats \in 0..MaxRepeats /\ breaks \in 0..MaxBreaks /\ crashes \in 0..MaxCrashes
         /\ repeats < MaxRepeats => repeats + 1 \in 0..MaxRepeats
         /\ breaks < MaxBreaks => breaks + 1 \in 0..MaxBreaks
         /\ crashes < MaxCrashes => crashes + 1 \in 0..MaxCrashes
  BY DEF StreamInv, StreamTypeOK

LEMMA LogSteps ==
  ASSUME StreamInv, LogNext
  PROVE  StreamInv'
<1>0. /\ last \in 0..MaxSeq /\ sent \subseteq 1..last /\ cleaned \subseteq sent
      /\ hub \in Seq(Seqs) /\ Len(hub) <= MaxHistory /\ Len(hub) \in Nat
      /\ handler \in Handler /\ AtRest(handler)
  BY LenProperties DEF StreamInv, StreamTypeOK
<1>1. CASE Record
  <2>1. last' \in last..MaxSeq /\ 1..last \subseteq 1..last'
    BY <1>0, <1>1 DEF Record
  <2>2. LogTyped /\ HandlerKept
    BY <1>0, <1>1, <2>1, CountersTyped DEF Record, LogTyped, HandlerKept, AtRest, Sending, Silent
  <2>3. QED BY <1>1, <2>2, SameFrames DEF Record
<1>2. CASE \E n \in Seqs : Publish(n)
  <2> PICK n \in Seqs : Publish(n)
    BY <1>2
  <2>1. handler' \in {handler, Fanned(handler, n)}
    BY DEF Publish
  <2>2. HandlerKept
    BY <1>0, <2>1, FannedTyped DEF HandlerKept, Silent
  <2>3. hub' \in Seq(Seqs) /\ Len(hub') <= MaxHistory
    <3> DEFINE h == Append(hub, n)
    <3>1. h \in Seq(Seqs) /\ h # <<>> /\ Len(h) = Len(hub) + 1
      BY <1>0, AppendProperties
    <3>2. hub' = hub \/ hub' = IF Len(h) > MaxHistory THEN Tail(h) ELSE h
      BY DEF Publish
    <3> HIDE DEF h
    <3>3. Tail(h) \in Seq(Seqs) /\ Len(Tail(h)) = Len(h) - 1
      BY <3>1, HeadTailProperties
    <3>4. QED BY <1>0, <3>1, <3>2, <3>3
  <2>4. last' = last /\ sent' \subseteq 1..last /\ cleaned' \subseteq sent'
    BY <1>0 DEF Publish
  <2>5. repeats' \in 0..MaxRepeats /\ breaks' \in 0..MaxBreaks /\ crashes' \in 0..MaxCrashes
    BY CountersTyped DEF Publish
  <2>6. LogTyped
    BY <1>0, <2>3, <2>4, <2>5 DEF LogTyped
  <2>7. QED BY <2>2, <2>6, SameFrames DEF Publish
<1>3. CASE \E n \in Seqs : Delete(n)
  <2>1. LogTyped /\ HandlerKept
    BY <1>0, <1>3, CountersTyped DEF Delete, LogTyped, HandlerKept
  <2>2. QED BY <1>3, <2>1, SameFrames DEF Delete
<1>4. QED BY <1>1, <1>2, <1>3 DEF LogNext

LEMMA ServerLog ==
  ASSUME StreamInv, ServerOnly
  PROVE  LogTyped /\ UNCHANGED <<last, client, applied, base>>
  BY CountersTyped, SameLog DEF ServerOnly

\* The steps of the handler between what it sends.
LEMMA QuietSteps ==
  ASSUME StreamInv,
         Subscribe \/ ReadReplayWatermark \/ ReplayDone \/ DrainBuffer \/ HeartbeatTick
           \/ StartOperation \/ OperationDone
  PROVE  StreamInv'
<1>0. handler \in Handler /\ last \in 0..MaxSeq /\ AtRest(handler)
  BY DEF StreamInv, StreamTypeOK
<1>1. ServerOnly /\ UNCHANGED net
  BY DEF Subscribe, ReadReplayWatermark, ReplayDone, DrainBuffer, HeartbeatTick, StartOperation, OperationDone
<1>2. HandlerKept
  <2>1. CASE Subscribe
    BY <1>0, <2>1 DEF Subscribe, HandlerKept, Handler, Silent, AtRest, Sending
  <2>2. CASE ReadReplayWatermark
    <3> DEFINE h == [handler EXCEPT !.pc = "replaying"]
    <3>1. h \in Handler /\ h.pc = "replaying" /\ h.lastSeq = handler.lastSeq /\ handler.pc = "snapshotted"
      BY <1>0, <2>2 DEF ReadReplayWatermark, Handler
    <3>2. handler' = CatchUpTo(h, "replay", last)
      BY <2>2 DEF ReadReplayWatermark
    <3> HIDE DEF h
    <3>3. QED BY <1>0, <3>1, <3>2, CatchUpTyped DEF HandlerKept, Silent, AtRest, Sending
  <2>3. CASE ReplayDone
    <3>1. handler.task = "replay" /\ handler' = [handler EXCEPT !.pc = "draining", !.task = "none"]
      BY <2>3 DEF ReplayDone, CaughtUp
    <3>2. Sending(handler)
      BY <1>0, <3>1 DEF AtRest
    <3>3. QED BY <1>0, <3>1, <3>2 DEF HandlerKept, Handler, Silent, AtRest, Sending
  <2>4. CASE DrainBuffer
    BY <1>0, <2>4 DEF DrainBuffer, HandlerKept, Handler, Silent, AtRest, Sending
  <2>5. CASE HeartbeatTick
    <3>1. Append(handler.queue, Heartbeat) \in Seq(0..MaxSeq)
      BY <1>0, HandlerFields, AppendProperties DEF Heartbeat
    <3>2. QED BY <1>0, <2>5, <3>1 DEF HeartbeatTick, HandlerKept, Handler, Silent, AtRest, Sending
  <2>6. CASE StartOperation
    <3>1. CASE \E n \in handler.batch : handler' = Started([handler EXCEPT !.batch = @ \ {n}], n)
      <4> PICK n \in handler.batch : handler' = Started([handler EXCEPT !.batch = @ \ {n}], n)
        BY <3>1
      <4> DEFINE h == [handler EXCEPT !.batch = @ \ {n}]
      <4>1. h \in Handler /\ h.pc = handler.pc /\ h.lastSeq = handler.lastSeq /\ n \in 0..MaxSeq /\ Sending(handler)
        <5> DEFINE rest == handler.batch \ {n}
        <5>1. n \in Seqs /\ Sending(handler) /\ rest \in SUBSET Seqs
          BY <1>0, HandlerFields DEF AtRest
        <5>2. n \in 0..MaxSeq
          BY <5>1 DEF Seqs
        <5>3. h = [handler EXCEPT !.batch = rest]
          OBVIOUS
        <5> HIDE DEF rest, h
        <5>4. QED BY <1>0, <5>1, <5>2, <5>3 DEF Handler
      <4>2. handler' = Started(h, n)
        OBVIOUS
      <4> HIDE DEF h
      <4>3. QED BY <1>0, <4>1, <4>2, StartedTyped DEF HandlerKept, Silent, AtRest, Sending
    <3>2. CASE handler.queue # <<>> /\ handler' = Started([handler EXCEPT !.queue = Tail(@)], Head(handler.queue))
      <4> DEFINE h == [handler EXCEPT !.queue = Tail(@)]
      <4>1. Tail(handler.queue) \in Seq(0..MaxSeq) /\ Head(handler.queue) \in 0..MaxSeq
        BY <1>0, <3>2, HandlerFields, HeadTailProperties
      <4>2. h \in Handler /\ h.pc = handler.pc /\ h.lastSeq = handler.lastSeq /\ Sending(handler)
        BY <1>0, <3>2, <4>1 DEF Handler, AtRest
      <4>3. handler' = Started(h, Head(handler.queue))
        BY <3>2
      <4> HIDE DEF h
      <4>4. QED BY <1>0, <4>1, <4>2, <4>3, StartedTyped DEF HandlerKept, Silent, AtRest, Sending
    <3>3. QED BY <2>6, <3>1, <3>2 DEF StartOperation
  <2>7. CASE OperationDone
    BY <1>0, <2>7 DEF OperationDone, HandlerKept, Handler, Silent, AtRest, Sending
  <2>8. QED BY <2>1, <2>2, <2>3, <2>4, <2>5, <2>6, <2>7
<1>3. QED BY <1>1, <1>2, ServerLog, SameFrames

LEMMA ListenedTo ==
  ASSUME StreamInv, handler.pc # "off"
  PROVE  /\ client.socket \in Conn /\ client.socket # None
         /\ net[client.socket] \in Seq(Frame) /\ Unclosed(net[client.socket])
         /\ FollowOn(net[client.socket], client.cursor, last)
         /\ Silent(handler) => net[client.socket] = <<>>
         /\ Sending(handler) => handler.lastSeq = Tip(net[client.socket], client.cursor)
<1>1. client.status = "open" /\ client \in Transport /\ client.socket # None
  BY DEF StreamInv, StreamTypeOK
<1>2. client.socket \in Conn
  BY <1>1 DEF Transport
<1>3. QED BY <1>1, <1>2 DEF StreamInv, StreamTypeOK, StreamSound

LEMMA Numbers ==
  ASSUME StreamInv
  PROVE  /\ last \in 0..MaxSeq /\ client.cursor \in 0..MaxSeq /\ client.cursor <= last
         /\ handler.lastSeq \in 0..MaxSeq /\ handler.lastSeq <= last
  BY DEF StreamInv, StreamTypeOK, Bounded, Transport, Handler

\* A step that closes the connection, whatever it has sent before.
LEMMA ConnectionClosed ==
  ASSUME StreamInv, LogTyped, UNCHANGED <<last, client, applied, base>>,
         client.socket # None, NEW g \in Seq(Frame), FollowOn(g, client.cursor, last),
         net' = [net EXCEPT ![client.socket] = g \o <<CloseFrame>>], handler' = NoHandler
  PROVE  StreamInv'
<1>1. g \o <<CloseFrame>> \in Seq(Frame) /\ FollowOn(g \o <<CloseFrame>>, client.cursor, last)
  BY Numbers, ThenClose
<1>2. /\ handler' \in Handler /\ handler'.lastSeq <= last /\ ~Silent(handler') /\ ~Sending(handler')
      /\ AtRest(handler') /\ handler'.pc = "off"
  BY Numbers, NoHandlerTyped DEF Silent, Sending
<1>3. QED BY <1>1, <1>2, FramesSent

LEMMA SnapshotStep ==
  ASSUME StreamInv, SendSnapshot
  PROVE  StreamInv'
<1> DEFINE g == <<>> \o <<SnapshotFrame(last)>>
<1>1. handler.pc = "subscribed" /\ Silent(handler) /\ handler \in Handler /\ AtRest(handler)
  BY DEF SendSnapshot, Silent, StreamInv, StreamTypeOK
<1>2. net[client.socket] = <<>> /\ client.socket # None
  BY <1>1, ListenedTo
<1>3. net' = [net EXCEPT ![client.socket] = g]
  BY <1>2 DEF SendSnapshot, Transmit
<1>4. /\ g \in Seq(Frame) /\ FollowOn(g, client.cursor, last) /\ Unclosed(g)
      /\ Tip(g, client.cursor) = last
  BY Numbers, SnapshotAlone
<1> HIDE DEF g
<1>5. /\ handler' \in Handler /\ handler'.lastSeq = last /\ handler'.pc = "snapshotted"
      /\ ~Silent(handler') /\ AtRest(handler')
  BY <1>1, Numbers DEF SendSnapshot, Handler, Silent, AtRest, Sending
<1>6. LogTyped /\ UNCHANGED <<last, client, applied, base>>
  BY ServerLog DEF SendSnapshot
<1>7. handler'.lastSeq <= last /\ handler'.lastSeq = Tip(g, client.cursor)
  BY <1>4, <1>5, Numbers
<1>8. QED BY <1>2, <1>3, <1>4, <1>5, <1>6, <1>7, FramesSent

\* What both outcomes of a page have in common.
LEMMA PageSent ==
  ASSUME StreamInv, CatchingUp, NEW to \in handler.lastSeq..last
  PROVE  LET g == net[client.socket] \o EventFrames(handler.lastSeq, to) IN
         /\ client.socket # None /\ net[client.socket] \in Seq(Frame)
         /\ g \in Seq(Frame) /\ FollowOn(g, client.cursor, last) /\ Unclosed(g) /\ Tip(g, client.cursor) = to
         /\ Sending(handler) /\ to \in 0..MaxSeq
<1>1. Sending(handler) /\ handler.pc # "off"
  BY DEF StreamInv, AtRest, CatchingUp, Sending
<1>2. QED BY <1>1, ListenedTo, Numbers, MoreEvents

LEMMA PageStep ==
  ASSUME StreamInv, CatchUpPage
  PROVE  StreamInv'
<1>1. PICK to \in handler.lastSeq..last :
        /\ Transmit(EventFrames(handler.lastSeq, to))
        /\ \E cursor \in {handler.target, to} : handler' = [handler EXCEPT !.lastSeq = to, !.cursor = cursor]
  BY DEF CatchUpPage
<1> DEFINE g == net[client.socket] \o EventFrames(handler.lastSeq, to)
<1>2. /\ client.socket # None
      /\ g \in Seq(Frame) /\ FollowOn(g, client.cursor, last) /\ Unclosed(g) /\ Tip(g, client.cursor) = to
      /\ Sending(handler) /\ to \in 0..MaxSeq /\ handler \in Handler
  BY PageSent DEF CatchUpPage, StreamInv, StreamTypeOK
<1>3. net' = [net EXCEPT ![client.socket] = g]
  BY <1>1 DEF Transmit
<1> HIDE DEF g
<1>4. /\ handler' \in Handler /\ handler'.lastSeq = to /\ handler'.pc = handler.pc
  <2>1. PICK cursor \in {handler.target, to} : handler' = [handler EXCEPT !.lastSeq = to, !.cursor = cursor]
    BY <1>1
  <2>2. cursor \in 0..MaxSeq
    BY <1>2, HandlerFields
  <2>3. QED BY <1>2, <2>1, <2>2 DEF Handler
<1>5. ~Silent(handler') /\ AtRest(handler') /\ to <= last
  BY <1>2, <1>4, Numbers DEF Silent, AtRest, Sending
<1>6. LogTyped /\ UNCHANGED <<last, client, applied, base>>
  BY ServerLog DEF CatchUpPage
<1>7. QED BY <1>2, <1>3, <1>4, <1>5, <1>6, FramesSent

LEMMA GapStep ==
  ASSUME StreamInv, CatchUpGap
  PROVE  StreamInv'
<1> DEFINE closes == handler.pc # "live" \/ handler.task = "heartbeat"
<1>1. PICK to \in handler.lastSeq..last :
        /\ Transmit(EventFrames(handler.lastSeq, to) \o IF closes THEN <<CloseFrame>> ELSE <<>>)
        /\ handler' = IF closes THEN NoHandler ELSE [handler EXCEPT !.lastSeq = to, !.task = "none"]
  BY DEF CatchUpGap
<1> DEFINE f == net[client.socket]
           e == EventFrames(handler.lastSeq, to)
           g == f \o e
<1>2. /\ client.socket # None
      /\ g \in Seq(Frame) /\ FollowOn(g, client.cursor, last) /\ Unclosed(g) /\ Tip(g, client.cursor) = to
      /\ Sending(handler) /\ to \in 0..MaxSeq /\ handler \in Handler /\ f \in Seq(Frame)
  BY PageSent DEF CatchUpGap, StreamInv, StreamTypeOK
<1>3. e \in Seq(Frame)
  <2>1. handler.lastSeq \in 0..MaxSeq /\ to \in handler.lastSeq..MaxSeq
    BY Numbers
  <2>2. QED BY <2>1, EventFramesTyped
<1>4. LogTyped /\ UNCHANGED <<last, client, applied, base>>
  BY ServerLog DEF CatchUpGap
<1>5. CASE closes
  <2>1. net' = [net EXCEPT ![client.socket] = f \o (e \o <<CloseFrame>>)] /\ handler' = NoHandler
    BY <1>1, <1>5 DEF Transmit
  <2>2. <<CloseFrame>> \in Seq(Frame)
    BY FrameTypes
  <2>3. f \o (e \o <<CloseFrame>>) = g \o <<CloseFrame>>
    <3> DEFINE c == <<CloseFrame>>
    <3>1. f \in Seq(Frame) /\ e \in Seq(Frame) /\ c \in Seq(Frame)
      BY <1>2, <1>3, <2>2
    <3> HIDE DEF f, e, c
    <3>2. (f \o e) \o c = f \o (e \o c)
      BY <3>1, ConcatAssociative
    <3>3. QED BY <3>2 DEF c
  <2> HIDE DEF f, e, g, closes
  <2>4. QED BY <1>2, <1>4, <2>1, <2>3, ConnectionClosed
<1>6. CASE ~closes
  <2>1. /\ net' = [net EXCEPT ![client.socket] = f \o (e \o <<>>)]
        /\ handler' = [handler EXCEPT !.lastSeq = to, !.task = "none"]
    BY <1>1, <1>6 DEF Transmit
  <2>2. e \o <<>> = e
    BY <1>3, ConcatEmptySeq
  <2>3. net' = [net EXCEPT ![client.socket] = g]
    BY <2>1, <2>2
  <2> HIDE DEF f, e, g, closes
  <2>4. handler' \in Handler /\ handler'.lastSeq = to /\ handler'.pc = handler.pc
    BY <1>2, <2>1 DEF Handler
  <2>5. ~Silent(handler') /\ AtRest(handler') /\ to <= last
    BY <1>2, <2>4, Numbers DEF Silent, AtRest, Sending
  <2>6. QED BY <1>2, <1>4, <2>3, <2>4, <2>5, FramesSent
<1>7. QED BY <1>5, <1>6

LEMMA ClosingSteps ==
  ASSUME StreamInv, FallsShort \/ ServerCrash
  PROVE  StreamInv'
<1>1. CASE FallsShort
  <2>1. Sending(handler) /\ handler.pc # "off"
    BY <1>1 DEF FallsShort, CaughtUp, StreamInv, AtRest, Sending
  <2>2. LogTyped /\ UNCHANGED <<last, client, applied, base>>
    BY <1>1, ServerLog DEF FallsShort
  <2>3. QED BY <1>1, <2>1, <2>2, ListenedTo, ConnectionClosed DEF FallsShort, Close, Transmit
<1>2. CASE ServerCrash
  <2>1. <<>> \in Seq(Seqs) /\ Len(<<>>) = 0
    BY EmptySeq
  <2>2. LogTyped /\ UNCHANGED <<last, client, applied, base>>
    BY <1>2, <2>1, CountersTyped DEF ServerCrash, LogTyped, StreamInv, StreamTypeOK
  <2>3. CASE handler.pc = "off"
    <3>1. HandlerKept /\ UNCHANGED net
      BY <1>2, <2>3 DEF ServerCrash, HandlerKept, StreamInv, StreamTypeOK, Silent, AtRest, Sending
    <3>2. QED BY <2>2, <3>1, SameFrames
  <2>4. CASE handler.pc # "off"
    BY <1>2, <2>2, <2>4, ListenedTo, ConnectionClosed DEF ServerCrash, Close, Transmit
  <2>5. QED BY <2>3, <2>4
<1>3. QED BY <1>1, <1>2

LEMMA ClientLog ==
  ASSUME StreamInv, ClientOnly, breaks' = breaks \/ Spend
  PROVE  LogTyped /\ UNCHANGED last
  BY CountersTyped, SameLog DEF ClientOnly, Spend

LEMMA ClientFields ==
  ASSUME StreamInv
  PROVE  /\ client \in Transport /\ net \in [Conn -> Seq(Frame)]
         /\ client.status = "open" <=> client.socket # None
         /\ client.status # "open" => handler.pc = "off"
         /\ Rescheduled(client) \in Transport /\ Rescheduled(client).socket = None
         /\ Rescheduled(client).status # "open" /\ Rescheduled(client).cursor = client.cursor
  BY RescheduledTyped DEF StreamInv, StreamTypeOK

\* The client is without a socket after these steps.
LEMMA LosingSteps ==
  ASSUME StreamInv, ReconnectTimer \/ OpenFails \/ Break \/ Reconnect
  PROVE  StreamInv'
<1>1. CASE ReconnectTimer
  <2>1. client' \in Transport /\ client'.socket = None /\ client'.status # "open" /\ client'.cursor = client.cursor
    BY <1>1, ClientFields DEF ReconnectTimer, Transport
  <2>2. QED BY <1>1, <2>1, ClientFields, ClientLog, GivenUp DEF ReconnectTimer
<1>2. CASE OpenFails
  BY <1>2, ClientFields, ClientLog, GivenUp DEF OpenFails
<1>3. CASE Break
  BY <1>3, ClientFields, ClientLog, NoHandlerTyped, GivenUp DEF Break
<1>4. CASE Reconnect
  <2>1. client' \in Transport /\ client'.socket = None /\ client'.status # "open" /\ client'.cursor = client.cursor
    <3>1. client' = [client EXCEPT !.status = "resolving", !.socket = None, !.attempts = 0]
      BY <1>4 DEF Reconnect
    <3>2. client \in Transport /\ 0 \in 0..MaxRetries
      BY ClientFields
    <3>3. QED BY <3>1, <3>2 DEF Transport
  <2>2. LogTyped /\ UNCHANGED <<last, net, applied, base>> /\ handler' = NoHandler
    BY <1>4, ClientLog DEF Reconnect
  <2>3. QED BY <2>1, <2>2, ClientFields, NoHandlerTyped, GivenUp
<1>5. QED BY <1>1, <1>2, <1>3, <1>4

LEMMA OpeningSteps ==
  ASSUME StreamInv, StaysConnected \/ \E c \in Conn : OpenSocket(c)
  PROVE  StreamInv'
<1>1. CASE StaysConnected
  <2>1. LogTyped /\ UNCHANGED <<last, handler, net, applied, base>>
    BY <1>1, ClientLog DEF StaysConnected
  <2>2. /\ client' \in Transport /\ client'.socket = client.socket /\ client'.status = client.status
        /\ client'.cursor = client.cursor
    BY <1>1, ClientFields DEF StaysConnected, Transport
  <2>3. StreamTypeOK'
    BY <2>1, <2>2 DEF StreamInv, StreamTypeOK, LogTyped
  <2>4. NothingMissed' /\ Bounded' /\ StreamSound' /\ AtRest(handler)'
    BY <2>1, <2>2 DEF StreamInv, NothingMissed, Bounded, StreamSound, AtRest, Sending, Silent
  <2>5. QED BY <2>3, <2>4 DEF StreamInv
<1>2. CASE \E c \in Conn : OpenSocket(c)
  <2> PICK c \in Conn : OpenSocket(c)
    BY <1>2
  <2>1. LogTyped /\ UNCHANGED <<last, net, applied, base>> /\ net[c] = <<>>
    BY ClientLog DEF OpenSocket
  <2>2. /\ client' \in Transport /\ client'.socket = c /\ c # None /\ client'.status = "open"
        /\ client'.cursor = client.cursor
    BY ClientFields DEF OpenSocket, Transport
  <2>3. /\ handler' \in Handler /\ handler'.pc = "opening" /\ handler'.lastSeq = 0
        /\ Silent(handler') /\ ~Sending(handler') /\ AtRest(handler')
    BY NoHandlerTyped DEF OpenSocket, Handler, NoHandler, Silent, Sending, AtRest
  <2>4. StreamTypeOK'
    BY <2>1, <2>2, <2>3 DEF StreamInv, StreamTypeOK, LogTyped
  <2>5. NothingMissed' /\ Bounded'
    <3>1. NothingMissed'
      BY <2>1, <2>2 DEF StreamInv, NothingMissed
    <3>2. Bounded'
      BY <2>1, <2>2, <2>3, Numbers DEF Bounded
    <3>3. QED BY <3>1, <3>2
  <2>6. Len(net[c]) = 0
    BY <2>1, EmptySeq
  <2>7. StreamSound'
    BY <2>1, <2>2, <2>3, <2>6 DEF StreamSound, FollowOn, Unclosed
  <2>8. QED BY <2>3, <2>4, <2>5, <2>7 DEF StreamInv
<1>3. QED BY <1>1, <1>2

\* A frame of the socket the client listens to, other than a close.
LEMMA FrameTaken ==
  ASSUME StreamInv, NEW c \in Conn, Receive(c), Hears(c), Head(net[c]).kind # "close"
  PROVE  /\ StreamInv'
         /\ client'.cursor >= client.cursor
<1> DEFINE f == net[c]
           top == Head(f)
<1>1. /\ c = client.socket /\ client.socket # None /\ f \in Seq(Frame) /\ f # <<>>
      /\ FollowOn(f, client.cursor, last)
      /\ net' = [net EXCEPT ![c] = Tail(f)] /\ Accept(top)
  BY DEF Receive, Hears, StreamInv, StreamTypeOK, StreamSound
<1>2. /\ top = f[1] /\ 1 \in 1..Len(f) /\ top \in Frame
  BY <1>1, HeadTailProperties, EmptySeq, LenProperties
<1>3. /\ top.seq \in 0..MaxSeq /\ top.seq <= last
      /\ top.kind = "snapshot" => top.seq >= client.cursor
      /\ top.kind = "event" => top.seq = client.cursor + 1
      /\ top.kind \in {"snapshot", "event"}
  BY <1>1, <1>2 DEF FollowOn, Frame
<1>4. /\ Tail(f) \in Seq(Frame) /\ FollowOn(Tail(f), top.seq, last)
      /\ Tip(Tail(f), top.seq) = Tip(f, client.cursor)
      /\ Unclosed(f) => Unclosed(Tail(f))
  BY <1>1, <1>3, Numbers, HeadTaken
<1>5. LogTyped /\ UNCHANGED <<last, handler>>
  BY ClientLog DEF Receive
<1> HIDE DEF top
<1>6. /\ client' = [client EXCEPT !.cursor = top.seq]
      /\ \/ base' = top.seq /\ applied' = <<>>
         \/ base' = base /\ applied' = Append(applied, top.seq) /\ top.seq = client.cursor + 1
  BY <1>1, <1>3, Numbers DEF Accept
<1>7. /\ client' \in Transport /\ client'.socket = client.socket /\ client'.status = client.status
      /\ client'.cursor = top.seq
  BY <1>3, <1>6, ClientFields DEF Transport
<1>8. applied' \in Seq(Seqs) /\ base' \in 0..MaxSeq /\ NothingMissed'
  <2>0. applied \in Seq(Seqs) /\ Len(applied) \in Nat /\ base \in 0..MaxSeq /\ NothingMissed
    BY LenProperties DEF StreamInv, StreamTypeOK
  <2>1. CASE base' = top.seq /\ applied' = <<>>
    <3>1. <<>> \in Seq(Seqs) /\ Len(<<>>) = 0
      BY EmptySeq
    <3>2. QED BY <1>3, <1>7, <2>1, <3>1 DEF NothingMissed
  <2>2. CASE base' = base /\ applied' = Append(applied, top.seq) /\ top.seq = client.cursor + 1
    <3>1. top.seq \in Seqs
      BY <1>3, <2>2, Numbers DEF Seqs
    <3>2. /\ applied' \in Seq(Seqs) /\ Len(applied') = Len(applied) + 1
          /\ \A i \in 1..Len(applied) : applied'[i] = applied[i]
          /\ applied'[Len(applied) + 1] = top.seq
      BY <2>0, <2>2, <3>1, AppendProperties
    <3>3. top.seq = base + (Len(applied) + 1)
      BY <2>0, <2>2 DEF NothingMissed
    <3>4. \A i \in 1..Len(applied') : i \in 1..Len(applied) \/ i = Len(applied) + 1
      BY <2>0, <3>2
    <3>5. \A i \in 1..Len(applied') : applied'[i] = base + i
      BY <2>0, <3>2, <3>3, <3>4 DEF NothingMissed
    <3>6. QED BY <1>7, <2>0, <2>2, <3>2, <3>3, <3>5 DEF NothingMissed
  <2>3. QED BY <1>6, <2>1, <2>2
<1>9. net' \in [Conn -> Seq(Frame)] /\ net'[c] = Tail(f)
  BY <1>1, <1>4, ClientFields
<1>10. StreamTypeOK'
  BY <1>5, <1>7, <1>8, <1>9 DEF StreamInv, StreamTypeOK, LogTyped
<1>11. Bounded' /\ AtRest(handler')
  BY <1>3, <1>5, <1>7 DEF StreamInv, Bounded
<1>12. ~Silent(handler)
  BY <1>1 DEF StreamInv, StreamSound
<1>13. StreamSound'
  BY <1>1, <1>4, <1>5, <1>7, <1>9, <1>12 DEF StreamInv, StreamSound, Silent, Sending
<1>14. client'.cursor >= client.cursor
  BY <1>3, <1>7, Numbers
<1>15. QED BY <1>8, <1>10, <1>11, <1>13, <1>14 DEF StreamInv

LEMMA ReceiveStep ==
  ASSUME StreamInv, NEW c \in Conn, Receive(c)
  PROVE  StreamInv'
<1>1. LogTyped /\ UNCHANGED <<last, handler>>
  BY ClientLog DEF Receive
<1>2. /\ net[c] \in Seq(Frame) /\ net[c] # <<>> /\ Tail(net[c]) \in Seq(Frame)
      /\ net' = [net EXCEPT ![c] = Tail(@)]
  BY HeadTailProperties DEF Receive, StreamInv, StreamTypeOK
<1>3. net' \in [Conn -> Seq(Frame)] /\ \A d \in Conn \ {c} : net'[d] = net[d]
  BY <1>2, ClientFields
<1>4. CASE ~Hears(c)
  <2>1. UNCHANGED <<client, base, applied>> /\ client.socket # c
    BY <1>4 DEF Receive, Hears
  <2>2. StreamTypeOK'
    BY <1>1, <1>3, <2>1 DEF StreamInv, StreamTypeOK, LogTyped
  <2>3. client.socket # None => net'[client.socket] = net[client.socket]
    BY <1>3, <2>1, ClientFields DEF Transport
  <2>4. NothingMissed' /\ Bounded' /\ StreamSound' /\ AtRest(handler')
    BY <1>1, <2>1, <2>3 DEF StreamInv, NothingMissed, Bounded, StreamSound, Silent, Sending
  <2>5. QED BY <2>2, <2>4 DEF StreamInv
<1>5. CASE Hears(c) /\ Head(net[c]).kind # "close"
  BY <1>5, FrameTaken
<1>6. CASE Hears(c) /\ Head(net[c]).kind = "close"
  <2>1. client' = Rescheduled(client) /\ UNCHANGED <<base, applied>>
    BY <1>6 DEF Receive, Accept
  <2>2. ~Unclosed(net[c]) /\ client.socket = c
    <3>1. Head(net[c]) = net[c][1] /\ 1 \in 1..Len(net[c])
      BY <1>2, EmptySeq, LenProperties
    <3>2. QED BY <1>6, <3>1 DEF Unclosed, Hears
  <2>3. handler.pc = "off"
    BY <2>2, ListenedTo
  <2>4. QED BY <1>1, <1>3, <2>1, <2>3, ClientFields, GivenUp
<1>7. QED BY <1>4, <1>5, <1>6

-----------------------------------------------------------------------------
(* The theorems.                                                           *)

LEMMA InvInit ==
  ASSUME Init
  PROVE  StreamInv
<1>1. <<>> \in Seq(Frame) /\ <<>> \in Seq(Seqs) /\ Len(<<>>) = 0
  BY EmptySeq
<1>2. StreamTypeOK
  BY <1>1, NoHandlerTyped DEF Init, StreamTypeOK, Transport
<1>3. NothingMissed /\ Bounded /\ StreamSound /\ AtRest(handler)
  BY <1>1, NoHandlerTyped DEF Init, NothingMissed, Bounded, StreamSound
<1>4. QED BY <1>2, <1>3 DEF StreamInv

LEMMA InvStep ==
  ASSUME StreamInv, [Next]_vars
  PROVE  StreamInv'
<1>1. CASE LogNext
  BY <1>1, LogSteps
<1>2. CASE HandlerStep \/ HeartbeatTick \/ ServerCrash
  BY <1>2, QuietSteps, SnapshotStep, PageStep, GapStep, ClosingSteps DEF HandlerStep
<1>3. CASE \E c \in Conn : Receive(c) \/ OpenSocket(c)
  BY <1>3, ReceiveStep, OpeningSteps
<1>4. CASE ReconnectTimer \/ OpenFails \/ StaysConnected \/ Break \/ Reconnect
  BY <1>4, LosingSteps, OpeningSteps
<1>5. CASE UNCHANGED vars
  BY <1>5 DEF vars, StreamInv, StreamTypeOK, NothingMissed, Bounded, StreamSound, FollowOn, Unclosed,
     Tip, Silent, Sending, AtRest
<1>6. QED BY <1>1, <1>2, <1>3, <1>4, <1>5 DEF Next

\* The invariant behind the theorems below holds in every reachable state.
THEOREM StreamInvariant == Spec => []StreamInv
<1>1. Init => StreamInv
  BY InvInit
<1>2. StreamInv /\ [Next]_vars => StreamInv'
  BY InvStep
<1>3. QED BY <1>1, <1>2, PTL DEF Spec

\* Type correctness of the log, the handler, the frames and the client.
THEOREM StreamTypeCorrect == Spec => []StreamTypeOK
<1>1. StreamInv => StreamTypeOK
  BY DEF StreamInv
<1>2. QED BY <1>1, StreamInvariant, PTL

\* What the client has taken since its last snapshot is every envelope after its
\* watermark, once and in order, for any publication order, losses and reconnects.
THEOREM ClientMissesNothing == Spec => []NothingMissed
<1>1. StreamInv => NothingMissed
  BY DEF StreamInv
<1>2. QED BY <1>1, StreamInvariant, PTL

\* No step takes the cursor of the client back, whatever old sockets still deliver.
THEOREM ClientNeverGoesBack == Spec => NeverBack
<1>1. StreamInv /\ [Next]_vars => [client'.cursor >= client.cursor]_vars
  <2> SUFFICES ASSUME StreamInv, Next PROVE client'.cursor >= client.cursor
    OBVIOUS
  <2>1. CASE client'.cursor = client.cursor
    BY <2>1, Numbers
  <2>2. CASE \E c \in Conn : Receive(c)
    <3> PICK c \in Conn : Receive(c)
      BY <2>2
    <3>1. CASE Hears(c) /\ Head(net[c]).kind # "close"
      BY <3>1, FrameTaken
    <3>2. CASE ~(Hears(c) /\ Head(net[c]).kind # "close")
      <4>1. client' \in {client, Rescheduled(client)}
        BY <3>2 DEF Receive, Accept
      <4>2. QED BY <4>1, ClientFields, Numbers
    <3>3. QED BY <3>1, <3>2
  <2>3. CASE LogNext \/ HandlerStep \/ HeartbeatTick \/ ServerCrash
    <3>1. client' = client
      BY <2>3 DEF LogNext, Record, Publish, Delete, HandlerStep, HeartbeatTick, ServerCrash, Subscribe,
         SendSnapshot, ReadReplayWatermark, CatchUpPage, CatchUpGap, FallsShort, ReplayDone, DrainBuffer,
         StartOperation, OperationDone, ServerOnly
    <3>2. QED BY <2>1, <3>1
  <2>4. CASE ReconnectTimer \/ OpenFails \/ StaysConnected \/ Break \/ Reconnect \/ \E c \in Conn : OpenSocket(c)
    <3>1. client'.cursor = client.cursor
      BY <2>4, ClientFields
         DEF ReconnectTimer, OpenFails, StaysConnected, Break, Reconnect, OpenSocket, Transport
    <3>2. QED BY <2>1, <3>1
  <2>5. QED BY <2>2, <2>3, <2>4 DEF Next
<1>2. QED BY <1>1, StreamInvariant, PTL DEF Spec, NeverBack
=============================================================================
