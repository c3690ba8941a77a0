-------------------------- MODULE EnvelopeDelivery --------------------------
(***************************************************************************)
(* What the event outbox of a session promises to those who read it:       *)
(* envelopes get consecutive sequence numbers that are never used twice,   *)
(* every envelope that is recorded is published at least once or given up, *)
(* and none is removed before it has been published.  It promises nothing  *)
(* about the order in which envelopes are published, nor that each is      *)
(* published once: SessionStream shows that a client needs neither.        *)
(***************************************************************************)
EXTENDS Naturals

CONSTANT Envelope

VARIABLES
  seq,      \* [Envelope -> Nat]: session_seq, 0 until the envelope is recorded
  last,     \* session_event_seq.last_seq
  sent,     \* envelopes published at least once
  dropped,  \* envelopes given up, until somebody puts them back
  cleaned   \* envelopes whose rows are deleted

deliveryVars == <<seq, last, sent, dropped, cleaned>>

Recorded(e) == seq[e] # 0

DeliveryInit ==
  /\ seq = [e \in Envelope |-> 0]
  /\ last = 0
  /\ sent = {}
  /\ dropped = {}
  /\ cleaned = {}

Append(e) ==
  /\ ~Recorded(e)
  /\ last' = last + 1
  /\ seq' = [seq EXCEPT ![e] = last + 1]
  /\ UNCHANGED <<sent, dropped, cleaned>>

Publish(e) ==
  /\ Recorded(e)
  /\ sent' = sent \cup {e}
  /\ UNCHANGED <<seq, last, dropped, cleaned>>

\* No attempt is left.
GiveUp(e) ==
  /\ Recorded(e)
  /\ dropped' = dropped \cup {e}
  /\ UNCHANGED <<seq, last, sent, cleaned>>

\* An attempt that was still under way succeeded, or somebody ordered a retry.
Revive(e) ==
  /\ dropped' = dropped \ {e}
  /\ UNCHANGED <<seq, last, sent, cleaned>>

Clean(e) ==
  /\ e \in sent
  /\ e \notin dropped
  /\ cleaned' = cleaned \cup {e}
  /\ UNCHANGED <<seq, last, sent, dropped>>

DeliveryNext == \E e \in Envelope :
  Append(e) \/ Publish(e) \/ GiveUp(e) \/ Revive(e) \/ Clean(e)

Settle(e) == e \notin sent \cup dropped /\ (Publish(e) \/ GiveUp(e))

DeliverySafe == DeliveryInit /\ [][DeliveryNext]_deliveryVars

DeliverySpec == DeliverySafe /\ \A e \in Envelope : WF_deliveryVars(Settle(e))
=============================================================================
