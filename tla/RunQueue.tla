------------------------------ MODULE RunQueue ------------------------------
(***************************************************************************)
(* The durable work queue, internal/queue/nats.go on a JetStream stream    *)
(* with explicit acknowledgements.  An unacknowledged message may be       *)
(* delivered at any time, also while an earlier delivery of it is still    *)
(* being handled: that is NakWithDelay and the expiry of AckWait.          *)
(***************************************************************************)
EXTENDS Integers

CONSTANTS
  Payload,       \* what messages carry: Run identifiers
  MaxMessages    \* bound on the messages ever stored for one payload

VARIABLES
  stored,        \* stored[r] : number of messages stored for r so far
  unacked,       \* unacked[r] : those not acknowledged yet
  window,        \* window[r] : the stream still remembers r as a message ID
  dlq            \* payloads on the dead-letter subject

QueueTypeOK ==
  /\ stored \in [Payload -> 0..MaxMessages]
  /\ unacked \in [Payload -> SUBSET (1..MaxMessages)]
  /\ window \in [Payload -> BOOLEAN]
  /\ dlq \in SUBSET Payload

QueueInit ==
  /\ stored = [r \in Payload |-> 0]
  /\ unacked = [r \in Payload |-> {}]
  /\ window = [r \in Payload |-> FALSE]
  /\ dlq = {}

\* Publish with the Run ID as message ID: inside the duplicate window the
\* stream confirms the publish without storing anything.
Enqueue(r) ==
  \/ /\ window[r]
     /\ UNCHANGED <<stored, unacked, window, dlq>>
  \/ /\ ~window[r]
     /\ stored' = [stored EXCEPT ![r] = @ + 1]
     /\ unacked' = [unacked EXCEPT ![r] = @ \union {stored[r] + 1}]
     /\ window' = [window EXCEPT ![r] = TRUE]
     /\ UNCHANGED dlq

\* The ten minutes of StreamConfig.Duplicates pass.  The bound keeps room for
\* the next publish.
CloseWindow(r) ==
  /\ window[r]
  /\ stored[r] < MaxMessages
  /\ window' = [window EXCEPT ![r] = FALSE]
  /\ UNCHANGED <<stored, unacked, dlq>>

DoubleAck(r, m) ==
  /\ unacked' = [unacked EXCEPT ![r] = @ \ {m}]
  /\ UNCHANGED <<stored, window, dlq>>

\* The message ID "dlq-<id>" makes repeated dead letters of one Run one record.
PublishDeadLetter(r) ==
  /\ dlq' = dlq \union {r}
  /\ UNCHANGED <<stored, unacked, window>>
=============================================================================
