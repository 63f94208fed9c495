------------------------------- MODULE EventBus -------------------------------
(***************************************************************************)
(* The events of a Run: internal/events/bus.go and nats.go, the event table *)
(* of the PostgreSQL store and the event stream of internal/httpapi.       *)
(* Several goroutines publish events of one Run on several replicas while  *)
(* clients open streams.  Event <<p, i>> is the i-th that p publishes.     *)
(***************************************************************************)
EXTENDS Naturals, Sequences, SequencesExt, FiniteSets

CONSTANTS
  Replica,     \* the processes
  Publisher,   \* the goroutines that publish events of the Run
  Home,        \* Home[p]: the replica of p
  Count,       \* Count[p]: how many events p publishes
  Ending,      \* the publisher whose last event says that the Run has ended
  Client,      \* the clients that open a stream
  Limit,       \* AGENTMESH_EVENT_HISTORY_LIMIT
  Room,        \* the room of a channel beyond its history, 16 in the code
  FaultKinds,  \* the kinds of fault that happen
  MaxFaults    \* bound on their number

ASSUME EventAssumption ==
  /\ Home \in [Publisher -> Replica]
  /\ Count \in [Publisher -> Nat \ {0}]
  /\ Ending \in Publisher
  /\ {Limit, Room} \subseteq Nat \ {0}
  /\ MaxFaults \in Nat

VARIABLES
  stored,     \* the events of the Run in the table, in the order of sequence
  history,    \* history[r]: the history of the local bus of r
  inbox,      \* inbox[r]: messages on their way to r, in order
  publisher,  \* publisher[p]: the event p is at and how far it is
  stream,     \* stream[c]: the stream of client c
  missed,     \* missed[r]: the messages that never arrived at r
  faults      \* how many faults happened

vars == <<stored, history, inbox, publisher, stream, missed, faults>>

Terminal == <<Ending, Count[Ending]>>

NoStream == [pc |-> "idle", at |-> Home[Ending], persisted |-> <<>>, channel |-> <<>>,
             room |-> 0, got |-> <<>>, full |-> FALSE, blind |-> FALSE]

Init ==
  /\ stored = <<>>
  /\ history = [r \in Replica |-> <<>>]
  /\ inbox = [r \in Replica |-> <<>>]
  /\ publisher = [p \in Publisher |-> [next |-> 1, pc |-> "append"]]
  /\ stream = [c \in Client |-> NoStream]
  /\ missed = [r \in Replica |-> {}]
  /\ faults = 0

Fault(kind) ==
  /\ kind \in FaultKinds
  /\ faults < MaxFaults
  /\ faults' = faults + 1

Latest(n, s) == IF Len(s) > n THEN SubSeq(s, Len(s) - n + 1, Len(s)) ELSE s

-----------------------------------------------------------------------------
(* The local bus.  The identities it has seen are those of its history.    *)

\* A plausible slip: an event that came from the table comes again by NATS.
NeverSeen(r, e) == FALSE

hasSeen(r, e) == e \in Range(history[r])

\* A stream takes an event, or misses it when its channel is full.
Offer(x, r, e) ==
  IF x.pc # "open" \/ x.at # r THEN x
  ELSE IF Len(x.channel) < x.room THEN [x EXCEPT !.channel = Append(@, e)]
  ELSE [x EXCEPT !.full = TRUE]

Publish(r, e) ==
  IF hasSeen(r, e) THEN UNCHANGED <<history, stream>>
  ELSE /\ history' = [history EXCEPT ![r] = Latest(Limit, Append(@, e))]
       /\ stream' = [c \in Client |-> Offer(stream[c], r, e)]

\* The events of the table, then those that only the bus has.  Plausible slips:
\* the other order, or what came after the table was read is left out.
MergeLocalFirst(local, persisted) ==
  local \o SelectSeq(persisted, LAMBDA e : e \notin Range(local))

MergeNothing(local, persisted) == persisted

Merge(local, persisted) ==
  persisted \o SelectSeq(local, LAMBDA e : e \notin Range(persisted))

-----------------------------------------------------------------------------
(* Publication: the table, the local bus, the other replicas.              *)

At(p, pc) == publisher[p].pc = pc /\ publisher[p].next <= Count[p]
Current(p) == <<p, publisher[p].next>>
Goto(p, pc) == publisher' = [publisher EXCEPT ![p].pc = pc]

\* Old events are deleted in the transaction that appends one.
AppendRunEvent(p) ==
  /\ At(p, "append")
  /\ stored' = Latest(Limit, Append(stored, Current(p)))
  /\ Goto(p, "local")
  /\ UNCHANGED <<history, inbox, stream, missed, faults>>

\* The retention of the events in the table is over when one is appended.
AppendAfterRetention(p) ==
  /\ At(p, "append")
  /\ Fault("retention")
  /\ stored' = <<Current(p)>>
  /\ Goto(p, "local")
  /\ UNCHANGED <<history, inbox, stream, missed>>

\* The table cannot be written: the error is logged.
AppendFails(p) ==
  /\ At(p, "append")
  /\ Fault("append")
  /\ Goto(p, "local")
  /\ UNCHANGED <<stored, history, inbox, stream, missed>>

PublishLocal(p) ==
  /\ At(p, "local")
  /\ Publish(Home[p], Current(p))
  /\ Goto(p, "send")
  /\ UNCHANGED <<stored, inbox, missed, faults>>

\* The message goes to every replica but its own (NoEcho).
Others(p) == Replica \ {Home[p]}

Advance(p) == publisher' = [publisher EXCEPT ![p] = [next |-> @.next + 1, pc |-> "append"]]

PublishNATS(p) ==
  /\ At(p, "send")
  /\ inbox' = [r \in Replica |-> IF r \in Others(p) THEN Append(inbox[r], Current(p))
                                 ELSE inbox[r]]
  /\ Advance(p)
  /\ UNCHANGED <<stored, history, stream, missed, faults>>

\* The message reaches no one: core NATS does not keep it for a replica that is
\* not connected.
LoseMessage(p) ==
  /\ At(p, "send")
  /\ Fault("lose")
  /\ missed' = [r \in Replica |-> IF r \in Others(p) THEN missed[r] \union {Current(p)}
                                  ELSE missed[r]]
  /\ Advance(p)
  /\ UNCHANGED <<stored, history, inbox, stream>>

receive(r) ==
  /\ inbox[r] # <<>>
  /\ Publish(r, Head(inbox[r]))
  /\ inbox' = [inbox EXCEPT ![r] = Tail(@)]
  /\ UNCHANGED <<stored, publisher, missed, faults>>

\* A replica starts anew: its bus is empty, its streams break, and messages to
\* it and publications on it that are under way are gone.
Restart(r) ==
  LET cut == {p \in Publisher : Home[p] = r /\ publisher[p].pc # "append"}
  IN  /\ Fault("restart")
      /\ history' = [history EXCEPT ![r] = <<>>]
      /\ inbox' = [inbox EXCEPT ![r] = <<>>]
      /\ missed' = [q \in Replica |->
                      missed[q] \union IF q = r THEN Range(inbox[r])
                                       ELSE {Current(p) : p \in cut}]
      /\ publisher' = [p \in Publisher |->
                         IF p \in cut THEN [next |-> publisher[p].next + 1, pc |-> "append"]
                         ELSE publisher[p]]
      /\ stream' = [c \in Client |->
                      IF stream[c].at = r /\ stream[c].pc \in {"listed", "open"}
                      THEN [stream[c] EXCEPT !.pc = "broken"] ELSE stream[c]]
      /\ UNCHANGED stored

-----------------------------------------------------------------------------
(* Streams.                                                                *)

Become(c, x) == stream' = [stream EXCEPT ![c] = x]

\* The stream opens on some replica, which first reads the table.
ListRunEvents(c, r) ==
  /\ stream[c].pc = "idle"
  /\ Become(c, [stream[c] EXCEPT !.pc = "listed", !.at = r, !.persisted = stored])
  /\ UNCHANGED <<stored, history, inbox, publisher, missed, faults>>

\* The table cannot be read: only the history of the bus is replayed.
ListFails(c, r) ==
  /\ stream[c].pc = "idle"
  /\ Fault("list")
  /\ Become(c, [stream[c] EXCEPT !.pc = "listed", !.at = r, !.blind = TRUE])
  /\ UNCHANGED <<stored, history, inbox, publisher, missed>>

\* The merged history is also the history of the bus from then on.
subscribe(c) ==
  LET x == stream[c]
      replay == Latest(Limit, Merge(history[x.at], x.persisted))
  IN  /\ x.pc = "listed"
      /\ history' = [history EXCEPT ![x.at] = replay]
      /\ Become(c, [x EXCEPT !.pc = "open", !.persisted = <<>>, !.channel = replay,
                             !.room = Len(replay) + Room])
      /\ UNCHANGED <<stored, inbox, publisher, missed, faults>>

\* A plausible slip: the stream stays open after the end of the Run.
runEventsForever(c) ==
  /\ stream[c].pc = "open"
  /\ stream[c].channel # <<>>
  /\ Become(c, [stream[c] EXCEPT !.channel = Tail(@), !.got = Append(@, Head(stream[c].channel))])
  /\ UNCHANGED <<stored, history, inbox, publisher, missed, faults>>

\* The client gets an event; the one that ends the Run also ends the stream.
runEvents(c) ==
  LET e == Head(stream[c].channel)
  IN  /\ stream[c].pc = "open"
      /\ stream[c].channel # <<>>
      /\ Become(c, [stream[c] EXCEPT !.pc = IF e = Terminal THEN "ended" ELSE "open",
                                     !.channel = IF e = Terminal THEN <<>> ELSE Tail(@),
                                     !.got = Append(@, e)])
      /\ UNCHANGED <<stored, history, inbox, publisher, missed, faults>>

PublisherStep(p) ==
  \/ AppendRunEvent(p) \/ PublishLocal(p) \/ PublishNATS(p)
  \/ AppendAfterRetention(p) \/ AppendFails(p) \/ LoseMessage(p)

StreamStep(c) ==
  \/ \E r \in Replica : ListRunEvents(c, r) \/ ListFails(c, r)
  \/ subscribe(c) \/ runEvents(c)

Next ==
  \/ \E p \in Publisher : PublisherStep(p)
  \/ \E r \in Replica : receive(r) \/ Restart(r)
  \/ \E c \in Client : StreamStep(c)

Spec == Init /\ [][Next]_vars

\* A publication that has begun goes on, messages arrive, and clients keep
\* reading.
Fairness ==
  /\ \A p \in Publisher : WF_vars(PublishLocal(p) \/ PublishNATS(p))
  /\ \A r \in Replica : WF_vars(receive(r))
  /\ \A c \in Client : WF_vars(subscribe(c) \/ runEvents(c))

FairSpec == Spec /\ Fairness
=============================================================================
