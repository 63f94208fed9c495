--------------------------- MODULE EventProperties ---------------------------
(***************************************************************************)
(* What the event streams of a Run promise, stated over EventBus.          *)
(***************************************************************************)
EXTENDS EventBus

\* Every event whose publication has begun fits into the histories.
WithinLimit ==
  FoldFunction(LAMBDA x, n : n + IF x.pc = "append" THEN x.next - 1 ELSE x.next, 0, publisher)
    <= Limit

\* What a stream says, the part the client has yet to read included.
Told(c) == stream[c].got \o stream[c].channel

\* A stream tells an event once, although it comes from the table and by NATS,
\* as long as the histories hold all events of the Run (Publish, subscribe).
EventsAreToldOnce ==
  WithinLimit =>
    \A c \in Client : \A i, j \in DOMAIN Told(c) : Told(c)[i] = Told(c)[j] => i = j

\* The events of one publisher are told in the order of publication, whatever
\* mix of the table, the bus and late messages tells them, as long as the
\* histories hold all events and the table has the earlier one (Publish,
\* subscribe, AppendRunEvent).
StreamFollowsPublisher ==
  WithinLimit =>
    \A c \in Client : \A i, j \in DOMAIN Told(c) :
      i < j /\ Told(c)[i][1] = Told(c)[j][1] /\ Told(c)[j] \in Range(stored) =>
        Told(c)[i][2] <= Told(c)[j][2]

\* A stream that told the end of a Run has told every event of the publisher
\* that is in the table, unless its channel was full, the table could not be
\* read or the message of the event never arrived (Subscribe, runEvents).
EndedStreamHasNoGaps ==
  \A c \in Client :
    WithinLimit /\ stream[c].pc = "ended" /\ ~stream[c].full /\ ~stream[c].blind =>
      \A e \in Range(stored) :
        e[1] = Ending => e \in Range(stream[c].got) \union missed[stream[c].at]

\* A stream of a Run that has ended ends, whenever it was opened, unless its
\* channel was full or something failed, or the Run has more events than the
\* histories hold (Publish, Subscribe, runEvents).
StreamEnds ==
  \A c \in Client :
    stream[c].pc = "open" /\ Terminal \in Range(stored)
      ~> stream[c].pc = "ended" \/ stream[c].full \/ faults > 0 \/ ~WithinLimit
=============================================================================
