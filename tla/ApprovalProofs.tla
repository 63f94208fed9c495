--------------------------- MODULE ApprovalProofs ---------------------------
(***************************************************************************)
(* Safety of Approvals for any number of handlers, requests, approvals and *)
(* interruptions, and every policy: an approval lets one call through, and *)
(* only the call that was approved.                                        *)
(***************************************************************************)
EXTENDS ApprovalProperties, SequenceTheorems, FiniteSetTheorems, TLAPS

-----------------------------------------------------------------------------
(* The inductive invariant.                                                *)

HandlerState ==
  [pc : {"idle", "create", "decide", "consume", "lookup", "call", "audit", "trim", "commit"},
   req : Nat, seq : Nat, at : Nat, drop : SUBSET AuditEvent]

TypeOK ==
  /\ clock \in Nat
  /\ requests \in Seq(ReceivedRequest)
  /\ approvals \in [DOMAIN approvals -> Approval]
  /\ handler \in [Handler -> HandlerState]
  /\ audit \subseteq AuditEvent
  /\ sequence \in Nat

\* The labels at which a request has no answer yet.
Working == {"create", "decide", "consume", "lookup", "call"}

\* What a handler knows of its request.
HandlerOK(h) ==
  /\ ~At(h, "idle") => handler[h].req \in DOMAIN requests
  /\ handler[h].pc \in Working => RequestOf(h).status = 0 /\ ~RequestOf(h).called
  /\ At(h, "create") => RequestOf(h).kind = "create"
  /\ At(h, "decide") => RequestOf(h).kind \in {"approve", "reject"} /\ RequestOf(h).id \in Known
  /\ At(h, "consume") => /\ RequestOf(h).kind = "call" /\ RequestOf(h).id \in Known
                         /\ Allows(RequestOf(h).op.tool)
  /\ At(h, "lookup") => RequestOf(h).kind # "create" /\ RequestOf(h).id \in Known
  /\ At(h, "call") => RequestOf(h).kind = "call"

HandlersOK ==
  /\ \A h \in Handler : HandlerOK(h)
  /\ \A g, h \in Handler :
       ~At(g, "idle") /\ ~At(h, "idle") /\ handler[g].req = handler[h].req => g = h

\* The approval is used up, or even deleted.
Spent(i) == i \in DOMAIN approvals => approvals[i].status = "consumed"

\* A request that was let through had the right to be.
Authorized(r) ==
  /\ requests[r].kind = "call"
  /\ Allows(requests[r].op.tool)
  /\ RequiresApproval(requests[r].op.tool) => requests[r].id # 0
  /\ requests[r].id # 0 =>
       /\ requests[r].id \in Known
       /\ requests[requests[r].id].op = requests[r].op
       /\ Approved(requests[r].id)
       /\ requests[r].now < requests[requests[r].id].now + TTL
       /\ Spent(requests[r].id)

CallsOK == \A r \in Through : Authorized(r)

Decided ==
  {d \in DOMAIN requests : requests[d].kind \in {"approve", "reject"} /\ requests[d].status = 200}

DecisionsOK == OneDecision /\ \A d \in Decided : requests[d].id \in Known

Refused == {r \in DOMAIN requests : requests[r].status \in {404, 410}}

\* A request that was refused asked for an approval that was over.
TrueRefusal(r) ==
  LET i == requests[r].id
  IN  /\ i \in Known
      /\ requests[r].status = 410 => requests[r].now >= requests[i].now + TTL
      /\ requests[r].status = 404 => clock > requests[i].now + TTL + Retention

RefusalsOK == \A r \in Refused : TrueRefusal(r)

\* An approval in the store is what its request asked for and what was decided;
\* one that is no longer there was deleted after its retention.
StoreOK ==
  /\ \A i \in DOMAIN approvals :
       /\ i \in Known
       /\ approvals[i].op = requests[i].op
       /\ approvals[i].expires = requests[i].now + TTL
       /\ approvals[i].status \in {"approved", "consumed"} => Approved(i)
  /\ \A i \in Known \ DOMAIN approvals : clock > requests[i].now + TTL + Retention

ApprovalInv ==
  TypeOK /\ HandlersOK /\ CallsOK /\ ApprovalIsUsedOnce /\ DecisionsOK /\ RefusalsOK /\ StoreOK

-----------------------------------------------------------------------------
(* What every step keeps.                                                  *)

\* Requests are not forgotten, and keep the answer they got.
Extends ==
  \A r \in DOMAIN requests :
    /\ r \in DOMAIN requests'
    /\ requests'[r].kind = requests[r].kind
    /\ requests'[r].op = requests[r].op
    /\ requests'[r].id = requests[r].id
    /\ requests'[r].now = requests[r].now
    /\ requests[r].status # 0 => requests'[r].status = requests[r].status

\* An approval that clients know of does not come back, neither to the store
\* nor into use.
Evolves ==
  \A i \in Known : i \in DOMAIN approvals' =>
    /\ i \in DOMAIN approvals
    /\ approvals'[i].op = approvals[i].op
    /\ approvals'[i].expires = approvals[i].expires
    /\ approvals[i].status = "consumed" => approvals'[i].status = "consumed"
    /\ approvals[i].status = "approved" => approvals'[i].status \in {"approved", "consumed"}
    /\ approvals[i].status = "rejected" => approvals'[i].status = "rejected"

\* What is known of an approval, and that it was approved, stays true.
LEMMA KnownStays ==
  ASSUME Extends
  PROVE  /\ Known \subseteq Known'
         /\ \A i : Approved(i) => Approved(i)'
         /\ \A i \in Known : requests'[i].op = requests[i].op /\ requests'[i].now = requests[i].now
<1>1. Known \subseteq Known'
  BY DEF Extends, Known
<1>2. ASSUME NEW i, Approved(i) PROVE Approved(i)'
  BY <1>2 DEF Extends, Approved
<1>3. QED
  BY <1>1, <1>2 DEF Extends, Known

\* The right of a request that was let through stays.
LEMMA AuthorizedStays ==
  ASSUME Extends, Evolves, NEW r \in DOMAIN requests, Authorized(r)
  PROVE  Authorized(r)'
<1>1. /\ requests'[r].kind = requests[r].kind
      /\ requests'[r].op = requests[r].op
      /\ requests'[r].id = requests[r].id
      /\ requests'[r].now = requests[r].now
  BY DEF Extends
<1>2. CASE requests[r].id = 0
  BY <1>1, <1>2 DEF Authorized, Allows, RequiresApproval
<1>3. CASE requests[r].id # 0
  <2>0. PICK i : i = requests[r].id
    OBVIOUS
  <2>1. i \in Known /\ Approved(i) /\ Spent(i)
    BY <1>3, <2>0 DEF Authorized
  <2>2. i \in Known' /\ Approved(i)' /\ requests'[i].op = requests[i].op
                                     /\ requests'[i].now = requests[i].now
    BY <2>1, KnownStays
  <2>3. i \in DOMAIN approvals' => approvals'[i].status = "consumed"
    BY <2>1 DEF Evolves, Spent
  <2>4. QED
    BY <1>1, <1>3, <2>0, <2>2, <2>3 DEF Authorized, Allows, RequiresApproval, Spent
<1>4. QED
  BY <1>2, <1>3

\* A step that lets no request through, or one that has the right to and whose
\* approval let no other one through.
LEMMA CallsStep ==
  ASSUME ApprovalInv, Extends, Evolves,
         \A r \in Through' \ Through :
           /\ Authorized(r)'
           /\ requests'[r].id = 0 \/ \A s \in Through' : requests'[s].id = requests'[r].id => s = r
  PROVE  CallsOK' /\ ApprovalIsUsedOnce'
<1>1. \A r \in Through : r \in DOMAIN requests /\ requests'[r].id = requests[r].id
  BY DEF Through, Extends
<1>2. CallsOK'
  BY <1>1, AuthorizedStays DEF ApprovalInv, CallsOK
<1>3. ApprovalIsUsedOnce'
  BY <1>1 DEF ApprovalInv, ApprovalIsUsedOnce
<1>4. QED
  BY <1>2, <1>3

\* A step that decides nothing keeps the decisions that were made.
LEMMA DecisionsStep ==
  ASSUME ApprovalInv, Extends, Evolves, Decided' \subseteq Decided
  PROVE  DecisionsOK'
<1>1. Decided \subseteq DOMAIN requests
  BY DEF Decided
<1>2. ASSUME NEW d \in Decided'
      PROVE  /\ d \in Decided /\ requests[d].id \in Known
             /\ requests'[d].id = requests[d].id /\ requests'[d].kind = requests[d].kind
  BY <1>1, <1>2 DEF ApprovalInv, DecisionsOK, Extends
<1>3. ASSUME NEW d \in Decided' PROVE requests'[d].id \in Known'
  BY <1>2, <1>3, KnownStays
<1>4. OneDecision'
  <2> SUFFICES ASSUME NEW c \in Decided', NEW d \in Decided', requests'[c].id = requests'[d].id
               PROVE  /\ c = d
                      /\ requests'[c].id \in DOMAIN approvals' =>
                           approvals'[requests'[c].id].status
                             \in IF requests'[c].kind = "approve"
                                 THEN {"approved", "consumed"} ELSE {"rejected"}
    BY DEF OneDecision, Decided
  <2>1. /\ c = d
        /\ requests[c].id \in DOMAIN approvals =>
             approvals[requests[c].id].status
               \in IF requests[c].kind = "approve" THEN {"approved", "consumed"} ELSE {"rejected"}
    BY <1>2 DEF ApprovalInv, DecisionsOK, OneDecision, Decided
  <2>2. QED
    BY <1>2, <2>1 DEF Evolves
<1>5. QED
  BY <1>3, <1>4 DEF DecisionsOK

\* The requests have the fields of a request.
LEMMA RequestsTyped ==
  ASSUME TypeOK
  PROVE  /\ DOMAIN requests = 1 .. Len(requests) /\ Len(requests) \in Nat
         /\ \A r \in DOMAIN requests : requests[r] \in ReceivedRequest
         /\ \A r \in DOMAIN requests : requests[r].now \in Nat /\ requests[r].id \in Nat
<1>1. DOMAIN requests = 1 .. Len(requests) /\ Len(requests) \in Nat
  BY LenProperties DEF TypeOK
<1>2. ASSUME NEW r \in DOMAIN requests PROVE requests[r] \in ReceivedRequest
  BY <1>1, <1>2, ElementOfSeq DEF TypeOK
<1>3. QED
  BY <1>1, <1>2 DEF ReceivedRequest

\* A known request and its time.
LEMMA KnownTimes ==
  ASSUME TypeOK, NEW i \in Known
  PROVE  i \in DOMAIN requests /\ requests[i].now \in Nat
BY RequestsTyped DEF Known

\* A step that refuses nothing, or what is over.
LEMMA RefusalsStep ==
  ASSUME ApprovalInv, Extends, clock' \in Nat, clock' >= clock,
         \A r \in Refused' \ Refused : TrueRefusal(r)'
  PROVE  RefusalsOK'
<1>1. ASSUME NEW r \in Refused PROVE TrueRefusal(r)'
  <2>1. /\ requests'[r].id = requests[r].id
        /\ requests'[r].now = requests[r].now
        /\ requests'[r].status = requests[r].status
    BY <1>1 DEF Extends, Refused
  <2>2. PICK i \in Known : i = requests[r].id
    BY <1>1 DEF ApprovalInv, RefusalsOK, TrueRefusal
  <2>3. requests'[i].now = requests[i].now /\ requests[i].now \in Nat /\ i \in Known'
    BY KnownStays, KnownTimes DEF ApprovalInv
  <2>4. /\ requests[r].status = 410 => requests[r].now >= requests[i].now + TTL
        /\ requests[r].status = 404 => clock > requests[i].now + TTL + Retention
    BY <1>1, <2>2 DEF ApprovalInv, RefusalsOK, TrueRefusal
  <2>5. clock \in Nat /\ TTL \in Nat /\ Retention \in Nat
    BY ApprovalAssumption DEF ApprovalInv, TypeOK
  <2>6. QED
    BY <2>1, <2>2, <2>3, <2>4, <2>5 DEF TrueRefusal
<1>2. QED
  BY <1>1 DEF RefusalsOK

\* A step that leaves the approvals alone and announces none.
LEMMA StoreStep ==
  ASSUME ApprovalInv, Extends, clock' \in Nat, clock' >= clock,
         UNCHANGED approvals, Known' \subseteq Known
  PROVE  StoreOK' /\ Evolves
<1>1. ASSUME NEW i \in Known' \ DOMAIN approvals' PROVE clock' > requests'[i].now + TTL + Retention
  <2>1. i \in Known /\ requests'[i].now = requests[i].now /\ requests[i].now \in Nat
    BY <1>1, KnownStays, KnownTimes DEF ApprovalInv
  <2>2. clock > requests[i].now + TTL + Retention
    BY <1>1, <2>1 DEF ApprovalInv, StoreOK
  <2>3. clock \in Nat /\ TTL \in Nat /\ Retention \in Nat
    BY ApprovalAssumption DEF ApprovalInv, TypeOK
  <2>4. QED
    BY <2>1, <2>2, <2>3
<1>2. ASSUME NEW i \in DOMAIN approvals
      PROVE  /\ i \in Known' /\ approvals[i].op = requests'[i].op
             /\ approvals[i].expires = requests'[i].now + TTL
             /\ approvals[i].status \in {"approved", "consumed"} => Approved(i)'
  BY <1>2, KnownStays DEF ApprovalInv, StoreOK
<1>3. Evolves
  BY DEF Evolves
<1>4. QED
  BY <1>1, <1>2, <1>3 DEF StoreOK

-----------------------------------------------------------------------------
(* A step of a handler at its own request.                                 *)

OwnStep(h) ==
  /\ ~At(h, "idle")
  /\ \A g \in Handler \ {h} : handler'[g] = handler[g]
  /\ handler'[h].pc # "idle" => handler'[h].req = handler[h].req
  /\ DOMAIN requests' = DOMAIN requests
  /\ \A r \in DOMAIN requests : r # handler[h].req => requests'[r] = requests[r]
  /\ requests'[handler[h].req].kind = RequestOf(h).kind
  /\ requests'[handler[h].req].op = RequestOf(h).op
  /\ requests'[handler[h].req].id = RequestOf(h).id
  /\ requests'[handler[h].req].now = RequestOf(h).now
  /\ RequestOf(h).status # 0 => requests'[handler[h].req].status = RequestOf(h).status

\* A handler that rests knows what it knew when its request rests too.
LEMMA RestingHandler ==
  ASSUME NEW g \in Handler, HandlerOK(g), handler'[g] = handler[g], Extends,
         ~At(g, "idle") => requests'[handler[g].req] = requests[handler[g].req]
  PROVE  HandlerOK(g)'
<1>1. CASE At(g, "idle")
  BY <1>1 DEF HandlerOK, At, Working
<1>2. CASE ~At(g, "idle")
  <2>1. PICK r \in DOMAIN requests : r = handler[g].req
    BY <1>2 DEF HandlerOK
  <2>2. requests'[r] = requests[r] /\ r \in DOMAIN requests' /\ Known \subseteq Known'
    BY <1>2, <2>1, KnownStays DEF Extends
  <2>3. QED
    BY <2>1, <2>2 DEF HandlerOK, At, RequestOf, Allows
<1>3. QED
  BY <1>1, <1>2

\* The other handlers rest, and so do their requests.
LEMMA OthersRest ==
  ASSUME ApprovalInv, NEW h \in Handler, OwnStep(h), HandlerOK(h)'
  PROVE  Extends /\ HandlersOK'
<1>1. Extends
  BY DEF Extends, OwnStep, RequestOf
<1>2. ASSUME NEW g \in Handler, g # h PROVE HandlerOK(g)'
  <2>1. handler'[g] = handler[g] /\ HandlerOK(g)
    BY <1>2 DEF OwnStep, ApprovalInv, HandlersOK
  <2>2. ~At(g, "idle") => requests'[handler[g].req] = requests[handler[g].req]
    BY <1>2, <2>1 DEF OwnStep, ApprovalInv, HandlersOK, HandlerOK
  <2>3. QED
    BY <1>1, <2>1, <2>2, RestingHandler
<1>3. ASSUME NEW g \in Handler, NEW k \in Handler, ~At(g, "idle")', ~At(k, "idle")',
             handler'[g].req = handler'[k].req
      PROVE  g = k
  <2>1. \A f \in Handler : handler'[f].pc # "idle" =>
          handler[f].pc # "idle" /\ handler'[f].req = handler[f].req
    BY DEF OwnStep, At
  <2>2. QED
    BY <1>3, <2>1 DEF ApprovalInv, HandlersOK, At
<1>4. QED
  BY <1>1, <1>2, <1>3 DEF HandlersOK

\* Only the handler's request can become known, be let through, decided or
\* refused.
LEMMA OnlyItsRequest ==
  ASSUME NEW h \in Handler, OwnStep(h)
  PROVE  /\ Known' \subseteq Known \union {handler[h].req}
         /\ Through' \subseteq Through \union {handler[h].req}
         /\ Decided' \subseteq Decided \union {handler[h].req}
         /\ Refused' \subseteq Refused \union {handler[h].req}
<1>1. Known' \subseteq Known \union {handler[h].req}
  BY DEF Known, OwnStep
<1>2. ASSUME NEW r \in Through', r # handler[h].req PROVE r \in Through
  <2>1. r \in DOMAIN requests /\ requests'[r] = requests[r]
    BY <1>2 DEF Through, OwnStep
  <2>2. ASSUME NEW g \in Handler, At(g, "call")', handler'[g].req = r
        PROVE  At(g, "call") /\ handler[g].req = r
    BY <1>2, <2>2 DEF OwnStep, At
  <2>3. QED
    BY <1>2, <2>1, <2>2 DEF Through
<1>3. Decided' \subseteq Decided \union {handler[h].req}
  BY DEF Decided, OwnStep
<1>4. Refused' \subseteq Refused \union {handler[h].req}
  BY DEF Refused, OwnStep
<1>5. QED
  BY <1>1, <1>2, <1>3, <1>4

\* A step of a handler that leaves the approvals alone and gives its request
\* nothing that others rely on.
LEMMA QuietStep ==
  ASSUME ApprovalInv, TypeOK', NEW h \in Handler, OwnStep(h), HandlerOK(h)',
         UNCHANGED <<clock, approvals>>,
         handler[h].req \in Known' => handler[h].req \in Known,
         handler[h].req \in Through' => handler[h].req \in Through,
         handler[h].req \in Decided' => handler[h].req \in Decided,
         handler[h].req \in Refused' => handler[h].req \in Refused
  PROVE  ApprovalInv'
<1>1. Extends /\ HandlersOK'
  BY OthersRest
<1>2. /\ Known' \subseteq Known /\ Through' \subseteq Through
      /\ Decided' \subseteq Decided /\ Refused' \subseteq Refused
  BY OnlyItsRequest
<1>3. clock' \in Nat /\ clock' >= clock
  BY DEF ApprovalInv, TypeOK
<1>4. StoreOK' /\ Evolves
  BY <1>1, <1>2, <1>3, StoreStep
<1>5. QED
  BY <1>1, <1>2, <1>3, <1>4, CallsStep, DecisionsStep, RefusalsStep DEF ApprovalInv

\* A handler works on a request of the list.
LEMMA AtItsRequest ==
  ASSUME ApprovalInv, NEW h \in Handler, ~At(h, "idle")
  PROVE  /\ handler[h].req \in DOMAIN requests /\ RequestOf(h) \in ReceivedRequest
         /\ handler[h] \in HandlerState /\ HandlerOK(h)
BY RequestsTyped DEF ApprovalInv, TypeOK, HandlersOK, HandlerOK, RequestOf

\* A request that is replaced leaves a list of requests.
LEMMA ReplacedRequest ==
  ASSUME TypeOK, NEW k \in DOMAIN requests, NEW q \in ReceivedRequest,
         requests' = [requests EXCEPT ![k] = q]
  PROVE  /\ requests' \in Seq(ReceivedRequest) /\ DOMAIN requests' = DOMAIN requests
         /\ requests'[k] = q
         /\ \A r \in DOMAIN requests : r # k => requests'[r] = requests[r]
<1>1. requests' \in Seq(ReceivedRequest)
  BY RequestsTyped, ExceptSeq DEF TypeOK
<1>2. QED
  BY <1>1, RequestsTyped

\* What an answer does to the request and its handler.
LEMMA AnswerStep ==
  ASSUME ApprovalInv, NEW h \in Handler, handler[h].pc \in Working, NEW status \in Nat,
         Answer(h, status)
  PROVE  /\ OwnStep(h) /\ HandlerOK(h)'
         /\ requests' \in Seq(ReceivedRequest) /\ handler' \in [Handler -> HandlerState]
         /\ requests'[handler[h].req].status = status
         /\ ~requests'[handler[h].req].called
         /\ handler'[h].pc = "audit"
<1>1. ~At(h, "idle")
  BY DEF At, Working
<1>2. PICK k \in DOMAIN requests : k = handler[h].req
  BY <1>1, AtItsRequest
<1>3. PICK q : q = [requests[k] EXCEPT !.status = status]
  BY Zenon
<1>4. /\ requests[k] \in ReceivedRequest /\ requests[k].status = 0 /\ ~requests[k].called
      /\ handler[h] \in HandlerState
  BY <1>1, <1>2, AtItsRequest DEF HandlerOK, RequestOf
<1>5. /\ q \in ReceivedRequest /\ q.status = status /\ q.called = requests[k].called
      /\ q.kind = requests[k].kind /\ q.op = requests[k].op /\ q.id = requests[k].id
      /\ q.now = requests[k].now
  BY <1>3, <1>4 DEF ReceivedRequest
<1>6. requests' = [requests EXCEPT ![k] = q]
  BY <1>2, <1>3 DEF Answer
<1>7. /\ requests' \in Seq(ReceivedRequest) /\ DOMAIN requests' = DOMAIN requests
      /\ requests'[k] = q
      /\ \A r \in DOMAIN requests : r # k => requests'[r] = requests[r]
  BY <1>5, <1>6, ReplacedRequest, Zenon DEF ApprovalInv
<1>8. /\ handler' \in [Handler -> HandlerState]
      /\ handler'[h].pc = "audit" /\ handler'[h].req = k
      /\ \A g \in Handler \ {h} : handler'[g] = handler[g]
  BY <1>2, <1>4, Zenon DEF Answer, Goto, Become, ApprovalInv, TypeOK, HandlerState
<1>9. OwnStep(h)
  BY <1>1, <1>2, <1>4, <1>5, <1>7, <1>8 DEF OwnStep, RequestOf
<1>10. HandlerOK(h)'
  BY <1>7, <1>8 DEF HandlerOK, At, Working
<1>11. QED
  BY <1>2, <1>4, <1>5, <1>7, <1>8, <1>9, <1>10

\* What a handler does that goes on and leaves its request alone.
LEMMA MoveStep ==
  ASSUME ApprovalInv, NEW h \in Handler, ~At(h, "idle"), UNCHANGED requests,
         NEW x \in HandlerState, Become(h, x), x.pc # "idle" => x.req = handler[h].req
  PROVE  OwnStep(h) /\ handler' \in [Handler -> HandlerState] /\ handler'[h] = x
<1>1. /\ handler' \in [Handler -> HandlerState] /\ handler'[h] = x
      /\ \A g \in Handler \ {h} : handler'[g] = handler[g]
  BY DEF Become, ApprovalInv, TypeOK
<1>2. QED
  BY <1>1 DEF OwnStep, RequestOf

-----------------------------------------------------------------------------
(* The steps, one by one.                                                  *)

\* A handler that leaves the approvals and its request's answer alone.
LEMMA SilentStep ==
  ASSUME ApprovalInv, TypeOK', NEW h \in Handler, OwnStep(h), HandlerOK(h)',
         UNCHANGED <<clock, approvals>>, handler'[h].pc # "call",
         requests'[handler[h].req].status = RequestOf(h).status,
         requests'[handler[h].req].called = RequestOf(h).called
  PROVE  ApprovalInv'
<1>1. PICK k \in DOMAIN requests : k = handler[h].req
  BY AtItsRequest DEF OwnStep
<1>2. /\ DOMAIN requests' = DOMAIN requests
      /\ requests'[k].kind = requests[k].kind /\ requests'[k].status = requests[k].status
      /\ requests'[k].called = requests[k].called
  BY <1>1 DEF OwnStep, RequestOf
<1>3. k \in Through' => k \in Through
  <2>1. ASSUME NEW g \in Handler, At(g, "call")', handler'[g].req = k
        PROVE  At(g, "call") /\ handler[g].req = k
    BY <2>1 DEF OwnStep, At
  <2>2. QED
    BY <1>1, <1>2, <2>1 DEF Through
<1>4. /\ k \in Known' => k \in Known
      /\ k \in Decided' => k \in Decided
      /\ k \in Refused' => k \in Refused
  BY <1>1, <1>2 DEF Known, Decided, Refused
<1>5. QED
  BY <1>1, <1>3, <1>4, QuietStep

LEMMA LooksUp ==
  ASSUME ApprovalInv, NEW h \in Handler, handler[h].pc \in {"decide", "consume"},
         Goto(h, "lookup"), UNCHANGED <<clock, approvals, requests, audit, sequence>>
  PROVE  ApprovalInv'
<1>1. ~At(h, "idle")
  BY DEF At
<1>2. PICK x : x = [handler[h] EXCEPT !.pc = "lookup"]
  BY Zenon
<1>3. x \in HandlerState /\ x.pc = "lookup" /\ x.req = handler[h].req
  BY <1>1, <1>2, AtItsRequest DEF HandlerState
<1>4. OwnStep(h) /\ handler' \in [Handler -> HandlerState] /\ handler'[h] = x
  BY <1>1, <1>2, <1>3, MoveStep, Zenon DEF Goto
<1>5. HandlerOK(h)'
  <2>1. HandlerOK(h)
    BY <1>1, AtItsRequest
  <2>2. Known' = Known
    BY DEF Known
  <2>3. QED
    BY <1>3, <1>4, <2>1, <2>2 DEF HandlerOK, At, RequestOf, Working
<1>6. TypeOK'
  BY <1>4 DEF ApprovalInv, TypeOK
<1>7. QED
  BY <1>3, <1>4, <1>5, <1>6, SilentStep DEF RequestOf

LEMMA InsertKeeps ==
  ASSUME ApprovalInv, NEW h \in Handler, InsertAuditEvent(h)
  PROVE  ApprovalInv'
<1>1. ~At(h, "idle")
  BY DEF At, InsertAuditEvent
<1>2. PICK x : x = [handler[h] EXCEPT !.pc = "trim", !.seq = sequence + 1, !.at = clock]
  OBVIOUS
<1>3. x \in HandlerState /\ x.pc = "trim" /\ x.req = handler[h].req
  <2>1. handler[h] \in HandlerState /\ sequence + 1 \in Nat /\ clock \in Nat
    BY <1>1, AtItsRequest DEF ApprovalInv, TypeOK
  <2>2. QED
    BY <1>2, <2>1, Zenon DEF HandlerState
<1>4. OwnStep(h) /\ handler' \in [Handler -> HandlerState] /\ handler'[h] = x
  BY <1>1, <1>2, <1>3, MoveStep, Zenon DEF InsertAuditEvent
<1>5. HandlerOK(h)'
  BY <1>1, <1>3, <1>4, AtItsRequest DEF HandlerOK, At, Working, InsertAuditEvent
<1>6. TypeOK'
  BY <1>4 DEF ApprovalInv, TypeOK, InsertAuditEvent
<1>7. QED
  BY <1>3, <1>4, <1>5, <1>6, SilentStep DEF RequestOf, InsertAuditEvent

LEMMA TrimKeeps ==
  ASSUME ApprovalInv, NEW h \in Handler, TrimAuditEvents(h)
  PROVE  ApprovalInv'
<1>1. ~At(h, "idle")
  BY DEF At, TrimAuditEvents
<1>2. PICK own : own = [seq |-> handler[h].seq, req |-> handler[h].req, at |-> handler[h].at]
  BY Zenon
<1>3. PICK recent : recent = {e \in audit \union {own} : e.at + AuditRetention >= clock}
  BY Zenon
<1>4. PICK drop : drop = ((audit \union {own}) \ recent) \union Beyond(AuditMax, recent)
  BY Zenon
<1>5. handler[h] \in HandlerState /\ handler[h].req \in DOMAIN requests
  BY <1>1, AtItsRequest
<1>6. own \in AuditEvent
  BY <1>2, <1>5 DEF HandlerState, AuditEvent
<1>7. drop \in SUBSET AuditEvent
  BY <1>3, <1>4, <1>6 DEF Beyond, ApprovalInv, TypeOK
<1>8. PICK x : x = [handler[h] EXCEPT !.pc = "commit", !.drop = drop]
  OBVIOUS
<1>9. x \in HandlerState /\ x.pc = "commit" /\ x.req = handler[h].req
  BY <1>5, <1>7, <1>8, Zenon DEF HandlerState
<1>10. Become(h, x)
  BY <1>2, <1>3, <1>4, <1>8 DEF TrimAuditEvents
<1>11. OwnStep(h) /\ handler' \in [Handler -> HandlerState] /\ handler'[h] = x
  BY <1>1, <1>9, <1>10, MoveStep DEF TrimAuditEvents
<1>12. HandlerOK(h)'
  BY <1>5, <1>9, <1>11 DEF HandlerOK, At, Working, TrimAuditEvents
<1>13. TypeOK'
  BY <1>11 DEF ApprovalInv, TypeOK, TrimAuditEvents
<1>14. QED
  BY <1>9, <1>11, <1>12, <1>13, SilentStep DEF RequestOf, TrimAuditEvents

LEMMA FreeTyped == Free \in HandlerState /\ Free.pc = "idle"
BY DEF Free, HandlerState

LEMMA InterruptKeeps ==
  ASSUME ApprovalInv, NEW h \in Handler, Interrupt(h)
  PROVE  ApprovalInv'
<1>1. OwnStep(h) /\ handler' \in [Handler -> HandlerState] /\ handler'[h] = Free
  BY FreeTyped, MoveStep DEF Interrupt
<1>2. HandlerOK(h)'
  BY <1>1, FreeTyped DEF HandlerOK, At, Working
<1>3. TypeOK'
  BY <1>1 DEF ApprovalInv, TypeOK, Interrupt
<1>4. QED
  BY <1>1, <1>2, <1>3, FreeTyped, SilentStep DEF RequestOf, Interrupt

LEMMA CommitKeeps ==
  ASSUME ApprovalInv, NEW h \in Handler, CommitAuditEvent(h)
  PROVE  ApprovalInv'
<1>1. ~At(h, "idle")
  BY DEF At, CommitAuditEvent
<1>2. PICK k \in DOMAIN requests : k = handler[h].req
  BY <1>1, AtItsRequest
<1>3. requests[k] \in ReceivedRequest /\ handler[h] \in HandlerState
  BY <1>1, <1>2, AtItsRequest DEF RequestOf
<1>4. PICK q : q = [requests[k] EXCEPT !.seq = handler[h].seq]
  BY Zenon
<1>5. /\ q \in ReceivedRequest /\ q.status = requests[k].status /\ q.called = requests[k].called
      /\ q.kind = requests[k].kind /\ q.op = requests[k].op /\ q.id = requests[k].id
      /\ q.now = requests[k].now
  BY <1>3, <1>4 DEF ReceivedRequest, HandlerState
<1>6. requests' = [requests EXCEPT ![k] = q]
  BY <1>2, <1>4 DEF CommitAuditEvent
<1>7. /\ requests' \in Seq(ReceivedRequest) /\ DOMAIN requests' = DOMAIN requests
      /\ requests'[k] = q
      /\ \A r \in DOMAIN requests : r # k => requests'[r] = requests[r]
  BY <1>5, <1>6, ReplacedRequest, Zenon DEF ApprovalInv
<1>8. /\ handler' \in [Handler -> HandlerState] /\ handler'[h].pc = "idle"
      /\ \A g \in Handler \ {h} : handler'[g] = handler[g]
  BY FreeTyped DEF CommitAuditEvent, Become, ApprovalInv, TypeOK
<1>9. OwnStep(h)
  BY <1>1, <1>2, <1>5, <1>7, <1>8, Zenon DEF OwnStep, RequestOf
<1>10. HandlerOK(h)'
  BY <1>8 DEF HandlerOK, At, Working
<1>11. TypeOK'
  <2>1. audit' \subseteq AuditEvent
    BY <1>3 DEF CommitAuditEvent, ApprovalInv, TypeOK, HandlerState, AuditEvent
  <2>2. QED
    BY <1>7, <1>8, <2>1 DEF CommitAuditEvent, ApprovalInv, TypeOK
<1>12. QED
  BY <1>2, <1>5, <1>7, <1>8, <1>9, <1>10, <1>11, SilentStep DEF CommitAuditEvent, RequestOf

LEMMA CallKeeps ==
  ASSUME ApprovalInv, NEW h \in Handler, CallTool(h)
  PROVE  ApprovalInv'
<1>1. ~At(h, "idle") /\ At(h, "call")
  BY DEF At, CallTool
<1>2. PICK k \in DOMAIN requests : k = handler[h].req
  BY <1>1, AtItsRequest
<1>3. requests[k].status = 0 /\ requests[k].kind = "call"
  BY <1>1, <1>2, AtItsRequest DEF RequestOf, HandlerOK, At, Working
<1>0. requests[k] \in ReceivedRequest /\ handler[h] \in HandlerState
  BY <1>1, <1>2, AtItsRequest DEF RequestOf
<1>4. PICK result \in CallResult :
        requests' = [requests EXCEPT ![k] = WithResult(requests[k], result)]
  BY <1>2, Zenon DEF CallTool
<1>5. PICK q : q = WithResult(requests[k], result)
  OBVIOUS
<1>6. /\ q \in ReceivedRequest /\ q.status \in {200, 502}
      /\ q.kind = requests[k].kind /\ q.op = requests[k].op /\ q.id = requests[k].id
      /\ q.now = requests[k].now
  <2>1. result.called \in BOOLEAN /\ result.status \in {200, 502}
    BY DEF CallResult
  <2>2. result.status \in Nat
    BY <2>1
  <2>3. QED
    BY <1>0, <1>5, <2>1, <2>2, Zenon DEF WithResult, ReceivedRequest
<1>7. requests' = [requests EXCEPT ![k] = q]
  BY <1>4, <1>5
<1>8. /\ requests' \in Seq(ReceivedRequest) /\ DOMAIN requests' = DOMAIN requests
      /\ requests'[k] = q
      /\ \A r \in DOMAIN requests : r # k => requests'[r] = requests[r]
  BY <1>6, <1>7, ReplacedRequest, Zenon DEF ApprovalInv
<1>9. /\ handler' \in [Handler -> HandlerState] /\ handler'[h].pc = "audit"
      /\ handler'[h].req = k
      /\ \A g \in Handler \ {h} : handler'[g] = handler[g]
  <2>1. Goto(h, "audit")
    BY DEF CallTool
  <2>2. PICK x : x = [handler[h] EXCEPT !.pc = "audit"]
    BY Zenon
  <2>3. x \in HandlerState /\ x.pc = "audit" /\ x.req = handler[h].req
    BY <1>0, <2>2 DEF HandlerState
  <2>4. QED
    BY <1>2, <2>1, <2>2, <2>3 DEF Goto, Become, ApprovalInv, TypeOK
<1>10. OwnStep(h)
  BY <1>1, <1>2, <1>3, <1>6, <1>8, <1>9 DEF OwnStep, RequestOf
<1>11. HandlerOK(h)'
  BY <1>8, <1>9 DEF HandlerOK, At, Working
<1>12. TypeOK'
  BY <1>8, <1>9, Zenon DEF CallTool, ApprovalInv, TypeOK
<1>13. k \in Through /\ k \notin Known' /\ k \notin Decided' /\ k \notin Refused'
  BY <1>1, <1>2, <1>3, <1>6, <1>8 DEF Through, Known, Decided, Refused
<1>14. QED
  BY <1>2, <1>10, <1>11, <1>12, <1>13, QuietStep DEF CallTool

\* A request that is told why nothing was updated is told the truth.
LEMMA LookupKeeps ==
  ASSUME ApprovalInv, NEW h \in Handler, Lookup(h)
  PROVE  ApprovalInv'
<1>1. handler[h].pc \in Working /\ ~At(h, "idle") /\ At(h, "lookup")
  BY DEF At, Working, Lookup
<1>2. PICK k \in DOMAIN requests : k = handler[h].req
  BY <1>1, AtItsRequest, Zenon
<1>3. requests[k] \in ReceivedRequest /\ requests[k].kind # "create"
  BY <1>1, <1>2, AtItsRequest, Zenon DEF RequestOf, HandlerOK
<1>4. PICK i \in Known : i = requests[k].id
  BY <1>1, <1>2, AtItsRequest DEF RequestOf, HandlerOK
<1>5. PICK status \in {404, 409, 410} : status = Explanation(requests[k])
  BY DEF Explanation
<1>6. Answer(h, status) /\ status \in Nat /\ UNCHANGED <<clock, approvals, audit, sequence>>
  BY <1>2, <1>5 DEF Lookup, RequestOf
<1>7. /\ OwnStep(h) /\ HandlerOK(h)'
      /\ requests' \in Seq(ReceivedRequest) /\ handler' \in [Handler -> HandlerState]
      /\ requests'[k].status = status /\ ~requests'[k].called
      /\ handler'[h].pc = "audit"
  BY <1>1, <1>2, <1>6, AnswerStep
<1>8. TypeOK'
  BY <1>6, <1>7 DEF ApprovalInv, TypeOK
<1>9. Extends /\ HandlersOK'
  BY <1>7, OthersRest
<1>10. requests'[k].kind = requests[k].kind /\ requests'[k].id = i
       /\ requests'[k].now = requests[k].now
  BY <1>4, <1>9, Zenon DEF Extends
<1>11. Known' \subseteq Known /\ Decided' \subseteq Decided
  BY <1>2, <1>3, <1>7, <1>10, OnlyItsRequest DEF Known, Decided
<1>12. k \notin Through'
  <2>1. ASSUME NEW g \in Handler, At(g, "call")', handler'[g].req = k PROVE FALSE
    BY <1>1, <1>2, <1>7, <2>1 DEF OwnStep, At, ApprovalInv, HandlersOK
  <2>2. QED
    BY <1>7, <2>1 DEF Through
<1>13. Through' \subseteq Through
  BY <1>2, <1>7, <1>12, OnlyItsRequest
<1>14. clock' \in Nat /\ clock' >= clock
  BY <1>6 DEF ApprovalInv, TypeOK
<1>15. StoreOK' /\ Evolves
  BY <1>6, <1>9, <1>11, <1>14, StoreStep, Zenon
<1>16. TrueRefusal(k)'
  <2>1. requests'[i].now = requests[i].now /\ requests[i].now \in Nat /\ i \in Known'
    BY <1>9, KnownStays, KnownTimes DEF ApprovalInv
  <2>2. status = 404 => clock > requests[i].now + TTL + Retention
    BY <1>4, <1>5 DEF Explanation, ApprovalInv, StoreOK
  <2>3. status = 410 => requests[k].now >= requests[i].now + TTL
    BY <1>4, <1>5 DEF Explanation, Expired, ApprovalInv, StoreOK
  <2>4. QED
    BY <1>6, <1>7, <1>10, <2>1, <2>2, <2>3, Zenon DEF TrueRefusal
<1>17. RefusalsOK'
  BY <1>2, <1>7, <1>9, <1>14, <1>16, OnlyItsRequest, RefusalsStep
<1>18. QED
  BY <1>8, <1>9, <1>11, <1>13, <1>15, <1>17, CallsStep, DecisionsStep, Zenon DEF ApprovalInv

\* Time passes.
LEMMA TickKeeps ==
  ASSUME ApprovalInv, Tick
  PROVE  ApprovalInv'
<1>1. /\ clock \in Nat /\ clock' \in Nat /\ clock' >= clock
      /\ UNCHANGED <<approvals, requests, handler, audit, sequence>>
  BY DEF Tick, ApprovalInv, TypeOK
<1>2. Extends
  BY <1>1 DEF Extends
<1>3. /\ Known' = Known /\ Through' = Through /\ Decided' = Decided /\ Refused' = Refused
  BY <1>1 DEF Known, Through, Decided, Refused, At
<1>4. HandlersOK'
  BY <1>1, <1>3 DEF ApprovalInv, HandlersOK, HandlerOK, At, RequestOf, Allows
<1>5. StoreOK' /\ Evolves
  BY <1>1, <1>2, <1>3, StoreStep
<1>6. CallsOK' /\ ApprovalIsUsedOnce'
  BY <1>2, <1>3, <1>5, CallsStep
<1>7. DecisionsOK'
  BY <1>2, <1>3, <1>5, DecisionsStep
<1>8. RefusalsOK'
  BY <1>1, <1>2, <1>3, RefusalsStep
<1>9. TypeOK'
  BY <1>1 DEF ApprovalInv, TypeOK
<1>10. QED
  BY <1>4, <1>5, <1>6, <1>7, <1>8, <1>9 DEF ApprovalInv

\* An approval is decided once.
LEMMA DecideKeeps ==
  ASSUME ApprovalInv, NEW h \in Handler, DecideApproval(h)
  PROVE  ApprovalInv'
<1>1. handler[h].pc \in Working /\ ~At(h, "idle") /\ At(h, "decide")
  BY DEF At, Working, DecideApproval
<1>2. PICK k \in DOMAIN requests : k = handler[h].req
  BY <1>1, AtItsRequest, Zenon
<1>3. requests[k].kind \in {"approve", "reject"}
  BY <1>1, <1>2, AtItsRequest, Zenon DEF RequestOf, HandlerOK
<1>4. PICK i \in Known : i = requests[k].id
  BY <1>1, <1>2, AtItsRequest DEF RequestOf, HandlerOK
<1>5. CASE ~Decidable(RequestOf(h).id, RequestOf(h).now)
  <2>1. Goto(h, "lookup") /\ UNCHANGED <<clock, approvals, requests, audit, sequence>>
    BY <1>5 DEF DecideApproval
  <2>2. QED
    BY <1>1, <2>1, LooksUp DEF At
<1>6. CASE Decidable(RequestOf(h).id, RequestOf(h).now)
  <2>1. PICK status : status = IF requests[k].kind = "approve" THEN "approved" ELSE "rejected"
    OBVIOUS
  <2>2. /\ approvals' = [approvals EXCEPT ![i].status = status]
        /\ Answer(h, 200) /\ UNCHANGED <<clock, audit, sequence>>
    BY <1>2, <1>4, <1>6, <2>1 DEF DecideApproval, RequestOf
  <2>3. i \in DOMAIN approvals /\ approvals[i].status = "pending" /\ approvals[i] \in Approval
    BY <1>2, <1>4, <1>6 DEF Decidable, RequestOf, ApprovalInv, TypeOK
  <2>4. /\ DOMAIN approvals' = DOMAIN approvals
        /\ approvals'[i] = [approvals[i] EXCEPT !.status = status]
        /\ \A j \in DOMAIN approvals : j # i => approvals'[j] = approvals[j]
    BY <2>2, <2>3 DEF ApprovalInv, TypeOK
  <2>5. /\ approvals'[i] \in Approval /\ approvals'[i].status = status
        /\ approvals'[i].op = approvals[i].op /\ approvals'[i].expires = approvals[i].expires
    BY <2>1, <2>3, <2>4 DEF Approval
  <2>6. /\ OwnStep(h) /\ HandlerOK(h)'
        /\ requests' \in Seq(ReceivedRequest) /\ handler' \in [Handler -> HandlerState]
        /\ requests'[k].status = 200 /\ ~requests'[k].called
        /\ handler'[h].pc = "audit"
    BY <1>1, <1>2, <2>2, AnswerStep
  <2>7. TypeOK'
    <3>1. approvals' \in [DOMAIN approvals' -> Approval]
      BY <2>2, <2>4, <2>5, Zenon DEF ApprovalInv, TypeOK
    <3>2. QED
      BY <2>2, <2>6, <3>1 DEF ApprovalInv, TypeOK
  <2>8. Extends /\ HandlersOK'
    BY <2>6, OthersRest
  <2>9. /\ requests'[k].kind = requests[k].kind /\ requests'[k].id = i
        /\ requests'[k].now = requests[k].now
    BY <1>4, <2>8 DEF Extends
  <2>10. Evolves
    BY <2>3, <2>4, <2>5, Zenon DEF Evolves
  <2>11. Known' = Known
    BY <1>2, <1>3, <2>6, <2>8, <2>9, OnlyItsRequest, KnownStays DEF Known
  <2>12. Refused' \subseteq Refused
    BY <1>2, <2>6, OnlyItsRequest DEF Refused
  <2>13. Through' \subseteq Through
    <3>1. ASSUME NEW g \in Handler, At(g, "call")', handler'[g].req = k PROVE FALSE
      BY <1>1, <1>2, <2>6, <3>1 DEF OwnStep, At, ApprovalInv, HandlersOK
    <3>2. k \notin Through'
      BY <1>3, <2>6, <2>9, <3>1, Zenon DEF Through
    <3>3. QED
      BY <1>2, <2>6, <3>2, OnlyItsRequest, Zenon
  <2>14. CallsOK' /\ ApprovalIsUsedOnce'
    BY <2>8, <2>10, <2>13, CallsStep
  <2>15. RefusalsOK'
    BY <2>2, <2>8, <2>12, RefusalsStep DEF ApprovalInv, TypeOK
  <2>16. StoreOK'
    <3>1. ASSUME NEW j \in DOMAIN approvals'
          PROVE  /\ j \in Known' /\ approvals'[j].op = requests'[j].op
                 /\ approvals'[j].expires = requests'[j].now + TTL
      <4>1. /\ j \in Known /\ approvals[j].op = requests[j].op
            /\ approvals[j].expires = requests[j].now + TTL
        BY <2>4, <3>1 DEF ApprovalInv, StoreOK
      <4>2. QED
        BY <2>4, <2>5, <2>8, <2>11, <3>1, <4>1, KnownStays, Zenon
    <3>2. ASSUME NEW j \in DOMAIN approvals', approvals'[j].status \in {"approved", "consumed"}
          PROVE  Approved(j)'
      <4>1. CASE j # i
        BY <2>4, <2>8, <3>2, <4>1, KnownStays DEF ApprovalInv, StoreOK
      <4>2. CASE j = i
        <5>1. requests[k].kind = "approve"
          BY <2>1, <2>5, <3>2, <4>2
        <5>2. k \in DOMAIN requests'
          BY <2>8 DEF Extends
        <5>3. QED
          BY <2>6, <2>9, <4>2, <5>1, <5>2 DEF Approved
      <4>3. QED
        BY <4>1, <4>2
    <3>3. ASSUME NEW j \in Known' \ DOMAIN approvals'
          PROVE  clock' > requests'[j].now + TTL + Retention
      BY <2>2, <2>4, <2>8, <2>11, <3>3, KnownStays, Zenon DEF ApprovalInv, StoreOK
    <3>4. QED
      BY <3>1, <3>2, <3>3 DEF StoreOK
  <2>17. DecisionsOK'
    <3>1. ASSUME NEW d \in Decided PROVE d # k /\ requests[d].id # i /\ requests[d].id \in Known
      <4>1. requests[k].status = 0
        BY <1>1, <1>2, AtItsRequest, Zenon DEF RequestOf, HandlerOK
      <4>2. requests[d].id = i => approvals[i].status # "pending"
        BY <2>3, <3>1 DEF ApprovalInv, DecisionsOK, OneDecision, Decided
      <4>3. QED
        BY <2>3, <3>1, <4>1, <4>2, SMTT(20) DEF ApprovalInv, DecisionsOK, Decided
    <3>2. ASSUME NEW d \in Decided', d # k
          PROVE  /\ d \in Decided /\ requests'[d].id = requests[d].id
                 /\ requests'[d].kind = requests[d].kind
      BY <1>2, <2>6, <2>8, <3>2, OnlyItsRequest DEF Extends, Decided
    <3>3. ASSUME NEW d \in Decided' PROVE requests'[d].id \in Known'
      BY <2>9, <2>11, <3>1, <3>2, <3>3, Zenon
    <3>4. ASSUME NEW c \in Decided', NEW d \in Decided', requests'[c].id = requests'[d].id
          PROVE  /\ c = d
                 /\ requests'[c].id \in DOMAIN approvals' =>
                      approvals'[requests'[c].id].status
                        \in IF requests'[c].kind = "approve"
                            THEN {"approved", "consumed"} ELSE {"rejected"}
      <4>1. CASE c = k
        <5>1. d = k
          BY <2>9, <3>1, <3>2, <3>4, <4>1
        <5>2. QED
          BY <2>1, <2>5, <2>9, <4>1, <5>1, Zenon
      <4>2. CASE c # k
        <5>1. d # k /\ c \in Decided /\ d \in Decided /\ requests[c].id = requests[d].id
          BY <2>9, <3>1, <3>2, <3>4, <4>2, Zenon
        <5>2. /\ c = d
              /\ requests[c].id \in DOMAIN approvals =>
                   approvals[requests[c].id].status
                     \in IF requests[c].kind = "approve"
                         THEN {"approved", "consumed"} ELSE {"rejected"}
          BY <5>1 DEF ApprovalInv, DecisionsOK, OneDecision, Decided
        <5>3. /\ requests'[c].id = requests[c].id /\ requests'[c].kind = requests[c].kind
              /\ requests[c].id # i
          BY <3>1, <3>2, <4>2, <5>1
        <5>4. QED
          BY <2>4, <5>2, <5>3
      <4>3. QED
        BY <4>1, <4>2
    <3>5. QED
      BY <3>3, <3>4 DEF DecisionsOK, OneDecision, Decided
  <2>18. QED
    BY <2>7, <2>8, <2>14, <2>15, <2>16, <2>17 DEF ApprovalInv
<1>7. QED
  BY <1>5, <1>6

\* An approval is used for the operation it was given for, and only once.
LEMMA ConsumeKeeps ==
  ASSUME ApprovalInv, NEW h \in Handler, ConsumeApproval(h)
  PROVE  ApprovalInv'
<1>1. handler[h].pc \in Working /\ ~At(h, "idle") /\ At(h, "consume")
  BY DEF At, Working, ConsumeApproval
<1>2. PICK k \in DOMAIN requests : k = handler[h].req
  BY <1>1, AtItsRequest, Zenon
<1>3. /\ requests[k].kind = "call" /\ Allows(requests[k].op.tool)
      /\ requests[k].status = 0 /\ ~requests[k].called
  BY <1>1, <1>2, AtItsRequest, Zenon DEF RequestOf, HandlerOK
<1>4. PICK i \in Known : i = requests[k].id
  BY <1>1, <1>2, AtItsRequest DEF RequestOf, HandlerOK
<1>5. CASE ~Consumable(RequestOf(h).id, RequestOf(h).op, RequestOf(h).now)
  <2>1. Goto(h, "lookup") /\ UNCHANGED <<clock, approvals, requests, audit, sequence>>
    BY <1>5 DEF ConsumeApproval
  <2>2. QED
    BY <1>1, <2>1, LooksUp DEF At
<1>6. CASE Consumable(RequestOf(h).id, RequestOf(h).op, RequestOf(h).now)
  <2>1. /\ approvals' = [approvals EXCEPT ![i].status = "consumed"]
        /\ Goto(h, "call") /\ UNCHANGED <<clock, requests, audit, sequence>>
    BY <1>2, <1>4, <1>6 DEF ConsumeApproval, RequestOf
  <2>2. /\ i \in DOMAIN approvals /\ approvals[i] \in Approval
        /\ approvals[i].status = "approved" /\ approvals[i].op = requests[k].op
        /\ ~Expired(approvals[i], requests[k].now)
    BY <1>2, <1>4, <1>6 DEF Consumable, RequestOf, ApprovalInv, TypeOK
  <2>3. /\ DOMAIN approvals' = DOMAIN approvals
        /\ approvals'[i] = [approvals[i] EXCEPT !.status = "consumed"]
        /\ \A j \in DOMAIN approvals : j # i => approvals'[j] = approvals[j]
    BY <2>1, <2>2 DEF ApprovalInv, TypeOK
  <2>4. /\ approvals'[i] \in Approval /\ approvals'[i].status = "consumed"
        /\ approvals'[i].op = approvals[i].op /\ approvals'[i].expires = approvals[i].expires
    BY <2>2, <2>3 DEF Approval
  <2>5. PICK x : x = [handler[h] EXCEPT !.pc = "call"]
    BY Zenon
  <2>6. x \in HandlerState /\ x.pc = "call" /\ x.req = handler[h].req
    <3>1. handler[h] \in HandlerState
      BY <1>1, AtItsRequest
    <3>2. QED
      BY <2>5, <3>1 DEF HandlerState
  <2>7. OwnStep(h) /\ handler' \in [Handler -> HandlerState] /\ handler'[h] = x
    BY <1>1, <2>1, <2>5, <2>6, MoveStep, Zenon DEF Goto
  <2>8. HandlerOK(h)'
    BY <1>2, <1>3, <2>1, <2>6, <2>7 DEF HandlerOK, At, RequestOf, Working
  <2>9. TypeOK'
    <3>1. approvals' \in [DOMAIN approvals' -> Approval]
      BY <2>1, <2>3, <2>4, Zenon DEF ApprovalInv, TypeOK
    <3>2. QED
      BY <2>1, <2>7, <3>1 DEF ApprovalInv, TypeOK
  <2>10. Extends /\ HandlersOK'
    BY <2>7, <2>8, OthersRest
  <2>11. Evolves
    BY <2>2, <2>3, <2>4, Zenon DEF Evolves
  <2>12. Known' = Known /\ Decided' = Decided /\ Refused' = Refused
    BY <2>1 DEF Known, Decided, Refused
  <2>13. clock \in Nat /\ TTL \in Nat /\ Retention \in Nat /\ clock' = clock
    BY <2>1, ApprovalAssumption DEF ApprovalInv, TypeOK
  <2>14. DecisionsOK' /\ RefusalsOK'
    BY <2>10, <2>11, <2>12, <2>13, DecisionsStep, RefusalsStep
  <2>15. Approved(i)
    BY <2>2 DEF ApprovalInv, StoreOK
  <2>16. StoreOK'
    <3>1. \A j : Approved(j) => Approved(j)'
      BY <2>10, KnownStays
    <3>2. ASSUME NEW j \in DOMAIN approvals'
          PROVE  /\ j \in Known' /\ approvals'[j].op = requests'[j].op
                 /\ approvals'[j].expires = requests'[j].now + TTL
                 /\ approvals'[j].status \in {"approved", "consumed"} => Approved(j)'
      BY <2>1, <2>3, <2>4, <2>12, <2>15, <3>1, <3>2 DEF ApprovalInv, StoreOK
    <3>3. ASSUME NEW j \in Known' \ DOMAIN approvals'
          PROVE  clock' > requests'[j].now + TTL + Retention
      BY <2>1, <2>3, <2>12, <3>3 DEF ApprovalInv, StoreOK
    <3>4. QED
      BY <3>2, <3>3, Zenon DEF StoreOK
  <2>17. Authorized(k)'
    <3>1. requests[i].op = requests[k].op /\ approvals[i].expires = requests[i].now + TTL
      BY <2>2 DEF ApprovalInv, StoreOK
    <3>2. requests[k].now \in Nat /\ requests[i].now \in Nat
      BY RequestsTyped, KnownTimes DEF ApprovalInv
    <3>3. requests[k].now < requests[i].now + TTL
      BY <2>2, <2>13, <3>1, <3>2 DEF Expired
    <3>4. i # 0 /\ Approved(i)' /\ i \in Known'
      BY <2>10, <2>12, <2>15, RequestsTyped, KnownStays DEF Known, ApprovalInv
    <3>5. QED
      BY <1>3, <1>4, <2>1, <2>4, <3>1, <3>3, <3>4, Zenon DEF Authorized, Allows, Spent
  <2>18. ASSUME NEW s \in Through', requests'[s].id = requests'[k].id PROVE s = k
    <3>1. s = k \/ s \in Through
      BY <1>2, <2>7, OnlyItsRequest, Zenon
    <3>2. s \in Through => requests[s].id # i
      <4>1. SUFFICES ASSUME s \in Through, requests[s].id = i PROVE FALSE
        OBVIOUS
      <4>2. i # 0
        BY RequestsTyped DEF Known, ApprovalInv
      <4>3. Spent(i)
        BY <4>1, <4>2 DEF ApprovalInv, CallsOK, Authorized
      <4>4. QED
        BY <2>2, <4>3 DEF Spent
    <3>3. QED
      BY <1>4, <2>1, <2>18, <3>1, <3>2, Zenon
  <2>19. CallsOK' /\ ApprovalIsUsedOnce'
    BY <1>2, <2>7, <2>10, <2>11, <2>17, <2>18, OnlyItsRequest, CallsStep, Zenon
  <2>20. QED
    BY <2>9, <2>10, <2>14, <2>16, <2>19 DEF ApprovalInv
<1>7. QED
  BY <1>5, <1>6

\* An approval that is created deletes only those that are past their retention.
LEMMA CreateKeeps ==
  ASSUME ApprovalInv, NEW h \in Handler, CreateApproval(h)
  PROVE  ApprovalInv'
<1>1. handler[h].pc \in Working /\ ~At(h, "idle") /\ At(h, "create")
  BY DEF At, Working, CreateApproval
<1>2. PICK k \in DOMAIN requests : k = handler[h].req
  BY <1>1, AtItsRequest, Zenon
<1>3. requests[k].kind = "create" /\ requests[k].status = 0 /\ requests[k] \in ReceivedRequest
  BY <1>1, <1>2, AtItsRequest DEF RequestOf, HandlerOK
<1>4. PICK new : new = Initialize(requests[k].op, requests[k].now)
  OBVIOUS
<1>5. clock \in Nat /\ TTL \in Nat /\ Retention \in Nat
  BY ApprovalAssumption, Zenon DEF ApprovalInv, TypeOK
<1>6. /\ new \in Approval /\ new.op = requests[k].op /\ new.status = "pending"
      /\ new.expires = requests[k].now + TTL
  BY <1>3, <1>4, <1>5 DEF Initialize, Approval, ReceivedRequest
<1>7. /\ approvals' = [i \in (DOMAIN approvals \ Pruned) \union {k} |->
                         IF i = k THEN new ELSE approvals[i]]
      /\ Answer(h, 201) /\ UNCHANGED <<clock, audit, sequence>>
  BY <1>2, <1>4, Zenon DEF CreateApproval, RequestOf
<1>8. /\ DOMAIN approvals' = (DOMAIN approvals \ Pruned) \union {k}
      /\ approvals'[k] = new
      /\ \A i \in DOMAIN approvals \ Pruned : i # k => approvals'[i] = approvals[i]
  BY <1>7, Zenon
<1>9. /\ OwnStep(h) /\ HandlerOK(h)'
      /\ requests' \in Seq(ReceivedRequest) /\ handler' \in [Handler -> HandlerState]
      /\ requests'[k].status = 201 /\ ~requests'[k].called
      /\ handler'[h].pc = "audit"
  BY <1>1, <1>2, <1>7, AnswerStep
<1>10. TypeOK'
  <2>1. approvals' \in [DOMAIN approvals' -> Approval]
    BY <1>6, <1>7, <1>8 DEF ApprovalInv, TypeOK
  <2>2. QED
    BY <1>7, <1>9, <2>1 DEF ApprovalInv, TypeOK
<1>11. Extends /\ HandlersOK'
  BY <1>9, OthersRest
<1>12. /\ requests'[k].kind = "create" /\ requests'[k].op = requests[k].op
       /\ requests'[k].now = requests[k].now
  BY <1>3, <1>11, Zenon DEF Extends
<1>13. Decided' \subseteq Decided /\ Refused' \subseteq Refused
  BY <1>2, <1>9, <1>12, OnlyItsRequest DEF Decided, Refused
<1>14. Through' \subseteq Through
  <2>1. ASSUME NEW g \in Handler, At(g, "call")', handler'[g].req = k PROVE FALSE
    BY <1>1, <1>2, <1>9, <2>1 DEF OwnStep, At, ApprovalInv, HandlersOK
  <2>2. k \notin Through'
    BY <1>9, <1>12, <2>1 DEF Through
  <2>3. QED
    BY <1>2, <1>9, <2>2, OnlyItsRequest, Zenon
<1>15. k \notin Known /\ k \notin DOMAIN approvals
  BY <1>3 DEF Known, ApprovalInv, StoreOK
<1>16. Evolves
  BY <1>8, <1>15 DEF Evolves
<1>17. CallsOK' /\ ApprovalIsUsedOnce' /\ DecisionsOK'
  BY <1>11, <1>13, <1>14, <1>16, CallsStep, DecisionsStep, Zenon
<1>18. RefusalsOK'
  BY <1>5, <1>7, <1>11, <1>13, RefusalsStep
<1>19. StoreOK'
  <2>1. ASSUME NEW i \in DOMAIN approvals', i # k
        PROVE  /\ i \in Known' /\ approvals'[i].op = requests'[i].op
               /\ approvals'[i].expires = requests'[i].now + TTL
               /\ approvals'[i].status \in {"approved", "consumed"} => Approved(i)'
    <3>1. i \in DOMAIN approvals /\ approvals'[i] = approvals[i]
      BY <1>8, <2>1
    <3>2. QED
      BY <1>11, <3>1, KnownStays DEF ApprovalInv, StoreOK
  <2>2. /\ k \in Known' /\ approvals'[k].op = requests'[k].op
        /\ approvals'[k].expires = requests'[k].now + TTL
        /\ approvals'[k].status \notin {"approved", "consumed"}
    <3>1. k \in DOMAIN requests'
      BY <1>11 DEF Extends
    <3>2. QED
      BY <1>6, <1>8, <1>9, <1>12, <3>1 DEF Known
  <2>3. ASSUME NEW i \in Known' \ DOMAIN approvals'
        PROVE  clock' > requests'[i].now + TTL + Retention
    <3>1. i \in Known
      BY <1>2, <1>8, <1>9, <2>3, OnlyItsRequest
    <3>2. requests'[i].now = requests[i].now /\ requests[i].now \in Nat
      BY <1>11, <3>1, KnownStays, KnownTimes, Zenon DEF ApprovalInv
    <3>3. CASE i \notin DOMAIN approvals
      BY <1>7, <3>1, <3>2, <3>3, Zenon DEF ApprovalInv, StoreOK
    <3>4. CASE i \in DOMAIN approvals
      <4>1. approvals[i].expires + Retention < clock
        BY <1>8, <2>3, <3>4 DEF Pruned
      <4>2. approvals[i].expires = requests[i].now + TTL
        BY <3>4 DEF ApprovalInv, StoreOK
      <4>3. QED
        BY <1>5, <1>7, <3>2, <4>1, <4>2
    <3>5. QED
      BY <3>3, <3>4
  <2>4. ASSUME NEW i \in DOMAIN approvals'
        PROVE  /\ i \in Known' /\ approvals'[i].op = requests'[i].op
               /\ approvals'[i].expires = requests'[i].now + TTL
               /\ approvals'[i].status \in {"approved", "consumed"} => Approved(i)'
    BY <2>1, <2>2
  <2>5. QED
    BY <2>3, <2>4 DEF StoreOK
<1>20. QED
  BY <1>10, <1>11, <1>17, <1>18, <1>19, Zenon DEF ApprovalInv

\* Where a request may go on when it is received.
MayGoOn(q, pc, status) ==
  /\ status \in {0, 400, 403, 428}
  /\ \/ pc = "audit"
     \/ pc = "create" /\ status = 0 /\ q.kind = "create"
     \/ pc = "decide" /\ status = 0 /\ q.kind \in {"approve", "reject"} /\ q.id \in Known
     \/ pc = "consume" /\ status = 0 /\ q.kind = "call" /\ q.id \in Known /\ Allows(q.op.tool)
     \/ /\ pc = "call" /\ status = 0 /\ q.kind = "call" /\ q.id = 0
        /\ Allows(q.op.tool) /\ ~RequiresApproval(q.op.tool)

\* A request is received: it is refused at once or goes on where it may.
LEMMA ReceiveKeeps ==
  ASSUME ApprovalInv, NEW h \in Handler, NEW q \in Requests, NEW pc, NEW status,
         Receive(h, q, pc, status), MayGoOn(q, pc, status)
  PROVE  ApprovalInv'
<1>1. PICK k : k = Len(requests) + 1
  OBVIOUS
<1>2. PICK new : new = [kind |-> q.kind, op |-> q.op, id |-> q.id, now |-> clock,
                        status |-> status, called |-> FALSE, seq |-> 0]
  BY Zenon
<1>3. new \in ReceivedRequest
  <2>1. q \in Request /\ clock \in Nat
    BY ApprovalAssumption DEF ApprovalInv, TypeOK
  <2>2. status \in Nat
    BY DEF MayGoOn
  <2>3. QED
    BY <1>2, <2>1, <2>2 DEF Request, ReceivedRequest
<1>4. /\ requests' \in Seq(ReceivedRequest)
      /\ DOMAIN requests' = DOMAIN requests \union {k} /\ k \notin DOMAIN requests
      /\ requests'[k] = new
      /\ \A r \in DOMAIN requests : requests'[r] = requests[r]
  <2>1. requests' = Append(requests, new) /\ requests \in Seq(ReceivedRequest)
    BY <1>2 DEF Receive, ApprovalInv, TypeOK
  <2>2. /\ requests' \in Seq(ReceivedRequest) /\ Len(requests') = Len(requests) + 1
        /\ \A r \in 1 .. Len(requests) : requests'[r] = requests[r]
        /\ requests'[Len(requests) + 1] = new
    BY <1>3, <2>1, AppendProperties
  <2>3. /\ DOMAIN requests = 1 .. Len(requests) /\ Len(requests) \in Nat
        /\ DOMAIN requests' = 1 .. Len(requests')
    BY <2>1, <2>2, LenProperties
  <2>4. QED
    BY <1>1, <2>2, <2>3
<1>5. /\ At(h, "idle") /\ UNCHANGED <<clock, approvals, audit, sequence>>
      /\ handler' \in [Handler -> HandlerState]
      /\ handler'[h].pc = pc /\ handler'[h].req = k
      /\ \A g \in Handler \ {h} : handler'[g] = handler[g]
  <2>1. PICK x : x = [Free EXCEPT !.pc = pc, !.req = k]
    OBVIOUS
  <2>2. k \in Nat
    BY <1>1, RequestsTyped DEF ApprovalInv
  <2>3. x \in HandlerState /\ x.pc = pc /\ x.req = k
    <3>1. pc \in {"audit", "create", "decide", "consume", "call"}
      BY DEF MayGoOn
    <3>2. x = [pc |-> pc, req |-> k, seq |-> 0, at |-> 0, drop |-> {}]
      BY <2>1, Zenon DEF Free
    <3>3. QED
      BY <2>2, <3>1, <3>2 DEF HandlerState
  <2>4. QED
    BY <1>1, <2>1, <2>3 DEF Receive, Become, ApprovalInv, TypeOK
<1>6. Extends
  BY <1>4 DEF Extends
<1>7. /\ new.status = status /\ new.kind = q.kind /\ new.id = q.id /\ new.op = q.op
      /\ ~new.called
  BY <1>2
<1>8. Known' = Known /\ Decided' = Decided /\ Refused' = Refused
  BY <1>4, <1>7 DEF Known, Decided, Refused, MayGoOn
<1>9. HandlerOK(h)'
  BY <1>4, <1>5, <1>7, <1>8 DEF HandlerOK, At, RequestOf, Working, Allows, MayGoOn
<1>10. ASSUME NEW g \in Handler, g # h PROVE HandlerOK(g)'
  <2>1. HandlerOK(g) /\ handler'[g] = handler[g]
    BY <1>5, <1>10 DEF ApprovalInv, HandlersOK
  <2>2. ~At(g, "idle") => handler[g].req \in DOMAIN requests
    BY <2>1, Zenon DEF HandlerOK
  <2>3. QED
    BY <1>4, <1>6, <2>1, <2>2, RestingHandler, Zenon
<1>11. HandlersOK'
  <2>1. ASSUME NEW f \in Handler, NEW g \in Handler, ~At(f, "idle")', ~At(g, "idle")',
               handler'[f].req = handler'[g].req
        PROVE  f = g
    <3>1. \A e \in Handler \ {h} : ~At(e, "idle")' =>
            ~At(e, "idle") /\ handler'[e].req = handler[e].req /\ handler'[e].req # k
      BY <1>4, <1>5 DEF At, ApprovalInv, HandlersOK, HandlerOK
    <3>2. QED
      BY <1>5, <2>1, <3>1, Zenon DEF ApprovalInv, HandlersOK
  <2>2. QED
    BY <1>9, <1>10, <2>1 DEF HandlersOK
<1>12. clock' \in Nat /\ clock' >= clock
  BY <1>5 DEF ApprovalInv, TypeOK
<1>13. StoreOK' /\ Evolves
  BY <1>5, <1>6, <1>8, <1>12, StoreStep
<1>14. DecisionsOK' /\ RefusalsOK'
  BY <1>6, <1>8, <1>12, <1>13, DecisionsStep, RefusalsStep, Zenon
<1>15. ASSUME NEW r \in Through' \ Through PROVE Authorized(r)' /\ requests'[r].id = 0
  <2>1. r = k /\ pc = "call"
    <3>1. ASSUME NEW g \in Handler, At(g, "call")', handler'[g].req = r, g # h
          PROVE  r \in Through
      <4>1. handler'[g] = handler[g] /\ HandlerOK(g)
        BY <1>5, <3>1, Zenon DEF ApprovalInv, HandlersOK
      <4>2. At(g, "call") /\ handler[g].req = r
        BY <3>1, <4>1, Zenon DEF At
      <4>3. ~At(g, "idle")
        BY <4>2 DEF At
      <4>4. r \in DOMAIN requests
        BY <4>1, <4>2, <4>3, Zenon DEF HandlerOK
      <4>5. QED
        BY <4>2, <4>4, Zenon DEF Through
    <3>2. r = k
      BY <1>4, <1>5, <1>15, <3>1 DEF Through, At
    <3>3. QED
      BY <1>4, <1>5, <1>7, <1>15, <3>1, <3>2, SMTT(20) DEF Through, At, MayGoOn
  <2>2. requests'[r].kind = "call" /\ requests'[r].id = 0 /\ requests'[r].op = q.op
    BY <1>4, <1>7, <2>1 DEF MayGoOn
  <2>3. Allows(q.op.tool) /\ ~RequiresApproval(q.op.tool)
    BY <2>1 DEF MayGoOn
  <2>4. Allows(requests'[r].op.tool) /\ ~RequiresApproval(requests'[r].op.tool)
    BY <2>2, <2>3, Zenon
  <2>5. QED
    BY <2>2, <2>4, Zenon DEF Authorized, Allows, RequiresApproval
<1>16. CallsOK' /\ ApprovalIsUsedOnce'
  BY <1>6, <1>13, <1>15, CallsStep
<1>17. TypeOK'
  BY <1>4, <1>5 DEF ApprovalInv, TypeOK
<1>18. QED
  BY <1>11, <1>13, <1>14, <1>16, <1>17 DEF ApprovalInv

LEMMA RequestKeeps ==
  ASSUME ApprovalInv, NEW h \in Handler, RequestStep(h)
  PROVE  ApprovalInv'
<1>1. PICK q \in Requests : createApproval(h, q) \/ decideApproval(h, q) \/ callTool(h, q)
  BY DEF RequestStep
<1>2. CASE createApproval(h, q)
  <2>1. \/ Receive(h, q, "audit", 403) /\ MayGoOn(q, "audit", 403)
        \/ Receive(h, q, "audit", 400) /\ MayGoOn(q, "audit", 400)
        \/ Receive(h, q, "create", 0) /\ MayGoOn(q, "create", 0)
    BY <1>2 DEF createApproval, MayGoOn
  <2>2. QED
    BY <2>1, ReceiveKeeps
<1>3. CASE decideApproval(h, q)
  <2>1. Receive(h, q, "decide", 0) /\ MayGoOn(q, "decide", 0)
    BY <1>3 DEF decideApproval, MayGoOn
  <2>2. QED
    BY <2>1, ReceiveKeeps
<1>4. CASE callTool(h, q)
  <2>1. \/ Receive(h, q, "audit", 403) /\ MayGoOn(q, "audit", 403)
        \/ Receive(h, q, "audit", 428) /\ MayGoOn(q, "audit", 428)
        \/ Receive(h, q, "consume", 0) /\ MayGoOn(q, "consume", 0)
        \/ Receive(h, q, "call", 0) /\ MayGoOn(q, "call", 0)
    BY <1>4 DEF callTool, MayGoOn
  <2>2. QED
    BY <2>1, ReceiveKeeps
<1>5. QED
  BY <1>1, <1>2, <1>3, <1>4

\* The history that a server starts with is one the invariant describes.
LEMMA InitialInv ==
  ASSUME Init
  PROVE  ApprovalInv
<1> DEFINE Made(kind) == {r \in DOMAIN requests : requests[r].kind = kind}
           Decisions(i) == {r \in Made("approve") \union Made("reject") : requests[r].id = i}
<1>1. /\ requests \in Seq(ReceivedRequest) /\ audit \subseteq AuditEvent
      /\ Made("call") = {}
      /\ \A r \in DOMAIN requests :
           /\ requests[r].status = IF r \in Made("create") THEN 201 ELSE 200
           /\ ~requests[r].called
           /\ r \notin Made("create") => requests[r].id \in Made("create")
      /\ \A r, s \in Made("approve") \union Made("reject") :
           requests[r].id = requests[s].id => r = s
      /\ approvals =
           [i \in Made("create") |->
              [op |-> requests[i].op,
               status |-> IF Decisions(i) = {} THEN "pending"
                          ELSE IF Decisions(i) \subseteq Made("approve") THEN "approved"
                          ELSE "rejected",
               expires |-> requests[i].now + TTL]]
  BY HistoryAssumption DEF Init
<1>2. clock = 0 /\ handler = [h \in Handler |-> Free] /\ TTL \in Nat
  BY ApprovalAssumption, Zenon DEF Init
<1>3. /\ \A r \in DOMAIN requests : requests[r] \in ReceivedRequest
      /\ Len(requests) \in Nat
  BY <1>1, ElementOfSeq, LenProperties
<1>4. /\ DOMAIN approvals = Made("create")
      /\ \A i \in Made("create") :
           /\ approvals[i].op = requests[i].op
           /\ approvals[i].expires = requests[i].now + TTL
           /\ approvals[i].status = IF Decisions(i) = {} THEN "pending"
                                    ELSE IF Decisions(i) \subseteq Made("approve") THEN "approved"
                                    ELSE "rejected"
  BY <1>1, Zenon
<1>5. TypeOK
  <2>1. ASSUME NEW i \in Made("create") PROVE approvals[i] \in Approval
    <3>1. requests[i].op \in Operation /\ requests[i].now + TTL \in Nat
      BY <1>2, <1>3, SMTT(20) DEF ReceivedRequest
    <3>2. QED
      BY <1>1, <2>1, <3>1 DEF Approval
  <2>2. approvals \in [DOMAIN approvals -> Approval]
    BY <1>1, <1>4, <2>1, Zenon
  <2>3. QED
    BY <1>1, <1>2, <1>3, <2>2, FreeTyped, SMTT(20) DEF TypeOK, Init
<1>6. Known = Made("create")
  BY <1>1 DEF Known
<1>7. \A h \in Handler : At(h, "idle")
  BY <1>2, FreeTyped, Zenon DEF At
<1>8. HandlersOK
  BY <1>7, Zenon DEF HandlersOK, HandlerOK, At, Working
<1>9. Through = {}
  BY <1>1, <1>7 DEF Through, At
<1>10. CallsOK /\ ApprovalIsUsedOnce
  BY <1>9, Zenon DEF CallsOK, ApprovalIsUsedOnce
<1>11. Refused = {}
  BY <1>1 DEF Refused
<1>12. Decided = Made("approve") \union Made("reject")
  BY <1>1 DEF Decided
<1>13. DecisionsOK
  <2>1. ASSUME NEW c \in Decided, NEW d \in Decided, requests[c].id = requests[d].id
        PROVE  /\ c = d
               /\ requests[c].id \in DOMAIN approvals =>
                    approvals[requests[c].id].status
                      \in IF requests[c].kind = "approve" THEN {"approved", "consumed"}
                          ELSE {"rejected"}
    <3>1. PICK i \in Made("create") : i = requests[c].id
      BY <1>1, <1>12, Zenon
    <3>2. c = d /\ Decisions(i) = {c}
      BY <1>1, <1>12, <2>1, <3>1
    <3>3. requests[c].kind = "approve" <=> c \in Made("approve")
      BY <1>12, Zenon
    <3>4. QED
      BY <1>4, <3>1, <3>2, <3>3, Zenon
  <2>2. \A d \in Decided : requests[d].id \in Known
    BY <1>1, <1>6, <1>12, Zenon
  <2>3. QED
    BY <2>1, <2>2 DEF DecisionsOK, OneDecision, Decided
<1>14. StoreOK
  <2>1. ASSUME NEW i \in Made("create"), approvals[i].status \in {"approved", "consumed"}
        PROVE  Approved(i)
    <3>1. Decisions(i) # {} /\ Decisions(i) \subseteq Made("approve")
      BY <1>4, <2>1, Zenon
    <3>2. PICK d \in Decisions(i) : d \in Made("approve") /\ requests[d].id = i
      BY <3>1
    <3>3. QED
      BY <1>1, <3>2, Zenon DEF Approved
  <2>2. QED
    BY <1>4, <1>6, <2>1, Zenon DEF StoreOK
<1>15. QED
  BY <1>5, <1>8, <1>10, <1>11, <1>13, <1>14, ZenonT(30) DEF ApprovalInv, RefusalsOK

-----------------------------------------------------------------------------
(* The theorems.                                                           *)

\* The invariant of the approval handlers over the store: what every handler
\* knows of its request, every approval in the store and every answer that was
\* given agree, whatever statements of other handlers came in between.
THEOREM ApprovalInvariant == Spec => []ApprovalInv
<1>1. Init => ApprovalInv
  BY InitialInv
<1>2. ApprovalInv /\ [Next]_vars => ApprovalInv'
  <2> SUFFICES ASSUME ApprovalInv, [Next]_vars PROVE ApprovalInv'
    OBVIOUS
  <2>1. CASE Tick
    BY <2>1, TickKeeps
  <2>2. ASSUME NEW h \in Handler, RequestStep(h) PROVE ApprovalInv'
    BY <2>2, RequestKeeps
  <2>3. ASSUME NEW h \in Handler, StatementStep(h) PROVE ApprovalInv'
    BY <2>3, CreateKeeps, DecideKeeps, ConsumeKeeps, LookupKeeps, CallKeeps, InsertKeeps,
       TrimKeeps, CommitKeeps, InterruptKeeps, Zenon DEF StatementStep
  <2>4. CASE UNCHANGED vars
    <3>1. UNCHANGED <<clock, approvals, requests, handler, audit, sequence>>
      BY <2>4 DEF vars
    <3>2. /\ Known' = Known /\ Through' = Through /\ Decided' = Decided /\ Refused' = Refused
          /\ Extends /\ clock' \in Nat /\ clock' >= clock
      BY <3>1, SMTT(20) DEF Known, Through, Decided, Refused, At, Extends, ApprovalInv, TypeOK
    <3>3. HandlersOK' /\ TypeOK'
      BY <3>1, <3>2 DEF ApprovalInv, HandlersOK, HandlerOK, At, RequestOf, Allows, TypeOK
    <3>4. StoreOK' /\ Evolves
      BY <3>1, <3>2, StoreStep
    <3>5. QED
      BY <3>2, <3>3, <3>4, CallsStep, DecisionsStep, RefusalsStep, Zenon DEF ApprovalInv
  <2>5. QED
    BY <2>1, <2>2, <2>3, <2>4 DEF Next
<1>3. QED
  BY <1>1, <1>2, PTL DEF Spec

\* An approval lets one request through (ConsumeApproval), for any number of
\* handlers, requests and interruptions.
THEOREM ApprovalsAreUsedOnce == Spec => []ApprovalIsUsedOnce
<1>1. ApprovalInv => ApprovalIsUsedOnce
  BY ZenonT(30) DEF ApprovalInv
<1>2. QED
  BY <1>1, ApprovalInvariant, PTL

\* Only calls the policy allows and, for protected tools, an administrator
\* approved in time reach a tool (callTool), for every policy.
THEOREM CallsAreAuthorized == Spec => []ToolCallsAreAuthorized
<1>1. ApprovalInv => ToolCallsAreAuthorized
  BY DEF ApprovalInv, CallsOK, Authorized, ToolCallsAreAuthorized
<1>2. QED
  BY <1>1, ApprovalInvariant, PTL

\* An approval is decided once and keeps its decision (DecideApproval).
THEOREM DecisionsAreFinal == Spec => []OneDecision
<1>1. ApprovalInv => OneDecision
  BY Zenon DEF ApprovalInv, DecisionsOK
<1>2. QED
  BY <1>1, ApprovalInvariant, PTL

\* Who is refused because an approval expired or is gone is told the truth
\* (GetApproval, CreateApproval), for every lifetime and retention.
THEOREM RefusalsAreHonest == Spec => []RefusalsAreTrue
<1>1. ApprovalInv => RefusalsAreTrue
  BY DEF ApprovalInv, RefusalsOK, TrueRefusal, Refused, RefusalsAreTrue
<1>2. QED
  BY <1>1, ApprovalInvariant, PTL

-----------------------------------------------------------------------------
(* The audit log.                                                          *)

Own(h) == [seq |-> handler[h].seq, req |-> handler[h].req, at |-> handler[h].at]

\* The requests with a later place in the log than n; those there will be when
\* h commits.
Later(n) == {s \in DOMAIN requests : requests[s].seq > n}
LaterWith(h, n) ==
  {s \in DOMAIN requests : requests[s].seq > n \/ (s = handler[h].req /\ handler[h].seq > n)}

\* A request whose event may leave a log with the later ones of the set L.
MayLeave(r, L) == clock > requests[r].now + AuditRetention \/ Cardinality(L) >= AuditMax

\* What a handler is about to delete was found old, or early enough, among the
\* committed events and its own; it is right to delete it when its own event
\* enters the log.
HandlerAudits(h) ==
  /\ ~At(h, "idle") => RequestOf(h).seq = 0 /\ RequestOf(h).now <= clock
  /\ handler[h].pc \in {"trim", "commit"} => handler[h].seq # 0 /\ handler[h].at >= RequestOf(h).now
  /\ At(h, "commit") =>
       \A e \in handler[h].drop :
         /\ e.req \in DOMAIN requests
         /\ e = Own(h) \/ (requests[e.req].seq = e.seq /\ e.seq # 0)
         /\ MayLeave(e.req, LaterWith(h, e.seq))

LogOK ==
  /\ \A e \in audit : /\ e.req \in DOMAIN requests
                      /\ requests[e.req].seq = e.seq /\ e.seq # 0
                      /\ e.at >= requests[e.req].now
  /\ \A e, f \in audit : e.req = f.req => e = f

AuditInv == LogOK /\ AuditKeepsTheLatest /\ \A h \in Handler : HandlerAudits(h)

\* Time passes, and a request keeps its place in the log.
AuditGrows ==
  /\ clock' >= clock
  /\ \A r \in DOMAIN requests :
       /\ r \in DOMAIN requests' /\ requests'[r].now = requests[r].now
       /\ requests[r].seq # 0 => requests'[r].seq = requests[r].seq

LEMMA FiniteRequests ==
  ASSUME NEW q \in Seq(ReceivedRequest), NEW S \in SUBSET DOMAIN q
  PROVE  IsFiniteSet(S) /\ Cardinality(S) \in Nat
<1>1. Len(q) \in Nat /\ DOMAIN q = 1..Len(q)
  BY LenProperties
<1>2. IsFiniteSet(1..Len(q))
  BY <1>1, FS_Interval, SMT
<1>3. IsFiniteSet(S)
  BY <1>1, <1>2, FS_Subset, Zenon
<1>4. QED
  BY <1>3, FS_CardinalityType, Zenon

LEMMA MayLeaveStays ==
  ASSUME TypeOK, TypeOK', AuditGrows, NEW r \in DOMAIN requests,
         NEW L \in SUBSET DOMAIN requests, NEW M \in SUBSET DOMAIN requests', L \subseteq M, MayLeave(r, L)
  PROVE  clock' > requests'[r].now + AuditRetention \/ Cardinality(M) >= AuditMax
<1>1. IsFiniteSet(M) /\ Cardinality(M) \in Nat
  BY FiniteRequests, Zenon DEF TypeOK
<1>2. Cardinality(L) <= Cardinality(M) /\ Cardinality(L) \in Nat
  BY <1>1, FS_Subset, FiniteRequests, Zenon DEF TypeOK
<1>3. /\ requests[r] \in ReceivedRequest /\ requests'[r].now = requests[r].now
      /\ AuditMax \in Nat /\ AuditRetention \in Nat
  BY RequestsTyped, ApprovalAssumption, Zenon DEF AuditGrows
<1>4. requests[r].now \in Nat /\ clock \in Nat /\ clock' \in Nat
  BY <1>3 DEF ReceivedRequest, TypeOK
<1>5. QED
  BY <1>1, <1>2, <1>3, <1>4 DEF MayLeave, AuditGrows

\* A handler that rests is still right about what it is about to delete.
LEMMA RestingAudits ==
  ASSUME TypeOK, TypeOK', AuditGrows, NEW h \in Handler, HandlerAudits(h), HandlerOK(h),
         handler'[h] = handler[h],
         ~At(h, "idle") => requests'[handler[h].req].seq = requests[handler[h].req].seq
  PROVE  HandlerAudits(h)'
<1>1. CASE At(h, "idle")
  BY <1>1, Zenon DEF HandlerAudits, At
<1>2. CASE ~At(h, "idle")
  <2>1. PICK k \in DOMAIN requests : k = handler[h].req
    BY <1>2, Zenon DEF HandlerOK
  <2>2. /\ requests'[k].seq = 0 /\ requests[k].seq = 0 /\ requests'[k].now = requests[k].now
        /\ requests[k].now <= clock /\ clock' >= clock
    BY <1>2, <2>1, Zenon DEF HandlerAudits, RequestOf, AuditGrows
  <2>3. requests'[k].now <= clock'
    <3>1. requests[k].now \in Nat /\ clock \in Nat /\ clock' \in Nat
      BY RequestsTyped, Zenon DEF TypeOK
    <3>2. QED
      BY <2>2, <3>1
  <2>4. ASSUME At(h, "commit"), NEW e \in handler[h].drop
        PROVE  /\ e.req \in DOMAIN requests'
               /\ e = Own(h)' \/ (requests'[e.req].seq = e.seq /\ e.seq # 0)
               /\ MayLeave(e.req, LaterWith(h, e.seq))'
    <3>1. /\ e.req \in DOMAIN requests
          /\ e = Own(h) \/ (requests[e.req].seq = e.seq /\ e.seq # 0)
          /\ MayLeave(e.req, LaterWith(h, e.seq))
      BY <2>4, Zenon DEF HandlerAudits
    <3>2. e \in AuditEvent /\ e.seq \in Nat
      <4>1. e \in AuditEvent
        BY <2>4, Zenon DEF TypeOK, HandlerState
      <4>2. QED
        BY <4>1 DEF AuditEvent
    <3>3. LaterWith(h, e.seq) \subseteq LaterWith(h, e.seq)'
      <4>1. ~(0 > e.seq)
        BY <3>2
      <4>2. ASSUME NEW s \in DOMAIN requests, requests[s].seq > e.seq
            PROVE  s \in DOMAIN requests' /\ requests'[s].seq > e.seq
        BY <4>1, <4>2, Zenon DEF AuditGrows
      <4>3. QED
        BY <4>2, Zenon DEF LaterWith, AuditGrows
    <3>4. PICK L : L = LaterWith(h, e.seq)
      BY Zenon
    <3>5. PICK M : M = {s \in DOMAIN requests' : requests'[s].seq > e.seq
                                                   \/ (s = handler'[h].req /\ handler'[h].seq > e.seq)}
      BY Zenon
    <3>6. /\ L \subseteq M /\ L \in SUBSET DOMAIN requests /\ M \in SUBSET DOMAIN requests'
          /\ MayLeave(e.req, L)
      BY <3>1, <3>3, <3>4, <3>5, Zenon DEF LaterWith
    <3>7. clock' > requests'[e.req].now + AuditRetention \/ Cardinality(M) >= AuditMax
      BY <3>1, <3>6, MayLeaveStays, Zenon
    <3>8. MayLeave(e.req, LaterWith(h, e.seq))'
      BY <3>5, <3>7 DEF MayLeave, LaterWith
    <3>9. Own(h)' = Own(h)
      BY Zenon DEF Own
    <3>10. QED
      BY <3>1, <3>8, <3>9, Zenon DEF AuditGrows
  <2>5. QED
    BY <1>2, <2>1, <2>2, <2>3, <2>4, Zenon DEF HandlerAudits, At, RequestOf
<1>3. QED
  BY <1>1, <1>2

\* The log stays right when nobody commits.
LEMMA LogStays ==
  ASSUME TypeOK, TypeOK', AuditGrows, LogOK, AuditKeepsTheLatest, audit' = audit,
         \A r \in DOMAIN requests' :
           requests'[r].seq = 0 \/ (r \in DOMAIN requests /\ requests'[r].seq = requests[r].seq)
  PROVE  LogOK' /\ AuditKeepsTheLatest'
<1>1. LogOK'
  BY Zenon DEF LogOK, AuditGrows
<1>2. ASSUME NEW r \in DOMAIN requests', requests'[r].seq # 0, ~\E e \in audit : e.req = r
      PROVE  \/ clock' > requests'[r].now + AuditRetention
             \/ Cardinality({s \in DOMAIN requests' : requests'[s].seq > requests'[r].seq}) >= AuditMax
  <2>1. r \in DOMAIN requests /\ requests[r].seq = requests'[r].seq
    BY <1>2, Zenon
  <2>2. PICK L : L = {s \in DOMAIN requests : requests[s].seq > requests[r].seq}
    BY Zenon
  <2>3. MayLeave(r, L)
    BY <1>2, <2>1, <2>2, Zenon DEF AuditKeepsTheLatest, MayLeave
  <2>4. PICK M : M = {s \in DOMAIN requests' : requests'[s].seq > requests'[r].seq}
    BY Zenon
  <2>5. L \subseteq M
    <3>1. ~(0 > requests[r].seq)
      BY <2>1, RequestsTyped DEF ReceivedRequest
    <3>2. QED
      BY <2>1, <2>2, <2>4, <3>1, Zenon DEF AuditGrows
  <2>6. L \in SUBSET DOMAIN requests /\ M \in SUBSET DOMAIN requests'
    BY <2>2, <2>4, Zenon
  <2>7. QED
    BY <2>1, <2>3, <2>4, <2>5, <2>6, MayLeaveStays, Zenon
<1>3. QED
  BY <1>1, <1>2, Zenon DEF AuditKeepsTheLatest

\* A step of h before its event is written.
QuietAudit(h) ==
  /\ UNCHANGED <<clock, audit>>
  /\ DOMAIN requests' = DOMAIN requests
  /\ \A r \in DOMAIN requests : requests'[r].seq = requests[r].seq /\ requests'[r].now = requests[r].now
  /\ \A g \in Handler \ {h} : handler'[g] = handler[g]
  /\ handler'[h].pc \notin {"trim", "commit"}
  /\ handler'[h].pc # "idle" => handler[h].pc # "idle" /\ handler'[h].req = handler[h].req

LEMMA QuietAudits ==
  ASSUME ApprovalInv, TypeOK', AuditInv, NEW h \in Handler, QuietAudit(h)
  PROVE  AuditInv'
<1>1. AuditGrows
  BY DEF QuietAudit, AuditGrows, ApprovalInv, TypeOK
<1>2. LogOK' /\ AuditKeepsTheLatest'
  BY <1>1, LogStays, Zenon DEF QuietAudit, AuditInv, ApprovalInv
<1>3. ASSUME NEW g \in Handler, g # h PROVE HandlerAudits(g)'
  <2>1. handler'[g] = handler[g] /\ HandlerOK(g) /\ HandlerAudits(g)
    BY <1>3, Zenon DEF QuietAudit, ApprovalInv, HandlersOK, AuditInv
  <2>2. ~At(g, "idle") => requests'[handler[g].req].seq = requests[handler[g].req].seq
    BY <2>1, Zenon DEF HandlerOK, QuietAudit
  <2>3. QED
    BY <1>1, <2>1, <2>2, RestingAudits, Zenon DEF ApprovalInv
<1>4. HandlerAudits(h)'
  <2>1. CASE handler'[h].pc = "idle"
    BY <2>1, Zenon DEF HandlerAudits, At
  <2>2. CASE handler'[h].pc # "idle"
    <3>1. handler[h].pc # "idle" /\ handler'[h].req = handler[h].req /\ handler[h].req \in DOMAIN requests
      BY <2>2, AtItsRequest, Zenon DEF QuietAudit, At
    <3>2. requests[handler[h].req].seq = 0 /\ requests[handler[h].req].now <= clock
      BY <3>1, Zenon DEF AuditInv, HandlerAudits, At, RequestOf
    <3>3. QED
      BY <3>1, <3>2, Zenon DEF QuietAudit, HandlerAudits, At, RequestOf
  <2>3. QED
    BY <2>1, <2>2
<1>5. QED
  BY <1>2, <1>3, <1>4, Zenon DEF AuditInv

\* The request of h is replaced by one with the same time and place.
LEMMA SamePlace ==
  ASSUME TypeOK, NEW k \in DOMAIN requests, NEW q, q.seq = requests[k].seq, q.now = requests[k].now,
         requests' = [requests EXCEPT ![k] = q]
  PROVE  /\ DOMAIN requests' = DOMAIN requests
         /\ \A r \in DOMAIN requests :
              requests'[r].seq = requests[r].seq /\ requests'[r].now = requests[r].now
<1>1. requests = [r \in DOMAIN requests |-> requests[r]]
  BY RequestsTyped, SeqDef DEF TypeOK
<1>2. QED
  BY <1>1, Zenon

LEMMA StatementAudits ==
  ASSUME ApprovalInv, NEW h \in Handler,
         \/ CreateApproval(h) \/ DecideApproval(h) \/ ConsumeApproval(h) \/ Lookup(h) \/ CallTool(h)
         \/ Interrupt(h)
  PROVE  QuietAudit(h)
<1>1. ~At(h, "idle")
  BY Zenon DEF CreateApproval, DecideApproval, ConsumeApproval, Lookup, CallTool, Interrupt, At
<1>2. PICK k \in DOMAIN requests : k = handler[h].req
  BY <1>1, AtItsRequest, Zenon
<1>3. /\ requests[k] \in ReceivedRequest /\ handler[h] \in HandlerState
      /\ handler \in [Handler -> HandlerState] /\ TypeOK
  BY <1>1, <1>2, AtItsRequest, Zenon DEF RequestOf, ApprovalInv, TypeOK
<1>4. ASSUME NEW pc, pc \in {"audit", "lookup", "call"}, Goto(h, pc)
      PROVE  /\ \A g \in Handler \ {h} : handler'[g] = handler[g]
             /\ handler'[h].pc \notin {"trim", "commit"} /\ handler'[h].req = handler[h].req
  BY <1>3, <1>4, Zenon DEF Goto, Become, HandlerState
<1>5. ASSUME NEW status, Answer(h, status)
      PROVE  /\ DOMAIN requests' = DOMAIN requests
             /\ \A r \in DOMAIN requests :
                  requests'[r].seq = requests[r].seq /\ requests'[r].now = requests[r].now
             /\ Goto(h, "audit")
  <2>1. PICK q : q = [requests[k] EXCEPT !.status = status]
    BY Zenon
  <2>2. q.seq = requests[k].seq /\ q.now = requests[k].now
    BY <1>3, <2>1 DEF ReceivedRequest
  <2>3. requests' = [requests EXCEPT ![k] = q] /\ Goto(h, "audit")
    BY <1>2, <1>5, <2>1 DEF Answer
  <2>4. QED
    BY <1>3, <2>2, <2>3, SamePlace, Zenon
<1>6. CASE CreateApproval(h) \/ Lookup(h)
  <2>1. UNCHANGED <<clock, audit>> /\ \E status : Answer(h, status)
    BY <1>6, Zenon DEF CreateApproval, Lookup
  <2>2. QED
    BY <1>1, <1>4, <1>5, <2>1, Zenon DEF QuietAudit, At
<1>7. CASE DecideApproval(h) \/ ConsumeApproval(h)
  <2>1. /\ UNCHANGED <<clock, audit>>
        /\ \/ \E status : Answer(h, status)
           \/ requests' = requests /\ \E pc \in {"lookup", "call"} : Goto(h, pc)
    BY <1>7, Zenon DEF DecideApproval, ConsumeApproval
  <2>2. QED
    BY <1>1, <1>4, <1>5, <2>1, Zenon DEF QuietAudit, At
<1>8. CASE CallTool(h)
  <2>1. PICK result \in CallResult : requests' = [requests EXCEPT ![handler[h].req] = WithResult(@, result)]
    BY <1>8, Zenon DEF CallTool
  <2>2. PICK q : q = WithResult(requests[k], result)
    BY Zenon
  <2>3. q.seq = requests[k].seq /\ q.now = requests[k].now
    BY <1>3, <2>2 DEF ReceivedRequest, WithResult
  <2>4. requests' = [requests EXCEPT ![k] = q]
    BY <1>2, <2>1, <2>2
  <2>5. UNCHANGED <<clock, audit>> /\ Goto(h, "audit")
    BY <1>8, Zenon DEF CallTool
  <2>6. QED
    BY <1>1, <1>3, <1>4, <2>3, <2>4, <2>5, SamePlace, Zenon DEF QuietAudit, At
<1>9. CASE Interrupt(h)
  <2>1. handler' = [handler EXCEPT ![h] = Free] /\ UNCHANGED <<clock, requests, audit>>
    BY <1>9, Zenon DEF Interrupt, Become
  <2>2. QED
    BY <1>3, <2>1, FreeTyped, Zenon DEF QuietAudit
<1>10. QED
  BY <1>6, <1>7, <1>8, <1>9

LEMMA ReceiveAudits ==
  ASSUME ApprovalInv, TypeOK', AuditInv, NEW h \in Handler, NEW q, NEW pc \in Working \union {"audit"},
         NEW status, Receive(h, q, pc, status)
  PROVE  AuditInv'
<1>1. PICK k : k = Len(requests) + 1
  BY Zenon
<1>2. /\ requests \in Seq(ReceivedRequest) /\ clock \in Nat /\ handler \in [Handler -> HandlerState]
      /\ DOMAIN requests = 1..Len(requests) /\ Len(requests) \in Nat
  BY RequestsTyped, Zenon DEF ApprovalInv, TypeOK
<1>3. PICK x : /\ requests' = Append(requests, x) /\ x.now = clock /\ x.seq = 0
  BY DEF Receive
<1>4. /\ DOMAIN requests' = DOMAIN requests \union {k} /\ k \notin DOMAIN requests
      /\ requests'[k] = x /\ \A r \in DOMAIN requests : requests'[r] = requests[r]
  <2>1. /\ Len(requests') = k
        /\ \A i \in 1..k : requests'[i] = IF i <= Len(requests) THEN requests[i] ELSE x
    BY <1>1, <1>2, <1>3
  <2>2. DOMAIN requests' = 1..k
    BY <2>1, LenProperties DEF TypeOK
  <2>3. QED
    BY <1>1, <1>2, <2>1, <2>2
<1>5. /\ UNCHANGED <<clock, audit>>
      /\ handler'[h].pc = pc /\ handler'[h].req = k
      /\ \A g \in Handler \ {h} : handler'[g] = handler[g]
  <2>1. UNCHANGED <<clock, audit>> /\ handler' = [handler EXCEPT ![h] = [Free EXCEPT !.pc = pc, !.req = k]]
    BY <1>1, Zenon DEF Receive, Become
  <2>2. PICK y : y = [Free EXCEPT !.pc = pc, !.req = k]
    BY Zenon
  <2>3. y.pc = pc /\ y.req = k
    BY <2>2 DEF Free
  <2>4. QED
    BY <1>2, <2>1, <2>2, <2>3, Zenon
<1>6. AuditGrows
  BY <1>2, <1>4, <1>5 DEF AuditGrows
<1>7. LogOK' /\ AuditKeepsTheLatest'
  BY <1>3, <1>4, <1>5, <1>6, LogStays, Zenon DEF AuditInv, ApprovalInv
<1>8. ASSUME NEW g \in Handler, g # h PROVE HandlerAudits(g)'
  <2>1. handler'[g] = handler[g] /\ HandlerOK(g) /\ HandlerAudits(g)
    BY <1>5, <1>8, Zenon DEF ApprovalInv, HandlersOK, AuditInv
  <2>2. ~At(g, "idle") => requests'[handler[g].req].seq = requests[handler[g].req].seq
    BY <1>4, <2>1, Zenon DEF HandlerOK
  <2>3. QED
    BY <1>6, <2>1, <2>2, RestingAudits, Zenon DEF ApprovalInv
<1>9. HandlerAudits(h)'
  <2>1. pc \notin {"trim", "commit", "idle"}
    BY DEF Working
  <2>2. requests'[k].now <= clock'
    BY <1>2, <1>3, <1>4, <1>5
  <2>3. QED
    BY <1>3, <1>4, <1>5, <2>1, <2>2, Zenon DEF HandlerAudits, At, RequestOf
<1>10. QED
  BY <1>7, <1>8, <1>9, Zenon DEF AuditInv

\* The steps of the audit transaction but the last leave requests and log alone.
LEMMA TransactionAudits ==
  ASSUME ApprovalInv, TypeOK', AuditInv, NEW h \in Handler, UNCHANGED <<clock, audit, requests>>,
         \A g \in Handler \ {h} : handler'[g] = handler[g], HandlerAudits(h)'
  PROVE  AuditInv'
<1>1. AuditGrows
  BY DEF AuditGrows, ApprovalInv, TypeOK
<1>2. LogOK' /\ AuditKeepsTheLatest'
  BY <1>1, LogStays, Zenon DEF AuditInv, ApprovalInv
<1>3. ASSUME NEW g \in Handler, g # h PROVE HandlerAudits(g)'
  BY <1>1, <1>3, RestingAudits, Zenon DEF ApprovalInv, HandlersOK, AuditInv
<1>4. QED
  BY <1>2, <1>3, Zenon DEF AuditInv

LEMMA InsertAudits ==
  ASSUME ApprovalInv, TypeOK', AuditInv, NEW h \in Handler, InsertAuditEvent(h)
  PROVE  AuditInv'
<1>1. handler[h].pc = "audit" /\ handler[h] \in HandlerState /\ handler[h].req \in DOMAIN requests
  BY AtItsRequest DEF InsertAuditEvent, At
<1>2. PICK x : x = [handler[h] EXCEPT !.pc = "trim", !.seq = sequence + 1, !.at = clock]
  BY Zenon
<1>3. x.pc = "trim" /\ x.seq = sequence + 1 /\ x.at = clock /\ x.req = handler[h].req
  BY <1>1, <1>2 DEF HandlerState
<1>4. /\ handler'[h] = x /\ \A g \in Handler \ {h} : handler'[g] = handler[g]
      /\ UNCHANGED <<clock, audit, requests>>
  BY <1>2, Zenon DEF InsertAuditEvent, Become, ApprovalInv, TypeOK
<1>5. sequence + 1 # 0 /\ requests[handler[h].req].now \in Nat /\ clock \in Nat
  BY <1>1, RequestsTyped DEF ApprovalInv, TypeOK
<1>6. requests[handler[h].req].seq = 0 /\ requests[handler[h].req].now <= clock
  BY <1>1, Zenon DEF AuditInv, HandlerAudits, At, RequestOf
<1>7. clock >= requests[handler[h].req].now
  BY <1>5, <1>6
<1>8. HandlerAudits(h)'
  BY <1>3, <1>4, <1>5, <1>6, <1>7, Zenon DEF HandlerAudits, At, RequestOf
<1>9. QED
  BY <1>4, <1>8, TransactionAudits, Zenon

LEMMA TickAudits ==
  ASSUME ApprovalInv, TypeOK', AuditInv, Tick \/ UNCHANGED vars
  PROVE  AuditInv'
<1>1. UNCHANGED <<requests, handler, audit>> /\ (clock' = clock + 1 \/ clock' = clock)
  BY Zenon DEF Tick, vars
<1>2. clock' >= clock
  BY <1>1 DEF ApprovalInv, TypeOK
<1>3. AuditGrows
  BY <1>1, <1>2, Zenon DEF AuditGrows
<1>4. LogOK' /\ AuditKeepsTheLatest'
  BY <1>1, <1>3, LogStays, Zenon DEF AuditInv, ApprovalInv
<1>5. ASSUME NEW g \in Handler PROVE HandlerAudits(g)'
  BY <1>1, <1>3, RestingAudits, Zenon DEF ApprovalInv, HandlersOK, AuditInv
<1>6. QED
  BY <1>4, <1>5, Zenon DEF AuditInv

\* What the deletions of h see: one event per request, in its place.
LEMMA SeenEvents ==
  ASSUME ApprovalInv, AuditInv, NEW h \in Handler, At(h, "trim")
  PROVE  /\ \A f \in audit \union {Own(h)} :
              /\ f \in AuditEvent /\ f.req \in DOMAIN requests
              /\ f = Own(h) \/ (requests[f.req].seq = f.seq /\ f.seq # 0)
              /\ f.at >= requests[f.req].now
         /\ \A f, g \in audit \union {Own(h)} : f.req = g.req => f = g
<1>1. ~At(h, "idle")
  BY DEF At
<1>2. handler[h] \in HandlerState /\ handler[h].req \in DOMAIN requests
  BY <1>1, AtItsRequest, Zenon
<1>3. /\ requests[handler[h].req].seq = 0
      /\ handler[h].at >= requests[handler[h].req].now
  BY <1>1, Zenon DEF AuditInv, HandlerAudits, At, RequestOf
<1>4. /\ Own(h) \in AuditEvent /\ Own(h).req = handler[h].req /\ Own(h).at = handler[h].at
      /\ Own(h).seq = handler[h].seq
  BY <1>2 DEF Own, HandlerState, AuditEvent
<1>5. ASSUME NEW f \in audit
      PROVE  /\ f \in AuditEvent /\ f.req \in DOMAIN requests
             /\ requests[f.req].seq = f.seq /\ f.seq # 0 /\ f.at >= requests[f.req].now
  BY <1>5, Zenon DEF AuditInv, LogOK, ApprovalInv, TypeOK
<1>6. \A f \in audit : f.req # Own(h).req
  BY <1>3, <1>4, <1>5, Zenon
<1>7. \A f, g \in audit : f.req = g.req => f = g
  BY Zenon DEF AuditInv, LogOK
<1>8. QED
  BY <1>2, <1>3, <1>4, <1>5, <1>6, <1>7, Zenon

\* An event with many later ones in what h sees has as many in the log to come.
LEMMA SeenAreCounted ==
  ASSUME ApprovalInv, AuditInv, NEW h \in Handler, At(h, "trim"),
         NEW F \in SUBSET (audit \union {Own(h)}), NEW n \in Nat, \A f \in F : f.seq > n
  PROVE  Cardinality(F) \in Nat /\ Cardinality(F) <= Cardinality(LaterWith(h, n))
<1>1. PICK m : m = [f \in F |-> f.req]
  BY Zenon
<1>2. \A f \in F : f.req \in LaterWith(h, n)
  <2>1. SUFFICES ASSUME NEW f \in F PROVE f.req \in LaterWith(h, n)
    BY Zenon
  <2>2. f.req \in DOMAIN requests /\ (f = Own(h) \/ requests[f.req].seq = f.seq) /\ f.seq > n
    BY SeenEvents, Zenon
  <2>3. Own(h).req = handler[h].req /\ Own(h).seq = handler[h].seq
    BY DEF Own
  <2>4. QED
    BY <2>2, <2>3, Zenon DEF LaterWith
<1>3. m \in Injection(F, LaterWith(h, n))
  <2>1. m \in [F -> LaterWith(h, n)]
    BY <1>1, <1>2, Zenon
  <2>2. \A a, b \in F : m[a] = m[b] => a = b
    BY <1>1, SeenEvents, Zenon
  <2>3. DOMAIN m = F
    BY <1>1, Zenon
  <2>4. QED
    BY <2>1, <2>2, <2>3, Zenon DEF Injection, IsInjective
<1>4. IsFiniteSet(LaterWith(h, n))
  <2>1. LaterWith(h, n) \in SUBSET DOMAIN requests
    BY Zenon DEF LaterWith
  <2>2. QED
    BY <2>1, FiniteRequests, Zenon DEF ApprovalInv, TypeOK
<1>5. QED
  BY <1>3, <1>4, FS_Injection, FS_CardinalityType, Zenon

LEMMA TrimAudits ==
  ASSUME ApprovalInv, TypeOK', AuditInv, NEW h \in Handler, TrimAuditEvents(h)
  PROVE  AuditInv'
<1>1. /\ At(h, "trim") /\ ~At(h, "idle") /\ handler[h].pc = "trim"
      /\ handler[h] \in HandlerState /\ handler[h].req \in DOMAIN requests
  BY AtItsRequest DEF TrimAuditEvents, At
<1>2. PICK recent : recent = {e \in audit \union {Own(h)} : e.at + AuditRetention >= clock}
  BY Zenon
<1>3. PICK drop : drop = ((audit \union {Own(h)}) \ recent) \union Beyond(AuditMax, recent)
  BY Zenon
<1>4. PICK x : x = [handler[h] EXCEPT !.pc = "commit", !.drop = drop]
  BY Zenon
<1>5. /\ x.pc = "commit" /\ x.drop = drop /\ x.req = handler[h].req /\ x.seq = handler[h].seq
      /\ x.at = handler[h].at
  BY <1>1, <1>4 DEF HandlerState
<1>6. Become(h, x) /\ UNCHANGED <<clock, audit, requests>>
  BY <1>2, <1>3, <1>4 DEF TrimAuditEvents, Own
<1>7. handler'[h] = x /\ \A g \in Handler \ {h} : handler'[g] = handler[g]
  BY <1>6, Zenon DEF Become, ApprovalInv, TypeOK
<1>8. ASSUME NEW e \in drop
      PROVE  /\ e.req \in DOMAIN requests
             /\ e = Own(h) \/ (requests[e.req].seq = e.seq /\ e.seq # 0)
             /\ MayLeave(e.req, LaterWith(h, e.seq))
  <2>1. e \in audit \union {Own(h)}
    BY <1>2, <1>3, Zenon DEF Beyond
  <2>2. /\ e \in AuditEvent /\ e.req \in DOMAIN requests
        /\ e = Own(h) \/ (requests[e.req].seq = e.seq /\ e.seq # 0)
        /\ e.at >= requests[e.req].now
    BY <1>1, <2>1, SeenEvents, Zenon
  <2>3. e.at \in Nat /\ e.seq \in Nat
    BY <2>2 DEF AuditEvent
  <2>4. CASE e \notin recent
    <3>1. ~(e.at + AuditRetention >= clock)
      BY <1>2, <2>1, <2>4, Zenon
    <3>2. requests[e.req].now \in Nat /\ clock \in Nat /\ AuditRetention \in Nat
      BY <2>2, RequestsTyped, ApprovalAssumption, Zenon DEF ApprovalInv, TypeOK
    <3>3. clock > requests[e.req].now + AuditRetention
      BY <2>2, <2>3, <3>1, <3>2, SMT
    <3>4. QED
      BY <2>2, <3>3, Zenon DEF MayLeave
  <2>5. CASE e \in recent
    <3>1. PICK F : F = {f \in recent : f.seq > e.seq}
      BY Zenon
    <3>2. Cardinality(F) >= AuditMax
      BY <1>3, <2>5, <3>1, Zenon DEF Beyond
    <3>3. F \in SUBSET (audit \union {Own(h)}) /\ \A f \in F : f.seq > e.seq
      BY <1>2, <3>1, Zenon
    <3>4. Cardinality(F) \in Nat /\ Cardinality(F) <= Cardinality(LaterWith(h, e.seq))
      BY <1>1, <2>3, <3>3, SeenAreCounted, Zenon
    <3>5. Cardinality(LaterWith(h, e.seq)) \in Nat
      <4>1. LaterWith(h, e.seq) \in SUBSET DOMAIN requests
        BY Zenon DEF LaterWith
      <4>2. QED
        BY <4>1, FiniteRequests, Zenon DEF ApprovalInv, TypeOK
    <3>6. Cardinality(LaterWith(h, e.seq)) >= AuditMax
      BY <3>2, <3>4, <3>5, ApprovalAssumption, SMT
    <3>7. QED
      BY <2>2, <3>6, Zenon DEF MayLeave
  <2>6. QED
    BY <2>4, <2>5
<1>9. /\ Own(h)' = Own(h)
      /\ \A n : LaterWith(h, n)' = LaterWith(h, n)
      /\ \A r, L : MayLeave(r, L)' <=> MayLeave(r, L)
  BY <1>5, <1>6, <1>7, Zenon DEF Own, LaterWith, MayLeave
<1>10. HandlerAudits(h)'
  BY <1>1, <1>5, <1>6, <1>7, <1>8, <1>9, Zenon DEF HandlerAudits, AuditInv, At, RequestOf
<1>11. QED
  BY <1>6, <1>7, <1>10, TransactionAudits, Zenon

LEMMA CommitAudits ==
  ASSUME ApprovalInv, TypeOK', AuditInv, NEW h \in Handler, CommitAuditEvent(h)
  PROVE  AuditInv'
<1>1. At(h, "commit") /\ ~At(h, "idle") /\ handler[h].pc = "commit"
  BY DEF CommitAuditEvent, At
<1>2. PICK k \in DOMAIN requests : k = handler[h].req
  BY <1>1, AtItsRequest, Zenon
<1>3. requests[k] \in ReceivedRequest /\ handler[h] \in HandlerState
  BY <1>1, <1>2, AtItsRequest, Zenon DEF RequestOf
<1>4. PICK q : q = [requests[k] EXCEPT !.seq = handler[h].seq]
  BY Zenon
<1>5. q \in ReceivedRequest /\ q.seq = handler[h].seq /\ q.now = requests[k].now
  BY <1>3, <1>4 DEF ReceivedRequest, HandlerState
<1>6. requests' = [requests EXCEPT ![k] = q]
  BY <1>2, <1>4 DEF CommitAuditEvent
<1>7. /\ DOMAIN requests' = DOMAIN requests /\ requests'[k] = q
      /\ \A r \in DOMAIN requests : r # k => requests'[r] = requests[r]
  BY <1>5, <1>6, ReplacedRequest, Zenon DEF ApprovalInv
<1>8. /\ handler'[h] = Free /\ \A g \in Handler \ {h} : handler'[g] = handler[g]
      /\ clock' = clock /\ audit' = (audit \union {Own(h)}) \ handler[h].drop
  BY Zenon DEF CommitAuditEvent, Become, Own, ApprovalInv, TypeOK
<1>9. requests[k].seq = 0 /\ handler[h].seq # 0 /\ handler[h].at >= requests[k].now
  BY <1>1, <1>2, Zenon DEF AuditInv, HandlerAudits, RequestOf
<1>10. AuditGrows
  BY <1>5, <1>7, <1>8, <1>9 DEF AuditGrows, ApprovalInv, TypeOK
<1>11. Own(h).req = k /\ Own(h).seq = handler[h].seq /\ Own(h).at = handler[h].at
  BY <1>2 DEF Own
<1>12. \A e \in audit : /\ e.req \in DOMAIN requests /\ e.req # k
                        /\ requests[e.req].seq = e.seq /\ e.seq # 0 /\ e.at >= requests[e.req].now
  BY <1>9, Zenon DEF AuditInv, LogOK
<1>13. LogOK'
  <2>1. \A e, f \in audit : e.req = f.req => e = f
    BY Zenon DEF AuditInv, LogOK
  <2>2. \A e, f \in audit' : e.req = f.req => e = f
    BY <1>8, <1>11, <1>12, <2>1, Zenon
  <2>3. \A e \in audit' : /\ e.req \in DOMAIN requests' /\ requests'[e.req].seq = e.seq /\ e.seq # 0
                          /\ e.at >= requests'[e.req].now
    BY <1>5, <1>7, <1>8, <1>9, <1>11, <1>12, Zenon
  <2>4. QED
    BY <2>2, <2>3, Zenon DEF LogOK
<1>14. ASSUME NEW r \in DOMAIN requests, NEW n \in Nat, NEW L \in SUBSET DOMAIN requests,
              n = requests'[r].seq, MayLeave(r, L),
              L \subseteq {s \in DOMAIN requests : requests[s].seq > n \/ (s = k /\ handler[h].seq > n)}
       PROVE  \/ clock' > requests'[r].now + AuditRetention
              \/ Cardinality({s \in DOMAIN requests' : requests'[s].seq > requests'[r].seq}) >= AuditMax
  <2>1. PICK M : M = {s \in DOMAIN requests' : requests'[s].seq > requests'[r].seq}
    BY Zenon
  <2>2. ~(0 > n)
    BY <1>14
  <2>3. L \subseteq M
    BY <1>5, <1>7, <1>9, <1>14, <2>1, <2>2, Zenon
  <2>4. M \in SUBSET DOMAIN requests'
    BY <2>1, ZenonT(30)
  <2>5. QED
    BY <1>10, <1>14, <2>1, <2>3, <2>4, MayLeaveStays, Zenon DEF ApprovalInv
<1>15. AuditKeepsTheLatest'
  <2>1. SUFFICES ASSUME NEW r \in DOMAIN requests', requests'[r].seq # 0, ~\E e \in audit' : e.req = r
                 PROVE  \/ clock' > requests'[r].now + AuditRetention
                        \/ Cardinality({s \in DOMAIN requests' : requests'[s].seq > requests'[r].seq})
                             >= AuditMax
    BY Zenon DEF AuditKeepsTheLatest
  <2>2. r \in DOMAIN requests /\ requests'[r].seq \in Nat
    <3>1. requests'[r] \in ReceivedRequest
      BY <1>3, <1>5, <1>7, RequestsTyped, Zenon DEF ApprovalInv
    <3>2. QED
      BY <1>7, <3>1 DEF ReceivedRequest
  <2>3. CASE \E e \in handler[h].drop : e \in audit \union {Own(h)} /\ e.req = r
    <3>1. PICK e \in handler[h].drop : e \in audit \union {Own(h)} /\ e.req = r
      BY <2>3
    <3>2. MayLeave(r, LaterWith(h, e.seq))
      BY <1>1, <3>1, Zenon DEF AuditInv, HandlerAudits
    <3>3. e.seq = requests'[r].seq
      BY <1>5, <1>7, <1>11, <1>12, <3>1, Zenon
    <3>4. /\ LaterWith(h, e.seq) \in SUBSET DOMAIN requests
          /\ LaterWith(h, e.seq) \subseteq {s \in DOMAIN requests :
               requests[s].seq > e.seq \/ (s = k /\ handler[h].seq > e.seq)}
      BY <1>2, Zenon DEF LaterWith
    <3>5. QED
      BY <1>14, <2>2, <3>2, <3>3, <3>4, ZenonT(30)
  <2>4. CASE ~\E e \in handler[h].drop : e \in audit \union {Own(h)} /\ e.req = r
    <3>1. r # k /\ ~\E e \in audit : e.req = r
      BY <1>8, <1>11, <2>1, <2>4, Zenon
    <3>2. requests'[r] = requests[r]
      BY <1>7, <2>2, <3>1, Zenon
    <3>3. MayLeave(r, Later(requests[r].seq))
      BY <2>1, <2>2, <3>1, <3>2, Zenon DEF AuditInv, AuditKeepsTheLatest, MayLeave, Later
    <3>4. /\ Later(requests[r].seq) \in SUBSET DOMAIN requests
          /\ Later(requests[r].seq) \subseteq {s \in DOMAIN requests :
               requests[s].seq > requests[r].seq \/ (s = k /\ handler[h].seq > requests[r].seq)}
      BY Zenon DEF Later
    <3>5. QED
      BY <1>14, <2>2, <3>2, <3>3, <3>4, Zenon
  <2>5. QED
    BY <2>3, <2>4
<1>16. ASSUME NEW g \in Handler, g # h PROVE HandlerAudits(g)'
  <2>1. handler'[g] = handler[g] /\ HandlerOK(g) /\ HandlerAudits(g)
    BY <1>8, <1>16, Zenon DEF ApprovalInv, HandlersOK, AuditInv
  <2>2. ~At(g, "idle") => handler[g].req # k /\ handler[g].req \in DOMAIN requests
    BY <1>1, <1>2, <1>16, <2>1, Zenon DEF ApprovalInv, HandlersOK, HandlerOK
  <2>3. QED
    BY <1>7, <1>10, <2>1, <2>2, RestingAudits, Zenon DEF ApprovalInv
<1>17. HandlerAudits(h)'
  BY <1>8, FreeTyped, Zenon DEF HandlerAudits, At
<1>18. QED
  BY <1>13, <1>15, <1>16, <1>17, Zenon DEF AuditInv

\* An event leaves the log only when its retention is over or as many later
\* ones have entered it, although every transaction deletes by what it saw
\* before it committed (AppendAuditEvent).
THEOREM AuditIsKept == Spec => []AuditKeepsTheLatest
<1>1. ASSUME Init PROVE AuditInv
  <2>1. /\ requests = InitialRequests /\ audit = InitialAudit
        /\ \A h \in Handler : handler[h].pc = "idle"
    BY <1>1, FreeTyped, Zenon DEF Init
  <2>2. \A h \in Handler : HandlerAudits(h)
    BY <2>1, Zenon DEF HandlerAudits, At
  <2>3. LogOK
    BY <2>1, AuditAssumption, Zenon DEF LogOK
  <2>4. AuditKeepsTheLatest
    BY <2>1, AuditAssumption, Zenon DEF AuditKeepsTheLatest
  <2>5. QED
    BY <2>2, <2>3, <2>4, Zenon DEF AuditInv
<1>2. ASSUME ApprovalInv, ApprovalInv', AuditInv, [Next]_vars PROVE AuditInv'
  <2>1. TypeOK'
    BY <1>2, Zenon DEF ApprovalInv
  <2>2. ASSUME NEW h \in Handler, RequestStep(h) PROVE AuditInv'
    <3>1. PICK q \in Requests : createApproval(h, q) \/ decideApproval(h, q) \/ callTool(h, q)
      BY <2>2, Zenon DEF RequestStep
    <3>2. \/ Receive(h, q, "audit", 403) \/ Receive(h, q, "audit", 400) \/ Receive(h, q, "audit", 428)
          \/ \E pc \in Working : Receive(h, q, pc, 0)
      BY <3>1, Zenon DEF createApproval, decideApproval, callTool, Working
    <3>3. QED
      BY <1>2, <2>1, <3>2, ReceiveAudits, ZenonT(30)
  <2>3. ASSUME NEW h \in Handler, StatementStep(h) PROVE AuditInv'
    BY <1>2, <2>1, <2>3, StatementAudits, QuietAudits, InsertAudits, TrimAudits, CommitAudits, Zenon
    DEF StatementStep
  <2>4. QED
    BY <1>2, <2>1, <2>2, <2>3, TickAudits, Zenon DEF Next
<1>3. AuditInv => AuditKeepsTheLatest
  BY Zenon DEF AuditInv
<1>4. QED
  BY <1>1, <1>2, <1>3, ApprovalInvariant, PTL DEF Spec
=============================================================================
