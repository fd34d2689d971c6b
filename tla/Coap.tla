-------------------------------- MODULE Coap --------------------------------
(***************************************************************************)
(* A CoAP endpoint (struct sol_coap_server of sol-coap.c): its queue of    *)
(* outgoing packets with their retransmission timeouts, the replies it     *)
(* waits for with timeouts of their own, and the observers of a resource.  *)
(*                                                                         *)
(* The network and the peers are the most general ones: a peer may answer  *)
(* any packet that was ever sent, in any order, any number of times or     *)
(* never, may send requests of its own, and may repeat all of that.        *)
(*                                                                         *)
(* The endpoint is single-threaded: handlers run one after the other.      *)
(* Inside them the application's reply callbacks run, and these may call   *)
(* the API again.  The callbacks in progress are the frames of stack.      *)
(*                                                                         *)
(* Packets are the fields that decide what happens to them: the type (CON, *)
(* or NON for all that is sent once), the id (0 for what is not a request  *)
(* of this endpoint), the token (NoToken: none) and the Observe option     *)
(* (NoObserve: none).  The age in a notification starts at 2 and goes back *)
(* to 2: Age stands for all ages.                                          *)
(***************************************************************************)
EXTENDS Vector, Integers, FiniteSets, FiniteSetsExt

CONSTANTS
  Kinds,          \* kinds of requests the application sends
  Peers,          \* peers that observe, each a pair of address and token
  MaxRetransmit,  \* MAX_RETRANSMIT
  Careless,       \* what the application or the socket may do beyond the rules
                  \* below; subset of CarelessActs
  MaxRequests,    \* bound: requests the application sends, ...
  MaxId,          \* ... and these and the unobserve packets together
  MaxQueue        \* bound: what peers and observers are sent makes the queue no
                  \* longer than that; requests join it at any time

\* "true after cancel": a reply callback that cancelled its own request returns
\* true.  "cancel others": a callback of a walk over the pending replies cancels
\* another one.  "calls on destroy": a callback called from
\* sol_coap_server_destroy() calls the API.  "send error": sendmsg() fails with
\* an error other than EAGAIN.
CarelessActs == {"true after cancel", "cancel others", "calls on destroy", "send error"}

ASSUME CoapAssumption ==
  /\ Kinds \subseteq {"con", "non", "obs", "ping"}
  /\ MaxRetransmit \in Nat \ {0} /\ MaxId \in Nat /\ MaxRequests \in 0..MaxId /\ MaxQueue \in Nat
  /\ Careless \subseteq CarelessActs

NoToken == 0
NoObserve == -1
Age == 2
Ids == 1..MaxId

VARIABLES
  state,       \* "up", "closing" (in sol_coap_server_destroy) or "gone"
  outgoing,    \* server->outgoing; timer: is o->timeout set?
  monitor,     \* is the socket monitored for writing?
  pending,     \* server->pending; timer: is reply->timeout set?
  request_id,  \* the counter of sol_coap_packet_new_request()
  sent,        \* requests that sendmsg() has taken
  registered,  \* is the resource registered?
  observers,   \* the observers of the resource
  stack,       \* reply callbacks in progress, the innermost one last
  exchange     \* history: per request, "none", "open", "heard" or "over"

vars == <<state, outgoing, monitor, pending, request_id, sent, registered,
          observers, stack, exchange>>
resourceVars == <<registered, observers>>

Packet == [type : {"CON", "NON"}, id : Ids \cup {0},
           token : Ids \cup {NoToken}, observe : {NoObserve, 0, 1, Age}]
Outgoing == [pkt : Packet, timer : BOOLEAN, counter : 0..MaxRetransmit]
Reply == [id : Ids, token : Ids \cup {NoToken}, observing : BOOLEAN, timer : BOOLEAN,
          in_use : BOOLEAN, delete_me : BOOLEAN]

\* sol_coap_server_new()
Init ==
  /\ state = "up"
  /\ outgoing = <<>> /\ monitor = FALSE
  /\ pending = <<>>
  /\ request_id = 0 /\ sent = {}
  /\ registered = FALSE /\ observers = <<>>
  /\ stack = <<>>
  /\ exchange = [id \in Ids |-> "none"]

-----------------------------------------------------------------------------
(* Packets.                                                                *)

\* sol_coap_packet_new_request() with the token and option its callers add.
sol_coap_packet_new_request(type, id, token, observe) ==
  [type |-> type, id |-> id, token |-> token, observe |-> observe]

\* sol_coap_packet_new(old) for an answer to a request of a peer, which is of
\* type ACK or NON, and a reset or a notification: all are sent once.  (The type
\* of a notification is the application's choice, sol_coap_notify() copies it; a
\* CON one, which would be retransmitted, is not modelled.)
sol_coap_packet_new ==
  [type |-> "NON", id |-> 0, token |-> NoToken, observe |-> NoObserve]

-----------------------------------------------------------------------------
(* The outgoing queue.                                                     *)

\* enqueue_packet(), on a queue; its callers also set the write monitor.
enqueue_packet(q, pkt) == Append(q, [pkt |-> pkt, timer |-> FALSE, counter |-> 0])

\* The last confirmable packet with that id is taken off the queue.
remove_outgoing_confirmable_packet(q, id) ==
  LET same == {k \in DOMAIN q : q[k].pkt.id = id /\ q[k].pkt.type = "CON"}
  IN  IF same = {} THEN q ELSE sol_vector_del(q, Max(same))

\* Mutant of timeout_expired: an attempt is not counted.
MutNotCounted(o) ==
  IF o.pkt.type # "CON" THEN o ELSE [o EXCEPT !.timer = TRUE]

\* timeout_expired() of a packet that is sent: the next attempt of a
\* confirmable one is scheduled and counted.
timeout_expired(o) ==
  IF o.pkt.type # "CON" THEN o ELSE [o EXCEPT !.timer = TRUE, !.counter = @ + 1]

\* timeout_expired() drops it instead.
GivenUp(o) == ~o.timer /\ o.pkt.type = "CON" /\ o.counter >= MaxRetransmit

Idle == state = "up" /\ stack = <<>>

\* What on_can_write() returns, with packet o sent and queue q left.
StaysMonitored(result, o, q) == result = "again" \/ (result = "sent" /\ q # <<>>)

\* The socket can be written: packets that have used up their attempts are
\* dropped until next_in_queue() finds one that is sent.  If sendmsg() fails, the
\* attempt counts nevertheless; without a timeout a packet that was sent leaves
\* the queue.  The monitor stays on with EAGAIN, goes off with another error.
on_can_write(result) ==
  LET q == outgoing
      ready == {k \in DOMAIN q : ~q[k].timer /\ ~GivenUp(q[k])}
      first == IF ready = {} THEN Len(q) + 1 ELSE Min(ready)
      kept == Kept(SubSeq(q, 1, first - 1), {k \in DOMAIN q : ~GivenUp(q[k])})
      o == timeout_expired(q[first])
      rest == SubSeq(q, first + 1, Len(q))
  IN  /\ Idle /\ monitor
      /\ IF ready = {}
         THEN /\ result = "sent"
              /\ outgoing' = kept
              /\ monitor' = FALSE
              /\ UNCHANGED sent
         ELSE /\ outgoing' = IF result = "sent" /\ ~o.timer THEN kept \o rest ELSE kept \o <<o>> \o rest
              /\ sent' = IF result = "sent" /\ o.pkt.id # 0 THEN sent \cup {o.pkt} ELSE sent
              /\ monitor' = StaysMonitored(result, o, outgoing')
      /\ UNCHANGED <<state, pending, request_id, resourceVars, stack, exchange>>

SendResults == {"sent", "again"} \cup (IF "send error" \in Careless THEN {"error"} ELSE {})

\* Mutant of timeout_cb: the socket is not monitored again.
MutNoMonitor(k) ==
  /\ Idle /\ k \in DOMAIN outgoing /\ outgoing[k].timer
  /\ outgoing' = [outgoing EXCEPT ![k].timer = FALSE]
  /\ UNCHANGED <<sent, state, monitor, pending, request_id, resourceVars, stack, exchange>>

\* The retransmission timeout of packet k of the queue.
timeout_cb(k) ==
  /\ Idle /\ k \in DOMAIN outgoing /\ outgoing[k].timer
  /\ outgoing' = [outgoing EXCEPT ![k].timer = FALSE]
  /\ monitor' = TRUE
  /\ UNCHANGED <<sent, state, pending, request_id, resourceVars, stack, exchange>>

-----------------------------------------------------------------------------
(* Pending replies and their callbacks.                                    *)

IndexOf(p, id) == CHOOSE k \in DOMAIN p : p[k].id = id
IsPending(p, id) == \E k \in DOMAIN p : p[k].id = id
Top == stack[Len(stack)]
Popped == SubSeq(stack, 1, Len(stack) - 1)

\* SOL_REENTRANT_CALL: the flag as it was is kept in the frame.
Called(p, k) == [p EXCEPT ![k].in_use = TRUE]
Returned(p, k, was_used) == [p EXCEPT ![k].in_use = was_used]

\* Mutant of SOL_REENTRANT_FREE: frees what is in use.
MutFreeAnyway(p, k) == sol_vector_del(p, k)

\* SOL_REENTRANT_FREE with pending_reply_free().
SOL_REENTRANT_FREE(p, k) ==
  IF p[k].in_use THEN [p EXCEPT ![k].delete_me = TRUE] ELSE sol_vector_del(p, k)

match_reply(reply, pkt) ==
  IF reply.observing THEN reply.token = pkt.token ELSE reply.id = pkt.id

Frame(handler, reply, k, msg, keep) ==
  [handler |-> handler, id |-> reply.id, was_used |-> reply.in_use, k |-> k,
   msg |-> msg, keep |-> keep, calls |-> 0]
NoMsg == [id |-> 0, token |-> NoToken, observe |-> NoObserve]

Hears(x, id) == [x EXCEPT ![id] = IF @ = "open" THEN "heard" ELSE @]

\* Starts the callback of reply k, in a handler whose frames below are fs.
Calls(fs, p, k, handler, msg, keep) ==
  /\ pending' = Called(p, k)
  /\ stack' = Append(fs, Frame(handler, p[k], k, msg, keep))

\* send_unobserve_packet()
Unobserve(token) ==
  sol_coap_packet_new_request("CON", request_id + 1, token, 1)

\* Bound: ids are kept in reserve for the unobserve packets that may follow.
Observing(p) == {p[k].id : k \in {j \in DOMAIN p : p[j].observing}}
Unobserving(fs) == {k \in DOMAIN fs : fs[k].handler = "unobserve"}
IdsLeft == request_id' + Cardinality(Observing(pending')) + Cardinality(Unobserving(stack')) <= MaxId

\* The walk of respond_packet() over the pending replies from index from
\* downwards, with queue q and replies p; keep: a callback wants more answers,
\* so the request stays in the queue; found: a reply has matched.  At the end
\* the request is taken off the queue, and a notification nobody waits for is
\* answered with a reset.
RespondWalk(fs, q, p, from, msg, keep, found, x) ==
  LET matching == {k \in 1..from : k <= Len(p) /\ match_reply(p[k], msg)}
      q1 == IF keep THEN q ELSE remove_outgoing_confirmable_packet(q, msg.id)
      reset == msg.observe >= 0 /\ ~found
  IN  IF matching # {}
      THEN /\ Calls(fs, p, Max(matching), "respond", msg, keep)
           /\ outgoing' = q
           /\ monitor' = (monitor \/ Len(q) > Len(outgoing))
           /\ exchange' = Hears(x, p[Max(matching)].id)
      ELSE /\ pending' = p
           /\ stack' = fs
           /\ outgoing' = IF reset THEN enqueue_packet(q1, sol_coap_packet_new) ELSE q1
           /\ monitor' = (monitor \/ Len(q) > Len(outgoing) \/ reset)
           /\ exchange' = x

\* The reply callback of respond_packet() returns.  false: an observation is
\* ended with an unobserve packet, and the reply is freed.  true: more answers
\* may come; an observing reply loses its timeout.  Whether the callback has
\* cancelled its own request is not looked at.
RespondReturns(ret) ==
  LET f == Top
      k == IndexOf(pending, f.id)
      p == Returned(pending, k, f.was_used)
      ends == ~ret /\ p[k].observing
      q == IF ends THEN enqueue_packet(outgoing, Unobserve(p[k].token))
           ELSE outgoing
      p1 == CASE ~ret -> SOL_REENTRANT_FREE(p, k)
              [] ret /\ ~p[k].observing -> p
              [] ret /\ p[k].observing -> [p EXCEPT ![k].timer = FALSE]
      x == [exchange EXCEPT ![f.id] = IF ret THEN @ ELSE "over"]
  IN  /\ stack # <<>> /\ f.handler = "respond"
      /\ ret /\ p[k].delete_me => "true after cancel" \in Careless
      /\ request_id' = IF ends THEN request_id + 1 ELSE request_id
      /\ RespondWalk(Popped, q, p1, f.k - 1, f.msg,
                     f.keep \/ (ret /\ ~p[k].observing), TRUE, x)
      /\ UNCHANGED <<sent, state, resourceVars>>

\* Nothing came in MAX_PKT_TIMEOUT_MS: the callback is called without a packet.
pending_timeout_cb(id) ==
  /\ Idle /\ IsPending(pending, id)
  /\ pending[IndexOf(pending, id)].timer
  /\ Calls(<<>>, pending, IndexOf(pending, id), "timeout", NoMsg, FALSE)
  /\ exchange' = Hears(exchange, id)
  /\ UNCHANGED <<sent, state, outgoing, monitor, request_id, resourceVars>>

\* true keeps the timeout, unless the callback has cancelled the request.
TimeoutReturns(ret) ==
  LET f == Top
      k == IndexOf(pending, f.id)
      p == Returned(pending, k, f.was_used)
  IN  /\ stack # <<>> /\ f.handler = "timeout"
      /\ pending' = IF ret /\ ~p[k].delete_me THEN p ELSE SOL_REENTRANT_FREE(p, k)
      /\ stack' = Popped
      /\ exchange' = [exchange EXCEPT ![f.id] = IF ret THEN @ ELSE "over"]
      /\ UNCHANGED <<sent, state, outgoing, monitor, request_id, resourceVars>>

-----------------------------------------------------------------------------
(* The API.  It is called from outside of all handlers, or by a reply       *)
(* callback; bound: a callback makes one call.                             *)

CanCall ==
  \/ Idle
  \/ /\ stack # <<>> /\ Top.calls = 0
     /\ state = "up" \/ "calls on destroy" \in Careless

\* The frame of the callback that calls notes it.
Counted(fs) == [k \in DOMAIN fs |-> IF k = Len(fs) THEN [fs[k] EXCEPT !.calls = 1] ELSE fs[k]]

\* No walk over the pending replies is under way, or it stands at id.
WalkAllows(id) ==
  \/ "cancel others" \in Careless
  \/ \A k \in DOMAIN stack : stack[k].handler \in {"respond", "destroy"} => stack[k].id = id

RequestOf(kind, id) ==
  CASE kind = "con" -> sol_coap_packet_new_request("CON", id, NoToken, NoObserve)
    [] kind = "non" -> sol_coap_packet_new_request("NON", id, NoToken, NoObserve)
    [] kind = "obs" -> sol_coap_packet_new_request("CON", id, id, 0)
    [] kind = "ping" -> sol_coap_packet_new_request("CON", id, NoToken, NoObserve)

\* Mutant of NewReply: only confirmable requests get a timeout.
MutTimeoutForCon(id, pkt) ==
  [id |-> id, token |-> pkt.token, observing |-> pkt.observe = 0,
   timer |-> pkt.type = "CON", in_use |-> FALSE, delete_me |-> FALSE]

NewReply(id, pkt) ==
  [id |-> id, token |-> pkt.token, observing |-> pkt.observe = 0,
   timer |-> TRUE, in_use |-> FALSE, delete_me |-> FALSE]

\* A ping is sent without a callback.  stored is FALSE when the reply cannot be
\* appended to server->pending: it is freed and the call fails, but the packet
\* has been queued.
sol_coap_send_packet_with_reply(kind, stored) ==
  LET id == request_id + 1
      pkt == RequestOf(kind, id)
      waits == kind # "ping" /\ stored
  IN  /\ CanCall /\ id <= MaxRequests
      /\ request_id' = id
      /\ outgoing' = enqueue_packet(outgoing, pkt)
      /\ monitor' = TRUE
      /\ pending' = IF waits THEN Append(pending, NewReply(id, pkt)) ELSE pending
      /\ exchange' = IF waits THEN [exchange EXCEPT ![id] = "open"] ELSE exchange
      /\ stack' = Counted(stack)
      /\ IdsLeft
      /\ UNCHANGED <<sent, state, resourceVars>>

IsQueued(id) == \E k \in DOMAIN outgoing : outgoing[k].pkt.id = id

\* Mutant of Waits: the reply of a packet that has left the queue is forgotten.
MutWaitsWhileQueued(id) == IsPending(pending, id) /\ IsQueued(id)

\* Is there a reply to cancel?
Waits(id) == IsPending(pending, id)

\* The packet is taken off the queue and its reply freed, or marked if it is in
\* use; an observation is ended with an unobserve packet.
sol_coap_cancel_send_packet(id) ==
  LET q == Kept(outgoing, {k \in DOMAIN outgoing : outgoing[k].pkt.id # id})
      p == pending
      k == IndexOf(p, id)
      ends == Waits(id) /\ p[k].observing
  IN  /\ CanCall /\ WalkAllows(id)
      /\ IsPending(p, id) \/ IsQueued(id)
      /\ outgoing' = IF ends THEN enqueue_packet(q, Unobserve(p[k].token)) ELSE q
      /\ monitor' = (monitor \/ ends)
      /\ request_id' = IF ends THEN request_id + 1 ELSE request_id
      /\ pending' = IF Waits(id) THEN SOL_REENTRANT_FREE(p, k) ELSE pending
      /\ exchange' = [exchange EXCEPT ![id] = "over"]
      /\ stack' = Counted(stack)
      /\ IdsLeft
      /\ UNCHANGED <<sent, state, resourceVars>>

\* The reply's callback is called once more, without a packet, ...
sol_coap_unobserve_by_token(id) ==
  LET p == pending
      k == IndexOf(p, id)
  IN  /\ CanCall /\ WalkAllows(id)
      /\ Len(stack) < 2
      /\ IsPending(p, id) /\ p[k].observing
      /\ Calls(Counted(stack), p, k, "unobserve", NoMsg, FALSE)
      /\ exchange' = Hears(exchange, id)
      /\ UNCHANGED <<sent, state, outgoing, monitor, request_id, resourceVars>>
      /\ IdsLeft

\* ... and when it returns, anything, the observation is ended.
UnobserveReturns ==
  LET f == Top
      k == IndexOf(pending, f.id)
      p == Returned(pending, k, f.was_used)
  IN  /\ stack # <<>> /\ f.handler = "unobserve"
      /\ outgoing' = enqueue_packet(outgoing, Unobserve(p[k].token))
      /\ monitor' = TRUE
      /\ request_id' = request_id + 1
      /\ pending' = SOL_REENTRANT_FREE(p, k)
      /\ stack' = Popped
      /\ exchange' = [exchange EXCEPT ![f.id] = "over"]
      /\ UNCHANGED <<sent, state, resourceVars>>

-----------------------------------------------------------------------------
(* sol_coap_server_unref() of the last reference: the socket is deleted,   *)
(* the queue emptied, and every callback is told, the last reply first.    *)

DestroyWalk(p, from) ==
  IF from \in DOMAIN p
  THEN /\ Calls(<<>>, p, from, "destroy", NoMsg, FALSE)
       /\ state' = "closing"
       /\ UNCHANGED resourceVars
  ELSE /\ pending' = p
       /\ stack' = <<>>
       /\ state' = "gone"
       /\ registered' = FALSE /\ observers' = <<>>

\* Called by the last sol_coap_server_unref().  The application is taken not to
\* drop its last reference in a reply callback: the walk that called it would go
\* on with a freed server.
sol_coap_server_destroy ==
  /\ Idle
  /\ outgoing' = <<>>
  /\ monitor' = FALSE
  /\ DestroyWalk(pending, Len(pending))
  /\ UNCHANGED <<sent, request_id, exchange>>

DestroyReturns ==
  LET f == Top
      k == IndexOf(pending, f.id)
      p == Returned(pending, k, f.was_used)
  IN  /\ stack # <<>> /\ f.handler = "destroy"
      /\ DestroyWalk(SOL_REENTRANT_FREE(p, k), f.k - 1)
      /\ exchange' = [exchange EXCEPT ![f.id] = "over"]
      /\ UNCHANGED <<sent, outgoing, monitor, request_id>>

-----------------------------------------------------------------------------
(* The resource and its observers.                                         *)

\* sol_coap_server_register_resource()
RegisterResource ==
  /\ Idle /\ ~registered
  /\ registered' = TRUE /\ observers' = <<>>
  /\ UNCHANGED <<sent, state, outgoing, monitor, pending, request_id, stack, exchange>>

\* sol_coap_server_unregister_resource(), destroy_context()
UnregisterResource ==
  /\ Idle /\ registered
  /\ registered' = FALSE /\ observers' = <<>>
  /\ UNCHANGED <<sent, state, outgoing, monitor, pending, request_id, stack, exchange>>

\* Mutant of register_observer: a repeated registration is not recognised.
MutRegisterAgain(peer, observe) ==
  LET same == {k \in DOMAIN observers : observers[k] = peer}
  IN  IF observe = 1 /\ same # {} THEN sol_vector_del(observers, Max(same)) ELSE Append(observers, peer)

\* register_observer(): a known observer is removed with 1 and otherwise left
\* alone; an unknown one is added, whatever the value of the option.
register_observer(peer, observe) ==
  LET same == {k \in DOMAIN observers : observers[k] = peer}
  IN  CASE same = {} -> Append(observers, peer)
        [] same # {} /\ observe = 1 -> sol_vector_del(observers, Max(same))
        [] same # {} /\ observe # 1 -> observers

\* sol_coap_notify(): one packet for every observer.
sol_coap_notify ==
  /\ Idle /\ registered /\ observers # <<>>
  /\ outgoing' = outgoing \o [k \in DOMAIN observers |->
                                [pkt |-> sol_coap_packet_new, timer |-> FALSE, counter |-> 0]]
  /\ monitor' = TRUE
  /\ UNCHANGED <<sent, state, pending, request_id, resourceVars, stack, exchange>>

-----------------------------------------------------------------------------
(* on_can_read() and respond_packet(): a packet arrives.                   *)

QueueBounded == Len(outgoing') > Len(outgoing) => Len(outgoing') <= MaxQueue

ReceivePing ==
  /\ Idle
  /\ outgoing' = enqueue_packet(outgoing, sol_coap_packet_new)
  /\ monitor' = TRUE
  /\ UNCHANGED <<sent, state, pending, request_id, resourceVars, stack, exchange>>

\* What peers make of a request they got: an answer with its id and token, with
\* the Observe option if they accept an observation, and notifications.
Responses ==
  {[id |-> r.id, token |-> r.token, observe |-> NoObserve] : r \in sent}
    \cup {[id |-> i, token |-> r.token, observe |-> Age] : r \in {x \in sent : x.observe = 0},
                                                          i \in Ids \cup {0}}

ReceiveResponse(msg) ==
  /\ Idle
  /\ RespondWalk(<<>>, outgoing, pending, Len(pending), msg, FALSE, FALSE, exchange)
  /\ UNCHANGED <<sent, state, request_id, resourceVars>>

\* An ACK that promises an answer for later, or a reset.
ReceiveEmpty(id) ==
  /\ Idle
  /\ outgoing' = remove_outgoing_confirmable_packet(outgoing, id)
  /\ UNCHANGED <<sent, state, monitor, pending, request_id, resourceVars, stack, exchange>>

\* A request for the resource: the observer is registered or removed before the
\* handler of the resource runs, which answers or does not.  A request for
\* /.well-known/core is one without the option that is answered.
ReceiveRequest(peer, observe, answers) ==
  /\ Idle /\ registered
  /\ observers' = IF observe >= 0 THEN register_observer(peer, observe) ELSE observers
  /\ outgoing' = IF answers THEN enqueue_packet(outgoing, sol_coap_packet_new) ELSE outgoing
  /\ monitor' = (monitor \/ answers)
  /\ UNCHANGED <<sent, state, pending, request_id, registered, stack, exchange>>

\* A request for what is not registered is answered by resource_not_found(), or
\* by the application's unknown_handler.
ReceiveUnknown ==
  /\ Idle /\ ~registered
  /\ outgoing' = enqueue_packet(outgoing, sol_coap_packet_new)
  /\ monitor' = TRUE
  /\ UNCHANGED <<sent, state, pending, request_id, resourceVars, stack, exchange>>

-----------------------------------------------------------------------------
Returns ==
  \/ \E ret \in BOOLEAN : RespondReturns(ret) \/ TimeoutReturns(ret)
  \/ UnobserveReturns
  \/ DestroyReturns

Arrives ==
  \/ ReceivePing
  \/ \E msg \in Responses : ReceiveResponse(msg)
  \/ \E r \in sent : ReceiveEmpty(r.id)
  \/ ReceiveUnknown
  \/ \E peer \in Peers, observe \in {NoObserve, 0, 1}, answers \in BOOLEAN :
       ReceiveRequest(peer, observe, answers)

Receive == Arrives /\ QueueBounded

Api ==
  \/ \E kind \in Kinds, stored \in BOOLEAN : sol_coap_send_packet_with_reply(kind, stored)
  \/ \E id \in Ids : sol_coap_cancel_send_packet(id) \/ sol_coap_unobserve_by_token(id)
  \/ sol_coap_server_destroy
  \/ RegisterResource \/ UnregisterResource \/ (sol_coap_notify /\ QueueBounded)

Next ==
  \/ \E result \in SendResults : on_can_write(result)
  \/ \E k \in DOMAIN outgoing : timeout_cb(k)
  \/ \E id \in Ids : pending_timeout_cb(id)
  \/ Receive
  \/ Returns
  \/ Api

Spec == Init /\ [][Next]_vars

\* The main loop serves the descriptor and every timeout that is due, again and
\* again; sendmsg() does not answer EAGAIN forever, time passes, and callbacks
\* return.  Nothing has to arrive, and nobody has to call the API.
FairSpec ==
  /\ Spec
  /\ SF_vars(on_can_write("sent")) /\ WF_vars(Returns)
  /\ SF_vars(\E k \in DOMAIN outgoing : timeout_cb(k))
  /\ \A id \in 1..MaxRequests : SF_vars(pending_timeout_cb(id))

-----------------------------------------------------------------------------
(* Properties.                                                             *)

\* Type invariant; in particular no packet is tried more often than
\* MAX_RETRANSMIT (timeout_expired()).
TypeOK ==
  /\ state \in {"up", "closing", "gone"}
  /\ outgoing \in Seq(Outgoing) /\ monitor \in BOOLEAN
  /\ pending \in Seq(Reply)
  /\ request_id \in 0..MaxId /\ sent \subseteq Packet
  /\ registered \in BOOLEAN /\ observers \in Seq(Peers)
  /\ \A k \in DOMAIN stack : stack[k].id \in Ids
  /\ exchange \in [Ids -> {"none", "open", "heard", "over"}]

\* While a callback runs, its reply is allocated and marked as in use, and the
\* index of the walk that called it still points at it, whatever the callback
\* has sent, cancelled or unobserved; once sol_coap_server_destroy() is through,
\* no reply (whose timeout would fire) and no packet is left.
RepliesSurviveCallbacks ==
  /\ \A k \in DOMAIN stack :
       LET f == stack[k] IN
       /\ IsPending(pending, f.id)
       /\ pending[IndexOf(pending, f.id)].in_use
       /\ f.handler \in {"respond", "destroy"} => f.k \in DOMAIN pending /\ pending[f.k].id = f.id
  /\ state = "gone" => stack = <<>> /\ pending = <<>> /\ outgoing = <<>>

\* A packet that waits to be written is never forgotten: its retransmission
\* timeout is set, or the socket is monitored (on_can_write(), timeout_cb(),
\* enqueue_packet()).  None is tried more than MAX_RETRANSMIT times (TypeOK).
NoPacketStalls ==
  /\ TypeOK
  /\ (\E k \in DOMAIN outgoing : ~outgoing[k].timer) => monitor

\* No observer is in the list twice, though requests are retransmitted and
\* duplicated ("Avoid registering the same observer more than once").
ObserversDiffer == \A j, k \in DOMAIN observers : observers[j] = observers[k] => j = k

InCallback == {stack[k].id : k \in DOMAIN stack}

\* After a callback has returned false, or its request has been cancelled or
\* unobserved, it is not called again: neither by a late or duplicated answer
\* nor by the timeout, nor by sol_coap_server_destroy().
NoCallAfterEnd == [][\A id \in InCallback' \ InCallback : exchange[id] # "over"]_vars

\* Whoever waits for a reply is told, by an answer, by the timeout or by
\* sol_coap_server_destroy(), if not cancelled: when the application has stopped
\* sending requests, no exchange stays open forever.
EveryRequestIsSettled == <>[](\A id \in Ids : exchange[id] # "open")

\* Every request leaves the queue, sent, acknowledged, given up or cancelled: no
\* retransmission goes on forever, though answers are lost and sendmsg() fails
\* with EAGAIN now and then.
QueueDrains == <>[](\A id \in Ids : ~IsQueued(id))
=============================================================================
