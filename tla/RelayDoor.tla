----------------------------- MODULE RelayDoor -----------------------------
(***************************************************************************)
(* The signed requests of the relay (src/src/net/relay.rs, watch.rs, the   *)
(* v2 handlers of server.rs and the requests of client.rs): devices ask a  *)
(* serving node for operations, for its stream's bounds, for a change of   *)
(* them, and for its device book.                                          *)
(*                                                                         *)
(* A signature is the record of the fields it covers: it verifies exactly  *)
(* when the verifier builds the same record.  A request may arrive late or *)
(* twice, or be lost; an answer may arrive late, twice or at another call. *)
(* A nonce is fresh, hence a number never used before.                     *)
(***************************************************************************)
EXTENDS Integers, FiniteSets, FiniteSetsExt

CONSTANTS
    Callers,      \* the devices that ask
    Node,         \* the serving node's device id
    PageSize,     \* HttpPullSource::limit
    ReplayTTL,    \* RELAY_REPLAY_TTL
    ReplayLimit,  \* RELAY_REPLAY_LIMIT
    WatchLimit,   \* permits of watch_limit
    MaxCalls, MaxChanges, MaxDuplicates, MaxDoorTime    \* bounds

VARIABLES
    served,       \* the node: relay stream bounds and its device book, and
                  \* how often they changed (history)
    replays,      \* RelayReplayCache: [caller, nonce, at]
    handlers,     \* requests being handled
    tick,         \* the arrival tick of the watch channel
    announced,    \* the stream's head at the last tick (history)
    unannounced,  \* an operation was inserted and its batch goes on
    requests,     \* signed requests on the network
    answers,      \* signed answers on the network
    outstanding,  \* caller -> its outstanding call
    nonces,       \* nonces drawn so far
    cursorOf,     \* caller -> its RelayCursor
    told,         \* caller -> the version its last call returned, or NoAnswer
    began,        \* caller -> the node's version when the call began (history)
    duplicates,   \* requests that arrived once more
    doorTime

doorVars == <<served, replays, handlers, tick, announced, unannounced, requests, answers,
              outstanding, nonces, cursorOf, told, began, duplicates, doorTime>>

Kinds == {"ops", "head", "watch", "devices"}
NotCalling == [context |-> "none"]
NoEpoch == 0
NoAnswer == -1

-----------------------------------------------------------------------------
(* What is signed.                                                         *)

\* relay_request_signing_input; the context names the kind of request.
RequestInput(kind, caller, cursor, bound, nonce) ==
    [context |-> kind, caller |-> caller, serving |-> Node, cursor |-> cursor,
     bound |-> bound, nonce |-> nonce]

\* An answer signed without the nonce would fit every call that asks alike.
AnyNonceInput(kind, signer, caller, cursor, bound, nonce, body) ==
    [context |-> kind, signer |-> signer, caller |-> caller, cursor |-> cursor,
     bound |-> bound, nonce |-> 0, body |-> body]

\* relay_response_signing_input.
ResponseInput(kind, signer, caller, cursor, bound, nonce, body) ==
    [context |-> kind, signer |-> signer, caller |-> caller, cursor |-> cursor,
     bound |-> bound, nonce |-> nonce, body |-> body]

\* device_book_signing_input: the nonce and the body, no caller.
BookInput(signer, nonce, body) ==
    [context |-> "devices", signer |-> signer, nonce |-> nonce, body |-> body]

-----------------------------------------------------------------------------
(* The serving node.                                                       *)

NeedsResetAt(cursor, state) ==
    \/ cursor.epoch = NoEpoch /\ state.floor > 0
    \/ cursor.epoch # NoEpoch /\ cursor.epoch # state.epoch
    \/ /\ cursor.epoch = state.epoch
       /\ cursor.after < state.floor \/ cursor.after > state.head

ValidState(state) == state.epoch # NoEpoch /\ state.floor <= state.head

\* The RelayResponse for a state: a reset, or entries up to next.
Body(state, cursor, next) ==
    LET reset == NeedsResetAt(cursor, state)
    IN  [version |-> state.version,
         epoch |-> state.epoch, head |-> state.head, floor |-> state.floor,
         reset |-> reset,
         next |-> IF reset THEN state.floor ELSE next,
         entries |-> IF reset THEN {} ELSE (cursor.after + 1)..next]

\* signed_relay_response.
SignedResponse(r, body) ==
    [body |-> body,
     signature |-> ResponseInput(r.context, Node, r.caller, r.cursor, r.bound,
                                 r.nonce, body)]

\* What a status request answers from a state.
StatusAnswer(r, state) == SignedResponse(r, Body(state, r.cursor, r.cursor.after))

\* get_devices: the book, signed over the caller's nonce.
BookAnswer(nonce) ==
    LET body == [version |-> served.version, devices |-> served.devices]
    IN  [body |-> body, signature |-> BookInput(Node, nonce, body)]

\* The entries of the cache that retain leaves.
Retained == {e \in replays : doorTime - e.at <= ReplayTTL}

\* relay_request lets a request through and remembers its nonce: the caller's
\* key is known, the nonce was not seen within the TTL, the cache has room.
\* A refusal (401, 409, 429) changes nothing but the expired entries, which
\* the next request drops as well.
Admitted(r) ==
    /\ r.caller \in served.devices
    /\ r.serving = Node
    /\ ~\E e \in Retained : e.caller = r.caller /\ e.nonce = r.nonce
    /\ Cardinality(Retained) < ReplayLimit

Remember(r) ==
    replays' = Retained \cup {[caller |-> r.caller, nonce |-> r.nonce, at |-> doorTime]}

\* The permits taken by parked watches.
Parked == {h \in handlers : h.step # "page"}

Handler(r, step) == [request |-> r, step |-> step, seen |-> 0]

\* get_relay_ops up to the page: a reset is answered from the first read.
ServeOps(r) ==
    /\ r.context = "ops"
    /\ IF NeedsResetAt(r.cursor, served)
       THEN answers' = answers \cup {StatusAnswer(r, served)} /\ handlers' = handlers
       ELSE handlers' = handlers \cup {Handler(r, "page")} /\ answers' = answers

\* get_relay_head.
ServeHead(r) ==
    /\ r.context = "head"
    /\ answers' = answers \cup {StatusAnswer(r, served)}
    /\ handlers' = handlers

\* get_relay_watch: a cursor at the head parks while there is a permit.
ServeWatch(r) ==
    /\ r.context = "watch"
    /\ IF \/ NeedsResetAt(r.cursor, served)
          \/ r.cursor.epoch = NoEpoch
          \/ served.head # r.cursor.after
          \/ Cardinality(Parked) >= WatchLimit
       THEN answers' = answers \cup {StatusAnswer(r, served)} /\ handlers' = handlers
       ELSE handlers' = handlers \cup {Handler(r, "mark")} /\ answers' = answers

\* The network gives the request up, or keeps a copy that arrives again.
Delivered(r) ==
    \/ requests' = requests \ {r} /\ duplicates' = duplicates
    \/ /\ duplicates < MaxDuplicates
       /\ requests' = requests /\ duplicates' = duplicates + 1

RequestArrives(r) ==
    /\ r.context # "devices"
    /\ Admitted(r)
    /\ Delivered(r)
    /\ Remember(r)
    /\ ValidState(served)
    /\ ServeOps(r) \/ ServeHead(r) \/ ServeWatch(r)
    /\ UNCHANGED <<served, tick, announced, unannounced, outstanding, nonces, cursorOf, told, began,
                   doorTime>>

\* /devices asks for no signature and remembers no nonce.
BookRequestArrives(r) ==
    /\ r.context = "devices"
    /\ Delivered(r)
    /\ answers' = answers \cup {BookAnswer(r.nonce)}
    /\ UNCHANGED <<served, replays, handlers, tick, announced, unannounced, outstanding, nonces,
                   cursorOf, told, began, doorTime>>

HandlerMoves(h, next) ==
    /\ handlers' = (handlers \ {h}) \cup next
    /\ UNCHANGED <<served, replays, tick, announced, unannounced, requests, outstanding, nonces,
                   cursorOf, told, began, duplicates, doorTime>>

\* The second read of get_relay_ops, the page and its state in one: a stream
\* trimmed or rotated since the first read is a reset.
ReadPage(h) ==
    LET r == h.request
        last == Min({served.head, r.cursor.after + r.bound})
    IN  /\ h.step = "page"
        /\ answers' = answers \cup {SignedResponse(r, Body(served, r.cursor, last))}
        /\ HandlerMoves(h, {})

\* until_relay_changes, one turn: borrow_and_update,
MarkSeen(h) ==
    /\ h.step = "mark"
    /\ answers' = answers
    /\ HandlerMoves(h, {[h EXCEPT !.step = "read", !.seen = tick]})

\* then the authoritative state, which ends the watch when it has changed or
\* the deadline has passed,
ReadState(h) ==
    /\ h.step = "read"
    /\ \/ /\ served.epoch = h.request.cursor.epoch
          /\ served.head = h.request.cursor.after
          /\ answers' = answers
          /\ HandlerMoves(h, {[h EXCEPT !.step = "wait"]})
       \/ /\ answers' = answers \cup {StatusAnswer(h.request, served)}
          /\ HandlerMoves(h, {})

\* (A wait that began with the tick current by then.)
AsleepFromNow(h) == [h EXCEPT !.step = "sleep", !.seen = tick]

\* then the wait for a tick past the one marked,
Asleep(h) == [h EXCEPT !.step = "sleep"]

BeginWait(h) ==
    /\ h.step = "wait"
    /\ answers' = answers
    /\ HandlerMoves(h, {Asleep(h)})

Woken(h) ==
    /\ h.step = "sleep"
    /\ h.seen # tick
    /\ answers' = answers
    /\ HandlerMoves(h, {[h EXCEPT !.step = "mark"]})

\* or the deadline (or a dropped publisher and then the deadline).
Expires(h) ==
    /\ h.step = "sleep"
    /\ answers' = answers \cup {StatusAnswer(h.request, served)}
    /\ HandlerMoves(h, {})

-----------------------------------------------------------------------------
(* What happens at the node meanwhile.                                     *)

Becomes(state) ==
    /\ served.version < MaxChanges
    /\ served' = [state EXCEPT !.version = @ + 1]
    /\ UNCHANGED <<replays, handlers, tick, announced, requests, answers, outstanding, nonces,
                   cursorOf, told, began, duplicates, doorTime>>

\* An operation is inserted; the batch it comes in goes on.
Inserted ==
    /\ unannounced' = TRUE
    /\ Becomes([served EXCEPT !.head = @ + 1])

\* The batch ended well: HeadPublisher::publish advances the tick whatever the head is.
PublishTick ==
    /\ unannounced
    /\ unannounced' = FALSE
    /\ tick' = tick + 1
    /\ announced' = served.head
    /\ UNCHANGED <<served, replays, handlers, requests, answers, outstanding, nonces,
                   cursorOf, told, began, duplicates, doorTime>>

\* The batch erred after what it inserted: the Err arm publishes nothing, and the
\* next batch that inserts announces it.
BatchErrs ==
    /\ unannounced
    /\ unannounced' = FALSE
    /\ UNCHANGED <<served, replays, handlers, tick, announced, requests, answers,
                   outstanding, nonces, cursorOf, told, began, duplicates, doorTime>>

\* Compaction raises the floor, or the stream starts a new epoch.
FloorRises ==
    /\ served.floor < served.head
    /\ unannounced' = unannounced
    /\ Becomes([served EXCEPT !.floor = @ + 1])

EpochRotates ==
    /\ unannounced' = unannounced
    /\ Becomes([served EXCEPT !.epoch = @ + 1, !.floor = 0])

\* A device's key is learnt by the node.
DeviceJoins(c) ==
    /\ c \notin served.devices
    /\ unannounced' = unannounced
    /\ Becomes([served EXCEPT !.devices = @ \cup {c}])

DoorTick ==
    /\ doorTime < MaxDoorTime
    /\ doorTime' = doorTime + 1
    /\ UNCHANGED <<served, replays, handlers, tick, announced, unannounced, requests, answers,
                   outstanding, nonces, cursorOf, told, began, duplicates>>

-----------------------------------------------------------------------------
(* The calling devices.                                                    *)

BoundOf(kind) ==
    CASE kind = "ops" -> PageSize
      [] kind = "watch" -> 1      \* the wait in milliseconds
      [] OTHER -> 0

\* sign_relay_request, with a nonce just drawn.
SignedRequest(c, kind) ==
    RequestInput(kind, c, cursorOf[c], BoundOf(kind), nonces + 1)

\* request_relay (fetch_relay_ops, fetch_relay_head, watch_relay_head) and
\* fetch_attested_devices up to the send.
Begin(c, kind) ==
    /\ outstanding[c] = NotCalling
    /\ nonces < MaxCalls
    /\ nonces' = nonces + 1
    /\ outstanding' = [outstanding EXCEPT ![c] = SignedRequest(c, kind)]
    /\ requests' = requests \cup {SignedRequest(c, kind)}
    /\ told' = [told EXCEPT ![c] = NoAnswer]
    /\ began' = [began EXCEPT ![c] = served.version]
    /\ UNCHANGED <<served, replays, handlers, tick, announced, unannounced, answers, cursorOf,
                   duplicates, doorTime>>

\* verify_relay_signature.
VerifiesRelay(c, a) ==
    LET r == outstanding[c]
    IN  a.signature = ResponseInput(r.context, Node, c, r.cursor, r.bound, r.nonce,
                                    a.body)

\* verify_device_book.
VerifiesBook(c, a) == a.signature = BookInput(Node, outstanding[c].nonce, a.body)

\* decode_relay_response: bounds, the reset exactly when the cursor needs it,
\* no entries in a status, else the contiguous run after the cursor.
Decodes(r, b) ==
    /\ ValidState(b)
    /\ b.reset = NeedsResetAt(r.cursor, b)
    /\ b.reset => b.entries = {} /\ b.next = b.floor
    /\ ~b.reset /\ r.context # "ops" => b.entries = {} /\ b.next = r.cursor.after
    /\ ~b.reset /\ r.context = "ops" =>
         /\ Cardinality(b.entries) <= r.bound
         /\ b.entries = (r.cursor.after + 1)..b.next
         /\ b.floor <= b.next /\ b.next <= b.head

CallEnds(c, result) ==
    /\ outstanding' = [outstanding EXCEPT ![c] = NotCalling]
    /\ told' = [told EXCEPT ![c] = result]
    /\ UNCHANGED <<served, replays, handlers, tick, announced, unannounced, requests, answers,
                   nonces, began, duplicates, doorTime>>

\* The rest of request_relay, and the cursor its caller keeps.
TakePage(c, a) ==
    /\ outstanding[c] # NotCalling
    /\ outstanding[c].context # "devices"
    /\ VerifiesRelay(c, a)
    /\ Decodes(outstanding[c], a.body)
    /\ cursorOf' = [cursorOf EXCEPT ![c] =
                      IF outstanding[c].context = "ops" \/ a.body.reset
                      THEN [epoch |-> a.body.epoch, after |-> a.body.next] ELSE @]
    /\ CallEnds(c, a.body.version)

\* The rest of fetch_attested_devices; what is learnt is RelayMesh's subject.
TakeBook(c, a) ==
    /\ outstanding[c] # NotCalling
    /\ outstanding[c].context = "devices"
    /\ VerifiesBook(c, a)
    /\ cursorOf' = cursorOf
    /\ CallEnds(c, a.body.version)

\* A refusal, a timeout, or an answer that does not verify ends the call.
CallFails(c) ==
    /\ outstanding[c] # NotCalling
    /\ cursorOf' = cursorOf
    /\ CallEnds(c, NoAnswer)

-----------------------------------------------------------------------------
DoorInit ==
    /\ \E d \in Callers : served = [version |-> 0, epoch |-> 1, floor |-> 0, head |-> 0,
                                       devices |-> {d}]
    /\ replays = {} /\ handlers = {} /\ requests = {} /\ answers = {}
    /\ tick = 0 /\ announced = 0 /\ unannounced = FALSE /\ nonces = 0
    /\ duplicates = 0 /\ doorTime = 0
    /\ outstanding = [c \in Callers |-> NotCalling]
    /\ cursorOf = [c \in Callers |-> [epoch |-> NoEpoch, after |-> 0]]
    /\ told = [c \in Callers |-> NoAnswer]
    /\ began = [c \in Callers |-> 0]

NodeStep ==
    \/ \E r \in requests : RequestArrives(r) \/ BookRequestArrives(r)
    \/ \E h \in handlers : \/ ReadPage(h) \/ MarkSeen(h) \/ ReadState(h)
                           \/ BeginWait(h) \/ Woken(h) \/ Expires(h)
    \/ Inserted \/ PublishTick \/ BatchErrs \/ FloorRises \/ EpochRotates \/ DoorTick
    \/ \E c \in Callers : DeviceJoins(c)

CallerStep ==
    \E c \in Callers :
        \/ \E kind \in Kinds : Begin(c, kind)
        \/ \E a \in answers : TakePage(c, a) \/ TakeBook(c, a)
        \/ CallFails(c)

DoorNext == NodeStep \/ CallerStep

DoorSpec == DoorInit /\ [][DoorNext]_doorVars

-----------------------------------------------------------------------------
(* Properties.                                                             *)

\* What a call returns was read at the node after that very call began, though
\* the network may hand it any answer signed before and a request may arrive
\* twice: the response signature covers caller, cursor and nonce.  (It rests on the
\* caller's fresh nonce, not on the node's memory of nonces.)
AnswerIsCurrent ==
    \A c \in Callers : told[c] # NoAnswer => told[c] >= began[c]

\* A watch that sleeps although the stream it announced has grown past its cursor
\* is about to be woken: the tick differs from the one it marked.
\* until_relay_changes marks before it reads, so no tick falls between the read and
\* the wait.  (A new epoch alone, and what a batch inserted before it erred, is not
\* announced: such a watch sleeps until the next tick or its deadline.)
RelayWakeupKept ==
    \A h \in handlers :
        h.step = "sleep" /\ announced > h.request.cursor.after => h.seen # tick
=============================================================================
