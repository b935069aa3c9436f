---------------------------- MODULE SchwabClient ----------------------------
(***************************************************************************)
(* catalyst/brokers/schwab.py: the access token and the calls made with    *)
(* it.  Time passes while a request travels; the broker judges the token   *)
(* when the request arrives.                                               *)
(***************************************************************************)
EXTENDS Integers, FiniteSets

CONSTANTS Lifetimes,        \* expires_in of a token
          REFRESH_MARGIN,
          MaxTransit,       \* ticks a request or an answer may travel (its timeout)
          RefreshUntil,     \* when the refresh token dies
          LastTick, MaxBrokerCalls,
          NoToken, NoOrder

\* The margin covers a refresh answer and a request that both take their time (two
\* timeouts of 15 seconds against 5 minutes), and so does a token's life (30 minutes).
ASSUME MarginAssumption == /\ {MaxTransit, REFRESH_MARGIN} \subseteq Nat /\ Lifetimes \subseteq Nat
                           /\ 2 * MaxTransit <= REFRESH_MARGIN
                           /\ \A life \in Lifetimes : life > 2 * MaxTransit

VARIABLES tick,
          token,      \* self._token: expires_at as computed here, dies as the broker has it
          call,       \* the call under way
          calls,
          book,     \* at the broker: "working", "over" or "replaced" per order
          held,       \* ids the caller was given and has not given up
          lastReply   \* what the last call returned, and why

schwabVars == <<tick, token, call, calls, book, held, lastReply>>
Ops == {"place", "modify", "cancel", "account"}
NoCall == [pc |-> "idle"]
Answer(o, status, why, id) == [op |-> o, status |-> status, why |-> why, id |-> id, tokenDead |-> FALSE]
Alive == {o \in DOMAIN book : book[o] = "working"}

SchwabInit ==
    /\ tick = 0 /\ token = NoToken /\ call = NoCall /\ calls = 0
    /\ book = <<>> /\ held = {} /\ lastReply = Answer("account", "none", "none", NoOrder)

\* A request under way does not travel for ever.
MayTick == call.pc \in {"refreshing", "travelling"} => tick < call.since + MaxTransit
SchwabTick == /\ tick < LastTick /\ MayTick /\ tick' = tick + 1
              /\ UNCHANGED <<token, call, calls, book, held, lastReply>>

\* The token is used to the end.
StaleAtExpiry == token = NoToken \/ (token # NoToken /\ tick >= token.expires)
Stale == token = NoToken \/ (token # NoToken /\ tick >= token.expires - REFRESH_MARGIN)

\* _ensure_token, at the head of every call: the refresh is posted when stale.
StartCall(o, id) ==
    /\ call = NoCall /\ calls < MaxBrokerCalls /\ calls' = calls + 1
    /\ o \in {"modify", "cancel"} <=> id # NoOrder
    /\ call' = [pc |-> IF Stale THEN "refreshing" ELSE "travelling", op |-> o, id |-> id, since |-> tick]
    /\ UNCHANGED <<tick, token, book, held, lastReply>>

\* The broker issues a token at some instant of the exchange, the answer is read now.
TokenArrives ==
    /\ call.pc = "refreshing"
    /\ \E issued \in call.since..tick, life \in Lifetimes :
         /\ issued < RefreshUntil
         /\ token' = [expires |-> tick + life, dies |-> issued + life]
    /\ call' = [call EXCEPT !.pc = "travelling", !.since = tick]
    /\ UNCHANGED <<tick, calls, book, held, lastReply>>

\* Every SchwabError of a call is made a rejection.
AuthFailureCaught(o) == o \in {"place", "modify"}

\* place_order takes its token outside the try, modify_order inside.
AuthFailure(o) == o = "modify"

EndCall(r, dead) == call' = NoCall /\ lastReply' = [r EXCEPT !.tokenDead = dead]
RefreshFails ==
    /\ call.pc = "refreshing"
    /\ EndCall(IF AuthFailure(call.op) THEN Answer(call.op, "REJECTED", "auth", call.id)
               ELSE Answer(call.op, "raised", "auth", NoOrder), FALSE)
    /\ UNCHANGED <<tick, token, calls, book, held>>

\* The request never arrives, or its answer is lost: httpx raises.
RequestLost ==
    /\ call.pc = "travelling" /\ EndCall(Answer(call.op, "raised", "network", NoOrder), FALSE)
    /\ UNCHANGED <<tick, token, calls, book, held>>

Dead == tick >= token.dies
NewOrder == Cardinality(DOMAIN book) + 1
Placed == [o \in DOMAIN book \cup {NewOrder} |-> IF o = NewOrder THEN "working" ELSE book[o]]

\* Refused by the broker, a dead token among the reasons.
BrokerRefuses ==
    /\ call.pc = "travelling"
    /\ EndCall(IF call.op \in {"place", "modify"} THEN Answer(call.op, "REJECTED", "broker", call.id)
               ELSE Answer(call.op, "raised", "broker", NoOrder), Dead)
    /\ UNCHANGED <<tick, token, calls, book, held>>

\* place_order: the id is in the Location header; without one the order is there,
\* unaddressable, and the caller is told to look.
BrokerPlaces ==
    /\ call.pc = "travelling" /\ call.op = "place" /\ ~Dead /\ book' = Placed
    /\ \E located \in BOOLEAN :
         /\ EndCall(IF located THEN Answer("place", "ACCEPTED", "broker", NewOrder)
                    ELSE Answer("place", "REJECTED", "no location", NoOrder), FALSE)
         /\ held' = IF located THEN held \cup {NewOrder} ELSE held
    /\ UNCHANGED <<tick, token, calls>>

\* The old id is returned.
ReplacedIdOld(id, new) == id
\* The id a replaced order is known by.
ReplacedId(id, new) == new

\* modify_order: the old order dies, the new one has another id.
BrokerReplaces ==
    /\ call.pc = "travelling" /\ call.op = "modify" /\ ~Dead /\ call.id \in Alive
    /\ book' = [Placed EXCEPT ![call.id] = "replaced"]
    /\ \E located \in BOOLEAN :
         LET id == ReplacedId(call.id, NewOrder) IN
         /\ EndCall(IF located THEN Answer("modify", "ACCEPTED", "broker", id)
                    ELSE Answer("modify", "REJECTED", "no location", call.id), FALSE)
         /\ held' = (held \ {call.id}) \cup (IF located THEN {id} ELSE {})
    /\ UNCHANGED <<tick, token, calls>>

\* cancel_order: requested, not done; get_account: the balances, or an error if a
\* field is missing.
BrokerAnswers ==
    /\ call.pc = "travelling" /\ call.op \in {"cancel", "account"} /\ ~Dead
    /\ \/ EndCall(Answer(call.op, "ACCEPTED", "broker", call.id), FALSE)
       \/ call.op = "account" /\ EndCall(Answer("account", "raised", "field", NoOrder), FALSE)
    /\ UNCHANGED <<tick, token, calls, book, held>>

\* The broker fills, cancels or expires an order.
OrderOver == \E o \in Alive : /\ book' = [book EXCEPT ![o] = "over"]
                                /\ UNCHANGED <<tick, token, call, calls, held, lastReply>>

SchwabNext ==
    \/ SchwabTick \/ (\E o \in Ops, id \in held \cup {NoOrder} : StartCall(o, id))
    \/ TokenArrives \/ RefreshFails \/ RequestLost
    \/ BrokerRefuses \/ BrokerPlaces \/ BrokerReplaces \/ BrokerAnswers \/ OrderOver
----------------------------------------------------------------------------
\* _ensure_token: "Refresh ahead of expiry so a token cannot die mid-order": no
\* request is refused because its token died on the way, whenever it was taken.
TokenOutlivesOrder == ~lastReply.tokenDead

\* place_order: "Token acquisition failures are AUTH problems, not order
\* rejections"; and "the old id is dead after success": the ids the caller goes by
\* were never replaced behind its back.
RepliesTrue ==
    /\ lastReply.op = "place" /\ lastReply.status = "REJECTED" => lastReply.why \in {"broker", "no location"}
    /\ \A id \in held : book[id] # "replaced"
=============================================================================
