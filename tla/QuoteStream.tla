----------------------------- MODULE QuoteStream ----------------------------
(***************************************************************************)
(* PolygonMarketDataProvider.stream_quotes: an async generator that keeps  *)
(* a WebSocket connected and yields trades and quotes to its consumer, at  *)
(* the consumer's pace.  The server may refuse, drop or close a connection *)
(* and send anything; the consumer may stop at any await or yield.         *)
(***************************************************************************)
EXTENDS Integers, Sequences, SequencesExt

CONSTANTS
  MaxPause,     \* the longest pause between two connections
  MaxMessages,  \* bound on the messages received
  MaxEvents,    \* bound on the events of a message
  MaxBreaks     \* bound on the connections that fail or end

ASSUME QuoteStreamAssumption ==
  MaxPause \in Nat \ {0} /\ {MaxMessages, MaxEvents, MaxBreaks} \subseteq Nat

VARIABLES
  at,        \* where the generator is
  open,      \* whether a socket is open
  backoff,   \* the next pause
  failures,  \* failed connections since the last subscription
  breaks,    \* connections that failed or ended
  got,       \* every event received: its message and its kind
  batch,     \* the events of the current message to go, as indices of got
  out        \* the events yielded

vars == <<at, open, backoff, failures, breaks, got, batch, out>>

Stages == {"connecting", "subscribing", "listening", "handling", "yielded",
           "pausing", "raised", "closed"}

(* ev = T or Q with a symbol; any other event; one that raises. *)
MarketData == {"trade", "quote"}
Kinds == MarketData \union {"status", "malformed"}

Init ==
  /\ at = "connecting" /\ open = FALSE
  /\ backoff = 1 /\ failures = 0 /\ breaks = 0
  /\ got = <<>> /\ batch = <<>> /\ out = <<>>

(* except Exception: connections that fail and data that does not parse.  The
   mutant catches the errors of the network only. *)
NetworkErrors == {"refused", "dropped"}
Caught        == {"refused", "dropped", "unparsable"}

(* The socket is closed on the way out of its block. *)
Break(error) ==
  /\ breaks < MaxBreaks /\ breaks' = breaks + 1
  /\ failures' = failures + 1
  /\ open' = FALSE /\ batch' = <<>>
  /\ at' = IF error \in Caught THEN "pausing" ELSE "raised"
  /\ UNCHANGED <<backoff, got, out>>

Connect ==
  /\ at = "connecting"
  /\ at' = "subscribing" /\ open' = TRUE
  /\ UNCHANGED <<backoff, failures, breaks, got, batch, out>>

ConnectFails == at \in {"connecting", "subscribing"} /\ Break("refused")

(* The backoff is reset when the subscription is sent.  The mutant leaves it
   as it was. *)
KeepBackoff  == backoff' = backoff
ResetBackoff == backoff' = 1

Subscribe ==
  /\ at = "subscribing"
  /\ at' = "listening"
  /\ ResetBackoff /\ failures' = 0
  /\ UNCHANGED <<open, breaks, got, batch, out>>

Messages == IF got = <<>> THEN 0 ELSE Last(got).message

(* The last of the MaxBreaks breaks is kept for a malformed event: the bound
   never stops its handler. *)
Message(kinds) ==
  /\ at = "listening" /\ Messages < MaxMessages
  /\ breaks < MaxBreaks \/ \A i \in DOMAIN kinds : kinds[i] # "malformed"
  /\ got' = got \o [i \in DOMAIN kinds |->
                      [message |-> Messages + 1, kind |-> kinds[i]]]
  /\ batch' = [i \in DOMAIN kinds |-> Len(got) + i]
  /\ at' = "handling"
  /\ UNCHANGED <<open, backoff, failures, breaks, out>>

Drop == at = "listening" /\ Break("dropped")

(* The server ends the connection in order: no exception, and no pause. *)
ServerCloses ==
  /\ at = "listening"
  /\ breaks < MaxBreaks /\ breaks' = breaks + 1
  /\ at' = "connecting" /\ open' = FALSE
  /\ UNCHANGED <<backoff, failures, got, batch, out>>

Kind == got[Head(batch)].kind

(* The loop over the events ends with the batch.  The mutant ends it at the
   first event that is no market data. *)
LeaveLoop == batch' = <<>>
NextEvent == batch' = Tail(batch)

Yield ==
  /\ at = "handling" /\ batch # <<>> /\ Kind \in MarketData
  /\ out' = Append(out, Head(batch))
  /\ batch' = Tail(batch)
  /\ at' = "yielded"
  /\ UNCHANGED <<open, backoff, failures, breaks, got>>

Skip ==
  /\ at = "handling" /\ batch # <<>> /\ Kind = "status"
  /\ NextEvent
  /\ UNCHANGED <<at, open, backoff, failures, breaks, got, out>>

Unparsable ==
  at = "handling" /\ batch # <<>> /\ Kind = "malformed" /\ Break("unparsable")

MessageHandled ==
  /\ at = "handling" /\ batch = <<>>
  /\ at' = "listening"
  /\ UNCHANGED <<open, backoff, failures, breaks, got, batch, out>>

(* The consumer asks for the next one. *)
Resume ==
  /\ at = "yielded"
  /\ at' = "handling"
  /\ UNCHANGED <<open, backoff, failures, breaks, got, batch, out>>

(* The mutant forgets the longest. *)
Doubled(pause) == 2 * pause
Longer(pause)  == IF 2 * pause < MaxPause THEN 2 * pause ELSE MaxPause

PauseEnds ==
  /\ at = "pausing"
  /\ backoff' = Longer(backoff)
  /\ at' = "connecting"
  /\ UNCHANGED <<open, failures, breaks, got, batch, out>>

(* aclose() of the generator, or cancellation of the consumer. *)
Stop ==
  /\ at \in {"connecting", "subscribing", "listening", "yielded", "pausing"}
  /\ at' = "closed" /\ open' = FALSE
  /\ UNCHANGED <<backoff, failures, breaks, got, batch, out>>

Handle == Yield \/ Skip \/ Unparsable \/ MessageHandled

Next ==
  \/ Connect \/ ConnectFails \/ Subscribe
  \/ \E n \in 1..MaxEvents : \E kinds \in [1..n -> Kinds] : Message(kinds)
  \/ Drop \/ ServerCloses \/ Handle \/ Resume \/ PauseEnds \/ Stop

Spec == Init /\ [][Next]_vars

(* A server that refuses no more is reached; the event loop runs the handler
   and ends pauses.  Nothing makes a server talk or a consumer ask. *)
FairSpec ==
  /\ Spec
  /\ WF_vars(Connect) /\ WF_vars(Subscribe) /\ WF_vars(Handle) /\ WF_vars(PauseEnds)
-----------------------------------------------------------------------------
TypeOK ==
  /\ at \in Stages /\ open \in BOOLEAN
  /\ backoff \in 1..MaxPause /\ failures \in 0..MaxBreaks /\ breaks \in 0..MaxBreaks
  /\ got \in Seq([message : 1..MaxMessages, kind : Kinds])
  /\ batch \in Seq(DOMAIN got) /\ out \in Seq(DOMAIN got)

(* There is one socket, in its block only: none is left behind by an error, a
   pause, a cancellation or a consumer that closes the generator.  One that
   drops it at a yield without aclose() keeps the socket until Python collects
   the generator; here it just stays at the yield. *)
SocketInItsBlock ==
  open <=> at \in {"subscribing", "listening", "handling", "yielded"}

(* polygon_market_data.py:99 and :110-111: the k-th failure in a row since a
   subscription is followed by a pause of 2^(k-1) seconds, up to the longest;
   one that follows a subscription by the shortest. *)
TwoTo[k \in Nat] == IF k = 0 THEN 1 ELSE 2 * TwoTo[k - 1]
Pause(k) == IF TwoTo[k] < MaxPause THEN TwoTo[k] ELSE MaxPause
PausesDouble == at = "pausing" => failures > 0 /\ backoff = Pause(failures - 1)

(* polygon_market_data.py:101-106: trades and quotes reach the consumer in the
   order of the server, once each, across reconnections; only what follows a
   malformed event in its own message is lost. *)
Behind(i, j) == j < i /\ got[j].message = got[i].message
DeliversInOrder ==
  /\ \A i, j \in DOMAIN out : i < j => out[i] < out[j]
  /\ \A i \in DOMAIN got :
       \/ \E j \in DOMAIN out : out[j] = i /\ got[i].kind \in MarketData
       \/ \E j \in DOMAIN batch : batch[j] = i
       \/ got[i].kind \notin MarketData
       \/ \E j \in DOMAIN got : Behind(i, j) /\ got[j].kind = "malformed"

(* What the generator holds between two steps, for the proofs: the pause that
   the failures since the last subscription have led to, and in batch the last
   events received, all of one message, which only a stream that handles it, or
   that was closed at a yield, still has. *)
PauseSoFar ==
  CASE at \in {"connecting", "subscribing"} -> backoff = Pause(failures)
    [] at \in {"listening", "handling", "yielded"} -> failures = 0 /\ backoff = 1
    [] OTHER -> PausesDouble

BatchIsLast ==
  /\ Len(batch) <= Len(got)
  /\ \A j \in DOMAIN batch : /\ batch[j] = Len(got) - Len(batch) + j
                             /\ got[batch[j]].message = Messages
  /\ \A j \in DOMAIN out : out[j] <= Len(got) - Len(batch)
  /\ batch # <<>> => at \in {"handling", "yielded", "closed"}

(* Nor does the pause ever grow beyond the longest. *)
IInv == /\ TypeOK /\ SocketInItsBlock
        /\ failures <= breaks /\ PauseSoFar
        /\ BatchIsLast /\ DeliversInOrder

(* polygon_market_data.py:108: no error ends the stream.  While its consumer
   keeps it, it is connected again after every break, and what has been
   received is handled. *)
StreamRecovers ==
  at # "closed" ~> at \in {"listening", "yielded", "closed"}
=============================================================================
