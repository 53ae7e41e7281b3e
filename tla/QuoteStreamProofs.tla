------------------------- MODULE QuoteStreamProofs --------------------------
(***************************************************************************)
(* The safety of the quote stream, for every longest pause and every       *)
(* bound: IInv is inductive, and the properties follow from it.            *)
(***************************************************************************)
EXTENDS QuoteStream, FoldLemmas

(* The powers of two are what their definition says. *)
LEMMA PowersOfTwo ==
  /\ TwoTo \in [Nat -> Nat \ {0}]
  /\ TwoTo[0] = 1
  /\ \A k \in Nat : TwoTo[k + 1] = 2 * TwoTo[k]
<1> DEFINE V == Nat \ {0}
           Double == [x \in V |-> 2 * x]
           IsPower(g) == g = [k \in Nat |-> IF k = 0 THEN 1 ELSE 2 * g[k - 1]]
<1>1. 1 \in V /\ Double \in [V -> V]
  OBVIOUS
<1> HIDE DEF V, Double
<1>a. \A start \in V : \A step \in [V -> V] :
         \E g \in [Nat -> V] :
           g[0] = start /\ \A n \in Nat : g[n + 1] = step[g[n]]
  BY Iteration
<1>b. \A step \in [V -> V] :
        \E g \in [Nat -> V] : g[0] = 1 /\ \A n \in Nat : g[n + 1] = step[g[n]]
  BY <1>a, <1>1
<1>2. PICK g \in [Nat -> V] : g[0] = 1 /\ \A n \in Nat : g[n + 1] = Double[g[n]]
  BY <1>1, <1>b
<1> USE DEF V, Double
<1>3. \A n \in Nat : g[n + 1] = 2 * g[n]
  BY <1>2
<1>4. IsPower(g)
  <2>1. \A k \in Nat : g[k] = IF k = 0 THEN 1 ELSE 2 * g[k - 1]
    <3> SUFFICES ASSUME NEW k \in Nat, k # 0 PROVE g[k] = 2 * g[k - 1]
      BY <1>2
    <3>1. k - 1 \in Nat /\ (k - 1) + 1 = k
      OBVIOUS
    <3> QED BY <3>1, <1>3
  <2> QED BY <1>2, <2>1
<1>5. IsPower(TwoTo)
  BY <1>4 DEF TwoTo
<1> HIDE DEF IsPower
<1>6. TwoTo = g
  <2> DEFINE Same == {n \in Nat : TwoTo[n] = g[n]}
  <2>1. TwoTo[0] = 1 /\ \A n \in Nat : TwoTo[n + 1] = 2 * TwoTo[n]
    BY <1>5 DEF IsPower
  <2>2. 0 \in Same /\ \A n \in Same : n + 1 \in Same
    BY <1>2, <1>3, <2>1
  <2>3. Same \in SUBSET Nat
    OBVIOUS
  <2> HIDE DEF Same
  <2>4. Same = Nat
    BY <2>2, <2>3, Induction
  <2>5. \A n \in Nat : TwoTo[n] = g[n]
    BY <2>4 DEF Same
  <2>6. DOMAIN TwoTo = Nat /\ TwoTo = [n \in Nat |-> TwoTo[n]]
    BY <1>5 DEF IsPower
  <2> QED BY <2>5, <2>6, <1>2
<1> QED BY <1>2, <1>3, <1>6

(* One more failure makes the pause the next one in the sequence. *)
LEMMA PauseGrows ==
  /\ Pause(0) = 1
  /\ \A k \in Nat : Pause(k) \in 1..MaxPause /\ Longer(Pause(k)) = Pause(k + 1)
<1>1. Pause(0) = 1
  BY PowersOfTwo, QuoteStreamAssumption DEF Pause
<1>2. ASSUME NEW k \in Nat
      PROVE  Pause(k) \in 1..MaxPause /\ Longer(Pause(k)) = Pause(k + 1)
  <2>1. PICK a, b : a = TwoTo[k] /\ b = TwoTo[k + 1]
    OBVIOUS
  <2>2. a \in Nat \ {0} /\ b = 2 * a
    BY <2>1, PowersOfTwo
  <2>3. /\ Pause(k) = IF a < MaxPause THEN a ELSE MaxPause
        /\ Pause(k + 1) = IF b < MaxPause THEN b ELSE MaxPause
    BY <2>1 DEF Pause
  <2> QED BY <2>2, <2>3, QuoteStreamAssumption DEF Longer
<1> QED BY <1>1, <1>2

(* What a concatenation holds, and where. *)
LEMMA Concatenation ==
  ASSUME NEW S, NEW s \in Seq(S), NEW t \in Seq(S)
  PROVE  /\ s \o t \in Seq(S) /\ Len(s \o t) = Len(s) + Len(t)
         /\ \A i \in 1..Len(s) : (s \o t)[i] = s[i]
         /\ \A i \in 1..Len(t) : (s \o t)[Len(s) + i] = t[i]
<1>1. ASSUME NEW i \in 1..Len(t) PROVE (s \o t)[Len(s) + i] = t[i]
  <2>1. Len(s) \in Nat /\ Len(t) \in Nat
    OBVIOUS
  <2>2. Len(s) + i \in 1..(Len(s) + Len(t)) /\ ~ (Len(s) + i <= Len(s))
    BY <2>1
  <2>3. Len(s) + i - Len(s) = i
    BY <2>1
  <2> QED BY <2>1, <2>2, <2>3
<1> QED BY <1>1

(* The invariant holds when the generator starts. *)
LEMMA InitIInv == Init => IInv
<1> SUFFICES ASSUME Init PROVE IInv
  OBVIOUS
<1>a. \A S : <<>> \in Seq(S)
  OBVIOUS
<1>b. /\ at \in Stages /\ backoff \in 1..MaxPause
      /\ failures \in 0..MaxBreaks /\ breaks \in 0..MaxBreaks
  BY QuoteStreamAssumption DEF Init, Stages
<1>c. /\ got \in Seq([message : 1..MaxMessages, kind : Kinds])
      /\ batch \in Seq(DOMAIN got) /\ out \in Seq(DOMAIN got)
  BY <1>a DEF Init
<1>d. open \in BOOLEAN /\ failures <= breaks
  <2>1. open \in BOOLEAN
    BY Zenon DEF Init
  <2> QED BY <2>1 DEF Init
<1>e. SocketInItsBlock
  BY DEF Init, SocketInItsBlock
<1>1. TypeOK /\ SocketInItsBlock /\ failures <= breaks
  BY <1>b, <1>c, <1>d, <1>e DEF TypeOK
<1>2. PauseSoFar
  BY PauseGrows DEF Init, PauseSoFar
<1>3. BatchIsLast /\ DeliversInOrder
  BY DEF Init, BatchIsLast, DeliversInOrder
<1> QED BY <1>1, <1>2, <1>3 DEF IInv

(* The events of a new message are appended to those received, and are the batch. *)
LEMMA MessageAppends ==
  ASSUME TypeOK, at = "listening", NEW n \in 1..MaxEvents, NEW kinds \in [1..n -> Kinds],
         Message(kinds)
  PROVE  /\ got' \in Seq([message : 1..MaxMessages, kind : Kinds])
         /\ Len(got') = Len(got) + n
         /\ \A i \in 1..Len(got) : got'[i] = got[i]
         /\ \A i \in 1..n : got'[Len(got) + i] = [message |-> Messages + 1, kind |-> kinds[i]]
         /\ Messages' = Messages + 1
         /\ batch' \in Seq(DOMAIN got') /\ Len(batch') = n
         /\ \A i \in 1..n : batch'[i] = Len(got) + i
<1> DEFINE Event == [message : 1..MaxMessages, kind : Kinds]
           new == [i \in DOMAIN kinds |-> [message |-> Messages + 1, kind |-> kinds[i]]]
<1>1. Messages \in Nat /\ Messages + 1 \in 1..MaxMessages
  <2>1. Messages < MaxMessages /\ MaxMessages \in Nat
    BY QuoteStreamAssumption DEF Message
  <2>2. CASE got = <<>>
    BY <2>1, <2>2 DEF Messages
  <2>3. CASE got # <<>>
    <3>1. Len(got) \in DOMAIN got
      BY <2>3 DEF TypeOK
    <3>2. got \in Seq(Event)
      BY DEF TypeOK
    <3>3. \A S : got \in Seq(S) => \A i \in DOMAIN got : got[i] \in S
      OBVIOUS
    <3>4. got[Len(got)] \in Event
      BY <3>1, <3>2, <3>3, Zenon
    <3> QED BY <3>4, <2>1, <2>3 DEF Messages, Last
  <2> QED BY <2>2, <2>3
<1>2. new \in [1..n -> Event] /\ n \in Nat
  BY <1>1, QuoteStreamAssumption
<1>3. new \in Seq(Event) /\ Len(new) = n
  BY <1>2
<1>4. got \in Seq(Event) /\ got' = got \o new
  BY DEF TypeOK, Message
<1> HIDE DEF new, Event
<1>c. \A s, t \in Seq(Event) :
        /\ s \o t \in Seq(Event) /\ Len(s \o t) = Len(s) + Len(t)
        /\ \A i \in 1..Len(s) : (s \o t)[i] = s[i]
        /\ \A i \in 1..Len(t) : (s \o t)[Len(s) + i] = t[i]
  BY Concatenation
<1>5. /\ got' \in Seq(Event) /\ Len(got') = Len(got) + n
      /\ \A i \in 1..Len(got) : got'[i] = got[i]
      /\ \A i \in 1..n : got'[Len(got) + i] = new[i]
  BY <1>3, <1>4, <1>c
<1>6. \A i \in 1..n : got'[Len(got) + i] = [message |-> Messages + 1, kind |-> kinds[i]]
  BY <1>5 DEF new
<1>7. Messages' = Messages + 1
  <2>1. n \in 1..n /\ Len(got) \in Nat
    BY <1>2, <1>4
  <2>2. got'[Len(got')] = [message |-> Messages + 1, kind |-> kinds[n]]
    BY <1>5, <1>6, <2>1
  <2>3. got' # <<>>
    BY <1>5, <2>1
  <2> QED BY <2>2, <2>3 DEF Messages, Last
<1>8. /\ batch' \in Seq(DOMAIN got') /\ Len(batch') = n
      /\ \A i \in 1..n : batch'[i] = Len(got) + i
  <2>1. batch' = [i \in 1..n |-> Len(got) + i]
    BY DEF Message
  <2>2. Len(got) \in Nat /\ DOMAIN got' = 1..(Len(got) + n)
    BY <1>4, <1>5
  <2>3. batch' \in [1..n -> DOMAIN got']
    BY <2>1, <2>2
  <2>4. batch' \in Seq(DOMAIN got') /\ Len(batch') = n
    BY <2>3, <1>2
  <2> QED BY <2>1, <2>4, <1>2
<1> QED BY <1>5, <1>6, <1>7, <1>8 DEF Event

(* IInv in two halves: what the generator does, and the events it holds. *)
Control ==
  /\ at \in Stages /\ open \in BOOLEAN
  /\ backoff \in 1..MaxPause /\ failures \in 0..MaxBreaks /\ breaks \in 0..MaxBreaks
  /\ SocketInItsBlock /\ failures <= breaks /\ PauseSoFar
Events ==
  /\ got \in Seq([message : 1..MaxMessages, kind : Kinds])
  /\ batch \in Seq(DOMAIN got) /\ out \in Seq(DOMAIN got)
  /\ BatchIsLast /\ DeliversInOrder

(* The two halves are the whole. *)
LEMMA Halves == IInv <=> Control /\ Events
BY DEF IInv, TypeOK, Control, Events

(* A break of the connection, whatever its error, leaves the pause that the
   failures so far call for. *)
LEMMA BreakControl ==
  ASSUME Control, NEW error \in Caught, Break(error),
         at \in {"connecting", "subscribing", "listening", "handling"}
  PROVE  Control'
<1>1. at' = "pausing" /\ open' = FALSE /\ backoff' = backoff
  BY DEF Break
<1>2. failures' = failures + 1 /\ breaks' = breaks + 1 /\ breaks < MaxBreaks
  BY DEF Break
<1>3. failures \in Nat /\ breaks \in Nat /\ failures <= breaks /\ MaxBreaks \in Nat
  BY QuoteStreamAssumption DEF Control
<1>4. failures' \in 0..MaxBreaks /\ breaks' \in 0..MaxBreaks /\ failures' <= breaks'
  BY <1>2, <1>3
<1>5. backoff = Pause(failures)
  BY PauseGrows DEF Control, PauseSoFar
<1>6. failures' > 0 /\ failures' - 1 = failures
  BY <1>2, <1>3
<1>7. PauseSoFar'
  BY <1>1, <1>5, <1>6 DEF PauseSoFar, PausesDouble, Pause
<1>8. SocketInItsBlock' /\ at' \in Stages /\ open' \in BOOLEAN
  BY <1>1 DEF SocketInItsBlock, Stages
<1> QED BY <1>1, <1>4, <1>7, <1>8 DEF Control

(* Every action leaves the generator where its socket, its pause and its counters
   fit together. *)
LEMMA ControlStep == ASSUME IInv, Next PROVE Control'
<1> USE DEF Control, Stages, SocketInItsBlock
<1>0. /\ Control /\ failures \in Nat /\ breaks \in Nat
      /\ MaxBreaks \in Nat /\ MaxPause \in Nat \ {0}
  BY Halves, QuoteStreamAssumption
<1>a. {"refused", "dropped", "unparsable"} = Caught
  BY DEF Caught
<1>1. CASE Connect
  <2>1. PauseSoFar'
    BY <1>0, <1>1 DEF Connect, PauseSoFar, Pause
  <2> QED BY <1>0, <1>1, <2>1 DEF Connect
<1>2. CASE ConnectFails \/ Drop \/ Unparsable
  BY <1>0, <1>2, <1>a, BreakControl DEF ConnectFails, Drop, Unparsable
<1>3. CASE Subscribe
  <2>1. PauseSoFar'
    BY <1>0, <1>3 DEF Subscribe, ResetBackoff, PauseSoFar
  <2> QED BY <1>0, <1>3, <2>1 DEF Subscribe, ResetBackoff
<1>4. CASE \E n \in 1..MaxEvents : \E kinds \in [1..n -> Kinds] : Message(kinds)
  <2>1. at = "listening" /\ at' = "handling" /\ UNCHANGED <<open, backoff, failures, breaks>>
    BY <1>4 DEF Message
  <2>2. PauseSoFar'
    BY <1>0, <2>1 DEF PauseSoFar
  <2> QED BY <1>0, <2>1, <2>2
<1>5. CASE ServerCloses
  <2>1. PauseSoFar'
    BY <1>0, <1>5, PauseGrows DEF ServerCloses, PauseSoFar, Pause
  <2>2. breaks' \in 0..MaxBreaks /\ failures' <= breaks'
    BY <1>0, <1>5 DEF ServerCloses
  <2>3. SocketInItsBlock' /\ at' \in Stages /\ open' \in BOOLEAN
    BY <1>5 DEF ServerCloses
  <2> QED BY <1>0, <1>5, <2>1, <2>2, <2>3 DEF ServerCloses
<1>6. CASE Yield \/ Skip \/ MessageHandled \/ Resume
  <2>1. /\ {at, at'} \subseteq {"listening", "handling", "yielded"}
        /\ UNCHANGED <<open, backoff, failures, breaks>>
    BY <1>6 DEF Yield, Skip, MessageHandled, Resume
  <2>2. PauseSoFar'
    BY <1>0, <2>1 DEF PauseSoFar
  <2> QED BY <1>0, <2>1, <2>2
<1>7. CASE PauseEnds
  <2>1. failures > 0 /\ backoff = Pause(failures - 1)
    BY <1>0, <1>7 DEF PauseEnds, PauseSoFar, PausesDouble
  <2>2. failures - 1 \in Nat /\ (failures - 1) + 1 = failures
    BY <1>0, <2>1
  <2>3. backoff' = Pause(failures) /\ backoff' \in 1..MaxPause
    BY <1>0, <1>7, <2>1, <2>2, PauseGrows DEF PauseEnds
  <2>4. PauseSoFar'
    BY <1>7, <2>3 DEF PauseEnds, PauseSoFar, Pause
  <2> QED BY <1>0, <1>7, <2>3, <2>4 DEF PauseEnds
<1>8. CASE Stop
  <2>1. PauseSoFar'
    BY <1>8 DEF Stop, PauseSoFar, PausesDouble
  <2> QED BY <1>0, <1>8, <2>1 DEF Stop
<1> QED BY <1>1, <1>2, <1>3, <1>4, <1>5, <1>6, <1>7, <1>8 DEF Next, Handle

(* A step that touches no event keeps what is said of them, as long as the
   stream stays where a batch may be left. *)
LEMMA EventsStay ==
  ASSUME Events, UNCHANGED <<got, batch, out>>,
         batch # <<>> => at' \in {"handling", "yielded", "closed"}
  PROVE  Events'
<1>1. BatchIsLast'
  BY DEF Events, BatchIsLast, Messages
<1>2. DeliversInOrder'
  BY DEF Events, DeliversInOrder, Behind
<1> QED BY <1>1, <1>2 DEF Events

(* A message arrives when nothing is left of the one before. *)
LEMMA MessageEvents ==
  ASSUME IInv, NEW n \in 1..MaxEvents, NEW kinds \in [1..n -> Kinds], Message(kinds)
  PROVE  Events'
<1>0. /\ TypeOK /\ at = "listening" /\ batch = <<>> /\ out' = out /\ at' = "handling"
      /\ got \in Seq([message : 1..MaxMessages, kind : Kinds]) /\ out \in Seq(DOMAIN got)
      /\ n \in Nat
  BY QuoteStreamAssumption DEF IInv, BatchIsLast, Message, TypeOK
<1>1. /\ got' \in Seq([message : 1..MaxMessages, kind : Kinds])
      /\ Len(got') = Len(got) + n
      /\ \A i \in 1..Len(got) : got'[i] = got[i]
      /\ \A i \in 1..n : got'[Len(got) + i] = [message |-> Messages + 1, kind |-> kinds[i]]
      /\ Messages' = Messages + 1
      /\ batch' \in Seq(DOMAIN got') /\ Len(batch') = n
      /\ \A i \in 1..n : batch'[i] = Len(got) + i
  BY <1>0, MessageAppends
<1>2. Len(got) \in Nat /\ DOMAIN got = 1..Len(got) /\ DOMAIN got' = 1..(Len(got) + n)
  BY <1>0, <1>1
<1>3. DOMAIN batch' = 1..n /\ DOMAIN out = 1..Len(out) /\ Len(out) \in Nat
  BY <1>0, <1>1
<1>a. n \in Nat \ {0}
  BY <1>0
<1>b. \A i \in 1..n : Len(got) + i = (Len(got) + n) - n + i
  BY <1>2, <1>a
<1>c. 1..Len(got) \subseteq 1..(Len(got) + n)
  BY <1>2, <1>a
<1>d. DOMAIN got \subseteq DOMAIN got' /\ \A j \in DOMAIN got : got'[j] = got[j]
  <2>1. \A j \in 1..Len(got) : got'[j] = got[j]
    BY <1>1
  <2> QED BY <2>1, <1>2, <1>c
<1>4. out' \in Seq(DOMAIN got')
  BY <1>d, <1>0
<1>5. \A j \in DOMAIN out : out[j] \in 1..Len(got)
  BY <1>0, <1>2
<1>6. BatchIsLast'
  <2>1. ASSUME NEW j \in 1..n
        PROVE  batch'[j] = Len(got') - n + j /\ got'[batch'[j]].message = Messages'
    <3>1. batch'[j] = Len(got) + j /\ Len(got') = Len(got) + n
      BY <1>1
    <3>2. got'[Len(got) + j].message = Messages'
      <4>1. got'[Len(got) + j] = [message |-> Messages + 1, kind |-> kinds[j]]
        BY <1>1
      <4> QED BY <4>1, <1>1
    <3>3. batch'[j] = Len(got') - n + j
      BY <1>b, <3>1
    <3> QED BY <3>1, <3>2, <3>3
  <2>2. \A j \in DOMAIN out' : out'[j] <= Len(got') - Len(batch')
    <3>1. Len(got') = Len(got) + n /\ Len(batch') = n /\ out' = out
      BY <1>0, <1>1
    <3> QED BY <1>2, <1>5, <3>1, <1>a
  <2>3. Len(batch') <= Len(got') /\ Len(batch') = n /\ at' = "handling"
    BY <1>0, <1>1, <1>2, <1>a
  <2> HIDE DEF Messages
  <2> QED BY <1>3, <2>1, <2>2, <2>3 DEF BatchIsLast
<1>7. DeliversInOrder'
  <2>1. \A i, j \in DOMAIN out' : i < j => out'[i] < out'[j]
    BY <1>0 DEF IInv, DeliversInOrder
  <2>2. ASSUME NEW i \in DOMAIN got'
        PROVE  \/ \E j \in DOMAIN out' : out'[j] = i /\ got'[i].kind \in MarketData
               \/ \E j \in DOMAIN batch' : batch'[j] = i
               \/ got'[i].kind \notin MarketData
               \/ \E j \in DOMAIN got' : Behind(i, j)' /\ got'[j].kind = "malformed"
    <3>1. CASE i \in DOMAIN got
      <4>2. \/ \E j \in DOMAIN out : out[j] = i /\ got[i].kind \in MarketData
            \/ got[i].kind \notin MarketData
            \/ \E j \in DOMAIN got : Behind(i, j) /\ got[j].kind = "malformed"
        BY <1>0, <3>1 DEF IInv, DeliversInOrder
      <4> QED BY <3>1, <1>d, <4>2, <1>0 DEF Behind
    <3>2. CASE i \notin DOMAIN got
      <4>1. i - Len(got) \in 1..n /\ Len(got) + (i - Len(got)) = i
        BY <1>0, <1>2, <3>2
      <4> QED BY <4>1, <1>1, <1>3
    <3> QED BY <3>1, <3>2
  <2> QED BY <2>1, <2>2 DEF DeliversInOrder
<1> QED BY <1>1, <1>4, <1>6, <1>7 DEF Events

(* What is at the head of the batch, and behind it. *)
LEMMA HeadOfBatch ==
  ASSUME IInv, batch # <<>>
  PROVE  /\ batch \in Seq(DOMAIN got) /\ Len(batch) \in Nat \ {0} /\ Len(got) \in Nat
         /\ DOMAIN got = 1..Len(got)
         /\ Head(batch) = Len(got) - Len(batch) + 1 /\ Head(batch) \in DOMAIN got
         /\ Tail(batch) \in Seq(DOMAIN got) /\ Len(Tail(batch)) = Len(batch) - 1
         /\ \A j \in 1..(Len(batch) - 1) : Tail(batch)[j] = batch[j + 1]
         /\ \A j \in 1..Len(batch) : batch[j] = Len(got) - Len(batch) + j
         /\ \A j \in DOMAIN batch :
              batch[j] = Head(batch) \/ \E k \in DOMAIN Tail(batch) : Tail(batch)[k] = batch[j]
<1>0. /\ batch \in Seq(DOMAIN got) /\ got \in Seq([message : 1..MaxMessages, kind : Kinds])
      /\ Len(batch) <= Len(got) /\ \A j \in DOMAIN batch : batch[j] = Len(got) - Len(batch) + j
  BY DEF IInv, TypeOK, BatchIsLast
<1>1. Len(got) \in Nat /\ DOMAIN got = 1..Len(got)
  BY <1>0
<1>2. Len(batch) \in Nat \ {0} /\ DOMAIN batch = 1..Len(batch) /\ Head(batch) = batch[1]
  BY <1>0
<1>3. /\ Tail(batch) \in Seq(DOMAIN got) /\ Len(Tail(batch)) = Len(batch) - 1
      /\ \A j \in 1..(Len(batch) - 1) : Tail(batch)[j] = batch[j + 1]
  BY <1>0
<1>4. Head(batch) = Len(got) - Len(batch) + 1 /\ Head(batch) \in DOMAIN got
  <2>1. 1 \in DOMAIN batch
    BY <1>2
  <2>2. batch[1] = Len(got) - Len(batch) + 1 /\ Len(batch) <= Len(got)
    BY <1>0, <2>1
  <2>3. Len(got) - Len(batch) + 1 \in 1..Len(got)
    BY <2>2, <1>1, <1>2
  <2> QED BY <2>2, <2>3, <1>1, <1>2
<1>5. ASSUME NEW j \in DOMAIN batch, j # 1
      PROVE  \E k \in DOMAIN Tail(batch) : Tail(batch)[k] = batch[j]
  <2>1. j - 1 \in 1..(Len(batch) - 1) /\ (j - 1) + 1 = j
    BY <1>2, <1>5
  <2>2. DOMAIN Tail(batch) = 1..(Len(batch) - 1)
    BY <1>3
  <2> QED BY <2>1, <2>2, <1>3
<1> QED BY <1>0, <1>1, <1>2, <1>3, <1>4, <1>5

(* What has been yielded was received before the batch. *)
LEMMA YieldedBefore ==
  ASSUME IInv, NEW j \in DOMAIN out
  PROVE  out[j] \in 1..Len(got) /\ out[j] <= Len(got) - Len(batch)
<1>1. out \in Seq(DOMAIN got) /\ got \in Seq([message : 1..MaxMessages, kind : Kinds])
  BY DEF IInv, TypeOK
<1>2. DOMAIN got = 1..Len(got)
  BY <1>1
<1>3. out[j] \in DOMAIN got
  BY <1>1
<1>4. out[j] <= Len(got) - Len(batch)
  BY DEF IInv, BatchIsLast
<1> QED BY <1>2, <1>3, <1>4

(* The rest of the batch, once its head is taken. *)
LEMMA TakeHead ==
  ASSUME IInv, batch # <<>>, at = "handling", at' \in {"handling", "yielded"},
         got' = got, batch' = Tail(batch),
         \A j \in DOMAIN out' : out'[j] <= Head(batch)
  PROVE  BatchIsLast'
<1>1. /\ Len(batch) \in Nat \ {0} /\ Len(got) \in Nat
      /\ Head(batch) = Len(got) - Len(batch) + 1
      /\ Tail(batch) \in Seq(DOMAIN got) /\ Len(Tail(batch)) = Len(batch) - 1
      /\ \A j \in 1..(Len(batch) - 1) : Tail(batch)[j] = batch[j + 1]
  BY HeadOfBatch
<1>2. DOMAIN batch' = 1..(Len(batch) - 1) /\ Len(batch') = Len(batch) - 1
  BY <1>1
<1>3. Len(batch) <= Len(got) /\ Messages' = Messages
      /\ \A j \in 1..Len(batch) : /\ batch[j] = Len(got) - Len(batch) + j
                                  /\ got[batch[j]].message = Messages
  <2>1. DOMAIN batch = 1..Len(batch)
    BY HeadOfBatch
  <2> QED BY <2>1 DEF IInv, BatchIsLast, Messages
<1>4. ASSUME NEW j \in 1..(Len(batch) - 1)
      PROVE  batch'[j] = Len(got) - (Len(batch) - 1) + j /\ got[batch'[j]].message = Messages
  <2>1. j + 1 \in 1..Len(batch) /\ j \in Nat
    BY <1>1
  <2>2. batch'[j] = batch[j + 1]
    BY <1>1
  <2>3. batch[j + 1] = Len(got) - Len(batch) + (j + 1) /\ got[batch[j + 1]].message = Messages
    BY <1>3, <2>1
  <2>4. Len(got) - Len(batch) + (j + 1) = Len(got) - (Len(batch) - 1) + j
    BY <1>1, <2>1
  <2> QED BY <2>2, <2>3, <2>4
<1>5. Len(batch') <= Len(got) /\ Head(batch) = Len(got) - Len(batch')
  BY <1>1, <1>2, <1>3
<1> QED BY <1>2, <1>3, <1>4, <1>5 DEF BatchIsLast

(* Market data is handed over. *)
LEMMA YieldEvents == ASSUME IInv, Yield PROVE Events'
<1>0. /\ batch # <<>> /\ at = "handling" /\ at' = "yielded" /\ got' = got
      /\ out' = Append(out, Head(batch)) /\ batch' = Tail(batch)
      /\ got[Head(batch)].kind \in MarketData
  BY DEF Yield, Kind
<1>1. /\ Head(batch) \in DOMAIN got /\ Tail(batch) \in Seq(DOMAIN got)
      /\ Head(batch) = Len(got) - Len(batch) + 1 /\ Len(batch) \in Nat /\ Len(got) \in Nat
      /\ DOMAIN got = 1..Len(got)
      /\ \A j \in DOMAIN batch :
           batch[j] = Head(batch) \/ \E k \in DOMAIN Tail(batch) : Tail(batch)[k] = batch[j]
  BY <1>0, HeadOfBatch
<1>2. out \in Seq(DOMAIN got) /\ Len(out) \in Nat /\ DOMAIN out = 1..Len(out)
  BY DEF IInv, TypeOK
<1>3. /\ out' \in Seq(DOMAIN got) /\ DOMAIN out' = 1..(Len(out) + 1)
      /\ out'[Len(out) + 1] = Head(batch)
      /\ \A j \in 1..Len(out) : out'[j] = out[j]
  BY <1>0, <1>1, <1>2
<1>4. ASSUME NEW j \in DOMAIN out
      PROVE  out'[j] = out[j] /\ out[j] \in Int /\ out[j] < Head(batch)
  <2>1. out[j] <= Len(got) - Len(batch) /\ out[j] \in 1..Len(got)
    BY YieldedBefore
  <2> QED BY <2>1, <1>1, <1>2, <1>3
<1>5. ASSUME NEW j \in DOMAIN out' PROVE j \in DOMAIN out \/ j = Len(out) + 1
  BY <1>2, <1>3
<1>6. BatchIsLast'
  <2>1. ASSUME NEW j \in DOMAIN out' PROVE out'[j] <= Head(batch)
    <3>1. CASE j \in DOMAIN out
      BY <3>1, <1>1, <1>4
    <3>2. CASE j = Len(out) + 1
      BY <3>2, <1>1, <1>3
    <3> QED BY <3>1, <3>2, <1>5
  <2> QED BY <2>1, <1>0, TakeHead
<1>7. ASSUME NEW i \in DOMAIN out', NEW j \in DOMAIN out', i < j PROVE out'[i] < out'[j]
  <2>1. i \in DOMAIN out
    BY <1>2, <1>3, <1>7
  <2>2. CASE j \in DOMAIN out
    BY <2>1, <2>2, <1>4, <1>7 DEF IInv, DeliversInOrder
  <2>3. CASE j = Len(out) + 1
    BY <2>1, <2>3, <1>3, <1>4
  <2> QED BY <2>2, <2>3, <1>5
<1>8. ASSUME NEW i \in DOMAIN got'
      PROVE  \/ \E j \in DOMAIN out' : out'[j] = i /\ got'[i].kind \in MarketData
             \/ \E j \in DOMAIN batch' : batch'[j] = i
             \/ got'[i].kind \notin MarketData
             \/ \E j \in DOMAIN got' : Behind(i, j)' /\ got'[j].kind = "malformed"
  <2>1. \/ \E j \in DOMAIN out : out[j] = i /\ got[i].kind \in MarketData
        \/ \E j \in DOMAIN batch : batch[j] = i
        \/ got[i].kind \notin MarketData
        \/ \E j \in DOMAIN got : Behind(i, j) /\ got[j].kind = "malformed"
    BY <1>0 DEF IInv, DeliversInOrder
  <2>2. DOMAIN out \subseteq DOMAIN out' /\ Len(out) + 1 \in DOMAIN out'
    BY <1>2, <1>3
  <2> QED BY <2>1, <2>2, <1>0, <1>1, <1>3, <1>4 DEF Behind
<1> QED BY <1>0, <1>1, <1>3, <1>6, <1>7, <1>8 DEF Events, DeliversInOrder, IInv, TypeOK

(* An event that is no market data is passed over. *)
LEMMA SkipEvents == ASSUME IInv, Skip PROVE Events'
<1>0. /\ batch # <<>> /\ at = "handling" /\ at' = at /\ got' = got
      /\ out' = out /\ batch' = Tail(batch) /\ got[Head(batch)].kind \notin MarketData
  BY DEF Skip, Kind, NextEvent, MarketData
<1>1. /\ Tail(batch) \in Seq(DOMAIN got) /\ DOMAIN got = 1..Len(got)
      /\ Head(batch) = Len(got) - Len(batch) + 1 /\ Len(batch) \in Nat /\ Len(got) \in Nat
      /\ \A j \in DOMAIN batch :
           batch[j] = Head(batch) \/ \E k \in DOMAIN Tail(batch) : Tail(batch)[k] = batch[j]
  BY <1>0, HeadOfBatch
<1>2. BatchIsLast'
  <2>1. ASSUME NEW j \in DOMAIN out' PROVE out'[j] <= Head(batch)
    <3>1. out[j] <= Len(got) - Len(batch) /\ out[j] \in 1..Len(got)
      BY <1>0, YieldedBefore
    <3> QED BY <3>1, <1>0, <1>1
  <2> QED BY <2>1, <1>0, TakeHead
<1>3. DeliversInOrder'
  <2>1. \A i, j \in DOMAIN out' : i < j => out'[i] < out'[j]
    BY <1>0 DEF IInv, DeliversInOrder
  <2>2. ASSUME NEW i \in DOMAIN got'
        PROVE  \/ \E j \in DOMAIN out' : out'[j] = i /\ got'[i].kind \in MarketData
               \/ \E j \in DOMAIN batch' : batch'[j] = i
               \/ got'[i].kind \notin MarketData
               \/ \E j \in DOMAIN got' : Behind(i, j)' /\ got'[j].kind = "malformed"
    <3>1. \/ \E j \in DOMAIN out : out[j] = i /\ got[i].kind \in MarketData
          \/ \E j \in DOMAIN batch : batch[j] = i
          \/ got[i].kind \notin MarketData
          \/ \E j \in DOMAIN got : Behind(i, j) /\ got[j].kind = "malformed"
      BY <1>0 DEF IInv, DeliversInOrder
    <3> QED BY <3>1, <1>0, <1>1 DEF Behind
  <2> QED BY <2>1, <2>2 DEF DeliversInOrder
<1> QED BY <1>0, <1>1, <1>2, <1>3 DEF Events, IInv, TypeOK

(* A malformed event loses the rest of its message, and only that. *)
LEMMA UnparsableEvents == ASSUME IInv, Unparsable PROVE Events'
<1>0. /\ batch # <<>> /\ batch' = <<>> /\ got' = got /\ out' = out
      /\ got[Head(batch)].kind = "malformed"
  BY DEF Unparsable, Break, Kind
<1>1. /\ Head(batch) \in DOMAIN got /\ Len(batch) \in Nat \ {0} /\ Len(got) \in Nat
      /\ Head(batch) = Len(got) - Len(batch) + 1 /\ DOMAIN batch = 1..Len(batch)
      /\ \A j \in 1..Len(batch) : batch[j] = Len(got) - Len(batch) + j
      /\ DOMAIN got = 1..Len(got)
  BY <1>0, HeadOfBatch
<1>2. /\ \A j \in DOMAIN batch : got[batch[j]].message = Messages
      /\ \A j \in DOMAIN out : out[j] <= Len(got) - Len(batch)
      /\ Len(batch) <= Len(got)
  BY DEF IInv, BatchIsLast
<1>3. got[Head(batch)].message = Messages
  <2>1. 1 \in DOMAIN batch /\ batch[1] = Head(batch)
    BY <1>1
  <2> QED BY <2>1, <1>2
<1>4. BatchIsLast'
  <2>1. Len(batch') = 0 /\ DOMAIN batch' = {}
    BY <1>0
  <2>2. \A j \in DOMAIN out : out[j] \in 1..Len(got)
    BY YieldedBefore
  <2>3. \A j \in DOMAIN out' : out'[j] <= Len(got') - Len(batch')
    BY <2>1, <2>2, <1>0, <1>1
  <2> QED BY <2>1, <2>3, <1>0, <1>1 DEF BatchIsLast
<1>5. DeliversInOrder'
  <2>1. ASSUME NEW j \in DOMAIN batch, batch[j] # Head(batch)
        PROVE  Behind(batch[j], Head(batch))
    <3>1. batch[j] > Head(batch)
      BY <1>1, <2>1
    <3> QED BY <3>1, <1>2, <1>3 DEF Behind
  <2>2. got[Head(batch)].kind \notin MarketData
    BY <1>0 DEF MarketData
  <2> QED BY <2>1, <2>2, <1>0, <1>1 DEF IInv, DeliversInOrder, Behind
<1>6. <<>> \in Seq(DOMAIN got)
  OBVIOUS
<1> QED BY <1>0, <1>4, <1>5, <1>6 DEF Events, IInv, TypeOK

(* Every action keeps what is said of the events. *)
LEMMA EventsStep == ASSUME IInv, Next PROVE Events'
<1>0. Events /\ (batch # <<>> => at \in {"handling", "yielded", "closed"})
  BY Halves DEF IInv, BatchIsLast
<1>1. CASE \E n \in 1..MaxEvents : \E kinds \in [1..n -> Kinds] : Message(kinds)
  BY <1>1, MessageEvents
<1>2. CASE Yield
  BY <1>2, YieldEvents
<1>3. CASE Skip
  BY <1>3, SkipEvents
<1>4. CASE Unparsable
  BY <1>4, UnparsableEvents
<1>5. CASE ConnectFails \/ Drop
  <2>1. batch = <<>> /\ UNCHANGED <<got, batch, out>>
    BY <1>0, <1>5 DEF ConnectFails, Drop, Break
  <2> QED BY <1>0, <2>1, EventsStay
<1>6. CASE \/ Connect \/ Subscribe \/ ServerCloses \/ MessageHandled
           \/ Resume \/ PauseEnds \/ Stop
  <2>1. UNCHANGED <<got, batch, out>>
    BY <1>6 DEF Connect, Subscribe, ServerCloses, MessageHandled, Resume, PauseEnds, Stop
  <2>2. batch # <<>> => at' \in {"handling", "yielded", "closed"}
    BY <1>0, <1>6 DEF Connect, Subscribe, ServerCloses, MessageHandled, Resume, PauseEnds, Stop
  <2> QED BY <1>0, <2>1, <2>2, EventsStay
<1> QED BY <1>1, <1>2, <1>3, <1>4, <1>5, <1>6 DEF Next, Handle

(* One socket at most, a pause within bounds, and of the events received only
   those of the message being handled to go: for every longest pause, length
   of messages and number of breaks. *)
THEOREM StreamInvariant == Spec => []IInv
<1>1. Init => IInv
  BY InitIInv
<1>2. IInv /\ [Next]_vars => IInv'
  <2>1. ASSUME IInv, Next PROVE IInv'
    <3>1. Control' /\ Events'
      BY <2>1, ControlStep, EventsStep
    <3> QED BY <3>1 DEF IInv, TypeOK, Control, Events
  <2>2. ASSUME IInv, UNCHANGED vars PROVE IInv'
    BY <2>2 DEF vars, IInv, TypeOK, SocketInItsBlock, PauseSoFar, PausesDouble, Pause,
                BatchIsLast, Messages, DeliversInOrder, Behind
  <2> QED BY <2>1, <2>2
<1> QED BY <1>1, <1>2, PTL DEF Spec

(* polygon_market_data.py:99, :110-111: the pauses double from one failure to
   the next, up to the longest, and start again with a subscription. *)
THEOREM PausesAreDoubled == Spec => []PausesDouble
<1>1. IInv => PausesDouble
  BY DEF IInv, PauseSoFar, PausesDouble
<1> QED BY <1>1, StreamInvariant, PTL

(* polygon_market_data.py:101-106: trades and quotes are yielded in order, once
   each; only what follows a malformed event in its own message is lost. *)
THEOREM QuotesInOrder == Spec => []DeliversInOrder
<1>1. IInv => DeliversInOrder
  BY DEF IInv
<1> QED BY <1>1, StreamInvariant, PTL
=============================================================================
