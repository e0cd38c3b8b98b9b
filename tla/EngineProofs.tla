----------------------------- MODULE EngineProofs -----------------------------
(***************************************************************************)
(* Proof that the engine runs the kernel's updates in order, for any       *)
(* number of subscriptions and any capacity of the channels: whatever else *)
(* is posted meanwhile, no update of a subscription overtakes another and  *)
(* none is left out.                                                       *)
(***************************************************************************)
EXTENDS Engine, TLAPS

Closure == [kind : {"update", "reload", "sweep", "reconcile", "none"},
            chan : Chans \cup {"none"}, num : Nat]

EngineType ==
    /\ events \in Seq(Closure)
    /\ sub \in [Chans -> Seq(Closure)]
    /\ received \in [Chans -> Nat] /\ handled \in [Chans -> Nat]
    /\ update \in Closure

-----------------------------------------------------------------------------
(* The inductive invariant: for each subscription the numbers from         *)
(* handled + 1 to received lie in the engine's channel, in the forwarder's *)
(* hand and in the subscription's channel, in this order.                  *)

Forwarding(c) == forwarder = "post" /\ update.chan = c

\* The last update the forwarder has taken, and the last one it has posted.
Taken(c) == received[c] - Len(sub[c])
Posted(c) == IF Forwarding(c) THEN Taken(c) - 1 ELSE Taken(c)

Subscribed(c) ==
    /\ Len(sub[c]) <= received[c]
    /\ \A j \in 1 .. Len(sub[c]) : sub[c][j].chan = c /\ sub[c][j].num = Taken(c) + j
    /\ Forwarding(c) => update.num = Taken(c)

Queued(c) ==
    /\ handled[c] <= Posted(c)
    /\ \A j \in 1 .. Len(events) : events[j].chan = c =>
           handled[c] < events[j].num /\ events[j].num <= Posted(c)
    /\ \A j, k \in 1 .. Len(events) :
           events[j].chan = c /\ events[k].chan = c /\ j < k => events[j].num < events[k].num
    /\ \A n \in handled[c] + 1 .. Posted(c) :
           \E j \in 1 .. Len(events) : events[j].chan = c /\ events[j].num = n

OrderInv ==
    /\ EngineType
    /\ \A c \in Chans : Subscribed(c) /\ Queued(c)

\* Nothing is forwarded before main has subscribed.
NotYet == main = "init" => forwarder = "off"

-----------------------------------------------------------------------------
(* Each kind of step.                                                      *)

\* What the types say of a closure in the channel and of the counters.
LEMMA EngineTypes ==
    ASSUME EngineType
    PROVE  /\ \A j \in 1 .. Len(events) : events[j] \in Closure /\ events[j].num \in Nat
           /\ \A c \in Chans : handled[c] \in Nat /\ Taken(c) \in Int /\ Posted(c) \in Int
<1>1. \A j \in 1 .. Len(events) : events[j] \in Closure
  BY DEF EngineType
<1>2. \A f \in Closure : f.num \in Nat
  BY DEF Closure
<1>3. \A c \in Chans : handled[c] \in Nat /\ received[c] \in Nat /\ Len(sub[c]) \in Nat
  BY DEF EngineType
<1> QED BY <1>1, <1>2, <1>3 DEF Taken, Posted

\* A closure that is no update takes its place behind the pending ones.
LEMMA OwnPosted ==
    ASSUME OrderInv, NEW f \in Closure, f.chan = "none", Post(f),
           UNCHANGED <<subVars, fwdVars, handled>>
    PROVE  OrderInv'
<1>1. /\ events \in Seq(Closure) /\ events' = Append(events, f)
      /\ Len(events) \in Nat
  BY DEF OrderInv, EngineType, Post
<1>2. /\ events' \in Seq(Closure) /\ Len(events') = Len(events) + 1
      /\ events'[Len(events) + 1] = f
      /\ \A j \in 1 .. Len(events) : events'[j] = events[j]
  BY <1>1
<1>3. \A j \in 1 .. Len(events') : \/ j \in 1 .. Len(events) /\ events'[j] = events[j]
                                   \/ events'[j].chan = "none"
  BY <1>1, <1>2
<1>4. EngineType'
  BY <1>2 DEF OrderInv, EngineType, subVars, fwdVars
<1>5. ASSUME NEW c \in Chans PROVE Subscribed(c)' /\ Queued(c)'
  <2>1. c # "none"
    BY EngineAssumption
  <2>2. Subscribed(c)' /\ Posted(c)' = Posted(c)
    BY DEF OrderInv, Subscribed, Posted, Taken, Forwarding, subVars, fwdVars
  <2>3. \A j \in 1 .. Len(events') : events'[j].chan = c =>
           j \in 1 .. Len(events) /\ events'[j] = events[j]
    BY <1>3, <2>1
  <2>4. \A j \in 1 .. Len(events) : j \in 1 .. Len(events') /\ events'[j] = events[j]
    BY <1>1, <1>2
  <2>5. Queued(c)'
    BY <2>2, <2>3, <2>4 DEF OrderInv, Queued
  <2> QED BY <2>2, <2>5
<1> QED BY <1>4, <1>5 DEF OrderInv

\* The forwarder posts the update that comes next.
LEMMA ForwardKeeps ==
    ASSUME OrderInv, ForwardPost
    PROVE  OrderInv'
<1>1. /\ events \in Seq(Closure) /\ update \in Closure /\ events' = Append(events, update)
      /\ Len(events) \in Nat /\ forwarder = "post"
      /\ forwarder' = "select" /\ update' = Own("none")
      /\ UNCHANGED <<subVars, handled>>
  BY DEF OrderInv, EngineType, ForwardPost, Post
<1>2. /\ events' \in Seq(Closure) /\ Len(events') = Len(events) + 1
      /\ events'[Len(events) + 1] = update
      /\ \A j \in 1 .. Len(events) : events'[j] = events[j]
  BY <1>1
<1>3. EngineType'
  BY <1>1, <1>2 DEF OrderInv, EngineType, subVars, Closure, Own
<1>4. ASSUME NEW c \in Chans PROVE Subscribed(c)' /\ Queued(c)'
  <2>1. ~Forwarding(c)' /\ Taken(c)' = Taken(c) /\ Taken(c) \in Int /\ handled[c] \in Nat
    BY <1>1 DEF Forwarding, Taken, subVars, OrderInv, EngineType
  <2>2. Subscribed(c)'
    BY <1>1, <2>1 DEF OrderInv, Subscribed, subVars
  <2>3. Posted(c)' = Taken(c)
    BY <2>1 DEF Posted
  <2>4. CASE Forwarding(c)
    <3>1. update.chan = c /\ update.num = Taken(c) /\ Posted(c) = Taken(c) - 1
      BY <2>4 DEF Forwarding, OrderInv, Subscribed, Posted
    <3>2. \A j \in 1 .. Len(events') : \/ j \in 1 .. Len(events) /\ events'[j] = events[j]
                                       \/ j = Len(events) + 1 /\ events'[j] = update
      BY <1>1, <1>2
    <3>3. \A j \in 1 .. Len(events) : events[j] \in Closure /\ events[j].num \in Nat
      BY EngineTypes DEF OrderInv
    <3>4. \A j \in 1 .. Len(events) : j \in 1 .. Len(events') /\ events'[j] = events[j]
      BY <1>1, <1>2
    <3>5. handled'[c] = handled[c] /\ handled[c] < Taken(c)
      BY <1>1, <2>1, <3>1 DEF OrderInv, Queued
    <3>6. ASSUME NEW j \in 1 .. Len(events'), events'[j].chan = c
          PROVE  handled[c] < events'[j].num /\ events'[j].num <= Taken(c)
      BY <2>1, <3>1, <3>2, <3>3, <3>5, <3>6 DEF OrderInv, Queued
    <3>7. ASSUME NEW j \in 1 .. Len(events'), NEW k \in 1 .. Len(events'),
                 events'[j].chan = c, events'[k].chan = c, j < k
          PROVE  events'[j].num < events'[k].num
      <4>1. j \in 1 .. Len(events) /\ events'[j] = events[j]
        BY <1>1, <1>2, <3>7
      <4>2. CASE k \in 1 .. Len(events)
        BY <3>4, <3>7, <4>1, <4>2 DEF OrderInv, Queued
      <4>3. CASE events'[k] = update
        BY <2>1, <3>1, <3>3, <3>7, <4>1, <4>3 DEF OrderInv, Queued
      <4> QED BY <3>2, <4>2, <4>3
    <3>8. ASSUME NEW n \in handled[c] + 1 .. Taken(c)
          PROVE  \E j \in 1 .. Len(events') : events'[j].chan = c /\ events'[j].num = n
      <4>1. CASE n = Taken(c)
        <5>1. Len(events) + 1 \in 1 .. Len(events')
          BY <1>1, <1>2
        <5> QED BY <1>2, <3>1, <4>1, <5>1
      <4>2. CASE n # Taken(c)
        <5>1. n \in handled[c] + 1 .. Posted(c)
          BY <2>1, <3>1, <4>2
        <5>2. PICK j \in 1 .. Len(events) : events[j].chan = c /\ events[j].num = n
          BY <5>1 DEF OrderInv, Queued
        <5> QED BY <3>4, <5>2
      <4> QED BY <4>1, <4>2
    <3>9. Queued(c)'
      BY <2>1, <2>3, <3>5, <3>6, <3>7, <3>8 DEF Queued
    <3> QED BY <2>2, <3>9
  <2>5. CASE ~Forwarding(c)
    <3>1. update.chan # c /\ Posted(c) = Taken(c)
      BY <1>1, <2>5 DEF Forwarding, Posted
    <3>2. \A j \in 1 .. Len(events') : events'[j].chan = c =>
             j \in 1 .. Len(events) /\ events'[j] = events[j]
      BY <1>1, <1>2, <3>1
    <3>3. \A j \in 1 .. Len(events) : j \in 1 .. Len(events') /\ events'[j] = events[j]
      BY <1>1, <1>2
    <3>4. Queued(c)'
      BY <1>1, <2>3, <3>1, <3>2, <3>3 DEF OrderInv, Queued
    <3> QED BY <2>2, <3>4
  <2> QED BY <2>4, <2>5
<1> QED BY <1>3, <1>4 DEF OrderInv

\* An update that arrives is numbered after those of its subscription.
LEMMA ReceiveKeeps ==
    ASSUME OrderInv, NEW d \in Chans, Receive(d)
    PROVE  OrderInv'
<1>1. /\ sub \in [Chans -> Seq(Closure)] /\ received \in [Chans -> Nat]
      /\ received' = [received EXCEPT ![d] = @ + 1]
      /\ sub' = [sub EXCEPT ![d] = Append(@, Update(d, received[d] + 1))]
      /\ UNCHANGED <<events, fwdVars, handled>>
  BY DEF OrderInv, EngineType, Receive
<1>2. Update(d, received[d] + 1) \in Closure
  BY <1>1 DEF Closure, Update
<1>3. EngineType'
  BY <1>1, <1>2 DEF OrderInv, EngineType, fwdVars
<1>4. ASSUME NEW c \in Chans PROVE Subscribed(c)' /\ Queued(c)'
  <2>1. CASE c # d
    <3>1. sub'[c] = sub[c] /\ received'[c] = received[c]
      BY <1>1, <2>1
    <3>2. (Forwarding(c)' <=> Forwarding(c)) /\ Taken(c)' = Taken(c) /\ Posted(c)' = Posted(c)
      BY <1>1, <3>1 DEF Posted, Taken, Forwarding, fwdVars
    <3>3. Subscribed(c) /\ Queued(c)
      BY DEF OrderInv
    <3>4. events' = events /\ handled' = handled /\ update' = update
      BY <1>1 DEF fwdVars
    <3>5. Subscribed(c)'
      BY <3>1, <3>2, <3>3, <3>4 DEF Subscribed
    <3>6. Queued(c)'
      BY <3>2, <3>3, <3>4 DEF Queued
    <3> QED BY <3>5, <3>6
  <2>2. CASE c = d
    <3>1. /\ sub[c] \in Seq(Closure) /\ Len(sub[c]) \in Nat /\ received[c] \in Nat
          /\ sub'[c] = Append(sub[c], Update(c, received[c] + 1))
          /\ received'[c] = received[c] + 1
      BY <1>1, <2>2
    <3>2. /\ Len(sub'[c]) = Len(sub[c]) + 1
          /\ sub'[c][Len(sub[c]) + 1] = Update(c, received[c] + 1)
          /\ \A j \in 1 .. Len(sub[c]) : sub'[c][j] = sub[c][j]
      BY <3>1
    <3>3. Taken(c)' = Taken(c) /\ Taken(c) \in Int /\ (Forwarding(c)' <=> Forwarding(c))
      BY <1>1, <3>1, <3>2 DEF Taken, Forwarding, fwdVars
    <3>4. ASSUME NEW j \in 1 .. Len(sub'[c])
          PROVE  sub'[c][j].chan = c /\ sub'[c][j].num = Taken(c) + j
      <4>1. CASE j = Len(sub[c]) + 1
        <5>1. Taken(c) + j = received[c] + 1
          BY <3>1, <4>1 DEF Taken
        <5> QED BY <3>2, <4>1, <5>1 DEF Update
      <4>2. CASE j \in 1 .. Len(sub[c])
        BY <3>2, <4>2 DEF OrderInv, Subscribed
      <4> QED BY <3>1, <3>2, <4>1, <4>2
    <3>5. Len(sub'[c]) <= received'[c] /\ (Forwarding(c)' => update'.num = Taken(c)')
      BY <1>1, <3>1, <3>2, <3>3 DEF OrderInv, Subscribed, fwdVars
    <3>6. Subscribed(c)'
      BY <3>3, <3>4, <3>5 DEF Subscribed
    <3>7. Posted(c)' = Posted(c)
      BY <3>3 DEF Posted
    <3>8. Queued(c) /\ events' = events /\ handled' = handled
      BY <1>1 DEF OrderInv
    <3>9. Queued(c)'
      BY <3>7, <3>8 DEF Queued
    <3> QED BY <3>6, <3>9
  <2> QED BY <2>1, <2>2
<1> QED BY <1>3, <1>4 DEF OrderInv

\* The forwarder takes the oldest update of a subscription.
LEMMA TakeKeeps ==
    ASSUME OrderInv, NEW d \in Chans, ForwardRecv(d)
    PROVE  OrderInv'
<1>1. /\ sub \in [Chans -> Seq(Closure)] /\ received \in [Chans -> Nat]
      /\ sub[d] # <<>> /\ sub' = [sub EXCEPT ![d] = Tail(@)]
      /\ forwarder = "select" /\ forwarder' = "post" /\ update' = Head(sub[d])
      /\ UNCHANGED <<events, received, handled>>
  BY DEF OrderInv, EngineType, ForwardRecv
<1>2. /\ sub[d] \in Seq(Closure) /\ Len(sub[d]) \in Nat \ {0} /\ sub[d][1] = Head(sub[d])
      /\ Head(sub[d]) \in Closure
      /\ Tail(sub[d]) \in Seq(Closure) /\ Len(Tail(sub[d])) = Len(sub[d]) - 1
      /\ \A j \in 1 .. Len(Tail(sub[d])) : Tail(sub[d])[j] = sub[d][j + 1]
  BY <1>1
<1>3. EngineType'
  BY <1>1, <1>2 DEF OrderInv, EngineType
<1>4. update'.chan = d /\ update'.num = Taken(d) + 1
  <2>1. 1 \in 1 .. Len(sub[d])
    BY <1>2
  <2> QED BY <1>1, <1>2, <2>1 DEF OrderInv, Subscribed
<1>5. ASSUME NEW c \in Chans PROVE Subscribed(c)' /\ Queued(c)'
  <2>1. CASE c # d
    <3>1. sub'[c] = sub[c] /\ ~Forwarding(c) /\ ~Forwarding(c)'
      BY <1>1, <1>4, <2>1 DEF Forwarding
    <3> QED BY <1>1, <3>1 DEF OrderInv, Subscribed, Queued, Posted, Taken
  <2>2. CASE c = d
    <3>1. /\ sub'[c] = Tail(sub[c]) /\ ~Forwarding(c) /\ Forwarding(c)'
          /\ received[c] \in Nat
      BY <1>1, <1>4, <2>2 DEF Forwarding
    <3>2. Taken(c)' = Taken(c) + 1 /\ Taken(c) \in Int
      BY <1>1, <1>2, <2>2, <3>1 DEF Taken
    <3>3. ASSUME NEW j \in 1 .. Len(sub'[c])
          PROVE  sub'[c][j].chan = c /\ sub'[c][j].num = Taken(c)' + j
      <4>1. j + 1 \in 1 .. Len(sub[c]) /\ sub'[c][j] = sub[c][j + 1]
        BY <1>2, <2>2, <3>1
      <4>2. sub[c][j + 1].chan = c /\ sub[c][j + 1].num = Taken(c) + (j + 1)
        BY <4>1 DEF OrderInv, Subscribed
      <4> QED BY <3>2, <4>1, <4>2
    <3>4. Len(sub'[c]) <= received'[c]
      BY <1>1, <1>2, <2>2, <3>1 DEF OrderInv, Subscribed
    <3>5. Subscribed(c)'
      BY <1>4, <2>2, <3>2, <3>3, <3>4 DEF Subscribed
    <3>6. Posted(c)' = Posted(c)
      BY <3>1, <3>2 DEF Posted
    <3>7. Queued(c)'
      BY <1>1, <3>6 DEF OrderInv, Queued
    <3> QED BY <3>5, <3>7
  <2> QED BY <2>1, <2>2
<1> QED BY <1>3, <1>5 DEF OrderInv

\* The update at the head of the engine's channel is the one due.
LEMMA HeadIsNext ==
    ASSUME OrderInv, events # <<>>, NEW c \in Chans, Head(events).chan = c
    PROVE  Head(events).num = handled[c] + 1
<1>1. /\ events \in Seq(Closure) /\ Len(events) \in Nat \ {0} /\ Head(events) = events[1]
      /\ 1 \in 1 .. Len(events) /\ handled[c] \in Nat
      /\ \A j \in 1 .. Len(events) : events[j].num \in Nat
  BY EngineTypes DEF OrderInv, EngineType
<1>2. handled[c] < events[1].num /\ events[1].num <= Posted(c)
  BY <1>1 DEF OrderInv, Queued
<1>3. Posted(c) \in Int
  BY DEF OrderInv, EngineType, Posted, Taken
<1>4. handled[c] + 1 \in handled[c] + 1 .. Posted(c)
  BY <1>1, <1>2, <1>3
<1>5. PICK j \in 1 .. Len(events) : events[j].chan = c /\ events[j].num = handled[c] + 1
  BY <1>4 DEF OrderInv, Queued
<1>6. j # 1 => events[1].num < events[j].num
  BY <1>1, <1>5 DEF OrderInv, Queued
<1> QED BY <1>1, <1>2, <1>5, <1>6

\* Running it leaves the later ones due.
LEMMA RunKeeps ==
    ASSUME OrderInv, Run
    PROVE  OrderInv'
<1>1. /\ events \in Seq(Closure) /\ events # <<>> /\ Len(events) \in Nat \ {0}
      /\ Head(events) = events[1] /\ events[1] \in Closure
      /\ 1 \in 1 .. Len(events)
  BY DEF OrderInv, EngineType, Run
<1>2. /\ events' \in Seq(Closure) /\ Len(events') = Len(events) - 1
      /\ \A j \in 1 .. Len(events') : j + 1 \in 1 .. Len(events) /\ events'[j] = events[j + 1]
  BY <1>1 DEF Run
<1>3. /\ handled' = [c \in Chans |-> IF events[1].chan = c THEN events[1].num ELSE handled[c]]
      /\ UNCHANGED <<subVars, fwdVars>>
  BY <1>1 DEF Run
<1>4. EngineType'
  BY <1>1, <1>2, <1>3 DEF OrderInv, EngineType, subVars, fwdVars, Closure
<1>5. ASSUME NEW c \in Chans PROVE Subscribed(c)' /\ Queued(c)'
  <2>1. Subscribed(c)' /\ Posted(c)' = Posted(c)
    BY <1>3 DEF OrderInv, Subscribed, Posted, Taken, Forwarding, subVars, fwdVars
  <2>2. handled'[c] = IF events[1].chan = c THEN handled[c] + 1 ELSE handled[c]
    BY <1>1, <1>3, HeadIsNext
  <2>3. /\ handled[c] \in Nat /\ Posted(c) \in Int
        /\ \A j \in 1 .. Len(events) : events[j].num \in Nat
    BY EngineTypes DEF OrderInv
  <2>4. handled'[c] <= Posted(c)
    BY <1>1, <1>3, <2>2, <2>3 DEF OrderInv, Queued
  <2>5. ASSUME NEW j \in 1 .. Len(events'), events'[j].chan = c
        PROVE  handled'[c] < events'[j].num /\ events'[j].num <= Posted(c)
    <3>1. /\ j + 1 \in 1 .. Len(events) /\ events'[j] = events[j + 1] /\ 1 < j + 1
          /\ handled[c] < events[j + 1].num /\ events[j + 1].num <= Posted(c)
      BY <1>2, <2>5 DEF OrderInv, Queued
    <3>2. events[1].chan = c => events[1].num < events[j + 1].num
      BY <1>1, <2>5, <3>1 DEF OrderInv, Queued
    <3>3. events[1].chan = c => events[1].num = handled[c] + 1
      BY <1>1, HeadIsNext
    <3> QED BY <2>2, <2>3, <3>1, <3>2, <3>3
  <2>6. ASSUME NEW j \in 1 .. Len(events'), NEW k \in 1 .. Len(events'),
               events'[j].chan = c, events'[k].chan = c, j < k
        PROVE  events'[j].num < events'[k].num
    <3>1. /\ j + 1 \in 1 .. Len(events) /\ k + 1 \in 1 .. Len(events) /\ j + 1 < k + 1
          /\ events'[j] = events[j + 1] /\ events'[k] = events[k + 1]
      BY <1>2, <2>6
    <3> QED BY <2>6, <3>1 DEF OrderInv, Queued
  <2>7. ASSUME NEW n \in handled'[c] + 1 .. Posted(c)
        PROVE  \E j \in 1 .. Len(events') : events'[j].chan = c /\ events'[j].num = n
    <3>1. n \in handled[c] + 1 .. Posted(c)
      BY <2>2, <2>3
    <3>2. PICK j \in 1 .. Len(events) : events[j].chan = c /\ events[j].num = n
      BY <3>1 DEF OrderInv, Queued
    <3>3. j # 1
      BY <1>1, <2>2, <2>3, <3>2, HeadIsNext
    <3>4. j - 1 \in 1 .. Len(events') /\ (j - 1) + 1 = j
      BY <1>1, <1>2, <3>3
    <3>5. events'[j - 1] = events[j]
      BY <1>2, <3>4
    <3> QED BY <3>2, <3>4, <3>5
  <2>8. Queued(c)'
    BY <2>1, <2>4, <2>5, <2>6, <2>7 DEF Queued
  <2> QED BY <2>1, <2>8
<1> QED BY <1>4, <1>5 DEF OrderInv

\* Nothing else touches the pipeline.
LEMMA PipelineKept ==
    ASSUME OrderInv, UNCHANGED <<events, sub, received, handled, update>>,
           UNCHANGED forwarder \/ (forwarder # "post" /\ forwarder' # "post")
    PROVE  OrderInv'
<1>1. EngineType'
  BY DEF OrderInv, EngineType
<1>2. ASSUME NEW c \in Chans PROVE Subscribed(c)' /\ Queued(c)'
  <2>1. Forwarding(c)' <=> Forwarding(c)
    BY DEF Forwarding
  <2>2. Taken(c)' = Taken(c) /\ Posted(c)' = Posted(c)
    BY <2>1 DEF Taken, Posted
  <2> QED BY <2>1, <2>2 DEF OrderInv, Subscribed, Queued
<1> QED BY <1>1, <1>2 DEF OrderInv

-----------------------------------------------------------------------------
(* The theorems.                                                           *)

\* Nothing has been received at first.
LEMMA OrderInit == Init => OrderInv
<1> SUFFICES ASSUME Init PROVE OrderInv
  OBVIOUS
<1>1. /\ events = <<>> /\ Len(events) = 0 /\ forwarder = "off"
      /\ sub = [c \in Chans |-> <<>>] /\ received = [c \in Chans |-> 0]
      /\ handled = [c \in Chans |-> 0] /\ update = Own("none")
  BY DEF Init
<1>2. EngineType
  BY <1>1 DEF EngineType, Closure, Own
<1>3. ASSUME NEW c \in Chans PROVE Subscribed(c) /\ Queued(c)
  <2>1. Len(sub[c]) = 0 /\ received[c] = 0 /\ handled[c] = 0 /\ ~Forwarding(c)
    <3>1. Len(<<>>) = 0
      OBVIOUS
    <3> QED BY <1>1, <3>1 DEF Forwarding
  <2>2. Taken(c) = 0
    BY <2>1 DEF Taken
  <2>3. Posted(c) = 0
    BY <2>1, <2>2 DEF Posted
  <2> QED BY <1>1, <2>1, <2>2, <2>3 DEF Subscribed, Queued
<1> QED BY <1>2, <1>3 DEF OrderInv

\* Every goroutine's step keeps the order.
LEMMA OrderStep == NotYet /\ OrderInv /\ [Next]_vars => OrderInv'
<1> SUFFICES ASSUME NotYet, OrderInv, [Next]_vars PROVE OrderInv'
  OBVIOUS
<1>1. /\ Reload \in Closure /\ Reload.chan = "none"
      /\ Own("sweep") \in Closure /\ Own("sweep").chan = "none"
      /\ Own("reconcile") \in Closure /\ Own("reconcile").chan = "none"
  BY DEF Closure, Own, Reload
<1>2. CASE MainPost \/ SignalPost \/ Tick \/ ReconcilePost
  BY <1>1, <1>2, OwnPosted DEF MainPost, SignalPost, Tick, ReconcilePost
<1>3. CASE \/ MainStart \/ Edit \/ SignalRecv
           \/ \E c \in Chans : Overflow(c) \/ ForwardStop(c)
           \/ \E s \in {"HUP", "TERM"} : Signal(s)
           \/ UNCHANGED vars
  <2>1. /\ UNCHANGED <<events, sub, received, handled, update>>
        /\ UNCHANGED forwarder \/ (forwarder # "post" /\ forwarder' # "post")
    BY <1>3 DEF MainStart, Edit, SignalRecv, Overflow, ForwardStop, Signal, NotYet,
                vars, subVars, fwdVars
  <2> QED BY <2>1, PipelineKept
<1> QED BY <1>2, <1>3, RunKeeps, ReceiveKeeps, TakeKeeps, ForwardKeeps DEF Next

\* The forwarder is started by main's first step.
LEMMA NotYetInvariant == Spec => []NotYet
<1>1. Init => NotYet
  BY DEF Init, NotYet
<1>2. NotYet /\ [Next]_vars => NotYet'
  BY DEF NotYet, Next, MainStart, MainPost, Run, Receive, Overflow, ForwardRecv, ForwardStop,
         ForwardPost, Edit, Signal, SignalRecv, SignalPost, Tick, ReconcilePost,
         vars, fwdVars
<1> QED BY <1>1, <1>2, PTL DEF Spec

\* The engine runs the updates of each netlink subscription in the order the
\* kernel sent them and leaves none out, whatever signals, timers and other
\* subscriptions compete for its channel.
THEOREM UpdatesInOrder == Spec => InOrder
<1>1. OrderInv /\ [Next]_vars => [\A c \in Chans : handled'[c] \in {handled[c], handled[c] + 1}]_vars
  <2> SUFFICES ASSUME OrderInv, Next, NEW c \in Chans
               PROVE  handled'[c] \in {handled[c], handled[c] + 1}
    OBVIOUS
  <2>1. CASE Run
    <3>1. events # <<>> /\ handled'[c] = IF Head(events).chan = c THEN Head(events).num ELSE handled[c]
      BY <2>1 DEF Run
    <3> QED BY <3>1, HeadIsNext
  <2>2. CASE UNCHANGED handled
    BY <2>2
  <2> QED BY <2>1, <2>2
      DEF Next, MainStart, MainPost, Receive, Overflow, ForwardRecv, ForwardStop, ForwardPost,
          Edit, Signal, SignalRecv, SignalPost, Tick, ReconcilePost
<1> QED BY <1>1, OrderInit, OrderStep, NotYetInvariant, PTL DEF Spec, InOrder

=============================================================================
