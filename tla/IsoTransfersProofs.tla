------------------------- MODULE IsoTransfersProofs -------------------------
(***************************************************************************)
(* Proofs about IsoTransfers for any number of transfers, packets and      *)
(* completions, and every interleaving of the main thread, the event       *)
(* thread, the host controller and an unplug.                              *)
(*                                                                         *)
(* IInv says where main is when what is allocated (PhaseInv), which thread *)
(* may be in a callback (ThreadInv), that the drain ends with nothing left *)
(* in flight (DrainInv), that a transfer is in one place (OnceInv) and     *)
(* that the wire and the counter follow each other (FlowInv).              *)
(***************************************************************************)
EXTENDS IsoTransfers, FiniteSetTheorems, SequenceTheorems, TLAPS

Made == 1 .. made

PhaseInv ==
  /\ main \in {"open", "refused"} => made = 0 /\ live = {} /\ bufs = {}
  /\ main \in {"start", "up", "join", "cancel", "drain"} =>
       live = Made /\ bufs = Made /\ engine = "live" /\ claimed
  /\ main = "failed" => live = Made /\ claimed
  /\ main \in {"release", "stopped"} =>
       InFlight = {} /\ Waiting = {} /\ InCallback = {}
  /\ InFlight \cup Waiting \cup InCallback \subseteq Made

ThreadInv ==
  /\ main \in {"open", "refused", "start", "failed"} => thread = "none"
  /\ main \in {"cancel", "drain", "release", "stopped"} => thread = "exited"
  /\ main \in {"join", "cancel", "drain", "release", "stopped"} => ~running
  /\ cb[Event] # NoCallback => thread = "handle"
  /\ cb[Main] # NoCallback => main = "drain"
  /\ cb[Main].pc # "submit"
  /\ \A t \in {Main, Event} : /\ cb[t].pc = "none" <=> cb[t] = NoCallback
                              /\ cb[t].x = 0 <=> cb[t] = NoCallback

DrainInv ==
  /\ main # "drain" => cancelled = {}
  /\ main = "drain" => InFlight = cancelled
  /\ main = "drain" /\ clock > CancelTicks =>
       cancelled = {} /\ reaped = <<>> /\ cb[Main] = NoCallback

Distinct(s) == \A i, j \in DOMAIN s : s[i] = s[j] => i = j
DistinctX(s) == \A i, j \in DOMAIN s : s[i].x = s[j].x => i = j
QueueOK(q) == \A e \in {"out", "in"} : Distinct(q[e]) /\ \A i \in DOMAIN q[e] : Ep(q[e][i]) = e

OnceInv ==
  /\ QueueOK(queue)
  /\ DistinctX(reaped)
  /\ InFlight \cap Waiting = {}
  /\ InFlight \cap InCallback = {}
  /\ Waiting \cap InCallback = {}

SafeInv == TypeOK /\ PhaseInv /\ ThreadInv /\ DrainInv /\ OnceInv

\* The numbers on the wire, sent first, then those of the queue.
Number(i) == IF i = 0 THEN sent ELSE seq[queue["out"][i]]

FlowInv ==
  (fails = 0 /\ ~gone /\ main \notin {"drain", "release", "stopped"}) =>
    /\ main \in {"open", "refused", "start", "failed"} =>
         sent = 0 /\ outSeq = 1 /\ \A x \in Xfer : seq[x] = 0
    /\ \A i \in 0 .. Len(queue["out"]) - 1 : Follows(Number(i), Number(i + 1))
    /\ Follows(Number(Len(queue["out"])), outSeq)

IInv == SafeInv /\ FlowInv

---------------------------------------------------------------------------
(* Sequences without repetition. *)

\* The fields x of a sequence of completions.
Xs(s) == {s[i].x : i \in DOMAIN s}

LEMMA AppendDistinct ==
  ASSUME NEW S, NEW s \in Seq(S), NEW x \in S
  PROVE  /\ Append(s, x) \in Seq(S) /\ ToSet(Append(s, x)) = ToSet(s) \cup {x}
         /\ Distinct(s) /\ x \notin ToSet(s) => Distinct(Append(s, x))
<1>1. /\ Append(s, x) \in Seq(S) /\ Len(Append(s, x)) = Len(s) + 1 /\ Len(s) \in Nat
      /\ \A i \in 1 .. Len(s) : Append(s, x)[i] = s[i]
      /\ Append(s, x)[Len(s) + 1] = x
  OBVIOUS
<1>2. ToSet(Append(s, x)) \subseteq ToSet(s) \cup {x}
  BY <1>1 DEF ToSet
<1>3. ToSet(s) \subseteq ToSet(Append(s, x))
  BY <1>1 DEF ToSet
<1>4. x \in ToSet(Append(s, x))
  BY <1>1 DEF ToSet
<1>5. Distinct(s) /\ x \notin ToSet(s) => Distinct(Append(s, x))
  BY <1>1 DEF ToSet, Distinct
<1> QED  BY <1>1, <1>2, <1>3, <1>4, <1>5

LEMMA AppendDistinctX ==
  ASSUME NEW S, NEW s \in Seq(S), NEW r \in S
  PROVE  /\ Append(s, r) \in Seq(S) /\ Xs(Append(s, r)) = Xs(s) \cup {r.x}
         /\ DistinctX(s) /\ r.x \notin Xs(s) => DistinctX(Append(s, r))
<1>1. /\ Append(s, r) \in Seq(S) /\ Len(Append(s, r)) = Len(s) + 1 /\ Len(s) \in Nat
      /\ \A i \in 1 .. Len(s) : Append(s, r)[i] = s[i]
      /\ Append(s, r)[Len(s) + 1] = r
  OBVIOUS
<1>2. Xs(Append(s, r)) \subseteq Xs(s) \cup {r.x}
  BY <1>1 DEF Xs
<1>3. Xs(s) \subseteq Xs(Append(s, r))
  BY <1>1 DEF Xs
<1>4. r.x \in Xs(Append(s, r))
  BY <1>1 DEF Xs
<1>5. DistinctX(s) /\ r.x \notin Xs(s) => DistinctX(Append(s, r))
  BY <1>1 DEF Xs, DistinctX
<1> QED  BY <1>1, <1>2, <1>3, <1>4, <1>5

LEMMA TailDistinct ==
  ASSUME NEW S, NEW s \in Seq(S), s # <<>>
  PROVE  /\ Tail(s) \in Seq(S) /\ Head(s) \in S /\ Head(s) \in ToSet(s)
         /\ ToSet(s) = ToSet(Tail(s)) \cup {Head(s)}
         /\ Distinct(s) => Distinct(Tail(s)) /\ Head(s) \notin ToSet(Tail(s))
<1>1. Len(s) \in Nat \ {0} /\ Head(s) = s[1] /\ Len(Tail(s)) = Len(s) - 1
      /\ Tail(s) \in Seq(S) /\ \A i \in 1 .. Len(s) - 1 : Tail(s)[i] = s[i + 1]
      /\ DOMAIN Tail(s) = 1 .. Len(s) - 1 /\ DOMAIN s = 1 .. Len(s)
  OBVIOUS
<1>2. ToSet(Tail(s)) \cup {Head(s)} \subseteq ToSet(s)
  BY <1>1 DEF ToSet
<1>3. ASSUME NEW i \in 1 .. Len(s), i # 1
      PROVE  s[i] \in ToSet(Tail(s))
  <2>1. i - 1 \in 1 .. Len(s) - 1 /\ Tail(s)[i - 1] = s[i]
    BY <1>1, <1>3
  <2> QED  BY <2>1, <1>1 DEF ToSet
<1>4. ToSet(s) \subseteq ToSet(Tail(s)) \cup {Head(s)}
  BY <1>1, <1>3 DEF ToSet
<1>5. Distinct(s) => Distinct(Tail(s)) /\ Head(s) \notin ToSet(Tail(s))
  BY <1>1 DEF ToSet, Distinct
<1> QED  BY <1>1, <1>2, <1>4, <1>5

LEMMA TailDistinctX ==
  ASSUME NEW S, NEW s \in Seq(S), s # <<>>
  PROVE  /\ Tail(s) \in Seq(S) /\ Head(s) \in S /\ Head(s).x \in Xs(s)
         /\ Xs(s) = Xs(Tail(s)) \cup {Head(s).x}
         /\ DistinctX(s) => DistinctX(Tail(s)) /\ Head(s).x \notin Xs(Tail(s))
<1>1. Len(s) \in Nat \ {0} /\ Head(s) = s[1] /\ Len(Tail(s)) = Len(s) - 1
      /\ Tail(s) \in Seq(S) /\ \A i \in 1 .. Len(s) - 1 : Tail(s)[i] = s[i + 1]
      /\ DOMAIN Tail(s) = 1 .. Len(s) - 1 /\ DOMAIN s = 1 .. Len(s)
  OBVIOUS
<1>2. Xs(Tail(s)) \cup {Head(s).x} \subseteq Xs(s)
  BY <1>1 DEF Xs
<1>3. ASSUME NEW i \in 1 .. Len(s), i # 1
      PROVE  s[i].x \in Xs(Tail(s))
  <2>1. i - 1 \in 1 .. Len(s) - 1 /\ Tail(s)[i - 1] = s[i]
    BY <1>1, <1>3
  <2> QED  BY <2>1, <1>1 DEF Xs
<1>4. Xs(s) \subseteq Xs(Tail(s)) \cup {Head(s).x}
  <2> SUFFICES ASSUME NEW i \in 1 .. Len(s)
               PROVE  s[i].x \in Xs(Tail(s)) \cup {Head(s).x}
    BY <1>1 DEF Xs
  <2>1. CASE i = 1
    BY <1>1, <2>1
  <2>2. CASE i # 1
    BY <1>3, <2>2
  <2> QED  BY <2>1, <2>2
<1>5. DistinctX(s) => DistinctX(Tail(s)) /\ Head(s).x \notin Xs(Tail(s))
  BY <1>1 DEF Xs, DistinctX
<1> QED  BY <1>1, <1>2, <1>4, <1>5

LEMMA RemoveAtDistinct ==
  ASSUME NEW S, NEW s \in Seq(S), NEW i \in DOMAIN s, Distinct(s)
  PROVE  /\ RemoveAt(s, i) \in Seq(S) /\ Distinct(RemoveAt(s, i))
         /\ ToSet(RemoveAt(s, i)) = ToSet(s) \ {s[i]}
<1> DEFINE t == RemoveAt(s, i)
<1>1. i \in 1 .. Len(s) /\ Len(s) \in Nat
  OBVIOUS
<1>2. /\ SubSeq(s, 1, i - 1) \in Seq(S) /\ Len(SubSeq(s, 1, i - 1)) = i - 1
      /\ \A j \in 1 .. i - 1 : SubSeq(s, 1, i - 1)[j] = s[j]
  BY <1>1
<1>3. /\ SubSeq(s, i + 1, Len(s)) \in Seq(S) /\ Len(SubSeq(s, i + 1, Len(s))) = Len(s) - i
      /\ \A j \in 1 .. Len(s) - i : SubSeq(s, i + 1, Len(s))[j] = s[j + i]
  BY <1>1
<1>a. t \in Seq(S) /\ Len(t) = (i - 1) + (Len(s) - i)
  BY <1>1, <1>2, <1>3, ConcatProperties DEF RemoveAt
<1>b. ASSUME NEW j \in 1 .. Len(s) - 1
      PROVE  t[j] = IF j < i THEN s[j] ELSE s[j + 1]
  <2>1. CASE j < i
    BY <1>1, <1>2, <1>3, <2>1, ConcatProperties DEF RemoveAt
  <2>2. CASE j >= i
    <3> DEFINE u == SubSeq(s, 1, i - 1)
               v == SubSeq(s, i + 1, Len(s))
    <3>1. u \in Seq(S) /\ v \in Seq(S) /\ Len(u) = i - 1 /\ Len(v) = Len(s) - i
      BY <1>2, <1>3
    <3>2. i - 1 \in Nat /\ j \in 1 .. Len(u) + Len(v) /\ ~(j <= i - 1)
      BY <1>1, <2>2, <3>1
    <3>3. (u \o v)[j] = v[j - (i - 1)]
      <4> HIDE DEF u, v
      <4>1. \A k \in 1 .. Len(u) + Len(v) : (u \o v)[k] = IF k <= Len(u) THEN u[k] ELSE v[k - Len(u)]
        BY <3>1, ConcatProperties, Zenon
      <4> QED  BY <3>1, <3>2, <4>1, Zenon
    <3>4. j - (i - 1) \in 1 .. Len(s) - i /\ (j - (i - 1)) + i = j + 1
      BY <1>1, <2>2
    <3>5. v[j - (i - 1)] = s[j + 1]
      BY <1>3, <3>4
    <3>6. t[j] = s[j + 1]
      BY <3>3, <3>5, Zenon DEF RemoveAt
    <3> HIDE DEF t
    <3> QED  BY <2>2, <3>6, <1>1
  <2> QED  BY <1>1, <2>1, <2>2
<1>4. /\ t \in Seq(S) /\ Len(t) = Len(s) - 1
      /\ \A j \in 1 .. Len(s) - 1 : t[j] = IF j < i THEN s[j] ELSE s[j + 1]
  <2>1. (i - 1) + (Len(s) - i) = Len(s) - 1
    BY <1>1
  <2> HIDE DEF t
  <2> QED  BY <2>1, <1>a, <1>b
<1>5. Distinct(t)
  BY <1>1, <1>4 DEF Distinct
<1>6. ToSet(t) \subseteq ToSet(s) \ {s[i]}
  BY <1>1, <1>4 DEF ToSet, Distinct
<1>7. ASSUME NEW j \in 1 .. Len(s), j # i
      PROVE  s[j] \in ToSet(t)
  <2>1. CASE j < i
    BY <1>1, <1>4, <2>1 DEF ToSet
  <2>2. CASE j > i
    <3>1. j - 1 \in 1 .. Len(t) /\ t[j - 1] = s[j]
      BY <1>1, <1>4, <2>2
    <3> QED  BY <3>1, <1>4 DEF ToSet
  <2> QED  BY <1>1, <1>7, <2>1, <2>2
<1>8. ToSet(s) \ {s[i]} \subseteq ToSet(t)
  BY <1>1, <1>7 DEF ToSet
<1> QED  BY <1>4, <1>5, <1>6, <1>8

\* What an unplug gives back, after what was waiting already.
LEMMA ConcatDistinctX ==
  ASSUME NEW S, NEW s \in Seq(S), NEW t \in Seq(S)
  PROVE  /\ s \o t \in Seq(S) /\ Xs(s \o t) = Xs(s) \cup Xs(t)
         /\ DistinctX(s) /\ DistinctX(t) /\ Xs(s) \cap Xs(t) = {} => DistinctX(s \o t)
<1>1. /\ s \o t \in Seq(S) /\ Len(s \o t) = Len(s) + Len(t)
      /\ \A i \in 1 .. Len(s) + Len(t) : (s \o t)[i] = IF i =< Len(s) THEN s[i] ELSE t[i - Len(s)]
      /\ Len(s) \in Nat /\ Len(t) \in Nat
  OBVIOUS
<1>2. Xs(s \o t) \subseteq Xs(s) \cup Xs(t)
  BY <1>1 DEF Xs
<1>3. Xs(s) \subseteq Xs(s \o t)
  BY <1>1 DEF Xs
<1>4. ASSUME NEW i \in 1 .. Len(t)
      PROVE  t[i].x \in Xs(s \o t)
  <2>1. i + Len(s) \in 1 .. Len(s \o t) /\ (s \o t)[i + Len(s)] = t[i]
    BY <1>1
  <2> QED  BY <2>1, <1>1 DEF Xs
<1>5. ASSUME DistinctX(s), DistinctX(t), Xs(s) \cap Xs(t) = {}
      PROVE  DistinctX(s \o t)
  <2> SUFFICES ASSUME NEW i \in 1 .. Len(s) + Len(t), NEW j \in 1 .. Len(s) + Len(t),
                      (s \o t)[i].x = (s \o t)[j].x
               PROVE  i = j
    BY <1>1 DEF DistinctX
  <2>1. CASE i =< Len(s) /\ j =< Len(s)
    BY <1>1, <1>5, <2>1 DEF DistinctX
  <2>2. CASE i > Len(s) /\ j > Len(s)
    <3>1. i - Len(s) \in DOMAIN t /\ j - Len(s) \in DOMAIN t
      BY <1>1, <2>2
    <3> QED  BY <1>1, <1>5, <2>2, <3>1 DEF DistinctX
  <2>3. ASSUME NEW k \in DOMAIN s, NEW l \in DOMAIN t
        PROVE  s[k].x # t[l].x
    BY <1>5 DEF Xs
  <2>4. CASE i =< Len(s) /\ j > Len(s)
    <3>1. i \in DOMAIN s /\ j - Len(s) \in DOMAIN t
      BY <1>1, <2>4
    <3> QED  BY <1>1, <2>3, <2>4, <3>1
  <2>5. CASE i > Len(s) /\ j =< Len(s)
    <3>1. j \in DOMAIN s /\ i - Len(s) \in DOMAIN t
      BY <1>1, <2>5
    <3> QED  BY <1>1, <2>3, <2>5, <3>1
  <2> QED  BY <1>1, <2>1, <2>2, <2>4, <2>5
<1>6. Xs(t) \subseteq Xs(s \o t)
  BY <1>1, <1>4 DEF Xs
<1> QED  BY <1>1, <1>2, <1>3, <1>5, <1>6
---------------------------------------------------------------------------
(* The steps preserve SafeInv. *)

USE IsoAssumption, DrainAssumption
USE DEF mainVars, engineVars, hostVars, Main, Event, NoCallback

LEMMA WaitingIsXs == Waiting = Xs(reaped) /\ Waiting' = Xs(reaped')
BY DEF Waiting, Xs

LEMMA AdvancedType ==
  ASSUME NEW s \in 1 .. MaxSeq
  PROVE  Advanced(s) \in 1 .. MaxSeq
<1>1. s - 1 + PktsPerXfer \in Nat /\ MaxSeq \in Nat \ {0}
  OBVIOUS
<1>2. (s - 1 + PktsPerXfer) % MaxSeq \in 0 .. MaxSeq - 1
  BY <1>1
<1> QED  BY <1>2 DEF Advanced

\* What a submission may do to the queues.
LEMMA SubmitFacts ==
  ASSUME TypeOK, QueueOK(queue), NEW x \in Xfer, x \notin InFlight, Submit(x)
  PROVE  /\ queue' \in [{"out", "in"} -> Seq(Xfer)] /\ fails' \in 0 .. MaxFails
         /\ QueueOK(queue')
         /\ InFlight \subseteq InFlight' /\ InFlight' \subseteq InFlight \cup {x}
<1>1. fails' \in 0 .. MaxFails
  BY DEF TypeOK, Submit
<1>2. CASE queue' = queue
  BY <1>1, <1>2 DEF TypeOK, InFlight
<1>3. CASE queue' = [queue EXCEPT ![Ep(x)] = Append(@, x)]
  <2>1. Ep(x) \in {"out", "in"} /\ queue \in [{"out", "in"} -> Seq(Xfer)]
    BY DEF Ep, TypeOK
  <2>2. x \notin ToSet(queue[Ep(x)])
    BY <2>1 DEF InFlight
  <2>3. /\ Append(queue[Ep(x)], x) \in Seq(Xfer) /\ Distinct(Append(queue[Ep(x)], x))
        /\ ToSet(Append(queue[Ep(x)], x)) = ToSet(queue[Ep(x)]) \cup {x}
    BY <2>1, <2>2, AppendDistinct DEF QueueOK
  <2>4. queue' \in [{"out", "in"} -> Seq(Xfer)]
    BY <1>3, <2>1, <2>3
  <2>5. \A e \in {"out", "in"} : queue'[e] = IF e = Ep(x) THEN Append(queue[Ep(x)], x) ELSE queue[e]
    BY <1>3, <2>1
  <2>6. \A i \in DOMAIN Append(queue[Ep(x)], x) : Ep(Append(queue[Ep(x)], x)[i]) = Ep(x)
    BY <2>1 DEF QueueOK
  <2>7. QueueOK(queue')
    BY <2>3, <2>5, <2>6 DEF QueueOK
  <2>8. InFlight' = InFlight \cup {x}
    BY <2>1, <2>3, <2>5 DEF InFlight
  <2> QED  BY <1>1, <2>4, <2>7, <2>8
<1> QED  BY <1>2, <1>3 DEF Submit

\* A thread enters, goes on in, or leaves a callback.
LEMMA OneCallback ==
  ASSUME SafeInv, NEW t \in {Main, Event}, cb[t] # NoCallback
  PROVE  InCallback = {cb[t].x} /\ cb[t].x \in Xfer
BY DEF SafeInv, TypeOK, ThreadInv, InCallback

LEMMA NoneInCallback ==
  ASSUME SafeInv, cb[Main] = NoCallback, cb[Event] = NoCallback
  PROVE  InCallback = {}
BY DEF SafeInv, InCallback

LEMMA SafeInit == Init => SafeInv
<1> SUFFICES ASSUME Init
             PROVE  SafeInv
  OBVIOUS
<1>1. TypeOK
  <2>1. cb \in [{Main, Event} -> [pc : {"none", "enter", "submit"}, x : Xfer \cup {0},
                                  status : {"none", "completed", "cancelled", "no_device"}]]
    BY DEF Init
  <2>2. queue \in [{"out", "in"} -> Seq(Xfer)] /\ seq \in [Xfer -> 0 .. MaxSeq]
    BY DEF Init
  <2>3. reaped \in Seq([x : Xfer, status : {"completed", "cancelled", "no_device"}])
    BY DEF Init
  <2>4. /\ outSeq \in 1 .. MaxSeq /\ made \in 0 .. NOut + NIn /\ fails \in 0 .. MaxFails
        /\ sent \in 0 .. MaxSeq /\ clock \in 0 .. DrainTicks
    BY DEF Init
  <2>5. /\ running \in BOOLEAN /\ claimed \in BOOLEAN /\ gone \in BOOLEAN
        /\ live \subseteq Xfer /\ bufs \subseteq Xfer /\ cancelled \subseteq Xfer
        /\ main = "open" /\ thread = "none" /\ engine = "none"
    BY DEF Init
  <2> QED  BY <2>1, <2>2, <2>3, <2>4, <2>5 DEF TypeOK
<1>2. InFlight = {} /\ Waiting = {} /\ InCallback = {}
  BY DEF Init, InFlight, Waiting, InCallback, ToSet
<1>3. PhaseInv /\ ThreadInv /\ DrainInv
  BY <1>2 DEF Init, PhaseInv, ThreadInv, DrainInv
<1>4. OnceInv
  BY <1>2 DEF Init, OnceInv, QueueOK, Distinct, DistinctX
<1> QED  BY <1>1, <1>3, <1>4 DEF SafeInv

\* Steps of start, stop and the loop that move no transfer.
StillStep ==
  \/ StartOpen \/ StartRefused \/ StartThread \/ StartFails
  \/ Check \/ HandleReturns \/ StopSignal \/ StopJoin \/ StopFree \/ DrainTick

LEMMA SafeStill ==
  ASSUME SafeInv, StillStep
  PROVE  SafeInv'
<1>1. UNCHANGED <<queue, reaped, cb>>
  BY DEF StillStep, StartOpen, StartRefused, StartThread, StartFails, Check, HandleReturns,
         StopSignal, StopJoin, StopFree, DrainTick
<1>2. InFlight' = InFlight /\ Waiting' = Waiting /\ InCallback' = InCallback
  BY <1>1 DEF InFlight, Waiting, InCallback
<1>3. TypeOK'
  <2>1. UNCHANGED <<seq, made, fails, sent, outSeq>> /\ cancelled' = cancelled
    BY DEF StillStep, StartOpen, StartRefused, StartThread, StartFails, Check, HandleReturns,
           StopSignal, StopJoin, StopFree, DrainTick
  <2>2. /\ main' \in {"open", "refused", "start", "up", "failed", "join", "cancel", "drain", "release", "stopped"}
        /\ thread' \in {"none", "check", "handle", "exited"}
        /\ engine' \in {"none", "live", "freed"}
        /\ live' \subseteq Xfer /\ bufs' \subseteq Xfer
    BY DEF SafeInv, TypeOK, StillStep, StartOpen, StartRefused, StartThread, StartFails, Check,
           HandleReturns, StopSignal, StopJoin, StopFree, DrainTick
  <2>3. clock' \in 0 .. DrainTicks
    BY DEF SafeInv, TypeOK, StillStep, StartOpen, StartRefused, StartThread, StartFails, Check,
           HandleReturns, StopSignal, StopJoin, StopFree, DrainTick
  <2>4. running' \in {running, FALSE} /\ claimed' \in {claimed, TRUE} /\ gone' = gone
    BY DEF SafeInv, TypeOK, StillStep, StartOpen, StartRefused, StartThread, StartFails, Check,
           HandleReturns, StopSignal, StopJoin, StopFree, DrainTick
  <2>5. running' \in BOOLEAN /\ claimed' \in BOOLEAN /\ gone' \in BOOLEAN
    BY <2>4, Zenon DEF SafeInv, TypeOK
  <2> QED  BY <1>1, <2>1, <2>2, <2>3, <2>5 DEF SafeInv, TypeOK
<1>4. OnceInv'
  BY <1>1, <1>2 DEF SafeInv, OnceInv
<1>5. ThreadInv'
  BY <1>1 DEF SafeInv, ThreadInv, StillStep, StartOpen, StartRefused, StartThread, StartFails,
         Check, HandleReturns, StopSignal, StopJoin, StopFree, DrainTick
<1>6. DrainInv'
  BY <1>1, <1>2 DEF SafeInv, TypeOK, DrainInv, StillStep, StartOpen, StartRefused, StartThread,
         StartFails, Check, HandleReturns, StopSignal, StopJoin, StopFree, DrainTick
<1>7. StopFree => InFlight = {} /\ Waiting = {} /\ InCallback = {}
  BY NoneInCallback DEF StopFree, SafeInv, DrainInv, ThreadInv, Waiting
<1>8. PhaseInv'
  <2>1. Made' = Made
    BY DEF Made, StillStep, StartOpen, StartRefused, StartThread, StartFails, Check,
           HandleReturns, StopSignal, StopJoin, StopFree, DrainTick
  <2>2. CASE StartOpen
    BY <1>2, <2>1, <2>2 DEF SafeInv, PhaseInv, StartOpen, Made
  <2>3. CASE StopFree
    BY <1>2, <1>7, <2>1, <2>3 DEF SafeInv, PhaseInv, StopFree
  <2>4. CASE StillStep /\ ~StartOpen /\ ~StopFree
    BY <1>2, <2>1, <2>4 DEF SafeInv, PhaseInv, StillStep, StartRefused, StartThread, StartFails,
       Check, HandleReturns, StopSignal, StopJoin, DrainTick
  <2> QED  BY <2>2, <2>3, <2>4
<1> QED  BY <1>3, <1>4, <1>5, <1>6, <1>8 DEF SafeInv

LEMMA SafeStartXfer ==
  ASSUME SafeInv, StartXfer
  PROVE  SafeInv'
<1>1. made' = made + 1 /\ made' \in Xfer /\ made' \notin Made /\ Made' = Made \cup {made'}
  <2>1. made \in Nat /\ made + 1 \in Nat /\ made < NOut + NIn /\ made' = made + 1
    BY DEF SafeInv, TypeOK, StartXfer
  <2>2. 1 .. made + 1 = (1 .. made) \cup {made + 1}
    BY <2>1
  <2> QED  BY <2>1, <2>2 DEF Made, Xfer
<1>2. made' \notin InFlight \cup Waiting \cup InCallback
  BY <1>1 DEF SafeInv, PhaseInv
<1>3. /\ queue' \in [{"out", "in"} -> Seq(Xfer)] /\ fails' \in 0 .. MaxFails
      /\ QueueOK(queue')
      /\ InFlight \subseteq InFlight' /\ InFlight' \subseteq InFlight \cup {made'}
  BY <1>1, <1>2, SubmitFacts DEF SafeInv, OnceInv, StartXfer
<1>4. Waiting' = Waiting /\ InCallback' = InCallback
  BY DEF StartXfer, Waiting, InCallback
<1>5. TypeOK'
  BY <1>1, <1>3 DEF SafeInv, TypeOK, StartXfer, Xfer
<1>6. PhaseInv'
  BY <1>1, <1>3, <1>4 DEF SafeInv, PhaseInv, StartXfer
<1>7. ThreadInv' /\ DrainInv'
  BY DEF SafeInv, ThreadInv, DrainInv, StartXfer
<1>8. OnceInv'
  BY <1>2, <1>3, <1>4 DEF SafeInv, OnceInv, StartXfer
<1> QED  BY <1>5, <1>6, <1>7, <1>8 DEF SafeInv

LEMMA SafeHandle ==
  ASSUME SafeInv, NEW t \in {Main, Event}, Handle(t),
         t = Main => main = "drain", t = Event => thread = "handle"
  PROVE  SafeInv'
<1> DEFINE r == Head(reaped)
           R == [x : Xfer, status : {"completed", "cancelled", "no_device"}]
<1>1. reaped \in Seq(R) /\ reaped # <<>>
  BY DEF SafeInv, TypeOK, Handle
<1>2. /\ reaped' \in Seq(R) /\ r \in R /\ r.x \in Waiting /\ Waiting = Waiting' \cup {r.x}
      /\ DistinctX(reaped') /\ r.x \notin Waiting'
  <2>1. reaped' = Tail(reaped) /\ DistinctX(reaped)
    BY DEF SafeInv, OnceInv, Handle
  <2> HIDE DEF R
  <2> QED  BY <1>1, <2>1, TailDistinctX, WaitingIsXs
<1>3. r.x \in Xfer /\ r.status \in {"completed", "cancelled", "no_device"} /\ r.x # 0
  BY <1>2 DEF Xfer
<1>4. cb'[t] = [pc |-> "enter", x |-> r.x, status |-> r.status]
      /\ \A u \in {Main, Event} \ {t} : cb'[u] = cb[u]
  BY DEF Handle, SafeInv, TypeOK
<1>5. cb[Main] = NoCallback /\ cb[Event] = NoCallback
  BY DEF SafeInv, ThreadInv, Handle
<1>6. InCallback' = {r.x} /\ InCallback = {}
  BY <1>3, <1>4, <1>5, NoneInCallback DEF InCallback
<1>7. InFlight' = InFlight
  BY DEF Handle, InFlight
<1>8. TypeOK'
  BY <1>2, <1>3 DEF SafeInv, TypeOK, Handle
<1>9. main \notin {"release", "stopped"}
  BY <1>2 DEF SafeInv, PhaseInv
<1>10. PhaseInv'
  BY <1>2, <1>6, <1>7, <1>9 DEF SafeInv, PhaseInv, Handle, Made
<1>11. ThreadInv'
  BY <1>3, <1>4, <1>5 DEF SafeInv, ThreadInv, Handle
<1>12. DrainInv'
  BY <1>1, <1>7 DEF SafeInv, DrainInv, ThreadInv, Handle
<1>13. OnceInv'
  BY <1>2, <1>6, <1>7 DEF SafeInv, OnceInv, Handle
<1> QED  BY <1>8, <1>10, <1>11, <1>12, <1>13 DEF SafeInv

LEMMA SafeEnter ==
  ASSUME SafeInv, NEW t \in {Main, Event}, Enter(t)
  PROVE  SafeInv'
<1>1. cb[t] # NoCallback /\ cb[t].x \in Xfer /\ InCallback = {cb[t].x}
  BY OneCallback DEF Enter
<1>2. /\ cb'[t] \in {[cb[t] EXCEPT !.pc = "submit"], NoCallback}
      /\ \A u \in {Main, Event} \ {t} : cb'[u] = cb[u] /\ cb[u] = NoCallback
      /\ t = Main => cb'[t] = NoCallback
  BY <1>1 DEF SafeInv, TypeOK, ThreadInv, Enter
<1>3. cb[t] \in [pc : {"none", "enter", "submit"}, x : Xfer \cup {0},
                 status : {"none", "completed", "cancelled", "no_device"}]
  BY DEF SafeInv, TypeOK
<1>4. InFlight' = InFlight /\ Waiting' = Waiting /\ InCallback' \subseteq InCallback
  BY <1>1, <1>2, <1>3 DEF Enter, InFlight, Waiting, InCallback
<1>5. TypeOK'
  <2>1. cb'[t] \in [pc : {"none", "enter", "submit"}, x : Xfer \cup {0},
                    status : {"none", "completed", "cancelled", "no_device"}]
    BY <1>2, <1>3
  <2>2. cb' \in [{Main, Event} -> [pc : {"none", "enter", "submit"}, x : Xfer \cup {0},
                                   status : {"none", "completed", "cancelled", "no_device"}]]
    BY <2>1 DEF SafeInv, TypeOK, Enter
  <2> QED  BY <2>2 DEF SafeInv, TypeOK, Enter
<1>6. PhaseInv'
  BY <1>4 DEF SafeInv, PhaseInv, Made, Enter
<1>7. ThreadInv'
  BY <1>1, <1>2, <1>3 DEF SafeInv, ThreadInv, Enter, Xfer
<1>8. DrainInv'
  BY <1>2, <1>4 DEF SafeInv, DrainInv, Enter
<1>9. OnceInv'
  BY <1>4 DEF SafeInv, OnceInv, Enter
<1> QED  BY <1>5, <1>6, <1>7, <1>8, <1>9 DEF SafeInv
\* The event thread is in the callback, so main is not past the join.
LEMMA SafeResubmit ==
  ASSUME SafeInv, NEW t \in {Main, Event}, Resubmit(t)
  PROVE  SafeInv'
<1> DEFINE x == cb[t].x
<1>1. cb[t] # NoCallback /\ t = Event /\ x \in Xfer /\ InCallback = {x}
  BY OneCallback DEF Resubmit, SafeInv, ThreadInv
<1>2. main \notin {"drain", "release", "stopped", "cancel"} /\ cb[Main] = NoCallback
  BY <1>1 DEF SafeInv, ThreadInv
<1>3. x \notin InFlight /\ x \notin Waiting
  BY <1>1 DEF SafeInv, OnceInv
<1>4. /\ queue' \in [{"out", "in"} -> Seq(Xfer)] /\ fails' \in 0 .. MaxFails
      /\ QueueOK(queue')
      /\ InFlight \subseteq InFlight' /\ InFlight' \subseteq InFlight \cup {x}
  BY <1>1, <1>3, SubmitFacts DEF SafeInv, OnceInv, Resubmit
<1>5. cb' = [cb EXCEPT ![Event] = NoCallback] /\ cb'[Event] = NoCallback /\ cb'[Main] = NoCallback
  BY <1>1, <1>2 DEF Resubmit, SafeInv, TypeOK
<1>6. Waiting' = Waiting /\ InCallback' = {}
  BY <1>5 DEF Resubmit, Waiting, InCallback
<1>7. TypeOK'
  <2>1. seq' \in [Xfer -> 0 .. MaxSeq] /\ outSeq' \in 1 .. MaxSeq
    <3>1. /\ seq \in [Xfer -> 0 .. MaxSeq] /\ outSeq \in 1 .. MaxSeq /\ outSeq \in 0 .. MaxSeq
          /\ Advanced(outSeq) \in 1 .. MaxSeq
      BY AdvancedType DEF SafeInv, TypeOK
    <3>2. CASE Ep(x) = "out"
      BY <1>1, <3>1, <3>2 DEF Resubmit
    <3>3. CASE Ep(x) # "out"
      BY <3>1, <3>3 DEF Resubmit
    <3> QED  BY <3>2, <3>3
  <2>2. cb' \in [{Main, Event} -> [pc : {"none", "enter", "submit"}, x : Xfer \cup {0},
                                   status : {"none", "completed", "cancelled", "no_device"}]]
    BY <1>5 DEF SafeInv, TypeOK
  <2> QED  BY <1>4, <2>1, <2>2 DEF SafeInv, TypeOK, Resubmit
<1>8. PhaseInv'
  BY <1>1, <1>2, <1>4, <1>6 DEF SafeInv, PhaseInv, Made, Resubmit
<1>9. ThreadInv' /\ DrainInv'
  BY <1>1, <1>2, <1>5 DEF SafeInv, ThreadInv, DrainInv, Resubmit
<1>10. OnceInv'
  BY <1>3, <1>4, <1>6 DEF SafeInv, OnceInv, Resubmit
<1> QED  BY <1>7, <1>8, <1>9, <1>10 DEF SafeInv

LEMMA SafeStopCancel ==
  ASSUME SafeInv, StopCancel
  PROVE  SafeInv'
<1>1. /\ InFlight' = InFlight /\ Waiting' = Waiting /\ InCallback' = InCallback
      /\ cancelled' = InFlight
  BY DEF SafeInv, PhaseInv, StopCancel, InFlight, Waiting, InCallback
<1>2. TypeOK'
  BY DEF SafeInv, TypeOK, StopCancel
<1>3. PhaseInv' /\ ThreadInv' /\ OnceInv'
  BY <1>1 DEF SafeInv, PhaseInv, Made, ThreadInv, OnceInv, StopCancel
<1>4. DrainInv'
  BY <1>1 DEF SafeInv, DrainInv, StopCancel
<1> QED  BY <1>2, <1>3, <1>4 DEF SafeInv

LEMMA SafeStopRelease ==
  ASSUME SafeInv, StopRelease
  PROVE  SafeInv'
<1>1. queue' = [e \in {"out", "in"} |-> <<>>] /\ reaped' = <<>> /\ cancelled' = {}
  BY DEF StopRelease
<1>2. InFlight' = {} /\ Waiting' = {} /\ InCallback' = {}
  BY <1>1 DEF SafeInv, PhaseInv, StopRelease, InFlight, Waiting, InCallback, ToSet
<1>3. TypeOK'
  <2>1. queue' \in [{"out", "in"} -> Seq(Xfer)]
        /\ reaped' \in Seq([x : Xfer, status : {"completed", "cancelled", "no_device"}])
    BY <1>1
  <2> QED  BY <1>1, <2>1 DEF SafeInv, TypeOK, StopRelease
<1>4. PhaseInv' /\ ThreadInv' /\ DrainInv'
  BY <1>2 DEF SafeInv, PhaseInv, ThreadInv, DrainInv, StopRelease
<1>5. OnceInv'
  BY <1>1, <1>2 DEF OnceInv, QueueOK, Distinct, DistinctX
<1> QED  BY <1>3, <1>4, <1>5 DEF SafeInv

LEMMA SafeComplete ==
  ASSUME SafeInv, NEW e \in {"out", "in"}, Complete(e)
  PROVE  SafeInv'
<1> DEFINE x == Head(queue[e])
           R == [x : Xfer, status : {"completed", "cancelled", "no_device"}]
<1>1. queue \in [{"out", "in"} -> Seq(Xfer)] /\ queue[e] \in Seq(Xfer) /\ queue[e] # <<>>
  BY DEF SafeInv, TypeOK, Complete
<1>2. /\ Tail(queue[e]) \in Seq(Xfer) /\ x \in Xfer /\ x \in ToSet(queue[e])
      /\ ToSet(queue[e]) = ToSet(Tail(queue[e])) \cup {x}
      /\ Distinct(Tail(queue[e])) /\ x \notin ToSet(Tail(queue[e]))
  BY <1>1, TailDistinct DEF SafeInv, OnceInv, QueueOK
<1>3. \A f \in {"out", "in"} : queue'[f] = IF f = e THEN Tail(queue[e]) ELSE queue[f]
  BY <1>1 DEF Complete
<1>4. Ep(x) = e
  BY <1>1, <1>2 DEF SafeInv, OnceInv, QueueOK
<1>5. \A f \in {"out", "in"} : f # e => x \notin ToSet(queue[f])
  BY <1>1, <1>4 DEF SafeInv, OnceInv, QueueOK, ToSet
<1>6. x \in InFlight /\ InFlight' = InFlight \ {x}
  BY <1>2, <1>3, <1>5 DEF InFlight
<1>7. x \notin Waiting /\ x \notin InCallback /\ x \notin cancelled
  BY <1>6 DEF SafeInv, OnceInv, Complete
<1>8. reaped' \in Seq(R) /\ Waiting' = Waiting \cup {x} /\ DistinctX(reaped')
  <2> DEFINE r == [x |-> x, status |-> "completed"]
  <2>1. r \in R /\ r.x = x /\ reaped \in Seq(R) /\ DistinctX(reaped) /\ reaped' = Append(reaped, r)
    BY <1>2 DEF SafeInv, TypeOK, OnceInv, Complete
  <2> HIDE DEF R, r
  <2> QED  BY <1>7, <2>1, AppendDistinctX, WaitingIsXs
<1>9. InCallback' = InCallback
  BY DEF Complete, InCallback
<1>10. main \notin {"drain", "release", "stopped"}
  BY <1>6, <1>7 DEF SafeInv, DrainInv, PhaseInv
<1>11. TypeOK'
  <2>1. queue' \in [{"out", "in"} -> Seq(Xfer)]
    BY <1>1, <1>2 DEF Complete
  <2>2. sent' \in 0 .. MaxSeq
    BY <1>2 DEF SafeInv, TypeOK, Complete
  <2> QED  BY <1>8, <2>1, <2>2 DEF SafeInv, TypeOK, Complete
<1>12. PhaseInv'
  BY <1>6, <1>8, <1>9, <1>10 DEF SafeInv, PhaseInv, Made, Complete
<1>13. ThreadInv' /\ DrainInv'
  BY <1>10 DEF SafeInv, ThreadInv, DrainInv, Complete
<1>14. QueueOK(queue')
  <2>1. \A i \in DOMAIN Tail(queue[e]) : Tail(queue[e])[i] = queue[e][i + 1] /\ i + 1 \in DOMAIN queue[e]
    BY <1>1
  <2>2. \A i \in DOMAIN Tail(queue[e]) : Ep(Tail(queue[e])[i]) = e
    BY <2>1 DEF SafeInv, OnceInv, QueueOK
  <2> QED  BY <1>2, <1>3, <2>2 DEF SafeInv, OnceInv, QueueOK
<1>15. OnceInv'
  BY <1>6, <1>7, <1>8, <1>9, <1>14 DEF SafeInv, OnceInv
<1> QED  BY <1>11, <1>12, <1>13, <1>15 DEF SafeInv

LEMMA SafeGiveBack ==
  ASSUME SafeInv, NEW x \in Xfer, GiveBack(x)
  PROVE  SafeInv'
<1> DEFINE e == Ep(x)
           R == [x : Xfer, status : {"completed", "cancelled", "no_device"}]
<1>1. e \in {"out", "in"} /\ queue \in [{"out", "in"} -> Seq(Xfer)] /\ queue[e] \in Seq(Xfer)
  BY DEF SafeInv, TypeOK, Ep
<1>2. PICK i \in DOMAIN queue[e] : queue[e][i] = x /\ queue' = [queue EXCEPT ![e] = RemoveAt(@, i)]
  BY DEF GiveBack
<1>3. /\ RemoveAt(queue[e], i) \in Seq(Xfer) /\ Distinct(RemoveAt(queue[e], i))
      /\ ToSet(RemoveAt(queue[e], i)) = ToSet(queue[e]) \ {x}
  BY <1>1, <1>2, RemoveAtDistinct DEF SafeInv, OnceInv, QueueOK
<1>4. \A f \in {"out", "in"} : queue'[f] = IF f = e THEN RemoveAt(queue[e], i) ELSE queue[f]
  BY <1>1, <1>2
<1>5. \A f \in {"out", "in"} : f # e => x \notin ToSet(queue[f])
  BY <1>1 DEF SafeInv, OnceInv, QueueOK, ToSet
<1>6. x \in InFlight /\ InFlight' = InFlight \ {x}
  <2>1. x \in ToSet(queue[e])
    BY <1>2 DEF ToSet
  <2> HIDE DEF e
  <2> QED  BY <1>1, <1>3, <1>4, <1>5, <2>1 DEF InFlight
<1>7. x \notin Waiting /\ x \notin InCallback /\ x \in cancelled /\ cancelled' = cancelled \ {x}
  BY <1>6 DEF SafeInv, OnceInv, GiveBack
<1>8. reaped' \in Seq(R) /\ Waiting' = Waiting \cup {x} /\ DistinctX(reaped')
  <2> DEFINE r == [x |-> x, status |-> "cancelled"]
  <2>1. r \in R /\ r.x = x /\ reaped \in Seq(R) /\ DistinctX(reaped) /\ reaped' = Append(reaped, r)
    BY DEF SafeInv, TypeOK, OnceInv, GiveBack
  <2> HIDE DEF R, r
  <2> QED  BY <1>7, <2>1, AppendDistinctX, WaitingIsXs
<1>9. InCallback' = InCallback
  BY DEF GiveBack, InCallback
<1>10. main = "drain" /\ ~(clock > CancelTicks)
  BY <1>7 DEF SafeInv, DrainInv
<1>11. TypeOK'
  <2>1. queue' \in [{"out", "in"} -> Seq(Xfer)]
    BY <1>1, <1>2, <1>3
  <2> QED  BY <1>8, <2>1 DEF SafeInv, TypeOK, GiveBack
<1>12. PhaseInv'
  BY <1>6, <1>8, <1>9, <1>10 DEF SafeInv, PhaseInv, Made, GiveBack
<1>13. ThreadInv' /\ DrainInv'
  BY <1>6, <1>7, <1>10 DEF SafeInv, ThreadInv, DrainInv, GiveBack
<1>14. QueueOK(queue')
  <2>1. \A y \in ToSet(queue[e]) : Ep(y) = e
    BY <1>1 DEF SafeInv, OnceInv, QueueOK, ToSet
  <2>2. \A j \in DOMAIN RemoveAt(queue[e], i) : RemoveAt(queue[e], i)[j] \in ToSet(RemoveAt(queue[e], i))
    BY DEF ToSet
  <2>3. \A j \in DOMAIN RemoveAt(queue[e], i) : Ep(RemoveAt(queue[e], i)[j]) = e
    BY <1>3, <2>1, <2>2
  <2> HIDE DEF e
  <2> QED  BY <1>1, <1>3, <1>4, <2>3 DEF SafeInv, OnceInv, QueueOK
<1>15. OnceInv'
  BY <1>6, <1>7, <1>8, <1>9, <1>14 DEF SafeInv, OnceInv
<1> QED  BY <1>11, <1>12, <1>13, <1>15 DEF SafeInv

LEMMA SafeUnplug ==
  ASSUME SafeInv, Unplug
  PROVE  SafeInv'
<1> DEFINE R == [x : Xfer, status : {"completed", "cancelled", "no_device"}]
           q == queue["out"]
           p == queue["in"]
           flight == q \o p
           back == [i \in 1 .. Len(flight) |-> [x |-> flight[i], status |-> "no_device"]]
<1>1. /\ q \in Seq(Xfer) /\ p \in Seq(Xfer) /\ Distinct(q) /\ Distinct(p)
      /\ InFlight = ToSet(q) \cup ToSet(p)
  BY DEF SafeInv, TypeOK, OnceInv, QueueOK, InFlight
<1>2. \A i \in DOMAIN q : \A j \in DOMAIN p : q[i] # p[j]
  BY DEF SafeInv, OnceInv, QueueOK
<1>3. reaped' = reaped \o back /\ reaped \in Seq(R) /\ DistinctX(reaped)
  BY DEF Unplug, SafeInv, TypeOK, OnceInv
<1>4. back \in Seq(R) /\ Xs(back) = InFlight /\ DistinctX(back)
  <2> HIDE DEF q, p
  <2>1. /\ flight \in Seq(Xfer) /\ Len(flight) = Len(q) + Len(p) /\ Len(q) \in Nat /\ Len(p) \in Nat
        /\ \A i \in 1 .. Len(q) + Len(p) : flight[i] = IF i <= Len(q) THEN q[i] ELSE p[i - Len(q)]
    BY <1>1, ConcatProperties
  <2>2. \A i \in 1 .. Len(flight) : flight[i] \in InFlight /\ flight[i] \in Xfer
    BY <1>1, <2>1 DEF ToSet
  <2>3. \A i \in 1 .. Len(p) : i + Len(q) \in 1 .. Len(flight) /\ flight[i + Len(q)] = p[i]
    BY <1>1, <2>1
  <2>4. \A i \in 1 .. Len(q) : i \in 1 .. Len(flight) /\ flight[i] = q[i]
    BY <1>1, <2>1
  <2>5. \A y \in InFlight : \E i \in 1 .. Len(flight) : flight[i] = y
    <3>1. ASSUME NEW y \in ToSet(q)  PROVE  \E i \in 1 .. Len(flight) : flight[i] = y
      BY <1>1, <2>4 DEF ToSet
    <3>2. ASSUME NEW y \in ToSet(p)  PROVE  \E i \in 1 .. Len(flight) : flight[i] = y
      <4>1. PICK k \in 1 .. Len(p) : p[k] = y
        BY <1>1, <3>2 DEF ToSet
      <4> QED  BY <2>3, <4>1
    <3> QED  BY <1>1, <3>1, <3>2
  <2>6. ASSUME NEW i \in 1 .. Len(flight), NEW j \in 1 .. Len(flight), flight[i] = flight[j]
        PROVE  i = j
    <3>1. CASE i <= Len(q) /\ j <= Len(q)
      BY <1>1, <2>1, <2>6, <3>1 DEF Distinct
    <3>2. CASE i > Len(q) /\ j > Len(q)
      <4>1. i - Len(q) \in DOMAIN p /\ j - Len(q) \in DOMAIN p
        BY <1>1, <2>1, <3>2
      <4>2. p[i - Len(q)] = p[j - Len(q)]
        BY <2>1, <2>6, <3>2
      <4>3. i - Len(q) = j - Len(q)
        BY <1>1, <4>1, <4>2, Zenon DEF Distinct
      <4> QED  BY <2>1, <4>3
    <3>3. CASE i <= Len(q) /\ j > Len(q)
      <4>1. i \in DOMAIN q /\ j - Len(q) \in DOMAIN p
        BY <1>1, <2>1, <3>3
      <4> QED  BY <1>2, <2>1, <2>6, <3>3, <4>1
    <3>4. CASE i > Len(q) /\ j <= Len(q)
      <4>1. j \in DOMAIN q /\ i - Len(q) \in DOMAIN p
        BY <1>1, <2>1, <3>4
      <4> QED  BY <1>2, <2>1, <2>6, <3>4, <4>1
    <3> QED  BY <2>1, <3>1, <3>2, <3>3, <3>4
  <2>7. Len(flight) \in Nat
    BY <2>1
  <2> HIDE DEF flight
  <2>8. back \in Seq(R)
    BY <2>2, <2>7
  <2>9. DOMAIN back = 1 .. Len(flight) /\ \A i \in 1 .. Len(flight) : back[i].x = flight[i]
    OBVIOUS
  <2> HIDE DEF back
  <2> QED  BY <2>2, <2>5, <2>6, <2>8, <2>9 DEF Xs, DistinctX
<1>5. reaped' \in Seq(R) /\ Waiting' = Waiting \cup InFlight /\ DistinctX(reaped')
  <2>1. Xs(reaped) \cap InFlight = {}
    BY WaitingIsXs DEF SafeInv, OnceInv
  <2> HIDE DEF R, back
  <2> QED  BY <1>3, <1>4, <2>1, ConcatDistinctX, WaitingIsXs
<1>6. queue' = [e \in {"out", "in"} |-> <<>>] /\ InFlight' = {} /\ InCallback' = InCallback
  BY DEF Unplug, InFlight, InCallback, ToSet
<1>7. TypeOK'
  <2>1. queue' \in [{"out", "in"} -> Seq(Xfer)]
    BY <1>6
  <2> QED  BY <1>5, <2>1 DEF SafeInv, TypeOK, Unplug
<1>8. PhaseInv' /\ ThreadInv'
  BY <1>5, <1>6 DEF SafeInv, PhaseInv, ThreadInv, Made, Unplug
<1>9. DrainInv'
  <2>1. SUFFICES ASSUME main = "drain", clock > CancelTicks
                 PROVE  reaped' = <<>> /\ cb'[Main] = NoCallback
    BY <1>6 DEF SafeInv, DrainInv, Unplug
  <2>2. reaped = <<>> /\ InFlight = {} /\ cb'[Main] = NoCallback
    BY <2>1 DEF SafeInv, DrainInv, Unplug
  <2>3. Waiting' = {} /\ reaped' \in Seq(R)
    <3>1. Waiting = {}
      BY <2>2 DEF Waiting
    <3> QED  BY <1>5, <2>2, <3>1
  <2>4. reaped' = <<>>
    <3> HIDE DEF R
    <3>1. \A i \in DOMAIN reaped' : FALSE
      BY <2>3 DEF Waiting
    <3> QED  BY <2>3, <3>1
  <2> QED  BY <2>2, <2>4
<1>10. OnceInv'
  <2>1. QueueOK(queue')
    BY <1>6 DEF QueueOK, Distinct
  <2> QED  BY <1>5, <1>6, <2>1 DEF SafeInv, OnceInv
<1> QED  BY <1>7, <1>8, <1>9, <1>10 DEF SafeInv

LEMMA SafeStep == SafeInv /\ [Next]_vars => SafeInv'
<1> SUFFICES ASSUME SafeInv, [Next]_vars
             PROVE  SafeInv'
  OBVIOUS
<1>1. CASE StillStep
  BY <1>1, SafeStill
<1>2. CASE StartXfer
  BY <1>2, SafeStartXfer
<1>3. CASE EventHandle \/ StopDrain
  BY <1>3, SafeHandle DEF EventHandle, StopDrain
<1>4. ASSUME NEW t \in {Main, Event}, Enter(t) \/ Resubmit(t)
      PROVE  SafeInv'
  BY <1>4, SafeEnter, SafeResubmit
<1>5. CASE StopCancel
  BY <1>5, SafeStopCancel
<1>6. CASE StopRelease
  BY <1>6, SafeStopRelease
<1>7. CASE Host
  BY <1>7, SafeComplete, SafeGiveBack, SafeUnplug DEF Host
<1>8. CASE UNCHANGED vars
  <2>1. InFlight' = InFlight /\ Waiting' = Waiting /\ InCallback' = InCallback /\ Made' = Made
    BY <1>8 DEF vars, InFlight, Waiting, InCallback, Made
  <2>2. TypeOK'
    BY <1>8 DEF SafeInv, TypeOK, vars
  <2>3. PhaseInv' /\ ThreadInv' /\ DrainInv' /\ OnceInv'
    BY <1>8, <2>1 DEF SafeInv, PhaseInv, ThreadInv, DrainInv, OnceInv, vars
  <2> QED  BY <2>2, <2>3 DEF SafeInv
<1> QED  BY <1>1, <1>2, <1>3, <1>4, <1>5, <1>6, <1>7, <1>8 DEF Next, StillStep

LEMMA SafeAlways == Spec => []SafeInv
BY SafeInit, SafeStep, PTL DEF Spec

\* The types, for any number of transfers; the sequence number stays in its range.
THEOREM TypeCorrect == Spec => []TypeOK
<1>1. SafeInv => TypeOK
  BY DEF SafeInv
<1> QED  BY <1>1, SafeAlways, PTL

\* No transfer is freed while libusb or a callback holds it, nor its buffer but by
\* a start that fails half way, and a callback always finds its buffer and its
\* engine (stop's drain, iso.rs).
THEOREM NothingFreedUnderfoot == Spec => []NotFreedUnderfoot
<1>1. SafeInv => NotFreedUnderfoot
  <2> SUFFICES ASSUME SafeInv
               PROVE  NotFreedUnderfoot
    OBVIOUS
  <2>1. CASE main \in {"open", "refused"}
    BY <2>1 DEF SafeInv, PhaseInv, NotFreedUnderfoot, Made
  <2>2. CASE main \in {"start", "up", "join", "cancel", "drain"}
    BY <2>2 DEF SafeInv, PhaseInv, NotFreedUnderfoot
  <2>3. CASE main \in {"release", "stopped"}
    BY <2>3 DEF SafeInv, PhaseInv, NotFreedUnderfoot
  <2>4. CASE main = "failed"
    <3>1. InCallback = {}
      BY <2>4, NoneInCallback DEF SafeInv, ThreadInv
    <3> QED  BY <2>4, <3>1 DEF SafeInv, PhaseInv, NotFreedUnderfoot
  <2> QED  BY <2>1, <2>2, <2>3, <2>4 DEF SafeInv, TypeOK
<1> QED  BY <1>1, SafeAlways, PTL

\* The main thread runs callbacks only after the event thread has ended.
THEOREM EngineIsNotShared == Spec => []EngineNotShared
<1>1. SafeInv => EngineNotShared
  BY DEF SafeInv, ThreadInv, EngineNotShared
<1> QED  BY <1>1, SafeAlways, PTL
---------------------------------------------------------------------------
(* A transfer in one place. *)

LEMMA AtMostOne ==
  ASSUME NEW A, \A a, b \in A : a = b
  PROVE  Cardinality(A) \in {0, 1} /\ (A = {} => Cardinality(A) = 0)
<1>1. CASE A = {}
  BY <1>1, FS_EmptySet
<1>2. CASE A # {}
  <2>1. PICK a : A = {a}
    BY <1>2
  <2> QED  BY <2>1, <1>2, FS_Singleton
<1> QED  BY <1>1, <1>2

\* A transfer is in one place at a time: in flight, waiting for its callback, or
\* in it, and a callback belongs to one thread.
THEOREM TransfersInOnePlace == Spec => []InOnePlace
<1>1. SafeInv => InOnePlace
  <2> SUFFICES ASSUME SafeInv, NEW x \in Xfer
               PROVE  Cardinality({i \in DOMAIN queue[Ep(x)] : queue[Ep(x)][i] = x})
                        + Cardinality({i \in DOMAIN reaped : reaped[i].x = x})
                        + Cardinality({t \in {Main, Event} : cb[t].x = x}) =< 1
    BY DEF InOnePlace
  <2> DEFINE A == {i \in DOMAIN queue[Ep(x)] : queue[Ep(x)][i] = x}
             B == {i \in DOMAIN reaped : reaped[i].x = x}
             C == {t \in {Main, Event} : cb[t].x = x}
  <2>1. Ep(x) \in {"out", "in"} /\ x # 0
    BY DEF Ep, Xfer
  <2>2. \A i, j \in A : i = j
    BY <2>1 DEF SafeInv, OnceInv, QueueOK, Distinct
  <2>3. \A i, j \in B : i = j
    BY DEF SafeInv, OnceInv, DistinctX
  <2>4. \A t, u \in C : t = u
    BY <2>1 DEF SafeInv, ThreadInv
  <2>5. A # {} => x \in InFlight
    BY <2>1 DEF InFlight, ToSet
  <2>6. B # {} => x \in Waiting
    BY DEF Waiting
  <2>7. C # {} => x \in InCallback
    BY <2>1 DEF InCallback
  <2>8. ~(A # {} /\ B # {}) /\ ~(A # {} /\ C # {}) /\ ~(B # {} /\ C # {})
    BY <2>5, <2>6, <2>7 DEF SafeInv, OnceInv
  <2> HIDE DEF A, B, C
  <2>9. /\ Cardinality(A) \in {0, 1} /\ (A = {} => Cardinality(A) = 0)
        /\ Cardinality(B) \in {0, 1} /\ (B = {} => Cardinality(B) = 0)
        /\ Cardinality(C) \in {0, 1} /\ (C = {} => Cardinality(C) = 0)
    BY <2>2, <2>3, <2>4, AtMostOne
  <2>10. Cardinality(A) + Cardinality(B) + Cardinality(C) =< 1
    BY <2>8, <2>9
  <2> QED  BY <2>10 DEF A, B, C
<1> QED  BY <1>1, SafeAlways, PTL

---------------------------------------------------------------------------
(* The wire in order. *)

LEMMA DivMod ==
  ASSUME NEW a \in Int, NEW m \in Nat \ {0}
  PROVE  a % m \in 0 .. m - 1 /\ a \div m \in Int /\ a = m * (a \div m) + (a % m)
OBVIOUS

LEMMA DivModUnique ==
  ASSUME NEW m \in Nat \ {0}, NEW q \in Int, NEW p \in Int,
         NEW r \in 0 .. m - 1, NEW t \in 0 .. m - 1, m * q + r = m * p + t
  PROVE  r = t
<1>1. CASE q > p
  <2>1. m * (q - p) >= m
    BY <1>1
  <2>2. m * (q - p) = m * q - m * p
    OBVIOUS
  <2> QED  BY <2>1, <2>2
<1>2. CASE q < p
  <2>1. m * (p - q) >= m
    BY <1>2
  <2>2. m * (p - q) = m * p - m * q
    OBVIOUS
  <2> QED  BY <2>1, <2>2
<1> QED  BY <1>1, <1>2

LEMMA ModPlusMultiple ==
  ASSUME NEW a \in Int, NEW b \in Int, NEW k \in Int, NEW m \in Nat \ {0}, b = a + m * k
  PROVE  b % m = a % m
<1>1. /\ a % m \in 0 .. m - 1 /\ a \div m \in Int /\ a = m * (a \div m) + (a % m)
      /\ b % m \in 0 .. m - 1 /\ b \div m \in Int /\ b = m * (b \div m) + (b % m)
  BY DivMod
<1>2. ASSUME NEW q \in Int, a = m * q + (a % m)
      PROVE  m * (q + k) + (a % m) = b
  <2>1. m * (q + k) = m * q + m * k
    OBVIOUS
  <2> QED  BY <1>1, <1>2, <2>1
<1>3. (a \div m) + k \in Int /\ m * ((a \div m) + k) + (a % m) = m * (b \div m) + (b % m)
  BY <1>1, <1>2
<1> QED  BY <1>1, <1>3, DivModUnique

\* out_seq after a transfer is the first number of the next one.
LEMMA FollowsAdvanced ==
  ASSUME NEW s \in 1 .. MaxSeq
  PROVE  Follows(s, Advanced(s))
<1> DEFINE a == s - 1 + PktsPerXfer
           q == a \div MaxSeq
<1>1. a \in Int /\ MaxSeq \in Nat \ {0} /\ PktsPerXfer \in Int
  OBVIOUS
<1>2. q \in Int /\ a % MaxSeq \in 0 .. MaxSeq - 1 /\ a = MaxSeq * q + (a % MaxSeq)
  BY <1>1, DivMod
<1>3. Advanced(s) = (a % MaxSeq) + 1 /\ Advanced(s) \in 1 .. MaxSeq
  BY AdvancedType DEF Advanced
<1>4. MaxSeq * (1 - q) = MaxSeq - MaxSeq * q
  BY <1>1, <1>2
<1>5. a = s - 1 + PktsPerXfer
  OBVIOUS
<1> HIDE DEF a, q
<1>6. Advanced(s) + MaxSeq - s = PktsPerXfer + MaxSeq * (1 - q)
  BY <1>1, <1>2, <1>3, <1>4, <1>5
<1>7. (Advanced(s) + MaxSeq - s) % MaxSeq = PktsPerXfer % MaxSeq
  <2>1. Advanced(s) + MaxSeq - s \in Int /\ 1 - q \in Int
    BY <1>2, <1>3
  <2> QED  BY <1>1, <1>6, <2>1, ModPlusMultiple
<1> QED  BY <1>3, <1>7 DEF Follows

\* FlowInv is about a wire that nothing has failed on.
Flowing == fails = 0 /\ ~gone /\ main \notin {"drain", "release", "stopped"}
Unnumbered == main \in {"open", "refused", "start", "failed"}
FlowBody ==
  /\ Unnumbered => sent = 0 /\ outSeq = 1 /\ \A x \in Xfer : seq[x] = 0
  /\ \A i \in 0 .. Len(queue["out"]) - 1 : Follows(Number(i), Number(i + 1))
  /\ Follows(Number(Len(queue["out"])), outSeq)

LEMMA FlowIs == FlowInv <=> (Flowing => FlowBody)
BY DEF FlowInv, Flowing, FlowBody, Unnumbered

LEMMA FlowingBackwards ==
  ASSUME SafeInv, [Next]_vars, Flowing'
  PROVE  Flowing
<1>1. fails' \in {fails, fails + 1} /\ fails \in Nat
  <2>1. fails \in Nat
    BY DEF SafeInv, TypeOK
  <2>2. ASSUME NEW x, Submit(x)
        PROVE  fails' \in {fails, fails + 1}
    BY <2>2 DEF Submit
  <2> QED  BY <2>1, <2>2 DEF Next, vars, StartOpen, StartRefused, StartXfer, StartThread, StartFails,
         Check, HandleReturns, EventHandle, Handle, Enter, Resubmit, StopSignal, StopJoin,
         StopCancel, StopDrain, StopFree, StopRelease, DrainTick, Host, Complete, GiveBack, Unplug
<1>2. gone => gone'
  BY DEF Next, vars, StartOpen, StartRefused, StartXfer, StartThread, StartFails,
         Check, HandleReturns, EventHandle, Handle, Enter, Resubmit, StopSignal, StopJoin,
         StopCancel, StopDrain, StopFree, StopRelease, DrainTick, Host, Complete, GiveBack, Unplug
<1>3. main \in {"drain", "release", "stopped"} => main' \in {"drain", "release", "stopped"}
  BY DEF Next, vars, StartOpen, StartRefused, StartXfer, StartThread, StartFails,
         Check, HandleReturns, EventHandle, Handle, Enter, Resubmit, StopSignal, StopJoin,
         StopCancel, StopDrain, StopFree, StopRelease, DrainTick, Host, Complete, GiveBack, Unplug
<1> QED  BY <1>1, <1>2, <1>3 DEF Flowing

LEMMA UnnumberedBackwards ==
  ASSUME [Next]_vars, Unnumbered'
  PROVE  Unnumbered
BY DEF Unnumbered, Next, vars, StartOpen, StartRefused, StartXfer, StartThread, StartFails,
       Check, HandleReturns, EventHandle, Handle, Enter, Resubmit, StopSignal, StopJoin,
       StopCancel, StopDrain, StopFree, StopRelease, DrainTick, Host, Complete, GiveBack, Unplug

\* One more transfer at the end of the queue, numbered r, the next to be s.
LEMMA OneMore ==
  ASSUME TypeOK, FlowBody, NEW n, n = Len(queue["out"]), NEW x \in Xfer, x \notin ToSet(queue["out"]),
         queue'["out"] = Append(queue["out"], x), sent' = sent,
         \A y \in Xfer \ {x} : seq'[y] = seq[y],
         Follows(Number(Len(queue["out"])), seq'[x]), Follows(seq'[x], outSeq'),
         Unnumbered' => sent = 0 /\ outSeq' = 1 /\ \A y \in Xfer : seq'[y] = 0
  PROVE  FlowBody'
<1> DEFINE q == queue["out"]
<1>1. q \in Seq(Xfer) /\ n \in Nat /\ \A i \in 1 .. n : q[i] \in Xfer /\ q[i] # x
  <2>1. q \in Seq(Xfer)
    BY DEF TypeOK
  <2> QED  BY <2>1 DEF ToSet
<1>2. Len(queue'["out"]) = n + 1 /\ queue'["out"][n + 1] = x /\ \A i \in 1 .. n : queue'["out"][i] = q[i]
  BY <1>1
<1>3. \A i \in 0 .. n : Number(i)' = Number(i)
  BY <1>1, <1>2 DEF Number
<1>4. Number(n + 1)' = seq'[x]
  BY <1>1, <1>2 DEF Number
<1>5. \A i \in 0 .. n : Follows(Number(i)', Number(i + 1)')
  <2> SUFFICES ASSUME NEW i \in 0 .. n
               PROVE  Follows(Number(i)', Number(i + 1)')
    OBVIOUS
  <2>1. CASE i = n
    BY <1>1, <1>3, <1>4, <2>1
  <2>2. CASE i # n
    <3>1. i \in 0 .. n - 1 /\ i + 1 \in 0 .. n /\ i \in 0 .. n
      BY <1>1, <2>2
    <3>2. Number(i)' = Number(i) /\ Number(i + 1)' = Number(i + 1)
      BY <1>3, <3>1
    <3> QED  BY <3>1, <3>2 DEF FlowBody
  <2> QED  BY <2>1, <2>2
<1>6. (n + 1) - 1 = n
  BY <1>1
<1> QED  BY <1>2, <1>4, <1>5, <1>6 DEF FlowBody

LEMMA SameWire ==
  ASSUME FlowBody, queue'["out"] = queue["out"], UNCHANGED <<seq, outSeq, sent>>, Unnumbered' => Unnumbered
  PROVE  FlowBody'
<1>1. \A i \in 0 .. Len(queue["out"]) : Number(i)' = Number(i)
  BY DEF Number
<1> QED  BY <1>1 DEF FlowBody, Number
LEMMA FlowStartXfer ==
  ASSUME SafeInv, FlowBody, StartXfer, Flowing'
  PROVE  FlowBody'
<1> DEFINE q == queue["out"]
           n == Len(q)
           x == made'
<1>1. q \in Seq(Xfer) /\ n \in Nat /\ x \in Xfer /\ x \notin ToSet(q) /\ seq \in [Xfer -> 0 .. MaxSeq]
  <2>1. q \in Seq(Xfer) /\ made \in Nat /\ x = made + 1 /\ x \in Xfer
    BY DEF SafeInv, TypeOK, StartXfer, Xfer
  <2>2. x \notin Made
    BY <2>1 DEF Made
  <2> QED  BY <2>1, <2>2 DEF SafeInv, TypeOK, PhaseInv, InFlight
<1>2. Unnumbered /\ Unnumbered' /\ UNCHANGED <<seq, outSeq, sent, gone>> /\ Submit(x)
  BY DEF StartXfer, Unnumbered
<1>3. sent = 0 /\ outSeq = 1 /\ \A y \in Xfer : seq[y] = 0
  BY <1>2 DEF FlowBody
<1>4. CASE queue' = queue
  BY <1>2, <1>4, SameWire
<1>5. CASE queue' = [queue EXCEPT ![Ep(x)] = Append(@, x)]
  <2>1. CASE Ep(x) # "out"
    <3>1. queue'["out"] = q
      BY <1>5, <2>1 DEF SafeInv, TypeOK
    <3> QED  BY <1>2, <3>1, SameWire
  <2>2. CASE Ep(x) = "out"
    <3>1. queue'["out"] = Append(q, x)
      BY <1>5, <2>2 DEF SafeInv, TypeOK
    <3>2. Number(n) = 0
      BY <1>1, <1>3 DEF Number
    <3>3. Follows(0, 0) /\ Follows(0, 1)
      BY DEF Follows
    <3>4. Follows(Number(n), seq'[x]) /\ Follows(seq'[x], outSeq')
      BY <1>1, <1>2, <1>3, <3>2, <3>3
    <3>5. x \in Xfer /\ x \notin ToSet(q)
      BY <1>1
    <3> HIDE DEF x
    <3> QED  BY <1>2, <1>3, <3>1, <3>4, <3>5, OneMore DEF SafeInv
  <2> QED  BY <2>1, <2>2
<1> QED  BY <1>2, <1>4, <1>5 DEF Submit, Flowing

LEMMA FlowResubmit ==
  ASSUME SafeInv, FlowBody, NEW t \in {Main, Event}, Resubmit(t), Flowing, Flowing'
  PROVE  FlowBody'
<1>1. PICK x \in Xfer : x = cb[t].x
  BY OneCallback DEF Resubmit
<1>2. ~Unnumbered /\ main' = main /\ x \notin InFlight
  BY <1>1, OneCallback DEF Resubmit, SafeInv, ThreadInv, OnceInv, Unnumbered
<1>3. x \notin ToSet(queue["out"]) /\ sent' = sent /\ seq \in [Xfer -> 0 .. MaxSeq]
      /\ outSeq \in 1 .. MaxSeq /\ queue \in [{"out", "in"} -> Seq(Xfer)] /\ ~Unnumbered'
  BY <1>2 DEF InFlight, SafeInv, TypeOK, Resubmit, Unnumbered
<1>4. queue' = [queue EXCEPT ![Ep(x)] = Append(@, x)]
  <2>1. ~gone /\ fails = 0 /\ fails' = 0
    BY DEF Flowing
  <2>2. Submit(x)
    BY <1>1 DEF Resubmit
  <2> QED  BY <2>1, <2>2 DEF Submit
<1>5. CASE Ep(x) = "out"
  <2>1. queue'["out"] = Append(queue["out"], x) /\ seq' = [seq EXCEPT ![x] = outSeq]
        /\ outSeq' = Advanced(outSeq)
    BY <1>1, <1>3, <1>4, <1>5 DEF Resubmit
  <2>2. seq'[x] = outSeq /\ \A y \in Xfer \ {x} : seq'[y] = seq[y]
    BY <1>3, <2>1
  <2>3. Follows(Number(Len(queue["out"])), seq'[x]) /\ Follows(seq'[x], outSeq')
    BY <1>3, <2>1, <2>2, FollowsAdvanced DEF FlowBody
  <2> QED  BY <1>3, <2>1, <2>2, <2>3, OneMore DEF SafeInv
<1>6. CASE Ep(x) # "out"
  <2>1. queue'["out"] = queue["out"] /\ UNCHANGED <<seq, outSeq>>
    BY <1>1, <1>3, <1>4, <1>6 DEF Resubmit
  <2> QED  BY <1>3, <2>1, SameWire
<1> QED  BY <1>5, <1>6

LEMMA FlowComplete ==
  ASSUME SafeInv, FlowBody, NEW e \in {"out", "in"}, Complete(e)
  PROVE  FlowBody'
<1>1. UNCHANGED <<seq, outSeq, main>> /\ queue \in [{"out", "in"} -> Seq(Xfer)]
  BY DEF Complete, SafeInv, TypeOK
<1>2. CASE e = "in"
  <2>1. queue'["out"] = queue["out"] /\ sent' = sent
    BY <1>1, <1>2 DEF Complete
  <2> QED  BY <1>1, <2>1, SameWire DEF Unnumbered
<1>3. CASE e = "out"
  <2>1. PICK q : q = queue["out"]
    OBVIOUS
  <2>2. PICK n : n = Len(q) - 1
    OBVIOUS
  <2>3. q \in Seq(Xfer) /\ q # <<>> /\ queue'["out"] = Tail(q) /\ sent' = seq[Head(q)]
    BY <1>1, <1>3, <2>1 DEF Complete
  <2>4. n \in Nat /\ Len(q) = n + 1 /\ Len(Tail(q)) = n /\ Head(q) = q[1] /\ Head(q) \in Xfer
        /\ \A i \in 1 .. n : Tail(q)[i] = q[i + 1]
    BY <2>2, <2>3
  <2>5. \A i \in 0 .. n : Number(i)' = Number(i + 1)
    BY <1>1, <2>1, <2>3, <2>4 DEF Number
  <2>6. \A i \in 0 .. n - 1 : Follows(Number(i)', Number(i + 1)')
    <3> SUFFICES ASSUME NEW i \in 0 .. n - 1
                 PROVE  Follows(Number(i)', Number(i + 1)')
      OBVIOUS
    <3>1. i \in 0 .. n /\ i + 1 \in 0 .. n /\ i + 1 \in 0 .. Len(queue["out"]) - 1
      BY <2>1, <2>4
    <3>2. Number(i)' = Number(i + 1) /\ Number(i + 1)' = Number((i + 1) + 1)
      BY <2>5, <3>1
    <3> QED  BY <3>1, <3>2 DEF FlowBody
  <2>7. Number(n)' = Number(Len(queue["out"]))
    BY <2>1, <2>4, <2>5
  <2>8. Unnumbered' => sent' = 0
    BY <1>1, <2>3, <2>4 DEF FlowBody, Unnumbered
  <2>9. Unnumbered' => Unnumbered
    BY <1>1 DEF Unnumbered
  <2>10. n = Len(queue'["out"])
    BY <2>3, <2>4
  <2> QED  BY <1>1, <2>6, <2>7, <2>8, <2>9, <2>10 DEF FlowBody
<1> QED  BY <1>2, <1>3

LEMMA FlowStep == IInv /\ [Next]_vars => FlowInv'
<1> SUFFICES ASSUME SafeInv, FlowInv, [Next]_vars, Flowing'
             PROVE  FlowBody'
  BY FlowIs, PTL DEF IInv
<1>1. Flowing /\ FlowBody /\ (Unnumbered' => Unnumbered)
  BY FlowingBackwards, UnnumberedBackwards, FlowIs
<1>2. CASE StartXfer
  BY <1>1, <1>2, FlowStartXfer
<1>3. ASSUME NEW t \in {Main, Event}, Resubmit(t)
      PROVE  FlowBody'
  BY <1>1, <1>3, FlowResubmit
<1>4. ASSUME NEW e \in {"out", "in"}, Complete(e)
      PROVE  FlowBody'
  BY <1>1, <1>4, FlowComplete
<1>5. CASE UNCHANGED <<queue, seq, outSeq, sent>>
  BY <1>1, <1>5, SameWire
<1>6. ~Unplug /\ ~StopRelease /\ \A x \in Xfer : ~GiveBack(x)
  BY <1>1 DEF Flowing, Unplug, StopRelease, GiveBack, SafeInv, DrainInv
<1>7. \/ StartXfer
      \/ \E t \in {Main, Event} : Resubmit(t)
      \/ \E e \in {"out", "in"} : Complete(e)
      \/ UNCHANGED <<queue, seq, outSeq, sent>>
  BY <1>6 DEF Next, vars, StartOpen, StartRefused, StartThread, StartFails, Check, HandleReturns,
     EventHandle, Handle, Enter, StopSignal, StopJoin, StopCancel, StopDrain, StopFree, DrainTick,
     Host
<1> QED  BY <1>2, <1>3, <1>4, <1>5, <1>7

LEMMA FlowInit == Init => FlowInv
<1> SUFFICES ASSUME Init
             PROVE  FlowBody
  BY FlowIs
<1>1. queue["out"] = <<>> /\ Len(queue["out"]) = 0 /\ sent = 0 /\ outSeq = 1
      /\ \A x \in Xfer : seq[x] = 0
  BY DEF Init
<1> QED  BY <1>1 DEF FlowBody, Number, Follows

LEMMA Always == Spec => []IInv
<1>1. Init => IInv
  BY SafeInit, FlowInit DEF IInv
<1>2. IInv /\ [Next]_vars => IInv'
  BY SafeStep, FlowStep DEF IInv
<1> QED  BY <1>1, <1>2, PTL DEF Spec

\* The packets reach the controller in the order of their GIP sequence
\* numbers without a gap, however many transfers are in flight.
THEOREM WireIsInOrder == Spec => []WireInOrder
<1>1. IInv => WireInOrder
  <2> SUFFICES ASSUME IInv, fails = 0, cancelled = {}, ~gone,
                      NEW i \in 1 .. Len(OnWire) - 1
               PROVE  Follows(OnWire[i], OnWire[i + 1])
    BY DEF WireInOrder
  <2> DEFINE q == queue["out"]
             w == [j \in DOMAIN q |-> seq[q[j]]]
  <2>1. q \in Seq(Xfer) /\ seq \in [Xfer -> 0 .. MaxSeq]
    BY DEF IInv, SafeInv, TypeOK
  <2>2. w \in Seq(0 .. MaxSeq) /\ Len(w) = Len(q) /\ \A j \in 1 .. Len(q) : w[j] = seq[q[j]]
    BY <2>1
  <2>3. OnWire = <<sent>> \o w /\ Len(q) \in Nat
    BY <2>1 DEF OnWire
  <2>4. Len(OnWire) = Len(q) + 1 /\ \A j \in 0 .. Len(q) : OnWire[j + 1] = Number(j)
    <3> HIDE DEF w
    <3>1. <<sent>> \in Seq(0 .. MaxSeq) /\ w \in Seq(0 .. MaxSeq) /\ Len(<<sent>>) = 1
      BY <2>2 DEF IInv, SafeInv, TypeOK
    <3>2. Len(OnWire) = Len(q) + 1
      <4>1. Len(<<sent>> \o w) = Len(<<sent>>) + Len(w)
        BY <3>1, ConcatProperties, Zenon
      <4>2. Len(w) + 1 = Len(q) + 1 /\ 1 + Len(w) = Len(w) + 1
        BY <2>2, <2>3
      <4> QED  BY <2>3, <3>1, <4>1, <4>2
    <3>3. OnWire[1] = sent
      BY <2>2, <2>3, <3>1
    <3>4. \A j \in 1 .. Len(q) : OnWire[j + 1] = w[j]
      BY <2>2, <2>3, <3>1
    <3>5. \A j \in 0 .. Len(q) : OnWire[j + 1] = Number(j)
      BY <2>2, <2>3, <3>3, <3>4 DEF Number
    <3> QED  BY <3>2, <3>5
  <2>5. i - 1 \in 0 .. Len(q) - 1 /\ i \in 0 .. Len(q) /\ (i - 1) + 1 = i /\ i - 1 \in 0 .. Len(q)
    BY <2>3, <2>4
  <2>6. OnWire[i] = Number(i - 1) /\ OnWire[i + 1] = Number(i)
    <3>1. OnWire[(i - 1) + 1] = Number(i - 1)
      BY <2>4, <2>5
    <3>2. OnWire[i + 1] = Number(i)
      BY <2>4, <2>5
    <3> QED  BY <2>5, <3>1, <3>2
  <2>7. main \notin {"drain", "release", "stopped"}
    <3>1. InFlight # {}
      <4>1. 1 \in DOMAIN q
        BY <2>1, <2>3, <2>5
      <4> QED  BY <4>1 DEF InFlight, ToSet
    <3> QED  BY <3>1 DEF IInv, SafeInv, PhaseInv, DrainInv
  <2>8. FlowBody
    BY <2>7, FlowIs DEF IInv, Flowing
  <2>9. Follows(Number(i - 1), Number((i - 1) + 1))
    BY <2>5, <2>8 DEF FlowBody
  <2> QED  BY <2>5, <2>6, <2>9
<1> QED  BY <1>1, Always, PTL
=============================================================================
