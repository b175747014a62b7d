-------------------------- MODULE EventLoopProofs --------------------------
(***************************************************************************)
(* Proofs about EventLoop for any buttons, levels, effects and lengths of  *)
(* the controller's queue: what the virtual gamepad, the system's volume   *)
(* and the controller's DAC come to.                                       *)
(*                                                                         *)
(* The properties speak of moments when no report of a kind is pending;    *)
(* what makes them inductive is that the last pending report of a kind     *)
(* carries what the controller shows now (ReportInv), that last_mute and   *)
(* last_vol are what the handled report says (PhaseInv), and that they are *)
(* the system's for as long as the driver's setting stands (MirrorInv).    *)
(*                                                                         *)
(* The force feedback is of another kind: what the events of one poll come *)
(* to is a function defined by recursion over the queue.  Its existence,   *)
(* and that one more event is served after all others (ServedAppend), are  *)
(* proved by induction; with them RumbleInv says that what the next poll   *)
(* will make of the queue is already what the games have asked for.        *)
(***************************************************************************)
EXTENDS EventLoop, SequenceTheorems, WellFoundedInduction, TLAPS

Has(s, kind) == \E i \in 1 .. Len(s) : s[i].kind = kind

\* The last report of its kind in s, if there is one, carries v.
LastIs(s, kind, v) ==
  \A i \in 1 .. Len(s) :
    s[i].kind = kind /\ (\A j \in i + 1 .. Len(s) : s[j].kind # kind) => s[i].v = v

\* A report carries what its kind says.
Reports ==
  [kind : Buttons \cup {"status"}, v : BOOLEAN] \cup [kind : {"media"}, v : Settings]

\* As much of the types as the properties need.
Types ==
  /\ outbox \in Seq(Reports)
  /\ knob \in Settings
  /\ held \in [Buttons -> BOOLEAN]
  /\ pad = [b \in Buttons |-> pad[b]]
  /\ system = [a \in Controls |-> system[a]] /\ last = [a \in Controls |-> last[a]]
  /\ mirrored \subseteq Controls

PhaseInv ==
  /\ pc \in {"top", "recv", "returned"} => raw = NoReport
  /\ pc \in {"volume", "reply"} => raw.kind = "media" /\ last["mute"] = {raw.v["mute"]}
  /\ pc = "reply" => last["vol"] = {raw.v["vol"]}

\* What the latest report of a kind says, waiting or being handled.
ReportInv ==
  ~gone =>
    /\ \A b \in Buttons :
         /\ LastIs(outbox, b, held[b])
         /\ raw.kind = b /\ ~Has(outbox, b) => raw.v = held[b]
    /\ LastIs(outbox, "media", knob)
    /\ raw.kind = "media" /\ ~Has(outbox, "media") => raw.v = knob

MirrorInv == \A a \in mirrored : last[a] = {system[a]}

IInv ==
  /\ Types /\ PhaseInv /\ ReportInv /\ MirrorInv
  /\ PadFollows /\ SystemFollowsKnob /\ ControllerAtMax

---------------------------------------------------------------------------
(* The last report of a kind. *)

LEMMA Appended ==
  ASSUME NEW S, NEW s \in Seq(S), NEW r \in S
  PROVE  /\ Append(s, r) \in Seq(S) /\ Len(Append(s, r)) = Len(s) + 1 /\ Len(s) \in Nat
         /\ Append(s, r)[Len(s) + 1] = r
         /\ \A i \in 1 .. Len(s) : Append(s, r)[i] = s[i]
OBVIOUS

LEMMA Tailed ==
  ASSUME NEW S, NEW s \in Seq(S), s # <<>>
  PROVE  /\ Tail(s) \in Seq(S) /\ Head(s) \in S /\ Head(s) = s[1]
         /\ Len(s) \in Nat \ {0} /\ Len(Tail(s)) = Len(s) - 1
         /\ \A i \in 1 .. Len(s) - 1 : Tail(s)[i] = s[i + 1]
OBVIOUS

LEMMA AppendLast ==
  ASSUME NEW S, NEW s \in Seq(S), NEW r \in S, NEW kind, NEW v
  PROVE  /\ Has(Append(s, r), kind) <=> Has(s, kind) \/ r.kind = kind
         /\ r.kind = kind /\ r.v = v => LastIs(Append(s, r), kind, v)
         /\ r.kind # kind /\ LastIs(s, kind, v) => LastIs(Append(s, r), kind, v)
<1> DEFINE t == Append(s, r)
           n == Len(s)
<1>1. /\ Len(t) = n + 1 /\ n \in Nat /\ t[n + 1] = r
      /\ \A i \in 1 .. n : t[i] = s[i]
  BY Appended
<1> HIDE DEF t, n
<1>2. Has(t, kind) <=> Has(s, kind) \/ r.kind = kind
  <2>1. Has(s, kind) \/ r.kind = kind => Has(t, kind)
    BY <1>1 DEF Has, n
  <2>2. Has(t, kind) => Has(s, kind) \/ r.kind = kind
    BY <1>1 DEF Has, n
  <2> QED  BY <2>1, <2>2
<1>3. ASSUME r.kind = kind, r.v = v
      PROVE  LastIs(t, kind, v)
  <2> SUFFICES ASSUME NEW i \in 1 .. Len(t), t[i].kind = kind,
                      \A j \in i + 1 .. Len(t) : t[j].kind # kind
               PROVE  t[i].v = v
    BY DEF LastIs
  <2>1. i = n + 1
    BY <1>1, <1>3
  <2> QED  BY <1>1, <1>3, <2>1
<1>4. ASSUME r.kind # kind, LastIs(s, kind, v)
      PROVE  LastIs(t, kind, v)
  <2> SUFFICES ASSUME NEW i \in 1 .. Len(t), t[i].kind = kind,
                      \A j \in i + 1 .. Len(t) : t[j].kind # kind
               PROVE  t[i].v = v
    BY DEF LastIs
  <2>1. i \in 1 .. n /\ t[i] = s[i]
    BY <1>1, <1>4
  <2>2. \A j \in i + 1 .. n : s[j].kind # kind
    BY <1>1
  <2> QED  BY <1>4, <2>1, <2>2 DEF LastIs, n
<1> QED  BY <1>2, <1>3, <1>4 DEF t

LEMMA TailLast ==
  ASSUME NEW S, NEW s \in Seq(S), s # <<>>, NEW kind, NEW v
  PROVE  /\ Has(s, kind) <=> Has(Tail(s), kind) \/ Head(s).kind = kind
         /\ LastIs(s, kind, v) => LastIs(Tail(s), kind, v)
         /\ LastIs(s, kind, v) /\ Head(s).kind = kind /\ ~Has(Tail(s), kind) => Head(s).v = v
<1> DEFINE t == Tail(s)
           n == Len(s)
<1>1. /\ n \in Nat \ {0} /\ Len(t) = n - 1 /\ Head(s) = s[1]
      /\ \A i \in 1 .. n - 1 : t[i] = s[i + 1]
  BY Tailed
<1> HIDE DEF t, n
<1>2. ASSUME NEW i \in 2 .. n
      PROVE  i - 1 \in 1 .. n - 1 /\ t[i - 1] = s[i]
  <2>1. i - 1 \in 1 .. n - 1 /\ (i - 1) + 1 = i
    BY <1>1
  <2> QED  BY <1>1, <2>1
<1>3. Has(s, kind) <=> Has(t, kind) \/ Head(s).kind = kind
  <2>1. ASSUME NEW i \in 1 .. Len(t), t[i].kind = kind
        PROVE  Has(s, kind)
    <3>1. i + 1 \in 1 .. n /\ s[i + 1].kind = kind
      BY <1>1, <2>1
    <3> QED  BY <3>1 DEF Has, n
  <2>2. Head(s).kind = kind => Has(s, kind)
    <3>1. 1 \in 1 .. n
      BY <1>1
    <3> QED  BY <1>1, <3>1 DEF Has, n
  <2>3. ASSUME NEW i \in 1 .. n, s[i].kind = kind, Head(s).kind # kind
        PROVE  Has(t, kind)
    <3>1. i \in 2 .. n
      BY <1>1, <2>3
    <3> QED  BY <1>1, <1>2, <2>3, <3>1 DEF Has
  <2> QED  BY <2>1, <2>2, <2>3 DEF Has, n
<1>4. ASSUME LastIs(s, kind, v)
      PROVE  LastIs(t, kind, v)
  <2> SUFFICES ASSUME NEW i \in 1 .. Len(t), t[i].kind = kind,
                      \A j \in i + 1 .. Len(t) : t[j].kind # kind
               PROVE  t[i].v = v
    BY DEF LastIs
  <2>1. i + 1 \in 1 .. n /\ s[i + 1] = t[i]
    BY <1>1
  <2>2. ASSUME NEW j \in (i + 1) + 1 .. n
        PROVE  s[j].kind # kind
    <3>1. j \in 2 .. n /\ j - 1 \in i + 1 .. Len(t)
      BY <1>1
    <3> QED  BY <1>2, <3>1
  <2> QED  BY <1>4, <2>1, <2>2 DEF LastIs, n
<1>5. ASSUME LastIs(s, kind, v), Head(s).kind = kind, ~Has(t, kind)
      PROVE  Head(s).v = v
  <2>1. ASSUME NEW j \in 1 + 1 .. n
        PROVE  s[j].kind # kind
    <3>1. j \in 2 .. n
      OBVIOUS
    <3>2. j - 1 \in 1 .. Len(t) /\ t[j - 1] = s[j]
      BY <1>1, <1>2, <3>1
    <3> QED  BY <1>5, <3>2 DEF Has
  <2>2. 1 \in 1 .. n
    BY <1>1
  <2> QED  BY <1>1, <1>5, <2>1, <2>2 DEF LastIs, n
<1> QED  BY <1>3, <1>4, <1>5 DEF t

---------------------------------------------------------------------------
(* The steps preserve IInv. *)
USE DEF loopVars, uinputVars, deviceVars, gameVars, historyVars

LEMMA PendingIs ==
  ASSUME outbox \in Seq(Reports), NEW kind
  PROVE  Pending(kind) <=> Has(outbox, kind) \/ raw.kind = kind
<1>1. DOMAIN outbox = 1 .. Len(outbox)
  OBVIOUS
<1> QED  BY <1>1 DEF Pending, Has

LEMMA PendingNext ==
  ASSUME outbox' \in Seq(Reports), NEW kind
  PROVE  Pending(kind)' <=> Has(outbox', kind) \/ raw'.kind = kind
<1>1. DOMAIN outbox' = 1 .. Len(outbox')
  OBVIOUS
<1> QED  BY <1>1 DEF Pending, Has

LEMMA Kinded ==
  /\ NoReport.kind = "none"
  /\ \A b \in Buttons : b # "media" /\ b # "status" /\ b # "none"
BY KindsAssumption DEF NoReport

\* The three properties outlive a step that touches nothing of theirs, as long
\* as a report that no longer waits has been lost.
LEMMA FollowStep ==
  ASSUME PadFollows, SystemFollowsKnob, ControllerAtMax,
         UNCHANGED <<pad, held, knob, hw, last, system>>, gone => gone',
         mirrored' \subseteq mirrored, "reply" \in unsent => "reply" \in unsent',
         \A kind \in Buttons \cup {"media"} :
           Pending(kind) \/ kind \in unheard => gone' \/ Pending(kind)' \/ kind \in unheard'
  PROVE  PadFollows' /\ SystemFollowsKnob' /\ ControllerAtMax'
<1>1. PadFollows'
  BY DEF PadFollows
<1>2. SystemFollowsKnob'
  BY DEF SystemFollowsKnob
<1>3. ControllerAtMax'
  BY DEF ControllerAtMax
<1> QED  BY <1>1, <1>2, <1>3

\* Steps that move no report and touch neither what the controller shows nor
\* what the driver has made of it.
LEMMA QuietStep ==
  ASSUME IInv,
         UNCHANGED <<raw, outbox, pad, held, knob, hw, last, gone, unheard, system, mirrored>>,
         "reply" \in unsent' <=> "reply" \in unsent,
         pc' = pc \/ {pc, pc'} \subseteq {"top", "recv", "returned"}
  PROVE  IInv'
<1>1. Types' /\ ReportInv' /\ MirrorInv'
  BY DEF IInv, Types, ReportInv, MirrorInv
<1>2. PhaseInv'
  BY DEF IInv, PhaseInv
<1>3. PadFollows' /\ SystemFollowsKnob' /\ ControllerAtMax'
  <2>1. \A kind : Pending(kind)' <=> Pending(kind)
    BY DEF Pending
  <2> QED  BY <2>1, FollowStep DEF IInv
<1> QED  BY <1>1, <1>2, <1>3 DEF IInv

LEMMA ReceiveStep ==
  ASSUME IInv, Receive
  PROVE  IInv'
<1>1. outbox \in Seq(Reports) /\ outbox # <<>> /\ raw' = Head(outbox) /\ outbox' = Tail(outbox)
      /\ UNCHANGED <<pad, held, knob, hw, last, gone, unheard, system, mirrored, unsent>>
      /\ pc = "recv" /\ pc' = "handle" /\ raw.kind = "none"
  BY Kinded DEF IInv, Types, PhaseInv, Receive
<1>2. outbox' \in Seq(Reports)
  BY <1>1
<1>3. Types' /\ PhaseInv' /\ MirrorInv'
  BY <1>1, <1>2 DEF IInv, Types, PhaseInv, MirrorInv
<1>4. ReportInv'
  <2> SUFFICES ASSUME ~gone
               PROVE  /\ \A b \in Buttons :
                           /\ LastIs(outbox', b, held[b])
                           /\ raw'.kind = b /\ ~Has(outbox', b) => raw'.v = held[b]
                      /\ LastIs(outbox', "media", knob)
                      /\ raw'.kind = "media" /\ ~Has(outbox', "media") => raw'.v = knob
    BY <1>1 DEF ReportInv
  <2>1. /\ \A b \in Buttons : LastIs(outbox, b, held[b])
        /\ LastIs(outbox, "media", knob)
    BY DEF IInv, ReportInv
  <2> QED  BY <1>1, <2>1, TailLast
<1>5. ASSUME NEW kind \in Buttons \cup {"media"}
      PROVE  Pending(kind) => Pending(kind)'
  <2>1. Pending(kind) <=> Has(outbox, kind) \/ raw.kind = kind
    BY <1>1, PendingIs
  <2>2. Pending(kind)' <=> Has(outbox', kind) \/ raw'.kind = kind
    BY <1>2, PendingNext
  <2>3. Has(outbox, kind) <=> Has(Tail(outbox), kind) \/ Head(outbox).kind = kind
    BY <1>1, TailLast
  <2> QED  BY <1>1, <2>1, <2>2, <2>3, Kinded
<1>6. PadFollows' /\ SystemFollowsKnob' /\ ControllerAtMax'
  BY <1>1, <1>5, FollowStep DEF IInv
<1> QED  BY <1>3, <1>4, <1>6 DEF IInv

LEMMA MissStep ==
  ASSUME IInv, Miss
  PROVE  IInv'
<1>1. outbox \in Seq(Reports) /\ outbox # <<>> /\ raw' = raw /\ outbox' = Tail(outbox)
      /\ UNCHANGED <<pad, held, knob, hw, last, gone, system, mirrored, unsent>>
      /\ unheard' = unheard \cup {Head(outbox).kind}
      /\ pc = "recv" /\ pc' = "top"
  BY DEF IInv, Types, Miss
<1>2. outbox' \in Seq(Reports) /\ raw.kind = "none"
  BY <1>1, Kinded DEF IInv, PhaseInv
<1>3. Types' /\ PhaseInv' /\ MirrorInv'
  BY <1>1, <1>2 DEF IInv, Types, PhaseInv, MirrorInv
<1>4. ReportInv'
  BY <1>1, <1>2, TailLast, Kinded DEF IInv, ReportInv
<1>5. ASSUME NEW kind \in Buttons \cup {"media"}
      PROVE  Pending(kind) => Pending(kind)' \/ kind \in unheard'
  <2>1. Pending(kind) <=> Has(outbox, kind) \/ raw.kind = kind
    BY <1>1, PendingIs
  <2>2. Pending(kind)' <=> Has(outbox', kind) \/ raw'.kind = kind
    BY <1>2, PendingNext
  <2>3. Has(outbox, kind) <=> Has(Tail(outbox), kind) \/ Head(outbox).kind = kind
    BY <1>1, TailLast
  <2> QED  BY <1>1, <2>1, <2>2, <2>3
<1>6. PadFollows' /\ SystemFollowsKnob' /\ ControllerAtMax'
  BY <1>1, <1>5, FollowStep DEF IInv
<1> QED  BY <1>3, <1>4, <1>6 DEF IInv

\* The report is handled: what it says is on the gamepad.
LEMMA ButtonStep ==
  ASSUME IInv, HandleButton
  PROVE  IInv'
<1>1. raw.kind \in Buttons /\ pad' = [pad EXCEPT ![raw.kind] = raw.v]
      /\ unheard' = unheard \ {raw.kind} /\ raw' = NoReport /\ pc' = "top"
      /\ UNCHANGED <<outbox, held, knob, hw, last, gone, system, mirrored, unsent>>
  BY DEF HandleButton
<1>2. pad = [b \in Buttons |-> pad[b]] /\ outbox \in Seq(Reports)
  BY DEF IInv, Types
<1>3. pad' = [b \in Buttons |-> pad'[b]] /\ pad'[raw.kind] = raw.v
      /\ \A b \in Buttons \ {raw.kind} : pad'[b] = pad[b]
  BY <1>1, <1>2
<1>4. Types' /\ PhaseInv' /\ MirrorInv'
  BY <1>1, <1>3 DEF IInv, Types, PhaseInv, MirrorInv
<1>5. ReportInv'
  BY <1>1, Kinded DEF IInv, ReportInv
<1>6. ASSUME NEW kind
      PROVE  /\ Pending(kind) <=> Has(outbox, kind) \/ raw.kind = kind
             /\ Pending(kind)' <=> Has(outbox, kind) \/ kind = "none"
  BY <1>1, <1>2, PendingIs, PendingNext, Kinded
<1>7. PadFollows'
  <2> SUFFICES ASSUME NEW b \in Buttons, ~gone, ~Pending(b)', b \notin unheard'
               PROVE  pad'[b] = held[b]
    BY <1>1 DEF PadFollows
  <2>1. CASE b = raw.kind
    <3>1. ~Has(outbox, b)
      BY <1>6
    <3> QED  BY <1>3, <2>1, <3>1 DEF IInv, ReportInv
  <2>2. CASE b # raw.kind
    BY <1>1, <1>3, <1>6, <2>2 DEF IInv, PadFollows
  <2> QED  BY <2>1, <2>2
<1>8. SystemFollowsKnob' /\ ControllerAtMax'
  <2>1. (Pending("media") => Pending("media")') /\ ("media" \in unheard => "media" \in unheard')
    BY <1>1, <1>6, Kinded
  <2> QED  BY <1>1, <2>1 DEF IInv, SystemFollowsKnob, ControllerAtMax
<1> QED  BY <1>4, <1>5, <1>7, <1>8 DEF IInv

LEMMA StatusStep ==
  ASSUME IInv, HandleStatus
  PROVE  IInv'
<1>1. raw.kind = "status" /\ unheard' = unheard \ {"status"} /\ raw' = NoReport /\ pc' = "top"
      /\ UNCHANGED <<outbox, pad, held, knob, hw, last, gone, system, mirrored, unsent>>
  BY DEF HandleStatus
<1>2. Types' /\ PhaseInv' /\ MirrorInv' /\ outbox \in Seq(Reports)
  BY <1>1 DEF IInv, Types, PhaseInv, MirrorInv
<1>3. ReportInv'
  BY <1>1, Kinded DEF IInv, ReportInv
<1>4. ASSUME NEW kind \in Buttons \cup {"media"}
      PROVE  /\ Pending(kind) => Pending(kind)'
             /\ kind \in unheard => kind \in unheard'
  <2>1. kind # "status"
    BY Kinded
  <2> QED  BY <1>1, <1>2, <2>1, PendingIs, PendingNext
<1>5. PadFollows' /\ SystemFollowsKnob' /\ ControllerAtMax'
  BY <1>1, <1>4, FollowStep DEF IInv
<1> QED  BY <1>2, <1>3, <1>5 DEF IInv

\* What forward_media makes of one control: the driver's setting is the system's.
LEMMA MirrorStep ==
  ASSUME Types, MirrorInv, NEW a \in Controls, Mirror(a)
  PROVE  /\ MirrorInv' /\ mirrored' \subseteq Controls
         /\ last' = [c \in Controls |-> last'[c]] /\ system' = [c \in Controls |-> system'[c]]
         /\ last'[a] = {raw.v[a]}
         /\ \A c \in Controls \ {a} : last'[c] = last[c]
<1>1. system = [c \in Controls |-> system[c]] /\ last = [c \in Controls |-> last[c]]
      /\ mirrored \subseteq Controls
  BY DEF Types
<1>2. last' = [last EXCEPT ![a] = {raw.v[a]}]
  BY DEF Mirror
<1>3. /\ last' = [c \in Controls |-> last'[c]] /\ last'[a] = {raw.v[a]}
      /\ \A c \in Controls \ {a} : last'[c] = last[c]
  BY <1>1, <1>2
<1>4. CASE last[a] \in {{}, {raw.v[a]}}
  <2>1. system' = system /\ mirrored' = mirrored
    BY <1>4 DEF Mirror
  <2>2. a \in mirrored => last[a] = {raw.v[a]}
    BY <1>4 DEF MirrorInv
  <2> QED  BY <1>1, <1>3, <2>1, <2>2 DEF MirrorInv
<1>5. CASE system' = [system EXCEPT ![a] = raw.v[a]] /\ mirrored' = mirrored \cup {a}
  <2>1. /\ system' = [c \in Controls |-> system'[c]] /\ system'[a] = raw.v[a]
        /\ \A c \in Controls \ {a} : system'[c] = system[c]
    BY <1>1, <1>5
  <2> QED  BY <1>1, <1>3, <1>5, <2>1 DEF MirrorInv
<1>6. CASE system' = system /\ mirrored' = mirrored \ {a}
  BY <1>1, <1>3, <1>6 DEF MirrorInv
<1> QED  BY <1>4, <1>5, <1>6 DEF Mirror

LEMMA MuteStep ==
  ASSUME IInv, HandleMute
  PROVE  IInv'
<1>1. raw.kind = "media" /\ Mirror("mute") /\ unheard' = unheard \ {"media"} /\ pc' = "volume"
      /\ UNCHANGED <<raw, outbox, pad, held, knob, hw, gone, unsent>>
  BY DEF HandleMute
<1>2. MirrorInv' /\ Types' /\ last'["mute"] = {raw.v["mute"]}
  BY <1>1, MirrorStep DEF IInv, Types, Controls
<1>3. PhaseInv' /\ ReportInv'
  BY <1>1, <1>2 DEF IInv, PhaseInv, ReportInv
<1>4. Pending("media")' /\ \A kind : Pending(kind)' <=> Pending(kind)
  BY <1>1 DEF Pending
<1>5. PadFollows' /\ SystemFollowsKnob' /\ ControllerAtMax'
  BY <1>1, <1>4, Kinded DEF IInv, PadFollows, SystemFollowsKnob, ControllerAtMax
<1> QED  BY <1>2, <1>3, <1>5 DEF IInv

LEMMA VolumeStep ==
  ASSUME IInv, HandleVolume
  PROVE  IInv'
<1>1. pc = "volume" /\ Mirror("vol") /\ pc' = "reply"
      /\ UNCHANGED <<raw, outbox, pad, held, knob, hw, gone, unheard, unsent>>
  BY DEF HandleVolume
<1>2. MirrorInv' /\ Types' /\ last'["vol"] = {raw.v["vol"]} /\ last'["mute"] = last["mute"]
  BY <1>1, MirrorStep DEF IInv, Types, Controls
<1>3. PhaseInv' /\ ReportInv' /\ raw.kind = "media"
  BY <1>1, <1>2 DEF IInv, PhaseInv, ReportInv
<1>4. Pending("media")' /\ \A kind : Pending(kind)' <=> Pending(kind)
  BY <1>1, <1>3 DEF Pending
<1>5. PadFollows' /\ SystemFollowsKnob' /\ ControllerAtMax'
  BY <1>1, <1>4 DEF IInv, PadFollows, SystemFollowsKnob, ControllerAtMax
<1> QED  BY <1>2, <1>3, <1>5 DEF IInv

\* The report is answered: when no other waits the knob is what it said.
LEMMA ReplyStep ==
  ASSUME IInv, Reply
  PROVE  IInv'
<1>1. pc = "reply" /\ pc' = "top" /\ raw' = NoReport
      /\ UNCHANGED <<outbox, pad, held, knob, last, gone, system, mirrored, unheard>>
  BY DEF Reply
<1>2. Types' /\ PhaseInv' /\ MirrorInv' /\ outbox \in Seq(Reports)
  BY <1>1 DEF IInv, Types, PhaseInv, MirrorInv
<1>3. ReportInv'
  BY <1>1, Kinded DEF IInv, ReportInv
<1>4. raw.kind = "media" /\ last["mute"] = {raw.v["mute"]} /\ last["vol"] = {raw.v["vol"]}
  BY <1>1 DEF IInv, PhaseInv
<1>5. ASSUME NEW kind
      PROVE  /\ Pending(kind) <=> Has(outbox, kind) \/ kind = "media"
             /\ Pending(kind)' <=> Has(outbox, kind) \/ kind = "none"
  BY <1>1, <1>2, <1>4, PendingIs, PendingNext, Kinded
<1>6. PadFollows'
  BY <1>1, <1>5, Kinded DEF IInv, PadFollows
<1>7. SystemFollowsKnob'
  <2> SUFFICES ASSUME NEW a \in mirrored, ~gone, ~Pending("media")'
               PROVE  system[a] = knob[a]
    BY <1>1 DEF SystemFollowsKnob
  <2>1. raw.v = knob
    BY <1>4, <1>5 DEF IInv, ReportInv
  <2>2. last[a] = {system[a]} /\ a \in Controls
    BY DEF IInv, MirrorInv, Types
  <2> QED  BY <1>4, <2>1, <2>2 DEF Controls
<1>8. ControllerAtMax'
  BY DEF Reply, Delivered, Undelivered, ControllerAtMax
<1> QED  BY <1>2, <1>3, <1>6, <1>7, <1>8 DEF IInv

\* What a new report adds: it waits, and everything else waits as before.
LEMMA Reported ==
  ASSUME IInv, NEW kind, NEW v, [kind |-> kind, v |-> v] \in Reports, Report(kind, v), raw' = raw
  PROVE  /\ outbox' \in Seq(Reports) /\ ~gone
         /\ LastIs(outbox', kind, v) /\ Has(outbox', kind) /\ Pending(kind)'
         /\ \A k : k # kind => (Has(outbox', k) <=> Has(outbox, k))
         /\ \A k, w : k # kind /\ LastIs(outbox, k, w) => LastIs(outbox', k, w)
         /\ \A k : Pending(k) => Pending(k)'
<1> DEFINE r == [kind |-> kind, v |-> v]
<1>1. outbox \in Seq(Reports) /\ r \in Reports /\ r.kind = kind /\ r.v = v
      /\ ~gone /\ outbox' = Append(outbox, r)
  BY DEF IInv, Types, Report
<1> HIDE DEF r
<1>2. outbox' \in Seq(Reports)
  BY <1>1
<1>3. ASSUME NEW k, NEW w
      PROVE  /\ Has(outbox', k) <=> Has(outbox, k) \/ kind = k
             /\ kind = k /\ v = w => LastIs(outbox', k, w)
             /\ kind # k /\ LastIs(outbox, k, w) => LastIs(outbox', k, w)
  BY <1>1, AppendLast
<1>4. ASSUME NEW k
      PROVE  /\ Pending(k) <=> Has(outbox, k) \/ raw.kind = k
             /\ Pending(k)' <=> Has(outbox', k) \/ raw.kind = k
  BY <1>1, <1>2, PendingIs, PendingNext
<1> QED  BY <1>1, <1>2, <1>3, <1>4

LEMMA PressStep ==
  ASSUME IInv, NEW b \in Buttons, Press(b)
  PROVE  IInv'
<1>1. held' = [held EXCEPT ![b] = ~@] /\ Report(b, ~held[b])
      /\ UNCHANGED <<pc, raw, pad, last, knob, hw, gone, system, mirrored, unheard, unsent>>
  BY DEF Press
<1>2. held \in [Buttons -> BOOLEAN] /\ [kind |-> b, v |-> ~held[b]] \in Reports
  <2>1. held \in [Buttons -> BOOLEAN]
    BY DEF IInv, Types
  <2> QED  BY <2>1 DEF Reports
<1>3. held' \in [Buttons -> BOOLEAN] /\ held'[b] = ~held[b]
      /\ \A c \in Buttons \ {b} : held'[c] = held[c]
  BY <1>1, <1>2
<1>4. /\ outbox' \in Seq(Reports) /\ ~gone
      /\ LastIs(outbox', b, ~held[b]) /\ Has(outbox', b) /\ Pending(b)'
      /\ \A k : k # b => (Has(outbox', k) <=> Has(outbox, k))
      /\ \A k, w : k # b /\ LastIs(outbox, k, w) => LastIs(outbox', k, w)
      /\ \A k : Pending(k) => Pending(k)'
  BY <1>1, <1>2, Reported
<1>5. Types' /\ PhaseInv' /\ MirrorInv'
  BY <1>1, <1>3, <1>4 DEF IInv, Types, PhaseInv, MirrorInv
<1>6. ReportInv'
  <2>1. ASSUME NEW c \in Buttons
        PROVE  LastIs(outbox', c, held'[c]) /\ (raw.kind = c /\ ~Has(outbox', c) => raw.v = held'[c])
    <3>1. CASE c = b
      BY <1>3, <1>4, <3>1
    <3>2. CASE c # b
      BY <1>3, <1>4, <3>2 DEF IInv, ReportInv
    <3> QED  BY <3>1, <3>2
  <2>2. LastIs(outbox', "media", knob) /\ (raw.kind = "media" /\ ~Has(outbox', "media") => raw.v = knob)
    BY <1>4, Kinded DEF IInv, ReportInv
  <2> QED  BY <1>1, <2>1, <2>2 DEF ReportInv
<1>7. PadFollows'
  BY <1>1, <1>3, <1>4 DEF IInv, PadFollows
<1>8. SystemFollowsKnob' /\ ControllerAtMax'
  BY <1>1, <1>4 DEF IInv, SystemFollowsKnob, ControllerAtMax
<1> QED  BY <1>5, <1>6, <1>7, <1>8 DEF IInv

LEMMA TurnStep ==
  ASSUME IInv, NEW a \in Controls, NEW v \in Values(a), Turn(a, v)
  PROVE  IInv'
<1>1. knob' = [knob EXCEPT ![a] = v] /\ Report("media", knob')
      /\ UNCHANGED <<pc, raw, pad, last, held, gone, system, mirrored, unheard, unsent>>
  BY DEF Turn
<1>2. knob' \in Settings
  BY <1>1 DEF IInv, Types, Settings, Controls, Values
<1>r. [kind |-> "media", v |-> knob'] \in Reports
  BY <1>2 DEF Reports
<1>3. /\ outbox' \in Seq(Reports) /\ ~gone
      /\ LastIs(outbox', "media", knob') /\ Has(outbox', "media") /\ Pending("media")'
      /\ \A k : k # "media" => (Has(outbox', k) <=> Has(outbox, k))
      /\ \A k, w : k # "media" /\ LastIs(outbox, k, w) => LastIs(outbox', k, w)
      /\ \A k : Pending(k) => Pending(k)'
  BY <1>1, <1>r, Reported
<1>4. Types' /\ PhaseInv' /\ MirrorInv'
  BY <1>1, <1>2, <1>3 DEF IInv, Types, PhaseInv, MirrorInv
<1>5. ReportInv'
  BY <1>1, <1>3, Kinded DEF IInv, ReportInv
<1>6. PadFollows' /\ SystemFollowsKnob' /\ ControllerAtMax'
  BY <1>1, <1>3 DEF IInv, PadFollows, SystemFollowsKnob, ControllerAtMax
<1> QED  BY <1>4, <1>5, <1>6 DEF IInv

LEMMA HeartbeatStep ==
  ASSUME IInv, Heartbeat
  PROVE  IInv'
<1>1. Report("status", FALSE)
      /\ UNCHANGED <<pc, raw, pad, last, held, knob, hw, gone, system, mirrored, unheard, unsent>>
  BY DEF Heartbeat
<1>r. [kind |-> "status", v |-> FALSE] \in Reports
  BY DEF Reports
<1>2. /\ outbox' \in Seq(Reports)
      /\ \A k : k # "status" => (Has(outbox', k) <=> Has(outbox, k))
      /\ \A k, w : k # "status" /\ LastIs(outbox, k, w) => LastIs(outbox', k, w)
      /\ \A k : Pending(k) => Pending(k)'
  BY <1>1, <1>r, Reported
<1>3. Types' /\ PhaseInv' /\ MirrorInv'
  BY <1>1, <1>2 DEF IInv, Types, PhaseInv, MirrorInv
<1>4. ReportInv'
  BY <1>1, <1>2, Kinded DEF IInv, ReportInv
<1>5. PadFollows' /\ SystemFollowsKnob' /\ ControllerAtMax'
  BY <1>1, <1>2, FollowStep DEF IInv
<1> QED  BY <1>3, <1>4, <1>5 DEF IInv

LEMMA UnplugStep ==
  ASSUME IInv, Unplug
  PROVE  IInv'
<1>1. gone' /\ outbox' = <<>>
      /\ UNCHANGED <<pc, raw, pad, last, held, knob, hw, system, mirrored, unheard, unsent>>
  BY DEF Unplug
<1>2. Types' /\ PhaseInv' /\ MirrorInv'
  <2>1. outbox' \in Seq(Reports)
    BY <1>1
  <2> QED  BY <1>1, <2>1 DEF IInv, Types, PhaseInv, MirrorInv
<1>3. ReportInv' /\ PadFollows' /\ SystemFollowsKnob' /\ ControllerAtMax'
  BY <1>1 DEF ReportInv, PadFollows, SystemFollowsKnob, ControllerAtMax
<1> QED  BY <1>2, <1>3 DEF IInv

\* The user's own setting: the control is no longer the driver's.
LEMMA SetSystemStep ==
  ASSUME IInv, NEW a \in Controls, NEW v, SetSystem(a, v)
  PROVE  IInv'
<1>1. system' = [system EXCEPT ![a] = v] /\ mirrored' = mirrored \ {a}
      /\ UNCHANGED <<pc, raw, outbox, pad, last, held, knob, hw, gone, unheard, unsent>>
  BY DEF SetSystem
<1>2. system' = [c \in Controls |-> system'[c]] /\ \A c \in mirrored' : system'[c] = system[c]
  BY <1>1 DEF IInv, Types
<1>3. Types' /\ PhaseInv' /\ MirrorInv' /\ ReportInv'
  BY <1>1, <1>2 DEF IInv, Types, PhaseInv, MirrorInv, ReportInv
<1>4. \A kind : Pending(kind)' <=> Pending(kind)
  BY <1>1 DEF Pending
<1>5. PadFollows' /\ SystemFollowsKnob' /\ ControllerAtMax'
  BY <1>1, <1>2, <1>4 DEF IInv, PadFollows, SystemFollowsKnob, ControllerAtMax
<1> QED  BY <1>3, <1>5 DEF IInv

---------------------------------------------------------------------------
(* IInv always holds. *)

LEMMA InitHolds == Init => IInv
<1> SUFFICES ASSUME Init
             PROVE  IInv
  OBVIOUS
<1>1. /\ pc = "top" /\ raw = NoReport /\ outbox = <<>> /\ mirrored = {} /\ Len(outbox) = 0
      /\ pad = [b \in Buttons |-> FALSE] /\ held = [b \in Buttons |-> FALSE]
      /\ last = [a \in Controls |-> {}] /\ knob \in Settings /\ system \in Settings
  BY DEF Init
<1>2. Types
  BY <1>1 DEF Types, Settings, Controls
<1>3. PhaseInv /\ ReportInv /\ MirrorInv
  <2>1. raw.kind = "none" /\ \A kind, v : LastIs(outbox, kind, v)
    BY <1>1, Kinded DEF LastIs
  <2> QED  BY <1>1, <2>1, Kinded DEF PhaseInv, ReportInv, MirrorInv
<1>4. PadFollows /\ SystemFollowsKnob /\ ControllerAtMax
  BY <1>1 DEF PadFollows, SystemFollowsKnob, ControllerAtMax, Controls
<1> QED  BY <1>2, <1>3, <1>4 DEF IInv

\* What is left of Next touches nothing of IInv.
LEMMA OtherStep ==
  ASSUME IInv, Poll \/ LeaveOnStop \/ TimedOut \/ Disconnected \/ Game \/ Signal \/ UNCHANGED vars
  PROVE  IInv'
<1>1. CASE Poll
  BY <1>1, QuietStep DEF Poll, Answered, Rumble, Delivered, Undelivered
<1>2. CASE LeaveOnStop \/ TimedOut \/ Disconnected \/ Signal
  BY <1>2, QuietStep DEF LeaveOnStop, TimedOut, Disconnected, Signal
<1>3. CASE Game
  <2>1. UNCHANGED <<loopVars, uinputVars, deviceVars, system, historyVars>>
    BY <1>3 DEF Game, Upload, Erase, PlayEffect, StopEffect
  <2> QED  BY <2>1, QuietStep
<1>4. CASE UNCHANGED vars
  BY <1>4, QuietStep DEF vars
<1> QED  BY <1>1, <1>2, <1>3, <1>4

LEMMA Always == Spec => []IInv
<1>1. ASSUME IInv, [Next]_vars
      PROVE  IInv'
  <2>1. CASE RunEventLoop
    BY <1>1, <2>1, ReceiveStep, MissStep, ButtonStep, StatusStep, MuteStep, VolumeStep, ReplyStep,
       OtherStep DEF RunEventLoop
  <2>2. CASE Controller
    BY <1>1, <2>2, PressStep, TurnStep, HeartbeatStep, UnplugStep DEF Controller
  <2>3. CASE Desktop
    BY <1>1, <2>3, SetSystemStep DEF Desktop
  <2>4. CASE Game \/ Signal \/ UNCHANGED vars
    BY <1>1, <2>4, OtherStep
  <2> QED  BY <1>1, <2>1, <2>2, <2>3, <2>4 DEF Next
<1> QED  BY <1>1, InitHolds, PTL DEF Spec

\* For any buttons, and a queue of any length: once its reports are handled a
\* button is on the virtual gamepad what it is on the controller, unless the
\* latest report was lost to the timer of recv.
THEOREM GamepadFollows == Spec => []PadFollows
<1>1. IInv => PadFollows
  BY DEF IInv
<1> QED  BY <1>1, Always, PTL

\* For any levels: once its reports are handled, a control that forward_media
\* has set stands at what the controller shows, until the user changes it.
THEOREM SystemFollows == Spec => []SystemFollowsKnob
<1>1. IInv => SystemFollowsKnob
  BY DEF IInv
<1> QED  BY <1>1, Always, PTL

\* Once its media reports are answered the DAC of the controller is at its
\* maximum, whatever the player turned meanwhile.
THEOREM AttenuatedOnce == Spec => []ControllerAtMax
<1>1. IInv => ControllerAtMax
  BY DEF IInv
<1> QED  BY <1>1, Always, PTL
---------------------------------------------------------------------------
(* Induction, from the well-foundedness of the order of the numbers. *)

LEMMA SetInduction ==
  ASSUME NEW T \in SUBSET Nat, 0 \in T, \A n \in T : n + 1 \in T
  PROVE  T = Nat
<1> DEFINE R == OpToRel(<, Nat)
<1> SUFFICES ASSUME Nat \ T # {}
             PROVE  FALSE
  OBVIOUS
<1>1. PICK n \in Nat \ T : \A k \in Nat \ T : <<k, n>> \notin R
  <2>1. IsWellFoundedOn(R, Nat)
    BY NatLessThanWellFounded
  <2> HIDE DEF R
  <2> QED  BY <2>1, WFMin
<1>2. n # 0 /\ n - 1 \in Nat
  OBVIOUS
<1>3. n - 1 \in T
  <2>1. \A k \in Nat \ T : ~(k < n)
    BY <1>1 DEF OpToRel
  <2> QED  BY <1>2, <2>1
<1> QED  BY <1>2, <1>3

---------------------------------------------------------------------------
(* What the events of one poll amount to. *)

\* A function that serves the first n events of q.
Run(cache, q, n, f) ==
  f = [k \in 0 .. n |-> IF k = 0 THEN [cache |-> cache, out |-> {}] ELSE Served(f[k - 1], q[k])]

LEMMA RunExists ==
  ASSUME NEW cache, NEW q, NEW n \in Nat
  PROVE  \E f : Run(cache, q, n, f)
<1> DEFINE T == {k \in Nat : \E f : Run(cache, q, k, f)}
<1>1. 0 \in T
  <2> DEFINE f == [k \in 0 .. 0 |-> [cache |-> cache, out |-> {}]]
  <2>1. f = [k \in 0 .. 0 |-> IF k = 0 THEN [cache |-> cache, out |-> {}] ELSE Served(f[k - 1], q[k])]
    OBVIOUS
  <2> QED  BY <2>1 DEF Run
<1>2. ASSUME NEW k \in T
      PROVE  k + 1 \in T
  <2>1. PICK f : Run(cache, q, k, f)
    OBVIOUS
  <2> DEFINE g == [j \in 0 .. k + 1 |-> IF j = k + 1 THEN Served(f[k], q[k + 1]) ELSE f[j]]
  <2>2. ASSUME NEW j \in 0 .. k + 1
        PROVE  g[j] = IF j = 0 THEN [cache |-> cache, out |-> {}] ELSE Served(g[j - 1], q[j])
    <3>1. CASE j = k + 1
      <4>1. g[j] = Served(f[k], q[k + 1]) /\ g[j - 1] = f[k]
        BY <3>1
      <4> QED  BY <3>1, <4>1
    <3>2. CASE j # k + 1
      <4>1. j \in 0 .. k
        BY <3>2
      <4>2. f[j] = IF j = 0 THEN [cache |-> cache, out |-> {}] ELSE Served(f[j - 1], q[j])
        BY <2>1, <4>1 DEF Run
      <4>3. g[j] = f[j] /\ (j # 0 => g[j - 1] = f[j - 1])
        BY <3>2, <4>1
      <4> QED  BY <4>2, <4>3
    <3> QED  BY <3>1, <3>2
  <2>3. Run(cache, q, k + 1, g)
    <3>1. g = [j \in 0 .. k + 1 |-> g[j]]
      OBVIOUS
    <3> HIDE DEF g
    <3> QED  BY <2>2, <3>1 DEF Run
  <2> HIDE DEF g
  <2> QED  BY <2>3
<1> HIDE DEF T
<1>3. T = Nat
  <2>1. T \in SUBSET Nat
    BY DEF T
  <2> QED  BY <1>1, <1>2, <2>1, SetInduction
<1> QED  BY <1>3 DEF T

Agree(q, r, n) == \A k \in 1 .. n : q[k] = r[k]

\* Runs agree as far as their events do.
LEMMA RunUnique ==
  ASSUME NEW cache, NEW q, NEW r, NEW n \in Nat, NEW m \in Nat, n <= m,
         Agree(q, r, n),
         NEW f, Run(cache, q, n, f), NEW g, Run(cache, r, m, g)
  PROVE  \A k \in 0 .. n : f[k] = g[k]
<1> DEFINE T == {k \in Nat : k <= n => f[k] = g[k]}
<1>1. 0 \in T
  BY DEF Run
<1>2. ASSUME NEW k \in T
      PROVE  k + 1 \in T
  <2> SUFFICES ASSUME k + 1 <= n
               PROVE  f[k + 1] = g[k + 1]
    OBVIOUS
  <2>1. k + 1 \in 0 .. n /\ k + 1 \in 0 .. m /\ k + 1 \in 1 .. n /\ k + 1 # 0 /\ (k + 1) - 1 = k
    OBVIOUS
  <2>2. f[k + 1] = Served(f[k], q[k + 1])
    BY <2>1 DEF Run
  <2>3. g[k + 1] = Served(g[k], r[k + 1])
    BY <2>1 DEF Run
  <2> QED  BY <2>1, <2>2, <2>3 DEF Agree
<1> HIDE DEF T
<1>3. T = Nat
  <2>1. T \in SUBSET Nat
    BY DEF T
  <2> QED  BY <1>1, <1>2, <2>1, SetInduction
<1> QED  BY <1>3 DEF T

LEMMA ServedAllRuns ==
  ASSUME NEW cache, NEW q, Len(q) \in Nat
  PROVE  \E f : Run(cache, q, Len(q), f) /\ ServedAll(cache, q) = f[Len(q)]
<1> DEFINE g == CHOOSE f : Run(cache, q, Len(q), f)
<1>1. Run(cache, q, Len(q), g)
  BY RunExists
<1>2. ServedAll(cache, q) = g[Len(q)]
  BY DEF ServedAll, Run
<1> HIDE DEF g
<1> QED  BY <1>1, <1>2

LEMMA ServedNone ==
  ASSUME NEW cache
  PROVE  ServedAll(cache, <<>>) = [cache |-> cache, out |-> {}]
<1>1. Len(<<>>) = 0
  OBVIOUS
<1>2. PICK f : Run(cache, <<>>, 0, f) /\ ServedAll(cache, <<>>) = f[0]
  BY <1>1, ServedAllRuns
<1> QED  BY <1>2 DEF Run

\* The last event is served after all others.
LEMMA ServedAppend ==
  ASSUME NEW cache, NEW S, NEW q \in Seq(S), NEW ev \in S
  PROVE  ServedAll(cache, Append(q, ev)) = Served(ServedAll(cache, q), ev)
<1> DEFINE r == Append(q, ev)
           n == Len(q)
<1>1. n \in Nat /\ Len(r) = n + 1 /\ r[n + 1] = ev /\ \A k \in 1 .. n : r[k] = q[k]
  BY Appended
<1> HIDE DEF r, n
<1>2. PICK f : Run(cache, q, n, f) /\ ServedAll(cache, q) = f[n]
  BY <1>1, ServedAllRuns DEF n
<1>3. PICK g : Run(cache, r, n + 1, g) /\ ServedAll(cache, r) = g[n + 1]
  BY <1>1, ServedAllRuns
<1>4. g[n + 1] = Served(g[n], r[n + 1])
  <2>1. n + 1 \in 0 .. n + 1 /\ n + 1 # 0 /\ (n + 1) - 1 = n
    BY <1>1
  <2> QED  BY <1>3, <2>1 DEF Run
<1>5. f[n] = g[n]
  <2>1. n + 1 \in Nat /\ n <= n + 1 /\ n \in 0 .. n /\ Agree(q, r, n)
    BY <1>1 DEF Agree
  <2>2. \A k \in 0 .. n : f[k] = g[k]
    BY <1>1, <1>2, <1>3, <2>1, RunUnique
  <2> QED  BY <2>1, <2>2
<1> QED  BY <1>1, <1>2, <1>3, <1>4, <1>5 DEF r

---------------------------------------------------------------------------
(* The force feedback: what the next poll will make of the events that     *)
(* wait is what the games have asked for.                                  *)

Events ==
  {ev \in [op : {"upload", "erase", "play", "stop"}, effect : Effects, mag : Magnitudes \cup {0}] :
     ev.op = "upload" => ev.mag \in Magnitudes}

NoUploads(q) == \A i \in 1 .. Len(q) : q[i].op # "upload"

\* s, what the events of q come to, is right for a kernel that lets games play
\* kn, when they uploaded up and asked for w last.
ServedRight(s, q, kn, up, w) ==
  /\ s \in [cache : [Effects -> SUBSET Magnitudes], out : SUBSET (0 .. 100)]
  /\ \A e \in kn : s.cache[e] = {up[e]}
  /\ \A i \in 1 .. Len(q) : q[i].op = "upload" => s.cache[q[i].effect] = {up[q[i].effect]}
  /\ s.out = {} /\ "rumble" \notin unsent => motors = ScaleMag(w)
  /\ s.out # {} => s.out = {ScaleMag(w)}

QueueRight(q, kn, up, w) ==
  /\ q \in Seq(Events) /\ kn \subseteq Effects
  /\ up \in [Effects -> Magnitudes \cup {0}] /\ w \in Magnitudes \cup {0}
  /\ ServedRight(ServedAll(effects, q), q, kn, up, w)

RumbleInv ==
  /\ Len(queue) <= MaxEvents /\ request \subseteq Effects
  /\ effects \in [Effects -> SUBSET Magnitudes] /\ motors \in 0 .. 100
  /\ request = {} => NoUploads(queue)
  /\ QueueRight(queue, known, uploaded, want)

LEMMA Scaled ==
  ASSUME NEW m \in Magnitudes \cup {0}
  PROVE  ScaleMag(m) \in 0 .. 100
<1>1. m \in Nat /\ m <= 65535
  BY EventLoopAssumption
<1> QED  BY <1>1 DEF ScaleMag

LEMMA ScaledNone == ScaleMag(0) = 0
BY DEF ScaleMag

\* One more event, and what the games ask for changes with it.
LEMMA QueueStep ==
  ASSUME NEW q, NEW kn, NEW up, NEW w, QueueRight(q, kn, up, w),
         NEW ev \in Events, NEW kn2 \in SUBSET kn, NEW up2, NEW w2,
         \/ /\ ev.op = "upload" /\ NoUploads(q) /\ kn2 = kn /\ w2 = w
            /\ up2 = [up EXCEPT ![ev.effect] = ev.mag]
         \/ ev.op = "erase" /\ NoUploads(q) /\ kn2 = kn \ {ev.effect} /\ up2 = up /\ w2 = w
         \/ ev.op = "play" /\ ev.effect \in kn /\ up2 = up /\ w2 = up[ev.effect]
         \/ ev.op = "stop" /\ up2 = up /\ w2 = 0
  PROVE  QueueRight(Append(q, ev), kn2, up2, w2)
<1> DEFINE s == ServedAll(effects, q)
           r == Append(q, ev)
           t == ServedAll(effects, r)
           n == Len(q)
<1>1. /\ r \in Seq(Events) /\ n \in Nat /\ Len(r) = n + 1
      /\ r[n + 1] = ev /\ \A i \in 1 .. n : r[i] = q[i]
  BY Appended DEF QueueRight
<1>2. t = Served(s, ev)
  BY ServedAppend DEF QueueRight
<1>3. ServedRight(s, q, kn, up, w)
  BY DEF QueueRight
<1>4. ev.effect \in Effects /\ ev.mag \in Magnitudes \cup {0}
  BY DEF Events
<1>5. /\ kn \subseteq Effects /\ kn2 \subseteq Effects
      /\ up \in [Effects -> Magnitudes \cup {0}]
      /\ up2 \in [Effects -> Magnitudes \cup {0}] /\ w2 \in Magnitudes \cup {0}
  BY <1>4 DEF QueueRight
<1> HIDE DEF s, t, n, r
<1>6. s.cache \in [Effects -> SUBSET Magnitudes] /\ s.out \in SUBSET (0 .. 100)
  BY <1>3 DEF ServedRight
<1>7. ASSUME ev.op = "upload"
      PROVE  ServedRight(t, r, kn2, up2, w2)
  <2>1. t = [s EXCEPT !.cache = [@ EXCEPT ![ev.effect] = {ev.mag}]] /\ ev.mag \in Magnitudes
    BY <1>2, <1>7 DEF Served, Cached, Events
  <2>2. /\ t \in [cache : [Effects -> SUBSET Magnitudes], out : SUBSET (0 .. 100)]
        /\ t.out = s.out /\ t.cache[ev.effect] = {ev.mag}
        /\ \A e \in Effects \ {ev.effect} : t.cache[e] = s.cache[e]
    BY <1>3, <1>4, <1>6, <2>1 DEF ServedRight
  <2>3. /\ \A i \in 1 .. n : q[i].op # "upload"
        /\ w2 = w /\ up2[ev.effect] = ev.mag
        /\ \A e \in Effects \ {ev.effect} : up2[e] = up[e]
    BY <1>4, <1>5, <1>7 DEF NoUploads, n
  <2>4. \A e \in kn2 : t.cache[e] = {up2[e]}
    BY <1>3, <1>4, <1>5, <2>2, <2>3 DEF ServedRight
  <2>5. ASSUME NEW i \in 1 .. n + 1, r[i].op = "upload"
        PROVE  t.cache[r[i].effect] = {up2[r[i].effect]}
    <3>1. i = n + 1
      BY <1>1, <2>3, <2>5
    <3> QED  BY <1>1, <2>2, <2>3, <3>1
  <2> QED  BY <1>1, <1>3, <2>2, <2>3, <2>4, <2>5 DEF ServedRight
<1>8. ASSUME ev.op = "erase"
      PROVE  ServedRight(t, r, kn2, up2, w2)
  <2>1. t = [s EXCEPT !.cache[ev.effect] = {}]
    BY <1>2, <1>8 DEF Served
  <2>2. /\ t \in [cache : [Effects -> SUBSET Magnitudes], out : SUBSET (0 .. 100)]
        /\ t.out = s.out
        /\ \A e \in Effects \ {ev.effect} : t.cache[e] = s.cache[e]
    BY <1>3, <1>4, <1>6, <2>1 DEF ServedRight
  <2>3. /\ \A i \in 1 .. n : q[i].op # "upload"
        /\ kn2 = kn \ {ev.effect} /\ w2 = w /\ up2 = up
    BY <1>8 DEF NoUploads, n
  <2>4. \A i \in 1 .. n + 1 : r[i].op # "upload"
    BY <1>1, <1>8, <2>3
  <2>5. \A e \in kn2 : t.cache[e] = {up2[e]}
    BY <1>3, <1>5, <2>2, <2>3 DEF ServedRight
  <2> QED  BY <1>1, <1>3, <2>2, <2>3, <2>4, <2>5 DEF ServedRight
<1>9. ASSUME ev.op # "upload", t = [s EXCEPT !.out = {ScaleMag(w2)}], up2 = up
      PROVE  ServedRight(t, r, kn2, up2, w2)
  <2>1. ScaleMag(w2) \in 0 .. 100
    BY <1>5, Scaled
  <2>2. /\ t \in [cache : [Effects -> SUBSET Magnitudes], out : SUBSET (0 .. 100)]
        /\ t.out = {ScaleMag(w2)} /\ t.cache = s.cache
    BY <1>3, <1>9, <2>1 DEF ServedRight
  <2>3. ASSUME NEW i \in 1 .. n + 1, r[i].op = "upload"
        PROVE  t.cache[r[i].effect] = {up2[r[i].effect]}
    <3>1. i \in 1 .. n
      BY <1>1, <1>9, <2>3
    <3> QED  BY <1>1, <1>3, <1>9, <2>2, <2>3, <3>1 DEF ServedRight, n
  <2> QED  BY <1>1, <1>3, <1>9, <2>2, <2>3 DEF ServedRight
<1>10. ASSUME ev.op = "play"
       PROVE  t = [s EXCEPT !.out = {ScaleMag(w2)}]
  <2>1. s.cache[ev.effect] = {up[ev.effect]} /\ w2 = up[ev.effect]
    BY <1>3, <1>10 DEF ServedRight
  <2>2. {ScaleMag(m) : m \in s.cache[ev.effect]} = {ScaleMag(w2)} /\ s.cache[ev.effect] # {}
    BY <2>1
  <2> QED  BY <1>2, <1>10, <2>2 DEF Served
<1>11. ASSUME ev.op = "stop"
       PROVE  t = [s EXCEPT !.out = {ScaleMag(w2)}]
  BY <1>2, <1>11, ScaledNone DEF Served
<1>12. ServedRight(t, r, kn2, up2, w2)
  BY <1>7, <1>8, <1>9, <1>10, <1>11
<1> QED  BY <1>1, <1>5, <1>12 DEF QueueRight, t, r

LEMMA QueueOne ==
  ASSUME NEW q \in Seq(Events), NEW ev \in Events, NEW fv \in Events
  PROVE  q \o <<ev>> = Append(q, ev) /\ q \o <<ev, fv>> = Append(Append(q, ev), fv)
OBVIOUS

LEMMA UploadStep ==
  ASSUME RumbleInv, NEW e \in Effects, NEW m \in Magnitudes, Upload(e, m)
  PROVE  RumbleInv'
<1> DEFINE ev == [op |-> "upload", effect |-> e, mag |-> m]
<1>1. ev \in Events /\ ev.op = "upload" /\ ev.effect = e /\ ev.mag = m
  BY DEF Events
<1>2. queue' = queue \o <<ev>> /\ Len(queue) + Len(<<ev>>) <= MaxEvents
  BY DEF Upload, Queue
<1> HIDE DEF ev
<1>3. queue' = Append(queue, ev) /\ queue \in Seq(Events) /\ Len(<<ev>>) = 1
  <2>1. Len(<<ev>>) = 1 /\ queue \in Seq(Events)
    BY DEF RumbleInv, QueueRight
  <2> QED  BY <1>1, <1>2, <2>1, QueueOne
<1>4. /\ request = {} /\ request' = {e} /\ uploaded' = [uploaded EXCEPT ![e] = m]
      /\ UNCHANGED <<effects, motors, unsent, known, want>>
  BY DEF Upload
<1>5. QueueRight(queue', known, uploaded', want)
  BY <1>1, <1>3, <1>4, QueueStep DEF RumbleInv
<1>6. QueueRight(queue, known, uploaded, want)'
  BY <1>4, <1>5 DEF QueueRight, ServedRight
<1> QED  BY <1>1, <1>2, <1>3, <1>4, <1>6, Appended DEF RumbleInv

\* A play, or a stop.
LEMMA PlayStep ==
  ASSUME RumbleInv, NEW e \in Effects, PlayEffect(e) \/ StopEffect(e)
  PROVE  RumbleInv'
<1> PICK op \in {"play", "stop"} :
         /\ Queue(<<Event(op, e)>>) /\ e \in known
         /\ want' = IF op = "play" THEN uploaded[e] ELSE 0
  BY DEF PlayEffect, StopEffect
<1> DEFINE ev == Event(op, e)
<1>1. ev \in Events /\ ev.op = op /\ ev.effect = e
  BY DEF Events, Event
<1>2. queue' = queue \o <<ev>> /\ Len(queue) + Len(<<ev>>) <= MaxEvents
  BY DEF Queue
<1> HIDE DEF ev
<1>3. queue' = Append(queue, ev) /\ queue \in Seq(Events) /\ Len(<<ev>>) = 1
  <2>1. Len(<<ev>>) = 1 /\ queue \in Seq(Events)
    BY DEF RumbleInv, QueueRight
  <2> QED  BY <1>1, <1>2, <2>1, QueueOne
<1>4. UNCHANGED <<effects, motors, unsent, request, known, uploaded>>
  BY DEF PlayEffect, StopEffect
<1>5. QueueRight(queue', known, uploaded, want')
  BY <1>1, <1>3, <1>4, QueueStep DEF RumbleInv
<1>6. QueueRight(queue, known, uploaded, want)'
  BY <1>4, <1>5 DEF QueueRight, ServedRight
<1>7. request' = {} => NoUploads(queue')
  BY <1>1, <1>3, <1>4, Appended DEF RumbleInv, NoUploads
<1> QED  BY <1>1, <1>2, <1>3, <1>4, <1>6, <1>7, Appended DEF RumbleInv

\* A stop, and then the erasure.
LEMMA EraseStep ==
  ASSUME RumbleInv, NEW e \in Effects, Erase(e)
  PROVE  RumbleInv'
<1> DEFINE ev == Event("stop", e)
           fv == Event("erase", e)
           q == Append(queue, ev)
<1>1. ev \in Events /\ fv \in Events /\ ev.op = "stop" /\ fv.op = "erase" /\ fv.effect = e
  BY DEF Events, Event
<1>2. queue' = queue \o <<ev, fv>> /\ Len(queue) + Len(<<ev, fv>>) <= MaxEvents
  BY DEF Erase, Queue
<1> HIDE DEF ev, fv
<1>3. queue \in Seq(Events) /\ queue' = Append(q, fv) /\ Len(<<ev, fv>>) = 2
  <2>1. Len(<<ev, fv>>) = 2 /\ queue \in Seq(Events)
    BY DEF RumbleInv, QueueRight
  <2> QED  BY <1>1, <1>2, <2>1, QueueOne
<1>4. /\ request = {} /\ request' = {e} /\ known' = known \ {e} /\ want' = 0
      /\ UNCHANGED <<effects, motors, unsent, uploaded>>
  BY DEF Erase
<1>5. QueueRight(q, known, uploaded, 0) /\ NoUploads(q)
  <2>1. QueueRight(q, known, uploaded, 0)
    BY <1>1, QueueStep DEF RumbleInv
  <2> QED  BY <1>1, <1>3, <1>4, <2>1, Appended DEF RumbleInv, NoUploads
<1>6. q \in Seq(Events) /\ Len(q) = Len(queue) + 1 /\ Len(queue) \in Nat
  BY <1>1, <1>3, Appended
<1> HIDE DEF q
<1>7. QueueRight(queue', known', uploaded, 0)
  BY <1>1, <1>3, <1>4, <1>5, QueueStep
<1>8. QueueRight(queue, known, uploaded, want)'
  BY <1>4, <1>7 DEF QueueRight, ServedRight
<1>9. Len(queue') = Len(queue) + 2
  BY <1>1, <1>3, <1>6, Appended
<1> QED  BY <1>2, <1>3, <1>4, <1>6, <1>8, <1>9 DEF RumbleInv

\* The poll makes of the events what was to be made of them.
LEMMA PollStep ==
  ASSUME RumbleInv, Poll
  PROVE  RumbleInv'
<1> DEFINE s == ServedAll(effects, queue)
<1>1. /\ effects' = s.cache /\ Rumble(s.out)
      /\ queue' = <<>> /\ request' = {} /\ UNCHANGED <<uploaded, want>>
      /\ known' = known \cup {queue[i].effect : i \in {j \in DOMAIN queue : queue[j].op = "upload"}}
  BY DEF Poll, Answered
<1>2. /\ s \in [cache : [Effects -> SUBSET Magnitudes], out : SUBSET (0 .. 100)]
      /\ \A e \in known : s.cache[e] = {uploaded[e]}
      /\ \A i \in 1 .. Len(queue) :
           queue[i].op = "upload" => s.cache[queue[i].effect] = {uploaded[queue[i].effect]}
      /\ s.out = {} /\ "rumble" \notin unsent => motors = ScaleMag(want)
      /\ s.out # {} => s.out = {ScaleMag(want)}
  BY DEF RumbleInv, QueueRight, ServedRight
<1>3. /\ queue \in Seq(Events) /\ DOMAIN queue = 1 .. Len(queue) /\ known \subseteq Effects
      /\ \A i \in 1 .. Len(queue) : queue[i] \in Events
      /\ uploaded \in [Effects -> Magnitudes \cup {0}] /\ want \in Magnitudes \cup {0}
      /\ motors \in 0 .. 100
  BY DEF RumbleInv, QueueRight
<1> HIDE DEF s
<1>4. motors' \in 0 .. 100 /\ ("rumble" \notin unsent' => motors' = ScaleMag(want))
  <2>1. ScaleMag(want) \in 0 .. 100
    BY <1>3, Scaled
  <2>2. CASE s.out = {} /\ UNCHANGED <<motors, unsent>>
    BY <1>2, <1>3, <2>2
  <2>3. CASE s.out # {} /\ motors' = ScaleMag(want) /\ unsent' = unsent \ {"rumble"}
    BY <2>1, <2>3
  <2>4. CASE motors' \in {motors, ScaleMag(want)} /\ unsent' = unsent \cup {"rumble"}
    BY <1>3, <2>1, <2>4
  <2> QED  BY <1>1, <1>2, <2>2, <2>3, <2>4 DEF Rumble, Delivered, Undelivered
<1>5. known' \subseteq Effects /\ \A e \in known' : s.cache[e] = {uploaded[e]}
  <2> SUFFICES ASSUME NEW e \in known'
               PROVE  e \in Effects /\ s.cache[e] = {uploaded[e]}
    OBVIOUS
  <2>1. CASE e \in known
    BY <1>2, <1>3, <2>1
  <2>2. CASE e \notin known
    <3>1. PICK i \in 1 .. Len(queue) : queue[i].op = "upload" /\ e = queue[i].effect
      BY <1>1, <1>3, <2>2
    <3> QED  BY <1>2, <1>3, <3>1 DEF Events
  <2> QED  BY <2>1, <2>2
<1>6. QueueRight(queue, known, uploaded, want)'
  <2>1. ServedAll(effects', <<>>) = [cache |-> s.cache, out |-> {}]
    BY <1>1, ServedNone
  <2>2. s.cache \in [Effects -> SUBSET Magnitudes]
    BY <1>2
  <2>3. ServedAll(effects', queue') = [cache |-> s.cache, out |-> {}] /\ Len(queue') = 0
    BY <1>1, <2>1
  <2>4. ServedRight(ServedAll(effects, queue), queue, known, uploaded, want)'
    BY <1>1, <1>4, <1>5, <2>2, <2>3 DEF ServedRight
  <2> QED  BY <1>1, <1>3, <1>5, <2>4 DEF QueueRight
<1>7. effects' \in [Effects -> SUBSET Magnitudes] /\ Len(queue') <= MaxEvents /\ NoUploads(queue')
  BY <1>1, <1>2, EventLoopAssumption DEF NoUploads
<1> QED  BY <1>1, <1>4, <1>6, <1>7 DEF RumbleInv

\* Everything else leaves the games, the cache and the motors alone.
LEMMA CalmStep ==
  ASSUME RumbleInv, UNCHANGED <<gameVars, effects, motors>>,
         "rumble" \in unsent' <=> "rumble" \in unsent
  PROVE  RumbleInv'
BY DEF RumbleInv, QueueRight, ServedRight

LEMMA RumbleNext ==
  ASSUME RumbleInv, [Next]_vars
  PROVE  RumbleInv'
<1>1. CASE Game
  BY <1>1, UploadStep, EraseStep, PlayStep DEF Game
<1>2. CASE Poll
  BY <1>2, PollStep
<1>3. CASE LeaveOnStop \/ Receive \/ TimedOut \/ Miss \/ Disconnected \/ HandleButton \/ HandleStatus
  BY <1>3, CalmStep
  DEF LeaveOnStop, Receive, TimedOut, Miss, Disconnected, HandleButton, HandleStatus
<1>4. CASE HandleMute \/ HandleVolume \/ Reply
  BY <1>4, CalmStep DEF HandleMute, HandleVolume, Reply, Delivered, Undelivered
<1>5. CASE Controller \/ Desktop \/ Signal \/ UNCHANGED vars
  BY <1>5, CalmStep
  DEF Controller, Press, Turn, Heartbeat, Unplug, Desktop, SetSystem, Signal, vars
<1> QED  BY <1>1, <1>2, <1>3, <1>4, <1>5 DEF Next, RunEventLoop

LEMMA RumbleInit ==
  ASSUME Init
  PROVE  RumbleInv
<1>1. /\ effects = [e \in Effects |-> {}] /\ motors = 0 /\ queue = <<>> /\ request = {}
      /\ known = {} /\ uploaded = [e \in Effects |-> 0] /\ want = 0
  BY DEF Init
<1>2. ServedAll(effects, <<>>) = [cache |-> effects, out |-> {}]
  BY ServedNone
<1>3. ServedAll(effects, queue) = [cache |-> effects, out |-> {}] /\ Len(queue) = 0
  BY <1>1, <1>2
<1>4. ServedRight(ServedAll(effects, queue), queue, known, uploaded, want)
  <2>1. [cache |-> effects, out |-> {}] \in [cache : [Effects -> SUBSET Magnitudes], out : SUBSET (0 .. 100)]
    BY <1>1
  <2>2. motors = ScaleMag(want)
    BY <1>1, ScaledNone
  <2>3. known = {} /\ ~(\E i \in 1 .. Len(queue) : TRUE)
    BY <1>1, <1>3
  <2>4. ServedAll(effects, queue) \in [cache : [Effects -> SUBSET Magnitudes], out : SUBSET (0 .. 100)]
        /\ ServedAll(effects, queue).out = {}
    BY <1>3, <2>1
  <2> QED  BY <2>2, <2>3, <2>4 DEF ServedRight
<1> QED  BY <1>1, <1>4, EventLoopAssumption DEF RumbleInv, QueueRight, NoUploads

LEMMA RumbleAlways == Spec => []RumbleInv
BY RumbleInit, RumbleNext, PTL DEF Spec

\* For any effects, magnitudes and events in a queue of any length: when none
\* waits the motors do what the last play or stop asked for, with the magnitude
\* uploaded before it, unless that command was not delivered.
THEOREM RumbleFollows == Spec => []MotorsFollow
<1>1. RumbleInv => MotorsFollow
  <2> SUFFICES ASSUME RumbleInv, queue = <<>>, "rumble" \notin unsent
               PROVE  motors = ScaleMag(want)
    BY DEF MotorsFollow
  <2>1. ServedAll(effects, queue).out = {}
    BY ServedNone
  <2> QED  BY <2>1 DEF RumbleInv, QueueRight, ServedRight
<1> QED  BY <1>1, RumbleAlways, PTL

---------------------------------------------------------------------------
(* The other types. *)

TypeInv ==
  /\ pc \in {"top", "recv", "handle", "volume", "reply", "returned"}
  /\ raw \in Reports \cup {NoReport}
  /\ stop \in BOOLEAN /\ gone \in BOOLEAN
  /\ pad \in [Buttons -> BOOLEAN] /\ system \in Settings
  /\ last["mute"] \in SUBSET Mutes /\ last["vol"] \in SUBSET Levels
  /\ hw \in {"own", "max"} /\ Len(outbox) <= MaxReports
  /\ unheard \subseteq Kinds /\ unsent \subseteq {"rumble", "reply"}

LEMMA ReportKinds ==
  ASSUME NEW r \in Reports
  PROVE  /\ r.kind \in Kinds
         /\ r.kind \in Buttons => r.v \in BOOLEAN
         /\ r.kind = "media" => r.v \in Settings
BY KindsAssumption DEF Reports, Kinds

LEMMA MirrorTypes ==
  ASSUME IInv, TypeInv, NEW a \in Controls, Mirror(a), raw.kind = "media"
  PROVE  /\ system' \in Settings
         /\ last'["mute"] \in SUBSET Mutes /\ last'["vol"] \in SUBSET Levels
<1>1. raw.v \in Settings
  BY ReportKinds DEF TypeInv, NoReport
<1>2. system' = system \/ system' = [system EXCEPT ![a] = raw.v[a]]
  BY DEF Mirror
<1>3. system' \in Settings
  BY <1>1, <1>2 DEF TypeInv, Settings, Controls
<1>4. last'[a] = {raw.v[a]} /\ \A c \in Controls \ {a} : last'[c] = last[c]
  BY MirrorStep DEF IInv
<1> QED  BY <1>1, <1>3, <1>4 DEF TypeInv, Settings, Controls

LEMMA TypeNext ==
  ASSUME IInv, TypeInv, [Next]_vars
  PROVE  TypeInv'
<1>1. outbox \in Seq(Reports)
  BY DEF IInv, Types
<1>2. CASE Poll \/ LeaveOnStop \/ TimedOut \/ Disconnected
  BY <1>2 DEF TypeInv, Poll, Rumble, Delivered, Undelivered, LeaveOnStop, TimedOut, Disconnected
<1>3. CASE Receive \/ Miss
  <2>1. outbox # <<>> /\ outbox' = Tail(outbox)
    BY <1>3 DEF Receive, Miss
  <2>2. Head(outbox) \in Reports /\ Head(outbox).kind \in Kinds /\ Len(outbox') <= Len(outbox)
    BY <1>1, <2>1, Tailed, ReportKinds
  <2>3. Len(outbox) \in Nat /\ Len(outbox') \in Nat
    BY <1>1, <2>1
  <2>4. Len(outbox') <= MaxReports
    BY <2>2, <2>3, EventLoopAssumption DEF TypeInv
  <2> QED  BY <1>3, <2>2, <2>4 DEF TypeInv, Receive, Miss
<1>4. CASE HandleButton
  <2>1. raw.v \in BOOLEAN
    BY <1>4, ReportKinds, Kinded DEF TypeInv, HandleButton
  <2> QED  BY <1>4, <2>1 DEF TypeInv, HandleButton
<1>5. CASE HandleStatus \/ Reply
  BY <1>5 DEF TypeInv, HandleStatus, Reply, Delivered, Undelivered
<1>6. CASE HandleMute
  BY <1>6, MirrorTypes DEF TypeInv, HandleMute, Controls
<1>7. CASE HandleVolume
  BY <1>7, MirrorTypes DEF TypeInv, HandleVolume, Controls, IInv, PhaseInv
<1>8. CASE \E kind, v : Report(kind, v) /\ hw' \in {hw, "own"}
                       /\ UNCHANGED <<loopVars, uinputVars, gone, system, historyVars>>
  <2>1. Len(outbox') = Len(outbox) + 1 /\ Len(outbox) \in Nat /\ Len(outbox) < MaxReports
    BY <1>1, <1>8 DEF Report
  <2>2. Len(outbox') <= MaxReports
    BY <2>1, EventLoopAssumption
  <2> QED  BY <1>8, <2>2 DEF TypeInv
<1>9. CASE Unplug
  <2>1. Len(outbox') <= MaxReports
    BY <1>9, EventLoopAssumption DEF Unplug
  <2> QED  BY <1>9, <2>1 DEF TypeInv, Unplug
<1>10. CASE Desktop
  <2>1. system' \in Settings
    BY <1>10 DEF Desktop, SetSystem, TypeInv, Settings, Controls, Values
  <2> QED  BY <1>10, <2>1 DEF Desktop, SetSystem, TypeInv
<1>11. CASE Game \/ Signal \/ UNCHANGED vars
  BY <1>11 DEF TypeInv, Game, Upload, Erase, PlayEffect, StopEffect, Signal, vars
<1>12. ASSUME Controller
       PROVE  TypeInv'
  BY <1>8, <1>9, <1>12 DEF Controller, Press, Turn, Heartbeat
<1> QED
  BY <1>2, <1>3, <1>4, <1>5, <1>6, <1>7, <1>10, <1>11, <1>12 DEF Next, RunEventLoop

LEMMA TypeInit ==
  ASSUME Init
  PROVE  TypeInv
<1>1. Len(outbox) <= MaxReports
  BY EventLoopAssumption DEF Init
<1> QED  BY <1>1 DEF Init, TypeInv, Controls

\* Every variable stays in its range: a report is what its kind says it is, the
\* cache of effects holds magnitudes that were uploaded, and what is sent to
\* the motors lies within the range of the command.
THEOREM TypeCorrect == Spec => []TypeOK
<1>1. Spec => []TypeInv
  BY TypeInit, TypeNext, Always, PTL DEF Spec
<1>2. IInv /\ RumbleInv /\ TypeInv => TypeOK
  <2> SUFFICES ASSUME IInv, RumbleInv, TypeInv
               PROVE  TypeOK
    OBVIOUS
  <2>1. \A i \in DOMAIN outbox : outbox[i].kind \in Kinds
    <3>1. outbox \in Seq(Reports)
      BY DEF IInv, Types
    <3> QED  BY <3>1, ReportKinds
  <2>2. raw.kind \in Kinds \cup {"none"}
    BY ReportKinds DEF TypeInv, NoReport
  <2> QED  BY <2>1, <2>2 DEF IInv, Types, RumbleInv, QueueRight, TypeInv, TypeOK
<1> QED  BY <1>1, <1>2, Always, RumbleAlways, PTL
=============================================================================
