-------------------------- MODULE LifecycleProofs --------------------------
(***************************************************************************)
(* Proofs about Lifecycle for any number of plugs, failures and connection *)
(* attempts.                                                               *)
(*                                                                         *)
(* HeldInv ties the locals main holds to where it is and to the addresses  *)
(* it uses; DeviceInv says what is true of the device on the bus, whether  *)
(* it is the one main opened or one plugged since.  What makes it          *)
(* inductive is that addresses are not reused: the device on the bus is    *)
(* the one plugged last, and what was killed last is not newer than what   *)
(* is open.                                                                *)
(***************************************************************************)
EXTENDS Lifecycle, Integers, SequenceTheorems, TLAPS

\* Main's locals, after so many of its calls.
H0 == <<>>
H1 == <<"dev">>
H2 == <<"dev", "bridge">>
H3 == <<"dev", "bridge", "iso">>
H4 == <<"dev", "bridge", "iso", "uinput">>

HeldInv ==
  /\ held \in {H0, H1, H2, H3, H4}
  /\ main \in {"off", "open"} => held = H0
  /\ main \in {"bring_up", "bridge"} => held = H1
  /\ main = "iso" => held = H2
  /\ main = "uinput" => held = H3
  /\ main \in {"handlers", "loop"} => held = H4
  /\ addr = 0 <=> held = H0
  /\ isoAddr = IF held \in {H3, H4} THEN addr ELSE 0

DeviceInv ==
  /\ dev \in {0, plugs}
  /\ addr =< plugs /\ killed =< plugs
  /\ addr # 0 => killed =< addr
  /\ addr # 0 /\ addr = dev => ~xpad
  /\ addr # 0 /\ addr = dev /\ (main = "bridge" \/ held \in {H2, H3, H4}) => powered = addr
  /\ dev # 0 /\ addr # dev => xpad \/ killed = dev

UnitInv ==
  /\ main # "off" <=> unit = "active"
  /\ audio = "connecting" => attempt < MaxAttempts

IInv == TypeOK /\ HeldInv /\ DeviceInv /\ UnitInv
USE LifecycleAssumption
USE DEF deviceVars, unitVars, processVars, audioVars

\* TypeOK, variable by variable.
Numbers ==
  /\ dev \in Address /\ plugs \in Address /\ powered \in Address
  /\ addr \in Address /\ isoAddr \in Address /\ killed \in Address
  /\ attempt \in 0 .. MaxAttempts /\ fails \in 0 .. MaxFails /\ code \in {0, 1}
Flags ==
  /\ xpad \in BOOLEAN /\ event \in BOOLEAN /\ stopJob \in BOOLEAN /\ asked \in BOOLEAN
  /\ handlers \in BOOLEAN /\ stop \in BOOLEAN /\ quit \in BOOLEAN /\ pipewire \in BOOLEAN
States ==
  /\ unit \in {"inactive", "active", "restart"}
  /\ main \in {"off", "open", "bring_up", "bridge", "iso", "uinput", "handlers", "loop", "unwind"}
  /\ audio \in {"none", "connecting", "running", "ended"}

Locals == {"dev", "bridge", "iso", "uinput"}

LEMMA LocalsLen ==
  /\ H1 \in Seq(Locals) /\ H2 \in Seq(Locals) /\ H3 \in Seq(Locals) /\ H4 \in Seq(Locals)
  /\ Len(H1) = 1 /\ Len(H2) = 2 /\ Len(H3) = 3 /\ Len(H4) = 4
<1>1. "dev" \in Locals /\ "bridge" \in Locals /\ "iso" \in Locals /\ "uinput" \in Locals
  BY DEF Locals
<1>2. H1 \in Seq(Locals) /\ H2 \in Seq(Locals)
  BY <1>1 DEF H1, H2
<1>3. H3 \in Seq(Locals)
  BY <1>1 DEF H3
<1>4. H4 \in Seq(Locals)
  BY <1>1 DEF H4
<1>5. Len(H1) = 1 /\ Len(H2) = 2 /\ Len(H3) = 3 /\ Len(H4) = 4
  BY DEF H1, H2, H3, H4
<1> QED  BY <1>2, <1>3, <1>4, <1>5

\* A sequence of locals cut to its first n, or with one more.
LEMMA CutIs ==
  ASSUME NEW s \in Seq(Locals), NEW t \in Seq(Locals), NEW n \in Nat,
         n = Len(t), n <= Len(s), \A i \in 1 .. n : s[i] = t[i]
  PROVE  SubSeq(s, 1, n) = t
<1>1. \A i \in 1 .. n : s[i] \in Locals
  OBVIOUS
<1>2. /\ SubSeq(s, 1, n) \in Seq(Locals)
      /\ Len(SubSeq(s, 1, n)) = IF 1 <= n THEN n - 1 + 1 ELSE 0
      /\ \A i \in 1 .. n - 1 + 1 : SubSeq(s, 1, n)[i] = s[1 + i - 1]
  BY <1>1, SubSeqProperties
<1>3. Len(SubSeq(s, 1, n)) = n /\ \A i \in 1 .. n : SubSeq(s, 1, n)[i] = t[i]
  BY <1>2
<1> QED  BY <1>2, <1>3, SeqEqual

LEMMA GrownIs ==
  ASSUME NEW s \in Seq(Locals), NEW t \in Seq(Locals), NEW x \in Locals,
         Len(t) = Len(s) + 1, t[Len(s) + 1] = x, \A i \in 1 .. Len(s) : s[i] = t[i]
  PROVE  Append(s, x) = t
<1>1. /\ Append(s, x) \in Seq(Locals) /\ Len(Append(s, x)) = Len(s) + 1
      /\ \A i \in 1 .. Len(s) : Append(s, x)[i] = s[i]
      /\ Append(s, x)[Len(s) + 1] = x
  BY AppendProperties
<1>2. \A i \in 1 .. Len(s) + 1 : Append(s, x)[i] = t[i]
  BY <1>1
<1> QED  BY <1>1, <1>2, SeqEqual

LEMMA LocalsElements ==
  /\ H1[1] = "dev" /\ H2[1] = "dev" /\ H3[1] = "dev" /\ H4[1] = "dev"
  /\ H2[2] = "bridge" /\ H3[2] = "bridge" /\ H4[2] = "bridge"
  /\ H3[3] = "iso" /\ H4[3] = "iso" /\ H4[4] = "uinput"
BY DEF H1, H2, H3, H4

LEMMA LocalsAgree ==
  /\ \A i \in 1 .. 1 : H1[i] = H2[i] /\ H2[i] = H1[i] /\ H4[i] = H1[i]
  /\ \A i \in 1 .. 2 : H2[i] = H3[i] /\ H3[i] = H2[i] /\ H4[i] = H2[i]
  /\ \A i \in 1 .. 3 : H3[i] = H4[i] /\ H4[i] = H3[i]
BY LocalsElements

Prefix == \E n \in 0 .. 4 : held = SubSeq(<<"dev", "bridge", "iso", "uinput">>, 1, n)
OneOfLocals == held \in {H0, H1, H2, H3, H4}

LEMMA LocalsArePrefixes == Prefix <=> OneOfLocals
<1> DEFINE P(n) == SubSeq(H4, 1, n)
<1>1. P(0) = H0 /\ P(1) = H1 /\ P(2) = H2 /\ P(3) = H3 /\ P(4) = H4
  <2>1. P(0) = H0
    BY LocalsLen, SubSeqEmpty DEF H0
  <2>2. P(1) = H1 /\ P(2) = H2 /\ P(3) = H3 /\ P(4) = H4
    BY LocalsLen, LocalsAgree, CutIs
  <2> QED  BY <2>1, <2>2
<1>2. \A n \in 0 .. 4 : n = 0 \/ n = 1 \/ n = 2 \/ n = 3 \/ n = 4
  OBVIOUS
<1>3. (\E n \in 0 .. 4 : held = P(n)) <=> held \in {P(0), P(1), P(2), P(3), P(4)}
  <2> HIDE DEF P
  <2> QED  BY <1>2
<1>4. OneOfLocals <=> held \in {P(0), P(1), P(2), P(3), P(4)}
  <2> HIDE DEF P
  <2> QED  BY <1>1 DEF OneOfLocals
<1>5. Prefix <=> \E n \in 0 .. 4 : held = P(n)
  BY Zenon DEF Prefix, H4
<1> QED  BY <1>3, <1>4, <1>5, Zenon

LEMMA Types == TypeOK <=> Numbers /\ Flags /\ States /\ held \in {H0, H1, H2, H3, H4}
<1>1. {dev, plugs, powered, addr, isoAddr, killed} \subseteq Address
        <=> /\ dev \in Address /\ plugs \in Address /\ powered \in Address
            /\ addr \in Address /\ isoAddr \in Address /\ killed \in Address
  OBVIOUS
<1>2. {xpad, event, stopJob, asked, handlers, stop, quit, pipewire} \subseteq BOOLEAN <=> Flags
  BY Zenon DEF Flags
<1>3. ASSUME TypeOK
      PROVE  Numbers /\ Flags /\ States /\ held \in {H0, H1, H2, H3, H4}
  <2>1. Flags
    BY <1>2, <1>3, Zenon DEF TypeOK
  <2>2. Numbers
    BY <1>1, <1>3 DEF TypeOK, Numbers
  <2>3. States
    BY <1>3, Zenon DEF TypeOK, States
  <2>4. held \in {H0, H1, H2, H3, H4}
    <3>1. Prefix
      BY <1>3, Zenon DEF TypeOK, Prefix
    <3> QED  BY <3>1, LocalsArePrefixes DEF OneOfLocals
  <2> QED  BY <2>1, <2>2, <2>3, <2>4
<1>4. ASSUME Numbers, Flags, States, held \in {H0, H1, H2, H3, H4}
      PROVE  TypeOK
  <2>1. {dev, plugs, powered, addr, isoAddr, killed} \subseteq Address
    BY <1>4 DEF Numbers
  <2>2. {xpad, event, stopJob, asked, handlers, stop, quit, pipewire} \subseteq BOOLEAN
    BY <1>2, <1>4
  <2>3. Prefix
    BY <1>4, LocalsArePrefixes DEF OneOfLocals
  <2>4. code \in {0, 1} /\ attempt \in 0 .. MaxAttempts /\ fails \in 0 .. MaxFails
    BY <1>4 DEF Numbers
  <2> QED  BY <1>4, <2>1, <2>2, <2>3, <2>4, Zenon DEF TypeOK, States, Prefix
<1> QED  BY <1>3, <1>4

USE DEF H0, H1, H2, H3, H4

LEMMA LocalsDiffer ==
  /\ H0 # H1 /\ H0 # H2 /\ H0 # H3 /\ H0 # H4 /\ H1 # H2 /\ H1 # H3 /\ H1 # H4
  /\ H2 # H3 /\ H2 # H4 /\ H3 # H4
OBVIOUS

LEMMA LocalsGrow ==
  /\ Append(H1, "bridge") = H2 /\ Append(H2, "iso") = H3 /\ Append(H3, "uinput") = H4
<1> HIDE DEF H1, H2, H3, H4
<1>1. "bridge" \in Locals /\ "iso" \in Locals /\ "uinput" \in Locals
  BY DEF Locals
<1>2. Append(H1, "bridge") = H2
  <2>1. Len(H2) = Len(H1) + 1 /\ H2[Len(H1) + 1] = "bridge"
    BY LocalsLen, LocalsElements
  <2>2. \A i \in 1 .. Len(H1) : H1[i] = H2[i]
    BY LocalsLen, LocalsAgree
  <2> QED  BY <1>1, <2>1, <2>2, LocalsLen, GrownIs
<1>3. Append(H2, "iso") = H3
  <2>1. Len(H3) = Len(H2) + 1 /\ H3[Len(H2) + 1] = "iso"
    BY LocalsLen, LocalsElements
  <2>2. \A i \in 1 .. Len(H2) : H2[i] = H3[i]
    BY LocalsLen, LocalsAgree
  <2> QED  BY <1>1, <2>1, <2>2, LocalsLen, GrownIs
<1>4. Append(H3, "uinput") = H4
  <2>1. Len(H4) = Len(H3) + 1 /\ H4[Len(H3) + 1] = "uinput"
    BY LocalsLen, LocalsElements
  <2>2. \A i \in 1 .. Len(H3) : H3[i] = H4[i]
    BY LocalsLen, LocalsAgree
  <2> QED  BY <1>1, <2>1, <2>2, LocalsLen, GrownIs
<1> QED  BY <1>2, <1>3, <1>4

LEMMA LocalsShrink ==
  /\ Front(H1) = H0 /\ Front(H2) = H1 /\ Front(H3) = H2 /\ Front(H4) = H3
  /\ Last(H1) = "dev" /\ Last(H2) = "bridge" /\ Last(H3) = "iso" /\ Last(H4) = "uinput"
<1> HIDE DEF H1, H2, H3, H4
<1>1. Last(H1) = "dev" /\ Last(H2) = "bridge" /\ Last(H3) = "iso" /\ Last(H4) = "uinput"
  BY LocalsLen, LocalsElements DEF Last
<1>2. /\ Front(H1) = SubSeq(H1, 1, 0) /\ Front(H2) = SubSeq(H2, 1, 1)
      /\ Front(H3) = SubSeq(H3, 1, 2) /\ Front(H4) = SubSeq(H4, 1, 3)
  BY LocalsLen DEF Front
<1>3. SubSeq(H1, 1, 0) = H0
  BY SubSeqEmpty
<1>4. SubSeq(H2, 1, 1) = H1
  BY LocalsLen, LocalsAgree, CutIs
<1>5. SubSeq(H3, 1, 2) = H2
  BY LocalsLen, LocalsAgree, CutIs
<1>6. SubSeq(H4, 1, 3) = H3
  BY LocalsLen, LocalsAgree, CutIs
<1> QED  BY <1>1, <1>2, <1>3, <1>4, <1>5, <1>6
---------------------------------------------------------------------------
(* The steps preserve IInv. *)

\* From here on a value of held is known by its name.
Inv == Numbers /\ Flags /\ States /\ HeldInv /\ DeviceInv /\ UnitInv

LEMMA IInvIs == IInv <=> Inv
BY Types DEF IInv, Inv, HeldInv

LEMMA InvInit == Init => Inv
<1> SUFFICES ASSUME Init
             PROVE  Inv
  OBVIOUS
<1>1. Numbers /\ States /\ HeldInv
  BY DEF Init, Numbers, States, Address, HeldInv
<1>2. Flags
  BY DEF Init, Flags
<1>3. DeviceInv /\ UnitInv
  BY DEF Init, DeviceInv, UnitInv
<1> QED  BY <1>1, <1>2, <1>3 DEF Inv

LEMMA FlagsStep ==
  ASSUME Flags, [Next]_vars
  PROVE  Flags'
<1>1. CASE Main
  BY <1>1 DEF Flags, Main, Goto, Leave, Fail, OpenAbsent, Open, BringUp, StartBridge, StartIso,
     CreateUinput, InstallHandlers, LoopEnds, DropLocal, SendQuit, DropBridge, DropDevice, Exit
<1>2. CASE Audio
  BY <1>2 DEF Flags, Audio, ConnectFails, Connect, LoopQuits
<1>3. CASE Activate \/ Restart \/ StopService
  BY <1>3 DEF Flags, Activate, Restart, StopService, Start
<1>4. CASE Plug \/ Unplug \/ PipeWireUp
  BY <1>4 DEF Flags, Plug, Unplug, PipeWireUp
<1>5. CASE UNCHANGED vars
  BY <1>5 DEF Flags, vars
<1> QED  BY <1>1, <1>2, <1>3, <1>4, <1>5 DEF Next

LEMMA LocalsNames == H0 = <<>> /\ H1 = <<"dev">>
OBVIOUS

LEMMA MainStep ==
  ASSUME Inv, Main
  PROVE  Numbers' /\ States' /\ HeldInv' /\ DeviceInv' /\ UnitInv'
<1> HIDE DEF H0, H1, H2, H3, H4
<1>1. CASE OpenAbsent
  <2>1. Numbers' /\ States' /\ UnitInv'
    BY <1>1 DEF OpenAbsent, Goto, Leave, Fail, Inv, Numbers, States, UnitInv, HeldInv, Address
  <2>2. HeldInv'
    BY <1>1, LocalsDiffer, LocalsNames
       DEF OpenAbsent, Goto, Leave, Fail, Inv, HeldInv, Numbers, States, UnitInv
  <2>3. DeviceInv'
    BY <1>1, LocalsDiffer, LocalsNames
       DEF OpenAbsent, Goto, Leave, Fail, Inv, Numbers, HeldInv, DeviceInv, Address
  <2> QED  BY <2>1, <2>2, <2>3
<1>2. CASE Open
  <2>1. Numbers' /\ States' /\ UnitInv'
    BY <1>2 DEF Open, Goto, Leave, Fail, Inv, Numbers, States, UnitInv, HeldInv, Address
  <2>2. HeldInv'
    BY <1>2, LocalsDiffer, LocalsNames
       DEF Open, Goto, Leave, Fail, Inv, HeldInv, Numbers, States, UnitInv
  <2>3. DeviceInv'
    BY <1>2, LocalsDiffer, LocalsNames
       DEF Open, Goto, Leave, Fail, Inv, Numbers, HeldInv, DeviceInv, Address
  <2> QED  BY <2>1, <2>2, <2>3
<1>3. CASE BringUp
  <2>1. Numbers' /\ States' /\ UnitInv'
    BY <1>3 DEF BringUp, Goto, Leave, Fail, Inv, Numbers, States, UnitInv, HeldInv, Address
  <2>2. HeldInv'
    BY <1>3, LocalsDiffer
       DEF BringUp, Goto, Leave, Fail, Inv, HeldInv, Numbers, States, UnitInv
  <2>3. DeviceInv'
    BY <1>3, LocalsDiffer
       DEF BringUp, Goto, Leave, Fail, Inv, Numbers, HeldInv, DeviceInv, Address
  <2> QED  BY <2>1, <2>2, <2>3
<1>4. CASE StartBridge
  <2>1. Numbers' /\ States' /\ UnitInv'
    BY <1>4 DEF StartBridge, Goto, Leave, Fail, Inv, Numbers, States, UnitInv, HeldInv, Address
  <2>2. HeldInv'
    BY <1>4, LocalsDiffer, LocalsGrow
       DEF StartBridge, Goto, Leave, Fail, Inv, HeldInv, Numbers, States, UnitInv
  <2>3. DeviceInv'
    BY <1>4, LocalsDiffer, LocalsGrow
       DEF StartBridge, Goto, Leave, Fail, Inv, Numbers, HeldInv, DeviceInv, Address
  <2> QED  BY <2>1, <2>2, <2>3
<1>5. CASE StartIso
  <2>1. Numbers' /\ States' /\ UnitInv'
    BY <1>5 DEF StartIso, Goto, Leave, Fail, Inv, Numbers, States, UnitInv, HeldInv, Address
  <2>2. HeldInv'
    BY <1>5, LocalsDiffer, LocalsGrow
       DEF StartIso, Goto, Leave, Fail, Inv, HeldInv, Numbers, States, UnitInv
  <2>3. DeviceInv'
    BY <1>5, LocalsDiffer, LocalsGrow
       DEF StartIso, Goto, Leave, Fail, Inv, Numbers, HeldInv, DeviceInv, Address
  <2> QED  BY <2>1, <2>2, <2>3
<1>6. CASE CreateUinput
  <2>1. Numbers' /\ States' /\ UnitInv'
    BY <1>6
       DEF CreateUinput, Goto, Leave, Fail, Inv, Numbers, States, UnitInv, HeldInv, Address
  <2>2. HeldInv'
    BY <1>6, LocalsDiffer, LocalsGrow
       DEF CreateUinput, Goto, Leave, Fail, Inv, HeldInv, Numbers, States, UnitInv
  <2>3. DeviceInv'
    BY <1>6, LocalsDiffer, LocalsGrow
       DEF CreateUinput, Goto, Leave, Fail, Inv, Numbers, HeldInv, DeviceInv, Address
  <2> QED  BY <2>1, <2>2, <2>3
<1>7. CASE InstallHandlers
  <2>1. Numbers' /\ States' /\ UnitInv'
    BY <1>7 DEF InstallHandlers, Goto, Inv, Numbers, States, UnitInv, HeldInv, Address
  <2>2. HeldInv'
    BY <1>7, LocalsDiffer DEF InstallHandlers, Goto, Inv, HeldInv, Numbers, States, UnitInv
  <2>3. DeviceInv'
    BY <1>7, LocalsDiffer DEF InstallHandlers, Goto, Inv, Numbers, HeldInv, DeviceInv, Address
  <2> QED  BY <2>1, <2>2, <2>3
<1>8. CASE LoopEnds
  <2>1. Numbers' /\ States' /\ UnitInv'
    BY <1>8 DEF LoopEnds, Goto, Leave, Fail, Inv, Numbers, States, UnitInv, HeldInv, Address
  <2>2. HeldInv'
    BY <1>8, LocalsDiffer
       DEF LoopEnds, Goto, Leave, Fail, Inv, HeldInv, Numbers, States, UnitInv
  <2>3. DeviceInv'
    BY <1>8, LocalsDiffer
       DEF LoopEnds, Goto, Leave, Fail, Inv, Numbers, HeldInv, DeviceInv, Address
  <2> QED  BY <2>1, <2>2, <2>3
<1>9. CASE DropLocal
  <2>0. \/ held = H4 /\ held' = H3 /\ isoAddr' = isoAddr
        \/ held = H3 /\ held' = H2 /\ isoAddr' = 0
    BY <1>9, LocalsDiffer, LocalsNames, LocalsShrink DEF DropLocal, Dropped, Inv, HeldInv
  <2>1. Numbers' /\ States' /\ UnitInv'
    BY <1>9, <2>0 DEF DropLocal, Inv, Numbers, States, UnitInv, HeldInv, Address
  <2>2. HeldInv'
    BY <1>9, <2>0, LocalsDiffer, LocalsNames
       DEF DropLocal, Inv, HeldInv, Numbers, States, UnitInv
  <2>3. DeviceInv'
    BY <1>9, <2>0, LocalsDiffer, LocalsNames
       DEF DropLocal, Inv, Numbers, HeldInv, DeviceInv, Address
  <2> QED  BY <2>1, <2>2, <2>3
<1>10. CASE SendQuit
  <2>1. Numbers' /\ States' /\ UnitInv'
    BY <1>10 DEF SendQuit, Inv, Numbers, States, UnitInv, HeldInv, Address
  <2>2. HeldInv'
    BY <1>10, LocalsDiffer DEF SendQuit, Inv, HeldInv, Numbers, States, UnitInv
  <2>3. DeviceInv'
    BY <1>10, LocalsDiffer DEF SendQuit, Inv, Numbers, HeldInv, DeviceInv, Address
  <2> QED  BY <2>1, <2>2, <2>3
<1>11. CASE DropBridge
  <2>0. held = H2 /\ held' = H1
    BY <1>11, LocalsDiffer, LocalsNames, LocalsShrink DEF DropBridge, Dropped, Inv, HeldInv
  <2>1. Numbers' /\ States' /\ UnitInv'
    BY <1>11, <2>0 DEF DropBridge, Inv, Numbers, States, UnitInv, HeldInv, Address
  <2>2. HeldInv'
    BY <1>11, <2>0, LocalsDiffer, LocalsNames
       DEF DropBridge, Inv, HeldInv, Numbers, States, UnitInv
  <2>3. DeviceInv'
    BY <1>11, <2>0, LocalsDiffer, LocalsNames
       DEF DropBridge, Inv, Numbers, HeldInv, DeviceInv, Address
  <2> QED  BY <2>1, <2>2, <2>3
<1>12. CASE DropDevice
  <2>0. held = H1 /\ held' = H0
    BY <1>12, LocalsDiffer, LocalsNames, LocalsShrink DEF DropDevice, Dropped, Inv, HeldInv
  <2>1. Numbers' /\ States' /\ UnitInv'
    BY <1>12, <2>0 DEF DropDevice, Inv, Numbers, States, UnitInv, HeldInv, Address
  <2>2. HeldInv'
    BY <1>12, <2>0, LocalsDiffer, LocalsNames
       DEF DropDevice, Inv, HeldInv, Numbers, States, UnitInv
  <2>3. DeviceInv'
    <3>1. /\ xpad' <=> xpad \/ dev = addr
          /\ addr' = 0 /\ UNCHANGED <<dev, plugs, powered, killed>>
      BY <1>12 DEF DropDevice
    <3>2. 0 =< plugs /\ 0 # addr
      BY <2>0, LocalsDiffer DEF Inv, Numbers, Address, HeldInv
    <3> QED  BY <3>1, <3>2 DEF Inv, DeviceInv
  <2> QED  BY <2>1, <2>2, <2>3
<1>13. CASE Exit
  <2>1. Numbers' /\ States' /\ UnitInv'
    BY <1>13 DEF Exit, Inv, Numbers, States, UnitInv, HeldInv, Address
  <2>2. HeldInv'
    BY <1>13, LocalsDiffer, LocalsNames DEF Exit, Inv, HeldInv, Numbers, States, UnitInv
  <2>3. DeviceInv'
    BY <1>13, LocalsDiffer, LocalsNames DEF Exit, Inv, Numbers, HeldInv, DeviceInv, Address
  <2> QED  BY <2>1, <2>2, <2>3
<1> QED  BY <1>1, <1>2, <1>3, <1>4, <1>5, <1>6, <1>7, <1>8, <1>9, <1>10, <1>11, <1>12, <1>13
       DEF Main

LEMMA AudioStep ==
  ASSUME Inv, Audio
  PROVE  Numbers' /\ States' /\ HeldInv' /\ DeviceInv' /\ UnitInv'
<1> HIDE DEF H0, H1, H2, H3, H4
<1>1. CASE ConnectFails
  <2>1. Numbers' /\ States' /\ UnitInv'
    BY <1>1 DEF ConnectFails, Inv, Numbers, States, UnitInv, HeldInv, Address
  <2>2. HeldInv'
    BY <1>1, LocalsDiffer DEF ConnectFails, Inv, HeldInv, Numbers, States, UnitInv
  <2>3. DeviceInv'
    BY <1>1, LocalsDiffer DEF ConnectFails, Inv, Numbers, HeldInv, DeviceInv, Address
  <2> QED  BY <2>1, <2>2, <2>3
<1>2. CASE Connect
  <2>1. Numbers' /\ States' /\ UnitInv'
    BY <1>2 DEF Connect, Inv, Numbers, States, UnitInv, HeldInv, Address
  <2>2. HeldInv'
    BY <1>2, LocalsDiffer DEF Connect, Inv, HeldInv, Numbers, States, UnitInv
  <2>3. DeviceInv'
    BY <1>2, LocalsDiffer DEF Connect, Inv, Numbers, HeldInv, DeviceInv, Address
  <2> QED  BY <2>1, <2>2, <2>3
<1>3. CASE LoopQuits
  <2>1. Numbers' /\ States' /\ UnitInv'
    BY <1>3 DEF LoopQuits, Inv, Numbers, States, UnitInv, HeldInv, Address
  <2>2. HeldInv'
    BY <1>3, LocalsDiffer DEF LoopQuits, Inv, HeldInv, Numbers, States, UnitInv
  <2>3. DeviceInv'
    BY <1>3, LocalsDiffer DEF LoopQuits, Inv, Numbers, HeldInv, DeviceInv, Address
  <2> QED  BY <2>1, <2>2, <2>3
<1> QED  BY <1>1, <1>2, <1>3 DEF Audio

LEMMA SystemStep ==
  ASSUME Inv, Activate \/ Restart \/ StopService \/ Plug \/ Unplug \/ PipeWireUp
  PROVE  Numbers' /\ States' /\ HeldInv' /\ DeviceInv' /\ UnitInv'
<1> HIDE DEF H0, H1, H2, H3, H4
<1>1. CASE Activate
  <2>1. Numbers' /\ States' /\ UnitInv'
    BY <1>1 DEF Activate, Start, Inv, Numbers, States, UnitInv, HeldInv, Address
  <2>2. HeldInv'
    BY <1>1, LocalsDiffer, LocalsNames
       DEF Activate, Start, Inv, HeldInv, Numbers, States, UnitInv
  <2>3. DeviceInv'
    BY <1>1, LocalsDiffer, LocalsNames
       DEF Activate, Start, Inv, Numbers, HeldInv, DeviceInv, Address
  <2> QED  BY <2>1, <2>2, <2>3
<1>2. CASE Restart
  <2>1. Numbers' /\ States' /\ UnitInv'
    BY <1>2 DEF Restart, Start, Inv, Numbers, States, UnitInv, HeldInv, Address
  <2>2. HeldInv'
    BY <1>2, LocalsDiffer, LocalsNames
       DEF Restart, Start, Inv, HeldInv, Numbers, States, UnitInv
  <2>3. DeviceInv'
    BY <1>2, LocalsDiffer, LocalsNames
       DEF Restart, Start, Inv, Numbers, HeldInv, DeviceInv, Address
  <2> QED  BY <2>1, <2>2, <2>3
<1>3. CASE StopService
  <2>1. Numbers' /\ States' /\ UnitInv'
    BY <1>3 DEF StopService, Inv, Numbers, States, UnitInv, HeldInv, Address
  <2>2. HeldInv'
    BY <1>3, LocalsDiffer, LocalsNames DEF StopService, Inv, HeldInv, Numbers, States, UnitInv
  <2>3. DeviceInv'
    BY <1>3, LocalsDiffer, LocalsNames DEF StopService, Inv, Numbers, HeldInv, DeviceInv, Address
  <2> QED  BY <2>1, <2>2, <2>3
<1>4. CASE Plug
  <2>1. Numbers' /\ States' /\ UnitInv'
    BY <1>4 DEF Plug, Inv, Numbers, States, UnitInv, HeldInv, Address
  <2>2. HeldInv'
    BY <1>4, LocalsDiffer DEF Plug, Inv, HeldInv, Numbers, States, UnitInv
  <2>3. DeviceInv'
    BY <1>4, LocalsDiffer DEF Plug, Inv, Numbers, HeldInv, DeviceInv, Address
  <2> QED  BY <2>1, <2>2, <2>3
<1>5. CASE Unplug
  <2>1. Numbers' /\ States' /\ UnitInv'
    BY <1>5 DEF Unplug, Inv, Numbers, States, UnitInv, HeldInv, Address
  <2>2. HeldInv'
    BY <1>5, LocalsDiffer DEF Unplug, Inv, HeldInv, Numbers, States, UnitInv
  <2>3. DeviceInv'
    BY <1>5, LocalsDiffer DEF Unplug, Inv, Numbers, HeldInv, DeviceInv, Address
  <2> QED  BY <2>1, <2>2, <2>3
<1>6. CASE PipeWireUp
  <2>1. Numbers' /\ States' /\ UnitInv'
    BY <1>6 DEF PipeWireUp, Inv, Numbers, States, UnitInv, HeldInv, Address
  <2>2. HeldInv'
    BY <1>6, LocalsDiffer DEF PipeWireUp, Inv, HeldInv, Numbers, States, UnitInv
  <2>3. DeviceInv'
    BY <1>6, LocalsDiffer DEF PipeWireUp, Inv, Numbers, HeldInv, DeviceInv, Address
  <2> QED  BY <2>1, <2>2, <2>3
<1> QED  BY <1>1, <1>2, <1>3, <1>4, <1>5, <1>6
LEMMA InvStep == Inv /\ [Next]_vars => Inv'
<1> SUFFICES ASSUME Inv, [Next]_vars
             PROVE  Inv'
  OBVIOUS
<1>1. Flags'
  BY FlagsStep DEF Inv
<1>2. CASE Main \/ Audio
  BY <1>1, <1>2, MainStep, AudioStep DEF Inv
<1>3. CASE Activate \/ Restart \/ StopService \/ Plug \/ Unplug \/ PipeWireUp
  BY <1>1, <1>3, SystemStep DEF Inv
<1>4. CASE UNCHANGED vars
  BY <1>1, <1>4 DEF vars, Inv, Numbers, States, HeldInv, DeviceInv, UnitInv
<1> QED  BY <1>2, <1>3, <1>4 DEF Next

LEMMA Always == Spec => []Inv
BY InvInit, InvStep, PTL DEF Spec

\* The types, for any number of restarts, plugs and failures.
THEOREM TypeCorrect == Spec => []TypeOK
<1>1. Inv => TypeOK
  BY IInvIs DEF IInv
<1> QED  BY <1>1, Always, PTL

\* The engine is on a device the handle next to it has powered on and taken
\* from xpad, whatever is plugged and unplugged meanwhile (main.rs).
THEOREM IsoIsOnPoweredDevice == Spec => []IsoOnPoweredDevice
<1>1. Inv => IsoOnPoweredDevice
  BY LocalsDiffer DEF Inv, Numbers, HeldInv, DeviceInv, IsoOnPoweredDevice
<1> QED  BY <1>1, Always, PTL

\* A process that is gone has given the device back to xpad, unless a signal
\* killed it while the device was open.
THEOREM XpadIsRestored == Spec => []XpadRestoredUnlessKilled
<1>1. Inv => XpadRestoredUnlessKilled
  BY DEF Inv, HeldInv, DeviceInv, XpadRestoredUnlessKilled
<1> QED  BY <1>1, Always, PTL
=============================================================================
