--------------------------- MODULE PowerLossProofs ---------------------------
(***************************************************************************)
(* Proofs about PowerLoss, along two inductive invariants.                 *)
(*                                                                         *)
(* RelayInv is PayloadRelay's alone, and PowerSpec implements PayloadRelay *)
(* (BoardDrivesRelay).  It ties the operations still ahead, todo, to the   *)
(* latches, the pads, the belief and the payload: a reset may cut them off *)
(* anywhere, and the pads let go of the lines before the latches do.       *)
(*                                                                         *)
(* SaveInv says of every byte of the EEPROM whose it is while a save is    *)
(* under way: those behind writing are the new record's, the others still  *)
(* the old one's.  It rests on what the operators of ConfigManager do to   *)
(* the bytes: a number of 32 bits reads back from the four it is put in,   *)
(* and the sum of the bytes rises with them and never wraps.               *)
(***************************************************************************)
EXTENDS PowerLoss, SequenceTheorems, WellFoundedInduction, TLAPS

-----------------------------------------------------------------------------
(* The payload's power *)

On == PAYLOAD_POWER_ON_PIN
Off == PAYLOAD_POWER_OFF_PIN

\* The operations of the boot of a Pololu and of a pulse.
PulsePin(s) == IF s THEN On ELSE Off
PulseOps(s) == <<Believe(s), Write(PulsePin(s), TRUE), Write(PulsePin(s), FALSE)>>
BootOps ==
    <<Write(On, FALSE), Write(Off, FALSE), Output(On), Output(Off),
      Write(On, FALSE), Write(Off, FALSE), Output(On), Output(Off), Believe(FALSE),
      Believe(TRUE), Write(On, TRUE), Write(On, FALSE)>>

\* Those of the coil.
NcBoot == <<Coil(FALSE), Coil(FALSE), Believe(TRUE)>>
NcSet(s) == <<Believe(s), Coil(~s)>>

\* The routine ops is before its k-th operation.
Before(ops, k) == todo = SubSeq(ops, k, Len(ops))

Low == ~level[On] /\ ~level[Off]
Driving == output[On] /\ output[Off]
Follows == payload = (command /\ ~lost)

\* The pads do not drive until both latches are low.
Latching ==
    \E k \in 1 .. 9 :
      /\ Before(BootOps, k) /\ command
      /\ k <= 3 => ~output[On] /\ ~output[Off]
      /\ k >= 2 => ~level[On]
      /\ k >= 3 => ~level[Off]
      /\ k >= 4 => output[On]
      /\ k >= 5 => output[Off]

\* The lines are low but for the pulse that has begun.
PulseAt(s, k) == Before(PulseOps(s), k) /\ command = s /\ Driving
Pulsing ==
    \E s \in BOOLEAN :
      \/ PulseAt(s, 1) /\ Low
      \/ PulseAt(s, 2) /\ Low /\ powerMgmtState = s
      \/ PulseAt(s, 3) /\ powerMgmtState = s /\ level[On] = s /\ level[Off] = ~s /\ Follows

Resting == todo = <<>> /\ Low /\ Driving /\ powerMgmtState = command /\ Follows

PololuInv == (lost => ~payload) /\ (Latching \/ Pulsing \/ Resting)

NcInv ==
    /\ ~lost /\ payload = ~High(RELAY_POWER_MGMT)
    /\ \/ command /\ payload /\ \E k \in 1 .. 3 : Before(NcBoot, k)
       \/ \E s \in BOOLEAN, k \in 1 .. 2 :
            Before(NcSet(s), k) /\ command = s /\ (k = 2 => powerMgmtState = s)
       \/ todo = <<>> /\ powerMgmtState = command /\ payload = command

NoneInv ==
    \/ todo = <<Believe(command)>>
    \/ todo = <<>> /\ powerMgmtState = command

RelayType ==
    /\ driver \in {"nc", "pololu", "none"}
    /\ level \in [Pins -> BOOLEAN] /\ output \in [Pins -> BOOLEAN]
    /\ powerMgmtState \in BOOLEAN /\ payload \in BOOLEAN
    /\ command \in BOOLEAN /\ lost \in BOOLEAN

RelayInv ==
    /\ RelayType
    /\ driver = "pololu" => PololuInv
    /\ driver = "nc" => NcInv
    /\ driver = "none" => NoneInv

-----------------------------------------------------------------------------
(* Sequences of operations *)

Ops == [op : {"write", "output", "coil", "believe"}, pin : Pins, high : BOOLEAN]

LEMMA OpTypes ==
  /\ \A v \in BOOLEAN : Coil(v) \in Ops /\ Believe(v) \in Ops
  /\ \A v \in BOOLEAN, pin \in Pins : Write(pin, v) \in Ops /\ Output(pin) \in Ops
BY DEF Ops, Write, Output, Coil, Believe, RELAY_POWER_MGMT, Pins

LEMMA Joined ==
  ASSUME NEW s \in Seq(Ops), NEW t \in Seq(Ops), NEW u \in Seq(Ops),
         Len(u) = Len(s) + Len(t),
         \A i \in 1 .. Len(s) : u[i] = s[i],
         \A i \in 1 .. Len(t) : u[Len(s) + i] = t[i]
  PROVE  s \o t = u
<1>1. /\ s \o t \in Seq(Ops) /\ Len(s \o t) = Len(u)
      /\ \A i \in 1 .. Len(s) + Len(t) :
           (s \o t)[i] = IF i <= Len(s) THEN s[i] ELSE t[i - Len(s)]
  BY ConcatProperties
<1>2. ASSUME NEW i \in 1 .. Len(s \o t) PROVE (s \o t)[i] = u[i]
  <2>1. CASE i <= Len(s) BY <1>1, <2>1
  <2>2. CASE ~(i <= Len(s))
    <3>1. i - Len(s) \in 1 .. Len(t) /\ Len(s) + (i - Len(s)) = i BY <1>1, <2>2
    <3> QED BY <1>1, <2>2, <3>1
  <2> QED BY <2>1, <2>2
<1> QED BY <1>1, <1>2, SeqEqual

LEMMA OneAndTwo ==
  ASSUME NEW a \in Ops, NEW b \in Ops, NEW c \in Ops
  PROVE  <<a>> \o <<b, c>> = <<a, b, c>>
<1> DEFINE s == <<a>>
           t == <<b, c>>
           u == <<a, b, c>>
<1>1. s \in Seq(Ops) /\ t \in Seq(Ops) /\ u \in Seq(Ops) OBVIOUS
<1>2. Len(u) = Len(s) + Len(t) OBVIOUS
<1>3. \A i \in 1 .. Len(s) : u[i] = s[i] OBVIOUS
<1>4. \A i \in 1 .. Len(t) : u[Len(s) + i] = t[i] OBVIOUS
<1> HIDE DEF s, t, u
<1>5. s \o t = u BY <1>1, <1>2, <1>3, <1>4, Joined, Zenon
<1> QED BY <1>5 DEF s, t, u

LEMMA LatchesAndPulse ==
  ASSUME NEW w \in Ops, NEW x \in Ops, NEW y \in Ops, NEW z \in Ops,
         NEW a \in Ops, NEW b \in Ops, NEW c \in Ops, NEW d \in Ops
  PROVE  <<w, x, y, z>> \o (<<w, x, y, z>> \o <<a>> \o <<b, c, d>>)
           = <<w, x, y, z, w, x, y, z, a, b, c, d>>
<1> DEFINE l4 == <<w, x, y, z>>
           t1 == <<a>>
           p == <<b, c, d>>
           l5 == <<w, x, y, z, a>>
           l8 == <<w, x, y, z, a, b, c, d>>
           u == <<w, x, y, z, w, x, y, z, a, b, c, d>>
<1>1. /\ l4 \in Seq(Ops) /\ t1 \in Seq(Ops) /\ l5 \in Seq(Ops) /\ l8 \in Seq(Ops)
      /\ p \in Seq(Ops) /\ u \in Seq(Ops)
  OBVIOUS
<1>2. Len(l5) = Len(l4) + Len(t1) OBVIOUS
<1>3. \A i \in 1 .. Len(l4) : l5[i] = l4[i] OBVIOUS
<1>4. \A i \in 1 .. Len(t1) : l5[Len(l4) + i] = t1[i] OBVIOUS
<1>5. Len(l8) = Len(l5) + Len(p) OBVIOUS
<1>6. \A i \in 1 .. Len(l5) : l8[i] = l5[i] OBVIOUS
<1>7. \A i \in 1 .. Len(p) : l8[Len(l5) + i] = p[i] OBVIOUS
<1>8. Len(u) = Len(l4) + Len(l8) OBVIOUS
<1>9. \A i \in 1 .. Len(l4) : u[i] = l4[i] OBVIOUS
<1>10. \A i \in 1 .. Len(l8) : u[Len(l4) + i] = l8[i] OBVIOUS
<1> HIDE DEF l4, t1, l5, l8, p, u
<1>11. l4 \o t1 = l5 BY <1>1, <1>2, <1>3, <1>4, Joined, Zenon
<1>12. l5 \o p = l8 BY <1>1, <1>5, <1>6, <1>7, Joined, Zenon
<1>13. l4 \o l8 = u BY <1>1, <1>8, <1>9, <1>10, Joined, Zenon
<1>14. l4 \o (l4 \o t1 \o p) = u BY <1>11, <1>12, <1>13
<1> QED BY <1>14 DEF l4, t1, p, u

LEMMA PulseIs ==
  ASSUME NEW v \in BOOLEAN
  PROVE  pulseFor(v) = PulseOps(v) /\ PulseOps(v) \in Seq(Ops) /\ Len(PulseOps(v)) = 3
<1> DEFINE a == Believe(v)
           b == Write(PulsePin(v), TRUE)
           c == Write(PulsePin(v), FALSE)
<1>0. PulsePin(v) \in Pins BY DEF PulsePin, Pins, On, Off, PAYLOAD_POWER_OFF_PIN
<1>1. a \in Ops /\ b \in Ops /\ c \in Ops BY <1>0, OpTypes, Zenon
<1>2. pulseFor(v) = <<a>> \o <<b, c>> BY DEF pulseFor, pulseHigh, PulsePin, On, Off
<1>3. PulseOps(v) = <<a, b, c>> BY DEF PulseOps
<1> HIDE DEF a, b, c
<1> QED BY <1>1, <1>2, <1>3, OneAndTwo

LEMMA BootIs ==
  /\ driver = "pololu" => setupPins \o RelayController_init = BootOps
  /\ BootOps \in Seq(Ops) /\ Len(BootOps) = 12
<1> DEFINE w == Write(On, FALSE)
           x == Write(Off, FALSE)
           y == Output(On)
           z == Output(Off)
           a == Believe(FALSE)
           b == Believe(TRUE)
           c == Write(On, TRUE)
<1>0. On \in Pins /\ Off \in Pins BY DEF Pins, On, Off, PAYLOAD_POWER_OFF_PIN
<1>1. w \in Ops /\ x \in Ops /\ y \in Ops /\ z \in Ops /\ a \in Ops /\ b \in Ops /\ c \in Ops
  BY <1>0, OpTypes, Zenon
<1>2. PulseOps(TRUE) = <<b, c, w>> BY DEF PulseOps, PulsePin
<1>3. latchesLow = <<w, x, y, z>> BY DEF latchesLow, On, Off
<1>4. BootOps = <<w, x, y, z, w, x, y, z, a, b, c, w>> BY DEF BootOps
<1>5. driver = "pololu" =>
        setupPins \o RelayController_init = latchesLow \o (latchesLow \o <<a>> \o PulseOps(TRUE))
  BY PulseIs DEF setupPins, RelayController_init
<1> HIDE DEF w, x, y, z, a, b, c
<1>6. BootOps = <<w, x, y, z>> \o (<<w, x, y, z>> \o <<a>> \o <<b, c, w>>)
  BY <1>1, <1>4, LatchesAndPulse
<1>7. driver = "pololu" => setupPins \o RelayController_init = BootOps
  BY <1>2, <1>3, <1>5, <1>6, Zenon
<1>8. BootOps \in Seq(Ops) /\ Len(BootOps) = 12 BY <1>1, <1>4
<1> QED BY <1>7, <1>8

LEMMA NcIs ==
  /\ driver = "nc" => setupPins \o RelayController_init = NcBoot
  /\ NcBoot \in Seq(Ops) /\ Len(NcBoot) = 3
  /\ \A s \in BOOLEAN : NcSet(s) \in Seq(Ops) /\ Len(NcSet(s)) = 2
<1>1. /\ driver = "nc" => setupPins \o RelayController_init = NcBoot
      /\ NcBoot \in Seq(Ops) /\ Len(NcBoot) = 3
  <2> DEFINE a == Coil(FALSE)
             b == Believe(TRUE)
  <2>1. a \in Ops /\ b \in Ops BY OpTypes, Zenon
  <2>2. driver = "nc" => setupPins \o RelayController_init = <<a>> \o <<a, b>>
    BY DEF setupPins, RelayController_init, driveRelay, Coil
  <2>3. NcBoot = <<a, a, b>> BY DEF NcBoot
  <2> HIDE DEF a, b
  <2>4. <<a>> \o <<a, b>> = <<a, a, b>> BY <2>1, OneAndTwo
  <2>5. <<a, a, b>> \in Seq(Ops) /\ Len(<<a, a, b>>) = 3 BY <2>1
  <2> QED BY <2>2, <2>3, <2>4, <2>5, Zenon
<1>2. ASSUME NEW s \in BOOLEAN PROVE NcSet(s) \in Seq(Ops) /\ Len(NcSet(s)) = 2
  <2> DEFINE a == Believe(s)
             b == Coil(~s)
  <2>0. (~s) \in BOOLEAN OBVIOUS
  <2>1. a \in Ops /\ b \in Ops BY <2>0, OpTypes, Zenon
  <2>2. NcSet(s) = <<a, b>> BY DEF NcSet
  <2> HIDE DEF a, b
  <2> QED BY <2>1, <2>2
<1> QED BY <1>1, <1>2

LEMMA NoneIs ==
  /\ driver = "none" => setupPins \o RelayController_init = <<Believe(TRUE)>>
  /\ \A s \in BOOLEAN : Tail(<<Believe(s)>>) = <<>> /\ Head(<<Believe(s)>>) = Believe(s)
<1> DEFINE b == Believe(TRUE)
<1>1. b \in Ops BY OpTypes, Zenon
<1>2. driver = "none" => setupPins \o RelayController_init = <<>> \o <<b>>
  BY DEF setupPins, RelayController_init
<1>3. ASSUME NEW s \in BOOLEAN
      PROVE  Tail(<<Believe(s)>>) = <<>> /\ Head(<<Believe(s)>>) = Believe(s)
  <2> DEFINE o == Believe(s)
  <2>1. o \in Ops BY OpTypes
  <2> HIDE DEF o
  <2>2. Tail(<<o>>) = <<>> /\ Head(<<o>>) = o OBVIOUS
  <2> QED BY <2>2 DEF o
<1> HIDE DEF b
<1>4. <<>> \o <<b>> = <<b>> BY <1>1, ConcatEmptySeq
<1> QED BY <1>2, <1>3, <1>4 DEF b

\* The step from one operation to the next.
LEMMA Advance ==
  ASSUME NEW ops \in Seq(Ops), NEW k \in 1 .. Len(ops), Before(ops, k)
  PROVE  /\ todo # <<>> /\ Head(todo) = ops[k]
         /\ IF k = Len(ops) THEN Tail(todo) = <<>>
            ELSE Tail(todo) = SubSeq(ops, k + 1, Len(ops))
<1>1. Head(todo) = ops[k] /\ Tail(todo) = SubSeq(ops, k + 1, Len(ops))
  BY HeadTailOfSubSeq DEF Before
<1>2. Len(todo) = Len(ops) - k + 1 BY SubSeqProperties DEF Before
<1>3. k = Len(ops) => SubSeq(ops, k + 1, Len(ops)) = <<>> BY SubSeqEmpty
<1> QED BY <1>1, <1>2, <1>3

-----------------------------------------------------------------------------
(* What a step does *)

LEMMA StepEffect ==
  ASSUME RelayType, Step, NEW pin \in Pins, NEW v \in BOOLEAN
  PROVE  /\ Head(todo) = Write(pin, v) =>
              level' = [level EXCEPT ![pin] = v] /\ UNCHANGED <<output, powerMgmtState>>
         /\ Head(todo) = Output(pin) =>
              output' = [output EXCEPT ![pin] = TRUE] /\ UNCHANGED <<level, powerMgmtState>>
         /\ Head(todo) = Believe(v) =>
              powerMgmtState' = v /\ UNCHANGED <<level, output>>
         /\ Head(todo) = Coil(v) =>
              /\ level' = [level EXCEPT ![RELAY_POWER_MGMT] = v]
              /\ output' = [output EXCEPT ![RELAY_POWER_MGMT] = TRUE]
              /\ UNCHANGED powerMgmtState
<1> DEFINE o == Head(todo)
<1>1. /\ level' = IF o.op \in {"write", "coil"} THEN [level EXCEPT ![o.pin] = o.high] ELSE level
      /\ output' = IF o.op \in {"output", "coil"} THEN [output EXCEPT ![o.pin] = TRUE] ELSE output
      /\ powerMgmtState' = IF o.op = "believe" THEN o.high ELSE powerMgmtState
  BY DEF Step
<1> HIDE DEF o
<1>2. ASSUME o = Write(pin, v)
      PROVE  level' = [level EXCEPT ![pin] = v] /\ UNCHANGED <<output, powerMgmtState>>
  <2>1. o.op = "write" /\ o.pin = pin /\ o.high = v BY <1>2 DEF Write
  <2> QED BY <1>1, <2>1
<1>3. ASSUME o = Output(pin)
      PROVE  output' = [output EXCEPT ![pin] = TRUE] /\ UNCHANGED <<level, powerMgmtState>>
  <2>1. o.op = "output" /\ o.pin = pin BY <1>3 DEF Output
  <2> QED BY <1>1, <2>1
<1>4. ASSUME o = Believe(v)
      PROVE  powerMgmtState' = v /\ UNCHANGED <<level, output>>
  <2>1. o.op = "believe" /\ o.high = v BY <1>4 DEF Believe
  <2> QED BY <1>1, <2>1
<1>5. ASSUME o = Coil(v)
      PROVE  /\ level' = [level EXCEPT ![RELAY_POWER_MGMT] = v]
             /\ output' = [output EXCEPT ![RELAY_POWER_MGMT] = TRUE]
             /\ UNCHANGED powerMgmtState
  <2>1. o.op = "coil" /\ o.pin = RELAY_POWER_MGMT /\ o.high = v BY <1>5 DEF Coil
  <2> QED BY <1>1, <2>1
<1> QED BY <1>2, <1>3, <1>4, <1>5 DEF o

LEMMA PinNames == On \in Pins /\ Off \in Pins /\ On # Off /\ RELAY_POWER_MGMT = Off
BY DEF Pins, On, Off, PAYLOAD_POWER_OFF_PIN, PAYLOAD_POWER_ON_PIN, RELAY_POWER_MGMT

LEMMA PololuPower ==
  ASSUME driver = "pololu", Step
  PROVE  /\ payload' = IF High(Off)' /\ ~High(Off) THEN FALSE
                       ELSE payload \/ (High(On)' /\ ~High(On))
         /\ lost' = (lost /\ ~(payload' /\ ~payload))
         /\ driver' = driver /\ command' = command
BY PinNames DEF Step, Power, Lines, On, Off

LEMMA BootElements ==
  /\ BootOps[1] = Write(On, FALSE) /\ BootOps[2] = Write(Off, FALSE)
  /\ BootOps[3] = Output(On) /\ BootOps[4] = Output(Off)
  /\ BootOps[5] = Write(On, FALSE) /\ BootOps[6] = Write(Off, FALSE)
  /\ BootOps[7] = Output(On) /\ BootOps[8] = Output(Off)
  /\ BootOps[9] = Believe(FALSE)
BY DEF BootOps

LEMMA PulseElements ==
  ASSUME NEW s \in BOOLEAN
  PROVE  /\ PulseOps(s)[1] = Believe(s)
         /\ PulseOps(s)[2] = Write(PulsePin(s), TRUE)
         /\ PulseOps(s)[3] = Write(PulsePin(s), FALSE)
         /\ PulsePin(s) = IF s THEN On ELSE Off
BY DEF PulseOps, PulsePin

LEMMA NcElements ==
  /\ NcBoot[1] = Coil(FALSE) /\ NcBoot[2] = Coil(FALSE) /\ NcBoot[3] = Believe(TRUE)
  /\ \A s \in BOOLEAN : NcSet(s)[1] = Believe(s) /\ NcSet(s)[2] = Coil(~s)
BY DEF NcBoot, NcSet

\* The pulse that ends a boot is a pulse like any other.
LEMMA BootEndsInPulse == SubSeq(BootOps, 10, 12) = SubSeq(PulseOps(TRUE), 1, 3)
<1> DEFINE w == Write(On, FALSE)
           x == Write(Off, FALSE)
           y == Output(On)
           z == Output(Off)
           a == Believe(FALSE)
           b == Believe(TRUE)
           c == Write(On, TRUE)
           s == BootOps
           t == PulseOps(TRUE)
<1>1. s = <<w, x, y, z, w, x, y, z, a, b, c, w>> /\ t = <<b, c, w>>
  BY DEF BootOps, PulseOps, PulsePin
<1>2. s \in Seq(Ops) /\ Len(s) = 12 /\ t \in Seq(Ops) /\ Len(t) = 3 BY BootIs, PulseIs
<1> HIDE DEF w, x, y, z, a, b, c, s, t
<1>3. t[1] = s[10] /\ t[2] = s[11] /\ t[3] = s[12] BY <1>1
<1>4. /\ SubSeq(s, 10, 12) \in Seq(Ops) /\ Len(SubSeq(s, 10, 12)) = 3
      /\ \A i \in 1 .. 12 - 10 + 1 : SubSeq(s, 10, 12)[i] = s[10 + i - 1]
  <2>0. \A i \in 1 .. Len(s) : s[i] \in Ops BY <1>2, ElementOfSeq, Zenon
  <2>1. \A i \in 10 .. 12 : s[i] \in Ops BY <1>2, <2>0
  <2>2. /\ SubSeq(s, 10, 12) \in Seq(Ops)
        /\ Len(SubSeq(s, 10, 12)) = IF 10 <= 12 THEN 12 - 10 + 1 ELSE 0
        /\ \A i \in 1 .. 12 - 10 + 1 : SubSeq(s, 10, 12)[i] = s[10 + i - 1]
    <3>1. 10 \in Int /\ 12 \in Int OBVIOUS
    <3>2. \A m, n \in Int : (\A i \in m .. n : s[i] \in Ops) =>
            /\ SubSeq(s, m, n) \in Seq(Ops)
            /\ Len(SubSeq(s, m, n)) = IF m <= n THEN n - m + 1 ELSE 0
            /\ \A i \in 1 .. n - m + 1 : SubSeq(s, m, n)[i] = s[m + i - 1]
      BY SubSeqProperties
    <3> QED BY <2>1, <3>1, <3>2, Zenon
  <2> QED BY <2>2
<1>5. \A i \in 1 .. 3 : SubSeq(s, 10, 12)[i] = t[i] BY <1>3, <1>4
<1>6. SubSeq(s, 10, 12) = t BY <1>2, <1>4, <1>5, SeqEqual
<1>7. SubSeq(t, 1, Len(t)) = t BY <1>2, SubSeqFull
<1> QED BY <1>2, <1>6, <1>7 DEF s, t

\* A step that leaves the lines low.
LEMMA QuietStep ==
  ASSUME RelayType, driver = "pololu", Step, ~High(On)', ~High(Off)'
  PROVE  payload' = payload /\ lost' = lost
BY PololuPower DEF RelayType

\* A step that takes the payload's power away though it is wanted.
Cuts == payload /\ ~payload' /\ command

LEMMA LatchingStep ==
  ASSUME RelayType, driver = "pololu", lost => ~payload, Step, Latching
  PROVE  RelayType' /\ PololuInv' /\ ~Cuts
<1>1. PICK k \in 1 .. 9 :
         /\ Before(BootOps, k) /\ command
         /\ k <= 3 => ~output[On] /\ ~output[Off]
         /\ k >= 2 => ~level[On]
         /\ k >= 3 => ~level[Off]
         /\ k >= 4 => output[On]
         /\ k >= 5 => output[Off]
  BY DEF Latching
<1>2. Head(todo) = BootOps[k] /\ todo' = SubSeq(BootOps, k + 1, 12)
  <2>1. BootOps \in Seq(Ops) /\ k \in 1 .. Len(BootOps) /\ k # Len(BootOps) /\ Len(BootOps) = 12
    BY BootIs
  <2>2. Head(todo) = BootOps[k] /\ Tail(todo) = SubSeq(BootOps, k + 1, Len(BootOps))
    BY <1>1, <2>1, Advance, Zenon
  <2> QED BY <2>1, <2>2 DEF Step
<1> DEFINE After ==
             /\ level' \in [Pins -> BOOLEAN] /\ output' \in [Pins -> BOOLEAN]
             /\ powerMgmtState' \in BOOLEAN
             /\ k <= 2 => ~output'[On] /\ ~output'[Off]
             /\ ~level'[On]
             /\ k >= 2 => ~level'[Off]
             /\ k >= 3 => output'[On]
             /\ k >= 4 => output'[Off]
<1>3. ASSUME k \in {1, 5} PROVE After
  <2>1. Head(todo) = Write(On, FALSE) BY <1>2, <1>3, BootElements
  <2>2. level' = [level EXCEPT ![On] = FALSE] /\ UNCHANGED <<output, powerMgmtState>>
    BY <2>1, PinNames, StepEffect
  <2> QED BY <1>1, <1>3, <2>2, PinNames DEF RelayType
<1>4. ASSUME k \in {2, 6} PROVE After
  <2>1. Head(todo) = Write(Off, FALSE) BY <1>2, <1>4, BootElements
  <2>2. level' = [level EXCEPT ![Off] = FALSE] /\ UNCHANGED <<output, powerMgmtState>>
    BY <2>1, PinNames, StepEffect
  <2> QED BY <1>1, <1>4, <2>2, PinNames DEF RelayType
<1>5. ASSUME k \in {3, 7} PROVE After
  <2>1. Head(todo) = Output(On) BY <1>2, <1>5, BootElements
  <2>2. output' = [output EXCEPT ![On] = TRUE] /\ UNCHANGED <<level, powerMgmtState>>
    BY <2>1, PinNames, StepEffect
  <2> QED BY <1>1, <1>5, <2>2, PinNames DEF RelayType
<1>6. ASSUME k \in {4, 8} PROVE After
  <2>1. Head(todo) = Output(Off) BY <1>2, <1>6, BootElements
  <2>2. output' = [output EXCEPT ![Off] = TRUE] /\ UNCHANGED <<level, powerMgmtState>>
    BY <2>1, PinNames, StepEffect
  <2> QED BY <1>1, <1>6, <2>2, PinNames DEF RelayType
<1>7. ASSUME k = 9 PROVE After
  <2>1. Head(todo) = Believe(FALSE) BY <1>2, <1>7, BootElements
  <2>2. powerMgmtState' = FALSE /\ UNCHANGED <<level, output>>
    BY <2>1, PinNames, StepEffect
  <2>3. powerMgmtState' \in BOOLEAN BY <2>2
  <2>4. level' = level /\ output' = output BY <2>2
  <2> QED BY <1>1, <1>7, <2>3, <2>4 DEF RelayType
<1>8. After BY <1>3, <1>4, <1>5, <1>6, <1>7
<1>9. ~High(On)' /\ ~High(Off)' BY <1>8 DEF High
<1>10. /\ payload' = payload /\ lost' = lost /\ driver' = driver /\ command' = command
       /\ command /\ RelayType'
  BY <1>1, <1>8, <1>9, QuietStep, PololuPower DEF RelayType
<1>11. ASSUME k = 9 PROVE PololuInv'
  <2>1. todo' = SubSeq(PulseOps(TRUE), 1, 3)
    <3>1. k + 1 = 10 BY <1>11
    <3> QED BY <1>2, <3>1, BootEndsInPulse
  <2>2. Before(PulseOps(TRUE), 1)' BY <2>1, PulseIs DEF Before
  <2>3. Low' /\ Driving' BY <1>8, <1>11 DEF Low, Driving
  <2>4. command' = TRUE BY <1>10
  <2>5. Pulsing' BY <2>2, <2>3, <2>4, Zenon DEF Pulsing, PulseAt
  <2> QED BY <1>10, <2>5 DEF PololuInv
<1>12. ASSUME k # 9 PROVE PololuInv'
  <2>1. k + 1 \in 1 .. 9 /\ Before(BootOps, k + 1)' BY <1>2, <1>12, BootIs DEF Before
  <2>2. Latching' BY <1>8, <1>10, <2>1 DEF Latching
  <2> QED BY <1>10, <2>2 DEF PololuInv
<1>13. ~Cuts BY <1>10 DEF Cuts
<1> QED BY <1>10, <1>11, <1>12, <1>13

LEMMA PulsingStep ==
  ASSUME RelayType, driver = "pololu", lost => ~payload, Step, Pulsing
  PROVE  RelayType' /\ PololuInv' /\ ~Cuts
<1>1. PICK s \in BOOLEAN :
        \/ PulseAt(s, 1) /\ Low
        \/ PulseAt(s, 2) /\ Low /\ powerMgmtState = s
        \/ PulseAt(s, 3) /\ powerMgmtState = s /\ level[On] = s /\ level[Off] = ~s /\ Follows
  BY DEF Pulsing
<1> DEFINE p == PulsePin(s)
<1>2. /\ PulseOps(s) \in Seq(Ops) /\ Len(PulseOps(s)) = 3 /\ p \in Pins
      /\ PulseOps(s)[1] = Believe(s) /\ PulseOps(s)[2] = Write(p, TRUE)
      /\ PulseOps(s)[3] = Write(p, FALSE) /\ p = IF s THEN On ELSE Off
  BY PulseIs, PulseElements, PinNames
<1>3. \A k \in 1 .. 3 : PulseAt(s, k) =>
        /\ Head(todo) = PulseOps(s)[k]
        /\ IF k = 3 THEN todo' = <<>> ELSE todo' = SubSeq(PulseOps(s), k + 1, 3)
  BY <1>2, Advance DEF PulseAt, Step
<1>4. PulseAt(s, 1) => Head(todo) = PulseOps(s)[1] /\ todo' = SubSeq(PulseOps(s), 2, 3)
  BY <1>3
<1>5. PulseAt(s, 2) => Head(todo) = PulseOps(s)[2] /\ todo' = SubSeq(PulseOps(s), 3, 3)
  BY <1>3
<1>6. PulseAt(s, 3) => Head(todo) = PulseOps(s)[3] /\ todo' = <<>>
  BY <1>3
<1> HIDE DEF p
<1>7. driver' = driver /\ command' = command BY PololuPower
<1>8. CASE PulseAt(s, 1) /\ Low
  <2>1. Head(todo) = Believe(s) /\ todo' = SubSeq(PulseOps(s), 2, 3) BY <1>2, <1>4, <1>8, Zenon
  <2>2. powerMgmtState' = s /\ level' = level /\ output' = output
    BY <1>2, <2>1, StepEffect
  <2>3. ~High(On)' /\ ~High(Off)' /\ Low' /\ Driving'
    BY <1>8, <2>2 DEF Low, Driving, High, PulseAt
  <2>4. payload' = payload /\ lost' = lost BY <2>3, QuietStep
  <2>5. PulseAt(s, 2)' BY <1>2, <1>7, <1>8, <2>1, <2>3 DEF PulseAt, Before
  <2>6. Pulsing' BY <2>2, <2>3, <2>5, Zenon DEF Pulsing
  <2>7. RelayType' BY <1>7, <2>2, <2>4, Zenon DEF RelayType
  <2> QED BY <2>4, <2>6, <2>7 DEF PololuInv, Cuts
<1>9. CASE PulseAt(s, 2) /\ Low /\ powerMgmtState = s
  <2>0. PulseAt(s, 2) BY <1>9
  <2>1. Head(todo) = Write(p, TRUE) /\ todo' = SubSeq(PulseOps(s), 3, 3) BY <1>2, <1>5, <2>0, Zenon
  <2>2. level' = [level EXCEPT ![p] = TRUE] /\ powerMgmtState' = powerMgmtState
        /\ output' = output
    BY <1>2, <2>1, StepEffect
  <2>3. /\ level' \in [Pins -> BOOLEAN] /\ level'[On] = s /\ level'[Off] = ~s
        /\ output'[On] /\ output'[Off] /\ Driving'
    BY <1>2, <1>9, <2>2, PinNames DEF Low, Driving, PulseAt, RelayType
  <2>4. payload' = IF s THEN TRUE ELSE FALSE
    BY <1>9, <2>3, PololuPower DEF High, Low
  <2>5. lost' \in BOOLEAN /\ payload' = (s /\ ~lost') /\ (lost' => ~payload')
    BY <2>4, PololuPower DEF RelayType
  <2>6. PulseAt(s, 3)' BY <1>2, <1>7, <1>9, <2>1, <2>3 DEF PulseAt, Before
  <2>7. Follows' BY <1>7, <1>9, <2>5 DEF Follows, PulseAt
  <2>8. Pulsing' BY <1>9, <2>2, <2>3, <2>6, <2>7 DEF Pulsing
  <2>9. RelayType' BY <1>7, <2>2, <2>3, <2>4, <2>5 DEF RelayType
  <2>10. ~Cuts BY <2>0, <2>4 DEF Cuts, PulseAt
  <2> QED BY <2>5, <2>8, <2>9, <2>10 DEF PololuInv
<1>10. CASE PulseAt(s, 3) /\ powerMgmtState = s /\ level[On] = s /\ level[Off] = ~s /\ Follows
  <2>0. PulseAt(s, 3) BY <1>10
  <2>1. Head(todo) = Write(p, FALSE) /\ todo' = <<>> BY <1>2, <1>6, <2>0, Zenon
  <2>2. level' = [level EXCEPT ![p] = FALSE] /\ powerMgmtState' = powerMgmtState
        /\ output' = output
    BY <1>2, <2>1, StepEffect
  <2>3. level' \in [Pins -> BOOLEAN] /\ ~level'[On] /\ ~level'[Off] /\ Driving'
    BY <1>2, <1>10, <2>2, PinNames DEF Driving, PulseAt, RelayType
  <2>4. ~High(On)' /\ ~High(Off)' /\ Low' BY <2>3 DEF High, Low
  <2>5. payload' = payload /\ lost' = lost BY <2>4, QuietStep
  <2>6. Resting' BY <1>7, <1>10, <2>1, <2>2, <2>3, <2>4, <2>5 DEF Resting, Follows, PulseAt
  <2>7. RelayType' BY <1>7, <2>2, <2>3, <2>5 DEF RelayType
  <2> QED BY <2>5, <2>6, <2>7 DEF PololuInv, Cuts
<1> QED BY <1>1, <1>8, <1>9, <1>10

LEMMA CoilPower ==
  ASSUME driver = "nc", Step
  PROVE  /\ payload' = ~High(RELAY_POWER_MGMT)'
         /\ lost' = (lost /\ ~(payload' /\ ~payload))
         /\ driver' = driver /\ command' = command
BY PinNames DEF Step, Power, Lines

\* The coil moves the contact at once.
LEMMA CoilStep ==
  ASSUME RelayType, driver = "nc", ~lost, Step, NEW v \in BOOLEAN, Head(todo) = Coil(v)
  PROVE  /\ RelayType' /\ ~lost' /\ payload' = ~v /\ payload' = ~High(RELAY_POWER_MGMT)'
         /\ powerMgmtState' = powerMgmtState
<1> DEFINE r == RELAY_POWER_MGMT
<1>1. /\ level' = [level EXCEPT ![r] = v] /\ output' = [output EXCEPT ![r] = TRUE]
      /\ powerMgmtState' = powerMgmtState
  BY PinNames, StepEffect
<1>2. r \in Pins BY PinNames
<1> HIDE DEF r
<1>3. /\ level' \in [Pins -> BOOLEAN] /\ output' \in [Pins -> BOOLEAN]
      /\ level'[r] = v /\ output'[r] = TRUE
  BY <1>1, <1>2 DEF RelayType
<1>4. payload' = ~v /\ payload' = ~High(r)' /\ ~lost'
  BY <1>3, CoilPower DEF High, r
<1> QED BY <1>1, <1>3, <1>4, CoilPower DEF RelayType, r

\* A belief is set and no pin changes.
LEMMA BelieveStep ==
  ASSUME RelayType, Step, NEW v \in BOOLEAN, Head(todo) = Believe(v),
         driver = "nc" => payload = ~High(RELAY_POWER_MGMT) /\ ~lost
  PROVE  /\ RelayType' /\ powerMgmtState' = v /\ level' = level /\ output' = output
         /\ driver = "nc" => payload' = payload /\ ~lost'
<1>1. powerMgmtState' = v /\ level' = level /\ output' = output BY PinNames, StepEffect
<1>2. Lines' = Lines BY <1>1 DEF Lines, High
<1>3. payload' = Power(Lines, Lines) /\ lost' = (lost /\ ~(payload' /\ ~payload))
      /\ driver' = driver /\ command' = command
  BY <1>2 DEF Step
<1>4. Lines[Off] = High(Off) /\ Lines[On] = High(On) BY PinNames DEF Lines
<1>5. payload' = payload
  BY <1>3, <1>4, PinNames DEF Power, RelayType, On, Off
<1> QED BY <1>1, <1>3, <1>5 DEF RelayType

LEMMA NcStep ==
  ASSUME RelayType, driver = "nc", NcInv, Step
  PROVE  RelayType' /\ NcInv' /\ ~Cuts
<1>1. ~lost /\ payload = ~High(RELAY_POWER_MGMT) /\ todo # <<>> /\ todo' = Tail(todo)
  BY DEF NcInv, Step
<1>2. command' = command BY CoilPower
<1>3. ASSUME command, payload, NEW k \in 1 .. 3, Before(NcBoot, k)
      PROVE  RelayType' /\ NcInv' /\ ~Cuts
  <2>1. Head(todo) = NcBoot[k] /\ IF k = 3 THEN todo' = <<>> ELSE todo' = SubSeq(NcBoot, k + 1, 3)
    BY <1>1, <1>3, NcIs, Advance
  <2>2. CASE k \in {1, 2}
    <3>1. Head(todo) = Coil(FALSE) BY <2>1, <2>2, NcElements
    <3>2. /\ RelayType' /\ ~lost' /\ payload' /\ payload' = ~High(RELAY_POWER_MGMT)'
      BY <1>1, <3>1, CoilStep
    <3>3. k + 1 \in 1 .. 3 /\ Before(NcBoot, k + 1)' BY <2>1, <2>2, NcIs DEF Before
    <3> QED BY <1>2, <1>3, <3>2, <3>3 DEF NcInv, Cuts
  <2>3. CASE k = 3
    <3>1. Head(todo) = Believe(TRUE) /\ todo' = <<>> BY <2>1, <2>3, NcElements
    <3>2. /\ RelayType' /\ powerMgmtState' = TRUE /\ level' = level /\ output' = output
          /\ payload' = payload /\ ~lost'
      BY <1>1, <3>1, BelieveStep
    <3> QED BY <1>1, <1>2, <1>3, <3>1, <3>2 DEF NcInv, High, Cuts
  <2> QED BY <2>2, <2>3
<1>4. ASSUME NEW s \in BOOLEAN, command = s, Before(NcSet(s), 1)
      PROVE  RelayType' /\ NcInv' /\ ~Cuts
  <2>1. Head(todo) = Believe(s) /\ todo' = SubSeq(NcSet(s), 2, 2)
    <3>0. NcSet(s) \in Seq(Ops) /\ Len(NcSet(s)) = 2 BY NcIs, Zenon
    <3>1. 1 \in 1 .. Len(NcSet(s)) BY <3>0
    <3>2. /\ Head(todo) = NcSet(s)[1]
          /\ IF 1 = Len(NcSet(s)) THEN Tail(todo) = <<>>
             ELSE Tail(todo) = SubSeq(NcSet(s), 1 + 1, Len(NcSet(s)))
      BY <1>4, <3>0, <3>1, Advance, Zenon
    <3> QED BY <1>1, <3>0, <3>2, NcElements
  <2>2. /\ RelayType' /\ powerMgmtState' = s /\ level' = level /\ output' = output
        /\ payload' = payload /\ ~lost'
    BY <1>1, <2>1, BelieveStep
  <2>3. Before(NcSet(s), 2)' BY <2>1, NcIs DEF Before
  <2> QED BY <1>1, <1>2, <1>4, <2>2, <2>3 DEF NcInv, High, Cuts
<1>5. ASSUME NEW s \in BOOLEAN, command = s, Before(NcSet(s), 2), powerMgmtState = s
      PROVE  RelayType' /\ NcInv' /\ ~Cuts
  <2>1. Head(todo) = Coil(~s) /\ todo' = <<>>
    BY <1>1, <1>5, NcIs, NcElements, Advance
  <2>2. /\ RelayType' /\ ~lost' /\ payload' = s /\ payload' = ~High(RELAY_POWER_MGMT)'
        /\ powerMgmtState' = powerMgmtState
    BY <1>1, <2>1, CoilStep
  <2>3. ~Cuts BY <1>5, <2>2 DEF Cuts
  <2> QED BY <1>2, <1>5, <2>1, <2>2, <2>3 DEF NcInv
<1> QED BY <1>1, <1>3, <1>4, <1>5 DEF NcInv, Cuts

LEMMA NoneStep ==
  ASSUME RelayType, driver = "none", NoneInv, Step
  PROVE  RelayType' /\ NoneInv' /\ ~Cuts
<1>1. todo = <<Believe(command)>> /\ command \in BOOLEAN BY DEF NoneInv, Step, RelayType
<1>2. Head(todo) = Believe(command) /\ todo' = <<>> BY <1>1, NoneIs DEF Step
<1>3. RelayType' /\ powerMgmtState' = command BY <1>1, <1>2, BelieveStep
<1>4. payload' = payload BY DEF Step, Power
<1> QED BY <1>2, <1>3, <1>4 DEF NoneInv, Step, Cuts

-----------------------------------------------------------------------------
(* The payload follows *)

\* A boot begins, its pads not driving.
Booting ==
    /\ RelayType /\ todo = setupPins \o RelayController_init /\ command
    /\ ~output[On] /\ ~output[Off]
    /\ driver = "pololu" => (lost => ~payload)
    /\ driver = "nc" => payload /\ ~lost

LEMMA BootBegins == Booting => RelayInv
<1> SUFFICES ASSUME Booting PROVE RelayInv OBVIOUS
<1> USE DEF Booting
<1>1. CASE driver = "pololu"
  <2>1. Before(BootOps, 1) BY <1>1, BootIs, SubSeqFull DEF Before
  <2>2. Latching BY <2>1 DEF Latching
  <2> QED BY <1>1, <2>2 DEF RelayInv, PololuInv
<1>2. CASE driver = "nc"
  <2>1. Before(NcBoot, 1) BY <1>2, NcIs, SubSeqFull DEF Before
  <2>2. payload = ~High(RELAY_POWER_MGMT) BY <1>2, PinNames DEF High, RelayType
  <2>3. \E k \in 1 .. 3 : Before(NcBoot, k)
    <3>1. 1 \in 1 .. 3 OBVIOUS
    <3> QED BY <2>1, <3>1, Zenon
  <2>4. NcInv BY <1>2, <2>2, <2>3, Zenon DEF NcInv
  <2> QED BY <1>2, <2>4 DEF RelayInv
<1>3. CASE driver = "none"
  <2>1. todo = <<Believe(command)>> BY <1>3, NoneIs DEF RelayType
  <2> QED BY <1>3, <2>1 DEF RelayInv, NoneInv
<1> QED BY <1>1, <1>2, <1>3 DEF RelayType

LEMMA InitRelay == Init => RelayInv
<1> SUFFICES ASSUME Init PROVE RelayInv OBVIOUS
<1>1. RelayType /\ ~output[On] /\ ~output[Off] BY PinNames DEF Init, RelayType
<1>2. Booting BY <1>1 DEF Booting, Init
<1> QED BY <1>2, BootBegins

LEMMA ResetRelay ==
  ASSUME RelayInv, Reset
  PROVE  RelayInv' /\ payload' = IF driver = "nc" THEN TRUE ELSE payload
<1>1. Lines[On] = High(On) /\ Lines[Off] = High(Off) BY PinNames DEF Lines
<1>2. payload' = IF driver = "nc" THEN TRUE ELSE payload
  BY PinNames DEF Reset, Power, RelayInv, RelayType, On, Off
<1>3. /\ RelayType' /\ ~output'[On] /\ ~output'[Off] /\ command' = TRUE
      /\ driver' = driver /\ lost' = lost
  BY <1>2, PinNames DEF Reset, RelayInv, RelayType
<1>4. (setupPins \o RelayController_init)' = setupPins \o RelayController_init
  BY <1>3 DEF setupPins, RelayController_init
<1>5. todo' = (setupPins \o RelayController_init)' BY <1>4 DEF Reset
<1>6. /\ driver' = "pololu" => (lost' => ~payload')
      /\ driver' = "nc" => payload' /\ ~lost'
  BY <1>2, <1>3 DEF RelayInv, PololuInv, NcInv
<1>7. Booting' BY <1>3, <1>5, <1>6 DEF Booting
<1>8. (Booting => RelayInv)' BY BootBegins, PTL
<1> QED BY <1>2, <1>7, <1>8

LEMMA StepRelay == ASSUME RelayInv, Step PROVE RelayInv' /\ ~Cuts
<1>1. CASE driver = "pololu"
  <2>1. todo # <<>> /\ driver' = driver BY DEF Step
  <2>2. RelayType' /\ PololuInv' /\ ~Cuts
    BY <1>1, <2>1, LatchingStep, PulsingStep DEF RelayInv, PololuInv, Resting
  <2> QED BY <1>1, <2>1, <2>2 DEF RelayInv
<1>2. CASE driver = "nc"
  <2>1. driver' = driver BY DEF Step
  <2> QED BY <1>2, <2>1, NcStep DEF RelayInv
<1>3. CASE driver = "none"
  <2>1. driver' = driver BY DEF Step
  <2> QED BY <1>3, <2>1, NoneStep DEF RelayInv
<1> QED BY <1>1, <1>2, <1>3 DEF RelayInv, RelayType

\* Between two calls.
LEMMA IdleRelay ==
  ASSUME RelayInv, todo = <<>>
  PROVE  /\ driver = "pololu" => Resting
         /\ powerMgmtState = command
         /\ driver = "nc" => payload = command /\ ~lost
<1>1. \A ops \in Seq(Ops) : \A k \in 1 .. Len(ops) : ~Before(ops, k) BY Advance
<1>2. ~Latching BY <1>1, BootIs DEF Latching
<1>3. \A s \in BOOLEAN : ~PulseAt(s, 1) /\ ~PulseAt(s, 2) /\ ~PulseAt(s, 3)
  BY <1>1, PulseIs DEF PulseAt
<1>4. ~Pulsing BY <1>3, Zenon DEF Pulsing
<1>5. \A k \in 1 .. 3 : ~Before(NcBoot, k) BY <1>1, NcIs
<1>6. \A s \in BOOLEAN, k \in 1 .. 2 : ~Before(NcSet(s), k) BY <1>1, NcIs
<1>7. CASE driver = "pololu"
  <2>1. Resting BY <1>2, <1>4, <1>7 DEF RelayInv, PololuInv
  <2> QED BY <1>7, <2>1 DEF Resting
<1>8. CASE driver = "nc" BY <1>5, <1>6, <1>8, Zenon DEF RelayInv, NcInv
<1>9. CASE driver = "none" BY <1>9 DEF RelayInv, NoneInv
<1> QED BY <1>7, <1>8, <1>9 DEF RelayInv, RelayType

LEMMA SetRelay ==
  ASSUME RelayInv, NEW state \in BOOLEAN, Set(state)
  PROVE  RelayInv'
<1>1. /\ todo = <<>> /\ todo' = setPowerManagement(state) /\ command' = state
      /\ UNCHANGED <<driver, level, output, powerMgmtState, payload, lost>>
  BY DEF Set
<1>2. RelayType' BY <1>1 DEF RelayInv, RelayType
<1>3. CASE driver = "pololu"
  <2>1. Resting /\ (lost => ~payload) BY <1>1, <1>3, IdleRelay DEF RelayInv, PololuInv
  <2>2. CASE state = powerMgmtState
    <3>1. todo' = <<>> BY <1>1, <1>3, <2>2 DEF setPowerManagement
    <3>2. Resting' BY <1>1, <2>1, <2>2, <3>1 DEF Resting, Low, Driving, Follows
    <3> QED BY <1>1, <1>2, <1>3, <2>1, <3>2 DEF RelayInv, PololuInv
  <2>3. CASE state # powerMgmtState
    <3>1. todo' = PulseOps(state) BY <1>1, <1>3, <2>3, PulseIs DEF setPowerManagement
    <3>2. Before(PulseOps(state), 1)' BY <3>1, PulseIs, SubSeqFull DEF Before
    <3>3. PulseAt(state, 1)' /\ Low'
      BY <1>1, <2>1, <3>2 DEF PulseAt, Resting, Low, Driving
    <3>4. Pulsing' BY <3>3, Zenon DEF Pulsing
    <3> QED BY <1>1, <1>2, <1>3, <2>1, <3>4 DEF RelayInv, PololuInv
  <2> QED BY <2>2, <2>3
<1>4. CASE driver = "nc"
  <2>1. payload = ~High(RELAY_POWER_MGMT) /\ ~lost BY <1>4 DEF RelayInv, NcInv
  <2>2. todo' = NcSet(state) BY <1>1, <1>4 DEF setPowerManagement, driveRelay, NcSet
  <2>3. Before(NcSet(state), 1)'
    <3>1. NcSet(state) \in Seq(Ops) BY NcIs, Zenon
    <3> QED BY <2>2, <3>1, SubSeqFull DEF Before
  <2>4. payload' = ~High(RELAY_POWER_MGMT)' /\ ~lost' BY <1>1, <2>1 DEF High
  <2>5. NcInv'
    <3>1. 1 \in 1 .. 2 /\ 1 # 2 OBVIOUS
    <3> QED BY <1>1, <2>3, <2>4, <3>1, Zenon DEF NcInv
  <2> QED BY <1>1, <1>2, <1>4, <2>5 DEF RelayInv
<1>5. CASE driver = "none"
  <2>1. todo' = <<Believe(command')>> BY <1>1, <1>5 DEF setPowerManagement
  <2> QED BY <1>1, <1>2, <1>5, <2>1 DEF RelayInv, NoneInv
<1> QED BY <1>3, <1>4, <1>5 DEF RelayInv, RelayType

LEMMA LoseVinRelay == ASSUME RelayInv, LoseVin PROVE RelayInv'
<1>1. /\ driver = "pololu" /\ payload' = FALSE /\ lost' = TRUE
      /\ UNCHANGED <<driver, level, output, powerMgmtState, todo, command>>
  BY DEF LoseVin
<1>2. RelayType' BY <1>1 DEF RelayInv, RelayType
<1>3. Follows' BY <1>1, <1>2 DEF Follows, RelayType
<1>4. Latching => Latching' BY <1>1 DEF Latching, Before
<1>5. Pulsing => Pulsing'
  <2>1. Low' = Low /\ \A s, k : PulseAt(s, k)' = PulseAt(s, k)
    BY <1>1 DEF Low, PulseAt, Before, Driving
  <2> QED BY <1>1, <1>3, <2>1, Zenon DEF Pulsing
<1>6. Resting => Resting' BY <1>1, <1>3 DEF Resting, Low, Driving
<1> QED BY <1>1, <1>2, <1>4, <1>5, <1>6 DEF RelayInv, PololuInv

LEMMA StutterRelay == ASSUME RelayInv, UNCHANGED vars PROVE RelayInv'
BY DEF RelayInv, RelayType, PololuInv, NcInv, NoneInv, Latching, Pulsing, PulseAt, Resting,
       Before, Low, Driving, Follows, High, vars

LEMMA NextRelay == RelayInv /\ [Next]_vars => RelayInv'
BY StepRelay, ResetRelay, SetRelay, LoseVinRelay, StutterRelay DEF Next

\* RelayInv is inductive: whatever step a routine is cut short in, the belief,
\* the latches and the payload are those that the steps ahead of it count on.
THEOREM RelayInvariant == Spec => []RelayInv
<1> QED BY InitRelay, NextRelay, PTL DEF Spec

LEMMA FollowsFromRelay == RelayInv => PayloadFollows
<1> SUFFICES ASSUME RelayInv PROVE RequestHolds /\ PulsesEnd BY DEF PayloadFollows
<1>1. RequestHolds
  <2> SUFFICES ASSUME todo = <<>>
               PROVE  powerMgmtState = command /\ (driver # "none" => payload = (command /\ ~lost))
    BY DEF RequestHolds
  <2>1. driver = "pololu" => payload = (command /\ ~lost) BY IdleRelay DEF Resting, Follows
  <2>2. driver = "nc" => payload = (command /\ ~lost) BY IdleRelay DEF RelayInv, RelayType
  <2> QED BY <2>1, <2>2, IdleRelay DEF RelayInv, RelayType
<1>2. ASSUME driver = "pololu"
      PROVE  /\ ~(High(On) /\ High(Off))
             /\ todo = <<>> => ~High(On) /\ ~High(Off)
  <2>1. Latching => ~High(On) /\ ~High(Off) BY DEF Latching, High
  <2>2. Pulsing => ~(High(On) /\ High(Off)) BY DEF Pulsing, Low, High
  <2>3. Resting => ~High(On) /\ ~High(Off) BY DEF Resting, Low, High
  <2> QED BY <1>2, <2>1, <2>2, <2>3, IdleRelay DEF RelayInv, PololuInv
<1>3. \A p \in Pins : p = On \/ p = Off
  BY DEF Pins, On, Off, PAYLOAD_POWER_OFF_PIN, PAYLOAD_POWER_ON_PIN
<1> QED BY <1>1, <1>2, <1>3 DEF PulsesEnd, On, Off

LEMMA CutsFromRelay ==
  RelayInv /\ [Next]_vars => (payload /\ ~payload' => ~command \/ lost')
<1> SUFFICES ASSUME RelayInv, [Next]_vars PROVE payload /\ ~payload' => ~command \/ lost'
  OBVIOUS
<1>1. CASE Step BY <1>1, StepRelay DEF Cuts
<1>2. CASE Reset BY <1>2, ResetRelay
<1>3. CASE LoseVin BY <1>3 DEF LoseVin
<1>4. CASE \E state \in BOOLEAN : Set(state) BY <1>4 DEF Set
<1>5. CASE UNCHANGED vars BY <1>5 DEF vars
<1> QED BY <1>1, <1>2, <1>3, <1>4, <1>5 DEF Next

\* Every step of the board is one of the relay's or leaves it alone.
LEMMA BoardDrivesRelay == PowerSpec => Spec
<1>1. PowerInit => Init BY DEF PowerInit
<1>2. [PowerNext]_allVars => [Next]_vars
  BY DEF PowerNext, Drive, Type, Put, Restart, Next, allVars
<1> QED BY <1>1, <1>2, PTL DEF PowerSpec, Spec

\* Whichever driver the build has and wherever the board resets, the payload
\* has power between two calls exactly if that was requested last, and no two
\* pulses meet (RelayController_setPowerManagement, RelayController_init).
THEOREM PayloadIsAsRequested == PowerSpec => []PayloadFollows
<1> QED BY RelayInvariant, FollowsFromRelay, BoardDrivesRelay, PTL

\* No reset, and no boot behind it, takes the payload's power away
\* (RelayController_init, setupPins).
THEOREM BootsCutNothing == PowerSpec => OnlyRequestsCut
<1>1. Spec => [][payload /\ ~payload' => ~command \/ lost']_vars
  BY RelayInvariant, CutsFromRelay, PTL DEF Spec
<1> QED BY <1>1, BoardDrivesRelay, PTL DEF OnlyRequestsCut

-----------------------------------------------------------------------------
(* The settings *)

\* A record, whatever its bytes hold.
IsRecord(c) == c \in [Bytes -> 0 .. BYTE - 1]

\* A record that ConfigManager_load takes.
Sound(c) == IsRecord(c) /\ ConfigManager_load(c)

Fields == DOMAIN First
Words == Fields \ Flags

-----------------------------------------------------------------------------
(* Fields and bytes *)

LEMMA Layout ==
  /\ Fields = {"magic", "iridiumInterval", "meshtasticInterval", "mavlinkInterval",
               "enableIridium", "enableMeshtastic", "enableMAVLink", "enablePSM",
               "enableNeoPixels", "timedEnabled", "timedAbsolute", "triggerTime",
               "durationSeconds", "powerSaveVoltage", "checksum"}
  /\ \A f \in Fields : Span(f) \subseteq Bytes
  /\ \A f \in Fields : \A b \in Span(f) : First[f] \in Int /\ b - First[f] + 1 \in 1 .. 4
  /\ \A f \in Words : Span(f) = First[f] .. First[f] + 3
  /\ Span("magic") = 1 .. 4 /\ Span("checksum") = 41 .. 44
<1>1. Fields = {"magic", "iridiumInterval", "meshtasticInterval", "mavlinkInterval",
               "enableIridium", "enableMeshtastic", "enableMAVLink", "enablePSM",
               "enableNeoPixels", "timedEnabled", "timedAbsolute", "triggerTime",
               "durationSeconds", "powerSaveVoltage", "checksum"}
  BY DEF Fields, First
<1>2. \A f \in Fields : First[f] \in 1 .. 41 BY <1>1 DEF First
<1>3. \A f \in Fields : Span(f) \subseteq Bytes BY <1>1, <1>2 DEF First, Span, Flags, Bytes
<1>4. \A f \in Fields : \A b \in Span(f) : First[f] \in Int /\ b - First[f] + 1 \in 1 .. 4
  BY <1>1, <1>2 DEF Span
<1>5. \A f \in Words : Span(f) = First[f] .. First[f] + 3 BY DEF Words, Span
<1>6. Span("magic") = 1 .. 4 /\ Span("checksum") = 41 .. 44 BY DEF Span, First, Flags
<1> QED BY <1>1, <1>3, <1>4, <1>5, <1>6

LEMMA Disjoint ==
  ASSUME NEW f \in Fields, NEW g \in Fields, NEW b \in Span(f), b \in Span(g)
  PROVE  f = g
BY DEF Fields, First, Span, Flags

LEMMA FieldIs ==
  /\ \A f \in Fields : \A b \in Span(f) : FieldAt[b] = f
  /\ \A b \in Bytes : FieldAt[b] \in Fields \/ FieldAt[b] = "none"
  /\ \A b \in Bytes : FieldAt[b] \in Fields => b \in Span(FieldAt[b])
  /\ "none" \notin Fields
<1>1. "none" \notin Fields BY DEF Fields, First
<1>2. ASSUME NEW b \in Bytes, NEW f \in Fields, b \in Span(f) PROVE FieldAt[b] = f
  <2>1. FieldAt[b] \in Fields /\ b \in Span(FieldAt[b])
    BY <1>2 DEF FieldAt, Fields
  <2> QED BY <1>2, <2>1, Disjoint
<1>3. ASSUME NEW b \in Bytes, ~\E f \in Fields : b \in Span(f) PROVE FieldAt[b] = "none"
  BY <1>3 DEF FieldAt, Fields
<1>4. \A f \in Fields : \A b \in Span(f) : FieldAt[b] = f BY <1>2, Layout
<1>5. ASSUME NEW b \in Bytes
      PROVE  /\ FieldAt[b] \in Fields \/ FieldAt[b] = "none"
             /\ FieldAt[b] \in Fields => b \in Span(FieldAt[b])
  BY <1>1, <1>2, <1>3
<1> QED BY <1>1, <1>4, <1>5

-----------------------------------------------------------------------------
(* Numbers and bytes *)

LEMMA Sizes ==
  /\ BYTE \in Nat /\ BYTE >= 2 /\ UINT16 \in Nat \ {0} /\ UINT32 \in Nat \ {0}
  /\ \A k \in 1 .. 4 : Place[k] \in Nat \ {0}
<1>1. BYTE \in Nat /\ BYTE >= 2 BY ConfigAssumption
<1>2. \A x, y \in Nat \ {0} : x * y \in Nat \ {0}
  <2> TAKE x, y \in Nat \ {0}
  <2>1. x * y >= 1 * y OBVIOUS
  <2> QED BY <2>1
<1>3. BYTE \in Nat \ {0} BY <1>1
<1>4. BYTE * BYTE \in Nat \ {0} BY <1>2, <1>3
<1>5. UINT32 \in Nat \ {0} BY <1>2, <1>4 DEF UINT16, UINT32
<1>6. BYTE * BYTE * BYTE \in Nat \ {0} BY <1>2, <1>3, <1>4
<1> QED BY <1>1, <1>3, <1>4, <1>5, <1>6 DEF UINT16, Place

LEMMA ByteIs ==
  ASSUME NEW n \in Int, NEW k \in 1 .. 4
  PROVE  byteOf(n, k) \in 0 .. BYTE - 1
<1> DEFINE q == n \div Place[k]
<1>1. q \in Int BY Sizes
<1> HIDE DEF q
<1>2. q % BYTE \in 0 .. BYTE - 1 BY <1>1, Sizes
<1> QED BY <1>2 DEF byteOf, q

\* Dividing by a product is dividing twice.
LEMMA DividedTwice ==
  ASSUME NEW n \in Nat, NEW w \in Nat \ {0}, NEW b \in Nat \ {0}
  PROVE  n \div (w * b) = (n \div w) \div b
<1> DEFINE x == n \div w
           r == n % w
           y == x \div b
           s == x % b
<1>1. n = w * x + r /\ r \in 0 .. w - 1 /\ x \in Nat OBVIOUS
<1> HIDE DEF x, r
<1>2. x = b * y + s /\ s \in 0 .. b - 1 /\ y \in Nat BY <1>1
<1> HIDE DEF y, s
<1> DEFINE m == w * b
           t == w * s + r
<1>3. n = m * y + t
  <2>1. w * (b * y + s) = (w * b) * y + w * s BY <1>2
  <2> QED BY <1>1, <1>2, <2>1
<1>4. m \in Nat \ {0} /\ t \in 0 .. m - 1
  <2>1. w * s <= w * (b - 1) BY <1>2
  <2>2. w * (b - 1) = w * b - w OBVIOUS
  <2>3. w * s \in Nat /\ w * b \in Nat BY <1>2
  <2>4. w * b >= 1 OBVIOUS
  <2> QED BY <1>1, <2>1, <2>2, <2>3, <2>4
<1> HIDE DEF m, t
<1>5. n \div m = y BY <1>2, <1>3, <1>4
<1> QED BY <1>5 DEF m, y, x

\* Four bytes hold a number of 32 bits.
LEMMA WordReadsBack ==
  ASSUME NEW n \in 0 .. UINT32 - 1
  PROVE  byteOf(n, 1) + BYTE * (byteOf(n, 2) + BYTE * (byteOf(n, 3) + BYTE * byteOf(n, 4))) = n
<1> DEFINE q1 == n \div BYTE
           q2 == q1 \div BYTE
           q3 == q2 \div BYTE
           b1 == n % BYTE
           b2 == q1 % BYTE
           b3 == q2 % BYTE
<1>1. n \in Nat /\ BYTE \in Nat \ {0} BY Sizes
<1>2. /\ Place[1] = 1 /\ Place[2] = BYTE /\ Place[3] = BYTE * BYTE
      /\ Place[4] = BYTE * BYTE * BYTE
  BY DEF Place
<1>3. n \div (BYTE * BYTE) = q2 BY <1>1, DividedTwice
<1>4. n \div (BYTE * BYTE * BYTE) = q3
  <2> DEFINE w == BYTE * BYTE
  <2>1. w \in Nat \ {0} BY Sizes DEF UINT16
  <2> HIDE DEF w
  <2>2. n \div (w * BYTE) = (n \div w) \div BYTE BY <1>1, <2>1, DividedTwice
  <2> QED BY <1>3, <2>2 DEF w
<1>5. n = BYTE * q1 + b1 /\ q1 \in Nat /\ b1 \in Nat BY <1>1
<1>6. q1 = BYTE * q2 + b2 /\ q2 \in Nat /\ b2 \in Nat BY <1>1, <1>5
<1>7. q2 = BYTE * q3 + b3 /\ q3 \in Nat /\ b3 \in Nat BY <1>1, <1>6
<1>8. n \div 1 = n BY <1>1
<1>9. byteOf(n, 1) = b1 /\ byteOf(n, 2) = b2 /\ byteOf(n, 3) = b3 /\ byteOf(n, 4) = q3 % BYTE
  BY <1>2, <1>3, <1>4, <1>8 DEF byteOf
<1> HIDE DEF q1, q2, q3, b1, b2, b3
<1>10. q3 % BYTE = q3
  <2> SUFFICES ASSUME q3 >= BYTE PROVE FALSE BY <1>1, <1>7
  <2>1. q2 >= BYTE * BYTE
    <3>1. BYTE * q3 >= BYTE * BYTE BY <1>1, <1>7
    <3> QED BY <1>1, <1>7, <3>1
  <2>2. q1 >= BYTE * (BYTE * BYTE)
    <3>1. BYTE * q2 >= BYTE * (BYTE * BYTE) BY <1>1, <1>6, <2>1
    <3> QED BY <1>1, <1>6, <2>1, <3>1
  <2>3. n >= BYTE * (BYTE * (BYTE * BYTE))
    <3>1. BYTE * q1 >= BYTE * (BYTE * (BYTE * BYTE)) BY <1>1, <1>5, <2>2
    <3> QED BY <1>1, <1>5, <2>2, <3>1
  <2>4. UINT32 = BYTE * (BYTE * (BYTE * BYTE)) BY <1>1 DEF UINT16, UINT32
  <2> QED BY <1>1, <2>3, <2>4, Sizes
<1>11. b3 + BYTE * q3 = q2 /\ b2 + BYTE * q2 = q1 /\ b1 + BYTE * q1 = n
  <2>1. BYTE * q3 \in Int /\ BYTE * q2 \in Int /\ BYTE * q1 \in Int BY <1>1, <1>5, <1>6, <1>7
  <2> QED BY <1>5, <1>6, <1>7, <2>1
<1>12. b1 + BYTE * (b2 + BYTE * (b3 + BYTE * q3)) = n BY <1>11
<1> QED BY <1>9, <1>10, <1>12

-----------------------------------------------------------------------------
(* Setting fields *)

Numbers(values) == DOMAIN values \subseteq Fields /\ \A f \in DOMAIN values : values[f] \in Int

LEMMA SetIs ==
  ASSUME NEW c, NEW values, Numbers(values)
  PROVE  /\ \A b \in Bytes : FieldAt[b] \notin DOMAIN values => set(c, values)[b] = c[b]
         /\ \A f \in DOMAIN values : \A b \in Span(f) :
              set(c, values)[b] = byteOf(values[f], b - First[f] + 1)
         /\ IsRecord(c) => IsRecord(set(c, values))
<1>1. \A b \in Bytes : FieldAt[b] \notin DOMAIN values => set(c, values)[b] = c[b] BY DEF set
<1>2. ASSUME NEW f \in DOMAIN values, NEW b \in Span(f)
      PROVE  set(c, values)[b] = byteOf(values[f], b - First[f] + 1)
  <2>1. f \in Fields BY DEF Numbers
  <2>2. b \in Bytes /\ FieldAt[b] = f BY <2>1, Layout, FieldIs
  <2> QED BY <2>2 DEF set
<1>3. ASSUME IsRecord(c), NEW b \in Bytes PROVE set(c, values)[b] \in 0 .. BYTE - 1
  <2>1. CASE FieldAt[b] \notin DOMAIN values BY <1>1, <1>3, <2>1 DEF IsRecord
  <2>2. CASE FieldAt[b] \in DOMAIN values
    <3> DEFINE f == FieldAt[b]
    <3>1. f \in Fields /\ b \in Span(f) BY <2>2, FieldIs DEF Numbers
    <3>2. b - First[f] + 1 \in 1 .. 4 BY <3>1, Layout
    <3>3. values[f] \in Int BY <2>2 DEF Numbers
    <3>4. set(c, values)[b] = byteOf(values[f], b - First[f] + 1) BY <1>2, <2>2, <3>1
    <3> HIDE DEF f
    <3> QED BY <3>2, <3>3, <3>4, ByteIs
  <2> QED BY <2>1, <2>2
<1>4. set(c, values) = [b \in Bytes |-> set(c, values)[b]] BY DEF set
<1>5. IsRecord(c) => IsRecord(set(c, values)) BY <1>3, <1>4 DEF IsRecord
<1> QED BY <1>1, <1>2, <1>5

\* A field of four bytes reads back, another stays.
LEMMA SetNumber ==
  ASSUME NEW c, NEW values, Numbers(values), NEW f \in Words
  PROVE  /\ f \in DOMAIN values /\ values[f] \in 0 .. UINT32 - 1 =>
              Number(set(c, values), f) = values[f]
         /\ f \notin DOMAIN values => Number(set(c, values), f) = Number(c, f)
<1> DEFINE a == First[f]
           m == set(c, values)
<1>1. f \in Fields /\ Span(f) = a .. a + 3 /\ a \in Int
  <2>1. f \in Fields /\ Span(f) = a .. a + 3 BY Layout DEF Words
  <2>2. First[f] \in Int BY DEF Words, Fields, First
  <2> QED BY <2>1, <2>2
<1>2. Number(m, f) = m[a] + BYTE * (m[a + 1] + BYTE * (m[a + 2] + BYTE * m[a + 3]))
  BY DEF Number
<1>3. Number(c, f) = c[a] + BYTE * (c[a + 1] + BYTE * (c[a + 2] + BYTE * c[a + 3]))
  BY DEF Number
<1> HIDE DEF a, m
<1>4. a \in Span(f) /\ a + 1 \in Span(f) /\ a + 2 \in Span(f) /\ a + 3 \in Span(f) BY <1>1
<1>5. ASSUME f \in DOMAIN values, values[f] \in 0 .. UINT32 - 1 PROVE Number(m, f) = values[f]
  <2> DEFINE n == values[f]
  <2>1. \A b \in Span(f) : m[b] = byteOf(n, b - a + 1) BY <1>5, SetIs DEF a, m
  <2> HIDE DEF n
  <2>2. /\ m[a] = byteOf(n, a - a + 1) /\ m[a + 1] = byteOf(n, (a + 1) - a + 1)
        /\ m[a + 2] = byteOf(n, (a + 2) - a + 1) /\ m[a + 3] = byteOf(n, (a + 3) - a + 1)
    BY <1>4, <2>1
  <2>3. /\ a - a + 1 = 1 /\ (a + 1) - a + 1 = 2 /\ (a + 2) - a + 1 = 3
        /\ (a + 3) - a + 1 = 4
    BY <1>1
  <2>4. m[a] = byteOf(n, 1) /\ m[a + 1] = byteOf(n, 2) /\ m[a + 2] = byteOf(n, 3)
        /\ m[a + 3] = byteOf(n, 4)
    BY <2>2, <2>3
  <2>5. byteOf(n, 1) + BYTE * (byteOf(n, 2) + BYTE * (byteOf(n, 3) + BYTE * byteOf(n, 4))) = n
    BY <1>5, WordReadsBack DEF n
  <2> QED BY <1>2, <2>4, <2>5 DEF n
<1>6. ASSUME f \notin DOMAIN values PROVE Number(m, f) = Number(c, f)
  <2>1. \A b \in Span(f) : m[b] = c[b]
    <3> TAKE b \in Span(f)
    <3>1. b \in Bytes /\ FieldAt[b] = f BY <1>1, Layout, FieldIs
    <3> QED BY <1>6, <3>1, SetIs DEF m
  <2>2. m[a] = c[a] /\ m[a + 1] = c[a + 1] /\ m[a + 2] = c[a + 2] /\ m[a + 3] = c[a + 3]
    BY <1>4, <2>1
  <2> QED BY <1>2, <1>3, <2>2
<1> QED BY <1>5, <1>6 DEF m

-----------------------------------------------------------------------------
(* The checksum *)

LEMMA Induction ==
  ASSUME NEW T, 0 \in T, \A n \in Nat : n \in T => n + 1 \in T
  PROVE  Nat \subseteq T
<1> DEFINE R == OpToRel(<, Nat)
           U == {n \in Nat : n \notin T}
<1>1. IsWellFoundedOn(R, Nat) BY NatLessThanWellFounded
<1>2. \A x, y \in Nat : y < x => <<y, x>> \in R BY DEF OpToRel
<1> HIDE DEF R
<1>3. SUFFICES ASSUME U # {} PROVE FALSE OBVIOUS
<1>4. PICK x \in U : \A y \in U : <<y, x>> \notin R BY <1>1, <1>3, WFMin
<1>5. x # 0 OBVIOUS
<1>6. x - 1 \in Nat /\ x - 1 < x BY <1>5
<1>7. x - 1 \notin U BY <1>2, <1>4, <1>6
<1> QED BY <1>6, <1>7

\* The sums of the first bytes of a record, one more at a time.
Summing(sum, c, n) ==
    sum = [k \in 0 .. n |-> IF k = 0 THEN 0 ELSE sum[k - 1] + c[k]]

LEMMA SumExists ==
  ASSUME NEW c
  PROVE  \E sum : Summing(sum, c, 40) /\ SumOfBytes(c) = sum[40]
<1> DEFINE T == {n \in Nat : \E sum : Summing(sum, c, n)}
<1>1. 0 \in T
  <2> DEFINE sum == [k \in 0 .. 0 |-> 0]
  <2>1. Summing(sum, c, 0) BY DEF Summing
  <2> QED BY <2>1
<1>2. ASSUME NEW m \in Nat, m \in T PROVE m + 1 \in T
  <2>1. PICK sum : Summing(sum, c, m) BY <1>2
  <2> DEFINE next == sum[m] + c[m + 1]
             g == [k \in 0 .. m + 1 |-> IF k = m + 1 THEN next ELSE sum[k]]
             h(k) == IF k = 0 THEN 0 ELSE g[k - 1] + c[k]
  <2>2. ASSUME NEW k \in 0 .. m + 1 PROVE g[k] = h(k)
    <3>1. CASE k = m + 1
      <4>1. k # 0 /\ k - 1 = m /\ m \in 0 .. m + 1 /\ m # m + 1 BY <3>1
      <4>2. g[m] = sum[m] /\ g[k] = next BY <3>1, <4>1
      <4> HIDE DEF g
      <4> QED BY <3>1, <4>1, <4>2
    <3>2. CASE k # m + 1
      <4>1. k \in 0 .. m /\ g[k] = sum[k] BY <3>2
      <4>2. k # 0 => k - 1 \in 0 .. m + 1 /\ k - 1 # m + 1 BY <3>2
      <4>3. k # 0 => g[k - 1] = sum[k - 1] BY <4>2
      <4> HIDE DEF g
      <4>4. sum[k] = IF k = 0 THEN 0 ELSE sum[k - 1] + c[k]
        BY <2>1, <4>1 DEF Summing
      <4> QED BY <4>1, <4>3, <4>4
    <3> QED BY <3>1, <3>2
  <2>3. Summing(g, c, m + 1)
    <3>1. \A k \in 0 .. m + 1 : g[k] = h(k) BY <2>2
    <3>2. g = [k \in 0 .. m + 1 |-> g[k]] OBVIOUS
    <3> HIDE DEF g
    <3>3. g = [k \in 0 .. m + 1 |-> h(k)] BY <3>1, <3>2
    <3> QED BY <3>3 DEF Summing
  <2> HIDE DEF g
  <2> QED BY <2>3
<1>3. 40 \in T
  <2> HIDE DEF T
  <2>1. Nat \subseteq T BY <1>1, <1>2, Induction
  <2> QED BY <2>1
<1> DEFINE s == CHOOSE sum : Summing(sum, c, 40)
<1>4. Summing(s, c, 40)
  <2>1. \E sum : Summing(sum, c, 40) BY <1>3
  <2> QED BY <2>1
<1>5. SumOfBytes(c) = s[40] BY DEF SumOfBytes, Summing
<1> QED BY <1>4, <1>5

LEMMA SameBytesSameSum ==
  ASSUME NEW c, NEW d, \A b \in Summed : c[b] = d[b]
  PROVE  SumOfBytes(c) = SumOfBytes(d)
<1>1. PICK s : Summing(s, c, 40) /\ SumOfBytes(c) = s[40] BY SumExists
<1>2. PICK t : Summing(t, d, 40) /\ SumOfBytes(d) = t[40] BY SumExists
<1> DEFINE T == {k \in Nat : k <= 40 => s[k] = t[k]}
<1>3. \A k \in 0 .. 40 : /\ s[k] = IF k = 0 THEN 0 ELSE s[k - 1] + c[k]
                         /\ t[k] = IF k = 0 THEN 0 ELSE t[k - 1] + d[k]
  BY <1>1, <1>2 DEF Summing
<1>4. \A k \in 1 .. 40 : c[k] = d[k] BY DEF Summed
<1>5. 0 \in T BY <1>3
<1>6. ASSUME NEW k \in Nat, k \in T PROVE k + 1 \in T
  <2> SUFFICES ASSUME k + 1 <= 40 PROVE s[k + 1] = t[k + 1] OBVIOUS
  <2>1. s[k] = t[k] /\ k + 1 \in 1 .. 40 /\ (k + 1) - 1 = k BY <1>6
  <2> QED BY <1>3, <1>4, <2>1
<1>7. 40 \in T
  <2> HIDE DEF T
  <2> QED BY <1>5, <1>6, Induction
<1> QED BY <1>1, <1>2, <1>7

\* Forty bytes add up to no more than forty times the largest.
LEMMA SumBound ==
  ASSUME NEW c, IsRecord(c)
  PROVE  SumOfBytes(c) \in 0 .. 40 * (BYTE - 1)
<1>1. PICK s : Summing(s, c, 40) /\ SumOfBytes(c) = s[40] BY SumExists
<1> DEFINE m == BYTE - 1
           T == {k \in Nat : k <= 40 => s[k] \in Nat /\ s[k] <= k * m}
<1>2. \A k \in 0 .. 40 : s[k] = IF k = 0 THEN 0 ELSE s[k - 1] + c[k]
  BY <1>1 DEF Summing
<1>3. \A k \in 1 .. 40 : c[k] \in 0 .. m BY DEF IsRecord, Bytes
<1>4. m \in Nat BY Sizes
<1>5. 0 \in T BY <1>2, <1>4
<1>6. ASSUME NEW k \in Nat, k \in T PROVE k + 1 \in T
  <2> SUFFICES ASSUME k + 1 <= 40 PROVE s[k + 1] \in Nat /\ s[k + 1] <= (k + 1) * m OBVIOUS
  <2>1. s[k] \in Nat /\ s[k] <= k * m /\ k + 1 \in 1 .. 40 /\ (k + 1) - 1 = k BY <1>6
  <2>2. s[k + 1] = s[k] + c[k + 1] BY <1>2, <2>1
  <2> HIDE DEF m
  <2>3. (k + 1) * m = k * m + m /\ k * m \in Nat BY <1>4
  <2>4. c[k + 1] \in 0 .. m BY <1>3, <2>1
  <2> QED BY <1>4, <2>1, <2>2, <2>3, <2>4
<1>7. 40 \in T
  <2> HIDE DEF T
  <2> QED BY <1>5, <1>6, Induction
<1> QED BY <1>1, <1>4, <1>7

\* Of two records of which one is nowhere less and somewhere more, it has the
\* greater sum.
LEMMA SumsRise ==
  ASSUME NEW c, NEW d, IsRecord(c), IsRecord(d), NEW j \in Summed,
         \A b \in Summed : c[b] >= d[b], c[j] > d[j]
  PROVE  SumOfBytes(c) > SumOfBytes(d)
<1>1. PICK s : Summing(s, c, 40) /\ SumOfBytes(c) = s[40] BY SumExists
<1>2. PICK t : Summing(t, d, 40) /\ SumOfBytes(d) = t[40] BY SumExists
<1> DEFINE Above(k) == s[k] \in Int /\ t[k] \in Int /\ s[k] >= t[k] /\ (k >= j => s[k] > t[k])
           T == {k \in Nat : k <= 40 => Above(k)}
<1>3. \A k \in 0 .. 40 : /\ s[k] = IF k = 0 THEN 0 ELSE s[k - 1] + c[k]
                         /\ t[k] = IF k = 0 THEN 0 ELSE t[k - 1] + d[k]
  BY <1>1, <1>2 DEF Summing
<1>4. \A k \in 1 .. 40 : c[k] \in Int /\ d[k] \in Int /\ c[k] >= d[k] /\ (k = j => c[k] > d[k])
  BY Sizes DEF IsRecord, Bytes, Summed
<1>5. j \in 1 .. 40 BY DEF Summed
<1>6. 0 \in T
  <2>1. s[0] = 0 /\ t[0] = 0 BY <1>3
  <2> QED BY <1>5, <2>1
<1>7. ASSUME NEW k \in Nat, k \in T PROVE k + 1 \in T
  <2> SUFFICES ASSUME k + 1 <= 40 PROVE Above(k + 1) OBVIOUS
  <2>1. Above(k) /\ k + 1 \in 1 .. 40 /\ (k + 1) - 1 = k BY <1>7
  <2> DEFINE u == c[k + 1]
             v == d[k + 1]
  <2>2. s[k + 1] = s[k] + u /\ t[k + 1] = t[k] + v BY <1>3, <2>1
  <2>3. u \in Int /\ v \in Int /\ u >= v /\ (k + 1 = j => u > v) BY <1>4, <2>1
  <2> HIDE DEF u, v
  <2> QED BY <1>5, <2>1, <2>2, <2>3
<1>8. 40 \in T
  <2> HIDE DEF T
  <2> QED BY <1>6, <1>7, Induction
<1> QED BY <1>1, <1>2, <1>5, <1>8

\* The sum of a record's bytes is short of what an erased checksum reads.
LEMMA SumFits ==
  ASSUME NEW c, IsRecord(c)
  PROVE  /\ calculateChecksum(c) = SumOfBytes(c)
         /\ calculateChecksum(c) \in 0 .. UINT32 - 2
<1> DEFINE x == SumOfBytes(c)
           top == 40 * (BYTE - 1)
<1>1. x \in 0 .. top BY SumBound
<1>2. top \in Int /\ top < UINT32 - 1 /\ UINT32 \in Nat \ {0} BY Sizes, ConfigAssumption
<1> HIDE DEF x, top
<1>3. x \in 0 .. UINT32 - 2 BY <1>1, <1>2
<1>4. x % UINT32 = x BY <1>2, <1>3
<1> QED BY <1>3, <1>4 DEF calculateChecksum, x

-----------------------------------------------------------------------------
(* Records *)

LEMMA WordNames == "magic" \in Words /\ "checksum" \in Words
BY DEF Words, Fields, First, Flags

\* The checksum covers the bytes in front of it and not itself.
LEMMA ChecksumOfSummed ==
  ASSUME NEW c, IsRecord(c)
  PROVE  /\ IsRecord(summed(c)) /\ \A b \in Summed : summed(c)[b] = c[b]
         /\ Number(summed(c), "magic") = Number(c, "magic")
         /\ Number(summed(c), "checksum") = calculateChecksum(summed(c))
<1> DEFINE s == calculateChecksum(c)
           values == [checksum |-> s]
<1>1. s \in 0 .. UINT32 - 1 /\ s \in Int
  <2>1. s \in 0 .. UINT32 - 2 BY SumFits
  <2> HIDE DEF s
  <2> QED BY <2>1, Sizes
<1>2. DOMAIN values = {"checksum"} /\ values["checksum"] = s /\ summed(c) = set(c, values)
  BY DEF summed
<1> HIDE DEF s, values
<1>3. Numbers(values) BY <1>1, <1>2, WordNames DEF Numbers, Words
<1>4. IsRecord(summed(c)) BY <1>2, <1>3, SetIs
<1>5. ASSUME NEW b \in Summed PROVE summed(c)[b] = c[b]
  <2>1. b \in Bytes /\ b \notin Span("checksum") BY Layout DEF Summed, Bytes
  <2>2. FieldAt[b] # "checksum" BY <2>1, FieldIs, WordNames DEF Words
  <2> QED BY <1>2, <1>3, <2>1, <2>2, SetIs
<1>6. "magic" # "checksum" OBVIOUS
<1>7. Number(summed(c), "magic") = Number(c, "magic")
  BY <1>2, <1>3, <1>6, WordNames, SetNumber
<1>8. Number(summed(c), "checksum") = s BY <1>1, <1>2, <1>3, WordNames, SetNumber
<1>9. SumOfBytes(summed(c)) = SumOfBytes(c) BY <1>5, SameBytesSameSum
<1>10. calculateChecksum(summed(c)) = s BY <1>9 DEF calculateChecksum, s
<1> QED BY <1>4, <1>5, <1>7, <1>8, <1>10

LEMMA SavedSound ==
  ASSUME NEW c, IsRecord(c), Number(c, "magic") = CONFIG_MAGIC_NUMBER
  PROVE  Sound(saved(c)) /\ Number(saved(c), "magic") = CONFIG_MAGIC_NUMBER
BY ChecksumOfSummed DEF saved, Sound, ConfigManager_load

LEMMA DefaultNumbers ==
  /\ Numbers(defaultSettings) /\ DOMAIN defaultSettings = Fields \ {"checksum"}
  /\ defaultSettings["magic"] = CONFIG_MAGIC_NUMBER /\ CONFIG_MAGIC_NUMBER \in 0 .. UINT32 - 1
<1>1. /\ CONFIG_MAGIC_NUMBER \in 0 .. UINT32 - 1
      /\ DEFAULT_IRIDIUM_INTERVAL \in Int /\ DEFAULT_MESHTASTIC_INTERVAL \in Int
      /\ DEFAULT_MAVLINK_INTERVAL \in Int /\ LEGACY_TIMED_EVENT_DURATION_SEC \in Int
      /\ DEFAULT_POWER_SAVE_VOLTAGE \in Int /\ CONFIG_MAGIC_NUMBER \in Int
  <2> DEFINE D == {CONFIG_MAGIC_NUMBER, DEFAULT_IRIDIUM_INTERVAL, DEFAULT_MESHTASTIC_INTERVAL,
                   DEFAULT_MAVLINK_INTERVAL, LEGACY_TIMED_EVENT_DURATION_SEC,
                   DEFAULT_POWER_SAVE_VOLTAGE}
  <2>1. D \subseteq 0 .. UINT32 - 1 BY ConfigAssumption
  <2>2. \A x \in D : x \in Int BY <2>1
  <2> QED BY <2>1, <2>2
<1>2. DOMAIN defaultSettings = Fields \ {"checksum"}
  BY Layout DEF defaultSettings
<1>3. \A f \in DOMAIN defaultSettings : defaultSettings[f] \in Int
  BY <1>1 DEF defaultSettings
<1>4. defaultSettings["magic"] = CONFIG_MAGIC_NUMBER BY DEF defaultSettings
<1> QED BY <1>1, <1>2, <1>3, <1>4 DEF Numbers

LEMMA DefaultsSound ==
  ASSUME NEW c, IsRecord(c)
  PROVE  /\ Sound(ConfigManager_setDefaults(c))
         /\ Number(ConfigManager_setDefaults(c), "magic") = CONFIG_MAGIC_NUMBER
<1> DEFINE d == set(c, defaultSettings)
<1>1. IsRecord(d) BY DefaultNumbers, SetIs
<1>2. Number(d, "magic") = CONFIG_MAGIC_NUMBER
  <2>1. "magic" \in DOMAIN defaultSettings BY DefaultNumbers, WordNames DEF Words
  <2> QED BY <2>1, DefaultNumbers, WordNames, SetNumber
<1> HIDE DEF d
<1>3. ConfigManager_setDefaults(c) = summed(d) BY DEF ConfigManager_setDefaults, d
<1> QED BY <1>1, <1>2, <1>3, ChecksumOfSummed DEF Sound, ConfigManager_load

\* The defaults are the same on every record, but for the bytes nobody sets.
LEMMA DefaultsAgree ==
  ASSUME NEW c, NEW d, IsRecord(c), IsRecord(d), NEW b \in Settings
  PROVE  ConfigManager_setDefaults(c)[b] = ConfigManager_setDefaults(d)[b]
<1>1. b \in Summed /\ b \in Bytes /\ FieldAt[b] # "none" BY DEF Settings, Summed, Bytes
<1>2. FieldAt[b] \in Fields /\ b \in Span(FieldAt[b]) BY <1>1, FieldIs
<1>3. FieldAt[b] # "checksum"
  <2>1. b \notin 41 .. 44 BY <1>1 DEF Summed
  <2>2. b \notin Span("checksum") BY <2>1, Layout
  <2> QED BY <1>2, <2>2
<1>4. FieldAt[b] \in DOMAIN defaultSettings BY <1>2, <1>3, DefaultNumbers
<1>5. set(c, defaultSettings)[b] = set(d, defaultSettings)[b] BY <1>2, <1>4, DefaultNumbers, SetIs
<1>6. IsRecord(set(c, defaultSettings)) /\ IsRecord(set(d, defaultSettings))
  BY DefaultNumbers, SetIs
<1> QED BY <1>1, <1>5, <1>6, ChecksumOfSummed DEF ConfigManager_setDefaults

LEMMA LoadedSound ==
  ASSUME NEW e, IsRecord(e)
  PROVE  /\ Sound(loadConfiguration(e))
         /\ Number(loadConfiguration(e), "magic") = CONFIG_MAGIC_NUMBER
BY DefaultsSound DEF loadConfiguration, Sound, ConfigManager_load

LEMMA BlankRefused == IsRecord(Blank) /\ ~ConfigManager_load(Blank)
<1>1. IsRecord(Blank) BY Sizes DEF IsRecord, Blank
<1>2. Number(Blank, "checksum") = UINT32 - 1
  <2> DEFINE m == BYTE - 1
             w == BYTE * BYTE
  <2>1. First["checksum"] = 41 BY DEF First
  <2>2. Blank[41] = m /\ Blank[42] = m /\ Blank[43] = m /\ Blank[44] = m BY DEF Blank, Bytes
  <2>3. Number(Blank, "checksum") = m + BYTE * (m + BYTE * (m + BYTE * m))
    BY <2>1, <2>2 DEF Number
  <2>4. w \in Int /\ BYTE \in Int BY Sizes
  <2>5. m + BYTE * m = w - 1 BY <2>4
  <2> HIDE DEF w
  <2>6. m + BYTE * (w - 1) = BYTE * w - 1 BY <2>4
  <2>7. m + BYTE * (BYTE * w - 1) = BYTE * (BYTE * w) - 1 BY <2>4
  <2>8. BYTE * (BYTE * w) = UINT32 BY <2>4 DEF UINT32, UINT16, w
  <2> QED BY <2>3, <2>5, <2>6, <2>7, <2>8
<1>3. calculateChecksum(Blank) \in 0 .. UINT32 - 2 BY <1>1, SumFits
<1>4. Number(Blank, "checksum") # calculateChecksum(Blank) BY <1>2, <1>3, Sizes
<1> QED BY <1>1, <1>4 DEF ConfigManager_load

\* A command leaves the magic number alone, and makes bytes of what it sets.
LEMMA TypedRecord ==
  ASSUME NEW c, NEW cmd \in Commands, IsRecord(c), Number(c, "magic") = CONFIG_MAGIC_NUMBER
  PROVE  LET n == ConfigManager_processCommand(c, cmd)
         IN  /\ IsRecord(n) /\ Number(n, "magic") = CONFIG_MAGIC_NUMBER
             /\ Saves(cmd) => Sound(n)
<1> DEFINE n == ConfigManager_processCommand(c, cmd)
           Kept(r) == IsRecord(r) /\ Number(r, "magic") = CONFIG_MAGIC_NUMBER
<1>1. ASSUME NEW values, Numbers(values), "magic" \notin DOMAIN values
      PROVE  Kept(set(c, values))
  BY <1>1, SetIs, SetNumber, WordNames
<1>2. CASE cmd.name = "save"
  <2>1. n = saved(c) BY <1>2 DEF ConfigManager_processCommand
  <2> QED BY <2>1, SavedSound DEF Sound
<1>3. CASE cmd.name = "reset"
  <2>1. n = saved(ConfigManager_setDefaults(c)) BY <1>3 DEF ConfigManager_processCommand
  <2> QED BY <2>1, SavedSound, DefaultsSound DEF Sound
<1>4. ASSUME NEW f \in Fields, f # "magic", NEW v \in Int
      PROVE  Kept(set(c, [g \in {f} |-> v]))
  <2> DEFINE values == [g \in {f} |-> v]
  <2>1. DOMAIN values = {f} /\ values[f] = v OBVIOUS
  <2> HIDE DEF values
  <2>2. Numbers(values) /\ "magic" \notin DOMAIN values BY <1>4, <2>1 DEF Numbers
  <2>3. Kept(set(c, values)) BY <1>1, <2>2
  <2> QED BY <2>3 DEF values
<1>5. \A i \in Int : i % UINT32 \in Int /\ i % UINT16 \in Int /\ Milliseconds(i) \in Int
  <2> TAKE i \in Int
  <2>1. i % UINT32 \in Int /\ i % UINT16 \in Int BY Sizes
  <2>2. (i % UINT32) * MS_PER_S \in Int BY <2>1, ConfigAssumption
  <2> QED BY <2>1, <2>2, Sizes DEF Milliseconds
<1>6. \A f \in {"iridiumInterval", "meshtasticInterval", "mavlinkInterval", "powerSaveVoltage"} :
        f \in Fields /\ f # "magic"
  BY DEF Fields, First
<1>7. Kept(c) OBVIOUS
<1> HIDE DEF Kept
<1>8. CASE cmd.name = "set_iridium_interval"
  <2> DEFINE v == Milliseconds(cmd.n)
  <2>1. cmd.n \in Int BY <1>8, PowerLossAssumption
  <2>2. v \in Int BY <1>5, <2>1
  <2>3. n = set(c, [iridiumInterval |-> v]) BY <1>8 DEF ConfigManager_processCommand
  <2>4. [iridiumInterval |-> v] = [g \in {"iridiumInterval"} |-> v] OBVIOUS
  <2> HIDE DEF v, n
  <2>5. Kept(n) BY <1>4, <2>2, <2>3, <2>4, <1>6
  <2> QED BY <1>8, <2>5 DEF Saves, Kept, n
<1>9. CASE cmd.name = "set_meshtastic_interval"
  <2> DEFINE v == Milliseconds(cmd.n)
  <2>1. cmd.n \in Int BY <1>9, PowerLossAssumption
  <2>2. v \in Int BY <1>5, <2>1
  <2>3. n = set(c, [meshtasticInterval |-> v]) BY <1>9 DEF ConfigManager_processCommand
  <2>4. [meshtasticInterval |-> v] = [g \in {"meshtasticInterval"} |-> v] OBVIOUS
  <2> HIDE DEF v, n
  <2>5. Kept(n) BY <1>4, <2>2, <2>3, <2>4, <1>6
  <2> QED BY <1>9, <2>5 DEF Saves, Kept, n
<1>10. CASE cmd.name = "set_mavlink_interval"
  <2> DEFINE v == cmd.n % UINT32
  <2>1. cmd.n \in Int BY <1>10, PowerLossAssumption
  <2>2. v \in Int BY <1>5, <2>1
  <2>3. n = set(c, [mavlinkInterval |-> v]) BY <1>10 DEF ConfigManager_processCommand
  <2>4. [mavlinkInterval |-> v] = [g \in {"mavlinkInterval"} |-> v] OBVIOUS
  <2> HIDE DEF v, n
  <2>5. Kept(n) BY <1>4, <2>2, <2>3, <2>4, <1>6
  <2> QED BY <1>10, <2>5 DEF Saves, Kept, n
<1>11. CASE cmd.name = "set_power_save_voltage"
  <2> DEFINE v == cmd.n
  <2>1. v \in Int BY <1>11, PowerLossAssumption
  <2>2. n = set(c, [powerSaveVoltage |-> v]) BY <1>11 DEF ConfigManager_processCommand
  <2>3. [powerSaveVoltage |-> v] = [g \in {"powerSaveVoltage"} |-> v] OBVIOUS
  <2> HIDE DEF v, n
  <2>4. Kept(n) BY <1>4, <2>1, <2>2, <2>3, <1>6
  <2> QED BY <1>11, <2>4 DEF Saves, Kept, n
<1>12. CASE cmd.name \in {"enable", "disable"}
  <2>1. \A x \in DOMAIN Feature : Feature[x] \in Fields /\ Feature[x] # "magic"
    BY Layout DEF Feature
  <2>2. PICK v \in {0, 1} : n = ConfigManager_enableFeature(c, cmd.feature, v)
    BY <1>12 DEF ConfigManager_processCommand
  <2>3. n = c \/ \E f \in Fields : f # "magic" /\ n = set(c, [g \in {f} |-> v])
    BY <2>1, <2>2 DEF ConfigManager_enableFeature
  <2> HIDE DEF n
  <2>4. CASE \E f \in Fields : f # "magic" /\ n = set(c, [g \in {f} |-> v])
    <3>1. PICK f \in Fields : f # "magic" /\ n = set(c, [g \in {f} |-> v]) BY <2>4
    <3>2. v \in Int OBVIOUS
    <3>3. Kept(set(c, [g \in {f} |-> v])) BY <1>4, <3>1, <3>2
    <3>4. Kept(n) BY <3>1, <3>3
    <3> QED BY <1>12, <3>4 DEF Saves, Kept, n
  <2>5. CASE n = c BY <1>7, <1>12, <2>5 DEF Saves, Kept, n
  <2> QED BY <2>3, <2>4, <2>5
<1>13. CASE cmd.name = "set_timed_event"
  <2> DEFINE b == IF cmd.gmt THEN 1 ELSE 0
             t == cmd.n % UINT32
             d == cmd.duration % UINT16
             values == [timedEnabled |-> 1, timedAbsolute |-> b, triggerTime |-> t,
                        durationSeconds |-> d]
  <2>1. b \in Int /\ t \in Int /\ d \in Int BY <1>5, <1>13, PowerLossAssumption
  <2>2. n = set(c, values) BY <1>13 DEF ConfigManager_processCommand, ConfigManager_setTimedEvent
  <2> HIDE DEF b, t, d
  <2>3. /\ DOMAIN values = {"timedEnabled", "timedAbsolute", "triggerTime", "durationSeconds"}
        /\ \A f \in DOMAIN values : values[f] \in Int
    BY <2>1
  <2> HIDE DEF values
  <2>4. Numbers(values) /\ "magic" \notin DOMAIN values BY <2>3, Layout DEF Numbers
  <2> HIDE DEF n
  <2>5. Kept(n) BY <1>1, <2>2, <2>4
  <2> QED BY <1>13, <2>5 DEF Saves, Kept, n
<1>14. CASE ~(cmd.name \in {"set_iridium_interval", "set_meshtastic_interval",
                            "set_mavlink_interval", "set_power_save_voltage", "enable",
                            "disable", "set_timed_event", "save", "reset"})
  <2>1. n = c BY <1>14 DEF ConfigManager_processCommand
  <2> QED BY <1>14, <2>1, <1>7 DEF Saves, Kept
<1> QED
  BY <1>2, <1>3, <1>8, <1>9, <1>10, <1>11, <1>12, <1>13, <1>14

-----------------------------------------------------------------------------
(* The saved settings *)

\* The bytes a save has passed are the new record's, those ahead of it are
\* still the old one's; what is being written will load.
SaveInv ==
    /\ IsRecord(sysConfig) /\ Number(sysConfig, "magic") = CONFIG_MAGIC_NUMBER
    /\ IsRecord(eeprom) /\ writing \in 0 .. 44
    /\ writing # 0 => Sound(sysConfig)
    /\ \A b \in Bytes : b < writing => eeprom[b] = sysConfig[b]
    /\ kept.whole => /\ Sound(kept.record)
                     /\ \A b \in Bytes : b >= writing => eeprom[b] = kept.record[b]

LEMMA InitSave == PowerInit => SaveInv
<1> SUFFICES ASSUME PowerInit PROVE SaveInv OBVIOUS
<1>1. eeprom = Blank /\ sysConfig = loadConfiguration(eeprom) /\ writing = 0 /\ ~kept.whole
  BY DEF PowerInit, nothing
<1> QED BY <1>1, BlankRefused, LoadedSound DEF SaveInv, Sound, Bytes

LEMMA TypeSave == ASSUME SaveInv, NEW cmd \in Commands, Type(cmd) PROVE SaveInv'
<1>1. /\ writing = 0 /\ sysConfig' = ConfigManager_processCommand(sysConfig, cmd)
      /\ writing' = (IF Saves(cmd) THEN 1 ELSE 0) /\ eeprom' = eeprom /\ kept' = kept
  BY DEF Type
<1>2. /\ IsRecord(sysConfig') /\ Number(sysConfig', "magic") = CONFIG_MAGIC_NUMBER
      /\ writing' # 0 => Sound(sysConfig')
  BY <1>1, TypedRecord DEF SaveInv
<1>3. \A b \in Bytes : ~(b < writing') /\ b >= writing BY <1>1 DEF Bytes
<1> QED BY <1>1, <1>2, <1>3 DEF SaveInv

LEMMA PutSave == ASSUME SaveInv, Put PROVE SaveInv'
<1>1. PICK b \in writing .. 44 :
        /\ \A passed \in writing .. b - 1 : eeprom[passed] = sysConfig[passed]
        /\ eeprom' = [eeprom EXCEPT ![b] = sysConfig[b]]
        /\ writing' = IF b = 44 THEN 0 ELSE b + 1
  BY DEF Put
<1>2. /\ sysConfig' = sysConfig /\ writing \in 1 .. 44
      /\ kept' = IF writing' = 0 THEN [record |-> sysConfig, whole |-> TRUE] ELSE kept
  BY DEF Put, SaveInv
<1>3. b \in Bytes /\ b \in 1 .. 44 BY <1>2 DEF Bytes
<1>4. \A x \in Bytes : eeprom'[x] = IF x = b THEN sysConfig[b] ELSE eeprom[x]
  BY <1>1, <1>3 DEF SaveInv, IsRecord
<1>5. IsRecord(eeprom')
  <2>1. sysConfig[b] \in 0 .. BYTE - 1 BY <1>3 DEF SaveInv, IsRecord
  <2> QED BY <1>1, <2>1 DEF SaveInv, IsRecord
<1>6. ASSUME NEW x \in Bytes, x <= b PROVE eeprom'[x] = sysConfig[x]
  <2>1. x \in 1 .. 44 BY DEF Bytes
  <2>2. x < writing \/ x \in writing .. b - 1 \/ x = b BY <1>2, <1>3, <1>6, <2>1
  <2> QED BY <1>1, <1>4, <2>2 DEF SaveInv
<1>7. CASE b = 44
  <2>1. writing' = 0 /\ kept' = [record |-> sysConfig, whole |-> TRUE] BY <1>1, <1>2, <1>7
  <2>2. kept'.whole /\ kept'.record = sysConfig BY <2>1
  <2>3. \A x \in Bytes : x <= b /\ ~(x < 0) BY <1>7 DEF Bytes
  <2>4. \A x \in Bytes : eeprom'[x] = sysConfig[x] BY <1>6, <2>3
  <2>5. Sound(sysConfig) BY <1>2 DEF SaveInv
  <2> QED BY <1>2, <1>5, <2>1, <2>2, <2>3, <2>4, <2>5 DEF SaveInv
<1>8. CASE b # 44
  <2>1. writing' = b + 1 /\ kept' = kept BY <1>1, <1>2, <1>3, <1>8
  <2>2. \A x \in Bytes : x < b + 1 => x <= b BY <1>3 DEF Bytes
  <2>3. \A x \in Bytes : x >= b + 1 => x >= writing /\ x # b BY <1>2, <1>3 DEF Bytes
  <2>4. writing' \in 0 .. 44 BY <1>3, <1>8, <2>1
  <2> QED BY <1>2, <1>4, <1>5, <1>6, <2>1, <2>2, <2>3, <2>4 DEF SaveInv
<1> QED BY <1>7, <1>8

LEMMA RestartSave == ASSUME SaveInv, NEW erased \in BOOLEAN, Restart(erased) PROVE SaveInv'
<1>1. /\ writing' = 0 /\ eeprom' = IF erased THEN Blank ELSE eeprom
      /\ sysConfig' = loadConfiguration(eeprom')
      /\ kept' = IF kept.whole /\ eeprom' = kept.record THEN kept ELSE nothing
  BY DEF Restart
<1>2. IsRecord(eeprom') BY <1>1, BlankRefused DEF SaveInv
<1>3. IsRecord(sysConfig') /\ Number(sysConfig', "magic") = CONFIG_MAGIC_NUMBER
  BY <1>1, <1>2, LoadedSound DEF Sound
<1>4. kept'.whole => Sound(kept'.record) /\ eeprom' = kept'.record
  BY <1>1 DEF SaveInv, nothing
<1>5. \A b \in Bytes : ~(b < 0) BY DEF Bytes
<1> QED BY <1>1, <1>2, <1>3, <1>4, <1>5 DEF SaveInv

LEMMA NextSave == SaveInv /\ [PowerNext]_allVars => SaveInv'
<1> SUFFICES ASSUME SaveInv, [PowerNext]_allVars PROVE SaveInv' OBVIOUS
<1>1. CASE UNCHANGED store BY <1>1 DEF SaveInv, store
<1>2. CASE Drive BY <1>1, <1>2 DEF Drive
<1>3. CASE UNCHANGED allVars BY <1>1, <1>3 DEF allVars
<1> QED BY <1>2, <1>3, TypeSave, PutSave, RestartSave DEF PowerNext

\* SaveInv is inductive: what a save has not reached is still the old record,
\* and a record written whole is one that the next boot takes.
THEOREM SaveInvariant == PowerSpec => []SaveInv
<1> QED BY InitSave, NextSave, PTL DEF PowerSpec

\* What was saved is what every later boot finds, until the next save begins
\* (ConfigManager_save, ConfigManager_load).
THEOREM SettingsSurvive == PowerSpec => SavedSurvives
<1>1. ASSUME SaveInv, AnyRestart, kept.whole, writing = 0
      PROVE  sysConfig' = kept.record
  <2>1. eeprom' = eeprom /\ sysConfig' = loadConfiguration(eeprom')
    BY <1>1 DEF AnyRestart, Restart
  <2>2. eeprom = kept.record /\ Sound(kept.record)
    <3>1. \A b \in Bytes : b >= 0 BY DEF Bytes
    <3>2. \A b \in Bytes : eeprom[b] = kept.record[b] BY <1>1, <3>1 DEF SaveInv
    <3> QED BY <1>1, <3>2 DEF SaveInv, Sound, IsRecord
  <2> QED BY <2>1, <2>2 DEF loadConfiguration, Sound
<1>2. SaveInv /\ [PowerNext]_allVars =>
        [AnyRestart /\ kept.whole /\ writing = 0 => sysConfig' = kept.record]_allVars
  BY <1>1
<1> QED BY <1>2, SaveInvariant, PTL DEF PowerSpec, SavedSurvives

-----------------------------------------------------------------------------
(* A save cut short *)

\* An image of which some bytes are of one sound record and the others, the
\* checksum among them, of another does not load when their changes cannot
\* cancel.
LEMMA MixtureShows ==
  ASSUME NEW e, NEW old, IsRecord(e), Sound(old), ConfigManager_load(e),
         Number(e, "checksum") = Number(old, "checksum"), NEW j \in Summed, e[j] # old[j],
         \/ \A b \in Summed : e[b] >= old[b]
         \/ \A b \in Summed : e[b] <= old[b]
  PROVE  FALSE
<1> DEFINE x == SumOfBytes(e)
           y == SumOfBytes(old)
<1>1. IsRecord(old) /\ calculateChecksum(e) = calculateChecksum(old)
  BY DEF Sound, ConfigManager_load
<1>2. x = y BY <1>1, SumFits
<1>3. x \in Int /\ y \in Int BY <1>1, SumBound, Sizes
<1>4. \A b \in Summed : e[b] \in Int /\ old[b] \in Int
  BY <1>1, Sizes DEF IsRecord, Summed, Bytes
<1>5. CASE \A b \in Summed : e[b] >= old[b]
  <2>1. e[j] > old[j] BY <1>4, <1>5
  <2>2. x > y BY <1>1, <1>5, <2>1, SumsRise
  <2> HIDE DEF x, y
  <2> QED BY <1>2, <1>3, <2>2
<1>6. CASE \A b \in Summed : e[b] <= old[b]
  <2>1. old[j] > e[j] /\ \A b \in Summed : old[b] >= e[b] BY <1>4, <1>6
  <2>2. y > x BY <1>1, <2>1, SumsRise
  <2> HIDE DEF x, y
  <2> QED BY <1>2, <1>3, <2>2
<1> QED BY <1>5, <1>6

\* A reset in the middle of a save boots with the old settings, the new ones or
\* the defaults, of a change whose bytes cannot cancel (ConfigManager_load).
THEOREM TornSavesShow == PowerSpec => TornSaveDetected
<1> DEFINE Whole == \E c \in {sysConfig, kept.record, Defaults} :
                       \A b \in Settings : sysConfig'[b] = c[b]
<1>1. ASSUME SaveInv, AnyRestart, kept.whole, writing # 0, OneWay PROVE Whole
  <2> DEFINE e == eeprom
             old == kept.record
             new == sysConfig
  <2>1. PICK erased \in BOOLEAN : Restart(erased) BY <1>1 DEF AnyRestart
  <2>2. eeprom' = (IF erased THEN Blank ELSE e) /\ sysConfig' = loadConfiguration(eeprom')
    BY <2>1 DEF Restart
  <2>3. IsRecord(e) /\ IsRecord(Blank) /\ IsRecord(new) /\ IsRecord(old)
    BY <1>1, BlankRefused DEF SaveInv, Sound
  <2>4. CASE ~ConfigManager_load(eeprom')
    <3>1. sysConfig' = ConfigManager_setDefaults(eeprom') /\ IsRecord(eeprom')
      BY <2>2, <2>3, <2>4 DEF loadConfiguration
    <3>2. \A b \in Settings : sysConfig'[b] = Defaults[b]
      BY <2>3, <3>1, DefaultsAgree DEF Defaults
    <3> QED BY <3>2
  <2>5. CASE ConfigManager_load(eeprom')
    <3>1. ConfigManager_load(e) /\ sysConfig' = e
      BY <2>2, <2>5, BlankRefused DEF loadConfiguration
    <3>2. /\ \A b \in Bytes : b < writing => e[b] = new[b]
          /\ \A b \in Bytes : b >= writing => e[b] = old[b]
          /\ writing \in 1 .. 44 /\ Sound(old)
      BY <1>1 DEF SaveInv
    <3>3. Summed \subseteq Bytes /\ Settings \subseteq Summed /\ \A b \in Bytes : b \in Int
      BY DEF Summed, Bytes, Settings
    <3>4. CASE \A b \in Changed : b < writing
      <4>1. \A b \in Summed : e[b] = new[b] BY <3>2, <3>3, <3>4 DEF Changed
      <4> QED BY <3>1, <3>3, <4>1
    <3>5. CASE \A b \in Changed : b >= writing
      <4>1. \A b \in Summed : e[b] = old[b] BY <3>2, <3>3, <3>5 DEF Changed
      <4> QED BY <3>1, <3>3, <4>1
    <3>6. CASE (\E l \in Changed : ~(l < writing)) /\ \E j \in Changed : ~(j >= writing)
      <4>1. PICK l \in Changed : l >= writing BY <3>2, <3>3, <3>6 DEF Changed
      <4>2. PICK j \in Changed : j < writing BY <3>2, <3>3, <3>6 DEF Changed
      <4>3. j \in Summed /\ e[j] # old[j] BY <3>2, <3>3, <4>2 DEF Changed
      <4>4. \A b \in Summed : e[b] = old[b] \/ (b \in Early /\ e[b] = new[b])
        <5> TAKE b \in Summed
        <5>1. CASE b >= writing BY <3>2, <3>3, <5>1
        <5>2. CASE b < writing
          <6>1. e[b] = new[b] BY <3>2, <3>3, <5>2
          <6>2. l \in Int /\ b < l BY <3>2, <3>3, <4>1, <5>2 DEF Changed
          <6> QED BY <4>1, <6>1, <6>2 DEF Changed, Early
        <5> QED BY <3>2, <3>3, <5>1, <5>2
      <4>5. \A b \in Summed : old[b] \in Int /\ e[b] \in Int
        BY <2>3, <3>3, Sizes DEF IsRecord
      <4>6. (\A b \in Summed : e[b] >= old[b]) \/ (\A b \in Summed : e[b] <= old[b])
        BY <1>1, <4>4, <4>5 DEF OneWay
      <4>7. Number(e, "checksum") = Number(old, "checksum")
        <5>1. First["checksum"] = 41 BY DEF First
        <5>2. \A b \in 41 .. 44 : b \in Bytes /\ b >= writing
          BY <3>2, <4>1 DEF Changed, Summed, Bytes
        <5>3. e[41] = old[41] /\ e[42] = old[42] /\ e[43] = old[43] /\ e[44] = old[44]
          BY <3>2, <5>2
        <5> HIDE DEF e, old
        <5> QED BY <5>1, <5>3 DEF Number
      <4> HIDE DEF e, old
      <4> QED BY <2>3, <3>1, <3>2, <4>3, <4>6, <4>7, MixtureShows
    <3> QED BY <3>4, <3>5, <3>6
  <2> QED BY <2>4, <2>5
<1>2. SaveInv /\ [PowerNext]_allVars =>
        [kept.whole /\ writing # 0 /\ OneWay /\ AnyRestart => Whole]_allVars
  BY <1>1
<1> QED BY <1>2, SaveInvariant, PTL DEF PowerSpec, TornSaveDetected
=============================================================================
