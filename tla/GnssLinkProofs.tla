---------------------------- MODULE GnssLinkProofs ----------------------------
(***************************************************************************)
(* Proofs about GnssLink: what initI2CAndGPS leaves the receiver with, and *)
(* that the watchdog brings the parser back in step with it.               *)
(*                                                                         *)
(* Enabling a constellation makes the receiver restart at some later       *)
(* moment, between any two commands or behind them all, and what its       *)
(* battery-backed copy lacks is gone then.  The invariant ties the         *)
(* commands still ahead, todo, to what RAM and the copy already hold, and  *)
(* to whether such a restart is pending.                                   *)
(***************************************************************************)
EXTENDS GnssLink, SequenceTheorems, WellFoundedInduction, TLAPS

\* Everything that a receiver without GLONASS is sent; one that has it, and a
\* light re-initialisation, are sent a tail of this.
Script == firstBoot \o aopConfig \o lastCommands

\* The commands from the k-th on.
From(k) == todo = SubSeq(Script, k, 10)

\* Nothing but "begin" and the question were sent since the power-up.
Opening ==
    /\ \/ todo = initI2CAndGPS(TRUE)
       \/ todo = initI2CAndGPS(FALSE) /\ pc = "reinit"
       \/ todo = Tail(initI2CAndGPS(TRUE))
    /\ ~receiver.restarting
    /\ pc = "boot" => receiver.ram = receiver.bbr

\* Before the k-th command, every one so far answered.
Underway(k) ==
    /\ k <= 3 => ~receiver.restarting
    /\ k = 5 => (receiver.restarting => "pvt" \in receiver.ram)
    /\ k >= 6 => (receiver.restarting => "pvt" \in receiver.ram /\ "pvt" \in receiver.bbr)
    /\ k = 11 => "pvt" \in receiver.ram
    /\ pc = "boot" /\ k >= 4 => "glonass" \in receiver.ram
    /\ pc = "boot" /\ k >= 6 => "glonass" \in receiver.bbr
    /\ seen.stored => k >= 6

Initialising == pc \in {"boot", "reinit", "retry"}

LinkType ==
    /\ pc \in {"boot", "run", "off", "reinit", "retry"}
    /\ receiver \in Receivers
    /\ DOMAIN seen = DOMAIN Unseen /\ seen.lost \in BOOLEAN /\ seen.stored \in BOOLEAN

LinkInv ==
    /\ LinkType
    /\ Initialising => Opening \/ \E k \in 1 .. 11 : From(k) /\ (~seen.lost => Underway(k))
    /\ pc = "run" /\ ~seen.lost =>
         /\ "pvt" \in receiver.ram
         /\ receiver.restarting => "pvt" \in receiver.bbr
    /\ pc = "off" => ~receiver.restarting
    /\ seen.stored => /\ receiver.cell /\ "glonass" \in receiver.bbr
                      /\ pc # "off" => "glonass" \in receiver.ram
                      /\ ~seen.lost => ~receiver.restarting

-----------------------------------------------------------------------------
(* The sequences of commands *)

Commands == [op : {"begin", "ask_glonass", "set", "ensure", "save", "save_changed"},
             item : Items \cup {""}]

LEMMA Concat ==
  ASSUME NEW s \in Seq(Commands), NEW t \in Seq(Commands)
  PROVE  /\ s \o t \in Seq(Commands) /\ Len(s \o t) = Len(s) + Len(t)
         /\ \A i \in 1 .. Len(s) + Len(t) :
              (s \o t)[i] = IF i <= Len(s) THEN s[i] ELSE t[i - Len(s)]
BY ConcatProperties

LEMMA Joined ==
  ASSUME NEW s \in Seq(Commands), NEW t \in Seq(Commands), NEW u \in Seq(Commands),
         Len(u) = Len(s) + Len(t),
         \A i \in 1 .. Len(s) : u[i] = s[i],
         \A i \in 1 .. Len(t) : u[Len(s) + i] = t[i]
  PROVE  s \o t = u
<1>1. ASSUME NEW i \in 1 .. Len(s \o t) PROVE (s \o t)[i] = u[i]
  <2>1. CASE i <= Len(s) BY Concat, <2>1
  <2>2. CASE ~(i <= Len(s))
    <3>1. i - Len(s) \in 1 .. Len(t) /\ Len(s) + (i - Len(s)) = i BY Concat, <2>2
    <3> QED BY Concat, <2>2, <3>1
  <2> QED BY <2>1, <2>2
<1> QED BY Concat, <1>1, SeqEqual

\* Three sequences in a row, their elements and where the later ones begin.
InARow(s, t, u) ==
    LET all == (s \o t) \o u
        n == Len(s) + Len(t) + Len(u)
    IN  /\ all \in Seq(Commands) /\ Len(all) = n
        /\ \A i \in 1 .. Len(s) : all[i] = s[i]
        /\ \A i \in 1 .. Len(t) : all[Len(s) + i] = t[i]
        /\ \A i \in 1 .. Len(u) : all[Len(s) + Len(t) + i] = u[i]
        /\ SubSeq(all, 1, n) = all
        /\ SubSeq(all, Len(s) + 1, n) = t \o u
        /\ SubSeq(all, Len(s) + Len(t) + 1, n) = u

LEMMA TailsOfJoined ==
  ASSUME NEW s \in Seq(Commands), NEW t \in Seq(Commands), NEW u \in Seq(Commands)
  PROVE  InARow(s, t, u)
<1> DEFINE st == s \o t
           all == st \o u
           tu == t \o u
           n == Len(s) + Len(t) + Len(u)
<1>1. /\ st \in Seq(Commands) /\ Len(st) = Len(s) + Len(t)
      /\ \A i \in 1 .. Len(s) + Len(t) : st[i] = IF i <= Len(s) THEN s[i] ELSE t[i - Len(s)]
  BY Concat
<1>2. /\ tu \in Seq(Commands) /\ Len(tu) = Len(t) + Len(u)
      /\ \A i \in 1 .. Len(t) + Len(u) : tu[i] = IF i <= Len(t) THEN t[i] ELSE u[i - Len(t)]
  BY Concat
<1> HIDE DEF st
<1>3. /\ all \in Seq(Commands) /\ Len(all) = Len(st) + Len(u)
      /\ \A i \in 1 .. Len(st) + Len(u) : all[i] = IF i <= Len(st) THEN st[i] ELSE u[i - Len(st)]
  BY <1>1, Concat, Zenon
<1> HIDE DEF all, tu
<1>0. Len(s) \in Nat /\ Len(t) \in Nat /\ Len(u) \in Nat OBVIOUS
<1>4. Len(all) = n BY <1>0, <1>1, <1>3
<1>5. \A i \in 1 .. Len(s) : all[i] = s[i] BY <1>0, <1>1, <1>3
<1>6. \A i \in 1 .. Len(t) : all[Len(s) + i] = t[i]
  <2> TAKE i \in 1 .. Len(t)
  <2>1. Len(s) + i \in 1 .. Len(st) /\ ~(Len(s) + i <= Len(s)) /\ (Len(s) + i) - Len(s) = i
    BY <1>0, <1>1
  <2> QED BY <1>0, <1>1, <1>3, <2>1
<1>7. \A i \in 1 .. Len(u) : all[Len(s) + Len(t) + i] = u[i]
  <2> TAKE i \in 1 .. Len(u)
  <2>1. /\ Len(s) + Len(t) + i \in 1 .. Len(st) + Len(u) /\ ~(Len(s) + Len(t) + i <= Len(st))
        /\ (Len(s) + Len(t) + i) - Len(st) = i
    BY <1>0, <1>1
  <2> QED BY <1>0, <1>3, <2>1
<1>8. SubSeq(all, 1, n) = all BY <1>3, <1>4, SubSeqFull
<1>9. SubSeq(all, Len(s) + 1, n) = tu
  <2> DEFINE e == SubSeq(all, Len(s) + 1, n)
  <2>1. /\ e \in Seq(Commands) /\ Len(e) = Len(t) + Len(u)
        /\ \A i \in 1 .. Len(e) : e[i] = all[Len(s) + i]
    BY <1>0, <1>3, <1>4, SubSeqProperties
  <2> HIDE DEF e
  <2>2. ASSUME NEW i \in 1 .. Len(e) PROVE e[i] = tu[i]
    <3>1. CASE i <= Len(t)
      <4>1. i \in 1 .. Len(t) /\ i \in 1 .. Len(t) + Len(u) BY <1>0, <2>1, <3>1
      <4>2. tu[i] = t[i] BY <1>2, <3>1, <4>1
      <4> QED BY <1>6, <2>1, <4>1, <4>2
    <3>2. CASE ~(i <= Len(t))
      <4>1. i - Len(t) \in 1 .. Len(u) /\ Len(s) + Len(t) + (i - Len(t)) = Len(s) + i
        BY <1>0, <2>1, <3>2
      <4>2. all[Len(s) + i] = u[i - Len(t)] BY <1>7, <4>1
      <4> QED BY <1>0, <1>2, <2>1, <3>2, <4>2
    <3> QED BY <3>1, <3>2
  <2>3. e = tu BY <1>2, <2>1, <2>2, SeqEqual
  <2> QED BY <2>3 DEF e
<1>10. SubSeq(all, Len(s) + Len(t) + 1, n) = u
  <2> DEFINE e == SubSeq(all, Len(s) + Len(t) + 1, n)
  <2>1. /\ e \in Seq(Commands) /\ Len(e) = Len(u)
        /\ \A i \in 1 .. Len(e) : e[i] = all[Len(s) + Len(t) + i]
    BY <1>0, <1>3, <1>4, SubSeqProperties
  <2> HIDE DEF e
  <2>3. e = u BY <1>7, <2>1, SeqEqual
  <2> QED BY <2>3 DEF e
<1> QED BY <1>3, <1>4, <1>5, <1>6, <1>7, <1>8, <1>9, <1>10 DEF all, st, tu, InARow

LEMMA CommandTypes ==
  /\ \A item \in Items : Set(item) \in Commands /\ Ensure(item) \in Commands
  /\ \A op \in {"begin", "ask_glonass", "save", "save_changed"} : Do(op) \in Commands
BY DEF Commands, Set, Ensure, Do

LEMMA PartsAre ==
  /\ firstBoot \in Seq(Commands) /\ Len(firstBoot) = 5
  /\ firstBoot[1] = Set("ubx") /\ firstBoot[2] = Set("rate") /\ firstBoot[3] = Set("glonass")
  /\ firstBoot[4] = Set("pvt") /\ firstBoot[5] = Do("save")
  /\ aopConfig \in Seq(Commands) /\ Len(aopConfig) = 3
  /\ aopConfig[1] = Ensure("aop") /\ aopConfig[2] = Ensure("rate")
  /\ aopConfig[3] = Do("save_changed")
  /\ lastCommands \in Seq(Commands) /\ Len(lastCommands) = 2
  /\ lastCommands[1] = Set("ubx") /\ lastCommands[2] = Set("pvt")
<1> DEFINE u == Set("ubx")
           r == Set("rate")
           g == Set("glonass")
           p == Set("pvt")
           s == Do("save")
           ea == Ensure("aop")
           er == Ensure("rate")
           sc == Do("save_changed")
<1>0. "ubx" \in Items /\ "rate" \in Items /\ "glonass" \in Items /\ "pvt" \in Items
      /\ "aop" \in Items
  BY DEF Items
<1>1. /\ u \in Commands /\ r \in Commands /\ g \in Commands /\ p \in Commands
      /\ s \in Commands /\ ea \in Commands /\ er \in Commands /\ sc \in Commands
  BY <1>0, CommandTypes, Zenon
<1>2. firstBoot = <<u, r, g, p, s>> BY DEF firstBoot
<1>3. aopConfig = <<ea, er, sc>> BY DEF aopConfig
<1>4. lastCommands = <<u, p>> BY DEF lastCommands
<1> HIDE DEF u, r, g, p, s, ea, er, sc
<1>5. /\ firstBoot \in Seq(Commands) /\ Len(firstBoot) = 5
      /\ firstBoot[1] = u /\ firstBoot[2] = r /\ firstBoot[3] = g
      /\ firstBoot[4] = p /\ firstBoot[5] = s
  BY <1>1, <1>2
<1>6. /\ aopConfig \in Seq(Commands) /\ Len(aopConfig) = 3
      /\ aopConfig[1] = ea /\ aopConfig[2] = er /\ aopConfig[3] = sc
  BY <1>1, <1>3
<1>7. /\ lastCommands \in Seq(Commands) /\ Len(lastCommands) = 2
      /\ lastCommands[1] = u /\ lastCommands[2] = p
  BY <1>1, <1>4
<1> QED BY <1>5, <1>6, <1>7 DEF u, r, g, p, s, ea, er, sc

LEMMA ScriptIs ==
  /\ Script \in Seq(Commands) /\ Len(Script) = 10
  /\ Script[1] = Set("ubx") /\ Script[2] = Set("rate") /\ Script[3] = Set("glonass")
  /\ Script[4] = Set("pvt") /\ Script[5] = Do("save")
  /\ Script[6] = Ensure("aop") /\ Script[7] = Ensure("rate") /\ Script[8] = Do("save_changed")
  /\ Script[9] = Set("ubx") /\ Script[10] = Set("pvt")
  /\ SubSeq(Script, 1, 10) = Script
  /\ SubSeq(Script, 6, 10) = aopConfig \o lastCommands
  /\ SubSeq(Script, 9, 10) = lastCommands
<1> DEFINE n == Len(firstBoot) + Len(aopConfig) + Len(lastCommands)
<1>1. /\ Script \in Seq(Commands) /\ Len(Script) = n
      /\ \A i \in 1 .. Len(firstBoot) : Script[i] = firstBoot[i]
      /\ \A i \in 1 .. Len(aopConfig) : Script[Len(firstBoot) + i] = aopConfig[i]
      /\ \A i \in 1 .. Len(lastCommands) :
           Script[Len(firstBoot) + Len(aopConfig) + i] = lastCommands[i]
      /\ SubSeq(Script, 1, n) = Script
      /\ SubSeq(Script, Len(firstBoot) + 1, n) = aopConfig \o lastCommands
      /\ SubSeq(Script, Len(firstBoot) + Len(aopConfig) + 1, n) = lastCommands
  <2>1. /\ firstBoot \in Seq(Commands) /\ aopConfig \in Seq(Commands)
        /\ lastCommands \in Seq(Commands)
    BY PartsAre
  <2>2. InARow(firstBoot, aopConfig, lastCommands) BY <2>1, TailsOfJoined, Zenon
  <2> QED BY <2>2, Zenon DEF Script, InARow
<1>2. n = 10 /\ Len(firstBoot) = 5 /\ Len(aopConfig) = 3 /\ Len(lastCommands) = 2 BY PartsAre
<1>3. \A i \in 1 .. 5 : Script[i] = firstBoot[i] BY <1>1, <1>2
<1>4. \A i \in 1 .. 3 : Script[5 + i] = aopConfig[i] BY <1>1, <1>2
<1>5. \A i \in 1 .. 2 : Script[8 + i] = lastCommands[i] BY <1>1, <1>2
<1>6. /\ Script[6] = aopConfig[1] /\ Script[7] = aopConfig[2] /\ Script[8] = aopConfig[3]
      /\ Script[9] = lastCommands[1] /\ Script[10] = lastCommands[2]
  BY <1>4, <1>5
<1> HIDE DEF n
<1>7. /\ SubSeq(Script, 1, 10) = Script /\ SubSeq(Script, 6, 10) = aopConfig \o lastCommands
      /\ SubSeq(Script, 9, 10) = lastCommands
  <2>1. Len(firstBoot) + 1 = 6 /\ Len(firstBoot) + Len(aopConfig) + 1 = 9 BY <1>2
  <2> QED BY <1>1, <1>2, <2>1, Zenon
<1>8. Script \in Seq(Commands) /\ Len(Script) = 10 BY <1>1, <1>2, Zenon
<1>9. /\ Script[1] = firstBoot[1] /\ Script[2] = firstBoot[2] /\ Script[3] = firstBoot[3]
      /\ Script[4] = firstBoot[4] /\ Script[5] = firstBoot[5]
  BY <1>3
<1> QED BY <1>6, <1>7, <1>8, <1>9, PartsAre, Zenon

LEMMA DoIs == \A op : Do(op).op = op
BY DEF Do

LEMMA OpeningIs ==
  LET full == initI2CAndGPS(TRUE)
      light == initI2CAndGPS(FALSE)
  IN  /\ full # <<>> /\ Head(full) = Do("begin")
      /\ Tail(full) # <<>> /\ Head(Tail(full)) = Do("ask_glonass")
      /\ Tail(Tail(full)) = lastCommands
      /\ light # <<>> /\ Head(light) = Do("begin") /\ Tail(light) = lastCommands
<1> DEFINE b == Do("begin")
           a == Do("ask_glonass")
<1>1. b \in Commands /\ a \in Commands BY CommandTypes, Zenon
<1>2. initI2CAndGPS(TRUE) = <<b, a>> \o lastCommands BY DEF initI2CAndGPS
<1>3. initI2CAndGPS(FALSE) = <<b>> \o lastCommands BY DEF initI2CAndGPS
<1> HIDE DEF a, b
<1>4. PICK u \in Commands, p \in Commands : lastCommands = <<u, p>>
  <2>1. "ubx" \in Items /\ "pvt" \in Items BY DEF Items
  <2> QED BY <2>1, CommandTypes, Zenon DEF lastCommands
<1>5. <<b, a>> \o <<u, p>> = <<b, a, u, p>> /\ <<b>> \o <<u, p>> = <<b, u, p>>
  <2> DEFINE ba == <<b, a>>
             b1 == <<b>>
             up == <<u, p>>
             v == <<b, a, u, p>>
             w == <<b, u, p>>
  <2>1. /\ ba \in Seq(Commands) /\ b1 \in Seq(Commands) /\ up \in Seq(Commands)
        /\ v \in Seq(Commands) /\ w \in Seq(Commands)
    BY <1>1
  <2>2. Len(v) = Len(ba) + Len(up) /\ Len(w) = Len(b1) + Len(up) OBVIOUS
  <2>3. \A i \in 1 .. Len(ba) : v[i] = ba[i] OBVIOUS
  <2>4. \A i \in 1 .. Len(up) : v[Len(ba) + i] = up[i] OBVIOUS
  <2>5. \A i \in 1 .. Len(b1) : w[i] = b1[i] OBVIOUS
  <2>6. \A i \in 1 .. Len(up) : w[Len(b1) + i] = up[i] OBVIOUS
  <2> HIDE DEF ba, b1, up, v, w
  <2>7. ba \o up = v BY <2>1, <2>2, <2>3, <2>4, Joined, Zenon
  <2>8. b1 \o up = w BY <2>1, <2>2, <2>5, <2>6, Joined, Zenon
  <2> QED BY <2>7, <2>8 DEF ba, b1, up, v, w
<1>7. /\ Tail(<<b, a, u, p>>) = <<a, u, p>> /\ Tail(<<a, u, p>>) = <<u, p>>
      /\ Tail(<<b, u, p>>) = <<u, p>>
      /\ Head(<<b, a, u, p>>) = b /\ Head(<<a, u, p>>) = a /\ Head(<<b, u, p>>) = b
  BY <1>1
<1>8. <<b, a, u, p>> # <<>> /\ <<a, u, p>> # <<>> /\ <<b, u, p>> # <<>> BY <1>1
<1> QED BY <1>2, <1>3, <1>4, <1>5, <1>7, <1>8 DEF a, b
-----------------------------------------------------------------------------
(* The invariant *)

\* What the commands of the script are.
LEMMA ScriptSays ==
  /\ \A k \in {1, 2, 3, 4, 9, 10} : Script[k].op = "set"
  /\ Script[1].item = "ubx" /\ Script[2].item = "rate" /\ Script[3].item = "glonass"
  /\ Script[4].item = "pvt" /\ Script[9].item = "ubx" /\ Script[10].item = "pvt"
  /\ Script[5].op = "save" /\ Script[8].op = "save_changed"
  /\ Script[6].op = "ensure" /\ Script[6].item = "aop"
  /\ Script[7].op = "ensure" /\ Script[7].item = "rate"
<1>1. /\ \A item : Set(item).op = "set" /\ Set(item).item = item
      /\ \A item : Ensure(item).op = "ensure" /\ Ensure(item).item = item
      /\ \A op : Do(op).op = op
  BY DEF Set, Ensure, Do
<1>2. /\ Script[1] = Set("ubx") /\ Script[2] = Set("rate") /\ Script[3] = Set("glonass")
      /\ Script[4] = Set("pvt") /\ Script[5] = Do("save")
      /\ Script[6] = Ensure("aop") /\ Script[7] = Ensure("rate")
      /\ Script[8] = Do("save_changed")
      /\ Script[9] = Set("ubx") /\ Script[10] = Set("pvt")
  BY ScriptIs
<1> QED BY <1>1, <1>2

\* The step from one command of the script to the next.
LEMMA Advance ==
  ASSUME NEW k \in 1 .. 10, From(k)
  PROVE  /\ todo # <<>> /\ Head(todo) = Script[k]
         /\ todo' = Tail(todo) => From(k + 1)'
<1>0. Script \in Seq(Commands) /\ Len(Script) = 10 BY ScriptIs
<1>1. Head(todo) = Script[k] /\ Tail(todo) = SubSeq(Script, k + 1, 10)
  <2>1. k \in 1 .. Len(Script) /\ 10 \in k .. Len(Script) BY <1>0
  <2> QED BY <1>0, <2>1, HeadTailOfSubSeq DEF From
<1>2. todo # <<>>
  <2>1. \A i \in k .. 10 : Script[i] \in Commands
    <3> TAKE i \in k .. 10
    <3>1. i \in 1 .. Len(Script) BY <1>0
    <3> QED BY <1>0, <3>1, ElementOfSeq
  <2>2. Len(todo) = 10 - k + 1 BY <2>1, SubSeqProperties DEF From
  <2> QED BY <2>2
<1> QED BY <1>1, <1>2 DEF From

LEMMA EmptyFrom == From(11) <=> todo = <<>>
<1>1. SubSeq(Script, 11, 10) = <<>> BY SubSeqEmpty
<1> QED BY <1>1 DEF From

\* Before the first command of the script, and behind it.
LEMMA OpeningHeads ==
  ASSUME Opening
  PROVE  todo # <<>> /\ Head(todo).op \in {"begin", "ask_glonass"}
<1>1. Do("begin").op = "begin" /\ Do("ask_glonass").op = "ask_glonass" BY DEF Do
<1>2. todo # <<>> /\ Head(todo) \in {Do("begin"), Do("ask_glonass")}
  BY OpeningIs DEF Opening
<1> QED BY <1>1, <1>2

LEMMA ScriptHeads ==
  ASSUME NEW k \in 1 .. 11, From(k), todo # <<>>
  PROVE  k \in 1 .. 10 /\ Head(todo) = Script[k] /\ Head(todo).op \notin {"begin", "ask_glonass"}
<1>1. k \in 1 .. 10 BY EmptyFrom
<1>2. Head(todo) = Script[k] BY <1>1, Advance
<1>3. Script[k].op \notin {"begin", "ask_glonass"}
  <2>1. k \in {1, 2, 3, 4, 9, 10} \/ k = 5 \/ k = 6 \/ k = 7 \/ k = 8 BY <1>1
  <2> QED BY <2>1, ScriptSays
<1> QED BY <1>1, <1>2, <1>3

LEMMA StillOpening ==
  ASSUME LinkInv, Initialising, todo # <<>>, Head(todo).op \in {"begin", "ask_glonass"}
  PROVE  Opening
BY ScriptHeads DEF LinkInv

\* What is sent next, by where the script is.
LEMMA NextCommand ==
  ASSUME LinkInv, Initialising, todo # <<>>, Head(todo).op \notin {"begin", "ask_glonass"}
  PROVE  \E k \in 1 .. 10 :
           /\ From(k) /\ (~seen.lost => Underway(k))
           /\ todo' = Tail(todo) => From(k + 1)'
           /\ Head(todo).op = "set" => /\ k \in {1, 2, 3, 4, 9, 10}
                                       /\ Head(todo).item \in Items
                                       /\ Head(todo).item = "glonass" <=> k = 3
                                       /\ k \in {4, 10} => Head(todo).item = "pvt"
           /\ Head(todo).op = "ensure" => k \in {6, 7} /\ Head(todo).item \in {"aop", "rate"}
           /\ Head(todo).op = "save" => k = 5
           /\ Head(todo).op = "save_changed" => k = 8
<1>1. ~Opening BY OpeningHeads
<1>2. PICK k \in 1 .. 11 : From(k) /\ (~seen.lost => Underway(k)) BY <1>1 DEF LinkInv
<1>3. k \in 1 .. 10 /\ Head(todo) = Script[k] BY <1>2, ScriptHeads
<1>4. todo' = Tail(todo) => From(k + 1)' BY <1>2, <1>3, Advance
<1>5. k \in {1, 2, 3, 4, 9, 10} \/ k = 5 \/ k = 6 \/ k = 7 \/ k = 8 BY <1>3
<1> DEFINE c == Script[k]
<1>6. /\ c.op = "set" => /\ k \in {1, 2, 3, 4, 9, 10}
                         /\ c.item \in Items
                         /\ c.item = "glonass" <=> k = 3
                         /\ k \in {4, 10} => c.item = "pvt"
      /\ c.op = "ensure" => k \in {6, 7} /\ c.item \in {"aop", "rate"}
      /\ c.op = "save" => k = 5
      /\ c.op = "save_changed" => k = 8
  <2>1. k \in {1, 2, 3, 4, 9, 10} => c.op = "set" BY ScriptSays
  <2>2. CASE k \in {1, 2, 3, 4, 9, 10}
    BY <2>1, <2>2, ScriptSays DEF Items
  <2>3. CASE k = 5 BY <2>3, ScriptSays
  <2>4. CASE k = 6 BY <2>4, ScriptSays
  <2>5. CASE k = 7 BY <2>5, ScriptSays
  <2>6. CASE k = 8 BY <2>6, ScriptSays
  <2> QED BY <1>5, <2>2, <2>3, <2>4, <2>5, <2>6
<1> HIDE DEF c
<1>7. Head(todo) = c BY <1>3 DEF c
<1> QED BY <1>2, <1>3, <1>4, <1>6, <1>7

LEMMA InitLink == Init => LinkInv
<1> SUFFICES ASSUME Init PROVE LinkInv OBVIOUS
<1>1. pc = "boot" /\ todo = initI2CAndGPS(TRUE) /\ seen = Unseen BY DEF Init
<1>2. receiver \in Receivers /\ ~receiver.restarting /\ receiver.ram = receiver.bbr
  BY DEF Init, Receivers, Items
<1> QED BY <1>1, <1>2 DEF LinkInv, LinkType, Opening, Initialising, Unseen

\* What leaves the receiver, the script and the promises alone.
LEMMA SameLink ==
  ASSUME LinkInv, UNCHANGED <<pc, todo, receiver>>,
         DOMAIN seen' = DOMAIN seen, seen'.lost = seen.lost, seen'.stored = seen.stored
  PROVE  LinkInv'
BY DEF LinkInv, LinkType, Opening, Initialising, From, Underway

SeenFields == {"sent", "missed", "lost", "stored", "faults"}

LEMMA SeenIs == DOMAIN Unseen = SeenFields
BY DEF Unseen, SeenFields

LEMMA BeginLink == ASSUME LinkInv, Begin PROVE LinkInv'
<1>1. /\ Initialising /\ todo # <<>> /\ Head(todo).op = "begin" /\ todo' = Tail(todo)
      /\ UNCHANGED <<pc, receiver, seen>>
  BY DEF Begin, Commanding, Initialising
<1>2. Opening BY <1>1, StillOpening
<1>3. CASE todo = initI2CAndGPS(TRUE)
  BY <1>1, <1>2, <1>3 DEF LinkInv, LinkType, Opening, Initialising
<1>4. CASE todo = initI2CAndGPS(FALSE) /\ pc = "reinit"
  <2>1. From(9)' BY <1>1, <1>4, OpeningIs, ScriptIs DEF From
  <2>2. Underway(9)' BY <1>1, <1>2, <1>4 DEF Underway, Opening
  <2> QED BY <1>1, <2>1, <2>2 DEF LinkInv, LinkType, Initialising
<1>5. CASE todo = Tail(initI2CAndGPS(TRUE))
  <2>1. Head(todo).op = "ask_glonass" BY <1>5, DoIs, OpeningIs
  <2> QED BY <1>1, <2>1
<1> QED BY <1>2, <1>3, <1>4, <1>5 DEF Opening

LEMMA BeginFailsLink == ASSUME LinkInv, BeginFails PROVE LinkInv'
<1>1. /\ Initialising /\ todo # <<>> /\ Head(todo).op = "begin" /\ receiver' = receiver
      /\ \/ pc' = "retry" /\ todo' = initI2CAndGPS(TRUE)
         \/ pc' = "run"
  BY DEF BeginFails, Commanding, Initialising
<1>2. DOMAIN seen' = DOMAIN seen /\ seen'.lost /\ seen'.stored = seen.stored
      /\ seen'.lost \in BOOLEAN
  BY SeenIs DEF BeginFails, Answer, Counted, LinkInv, LinkType, SeenFields
<1>3. Opening BY <1>1, StillOpening
<1>4. ~receiver.restarting BY <1>3 DEF Opening
<1> QED BY <1>1, <1>2, <1>4 DEF LinkInv, LinkType, Opening, Initialising

\* The answer to a command: none, and the run is lost, or one.
LEMMA Answered ==
  ASSUME LinkInv, NEW ok \in BOOLEAN, Answer(ok)
  PROVE  /\ DOMAIN seen' = DOMAIN seen /\ seen'.lost \in BOOLEAN
         /\ seen'.stored = seen.stored /\ (seen'.lost <=> seen.lost \/ ~ok)
BY SeenIs DEF Answer, Counted, LinkInv, LinkType, SeenFields

LEMMA AskLink == ASSUME LinkInv, NEW ok \in BOOLEAN, Ask(ok) PROVE LinkInv'
<1>1. /\ Initialising /\ todo # <<>> /\ Head(todo).op = "ask_glonass"
      /\ todo' = Asked(receiver, ok) \o Tail(todo) /\ UNCHANGED <<pc, receiver>>
  BY DEF Ask, Commanding, Initialising
<1>2. /\ DOMAIN seen' = DOMAIN seen /\ seen'.lost \in BOOLEAN
      /\ seen'.stored = seen.stored /\ (seen'.lost <=> seen.lost \/ ~ok)
  BY Answered DEF Ask
<1>3. Opening BY <1>1, StillOpening
<1>4. Tail(todo) = lastCommands
  <2>1. Head(todo) # Do("begin") BY <1>1, DoIs
  <2> QED BY <1>3, <2>1, OpeningIs DEF Opening
<1>7. ~receiver.restarting BY <1>3 DEF Opening
<1>5. CASE alreadyConfigured(receiver, ok)
  <2>1. "glonass" \in receiver.ram BY <1>5 DEF alreadyConfigured
  <2>2. Asked(receiver, ok) = aopConfig
    <3>1. <<>> \o aopConfig = aopConfig BY PartsAre, ConcatEmptySeq
    <3> QED BY <1>5, <3>1 DEF Asked
  <2>3. From(6)' BY <1>1, <1>4, <2>2, ScriptIs DEF From
  <2>4. Underway(6)' BY <1>1, <1>3, <2>1 DEF Underway, Opening
  <2>5. 6 \in 1 .. 11 OBVIOUS
  <2> QED BY <1>1, <1>2, <1>7, <2>3, <2>4, <2>5 DEF LinkInv, LinkType, Initialising
<1>6. CASE ~alreadyConfigured(receiver, ok)
  <2>1. From(1)' BY <1>1, <1>4, <1>6, ScriptIs DEF From, Asked, Script
  <2>2. ~seen'.lost => ~seen.stored
    BY <1>1, <1>2, <1>6 DEF alreadyConfigured, LinkInv, Initialising
  <2>3. ~seen'.lost => Underway(1)' BY <1>1, <1>2, <1>3, <2>2 DEF Underway, Opening
  <2>5. 1 \in 1 .. 11 OBVIOUS
  <2> QED BY <1>1, <1>2, <1>7, <2>1, <2>3, <2>5 DEF LinkInv, LinkType, Initialising
<1> QED BY <1>5, <1>6

\* What a setting does to the receiver.
LEMMA ConfiguredIs ==
  ASSUME NEW r \in Receivers, NEW item \in Items
  PROVE  LET n == Configured(r, item)
         IN  /\ n \in Receivers /\ n.ram = r.ram \cup {item} /\ n.bbr = r.bbr
             /\ n.cell = r.cell /\ n.ephemeris = r.ephemeris
             /\ (n.restarting <=> r.restarting \/ item = "glonass")
BY DEF Receivers, Configured

LEMMA SetLink == ASSUME LinkInv, NEW ok \in BOOLEAN, SetItem(ok) PROVE LinkInv'
<1> DEFINE item == Head(todo).item
<1>1. /\ Initialising /\ todo # <<>> /\ Head(todo).op = "set" /\ todo' = Tail(todo)
      /\ pc' = pc /\ receiver' = IF ok THEN Configured(receiver, item) ELSE receiver
  BY DEF SetItem, Commanding, Initialising
<1>2. /\ DOMAIN seen' = DOMAIN seen /\ seen'.lost \in BOOLEAN
      /\ seen'.stored = seen.stored /\ (seen'.lost <=> seen.lost \/ ~ok)
  BY Answered DEF SetItem
<1>3. PICK k \in 1 .. 10 :
        /\ From(k) /\ (~seen.lost => Underway(k)) /\ From(k + 1)'
        /\ k \in {1, 2, 3, 4, 9, 10} /\ item \in Items
        /\ item = "glonass" <=> k = 3
        /\ k \in {4, 10} => item = "pvt"
  BY <1>1, NextCommand
<1> HIDE DEF item
<1>4. CASE ok
  <2>1. /\ receiver' \in Receivers /\ receiver'.ram = receiver.ram \cup {item}
        /\ receiver'.bbr = receiver.bbr /\ receiver'.cell = receiver.cell
        /\ (receiver'.restarting <=> receiver.restarting \/ item = "glonass")
    BY <1>1, <1>3, <1>4, ConfiguredIs DEF LinkInv, LinkType
  <2>2. ~seen'.lost => Underway(k + 1)'
    <3>1. CASE k \in {1, 2}
      <4>1. item # "glonass" /\ k <= 3 /\ k + 1 \in {2, 3} BY <1>3, <3>1
      <4> QED BY <1>1, <1>2, <1>3, <1>4, <2>1, <4>1 DEF Underway
    <3>2. CASE k = 3
      <4>1. k + 1 = 4 /\ item = "glonass" BY <1>3, <3>2
      <4> QED BY <1>1, <1>2, <1>3, <1>4, <2>1, <3>2, <4>1 DEF Underway
    <3>3. CASE k = 4
      <4>1. k + 1 = 5 /\ item = "pvt" BY <1>3, <3>3
      <4> QED BY <1>1, <1>2, <1>3, <1>4, <2>1, <3>3, <4>1 DEF Underway
    <3>4. CASE k \in {9, 10}
      <4>1. k + 1 \in {10, 11} /\ item # "glonass" /\ (k + 1 = 11 => item = "pvt")
        BY <1>3, <3>4
      <4> QED BY <1>1, <1>2, <1>3, <1>4, <2>1, <3>4, <4>1 DEF Underway
    <3> QED BY <1>3, <3>1, <3>2, <3>3, <3>4
  <2>3. seen'.stored /\ ~seen'.lost => ~receiver'.restarting
    <3> SUFFICES ASSUME seen.stored, ~seen.lost PROVE ~receiver'.restarting BY <1>2
    <3>1. ~receiver.restarting BY DEF LinkInv
    <3>2. k >= 6 BY <1>3 DEF Underway
    <3>3. item # "glonass" BY <1>3, <3>2
    <3> QED BY <2>1, <3>1, <3>3
  <2>4. k + 1 \in 1 .. 11 OBVIOUS
  <2> QED BY <1>1, <1>2, <1>3, <2>1, <2>2, <2>3, <2>4 DEF LinkInv, LinkType, Initialising
<1>5. CASE ~ok
  <2>1. k + 1 \in 1 .. 11 OBVIOUS
  <2> QED BY <1>1, <1>2, <1>3, <1>5, <2>1 DEF LinkInv, LinkType, Initialising
<1> QED BY <1>4, <1>5
LEMMA EnsureLink == ASSUME LinkInv, NEW ok \in BOOLEAN, EnsureItem(ok) PROVE LinkInv'
<1> DEFINE item == Head(todo).item
<1>1. /\ Initialising /\ todo # <<>> /\ Head(todo).op = "ensure" /\ todo' = Tail(todo)
      /\ pc' = pc /\ (receiver' = receiver \/ receiver' = Configured(receiver, item))
  BY DEF EnsureItem, Commanding, Initialising
<1>2. /\ DOMAIN seen' = DOMAIN seen /\ seen'.lost \in BOOLEAN
      /\ seen'.stored = seen.stored /\ (seen'.lost <=> seen.lost \/ ~ok)
  BY Answered DEF EnsureItem
<1>3. PICK k \in 1 .. 10 :
        /\ From(k) /\ (~seen.lost => Underway(k)) /\ From(k + 1)'
        /\ k \in {6, 7} /\ item \in {"aop", "rate"}
  BY <1>1, NextCommand
<1> HIDE DEF item
<1>4. item \in Items /\ item # "glonass" BY <1>3 DEF Items
<1>5. /\ receiver' \in Receivers /\ receiver.ram \subseteq receiver'.ram
      /\ receiver'.bbr = receiver.bbr /\ receiver'.cell = receiver.cell
      /\ receiver'.restarting = receiver.restarting
  BY <1>1, <1>4, ConfiguredIs DEF LinkInv, LinkType, Receivers
<1>6. ~seen'.lost => Underway(k + 1)'
  <2>1. k + 1 \in {7, 8} BY <1>3
  <2> QED BY <1>1, <1>2, <1>3, <1>5, <2>1 DEF Underway
<1>7. k + 1 \in 1 .. 11 OBVIOUS
<1> QED BY <1>1, <1>2, <1>3, <1>5, <1>6, <1>7 DEF LinkInv, LinkType, Initialising

\* A save brings the copy up to the RAM.
LEMMA SavedIs ==
  ASSUME LinkInv, NEW ok \in BOOLEAN, saveConfiguration(ok)
  PROVE  /\ receiver' \in Receivers /\ receiver'.ram = receiver.ram
         /\ receiver'.bbr = IF ok THEN receiver.ram ELSE receiver.bbr
         /\ receiver'.cell = receiver.cell /\ receiver'.ephemeris = receiver.ephemeris
         /\ receiver'.restarting = receiver.restarting
BY DEF saveConfiguration, LinkInv, LinkType, Receivers

LEMMA SaveLink == ASSUME LinkInv, NEW ok \in BOOLEAN, Save(ok) PROVE LinkInv'
<1>1. /\ Initialising /\ pc # "off" /\ todo # <<>> /\ Head(todo).op = "save"
      /\ todo' = Tail(todo) /\ pc' = pc
  BY DEF Save, Commanding, Initialising
<1>2. /\ DOMAIN seen' = DOMAIN seen /\ seen'.lost \in BOOLEAN
      /\ seen'.stored = seen.stored /\ (seen'.lost <=> seen.lost \/ ~ok)
  BY Answered DEF Save
<1>3. PICK k \in 1 .. 10 : From(k) /\ (~seen.lost => Underway(k)) /\ From(k + 1)' /\ k = 5
  BY <1>1, NextCommand
<1>4. /\ receiver' \in Receivers /\ receiver'.ram = receiver.ram
      /\ receiver'.bbr = IF ok THEN receiver.ram ELSE receiver.bbr
      /\ receiver'.cell = receiver.cell /\ receiver'.restarting = receiver.restarting
  BY SavedIs DEF Save
<1>5. ~seen'.lost => Underway(6)'
  BY <1>1, <1>2, <1>3, <1>4 DEF Underway
<1>6. From(6)' /\ 6 \in 1 .. 11 BY <1>3
<1> QED BY <1>1, <1>2, <1>4, <1>5, <1>6 DEF LinkInv, LinkType, Initialising

LEMMA SaveChangedLink == ASSUME LinkInv, NEW ok \in BOOLEAN, SaveChanged(ok) PROVE LinkInv'
<1>1. /\ Initialising /\ pc # "off" /\ todo # <<>> /\ Head(todo).op = "save_changed"
      /\ todo' = Tail(todo) /\ pc' = pc
  BY DEF SaveChanged, Commanding, Initialising
<1>2. PICK k \in 1 .. 10 : From(k) /\ (~seen.lost => Underway(k)) /\ From(k + 1)' /\ k = 8
  BY <1>1, NextCommand
<1>3. From(9)' /\ 9 \in 1 .. 11 BY <1>2
<1>4. CASE aopCfgChanged
  <2>1. /\ DOMAIN seen' = DOMAIN seen /\ seen'.lost \in BOOLEAN
        /\ seen'.stored = seen.stored /\ (seen'.lost <=> seen.lost \/ ~ok)
    BY <1>4, Answered DEF SaveChanged
  <2>2. /\ receiver' \in Receivers /\ receiver'.ram = receiver.ram
        /\ receiver'.bbr = IF ok THEN receiver.ram ELSE receiver.bbr
        /\ receiver'.cell = receiver.cell /\ receiver'.restarting = receiver.restarting
    BY <1>4, SavedIs DEF SaveChanged
  <2>3. ~seen'.lost => Underway(9)'
    BY <1>1, <1>2, <2>1, <2>2 DEF Underway
  <2> QED BY <1>1, <1>3, <2>1, <2>2, <2>3 DEF LinkInv, LinkType, Initialising
<1>5. CASE ~aopCfgChanged
  <2>1. receiver' = receiver /\ seen' = seen BY <1>5 DEF SaveChanged
  <2>2. ~seen'.lost => Underway(9)' BY <1>1, <1>2, <2>1 DEF Underway
  <2> QED BY <1>1, <1>3, <2>1, <2>2 DEF LinkInv, LinkType, Initialising
<1> QED BY <1>4, <1>5

LEMMA DoneLink == ASSUME LinkInv, Done PROVE LinkInv'
<1>1. /\ Initialising /\ pc # "off" /\ todo = <<>> /\ pc' = "run" /\ receiver' = receiver
  BY DEF Done, Initialising
<1>2. ~seen.lost => Underway(11)
  <2>1. ~Opening BY <1>1, OpeningHeads
  <2>2. PICK k \in 1 .. 11 : From(k) /\ (~seen.lost => Underway(k)) BY <1>1, <2>1 DEF LinkInv
  <2>3. k = 11 BY <1>1, <2>2, Advance
  <2> QED BY <2>2, <2>3
<1>3. /\ DOMAIN seen' = DOMAIN seen /\ seen'.lost = seen.lost
      /\ seen'.stored \in BOOLEAN
      /\ seen'.stored <=> receiver.cell
            /\ (seen.stored \/ (pc = "boot" /\ ~seen.lost /\ ~receiver.restarting))
  BY SeenIs DEF Done, LinkInv, LinkType, SeenFields
<1>5. ~seen.lost => /\ "pvt" \in receiver.ram
                    /\ receiver.restarting => "pvt" \in receiver.bbr
  BY <1>2 DEF Underway
<1>6. seen'.stored => /\ receiver.cell /\ "glonass" \in receiver.bbr
                      /\ "glonass" \in receiver.ram
                      /\ ~seen.lost => ~receiver.restarting
  <2>1. CASE seen.stored BY <1>1, <1>3, <2>1 DEF LinkInv
  <2>2. CASE pc = "boot" /\ ~seen.lost /\ ~receiver.restarting
    <3>1. Underway(11) BY <1>2, <2>2
    <3>2. "glonass" \in receiver.bbr /\ "glonass" \in receiver.ram
      BY <2>2, <3>1 DEF Underway
    <3> QED BY <1>3, <2>2, <3>2
  <2> QED BY <1>3, <2>1, <2>2
<1> QED BY <1>1, <1>3, <1>5, <1>6 DEF LinkInv, LinkType, Initialising

\* The superloop's, the watchdog's, the outages' and the receiver's.
LEMMA WatchdogLink ==
  ASSUME LinkInv, NEW begun \in BOOLEAN, NEW set \in BOOLEAN, Watchdog(begun, set)
  PROVE  LinkInv'
<1>1. /\ pc = "run" /\ pc' = pc /\ todo' = todo
      /\ receiver' = receiver \/ receiver' = Configured(receiver, "pvt")
  BY DEF Watchdog, Running
<1>2. DOMAIN seen' = DOMAIN seen /\ seen'.lost = seen.lost /\ seen'.stored = seen.stored
  BY SeenIs DEF Watchdog, Counted, LinkInv, LinkType, SeenFields
<1>3. /\ receiver' \in Receivers /\ receiver.ram \subseteq receiver'.ram
      /\ receiver'.bbr = receiver.bbr /\ receiver'.cell = receiver.cell
      /\ receiver'.restarting = receiver.restarting
  <2>1. "pvt" \in Items BY DEF Items
  <2> QED BY <1>1, <2>1, ConfiguredIs DEF LinkInv, LinkType, Receivers
<1> QED BY <1>1, <1>2, <1>3 DEF LinkInv, LinkType, Initialising

LEMMA UnpoweredIs ==
  ASSUME NEW r \in Receivers
  PROVE  /\ Unpowered(r) \in Receivers /\ ~Unpowered(r).restarting
         /\ Unpowered(r).cell = r.cell
         /\ r.cell => Unpowered(r).bbr = r.bbr
BY DEF Receivers, Unpowered

LEMMA PoweredIs ==
  ASSUME NEW r \in Receivers
  PROVE  /\ Powered(r) \in Receivers /\ Powered(r).ram = r.bbr /\ Powered(r).bbr = r.bbr
         /\ Powered(r).cell = r.cell /\ Powered(r).restarting = r.restarting
BY DEF Receivers, Powered

LEMMA SessionLink == ASSUME LinkInv, Session PROVE LinkInv'
<1>1. pc' = "off" /\ receiver' = Unpowered(receiver) BY DEF Session
<1>2. DOMAIN seen' = DOMAIN seen /\ seen'.lost = seen.lost /\ seen'.stored = seen.stored
  BY SeenIs DEF Session, Counted, LinkInv, LinkType, SeenFields
<1>3. receiver \in Receivers BY DEF LinkInv, LinkType
<1> QED BY <1>1, <1>2, <1>3, UnpoweredIs DEF LinkInv, LinkType, Initialising

LEMMA ReinitLink == ASSUME LinkInv, Reinit PROVE LinkInv'
<1>1. /\ pc = "off" /\ pc' = "reinit" /\ receiver' = Powered(receiver)
      /\ todo' = initI2CAndGPS(TRUE) \/ todo' = initI2CAndGPS(FALSE)
  BY DEF Reinit
<1>2. DOMAIN seen' = DOMAIN seen /\ seen'.lost = FALSE /\ seen'.stored = seen.stored
  BY SeenIs DEF Reinit, LinkInv, LinkType, SeenFields
<1>3. receiver \in Receivers BY DEF LinkInv, LinkType
<1>4. Opening' BY <1>1, <1>3, PoweredIs DEF Opening, LinkInv
<1> QED BY <1>1, <1>2, <1>3, <1>4, PoweredIs DEF LinkInv, LinkType, Initialising, Opening

LEMMA BootLink == ASSUME LinkInv, Boot PROVE LinkInv'
<1> DEFINE off == Unpowered(receiver)
<1>1. /\ pc' = "boot" /\ receiver' = Powered(off) /\ todo' = initI2CAndGPS(TRUE)
      /\ DOMAIN seen' = DOMAIN Unseen /\ seen'.lost = FALSE /\ seen'.stored = seen.stored
  BY SeenIs DEF Boot, Unseen, SeenFields
<1>2. /\ off \in Receivers /\ ~off.restarting /\ off.cell = receiver.cell
      /\ receiver.cell => off.bbr = receiver.bbr
  BY UnpoweredIs DEF LinkInv, LinkType
<1> HIDE DEF off
<1>3. /\ receiver' \in Receivers /\ receiver'.ram = off.bbr /\ receiver'.bbr = off.bbr
      /\ receiver'.cell = receiver.cell /\ ~receiver'.restarting
  BY <1>1, <1>2, PoweredIs
<1>4. Opening' BY <1>1, <1>3 DEF Opening
<1> QED BY <1>1, <1>2, <1>3, <1>4 DEF LinkInv, LinkType, Initialising

LEMMA RestartsLink == ASSUME LinkInv, ReceiverRestarts PROVE LinkInv'
<1>1. /\ receiver.restarting /\ receiver' = Restarted(receiver)
      /\ pc' = pc /\ todo' = todo /\ seen' = seen
  BY DEF ReceiverRestarts, firmware
<1>2. /\ receiver' \in Receivers /\ receiver'.bbr = receiver.bbr
      /\ receiver'.ram = receiver.bbr \cup (receiver.ram \cap {"glonass"})
      /\ receiver'.cell = receiver.cell /\ ~receiver'.restarting
  BY <1>1 DEF LinkInv, LinkType, Receivers, Restarted
<1>3. ~Opening BY <1>1 DEF Opening
<1>4. ASSUME NEW k \in 1 .. 11, Underway(k) PROVE Underway(k)'
  BY <1>1, <1>2, <1>4 DEF Underway
<1>5. ASSUME NEW k \in 1 .. 11, From(k) PROVE From(k)' BY <1>1, <1>5 DEF From
<1>6. Initialising' => Opening' \/ \E k \in 1 .. 11 : From(k)' /\ (~seen'.lost => Underway(k)')
  BY <1>1, <1>3, <1>4, <1>5 DEF LinkInv, Initialising
<1> QED BY <1>1, <1>2, <1>6 DEF LinkInv, LinkType, Initialising

LEMMA AcquireLink == ASSUME LinkInv, Acquire PROVE LinkInv'
<1>1. /\ pc = "run" /\ receiver' = [receiver EXCEPT !.ephemeris = TRUE]
      /\ pc' = pc /\ todo' = todo /\ seen' = seen
  BY DEF Acquire, firmware
<1>2. /\ receiver' \in Receivers /\ receiver'.bbr = receiver.bbr
      /\ receiver'.ram = receiver.ram /\ receiver'.cell = receiver.cell
      /\ receiver'.restarting = receiver.restarting
  BY <1>1 DEF LinkInv, LinkType, Receivers
<1> QED BY <1>1, <1>2 DEF LinkInv, LinkType, Initialising

\* What says nothing of the configuration.
LEMMA TalkLink ==
  ASSUME LinkInv,
         \/ Update \/ Silent \/ Chatter \/ UNCHANGED vars
         \/ \E p \in Payloads : Speak(p) \/ \E i \in 1 .. FrameLength : Garble(p, i)
  PROVE  LinkInv'
<1>0. DOMAIN seen = SeenFields BY SeenIs DEF LinkInv, LinkType
<1>1. CASE Update
  <2>1. seen' = seen \/ seen' = [seen EXCEPT !.missed = 0] BY <1>1 DEF Update
  <2>2. UNCHANGED <<pc, todo, receiver>> BY <1>1 DEF Update, Running
  <2> QED BY <1>0, <2>1, <2>2, SameLink DEF SeenFields
<1>2. CASE Silent \/ UNCHANGED vars
  <2>1. seen' = seen /\ UNCHANGED <<pc, todo, receiver>>
    BY <1>2 DEF Silent, Tick, vars, firmware
  <2> QED BY <2>1, SameLink
<1>3. CASE Chatter
  <2>1. UNCHANGED <<pc, todo, receiver>> BY <1>3 DEF Chatter, Tick
  <2>2. DOMAIN seen' = DOMAIN seen /\ seen'.lost = seen.lost /\ seen'.stored = seen.stored
    BY <1>0, <1>3 DEF Chatter, SeenFields
  <2> QED BY <2>1, <2>2, SameLink
<1>4. ASSUME NEW p \in Payloads, Speak(p) PROVE LinkInv'
  <2>1. UNCHANGED <<pc, todo, receiver>> BY <1>4 DEF Speak, Tick
  <2>2. DOMAIN seen' = DOMAIN seen /\ seen'.lost = seen.lost /\ seen'.stored = seen.stored
    BY <1>0, <1>4 DEF Speak, SeenFields
  <2> QED BY <2>1, <2>2, SameLink
<1>5. ASSUME NEW p \in Payloads, NEW i \in 1 .. FrameLength, Garble(p, i) PROVE LinkInv'
  <2>1. UNCHANGED <<pc, todo, receiver>> BY <1>5 DEF Garble, Tick
  <2>2. DOMAIN seen' = DOMAIN seen /\ seen'.lost = seen.lost /\ seen'.stored = seen.stored
    BY <1>0, <1>5 DEF Garble, Counted, SeenFields
  <2> QED BY <2>1, <2>2, SameLink
<1> QED BY <1>1, <1>2, <1>3, <1>4, <1>5

LEMMA NextLink == LinkInv /\ [Next]_vars => LinkInv'
<1> SUFFICES ASSUME LinkInv, [Next]_vars PROVE LinkInv' OBVIOUS
<1>1. CASE Begin \/ BeginFails BY <1>1, BeginLink, BeginFailsLink
<1>2. CASE \E ok \in BOOLEAN : Command(ok)
  BY <1>2, AskLink, SetLink, EnsureLink, SaveLink, SaveChangedLink DEF Command
<1>3. CASE Done BY <1>3, DoneLink
<1>4. CASE \E begun, set \in BOOLEAN : Watchdog(begun, set) BY <1>4, WatchdogLink
<1>5. CASE Session \/ Reinit \/ Boot BY <1>5, SessionLink, ReinitLink, BootLink
<1>6. CASE ReceiverRestarts \/ Acquire BY <1>6, RestartsLink, AcquireLink
<1>7. CASE \/ Update \/ Silent \/ Chatter \/ UNCHANGED vars
           \/ \E p \in Payloads : Speak(p) \/ \E i \in 1 .. FrameLength : Garble(p, i)
  BY <1>7, TalkLink
<1> QED BY <1>1, <1>2, <1>3, <1>4, <1>5, <1>6, <1>7 DEF Next

\* LinkInv is inductive: whichever command the receiver's restart falls
\* between, what is still ahead makes up for what it takes away.
THEOREM LinkInvariant == Spec => []LinkInv
<1> QED BY InitLink, NextLink, PTL DEF Spec

\* When an initialisation had every command answered, the receiver speaks
\* until its power goes, whenever it restarts (initI2CAndGPS).
THEOREM ReceiverSpeaks == Spec => []SpeaksAfterInit
<1>1. LinkInv => SpeaksAfterInit BY DEF LinkInv, SpeaksAfterInit
<1> QED BY LinkInvariant, <1>1, PTL

LEMMA KeptByStep ==
  LinkInv /\ [Next]_vars =>
    (receiver.ephemeris /\ ~receiver'.ephemeris => ~seen.stored \/ seen.lost)
<1> SUFFICES ASSUME LinkInv, [Next]_vars, receiver.ephemeris, seen.stored, ~seen.lost
             PROVE  receiver'.ephemeris
  OBVIOUS
<1>0. receiver \in Receivers /\ receiver.cell /\ ~receiver.restarting
  BY DEF LinkInv, LinkType
<1>1. \A r \in Receivers : \A item : Configured(r, item).ephemeris = r.ephemeris
  BY DEF Configured, Receivers
<1>2. \A r \in Receivers : Unpowered(r) \in Receivers
                           /\ Powered(r).ephemeris = r.ephemeris
                           /\ (r.ephemeris /\ r.cell => Unpowered(r).ephemeris)
  BY UnpoweredIs DEF Unpowered, Powered, Receivers
<1>3. CASE Begin \/ BeginFails \/ Done \/ UNCHANGED vars
  BY <1>3 DEF Begin, BeginFails, Done, vars
<1>4. ASSUME NEW ok \in BOOLEAN, Command(ok) PROVE receiver'.ephemeris
  <2>1. CASE Ask(ok) BY <2>1 DEF Ask
  <2>2. CASE SetItem(ok) BY <1>0, <1>1, <2>2 DEF SetItem
  <2>3. CASE EnsureItem(ok) BY <1>0, <1>1, <2>3 DEF EnsureItem
  <2>4. CASE Save(ok) BY <2>4, SavedIs DEF Save
  <2>5. CASE SaveChanged(ok) BY <2>5, SavedIs DEF SaveChanged
  <2> QED BY <1>4, <2>1, <2>2, <2>3, <2>4, <2>5 DEF Command
<1>5. CASE Update \/ Silent \/ Chatter
           \/ \E p \in Payloads : Speak(p) \/ \E i \in 1 .. FrameLength : Garble(p, i)
  BY <1>5 DEF Update, Silent, Chatter, Speak, Garble, Tick
<1>6. CASE \E begun, set \in BOOLEAN : Watchdog(begun, set)
  BY <1>0, <1>1, <1>6 DEF Watchdog
<1>7. CASE Session \/ Reinit \/ Boot
  <2>1. \/ receiver' = Unpowered(receiver) \/ receiver' = Powered(receiver)
        \/ receiver' = Powered(Unpowered(receiver))
    BY <1>7 DEF Session, Reinit, Boot
  <2>2. Unpowered(receiver) \in Receivers BY <1>0, <1>2
  <2>3. Unpowered(receiver).ephemeris
    <3>1. receiver \in Receivers /\ receiver.ephemeris /\ receiver.cell BY <1>0
    <3> QED BY <3>1, <1>2
  <2> QED BY <1>0, <1>2, <2>1, <2>2, <2>3
<1>8. CASE ReceiverRestarts BY <1>0, <1>8 DEF ReceiverRestarts
<1>9. CASE Acquire BY <1>0, <1>9 DEF Acquire, Receivers
<1> QED BY <1>3, <1>4, <1>5, <1>6, <1>7, <1>8, <1>9 DEF Next

\* A receiver that was configured and saved, on a healthy cell, keeps its
\* ephemeris through every later boot, re-initialisation and watchdog whose
\* questions it answers ("CRITICAL" in initI2CAndGPS).
THEOREM EphemerisSurvives == Spec => EphemerisKept
<1> QED BY LinkInvariant, KeptByStep, PTL DEF Spec, EphemerisKept

-----------------------------------------------------------------------------
(* The parser over a whole frame *)

LEMMA Induction ==
  ASSUME NEW T, 0 \in T, \A n \in Nat : n \in T => n + 1 \in T
  PROVE  Nat \subseteq T
<1> DEFINE R == OpToRel(<, Nat)
           U == {n \in Nat : n \notin T}
<1>1. IsWellFoundedOn(R, Nat) BY NatLessThanWellFounded
<1>2. \A x, y \in Nat : y < x => <<y, x>> \in R BY DEF OpToRel
<1> HIDE DEF R
<1>3. SUFFICES ASSUME U # {} PROVE FALSE OBVIOUS
<1>4. PICK x \in U : \A y \in U : <<y, x>> \notin R BY <1>1, <1>3, WFMin
<1>5. x # 0 OBVIOUS
<1>6. x - 1 \in Nat /\ x - 1 < x BY <1>5
<1>7. x - 1 \notin U BY <1>2, <1>4, <1>6
<1> QED BY <1>6, <1>7

\* The running checksums of the first bytes, one more at a time.
Summing(sum, bytes, n) ==
    sum = [k \in 0 .. n |->
             IF k = 0 THEN [a |-> 0, b |-> 0]
             ELSE LET s == sum[k - 1] IN
                  [a |-> (s.a + bytes[k]) % BYTE, b |-> (s.b + s.a + bytes[k]) % BYTE]]

Sums(bytes) == CHOOSE sum : Summing(sum, bytes, Len(bytes))

LEMMA SumsAre ==
  ASSUME NEW bytes \in Seq(Int)
  PROVE  /\ Summing(Sums(bytes), bytes, Len(bytes))
         /\ Checksums(bytes) = Sums(bytes)[Len(bytes)]
         /\ Checksums(bytes).a \in Int /\ Checksums(bytes).b \in Int
<1> DEFINE T == {n \in Nat : \E sum : Summing(sum, bytes, n)}
           n == Len(bytes)
           s == Sums(bytes)
<1>0. n \in Nat OBVIOUS
<1>1. 0 \in T
  <2> DEFINE sum == [k \in 0 .. 0 |-> [a |-> 0, b |-> 0]]
  <2>1. Summing(sum, bytes, 0) BY DEF Summing
  <2> QED BY <2>1
<1>2. ASSUME NEW m \in Nat, m \in T PROVE m + 1 \in T
  <2>1. PICK sum : Summing(sum, bytes, m) BY <1>2
  <2> DEFINE g == [k \in 0 .. m + 1 |->
                     IF k = m + 1
                     THEN [a |-> (sum[m].a + bytes[m + 1]) % BYTE,
                           b |-> (sum[m].b + sum[m].a + bytes[m + 1]) % BYTE]
                     ELSE sum[k]]
  <2>2. ASSUME NEW k \in 0 .. m + 1
        PROVE g[k] = IF k = 0 THEN [a |-> 0, b |-> 0]
                     ELSE LET t == g[k - 1] IN
                          [a |-> (t.a + bytes[k]) % BYTE, b |-> (t.b + t.a + bytes[k]) % BYTE]
    <3>1. CASE k = m + 1
      <4>1. k # 0 /\ k - 1 = m /\ m \in 0 .. m + 1 /\ m # m + 1 BY <3>1
      <4>2. g[m] = sum[m] BY <4>1
      <4> HIDE DEF g
      <4>3. g[k] = [a |-> (sum[m].a + bytes[m + 1]) % BYTE,
                    b |-> (sum[m].b + sum[m].a + bytes[m + 1]) % BYTE]
        BY <3>1 DEF g
      <4> QED BY <3>1, <4>1, <4>2, <4>3
    <3>2. CASE k # m + 1
      <4>1. k \in 0 .. m /\ g[k] = sum[k] BY <3>2
      <4>2. k # 0 => k - 1 \in 0 .. m + 1 /\ k - 1 # m + 1 BY <3>2
      <4>3. k # 0 => g[k - 1] = sum[k - 1] BY <4>2
      <4> HIDE DEF g
      <4>4. sum[k] = IF k = 0 THEN [a |-> 0, b |-> 0]
                     ELSE LET t == sum[k - 1] IN
                          [a |-> (t.a + bytes[k]) % BYTE, b |-> (t.b + t.a + bytes[k]) % BYTE]
        BY <2>1, <4>1 DEF Summing
      <4> QED BY <4>1, <4>3, <4>4
    <3> QED BY <3>1, <3>2
  <2>3. Summing(g, bytes, m + 1)
    <3> DEFINE h(k) == IF k = 0 THEN [a |-> 0, b |-> 0]
                       ELSE LET t == g[k - 1] IN
                            [a |-> (t.a + bytes[k]) % BYTE, b |-> (t.b + t.a + bytes[k]) % BYTE]
    <3>1. \A k \in 0 .. m + 1 : g[k] = h(k) BY <2>2
    <3>2. g = [k \in 0 .. m + 1 |-> g[k]] OBVIOUS
    <3> HIDE DEF g
    <3>3. g = [k \in 0 .. m + 1 |-> h(k)] BY <3>1, <3>2
    <3> QED BY <3>3 DEF Summing
  <2> HIDE DEF g
  <2> QED BY <2>3
<1>3. Nat \subseteq T
  <2> HIDE DEF T
  <2> QED BY <1>1, <1>2, Induction
<1>4. Summing(s, bytes, n)
  <2>1. \E sum : Summing(sum, bytes, n) BY <1>0, <1>3
  <2> QED BY <2>1 DEF Sums
<1>5. Checksums(bytes) = s[n] BY DEF Checksums, Sums, Summing
<1> HIDE DEF s
<1>6. s[n].a \in Int /\ s[n].b \in Int
  <2> DEFINE U == {k \in Nat : k <= n => s[k].a \in Int /\ s[k].b \in Int}
  <2>1. 0 \in U
    <3>1. 0 \in 0 .. n BY <1>0
    <3>2. s[0] = [a |-> 0, b |-> 0] BY <1>4, <3>1 DEF Summing
    <3> QED BY <3>2
  <2>2. ASSUME NEW k \in Nat, k \in U PROVE k + 1 \in U
    <3>1. SUFFICES ASSUME k + 1 <= n PROVE s[k + 1].a \in Int /\ s[k + 1].b \in Int OBVIOUS
    <3>2. s[k].a \in Int /\ s[k].b \in Int BY <1>0, <2>2, <3>1
    <3>3. k + 1 \in 0 .. n /\ k + 1 # 0 /\ (k + 1) - 1 = k /\ k + 1 \in 1 .. n BY <1>0, <3>1
    <3>4. s[k + 1] = [a |-> (s[k].a + bytes[k + 1]) % BYTE,
                      b |-> (s[k].b + s[k].a + bytes[k + 1]) % BYTE]
      BY <1>4, <3>3 DEF Summing
    <3>5. bytes[k + 1] \in Int BY <3>3
    <3>6. \A i \in Int : i % BYTE \in Int BY DEF BYTE
    <3>7. s[k].a + bytes[k + 1] \in Int /\ s[k].b + s[k].a + bytes[k + 1] \in Int BY <3>2, <3>5
    <3>8. /\ (s[k].a + bytes[k + 1]) % BYTE \in Int
          /\ (s[k].b + s[k].a + bytes[k + 1]) % BYTE \in Int
      BY <3>6, <3>7
    <3> QED BY <3>4, <3>8
  <2>3. Nat \subseteq U
    <3> HIDE DEF U
    <3> QED BY <2>1, <2>2, Induction
  <2> QED BY <1>0, <2>3
<1> QED BY <1>4, <1>5, <1>6 DEF s

\* The run of the parser over a chunk.
ParserRun(run, u, chunk, n) ==
    run = [k \in 0 .. n |->
             IF k = 0 THEN [ubx |-> u, pvts |-> <<>>]
             ELSE LET p == run[k - 1] IN
                  [ubx |-> ubxParseByte(p.ubx, chunk[k]),
                   pvts |-> IF endsPvt(p.ubx, chunk[k]) THEN Append(p.pvts, p.ubx.buf)
                            ELSE p.pvts]]

LEMMA RunIs ==
  ASSUME NEW u, NEW chunk, Len(chunk) \in Nat
  PROVE  \E run : ParserRun(run, u, chunk, Len(chunk)) /\ Parsed(u, chunk) = run[Len(chunk)]
<1> DEFINE T == {n \in Nat : \E run : ParserRun(run, u, chunk, n)}
           n == Len(chunk)
           next(p, b) == [ubx |-> ubxParseByte(p.ubx, b),
                          pvts |-> IF endsPvt(p.ubx, b) THEN Append(p.pvts, p.ubx.buf)
                                   ELSE p.pvts]
           h(g, k) == IF k = 0 THEN [ubx |-> u, pvts |-> <<>>]
                      ELSE next(g[k - 1], chunk[k])
<1>0. n \in Nat OBVIOUS
<1>a. \A run, m : ParserRun(run, u, chunk, m) <=> run = [k \in 0 .. m |-> h(run, k)]
  BY DEF ParserRun
<1>1. 0 \in T
  <2> DEFINE run == [k \in 0 .. 0 |-> [ubx |-> u, pvts |-> <<>>]]
  <2>1. run = [k \in 0 .. 0 |-> h(run, k)] OBVIOUS
  <2> HIDE DEF run, h
  <2> QED BY <1>a, <2>1
<1>2. ASSUME NEW m \in Nat, m \in T PROVE m + 1 \in T
  <2>1. PICK run : ParserRun(run, u, chunk, m) BY <1>2
  <2>2. run = [k \in 0 .. m |-> h(run, k)] BY <1>a, <2>1
  <2> DEFINE g == [k \in 0 .. m + 1 |-> IF k = m + 1 THEN next(run[m], chunk[m + 1])
                                        ELSE run[k]]
  <2>3. ASSUME NEW k \in 0 .. m + 1 PROVE g[k] = h(g, k)
    <3>1. CASE k = m + 1
      <4>1. k # 0 /\ k - 1 = m /\ m \in 0 .. m + 1 /\ m # m + 1 BY <3>1
      <4> HIDE DEF next
      <4>2. g[m] = run[m] /\ g[k] = next(run[m], chunk[m + 1]) BY <3>1, <4>1
      <4> HIDE DEF g
      <4> QED BY <3>1, <4>1, <4>2
    <3>2. CASE k # m + 1
      <4> HIDE DEF next
      <4>1. k \in 0 .. m /\ g[k] = run[k] BY <3>2
      <4>2. k # 0 => k - 1 \in 0 .. m + 1 /\ k - 1 # m + 1 BY <3>2
      <4>3. k # 0 => g[k - 1] = run[k - 1] BY <4>2
      <4> HIDE DEF g
      <4>4. run[k] = h(run, k)
        <5> HIDE DEF h
        <5> QED BY <2>2, <4>1
      <4> QED BY <4>1, <4>3, <4>4
    <3> QED BY <3>1, <3>2
  <2>4. g = [k \in 0 .. m + 1 |-> g[k]] OBVIOUS
  <2> HIDE DEF g, h
  <2>5. g = [k \in 0 .. m + 1 |-> h(g, k)] BY <2>3, <2>4
  <2>6. ParserRun(g, u, chunk, m + 1) BY <1>a, <2>5
  <2> QED BY <2>6
<1>3. Nat \subseteq T
  <2> HIDE DEF T
  <2> QED BY <1>1, <1>2, Induction
<1> DEFINE r == CHOOSE run : ParserRun(run, u, chunk, n)
<1>4. ParserRun(r, u, chunk, n)
  <2>1. \E run : ParserRun(run, u, chunk, n) BY <1>0, <1>3
  <2> QED BY <2>1
<1>5. Parsed(u, chunk) = r[n] BY DEF Parsed, ParserRun
<1> HIDE DEF r
<1> QED BY <1>4, <1>5

ParserFields == {"state", "class", "id", "len", "idx", "ckA", "ckB", "buf"}
Parser(u) == DOMAIN u = ParserFields /\ u.state \in 0 .. 8

\* All but its buffer.
SameButBuf(v, u) ==
    /\ DOMAIN v = DOMAIN u
    /\ v.state = u.state /\ v.class = u.class /\ v.id = u.id /\ v.len = u.len
    /\ v.idx = u.idx /\ v.ckA = u.ckA /\ v.ckB = u.ckB

LEMMA StoredIs ==
  ASSUME NEW u, Parser(u), NEW b
  PROVE  SameButBuf(Stored(u, b), u)
<1>1. CASE PvtHeader(u) /\ u.idx < UBX_NAV_PVT_LEN
  <2>1. Stored(u, b) = [u EXCEPT !.buf[u.idx] = b] BY <1>1 DEF Stored
  <2> QED BY <2>1 DEF SameButBuf, Parser, ParserFields
<1>2. CASE ~(PvtHeader(u) /\ u.idx < UBX_NAV_PVT_LEN)
  BY <1>2 DEF Stored, SameButBuf
<1> QED BY <1>1, <1>2

\* What a byte of each part of a frame makes of the parser.
LEMMA SummedIs ==
  ASSUME NEW u, DOMAIN u = ParserFields, NEW b
  PROVE  LET v == Summed(u, b) IN
         /\ DOMAIN v = ParserFields
         /\ v.state = u.state /\ v.class = u.class /\ v.id = u.id /\ v.len = u.len
         /\ v.idx = u.idx
         /\ v.ckA = (u.ckA + b) % BYTE /\ v.ckB = (u.ckB + u.ckA + b) % BYTE
BY DEF Summed, ParserFields

LEMMA InPayloadIs ==
  ASSUME NEW u, Parser(u), NEW b
  PROVE  LET v == InPayload(u, b) IN
         /\ DOMAIN v = ParserFields
         /\ v.state = (IF u.idx + 1 >= u.len THEN 7 ELSE 6)
         /\ v.class = u.class /\ v.id = u.id /\ v.len = u.len /\ v.idx = u.idx + 1
         /\ v.ckA = (u.ckA + b) % BYTE /\ v.ckB = (u.ckB + u.ckA + b) % BYTE
<1> DEFINE w == Stored(u, b)
           s == Summed(w, b)
<1>1. SameButBuf(w, u) BY StoredIs
<1> HIDE DEF w
<1>2. DOMAIN w = ParserFields BY <1>1 DEF SameButBuf, Parser
<1>3. /\ DOMAIN s = ParserFields
      /\ s.class = u.class /\ s.id = u.id /\ s.len = u.len /\ s.idx = u.idx
      /\ s.ckA = (u.ckA + b) % BYTE /\ s.ckB = (u.ckB + u.ckA + b) % BYTE
  BY <1>1, <1>2, SummedIs DEF SameButBuf
<1> HIDE DEF s
<1>4. InPayload(u, b) = [s EXCEPT !.idx = s.idx + 1,
                                  !.state = IF u.idx + 1 >= u.len THEN 7 ELSE 6]
  BY DEF InPayload, s, w
<1> QED BY <1>3, <1>4 DEF ParserFields

LEMMA ResetIs ==
  ASSUME NEW u PROVE Parser(ubxReset(u)) /\ ubxReset(u).state = 0
BY DEF ubxReset, ubxInit, Parser, ParserFields

LEMMA ParserKept == ASSUME NEW u, Parser(u), NEW b PROVE Parser(ubxParseByte(u, b))
<1>0. DOMAIN u = ParserFields /\ u.state \in 0 .. 8 BY DEF Parser
<1>1. CASE u.state = 0 BY <1>0, <1>1 DEF ubxParseByte, Parser, ParserFields
<1>2. CASE u.state = 1
  <2> DEFINE next == IF b = UBX_SYNC2 THEN 2 ELSE 0
  <2>1. ubxParseByte(u, b) = [u EXCEPT !.state = next] BY <1>2 DEF ubxParseByte
  <2>2. next \in 0 .. 8 OBVIOUS
  <2> HIDE DEF next
  <2> QED BY <1>0, <2>1, <2>2 DEF Parser, ParserFields
<1>3. CASE u.state = 2
  <2>1. ubxParseByte(u, b) = [u EXCEPT !.class = b, !.ckA = b, !.ckB = b, !.state = 3]
    BY <1>3 DEF ubxParseByte
  <2> QED BY <1>0, <2>1 DEF Parser, ParserFields
<1>4. CASE u.state \in {3, 4, 5}
  <2> DEFINE s == Summed(u, b)
  <2>1. DOMAIN s = ParserFields BY <1>0, SummedIs
  <2> HIDE DEF s
  <2>2. CASE u.state = 3
    <3>1. ubxParseByte(u, b) = [s EXCEPT !.id = b, !.state = 4]
      BY <2>2 DEF ubxParseByte, s
    <3> QED BY <2>1, <3>1 DEF Parser, ParserFields
  <2>3. CASE u.state = 4
    <3>1. ubxParseByte(u, b) = [s EXCEPT !.len = b, !.state = 5]
      BY <2>3 DEF ubxParseByte, s
    <3> QED BY <2>1, <3>1 DEF Parser, ParserFields
  <2>4. CASE u.state = 5
    <3> DEFINE len == u.len + BYTE * b
    <3>1. ubxParseByte(u, b) =
            [s EXCEPT !.len = len, !.idx = 0, !.state = IF len > 0 THEN 6 ELSE 7]
      BY <2>4 DEF ubxParseByte, s
    <3> HIDE DEF len
    <3> QED BY <2>1, <3>1 DEF Parser, ParserFields
  <2> QED BY <1>4, <2>2, <2>3, <2>4
<1>5. CASE u.state = 6
  <2>1. ubxParseByte(u, b) = InPayload(u, b) BY <1>5 DEF ubxParseByte
  <2> QED BY <2>1, InPayloadIs DEF Parser
<1>6. CASE u.state = 7
  <2>1. ubxParseByte(u, b) = IF b = u.ckA THEN [u EXCEPT !.state = 8] ELSE ubxReset(u)
    BY <1>6 DEF ubxParseByte
  <2> QED BY <1>0, <2>1, ResetIs DEF Parser, ParserFields
<1>7. CASE u.state = 8
  <2>1. ubxParseByte(u, b) = ubxReset(u) BY <1>7 DEF ubxParseByte
  <2> QED BY <2>1, ResetIs
<1> QED BY <1>0, <1>1, <1>2, <1>3, <1>4, <1>5, <1>6, <1>7

LEMMA ChunkKeepsParser ==
  ASSUME NEW u, Parser(u), NEW chunk, Len(chunk) \in Nat
  PROVE  Parser(Parsed(u, chunk).ubx)
<1> DEFINE n == Len(chunk)
<1>1. PICK run : ParserRun(run, u, chunk, n) /\ Parsed(u, chunk) = run[n] BY RunIs
<1> DEFINE T == {k \in Nat : k <= n => Parser(run[k].ubx)}
<1>2. 0 \in T
  <2>1. 0 \in 0 .. n OBVIOUS
  <2>2. run[0] = [ubx |-> u, pvts |-> <<>>] BY <1>1, <2>1 DEF ParserRun
  <2> QED BY <2>2
<1>3. ASSUME NEW k \in Nat, k \in T PROVE k + 1 \in T
  <2>1. SUFFICES ASSUME k + 1 <= n PROVE Parser(run[k + 1].ubx) OBVIOUS
  <2>2. Parser(run[k].ubx) BY <1>3, <2>1
  <2>3. k + 1 \in 0 .. n /\ k + 1 # 0 /\ (k + 1) - 1 = k BY <2>1
  <2>4. run[k + 1].ubx = ubxParseByte(run[k].ubx, chunk[k + 1]) BY <1>1, <2>3 DEF ParserRun
  <2> QED BY <2>2, <2>4, ParserKept
<1>4. Nat \subseteq T
  <2> HIDE DEF T
  <2> QED BY <1>2, <1>3, Induction
<1> QED BY <1>1, <1>4

-----------------------------------------------------------------------------
(* A frame *)

\* One sequence behind another.
InTurn(st, s, t) ==
    /\ st \in Seq(Int) /\ Len(st) = Len(s) + Len(t)
    /\ \A i \in 1 .. Len(s) : st[i] = s[i]
    /\ \A i \in 1 .. Len(t) : st[Len(s) + i] = t[i]

LEMMA JoinedInts ==
  ASSUME NEW s \in Seq(Int), NEW t \in Seq(Int)
  PROVE  InTurn(s \o t, s, t)
<1>1. /\ s \o t \in Seq(Int) /\ Len(s \o t) = Len(s) + Len(t)
      /\ \A i \in 1 .. Len(s) + Len(t) : (s \o t)[i] = IF i <= Len(s) THEN s[i] ELSE t[i - Len(s)]
  BY ConcatProperties
<1>2. Len(s) \in Nat /\ Len(t) \in Nat OBVIOUS
<1> DEFINE st == s \o t
<1> HIDE DEF st
<1>3. \A i \in 1 .. Len(s) : st[i] = s[i] BY <1>1, <1>2 DEF st
<1>4. \A i \in 1 .. Len(t) : st[Len(s) + i] = t[i]
  <2> TAKE i \in 1 .. Len(t)
  <2>1. /\ Len(s) + i \in 1 .. Len(s) + Len(t) /\ ~(Len(s) + i <= Len(s))
        /\ (Len(s) + i) - Len(s) = i
    BY <1>2
  <2> QED BY <1>1, <2>1 DEF st
<1> QED BY <1>1, <1>3, <1>4 DEF st, InTurn

Header(class, id, payload) == <<class, id, Len(payload) % BYTE, Len(payload) \div BYTE>>
Body(class, id, payload) == Header(class, id, payload) \o payload

FrameSays(class, id, payload) ==
    LET f == Frame(class, id, payload)
        body == Body(class, id, payload)
        n == Len(payload)
    IN  /\ body \in Seq(Int) /\ Len(body) = n + 4
        /\ body[1] = class /\ body[2] = id
        /\ body[3] = n % BYTE /\ body[4] = n \div BYTE
        /\ \A i \in 1 .. n : body[4 + i] = payload[i]
        /\ f \in Seq(Int) /\ Len(f) = n + 8
        /\ f[1] = UBX_SYNC1 /\ f[2] = UBX_SYNC2
        /\ \A i \in 1 .. n + 4 : f[2 + i] = body[i]
        /\ f[n + 7] = Checksums(body).a /\ f[n + 8] = Checksums(body).b

LEMMA FrameIs ==
  ASSUME NEW class \in Int, NEW id \in Int, NEW payload \in Seq(Int)
  PROVE  FrameSays(class, id, payload)
<1> DEFINE n == Len(payload)
           header == Header(class, id, payload)
           body == Body(class, id, payload)
           sync == <<UBX_SYNC1, UBX_SYNC2>>
           sums == <<Checksums(body).a, Checksums(body).b>>
           front == sync \o body
           f == Frame(class, id, payload)
<1>0. n \in Nat OBVIOUS
<1>1. n % BYTE \in Int /\ n \div BYTE \in Int BY <1>0 DEF BYTE
<1>2. header \in Seq(Int) /\ Len(header) = 4 /\ header[1] = class /\ header[2] = id
      /\ header[3] = n % BYTE /\ header[4] = n \div BYTE
  BY <1>1 DEF Header
<1> HIDE DEF header
<1>3. body = header \o payload BY DEF Body, header
<1>4. /\ body \in Seq(Int) /\ Len(body) = n + 4
      /\ \A i \in 1 .. 4 : body[i] = header[i]
      /\ \A i \in 1 .. n : body[4 + i] = payload[i]
  <2>1. InTurn(body, header, payload) BY <1>2, <1>3, JoinedInts
  <2> HIDE DEF body
  <2>2. 4 + n = n + 4 BY <1>0
  <2> QED BY <1>0, <1>2, <2>1, <2>2 DEF InTurn
<1>5. f = front \o sums BY DEF Frame, Body, Header
<1> HIDE DEF body, f
<1>6. sync \in Seq(Int) /\ Len(sync) = 2 /\ sync[1] = UBX_SYNC1 /\ sync[2] = UBX_SYNC2
  BY DEF UBX_SYNC1, UBX_SYNC2
<1>7. sums \in Seq(Int) /\ Len(sums) = 2 /\ sums[1] = Checksums(body).a
      /\ sums[2] = Checksums(body).b
  BY <1>4, SumsAre
<1> HIDE DEF sync, sums
<1>8. /\ front \in Seq(Int) /\ Len(front) = n + 6
      /\ \A i \in 1 .. 2 : front[i] = sync[i]
      /\ \A i \in 1 .. n + 4 : front[2 + i] = body[i]
  <2>1. InTurn(front, sync, body) BY <1>4, <1>6, JoinedInts
  <2> HIDE DEF front
  <2>2. 2 + (n + 4) = n + 6 BY <1>0
  <2> QED BY <1>0, <1>4, <1>6, <2>1, <2>2 DEF InTurn
<1> HIDE DEF front
<1>9. /\ f \in Seq(Int) /\ Len(f) = n + 8
      /\ \A i \in 1 .. n + 6 : f[i] = front[i]
      /\ \A i \in 1 .. 2 : f[n + 6 + i] = sums[i]
  <2>1. InTurn(f, front, sums) BY <1>5, <1>7, <1>8, JoinedInts
  <2>2. (n + 6) + 2 = n + 8 BY <1>0
  <2> QED BY <1>0, <1>7, <1>8, <2>1, <2>2 DEF InTurn
<1>10. f[1] = UBX_SYNC1 /\ f[2] = UBX_SYNC2 BY <1>0, <1>6, <1>8, <1>9
<1>11. \A i \in 1 .. n + 4 : f[2 + i] = body[i]
  <2> TAKE i \in 1 .. n + 4
  <2>1. 2 + i \in 1 .. n + 6 BY <1>0
  <2> QED BY <1>8, <1>9, <2>1
<1>12. f[n + 7] = sums[1] /\ f[n + 8] = sums[2]
  <2>1. n + 6 + 1 = n + 7 /\ n + 6 + 2 = n + 8 /\ 1 \in 1 .. 2 /\ 2 \in 1 .. 2 BY <1>0
  <2> QED BY <1>9, <2>1
<1>13. body[1] = class /\ body[2] = id /\ body[3] = n % BYTE /\ body[4] = n \div BYTE
  BY <1>2, <1>4
<1> QED BY <1>4, <1>7, <1>9, <1>10, <1>11, <1>12, <1>13 DEF body, f, FrameSays

Pvt(p) == Frame(UBX_NAV_CLASS, UBX_NAV_PVT_ID, p)
PvtBody(p) == Body(UBX_NAV_CLASS, UBX_NAV_PVT_ID, p)

LEMMA PayloadType ==
  ASSUME NEW p \in Payloads
  PROVE  /\ p \in Seq(Int) /\ Len(p) = UBX_NAV_PVT_LEN
         /\ UBX_NAV_PVT_LEN \in 1 .. 255
<1>1. UBX_NAV_PVT_LEN \in 1 .. 255 BY UbxAssumption DEF UbxAssumption
<1>2. p \in [1 .. UBX_NAV_PVT_LEN -> 0 .. BYTE - 1]
  BY GnssLinkAssumption DEF GnssLinkAssumption
<1>3. p \in [1 .. UBX_NAV_PVT_LEN -> Int]
  <2>1. 0 .. BYTE - 1 \subseteq Int BY DEF BYTE
  <2> QED BY Zenon, <1>2, <2>1
<1>4. UBX_NAV_PVT_LEN \in Nat BY <1>1
<1>5. p \in Seq(Int) BY <1>3, <1>4
<1>6. Len(p) = UBX_NAV_PVT_LEN BY <1>3, <1>4
<1> QED BY <1>1, <1>5, <1>6

\* The bytes of a NAV-PVT frame, and its running checksums.
PvtSays(p) ==
    LET f == Pvt(p)
        s == Sums(PvtBody(p))
        L == UBX_NAV_PVT_LEN
    IN  /\ f \in Seq(Int) /\ Len(f) = L + 8
        /\ f[1] = UBX_SYNC1 /\ f[2] = UBX_SYNC2 /\ f[3] = UBX_NAV_CLASS
        /\ f[4] = UBX_NAV_PVT_ID /\ f[5] = L /\ f[6] = 0
        /\ f[L + 7] = s[L + 4].a /\ f[L + 8] = s[L + 4].b
        /\ s[1].a = UBX_NAV_CLASS % BYTE /\ s[1].b = UBX_NAV_CLASS % BYTE
        /\ \A k \in 2 .. L + 4 :
             /\ s[k].a = (s[k - 1].a + f[k + 2]) % BYTE
             /\ s[k].b = (s[k - 1].b + s[k - 1].a + f[k + 2]) % BYTE

LEMMA PvtIs == ASSUME NEW p \in Payloads PROVE PvtSays(p)
<1> DEFINE f == Pvt(p)
           body == PvtBody(p)
           s == Sums(body)
           L == UBX_NAV_PVT_LEN
<1>0. p \in Seq(Int) /\ Len(p) = L /\ L \in 1 .. 255 BY PayloadType
<1>1. UBX_NAV_CLASS \in Int /\ UBX_NAV_PVT_ID \in Int BY DEF UBX_NAV_CLASS, UBX_NAV_PVT_ID
<1>2. /\ body \in Seq(Int) /\ Len(body) = L + 4
      /\ body[1] = UBX_NAV_CLASS /\ body[2] = UBX_NAV_PVT_ID
      /\ body[3] = L % BYTE /\ body[4] = L \div BYTE
      /\ f \in Seq(Int) /\ Len(f) = L + 8
      /\ f[1] = UBX_SYNC1 /\ f[2] = UBX_SYNC2
      /\ \A i \in 1 .. L + 4 : f[2 + i] = body[i]
      /\ f[L + 7] = Checksums(body).a /\ f[L + 8] = Checksums(body).b
  <2>1. FrameSays(UBX_NAV_CLASS, UBX_NAV_PVT_ID, p) BY <1>0, <1>1, FrameIs
  <2> QED BY <1>0, <2>1 DEF Pvt, PvtBody, FrameSays
<1>3. L % BYTE = L /\ L \div BYTE = 0 BY <1>0 DEF BYTE
<1> HIDE DEF f, body
<1>4. f[3] = UBX_NAV_CLASS /\ f[4] = UBX_NAV_PVT_ID /\ f[5] = L /\ f[6] = 0
  <2>1. \A i \in {1, 2, 3, 4} : i \in 1 .. L + 4 BY <1>0
  <2>2. 2 + 1 = 3 /\ 2 + 2 = 4 /\ 2 + 3 = 5 /\ 2 + 4 = 6 OBVIOUS
  <2>3. f[2 + 1] = body[1] /\ f[2 + 2] = body[2] /\ f[2 + 3] = body[3] /\ f[2 + 4] = body[4]
    BY <1>2, <2>1
  <2> QED BY <1>2, <1>3, <2>2, <2>3
<1>5. Summing(s, body, L + 4) /\ Checksums(body) = s[L + 4] BY <1>2, SumsAre
<1> HIDE DEF s
<1>6. s[0] = [a |-> 0, b |-> 0]
  <2>1. 0 \in 0 .. L + 4 BY <1>0
  <2> QED BY <1>5, <2>1 DEF Summing
<1>7. ASSUME NEW k \in 1 .. L + 4
      PROVE s[k] = [a |-> (s[k - 1].a + f[k + 2]) % BYTE,
                    b |-> (s[k - 1].b + s[k - 1].a + f[k + 2]) % BYTE]
  <2>1. k \in 0 .. L + 4 /\ k # 0 /\ 2 + k = k + 2 OBVIOUS
  <2>2. s[k] = [a |-> (s[k - 1].a + body[k]) % BYTE,
                b |-> (s[k - 1].b + s[k - 1].a + body[k]) % BYTE]
    BY <1>5, <2>1 DEF Summing
  <2>3. f[k + 2] = body[k] BY <1>2, <2>1
  <2> QED BY <2>2, <2>3
<1>8. s[1].a = UBX_NAV_CLASS % BYTE /\ s[1].b = UBX_NAV_CLASS % BYTE
  <2>1. 1 \in 1 .. L + 4 /\ 1 - 1 = 0 /\ 1 + 2 = 3 BY <1>0
  <2>2. s[1] = [a |-> (s[0].a + f[3]) % BYTE, b |-> (s[0].b + s[0].a + f[3]) % BYTE]
    BY <1>7, <2>1
  <2>3. s[0].a = 0 /\ s[0].b = 0 BY <1>6
  <2> QED BY <1>1, <1>4, <2>2, <2>3
<1>9. \A k \in 2 .. L + 4 :
        /\ s[k].a = (s[k - 1].a + f[k + 2]) % BYTE
        /\ s[k].b = (s[k - 1].b + s[k - 1].a + f[k + 2]) % BYTE
  <2> TAKE k \in 2 .. L + 4
  <2>1. k \in 1 .. L + 4 OBVIOUS
  <2>2. s[k] = [a |-> (s[k - 1].a + f[k + 2]) % BYTE,
                b |-> (s[k - 1].b + s[k - 1].a + f[k + 2]) % BYTE]
    BY <1>7, <2>1
  <2> QED BY <2>2
<1>10. f[L + 7] = s[L + 4].a /\ f[L + 8] = s[L + 4].b BY <1>2, <1>5
<1> QED BY <1>2, <1>4, <1>8, <1>9, <1>10 DEF f, s, body, PvtSays

\* The parser behind the first k bytes of p's frame.
Place(k) ==
    IF k <= 6 THEN k
    ELSE IF k < UBX_NAV_PVT_LEN + 6 THEN 6 ELSE k - UBX_NAV_PVT_LEN + 1

InStep(u, p, k) ==
    /\ u.state = Place(k)
    /\ k >= 3 => u.class = UBX_NAV_CLASS
    /\ k >= 4 => u.id = UBX_NAV_PVT_ID
    /\ k >= 5 => u.len = UBX_NAV_PVT_LEN
    /\ 6 <= k /\ k < UBX_NAV_PVT_LEN + 6 => u.idx = k - 6
    /\ 3 <= k /\ k <= UBX_NAV_PVT_LEN + 6 =>
         u.ckA = Sums(PvtBody(p))[k - 2].a /\ u.ckB = Sums(PvtBody(p))[k - 2].b
    /\ k = UBX_NAV_PVT_LEN + 7 => u.ckB = Sums(PvtBody(p))[UBX_NAV_PVT_LEN + 4].b

LEMMA ByteInStep ==
  ASSUME NEW p \in Payloads, NEW u, Parser(u), NEW k \in 0 .. UBX_NAV_PVT_LEN + 6,
         InStep(u, p, k)
  PROVE  /\ InStep(ubxParseByte(u, Pvt(p)[k + 1]), p, k + 1)
         /\ ~endsPvt(u, Pvt(p)[k + 1])
<1> DEFINE f == Pvt(p)
           s == Sums(PvtBody(p))
           L == UBX_NAV_PVT_LEN
           v == ubxParseByte(u, f[k + 1])
<1>0. L \in 1 .. 255 /\ L \in Nat BY PayloadType
<1>p. PvtSays(p) BY PvtIs
<1>1. /\ f[1] = UBX_SYNC1 /\ f[2] = UBX_SYNC2 /\ f[3] = UBX_NAV_CLASS
      /\ f[4] = UBX_NAV_PVT_ID /\ f[5] = L /\ f[6] = 0
      /\ f[L + 7] = s[L + 4].a
      /\ s[1].a = UBX_NAV_CLASS % BYTE /\ s[1].b = UBX_NAV_CLASS % BYTE
  BY <1>p DEF PvtSays
<1>2. \A j \in 2 .. L + 4 :
        /\ s[j].a = (s[j - 1].a + f[j + 2]) % BYTE
        /\ s[j].b = (s[j - 1].b + s[j - 1].a + f[j + 2]) % BYTE
  BY <1>p DEF PvtSays
<1>3. DOMAIN u = ParserFields BY DEF Parser
<1> HIDE DEF f, s
<1>4. ~endsPvt(u, f[k + 1])
  <2>1. Place(k) # 8 BY <1>0 DEF Place
  <2> QED BY <2>1 DEF endsPvt, InStep
<1>5. CASE k = 0
  <2>1. u.state = 0 BY <1>5 DEF InStep, Place
  <2>2. v = [u EXCEPT !.state = 1] BY <1>1, <1>5, <2>1 DEF ubxParseByte
  <2>3. v.state = 1 BY <1>3, <2>2 DEF ParserFields
  <2> QED BY <1>0, <1>4, <1>5, <2>3 DEF InStep, Place, f
<1>6. CASE k = 1
  <2>1. u.state = 1 BY <1>6 DEF InStep, Place
  <2>2. v = [u EXCEPT !.state = 2] BY <1>1, <1>6, <2>1 DEF ubxParseByte
  <2>3. v.state = 2 BY <1>3, <2>2 DEF ParserFields
  <2> QED BY <1>0, <1>4, <1>6, <2>3 DEF InStep, Place, f
<1>7. CASE k = 2
  <2>1. u.state = 2 BY <1>7 DEF InStep, Place
  <2>2. v = [u EXCEPT !.class = UBX_NAV_CLASS, !.ckA = UBX_NAV_CLASS,
                      !.ckB = UBX_NAV_CLASS, !.state = 3]
    <3>1. \A b : ubxParseByte(u, b) = [u EXCEPT !.class = b, !.ckA = b, !.ckB = b, !.state = 3]
      BY <2>1 DEF ubxParseByte
    <3>2. f[k + 1] = UBX_NAV_CLASS BY <1>1, <1>7
    <3> QED BY Zenon, <3>1, <3>2
  <2>3. /\ v.state = 3 /\ v.class = UBX_NAV_CLASS
        /\ v.ckA = UBX_NAV_CLASS /\ v.ckB = UBX_NAV_CLASS
    BY <1>3, <2>2 DEF ParserFields
  <2>4. UBX_NAV_CLASS % BYTE = UBX_NAV_CLASS BY DEF UBX_NAV_CLASS, BYTE
  <2>5. v.ckA = s[1].a /\ v.ckB = s[1].b BY <1>1, <2>3, <2>4
  <2> QED BY <1>0, <1>4, <1>7, <2>3, <2>5 DEF InStep, Place, f, s
<1>8. CASE k \in {3, 4, 5}
  <2> DEFINE t == Summed(u, f[k + 1])
  <2>1. /\ DOMAIN t = ParserFields
        /\ t.class = u.class /\ t.id = u.id /\ t.len = u.len
        /\ t.ckA = (u.ckA + f[k + 1]) % BYTE /\ t.ckB = (u.ckB + u.ckA + f[k + 1]) % BYTE
    BY <1>3, SummedIs
  <2>2. u.ckA = s[k - 2].a /\ u.ckB = s[k - 2].b BY <1>0, <1>8 DEF InStep, s
  <2>3. k - 1 \in 2 .. L + 4 /\ (k - 1) - 1 = k - 2 /\ (k - 1) + 2 = k + 1 BY <1>0, <1>8
  <2>4. t.ckA = s[k - 1].a /\ t.ckB = s[k - 1].b BY <1>2, <2>1, <2>2, <2>3
  <2> HIDE DEF t
  <2>5. CASE k = 3
    <3>1. u.state = 3 /\ u.class = UBX_NAV_CLASS BY <2>5 DEF InStep, Place
    <3>2. v = [t EXCEPT !.id = UBX_NAV_PVT_ID, !.state = 4]
      <4>1. \A b : ubxParseByte(u, b) = [Summed(u, b) EXCEPT !.id = b, !.state = 4]
        BY <3>1 DEF ubxParseByte
      <4>2. f[k + 1] = UBX_NAV_PVT_ID BY <1>1, <2>5
      <4> QED BY Zenon, <4>1, <4>2 DEF t
    <3>3. /\ v.state = 4 /\ v.class = UBX_NAV_CLASS /\ v.id = UBX_NAV_PVT_ID
          /\ v.ckA = s[2].a /\ v.ckB = s[2].b
      BY <2>1, <2>4, <2>5, <3>1, <3>2 DEF ParserFields
    <3> QED BY <1>0, <1>4, <2>5, <3>3 DEF InStep, Place, f, s
  <2>6. CASE k = 4
    <3>1. u.state = 4 /\ u.class = UBX_NAV_CLASS /\ u.id = UBX_NAV_PVT_ID
      BY <2>6 DEF InStep, Place
    <3>2. v = [t EXCEPT !.len = L, !.state = 5]
      <4>1. \A b : ubxParseByte(u, b) = [Summed(u, b) EXCEPT !.len = b, !.state = 5]
        BY <3>1 DEF ubxParseByte
      <4>2. f[k + 1] = L BY <1>1, <2>6
      <4> QED BY Zenon, <4>1, <4>2 DEF t
    <3>3. /\ v.state = 5 /\ v.class = UBX_NAV_CLASS /\ v.id = UBX_NAV_PVT_ID /\ v.len = L
          /\ v.ckA = s[3].a /\ v.ckB = s[3].b
      BY <2>1, <2>4, <2>6, <3>1, <3>2 DEF ParserFields
    <3> QED BY <1>0, <1>4, <2>6, <3>3 DEF InStep, Place, f, s
  <2>7. CASE k = 5
    <3>1. u.state = 5 /\ u.class = UBX_NAV_CLASS /\ u.id = UBX_NAV_PVT_ID /\ u.len = L
      BY <2>7 DEF InStep, Place
    <3>2. L + BYTE * 0 = L /\ L > 0 BY <1>0 DEF BYTE
    <3>3. v = [t EXCEPT !.len = L, !.idx = 0, !.state = 6]
      <4> DEFINE len(b) == u.len + BYTE * b
      <4>1. \A b : ubxParseByte(u, b) =
                     [Summed(u, b) EXCEPT !.len = len(b), !.idx = 0,
                                          !.state = IF len(b) > 0 THEN 6 ELSE 7]
        BY <3>1 DEF ubxParseByte
      <4>2. f[k + 1] = 0 /\ len(0) = L BY <1>1, <2>7, <3>1, <3>2
      <4> HIDE DEF len
      <4>3. (IF L > 0 THEN 6 ELSE 7) = 6 BY <3>2
      <4> QED BY Zenon, <4>1, <4>2, <4>3 DEF t
    <3>4. /\ v.state = 6 /\ v.class = UBX_NAV_CLASS /\ v.id = UBX_NAV_PVT_ID /\ v.len = L
          /\ v.idx = 0 /\ v.ckA = s[4].a /\ v.ckB = s[4].b
      BY <2>1, <2>4, <2>7, <3>1, <3>3 DEF ParserFields
    <3> QED BY <1>0, <1>4, <2>7, <3>4 DEF InStep, Place, f, s
  <2> QED BY <1>8, <2>5, <2>6, <2>7
<1>9. CASE 6 <= k /\ k < L + 6
  <2>1. /\ u.state = 6 /\ u.class = UBX_NAV_CLASS /\ u.id = UBX_NAV_PVT_ID /\ u.len = L
        /\ u.idx = k - 6 /\ u.ckA = s[k - 2].a /\ u.ckB = s[k - 2].b
    BY <1>0, <1>9 DEF InStep, Place, s
  <2>2. v = InPayload(u, f[k + 1]) BY <2>1 DEF ubxParseByte
  <2>3. /\ v.state = (IF (k - 6) + 1 >= L THEN 7 ELSE 6)
        /\ v.class = UBX_NAV_CLASS /\ v.id = UBX_NAV_PVT_ID /\ v.len = L
        /\ v.idx = (k - 6) + 1
        /\ v.ckA = (s[k - 2].a + f[k + 1]) % BYTE
        /\ v.ckB = (s[k - 2].b + s[k - 2].a + f[k + 1]) % BYTE
    BY <2>1, <2>2, InPayloadIs
  <2>4. k - 1 \in 2 .. L + 4 /\ (k - 1) - 1 = k - 2 /\ (k - 1) + 2 = k + 1 BY <1>0, <1>9
  <2>5. v.ckA = s[k - 1].a /\ v.ckB = s[k - 1].b BY <1>2, <2>3, <2>4
  <2>6. v.state = Place(k + 1) BY <1>0, <1>9, <2>3 DEF Place
  <2>7. (k + 1) - 2 = k - 1 /\ (k + 1) - 6 = (k - 6) + 1 /\ k + 1 # L + 7 BY <1>0, <1>9
  <2> HIDE DEF v
  <2>8. InStep(v, p, k + 1) BY <1>0, <1>9, <2>3, <2>5, <2>6, <2>7 DEF InStep, s
  <2> QED BY <1>4, <2>8 DEF f, v
<1>10. CASE k = L + 6
  <2>1. /\ u.state = 7 /\ u.class = UBX_NAV_CLASS /\ u.id = UBX_NAV_PVT_ID /\ u.len = L
        /\ u.ckA = s[L + 4].a /\ u.ckB = s[L + 4].b
    <3>1. Place(k) = 7 /\ k - 2 = L + 4 BY <1>0, <1>10 DEF Place
    <3>2. /\ k >= 3 /\ k >= 4 /\ k >= 5 /\ k <= L + 6 BY <1>0, <1>10
    <3>3. u.ckA = s[k - 2].a /\ u.ckB = s[k - 2].b BY <3>2 DEF InStep, s
    <3>4. u.class = UBX_NAV_CLASS /\ u.id = UBX_NAV_PVT_ID /\ u.len = L BY <3>2 DEF InStep
    <3>5. u.state = 7 BY <3>1 DEF InStep
    <3>6. u.ckA = s[L + 4].a /\ u.ckB = s[L + 4].b BY Zenon, <3>1, <3>3
    <3> QED BY Zenon, <3>4, <3>5, <3>6
  <2>2. k + 1 = L + 7 BY <1>0, <1>10
  <2>3. f[k + 1] = u.ckA BY <1>1, <2>1, <2>2
  <2>4. v = [u EXCEPT !.state = 8] BY <2>1, <2>3 DEF ubxParseByte
  <2>5. /\ v.state = 8 /\ v.class = UBX_NAV_CLASS /\ v.id = UBX_NAV_PVT_ID /\ v.len = L
        /\ v.ckB = s[L + 4].b
    BY <1>3, <2>1, <2>4 DEF ParserFields
  <2>6. Place(k + 1) = 8 BY <1>0, <1>10 DEF Place
  <2> HIDE DEF v
  <2>7. ~(k + 1 <= L + 6) /\ ~(k + 1 < L + 6) BY <1>0, <1>10
  <2>8. InStep(v, p, k + 1) BY <2>2, <2>5, <2>6, <2>7 DEF InStep, s
  <2> QED BY <1>4, <2>8 DEF f, v
<1>11. k \in {0, 1, 2} \/ k \in {3, 4, 5} \/ (6 <= k /\ k < L + 6) \/ k = L + 6 BY <1>0
<1> QED BY <1>5, <1>6, <1>7, <1>8, <1>9, <1>10, <1>11

\* The last byte makes it a PVT.
LEMMA LastByte ==
  ASSUME NEW p \in Payloads, NEW u, InStep(u, p, UBX_NAV_PVT_LEN + 7)
  PROVE  endsPvt(u, Pvt(p)[UBX_NAV_PVT_LEN + 8])
<1> DEFINE L == UBX_NAV_PVT_LEN
           k == L + 7
<1>0. L \in 1 .. 255 BY PayloadType
<1>1. Place(k) = 8 BY <1>0 DEF Place
<1>2. k >= 3 /\ k >= 4 /\ k >= 5 BY <1>0
<1>3. u.state = 8 BY <1>1 DEF InStep
<1>4. u.class = UBX_NAV_CLASS /\ u.id = UBX_NAV_PVT_ID /\ u.len = L BY <1>2 DEF InStep
<1>5. u.ckB = Sums(PvtBody(p))[L + 4].b BY DEF InStep
<1>6. PvtSays(p) BY PvtIs
<1>7. Pvt(p)[L + 8] = Sums(PvtBody(p))[L + 4].b BY <1>6 DEF PvtSays
<1> QED BY <1>3, <1>4, <1>5, <1>7 DEF endsPvt, PvtHeader

\* The next n bytes of the frame, in one chunk.
LEMMA ChunkInStep ==
  ASSUME NEW p \in Payloads, NEW u, Parser(u), NEW k \in 0 .. UBX_NAV_PVT_LEN + 7,
         InStep(u, p, k), NEW chunk, Len(chunk) \in Nat,
         k + Len(chunk) <= UBX_NAV_PVT_LEN + 8,
         \A j \in 1 .. Len(chunk) : chunk[j] = Pvt(p)[k + j]
  PROVE  Parsed(u, chunk).pvts = <<>> =>
           /\ k + Len(chunk) <= UBX_NAV_PVT_LEN + 7
           /\ InStep(Parsed(u, chunk).ubx, p, k + Len(chunk))
<1> DEFINE n == Len(chunk)
           L == UBX_NAV_PVT_LEN
<1>0. L \in 1 .. 255 /\ n \in Nat /\ k \in Nat /\ k + n <= L + 8 BY PayloadType
<1>1. PICK run : ParserRun(run, u, chunk, n) /\ Parsed(u, chunk) = run[n] BY RunIs
<1> DEFINE Whole(j) == run[j].pvts # <<>>
           Sofar(j) == /\ run[j].pvts = <<>> /\ Parser(run[j].ubx)
                           /\ InStep(run[j].ubx, p, k + j)
           T == {j \in Nat : j <= n => IF k + j = L + 8 THEN Whole(j) ELSE Sofar(j)}
<1>2. 0 \in T
  <2>1. 0 \in 0 .. n /\ k + 0 = k /\ k # L + 8 BY <1>0
  <2>2. run[0] = [ubx |-> u, pvts |-> <<>>] BY <1>1, <2>1 DEF ParserRun
  <2> QED BY <2>1, <2>2
<1>3. ASSUME NEW j \in Nat, j \in T PROVE j + 1 \in T
  <2>1. SUFFICES ASSUME j + 1 <= n
                 PROVE  IF k + (j + 1) = L + 8 THEN Whole(j + 1) ELSE Sofar(j + 1)
    OBVIOUS
  <2> DEFINE b == Pvt(p)[k + j + 1]
             v == run[j].ubx
  <2>2. k + j # L + 8 /\ k + j \in 0 .. L + 7 BY <1>0, <2>1
  <2>3. run[j].pvts = <<>> /\ Parser(v) /\ InStep(v, p, k + j) BY <1>0, <1>3, <2>1, <2>2
  <2>4. j + 1 \in 0 .. n /\ j + 1 # 0 /\ (j + 1) - 1 = j /\ j + 1 \in 1 .. n BY <1>0, <2>1
  <2>5. chunk[j + 1] = b
    <3>1. k + (j + 1) = k + j + 1 BY <1>0
    <3> QED BY <2>4, <3>1
  <2>6. /\ run[j + 1].ubx = ubxParseByte(v, b)
        /\ run[j + 1].pvts = IF endsPvt(v, b) THEN Append(run[j].pvts, v.buf) ELSE run[j].pvts
    <3>1. run[j + 1] = [ubx |-> ubxParseByte(v, chunk[j + 1]),
                        pvts |-> IF endsPvt(v, chunk[j + 1])
                                 THEN Append(run[j].pvts, v.buf) ELSE run[j].pvts]
      BY <1>1, <2>4 DEF ParserRun
    <3> QED BY <2>5, <3>1
  <2>7. CASE k + j = L + 7
    <3>1. k + j + 1 = L + 8 /\ k + (j + 1) = L + 8 BY <1>0, <2>7
    <3>2. endsPvt(v, b) BY <2>3, <2>7, <3>1, LastByte
    <3>3. run[j + 1].pvts = Append(<<>>, v.buf) BY <2>3, <2>6, <3>2
    <3>4. Append(<<>>, v.buf) # <<>> BY AppendProperties, EmptySeq
    <3> QED BY <3>1, <3>3, <3>4
  <2>8. CASE k + j # L + 7
    <3>1. k + j \in 0 .. L + 6 /\ k + (j + 1) # L + 8 /\ k + (j + 1) = k + j + 1
      BY <1>0, <2>2, <2>8
    <3> HIDE DEF v
    <3>2. InStep(ubxParseByte(v, Pvt(p)[k + j + 1]), p, k + j + 1) /\ ~endsPvt(v, b)
      BY <2>3, <3>1, ByteInStep
    <3>3. Parser(ubxParseByte(v, b)) BY <2>3, ParserKept
    <3> HIDE DEF b
    <3>4. Parser(run[j + 1].ubx) BY <2>6, <3>3
    <3>5. InStep(run[j + 1].ubx, p, k + (j + 1)) BY <2>6, <3>1, <3>2 DEF b
    <3>6. run[j + 1].pvts = <<>> BY <2>3, <2>6, <3>2
    <3> QED BY <3>1, <3>4, <3>5, <3>6
  <2> QED BY <2>7, <2>8
<1>4. Nat \subseteq T
  <2> HIDE DEF T
  <2> QED BY <1>2, <1>3, Induction
<1>5. IF k + n = L + 8 THEN Whole(n) ELSE Sofar(n) BY <1>0, <1>4
<1>6. k + n # L + 8 => k + n <= L + 7 BY <1>0
<1> QED BY Zenon, <1>1, <1>5, <1>6

-----------------------------------------------------------------------------
(***************************************************************************)
(* Back in step.  No more frames are missed than seconds pass on the       *)
(* watchdog's clock (Behind), until the watchdog restarts that clock.  It  *)
(* resets the parser too, so from there on the parser stands at the start  *)
(* of a frame (NextInStep) or where the part of a frame read so far leaves *)
(* it (FrameInStep), and the frame ends a PVT.                             *)
(***************************************************************************)
Behind == seen.missed <= gps.age

\* A receiver that is silent stays so until the watchdog comes again.
NextInStep ==
    /\ pc = "run" /\ ubx.state = 0 /\ i2c = <<>>
    /\ seen.missed <= PVT_WATCHDOG + 1
    /\ gps.age = 0 \/ "pvt" \notin receiver.ram

Rest(p, k) == SubSeq(Pvt(p), k + 1, UBX_NAV_PVT_LEN + 8)

FrameInStep ==
    /\ pc = "run" /\ ~watchdogDue(gps) /\ seen.missed <= PVT_WATCHDOG + 2
    /\ \E p \in Payloads, k \in 0 .. UBX_NAV_PVT_LEN + 7 :
         InStep(ubx, p, k) /\ i2c = Rest(p, k)

\* The watchdog is only ever due before the first byte of a frame is read.
FrameUnread ==
    pc = "run" /\ watchdogDue(gps) =>
        seen.missed = 0 \/ i2c = <<>> \/ \E p \in Payloads : i2c = Rest(p, 0)

\* What BBR holds is in RAM as well: a restart brings back no output of NAV-PVT.
CopyInRam == pc # "off" => receiver.bbr \subseteq receiver.ram

StepType ==
    /\ gps \in Gps /\ seen.missed \in Nat /\ Parser(ubx) /\ i2c \in Seq(Int)
    /\ pc # "run" => seen.missed = 0

StepInv ==
    /\ StepType /\ CopyInRam /\ FrameUnread
    /\ gps.stamped => Behind \/ NextInStep \/ FrameInStep

LEMMA InitStep == Init => StepInv
<1> SUFFICES ASSUME Init PROVE StepInv OBVIOUS
<1>1. gps = GPSManager_init /\ ubx = ubxInit /\ i2c = <<>> /\ seen = Unseen /\ pc = "boot"
      /\ receiver.ram = receiver.bbr
  BY DEF Init
<1>2. gps \in Gps /\ ~gps.stamped
  BY <1>1, GpsManagerAssumption DEF GpsManagerAssumption, Gps, GPSManager_init
<1>3. Parser(ubx) BY <1>1 DEF Parser, ParserFields, ubxInit
<1>4. seen.missed = 0 BY <1>1 DEF Unseen
<1>5. i2c \in Seq(Int) BY <1>1
<1> QED BY <1>1, <1>2, <1>3, <1>4, <1>5 DEF StepInv, StepType, CopyInRam, FrameUnread

\* The clock of the watchdog.
LEMMA GpsOps ==
  ASSUME NEW g \in Gps
  PROVE  /\ stamp(g) \in Gps /\ stamp(g).stamped /\ stamp(g).age = 0
         /\ processPVT(g, TRUE) \in Gps
         /\ answered(g) \in Gps /\ answered(g).stamped = g.stamped /\ answered(g).age = g.age
         /\ GpsElapse(g, PVT_WATCHDOG + 1) \in Gps
         /\ GpsElapse(g, 1) \in Gps /\ GpsElapse(g, 1).stamped = g.stamped
         /\ g.stamped /\ ~watchdogDue(g) => GpsElapse(g, 1).age = g.age + 1
<1>1. PVT_WATCHDOG \in Nat \ {0} /\ I2C_FAIL_RECOVERY \in Nat \ {0}
  BY GpsManagerAssumption DEF GpsManagerAssumption
<1>2. /\ g.valid \in BOOLEAN /\ g.stamped \in BOOLEAN /\ g.age \in 0 .. PVT_WATCHDOG + 1
      /\ g.fails \in 0 .. I2C_FAIL_RECOVERY - 1
      /\ DOMAIN g = {"valid", "stamped", "age", "fails"}
  BY DEF Gps
<1>a. 0 \in 0 .. PVT_WATCHDOG + 1 /\ 0 \in 0 .. I2C_FAIL_RECOVERY - 1 BY <1>1
<1>3. stamp(g) \in Gps /\ stamp(g).stamped /\ stamp(g).age = 0
  <2>1. stamp(g).stamped /\ stamp(g).age = 0 BY <1>2 DEF stamp
  <2>2. stamp(g).valid = g.valid /\ stamp(g).fails = g.fails BY <1>2 DEF stamp
  <2>3. stamp(g) \in Gps
    <3>1. ASSUME NEW h \in Gps
          PROVE [h EXCEPT !.stamped = TRUE] \in Gps /\ [h EXCEPT !.age = 0] \in Gps
      BY <1>a DEF Gps
    <3>2. stamp(g) = [[g EXCEPT !.stamped = TRUE] EXCEPT !.age = 0] BY DEF stamp
    <3> QED BY <3>1, <3>2
  <2> QED BY <2>1, <2>3
<1>4. ASSUME NEW h \in Gps PROVE [h EXCEPT !.valid = TRUE, !.fails = 0] \in Gps
  BY <1>a DEF Gps
<1>5. processPVT(g, TRUE) \in Gps BY <1>3, <1>4 DEF processPVT
<1>6. answered(g) \in Gps /\ answered(g).stamped = g.stamped /\ answered(g).age = g.age
  BY <1>1 DEF Gps, answered
<1>7. ASSUME NEW d \in Nat
      PROVE  /\ GpsElapse(g, d) \in Gps /\ GpsElapse(g, d).stamped = g.stamped
             /\ g.stamped /\ g.age + d <= PVT_WATCHDOG + 1 => GpsElapse(g, d).age = g.age + d
  <2> DEFINE a == IF ~g.stamped THEN 0
                  ELSE IF g.age + d > PVT_WATCHDOG THEN PVT_WATCHDOG + 1 ELSE g.age + d
  <2>1. a \in 0 .. PVT_WATCHDOG + 1 BY <1>1, <1>2
  <2>2. g.stamped /\ g.age + d <= PVT_WATCHDOG + 1 => a = g.age + d BY <1>1, <1>2
  <2>3. GpsElapse(g, d) = [g EXCEPT !.age = a] BY DEF GpsElapse
  <2> HIDE DEF a
  <2> QED BY <2>1, <2>2, <2>3 DEF Gps
<1>8. g.stamped /\ ~watchdogDue(g) => g.age + 1 <= PVT_WATCHDOG + 1
  BY <1>1, <1>2 DEF watchdogDue
<1>9. PVT_WATCHDOG + 1 \in Nat /\ 1 \in Nat BY <1>1
<1>10. GpsElapse(g, PVT_WATCHDOG + 1) \in Gps BY <1>7, <1>9
<1>11. /\ GpsElapse(g, 1) \in Gps /\ GpsElapse(g, 1).stamped = g.stamped
       /\ g.stamped /\ ~watchdogDue(g) => GpsElapse(g, 1).age = g.age + 1
  BY <1>7, <1>8, <1>9
<1> QED BY <1>3, <1>5, <1>6, <1>10, <1>11

LEMMA CopyKept == LinkInv /\ CopyInRam /\ [Next]_vars => CopyInRam'
<1> SUFFICES ASSUME LinkInv, CopyInRam, [Next]_vars PROVE CopyInRam' OBVIOUS
<1>0. receiver \in Receivers BY DEF LinkInv, LinkType
<1>1. /\ \A r \in Receivers : Powered(r).bbr = Powered(r).ram
      /\ Unpowered(receiver) \in Receivers
  BY <1>0, UnpoweredIs DEF Powered, Receivers
<1>2. ASSUME NEW item, receiver.bbr \subseteq receiver.ram
      PROVE  Configured(receiver, item).bbr \subseteq Configured(receiver, item).ram
  <2>1. /\ Configured(receiver, item).ram = receiver.ram \cup {item}
        /\ Configured(receiver, item).bbr = receiver.bbr
    BY <1>0 DEF Configured, Receivers
  <2> QED BY <1>2, <2>1
<1>3. [receiver EXCEPT !.bbr = receiver.ram].bbr = [receiver EXCEPT !.bbr = receiver.ram].ram
  BY <1>0 DEF Receivers
<1>4. CASE receiver' = receiver /\ (pc = "off" => pc' = "off") BY <1>4 DEF CopyInRam
<1>5. CASE Begin \/ BeginFails \/ Done \/ UNCHANGED vars
  <2>1. CASE Begin BY <1>4, <2>1 DEF Begin
  <2>2. CASE BeginFails BY <1>4, <2>2 DEF BeginFails, Commanding
  <2>3. CASE Done BY <1>4, <2>3 DEF Done
  <2>4. CASE UNCHANGED vars BY <1>4, <2>4 DEF vars, firmware
  <2> QED BY <1>5, <2>1, <2>2, <2>3, <2>4
<1>6. ASSUME NEW ok \in BOOLEAN, Command(ok) PROVE CopyInRam'
  <2>1. pc # "off" /\ receiver.bbr \subseteq receiver.ram
    BY <1>6 DEF Command, Ask, SetItem, EnsureItem, Save, SaveChanged, Commanding, CopyInRam
  <2>2. \/ receiver' = receiver \/ \E item : receiver' = Configured(receiver, item)
        \/ receiver' = [receiver EXCEPT !.bbr = receiver.ram]
    BY <1>6 DEF Command, Ask, SetItem, EnsureItem, Save, SaveChanged, saveConfiguration
  <2> QED BY <1>2, <1>3, <2>1, <2>2 DEF CopyInRam
<1>7. CASE Update \/ Silent \/ Chatter
           \/ \E p \in Payloads : Speak(p) \/ \E i \in 1 .. FrameLength : Garble(p, i)
  BY <1>4, <1>7 DEF Update, Running, Silent, Chatter, Speak, Garble, Tick
<1>8. CASE \E begun, set \in BOOLEAN : Watchdog(begun, set)
  <2>1. pc # "off" /\ (receiver' = receiver \/ receiver' = Configured(receiver, "pvt"))
    BY <1>8 DEF Watchdog, Running
  <2> QED BY <1>2, <2>1 DEF CopyInRam
<1>9. CASE Session BY <1>9 DEF Session, CopyInRam
<1>10. CASE Reinit \/ Boot
  <2>1. receiver' = Powered(receiver) \/ receiver' = Powered(Unpowered(receiver))
    BY <1>10 DEF Reinit, Boot
  <2>2. receiver'.bbr = receiver'.ram BY <1>0, <1>1, <2>1
  <2> QED BY <2>2 DEF CopyInRam
<1>11. CASE ReceiverRestarts
  <2>1. receiver' = Restarted(receiver) BY <1>11 DEF ReceiverRestarts
  <2>2. Restarted(receiver).bbr \subseteq Restarted(receiver).ram
    BY <1>0 DEF Restarted, Receivers
  <2> QED BY <2>1, <2>2 DEF CopyInRam
<1>12. CASE Acquire
  <2>1. receiver' = [receiver EXCEPT !.ephemeris = TRUE] /\ pc' = pc BY <1>12 DEF Acquire, firmware
  <2>2. receiver'.bbr = receiver.bbr /\ receiver'.ram = receiver.ram
    BY <1>0, <2>1 DEF Receivers
  <2> QED BY <2>1, <2>2 DEF CopyInRam
<1> QED BY <1>5, <1>6, <1>7, <1>8, <1>9, <1>10, <1>11, <1>12 DEF Next

\* With no frame missed there is nothing to be late for.
LEMMA NoneMissed ==
  ASSUME StepType', CopyInRam', seen'.missed = 0
  PROVE  StepInv'
<1>1. gps'.age \in Nat BY DEF StepType, Gps
<1> QED BY <1>1 DEF StepInv, FrameUnread, Behind

LEMMA FrameInts ==
  /\ \A p \in Payloads : Pvt(p) \in Seq(Int) /\ Len(Pvt(p)) = FrameLength
  /\ Acknowledgement \in Seq(Int)
<1>1. ASSUME NEW p \in Payloads PROVE Pvt(p) \in Seq(Int) /\ Len(Pvt(p)) = FrameLength
  <2>1. PvtSays(p) BY PvtIs
  <2> QED BY <2>1 DEF PvtSays, FrameLength
<1>2. Acknowledgement \in Seq(Int)
  <2> DEFINE q == <<UBX_NAV_CLASS, UBX_NAV_PVT_ID, 1>>
  <2>1. q \in Seq(Int) BY DEF UBX_NAV_CLASS, UBX_NAV_PVT_ID
  <2> HIDE DEF q
  <2>2. FrameSays(5, 1, q) BY <2>1, FrameIs
  <2> QED BY <2>2 DEF FrameSays, Acknowledgement, q
<1> QED BY <1>1, <1>2

\* The frame from its first byte on.
LEMMA RestIs ==
  ASSUME NEW p \in Payloads, NEW k \in 0 .. UBX_NAV_PVT_LEN + 7
  PROVE  /\ Rest(p, k) \in Seq(Int) /\ Len(Rest(p, k)) = UBX_NAV_PVT_LEN + 8 - k
         /\ \A i \in 1 .. UBX_NAV_PVT_LEN + 8 - k : Rest(p, k)[i] = Pvt(p)[k + i]
         /\ Rest(p, 0) = Pvt(p)
<1> DEFINE L == UBX_NAV_PVT_LEN
<1>0. L \in 1 .. 255 /\ k \in Nat /\ k <= L + 7 BY PayloadType
<1>1. Pvt(p) \in Seq(Int) /\ Len(Pvt(p)) = L + 8 BY FrameInts DEF FrameLength
<1>2. \A i \in k + 1 .. L + 8 : Pvt(p)[i] \in Int
  <2> TAKE i \in k + 1 .. L + 8
  <2>1. i \in 1 .. Len(Pvt(p)) BY <1>0, <1>1
  <2> QED BY <1>1, <2>1, ElementOfSeq
<1>3. k + 1 \in Int /\ L + 8 \in Int /\ k + 1 <= L + 8 /\ (L + 8) - (k + 1) + 1 = L + 8 - k
  BY <1>0
<1>4. /\ Rest(p, k) \in Seq(Int)
      /\ Len(Rest(p, k)) = (L + 8) - (k + 1) + 1
      /\ \A i \in 1 .. (L + 8) - (k + 1) + 1 : Rest(p, k)[i] = Pvt(p)[(k + 1) + i - 1]
  BY <1>2, <1>3, SubSeqProperties DEF Rest
<1>5. \A i \in 1 .. L + 8 - k : Rest(p, k)[i] = Pvt(p)[k + i]
  <2> TAKE i \in 1 .. L + 8 - k
  <2>1. (k + 1) + i - 1 = k + i BY <1>0
  <2> QED BY <1>3, <1>4, <2>1
<1>6. Rest(p, 0) = Pvt(p)
  <2>1. 0 + 1 = 1 OBVIOUS
  <2> QED BY <1>1, <2>1, SubSeqFull DEF Rest
<1> QED BY <1>3, <1>4, <1>5, <1>6

\* Outside run no frame is missed.
LEMMA CommandsStep ==
  ASSUME LinkInv, StepInv, CopyInRam',
         \/ Begin \/ BeginFails \/ Done \/ Session \/ Reinit \/ Boot
         \/ \E ok \in BOOLEAN : Command(ok)
  PROVE  StepInv'
<1>0. /\ gps \in Gps /\ seen.missed \in Nat /\ Parser(ubx) /\ i2c \in Seq(Int)
      /\ DOMAIN seen = SeenFields /\ <<>> \in Seq(Int)
      /\ pc # "run" => seen.missed = 0
  BY SeenIs DEF StepInv, StepType, LinkInv, LinkType
<1>1. CASE Begin \/ BeginFails \/ Done \/ \E ok \in BOOLEAN : Command(ok)
  <2>1. pc # "run" /\ ubx' = ubx /\ i2c' = i2c
    <3>1. CASE Begin BY <3>1 DEF Begin, Commanding
    <3>2. CASE BeginFails BY <3>2 DEF BeginFails, Commanding
    <3>3. CASE Done BY <3>3 DEF Done
    <3>4. CASE \E ok \in BOOLEAN : Command(ok)
      BY <3>4 DEF Command, Ask, SetItem, EnsureItem, Save, SaveChanged, Commanding
    <3> QED BY <1>1, <3>1, <3>2, <3>3, <3>4
  <2>2. gps' = gps \/ gps' = stamp(gps)
    BY <1>1 DEF Begin, BeginFails, Done, Command, Ask, SetItem, EnsureItem, Save, SaveChanged,
                reinit
  <2>3. gps' \in Gps BY <1>0, <2>2, GpsOps
  <2>4. seen'.missed = seen.missed
    <3>1. \/ seen' = seen
          \/ \E ok \in BOOLEAN : Answer(ok)
          \/ \E b : seen' = [seen EXCEPT !.stored = b]
      BY <1>1 DEF Begin, BeginFails, Done, Command, Ask, SetItem, EnsureItem, Save, SaveChanged
    <3>2. ASSUME NEW ok \in BOOLEAN, Answer(ok) PROVE seen'.missed = seen.missed
      BY <1>0, <3>2 DEF Answer, Counted, SeenFields
    <3> QED BY <1>0, <3>1, <3>2 DEF SeenFields
  <2>5. seen'.missed = 0 BY <1>0, <2>1, <2>4
  <2>6. StepType' BY <1>0, <2>1, <2>3, <2>5 DEF StepType
  <2> QED BY <2>5, <2>6, NoneMissed
<1>2. CASE Session
  <2>1. gps' = gps /\ ubx' = ubx /\ i2c' = <<>> BY <1>2 DEF Session
  <2>2. seen'.missed = 0 BY <1>0, <1>2 DEF Session, Counted, SeenFields
  <2>3. StepType' BY <1>0, <2>1, <2>2 DEF StepType
  <2> QED BY <2>2, <2>3, NoneMissed
<1>3. CASE Reinit
  <2>1. pc = "off" /\ gps' = GpsElapse(gps, PVT_WATCHDOG + 1) /\ ubx' = ubx /\ i2c' = i2c
        /\ seen' = [seen EXCEPT !.lost = FALSE]
    BY <1>3 DEF Reinit
  <2>2. seen'.missed = 0 BY <1>0, <2>1 DEF SeenFields
  <2>3. gps' \in Gps BY <1>0, <2>1, GpsOps
  <2>4. StepType' BY <1>0, <2>1, <2>2, <2>3 DEF StepType
  <2> QED BY <2>2, <2>4, NoneMissed
<1>4. CASE Boot
  <2>1. gps' = GPSManager_init /\ ubx' = ubxInit /\ i2c' = <<>> BY <1>4 DEF Boot
  <2>2. seen'.missed = 0 BY <1>4 DEF Boot, Unseen
  <2>3. gps' \in Gps
    BY <2>1, GpsManagerAssumption DEF GpsManagerAssumption, Gps, GPSManager_init
  <2>4. Parser(ubx)' BY <2>1 DEF Parser, ParserFields, ubxInit
  <2>5. StepType' BY <1>0, <2>1, <2>2, <2>3, <2>4 DEF StepType
  <2> QED BY <2>2, <2>5, NoneMissed
<1> QED BY <1>1, <1>2, <1>3, <1>4

\* A second passes.
LEMMA TickStep ==
  ASSUME LinkInv, StepInv, CopyInRam',
         \/ Silent \/ Chatter
         \/ \E p \in Payloads : Speak(p) \/ \E i \in 1 .. FrameLength : Garble(p, i)
  PROVE  StepInv'
<1>0. /\ gps \in Gps /\ seen.missed \in Nat /\ Parser(ubx) /\ DOMAIN seen = SeenFields
      /\ PVT_WATCHDOG \in Nat \ {0}
      /\ gps.stamped => Behind \/ NextInStep \/ FrameInStep
  BY SeenIs, GpsManagerAssumption
  DEF GpsManagerAssumption, StepInv, StepType, LinkInv, LinkType
<1>1. Tick BY DEF Silent, Chatter, Speak, Garble
<1>2. /\ pc = "run" /\ pc' = "run" /\ i2c = <<>> /\ ~watchdogDue(gps)
      /\ gps' = GpsElapse(gps, 1) /\ ubx' = ubx /\ receiver' = receiver
  BY <1>1 DEF Tick
<1>3. /\ gps' \in Gps /\ gps'.stamped = gps.stamped
      /\ gps.stamped => gps'.age = gps.age + 1
  BY <1>0, <1>2, GpsOps
<1>4. gps.age \in Nat /\ gps'.age \in Nat BY <1>0, <1>3 DEF Gps
<1>5. ~FrameInStep
  <2>1. SUFFICES ASSUME FrameInStep PROVE FALSE OBVIOUS
  <2>2. PICK p \in Payloads, k \in 0 .. UBX_NAV_PVT_LEN + 7 : i2c = Rest(p, k)
    BY <2>1 DEF FrameInStep
  <2>3. Len(i2c) = UBX_NAV_PVT_LEN + 8 - k BY <2>2, RestIs
  <2>4. Len(i2c) = 0 BY <1>2
  <2>5. UBX_NAV_PVT_LEN \in Nat BY <2>2, PayloadType
  <2> QED BY <2>3, <2>4, <2>5
<1>6. CASE Silent
  <2>1. i2c' = <<>> /\ seen' = seen /\ "pvt" \notin receiver.ram BY <1>2, <1>6 DEF Silent
  <2>2. StepType'
    <3>1. i2c' \in Seq(Int) BY <2>1
    <3> QED BY <1>0, <1>2, <1>3, <2>1, <3>1 DEF StepType
  <2>3. FrameUnread' BY <2>1 DEF FrameUnread
  <2>4. ASSUME gps'.stamped PROVE Behind' \/ NextInStep'
    <3>1. CASE Behind BY <1>0, <1>3, <1>4, <2>1, <2>4, <3>1 DEF Behind
    <3>2. CASE NextInStep BY <1>2, <2>1, <3>2 DEF NextInStep
    <3> QED BY <1>0, <1>3, <1>5, <2>4, <3>1, <3>2
  <2> QED BY <2>2, <2>3, <2>4 DEF StepInv
<1>7. CASE Chatter
  <2>1. i2c' = Acknowledgement /\ seen'.missed = 0 BY <1>0, <1>7 DEF Chatter, SeenFields
  <2>2. StepType' BY <1>0, <1>2, <1>3, <2>1, FrameInts DEF StepType
  <2> QED BY <2>1, <2>2, NoneMissed
<1>8. ASSUME NEW p \in Payloads, NEW i \in 1 .. FrameLength, Garble(p, i) PROVE StepInv'
  <2>1. i2c' = [Pvt(p) EXCEPT ![i] = NOISE] BY <1>8 DEF Garble, Pvt
  <2>2. seen'.missed = 0 BY <1>0, <1>8 DEF Garble, Counted, SeenFields
  <2>3. i2c' \in Seq(Int)
    <3>1. NOISE \in Int BY GnssLinkAssumption DEF GnssLinkAssumption, BYTE
    <3>2. Pvt(p) \in Seq(Int) /\ i \in 1 .. Len(Pvt(p)) BY FrameInts
    <3> QED BY <2>1, <3>1, <3>2
  <2>4. StepType' BY <1>0, <1>2, <1>3, <2>2, <2>3 DEF StepType
  <2> QED BY <2>2, <2>4, NoneMissed
<1>9. ASSUME NEW p \in Payloads, Speak(p) PROVE StepInv'
  <2>1. /\ i2c' = Pvt(p) /\ "pvt" \in receiver.ram
        /\ seen'.missed = IF seen.missed > PVT_WATCHDOG + 2 THEN seen.missed
                          ELSE seen.missed + 1
    BY <1>0, <1>9 DEF Speak, Pvt, SeenFields
  <2>2. i2c' = Rest(p, 0) BY <2>1, RestIs, PayloadType
  <2>3. seen'.missed \in Nat /\ seen'.missed <= seen.missed + 1 BY <1>0, <2>1
  <2>4. StepType' BY <1>0, <1>2, <1>3, <2>1, <2>3, FrameInts DEF StepType
  <2>5. FrameUnread' BY <2>2 DEF FrameUnread
  <2>6. ASSUME gps'.stamped PROVE Behind' \/ FrameInStep'
    <3>1. CASE Behind BY <1>0, <1>3, <1>4, <2>3, <2>6, <3>1 DEF Behind
    <3>2. CASE NextInStep
      <4>1. gps.age = 0 /\ ubx.state = 0 /\ seen.missed <= PVT_WATCHDOG + 1
        BY <2>1, <3>2 DEF NextInStep
      <4>2. gps'.age = 1 BY <1>3, <2>6, <4>1
      <4>3. ~watchdogDue(gps') BY <1>0, <4>2 DEF watchdogDue
      <4>4. 0 \in 0 .. UBX_NAV_PVT_LEN + 7 /\ UBX_NAV_PVT_LEN \in 1 .. 255 BY PayloadType
      <4>5. InStep(ubx', p, 0) BY <1>2, <4>1, <4>4 DEF InStep, Place
      <4>6. seen'.missed <= PVT_WATCHDOG + 2 BY <1>0, <2>3, <4>1
      <4> QED BY <1>2, <2>2, <4>3, <4>4, <4>5, <4>6 DEF FrameInStep
    <3> QED BY <1>0, <1>3, <1>5, <2>6, <3>1, <3>2
  <2> QED BY <2>4, <2>5, <2>6 DEF StepInv
<1> QED BY <1>6, <1>7, <1>8, <1>9

\* The watchdog: one second less than the bound, and the parser in step.
LEMMA WatchdogStep ==
  ASSUME LinkInv, StepInv, CopyInRam', NEW begun \in BOOLEAN, NEW set \in BOOLEAN,
         Watchdog(begun, set)
  PROVE  StepInv'
<1>0. /\ gps \in Gps /\ seen.missed \in Nat /\ i2c \in Seq(Int) /\ DOMAIN seen = SeenFields
      /\ PVT_WATCHDOG \in Nat \ {0}
      /\ gps.stamped => Behind \/ NextInStep \/ FrameInStep
      /\ FrameUnread
  BY SeenIs, GpsManagerAssumption
  DEF GpsManagerAssumption, StepInv, StepType, LinkInv, LinkType
<1>1. /\ pc = "run" /\ pc' = "run" /\ watchdogDue(gps) /\ gps' = stamp(gps)
      /\ ubx' = ubxReset(ubx) /\ (i2c' = i2c \/ i2c' = <<>>)
  BY DEF Watchdog, Running, gpsFullReinit, parserBehindReinit
<1>2. gps' \in Gps /\ gps'.stamped /\ gps'.age = 0 BY <1>0, <1>1, GpsOps
<1>3. Parser(ubx') /\ ubx'.state = 0 BY <1>1, ResetIs
<1>4. seen'.missed = seen.missed BY <1>0 DEF Watchdog, Counted, SeenFields
<1>5. ~watchdogDue(gps') BY <1>0, <1>2 DEF watchdogDue
<1>6. StepType'
  <2>1. i2c' \in Seq(Int) BY <1>0, <1>1, EmptySeq
  <2>2. seen'.missed \in Nat BY <1>0, <1>4
  <2>3. pc' = "run" BY <1>1
  <2>4. gps' \in Gps /\ Parser(ubx') BY <1>2, <1>3
  <2> QED BY <2>1, <2>2, <2>3, <2>4 DEF StepType
<1>7. FrameUnread' BY <1>5 DEF FrameUnread
<1>8. seen.missed <= PVT_WATCHDOG + 1
  <2>1. gps.stamped /\ ~FrameInStep BY <1>1 DEF watchdogDue, FrameInStep
  <2>2. gps.age \in 0 .. PVT_WATCHDOG + 1 BY <1>0 DEF Gps
  <2>3. CASE Behind BY <1>0, <2>2, <2>3 DEF Behind
  <2>4. CASE NextInStep BY <2>4 DEF NextInStep
  <2> QED BY <1>0, <2>1, <2>3, <2>4
<1>9. CASE i2c' = <<>>
  <2>1. NextInStep' BY <1>1, <1>2, <1>3, <1>4, <1>8, <1>9 DEF NextInStep
  <2> QED BY <1>6, <1>7, <2>1 DEF StepInv
<1>10. CASE i2c' = i2c /\ i2c # <<>>
  <2>1. CASE seen.missed = 0 BY <1>4, <1>6, <2>1, NoneMissed
  <2>2. CASE seen.missed # 0
    <3>1. PICK p \in Payloads : i2c = Rest(p, 0) BY <1>0, <1>1, <1>10, <2>2 DEF FrameUnread
    <3>2. 0 \in 0 .. UBX_NAV_PVT_LEN + 7 /\ UBX_NAV_PVT_LEN \in 1 .. 255 BY PayloadType
    <3>3. InStep(ubx', p, 0) BY <1>3, <3>2 DEF InStep, Place
    <3>4. seen'.missed <= PVT_WATCHDOG + 2 BY <1>0, <1>4, <1>8
    <3>5. FrameInStep' BY <1>1, <1>5, <1>10, <3>1, <3>2, <3>3, <3>4 DEF FrameInStep
    <3> QED BY <1>6, <1>7, <3>5 DEF StepInv
  <2> QED BY <2>1, <2>2
<1> QED BY <1>1, <1>9, <1>10

\* A chunk is read.
LEMMA UpdateStep == ASSUME LinkInv, StepInv, CopyInRam', Update PROVE StepInv'
<1> DEFINE L == UBX_NAV_PVT_LEN
           m == IF Len(i2c) < UBX_READ_CHUNK THEN Len(i2c) ELSE UBX_READ_CHUNK
           parsed == Parsed(ubx, Chunk)
<1>0. /\ gps \in Gps /\ seen.missed \in Nat /\ Parser(ubx) /\ i2c \in Seq(Int)
      /\ DOMAIN seen = SeenFields
      /\ gps.stamped => Behind \/ NextInStep \/ FrameInStep
  BY SeenIs DEF StepInv, StepType, LinkInv, LinkType
<1>1. /\ pc = "run" /\ pc' = "run" /\ i2c # <<>> /\ ~watchdogDue(gps) /\ receiver' = receiver
      /\ ubx' = parsed.ubx
      /\ gps' = IF parsed.pvts = <<>> THEN answered(gps) ELSE processPVT(gps, TRUE)
      /\ seen' = IF parsed.pvts = <<>> THEN seen ELSE [seen EXCEPT !.missed = 0]
      /\ i2c' = SubSeq(i2c, Len(Chunk) + 1, Len(i2c))
  BY DEF Update, Running
<1>2. m \in Nat /\ m >= 1 /\ m <= Len(i2c) /\ Len(i2c) \in Nat
  <2>1. Len(i2c) \in Nat /\ Len(i2c) # 0 BY <1>0, <1>1, EmptySeq
  <2>2. UBX_READ_CHUNK \in Nat \ {0} BY UbxAssumption DEF UbxAssumption
  <2> QED BY <2>1, <2>2
<1>3. Len(Chunk) = m /\ \A j \in 1 .. m : Chunk[j] = i2c[j]
  <2>1. \A j \in 1 .. m : i2c[j] \in Int
    <3> TAKE j \in 1 .. m
    <3>1. j \in 1 .. Len(i2c) BY <1>2
    <3> QED BY <1>0, <3>1, ElementOfSeq
  <2> HIDE DEF m
  <2>2. 1 \in Int /\ m \in Int /\ 1 <= m /\ m - 1 + 1 = m BY <1>2
  <2>3. Chunk = SubSeq(i2c, 1, m) BY DEF Chunk, m
  <2>4. /\ Len(Chunk) = m - 1 + 1
        /\ \A j \in 1 .. m - 1 + 1 : Chunk[j] = i2c[1 + j - 1]
    BY <2>1, <2>2, <2>3, SubSeqProperties
  <2>5. \A j \in 1 .. m : Chunk[j] = i2c[j]
    <3> TAKE j \in 1 .. m
    <3>1. 1 + j - 1 = j BY <2>2
    <3> QED BY <2>2, <2>4, <3>1
  <2> QED BY <2>2, <2>4, <2>5
<1> HIDE DEF m
<1>4. i2c' = SubSeq(i2c, m + 1, Len(i2c)) /\ i2c' \in Seq(Int)
  <2>1. \A j \in m + 1 .. Len(i2c) : i2c[j] \in Int
    <3> TAKE j \in m + 1 .. Len(i2c)
    <3>1. j \in 1 .. Len(i2c) BY <1>2
    <3> QED BY <1>0, <3>1, ElementOfSeq
  <2>2. m + 1 \in Int /\ Len(i2c) \in Int BY <1>2
  <2> QED BY <1>1, <1>3, <2>1, <2>2, SubSeqProperties
<1>5. Parser(ubx') BY <1>0, <1>1, <1>2, <1>3, ChunkKeepsParser
<1>6. CASE parsed.pvts # <<>>
  <2>1. gps' \in Gps BY <1>0, <1>1, <1>6, GpsOps
  <2>2. seen'.missed = 0 BY <1>0, <1>1, <1>6 DEF SeenFields
  <2>3. pc' = "run" /\ seen'.missed \in Nat BY <1>1, <2>2
  <2>4. Parser(ubx') /\ i2c' \in Seq(Int) BY <1>4, <1>5
  <2>5. StepType' BY <2>1, <2>3, <2>4 DEF StepType
  <2> QED BY <2>2, <2>5, NoneMissed
<1>7. CASE parsed.pvts = <<>>
  <2>1. gps' \in Gps /\ gps'.stamped = gps.stamped /\ gps'.age = gps.age /\ seen' = seen
    BY <1>0, <1>1, <1>7, GpsOps
  <2>2. ~watchdogDue(gps') BY <1>1, <2>1 DEF watchdogDue
  <2>3. StepType' BY <1>0, <1>1, <1>4, <1>5, <2>1 DEF StepType
  <2>4. FrameUnread' BY <2>2 DEF FrameUnread
  <2>5. ~NextInStep BY <1>1 DEF NextInStep
  <2>6. CASE Behind
    <3>1. Behind' BY <2>1, <2>6 DEF Behind
    <3> QED BY <2>3, <2>4, <3>1 DEF StepInv
  <2>7. CASE FrameInStep
    <3>1. PICK p \in Payloads, k \in 0 .. L + 7 : InStep(ubx, p, k) /\ i2c = Rest(p, k)
      BY <2>7 DEF FrameInStep
    <3>2. L \in 1 .. 255 /\ k \in Nat /\ k <= L + 7 BY <3>1, PayloadType
    <3>3. Len(i2c) = L + 8 - k /\ \A i \in 1 .. L + 8 - k : i2c[i] = Pvt(p)[k + i]
      BY <3>1, RestIs
    <3>4. k + m <= L + 8 BY <1>2, <3>2, <3>3
    <3>5. \A j \in 1 .. m : Chunk[j] = Pvt(p)[k + j]
      <4> TAKE j \in 1 .. m
      <4>1. j \in 1 .. L + 8 - k BY <1>2, <3>2, <3>3
      <4> QED BY <1>3, <3>3, <4>1
    <3>6. k + m <= L + 7 /\ InStep(ubx', p, k + m)
      BY <1>0, <1>1, <1>2, <1>3, <1>7, <3>1, <3>4, <3>5, ChunkInStep
    <3>7. k + m \in 0 .. L + 7 BY <1>2, <3>2, <3>6
    <3>8. i2c' = Rest(p, k + m)
      <4>1. /\ Rest(p, k + m) \in Seq(Int) /\ Len(Rest(p, k + m)) = L + 8 - (k + m)
            /\ \A i \in 1 .. L + 8 - (k + m) : Rest(p, k + m)[i] = Pvt(p)[(k + m) + i]
        BY <3>7, RestIs
      <4>2. \A j \in m + 1 .. Len(i2c) : i2c[j] \in Int
        <5> TAKE j \in m + 1 .. Len(i2c)
        <5>1. j \in 1 .. Len(i2c) BY <1>2
        <5> QED BY <1>0, <5>1, ElementOfSeq
      <4>3. /\ m + 1 \in Int /\ Len(i2c) \in Int /\ m + 1 <= Len(i2c)
            /\ Len(i2c) - (m + 1) + 1 = L + 8 - (k + m)
        BY <1>2, <3>2, <3>3, <3>6
      <4>4. /\ Len(i2c') = Len(i2c) - (m + 1) + 1
            /\ \A i \in 1 .. Len(i2c) - (m + 1) + 1 : i2c'[i] = i2c[(m + 1) + i - 1]
        BY <1>4, <4>2, <4>3, SubSeqProperties
      <4>5. ASSUME NEW i \in 1 .. L + 8 - (k + m) PROVE i2c'[i] = Rest(p, k + m)[i]
        <5>1. /\ (m + 1) + i - 1 = m + i /\ k + (m + i) = (k + m) + i
              /\ m + i \in 1 .. L + 8 - k
          BY <1>2, <3>2, <3>6
        <5> QED BY <3>3, <4>1, <4>3, <4>4, <5>1
      <4> QED BY <1>4, <4>1, <4>3, <4>4, <4>5, SeqEqual
    <3>9. seen'.missed <= PVT_WATCHDOG + 2 BY <2>1, <2>7 DEF FrameInStep
    <3>10. FrameInStep' BY <1>1, <2>2, <3>6, <3>7, <3>8, <3>9 DEF FrameInStep
    <3> QED BY <2>3, <2>4, <3>10 DEF StepInv
  <2>8. CASE ~gps.stamped BY <2>1, <2>3, <2>4, <2>8 DEF StepInv
  <2> QED BY <1>0, <2>5, <2>6, <2>7, <2>8
<1> QED BY <1>6, <1>7

\* The receiver of its own accord.
LEMMA ReceiverStep ==
  ASSUME LinkInv, StepInv, CopyInRam', ReceiverRestarts \/ Acquire \/ UNCHANGED vars
  PROVE  StepInv'
<1>0. receiver \in Receivers /\ CopyInRam BY DEF LinkInv, LinkType, StepInv
<1>1. UNCHANGED <<gps, ubx, pc, i2c, seen>>
  BY DEF ReceiverRestarts, Acquire, vars, firmware
<1>2. StepType' /\ FrameUnread' BY <1>1 DEF StepInv, StepType, FrameUnread
<1>3. Behind => Behind' BY <1>1 DEF Behind
<1>4. FrameInStep => FrameInStep' BY <1>1 DEF FrameInStep
<1>5. pc = "run" /\ "pvt" \notin receiver.ram => "pvt" \notin receiver'.ram
  <2>1. CASE ReceiverRestarts
    <3>1. Restarted(receiver).ram = receiver.bbr \cup (receiver.ram \cap {"glonass"})
      BY <1>0 DEF Restarted, Receivers
    <3> QED BY <1>0, <2>1, <3>1 DEF ReceiverRestarts, CopyInRam
  <2>2. CASE Acquire BY <1>0, <2>2 DEF Acquire, Receivers
  <2>3. CASE UNCHANGED vars BY <2>3 DEF vars
  <2> QED BY <2>1, <2>2, <2>3
<1>6. NextInStep => NextInStep' BY <1>1, <1>5 DEF NextInStep
<1>7. gps'.stamped = gps.stamped BY <1>1
<1> QED BY <1>2, <1>3, <1>4, <1>6, <1>7 DEF StepInv

LEMMA NextStep == LinkInv /\ StepInv /\ [Next]_vars => StepInv'
<1> SUFFICES ASSUME LinkInv, StepInv, [Next]_vars PROVE StepInv' OBVIOUS
<1>1. CopyInRam' BY CopyKept DEF StepInv
<1>2. CASE \/ Begin \/ BeginFails \/ Done \/ Session \/ Reinit \/ Boot
           \/ \E ok \in BOOLEAN : Command(ok)
  BY <1>1, <1>2, CommandsStep
<1>3. CASE \/ Silent \/ Chatter
           \/ \E p \in Payloads : Speak(p) \/ \E i \in 1 .. FrameLength : Garble(p, i)
  BY <1>1, <1>3, TickStep
<1>4. CASE \E begun, set \in BOOLEAN : Watchdog(begun, set) BY <1>1, <1>4, WatchdogStep
<1>5. CASE Update BY <1>1, <1>5, UpdateStep
<1>6. CASE ReceiverRestarts \/ Acquire \/ UNCHANGED vars BY <1>1, <1>6, ReceiverStep
<1> QED BY <1>2, <1>3, <1>4, <1>5, <1>6 DEF Next

\* StepInv is inductive together with LinkInv: what the watchdog leaves is a
\* parser at the start of a frame, whatever it was fed before.
THEOREM StepInvariant == Spec => []StepInv
<1> QED BY LinkInvariant, InitStep, NextStep, PTL DEF Spec

\* However a session or a wrong byte left the parser, it is back in step
\* before more than the watchdog's time has passed (the PVT watchdog).
THEOREM ParserBackInStep == Spec => []BackInStep
<1>1. StepInv => BackInStep
  <2> SUFFICES ASSUME StepInv, gps.stamped PROVE seen.missed <= PVT_WATCHDOG + 2
    BY DEF BackInStep
  <2>1. PVT_WATCHDOG \in Nat /\ gps.age \in 0 .. PVT_WATCHDOG + 1 /\ seen.missed \in Nat
    BY GpsManagerAssumption DEF GpsManagerAssumption, StepInv, StepType, Gps
  <2>2. CASE Behind BY <2>1, <2>2 DEF Behind
  <2>3. CASE NextInStep BY <2>1, <2>3 DEF NextInStep
  <2>4. CASE FrameInStep BY <2>4 DEF FrameInStep
  <2> QED BY <2>2, <2>3, <2>4 DEF StepInv
<1> QED BY StepInvariant, <1>1, PTL
=============================================================================
