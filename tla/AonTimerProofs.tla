--------------------------- MODULE AonTimerProofs ---------------------------
(***************************************************************************)
(* The alarm of the wake-up timer comes on time, for counters of any       *)
(* width, any thresholds and any prescalers.  A driver that clears both    *)
(* halves of the counter in the slow cycle in which it stops the timer has *)
(* no clear overtaken by the enable (SoonInv).  Where no prescaler is      *)
(* below 5, neither has any other driver (SlowInv): a clear that waits for *)
(* a crossing to end is accepted before the timer's first tick.            *)
(***************************************************************************)
EXTENDS AonTimer, SequenceTheorems, TLAPS

Tholds == {"tholdLo", "tholdHi"}

Part(r, n) == IF r \in {"lo", "tholdLo"} THEN n % Half ELSE n \div Half

On(c) == c \in [on : {TRUE}, prescaler : Prescalers]

-----------------------------------------------------------------------------
(* The driver's writes: the enable is the last one, and the counter's      *)
(* halves are cleared.                                                     *)

Writes(todo, thold) ==
  /\ todo \in Seq({todo[i] : i \in DOMAIN todo})
  /\ \A i \in DOMAIN todo :
       /\ todo[i][1] \in Regs
       /\ todo[i][1] \in Halves => todo[i][2] = 0
       /\ todo[i][1] \in Tholds => todo[i][2] = Part(todo[i][1], thold - 1)
       /\ todo[i][1] = "ctrl" => On(todo[i][2]) /\ i = Len(todo)
       /\ i = Len(todo) => todo[i][1] = "ctrl"
  /\ \A i, j \in DOMAIN todo : i # j => todo[i][1] # todo[j][1]

Targets(todo) == {todo[i][1] : i \in DOMAIN todo}

Left == Targets(call.todo)

(* The next write. *)
Target == Head(call.todo)[1]
Value  == Head(call.todo)[2]

(* The call in progress has written r. *)
Mine(r) == call.todo # <<>> /\ r \notin Left

-----------------------------------------------------------------------------

TypeOK ==
  /\ DOMAIN reg = Regs /\ DOMAIN vis = Regs /\ DOMAIN call = DOMAIN NoCall
  /\ \A r \in Halves : reg[r] \in 0..(Half - 1) /\ vis[r] \in 0..(Half - 1)
                       /\ transit[r] \in 0..(Half - 1)
  /\ {reg["ctrl"], vis["ctrl"]} \subseteq [on : BOOLEAN, prescaler : 0..PrescalerMask]
  /\ prescaleCount \in 0..PrescalerMask
  /\ busy \subseteq Regs
  /\ flight \in [Regs -> 0..3]
  /\ transit \in [Halves -> 0..(Half - 1)]
  /\ wait \in [Halves -> 0..3] /\ held \in [Halves -> BOOLEAN]
  /\ due \in [Regs -> {"none", "ack", "update"}]
  /\ threshold \in 1..(Half * Half) /\ ticks \in Nat
  /\ Writes(call.todo, threshold)

(* The timer has not seen the write yet. *)
Pend(r) == flight[r] > 0 \/ (r \in Halves /\ held[r])

BusyInv ==
  \A r \in Regs : /\ Pend(r) => r \in busy /\ due[r] # "ack"
                  /\ due[r] = "ack" => r \in busy
                  /\ r \in Halves => ~(flight[r] > 0 /\ held[r])

(* The enable is written to a timer that has stopped. *)
CtrlInv ==
  /\ flight["ctrl"] = 0 => reg["ctrl"] = vis["ctrl"]
  /\ reg["ctrl"].on => On(reg["ctrl"])
  /\ vis["ctrl"].on => On(vis["ctrl"]) /\ call.todo = <<>>
  /\ vis["ctrl"].on /\ flight["ctrl"] > 0 => ~reg["ctrl"].on

Enabling == vis["ctrl"].on /\ flight["ctrl"] > 0

(* Slow cycles until no crossing of r is under way, if the timer does not  *)
(* tick: a change missed by the current one takes four more.               *)
Over(r) == wait[r] + IF transit[r] = reg[r] THEN 0 ELSE 4

(* A crossing takes long only shortly after a tick. *)
OverInv == \A r \in Halves : Over(r) <= 3 \/ Over(r) + prescaleCount <= 6

(* A clear that the enable has overtaken is accepted within a few cycles   *)
(* of the tick that delayed it, and before the next one.                   *)
OvertakenInv ==
  \A r \in Halves : Pend(r) /\ ~Mine(r) /\ ~Enabling =>
    /\ flight[r] = 0
    /\ \/ wait[r] + prescaleCount <= 3
       \/ wait[r] = 0 /\ prescaleCount <= 4 /\ (vis["ctrl"].on \/ flight["ctrl"] = 3)

(* With the timer stopped, a crossing that has just begun, other than that *)
(* of the clear itself, began soon after a tick.                           *)
StoppedInv ==
  \A r \in Halves : ~vis["ctrl"].on /\ flight["ctrl"] = 0 /\ (Pend(r) \/ ~Mine(r)) =>
    (Over(r) = 3 => prescaleCount <= 4)

(* The enable follows the clears. *)
EnablingInv ==
  Enabling => \A r \in Halves : Pend(r) =>
    /\ flight[r] <= flight["ctrl"]
    /\ \/ Over(r) < flight["ctrl"]
       \/ Over(r) + prescaleCount <= flight["ctrl"] + 3
       \/ Over(r) = flight["ctrl"] /\ prescaleCount <= 4

(* A prompt driver's clears arrive with the stop.  One that is held by a   *)
(* crossing then has it over before the enable arrives.                    *)
SoonInv ==
  \A r \in Halves :
    /\ r \in Left => ~vis["ctrl"].on /\ flight["ctrl"] = 3
    /\ Pend(r) /\ r \notin Left =>
         IF vis["ctrl"].on THEN held[r] /\ wait[r] < flight["ctrl"]
         ELSE /\ Mine(r)
              /\ IF flight["ctrl"] > 0 THEN ~held[r] /\ flight[r] = flight["ctrl"]
                                       ELSE held[r] /\ wait[r] <= 2

(* The clears do not overtake the stop. *)
MineInv ==
  \A r \in Halves : Mine(r) =>
    IF Pend(r) THEN vis[r] = 0 /\ (flight["ctrl"] > 0 => flight[r] >= flight["ctrl"])
               ELSE reg[r] = 0 /\ flight["ctrl"] = 0

(* The count is the number of ticks, once the clears have been accepted.   *)
CountInv ==
  vis["ctrl"].on =>
    /\ ticks <= MaxCount
    /\ flight["ctrl"] > 0 => ticks = 0
    /\ \A r \in Halves : IF Pend(r) THEN vis[r] = 0 /\ ticks = 0
                                    ELSE reg[r] = Part(r, ticks)

TholdInv ==
  \A x \in Tholds :
    /\ x \notin Left => (IF flight[x] > 0 THEN vis[x] ELSE reg[x]) = Part(x, threshold - 1)
    /\ vis["ctrl"].on => flight[x] <= flight["ctrl"]

BasicInv == TypeOK /\ BusyInv /\ CtrlInv /\ MineInv /\ TholdInv

SlowInv == OverInv /\ OvertakenInv /\ StoppedInv /\ EnablingInv

AlarmInv ==
  /\ BasicInv
  /\ Slow => SlowInv
  /\ prompt => SoonInv
  /\ prompt \/ Slow => CountInv

-----------------------------------------------------------------------------
(* Halves of a number *)

(* A number is put together from its halves. *)
LEMMA DivMod ==
  ASSUME NEW n \in Nat
  PROVE  /\ n % Half \in 0..(Half - 1) /\ n \div Half \in Nat
         /\ Number(n \div Half, n % Half) = n
         /\ n < Half * Half => n \div Half < Half
BY HalfAssumption DEF Number

(* The timer's increment of each half is that half of count plus one.      *)
LEMMA NextPart ==
  ASSUME NEW n \in Nat, n < MaxCount, Count = n, NEW r \in Halves
  PROVE  NextHalf(r) = Part(r, n + 1)
<1>1. n + 1 \in Nat /\ n + 1 < Half * Half
  BY HalfAssumption, CountAssumption
<1>2. (n + 1) \div Half \in 0..(Half - 1)
  BY <1>1, HalfAssumption
<1>3. ((n + 1) \div Half) % Half = (n + 1) \div Half
  BY <1>2, HalfAssumption
<1> QED BY <1>3 DEF NextHalf, Part, Halves

-----------------------------------------------------------------------------
(* The writes of a call *)

LEMMA OwnSeq ==
  ASSUME NEW S, NEW s \in Seq(S)
  PROVE  s \in Seq({s[i] : i \in DOMAIN s})
OBVIOUS

LEMMA FiveWrites ==
  ASSUME NEW a, NEW b, NEW c, NEW d, NEW e
  PROVE  /\ <<a, b>> \o <<c, d, e>> = <<a, b, c, d, e>>
         /\ <<a, b, c, d, e>> \in Seq({<<a, b, c, d, e>>[i] : i \in DOMAIN <<a, b, c, d, e>>})
<1> DEFINE S == {a, b, c, d, e}
           l == <<a, b>>
           m == <<c, d, e>>
           s == l \o m
           t == <<a, b, c, d, e>>
<1>1. l \in Seq(S) /\ m \in Seq(S) /\ t \in Seq(S) /\ Len(l) = 2 /\ Len(m) = 3 /\ Len(t) = 5
  OBVIOUS
<1>2. s \in Seq(S) /\ Len(s) = 5 /\ \A i \in 1..5 : s[i] = IF i <= 2 THEN l[i] ELSE m[i - 2]
  BY <1>1, ConcatProperties
<1>3. l[1] = a /\ l[2] = b /\ m[1] = c /\ m[2] = d /\ m[3] = e
  OBVIOUS
<1>4. t[1] = a /\ t[2] = b /\ t[3] = c /\ t[4] = d /\ t[5] = e
  OBVIOUS
<1>5. \A i \in 1..5 : s[i] = t[i]
  <2> HIDE DEF l, m, s, t
  <2> QED BY <1>2, <1>3, <1>4
<1>6. s = t
  <2> HIDE DEF l, m, s, t
  <2> QED BY <1>1, <1>2, <1>5, SeqEqual
<1>7. t \in Seq({t[i] : i \in DOMAIN t})
  BY <1>1, OwnSeq
<1> QED BY <1>6, <1>7

LEMMA ThreeWrites ==
  ASSUME NEW a, NEW b, NEW c
  PROVE  /\ <<a, b>> \o <<c>> = <<a, b, c>>
         /\ <<a, b, c>> \in Seq({<<a, b, c>>[i] : i \in DOMAIN <<a, b, c>>})
<1> DEFINE S == {a, b, c}
           l == <<a, b>>
           m == <<c>>
           s == l \o m
           t == <<a, b, c>>
<1>1. l \in Seq(S) /\ m \in Seq(S) /\ t \in Seq(S) /\ Len(l) = 2 /\ Len(m) = 1 /\ Len(t) = 3
  OBVIOUS
<1>2. s \in Seq(S) /\ Len(s) = 3 /\ \A i \in 1..3 : s[i] = IF i <= 2 THEN l[i] ELSE m[i - 2]
  BY <1>1, ConcatProperties
<1>3. l[1] = a /\ l[2] = b /\ m[1] = c
  OBVIOUS
<1>4. t[1] = a /\ t[2] = b /\ t[3] = c
  OBVIOUS
<1>5. \A i \in 1..3 : s[i] = t[i]
  <2> HIDE DEF l, m, s, t
  <2> QED BY <1>2, <1>3, <1>4
<1>6. s = t
  <2> HIDE DEF l, m, s, t
  <2> QED BY <1>1, <1>2, <1>5, SeqEqual
<1>7. t \in Seq({t[i] : i \in DOMAIN t})
  BY <1>1, OwnSeq
<1> QED BY <1>6, <1>7

(* Both calls that enable the timer clear its counter first. *)
LEMMA StartIsWrites ==
  ASSUME NEW thold \in Thresholds, NEW p \in Prescalers
  PROVE  LET s == StartWrites(thold, p)
         IN  Writes(s, thold) /\ Halves \cup Tholds \subseteq Targets(s)
<1> DEFINE v == [on |-> TRUE, prescaler |-> p]
           l == Part("tholdLo", thold - 1)
           h == Part("tholdHi", thold - 1)
           s == << <<"lo", 0>>, <<"hi", 0>>, <<"tholdLo", l>>, <<"tholdHi", h>>, <<"ctrl", v>> >>
<1>1. StartWrites(thold, p) = s
  BY FiveWrites DEF StartWrites, ClearCounter, Part
<1>2. s \in Seq({s[i] : i \in DOMAIN s})
  BY FiveWrites
<1>3. On(v)
  BY DEF On
<1> HIDE DEF v, l, h
<1>4. DOMAIN s = 1..5 /\ Len(s) = 5
  OBVIOUS
<1>5. /\ s[1][1] = "lo" /\ s[2][1] = "hi" /\ s[3][1] = "tholdLo" /\ s[4][1] = "tholdHi"
      /\ s[5][1] = "ctrl" /\ s[1][2] = 0 /\ s[2][2] = 0 /\ s[3][2] = l /\ s[4][2] = h /\ s[5][2] = v
  OBVIOUS
<1> HIDE DEF s
<1>6. \A i \in DOMAIN s :
        /\ s[i][1] \in Regs
        /\ s[i][1] \in Halves => s[i][2] = 0
        /\ s[i][1] \in Tholds => s[i][2] = Part(s[i][1], thold - 1)
        /\ s[i][1] = "ctrl" => On(s[i][2]) /\ i = Len(s)
        /\ i = Len(s) => s[i][1] = "ctrl"
  <2> SUFFICES ASSUME NEW i \in 1..5
               PROVE  /\ s[i][1] \in Regs
                      /\ s[i][1] \in Halves => s[i][2] = 0
                      /\ s[i][1] \in Tholds => s[i][2] = Part(s[i][1], thold - 1)
                      /\ s[i][1] = "ctrl" => On(s[i][2]) /\ i = 5
                      /\ i = 5 => s[i][1] = "ctrl"
    BY <1>4
  <2>1. i = 1 \/ i = 2 \/ i = 3 \/ i = 4 \/ i = 5
    OBVIOUS
  <2> QED BY <2>1, <1>3, <1>5 DEF Regs, Halves, Tholds, l, h
<1>7. \A i, j \in DOMAIN s : i # j => s[i][1] # s[j][1]
  BY <1>4, <1>5
<1>8. Halves \cup Tholds \subseteq Targets(s)
  BY <1>4, <1>5 DEF Halves, Tholds, Targets
<1> QED BY <1>1, <1>2, <1>6, <1>7, <1>8 DEF Writes

LEMMA RestartIsWrites ==
  ASSUME On(Toggled(TRUE)), NEW thold
  PROVE  /\ Writes(RestartWrites, thold)
         /\ Halves \subseteq Targets(RestartWrites)
<1> DEFINE v == Toggled(TRUE)
           s == << <<"lo", 0>>, <<"hi", 0>>, <<"ctrl", v>> >>
<1>1. RestartWrites = s
  BY ThreeWrites DEF RestartWrites, ClearCounter
<1>2. s \in Seq({s[i] : i \in DOMAIN s})
  BY ThreeWrites
<1> HIDE DEF v
<1>4. DOMAIN s = 1..3 /\ Len(s) = 3
  OBVIOUS
<1>5. /\ s[1][1] = "lo" /\ s[2][1] = "hi" /\ s[3][1] = "ctrl"
      /\ s[1][2] = 0 /\ s[2][2] = 0 /\ s[3][2] = v
  OBVIOUS
<1> HIDE DEF s
<1>6. \A i \in DOMAIN s :
        /\ s[i][1] \in Regs
        /\ s[i][1] \in Halves => s[i][2] = 0
        /\ s[i][1] \notin Tholds
        /\ s[i][1] = "ctrl" => On(s[i][2]) /\ i = Len(s)
        /\ i = Len(s) => s[i][1] = "ctrl"
  <2> SUFFICES ASSUME NEW i \in 1..3
               PROVE  /\ s[i][1] \in Regs
                      /\ s[i][1] \in Halves => s[i][2] = 0
                      /\ s[i][1] \notin Tholds
                      /\ s[i][1] = "ctrl" => On(s[i][2]) /\ i = 3
                      /\ i = 3 => s[i][1] = "ctrl"
    BY <1>4
  <2>1. i = 1 \/ i = 2 \/ i = 3
    OBVIOUS
  <2> QED BY <2>1, <1>5 DEF Regs, Halves, Tholds, v
<1>7. \A i, j \in DOMAIN s : i # j => s[i][1] # s[j][1]
  BY <1>4, <1>5
<1>8. Halves \subseteq Targets(s)
  BY <1>4, <1>5 DEF Halves, Targets
<1> QED BY <1>1, <1>2, <1>6, <1>7, <1>8 DEF Writes

LEMMA NoWrites ==
  ASSUME NEW thold
  PROVE  Writes(<<>>, thold) /\ Targets(<<>>) = {}
BY DEF Writes, Targets

(* One write done: what is left of the call is again the writes of a call. *)
LEMMA TailIsWrites ==
  ASSUME NEW todo, NEW thold, Writes(todo, thold), todo # <<>>,
         NEW left, left = Targets(todo)
  PROVE  LET r == Head(todo)[1]
             v == Head(todo)[2]
         IN  /\ r \in left /\ r \in Regs
             /\ r \in Halves => v = 0
             /\ r \in Tholds => v = Part(r, thold - 1)
             /\ r = "ctrl" => On(v) /\ left = {"ctrl"}
             /\ Tail(todo) = <<>> <=> r = "ctrl"
             /\ Writes(Tail(todo), thold)
             /\ Targets(Tail(todo)) = left \ {r}
<1> DEFINE S == {todo[i] : i \in DOMAIN todo}
           t == Tail(todo)
<1>1. todo \in Seq(S)
  BY DEF Writes
<1>2. /\ Len(todo) \in Nat \ {0} /\ DOMAIN todo = 1..Len(todo)
      /\ Head(todo) = todo[1]
      /\ t \in Seq(S) /\ Len(t) = Len(todo) - 1 /\ DOMAIN t = 1..(Len(todo) - 1)
      /\ \A i \in DOMAIN t : t[i] = todo[i + 1]
  BY <1>1, HeadTailProperties, LenProperties
<1>3. \A i \in DOMAIN t : i + 1 \in DOMAIN todo /\ i + 1 # 1
  BY <1>2
<1>4. t \in Seq({t[i] : i \in DOMAIN t})
  <2> HIDE DEF S, t
  <2> QED BY <1>2
<1>5. Writes(t, thold)
  <2>1. \A i \in DOMAIN t : i \in Int /\ (i + 1 = Len(todo) <=> i = Len(t))
    BY <1>2
  <2>2. \A i, j \in DOMAIN t : i # j => i + 1 # j + 1
    BY <1>2
  <2>3. \A i \in DOMAIN todo :
          /\ todo[i][1] \in Regs
          /\ todo[i][1] \in Halves => todo[i][2] = 0
          /\ todo[i][1] \in Tholds => todo[i][2] = Part(todo[i][1], thold - 1)
          /\ todo[i][1] = "ctrl" => On(todo[i][2]) /\ i = Len(todo)
          /\ i = Len(todo) => todo[i][1] = "ctrl"
    BY DEF Writes
  <2>4. \A i \in DOMAIN t :
          /\ t[i][1] \in Regs
          /\ t[i][1] \in Halves => t[i][2] = 0
          /\ t[i][1] \in Tholds => t[i][2] = Part(t[i][1], thold - 1)
          /\ t[i][1] = "ctrl" => On(t[i][2]) /\ i = Len(t)
          /\ i = Len(t) => t[i][1] = "ctrl"
    <3> HIDE DEF t, S
    <3> QED BY <1>2, <1>3, <2>1, <2>3
  <2>5. \A i, j \in DOMAIN todo : i # j => todo[i][1] # todo[j][1]
    BY DEF Writes
  <2>6. \A i, j \in DOMAIN t : i # j => t[i][1] # t[j][1]
    <3> HIDE DEF t, S
    <3> QED BY <1>2, <1>3, <2>2, <2>5
  <2> QED BY <1>4, <2>4, <2>6 DEF Writes
<1>6. 1 \in DOMAIN todo
  BY <1>2
<1>7. t = <<>> <=> 1 = Len(todo)
  BY <1>2
<1>8. todo[1][1] = "ctrl" <=> 1 = Len(todo)
  BY <1>6 DEF Writes
<1>9. \A i \in DOMAIN todo : i # 1 => i - 1 \in DOMAIN t /\ t[i - 1] = todo[i]
  BY <1>2
<1>10. Targets(t) = left \ {todo[1][1]}
  <2>1. ASSUME NEW i \in DOMAIN t PROVE t[i][1] \in left \ {todo[1][1]}
    BY <1>2, <1>3, <1>6 DEF Writes, Targets
  <2>2. ASSUME NEW x \in left, x # todo[1][1] PROVE x \in {t[i][1] : i \in DOMAIN t}
    <3>1. PICK i \in DOMAIN todo : x = todo[i][1]
      BY DEF Targets
    <3> QED BY <1>9, <2>2, <3>1
  <2> QED BY <2>1, <2>2 DEF Targets
<1>11. 1 = Len(todo) => left = {todo[1][1]}
  BY <1>2 DEF Targets
<1> QED BY <1>2, <1>5, <1>6, <1>7, <1>8, <1>10, <1>11 DEF Writes, Targets

-----------------------------------------------------------------------------
(* One slow cycle *)

(* What it does to one half of the counter. *)
LEMMA EdgeHalf ==
  ASSUME TypeOK, BusyInv, Edge, NEW r \in Halves
  PROVE  /\ flight'[r] = IF flight[r] = 0 THEN 0 ELSE flight[r] - 1
         /\ Accept(r) => Pend(r) /\ wait[r] = 0 /\ reg'[r] = vis[r]
         /\ Pend(r)' <=> Pend(r) /\ ~Accept(r)
         /\ wait[r] = 0 /\ flight[r] = 0 => ~Pend(r)'
         /\ wait[r] # 0 => wait'[r] <= wait[r] - 1
         /\ ~Accept(r) => reg'[r] = IF Incr THEN NextHalf(r) ELSE reg[r]
<1>1. r \in Regs /\ flight[r] \in 0..3 /\ wait[r] \in 0..3 /\ ~(flight[r] > 0 /\ held[r])
  BY DEF TypeOK, BusyInv, Regs
<1>2. flight'[r] = IF flight[r] = 0 THEN 0 ELSE flight[r] - 1
  BY <1>1 DEF Edge
<1>3. held'[r] <=> wait[r] # 0 /\ (held[r] \/ flight[r] = 1)
  BY DEF Edge, Pulse
<1>4. Accept(r) <=> wait[r] = 0 /\ (flight[r] = 1 \/ held[r])
  BY DEF Accept, Pulse
<1>5. reg'[r] = Ds(r)
  BY <1>1 DEF Edge
<1>6. wait[r] # 0 => wait'[r] = wait[r] - 1
  BY <1>1 DEF Edge, LatchD, LatchQ
<1>7. Pend(r)' <=> flight'[r] > 0 \/ held'[r]
  BY DEF Pend
<1>8. Pend(r) <=> flight[r] > 0 \/ held[r]
  BY DEF Pend
<1> QED BY <1>1, <1>2, <1>3, <1>4, <1>5, <1>6, <1>7, <1>8 DEF Ds

(* What it does to the other registers. *)
LEMMA EdgeOther ==
  ASSUME TypeOK, Edge, NEW r \in Regs \ Halves
  PROVE  /\ flight'[r] = IF flight[r] = 0 THEN 0 ELSE flight[r] - 1
         /\ reg'[r] = IF flight[r] = 1 THEN vis[r] ELSE reg[r]
         /\ flight[r] \in 0..3 /\ flight'[r] \in 0..3
         /\ Pend(r) <=> flight[r] > 0
         /\ Pend(r)' <=> flight'[r] > 0
         /\ Accept(r) <=> flight[r] = 1
<1>1. flight[r] \in 0..3
  BY DEF TypeOK
<1> QED BY <1>1 DEF Edge, Ds, Accept, Pulse, Pend

(* The crossing gets on by one cycle unless the timer ticks or the half    *)
(* takes software's write.                                                 *)
LEMMA EdgeOver ==
  ASSUME TypeOK, Edge, NEW r \in Halves, Incr => transit[r] = reg[r]
  PROVE  /\ Over(r) \in Nat /\ Over(r)' \in Nat /\ wait[r] \in Nat /\ wait[r] <= Over(r)
         /\ Incr => Over(r)' <= 6
         /\ ~Incr /\ Accept(r) => Over(r)' = 3
         /\ ~Incr /\ ~Accept(r) => Over(r)' = IF Over(r) = 0 THEN 0 ELSE Over(r) - 1
<1>1. wait[r] \in 0..3 /\ r \in Regs
  BY DEF TypeOK, Regs
<1>2. reg'[r] = Ds(r)
  BY <1>1 DEF Edge
<1>3. Accept(r) => wait[r] = 0
  BY DEF Accept
<1>4. ~Accept(r) /\ ~Incr => Ds(r) = reg[r]
  BY DEF Ds
<1>5. transit'[r] = IF LatchD(r) THEN Ds(r) ELSE IF LatchQ(r) THEN reg[r] ELSE transit[r]
  BY DEF Edge
<1>6. wait'[r] = IF LatchD(r) \/ LatchQ(r) THEN 3 ELSE IF wait[r] = 0 THEN 0 ELSE wait[r] - 1
  BY DEF Edge
<1>7. LatchD(r) <=> wait[r] = 0 /\ (Accept(r) \/ (Incr /\ transit[r] # Ds(r)))
  BY DEF LatchD
<1>8. LatchQ(r) <=> wait[r] = 0 /\ ~LatchD(r) /\ transit[r] # reg[r]
  BY DEF LatchQ
<1>9. Over(r)' = wait'[r] + IF transit'[r] = reg'[r] THEN 0 ELSE 4
  BY DEF Over
<1>10. Over(r) = wait[r] + IF transit[r] = reg[r] THEN 0 ELSE 4
  BY DEF Over
<1>11. CASE wait[r] # 0
  <2>1. wait'[r] = wait[r] - 1 /\ transit'[r] = transit[r] /\ ~Accept(r)
    BY <1>1, <1>3, <1>5, <1>6, <1>7, <1>8, <1>11
  <2>2. wait[r] \in 1..3 /\ wait'[r] \in 0..2 /\ wait'[r] = wait[r] - 1
    BY <1>1, <1>11, <2>1
  <2>3. Over(r) \in Nat /\ Over(r)' \in 0..6 /\ wait[r] <= Over(r) /\ Over(r) # 0
    BY <1>9, <1>10, <2>2
  <2>4. ASSUME ~Incr PROVE Over(r)' = Over(r) - 1
    <3>1. transit'[r] = reg'[r] <=> transit[r] = reg[r]
      BY <1>2, <1>4, <2>1, <2>4
    <3> QED BY <1>9, <1>10, <2>2, <3>1
  <2> QED BY <2>1, <2>2, <2>3, <2>4
<1>12. CASE wait[r] = 0
  <2>1. ASSUME Accept(r) PROVE Over(r)' = 3
    <3>1. wait'[r] = 3 /\ transit'[r] = Ds(r)
      BY <1>5, <1>6, <1>7, <1>12, <2>1
    <3> QED BY <1>2, <1>9, <3>1
  <2>2. ASSUME ~Accept(r), Incr PROVE Over(r)' \in {0, 3}
    <3>1. IF transit[r] = Ds(r) THEN wait'[r] = 0 ELSE wait'[r] = 3
      BY <1>6, <1>7, <1>8, <1>12, <2>2
    <3>2. transit'[r] = Ds(r)
      BY <1>5, <1>7, <1>8, <1>12, <2>2
    <3> QED BY <1>2, <1>9, <3>1, <3>2
  <2>3. ASSUME ~Accept(r), ~Incr PROVE Over(r)' = IF transit[r] = reg[r] THEN 0 ELSE 3
    <3>1. IF transit[r] = reg[r] THEN wait'[r] = 0 ELSE wait'[r] = 3
      BY <1>6, <1>7, <1>8, <1>12, <2>3
    <3>2. transit'[r] = reg[r] /\ reg'[r] = reg[r]
      BY <1>2, <1>4, <1>5, <1>7, <1>8, <1>12, <2>3
    <3> QED BY <1>9, <3>1, <3>2
  <2>4. Over(r) = IF transit[r] = reg[r] THEN 0 ELSE 4
    BY <1>10, <1>12
  <2>5. Over(r)' \in {0, 3} /\ Over(r) \in {0, 4}
    BY <2>1, <2>2, <2>3, <2>4
  <2> QED BY <1>12, <2>1, <2>3, <2>4, <2>5
<1> QED BY <1>1, <1>11, <1>12

(* The prescaler counts at most one up, and only while the timer runs.     *)
LEMMA EdgePrescaler ==
  ASSUME TypeOK, Edge
  PROVE  /\ prescaleCount \in Nat /\ prescaleCount' \in 0..PrescalerMask
         /\ prescaleCount' <= prescaleCount + 1
         /\ Incr => prescaleCount' = 0
         /\ ~reg["ctrl"].on => ~Incr /\ prescaleCount' = prescaleCount
<1>1. prescaleCount \in 0..PrescalerMask /\ PrescalerMask \in Nat
  BY PrescalerAssumption DEF TypeOK
<1>2. \/ prescaleCount' = prescaleCount
      \/ prescaleCount' = 0
      \/ prescaleCount' = (prescaleCount + 1) % (PrescalerMask + 1)
  BY DEF Edge, Prescaler
<1>3. (prescaleCount + 1) % (PrescalerMask + 1) \in 0..(prescaleCount + 1)
  <2>1. CASE prescaleCount = PrescalerMask
    BY <1>1, <2>1
  <2>2. CASE prescaleCount < PrescalerMask
    BY <1>1, <2>2
  <2> QED BY <1>1, <2>1, <2>2
<1>4. (prescaleCount + 1) % (PrescalerMask + 1) \in 0..PrescalerMask
  BY <1>1
<1>5. Incr => prescaleCount' = 0
  BY DEF Edge, Prescaler, Incr
<1>6. ~reg["ctrl"].on => ~Incr /\ prescaleCount' = prescaleCount
  BY DEF Edge, Prescaler, Incr
<1> QED BY <1>1, <1>2, <1>3, <1>4, <1>5, <1>6

(* Where no prescaler is below 5, the crossings of the tick before are     *)
(* over when the timer ticks.                                              *)
LEMMA SlowTick ==
  ASSUME Slow, AlarmInv, Incr
  PROVE  /\ prescaleCount \in Nat /\ prescaleCount >= 5
         /\ \A r \in Halves : transit[r] = reg[r]
<1> USE DEF AlarmInv, BasicInv, SlowInv
<1>1. prescaleCount \in Nat /\ prescaleCount >= 5
  <2>1. On(reg["ctrl"]) /\ prescaleCount = reg["ctrl"].prescaler
    BY DEF Incr, CtrlInv
  <2>2. prescaleCount \in Prescalers
    BY <2>1 DEF On
  <2> QED BY <2>2, PrescalerAssumption DEF Slow
<1>2. ASSUME NEW r \in Halves PROVE transit[r] = reg[r]
  <2>1. wait[r] \in 0..3
    BY DEF TypeOK
  <2>2. Over(r) <= 3 \/ Over(r) + prescaleCount <= 6
    BY DEF OverInv
  <2>3. Over(r) = wait[r] + IF transit[r] = reg[r] THEN 0 ELSE 4
    BY DEF Over
  <2> QED BY <1>1, <2>1, <2>2, <2>3
<1> QED BY <1>1, <1>2

(* When the timer ticks, it has seen the clears. *)
LEMMA TickFacts ==
  ASSUME AlarmInv, prompt \/ Slow, Incr, vis["ctrl"].on
  PROVE  flight["ctrl"] = 0 /\ \A r \in Halves : ~Pend(r)
<1> USE DEF AlarmInv, BasicInv, SlowInv
<1>1. flight["ctrl"] \in 0..3
  BY DEF TypeOK, Regs
<1>2. flight["ctrl"] = 0 /\ call.todo = <<>>
  BY <1>1 DEF CtrlInv, Incr
<1>3. ASSUME NEW r \in Halves, Pend(r) PROVE FALSE
  <2>1. wait[r] \in 0..3
    BY DEF TypeOK
  <2>2. ~Mine(r) /\ ~Enabling /\ r \notin Left
    BY <1>2, NoWrites DEF Mine, Enabling, Left
  <2>3. CASE prompt
    BY <1>2, <1>3, <2>1, <2>2, <2>3 DEF SoonInv
  <2>4. CASE Slow
    BY <1>3, <2>1, <2>2, <2>4, SlowTick DEF OvertakenInv
  <2> QED BY <2>3, <2>4
<1> QED BY <1>2, <1>3

LEMMA EdgeType ==
  ASSUME AlarmInv, Edge
  PROVE  TypeOK'
<1> USE DEF AlarmInv, BasicInv, SlowInv
<1>1. UNCHANGED <<vis, busy, skew, call, threshold, from>>
  BY DEF Edge
<1>2. ASSUME NEW r \in Halves
      PROVE  reg'[r] \in 0..(Half - 1) /\ transit'[r] \in 0..(Half - 1)
  <2>1. reg[r] \in 0..(Half - 1) /\ vis[r] \in 0..(Half - 1) /\ transit[r] \in 0..(Half - 1)
    BY DEF TypeOK
  <2>2. reg["lo"] \in Nat /\ reg["hi"] \in Nat
    BY HalfAssumption DEF TypeOK, Halves
  <2>3. Count \in Nat
    BY <2>2, HalfAssumption DEF Count, Number
  <2>4. NextHalf(r) \in 0..(Half - 1)
    BY <2>3, HalfAssumption DEF NextHalf
  <2>5. Ds(r) \in 0..(Half - 1)
    BY <2>1, <2>4 DEF Ds
  <2>6. transit'[r] \in {Ds(r), reg[r], transit[r]} /\ reg'[r] = Ds(r)
    BY DEF Edge, Regs
  <2> QED BY <2>1, <2>5, <2>6
<1>3. {reg["ctrl"], vis["ctrl"]}' \subseteq [on : BOOLEAN, prescaler : 0..PrescalerMask]
  BY <1>1, EdgeOther DEF Regs, Halves, TypeOK
<1>4. DOMAIN reg' = Regs /\ flight' \in [Regs -> 0..3] /\ held' \in [Halves -> BOOLEAN]
  <2>1. ASSUME NEW r \in Regs PROVE (IF flight[r] = 0 THEN 0 ELSE flight[r] - 1) \in 0..3
    BY DEF TypeOK
  <2>2. ASSUME NEW r \in Halves PROVE (wait[r] # 0 /\ (held[r] \/ Pulse(r))) \in BOOLEAN
    OBVIOUS
  <2> QED BY <2>1, <2>2 DEF Edge
<1>5. wait' \in [Halves -> 0..3]
  <2>1. ASSUME NEW r \in Halves
        PROVE  (IF LatchD(r) \/ LatchQ(r) THEN 3 ELSE IF wait[r] = 0 THEN 0 ELSE wait[r] - 1) \in 0..3
    BY DEF TypeOK
  <2> QED BY <2>1 DEF Edge
<1>6. due' \in [Regs -> {"none", "ack", "update"}]
  BY DEF Edge, Event
<1>7. ticks' \in Nat
  BY DEF Edge, TypeOK
<1>8. transit' \in [Halves -> 0..(Half - 1)]
  <2>1. transit' = [r \in Halves |-> transit'[r]]
    BY DEF Edge
  <2> QED BY <1>2, <2>1
<1> QED BY <1>1, <1>2, <1>3, <1>4, <1>5, <1>6, <1>7, <1>8, EdgePrescaler DEF TypeOK

LEMMA EdgeBusy ==
  ASSUME AlarmInv, Edge
  PROVE  BusyInv'
<1> USE DEF AlarmInv, BasicInv, SlowInv
<1> SUFFICES ASSUME NEW r \in Regs
             PROVE  /\ Pend(r)' => r \in busy' /\ due'[r] # "ack"
                    /\ due'[r] = "ack" => r \in busy'
                    /\ r \in Halves => ~(flight'[r] > 0 /\ held'[r])
  BY DEF BusyInv
<1>1. busy' = busy /\ (due'[r] = "ack" <=> Accept(r))
  BY DEF Edge, Event
<1>2. Pend(r) => r \in busy
  BY DEF BusyInv
<1>3. CASE r \in Halves
  <2>1. flight[r] \in 0..3 /\ (flight[r] > 0 => ~held[r])
    BY <1>3 DEF TypeOK, BusyInv
  <2>2. held'[r] => held[r] \/ flight[r] = 1
    BY <1>3 DEF Edge, Pulse
  <2> QED BY <1>1, <1>2, <1>3, <2>1, <2>2, EdgeHalf
<1>4. CASE r \notin Halves
  BY <1>1, <1>2, <1>4, EdgeOther
<1> QED BY <1>3, <1>4

LEMMA EdgeCtrl ==
  ASSUME AlarmInv, Edge
  PROVE  CtrlInv'
<1> USE DEF AlarmInv, BasicInv, SlowInv
<1>1. vis' = vis /\ call' = call
  BY DEF Edge
<1>2. /\ flight'["ctrl"] = IF flight["ctrl"] = 0 THEN 0 ELSE flight["ctrl"] - 1
      /\ reg'["ctrl"] = IF flight["ctrl"] = 1 THEN vis["ctrl"] ELSE reg["ctrl"]
      /\ flight["ctrl"] \in 0..3
  BY EdgeOther DEF Regs, Halves
<1> QED BY <1>1, <1>2 DEF CtrlInv

LEMMA EdgeOverInv ==
  ASSUME Slow, AlarmInv, Edge
  PROVE  OverInv'
<1> USE DEF AlarmInv, BasicInv, SlowInv
<1> SUFFICES ASSUME NEW r \in Halves
             PROVE  Over(r)' <= 3 \/ Over(r)' + prescaleCount' <= 6
  BY DEF OverInv
<1>1. Incr => transit[r] = reg[r]
  BY SlowTick
<1>2. Over(r) <= 3 \/ Over(r) + prescaleCount <= 6
  BY DEF OverInv
<1>3. prescaleCount' \in Nat
  BY EdgePrescaler, PrescalerAssumption
<1> QED BY <1>1, <1>2, <1>3, EdgeOver, EdgePrescaler

LEMMA EdgeOvertaken ==
  ASSUME Slow, AlarmInv, Edge
  PROVE  OvertakenInv'
<1> USE DEF AlarmInv, BasicInv, SlowInv
<1> SUFFICES ASSUME NEW r \in Halves, Pend(r)', ~Mine(r)', ~Enabling'
             PROVE  /\ flight'[r] = 0
                    /\ \/ wait'[r] + prescaleCount' <= 3
                       \/ /\ wait'[r] = 0 /\ prescaleCount' <= 4
                          /\ vis'["ctrl"].on \/ flight'["ctrl"] = 3
  BY DEF OvertakenInv
<1>1. vis' = vis /\ call' = call
  BY DEF Edge
<1>2. Pend(r) /\ ~Accept(r) /\ ~Mine(r)
  BY <1>1, EdgeHalf DEF Mine, Left
<1>3. wait[r] \in 0..3 /\ wait'[r] \in 0..3 /\ flight[r] \in 0..3
  BY EdgeType DEF TypeOK, Regs
<1>4. prescaleCount \in Nat /\ prescaleCount' \in Nat /\ prescaleCount' <= prescaleCount + 1
  BY EdgePrescaler, PrescalerAssumption
<1>5. CASE Enabling
  <2>1. flight["ctrl"] = 1 /\ vis["ctrl"].on /\ ~reg["ctrl"].on
    BY <1>1, <1>5, EdgeOther DEF Enabling, CtrlInv, Regs, Halves
  <2>2. ~Incr /\ prescaleCount' = prescaleCount
    BY <2>1, EdgePrescaler
  <2>3. /\ flight[r] <= 1
        /\ Over(r) < 1 \/ Over(r) + prescaleCount <= 4 \/ (Over(r) = 1 /\ prescaleCount <= 4)
    BY <1>2, <1>5, <2>1 DEF EnablingInv
  <2>4. flight'[r] = 0 /\ (wait[r] # 0 => wait'[r] <= wait[r] - 1)
    BY <1>3, <2>3, EdgeHalf
  <2>5. wait[r] # 0
    <3>1. wait[r] = 0 => flight[r] = 1 \/ held[r]
      BY <1>2, <1>3, <2>3 DEF Pend
    <3> QED BY <1>2, <3>1 DEF Accept, Pulse
  <2>6. Over(r) \in Nat /\ wait[r] <= Over(r)
    BY <2>2, EdgeOver
  <2> QED BY <1>1, <1>3, <1>4, <2>1, <2>2, <2>3, <2>4, <2>5, <2>6
<1>6. CASE ~Enabling
  <2>1. flight[r] = 0
    BY <1>2, <1>6 DEF OvertakenInv
  <2>2. wait[r] # 0
    BY <1>2, <2>1 DEF Pend, Accept
  <2>3. wait[r] + prescaleCount <= 3
    BY <1>2, <1>6, <2>2 DEF OvertakenInv
  <2>4. flight'[r] = 0 /\ wait'[r] <= wait[r] - 1
    BY <2>1, <2>2, EdgeHalf
  <2> QED BY <1>3, <1>4, <2>3, <2>4
<1> QED BY <1>5, <1>6

LEMMA EdgeStopped ==
  ASSUME Slow, AlarmInv, Edge
  PROVE  StoppedInv'
<1> USE DEF AlarmInv, BasicInv, SlowInv
<1> SUFFICES ASSUME NEW r \in Halves, ~vis'["ctrl"].on, flight'["ctrl"] = 0,
                    Pend(r)' \/ ~Mine(r)', Over(r)' = 3
             PROVE  prescaleCount' <= 4
  BY DEF StoppedInv
<1>1. vis' = vis /\ call' = call
  BY DEF Edge
<1>2. prescaleCount \in Nat /\ prescaleCount' \in Nat /\ prescaleCount' <= prescaleCount + 1
  BY EdgePrescaler, PrescalerAssumption
<1>3. Incr => prescaleCount' = 0
  BY EdgePrescaler
<1>4. ASSUME ~Accept(r), ~Incr PROVE prescaleCount' <= 4
  <2>1. Over(r) \in Nat /\ Over(r) = 4
    BY <1>4, EdgeOver
  <2> QED BY <1>2, <2>1 DEF OverInv
<1>5. ASSUME Accept(r), ~Incr PROVE prescaleCount' <= 4
  <2>1. Pend(r) /\ ~Mine(r) /\ wait[r] = 0
    BY <1>1, <1>5, EdgeHalf DEF Mine, Left
  <2>2. ~Enabling
    BY <1>1 DEF Enabling
  <2>3. \/ prescaleCount <= 3
        \/ prescaleCount <= 4 /\ flight["ctrl"] = 3
    BY <1>1, <1>2, <2>1, <2>2 DEF OvertakenInv
  <2>4. flight["ctrl"] # 3
    BY EdgeOther DEF Regs, Halves
  <2> QED BY <1>2, <2>3, <2>4
<1> QED BY <1>2, <1>3, <1>4, <1>5

LEMMA EdgeEnabling ==
  ASSUME Slow, AlarmInv, Edge
  PROVE  EnablingInv'
<1> USE DEF AlarmInv, BasicInv, SlowInv
<1> SUFFICES ASSUME Enabling', NEW r \in Halves, Pend(r)'
             PROVE  /\ flight'[r] <= flight'["ctrl"]
                    /\ \/ Over(r)' < flight'["ctrl"]
                       \/ Over(r)' + prescaleCount' <= flight'["ctrl"] + 3
                       \/ Over(r)' = flight'["ctrl"] /\ prescaleCount' <= 4
  BY DEF EnablingInv
<1>1. flight'["ctrl"] = flight["ctrl"] - 1 /\ flight["ctrl"] \in 2..3
  BY EdgeOther DEF Regs, Halves, Enabling
<1>2. Enabling /\ ~reg["ctrl"].on
  <2>1. vis' = vis
    BY DEF Edge
  <2> QED BY <1>1, <2>1 DEF Enabling, CtrlInv
<1>3. ~Incr /\ prescaleCount' = prescaleCount /\ prescaleCount \in Nat
  BY <1>2, EdgePrescaler
<1>4. Pend(r) /\ ~Accept(r)
  BY EdgeHalf
<1>5. Over(r) \in Nat /\ Over(r)' = IF Over(r) = 0 THEN 0 ELSE Over(r) - 1
  BY <1>3, <1>4, EdgeOver
<1>6. flight[r] \in 0..3 /\ flight'[r] = IF flight[r] = 0 THEN 0 ELSE flight[r] - 1
  BY EdgeHalf DEF TypeOK, Regs
<1>7. /\ flight[r] <= flight["ctrl"]
      /\ \/ Over(r) < flight["ctrl"]
         \/ Over(r) + prescaleCount <= flight["ctrl"] + 3
         \/ Over(r) = flight["ctrl"] /\ prescaleCount <= 4
  BY <1>2, <1>4 DEF EnablingInv
<1> QED BY <1>1, <1>3, <1>5, <1>6, <1>7

(* When the timer ticks, its count is the number of ticks so far. *)
LEMMA TickCount ==
  ASSUME AlarmInv, prompt \/ Slow, Incr, vis["ctrl"].on
  PROVE  Count = ticks
<1> USE DEF AlarmInv, BasicInv, SlowInv
<1>1. \A r \in Halves : reg[r] = Part(r, ticks)
  BY TickFacts DEF CountInv
<1>2. reg["lo"] = ticks % Half /\ reg["hi"] = ticks \div Half
  BY <1>1 DEF Part, Halves
<1> QED BY <1>2, DivMod DEF Count, TypeOK

LEMMA ZeroPart ==
  ASSUME NEW r
  PROVE  Part(r, 0) = 0
BY HalfAssumption DEF Part

LEMMA EdgeCount ==
  ASSUME AlarmInv, prompt \/ Slow, Edge
  PROVE  CountInv'
<1> USE DEF AlarmInv, BasicInv, SlowInv
<1>1. vis' = vis /\ call' = call
  BY DEF Edge
<1>2. /\ flight["ctrl"] \in 0..3
      /\ flight'["ctrl"] = IF flight["ctrl"] = 0 THEN 0 ELSE flight["ctrl"] - 1
  BY EdgeOther DEF Regs, Halves
<1>3. ASSUME vis["ctrl"].on
      PROVE  /\ ticks' <= MaxCount
             /\ flight'["ctrl"] > 0 => ticks' = 0
             /\ \A r \in Halves : IF Pend(r)' THEN vis[r] = 0 /\ ticks' = 0
                                            ELSE reg'[r] = Part(r, ticks')
  <2>1. CASE Incr
    <3>1. Count = ticks /\ Count < MaxCount /\ ticks' = ticks + 1 /\ ticks \in Nat
      BY <1>3, <2>1, TickCount DEF Edge, TypeOK
    <3>2. flight["ctrl"] = 0 /\ \A r \in Halves : ~Pend(r)
      BY <1>3, <2>1, TickFacts
    <3>3. ASSUME NEW r \in Halves PROVE ~Pend(r)' /\ reg'[r] = Part(r, ticks')
      <4>1. ~Pend(r) /\ ~Accept(r)
        BY <3>2, EdgeHalf
      <4>2. ~Pend(r)' /\ reg'[r] = NextHalf(r)
        BY <2>1, <4>1, EdgeHalf
      <4>3. NextHalf(r) = Part(r, ticks + 1)
        BY <3>1, NextPart
      <4> QED BY <3>1, <4>2, <4>3
    <3> QED BY <1>2, <3>1, <3>2, <3>3, CountAssumption
  <2>2. CASE ~Incr
    <3>1. ticks' = ticks
      BY <2>2 DEF Edge
    <3>2. ASSUME NEW r \in Halves
          PROVE  IF Pend(r)' THEN vis[r] = 0 /\ ticks' = 0 ELSE reg'[r] = Part(r, ticks')
      <4>1. IF Pend(r) THEN vis[r] = 0 /\ ticks = 0 ELSE reg[r] = Part(r, ticks)
        BY <1>3 DEF CountInv
      <4>2. CASE Accept(r)
        BY <3>1, <4>1, <4>2, EdgeHalf, ZeroPart
      <4>3. CASE ~Accept(r)
        BY <2>2, <3>1, <4>1, <4>3, EdgeHalf
      <4> QED BY <4>2, <4>3
    <3> QED BY <1>2, <1>3, <3>1, <3>2 DEF CountInv
  <2> QED BY <2>1, <2>2
<1> QED BY <1>1, <1>3 DEF CountInv

LEMMA EdgeMine ==
  ASSUME AlarmInv, Edge
  PROVE  MineInv'
<1> USE DEF AlarmInv, BasicInv
<1>1. vis' = vis /\ call' = call
  BY DEF Edge
<1>2. /\ flight["ctrl"] \in 0..3
      /\ flight'["ctrl"] = IF flight["ctrl"] = 0 THEN 0 ELSE flight["ctrl"] - 1
  BY EdgeOther DEF Regs, Halves
<1>3. ASSUME NEW r \in Halves, Mine(r)
      PROVE  IF Pend(r)' THEN vis[r] = 0 /\ (flight'["ctrl"] > 0 => flight'[r] >= flight'["ctrl"])
                        ELSE reg'[r] = 0 /\ flight'["ctrl"] = 0
  <2>1. ~vis["ctrl"].on
    BY <1>3 DEF Mine, CtrlInv
  <2>2. flight["ctrl"] = 0 => ~Incr
    BY <2>1 DEF CtrlInv, Incr
  <2>3. flight[r] \in 0..3 /\ ~(flight[r] > 0 /\ held[r])
    BY DEF TypeOK, BusyInv, Regs
  <2>4. flight'[r] = IF flight[r] = 0 THEN 0 ELSE flight[r] - 1
    BY EdgeHalf
  <2>5. IF Pend(r) THEN vis[r] = 0 /\ (flight["ctrl"] > 0 => flight[r] >= flight["ctrl"])
                   ELSE reg[r] = 0 /\ flight["ctrl"] = 0
    BY <1>3 DEF MineInv
  <2>6. CASE Accept(r)
    <3>1. Pend(r) /\ ~Pend(r)' /\ reg'[r] = vis[r]
      BY <2>6, EdgeHalf
    <3>2. flight[r] <= 1
      BY <2>3, <2>6 DEF Accept, Pulse
    <3> QED BY <1>2, <2>3, <2>5, <3>1, <3>2
  <2>7. CASE ~Accept(r)
    <3>1. Pend(r)' <=> Pend(r)
      BY <2>7, EdgeHalf
    <3>2. CASE Pend(r)
      BY <1>2, <2>3, <2>4, <2>5, <3>1, <3>2
    <3>3. CASE ~Pend(r)
      BY <1>2, <2>2, <2>5, <2>7, <3>1, <3>3, EdgeHalf
    <3> QED BY <3>2, <3>3
  <2> QED BY <2>6, <2>7
<1> QED BY <1>1, <1>3 DEF MineInv, Mine, Left

LEMMA EdgeSoon ==
  ASSUME AlarmInv, Edge, prompt'
  PROVE  prompt /\ SoonInv'
<1> USE DEF AlarmInv, BasicInv
<1>1. vis' = vis /\ call' = call
  BY DEF Edge
<1>2. /\ flight["ctrl"] \in 0..3
      /\ flight'["ctrl"] = IF flight["ctrl"] = 0 THEN 0 ELSE flight["ctrl"] - 1
  BY EdgeOther DEF Regs, Halves
<1>3. prompt /\ \A r \in Halves : r \notin Left
  BY DEF Edge, Left, Targets
<1>4. Left' = Left /\ \A r : Mine(r)' <=> Mine(r)
  BY <1>1 DEF Left, Mine
<1>5. ASSUME NEW r \in Halves, Pend(r)'
      PROVE  IF vis["ctrl"].on THEN held'[r] /\ wait'[r] < flight'["ctrl"]
             ELSE /\ Mine(r)
                  /\ IF flight'["ctrl"] > 0 THEN ~held'[r] /\ flight'[r] = flight'["ctrl"]
                                            ELSE held'[r] /\ wait'[r] <= 2
  <2>1. Pend(r) /\ ~Accept(r)
    BY <1>5, EdgeHalf
  <2>2. IF vis["ctrl"].on THEN held[r] /\ wait[r] < flight["ctrl"]
        ELSE /\ Mine(r)
             /\ IF flight["ctrl"] > 0 THEN ~held[r] /\ flight[r] = flight["ctrl"]
                                      ELSE held[r] /\ wait[r] <= 2
    BY <1>3, <2>1 DEF SoonInv
  <2>3. wait[r] \in 0..3 /\ flight[r] \in 0..3 /\ wait'[r] \in 0..3 /\ held[r] \in BOOLEAN
    BY EdgeType DEF TypeOK, Regs
  <2>4. /\ held'[r] <=> wait[r] # 0 /\ (held[r] \/ flight[r] = 1)
        /\ flight'[r] = IF flight[r] = 0 THEN 0 ELSE flight[r] - 1
        /\ wait[r] # 0 => wait'[r] <= wait[r] - 1
    BY EdgeHalf DEF Edge, Pulse
  <2>5. wait[r] = 0 => ~held[r] /\ flight[r] # 1
    BY <2>1 DEF Accept, Pulse
  <2>6. CASE vis["ctrl"].on
    BY <1>2, <2>2, <2>3, <2>4, <2>5, <2>6
  <2>7. CASE ~vis["ctrl"].on /\ flight["ctrl"] > 1
    BY <1>2, <2>2, <2>3, <2>4, <2>5, <2>7
  <2>8. CASE ~vis["ctrl"].on /\ flight["ctrl"] = 1
    BY <1>2, <2>2, <2>3, <2>4, <2>5, <2>8
  <2>9. CASE ~vis["ctrl"].on /\ flight["ctrl"] = 0
    BY <1>2, <2>2, <2>3, <2>4, <2>5, <2>9
  <2> QED BY <1>2, <2>6, <2>7, <2>8, <2>9
<1> QED BY <1>1, <1>3, <1>4, <1>5 DEF SoonInv

LEMMA EdgeThold ==
  ASSUME AlarmInv, Edge
  PROVE  TholdInv'
<1> USE DEF AlarmInv, BasicInv, SlowInv
<1> SUFFICES ASSUME NEW x \in Tholds
             PROVE  /\ x \notin Left' => (IF flight'[x] > 0 THEN vis'[x] ELSE reg'[x]) = Part(x, threshold' - 1)
                    /\ vis'["ctrl"].on => flight'[x] <= flight'["ctrl"]
  BY DEF TholdInv, Part
<1>1. vis' = vis /\ call' = call /\ threshold' = threshold
  BY DEF Edge
<1>2. /\ flight[x] \in 0..3 /\ flight["ctrl"] \in 0..3
      /\ flight'[x] = IF flight[x] = 0 THEN 0 ELSE flight[x] - 1
      /\ flight'["ctrl"] = IF flight["ctrl"] = 0 THEN 0 ELSE flight["ctrl"] - 1
      /\ reg'[x] = IF flight[x] = 1 THEN vis[x] ELSE reg[x]
  BY EdgeOther DEF Regs, Halves, Tholds
<1>3. /\ x \notin Left => (IF flight[x] > 0 THEN vis[x] ELSE reg[x]) = Part(x, threshold - 1)
      /\ vis["ctrl"].on => flight[x] <= flight["ctrl"]
  BY DEF TholdInv
<1>4. Left' = Left
  BY <1>1 DEF Left
<1> QED BY <1>1, <1>2, <1>3, <1>4

LEMMA EdgeStep ==
  ASSUME AlarmInv, Edge
  PROVE  AlarmInv'
<1>1. BasicInv'
  BY EdgeType, EdgeBusy, EdgeCtrl, EdgeMine, EdgeThold DEF BasicInv
<1>2. Slow => SlowInv'
  BY EdgeOverInv, EdgeOvertaken, EdgeStopped, EdgeEnabling DEF SlowInv
<1>3. prompt' => prompt /\ SoonInv'
  BY EdgeSoon
<1>4. prompt' \/ Slow => CountInv'
  BY <1>3, EdgeCount
<1> QED BY <1>1, <1>2, <1>3, <1>4 DEF AlarmInv

-----------------------------------------------------------------------------
(* What reaches software's side, and reads *)

(* Only software's copies of halves without a write on its way change.     *)
LEMMA QuietStep ==
  ASSUME AlarmInv, UNCHANGED <<timerVars, flight, transit, wait, held, threshold, ticks, prompt>>,
         call'.todo = call.todo, DOMAIN call' = DOMAIN call,
         DOMAIN vis' = Regs, \A r \in Regs : r \notin Halves \/ Pend(r) => vis'[r] = vis[r],
         \A r \in Halves : vis'[r] \in 0..(Half - 1),
         due' \in [Regs -> {"none", "ack", "update"}], busy' \subseteq Regs, BusyInv'
  PROVE  AlarmInv'
<1> USE DEF AlarmInv, BasicInv, SlowInv, timerVars
<1>1. vis'["ctrl"] = vis["ctrl"]
  BY DEF Regs, Halves
<1>2. /\ Left' = Left
      /\ \A r : (Mine(r)' <=> Mine(r)) /\ (Pend(r)' <=> Pend(r)) /\ Over(r)' = Over(r)
      /\ Enabling' <=> Enabling
  BY <1>1 DEF Left, Mine, Pend, Over, Enabling
<1>3. TypeOK'
  BY <1>1 DEF TypeOK
<1>4. CtrlInv'
  BY <1>1 DEF CtrlInv
<1>5. Slow => SlowInv'
  BY <1>1, <1>2 DEF OverInv, OvertakenInv, StoppedInv, EnablingInv
<1>6. (prompt' => SoonInv') /\ (prompt' \/ Slow => CountInv') /\ MineInv'
  <2>1. prompt' => SoonInv'
    BY <1>1, <1>2 DEF SoonInv
  <2>2. prompt' \/ Slow => CountInv'
    BY <1>1, <1>2 DEF CountInv, Regs
  <2>3. MineInv'
    BY <1>1, <1>2 DEF MineInv, Regs
  <2> QED BY <2>1, <2>2, <2>3
<1>7. TholdInv'
  <2> SUFFICES ASSUME NEW x \in Tholds
               PROVE  /\ x \notin Left => (IF flight[x] > 0 THEN vis'[x] ELSE reg[x]) = Part(x, threshold - 1)
                      /\ vis["ctrl"].on => flight[x] <= flight["ctrl"]
    BY <1>1, <1>2 DEF TholdInv, Part
  <2>1. vis'[x] = vis[x]
    BY DEF Regs, Halves, Tholds
  <2> QED BY <2>1 DEF TholdInv
<1> QED BY <1>3, <1>4, <1>5, <1>6, <1>7

LEMMA DeliverStep ==
  ASSUME AlarmInv, NEW S, Deliver(S)
  PROVE  AlarmInv'
<1> USE DEF AlarmInv, BasicInv, SlowInv
<1>1. ASSUME NEW r \in Regs
      PROVE  vis'[r] = IF r \in S /\ r \in Halves /\ (due[r] = "ack" \/ r \notin busy)
                       THEN transit[r] ELSE vis[r]
  BY DEF Deliver
<1>2. ASSUME NEW r \in Regs, r \notin Halves \/ Pend(r) PROVE vis'[r] = vis[r]
  BY <1>1, <1>2 DEF BusyInv
<1>3. ASSUME NEW r \in Halves PROVE vis'[r] \in 0..(Half - 1)
  BY <1>1 DEF TypeOK, Regs
<1>4. BusyInv'
  <2>1. ASSUME NEW r PROVE Pend(r)' <=> Pend(r)
    BY DEF Deliver, Pend
  <2> QED BY <2>1 DEF Deliver, BusyInv
<1>5. due' \in [Regs -> {"none", "ack", "update"}] /\ busy' \subseteq Regs /\ DOMAIN vis' = Regs
  BY DEF Deliver, TypeOK
<1>6. UNCHANGED <<timerVars, flight, transit, wait, held, threshold, ticks, prompt, call>>
  BY DEF Deliver, history
<1> QED BY <1>2, <1>3, <1>4, <1>5, <1>6, QuietStep

LEMMA ReadStep ==
  ASSUME AlarmInv, GetCount \/ ReadLow \/ ReadCheck \/ Return
  PROVE  AlarmInv'
<1> USE DEF AlarmInv, BasicInv, SlowInv
<1>1. UNCHANGED <<timerVars, vis, busy, flight, transit, wait, held, due, threshold, ticks, prompt>>
  BY DEF GetCount, ReadLow, ReadCheck, Return, Read, history, crossingVars
<1>2. DOMAIN call = DOMAIN NoCall /\ "todo" \in DOMAIN NoCall
  BY DEF TypeOK, NoCall
<1>3. call'.todo = call.todo /\ DOMAIN call' = DOMAIN call
  <2>1. CASE GetCount
    BY <1>2, <2>1 DEF GetCount
  <2>2. CASE ReadLow
    BY <1>2, <2>2 DEF ReadLow
  <2>3. CASE ReadCheck
    BY <1>2, <2>3 DEF ReadCheck
  <2>4. CASE Return
    BY <1>2, <2>4 DEF Return, NoCall
  <2> QED BY <2>1, <2>2, <2>3, <2>4
<1>4. BusyInv'
  BY <1>1 DEF BusyInv, Pend
<1>5. \A r \in Halves : vis'[r] \in 0..(Half - 1)
  BY <1>1 DEF TypeOK
<1>6. /\ due' \in [Regs -> {"none", "ack", "update"}] /\ busy' \subseteq Regs /\ DOMAIN vis' = Regs
      /\ \A r \in Regs : vis'[r] = vis[r]
  BY <1>1 DEF TypeOK
<1> QED BY <1>1, <1>3, <1>4, <1>5, <1>6, QuietStep

-----------------------------------------------------------------------------
(* Writes *)

(* A write to r, whatever the call around it. *)
LEMMA WriteFacts ==
  ASSUME AlarmInv, NEW r \in Regs, NEW val, Write(r, val)
  PROVE  /\ r \notin busy /\ ~Pend(r) /\ flight[r] = 0
         /\ UNCHANGED <<reg, prescaleCount, transit, wait, held, due>>
         /\ vis' = [vis EXCEPT ![r] = val] /\ vis'[r] = val
         /\ flight' \in [Regs -> 0..3] /\ flight'[r] = 3 /\ Pend(r)'
         /\ \A x \in Regs \ {r} : /\ vis'[x] = vis[x] /\ flight'[x] = flight[x]
                                  /\ Pend(x)' <=> Pend(x)
         /\ \A x \in Halves : Over(x)' = Over(x)
         /\ BusyInv' /\ busy' \subseteq Regs
<1> USE DEF AlarmInv, BasicInv, SlowInv
<1>1. r \notin busy
  BY DEF Write, Access
<1>2. ~Pend(r) /\ due[r] # "ack"
  BY <1>1 DEF BusyInv
<1>3. flight[r] = 0
  BY <1>2 DEF Pend, TypeOK
<1>4. UNCHANGED <<reg, prescaleCount, transit, wait, held, due>>
  BY DEF Write, timerVars
<1>5. /\ vis' = [vis EXCEPT ![r] = val] /\ vis'[r] = val
      /\ flight' \in [Regs -> 0..3] /\ flight'[r] = 3
      /\ \A x \in Regs \ {r} : vis'[x] = vis[x] /\ flight'[x] = flight[x]
  BY DEF Write, TypeOK
<1>6. Pend(r)' /\ \A x \in Regs \ {r} : Pend(x)' <=> Pend(x)
  BY <1>4, <1>5 DEF Pend
<1>7. \A x \in Halves : Over(x)' = Over(x)
  BY <1>4 DEF Over
<1>8. busy' = busy \cup {r}
  BY DEF Write
<1>9. BusyInv'
  <2> SUFFICES ASSUME NEW x \in Regs
               PROVE  /\ Pend(x)' => x \in busy' /\ due'[x] # "ack"
                      /\ due'[x] = "ack" => x \in busy'
                      /\ x \in Halves => ~(flight'[x] > 0 /\ held'[x])
    BY DEF BusyInv
  <2>1. CASE x = r
    BY <1>2, <1>4, <1>8, <2>1 DEF Pend
  <2>2. CASE x # r
    BY <1>4, <1>5, <1>6, <1>8, <2>2 DEF BusyInv
  <2> QED BY <2>1, <2>2
<1>10. busy' \subseteq Regs
  BY <1>8 DEF TypeOK
<1> QED BY <1>1, <1>2, <1>3, <1>4, <1>5, <1>6, <1>7, <1>9, <1>10

(* The type invariant after a write. *)
LEMMA WriteType ==
  ASSUME AlarmInv, NEW r \in Regs, NEW val, Write(r, val),
         r \in Halves => val \in 0..(Half - 1),
         r = "ctrl" => val \in [on : BOOLEAN, prescaler : 0..PrescalerMask],
         DOMAIN call' = DOMAIN NoCall, Writes(call'.todo, threshold'),
         threshold' \in 1..(Half * Half), ticks' \in Nat
  PROVE  TypeOK'
<1> USE DEF AlarmInv, BasicInv, SlowInv
<1>1. /\ UNCHANGED <<reg, prescaleCount, transit, wait, held, due>>
      /\ vis' = [vis EXCEPT ![r] = val] /\ vis'[r] = val
      /\ flight' \in [Regs -> 0..3] /\ busy' \subseteq Regs
      /\ \A x \in Regs \ {r} : vis'[x] = vis[x]
  BY WriteFacts
<1>2. DOMAIN vis' = Regs
  BY <1>1 DEF TypeOK
<1>3. \A x \in Halves : vis'[x] \in 0..(Half - 1)
  BY <1>1 DEF TypeOK, Regs
<1>4. vis'["ctrl"] \in [on : BOOLEAN, prescaler : 0..PrescalerMask]
  BY <1>1 DEF TypeOK, Regs
<1> QED BY <1>1, <1>2, <1>3, <1>4 DEF TypeOK

(* A call begins: it stops the timer, and has written neither half yet.    *)
LEMMA StoppingStep ==
  ASSUME AlarmInv, NEW writes, Stopping(writes),
         Writes(writes, threshold'), threshold' \in 1..(Half * Half),
         (writes = <<>> /\ prompt' = prompt) \/ Halves \subseteq Targets(writes),
         threshold' = threshold \/ Tholds \subseteq Targets(writes)
  PROVE  AlarmInv'
<1> USE DEF AlarmInv, BasicInv, SlowInv
<1>1. /\ call = NoCall /\ Write("ctrl", Toggled(FALSE)) /\ UNCHANGED <<ticks, from>>
      /\ call' = [NoCall EXCEPT !.todo = writes] /\ "ctrl" \in Regs
  BY DEF Stopping, Regs
<1>2. call'.todo = writes /\ DOMAIN call' = DOMAIN NoCall /\ call.todo = <<>>
  BY <1>1 DEF NoCall
<1>3. vis["ctrl"] \in [on : BOOLEAN, prescaler : 0..PrescalerMask]
  BY DEF TypeOK
<1>4. /\ Toggled(FALSE) \in [on : BOOLEAN, prescaler : 0..PrescalerMask]
      /\ ~Toggled(FALSE).on
  BY <1>3 DEF Toggled
<1>5. /\ ~Pend("ctrl") /\ flight["ctrl"] = 0
      /\ UNCHANGED <<reg, prescaleCount, wait, held>>
      /\ flight'["ctrl"] = 3 /\ ~vis'["ctrl"].on
      /\ \A x \in Halves : Over(x)' = Over(x)
      /\ BusyInv'
  BY <1>1, <1>4, WriteFacts
<1>6. \A x \in Halves \cup Tholds : /\ x \in Regs /\ vis'[x] = vis[x] /\ flight'[x] = flight[x]
                                    /\ Pend(x)' <=> Pend(x)
  BY <1>1, WriteFacts DEF Regs, Halves, Tholds
<1>7. \A r \in Halves : ~Mine(r) /\ ~Mine(r)'
  BY <1>2 DEF Mine, Left
<1>8. ~Enabling /\ ~Enabling'
  BY <1>5 DEF Enabling
<1>9. TypeOK'
  <2>1. ticks' \in Nat
    BY <1>1 DEF TypeOK
  <2>2. "ctrl" \notin Halves
    BY DEF Halves
  <2> QED BY <1>1, <1>2, <1>4, <2>1, <2>2, WriteType
<1>10. CtrlInv'
  BY <1>5 DEF CtrlInv
<1>11. Slow => OverInv'
  BY <1>5 DEF OverInv
<1>12. Slow => OvertakenInv'
  BY <1>5, <1>6, <1>7, <1>8 DEF OvertakenInv
<1>13. StoppedInv' /\ EnablingInv' /\ CountInv' /\ MineInv'
  BY <1>5, <1>7, <1>8 DEF StoppedInv, EnablingInv, CountInv, MineInv
<1>14. TholdInv'
  <2> SUFFICES ASSUME NEW x \in Tholds, x \notin Left'
               PROVE  (IF flight'[x] > 0 THEN vis'[x] ELSE reg'[x]) = Part(x, threshold' - 1)
    BY <1>5 DEF TholdInv, Part
  <2>1. threshold' = threshold /\ x \notin Left
    BY <1>2, NoWrites DEF Left
  <2>2. (IF flight[x] > 0 THEN vis[x] ELSE reg[x]) = Part(x, threshold - 1)
    BY <2>1 DEF TholdInv
  <2> QED BY <1>5, <1>6, <2>1, <2>2
<1>15. prompt' => SoonInv'
  <2>1. CASE Halves \subseteq Targets(writes)
    BY <1>2, <1>5, <2>1 DEF SoonInv, Left
  <2>2. CASE writes = <<>> /\ prompt' = prompt
    <3>1. Left = {} /\ Left' = {}
      BY <1>2, <2>2, NoWrites DEF Left
    <3>2. ASSUME prompt, NEW r \in Halves PROVE ~Pend(r)'
      <4>1. wait[r] \in 0..3
        BY DEF TypeOK
      <4> QED BY <1>5, <1>6, <1>7, <3>1, <3>2, <4>1 DEF SoonInv
    <3> QED BY <2>2, <3>1, <3>2 DEF SoonInv
  <2> QED BY <2>1, <2>2
<1> QED BY <1>5, <1>9, <1>10, <1>11, <1>12, <1>13, <1>14, <1>15

LEMMA CallStep ==
  ASSUME AlarmInv, Start \/ Stop \/ Restart
  PROVE  AlarmInv'
<1>1. threshold \in 1..(Half * Half)
  BY DEF AlarmInv, BasicInv, TypeOK
<1>2. CASE Start
  <2>1. PICK thold \in Thresholds, p \in Prescalers :
          Stopping(StartWrites(thold, p)) /\ threshold' = thold
    BY <1>2 DEF Start
  <2> DEFINE s == StartWrites(thold, p)
  <2>2. Writes(s, thold) /\ Halves \cup Tholds \subseteq Targets(s)
    BY StartIsWrites
  <2>3. thold \in 1..(Half * Half)
    BY ThresholdAssumption
  <2> QED BY <2>1, <2>2, <2>3, StoppingStep
<1>3. CASE Stop
  BY <1>1, <1>3, NoWrites, StoppingStep DEF Stop
<1>4. CASE Restart
  <2>1. vis["ctrl"] \in [on : BOOLEAN, prescaler : 0..PrescalerMask]
    BY DEF AlarmInv, BasicInv, TypeOK
  <2>2. On(Toggled(TRUE))
    BY <1>4, <2>1 DEF Restart, On, Toggled
  <2> QED BY <1>1, <1>4, <2>2, RestartIsWrites, StoppingStep DEF Restart
<1> QED BY <1>2, <1>3, <1>4

(* A call's next write, to the counter or the threshold. *)
LEMMA SetUpStep ==
  ASSUME AlarmInv, NextWrite, Target # "ctrl"
  PROVE  AlarmInv'
<1> USE DEF AlarmInv, BasicInv, SlowInv
<1>0. PICK w, v : w = Target /\ v = Value
  OBVIOUS
<1>1. /\ call.todo # <<>> /\ Writes(call.todo, threshold) /\ Write(w, v) /\ w # "ctrl"
      /\ call' = [call EXCEPT !.todo = Tail(@)] /\ UNCHANGED <<threshold, ticks, prompt>>
  BY <1>0 DEF NextWrite, TypeOK, Target, Value
<1>2. call'.todo = Tail(call.todo) /\ DOMAIN call' = DOMAIN NoCall
  BY <1>1 DEF TypeOK, NoCall
<1>3. /\ w \in Left /\ w \in Regs /\ w # "ctrl"
      /\ w \in Halves => v = 0
      /\ w \in Tholds => v = Part(w, threshold - 1)
      /\ Tail(call.todo) # <<>> /\ Writes(Tail(call.todo), threshold)
      /\ Targets(Tail(call.todo)) = Left \ {w}
  BY <1>0, <1>1, TailIsWrites DEF Left, Target, Value
<1>4. Left' = Left \ {w} /\ call'.todo # <<>> /\ Writes(call'.todo, threshold')
  BY <1>1, <1>2, <1>3 DEF Left
<1>5. /\ ~Pend(w) /\ Pend(w)' /\ flight'[w] = 3 /\ vis'[w] = v
      /\ flight' \in [Regs -> 0..3]
      /\ UNCHANGED <<reg, prescaleCount, wait, held>>
      /\ \A x \in Regs \ {w} : /\ vis'[x] = vis[x] /\ flight'[x] = flight[x]
                               /\ Pend(x)' <=> Pend(x)
      /\ \A x \in Halves : Over(x)' = Over(x)
      /\ BusyInv'
  BY <1>1, <1>3, WriteFacts
<1>6. ~vis["ctrl"].on /\ vis'["ctrl"] = vis["ctrl"] /\ flight'["ctrl"] = flight["ctrl"]
  BY <1>1, <1>3, <1>5 DEF CtrlInv, Regs
<1>7. /\ \A r \in Halves \ {w} : Mine(r)' <=> Mine(r)
      /\ w \in Halves => Mine(w)' /\ ~Mine(w)
  BY <1>1, <1>3, <1>4 DEF Mine
<1>8. TypeOK'
  <2>1. w \in Halves => v \in 0..(Half - 1)
    BY <1>3, HalfAssumption
  <2>2. threshold' \in 1..(Half * Half) /\ ticks' \in Nat
    BY <1>1 DEF TypeOK
  <2> QED BY <1>1, <1>2, <1>3, <1>4, <2>1, <2>2, WriteType
<1>9. CtrlInv' /\ EnablingInv' /\ CountInv'
  BY <1>5, <1>6 DEF CtrlInv, EnablingInv, CountInv, Enabling
<1>10. Slow => OverInv'
  BY <1>5 DEF OverInv
<1>11. ASSUME Slow PROVE OvertakenInv' /\ StoppedInv'
  <2>1. ASSUME NEW r \in Halves, r # w
        PROVE  /\ Pend(r)' <=> Pend(r)
               /\ Mine(r)' <=> Mine(r)
               /\ flight'[r] = flight[r] /\ Over(r)' = Over(r)
    BY <1>5, <1>7, <2>1 DEF Regs
  <2>2. Enabling' <=> Enabling
    BY <1>6 DEF Enabling
  <2>3. OvertakenInv'
    <3> SUFFICES ASSUME NEW r \in Halves, Pend(r)', ~Mine(r)', ~Enabling'
                 PROVE  /\ flight'[r] = 0
                        /\ \/ wait'[r] + prescaleCount' <= 3
                           \/ /\ wait'[r] = 0 /\ prescaleCount' <= 4
                              /\ vis'["ctrl"].on \/ flight'["ctrl"] = 3
      BY DEF OvertakenInv
    <3>1. r # w
      BY <1>7
    <3> QED BY <1>5, <1>6, <1>11, <2>1, <2>2, <3>1 DEF OvertakenInv
  <2>4. StoppedInv'
    <3> SUFFICES ASSUME NEW r \in Halves, flight'["ctrl"] = 0, Pend(r)' \/ ~Mine(r)', Over(r)' = 3
                 PROVE  prescaleCount' <= 4
      BY DEF StoppedInv
    <3>1. Pend(r) \/ ~Mine(r)
      BY <1>7, <2>1
    <3>2. Over(r) = 3
      BY <1>5
    <3> QED BY <1>5, <1>6, <1>11, <3>1, <3>2 DEF StoppedInv
  <2> QED BY <2>3, <2>4
<1>12. MineInv'
  <2> SUFFICES ASSUME NEW r \in Halves, Mine(r)'
               PROVE  IF Pend(r)' THEN vis'[r] = 0 /\ (flight'["ctrl"] > 0 => flight'[r] >= flight'["ctrl"])
                                 ELSE reg'[r] = 0 /\ flight'["ctrl"] = 0
    BY DEF MineInv
  <2>1. flight["ctrl"] \in 0..3 /\ r \in Regs
    BY DEF TypeOK, Regs
  <2>2. CASE r = w
    BY <1>3, <1>5, <1>6, <2>1, <2>2
  <2>3. CASE r # w
    BY <1>5, <1>6, <1>7, <2>1, <2>3 DEF MineInv
  <2> QED BY <2>2, <2>3
<1>13. TholdInv'
  <2> SUFFICES ASSUME NEW x \in Tholds, x \notin Left'
               PROVE  (IF flight'[x] > 0 THEN vis'[x] ELSE reg'[x]) = Part(x, threshold - 1)
    BY <1>1, <1>6 DEF TholdInv, Part
  <2>1. CASE x = w
    BY <1>3, <1>5, <2>1
  <2>2. CASE x # w
    <3>1. x \in Regs /\ x \notin Left
      BY <1>4, <2>2 DEF Regs, Tholds
    <3> QED BY <1>5, <2>2, <3>1 DEF TholdInv
  <2> QED BY <2>1, <2>2
<1>14. prompt' => SoonInv'
  <2> SUFFICES ASSUME prompt, NEW r \in Halves
               PROVE  /\ r \in Left' => flight'["ctrl"] = 3
                      /\ Pend(r)' /\ r \notin Left' =>
                           /\ Mine(r)'
                           /\ IF flight'["ctrl"] > 0 THEN ~held'[r] /\ flight'[r] = flight'["ctrl"]
                                                     ELSE held'[r] /\ wait'[r] <= 2
    BY <1>1, <1>6 DEF SoonInv
  <2>1. CASE r = w
    <3>1. flight["ctrl"] = 3
      BY <1>3, <2>1 DEF SoonInv
    <3>2. ~held[r]
      BY <1>5, <2>1 DEF Pend
    <3> QED BY <1>4, <1>5, <1>6, <1>7, <2>1, <3>1, <3>2
  <2>2. CASE r # w
    <3>1. r \in Regs \ {w}
      BY <2>2 DEF Regs
    <3> QED BY <1>4, <1>5, <1>6, <1>7, <2>2, <3>1 DEF SoonInv
  <2> QED BY <2>1, <2>2
<1> QED BY <1>5, <1>8, <1>9, <1>10, <1>11, <1>12, <1>13, <1>14

(* A call's last write, which enables the timer. *)
LEMMA EnableStep ==
  ASSUME AlarmInv, NextWrite, Target = "ctrl"
  PROVE  AlarmInv'
<1> USE DEF AlarmInv, BasicInv, SlowInv
<1>0. PICK v : v = Value
  OBVIOUS
<1>1. /\ call.todo # <<>> /\ Writes(call.todo, threshold) /\ Write("ctrl", v)
      /\ call' = [call EXCEPT !.todo = Tail(@)] /\ UNCHANGED <<threshold, prompt>> /\ ticks' = 0
      /\ "ctrl" \in Regs
  BY <1>0 DEF NextWrite, TypeOK, Regs, Target, Value
<1>2. call'.todo = Tail(call.todo) /\ DOMAIN call' = DOMAIN NoCall
  BY <1>1 DEF TypeOK, NoCall
<1>3. /\ On(v) /\ Left = {"ctrl"}
      /\ Tail(call.todo) = <<>> /\ Writes(Tail(call.todo), threshold)
      /\ Targets(Tail(call.todo)) = {}
  BY <1>0, <1>1, TailIsWrites DEF Left, Target, Value
<1>4. Left' = {} /\ call'.todo = <<>> /\ Writes(call'.todo, threshold')
  BY <1>1, <1>2, <1>3 DEF Left
<1>5. /\ flight["ctrl"] = 0 /\ flight'["ctrl"] = 3 /\ vis'["ctrl"] = v
      /\ flight' \in [Regs -> 0..3]
      /\ UNCHANGED <<reg, prescaleCount, wait, held>>
      /\ \A x \in Regs \ {"ctrl"} : /\ vis'[x] = vis[x] /\ flight'[x] = flight[x]
                                    /\ Pend(x)' <=> Pend(x)
      /\ \A x \in Halves : Over(x)' = Over(x)
      /\ BusyInv'
  BY <1>1, WriteFacts
<1>6. ~vis["ctrl"].on /\ ~reg["ctrl"].on /\ vis'["ctrl"].on
  BY <1>1, <1>3, <1>5 DEF CtrlInv, On
<1>7. \A r \in Halves : Mine(r) /\ ~Mine(r)' /\ r \in Regs \ {"ctrl"}
  BY <1>1, <1>3, <1>4 DEF Mine, Halves, Regs
<1>8. Enabling'
  BY <1>5, <1>6 DEF Enabling
<1>9. TypeOK'
  <2>1. v \in [on : BOOLEAN, prescaler : 0..PrescalerMask]
    BY <1>3, PrescalerAssumption DEF On
  <2>2. threshold' \in 1..(Half * Half) /\ ticks' \in Nat
    BY <1>1 DEF TypeOK
  <2> QED BY <1>1, <1>2, <1>4, <2>1, <2>2, WriteType DEF Halves
<1>10. CtrlInv'
  BY <1>3, <1>4, <1>5, <1>6 DEF CtrlInv
<1>11. Slow => OverInv' /\ OvertakenInv' /\ StoppedInv'
  BY <1>5, <1>6, <1>8 DEF OverInv, OvertakenInv, StoppedInv
<1>12. ASSUME Slow PROVE EnablingInv'
  <2> SUFFICES ASSUME NEW r \in Halves, Pend(r)'
               PROVE  /\ flight'[r] <= 3
                      /\ Over(r)' < 3 \/ Over(r)' + prescaleCount' <= 6 \/ (Over(r)' = 3 /\ prescaleCount' <= 4)
    BY <1>5 DEF EnablingInv
  <2>1. flight'[r] \in 0..3
    BY <1>5, <1>7
  <2>2. Over(r) \in Nat
    BY DEF Over, TypeOK
  <2>3. Over(r) <= 3 \/ Over(r) + prescaleCount <= 6
    BY <1>12 DEF OverInv
  <2>4. Over(r) = 3 => prescaleCount <= 4
    BY <1>5, <1>6, <1>7, <1>12 DEF StoppedInv
  <2> QED BY <1>5, <2>1, <2>2, <2>3, <2>4
<1>13. CountInv' /\ MineInv'
  <2>1. ASSUME NEW r \in Halves
        PROVE  IF Pend(r)' THEN vis'[r] = 0 ELSE reg'[r] = Part(r, 0)
    BY <1>5, <1>7, ZeroPart DEF MineInv
  <2> QED BY <1>1, <1>7, <2>1, CountAssumption DEF CountInv, MineInv
<1>14. TholdInv'
  <2> SUFFICES ASSUME NEW x \in Tholds
               PROVE  /\ (IF flight'[x] > 0 THEN vis'[x] ELSE reg'[x]) = Part(x, threshold - 1)
                      /\ flight'[x] <= 3
    BY <1>1, <1>5 DEF TholdInv, Part
  <2>1. x \in Regs \ {"ctrl"} /\ x \notin Left
    BY <1>3 DEF Regs, Tholds
  <2>2. flight'[x] \in 0..3
    BY <1>5, <2>1
  <2> QED BY <1>5, <2>1, <2>2 DEF TholdInv
<1>15. prompt' => SoonInv'
  <2> SUFFICES ASSUME prompt, NEW r \in Halves, Pend(r)'  PROVE held[r] /\ wait[r] < 3
    BY <1>1, <1>4, <1>5, <1>6 DEF SoonInv
  <2>1. Pend(r) /\ r \notin Left
    BY <1>3, <1>5, <1>7 DEF Halves
  <2>2. wait[r] \in 0..3
    BY DEF TypeOK
  <2> QED BY <1>5, <1>6, <2>1, <2>2 DEF SoonInv
<1> QED BY <1>5, <1>9, <1>10, <1>11, <1>12, <1>13, <1>14, <1>15

-----------------------------------------------------------------------------

LEMMA AlarmInit ==
  ASSUME Init
  PROVE  AlarmInv
<1> USE DEF Init
<1>1. call.todo = <<>> /\ Left = {} /\ \A r : ~Mine(r)
  BY NoWrites DEF NoCall, Left, Mine
<1>2. /\ \A r \in Regs : flight[r] = 0 /\ ~Pend(r) /\ due[r] = "none" /\ vis[r] = reg[r]
      /\ "ctrl" \in Regs /\ Halves \cup Tholds \subseteq Regs
  BY DEF Pend, Regs, Halves, Tholds
<1>3. /\ reg["ctrl"] = [on |-> FALSE, prescaler |-> 0]
      /\ \A r \in Halves \cup Tholds : reg[r] = 0
      /\ \A r \in Halves : Over(r) = 0 /\ wait[r] = 0 /\ ~held[r] /\ transit[r] = 0
  BY DEF Regs, Halves, Tholds, Over
<1>4. TypeOK
  <2>1. DOMAIN call = DOMAIN NoCall /\ Writes(call.todo, threshold)
    BY <1>1, NoWrites
  <2>2. /\ DOMAIN reg = Regs /\ DOMAIN vis = Regs /\ busy \subseteq Regs
        /\ flight \in [Regs -> 0..3] /\ wait \in [Halves -> 0..3] /\ held \in [Halves -> BOOLEAN]
        /\ due \in [Regs -> {"none", "ack", "update"}]
    OBVIOUS
  <2>3. 0 \in 0..(Half - 1) /\ 1 \in 1..(Half * Half) /\ 0 \in 0..PrescalerMask
    BY HalfAssumption, PrescalerAssumption
  <2>4. transit \in [Halves -> 0..(Half - 1)]
    BY <2>3
  <2>5. \A r \in Halves : reg[r] \in 0..(Half - 1) /\ vis[r] \in 0..(Half - 1)
                         /\ transit[r] \in 0..(Half - 1)
    BY <1>2, <1>3, <2>3
  <2>6. {reg["ctrl"], vis["ctrl"]} \subseteq [on : BOOLEAN, prescaler : 0..PrescalerMask]
    <3>1. [on |-> FALSE, prescaler |-> 0] \in [on : BOOLEAN, prescaler : 0..PrescalerMask]
      BY <2>3
    <3>2. reg["ctrl"] = [on |-> FALSE, prescaler |-> 0] /\ vis["ctrl"] = reg["ctrl"]
      BY <1>2, <1>3
    <3> QED BY <3>1, <3>2, Zenon
  <2> QED BY <2>1, <2>2, <2>3, <2>4, <2>5, <2>6 DEF TypeOK
<1>5. BusyInv /\ CtrlInv
  BY <1>2, <1>3 DEF BusyInv, CtrlInv, Halves
<1>6. OverInv /\ OvertakenInv /\ StoppedInv /\ EnablingInv
  BY <1>2, <1>3 DEF OverInv, OvertakenInv, StoppedInv, EnablingInv, Enabling
<1>7. CountInv /\ MineInv /\ SoonInv
  BY <1>1, <1>2, <1>3 DEF CountInv, MineInv, SoonInv
<1>8. TholdInv
  <2>1. threshold - 1 = 0 /\ ~vis["ctrl"].on
    BY <1>2, <1>3
  <2>2. ASSUME NEW x \in Tholds PROVE reg[x] = Part(x, threshold - 1) /\ flight[x] = 0
    BY <1>2, <1>3, <2>1, ZeroPart
  <2> QED BY <2>1, <2>2 DEF TholdInv
<1> QED BY <1>4, <1>5, <1>6, <1>7, <1>8 DEF AlarmInv, BasicInv, SlowInv

LEMMA AlarmStutter ==
  ASSUME AlarmInv, UNCHANGED vars
  PROVE  AlarmInv'
<1>1. UNCHANGED <<timerVars, vis, busy, flight, transit, wait, held, due, call, threshold, ticks, prompt>>
  BY DEF vars, crossingVars, history
<1>2. BusyInv'
  BY <1>1 DEF AlarmInv, BasicInv, BusyInv, Pend
<1>3. /\ \A r \in Halves : vis'[r] \in 0..(Half - 1)
      /\ due' \in [Regs -> {"none", "ack", "update"}] /\ busy' \subseteq Regs /\ DOMAIN vis' = Regs
  BY <1>1 DEF AlarmInv, BasicInv, TypeOK
<1> QED BY <1>1, <1>2, <1>3, QuietStep

LEMMA AlarmStep ==
  ASSUME AlarmInv, [Next]_vars
  PROVE  AlarmInv'
BY EdgeStep, DeliverStep, CallStep, SetUpStep, EnableStep, ReadStep, AlarmStutter DEF Next

(* The alarm comes with the tick that makes it the threshold, at any width *)
(* of the counter, with any threshold and any prescaler.                   *)
THEOREM AlarmAtThreshold == Spec => []AlarmOnTime
<1>1. Init => AlarmInv
  BY AlarmInit
<1>2. AlarmInv /\ [Next]_vars => AlarmInv'
  BY AlarmStep
<1>3. AlarmInv => AlarmOnTime
  <2> SUFFICES ASSUME AlarmInv, prompt \/ Slow, Incr, vis["ctrl"].on
               PROVE  Alarm <=> ticks + 1 >= threshold
    BY DEF AlarmOnTime
  <2> USE DEF AlarmInv, BasicInv
  <2>1. flight["ctrl"] = 0 /\ call.todo = <<>>
    BY TickFacts DEF CtrlInv
  <2>2. Left = {}
    BY <2>1, NoWrites DEF Left
  <2>3. ASSUME NEW x \in Tholds PROVE reg[x] = Part(x, threshold - 1)
    <3>1. flight[x] \in 0..3
      BY DEF TypeOK, Regs, Tholds
    <3> QED BY <2>1, <2>2, <3>1 DEF TholdInv
  <2>4. reg["tholdLo"] = (threshold - 1) % Half /\ reg["tholdHi"] = (threshold - 1) \div Half
    BY <2>3 DEF Tholds, Part
  <2>5. threshold - 1 \in Nat /\ ticks \in Nat /\ threshold \in Nat
    BY HalfAssumption DEF TypeOK
  <2>6. Number(reg["tholdHi"], reg["tholdLo"]) = threshold - 1
    BY <2>4, <2>5, DivMod
  <2>7. Alarm <=> ticks >= threshold - 1
    BY <2>6, TickCount DEF Alarm
  <2> QED BY <2>5, <2>7
<1> QED BY <1>1, <1>2, <1>3, PTL DEF Spec

=============================================================================
